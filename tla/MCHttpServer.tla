---------------------------- MODULE MCHttpServer ----------------------------
(***************************************************************************)
(* A small instance of HttpServer for TLC.                                 *)
(***************************************************************************)
EXTENDS HttpServer, TLC

\* The gateway's second channel, which no endpoint uses.
AllChannels == {"printer", "other"}

Symmetry == Permutations(Conns)

=============================================================================
