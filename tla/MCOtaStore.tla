----------------------------- MODULE MCOtaStore -----------------------------
(***************************************************************************)
(* A small instance of OtaStore for TLC.                                   *)
(***************************************************************************)
EXTENDS OtaStore

=============================================================================
