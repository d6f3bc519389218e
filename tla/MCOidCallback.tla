--------------------------- MODULE MCOidCallback ---------------------------
(***************************************************************************)
(* A small instance of OidCallback for TLC.  Symmetry is not used, because *)
(* the run also checks liveness.                                           *)
(***************************************************************************)
EXTENDS OidCallback

=============================================================================
