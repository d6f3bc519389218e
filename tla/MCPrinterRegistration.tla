----------------------- MODULE MCPrinterRegistration -----------------------
(***************************************************************************)
(* A small instance of PrinterRegistration for TLC.                        *)
(***************************************************************************)
EXTENDS PrinterRegistration, FiniteSets, TLC

\* Bound: of the PATCH and DELETE calls three are made, in any combination.
ThreeCalls ==
    Cardinality({p \in Patches : patch[p].stage # "new"})
        + Cardinality({d \in Deletes : delete[d].stage # "new"}) <= 3

Symmetry ==
    Permutations(Macs) \cup Permutations(Registers)
        \cup Permutations(Patches) \cup Permutations(Deletes)

=============================================================================
