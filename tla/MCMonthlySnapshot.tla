------------------------- MODULE MCMonthlySnapshot -------------------------
(***************************************************************************)
(* Small instances of MonthlySnapshot for TLC: from the last of December   *)
(* to the first of February: a day that the month before does not have, a  *)
(* change of year, and a last day that the month before has.               *)
(***************************************************************************)
EXTENDS MonthlySnapshot, TLC

EndOfDecember   == [year |-> 2025, month |-> 12, day |-> 31]
FirstOfFebruary == [year |-> 2026, month |-> 2, day |-> 1]

Symmetry == Permutations(Macs) \cup Permutations(Serials)

=============================================================================
