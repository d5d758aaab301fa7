----------------------------- MODULE MCStid135 -----------------------------
(***************************************************************************)
(* Instances of Stid135Reservation for TLC.                                *)
(***************************************************************************)
EXTENDS Stid135Reservation, TLC

CONSTANTS c1, c2, d1, d2, d3

OneChip == [d \in Demods |-> c1]
TwoChips == [d \in Demods |-> IF d = d3 THEN c2 ELSE c1]
NegativeConfigs == {-1, 2}
AllOnInput0 == [d \in Demods |-> 0]

\* The demods of one chip are interchangeable.
DemodSymmetry == Permutations(Demods)
ChipSymmetry == Permutations({d1, d2})
=============================================================================
