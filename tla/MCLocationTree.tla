-------------------------- MODULE MCLocationTree ---------------------------
(* Instances of LocationTree for TLC. *)
EXTENDS LocationTree, TLC

CONSTANTS l1, l2, l3, a1, r1, r2

ThreeLocations == {l1, l2, l3}
OneAsset       == {a1}
TwoRequests    == {r1, r2}

TreeSymmetry == Permutations(ThreeLocations) \cup Permutations(TwoRequests)
=============================================================================
