---------------------------- MODULE MCCatalogue ----------------------------
(* Instances of Catalogue for TLC. *)
EXTENDS Catalogue, TLC

CONSTANTS a1, a2, n1, k1, r1, r2

OneAsset    == {a1}
TwoAssets   == {a1, a2}
OneName     == {n1}
OneRequest  == {r1}
TwoRequests == {r1, r2}

AssetSymmetry == Permutations(TwoAssets)
=============================================================================
