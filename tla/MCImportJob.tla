---------------------------- MODULE MCImportJob ----------------------------
(* Instances of ImportJob for TLC: candidates and requests are model values. *)
EXTENDS ImportJob, TLC

CONSTANTS c1, c2, c3, s1, s2

OneCandidate      == {c1}
ThreeCandidates   == {c1, c2, c3}
OneSession        == {s1}
TwoSessions       == {s1, s2}
SessionSymmetry   == Permutations(TwoSessions)
CandidateSymmetry == Permutations(ThreeCandidates)
=============================================================================
