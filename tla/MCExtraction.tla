---------------------------- MODULE MCExtraction ----------------------------
(* Instances of Extraction for TLC. *)
EXTENDS Extraction

CONSTANTS j1, j2

OneJob  == {j1}
TwoJobs == {j1, j2}
=============================================================================
