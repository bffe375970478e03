-------------------------- MODULE MCEvidenceStore --------------------------
(* An instance of EvidenceStore for TLC. *)
EXTENDS EvidenceStore, TLC

CONSTANTS u1, u2, d1, t1, h1, h2

TwoUploads == {u1, u2}
OneContent == {d1}
OneText    == {t1}
TwoHomes   == {h1, h2}
OneExt     == {"jpg"}

UploadSymmetry == Permutations(TwoUploads)
=============================================================================
