--------------------------- MODULE MCBlobCleanup ---------------------------
(* Instances of BlobCleanup for TLC. *)
EXTENDS BlobCleanup

CONSTANTS s1, s2, s3, k1, k2, w1, w2
=============================================================================
