----------------------------- MODULE MCBlobPool -----------------------------
(***************************************************************************)
(* Buckets of 2 and 4 bytes and a budget of 6: two blocks of 4 do not fit, *)
(* one of each size does. The sizes are the bucket limits, one more, and   *)
(* 0.                                                                      *)
(***************************************************************************)
EXTENDS BlobPool

CONSTANTS t1, t2, b1, b2, b3
=============================================================================
