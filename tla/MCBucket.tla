------------------------------ MODULE MCBucket ------------------------------
(* Bucket with a burst smaller than the longest frame. *)
EXTENDS Bucket

ASSUME OversizedFrames == BurstBytes < MaxLen
=============================================================================
