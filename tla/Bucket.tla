------------------------------- MODULE Bucket -------------------------------
(***************************************************************************)
(* The token bucket behind the publish, join and datagram limits (struct   *)
(* Bucket): a byte level and a frame level, refilled at every attempt from *)
(* the time since the last one.  An attempt holds the bucket exclusively,  *)
(* so it is one step.  Time passes in ticks, levels and rates are whole    *)
(* numbers of bytes or frames (per tick): the code's f64 rounding is not   *)
(* modelled.                                                               *)
(***************************************************************************)
EXTENDS Integers

CONSTANTS
  RateBytes, BurstBytes,    \* Rate::bytes_per_second, burst_bytes
  RateFrames, BurstFrames,  \* Rate::frames_per_second, burst_frames
  MaxLen,                   \* the longest frame an attempt is made for
  MaxTime                   \* bound: ticks in a behaviour

ASSUME BucketAssumption ==
  /\ RateBytes \in Nat /\ BurstBytes \in Nat
  /\ RateFrames \in Nat /\ BurstFrames \in Nat
  /\ MaxLen \in Nat
  /\ MaxTime \in Nat

VARIABLES
  limited,      \* burst_bytes is finite; Rate::frames makes it infinite
  bytes,        \* Bucket::bytes, meaningful if limited
  frames,       \* Bucket::frames
  last,         \* Bucket::last
  now,          \* the clock
  bytesTaken,   \* bytes admitted so far
  framesTaken,  \* frames admitted so far
  bytesAt,      \* bytesAt[s]: bytes admitted before tick s
  framesAt      \* framesAt[s]: frames admitted before tick s

bucketVars == <<limited, bytes, frames, last, now, bytesTaken, framesTaken, bytesAt, framesAt>>

BucketTypeOK ==
  /\ limited \in BOOLEAN
  /\ bytes \in Int /\ bytes <= BurstBytes
  /\ frames \in 0 .. BurstFrames
  /\ now \in 0 .. MaxTime
  /\ last \in 0 .. now
  /\ bytesTaken \in Nat /\ framesTaken \in Nat
  /\ bytesAt \in [0 .. MaxTime -> Nat]
  /\ framesAt \in [0 .. MaxTime -> Nat]

BucketInit ==
  /\ limited \in BOOLEAN
  /\ bytes = BurstBytes
  /\ frames = BurstFrames
  /\ last = 0 /\ now = 0
  /\ bytesTaken = 0 /\ framesTaken = 0
  /\ bytesAt = [s \in 0 .. MaxTime |-> 0]
  /\ framesAt = [s \in 0 .. MaxTime |-> 0]

-----------------------------------------------------------------------------
Lesser(a, b) == IF a <= b THEN a ELSE b
Greater(a, b) == IF a >= b THEN a ELSE b

\* Faulty: an idle bucket saves up more than its burst.
RefillUncapped(level, rate, burst) == level + rate * (now - last)

Refill(level, rate, burst) == Lesser(level + rate * (now - last), burst)

RefilledBytes == Refill(bytes, RateBytes, BurstBytes)
RefilledFrames == Refill(frames, RateFrames, BurstFrames)

\* Faulty: a frame larger than the burst waits for a level it never reaches.
AllowsWhole(len) ==
  /\ RefilledFrames >= 1
  /\ limited => RefilledBytes >= len

\* A frame larger than the byte burst needs a full bucket.
Allows(len) ==
  /\ RefilledFrames >= 1
  /\ limited => RefilledBytes >= Lesser(len, BurstBytes)

\* Faulty: a frame that leaves the bucket in debt only empties it.
TakeForgiving(len) ==
  /\ last' = now
  /\ \/ /\ Allows(len)
        /\ frames' = RefilledFrames - 1
        /\ bytes' = IF limited THEN Greater(RefilledBytes - len, 0) ELSE bytes
        /\ framesTaken' = framesTaken + 1
        /\ bytesTaken' = bytesTaken + len
     \/ /\ ~Allows(len)
        /\ frames' = RefilledFrames
        /\ bytes' = IF limited THEN RefilledBytes ELSE bytes
        /\ UNCHANGED <<framesTaken, bytesTaken>>
  /\ UNCHANGED <<limited, now, bytesAt, framesAt>>

\* Bucket::try_take: a refused attempt refills the levels as well.
TryTake(len) ==
  /\ last' = now
  /\ \/ /\ Allows(len)
        /\ frames' = RefilledFrames - 1
        /\ bytes' = IF limited THEN RefilledBytes - len ELSE bytes
        /\ framesTaken' = framesTaken + 1
        /\ bytesTaken' = bytesTaken + len
     \/ /\ ~Allows(len)
        /\ frames' = RefilledFrames
        /\ bytes' = IF limited THEN RefilledBytes ELSE bytes
        /\ UNCHANGED <<framesTaken, bytesTaken>>
  /\ UNCHANGED <<limited, now, bytesAt, framesAt>>

\* The clock moves on.
Tick ==
  /\ now < MaxTime
  /\ now' = now + 1
  /\ bytesAt' = [bytesAt EXCEPT ![now + 1] = bytesTaken]
  /\ framesAt' = [framesAt EXCEPT ![now + 1] = framesTaken]
  /\ UNCHANGED <<limited, bytes, frames, last, bytesTaken, framesTaken>>

BucketNext == Tick \/ \E len \in 0 .. MaxLen : TryTake(len)

BucketSpec == BucketInit /\ [][BucketNext]_bucketVars

-----------------------------------------------------------------------------
\* In every window of time, wherever it starts, the bucket admits at most
\* its burst of frames plus what the rate grants for the window's length,
\* however attempts are spread over it.
FramesWithinRate ==
  \A s \in 0 .. now :
    framesTaken - framesAt[s] <= BurstFrames + RateFrames * (now - s)

\* The same for bytes.  A frame larger than the burst is paid back by the
\* debt it leaves, so a window exceeds the rate by the burst or by one such
\* frame, never by both.
BytesWithinRate ==
  limited => \A s \in 0 .. now :
    bytesTaken - bytesAt[s] <= Greater(BurstBytes, MaxLen) + RateBytes * (now - s)

\* Debt never locks a client out: whatever was sent before, a bucket that
\* was left alone for as long as its rates need to earn one frame and the
\* longest one's bytes admits a frame of any length.
IdleBucketAdmits ==
  /\ BurstFrames >= 1
  /\ RateFrames * (now - last) >= 1
  /\ RateBytes * (now - last) >= MaxLen
  => \A len \in 0 .. MaxLen : Allows(len)
=============================================================================
