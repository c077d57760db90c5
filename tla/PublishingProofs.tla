-------------------------- MODULE PublishingProofs --------------------------
(***************************************************************************)
(* Proofs about what a published frame passes: the token buckets (Bucket), *)
(* for all rates, bursts and frame lengths, and the fan-out to the members *)
(* of its room (Fanout).                                                   *)
(*                                                                         *)
(* Bucket.  The windows' bounds are not inductive: what a window admitted  *)
(* has to be weighed against what is left in the bucket.  For a window     *)
(* that starts at or before the last attempt, what was admitted since plus *)
(* the current level is at most the burst plus what the rate granted up to *)
(* that attempt (Ledger).  A window that starts later has admitted         *)
(* nothing.                                                                *)
(*                                                                         *)
(* Fanout.  It implements PubSub, for any number of endpoints, topics,     *)
(* connections, streams and frames.  The inductive invariant says that a   *)
(* slot is held by a connection of its endpoint, that a connection id not  *)
(* handed out has no readers and nothing queued, and that the frame a      *)
(* reader has in hand is newer than every frame it has published, so a     *)
(* publish is of a message not sent before.                                *)
(***************************************************************************)
EXTENDS Bucket, Fanout, TLAPS

\* What the levels and the history of admissions at and level keep in
\* balance, for a bucket of the given rate and burst.
Ledger(used, at, level, rate, burst) ==
  \A s \in 0 .. now :
    IF s <= last THEN used - at[s] + level <= burst + rate * (last - s)
                 ELSE used = at[s]

\* The deepest debt is left by the longest frame taken from a full bucket.
DebtBounded == bytes >= Lesser(0, BurstBytes - MaxLen)

BucketInv ==
  /\ BucketTypeOK
  /\ DebtBounded
  /\ Ledger(framesTaken, framesAt, frames, RateFrames, BurstFrames)
  /\ limited => Ledger(bytesTaken, bytesAt, bytes, RateBytes, BurstBytes)

-----------------------------------------------------------------------------
\* Time elapsed adds up under a rate.
LEMMA RateAdds ==
  ASSUME NEW rate \in Nat, NEW a \in Int, NEW b \in Int, NEW c \in Int
  PROVE  rate * (b - a) + rate * (c - b) = rate * (c - a)
  OBVIOUS

\* More time grants no less.
LEMMA RateMonotone ==
  ASSUME NEW rate \in Nat, NEW a \in Nat
  PROVE  rate * a \in Nat
  OBVIOUS

\* Refill never exceeds the burst, nor what the elapsed time grants, and
\* never takes anything away.
LEMMA RefillBounds ==
  ASSUME BucketTypeOK, NEW level \in Int, NEW rate \in Nat, NEW burst \in Nat, level <= burst
  PROVE  /\ Refill(level, rate, burst) \in Int
         /\ Refill(level, rate, burst) <= burst
         /\ Refill(level, rate, burst) <= level + rate * (now - last)
         /\ level <= Refill(level, rate, burst)
<1> DEFINE r == rate * (now - last)
<1>1. now - last \in Nat
  BY BucketAssumption DEF BucketTypeOK
<1>2. r \in Nat
  BY <1>1, RateMonotone
<1> HIDE DEF r
<1>3. Refill(level, rate, burst) = IF level + r <= burst THEN level + r ELSE burst
  BY DEF Refill, Lesser, r
<1> QED
  BY <1>2, <1>3 DEF r

\* An attempt that takes t from a level keeps that level's ledger.
LEMMA LedgerAttempt ==
  ASSUME BucketTypeOK, NEW used \in Nat, NEW at \in [0 .. MaxTime -> Nat],
         NEW level \in Int, NEW rate \in Nat, NEW burst \in Nat, level <= burst,
         NEW t \in Nat, NEW s \in 0 .. now,
         Ledger(used, at, level, rate, burst)
  PROVE  (used + t) - at[s] + (Refill(level, rate, burst) - t) <= burst + rate * (now - s)
<1> DEFINE f == Refill(level, rate, burst)
<1>1. f \in Int /\ f <= burst /\ f <= level + rate * (now - last)
  BY RefillBounds
<1>2. now \in Nat /\ last \in Nat /\ s \in Nat /\ s <= now /\ s \in 0 .. MaxTime
  BY BucketAssumption DEF BucketTypeOK
<1>3. at[s] \in Nat
  BY <1>2
<1>4. rate * (last - s) \in Int /\ rate * (now - last) \in Int
  BY <1>2
<1>5. used - at[s] + f <= burst + rate * (now - s)
  <2>1. CASE s <= last
    <3>1. used - at[s] + level <= burst + rate * (last - s)
      BY <2>1 DEF Ledger
    <3>2. rate * (last - s) + rate * (now - last) = rate * (now - s)
      BY <1>2, RateAdds
    <3> HIDE DEF f
    <3> QED
      BY <1>1, <1>3, <1>4, <3>1, <3>2, SMTT(60)
  <2>2. CASE ~(s <= last)
    <3>1. used = at[s]
      BY <2>2 DEF Ledger
    <3>2. now - s \in Nat
      BY <1>2
    <3>3. rate * (now - s) \in Nat
      BY <3>2, RateMonotone
    <3> HIDE DEF f
    <3> QED
      BY <1>1, <1>3, <3>1, <3>3
  <2> QED
    BY <2>1, <2>2
<1> HIDE DEF f
<1>6. rate * (now - s) \in Int
  BY <1>2
<1>7. (used + t) - at[s] + (f - t) = used - at[s] + f
  BY <1>1, <1>3
<1> QED
  BY <1>5, <1>7 DEF f

-----------------------------------------------------------------------------
LEMMA BucketInitInv == BucketInit => BucketInv
<1> SUFFICES ASSUME BucketInit PROVE BucketInv
  OBVIOUS
<1>1. BucketTypeOK
  BY BucketAssumption DEF BucketInit, BucketTypeOK
<1>2. DebtBounded
  BY BucketAssumption DEF BucketInit, DebtBounded, Lesser
<1>3. \A s \in 0 .. now : s = 0
  BY DEF BucketInit
<1>4. RateFrames * (0 - 0) = 0 /\ RateBytes * (0 - 0) = 0
  BY BucketAssumption
<1>5. Ledger(framesTaken, framesAt, frames, RateFrames, BurstFrames)
  BY <1>3, <1>4, BucketAssumption DEF BucketInit, Ledger
<1>6. Ledger(bytesTaken, bytesAt, bytes, RateBytes, BurstBytes)
  BY <1>3, <1>4, BucketAssumption DEF BucketInit, Ledger
<1> QED
  BY <1>1, <1>2, <1>5, <1>6 DEF BucketInv

LEMMA TickInv == BucketInv /\ Tick => BucketInv'
<1> SUFFICES ASSUME BucketInv, Tick PROVE BucketInv'
  OBVIOUS
<1>1. BucketTypeOK /\ now \in Nat /\ last \in Nat /\ last <= now /\ now + 1 \in 0 .. MaxTime
  BY BucketAssumption, SMTT(60) DEF BucketInv, Tick, BucketTypeOK
<1>2. BucketTypeOK'
  BY <1>1 DEF Tick, BucketTypeOK
<1>3. DebtBounded'
  BY DEF BucketInv, Tick, DebtBounded
<1>4. Ledger(framesTaken, framesAt, frames, RateFrames, BurstFrames)'
  BY <1>1 DEF BucketInv, Tick, Ledger, BucketTypeOK
<1>5. (limited => Ledger(bytesTaken, bytesAt, bytes, RateBytes, BurstBytes))'
  BY <1>1 DEF BucketInv, Tick, Ledger, BucketTypeOK
<1> QED
  BY <1>2, <1>3, <1>4, <1>5 DEF BucketInv

LEMMA TakeInv ==
  ASSUME BucketInv, NEW len \in 0 .. MaxLen, TryTake(len)
  PROVE  BucketInv'
<1>1. BucketTypeOK /\ last' = now /\ now' = now /\ limited' = limited
      /\ bytesAt' = bytesAt /\ framesAt' = framesAt
  BY DEF BucketInv, TryTake
<1>2. len \in Nat /\ len <= MaxLen /\ MaxLen \in Nat
  BY BucketAssumption
<1>3. PICK b \in {0, 1} : frames' = RefilledFrames - b /\ framesTaken' = framesTaken + b
                          /\ (b = 1 => RefilledFrames >= 1)
  <2>1. framesTaken \in Nat /\ RefilledFrames \in Int
    BY <1>1, RefillBounds, BucketAssumption DEF BucketTypeOK, RefilledFrames
  <2>2. CASE Allows(len) /\ frames' = RefilledFrames - 1 /\ framesTaken' = framesTaken + 1
    BY <2>2, <2>1 DEF Allows
  <2>3. CASE frames' = RefilledFrames /\ framesTaken' = framesTaken
    BY <2>3, <2>1
  <2> QED
    BY <2>2, <2>3 DEF TryTake
<1>4. PICK k \in {0, len} : /\ limited => bytes' = RefilledBytes - k
                            /\ bytesTaken' = bytesTaken + k
                            /\ k = len /\ k # 0 /\ limited => RefilledBytes >= Lesser(len, BurstBytes)
  <2>1. bytesTaken \in Nat /\ RefilledBytes \in Int
    BY <1>1, RefillBounds, BucketAssumption DEF BucketTypeOK, RefilledBytes
  <2>2. CASE Allows(len) /\ bytesTaken' = bytesTaken + len
             /\ bytes' = IF limited THEN RefilledBytes - len ELSE bytes
    BY <2>2 DEF Allows
  <2>3. CASE bytesTaken' = bytesTaken /\ bytes' = IF limited THEN RefilledBytes ELSE bytes
    <3>1. bytesTaken + 0 = bytesTaken /\ RefilledBytes - 0 = RefilledBytes
      BY <2>1
    <3>2. limited => bytes' = RefilledBytes - 0
      BY <2>3, <3>1
    <3> WITNESS 0 \in {0, len}
    <3> QED
      BY <2>3, <3>1, <3>2
  <2> QED
    BY <2>2, <2>3 DEF TryTake
<1>5. ~limited => bytes' = bytes
  BY DEF TryTake
<1>6. k \in Nat /\ k <= MaxLen /\ b \in Nat
  BY <1>2
<1>7. RefilledBytes \in Int /\ RefilledBytes <= BurstBytes /\ bytes <= RefilledBytes
  BY <1>1, RefillBounds, BucketAssumption, Zenon DEF BucketTypeOK, RefilledBytes
<1>8. RefilledFrames \in Int /\ RefilledFrames <= BurstFrames /\ frames <= RefilledFrames
  <2>1. frames \in Int /\ frames <= BurstFrames
    BY <1>1, BucketAssumption DEF BucketTypeOK
  <2> QED
    BY <1>1, <2>1, RefillBounds, BucketAssumption, SMTT(20), ZenonT(20), SMTT(30) DEF RefilledFrames
<1>9. BucketTypeOK'
  <2>1. bytes' \in Int /\ bytes' <= BurstBytes
    BY <1>1, <1>4, <1>5, <1>6, <1>7, BucketAssumption DEF BucketTypeOK
  <2>2. frames' \in 0 .. BurstFrames
    BY <1>1, <1>3, <1>8, BucketAssumption DEF BucketTypeOK
  <2>3. bytesTaken' \in Nat /\ framesTaken' \in Nat
    BY <1>1, <1>3, <1>4, <1>6 DEF BucketTypeOK
  <2> QED
    BY <1>1, <2>1, <2>2, <2>3, BucketAssumption DEF BucketTypeOK
<1>10. DebtBounded'
  BY <1>1, <1>2, <1>4, <1>5, <1>6, <1>7, BucketAssumption, SMTT(60) DEF BucketInv, DebtBounded, Lesser, BucketTypeOK
<1>11. Ledger(framesTaken, framesAt, frames, RateFrames, BurstFrames)'
  <2> SUFFICES ASSUME NEW s \in 0 .. now
               PROVE  framesTaken' - framesAt[s] + frames' <= BurstFrames + RateFrames * (now - s)
    BY <1>1 DEF Ledger
  <2>1. /\ framesTaken \in Nat /\ framesAt \in [0 .. MaxTime -> Nat]
        /\ frames \in Int /\ frames <= BurstFrames
    BY <1>1, BucketAssumption DEF BucketTypeOK
  <2>2. Ledger(framesTaken, framesAt, frames, RateFrames, BurstFrames)
    BY DEF BucketInv
  <2>3. (framesTaken + b) - framesAt[s] + (Refill(frames, RateFrames, BurstFrames) - b)
          <= BurstFrames + RateFrames * (now - s)
    BY <1>1, <1>6, <2>1, <2>2, LedgerAttempt, BucketAssumption, Zenon
  <2> QED
    BY <1>3, <2>3 DEF RefilledFrames
<1>12. (limited => Ledger(bytesTaken, bytesAt, bytes, RateBytes, BurstBytes))'
  <2> SUFFICES ASSUME limited, NEW s \in 0 .. now
               PROVE  bytesTaken' - bytesAt[s] + bytes' <= BurstBytes + RateBytes * (now - s)
    BY <1>1 DEF Ledger
  <2>1. /\ bytesTaken \in Nat /\ bytesAt \in [0 .. MaxTime -> Nat]
        /\ bytes \in Int /\ bytes <= BurstBytes
    BY <1>1 DEF BucketTypeOK
  <2>2. Ledger(bytesTaken, bytesAt, bytes, RateBytes, BurstBytes)
    BY DEF BucketInv
  <2>3. (bytesTaken + k) - bytesAt[s] + (Refill(bytes, RateBytes, BurstBytes) - k)
          <= BurstBytes + RateBytes * (now - s)
    BY <1>1, <1>6, <2>1, <2>2, LedgerAttempt, BucketAssumption, Zenon
  <2> QED
    BY <1>4, <2>3 DEF RefilledBytes
<1> QED
  BY <1>9, <1>10, <1>11, <1>12 DEF BucketInv

LEMMA BucketNextInv == BucketInv /\ [BucketNext]_bucketVars => BucketInv'
<1> SUFFICES ASSUME BucketInv, [BucketNext]_bucketVars PROVE BucketInv'
  OBVIOUS
<1>1. CASE Tick
  BY <1>1, TickInv
<1>2. ASSUME NEW len \in 0 .. MaxLen, TryTake(len) PROVE BucketInv'
  BY <1>2, TakeInv
<1>3. CASE UNCHANGED bucketVars
  BY <1>3 DEF bucketVars, BucketInv, BucketTypeOK, DebtBounded, Ledger
<1> QED
  BY <1>1, <1>2, <1>3 DEF BucketNext

LEMMA SpecInv == BucketSpec => []BucketInv
  BY BucketInitInv, BucketNextInv, PTL DEF BucketSpec

-----------------------------------------------------------------------------
\* The levels keep their types: the frame level never goes below zero and
\* neither level exceeds its burst.
THEOREM TypeCorrect == BucketSpec => []BucketTypeOK
<1>1. BucketInv => BucketTypeOK
  BY DEF BucketInv
<1> QED
  BY <1>1, SpecInv, PTL

\* From any level to the present: what the window admitted.
LEMMA WindowBound ==
  ASSUME BucketTypeOK, NEW used \in Nat, NEW at \in [0 .. MaxTime -> Nat],
         NEW level \in Int, NEW rate \in Nat, NEW burst \in Nat, level <= burst,
         NEW s \in 0 .. now, NEW debt \in Nat, -debt <= level,
         Ledger(used, at, level, rate, burst)
  PROVE  used - at[s] <= burst + debt + rate * (now - s)
<1>1. now \in Nat /\ last \in Nat /\ last <= now /\ s \in Nat /\ s <= now /\ s \in 0 .. MaxTime
  BY BucketAssumption DEF BucketTypeOK
<1>2. at[s] \in Nat
  BY <1>1
<1>3. (used + 0) - at[s] + (Refill(level, rate, burst) - 0) <= burst + rate * (now - s)
  BY LedgerAttempt, Zenon
<1>4. Refill(level, rate, burst) \in Int /\ level <= Refill(level, rate, burst)
  BY RefillBounds
<1> DEFINE f == Refill(level, rate, burst)
           r == rate * (now - s)
<1>5. r \in Int
  BY <1>1
<1> HIDE DEF f, r
<1>6. (used + 0) - at[s] + (f - 0) <= burst + r /\ f \in Int /\ level <= f
  BY <1>3, <1>4 DEF f, r
<1>7. used - at[s] <= burst + debt + r
  BY <1>2, <1>5, <1>6
<1> QED
  BY <1>7 DEF r

\* No window of time admits more frames than the burst plus the rate times
\* its length, for any rate and burst (Bucket::try_take).
THEOREM FramesBounded == BucketSpec => []FramesWithinRate
<1>1. BucketInv => FramesWithinRate
  <2> SUFFICES ASSUME BucketInv, NEW s \in 0 .. now
               PROVE  framesTaken - framesAt[s] <= BurstFrames + RateFrames * (now - s)
    BY DEF FramesWithinRate
  <2>1. /\ BucketTypeOK /\ Ledger(framesTaken, framesAt, frames, RateFrames, BurstFrames)
        /\ framesTaken \in Nat /\ framesAt \in [0 .. MaxTime -> Nat]
        /\ frames \in Int /\ frames <= BurstFrames /\ -0 <= frames
    BY BucketAssumption DEF BucketInv, BucketTypeOK
  <2>2. framesTaken - framesAt[s] <= BurstFrames + 0 + RateFrames * (now - s)
    BY <2>1, WindowBound, BucketAssumption, Zenon
  <2> QED
    BY <2>2, BucketAssumption
<1> QED
  BY <1>1, SpecInv, PTL

\* No window admits more bytes than the rate times its length plus the burst
\* or, if that is longer, one frame of the greatest length.
THEOREM BytesBounded == BucketSpec => []BytesWithinRate
<1>1. BucketInv => BytesWithinRate
  <2> SUFFICES ASSUME BucketInv, limited, NEW s \in 0 .. now
               PROVE  bytesTaken - bytesAt[s]
                        <= Greater(BurstBytes, MaxLen) + RateBytes * (now - s)
    BY DEF BytesWithinRate
  <2> DEFINE debt == Greater(BurstBytes, MaxLen) - BurstBytes
  <2>1. debt \in Nat /\ -debt <= bytes
    BY BucketAssumption DEF BucketInv, DebtBounded, BucketTypeOK, Greater, Lesser
  <2>2. BurstBytes + debt = Greater(BurstBytes, MaxLen)
    BY BucketAssumption DEF Greater
  <2> HIDE DEF debt
  <2>3. /\ BucketTypeOK /\ Ledger(bytesTaken, bytesAt, bytes, RateBytes, BurstBytes)
        /\ bytesTaken \in Nat /\ bytesAt \in [0 .. MaxTime -> Nat]
        /\ bytes \in Int /\ bytes <= BurstBytes
    BY DEF BucketInv, BucketTypeOK
  <2>4. bytesTaken - bytesAt[s] <= BurstBytes + debt + RateBytes * (now - s)
    BY <2>1, <2>3, WindowBound, BucketAssumption, Zenon
  <2> QED
    BY <2>2, <2>4
<1> QED
  BY <1>1, SpecInv, PTL

\* A bucket left alone for long enough admits a frame of any length, however
\* deep the debt was.
THEOREM IdleAdmits == BucketSpec => []IdleBucketAdmits
<1>1. BucketInv => IdleBucketAdmits
  <2> SUFFICES ASSUME BucketInv, BurstFrames >= 1, RateFrames * (now - last) >= 1,
                      RateBytes * (now - last) >= MaxLen, NEW len \in 0 .. MaxLen
               PROVE  Allows(len)
    BY DEF IdleBucketAdmits
  <2> DEFINE rf == RateFrames * (now - last)
             rb == RateBytes * (now - last)
  <2>1. now \in Nat /\ last \in Nat /\ last <= now
    BY BucketAssumption DEF BucketInv, BucketTypeOK
  <2>2. rf \in Int /\ rb \in Int /\ rf >= 1 /\ rb >= MaxLen
    BY <2>1, BucketAssumption
  <2> HIDE DEF rf, rb
  <2>3. frames \in Nat /\ bytes \in Int /\ bytes >= Lesser(0, BurstBytes - MaxLen)
    BY BucketAssumption DEF BucketInv, BucketTypeOK, DebtBounded
  <2>4. Lesser(frames + rf, BurstFrames) >= 1
    BY <2>2, <2>3, BucketAssumption DEF Lesser
  <2>5. Lesser(bytes + rb, BurstBytes) >= Lesser(len, BurstBytes)
    BY <2>2, <2>3, BucketAssumption DEF Lesser
  <2> QED
    BY <2>4, <2>5 DEF Allows, RefilledFrames, RefilledBytes, Refill, rf, rb
<1> QED
  BY <1>1, SpecInv, PTL

-----------------------------------------------------------------------------
(***************************************************************************)
(* The fan-out.                                                            *)
(***************************************************************************)
Checked == [n : Nat, topic : Topics \cup {{}}, to : Recipients]

FanoutTypeOK ==
  /\ TableTypeOK
  /\ phase \in [Conns -> {"new", "open", "ending", "done"}]
  /\ running \in [Conns -> SUBSET Streams]
  /\ taken \in 0 .. MaxFrames
  /\ checked \in [Conns -> [Streams -> Checked]]
  /\ sent \subseteq Frames
  /\ received \in [Conns -> Seq(Frames)]

\* A connection id not handed out has no endpoint, no reader and no DELIVER;
\* one that was handed out has an endpoint.
ConnInv ==
  \A c \in Conns :
    /\ c >= nextConn => phase[c] = "new" /\ running[c] = {} /\ received[c] = <<>>
    /\ c < nextConn => peer[c] \in Peers
    /\ c >= nextConn => \A s \in Streams : checked[c][s] = NoFrame

\* A slot is held by a connection of its endpoint.
OwnerInv ==
  \A t \in Topics, p \in Peers :
    owner[t][p] # NoConn => owner[t][p] < nextConn /\ peer[owner[t][p]] = p

\* The frame a reader has in hand is newer than all it has published.
FrameInv ==
  /\ \A f \in sent : f.n <= taken
  /\ \A c \in Conns, s \in Streams : checked[c][s] # NoFrame =>
       /\ checked[c][s].n \in 1 .. taken
       /\ checked[c][s].topic \in Topics
       /\ \A f \in sent : f.conn = c /\ f.stream = s => f.n < checked[c][s].n
  /\ \A c \in Conns : \A i \in DOMAIN received[c] : received[c][i] \in sent

FanoutInv == FanoutTypeOK /\ ConnInv /\ OwnerInv /\ FrameInv /\ StreamsStayOrdered

USE DEF Conns, NoConn

-----------------------------------------------------------------------------
LEMMA NoFrameTyped == NoFrame \in Checked
BY DEF NoFrame, Checked, Recipients

LEMMA FanoutStarts == FanoutInit => FanoutInv
<1> SUFFICES ASSUME FanoutInit PROVE FanoutInv
  OBVIOUS
<1> USE ConstantsAssumption, FanoutAssumption DEF FanoutInit, TableInit
<1>1. FanoutTypeOK
  <2>1. TableTypeOK
    BY DEF TableTypeOK
  <2>2. checked \in [Conns -> [Streams -> Checked]]
    BY NoFrameTyped
  <2>3. received \in [Conns -> Seq(Frames)]
    OBVIOUS
  <2>4. phase \in [Conns -> {"new", "open", "ending", "done"}] /\ running \in [Conns -> SUBSET Streams]
    BY Zenon
  <2>5. taken \in 0 .. MaxFrames /\ sent \subseteq Frames
    OBVIOUS
  <2> QED
    BY <2>1, <2>2, <2>3, <2>4, <2>5, Zenon DEF FanoutTypeOK
<1>2. ConnInv
  BY DEF ConnInv
<1>3. OwnerInv
  BY DEF OwnerInv
<1>4. FrameInv
  BY DEF FrameInv
<1>5. StreamsStayOrdered
  BY DEF StreamsStayOrdered
<1> QED
  BY <1>1, <1>2, <1>3, <1>4, <1>5 DEF FanoutInv

-----------------------------------------------------------------------------
(***************************************************************************)
(* Publishing.                                                             *)
(***************************************************************************)
\* A connection with a frame in hand, or one that owns a slot, has an endpoint.
LEMMA HasEndpoint ==
  ASSUME FanoutInv, NEW c \in Conns,
         phase[c] # "new" \/ running[c] # {} \/ \E s \in Streams : checked[c][s] # NoFrame
  PROVE  peer[c] \in Peers /\ c < nextConn
<1>1. nextConn \in Nat
  BY ConstantsAssumption DEF FanoutInv, FanoutTypeOK, TableTypeOK
<1>2. c < nextConn
  BY <1>1, ConstantsAssumption DEF FanoutInv, ConnInv
<1> QED
  BY <1>2 DEF FanoutInv, ConnInv

\* Whom a frame goes to: owners of other endpoints' slots in its room.
LEMMA TargetsOwn ==
  ASSUME FanoutInv, NEW t \in Topics, NEW p \in Peers, NEW to \in Recipients, NEW d \in Targets(t, p, to)
  PROVE  /\ d \in Conns /\ d < nextConn
         /\ peer[d] \in Peers /\ peer[d] # p
         /\ owner[t][peer[d]] = d
<1>1. PICK q \in Peers : q # p /\ owner[t][q] = d /\ d # NoConn
  BY FanoutAssumption DEF Targets, OtherMembers, InRoom, Recipients
<1>2. d \in Conns
  BY <1>1 DEF FanoutInv, FanoutTypeOK, TableTypeOK
<1>3. d < nextConn /\ peer[d] = q
  BY <1>1 DEF FanoutInv, OwnerInv
<1> QED
  BY <1>1, <1>2, <1>3

\* What an accepted publish does, in terms of the table.
Accepted(c, s, lost) ==
  LET f == [conn |-> c, stream |-> s, n |-> checked[c][s].n]
      t == checked[c][s].topic
      targets == Targets(t, peer[c], checked[c][s].to)
  IN
  /\ checked[c][s] # NoFrame
  /\ OwnsSlot(t, c)
  /\ sent' = sent \cup {f}
  /\ received' = [d \in Conns |-> IF d \in targets \ lost THEN Append(received[d], f) ELSE received[d]]

LEMMA PublishCases ==
  ASSUME NEW c \in Conns, NEW s \in Streams, NEW lost, Publish(c, s, lost)
  PROVE  Accepted(c, s, lost) \/ (sent' = sent /\ received' = received)
BY DEF Publish, Accepted, MayPublish

LEMMA PublishedFrame ==
  ASSUME FanoutInv, NEW c \in Conns, NEW s \in Streams, checked[c][s] # NoFrame
  PROVE  /\ [conn |-> c, stream |-> s, n |-> checked[c][s].n] \in Frames
         /\ [conn |-> c, stream |-> s, n |-> checked[c][s].n] \notin sent
         /\ checked[c][s].topic \in Topics /\ checked[c][s].to \in Recipients
         /\ peer[c] \in Peers
<1> DEFINE f == [conn |-> c, stream |-> s, n |-> checked[c][s].n]
<1>1. checked[c][s].n \in 1 .. taken /\ taken \in 0 .. MaxFrames /\ checked[c][s].topic \in Topics
  BY DEF FanoutInv, FrameInv, FanoutTypeOK
<1>2. f \in Frames
  BY <1>1, FanoutAssumption DEF Frames
<1>3. f \notin sent
  <2> SUFFICES ASSUME f \in sent PROVE FALSE
    OBVIOUS
  <2>1. f.n < checked[c][s].n
    BY DEF FanoutInv, FrameInv
  <2> QED
    BY <1>1, <2>1, FanoutAssumption
<1>4. checked[c][s].to \in Recipients
  BY DEF FanoutInv, FanoutTypeOK, Checked
<1> QED
  BY <1>1, <1>2, <1>3, <1>4, HasEndpoint

-----------------------------------------------------------------------------
(***************************************************************************)
(* The invariant is inductive.                                             *)
(***************************************************************************)
LEMMA FanoutCases ==
  ASSUME [FanoutNext]_fanoutVars
  PROVE  \/ \E p \in Peers : Open(p)
         \/ \E c \in Conns, t \in Topics : Join(c, t)
         \/ \E c \in Conns, t \in Topics : Leave(c, t)
         \/ \E c \in Conns, still \in SUBSET Streams : EndSession(c, still)
         \/ \E c \in Conns : DropSession(c)
         \/ \E c \in Conns, s \in Streams : Stop(c, s)
         \/ \E c \in Conns, s \in Streams, t \in Topics, to \in Recipients : Check(c, s, t, to)
         \/ \E c \in Conns, s \in Streams : RateLimit(c, s)
         \/ \E c \in Conns, s \in Streams, lost \in SUBSET Conns : Publish(c, s, lost)
         \/ UNCHANGED fanoutVars
BY DEF FanoutNext

LEMMA TableNext ==
  ASSUME FanoutInv, [FanoutNext]_fanoutVars
  PROVE  TableTypeOK' /\ OwnerInv'
<1> USE ConstantsAssumption DEF FanoutInv, FanoutTypeOK
<1>0. TableTypeOK /\ OwnerInv /\ nextConn \in Nat
  BY DEF TableTypeOK
<1>1. CASE \E p \in Peers : Open(p)
  <2> PICK p \in Peers : Open(p)
    BY <1>1
  <2>1. nextConn \in Conns /\ peer' = [peer EXCEPT ![nextConn] = p] /\ nextConn' = nextConn + 1 /\ UNCHANGED <<rooms, owner>>
    BY DEF Open, NewConn
  <2>2. TableTypeOK'
    BY <1>0, <2>1 DEF TableTypeOK
  <2>3. OwnerInv'
    BY <1>0, <2>1 DEF TableTypeOK, OwnerInv
  <2> QED
    BY <2>2, <2>3
<1>2. CASE \E c \in Conns, t \in Topics : Join(c, t)
  <2> PICK c \in Conns, t \in Topics : Join(c, t)
    BY <1>2
  <2>1. peer[c] \in Peers /\ c < nextConn
    BY HasEndpoint DEF Join
  <2>2. rooms' = rooms \cup {t} /\ owner' = [owner EXCEPT ![t][peer[c]] = c] /\ UNCHANGED <<nextConn, peer>>
    BY DEF Join, TakeSlot
  <2>3. TableTypeOK'
    BY <1>0, <2>1, <2>2 DEF TableTypeOK
  <2>4. OwnerInv'
    BY <1>0, <2>1, <2>2 DEF TableTypeOK, OwnerInv
  <2> QED
    BY <2>3, <2>4
<1>3. CASE \E c \in Conns, t \in Topics : Leave(c, t)
  <2> PICK c \in Conns, t \in Topics : Leave(c, t)
    BY <1>3
  <2>1. CASE VacateSlot(t, c)
    <3>1. owner' = [owner EXCEPT ![t][peer[c]] = NoConn] /\ rooms' \subseteq rooms /\ UNCHANGED <<nextConn, peer>>
      BY <2>1 DEF VacateSlot
    <3>2. TableTypeOK'
      BY <1>0, <3>1, Zenon DEF TableTypeOK
    <3>3. OwnerInv'
      BY <1>0, <3>1 DEF TableTypeOK, OwnerInv
    <3> QED
      BY <3>2, <3>3
  <2>2. CASE UNCHANGED tableVars
    BY <1>0, <2>2 DEF tableVars, TableTypeOK, OwnerInv
  <2> QED
    BY <2>1, <2>2 DEF Leave
<1>4. CASE UNCHANGED tableVars
  BY <1>0, <1>4 DEF tableVars, TableTypeOK, OwnerInv
<1>5. \/ \E p \in Peers : Open(p)
      \/ \E c \in Conns, t \in Topics : Join(c, t) \/ Leave(c, t)
      \/ UNCHANGED tableVars
  <2> HIDE DEF FanoutInv, FanoutTypeOK
  <2>1. \A c, s : /\ EndSession(c, s) => UNCHANGED tableVars
                  /\ DropSession(c) => UNCHANGED tableVars
                  /\ Stop(c, s) => UNCHANGED tableVars
                  /\ RateLimit(c, s) => UNCHANGED tableVars
    BY Zenon DEF EndSession, DropSession, Stop, RateLimit
  <2>2. \A c, s, t, to : Check(c, s, t, to) => UNCHANGED tableVars
    BY Zenon DEF Check
  <2>3. \A c, s, lost : Publish(c, s, lost) => UNCHANGED tableVars
    BY Zenon DEF Publish
  <2> QED
    BY <2>1, <2>2, <2>3, FanoutCases, Zenon DEF fanoutVars
<1> QED
  BY <1>1, <1>2, <1>3, <1>4, <1>5

LEMMA SessionNext ==
  ASSUME FanoutInv, [FanoutNext]_fanoutVars
  PROVE  /\ phase' \in [Conns -> {"new", "open", "ending", "done"}]
         /\ running' \in [Conns -> SUBSET Streams]
         /\ taken' \in 0 .. MaxFrames /\ taken' \in Nat /\ taken <= taken'
         /\ checked' \in [Conns -> [Streams -> Checked]]
<1> USE ConstantsAssumption, FanoutAssumption DEF FanoutInv, FanoutTypeOK, readerVars
<1>0. /\ phase \in [Conns -> {"new", "open", "ending", "done"}] /\ running \in [Conns -> SUBSET Streams]
      /\ taken \in 0 .. MaxFrames /\ taken \in Nat /\ checked \in [Conns -> [Streams -> Checked]]
  OBVIOUS
<1>1. CASE UNCHANGED <<phase, running, taken, checked>>
  BY <1>0, <1>1
<1>2. CASE \E p \in Peers : Open(p)
  BY <1>0, <1>2 DEF Open, NewConn
<1>3. CASE \E c \in Conns, still \in SUBSET Streams : EndSession(c, still)
  BY <1>0, <1>3 DEF EndSession
<1>4. CASE \E c \in Conns : DropSession(c)
  BY <1>0, <1>4 DEF DropSession
<1>5. CASE \E c \in Conns, s \in Streams : Stop(c, s)
  BY <1>0, <1>5 DEF Stop
<1>6. CASE \E c \in Conns, s \in Streams, t \in Topics, to \in Recipients : Check(c, s, t, to)
  <2> PICK c \in Conns, s \in Streams, t \in Topics, to \in Recipients : Check(c, s, t, to)
    BY <1>6
  <2>1. [n |-> taken + 1, topic |-> t, to |-> to] \in Checked
    BY <1>0 DEF Checked
  <2> QED
    BY <1>0, <2>1 DEF Check
<1>7. CASE \E c \in Conns, s \in Streams : checked' = [checked EXCEPT ![c][s] = NoFrame] /\ UNCHANGED <<phase, running, taken>>
  BY <1>0, <1>7, NoFrameTyped
<1>8. \/ UNCHANGED <<phase, running, taken, checked>>
      \/ \E p \in Peers : Open(p)
      \/ \E c \in Conns, still \in SUBSET Streams : EndSession(c, still)
      \/ \E c \in Conns : DropSession(c)
      \/ \E c \in Conns, s \in Streams : Stop(c, s)
      \/ \E c \in Conns, s \in Streams, t \in Topics, to \in Recipients : Check(c, s, t, to)
      \/ \E c \in Conns, s \in Streams : checked' = [checked EXCEPT ![c][s] = NoFrame] /\ UNCHANGED <<phase, running, taken>>
  <2> HIDE DEF FanoutInv, FanoutTypeOK
  <2>1. \A c, t : Join(c, t) \/ Leave(c, t) => UNCHANGED <<phase, running, taken, checked>>
    BY Zenon DEF Join, Leave
  <2>2. \A c, s : RateLimit(c, s) => checked' = [checked EXCEPT ![c][s] = NoFrame] /\ UNCHANGED <<phase, running, taken>>
    BY Zenon DEF RateLimit
  <2>3. \A c, s, lost : Publish(c, s, lost) => checked' = [checked EXCEPT ![c][s] = NoFrame] /\ UNCHANGED <<phase, running, taken>>
    BY Zenon DEF Publish
  <2> QED
    BY <2>1, <2>2, <2>3, FanoutCases, Zenon DEF fanoutVars
<1> QED
  BY <1>1, <1>2, <1>3, <1>4, <1>5, <1>6, <1>7, <1>8, Zenon

LEMMA AppendFacts ==
  ASSUME NEW S, NEW q \in Seq(S), NEW e \in S
  PROVE  /\ Append(q, e) \in Seq(S)
         /\ Len(q) \in Nat
         /\ DOMAIN q = 1 .. Len(q)
         /\ DOMAIN Append(q, e) = 1 .. Len(q) + 1
         /\ \A i \in 1 .. Len(q) : Append(q, e)[i] = q[i]
         /\ Append(q, e)[Len(q) + 1] = e
OBVIOUS

\* Connection d was handed out, and owns the slot of an endpoint other than
\* c's in the room to which c publishes.
Reached(c, s, d) ==
  /\ d \in Conns
  /\ d < nextConn
  /\ peer[d] \in InRoom(checked[c][s].topic)
  /\ peer[d] # peer[c]
  /\ OwnsSlot(checked[c][s].topic, d)

LEMMA AcceptedTargets ==
  ASSUME FanoutInv, NEW c \in Conns, NEW s \in Streams, NEW lost, Accepted(c, s, lost),
         NEW d, d \in Targets(checked[c][s].topic, peer[c], checked[c][s].to)
  PROVE  Reached(c, s, d)
<1>1. checked[c][s] # NoFrame
  BY DEF Accepted
<1>2. checked[c][s].topic \in Topics /\ checked[c][s].to \in Recipients /\ peer[c] \in Peers
  BY <1>1, PublishedFrame, Zenon
<1>3. d \in Conns /\ d < nextConn /\ peer[d] \in Peers /\ peer[d] # peer[c] /\ owner[checked[c][s].topic][peer[d]] = d
  BY <1>2, TargetsOwn
<1> QED
  BY <1>3 DEF InRoom, OwnsSlot, Reached

\* What a step does to the frames.
LEMMA FrameSteps ==
  ASSUME [FanoutNext]_fanoutVars
  PROVE  \/ UNCHANGED <<taken, checked, sent, received>>
         \/ \E c \in Conns, s \in Streams, t \in Topics, to \in Recipients : Check(c, s, t, to)
         \/ \E c \in Conns, s \in Streams : RateLimit(c, s)
         \/ \E c \in Conns, s \in Streams, lost \in SUBSET Conns : Publish(c, s, lost)
BY FanoutCases, Zenon DEF fanoutVars, readerVars, Open, Join, Leave, EndSession, DropSession, Stop

LEMMA ReceivedNext ==
  ASSUME FanoutInv, [FanoutNext]_fanoutVars
  PROVE  /\ sent' \subseteq Frames
         /\ received' \in [Conns -> Seq(Frames)]
         /\ \A c \in Conns : \A i \in DOMAIN received'[c] : received'[c][i] \in sent'
         /\ StreamsStayOrdered'
<1>0. /\ sent \subseteq Frames /\ received \in [Conns -> Seq(Frames)] /\ StreamsStayOrdered
      /\ \A c \in Conns : \A i \in DOMAIN received[c] : received[c][i] \in sent
  BY DEF FanoutInv, FanoutTypeOK, FrameInv
<1>1. CASE UNCHANGED <<sent, received>>
  BY <1>0, <1>1 DEF StreamsStayOrdered
<1>2. CASE \E c \in Conns, s \in Streams, lost \in SUBSET Conns : Accepted(c, s, lost)
  <2> PICK c \in Conns, s \in Streams, lost \in SUBSET Conns : Accepted(c, s, lost)
    BY <1>2
  <2> DEFINE f == [conn |-> c, stream |-> s, n |-> checked[c][s].n]
             reached == Targets(checked[c][s].topic, peer[c], checked[c][s].to) \ lost
  <2>1. f \in Frames /\ f.conn = c /\ f.stream = s /\ f.n = checked[c][s].n
    BY PublishedFrame DEF Accepted
  <2>2. sent' = sent \cup {f} /\ received' = [d \in Conns |-> IF d \in reached THEN Append(received[d], f) ELSE received[d]]
    BY DEF Accepted
  <2>3. \A g \in sent : g.conn = c /\ g.stream = s => g.n < f.n
    BY <2>1 DEF Accepted, FanoutInv, FrameInv
  <2> HIDE DEF f, reached
  <2>4. sent' \subseteq Frames
    BY <1>0, <2>1, <2>2
  <2>5. ASSUME NEW d \in Conns
        PROVE  /\ received'[d] \in Seq(Frames)
               /\ \A i \in DOMAIN received'[d] : received'[d][i] \in sent'
               /\ \A i, j \in DOMAIN received'[d] :
                    i < j /\ received'[d][i].conn = received'[d][j].conn /\ received'[d][i].stream = received'[d][j].stream
                      => received'[d][i].n < received'[d][j].n
    <3>1. CASE d \notin reached
      <4>1. received'[d] = received[d]
        BY <2>2, <3>1
      <4> QED
        BY <1>0, <2>2, <4>1 DEF StreamsStayOrdered
    <3>2. CASE d \in reached
      <4>1. received'[d] = Append(received[d], f)
        BY <2>2, <3>2
      <4>2. /\ Append(received[d], f) \in Seq(Frames)
            /\ Len(received[d]) \in Nat
            /\ DOMAIN received[d] = 1 .. Len(received[d])
            /\ DOMAIN Append(received[d], f) = 1 .. Len(received[d]) + 1
            /\ \A i \in 1 .. Len(received[d]) : Append(received[d], f)[i] = received[d][i]
            /\ Append(received[d], f)[Len(received[d]) + 1] = f
        BY <1>0, <2>1, AppendFacts
      <4>3. \A i \in DOMAIN received'[d] : received'[d][i] \in sent'
        BY <1>0, <2>2, <4>1, <4>2
      <4>4. ASSUME NEW i \in DOMAIN received'[d], NEW j \in DOMAIN received'[d], i < j,
                   received'[d][i].conn = received'[d][j].conn, received'[d][i].stream = received'[d][j].stream
            PROVE  received'[d][i].n < received'[d][j].n
        <5>1. i \in DOMAIN received[d] /\ received'[d][i] = received[d][i]
          BY <4>1, <4>2, <4>4
        <5>2. CASE j \in DOMAIN received[d]
          <6>1. received'[d][j] = received[d][j]
            BY <4>1, <4>2, <5>2, Zenon
          <6> QED
            BY <1>0, <4>4, <5>1, <5>2, <6>1 DEF StreamsStayOrdered
        <5>3. CASE j \notin DOMAIN received[d]
          <6>1. received'[d][j] = f
            BY <4>1, <4>2, <5>3
          <6> QED
            BY <1>0, <2>1, <2>3, <4>4, <5>1, <6>1
        <5> QED
          BY <5>2, <5>3
      <4> QED
        BY <4>1, <4>2, <4>3, <4>4, Zenon
    <3> QED
      BY <3>1, <3>2
  <2>6. received' \in [Conns -> Seq(Frames)]
    BY <2>2, <2>5
  <2>7. StreamsStayOrdered'
    BY <2>5 DEF StreamsStayOrdered
  <2> QED
    BY <2>4, <2>5, <2>6, <2>7
<1>3. \/ UNCHANGED <<sent, received>>
      \/ \E c \in Conns, s \in Streams, lost \in SUBSET Conns : Accepted(c, s, lost)
  BY FrameSteps, PublishCases, Zenon DEF Check, RateLimit
<1> QED
  BY <1>1, <1>2, <1>3

LEMMA FrameNext ==
  ASSUME FanoutInv, [FanoutNext]_fanoutVars
  PROVE  FrameInv'
<1> USE FanoutAssumption
<1>0. /\ FrameInv /\ taken \in Nat /\ sent \subseteq Frames /\ checked \in [Conns -> [Streams -> Checked]]
      /\ \A f \in Frames : f.n \in Nat
  BY DEF FanoutInv, FanoutTypeOK, Frames
<1>1. \A c \in Conns : \A i \in DOMAIN received'[c] : received'[c][i] \in sent'
  BY ReceivedNext
<1> DEFINE Newer(k, ck, snt) ==
             \A c \in Conns, s \in Streams : ck[c][s] # NoFrame =>
               /\ ck[c][s].n \in 1 .. k
               /\ ck[c][s].topic \in Topics
               /\ \A f \in snt : f.conn = c /\ f.stream = s => f.n < ck[c][s].n
<1>2. Newer(taken, checked, sent) /\ (\A f \in sent : f.n <= taken)
  BY <1>0 DEF FrameInv
<1>3. (\A f \in sent' : f.n <= taken') /\ Newer(taken', checked', sent')
  <2>1. CASE UNCHANGED <<taken, checked, sent, received>>
    BY <1>2, <2>1
  <2>2. ASSUME NEW c \in Conns, NEW s \in Streams, NEW t \in Topics, NEW to \in Recipients, Check(c, s, t, to)
        PROVE  (\A f \in sent' : f.n <= taken') /\ Newer(taken', checked', sent')
    <3>1. taken' = taken + 1 /\ checked' = [checked EXCEPT ![c][s] = [n |-> taken + 1, topic |-> t, to |-> to]] /\ sent' = sent
      BY <2>2 DEF Check
    <3>2. \A f \in sent' : f.n <= taken' /\ f.n < taken + 1 /\ f.n \in Nat
      BY <1>0, <1>2, <3>1
    <3>3. ASSUME NEW e \in Conns, NEW r \in Streams, checked'[e][r] # NoFrame
          PROVE  /\ checked'[e][r].n \in 1 .. taken'
                 /\ checked'[e][r].topic \in Topics
                 /\ \A f \in sent' : f.conn = e /\ f.stream = r => f.n < checked'[e][r].n
      <4>1. CASE e = c /\ r = s
        <5>1. checked'[e][r] = [n |-> taken + 1, topic |-> t, to |-> to]
          BY <1>0, <3>1, <4>1
        <5>2. checked'[e][r].n = taken + 1 /\ checked'[e][r].topic = t
          BY <5>1
        <5> QED
          BY <1>0, <3>1, <3>2, <5>2
      <4>2. CASE ~(e = c /\ r = s)
        <5>1. checked'[e][r] = checked[e][r]
          BY <1>0, <3>1, <4>2
        <5>2. /\ checked[e][r].n \in 1 .. taken /\ checked[e][r].topic \in Topics
              /\ \A f \in sent : f.conn = e /\ f.stream = r => f.n < checked[e][r].n
          BY <1>2, <3>3, <5>1
        <5> QED
          BY <1>0, <3>1, <5>1, <5>2
      <4> QED
        BY <4>1, <4>2
    <3> QED
      BY <3>2, <3>3
  <2>3. ASSUME NEW c \in Conns, NEW s \in Streams, RateLimit(c, s)
        PROVE  (\A f \in sent' : f.n <= taken') /\ Newer(taken', checked', sent')
    BY <1>0, <1>2, <2>3 DEF RateLimit
  <2>4. ASSUME NEW c \in Conns, NEW s \in Streams, NEW lost \in SUBSET Conns, Publish(c, s, lost)
        PROVE  (\A f \in sent' : f.n <= taken') /\ Newer(taken', checked', sent')
    <3>1. taken' = taken /\ checked' = [checked EXCEPT ![c][s] = NoFrame] /\ checked[c][s] # NoFrame
      BY <2>4 DEF Publish
    <3>2. CASE sent' = sent
      BY <1>0, <1>2, <3>1, <3>2
    <3>3. CASE Accepted(c, s, lost)
      <4> DEFINE f == [conn |-> c, stream |-> s, n |-> checked[c][s].n]
      <4>1. sent' = sent \cup {f} /\ f.conn = c /\ f.stream = s /\ f.n = checked[c][s].n
        BY <3>3 DEF Accepted
      <4>2. f.n <= taken
        BY <1>0, <1>2, <3>1, <4>1
      <4> HIDE DEF f
      <4>3. ASSUME NEW e \in Conns, NEW r \in Streams, checked'[e][r] # NoFrame
            PROVE  checked'[e][r] = checked[e][r] /\ ~(f.conn = e /\ f.stream = r)
        BY <1>0, <3>1, <4>1, <4>3
      <4>4. Newer(taken', checked', sent')
        BY <1>2, <3>1, <4>1, <4>3
      <4> QED
        BY <1>2, <3>1, <4>1, <4>2, <4>4
    <3> QED
      BY <2>4, <3>2, <3>3, PublishCases, Zenon
  <2> HIDE DEF Newer
  <2> QED
    BY <2>1, <2>2, <2>3, <2>4, FrameSteps
<1> QED
  BY <1>1, <1>3 DEF FrameInv

LEMMA ConnNext ==
  ASSUME FanoutInv, [FanoutNext]_fanoutVars
  PROVE  ConnInv'
<1> USE ConstantsAssumption
<1>0. /\ nextConn \in Nat /\ peer \in [Conns -> Peers \cup {NoPeer}]
      /\ phase \in [Conns -> {"new", "open", "ending", "done"}] /\ running \in [Conns -> SUBSET Streams]
      /\ checked \in [Conns -> [Streams -> Checked]]
      /\ received \in [Conns -> Seq(Frames)]
      /\ ConnInv
  BY DEF FanoutInv, FanoutTypeOK, TableTypeOK
<1>1. ASSUME NEW p \in Peers, Open(p) PROVE ConnInv'
  <2>1. /\ nextConn' = nextConn + 1 /\ nextConn \in Conns /\ peer' = [peer EXCEPT ![nextConn] = p]
        /\ phase' = [phase EXCEPT ![nextConn] = "open"] /\ UNCHANGED <<running, checked, received>>
    BY <1>1 DEF Open, NewConn, readerVars
  <2>2. ASSUME NEW c \in Conns
        PROVE  /\ c >= nextConn' => phase'[c] = "new" /\ running'[c] = {} /\ received'[c] = <<>>
               /\ c < nextConn' => peer'[c] \in Peers
               /\ c >= nextConn' => \A s \in Streams : checked'[c][s] = NoFrame
    <3>1. CASE c = nextConn
      <4>1. peer'[c] = p /\ ~(c >= nextConn')
        BY <1>0, <2>1, <3>1
      <4> QED
        BY <4>1
    <3>2. CASE c # nextConn
      <4>1. /\ c >= nextConn' => c >= nextConn
            /\ c < nextConn' => c < nextConn
        BY <1>0, <2>1, <3>2
      <4>2. phase'[c] = phase[c] /\ peer'[c] = peer[c]
        BY <1>0, <2>1, <3>2
      <4> QED
        BY <1>0, <2>1, <4>1, <4>2, Zenon DEF ConnInv
    <3> QED
      BY <3>1, <3>2
  <2> QED
    BY <2>2 DEF ConnInv
<1>2. ASSUME NEW c \in Conns, NEW t \in Topics, Join(c, t) \/ Leave(c, t) PROVE ConnInv'
  BY <1>0, <1>2 DEF Join, Leave, TakeSlot, VacateSlot, tableVars, readerVars, ConnInv
<1>3. ASSUME NEW c \in Conns, NEW still \in SUBSET Streams, EndSession(c, still) PROVE ConnInv'
  BY <1>0, <1>3, Zenon DEF EndSession, tableVars, ConnInv
<1>4. ASSUME NEW c \in Conns, DropSession(c) PROVE ConnInv'
  BY <1>0, <1>4, Zenon DEF DropSession, tableVars, readerVars, ConnInv
<1>5. ASSUME NEW c \in Conns, NEW s \in Streams, Stop(c, s) PROVE ConnInv'
  BY <1>0, <1>5 DEF Stop, tableVars, ConnInv
<1>6. ASSUME NEW c \in Conns, NEW s \in Streams, NEW t \in Topics, NEW to \in Recipients, Check(c, s, t, to)
      PROVE  ConnInv'
  <2>1. c < nextConn
    <3> SUFFICES ASSUME c >= nextConn PROVE FALSE
      BY <1>0
    <3>1. phase[c] = "new" /\ running[c] = {}
      BY <1>0 DEF ConnInv
    <3> QED
      BY <1>6, <3>1 DEF Check
  <2> QED
    BY <1>0, <1>6, <2>1, Zenon DEF Check, tableVars, ConnInv
<1>7. ASSUME NEW c \in Conns, NEW s \in Streams, RateLimit(c, s) PROVE ConnInv'
  BY <1>0, <1>7 DEF RateLimit, tableVars, ConnInv
<1>8. ASSUME NEW c \in Conns, NEW s \in Streams, NEW lost \in SUBSET Conns, Publish(c, s, lost) PROVE ConnInv'
  <2>1. ASSUME NEW d \in Conns, d >= nextConn PROVE received'[d] = received[d]
    <3>1. CASE Accepted(c, s, lost)
      <4>1. d \notin Targets(checked[c][s].topic, peer[c], checked[c][s].to)
        <5> SUFFICES ASSUME d \in Targets(checked[c][s].topic, peer[c], checked[c][s].to) PROVE FALSE
          OBVIOUS
        <5>1. Reached(c, s, d)
          BY <3>1, AcceptedTargets, Zenon
        <5> QED
          BY <1>0, <2>1, <5>1 DEF Reached
      <4> QED
        BY <3>1, <4>1 DEF Accepted
    <3> QED
      BY <1>8, <3>1, PublishCases
  <2>2. /\ checked' = [checked EXCEPT ![c][s] = NoFrame] /\ UNCHANGED <<nextConn, peer, phase, running>>
    BY <1>8 DEF Publish, tableVars
  <2> QED
    BY <1>0, <2>1, <2>2, Zenon DEF ConnInv
<1>9. CASE UNCHANGED fanoutVars
  BY <1>0, <1>9 DEF fanoutVars, tableVars, ConnInv
<1> QED
  BY <1>1, <1>2, <1>3, <1>4, <1>5, <1>6, <1>7, <1>8, <1>9, FanoutCases

LEMMA FanoutKept == FanoutInv /\ [FanoutNext]_fanoutVars => FanoutInv'
<1> SUFFICES ASSUME FanoutInv, [FanoutNext]_fanoutVars PROVE FanoutInv'
  OBVIOUS
<1>1. FanoutTypeOK'
  BY TableNext, SessionNext, ReceivedNext DEF FanoutTypeOK
<1> QED
  BY <1>1, TableNext, ReceivedNext, FrameNext, ConnNext DEF FanoutInv

LEMMA FanoutInductive == FanoutSpec => []FanoutInv
BY FanoutStarts, FanoutKept, PTL DEF FanoutSpec

-----------------------------------------------------------------------------
(***************************************************************************)
(* The refinement.                                                         *)
(***************************************************************************)
Elems(q) == {q[i] : i \in DOMAIN q}

LEMMA ElemsAppend ==
  ASSUME NEW S, NEW q \in Seq(S), NEW e \in S
  PROVE  Elems(Append(q, e)) = Elems(q) \cup {e}
<1> DEFINE r == Append(q, e)
           n == Len(q)
<1>1. /\ n \in Nat
      /\ DOMAIN q = 1 .. n
      /\ DOMAIN r = 1 .. n + 1
      /\ \A i \in 1 .. n : r[i] = q[i]
      /\ r[n + 1] = e
  OBVIOUS
<1> HIDE DEF r, n
<1>2. \A i \in 1 .. n + 1 : i \in 1 .. n \/ i = n + 1
  BY <1>1
<1>3. n + 1 \in 1 .. n + 1 /\ \A i \in 1 .. n : i \in 1 .. n + 1
  BY <1>1
<1>4. Elems(r) = Elems(q) \cup {e}
  BY <1>1, <1>2, <1>3, Zenon DEF Elems
<1> QED
  BY <1>4, Zenon DEF r

Members == [t \in Topics |-> InRoom(t)]
Inbox == [p \in Peers |-> QueuedFor(p)]

LEMMA Queued == \A p, x : x \in QueuedFor(p) <=> \E c \in Conns : peer[c] = p /\ x \in Elems(received[c])
BY DEF QueuedFor, Elems

LEMMA QueuedNext == \A p, x : x \in QueuedFor(p)' <=> \E c \in Conns : peer'[c] = p /\ x \in Elems(received'[c])
BY DEF QueuedFor, Elems

LEMMA InitRefines == FanoutInit => Endpoints!Init
<1> SUFFICES ASSUME FanoutInit PROVE Endpoints!Init
  OBVIOUS
<1>1. \A t \in Topics : InRoom(t) = {}
  BY DEF FanoutInit, TableInit, InRoom
<1>2. \A c \in Conns : Elems(received[c]) = {}
  BY DEF FanoutInit, Elems
<1>3. \A p \in Peers : QueuedFor(p) = {}
  BY <1>2, Queued
<1> QED
  BY <1>1, <1>3 DEF Endpoints!Init, FanoutInit

\* A step that hands no DELIVER to a queue leaves what is queued alone.
LEMMA InboxSame ==
  ASSUME FanoutInv, [FanoutNext]_fanoutVars, received' = received,
         \/ peer' = peer
         \/ \E p \in Peers : Open(p)
  PROVE  Inbox' = Inbox
<1>1. CASE peer' = peer
  BY <1>1 DEF Inbox, QueuedFor
<1>2. ASSUME NEW p \in Peers, Open(p) PROVE Inbox' = Inbox
  <2>1. nextConn \in Conns /\ peer' = [peer EXCEPT ![nextConn] = p] /\ peer \in [Conns -> Peers \cup {NoPeer}]
    BY <1>2 DEF Open, NewConn, FanoutInv, FanoutTypeOK, TableTypeOK
  <2>2. received[nextConn] = <<>>
    BY <2>1, ConstantsAssumption DEF FanoutInv, ConnInv
  <2>3. Elems(received[nextConn]) = {}
    BY <2>2 DEF Elems
  <2>4. ASSUME NEW q \in Peers, NEW x PROVE x \in QueuedFor(q)' <=> x \in QueuedFor(q)
    <3>1. \A c \in Conns : x \in Elems(received[c]) => peer'[c] = peer[c]
      BY <2>1, <2>3
    <3>2. \A c \in Conns : Elems(received'[c]) = Elems(received[c])
      OBVIOUS
    <3> QED
      BY <3>1, <3>2, Queued, QueuedNext
  <2>5. \A q \in Peers : QueuedFor(q)' = QueuedFor(q)
    BY <2>4
  <2> QED
    BY <2>5 DEF Inbox
<1> QED
  BY <1>1, <1>2

LEMMA JoinRefines ==
  ASSUME FanoutInv, [FanoutNext]_fanoutVars, NEW c \in Conns, NEW t \in Topics, Join(c, t)
  PROVE  [Endpoints!Next]_Endpoints!vars
<1>1. peer[c] \in Peers /\ owner \in [Topics -> [Peers -> Conns \cup {NoConn}]]
  BY HasEndpoint DEF Join, FanoutInv, FanoutTypeOK, TableTypeOK
<1>2. owner' = [owner EXCEPT ![t][peer[c]] = c] /\ peer' = peer /\ received' = received /\ sent' = sent
  BY DEF Join, TakeSlot, readerVars
<1>3. Inbox' = Inbox
  BY <1>2, InboxSame
<1>4. \A u \in Topics : InRoom(u)' = IF u = t THEN InRoom(u) \cup {peer[c]} ELSE InRoom(u)
  BY <1>1, <1>2, ConstantsAssumption DEF InRoom
<1>5. Members' = [Members EXCEPT ![t] = @ \cup {peer[c]}]
  BY <1>4, Zenon DEF Members
<1>6. CASE peer[c] \in InRoom(t)
  <2>1. Members' = Members
    BY <1>4, <1>6 DEF Members
  <2> QED
    BY <1>2, <1>3, <2>1, SMTT(20) DEF Endpoints!vars, Members, Inbox
<1>7. CASE peer[c] \notin InRoom(t)
  <2>1. Endpoints!Join(peer[c], t)
    BY <1>2, <1>3, <1>5, <1>7 DEF Endpoints!Join, Members, Inbox
  <2> QED
    BY <1>1, <2>1 DEF Endpoints!Next
<1> QED
  BY <1>6, <1>7

LEMMA LeaveRefines ==
  ASSUME FanoutInv, [FanoutNext]_fanoutVars, NEW c \in Conns, NEW t \in Topics, Leave(c, t)
  PROVE  [Endpoints!Next]_Endpoints!vars
<1>1. peer[c] \in Peers /\ owner \in [Topics -> [Peers -> Conns \cup {NoConn}]]
  BY HasEndpoint DEF Leave, FanoutInv, FanoutTypeOK, TableTypeOK
<1>2. peer' = peer /\ received' = received /\ sent' = sent
  BY DEF Leave, VacateSlot, readerVars, tableVars
<1>3. Inbox' = Inbox
  BY <1>2, InboxSame
<1>4. CASE UNCHANGED tableVars
  <2>1. Members' = Members
    BY <1>4 DEF Members, InRoom, tableVars
  <2> QED
    BY <1>2, <1>3, <2>1, SMTT(20) DEF Endpoints!vars, Members, Inbox
<1>5. CASE OwnsSlot(t, c) /\ VacateSlot(t, c)
  <2>1. peer[c] \in InRoom(t)
    BY <1>1, <1>5, ConstantsAssumption DEF OwnsSlot, InRoom
  <2>2. \A u \in Topics : InRoom(u)' = IF u = t THEN InRoom(u) \ {peer[c]} ELSE InRoom(u)
    BY <1>1, <1>5, ConstantsAssumption DEF InRoom, VacateSlot
  <2>3. Members' = [Members EXCEPT ![t] = @ \ {peer[c]}]
    BY <2>2, Zenon DEF Members
  <2>4. Endpoints!Leave(peer[c], t)
    BY <1>2, <1>3, <2>1, <2>3 DEF Endpoints!Leave, Members, Inbox
  <2> QED
    BY <1>1, <2>4 DEF Endpoints!Next
<1> QED
  BY <1>4, <1>5 DEF Leave

LEMMA PublishRefines ==
  ASSUME FanoutInv, [FanoutNext]_fanoutVars, NEW c \in Conns, NEW s \in Streams, NEW lost \in SUBSET Conns,
         Accepted(c, s, lost), UNCHANGED tableVars
  PROVE  [Endpoints!Next]_Endpoints!vars
<1> DEFINE f == [conn |-> c, stream |-> s, n |-> checked[c][s].n]
           t == checked[c][s].topic
           targets == Targets(t, peer[c], checked[c][s].to) \ lost
           reached == {peer[d] : d \in targets}
<1>1. f \in Frames /\ f \notin sent /\ t \in Topics /\ checked[c][s].to \in Recipients /\ peer[c] \in Peers
  BY PublishedFrame, Zenon DEF Accepted
<1>2. \A d \in targets : d \in Conns /\ peer[d] \in InRoom(t) /\ peer[d] # peer[c]
  <2> SUFFICES ASSUME NEW d \in targets PROVE d \in Conns /\ peer[d] \in InRoom(t) /\ peer[d] # peer[c]
    BY Zenon
  <2>1. d \in Targets(t, peer[c], checked[c][s].to)
    BY Zenon
  <2>2. Reached(c, s, d)
    BY <2>1, AcceptedTargets, Zenon
  <2> QED
    BY <2>2, Zenon DEF Reached
<1>3. /\ sent' = sent \cup {f}
      /\ received' = [d \in Conns |-> IF d \in targets THEN Append(received[d], f) ELSE received[d]]
      /\ OwnsSlot(t, c)
  BY DEF Accepted
<1>4. peer' = peer /\ owner' = owner
  BY DEF tableVars
<1> HIDE DEF f, t, targets
<1>5. peer[c] \in InRoom(t)
  BY <1>1, <1>3, ConstantsAssumption DEF OwnsSlot, InRoom
<1>6. Members' = Members
  BY <1>4, Zenon DEF Members, InRoom
<1>7. reached \in SUBSET (InRoom(t) \ {peer[c]})
  BY <1>2, Zenon
<1>8. ASSUME NEW d \in Conns
      PROVE  Elems(received'[d]) = IF d \in targets THEN Elems(received[d]) \cup {f} ELSE Elems(received[d])
  <2>1. CASE d \notin targets
    BY <1>3, <2>1
  <2>2. CASE d \in targets
    <3>1. received[d] \in Seq(Frames)
      BY DEF FanoutInv, FanoutTypeOK
    <3>2. received'[d] = Append(received[d], f)
      BY <1>3, <2>2
    <3>3. Elems(Append(received[d], f)) = Elems(received[d]) \cup {f}
      BY <1>1, <3>1, ElemsAppend, SMTT(20), ZenonT(20)
    <3> QED
      BY <2>2, <3>2, <3>3, Zenon
  <2> QED
    BY <2>1, <2>2
<1>9. ASSUME NEW q \in Peers
      PROVE  QueuedFor(q)' = IF q \in reached THEN QueuedFor(q) \cup {f} ELSE QueuedFor(q)
  <2>1. ASSUME NEW x
        PROVE  x \in QueuedFor(q)' <=> x \in QueuedFor(q) \/ (q \in reached /\ x = f)
    <3>1. x \in QueuedFor(q)' <=> \E d \in Conns : peer[d] = q /\ (x \in Elems(received[d]) \/ (d \in targets /\ x = f))
      <4>1. x \in QueuedFor(q)' <=> \E d \in Conns : peer[d] = q /\ x \in Elems(received'[d])
        BY <1>4, QueuedNext
      <4>2. \A d \in Conns : x \in Elems(received'[d]) <=> x \in Elems(received[d]) \/ (d \in targets /\ x = f)
        BY <1>8, Zenon
      <4> QED
        BY <4>1, <4>2
    <3>2. q \in reached <=> \E d \in Conns : peer[d] = q /\ d \in targets
      BY <1>2
    <3> QED
      BY <3>1, <3>2, Queued
  <2> QED
    BY <2>1, Zenon
<1> HIDE DEF reached
<1>10. Inbox' = [q \in Peers |-> IF q \in reached THEN Inbox[q] \cup {f} ELSE Inbox[q]]
  BY <1>9 DEF Inbox
<1>11. Endpoints!Publish(peer[c], t, f)
  BY <1>1, <1>3, <1>5, <1>6, <1>7, <1>10, Zenon DEF Endpoints!Publish, Members, Inbox
<1> QED
  BY <1>1, <1>11 DEF Endpoints!Next

\* Every step of the server is a step of PubSub, or changes nothing there.
LEMMA StepRefines == FanoutInv /\ [FanoutNext]_fanoutVars => [Endpoints!Next]_Endpoints!vars
<1> SUFFICES ASSUME FanoutInv, [FanoutNext]_fanoutVars PROVE [Endpoints!Next]_Endpoints!vars
  OBVIOUS
<1>1. CASE \E c \in Conns, t \in Topics : Join(c, t)
  BY <1>1, JoinRefines
<1>2. CASE \E c \in Conns, t \in Topics : Leave(c, t)
  BY <1>2, LeaveRefines
<1>3. CASE \E p \in Peers : Open(p)
  <2>1. owner' = owner /\ received' = received /\ sent' = sent
    BY <1>3 DEF Open, NewConn, readerVars
  <2>2. Members' = Members
    BY <2>1 DEF Members, InRoom
  <2>3. Inbox' = Inbox
    BY <1>3, <2>1, InboxSame
  <2> QED
    BY <2>1, <2>2, <2>3 DEF Endpoints!vars, Members, Inbox
<1>4. CASE UNCHANGED <<tableVars, sent, received>>
  <2>1. owner' = owner /\ peer' = peer /\ received' = received /\ sent' = sent
    BY <1>4 DEF tableVars
  <2>2. Members' = Members /\ Inbox' = Inbox
    BY <2>1 DEF Members, InRoom, Inbox, QueuedFor
  <2> QED
    BY <2>1, <2>2 DEF Endpoints!vars, Members, Inbox
<1>5. CASE \E c \in Conns, s \in Streams, lost \in SUBSET Conns : Publish(c, s, lost)
  <2> PICK c \in Conns, s \in Streams, lost \in SUBSET Conns : Publish(c, s, lost)
    BY <1>5
  <2>1. UNCHANGED tableVars
    BY DEF Publish
  <2>2. CASE Accepted(c, s, lost)
    BY <2>1, <2>2, PublishRefines
  <2>3. CASE sent' = sent /\ received' = received
    BY <1>4, <2>1, <2>3
  <2> QED
    BY <2>2, <2>3, PublishCases
<1>6. \/ \E c \in Conns, t \in Topics : Join(c, t)
      \/ \E c \in Conns, t \in Topics : Leave(c, t)
      \/ \E p \in Peers : Open(p)
      \/ UNCHANGED <<tableVars, sent, received>>
      \/ \E c \in Conns, s \in Streams, lost \in SUBSET Conns : Publish(c, s, lost)
  BY FanoutCases, Zenon DEF fanoutVars, readerVars, EndSession, DropSession, Stop, Check, RateLimit
<1> QED
  BY <1>1, <1>2, <1>3, <1>4, <1>5, <1>6

\* Whatever connections the endpoints open and wherever a leave or a
\* takeover falls between a reader's checks, publishing looks to the
\* endpoints like PubSub: at one instant a member's message reaches other
\* members (Readers::publish, Rooms::publish, Rooms::publish_to).
THEOREM Refines == FanoutSpec => ImplementsPubSub
<1>1. Endpoints!Spec <=> Endpoints!Init /\ [][Endpoints!Next]_Endpoints!vars
  BY DEF Endpoints!Spec
<1> QED
  BY FanoutInductive, InitRefines, StepRefines, <1>1, PTL DEF FanoutSpec, ImplementsPubSub

\* No connection is queued a DELIVER twice, or two frames of one publishing
\* stream out of order.
THEOREM InOrder == FanoutSpec => []StreamsStayOrdered
<1>1. FanoutInv => StreamsStayOrdered
  BY DEF FanoutInv
<1> QED
  BY <1>1, FanoutInductive, PTL

\* Every DELIVER goes from the owner of a slot of the room to the owner of
\* another endpoint's slot there (the second check, under the shard lock).
THEOREM OwnersExchange == FanoutSpec => OnlyOwnersExchange
<1>1. FanoutInv /\ [FanoutNext]_fanoutVars =>
        [\A c, d \in Conns, s \in Streams :
           LET t == checked[c][s].topic
               f == [conn |-> c, stream |-> s, n |-> checked[c][s].n]
           IN  (f \in sent' \ sent /\ received'[d] # received[d]) =>
                 OwnsSlot(t, c) /\ OwnsSlot(t, d) /\ peer[c] # peer[d]]_fanoutVars
  <2> SUFFICES ASSUME FanoutInv, [FanoutNext]_fanoutVars, NEW c \in Conns, NEW d \in Conns, NEW s \in Streams,
                      [conn |-> c, stream |-> s, n |-> checked[c][s].n] \in sent' \ sent,
                      received'[d] # received[d]
               PROVE  OwnsSlot(checked[c][s].topic, c) /\ OwnsSlot(checked[c][s].topic, d) /\ peer[c] # peer[d]
    BY Zenon
  <2>1. PICK e \in Conns, r \in Streams, lost \in SUBSET Conns : Accepted(e, r, lost)
    BY FrameSteps, PublishCases DEF Check, RateLimit
  <2>2. e = c /\ r = s
    BY <2>1 DEF Accepted
  <2>3. OwnsSlot(checked[c][s].topic, c) /\ received \in [Conns -> Seq(Frames)]
    BY <2>1, <2>2 DEF Accepted, FanoutInv, FanoutTypeOK
  <2>4. d \in Targets(checked[c][s].topic, peer[c], checked[c][s].to)
    BY <2>1, <2>2 DEF Accepted
  <2> QED
    <3>1. Accepted(c, s, lost)
      BY <2>1, <2>2, Zenon
    <3>2. Reached(c, s, d)
      BY <2>4, <3>1, AcceptedTargets, Zenon
    <3> QED
      BY <2>3, <3>2, Zenon DEF Reached
<1> QED
  BY <1>1, FanoutInductive, PTL DEF FanoutSpec, OnlyOwnersExchange
=============================================================================
