------------------------- MODULE ClientLanesProofs -------------------------
(***************************************************************************)
(* Proofs about ClientLanes, for any number of concurrent calls.           *)
(*                                                                         *)
(* The inductive invariant says who may touch a stream: a call that opens  *)
(* or writes a kept lane, or the session stream, holds its mutex (Mutex);  *)
(* the slot of a lane is empty or has a stream that nobody else is writing *)
(* and that was never ended (Slots, Ends).  So the half of a frame that is *)
(* on the wire is the last item of its stream until its own call goes on   *)
(* or gives up (Halves), and what a call finds in the slot is never the    *)
(* remains of a failure: that is why a stream carries whole frames, why a  *)
(* call that returned Ok has its whole frame on the wire, and why two      *)
(* calls never fail on the same stream.                                    *)
(***************************************************************************)
EXTENDS ClientLanes, FiniteSetTheorems, TLAPS

Closing == {"finished", "gone"}

Shape ==
  /\ pc \in [Calls -> {"unused", "lock", "open", "write", "ok", "failed", "cancelled"}]
  /\ lane \in [Calls -> Lanes]
  /\ stream \in [Calls -> Streams \cup {NoStream}]
  /\ left \in [Calls -> 0 .. 3]
  /\ holder \in [Kept \cup {"session"} -> Streams]
  /\ slot \in [Kept -> Calls \cup {NoStream}]
  /\ wire \in [Streams -> Seq(Streams)]
  /\ status \in [Streams -> {"unused", "open"} \cup Closing]
  /\ stopped \subseteq Streams
  /\ closed \in BOOLEAN

\* How far a call is, and what it may have chosen by then.
Progress(n) ==
  /\ pc[n] \in {"unused", "lock", "open"} => stream[n] = NoStream
  /\ pc[n] = "lock" => lane[n] # "bulk"
  /\ pc[n] = "open" => lane[n] # "session"
  /\ pc[n] = "write" => stream[n] # NoStream
  /\ pc[n] = "ok" <=> left[n] = 0
  /\ stream[n] = NoStream => left[n] = 2
  /\ left[n] = 3 => stream[n] = n
  /\ lane[n] = "bulk" => stream[n] \in {n, NoStream}
  /\ stream[n] # NoStream => (stream[n] = SessionStream <=> lane[n] = "session")
  /\ stream[n] \in Calls => lane[stream[n]] = lane[n] /\ stream[stream[n]] = stream[n]

\* Holding a mutex and using what it protects go together.
Mutex ==
  /\ \A l \in Kept \cup {"session"} :
       holder[l] # Nobody => pc[holder[l]] \in {"open", "write"} /\ lane[holder[l]] = l
  /\ \A n \in Calls :
       pc[n] \in {"open", "write"} /\ lane[n] # "bulk" => holder[lane[n]] = n

\* A slot has a stream that its opener used with success and that no failure
\* ended; the call that holds the mutex works with what the slot had.
Slots ==
  /\ \A l \in Kept : slot[l] # NoStream =>
       lane[slot[l]] = l /\ pc[slot[l]] = "ok" /\ status[slot[l]] = "open"
  /\ \A n \in Calls : lane[n] \in Kept =>
       /\ pc[n] = "open" => slot[lane[n]] = NoStream
       /\ pc[n] = "write" => slot[lane[n]] = IF stream[n] = n THEN NoStream ELSE stream[n]

\* Who has an open stream, and when streams are over.
Ends ==
  /\ status[SessionStream] = "open"
  /\ \A s \in Calls :
       /\ status[s] = "unused" <=> stream[s] # s
       /\ status[s] = "open" => pc[s] = "write" \/ (lane[s] \in Kept /\ slot[lane[s]] = s)
  /\ \A n \in Calls :
       /\ pc[n] = "write" => status[stream[n]] = "open"
       /\ pc[n] = "failed" /\ stream[n] \in Calls => status[stream[n]] \in Closing
       /\ pc[n] = "failed" /\ stream[n] = SessionStream => closed \/ SessionStream \in stopped
       /\ pc[n] = "cancelled" /\ stream[n] = n => status[n] \in Closing
       /\ pc[n] = "ok" /\ lane[n] = "bulk" => stream[n] = n /\ status[n] \in Closing
  /\ \A n, m \in Calls :
       pc[n] = "failed" /\ pc[m] = "failed" /\ stream[n] = stream[m] /\ stream[n] \in Calls
         => n = m

\* Where in w the halves of call n's frame are; half of it, or all of it, is
\* there.
At(w, n) == {i \in 1 .. Len(w) : w[i] = n}
Half(w, n) == \E i \in 1 .. Len(w) : At(w, n) = {i}
Whole(w, n) == \E i \in 1 .. Len(w) : At(w, n) = {i, i + 1}

\* A frame on the wire is begun or complete; one that is begun is at the end
\* of its stream, unless it was torn.
Halves ==
  /\ \A s \in Streams : \A i \in 1 .. Len(wire[s]) :
       /\ wire[s][i] = LaneByte <=> (i = 1 /\ s # SessionStream)
       /\ wire[s][i] # LaneByte => stream[wire[s][i]] = s /\ left[wire[s][i]] < 2
  /\ \A n \in Calls : left[n] = 1 =>
       /\ Half(wire[stream[n]], n)
       /\ Torn(n) \/ wire[stream[n]][Len(wire[stream[n]])] = n
  /\ \A n \in Calls : left[n] = 0 => Whole(wire[stream[n]], n)

\* What the opener of a stream has written on it.
Opened ==
  \A s \in Calls :
    /\ wire[s] = <<>> <=> (stream[s] # s \/ left[s] = 3)
    /\ lane[s] = "bulk" /\ stream[s] = s => Len(wire[s]) = 3 - left[s]

IInv == Shape /\ (\A n \in Calls : Progress(n)) /\ Mutex /\ Slots /\ Ends /\ Halves /\ Opened

-----------------------------------------------------------------------------
\* The names of calls and streams.
LEMMA Names ==
  /\ Calls \subseteq Streams /\ Streams \subseteq Nat /\ Streams = Calls \cup {0}
  /\ 0 \in Streams /\ 0 \notin Calls /\ NoStream \notin Streams /\ NoStream \notin Calls
  /\ "session" \notin Kept /\ "bulk" \notin Kept
  BY ClientAssumption DEF Calls, Streams, NoStream

\* Writing puts one more item at the end of a stream.
LEMMA Longer ==
  ASSUME NEW w \in Seq(Streams), NEW x \in Streams
  PROVE  /\ Append(w, x) \in Seq(Streams) /\ Append(w, x) # <<>>
         /\ Len(w) \in Nat /\ Len(Append(w, x)) = Len(w) + 1
         /\ \A i \in 1 .. Len(w) : Append(w, x)[i] = w[i]
         /\ Append(w, x)[Len(w) + 1] = x
         /\ \A n : At(Append(w, x), n) = IF n = x THEN At(w, n) \cup {Len(w) + 1} ELSE At(w, n)
<1>1. /\ Append(w, x) \in Seq(Streams) /\ Append(w, x) # <<>>
      /\ Len(w) \in Nat /\ Len(Append(w, x)) = Len(w) + 1
      /\ \A i \in 1 .. Len(w) : Append(w, x)[i] = w[i]
      /\ Append(w, x)[Len(w) + 1] = x
  OBVIOUS
<1>2. 1 .. Len(w) + 1 = (1 .. Len(w)) \cup {Len(w) + 1} /\ Len(w) + 1 \notin 1 .. Len(w)
  BY <1>1
<1> QED
  BY <1>1, <1>2 DEF At

LEMMA WireFacts ==
  ASSUME Shape, NEW s \in Streams
  PROVE  /\ wire[s] \in Seq(Streams) /\ Len(wire[s]) \in Nat
         /\ DOMAIN wire[s] = 1 .. Len(wire[s])
         /\ \A i \in 1 .. Len(wire[s]) : wire[s][i] \in Streams
         /\ \A n : Occurs(n, s) = At(wire[s], n)
<1>1. wire[s] \in Seq(Streams)
  BY DEF Shape
<1> QED
  BY <1>1 DEF Occurs, At

\* Nothing is written, and no frame that was begun changes its stream.
LEMMA HalvesAlone ==
  ASSUME Shape, Halves, wire' = wire,
         \A n \in Calls : left[n] < 2 \/ left'[n] < 2 =>
           left'[n] = left[n] /\ stream'[n] = stream[n] /\ (pc[n] = "cancelled" => pc'[n] = pc[n])
  PROVE  Halves'
<1> USE Names DEF LaneByte, SessionStream
<1>1. ASSUME NEW s \in Streams, NEW i \in 1 .. Len(wire[s])
      PROVE  /\ wire[s][i] = 0 <=> (i = 1 /\ s # 0)
             /\ wire[s][i] # 0 => stream'[wire[s][i]] = s /\ left'[wire[s][i]] < 2
  <2>1. wire[s][i] \in Streams
    BY WireFacts
  <2> QED
    BY <2>1, Zenon DEF Halves
<1>2. ASSUME NEW n \in Calls, left'[n] = 1
      PROVE  /\ Half(wire[stream'[n]], n)
             /\ Torn(n)' \/ wire[stream'[n]][Len(wire[stream'[n]])] = n
  <2>1. left[n] = 1 /\ stream'[n] = stream[n] /\ (pc[n] = "cancelled" => pc'[n] = pc[n])
    BY <1>2
  <2>2. Torn(n) => Torn(n)'
    BY <2>1, <1>2 DEF Torn
  <2> QED
    BY <2>1, <2>2 DEF Halves
<1>3. ASSUME NEW n \in Calls, left'[n] = 0
      PROVE  Whole(wire[stream'[n]], n)
  <2>1. left[n] = 0 /\ stream'[n] = stream[n]
    BY <1>3
  <2> QED
    BY <2>1 DEF Halves
<1> QED
  BY <1>1, <1>2, <1>3 DEF Halves

LEMMA FrameGrows ==
  ASSUME NEW w \in Seq(Streams), NEW x \in Streams
  PROVE  /\ \A n : n # x /\ Half(w, n) => Half(Append(w, x), n)
         /\ \A n : n # x /\ Whole(w, n) => Whole(Append(w, x), n)
         /\ (\A i \in 1 .. Len(w) : w[i] # x) => Half(Append(w, x), x)
         /\ Half(w, x) /\ w[Len(w)] = x => Whole(Append(w, x), x)
<1> DEFINE v == Append(w, x)
<1>1. /\ Len(w) \in Nat /\ Len(v) = Len(w) + 1
      /\ \A n : At(v, n) = IF n = x THEN At(w, n) \cup {Len(w) + 1} ELSE At(w, n)
  BY Longer
<1> HIDE DEF v
<1>2. \A i \in 1 .. Len(w) : i \in 1 .. Len(v)
  BY <1>1
<1>3. ASSUME NEW n, n # x PROVE At(v, n) = At(w, n)
  BY <1>1, <1>3
<1>4. ASSUME \A i \in 1 .. Len(w) : w[i] # x PROVE Half(v, x)
  <2>1. At(w, x) = {}
    BY <1>4 DEF At
  <2>2. At(v, x) = {Len(w) + 1} /\ Len(w) + 1 \in 1 .. Len(v)
    BY <1>1, <2>1
  <2> QED
    BY <2>2 DEF Half
<1>5. ASSUME Half(w, x), w[Len(w)] = x PROVE Whole(v, x)
  <2>1. PICK i \in 1 .. Len(w) : At(w, x) = {i}
    BY <1>5 DEF Half
  <2>2. Len(w) \in At(w, x)
    BY <1>1, <1>5 DEF At
  <2>3. i = Len(w)
    BY <2>1, <2>2
  <2>4. At(v, x) = {i, i + 1} /\ i \in 1 .. Len(v)
    BY <1>1, <1>2, <2>1, <2>3
  <2> QED
    BY <2>4, Zenon DEF Whole
<1> QED
  BY <1>2, <1>3, <1>4, <1>5, Zenon DEF Half, Whole, v

\* Two calls that write on one stream are the same call: they hold the same
\* mutex, or the stream is a bulk stream.
LEMMA OneWriter ==
  ASSUME IInv, NEW n \in Calls, NEW m \in Calls, pc[n] = "write", pc[m] = "write",
         stream[n] = stream[m]
  PROVE  n = m
<1>1. lane[n] = lane[m]
  BY Names DEF IInv, Shape, Progress, SessionStream
<1> QED
  BY <1>1, Names DEF IInv, Shape, Progress, Mutex

\* While a call can write, every other frame begun on its stream was torn.
LEMMA OthersTorn ==
  ASSUME IInv, NEW n \in Calls, NEW m \in Calls, pc[n] = "write", ~Broken(n),
         m # n, stream[m] = stream[n], left[m] = 1
  PROVE  Torn(m)
<1>1. pc[m] \notin {"unused", "lock", "open", "write", "ok"}
  BY OneWriter, Names, SMTT(20) DEF IInv, Shape, Progress
<1>2. status[stream[n]] = "open" /\ stream[n] \in Streams
  BY Names DEF IInv, Shape, Progress, Ends
<1>3. pc[m] # "failed"
  BY <1>2, Names DEF IInv, Ends, Broken, Closing, SessionStream
<1>4. pc[m] = "cancelled"
  BY <1>1, <1>3 DEF IInv, Shape
<1>5. stream[m] # m
  BY <1>2, <1>4 DEF IInv, Ends, Closing
<1> QED
  BY <1>4, <1>5 DEF Torn

\* A half of the frame of n goes to the end of its stream.
LEMMA HalvesGrow ==
  ASSUME IInv, NEW n \in Calls, pc[n] = "write", ~Broken(n), left[n] \in {1, 2},
         wire' = [wire EXCEPT ![stream[n]] = Append(@, n)],
         left' = [left EXCEPT ![n] = @ - 1], stream' = stream,
         \A m \in Calls : m # n => pc'[m] = pc[m]
  PROVE  Halves'
<1> DEFINE s == stream[n]
           w == wire[s]
<1> USE Names DEF LaneByte, SessionStream
<1>1. s \in Streams /\ w \in Seq(Streams) /\ Len(w) \in Nat /\ n \in Streams /\ n # 0
  <2>1. s \in Streams
    BY DEF IInv, Shape, Progress
  <2> QED
    BY <2>1, WireFacts, Zenon DEF IInv
<1>2. wire'[s] = Append(w, n) /\ \A t \in Streams : t # s => wire'[t] = wire[t]
  BY <1>1 DEF IInv, Shape
<1>3. left'[n] = left[n] - 1 /\ \A m \in Calls : m # n => left'[m] = left[m]
  BY DEF IInv, Shape
<1>4. /\ Len(Append(w, n)) = Len(w) + 1
      /\ \A i \in 1 .. Len(w) : Append(w, n)[i] = w[i]
      /\ Append(w, n)[Len(w) + 1] = n
  BY <1>1, Longer
<1>5. /\ \A m : m # n /\ Half(w, m) => Half(Append(w, n), m)
      /\ \A m : m # n /\ Whole(w, m) => Whole(Append(w, n), m)
      /\ (\A i \in 1 .. Len(w) : w[i] # n) => Half(Append(w, n), n)
      /\ Half(w, n) /\ w[Len(w)] = n => Whole(Append(w, n), n)
  BY <1>1, FrameGrows, Zenon
<1>6. s # 0 => Len(w) # 0
  <2>1. ASSUME s # 0 PROVE w # <<>>
    <3>1. s \in Calls /\ stream[s] = s
      BY <1>1, <2>1 DEF IInv, Progress
    <3>2. left[s] # 3
      <4>1. CASE s # n
        <5>1. lane[n] \in Kept
          BY <1>1, <2>1, <4>1 DEF IInv, Progress, Shape, Lanes
        <5>2. pc[s] = "ok"
          BY <1>1, <4>1, <5>1 DEF IInv, Slots
        <5>3. Progress(s)
          BY <3>1, Zenon DEF IInv
        <5> QED
          BY <5>2, <5>3 DEF Progress
      <4> QED
        BY <4>1
    <3> QED
      BY <3>1, <3>2, Zenon DEF IInv, Opened
  <2> QED
    BY <1>1, <2>1
<1>7. ASSUME NEW t \in Streams, NEW i \in 1 .. Len(wire'[t])
      PROVE  /\ wire'[t][i] = 0 <=> (i = 1 /\ t # 0)
             /\ wire'[t][i] # 0 => stream[wire'[t][i]] = t /\ left'[wire'[t][i]] < 2
  <2>1. ASSUME NEW j \in 1 .. Len(wire[t])
        PROVE  /\ wire[t][j] = 0 <=> (j = 1 /\ t # 0)
               /\ wire[t][j] # 0 => stream[wire[t][j]] = t /\ left'[wire[t][j]] < 2
    <3>1. wire[t][j] \in Streams
      BY WireFacts DEF IInv
    <3>2. /\ wire[t][j] = 0 <=> (j = 1 /\ t # 0)
          /\ wire[t][j] # 0 => stream[wire[t][j]] = t /\ left[wire[t][j]] < 2
      BY DEF IInv, Halves
    <3> QED
      BY <1>3, <3>1, <3>2
  <2>2. CASE t # s \/ i # Len(w) + 1
    <3>1. i \in 1 .. Len(wire[t]) /\ wire'[t][i] = wire[t][i]
      BY <1>1, <1>2, <1>4, <2>2
    <3> QED
      BY <2>1, <3>1
  <2>3. CASE t = s /\ i = Len(w) + 1
    <3>1. wire'[t][i] = n
      BY <1>2, <1>4, <2>3
    <3> QED
      BY <1>1, <1>3, <1>6, <2>3, <3>1
  <2> QED
    BY <2>2, <2>3
<1>8. ASSUME NEW m \in Calls, m # n
      PROVE  /\ left'[m] = 1 => /\ Half(wire'[stream[m]], m)
                                /\ Torn(m)' \/ wire'[stream[m]][Len(wire'[stream[m]])] = m
             /\ left'[m] = 0 => Whole(wire'[stream[m]], m)
  <2>1. left'[m] = left[m] /\ pc'[m] = pc[m] /\ (left[m] \in {0, 1} => stream[m] \in Streams)
    BY <1>3, <1>8 DEF IInv, Shape, Progress
  <2>2. /\ left[m] = 1 => /\ Half(wire[stream[m]], m)
                          /\ Torn(m) \/ wire[stream[m]][Len(wire[stream[m]])] = m
        /\ left[m] = 0 => Whole(wire[stream[m]], m)
    BY DEF IInv, Halves
  <2>3. Torn(m) => Torn(m)'
    BY <2>1 DEF Torn
  <2>4. CASE stream[m] # s
    BY <1>2, <2>1, <2>2, <2>3, <2>4
  <2>5. CASE stream[m] = s
    <3>1. left[m] = 1 => Torn(m)
      BY <1>8, <2>5, OthersTorn
    <3> QED
      BY <1>2, <1>5, <1>8, <2>1, <2>2, <2>3, <2>5, <3>1, SMTT(20)
  <2> QED
    BY <2>4, <2>5
<1>9. /\ left'[n] = 1 => /\ Half(wire'[stream[n]], n)
                         /\ Torn(n)' \/ wire'[stream[n]][Len(wire'[stream[n]])] = n
      /\ left'[n] = 0 => Whole(wire'[stream[n]], n)
  <2>1. CASE left[n] = 2
    <3>1. ASSUME NEW i \in 1 .. Len(w) PROVE w[i] # n
      <4>1. w[i] # 0 => left[w[i]] < 2
        BY <1>1, Zenon DEF IInv, Halves
      <4> QED
        BY <1>1, <2>1, <4>1
    <3>2. Half(wire'[s], n) /\ wire'[s][Len(wire'[s])] = n
      BY <1>2, <1>4, <1>5, <3>1
    <3> QED
      BY <1>3, <2>1, <3>2
  <2>2. CASE left[n] = 1
    <3>1. ~Torn(n)
      BY DEF Torn
    <3>2. Half(w, n) /\ w[Len(w)] = n
      BY <2>2, <3>1 DEF IInv, Halves
    <3> QED
      BY <1>2, <1>3, <1>5, <2>2, <3>2
  <2> QED
    BY <2>1, <2>2
<1> QED
  BY <1>7, <1>8, <1>9 DEF Halves

\* The lane byte is the first thing on a new stream.
LEMMA HalvesLaneByte ==
  ASSUME IInv, NEW n \in Calls, left[n] = 3,
         wire' = [wire EXCEPT ![stream[n]] = Append(@, LaneByte)],
         left' = [left EXCEPT ![n] = @ - 1], stream' = stream, pc' = pc
  PROVE  Halves'
<1> USE Names DEF LaneByte, SessionStream
<1>1. stream[n] = n /\ wire[n] = <<>>
  BY DEF IInv, Progress, Opened
<1>2. wire'[n] = <<0>> /\ \A t \in Streams : t # n => wire'[t] = wire[t]
  <2>1. Append(<<>>, 0) = <<0>>
    OBVIOUS
  <2> QED
    BY <1>1, <2>1 DEF IInv, Shape
<1>3. left'[n] = 2 /\ \A m \in Calls : m # n => left'[m] = left[m]
  BY DEF IInv, Shape
<1>4. Len(<<0>>) = 1 /\ <<0>>[1] = 0
  OBVIOUS
<1>5. ASSUME NEW t \in Streams, NEW i \in 1 .. Len(wire'[t])
      PROVE  /\ wire'[t][i] = 0 <=> (i = 1 /\ t # 0)
             /\ wire'[t][i] # 0 => stream[wire'[t][i]] = t /\ left'[wire'[t][i]] < 2
  <2>1. CASE t = n
    BY <1>2, <1>4, <2>1
  <2>2. CASE t # n
    <3>1. /\ wire[t][i] \in Streams
          /\ wire[t][i] = 0 <=> (i = 1 /\ t # 0)
          /\ wire[t][i] # 0 => stream[wire[t][i]] = t /\ left[wire[t][i]] < 2
      BY <1>2, <2>2, WireFacts, Zenon DEF IInv, Halves
    <3>2. wire[t][i] # n => left'[wire[t][i]] = left[wire[t][i]] \/ wire[t][i] = 0
      BY <1>3, <3>1
    <3>3. wire[t][i] = n => left[wire[t][i]] = 3 /\ n # 0
      OBVIOUS
    <3>4. wire[t][i] # n
      BY <3>1, <3>3
    <3> QED
      BY <1>2, <2>2, <3>1, <3>2, <3>4, Zenon
  <2> QED
    BY <2>1, <2>2
<1>6. ASSUME NEW m \in Calls, left'[m] < 2
      PROVE  /\ m # n /\ left[m] = left'[m] /\ wire'[stream[m]] = wire[stream[m]]
             /\ Torn(m)' <=> Torn(m)
  <2>1. m # n /\ left[m] = left'[m]
    BY <1>3, <1>6
  <2>2. stream[m] \in Streams /\ (stream[m] = n => wire[n] # <<>>)
    <3>1. stream[m] \in Streams
      BY <2>1, <1>6 DEF IInv, Shape, Progress
    <3>2. Half(wire[stream[m]], m) \/ Whole(wire[stream[m]], m)
      <4>1. left[m] \in 0 .. 3 /\ left[m] < 2
        BY <2>1, <1>6 DEF IInv, Shape
      <4> QED
        BY <4>1 DEF IInv, Halves
    <3>3. Len(wire[stream[m]]) # 0
      BY <3>1, <3>2, WireFacts DEF IInv, Half, Whole
    <3> QED
      BY <3>1, <3>3
  <2>3. Torn(m)' <=> Torn(m)
    BY <2>1 DEF Torn
  <2> QED
    BY <1>1, <1>2, <2>1, <2>2, <2>3
<1>7. ASSUME NEW m \in Calls
      PROVE  /\ left'[m] = 1 => /\ Half(wire'[stream[m]], m)
                                /\ Torn(m)' \/ wire'[stream[m]][Len(wire'[stream[m]])] = m
             /\ left'[m] = 0 => Whole(wire'[stream[m]], m)
  <2>1. CASE left'[m] \in {0, 1}
    <3>1. left'[m] < 2
      BY <2>1
    <3>2. /\ left[m] = left'[m] /\ wire'[stream[m]] = wire[stream[m]]
          /\ Torn(m)' <=> Torn(m)
      BY <1>6, <3>1
    <3> QED
      BY <3>2, Zenon DEF IInv, Halves
  <2> QED
    BY <2>1
<1> QED
  BY <1>5, <1>7 DEF Halves

\* What a step of writing does to the wire, for Shape and Opened.
LEMMA WireGrows ==
  ASSUME IInv, NEW n \in Calls, pc[n] = "write", NEW x \in {n, LaneByte},
         wire' = [wire EXCEPT ![stream[n]] = Append(@, x)]
  PROVE  /\ stream[n] \in Streams
         /\ wire' \in [Streams -> Seq(Streams)]
         /\ wire'[stream[n]] = Append(wire[stream[n]], x)
         /\ wire'[stream[n]] # <<>>
         /\ \A t \in Streams : t # stream[n] => wire'[t] = wire[t]
<1>1. stream[n] \in Streams /\ x \in Streams
  BY Names DEF IInv, Shape, Progress, LaneByte
<1>2. Append(wire[stream[n]], x) \in Seq(Streams) /\ Append(wire[stream[n]], x) # <<>>
  BY <1>1, WireFacts, Longer DEF IInv
<1>3. wire \in [Streams -> Seq(Streams)]
  BY DEF IInv, Shape
<1> QED
  BY <1>1, <1>2, <1>3

\* A call that writes on a stream it did not open finds a frame on it.
LEMMA OpenedGrows ==
  ASSUME IInv, NEW n \in Calls, pc[n] = "write",
         wire' = [wire EXCEPT ![stream[n]] = Append(@, IF left[n] = 3 THEN LaneByte ELSE n)],
         left' = [left EXCEPT ![n] = @ - 1], UNCHANGED <<stream, lane>>
  PROVE  Opened'
<1> USE Names DEF LaneByte
<1> DEFINE s == stream[n]
           x == IF left[n] = 3 THEN 0 ELSE n
<1>1. /\ s \in Streams /\ wire'[s] = Append(wire[s], x) /\ wire'[s] # <<>>
      /\ \A t \in Streams : t # s => wire'[t] = wire[t]
  <2>1. x \in {n, LaneByte} /\ wire' = [wire EXCEPT ![stream[n]] = Append(@, x)]
    OBVIOUS
  <2> HIDE DEF x
  <2> QED
    BY <2>1, WireGrows, Zenon
<1>2. /\ left[n] \in 1 .. 3 /\ left'[n] = left[n] - 1
      /\ \A m \in Calls : m # n => left'[m] = left[m]
  BY DEF IInv, Shape, Progress
<1>3. s # 0 => s \in Calls /\ stream[s] = s /\ (s # n => left[s] # 3 /\ lane[s] # "bulk")
  <2>1. ASSUME s # 0 PROVE s \in Calls /\ stream[s] = s
    BY <1>1, <2>1 DEF IInv, Progress
  <2>2. ASSUME s # 0, s # n PROVE left[s] # 3 /\ lane[s] # "bulk"
    <3>1. lane[n] \in Kept /\ lane[s] = lane[n]
      BY <1>1, <2>1, <2>2 DEF IInv, Progress, Shape, Lanes, SessionStream
    <3>2. pc[s] = "ok"
      BY <2>2, <3>1, <1>1, <2>1 DEF IInv, Slots
    <3>3. Progress(s)
      BY <2>1, <2>2, Zenon DEF IInv
    <3> QED
      BY <3>1, <3>2, <3>3 DEF Progress
  <2> QED
    BY <2>1, <2>2
<1>4. ASSUME NEW t \in Calls
      PROVE  wire'[t] = <<>> <=> (stream[t] # t \/ left'[t] = 3)
  <2>1. wire[t] = <<>> <=> (stream[t] # t \/ left[t] = 3)
    BY DEF IInv, Opened
  <2>2. CASE t = s
    BY <1>1, <1>2, <1>3, <2>1, <2>2
  <2>3. CASE t # s
    <3>1. left'[t] = left[t] \/ (t = n /\ left[n] # 3 /\ stream[n] # n)
      BY <1>2, <2>3 DEF IInv, Progress
    <3> QED
      BY <1>1, <1>2, <2>1, <2>3, <3>1
  <2> QED
    BY <2>2, <2>3
<1>5. ASSUME NEW t \in Calls, lane[t] = "bulk", stream[t] = t
      PROVE  Len(wire'[t]) = 3 - left'[t]
  <2>1. Len(wire[t]) = 3 - left[t]
    BY <1>5 DEF IInv, Opened
  <2>2. CASE t # n
    <3>1. t # s
      BY <1>3, <1>5, <2>2
    <3> QED
      BY <1>1, <1>2, <2>1, <2>2, <3>1
  <2>3. CASE t = n
    <3>1. wire'[n] = Append(wire[n], x) /\ wire[n] \in Seq(Streams) /\ x \in Streams
      BY <1>1, <1>5, <2>3, WireFacts DEF IInv
    <3>2. Len(wire'[n]) = Len(wire[n]) + 1
      <4> HIDE DEF x
      <4> QED
        BY <3>1, Longer
    <3> QED
      BY <1>2, <2>1, <2>3, <3>2
  <2> QED
    BY <2>2, <2>3
<1> QED
  BY <1>4, <1>5 DEF Opened

LEMMA WriteInv ==
  ASSUME IInv, NEW n \in Calls, Write(n)
  PROVE  IInv'
<1> USE Names DEF SessionStream, Nobody, LaneByte, Closing, Lanes
<1>1. Shape'
  <2>1. (IF left[n] = 3 THEN LaneByte ELSE n) \in {n, LaneByte}
    OBVIOUS
  <2>2. wire' \in [Streams -> Seq(Streams)]
    BY <2>1, WireGrows, Zenon DEF Write
  <2> QED
    BY <2>2, SMTT(20) DEF Write, peerVars, IInv, Shape
<1>2. \A m \in Calls : Progress(m)'
  BY DEF Write, peerVars, IInv, Shape, Progress
<1>3. Mutex'
  BY DEF Write, peerVars, IInv, Shape, Progress, Mutex
<1>4. Slots'
  BY DEF Write, peerVars, IInv, Shape, Progress, Mutex, Slots
<1>5. Ends'
  BY DEF Write, peerVars, IInv, Shape, Progress, Mutex, Slots, Ends
<1>6. Halves'
  <2>1. CASE left[n] = 3
    BY <2>1, HalvesLaneByte, Zenon DEF Write
  <2>2. CASE left[n] # 3
    <3>1. left[n] \in {1, 2}
      BY <2>2 DEF Write, IInv, Shape
    <3> QED
      BY <2>2, <3>1, HalvesGrow, Zenon DEF Write
  <2> QED
    BY <2>1, <2>2
<1>7. Opened'
  BY OpenedGrows, Zenon DEF Write
<1> QED
  BY <1>1, <1>2, <1>3, <1>4, <1>5, <1>6, <1>7 DEF IInv

LEMMA WriteLastInv ==
  ASSUME IInv, NEW n \in Calls, WriteLast(n)
  PROVE  IInv'
<1> USE Names DEF SessionStream, Nobody, LaneByte, Closing, Lanes
<1>1. Shape'
  <2>1. wire' \in [Streams -> Seq(Streams)] /\ stream[n] \in Streams
    BY WireGrows, Zenon DEF WriteLast
  <2>2. slot' \in [Kept -> Calls \cup {NoStream}]
    BY <2>1 DEF WriteLast, IInv, Shape, Progress
  <2>3. status' \in [Streams -> {"unused", "open"} \cup Closing]
    BY <2>1 DEF WriteLast, EndsStream, Drop, IInv, Shape
  <2>4. left' \in [Calls -> 0 .. 3]
    BY DEF WriteLast, AtLastPart, IInv, Shape
  <2> QED
    BY <2>1, <2>2, <2>3, <2>4 DEF WriteLast, Return, peerVars, IInv, Shape
<1>2. \A m \in Calls : Progress(m)'
  BY DEF WriteLast, AtLastPart, EndsStream, Drop, Return, peerVars, IInv, Shape, Progress
<1>3. Mutex'
  BY DEF WriteLast, AtLastPart, EndsStream, Drop, Return, peerVars, IInv, Shape, Progress, Mutex
<1>4. Slots'
  <2>1. /\ pc' = [pc EXCEPT ![n] = "ok"] /\ lane' = lane /\ stream' = stream
        /\ slot' = [l \in Kept |-> IF l = lane[n] THEN stream[n] ELSE slot[l]]
        /\ pc[n] = "write"
    BY DEF WriteLast, Return
  <2>2. \A t \in Calls : status[t] = "open" /\ lane[t] \in Kept => status'[t] = "open"
    <3>1. CASE lane[n] = "bulk"
      BY <2>1, <3>1 DEF WriteLast, EndsStream, Drop, IInv, Shape, Progress
    <3>2. CASE lane[n] # "bulk"
      BY <3>2 DEF WriteLast, EndsStream
    <3> QED
      BY <3>1, <3>2
  <2>3. ASSUME NEW l \in Kept, slot'[l] # NoStream
        PROVE  lane[slot'[l]] = l /\ pc'[slot'[l]] = "ok" /\ status'[slot'[l]] = "open"
    <3>1. CASE l = lane[n]
      <4>1. stream[n] \in Calls /\ lane[stream[n]] = l /\ status[stream[n]] = "open"
        BY <2>1, <3>1 DEF IInv, Shape, Progress, Ends
      <4>2. stream[n] # n => pc[stream[n]] = "ok"
        BY <2>1, <3>1, <4>1 DEF IInv, Slots
      <4> QED
        BY <2>1, <2>2, <3>1, <4>1, <4>2 DEF IInv, Shape
    <3>2. CASE l # lane[n]
      <4>1. /\ slot'[l] = slot[l] /\ slot[l] \in Calls
            /\ lane[slot[l]] = l /\ pc[slot[l]] = "ok" /\ status[slot[l]] = "open"
        BY <2>1, <2>3, <3>2 DEF IInv, Shape, Slots
      <4> QED
        BY <2>1, <2>2, <4>1, Zenon DEF IInv, Shape
    <3> QED
      BY <3>1, <3>2
  <2>4. \A m \in Calls : m # n /\ lane[m] \in Kept /\ pc[m] \in {"open", "write"} =>
          lane[m] # lane[n]
    BY <2>1 DEF IInv, Mutex
  <2>5. \A m \in Calls : lane[m] \in Kept =>
          /\ pc'[m] = "open" => slot'[lane[m]] = NoStream
          /\ pc'[m] = "write" => slot'[lane[m]] = IF stream[m] = m THEN NoStream ELSE stream[m]
    BY <2>1, <2>4 DEF IInv, Shape, Slots
  <2> QED
    BY <2>1, <2>3, <2>5 DEF Slots
<1>5. Ends'
  <2>1. /\ stream' = stream /\ lane' = lane /\ stopped' = stopped /\ closed' = closed
        /\ pc'[n] = "ok" /\ \A m \in Calls : m # n => pc'[m] = pc[m]
        /\ pc[n] = "write"
        /\ slot' = [l \in Kept |-> IF l = lane[n] THEN stream[n] ELSE slot[l]]
    BY DEF WriteLast, Return, peerVars, IInv, Shape
  <2>2. CASE lane[n] = "bulk"
    <3>1. stream[n] = n /\ status' = [status EXCEPT ![n] = "finished"] /\ slot' = slot
      BY <2>1, <2>2 DEF WriteLast, EndsStream, Drop, IInv, Shape, Progress
    <3>2. \A m \in Calls : m # n => stream[m] # n
      <4>1. ASSUME NEW m \in Calls, stream[m] = n PROVE m = n
        BY <2>2, <4>1 DEF IInv, Progress
      <4> QED
        BY <4>1
    <3>3. /\ status'[n] = "finished"
          /\ \A t \in Streams : t # n => status'[t] = status[t]
      BY <3>1 DEF IInv, Shape
    <3> QED
      BY <2>1, <2>2, <3>1, <3>2, <3>3 DEF IInv, Shape, Ends
  <2>3. CASE lane[n] # "bulk"
    <3>1. status' = status
      BY <2>3 DEF WriteLast, EndsStream
    <3>2. ASSUME NEW t \in Calls, status[t] = "open"
          PROVE  pc'[t] = "write" \/ (lane[t] \in Kept /\ slot'[lane[t]] = t)
      <4>1. pc[t] = "write" \/ (lane[t] \in Kept /\ slot[lane[t]] = t)
        BY <3>2 DEF IInv, Ends
      <4>2. CASE t = n
        <5>1. stream[n] = n /\ lane[n] \in Kept
          BY <2>3, <3>2, <4>2 DEF IInv, Ends, Progress, Shape
        <5> QED
          BY <2>1, <4>2, <5>1
      <4>3. CASE t # n /\ lane[t] \in Kept /\ slot[lane[t]] = t /\ lane[t] = lane[n]
        <5>1. stream[n] = t
          BY <2>1, <4>3 DEF IInv, Slots, Shape
        <5> QED
          BY <2>1, <4>3, <5>1
      <4> QED
        BY <2>1, <4>1, <4>2, <4>3
    <3> QED
      BY <2>1, <2>3, <3>1, <3>2 DEF IInv, Ends
  <2> QED
    BY <2>2, <2>3
<1>6. Halves'
  BY HalvesGrow, Zenon DEF WriteLast, AtLastPart, Return, IInv, Shape
<1>7. Opened'
  <2>1. (IF left[n] = 3 THEN LaneByte ELSE n) = n
    BY DEF WriteLast, AtLastPart
  <2> QED
    BY <2>1, OpenedGrows, Zenon DEF WriteLast
<1> QED
  BY <1>1, <1>2, <1>3, <1>4, <1>5, <1>6, <1>7 DEF IInv

LEMMA CallInv ==
  ASSUME IInv, NEW n \in Calls, NEW l \in Lanes, Call(n, l)
  PROVE  IInv'
<1> USE Names DEF SessionStream, Nobody, LaneByte, Closing, Lanes
<1>1. Shape'
  BY DEF Call, peerVars, IInv, Shape
<1>2. \A m \in Calls : Progress(m)'
  BY DEF Call, peerVars, IInv, Shape, Progress
<1>3. Mutex'
  BY DEF Call, peerVars, IInv, Shape, Progress, Mutex
<1>4. Slots'
  BY DEF Call, peerVars, IInv, Shape, Progress, Mutex, Slots
<1>5. Ends'
  BY DEF Call, peerVars, IInv, Shape, Progress, Mutex, Slots, Ends
<1>6. Halves'
  BY HalvesAlone DEF Call, peerVars, IInv, Shape, Progress
<1>7. Opened'
  BY DEF Call, peerVars, IInv, Shape, Progress, Opened
<1> QED
  BY <1>1, <1>2, <1>3, <1>4, <1>5, <1>6, <1>7 DEF IInv

\* send_session has the mutex and finds the connection closed.
LEMMA SessionClosedInv ==
  ASSUME IInv, NEW n \in Calls, pc[n] = "lock", closed, Return(n, "failed"),
         UNCHANGED <<callVars, slot, wire, status, peerVars>>
  PROVE  IInv'
<1> USE Names DEF SessionStream, Nobody, LaneByte, Closing, Lanes
<1>1. Shape'
  BY DEF Return, callVars, peerVars, IInv, Shape
<1>2. \A m \in Calls : Progress(m)'
  BY DEF Return, callVars, peerVars, IInv, Shape, Progress
<1>3. Mutex'
  BY DEF Return, callVars, peerVars, IInv, Shape, Progress, Mutex
<1>4. Slots'
  BY DEF Return, callVars, peerVars, IInv, Shape, Progress, Mutex, Slots
<1>5. Ends'
  BY DEF Return, callVars, peerVars, IInv, Shape, Progress, Mutex, Slots, Ends
<1>6. Halves'
  BY HalvesAlone DEF Return, callVars, peerVars, IInv, Shape, Progress
<1>7. Opened'
  BY DEF Return, callVars, peerVars, IInv, Shape, Progress, Opened
<1> QED
  BY <1>1, <1>2, <1>3, <1>4, <1>5, <1>6, <1>7 DEF IInv

\* send_session has the mutex of an open connection.
LEMMA SessionLockedInv ==
  ASSUME IInv, NEW n \in Calls, pc[n] = "lock", lane[n] = "session", holder["session"] = Nobody,
         pc' = [pc EXCEPT ![n] = "write"], stream' = [stream EXCEPT ![n] = SessionStream],
         holder' = [holder EXCEPT !["session"] = n],
         UNCHANGED <<lane, left, slot, wire, status, peerVars>>
  PROVE  IInv'
<1> USE Names DEF SessionStream, Nobody, LaneByte, Closing, Lanes
<1>1. Shape'
  BY DEF peerVars, IInv, Shape
<1>2. \A m \in Calls : Progress(m)'
  <2>1. ASSUME NEW m \in Calls PROVE Progress(m)'
    <3>1. stream[m] # n
      BY DEF IInv, Progress, Shape
    <3> QED
      BY <3>1 DEF IInv, Shape, Progress
  <2> QED
    BY <2>1
<1>3. Mutex'
  BY DEF peerVars, IInv, Shape, Progress, Mutex
<1>4. Slots'
  BY DEF peerVars, IInv, Shape, Progress, Mutex, Slots
<1>5. Ends'
  BY DEF peerVars, IInv, Shape, Progress, Mutex, Slots, Ends
<1>6. Halves'
  BY HalvesAlone DEF peerVars, IInv, Shape, Progress
<1>7. Opened'
  BY DEF peerVars, IInv, Shape, Progress, Opened
<1> QED
  BY <1>1, <1>2, <1>3, <1>4, <1>5, <1>6, <1>7 DEF IInv

LEMMA LockSessionInv ==
  ASSUME IInv, NEW n \in Calls, LockSession(n)
  PROVE  IInv'
<1>1. CASE closed
  BY <1>1, SessionClosedInv DEF LockSession, callVars
<1>2. CASE ~closed
  BY <1>2, SessionLockedInv DEF LockSession, MayLock
<1> QED
  BY <1>1, <1>2

LEMMA LockLaneInv ==
  ASSUME IInv, NEW n \in Calls, LockLane(n)
  PROVE  IInv'
<1> USE Names DEF SessionStream, Nobody, LaneByte, Closing, Lanes
<1>1. Shape'
  BY DEF LockLane, MayLock, peerVars, IInv, Shape
<1>2. \A m \in Calls : Progress(m)'
  <2>1. slot[lane[n]] # NoStream =>
          /\ slot[lane[n]] \in Calls /\ slot[lane[n]] # n
          /\ lane[slot[lane[n]]] = lane[n] /\ stream[slot[lane[n]]] = slot[lane[n]]
    <3>1. lane[n] \in Kept /\ pc[n] = "lock"
      BY DEF LockLane
    <3>2. slot[lane[n]] # NoStream =>
            /\ slot[lane[n]] \in Calls /\ slot[lane[n]] # n
            /\ lane[slot[lane[n]]] = lane[n] /\ status[slot[lane[n]]] = "open"
      BY <3>1 DEF IInv, Shape, Slots
    <3> QED
      BY <3>2, Zenon DEF IInv, Ends
  <2>2. ASSUME NEW m \in Calls PROVE Progress(m)'
    <3>1. stream[m] # n
      BY DEF LockLane, IInv, Progress, Shape
    <3> QED
      BY <2>1, <3>1 DEF LockLane, peerVars, IInv, Shape, Progress
  <2> QED
    BY <2>2
<1>3. Mutex'
  BY DEF LockLane, MayLock, peerVars, IInv, Shape, Progress, Mutex
<1>4. Slots'
  BY DEF LockLane, MayLock, peerVars, IInv, Shape, Progress, Mutex, Slots
<1>5. Ends'
  BY DEF LockLane, MayLock, peerVars, IInv, Shape, Progress, Mutex, Slots, Ends
<1>6. Halves'
  BY HalvesAlone DEF LockLane, MayLock, peerVars, IInv, Shape, Progress
<1>7. Opened'
  <2>1. slot[lane[n]] # n /\ stream[n] # n
    BY DEF LockLane, IInv, Shape, Slots, Progress
  <2> QED
    BY <2>1 DEF LockLane, peerVars, IInv, Shape, Opened
<1> QED
  BY <1>1, <1>2, <1>3, <1>4, <1>5, <1>6, <1>7 DEF IInv

LEMMA OpenUniInv ==
  ASSUME IInv, NEW n \in Calls, OpenUni(n)
  PROVE  IInv'
<1> USE Names DEF SessionStream, Nobody, LaneByte, Closing, Lanes
<1>1. Shape'
  BY DEF OpenUni, peerVars, IInv, Shape
<1>2. \A m \in Calls : Progress(m)'
  BY DEF OpenUni, peerVars, IInv, Shape, Progress
<1>3. Mutex'
  BY DEF OpenUni, peerVars, IInv, Shape, Progress, Mutex
<1>4. Slots'
  BY DEF OpenUni, peerVars, IInv, Shape, Progress, Mutex, Slots
<1>5. Ends'
  BY DEF OpenUni, peerVars, IInv, Shape, Progress, Mutex, Slots, Ends
<1>6. Halves'
  BY HalvesAlone DEF OpenUni, peerVars, IInv, Shape, Progress
<1>7. Opened'
  BY DEF OpenUni, peerVars, IInv, Shape, Progress, Opened
<1> QED
  BY <1>1, <1>2, <1>3, <1>4, <1>5, <1>6, <1>7 DEF IInv

LEMMA OpenFailsInv ==
  ASSUME IInv, NEW n \in Calls, OpenFails(n)
  PROVE  IInv'
<1> USE Names DEF SessionStream, Nobody, LaneByte, Closing, Lanes
<1>1. Shape'
  BY DEF OpenFails, Return, callVars, peerVars, IInv, Shape
<1>2. \A m \in Calls : Progress(m)'
  BY DEF OpenFails, Return, callVars, peerVars, IInv, Shape, Progress
<1>3. Mutex'
  BY DEF OpenFails, Return, callVars, peerVars, IInv, Shape, Progress, Mutex
<1>4. Slots'
  BY DEF OpenFails, Return, callVars, peerVars, IInv, Shape, Progress, Mutex, Slots
<1>5. Ends'
  BY DEF OpenFails, Return, callVars, peerVars, IInv, Shape, Progress, Mutex, Slots, Ends
<1>6. Halves'
  BY HalvesAlone DEF OpenFails, Return, callVars, peerVars, IInv, Shape, Progress
<1>7. Opened'
  BY DEF OpenFails, Return, callVars, peerVars, IInv, Shape, Progress, Opened
<1> QED
  BY <1>1, <1>2, <1>3, <1>4, <1>5, <1>6, <1>7 DEF IInv

LEMMA WriteFailsInv ==
  ASSUME IInv, NEW n \in Calls, WriteFails(n)
  PROVE  IInv'
<1> USE Names DEF SessionStream, Nobody, LaneByte, Closing, Lanes
<1>1. Shape'
  BY Zenon DEF WriteFails, SlotAfterFailure, Drop, Return, callVars, peerVars, IInv, Shape
<1>2. \A m \in Calls : Progress(m)'
  BY DEF WriteFails, SlotAfterFailure, Drop, Return, callVars, peerVars, IInv, Shape, Progress
<1>3. Mutex'
  BY DEF WriteFails, SlotAfterFailure, Drop, Return, callVars, peerVars, IInv, Shape, Progress, Mutex
<1>4. Slots'
  <2>1. CASE lane[n] = "session"
    BY <2>1 DEF WriteFails, SlotAfterFailure, Return, callVars, peerVars, IInv, Shape, Slots
  <2>2. CASE lane[n] # "session"
    <3>1. stream[n] \in Calls /\ lane[stream[n]] = lane[n]
      BY <2>2 DEF WriteFails, IInv, Shape, Progress
    <3>2. \A l \in Kept : slot'[l] # NoStream =>
            l # lane[n] /\ slot'[l] = slot[l] /\ slot[l] \in Calls /\ slot[l] # stream[n] /\ slot[l] # n
      BY <3>1 DEF WriteFails, SlotAfterFailure, IInv, Shape, Slots
    <3>3. \A m \in Calls : m # n /\ lane[m] \in Kept /\ pc[m] \in {"open", "write"} =>
            lane[m] # lane[n]
      BY DEF WriteFails, IInv, Mutex
    <3>4. \A l \in Kept : slot'[l] # NoStream =>
            lane[slot'[l]] = l /\ pc'[slot'[l]] = "ok" /\ status'[slot'[l]] = "open"
      <4>1. status' = [status EXCEPT ![stream[n]] = "finished"] /\ pc' = [pc EXCEPT ![n] = "failed"]
        BY <2>2 DEF WriteFails, Drop, Return
      <4>2. ASSUME NEW l \in Kept, slot'[l] # NoStream
            PROVE  lane[slot[l]] = l /\ pc'[slot[l]] = "ok" /\ status'[slot[l]] = "open"
        <5>1. /\ slot[l] \in Calls /\ slot[l] # stream[n] /\ slot[l] # n
              /\ lane[slot[l]] = l /\ pc[slot[l]] = "ok" /\ status[slot[l]] = "open"
          BY <3>2, <4>2 DEF IInv, Slots
        <5> QED
          BY <4>1, <5>1 DEF IInv, Shape
      <4> QED
        BY <3>2, <4>2
    <3>5. \A m \in Calls : lane[m] \in Kept =>
            /\ pc'[m] = "open" => slot'[lane[m]] = NoStream
            /\ pc'[m] = "write" => slot'[lane[m]] = IF stream[m] = m THEN NoStream ELSE stream[m]
      BY <3>3 DEF WriteFails, SlotAfterFailure, Return, IInv, Shape, Slots
    <3> QED
      BY <3>4, <3>5 DEF WriteFails, callVars, Slots
  <2> QED
    BY <2>1, <2>2
<1>5. Ends'
  <2>1. CASE lane[n] = "session"
    <3>1. stream[n] = 0 /\ status' = status /\ slot' = slot
      BY <2>1 DEF WriteFails, SlotAfterFailure, IInv, Shape, Progress
    <3> QED
      BY <3>1 DEF WriteFails, Broken, Return, callVars, peerVars, IInv, Shape, Ends, Progress
  <2>2. CASE lane[n] # "session"
    <3>1. stream[n] \in Calls /\ stream[stream[n]] = stream[n] /\ lane[stream[n]] = lane[n]
          /\ status[stream[n]] = "open"
      BY <2>2 DEF WriteFails, IInv, Shape, Progress, Ends
    <3>2. \A m \in Calls : m # n /\ pc[m] = "write" => stream[m] # stream[n]
      BY OneWriter DEF WriteFails
    <3>3. status' = [status EXCEPT ![stream[n]] = "finished"]
      BY <2>2 DEF WriteFails, Drop
    <3>4. ASSUME NEW t \in Calls, status'[t] = "open"
          PROVE  pc'[t] = "write" \/ (lane[t] \in Kept /\ slot'[lane[t]] = t)
      <4>1. t # stream[n] /\ status[t] = "open"
        BY <3>1, <3>3, <3>4 DEF IInv, Shape
      <4>2. t # n
        BY <4>1 DEF IInv, Ends
      <4>3. lane[t] \in Kept /\ slot[lane[t]] = t => lane[t] # lane[n]
        BY <4>1, <4>2 DEF WriteFails, IInv, Slots, Shape
      <4> QED
        BY <4>1, <4>2, <4>3 DEF WriteFails, SlotAfterFailure, Return, IInv, Ends, Shape
    <3>5. /\ stream' = stream /\ lane' = lane
          /\ pc'[n] = "failed" /\ \A m \in Calls : m # n => pc'[m] = pc[m]
      BY DEF WriteFails, Return, callVars, IInv, Shape
    <3>6. /\ status'[stream[n]] = "finished"
          /\ \A t \in Streams : t # stream[n] => status'[t] = status[t]
      BY <3>1, <3>3 DEF IInv, Shape
    <3>7. \A t \in Calls : status'[t] = "unused" <=> stream[t] # t
      BY <3>1, <3>6 DEF IInv, Ends
    <3>8. ASSUME NEW m \in Calls
          PROVE  /\ pc'[m] = "write" => status'[stream[m]] = "open"
                 /\ pc'[m] = "failed" /\ stream[m] \in Calls => status'[stream[m]] \in Closing
                 /\ pc'[m] = "failed" /\ stream[m] = 0 => closed \/ 0 \in stopped
                 /\ pc'[m] = "cancelled" /\ stream[m] = m => status'[m] \in Closing
                 /\ pc'[m] = "ok" /\ lane[m] = "bulk" => stream[m] = m /\ status'[m] \in Closing
      <4>1. /\ pc[m] = "write" => status[stream[m]] = "open" /\ stream[m] \in Streams
            /\ pc[m] = "failed" /\ stream[m] \in Calls => status[stream[m]] \in Closing
            /\ pc[m] = "failed" /\ stream[m] = 0 => closed \/ 0 \in stopped
            /\ pc[m] = "cancelled" /\ stream[m] = m => status[m] \in Closing
            /\ pc[m] = "ok" /\ lane[m] = "bulk" => stream[m] = m /\ status[m] \in Closing
        BY DEF IInv, Ends, Shape, Progress
      <4> QED
        BY <3>1, <3>2, <3>5, <3>6, <4>1, Zenon
    <3>9. ASSUME NEW m \in Calls, NEW k \in Calls, pc'[m] = "failed", pc'[k] = "failed",
                 stream[m] = stream[k], stream[m] \in Calls
          PROVE  m = k
      BY <3>1, <3>5, <3>9 DEF IInv, Ends
    <3> QED
      BY <3>1, <3>4, <3>5, <3>6, <3>7, <3>8, <3>9, SMTT(20), ZenonT(20), SMTT(30) DEF WriteFails, peerVars, IInv, Ends
  <2> QED
    BY <2>1, <2>2
<1>6. Halves'
  BY HalvesAlone DEF WriteFails, SlotAfterFailure, Drop, Return, callVars, peerVars, IInv, Shape, Progress
<1>7. Opened'
  BY DEF WriteFails, SlotAfterFailure, Drop, Return, callVars, peerVars, IInv, Shape, Progress, Opened
<1> QED
  BY <1>1, <1>2, <1>3, <1>4, <1>5, <1>6, <1>7 DEF IInv

LEMMA CancelInv ==
  ASSUME IInv, NEW n \in Calls, Cancel(n)
  PROVE  IInv'
<1> USE Names DEF SessionStream, Nobody, LaneByte, Closing, Lanes
<1>1. Shape'
  BY Zenon DEF Cancel, Return, Drop, callVars, peerVars, IInv, Shape
<1>2. \A m \in Calls : Progress(m)'
  BY DEF Cancel, Return, Drop, callVars, peerVars, IInv, Shape, Progress
<1>3. Mutex'
  BY DEF Cancel, Return, Drop, callVars, peerVars, IInv, Shape, Progress, Mutex
<1>4. Slots'
  <2>1. CASE stream[n] # n
    BY <2>1 DEF Cancel, Return, callVars, peerVars, IInv, Shape, Slots
  <2>2. CASE stream[n] = n
    <3>1. pc[n] = "write" /\ status' = [status EXCEPT ![n] = "finished"]
      BY <2>2 DEF Cancel, Drop, IInv, Progress
    <3>2. \A l \in Kept : slot[l] # n
      BY <3>1 DEF IInv, Slots
    <3> QED
      BY <3>1, <3>2 DEF Cancel, Return, callVars, peerVars, IInv, Shape, Slots
  <2> QED
    BY <2>1, <2>2
<1>5. Ends'
  <2>1. CASE stream[n] # n
    BY <2>1 DEF Cancel, Return, callVars, peerVars, IInv, Shape, Ends
  <2>2. CASE stream[n] = n
    <3>1. pc[n] = "write" /\ status[n] = "open"
      BY <2>2 DEF Cancel, IInv, Progress, Ends
    <3>2. \A m \in Calls : m # n /\ pc[m] = "write" => stream[m] # n
      BY <2>2, <3>1, OneWriter
    <3>3. status' = [status EXCEPT ![n] = "finished"]
      BY <2>2 DEF Cancel, Drop
    <3> QED
      BY <2>2, <3>1, <3>2, <3>3
      DEF Cancel, Return, callVars, peerVars, IInv, Shape, Ends
  <2> QED
    BY <2>1, <2>2
<1>6. Halves'
  BY HalvesAlone DEF Cancel, Return, Drop, callVars, peerVars, IInv, Shape, Progress
<1>7. Opened'
  BY DEF Cancel, Return, Drop, callVars, peerVars, IInv, Shape, Progress, Opened
<1> QED
  BY <1>1, <1>2, <1>3, <1>4, <1>5, <1>6, <1>7 DEF IInv

LEMMA StopInv ==
  ASSUME IInv, NEW s \in Streams, Stop(s)
  PROVE  IInv'
<1> USE Names DEF SessionStream, Nobody, LaneByte, Closing, Lanes
<1>1. Shape'
  BY DEF Stop, callVars, IInv, Shape
<1>2. \A m \in Calls : Progress(m)'
  BY DEF Stop, callVars, IInv, Shape, Progress
<1>3. Mutex'
  BY DEF Stop, callVars, IInv, Shape, Progress, Mutex
<1>4. Slots'
  BY DEF Stop, callVars, IInv, Shape, Progress, Mutex, Slots
<1>5. Ends'
  BY DEF Stop, callVars, IInv, Shape, Progress, Mutex, Slots, Ends
<1>6. Halves'
  BY HalvesAlone DEF Stop, callVars, IInv, Shape, Progress
<1>7. Opened'
  BY DEF Stop, callVars, IInv, Shape, Progress, Opened
<1> QED
  BY <1>1, <1>2, <1>3, <1>4, <1>5, <1>6, <1>7 DEF IInv

LEMMA RetireInv ==
  ASSUME IInv, NEW s \in Streams, Retire(s)
  PROVE  IInv'
<1> USE Names DEF SessionStream, Nobody, LaneByte, Closing, Lanes
<1>1. Shape'
  BY DEF Retire, callVars, peerVars, IInv, Shape
<1>2. \A m \in Calls : Progress(m)'
  BY DEF Retire, callVars, peerVars, IInv, Shape, Progress
<1>3. Mutex'
  BY DEF Retire, callVars, peerVars, IInv, Shape, Progress, Mutex
<1>4. Slots'
  BY SMTT(20), ZenonT(20), SMTT(30) DEF Retire, callVars, peerVars, IInv, Shape, Progress, Mutex, Slots
<1>5. Ends'
  BY DEF Retire, callVars, peerVars, IInv, Shape, Progress, Mutex, Slots, Ends
<1>6. Halves'
  BY HalvesAlone DEF Retire, callVars, peerVars, IInv, Shape, Progress
<1>7. Opened'
  BY DEF Retire, callVars, peerVars, IInv, Shape, Progress, Opened
<1> QED
  BY <1>1, <1>2, <1>3, <1>4, <1>5, <1>6, <1>7 DEF IInv

LEMMA CloseConnInv ==
  ASSUME IInv, CloseConn
  PROVE  IInv'
<1> USE Names DEF SessionStream, Nobody, LaneByte, Closing, Lanes
<1>1. Shape'
  BY DEF CloseConn, callVars, IInv, Shape
<1>2. \A m \in Calls : Progress(m)'
  BY DEF CloseConn, callVars, IInv, Shape, Progress
<1>3. Mutex'
  BY DEF CloseConn, callVars, IInv, Shape, Progress, Mutex
<1>4. Slots'
  BY SMTT(20), ZenonT(20), SMTT(30) DEF CloseConn, callVars, IInv, Shape, Progress, Mutex, Slots
<1>5. Ends'
  BY DEF CloseConn, callVars, IInv, Shape, Progress, Mutex, Slots, Ends
<1>6. Halves'
  BY HalvesAlone DEF CloseConn, callVars, IInv, Shape, Progress
<1>7. Opened'
  BY DEF CloseConn, callVars, IInv, Shape, Progress, Opened
<1> QED
  BY <1>1, <1>2, <1>3, <1>4, <1>5, <1>6, <1>7 DEF IInv

LEMMA InitInv == Init => IInv
<1> SUFFICES ASSUME Init PROVE IInv
  OBVIOUS
<1> USE Names DEF Init, SessionStream, Nobody, LaneByte, Closing, Lanes
<1>1. Shape
  <2>1. <<>> \in Seq(Streams)
    OBVIOUS
  <2>2. closed \in BOOLEAN
    BY Zenon
  <2> QED
    BY <2>1, <2>2 DEF Shape
<1>2. \A n \in Calls : Progress(n)
  BY DEF Progress
<1>3. Mutex /\ Slots /\ Ends
  BY DEF Mutex, Slots, Ends
<1>4. Halves
  <2>1. Len(<<>>) = 0
    OBVIOUS
  <2> QED
    BY <2>1 DEF Halves
<1>5. Opened
  BY DEF Opened
<1> QED
  BY <1>1, <1>2, <1>3, <1>4, <1>5 DEF IInv

LEMMA NextInv == IInv /\ [Next]_vars => IInv'
<1> SUFFICES ASSUME IInv, [Next]_vars PROVE IInv'
  OBVIOUS
<1>1. ASSUME NEW n \in Calls, NEW l \in Lanes, Call(n, l) PROVE IInv'
  BY <1>1, CallInv
<1>2. ASSUME NEW n \in Calls, LockSession(n) \/ LockLane(n) PROVE IInv'
  BY <1>2, LockSessionInv, LockLaneInv
<1>3. ASSUME NEW n \in Calls, OpenUni(n) \/ OpenFails(n) PROVE IInv'
  BY <1>3, OpenUniInv, OpenFailsInv
<1>4. ASSUME NEW n \in Calls, Write(n) \/ WriteLast(n) \/ WriteFails(n) PROVE IInv'
  BY <1>4, WriteInv, WriteLastInv, WriteFailsInv
<1>5. ASSUME NEW n \in Calls, Cancel(n) PROVE IInv'
  BY <1>5, CancelInv
<1>6. ASSUME NEW s \in Streams, Stop(s) \/ Retire(s) PROVE IInv'
  BY <1>6, StopInv, RetireInv
<1>7. CASE CloseConn
  BY <1>7, CloseConnInv
<1>8. CASE UNCHANGED vars
  <2>1. Shape' /\ (\A n \in Calls : Progress(n)')
    BY <1>8, SMTT(20) DEF vars, IInv, Shape, Progress
  <2>2. Mutex'
    BY <1>8, ZenonT(30) DEF vars, IInv, Mutex
  <2>3. Slots'
    BY <1>8 DEF vars, IInv, Slots
  <2>4. Ends'
    BY <1>8 DEF vars, IInv, Ends
  <2>5. Opened'
    BY <1>8 DEF vars, IInv, Opened
  <2>6. Halves'
    BY <1>8, HalvesAlone DEF vars, IInv
  <2> QED
    BY <2>1, <2>2, <2>3, <2>4, <2>5, <2>6 DEF IInv
<1> QED
  BY <1>1, <1>2, <1>3, <1>4, <1>5, <1>6, <1>7, <1>8, Zenon DEF Next

LEMMA SpecInv == Spec => []IInv
  BY InitInv, NextInv, PTL DEF Spec

-----------------------------------------------------------------------------
\* How often a call occurs on a stream tells how much of its frame is there.
LEMMA Counts ==
  ASSUME IInv, NEW n \in Calls, NEW s \in Streams
  PROVE  /\ Occurs(n, s) = At(wire[s], n)
         /\ Occurs(n, s) # {} => stream[n] = s /\ left[n] \in {0, 1}
         /\ Occurs(n, s) # {} /\ left[n] = 1 => Cardinality(Occurs(n, s)) = 1
         /\ Occurs(n, s) # {} /\ left[n] = 0 => Cardinality(Occurs(n, s)) = 2
         /\ Occurs(n, s) = {} => Cardinality(Occurs(n, s)) = 0
<1>1. Occurs(n, s) = At(wire[s], n)
  BY WireFacts, Zenon DEF IInv
<1>2. ASSUME Occurs(n, s) # {} PROVE stream[n] = s /\ left[n] \in {0, 1}
  <2>1. PICK i \in 1 .. Len(wire[s]) : wire[s][i] = n
    BY <1>1, <1>2 DEF At
  <2>2. stream[n] = s /\ left[n] < 2
    BY <2>1, Names, Zenon DEF IInv, Halves, LaneByte
  <2>3. left[n] \in 0 .. 3
    BY DEF IInv, Shape
  <2> QED
    BY <2>2, <2>3
<1>3. ASSUME Occurs(n, s) # {}, left[n] = 1 PROVE Cardinality(Occurs(n, s)) = 1
  <2>1. Half(wire[s], n)
    BY <1>2, <1>3 DEF IInv, Halves
  <2>2. PICK i : Occurs(n, s) = {i}
    BY <1>1, <2>1 DEF Half
  <2> QED
    BY <2>2, FS_Singleton
<1>4. ASSUME Occurs(n, s) # {}, left[n] = 0 PROVE Cardinality(Occurs(n, s)) = 2
  <2>1. Whole(wire[s], n)
    BY <1>2, <1>4 DEF IInv, Halves
  <2>2. PICK i \in 1 .. Len(wire[s]) : Occurs(n, s) = {i, i + 1}
    BY <1>1, <2>1 DEF Whole
  <2>3. IsFiniteSet({i}) /\ Cardinality({i}) = 1
    BY FS_Singleton, Zenon
  <2>4. {i, i + 1} = {i} \cup {i + 1} /\ i + 1 \notin {i}
    OBVIOUS
  <2>5. Cardinality({i} \cup {i + 1}) = Cardinality({i}) + 1
    BY <2>3, <2>4, FS_AddElement, Zenon
  <2>6. Cardinality({i, i + 1}) = 2
    BY <2>3, <2>4, <2>5
  <2> QED
    BY <2>2, <2>6, Zenon
<1>5. Cardinality({}) = 0
  BY FS_EmptySet
<1> QED
  BY <1>1, <1>2, <1>3, <1>4, <1>5

LEMMA WholeFrames == IInv => FramesStayWhole
<1> SUFFICES ASSUME IInv, NEW s \in Streams, NEW i \in DOMAIN wire[s]
             PROVE  LET n == wire[s][i] IN
                    /\ n = LaneByte <=> i = 1 /\ s # SessionStream
                    /\ n # LaneByte /\ ~Torn(n) /\ Cardinality(Occurs(n, s)) = 1 => i = Len(wire[s])
                    /\ \A j \in Occurs(n, s) : j \in i - 1 .. i + 1
  BY Zenon DEF FramesStayWhole
<1> DEFINE n == wire[s][i]
<1> USE Names DEF LaneByte, SessionStream
<1>1. Len(wire[s]) \in Nat /\ i \in 1 .. Len(wire[s]) /\ n \in Streams
      /\ Occurs(n, s) = At(wire[s], n)
  BY WireFacts DEF IInv
<1>2. n = 0 <=> (i = 1 /\ s # 0)
  BY <1>1 DEF IInv, Halves
<1>3. i \in Occurs(n, s)
  BY DEF Occurs
<1>4. ASSUME n # 0, ~Torn(n), Cardinality(Occurs(n, s)) = 1 PROVE i = Len(wire[s])
  <2>1. n \in Calls
    BY <1>1, <1>4
  <2>2. stream[n] = s /\ left[n] = 1
    <3> HIDE DEF n
    <3> QED
      BY <1>3, <1>4, <2>1, Counts
  <2>3. Half(wire[s], n) /\ wire[s][Len(wire[s])] = n
    BY <1>4, <2>1, <2>2, Zenon DEF IInv, Halves
  <2>4. PICK k \in 1 .. Len(wire[s]) : At(wire[s], n) = {k}
    BY <2>3 DEF Half
  <2>5. Len(wire[s]) \in At(wire[s], n)
    BY <1>1, <2>3 DEF At
  <2> QED
    BY <1>1, <1>3, <2>4, <2>5
<1>5. ASSUME NEW j \in Occurs(n, s) PROVE j \in i - 1 .. i + 1
  <2>1. j \in 1 .. Len(wire[s]) /\ wire[s][j] = n
    BY <1>1, <1>5 DEF At
  <2>2. CASE n = 0
    <3>1. j = 1 /\ i = 1
      BY <1>2, <2>1, <2>2 DEF IInv, Halves
    <3> QED
      BY <3>1
  <2>3. CASE n # 0
    <3>1. n \in Calls /\ stream[n] = s /\ left[n] \in {0, 1}
      BY <1>1, <1>3, <2>3, Counts, Zenon
    <3>2. Half(wire[s], n) \/ Whole(wire[s], n)
      BY <3>1, Zenon DEF IInv, Halves
    <3>3. PICK k \in 1 .. Len(wire[s]) : At(wire[s], n) \subseteq {k, k + 1}
      BY <3>2 DEF Half, Whole
    <3>4. i \in {k, k + 1} /\ j \in {k, k + 1}
      BY <1>1, <1>3, <1>5, <3>3
    <3> QED
      BY <1>1, <2>1, <3>4
  <2> QED
    BY <2>2, <2>3
<1> QED
  BY <1>2, <1>4, <1>5

LEMMA SentFrames == IInv => OkMeansSent
<1> SUFFICES ASSUME IInv, NEW n \in Calls
             PROVE  /\ pc[n] = "ok" <=> \E s \in Streams : Cardinality(Occurs(n, s)) = 2
                    /\ \A s, t \in Streams : Occurs(n, s) # {} /\ Occurs(n, t) # {} => s = t
                    /\ pc[n] = "ok" /\ lane[n] = "bulk" =>
                         wire[n] = <<LaneByte, n, n>> /\ status[n] \in {"finished", "gone"}
  BY Zenon DEF OkMeansSent
<1> USE Names
<1>1. ASSUME pc[n] = "ok" PROVE \E s \in Streams : Cardinality(Occurs(n, s)) = 2
  <2>1. left[n] = 0 /\ stream[n] \in Streams
    BY <1>1 DEF IInv, Shape, Progress
  <2>2. Whole(wire[stream[n]], n)
    BY <2>1 DEF IInv, Halves
  <2>3. Occurs(n, stream[n]) # {}
    <3>1. At(wire[stream[n]], n) # {}
      BY <2>2 DEF Whole
    <3> QED
      BY <2>1, <3>1, Counts, Zenon
  <2> QED
    BY <2>1, <2>3, Counts, Zenon
<1>2. ASSUME NEW s \in Streams, Cardinality(Occurs(n, s)) = 2 PROVE pc[n] = "ok"
  <2>1. left[n] = 0
    BY <1>2, Counts
  <2> QED
    BY <2>1 DEF IInv, Progress
<1>3. ASSUME NEW s \in Streams, NEW t \in Streams, Occurs(n, s) # {}, Occurs(n, t) # {}
      PROVE  s = t
  BY <1>3, Counts
<1>4. ASSUME pc[n] = "ok", lane[n] = "bulk"
      PROVE  wire[n] = <<LaneByte, n, n>> /\ status[n] \in {"finished", "gone"}
  <2>1. stream[n] = n /\ status[n] \in Closing /\ left[n] = 0
    BY <1>4, SMTT(20), ZenonT(20), SMTT(30) DEF IInv, Ends, Progress
  <2>2. wire[n] \in Seq(Streams) /\ Len(wire[n]) = 3 /\ \A i \in 1 .. 3 : wire[n][i] \in Streams
    <3>1. Len(wire[n]) = 3 - left[n]
      BY <1>4, <2>1, Zenon DEF IInv, Opened
    <3> QED
      BY <2>1, <3>1, WireFacts DEF IInv
  <2>3. ASSUME NEW i \in 1 .. 3 PROVE wire[n][i] = IF i = 1 THEN 0 ELSE n
    <3>1. /\ wire[n][i] = 0 <=> i = 1
          /\ wire[n][i] # 0 => stream[wire[n][i]] = n
      BY <2>2 DEF IInv, Halves, LaneByte, SessionStream
    <3>2. ASSUME NEW m \in Calls, stream[m] = n PROVE m = n
      BY <1>4, <3>2 DEF IInv, Progress
    <3> QED
      BY <2>2, <3>1, <3>2, Zenon
  <2>4. wire[n] = <<0, n, n>>
    <3>1. wire[n][1] = 0 /\ wire[n][2] = n /\ wire[n][3] = n
      BY <2>3
    <3> QED
      BY <2>2, <3>1
  <2> QED
    BY <2>1, <2>4 DEF Closing, LaneByte
<1> QED
  BY <1>1, <1>2, <1>3, <1>4

LEMMA OneFailure == IInv => FailsOnce
<1> SUFFICES ASSUME IInv, NEW s \in Streams \ {SessionStream}
             PROVE  Cardinality({n \in Calls : pc[n] = "failed" /\ stream[n] = s}) <= 1
  BY DEF FailsOnce
<1> DEFINE F == {n \in Calls : pc[n] = "failed" /\ stream[n] = s}
<1>1. s \in Calls
  BY Names DEF SessionStream
<1>2. ASSUME NEW n \in F, NEW m \in F PROVE n = m
  BY <1>1 DEF IInv, Ends
<1> HIDE DEF F
<1>3. CASE F = {}
  <2>1. Cardinality(F) = 0
    BY <1>3, FS_EmptySet, Zenon
  <2> QED
    BY <2>1 DEF F
<1>4. CASE F # {}
  <2>1. PICK n : F = {n}
    BY <1>2, <1>4
  <2>2. Cardinality(F) = 1
    BY <2>1, FS_Singleton, Zenon
  <2> QED
    BY <2>2 DEF F
<1> QED
  BY <1>3, <1>4

\* When all streams that count against the credit are open and none is a bulk
\* upload under way, they are streams of different long-lived lanes: each is
\* in its lane's slot, or being tried by the call that holds its mutex.
LEMMA NoCircle == IInv => WaitsEnd
<1> SUFFICES ASSUME IInv, NEW n \in Calls
             PROVE  /\ pc[n] = "lock" => MayLock(n) \/ pc[holder[lane[n]]] \in {"open", "write"}
                    /\ pc[n] = "open" =>
                         \/ closed
                         \/ Cardinality(Concurrent) < Credit
                         \/ \E s \in Concurrent :
                              \/ status[s] = "finished"
                              \/ \E m \in Calls : pc[m] = "write" /\ lane[m] = "bulk" /\ stream[m] = s
  BY Zenon DEF WaitsEnd
<1> USE Names DEF SessionStream
<1>1. ASSUME pc[n] = "lock" PROVE MayLock(n) \/ pc[holder[lane[n]]] \in {"open", "write"}
  <2>1. lane[n] \in Kept \cup {"session"}
    BY <1>1 DEF IInv, Shape, Progress, Lanes
  <2> QED
    BY <2>1 DEF IInv, Mutex, MayLock
<1>2. ASSUME \A s \in Concurrent :
               /\ status[s] # "finished"
               /\ \A m \in Calls : ~(pc[m] = "write" /\ lane[m] = "bulk" /\ stream[m] = s)
      PROVE  Cardinality(Concurrent) < Credit
  <2>1. ASSUME NEW s \in Concurrent
        PROVE  /\ s \in Calls /\ stream[s] = s /\ lane[s] \in Kept
               /\ slot[lane[s]] = s \/ (pc[s] = "write" /\ slot[lane[s]] = NoStream)
    <3>1. s \in Calls /\ status[s] = "open"
      BY <1>2 DEF Concurrent
    <3>2. stream[s] = s
      BY <3>1 DEF IInv, Ends
    <3>3. lane[s] \in Kept
      <4>1. CASE pc[s] = "write"
        BY <1>2, <3>1, <3>2, <4>1 DEF IInv, Shape, Lanes, Progress
      <4> QED
        BY <3>1, <4>1 DEF IInv, Ends
    <3>4. slot[lane[s]] = s \/ (pc[s] = "write" /\ slot[lane[s]] = NoStream)
      BY <3>1, <3>2, <3>3 DEF IInv, Ends, Slots
    <3> QED
      BY <3>1, <3>2, <3>3, <3>4
  <2>2. ASSUME NEW s \in Concurrent, NEW t \in Concurrent, lane[s] = lane[t] PROVE s = t
    <3>1. CASE slot[lane[s]] = NoStream
      <4>1. pc[s] = "write" /\ pc[t] = "write" /\ s \in Calls /\ t \in Calls
        BY <2>1, <2>2, <3>1
      <4> QED
        BY <2>1, <2>2, <4>1 DEF IInv, Mutex
    <3>2. CASE slot[lane[s]] # NoStream
      BY <2>1, <2>2, <3>2
    <3> QED
      BY <3>1, <3>2
  <2> DEFINE f == [s \in Concurrent |-> lane[s]]
  <2>3. f \in Injection(Concurrent, Kept)
    BY <2>1, <2>2 DEF Injection, IsInjective
  <2>4. Cardinality(Concurrent) <= Cardinality(Kept) /\ IsFiniteSet(Concurrent)
    BY <2>3, FS_Injection, ClientAssumption
  <2>5. Cardinality(Concurrent) \in Nat /\ Cardinality(Kept) \in Nat
    BY <2>4, FS_CardinalityType, ClientAssumption
  <2> QED
    BY <2>4, <2>5, ClientAssumption
<1> QED
  BY <1>1, <1>2

-----------------------------------------------------------------------------
\* send_session and send_lane write each frame in one piece: no two frames
\* mix on a stream, and half a frame is followed by more only if its call was
\* dropped there.
THEOREM NoMixedFrames == Spec => []FramesStayWhole
  BY SpecInv, WholeFrames, PTL

\* SfuClient's Ok means the whole frame is on one stream, once, and nothing
\* else does; a bulk publish has finished its stream.
THEOREM OkIsSent == Spec => []OkMeansSent
  BY SpecInv, SentFrames, PTL

\* send_lane: a lane stream that was stopped costs one call.
THEOREM FailureOnce == Spec => []FailsOnce
  BY SpecInv, OneFailure, PTL

\* No call of a client waits for another one that waits: the lane mutexes and
\* the stream credit cannot form a circle.
THEOREM NoWaitingCircle == Spec => []WaitsEnd
  BY SpecInv, NoCircle, PTL
=============================================================================
