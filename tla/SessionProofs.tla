--------------------------- MODULE SessionProofs ----------------------------
(***************************************************************************)
(* Proofs about the wire format (Proto), for identities of any width, any  *)
(* topics and any frame limit, and about the session stream of a           *)
(* connection (SessionStream, within Connection), for any items, rosters   *)
(* and limits.  ReadersProofs goes on from here.                           *)
(*                                                                         *)
(* The wire format.  Decode inverts encode: of the frames (FramesSurvive)  *)
(* and of SNAPSHOT chunks (ChunksSurvive).                                 *)
(*                                                                         *)
(* The session stream.  SnapshotsArriveWhole compares the two ends of the  *)
(* stream, and the frames between them must be accounted for.  A position  *)
(* is a number of items and a number of members of the next one.  The      *)
(* invariant has a position for the client and one after each frame on the *)
(* wire, each a step of the writer after the one before, the last the      *)
(* writer's own (Trail); the client's inbox and partial snapshot are what  *)
(* lies before its position (Inbox, Merged).  Writing adds a position at   *)
(* the end, pump_frames drops the first, and a loss of frames drops the    *)
(* last ones.                                                              *)
(***************************************************************************)
EXTENDS Connection, SequenceTheorems, WellFoundedInduction, TLAPS

-----------------------------------------------------------------------------
(***************************************************************************)
(* Sequences of sequences.                                                 *)
(***************************************************************************)
LEMMA NatSteps ==
  ASSUME NEW T, 0 \in T, \A n \in Nat : n \in T => n + 1 \in T
  PROVE  \A n \in Nat : n \in T
<1> DEFINE U == {n \in Nat : n \notin T}
<1> SUFFICES ASSUME U # {} PROVE FALSE
  OBVIOUS
<1>1. U \subseteq Nat
  OBVIOUS
<1>2. PICK n \in U : \A m \in U : ~(<<m, n>> \in OpToRel(<, Nat))
  BY <1>1, NatLessThanWellFounded, WFMin, Zenon
<1>3. n \in Nat /\ n # 0 /\ n - 1 \in Nat
  OBVIOUS
<1>4. n - 1 \notin T
  BY <1>3
<1>5. <<n - 1, n>> \in OpToRel(<, Nat)
  BY <1>3 DEF OpToRel
<1> QED
  BY <1>2, <1>3, <1>4, <1>5, Zenon

-----------------------------------------------------------------------------
\* g[i] is what the first i sequences flatten to.
Flattens(seqs, g) ==
  g = [i \in 1 .. Len(seqs) |-> IF i = 1 THEN seqs[i] ELSE g[i - 1] \o seqs[i]]

LEMMA FlattenExists ==
  ASSUME NEW B, NEW seqs \in Seq(Seq(B))
  PROVE  \E g \in [1 .. Len(seqs) -> Seq(B)] : Flattens(seqs, g)
<1> DEFINE D == 1 .. Len(seqs)
           step(g, i) == IF i = 1 THEN seqs[i] ELSE g[i - 1] \o seqs[i]
           T == {n \in Nat : \E g \in [D -> Seq(B)] : \A i \in D : i <= n => g[i] = step(g, i)}
<1>1. \A i \in D : seqs[i] \in Seq(B) /\ i \in Nat /\ (i # 1 => i - 1 \in D)
  OBVIOUS
<1>2. Len(seqs) \in Nat
  OBVIOUS
<1>3. \A g \in [D -> Seq(B)] : \A i \in D : step(g, i) \in Seq(B)
  <2> SUFFICES ASSUME NEW g \in [D -> Seq(B)], NEW i \in D PROVE step(g, i) \in Seq(B)
    BY Zenon
  <2>1. CASE i = 1
    BY <1>1, <2>1
  <2>2. CASE i # 1
    <3>1. g[i - 1] \in Seq(B) /\ seqs[i] \in Seq(B)
      BY <1>1, <2>2, Zenon
    <3> QED
      BY <2>2, <3>1
  <2> QED
    BY <2>1, <2>2
<1>4. 0 \in T
  <2>1. seqs \in [D -> Seq(B)]
    OBVIOUS
  <2>2. \A i \in D : ~(i <= 0)
    OBVIOUS
  <2> QED
    BY <2>1, <2>2
<1>5. ASSUME NEW n \in Nat, n \in T PROVE n + 1 \in T
  <2>1. PICK g \in [D -> Seq(B)] : \A i \in D : i <= n => g[i] = step(g, i)
    BY <1>5, Zenon
  <2> DEFINE h == [i \in D |-> step(g, i)]
  <2>2. h \in [D -> Seq(B)]
    BY <1>3
  <2>3. ASSUME NEW i \in D, i <= n + 1 PROVE h[i] = step(h, i)
    <3>1. CASE i = 1
      BY <3>1
    <3>2. CASE i # 1
      <4>1. i - 1 \in D /\ i - 1 <= n
        BY <1>1, <2>3, <3>2
      <4>2. h[i - 1] = g[i - 1]
        BY <2>1, <4>1, Zenon
      <4> QED
        BY <3>2, <4>2, Zenon
    <3> QED
      BY <3>1, <3>2
  <2>4. n + 1 \in Nat
    OBVIOUS
  <2> HIDE DEF h, step, D
  <2> QED
    BY <2>2, <2>3, <2>4, Zenon
<1>6. Len(seqs) \in T
  <2> HIDE DEF T
  <2> QED
    BY <1>2, <1>4, <1>5, NatSteps
<1>7. PICK g \in [D -> Seq(B)] : \A i \in D : i <= Len(seqs) => g[i] = step(g, i)
  BY <1>6, Zenon
<1>8. \A i \in D : g[i] = step(g, i)
  <2> HIDE DEF step
  <2> QED
    BY <1>7
<1>9. g = [i \in D |-> step(g, i)]
  BY <1>8, Zenon
<1> QED
  BY <1>9, Zenon DEF Flattens

LEMMA FlattenSeqIs ==
  ASSUME NEW seqs, Len(seqs) # 0, \E g : Flattens(seqs, g)
  PROVE  \E g : Flattens(seqs, g) /\ FlattenSeq(seqs) = g[Len(seqs)]
<1> DEFINE h == CHOOSE g : Flattens(seqs, g)
<1>1. Flattens(seqs, h)
  BY Zenon
<1>2. FlattenSeq(seqs) = h[Len(seqs)]
  BY Zenon DEF FlattenSeq, Flattens
<1> QED
  BY <1>1, <1>2, Zenon

SameUpTo(m, s, t) == \A i \in 1 .. m : s[i] = t[i]

LEMMA FlattensAgree ==
  \A s, g, t, h : \A m \in Nat :
    /\ Flattens(s, g) /\ Flattens(t, h)
    /\ Len(s) \in Nat /\ Len(t) \in Nat /\ m <= Len(s) /\ m <= Len(t)
    /\ SameUpTo(m, s, t)
    => SameUpTo(m, g, h)
<1> SUFFICES
      ASSUME NEW s, Len(s) \in Nat, NEW g, Flattens(s, g), NEW t, Len(t) \in Nat, NEW h, Flattens(t, h),
             NEW m \in Nat, m <= Len(s), m <= Len(t), SameUpTo(m, s, t)
      PROVE  SameUpTo(m, g, h)
  BY Zenon
<1> USE DEF SameUpTo
<1> DEFINE T == {n \in Nat : n \in 1 .. m => g[n] = h[n]}
<1>1. 0 \in T
  OBVIOUS
<1>2. \A n \in 1 .. m : /\ g[n] = IF n = 1 THEN s[n] ELSE g[n - 1] \o s[n]
                        /\ h[n] = IF n = 1 THEN t[n] ELSE h[n - 1] \o t[n]
  <2> SUFFICES ASSUME NEW n \in 1 .. m
               PROVE  /\ g[n] = IF n = 1 THEN s[n] ELSE g[n - 1] \o s[n]
                      /\ h[n] = IF n = 1 THEN t[n] ELSE h[n - 1] \o t[n]
    OBVIOUS
  <2>1. n \in 1 .. Len(s) /\ n \in 1 .. Len(t)
    OBVIOUS
  <2> QED
    BY <2>1, Zenon DEF Flattens
<1>3. ASSUME NEW n \in Nat, n \in T PROVE n + 1 \in T
  <2> SUFFICES ASSUME n + 1 \in 1 .. m PROVE g[n + 1] = h[n + 1]
    OBVIOUS
  <2>1. n # 0 => g[n] = h[n]
    BY <1>3
  <2>2. (n + 1) - 1 = n /\ s[n + 1] = t[n + 1]
    OBVIOUS
  <2> QED
    BY <1>2, <2>1, <2>2
<1>4. \A n \in Nat : n \in T
  <2> HIDE DEF T
  <2> QED
    BY <1>1, <1>3, NatSteps
<1> QED
  BY <1>4

\* What the first n sequences flatten to.
First(seqs, n) == FlattenSeq(SubSeq(seqs, 1, n))

Firsts(B, seqs) ==
  /\ First(seqs, 0) = <<>>
  /\ \A n \in 0 .. Len(seqs) : First(seqs, n) \in Seq(B)
  /\ \A n \in 1 .. Len(seqs) : First(seqs, n) = First(seqs, n - 1) \o seqs[n]

LEMMA FirstSteps ==
  ASSUME NEW B, NEW seqs \in Seq(Seq(B))
  PROVE  Firsts(B, seqs)
<1>1. PICK g \in [1 .. Len(seqs) -> Seq(B)] : Flattens(seqs, g)
  BY FlattenExists
<1>2. First(seqs, 0) = <<>>
  <2>1. SubSeq(seqs, 1, 0) = <<>> /\ Len(<<>>) = 0
    OBVIOUS
  <2> QED
    BY <2>1 DEF First, FlattenSeq
<1>3. ASSUME NEW n \in 1 .. Len(seqs) PROVE First(seqs, n) = g[n]
  <2> DEFINE s == SubSeq(seqs, 1, n)
  <2>1. s \in Seq(Seq(B)) /\ Len(s) = n /\ \A i \in 1 .. n : s[i] = seqs[i]
    OBVIOUS
  <2> HIDE DEF s
  <2>2. \E h : Flattens(s, h)
    BY <2>1, FlattenExists
  <2>3. Len(s) # 0
    BY <2>1
  <2>4. PICK h : Flattens(s, h) /\ FlattenSeq(s) = h[Len(s)]
    BY <2>2, <2>3, FlattenSeqIs, Zenon
  <2>5. n \in Nat /\ n <= Len(seqs) /\ n <= Len(s) /\ n \in 1 .. n
    BY <2>1
  <2>6. SameUpTo(n, seqs, s)
    BY <2>1 DEF SameUpTo
  <2>7. SameUpTo(n, g, h)
    <3>1. Flattens(seqs, g) /\ Flattens(s, h)
      BY <1>1, <2>4
    <3>2. Len(seqs) \in Nat /\ Len(s) \in Nat
      BY <2>1
    <3> QED
      BY <2>5, <2>6, <3>1, <3>2, FlattensAgree, Zenon
  <2> QED
    BY <2>1, <2>4, <2>5, <2>7 DEF First, s, SameUpTo
<1>4. ASSUME NEW n \in 0 .. Len(seqs) PROVE First(seqs, n) \in Seq(B)
  <2>1. CASE n = 0
    <3>1. <<>> \in Seq(B)
      OBVIOUS
    <3> QED
      BY <1>2, <2>1, <3>1, Zenon
  <2>2. CASE n # 0
    <3>1. n \in 1 .. Len(seqs)
      BY <2>2
    <3> QED
      BY <1>3, <3>1, Zenon
  <2> QED
    BY <2>1, <2>2
<1>5. ASSUME NEW n \in 1 .. Len(seqs) PROVE First(seqs, n) = First(seqs, n - 1) \o seqs[n]
  <2>1. g[n] = IF n = 1 THEN seqs[n] ELSE g[n - 1] \o seqs[n]
    BY <1>1, Zenon DEF Flattens
  <2>2. CASE n = 1
    <3>1. seqs[n] \in Seq(B)
      OBVIOUS
    <3>2. <<>> \o seqs[n] = seqs[n]
      BY <3>1
    <3>3. n - 1 = 0
      BY <2>2
    <3> QED
      BY <1>2, <1>3, <2>1, <2>2, <3>2, <3>3
  <2>3. CASE n # 1
    <3>1. n - 1 \in 1 .. Len(seqs)
      BY <2>3
    <3> QED
      BY <1>3, <2>1, <2>3, <3>1, Zenon
  <2> QED
    BY <2>2, <2>3, Zenon
<1> QED
  BY <1>2, <1>4, <1>5, Zenon DEF Firsts

LEMMA FirstAll ==
  ASSUME NEW B, NEW seqs \in Seq(Seq(B))
  PROVE  First(seqs, Len(seqs)) = FlattenSeq(seqs)
<1>1. SubSeq(seqs, 1, Len(seqs)) = seqs
  OBVIOUS
<1> QED
  BY <1>1, Zenon DEF First

\* What the first n sequences flatten to is where all of them begin.
Grows(B, seqs, n, m) == \E z \in Seq(B) : First(seqs, m) = First(seqs, n) \o z

LEMMA FirstGrows ==
  ASSUME NEW B, NEW seqs \in Seq(Seq(B)), NEW n \in 0 .. Len(seqs)
  PROVE  \A m \in n .. Len(seqs) : Grows(B, seqs, n, m)
<1> DEFINE T == {k \in Nat : n + k <= Len(seqs) =>
                   \E z \in Seq(B) : First(seqs, n + k) = First(seqs, n) \o z}
<1>0. Firsts(B, seqs)
  BY FirstSteps, Zenon
<1>1. First(seqs, n) \in Seq(B)
  BY <1>0, Zenon DEF Firsts
<1>2. 0 \in T
  <2>1. <<>> \in Seq(B) /\ First(seqs, n) \o <<>> = First(seqs, n) /\ n + 0 = n
    BY <1>1
  <2> QED
    BY <2>1, Zenon
<1>3. ASSUME NEW k \in Nat, k \in T PROVE k + 1 \in T
  <2>0. k + 1 \in Nat
    OBVIOUS
  <2> SUFFICES ASSUME n + (k + 1) <= Len(seqs)
               PROVE  \E z \in Seq(B) : First(seqs, n + (k + 1)) = First(seqs, n) \o z
    BY <2>0, Zenon
  <2>1. PICK z \in Seq(B) : First(seqs, n + k) = First(seqs, n) \o z
    <3>1. n + k <= Len(seqs)
      OBVIOUS
    <3> QED
      BY <1>3, <3>1, Zenon
  <2> DEFINE j == n + (k + 1)
  <2>2. j \in 1 .. Len(seqs) /\ j - 1 = n + k
    OBVIOUS
  <2>3. seqs[j] \in Seq(B)
    BY <2>2
  <2> HIDE DEF j
  <2>4. First(seqs, j) = First(seqs, n + k) \o seqs[j]
    BY <1>0, <2>2, Zenon DEF Firsts
  <2>5. First(seqs, j) = First(seqs, n) \o (z \o seqs[j])
    <3>1. (First(seqs, n) \o z) \o seqs[j] = First(seqs, n) \o (z \o seqs[j])
      <4> DEFINE f == First(seqs, n)
                 q == seqs[j]
      <4>1. f \in Seq(B) /\ q \in Seq(B)
        BY <1>1, <2>3
      <4> HIDE DEF f, q
      <4>2. (f \o z) \o q = f \o (z \o q)
        BY <4>1, SMTT(20)
      <4> QED
        BY <4>2 DEF f, q
    <3> QED
      BY <2>1, <2>4, <3>1, Zenon
  <2>6. z \o seqs[j] \in Seq(B)
    BY <2>3
  <2> QED
    BY <2>5, <2>6, Zenon DEF j
<1>4. \A k \in Nat : k \in T
  <2> HIDE DEF T
  <2> QED
    BY <1>2, <1>3, NatSteps, Zenon
<1>5. ASSUME NEW m \in n .. Len(seqs) PROVE Grows(B, seqs, n, m)
  <2>1. m - n \in Nat /\ n + (m - n) = m /\ m <= Len(seqs)
    OBVIOUS
  <2>2. m - n \in T
    BY <1>4, <2>1, Zenon
  <2> QED
    BY <2>1, <2>2 DEF Grows
<1> QED
  BY <1>5

LEMMA MaxOfSet ==
  ASSUME NEW S \in SUBSET Nat, NEW x \in S, NEW b \in Nat, \A y \in S : y <= b
  PROVE  Max(S) \in S /\ \A y \in S : Max(S) >= y
<1> DEFINE U == {b - y : y \in S}
<1>1. U \subseteq Nat /\ U # {}
  OBVIOUS
<1>2. PICK n \in U : \A m \in U : ~(<<m, n>> \in OpToRel(<, Nat))
  BY <1>1, NatLessThanWellFounded, WFMin, Zenon
<1>3. PICK z \in S : n = b - z
  OBVIOUS
<1>4. ASSUME NEW y \in S PROVE z >= y
  <2>1. b - y \in U /\ b - y \in Nat /\ n \in Nat
    BY <1>1, Zenon
  <2>2. ~(b - y < n)
    <3>1. ~(<<b - y, n>> \in OpToRel(<, Nat))
      BY <1>2, <2>1, Zenon
    <3> QED
      BY <2>1, <3>1 DEF OpToRel
  <2> QED
    BY <1>3, <2>1, <2>2
<1> QED
  BY <1>4, Zenon DEF Max

LEMMA MinOfTwo ==
  ASSUME NEW a \in Nat, NEW b \in Nat
  PROVE  Min({a, b}) \in {a, b} /\ Min({a, b}) <= a /\ Min({a, b}) <= b
<1>1. \E x \in {a, b} : \A y \in {a, b} : x <= y
  OBVIOUS
<1>2. Min({a, b}) \in {a, b} /\ \A y \in {a, b} : Min({a, b}) <= y
  BY <1>1, Zenon DEF Min
<1> QED
  BY <1>2, Zenon

LEMMA MaxOfTwo ==
  ASSUME NEW a \in Nat, NEW b \in Nat
  PROVE  Max({a, b}) \in {a, b} /\ Max({a, b}) >= a /\ Max({a, b}) >= b
<1>1. \E x \in {a, b} : \A y \in {a, b} : x >= y
  OBVIOUS
<1>2. Max({a, b}) \in {a, b} /\ \A y \in {a, b} : Max({a, b}) >= y
  BY <1>1, Zenon DEF Max
<1> QED
  BY <1>2, Zenon

-----------------------------------------------------------------------------
(***************************************************************************)
(* The wire format.                                                        *)
(***************************************************************************)
\* d consists of a and b.
Halved(B, d, a, b) ==
  /\ d \in Seq(B)
  /\ Len(d) = Len(a) + Len(b)
  /\ SubSeq(d, 1, Len(a)) = a
  /\ SubSeq(d, Len(a) + 1, Len(d)) = b

LEMMA Halves ==
  ASSUME NEW B, NEW a \in Seq(B), NEW b \in Seq(B)
  PROVE  Halved(B, a \o b, a, b)
<1>1. a \o b \in Seq(B) /\ Len(a \o b) = Len(a) + Len(b) /\ Len(a) \in Nat /\ Len(b) \in Nat
  OBVIOUS
<1> DEFINE x == SubSeq(a \o b, 1, Len(a))
           y == SubSeq(a \o b, Len(a) + 1, Len(a \o b))
<1>2. x \in Seq(B) /\ Len(x) = Len(a) /\ \A i \in 1 .. Len(x) : x[i] = a[i]
  BY <1>1
<1>3. y \in Seq(B) /\ Len(y) = Len(b) /\ \A i \in 1 .. Len(y) : y[i] = b[i]
  BY <1>1
<1> HIDE DEF x, y
<1>4. x = a /\ y = b
  BY <1>2, <1>3, SeqEqual
<1> QED
  BY <1>1, <1>4 DEF x, y, Halved

Thirded(B, d, a, b, c) ==
  /\ d \in Seq(B)
  /\ Len(d) = Len(a) + Len(b) + Len(c)
  /\ SubSeq(d, 1, Len(a)) = a
  /\ SubSeq(d, Len(a) + 1, Len(a) + Len(b)) = b
  /\ SubSeq(d, Len(a) + Len(b) + 1, Len(d)) = c

LEMMA Thirds ==
  ASSUME NEW B, NEW a \in Seq(B), NEW b \in Seq(B), NEW c \in Seq(B)
  PROVE  Thirded(B, a \o b \o c, a, b, c)
<1> DEFINE d == a \o b \o c
           x == SubSeq(d, 1, Len(a))
           y == SubSeq(d, Len(a) + 1, Len(a) + Len(b))
           z == SubSeq(d, Len(a) + Len(b) + 1, Len(d))
<1>1. d \in Seq(B) /\ Len(d) = Len(a) + Len(b) + Len(c) /\ Len(a) \in Nat /\ Len(b) \in Nat /\ Len(c) \in Nat
  OBVIOUS
<1>2. x \in Seq(B) /\ Len(x) = Len(a) /\ \A i \in 1 .. Len(x) : x[i] = a[i]
  BY <1>1
<1>3. y \in Seq(B) /\ Len(y) = Len(b) /\ \A i \in 1 .. Len(y) : y[i] = b[i]
  BY <1>1
<1>4. z \in Seq(B) /\ Len(z) = Len(c) /\ \A i \in 1 .. Len(z) : z[i] = c[i]
  BY <1>1
<1> HIDE DEF x, y, z
<1>5. x = a /\ y = b /\ z = c
  BY <1>2, <1>3, <1>4, SeqEqual
<1> QED
  BY <1>1, <1>5 DEF x, y, z, Thirded

\* A sequence is the concatenation of its parts.
LEMMA Joined ==
  ASSUME NEW B, NEW d \in Seq(B), NEW m \in 0 .. Len(d)
  PROVE  /\ SubSeq(d, 1, m) \in Seq(B) /\ Len(SubSeq(d, 1, m)) = m
         /\ SubSeq(d, m + 1, Len(d)) \in Seq(B) /\ Len(SubSeq(d, m + 1, Len(d))) = Len(d) - m
         /\ SubSeq(d, 1, m) \o SubSeq(d, m + 1, Len(d)) = d
<1> DEFINE a == SubSeq(d, 1, m)
           b == SubSeq(d, m + 1, Len(d))
<1>1. a \in Seq(B) /\ Len(a) = m /\ \A i \in 1 .. m : a[i] = d[i]
  OBVIOUS
<1>2. b \in Seq(B) /\ Len(b) = Len(d) - m /\ \A i \in 1 .. Len(d) - m : b[i] = d[m + i]
  OBVIOUS
<1> HIDE DEF a, b
<1>3. a \o b \in Seq(B) /\ Len(a \o b) = Len(d)
  <2>1. a \o b \in Seq(B) /\ Len(a \o b) = Len(a) + Len(b)
    BY <1>1, <1>2, ConcatProperties, Zenon
  <2> QED
    BY <1>1, <1>2, <2>1
<1>4. ASSUME NEW i \in 1 .. Len(d) PROVE (a \o b)[i] = d[i]
  <2>1. CASE i <= m
    BY <1>1, <1>2, <2>1, SMTT(20)
  <2>2. CASE i > m
    <3>1. i - m \in 1 .. Len(d) - m /\ m + (i - m) = i
      BY <2>2
    <3>2. (a \o b)[i] = b[i - m]
      BY <1>1, <1>2, <2>2
    <3> QED
      BY <1>2, <3>1, <3>2
  <2>3. i <= m \/ i > m
    OBVIOUS
  <2> QED
    BY <2>1, <2>2, <2>3, Zenon
<1>5. a \o b = d
  BY <1>3, <1>4, SeqEqual, Zenon
<1> QED
  BY <1>1, <1>2, <1>5, Zenon DEF a, b

\* A part of a sequence.
Sliced(B, x, i, j) ==
  /\ SubSeq(x, i, j) \in Seq(B)
  /\ Len(SubSeq(x, i, j)) = j - i + 1
  /\ \A k \in 1 .. j - i + 1 : SubSeq(x, i, j)[k] = x[i + k - 1]

LEMMA Slices ==
  ASSUME NEW B, NEW x \in Seq(B), NEW i \in Nat, NEW j \in Nat, 1 <= i, i <= j + 1, j <= Len(x)
  PROVE  Sliced(B, x, i, j)
BY DEF Sliced

\* What lies in the first part of a sequence.
LEMMA InFirst ==
  ASSUME NEW B, NEW x \in Seq(B), NEW z \in Seq(B), NEW i \in Nat, NEW j \in Nat, 1 <= i, i <= j + 1, j <= Len(x)
  PROVE  SubSeq(x \o z, i, j) = SubSeq(x, i, j)
<1> DEFINE y == x \o z
<1>1. y \in Seq(B) /\ Len(y) = Len(x) + Len(z) /\ \A k \in 1 .. Len(x) : y[k] = x[k]
  OBVIOUS
<1> HIDE DEF y
<1> DEFINE u == SubSeq(y, i, j)
           v == SubSeq(x, i, j)
<1>2. u \in Seq(B) /\ Len(u) = j - i + 1 /\ \A k \in 1 .. j - i + 1 : u[k] = y[i + k - 1]
  BY <1>1
<1>3. v \in Seq(B) /\ Len(v) = j - i + 1 /\ \A k \in 1 .. j - i + 1 : v[k] = x[i + k - 1]
  OBVIOUS
<1> HIDE DEF u, v
<1>4. \A k \in 1 .. j - i + 1 : i + k - 1 \in 1 .. Len(x)
  OBVIOUS
<1>5. \A k \in 1 .. Len(u) : u[k] = v[k]
  BY <1>1, <1>2, <1>3, <1>4, Zenon
<1>6. u = v
  BY <1>2, <1>3, <1>5, SeqEqual
<1> QED
  BY <1>6 DEF u, v, y

InThree(B, d, m, n) ==
  /\ SubSeq(d, 1, m) \in Seq(B) /\ Len(SubSeq(d, 1, m)) = m
  /\ SubSeq(d, m + 1, m + n) \in Seq(B) /\ Len(SubSeq(d, m + 1, m + n)) = n
  /\ SubSeq(d, m + n + 1, Len(d)) \in Seq(B) /\ Len(SubSeq(d, m + n + 1, Len(d))) = Len(d) - (m + n)
  /\ SubSeq(d, 1, m) \o SubSeq(d, m + 1, m + n) \o SubSeq(d, m + n + 1, Len(d)) = d

LEMMA JoinedThree ==
  ASSUME NEW B, NEW d \in Seq(B), NEW m \in Nat, NEW n \in Nat, m + n <= Len(d)
  PROVE  InThree(B, d, m, n)
<1> DEFINE a == SubSeq(d, 1, m)
           b == SubSeq(d, m + 1, m + n)
           c == SubSeq(d, m + n + 1, Len(d))
           e == SubSeq(d, 1, m + n)
<1>0. m + n \in 0 .. Len(d)
  OBVIOUS
<1>1. e \in Seq(B) /\ Len(e) = m + n /\ c \in Seq(B) /\ Len(c) = Len(d) - (m + n) /\ e \o c = d
  BY <1>0, Joined, Zenon
<1>2. a = SubSeq(e, 1, m) /\ b = SubSeq(e, m + 1, Len(e))
  <2> HIDE DEF e, c
  <2>1. 1 \in Nat /\ 1 <= 1 /\ 1 <= m + 1 /\ m <= Len(e)
    BY <1>1
  <2>2. m + 1 \in Nat /\ m + n \in Nat /\ 1 <= m + 1 /\ m + 1 <= m + n + 1 /\ m + n <= Len(e)
    BY <1>1
  <2>3. SubSeq(e \o c, 1, m) = SubSeq(e, 1, m)
    BY <1>1, <2>1, InFirst, ZenonT(40)
  <2>4. SubSeq(e \o c, m + 1, m + n) = SubSeq(e, m + 1, m + n)
    BY <1>1, <2>2, InFirst, ZenonT(40)
  <2> QED
    BY <1>1, <2>3, <2>4, Zenon DEF a, b
<1> HIDE DEF a, b, c, e
<1>3. /\ a \in Seq(B) /\ Len(a) = m
      /\ b \in Seq(B) /\ Len(b) = Len(e) - m
      /\ a \o b = e
  <2>1. m \in 0 .. Len(e)
    BY <1>1
  <2> QED
    BY <1>1, <1>2, <2>1, Joined, Zenon
<1>4. Len(b) = n
  BY <1>1, <1>3
<1>5. (a \o b) \o c = d
  BY <1>1, <1>3, Zenon
<1> QED
  BY <1>1, <1>3, <1>4, <1>5, Zenon DEF a, b, c, InThree

LEMMA FramedFacts ==
  ASSUME NEW tag \in Nat, NEW body \in Seq(Nat)
  PROVE  /\ Framed(tag, body) \in Seq(Nat)
         /\ Len(Framed(tag, body)) = Len(body) + 2
         /\ Framed(tag, body)[1] = Len(body) + 1
         /\ FrameLen(Framed(tag, body)) = Len(body) + 2
         /\ FrameTag(Framed(tag, body)) = tag
         /\ FrameBody(Framed(tag, body)) = body
<1> DEFINE h == <<1 + Len(body), tag>>
           x == h \o body
<1>0. Len(body) \in Nat
  OBVIOUS
<1>1. h \in Seq(Nat) /\ Len(h) = 2 /\ h[1] = 1 + Len(body) /\ h[2] = tag
  BY <1>0
<1> HIDE DEF h
<1>2. x \in Seq(Nat) /\ Len(x) = Len(body) + 2 /\ x[1] = Len(body) + 1 /\ x[2] = tag
  <2>1. /\ x \in Seq(Nat)
        /\ Len(x) = Len(h) + Len(body)
        /\ \A i \in 1 .. Len(h) + Len(body) : x[i] = IF i <= Len(h) THEN h[i] ELSE body[i - Len(h)]
    BY <1>1, ConcatProperties, Zenon
  <2> HIDE DEF x
  <2> QED
    BY <1>0, <1>1, <2>1
<1>3. SubSeq(x, 3, Len(body) + 2) = body
  <2>0. Halved(Nat, h \o body, h, body)
    BY <1>1, Halves, Zenon
  <2>1. SubSeq(h \o body, Len(h) + 1, Len(h \o body)) = body
    BY <2>0, Zenon DEF Halved
  <2>2. Len(h) + 1 = 3
    BY <1>1
  <2> QED
    BY <1>2, <2>1, <2>2, Zenon
<1>4. Framed(tag, body) = x
  BY DEF Framed, h
<1> HIDE DEF x
<1>5. FrameLen(x) = Len(body) + 2
  BY <1>2 DEF FrameLen
<1> QED
  BY <1>2, <1>3, <1>4, <1>5 DEF FrameTag, FrameBody

-----------------------------------------------------------------------------
\* The body of a frame, and the tags of both sides.
BodyOf(f) ==
  CASE f.tag \in {SUBSCRIBE, UNSUBSCRIBE} -> f.topic
    [] f.tag \in {JOINED, LEFT} -> f.topic \o f.id
    [] f.tag \in {ANNOUNCE, PUBLISH, DELIVER} -> f.topic \o f.data
    [] f.tag \in {PUBLISH_TO, PRESENCE} -> f.topic \o f.id \o f.data
    [] f.tag = ERROR -> (IF f.topic = NoTopic THEN Zero ELSE f.topic) \o f.data

ClientTags == {SUBSCRIBE, UNSUBSCRIBE, ANNOUNCE, PUBLISH, PUBLISH_TO}

LEMMA EncodeIs == \A f : Encode(f) = Framed(f.tag, BodyOf(f))
  BY Zenon DEF Encode, BodyOf

LEMMA BodyIs ==
  ASSUME NEW f
  PROVE  /\ f.tag \in {SUBSCRIBE, UNSUBSCRIBE} => BodyOf(f) = f.topic
         /\ f.tag \in {JOINED, LEFT} => BodyOf(f) = f.topic \o f.id
         /\ f.tag \in {ANNOUNCE, PUBLISH, DELIVER} => BodyOf(f) = f.topic \o f.data
         /\ f.tag \in {PUBLISH_TO, PRESENCE} => BodyOf(f) = f.topic \o f.id \o f.data
         /\ f.tag = ERROR => BodyOf(f) = (IF f.topic = NoTopic THEN Zero ELSE f.topic) \o f.data
<1> DEFINE a == f.topic \o f.id
           b == f.topic \o f.data
           c == f.topic \o f.id \o f.data
           d == (IF f.topic = NoTopic THEN Zero ELSE f.topic) \o f.data
<1>1. BodyOf(f) = CASE f.tag \in {SUBSCRIBE, UNSUBSCRIBE} -> f.topic
                    [] f.tag \in {JOINED, LEFT} -> a
                    [] f.tag \in {ANNOUNCE, PUBLISH, DELIVER} -> b
                    [] f.tag \in {PUBLISH_TO, PRESENCE} -> c
                    [] f.tag = ERROR -> d
  BY Zenon DEF BodyOf
<1> HIDE DEF a, b, c, d
<1>2. /\ f.tag \in {SUBSCRIBE, UNSUBSCRIBE} => BodyOf(f) = f.topic
      /\ f.tag \in {JOINED, LEFT} => BodyOf(f) = a
      /\ f.tag \in {ANNOUNCE, PUBLISH, DELIVER} => BodyOf(f) = b
      /\ f.tag \in {PUBLISH_TO, PRESENCE} => BodyOf(f) = c
      /\ f.tag = ERROR => BodyOf(f) = d
  BY <1>1 DEF SUBSCRIBE, UNSUBSCRIBE, ANNOUNCE, PUBLISH, PUBLISH_TO, JOINED, LEFT, PRESENCE, DELIVER, ERROR
<1> QED
  BY <1>2, Zenon DEF a, b, c, d

LEMMA WidthNat == Width \in Nat /\ Width # 0
  BY ProtoAssumption

LEMMA ZeroIsTopic == IsTopic(Zero)
<1>1. Zero \in Seq(Nat) /\ Len(Zero) = Width
  BY WidthNat DEF Zero
<1> QED
  BY <1>1 DEF IsTopic

\* A topic and what follows it, and with an id in between.
LEMMA TopicThen ==
  ASSUME NEW t, IsTopic(t), NEW d \in Seq(Nat)
  PROVE  /\ t \o d \in Seq(Nat) /\ Len(t \o d) = Width + Len(d)
         /\ HasTopic(t \o d) /\ Topic(t \o d) = t /\ After(Width, t \o d) = d
<1>1. t \in Seq(Nat) /\ Len(t) = Width
  BY DEF IsTopic
<1>2. Halved(Nat, t \o d, t, d)
  BY <1>1, Halves, Zenon
<1>3. /\ t \o d \in Seq(Nat) /\ Len(t \o d) = Width + Len(d)
      /\ SubSeq(t \o d, 1, Width) = t
      /\ SubSeq(t \o d, Width + 1, Len(t \o d)) = d
  BY <1>1, <1>2, Zenon DEF Halved
<1>4. Len(d) \in Nat
  OBVIOUS
<1>5. HasTopic(t \o d)
  <2>1. Width + Len(d) >= Width
    BY <1>4, WidthNat
  <2> QED
    BY <1>3, <2>1, Zenon DEF HasTopic
<1> QED
  BY <1>3, <1>5, Zenon DEF Topic, After

LEMMA TopicIdThen ==
  ASSUME NEW t, IsTopic(t), NEW id \in Ids, NEW d \in Seq(Nat)
  PROVE  /\ t \o id \o d \in Seq(Nat) /\ Len(t \o id \o d) = 2 * Width + Len(d)
         /\ HasId(t \o id \o d) /\ Topic(t \o id \o d) = t
         /\ Id(t \o id \o d) = id /\ After(2 * Width, t \o id \o d) = d
<1>1. t \in Seq(Nat) /\ Len(t) = Width /\ id \in Seq(Nat) /\ Len(id) = Width
  BY ProtoAssumption DEF IsTopic
<1>2. Thirded(Nat, t \o id \o d, t, id, d)
  BY <1>1, Thirds, Zenon
<1> DEFINE x == t \o id \o d
<1>3. /\ x \in Seq(Nat) /\ Len(x) = (Width + Width) + Len(d)
      /\ SubSeq(x, 1, Width) = t
      /\ SubSeq(x, Width + 1, Width + Width) = id
      /\ SubSeq(x, (Width + Width) + 1, Len(x)) = d
  BY <1>1, <1>2, Zenon DEF Thirded
<1>4. Len(d) \in Nat
  OBVIOUS
<1>5. Width + Width = 2 * Width /\ 2 * Width + Len(d) >= 2 * Width
  BY <1>4, WidthNat
<1>6. /\ x \in Seq(Nat) /\ Len(x) = 2 * Width + Len(d)
      /\ SubSeq(x, 1, Width) = t
      /\ SubSeq(x, Width + 1, 2 * Width) = id
      /\ SubSeq(x, 2 * Width + 1, Len(x)) = d
  BY <1>3, <1>5, Zenon
<1> HIDE DEF x
<1>7. HasId(x)
  BY <1>5, <1>6, Zenon DEF HasId, Id
<1>8. Topic(x) = t /\ Id(x) = id /\ After(2 * Width, x) = d
  BY <1>6, Zenon DEF Topic, Id, After
<1> QED
  BY <1>6, <1>7, <1>8, Zenon DEF x

LEMMA TopicId ==
  ASSUME NEW t, IsTopic(t), NEW id \in Ids
  PROVE  /\ t \o id \in Seq(Nat) /\ Len(t \o id) = 2 * Width
         /\ HasId(t \o id) /\ Topic(t \o id) = t /\ Id(t \o id) = id
<1>1. <<>> \in Seq(Nat) /\ Len(<<>>) = 0
  OBVIOUS
<1>2. t \o id \in Seq(Nat)
  <2>1. t \in Seq(Nat) /\ id \in Seq(Nat)
    BY ProtoAssumption DEF IsTopic
  <2> QED
    BY <2>1
<1>3. (t \o id) \o <<>> = t \o id
  BY <1>2, ConcatEmptySeq
<1>4. 2 * Width + 0 = 2 * Width
  BY WidthNat
<1>5. /\ t \o id \o <<>> \in Seq(Nat) /\ Len(t \o id \o <<>>) = 2 * Width + Len(<<>>)
      /\ HasId(t \o id \o <<>>) /\ Topic(t \o id \o <<>>) = t
      /\ Id(t \o id \o <<>>) = id
  BY <1>1, TopicIdThen, Zenon
<1> QED
  BY <1>1, <1>3, <1>4, <1>5, Zenon

-----------------------------------------------------------------------------
\* What decode makes of an encoded frame.
LEMMA PlainCodec ==
  ASSUME NEW f, IsFrame(f), f.tag \in {SUBSCRIBE, UNSUBSCRIBE}
  PROVE  f.tag \in Nat /\ BodyOf(f) \in Seq(Nat) /\ ClientDecode(f.tag, BodyOf(f)) = f
<1>1. IsTopic(f.topic) /\ f = Plain(f.tag, f.topic)
  BY DEF SUBSCRIBE, UNSUBSCRIBE, ANNOUNCE, PUBLISH, PUBLISH_TO, JOINED, LEFT, PRESENCE, DELIVER, ERROR, IsFrame
<1>2. BodyOf(f) = f.topic
  BY BodyIs, Zenon
<1> DEFINE t == f.topic
<1>3. t \in Seq(Nat) /\ Len(t) = Width
  BY <1>1 DEF IsTopic
<1>4. Topic(t) = t /\ EndsAt(t, Width)
  BY <1>3, WidthNat DEF Topic, EndsAt
<1>5. ClientDecode(f.tag, t) = Plain(f.tag, t)
  BY <1>4 DEF SUBSCRIBE, UNSUBSCRIBE, ANNOUNCE, PUBLISH, PUBLISH_TO, JOINED, LEFT, PRESENCE, DELIVER, ERROR, ClientDecode
<1>6. f.tag \in Nat
  BY DEF SUBSCRIBE, UNSUBSCRIBE, ANNOUNCE, PUBLISH, PUBLISH_TO, JOINED, LEFT, PRESENCE, DELIVER, ERROR
<1> QED
  BY <1>1, <1>2, <1>3, <1>5, <1>6, Zenon

LEMMA WithCodec ==
  ASSUME NEW f, IsFrame(f), f.tag \in {ANNOUNCE, PUBLISH}
  PROVE  f.tag \in Nat /\ BodyOf(f) \in Seq(Nat) /\ ClientDecode(f.tag, BodyOf(f)) = f
<1>1. IsTopic(f.topic) /\ f.data \in Seq(Nat) /\ f = With(f.tag, f.topic, f.data)
  BY DEF SUBSCRIBE, UNSUBSCRIBE, ANNOUNCE, PUBLISH, PUBLISH_TO, JOINED, LEFT, PRESENCE, DELIVER, ERROR, IsFrame
<1> DEFINE x == f.topic \o f.data
<1>2. BodyOf(f) = x
  BY BodyIs, Zenon
<1>3. x \in Seq(Nat) /\ HasTopic(x) /\ Topic(x) = f.topic /\ After(Width, x) = f.data
  BY <1>1, TopicThen
<1> HIDE DEF x
<1>4. ClientDecode(f.tag, x) = With(f.tag, f.topic, f.data)
  BY <1>3 DEF SUBSCRIBE, UNSUBSCRIBE, ANNOUNCE, PUBLISH, PUBLISH_TO, JOINED, LEFT, PRESENCE, DELIVER, ERROR, ClientDecode
<1>6. f.tag \in Nat
  BY DEF SUBSCRIBE, UNSUBSCRIBE, ANNOUNCE, PUBLISH, PUBLISH_TO, JOINED, LEFT, PRESENCE, DELIVER, ERROR
<1> QED
  BY <1>1, <1>2, <1>3, <1>4, <1>6, Zenon

LEMMA ToCodec ==
  ASSUME NEW f, IsFrame(f), f.tag = PUBLISH_TO
  PROVE  f.tag \in Nat /\ BodyOf(f) \in Seq(Nat) /\ ClientDecode(f.tag, BodyOf(f)) = f
<1>1. IsTopic(f.topic) /\ f.id \in Ids /\ f.data \in Seq(Nat) /\ f = To(f.tag, f.topic, f.id, f.data)
  BY DEF SUBSCRIBE, UNSUBSCRIBE, ANNOUNCE, PUBLISH, PUBLISH_TO, JOINED, LEFT, PRESENCE, DELIVER, ERROR, IsFrame
<1> DEFINE x == f.topic \o f.id \o f.data
<1>2. BodyOf(f) = x
  BY BodyIs, Zenon
<1>3. x \in Seq(Nat) /\ HasId(x) /\ Topic(x) = f.topic /\ Id(x) = f.id /\ After(2 * Width, x) = f.data
  BY <1>1, TopicIdThen
<1> HIDE DEF x
<1>4. ClientDecode(f.tag, x) = To(f.tag, f.topic, f.id, f.data)
  BY <1>3 DEF SUBSCRIBE, UNSUBSCRIBE, ANNOUNCE, PUBLISH, PUBLISH_TO, JOINED, LEFT, PRESENCE, DELIVER, ERROR, ClientDecode
<1>6. f.tag \in Nat
  BY DEF SUBSCRIBE, UNSUBSCRIBE, ANNOUNCE, PUBLISH, PUBLISH_TO, JOINED, LEFT, PRESENCE, DELIVER, ERROR
<1> QED
  BY <1>1, <1>2, <1>3, <1>4, <1>6, Zenon

LEMMA ClientCodec ==
  ASSUME NEW f, IsFrame(f), f.tag \in ClientTags
  PROVE  f.tag \in Nat /\ BodyOf(f) \in Seq(Nat) /\ ClientDecode(f.tag, BodyOf(f)) = f
<1>1. f.tag \in {SUBSCRIBE, UNSUBSCRIBE} \/ f.tag \in {ANNOUNCE, PUBLISH} \/ f.tag = PUBLISH_TO
  BY DEF ClientTags
<1> QED
  BY <1>1, PlainCodec, WithCodec, ToCodec, Zenon

LEMMA AboutCodec ==
  ASSUME NEW f, IsFrame(f), f.tag \in {JOINED, LEFT}
  PROVE  f.tag \in Nat /\ BodyOf(f) \in Seq(Nat) /\ ServerDecode(f.tag, BodyOf(f)) = Said(f)
<1>1. IsTopic(f.topic) /\ f.id \in Ids /\ f = About(f.tag, f.topic, f.id)
  BY DEF SUBSCRIBE, UNSUBSCRIBE, ANNOUNCE, PUBLISH, PUBLISH_TO, SNAPSHOT, JOINED, LEFT, PRESENCE, DELIVER, ERROR, IsFrame
<1> DEFINE x == f.topic \o f.id
<1>2. BodyOf(f) = x
  BY BodyIs, Zenon
<1>3. x \in Seq(Nat) /\ HasId(x) /\ Topic(x) = f.topic /\ Id(x) = f.id /\ EndsAt(x, 2 * Width)
  BY <1>1, TopicId, Zenon DEF EndsAt
<1> HIDE DEF x
<1>4. ServerDecode(f.tag, x) = About(f.tag, f.topic, f.id)
  BY <1>3 DEF SUBSCRIBE, UNSUBSCRIBE, ANNOUNCE, PUBLISH, PUBLISH_TO, SNAPSHOT, JOINED, LEFT, PRESENCE, DELIVER, ERROR, ServerDecode
<1>5. Said(f) = f
  BY DEF SUBSCRIBE, UNSUBSCRIBE, ANNOUNCE, PUBLISH, PUBLISH_TO, SNAPSHOT, JOINED, LEFT, PRESENCE, DELIVER, ERROR, Said
<1>6. f.tag \in Nat
  BY DEF SUBSCRIBE, UNSUBSCRIBE, ANNOUNCE, PUBLISH, PUBLISH_TO, SNAPSHOT, JOINED, LEFT, PRESENCE, DELIVER, ERROR
<1> QED
  BY <1>1, <1>2, <1>3, <1>4, <1>5, <1>6, Zenon

LEMMA PresenceCodec ==
  ASSUME NEW f, IsFrame(f), f.tag = PRESENCE
  PROVE  f.tag \in Nat /\ BodyOf(f) \in Seq(Nat) /\ ServerDecode(f.tag, BodyOf(f)) = Said(f)
<1>1. IsTopic(f.topic) /\ f.id \in Ids /\ f.data \in Seq(Nat) /\ f = To(f.tag, f.topic, f.id, f.data)
  BY DEF SUBSCRIBE, UNSUBSCRIBE, ANNOUNCE, PUBLISH, PUBLISH_TO, SNAPSHOT, JOINED, LEFT, PRESENCE, DELIVER, ERROR, IsFrame
<1> DEFINE x == f.topic \o f.id \o f.data
<1>2. BodyOf(f) = x
  BY BodyIs, Zenon
<1>3. x \in Seq(Nat) /\ HasId(x) /\ Topic(x) = f.topic /\ Id(x) = f.id /\ After(2 * Width, x) = f.data
  BY <1>1, TopicIdThen
<1> HIDE DEF x
<1>4. ServerDecode(f.tag, x) = To(f.tag, f.topic, f.id, f.data)
  BY <1>3 DEF SUBSCRIBE, UNSUBSCRIBE, ANNOUNCE, PUBLISH, PUBLISH_TO, SNAPSHOT, JOINED, LEFT, PRESENCE, DELIVER, ERROR, ServerDecode
<1>5. Said(f) = f
  BY DEF SUBSCRIBE, UNSUBSCRIBE, ANNOUNCE, PUBLISH, PUBLISH_TO, SNAPSHOT, JOINED, LEFT, PRESENCE, DELIVER, ERROR, Said
<1>6. f.tag \in Nat
  BY DEF SUBSCRIBE, UNSUBSCRIBE, ANNOUNCE, PUBLISH, PUBLISH_TO, SNAPSHOT, JOINED, LEFT, PRESENCE, DELIVER, ERROR
<1> QED
  BY <1>1, <1>2, <1>3, <1>4, <1>5, <1>6, Zenon

LEMMA DeliverCodec ==
  ASSUME NEW f, IsFrame(f), f.tag = DELIVER
  PROVE  f.tag \in Nat /\ BodyOf(f) \in Seq(Nat) /\ ServerDecode(f.tag, BodyOf(f)) = Said(f)
<1>1. IsTopic(f.topic) /\ f.data \in Seq(Nat) /\ f = With(f.tag, f.topic, f.data)
  BY DEF SUBSCRIBE, UNSUBSCRIBE, ANNOUNCE, PUBLISH, PUBLISH_TO, SNAPSHOT, JOINED, LEFT, PRESENCE, DELIVER, ERROR, IsFrame
<1> DEFINE x == f.topic \o f.data
<1>2. BodyOf(f) = x
  BY BodyIs, Zenon
<1>3. x \in Seq(Nat) /\ HasTopic(x) /\ Topic(x) = f.topic /\ After(Width, x) = f.data
  BY <1>1, TopicThen
<1> HIDE DEF x
<1>4. ServerDecode(f.tag, x) = With(f.tag, f.topic, f.data)
  BY <1>3 DEF SUBSCRIBE, UNSUBSCRIBE, ANNOUNCE, PUBLISH, PUBLISH_TO, SNAPSHOT, JOINED, LEFT, PRESENCE, DELIVER, ERROR, ServerDecode
<1>5. Said(f) = f
  BY DEF SUBSCRIBE, UNSUBSCRIBE, ANNOUNCE, PUBLISH, PUBLISH_TO, SNAPSHOT, JOINED, LEFT, PRESENCE, DELIVER, ERROR, Said
<1>6. f.tag \in Nat
  BY DEF SUBSCRIBE, UNSUBSCRIBE, ANNOUNCE, PUBLISH, PUBLISH_TO, SNAPSHOT, JOINED, LEFT, PRESENCE, DELIVER, ERROR
<1> QED
  BY <1>1, <1>2, <1>3, <1>4, <1>5, <1>6, Zenon

LEMMA ErrorCodec ==
  ASSUME NEW f, IsFrame(f), f.tag = ERROR
  PROVE  f.tag \in Nat /\ BodyOf(f) \in Seq(Nat) /\ ServerDecode(f.tag, BodyOf(f)) = Said(f)
<1>1. (IsTopic(f.topic) \/ f.topic = NoTopic) /\ f.data \in Seq(Nat) /\ f = With(f.tag, f.topic, f.data)
  BY DEF SUBSCRIBE, UNSUBSCRIBE, ANNOUNCE, PUBLISH, PUBLISH_TO, SNAPSHOT, JOINED, LEFT, PRESENCE, DELIVER, ERROR, IsFrame
<1> DEFINE t == IF f.topic = NoTopic THEN Zero ELSE f.topic
           x == t \o f.data
<1>2. BodyOf(f) = x
  BY BodyIs, Zenon
<1>3. IsTopic(t)
  BY <1>1, ZeroIsTopic
<1>4. x \in Seq(Nat) /\ HasTopic(x) /\ Topic(x) = t /\ After(Width, x) = f.data
  <2> HIDE DEF t
  <2> QED
    BY <1>1, <1>3, TopicThen
<1> HIDE DEF x
<1>5. ServerDecode(f.tag, x) = With(f.tag, IF t = Zero THEN NoTopic ELSE t, f.data)
  <2> HIDE DEF t
  <2> QED
    BY <1>4 DEF SUBSCRIBE, UNSUBSCRIBE, ANNOUNCE, PUBLISH, PUBLISH_TO, SNAPSHOT, JOINED, LEFT, PRESENCE, DELIVER, ERROR, ServerDecode
<1>6. Said(f) = With(f.tag, IF t = Zero THEN NoTopic ELSE t, f.data)
  <2>1. CASE f.topic = NoTopic
    <3>1. t = Zero
      BY <2>1
    <3>2. NoTopic # Zero
      <4>1. Len(Zero) # 0
        BY ZeroIsTopic, WidthNat DEF IsTopic
      <4>2. Len(NoTopic) = 0
        BY DEF NoTopic
      <4> QED
        BY <4>1, <4>2, Zenon
    <3> QED
      BY <1>1, <2>1, <3>1, <3>2, Zenon DEF Said
  <2>2. CASE f.topic # NoTopic
    <3>1. t = f.topic
      BY <2>2
    <3> HIDE DEF t
    <3> QED
      BY <1>1, <3>1, Zenon DEF Said
  <2> QED
    BY <2>1, <2>2
<1>7. f.tag \in Nat
  BY DEF SUBSCRIBE, UNSUBSCRIBE, ANNOUNCE, PUBLISH, PUBLISH_TO, SNAPSHOT, JOINED, LEFT, PRESENCE, DELIVER, ERROR
<1> QED
  BY <1>2, <1>4, <1>5, <1>6, <1>7, Zenon

ServerTags == {JOINED, LEFT, PRESENCE, DELIVER, ERROR}

LEMMA ServerCodec ==
  ASSUME NEW f, IsFrame(f), f.tag \in ServerTags
  PROVE  f.tag \in Nat /\ BodyOf(f) \in Seq(Nat) /\ ServerDecode(f.tag, BodyOf(f)) = Said(f)
<1>1. f.tag \in {JOINED, LEFT} \/ f.tag = PRESENCE \/ f.tag = DELIVER \/ f.tag = ERROR
  BY DEF ServerTags
<1> QED
  BY <1>1, AboutCodec, PresenceCodec, DeliverCodec, ErrorCodec, Zenon

-----------------------------------------------------------------------------
\* What decodes is what encode writes for it.
LEMMA TopicOf ==
  ASSUME NEW body \in Seq(Nat), HasTopic(body)
  PROVE  /\ IsTopic(Topic(body)) /\ After(Width, body) \in Seq(Nat)
         /\ Topic(body) \o After(Width, body) = body
<1>1. Width \in 0 .. Len(body)
  BY WidthNat DEF HasTopic
<1>2. /\ SubSeq(body, 1, Width) \in Seq(Nat) /\ Len(SubSeq(body, 1, Width)) = Width
      /\ SubSeq(body, Width + 1, Len(body)) \in Seq(Nat)
      /\ SubSeq(body, 1, Width) \o SubSeq(body, Width + 1, Len(body)) = body
  BY <1>1, Joined, Zenon
<1> QED
  BY <1>2, Zenon DEF IsTopic, Topic, After

LEMMA IdOf ==
  ASSUME NEW body \in Seq(Nat), HasId(body)
  PROVE  /\ IsTopic(Topic(body)) /\ Id(body) \in Ids /\ After(2 * Width, body) \in Seq(Nat)
         /\ Topic(body) \o Id(body) \o After(2 * Width, body) = body
<1>1. Width \in Nat /\ Width + Width <= Len(body) /\ 2 * Width = Width + Width /\ Id(body) \in Ids
  BY WidthNat DEF HasId
<1>2. /\ SubSeq(body, 1, Width) \in Seq(Nat) /\ Len(SubSeq(body, 1, Width)) = Width
      /\ SubSeq(body, Width + Width + 1, Len(body)) \in Seq(Nat)
      /\ SubSeq(body, 1, Width) \o SubSeq(body, Width + 1, Width + Width) \o SubSeq(body, Width + Width + 1, Len(body)) = body
  <2>1. InThree(Nat, body, Width, Width)
    BY <1>1, JoinedThree, Zenon
  <2> QED
    BY <2>1, Zenon DEF InThree
<1>3. 2 * Width + 1 = Width + Width + 1
  BY <1>1
<1> QED
  BY <1>1, <1>2, <1>3, Zenon DEF IsTopic, Topic, Id, After

LEMMA ClientSound ==
  ASSUME NEW tag, NEW body \in Seq(Nat), ClientDecode(tag, body) # Malformed
  PROVE  LET d == ClientDecode(tag, body) IN
         tag \in ClientTags /\ d.tag = tag /\ IsFrame(d) /\ BodyOf(d) = body
<1> DEFINE d == ClientDecode(tag, body)
<1>1. CASE tag \in {SUBSCRIBE, UNSUBSCRIBE} /\ EndsAt(body, Width)
  <2>1. d = Plain(tag, Topic(body))
    BY <1>1 DEF SUBSCRIBE, UNSUBSCRIBE, ANNOUNCE, PUBLISH, PUBLISH_TO, SNAPSHOT, JOINED, LEFT, PRESENCE, DELIVER, ERROR, ClientDecode
  <2>2. Topic(body) = body /\ IsTopic(body)
    BY <1>1, WidthNat DEF Topic, EndsAt, IsTopic
  <2> HIDE DEF d
  <2>3. d.tag = tag /\ d.topic = body /\ d = Plain(tag, body)
    BY <2>1, <2>2 DEF Plain
  <2>4. IsFrame(d)
    BY <1>1, <2>2, <2>3, Zenon DEF IsFrame
  <2>5. BodyOf(d) = body
    BY <1>1, <2>3, BodyIs, Zenon
  <2> QED
    BY <1>1, <2>3, <2>4, <2>5, Zenon DEF ClientTags, d
<1>2. CASE tag \in {ANNOUNCE, PUBLISH} /\ HasTopic(body)
  <2>1. d = With(tag, Topic(body), After(Width, body))
    BY <1>2 DEF SUBSCRIBE, UNSUBSCRIBE, ANNOUNCE, PUBLISH, PUBLISH_TO, SNAPSHOT, JOINED, LEFT, PRESENCE, DELIVER, ERROR, ClientDecode
  <2>2. /\ IsTopic(Topic(body)) /\ After(Width, body) \in Seq(Nat)
        /\ Topic(body) \o After(Width, body) = body
    BY <1>2, TopicOf
  <2> HIDE DEF d
  <2>3. d.tag = tag /\ d.topic = Topic(body) /\ d.data = After(Width, body)
    BY <2>1 DEF With
  <2>4. IsFrame(d)
    BY <1>2, <2>1, <2>2, <2>3, Zenon DEF IsFrame
  <2>5. BodyOf(d) = body
    BY <1>2, <2>2, <2>3, BodyIs, Zenon
  <2> QED
    BY <1>2, <2>3, <2>4, <2>5, Zenon DEF ClientTags, d
<1>3. CASE tag = PUBLISH_TO /\ HasId(body)
  <2>1. d = To(tag, Topic(body), Id(body), After(2 * Width, body))
    BY <1>3 DEF SUBSCRIBE, UNSUBSCRIBE, ANNOUNCE, PUBLISH, PUBLISH_TO, SNAPSHOT, JOINED, LEFT, PRESENCE, DELIVER, ERROR, ClientDecode
  <2>2. /\ IsTopic(Topic(body)) /\ Id(body) \in Ids /\ After(2 * Width, body) \in Seq(Nat)
        /\ Topic(body) \o Id(body) \o After(2 * Width, body) = body
    BY <1>3, IdOf, SMTT(20)
  <2> HIDE DEF d
  <2>3. d.tag = tag /\ d.topic = Topic(body) /\ d.id = Id(body) /\ d.data = After(2 * Width, body)
    BY <2>1 DEF To
  <2>4. IsFrame(d)
    BY <1>3, <2>1, <2>2, <2>3, Zenon DEF IsFrame
  <2>5. BodyOf(d) = body
    BY <1>3, <2>2, <2>3, BodyIs, Zenon
  <2> QED
    BY <1>3, <2>3, <2>4, <2>5, Zenon DEF ClientTags, d
<1>4. \/ tag \in {SUBSCRIBE, UNSUBSCRIBE} /\ EndsAt(body, Width)
      \/ tag \in {ANNOUNCE, PUBLISH} /\ HasTopic(body)
      \/ tag = PUBLISH_TO /\ HasId(body)
  BY Zenon DEF ClientDecode
<1> QED
  BY <1>1, <1>2, <1>3, <1>4, Zenon

LEMMA ServerTag ==
  ASSUME NEW tag, NEW body
  PROVE  ServerDecode(tag, body) = Malformed \/ ServerDecode(tag, body).tag = tag
<1>1. CASE tag = SNAPSHOT
  <2>1. ServerDecode(tag, body) = SnapshotDecode(body)
    BY <1>1 DEF SUBSCRIBE, UNSUBSCRIBE, ANNOUNCE, PUBLISH, PUBLISH_TO, SNAPSHOT, JOINED, LEFT, PRESENCE, DELIVER, ERROR, ServerDecode
  <2>2. SnapshotDecode(body) = Malformed \/ \E m, ms : SnapshotDecode(body) = Snapshot(Topic(body), m, ms)
    BY Zenon DEF SnapshotDecode
  <2>3. \A m, ms : Snapshot(Topic(body), m, ms).tag = SNAPSHOT
    BY DEF Snapshot
  <2> QED
    BY <1>1, <2>1, <2>2, <2>3, Zenon
<1>2. CASE tag # SNAPSHOT
  <2> DEFINE a == About(tag, Topic(body), Id(body))
             b == To(tag, Topic(body), Id(body), After(2 * Width, body))
             c == With(tag, Topic(body), After(Width, body))
             e == With(tag, IF Topic(body) = Zero THEN NoTopic ELSE Topic(body), After(Width, body))
  <2>1. a.tag = tag /\ b.tag = tag /\ c.tag = tag /\ e.tag = tag
    BY DEF About, To, With
  <2>2. ServerDecode(tag, body) \in {a, b, c, e, Malformed}
    <3> HIDE DEF a, b, c, e
    <3>1. ServerDecode(tag, body) =
            CASE tag = SNAPSHOT -> SnapshotDecode(body)
              [] tag \in {JOINED, LEFT} /\ HasId(body) /\ EndsAt(body, 2 * Width) -> a
              [] tag = PRESENCE /\ HasId(body) -> b
              [] tag = DELIVER /\ HasTopic(body) -> c
              [] tag = ERROR /\ HasTopic(body) -> e
              [] OTHER -> Malformed
      BY Zenon DEF ServerDecode, a, b, c, e
    <3> QED
      BY <1>2, <3>1 DEF SUBSCRIBE, UNSUBSCRIBE, ANNOUNCE, PUBLISH, PUBLISH_TO, SNAPSHOT, JOINED, LEFT, PRESENCE, DELIVER, ERROR
  <2> HIDE DEF a, b, c, e
  <2> QED
    BY <2>1, <2>2, Zenon
<1> QED
  BY <1>1, <1>2

LEMMA DeliverSound ==
  ASSUME NEW tag, NEW body \in Seq(Nat), ServerDecode(tag, body) # Malformed,
         ServerDecode(tag, body).tag = DELIVER
  PROVE  LET d == ServerDecode(tag, body) IN
         tag = DELIVER /\ IsFrame(d) /\ BodyOf(d) = body
<1> DEFINE d == ServerDecode(tag, body)
<1>1. tag = DELIVER
  BY ServerTag, Zenon
<1>2. HasTopic(body)
  BY <1>1 DEF SUBSCRIBE, UNSUBSCRIBE, ANNOUNCE, PUBLISH, PUBLISH_TO, SNAPSHOT, JOINED, LEFT, PRESENCE, DELIVER, ERROR, ServerDecode
<1>3. d = With(DELIVER, Topic(body), After(Width, body))
  BY <1>1, <1>2 DEF SUBSCRIBE, UNSUBSCRIBE, ANNOUNCE, PUBLISH, PUBLISH_TO, SNAPSHOT, JOINED, LEFT, PRESENCE, DELIVER, ERROR, ServerDecode
<1>4. /\ IsTopic(Topic(body)) /\ After(Width, body) \in Seq(Nat)
      /\ Topic(body) \o After(Width, body) = body
  BY <1>2, TopicOf
<1> HIDE DEF d
<1>5. d.tag = DELIVER /\ d.topic = Topic(body) /\ d.data = After(Width, body)
  BY <1>3 DEF With
<1>6. IsFrame(d)
  BY <1>3, <1>4, <1>5, Zenon DEF IsFrame
<1>7. BodyOf(d) = body
  BY <1>4, <1>5, BodyIs, Zenon
<1> QED
  BY <1>1, <1>6, <1>7, Zenon DEF d

\* ClientFrame and ServerFrame, without SNAPSHOT: what encode writes decode
\* reads as the frame it was (an ERROR about the zero topic as one about
\* none), and ClientFrame::decode accepts no bytes but those that encode
\* writes for the frame it returns.  Every frame of a client has one wire form.
THEOREM FramesSurvive ==
  /\ \A f : IsFrame(f) /\ f.tag \in ClientTags =>
       ClientDecode(FrameTag(Encode(f)), FrameBody(Encode(f))) = f
  /\ \A f : IsFrame(f) /\ f.tag \in ServerTags =>
       ServerDecode(FrameTag(Encode(f)), FrameBody(Encode(f))) = Said(f)
  /\ \A tag \in Nat, body \in Seq(Nat) : ClientDecode(tag, body) # Malformed =>
       IsFrame(ClientDecode(tag, body)) /\ Encode(ClientDecode(tag, body)) = Framed(tag, body)
<1>1. ASSUME NEW f, f.tag \in Nat, BodyOf(f) \in Seq(Nat)
      PROVE  FrameTag(Encode(f)) = f.tag /\ FrameBody(Encode(f)) = BodyOf(f)
  <2> DEFINE g == f.tag
             b == BodyOf(f)
  <2>1. g \in Nat /\ b \in Seq(Nat) /\ Encode(f) = Framed(g, b)
    BY <1>1, EncodeIs, Zenon
  <2> HIDE DEF g, b
  <2>2. FrameTag(Framed(g, b)) = g /\ FrameBody(Framed(g, b)) = b
    BY <2>1, FramedFacts
  <2> QED
    BY <2>1, <2>2, Zenon DEF g, b
<1>2. ASSUME NEW f, IsFrame(f), f.tag \in ClientTags
      PROVE  ClientDecode(FrameTag(Encode(f)), FrameBody(Encode(f))) = f
  BY <1>1, <1>2, ClientCodec, Zenon
<1>3. ASSUME NEW f, IsFrame(f), f.tag \in ServerTags
      PROVE  ServerDecode(FrameTag(Encode(f)), FrameBody(Encode(f))) = Said(f)
  BY <1>1, <1>3, ServerCodec, Zenon
<1>4. ASSUME NEW tag \in Nat, NEW body \in Seq(Nat), ClientDecode(tag, body) # Malformed
      PROVE  IsFrame(ClientDecode(tag, body)) /\ Encode(ClientDecode(tag, body)) = Framed(tag, body)
  <2> DEFINE d == ClientDecode(tag, body)
  <2>1. d.tag = tag /\ IsFrame(d) /\ BodyOf(d) = body
    BY <1>4, ClientSound, Zenon
  <2> HIDE DEF d
  <2>2. Encode(d) = Framed(tag, body)
    BY <2>1, EncodeIs, Zenon
  <2> QED
    BY <2>1, <2>2, Zenon DEF d
<1> QED
  BY <1>2, <1>3, <1>4, Zenon

-----------------------------------------------------------------------------
(***************************************************************************)
(* SNAPSHOT chunks.                                                        *)
(***************************************************************************)
Member == [id : Ids, blob : Seq(Nat)]

LEMMA EntryFacts ==
  ASSUME NEW m \in Member
  PROVE  /\ Entry(m) \in Seq(Nat)
         /\ Len(m.blob) \in Nat
         /\ Len(Entry(m)) = Width + 1 + Len(m.blob)
         /\ SubSeq(Entry(m), 1, Width) = m.id
         /\ Entry(m)[Width + 1] = Len(m.blob)
         /\ SubSeq(Entry(m), Width + 2, Width + 1 + Len(m.blob)) = m.blob
<1> DEFINE a == m.id
           c == m.blob
           b == <<Len(c)>>
           x == a \o b \o c
<1>1. a \in Ids /\ c \in Seq(Nat)
  BY DEF Member
<1>2. a \in Seq(Nat) /\ Len(a) = Width
  BY <1>1, ProtoAssumption
<1>3. Len(c) \in Nat
  BY <1>1
<1>4. b \in Seq(Nat) /\ Len(b) = 1 /\ b[1] = Len(c)
  BY <1>3
<1>5. Entry(m) = x
  BY Zenon DEF Entry
<1> HIDE DEF a, b, c
<1>6. Thirded(Nat, x, a, b, c)
  BY <1>1, <1>2, <1>4, Thirds, Zenon
<1> HIDE DEF x
<1>7. /\ x \in Seq(Nat)
      /\ Len(x) = Width + 1 + Len(c)
      /\ SubSeq(x, 1, Width) = a
      /\ SubSeq(x, Width + 1, Width + 1) = b
      /\ SubSeq(x, Width + 1 + 1, Len(x)) = c
  BY <1>2, <1>4, <1>6, Zenon DEF Thirded
<1>8. x[Width + 1] = Len(c)
  <2>1. SubSeq(x, Width + 1, Width + 1)[1] = x[Width + 1]
    BY <1>3, <1>7, WidthNat
  <2> QED
    BY <1>4, <1>7, <2>1, Zenon
<1>9. Width + 1 + 1 = Width + 2
  BY WidthNat
<1> QED
  BY <1>3, <1>5, <1>7, <1>8, <1>9, Zenon DEF a, c

\* One turn of the loop reads the entry at the head of what is left.
LEMMA TakesEntry ==
  ASSUME NEW m \in Member, NEW z \in Seq(Nat), NEW p
  PROVE  TakeEntry([ok |-> TRUE, rest |-> Entry(m) \o z, members |-> p])
           = [ok |-> TRUE, rest |-> z, members |-> Append(p, m)]
<1> DEFINE e == Entry(m)
           l == Len(m.blob)
           r == e \o z
<1>1. /\ e \in Seq(Nat) /\ l \in Nat /\ Len(e) = Width + 1 + l
      /\ SubSeq(e, 1, Width) = m.id /\ e[Width + 1] = l
      /\ SubSeq(e, Width + 2, Width + 1 + l) = m.blob
  BY EntryFacts
<1>2. m = [id |-> m.id, blob |-> m.blob] /\ m.id \in Ids
  BY DEF Member
<1> HIDE DEF e, l
<1>3. Halved(Nat, r, e, z)
  BY <1>1, Halves, Zenon
<1>4. SubSeq(r, 1, Width) = m.id
  <2>1. 1 \in Nat /\ 1 <= Width + 1 /\ Width \in Nat /\ Width <= Len(e) /\ 1 <= 1
    BY <1>1, WidthNat
  <2>2. SubSeq(r, 1, Width) = SubSeq(e, 1, Width)
    BY <1>1, <2>1, InFirst, ZenonT(40)
  <2> QED
    BY <1>1, <2>2, Zenon
<1>5. SubSeq(r, Width + 2, Width + 1 + l) = m.blob
  <2> DEFINE i == Width + 2
             j == Width + 1 + l
  <2>1. i \in Nat /\ j \in Nat /\ 1 <= i /\ i <= j + 1 /\ j <= Len(e)
    BY <1>1, WidthNat
  <2>2. SubSeq(r, i, j) = SubSeq(e, i, j)
    <3> HIDE DEF i, j
    <3> QED
      BY <1>1, <2>1, InFirst, ZenonT(40)
  <2> QED
    BY <1>1, <2>2, Zenon
<1>6. r[Width + 1] = l
  BY <1>1, WidthNat
<1>7. After(Width + 1 + l, r) = z
  BY <1>1, <1>3, Zenon DEF After, Halved
<1>8. Len(r) >= Width + 1 /\ Len(r) >= Width + 1 + l
  <2>1. Len(r) = Len(e) + Len(z)
    BY <1>3, Zenon DEF Halved
  <2>2. Len(z) \in Nat
    OBVIOUS
  <2> HIDE DEF r
  <2> QED
    BY <1>1, <2>1, <2>2, WidthNat
<1> HIDE DEF r
<1> DEFINE acc == [ok |-> TRUE, rest |-> r, members |-> p]
<1>9. acc.ok = TRUE /\ acc.rest = r /\ acc.members = p
  OBVIOUS
<1> HIDE DEF acc
<1>10. TakeEntry(acc) = [ok |-> TRUE, rest |-> z, members |-> Append(p, [id |-> m.id, blob |-> m.blob])]
  <2> DEFINE ok == /\ acc.ok
                   /\ Len(acc.rest) >= Width + 1
                   /\ SubSeq(acc.rest, 1, Width) \in Ids
                   /\ Len(acc.rest) >= Width + 1 + acc.rest[Width + 1]
  <2>1. ok = TRUE
    BY <1>2, <1>4, <1>6, <1>8, <1>9, Zenon
  <2>2. TakeEntry(acc) =
          [ok |-> ok,
           rest |-> IF ok THEN After(Width + 1 + acc.rest[Width + 1], acc.rest) ELSE acc.rest,
           members |-> IF ok THEN Append(acc.members, [id |-> SubSeq(acc.rest, 1, Width),
                          blob |-> SubSeq(acc.rest, Width + 2, Width + 1 + acc.rest[Width + 1])])
                       ELSE acc.members]
    BY Zenon DEF TakeEntry
  <2> HIDE DEF ok
  <2>3. TakeEntry(acc) =
          [ok |-> TRUE,
           rest |-> After(Width + 1 + acc.rest[Width + 1], acc.rest),
           members |-> Append(acc.members, [id |-> SubSeq(acc.rest, 1, Width),
                          blob |-> SubSeq(acc.rest, Width + 2, Width + 1 + acc.rest[Width + 1])])]
    BY <2>1, <2>2, Zenon
  <2> QED
    BY <1>4, <1>5, <1>6, <1>7, <1>9, <2>3, Zenon
<1> QED
  BY <1>2, <1>10, Zenon DEF acc, r, e

-----------------------------------------------------------------------------
\* g[n] is what SnapshotDecode has after n turns.
Turns(body, g) ==
  g = [n \in 0 .. body[Width + 2] |->
         IF n = 0 THEN [ok |-> TRUE, rest |-> After(Width + 2, body), members |-> <<>>]
         ELSE TakeEntry(g[n - 1])]

\* A chunk is read back as it was written.
LEMMA ChunkCodec ==
  ASSUME NEW t, IsTopic(t), NEW more \in BOOLEAN, NEW ms \in Seq(Member), Len(ms) <= CountMax
  PROVE  /\ EncodeChunk(t, more, ms) \in Seq(Nat)
         /\ FrameTag(EncodeChunk(t, more, ms)) = SNAPSHOT
         /\ SnapshotDecode(FrameBody(EncodeChunk(t, more, ms))) = Snapshot(t, more, ms)
<1> DEFINE es == [i \in DOMAIN ms |-> Entry(ms[i])]
           flat == FlattenSeq(es)
           flag == IF more THEN 1 ELSE 0
           head == <<flag, Len(ms) % (CountMax + 1)>>
           body == t \o head \o flat
           K == Len(ms)
<1>1. K \in Nat /\ Len(ms) % (CountMax + 1) = K
  BY ProtoAssumption
<1>2. es \in Seq(Seq(Nat)) /\ Len(es) = K /\ \A i \in 1 .. K : es[i] = Entry(ms[i]) /\ ms[i] \in Member
  <2>1. DOMAIN ms = 1 .. K /\ \A i \in 1 .. K : ms[i] \in Member
    OBVIOUS
  <2>2. \A i \in 1 .. K : Entry(ms[i]) \in Seq(Nat)
    BY <2>1, EntryFacts
  <2>3. es \in [1 .. K -> Seq(Nat)]
    BY <2>1, <2>2
  <2>4. \A i \in 1 .. K : es[i] = Entry(ms[i])
    BY <2>1
  <2> HIDE DEF es
  <2>5. es \in Seq(Seq(Nat)) /\ Len(es) = K
    BY <1>1, <2>3
  <2> QED
    BY <2>1, <2>4, <2>5
<1> HIDE DEF es
<1>20. /\ First(es, 0) = <<>>
       /\ \A n \in 0 .. K : First(es, n) \in Seq(Nat)
       /\ \A n \in 1 .. K : First(es, n) = First(es, n - 1) \o es[n]
  <2>1. Firsts(Nat, es)
    BY <1>2, FirstSteps, Zenon
  <2> HIDE DEF K
  <2> QED
    BY <1>2, <2>1, Zenon DEF Firsts
<1>3. flat = First(es, K) /\ flat \in Seq(Nat)
  <2>1. First(es, K) = flat
    BY <1>2, FirstAll
  <2>2. First(es, K) \in Seq(Nat)
    <3>1. K \in 0 .. K
      BY <1>1
    <3> QED
      BY <1>20, <3>1, Zenon
  <2> QED
    BY <2>1, <2>2
<1> HIDE DEF flat
<1>4. head \in Seq(Nat) /\ Len(head) = 2 /\ head[1] = flag /\ head[2] = K
  BY <1>1
<1>5. t \in Seq(Nat) /\ Len(t) = Width
  BY DEF IsTopic
<1> HIDE DEF head
<1>6. /\ body \in Seq(Nat) /\ Len(body) = Width + 2 + Len(flat)
      /\ Topic(body) = t
      /\ SubSeq(body, Width + 1, Width + 2) = head
      /\ After(Width + 2, body) = flat
  <2>1. Thirded(Nat, body, t, head, flat)
    BY <1>3, <1>4, <1>5, Thirds, Zenon
  <2> HIDE DEF body
  <2> QED
    BY <1>4, <1>5, <2>1, Zenon DEF Thirded, Topic, After
<1>7. EncodeChunk(t, more, ms) = Framed(SNAPSHOT, body)
  BY Zenon DEF EncodeChunk, head, flat, es
<1> HIDE DEF body
<1>8. SNAPSHOT \in Nat
  BY DEF SNAPSHOT
<1>9. body[Width + 1] = flag /\ body[Width + 2] = K /\ ~(Len(body) < Width + 2)
  <2>1. Len(flat) \in Nat
    BY <1>3
  <2>2. SubSeq(body, Width + 1, Width + 2)[1] = body[Width + 1] /\ SubSeq(body, Width + 1, Width + 2)[2] = body[Width + 2]
    BY <1>6, <2>1, WidthNat
  <2> QED
    BY <1>4, <1>6, <2>1, <2>2, WidthNat
<1> DEFINE stage(n) == [ok |-> TRUE, rest |-> After(Len(First(es, n)), flat), members |-> SubSeq(ms, 1, n)]
<1>10. stage(0) = [ok |-> TRUE, rest |-> After(Width + 2, body), members |-> <<>>]
  <2>1. First(es, 0) = <<>> /\ Len(<<>>) = 0
    BY <1>20
  <2>2. SubSeq(flat, 1, Len(flat)) = flat /\ 0 + 1 = 1
    BY <1>3
  <2>3. SubSeq(ms, 1, 0) = <<>>
    OBVIOUS
  <2> QED
    BY <1>6, <2>1, <2>2, <2>3, Zenon DEF After
<1>11. ASSUME NEW n \in 1 .. K PROVE stage(n) = TakeEntry(stage(n - 1))
  <2> DEFINE a == First(es, n - 1)
             e == Entry(ms[n])
  <2>0. n - 1 \in 0 .. K /\ n \in 0 .. K
    OBVIOUS
  <2>1. a \in Seq(Nat) /\ First(es, n) = a \o e
    <3>1. es[n] = e
      BY <1>2
    <3> QED
      BY <1>20, <2>0, <3>1, Zenon
  <2>2. e \in Seq(Nat) /\ ms[n] \in Member
    BY <1>2, EntryFacts
  <2>3. PICK z \in Seq(Nat) : First(es, K) = First(es, n) \o z
    <3>1. n \in 0 .. Len(es) /\ K \in n .. Len(es)
      BY <1>1, <1>2
    <3>2. Grows(Nat, es, n, K)
      BY <1>2, <3>1, FirstGrows, Zenon
    <3> QED
      BY <3>2, Zenon DEF Grows
  <2> HIDE DEF a, e
  <2>4. flat = (a \o e) \o z /\ flat = a \o (e \o z)
    <3>1. flat = (a \o e) \o z
      BY <1>3, <2>1, <2>3, Zenon
    <3>2. a \in Seq(Nat) /\ e \in Seq(Nat)
      BY <2>1, <2>2
    <3>3. (a \o e) \o z = a \o (e \o z)
      BY <3>2
    <3> QED
      BY <3>1, <3>3, Zenon
  <2>5. a \o e \in Seq(Nat) /\ e \o z \in Seq(Nat)
    BY <2>1, <2>2
  <2>6. After(Len(a \o e), flat) = z
    <3>1. Halved(Nat, (a \o e) \o z, a \o e, z)
      BY <2>5, Halves, Zenon
    <3> QED
      BY <2>4, <3>1, Zenon DEF After, Halved
  <2>7. After(Len(a), flat) = e \o z
    <3>1. Halved(Nat, a \o (e \o z), a, e \o z)
      BY <2>1, <2>5, Halves, Zenon
    <3> QED
      BY <2>4, <3>1, Zenon DEF After, Halved
  <2>8. stage(n - 1) = [ok |-> TRUE, rest |-> e \o z, members |-> SubSeq(ms, 1, n - 1)]
    BY <2>7, Zenon DEF a
  <2>9. stage(n) = [ok |-> TRUE, rest |-> z, members |-> SubSeq(ms, 1, n)]
    BY <2>1, <2>6, Zenon
  <2>10. TakeEntry([ok |-> TRUE, rest |-> e \o z, members |-> SubSeq(ms, 1, n - 1)])
           = [ok |-> TRUE, rest |-> z, members |-> Append(SubSeq(ms, 1, n - 1), ms[n])]
    BY <2>2, TakesEntry, Zenon DEF e
  <2>11. Append(SubSeq(ms, 1, n - 1), ms[n]) = SubSeq(ms, 1, n)
    OBVIOUS
  <2> HIDE DEF stage
  <2> QED
    BY <2>8, <2>9, <2>10, <2>11, Zenon
<1> HIDE DEF stage
<1>12. \E g : Turns(body, g)
  <2> DEFINE g == [n \in 0 .. K |-> stage(n)]
  <2>1. ASSUME NEW n \in 0 .. K
        PROVE  g[n] = IF n = 0 THEN [ok |-> TRUE, rest |-> After(Width + 2, body), members |-> <<>>]
                      ELSE TakeEntry(g[n - 1])
    <3>1. CASE n = 0
      BY <1>10, <3>1
    <3>2. CASE n # 0
      <4>1. n \in 1 .. K /\ n - 1 \in 0 .. K
        BY <3>2
      <4> QED
        BY <1>11, <3>2, <4>1
    <3> QED
      BY <3>1, <3>2
  <2>2. g = [n \in 0 .. K |-> IF n = 0 THEN [ok |-> TRUE, rest |-> After(Width + 2, body), members |-> <<>>]
                              ELSE TakeEntry(g[n - 1])]
    BY <2>1
  <2> HIDE DEF g
  <2>3. Turns(body, g)
    BY <1>9, <2>2, Zenon DEF Turns
  <2> QED
    BY <2>3
<1> DEFINE turn == CHOOSE g : Turns(body, g)
<1>13. Turns(body, turn)
  BY <1>12, Zenon
<1>14. SnapshotDecode(body) =
         IF turn[K].ok /\ EndsAt(turn[K].rest, 0)
         THEN Snapshot(Topic(body), body[Width + 1] % 2 = 1, turn[K].members) ELSE Malformed
  <2> DEFINE all == turn[body[Width + 2]]
  <2>1. SnapshotDecode(body) =
          IF Len(body) < Width + 2 THEN Malformed ELSE
          IF all.ok /\ EndsAt(all.rest, 0)
          THEN Snapshot(Topic(body), body[Width + 1] % 2 = 1, all.members) ELSE Malformed
    BY Zenon DEF SnapshotDecode, Turns
  <2> HIDE DEF turn
  <2> QED
    BY <1>9, <2>1, Zenon
<1> HIDE DEF turn
<1>15. turn[K] = stage(K)
  <2> DEFINE T == {n \in Nat : n \in 0 .. K => turn[n] = stage(n)}
  <2>1. \A n \in 0 .. K : turn[n] = IF n = 0 THEN stage(0) ELSE TakeEntry(turn[n - 1])
    BY <1>9, <1>10, <1>13, Zenon DEF Turns
  <2>2. 0 \in T
    BY <1>1, <2>1
  <2>3. ASSUME NEW n \in Nat, n \in T PROVE n + 1 \in T
    <3> SUFFICES ASSUME n + 1 \in 0 .. K PROVE turn[n + 1] = stage(n + 1)
      OBVIOUS
    <3>1. n \in 0 .. K /\ n + 1 \in 1 .. K /\ (n + 1) - 1 = n /\ n + 1 # 0
      BY <1>1
    <3>2. turn[n] = stage(n)
      BY <2>3, <3>1
    <3>3. turn[n + 1] = TakeEntry(turn[(n + 1) - 1])
      BY <2>1, <3>1
    <3>4. stage(n + 1) = TakeEntry(stage((n + 1) - 1))
      BY <1>11, <3>1
    <3> QED
      BY <3>1, <3>2, <3>3, <3>4, Zenon
  <2>4. \A n \in Nat : n \in T
    <3> HIDE DEF T
    <3> QED
      BY <2>2, <2>3, NatSteps
  <2> QED
    BY <1>1, <2>4
<1>16. turn[K].ok = TRUE /\ EndsAt(turn[K].rest, 0) /\ turn[K].members = ms
  <2>1. stage(K) = [ok |-> TRUE, rest |-> After(Len(flat), flat), members |-> SubSeq(ms, 1, K)]
    BY <1>3, Zenon DEF stage
  <2>2. SubSeq(ms, 1, K) = ms
    OBVIOUS
  <2>3. EndsAt(After(Len(flat), flat), 0)
    BY <1>3 DEF EndsAt, After
  <2>4. stage(K).ok = TRUE /\ stage(K).rest = After(Len(flat), flat) /\ stage(K).members = SubSeq(ms, 1, K)
    BY <2>1
  <2> QED
    BY <1>15, <2>2, <2>3, <2>4, Zenon
<1>17. (body[Width + 1] % 2 = 1) = more
  BY <1>9
<1>18. SnapshotDecode(body) = Snapshot(t, more, ms)
  BY <1>6, <1>14, <1>16, <1>17, Zenon
<1>19. /\ Framed(SNAPSHOT, body) \in Seq(Nat) /\ FrameTag(Framed(SNAPSHOT, body)) = SNAPSHOT
       /\ FrameBody(Framed(SNAPSHOT, body)) = body
  BY <1>6, <1>8, FramedFacts, Zenon
<1> QED
  BY <1>7, <1>18, <1>19, Zenon

\* A SNAPSHOT chunk of at most CountMax members is read as it was written by
\* encode_snapshot_chunk: its flag and every member's identity and blob.
THEOREM ChunksSurvive ==
  \A t : \A more \in BOOLEAN : \A ms \in Seq(Member) : IsTopic(t) /\ Len(ms) <= CountMax =>
    ServerDecode(FrameTag(EncodeChunk(t, more, ms)), FrameBody(EncodeChunk(t, more, ms)))
      = Snapshot(t, more, ms)
<1> SUFFICES ASSUME NEW t, NEW more \in BOOLEAN, NEW ms \in Seq(Member), IsTopic(t), Len(ms) <= CountMax
             PROVE  ServerDecode(FrameTag(EncodeChunk(t, more, ms)), FrameBody(EncodeChunk(t, more, ms)))
                      = Snapshot(t, more, ms)
  BY Zenon
<1>1. /\ FrameTag(EncodeChunk(t, more, ms)) = SNAPSHOT
      /\ SnapshotDecode(FrameBody(EncodeChunk(t, more, ms))) = Snapshot(t, more, ms)
  BY ChunkCodec, Zenon
<1>2. \A body : ServerDecode(SNAPSHOT, body) = SnapshotDecode(body)
  BY DEF SNAPSHOT, JOINED, LEFT, PRESENCE, DELIVER, ERROR, ServerDecode
<1> QED
  BY <1>1, <1>2, Zenon

-----------------------------------------------------------------------------
(***************************************************************************)
(* The session stream.  A position is a number of items and a number of    *)
(* members of the next one.                                                *)
(***************************************************************************)
Piece(item, at) ==
  IF item.tag # SNAPSHOT THEN Encode(item)
  ELSE LET end == ChunkEnd(item.members, at) IN
       EncodeChunk(item.topic, More(item.members, at, end), SubSeq(item.members, at + 1, end))

Advance(item, pos) ==
  LET end == ChunkEnd(item.members, pos[2]) IN
  IF item.tag = SNAPSHOT /\ More(item.members, pos[2], end) THEN <<pos[1], end>> ELSE <<pos[1] + 1, 0>>

ItemAt(q, pos) == q[pos[1] + 1]

Position(q, pos) ==
  /\ pos \in Nat \X Nat
  /\ pos[1] <= Len(q)
  /\ pos[2] # 0 => /\ pos[1] < Len(q)
                   /\ ItemAt(q, pos).tag = SNAPSHOT
                   /\ pos[2] < Len(ItemAt(q, pos).members)

\* path[k] is where the client is once it has the first k frames in flight.
Trail(path, q, w) ==
  /\ \A k \in 0 .. Len(w) : Position(q, path[k])
  /\ \A k \in 1 .. Len(w) : /\ path[k - 1][1] < Len(q)
                            /\ w[k] = Piece(ItemAt(q, path[k - 1]), path[k - 1][2])
                            /\ path[k] = Advance(ItemAt(q, path[k - 1]), path[k - 1])

\* What the client at a position has handed out and merged.
Inbox(q, pos, in) ==
  /\ Len(in) = pos[1]
  /\ \A i \in 1 .. Len(in) : in[i] = Said(q[i])
Merged(q, pos, p) ==
  \A t \in Topics :
    p[t] = IF pos[2] # 0 /\ ItemAt(q, pos).topic = t THEN SubSeq(ItemAt(q, pos).members, 1, pos[2]) ELSE <<>>

SessionOk(path) ==
  /\ Trail(path, queued, wire)
  /\ Inbox(queued, path[0], inbox)
  /\ Merged(queued, path[0], partial)
  /\ ~lost => path[Len(wire)] = <<written, start>>

SessionType ==
  /\ queued \in Seq(Items)
  /\ wire \in Seq(Seq(Nat))
  /\ inbox \in Seq({Said(item) : item \in Items})
  /\ partial \in [Topics -> Seq(Member)]
  /\ lost \in BOOLEAN

Flowing == SessionType /\ \E path \in [0 .. Len(wire) -> Nat \X Nat] : SessionOk(path)

\* What remains once pump_frames has ended.
Stopped ==
  /\ queued \in Seq(Items)
  /\ inbox \in Seq({Said(item) : item \in Items})
  /\ Len(inbox) <= Len(queued)
  /\ \A i \in 1 .. Len(inbox) : inbox[i] = Said(queued[i])
  /\ \A t \in Topics : partial[t] = <<>>

SessionInv == IF pumping THEN Flowing ELSE Stopped

-----------------------------------------------------------------------------
LEMMA EntryLimitFacts == EntryLimit \in 1 .. CountMax
<1>1. CountMax \in Nat /\ CountMax # 0 /\ MaxEntries \in Nat /\ 1 \in Nat
  BY ProtoAssumption, StreamAssumption
<1> DEFINE a == Max({1, MaxEntries})
<1>2. a \in Nat /\ a >= 1
  BY <1>1, MaxOfTwo
<1> HIDE DEF a
<1>3. Min({CountMax, a}) \in {CountMax, a} /\ Min({CountMax, a}) <= CountMax
  BY <1>1, <1>2, MinOfTwo
<1>4. EntryLimit = Min({CountMax, a})
  BY DEF EntryLimit, a
<1> QED
  BY <1>1, <1>2, <1>3, <1>4

LEMMA ChunkEndFacts ==
  ASSUME NEW ms, Len(ms) \in Nat, NEW from \in 0 .. Len(ms)
  PROVE  /\ ChunkEnd(ms, from) \in from .. Len(ms)
         /\ ChunkEnd(ms, from) - from <= CountMax
         /\ from < Len(ms) => ChunkEnd(ms, from) > from
<1> DEFINE b == Min({Len(ms), from + EntryLimit})
           S == {from} \cup {e \in from + 1 .. b : e = from + 1 \/ Body(SubSeq(ms, from + 1, e)) <= MaxBody}
<1>1. EntryLimit \in Nat /\ EntryLimit >= 1 /\ EntryLimit <= CountMax /\ CountMax \in Nat
  BY EntryLimitFacts, ProtoAssumption
<1>2. b \in Nat /\ b \in {Len(ms), from + EntryLimit} /\ b <= Len(ms) /\ b <= from + EntryLimit
  <2>1. from + EntryLimit \in Nat
    BY <1>1
  <2> QED
    BY <2>1, MinOfTwo
<1> HIDE DEF b
<1>3. S \in SUBSET Nat /\ from \in S /\ \A y \in S : y >= from /\ (y = from \/ y <= b)
  BY <1>2
<1>4. from < Len(ms) => from + 1 \in S
  BY <1>1, <1>2
<1>5. from + b \in Nat /\ \A y \in S : y <= from + b
  BY <1>2, <1>3
<1>6. ChunkEnd(ms, from) = Max(S)
  BY Zenon DEF ChunkEnd, b
<1> HIDE DEF S
<1>7. Max(S) \in S /\ \A y \in S : Max(S) >= y
  BY <1>3, <1>5, MaxOfSet, Zenon
<1> DEFINE m == Max(S)
<1>8. m \in S /\ \A y \in S : m >= y
  BY <1>7
<1> HIDE DEF m
<1>9. m \in from .. Len(ms) /\ m - from <= CountMax /\ (from < Len(ms) => m > from)
  BY <1>1, <1>2, <1>3, <1>4, <1>8
<1> QED
  BY <1>6, <1>9, Zenon DEF m

-----------------------------------------------------------------------------
IsSnapshot(item) ==
  /\ item.tag = SNAPSHOT /\ item.topic \in Topics /\ IsTopic(item.topic)
  /\ item.members \in Seq(Member) /\ Len(item.members) <= MaxMembers
  /\ item = Snapshot(item.topic, FALSE, item.members)
IsEvent(item) == item.tag \in {JOINED, LEFT, PRESENCE, ERROR} /\ IsFrame(item)

LEMMA MembersFacts ==
  ASSUME NEW ms \in Members
  PROVE  ms \in Seq(Member) /\ Len(ms) <= MaxMembers
<1>1. PICK n \in 0 .. Len(Roster) : \E blobs \in [1 .. n -> Blobs] : ms = [i \in 1 .. n |-> [id |-> Roster[i], blob |-> blobs[i]]]
  BY Zenon DEF Members
<1>2. PICK blobs \in [1 .. n -> Blobs] : ms = [i \in 1 .. n |-> [id |-> Roster[i], blob |-> blobs[i]]]
  BY <1>1, Zenon
<1>3. Roster \in Seq(Ids) /\ Len(Roster) <= MaxMembers /\ Blobs \subseteq Seq(Nat) /\ MaxMembers \in Nat
  BY StreamAssumption
<1>4. n \in Nat /\ n <= MaxMembers /\ \A i \in 1 .. n : i \in 1 .. Len(Roster)
  BY <1>3
<1>5. \A i \in 1 .. n : [id |-> Roster[i], blob |-> blobs[i]] \in Member
  <2>1. \A i \in 1 .. n : Roster[i] \in Ids /\ blobs[i] \in Seq(Nat)
    BY <1>3, <1>4
  <2> QED
    BY <2>1 DEF Member
<1>6. ms \in [1 .. n -> Member]
  BY <1>2, <1>5
<1>7. ms \in Seq(Member) /\ Len(ms) = n
  BY <1>4, <1>6
<1> QED
  BY <1>4, <1>7

LEMMA ItemFacts ==
  ASSUME NEW item \in Items
  PROVE  IsSnapshot(item) \/ IsEvent(item)
<1>1. CASE item \in Events
  BY <1>1, StreamAssumption, Zenon DEF IsEvent
<1>2. CASE item \notin Events
  <2>1. PICK t \in Topics, ms \in Members : item = Snapshot(t, FALSE, ms)
    <3> DEFINE F(t, ms) == Snapshot(t, FALSE, ms)
    <3>1. Items = {F(t, ms) : t \in Topics, ms \in Members} \cup Events
      BY DEF Items
    <3> HIDE DEF F
    <3>2. \E t \in Topics, ms \in Members : item = F(t, ms)
      BY <1>2, <3>1
    <3> QED
      BY <3>2, Zenon DEF F
  <2>2. IsTopic(t)
    BY StreamAssumption, Zenon
  <2>3. ms \in Seq(Member) /\ Len(ms) <= MaxMembers
    BY MembersFacts
  <2>4. item.tag = SNAPSHOT /\ item.topic = t /\ item.members = ms
    BY <2>1 DEF Snapshot
  <2> QED
    BY <2>1, <2>2, <2>3, <2>4, Zenon DEF IsSnapshot
<1> QED
  BY <1>1, <1>2

LEMMA EventNotSnapshot ==
  ASSUME NEW item, IsEvent(item)
  PROVE  item.tag # SNAPSHOT
BY DEF IsEvent, SNAPSHOT, JOINED, LEFT, PRESENCE, ERROR

\* The chunk of a snapshot that starts at a position.
LEMMA PieceOfSnapshot ==
  ASSUME NEW item, IsSnapshot(item), NEW at \in 0 .. Len(item.members)
  PROVE  LET end == ChunkEnd(item.members, at)
             more == More(item.members, at, end)
             part == SubSeq(item.members, at + 1, end)
             piece == Piece(item, at)
         IN  /\ piece \in Seq(Nat) /\ FrameTag(piece) = SNAPSHOT
             /\ ServerDecode(FrameTag(piece), FrameBody(piece)) = Snapshot(item.topic, more, part)
<1> DEFINE ms == item.members
           end == ChunkEnd(ms, at)
           more == More(ms, at, end)
           part == SubSeq(ms, at + 1, end)
<1>1. ms \in Seq(Member) /\ Len(ms) \in Nat
  BY DEF IsSnapshot
<1>2. end \in at .. Len(ms) /\ end - at <= CountMax
  BY <1>1, ChunkEndFacts, SMTT(20), ZenonT(20), SMTT(30)
<1>3. more \in BOOLEAN
  BY DEF More
<1>4. Piece(item, at) = EncodeChunk(item.topic, more, part)
  BY Zenon DEF Piece, IsSnapshot
<1> HIDE DEF ms, end, more
<1>5. part \in Seq(Member) /\ Len(part) <= CountMax
  <2>1. part \in Seq(Member) /\ Len(part) = end - at
    BY <1>1, <1>2
  <2> QED
    BY <1>2, <2>1
<1> HIDE DEF part
<1>6. /\ EncodeChunk(item.topic, more, part) \in Seq(Nat)
      /\ FrameTag(EncodeChunk(item.topic, more, part)) = SNAPSHOT
      /\ SnapshotDecode(FrameBody(EncodeChunk(item.topic, more, part))) = Snapshot(item.topic, more, part)
  <2>1. IsTopic(item.topic)
    BY DEF IsSnapshot
  <2> QED
    BY <1>3, <1>5, <2>1, ChunkCodec, Zenon
<1>7. \A body : ServerDecode(SNAPSHOT, body) = SnapshotDecode(body)
  BY DEF ServerDecode, SNAPSHOT, JOINED, LEFT, PRESENCE, DELIVER, ERROR
<1> QED
  BY <1>4, <1>6, <1>7, Zenon DEF part, more, end, ms

LEMMA PieceOfEvent ==
  ASSUME NEW item, IsEvent(item), NEW at
  PROVE  LET piece == Piece(item, at) IN
         /\ piece \in Seq(Nat) /\ FrameTag(piece) = item.tag
         /\ ServerDecode(FrameTag(piece), FrameBody(piece)) = Said(item)
<1>1. Piece(item, at) = Framed(item.tag, BodyOf(item))
  BY EventNotSnapshot, EncodeIs, Zenon DEF Piece
<1>2. item.tag \in Nat /\ BodyOf(item) \in Seq(Nat) /\ ServerDecode(item.tag, BodyOf(item)) = Said(item)
  <2>1. IsFrame(item) /\ item.tag \in ServerTags
    BY DEF IsEvent, ServerTags
  <2> QED
    BY <2>1, ServerCodec
<1> DEFINE x == BodyOf(item)
<1> HIDE DEF x
<1>3. /\ Framed(item.tag, x) \in Seq(Nat) /\ FrameTag(Framed(item.tag, x)) = item.tag
      /\ FrameBody(Framed(item.tag, x)) = x
  BY <1>2, FramedFacts, Zenon DEF x
<1> QED
  BY <1>1, <1>2, <1>3, Zenon DEF x

-----------------------------------------------------------------------------
\* A step along the trail.
LEMMA AdvanceFacts ==
  ASSUME NEW q \in Seq(Items), NEW pos, Position(q, pos), pos[1] < Len(q)
  PROVE  /\ Position(q, Advance(ItemAt(q, pos), pos))
         /\ ItemAt(q, pos) \in Items
         /\ IsEvent(ItemAt(q, pos)) => pos[2] = 0
         /\ IsSnapshot(ItemAt(q, pos)) => pos[2] \in 0 .. Len(ItemAt(q, pos).members)
<1> DEFINE item == ItemAt(q, pos)
           end == ChunkEnd(item.members, pos[2])
           next == Advance(item, pos)
<1>1. pos \in Nat \X Nat /\ pos[1] \in Nat /\ pos[2] \in Nat /\ Len(q) \in Nat
  BY DEF Position
<1>2. item \in Items
  BY <1>1 DEF ItemAt
<1>3. /\ pos[2] # 0 => item.tag = SNAPSHOT /\ pos[2] < Len(item.members)
  BY DEF Position
<1>4. Position(q, <<pos[1] + 1, 0>>)
  BY <1>1 DEF Position
<1>5. IsEvent(item) => pos[2] = 0
  BY <1>3, EventNotSnapshot, Zenon
<1> HIDE DEF item
<1>6. ASSUME IsSnapshot(item) PROVE pos[2] \in 0 .. Len(item.members)
  <2>1. Len(item.members) \in Nat
    BY <1>6 DEF IsSnapshot
  <2> QED
    BY <1>1, <1>3, <2>1
<1>7. Position(q, next)
  <2>1. CASE item.tag = SNAPSHOT /\ More(item.members, pos[2], end)
    <3>1. next = <<pos[1], end>>
      BY <2>1, Zenon DEF Advance
    <3>2. IsSnapshot(item)
      BY <1>2, <2>1, ItemFacts, EventNotSnapshot, Zenon
    <3>3. Len(item.members) \in Nat /\ pos[2] \in 0 .. Len(item.members)
      <4>1. item.members \in Seq(Member)
        BY <3>2, Zenon DEF IsSnapshot
      <4>2. Len(item.members) \in Nat
        BY <4>1
      <4> QED
        BY <1>6, <3>2, <4>2, Zenon
    <3>4. end \in pos[2] .. Len(item.members) /\ (pos[2] < Len(item.members) => end > pos[2])
      BY <3>3, ChunkEndFacts, Zenon
    <3>5. end < Len(item.members)
      BY <2>1, Zenon DEF More
    <3> HIDE DEF end
    <3>6. end \in Nat /\ end # 0
      BY <1>1, <3>3, <3>4, <3>5
    <3> DEFINE p == <<pos[1], end>>
    <3>7. p \in Nat \X Nat /\ p[1] = pos[1] /\ p[2] = end
      BY <1>1, <3>6
    <3>8. ItemAt(q, p) = item
      BY <3>7, Zenon DEF ItemAt, item
    <3>9. pos[1] <= Len(q)
      BY <1>1
    <3> HIDE DEF p
    <3>10. Position(q, p)
      BY <2>1, <3>5, <3>7, <3>8, <3>9, Zenon DEF Position
    <3> QED
      BY <3>1, <3>10, Zenon DEF p
  <2>2. CASE ~(item.tag = SNAPSHOT /\ More(item.members, pos[2], end))
    <3>1. next = <<pos[1] + 1, 0>>
      BY <2>2, Zenon DEF Advance
    <3> QED
      BY <1>4, <3>1, Zenon
  <2> QED
    BY <2>1, <2>2, Zenon
<1> QED
  BY <1>2, <1>5, <1>6, <1>7, Zenon DEF item

LEMMA PieceFacts ==
  ASSUME NEW q \in Seq(Items), NEW pos, Position(q, pos), pos[1] < Len(q)
  PROVE  Piece(ItemAt(q, pos), pos[2]) \in Seq(Nat)
<1> DEFINE item == ItemAt(q, pos)
<1>1. IsSnapshot(item) \/ IsEvent(item)
  BY AdvanceFacts, ItemFacts, Zenon
<1>2. IsSnapshot(item) => pos[2] \in 0 .. Len(item.members)
  BY AdvanceFacts, Zenon
<1> HIDE DEF item
<1> QED
  BY <1>1, <1>2, PieceOfSnapshot, PieceOfEvent, Zenon DEF item

\* The steps of the session stream.
LEMMA QueueKeeps ==
  ASSUME Flowing, NEW item \in Items, Queue(item)
  PROVE  Flowing'
<1>1. /\ queued \in Seq(Items) /\ wire \in Seq(Seq(Nat)) /\ SessionType
  BY Zenon DEF Flowing, SessionType
<1>2. PICK path \in [0 .. Len(wire) -> Nat \X Nat] : SessionOk(path)
  BY Zenon DEF Flowing
<1>3. queued' = Append(queued, item) /\ UNCHANGED <<written, start, wire, lost, partial, inbox>>
  BY Zenon DEF Queue
<1>4. queued' \in Seq(Items) /\ Len(queued') = Len(queued) + 1 /\ Len(queued) \in Nat
      /\ \A i \in 1 .. Len(queued) : queued'[i] = queued[i]
  BY <1>1, <1>3
<1>5. SessionType'
  BY <1>1, <1>3, <1>4, Zenon DEF SessionType
<1>6. ASSUME NEW pos, Position(queued, pos)
      PROVE  /\ Position(queued', pos)
             /\ pos[1] < Len(queued) => ItemAt(queued', pos) = ItemAt(queued, pos) /\ pos[1] < Len(queued')
  <2>1. pos \in Nat \X Nat /\ pos[1] \in Nat /\ pos[1] <= Len(queued)
    BY <1>6 DEF Position
  <2>2. pos[1] < Len(queued) => ItemAt(queued', pos) = ItemAt(queued, pos) /\ pos[1] < Len(queued')
    BY <1>4, <2>1, SMTT(20), ZenonT(20), SMTT(30) DEF ItemAt
  <2>3. pos[1] <= Len(queued')
    BY <1>4, <2>1
  <2> QED
    BY <1>6, <2>1, <2>2, <2>3, Zenon DEF Position
<1>7. Trail(path, queued', wire)
  <2>1. Trail(path, queued, wire)
    BY <1>2, Zenon DEF SessionOk
  <2>2. \A k \in 1 .. Len(wire) : k - 1 \in 0 .. Len(wire)
    BY <1>1
  <2>3. ASSUME NEW k \in 1 .. Len(wire)
        PROVE  /\ path[k - 1][1] < Len(queued')
               /\ wire[k] = Piece(ItemAt(queued', path[k - 1]), path[k - 1][2])
               /\ path[k] = Advance(ItemAt(queued', path[k - 1]), path[k - 1])
    BY <1>6, <2>1, <2>2, Zenon DEF Trail
  <2> QED
    BY <1>6, <2>1, <2>3, Zenon DEF Trail
<1>8. 0 \in 0 .. Len(wire)
  BY <1>1
<1>9. Position(queued, path[0]) /\ Inbox(queued, path[0], inbox) /\ Merged(queued, path[0], partial)
  BY <1>2, <1>8, Zenon DEF SessionOk, Trail
<1>10. Inbox(queued', path[0], inbox)
  <2>1. path[0][1] <= Len(queued) /\ path[0][1] \in Nat
    BY <1>9 DEF Position
  <2> QED
    BY <1>4, <1>9, <2>1 DEF Inbox
<1>11. Merged(queued', path[0], partial)
  <2>1. path[0][2] # 0 => path[0][1] < Len(queued)
    BY <1>9, Zenon DEF Position
  <2>2. path[0][2] # 0 => ItemAt(queued', path[0]) = ItemAt(queued, path[0])
    BY <1>6, <1>9, <2>1, Zenon
  <2> QED
    BY <1>9, <2>2, Zenon DEF Merged
<1>12. SessionOk(path)'
  BY <1>2, <1>3, <1>7, <1>10, <1>11, Zenon DEF SessionOk
<1>13. path \in [0 .. Len(wire') -> Nat \X Nat]
  BY <1>3, Zenon
<1> QED
  BY <1>5, <1>12, <1>13, Zenon DEF Flowing

\* The writer appends the piece of its position.
LEMMA WriteKeeps ==
  ASSUME Flowing, NEW piece, NEW pos,
         ~lost, written < Len(queued),
         piece = Piece(ItemAt(queued, <<written, start>>), start),
         pos = Advance(ItemAt(queued, <<written, start>>), <<written, start>>),
         wire' = Append(wire, piece), <<written', start'>> = pos,
         UNCHANGED <<queued, lost, partial, inbox>>
  PROVE  Flowing'
<1>1. queued \in Seq(Items) /\ wire \in Seq(Seq(Nat)) /\ SessionType
  BY Zenon DEF Flowing, SessionType
<1>2. PICK path \in [0 .. Len(wire) -> Nat \X Nat] : SessionOk(path)
  BY Zenon DEF Flowing
<1> DEFINE w == Len(wire)
           here == <<written, start>>
<1>3. w \in Nat /\ w \in 0 .. w /\ 0 \in 0 .. w
  BY <1>1
<1>4. path[w] = here /\ Trail(path, queued, wire)
  BY <1>2, Zenon DEF SessionOk
<1>5. Position(queued, here)
  BY <1>3, <1>4, Zenon DEF Trail
<1>6. here[1] = written /\ here[2] = start
  OBVIOUS
<1> HIDE DEF here
<1>7. piece = Piece(ItemAt(queued, here), here[2]) /\ pos = Advance(ItemAt(queued, here), here) /\ here[1] < Len(queued)
  BY <1>6, Zenon DEF here
<1>8. piece \in Seq(Nat) /\ Position(queued, pos)
  BY <1>1, <1>5, <1>7, PieceFacts, AdvanceFacts, Zenon
<1>9. pos \in Nat \X Nat
  BY <1>8, Zenon DEF Position
<1>10. /\ wire' \in Seq(Seq(Nat)) /\ Len(wire') = w + 1
       /\ \A k \in 1 .. w : wire'[k] = wire[k]
       /\ wire'[w + 1] = piece
  BY <1>1, <1>8
<1>12. PICK p \in [0 .. w + 1 -> Nat \X Nat] : p[w + 1] = pos /\ \A k \in 0 .. w : p[k] = path[k]
  <2> DEFINE f == [k \in 0 .. w + 1 |-> IF k = w + 1 THEN pos ELSE path[k]]
  <2>1. \A k \in 0 .. w + 1 : k # w + 1 => k \in 0 .. w
    BY <1>3
  <2>2. f \in [0 .. w + 1 -> Nat \X Nat]
    BY <1>9, <2>1
  <2>3. f[w + 1] = pos /\ \A k \in 0 .. w : f[k] = path[k]
    BY <1>3
  <2> HIDE DEF f, w
  <2> QED
    BY <2>2, <2>3, Zenon
<1>11. p \in [0 .. Len(wire') -> Nat \X Nat]
  BY <1>10, <1>12, Zenon
<1> HIDE DEF w
<1>13. Trail(p, queued, wire')
  <2>1. ASSUME NEW k \in 0 .. Len(wire') PROVE Position(queued, p[k])
    <3>1. k = w + 1 \/ k \in 0 .. w
      BY <1>3, <1>10
    <3> QED
      BY <1>4, <1>8, <1>12, <3>1, Zenon DEF Trail, w
  <2>2. ASSUME NEW k \in 1 .. Len(wire')
        PROVE  /\ p[k - 1][1] < Len(queued)
               /\ wire'[k] = Piece(ItemAt(queued, p[k - 1]), p[k - 1][2])
               /\ p[k] = Advance(ItemAt(queued, p[k - 1]), p[k - 1])
    <3>1. CASE k = w + 1
      <4>1. k - 1 = w
        BY <1>3, <3>1
      <4> QED
        BY <1>3, <1>4, <1>7, <1>10, <1>12, <3>1, <4>1, Zenon
    <3>2. CASE k # w + 1
      <4>1. k \in 1 .. w /\ k - 1 \in 0 .. w /\ k \in 0 .. w
        BY <1>3, <1>10, <3>2
      <4> QED
        BY <1>4, <1>10, <1>12, <4>1, Zenon DEF Trail, w
    <3> QED
      BY <3>1, <3>2
  <2> QED
    BY <2>1, <2>2, Zenon DEF Trail
<1>14. p[0] = path[0]
  BY <1>3, <1>12
<1>15. p[Len(wire')] = <<written', start'>>
  BY <1>10, <1>12, Zenon
<1>16. SessionOk(p)'
  <2>1. /\ Inbox(queued, path[0], inbox) /\ Merged(queued, path[0], partial)
    BY <1>2, Zenon DEF SessionOk
  <2>2. queued' = queued /\ inbox' = inbox /\ partial' = partial
    OBVIOUS
  <2> QED
    BY <1>13, <1>14, <1>15, <2>1, <2>2, Zenon DEF SessionOk
<1>17. SessionType'
  <2>1. queued' = queued /\ inbox' = inbox /\ partial' = partial /\ lost' = lost
    OBVIOUS
  <2> QED
    BY <1>1, <1>10, <2>1, Zenon DEF SessionType
<1> QED
  BY <1>11, <1>16, <1>17, Zenon DEF Flowing

LEMMA EventKeeps ==
  ASSUME Flowing, WriteEvent
  PROVE  Flowing'
<1> DEFINE here == <<written, start>>
           item == queued[written + 1]
<1>1. ~lost /\ written < Len(queued) /\ item.tag # SNAPSHOT
  BY Zenon DEF WriteEvent, MayWrite, Busy
<1>2. ItemAt(queued, here) = item
  BY DEF ItemAt
<1>3. wire' = Append(wire, Piece(item, start))
  BY <1>1, Zenon DEF WriteEvent, Piece
<1>4. start = 0
  <2>1. PICK path \in [0 .. Len(wire) -> Nat \X Nat] : SessionOk(path)
    BY Zenon DEF Flowing
  <2>2. Len(wire) \in 0 .. Len(wire)
    <3>1. wire \in Seq(Seq(Nat))
      BY Zenon DEF Flowing, SessionType
    <3> QED
      BY <3>1
  <2>3. Position(queued, here)
    BY <1>1, <2>1, <2>2, Zenon DEF SessionOk, Trail
  <2>4. here[2] = start
    OBVIOUS
  <2> HIDE DEF here, item
  <2> QED
    BY <1>1, <1>2, <2>3, <2>4, Zenon DEF Position
<1>5. Advance(item, here) = <<written + 1, 0>>
  BY <1>1 DEF Advance
<1>6. written' = written + 1 /\ start' = start /\ UNCHANGED <<queued, lost, partial, inbox>>
  BY DEF WriteEvent
<1>7. <<written', start'>> = <<written + 1, 0>>
  BY <1>4, <1>6
<1> HIDE DEF item
<1> QED
  BY <1>1, <1>2, <1>3, <1>5, <1>6, <1>7, WriteKeeps, Zenon

LEMMA ChunkKeeps ==
  ASSUME Flowing, WriteChunk
  PROVE  Flowing'
<1> DEFINE here == <<written, start>>
           item == queued[written + 1]
           end == ChunkEnd(item.members, start)
           more == More(item.members, start, end)
<1>1. ~lost /\ written < Len(queued) /\ item.tag = SNAPSHOT
  BY Zenon DEF WriteChunk, MayWrite, Busy
<1>2. ItemAt(queued, here) = item
  BY DEF ItemAt
<1>3. wire' = Append(wire, Piece(item, start))
  BY <1>1, Zenon DEF WriteChunk, Piece
<1>4. here[1] = written /\ here[2] = start
  OBVIOUS
<1>5. /\ start' = IF more THEN end ELSE 0
      /\ written' = IF more THEN written ELSE written + 1
      /\ UNCHANGED <<queued, lost, partial, inbox>>
  BY Zenon DEF WriteChunk
<1>6. Advance(item, here) = IF more THEN <<written, end>> ELSE <<written + 1, 0>>
  <2> HIDE DEF here, item
  <2> QED
    BY <1>1, <1>4, Zenon DEF Advance
<1>7. <<written', start'>> = Advance(item, here)
  <2> HIDE DEF item, end, more, here
  <2> QED
    BY <1>5, <1>6, Zenon
<1> HIDE DEF item, end, more
<1> QED
  BY <1>1, <1>2, <1>3, <1>5, <1>7, WriteKeeps, Zenon

LEMMA LoseKeeps ==
  ASSUME Flowing, NEW n \in 0 .. Len(wire), Lose(n)
  PROVE  Flowing'
<1>1. queued \in Seq(Items) /\ wire \in Seq(Seq(Nat)) /\ SessionType
  BY Zenon DEF Flowing, SessionType
<1>2. PICK path \in [0 .. Len(wire) -> Nat \X Nat] : SessionOk(path)
  BY Zenon DEF Flowing
<1>3. lost' = TRUE /\ wire' = SubSeq(wire, 1, n) /\ queued' = queued /\ inbox' = inbox /\ partial' = partial
  BY DEF Lose
<1>4. wire' \in Seq(Seq(Nat)) /\ Len(wire') = n /\ \A k \in 1 .. n : wire'[k] = wire[k]
  BY <1>1, <1>3
<1>5. \A k \in 0 .. n : k \in 0 .. Len(wire) /\ (k # 0 => k \in 1 .. Len(wire) /\ k \in 1 .. n /\ k - 1 \in 0 .. n)
  BY <1>1
<1>6. PICK p \in [0 .. n -> Nat \X Nat] : \A k \in 0 .. n : p[k] = path[k]
  <2> DEFINE f == [k \in 0 .. n |-> path[k]]
  <2>1. f \in [0 .. n -> Nat \X Nat] /\ \A k \in 0 .. n : f[k] = path[k]
    BY <1>5
  <2> HIDE DEF f
  <2> QED
    BY <2>1, Zenon
<1>7. Trail(p, queued, wire')
  <2>1. Trail(path, queued, wire)
    BY <1>2, Zenon DEF SessionOk
  <2>2. ASSUME NEW k \in 0 .. Len(wire') PROVE Position(queued, p[k])
    BY <1>4, <1>5, <1>6, <2>1, Zenon DEF Trail
  <2>3. ASSUME NEW k \in 1 .. Len(wire')
        PROVE  /\ p[k - 1][1] < Len(queued)
               /\ wire'[k] = Piece(ItemAt(queued, p[k - 1]), p[k - 1][2])
               /\ p[k] = Advance(ItemAt(queued, p[k - 1]), p[k - 1])
    <3>1. k \in 0 .. n /\ k # 0 /\ k \in 1 .. n
      BY <1>4
    <3>2. k \in 1 .. Len(wire) /\ k - 1 \in 0 .. n
      BY <1>5, <3>1, Zenon
    <3> QED
      BY <1>4, <1>6, <2>1, <3>1, <3>2, Zenon DEF Trail
  <2> QED
    BY <2>2, <2>3, Zenon DEF Trail
<1>8. p[0] = path[0]
  BY <1>6
<1>9. SessionOk(p)'
  BY <1>2, <1>3, <1>7, <1>8, Zenon DEF SessionOk
<1>10. SessionType'
  BY <1>1, <1>3, <1>4, Zenon DEF SessionType
<1>11. p \in [0 .. Len(wire') -> Nat \X Nat]
  BY <1>4, <1>6, Zenon
<1> QED
  BY <1>9, <1>10, <1>11, Zenon DEF Flowing

-----------------------------------------------------------------------------
\* What the client makes of the first frame in flight takes it to the next
\* position of the trail.
LEMMA PumpEvent ==
  ASSUME NEW q \in Seq(Items), NEW pos, Position(q, pos), pos[1] < Len(q), IsEvent(ItemAt(q, pos)),
         SessionType, Inbox(q, pos, inbox), Merged(q, pos, partial), Pump,
         Head(wire) = Piece(ItemAt(q, pos), pos[2])
  PROVE  LET next == Advance(ItemAt(q, pos), pos) IN
         /\ Inbox(q, next, inbox') /\ Merged(q, next, partial')
         /\ inbox' \in Seq({Said(x) : x \in Items}) /\ partial' \in [Topics -> Seq(Member)]
<1> DEFINE item == ItemAt(q, pos)
           frame == ServerDecode(FrameTag(Head(wire)), FrameBody(Head(wire)))
           next == Advance(item, pos)
<1>1. frame = Said(item)
  BY PieceOfEvent, Zenon
<1>2. item.tag \in {JOINED, LEFT, PRESENCE, ERROR} /\ item.tag # SNAPSHOT
  BY EventNotSnapshot, Zenon DEF IsEvent
<1>3. Said(item).tag = item.tag
  BY DEF Said, With
<1>4. pos[2] = 0 /\ item \in Items
  BY AdvanceFacts, Zenon
<1>5. pos \in Nat \X Nat
  BY Zenon DEF Position
<1> HIDE DEF item
<1>6. next = <<pos[1] + 1, 0>>
  BY <1>2, Zenon DEF Advance
<1>7. frame.tag # SNAPSHOT /\ frame.tag \notin {Malformed.tag, DELIVER}
  BY <1>1, <1>2, <1>3 DEF Malformed, DELIVER, SNAPSHOT, JOINED, LEFT, PRESENCE, ERROR
<1>8. inbox' = Append(inbox, Said(item)) /\ partial' = partial
  <2>1. IF frame.tag = SNAPSHOT THEN Merge(frame)
        ELSE /\ inbox' = IF HandsOut(frame) THEN Append(inbox, frame) ELSE inbox
             /\ UNCHANGED partial
    BY Zenon DEF Pump, Arriving
  <2> HIDE DEF frame
  <2>2. HandsOut(frame)
    BY <1>7, Zenon DEF HandsOut
  <2> QED
    BY <1>1, <1>7, <2>1, <2>2, Zenon
<1>9. inbox \in Seq({Said(x) : x \in Items}) /\ partial \in [Topics -> Seq(Member)]
  BY Zenon DEF SessionType
<1>10. next[1] = pos[1] + 1 /\ next[2] = 0
  BY <1>6
<1> HIDE DEF next, frame
<1>11. Said(item) \in {Said(x) : x \in Items}
  BY <1>4
<1>12. Inbox(q, next, inbox')
  <2> DEFINE S == {Said(x) : x \in Items}
             y == Said(item)
  <2>1. q[pos[1] + 1] = item
    BY DEF item, ItemAt
  <2>2. inbox \in Seq(S) /\ y \in S
    BY <1>9, <1>11
  <2> HIDE DEF S, y
  <2>3. inbox' = Append(inbox, y)
    BY <1>8 DEF y
  <2>4. Len(inbox') = Len(inbox) + 1 /\ Len(inbox) \in Nat /\ (\A i \in 1 .. Len(inbox) : inbox'[i] = inbox[i])
        /\ inbox'[Len(inbox) + 1] = y
    BY <2>2, <2>3
  <2>5. Len(inbox) = pos[1] /\ \A i \in 1 .. Len(inbox) : inbox[i] = Said(q[i])
    BY Zenon DEF Inbox
  <2>6. ASSUME NEW i \in 1 .. Len(inbox') PROVE inbox'[i] = Said(q[i])
    <3>1. i \in 1 .. Len(inbox) \/ i = Len(inbox) + 1
      BY <2>4
    <3> QED
      BY <2>1, <2>4, <2>5, <3>1, Zenon DEF y
  <2> QED
    BY <1>10, <2>4, <2>5, <2>6, Zenon DEF Inbox
<1>13. Merged(q, next, partial')
  BY <1>4, <1>8, <1>10, Zenon DEF Merged
<1>14. inbox' \in Seq({Said(x) : x \in Items})
  <2> DEFINE S == {Said(x) : x \in Items}
             y == Said(item)
  <2>1. inbox \in Seq(S) /\ y \in S /\ inbox' = Append(inbox, y)
    BY <1>8, <1>9, <1>11
  <2> HIDE DEF S, y
  <2>2. inbox' \in Seq(S)
    BY <2>1
  <2> QED
    BY <2>2 DEF S
<1>15. partial' \in [Topics -> Seq(Member)]
  BY <1>8, <1>9, Zenon
<1> QED
  BY <1>12, <1>13, <1>14, <1>15, Zenon DEF next, item

\* Two adjacent parts of a sequence.
LEMMA Adjacent ==
  ASSUME NEW B, NEW ms \in Seq(B), NEW a \in 0 .. Len(ms), NEW e \in a .. Len(ms)
  PROVE  /\ SubSeq(ms, 1, a) \o SubSeq(ms, a + 1, e) = SubSeq(ms, 1, e)
         /\ SubSeq(ms, 1, e) \in Seq(B) /\ Len(SubSeq(ms, 1, e)) = e
<1> DEFINE x == SubSeq(ms, 1, a)
           y == SubSeq(ms, a + 1, e)
           z == SubSeq(ms, 1, e)
<1>1. x \in Seq(B) /\ Len(x) = a /\ \A i \in 1 .. a : x[i] = ms[i]
  OBVIOUS
<1>2. y \in Seq(B) /\ Len(y) = e - a /\ \A i \in 1 .. e - a : y[i] = ms[a + i]
  OBVIOUS
<1>3. z \in Seq(B) /\ Len(z) = e /\ \A i \in 1 .. e : z[i] = ms[i]
  OBVIOUS
<1> HIDE DEF x, y, z
<1>4. /\ x \o y \in Seq(B)
      /\ Len(x \o y) = Len(x) + Len(y)
      /\ \A i \in 1 .. Len(x) + Len(y) : (x \o y)[i] = IF i <= Len(x) THEN x[i] ELSE y[i - Len(x)]
  BY <1>1, <1>2, ConcatProperties, Zenon
<1> DEFINE w == x \o y
<1>5. w \in Seq(B) /\ Len(w) = e
  BY <1>1, <1>2, <1>4
<1>6. \A i \in 1 .. e : w[i] = IF i <= a THEN x[i] ELSE y[i - a]
  <2>1. Len(x) + Len(y) = e
    BY <1>1, <1>2
  <2> QED
    BY <1>1, <1>4, <2>1, Zenon
<1> HIDE DEF w
<1>7. \A i \in 1 .. Len(w) : w[i] = z[i]
  <2> SUFFICES ASSUME NEW i \in 1 .. e PROVE w[i] = z[i]
    BY <1>5
  <2>1. CASE i <= a
    BY <1>1, <1>3, <1>6, <2>1
  <2>2. CASE ~(i <= a)
    <3>1. i - a \in 1 .. e - a /\ a + (i - a) = i
      BY <2>2
    <3> QED
      BY <1>2, <1>3, <1>6, <2>2, <3>1, Zenon
  <2> QED
    BY <2>1, <2>2
<1>8. w = z
  BY <1>3, <1>5, <1>7, SeqEqual
<1> QED
  BY <1>3, <1>8, Zenon DEF w, x, y, z

LEMMA PumpChunk ==
  ASSUME NEW q \in Seq(Items), NEW pos, Position(q, pos), pos[1] < Len(q), IsSnapshot(ItemAt(q, pos)),
         SessionType, Inbox(q, pos, inbox), Merged(q, pos, partial), Pump,
         Head(wire) = Piece(ItemAt(q, pos), pos[2])
  PROVE  LET next == Advance(ItemAt(q, pos), pos) IN
         /\ Inbox(q, next, inbox') /\ Merged(q, next, partial')
         /\ inbox' \in Seq({Said(x) : x \in Items}) /\ partial' \in [Topics -> Seq(Member)]
<1> DEFINE item == ItemAt(q, pos)
           t == item.topic
           ms == item.members
           at == pos[2]
           end == ChunkEnd(ms, at)
           more == More(ms, at, end)
           part == SubSeq(ms, at + 1, end)
           frame == ServerDecode(FrameTag(Head(wire)), FrameBody(Head(wire)))
           next == Advance(item, pos)
           upto == SubSeq(ms, 1, end)
<1>1. item \in Items /\ at \in 0 .. Len(ms) /\ (at # 0 => at < Len(ms))
  BY AdvanceFacts, Zenon DEF Position
<1>2. frame = Snapshot(t, more, part)
  BY <1>1, PieceOfSnapshot, Zenon
<1>3. /\ item.tag = SNAPSHOT /\ t \in Topics /\ ms \in Seq(Member) /\ Len(ms) <= MaxMembers
      /\ item = Snapshot(t, FALSE, ms)
  BY Zenon DEF IsSnapshot
<1>4. pos \in Nat \X Nat /\ pos[1] \in Nat /\ q[pos[1] + 1] = item
  BY DEF Position, ItemAt
<1> HIDE DEF item
<1>5. Len(ms) \in Nat
  BY <1>3
<1>6. end \in at .. Len(ms) /\ (at < Len(ms) => end > at)
  BY <1>1, <1>5, ChunkEndFacts, Zenon
<1>7. more <=> end < Len(ms)
  BY Zenon DEF More
<1>8. next = IF more THEN <<pos[1], end>> ELSE <<pos[1] + 1, 0>>
  BY <1>3, Zenon DEF Advance
<1>9. /\ inbox \in Seq({Said(x) : x \in Items}) /\ partial \in [Topics -> Seq(Member)]
  BY Zenon DEF SessionType
<1>10. Len(inbox) = pos[1] /\ \A i \in 1 .. Len(inbox) : inbox[i] = Said(q[i])
  BY Zenon DEF Inbox
<1> HIDE DEF at, end, ms, t
<1>11. more \in BOOLEAN
  BY DEF More
<1> HIDE DEF more
<1>12. \A u \in Topics : partial[u] = IF u = t THEN SubSeq(ms, 1, at) ELSE <<>>
  <2>1. \A u \in Topics : partial[u] = IF at # 0 /\ t = u THEN SubSeq(ms, 1, at) ELSE <<>>
    BY Zenon DEF Merged, item, ms, t, at
  <2>2. at = 0 => SubSeq(ms, 1, at) = <<>>
    BY <1>3
  <2> QED
    BY <2>1, <2>2, Zenon
<1>13. partial[t] \o part = upto
  <2>1. partial[t] = SubSeq(ms, 1, at)
    BY <1>3, <1>12, Zenon
  <2> QED
    BY <1>1, <1>3, <1>6, <2>1, Adjacent, Zenon
<1>14. upto \in Seq(Member) /\ Len(upto) = end
  BY <1>1, <1>3, <1>6, Adjacent, Zenon
<1> HIDE DEF part, upto
<1>15. ~Oversized(upto)
  <2>1. MaxMembers \in Nat
    BY StreamAssumption
  <2> QED
    BY <1>1, <1>3, <1>5, <1>6, <1>14, <2>1, SMTT(20) DEF Oversized
<1>16. /\ partial' = [partial EXCEPT ![t] = IF more THEN upto ELSE <<>>]
       /\ inbox' = IF ~more THEN Append(inbox, Snapshot(t, FALSE, upto)) ELSE inbox
  <2>1. frame.tag = SNAPSHOT /\ frame.topic = t /\ frame.more = more /\ frame.members = part
    BY <1>2 DEF Snapshot
  <2>2. IF frame.tag = SNAPSHOT THEN Merge(frame)
        ELSE /\ inbox' = IF HandsOut(frame) THEN Append(inbox, frame) ELSE inbox
             /\ UNCHANGED partial
    BY Zenon DEF Pump, Arriving
  <2> HIDE DEF frame
  <2>3. Merge(frame)
    BY <2>1, <2>2, Zenon
  <2>4. /\ partial' = [partial EXCEPT ![t] = IF more /\ ~Oversized(upto) THEN upto ELSE <<>>]
        /\ inbox' = IF ~more /\ ~Oversized(upto) THEN Append(inbox, Snapshot(t, FALSE, upto)) ELSE inbox
    BY <1>13, <2>1, <2>3, Zenon DEF Merge, HandsOut
  <2> QED
    BY <1>15, <2>4, Zenon
<1>17. CASE more
  <2>1. next = <<pos[1], end>> /\ end < Len(ms)
    BY <1>7, <1>8, <1>17, Zenon
  <2>2. next[1] = pos[1] /\ next[2] = end
    BY <2>1
  <2>3. end # 0
    BY <1>1, <1>5, <1>6, <2>1
  <2>4. inbox' = inbox /\ partial' = [partial EXCEPT ![t] = upto]
    BY <1>16, <1>17, Zenon
  <2> HIDE DEF next
  <2>5. Inbox(q, next, inbox')
    BY <1>10, <2>2, <2>4, Zenon DEF Inbox
  <2>6. \A u \in Topics : partial'[u] = IF u = t THEN upto ELSE <<>>
    BY <1>9, <1>12, <2>4
  <2>7. ItemAt(q, next) = item
    BY <1>4, <2>2, Zenon DEF ItemAt
  <2>8. Merged(q, next, partial')
    BY <2>2, <2>3, <2>6, <2>7, Zenon DEF Merged, upto, t, ms
  <2>9. partial' \in [Topics -> Seq(Member)]
    BY <1>9, <1>14, <2>4, Zenon
  <2> QED
    BY <1>9, <2>4, <2>5, <2>8, <2>9, Zenon DEF next, item
<1>18. CASE ~more
  <2>1. next = <<pos[1] + 1, 0>>
    BY <1>8, <1>18, Zenon
  <2>2. next[1] = pos[1] + 1 /\ next[2] = 0
    BY <2>1
  <2>3. end = Len(ms)
    BY <1>1, <1>5, <1>6, <1>7, <1>18
  <2>4. upto = ms
    BY <1>3, <2>3 DEF upto
  <2>5. Said(item) = item /\ item = Snapshot(t, FALSE, upto)
    <3>1. item.tag # ERROR
      BY <1>3 DEF SNAPSHOT, ERROR
    <3> QED
      BY <1>3, <2>4, <3>1, Zenon DEF Said
  <2>6. inbox' = Append(inbox, Said(item)) /\ partial' = [partial EXCEPT ![t] = <<>>]
    BY <1>16, <1>18, <2>5, Zenon
  <2> HIDE DEF next
  <2> DEFINE S == {Said(x) : x \in Items}
             y == Said(item)
  <2>7. inbox \in Seq(S) /\ y \in S /\ inbox' = Append(inbox, y)
    BY <1>1, <1>9, <2>6, SMTT(20)
  <2> HIDE DEF S, y
  <2>8. Len(inbox') = Len(inbox) + 1 /\ Len(inbox) \in Nat /\ (\A i \in 1 .. Len(inbox) : inbox'[i] = inbox[i])
        /\ inbox'[Len(inbox) + 1] = y /\ inbox' \in Seq(S)
    BY <2>7
  <2>9. ASSUME NEW i \in 1 .. Len(inbox') PROVE inbox'[i] = Said(q[i])
    <3>1. i \in 1 .. Len(inbox) \/ i = Len(inbox) + 1
      BY <2>8
    <3> QED
      BY <1>4, <1>10, <2>8, <3>1, Zenon DEF y
  <2>10. Inbox(q, next, inbox')
    BY <1>10, <2>2, <2>8, <2>9, Zenon DEF Inbox
  <2>11. \A u \in Topics : partial'[u] = <<>>
    BY <1>9, <1>12, <2>6
  <2>12. Merged(q, next, partial')
    BY <2>2, <2>11, Zenon DEF Merged
  <2>13. partial' \in [Topics -> Seq(Member)]
    <3>1. <<>> \in Seq(Member)
      OBVIOUS
    <3> QED
      BY <1>9, <2>6, <3>1, Zenon
  <2> QED
    BY <2>8, <2>10, <2>12, <2>13, Zenon DEF next, item, S
<1> QED
  BY <1>17, <1>18

LEMMA PumpKeeps ==
  ASSUME Flowing, Pump
  PROVE  Flowing'
<1>1. queued \in Seq(Items) /\ wire \in Seq(Seq(Nat)) /\ SessionType
  BY Zenon DEF Flowing, SessionType
<1>2. PICK path \in [0 .. Len(wire) -> Nat \X Nat] : SessionOk(path)
  BY Zenon DEF Flowing
<1>3. wire # <<>> /\ wire' = Tail(wire) /\ UNCHANGED <<queued, written, start, lost>>
  BY Zenon DEF Pump, Arrived
<1> DEFINE w == Len(wire)
<1>4. w \in Nat /\ w # 0 /\ Head(wire) = wire[1]
  BY <1>1, <1>3
<1>5. wire' \in Seq(Seq(Nat)) /\ Len(wire') = w - 1 /\ \A k \in 1 .. w - 1 : wire'[k] = wire[k + 1]
  BY <1>1, <1>3
<1>6. Trail(path, queued, wire) /\ Inbox(queued, path[0], inbox) /\ Merged(queued, path[0], partial)
  BY <1>2, Zenon DEF SessionOk
<1> DEFINE pos == path[0]
<1>7. 0 \in 0 .. w /\ 1 \in 1 .. w /\ 1 - 1 = 0
  BY <1>4
<1>8. /\ Position(queued, pos) /\ pos[1] < Len(queued)
      /\ Head(wire) = Piece(ItemAt(queued, pos), pos[2])
      /\ path[1] = Advance(ItemAt(queued, pos), pos)
  <2>1. Position(queued, path[0])
    BY <1>6, <1>7, Zenon DEF Trail
  <2>2. /\ path[1 - 1][1] < Len(queued)
        /\ wire[1] = Piece(ItemAt(queued, path[1 - 1]), path[1 - 1][2])
        /\ path[1] = Advance(ItemAt(queued, path[1 - 1]), path[1 - 1])
    BY <1>6, <1>7, Zenon DEF Trail
  <2> QED
    BY <1>4, <1>7, <2>1, <2>2, Zenon
<1>9. /\ Inbox(queued, path[1], inbox') /\ Merged(queued, path[1], partial')
      /\ inbox' \in Seq({Said(x) : x \in Items}) /\ partial' \in [Topics -> Seq(Member)]
  <2>1. ItemAt(queued, pos) \in Items
    BY <1>1, <1>8, AdvanceFacts, Zenon
  <2>2. IsSnapshot(ItemAt(queued, pos)) \/ IsEvent(ItemAt(queued, pos))
    BY <2>1, ItemFacts, Zenon
  <2>3. CASE IsSnapshot(ItemAt(queued, pos))
    BY <1>1, <1>6, <1>8, <2>3, PumpChunk, Zenon
  <2>4. CASE IsEvent(ItemAt(queued, pos))
    BY <1>1, <1>6, <1>8, <2>4, PumpEvent, Zenon
  <2> QED
    BY <2>2, <2>3, <2>4, Zenon
<1> HIDE DEF w, pos
<1>10. \A k \in 0 .. w - 1 : k + 1 \in 0 .. w /\ k + 1 \in 1 .. w
  BY <1>4
<1>11. PICK p \in [0 .. w - 1 -> Nat \X Nat] : \A k \in 0 .. w - 1 : p[k] = path[k + 1]
  <2> DEFINE f == [k \in 0 .. w - 1 |-> path[k + 1]]
  <2>1. path \in [0 .. w -> Nat \X Nat]
    BY <1>2, Zenon DEF w
  <2>2. f \in [0 .. w - 1 -> Nat \X Nat] /\ \A k \in 0 .. w - 1 : f[k] = path[k + 1]
    BY <1>10, <2>1, Zenon
  <2> HIDE DEF f
  <2> QED
    BY <2>2, Zenon
<1>12. Trail(p, queued, wire')
  <2>1. ASSUME NEW k \in 0 .. Len(wire') PROVE Position(queued, p[k])
    BY <1>5, <1>6, <1>10, <1>11, Zenon DEF Trail, w
  <2>2. ASSUME NEW k \in 1 .. Len(wire')
        PROVE  /\ p[k - 1][1] < Len(queued)
               /\ wire'[k] = Piece(ItemAt(queued, p[k - 1]), p[k - 1][2])
               /\ p[k] = Advance(ItemAt(queued, p[k - 1]), p[k - 1])
    <3>1. k \in 1 .. w - 1
      BY <1>5, Zenon
    <3>2. k - 1 \in 0 .. w - 1 /\ k \in 0 .. w - 1 /\ (k - 1) + 1 = k /\ (k + 1) - 1 = k /\ k + 1 \in 1 .. w
      BY <1>4, <3>1
    <3>3. p[k - 1] = path[(k + 1) - 1] /\ p[k] = path[k + 1] /\ wire'[k] = wire[k + 1]
      BY <1>5, <1>11, <3>1, <3>2, Zenon
    <3>4. /\ path[(k + 1) - 1][1] < Len(queued)
          /\ wire[k + 1] = Piece(ItemAt(queued, path[(k + 1) - 1]), path[(k + 1) - 1][2])
          /\ path[k + 1] = Advance(ItemAt(queued, path[(k + 1) - 1]), path[(k + 1) - 1])
      BY <1>6, <3>2, Zenon DEF Trail, w
    <3> QED
      BY <3>3, <3>4, Zenon
  <2> QED
    BY <2>1, <2>2, Zenon DEF Trail
<1>13. p[0] = path[1] /\ p[Len(wire')] = path[w]
  <2>1. 0 \in 0 .. w - 1 /\ w - 1 \in 0 .. w - 1 /\ 0 + 1 = 1 /\ (w - 1) + 1 = w
    BY <1>4
  <2> QED
    BY <1>5, <1>11, <2>1, Zenon
<1>14. ~lost' => p[Len(wire')] = <<written', start'>>
  BY <1>2, <1>3, <1>13, Zenon DEF SessionOk, w
<1>15. queued' = queued /\ lost' = lost
  BY <1>3
<1>16. SessionOk(p)'
  BY <1>9, <1>12, <1>13, <1>14, <1>15, Zenon DEF SessionOk
<1>17. SessionType'
  BY <1>1, <1>5, <1>9, <1>15, Zenon DEF SessionType
<1>18. p \in [0 .. Len(wire') -> Nat \X Nat]
  BY <1>5, <1>11, Zenon
<1> QED
  BY <1>16, <1>17, <1>18, Zenon DEF Flowing

LEMMA SessionStarts ==
  ASSUME SessionInit
  PROVE  Flowing /\ pumping
<1> USE DEF SessionInit
<1>1. SessionType
  <2>1. queued \in Seq(Items) /\ wire \in Seq(Seq(Nat)) /\ inbox \in Seq({Said(item) : item \in Items}) /\ lost \in BOOLEAN
    <3> DEFINE S == {Said(item) : item \in Items}
    <3> HIDE DEF S
    <3>1. <<>> \in Seq(Items) /\ <<>> \in Seq(Seq(Nat)) /\ <<>> \in Seq(S)
      BY EmptySeq, Zenon
    <3>2. lost \in BOOLEAN
      BY Zenon
    <3> QED
      BY <3>1, <3>2, Zenon DEF S
  <2>2. <<>> \in Seq(Member)
    OBVIOUS
  <2>3. partial \in [Topics -> Seq(Member)]
    BY <2>2
  <2> QED
    BY <2>1, <2>3, Zenon DEF SessionType
<1>2. PICK path \in [0 .. 0 -> Nat \X Nat] : path[0] = <<0, 0>>
  <2> DEFINE f == [k \in 0 .. 0 |-> <<0, 0>>]
  <2>1. f \in [0 .. 0 -> Nat \X Nat] /\ f[0] = <<0, 0>>
    OBVIOUS
  <2> HIDE DEF f
  <2> QED
    BY <2>1, Zenon
<1>3. Len(wire) = 0 /\ Len(queued) = 0 /\ Len(inbox) = 0
  OBVIOUS
<1>4. path[0][1] = 0 /\ path[0][2] = 0 /\ path[0] \in Nat \X Nat
  BY <1>2
<1>5. Position(queued, path[0])
  BY <1>3, <1>4 DEF Position
<1>6. Trail(path, queued, wire)
  BY <1>3, <1>5 DEF Trail
<1>7. Inbox(queued, path[0], inbox)
  BY <1>3, <1>4 DEF Inbox
<1>8. Merged(queued, path[0], partial)
  BY <1>4 DEF Merged
<1>9. path[Len(wire)] = <<written, start>>
  BY <1>2, <1>3
<1>10. path \in [0 .. Len(wire) -> Nat \X Nat]
  BY <1>2, <1>3
<1> QED
  BY <1>1, <1>6, <1>7, <1>8, <1>9, <1>10, Zenon DEF Flowing, SessionOk

flow == <<queued, written, start, wire, lost, partial, inbox>>

LEMMA SessionStutters ==
  ASSUME Flowing, UNCHANGED flow
  PROVE  Flowing'
<1>1. /\ queued' = queued /\ written' = written /\ start' = start /\ wire' = wire
      /\ lost' = lost /\ partial' = partial /\ inbox' = inbox
  BY DEF flow
<1>2. PICK path \in [0 .. Len(wire) -> Nat \X Nat] : SessionOk(path)
  BY Zenon DEF Flowing
<1>3. SessionOk(path)'
  BY <1>1, <1>2, Zenon DEF SessionOk
<1>4. SessionType'
  BY <1>1, Zenon DEF Flowing, SessionType
<1>5. path \in [0 .. Len(wire') -> Nat \X Nat]
  BY <1>1, <1>2, Zenon
<1> QED
  BY <1>3, <1>4, <1>5, Zenon DEF Flowing

\* pump_frames ends with what it has handed out; nothing follows.
LEMMA EndsKeep ==
  ASSUME Flowing, PumpEnds
  PROVE  Stopped' /\ ~pumping'
<1>1. queued \in Seq(Items) /\ wire \in Seq(Seq(Nat)) /\ inbox \in Seq({Said(item) : item \in Items})
  BY Zenon DEF Flowing, SessionType
<1>2. PICK path \in [0 .. Len(wire) -> Nat \X Nat] : SessionOk(path)
  BY Zenon DEF Flowing
<1>3. 0 \in 0 .. Len(wire)
  BY <1>1
<1>4. Position(queued, path[0]) /\ Inbox(queued, path[0], inbox)
  BY <1>2, <1>3, Zenon DEF SessionOk, Trail
<1>5. Len(inbox) <= Len(queued) /\ \A i \in 1 .. Len(inbox) : inbox[i] = Said(queued[i])
  BY <1>4, Zenon DEF Position, Inbox
<1>6. queued' = queued /\ inbox' = inbox /\ pumping' = FALSE /\ partial' = [t \in Topics |-> <<>>]
  BY Zenon DEF PumpEnds
<1>7. \A t \in Topics : partial'[t] = <<>>
  BY <1>6
<1> QED
  BY <1>1, <1>5, <1>6, <1>7, Zenon DEF Stopped

LEMMA StoppedKeeps ==
  ASSUME Stopped, UNCHANGED <<inbox, partial>>,
         queued' = queued \/ \E item \in Items : queued' = Append(queued, item)
  PROVE  Stopped'
<1>1. queued \in Seq(Items) /\ inbox' = inbox /\ partial' = partial /\ Len(inbox) \in Nat
  BY LenProperties, Zenon DEF Stopped
<1>2. /\ queued' \in Seq(Items) /\ Len(queued) \in Nat /\ Len(queued) <= Len(queued')
      /\ \A i \in 1 .. Len(queued) : queued'[i] = queued[i]
  BY <1>1
<1>3. Len(inbox) <= Len(queued) /\ \A i \in 1 .. Len(inbox) : inbox[i] = Said(queued[i])
  BY Zenon DEF Stopped
<1>4. Len(inbox) <= Len(queued') /\ \A i \in 1 .. Len(inbox) : i \in 1 .. Len(queued)
  BY <1>1, <1>2, <1>3
<1>5. \A i \in 1 .. Len(inbox) : inbox[i] = Said(queued'[i])
  BY <1>2, <1>3, <1>4, Zenon
<1> QED
  BY <1>1, <1>2, <1>4, <1>5, Zenon DEF Stopped

\* The steps that leave pump_frames running.
LEMMA FlowingKeeps ==
  ASSUME Flowing,
         \/ \E item \in Items : Queue(item)
         \/ WriteEvent \/ WriteChunk \/ WriteFails \/ Pump \/ Receive \/ DropFrames
         \/ \E n \in 0 .. Len(wire) : Lose(n)
         \/ UNCHANGED session
  PROVE  Flowing' /\ pumping' = pumping
<1>1. CASE \E item \in Items : Queue(item)
  BY <1>1, QueueKeeps, Zenon DEF Queue
<1>2. CASE WriteEvent
  BY <1>2, EventKeeps, Zenon DEF WriteEvent
<1>3. CASE WriteChunk
  BY <1>3, ChunkKeeps, Zenon DEF WriteChunk
<1>4. CASE WriteFails
  BY <1>4, SessionStutters, Zenon DEF WriteFails, flow
<1>5. CASE Pump
  BY <1>5, PumpKeeps, Zenon DEF Pump
<1>6. CASE Receive
  BY <1>6, SessionStutters, Zenon DEF Receive, flow
<1>7. CASE DropFrames
  BY <1>7, SessionStutters, Zenon DEF DropFrames, flow
<1>8. CASE \E n \in 0 .. Len(wire) : Lose(n)
  BY <1>8, LoseKeeps, Zenon DEF Lose
<1>9. CASE UNCHANGED session
  BY <1>9, SessionStutters, Zenon DEF session, flow
<1> QED
  BY <1>1, <1>2, <1>3, <1>4, <1>5, <1>6, <1>7, <1>8, <1>9, Zenon

LEMMA SessionSteps ==
  ASSUME SessionInv,
         \/ \E item \in Items : Queue(item)
         \/ WriteEvent \/ WriteChunk \/ WriteFails \/ Pump \/ Receive \/ DropFrames
         \/ \E n \in 0 .. Len(wire) : Lose(n)
         \/ UNCHANGED session
         \/ PumpEnds
  PROVE  SessionInv'
<1>1. CASE pumping /\ PumpEnds
  BY <1>1, EndsKeep, Zenon DEF SessionInv
<1>2. CASE pumping /\ ~PumpEnds
  BY <1>2, FlowingKeeps, Zenon DEF SessionInv
<1>3. CASE ~pumping
  <2>1. /\ UNCHANGED <<inbox, partial, pumping>>
        /\ queued' = queued \/ \E item \in Items : queued' = Append(queued, item)
    BY <1>3, Zenon DEF Queue, WriteEvent, WriteChunk, WriteFails, Pump, Receive, DropFrames, Lose, session, PumpEnds
  <2> QED
    BY <1>3, <2>1, StoppedKeeps, Zenon DEF SessionInv
<1> QED
  BY <1>1, <1>2, <1>3

LEMMA CutKeeps ==
  ASSUME SessionInv, Cut
  PROVE  SessionInv'
BY SessionSteps, Zenon DEF Cut

LEMMA SessionKeeps ==
  ASSUME SessionInv, [Next]_vars
  PROVE  SessionInv'
<1>1. CASE UNCHANGED vars
  BY <1>1, SessionSteps, Zenon DEF vars
<1>2. CASE \E item \in Items : Push(item)
  BY <1>2, SessionSteps, Zenon DEF Push
<1>3. CASE WriteNext
  BY <1>3, SessionSteps, Zenon DEF WriteNext
<1>4. CASE PumpNext
  BY <1>4, SessionSteps, Zenon DEF PumpNext, PumpStep
<1>5. CASE ReceiveNext \/ DropNext
  BY <1>5, SessionSteps, Zenon DEF ReceiveNext, DropNext
<1>6. CASE LoseAll \/ StallNext
  BY <1>6, SessionSteps, Zenon DEF LoseAll, StallNext, Stall
<1>7. CASE \E s \in Streams : Read(s)
  BY <1>7, CutKeeps, SessionSteps, Zenon DEF Read
<1> QED
  BY <1>1, <1>2, <1>3, <1>4, <1>5, <1>6, <1>7, Zenon DEF Next

\* An inbox that agrees with the queue is the beginning of it.
LEMMA InboxPrefix ==
  ASSUME queued \in Seq(Items), inbox \in Seq({Said(item) : item \in Items}), Len(inbox) <= Len(queued),
         \A i \in 1 .. Len(inbox) : inbox[i] = Said(queued[i])
  PROVE  IsPrefix(inbox, [i \in DOMAIN queued |-> Said(queued[i])])
<1> DEFINE S == {Said(item) : item \in Items}
           all == [i \in DOMAIN queued |-> Said(queued[i])]
<1>1. DOMAIN queued = 1 .. Len(queued) /\ Len(queued) \in Nat /\ \A i \in 1 .. Len(queued) : queued[i] \in Items
  OBVIOUS
<1>2. \A i \in 1 .. Len(queued) : all[i] = Said(queued[i])
  BY <1>1
<1>3. all \in [1 .. Len(queued) -> S]
  BY <1>1
<1>4. inbox \in Seq(S)
  OBVIOUS
<1> HIDE DEF S, all
<1>5. all \in Seq(S) /\ Len(all) = Len(queued)
  BY <1>1, <1>3, SMTT(20), ZenonT(20), SMTT(30)
<1>6. Len(inbox) \in Nat /\ Len(inbox) <= Len(queued)
  BY <1>4, SMTT(20), ZenonT(20), SMTT(30)
<1>7. \A i \in 1 .. Len(inbox) : inbox[i] = all[i]
  BY <1>1, <1>2, <1>6, SMTT(20), ZenonT(20), SMTT(30)
<1> DEFINE n == Len(inbox)
           a == SubSeq(inbox, 1, n)
           b == SubSeq(all, 1, n)
<1>8. a \in Seq(S) /\ Len(a) = n /\ \A i \in 1 .. n : a[i] = inbox[i]
  BY <1>4
<1>9. b \in Seq(S) /\ Len(b) = n /\ \A i \in 1 .. n : b[i] = all[i]
  BY <1>1, <1>5, <1>6
<1> HIDE DEF n, a, b
<1>10. \A i \in 1 .. Len(a) : a[i] = b[i]
  BY <1>7, <1>8, <1>9, SMTT(20), ZenonT(20), SMTT(30) DEF n
<1>11. a = b
  BY <1>8, <1>9, <1>10, SeqEqual
<1>12. Len(inbox) <= Len(all)
  BY <1>5, <1>6
<1>13. IsPrefix(inbox, all)
  BY <1>11, <1>12, Zenon DEF IsPrefix, a, b, n
<1> QED
  BY <1>13, Zenon DEF all

LEMMA FlowingWhole ==
  ASSUME Flowing
  PROVE  SnapshotsArriveWhole
<1>1. queued \in Seq(Items) /\ wire \in Seq(Seq(Nat)) /\ inbox \in Seq({Said(item) : item \in Items})
  BY Zenon DEF Flowing, SessionType
<1>2. PICK path \in [0 .. Len(wire) -> Nat \X Nat] : SessionOk(path)
  BY Zenon DEF Flowing
<1> DEFINE pos == path[0]
<1>3. 0 \in 0 .. Len(wire)
  BY <1>1
<1>4. Position(queued, pos) /\ Inbox(queued, pos, inbox) /\ Merged(queued, pos, partial)
  BY <1>2, <1>3, Zenon DEF SessionOk, Trail
<1> HIDE DEF pos
<1>7. Len(inbox) <= Len(queued) /\ \A i \in 1 .. Len(inbox) : inbox[i] = Said(queued[i])
  BY <1>4, Zenon DEF Position, Inbox
<1>5. IsPrefix(inbox, [i \in DOMAIN queued |-> Said(queued[i])])
  BY <1>1, <1>7, InboxPrefix, Zenon
<1>6. ASSUME NEW t \in Topics, partial[t] # <<>>
      PROVE  LET next == queued[Len(inbox) + 1] IN
             next.tag = SNAPSHOT /\ next.topic = t /\ IsPrefix(partial[t], next.members)
  <2> DEFINE item == ItemAt(queued, pos)
             ms == item.members
  <2>1. pos[2] # 0 /\ item.topic = t /\ partial[t] = SubSeq(ms, 1, pos[2])
    BY <1>4, <1>6, Zenon DEF Merged
  <2>2. pos[1] < Len(queued) /\ item.tag = SNAPSHOT /\ pos[2] < Len(ms) /\ pos[2] \in Nat
    BY <1>4, <2>1 DEF Position
  <2>3. item = queued[Len(inbox) + 1]
    BY <1>4, Zenon DEF ItemAt, Inbox
  <2>4. item \in Items
    BY <1>1, <1>4, <2>2, AdvanceFacts, Zenon
  <2>5. IsSnapshot(item)
    BY <2>2, <2>4, ItemFacts, EventNotSnapshot, Zenon
  <2>6. ms \in Seq(Member)
    BY <2>5, Zenon DEF IsSnapshot
  <2> HIDE DEF item, ms
  <2>7. Len(SubSeq(ms, 1, pos[2])) = pos[2] /\ Len(SubSeq(ms, 1, pos[2])) <= Len(ms)
    BY <2>2, <2>6, SMTT(20)
  <2>8. SubSeq(SubSeq(ms, 1, pos[2]), 1, pos[2]) = SubSeq(ms, 1, pos[2])
    <3> DEFINE x == SubSeq(ms, 1, pos[2])
    <3>1. x \in Seq(Member)
      BY <2>2, <2>6
    <3>2. Len(x) = pos[2]
      BY <2>7
    <3> HIDE DEF x
    <3>3. SubSeq(x, 1, Len(x)) = x
      BY <3>1
    <3> QED
      BY <3>2, <3>3, Zenon DEF x
  <2>9. IsPrefix(partial[t], ms)
    BY <2>1, <2>7, <2>8, Zenon DEF IsPrefix
  <2> QED
    BY <2>1, <2>2, <2>3, <2>9, Zenon DEF ms
<1> QED
  BY <1>5, <1>6, Zenon DEF SnapshotsArriveWhole

LEMMA SessionWhole ==
  ASSUME SessionInv
  PROVE  SnapshotsArriveWhole
<1>1. CASE pumping
  BY <1>1, FlowingWhole, Zenon DEF SessionInv
<1>2. CASE ~pumping
  BY <1>2, InboxPrefix, Zenon DEF SessionInv, Stopped, SnapshotsArriveWhole
<1> QED
  BY <1>1, <1>2

\* What pump_frames hands out is what the room queued, in that order, each
\* snapshot whole, however it was cut into chunks, whenever the connection is
\* lost or the application drops its receiver: SnapshotsArriveWhole, for any
\* items, limits, window and channel.
THEOREM ArriveWhole == Spec => []SnapshotsArriveWhole
<1>1. Init => SessionInv
  BY SessionStarts, Zenon DEF Init, SessionInv
<1>2. SessionInv /\ [Next]_vars => SessionInv'
  BY SessionKeeps
<1>3. SessionInv => SnapshotsArriveWhole
  BY SessionWhole
<1> QED
  BY <1>1, <1>2, <1>3, PTL DEF Spec
=============================================================================
