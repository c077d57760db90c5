--------------------------- MODULE OutboundProofs ---------------------------
(***************************************************************************)
(* Proofs about a member's outbound queues, Outbox and BulkQueue, for any  *)
(* number of pushing tasks, any budgets and any sizes.                     *)
(*                                                                         *)
(* A task that had a frame refused queues nothing more: until it has set   *)
(* the overflowed flag it is on its way to do so, and afterwards the flag, *)
(* which is never cleared, stops it at the start of reserve                *)
(* (RefusedStops).                                                         *)
(*                                                                         *)
(* Budget::queued is a sum over queues and pushes that several tasks       *)
(* change. The first part shows, by induction on finite sets, what happens *)
(* to a sum of Functions when one of its terms changes or goes.  Then      *)
(* Budgeted is the invariant: the counter is exact, so what reserve        *)
(* compares with the limit is never less than what is queued or about to   *)
(* be, and a frame that is let past the limit found nothing there.         *)
(*                                                                         *)
(* Of the bulk queue, NewestSurvive is inductive with the types of the     *)
(* variables.  For NoLostWakeup the invariant also has to speak of the     *)
(* dispatcher that has seen an empty queue and not polled its Notified     *)
(* future yet: by then a notification may have been sent, and must be      *)
(* stored (WakeInv).  For WithinBudget it orders the deliveries on streams *)
(* before those that wait: each is counted once, by its own place in the   *)
(* order (OnStreams).                                                      *)
(***************************************************************************)
EXTENDS Outbox, BulkQueue, FiniteSetTheorems, WellFoundedInduction, TLAPS

\* What holds of 0 and goes from n to n + 1 holds of every number: the set of
\* numbers it holds of is Nat.
LEMMA NatSteps ==
  ASSUME NEW T, 0 \in T, \A n \in Nat : n \in T => n + 1 \in T
  PROVE  \A n \in Nat : n \in T
<1> DEFINE U == {n \in Nat : n \notin T}
<1> SUFFICES ASSUME U # {} PROVE FALSE
  OBVIOUS
<1>1. U \subseteq Nat
  OBVIOUS
<1>2. PICK n \in U : \A m \in U : ~(<<m, n>> \in OpToRel(<, Nat))
  BY <1>1, NatLessThanWellFounded, WFMin, Zenon
<1>3. n \in Nat /\ n # 0 /\ n - 1 \in Nat
  OBVIOUS
<1>4. n - 1 \notin T
  BY <1>3
<1>5. <<n - 1, n>> \in OpToRel(<, Nat)
  BY <1>3 DEF OpToRel
<1> QED
  BY <1>2, <1>3, <1>4, <1>5, Zenon

\* What holds of the empty set and of every set one larger holds of every
\* finite set.
LEMMA FiniteSteps ==
  ASSUME NEW S, IsFiniteSet(S), NEW Q, {} \in Q,
         \A s \in SUBSET S : \A x \in s : s \ {x} \in Q => s \in Q
  PROVE  S \in Q
<1> DEFINE T == {n \in Nat : \A s \in SUBSET S : Cardinality(s) = n => s \in Q}
<1>1. \A s \in SUBSET S : IsFiniteSet(s)
  BY FS_Subset
<1>2. 0 \in T
  BY <1>1, FS_EmptySet, Zenon
<1>3. ASSUME NEW n \in Nat, n \in T PROVE n + 1 \in T
  <2> SUFFICES ASSUME NEW s \in SUBSET S, Cardinality(s) = n + 1 PROVE s \in Q
    OBVIOUS
  <2>1. s # {}
    BY <1>3, FS_EmptySet
  <2>2. PICK x : x \in s
    BY <2>1
  <2>3. Cardinality(s \ {x}) = n
    <3>1. Cardinality(s \ {x}) = Cardinality(s) - 1
      BY <1>1, <2>2, FS_RemoveElement, Zenon
    <3> QED
      BY <3>1
  <2>4. s \ {x} \in Q
    BY <1>3, <2>3
  <2> QED
    BY <2>2, <2>4
<1>4. Cardinality(S) \in Nat
  BY FS_CardinalityType
<1>5. Cardinality(S) \in T
  <2> HIDE DEF T
  <2> QED
    BY <1>2, <1>3, <1>4, NatSteps
<1> QED
  BY <1>5

\* g gives every part of f's domain its sum.
Sums(f, g) ==
  g = [s \in SUBSET DOMAIN f |->
         IF s = {} THEN 0
         ELSE f[CHOOSE x \in s : TRUE] + g[s \ {CHOOSE x \in s : TRUE}]]

LEMMA SumIsSums ==
  ASSUME NEW f, \E g : Sums(f, g)
  PROVE  \E g : Sums(f, g) /\ SumFunction(f) = g[DOMAIN f]
<1> DEFINE h == CHOOSE g : Sums(f, g)
<1>1. Sums(f, h)
  BY Zenon
<1>2. SumFunction(f) = h[DOMAIN f]
  BY Zenon DEF SumFunction, SumFunctionOnSet, FoldFunctionOnSet, MapThenFoldSet, Sums
<1> QED
  BY <1>1, <1>2, Zenon

\* A function on a finite domain has such sums.
LEMMA SumsExist ==
  ASSUME NEW S, IsFiniteSet(S), NEW f \in [S -> Nat]
  PROVE  \E g \in [SUBSET S -> Nat] : Sums(f, g)
<1> DEFINE pick(s) == CHOOSE x \in s : TRUE
           step(g, s) == IF s = {} THEN 0 ELSE f[pick(s)] + g[s \ {pick(s)}]
           T == {n \in Nat : \E g \in [SUBSET S -> Nat] :
                   \A s \in SUBSET S : Cardinality(s) <= n => g[s] = step(g, s)}
<1>1. \A s \in SUBSET S : IsFiniteSet(s) /\ Cardinality(s) \in Nat /\ Cardinality(s) <= Cardinality(S)
  BY FS_Subset, FS_CardinalityType
<1>2. \A s \in SUBSET S : s # {} => pick(s) \in s
  OBVIOUS
<1>3. ASSUME NEW s \in SUBSET S, s # {}
      PROVE  s \ {pick(s)} \in SUBSET S /\ Cardinality(s \ {pick(s)}) = Cardinality(s) - 1
  BY <1>1, <1>2, <1>3, FS_RemoveElement, Zenon
<1> HIDE DEF pick
<1>4. 0 \in T
  <2> DEFINE g == [s \in SUBSET S |-> 0]
  <2>1. g \in [SUBSET S -> Nat]
    OBVIOUS
  <2>2. ASSUME NEW s \in SUBSET S, Cardinality(s) <= 0 PROVE g[s] = step(g, s)
    <3>1. Cardinality(s) = 0
      BY <1>1, <2>2
    <3>2. s = {}
      BY <1>1, <3>1, FS_EmptySet
    <3> QED
      BY <3>2
  <2> QED
    BY <2>1, <2>2, Zenon
<1>5. ASSUME NEW n \in Nat, n \in T PROVE n + 1 \in T
  <2>1. PICK g \in [SUBSET S -> Nat] :
          \A s \in SUBSET S : Cardinality(s) <= n => g[s] = step(g, s)
    BY <1>5, Zenon
  <2> DEFINE h == [s \in SUBSET S |-> step(g, s)]
  <2>2. h \in [SUBSET S -> Nat]
    <3> SUFFICES ASSUME NEW s \in SUBSET S PROVE step(g, s) \in Nat
      OBVIOUS
    <3>1. CASE s = {}
      BY <3>1
    <3>2. CASE s # {}
      <4>1. f[pick(s)] \in Nat /\ g[s \ {pick(s)}] \in Nat
        BY <1>2, <1>3, <3>2
      <4> QED
        BY <3>2, <4>1
    <3> QED
      BY <3>1, <3>2
  <2>3. ASSUME NEW s \in SUBSET S, Cardinality(s) <= n + 1 PROVE h[s] = step(h, s)
    <3>1. CASE s = {}
      BY <3>1
    <3>2. CASE s # {}
      <4> DEFINE r == s \ {pick(s)}
      <4>1. r \in SUBSET S /\ Cardinality(r) = Cardinality(s) - 1
        BY <1>3, <3>2
      <4>2. Cardinality(r) <= n
        BY <1>1, <2>3, <4>1
      <4>3. h[r] = g[r]
        BY <2>1, <4>1, <4>2, Zenon
      <4> QED
        BY <3>2, <4>3
    <3> QED
      BY <3>1, <3>2
  <2>4. n + 1 \in Nat
    OBVIOUS
  <2> HIDE DEF h, step
  <2> QED
    BY <2>2, <2>3, <2>4, Zenon
<1>6. Cardinality(S) \in Nat
  BY FS_CardinalityType
<1>7. Cardinality(S) \in T
  <2> HIDE DEF T
  <2> QED
    BY <1>4, <1>5, <1>6, NatSteps
<1>8. PICK g \in [SUBSET S -> Nat] : \A s \in SUBSET S : g[s] = step(g, s)
  BY <1>1, <1>7, Zenon
<1>9. g = [s \in SUBSET S |-> step(g, s)]
  BY <1>8
<1> QED
  BY <1>9, Zenon DEF Sums, pick

\* The order of summing does not matter.
Additive(S, f, g) == g[{}] = 0 /\ \A s \in SUBSET S : \A x \in s : g[s] = f[x] + g[s \ {x}]

LEMMA SumsAdditive ==
  ASSUME NEW S, IsFiniteSet(S), NEW f \in [S -> Nat], NEW g \in [SUBSET S -> Nat], Sums(f, g)
  PROVE  Additive(S, f, g)
<1> DEFINE pick(s) == CHOOSE x \in s : TRUE
<1>1. \A s \in SUBSET S : g[s] = IF s = {} THEN 0 ELSE f[pick(s)] + g[s \ {pick(s)}]
  BY DEF Sums
<1>2. \A s \in SUBSET S : s # {} => pick(s) \in s
  OBVIOUS
<1> HIDE DEF pick
<1> DEFINE T == {n \in Nat : \A s \in SUBSET S : Cardinality(s) <= n =>
                   \A x \in s : g[s] = f[x] + g[s \ {x}]}
<1>3. \A s \in SUBSET S : IsFiniteSet(s) /\ Cardinality(s) \in Nat /\ Cardinality(s) <= Cardinality(S)
  BY FS_Subset, FS_CardinalityType
<1>4. ASSUME NEW s \in SUBSET S, NEW x \in s
      PROVE  s \ {x} \in SUBSET S /\ Cardinality(s \ {x}) = Cardinality(s) - 1
  BY <1>3, FS_RemoveElement
<1>5. 0 \in T
  <2> SUFFICES ASSUME NEW s \in SUBSET S, Cardinality(s) <= 0, NEW x \in s PROVE FALSE
    OBVIOUS
  <2>1. Cardinality(s \ {x}) = Cardinality(s) - 1 /\ s \ {x} \in SUBSET S
    BY <1>4
  <2> QED
    BY <1>3, <2>1
<1>6. ASSUME NEW n \in Nat, n \in T PROVE n + 1 \in T
  <2> SUFFICES ASSUME NEW s \in SUBSET S, Cardinality(s) <= n + 1, NEW x \in s
               PROVE  g[s] = f[x] + g[s \ {x}]
    OBVIOUS
  <2> DEFINE c == pick(s)
  <2>1. c \in s /\ g[s] = f[c] + g[s \ {c}]
    BY <1>1, <1>2
  <2>2. CASE c = x
    BY <2>1, <2>2
  <2>3. CASE c # x
    <3> HIDE DEF c
    <3>1. /\ s \ {c} \in SUBSET S /\ Cardinality(s \ {c}) <= n
          /\ s \ {x} \in SUBSET S /\ Cardinality(s \ {x}) <= n
      BY <1>3, <1>4, <2>1
    <3> DEFINE r == (s \ {c}) \ {x}
    <3>2. g[s \ {c}] = f[x] + g[r]
      BY <1>6, <2>3, <3>1
    <3>3. r = (s \ {x}) \ {c} /\ r \in SUBSET S
      OBVIOUS
    <3> HIDE DEF r
    <3>4. g[s \ {x}] = f[c] + g[r]
      BY <1>6, <2>1, <2>3, <3>1, <3>3, Zenon
    <3>5. f[c] \in Nat /\ f[x] \in Nat /\ g[r] \in Nat
      BY <2>1, <3>3
    <3> QED
      BY <2>1, <3>2, <3>4, <3>5
  <2> QED
    BY <2>2, <2>3
<1>7. Cardinality(S) \in Nat
  BY FS_CardinalityType
<1>8. Cardinality(S) \in T
  <2> HIDE DEF T
  <2> QED
    BY <1>5, <1>6, <1>7, NatSteps
<1>9. g[{}] = 0
  BY <1>1, Zenon
<1> QED
  BY <1>3, <1>8, <1>9 DEF Additive

\* The sum of a part depends on the values there only.
LEMMA SumsAgree ==
  ASSUME NEW S, NEW f, NEW g, Additive(S, f, g),
         NEW R \in SUBSET S, IsFiniteSet(R), NEW h, Additive(R, f, h)
  PROVE  h[R] = g[R]
<1> DEFINE Q == {s \in SUBSET R : h[s] = g[s]}
<1>1. {} \in Q
  BY DEF Additive
<1>2. ASSUME NEW s \in SUBSET R, NEW x \in s, s \ {x} \in Q PROVE s \in Q
  BY <1>2 DEF Additive
<1>3. R \in Q
  <2> HIDE DEF Q
  <2> QED
    BY <1>1, <1>2, FiniteSteps, Zenon
<1> QED
  BY <1>3

\* SumFunction is the sum of the whole domain.
LEMMA SumsWhole ==
  ASSUME NEW S, IsFiniteSet(S), NEW f \in [S -> Nat]
  PROVE  \E g \in [SUBSET S -> Nat] : Additive(S, f, g) /\ SumFunction(f) = g[S]
<1>1. PICK g \in [SUBSET S -> Nat] : Sums(f, g)
  BY SumsExist
<1>2. PICK h : Sums(f, h) /\ SumFunction(f) = h[S]
  <2>1. \E h : Sums(f, h)
    BY <1>1
  <2> QED
    BY <2>1, SumIsSums
<1> DEFINE pick(s) == CHOOSE x \in s : TRUE
           T == {n \in Nat : \A s \in SUBSET S : Cardinality(s) <= n => h[s] = g[s]}
<1>3. \A s \in SUBSET S : /\ g[s] = IF s = {} THEN 0 ELSE f[pick(s)] + g[s \ {pick(s)}]
                          /\ h[s] = IF s = {} THEN 0 ELSE f[pick(s)] + h[s \ {pick(s)}]
  BY <1>1, <1>2, Zenon DEF Sums
<1>4. \A s \in SUBSET S : IsFiniteSet(s) /\ Cardinality(s) \in Nat /\ Cardinality(s) <= Cardinality(S)
  BY FS_Subset, FS_CardinalityType
<1>5. ASSUME NEW s \in SUBSET S, s # {}
      PROVE  s \ {pick(s)} \in SUBSET S /\ Cardinality(s \ {pick(s)}) = Cardinality(s) - 1
  BY <1>4, <1>5, FS_RemoveElement, Zenon
<1> HIDE DEF pick
<1>6. 0 \in T
  <2> SUFFICES ASSUME NEW s \in SUBSET S, Cardinality(s) <= 0 PROVE h[s] = g[s]
    OBVIOUS
  <2>1. Cardinality(s) = 0
    BY <1>4
  <2>2. s = {}
    BY <1>4, <2>1, FS_EmptySet
  <2> QED
    BY <1>3, <2>2, Zenon
<1>7. ASSUME NEW n \in Nat, n \in T PROVE n + 1 \in T
  <2> SUFFICES ASSUME NEW s \in SUBSET S, Cardinality(s) <= n + 1 PROVE h[s] = g[s]
    OBVIOUS
  <2>1. CASE s = {}
    BY <1>3, <2>1, Zenon
  <2>2. CASE s # {}
    <3>1. s \ {pick(s)} \in SUBSET S /\ Cardinality(s \ {pick(s)}) <= n
      BY <1>4, <1>5, <2>2
    <3>2. h[s \ {pick(s)}] = g[s \ {pick(s)}]
      BY <1>7, <3>1
    <3> QED
      BY <1>3, <2>2, <3>2
  <2> QED
    BY <2>1, <2>2
<1>8. Cardinality(S) \in Nat
  BY FS_CardinalityType
<1>9. Cardinality(S) \in T
  <2> HIDE DEF T
  <2> QED
    BY <1>6, <1>7, <1>8, NatSteps
<1>10. Additive(S, f, g)
  BY <1>1, SumsAdditive
<1>11. SumFunction(f) = g[S]
  BY <1>2, <1>8, <1>9
<1> QED
  BY <1>10, <1>11

-----------------------------------------------------------------------------
\* SumFunction adds the values of a function in any order.
LEMMA SumRemove ==
  ASSUME NEW S, IsFiniteSet(S), NEW f \in [S -> Nat]
  PROVE  /\ SumFunction(f) \in Nat
         /\ S = {} => SumFunction(f) = 0
         /\ \A x \in S : SumFunction(f) = f[x] + SumFunction([y \in S \ {x} |-> f[y]])
<1>1. PICK g \in [SUBSET S -> Nat] : Additive(S, f, g) /\ SumFunction(f) = g[S]
  BY SumsWhole, Zenon
<1>2. g[{}] = 0 /\ \A s \in SUBSET S : \A x \in s : g[s] = f[x] + g[s \ {x}]
  BY <1>1, Zenon DEF Additive
<1>3. ASSUME NEW x \in S
      PROVE  SumFunction(f) = f[x] + SumFunction([y \in S \ {x} |-> f[y]])
  <2> DEFINE R == S \ {x}
             e == [y \in R |-> f[y]]
  <2>1. IsFiniteSet(R) /\ e \in [R -> Nat] /\ R \subseteq S /\ \A y \in R : e[y] = f[y]
    BY FS_RemoveElement
  <2> HIDE DEF R, e
  <2>2. PICK h \in [SUBSET R -> Nat] : Additive(R, e, h) /\ SumFunction(e) = h[R]
    BY <2>1, SumsWhole, Zenon
  <2>3. h[R] = g[R]
    <3>1. Additive(R, f, h)
      BY <2>1, <2>2, SMTT(20) DEF Additive
    <3> QED
      BY <1>1, <2>1, <3>1, SumsAgree
  <2>4. g[S] = f[x] + g[R]
    BY <1>2 DEF R
  <2> QED
    BY <1>1, <2>2, <2>3, <2>4 DEF R, e
<1> QED
  BY <1>1, <1>2, <1>3, Zenon

\* The sum is 0 only of zeros.
LEMMA SumZero ==
  ASSUME NEW S, IsFiniteSet(S), NEW f \in [S -> Nat]
  PROVE  SumFunction(f) = 0 <=> \A x \in S : f[x] = 0
<1>1. ASSUME NEW x \in S, SumFunction(f) = 0 PROVE f[x] = 0
  <2> DEFINE e == [y \in S \ {x} |-> f[y]]
  <2>1. SumFunction(f) = f[x] + SumFunction(e)
    BY SumRemove
  <2>2. IsFiniteSet(S \ {x}) /\ e \in [S \ {x} -> Nat]
    BY FS_RemoveElement
  <2> HIDE DEF e
  <2>3. SumFunction(e) \in Nat /\ f[x] \in Nat
    BY <2>2, SumRemove
  <2> QED
    BY <1>1, <2>1, <2>3
<1>2. ASSUME \A x \in S : f[x] = 0 PROVE SumFunction(f) = 0
  <2>1. PICK g \in [SUBSET S -> Nat] : Additive(S, f, g) /\ SumFunction(f) = g[S]
    BY SumsWhole, Zenon
  <2>2. g[{}] = 0 /\ \A s \in SUBSET S : \A x \in s : g[s] = f[x] + g[s \ {x}]
    BY <2>1, Zenon DEF Additive
  <2> DEFINE Q == {s \in SUBSET S : g[s] = 0}
  <2>3. {} \in Q
    BY <2>2
  <2>4. ASSUME NEW s \in SUBSET S, NEW x \in s, s \ {x} \in Q PROVE s \in Q
    BY <1>2, <2>2, <2>4
  <2>5. S \in Q
    <3> HIDE DEF Q
    <3> QED
      BY <2>3, <2>4, FiniteSteps, Zenon
  <2> QED
    BY <2>1, <2>5
<1> QED
  BY <1>1, <1>2

\* One value changes.
LEMMA SumExcept ==
  ASSUME NEW S, IsFiniteSet(S), NEW f \in [S -> Nat], NEW g \in [S -> Nat], NEW x \in S,
         \A y \in S \ {x} : g[y] = f[y]
  PROVE  SumFunction(g) = SumFunction(f) - f[x] + g[x]
<1> DEFINE e == [y \in S \ {x} |-> f[y]]
<1>1. SumFunction(f) = f[x] + SumFunction(e)
  BY SumRemove
<1>2. e = [y \in S \ {x} |-> g[y]]
  OBVIOUS
<1>3. SumFunction(g) = g[x] + SumFunction([y \in S \ {x} |-> g[y]])
  BY SumRemove
<1>4. IsFiniteSet(S \ {x}) /\ e \in [S \ {x} -> Nat]
  BY FS_RemoveElement
<1> HIDE DEF e
<1>5. SumFunction(e) \in Nat /\ f[x] \in Nat /\ g[x] \in Nat
  BY <1>4, SumRemove
<1> QED
  BY <1>1, <1>2, <1>3, <1>5

\* g has the values of f, under other names.
Renames(f, S, g, R, h) ==
  /\ h \in [R -> S] /\ \A y \in R : g[y] = f[h[y]]
  /\ \A y, z \in R : h[y] = h[z] => y = z
  /\ \A x \in S : \E y \in R : h[y] = x

LEMMA SumRename ==
  ASSUME NEW S, IsFiniteSet(S), NEW f \in [S -> Nat],
         NEW R, IsFiniteSet(R), NEW g \in [R -> Nat], NEW h, Renames(f, S, g, R, h)
  PROVE  SumFunction(g) = SumFunction(f)
<1>1. PICK p \in [SUBSET S -> Nat] : Additive(S, f, p) /\ SumFunction(f) = p[S]
  BY SumsWhole, Zenon
<1>2. p[{}] = 0 /\ \A s \in SUBSET S : \A x \in s : p[s] = f[x] + p[s \ {x}]
  BY <1>1, Zenon DEF Additive
<1>3. PICK q \in [SUBSET R -> Nat] : Additive(R, g, q) /\ SumFunction(g) = q[R]
  BY SumsWhole, Zenon
<1>4. q[{}] = 0 /\ \A s \in SUBSET R : \A x \in s : q[s] = g[x] + q[s \ {x}]
  BY <1>3, Zenon DEF Additive
<1> DEFINE im(s) == {h[y] : y \in s}
           Q == {s \in SUBSET R : q[s] = p[im(s)]}
<1>5. {} \in Q
  <2>1. im({}) = {}
    OBVIOUS
  <2> QED
    BY <1>2, <1>4, <2>1, Zenon
<1>6. ASSUME NEW s \in SUBSET R, NEW x \in s, s \ {x} \in Q PROVE s \in Q
  <2>1. im(s) \in SUBSET S /\ h[x] \in im(s) /\ im(s) \ {h[x]} = im(s \ {x})
    BY DEF Renames
  <2>2. q[s \ {x}] = p[im(s \ {x})]
    BY <1>6
  <2>3. g[x] = f[h[x]]
    BY DEF Renames
  <2> HIDE DEF im
  <2>4. p[im(s)] = f[h[x]] + p[im(s \ {x})]
    <3>1. \A z \in im(s) : p[im(s)] = f[z] + p[im(s) \ {z}]
      BY <1>2, <2>1
    <3> QED
      BY <2>1, <3>1, Zenon
  <2>5. q[s] = g[x] + q[s \ {x}]
    BY <1>4
  <2> QED
    BY <2>2, <2>3, <2>4, <2>5, Zenon
<1>7. R \in Q
  <2> HIDE DEF Q
  <2> QED
    BY <1>5, <1>6, FiniteSteps, Zenon
<1>8. im(R) = S
  BY DEF Renames
<1> QED
  BY <1>1, <1>3, <1>7, <1>8, Zenon

-----------------------------------------------------------------------------
RefusedStops ==
  \A u \in Pushers : u \in refused =>
    \/ push[u].at = "swap"
    \/ overflowed /\ push[u].at \in {"idle", "close"}

OutboxInv == push \in [Pushers -> PushState] /\ RefusedStops

-----------------------------------------------------------------------------
LEMMA OutboxInitInv == OutboxInit => OutboxInv
<1> SUFFICES ASSUME OutboxInit PROVE OutboxInv
  OBVIOUS
<1>1. NoPush \in PushState
  BY DEF NoPush, PushState, Writers
<1> QED
  BY <1>1 DEF OutboxInit, OutboxInv, RefusedStops

\* Steps of other tasks leave u where it is, and no step clears the flag.
LEMMA OthersKeep ==
  ASSUME OutboxInv, NEW u \in Pushers, NEW v \in Pushers, v # u, PushStep(u)
  PROVE  push'[v] = push[v] /\ (v \in refused' => v \in refused) /\ (overflowed => overflowed')
  BY DEF OutboxInv, PushStep, Add, Send, Unsend, Release, Swap, CloseSlow

\* Each step of a push, for the task that takes it.
LEMMA OwnStep ==
  ASSUME OutboxInv, NEW u \in Pushers, PushStep(u)
  PROVE  /\ push' \in [Pushers -> PushState]
         /\ u \in refused' => \/ push'[u].at = "swap"
                              \/ overflowed' /\ push'[u].at \in {"idle", "close"}
         /\ u \in refused => push'[u].at # "send"
<1>1. push \in [Pushers -> PushState] /\ push[u] \in PushState
  BY DEF OutboxInv
<1>2. NoPush \in PushState /\ NoPush.at = "idle"
  BY DEF NoPush, PushState, Writers
<1>3. u \in refused => \/ push[u].at = "swap"
                       \/ overflowed /\ push[u].at \in {"idle", "close"}
  BY DEF OutboxInv, RefusedStops
<1>4. CASE Add(u)
  BY <1>1, <1>3, <1>4 DEF Add, PushState
<1>5. CASE Send(u)
  BY <1>1, <1>2, <1>3, <1>5, SMTT(60) DEF Send, PushState
<1>6. CASE Unsend(u)
  BY <1>1, <1>2, <1>3, <1>6 DEF Unsend, PushState
<1>7. CASE Release(u)
  BY <1>1, <1>2, <1>3, <1>7 DEF Release, PushState
<1>8. CASE Swap(u)
  BY <1>1, <1>2, <1>3, <1>8 DEF Swap, PushState
<1>9. CASE CloseSlow(u)
  BY <1>1, <1>2, <1>3, <1>9 DEF CloseSlow, PushState
<1> QED
  BY <1>4, <1>5, <1>6, <1>7, <1>8, <1>9 DEF PushStep

LEMMA PushStepInv ==
  ASSUME OutboxInv, NEW u \in Pushers, PushStep(u)
  PROVE  OutboxInv' /\ \A v \in Pushers : v \in refused => push'[v].at # "send"
<1>1. ASSUME NEW v \in Pushers, v # u
      PROVE  /\ v \in refused' => \/ push'[v].at = "swap"
                                  \/ overflowed' /\ push'[v].at \in {"idle", "close"}
             /\ v \in refused => push'[v].at # "send"
  BY <1>1, OthersKeep DEF OutboxInv, RefusedStops
<1> QED
  BY <1>1, OwnStep DEF OutboxInv, RefusedStops

LEMMA BeginInv ==
  ASSUME OutboxInv, NEW u \in Pushers, NEW w \in Writers, NEW s \in Sizes, Begin(u, w, s)
  PROVE  OutboxInv' /\ \A v \in Pushers : v \in refused => push'[v].at # "send"
<1> DEFINE r == [at |-> "add", to |-> w, size |-> s]
<1>1. r \in PushState /\ r.at = "add"
  BY DEF PushState
<1>2. u \notin refused
  BY DEF Begin, OutboxInv, RefusedStops
<1>3. push' = [push EXCEPT ![u] = r] /\ refused' = refused /\ overflowed' = overflowed
  BY DEF Begin
<1> HIDE DEF r
<1> QED
  BY <1>1, <1>2, <1>3 DEF OutboxInv, RefusedStops

\* The writers, the connection and the teardown touch no push.
LEMMA OthersInv ==
  ASSUME OutboxInv, UNCHANGED <<push, refused, overflowed>>
  PROVE  OutboxInv' /\ \A v \in Pushers : v \in refused => push'[v].at # "send"
  BY DEF OutboxInv, RefusedStops

LEMMA OutboxNextInv ==
  ASSUME OutboxInv, [OutboxNext]_outboxVars
  PROVE  OutboxInv' /\ \A v \in Pushers : v \in refused => push'[v].at # "send"
<1>1. ASSUME NEW u \in Pushers, PushStep(u)
      PROVE  OutboxInv' /\ \A v \in Pushers : v \in refused => push'[v].at # "send"
  BY <1>1, PushStepInv
<1>2. ASSUME NEW u \in Pushers, NEW w \in Writers, NEW s \in Sizes, Begin(u, w, s)
      PROVE  OutboxInv' /\ \A v \in Pushers : v \in refused => push'[v].at # "send"
  BY <1>2, BeginInv
<1>3. ASSUME NEW w \in Writers, WriterStep(w)
      PROVE  UNCHANGED <<push, refused, overflowed>>
  BY <1>3 DEF WriterStep, Recv, Written, WriteClosed, WriteStalled, FinishStream, EndWrite
<1>4. CASE CloseConn \/ DropHandles \/ AbortWriters \/ UNCHANGED outboxVars
  <2>1. UNCHANGED <<push, refused, overflowed>>
    BY <1>4 DEF CloseConn, DropHandles, AbortWriters, outboxVars
  <2> QED
    BY <2>1, OthersInv
<1> QED
  BY <1>1, <1>2, <1>3, <1>4, OthersInv DEF OutboxNext

-----------------------------------------------------------------------------
\* Once MemberHandle::reserve refused a frame of a task, no later frame of
\* that task is queued on the session stream or on either lane.
THEOREM NoGap == OutboxSpec => NoGapAfterRefusal
<1>1. OutboxInv /\ [OutboxNext]_outboxVars => OutboxInv'
  BY OutboxNextInv
<1>2. OutboxInv /\ [OutboxNext]_outboxVars => [\A u \in Pushers : u \in refused => push'[u].at # "send"]_outboxVars
  BY OutboxNextInv
<1> QED
  BY <1>1, <1>2, OutboxInitInv, PTL DEF OutboxSpec, NoGapAfterRefusal

-----------------------------------------------------------------------------
\* The quantities of QueuesWithinBudget, of any queues and pushes.
QueuedBytes(c, cu) == SumFunction([w \in Writers |-> SumFunction(c[w]) + cu[w]])
QueuedFrames(c, cu) == SumFunction([w \in Writers |-> Len(c[w]) + IF cu[w] = 0 THEN 0 ELSE 1])
FlightBytes(p, S) == SumFunction([u \in {v \in Pushers : p[v].at \in S} |-> p[u].size])
Senders(p) == Cardinality({u \in Pushers : p[u].at = "send"})

Queues == [Writers -> Seq(Sizes)]
Writing == [Writers -> Sizes \cup {0}]

Sent == {"send"}
Counted == {"send", "unsend", "release"}
Undone == {"unsend", "release"}

\* Budget::queued is exact, and over the limit there is one frame.  The
\* second conjunct relates the sums the other two speak of.
Budgeted ==
  /\ chan \in Queues /\ current \in Writing /\ abandoned \in Nat
  /\ \A u \in Pushers : push[u].at # "idle" => push[u].size \in Sizes
  /\ FlightBytes(push, Sent) + FlightBytes(push, Undone) = FlightBytes(push, Counted)
  /\ queued = QueuedBytes(chan, current) + FlightBytes(push, Counted) + abandoned
  /\ QueuedBytes(chan, current) + FlightBytes(push, Sent) > Limit =>
       Senders(push) + QueuedFrames(chan, current) = 1

LEMMA SizeFacts == (\A s \in Sizes : s \in Nat /\ s # 0) /\ IsFiniteSet(Writers)
<1>1. Writers = {"control"} \cup {"interactive"} \cup {"session"}
  BY DEF Writers, Lanes
<1>2. IsFiniteSet({"control"} \cup {"interactive"} \cup {"session"})
  BY FS_Singleton, FS_AddElement, Zenon
<1> QED
  BY <1>1, <1>2, OutboundAssumption

\* The bytes of a queue.
LEMMA QueueSum ==
  ASSUME NEW s \in Seq(Sizes)
  PROVE  /\ SumFunction(s) \in Nat
         /\ SumFunction(s) = 0 <=> Len(s) = 0
         /\ \A e \in Sizes : SumFunction(Append(s, e)) = SumFunction(s) + e
         /\ s # <<>> => SumFunction(s) = Head(s) + SumFunction(Tail(s))
<1>1. ASSUME NEW t \in Seq(Sizes)
      PROVE  Len(t) \in Nat /\ t \in [1 .. Len(t) -> Nat] /\ IsFiniteSet(1 .. Len(t))
             /\ \A i \in 1 .. Len(t) : t[i] # 0
  <2>1. Len(t) \in Nat /\ t \in [1 .. Len(t) -> Sizes]
    OBVIOUS
  <2>2. \A i \in 1 .. Len(t) : t[i] \in Nat /\ t[i] # 0
    BY <2>1, SizeFacts
  <2>3. IsFiniteSet(1 .. Len(t))
    BY <2>1, FS_Interval
  <2> QED
    BY <2>1, <2>2, <2>3
<1>2. SumFunction(s) \in Nat
  BY <1>1, SumRemove
<1>3. SumFunction(s) = 0 <=> Len(s) = 0
  <2>1. SumFunction(s) = 0 <=> \A i \in 1 .. Len(s) : s[i] = 0
    BY <1>1, SumZero
  <2>2. (\A i \in 1 .. Len(s) : s[i] = 0) <=> Len(s) = 0
    BY <1>1
  <2> QED
    BY <2>1, <2>2
<1>4. ASSUME NEW e \in Sizes PROVE SumFunction(Append(s, e)) = SumFunction(s) + e
  <2> DEFINE t == Append(s, e)
             n == Len(s) + 1
             D == 1 .. n
  <2>1. t \in Seq(Sizes) /\ Len(t) = n /\ t[n] = e /\ \A i \in 1 .. Len(s) : t[i] = s[i]
    OBVIOUS
  <2>2. n \in D /\ D \ {n} = 1 .. Len(s)
    BY <1>1
  <2> HIDE DEF t
  <2>3. t \in [D -> Nat] /\ IsFiniteSet(D)
    BY <1>1, <2>1
  <2> HIDE DEF D, n
  <2>4. SumFunction(t) = t[n] + SumFunction([y \in D \ {n} |-> t[y]])
    <3>1. \A x \in D : SumFunction(t) = t[x] + SumFunction([y \in D \ {x} |-> t[y]])
      BY <2>3, SumRemove, Zenon
    <3> QED
      BY <2>2, <3>1, SMTT(20)
  <2>5. [y \in D \ {n} |-> t[y]] = s
    <3>1. s = [y \in 1 .. Len(s) |-> s[y]]
      BY <1>1
    <3> QED
      BY <2>1, <2>2, <3>1
  <2>6. SumFunction(t) = e + SumFunction(s)
    BY <2>1, <2>4, <2>5, Zenon
  <2>7. e \in Nat
    BY SizeFacts
  <2> QED
    BY <1>2, <2>6, <2>7 DEF t
<1>5. ASSUME s # <<>> PROVE SumFunction(s) = Head(s) + SumFunction(Tail(s))
  <2> DEFINE n == Len(s)
             t == Tail(s)
             D == 1 .. n
             S == D \ {1}
             f == [y \in S |-> s[y]]
             R == 1 .. Len(t)
             h == [y \in R |-> y + 1]
  <2>1. n \in Nat \ {0} /\ Head(s) = s[1] /\ t \in Seq(Sizes) /\ Len(t) = n - 1
        /\ \A i \in 1 .. n - 1 : t[i] = s[i + 1]
    BY <1>5
  <2> HIDE DEF t
  <2>2. SumFunction(s) = s[1] + SumFunction(f)
    <3>1. 1 \in D /\ IsFiniteSet(D) /\ s \in [D -> Nat]
      BY <1>1, <2>1
    <3> HIDE DEF D
    <3>2. \A x \in D : SumFunction(s) = s[x] + SumFunction([y \in D \ {x} |-> s[y]])
      BY <3>1, SumRemove, Zenon
    <3> QED
      BY <3>1, <3>2, Zenon
  <2>3. IsFiniteSet(S) /\ f \in [S -> Nat]
    BY <1>1, FS_RemoveElement
  <2>4. IsFiniteSet(R) /\ t \in [R -> Nat]
    BY <1>1, <2>1
  <2>5. Renames(f, S, t, R, h)
    <3>1. h \in [R -> S] /\ \A y \in R : t[y] = f[h[y]]
      BY <2>1
    <3>2. \A y, z \in R : h[y] = h[z] => y = z
      BY <2>1
    <3>3. ASSUME NEW x \in S PROVE \E y \in R : h[y] = x
      <4>1. x - 1 \in R /\ h[x - 1] = x
        BY <2>1
      <4> QED
        BY <4>1
    <3> QED
      BY <3>1, <3>2, <3>3, Zenon DEF Renames
  <2> HIDE DEF S, f, h, R
  <2>6. SumFunction(t) = SumFunction(f)
    BY <2>3, <2>4, <2>5, SumRename
  <2> QED
    BY <2>1, <2>2, <2>6 DEF t
<1> QED
  BY <1>2, <1>3, <1>4, <1>5

LEMMA QueueFacts ==
  ASSUME NEW c \in Queues, NEW cu \in Writing
  PROVE  /\ QueuedBytes(c, cu) \in Nat /\ QueuedFrames(c, cu) \in Nat
         /\ QueuedBytes(c, cu) = 0 <=> QueuedFrames(c, cu) = 0
         /\ (\A w \in Writers : c[w] = <<>> /\ cu[w] = 0) => QueuedBytes(c, cu) = 0
<1> DEFINE f == [w \in Writers |-> SumFunction(c[w]) + cu[w]]
           g == [w \in Writers |-> Len(c[w]) + IF cu[w] = 0 THEN 0 ELSE 1]
<1>1. ASSUME NEW w \in Writers
      PROVE  /\ SumFunction(c[w]) \in Nat /\ Len(c[w]) \in Nat /\ cu[w] \in Nat
             /\ SumFunction(c[w]) = 0 <=> Len(c[w]) = 0
             /\ c[w] = <<>> => Len(c[w]) = 0
  <2>1. c[w] \in Seq(Sizes) /\ cu[w] \in Nat
    BY SizeFacts DEF Queues, Writing
  <2> QED
    BY <2>1, QueueSum
<1>2. ASSUME NEW w \in Writers PROVE f[w] \in Nat /\ g[w] \in Nat /\ (f[w] = 0 <=> g[w] = 0)
                                     /\ (c[w] = <<>> /\ cu[w] = 0 => f[w] = 0)
  <2> DEFINE k == SumFunction(c[w])
             n == Len(c[w])
  <2>1. f[w] = k + cu[w] /\ g[w] = n + (IF cu[w] = 0 THEN 0 ELSE 1)
    OBVIOUS
  <2>2. k \in Nat /\ n \in Nat /\ cu[w] \in Nat /\ (k = 0 <=> n = 0) /\ (c[w] = <<>> => n = 0)
    BY <1>1
  <2> HIDE DEF f, g, k, n
  <2> QED
    BY <2>1, <2>2
<1>3. f \in [Writers -> Nat] /\ g \in [Writers -> Nat]
  BY <1>2, Zenon
<1>4. QueuedBytes(c, cu) = SumFunction(f) /\ QueuedFrames(c, cu) = SumFunction(g)
  BY DEF QueuedBytes, QueuedFrames
<1> HIDE DEF f, g
<1>5. SumFunction(f) \in Nat /\ SumFunction(g) \in Nat
  BY <1>3, SizeFacts, SumRemove
<1>6. SumFunction(f) = 0 <=> \A w \in Writers : f[w] = 0
  BY <1>3, SizeFacts, SumZero
<1>7. SumFunction(g) = 0 <=> \A w \in Writers : g[w] = 0
  BY <1>3, SizeFacts, SumZero
<1> QED
  BY <1>2, <1>4, <1>5, <1>6, <1>7

\* What one writer has.
HeldBytes(c, cu, w) == SumFunction(c[w]) + cu[w]
HeldFrames(c, cu, w) == Len(c[w]) + IF cu[w] = 0 THEN 0 ELSE 1

\* One writer's queue changes.
LEMMA QueueMoves ==
  ASSUME NEW c \in Queues, NEW cu \in Writing, NEW d \in Queues, NEW du \in Writing,
         NEW w \in Writers, \A v \in Writers \ {w} : d[v] = c[v] /\ du[v] = cu[v]
  PROVE  /\ QueuedBytes(d, du) = QueuedBytes(c, cu) - HeldBytes(c, cu, w) + HeldBytes(d, du, w)
         /\ QueuedFrames(d, du) = QueuedFrames(c, cu) - HeldFrames(c, cu, w) + HeldFrames(d, du, w)
         /\ HeldBytes(c, cu, w) \in Nat /\ HeldFrames(c, cu, w) \in Nat
         /\ HeldBytes(d, du, w) \in Nat /\ HeldFrames(d, du, w) \in Nat
<1> DEFINE f(a, b) == [v \in Writers |-> SumFunction(a[v]) + b[v]]
           g(a, b) == [v \in Writers |-> Len(a[v]) + IF b[v] = 0 THEN 0 ELSE 1]
<1>1. ASSUME NEW a \in Queues, NEW b \in Writing
      PROVE  f(a, b) \in [Writers -> Nat] /\ g(a, b) \in [Writers -> Nat]
  <2> SUFFICES ASSUME NEW v \in Writers
               PROVE  SumFunction(a[v]) + b[v] \in Nat /\ Len(a[v]) + (IF b[v] = 0 THEN 0 ELSE 1) \in Nat
    BY Zenon
  <2>1. a[v] \in Seq(Sizes) /\ b[v] \in Nat
    BY SizeFacts DEF Queues, Writing
  <2> DEFINE k == SumFunction(a[v])
             n == Len(a[v])
  <2>2. k \in Nat /\ n \in Nat
    BY <2>1, QueueSum
  <2> HIDE DEF k, n
  <2>3. k + b[v] \in Nat /\ n + (IF b[v] = 0 THEN 0 ELSE 1) \in Nat
    BY <2>1, <2>2
  <2> QED
    BY <2>3, Zenon DEF k, n
<1>2. \A v \in Writers \ {w} : f(d, du)[v] = f(c, cu)[v] /\ g(d, du)[v] = g(c, cu)[v]
  BY Zenon
<1>3. /\ QueuedBytes(c, cu) = SumFunction(f(c, cu)) /\ QueuedBytes(d, du) = SumFunction(f(d, du))
      /\ QueuedFrames(c, cu) = SumFunction(g(c, cu)) /\ QueuedFrames(d, du) = SumFunction(g(d, du))
  BY DEF QueuedBytes, QueuedFrames
<1>4. /\ f(c, cu)[w] = HeldBytes(c, cu, w) /\ f(d, du)[w] = HeldBytes(d, du, w)
      /\ g(c, cu)[w] = HeldFrames(c, cu, w) /\ g(d, du)[w] = HeldFrames(d, du, w)
  BY DEF HeldBytes, HeldFrames
<1>5. f(c, cu) \in [Writers -> Nat] /\ f(d, du) \in [Writers -> Nat]
      /\ g(c, cu) \in [Writers -> Nat] /\ g(d, du) \in [Writers -> Nat]
  BY <1>1, Zenon
<1> HIDE DEF f, g
<1>6. SumFunction(f(d, du)) = SumFunction(f(c, cu)) - f(c, cu)[w] + f(d, du)[w]
  BY <1>2, <1>5, SizeFacts, SumExcept
<1>7. SumFunction(g(d, du)) = SumFunction(g(c, cu)) - g(c, cu)[w] + g(d, du)[w]
  BY <1>2, <1>5, SizeFacts, SumExcept
<1>8. /\ f(c, cu)[w] \in Nat /\ f(d, du)[w] \in Nat /\ g(c, cu)[w] \in Nat /\ g(d, du)[w] \in Nat
  BY <1>5
<1> QED
  BY <1>3, <1>4, <1>6, <1>7, <1>8, Zenon

\* What one push adds to a sum over the pushes.
Part(r, S) == IF r.at \in S THEN r.size ELSE 0

LEMMA FlightSplit ==
  ASSUME NEW p \in [Pushers -> PushState], NEW u \in Pushers, NEW S
  PROVE  LET R == {v \in Pushers \ {u} : p[v].at \in S}
             e == [v \in R |-> p[v].size]
         IN  /\ SumFunction(e) \in Nat
             /\ FlightBytes(p, S) = SumFunction(e) + Part(p[u], S)
<1> DEFINE R == {v \in Pushers \ {u} : p[v].at \in S}
           e == [v \in R |-> p[v].size]
           D == {v \in Pushers : p[v].at \in S}
           f == [v \in D |-> p[v].size]
<1>1. \A v \in Pushers : p[v].size \in Nat
  BY SizeFacts DEF PushState
<1>2. IsFiniteSet(R) /\ e \in [R -> Nat] /\ IsFiniteSet(D) /\ f \in [D -> Nat]
  BY <1>1, OutboundAssumption, FS_Subset
<1>3. FlightBytes(p, S) = SumFunction(f)
  BY DEF FlightBytes
<1>4. SumFunction(e) \in Nat
  <2> HIDE DEF e, R
  <2> QED
    BY <1>2, SumRemove
<1>5. CASE p[u].at \in S
  <2>1. D \ {u} = R /\ u \in D /\ f[u] = p[u].size
    BY <1>5
  <2>2. [y \in D \ {u} |-> f[y]] = e
    BY <2>1
  <2>3. Part(p[u], S) = f[u] /\ f[u] \in Nat
    BY <1>1, <1>5 DEF Part
  <2> HIDE DEF e, R, D, f
  <2>4. SumFunction(f) = f[u] + SumFunction([y \in D \ {u} |-> f[y]])
    BY <1>2, <2>1, SumRemove
  <2>5. SumFunction(f) = f[u] + SumFunction(e)
    BY <2>2, <2>4, Zenon
  <2>6. FlightBytes(p, S) = SumFunction(e) + Part(p[u], S)
    BY <1>3, <1>4, <2>3, <2>5
  <2> QED
    BY <1>4, <2>6 DEF e, R
<1>6. CASE p[u].at \notin S
  <2>1. D = R
    BY <1>6
  <2>2. f = e /\ Part(p[u], S) = 0
    BY <1>6, <2>1 DEF Part
  <2> HIDE DEF e, R, D, f
  <2>3. FlightBytes(p, S) = SumFunction(e) + Part(p[u], S)
    BY <1>3, <1>4, <2>2
  <2> QED
    BY <1>4, <2>3 DEF e, R
<1> QED
  BY <1>5, <1>6

LEMMA FlightType ==
  ASSUME NEW p \in [Pushers -> PushState], NEW S
  PROVE  FlightBytes(p, S) \in Nat
<1> DEFINE D == {v \in Pushers : p[v].at \in S}
           f == [v \in D |-> p[v].size]
<1>1. \A v \in Pushers : p[v].size \in Nat
  BY SizeFacts DEF PushState
<1>2. IsFiniteSet(D) /\ f \in [D -> Nat]
  BY <1>1, OutboundAssumption, FS_Subset
<1>3. FlightBytes(p, S) = SumFunction(f)
  BY DEF FlightBytes
<1> HIDE DEF D, f
<1> QED
  BY <1>2, <1>3, SumRemove

LEMMA FlightMoves ==
  ASSUME NEW p \in [Pushers -> PushState], NEW q \in [Pushers -> PushState], NEW u \in Pushers,
         \A v \in Pushers \ {u} : q[v] = p[v], NEW S
  PROVE  /\ FlightBytes(p, S) \in Nat /\ Part(p[u], S) \in Nat /\ Part(q[u], S) \in Nat
         /\ FlightBytes(q, S) = FlightBytes(p, S) - Part(p[u], S) + Part(q[u], S)
<1> DEFINE R(r) == {v \in Pushers \ {u} : r[v].at \in S}
           e(r) == [v \in R(r) |-> r[v].size]
<1>1. R(p) = R(q)
  OBVIOUS
<1>2. e(p) = e(q)
  BY <1>1
<1>3. SumFunction(e(p)) \in Nat /\ FlightBytes(p, S) = SumFunction(e(p)) + Part(p[u], S)
  BY FlightSplit, Zenon
<1>4. FlightBytes(q, S) = SumFunction(e(q)) + Part(q[u], S)
  BY FlightSplit
<1>5. Part(p[u], S) \in Nat /\ Part(q[u], S) \in Nat
  BY SizeFacts DEF Part, PushState
<1> HIDE DEF e
<1>6. FlightBytes(q, S) = SumFunction(e(p)) + Part(q[u], S)
  BY <1>2, <1>4, Zenon
<1> QED
  BY <1>3, <1>5, <1>6

LEMMA SenderFacts ==
  ASSUME NEW p \in [Pushers -> PushState],
         \A u \in Pushers : p[u].at # "idle" => p[u].size \in Sizes
  PROVE  /\ FlightBytes(p, Sent) \in Nat /\ Senders(p) \in Nat
         /\ FlightBytes(p, Sent) = 0 <=> Senders(p) = 0
<1> DEFINE D == {v \in Pushers : p[v].at \in Sent}
           f == [v \in D |-> p[v].size]
<1>1. IsFiniteSet(D) /\ f \in [D -> Nat] /\ \A v \in D : f[v] # 0
  BY SizeFacts, OutboundAssumption, FS_Subset, Zenon DEF Sent
<1>2. FlightBytes(p, Sent) = SumFunction(f)
  BY DEF FlightBytes
<1>3. Senders(p) = Cardinality(D)
  <2>1. D = {u \in Pushers : p[u].at = "send"}
    BY DEF Sent
  <2> QED
    BY <2>1, Zenon DEF Senders
<1> HIDE DEF D, f
<1>4. SumFunction(f) \in Nat
  BY <1>1, SumRemove
<1>5. SumFunction(f) = 0 <=> \A v \in D : f[v] = 0
  BY <1>1, SumZero
<1>6. Cardinality(D) \in Nat /\ (Cardinality(D) = 0 <=> D = {})
  BY <1>1, FS_CardinalityType, FS_EmptySet
<1> QED
  BY <1>1, <1>2, <1>3, <1>4, <1>5, <1>6

LEMMA SendersMove ==
  ASSUME NEW p \in [Pushers -> PushState], NEW q \in [Pushers -> PushState], NEW u \in Pushers,
         \A v \in Pushers \ {u} : q[v] = p[v]
  PROVE  Senders(q) = Senders(p) - (IF p[u].at = "send" THEN 1 ELSE 0)
                                 + (IF q[u].at = "send" THEN 1 ELSE 0)
<1> DEFINE D(r) == {v \in Pushers : r[v].at = "send"}
           R == {v \in Pushers \ {u} : p[v].at = "send"}
<1>1. IsFiniteSet(R)
  BY OutboundAssumption, FS_Subset
<1>2. Cardinality(R) \in Nat
  BY <1>1, FS_CardinalityType
<1>3. ASSUME NEW r \in [Pushers -> PushState], \A v \in Pushers \ {u} : r[v] = p[v]
      PROVE  Senders(r) = Cardinality(R) + (IF r[u].at = "send" THEN 1 ELSE 0)
  <2>1. Senders(r) = Cardinality(D(r))
    BY DEF Senders
  <2>2. CASE r[u].at = "send"
    <3>1. D(r) = R \cup {u} /\ u \notin R
      BY <1>3, <2>2
    <3>2. Cardinality(R \cup {u}) = Cardinality(R) + 1
      BY <1>1, <3>1, FS_AddElement, Zenon
    <3> QED
      BY <2>1, <2>2, <3>1, <3>2, Zenon
  <2>3. CASE r[u].at # "send"
    <3>1. D(r) = R
      BY <1>3, <2>3
    <3>2. Senders(r) = Cardinality(R)
      BY <2>1, <3>1, Zenon
    <3> HIDE DEF R
    <3> QED
      BY <1>2, <2>3, <3>2
  <2> QED
    BY <2>2, <2>3
<1>4. Senders(p) = Cardinality(R) + (IF p[u].at = "send" THEN 1 ELSE 0)
  BY <1>3
<1>5. Senders(q) = Cardinality(R) + (IF q[u].at = "send" THEN 1 ELSE 0)
  BY <1>3
<1> HIDE DEF R
<1> QED
  BY <1>2, <1>4, <1>5

\* A step of one push, the queues unchanged: only a frame that reserve let
\* pass starts to count as sent.
LEMMA PushOnly ==
  ASSUME OutboxInv, Budgeted, push' \in [Pushers -> PushState],
         NEW u \in Pushers, \A v \in Pushers \ {u} : push'[v] = push[v],
         UNCHANGED <<chan, current, abandoned>>,
         push'[u].at # "idle" => push'[u].size \in Sizes,
         queued' = queued - Part(push[u], Counted) + Part(push'[u], Counted),
         push'[u].at = "send" =>
           push[u].at = "add" /\ (queued = 0 \/ queued + push'[u].size <= Limit)
  PROVE  Budgeted'
<1> DEFINE Q == QueuedBytes(chan, current)
           M == QueuedFrames(chan, current)
           A == FlightBytes(push, Sent)
           B == FlightBytes(push, Undone)
           C == FlightBytes(push, Counted)
           N == Senders(push)
           A1 == FlightBytes(push', Sent)
           B1 == FlightBytes(push', Undone)
           C1 == FlightBytes(push', Counted)
           N1 == Senders(push')
           a == Part(push[u], Sent)
           b == Part(push[u], Undone)
           c == Part(push[u], Counted)
           a1 == Part(push'[u], Sent)
           b1 == Part(push'[u], Undone)
           c1 == Part(push'[u], Counted)
<1>1. push \in [Pushers -> PushState] /\ chan \in Queues /\ current \in Writing /\ abandoned \in Nat
      /\ Limit \in Nat
  BY OutboxAssumption DEF OutboxInv, Budgeted
<1>2. \A v \in Pushers : push[v].at # "idle" => push[v].size \in Sizes
  BY DEF Budgeted
<1>3. \A v \in Pushers : push'[v].at # "idle" => push'[v].size \in Sizes
  BY <1>2
<1>4. Q \in Nat /\ M \in Nat /\ (Q = 0 <=> M = 0)
  BY <1>1, QueueFacts
<1>0. ASSUME NEW S
      PROVE  /\ FlightBytes(push, S) \in Nat /\ Part(push[u], S) \in Nat /\ Part(push'[u], S) \in Nat
             /\ FlightBytes(push', S) = FlightBytes(push, S) - Part(push[u], S) + Part(push'[u], S)
  BY <1>1, FlightMoves
<1>5. A \in Nat /\ a \in Nat /\ a1 \in Nat /\ A1 = A - a + a1
  BY <1>0
<1>6. B \in Nat /\ b \in Nat /\ b1 \in Nat /\ B1 = B - b + b1
  BY <1>0
<1>7. C \in Nat /\ c \in Nat /\ c1 \in Nat /\ C1 = C - c + c1
  BY <1>0
<1>8. N \in Nat /\ (A = 0 <=> N = 0)
  BY <1>1, <1>2, SenderFacts
<1>9. A1 \in Nat /\ N1 \in Nat /\ (A1 = 0 <=> N1 = 0)
  BY <1>3, SenderFacts
<1>10. N1 = N - (IF push[u].at = "send" THEN 1 ELSE 0) + (IF push'[u].at = "send" THEN 1 ELSE 0)
  BY <1>1, SendersMove
<1>11. a + b = c /\ a1 + b1 = c1
  <2>1. push[u].size \in Nat /\ push'[u].size \in Nat
    BY <1>1, SizeFacts DEF PushState
  <2> QED
    BY <2>1 DEF Part, Counted, Undone, Sent
<1>12. A + B = C /\ queued = Q + C + abandoned /\ (Q + A > Limit => N + M = 1)
  BY DEF Budgeted
<1>13. push[u].at # "send" => a = 0
  BY DEF Part, Sent
<1>14. push'[u].at # "send" => a1 = 0
  BY DEF Part, Sent
<1>15. push'[u].at = "send" => a1 = push'[u].size
  BY DEF Part, Sent
<1>16. queued' = queued - c + c1
  OBVIOUS
<1>17. push'[u].at = "send" => push'[u].size \in Nat
  BY SizeFacts
<1>18. Q = QueuedBytes(chan', current') /\ M = QueuedFrames(chan', current')
  BY DEF QueuedBytes, QueuedFrames
<1> HIDE DEF Q, M, A, B, C, N, A1, B1, C1, N1, a, b, c, a1, b1, c1
<1>19. A1 + B1 = C1 /\ queued' = Q + C1 + abandoned
  BY <1>1, <1>4, <1>5, <1>6, <1>7, <1>11, <1>12, <1>16
<1>20. ASSUME Q + A1 > Limit PROVE N1 + M = 1
  <2>1. CASE push'[u].at = "send"
    <3>1. a = 0 /\ a1 \in Nat /\ A1 = A + a1 /\ N1 = N + 1
      BY <1>5, <1>8, <1>10, <1>13, <2>1
    <3>2. CASE queued = 0
      BY <1>1, <1>4, <1>5, <1>6, <1>7, <1>8, <1>12, <3>1, <3>2
    <3>3. CASE queued + push'[u].size <= Limit
      BY <1>1, <1>4, <1>5, <1>6, <1>7, <1>12, <1>15, <1>17, <1>20, <2>1, <3>1, <3>3, SMTT(20), ZenonT(20), SMTT(30)
    <3> QED
      BY <2>1, <3>2, <3>3
  <2>2. CASE push'[u].at # "send"
    <3>1. A1 = A - a
      BY <1>5, <1>14, <2>2
    <3>2. N + M = 1
      BY <1>1, <1>4, <1>5, <1>12, <1>20, <3>1
    <3>3. CASE push[u].at # "send"
      BY <1>8, <1>10, <2>2, <3>2, <3>3
    <3>4. CASE push[u].at = "send"
      <4>1. N1 = N - 1
        BY <1>8, <1>10, <2>2, <3>4
      <4>2. N1 = 0 /\ M = 0
        BY <1>4, <1>8, <1>9, <3>2, <4>1, SMTT(20), ZenonT(20), SMTT(30)
      <4> QED
        BY <1>1, <1>4, <1>9, <1>20, <4>2
    <3> QED
      BY <3>3, <3>4
  <2> QED
    BY <2>1, <2>2
<1> QED
  BY <1>1, <1>3, <1>18, <1>19, <1>20 DEF Budgeted, A1, B1, C1, N1

\* A writer holds no more bytes and frames than before, and every byte is
\* released or abandoned.
Shrinks(w) ==
  /\ HeldBytes(chan', current', w) <= HeldBytes(chan, current, w)
  /\ HeldFrames(chan', current', w) <= HeldFrames(chan, current, w)
  /\ queued' = queued - HeldBytes(chan, current, w) + HeldBytes(chan', current', w)
               + (abandoned' - abandoned)

\* A step of one writer, the pushes unchanged.
LEMMA WriterOnly ==
  ASSUME Budgeted, OutboxInv, UNCHANGED push, chan' \in Queues, current' \in Writing, abandoned' \in Nat,
         NEW w \in Writers, \A v \in Writers \ {w} : chan'[v] = chan[v] /\ current'[v] = current[v],
         Shrinks(w)
  PROVE  Budgeted'
<1> DEFINE Q == QueuedBytes(chan, current)
           M == QueuedFrames(chan, current)
           A == FlightBytes(push, Sent)
           C == FlightBytes(push, Counted)
           N == Senders(push)
           Q1 == QueuedBytes(chan', current')
           M1 == QueuedFrames(chan', current')
           x == HeldBytes(chan, current, w)
           x1 == HeldBytes(chan', current', w)
           y == HeldFrames(chan, current, w)
           y1 == HeldFrames(chan', current', w)
<1>1. push \in [Pushers -> PushState] /\ chan \in Queues /\ current \in Writing /\ abandoned \in Nat
      /\ Limit \in Nat
  BY OutboxAssumption DEF OutboxInv, Budgeted
<1>2. \A v \in Pushers : push[v].at # "idle" => push[v].size \in Sizes
  BY DEF Budgeted
<1>3. Q \in Nat /\ M \in Nat
  BY <1>1, QueueFacts
<1>4. Q1 \in Nat /\ M1 \in Nat /\ (Q1 = 0 <=> M1 = 0)
  BY QueueFacts
<1>5. A \in Nat /\ N \in Nat /\ (A = 0 <=> N = 0)
  BY <1>1, <1>2, SenderFacts, SMTT(20), ZenonT(20), SMTT(30)
<1>6. Q1 = Q - x + x1 /\ M1 = M - y + y1 /\ x \in Nat /\ x1 \in Nat /\ y \in Nat /\ y1 \in Nat
  BY <1>1, QueueMoves, SMTT(20), ZenonT(20), SMTT(30)
<1>7. C \in Nat
  BY <1>1, FlightType
<1>8. queued = Q + C + abandoned /\ (Q + A > Limit => N + M = 1)
      /\ A + FlightBytes(push, Undone) = C
  BY DEF Budgeted
<1>9. /\ FlightBytes(push', Sent) = A /\ FlightBytes(push', Counted) = C
      /\ FlightBytes(push', Undone) = FlightBytes(push, Undone) /\ Senders(push') = N
  BY DEF FlightBytes, Senders
<1>10. x1 <= x /\ y1 <= y /\ queued' = queued - x + x1 + (abandoned' - abandoned)
  BY DEF Shrinks
<1> HIDE DEF Q, M, A, C, N, Q1, M1, x, x1, y, y1
<1>11. queued' = Q1 + C + abandoned'
  <2>1. abandoned' \in Nat
    OBVIOUS
  <2> QED
    BY <1>1, <1>3, <1>6, <1>7, <1>8, <1>10, <2>1
<1>12. ASSUME Q1 + A > Limit PROVE N + M1 = 1
  <2>1. N + M = 1
    BY <1>1, <1>3, <1>4, <1>5, <1>6, <1>8, <1>12, <1>10
  <2>2. N + M1 <= 1
    BY <1>3, <1>4, <1>5, <1>6, <1>10, <2>1
  <2>3. N + M1 # 0
    BY <1>1, <1>4, <1>5, <1>12, SMTT(20), ZenonT(20), SMTT(30)
  <2> QED
    BY <1>4, <1>5, <2>2, <2>3
<1> QED
  BY <1>2, <1>8, <1>9, <1>11, <1>12 DEF Budgeted, Q1, M1

\* A frame goes from a push to the end of a queue.
LEMMA Delivered ==
  ASSUME OutboxInv, Budgeted, push' \in [Pushers -> PushState], NEW u \in Pushers,
         push[u].at = "send", push[u].to \in running, Send(u)
  PROVE  Budgeted'
<1> DEFINE w == push[u].to
           size == push[u].size
           Q == QueuedBytes(chan, current)
           M == QueuedFrames(chan, current)
           A == FlightBytes(push, Sent)
           B == FlightBytes(push, Undone)
           C == FlightBytes(push, Counted)
           N == Senders(push)
<1>1. push \in [Pushers -> PushState] /\ chan \in Queues /\ current \in Writing /\ abandoned \in Nat
      /\ Limit \in Nat
  BY OutboxAssumption DEF OutboxInv, Budgeted
<1>2. /\ chan' = [chan EXCEPT ![w] = Append(@, size)] /\ push' = [push EXCEPT ![u] = NoPush]
      /\ UNCHANGED <<queued, current, abandoned>>
  BY DEF Send
<1>3. w \in Writers /\ size \in Sizes /\ size \in Nat
  BY <1>1, SizeFacts DEF PushState, Budgeted
<1>4. /\ push'[u] = NoPush /\ \A v \in Pushers \ {u} : push'[v] = push[v]
  BY <1>1, <1>2
<1>5. /\ Part(push[u], Sent) = size /\ Part(push[u], Undone) = 0 /\ Part(push[u], Counted) = size
      /\ Part(NoPush, Sent) = 0 /\ Part(NoPush, Undone) = 0 /\ Part(NoPush, Counted) = 0
      /\ NoPush.at = "idle"
  BY DEF Part, Sent, Undone, Counted, NoPush
<1>6. ASSUME NEW S
      PROVE  /\ FlightBytes(push, S) \in Nat
             /\ FlightBytes(push', S) = FlightBytes(push, S) - Part(push[u], S) + Part(NoPush, S)
  BY <1>1, <1>4, FlightMoves, SMTT(20), ZenonT(20), SMTT(30)
<1>7. /\ A \in Nat /\ FlightBytes(push', Sent) = A - size
      /\ B \in Nat /\ FlightBytes(push', Undone) = B
      /\ C \in Nat /\ FlightBytes(push', Counted) = C - size
  <2>1. A \in Nat /\ FlightBytes(push', Sent) = A - Part(push[u], Sent) + Part(NoPush, Sent)
    BY <1>6
  <2>2. B \in Nat /\ FlightBytes(push', Undone) = B - Part(push[u], Undone) + Part(NoPush, Undone)
    BY <1>6
  <2>3. C \in Nat /\ FlightBytes(push', Counted) = C - Part(push[u], Counted) + Part(NoPush, Counted)
    BY <1>6
  <2> QED
    BY <1>3, <1>5, <2>1, <2>2, <2>3, SMTT(20), ZenonT(20), SMTT(30)
<1>8. N \in Nat /\ Senders(push') = N - 1
  <2>1. N \in Nat
    BY <1>1, SenderFacts DEF Budgeted
  <2>2. Senders(push') = N - (IF push[u].at = "send" THEN 1 ELSE 0)
                           + (IF NoPush.at = "send" THEN 1 ELSE 0)
    BY <1>1, <1>4, SendersMove
  <2> QED
    BY <1>5, <2>1, <2>2
<1>9. chan' \in Queues
  <2>1. Append(chan[w], size) \in Seq(Sizes)
    BY <1>1, <1>3 DEF Queues
  <2> QED
    BY <1>1, <1>2, <2>1, Zenon DEF Queues
<1>10. /\ Q \in Nat /\ QueuedBytes(chan', current') = Q + size
       /\ M \in Nat /\ QueuedFrames(chan', current') = M + 1
  <2> DEFINE x == HeldBytes(chan, current, w)
             x1 == HeldBytes(chan', current', w)
             y == HeldFrames(chan, current, w)
             y1 == HeldFrames(chan', current', w)
  <2>1. \A v \in Writers \ {w} : chan'[v] = chan[v] /\ current'[v] = current[v]
    BY <1>1, <1>2 DEF Queues
  <2>2. current' \in Writing
    BY <1>1, <1>2, SMTT(20), ZenonT(20), SMTT(30)
  <2>3. /\ QueuedBytes(chan', current') = Q - x + x1 /\ QueuedFrames(chan', current') = M - y + y1
        /\ x \in Nat /\ x1 \in Nat /\ y \in Nat /\ y1 \in Nat
    BY <1>1, <1>3, <1>9, <2>1, <2>2, QueueMoves, SMTT(20), ZenonT(20), SMTT(30)
  <2>4. Q \in Nat /\ M \in Nat
    BY <1>1, QueueFacts, SMTT(20), ZenonT(20), SMTT(30)
  <2>5. x1 = x + size /\ y1 = y + 1
    <3> DEFINE q == chan[w]
    <3>1. q \in Seq(Sizes) /\ chan'[w] = Append(q, size) /\ current'[w] = current[w]
      BY <1>1, <1>2, <1>3, SMTT(20), ZenonT(20), SMTT(30) DEF Queues
    <3>2. SumFunction(Append(q, size)) = SumFunction(q) + size /\ SumFunction(q) \in Nat
      BY <1>3, <3>1, QueueSum, SMTT(20), ZenonT(20), SMTT(30)
    <3>3. Len(Append(q, size)) = Len(q) + 1 /\ Len(q) \in Nat
      BY <1>3, <3>1
    <3>4. current[w] \in Nat
      BY <1>1, <1>3, SizeFacts, SMTT(20), ZenonT(20), SMTT(30) DEF Writing
    <3>5. x = SumFunction(q) + current[w] /\ x1 = SumFunction(Append(q, size)) + current[w]
          /\ y = Len(q) + (IF current[w] = 0 THEN 0 ELSE 1)
          /\ y1 = Len(Append(q, size)) + (IF current[w] = 0 THEN 0 ELSE 1)
      BY <3>1 DEF HeldBytes, HeldFrames
    <3> HIDE DEF x, x1, y, y1, q, size
    <3>6. x1 = x + size
      BY <1>3, <3>2, <3>4, <3>5
    <3>7. y1 = y + 1
      BY <3>3, <3>5
    <3> QED
      BY <3>6, <3>7
  <2> HIDE DEF Q, M, x, x1, y, y1, size
  <2> QED
    BY <1>3, <2>3, <2>4, <2>5
<1>11. A + B = C /\ queued = Q + C + abandoned /\ (Q + A > Limit => N + M = 1)
  BY DEF Budgeted
<1>12. \A v \in Pushers : push'[v].at # "idle" => push'[v].size \in Sizes
  BY <1>4, <1>5 DEF Budgeted
<1> HIDE DEF Q, M, A, B, C, N, size
<1>13. (A - size) + B = C - size /\ queued = (Q + size) + (C - size) + abandoned
       /\ ((Q + size) + (A - size) > Limit => (N - 1) + (M + 1) = 1)
  BY <1>1, <1>3, <1>7, <1>8, <1>10, <1>11
<1> QED
  BY <1>1, <1>2, <1>7, <1>8, <1>9, <1>10, <1>12, <1>13 DEF Budgeted

LEMMA PushBudget ==
  ASSUME OutboxInv, Budgeted, push' \in [Pushers -> PushState], NEW u \in Pushers, PushStep(u)
  PROVE  Budgeted'
<1>1. push \in [Pushers -> PushState] /\ push[u] \in PushState /\ Limit \in Nat
      /\ (push[u].at # "idle" => push[u].size \in Sizes) /\ push[u].size \in Nat
  BY OutboxAssumption, SizeFacts DEF OutboxInv, Budgeted, PushState
<1>2. NoPush.at = "idle" /\ Part(NoPush, Counted) = 0
  BY DEF NoPush, Part, Counted
<1>3. queued \in Nat
  <2>1. chan \in Queues /\ current \in Writing /\ abandoned \in Nat
        /\ queued = QueuedBytes(chan, current) + FlightBytes(push, Counted) + abandoned
    BY DEF Budgeted
  <2>2. QueuedBytes(chan, current) \in Nat /\ FlightBytes(push, Counted) \in Nat
    BY <1>1, <2>1, QueueFacts, FlightType, SMTT(20), ZenonT(20), SMTT(30)
  <2> QED
    BY <2>1, <2>2
<1>4. ASSUME \A v \in Pushers \ {u} : push'[v] = push[v], UNCHANGED <<chan, current, abandoned>>,
             push'[u].at # "idle" => push'[u].size \in Sizes,
             queued' = queued - Part(push[u], Counted) + Part(push'[u], Counted),
             push'[u].at = "send" =>
               push[u].at = "add" /\ (queued = 0 \/ queued + push'[u].size <= Limit)
      PROVE  Budgeted'
  BY <1>4, PushOnly
<1>5. CASE Add(u)
  <2>1. /\ push'[u] = [push[u] EXCEPT !.at = IF Over(push[u].size) THEN "release" ELSE "send"]
        /\ \A v \in Pushers \ {u} : push'[v] = push[v]
    BY <1>1, <1>5 DEF Add
  <2>2. /\ push'[u].at = (IF Over(push[u].size) THEN "release" ELSE "send")
        /\ push'[u].size = push[u].size
    BY <1>1, <2>1 DEF PushState
  <2>3. Part(push[u], Counted) = 0 /\ Part(push'[u], Counted) = push[u].size
    BY <1>5, <2>2 DEF Add, Part, Counted
  <2>4. push[u].at = "add" /\ queued' = queued + push[u].size /\ UNCHANGED <<chan, current, abandoned>>
    BY <1>5 DEF Add
  <2>5. queued' = queued - Part(push[u], Counted) + Part(push'[u], Counted)
    BY <1>1, <1>3, <2>3, <2>4
  <2>6. push'[u].at = "send" => queued = 0 \/ queued + push'[u].size <= Limit
    BY <1>1, <1>3, <2>2 DEF Over
  <2> QED
    BY <1>1, <1>4, <2>1, <2>2, <2>4, <2>5, <2>6
<1>6. CASE Send(u)
  <2>1. CASE push[u].to \in running
    BY <1>6, <2>1, Delivered DEF Send
  <2>2. CASE push[u].to \notin running
    <3>1. /\ push[u].at = "send" /\ push' = [push EXCEPT ![u].at = "unsend"]
          /\ UNCHANGED <<queued, chan, current, abandoned>>
      BY <1>6, <2>2 DEF Send
    <3>2. /\ push'[u].at = "unsend" /\ push'[u].size = push[u].size
          /\ \A v \in Pushers \ {u} : push'[v] = push[v]
      BY <1>1, <3>1 DEF PushState
    <3>3. Part(push[u], Counted) = push[u].size /\ Part(push'[u], Counted) = push[u].size
      BY <3>1, <3>2 DEF Part, Counted
    <3>4. queued' = queued - Part(push[u], Counted) + Part(push'[u], Counted)
      BY <1>1, <1>3, <3>1, <3>3
    <3> QED
      BY <1>1, <1>4, <3>1, <3>2, <3>4
  <2> QED
    BY <2>1, <2>2
<1>7. CASE Unsend(u)
  <2>1. /\ push[u].at = "unsend" /\ push' = [push EXCEPT ![u] = NoPush]
        /\ queued' = queued - push[u].size /\ UNCHANGED <<chan, current, abandoned>>
    BY <1>7 DEF Unsend
  <2>2. push'[u] = NoPush /\ \A v \in Pushers \ {u} : push'[v] = push[v]
    BY <1>1, <2>1
  <2>3. Part(push[u], Counted) = push[u].size
    BY <2>1 DEF Part, Counted
  <2>4. queued' = queued - Part(push[u], Counted) + Part(push'[u], Counted)
    BY <1>1, <1>2, <1>3, <2>1, <2>2, <2>3
  <2> QED
    BY <1>2, <1>4, <2>1, <2>2, <2>4
<1>8. CASE Release(u)
  <2>1. /\ push[u].at = "release" /\ push' = [push EXCEPT ![u].at = "swap"]
        /\ queued' = queued - push[u].size /\ UNCHANGED <<chan, current, abandoned>>
    BY <1>8 DEF Release
  <2>2. /\ push'[u].at = "swap" /\ push'[u].size = push[u].size
        /\ \A v \in Pushers \ {u} : push'[v] = push[v]
    BY <1>1, <2>1 DEF PushState
  <2>3. Part(push[u], Counted) = push[u].size /\ Part(push'[u], Counted) = 0
    BY <2>1, <2>2 DEF Part, Counted
  <2>4. queued' = queued - Part(push[u], Counted) + Part(push'[u], Counted)
    BY <1>1, <1>3, <2>1, <2>3
  <2> QED
    BY <1>1, <1>4, <2>1, <2>2, <2>4
<1>9. CASE Swap(u) \/ CloseSlow(u)
  <2>1. /\ push[u].at \in {"swap", "close"} /\ UNCHANGED <<queued, chan, current, abandoned>>
        /\ \/ push' = [push EXCEPT ![u] = NoPush]
           \/ push' = [push EXCEPT ![u] = [push[u] EXCEPT !.at = "close"]]
    BY <1>1, <1>9 DEF Swap, CloseSlow
  <2>2. \A v \in Pushers \ {u} : push'[v] = push[v]
    BY <1>1, <2>1
  <2>3. push'[u] = NoPush \/ (push'[u].at = "close" /\ push'[u].size = push[u].size)
    BY <1>1, <2>1 DEF PushState
  <2>4. Part(push[u], Counted) = 0 /\ Part(push'[u], Counted) = 0
    BY <1>2, <2>1, <2>3 DEF Part, Counted
  <2>5. queued' = queued - Part(push[u], Counted) + Part(push'[u], Counted)
    BY <1>3, <2>1, <2>4
  <2>6. push'[u].at # "send" /\ (push'[u].at # "idle" => push'[u].size \in Sizes)
    BY <1>1, <1>2, <2>1, <2>3
  <2> QED
    BY <1>4, <2>1, <2>2, <2>5, <2>6
<1> QED
  BY <1>5, <1>6, <1>7, <1>8, <1>9 DEF PushStep

LEMMA BeginBudget ==
  ASSUME OutboxInv, Budgeted, push' \in [Pushers -> PushState], NEW u \in Pushers,
         NEW w \in Writers, NEW s \in Sizes, Begin(u, w, s)
  PROVE  Budgeted'
<1>1. push \in [Pushers -> PushState]
  BY DEF OutboxInv
<1>2. /\ push[u].at = "idle" /\ UNCHANGED <<queued, chan, current, abandoned>>
      /\ push' = [push EXCEPT ![u] = [at |-> "add", to |-> w, size |-> s]]
  BY DEF Begin
<1>3. push'[u] = [at |-> "add", to |-> w, size |-> s] /\ \A v \in Pushers \ {u} : push'[v] = push[v]
  BY <1>1, <1>2
<1>4. push'[u].at = "add" /\ push'[u].size = s
  BY <1>3
<1>5. Part(push[u], Counted) = 0 /\ Part(push'[u], Counted) = 0
  BY <1>2, <1>4 DEF Part, Counted
<1>6. queued \in Nat
  <2>1. chan \in Queues /\ current \in Writing /\ abandoned \in Nat
        /\ queued = QueuedBytes(chan, current) + FlightBytes(push, Counted) + abandoned
    BY DEF Budgeted
  <2>2. QueuedBytes(chan, current) \in Nat /\ FlightBytes(push, Counted) \in Nat
    BY <1>1, <2>1, QueueFacts, FlightType
  <2> QED
    BY <2>1, <2>2, SMTT(20), ZenonT(20), SMTT(30)
<1>7. queued' = queued - Part(push[u], Counted) + Part(push'[u], Counted)
  BY <1>2, <1>5, <1>6
<1> QED
  BY <1>2, <1>3, <1>4, <1>7, PushOnly

LEMMA WriterBudget ==
  ASSUME OutboxInv, Budgeted, NEW w \in Writers, WriterStep(w)
  PROVE  Budgeted'
<1> DEFINE q == chan[w]
           z == current[w]
           k == SumFunction(q)
           n == Len(q)
<1>1. chan \in Queues /\ current \in Writing /\ abandoned \in Nat
  BY DEF Budgeted
<1>2. q \in Seq(Sizes) /\ z \in Sizes \cup {0} /\ z \in Nat
  BY <1>1, SizeFacts DEF Queues, Writing
<1>3. k \in Nat /\ n \in Nat
  BY <1>2, QueueSum
<1>4. HeldBytes(chan, current, w) = k + z
      /\ HeldFrames(chan, current, w) = n + (IF z = 0 THEN 0 ELSE 1)
  BY DEF HeldBytes, HeldFrames
<1>5. queued \in Nat
  <2>1. push \in [Pushers -> PushState]
        /\ queued = QueuedBytes(chan, current) + FlightBytes(push, Counted) + abandoned
    BY DEF Budgeted, OutboxInv
  <2>2. QueuedBytes(chan, current) \in Nat /\ FlightBytes(push, Counted) \in Nat
    BY <1>1, <2>1, QueueFacts, FlightType
  <2> QED
    BY <1>1, <2>1, <2>2
<1>6. <<>> \in Seq(Sizes) /\ Len(<<>>) = 0 /\ SumFunction(<<>>) = 0
  <2>1. <<>> \in Seq(Sizes) /\ Len(<<>>) = 0
    OBVIOUS
  <2> QED
    BY <2>1, QueueSum, Zenon
<1>7. CASE Recv(w)
  <2>1. /\ z = 0 /\ q # <<>> /\ current' = [current EXCEPT ![w] = Head(q)]
        /\ chan' = [chan EXCEPT ![w] = Tail(q)] /\ UNCHANGED <<push, queued, abandoned>>
    BY <1>7 DEF Recv
  <2>2. Head(q) \in Sizes /\ Tail(q) \in Seq(Sizes) /\ Len(Tail(q)) = n - 1
    BY <1>2, <2>1
  <2>3. Head(q) \in Nat /\ Head(q) # 0
    BY <2>2, SizeFacts
  <2>4. chan' \in Queues /\ current' \in Writing
        /\ \A v \in Writers \ {w} : chan'[v] = chan[v] /\ current'[v] = current[v]
    BY <1>1, <2>1, <2>2 DEF Queues, Writing
  <2>5. chan'[w] = Tail(q) /\ current'[w] = Head(q)
    BY <1>1, <2>1 DEF Queues, Writing
  <2>6. k = Head(q) + SumFunction(Tail(q)) /\ SumFunction(Tail(q)) \in Nat
    BY <1>2, <2>1, <2>2, QueueSum, Zenon
  <2>7. HeldBytes(chan', current', w) = SumFunction(Tail(q)) + Head(q)
        /\ HeldFrames(chan', current', w) = Len(Tail(q)) + 1
    BY <2>3, <2>5 DEF HeldBytes, HeldFrames
  <2>8. abandoned' \in Nat /\ abandoned' = abandoned /\ queued' = queued
    BY <1>1, <2>1
  <2> DEFINE t == SumFunction(Tail(q))
             h == Head(q)
  <2>9. t \in Nat /\ h \in Nat /\ k = h + t /\ HeldBytes(chan', current', w) = t + h
    BY <2>3, <2>6, <2>7
  <2>10. HeldFrames(chan', current', w) = n
    BY <1>3, <2>2, <2>7
  <2> HIDE DEF k, n, z, q, t, h
  <2>11. Shrinks(w)
    BY <1>1, <1>3, <1>4, <1>5, <2>1, <2>8, <2>9, <2>10 DEF Shrinks
  <2> QED
    BY <2>1, <2>4, <2>8, <2>11, WriterOnly
<1>8. ASSUME EndWrite(w), UNCHANGED <<chan, abandoned>>
      PROVE  Budgeted'
  <2>1. /\ z # 0 /\ queued' = queued - z /\ current' = [current EXCEPT ![w] = 0] /\ UNCHANGED push
        /\ abandoned' = abandoned /\ chan' = chan
    BY <1>8 DEF EndWrite
  <2>2. chan' \in Queues /\ current' \in Writing /\ abandoned' \in Nat
        /\ \A v \in Writers \ {w} : chan'[v] = chan[v] /\ current'[v] = current[v]
    BY <1>1, <2>1 DEF Writing
  <2>3. current'[w] = 0
    BY <1>1, <2>1 DEF Writing
  <2>4. HeldBytes(chan', current', w) = k + 0 /\ HeldFrames(chan', current', w) = n + 0
    BY <2>1, <2>3 DEF HeldBytes, HeldFrames
  <2> HIDE DEF k, n, z, q
  <2>5. Shrinks(w)
    BY <1>1, <1>2, <1>3, <1>4, <1>5, <2>1, <2>4, SMTT(20), ZenonT(20), SMTT(30) DEF Shrinks
  <2> QED
    BY <2>1, <2>2, <2>5, WriterOnly
<1>9. ASSUME Return(w), UNCHANGED push, queued' = queued - z, current' = [current EXCEPT ![w] = 0]
      PROVE  Budgeted'
  <2>1. abandoned' = abandoned + k /\ chan' = [chan EXCEPT ![w] = <<>>]
    BY <1>9 DEF Return
  <2>2. chan' \in Queues /\ current' \in Writing
        /\ \A v \in Writers \ {w} : chan'[v] = chan[v] /\ current'[v] = current[v]
    BY <1>1, <1>6, <1>9, <2>1 DEF Queues, Writing
  <2>3. chan'[w] = <<>> /\ current'[w] = 0
    BY <1>1, <1>9, <2>1 DEF Queues, Writing
  <2>4. HeldBytes(chan', current', w) = 0 /\ HeldFrames(chan', current', w) = 0
    BY <1>6, <2>3 DEF HeldBytes, HeldFrames
  <2> HIDE DEF k, n, z, q
  <2>5. abandoned' \in Nat
    BY <1>1, <1>3, <2>1
  <2>6. Shrinks(w)
    BY <1>1, <1>2, <1>3, <1>4, <1>5, <1>9, <2>1, <2>4 DEF Shrinks
  <2> QED
    BY <1>9, <2>2, <2>5, <2>6, WriterOnly
<1>10. CASE Written(w)
  BY <1>8, <1>10 DEF Written
<1>11. EndWrite(w) => UNCHANGED push /\ queued' = queued - z /\ current' = [current EXCEPT ![w] = 0]
  BY DEF EndWrite
<1>12. CASE WriteClosed(w)
  BY <1>8, <1>9, <1>11, <1>12 DEF WriteClosed
<1>13. CASE WriteStalled(w)
  BY <1>9, <1>11, <1>13 DEF WriteStalled
<1>14. CASE FinishStream(w)
  <2>1. Return(w) /\ z = 0 /\ UNCHANGED <<push, queued, current>>
    BY <1>14 DEF FinishStream
  <2>2. current' = [current EXCEPT ![w] = 0]
    BY <1>1, <2>1 DEF Writing
  <2>3. queued' = queued - z
    BY <1>5, <2>1
  <2> QED
    BY <1>9, <2>1, <2>2, <2>3, Zenon
<1> QED
  BY <1>7, <1>10, <1>12, <1>13, <1>14, SMTT(20), ZenonT(20), SMTT(30) DEF WriterStep

\* What the aborted writers held is abandoned.
LEMMA AbortBudget ==
  ASSUME OutboxInv, Budgeted, AbortWriters
  PROVE  Budgeted'
<1> DEFINE Q == QueuedBytes(chan, current)
           M == QueuedFrames(chan, current)
           A == FlightBytes(push, Sent)
           C == FlightBytes(push, Counted)
           N == Senders(push)
<1>1. push \in [Pushers -> PushState] /\ chan \in Queues /\ current \in Writing /\ abandoned \in Nat
      /\ Limit \in Nat /\ \A v \in Pushers : push[v].at # "idle" => push[v].size \in Sizes
  BY OutboxAssumption DEF OutboxInv, Budgeted
<1>2. Q \in Nat /\ M \in Nat /\ (Q = 0 <=> M = 0)
  BY <1>1, QueueFacts
<1>3. A \in Nat /\ N \in Nat /\ (A = 0 <=> N = 0) /\ C \in Nat
  BY <1>1, SenderFacts, FlightType, SMTT(20), ZenonT(20), SMTT(30)
<1>4. queued = Q + C + abandoned /\ (Q + A > Limit => N + M = 1)
      /\ A + FlightBytes(push, Undone) = C
  BY DEF Budgeted
<1>5. /\ abandoned' = abandoned + Q /\ UNCHANGED <<push, queued>>
      /\ chan' = [w \in Writers |-> <<>>] /\ current' = [w \in Writers |-> 0]
  BY DEF AbortWriters, InQueues, QueuedBytes
<1>6. chan' \in Queues /\ current' \in Writing /\ \A w \in Writers : chan'[w] = <<>> /\ current'[w] = 0
  BY <1>5 DEF Queues, Writing
<1>7. QueuedBytes(chan', current') = 0 /\ QueuedFrames(chan', current') = 0
  BY <1>6, QueueFacts
<1>8. /\ FlightBytes(push', Sent) = A /\ FlightBytes(push', Counted) = C
      /\ FlightBytes(push', Undone) = FlightBytes(push, Undone) /\ Senders(push') = N
  BY <1>5 DEF FlightBytes, Senders
<1> HIDE DEF Q, M, A, C, N
<1>9. abandoned' \in Nat /\ queued' = 0 + C + abandoned'
  BY <1>1, <1>2, <1>3, <1>4, <1>5
<1>10. 0 + A > Limit => N + 0 = 1
  BY <1>1, <1>2, <1>3, <1>4
<1> QED
  BY <1>1, <1>4, <1>5, <1>6, <1>7, <1>8, <1>9, <1>10 DEF Budgeted

LEMMA OutboxNextBudget ==
  ASSUME OutboxInv, Budgeted, [OutboxNext]_outboxVars
  PROVE  Budgeted'
<1>1. push' \in [Pushers -> PushState]
  BY OutboxNextInv DEF OutboxInv
<1>2. ASSUME NEW u \in Pushers, PushStep(u) PROVE Budgeted'
  BY <1>1, <1>2, PushBudget
<1>3. ASSUME NEW u \in Pushers, NEW w \in Writers, NEW s \in Sizes, Begin(u, w, s) PROVE Budgeted'
  BY <1>1, <1>3, BeginBudget
<1>4. ASSUME NEW w \in Writers, WriterStep(w) PROVE Budgeted'
  BY <1>4, WriterBudget, SMTT(20), ZenonT(20), SMTT(30)
<1>5. CASE CloseConn \/ DropHandles \/ UNCHANGED outboxVars
  <2>1. UNCHANGED <<queued, chan, current, abandoned, push>>
    BY <1>5, Zenon DEF CloseConn, DropHandles, outboxVars
  <2> QED
    BY <2>1 DEF Budgeted, QueuedBytes, QueuedFrames, FlightBytes, Senders
<1>6. CASE AbortWriters
  BY <1>6, AbortBudget
<1> QED
  BY <1>2, <1>3, <1>4, <1>5, <1>6 DEF OutboxNext

LEMMA OutboxInitBudget == OutboxInit => Budgeted
<1> SUFFICES ASSUME OutboxInit PROVE Budgeted
  OBVIOUS
<1>1. /\ queued = 0 /\ abandoned = 0 /\ chan = [w \in Writers |-> <<>>]
      /\ current = [w \in Writers |-> 0] /\ push = [u \in Pushers |-> NoPush]
  BY DEF OutboxInit
<1>2. push \in [Pushers -> PushState] /\ Limit \in Nat
  BY OutboxInitInv, OutboxAssumption DEF OutboxInv
<1>3. chan \in Queues /\ current \in Writing /\ \A w \in Writers : chan[w] = <<>> /\ current[w] = 0
  BY <1>1 DEF Queues, Writing
<1>4. QueuedBytes(chan, current) = 0
  BY <1>3, QueueFacts
<1>5. \A u \in Pushers : push[u].at = "idle"
  BY <1>1 DEF NoPush
<1>6. ASSUME NEW S \in {Sent, Undone, Counted} PROVE FlightBytes(push, S) = 0
  <2> DEFINE D == {v \in Pushers : push[v].at \in S}
             f == [v \in D |-> push[v].size]
  <2>1. D = {}
    BY <1>5 DEF Sent, Undone, Counted
  <2>2. IsFiniteSet(D) /\ f \in [D -> Nat]
    BY <2>1, FS_EmptySet
  <2>3. FlightBytes(push, S) = SumFunction(f)
    BY DEF FlightBytes
  <2> HIDE DEF D, f
  <2> QED
    BY <2>1, <2>2, <2>3, SumZero, Zenon
<1>7. FlightBytes(push, Sent) = 0 /\ FlightBytes(push, Undone) = 0 /\ FlightBytes(push, Counted) = 0
  BY <1>6
<1> QED
  BY <1>1, <1>2, <1>3, <1>4, <1>5, <1>7 DEF Budgeted

\* Budget::queued is exact and the queues stay within the budget, except for
\* one frame that is alone, for any number of tasks, any frame sizes and any
\* limit.
THEOREM BudgetHolds == OutboxSpec => []QueuesWithinBudget
<1>1. OutboxInv /\ Budgeted /\ [OutboxNext]_outboxVars => (OutboxInv /\ Budgeted)'
  BY OutboxNextInv, OutboxNextBudget, SMTT(20), ZenonT(20), SMTT(30)
<1>2. Budgeted => QueuesWithinBudget
  BY DEF Budgeted, QueuesWithinBudget, InQueues, InFlight, QueuedBytes, QueuedFrames, FlightBytes,
         Senders, Sent, Counted
<1> QED
  BY <1>1, <1>2, OutboxInitInv, OutboxInitBudget, PTL DEF OutboxSpec

-----------------------------------------------------------------------------
(***************************************************************************)
(* The bulk queue.                                                         *)
(***************************************************************************)
WakeInv ==
  waiting # <<>> \/ closed =>
    /\ pc = "parked" => notifying # {}
    /\ pc = "poll" => permit \/ notifying # {}

BulkInv == Shape /\ NewestSurvive /\ WakeInv

-----------------------------------------------------------------------------
LEMMA DeliveryFacts ==
  ASSUME NEW d \in Delivery
  PROVE  d.at \in Nat /\ d.size \in Nat /\ d.size \in Sizes
<1>1. d.at \in Nat /\ d.size \in Sizes
  BY DEF Delivery
<1> QED
  BY <1>1, OutboundAssumption, Zenon

LEMMA WaitingFacts ==
  ASSUME Shape
  PROVE  /\ Len(waiting) \in Nat
         /\ \A i \in 1 .. Len(waiting) :
              waiting[i] \in Delivery /\ waiting[i].at \in Int /\ waiting[i].size \in Int
<1>1. waiting \in Seq(Delivery)
  BY DEF Shape
<1>2. Len(waiting) \in Nat /\ \A i \in 1 .. Len(waiting) : waiting[i] \in Delivery
  BY <1>1
<1> QED
  BY <1>2, DeliveryFacts

\* What push leaves in the queue after k rounds of dropping.
LEMMA KeptFacts ==
  ASSUME Shape, NEW k \in 0 .. Len(waiting)
  PROVE  /\ Kept(k) \in Seq(Delivery)
         /\ Len(Kept(k)) = Len(waiting) - k
         /\ \A i \in 1 .. Len(waiting) - k : Kept(k)[i] = waiting[i + k]
  BY DEF Shape, Kept

\* A queued delivery goes to the end of the queue.
LEMMA AppendFacts ==
  ASSUME NEW s \in Seq(Delivery), NEW d \in Delivery
  PROVE  /\ Append(s, d) \in Seq(Delivery)
         /\ Append(s, d) # <<>>
         /\ Len(Append(s, d)) = Len(s) + 1
         /\ \A i \in 1 .. Len(s) : Append(s, d)[i] = s[i]
         /\ Append(s, d)[Len(s) + 1] = d
  OBVIOUS

\* The bytes freed by k rounds, in terms of waiting_bytes.
LEMMA FreedFacts ==
  ASSUME Shape, NewestSurvive, NEW k \in 0 .. Len(waiting)
  PROVE  /\ Freed(k) \in Int
         /\ waiting_bytes - Freed(k) =
              IF k = Len(waiting) THEN 0 ELSE accepted - waiting[k + 1].at
<1>1. \A i \in 1 .. Len(waiting) : waiting[i].at \in Int
  BY WaitingFacts
<1>2. accepted \in Int /\ waiting_bytes \in Int /\ Len(waiting) \in Nat
  BY DEF Shape
<1>3. waiting_bytes = IF Len(waiting) = 0 THEN 0 ELSE accepted - waiting[1].at
  BY DEF Shape, NewestSurvive
<1>4. CASE k = 0
  BY <1>1, <1>2, <1>3, <1>4 DEF Freed
<1>5. CASE k # 0 /\ k = Len(waiting)
  BY <1>1, <1>2, <1>3, <1>5 DEF Freed
<1>6. CASE k # 0 /\ k # Len(waiting)
  <2>1. 1 \in 1 .. Len(waiting) /\ k + 1 \in 1 .. Len(waiting) /\ Len(waiting) # 0
    BY <1>2, <1>6
  <2>2. Freed(k) = waiting[k + 1].at - waiting[1].at
    BY <1>6 DEF Freed
  <2>3. waiting[1].at \in Int /\ waiting[k + 1].at \in Int
    BY <1>1, <2>1
  <2> QED
    BY <1>2, <1>3, <1>6, <2>1, <2>2, <2>3, SMTT(60)
<1> QED
  BY <1>4, <1>5, <1>6

-----------------------------------------------------------------------------
LEMMA BulkInitInv == BulkInit => BulkInv
<1> SUFFICES ASSUME BulkInit PROVE BulkInv
  OBVIOUS
<1>1. Shape
  <2>1. waiting \in Seq(Delivery) /\ waiting_bytes \in Int /\ bytes \in Int /\ accepted \in Nat
    BY DEF BulkInit
  <2>2. closed \in BOOLEAN /\ permit \in BOOLEAN
    BY Zenon DEF BulkInit
  <2> QED
    BY <2>1, <2>2 DEF BulkInit, Shape
<1>2. NewestSurvive
  BY DEF BulkInit, NewestSurvive
<1>3. WakeInv
  BY DEF BulkInit, WakeInv
<1> QED
  BY <1>1, <1>2, <1>3 DEF BulkInv

LEMMA PushInv ==
  ASSUME BulkInv, NEW u \in Pushers, NEW size \in Sizes, Push(u, size)
  PROVE  BulkInv'
<1> DEFINE d == [at |-> accepted, size |-> size]
<1>1. PICK k \in 0 .. Len(waiting) :
        /\ waiting' = Append(Kept(k), d)
        /\ waiting_bytes' = waiting_bytes - Freed(k) + size
        /\ bytes' = bytes - Freed(k) + size
  BY DEF Push
<1>2. /\ accepted' = accepted + size /\ notifying' = notifying \cup {u}
      /\ closed' = closed /\ permit' = permit /\ pc' = pc
      /\ sending' = sending /\ finishing' = finishing
  BY DEF Push
<1>3. Shape /\ NewestSurvive
  BY DEF BulkInv
<1>4. d \in Delivery /\ size \in Nat
  BY <1>3, OutboundAssumption DEF Shape, Delivery
<1>5. d.at = accepted /\ d.size = size
  OBVIOUS
<1> HIDE DEF d
<1>6. /\ waiting' \in Seq(Delivery) /\ waiting' # <<>>
      /\ Len(waiting') = Len(waiting) - k + 1
      /\ \A i \in 1 .. Len(waiting) - k : waiting'[i] = waiting[i + k]
      /\ waiting'[Len(waiting) - k + 1] = d
  <2> DEFINE q == Kept(k)
  <2>1. /\ q \in Seq(Delivery) /\ Len(q) = Len(waiting) - k
        /\ \A i \in 1 .. Len(waiting) - k : q[i] = waiting[i + k]
    BY <1>3, KeptFacts, ZenonT(30)
  <2> HIDE DEF q
  <2>2. /\ Append(q, d) \in Seq(Delivery) /\ Append(q, d) # <<>>
        /\ Len(Append(q, d)) = Len(q) + 1
        /\ \A i \in 1 .. Len(q) : Append(q, d)[i] = q[i]
        /\ Append(q, d)[Len(q) + 1] = d
    BY <1>4, <2>1, AppendFacts
  <2>3. waiting' = Append(q, d)
    BY <1>1 DEF q
  <2> QED
    BY <2>1, <2>2, <2>3
<1>7. Freed(k) \in Int /\ waiting_bytes - Freed(k) =
        IF k = Len(waiting) THEN 0 ELSE accepted - waiting[k + 1].at
  BY <1>3, FreedFacts
<1>8. Shape'
  <2>1. waiting_bytes' \in Int /\ bytes' \in Int /\ accepted' \in Nat
    BY <1>1, <1>2, <1>3, <1>4, <1>7, SMTT(60) DEF Shape
  <2>2. notifying' \in SUBSET (Pushers \cup {Closer})
    BY <1>2, <1>3 DEF Shape
  <2> QED
    BY <1>2, <1>3, <1>6, <2>1, <2>2, SMTT(20), ZenonT(20), SMTT(30) DEF Shape
<1>9. NewestSurvive'
  <2>1. accepted \in Int /\ size \in Int /\ Len(waiting) \in Nat /\ k \in Nat /\ k <= Len(waiting)
    BY <1>3, <1>4 DEF Shape
  <2>2. \A i \in 1 .. Len(waiting) : waiting[i].at \in Int /\ waiting[i].size \in Int
    BY <1>3, WaitingFacts
  <2>3. ASSUME NEW i \in 1 .. Len(waiting')
        PROVE  waiting'[i].at + waiting'[i].size =
                 IF i = Len(waiting') THEN accepted' ELSE waiting'[i + 1].at
    <3>1. CASE i = Len(waiting) - k + 1
      BY <1>2, <1>5, <1>6, <2>1, <3>1
    <3>2. CASE i = Len(waiting) - k /\ i # Len(waiting) - k + 1
      <4>1. i + k = Len(waiting) /\ i + k \in 1 .. Len(waiting)
        BY <2>1, <3>2
      <4>2. waiting[i + k].at + waiting[i + k].size = accepted
        BY <1>3, <4>1 DEF NewestSurvive
      <4> QED
        BY <1>5, <1>6, <2>1, <3>2, <4>1, <4>2, SMTT(20), ZenonT(20), SMTT(30)
    <3>3. CASE i < Len(waiting) - k
      <4>1. i + k \in 1 .. Len(waiting) /\ i + k # Len(waiting) /\ i + k + 1 = (i + 1) + k
            /\ i + 1 \in 1 .. Len(waiting) - k /\ i \in 1 .. Len(waiting) - k
            /\ i # Len(waiting')
        BY <1>6, <2>1, <3>3
      <4>2. waiting[i + k].at + waiting[i + k].size = waiting[i + k + 1].at
        BY <1>3, <4>1 DEF NewestSurvive
      <4>3. waiting'[i] = waiting[i + k] /\ waiting'[i + 1] = waiting[(i + 1) + k]
        BY <1>6, <4>1
      <4> QED
        BY <4>1, <4>2, <4>3
    <3>4. Len(waiting') = Len(waiting) - k + 1
      BY <1>6
    <3> QED
      BY <2>1, <3>1, <3>2, <3>3, <3>4
  <2>4. waiting_bytes' = accepted' - waiting'[1].at
    <3>1. CASE k = Len(waiting)
      BY <1>1, <1>2, <1>5, <1>6, <1>7, <2>1, <3>1
    <3>2. CASE k # Len(waiting)
      <4>1. 1 \in 1 .. Len(waiting) - k /\ 1 + k = k + 1 /\ k + 1 \in 1 .. Len(waiting)
        BY <2>1, <3>2
      <4>2. waiting'[1] = waiting[k + 1] /\ waiting[k + 1].at \in Int
        BY <1>6, <2>2, <4>1
      <4> QED
        BY <1>1, <1>2, <1>7, <2>1, <3>2, <4>2
    <3> QED
      BY <3>1, <3>2
  <2> QED
    BY <1>6, <2>3, <2>4 DEF NewestSurvive
<1>10. WakeInv'
  BY <1>2 DEF WakeInv
<1> QED
  BY <1>8, <1>9, <1>10 DEF BulkInv

LEMMA TakeInv == BulkInv /\ Take => BulkInv'
<1> SUFFICES ASSUME BulkInv, Take PROVE BulkInv'
  OBVIOUS
<1>1. Shape /\ NewestSurvive /\ waiting # <<>>
  BY DEF BulkInv, Take
<1>2. /\ Head(waiting) = waiting[1] /\ waiting[1] \in Delivery
      /\ Tail(waiting) \in Seq(Delivery)
      /\ Len(waiting) \in Nat \ {0}
      /\ Len(Tail(waiting)) = Len(waiting) - 1
      /\ \A i \in 1 .. Len(waiting) - 1 : Tail(waiting)[i] = waiting[i + 1]
  BY <1>1 DEF Shape
<1>3. waiting' = Tail(waiting) /\ waiting_bytes' = waiting_bytes - waiting[1].size
      /\ accepted' = accepted
  BY <1>2 DEF Take
<1>4. waiting[1].at \in Int /\ waiting[1].size \in Int /\ accepted \in Int /\ waiting_bytes \in Int
  BY <1>1, <1>2, DeliveryFacts DEF Shape
<1>5. Shape'
  BY <1>1, <1>2, <1>4 DEF Shape, Take
<1>6. NewestSurvive'
  <2>1. \A i \in 1 .. Len(waiting) - 1 : i + 1 \in 1 .. Len(waiting)
    BY <1>2
  <2>2. \A i \in 1 .. Len(waiting) - 1 :
          waiting[i + 1].at + waiting[i + 1].size =
            IF i + 1 = Len(waiting) THEN accepted ELSE waiting[(i + 1) + 1].at
    BY <1>1, <2>1 DEF NewestSurvive
  <2>3. ASSUME NEW i \in 1 .. Len(waiting')
        PROVE  waiting'[i].at + waiting'[i].size =
                 IF i = Len(waiting') THEN accepted' ELSE waiting'[i + 1].at
    <3>1. i \in 1 .. Len(waiting) - 1 /\ (i = Len(waiting') <=> i + 1 = Len(waiting))
      BY <1>2, <1>3
    <3>2. waiting'[i] = waiting[i + 1]
      BY <1>2, <1>3, <3>1
    <3>3. ASSUME i # Len(waiting') PROVE waiting'[i + 1] = waiting[(i + 1) + 1]
      <4>1. Len(waiting) \in Nat
        BY <1>2
      <4>2. i + 1 # Len(waiting)
        BY <3>1, <3>3
      <4>3. i + 1 \in 1 .. Len(waiting) - 1
        BY <3>1, <4>1, <4>2
      <4> QED
        BY <1>2, <1>3, <4>3
    <3> QED
      BY <1>3, <2>2, <3>1, <3>2, <3>3
  <2>4. waiting[1].at + waiting[1].size =
          IF 1 = Len(waiting) THEN accepted ELSE waiting[1 + 1].at
    <3>1. 1 \in 1 .. Len(waiting)
      BY <1>2
    <3> QED
      BY <1>1, <3>1, Zenon DEF NewestSurvive
  <2>5. waiting_bytes = accepted - waiting[1].at
    BY <1>1 DEF NewestSurvive
  <2>6. waiting_bytes' = IF waiting' = <<>> THEN 0 ELSE accepted' - waiting'[1].at
    <3>1. CASE Len(waiting) = 1
      <4>1. waiting' = <<>>
        BY <1>2, <1>3, <3>1
      <4> QED
        BY <1>3, <1>4, <2>4, <2>5, <3>1, <4>1
    <3>2. CASE Len(waiting) # 1
      <4>1. waiting' # <<>> /\ waiting'[1] = waiting[1 + 1] /\ waiting[1 + 1].at = waiting[1].at + waiting[1].size
        <5>1. 1 \in 1 .. Len(waiting) - 1
          BY <1>2, <3>2
        <5>2. waiting'[1] = waiting[1 + 1]
          BY <1>2, <1>3, <5>1
        <5>3. waiting' # <<>>
          <6>1. Len(waiting') # 0
            BY <1>2, <1>3, <3>2
          <6>2. Len(<<>>) = 0
            OBVIOUS
          <6> QED
            BY <6>1, <6>2
        <5> QED
          BY <2>4, <3>2, <5>2, <5>3
      <4>2. waiting_bytes' = accepted - waiting'[1].at
        BY <1>3, <1>4, <2>5, <4>1, SMTT(60)
      <4> QED
        BY <1>3, <4>1, <4>2
    <3> QED
      BY <3>1, <3>2
  <2> QED
    BY <2>3, <2>6 DEF NewestSurvive
<1>7. WakeInv'
  BY DEF WakeInv, Take
<1> QED
  BY <1>5, <1>6, <1>7 DEF BulkInv

\* Steps that leave the queue and its counts alone keep NewestSurvive.
LEMMA QueueAlone ==
  NewestSurvive /\ UNCHANGED <<waiting, waiting_bytes, accepted>> => NewestSurvive'
  BY DEF NewestSurvive

LEMMA NotifyInv ==
  ASSUME BulkInv, NEW u \in Pushers \cup {Closer}, NotifyOne(u)
  PROVE  BulkInv'
<1>1. Shape'
  BY DEF BulkInv, Shape, NotifyOne
<1>2. NewestSurvive'
  BY QueueAlone DEF BulkInv, NotifyOne
<1>3. WakeInv'
  BY Zenon DEF BulkInv, Shape, WakeInv, NotifyOne
<1> QED
  BY <1>1, <1>2, <1>3 DEF BulkInv

LEMMA BulkNextInv == BulkInv /\ [BulkNext]_bulkVars => BulkInv'
<1> SUFFICES ASSUME BulkInv, [BulkNext]_bulkVars PROVE BulkInv'
  OBVIOUS
<1>1. ASSUME NEW u \in Pushers, NEW size \in Sizes, Push(u, size) PROVE BulkInv'
  BY <1>1, PushInv
<1>2. CASE Close
  <2>1. Shape' /\ WakeInv'
    BY <1>2 DEF BulkInv, Shape, WakeInv, Close
  <2> QED
    BY <1>2, <2>1, QueueAlone DEF BulkInv, Close
<1>3. ASSUME NEW u \in Pushers \cup {Closer}, NotifyOne(u) PROVE BulkInv'
  BY <1>3, NotifyInv
<1>4. CASE Acquire
  <2>1. Shape' /\ WakeInv'
    BY <1>4 DEF BulkInv, Shape, WakeInv, Acquire
  <2> QED
    BY <1>4, <2>1, QueueAlone DEF BulkInv, Acquire
<1>5. CASE Take
  BY <1>5, TakeInv
<1>6. CASE FindEmpty
  <2>1. Shape' /\ WakeInv'
    BY <1>6 DEF BulkInv, Shape, WakeInv, FindEmpty
  <2> QED
    BY <1>6, <2>1, QueueAlone DEF BulkInv, FindEmpty
<1>7. CASE Poll
  <2>1. Shape' /\ WakeInv'
    BY <1>7, Zenon DEF BulkInv, Shape, WakeInv, Poll
  <2> QED
    BY <1>7, <2>1, QueueAlone DEF BulkInv, Poll
<1>8. CASE Wake
  <2>1. Shape' /\ WakeInv'
    BY <1>8 DEF BulkInv, Shape, WakeInv, Wake
  <2> QED
    BY <1>8, <2>1, QueueAlone DEF BulkInv, Wake
<1>9. CASE Finish
  <2>1. Shape' /\ WakeInv'
    BY <1>9 DEF BulkInv, Shape, WakeInv, Finish
  <2> QED
    BY <1>9, <2>1, QueueAlone DEF BulkInv, Finish
<1>10. ASSUME NEW d \in sending, Done(d) PROVE BulkInv'
  <2>1. d.size \in Int
    BY DeliveryFacts DEF BulkInv, Shape
  <2>2. Shape' /\ WakeInv'
    BY <1>10, <2>1 DEF BulkInv, Shape, WakeInv, Done
  <2> QED
    BY <1>10, <2>2, QueueAlone DEF BulkInv, Done
<1>11. ASSUME NEW d \in finishing, DropSlot(d) PROVE BulkInv'
  <2>1. Shape' /\ WakeInv'
    BY <1>11 DEF BulkInv, Shape, WakeInv, DropSlot
  <2> QED
    BY <1>11, <2>1, QueueAlone DEF BulkInv, DropSlot
<1>12. CASE UNCHANGED bulkVars
  BY <1>12 DEF bulkVars, BulkInv, Shape, NewestSurvive, WakeInv
<1> QED
  BY <1>1, <1>2, <1>3, <1>4, <1>5, <1>6, <1>7, <1>8, <1>9, <1>10, <1>11, <1>12
  DEF BulkNext, Dispatch

LEMMA BulkSpecInv == BulkSpec => []BulkInv
  BY BulkInitInv, BulkNextInv, PTL DEF BulkSpec

-----------------------------------------------------------------------------
\* What waits is always the newest run of queued deliveries, and
\* waiting_bytes is exactly its length (BulkQueue::push and next).
THEOREM DropsOldestFirst == BulkSpec => []NewestSurvive
<1>1. BulkInv => NewestSurvive
  BY DEF BulkInv
<1> QED
  BY <1>1, BulkSpecInv, PTL

\* The dispatcher is never left parked beside work or a close
\* (BulkQueue::push, close and next).
THEOREM WakeupsArrive == BulkSpec => []NoLostWakeup
<1>1. BulkInv => NoLostWakeup
  BY DEF BulkInv, WakeInv, NoLostWakeup
<1> QED
  BY <1>1, BulkSpecInv, PTL

-----------------------------------------------------------------------------
LEMMA SizesFacts ==
  ASSUME NEW S \in SUBSET Delivery, IsFiniteSet(S)
  PROVE  /\ SumOfSizes(S) \in Nat
         /\ SumOfSizes(S) = 0 <=> S = {}
         /\ \A d \in S : SumOfSizes(S) = d.size + SumOfSizes(S \ {d})
<1> DEFINE f == [d \in S |-> d.size]
<1>1. f \in [S -> Nat] /\ \A d \in S : f[d] # 0
  <2>1. \A d \in S : d.size \in Nat /\ d.size # 0
    BY DeliveryFacts, OutboundAssumption
  <2> QED
    BY <2>1
<1>2. SumOfSizes(S) = SumFunction(f)
  BY DEF SumOfSizes
<1>3. ASSUME NEW d \in S PROVE SumOfSizes(S \ {d}) = SumFunction([c \in S \ {d} |-> f[c]])
  <2>1. [c \in S \ {d} |-> f[c]] = [c \in S \ {d} |-> c.size]
    OBVIOUS
  <2> QED
    BY <2>1 DEF SumOfSizes
<1>4. \A d \in S : f[d] = d.size
  OBVIOUS
<1> HIDE DEF f
<1>5. SumFunction(f) \in Nat
  BY <1>1, SumRemove
<1>6. SumFunction(f) = 0 <=> \A d \in S : f[d] = 0
  BY <1>1, SumZero
<1>7. \A d \in S : SumFunction(f) = f[d] + SumFunction([c \in S \ {d} |-> f[c]])
  BY <1>1, SumRemove
<1> QED
  BY <1>1, <1>2, <1>3, <1>4, <1>5, <1>6, <1>7, Zenon

LEMMA SizesAdd ==
  ASSUME NEW S \in SUBSET Delivery, IsFiniteSet(S), NEW d \in Delivery, d \notin S
  PROVE  SumOfSizes(S \cup {d}) = SumOfSizes(S) + d.size
<1> DEFINE R == S \cup {d}
<1>1. R \in SUBSET Delivery /\ IsFiniteSet(R) /\ d \in R /\ R \ {d} = S
  BY FS_AddElement
<1> HIDE DEF R
<1>2. SumOfSizes(R) = d.size + SumOfSizes(R \ {d})
  BY <1>1, SizesFacts
<1>3. SumOfSizes(S) \in Nat /\ d.size \in Nat
  BY SizesFacts, DeliveryFacts
<1>4. SumOfSizes(R) = d.size + SumOfSizes(S)
  BY <1>1, <1>2, Zenon
<1>5. SumOfSizes(R) = SumOfSizes(S) + d.size
  BY <1>3, <1>4
<1> QED
  BY <1>5 DEF R

\* Deliveries wait in the order they were queued in.
LEMMA ByAge ==
  ASSUME Shape, NewestSurvive
  PROVE  /\ \A i, j \in 1 .. Len(waiting) : i < j => waiting[i].at + waiting[i].size <= waiting[j].at
         /\ \A i \in 1 .. Len(waiting) : waiting[i].at + waiting[i].size <= accepted
<1> DEFINE L == Len(waiting)
           at(i) == IF i = L + 1 THEN accepted ELSE waiting[i].at
           T == {n \in Nat : \A i \in 1 .. L :
                   i + 1 + n <= L + 1 => at(i) + waiting[i].size <= at(i + 1 + n)}
<1>1. /\ L \in Nat /\ accepted \in Nat
      /\ \A i \in 1 .. L : waiting[i].at \in Nat /\ waiting[i].size \in Nat
  BY WaitingFacts, DeliveryFacts DEF Shape
<1>2. \A i \in 1 .. L + 1 : at(i) \in Nat
  BY <1>1
<1>3. \A i \in 1 .. L : waiting[i].at = at(i) /\ at(i + 1) = at(i) + waiting[i].size
  BY <1>1 DEF NewestSurvive
<1>4. at(L + 1) = accepted
  OBVIOUS
<1> HIDE DEF at, L
<1>5. 0 \in T
  BY <1>1, <1>2, <1>3
<1>6. ASSUME NEW n \in Nat, n \in T PROVE n + 1 \in T
  <2> SUFFICES ASSUME NEW i \in 1 .. L, i + 1 + (n + 1) <= L + 1
               PROVE  at(i) + waiting[i].size <= at(i + 1 + (n + 1))
    OBVIOUS
  <2>1. PICK j \in 1 .. L : j = i + 1 + n
    <3> HIDE DEF T
    <3> QED
      BY <1>1
  <2>2. at(i) + waiting[i].size <= at(j)
    BY <1>1, <1>6, <2>1
  <2>3. i + 1 + (n + 1) = j + 1
    BY <2>1
  <2>4. at(j + 1) = at(j) + waiting[j].size /\ waiting[j].size \in Nat
        /\ at(j) \in Nat /\ at(i) \in Nat /\ waiting[i].size \in Nat
    BY <1>1, <1>2, <1>3
  <2>5. at(i) + waiting[i].size <= at(j + 1)
    BY <2>2, <2>4
  <2> QED
    BY <2>3, <2>5
<1>7. \A n \in Nat : n \in T
  <2> HIDE DEF T
  <2> QED
    BY <1>5, <1>6, NatSteps
<1>8. ASSUME NEW i \in 1 .. L, NEW j \in 1 .. L + 1, i < j
      PROVE  at(i) + waiting[i].size <= at(j)
  <2>1. PICK n \in Nat : i + 1 + n = j
    <3>1. j - i - 1 \in Nat /\ i + 1 + (j - i - 1) = j
      BY <1>1, <1>8
    <3> QED
      BY <3>1
  <2>2. i + 1 + n <= L + 1
    BY <1>1, <2>1
  <2> QED
    BY <1>7, <2>1, <2>2
<1> QED
  BY <1>1, <1>3, <1>4, <1>8, SMTT(20) DEF L

\* The bytes of the waiting deliveries, from the newest back.
LEMMA WaitingSum ==
  ASSUME Shape, NewestSurvive
  PROVE  waiting_bytes = SumOfSizes({waiting[i] : i \in 1 .. Len(waiting)})
<1> DEFINE L == Len(waiting)
           newest(n) == {waiting[i] : i \in L - n + 1 .. L}
           T == {n \in Nat : n <= L =>
                   /\ IsFiniteSet(newest(n))
                   /\ SumOfSizes(newest(n)) = IF n = 0 THEN 0 ELSE accepted - waiting[L - n + 1].at}
<1>1. /\ L \in Nat /\ accepted \in Nat
      /\ \A i \in 1 .. L : /\ waiting[i] \in Delivery
                           /\ waiting[i].at \in Nat /\ waiting[i].size \in Nat /\ waiting[i].size # 0
  BY WaitingFacts, DeliveryFacts, OutboundAssumption DEF Shape
<1>2. \A i \in 1 .. L : waiting[i].at + waiting[i].size = IF i = L THEN accepted ELSE waiting[i + 1].at
  BY DEF NewestSurvive
<1>3. \A i, j \in 1 .. L : i < j => waiting[i].at + waiting[i].size <= waiting[j].at
  BY ByAge
<1> HIDE DEF L
<1>4. 0 \in T
  <2>1. newest(0) = {}
    BY <1>1
  <2> HIDE DEF newest
  <2> QED
    BY <2>1, SizesFacts, FS_EmptySet
<1>5. ASSUME NEW n \in Nat, n \in T PROVE n + 1 \in T
  <2> SUFFICES ASSUME n + 1 <= L
               PROVE  /\ IsFiniteSet(newest(n + 1))
                      /\ SumOfSizes(newest(n + 1)) = accepted - waiting[L - (n + 1) + 1].at
    OBVIOUS
  <2> DEFINE k == L - n
  <2>1. k \in 1 .. L /\ L - (n + 1) + 1 = k /\ L - n + 1 = k + 1
    BY <1>1
  <2>2. newest(n + 1) = newest(n) \cup {waiting[k]}
    <3>1. (L - (n + 1) + 1 .. L) = (L - n + 1 .. L) \cup {k}
      BY <1>1, <2>1
    <3> QED
      BY <3>1
  <2>3. waiting[k] \notin newest(n)
    <3> SUFFICES ASSUME NEW i \in k + 1 .. L, waiting[i] = waiting[k] PROVE FALSE
      BY <2>1
    <3>1. i \in 1 .. L /\ k < i
      BY <1>1, <2>1
    <3>2. waiting[k].at + waiting[k].size <= waiting[i].at /\ waiting[k].at \in Nat
          /\ waiting[k].size \in Nat /\ waiting[k].size # 0
      BY <1>1, <1>3, <2>1, <3>1
    <3> QED
      BY <3>2
  <2>4. newest(n) \in SUBSET Delivery
    BY <1>1
  <2>5. /\ IsFiniteSet(newest(n))
        /\ SumOfSizes(newest(n)) = IF n = 0 THEN 0 ELSE accepted - waiting[k + 1].at
    BY <1>1, <1>5, <2>1, SMTT(20), ZenonT(20), SMTT(30)
  <2>6. waiting[k] \in Delivery /\ waiting[k].at \in Nat /\ waiting[k].size \in Nat
        /\ waiting[k].at + waiting[k].size = IF n = 0 THEN accepted ELSE waiting[k + 1].at
    BY <1>1, <1>2, <2>1
  <2>7. n # 0 => waiting[k + 1].at \in Nat
    BY <1>1, <2>1, SMTT(20), ZenonT(20), SMTT(30)
  <2> HIDE DEF newest, k
  <2>8. SumOfSizes(newest(n + 1)) = SumOfSizes(newest(n)) + waiting[k].size
    BY <2>2, <2>3, <2>4, <2>5, <2>6, SizesAdd, SMTT(20), ZenonT(20), SMTT(30)
  <2>9. IsFiniteSet(newest(n + 1))
    BY <2>2, <2>5, FS_AddElement, SMTT(20), ZenonT(20), SMTT(30)
  <2>10. SumOfSizes(newest(n + 1)) = accepted - waiting[k].at
    BY <1>1, <2>5, <2>6, <2>7, <2>8
  <2> QED
    BY <2>1, <2>9, <2>10
<1>6. L \in T
  <2> HIDE DEF T
  <2> QED
    BY <1>1, <1>4, <1>5, NatSteps
<1>7. newest(L) = {waiting[i] : i \in 1 .. L} /\ L - L + 1 = 1
  BY <1>1
<1>8. waiting_bytes = IF L = 0 THEN 0 ELSE accepted - waiting[1].at
  BY DEF Shape, NewestSurvive, L
<1> HIDE DEF newest
<1>9. SumOfSizes({waiting[i] : i \in 1 .. L}) = IF L = 0 THEN 0 ELSE accepted - waiting[1].at
  BY <1>1, <1>6, <1>7
<1> QED
  BY <1>8, <1>9 DEF L

-----------------------------------------------------------------------------
\* Where the waiting deliveries begin.
Front == IF waiting = <<>> THEN accepted ELSE waiting[1].at

\* The dispatcher's own permit of the slots semaphore.
Held == IF pc \in {"check", "poll", "parked", "woken"} THEN 1 ELSE 0

\* The deliveries on streams: they were queued before those that wait, so
\* the one that Take adds is new, and a sum of sizes counts each once.
OnStreams ==
  /\ IsFiniteSet(sending) /\ IsFiniteSet(finishing)
  /\ \A d \in sending : d.at + d.size <= Front
  /\ bytes = waiting_bytes + SumOfSizes(sending)
  /\ bytes > Budget => Len(waiting) + Cardinality(sending) = 1
  /\ Cardinality(sending) + Cardinality(finishing) + Held <= MaxStreams

LEMMA StreamFacts ==
  ASSUME Shape, OnStreams
  PROVE  /\ SumOfSizes(sending) \in Nat /\ (SumOfSizes(sending) = 0 <=> sending = {})
         /\ Cardinality(sending) \in Nat /\ Cardinality(finishing) \in Nat
         /\ Cardinality(sending) = 0 <=> sending = {}
         /\ Len(waiting) \in Nat /\ (Len(waiting) = 0 <=> waiting = <<>>)
         /\ accepted \in Nat /\ bytes \in Int /\ waiting_bytes \in Int /\ Held \in {0, 1}
<1>1. sending \in SUBSET Delivery /\ IsFiniteSet(sending) /\ IsFiniteSet(finishing)
  BY DEF Shape, OnStreams
<1>2. SumOfSizes(sending) \in Nat /\ (SumOfSizes(sending) = 0 <=> sending = {})
  BY <1>1, SizesFacts
<1>3. Cardinality(sending) \in Nat /\ Cardinality(finishing) \in Nat
      /\ (Cardinality(sending) = 0 <=> sending = {})
  BY <1>1, FS_CardinalityType, FS_EmptySet
<1>4. Len(waiting) \in Nat /\ (Len(waiting) = 0 <=> waiting = <<>>)
  BY DEF Shape
<1>5. accepted \in Nat /\ bytes \in Int /\ waiting_bytes \in Int /\ Held \in {0, 1}
  BY DEF Shape, Held
<1> QED
  BY <1>2, <1>3, <1>4, <1>5

LEMMA PushStreams ==
  ASSUME BulkInv, OnStreams, NEW u \in Pushers, NEW size \in Sizes, Push(u, size)
  PROVE  OnStreams'
<1>1. PICK k \in 0 .. Len(waiting) :
        /\ DropsOldest(k, size)
        /\ waiting' = Append(Kept(k), [at |-> accepted, size |-> size])
        /\ waiting_bytes' = waiting_bytes - Freed(k) + size
        /\ bytes' = bytes - Freed(k) + size
  BY DEF Push
<1>2. /\ accepted' = accepted + size /\ UNCHANGED <<pc, sending, finishing>>
      /\ RoomBesideStreams(size)
  BY DEF Push
<1>3. Shape /\ NewestSurvive
  BY DEF BulkInv
<1>4. size \in Nat /\ size # 0
  BY OutboundAssumption
<1>5. /\ Kept(k) \in Seq(Delivery) /\ Len(Kept(k)) = Len(waiting) - k
      /\ \A i \in 1 .. Len(waiting) - k : Kept(k)[i] = waiting[i + k]
  BY <1>3, KeptFacts
<1>6. /\ Len(waiting) \in Nat
      /\ Freed(k) \in Int /\ waiting_bytes - Freed(k) =
           IF k = Len(waiting) THEN 0 ELSE accepted - waiting[k + 1].at
  BY <1>3, FreedFacts, StreamFacts
<1>7. /\ waiting' # <<>> /\ Len(waiting') = Len(waiting) - k + 1
      /\ waiting'[1].at = IF k = Len(waiting) THEN accepted ELSE waiting[k + 1].at
  <2> DEFINE d == [at |-> accepted, size |-> size]
             q == Kept(k)
  <2>1. d \in Delivery /\ d.at = accepted
    BY <1>3, SMTT(20), ZenonT(20), SMTT(30) DEF Delivery, Shape
  <2>2. q \in Seq(Delivery) /\ Len(q) = Len(waiting) - k /\ waiting' = Append(q, d)
        /\ (k # Len(waiting) => q[1] = waiting[k + 1])
    BY <1>1, <1>5, <1>6, SMTT(20), ZenonT(20), SMTT(30)
  <2> HIDE DEF d, q
  <2>3. /\ Append(q, d) # <<>> /\ Len(Append(q, d)) = Len(q) + 1
        /\ \A i \in 1 .. Len(q) : Append(q, d)[i] = q[i]
        /\ Append(q, d)[Len(q) + 1] = d
    BY <2>1, <2>2, AppendFacts, SMTT(20), ZenonT(20), SMTT(30)
  <2>4. CASE k = Len(waiting)
    <3>1. Len(q) + 1 = 1
      BY <1>6, <2>2, <2>4
    <3> QED
      BY <1>6, <2>1, <2>2, <2>3, <2>4, <3>1
  <2>5. CASE k # Len(waiting)
    <3>1. 1 \in 1 .. Len(q)
      BY <1>6, <2>2, <2>5
    <3> QED
      BY <1>6, <2>2, <2>3, <2>5, <3>1
  <2> QED
    BY <2>4, <2>5
<1>8. k # Len(waiting) =>
        /\ waiting[k + 1].at \in Nat /\ waiting[k + 1].at < accepted
        /\ Front <= waiting[k + 1].at
  <2> SUFFICES ASSUME k # Len(waiting)
               PROVE  /\ waiting[k + 1].at \in Nat /\ waiting[k + 1].at < accepted
                      /\ Front <= waiting[k + 1].at
    OBVIOUS
  <2>1. k + 1 \in 1 .. Len(waiting) /\ 1 \in 1 .. Len(waiting) /\ waiting # <<>>
    BY <1>6
  <2>2. /\ waiting[k + 1] \in Delivery /\ waiting[1] \in Delivery
    BY <1>3, <2>1, WaitingFacts
  <2>3. /\ waiting[k + 1].at \in Nat /\ waiting[k + 1].size \in Nat /\ waiting[k + 1].size # 0
        /\ waiting[1].at \in Nat /\ waiting[1].size \in Nat
    BY <2>2, DeliveryFacts, OutboundAssumption
  <2>4. waiting[k + 1].at + waiting[k + 1].size <= accepted
        /\ (1 < k + 1 => waiting[1].at + waiting[1].size <= waiting[k + 1].at)
    BY <1>3, <2>1, ByAge
  <2>5. accepted \in Nat
    BY <1>3, SMTT(20), ZenonT(20), SMTT(30) DEF Shape
  <2>6. waiting[k + 1].at < accepted
    BY <2>3, <2>4, <2>5
  <2>7. waiting[1].at <= waiting[k + 1].at
    <3>1. CASE k = 0
      BY <2>3, <3>1
    <3>2. CASE k # 0
      BY <2>3, <2>4, <3>2, SMTT(20), ZenonT(20), SMTT(30)
    <3> QED
      BY <3>1, <3>2
  <2> QED
    BY <2>1, <2>3, <2>6, <2>7 DEF Front
<1>9. /\ SumOfSizes(sending) \in Nat /\ (SumOfSizes(sending) = 0 <=> sending = {})
      /\ Cardinality(sending) \in Nat /\ (Cardinality(sending) = 0 <=> sending = {})
      /\ accepted \in Nat /\ bytes \in Int /\ waiting_bytes \in Int
      /\ bytes = waiting_bytes + SumOfSizes(sending)
  BY <1>3, StreamFacts DEF OnStreams
<1>10. \A d \in sending : d.at + d.size <= Front'
  <2>1. Front \in Nat /\ Front <= Front'
    <3>1. CASE k = Len(waiting)
      <4>1. Front' = accepted
        BY <1>7, <3>1 DEF Front
      <4>2. waiting # <<>> => waiting[1].at \in Nat /\ waiting[1].at <= accepted
        <5> SUFFICES ASSUME waiting # <<>> PROVE waiting[1].at \in Nat /\ waiting[1].at <= accepted
          OBVIOUS
        <5>1. 1 \in 1 .. Len(waiting)
          BY <1>3 DEF Shape
        <5>2. waiting[1].at \in Nat /\ waiting[1].size \in Nat
          BY <1>3, <5>1, WaitingFacts, DeliveryFacts
        <5>3. waiting[1].at + waiting[1].size <= accepted
          BY <1>3, <5>1, ByAge
        <5> QED
          BY <1>9, <5>2, <5>3
      <4> QED
        BY <1>9, <4>1, <4>2 DEF Front
    <3>2. CASE k # Len(waiting)
      <4>1. Front' = waiting[k + 1].at /\ Front <= waiting[k + 1].at
        BY <1>7, <1>8, <3>2, ZenonT(30) DEF Front
      <4>2. 1 \in 1 .. Len(waiting) /\ waiting # <<>>
        BY <1>6, <3>2
      <4>3. waiting[1].at \in Nat
        BY <1>3, <4>2, WaitingFacts, DeliveryFacts, SMTT(20), ZenonT(20), SMTT(30)
      <4> QED
        BY <4>1, <4>2, <4>3, ZenonT(30) DEF Front
    <3> QED
      BY <3>1, <3>2
  <2>2. Front' \in Nat
    BY <1>7, <1>8, <1>9, SMTT(20), ZenonT(20), SMTT(30) DEF Front
  <2>3. ASSUME NEW d \in sending PROVE d.at + d.size <= Front'
    <3>1. d.at \in Nat /\ d.size \in Nat
      BY <1>3, DeliveryFacts DEF Shape
    <3>2. d.at + d.size <= Front
      BY DEF OnStreams
    <3> QED
      BY <2>1, <2>2, <3>1, <3>2
  <2> QED
    BY <2>3
<1>11. bytes' = waiting_bytes' + SumOfSizes(sending)
  <2>1. bytes' = bytes - Freed(k) + size /\ waiting_bytes' = waiting_bytes - Freed(k) + size
    BY <1>1
  <2> DEFINE on == SumOfSizes(sending)
  <2>2. Freed(k) \in Int /\ on \in Nat /\ bytes = waiting_bytes + on /\ waiting_bytes \in Int
    BY <1>6, <1>9
  <2> HIDE DEF on
  <2>3. bytes' = waiting_bytes' + on
    BY <1>4, <2>1, <2>2
  <2> QED
    BY <2>3 DEF on
<1>12. ASSUME bytes' > Budget PROVE Len(waiting') + Cardinality(sending) = 1
  <2>1. FitsAfter(k, size)
    BY <1>1 DEF DropsOldest
  <2>2. k = Len(waiting) \/ bytes - Freed(k) <= 0
    <3>1. bytes' = bytes - Freed(k) + size /\ Freed(k) \in Int /\ Budget \in Nat
      BY <1>1, <1>6, BulkAssumption, Zenon
    <3>2. ~(bytes - Freed(k) + size <= Budget)
      BY <1>4, <1>9, <1>12, <3>1, SMTT(20), ZenonT(20), SMTT(30)
    <3> QED
      BY <2>1, <3>2 DEF FitsAfter
  <2>3. CASE k = Len(waiting)
    <3>1. Freed(k) = waiting_bytes
      BY <1>6, <1>9, <2>3
    <3>2. bytes - waiting_bytes = SumOfSizes(sending)
      BY <1>9
    <3>3. SumOfSizes(sending) + size > Budget
      BY <1>1, <1>9, <1>12, <3>1
    <3>4. SumOfSizes(sending) = 0
      BY <1>2, <1>9, <3>2, <3>3, SMTT(20), ZenonT(20), SMTT(30) DEF RoomBesideStreams
    <3> QED
      BY <1>6, <1>7, <1>9, <2>3, <3>4, SMTT(20), ZenonT(20), SMTT(30)
  <2>4. CASE k # Len(waiting)
    <3>1. bytes - Freed(k) = (accepted - waiting[k + 1].at) + SumOfSizes(sending)
      BY <1>6, <1>8, <1>9, <2>4
    <3> QED
      BY <1>8, <1>9, <2>2, <2>4, <3>1, SMTT(20), ZenonT(20), SMTT(30)
  <2> QED
    BY <2>3, <2>4
<1>13. Cardinality(sending) + Cardinality(finishing) + Held' <= MaxStreams
  BY <1>2 DEF OnStreams, Held
<1>14. IsFiniteSet(sending) /\ IsFiniteSet(finishing)
  BY DEF OnStreams
<1>15. (SumOfSizes(sending))' = SumOfSizes(sending)
  BY <1>2 DEF SumOfSizes
<1> QED
  BY <1>2, <1>10, <1>11, <1>12, <1>13, <1>14, <1>15, SMTT(20), ZenonT(20), SMTT(30) DEF OnStreams

LEMMA TakeStreams == BulkInv /\ OnStreams /\ Take => OnStreams'
<1> SUFFICES ASSUME BulkInv, OnStreams, Take PROVE OnStreams'
  OBVIOUS
<1> DEFINE d == waiting[1]
<1>1. Shape /\ NewestSurvive /\ waiting # <<>> /\ pc = "check" /\ pc' = "acquire"
      /\ bytes' = bytes /\ accepted' = accepted /\ finishing' = finishing
  BY SMTT(20), ZenonT(20), SMTT(30) DEF BulkInv, Take
<1>2. /\ Head(waiting) = d /\ d \in Delivery
      /\ Len(waiting) \in Nat \ {0}
      /\ Len(Tail(waiting)) = Len(waiting) - 1
      /\ Tail(waiting) = <<>> <=> Len(waiting) = 1
      /\ \A i \in 1 .. Len(waiting) - 1 : Tail(waiting)[i] = waiting[i + 1]
  <2>1. /\ Head(waiting) = d /\ d \in Delivery /\ Len(waiting) \in Nat \ {0}
        /\ Tail(waiting) \in Seq(Delivery) /\ Len(Tail(waiting)) = Len(waiting) - 1
        /\ \A i \in 1 .. Len(waiting) - 1 : Tail(waiting)[i] = waiting[i + 1]
    BY <1>1 DEF Shape
  <2>2. \A t \in Seq(Delivery) : t = <<>> <=> Len(t) = 0
    OBVIOUS
  <2>3. Tail(waiting) = <<>> <=> Len(Tail(waiting)) = 0
    BY <2>1, <2>2, Zenon
  <2> QED
    BY <2>1, <2>3
<1>3. /\ waiting' = Tail(waiting) /\ waiting_bytes' = waiting_bytes - d.size
      /\ sending' = sending \cup {d}
  BY <1>2 DEF Take
<1>4. d.at \in Nat /\ d.size \in Nat /\ d.size # 0
  BY <1>2, DeliveryFacts, OutboundAssumption
<1>5. Front = d.at /\ Front' = d.at + d.size
  <2>1. d.at + d.size = IF 1 = Len(waiting) THEN accepted ELSE waiting[1 + 1].at
    <3>1. 1 \in 1 .. Len(waiting)
      BY <1>2
    <3> QED
      BY <1>1, <3>1, Zenon DEF NewestSurvive
  <2>2. CASE Len(waiting) = 1
    BY <1>1, <1>2, <1>3, <2>1, <2>2, SMTT(20), ZenonT(20), SMTT(30) DEF Front
  <2>3. CASE Len(waiting) # 1
    <3>1. 1 \in 1 .. Len(waiting) - 1
      BY <1>2, <2>3
    <3>2. waiting'[1] = waiting[1 + 1] /\ waiting' # <<>>
      BY <1>2, <1>3, <2>3, <3>1
    <3>3. Front' = waiting[1 + 1].at
      BY <3>2 DEF Front
    <3> QED
      BY <1>1, <2>1, <2>3, <3>3 DEF Front
  <2> QED
    BY <2>2, <2>3
<1>6. ASSUME NEW c \in sending
      PROVE  c.at \in Nat /\ c.size \in Nat /\ c.size # 0 /\ c.at + c.size <= d.at
  BY <1>1, <1>5, DeliveryFacts, OutboundAssumption DEF Shape, OnStreams
<1>7. d \notin sending
  BY <1>4, <1>6
<1>8. IsFiniteSet(sending) /\ IsFiniteSet(finishing) /\ sending \in SUBSET Delivery
      /\ bytes = waiting_bytes + SumOfSizes(sending)
      /\ (bytes > Budget => Len(waiting) + Cardinality(sending) = 1)
      /\ Cardinality(sending) + Cardinality(finishing) + 1 <= MaxStreams
  BY <1>1 DEF Shape, OnStreams, Held
<1>9. /\ SumOfSizes(sending) \in Nat /\ bytes \in Int /\ waiting_bytes \in Int
      /\ Cardinality(sending) \in Nat /\ Cardinality(finishing) \in Nat
  BY <1>1, StreamFacts
<1> HIDE DEF d
<1>10. SumOfSizes(sending)' = SumOfSizes(sending) + d.size
  <2>1. SumOfSizes(sending \cup {d}) = SumOfSizes(sending) + d.size
    BY <1>2, <1>7, <1>8, SizesAdd
  <2> QED
    BY <1>3, <2>1, SMTT(20), ZenonT(20), SMTT(30) DEF SumOfSizes
<1>11. IsFiniteSet(sending') /\ Cardinality(sending') = Cardinality(sending) + 1
  BY <1>3, <1>7, <1>8, FS_AddElement
<1>12. \A c \in sending' : c.at + c.size <= Front'
  BY <1>3, <1>4, <1>5, <1>6, SMTT(20), ZenonT(20), SMTT(30)
<1>13. bytes' = waiting_bytes' + SumOfSizes(sending)'
  BY <1>1, <1>3, <1>4, <1>8, <1>9, <1>10, SMTT(20), ZenonT(20), SMTT(30)
<1>14. bytes' > Budget => Len(waiting') + Cardinality(sending') = 1
  BY <1>1, <1>2, <1>3, <1>8, <1>9, <1>11, SMTT(20), ZenonT(20), SMTT(30)
<1>15. Cardinality(sending') + Cardinality(finishing') + Held' <= MaxStreams
  <2>1. Held' = 0 /\ finishing' = finishing
    BY <1>1 DEF Held
  <2> QED
    BY <1>8, <1>9, <1>11, <2>1
<1> QED
  BY <1>1, <1>8, <1>11, <1>12, <1>13, <1>14, <1>15 DEF OnStreams

LEMMA DoneStreams ==
  ASSUME BulkInv, OnStreams, NEW d \in sending, Done(d)
  PROVE  OnStreams'
<1>1. /\ bytes' = bytes - d.size /\ sending' = sending \ {d} /\ finishing' = finishing \cup {d}
      /\ UNCHANGED <<waiting, waiting_bytes, accepted, pc>>
  BY DEF Done
<1>2. Shape /\ sending \in SUBSET Delivery /\ d \in Delivery
  BY DEF BulkInv, Shape
<1>3. /\ SumOfSizes(sending) \in Nat /\ bytes \in Int /\ waiting_bytes \in Int
      /\ Cardinality(sending) \in Nat /\ Cardinality(finishing) \in Nat
      /\ Len(waiting) \in Nat /\ (Len(waiting) = 0 <=> waiting = <<>>) /\ Held \in {0, 1}
  BY <1>2, StreamFacts
<1>4. IsFiniteSet(sending) /\ IsFiniteSet(finishing)
      /\ bytes = waiting_bytes + SumOfSizes(sending)
      /\ (bytes > Budget => Len(waiting) + Cardinality(sending) = 1)
      /\ Cardinality(sending) + Cardinality(finishing) + Held <= MaxStreams
  BY DEF OnStreams
<1>5. /\ IsFiniteSet(sending') /\ Cardinality(sending') = Cardinality(sending) - 1
      /\ IsFiniteSet(finishing') /\ Cardinality(finishing') \in {Cardinality(finishing), Cardinality(finishing) + 1}
  BY <1>1, <1>4, FS_AddElement, FS_RemoveElement, Zenon
<1>6. SumOfSizes(sending) = d.size + SumOfSizes(sending)' /\ SumOfSizes(sending)' \in Nat
      /\ (SumOfSizes(sending)' = 0 <=> sending' = {}) /\ d.size \in Nat
  <2>1. SumOfSizes(sending) = d.size + SumOfSizes(sending \ {d})
    BY <1>2, <1>4, SizesFacts
  <2>2. sending \ {d} \in SUBSET Delivery /\ IsFiniteSet(sending \ {d})
    BY <1>1, <1>2, <1>5
  <2>3. SumOfSizes(sending \ {d}) \in Nat /\ (SumOfSizes(sending \ {d}) = 0 <=> sending \ {d} = {})
    BY <2>2, SizesFacts
  <2>4. SumOfSizes(sending)' = SumOfSizes(sending \ {d})
    BY <1>1 DEF SumOfSizes
  <2>5. d.size \in Nat
    BY <1>2, DeliveryFacts
  <2> QED
    BY <1>1, <2>1, <2>3, <2>4, <2>5, SMTT(20), ZenonT(20), SMTT(30)
<1>7. bytes' = waiting_bytes' + SumOfSizes(sending)'
  <2> DEFINE before == SumOfSizes(sending)
             after == SumOfSizes(sending)'
  <2>1. /\ bytes' = bytes - d.size /\ waiting_bytes' = waiting_bytes
        /\ bytes = waiting_bytes + before /\ waiting_bytes \in Int
        /\ before = d.size + after /\ after \in Nat /\ d.size \in Nat
    BY <1>1, <1>3, <1>4, <1>6
  <2> HIDE DEF before, after
  <2>2. bytes' = waiting_bytes' + after
    BY <2>1
  <2> QED
    BY <2>2 DEF after
<1>8. \A c \in sending' : c.at + c.size <= Front'
  BY <1>1 DEF OnStreams, Front
<1>9. ASSUME bytes' > Budget PROVE FALSE
  <2>1. Budget \in Nat
    BY BulkAssumption
  <2>2. bytes > Budget
    BY <1>1, <1>3, <1>6, <1>9, <2>1, SMTT(20), ZenonT(20), SMTT(30)
  <2>3. Len(waiting) = 0 /\ Cardinality(sending') = 0
    BY <1>3, <1>4, <1>5, <2>2, FS_CardinalityType, SMTT(20), ZenonT(20), SMTT(30)
  <2>4. waiting_bytes = 0
    BY <1>3, <2>3 DEF BulkInv, NewestSurvive
  <2>5. sending' = {}
    BY <1>5, <2>3, FS_EmptySet
  <2> QED
    BY <1>1, <1>6, <1>7, <1>9, <2>1, <2>4, <2>5
<1>10. Cardinality(sending') + Cardinality(finishing') + Held' <= MaxStreams
  <2>1. Held' = Held
    BY <1>1 DEF Held
  <2>2. MaxStreams \in Nat
    BY BulkAssumption
  <2> QED
    BY <1>3, <1>4, <1>5, <2>1, <2>2, SMTT(20)
<1> QED
  BY <1>5, <1>7, <1>8, <1>9, <1>10 DEF OnStreams

LEMMA DropSlotStreams ==
  ASSUME BulkInv, OnStreams, NEW d \in finishing, DropSlot(d)
  PROVE  OnStreams'
<1>1. finishing' = finishing \ {d} /\ UNCHANGED <<waiting, waiting_bytes, bytes, accepted, pc, sending>>
  BY DEF DropSlot
<1>2. Cardinality(sending) \in Nat /\ Cardinality(finishing) \in Nat /\ Held \in {0, 1} /\ MaxStreams \in Nat
  BY StreamFacts, BulkAssumption DEF BulkInv
<1>3. IsFiniteSet(finishing') /\ Cardinality(finishing') = Cardinality(finishing) - 1
  BY <1>1, FS_RemoveElement DEF OnStreams
<1>4. Cardinality(sending') + Cardinality(finishing') + Held' <= MaxStreams
  <2>1. Held' = Held /\ Cardinality(sending') = Cardinality(sending)
    BY <1>1 DEF Held
  <2>2. Cardinality(sending) + Cardinality(finishing) + Held <= MaxStreams
    BY DEF OnStreams
  <2> QED
    BY <1>2, <1>3, <2>1, <2>2
<1>5. SumOfSizes(sending)' = SumOfSizes(sending) /\ Front' = Front
  BY <1>1 DEF SumOfSizes, Front
<1> QED
  BY <1>1, <1>3, <1>4, <1>5 DEF OnStreams

\* Steps that touch neither the queue nor the streams.
LEMMA StreamsAlone ==
  ASSUME OnStreams, UNCHANGED <<waiting, waiting_bytes, bytes, accepted, sending, finishing>>,
         Cardinality(sending) + Cardinality(finishing) + Held' <= MaxStreams
  PROVE  OnStreams'
<1>1. SumOfSizes(sending)' = SumOfSizes(sending) /\ Front' = Front
  BY DEF SumOfSizes, Front
<1> QED
  BY <1>1 DEF OnStreams

LEMMA StreamsInv == BulkInv /\ OnStreams /\ [BulkNext]_bulkVars => OnStreams'
<1> SUFFICES ASSUME BulkInv, OnStreams, [BulkNext]_bulkVars PROVE OnStreams'
  BY SMTT(20), ZenonT(20), SMTT(30)
<1>1. Cardinality(sending) \in Nat /\ Cardinality(finishing) \in Nat /\ Held \in {0, 1}
      /\ Cardinality(sending) + Cardinality(finishing) + Held <= MaxStreams /\ MaxStreams \in Nat
  BY StreamFacts, BulkAssumption DEF BulkInv, OnStreams
<1>2. CASE Close \/ UNCHANGED bulkVars
  <2>1. UNCHANGED <<waiting, waiting_bytes, bytes, accepted, sending, finishing>> /\ Held' = Held
    BY <1>2 DEF Close, bulkVars, Held
  <2> QED
    BY <1>1, <2>1, StreamsAlone
<1>3. ASSUME NEW u \in Pushers \cup {Closer}, NotifyOne(u) PROVE OnStreams'
  <2>1. UNCHANGED <<waiting, waiting_bytes, bytes, accepted, sending, finishing>> /\ Held' = Held
    BY <1>3 DEF NotifyOne, Held
  <2> QED
    BY <1>1, <2>1, StreamsAlone
<1>4. CASE Acquire
  <2>1. UNCHANGED <<waiting, waiting_bytes, bytes, accepted, sending, finishing>> /\ Held' = 1
        /\ MaxStreams - Cardinality(sending) - Cardinality(finishing) > 0
    BY <1>4 DEF Acquire, Held, FreeSlots
  <2> QED
    BY <1>1, <2>1, StreamsAlone
<1>5. CASE FindEmpty \/ Poll \/ Wake \/ Finish
  <2>1. UNCHANGED <<waiting, waiting_bytes, bytes, accepted, sending, finishing>>
        /\ Held' \in {0, 1} /\ (Held = 0 => Held' = 0)
    BY <1>5 DEF FindEmpty, Poll, Wake, Finish, Held
  <2> QED
    BY <1>1, <2>1, StreamsAlone, SMTT(20), ZenonT(20), SMTT(30)
<1> QED
  BY <1>2, <1>3, <1>4, <1>5, PushStreams, TakeStreams, DoneStreams, DropSlotStreams
  DEF BulkNext, Dispatch

-----------------------------------------------------------------------------
\* BulkState's counters are exact and stay within the budget, except for a
\* delivery that is alone, and there are never more than max_bulk_streams
\* stream tasks (BulkQueue::push, next and done).
THEOREM CountersExact == BulkSpec => []WithinBudget
<1>1. BulkInit => OnStreams
  <2> SUFFICES ASSUME BulkInit PROVE OnStreams
    OBVIOUS
  <2>1. Shape
    BY BulkInitInv DEF BulkInv
  <2>2. SumOfSizes({}) = 0 /\ IsFiniteSet({}) /\ Cardinality({}) = 0
    BY SizesFacts, FS_EmptySet, SMTT(20), ZenonT(20), SMTT(30)
  <2> QED
    BY <2>2, BulkAssumption DEF BulkInit, OnStreams, Held
<1>2. BulkInv /\ OnStreams => WithinBudget
  <2> SUFFICES ASSUME BulkInv, OnStreams PROVE WithinBudget
    OBVIOUS
  <2>1. waiting_bytes = SumOfSizes({waiting[i] : i \in 1 .. Len(waiting)})
    BY WaitingSum, SMTT(20), ZenonT(20), SMTT(30) DEF BulkInv
  <2>2. Cardinality(sending) + Cardinality(finishing) <= MaxStreams
    BY StreamFacts, BulkAssumption DEF OnStreams, BulkInv
  <2> QED
    BY <2>1, <2>2 DEF OnStreams, WithinBudget
<1> QED
  BY <1>1, <1>2, BulkSpecInv, StreamsInv, PTL DEF BulkSpec
=============================================================================
