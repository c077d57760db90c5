--------------------------- MODULE ServiceProofs ---------------------------
(***************************************************************************)
(* The SFU's id is stable for any number of processes, starts and crashes, *)
(* and what fetch_info returns names an SFU that came up.                  *)
(*                                                                         *)
(* IdStable is not inductive: a process that is about to come up holds a   *)
(* key that is not among ids yet, and a write under way carries one that   *)
(* is not in the file.  Claims collects every key that is, or can become,  *)
(* an id; create_new makes it a set of at most one.                        *)
(*                                                                         *)
(* FetchedNamesSfu rests on where answers come from: a process that has    *)
(* its sockets is among ids, and a response is NotFound or the document of *)
(* such a process (FetchInv).  The middle part of the module shows what    *)
(* JsonField finds in that document when it is cut after any token: the    *)
(* protocol's field comes behind the id and the relay, so a document that  *)
(* has all of the one has all of the others (FetchFound).                  *)
(***************************************************************************)
EXTENDS Service, TLAPS

\* The process has its key for good: it read it, or created the file for it.
Holds(p) == unsaved[p] \/ pc[p] \in {"starting", "relaying", "spawned", "serving", "closing"}

Claims == ids \cup ({contents} \ {NoKey}) \cup {key[p] : p \in {q \in Procs : Holds(q)}}

Shape ==
  /\ pc \in [Procs -> {"down", "creating", "starting", "relaying", "spawned", "serving", "closing"}]
  /\ key \in [Procs -> Keys \cup {NoKey}]
  /\ unsaved \in [Procs -> BOOLEAN]
  /\ fresh \subseteq Keys
  /\ contents \in Keys \cup {NoKey}

OneKey ==
  /\ \A i, j \in Claims : i = j
  /\ Claims # {} => exists

IInv == Shape /\ OneKey

-----------------------------------------------------------------------------
\* A step that adds no claim and does not remove the file keeps OneKey.
LEMMA FewerClaims ==
  ASSUME OneKey, Claims' \subseteq Claims, exists => exists'
  PROVE  OneKey'
BY DEF OneKey

\* How the claims of the processes change when only p's state does.
LEMMA ClaimsOfOne ==
  ASSUME NEW p \in Procs, Shape, Shape',
         \A q \in Procs \ {p} : pc'[q] = pc[q] /\ unsaved'[q] = unsaved[q] /\ key'[q] = key[q],
         ids' \subseteq Claims, contents' \in Claims \cup {NoKey},
         Holds(p)' => key'[p] \in Claims
  PROVE  Claims' \subseteq Claims
<1> SUFFICES ASSUME NEW x \in Claims' PROVE x \in Claims
  OBVIOUS
<1>1. CASE x \in ids' \/ x \in {contents'} \ {NoKey}
  BY <1>1
<1>2. CASE \E q \in Procs : Holds(q)' /\ x = key'[q]
  <2> PICK q \in Procs : Holds(q)' /\ x = key'[q]
    BY <1>2
  <2>1. CASE q = p
    BY <2>1
  <2>2. CASE q # p
    <3>1. Holds(q) /\ x = key[q]
      BY <2>2 DEF Holds
    <3> QED
      BY <3>1 DEF Claims
  <2> QED
    BY <2>1, <2>2
<1> QED
  BY <1>1, <1>2 DEF Claims

-----------------------------------------------------------------------------
LEMMA InitHolds == Init => IInv
<1> SUFFICES ASSUME Init PROVE IInv
  OBVIOUS
<1>1. Shape
  BY DEF Init, Shape
<1>2. \A p \in Procs : ~Holds(p)
  BY DEF Init, Holds
<1>3. Claims = {}
  BY <1>2 DEF Init, Claims
<1> QED
  BY <1>1, <1>3 DEF IInv, OneKey

LEMMA ShapeKept == Shape /\ [Next]_vars => Shape'
<1> SUFFICES ASSUME Shape, [Next]_vars PROVE Shape'
  OBVIOUS
<1> USE DEF Shape
<1>1. CASE UNCHANGED vars
  BY <1>1 DEF vars, file, procs
<1>2. CASE \E p \in Procs : Main(p)
  <2> PICK p \in Procs : Main(p)
    BY <1>2
  <2>1. CASE Start(p)
    BY <2>1 DEF Start
  <2>2. CASE CreateKey(p)
    BY <2>2 DEF CreateKey
  <2>3. CASE WriteKey(p)
    BY <2>3 DEF WriteKey
  <2>4. CASE SpawnRelay(p) \/ BindEndpoint(p) \/ BindInfo(p) \/ CtrlC(p) \/ RelayStops(p)
    BY <2>4 DEF SpawnRelay, BindEndpoint, BindInfo, CtrlC, RelayStops, file
  <2>5. CASE StartFails(p) \/ Shutdown(p) \/ Bail(p) \/ Kill(p)
    BY <2>5, Zenon DEF StartFails, Shutdown, Bail, Kill, Exit, file
  <2> QED
    BY <2>1, <2>2, <2>3, <2>4, <2>5 DEF Main
<1>3. CASE \E p \in Procs : Info(p)
  BY <1>3 DEF Info, Accept, AcceptFails, Wake, file, procs
<1>4. CASE \E c \in Clients : Fetch(c)
  BY <1>4 DEF Fetch, Respond, HeadTimeout, GiveUp, Connect, SendRequest, Receive, file, procs
<1> QED
  BY <1>1, <1>2, <1>3, <1>4 DEF Next

LEMMA OneKeyKept == IInv /\ [Next]_vars => OneKey'
<1> SUFFICES ASSUME IInv, [Next]_vars PROVE OneKey'
  OBVIOUS
<1>s. Shape /\ OneKey /\ Shape'
  BY ShapeKept DEF IInv
<1>u. ASSUME UNCHANGED <<ids, contents, exists, pc, key, unsaved>> PROVE OneKey'
  BY <1>s, <1>u DEF OneKey, Claims, Holds
<1>1. CASE UNCHANGED vars
  BY <1>1, <1>u DEF vars, file, procs
<1>2. CASE \E p \in Procs : Main(p)
  <2> PICK p \in Procs : Main(p)
    BY <1>2
  <2>i. ids \subseteq Claims /\ contents \in Claims \cup {NoKey} /\ (Holds(p) => key[p] \in Claims)
    BY DEF Claims
  \* A start takes the key of the file, which is claimed already.
  <2>1. CASE Start(p)
    <3>1. Holds(p)' => key'[p] \in Claims
      BY <1>s, <2>1, <2>i DEF Start, Holds, Shape
    <3>2. \A q \in Procs \ {p} : pc'[q] = pc[q] /\ unsaved'[q] = unsaved[q] /\ key'[q] = key[q]
      BY <1>s, <2>1 DEF Start, Shape
    <3>3. ids' \subseteq Claims /\ contents' \in Claims \cup {NoKey} /\ exists' = exists
      BY <2>1, <2>i DEF Start
    <3>4. Claims' \subseteq Claims
      BY <1>s, <3>1, <3>2, <3>3, ClaimsOfOne
    <3> QED
      BY <1>s, <3>3, <3>4, FewerClaims
  \* create_new: the file, and with it any claim, either exists already or
  \* this is the only process with one.
  <2>2. CASE CreateKey(p)
    <3>0. \A q \in Procs \ {p} : pc'[q] = pc[q] /\ unsaved'[q] = unsaved[q] /\ key'[q] = key[q]
      BY <1>s, <2>2 DEF CreateKey, Shape
    <3>1. CASE exists
      <4>1. ~Holds(p)' /\ exists'
        BY <1>s, <2>2, <3>1, Zenon DEF CreateKey, Holds, Shape
      <4>2. Claims' \subseteq Claims
        BY <1>s, <2>2, <2>i, <3>0, <4>1, ClaimsOfOne DEF CreateKey
      <4> QED
        BY <1>s, <4>1, <4>2, FewerClaims
    <3>2. CASE ~exists
      <4>1. Claims = {}
        BY <1>s, <3>2 DEF OneKey
      <4>2. ids' = {} /\ {contents'} \ {NoKey} = {}
        BY <2>2, <4>1 DEF CreateKey, Claims
      <4>3. \A q \in Procs \ {p} : ~Holds(q)'
        BY <3>0, <4>1 DEF Claims, Holds
      <4>4. Claims' \subseteq {key'[p]}
        BY <4>2, <4>3 DEF Claims
      <4> QED
        BY <2>2, <4>4 DEF OneKey, CreateKey
    <3> QED
      BY <3>1, <3>2
  <2>3. CASE WriteKey(p)
    <3>1. Holds(p) /\ key'[p] \in Claims /\ exists' = exists
      BY <1>s, <2>3, <2>i DEF WriteKey, Holds, Shape
    <3>2. \A q \in Procs \ {p} : pc'[q] = pc[q] /\ unsaved'[q] = unsaved[q] /\ key'[q] = key[q]
      BY <1>s, <2>3 DEF WriteKey, Shape
    <3>3. ids' \subseteq Claims /\ contents' \in Claims \cup {NoKey}
      BY <2>3, <2>i, <3>1 DEF WriteKey
    <3>4. Claims' \subseteq Claims
      BY <1>s, <3>1, <3>2, <3>3, ClaimsOfOne
    <3> QED
      BY <1>s, <3>1, <3>4, FewerClaims
  <2>4. CASE BindEndpoint(p)
    <3>1. Holds(p) /\ key' = key /\ unsaved' = unsaved /\ contents' = contents /\ exists' = exists
      BY <2>4 DEF BindEndpoint, Holds, file
    <3>2. \A q \in Procs \ {p} : pc'[q] = pc[q]
      BY <1>s, <2>4 DEF BindEndpoint, Shape
    <3>3. ids' \subseteq Claims
      BY <2>4, <2>i, <3>1 DEF BindEndpoint
    <3>4. Claims' \subseteq Claims
      BY <1>s, <2>i, <3>1, <3>2, <3>3, ClaimsOfOne
    <3> QED
      BY <1>s, <3>1, <3>4, FewerClaims
  <2>5. CASE SpawnRelay(p) \/ BindInfo(p) \/ CtrlC(p) \/ RelayStops(p)
    <3>1. /\ key' = key /\ unsaved' = unsaved /\ contents' = contents /\ exists' = exists
          /\ ids' = ids
      BY <2>5 DEF SpawnRelay, BindInfo, CtrlC, RelayStops, file
    <3>2. (Holds(p)' => Holds(p)) /\ \A q \in Procs \ {p} : pc'[q] = pc[q]
      BY <1>s, <2>5 DEF SpawnRelay, BindInfo, CtrlC, RelayStops, Holds, Shape
    <3>3. Claims' \subseteq Claims
      BY <1>s, <2>i, <3>1, <3>2, ClaimsOfOne
    <3> QED
      BY <1>s, <3>1, <3>3, FewerClaims
  <2>6. CASE StartFails(p) \/ Shutdown(p) \/ Bail(p) \/ Kill(p)
    <3>1. key' = key /\ contents' = contents /\ exists' = exists /\ ids' = ids
      BY <2>6 DEF StartFails, Shutdown, Bail, Kill, Exit, file
    <3>2. \A q \in Procs \ {p} : pc'[q] = pc[q] /\ unsaved'[q] = unsaved[q]
      BY <1>s, <2>6 DEF StartFails, Shutdown, Bail, Kill, Exit, Shape
    <3>3. Holds(p)' => Holds(p)
      BY <1>s, <2>6 DEF StartFails, Shutdown, Bail, Kill, Exit, Holds, Shape
    <3>4. Claims' \subseteq Claims
      BY <1>s, <2>i, <3>1, <3>2, <3>3, ClaimsOfOne, SMTT(20)
    <3> QED
      BY <1>s, <3>1, <3>4, FewerClaims
  <2> QED
    BY <2>1, <2>2, <2>3, <2>4, <2>5, <2>6 DEF Main
<1>3. CASE \E p \in Procs : Info(p)
  BY <1>3, <1>u DEF Info, Accept, AcceptFails, Wake, file, procs
<1>4. CASE \E c \in Clients : Fetch(c)
  BY <1>4, <1>u DEF Fetch, Respond, HeadTimeout, GiveUp, Connect, SendRequest, Receive, file, procs
<1> QED
  BY <1>1, <1>2, <1>3, <1>4 DEF Next

\* The SFU's id is stable: load_or_create_key never gives two processes on
\* one key file different keys, whatever fails or is killed in between.
THEOREM IdIsStable == Spec => []IdStable
<1>1. IInv /\ [Next]_vars => IInv'
  BY ShapeKept, OneKeyKept DEF IInv
<1>2. IInv => IdStable
  BY DEF IInv, OneKey, Claims, IdStable
<1> QED
  BY InitHolds, <1>1, <1>2, PTL DEF Spec

-----------------------------------------------------------------------------
LEMMA FindOne ==
  ASSUME NEW S, NEW s \in Seq(S), NEW t, NEW k \in 1 .. Len(s), s[k] = t,
         \A i \in 1 .. Len(s) : s[i] = t => k <= i
  PROVE  Find(s, t) = k
<1> DEFINE I == {i \in 1 .. Len(s) : s[i] = t}
<1>1. k \in I /\ \A i \in I : k <= i /\ i \in Nat
  OBVIOUS
<1>2. Min(I) = k
  <2>1. k \in I /\ \A y \in I : k <= y
    BY <1>1
  <2>2. \A x \in I : (\A y \in I : x <= y) => x = k
    BY <1>1
  <2> HIDE DEF I
  <2> QED
    BY <2>1, <2>2, Zenon DEF Min
<1> HIDE DEF I
<1>3. Find(s, t) = IF I # {} THEN Min(I) ELSE 0
  BY DEF Find, I
<1> QED
  BY <1>1, <1>2, <1>3

LEMMA FindNone ==
  ASSUME NEW S, NEW s \in Seq(S), NEW t, \A i \in 1 .. Len(s) : s[i] # t
  PROVE  Find(s, t) = 0
<1>1. {i \in 1 .. Len(s) : s[i] = t} = {}
  OBVIOUS
<1> QED
  BY <1>1 DEF Find

LEMMA TokensDiffer ==
  /\ \A k, v : Name(k) # FirstOf(v) /\ Name(k) # LastOf(v) /\ Name(k) # EndToken
                /\ Name(k) # HeadEnd /\ Name(k) # Status(v)
  /\ \A v : FirstOf(v) # EndToken /\ LastOf(v) # EndToken
            /\ Status(v) # HeadEnd
  /\ \A k, l : Name(k) = Name(l) => k = l
  /\ Status("200") # Status("404")
  BY DEF Name, EndToken, HeadEnd, Status, FirstOf, LastOf

\* A field that arrived whole.
LEMMA FieldAt ==
  ASSUME NEW S, NEW text \in Seq(S), NEW name, NEW v, NEW k \in Nat, k + 4 <= Len(text),
         text[k + 1] = Name(name), text[k + 2] = FirstOf(v), text[k + 3] = LastOf(v),
         text[k + 4] = EndToken, \A i \in 1 .. Len(text) : text[i] = Name(name) => i = k + 1
  PROVE  JsonField(text, name) = Value(v)
<1> DEFINE rest == SubSeq(text, k + 2, Len(text))
<1>1. Find(text, Name(name)) = k + 1
  <2>1. k + 1 \in 1 .. Len(text) /\ \A i \in 1 .. Len(text) : text[i] = Name(name) => k + 1 <= i
    OBVIOUS
  <2> HIDE DEF rest
  <2> QED
    BY <2>1, FindOne
<1>2. rest \in Seq(S) /\ Len(rest) = Len(text) - (k + 1) /\ Len(rest) \in Nat
      /\ \A i \in 1 .. Len(rest) : rest[i] = text[k + 1 + i]
  OBVIOUS
<1>3. Len(rest) >= 3 /\ rest[1] = FirstOf(v) /\ rest[2] = LastOf(v) /\ rest[3] = EndToken
  BY <1>2
<1> HIDE DEF rest
<1>4. Find(rest, EndToken) = 3
  <2>1. 3 \in 1 .. Len(rest)
    BY <1>2, <1>3
  <2>2. \A i \in 1 .. Len(rest) : rest[i] = EndToken => 3 <= i
    <3> SUFFICES ASSUME NEW i \in 1 .. Len(rest), rest[i] = EndToken PROVE 3 <= i
      BY Zenon
    <3>1. i = 1 \/ i = 2 \/ 3 <= i
      BY <1>2
    <3>2. FirstOf(v) # EndToken /\ LastOf(v) # EndToken
      BY TokensDiffer
    <3> QED
      BY <1>3, <3>1, <3>2, Zenon
  <2> QED
    BY <1>2, <1>3, <2>1, <2>2, FindOne
<1>5. JsonField(text, name) = SubSeq(rest, 1, 2)
  BY <1>1, <1>4 DEF JsonField, rest
<1>6. SubSeq(rest, 1, 2) = <<rest[1], rest[2]>>
  <2> DEFINE u == SubSeq(rest, 1, 2)
  <2>1. u \in Seq(S) /\ Len(u) = 2 /\ u[1] = rest[1] /\ u[2] = rest[2]
    BY <1>2, <1>3
  <2> HIDE DEF u
  <2>2. u = <<u[1], u[2]>>
    BY <2>1
  <2> QED
    BY <2>1, <2>2 DEF u
<1> QED
  BY <1>3, <1>5, <1>6 DEF Value

LEMMA FieldAbsent ==
  ASSUME NEW S, NEW text \in Seq(S), NEW name, \A i \in 1 .. Len(text) : text[i] # Name(name)
  PROVE  JsonField(text, name) = Absent
<1>1. Find(text, Name(name)) = 0
  BY FindNone
<1> QED
  BY <1>1 DEF JsonField

\* u is s followed by t.
Joined(u, s, t) ==
  /\ Len(u) = Len(s) + Len(t)
  /\ \A i \in 1 .. Len(s) : u[i] = s[i]
  /\ \A i \in 1 .. Len(t) : u[Len(s) + i] = t[i]

LEMMA Join ==
  ASSUME NEW S, NEW s \in Seq(S), NEW t \in Seq(S)
  PROVE  s \o t \in Seq(S) /\ Joined(s \o t, s, t)
  BY DEF Joined

\* The tokens of a document.
Tokens(F, id, a) ==
  /\ Len(F) = 18
  /\ F[1] = Status("200") /\ F[2] = HeadEnd
  /\ F[3] = Name("sfu") /\ F[4] = FirstOf(id) /\ F[5] = LastOf(id) /\ F[6] = EndToken
  /\ F[7] = Name("relay") /\ F[8] = FirstOf(Relay) /\ F[9] = LastOf(Relay) /\ F[10] = EndToken
  /\ F[11] = Name("alpn") /\ F[12] = FirstOf(a) /\ F[13] = LastOf(a) /\ F[14] = EndToken
  /\ F[15] = Name("qad_port") /\ F[16] = FirstOf(QadPort) /\ F[17] = LastOf(QadPort)
  /\ F[18] = EndToken

LEMMA FoundTokens ==
  ASSUME NEW id, NEW a
  PROVE  (\E S : Found(id, a) \in Seq(S)) /\ Tokens(Found(id, a), id, a)
<1> DEFINE S == {Status("200"), HeadEnd, EndToken}
                \cup {Name(k) : k \in {"sfu", "relay", "alpn", "qad_port"}}
                \cup {FirstOf(v) : v \in {id, Relay, a, QadPort}}
                \cup {LastOf(v) : v \in {id, Relay, a, QadPort}}
           f1 == Field("sfu", id)
           f2 == Field("relay", Relay)
           f3 == Field("alpn", a)
           f4 == Field("qad_port", QadPort)
           h == <<Status("200"), HeadEnd>>
<1>1. ASSUME NEW k \in {"sfu", "relay", "alpn", "qad_port"}, NEW v \in {id, Relay, a, QadPort}
      PROVE  LET f == Field(k, v)
             IN  /\ f \in Seq(S) /\ Len(f) = 4
                 /\ f[1] = Name(k) /\ f[2] = FirstOf(v) /\ f[3] = LastOf(v) /\ f[4] = EndToken
  <2> DEFINE n == Name(k)
             x == FirstOf(v)
             y == LastOf(v)
  <2>1. n \in S /\ x \in S /\ y \in S /\ EndToken \in S
    OBVIOUS
  <2>2. Field(k, v) = <<n>> \o <<x, y>> \o <<EndToken>>
    BY DEF Field, Value
  <2> HIDE DEF n, x, y, S
  <2> DEFINE p == <<n>>
             q == <<x, y>>
             r == <<EndToken>>
  <2>3. /\ p \in Seq(S) /\ Len(p) = 1 /\ p[1] = n
        /\ q \in Seq(S) /\ Len(q) = 2 /\ q[1] = x /\ q[2] = y
        /\ r \in Seq(S) /\ Len(r) = 1 /\ r[1] = EndToken
    BY <2>1
  <2> DEFINE pq == p \o q
             f == pq \o r
  <2> HIDE DEF p, q, r
  <2>4. pq \in Seq(S) /\ Joined(pq, p, q)
    BY <2>3, Join, Zenon
  <2> HIDE DEF pq
  <2>5. pq \in Seq(S) /\ Len(pq) = 3 /\ pq[1] = n /\ pq[2] = x /\ pq[3] = y
    BY <2>3, <2>4 DEF Joined
  <2>6. f \in Seq(S) /\ Joined(f, pq, r)
    BY <2>3, <2>5, Join, Zenon
  <2> HIDE DEF f
  <2>7. Len(f) = 4 /\ f[1] = n /\ f[2] = x /\ f[3] = y /\ f[4] = EndToken
    BY <2>3, <2>5, <2>6 DEF Joined
  <2>8. Field(k, v) = f
    BY <2>2 DEF f, pq, p, q, r
  <2> QED
    BY <2>6, <2>7, <2>8 DEF n, x, y
<1>2. h \in Seq(S) /\ Len(h) = 2 /\ h[1] = Status("200") /\ h[2] = HeadEnd
  OBVIOUS
<1>3. Found(id, a) = h \o (f1 \o f2 \o f3 \o f4)
  BY DEF Found, Document
<1>4. /\ f1 \in Seq(S) /\ Len(f1) = 4
      /\ f1[1] = Name("sfu") /\ f1[2] = FirstOf(id) /\ f1[3] = LastOf(id) /\ f1[4] = EndToken
  BY <1>1
<1>5. /\ f2 \in Seq(S) /\ Len(f2) = 4
      /\ f2[1] = Name("relay") /\ f2[2] = FirstOf(Relay) /\ f2[3] = LastOf(Relay) /\ f2[4] = EndToken
  BY <1>1
<1>6. /\ f3 \in Seq(S) /\ Len(f3) = 4
      /\ f3[1] = Name("alpn") /\ f3[2] = FirstOf(a) /\ f3[3] = LastOf(a) /\ f3[4] = EndToken
  BY <1>1
<1>7. /\ f4 \in Seq(S) /\ Len(f4) = 4
      /\ f4[1] = Name("qad_port") /\ f4[2] = FirstOf(QadPort) /\ f4[3] = LastOf(QadPort)
      /\ f4[4] = EndToken
  BY <1>1
<1> HIDE DEF S, f1, f2, f3, f4, h
<1> DEFINE g2 == f1 \o f2
           g3 == g2 \o f3
           g4 == g3 \o f4
           F == h \o g4
<1>9. g2 \in Seq(S) /\ Joined(g2, f1, f2)
  BY <1>4, <1>5, Join, Zenon
<1> HIDE DEF g2
<1>10. g3 \in Seq(S) /\ Joined(g3, g2, f3)
  BY <1>6, <1>9, Join, Zenon
<1> HIDE DEF g3
<1>11. g4 \in Seq(S) /\ Joined(g4, g3, f4)
  BY <1>7, <1>10, Join, Zenon
<1> HIDE DEF g4
<1>12. F \in Seq(S) /\ Joined(F, h, g4)
  BY <1>2, <1>11, Join, Zenon
<1> HIDE DEF F
<1>13. /\ Len(g2) = 8
       /\ g2[1] = f1[1] /\ g2[2] = f1[2] /\ g2[3] = f1[3] /\ g2[4] = f1[4]
       /\ g2[5] = f2[1] /\ g2[6] = f2[2] /\ g2[7] = f2[3] /\ g2[8] = f2[4]
  BY <1>4, <1>5, <1>9 DEF Joined
<1>14. /\ Len(g3) = 12 /\ \A i \in 1 .. 8 : g3[i] = g2[i]
       /\ g3[9] = f3[1] /\ g3[10] = f3[2] /\ g3[11] = f3[3] /\ g3[12] = f3[4]
  BY <1>6, <1>10, <1>13 DEF Joined
<1>17. /\ Len(g4) = 16 /\ \A i \in 1 .. 12 : g4[i] = g3[i]
       /\ g4[13] = f4[1] /\ g4[14] = f4[2] /\ g4[15] = f4[3] /\ g4[16] = f4[4]
  BY <1>7, <1>11, <1>14 DEF Joined
<1>18. Len(F) = 18 /\ F[1] = h[1] /\ F[2] = h[2] /\ \A i \in 1 .. 16 : F[2 + i] = g4[i]
  BY <1>2, <1>12, <1>17 DEF Joined
<1>19. /\ F[3] = g2[1] /\ F[4] = g2[2] /\ F[5] = g2[3] /\ F[6] = g2[4]
       /\ F[7] = g2[5] /\ F[8] = g2[6] /\ F[9] = g2[7] /\ F[10] = g2[8]
  BY <1>14, <1>17, <1>18
<1>20. /\ F[11] = g3[9] /\ F[12] = g3[10] /\ F[13] = g3[11] /\ F[14] = g3[12]
       /\ F[15] = g4[13] /\ F[16] = g4[14] /\ F[17] = g4[15] /\ F[18] = g4[16]
  BY <1>17, <1>18
<1>15. Found(id, a) = F
  BY <1>3 DEF F, g4, g3, g2
<1>16. \E T : F \in Seq(T)
  BY <1>12
<1> QED
  BY <1>2, <1>4, <1>5, <1>6, <1>7, <1>13, <1>14, <1>15, <1>16, <1>17, <1>18, <1>19, <1>20, Zenon DEF Tokens

LEMMA Cut ==
  ASSUME NEW S, NEW s \in Seq(S), NEW n \in 0 .. Len(s)
  PROVE  SubSeq(s, 1, n) \in Seq(S) /\ Len(SubSeq(s, 1, n)) = n
         /\ \A i \in 1 .. n : SubSeq(s, 1, n)[i] = s[i]
  OBVIOUS

\* A name is at one place of a document.
LEMMA OneName ==
  ASSUME NEW F, NEW id, NEW a, Tokens(F, id, a), NEW j \in 3 .. 18
  PROVE  /\ F[j] = Name("sfu") => j = 3
         /\ F[j] = Name("relay") => j = 7
         /\ F[j] = Name("alpn") => j = 11
<1>1. /\ Name("sfu") # Name("relay") /\ Name("sfu") # Name("alpn") /\ Name("relay") # Name("alpn")
      /\ Name("sfu") # Name("qad_port") /\ Name("relay") # Name("qad_port")
      /\ Name("alpn") # Name("qad_port")
  BY TokensDiffer
<1>2. \A k, v : FirstOf(v) # Name(k) /\ LastOf(v) # Name(k) /\ EndToken # Name(k)
  BY TokensDiffer
<1>3. j \in {3, 4, 5, 6, 7, 8, 9, 10, 11, 12, 13, 14, 15, 16, 17, 18}
  OBVIOUS
<1> QED
  BY <1>1, <1>2, <1>3 DEF Tokens

\* What fetch_info makes of a document that was cut anywhere: what it accepts
\* has the id and the relay whole.
LEMMA FetchFound ==
  ASSUME NEW id, NEW a, NEW n \in 0 .. Len(Found(id, a)),
         FetchInfo(SubSeq(Found(id, a), 1, n)).ok
  PROVE  LET r == FetchInfo(SubSeq(Found(id, a), 1, n))
         IN  r.sfu = Value(id) /\ r.relay = Value(Relay) /\ r.alpn = Value(OurAlpn)
<1> DEFINE F == Found(id, a)
           p == SubSeq(F, 1, n)
           text == SubSeq(p, 3, Len(p))
           r == FetchInfo(p)
<1>1. PICK S : F \in Seq(S)
  BY FoundTokens, Zenon
<1>2. Tokens(F, id, a)
  BY FoundTokens, Zenon
<1>3. n \in 0 .. 18
  BY <1>2 DEF Tokens
<1> HIDE DEF F
<1>4. p \in Seq(S) /\ Len(p) = n /\ \A i \in 1 .. n : p[i] = F[i]
  <2>1. n \in 0 .. Len(F)
    BY <1>2, <1>3 DEF Tokens
  <2> QED
    BY <1>1, <2>1, Cut
<1> HIDE DEF p
<1>5. Refused.ok = FALSE
  BY DEF Refused
<1>6. n >= 2
  <2> SUFFICES ASSUME n < 2 PROVE FALSE
    BY <1>3
  <2>1. \A i \in 1 .. Len(p) : p[i] # HeadEnd
    BY <1>2, <1>3, <1>4, TokensDiffer, SMTT(20) DEF Tokens
  <2>2. Find(p, HeadEnd) = 0
    BY <1>4, <2>1, FindNone
  <2>3. r = Refused
    BY <2>2 DEF FetchInfo
  <2>4. r.ok
    BY DEF p, F
  <2> QED
    BY <1>5, <2>3, <2>4
<1>7. Find(p, HeadEnd) = 2
  <2>1. 2 \in 1 .. Len(p) /\ p[2] = HeadEnd
    BY <1>2, <1>3, <1>4, <1>6 DEF Tokens
  <2>2. p[1] # HeadEnd
    BY <1>2, <1>3, <1>4, <1>6, TokensDiffer DEF Tokens
  <2>3. \A i \in 1 .. Len(p) : p[i] = HeadEnd => 2 <= i
    BY <1>3, <1>4, <2>2
  <2> QED
    BY <1>4, <2>1, <2>3, FindOne
<1>8. text \in Seq(S) /\ Len(text) = n - 2 /\ \A i \in 1 .. n - 2 : text[i] = F[i + 2]
  <2>1. text \in Seq(S) /\ Len(text) = n - 2 /\ \A i \in 1 .. n - 2 : text[i] = p[i + 2]
    BY <1>3, <1>4, <1>6
  <2>2. \A i \in 1 .. n - 2 : p[i + 2] = F[i + 2]
    BY <1>3, <1>4, <1>6
  <2> QED
    BY <2>1, <2>2
<1> DEFINE info == Parse(text)
<1>9. r = IF p[1] # Status("200") \/ ~info.ok \/ info.alpn # Value(OurAlpn) THEN Refused ELSE info
  BY <1>7 DEF FetchInfo
<1>10. r.ok
  BY DEF p, F
<1>11. r = info /\ info.ok /\ info.alpn = Value(OurAlpn)
  BY <1>5, <1>9, <1>10
<1> DEFINE sfu == JsonField(text, "sfu")
           rel == JsonField(text, "relay")
           alp == JsonField(text, "alpn")
           qad == JsonField(text, "qad_port")
<1>12. info = IF Absent \in {sfu, rel, alp} \/ Len(sfu) < 2 \/ <<>> \in {rel, qad}
              THEN Refused ELSE [ok |-> TRUE, sfu |-> sfu, relay |-> rel, alpn |-> alp]
  BY DEF Parse
<1> HIDE DEF r, info, sfu, rel, alp, qad, text
<1>13. alp # Absent /\ info = [ok |-> TRUE, sfu |-> sfu, relay |-> rel, alpn |-> alp]
  BY <1>5, <1>11, <1>12
\* The third name is there, and so is everything before it.
<1>14. n >= 11
  <2> SUFFICES ASSUME n < 11 PROVE FALSE
    BY <1>3
  <2>1. ASSUME NEW i \in 1 .. Len(text) PROVE text[i] # Name("alpn")
    <3>1. text[i] = F[i + 2]
      BY <1>3, <1>6, <1>8
    <3>2. i + 2 \in 3 .. 18 /\ i + 2 # 11
      BY <1>3, <1>6, <1>8
    <3>3. F[i + 2] # Name("alpn")
      BY <1>2, <3>2, OneName, Zenon
    <3> QED
      BY <3>1, <3>3
  <2>2. alp = Absent
    BY <1>8, <2>1, FieldAbsent DEF alp
  <2> QED
    BY <1>13, <2>2
<1>15. ASSUME NEW i \in 1 .. Len(text)
       PROVE  (text[i] = Name("sfu") => i = 1) /\ (text[i] = Name("relay") => i = 5)
  <2>1. text[i] = F[i + 2] /\ i + 2 \in 3 .. 18
    BY <1>3, <1>6, <1>8
  <2>2. i + 2 # 3 => F[i + 2] # Name("sfu")
    BY <1>2, <2>1, OneName, Zenon
  <2>3. i + 2 # 7 => F[i + 2] # Name("relay")
    BY <1>2, <2>1, OneName, Zenon
  <2> QED
    BY <2>1, <2>2, <2>3
<1>16. /\ text[1] = F[3] /\ text[2] = F[4] /\ text[3] = F[5] /\ text[4] = F[6]
       /\ text[5] = F[7] /\ text[6] = F[8] /\ text[7] = F[9] /\ text[8] = F[10]
       /\ Len(text) \in Nat /\ 8 <= Len(text)
  BY <1>3, <1>8, <1>14
<1>17. sfu = Value(id)
  <2>1. /\ text[0 + 1] = Name("sfu") /\ text[0 + 2] = FirstOf(id) /\ text[0 + 3] = LastOf(id)
        /\ text[0 + 4] = EndToken /\ 0 + 4 <= Len(text)
    BY <1>2, <1>16 DEF Tokens
  <2>2. \A i \in 1 .. Len(text) : text[i] = Name("sfu") => i = 0 + 1
    BY <1>15
  <2> QED
    BY <1>8, <2>1, <2>2, FieldAt, Zenon DEF sfu
<1>18. rel = Value(Relay)
  <2> DEFINE k == 4
  <2>1. /\ text[k + 1] = Name("relay") /\ text[k + 2] = FirstOf(Relay) /\ text[k + 3] = LastOf(Relay)
        /\ text[k + 4] = EndToken /\ k + 4 <= Len(text) /\ k \in Nat
    BY <1>2, <1>16 DEF Tokens
  <2>2. \A i \in 1 .. Len(text) : text[i] = Name("relay") => i = k + 1
    BY <1>15
  <2> HIDE DEF k
  <2> QED
    BY <1>8, <2>1, <2>2, FieldAt, SMTT(20) DEF rel
<1>19. r.sfu = Value(id) /\ r.relay = Value(Relay) /\ r.alpn = Value(OurAlpn)
  BY <1>11, <1>13, <1>17, <1>18
<1> QED
  BY <1>19 DEF r, p, F

LEMMA FetchNotFound ==
  ASSUME NEW n \in 0 .. Len(NotFound)
  PROVE  FetchInfo(SubSeq(NotFound, 1, n)).ok = FALSE
<1> DEFINE F == NotFound
           p == SubSeq(F, 1, n)
           S == {Status("404"), HeadEnd}
<1>1. F \in Seq(S) /\ Len(F) = 2 /\ F[1] = Status("404") /\ F[2] = HeadEnd
  BY DEF NotFound
<1>2. n \in 0 .. 2
  BY <1>1
<1> HIDE DEF F, S
<1>3. p \in Seq(S) /\ Len(p) = n /\ \A i \in 1 .. n : p[i] = F[i]
  <2>1. n \in 0 .. Len(F)
    BY <1>1, <1>2
  <2> QED
    BY <1>1, <2>1, Cut
<1> HIDE DEF p
<1>4. Find(p, HeadEnd) = 0 \/ p[1] # Status("200")
  <2>1. CASE n = 0
    <3>1. \A i \in 1 .. Len(p) : p[i] # HeadEnd
      BY <1>3, <2>1
    <3> QED
      BY <1>3, <3>1, FindNone
  <2>2. CASE n # 0
    <3>1. p[1] = Status("404")
      BY <1>1, <1>2, <1>3, <2>2
    <3> QED
      BY <3>1, TokensDiffer
  <2> QED
    BY <2>1, <2>2
<1>5. FetchInfo(p) = Refused
  BY <1>4 DEF FetchInfo
<1> QED
  BY <1>5 DEF p, F, Refused

-----------------------------------------------------------------------------
\* The answer to a client is that of a process that came up.
Answer(m) == m = NotFound \/ \E id \in ids, a \in {OurAlpn, OldAlpn} : m = Found(id, a)

\* Where what clients get comes from: a process that has its sockets is among
\* ids, and a connection that has no answer yet ends with its process.
FetchInv ==
  /\ \A p \in Procs : Up(p) => key[p] \in ids
  /\ conn \in [Clients -> {"none", "queued", "accepted", "answered", "over"}]
  /\ server \in [Clients -> Procs \cup {NoProc}]
  /\ \A c \in Clients :
       conn[c] \in {"queued", "accepted"} => server[c] \in Procs /\ Listening(server[c])
  /\ \A c \in Clients : conn[c] = "answered" => Answer(response[c])
  /\ response = [c \in Clients |-> response[c]]
  /\ result = [c \in Clients |-> result[c]]
  /\ FetchedNamesSfu

LEMMA FetchInit == Init => FetchInv
<1> SUFFICES ASSUME Init PROVE FetchInv
  OBVIOUS
<1>1. Refused.ok = FALSE
  BY DEF Refused
<1>2. \A p \in Procs : ~Up(p)
  BY DEF Init, Up
<1>3. \A c \in Clients : conn[c] = "none" /\ result[c] = Refused
  BY DEF Init
<1>4. conn \in [Clients -> {"none", "queued", "accepted", "answered", "over"}]
      /\ server \in [Clients -> Procs \cup {NoProc}]
      /\ response = [c \in Clients |-> response[c]] /\ result = [c \in Clients |-> result[c]]
  BY DEF Init
<1>5. FetchedNamesSfu
  BY <1>1, <1>3 DEF FetchedNamesSfu
<1> QED
  BY <1>2, <1>3, <1>4, <1>5 DEF FetchInv

\* Ending connections keeps the rest.
LEMMA EndFacts ==
  ASSUME FetchInv, NEW cs, End(cs)
  PROVE  /\ conn' \in [Clients -> {"none", "queued", "accepted", "answered", "over"}]
         /\ server' \in [Clients -> Procs \cup {NoProc}]
         /\ response' = [c \in Clients |-> response'[c]]
         /\ \A c \in Clients : conn'[c] # "over" =>
              c \notin cs /\ conn'[c] = conn[c] /\ server'[c] = server[c] /\ response'[c] = response[c]
  BY DEF FetchInv, End

\* A step that leaves the clients alone and takes no socket away.
LEMMA FetchKept ==
  ASSUME Shape, FetchInv, UNCHANGED client, ids \subseteq ids',
         \A p \in Procs : Up(p)' => key'[p] \in ids',
         \A p \in Procs : Listening(p) => Listening(p)'
  PROVE  FetchInv'
<1>1. UNCHANGED <<conn, server, request, response, result>>
  BY DEF client
<1>2. \A m : Answer(m) => Answer(m)'
  BY DEF Answer
<1> QED
  BY <1>1, <1>2 DEF FetchInv, FetchedNamesSfu

LEMMA FetchExit ==
  ASSUME Shape, FetchInv, NEW p \in Procs, Exit(p)
  PROVE  FetchInv'
<1> DEFINE cs == {c \in Clients : server[c] = p /\ conn[c] \in {"queued", "accepted"}}
<1>1. End(cs) /\ pc' = [pc EXCEPT ![p] = "down"] /\ UNCHANGED <<key, ids, result>>
  BY DEF Exit
<1>2. \A q \in Procs : (q = p => pc'[q] = "down") /\ (q # p => pc'[q] = pc[q])
  BY <1>1 DEF Shape
<1>3. \A q \in Procs : Up(q)' => key'[q] \in ids'
  BY <1>1, <1>2 DEF Up, FetchInv
<1>4. ASSUME NEW c \in Clients, conn'[c] \in {"queued", "accepted"}
      PROVE  (server[c] \in Procs /\ Listening(server[c]))'
  <2>1. c \notin cs /\ conn'[c] = conn[c] /\ server'[c] = server[c]
    BY <1>1, <1>4, EndFacts
  <2>2. server[c] \in Procs /\ Listening(server[c]) /\ server[c] # p
    BY <1>4, <2>1 DEF FetchInv
  <2> QED
    BY <1>2, <2>1, <2>2 DEF Listening
<1>5. ASSUME NEW c \in Clients, conn'[c] = "answered" PROVE Answer(response[c])'
  <2>1. conn[c] = "answered" /\ response'[c] = response[c]
    BY <1>1, <1>5, EndFacts
  <2>2. Answer(response[c])
    BY <2>1 DEF FetchInv
  <2> QED
    BY <1>1, <2>1, <2>2 DEF Answer
<1>6. FetchedNamesSfu' /\ result' = [c \in Clients |-> result'[c]]
  BY <1>1 DEF FetchInv, FetchedNamesSfu
<1>7. /\ conn' \in [Clients -> {"none", "queued", "accepted", "answered", "over"}]
      /\ server' \in [Clients -> Procs \cup {NoProc}] /\ response' = [c \in Clients |-> response'[c]]
  BY <1>1, EndFacts
<1> HIDE DEF cs
<1> QED
  BY <1>3, <1>4, <1>5, <1>6, <1>7, SMTT(20) DEF FetchInv

LEMMA FetchMain ==
  ASSUME Shape, FetchInv, NEW p \in Procs, Main(p)
  PROVE  FetchInv'
<1>1. CASE Start(p) \/ CreateKey(p) \/ WriteKey(p) \/ SpawnRelay(p) \/ BindEndpoint(p) \/ BindInfo(p) \/ CtrlC(p) \/ RelayStops(p)
  <2>1. UNCHANGED client /\ ids \subseteq ids'
    BY <1>1 DEF Start, CreateKey, WriteKey, SpawnRelay, BindEndpoint, BindInfo, CtrlC, RelayStops
  <2>2. \A q \in Procs \ {p} : key'[q] = key[q] /\ pc'[q] = pc[q]
    BY <1>1 DEF Start, CreateKey, WriteKey, SpawnRelay, BindEndpoint, BindInfo, CtrlC, RelayStops, Shape
  <2>3. Up(p)' => key'[p] \in ids'
    BY <1>1 DEF Start, CreateKey, WriteKey, SpawnRelay, BindEndpoint, BindInfo, CtrlC, RelayStops, Shape, FetchInv, Up
  <2>4. Listening(p) => Listening(p)'
    BY <1>1 DEF Start, CreateKey, WriteKey, SpawnRelay, BindEndpoint, BindInfo, CtrlC, RelayStops, Shape, Listening
  <2>5. \A q \in Procs : Up(q)' => key'[q] \in ids'
    BY <2>1, <2>2, <2>3 DEF FetchInv, Up
  <2>6. \A q \in Procs : Listening(q) => Listening(q)'
    BY <2>2, <2>4 DEF Listening
  <2> QED
    BY <2>1, <2>5, <2>6, FetchKept
<1>2. CASE StartFails(p) \/ Shutdown(p) \/ Bail(p) \/ Kill(p)
  <2>1. Exit(p)
    BY <1>2 DEF StartFails, Shutdown, Bail, Kill
  <2> QED
    BY <2>1, FetchExit
<1> QED
  BY <1>1, <1>2 DEF Main

\* Steps of the clients' connections: the processes stay as they are.
LEMMA FetchClient ==
  ASSUME Shape, FetchInv, UNCHANGED <<pc, key, ids>>,
         conn' \in [Clients -> {"none", "queued", "accepted", "answered", "over"}],
         server' \in [Clients -> Procs \cup {NoProc}],
         response' = [c \in Clients |-> response'[c]], result' = [c \in Clients |-> result'[c]],
         \A c \in Clients : conn'[c] \in {"queued", "accepted"} =>
           server'[c] \in Procs /\ Listening(server'[c]),
         \A c \in Clients : conn'[c] = "answered" => Answer(response'[c]),
         FetchedNamesSfu'
  PROVE  FetchInv'
<1>1. \A m : Answer(m)' <=> Answer(m)
  BY DEF Answer
<1>2. \A q : Listening(q)' <=> Listening(q)
  BY DEF Listening
<1>3. \A q : Up(q)' <=> Up(q)
  BY DEF Up
<1> QED
  BY <1>1, <1>2, <1>3 DEF FetchInv

LEMMA FetchAccept ==
  ASSUME Shape, FetchInv, NEW p \in Procs, Info(p)
  PROVE  FetchInv'
<1>1. CASE Accept(p)
  <2>1. UNCHANGED <<pc, key, ids, server, response, result>>
    BY <1>1 DEF Accept, procs
  <2>2. PICK c \in Clients : conn[c] = "queued" /\ conn' = [conn EXCEPT ![c] = "accepted"]
    BY <1>1, Zenon DEF Accept
  <2>3. conn' \in [Clients -> {"none", "queued", "accepted", "answered", "over"}]
    BY <2>2 DEF FetchInv
  <2>4. \A d \in Clients : /\ conn'[d] \in {"queued", "accepted"} => conn[d] \in {"queued", "accepted"}
                           /\ conn'[d] = "answered" => conn[d] = "answered"
    BY <2>2 DEF FetchInv
  <2>5. FetchedNamesSfu'
    BY <2>1 DEF FetchInv, FetchedNamesSfu
  <2> QED
    BY <2>1, <2>3, <2>4, <2>5, FetchClient, SMTT(20) DEF FetchInv
<1>2. CASE AcceptFails(p) \/ Wake(p)
  <2>1. UNCHANGED <<pc, key, ids>> /\ UNCHANGED client
    BY <1>2 DEF AcceptFails, Wake, procs
  <2> QED
    BY <2>1, FetchKept DEF FetchInv, Up, Listening
<1> QED
  BY <1>1, <1>2 DEF Info

LEMMA FetchStep ==
  ASSUME Shape, FetchInv, NEW c \in Clients, Fetch(c)
  PROVE  FetchInv'
<1>1. UNCHANGED <<pc, key, ids>>
  BY DEF Fetch, Respond, HeadTimeout, GiveUp, Connect, SendRequest, Receive, procs
<1>2. CASE Respond(c)
  <2>1. /\ conn[c] = "accepted" /\ conn' = [conn EXCEPT ![c] = "answered"] /\ UNCHANGED <<server, result>>
        /\ response' = [response EXCEPT ![c] =
             IF request[c] = "info" THEN Found(key[server[c]], Alpn(server[c])) ELSE NotFound]
    BY <1>2, Zenon DEF Respond
  <2>2. /\ conn' \in [Clients -> {"none", "queued", "accepted", "answered", "over"}]
        /\ conn'[c] = "answered" /\ \A d \in Clients \ {c} : conn'[d] = conn[d]
    BY <2>1 DEF FetchInv
  <2>3. /\ response' = [d \in Clients |-> response'[d]]
        /\ \A d \in Clients \ {c} : response'[d] = response[d]
        /\ response'[c] = IF request[c] = "info" THEN Found(key[server[c]], Alpn(server[c])) ELSE NotFound
    BY <2>1, SMTT(20), ZenonT(20), SMTT(30) DEF FetchInv
  <2>4. key[server[c]] \in ids
    BY <2>1 DEF FetchInv, Listening, Up
  <2>5. Alpn(server[c]) \in {OurAlpn, OldAlpn}
    BY DEF Alpn
  <2>6. Answer(response'[c])
    BY <2>3, <2>4, <2>5 DEF Answer
  <2>7. FetchedNamesSfu'
    BY <1>1, <2>1 DEF FetchInv, FetchedNamesSfu
  <2>8. \A d \in Clients : conn'[d] = "answered" => Answer(response'[d])
    BY <2>2, <2>3, <2>6 DEF FetchInv
  <2>9. \A d \in Clients : conn'[d] \in {"queued", "accepted"} =>
          server'[d] \in Procs /\ Listening(server'[d])
    BY <2>1, <2>2 DEF FetchInv
  <2>10. server' \in [Clients -> Procs \cup {NoProc}] /\ result' = [d \in Clients |-> result'[d]]
    BY <2>1 DEF FetchInv
  <2> QED
    BY <1>1, <2>2, <2>3, <2>7, <2>8, <2>9, <2>10, FetchClient
<1>3. ASSUME NEW cs, End(cs), result' = [d \in Clients |-> result'[d]], FetchedNamesSfu' PROVE FetchInv'
  <2>1. /\ conn' \in [Clients -> {"none", "queued", "accepted", "answered", "over"}]
        /\ server' \in [Clients -> Procs \cup {NoProc}]
        /\ response' = [d \in Clients |-> response'[d]]
        /\ \A d \in Clients : conn'[d] # "over" =>
             conn'[d] = conn[d] /\ server'[d] = server[d] /\ response'[d] = response[d]
    BY <1>3, EndFacts
  <2>2. \A d \in Clients : conn'[d] \in {"queued", "accepted"} =>
          server'[d] \in Procs /\ Listening(server'[d])
    BY <2>1 DEF FetchInv
  <2>3. \A d \in Clients : conn'[d] = "answered" => Answer(response'[d])
    BY <2>1 DEF FetchInv
  <2> QED
    BY <1>1, <1>3, <2>1, <2>2, <2>3, FetchClient
<1>4. CASE HeadTimeout(c) \/ GiveUp(c)
  <2>1. End({c}) /\ UNCHANGED result
    BY <1>4 DEF HeadTimeout, GiveUp
  <2>2. FetchedNamesSfu' /\ result' = [d \in Clients |-> result'[d]]
    BY <1>1, <2>1 DEF FetchInv, FetchedNamesSfu
  <2> QED
    BY <1>3, <2>1, <2>2
<1>5. CASE \E n \in 0 .. Len(response[c]) : Receive(c, n)
  <2>1. PICK n \in 0 .. Len(response[c]) : Receive(c, n)
    BY <1>5
  <2> DEFINE r == FetchInfo(SubSeq(response[c], 1, n))
  <2>2. conn[c] = "answered" /\ End({c}) /\ result' = [result EXCEPT ![c] = r]
    BY <2>1 DEF Receive
  <2>3. Answer(response[c])
    BY <2>2 DEF FetchInv
  <2>4. r.ok => /\ \E id \in ids : r.sfu = Value(id)
                /\ r.relay = Value(Relay) /\ r.alpn = Value(OurAlpn)
    <3>1. CASE response[c] = NotFound
      BY <3>1, FetchNotFound, Zenon
    <3>2. ASSUME NEW id \in ids, NEW a, response[c] = Found(id, a)
          PROVE  r.ok => r.sfu = Value(id) /\ r.relay = Value(Relay) /\ r.alpn = Value(OurAlpn)
      BY <3>2, FetchFound
    <3> QED
      BY <2>3, <3>1, <3>2 DEF Answer
  <2> HIDE DEF r
  <2>5. /\ result' = [d \in Clients |-> result'[d]] /\ result'[c] = r
        /\ \A d \in Clients \ {c} : result'[d] = result[d]
    BY <2>2 DEF FetchInv
  <2>6. FetchedNamesSfu'
    BY <1>1, <2>4, <2>5 DEF FetchInv, FetchedNamesSfu
  <2> QED
    BY <1>3, <2>2, <2>5, <2>6
<1>6. CASE \E p \in Procs : Connect(c, p)
  <2>1. PICK p \in Procs : Connect(c, p)
    BY <1>6
  <2>2. /\ Listening(p) /\ conn' = [conn EXCEPT ![c] = "queued"] /\ server' = [server EXCEPT ![c] = p]
        /\ UNCHANGED <<response, result>>
    BY <2>1 DEF Connect
  <2>3. /\ conn' \in [Clients -> {"none", "queued", "accepted", "answered", "over"}]
        /\ server' \in [Clients -> Procs \cup {NoProc}]
        /\ conn'[c] = "queued" /\ server'[c] = p
        /\ \A d \in Clients \ {c} : conn'[d] = conn[d] /\ server'[d] = server[d]
    BY <2>2 DEF FetchInv
  <2>4. \A d \in Clients : conn'[d] \in {"queued", "accepted"} =>
          server'[d] \in Procs /\ Listening(server'[d])
    BY <2>2, <2>3 DEF FetchInv
  <2>5. \A d \in Clients : conn'[d] = "answered" => Answer(response'[d])
    BY <2>2, <2>3 DEF FetchInv
  <2>6. FetchedNamesSfu' /\ response' = [d \in Clients |-> response'[d]]
        /\ result' = [d \in Clients |-> result'[d]]
    BY <1>1, <2>2 DEF FetchInv, FetchedNamesSfu
  <2> QED
    BY <1>1, <2>3, <2>4, <2>5, <2>6, FetchClient
<1>7. CASE \E path \in {"info", "other"} : SendRequest(c, path)
  <2>1. UNCHANGED <<conn, server, response, result>>
    BY <1>7 DEF SendRequest
  <2>2. FetchedNamesSfu'
    BY <1>1, <2>1 DEF FetchInv, FetchedNamesSfu
  <2> QED
    BY <1>1, <2>1, <2>2, FetchClient DEF FetchInv
<1> QED
  BY <1>2, <1>4, <1>5, <1>6, <1>7, SMTT(20) DEF Fetch

LEMMA FetchNext == Shape /\ FetchInv /\ [Next]_vars => FetchInv'
<1> SUFFICES ASSUME Shape, FetchInv, [Next]_vars PROVE FetchInv'
  OBVIOUS
<1>1. CASE UNCHANGED vars
  <2>1. UNCHANGED <<pc, key, ids>> /\ UNCHANGED client
    BY <1>1 DEF vars, procs
  <2> QED
    BY <2>1, FetchKept DEF FetchInv, Up, Listening
<1>2. ASSUME NEW p \in Procs, Main(p) \/ Info(p) PROVE FetchInv'
  BY <1>2, FetchMain, FetchAccept
<1>3. ASSUME NEW c \in Clients, Fetch(c) PROVE FetchInv'
  BY <1>3, FetchStep
<1> QED
  BY <1>1, <1>2, <1>3 DEF Next

\* What fetch_info accepts names an SFU that came up, with its whole relay
\* URL and this build's protocol: for any number of processes and clients,
\* wherever a response is cut and whatever process answered it.
THEOREM FetchedIsNamed == Spec => []FetchedNamesSfu
<1>1. IInv /\ FetchInv /\ [Next]_vars => (IInv /\ FetchInv)'
  BY ShapeKept, OneKeyKept, FetchNext DEF IInv
<1>2. FetchInv => FetchedNamesSfu
  BY DEF FetchInv
<1> QED
  BY InitHolds, FetchInit, <1>1, <1>2, PTL DEF Spec
=============================================================================
