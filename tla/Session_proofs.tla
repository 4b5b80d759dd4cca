--------------------------- MODULE Session_proofs ---------------------------
(***************************************************************************)
(* Proofs about what a session is told and remembers and what is made of   *)
(* it: the workspace gate, ad-hoc notes, the agent of a consolidation, the *)
(* evidence of a session and the receipts that a page shows.               *)
(***************************************************************************)
EXTENDS SessionGate, AdHocNotes, AgentRun, Evidence, Receipts, FiniteSetTheorems, SequenceTheorems, WellFoundedInduction, TLAPS

----------------------------------------------------------------------------
(***************************************************************************)
(* Induction over a set of numbers, and what a sequence keeps.             *)
(***************************************************************************)
LEMMA EveryNumber ==
    ASSUME NEW S, 0 \in S, \A n \in Nat : n \in S => n + 1 \in S
    PROVE  \A n \in Nat : n \in S
<1> DEFINE Bad == {n \in Nat : n \notin S}
<1>1. SUFFICES ASSUME Bad # {} PROVE FALSE
  OBVIOUS
<1>2. PICK k \in Bad : \A j \in Bad : ~(<<j, k>> \in OpToRel(<, Nat))
  BY <1>1, WFMin, NatLessThanWellFounded
<1>3. k \in Nat /\ k \notin S /\ \A j \in Nat : j < k => j \in S
  BY <1>2 DEF OpToRel
<1>4. k - 1 \in Nat /\ k - 1 \in S
  BY <1>3
<1> QED
  BY <1>3, <1>4

\* What is kept up to every place.
KeepsTo(s, keep, n, g) ==
    g = [i \in 0..n |-> IF i = 0 THEN <<>> ELSE IF s[i] \in keep THEN Append(g[i - 1], s[i]) ELSE g[i - 1]]

LEMMA KeepsExist ==
    ASSUME NEW s, NEW keep, NEW n \in Nat
    PROVE  \E g : KeepsTo(s, keep, n, g)
<1> DEFINE Good == {k \in Nat : \E g : KeepsTo(s, keep, k, g)}
<1>1. 0 \in Good
  <2> DEFINE g == [i \in 0..0 |-> <<>>]
  <2>1. KeepsTo(s, keep, 0, g)
    BY DEF KeepsTo
  <2> HIDE DEF g
  <2> QED
    BY <2>1
<1>2. ASSUME NEW k \in Nat, k \in Good PROVE k + 1 \in Good
  <2>1. PICK f : KeepsTo(s, keep, k, f)
    BY <1>2
  <2> DEFINE g == [i \in 0..k + 1 |-> IF i <= k THEN f[i] ELSE IF s[k + 1] \in keep THEN Append(f[k], s[k + 1]) ELSE f[k]]
  <2>2. ASSUME NEW i \in 0..k + 1
        PROVE  g[i] = IF i = 0 THEN <<>> ELSE IF s[i] \in keep THEN Append(g[i - 1], s[i]) ELSE g[i - 1]
    <3>1. \A j \in 0..k : f[j] = IF j = 0 THEN <<>> ELSE IF s[j] \in keep THEN Append(f[j - 1], s[j]) ELSE f[j - 1]
      BY <2>1 DEF KeepsTo
    <3>2. CASE i = k + 1
      <4>1. g[i] = (IF s[k + 1] \in keep THEN Append(f[k], s[k + 1]) ELSE f[k]) /\ g[k] = f[k] /\ i - 1 = k /\ i # 0
        BY <3>2
      <4> HIDE DEF g
      <4> QED
        BY <3>2, <4>1
    <3>3. CASE i <= k
      <4>1. g[i] = f[i] /\ (i # 0 => g[i - 1] = f[i - 1]) /\ i \in 0..k
        BY <3>3
      <4> HIDE DEF g
      <4> QED
        BY <3>1, <4>1
    <3> QED
      BY <3>2, <3>3
  <2>3. KeepsTo(s, keep, k + 1, g)
    BY <2>2 DEF KeepsTo
  <2> HIDE DEF g
  <2> QED
    BY <1>2, <2>3
<1> HIDE DEF Good
<1>3. n \in Good
  BY <1>1, <1>2, EveryNumber
<1> QED
  BY <1>3 DEF Good

LEMMA KeptUpToIs ==
    ASSUME NEW s, Len(s) \in Nat, NEW keep
    PROVE  /\ KeptUpTo(s, keep)[0] = <<>>
           /\ \A i \in 1..Len(s) : KeptUpTo(s, keep)[i] = IF s[i] \in keep THEN Append(KeptUpTo(s, keep)[i - 1], s[i])
                                                                          ELSE KeptUpTo(s, keep)[i - 1]
<1>1. \E g : KeepsTo(s, keep, Len(s), g)
  BY KeepsExist
<1>2. KeptUpTo(s, keep) = CHOOSE g : KeepsTo(s, keep, Len(s), g)
  BY DEF KeptUpTo, KeepsTo
<1>3. KeepsTo(s, keep, Len(s), KeptUpTo(s, keep))
  BY <1>1, <1>2
<1>4. PICK g : g = KeptUpTo(s, keep)
  OBVIOUS
<1>5. PICK n : n = Len(s)
  OBVIOUS
<1>6. KeepsTo(s, keep, n, g)
  BY <1>3, <1>4, <1>5
<1>7. \A i \in 0..n : g[i] = IF i = 0 THEN <<>> ELSE IF s[i] \in keep THEN Append(g[i - 1], s[i]) ELSE g[i - 1]
  BY <1>6 DEF KeepsTo
<1>8. 0 \in 0..n /\ \A i \in 1..n : i \in 0..n /\ i # 0
  BY <1>5
<1>9. g[0] = <<>> /\ \A i \in 1..n : g[i] = IF s[i] \in keep THEN Append(g[i - 1], s[i]) ELSE g[i - 1]
  BY <1>7, <1>8
<1> QED
  BY <1>4, <1>5, <1>9

\* Of a sequence that grows, what is kept grows, and is what there is of it.
Increasing(s) == \A i, j \in 1..Len(s) : i < j => s[i] < s[j]
KeepsUpTo(q, s, keep, k) ==
    /\ q \in Seq(Nat) /\ Increasing(q)
    /\ \A x : (\E i \in 1..Len(q) : x = q[i]) <=> \E i \in 1..k : x = s[i] /\ s[i] \in keep

LEMMA AppendGrows ==
    ASSUME NEW q \in Seq(Nat), Increasing(q), NEW x \in Nat, \A i \in 1..Len(q) : q[i] < x
    PROVE  /\ Append(q, x) \in Seq(Nat) /\ Increasing(Append(q, x)) /\ Len(Append(q, x)) = Len(q) + 1
           /\ Append(q, x)[Len(q) + 1] = x /\ \A i \in 1..Len(q) : Append(q, x)[i] = q[i]
<1>1. PICK p : p = Append(q, x)
  OBVIOUS
<1>2. Len(q) \in Nat /\ p \in Seq(Nat) /\ Len(p) = Len(q) + 1 /\ p[Len(q) + 1] = x /\ \A i \in 1..Len(q) : p[i] = q[i]
  BY <1>1, AppendProperties
<1>3. ASSUME NEW i \in 1..Len(p), NEW j \in 1..Len(p), i < j PROVE p[i] < p[j]
  <2>1. i \in 1..Len(q) /\ p[i] = q[i]
    BY <1>2, <1>3
  <2>2. CASE j = Len(q) + 1
    BY <1>2, <2>1, <2>2
  <2>3. CASE j \in 1..Len(q)
    BY <1>2, <1>3, <2>1, <2>3 DEF Increasing
  <2> QED
    BY <1>2, <2>2, <2>3
<1>4. Increasing(p)
  BY <1>3 DEF Increasing
<1> QED
  BY <1>1, <1>2, <1>4

LEMMA KeptSoFar ==
    ASSUME NEW s \in Seq(Nat), Increasing(s), NEW keep, NEW n \in 0..Len(s)
    PROVE  KeepsUpTo(KeptUpTo(s, keep)[n], s, keep, n)
<1>1. Len(s) \in Nat
  OBVIOUS
<1>2. PICK g : g = KeptUpTo(s, keep)
  OBVIOUS
<1>3. g[0] = <<>> /\ \A i \in 1..Len(s) : g[i] = IF s[i] \in keep THEN Append(g[i - 1], s[i]) ELSE g[i - 1]
  <2>1. /\ KeptUpTo(s, keep)[0] = <<>>
        /\ \A i \in 1..Len(s) : KeptUpTo(s, keep)[i] = IF s[i] \in keep THEN Append(KeptUpTo(s, keep)[i - 1], s[i])
                                                                      ELSE KeptUpTo(s, keep)[i - 1]
    BY <1>1, KeptUpToIs
  <2> QED
    BY <1>2, <2>1
<1> DEFINE Good == {k \in Nat : k <= Len(s) => KeepsUpTo(g[k], s, keep, k)}
<1>4. 0 \in Good
  <2>1. <<>> \in Seq(Nat) /\ Len(<<>>) = 0
    OBVIOUS
  <2>2. KeepsUpTo(<<>>, s, keep, 0)
    BY <2>1 DEF KeepsUpTo, Increasing
  <2> QED
    BY <1>3, <2>2
<1>5. ASSUME NEW k \in Nat, k \in Good PROVE k + 1 \in Good
  <2> SUFFICES ASSUME k + 1 <= Len(s) PROVE KeepsUpTo(g[k + 1], s, keep, k + 1)
    OBVIOUS
  <2>1. KeepsUpTo(g[k], s, keep, k) /\ k + 1 \in 1..Len(s) /\ (k + 1) - 1 = k
    BY <1>1, <1>5
  <2>2. PICK q : q = g[k]
    OBVIOUS
  <2>3. q \in Seq(Nat) /\ Increasing(q) /\ \A x : (\E i \in 1..Len(q) : x = q[i]) <=> \E i \in 1..k : x = s[i] /\ s[i] \in keep
    BY <2>1, <2>2 DEF KeepsUpTo
  <2>4. CASE s[k + 1] \in keep
    <3>1. PICK p : p = Append(q, s[k + 1])
      OBVIOUS
    <3>2. s[k + 1] \in Nat /\ \A i \in 1..Len(q) : q[i] < s[k + 1]
      <4>1. s[k + 1] \in Nat /\ \A i \in 1..k : s[i] < s[k + 1]
        BY <2>1 DEF Increasing
      <4> QED
        BY <2>3, <4>1
    <3>3. /\ p \in Seq(Nat) /\ Increasing(p) /\ Len(p) = Len(q) + 1
          /\ p[Len(q) + 1] = s[k + 1] /\ \A i \in 1..Len(q) : p[i] = q[i]
      BY <2>3, <3>1, <3>2, AppendGrows
    <3>4. ASSUME NEW x PROVE (\E i \in 1..Len(p) : x = p[i]) <=> \E i \in 1..k + 1 : x = s[i] /\ s[i] \in keep
      <4>1. Len(q) \in Nat
        BY <2>3
      <4>2. (\E i \in 1..Len(p) : x = p[i]) <=> (\E i \in 1..Len(q) : x = q[i]) \/ x = s[k + 1]
        <5> DEFINE len == Len(q)
        <5>1. len \in Nat /\ Len(p) = len + 1 /\ p[len + 1] = s[k + 1] /\ \A i \in 1..len : p[i] = q[i]
          BY <3>3, <4>1
        <5> HIDE DEF len
        <5>2. (\E i \in 1..len + 1 : x = p[i]) <=> (\E i \in 1..len : x = p[i]) \/ x = p[len + 1]
          BY <5>1
        <5>3. (\E i \in 1..len : x = p[i]) <=> \E i \in 1..len : x = q[i]
          BY <5>1
        <5> QED
          BY <5>1, <5>2, <5>3 DEF len
      <4>3. (\E i \in 1..k + 1 : x = s[i] /\ s[i] \in keep) <=> (\E i \in 1..k : x = s[i] /\ s[i] \in keep) \/ x = s[k + 1]
        BY <2>4
      <4> QED
        BY <2>3, <4>2, <4>3
    <3>5. g[k + 1] = p
      BY <1>3, <2>1, <2>2, <2>4, <3>1
    <3> QED
      BY <3>3, <3>4, <3>5 DEF KeepsUpTo
  <2>5. CASE s[k + 1] \notin keep
    <3>1. g[k + 1] = q
      BY <1>3, <2>1, <2>2, <2>5
    <3>2. \A x : (\E i \in 1..k + 1 : x = s[i] /\ s[i] \in keep) <=> \E i \in 1..k : x = s[i] /\ s[i] \in keep
      BY <2>5
    <3> QED
      BY <2>3, <3>1, <3>2 DEF KeepsUpTo
  <2> QED
    BY <2>4, <2>5
<1>6. n \in Nat /\ n <= Len(s)
  BY <1>1
<1> HIDE DEF Good
<1>7. n \in Good
  BY <1>4, <1>5, <1>6, EveryNumber
<1> QED
  BY <1>2, <1>6, <1>7 DEF Good

LEMMA KeptIs ==
    ASSUME NEW s \in Seq(Nat), Increasing(s), NEW keep
    PROVE  /\ Kept(s, keep) \in Seq(Nat) /\ Increasing(Kept(s, keep))
           /\ ToSet(Kept(s, keep)) = ToSet(s) \cap keep
<1>1. Len(s) \in Nat
  OBVIOUS
<1>2. PICK q : q = Kept(s, keep)
  OBVIOUS
<1>3. KeepsUpTo(q, s, keep, Len(s))
  BY <1>1, <1>2, KeptSoFar DEF Kept
<1>4. DOMAIN q = 1..Len(q) /\ DOMAIN s = 1..Len(s)
  BY <1>3 DEF KeepsUpTo
<1>5. ToSet(q) = ToSet(s) \cap keep
  BY <1>3, <1>4 DEF ToSet, KeepsUpTo
<1> QED
  BY <1>2, <1>3, <1>5 DEF KeepsUpTo

\* What is kept is at increasing places, at all where there is what is kept.
Placed(q, f, s, keep, k) ==
    /\ f \in Seq(Nat) /\ Increasing(f) /\ Len(f) = Len(q)
    /\ \A i \in 1..Len(f) : f[i] \in 1..k /\ s[f[i]] \in keep /\ q[i] = s[f[i]]
    /\ \A x \in 1..k : s[x] \in keep => \E i \in 1..Len(f) : f[i] = x
LEMMA KeptPlaces ==
    ASSUME NEW S, NEW s \in Seq(S), NEW keep
    PROVE  Kept(s, keep) \in Seq(S) /\ \E f : Placed(Kept(s, keep), f, s, keep, Len(s))
<1>1. Len(s) \in Nat
  OBVIOUS
<1>2. PICK g : g = KeptUpTo(s, keep)
  OBVIOUS
<1>3. g[0] = <<>> /\ \A i \in 1..Len(s) : g[i] = IF s[i] \in keep THEN Append(g[i - 1], s[i]) ELSE g[i - 1]
  <2>1. /\ KeptUpTo(s, keep)[0] = <<>>
        /\ \A i \in 1..Len(s) : KeptUpTo(s, keep)[i] = IF s[i] \in keep THEN Append(KeptUpTo(s, keep)[i - 1], s[i])
                                                                      ELSE KeptUpTo(s, keep)[i - 1]
    BY <1>1, KeptUpToIs
  <2> QED
    BY <1>2, <2>1
<1> DEFINE Good == {k \in Nat : k <= Len(s) => g[k] \in Seq(S) /\ \E f : Placed(g[k], f, s, keep, k)}
<1>4. 0 \in Good
  <2>1. <<>> \in Seq(S) /\ <<>> \in Seq(Nat) /\ Len(<<>>) = 0
    OBVIOUS
  <2>2. Placed(<<>>, <<>>, s, keep, 0)
    BY <2>1 DEF Increasing, Placed
  <2> QED
    BY <1>3, <2>1, <2>2
<1>5. ASSUME NEW k \in Nat, k \in Good PROVE k + 1 \in Good
  <2> SUFFICES ASSUME k + 1 <= Len(s) PROVE g[k + 1] \in Seq(S) /\ \E f : Placed(g[k + 1], f, s, keep, k + 1)
    OBVIOUS
  <2>1. k + 1 \in 1..Len(s) /\ (k + 1) - 1 = k /\ k <= Len(s)
    BY <1>1
  <2>2. PICK q : q = g[k]
    OBVIOUS
  <2>3. q \in Seq(S) /\ \E f : Placed(q, f, s, keep, k)
    BY <1>5, <2>1, <2>2
  <2>4. PICK f : Placed(q, f, s, keep, k)
    BY <2>3
  <2>5. /\ f \in Seq(Nat) /\ Increasing(f) /\ Len(f) = Len(q) /\ Len(f) \in Nat
        /\ \A i \in 1..Len(f) : f[i] \in 1..k /\ s[f[i]] \in keep /\ q[i] = s[f[i]]
        /\ \A x \in 1..k : s[x] \in keep => \E i \in 1..Len(f) : f[i] = x
    BY <2>4 DEF Placed
  <2>6. CASE s[k + 1] \in keep
    <3>1. PICK p, h : p = Append(q, s[k + 1]) /\ h = Append(f, k + 1)
      OBVIOUS
    <3>2. \A i \in 1..Len(f) : f[i] < k + 1
      <4>1. ASSUME NEW i \in 1..Len(f) PROVE f[i] < k + 1
        <5>1. f[i] \in 1..k
          BY <2>5
        <5> QED
          BY <5>1
      <4> QED
        BY <4>1
    <3>3. /\ h \in Seq(Nat) /\ Increasing(h) /\ Len(h) = Len(f) + 1
          /\ h[Len(f) + 1] = k + 1 /\ \A i \in 1..Len(f) : h[i] = f[i]
      <4>1. f \in Seq(Nat) /\ Increasing(f) /\ k + 1 \in Nat
        BY <2>5
      <4>2. /\ Append(f, k + 1) \in Seq(Nat) /\ Increasing(Append(f, k + 1)) /\ Len(Append(f, k + 1)) = Len(f) + 1
            /\ Append(f, k + 1)[Len(f) + 1] = k + 1 /\ \A i \in 1..Len(f) : Append(f, k + 1)[i] = f[i]
        BY <3>2, <4>1, AppendGrows
      <4>3. h = Append(f, k + 1)
        BY <3>1
      <4> QED
        BY <4>2, <4>3
    <3>4. s[k + 1] \in S
      BY <2>1
    <3>5. p \in Seq(S) /\ Len(p) = Len(f) + 1 /\ p[Len(f) + 1] = s[k + 1] /\ \A i \in 1..Len(f) : p[i] = q[i]
      BY <2>3, <2>5, <3>1, <3>4, AppendProperties
    <3>6. Len(f) \in Nat
      BY <2>5
    <3>7. ASSUME NEW i \in 1..Len(h) PROVE h[i] \in 1..k + 1 /\ s[h[i]] \in keep /\ p[i] = s[h[i]]
      <4>1. CASE i = Len(f) + 1
        <5>1. h[i] = k + 1 /\ p[i] = s[k + 1]
          BY <3>3, <3>5, <4>1
        <5> QED
          BY <2>6, <5>1
      <4>2. CASE i \in 1..Len(f)
        <5>1. h[i] = f[i] /\ p[i] = q[i]
          BY <3>3, <3>5, <4>2
        <5>2. f[i] \in 1..k /\ s[f[i]] \in keep /\ q[i] = s[f[i]]
          BY <2>5, <4>2
        <5>3. f[i] \in 1..k + 1
          BY <5>2
        <5> QED
          BY <5>1, <5>2, <5>3
      <4> QED
        BY <3>3, <3>6, <4>1, <4>2
    <3>8. ASSUME NEW x \in 1..k + 1, s[x] \in keep PROVE \E i \in 1..Len(h) : h[i] = x
      <4>1. CASE x = k + 1
        <5>1. Len(f) + 1 \in 1..Len(h)
          BY <3>3, <3>6
        <5> QED
          BY <3>3, <4>1, <5>1
      <4>2. CASE x \in 1..k
        <5>1. PICK i \in 1..Len(f) : f[i] = x
          BY <2>5, <3>8, <4>2
        <5>2. i \in 1..Len(h)
          BY <3>3, <3>6
        <5> QED
          BY <3>3, <5>1, <5>2
      <4> QED
        BY <4>1, <4>2
    <3>9. g[k + 1] = p
      BY <1>3, <2>1, <2>2, <2>6, <3>1
    <3>10. Placed(p, h, s, keep, k + 1)
      BY <3>3, <3>5, <3>7, <3>8 DEF Placed
    <3> QED
      BY <3>5, <3>9, <3>10
  <2>7. CASE s[k + 1] \notin keep
    <3>1. g[k + 1] = q
      BY <1>3, <2>1, <2>2, <2>7
    <3>2. \A x \in 1..k + 1 : s[x] \in keep => x \in 1..k
      BY <2>7
    <3>3. \A i \in 1..k : i \in 1..k + 1
      OBVIOUS
    <3>4. Placed(q, f, s, keep, k + 1)
      BY <2>5, <3>2, <3>3 DEF Placed
    <3> QED
      BY <2>3, <3>1, <3>4
  <2> QED
    BY <2>6, <2>7
<1> HIDE DEF Good
<1>6. Len(s) \in Good
  BY <1>1, <1>4, <1>5, EveryNumber
<1> QED
  BY <1>1, <1>2, <1>6 DEF Good, Kept

----------------------------------------------------------------------------
(***************************************************************************)
(* SessionGate, for any number of messages, sessions and switches.         *)
(***************************************************************************)

(***************************************************************************)
(* The invariant, of a log l, a runtime r, a step st, a call to and a gate *)
(* document d: a handler changes them one after the other.  A mark that is *)
(* lost counts as one that is there.                                       *)
(***************************************************************************)
Runtimes == [life : {"absent", "live"}, enabled : BOOLEAN, created : BOOLEAN, latch : BOOLEAN,
             failed : BOOLEAN, epoch : Nat, from : Nat, bare : Nat, pending : SUBSET Positions,
             seen : SUBSET Positions, lane : Seq(Task)]
InjectSteps == [pc : {"idle", "waiting", "building"}, ahead : Nat, closed : BOOLEAN]
ToolCalls == [pc : {"idle", "waiting", "running", "answered"}, ahead : Nat, epoch : Nat, closed : BOOLEAN]
Docs == (SUBSET {"disabled", "defaultOff"}) \cup {{"torn"}}
TypedAt(l, r, st, to) ==
    /\ l \in Seq(Event) /\ Len(l) <= MaxLog
    /\ r \in Runtimes /\ st \in InjectSteps /\ to \in ToolCalls
    /\ r.enabled => r.life = "live"
    /\ r.life = "absent" => r = NoRuntime /\ st = NoStep
    /\ st.ahead <= Len(r.lane) /\ to.ahead <= Len(r.lane)

\* The document, and what it should show.
Showing == IF lostMarks > 0 THEN {"lost"} ELSE gateDoc
FenceTyped == gateDoc \in Docs /\ lostMarks \in Nat

\* An empty document, of which no mark was lost, means that memory was never
\* off; and neither what is evidence nor what waits to be is of a time when it
\* was, or it is of a log that is replayed without its marks.
EvidenceAt(l, r, d) ==
    /\ d = {} => /\ r.life = "live" => r.enabled
                 /\ \A p \in 1..Len(l) : l[p].kind = "say" => l[p].on
    /\ \A p \in r.pending : p \in 1..Len(l) /\ l[p].kind = "summary"
    /\ \A p \in r.seen : p \in 1..Len(l) /\ (l[p].kind = "say" => l[p].on \/ p <= r.bare)

\* The create task that will create the session: there is one at most, and none
\* once it is created.
IsLive(r, t) == t.kind = "create" /\ t.epoch = r.epoch
NoneLive(r) == \A i \in 1..Len(r.lane) : ~IsLive(r, r.lane[i])
\* A replay is the first task of its runtime: no step gets past it, and so the
\* memory is not injected while it is there.
ReplayAt(l, bare, st, t) ==
    /\ t.kind \in {"create", "replay"}
    /\ st.pc # "idle" => st.pc = "waiting" /\ st.ahead >= 1
    /\ t.at <= t.upto /\ t.upto <= Len(l)
    /\ \A p \in 1..Len(l) : l[p].kind = "mem" => p <= t.upto
    /\ \A p \in 1..t.upto : l[p].kind = "say" => l[p].on \/ p <= bare
TaskAt(l, r, st, i) ==
    LET t == r.lane[i]
    IN /\ t.epoch <= r.epoch
       /\ t.kind = "replay" => t.replay
       /\ t.replay => i = 1 /\ ReplayAt(l, r.bare, st, t)
       /\ t.kind = "say" => t.at \in 1..Len(l) /\ l[t.at].on
       /\ IsLive(r, t) => ~r.created /\ \A j \in 1..Len(r.lane) : IsLive(r, r.lane[j]) => j = i
LaneAt(l, r, st) == \A i \in 1..Len(r.lane) : TaskAt(l, r, st, i)

\* The memory is in the window that goes on: the latch is set, or a replay has
\* not come so far, or the session was not created and will not be.
Unended(l, p) == l[p].kind = "mem" /\ \A q \in p + 1..Len(l) : l[q].kind # "end"
Replaying(r, p) == Len(r.lane) > 0 /\ r.lane[1].replay /\ r.lane[1].epoch = r.epoch /\ p > r.lane[1].at
Uncreated(r) == ~r.created /\ NoneLive(r)
LatchAt(l, r) ==
    r.enabled => \A p \in 1..Len(l) : Unended(l, p) => r.latch \/ Replaying(r, p) \/ Uncreated(r)
\* A step that builds its message has seen a window without one.
StepAt(l, r, st) ==
    /\ st.pc # "idle" /\ ~st.closed => r.enabled
    /\ st.pc = "building" /\ ~st.closed => Uncreated(r) \/ \A p \in 1..Len(l) : ~Unended(l, p)
OnceAt(l) ==
    \A p, q \in 1..Len(l) :
       l[p].kind = "mem" /\ l[q].kind = "mem" /\ p < q /\ (\A x \in p..q : l[x].kind # "end") => ~l[q].on

ToolAt(r, to) ==
    /\ to.pc \in {"waiting", "running"} => to.epoch <= r.epoch /\ (to.closed => to.epoch < r.epoch)
    /\ to.pc = "answered" => ~to.closed

KeptAt(l, r, st, to, d) ==
    /\ TypedAt(l, r, st, to) /\ EvidenceAt(l, r, d) /\ LaneAt(l, r, st)
    /\ LatchAt(l, r) /\ StepAt(l, r, st) /\ OnceAt(l) /\ ToolAt(r, to)
GateIInv ==
    /\ policy \in [default : BOOLEAN, override : {"none", "on", "off"}]
    /\ FenceTyped
    /\ KeptAt(log, rt, step, tool, Showing)

(***************************************************************************)
(* The parts of a handler, one after the other.                            *)
(***************************************************************************)
\* The document: it shows a switch that is off, and never becomes empty.
LEMMA MarkShows ==
    ASSUME GateIInv
    PROVE  /\ Marked \in Docs
           /\ gateDoc # {} => Marked # {}
           /\ ~WorkspaceOn(policy) => Marked # {}
<1>1. gateDoc \in Docs /\ policy \in [default : BOOLEAN, override : {"none", "on", "off"}]
  BY DEF GateIInv, FenceTyped
<1>2. gateDoc = {"torn"} \/ (gateDoc \subseteq {"disabled", "defaultOff"} /\ Readable)
  BY <1>1 DEF Docs, Readable
<1>3. policy.default \in BOOLEAN /\ policy.override \in {"none", "on", "off"}
  BY <1>1
<1>4. CASE gateDoc = {"torn"}
  BY <1>4 DEF Docs, Marked, Readable
<1>5. CASE gateDoc \subseteq {"disabled", "defaultOff"} /\ Readable
  <2>1. Marked \in Docs /\ (gateDoc # {} => Marked # {})
    BY <1>5 DEF Docs, Marked
  <2>2. ASSUME Marked = {}, ~WorkspaceOn(policy) PROVE FALSE
    <3>1. policy.override # "off" /\ policy.default /\ gateDoc = {}
      BY <1>5, <2>2 DEF Marked
    <3>2. PolicyOn(policy) /\ "disabled" \notin gateDoc
      BY <1>3, <3>1 DEF PolicyOn
    <3> QED
      BY <2>2, <3>2 DEF WorkspaceOn
  <2> QED
    BY <2>1, <2>2
<1> QED
  BY <1>2, <1>4, <1>5

\* So does a mark that is lost.
LEMMA MarkCounts ==
    ASSUME GateIInv, Mark
    PROVE  FenceTyped' /\ (Showing # {} => Showing' # {}) /\ (~WorkspaceOn(policy) => Showing' # {})
<1>1. gateDoc \in Docs /\ lostMarks \in Nat
  BY DEF GateIInv, FenceTyped
<1>2. CASE gateDoc' = Marked /\ lostMarks' = lostMarks
  BY <1>1, <1>2, MarkShows DEF FenceTyped, Showing
<1>3. CASE gateDoc' = gateDoc /\ lostMarks' = lostMarks + 1
  BY <1>1, <1>3 DEF FenceTyped, Showing
<1> QED
  BY <1>2, <1>3 DEF Mark, Loses

LEMMA DocShows ==
    ASSUME GateIInv, SyncedDoc(rt)
    PROVE  /\ FenceTyped' /\ (Showing # {} => Showing' # {})
           /\ ~WorkspaceOn(policy) => Showing' # {}
           /\ WorkspaceOn(policy) => Showing' = Showing
<1>1. FenceTyped /\ (Showing = {} => (rt.life = "live" => rt.enabled)) /\ rt.life \in {"absent", "live"}
  BY DEF GateIInv, KeptAt, TypedAt, EvidenceAt, Runtimes
<1>2. CASE ~WorkspaceOn(policy) /\ (rt.life = "absent" \/ rt.enabled)
  BY <1>2, MarkCounts DEF SyncedDoc
<1>3. CASE ~(~WorkspaceOn(policy) /\ (rt.life = "absent" \/ rt.enabled))
  <2>1. gateDoc' = gateDoc /\ lostMarks' = lostMarks
    BY <1>3 DEF SyncedDoc, fence
  <2>2. Showing' = Showing /\ FenceTyped'
    BY <1>1, <2>1 DEF Showing, FenceTyped
  <2> QED
    BY <1>1, <1>3, <2>2
<1> QED
  BY <1>2, <1>3

LEMMA MarkedKeeps ==
    ASSUME NEW l, NEW r, NEW st, NEW to, NEW d, NEW e, KeptAt(l, r, st, to, d),
           d # {} => e # {}
    PROVE  KeptAt(l, r, st, to, e)
  BY DEF KeptAt, EvidenceAt

\* The log one event longer.
LEMMA LogGrows ==
    ASSUME NEW l \in Seq(Event), NEW e \in Event
    PROVE  LET n == Append(l, e)
           IN  /\ n \in Seq(Event) /\ Len(n) = Len(l) + 1 /\ n[Len(l) + 1] = e
               /\ \A p \in 1..Len(l) : n[p] = l[p] /\ p \in 1..Len(n)
               /\ \A p \in 1..Len(n) : p \in 1..Len(l) \/ p = Len(l) + 1
               /\ Len(l) \in Nat
  OBVIOUS

LEMMA EventKeeps ==
    ASSUME NEW l, NEW r, NEW st, NEW to, NEW d, KeptAt(l, r, st, to, d),
           NEW e \in Event, e.kind # "mem", e.kind = "say" /\ ~e.on => d # {}, Len(l) < MaxLog
    PROVE  KeptAt(Append(l, e), r, st, to, d)
<1> DEFINE n == Append(l, e)
<1>1. l \in Seq(Event) /\ r \in Runtimes
  BY DEF KeptAt, TypedAt
<1>2. /\ n \in Seq(Event) /\ Len(n) = Len(l) + 1 /\ n[Len(l) + 1] = e
      /\ \A p \in 1..Len(l) : n[p] = l[p] /\ p \in 1..Len(n)
      /\ \A p \in 1..Len(n) : p \in 1..Len(l) \/ p = Len(l) + 1
      /\ Len(l) \in Nat
  BY <1>1, LogGrows
<1> HIDE DEF n
<1>3. TypedAt(n, r, st, to)
  BY <1>2, SessionGateAssumption DEF KeptAt, TypedAt, SessionGateAssumption
<1>4. EvidenceAt(n, r, d)
  BY <1>2 DEF KeptAt, EvidenceAt
<1>5. LaneAt(n, r, st)
  <2>1. \A t \in Task : ReplayAt(l, r.bare, st, t) => ReplayAt(n, r.bare, st, t)
    BY <1>2 DEF ReplayAt, Task
  <2>2. \A i \in 1..Len(r.lane) : r.lane[i] \in Task
    BY <1>1 DEF Runtimes
  <2>3. \A i \in 1..Len(r.lane) : TaskAt(l, r, st, i) => TaskAt(n, r, st, i)
    BY <1>2, <2>1, <2>2 DEF TaskAt
  <2> QED
    BY <2>3 DEF KeptAt, LaneAt
<1>6. \A p \in 1..Len(n) : Unended(n, p) => p \in 1..Len(l) /\ Unended(l, p)
  BY <1>2 DEF Unended
<1>7. LatchAt(n, r) /\ StepAt(n, r, st)
  BY <1>6 DEF KeptAt, LatchAt, StepAt
<1>8. OnceAt(n)
  <2> SUFFICES ASSUME NEW p \in 1..Len(n), NEW q \in 1..Len(n), n[p].kind = "mem", n[q].kind = "mem", p < q,
                      \A x \in p..q : n[x].kind # "end", n[q].on
               PROVE  FALSE
    BY DEF OnceAt
  <2>1. p \in 1..Len(l) /\ q \in 1..Len(l) /\ l[p].kind = "mem" /\ l[q].kind = "mem" /\ l[q].on
    BY <1>2
  <2>2. \A x \in p..q : x \in 1..Len(l)
    BY <1>2, <2>1
  <2> QED
    BY <1>2, <2>1, <2>2 DEF KeptAt, OnceAt
<1> QED
  BY <1>3, <1>4, <1>5, <1>7, <1>8 DEF KeptAt, n

(***************************************************************************)
(* The runtime follows the switch.                                         *)
(***************************************************************************)
\* One more task on the lane.
LEMMA LaneGrows ==
    ASSUME NEW lane \in Seq(Task), NEW t \in Task
    PROVE  LET n == Append(lane, t)
           IN  /\ n \in Seq(Task) /\ Len(n) = Len(lane) + 1 /\ n[Len(lane) + 1] = t
               /\ \A i \in 1..Len(lane) : n[i] = lane[i] /\ i \in 1..Len(n)
               /\ \A i \in 1..Len(n) : i \in 1..Len(lane) \/ i = Len(lane) + 1
               /\ Len(lane) \in Nat
  OBVIOUS

\* The summary is in the window that goes on exactly if the latch is to be set.
LEMMA InjectedSees ==
    ASSUME NEW l, NEW p \in 1..Len(l), Unended(l, p)
    PROVE  InjectedIn(l)
  BY DEF Unended, InjectedIn

\* What startRuntime makes of a runtime, and the task that it puts on the lane.
CreateTask(r, l, replay) ==
    [kind |-> "create", at |-> 0, upto |-> Len(l), epoch |-> r.epoch + 1, replay |-> replay]

LEMMA CreateTaskIs ==
    ASSUME NEW r \in Runtimes, NEW l, Len(l) \in 0..MaxLog, NEW replay \in BOOLEAN,
           NEW t, t = CreateTask(r, l, replay)
    PROVE  /\ t \in Task /\ t.kind = "create" /\ t.at = 0 /\ t.upto = Len(l) /\ t.epoch = r.epoch + 1
           /\ t.replay <=> replay
<1>1. PICK e \in Nat : e = r.epoch + 1
  BY DEF Runtimes
<1>2. t = [kind |-> "create", at |-> 0, upto |-> Len(l), epoch |-> e, replay |-> replay]
  BY <1>1 DEF CreateTask
<1>3. t.kind = "create" /\ t.at = 0 /\ t.upto = Len(l) /\ t.epoch = e /\ t.replay = replay
  BY <1>2
<1>4. t \in Task
  BY <1>2, SessionGateAssumption DEF Task, SessionGateAssumption
<1> QED
  BY <1>1, <1>3, <1>4

LEMMA StartedIs ==
    ASSUME NEW r \in Runtimes, NEW l, Len(l) \in 0..MaxLog, NEW replay \in BOOLEAN,
           NEW n, n = Started(r, l, replay)
    PROVE  /\ n \in Runtimes /\ n.enabled /\ n.epoch = r.epoch + 1
           /\ n.latch <=> ~replay /\ InjectedIn(l)
           /\ n.life = r.life /\ n.created = r.created /\ n.pending = r.pending /\ n.seen = r.seen
           /\ n.bare = r.bare
           /\ n.lane = IF r.created THEN r.lane ELSE Append(r.lane, CreateTask(r, l, replay))
<1>1. PICK f \in Nat, e \in Nat : f = (IF replay THEN 0 ELSE Len(l) + 1) /\ e = r.epoch + 1
  BY DEF Runtimes
<1>2. PICK latch \in BOOLEAN : latch = (~replay /\ InjectedIn(l))
  OBVIOUS
<1>3. PICK next : next = [r EXCEPT !.enabled = TRUE, !.epoch = @ + 1, !.latch = ~replay /\ InjectedIn(l),
                                   !.from = IF replay THEN 0 ELSE Len(l) + 1]
  OBVIOUS
<1>4. n = IF r.created THEN next
          ELSE [next EXCEPT !.lane = Append(@, [kind |-> "create", at |-> 0, upto |-> Len(l),
                                                epoch |-> next.epoch, replay |-> replay])]
  BY <1>3 DEF Started
<1>5. next = [r EXCEPT !.enabled = TRUE, !.epoch = e, !.latch = latch, !.from = f]
  BY <1>1, <1>2, <1>3
<1>6. /\ next \in Runtimes /\ next.enabled /\ next.epoch = e /\ next.latch = latch
      /\ next.life = r.life /\ next.created = r.created /\ next.pending = r.pending /\ next.seen = r.seen
      /\ next.bare = r.bare /\ next.lane = r.lane /\ r.lane \in Seq(Task)
  BY <1>5 DEF Runtimes
<1>7. CASE r.created
  BY <1>1, <1>2, <1>4, <1>6, <1>7
<1>8. CASE ~r.created
  <2>1. PICK t \in Task : t = CreateTask(r, l, replay)
    BY CreateTaskIs
  <2>6. r.lane \in Seq(Task) /\ t = [kind |-> "create", at |-> 0, upto |-> Len(l), epoch |-> e, replay |-> replay]
    BY <1>1, <1>6, <2>1 DEF CreateTask
  <2>7. Append(r.lane, t) \in Seq(Task)
    BY <2>6
  <2>2. PICK lane \in Seq(Task) : lane = Append(r.lane, t)
    BY <2>7
  <2>3. n = [next EXCEPT !.lane = lane]
    BY <1>4, <1>6, <1>8, <2>6, <2>2
  <2>4. /\ n \in Runtimes /\ n.enabled /\ n.epoch = e /\ n.latch = latch
        /\ n.life = r.life /\ n.created = r.created /\ n.pending = r.pending /\ n.seen = r.seen /\ n.lane = lane
        /\ n.bare = r.bare
    BY <1>6, <2>3 DEF Runtimes
  <2> QED
    BY <1>1, <1>2, <1>8, <2>1, <2>2, <2>4
<1> QED
  BY <1>7, <1>8

\* Memory is on, and the session has been handled by nobody yet.
LEMMA StartsAdopted ==
    ASSUME NEW l, NEW st, NEW to, NEW d, KeptAt(l, NoRuntime, st, to, d), NEW replay \in BOOLEAN,
           NEW from \in Nat, NEW bare \in Nat, replay => d = {} \/ Len(l) <= bare
    PROVE  KeptAt(l, Started([NoRuntime EXCEPT !.life = "live", !.from = from, !.bare = bare], l, replay), st, to, d)
<1> DEFINE fresh == [NoRuntime EXCEPT !.life = "live", !.from = from, !.bare = bare]
<1>0. PICK n : n = Started(fresh, l, replay)
  OBVIOUS
<1>1. l \in Seq(Event) /\ Len(l) \in 0..MaxLog /\ st = NoStep /\ to \in ToolCalls
  BY SessionGateAssumption DEF KeptAt, TypedAt, NoRuntime, SessionGateAssumption
<1>2. /\ fresh \in Runtimes /\ fresh.life = "live" /\ ~fresh.created /\ fresh.lane = <<>> /\ fresh.epoch = 0
      /\ fresh.pending = {} /\ fresh.seen = {} /\ fresh.bare = bare
  <2>1. /\ NoRuntime \in Runtimes /\ ~NoRuntime.created /\ NoRuntime.lane = <<>> /\ NoRuntime.epoch = 0
        /\ NoRuntime.pending = {} /\ NoRuntime.seen = {}
    BY DEF NoRuntime, Runtimes
  <2> QED
    BY <2>1 DEF Runtimes
<1> HIDE DEF fresh
<1>3. PICK t : t = CreateTask(fresh, l, replay)
  OBVIOUS
<1>4. t \in Task /\ t.kind = "create" /\ t.at = 0 /\ t.upto = Len(l) /\ t.epoch = 1 /\ (t.replay <=> replay)
  BY <1>1, <1>2, <1>3, CreateTaskIs
<1>5. /\ n \in Runtimes /\ n.life = "live" /\ n.enabled /\ ~n.created /\ (n.latch <=> ~replay /\ InjectedIn(l))
      /\ n.epoch = 1 /\ n.pending = {} /\ n.seen = {} /\ n.bare = bare /\ n.lane = <<t>> /\ Len(n.lane) = 1 /\ n.lane[1] = t
  <2>1. Append(<<>>, t) = <<t>> /\ Len(<<t>>) = 1 /\ <<t>>[1] = t
    OBVIOUS
  <2>0. fresh \in Runtimes /\ Len(l) \in 0..MaxLog
    BY <1>1, <1>2
  <2>2. n \in Runtimes /\ n.enabled /\ (n.latch <=> ~replay /\ InjectedIn(l)) /\ n.epoch = fresh.epoch + 1
    <3>1. n \in Runtimes /\ n.enabled /\ n.epoch = fresh.epoch + 1
      BY <1>0, <2>0, StartedIs
    <3>2. n.latch <=> ~replay /\ InjectedIn(l)
      BY <1>0, <2>0, StartedIs
    <3> QED
      BY <3>1, <3>2
  <2>3. /\ n.life = fresh.life /\ n.created = fresh.created /\ n.pending = fresh.pending /\ n.seen = fresh.seen
        /\ n.bare = fresh.bare
        /\ n.lane = IF fresh.created THEN fresh.lane ELSE Append(fresh.lane, t)
    <3>1. n.life = fresh.life /\ n.created = fresh.created /\ n.pending = fresh.pending /\ n.seen = fresh.seen
          /\ n.bare = fresh.bare
      BY <1>0, <2>0, StartedIs
    <3>2. n.lane = IF fresh.created THEN fresh.lane ELSE Append(fresh.lane, t)
      BY <1>0, <1>3, <2>0, StartedIs
    <3> QED
      BY <3>1, <3>2
  <2>4. n.life = "live" /\ ~n.created /\ n.epoch = 1 /\ n.pending = {} /\ n.seen = {} /\ n.bare = bare /\ n.lane = Append(<<>>, t)
    BY <1>2, <2>2, <2>3
  <2> QED
    BY <2>1, <2>2, <2>4
<1>6. TypedAt(l, n, st, to)
  <2>1. st.ahead = 0 /\ to.ahead <= 0 /\ to.ahead \in Nat
    BY <1>1 DEF KeptAt, TypedAt, NoRuntime, NoStep, ToolCalls
  <2> QED
    BY <1>5, <2>1 DEF KeptAt, TypedAt
<1>7. EvidenceAt(l, n, d)
  BY <1>5 DEF KeptAt, EvidenceAt
<1>8. LaneAt(l, n, st)
  <2>1. st.pc = "idle"
    BY <1>1 DEF NoStep
  <2>2. replay => ReplayAt(l, n.bare, st, t)
    BY <1>1, <1>4, <1>5, <2>1 DEF ReplayAt, KeptAt, EvidenceAt
  <2>3. TaskAt(l, n, st, 1)
    BY <1>4, <1>5, <2>2 DEF TaskAt, IsLive
  <2> QED
    BY <1>5, <2>3 DEF LaneAt
<1>9. LatchAt(l, n)
  <2> SUFFICES ASSUME NEW p \in 1..Len(l), Unended(l, p) PROVE n.latch \/ Replaying(n, p)
    BY DEF LatchAt
  <2>1. CASE replay
    <3>0. t.replay /\ t.epoch = 1 /\ t.at = 0
      BY <1>4, <2>1
    <3>1. Len(n.lane) > 0 /\ n.lane[1].replay /\ n.lane[1].epoch = n.epoch /\ n.lane[1].at = 0
      BY <1>5, <3>0
    <3>2. p > 0
      BY <1>1
    <3> QED
      BY <3>1, <3>2 DEF Replaying
  <2>2. CASE ~replay
    BY <1>5, <2>2, InjectedSees
  <2> QED
    BY <2>1, <2>2
<1>10. StepAt(l, n, st) /\ OnceAt(l)
  BY <1>1, <1>5 DEF StepAt, KeptAt, NoStep
<1>11. ToolAt(n, to)
  <2>1. to.pc \in {"waiting", "running"} => to.epoch <= 0 /\ (to.closed => to.epoch < 0)
    BY DEF KeptAt, ToolAt, NoRuntime
  <2>2. to.epoch \in Nat
    BY <1>1 DEF ToolCalls
  <2>3. to.pc = "answered" => ~to.closed
    BY DEF KeptAt, ToolAt
  <2> QED
    BY <1>5, <2>1, <2>2, <2>3 DEF ToolAt
<1> QED
  BY <1>6, <1>7, <1>8, <1>9, <1>10, <1>11, <1>0 DEF KeptAt, fresh

\* Memory is off, and the session has been handled by nobody yet.
LEMMA AdoptedOffKeeps ==
    ASSUME NEW l, NEW st, NEW to, NEW d, KeptAt(l, NoRuntime, st, to, d), d # {}, NEW from \in Nat,
           NEW bare \in Nat, NEW n, n = [NoRuntime EXCEPT !.life = "live", !.from = from, !.bare = bare]
    PROVE  KeptAt(l, n, st, to, d) /\ n.life = "live" /\ ~n.enabled
<1>1. NoRuntime \in Runtimes /\ NoRuntime.lane = <<>> /\ NoRuntime.pending = {} /\ NoRuntime.seen = {}
      /\ ~NoRuntime.enabled /\ NoRuntime.epoch = 0
  BY DEF NoRuntime, Runtimes
<1>2. n \in Runtimes /\ n.life = "live" /\ n.lane = <<>> /\ n.pending = {} /\ n.seen = {} /\ ~n.enabled /\ n.epoch = 0
  BY <1>1 DEF Runtimes
<1>3. TypedAt(l, n, st, to)
  BY <1>1, <1>2 DEF KeptAt, TypedAt
<1>4. EvidenceAt(l, n, d) /\ LaneAt(l, n, st) /\ LatchAt(l, n)
  BY <1>2 DEF EvidenceAt, LaneAt, LatchAt
<1>5. StepAt(l, n, st) /\ OnceAt(l) /\ ToolAt(n, to)
  <2>1. st = NoStep
    BY DEF KeptAt, TypedAt, NoRuntime
  <2>2. st.pc = "idle"
    BY <2>1 DEF NoStep
  <2>3. ToolAt(n, to)
    BY <1>1, <1>2 DEF KeptAt, ToolAt
  <2> QED
    BY <2>2, <2>3 DEF StepAt, KeptAt
<1> QED
  BY <1>2, <1>3, <1>4, <1>5 DEF KeptAt

\* An older task of the lane, once the runtime has a new epoch.
LEMMA OldTask ==
    ASSUME NEW l, NEW r \in Runtimes, NEW n \in Runtimes, NEW st, NEW sn, NEW i \in 1..Len(r.lane), TaskAt(l, r, st, i),
           i \in 1..Len(n.lane), n.lane[i] = r.lane[i], n.epoch = r.epoch + 1, n.bare = r.bare, sn.pc = st.pc, sn.ahead = st.ahead
    PROVE  TaskAt(l, n, sn, i) /\ ~IsLive(n, n.lane[i])
<1>0. r.lane \in Seq(Task) /\ r.epoch \in Nat
  BY DEF Runtimes
<1>1. r.lane[i].epoch \in Nat /\ r.epoch \in Nat /\ r.lane[i].epoch <= r.epoch
  <2>1. r.lane[i] \in Task
    BY <1>0
  <2>2. r.lane[i].epoch \in Nat
    BY <2>1 DEF Task
  <2> QED
    BY <1>0, <2>2 DEF TaskAt
<1>2. ~IsLive(n, n.lane[i])
  BY <1>1 DEF IsLive
<1>3. ReplayAt(l, r.bare, st, r.lane[i]) => ReplayAt(l, r.bare, sn, r.lane[i])
  BY DEF ReplayAt
<1> QED
  BY <1>1, <1>2, <1>3 DEF TaskAt

LEMMA StoppedIs ==
    ASSUME NEW r \in Runtimes, NEW n, n = Stopped(r)
    PROVE  /\ n \in Runtimes /\ ~n.enabled /\ ~n.latch /\ n.epoch = r.epoch + 1 /\ n.pending = {}
           /\ n.life = r.life /\ n.created = r.created /\ n.seen = r.seen /\ n.lane = r.lane
           /\ n.bare = r.bare
<1>1. PICK e \in Nat : e = r.epoch + 1
  BY DEF Runtimes
<1>2. n = [r EXCEPT !.enabled = FALSE, !.latch = FALSE, !.epoch = e, !.pending = {}]
  BY <1>1 DEF Stopped
<1> QED
  BY <1>1, <1>2 DEF Runtimes

\* What a step, or a call, has seen of the switch.
LEMMA SeenIs ==
    ASSUME NEW r, NEW st \in InjectSteps, NEW to \in ToolCalls
    PROVE  /\ Seen(r, st) \in InjectSteps /\ Seen(r, to) \in ToolCalls
           /\ Seen(r, st).pc = st.pc /\ Seen(r, st).ahead = st.ahead
           /\ Seen(r, to).pc = to.pc /\ Seen(r, to).ahead = to.ahead /\ Seen(r, to).epoch = to.epoch
           /\ ~r.enabled \/ WorkspaceOn(policy) => Seen(r, st) = st /\ Seen(r, to) = to
           /\ r.enabled /\ ~WorkspaceOn(policy) => (st.pc # "idle" => Seen(r, st).closed)
           /\ to.pc = "answered" => Seen(r, to) = to
<1>1. /\ [st EXCEPT !.closed = TRUE] \in InjectSteps /\ [st EXCEPT !.closed = TRUE].closed
      /\ [st EXCEPT !.closed = TRUE].pc = st.pc /\ [st EXCEPT !.closed = TRUE].ahead = st.ahead
      /\ st.pc # "answered"
  BY DEF InjectSteps
<1>2. /\ [to EXCEPT !.closed = TRUE] \in ToolCalls
      /\ [to EXCEPT !.closed = TRUE].pc = to.pc /\ [to EXCEPT !.closed = TRUE].ahead = to.ahead
      /\ [to EXCEPT !.closed = TRUE].epoch = to.epoch
  BY DEF ToolCalls
<1> QED
  BY <1>1, <1>2 DEF Seen

LEMMA StoppedKeeps ==
    ASSUME NEW l, NEW r, NEW st, NEW to, NEW d, KeptAt(l, r, st, to, d),
           r.enabled, ~WorkspaceOn(policy), d # {}
    PROVE  KeptAt(l, Stopped(r), Seen(r, st), Seen(r, to), d)
<1>1. PICK n : n = Stopped(r)
  OBVIOUS
<1>2. PICK sn : sn = Seen(r, st)
  OBVIOUS
<1>3. PICK tn : tn = Seen(r, to)
  OBVIOUS
<1>4. r \in Runtimes /\ r.life = "live" /\ st \in InjectSteps /\ to \in ToolCalls /\ st.ahead <= Len(r.lane) /\ to.ahead <= Len(r.lane)
  BY DEF KeptAt, TypedAt
<1>5. /\ n \in Runtimes /\ ~n.enabled /\ ~n.latch /\ n.epoch = r.epoch + 1 /\ n.pending = {}
      /\ n.life = "live" /\ n.created = r.created /\ n.seen = r.seen /\ n.lane = r.lane /\ n.bare = r.bare
  BY <1>1, <1>4, StoppedIs
<1>6. /\ sn \in InjectSteps /\ tn \in ToolCalls /\ sn.pc = st.pc /\ sn.ahead = st.ahead
      /\ tn.pc = to.pc /\ tn.ahead = to.ahead /\ tn.epoch = to.epoch
      /\ (st.pc # "idle" => sn.closed) /\ (to.pc = "answered" => tn = to)
  BY <1>2, <1>3, <1>4, SeenIs
<1>7. TypedAt(l, n, sn, tn)
  BY <1>4, <1>5, <1>6 DEF KeptAt, TypedAt
<1>8. EvidenceAt(l, n, d) /\ LatchAt(l, n) /\ StepAt(l, n, sn) /\ OnceAt(l)
  BY <1>5, <1>6 DEF KeptAt, EvidenceAt, LatchAt, StepAt
<1>9. LaneAt(l, n, sn)
  BY <1>4, <1>5, <1>6, OldTask DEF KeptAt, LaneAt
<1>10. ToolAt(n, tn)
  <2>1. r.epoch \in Nat /\ to.epoch \in Nat
    BY <1>4 DEF Runtimes, ToolCalls
  <2> QED
    BY <1>5, <1>6, <2>1 DEF KeptAt, ToolAt
<1> QED
  BY <1>1, <1>2, <1>3, <1>7, <1>8, <1>9, <1>10 DEF KeptAt

LEMMA StartedKeeps ==
    ASSUME NEW l, NEW r, NEW st, NEW to, NEW d, KeptAt(l, r, st, to, d), r.life = "live", ~r.enabled
    PROVE  KeptAt(l, Started(r, l, FALSE), st, to, d)
<1>1. PICK n : n = Started(r, l, FALSE)
  OBVIOUS
<1>2. /\ r \in Runtimes /\ st \in InjectSteps /\ to \in ToolCalls /\ d # {} /\ l \in Seq(Event) /\ Len(l) \in 0..MaxLog
      /\ st.ahead <= Len(r.lane) /\ to.ahead <= Len(r.lane) /\ st.ahead \in Nat /\ to.ahead \in Nat
  <2>1. /\ r \in Runtimes /\ st \in InjectSteps /\ to \in ToolCalls /\ l \in Seq(Event) /\ Len(l) <= MaxLog
        /\ st.ahead <= Len(r.lane) /\ to.ahead <= Len(r.lane)
    BY DEF KeptAt, TypedAt
  <2>2. d # {}
    BY DEF KeptAt, EvidenceAt
  <2>3. Len(l) \in 0..MaxLog
    BY <2>1, SessionGateAssumption DEF SessionGateAssumption
  <2>4. st.ahead \in Nat /\ to.ahead \in Nat
    BY <2>1 DEF InjectSteps, ToolCalls
  <2> QED
    BY <2>1, <2>2, <2>3, <2>4
<1>3. /\ n \in Runtimes /\ n.enabled /\ n.epoch = r.epoch + 1 /\ (n.latch <=> InjectedIn(l))
      /\ n.life = "live" /\ n.created = r.created /\ n.pending = r.pending /\ n.seen = r.seen
      /\ n.bare = r.bare /\ n.lane = IF r.created THEN r.lane ELSE Append(r.lane, CreateTask(r, l, FALSE))
  <2>1. r \in Runtimes /\ Len(l) \in 0..MaxLog
    BY <1>2
  <2>2. n \in Runtimes /\ n.enabled /\ n.epoch = r.epoch + 1
    BY <1>1, <2>1, StartedIs
  <2>3. n.latch <=> InjectedIn(l)
    BY <1>1, <2>1, StartedIs
  <2>4. n.life = r.life /\ n.created = r.created /\ n.pending = r.pending /\ n.seen = r.seen /\ n.bare = r.bare
    BY <1>1, <2>1, StartedIs
  <2>5. n.lane = IF r.created THEN r.lane ELSE Append(r.lane, CreateTask(r, l, FALSE))
    BY <1>1, <2>1, StartedIs
  <2> QED
    BY <2>2, <2>3, <2>4, <2>5
<1>4. r.lane \in Seq(Task)
  BY <1>2 DEF Runtimes
<1>5. /\ Len(n.lane) >= Len(r.lane)
      /\ \A i \in 1..Len(r.lane) : n.lane[i] = r.lane[i] /\ i \in 1..Len(n.lane)
      /\ \A i \in 1..Len(n.lane) : \/ i \in 1..Len(r.lane)
                                   \/ /\ ~r.created /\ i = Len(r.lane) + 1 /\ n.lane[i].kind = "create"
                                      /\ ~n.lane[i].replay /\ n.lane[i].epoch = n.epoch
  <2>1. CASE r.created
    <3>1. n.lane = r.lane
      BY <1>3, <2>1
    <3>2. Len(r.lane) \in Nat
      BY <1>4
    <3>3. Len(n.lane) >= Len(r.lane)
      BY <3>1, <3>2
    <3>4. \A i \in 1..Len(n.lane) : i \in 1..Len(r.lane)
      BY <3>1
    <3>5. \A i \in 1..Len(r.lane) : n.lane[i] = r.lane[i] /\ i \in 1..Len(n.lane)
      BY <3>1
    <3> QED
      BY <3>3, <3>4, <3>5
  <2>2. CASE ~r.created
    <3>0. PICK t : t = CreateTask(r, l, FALSE)
      OBVIOUS
    <3>1. t \in Task /\ t.kind = "create" /\ t.epoch = r.epoch + 1 /\ ~t.replay
      BY <1>2, <3>0, CreateTaskIs
    <3>5. n.lane = Append(r.lane, t)
      BY <1>3, <2>2, <3>0
    <3>2. /\ Len(n.lane) = Len(r.lane) + 1 /\ n.lane[Len(r.lane) + 1] = t /\ Len(r.lane) \in Nat
          /\ \A i \in 1..Len(r.lane) : n.lane[i] = r.lane[i] /\ i \in 1..Len(n.lane)
          /\ \A i \in 1..Len(n.lane) : i \in 1..Len(r.lane) \/ i = Len(r.lane) + 1
      BY <1>4, <3>1, <3>5, LaneGrows
    <3>3. Len(n.lane) >= Len(r.lane)
      BY <3>2
    <3>4. t.kind = "create" /\ ~t.replay /\ t.epoch = n.epoch
      BY <1>3, <3>1
    <3> QED
      BY <2>2, <3>2, <3>3, <3>4
  <2> QED
    BY <2>1, <2>2
<1>6. TypedAt(l, n, st, to)
  <2>1. Len(n.lane) \in Nat /\ Len(r.lane) \in Nat
    BY <1>3, <1>4 DEF Runtimes
  <2>2. st.ahead <= Len(n.lane) /\ to.ahead <= Len(n.lane)
    BY <1>2, <1>5, <2>1
  <2> QED
    BY <1>2, <1>3, <2>2 DEF KeptAt, TypedAt
<1>7. EvidenceAt(l, n, d) /\ OnceAt(l)
  BY <1>2, <1>3 DEF KeptAt, EvidenceAt
<1>8. LaneAt(l, n, st)
  <2> SUFFICES ASSUME NEW i \in 1..Len(n.lane) PROVE TaskAt(l, n, st, i)
    BY DEF LaneAt
  <2>1. \A j \in 1..Len(r.lane) : TaskAt(l, n, st, j) /\ ~IsLive(n, n.lane[j])
    BY <1>2, <1>3, <1>5, OldTask DEF KeptAt, LaneAt
  <2>2. CASE i \in 1..Len(r.lane)
    BY <2>1, <2>2
  <2>3. CASE i \notin 1..Len(r.lane)
    <3>1. ~n.created /\ i = Len(r.lane) + 1 /\ n.lane[i].kind = "create" /\ ~n.lane[i].replay /\ n.lane[i].epoch = n.epoch
      BY <1>3, <1>5, <2>3
    <3>2. \A j \in 1..Len(n.lane) : IsLive(n, n.lane[j]) => j = i
      BY <1>5, <2>1, <3>1
    <3>3. n.epoch <= n.epoch
      BY <1>3 DEF Runtimes
    <3> QED
      BY <3>1, <3>2, <3>3 DEF TaskAt
  <2> QED
    BY <2>2, <2>3
<1>9. LatchAt(l, n)
  BY <1>3, InjectedSees DEF LatchAt
<1>10. StepAt(l, n, st) /\ ToolAt(n, to)
  <2>1. r.epoch \in Nat /\ to.epoch \in Nat
    BY <1>2 DEF Runtimes, ToolCalls
  <2>2. ToolAt(n, to)
    BY <1>3, <2>1 DEF KeptAt, ToolAt
  <2>3. st.pc # "idle" => st.closed
    BY DEF KeptAt, StepAt
  <2> QED
    BY <2>2, <2>3 DEF StepAt
<1> QED
  BY <1>1, <1>6, <1>7, <1>8, <1>9, <1>10 DEF KeptAt

\* ensureSession and syncRuntimeGate, over a log that may be one event longer and
\* a document that shows the switch.
LEMMA SyncKeeps ==
    ASSUME GateIInv, NEW l, NEW d, KeptAt(l, rt, step, tool, d),
           WorkspaceOn(policy) => d = Showing, ~WorkspaceOn(policy) => d # {}
    PROVE  /\ KeptAt(l, Synced(rt, l), Seen(rt, step), Seen(rt, tool), d)
           /\ Synced(rt, l).life = "live" /\ (Synced(rt, l).enabled <=> WorkspaceOn(policy))
<1>1. rt \in Runtimes /\ step \in InjectSteps /\ tool \in ToolCalls /\ l \in Seq(Event) /\ Len(l) \in 0..MaxLog
      /\ (rt.enabled => rt.life = "live") /\ (rt.life = "absent" => rt = NoRuntime)
  <2>1. Len(l) <= MaxLog /\ l \in Seq(Event)
    BY DEF KeptAt, TypedAt
  <2>2. Len(l) \in 0..MaxLog
    BY <2>1, SessionGateAssumption DEF SessionGateAssumption
  <2> QED
    BY <2>1, <2>2 DEF KeptAt, TypedAt
<1>2. rt.life \in {"absent", "live"} /\ rt.enabled \in BOOLEAN
  BY <1>1 DEF Runtimes
<1>3. CASE rt.life = "absent"
  <2>1. rt = NoRuntime /\ ~rt.enabled
    BY <1>1, <1>3
  <2>2. Seen(rt, step) = step /\ Seen(rt, tool) = tool
    BY <1>1, <2>1, SeenIs
  <2>3. PICK from \in Nat : from = Len(l) + 1
    BY <1>1
  <2>8. PICK bare \in Nat : bare = IF MayReplay /\ lostMarks > 0 THEN Len(l) ELSE 0
    BY <1>1
  <2>4. PICK fresh : fresh = [NoRuntime EXCEPT !.life = "live", !.from = from, !.bare = bare]
    OBVIOUS
  <2>5. Synced(rt, l) = IF WorkspaceOn(policy) THEN Started(fresh, l, MayReplay) ELSE fresh
    BY <1>3, <2>1, <2>3, <2>4, <2>8 DEF Synced
  <2>6. CASE WorkspaceOn(policy)
    <3>1. MayReplay \in BOOLEAN /\ (MayReplay => d = {} \/ Len(l) <= bare)
      BY <1>1, <2>6, <2>8 DEF MayReplay, Showing
    <3>2. KeptAt(l, Started(fresh, l, MayReplay), step, tool, d)
      BY <2>1, <2>4, <3>1, StartsAdopted
    <3>3. fresh \in Runtimes /\ fresh.life = "live"
      <4>1. NoRuntime \in Runtimes
        BY DEF NoRuntime, Runtimes
      <4> QED
        BY <2>4, <4>1 DEF Runtimes
    <3>4. Started(fresh, l, MayReplay).enabled /\ Started(fresh, l, MayReplay).life = "live"
      BY <1>1, <3>1, <3>3, StartedIs
    <3> QED
      BY <2>2, <2>5, <2>6, <3>2, <3>4
  <2>7. CASE ~WorkspaceOn(policy)
    <3>1. KeptAt(l, fresh, step, tool, d) /\ fresh.life = "live" /\ ~fresh.enabled
      BY <2>1, <2>4, <2>7, AdoptedOffKeeps
    <3> QED
      BY <2>2, <2>5, <2>7, <3>1
  <2> QED
    BY <2>6, <2>7
<1>4. CASE rt.life = "live" /\ (rt.enabled <=> WorkspaceOn(policy))
  <2>1. Synced(rt, l) = rt
    BY <1>2, <1>4 DEF Synced, WorkspaceOn, PolicyOn
  <2>2. Seen(rt, step) = step /\ Seen(rt, tool) = tool
    BY <1>1, <1>4, SeenIs
  <2> QED
    BY <1>4, <2>1, <2>2
<1>5. CASE rt.life = "live" /\ rt.enabled /\ ~WorkspaceOn(policy)
  <2>1. Synced(rt, l) = Stopped(rt)
    BY <1>5 DEF Synced
  <2>2. Stopped(rt).life = "live" /\ ~Stopped(rt).enabled
    BY <1>1, <1>5, StoppedIs
  <2> QED
    BY <1>5, <2>1, <2>2, StoppedKeeps
<1>6. CASE rt.life = "live" /\ ~rt.enabled /\ WorkspaceOn(policy)
  <2>1. Synced(rt, l) = Started(rt, l, FALSE)
    BY <1>6 DEF Synced
  <2>2. Started(rt, l, FALSE).life = "live" /\ Started(rt, l, FALSE).enabled
    <3>1. rt \in Runtimes /\ Len(l) \in 0..MaxLog
      BY <1>1
    <3>2. Started(rt, l, FALSE).enabled
      BY <3>1, StartedIs
    <3>3. Started(rt, l, FALSE).life = rt.life
      BY <3>1, StartedIs
    <3> QED
      BY <1>6, <3>2, <3>3
  <2>3. Seen(rt, step) = step /\ Seen(rt, tool) = tool
    BY <1>1, <1>6, SeenIs
  <2> QED
    BY <1>6, <2>1, <2>2, <2>3, StartedKeeps
<1> QED
  BY <1>2, <1>3, <1>4, <1>5, <1>6

(***************************************************************************)
(* What a handler does with an enabled runtime.                            *)
(***************************************************************************)
LEMMA QueuedKeeps ==
    ASSUME NEW l, NEW r, NEW st, NEW to, NEW d, KeptAt(l, r, st, to, d), r.life = "live",
           NEW t \in Task, t.kind \in {"say", "settle"}, t.epoch = r.epoch, ~t.replay,
           t.kind = "say" => t.at \in 1..Len(l) /\ l[t.at].on
    PROVE  KeptAt(l, Queued(r, t), st, to, d)
<1>1. r \in Runtimes /\ st.ahead \in Nat /\ to.ahead \in Nat /\ st.ahead <= Len(r.lane) /\ to.ahead <= Len(r.lane)
  BY DEF KeptAt, TypedAt, InjectSteps, ToolCalls
<1>2. r.lane \in Seq(Task) /\ r.epoch \in Nat
  BY <1>1 DEF Runtimes
<1>3. PICK lane : lane = Append(r.lane, t)
  OBVIOUS
<1>4. /\ lane \in Seq(Task) /\ Len(lane) = Len(r.lane) + 1 /\ lane[Len(r.lane) + 1] = t
      /\ \A i \in 1..Len(r.lane) : lane[i] = r.lane[i] /\ i \in 1..Len(lane)
      /\ \A i \in 1..Len(lane) : i \in 1..Len(r.lane) \/ i = Len(r.lane) + 1
      /\ Len(r.lane) \in Nat
  BY <1>2, <1>3, LaneGrows
<1>5. PICK n : n = Queued(r, t)
  OBVIOUS
<1>6. n = [r EXCEPT !.lane = lane]
  BY <1>3, <1>5 DEF Queued
<1>7. /\ n \in Runtimes /\ n.lane = lane /\ n.life = r.life /\ n.enabled = r.enabled /\ n.created = r.created
      /\ n.latch = r.latch /\ n.epoch = r.epoch /\ n.pending = r.pending /\ n.seen = r.seen /\ n.bare = r.bare
  BY <1>1, <1>4, <1>6 DEF Runtimes
<1>8. TypedAt(l, n, st, to)
  <2>1. st.ahead <= Len(lane) /\ to.ahead <= Len(lane)
    BY <1>1, <1>4
  <2> QED
    BY <1>7, <2>1 DEF KeptAt, TypedAt
<1>9. EvidenceAt(l, n, d) /\ OnceAt(l) /\ ToolAt(n, to)
  BY <1>7 DEF KeptAt, EvidenceAt, ToolAt
<1>10. \A i \in 1..Len(lane) : i \notin 1..Len(r.lane) => ~IsLive(n, n.lane[i])
  BY <1>4, <1>7 DEF IsLive
<1>11. LaneAt(l, n, st)
  <2> SUFFICES ASSUME NEW i \in 1..Len(lane) PROVE TaskAt(l, n, st, i)
    BY <1>7 DEF LaneAt
  <2>1. CASE i \in 1..Len(r.lane)
    <3>1. TaskAt(l, r, st, i)
      BY <2>1 DEF KeptAt, LaneAt
    <3>2. \A j \in 1..Len(r.lane) : IsLive(n, n.lane[j]) <=> IsLive(r, r.lane[j])
      BY <1>4, <1>7 DEF IsLive
    <3> QED
      BY <1>4, <1>7, <1>10, <2>1, <3>1, <3>2 DEF TaskAt
  <2>2. CASE i \notin 1..Len(r.lane)
    <3>1. n.lane[i] = t /\ t.epoch <= n.epoch
      BY <1>2, <1>4, <1>7, <2>2
    <3> QED
      BY <1>10, <2>2, <3>1 DEF TaskAt
  <2> QED
    BY <2>1, <2>2
<1>12. (Uncreated(r) => Uncreated(n)) /\ \A p \in 1..Len(l) : Replaying(r, p) => Replaying(n, p)
  <2>1. NoneLive(r) => NoneLive(n)
    BY <1>4, <1>7, <1>10 DEF NoneLive, IsLive
  <2>2. Len(r.lane) > 0 => Len(n.lane) > 0 /\ n.lane[1] = r.lane[1]
    BY <1>4, <1>7
  <2> QED
    BY <1>7, <2>1, <2>2 DEF Uncreated, Replaying
<1>13. LatchAt(l, n) /\ StepAt(l, n, st)
  BY <1>7, <1>12 DEF KeptAt, LatchAt, StepAt
<1> QED
  BY <1>5, <1>8, <1>9, <1>11, <1>13 DEF KeptAt

LEMMA PendingKeeps ==
    ASSUME NEW l, NEW r, NEW st, NEW to, NEW d, KeptAt(l, r, st, to, d), r.life = "live",
           NEW p \in 1..Len(l), l[p].kind = "summary"
    PROVE  KeptAt(l, [r EXCEPT !.pending = @ \cup {p}], st, to, d)
<1>1. r \in Runtimes /\ Len(l) <= MaxLog /\ l \in Seq(Event)
  BY DEF KeptAt, TypedAt
<1>2. p \in Positions
  BY <1>1, SessionGateAssumption DEF Positions, SessionGateAssumption
<1>3. PICK ps \in SUBSET Positions : ps = r.pending \cup {p}
  BY <1>1, <1>2 DEF Runtimes
<1>4. PICK n : n = [r EXCEPT !.pending = ps]
  OBVIOUS
<1>5. /\ n \in Runtimes /\ n.pending = ps /\ n.lane = r.lane /\ n.life = r.life /\ n.enabled = r.enabled
      /\ n.created = r.created /\ n.latch = r.latch /\ n.epoch = r.epoch /\ n.seen = r.seen /\ n.bare = r.bare
  BY <1>1, <1>4 DEF Runtimes
<1>6. TypedAt(l, n, st, to)
  BY <1>5 DEF KeptAt, TypedAt
<1>7. EvidenceAt(l, n, d) /\ OnceAt(l) /\ ToolAt(n, to)
  BY <1>3, <1>5 DEF KeptAt, EvidenceAt, ToolAt
<1>8. LaneAt(l, n, st)
  BY <1>5 DEF KeptAt, LaneAt, TaskAt, IsLive
<1>9. LatchAt(l, n) /\ StepAt(l, n, st)
  BY <1>5 DEF KeptAt, LatchAt, StepAt, Replaying, Uncreated, NoneLive, IsLive
<1> QED
  BY <1>3, <1>4, <1>6, <1>7, <1>8, <1>9 DEF KeptAt

\* After the end of a compaction, no summary of the memory is in the window.
LEMMA UnlatchedKeeps ==
    ASSUME NEW l, NEW r, NEW st, NEW to, NEW d, KeptAt(l, r, st, to, d), r.life = "live",
           \A p \in 1..Len(l) : ~Unended(l, p)
    PROVE  KeptAt(l, [r EXCEPT !.latch = FALSE], st, to, d)
<1>1. r \in Runtimes
  BY DEF KeptAt, TypedAt
<1>2. PICK n : n = [r EXCEPT !.latch = FALSE]
  OBVIOUS
<1>3. /\ n \in Runtimes /\ n.pending = r.pending /\ n.lane = r.lane /\ n.life = r.life /\ n.enabled = r.enabled
      /\ n.created = r.created /\ n.epoch = r.epoch /\ n.seen = r.seen /\ n.bare = r.bare
  BY <1>1, <1>2 DEF Runtimes
<1>4. TypedAt(l, n, st, to)
  BY <1>3 DEF KeptAt, TypedAt
<1>5. EvidenceAt(l, n, d) /\ OnceAt(l) /\ ToolAt(n, to) /\ LatchAt(l, n)
  BY <1>3 DEF KeptAt, EvidenceAt, ToolAt, LatchAt
<1>6. LaneAt(l, n, st)
  BY <1>3 DEF KeptAt, LaneAt, TaskAt, IsLive
<1>7. StepAt(l, n, st)
  BY <1>3 DEF KeptAt, StepAt
<1> QED
  BY <1>2, <1>4, <1>5, <1>6, <1>7 DEF KeptAt

\* Of some positions of a log, one is the last.
LEMMA LastThere ==
    ASSUME NEW k \in Nat, NEW T, T \subseteq 1..k, \E p \in T : TRUE
    PROVE  \E p \in T : \A q \in T : q <= p
<1> DEFINE Gaps == {k - p : p \in T}
<1>1. Gaps \subseteq Nat /\ \E g \in Gaps : TRUE
  OBVIOUS
<1> HIDE DEF Gaps
<1>2. PICK g \in Gaps : \A h \in Gaps : ~(<<h, g>> \in OpToRel(<, Nat))
  BY <1>1, WFMin, NatLessThanWellFounded
<1>3. \A h \in Gaps : ~(h < g)
  BY <1>1, <1>2 DEF OpToRel
<1>4. PICK p \in T : g = k - p
  BY DEF Gaps
<1>5. ASSUME NEW q \in T PROVE q <= p
  <2>1. ~(k - q < g)
    BY <1>3 DEF Gaps
  <2> QED
    BY <1>4, <2>1
<1> QED
  BY <1>5

\* The step by which a handler begins, and what it goes on with.
LEMMA HandlesKeeps ==
    ASSUME GateIInv, SyncedDoc(rt), NEW l, KeptAt(l, rt, step, tool, Showing),
           NEW n, n = Synced(rt, l), NEW d, d = Showing'
    PROVE  /\ KeptAt(l, n, Seen(rt, step), Seen(rt, tool), d)
           /\ n.life = "live" /\ (n.enabled <=> WorkspaceOn(policy))
<1>1. (Showing # {} => d # {}) /\ (~WorkspaceOn(policy) => d # {}) /\ (WorkspaceOn(policy) => d = Showing)
  BY DocShows
<1>2. KeptAt(l, rt, step, tool, d)
  BY <1>1, MarkedKeeps
<1> QED
  BY <1>1, <1>2, SyncKeeps

\* A session event, up to what its handler goes on with.
LEMMA EventHandled ==
    ASSUME GateIInv, SyncedDoc(rt), NEW k \in {"say", "summary", "end"}, Len(log) < MaxLog,
           NEW l, l = With(k), NEW d, d = Showing'
    PROVE  /\ KeptAt(l, Synced(rt, l), Seen(rt, step), Seen(rt, tool), d)
           /\ Synced(rt, l).life = "live" /\ (Synced(rt, l).enabled <=> WorkspaceOn(policy))
           /\ l \in Seq(Event) /\ Len(l) = Len(log) + 1 /\ Len(log) \in Nat
           /\ l[Len(l)].kind = k /\ (l[Len(l)].on <=> WorkspaceOn(policy))
<1> DEFINE n == Synced(rt, l)
<1> HIDE DEF n
<1>0. WorkspaceOn(policy) \in BOOLEAN
  BY DEF WorkspaceOn
<1>1. PICK e \in Event : e = [kind |-> k, on |-> WorkspaceOn(policy)]
  BY <1>0 DEF Event
<1>2. e.kind = k /\ e.on = WorkspaceOn(policy)
  BY <1>1
<1>3. log \in Seq(Event) /\ l = Append(log, e) /\ KeptAt(log, rt, step, tool, Showing)
  BY <1>1 DEF GateIInv, KeptAt, TypedAt, With
<1>4. /\ l \in Seq(Event) /\ Len(l) = Len(log) + 1 /\ l[Len(log) + 1] = e
      /\ (\A p \in 1..Len(log) : l[p] = log[p]) /\ Len(log) \in Nat
  BY <1>3, LogGrows
<1>5. (Showing # {} => d # {}) /\ (~WorkspaceOn(policy) => d # {}) /\ (WorkspaceOn(policy) => d = Showing)
  BY DocShows
<1>6. KeptAt(log, rt, step, tool, d)
  BY <1>3, <1>5, MarkedKeeps
<1>7. KeptAt(l, rt, step, tool, d)
  <2>1. e.kind # "mem" /\ (e.kind = "say" /\ ~e.on => d # {})
    BY <1>2, <1>5
  <2> QED
    BY <1>3, <1>6, <2>1, EventKeeps
<1>8. /\ KeptAt(l, n, Seen(rt, step), Seen(rt, tool), d)
      /\ n.life = "live" /\ (n.enabled <=> WorkspaceOn(policy))
  BY <1>5, <1>7, SyncKeeps DEF n
<1> QED
  BY <1>2, <1>4, <1>8 DEF n

LEMMA SayKeeps ==
    ASSUME GateIInv, Say
    PROVE  KeptAt(log', rt', step', tool', Showing')
<1>1. PICK l : l = With("say")
  OBVIOUS
<1>2. PICK n : n = Synced(rt, l)
  OBVIOUS
<1>3. PICK d : d = Showing'
  OBVIOUS
<1>4. PICK t : t = TaskFor("say", Len(l), n)
  OBVIOUS
<1>5. /\ log' = l /\ SyncedDoc(rt) /\ step' = Seen(rt, step) /\ tool' = Seen(rt, tool)
      /\ rt' = IF n.enabled /\ Len(l) >= n.from THEN Queued(n, t) ELSE n
  BY <1>1, <1>2, <1>3, <1>4 DEF Say, Handles, Sync
<1>6. Len(log) < MaxLog
  BY DEF Say
<1>7. /\ KeptAt(l, n, Seen(rt, step), Seen(rt, tool), d)
      /\ n.life = "live" /\ (n.enabled <=> WorkspaceOn(policy))
      /\ l \in Seq(Event) /\ Len(l) = Len(log) + 1 /\ Len(log) \in Nat
      /\ l[Len(l)].kind = "say" /\ (l[Len(l)].on <=> WorkspaceOn(policy))
  <2>1. PICK k \in {"say", "summary", "end"} : k = "say"
    OBVIOUS
  <2> QED
    BY <1>1, <1>2, <1>3, <1>5, <1>6, <2>1, EventHandled
<1>8. ASSUME n.enabled PROVE KeptAt(l, Queued(n, t), Seen(rt, step), Seen(rt, tool), d)
  <2>1. n.epoch \in Nat /\ Len(l) \in 0..MaxLog
    BY <1>7, SessionGateAssumption DEF KeptAt, TypedAt, Runtimes, SessionGateAssumption
  <2>2. t \in Task /\ t.kind = "say" /\ t.epoch = n.epoch /\ ~t.replay /\ t.at = Len(l)
    <3>1. t = [kind |-> "say", at |-> Len(l), upto |-> Len(l), epoch |-> n.epoch, replay |-> FALSE]
      BY <1>4 DEF TaskFor
    <3>2. t \in Task
      BY <2>1, <3>1 DEF Task
    <3>3. t.kind = "say" /\ t.epoch = n.epoch /\ ~t.replay /\ t.at = Len(l)
      BY <3>1
    <3> QED
      BY <3>2, <3>3
  <2>3. t.at \in 1..Len(l) /\ l[t.at].on
    BY <1>7, <1>8, <2>1, <2>2
  <2> QED
    BY <1>7, <2>2, <2>3, QueuedKeeps
<1> QED
  BY <1>3, <1>5, <1>7, <1>8

LEMMA SummariseKeeps ==
    ASSUME GateIInv, Summarise
    PROVE  KeptAt(log', rt', step', tool', Showing')
<1>1. PICK l : l = With("summary")
  OBVIOUS
<1>2. PICK n : n = Synced(rt, l)
  OBVIOUS
<1>3. PICK d : d = Showing'
  OBVIOUS
<1>5. /\ log' = l /\ SyncedDoc(rt) /\ step' = Seen(rt, step) /\ tool' = Seen(rt, tool)
      /\ rt' = IF n.enabled /\ Len(l) >= n.from THEN [n EXCEPT !.pending = @ \cup {Len(l)}] ELSE n
  BY <1>1, <1>2, <1>3 DEF Summarise, Handles, Sync
<1>6. Len(log) < MaxLog
  <2>1. log \in Seq(Event)
    BY DEF GateIInv, KeptAt, TypedAt
  <2> QED
    BY <2>1, SessionGateAssumption DEF Summarise, SessionGateAssumption
<1>7. /\ KeptAt(l, n, Seen(rt, step), Seen(rt, tool), d) /\ n.life = "live"
      /\ Len(l) = Len(log) + 1 /\ Len(log) \in Nat /\ l[Len(l)].kind = "summary"
  <2>1. PICK k \in {"say", "summary", "end"} : k = "summary"
    OBVIOUS
  <2> QED
    BY <1>1, <1>2, <1>3, <1>5, <1>6, <2>1, EventHandled
<1>8. KeptAt(l, [n EXCEPT !.pending = @ \cup {Len(l)}], Seen(rt, step), Seen(rt, tool), d)
  <2>1. Len(l) \in 1..Len(l)
    BY <1>7
  <2> QED
    BY <1>7, <2>1, PendingKeeps
<1> QED
  BY <1>3, <1>5, <1>7, <1>8

LEMMA EndCompactionKeeps ==
    ASSUME GateIInv, EndCompaction
    PROVE  KeptAt(log', rt', step', tool', Showing')
<1>1. PICK l : l = With("end")
  OBVIOUS
<1>2. PICK n : n = Synced(rt, l)
  OBVIOUS
<1>3. PICK d : d = Showing'
  OBVIOUS
<1>4. PICK m : m = [n EXCEPT !.latch = FALSE]
  OBVIOUS
<1>9. PICK t : t = [kind |-> "settle", at |-> LastSummary, upto |-> LastSummary, epoch |-> n.epoch, replay |-> FALSE]
  OBVIOUS
<1>5. /\ log' = l /\ SyncedDoc(rt) /\ step' = Seen(rt, step) /\ tool' = Seen(rt, tool)
      /\ rt' = IF n.enabled /\ Len(l) >= n.from THEN Queued(m, TaskFor("settle", LastSummary, n)) ELSE n
  BY <1>1, <1>2, <1>3, <1>4 DEF EndCompaction, Handles, Sync
<1>6. Len(log) < MaxLog
  BY DEF EndCompaction
<1>7. /\ KeptAt(l, n, Seen(rt, step), Seen(rt, tool), d) /\ n.life = "live"
      /\ l \in Seq(Event) /\ Len(l) = Len(log) + 1 /\ Len(log) \in Nat /\ l[Len(l)].kind = "end"
  <2>1. PICK k \in {"say", "summary", "end"} : k = "end"
    OBVIOUS
  <2> QED
    BY <1>1, <1>2, <1>3, <1>5, <1>6, <2>1, EventHandled
<1>8. KeptAt(l, m, Seen(rt, step), Seen(rt, tool), d) /\ m.life = "live" /\ m.epoch = n.epoch /\ n.epoch \in Nat
  <2>1. \A p \in 1..Len(l) : ~Unended(l, p)
    <3> SUFFICES ASSUME NEW p \in 1..Len(l), Unended(l, p) PROVE FALSE
      OBVIOUS
    <3>1. p # Len(l)
      BY <1>7 DEF Unended
    <3>2. Len(l) \in p + 1..Len(l)
      BY <1>7, <3>1
    <3> QED
      BY <1>7, <3>2 DEF Unended
  <2>2. n \in Runtimes
    BY <1>7 DEF KeptAt, TypedAt
  <2>3. m.life = n.life /\ m.epoch = n.epoch /\ n.epoch \in Nat
    BY <1>4, <2>2 DEF Runtimes
  <2> QED
    BY <1>4, <1>7, <2>1, <2>3, UnlatchedKeeps
<1>10. LastSummary \in 1..Len(log)
  <2>1. OfKind("summary") \subseteq 1..Len(log) /\ \E p \in OfKind("summary") : TRUE
    BY DEF EndCompaction, Compacting, OfKind
  <2>2. \E p \in OfKind("summary") : \A q \in OfKind("summary") : q <= p
    BY <1>7, <2>1, LastThere
  <2> QED
    BY <2>1, <2>2 DEF LastSummary
<1>11. KeptAt(l, Queued(m, TaskFor("settle", LastSummary, n)), Seen(rt, step), Seen(rt, tool), d)
  <2>1. LastSummary \in 0..MaxLog
    BY <1>6, <1>7, <1>10, SessionGateAssumption DEF SessionGateAssumption
  <2>2. t \in Task
    BY <1>8, <1>9, <2>1 DEF Task
  <2>3. t.kind = "settle" /\ t.epoch = m.epoch /\ ~t.replay
    BY <1>8, <1>9
  <2>4. t = TaskFor("settle", LastSummary, n)
    BY <1>9 DEF TaskFor
  <2>5. KeptAt(l, Queued(m, t), Seen(rt, step), Seen(rt, tool), d)
    BY <1>8, <2>2, <2>3, QueuedKeeps
  <2> QED
    BY <2>4, <2>5
<1> QED
  BY <1>3, <1>5, <1>7, <1>11

(***************************************************************************)
(* The lane.                                                               *)
(***************************************************************************)
\* The lane without its first task.
LEMMA TailIs ==
    ASSUME NEW lane \in Seq(Task), lane # <<>>
    PROVE  /\ Tail(lane) \in Seq(Task) /\ Len(lane) \in Nat /\ Len(lane) > 0 /\ Len(Tail(lane)) = Len(lane) - 1
           /\ \A i \in 1..Len(Tail(lane)) : i + 1 \in 1..Len(lane) /\ i + 1 # 1 /\ Tail(lane)[i] = lane[i + 1]
           /\ 1 \in 1..Len(lane) /\ Head(lane) = lane[1] /\ lane[1] \in Task
  OBVIOUS

\* A task ends: n is the runtime after it.
LEMMA TailKeeps ==
    ASSUME NEW l, NEW r, NEW st, NEW to, NEW d, KeptAt(l, r, st, to, d), r.lane # <<>>,
           NEW n \in Runtimes, n.lane = Tail(r.lane), n.epoch = r.epoch, n.life = "live",
           n.enabled <=> r.enabled, r.life = "live",
           n.created => r.created \/ IsLive(r, r.lane[1]), n.bare = r.bare,
           EvidenceAt(l, n, d), LatchAt(l, n), r.created => n.created,
           NEW sn, sn = [st EXCEPT !.ahead = IF @ > 0 THEN @ - 1 ELSE 0],
           NEW tn, tn = [to EXCEPT !.ahead = IF @ > 0 THEN @ - 1 ELSE 0]
    PROVE  KeptAt(l, n, sn, tn, d)
<1>1. /\ r \in Runtimes /\ st \in InjectSteps /\ to \in ToolCalls /\ st.ahead <= Len(r.lane) /\ to.ahead <= Len(r.lane)
      /\ LaneAt(l, r, st) /\ StepAt(l, r, st) /\ OnceAt(l) /\ ToolAt(r, to)
  BY DEF KeptAt, TypedAt
<1>2. r.lane \in Seq(Task) /\ st.ahead \in Nat /\ to.ahead \in Nat
  BY <1>1 DEF Runtimes, InjectSteps, ToolCalls
<1>3. PICK lane : lane = Tail(r.lane)
  OBVIOUS
<1>4. /\ lane \in Seq(Task) /\ Len(r.lane) \in Nat /\ Len(r.lane) > 0 /\ Len(lane) = Len(r.lane) - 1
      /\ \A i \in 1..Len(lane) : i + 1 \in 1..Len(r.lane) /\ i + 1 # 1 /\ lane[i] = r.lane[i + 1]
      /\ 1 \in 1..Len(r.lane)
  BY <1>2, <1>3, TailIs
<1>5. n.lane = lane
  BY <1>3
<1>6. PICK sa \in Nat : sa = (IF st.ahead > 0 THEN st.ahead - 1 ELSE 0)
  BY <1>2
<1>7. PICK ta \in Nat : ta = (IF to.ahead > 0 THEN to.ahead - 1 ELSE 0)
  BY <1>2
<1>8. sa <= Len(lane) /\ ta <= Len(lane)
  BY <1>1, <1>2, <1>4, <1>6, <1>7
<1>9. sn = [st EXCEPT !.ahead = sa] /\ tn = [to EXCEPT !.ahead = ta]
  BY <1>6, <1>7
<1>10. /\ sn \in InjectSteps /\ sn.ahead = sa /\ sn.pc = st.pc /\ sn.closed = st.closed
       /\ tn \in ToolCalls /\ tn.ahead = ta /\ tn.pc = to.pc /\ tn.closed = to.closed /\ tn.epoch = to.epoch
  BY <1>1, <1>9 DEF InjectSteps, ToolCalls
<1>11. TypedAt(l, n, sn, tn)
  BY <1>5, <1>8, <1>10 DEF KeptAt, TypedAt
<1>12. \A i \in 1..Len(lane) : IsLive(n, n.lane[i]) <=> IsLive(r, r.lane[i + 1])
  BY <1>4, <1>5 DEF IsLive
<1>13. LaneAt(l, n, sn)
  <2> SUFFICES ASSUME NEW i \in 1..Len(lane) PROVE TaskAt(l, n, sn, i)
    BY <1>5 DEF LaneAt
  <2>1. TaskAt(l, r, st, i + 1) /\ n.lane[i] = r.lane[i + 1] /\ i + 1 # 1 /\ i + 1 \in 1..Len(r.lane) /\ i \in Nat
    BY <1>1, <1>4, <1>5 DEF LaneAt
  <2>2. ~n.lane[i].replay /\ n.lane[i].kind # "replay"
    BY <2>1 DEF TaskAt
  <2>3. ASSUME IsLive(n, n.lane[i])
        PROVE  ~n.created /\ \A j \in 1..Len(lane) : IsLive(n, n.lane[j]) => j = i
    <3>1. IsLive(r, r.lane[i + 1]) /\ \A j \in 1..Len(r.lane) : IsLive(r, r.lane[j]) => j = i + 1
      BY <1>12, <2>1, <2>3 DEF TaskAt
    <3>2. ~IsLive(r, r.lane[1]) /\ ~r.created
      BY <1>4, <2>1, <3>1 DEF TaskAt
    <3>3. ASSUME NEW j \in 1..Len(lane), IsLive(n, n.lane[j]) PROVE j = i
      <4>1. IsLive(r, r.lane[j + 1]) /\ j + 1 \in 1..Len(r.lane)
        BY <1>4, <1>12, <3>3
      <4>2. j + 1 = i + 1
        BY <3>1, <4>1
      <4> QED
        BY <2>1, <4>2
    <3> QED
      BY <3>2, <3>3
  <2>4. n.lane[i].epoch <= n.epoch /\ (n.lane[i].kind = "say" => n.lane[i].at \in 1..Len(l) /\ l[n.lane[i].at].on)
    BY <2>1 DEF TaskAt
  <2> QED
    BY <1>5, <2>2, <2>3, <2>4 DEF TaskAt
<1>14. StepAt(l, n, sn)
  <2>1. ASSUME Uncreated(r) PROVE Uncreated(n)
    <3>1. ~n.created
      BY <1>4, <2>1 DEF Uncreated, NoneLive
    <3>2. NoneLive(n)
      BY <1>4, <1>5, <1>12, <2>1 DEF Uncreated, NoneLive
    <3> QED
      BY <3>1, <3>2 DEF Uncreated
  <2> QED
    BY <1>1, <1>10, <2>1 DEF StepAt
<1>15. ToolAt(n, tn)
  BY <1>1, <1>10 DEF ToolAt
<1> QED
  BY <1>1, <1>11, <1>13, <1>14, <1>15 DEF KeptAt

\* When the task was no replay, or a void one, or one at its end, the latch is as good
\* as before.
LEMMA TailLatch ==
    ASSUME NEW l, NEW r, NEW st, NEW to, NEW d, KeptAt(l, r, st, to, d), r.lane # <<>>,
           NEW n \in Runtimes, n.lane = Tail(r.lane), n.epoch = r.epoch, n.created <=> r.created,
           n.latch <=> r.latch, n.enabled <=> r.enabled,
           \/ ~r.enabled \/ r.lane[1].epoch # r.epoch
           \/ r.lane[1].kind = "replay" /\ r.lane[1].at = r.lane[1].upto
           \/ r.lane[1].kind \in {"say", "settle"}
    PROVE  LatchAt(l, n)
<1>1. r \in Runtimes /\ LaneAt(l, r, st) /\ LatchAt(l, r)
  BY DEF KeptAt, TypedAt
<1>2. r.lane \in Seq(Task)
  BY <1>1 DEF Runtimes
<1>3. PICK lane : lane = Tail(r.lane)
  OBVIOUS
<1>4. /\ \A i \in 1..Len(lane) : i + 1 \in 1..Len(r.lane) /\ lane[i] = r.lane[i + 1]
      /\ 1 \in 1..Len(r.lane) /\ r.lane[1] \in Task
  BY <1>2, <1>3, TailIs
<1>5. TaskAt(l, r, st, 1)
  BY <1>1, <1>4 DEF LaneAt
<1>6. ASSUME NEW p \in 1..Len(l), Unended(l, p), r.enabled PROVE ~Replaying(r, p)
  <2>1. CASE r.lane[1].epoch # r.epoch
    BY <2>1 DEF Replaying
  <2>2. CASE r.lane[1].kind = "replay" /\ r.lane[1].at = r.lane[1].upto
    <3>1. r.lane[1].replay /\ ReplayAt(l, r.bare, st, r.lane[1]) /\ l[p].kind = "mem"
      BY <1>5, <1>6, <2>2 DEF TaskAt, Unended
    <3>2. p <= r.lane[1].upto /\ r.lane[1].upto \in Nat /\ p \in Nat
      <4>1. r.lane[1].upto \in Nat
        BY <1>4, SessionGateAssumption DEF Task, SessionGateAssumption
      <4> QED
        BY <3>1, <4>1 DEF ReplayAt
    <3> QED
      BY <2>2, <3>2 DEF Replaying
  <2>3. CASE r.lane[1].kind \in {"say", "settle"}
    BY <1>5, <2>3 DEF TaskAt, ReplayAt, Replaying
  <2> QED
    BY <1>6, <2>1, <2>2, <2>3
<1>7. ASSUME Uncreated(r) PROVE Uncreated(n)
  BY <1>3, <1>4, <1>7 DEF Uncreated, NoneLive, IsLive
<1> QED
  BY <1>1, <1>6, <1>7 DEF LatchAt

\* settleCompaction
LEMMA SettledIs ==
    ASSUME NEW r \in Runtimes, NEW p, NEW n, n = Settled(r, p)
    PROVE  /\ n \in Runtimes /\ n.life = r.life /\ n.enabled = r.enabled /\ n.created = r.created
           /\ n.latch = r.latch /\ n.failed = r.failed /\ n.epoch = r.epoch /\ n.from = r.from /\ n.lane = r.lane
           /\ n.bare = r.bare
           /\ n.pending \subseteq r.pending /\ n.seen \subseteq r.seen \cup r.pending
<1>1. r.pending \subseteq Positions /\ r.seen \subseteq Positions
  BY DEF Runtimes
<1>2. PICK ps \in SUBSET Positions : ps = r.pending \ {p}
  BY <1>1
<1>3. CASE p \in r.pending
  <2>1. PICK ss \in SUBSET Positions : ss = {q \in r.seen : q > p} \cup {p}
    BY <1>1, <1>3
  <2>2. n = [r EXCEPT !.pending = ps, !.seen = ss]
    BY <1>2, <1>3, <2>1 DEF Settled
  <2>3. /\ n \in Runtimes /\ n.life = r.life /\ n.enabled = r.enabled /\ n.created = r.created
        /\ n.latch = r.latch /\ n.failed = r.failed /\ n.epoch = r.epoch /\ n.from = r.from /\ n.lane = r.lane
        /\ n.bare = r.bare
        /\ n.pending = ps /\ n.seen = ss
    BY <2>2 DEF Runtimes
  <2> QED
    BY <1>2, <1>3, <2>1, <2>3
<1>4. CASE p \notin r.pending
  <2>1. n = r
    BY <1>4 DEF Settled
  <2> QED
    BY <2>1
<1> QED
  BY <1>3, <1>4

\* What the actions of the lane are about.
LEMMA LaneFacts ==
    ASSUME GateIInv, NEW k, Working(k)
    PROVE  /\ rt \in Runtimes /\ step \in InjectSteps /\ tool \in ToolCalls /\ rt.lane \in Seq(Task)
           /\ rt.life = "live" /\ rt.lane # <<>> /\ Head1 = rt.lane[1] /\ rt.lane[1].kind = k /\ rt.lane[1] \in Task
           /\ TaskAt(log, rt, step, 1) /\ 1 \in 1..Len(rt.lane)
           /\ EvidenceAt(log, rt, Showing) /\ LatchAt(log, rt)
<1>1. /\ rt \in Runtimes /\ step \in InjectSteps /\ tool \in ToolCalls /\ (rt.life = "absent" => rt = NoRuntime)
      /\ LaneAt(log, rt, step) /\ EvidenceAt(log, rt, Showing) /\ LatchAt(log, rt)
  BY DEF GateIInv, KeptAt, TypedAt
<1>2. rt.lane \in Seq(Task) /\ rt.life \in {"absent", "live"} /\ rt.lane # <<>>
  BY <1>1 DEF Runtimes, Working
<1>3. rt.life = "live"
  BY <1>1, <1>2 DEF NoRuntime
<1>4. Head1 = rt.lane[1] /\ rt.lane[1] \in Task /\ 1 \in 1..Len(rt.lane)
  BY <1>2, TailIs DEF Head1
<1>5. rt.lane[1].kind = k
  BY <1>4 DEF Working
<1>6. TaskAt(log, rt, step, 1)
  BY <1>1, <1>4 DEF LaneAt
<1> QED
  BY <1>1, <1>2, <1>3, <1>4, <1>5, <1>6

\* A task that leaves the runtime as it is but for its evidence.
LEMMA TaskDone ==
    ASSUME GateIInv, NEW k, Working(k),
           NEW r \in Runtimes, Done(r), r.lane = rt.lane, r.epoch = rt.epoch, r.life = rt.life, r.enabled = rt.enabled,
           r.created = rt.created, r.latch = rt.latch, r.bare = rt.bare, EvidenceAt(log, r, Showing),
           \/ ~rt.enabled \/ rt.lane[1].epoch # rt.epoch
           \/ rt.lane[1].kind = "replay" /\ rt.lane[1].at = rt.lane[1].upto
           \/ rt.lane[1].kind \in {"say", "settle"}
    PROVE  KeptAt(log, rt', step', tool', Showing)
<1>1. KeptAt(log, rt, step, tool, Showing)
  BY DEF GateIInv
<1>2. rt.life = "live" /\ rt.lane # <<>> /\ rt.lane \in Seq(Task)
  BY LaneFacts
<1>3. PICK lane \in Seq(Task) : lane = Tail(rt.lane)
  BY <1>2, TailIs
<1>4. PICK n : n = [r EXCEPT !.lane = lane]
  OBVIOUS
<1>5. /\ n \in Runtimes /\ n.lane = lane /\ n.epoch = r.epoch /\ n.life = r.life /\ n.enabled = r.enabled
      /\ n.created = r.created /\ n.latch = r.latch /\ n.pending = r.pending /\ n.seen = r.seen
      /\ n.bare = r.bare
  BY <1>4 DEF Runtimes
<1>6. /\ rt' = n
      /\ step' = [step EXCEPT !.ahead = IF @ > 0 THEN @ - 1 ELSE 0]
      /\ tool' = [tool EXCEPT !.ahead = IF @ > 0 THEN @ - 1 ELSE 0]
  BY <1>3, <1>4 DEF Done
<1>7. EvidenceAt(log, n, Showing)
  BY <1>5 DEF EvidenceAt
<1>8. LatchAt(log, n)
  BY <1>1, <1>2, <1>3, <1>5, TailLatch
<1>9. KeptAt(log, n, step', tool', Showing)
  BY <1>1, <1>2, <1>3, <1>5, <1>6, <1>7, <1>8, TailKeeps
<1> QED
  BY <1>6, <1>9

LEMMA SeeMessageKeeps ==
    ASSUME GateIInv, SeeMessage
    PROVE  KeptAt(log, rt', step', tool', Showing)
<1>1. Working("say")
  BY DEF SeeMessage
<1>2. /\ rt \in Runtimes /\ Head1 = rt.lane[1] /\ rt.lane[1].kind = "say" /\ rt.lane[1] \in Task
      /\ TaskAt(log, rt, step, 1) /\ EvidenceAt(log, rt, Showing)
  BY <1>1, LaneFacts
<1>3. PICK r : r = IF Void(Head1) \/ ~rt.created THEN rt ELSE [rt EXCEPT !.seen = @ \cup {Head1.at}]
  OBVIOUS
<1>4. Done(r)
  BY <1>3 DEF SeeMessage
<1>5. PICK p : p = Head1.at
  OBVIOUS
<1>6. p \in 1..Len(log) /\ log[p].on /\ p \in Positions
  <2>1. p \in 1..Len(log) /\ log[p].on
    BY <1>2, <1>5 DEF TaskAt
  <2>2. Len(log) <= MaxLog /\ log \in Seq(Event)
    BY DEF GateIInv, KeptAt, TypedAt
  <2> QED
    BY <2>1, <2>2, SessionGateAssumption DEF Positions, SessionGateAssumption
<1>7. /\ r \in Runtimes /\ r.lane = rt.lane /\ r.epoch = rt.epoch /\ r.life = rt.life /\ r.enabled = rt.enabled
      /\ r.created = rt.created /\ r.latch = rt.latch /\ r.bare = rt.bare
      /\ r.pending = rt.pending /\ r.seen \subseteq rt.seen \cup {p}
  <2>1. PICK ss \in SUBSET Positions : ss = rt.seen \cup {p}
    BY <1>2, <1>6 DEF Runtimes
  <2>2. r = rt \/ r = [rt EXCEPT !.seen = ss]
    BY <1>3, <1>5, <2>1
  <2>3. CASE r = rt
    BY <1>2, <2>3
  <2>4. CASE r = [rt EXCEPT !.seen = ss]
    BY <1>2, <2>1, <2>4 DEF Runtimes
  <2> QED
    BY <2>2, <2>3, <2>4
<1>8. EvidenceAt(log, r, Showing)
  <2>1. ASSUME NEW q \in r.seen PROVE q \in 1..Len(log) /\ (log[q].kind = "say" => log[q].on \/ q <= r.bare)
    <3>1. q \in rt.seen \/ q = p
      BY <1>7
    <3>2. CASE q \in rt.seen
      BY <1>2, <1>7, <3>2 DEF EvidenceAt
    <3>3. CASE q = p
      BY <1>6, <3>3
    <3> QED
      BY <3>1, <3>2, <3>3
  <2> QED
    BY <1>2, <1>7, <2>1 DEF EvidenceAt
<1> QED
  BY <1>1, <1>2, <1>4, <1>7, <1>8, TaskDone

LEMMA SettleCompactionKeeps ==
    ASSUME GateIInv, SettleCompaction
    PROVE  KeptAt(log, rt', step', tool', Showing)
<1>1. Working("settle")
  BY DEF SettleCompaction
<1>2. rt \in Runtimes /\ rt.lane[1].kind = "settle" /\ EvidenceAt(log, rt, Showing)
  BY <1>1, LaneFacts
<1>3. PICK r : r = IF ~rt.enabled THEN rt ELSE Settled(rt, Head1.at)
  OBVIOUS
<1>4. Done(r)
  BY <1>3 DEF SettleCompaction
<1>5. /\ r \in Runtimes /\ r.lane = rt.lane /\ r.epoch = rt.epoch /\ r.life = rt.life /\ r.enabled = rt.enabled
      /\ r.created = rt.created /\ r.latch = rt.latch /\ r.bare = rt.bare
      /\ r.pending \subseteq rt.pending /\ r.seen \subseteq rt.seen \cup rt.pending
  BY <1>2, <1>3, SettledIs
<1>6. EvidenceAt(log, r, Showing)
  BY <1>2, <1>5 DEF EvidenceAt
<1> QED
  BY <1>1, <1>2, <1>4, <1>5, <1>6, TaskDone

LEMMA ReplayFacts ==
    ASSUME GateIInv, Working("replay")
    PROVE  /\ rt.lane[1].replay /\ ReplayAt(log, rt.bare, step, rt.lane[1])
           /\ rt.lane[1].at \in Nat /\ rt.lane[1].upto \in 0..Len(log) /\ rt.lane[1].upto <= MaxLog
<1>1. rt.lane[1].kind = "replay" /\ rt.lane[1] \in Task /\ TaskAt(log, rt, step, 1)
  BY LaneFacts
<1>2. rt.lane[1].replay /\ ReplayAt(log, rt.bare, step, rt.lane[1])
  BY <1>1 DEF TaskAt
<1>3. rt.lane[1].at \in 0..MaxLog /\ rt.lane[1].upto \in 0..MaxLog
  BY <1>1 DEF Task
<1>4. log \in Seq(Event)
  BY DEF GateIInv, KeptAt, TypedAt
<1> QED
  BY <1>2, <1>3, <1>4, SessionGateAssumption DEF ReplayAt, SessionGateAssumption

\* The first task goes on: n is the runtime after it.
LEMMA HeadKeeps ==
    ASSUME NEW l, NEW r, NEW st, NEW to, NEW d, KeptAt(l, r, st, to, d), r.life = "live",
           NEW t \in Task, NEW n \in Runtimes, r.lane # <<>>, n.lane = [r.lane EXCEPT ![1] = t],
           n.epoch = r.epoch, n.life = "live", n.enabled <=> r.enabled,
           r.lane[1].replay, t.kind = "replay", t.replay, t.epoch = r.lane[1].epoch, ReplayAt(l, r.bare, st, t),
           n.created => r.created \/ IsLive(r, r.lane[1]), n.bare = r.bare,
           EvidenceAt(l, n, d), LatchAt(l, n)
    PROVE  KeptAt(l, n, st, to, d)
<1>1. /\ r \in Runtimes /\ st \in InjectSteps /\ to \in ToolCalls /\ st.ahead <= Len(r.lane) /\ to.ahead <= Len(r.lane)
      /\ LaneAt(l, r, st) /\ StepAt(l, r, st) /\ OnceAt(l) /\ ToolAt(r, to)
  BY DEF KeptAt, TypedAt
<1>2. r.lane \in Seq(Task) /\ Len(r.lane) > 0 /\ 1 \in 1..Len(r.lane)
  <2>1. r.lane \in Seq(Task)
    BY <1>1 DEF Runtimes
  <2> QED
    BY <2>1, TailIs
<1>3. PICK lane : lane = [r.lane EXCEPT ![1] = t]
  OBVIOUS
<1>4. /\ lane \in Seq(Task) /\ Len(lane) = Len(r.lane) /\ lane[1] = t
      /\ \A i \in 1..Len(r.lane) : i # 1 => lane[i] = r.lane[i]
  BY <1>2, <1>3
<1>5. n.lane = lane
  BY <1>3
<1>6. TypedAt(l, n, st, to)
  BY <1>1, <1>4, <1>5 DEF KeptAt, TypedAt
<1>7. ~IsLive(n, n.lane[1]) /\ \A i \in 1..Len(r.lane) : i # 1 => (IsLive(n, n.lane[i]) <=> IsLive(r, r.lane[i]))
  BY <1>4, <1>5 DEF IsLive
<1>8. LaneAt(l, n, st)
  <2> SUFFICES ASSUME NEW i \in 1..Len(r.lane) PROVE TaskAt(l, n, st, i)
    BY <1>4, <1>5 DEF LaneAt
  <2>1. TaskAt(l, r, st, i) /\ TaskAt(l, r, st, 1)
    BY <1>1, <1>2 DEF LaneAt
  <2>2. CASE i = 1
    <3>1. t.epoch <= n.epoch
      BY <2>1 DEF TaskAt
    <3> QED
      BY <1>4, <1>5, <1>7, <2>2, <3>1 DEF TaskAt
  <2>3. CASE i # 1
    <3>1. n.lane[i] = r.lane[i]
      BY <1>4, <1>5, <2>3
    <3>2. ASSUME IsLive(n, n.lane[i])
          PROVE  ~n.created /\ \A j \in 1..Len(n.lane) : IsLive(n, n.lane[j]) => j = i
      <4>1. IsLive(r, r.lane[i])
        BY <1>7, <2>3, <3>2
      <4>2. ~r.created /\ \A j \in 1..Len(r.lane) : IsLive(r, r.lane[j]) => j = i
        BY <2>1, <4>1 DEF TaskAt
      <4>3. ~IsLive(r, r.lane[1])
        BY <1>2, <2>3, <4>2
      <4> QED
        BY <1>4, <1>5, <1>7, <4>2, <4>3
    <3> QED
      BY <2>1, <2>3, <3>1, <3>2 DEF TaskAt
  <2> QED
    BY <2>2, <2>3
<1>9. StepAt(l, n, st)
  <2>1. st.pc # "building"
    <3>1. TaskAt(l, r, st, 1)
      BY <1>1, <1>2 DEF LaneAt
    <3> QED
      BY <3>1 DEF TaskAt, ReplayAt
  <2> QED
    BY <1>1, <2>1 DEF StepAt
<1>10. ToolAt(n, to)
  BY <1>1 DEF ToolAt
<1> QED
  BY <1>1, <1>6, <1>8, <1>9, <1>10 DEF KeptAt

\* The replay of one event: what is evidence, and what is in the window.
LEMMA ReplayedIs ==
    ASSUME GateIInv, Working("replay"), rt.lane[1].at # rt.lane[1].upto,
           NEW p, p = rt.lane[1].at + 1, NEW n, n = Replayed(rt, p)
    PROVE  /\ n \in Runtimes /\ n.life = rt.life /\ n.enabled = rt.enabled /\ n.created = rt.created
           /\ n.epoch = rt.epoch /\ n.bare = rt.bare /\ n.lane = rt.lane /\ p \in 1..Len(log) /\ EvidenceAt(log, n, Showing)
           /\ log[p].kind # "end" => (rt.latch \/ log[p].kind = "mem" => n.latch)
<1>1. /\ rt \in Runtimes /\ EvidenceAt(log, rt, Showing) /\ log \in Seq(Event) /\ Len(log) <= MaxLog
      /\ rt.lane[1].replay /\ ReplayAt(log, rt.bare, step, rt.lane[1])
      /\ rt.lane[1].at \in Nat /\ rt.lane[1].upto \in 0..Len(log)
  BY LaneFacts, ReplayFacts DEF GateIInv, KeptAt, TypedAt
<1>2. p \in 1..rt.lane[1].upto /\ p \in 1..Len(log) /\ p \in Positions
  BY <1>1, SessionGateAssumption DEF ReplayAt, Positions, SessionGateAssumption
<1>3. log[p].kind \in {"say", "mem", "summary", "end"}
  <2>1. log[p] \in Event
    BY <1>1, <1>2
  <2> QED
    BY <2>1 DEF Event
<1>4. CASE log[p].kind = "say"
  <2>1. PICK ss \in SUBSET Positions : ss = rt.seen \cup {p}
    BY <1>1, <1>2 DEF Runtimes
  <2>2. n = [rt EXCEPT !.seen = ss]
    BY <1>4, <2>1 DEF Replayed
  <2>3. /\ n \in Runtimes /\ n.life = rt.life /\ n.enabled = rt.enabled /\ n.created = rt.created
        /\ n.epoch = rt.epoch /\ n.bare = rt.bare /\ n.lane = rt.lane /\ n.latch = rt.latch /\ n.pending = rt.pending /\ n.seen = ss
    BY <1>1, <2>2 DEF Runtimes
  <2>4. log[p].on \/ p <= rt.bare
    BY <1>1, <1>2, <1>4 DEF ReplayAt
  <2>5. EvidenceAt(log, n, Showing)
    BY <1>1, <1>2, <2>1, <2>3, <2>4 DEF EvidenceAt
  <2> QED
    BY <1>2, <1>4, <2>3, <2>5
<1>5. CASE log[p].kind = "mem"
  <2>1. n = [rt EXCEPT !.latch = TRUE]
    BY <1>5 DEF Replayed
  <2>2. /\ n \in Runtimes /\ n.life = rt.life /\ n.enabled = rt.enabled /\ n.created = rt.created
        /\ n.epoch = rt.epoch /\ n.bare = rt.bare /\ n.lane = rt.lane /\ n.latch /\ n.pending = rt.pending /\ n.seen = rt.seen
    BY <1>1, <2>1 DEF Runtimes
  <2>3. EvidenceAt(log, n, Showing)
    BY <1>1, <2>2 DEF EvidenceAt
  <2> QED
    BY <1>2, <2>2, <2>3
<1>6. CASE log[p].kind = "summary"
  <2>1. PICK ps \in SUBSET Positions : ps = rt.pending \cup {p}
    BY <1>1, <1>2 DEF Runtimes
  <2>2. n = [rt EXCEPT !.pending = ps]
    BY <1>6, <2>1 DEF Replayed
  <2>3. /\ n \in Runtimes /\ n.life = rt.life /\ n.enabled = rt.enabled /\ n.created = rt.created
        /\ n.epoch = rt.epoch /\ n.bare = rt.bare /\ n.lane = rt.lane /\ n.latch = rt.latch /\ n.pending = ps /\ n.seen = rt.seen
    BY <1>1, <2>2 DEF Runtimes
  <2>4. EvidenceAt(log, n, Showing)
    BY <1>1, <1>2, <1>6, <2>1, <2>3 DEF EvidenceAt
  <2> QED
    BY <1>2, <1>6, <2>3, <2>4
<1>7. CASE log[p].kind = "end"
  <2>1. PICK q : q = CHOOSE y \in OfKind("summary") : y < p /\ \A x \in OfKind("summary") : x < p => x <= y
    OBVIOUS
  <2>2. PICK m : m = Settled(rt, q)
    OBVIOUS
  <2>3. n = [m EXCEPT !.latch = FALSE]
    BY <1>7, <2>1, <2>2 DEF Replayed
  <2>4. /\ m \in Runtimes /\ m.life = rt.life /\ m.enabled = rt.enabled /\ m.created = rt.created
        /\ m.epoch = rt.epoch /\ m.bare = rt.bare /\ m.lane = rt.lane
        /\ m.pending \subseteq rt.pending /\ m.seen \subseteq rt.seen \cup rt.pending
    BY <1>1, <2>2, SettledIs
  <2>5. /\ n \in Runtimes /\ n.life = rt.life /\ n.enabled = rt.enabled /\ n.created = rt.created
        /\ n.epoch = rt.epoch /\ n.bare = rt.bare /\ n.lane = rt.lane
        /\ n.pending \subseteq rt.pending /\ n.seen \subseteq rt.seen \cup rt.pending
    BY <2>3, <2>4 DEF Runtimes
  <2>6. EvidenceAt(log, n, Showing)
    BY <1>1, <2>5 DEF EvidenceAt
  <2> QED
    BY <1>2, <1>7, <2>5, <2>6
<1> QED
  BY <1>3, <1>4, <1>5, <1>6, <1>7

LEMMA ReplayEventKeeps ==
    ASSUME GateIInv, ReplayEvent
    PROVE  KeptAt(log, rt', step', tool', Showing)
<1>1. Working("replay") /\ KeptAt(log, rt, step, tool, Showing)
  BY DEF ReplayEvent, GateIInv
<1>2. /\ rt \in Runtimes /\ Head1 = rt.lane[1] /\ rt.lane[1].kind = "replay" /\ rt.lane[1] \in Task /\ rt.life = "live"
      /\ EvidenceAt(log, rt, Showing) /\ LatchAt(log, rt) /\ rt.lane \in Seq(Task) /\ rt.lane # <<>> /\ 1 \in 1..Len(rt.lane)
  BY <1>1, LaneFacts
<1>3. CASE Void(Head1) \/ Head1.at = Head1.upto
  <2>1. Done(rt)
    BY <1>3 DEF ReplayEvent
  <2>2. ~rt.enabled \/ rt.lane[1].epoch # rt.epoch \/ (rt.lane[1].kind = "replay" /\ rt.lane[1].at = rt.lane[1].upto)
    <3>1. CASE Void(Head1)
      <4>1. ~rt.enabled \/ rt.lane[1].epoch # rt.epoch
        BY <1>2, <3>1 DEF Void
      <4> QED
        BY <4>1
    <3>2. CASE Head1.at = Head1.upto
      BY <1>2, <3>2
    <3> QED
      BY <1>3, <3>1, <3>2
  <2> QED
    BY <1>1, <1>2, <2>1, <2>2, TaskDone
<1>4. CASE ~(Void(Head1) \/ Head1.at = Head1.upto)
  <2>1. PICK p : p = rt.lane[1].at + 1
    OBVIOUS
  <2>2. PICK m : m = Replayed(rt, p)
    OBVIOUS
  <2>3. rt.lane[1].at # rt.lane[1].upto /\ rt.lane[1].epoch = rt.epoch
    BY <1>2, <1>4 DEF Void
  <2>4. /\ m \in Runtimes /\ m.life = rt.life /\ m.enabled = rt.enabled /\ m.created = rt.created
        /\ m.epoch = rt.epoch /\ m.bare = rt.bare /\ m.lane = rt.lane /\ p \in 1..Len(log) /\ EvidenceAt(log, m, Showing)
        /\ log[p].kind # "end" => (rt.latch \/ log[p].kind = "mem" => m.latch)
    BY <1>1, <2>1, <2>2, <2>3, ReplayedIs
  <2>5. /\ rt.lane[1].replay /\ ReplayAt(log, rt.bare, step, rt.lane[1]) /\ rt.lane[1].at \in Nat
        /\ rt.lane[1].upto \in 0..Len(log) /\ rt.lane[1].upto <= MaxLog
    BY <1>1, ReplayFacts
  <2>6. p \in 0..MaxLog /\ p <= rt.lane[1].upto /\ p \in Nat
    BY <2>1, <2>3, <2>5, SessionGateAssumption DEF ReplayAt, SessionGateAssumption
  <2>7. PICK t : t = [rt.lane[1] EXCEPT !.at = p]
    OBVIOUS
  <2>8. t \in Task /\ t.kind = "replay" /\ t.replay /\ t.at = p /\ t.upto = rt.lane[1].upto /\ t.epoch = rt.lane[1].epoch
    BY <1>2, <2>5, <2>6, <2>7 DEF Task
  <2>9. PICK lane : lane = [rt.lane EXCEPT ![1] = t]
    OBVIOUS
  <2>10. lane \in Seq(Task) /\ Len(lane) > 0 /\ lane[1] = t
    <3>1. Len(rt.lane) > 0
      BY <1>2, TailIs
    <3> QED
      BY <1>2, <2>8, <2>9, <3>1
  <2>11. PICK n : n = [m EXCEPT !.lane = lane]
    OBVIOUS
  <2>12. /\ n \in Runtimes /\ n.lane = lane /\ n.life = "live" /\ n.enabled = rt.enabled /\ n.created = rt.created
         /\ n.bare = rt.bare /\ n.epoch = rt.epoch /\ n.latch = m.latch /\ n.pending = m.pending /\ n.seen = m.seen
    BY <1>2, <2>4, <2>10, <2>11 DEF Runtimes
  <2>13. EvidenceAt(log, n, Showing)
    BY <1>2, <2>4, <2>12 DEF EvidenceAt
  <2>14. ReplayAt(log, rt.bare, step, t)
    BY <2>5, <2>6, <2>8 DEF ReplayAt
  <2>15. ASSUME Uncreated(rt) PROVE Uncreated(n)
    <3>1. \A i \in 1..Len(lane) : i \in 1..Len(rt.lane) /\ (i # 1 => lane[i] = rt.lane[i])
      BY <1>2, <2>9
    <3>2. NoneLive(n)
      BY <2>8, <2>10, <2>12, <2>15, <3>1 DEF Uncreated, NoneLive, IsLive
    <3> QED
      BY <2>12, <2>15, <3>2 DEF Uncreated
  <2>16. LatchAt(log, n)
    <3> SUFFICES ASSUME NEW u \in 1..Len(log), Unended(log, u), ~(u > p), rt.enabled PROVE n.latch \/ Uncreated(n)
      <4>1. ASSUME NEW u \in 1..Len(log), u > p PROVE Replaying(n, u)
        BY <2>3, <2>8, <2>10, <2>12, <4>1 DEF Replaying
      <4> QED
        BY <2>12, <4>1 DEF LatchAt
    <3>1. log[p].kind # "end" /\ log[u].kind = "mem"
      <4>1. u \in Nat /\ p \in Nat /\ u <= p
        BY <2>6
      <4>2. CASE u = p
        BY <4>2 DEF Unended
      <4>3. CASE u # p
        <5>1. p \in u + 1..Len(log)
          BY <2>4, <4>1, <4>3
        <5> QED
          BY <5>1 DEF Unended
      <4> QED
        BY <4>2, <4>3
    <3>2. CASE u = p
      BY <2>4, <2>12, <3>1, <3>2
    <3>3. CASE u # p
      <4>1. ~(u > rt.lane[1].at)
        BY <2>1, <2>5, <3>3
      <4>2. ~Replaying(rt, u) /\ (rt.latch \/ Replaying(rt, u) \/ Uncreated(rt))
        BY <1>2, <4>1 DEF Replaying, LatchAt
      <4>3. CASE rt.latch
        BY <2>4, <2>12, <3>1, <4>3
      <4>4. CASE Uncreated(rt)
        BY <2>15, <4>4
      <4> QED
        BY <4>2, <4>3, <4>4
    <3> QED
      BY <3>2, <3>3
  <2>17. rt' = n /\ step' = step /\ tool' = tool
    <3>1. rt' = [Replayed(rt, Head1.at + 1) EXCEPT !.lane[1].at = @ + 1] /\ step' = step /\ tool' = tool
      BY <1>4 DEF ReplayEvent
    <3>2. rt' = [m EXCEPT !.lane[1].at = @ + 1]
      BY <1>2, <2>1, <2>2, <3>1
    <3>3. m.lane = rt.lane /\ m.lane[1].at + 1 = p
      BY <2>1, <2>4
    <3> QED
      BY <2>7, <2>9, <2>11, <3>1, <3>2, <3>3
  <2>18. KeptAt(log, n, step, tool, Showing)
    BY <1>1, <1>2, <2>5, <2>8, <2>9, <2>12, <2>13, <2>14, <2>16, HeadKeeps
  <2> QED
    BY <2>17, <2>18
<1> QED
  BY <1>3, <1>4

\* The create task ends, with the session created or with a failure.
LEMMA CreateTaskGone ==
    ASSUME GateIInv, Working("create"), ~Void(Head1), NEW lane, lane = Tail(rt.lane)
    PROVE  \A i \in 1..Len(lane) : ~IsLive(rt, lane[i])
<1>1. /\ rt.lane \in Seq(Task) /\ rt.lane # <<>> /\ Head1 = rt.lane[1] /\ rt.lane[1].kind = "create"
      /\ TaskAt(log, rt, step, 1) /\ 1 \in 1..Len(rt.lane)
  BY LaneFacts
<1>2. IsLive(rt, rt.lane[1])
  BY <1>1 DEF IsLive, Void
<1>3. \A j \in 1..Len(rt.lane) : IsLive(rt, rt.lane[j]) => j = 1
  BY <1>1, <1>2 DEF TaskAt
<1>4. \A i \in 1..Len(lane) : i + 1 \in 1..Len(rt.lane) /\ i + 1 # 1 /\ lane[i] = rt.lane[i + 1]
  BY <1>1, TailIs
<1> QED
  BY <1>3, <1>4

LEMMA CreateFailsKeeps ==
    ASSUME GateIInv, CreateFails
    PROVE  KeptAt(log, rt', step', tool', Showing)
<1>1. Working("create") /\ ~Void(Head1) /\ KeptAt(log, rt, step, tool, Showing) /\ Done([rt EXCEPT !.failed = TRUE])
  BY DEF CreateFails, GateIInv
<1>2. /\ rt \in Runtimes /\ rt.life = "live" /\ rt.lane # <<>> /\ rt.lane \in Seq(Task)
      /\ EvidenceAt(log, rt, Showing) /\ Head1 = rt.lane[1] /\ rt.lane[1].kind = "create"
      /\ TaskAt(log, rt, step, 1)
  BY <1>1, LaneFacts
<1>3. PICK lane \in Seq(Task) : lane = Tail(rt.lane)
  BY <1>2, TailIs
<1>4. PICK n : n = [rt EXCEPT !.failed = TRUE, !.lane = lane]
  OBVIOUS
<1>5. /\ n \in Runtimes /\ n.lane = lane /\ n.epoch = rt.epoch /\ n.life = rt.life /\ n.enabled = rt.enabled
      /\ n.created = rt.created /\ n.pending = rt.pending /\ n.seen = rt.seen /\ n.bare = rt.bare
  BY <1>2, <1>4 DEF Runtimes
<1>6. EvidenceAt(log, n, Showing)
  BY <1>2, <1>5 DEF EvidenceAt
<1>7. Uncreated(n)
  <2>1. ~rt.created
    BY <1>1, <1>2 DEF TaskAt, IsLive, Void
  <2>2. \A i \in 1..Len(lane) : ~IsLive(rt, lane[i])
    BY <1>1, <1>3, CreateTaskGone
  <2> QED
    BY <1>5, <2>1, <2>2 DEF Uncreated, NoneLive, IsLive
<1>8. LatchAt(log, n)
  BY <1>7 DEF LatchAt
<1>9. /\ rt' = n
      /\ step' = [step EXCEPT !.ahead = IF @ > 0 THEN @ - 1 ELSE 0]
      /\ tool' = [tool EXCEPT !.ahead = IF @ > 0 THEN @ - 1 ELSE 0]
  BY <1>1, <1>3, <1>4 DEF Done
<1>10. KeptAt(log, n, step', tool', Showing)
  BY <1>1, <1>2, <1>3, <1>5, <1>6, <1>8, <1>9, TailKeeps
<1> QED
  BY <1>9, <1>10

LEMMA CreateSessionKeeps ==
    ASSUME GateIInv, CreateSession
    PROVE  KeptAt(log, rt', step', tool', Showing)
<1>1. Working("create") /\ KeptAt(log, rt, step, tool, Showing)
  BY DEF CreateSession, GateIInv
<1>2. /\ rt \in Runtimes /\ rt.life = "live" /\ rt.lane # <<>> /\ rt.lane \in Seq(Task) /\ 1 \in 1..Len(rt.lane)
      /\ EvidenceAt(log, rt, Showing) /\ Head1 = rt.lane[1] /\ rt.lane[1].kind = "create" /\ rt.lane[1] \in Task
      /\ TaskAt(log, rt, step, 1) /\ LatchAt(log, rt)
  BY <1>1, LaneFacts
<1>3. CASE Void(Head1)
  <2>1. Done(rt)
    BY <1>3 DEF CreateSession
  <2>2. ~rt.enabled \/ rt.lane[1].epoch # rt.epoch
    BY <1>2, <1>3 DEF Void
  <2> QED
    BY <1>1, <1>2, <2>1, <2>2, TaskDone
<1>4. ASSUME ~Void(Head1) PROVE IsLive(rt, rt.lane[1]) /\ ~rt.created /\ rt.enabled
  BY <1>2, <1>4 DEF TaskAt, IsLive, Void
<1>5. CASE ~Void(Head1) /\ Head1.replay
  <2>1. PICK t : t = [rt.lane[1] EXCEPT !.kind = "replay"]
    OBVIOUS
  <2>2. /\ t \in Task /\ t.kind = "replay" /\ t.replay = rt.lane[1].replay /\ t.at = rt.lane[1].at
        /\ t.upto = rt.lane[1].upto /\ t.epoch = rt.lane[1].epoch
    BY <1>2, <2>1 DEF Task
  <2>3. rt.lane[1].replay /\ t.replay /\ ReplayAt(log, rt.bare, step, rt.lane[1])
    BY <1>2, <1>5, <2>2 DEF TaskAt
  <2>4. ReplayAt(log, rt.bare, step, t)
    BY <2>2, <2>3 DEF ReplayAt
  <2>5. PICK lane : lane = [rt.lane EXCEPT ![1] = t]
    OBVIOUS
  <2>6. /\ Len(rt.lane) > 0 /\ Len(rt.lane) \in Nat /\ lane \in Seq(Task) /\ Len(lane) = Len(rt.lane) /\ lane[1] = t
        /\ lane = <<t>> \o Tail(rt.lane)
    <3>1. /\ Tail(rt.lane) \in Seq(Task) /\ Len(rt.lane) \in Nat /\ Len(rt.lane) > 0
          /\ Len(Tail(rt.lane)) = Len(rt.lane) - 1
          /\ \A i \in 1..Len(Tail(rt.lane)) : Tail(rt.lane)[i] = rt.lane[i + 1]
      BY <1>2, TailIs
    <3>2. lane \in Seq(Task) /\ Len(lane) = Len(rt.lane) /\ lane[1] = t
      BY <1>2, <2>2, <2>5, <3>1
    <3>3. PICK rest \in Seq(Task) : rest = Tail(rt.lane)
      BY <3>1
    <3>4. /\ <<t>> \o rest \in Seq(Task) /\ Len(<<t>> \o rest) = Len(rt.lane)
          /\ (<<t>> \o rest)[1] = t /\ \A i \in 2..Len(rt.lane) : (<<t>> \o rest)[i] = rest[i - 1]
      BY <2>2, <3>1, <3>3
    <3>5. \A i \in 2..Len(rt.lane) : rest[i - 1] = rt.lane[i] /\ lane[i] = rt.lane[i]
      BY <1>2, <2>5, <3>1, <3>3
    <3>6. PICK both : both = <<t>> \o rest
      OBVIOUS
    <3>7. \A i \in 1..Len(rt.lane) : lane[i] = both[i]
      BY <3>1, <3>2, <3>4, <3>5, <3>6
    <3>8. lane = both
      BY <3>2, <3>4, <3>6, <3>7, SeqEqual
    <3> QED
      BY <3>1, <3>2, <3>3, <3>6, <3>8
  <2>7. PICK n : n = [rt EXCEPT !.created = TRUE, !.lane = lane]
    OBVIOUS
  <2>8. /\ n \in Runtimes /\ n.lane = lane /\ n.epoch = rt.epoch /\ n.life = rt.life /\ n.enabled = rt.enabled
        /\ n.latch = rt.latch /\ n.pending = rt.pending /\ n.seen = rt.seen /\ n.bare = rt.bare
    BY <1>2, <2>6, <2>7 DEF Runtimes
  <2>9. EvidenceAt(log, n, Showing)
    BY <1>2, <2>8 DEF EvidenceAt
  <2>10. LatchAt(log, n)
    <3>1. ~Uncreated(rt)
      BY <1>2, <1>4, <1>5 DEF Uncreated, NoneLive
    <3>2. \A p \in 1..Len(log) : Replaying(rt, p) => Replaying(n, p)
      BY <2>2, <2>3, <2>6, <2>8 DEF Replaying
    <3> QED
      BY <1>2, <2>8, <3>1, <3>2 DEF LatchAt
  <2>11. KeptAt(log, n, step, tool, Showing)
    BY <1>1, <1>2, <1>4, <1>5, <2>2, <2>3, <2>4, <2>5, <2>8, <2>9, <2>10, HeadKeeps
  <2>12. rt' = n /\ step' = step /\ tool' = tool
    <3>1. /\ rt' = [rt EXCEPT !.created = TRUE, !.lane = <<[Head1 EXCEPT !.kind = "replay"]>> \o Tail(@)]
          /\ step' = step /\ tool' = tool
      BY <1>5 DEF CreateSession
    <3> QED
      BY <1>2, <2>1, <2>6, <2>7, <3>1
  <2> QED
    BY <2>11, <2>12
<1>6. CASE ~Void(Head1) /\ ~Head1.replay
  <2>1. Done([rt EXCEPT !.created = TRUE])
    BY <1>6 DEF CreateSession
  <2>3. PICK lane \in Seq(Task) : lane = Tail(rt.lane)
    BY <1>2, TailIs
  <2>4. PICK n : n = [rt EXCEPT !.created = TRUE, !.lane = lane]
    OBVIOUS
  <2>5. /\ n \in Runtimes /\ n.lane = lane /\ n.epoch = rt.epoch /\ n.life = rt.life /\ n.enabled = rt.enabled
        /\ n.created /\ n.latch = rt.latch /\ n.pending = rt.pending /\ n.seen = rt.seen /\ n.bare = rt.bare
    BY <1>2, <2>4 DEF Runtimes
  <2>6. EvidenceAt(log, n, Showing)
    BY <1>2, <2>5 DEF EvidenceAt
  <2>7. LatchAt(log, n)
    <3>1. ~Uncreated(rt)
      BY <1>2, <1>4, <1>6 DEF Uncreated, NoneLive
    <3>2. \A p \in 1..Len(log) : ~Replaying(rt, p)
      BY <1>2, <1>6 DEF Replaying
    <3> QED
      BY <1>2, <2>5, <3>1, <3>2 DEF LatchAt
  <2>8. /\ rt' = n
        /\ step' = [step EXCEPT !.ahead = IF @ > 0 THEN @ - 1 ELSE 0]
        /\ tool' = [tool EXCEPT !.ahead = IF @ > 0 THEN @ - 1 ELSE 0]
    BY <2>1, <2>3, <2>4 DEF Done
  <2>9. KeptAt(log, n, step', tool', Showing)
    BY <1>1, <1>2, <1>4, <1>6, <2>3, <2>5, <2>6, <2>7, <2>8, TailKeeps
  <2> QED
    BY <2>8, <2>9
<1> QED
  BY <1>3, <1>5, <1>6

(***************************************************************************)
(* The policy, the document, restarts, steps and tools.                    *)
(***************************************************************************)
LEMMA ReconcileKeeps ==
    ASSUME GateIInv, Reconcile
    PROVE  KeptAt(log', rt', step', tool', Showing') /\ FenceTyped'
<1>1. PICK d : d = Showing'
  OBVIOUS
<1>2. KeptAt(log, rt, step, tool, Showing) /\ rt.life = "live" /\ FenceTyped
  BY DEF GateIInv, Reconcile
<1>3. WorkspaceOn(policy) => PolicyOn(policy)
  BY DEF WorkspaceOn
<1>4. /\ (Showing # {} => d # {}) /\ (WorkspaceOn(policy) => d = Showing)
      /\ (~WorkspaceOn(policy) => d # {}) /\ FenceTyped'
  <2>1. CASE ~PolicyOn(policy)
    <3>1. Mark
      BY <2>1 DEF Reconcile
    <3> QED
      BY <1>1, <1>3, <2>1, <3>1, MarkCounts
  <2>2. CASE PolicyOn(policy)
    <3>1. gateDoc' = gateDoc /\ lostMarks' = lostMarks
      BY <2>2 DEF Reconcile, fence
    <3>2. d = Showing /\ FenceTyped'
      BY <1>1, <1>2, <3>1 DEF Showing, FenceTyped
    <3>3. ~WorkspaceOn(policy) => Showing # {}
      BY <2>2 DEF WorkspaceOn, Readable, Showing
    <3> QED
      BY <3>2, <3>3
  <2> QED
    BY <2>1, <2>2
<1>6. KeptAt(log, rt, step, tool, d)
  BY <1>2, <1>4, MarkedKeeps
<1>7. KeptAt(log, Synced(rt, log), Seen(rt, step), Seen(rt, tool), d)
  BY <1>4, <1>6, SyncKeeps
<1>8. log' = log /\ rt' = Synced(rt, log) /\ tool' = Seen(rt, tool) /\ step' = Seen(rt, step)
  BY DEF Reconcile
<1> QED
  BY <1>1, <1>4, <1>7, <1>8

\* A document that tears, or loses a mark, still counts as one.
LEMMA DocGoesKeeps ==
    ASSUME GateIInv, DocTears \/ MarkDropped
    PROVE  KeptAt(log', rt', step', tool', Showing') /\ FenceTyped'
<1>1. KeptAt(log, rt, step, tool, Showing) /\ gateDoc \in Docs /\ lostMarks \in Nat
  BY DEF GateIInv, FenceTyped
<1>2. PICK d : d = Showing'
  OBVIOUS
<1>3. d # {} /\ FenceTyped'
  <2>1. CASE DocTears
    BY <1>1, <1>2, <2>1 DEF DocTears, Showing, FenceTyped, Docs
  <2>2. CASE MarkDropped
    <3>1. /\ lostMarks' = lostMarks + 1 /\ gateDoc \subseteq {"disabled", "defaultOff"}
          /\ gateDoc' \subseteq gateDoc
      BY <1>1, <2>2 DEF MarkDropped, Loses, Readable, Docs
    <3> QED
      BY <1>1, <1>2, <3>1 DEF Showing, FenceTyped, Docs
  <2> QED
    BY <2>1, <2>2
<1>4. KeptAt(log, rt, step, tool, d)
  BY <1>1, <1>3, MarkedKeeps
<1>5. log' = log /\ rt' = rt /\ step' = step /\ tool' = tool
  BY DEF DocTears, MarkDropped
<1> QED
  BY <1>2, <1>3, <1>4, <1>5

LEMMA RestartKeeps ==
    ASSUME GateIInv, Restart
    PROVE  KeptAt(log', rt', step', tool', Showing')
<1>1. KeptAt(log, rt, step, tool, Showing)
  BY DEF GateIInv
<1>2. /\ NoRuntime \in Runtimes /\ NoRuntime.lane = <<>> /\ NoRuntime.pending = {} /\ NoRuntime.seen = {}
      /\ ~NoRuntime.enabled /\ NoRuntime.life = "absent" /\ Len(NoRuntime.lane) = 0
  BY DEF NoRuntime, Runtimes
<1>3. NoStep \in InjectSteps /\ NoStep.pc = "idle" /\ NoStep.ahead = 0
  BY DEF NoStep, InjectSteps
<1>4. NoTool \in ToolCalls /\ NoTool.pc = "idle" /\ NoTool.ahead = 0
  BY DEF NoTool, ToolCalls
<1>5. TypedAt(log, NoRuntime, NoStep, NoTool)
  BY <1>1, <1>2, <1>3, <1>4 DEF KeptAt, TypedAt
<1>6. EvidenceAt(log, NoRuntime, Showing)
  BY <1>1, <1>2 DEF KeptAt, EvidenceAt
<1>7. LaneAt(log, NoRuntime, NoStep) /\ LatchAt(log, NoRuntime) /\ StepAt(log, NoRuntime, NoStep) /\ ToolAt(NoRuntime, NoTool)
  BY <1>2, <1>3, <1>4 DEF LaneAt, LatchAt, StepAt, ToolAt
<1>8. log' = log /\ Showing' = Showing /\ rt' = NoRuntime /\ step' = NoStep /\ tool' = NoTool
  BY DEF Restart, fence, Showing
<1> QED
  BY <1>1, <1>5, <1>6, <1>7, <1>8 DEF KeptAt

\* A step of the model: what it may change without harm.
LEMMA StepChanges ==
    ASSUME NEW l, NEW r, NEW st, NEW to, NEW d, KeptAt(l, r, st, to, d), r.life = "live",
           NEW sn \in InjectSteps, sn.ahead <= Len(r.lane), StepAt(l, r, sn),
           Len(r.lane) > 0 /\ r.lane[1].replay => sn.pc = "idle" \/ (sn.pc = "waiting" /\ sn.ahead >= 1)
    PROVE  KeptAt(l, r, sn, to, d)
<1>1. TypedAt(l, r, sn, to)
  BY DEF KeptAt, TypedAt, NoRuntime
<1>2. LaneAt(l, r, sn)
  <2>1. r.lane \in Seq(Task)
    BY DEF KeptAt, TypedAt, Runtimes
  <2> SUFFICES ASSUME NEW i \in 1..Len(r.lane) PROVE TaskAt(l, r, sn, i)
    BY DEF LaneAt
  <2>2. TaskAt(l, r, st, i)
    BY DEF KeptAt, LaneAt
  <2>3. r.lane[i].replay => ReplayAt(l, r.bare, sn, r.lane[i])
    <3>1. r.lane[i].replay => i = 1 /\ Len(r.lane) > 0
      BY <2>1, <2>2 DEF TaskAt
    <3> QED
      BY <2>2, <3>1 DEF TaskAt, ReplayAt
  <2> QED
    BY <2>2, <2>3 DEF TaskAt
<1> QED
  BY <1>1, <1>2 DEF KeptAt

LEMMA StepBeginsKeeps ==
    ASSUME GateIInv, StepBegins
    PROVE  KeptAt(log', rt', step', tool', Showing')
<1>1. KeptAt(log, rt, step, tool, Showing) /\ step.pc = "idle"
  BY DEF GateIInv, StepBegins
<1>2. PICK n : n = Synced(rt, log)
  OBVIOUS
<1>3. PICK d : d = Showing'
  OBVIOUS
<1>4. KeptAt(log, n, Seen(rt, step), Seen(rt, tool), d) /\ n.life = "live"
  BY <1>1, <1>2, <1>3, HandlesKeeps DEF StepBegins, Sync
<1>5. PICK sn : sn = IF n.enabled THEN [NoStep EXCEPT !.pc = "waiting", !.ahead = Len(n.lane)] ELSE NoStep
  OBVIOUS
<1>6. n.lane \in Seq(Task) /\ Len(n.lane) \in Nat
  <2>1. n.lane \in Seq(Task)
    BY <1>4 DEF KeptAt, TypedAt, Runtimes
  <2> QED
    BY <2>1
<1>7. /\ sn \in InjectSteps /\ sn.ahead <= Len(n.lane)
      /\ sn.pc = "idle" \/ (n.enabled /\ sn.pc = "waiting" /\ sn.ahead = Len(n.lane))
  <2>1. NoStep \in InjectSteps /\ NoStep.pc = "idle" /\ NoStep.ahead = 0
    BY DEF NoStep, InjectSteps
  <2>2. CASE n.enabled
    <3>1. sn = [NoStep EXCEPT !.pc = "waiting", !.ahead = Len(n.lane)]
      BY <1>5, <2>2
    <3>2. sn \in InjectSteps /\ sn.pc = "waiting" /\ sn.ahead = Len(n.lane)
      BY <1>6, <2>1, <3>1 DEF InjectSteps
    <3> QED
      BY <1>6, <2>2, <3>2
  <2>3. CASE ~n.enabled
    <3>1. sn = NoStep
      BY <1>5, <2>3
    <3> QED
      BY <1>6, <2>1, <3>1
  <2> QED
    BY <2>2, <2>3
<1>8. StepAt(log, n, sn)
  BY <1>7 DEF StepAt
<1>9. Len(n.lane) > 0 => sn.pc = "idle" \/ (sn.pc = "waiting" /\ sn.ahead >= 1)
  BY <1>6, <1>7
<1>10. KeptAt(log, n, sn, Seen(rt, tool), d)
  BY <1>4, <1>7, <1>8, <1>9, StepChanges
<1>11. log' = log /\ rt' = n /\ tool' = Seen(rt, tool) /\ step' = sn
  BY <1>2, <1>3, <1>5 DEF StepBegins, Sync
<1> QED
  BY <1>3, <1>10, <1>11

\* A failure that is reported is forgotten.
LEMMA ForgottenKeeps ==
    ASSUME NEW l, NEW r, NEW st, NEW to, NEW d, KeptAt(l, r, st, to, d), r.life = "live",
           NEW n, n = [r EXCEPT !.failed = FALSE]
    PROVE  KeptAt(l, n, st, to, d) /\ n.life = "live"
<1>1. r \in Runtimes
  BY DEF KeptAt, TypedAt
<1>2. /\ n \in Runtimes /\ n.pending = r.pending /\ n.lane = r.lane /\ n.life = r.life /\ n.enabled = r.enabled
      /\ n.created = r.created /\ n.epoch = r.epoch /\ n.seen = r.seen /\ n.latch = r.latch
  BY <1>1 DEF Runtimes
<1>3. TypedAt(l, n, st, to)
  BY <1>2 DEF KeptAt, TypedAt
<1>4. EvidenceAt(l, n, d) /\ OnceAt(l) /\ ToolAt(n, to)
  BY <1>2 DEF KeptAt, EvidenceAt, ToolAt
<1>5. LaneAt(l, n, st)
  BY <1>2 DEF KeptAt, LaneAt, TaskAt, IsLive
<1>6. LatchAt(l, n) /\ StepAt(l, n, st)
  BY <1>2 DEF KeptAt, LatchAt, StepAt, Replaying, Uncreated, NoneLive, IsLive
<1> QED
  BY <1>2, <1>3, <1>4, <1>5, <1>6 DEF KeptAt

LEMMA LivesWhileItWaits ==
    ASSUME GateIInv, step.pc # "idle"
    PROVE  rt.life = "live"
<1>1. rt \in Runtimes /\ (rt.life = "absent" => step = NoStep)
  BY DEF GateIInv, KeptAt, TypedAt
<1>2. rt.life \in {"absent", "live"}
  BY <1>1 DEF Runtimes
<1> QED
  BY <1>1, <1>2 DEF NoStep

LEMMA StepReadsKeeps ==
    ASSUME GateIInv, StepReads
    PROVE  KeptAt(log', rt', step', tool', Showing')
<1>1. KeptAt(log, rt, step, tool, Showing) /\ step.pc = "waiting" /\ step.ahead = 0 /\ rt.life = "live"
  BY LivesWhileItWaits DEF GateIInv, StepReads, fence, Showing
<1>2. PICK n : n = [rt EXCEPT !.failed = FALSE]
  OBVIOUS
<1>3. KeptAt(log, n, step, tool, Showing) /\ n.life = "live"
  BY <1>1, <1>2, ForgottenKeeps
<1>4. rt \in Runtimes /\ n \in Runtimes /\ n.latch = rt.latch /\ n.bare = rt.bare /\ step \in InjectSteps
  <2>1. rt \in Runtimes /\ step \in InjectSteps
    BY <1>1 DEF KeptAt, TypedAt
  <2> QED
    BY <1>2, <2>1 DEF Runtimes
<1>5. ~(Len(n.lane) > 0 /\ n.lane[1].replay)
  <2> SUFFICES ASSUME Len(n.lane) > 0, n.lane[1].replay PROVE FALSE
    OBVIOUS
  <2>1. n.lane \in Seq(Task)
    BY <1>4 DEF Runtimes
  <2>2. TaskAt(log, n, step, 1)
    BY <1>3, <2>1 DEF KeptAt, LaneAt
  <2>3. ReplayAt(log, rt.bare, step, n.lane[1])
    BY <1>4, <2>2 DEF TaskAt
  <2> QED
    BY <1>1, <2>3 DEF ReplayAt
<1>6. PICK sn : sn = IF rt.failed \/ rt.latch THEN NoStep ELSE [step EXCEPT !.pc = "building"]
  OBVIOUS
<1>7. /\ sn \in InjectSteps /\ sn.ahead = 0
      /\ sn.pc = "idle" \/ (~n.latch /\ sn.pc = "building" /\ sn.closed = step.closed)
  <2>1. NoStep \in InjectSteps /\ NoStep.pc = "idle" /\ NoStep.ahead = 0
    BY DEF NoStep, InjectSteps
  <2>2. CASE rt.failed \/ rt.latch
    <3>1. sn = NoStep
      BY <1>6, <2>2
    <3> QED
      BY <2>1, <3>1
  <2>3. CASE ~(rt.failed \/ rt.latch)
    <3>1. sn = [step EXCEPT !.pc = "building"] /\ ~n.latch
      BY <1>4, <1>6, <2>3
    <3> QED
      BY <1>1, <1>4, <3>1 DEF InjectSteps
  <2> QED
    BY <2>2, <2>3
<1>8. StepAt(log, n, sn)
  <2>1. CASE sn.pc = "idle"
    BY <2>1 DEF StepAt
  <2>2. CASE ~n.latch /\ sn.pc = "building" /\ sn.closed = step.closed
    <3>1. ~sn.closed => n.enabled
      BY <1>1, <1>3, <2>2 DEF KeptAt, StepAt
    <3>2. ASSUME ~sn.closed PROVE Uncreated(n) \/ \A p \in 1..Len(log) : ~Unended(log, p)
      BY <1>3, <1>5, <2>2, <3>1, <3>2 DEF KeptAt, LatchAt, Replaying
    <3> QED
      BY <3>1, <3>2 DEF StepAt
  <2> QED
    BY <1>7, <2>1, <2>2
<1>9. sn.ahead <= Len(n.lane)
  <2>1. n.lane \in Seq(Task)
    BY <1>4 DEF Runtimes
  <2> QED
    BY <1>7, <2>1
<1>10. KeptAt(log, n, sn, tool, Showing)
  BY <1>3, <1>5, <1>7, <1>8, <1>9, StepChanges
<1>11. log' = log /\ rt' = n /\ Showing' = Showing /\ tool' = tool /\ step' = sn
  BY <1>2, <1>6 DEF StepReads, fence, Showing
<1> QED
  BY <1>10, <1>11

\* The memory is injected: the event it becomes, and what it is about.
LEMMA InjectKeeps ==
    ASSUME NEW l, NEW r, NEW st, NEW to, NEW d, KeptAt(l, r, st, to, d), r.life = "live",
           st.pc = "building", Len(l) < MaxLog,
           NEW e, e = [kind |-> "mem", on |-> r.created /\ ~st.closed],
           NEW n, n = [r EXCEPT !.latch = TRUE]
    PROVE  KeptAt(Append(l, e), n, NoStep, to, d)
<1>1. l \in Seq(Event) /\ r \in Runtimes /\ st \in InjectSteps /\ to \in ToolCalls /\ Len(l) \in Nat
  BY DEF KeptAt, TypedAt
<1>2. e \in Event /\ e.kind = "mem" /\ (e.on => r.created /\ ~st.closed)
  <2>1. PICK on \in BOOLEAN : on = (r.created /\ ~st.closed)
    OBVIOUS
  <2>2. e = [kind |-> "mem", on |-> on]
    BY <2>1
  <2>3. e \in Event /\ e.kind = "mem" /\ e.on = on
    BY <2>2 DEF Event
  <2>4. on => r.created /\ ~st.closed
    BY <2>1
  <2> QED
    BY <2>3, <2>4
<1>3. PICK m : m = Append(l, e)
  OBVIOUS
<1>4. /\ m \in Seq(Event) /\ Len(m) = Len(l) + 1 /\ m[Len(l) + 1] = e
      /\ \A p \in 1..Len(l) : m[p] = l[p] /\ p \in 1..Len(m)
      /\ \A p \in 1..Len(m) : p \in 1..Len(l) \/ p = Len(l) + 1
  BY <1>1, <1>2, <1>3, LogGrows
<1>5. /\ n \in Runtimes /\ n.latch /\ n.pending = r.pending /\ n.lane = r.lane /\ n.life = r.life /\ n.enabled = r.enabled
      /\ n.created = r.created /\ n.epoch = r.epoch /\ n.seen = r.seen
  BY <1>1 DEF Runtimes
<1>6. NoStep \in InjectSteps /\ NoStep.pc = "idle" /\ NoStep.ahead = 0
  BY DEF NoStep, InjectSteps
<1>7. TypedAt(m, n, NoStep, to)
  <2>1. Len(m) <= MaxLog
    BY <1>1, <1>4, SessionGateAssumption DEF SessionGateAssumption
  <2>2. n.lane \in Seq(Task)
    BY <1>5 DEF Runtimes
  <2>3. NoStep.ahead <= Len(n.lane)
    BY <1>6, <2>2
  <2> QED
    BY <1>4, <1>5, <1>6, <2>1, <2>3 DEF KeptAt, TypedAt
<1>8. EvidenceAt(m, n, d)
  BY <1>2, <1>4, <1>5 DEF KeptAt, EvidenceAt
<1>9. LaneAt(m, n, NoStep)
  <2> SUFFICES ASSUME NEW i \in 1..Len(r.lane) PROVE TaskAt(m, n, NoStep, i)
    BY <1>5 DEF LaneAt
  <2>1. TaskAt(l, r, st, i)
    BY DEF KeptAt, LaneAt
  <2>2. ~r.lane[i].replay
    BY <2>1 DEF TaskAt, ReplayAt
  <2> QED
    BY <1>4, <1>5, <2>1, <2>2 DEF TaskAt, IsLive
<1>10. LatchAt(m, n) /\ StepAt(m, n, NoStep)
  BY <1>5, <1>6 DEF LatchAt, StepAt
<1>11. OnceAt(m)
  <2> SUFFICES ASSUME NEW p \in 1..Len(m), NEW q \in 1..Len(m), m[p].kind = "mem", m[q].kind = "mem", p < q,
                      \A x \in p..q : m[x].kind # "end", m[q].on
               PROVE  FALSE
    BY DEF OnceAt
  <2>1. p \in 1..Len(l) /\ l[p].kind = "mem" /\ \A x \in p..Len(l) : x <= q => x \in 1..Len(l) /\ l[x].kind # "end"
    <3>1. p \in 1..Len(l)
      BY <1>1, <1>4
    <3>2. ASSUME NEW x \in p..Len(l), x <= q PROVE x \in 1..Len(l) /\ l[x].kind # "end"
      <4>1. x \in 1..Len(l) /\ x \in p..q
        BY <1>1, <3>1, <3>2
      <4> QED
        BY <1>4, <4>1
    <3> QED
      BY <1>4, <3>1, <3>2
  <2>2. CASE q \in 1..Len(l)
    <3>1. l[q].kind = "mem" /\ l[q].on
      BY <1>4, <2>2
    <3>2. \A x \in p..q : l[x].kind # "end"
      BY <1>1, <2>1, <2>2
    <3> QED
      BY <2>1, <2>2, <3>1, <3>2 DEF KeptAt, OnceAt
  <2>3. CASE q \notin 1..Len(l)
    <3>1. q = Len(l) + 1 /\ r.created /\ ~st.closed
      BY <1>2, <1>4, <2>3
    <3>2. Unended(l, p)
      BY <1>1, <2>1, <3>1 DEF Unended
    <3> QED
      BY <2>1, <3>1, <3>2 DEF KeptAt, StepAt, Uncreated
  <2> QED
    BY <2>2, <2>3
<1>12. ToolAt(n, to)
  BY <1>5 DEF KeptAt, ToolAt
<1> QED
  BY <1>3, <1>7, <1>8, <1>9, <1>10, <1>11, <1>12 DEF KeptAt

LEMMA StepInjectsKeeps ==
    ASSUME GateIInv, StepInjects
    PROVE  KeptAt(log', rt', step', tool', Showing')
<1>1. KeptAt(log, rt, step, tool, Showing) /\ step.pc = "building" /\ rt.life = "live"
  BY LivesWhileItWaits DEF GateIInv, StepInjects, fence, Showing
<1>2. NoStep \in InjectSteps /\ NoStep.pc = "idle" /\ NoStep.ahead = 0 /\ StepAt(log, rt, NoStep)
  BY DEF NoStep, InjectSteps, StepAt
<1>3. KeptAt(log, rt, NoStep, tool, Showing)
  <2>1. rt.lane \in Seq(Task)
    BY <1>1 DEF KeptAt, TypedAt, Runtimes
  <2>2. NoStep.ahead <= Len(rt.lane)
    BY <1>2, <2>1
  <2> QED
    BY <1>1, <1>2, <2>2, StepChanges
<1>4. CASE log' = log /\ rt' = rt
  <2>1. step' = NoStep /\ tool' = tool /\ Showing' = Showing
    BY DEF StepInjects, fence, Showing
  <2> QED
    BY <1>3, <1>4, <2>1
<1>5. CASE /\ Len(log) < MaxLog /\ rt' = [rt EXCEPT !.latch = TRUE]
           /\ log' = Append(log, [kind |-> "mem", on |-> rt.created /\ ~step.closed])
  <2>1. PICK e : e = [kind |-> "mem", on |-> rt.created /\ ~step.closed]
    OBVIOUS
  <2>2. PICK n : n = [rt EXCEPT !.latch = TRUE]
    OBVIOUS
  <2>3. KeptAt(Append(log, e), n, NoStep, tool, Showing)
    BY <1>1, <1>5, <2>1, <2>2, InjectKeeps
  <2>4. log' = Append(log, e) /\ rt' = n /\ step' = NoStep /\ tool' = tool /\ Showing' = Showing
    BY <1>5, <2>1, <2>2 DEF StepInjects, fence, Showing
  <2> QED
    BY <2>3, <2>4
<1> QED
  BY <1>4, <1>5 DEF StepInjects, fence, Showing

\* A call of a tool: what it may change without harm.
LEMMA ToolChanges ==
    ASSUME NEW l, NEW r, NEW st, NEW to, NEW d, KeptAt(l, r, st, to, d),
           NEW tn \in ToolCalls, tn.ahead <= Len(r.lane), ToolAt(r, tn)
    PROVE  KeptAt(l, r, st, tn, d)
  BY DEF KeptAt, TypedAt

LEMMA NoToolIs ==
    ASSUME NEW r \in Runtimes
    PROVE  NoTool \in ToolCalls /\ NoTool.ahead <= Len(r.lane) /\ ToolAt(r, NoTool)
<1>1. NoTool \in ToolCalls /\ NoTool.ahead = 0 /\ NoTool.pc = "idle"
  BY DEF NoTool, ToolCalls
<1>2. r.lane \in Seq(Task)
  BY DEF Runtimes
<1>3. NoTool.ahead <= Len(r.lane)
  BY <1>1, <1>2
<1> QED
  BY <1>1, <1>3 DEF ToolAt

LEMMA ToolStepsKeep ==
    ASSUME GateIInv, ToolBegins \/ ToolRuns \/ ToolReturns \/ ToolLeaves
    PROVE  KeptAt(log', rt', step', tool', Showing')
<1>1. /\ KeptAt(log, rt, step, tool, Showing) /\ rt \in Runtimes /\ tool \in ToolCalls /\ tool.ahead <= Len(rt.lane)
      /\ ToolAt(rt, tool) /\ (rt.life = "absent" => rt = NoRuntime)
  BY DEF GateIInv, KeptAt, TypedAt
<1>2. NoTool \in ToolCalls /\ NoTool.ahead <= Len(rt.lane) /\ ToolAt(rt, NoTool)
  BY <1>1, NoToolIs
<1>3. KeptAt(log, rt, step, NoTool, Showing)
  BY <1>1, <1>2, ToolChanges
<1>4. CASE ToolBegins
  <2>1. rt.epoch \in Nat /\ rt.lane \in Seq(Task) /\ Len(rt.lane) \in Nat
    BY <1>1 DEF Runtimes
  <2>2. PICK tn : tn = [NoTool EXCEPT !.pc = "waiting", !.ahead = Len(rt.lane), !.epoch = rt.epoch]
    OBVIOUS
  <2>3. tn \in ToolCalls /\ tn.ahead = Len(rt.lane) /\ tn.pc = "waiting" /\ ~tn.closed /\ tn.epoch = rt.epoch
    BY <2>1, <2>2 DEF ToolCalls, NoTool
  <2>4. ToolAt(rt, tn) /\ tn.ahead <= Len(rt.lane)
    BY <2>1, <2>3 DEF ToolAt
  <2>5. KeptAt(log, rt, step, tn, Showing)
    BY <1>1, <2>3, <2>4, ToolChanges
  <2>6. log' = log /\ rt' = rt /\ step' = step /\ Showing' = Showing /\ tool' = tn
    BY <1>4, <2>2 DEF ToolBegins, fence, Showing
  <2> QED
    BY <2>5, <2>6
<1>5. CASE ToolRuns
  <2>1. PICK n : n = [rt EXCEPT !.failed = FALSE]
    OBVIOUS
  <2>2. KeptAt(log, n, step, tool, Showing)
    <3>1. CASE rt.life = "live"
      BY <1>1, <2>1, <3>1, ForgottenKeeps
    <3>2. CASE rt.life # "live"
      <4>1. rt = NoRuntime
        BY <1>1, <3>2 DEF Runtimes
      <4>2. ~rt.failed
        BY <4>1 DEF NoRuntime
      <4>3. n = rt
        BY <1>1, <2>1, <4>2 DEF Runtimes
      <4> QED
        BY <1>1, <4>3
    <3> QED
      BY <3>1, <3>2
  <2>3. n \in Runtimes /\ n.lane = rt.lane
    BY <1>1, <2>1 DEF Runtimes
  <2>4. PICK tn : tn = [tool EXCEPT !.pc = "running"]
    OBVIOUS
  <2>5. /\ tn \in ToolCalls /\ tn.ahead = tool.ahead /\ tn.pc = "running" /\ tn.closed = tool.closed
        /\ tn.epoch = tool.epoch /\ tool.pc = "waiting"
    BY <1>1, <1>5, <2>4 DEF ToolCalls, ToolRuns, fence, Showing
  <2>6. ToolAt(n, tn)
    BY <2>2, <2>5 DEF KeptAt, ToolAt
  <2>7. KeptAt(log, n, step, tn, Showing)
    BY <1>1, <2>2, <2>3, <2>5, <2>6, ToolChanges
  <2>8. KeptAt(log, n, step, NoTool, Showing)
    BY <2>2, <2>3, NoToolIs, ToolChanges
  <2>9. /\ log' = log /\ rt' = n /\ step' = step /\ Showing' = Showing
        /\ tool' = IF rt.failed \/ ~Open(tool) THEN NoTool ELSE tn
    BY <1>5, <2>1, <2>4 DEF ToolRuns, fence, Showing
  <2> QED
    BY <2>7, <2>8, <2>9
<1>6. CASE ToolReturns
  <2>1. PICK tn : tn = [tool EXCEPT !.pc = "answered"]
    OBVIOUS
  <2>2. tn \in ToolCalls /\ tn.ahead = tool.ahead /\ tn.pc = "answered" /\ tn.closed = tool.closed
    BY <1>1, <2>1 DEF ToolCalls
  <2>3. ASSUME Open(tool) PROVE KeptAt(log, rt, step, tn, Showing)
    <3>1. rt.epoch \in Nat /\ tool.epoch \in Nat
      BY <1>1 DEF Runtimes, ToolCalls
    <3>2. ~tool.closed
      BY <1>1, <1>6, <2>3, <3>1 DEF Open, ToolAt, ToolReturns, fence, Showing
    <3>3. ToolAt(rt, tn)
      BY <2>2, <3>2 DEF ToolAt
    <3> QED
      BY <1>1, <2>2, <3>3, ToolChanges
  <2>4. /\ log' = log /\ rt' = rt /\ step' = step /\ Showing' = Showing
        /\ tool' = IF Open(tool) THEN tn ELSE NoTool
    BY <1>6, <2>1 DEF ToolReturns, fence, Showing
  <2> QED
    BY <1>3, <2>3, <2>4
<1>7. CASE ToolLeaves
  BY <1>3, <1>7 DEF ToolLeaves, fence, Showing
<1> QED
  BY <1>4, <1>5, <1>6, <1>7

----------------------------------------------------------------------------
LEMMA GateInitially ==
    ASSUME GateInit
    PROVE  GateIInv
<1>1. policy \in [default : BOOLEAN, override : {"none", "on", "off"}]
  BY DEF GateInit
<1>2. log = <<>> /\ Showing = {} /\ rt = NoRuntime /\ step = NoStep /\ tool = NoTool
  BY DEF GateInit, Showing
<1>3. /\ NoRuntime \in Runtimes /\ NoRuntime.lane = <<>> /\ NoRuntime.pending = {} /\ NoRuntime.seen = {}
      /\ ~NoRuntime.enabled /\ NoRuntime.life = "absent" /\ Len(NoRuntime.lane) = 0
  BY DEF NoRuntime, Runtimes
<1>4. NoStep \in InjectSteps /\ NoStep.pc = "idle" /\ NoStep.ahead = 0
  BY DEF NoStep, InjectSteps
<1>5. NoTool \in ToolCalls /\ NoTool.pc = "idle" /\ NoTool.ahead = 0
  BY DEF NoTool, ToolCalls
<1>6. log \in Seq(Event) /\ Len(log) = 0 /\ FenceTyped
  BY <1>2 DEF FenceTyped, Docs, GateInit
<1>7. TypedAt(log, rt, step, tool)
  BY <1>2, <1>3, <1>4, <1>5, <1>6, SessionGateAssumption DEF TypedAt, SessionGateAssumption
<1>8. EvidenceAt(log, rt, Showing) /\ OnceAt(log)
  BY <1>2, <1>3, <1>6 DEF EvidenceAt, OnceAt
<1>9. LaneAt(log, rt, step) /\ LatchAt(log, rt) /\ StepAt(log, rt, step) /\ ToolAt(rt, tool)
  BY <1>2, <1>3, <1>4, <1>5 DEF LaneAt, LatchAt, StepAt, ToolAt
<1> QED
  BY <1>1, <1>6, <1>7, <1>8, <1>9 DEF GateIInv, KeptAt

\* The document is what a mark leaves, and only an observation of the switch, or
\* what happens to the document itself, touches it.
LEMMA FenceKeeps ==
    ASSUME GateIInv, GateNext
    PROVE  FenceTyped'
<1>1. FenceTyped
  BY DEF GateIInv
<1>2. CASE Reconcile
  BY <1>2, ReconcileKeeps
<1>3. CASE DocTears \/ MarkDropped
  BY <1>3, DocGoesKeeps
<1>4. CASE Say \/ Summarise \/ EndCompaction \/ StepBegins
  <2>1. SyncedDoc(rt)
    BY <1>4 DEF Say, Summarise, EndCompaction, StepBegins, Handles, Sync
  <2> QED
    BY <2>1, DocShows
<1>5. CASE UNCHANGED fence
  BY <1>1, <1>5 DEF FenceTyped, fence
<1>6. PolicyChanges \/ Restart \/ LaneStep \/ CreateFails => UNCHANGED fence
  BY DEF PolicyChanges, Restart, LaneStep, CreateSession, ReplayEvent, SeeMessage, SettleCompaction, CreateFails
<1>7. StepReads \/ StepInjects \/ ToolBegins \/ ToolRuns \/ ToolReturns \/ ToolLeaves => UNCHANGED fence
  BY DEF StepReads, StepInjects, ToolBegins, ToolRuns, ToolReturns, ToolLeaves
<1> QED
  BY <1>2, <1>3, <1>4, <1>5, <1>6, <1>7 DEF GateNext

\* A task of the lane leaves the policy, the log and the document alone.
LEMMA LaneLeaves ==
    ASSUME LaneStep \/ CreateFails
    PROVE  policy' = policy /\ log' = log /\ Showing' = Showing
<1>1. policy' = policy /\ log' = log /\ UNCHANGED fence
  BY DEF LaneStep, CreateSession, ReplayEvent, SeeMessage, SettleCompaction, CreateFails
<1> QED
  BY <1>1 DEF fence, Showing

LEMMA LaneKeeps ==
    ASSUME GateIInv, LaneStep \/ CreateFails
    PROVE  KeptAt(log', rt', step', tool', Showing')
<1>1. KeptAt(log, rt', step', tool', Showing)
  BY CreateSessionKeeps, ReplayEventKeeps, SeeMessageKeeps, SettleCompactionKeeps, CreateFailsKeeps DEF LaneStep
<1>2. log' = log /\ Showing' = Showing
  BY LaneLeaves
<1> QED
  BY <1>1, <1>2

LEMMA GateStepKeeps ==
    ASSUME GateIInv, [GateNext]_gateVars
    PROVE  GateIInv'
<1>1. /\ policy \in [default : BOOLEAN, override : {"none", "on", "off"}]
      /\ FenceTyped /\ KeptAt(log, rt, step, tool, Showing)
  BY DEF GateIInv
<1>2. CASE PolicyChanges
  <2>1. policy' \in [default : BOOLEAN, override : {"none", "on", "off"}]
    BY <1>2 DEF PolicyChanges
  <2>2. log' = log /\ rt' = rt /\ step' = step /\ tool' = tool /\ Showing' = Showing /\ FenceTyped'
    BY <1>1, <1>2 DEF PolicyChanges, fence, Showing, FenceTyped
  <2> QED
    BY <1>1, <2>1, <2>2 DEF GateIInv
<1>3. CASE UNCHANGED gateVars
  <2>1. log' = log /\ rt' = rt /\ step' = step /\ tool' = tool /\ policy' = policy /\ Showing' = Showing /\ FenceTyped'
    BY <1>1, <1>3 DEF gateVars, Showing, FenceTyped
  <2> QED
    BY <1>1, <2>1 DEF GateIInv
<1>4. CASE GateNext /\ ~PolicyChanges
  <2>1. policy' = policy
    <3>1. Reconcile \/ DocTears \/ MarkDropped \/ Say \/ Summarise \/ EndCompaction \/ Restart => policy' = policy
      BY DEF Reconcile, DocTears, MarkDropped, Say, Summarise, EndCompaction, Restart
    <3>2. StepBegins \/ StepReads \/ StepInjects \/ ToolBegins \/ ToolRuns \/ ToolReturns \/ ToolLeaves => policy' = policy
      BY DEF StepBegins, StepReads, StepInjects, ToolBegins, ToolRuns, ToolReturns, ToolLeaves
    <3> QED
      BY <1>4, <3>1, <3>2, LaneLeaves DEF GateNext
  <2>2. KeptAt(log', rt', step', tool', Showing')
    BY <1>4, ReconcileKeeps, DocGoesKeeps, SayKeeps, SummariseKeeps, EndCompactionKeeps, RestartKeeps, LaneKeeps,
       StepBeginsKeeps, StepReadsKeeps, StepInjectsKeeps, ToolStepsKeep DEF GateNext
  <2>3. FenceTyped'
    BY <1>4, FenceKeeps
  <2> QED
    BY <1>1, <2>1, <2>2, <2>3 DEF GateIInv
<1> QED
  BY <1>2, <1>3, <1>4

\* The invariant holds in every state of the session, whatever the bounds.
THEOREM GateInvariant == GateSpec => []GateIInv
<1> QED
  BY GateInitially, GateStepKeeps, PTL DEF GateSpec

\* The state of a session always has its type: an event, a task and a document are
\* what the handlers write, and no call waits for more tasks than there are.
THEOREM GateTypeCorrect == GateSpec => []GateTypeOK
<1>1. ASSUME GateIInv PROVE GateTypeOK
  <2>1. /\ log \in Seq(Event) /\ Len(log) <= MaxLog /\ rt \in Runtimes /\ step \in InjectSteps /\ tool \in ToolCalls
        /\ gateDoc \in Docs /\ (rt.enabled => rt.life = "live")
        /\ step.ahead <= Len(rt.lane) /\ tool.ahead <= Len(rt.lane)
        /\ policy \in [default : BOOLEAN, override : {"none", "on", "off"}]
    BY <1>1 DEF GateIInv, FenceTyped, KeptAt, TypedAt
  <2>2. rt.lane \in Seq(Task) /\ Len(rt.lane) \in Nat /\ rt.seen \subseteq Positions /\ rt.pending \subseteq Positions
    BY <2>1 DEF Runtimes
  <2>3. /\ step.pc \in {"idle", "waiting", "building"} /\ step.ahead \in 0..Len(rt.lane)
        /\ tool.pc \in {"idle", "waiting", "running", "answered"} /\ tool.ahead \in 0..Len(rt.lane)
    BY <2>1, <2>2 DEF InjectSteps, ToolCalls
  <2>4. \A p \in 1..Len(log) : log[p] \in Event
    BY <2>1
  <2>5. \A i \in 1..Len(rt.lane) : rt.lane[i] \in Task
    BY <2>2
  <2> QED
    BY <2>1, <2>2, <2>3, <2>4, <2>5 DEF GateTypeOK, Docs
<1> QED
  BY <1>1, GateInvariant, PTL

\* Nothing of a time when memory was off becomes evidence, but of a log that was
\* adopted after a mark was lost, a tool answers in one time of memory being on, and
\* no context window has the memory twice, for every number of events, of changes of
\* the policy, of restarts and of lost marks.
THEOREM WindowsAreKeptHolds == GateSpec => []WindowsAreKept
<1>1. ASSUME GateIInv PROVE WindowsAreKept
  <2>1. OffStaysOut
    BY <1>1 DEF GateIInv, KeptAt, EvidenceAt, OffStaysOut, OfKind
  <2>2. OncePerWindow
    BY <1>1 DEF GateIInv, KeptAt, OnceAt, OncePerWindow, OfKind, InOneWindow
  <2>3. ToolStaysInWindow
    BY <1>1 DEF GateIInv, KeptAt, ToolAt, ToolStaysInWindow
  <2> QED
    BY <2>1, <2>2, <2>3 DEF WindowsAreKept
<1> QED
  BY <1>1, GateInvariant, PTL

----------------------------------------------------------------------------
(***************************************************************************)
(* AdHocNotes, for any files, texts and calls: a row is known by its id    *)
(* and its file, and what a run plans, offers and adopts is of rows and    *)
(* files that are there.                                                   *)
(***************************************************************************)

NotePhases == {"idle", "listed", "read", "adopting", "asked", "answered"}
NoteRuns == [pc : NotePhases, round : {1, 2}, listed : SUBSET NoteRow, notes : SUBSET PlanNote,
             gone : SUBSET NoteRow, orphans : SUBSET Files,
             base : [Adders -> Contents \cup {NoFile}] \cup {<<>>}, worked : SUBSET PlanNote]
AdderCalls == [Adders -> [pc : {"idle", "written", "done", "failed"}, kind : Kinds, text : Contents]]
\* A row, and a note of a plan, is known by its id and its file.
OneEach(S) == \A x, y \in S : x.id = y.id /\ x.file = y.file => x = y

NotesTyped ==
    /\ files \in [Files -> Contents \cup {NoFile}]
    /\ rows \subseteq NoteRow /\ OneEach(rows)
    /\ adders \in AdderCalls
    /\ notesRun \in NoteRuns
    /\ notesRun.gone \subseteq notesRun.listed /\ notesRun.worked \subseteq notesRun.notes
    /\ notesRun.pc # "answered" => notesRun.worked = {}
\* The row of a call is there once the call is done.
OwnRows == \A r \in rows : r.id = "own" => r.file \in Adders /\ adders[r.file].pc = "done"
\* What a run has listed and what it plans with stand for rows, one each.
Stands(x, R) == \E r \in R : IsRowOf(r, x) /\ r.kind = x.kind
Planned ==
    /\ OneEach(notesRun.listed) /\ OneEach(notesRun.notes)
    /\ \A n \in notesRun.notes : Stands(n, rows)
    /\ \A s \in notesRun.listed : Stands(s, rows)
\* A file that the run will adopt is in no note and was adopted by nobody; before it
\* looks for such files, the rows of adopted files are among those it has listed.
Unadopted ==
    /\ \A f \in notesRun.orphans : /\ \A n \in notesRun.notes : n.file # f
                                   /\ \A r \in rows : r.file = f => r.id # "hash"
    /\ notesRun.pc \in {"listed", "read"} =>
          /\ notesRun.orphans = {}
          /\ \A r \in rows : r.id = "hash" => \E s \in notesRun.listed : s.file = r.file
          /\ \A n \in notesRun.notes : \E s \in notesRun.listed : s.file = n.file
NotesIInv == NotesTyped /\ OwnRows /\ Planned /\ Unadopted /\ AppliedIsMerged

(***************************************************************************)
(* The rows.                                                               *)
(***************************************************************************)
\* Rows that are only marked or given a text are the same rows.
LEMMA MarkedRows ==
    ASSUME rows \subseteq NoteRow, OneEach(rows), NEW F \in [rows -> NoteRow],
           \A r \in rows : F[r].id = r.id /\ F[r].file = r.file /\ F[r].kind = r.kind,
           NEW R, \A r \in rows : F[r] \in R, \A x \in R : \E r \in rows : x = F[r]
    PROVE  /\ R \subseteq NoteRow /\ OneEach(R)
           /\ \A x : Stands(x, rows) => Stands(x, R)
           /\ \A x \in R : \E r \in rows : x = F[r] /\ r.id = x.id /\ r.file = x.file /\ r.kind = x.kind
           /\ \A r \in rows : HasTwin(r) => \E t \in R : t.file = F[r].file /\ t # F[r]
<1>1. R \subseteq NoteRow
  OBVIOUS
<1>2. \A x \in R : \E r \in rows : x = F[r] /\ r.id = x.id /\ r.file = x.file /\ r.kind = x.kind
  OBVIOUS
<1>3. OneEach(R)
  BY <1>2 DEF OneEach
<1>4. \A x : Stands(x, rows) => Stands(x, R)
  BY DEF Stands, IsRowOf
<1>5. ASSUME NEW r \in rows, HasTwin(r) PROVE \E t \in R : t.file = F[r].file /\ t # F[r]
  <2>1. PICK t \in rows : t.file = r.file /\ t # r
    BY <1>5 DEF HasTwin
  <2>2. t.id # r.id
    BY <2>1 DEF OneEach
  <2>3. F[t] \in R /\ F[t].file = F[r].file /\ F[t].id # F[r].id
    BY <2>1, <2>2
  <2> QED
    BY <2>3
<1> QED
  BY <1>1, <1>2, <1>3, <1>4, <1>5

\* A row that is new.
LEMMA NewRow ==
    ASSUME NotesIInv, NEW n \in NoteRow, \A r \in rows : ~(r.id = n.id /\ r.file = n.file), ~n.applied,
           rows' = rows \cup {n}, merged' = merged, settled' = settled
    PROVE  /\ rows' \subseteq NoteRow /\ OneEach(rows') /\ AppliedIsMerged'
           /\ \A x : Stands(x, rows) => Stands(x, rows')
           /\ Stands(n, rows')
<1>1. rows \subseteq NoteRow /\ OneEach(rows) /\ AppliedIsMerged
  BY DEF NotesIInv, NotesTyped
<1>2. rows' \subseteq NoteRow /\ OneEach(rows')
  BY <1>1 DEF OneEach
<1>3. \A x : Stands(x, rows) => Stands(x, rows')
  BY DEF Stands
<1>4. Stands(n, rows')
  BY DEF Stands, IsRowOf
<1>5. ASSUME NEW r \in rows', r.applied PROVE MergedText(r) \in merged' \/ IsSettled(r)' \/ HasTwin(r)'
  <2>1. r \in rows
    BY <1>5
  <2>2. MergedText(r) \in merged \/ IsSettled(r) \/ HasTwin(r)
    BY <1>1, <1>5, <2>1 DEF AppliedIsMerged
  <2>3. HasTwin(r) => \E t \in rows' : t.file = r.file /\ t # r
    BY DEF HasTwin
  <2>4. IsSettled(r) => \E s \in settled' : IsRowOf(r, s)
    BY DEF IsSettled
  <2> QED
    BY <2>2, <2>3, <2>4 DEF HasTwin, IsSettled
<1>6. AppliedIsMerged'
  BY <1>5 DEF AppliedIsMerged, MergedText
<1> QED
  BY <1>2, <1>3, <1>4, <1>6

\* What a step leaves alone.
LEMMA RowsStay ==
    ASSUME NotesIInv, rows' = rows, merged' = merged, settled' = settled
    PROVE  AppliedIsMerged' /\ OneEach(rows') /\ rows' \subseteq NoteRow
  BY DEF NotesIInv, NotesTyped, AppliedIsMerged, IsSettled, HasTwin, MergedText, OneEach

LEMMA RunStays ==
    ASSUME NotesIInv, rows' = rows, notesRun' = notesRun
    PROVE  Planned' /\ Unadopted'
  BY DEF NotesIInv, Planned, Unadopted, OneEach, Stands

(***************************************************************************)
(* Calls and users.                                                        *)
(***************************************************************************)
LEMMA WriteNoteKeeps ==
    ASSUME NotesIInv, NEW a \in Adders, NEW kind \in Kinds, NEW text \in Texts, WriteNote(a, kind, text)
    PROVE  NotesIInv'
<1>1. NotesTyped /\ OwnRows
  BY DEF NotesIInv
<1>2. NotesTyped'
  <2>1. files' \in [Files -> Contents \cup {NoFile}]
    BY <1>1 DEF NotesTyped, WriteNote, Files, Contents
  <2>2. adders' \in AdderCalls
    BY <1>1 DEF NotesTyped, WriteNote, AdderCalls, Contents
  <2> QED
    BY <1>1, <2>1, <2>2 DEF NotesTyped, WriteNote, OneEach
<1>3. OwnRows'
  BY <1>1 DEF OwnRows, WriteNote, NotesTyped, AdderCalls
<1> QED
  BY <1>2, <1>3, RowsStay, RunStays DEF NotesIInv, WriteNote

LEMMA InsertNoteKeeps ==
    ASSUME NotesIInv, NEW a \in Adders, InsertNote(a)
    PROVE  NotesIInv'
<1>1. NotesTyped /\ OwnRows /\ Planned /\ Unadopted
  BY DEF NotesIInv
<1>2. PICK n : n = [id |-> "own", file |-> a, kind |-> adders[a].kind, text |-> adders[a].text, applied |-> FALSE]
  OBVIOUS
<1>3. n \in NoteRow /\ n.id = "own" /\ n.file = a /\ ~n.applied
  BY <1>1, <1>2 DEF NotesTyped, AdderCalls, NoteRow, Files
<1>4. \A r \in rows : ~(r.id = n.id /\ r.file = n.file)
  BY <1>1, <1>3 DEF OwnRows, InsertNote
<1>5. rows' = rows \cup {n} /\ merged' = merged /\ settled' = settled /\ notesRun' = notesRun /\ files' = files
  BY <1>2 DEF InsertNote
<1>6. /\ rows' \subseteq NoteRow /\ OneEach(rows') /\ AppliedIsMerged'
      /\ \A x : Stands(x, rows) => Stands(x, rows')
  BY <1>3, <1>4, <1>5, NewRow
<1>7. NotesTyped'
  <2>1. adders' \in AdderCalls
    BY <1>1 DEF NotesTyped, InsertNote, AdderCalls
  <2> QED
    BY <1>1, <1>5, <1>6, <2>1 DEF NotesTyped
<1>8. OwnRows'
  BY <1>1, <1>3, <1>5 DEF OwnRows, InsertNote, NotesTyped, AdderCalls
<1>9. Planned'
  BY <1>1, <1>5, <1>6 DEF Planned, OneEach
<1>10. Unadopted'
  BY <1>1, <1>3, <1>5 DEF Unadopted
<1> QED
  BY <1>6, <1>7, <1>8, <1>9, <1>10 DEF NotesIInv

LEMMA CallEnds ==
    ASSUME NotesIInv, NEW a \in Adders, InsertFails(a) \/ AdderDies(a)
    PROVE  NotesIInv'
<1>1. NotesTyped /\ OwnRows
  BY DEF NotesIInv
<1>2. /\ adders[a].pc = "written" /\ files' \in {files, [files EXCEPT ![a] = NoFile]}
      /\ adders' = [adders EXCEPT ![a].pc = "failed"]
      /\ rows' = rows /\ notesRun' = notesRun /\ merged' = merged /\ settled' = settled
  BY DEF InsertFails, AdderDies
<1>3. NotesTyped'
  <2>1. files' \in [Files -> Contents \cup {NoFile}]
    BY <1>1, <1>2 DEF NotesTyped
  <2>2. adders' \in AdderCalls
    BY <1>1, <1>2 DEF NotesTyped, AdderCalls
  <2> QED
    BY <1>1, <1>2, <2>1, <2>2 DEF NotesTyped, OneEach
<1>4. OwnRows'
  BY <1>1, <1>2 DEF OwnRows, NotesTyped, AdderCalls
<1> QED
  BY <1>2, <1>3, <1>4, RowsStay, RunStays DEF NotesIInv

LEMMA EditByHandKeeps ==
    ASSUME NotesIInv, NEW f \in Files, NEW text \in Contents \cup {NoFile}, EditByHand(f, text)
    PROVE  NotesIInv'
<1>1. NotesTyped /\ OwnRows
  BY DEF NotesIInv
<1>2. NotesTyped'
  <2>1. files' \in [Files -> Contents \cup {NoFile}]
    BY <1>1 DEF NotesTyped, EditByHand
  <2> QED
    BY <1>1, <2>1 DEF NotesTyped, EditByHand, OneEach
<1>3. OwnRows'
  BY <1>1 DEF OwnRows, EditByHand
<1> QED
  BY <1>2, <1>3, RowsStay, RunStays DEF NotesIInv, EditByHand

(***************************************************************************)
(* The plans of a run.                                                     *)
(***************************************************************************)
LEMMA NoRunIs ==
    /\ NoRun \in NoteRuns /\ NoRun.pc = "idle" /\ NoRun.listed = {} /\ NoRun.notes = {} /\ NoRun.gone = {}
    /\ NoRun.orphans = {} /\ NoRun.worked = {}
  BY DEF NoRun, NoteRuns, NotePhases

\* A run that is over, for whatever reason.
LEMMA OverKeeps ==
    ASSUME NotesIInv, notesRun' = NoRun, UNCHANGED <<files, rows, adders, merged, settled>>
    PROVE  NotesIInv'
<1>1. NotesTyped /\ OwnRows
  BY DEF NotesIInv
<1>2. NotesTyped'
  BY <1>1, NoRunIs DEF NotesTyped, OneEach
<1>3. OwnRows'
  BY <1>1 DEF OwnRows
<1>4. Planned' /\ Unadopted'
  BY NoRunIs DEF Planned, Unadopted, OneEach
<1> QED
  BY <1>2, <1>3, <1>4, RowsStay DEF NotesIInv

\* The rows are listed, for the first plan or for the second.
LEMMA ListingKeeps ==
    ASSUME NotesIInv, NEW n \in NoteRuns, notesRun' = n, UNCHANGED <<files, rows, adders, merged, settled>>,
           n.pc = "listed", n.listed = rows, n.notes = {}, n.gone = {}, n.orphans = {}, n.worked = {}
    PROVE  NotesIInv'
<1>1. NotesTyped /\ OwnRows /\ rows \in SUBSET NoteRow
  BY DEF NotesIInv, NotesTyped
<1>2. NotesTyped'
  BY <1>1 DEF NotesTyped, OneEach
<1>3. OwnRows'
  BY <1>1 DEF OwnRows
<1>4. Planned' /\ Unadopted'
  BY <1>1 DEF Planned, Unadopted, OneEach, NotesTyped, Stands, IsRowOf
<1> QED
  BY <1>2, <1>3, <1>4, RowsStay DEF NotesIInv

\* A note that is offered for a row is a note of that row, and there is one at most.
LEMMA OfferedIs ==
    ASSUME files \in [Files -> Contents \cup {NoFile}], NEW r \in NoteRow
    PROVE  /\ \A n \in Offered(r) : n \in PlanNote /\ n.id = r.id /\ n.file = r.file /\ n.kind = r.kind
           /\ \A n, m \in Offered(r) : n = m
<1>1. /\ r.id \in {"own", "hash"} /\ r.file \in Files /\ r.kind \in Kinds /\ r.text \in Contents
      /\ files[r.file] \in Contents \cup {NoFile}
  BY DEF NoteRow
<1>2. \A text \in Contents : /\ NoteOf(r, text) \in PlanNote /\ NoteOf(r, text).id = r.id
                             /\ NoteOf(r, text).file = r.file /\ NoteOf(r, text).kind = r.kind
  BY <1>1 DEF NoteOf, PlanNote
<1>3. files[r.file] # NoFile => files[r.file] \in Contents
  BY <1>1
<1> QED
  BY <1>1, <1>2, <1>3 DEF Offered

LEMMA ReadFilesKeeps ==
    ASSUME NotesIInv, ReadFiles
    PROVE  NotesIInv'
<1>1. NotesTyped /\ OwnRows /\ Planned /\ Unadopted
  BY DEF NotesIInv
<1>2. /\ files \in [Files -> Contents \cup {NoFile}] /\ notesRun \in NoteRuns /\ notesRun.pc = "listed"
      /\ notesRun.listed \subseteq NoteRow /\ OneEach(notesRun.listed)
      /\ \A s \in notesRun.listed : Stands(s, rows)
      /\ notesRun.worked \subseteq notesRun.notes
  BY <1>1 DEF NotesTyped, NoteRuns, Planned, ReadFiles
<1>3. PICK ns : ns = UNION {Offered(r) : r \in notesRun.listed}
  OBVIOUS
<1>4. PICK gs : gs = {r \in notesRun.listed : ~r.applied /\ files[r.file] = NoFile}
  OBVIOUS
<1>5. \A n \in ns : n \in PlanNote /\ \E r \in notesRun.listed : n \in Offered(r) /\ n.id = r.id /\ n.file = r.file /\ n.kind = r.kind
  BY <1>2, <1>3, OfferedIs
<1>6. OneEach(ns)
  <2> SUFFICES ASSUME NEW x \in ns, NEW y \in ns, x.id = y.id, x.file = y.file PROVE x = y
    BY DEF OneEach
  <2>1. PICK r \in notesRun.listed : x \in Offered(r) /\ x.id = r.id /\ x.file = r.file
    BY <1>5
  <2>2. PICK s \in notesRun.listed : y \in Offered(s) /\ y.id = s.id /\ y.file = s.file
    BY <1>5
  <2>3. r = s
    BY <1>2, <2>1, <2>2 DEF OneEach
  <2> QED
    BY <1>2, <2>1, <2>2, <2>3, OfferedIs
<1>7. PICK n : n = [notesRun EXCEPT !.pc = "read", !.notes = ns, !.gone = gs]
  OBVIOUS
<1>8. gs \in SUBSET NoteRow /\ gs \subseteq notesRun.listed /\ ns \in SUBSET PlanNote
  BY <1>2, <1>4, <1>5
<1>9. /\ n \in NoteRuns /\ n.pc = "read" /\ n.notes = ns /\ n.gone = gs /\ n.listed = notesRun.listed
      /\ n.orphans = notesRun.orphans /\ n.worked = notesRun.worked
  BY <1>2, <1>7, <1>8 DEF NoteRuns, NotePhases
<1>10. notesRun' = n /\ UNCHANGED <<files, rows, adders, merged, settled>>
  BY <1>3, <1>4, <1>7 DEF ReadFiles
<1>11. notesRun.worked = {}
  BY <1>1, <1>2 DEF NotesTyped
<1>12. NotesTyped'
  BY <1>1, <1>8, <1>9, <1>10, <1>11 DEF NotesTyped, OneEach
<1>13. OwnRows'
  BY <1>1, <1>10 DEF OwnRows
<1>14. Planned'
  <2>1. \A x \in ns : Stands(x, rows)
    <3> SUFFICES ASSUME NEW x \in ns PROVE Stands(x, rows)
      OBVIOUS
    <3>1. PICK r \in notesRun.listed : x.id = r.id /\ x.file = r.file /\ x.kind = r.kind
      BY <1>5
    <3>2. Stands(r, rows)
      BY <1>2
    <3> QED
      BY <3>1, <3>2 DEF Stands, IsRowOf
  <2> QED
    BY <1>2, <1>6, <1>9, <1>10, <2>1 DEF Planned, OneEach, Stands
<1>15. Unadopted'
  <2>1. notesRun.orphans = {} /\ \A r \in rows : r.id = "hash" => \E s \in notesRun.listed : s.file = r.file
    BY <1>1, <1>2 DEF Unadopted
  <2> QED
    BY <1>5, <1>9, <1>10, <2>1 DEF Unadopted
<1> QED
  BY <1>10, <1>12, <1>13, <1>14, <1>15, RowsStay DEF NotesIInv

\* Rows whose file is gone are settled, and files that no row knows are found.
LEMMA SettleKeeps ==
    ASSUME NotesIInv, Settle
    PROVE  NotesIInv'
<1>1. NotesTyped /\ OwnRows /\ Planned /\ Unadopted /\ AppliedIsMerged
  BY DEF NotesIInv
<1>2. /\ rows \subseteq NoteRow /\ OneEach(rows) /\ notesRun \in NoteRuns /\ notesRun.pc = "read"
      /\ notesRun.gone \subseteq NoteRow
      /\ rows' = MarkApplied(notesRun.gone) /\ UNCHANGED <<files, adders, merged>>
      /\ settled' = settled \cup {NoteOf(g, g.text) : g \in notesRun.gone}
  BY <1>1 DEF NotesTyped, Settle, NoteRuns
<1>3. PICK some \in SUBSET Files : /\ notesRun' = [notesRun EXCEPT !.pc = "adopting", !.orphans = some]
                                   /\ \A f \in some : ~\E r \in notesRun.listed : r.file = f
  BY DEF Settle, kSubset
<1>4. PICK n : n = [notesRun EXCEPT !.pc = "adopting", !.orphans = some]
  OBVIOUS
<1>5. /\ n \in NoteRuns /\ n.pc = "adopting" /\ n.orphans = some /\ n.notes = notesRun.notes /\ n.listed = notesRun.listed
      /\ n.gone = notesRun.gone /\ n.worked = notesRun.worked /\ notesRun' = n
  BY <1>2, <1>3, <1>4 DEF NoteRuns, NotePhases
<1>6. PICK F : F = [r \in rows |-> IF \E g \in notesRun.gone : IsRowOf(r, g) THEN [r EXCEPT !.applied = TRUE] ELSE r]
  OBVIOUS
<1>7. \A r \in rows : /\ F[r] \in NoteRow /\ F[r].id = r.id /\ F[r].file = r.file /\ F[r].kind = r.kind /\ F[r].text = r.text
                      /\ F[r].applied => r.applied \/ \E g \in notesRun.gone : IsRowOf(r, g)
  <2> SUFFICES ASSUME NEW r \in rows
               PROVE  /\ F[r] \in NoteRow /\ F[r].id = r.id /\ F[r].file = r.file /\ F[r].kind = r.kind /\ F[r].text = r.text
                      /\ F[r].applied => r.applied \/ \E g \in notesRun.gone : IsRowOf(r, g)
    OBVIOUS
  <2>1. r \in NoteRow
    BY <1>2
  <2>2. CASE \E g \in notesRun.gone : IsRowOf(r, g)
    <3>1. F[r] = [r EXCEPT !.applied = TRUE]
      BY <1>6, <2>2
    <3> QED
      BY <2>1, <2>2, <3>1 DEF NoteRow
  <2>3. CASE ~\E g \in notesRun.gone : IsRowOf(r, g)
    <3>1. F[r] = r
      BY <1>6, <2>3
    <3> QED
      BY <2>1, <3>1
  <2> QED
    BY <2>2, <2>3
<1>8. F \in [rows -> NoteRow] /\ (\A r \in rows : F[r] \in rows') /\ \A x \in rows' : \E r \in rows : x = F[r]
  BY <1>2, <1>6, <1>7 DEF MarkApplied
<1>9. /\ rows' \subseteq NoteRow /\ OneEach(rows')
      /\ \A x : Stands(x, rows) => Stands(x, rows')
      /\ \A x \in rows' : \E r \in rows : x = F[r] /\ r.id = x.id /\ r.file = x.file /\ r.kind = x.kind
      /\ \A r \in rows : HasTwin(r) => \E t \in rows' : t.file = F[r].file /\ t # F[r]
  <2>1. \A r \in rows : F[r].id = r.id /\ F[r].file = r.file /\ F[r].kind = r.kind
    BY <1>7
  <2>2. PICK R : R = rows'
    OBVIOUS
  <2>3. /\ R \subseteq NoteRow /\ OneEach(R)
        /\ \A x : Stands(x, rows) => Stands(x, R)
        /\ \A x \in R : \E r \in rows : x = F[r] /\ r.id = x.id /\ r.file = x.file /\ r.kind = x.kind
        /\ \A r \in rows : HasTwin(r) => \E t \in R : t.file = F[r].file /\ t # F[r]
    BY <1>2, <1>8, <2>1, <2>2, MarkedRows
  <2> QED
    BY <2>2, <2>3
<1>10. NotesTyped'
  BY <1>1, <1>2, <1>5, <1>9 DEF NotesTyped
<1>11. OwnRows'
  BY <1>1, <1>2, <1>9 DEF OwnRows
<1>12. Planned'
  BY <1>1, <1>5, <1>9 DEF Planned, OneEach
<1>13. Unadopted'
  <2>1. \A f \in some : (\A m \in notesRun.notes : m.file # f) /\ \A r \in rows : r.file = f => r.id # "hash"
    BY <1>1, <1>2, <1>3 DEF Unadopted
  <2> QED
    BY <1>5, <1>9, <2>1 DEF Unadopted
<1>14. AppliedIsMerged'
  <2> SUFFICES ASSUME NEW x \in rows', x.applied PROVE MergedText(x) \in merged' \/ IsSettled(x)' \/ HasTwin(x)'
    BY DEF AppliedIsMerged, MergedText, IsSettled, IsRowOf, HasTwin
  <2>1. PICK r \in rows : x = F[r] /\ x.id = r.id /\ x.file = r.file /\ x.kind = r.kind /\ x.text = r.text
    BY <1>7, <1>9
  <2>2. CASE r.applied
    <3>1. MergedText(r) \in merged \/ IsSettled(r) \/ HasTwin(r)
      BY <1>1, <2>2 DEF AppliedIsMerged
    <3>2. MergedText(x) = MergedText(r)
      BY <2>1 DEF MergedText
    <3>3. IsSettled(r) => IsSettled(x)'
      BY <1>2, <2>1 DEF IsSettled, IsRowOf
    <3>4. HasTwin(r) => HasTwin(x)'
      BY <1>9, <2>1 DEF HasTwin
    <3> QED
      BY <1>2, <3>1, <3>2, <3>3, <3>4
  <2>3. CASE \E g \in notesRun.gone : IsRowOf(r, g)
    <3>1. PICK g \in notesRun.gone : IsRowOf(r, g)
      BY <2>3
    <3>2. NoteOf(g, g.text) \in settled' /\ NoteOf(g, g.text).id = g.id /\ NoteOf(g, g.text).file = g.file
      BY <1>2 DEF NoteOf
    <3> QED
      BY <2>1, <3>1, <3>2 DEF IsSettled, IsRowOf
  <2> QED
    BY <1>7, <2>1, <2>2, <2>3
<1> QED
  BY <1>10, <1>11, <1>12, <1>13, <1>14 DEF NotesIInv

\* A run goes on without a change of what it has listed and planned.
LEMMA GoesOn ==
    ASSUME NotesIInv, UNCHANGED <<files, rows, adders, merged, settled>>,
           notesRun' \in NoteRuns, notesRun'.pc \notin {"listed", "read"},
           notesRun'.listed = notesRun.listed, notesRun'.notes = notesRun.notes, notesRun'.gone = notesRun.gone,
           notesRun'.orphans \subseteq notesRun.orphans, notesRun'.worked \subseteq notesRun.notes,
           notesRun'.pc # "answered" => notesRun'.worked = {}
    PROVE  NotesIInv'
<1>1. NotesTyped /\ OwnRows /\ Planned /\ Unadopted
  BY DEF NotesIInv
<1>2. NotesTyped'
  BY <1>1 DEF NotesTyped, OneEach
<1>3. OwnRows'
  BY <1>1 DEF OwnRows
<1>4. Planned'
  BY <1>1 DEF Planned, OneEach, Stands
<1>5. Unadopted'
  BY <1>1 DEF Unadopted
<1> QED
  BY <1>2, <1>3, <1>4, <1>5, RowsStay DEF NotesIInv

LEMMA AdoptFileKeeps ==
    ASSUME NotesIInv, NEW f \in Files, AdoptFile(f)
    PROVE  NotesIInv'
<1>1. NotesTyped /\ OwnRows /\ Planned /\ Unadopted
  BY DEF NotesIInv
<1>2. /\ notesRun \in NoteRuns /\ notesRun.pc = "adopting" /\ f \in notesRun.orphans /\ files[f] \in Contents \cup {NoFile}
      /\ notesRun.orphans \subseteq Files /\ notesRun.notes \subseteq PlanNote /\ notesRun.worked = {}
      /\ UNCHANGED <<files, adders, merged, settled>>
  BY <1>1 DEF NotesTyped, AdoptFile, NoteRuns
<1>3. CASE files[f] \in {NoFile, Unsafe, Blank}
  <2>1. PICK n : n = [notesRun EXCEPT !.orphans = @ \ {f}]
    OBVIOUS
  <2>2. /\ n \in NoteRuns /\ n.pc = "adopting" /\ n.listed = notesRun.listed /\ n.notes = notesRun.notes
        /\ n.gone = notesRun.gone /\ n.orphans \subseteq notesRun.orphans /\ n.worked = notesRun.worked
    BY <1>2, <2>1 DEF NoteRuns
  <2>3. notesRun' = n /\ rows' = rows
    BY <1>3, <2>1 DEF AdoptFile
  <2> QED
    BY <1>2, <2>2, <2>3, GoesOn
<1>4. CASE files[f] \notin {NoFile, Unsafe, Blank}
  <2>1. PICK r : r = Adopted(f)
    OBVIOUS
  <2>2. PICK m : m = NoteOf(Adopted(f), files[f])
    OBVIOUS
  <2>3. /\ r \in NoteRow /\ r.id = "hash" /\ r.file = f /\ r.kind = "remember" /\ ~r.applied
        /\ m \in PlanNote /\ m.id = "hash" /\ m.file = f /\ m.kind = "remember"
    BY <1>2, <1>4, <2>1, <2>2 DEF Adopted, NoteOf, NoteRow, PlanNote, Kinds
  <2>4. PICK ns \in SUBSET PlanNote : ns = notesRun.notes \cup {m}
    BY <1>2, <2>3
  <2>5. PICK n : n = [notesRun EXCEPT !.orphans = @ \ {f}, !.notes = ns]
    OBVIOUS
  <2>6. /\ n \in NoteRuns /\ n.pc = "adopting" /\ n.listed = notesRun.listed /\ n.notes = ns
        /\ n.gone = notesRun.gone /\ n.orphans = notesRun.orphans \ {f} /\ n.worked = notesRun.worked
    BY <1>2, <2>5 DEF NoteRuns
  <2>7. notesRun' = n /\ rows' = rows \cup {r}
    BY <1>4, <2>1, <2>2, <2>4, <2>5 DEF AdoptFile
  <2>8. \A x \in rows : ~(x.id = r.id /\ x.file = r.file)
    BY <1>1, <1>2, <2>3 DEF Unadopted
  <2>9. /\ rows' \subseteq NoteRow /\ OneEach(rows') /\ AppliedIsMerged'
        /\ \A x : Stands(x, rows) => Stands(x, rows')
        /\ Stands(r, rows')
    BY <1>2, <2>3, <2>7, <2>8, NewRow
  <2>10. NotesTyped'
    BY <1>1, <1>2, <2>6, <2>7, <2>9 DEF NotesTyped
  <2>11. OwnRows'
    BY <1>1, <1>2, <2>3, <2>7 DEF OwnRows
  <2>12. Planned'
    <3>1. OneEach(ns)
      BY <1>1, <1>2, <2>3, <2>4 DEF Planned, Unadopted, OneEach
    <3>2. Stands(m, rows')
      BY <2>3, <2>9 DEF Stands, IsRowOf
    <3>3. \A x \in ns : Stands(x, rows')
      BY <1>1, <2>4, <2>9, <3>2 DEF Planned
    <3> QED
      BY <1>1, <2>6, <2>7, <2>9, <3>1, <3>3 DEF Planned, OneEach
  <2>13. Unadopted'
    <3>1. \A g \in n.orphans : g \in notesRun.orphans /\ g # f
      BY <2>6
    <3> QED
      BY <1>1, <2>3, <2>4, <2>6, <2>7, <3>1 DEF Unadopted
  <2> QED
    BY <2>9, <2>10, <2>11, <2>12, <2>13 DEF NotesIInv
<1> QED
  BY <1>3, <1>4

LEMMA AskKeeps ==
    ASSUME NotesIInv, Ask
    PROVE  NotesIInv'
<1>1. notesRun \in NoteRuns /\ files \in [Files -> Contents \cup {NoFile}] /\ notesRun.worked = {}
  BY DEF NotesIInv, NotesTyped, Ask
<1>2. Revision \in [Adders -> Contents \cup {NoFile}]
  BY <1>1 DEF Revision, Files
<1>3. PICK n : n = [notesRun EXCEPT !.pc = "asked", !.base = Revision]
  OBVIOUS
<1>4. /\ n \in NoteRuns /\ n.pc = "asked" /\ n.listed = notesRun.listed /\ n.notes = notesRun.notes
      /\ n.gone = notesRun.gone /\ n.orphans = notesRun.orphans /\ n.worked = notesRun.worked
  BY <1>1, <1>2, <1>3 DEF NoteRuns, NotePhases
<1>5. notesRun' = n /\ UNCHANGED <<files, rows, adders, merged, settled>>
  BY <1>3 DEF Ask
<1> QED
  BY <1>1, <1>4, <1>5, GoesOn

LEMMA ProviderAnswersKeeps ==
    ASSUME NotesIInv, NEW worked \in SUBSET notesRun.notes, ProviderAnswers(worked)
    PROVE  NotesIInv'
<1>1. notesRun \in NoteRuns /\ notesRun.notes \subseteq PlanNote
  BY DEF NotesIInv, NotesTyped, NoteRuns
<1>2. PICK n : n = [notesRun EXCEPT !.pc = "answered", !.worked = worked]
  OBVIOUS
<1>3. /\ n \in NoteRuns /\ n.pc = "answered" /\ n.listed = notesRun.listed /\ n.notes = notesRun.notes
      /\ n.gone = notesRun.gone /\ n.orphans = notesRun.orphans /\ n.worked = worked
  BY <1>1, <1>2 DEF NoteRuns, NotePhases
<1>4. notesRun' = n /\ UNCHANGED <<files, rows, adders, merged, settled>>
  BY <1>2 DEF ProviderAnswers
<1> QED
  BY <1>3, <1>4, GoesOn

(***************************************************************************)
(* The commit.                                                             *)
(***************************************************************************)
\* A row that the commit settles has the text that was merged, or a twin.
LEMMA AppliedIs ==
    ASSUME NotesIInv, NEW r \in rows, NEW x, x = Applied(r)
    PROVE  /\ x \in NoteRow /\ x.id = r.id /\ x.file = r.file /\ x.kind = r.kind
           /\ x = r \/ HasTwin(r) \/ MergedText(x) \in {MergedText(w) : w \in notesRun.worked}
<1>1. /\ NotesTyped /\ Planned /\ r \in NoteRow /\ notesRun.notes \subseteq PlanNote
      /\ notesRun.worked \subseteq notesRun.notes
  BY DEF NotesIInv, NotesTyped, NoteRuns
<1>2. PICK mine : mine = {n \in Consumed : IsRowOf(r, n)}
  OBVIOUS
<1>3. CASE mine = {}
  <2>1. x = r
    BY <1>2, <1>3 DEF Applied
  <2> QED
    BY <1>1, <2>1
<1>4. CASE mine # {}
  <2>1. PICK n : n = CHOOSE m \in mine : TRUE
    OBVIOUS
  <2>2. n \in Consumed /\ IsRowOf(r, n)
    BY <1>2, <1>4, <2>1
  <2>3. n \in notesRun.notes /\ \E w \in notesRun.worked : n.file = w.file
    BY <2>2 DEF Consumed
  <2>4. n.text \in Contents
    BY <1>1, <2>3 DEF PlanNote
  <2>5. x = [r EXCEPT !.applied = TRUE, !.text = n.text]
    BY <1>2, <1>4, <2>1 DEF Applied
  <2>6. x \in NoteRow /\ x.id = r.id /\ x.file = r.file /\ x.kind = r.kind /\ x.text = n.text
    BY <1>1, <2>4, <2>5 DEF NoteRow
  <2>7. PICK w \in notesRun.worked : n.file = w.file
    BY <2>3
  <2>8. CASE w.id = n.id
    <3>1. w = n
      BY <1>1, <2>3, <2>7, <2>8 DEF Planned, OneEach
    <3>2. PICK s \in rows : IsRowOf(s, n) /\ s.kind = n.kind
      BY <1>1, <2>3 DEF Planned, Stands
    <3>3. s = r
      BY <1>1, <2>2, <3>2 DEF NotesTyped, OneEach, IsRowOf
    <3>4. MergedText(x) = MergedText(w)
      BY <2>2, <2>6, <3>1, <3>2, <3>3 DEF MergedText, IsRowOf
    <3> QED
      BY <2>6, <3>4
  <2>9. CASE w.id # n.id
    <3>1. PICK s \in rows : IsRowOf(s, w)
      BY <1>1, <2>7 DEF Planned, Stands
    <3>2. HasTwin(r)
      BY <2>2, <2>7, <2>9, <3>1 DEF HasTwin, IsRowOf
    <3> QED
      BY <2>6, <3>2
  <2> QED
    BY <2>8, <2>9
<1> QED
  BY <1>3, <1>4

LEMMA CommitNotesKeeps ==
    ASSUME NotesIInv, CommitNotes
    PROVE  NotesIInv'
<1>1. NotesTyped /\ OwnRows /\ AppliedIsMerged /\ rows \subseteq NoteRow /\ OneEach(rows)
  BY DEF NotesIInv, NotesTyped
<1>2. /\ rows' = {Applied(r) : r \in rows} /\ notesRun' = NoRun /\ UNCHANGED <<files, adders, settled>>
      /\ merged' = merged \cup {MergedText(w) : w \in notesRun.worked}
  BY DEF CommitNotes
<1>3. PICK F : F = [r \in rows |-> Applied(r)]
  OBVIOUS
<1>4. \A r \in rows : /\ F[r] \in NoteRow /\ F[r].id = r.id /\ F[r].file = r.file /\ F[r].kind = r.kind
                      /\ F[r] = r \/ HasTwin(r) \/ MergedText(F[r]) \in merged'
  BY <1>2, <1>3, AppliedIs
<1>5. F \in [rows -> NoteRow] /\ (\A r \in rows : F[r] \in rows') /\ \A x \in rows' : \E r \in rows : x = F[r]
  BY <1>2, <1>3, <1>4
<1>6. /\ rows' \subseteq NoteRow /\ OneEach(rows')
      /\ \A x \in rows' : \E r \in rows : x = F[r] /\ r.id = x.id /\ r.file = x.file /\ r.kind = x.kind
      /\ \A r \in rows : HasTwin(r) => \E t \in rows' : t.file = F[r].file /\ t # F[r]
  <2>1. \A r \in rows : F[r].id = r.id /\ F[r].file = r.file /\ F[r].kind = r.kind
    BY <1>4
  <2>2. PICK R : R = rows'
    OBVIOUS
  <2>3. rows \subseteq NoteRow /\ OneEach(rows) /\ F \in [rows -> NoteRow]
    BY <1>1, <1>5
  <2>4. (\A r \in rows : F[r] \in R) /\ \A x \in R : \E r \in rows : x = F[r]
    BY <1>5, <2>2
  <2>5. /\ R \subseteq NoteRow /\ OneEach(R)
        /\ \A x : Stands(x, rows) => Stands(x, R)
        /\ \A x \in R : \E r \in rows : x = F[r] /\ r.id = x.id /\ r.file = x.file /\ r.kind = x.kind
        /\ \A r \in rows : HasTwin(r) => \E t \in R : t.file = F[r].file /\ t # F[r]
    BY <2>1, <2>3, <2>4, MarkedRows
  <2> QED
    BY <2>2, <2>5
<1>7. NotesTyped'
  BY <1>1, <1>2, <1>6, NoRunIs DEF NotesTyped
<1>8. OwnRows'
  BY <1>1, <1>2, <1>6 DEF OwnRows
<1>9. Planned' /\ Unadopted'
  BY <1>2, NoRunIs DEF Planned, Unadopted, OneEach
<1>10. AppliedIsMerged'
  <2> SUFFICES ASSUME NEW x \in rows', x.applied PROVE MergedText(x) \in merged' \/ IsSettled(x)' \/ HasTwin(x)'
    BY DEF AppliedIsMerged, MergedText, IsSettled, IsRowOf, HasTwin
  <2>1. PICK r \in rows : x = F[r] /\ x.id = r.id /\ x.file = r.file
    BY <1>6
  <2>2. HasTwin(r) => HasTwin(x)'
    BY <1>6, <2>1 DEF HasTwin
  <2>3. CASE F[r] = r
    <3>1. MergedText(r) \in merged \/ IsSettled(r) \/ HasTwin(r)
      BY <1>1, <2>1, <2>3 DEF AppliedIsMerged
    <3>2. IsSettled(r) => IsSettled(x)'
      BY <1>2, <2>1 DEF IsSettled, IsRowOf
    <3> QED
      BY <1>2, <2>1, <2>2, <2>3, <3>1, <3>2
  <2>4. CASE HasTwin(r) \/ MergedText(F[r]) \in merged'
    BY <2>1, <2>2, <2>4
  <2> QED
    BY <1>4, <2>3, <2>4
<1> QED
  BY <1>7, <1>8, <1>9, <1>10 DEF NotesIInv

-----------------------------------------------------------------------------
LEMMA NotesInitially ==
    ASSUME NotesInit
    PROVE  NotesIInv
<1>1. NotesTyped
  <2>1. files \in [Files -> Contents \cup {NoFile}] /\ adders \in AdderCalls
    BY DEF NotesInit, AdderCalls, Kinds, Contents
  <2> QED
    BY <2>1, NoRunIs DEF NotesTyped, NotesInit, OneEach
<1>2. OwnRows /\ AppliedIsMerged
  BY DEF OwnRows, AppliedIsMerged, NotesInit
<1>3. Planned /\ Unadopted
  BY NoRunIs DEF Planned, Unadopted, NotesInit, OneEach
<1> QED
  BY <1>1, <1>2, <1>3 DEF NotesIInv

LEMMA NotesStepKeeps ==
    ASSUME NotesIInv, [NotesNext]_notesVars
    PROVE  NotesIInv'
<1>1. CASE \E a \in Adders, kind \in Kinds, text \in Texts : WriteNote(a, kind, text)
  BY <1>1, WriteNoteKeeps
<1>2. CASE \E a \in Adders : InsertNote(a) \/ InsertFails(a) \/ AdderDies(a)
  BY <1>2, InsertNoteKeeps, CallEnds
<1>3. CASE \E f \in Files, text \in Contents \cup {NoFile} : EditByHand(f, text)
  BY <1>3, EditByHandKeeps
<1>4. CASE ListRows
  <2>1. rows \in SUBSET NoteRow
    BY DEF NotesIInv, NotesTyped
  <2>2. PICK n : n = [NoRun EXCEPT !.pc = "listed", !.listed = rows]
    OBVIOUS
  <2>3. n \in NoteRuns /\ n.pc = "listed" /\ n.listed = rows /\ n.notes = {} /\ n.gone = {} /\ n.orphans = {} /\ n.worked = {}
    BY <2>1, <2>2, NoRunIs DEF NoteRuns, NotePhases
  <2>4. notesRun' = n /\ UNCHANGED <<files, rows, adders, merged, settled>>
    BY <1>4, <2>2 DEF ListRows
  <2> QED
    BY <2>3, <2>4, ListingKeeps
<1>5. CASE PlanAgain
  <2>1. rows \in SUBSET NoteRow
    BY DEF NotesIInv, NotesTyped
  <2>2. PICK n : n = [NoRun EXCEPT !.pc = "listed", !.round = 2, !.listed = rows]
    OBVIOUS
  <2>3. n \in NoteRuns /\ n.pc = "listed" /\ n.listed = rows /\ n.notes = {} /\ n.gone = {} /\ n.orphans = {} /\ n.worked = {}
    BY <2>1, <2>2, NoRunIs DEF NoteRuns, NotePhases
  <2>4. notesRun' = n /\ UNCHANGED <<files, rows, adders, merged, settled>>
    BY <1>5, <2>2 DEF PlanAgain
  <2> QED
    BY <2>3, <2>4, ListingKeeps
<1>6. CASE ReadFiles
  BY <1>6, ReadFilesKeeps
<1>7. CASE Settle
  BY <1>7, SettleKeeps
<1>8. CASE \E f \in Files : AdoptFile(f)
  BY <1>8, AdoptFileKeeps
<1>9. CASE Ask
  BY <1>9, AskKeeps
<1>10. CASE GiveUp \/ Contention
  <2>1. notesRun' = NoRun /\ UNCHANGED <<files, rows, adders, merged, settled>>
    BY <1>10 DEF GiveUp, Contention
  <2> QED
    BY <2>1, OverKeeps
<1>11. CASE CommitNotes
  BY <1>11, CommitNotesKeeps
<1>12. CASE \E worked \in SUBSET notesRun.notes : ProviderAnswers(worked)
  BY <1>12, ProviderAnswersKeeps
<1>13. CASE UNCHANGED notesVars
  <2>1. UNCHANGED <<files, rows, adders, merged, settled, notesRun>>
    BY <1>13 DEF notesVars
  <2>2. NotesTyped' /\ OwnRows'
    BY <2>1 DEF NotesIInv, NotesTyped, OneEach, OwnRows
  <2> QED
    BY <2>1, <2>2, RowsStay, RunStays DEF NotesIInv
<1> QED
  BY <1>1, <1>2, <1>3, <1>4, <1>5, <1>6, <1>7, <1>8, <1>9, <1>10, <1>11, <1>12, <1>13 DEF NotesNext

\* The invariant holds whatever calls, files, texts and limits there are.
THEOREM NotesInvariant == NotesSpec => []NotesIInv
<1> QED
  BY NotesInitially, NotesStepKeeps, PTL DEF NotesSpec

\* The files, the rows and a run always have their type, and no two rows have an id
\* and a file in common.
THEOREM NotesTypeCorrect == NotesSpec => []NotesTypeOK
<1>1. ASSUME NotesIInv PROVE NotesTypeOK
  BY <1>1 DEF NotesIInv, NotesTyped, NotesTypeOK, OneEach, AdderCalls, NoteRuns, NotePhases
<1> QED
  BY <1>1, NotesInvariant, PTL

\* A row counts as applied only with a text that was merged, for every number of calls,
\* files and texts and whatever limit of adopted files.
THEOREM AppliedIsMergedHolds == NotesSpec => []AppliedIsMerged
<1>1. NotesIInv => AppliedIsMerged
  BY DEF NotesIInv
<1> QED
  BY <1>1, NotesInvariant, PTL

----------------------------------------------------------------------------

(***************************************************************************)
(* The agent of a consolidation, for any plan, budgets and number of       *)
(* steps.  A reply is worked off only while the timer has not fired, and   *)
(* what finish needed stays true until the commit: no call takes back a    *)
(* list that was asked for or a file that was written (Earned).            *)
(***************************************************************************)
AgentTexts == {"cited", "uncited", "v1", "padded", "other", "text", Missing}
Loops == [step : 0..Steps, calls : 0..CallCap, history : Nat, nudged : BOOLEAN, late : BOOLEAN,
          readBytes : 0..ReadBudget, readDiff : BOOLEAN, edits : [Editable -> AgentTexts],
          finished : BOOLEAN, consumed : SUBSET AgentNotes, shown : Nat]
RunStates == [at : {"asking", "calling", "returned", "committed", "failed"}, completed : BOOLEAN]
StoreStates == [files : [Editable -> AgentTexts], diff : {0, DiffBytes}, notes : SUBSET AgentNotes,
                applied : SUBSET AgentNotes]
AgentTyped ==
    /\ store \in StoreStates /\ loop \in Loops /\ run \in RunStates
    /\ \A rel \in Editable : /\ store.files[rel] \in TextsOf(rel) \cup {Missing}
                             /\ loop.edits[rel] \in TextsOf(rel) \cup {Missing}

\* A reply that is worked off came in time, and a run that is completed ended
\* with a finish; nothing but the commit touches what the store has.
Earned ==
    /\ run.at = "calling" \/ run.completed => ~loop.late
    /\ run.completed => loop.finished
    /\ run.at \in {"asking", "calling"} => ~run.completed
    /\ run.at = "asking" => ~loop.finished
    /\ run.at = "calling" => loop.step < Steps
    /\ loop.finished => (store.diff # 0 => loop.readDiff)
    /\ loop.consumed \subseteq store.notes
    /\ loop.consumed # {} => loop.edits["memory"] # Missing
    /\ run.at # "committed" => /\ store.applied = {} /\ store.files["skill"] = Missing
                               /\ store.files["memory"] # "uncited"
    /\ run.at = "committed" => /\ run.completed
                               /\ store.applied = loop.consumed
                               /\ loop.edits["memory"] # Missing => store.files["memory"] = loop.edits["memory"]
                               /\ store.files["memory"] # "uncited" /\ store.files["summary"] \in {"v1", "padded"}

AgentIInv == AgentTyped /\ Earned /\ loop.shown = loop.readBytes

\* The texts of each file.
LEMMA TextsAre ==
    /\ Editable = {"memory", "summary", "skill"}
    /\ TextsOf("memory") = {"cited", "uncited"} /\ TextsOf("summary") = {"v1", "padded", "other"}
    /\ TextsOf("skill") = {"text"} /\ Missing = "missing"
  BY DEF Editable, TextsOf, Missing

\* A run starts with nothing done.
LEMMA AgentInitEarns == AgentInit => AgentIInv
<1> SUFFICES ASSUME AgentInit PROVE AgentIInv
  OBVIOUS
<1> USE AgentAssumption, TextsAre
<1>1. NewLoop \in Loops /\ \A rel \in Editable : NoEdits[rel] = Missing
  BY DEF NewLoop, Loops, NoEdits, AgentTexts
<1>2. PICK m \in {"cited", Missing}, s \in {"v1", "other", Missing} :
        store.files = [memory |-> m, summary |-> s, skill |-> Missing]
  BY DEF AgentInit, AgentStores
<1>3. /\ store = [files |-> store.files, diff |-> store.diff, notes |-> store.notes, applied |-> {}]
      /\ store.diff \in {0, DiffBytes} /\ store.notes \in SUBSET AgentNotes
  BY DEF AgentInit, AgentStores
<1>4. /\ store.files \in [Editable -> AgentTexts]
      /\ store.files["memory"] = m /\ store.files["summary"] = s /\ store.files["skill"] = Missing
  BY <1>2 DEF AgentTexts
<1>5. /\ run \in RunStates
      /\ run.completed = FALSE /\ run.at \in {"asking", "returned"}
  BY DEF AgentInit, RunStates
<1>6. store \in StoreStates
  BY <1>3, <1>4 DEF StoreStates
<1>7. \A rel \in Editable : /\ store.files[rel] \in TextsOf(rel) \cup {Missing}
                            /\ loop.edits[rel] \in TextsOf(rel) \cup {Missing}
  BY <1>1, <1>4 DEF AgentInit, NewLoop
<1>8. AgentTyped
  BY <1>1, <1>5, <1>6, <1>7 DEF AgentTyped, AgentInit
<1>9. Earned /\ loop.shown = loop.readBytes
  BY <1>3, <1>4, <1>5 DEF Earned, AgentInit, NewLoop
<1> QED
  BY <1>8, <1>9 DEF AgentIInv

\* What a page adds to what was read and shown; nothing else changes.
LEMMA ReadAdds ==
    ASSUME NEW l \in Loops, l.shown = l.readBytes, NEW bytes \in Nat
    PROVE  LET n == WithRead(l, bytes)
           IN  /\ n \in Loops /\ n.shown = n.readBytes
               /\ n.readDiff = l.readDiff /\ n.edits = l.edits /\ n.finished = l.finished
               /\ n.consumed = l.consumed /\ n.late = l.late /\ n.step = l.step
<1> USE AgentAssumption
<1> DEFINE left == ReadBudget - l.readBytes
<1>1. /\ left \in Nat /\ l.readBytes \in 0..ReadBudget /\ l.shown \in Nat /\ l.history \in Nat
      /\ l.shown + left = ReadBudget /\ ReadBudget \in 0..ReadBudget
  BY DEF Loops, AgentAssumption
<1>2. PICK shown \in Nat, history \in Nat : shown = l.shown + left /\ history = l.history + left
  BY <1>1
<1>3. PICK b \in Nat, more \in Nat : b = l.shown + bytes /\ more = l.history + bytes
  BY <1>1
<1>4. CASE left = 0
  BY <1>4 DEF WithRead
<1>5. CASE left # 0 /\ bytes > left
  <2>1. PICK n : n = [l EXCEPT !.readBytes = ReadBudget, !.shown = shown, !.history = history]
    OBVIOUS
  <2>2. WithRead(l, bytes) = n
    BY <1>2, <1>5, <2>1 DEF WithRead
  <2>3. /\ n \in Loops /\ n.shown = shown /\ n.readBytes = ReadBudget
        /\ n.readDiff = l.readDiff /\ n.edits = l.edits /\ n.finished = l.finished
        /\ n.consumed = l.consumed /\ n.late = l.late /\ n.step = l.step
    BY <1>1, <2>1 DEF Loops
  <2> HIDE DEF left
  <2> QED
    BY <1>1, <1>2, <2>2, <2>3
<1>6. CASE left # 0 /\ ~(bytes > left)
  <2>1. PICK n : n = [l EXCEPT !.readBytes = b, !.shown = b, !.history = more]
    OBVIOUS
  <2>2. WithRead(l, bytes) = n
    BY <1>3, <1>6, <2>1 DEF WithRead
  <2>3. b \in 0..ReadBudget
    BY <1>1, <1>3, <1>6
  <2>4. /\ n \in Loops /\ n.shown = b /\ n.readBytes = b
        /\ n.readDiff = l.readDiff /\ n.edits = l.edits /\ n.finished = l.finished
        /\ n.consumed = l.consumed /\ n.late = l.late /\ n.step = l.step
    BY <2>1, <2>3 DEF Loops
  <2> QED
    BY <2>2, <2>4
<1> QED
  BY <1>4, <1>5, <1>6

\* Where nothing is committed and the store is left alone, a new loop keeps the
\* invariant when it has what it had.
LEMMA LoopGoesOn ==
    ASSUME AgentIInv, UNCHANGED store, loop' \in Loops, loop'.shown = loop'.readBytes,
           \A rel \in Editable : loop'.edits[rel] \in TextsOf(rel) \cup {Missing},
           run.at \in {"asking", "calling"}, run' = run,
           run.at = "calling" => ~loop'.late /\ loop'.step = loop.step,
           run.at = "asking" => ~loop'.finished,
           loop'.finished => (store.diff # 0 => loop'.readDiff),
           loop'.consumed \subseteq store.notes,
           loop'.consumed # {} => loop'.edits["memory"] # Missing
    PROVE  AgentIInv'
<1>1. AgentTyped'
  BY DEF AgentIInv, AgentTyped
<1>2. Earned'
  BY DEF AgentIInv, Earned
<1> QED
  BY <1>1, <1>2 DEF AgentIInv

\* A run that fails or returns without being done has nothing to show.
LEMMA RunEnds ==
    ASSUME AgentIInv, UNCHANGED <<store, loop>>, run.at # "committed",
           \/ Throw
           \/ Return(FALSE)
    PROVE  AgentIInv'
<1>0. run \in RunStates
  BY DEF AgentIInv, AgentTyped
<1>1. run' \in RunStates /\ run'.at \in {"failed", "returned"} /\ (run'.completed => run.completed)
  <2>1. CASE Throw
    BY <1>0, <2>1 DEF Throw, RunStates
  <2>2. CASE Return(FALSE)
    BY <2>2 DEF Return, RunStates
  <2> QED
    BY <2>1, <2>2
<1>2. AgentTyped'
  BY <1>1 DEF AgentIInv, AgentTyped
<1>3. Earned'
  BY <1>1 DEF AgentIInv, Earned
<1> QED
  BY <1>2, <1>3 DEF AgentIInv

LEMMA StepsKeep ==
    ASSUME AgentIInv, TimeOut \/ StepFails \/ ReplyStops \/ ReplyProse \/ ReplyCalls \/ ReplyEnds \/ Exhausted
    PROVE  AgentIInv'
<1> USE AgentAssumption
<1>1. loop \in Loops /\ loop.shown = loop.readBytes /\ run \in RunStates
  BY DEF AgentIInv, AgentTyped
<1>2. CASE TimeOut
  <2>1. loop' = [loop EXCEPT !.late = TRUE] /\ run' = run /\ store' = store /\ run.at = "asking"
    BY <1>2 DEF TimeOut, GoOn
  <2>2. loop' \in Loops /\ loop'.shown = loop'.readBytes /\ loop'.edits = loop.edits
        /\ loop'.finished = loop.finished /\ loop'.readDiff = loop.readDiff /\ loop'.consumed = loop.consumed
    BY <1>1, <2>1 DEF Loops
  <2> QED
    BY <2>1, <2>2, LoopGoesOn DEF AgentIInv, AgentTyped, Earned
<1>3. CASE StepFails
  BY <1>3, RunEnds DEF StepFails
<1>4. CASE ReplyStops
  BY <1>4, RunEnds DEF ReplyStops, RequestGoes
<1>5. CASE ReplyProse
  <2>1. CASE loop.nudged
    BY <1>5, <2>1, RunEnds DEF ReplyProse, RequestGoes
  <2>2. CASE ~loop.nudged
    <3>1. loop' = [loop EXCEPT !.nudged = TRUE, !.step = @ + 1, !.history = @ + 1] /\ run' = run /\ store' = store
          /\ run.at = "asking" /\ loop.step < Steps
      BY <1>5, <2>2 DEF ReplyProse, RequestGoes, GoOn
    <3>2. loop' \in Loops /\ loop'.shown = loop'.readBytes /\ loop'.edits = loop.edits
          /\ loop'.finished = loop.finished /\ loop'.readDiff = loop.readDiff /\ loop'.consumed = loop.consumed
      <4>1. PICK n \in 0..Steps, h \in Nat : n = loop.step + 1 /\ h = loop.history + 1
        BY <1>1, <3>1 DEF Loops
      <4> QED
        BY <1>1, <3>1, <4>1 DEF Loops
    <3> QED
      BY <3>1, <3>2, LoopGoesOn DEF AgentIInv, AgentTyped, Earned
  <2> QED
    BY <2>1, <2>2
<1>6. CASE ReplyCalls
  <2>1. /\ loop' = [loop EXCEPT !.calls = 0, !.history = @ + 1] /\ run' = [run EXCEPT !.at = "calling"]
        /\ store' = store /\ run.at = "asking" /\ ~loop.late /\ loop.step < Steps
    BY <1>6 DEF ReplyCalls, RequestGoes
  <2>2. loop' \in Loops /\ loop'.shown = loop'.readBytes /\ loop'.edits = loop.edits /\ loop'.late = loop.late
        /\ loop'.finished = loop.finished /\ loop'.readDiff = loop.readDiff /\ loop'.consumed = loop.consumed
        /\ loop'.step = loop.step
    <3>1. PICK h \in Nat, zero \in 0..CallCap : zero = 0 /\ h = loop.history + 1
      BY <1>1 DEF Loops, AgentAssumption
    <3> QED
      BY <1>1, <2>1, <3>1 DEF Loops
  <2>3. run' \in RunStates /\ run'.at = "calling" /\ run'.completed = run.completed
    BY <1>1, <2>1 DEF RunStates
  <2>4. AgentTyped'
    BY <2>1, <2>2, <2>3 DEF AgentIInv, AgentTyped
  <2>5. Earned'
    BY <2>1, <2>2, <2>3 DEF AgentIInv, Earned
  <2> QED
    BY <1>1, <2>2, <2>4, <2>5 DEF AgentIInv
<1>7. CASE ReplyEnds
  <2>1. store' = store /\ run.at = "calling" /\ ~loop.late
    BY <1>7 DEF ReplyEnds, AgentIInv, Earned
  <2>2. CASE loop.finished
    <3>1. loop' = loop /\ run' = [at |-> "returned", completed |-> TRUE]
      BY <1>7, <2>2 DEF ReplyEnds, Return
    <3>2. run' \in RunStates /\ run'.at = "returned" /\ run'.completed
      BY <3>1 DEF RunStates
    <3>3. AgentTyped' /\ Earned'
      BY <2>1, <2>2, <3>1, <3>2 DEF AgentIInv, AgentTyped, Earned
    <3> QED
      BY <3>1, <3>3 DEF AgentIInv
  <2>3. CASE ~loop.finished
    <3>1. loop' = [loop EXCEPT !.step = @ + 1] /\ run' = [run EXCEPT !.at = "asking"] /\ loop.step < Steps
      BY <1>7, <2>1, <2>3 DEF ReplyEnds, AgentIInv, Earned
    <3>2. PICK n \in 0..Steps : n = loop.step + 1
      BY <1>1, <3>1 DEF Loops
    <3>3. loop' \in Loops /\ loop'.shown = loop'.readBytes /\ loop'.edits = loop.edits /\ loop'.late = loop.late
          /\ loop'.finished = loop.finished /\ loop'.readDiff = loop.readDiff /\ loop'.consumed = loop.consumed
      BY <1>1, <3>1, <3>2 DEF Loops
    <3>4. run' \in RunStates /\ run'.at = "asking" /\ run'.completed = run.completed
      BY <1>1, <3>1 DEF RunStates
    <3>5. AgentTyped'
      BY <2>1, <3>3, <3>4 DEF AgentIInv, AgentTyped
    <3>6. Earned'
      BY <2>1, <2>3, <3>3, <3>4 DEF AgentIInv, Earned
    <3> QED
      BY <3>3, <3>5, <3>6 DEF AgentIInv
  <2> QED
    BY <2>2, <2>3
<1>8. CASE Exhausted
  BY <1>8, RunEnds DEF Exhausted
<1> QED
  BY <1>2, <1>3, <1>4, <1>5, <1>6, <1>7, <1>8

\* The next call of a reply.
LEMMA CalledIs ==
    ASSUME AgentIInv, Calls
    PROVE  /\ Called \in Loops /\ Called.shown = Called.readBytes /\ Called.step = loop.step
           /\ Called.readDiff = loop.readDiff /\ Called.edits = loop.edits /\ Called.finished = loop.finished
           /\ Called.consumed = loop.consumed /\ Called.late = loop.late
<1>1. loop \in Loops /\ loop.shown = loop.readBytes
  BY DEF AgentIInv, AgentTyped
<1>2. PICK n \in 0..CallCap : n = loop.calls + 1
  BY <1>1, AgentAssumption DEF Loops, Calls, AgentAssumption
<1> QED
  BY <1>1, <1>2 DEF Loops, Called

\* A page has no more bytes than there are.
LEMMA PageIs ==
    ASSUME NEW size \in Nat, NEW offset \in Nat, NEW limit \in Nat
    PROVE  Page(size, offset, limit) \in Nat
  BY DEF Page

LEMMA CallsKeep ==
    ASSUME AgentIInv,
           \/ CallAnswered
           \/ \E diff \in BOOLEAN, offset \in 0..DiffBytes, limit \in 1..PageBytes : CallRead(diff, offset, limit)
           \/ \E rel \in Editable : \E text \in TextsOf(rel) : CallWrite(rel, text)
           \/ \E claimed \in SUBSET AgentNotes : CallFinish(claimed)
    PROVE  AgentIInv'
<1> DEFINE n == Called
<1>0. Calls /\ run.at = "calling" /\ run' = run /\ store' = store
  BY DEF CallAnswered, CallRead, CallWrite, CallFinish, Calls, GoOn
<1>1. /\ n \in Loops /\ n.shown = n.readBytes /\ n.step = loop.step
      /\ n.readDiff = loop.readDiff /\ n.edits = loop.edits /\ n.finished = loop.finished
      /\ n.consumed = loop.consumed /\ n.late = loop.late
  BY <1>0, CalledIs
<1>2. /\ loop \in Loops /\ ~loop.late /\ store \in StoreStates
      /\ \A rel \in Editable : loop.edits[rel] \in TextsOf(rel) \cup {Missing}
      /\ loop.finished => (store.diff # 0 => loop.readDiff)
      /\ loop.consumed \subseteq store.notes
      /\ loop.consumed # {} => loop.edits["memory"] # Missing
  BY <1>0 DEF AgentIInv, AgentTyped, Earned
<1> HIDE DEF n
<1>3. CASE CallAnswered
  <2>1. loop' = n
    BY <1>3 DEF CallAnswered, GoOn, n
  <2> QED
    BY <1>0, <1>1, <1>2, <2>1, LoopGoesOn
<1>4. ASSUME NEW diff \in BOOLEAN, NEW offset \in 0..DiffBytes, NEW limit \in 1..PageBytes, CallRead(diff, offset, limit)
      PROVE  AgentIInv'
  <2>0. PICK more \in BOOLEAN : more = (n.readDiff \/ diff)
    BY <1>1 DEF Loops
  <2>1. PICK m : m = [n EXCEPT !.readDiff = more]
    OBVIOUS
  <2>2. /\ m \in Loops /\ m.shown = m.readBytes /\ m.step = n.step /\ (n.readDiff => m.readDiff)
        /\ m.edits = n.edits /\ m.finished = n.finished /\ m.consumed = n.consumed /\ m.late = n.late
    BY <1>1, <2>0, <2>1 DEF Loops
  <2>3. PICK bytes \in Nat : bytes = Page(DiffBytes, offset, limit)
    BY PageIs, AgentAssumption DEF AgentAssumption
  <2>4. loop' = WithRead(m, bytes)
    BY <1>4, <2>0, <2>1, <2>3 DEF CallRead, GoOn, n
  <2>5. /\ loop' \in Loops /\ loop'.shown = loop'.readBytes
        /\ loop'.readDiff = m.readDiff /\ loop'.edits = m.edits /\ loop'.finished = m.finished
        /\ loop'.consumed = m.consumed /\ loop'.late = m.late /\ loop'.step = m.step
    BY <2>2, <2>4, ReadAdds
  <2> QED
    BY <1>0, <1>1, <1>2, <2>2, <2>5, LoopGoesOn
<1>5. ASSUME NEW rel \in Editable, NEW text \in TextsOf(rel), CallWrite(rel, text)
      PROVE  AgentIInv'
  <2>1. text \in AgentTexts /\ text # Missing /\ text \in TextsOf(rel) \cup {Missing}
    BY TextsAre DEF AgentTexts
  <2>2. PICK h \in Nat : h = n.history + 1
    BY <1>1 DEF Loops
  <2>3. loop' = [n EXCEPT !.edits[rel] = text, !.history = h]
    BY <1>5, <2>2 DEF CallWrite, GoOn, n
  <2>4. PICK e : e = [n.edits EXCEPT ![rel] = text]
    OBVIOUS
  <2>5. e \in [Editable -> AgentTexts] /\ e[rel] = text /\ \A r \in Editable : r # rel => e[r] = n.edits[r]
    BY <1>1, <2>1, <2>4 DEF Loops
  <2>6. /\ loop' \in Loops /\ loop'.shown = loop'.readBytes /\ loop'.edits = e
        /\ loop'.readDiff = n.readDiff /\ loop'.finished = n.finished
        /\ loop'.consumed = n.consumed /\ loop'.late = n.late /\ loop'.step = n.step
    <3>1. loop' = [n EXCEPT !.edits = e, !.history = h]
      BY <1>1, <2>3, <2>4 DEF Loops
    <3> QED
      BY <1>1, <2>2, <2>5, <3>1 DEF Loops
  <2>7. /\ \A r \in Editable : loop'.edits[r] \in TextsOf(r) \cup {Missing}
        /\ loop.edits["memory"] # Missing => loop'.edits["memory"] # Missing
    BY <1>1, <1>2, <2>1, <2>5, <2>6, TextsAre
  <2> QED
    BY <1>0, <1>1, <1>2, <2>6, <2>7, LoopGoesOn
<1>6. ASSUME NEW claimed \in SUBSET AgentNotes, CallFinish(claimed)
      PROVE  AgentIInv'
  <2>1. PICK c \in SUBSET AgentNotes : c = Acknowledged(loop, claimed)
    BY DEF Acknowledged
  <2>2. c \subseteq store.notes /\ (c # {} => loop.edits["memory"] # Missing)
    BY <2>1 DEF Acknowledged
  <2>3. loop' = [n EXCEPT !.finished = TRUE, !.consumed = c] /\ (store.diff # 0 => loop.readDiff)
    BY <1>6, <2>1 DEF CallFinish, GoOn, n
  <2>4. /\ loop' \in Loops /\ loop'.shown = loop'.readBytes /\ loop'.edits = n.edits
        /\ loop'.readDiff = n.readDiff /\ loop'.consumed = c /\ loop'.late = n.late /\ loop'.step = n.step
    BY <1>1, <2>3 DEF Loops
  <2> QED
    BY <1>0, <1>1, <1>2, <2>2, <2>3, <2>4, LoopGoesOn
<1> QED
  BY <1>3, <1>4, <1>5, <1>6

\* What is validated is cited and has the header: Completed adds a summary only
\* where neither the edits nor the store have one.
LEMMA ValidLeaves ==
    ASSUME AgentTyped, store.files["memory"] # "uncited", Valid(Completed(loop.edits))
    PROVE  LET after == [rel \in Editable |-> After(rel, Completed(loop.edits))]
           IN  /\ after \in [Editable -> AgentTexts]
               /\ \A rel \in Editable : after[rel] \in TextsOf(rel) \cup {Missing}
               /\ after["memory"] # "uncited" /\ after["summary"] \in {"v1", "padded"}
               /\ loop.edits["memory"] # Missing => after["memory"] = loop.edits["memory"]
<1> DEFINE e == loop.edits
           c == Completed(e)
<1>1. e \in [Editable -> AgentTexts] /\ store.files \in [Editable -> AgentTexts]
  BY DEF AgentTyped, Loops, StoreStates
<1>2. \A rel \in Editable : e[rel] \in TextsOf(rel) \cup {Missing} /\ store.files[rel] \in TextsOf(rel) \cup {Missing}
  BY DEF AgentTyped
<1>3. /\ c \in [Editable -> AgentTexts] /\ c["memory"] = e["memory"] /\ c["skill"] = e["skill"]
      /\ (c["summary"] = e["summary"] /\ After("summary", e) \in {"v1", "padded"}) \/ c["summary"] = "v1"
  BY <1>1, TextsAre DEF Completed, AgentTexts
<1>4. c["memory"] # "uncited"
  BY DEF Valid
<1> HIDE DEF e, c
<1>5. \A rel \in Editable : After(rel, c) = IF c[rel] = Missing THEN store.files[rel] ELSE c[rel]
  BY DEF After
<1>6. After("summary", c) \in {"v1", "padded"}
  BY <1>3, <1>5, TextsAre DEF After
<1>7. \A rel \in Editable : After(rel, c) \in TextsOf(rel) \cup {Missing} /\ After(rel, c) \in AgentTexts
  BY <1>1, <1>2, <1>3, <1>5, TextsAre
<1>8. After("memory", c) # "uncited" /\ (e["memory"] # Missing => After("memory", c) = e["memory"])
  BY <1>3, <1>4, <1>5, TextsAre
<1> QED
  BY <1>6, <1>7, <1>8, TextsAre DEF c, e

LEMMA EndsKeep ==
    ASSUME AgentIInv, Reject \/ CommitRun
    PROVE  AgentIInv'
<1>1. CASE Reject
  BY <1>1, RunEnds DEF Reject
<1>2. CASE CommitRun
  <2> DEFINE after == [rel \in Editable |-> After(rel, Completed(loop.edits))]
  <2>1. /\ run.at = "returned" /\ run.completed /\ loop' = loop /\ run' = [run EXCEPT !.at = "committed"]
        /\ store' = [store EXCEPT !.files = after, !.applied = loop.consumed]
        /\ Valid(Completed(loop.edits))
    BY <1>2 DEF CommitRun
  <2>2. /\ store \in StoreStates /\ loop \in Loops /\ run \in RunStates /\ store.files["memory"] # "uncited"
        /\ AgentTyped
    BY <2>1 DEF AgentIInv, AgentTyped, Earned
  <2>3. /\ after \in [Editable -> AgentTexts]
        /\ \A rel \in Editable : after[rel] \in TextsOf(rel) \cup {Missing}
        /\ after["memory"] # "uncited" /\ after["summary"] \in {"v1", "padded"}
        /\ loop.edits["memory"] # Missing => after["memory"] = loop.edits["memory"]
    BY <2>1, <2>2, ValidLeaves
  <2> HIDE DEF after
  <2>4. run' \in RunStates /\ run'.at = "committed" /\ run'.completed
    BY <2>1, <2>2 DEF RunStates
  <2>5. /\ store' \in StoreStates /\ store'.files = after /\ store'.applied = loop.consumed
        /\ store'.diff = store.diff /\ store'.notes = store.notes
    BY <2>1, <2>2, <2>3 DEF StoreStates, Loops
  <2>6. AgentTyped'
    BY <2>1, <2>2, <2>3, <2>4, <2>5 DEF AgentTyped
  <2>7. Earned'
    BY <2>1, <2>3, <2>4, <2>5 DEF AgentIInv, Earned
  <2> QED
    BY <2>1, <2>6, <2>7 DEF AgentIInv
<1> QED
  BY <1>1, <1>2

LEMMA AgentNextKeeps == AgentIInv /\ [AgentNext]_agentVars => AgentIInv'
<1> SUFFICES ASSUME AgentIInv, [AgentNext]_agentVars PROVE AgentIInv'
  OBVIOUS
<1>1. CASE UNCHANGED agentVars
  BY <1>1 DEF agentVars, AgentIInv, AgentTyped, Earned
<1>2. CASE AgentNext
  BY <1>2, StepsKeep, CallsKeep, EndsKeep DEF AgentNext
<1> QED
  BY <1>1, <1>2

\* Always true of the agent's run.
THEOREM AgentInvariant == AgentSpec => []AgentIInv
BY AgentInitEarns, AgentNextKeeps, PTL DEF AgentSpec

(***************************************************************************)
(* Type correctness of the agent's run: its budgets are never overdrawn.   *)
(***************************************************************************)
THEOREM AgentTypeCorrect == AgentSpec => []AgentTypeOK
<1>1. AgentIInv => AgentTypeOK
  BY DEF AgentIInv, AgentTyped, AgentTypeOK, Loops, RunStates, StoreStates
<1> QED
  BY <1>1, AgentInvariant, PTL

(***************************************************************************)
(* Whatever the model writes, claims and repeats: only a run that asked    *)
(* for the change list, finished and came in time commits; it settles      *)
(* pending notes only, and none without a rewrite of MEMORY.md.            *)
(***************************************************************************)
THEOREM CommitIsEarnedHolds == AgentSpec => []CommitIsEarned
<1>1. AgentIInv => CommitIsEarned
  <2> SUFFICES ASSUME AgentIInv PROVE CommitIsEarned
    OBVIOUS
  <2>1. loop.shown <= ReadBudget
    BY AgentAssumption DEF AgentIInv, AgentTyped, Loops, AgentAssumption
  <2>2. store.diff # 0 /\ loop.finished => loop.readDiff
    BY DEF AgentIInv, Earned
  <2> QED
    BY <2>1, <2>2 DEF AgentIInv, Earned, CommitIsEarned
<1> QED
  BY <1>1, AgentInvariant, PTL

----------------------------------------------------------------------------

(***************************************************************************)
(* The evidence of a session, for any log, limits and number of restarts.  *)
(* What an engine holds after so many events is a function of the log      *)
(* (History), however often it was rebuilt; it does not change over turns; *)
(* and for every turn that was checkpointed the queue has the key of what  *)
(* the log made of the session up to there.                                *)
(***************************************************************************)
Engine(e) ==
    /\ e = [open |-> e.open, done |-> e.done, from |-> e.from, used |-> e.used,
            tools |-> e.tools, parts |-> e.parts, pend |-> e.pend]
    /\ e.done \in Nat /\ e.from \in Nat

EvTyped ==
    /\ events \in Seq(HostEvents) /\ Engine(eng)
    /\ eng.done \in 0..Len(events)
    /\ marks \subseteq 1..Len(events)

\* What an event makes of the tools, the parts and the open compactions.
Settling(pend, event) == event.type = "end" /\ ~event.failed /\ event.of \in pend
ToolsAfter(tools, pend, event) ==
    IF event.type = "tool" /\ event.tool # "failed" THEN LastOf(Append(tools, [kind |-> "tool", text |-> event.tool]), ItemLimit)
    ELSE IF Settling(pend, event) THEN LastOf(Append(tools, [kind |-> "summary", text |-> event.of]), ItemLimit)
    ELSE tools
PartsAfter(parts, pend, n, event, hist) ==
    IF event.type = "message" THEN LastOf(Append(parts, n), PartsLimit)
    ELSE IF event.type = "prune" THEN NotShadowed(parts, event.upto)
    ELSE IF Settling(pend, event) THEN NotShadowed(parts, hist[event.of].upto)
    ELSE parts
PendAfter(pend, n, event) ==
    IF event.type = "summary" THEN pend \cup {n} ELSE IF Settling(pend, event) THEN pend \ {event.of} ELSE pend

\* T, P and D are what the log makes of them, event by event.
History(hist, T, P, D) ==
    /\ T[0] = <<>> /\ P[0] = <<>> /\ D[0] = {}
    /\ \A k \in 1..Len(hist) :
          /\ T[k] = ToolsAfter(T[k - 1], D[k - 1], hist[k])
          /\ P[k] = PartsAfter(P[k - 1], D[k - 1], k, hist[k], hist)
          /\ D[k] = PendAfter(D[k - 1], k, hist[k])
    /\ \A k \in 0..Len(hist) : D[k] \subseteq 1..k
    /\ \A i, j \in 0..Len(hist) : i <= j /\ (\A k \in i + 1..j : hist[k].type = "turn") => T[j] = T[i] /\ P[j] = P[i]

\* The checkpoint of what is held, and its key.
ContentOf(tools, parts) ==
    LET items == tools \o [i \in 1..Len(parts) |-> [kind |-> "message", text |-> parts[i]]]
    IN  SubSeq(items, 1, IF Len(items) > ItemLimit THEN ItemLimit ELSE Len(items))
IdleKey(tools, parts) == [event |-> "idle", content |-> ContentOf(tools, parts)]

Remembers(T, P, D) ==
    /\ History(events, T, P, D)
    /\ eng.open => eng.tools = T[eng.done] /\ eng.parts = P[eng.done] /\ eng.pend = D[eng.done]
    /\ \A m \in marks : IdleKey(T[m - 1], P[m - 1]) \in queued
EvIInv == EvTyped /\ \E T, P, D : Remembers(T, P, D)

(***************************************************************************)
(* Operators.                                                              *)
(***************************************************************************)
LEMMA KeyIs ==
    ASSUME NEW e
    PROVE  Key("idle", e) = IdleKey(e.tools, e.parts)
BY DEF Key, IdleKey, ContentOf, Snapshot, EvidenceItems

\* What an event makes of an engine, field by field.
LEMMA NotedIs ==
    ASSUME NEW e, Engine(e), NEW n, NEW event \in HostEvents
    PROVE  /\ Engine(Noted(e, n, event))
           /\ Noted(e, n, event).open = e.open /\ Noted(e, n, event).from = e.from
           /\ Noted(e, n, event).tools = ToolsAfter(e.tools, e.pend, event)
           /\ Noted(e, n, event).parts = PartsAfter(e.parts, e.pend, n, event, events)
           /\ Noted(e, n, event).pend = PendAfter(e.pend, n, event)
<1>1. PICK open, done, from, used, tools, parts, pend :
          /\ e = [open |-> open, done |-> done, from |-> from, used |-> used, tools |-> tools, parts |-> parts, pend |-> pend]
          /\ open = e.open /\ from = e.from /\ done = e.done /\ tools = e.tools /\ parts = e.parts /\ pend = e.pend
          /\ done \in Nat /\ from \in Nat
  BY DEF Engine
<1>2. event.type \in {"message", "turn", "tool", "summary", "prune", "end"}
  BY DEF HostEvents
<1>3. CASE event.type = "message"
  <2>1. PICK p : p = LastOf(Append(parts, n), PartsLimit)
    OBVIOUS
  <2>2. PICK x : x = [open |-> open, done |-> done, from |-> from, used |-> used, tools |-> tools, parts |-> p, pend |-> pend]
    OBVIOUS
  <2>3. x = Noted(e, n, event)
    BY <1>1, <1>3, <2>1, <2>2 DEF Noted, MessageSeen
  <2>4. Engine(x) /\ x.open = open /\ x.from = from /\ x.tools = tools /\ x.parts = p /\ x.pend = pend
    BY <1>1, <2>2 DEF Engine
  <2> QED
    BY <1>1, <1>3, <2>1, <2>3, <2>4 DEF ToolsAfter, PartsAfter, PendAfter, Settling
<1>4. CASE event.type = "turn"
  <2>1. Noted(e, n, event) = e
    BY <1>4 DEF Noted
  <2> QED
    BY <1>4, <2>1 DEF ToolsAfter, PartsAfter, PendAfter, Settling
<1>5. CASE event.type = "tool"
  <2>1. CASE event.tool = "failed"
    <3>1. Noted(e, n, event) = e
      BY <1>5, <2>1 DEF Noted, Executed
    <3> QED
      BY <1>5, <2>1, <3>1 DEF ToolsAfter, PartsAfter, PendAfter, Settling
  <2>2. CASE event.tool # "failed"
    <3>1. PICK p : p = LastOf(Append(tools, [kind |-> "tool", text |-> event.tool]), ItemLimit)
      OBVIOUS
    <3>2. PICK x : x = [open |-> open, done |-> done, from |-> from, used |-> TRUE, tools |-> p, parts |-> parts, pend |-> pend]
      OBVIOUS
    <3>3. x = Noted(e, n, event)
      BY <1>1, <1>5, <2>2, <3>1, <3>2 DEF Noted, Executed, WithEvidence
    <3>4. Engine(x) /\ x.open = open /\ x.from = from /\ x.tools = p /\ x.parts = parts /\ x.pend = pend
      BY <1>1, <3>2 DEF Engine
    <3> QED
      BY <1>1, <1>5, <2>2, <3>1, <3>3, <3>4 DEF ToolsAfter, PartsAfter, PendAfter, Settling
  <2> QED
    BY <2>1, <2>2
<1>6. CASE event.type = "summary"
  <2>1. PICK p : p = pend \cup {n}
    OBVIOUS
  <2>2. PICK x : x = [open |-> open, done |-> done, from |-> from, used |-> used, tools |-> tools, parts |-> parts, pend |-> p]
    OBVIOUS
  <2>3. x = Noted(e, n, event)
    BY <1>1, <1>6, <2>1, <2>2 DEF Noted
  <2>4. Engine(x) /\ x.open = open /\ x.from = from /\ x.tools = tools /\ x.parts = parts /\ x.pend = p
    BY <1>1, <2>2 DEF Engine
  <2> QED
    BY <1>1, <1>6, <2>1, <2>3, <2>4 DEF ToolsAfter, PartsAfter, PendAfter, Settling
<1>7. CASE event.type = "prune"
  <2>1. PICK p : p = NotShadowed(parts, event.upto)
    OBVIOUS
  <2>2. PICK x : x = [open |-> open, done |-> done, from |-> from, used |-> used, tools |-> tools, parts |-> p, pend |-> pend]
    OBVIOUS
  <2>3. x = Noted(e, n, event)
    BY <1>1, <1>7, <2>1, <2>2 DEF Noted, WithoutShadowed
  <2>4. Engine(x) /\ x.open = open /\ x.from = from /\ x.tools = tools /\ x.parts = p /\ x.pend = pend
    BY <1>1, <2>2 DEF Engine
  <2> QED
    BY <1>1, <1>7, <2>1, <2>3, <2>4 DEF ToolsAfter, PartsAfter, PendAfter, Settling
<1>8. CASE event.type = "end"
  <2>1. CASE ~Settling(pend, event)
    <3>1. Noted(e, n, event) = e
      BY <1>1, <1>8, <2>1 DEF Noted, CompactionSettled, Settling
    <3> QED
      BY <1>1, <1>8, <2>1, <3>1 DEF ToolsAfter, PartsAfter, PendAfter
  <2>2. CASE Settling(pend, event)
    <3>1. PICK p, q, s : /\ p = NotShadowed(parts, events[event.of].upto) /\ q = pend \ {event.of}
                         /\ s = LastOf(Append(tools, [kind |-> "summary", text |-> event.of]), ItemLimit)
      OBVIOUS
    <3>2. PICK x : x = [open |-> open, done |-> done, from |-> from, used |-> used, tools |-> s, parts |-> p, pend |-> q]
      OBVIOUS
    <3>3. x = Noted(e, n, event)
      BY <1>1, <1>8, <2>2, <3>1, <3>2 DEF Noted, CompactionSettled, WithEvidence, WithoutShadowed, Settling
    <3>4. Engine(x) /\ x.open = open /\ x.from = from /\ x.tools = s /\ x.parts = p /\ x.pend = q
      BY <1>1, <3>2 DEF Engine
    <3> QED
      BY <1>1, <1>8, <2>2, <3>1, <3>3, <3>4 DEF ToolsAfter, PartsAfter, PendAfter
  <2> QED
    BY <2>1, <2>2
<1> QED
  BY <1>2, <1>3, <1>4, <1>5, <1>6, <1>7, <1>8

(***************************************************************************)
(* The log grows.                                                          *)
(***************************************************************************)
LEMMA LongerHistory ==
    ASSUME NEW hist \in Seq(HostEvents), NEW event \in HostEvents, NEW T, NEW P, NEW D, History(hist, T, P, D)
    PROVE  \E U, Q, E : /\ History(Append(hist, event), U, Q, E)
                        /\ \A k \in 0..Len(hist) : U[k] = T[k] /\ Q[k] = P[k] /\ E[k] = D[k]
<1> DEFINE n == Len(hist)
           longer == Append(hist, event)
<1>1. /\ n \in Nat /\ longer \in Seq(HostEvents) /\ Len(longer) = n + 1 /\ longer[n + 1] = event
      /\ \A k \in 1..n : longer[k] = hist[k]
  BY AppendProperties
<1>2. PICK t, p, d : /\ t = ToolsAfter(T[n], D[n], event)
                     /\ p = PartsAfter(P[n], D[n], n + 1, event, longer)
                     /\ d = PendAfter(D[n], n + 1, event)
  OBVIOUS
<1>3. PICK U : U = [k \in 0..n + 1 |-> IF k = n + 1 THEN t ELSE T[k]]
  OBVIOUS
<1>4. PICK Q : Q = [k \in 0..n + 1 |-> IF k = n + 1 THEN p ELSE P[k]]
  OBVIOUS
<1>5. PICK E : E = [k \in 0..n + 1 |-> IF k = n + 1 THEN d ELSE D[k]]
  OBVIOUS
<1>6. /\ \A k \in 0..n : U[k] = T[k] /\ Q[k] = P[k] /\ E[k] = D[k]
      /\ U[n + 1] = t /\ Q[n + 1] = p /\ E[n + 1] = d
  BY <1>1, <1>3, <1>4, <1>5
<1>7. /\ T[0] = <<>> /\ P[0] = <<>> /\ D[0] = {}
      /\ \A k \in 1..n : /\ T[k] = ToolsAfter(T[k - 1], D[k - 1], hist[k])
                         /\ P[k] = PartsAfter(P[k - 1], D[k - 1], k, hist[k], hist)
                         /\ D[k] = PendAfter(D[k - 1], k, hist[k])
      /\ \A k \in 0..n : D[k] \subseteq 1..k
      /\ \A i, j \in 0..n : i <= j /\ (\A k \in i + 1..j : hist[k].type = "turn") => T[j] = T[i] /\ P[j] = P[i]
  BY DEF History
<1>8. U[0] = <<>> /\ Q[0] = <<>> /\ E[0] = {}
  BY <1>1, <1>6, <1>7
<1>9. ASSUME NEW k \in 1..n + 1
      PROVE  /\ U[k] = ToolsAfter(U[k - 1], E[k - 1], longer[k])
             /\ Q[k] = PartsAfter(Q[k - 1], E[k - 1], k, longer[k], longer)
             /\ E[k] = PendAfter(E[k - 1], k, longer[k])
  <2>1. CASE k = n + 1
    BY <1>1, <1>2, <1>6, <2>1
  <2>2. CASE k \in 1..n
    <3>1. /\ U[k] = T[k] /\ Q[k] = P[k] /\ E[k] = D[k] /\ U[k - 1] = T[k - 1] /\ Q[k - 1] = P[k - 1] /\ E[k - 1] = D[k - 1]
          /\ longer[k] = hist[k] /\ D[k - 1] \subseteq 1..k - 1
      BY <1>1, <1>6, <1>7, <2>2
    <3>2. hist[k].of \in D[k - 1] => longer[hist[k].of] = hist[hist[k].of]
      BY <1>1, <2>2, <3>1
    <3>3. PartsAfter(P[k - 1], D[k - 1], k, hist[k], longer) = PartsAfter(P[k - 1], D[k - 1], k, hist[k], hist)
      BY <3>2 DEF PartsAfter, Settling
    <3> QED
      BY <1>7, <2>2, <3>1, <3>3
  <2> QED
    BY <1>1, <2>1, <2>2
<1>10. \A k \in 0..n + 1 : E[k] \subseteq 1..k
  <2>1. d \subseteq D[n] \cup {n + 1}
    BY <1>2 DEF PendAfter
  <2>2. D[n] \subseteq 1..n
    BY <1>1, <1>7
  <2>3. d \subseteq 1..n + 1
    <3>1. ASSUME NEW y \in d PROVE y \in 1..n + 1
      <4>1. CASE y = n + 1
        BY <1>1, <4>1
      <4>2. CASE y \in 1..n
        BY <1>1, <4>2
      <4> QED
        BY <2>1, <2>2, <4>1, <4>2
    <3> QED
      BY <3>1
  <2>4. ASSUME NEW k \in 0..n + 1 PROVE E[k] \subseteq 1..k
    <3>1. CASE k = n + 1
      BY <1>6, <2>3, <3>1
    <3>2. CASE k \in 0..n
      BY <1>6, <1>7, <3>2
    <3> QED
      BY <1>1, <3>1, <3>2
  <2> QED
    BY <2>4
<1>11. ASSUME NEW i \in 0..n + 1, NEW j \in 0..n + 1, i <= j, \A k \in i + 1..j : longer[k].type = "turn"
       PROVE  U[j] = U[i] /\ Q[j] = Q[i]
  <2>1. CASE i = j
    BY <2>1
  <2>2. CASE i < j /\ j <= n
    <3>1. \A k \in i + 1..j : hist[k].type = "turn"
      BY <1>1, <1>11, <2>2
    <3>2. T[j] = T[i] /\ P[j] = P[i]
      BY <1>1, <1>7, <2>2, <3>1
    <3> QED
      BY <1>1, <1>6, <2>2, <3>2
  <2>3. CASE i < j /\ j = n + 1
    <3>1. \A k \in i + 1..n : hist[k].type = "turn"
      BY <1>1, <1>11, <2>3
    <3>2. T[n] = T[i] /\ P[n] = P[i]
      BY <1>1, <1>7, <2>3, <3>1
    <3>3. event.type = "turn"
      BY <1>1, <1>11, <2>3
    <3>4. t = T[n] /\ p = P[n]
      BY <1>2, <3>3 DEF ToolsAfter, PartsAfter, Settling
    <3> QED
      BY <1>1, <1>6, <2>3, <3>2, <3>4
  <2>4. i = j \/ (i < j /\ j <= n) \/ (i < j /\ j = n + 1)
    BY <1>1, <1>11
  <2> QED
    BY <2>1, <2>2, <2>3, <2>4
<1>12. History(longer, U, Q, E)
  BY <1>1, <1>8, <1>9, <1>10, <1>11 DEF History
<1> QED
  BY <1>6, <1>12

LEMMA HappensKeeps ==
    ASSUME EvIInv, NEW event \in HostEvents, Happens(event)
    PROVE  EvIInv'
<1>1. EvTyped /\ events' = Append(events, event) /\ UNCHANGED <<eng, queued, marks>>
  BY DEF EvIInv, Happens
<1>2. PICK T, P, D : Remembers(T, P, D)
  BY DEF EvIInv
<1>3. events \in Seq(HostEvents) /\ Len(events) \in Nat /\ eng.done \in 0..Len(events) /\ marks \subseteq 1..Len(events)
  BY <1>1 DEF EvTyped
<1>4. PICK U, Q, E : /\ History(Append(events, event), U, Q, E)
                     /\ \A k \in 0..Len(events) : U[k] = T[k] /\ Q[k] = P[k] /\ E[k] = D[k]
  BY <1>2, <1>3, LongerHistory DEF Remembers
<1>5. EvTyped'
  <2>1. Append(events, event) \in Seq(HostEvents) /\ Len(Append(events, event)) = Len(events) + 1
    BY <1>3, AppendProperties
  <2> QED
    BY <1>1, <1>3, <2>1 DEF EvTyped, Engine
<1>6. \A m \in marks : U[m - 1] = T[m - 1] /\ Q[m - 1] = P[m - 1]
  BY <1>3, <1>4
<1>7. Remembers(U, Q, E)'
  BY <1>1, <1>2, <1>3, <1>4, <1>6 DEF Remembers
<1> QED
  BY <1>5, <1>7 DEF EvIInv

(***************************************************************************)
(* The engine.                                                             *)
(***************************************************************************)
LEMMA NoEngineIs ==
    /\ Engine(NoEngine) /\ ~NoEngine.open /\ NoEngine.done = 0
BY DEF NoEngine, Engine

LEMMA RebuiltIs ==
    ASSUME Len(events) \in Nat
    PROVE  /\ Engine(Rebuilt) /\ Rebuilt.open /\ Rebuilt.done = 0
           /\ Rebuilt.tools = <<>> /\ Rebuilt.parts = <<>> /\ Rebuilt.pend = {}
<1>1. PICK x : x = [open |-> TRUE, done |-> 0, from |-> Len(events), used |-> FALSE, tools |-> <<>>, parts |-> <<>>, pend |-> {}]
  OBVIOUS
<1>2. x = Rebuilt
  <2>1. PICK zero, none, shut, nil : zero = 0 /\ none = <<>> /\ shut = FALSE /\ nil = {}
    OBVIOUS
  <2>2. PICK z : z = [open |-> shut, done |-> zero, from |-> zero, used |-> shut, tools |-> none, parts |-> none, pend |-> nil]
    OBVIOUS
  <2>3. PICK t, n : t = TRUE /\ n = Len(events)
    OBVIOUS
  <2>4. PICK y : y = [open |-> t, done |-> zero, from |-> n, used |-> shut, tools |-> none, parts |-> none, pend |-> nil]
    OBVIOUS
  <2>5. PICK w : w = [z EXCEPT !.open = t]
    OBVIOUS
  <2>6. w = [open |-> t, done |-> zero, from |-> zero, used |-> shut, tools |-> none, parts |-> none, pend |-> nil]
    BY <2>2, <2>5
  <2>7. y = [w EXCEPT !.from = n]
    BY <2>4, <2>6
  <2>8. x = y
    BY <1>1, <2>1, <2>3, <2>4
  <2>9. z = NoEngine
    BY <2>1, <2>2 DEF NoEngine
  <2> QED
    BY <2>3, <2>5, <2>7, <2>8, <2>9 DEF Rebuilt
<1>3. Engine(x) /\ x.open /\ x.done = 0 /\ x.tools = <<>> /\ x.parts = <<>> /\ x.pend = {}
  BY <1>1 DEF Engine
<1> QED
  BY <1>2, <1>3

LEMMA RebuildKeeps ==
    ASSUME EvIInv, Rebuild
    PROVE  EvIInv'
<1>1. EvTyped /\ eng' = Rebuilt /\ UNCHANGED <<events, queued, marks>>
  BY DEF EvIInv, Rebuild
<1>2. PICK T, P, D : Remembers(T, P, D)
  BY DEF EvIInv
<1>3. Len(events) \in Nat
  BY <1>1 DEF EvTyped
<1>4. Engine(Rebuilt) /\ Rebuilt.done = 0 /\ Rebuilt.tools = <<>> /\ Rebuilt.parts = <<>> /\ Rebuilt.pend = {}
  BY <1>3, RebuiltIs
<1>5. EvTyped'
  BY <1>1, <1>3, <1>4 DEF EvTyped, Engine
<1>6. Remembers(T, P, D)'
  BY <1>1, <1>2, <1>4 DEF Remembers, History
<1> QED
  BY <1>5, <1>6 DEF EvIInv

LEMMA GoneKeeps ==
    ASSUME EvIInv, eng' = NoEngine, queued \subseteq queued', UNCHANGED <<events, marks>>
    PROVE  EvIInv'
<1>1. EvTyped
  BY DEF EvIInv
<1>2. PICK T, P, D : Remembers(T, P, D)
  BY DEF EvIInv
<1>3. EvTyped'
  BY <1>1, NoEngineIs DEF EvTyped, Engine
<1>4. Remembers(T, P, D)'
  BY <1>2, NoEngineIs DEF Remembers, History
<1> QED
  BY <1>3, <1>4 DEF EvIInv

LEMMA HandleIs ==
    ASSUME EvTyped, Handle
    PROVE  /\ eng.open /\ eng.done + 1 \in 1..Len(events) /\ events[eng.done + 1] \in HostEvents
           /\ UNCHANGED events
           /\ Engine(eng') /\ eng'.done = eng.done + 1
           /\ eng'.tools = ToolsAfter(eng.tools, eng.pend, events[eng.done + 1])
           /\ eng'.parts = PartsAfter(eng.parts, eng.pend, eng.done + 1, events[eng.done + 1], events)
           /\ eng'.pend = PendAfter(eng.pend, eng.done + 1, events[eng.done + 1])
           /\ \/ UNCHANGED <<queued, marks>>
              \/ /\ queued' = queued \cup {IdleKey(eng.tools, eng.parts)} /\ marks' = marks \cup {eng.done + 1}
<1>1. /\ eng.open /\ eng.done \in Nat /\ eng.done < Len(events) /\ events \in Seq(HostEvents) /\ UNCHANGED events /\ Engine(eng)
      /\ Len(events) \in Nat
  BY DEF EvTyped, Handle
<1>2. PICK n : n = eng.done + 1
  OBVIOUS
<1>3. n \in 1..Len(events) /\ events[n] \in HostEvents
  BY <1>1, <1>2
<1>4. PICK e : e = Noted(eng, n, events[n])
  OBVIOUS
<1>5. /\ Engine(e) /\ e.tools = ToolsAfter(eng.tools, eng.pend, events[n])
      /\ e.parts = PartsAfter(eng.parts, eng.pend, n, events[n], events)
      /\ e.pend = PendAfter(eng.pend, n, events[n])
  BY <1>1, <1>3, <1>4, NotedIs
<1>6. PICK open, done, from, used, tools, parts, pend :
          /\ e = [open |-> open, done |-> done, from |-> from, used |-> used, tools |-> tools, parts |-> parts, pend |-> pend]
          /\ tools = e.tools /\ parts = e.parts /\ pend = e.pend /\ from \in Nat
  BY <1>5 DEF Engine
<1>7. PICK x : x = [open |-> open, done |-> n, from |-> from, used |-> used, tools |-> tools, parts |-> parts, pend |-> pend]
  OBVIOUS
<1>8. eng' = x
  BY <1>2, <1>4, <1>6, <1>7 DEF Handle
<1>9. Engine(x) /\ x.done = n /\ x.tools = tools /\ x.parts = parts /\ x.pend = pend
  BY <1>3, <1>6, <1>7 DEF Engine
<1>10. \/ UNCHANGED <<queued, marks>>
       \/ queued' = queued \cup {IdleKey(eng.tools, eng.parts)} /\ marks' = marks \cup {n}
  BY <1>2, KeyIs DEF Handle, QueueCheckpoint
<1>11. Engine(eng')
  BY <1>8, <1>9
<1> QED
  BY <1>1, <1>2, <1>3, <1>5, <1>6, <1>8, <1>9, <1>10, <1>11

LEMMA HandleKeeps ==
    ASSUME EvIInv, Handle
    PROVE  EvIInv'
<1>1. EvTyped
  BY DEF EvIInv
<1>2. PICK T, P, D : Remembers(T, P, D)
  BY DEF EvIInv
<1>3. PICK n : n = eng.done + 1
  OBVIOUS
<1>4. /\ eng.open /\ n \in 1..Len(events) /\ UNCHANGED events
      /\ Engine(eng') /\ eng'.done = n
      /\ eng'.tools = ToolsAfter(eng.tools, eng.pend, events[n])
      /\ eng'.parts = PartsAfter(eng.parts, eng.pend, n, events[n], events)
      /\ eng'.pend = PendAfter(eng.pend, n, events[n])
      /\ \/ UNCHANGED <<queued, marks>>
         \/ queued' = queued \cup {IdleKey(eng.tools, eng.parts)} /\ marks' = marks \cup {n}
  BY <1>1, <1>3, HandleIs
<1>5. n - 1 = eng.done /\ n \in Nat /\ Len(events) \in Nat
  BY <1>1, <1>3, <1>4 DEF EvTyped
<1>6. eng.tools = T[n - 1] /\ eng.parts = P[n - 1] /\ eng.pend = D[n - 1]
  BY <1>2, <1>4, <1>5 DEF Remembers
<1>7. eng'.tools = T[n] /\ eng'.parts = P[n] /\ eng'.pend = D[n]
  BY <1>2, <1>4, <1>6 DEF Remembers, History
<1>8. EvTyped'
  <2>1. marks' \subseteq 1..Len(events)
    BY <1>1, <1>4 DEF EvTyped
  <2> QED
    BY <1>1, <1>4, <1>5, <2>1 DEF EvTyped, Engine
<1>9. \A m \in marks' : IdleKey(T[m - 1], P[m - 1]) \in queued'
  BY <1>2, <1>4, <1>6 DEF Remembers
<1>10. Remembers(T, P, D)'
  BY <1>2, <1>4, <1>7, <1>9 DEF Remembers, History
<1> QED
  BY <1>8, <1>10 DEF EvIInv

-----------------------------------------------------------------------------
LEMMA EvInitially ==
    ASSUME EvInit
    PROVE  EvIInv
<1>1. events = <<>> /\ Len(events) = 0 /\ eng = NoEngine /\ marks = {}
  BY DEF EvInit
<1>2. EvTyped
  BY <1>1, NoEngineIs DEF EvTyped
<1>3. PICK T, D : T = [k \in {0} |-> <<>>] /\ D = [k \in {0} |-> {}]
  OBVIOUS
<1>4. History(events, T, T, D)
  BY <1>1, <1>3 DEF History
<1>5. Remembers(T, T, D)
  BY <1>1, <1>4, NoEngineIs DEF Remembers
<1> QED
  BY <1>2, <1>5 DEF EvIInv

LEMMA EvStepKeeps ==
    ASSUME EvIInv, [EvNext]_evVars
    PROVE  EvIInv'
<1>1. CASE \E event \in HostEvents : Happens(event)
  BY <1>1, HappensKeeps
<1>2. CASE Rebuild
  BY <1>2, RebuildKeeps
<1>3. CASE Handle
  BY <1>3, HandleKeeps
<1>4. CASE SessionEnds \/ ProcessDies
  <2>1. eng' = NoEngine /\ queued \subseteq queued' /\ UNCHANGED <<events, marks>>
    BY <1>4 DEF SessionEnds, ProcessDies, QueueCheckpoint
  <2> QED
    BY <2>1, GoneKeeps
<1>5. CASE UNCHANGED evVars
  <2>1. UNCHANGED <<events, eng, queued, marks>>
    BY <1>5 DEF evVars
  <2>2. EvTyped'
    BY <2>1 DEF EvIInv, EvTyped, Engine
  <2>3. PICK T, P, D : Remembers(T, P, D)
    BY DEF EvIInv
  <2>4. History(events, T, P, D)'
    BY <2>1, <2>3 DEF Remembers, History
  <2>5. Remembers(T, P, D)'
    BY <2>1, <2>3, <2>4 DEF Remembers
  <2> QED
    BY <2>2, <2>5 DEF EvIInv
<1> QED
  BY <1>1, <1>2, <1>3, <1>4, <1>5 DEF EvNext

(***************************************************************************)
(* What an engine holds is what the log makes of it, and the queue has the *)
(* key of every turn that was checkpointed: an invariant, over crashes,    *)
(* ends and replays (Rebuild, Handle).                                     *)
(***************************************************************************)
THEOREM EvidenceInvariant == EvSpec => []EvIInv
<1> QED
  BY EvInitially, EvStepKeeps, PTL DEF EvSpec

LEMMA NothingNewStep ==
    ASSUME EvIInv, EvNext, NEW m \in marks, NEW n \in marks' \ marks, m < n, \A k \in m..n : events[k].type = "turn"
    PROVE  queued' = queued
<1>1. EvTyped
  BY DEF EvIInv
<1>2. PICK T, P, D : Remembers(T, P, D)
  BY DEF EvIInv
<1>3. Handle
  BY DEF EvNext, Happens, Rebuild, SessionEnds, ProcessDies
<1>4. n = eng.done + 1 /\ eng.open /\ n \in 1..Len(events) /\ queued' = queued \cup {IdleKey(eng.tools, eng.parts)}
  BY <1>1, <1>3, HandleIs
<1>5. m \in 1..Len(events) /\ eng.done \in Nat /\ Len(events) \in Nat /\ n - 1 = eng.done
  BY <1>1, <1>4 DEF EvTyped
<1>6. m - 1 \in 0..Len(events) /\ n - 1 \in 0..Len(events) /\ m - 1 <= n - 1 /\ \A k \in (m - 1) + 1..n - 1 : events[k].type = "turn"
  BY <1>4, <1>5
<1>7. T[n - 1] = T[m - 1] /\ P[n - 1] = P[m - 1]
  BY <1>2, <1>6 DEF Remembers, History
<1>8. eng.tools = T[n - 1] /\ eng.parts = P[n - 1]
  BY <1>2, <1>4, <1>5 DEF Remembers
<1>9. IdleKey(eng.tools, eng.parts) \in queued
  BY <1>2, <1>7, <1>8 DEF Remembers
<1> QED
  BY <1>4, <1>9

(***************************************************************************)
(* A turn that ends with nothing new since an earlier checkpoint queues no *)
(* other, also when the engine was rebuilt in between (Handle, Key).       *)
(***************************************************************************)
THEOREM NothingNewNothingQueuedHolds == EvSpec => NothingNewNothingQueued
<1>1. EvIInv /\ [EvNext]_evVars =>
        [\A m \in marks, n \in marks' \ marks :
            (m < n /\ \A k \in m..n : events[k].type = "turn") => queued' = queued]_evVars
  <2> SUFFICES ASSUME EvIInv, EvNext, NEW m \in marks, NEW n \in marks' \ marks, m < n, \A k \in m..n : events[k].type = "turn"
               PROVE  queued' = queued
    OBVIOUS
  <2> QED
    BY NothingNewStep
<1> QED
  BY <1>1, EvidenceInvariant, PTL DEF EvSpec, NothingNewNothingQueued

\* The last n of a sequence.
LEMMA LastOfIs ==
    ASSUME NEW S, NEW s \in Seq(S), NEW n \in Nat
    PROVE  /\ LastOf(s, n) \in Seq(S) /\ Len(LastOf(s, n)) \in Nat
           /\ Len(LastOf(s, n)) = IF Len(s) > n THEN n ELSE Len(s)
           /\ \A i \in 1..Len(LastOf(s, n)) : LastOf(s, n)[i] = s[i + (Len(s) - Len(LastOf(s, n)))]
<1>1. Len(s) \in Nat
  OBVIOUS
<1>2. CASE Len(s) > n
  <2>1. PICK m : m = Len(s) - n + 1
    OBVIOUS
  <2>2. m \in 1..Len(s) + 1 /\ m \in Int
    BY <1>1, <1>2, <2>1
  <2>3. PICK p : p = SubSeq(s, m, Len(s))
    OBVIOUS
  <2>4. p \in Seq(S) /\ Len(p) = Len(s) - m + 1 /\ \A i \in 1..Len(s) - m + 1 : p[i] = s[m + i - 1]
    BY <1>1, <2>2, <2>3, SubSeqProperties
  <2>5. Len(p) = n
    BY <1>1, <2>1, <2>4
  <2>6. \A i \in 1..n : m + i - 1 = i + (Len(s) - n)
    BY <1>1, <2>1
  <2>7. LastOf(s, n) = p
    BY <1>2, <2>1, <2>3 DEF LastOf
  <2>8. \A i \in 1..n : p[i] = s[i + (Len(s) - n)]
    BY <2>4, <2>5, <2>6
  <2> QED
    BY <1>2, <2>4, <2>5, <2>7, <2>8
<1>3. CASE ~(Len(s) > n)
  <2>1. LastOf(s, n) = s
    BY <1>3 DEF LastOf
  <2>2. \A i \in 1..Len(s) : i + (Len(s) - Len(s)) = i
    BY <1>1
  <2> QED
    BY <1>1, <1>3, <2>1, <2>2
<1> QED
  BY <1>2, <1>3

\* To forget the oldest each time is to forget them at the end.
LEMMA LastOfLast ==
    ASSUME NEW S, NEW s \in Seq(S), NEW x \in S, NEW n \in Nat \ {0}
    PROVE  LastOf(Append(LastOf(s, n), x), n) = LastOf(Append(s, x), n)
<1>1. Len(s) \in Nat
  OBVIOUS
<1>2. CASE Len(s) <= n
  BY <1>1, <1>2 DEF LastOf
<1>3. CASE Len(s) > n
  <2>1. PICK l : l = LastOf(s, n)
    OBVIOUS
  <2>2. l \in Seq(S) /\ Len(l) = n /\ \A i \in 1..n : l[i] = s[i + (Len(s) - n)]
    BY <1>3, <2>1, LastOfIs
  <2>3. PICK p : p = Append(l, x)
    OBVIOUS
  <2>4. p \in Seq(S) /\ Len(p) = n + 1 /\ p[n + 1] = x /\ \A i \in 1..n : p[i] = l[i]
    BY <2>2, <2>3, AppendProperties
  <2>5. PICK q : q = Append(s, x)
    OBVIOUS
  <2>6. q \in Seq(S) /\ Len(q) = Len(s) + 1 /\ q[Len(s) + 1] = x /\ \A i \in 1..Len(s) : q[i] = s[i]
    BY <2>5, AppendProperties
  <2>7. PICK a : a = LastOf(p, n)
    OBVIOUS
  <2>8. a \in Seq(S) /\ Len(a) = n /\ \A i \in 1..n : a[i] = p[i + 1]
    <3>1. Len(p) > n
      BY <2>4
    <3>2. a \in Seq(S) /\ Len(a) = n /\ \A i \in 1..n : a[i] = p[i + ((n + 1) - n)]
      BY <2>4, <2>7, <3>1, LastOfIs
    <3>3. (n + 1) - n = 1
      OBVIOUS
    <3> QED
      BY <3>2, <3>3
  <2>9. PICK b : b = LastOf(q, n)
    OBVIOUS
  <2>10. b \in Seq(S) /\ Len(b) = n /\ \A i \in 1..n : b[i] = q[i + ((Len(s) + 1) - n)]
    <3>1. Len(q) > n
      BY <1>1, <1>3, <2>6
    <3> QED
      BY <2>6, <2>9, <3>1, LastOfIs
  <2>11. ASSUME NEW i \in 1..n PROVE a[i] = b[i]
    <3>1. CASE i = n
      <4>1. a[i] = x
        BY <2>4, <2>8, <3>1
      <4>2. i + ((Len(s) + 1) - n) = Len(s) + 1
        BY <1>1, <3>1
      <4> QED
        BY <2>6, <2>10, <4>1, <4>2
    <3>2. CASE i < n
      <4>1. i + 1 \in 1..n /\ (i + 1) + (Len(s) - n) = i + ((Len(s) + 1) - n) /\ i + ((Len(s) + 1) - n) \in 1..Len(s)
        BY <1>1, <1>3, <3>2
      <4>2. a[i] = s[(i + 1) + (Len(s) - n)]
        BY <2>2, <2>4, <2>8, <4>1
      <4>3. b[i] = s[i + ((Len(s) + 1) - n)]
        BY <2>6, <2>10, <4>1
      <4> QED
        BY <4>1, <4>2, <4>3
    <3> QED
      BY <3>1, <3>2
  <2>12. a = b
    BY <2>8, <2>10, <2>11, SeqEqual
  <2> QED
    BY <2>1, <2>3, <2>5, <2>7, <2>9, <2>12
<1> QED
  BY <1>1, <1>2, <1>3

\* The numbers up to n are a sequence.
Numbers(n) == [i \in 1..n |-> i]
LEMMA NumbersAre ==
    ASSUME NEW n \in Nat
    PROVE  /\ Numbers(n) \in Seq(Nat) /\ Len(Numbers(n)) = n /\ Increasing(Numbers(n))
           /\ \A i \in 1..n : Numbers(n)[i] = i
           /\ ToSet(Numbers(n)) = 1..n
<1>1. PICK s : s = Numbers(n)
  OBVIOUS
<1>2. s \in Seq(Nat) /\ Len(s) = n /\ DOMAIN s = 1..n /\ \A i \in 1..n : s[i] = i
  <2>1. s \in [1..n -> Nat]
    BY <1>1 DEF Numbers
  <2> QED
    BY <1>1, <2>1 DEF Numbers
<1>3. Increasing(s)
  BY <1>2 DEF Increasing
<1>4. ToSet(s) = 1..n
  BY <1>2 DEF ToSet
<1> QED
  BY <1>1, <1>2, <1>3, <1>4

\* The events of a set, in order.
LEMMA EventsInIs ==
    ASSUME events \in Seq(HostEvents), NEW set \in SUBSET (1..Len(events))
    PROVE  /\ EventsIn(set) \in Seq(Nat) /\ Increasing(EventsIn(set)) /\ ToSet(EventsIn(set)) = set
<1>1. Len(events) \in Nat
  OBVIOUS
<1>2. EventsIn(set) = Kept(Numbers(Len(events)), set)
  BY DEF EventsIn, Numbers
<1>3. PICK s : s = Numbers(Len(events))
  OBVIOUS
<1>4. s \in Seq(Nat) /\ Increasing(s) /\ ToSet(s) = 1..Len(events)
  BY <1>1, <1>3, NumbersAre
<1> QED
  BY <1>2, <1>3, <1>4, KeptIs

LEMMA EventsSoFar ==
    ASSUME events \in Seq(HostEvents), NEW set
    PROVE  \E K : /\ K[0] = <<>> /\ K[Len(events)] = EventsIn(set)
                  /\ \A k \in 0..Len(events) : K[k] \in Seq(Nat)
                  /\ \A k \in 1..Len(events) : K[k] = IF k \in set THEN Append(K[k - 1], k) ELSE K[k - 1]
<1>1. Len(events) \in Nat
  OBVIOUS
<1>2. PICK s : s = Numbers(Len(events))
  OBVIOUS
<1>3. s \in Seq(Nat) /\ Increasing(s) /\ Len(s) = Len(events) /\ \A i \in 1..Len(events) : s[i] = i
  BY <1>1, <1>2, NumbersAre
<1>4. PICK K : K = KeptUpTo(s, set)
  OBVIOUS
<1>5. K[0] = <<>> /\ \A i \in 1..Len(s) : K[i] = IF s[i] \in set THEN Append(K[i - 1], s[i]) ELSE K[i - 1]
  BY <1>1, <1>3, <1>4, KeptUpToIs
<1>6. \A k \in 0..Len(events) : K[k] \in Seq(Nat)
  BY <1>3, <1>4, KeptSoFar DEF KeepsUpTo
<1>7. K[Len(events)] = EventsIn(set)
  BY <1>2, <1>3, <1>4 DEF EventsIn, Numbers, Kept
<1> QED
  BY <1>3, <1>5, <1>6, <1>7

(***************************************************************************)
(* What the log made of a session is what its log says.                    *)
(***************************************************************************)
\* An end is of an earlier summary, and of no other end's.
EndsFit ==
    \A n \in 1..Len(events) : events[n].type = "end" =>
        /\ events[n].of \in 1..n - 1 /\ events[events[n].of].type = "summary"
        /\ \A i \in 1..n - 1 : events[i].type = "end" => events[i].of # events[n].of

\* A compaction that ended well was open until then.
LEMMA SettlingIs ==
    ASSUME events \in Seq(HostEvents), EndsFit, NEW T, NEW P, NEW D, History(events, T, P, D),
           NEW n \in 1..Len(events)
    PROVE  Settling(D[n - 1], events[n]) <=> SettledAt(n)
<1>1. Len(events) \in Nat
  OBVIOUS
<1> DEFINE OpenAt(k) == \A m \in 1..k : events[m].type = "summary" /\ (\A i \in 1..k : events[i].type = "end" => events[i].of # m) => m \in D[k]
           Good == {k \in Nat : k <= Len(events) => OpenAt(k)}
<1>2. 0 \in Good
  OBVIOUS
<1>3. ASSUME NEW k \in Nat, k \in Good PROVE k + 1 \in Good
  <2> SUFFICES ASSUME k + 1 <= Len(events), NEW m \in 1..k + 1, events[m].type = "summary",
                      \A i \in 1..k + 1 : events[i].type = "end" => events[i].of # m
               PROVE  m \in D[k + 1]
    OBVIOUS
  <2>1. k + 1 \in 1..Len(events) /\ (k + 1) - 1 = k /\ OpenAt(k)
    BY <1>1, <1>3
  <2>2. D[k + 1] = PendAfter(D[k], k + 1, events[k + 1])
    BY <2>1 DEF History
  <2>3. CASE m = k + 1
    BY <2>2, <2>3 DEF PendAfter
  <2>4. CASE m \in 1..k
    <3>1. m \in D[k]
      BY <2>1, <2>4
    <3>2. events[k + 1].type = "end" => events[k + 1].of # m
      OBVIOUS
    <3> QED
      BY <2>2, <3>1, <3>2 DEF PendAfter, Settling
  <2> QED
    BY <2>3, <2>4
<1> HIDE DEF Good, OpenAt
<1>4. n - 1 \in Nat /\ n - 1 <= Len(events)
  BY <1>1
<1>5. n - 1 \in Good
  BY <1>2, <1>3, <1>4, EveryNumber
<1>6. OpenAt(n - 1)
  BY <1>4, <1>5 DEF Good
<1>7. events[n].type = "end" => events[n].of \in D[n - 1]
  BY <1>6 DEF EndsFit, OpenAt
<1> QED
  BY <1>7 DEF Settling, SettledAt

\* What is listed: the newest of the tool calls and the summaries.
Items(q) == [i \in 1..Len(q) |-> ListedItem(q[i])]
AnyItem == {ListedItem(n) : n \in Nat}
LEMMA ItemsGrow ==
    ASSUME NEW q \in Seq(Nat), NEW n \in Nat
    PROVE  /\ Items(q) \in Seq(AnyItem) /\ ListedItem(n) \in AnyItem
           /\ Items(Append(q, n)) = Append(Items(q), ListedItem(n))
<1>1. PICK p : p = Append(q, n)
  OBVIOUS
<1>2. /\ Len(q) \in Nat /\ p \in Seq(Nat) /\ Len(p) = Len(q) + 1 /\ p[Len(q) + 1] = n
      /\ \A i \in 1..Len(q) : p[i] = q[i] /\ q[i] \in Nat
  BY <1>1, AppendProperties
<1>3. \A i \in Nat : ListedItem(i) \in AnyItem
  BY DEF AnyItem
<1>4. Items(q) \in Seq(AnyItem) /\ Len(Items(q)) = Len(q) /\ \A i \in 1..Len(q) : Items(q)[i] = ListedItem(q[i])
  <2>1. Items(q) \in [1..Len(q) -> AnyItem]
    BY <1>2, <1>3 DEF Items
  <2> QED
    BY <1>2, <2>1 DEF Items
<1>5. Items(p) \in Seq(AnyItem) /\ Len(Items(p)) = Len(p) /\ \A i \in 1..Len(p) : Items(p)[i] = ListedItem(p[i])
  <2>1. \A i \in 1..Len(p) : p[i] \in Nat
    BY <1>2
  <2>2. Items(p) \in [1..Len(p) -> AnyItem]
    BY <1>3, <2>1 DEF Items
  <2> QED
    BY <1>2, <2>2 DEF Items
<1>6. PICK a, b : a = Append(Items(q), ListedItem(n)) /\ b = Items(p)
  OBVIOUS
<1>7. a \in Seq(AnyItem) /\ Len(a) = Len(q) + 1 /\ a[Len(q) + 1] = ListedItem(n) /\ \A i \in 1..Len(q) : a[i] = ListedItem(q[i])
  BY <1>3, <1>4, <1>6, AppendProperties
<1>8. \A i \in 1..Len(q) + 1 : a[i] = b[i]
  <2>1. ASSUME NEW i \in 1..Len(q) + 1 PROVE a[i] = b[i]
    <3>1. CASE i = Len(q) + 1
      BY <1>2, <1>5, <1>6, <1>7, <3>1
    <3>2. CASE i \in 1..Len(q)
      BY <1>2, <1>5, <1>6, <1>7, <3>2
    <3> QED
      BY <1>2, <3>1, <3>2
  <2> QED
    BY <2>1
<1>9. a = b
  BY <1>2, <1>5, <1>6, <1>7, <1>8, SeqEqual
<1> QED
  BY <1>1, <1>3, <1>4, <1>6, <1>9

LEMMA ToolsAreListed ==
    ASSUME events \in Seq(HostEvents), EndsFit, NEW T, NEW P, NEW D, History(events, T, P, D)
    PROVE  T[Len(events)] = LastOf(Items(EventsIn({n \in 1..Len(events) : Listed(n)})), ItemLimit)
<1>1. Len(events) \in Nat /\ ItemLimit \in Nat \ {0}
  BY EvidenceAssumption
<1>2. PICK set : set = {n \in 1..Len(events) : Listed(n)}
  OBVIOUS
<1>3. PICK K : /\ K[0] = <<>> /\ K[Len(events)] = EventsIn(set)
               /\ \A k \in 0..Len(events) : K[k] \in Seq(Nat)
               /\ \A k \in 1..Len(events) : K[k] = IF k \in set THEN Append(K[k - 1], k) ELSE K[k - 1]
  BY EventsSoFar
<1> DEFINE Good == {k \in Nat : k <= Len(events) => T[k] = LastOf(Items(K[k]), ItemLimit)}
<1>4. 0 \in Good
  <2>1. Items(<<>>) = <<>>
    BY DEF Items
  <2>2. LastOf(<<>>, ItemLimit) = <<>>
    BY <1>1 DEF LastOf
  <2>3. T[0] = <<>>
    BY DEF History
  <2> QED
    BY <1>3, <2>1, <2>2, <2>3
<1>5. ASSUME NEW k \in Nat, k \in Good PROVE k + 1 \in Good
  <2> SUFFICES ASSUME k + 1 <= Len(events) PROVE T[k + 1] = LastOf(Items(K[k + 1]), ItemLimit)
    OBVIOUS
  <2>1. k + 1 \in 1..Len(events) /\ (k + 1) - 1 = k /\ k \in 0..Len(events)
    BY <1>1
  <2>2. T[k] = LastOf(Items(K[k]), ItemLimit) /\ K[k] \in Seq(Nat)
    BY <1>3, <1>5, <2>1
  <2>3. T[k + 1] = ToolsAfter(T[k], D[k], events[k + 1])
    BY <2>1 DEF History
  <2>4. Settling(D[k], events[k + 1]) <=> SettledAt(k + 1)
    BY <2>1, SettlingIs
  <2>5. CASE Listed(k + 1)
    <3>1. K[k + 1] = Append(K[k], k + 1)
      BY <1>2, <1>3, <2>1, <2>5
    <3>2. Items(K[k + 1]) = Append(Items(K[k]), ListedItem(k + 1)) /\ Items(K[k]) \in Seq(AnyItem) /\ ListedItem(k + 1) \in AnyItem
      BY <2>2, <3>1, ItemsGrow
    <3>3. LastOf(Items(K[k + 1]), ItemLimit) = LastOf(Append(T[k], ListedItem(k + 1)), ItemLimit)
      BY <1>1, <2>2, <3>2, LastOfLast
    <3>4. T[k + 1] = LastOf(Append(T[k], ListedItem(k + 1)), ItemLimit)
      BY <2>3, <2>4, <2>5 DEF ToolsAfter, Listed, ListedItem, SettledAt
    <3> QED
      BY <3>3, <3>4
  <2>6. CASE ~Listed(k + 1)
    <3>1. K[k + 1] = K[k]
      BY <1>2, <1>3, <2>1, <2>6
    <3>2. T[k + 1] = T[k]
      BY <2>3, <2>4, <2>6 DEF ToolsAfter, Listed
    <3> QED
      BY <2>2, <3>1, <3>2
  <2> QED
    BY <2>5, <2>6
<1> HIDE DEF Good
<1>6. Len(events) \in Good
  BY <1>1, <1>4, <1>5, EveryNumber
<1>7. T[Len(events)] = LastOf(Items(K[Len(events)]), ItemLimit)
  BY <1>1, <1>6 DEF Good
<1> QED
  BY <1>2, <1>3, <1>7

\* The parts after k events: messages that nothing has shadowed, in order, and
\* one that is neither there nor shadowed has as many after it as there may be.
IsMessage(n) == events[n].type = "message"
Shadows(n, m) == \/ events[n].type = "prune" /\ m <= events[n].upto
                 \/ SettledAt(n) /\ m <= events[events[n].of].upto
ShadowedBy(m, k) == \E n \in m..k : Shadows(n, m)
Behind(m, k) ==
    \E q \in Seq(Nat) : /\ Len(q) = PartsLimit /\ Increasing(q)
                        /\ \A i \in 1..Len(q) : q[i] \in m + 1..k /\ IsMessage(q[i])
PartsAt(p, k) ==
    /\ p \in Seq(Nat) /\ Increasing(p)
    /\ \A i \in 1..Len(p) : p[i] \in 1..k /\ IsMessage(p[i]) /\ ~ShadowedBy(p[i], k)
    /\ \A m \in 1..k : IsMessage(m) => (\E i \in 1..Len(p) : p[i] = m) \/ ShadowedBy(m, k) \/ Behind(m, k)

LEMMA ShadowGrows ==
    ASSUME NEW k \in Nat, NEW m \in 1..k
    PROVE  ShadowedBy(m, k + 1) <=> ShadowedBy(m, k) \/ Shadows(k + 1, m)
<1>1. \A n : n \in m..k + 1 <=> n \in m..k \/ n = k + 1
  OBVIOUS
<1> QED
  BY <1>1 DEF ShadowedBy

LEMMA BehindStays ==
    ASSUME NEW k \in Nat, NEW m \in 1..k, Behind(m, k)
    PROVE  Behind(m, k + 1)
<1>1. m + 1..k \subseteq m + 1..k + 1
  OBVIOUS
<1> QED
  BY <1>1 DEF Behind

\* An event that is not a message leaves what it does not shadow.
LEMMA PartsLeft ==
    ASSUME NEW k \in Nat, NEW p, PartsAt(p, k), ~IsMessage(k + 1),
           NEW r \in Seq(Nat), Increasing(r),
           \A m : (\E i \in 1..Len(r) : r[i] = m) <=> (\E i \in 1..Len(p) : p[i] = m) /\ ~Shadows(k + 1, m)
    PROVE  PartsAt(r, k + 1)
<1>1. ASSUME NEW i \in 1..Len(r) PROVE r[i] \in 1..k + 1 /\ IsMessage(r[i]) /\ ~ShadowedBy(r[i], k + 1)
  <2>1. PICK j \in 1..Len(p) : p[j] = r[i]
    OBVIOUS
  <2>2. ~Shadows(k + 1, r[i])
    OBVIOUS
  <2>3. r[i] \in 1..k /\ IsMessage(r[i]) /\ ~ShadowedBy(r[i], k)
    BY <2>1 DEF PartsAt
  <2>4. ~ShadowedBy(r[i], k + 1)
    BY <2>2, <2>3, ShadowGrows
  <2> QED
    BY <2>3, <2>4
<1>2. ASSUME NEW m \in 1..k + 1, IsMessage(m)
      PROVE  (\E i \in 1..Len(r) : r[i] = m) \/ ShadowedBy(m, k + 1) \/ Behind(m, k + 1)
  <2>1. m \in 1..k
    BY <1>2
  <2>2. (\E i \in 1..Len(p) : p[i] = m) \/ ShadowedBy(m, k) \/ Behind(m, k)
    BY <1>2, <2>1 DEF PartsAt
  <2> QED
    BY <2>1, <2>2, ShadowGrows, BehindStays
<1> QED
  BY <1>1, <1>2 DEF PartsAt

\* A message joins, and may push the oldest out.
LEMMA PartsJoin ==
    ASSUME NEW k \in Nat, NEW p, PartsAt(p, k), IsMessage(k + 1)
    PROVE  PartsAt(LastOf(Append(p, k + 1), PartsLimit), k + 1)
<1>1. PartsLimit \in Nat \ {0} /\ PartsLimit \in Nat
  BY EvidenceAssumption
<1>2. p \in Seq(Nat) /\ Increasing(p) /\ Len(p) \in Nat /\ \A i \in 1..Len(p) : p[i] \in 1..k /\ p[i] < k + 1
  BY DEF PartsAt
<1>3. PICK a : a = Append(p, k + 1)
  OBVIOUS
<1>4. /\ a \in Seq(Nat) /\ Increasing(a) /\ Len(a) = Len(p) + 1
      /\ a[Len(p) + 1] = k + 1 /\ \A i \in 1..Len(p) : a[i] = p[i]
  BY <1>2, <1>3, AppendGrows
<1>5. PICK r : r = LastOf(a, PartsLimit)
  OBVIOUS
<1>6. PICK gap : gap = Len(a) - Len(r)
  OBVIOUS
<1>7. /\ r \in Seq(Nat) /\ Len(r) \in Nat /\ gap \in Nat /\ Len(r) + gap = Len(p) + 1 /\ Len(r) >= 1
      /\ (gap > 0 => Len(r) = PartsLimit) /\ \A i \in 1..Len(r) : r[i] = a[i + gap]
  <2>1. /\ r \in Seq(Nat) /\ Len(r) \in Nat
        /\ Len(r) = IF Len(a) > PartsLimit THEN PartsLimit ELSE Len(a)
        /\ \A i \in 1..Len(r) : r[i] = a[i + (Len(a) - Len(r))]
    BY <1>1, <1>4, <1>5, LastOfIs
  <2>2. gap \in Nat /\ Len(r) + gap = Len(p) + 1 /\ Len(r) >= 1 /\ (gap > 0 => Len(r) = PartsLimit)
    BY <1>1, <1>2, <1>4, <1>6, <2>1
  <2> QED
    BY <1>6, <2>1, <2>2
<1>8. Increasing(r)
  <2>1. ASSUME NEW i \in 1..Len(r), NEW j \in 1..Len(r), i < j PROVE r[i] < r[j]
    <3>1. i \in Nat /\ j \in Nat /\ i + gap \in 1..Len(a) /\ j + gap \in 1..Len(a)
      BY <1>2, <1>4, <1>7
    <3>2. i + gap < j + gap
      BY <1>7, <2>1, <3>1
    <3> QED
      BY <1>4, <1>7, <3>1, <3>2 DEF Increasing
  <2> QED
    BY <2>1 DEF Increasing
<1>9. ASSUME NEW m \in 1..k + 1 PROVE ~Shadows(k + 1, m)
  BY DEF Shadows, SettledAt, IsMessage
<1>10. ASSUME NEW x \in 1..Len(a) PROVE a[x] \in 1..k + 1 /\ IsMessage(a[x]) /\ ~ShadowedBy(a[x], k + 1)
  <2>1. CASE x = Len(p) + 1
    <3>1. \A n : n \in k + 1..k + 1 <=> n = k + 1
      OBVIOUS
    <3>2. ~ShadowedBy(k + 1, k + 1)
      BY <1>9, <3>1 DEF ShadowedBy
    <3> QED
      BY <1>4, <2>1, <3>2
  <2>2. CASE x \in 1..Len(p)
    <3>1. a[x] = p[x] /\ p[x] \in 1..k /\ IsMessage(p[x]) /\ ~ShadowedBy(p[x], k)
      BY <1>4, <2>2 DEF PartsAt
    <3> QED
      BY <1>9, <3>1, ShadowGrows
  <2> QED
    BY <1>2, <1>4, <2>1, <2>2
<1>11. \A i \in 1..Len(r) : r[i] \in 1..k + 1 /\ IsMessage(r[i]) /\ ~ShadowedBy(r[i], k + 1)
  <2>1. \A i \in 1..Len(r) : i + gap \in 1..Len(a)
    BY <1>2, <1>4, <1>7
  <2> QED
    BY <1>7, <1>10, <2>1
<1>12. ASSUME NEW m \in 1..k + 1, IsMessage(m)
       PROVE  (\E i \in 1..Len(r) : r[i] = m) \/ ShadowedBy(m, k + 1) \/ Behind(m, k + 1)
  <2>1. ASSUME NEW x \in 1..Len(a), a[x] = m PROVE (\E i \in 1..Len(r) : r[i] = m) \/ Behind(m, k + 1)
    <3>1. CASE x > gap
      <4>1. x - gap \in 1..Len(r) /\ (x - gap) + gap = x
        BY <1>2, <1>4, <1>7, <2>1, <3>1
      <4> QED
        BY <1>7, <2>1, <4>1
    <3>2. CASE x <= gap
      <4>1. gap > 0
        BY <1>7, <2>1, <3>2
      <4>2. ASSUME NEW i \in 1..Len(r) PROVE r[i] \in m + 1..k + 1
        <5>1. i + gap \in 1..Len(a) /\ x < i + gap
          BY <1>2, <1>4, <1>7, <2>1, <3>2
        <5>2. a[x] < a[i + gap]
          BY <1>4, <2>1, <5>1 DEF Increasing
        <5>3. r[i] \in 1..k + 1 /\ m < r[i]
          BY <1>7, <1>11, <2>1, <5>2
        <5> QED
          BY <5>3
      <4> QED
        BY <1>7, <1>8, <1>11, <4>1, <4>2 DEF Behind
    <3> QED
      BY <1>7, <2>1, <3>1, <3>2
  <2>2. CASE m = k + 1
    <3>1. Len(p) + 1 \in 1..Len(a)
      BY <1>2, <1>4
    <3> QED
      BY <1>4, <2>1, <2>2, <3>1
  <2>3. CASE m \in 1..k
    <3>1. (\E i \in 1..Len(p) : p[i] = m) \/ ShadowedBy(m, k) \/ Behind(m, k)
      BY <1>12, <2>3 DEF PartsAt
    <3>2. ASSUME NEW i \in 1..Len(p), p[i] = m PROVE (\E j \in 1..Len(r) : r[j] = m) \/ Behind(m, k + 1)
      <4>1. i \in 1..Len(a) /\ a[i] = m
        BY <1>2, <1>4, <3>2
      <4> QED
        BY <2>1, <4>1
    <3> QED
      BY <2>3, <3>1, <3>2, ShadowGrows, BehindStays
  <2> QED
    BY <2>2, <2>3
<1> QED
  BY <1>3, <1>5, <1>7, <1>8, <1>11, <1>12 DEF PartsAt

LEMMA PartsStep ==
    ASSUME events \in Seq(HostEvents), EndsFit, NEW T, NEW P, NEW D, History(events, T, P, D),
           NEW k \in Nat, k + 1 <= Len(events), PartsAt(P[k], k)
    PROVE  PartsAt(P[k + 1], k + 1)
<1>1. Len(events) \in Nat /\ k + 1 \in 1..Len(events) /\ (k + 1) - 1 = k
  OBVIOUS
<1>2. P[k + 1] = PartsAfter(P[k], D[k], k + 1, events[k + 1], events)
  BY <1>1 DEF History
<1>3. Settling(D[k], events[k + 1]) <=> SettledAt(k + 1)
  BY <1>1, SettlingIs
<1>4. P[k] \in Seq(Nat) /\ Increasing(P[k])
  BY DEF PartsAt
<1>5. CASE IsMessage(k + 1)
  <2>1. P[k + 1] = LastOf(Append(P[k], k + 1), PartsLimit)
    BY <1>2, <1>5 DEF PartsAfter, IsMessage
  <2> QED
    BY <1>5, <2>1, PartsJoin
<1>6. ASSUME NEW upto, ~IsMessage(k + 1), P[k + 1] = NotShadowed(P[k], upto),
             \A m \in Nat : Shadows(k + 1, m) <=> ~(m > upto)
      PROVE  PartsAt(P[k + 1], k + 1)
  <2>1. PICK p, r : p = P[k] /\ r = P[k + 1]
    OBVIOUS
  <2>2. PICK keep : keep = {n \in ToSet(p) : n > upto}
    OBVIOUS
  <2>3. r = Kept(p, keep)
    BY <1>6, <2>1, <2>2 DEF NotShadowed
  <2>4. r \in Seq(Nat) /\ Increasing(r) /\ ToSet(r) = ToSet(p) \cap keep
    BY <1>4, <2>1, <2>3, KeptIs
  <2>5. DOMAIN p = 1..Len(p) /\ DOMAIN r = 1..Len(r) /\ \A i \in 1..Len(p) : p[i] \in Nat
    BY <1>4, <2>1, <2>4
  <2>6. \A m : (\E i \in 1..Len(r) : r[i] = m) <=> m \in ToSet(r)
    BY <2>5 DEF ToSet
  <2>7. \A m : (\E i \in 1..Len(p) : p[i] = m) <=> m \in ToSet(p)
    BY <2>5 DEF ToSet
  <2>8. \A m \in ToSet(p) : m \in Nat
    BY <2>5, <2>7
  <2>9. \A m : m \in ToSet(r) <=> m \in ToSet(p) /\ ~Shadows(k + 1, m)
    BY <1>6, <2>2, <2>4, <2>8
  <2>10. \A m : (\E i \in 1..Len(r) : r[i] = m) <=> (\E i \in 1..Len(p) : p[i] = m) /\ ~Shadows(k + 1, m)
    BY <2>6, <2>7, <2>9
  <2>11. PartsAt(p, k)
    BY <2>1
  <2>12. PartsAt(r, k + 1)
    BY <1>6, <2>4, <2>10, <2>11, PartsLeft
  <2> QED
    BY <2>1, <2>12
<1>7. CASE events[k + 1].type = "prune"
  <2>1. ~IsMessage(k + 1) /\ P[k + 1] = NotShadowed(P[k], events[k + 1].upto)
    BY <1>2, <1>7 DEF PartsAfter, IsMessage
  <2>2. events[k + 1].upto \in Int
    BY <1>1, <1>7 DEF HostEvents
  <2>3. \A m \in Nat : Shadows(k + 1, m) <=> ~(m > events[k + 1].upto)
    BY <1>7, <2>2 DEF Shadows, SettledAt
  <2> QED
    BY <1>6, <2>1, <2>3
<1>8. CASE SettledAt(k + 1)
  <2>1. events[k + 1].type = "end"
    BY <1>8 DEF SettledAt
  <2>2. ~IsMessage(k + 1) /\ P[k + 1] = NotShadowed(P[k], events[events[k + 1].of].upto)
    BY <1>2, <1>3, <1>8, <2>1 DEF PartsAfter, IsMessage
  <2>3. events[k + 1].of \in 1..Len(events) /\ events[events[k + 1].of].type = "summary"
    <3>1. events[k + 1].of \in 1..(k + 1) - 1 /\ events[events[k + 1].of].type = "summary"
      BY <1>1, <2>1 DEF EndsFit
    <3> QED
      BY <1>1, <3>1
  <2>4. events[events[k + 1].of].upto \in Int
    BY <2>3 DEF HostEvents
  <2>5. \A m \in Nat : Shadows(k + 1, m) <=> ~(m > events[events[k + 1].of].upto)
    BY <1>8, <2>1, <2>4 DEF Shadows
  <2> QED
    BY <1>6, <2>2, <2>5
<1>9. CASE ~IsMessage(k + 1) /\ events[k + 1].type # "prune" /\ ~SettledAt(k + 1)
  <2>1. P[k + 1] = P[k]
    BY <1>2, <1>3, <1>9 DEF PartsAfter, IsMessage
  <2>2. \A m : ~Shadows(k + 1, m)
    BY <1>9 DEF Shadows
  <2> QED
    BY <1>4, <1>9, <2>1, <2>2, PartsLeft
<1> QED
  BY <1>5, <1>7, <1>8, <1>9

LEMMA PartsAreMessages ==
    ASSUME events \in Seq(HostEvents), EndsFit, NEW T, NEW P, NEW D, History(events, T, P, D)
    PROVE  PartsAt(P[Len(events)], Len(events))
<1>1. Len(events) \in Nat
  OBVIOUS
<1> DEFINE Good == {k \in Nat : k <= Len(events) => PartsAt(P[k], k)}
<1>2. 0 \in Good
  <2>1. P[0] = <<>> /\ <<>> \in Seq(Nat) /\ Len(<<>>) = 0
    BY DEF History
  <2>2. PICK p : p = P[0]
    OBVIOUS
  <2>3. PartsAt(p, 0)
    BY <2>1, <2>2 DEF PartsAt, Increasing
  <2> QED
    BY <2>2, <2>3
<1>3. ASSUME NEW k \in Nat, k \in Good PROVE k + 1 \in Good
  <2> SUFFICES ASSUME k + 1 <= Len(events) PROVE PartsAt(P[k + 1], k + 1)
    OBVIOUS
  <2>1. PartsAt(P[k], k)
    BY <1>1, <1>3
  <2> QED
    BY <2>1, PartsStep
<1> HIDE DEF Good
<1>4. Len(events) \in Good
  BY <1>1, <1>2, <1>3, EveryNumber
<1> QED
  BY <1>1, <1>4 DEF Good

\* As many numbers as are greater than one of them come after it.
LEMMA AsManyAfter ==
    ASSUME NEW s \in Seq(Nat), Increasing(s), NEW j \in 1..Len(s),
           NEW q \in Seq(Nat), Increasing(q),
           \A i \in 1..Len(q) : q[i] > s[j] /\ \E x \in 1..Len(s) : s[x] = q[i]
    PROVE  j + Len(q) <= Len(s)
<1>1. Len(s) \in Nat /\ Len(q) \in Nat /\ j \in Nat
  OBVIOUS
<1> DEFINE Good == {i \in Nat : i \in 1..Len(q) => \A x \in 1..Len(s) : s[x] = q[i] => j + i <= x}
<1>2. 0 \in Good
  OBVIOUS
<1>3. ASSUME NEW i \in Nat, i \in Good PROVE i + 1 \in Good
  <2> SUFFICES ASSUME i + 1 \in 1..Len(q), NEW x \in 1..Len(s), s[x] = q[i + 1] PROVE j + (i + 1) <= x
    OBVIOUS
  <2>1. \A y \in 1..Len(s) : s[y] < s[x] => y < x
    <3>1. TAKE y \in 1..Len(s)
    <3>2. s[x] \in Nat /\ s[y] \in Nat /\ x \in Nat /\ y \in Nat
      OBVIOUS
    <3>3. x < y => s[x] < s[y]
      BY DEF Increasing
    <3> QED
      BY <3>2, <3>3
  <2>2. CASE i = 0
    <3>1. s[j] < s[x] /\ j \in 1..Len(s)
      OBVIOUS
    <3>2. j < x
      BY <2>1, <3>1
    <3> QED
      BY <1>1, <2>2, <3>2
  <2>3. CASE i # 0
    <3>1. i \in 1..Len(q) /\ i < i + 1
      BY <1>1, <2>3
    <3>2. PICK y \in 1..Len(s) : s[y] = q[i]
      BY <3>1
    <3>3. j + i <= y
      BY <1>3, <3>1, <3>2
    <3>4. q[i] < q[i + 1]
      BY <3>1 DEF Increasing
    <3>5. y < x
      BY <2>1, <3>2, <3>4
    <3> QED
      BY <1>1, <3>3, <3>5
  <2> QED
    BY <2>2, <2>3
<1> HIDE DEF Good
<1>4. Len(q) \in Good
  BY <1>1, <1>2, <1>3, EveryNumber
<1>5. CASE Len(q) = 0
  BY <1>1, <1>5
<1>6. CASE Len(q) # 0
  <2>1. Len(q) \in 1..Len(q)
    BY <1>1, <1>6
  <2>2. PICK x \in 1..Len(s) : s[x] = q[Len(q)]
    BY <2>1
  <2>3. j + Len(q) <= x
    BY <1>4, <2>1, <2>2 DEF Good
  <2> QED
    BY <1>1, <2>2, <2>3
<1> QED
  BY <1>5, <1>6

\* One of the newest messages is not behind as many as there may be.
LEMMA NewestStay ==
    ASSUME events \in Seq(HostEvents), NEW p, PartsAt(p, Len(events)),
           NEW m \in ToSet(LastOf(EventsIn({n \in 1..Len(events) : events[n].type = "message"}), PartsLimit))
    PROVE  m \in ToSet(p) \/ Shadowed(m)
<1>1. Len(events) \in Nat /\ PartsLimit \in Nat
  BY EvidenceAssumption
<1>2. PICK set : set = {n \in 1..Len(events) : events[n].type = "message"}
  OBVIOUS
<1>3. PICK s : s = EventsIn(set)
  OBVIOUS
<1>4. s \in Seq(Nat) /\ Increasing(s) /\ ToSet(s) = set
  BY <1>2, <1>3, EventsInIs
<1>5. PICK l : l = LastOf(s, PartsLimit)
  OBVIOUS
<1>6. /\ l \in Seq(Nat) /\ Len(l) \in Nat /\ Len(l) <= PartsLimit /\ Len(l) <= Len(s)
      /\ \A i \in 1..Len(l) : l[i] = s[i + (Len(s) - Len(l))]
  <2>1. Len(s) \in Nat
    BY <1>4
  <2>2. Len(l) = IF Len(s) > PartsLimit THEN PartsLimit ELSE Len(s)
    BY <1>1, <1>4, <1>5, LastOfIs
  <2>3. Len(l) <= PartsLimit /\ Len(l) <= Len(s)
    BY <1>1, <2>1, <2>2
  <2> QED
    BY <1>1, <1>4, <1>5, <2>3, LastOfIs
<1>7. PICK i \in 1..Len(l) : l[i] = m
  <2>1. m \in ToSet(l) /\ DOMAIN l = 1..Len(l)
    BY <1>2, <1>3, <1>5, <1>6
  <2> QED
    BY <2>1 DEF ToSet
<1>8. PICK j : j = i + (Len(s) - Len(l))
  OBVIOUS
<1>9. Len(s) \in Nat /\ j \in 1..Len(s) /\ j + PartsLimit > Len(s) /\ s[j] = m
  BY <1>1, <1>4, <1>6, <1>7, <1>8
<1>10. DOMAIN s = 1..Len(s) /\ m \in set
  BY <1>4, <1>9 DEF ToSet
<1>11. m \in 1..Len(events) /\ IsMessage(m)
  BY <1>2, <1>10 DEF IsMessage
<1>12. ~Behind(m, Len(events))
  <2> SUFFICES ASSUME NEW q \in Seq(Nat), Len(q) = PartsLimit, Increasing(q),
                      \A k \in 1..Len(q) : q[k] \in m + 1..Len(events) /\ IsMessage(q[k])
               PROVE  FALSE
    BY DEF Behind
  <2>1. ASSUME NEW k \in 1..Len(q) PROVE q[k] > s[j] /\ \E x \in 1..Len(s) : s[x] = q[k]
    <3>1. q[k] \in m + 1..Len(events) /\ q[k] \in 1..Len(events) /\ q[k] > m
      BY <1>1, <1>11
    <3>2. q[k] \in ToSet(s)
      BY <1>2, <1>4, <3>1 DEF IsMessage
    <3> QED
      BY <1>9, <1>10, <3>1, <3>2 DEF ToSet
  <2>2. j + Len(q) <= Len(s)
    BY <1>4, <1>9, <2>1, AsManyAfter
  <2> QED
    BY <1>1, <1>9, <2>2
<1>13. CASE \E x \in 1..Len(p) : p[x] = m
  <2>1. DOMAIN p = 1..Len(p)
    BY DEF PartsAt
  <2> QED
    BY <1>13, <2>1 DEF ToSet
<1>14. CASE ShadowedBy(m, Len(events))
  BY <1>14 DEF ShadowedBy, Shadows, Shadowed
<1> QED
  BY <1>11, <1>12, <1>13, <1>14 DEF PartsAt

(***************************************************************************)
(* Reads of memory files are counted, once at least.                       *)
(***************************************************************************)
Counts(hist, C) ==
    /\ C[0] = 0 /\ \A k \in 0..Len(hist) : C[k] \in Nat
    /\ \A k \in 1..Len(hist) : C[k] = C[k - 1] + UsageOf(hist[k])
ReadsCounted == counted \in Nat /\ \E C : Counts(events, C) /\ (eng.open => C[eng.done] <= counted)

LEMMA CountIs ==
    ASSUME events \in Seq(HostEvents), NEW C, Counts(events, C)
    PROVE  C[Len(events)] = Len(EventsIn({n \in 1..Len(events) : events[n].type = "tool" /\ events[n].tool = "read"}))
<1>1. Len(events) \in Nat
  OBVIOUS
<1>2. PICK set : set = {n \in 1..Len(events) : events[n].type = "tool" /\ events[n].tool = "read"}
  OBVIOUS
<1>3. PICK K : /\ K[0] = <<>> /\ K[Len(events)] = EventsIn(set)
               /\ \A k \in 0..Len(events) : K[k] \in Seq(Nat)
               /\ \A k \in 1..Len(events) : K[k] = IF k \in set THEN Append(K[k - 1], k) ELSE K[k - 1]
  BY EventsSoFar
<1> DEFINE Good == {k \in Nat : k <= Len(events) => C[k] = Len(K[k])}
<1>4. 0 \in Good
  BY <1>3 DEF Counts
<1>5. ASSUME NEW k \in Nat, k \in Good PROVE k + 1 \in Good
  <2> SUFFICES ASSUME k + 1 <= Len(events) PROVE C[k + 1] = Len(K[k + 1])
    OBVIOUS
  <2>1. k + 1 \in 1..Len(events) /\ (k + 1) - 1 = k /\ k \in 0..Len(events) /\ C[k] = Len(K[k])
    BY <1>1, <1>5
  <2>2. PICK q : q = K[k]
    OBVIOUS
  <2>3. q \in Seq(Nat) /\ C[k] = Len(q) /\ Len(q) \in Nat
    BY <1>3, <2>1, <2>2
  <2>4. C[k + 1] = C[k] + UsageOf(events[k + 1])
    BY <2>1 DEF Counts
  <2>5. CASE k + 1 \in set
    <3>1. UsageOf(events[k + 1]) = 1
      BY <1>2, <2>5 DEF UsageOf
    <3>2. K[k + 1] = Append(q, k + 1)
      BY <1>3, <2>1, <2>2, <2>5
    <3>3. Len(Append(q, k + 1)) = Len(q) + 1
      BY <2>3, AppendProperties
    <3> QED
      BY <2>3, <2>4, <3>1, <3>2, <3>3
  <2>6. CASE k + 1 \notin set
    <3>1. UsageOf(events[k + 1]) = 0
      BY <1>2, <2>1, <2>6 DEF UsageOf
    <3>2. K[k + 1] = q
      BY <1>3, <2>1, <2>2, <2>6
    <3> QED
      BY <2>3, <2>4, <3>1, <3>2
  <2> QED
    BY <2>5, <2>6
<1> HIDE DEF Good
<1>6. Len(events) \in Good
  BY <1>1, <1>4, <1>5, EveryNumber
<1> QED
  BY <1>1, <1>2, <1>3, <1>6 DEF Good

LEMMA CountsGrow ==
    ASSUME NEW hist \in Seq(HostEvents), NEW event \in HostEvents, NEW C, Counts(hist, C)
    PROVE  \E B : Counts(Append(hist, event), B) /\ \A k \in 0..Len(hist) : B[k] = C[k]
<1> DEFINE n == Len(hist)
           longer == Append(hist, event)
<1>1. n \in Nat /\ longer \in Seq(HostEvents) /\ Len(longer) = n + 1 /\ longer[n + 1] = event /\ \A k \in 1..n : longer[k] = hist[k]
  BY AppendProperties
<1>2. UsageOf(event) \in Nat
  BY DEF UsageOf
<1>3. C[0] = 0 /\ (\A k \in 0..n : C[k] \in Nat) /\ \A k \in 1..n : C[k] = C[k - 1] + UsageOf(hist[k])
  BY DEF Counts
<1> HIDE DEF n, longer
<1>4. PICK c : c = C[n] + UsageOf(event)
  OBVIOUS
<1>5. PICK B : B = [k \in 0..n + 1 |-> IF k = n + 1 THEN c ELSE C[k]]
  OBVIOUS
<1>6. B[n + 1] = c /\ \A k \in 0..n : B[k] = C[k]
  <2>1. n \in Nat
    BY <1>1
  <2>2. n + 1 \in 0..n + 1 /\ \A k \in 0..n : k \in 0..n + 1 /\ k # n + 1
    BY <2>1
  <2> QED
    BY <1>5, <2>2
<1>7. \A k \in 0..n + 1 : B[k] \in Nat
  <2>1. n \in Nat
    BY <1>1
  <2>2. \A k \in 0..n + 1 : k = n + 1 \/ k \in 0..n
    BY <2>1
  <2>3. c \in Nat
    <3>1. C[n] \in Nat
      BY <1>3, <2>1
    <3> QED
      BY <1>2, <1>4, <3>1
  <2> QED
    BY <1>3, <1>6, <2>2, <2>3
<1>8. ASSUME NEW k \in 1..n + 1 PROVE B[k] = B[k - 1] + UsageOf(longer[k])
  <2>1. CASE k = n + 1
    BY <1>1, <1>4, <1>6, <2>1
  <2>2. CASE k \in 1..n
    BY <1>1, <1>3, <1>6, <2>2
  <2> QED
    BY <1>1, <2>1, <2>2
<1>9. Counts(longer, B)
  BY <1>1, <1>3, <1>6, <1>7, <1>8 DEF Counts
<1> QED
  BY <1>6, <1>9 DEF n, longer

(***************************************************************************)
(* The invariant.                                                          *)
(***************************************************************************)
SurfaceIInv == EvIInv /\ EndsFit /\ ReadsCounted

LEMMA HappensFits ==
    ASSUME SurfaceIInv, NEW event \in HostEvents, Happens(event)
    PROVE  EndsFit' /\ ReadsCounted'
<1>1. events \in Seq(HostEvents) /\ Len(events) \in Nat /\ eng.done \in 0..Len(events) /\ EndsFit /\ ReadsCounted
  BY DEF SurfaceIInv, EvIInv, EvTyped
<1>2. events' = Append(events, event) /\ UNCHANGED <<eng, counted>>
  BY DEF Happens
<1>3. PICK n : n = Len(events) + 1
  OBVIOUS
<1>4. Len(events') = n /\ n \in Nat /\ events'[n] = event /\ \A k \in 1..n - 1 : events'[k] = events[k]
  BY <1>1, <1>2, <1>3, AppendProperties
<1>5. event.type = "end" =>
        /\ event.of \in 1..n - 1 /\ events[event.of].type = "summary"
        /\ \A i \in 1..n - 1 : events[i].type = "end" => events[i].of # event.of
  BY <1>1, <1>3 DEF Happens
<1>6. ASSUME NEW k \in 1..n, events'[k].type = "end"
      PROVE  /\ events'[k].of \in 1..k - 1 /\ events'[events'[k].of].type = "summary"
             /\ \A i \in 1..k - 1 : events'[i].type = "end" => events'[i].of # events'[k].of
  <2>1. CASE k = n
    BY <1>4, <1>5, <1>6, <2>1
  <2>2. CASE k \in 1..n - 1
    <3>1. /\ events[k].of \in 1..k - 1 /\ events[events[k].of].type = "summary"
          /\ \A i \in 1..k - 1 : events[i].type = "end" => events[i].of # events[k].of
      BY <1>1, <1>3, <1>4, <1>6, <2>2 DEF EndsFit
    <3>2. \A i \in 1..k - 1 : i \in 1..n - 1
      BY <1>4, <2>2
    <3> QED
      BY <1>4, <2>2, <3>1, <3>2
  <2> QED
    BY <1>4, <2>1, <2>2
<1>7. EndsFit'
  BY <1>4, <1>6 DEF EndsFit
<1>8. PICK C : Counts(events, C) /\ (eng.open => C[eng.done] <= counted)
  BY <1>1 DEF ReadsCounted
<1>9. PICK B : Counts(events', B) /\ \A k \in 0..Len(events) : B[k] = C[k]
  BY <1>1, <1>2, <1>8, CountsGrow
<1>10. ReadsCounted'
  BY <1>1, <1>2, <1>8, <1>9 DEF ReadsCounted
<1> QED
  BY <1>7, <1>10

LEMMA HandleCounts ==
    ASSUME SurfaceIInv, Handle
    PROVE  EndsFit' /\ ReadsCounted'
<1>1. EvTyped /\ EndsFit /\ ReadsCounted
  BY DEF SurfaceIInv, EvIInv
<1>2. /\ eng.open /\ eng.done + 1 \in 1..Len(events) /\ UNCHANGED events
      /\ eng'.done = eng.done + 1
  BY <1>1, HandleIs
<1>3. counted' = counted + UsageOf(events[eng.done + 1])
  BY DEF Handle
<1>4. PICK C : Counts(events, C) /\ C[eng.done] <= counted
  BY <1>1, <1>2 DEF ReadsCounted
<1>5. PICK n : n = eng.done + 1
  OBVIOUS
<1>6. n \in 1..Len(events) /\ n - 1 = eng.done /\ n - 1 \in 0..Len(events)
  BY <1>1, <1>2, <1>5 DEF EvTyped
<1>7. C[n] = C[n - 1] + UsageOf(events[n]) /\ C[n - 1] \in Nat
  BY <1>4, <1>6 DEF Counts
<1>8. UsageOf(events[n]) \in Nat /\ counted \in Nat
  BY <1>1 DEF UsageOf, ReadsCounted
<1>9. C[eng'.done] <= counted' /\ counted' \in Nat
  BY <1>2, <1>3, <1>4, <1>5, <1>6, <1>7, <1>8
<1>10. ReadsCounted'
  BY <1>2, <1>4, <1>9 DEF ReadsCounted
<1> QED
  BY <1>1, <1>2, <1>10 DEF EndsFit

LEMMA SurfaceStep ==
    ASSUME SurfaceIInv, [EvNext]_evVars
    PROVE  SurfaceIInv'
<1>1. EvIInv'
  BY EvStepKeeps DEF SurfaceIInv
<1>2. EndsFit /\ ReadsCounted /\ EvTyped /\ Len(events) \in Nat
  BY DEF SurfaceIInv, EvIInv, EvTyped
<1>3. CASE \E event \in HostEvents : Happens(event)
  BY <1>1, <1>3, HappensFits DEF SurfaceIInv
<1>4. CASE Handle
  BY <1>1, <1>4, HandleCounts DEF SurfaceIInv
<1>5. CASE Rebuild
  <2>1. eng' = Rebuilt /\ UNCHANGED <<events, counted>>
    BY <1>5 DEF Rebuild
  <2>2. eng'.done = 0
    BY <1>2, <2>1, RebuiltIs
  <2>3. PICK C : Counts(events, C)
    BY <1>2 DEF ReadsCounted
  <2>4. C[0] <= counted /\ counted \in Nat
    BY <1>2, <2>3 DEF ReadsCounted, Counts
  <2>5. ReadsCounted'
    BY <2>1, <2>2, <2>3, <2>4 DEF ReadsCounted
  <2> QED
    BY <1>1, <1>2, <2>1, <2>5 DEF SurfaceIInv, EndsFit
<1>6. CASE SessionEnds \/ ProcessDies
  <2>1. eng' = NoEngine /\ UNCHANGED <<events, counted>>
    BY <1>6 DEF SessionEnds, ProcessDies
  <2>2. ~eng'.open
    BY <2>1, NoEngineIs
  <2>3. ReadsCounted'
    BY <1>2, <2>1, <2>2 DEF ReadsCounted
  <2> QED
    BY <1>1, <1>2, <2>1, <2>3 DEF SurfaceIInv, EndsFit
<1>7. CASE UNCHANGED evVars
  BY <1>1, <1>2, <1>7 DEF SurfaceIInv, EndsFit, ReadsCounted, evVars
<1> QED
  BY <1>3, <1>4, <1>5, <1>6, <1>7 DEF EvNext

LEMMA SurfaceInitially == EvInit => SurfaceIInv
<1> SUFFICES ASSUME EvInit PROVE SurfaceIInv
  OBVIOUS
<1>1. events = <<>> /\ Len(events) = 0 /\ counted = 0 /\ ~eng.open
  BY NoEngineIs DEF EvInit
<1>2. EndsFit
  BY <1>1 DEF EndsFit
<1>3. PICK C : C = [k \in {0} |-> 0]
  OBVIOUS
<1>4. C[0] = 0
  BY <1>3
<1>5. Counts(events, C)
  BY <1>1, <1>4 DEF Counts
<1>6. ReadsCounted
  BY <1>1, <1>5 DEF ReadsCounted
<1> QED
  BY <1>2, <1>6, EvInitially DEF SurfaceIInv

LEMMA SurfaceIs ==
    ASSUME SurfaceIInv
    PROVE  EvidenceIsTheSurface
<1> SUFFICES ASSUME eng.open, eng.done = Len(events) PROVE EvidenceIsTheSurface
  BY DEF EvidenceIsTheSurface
<1>1. events \in Seq(HostEvents) /\ EndsFit /\ ReadsCounted
  BY DEF SurfaceIInv, EvIInv, EvTyped
<1>2. PICK T, P, D : History(events, T, P, D) /\ eng.tools = T[Len(events)] /\ eng.parts = P[Len(events)]
  BY DEF SurfaceIInv, EvIInv, Remembers
<1>3. eng.tools = LastOf(Items(EventsIn({n \in 1..Len(events) : Listed(n)})), ItemLimit)
  BY <1>1, <1>2, ToolsAreListed
<1>4. PartsAt(eng.parts, Len(events))
  BY <1>1, <1>2, PartsAreMessages
<1>5. \A m \in ToSet(eng.parts) : ~Shadowed(m)
  <2>1. DOMAIN eng.parts = 1..Len(eng.parts)
    BY <1>4 DEF PartsAt
  <2>2. \A i \in 1..Len(eng.parts) : ~ShadowedBy(eng.parts[i], Len(events))
    BY <1>4 DEF PartsAt
  <2> QED
    BY <2>1, <2>2 DEF ToSet, Shadowed, ShadowedBy, Shadows
<1>6. \A m \in ToSet(LastOf(EventsIn({n \in 1..Len(events) : events[n].type = "message"}), PartsLimit)) :
        m \in ToSet(eng.parts) \/ Shadowed(m)
  BY <1>1, <1>4, NewestStay
<1>7. counted >= Len(EventsIn({n \in 1..Len(events) : events[n].type = "tool" /\ events[n].tool = "read"}))
  <2>1. PICK C : Counts(events, C) /\ C[Len(events)] <= counted
    BY <1>1 DEF ReadsCounted
  <2>2. C[Len(events)] = Len(EventsIn({n \in 1..Len(events) : events[n].type = "tool" /\ events[n].tool = "read"}))
    BY <1>1, <2>1, CountIs
  <2>3. C[Len(events)] \in Nat /\ counted \in Nat
    BY <1>1, <2>1 DEF Counts, ReadsCounted
  <2> QED
    BY <2>1, <2>2, <2>3
<1> QED
  BY <1>3, <1>5, <1>6, <1>7 DEF EvidenceIsTheSurface, Items

(***************************************************************************)
(* Whatever crashed, ended and was replayed in between, the evidence of a  *)
(* session that has caught up is what its log says: the newest tool calls  *)
(* and summaries in order, the messages that nothing has shadowed (the     *)
(* newest at least), and every read of a memory file was counted           *)
(* (addEvidence, messageSeen, pruneShadowedEvidence, settleCompaction and  *)
(* the replay of ensureSession).                                           *)
(***************************************************************************)
THEOREM EvidenceIsTheSurfaceHolds == EvSpec => []EvidenceIsTheSurface
BY SurfaceInitially, SurfaceStep, SurfaceIs, PTL DEF EvSpec

----------------------------------------------------------------------------

(***************************************************************************)
(* Receipts, for any jobs and any limits: what a page folds of the queue.  *)
(* A refresh that only seeds has seen no queue before it, so none of its   *)
(* changes is held back.                                                   *)
(***************************************************************************)
Folding ==
    /\ feed = [at |-> feed.at, seeded |-> feed.seeded, last |-> feed.last,
               jobs |-> feed.jobs, first |-> feed.first, fresh |-> feed.fresh]
    /\ past = [told |-> past.told, missed |-> past.missed, folded |-> past.folded, reach |-> past.reach]
FoldIInv ==
    /\ Folding
    /\ feed.seeded \in BOOLEAN /\ feed.first \in BOOLEAN
    /\ ~feed.seeded => feed.jobs = Unread /\ feed.at = "idle"
    /\ feed.first /\ feed.at = "queue" => feed.jobs = Unread
    /\ feed.jobs # Unread => past.folded # Unread \/ JobIds = {}
    /\ QueueIsFolded

\* What is said of each job is not what is said of a queue that was never read.
LEMMA IsRead ==
    ASSUME JobIds # {}, NEW f, DOMAIN f = JobIds
    PROVE  f # Unread
<1>1. DOMAIN <<>> = {}
  OBVIOUS
<1> QED
  BY <1>1 DEF Unread

LEMMA FoldInitially == ReceiptsInit => FoldIInv
BY DEF ReceiptsInit, NewFeed, FoldIInv, Folding, QueueIsFolded

\* Steps that neither read the queue nor tell of it.
LEMMA Unfolded ==
    ASSUME FoldIInv, Folding', feed'.seeded \in BOOLEAN, feed'.first \in BOOLEAN,
           feed'.jobs = feed.jobs, past'.folded = past.folded,
           ~feed'.seeded => ~feed.seeded /\ feed'.at = feed.at,
           feed'.first /\ feed'.at = "queue" => (feed.first /\ feed.at = "queue") \/ ~feed.seeded
    PROVE  FoldIInv'
BY DEF FoldIInv, QueueIsFolded

LEMMA FeedIdles ==
    ASSUME FoldIInv, UNCHANGED feed, Folding', past'.folded = past.folded
    PROVE  FoldIInv'
BY Unfolded DEF FoldIInv

LEMMA AuditsKeep ==
    ASSUME FoldIInv, NEW tail, NEW kind, Audits(tail, kind), UNCHANGED feed
    PROVE  FoldIInv'
<1> DEFINE all == {r.id : r \in {x \in ToSet(audit) : x.rid > feed.last}} \ ToSet(Ids(audit'))
           again == IF MaxRowid(tail) < feed.last THEN {tally.rows + 1} ELSE {}
<1>1. past' = [past EXCEPT !.missed = @ \cup all \cup again]
  BY DEF Audits
<1> HIDE DEF all, again
<1>2. Folding' /\ past'.folded = past.folded
  BY <1>1 DEF FoldIInv, Folding
<1> QED
  BY <1>2, FeedIdles

LEMMA SeedKeeps ==
    ASSUME FoldIInv, Seed
    PROVE  FoldIInv'
<1> DEFINE all == past.missed \cup ToSet(Ids(audit))
           tail == MaxRowid(audit)
<1>1. /\ feed.at = "idle" /\ ~feed.seeded
      /\ feed' = [feed EXCEPT !.at = "queue", !.seeded = TRUE, !.first = TRUE, !.last = tail]
      /\ past' = [past EXCEPT !.missed = all]
  BY DEF Seed
<1> HIDE DEF all, tail
<1>2. /\ Folding' /\ past'.folded = past.folded /\ feed'.jobs = feed.jobs
      /\ feed'.seeded = TRUE /\ feed'.first = TRUE
  BY <1>1 DEF FoldIInv, Folding
<1> QED
  BY <1>1, <1>2, Unfolded

LEMMA ReadTailKeeps ==
    ASSUME FoldIInv, ReadTail
    PROVE  FoldIInv'
<1>1. PICK tail, next, told :
        /\ feed.at = "idle" /\ feed.seeded /\ UNCHANGED past
        /\ feed' = [feed EXCEPT !.at = "queue", !.first = FALSE, !.last = next, !.fresh = told]
  BY DEF ReadTail
<1>2. /\ Folding' /\ past'.folded = past.folded /\ feed'.jobs = feed.jobs
      /\ feed'.seeded = feed.seeded /\ feed'.first = FALSE
  BY <1>1 DEF FoldIInv, Folding
<1>3. feed'.seeded \in BOOLEAN
  BY <1>2 DEF FoldIInv
<1> QED
  BY <1>1, <1>2, <1>3, Unfolded

LEMMA EndRefreshKeeps ==
    ASSUME FoldIInv, NEW ok \in BOOLEAN, EndRefresh(ok)
    PROVE  FoldIInv'
<1> DEFINE changes == IF ok /\ feed.jobs # Unread /\ ~feed.first THEN Changes(feed.jobs, Live(jobs)) ELSE <<>>
           receipts == past.told \o feed.fresh
<1>1. /\ feed.at = "queue"
      /\ feed' = [feed EXCEPT !.at = "idle", !.fresh = <<>>, !.jobs = IF ok THEN Live(jobs) ELSE feed.jobs]
      /\ past' = [past EXCEPT !.told = receipts,
                              !.folded = IF feed'.jobs # Unread /\ feed.jobs = Unread THEN Live(jobs) ELSE Told(changes)]
  BY DEF EndRefresh, Send
<1> HIDE DEF receipts, changes
<1>2. /\ feed'.at = "idle" /\ feed'.seeded = feed.seeded /\ feed'.first = feed.first
      /\ feed'.jobs = IF ok THEN Live(jobs) ELSE feed.jobs
      /\ past'.folded = IF feed'.jobs # Unread /\ feed.jobs = Unread THEN Live(jobs) ELSE Told(changes)
      /\ Folding'
  BY <1>1 DEF FoldIInv, Folding
<1>3. feed.seeded \in BOOLEAN /\ feed.first \in BOOLEAN /\ feed.seeded
  BY <1>1 DEF FoldIInv
<1>4. CASE JobIds = {}
  BY <1>2, <1>3, <1>4 DEF FoldIInv, QueueIsFolded
<1>5. CASE JobIds # {}
  <2>1. Live(jobs) # Unread /\ \A c : past.folded # Unread => Told(c) # Unread
    <3>1. DOMAIN Live(jobs) = JobIds
      BY DEF Live
    <3>2. \A c : past.folded # Unread => DOMAIN Told(c) = JobIds
      BY DEF Told
    <3> QED
      BY <1>5, <3>1, <3>2, IsRead
  <2>2. CASE feed'.jobs = Unread
    BY <1>2, <1>3, <2>2 DEF FoldIInv, QueueIsFolded
  <2>3. CASE feed'.jobs # Unread /\ feed.jobs = Unread
    <3>1. feed'.jobs = Live(jobs) /\ past'.folded = Live(jobs)
      BY <1>2, <2>3
    <3> QED
      BY <1>2, <1>3, <2>1, <2>3, <3>1 DEF FoldIInv, QueueIsFolded
  <2>4. CASE feed'.jobs # Unread /\ feed.jobs # Unread
    <3>1. past'.folded = Told(changes) /\ past.folded # Unread /\ ~feed.first
      BY <1>1, <1>2, <1>3, <1>5, <2>4 DEF FoldIInv
    <3>2. \A j \in JobIds : past'.folded[j] = IF j \in DOMAIN changes THEN changes[j] ELSE past.folded[j]
      BY <3>1 DEF Told
    <3>3. ASSUME NEW j \in JobIds
          PROVE  past'.folded[j] = IF feed'.jobs[j] = Absent /\ past'.folded[j] = "completed" THEN "completed" ELSE feed'.jobs[j]
      <4>1. past.folded[j] = IF feed.jobs[j] = Absent /\ past.folded[j] = "completed" THEN "completed" ELSE feed.jobs[j]
        BY <2>4 DEF FoldIInv, QueueIsFolded
      <4>2. CASE ~ok
        <5>1. changes = <<>> /\ feed'.jobs = feed.jobs
          BY <1>2, <4>2 DEF changes
        <5>2. DOMAIN changes = {}
          BY <5>1
        <5> QED
          BY <3>2, <4>1, <5>1, <5>2
      <4>3. CASE ok
        <5> DEFINE now == Live(jobs)
                   differing == {k \in JobIds : feed.jobs[k] # now[k]}
        <5>1. changes = Changes(feed.jobs, now) /\ feed'.jobs = now
          BY <1>2, <2>4, <3>1, <4>3 DEF changes
        <5>2. /\ DOMAIN changes = differing
              /\ \A k \in differing : changes[k] = IF now[k] = Absent THEN "completed" ELSE now[k]
          BY <5>1 DEF Changes
        <5> HIDE DEF now
        <5>3. CASE feed.jobs[j] # now[j]
          BY <3>2, <5>1, <5>2, <5>3
        <5>4. CASE feed.jobs[j] = now[j]
          BY <3>2, <4>1, <5>1, <5>2, <5>4
        <5> QED
          BY <5>3, <5>4
      <4> QED
        BY <4>2, <4>3
    <3>4. past'.folded # Unread
      BY <2>1, <3>1
    <3> QED
      BY <1>2, <1>3, <2>4, <3>3, <3>4 DEF FoldIInv, QueueIsFolded
  <2> QED
    BY <2>2, <2>3, <2>4
<1> QED
  BY <1>4, <1>5

LEMMA FoldStep == FoldIInv /\ [ReceiptsNext]_receiptVars => FoldIInv'
<1> SUFFICES ASSUME FoldIInv, [ReceiptsNext]_receiptVars PROVE FoldIInv'
  OBVIOUS
<1>1. ASSUME NEW kind \in {"staged", "queued"}, Audit(kind) PROVE FoldIInv'
  BY <1>1, AuditsKeep DEF Audit
<1>2. ASSUME NEW about \in SUBSET ToSet(Ids(audit)), NEW gone \in SUBSET JobIds, PurgeRollout(about, gone) PROVE FoldIInv'
  BY <1>2, AuditsKeep DEF PurgeRollout
<1>3. ASSUME NEW j \in JobIds, NEW status \in Statuses \cup {Absent}, JobTurns(j, status) PROVE FoldIInv'
  BY <1>3 DEF JobTurns, FoldIInv, Folding, QueueIsFolded
<1>4. ASSUME NEW ok \in BOOLEAN, EndRefresh(ok) PROVE FoldIInv'
  BY <1>4, EndRefreshKeeps
<1>5. CASE AskShot \/ BuildShot \/ ApplySnapshot \/ ApplyDeltas \/ UNCHANGED receiptVars
  BY <1>5 DEF AskShot, BuildShot, ApplySnapshot, ApplyDeltas, receiptVars, FoldIInv, Folding, QueueIsFolded
<1> QED
  BY <1>1, <1>2, <1>3, <1>4, <1>5, SeedKeeps, ReadTailKeeps DEF ReceiptsNext

\* What the bridge's clients have folded is what its last refresh read (EndRefresh, Seed).
THEOREM FoldInvariant == ReceiptsSpec => []FoldIInv
BY FoldInitially, FoldStep, PTL DEF ReceiptsSpec

(***************************************************************************)
(* Who folds the updates of the bridge has the queue of the last refresh,  *)
(* whichever of them were held back, failed or overlapped with writes; a   *)
(* job that has left the queue was told to be completed (EndRefresh).      *)
(***************************************************************************)
THEOREM QueueIsFoldedHolds == ReceiptsSpec => []QueueIsFolded
<1>1. FoldIInv => QueueIsFolded
  BY DEF FoldIInv
<1> QED
  BY <1>1, FoldInvariant, PTL

(***************************************************************************)
(* Rows of the audit table, by rowid and so by number; what is kept of     *)
(* them, the first of them and the last of them stay in order.             *)
(***************************************************************************)
Rows == [rid : Nat \ {0}, id : Nat \ {0}, kind : {"staged", "queued", "purge"}]
Sorted(list) == \A i, k \in 1..Len(list) : i < k => list[i].rid < list[k].rid /\ list[i].id < list[k].id
Falling(list) == \A i, k \in 1..Len(list) : i < k => list[i].id > list[k].id
Descending(ids) == \A i, k \in 1..Len(ids) : i < k => ids[i] > ids[k]
Within(q, s) ==
    \E f : /\ f \in Seq(Nat) /\ Increasing(f) /\ Len(f) = Len(q)
           /\ \A i \in 1..Len(q) : f[i] \in 1..Len(s) /\ q[i] = s[f[i]]
WriteIds(set) == {r.id : r \in {x \in set : WritePath(x)}}

LEMMA InSequence ==
    ASSUME NEW S, NEW s \in Seq(S)
    PROVE  /\ Len(s) \in Nat
           /\ \A x : x \in ToSet(s) <=> \E i \in 1..Len(s) : x = s[i]
           /\ \A i \in 1..Len(s) : s[i] \in S
<1>1. DOMAIN s = 1..Len(s)
  OBVIOUS
<1> QED
  BY <1>1 DEF ToSet

LEMMA WithinIs ==
    ASSUME NEW s \in Seq(Rows), NEW q \in Seq(Rows), Within(q, s)
    PROVE  /\ ToSet(q) \subseteq ToSet(s)
           /\ Sorted(s) => Sorted(q)
           /\ Falling(s) => Falling(q)
<1>1. PICK f : /\ f \in Seq(Nat) /\ Increasing(f) /\ Len(f) = Len(q)
               /\ \A i \in 1..Len(q) : f[i] \in 1..Len(s) /\ q[i] = s[f[i]]
  BY DEF Within
<1>2. \A i, k \in 1..Len(q) : i < k => f[i] < f[k]
  BY <1>1 DEF Increasing
<1>3. ToSet(q) \subseteq ToSet(s)
  BY <1>1, InSequence
<1>4. Sorted(s) => Sorted(q)
  BY <1>1, <1>2 DEF Sorted
<1>5. Falling(s) => Falling(q)
  BY <1>1, <1>2 DEF Falling
<1> QED
  BY <1>3, <1>4, <1>5

LEMMA KeptIsWithin ==
    ASSUME NEW s \in Seq(Rows), NEW keep
    PROVE  /\ Kept(s, keep) \in Seq(Rows) /\ Within(Kept(s, keep), s)
           /\ \A x : x \in ToSet(Kept(s, keep)) <=> x \in ToSet(s) /\ x \in keep
<1>1. PICK q : q = Kept(s, keep)
  OBVIOUS
<1>2. q \in Seq(Rows) /\ \E f : Placed(q, f, s, keep, Len(s))
  BY <1>1, KeptPlaces
<1>3. PICK f : Placed(q, f, s, keep, Len(s))
  BY <1>2
<1>4. /\ f \in Seq(Nat) /\ Increasing(f) /\ Len(f) = Len(q)
      /\ \A i \in 1..Len(f) : f[i] \in 1..Len(s) /\ s[f[i]] \in keep /\ q[i] = s[f[i]]
      /\ \A x \in 1..Len(s) : s[x] \in keep => \E i \in 1..Len(f) : f[i] = x
  BY <1>3 DEF Placed
<1>5. Within(q, s)
  BY <1>4 DEF Within
<1>6. ASSUME NEW x PROVE x \in ToSet(q) <=> x \in ToSet(s) /\ x \in keep
  <2>1. (x \in ToSet(q) <=> \E i \in 1..Len(q) : x = q[i]) /\ (x \in ToSet(s) <=> \E i \in 1..Len(s) : x = s[i])
    BY <1>2, InSequence
  <2>2. (\E i \in 1..Len(q) : x = q[i]) => (\E i \in 1..Len(s) : x = s[i]) /\ x \in keep
    BY <1>4
  <2>3. ASSUME NEW j \in 1..Len(s), x = s[j], x \in keep PROVE \E i \in 1..Len(q) : x = q[i]
    BY <1>4, <2>3
  <2> QED
    BY <2>1, <2>2, <2>3
<1> QED
  BY <1>1, <1>2, <1>5, <1>6

LEMMA FirstOfIs ==
    ASSUME NEW S, NEW s \in Seq(S), NEW n \in Nat
    PROVE  /\ FirstOf(n, s) \in Seq(S) /\ Len(FirstOf(n, s)) = IF Len(s) < n THEN Len(s) ELSE n
           /\ Len(FirstOf(n, s)) <= Len(s)
           /\ \A i \in 1..Len(FirstOf(n, s)) : FirstOf(n, s)[i] = s[i]
<1>1. PICK m : m = IF Len(s) < n THEN Len(s) ELSE n
  OBVIOUS
<1>2. m \in Nat /\ m <= Len(s) /\ Len(s) \in Nat
  BY <1>1
<1>3. PICK p : p = SubSeq(s, 1, m)
  OBVIOUS
<1>4. \A i \in 1..m : s[i] \in S
  BY <1>2
<1>5. p \in Seq(S) /\ Len(p) = (IF 1 <= m THEN m - 1 + 1 ELSE 0) /\ \A i \in 1..m - 1 + 1 : p[i] = s[1 + i - 1]
  BY <1>2, <1>3, <1>4, SubSeqProperties
<1>6. Len(p) = m
  BY <1>2, <1>5
<1>7. \A i \in 1..m : p[i] = s[i]
  <2>1. ASSUME NEW i \in 1..m PROVE p[i] = s[i]
    <3>1. i \in 1..m - 1 + 1 /\ 1 + i - 1 = i
      BY <1>2
    <3> QED
      BY <1>5, <3>1
  <2> QED
    BY <2>1
<1>8. p = FirstOf(n, s)
  BY <1>1, <1>3 DEF FirstOf
<1> QED
  BY <1>1, <1>2, <1>5, <1>6, <1>7, <1>8

LEMMA FirstIsWithin ==
    ASSUME NEW s \in Seq(Rows), NEW n \in Nat
    PROVE  FirstOf(n, s) \in Seq(Rows) /\ Within(FirstOf(n, s), s)
<1>1. PICK q : q = FirstOf(n, s)
  OBVIOUS
<1>2. q \in Seq(Rows) /\ Len(q) \in Nat /\ Len(q) <= Len(s) /\ Len(s) \in Nat /\ \A i \in 1..Len(q) : q[i] = s[i]
  BY <1>1, FirstOfIs, InSequence
<1>3. PICK f : f = [i \in 1..Len(q) |-> i]
  OBVIOUS
<1>4. f \in Seq(Nat) /\ Len(f) = Len(q) /\ \A i \in 1..Len(q) : f[i] = i
  <2>1. f \in [1..Len(q) -> Nat]
    BY <1>3
  <2> QED
    BY <1>2, <1>3, <2>1
<1>5. Increasing(f)
  BY <1>4 DEF Increasing
<1>6. \A i \in 1..Len(q) : f[i] \in 1..Len(s) /\ q[i] = s[f[i]]
  BY <1>2, <1>4
<1>7. Within(q, s)
  BY <1>4, <1>5, <1>6 DEF Within
<1> QED
  BY <1>1, <1>2, <1>7

\* The numbers of rows, and of the writes among them.
LEMMA IdsAre ==
    ASSUME NEW list \in Seq(Rows)
    PROVE  /\ Ids(list) \in Seq(Nat) /\ Len(Ids(list)) = Len(list)
           /\ \A i \in 1..Len(list) : Ids(list)[i] = list[i].id
           /\ ToSet(Ids(list)) = {r.id : r \in ToSet(list)}
<1>1. PICK p : p = Ids(list)
  OBVIOUS
<1>2. Len(list) \in Nat /\ (\A i \in 1..Len(list) : list[i] \in Rows) /\ \A x : x \in ToSet(list) <=> \E i \in 1..Len(list) : x = list[i]
  BY InSequence
<1>3. \A i \in 1..Len(list) : list[i].id \in Nat
  BY <1>2 DEF Rows
<1>4. p \in Seq(Nat) /\ Len(p) = Len(list) /\ \A i \in 1..Len(list) : p[i] = list[i].id
  <2>1. p \in [1..Len(list) -> Nat]
    BY <1>1, <1>3 DEF Ids
  <2> QED
    BY <1>1, <1>2, <2>1 DEF Ids
<1>5. \A x : x \in ToSet(p) <=> \E i \in 1..Len(list) : x = list[i].id
  BY <1>4, InSequence
<1>6. ToSet(p) = {r.id : r \in ToSet(list)}
  BY <1>2, <1>5
<1> QED
  BY <1>1, <1>4, <1>6

LEMMA ReceiptsAre ==
    ASSUME NEW list \in Seq(Rows)
    PROVE  /\ Receipts(list) \in Seq(Nat) /\ ToSet(Receipts(list)) = WriteIds(ToSet(list))
           /\ Sorted(list) => Increasing(Receipts(list))
           /\ Falling(list) => Descending(Receipts(list))
<1>1. PICK keep : keep = {r \in ToSet(list) : WritePath(r)}
  OBVIOUS
<1>2. PICK q : q = Kept(list, keep)
  OBVIOUS
<1>3. q \in Seq(Rows) /\ Within(q, list) /\ \A x : x \in ToSet(q) <=> x \in ToSet(list) /\ x \in keep
  BY <1>2, KeptIsWithin
<1>4. PICK p : p = Ids(q)
  OBVIOUS
<1>5. p \in Seq(Nat) /\ Len(p) = Len(q) /\ (\A i \in 1..Len(q) : p[i] = q[i].id) /\ ToSet(p) = {r.id : r \in ToSet(q)}
  BY <1>3, <1>4, IdsAre
<1>6. ToSet(q) = keep
  BY <1>1, <1>3
<1>7. ToSet(p) = WriteIds(ToSet(list))
  BY <1>1, <1>5, <1>6 DEF WriteIds
<1>8. (Sorted(list) => Sorted(q)) /\ (Falling(list) => Falling(q))
  BY <1>3, WithinIs
<1>9. Sorted(q) => Increasing(p)
  BY <1>5 DEF Sorted, Increasing
<1>10. Falling(q) => Descending(p)
  BY <1>5 DEF Falling, Descending
<1>11. p = Receipts(list)
  BY <1>1, <1>2, <1>4 DEF Receipts
<1> QED
  BY <1>5, <1>7, <1>8, <1>9, <1>10, <1>11

LEMMA ReverseIs ==
    ASSUME NEW list \in Seq(Rows)
    PROVE  /\ Reverse(list) \in Seq(Rows) /\ Len(Reverse(list)) = Len(list)
           /\ \A i \in 1..Len(list) : Reverse(list)[i] = list[Len(list) - i + 1]
           /\ \A x : x \in ToSet(Reverse(list)) <=> x \in ToSet(list)
           /\ Sorted(list) => Falling(Reverse(list))
<1>1. PICK p : p = Reverse(list)
  OBVIOUS
<1>2. PICK n : n = Len(list)
  OBVIOUS
<1>3. n \in Nat /\ (\A i \in 1..n : list[i] \in Rows) /\ \A x : x \in ToSet(list) <=> \E i \in 1..n : x = list[i]
  BY <1>2, InSequence
<1>4. \A i \in 1..n : (n - i) + 1 \in 1..n
  BY <1>3
<1>5. p = [i \in 1..n |-> list[(n - i) + 1]]
  BY <1>1, <1>2 DEF Reverse
<1>6. p \in Seq(Rows) /\ Len(p) = n /\ \A i \in 1..n : p[i] = list[(n - i) + 1]
  <2>1. p \in [1..n -> Rows]
    BY <1>3, <1>4, <1>5
  <2> QED
    BY <1>3, <1>5, <2>1
<1>7. \A x : x \in ToSet(p) <=> \E i \in 1..n : x = p[i]
  BY <1>6, InSequence
<1>8. ASSUME NEW i \in 1..n PROVE list[i] = p[(n - i) + 1] /\ (n - i) + 1 \in 1..n
  <2>1. (n - ((n - i) + 1)) + 1 = i /\ (n - i) + 1 \in 1..n
    BY <1>3
  <2> QED
    BY <1>6, <2>1
<1>9. \A x : x \in ToSet(p) <=> x \in ToSet(list)
  BY <1>3, <1>4, <1>6, <1>7, <1>8
<1>10. ASSUME Sorted(list) PROVE Falling(p)
  <2>1. ASSUME NEW i \in 1..n, NEW k \in 1..n, i < k PROVE p[i].id > p[k].id
    <3>1. PICK a, b : a = (n - i) + 1 /\ b = (n - k) + 1
      OBVIOUS
    <3>2. a \in 1..n /\ b \in 1..n /\ b < a
      BY <1>3, <2>1, <3>1
    <3>3. list[b].id < list[a].id
      BY <1>2, <1>10, <3>2 DEF Sorted
    <3>4. list[a].id \in Nat /\ list[b].id \in Nat
      BY <1>3, <3>2 DEF Rows
    <3> QED
      BY <1>6, <3>1, <3>3, <3>4
  <2> QED
    BY <1>6, <2>1 DEF Falling
<1>11. \A i \in 1..n : p[i] = list[n - i + 1]
  BY <1>6
<1> QED
  BY <1>1, <1>2, <1>6, <1>9, <1>10, <1>11

(***************************************************************************)
(* The page.  Of a list v, what is still to come (P), what may be missed   *)
(* (M) and what must be shown (C).                                         *)
(***************************************************************************)
Shows(v, c) == c \in ToSet(v) \/ (Len(v) = ReceiptLimit /\ \A id \in ToSet(v) : id > c)
Falls(v, may) == \A i, k \in 1..Len(v) : i < k => v[i] > v[k] \/ v[k] \in may
ViewGood(v, P, M, C, n) ==
    /\ v \in Seq(Nat) /\ Len(v) <= ReceiptLimit /\ \A i \in 1..Len(v) : v[i] <= n
    /\ \A i, k \in 1..Len(v) : i # k => v[i] # v[k]
    /\ \A i \in 1..Len(v) : v[i] \in M \cup P \/ \A p \in P : v[i] < p
    /\ Falls(v, M \cup P)
    /\ \A c \in C \ P : Shows(v, c)

\* A sequence that grows is as long as one whose members it has.
LEMMA AsMany ==
    ASSUME NEW s \in Seq(Nat), Increasing(s), NEW q \in Seq(Nat), Increasing(q),
           \A i \in 1..Len(q) : \E x \in 1..Len(s) : s[x] = q[i]
    PROVE  Len(q) <= Len(s)
<1>1. Len(s) \in Nat /\ Len(q) \in Nat
  OBVIOUS
<1> DEFINE Good == {i \in Nat : i \in 1..Len(q) => \A x \in 1..Len(s) : s[x] = q[i] => i <= x}
<1>2. 0 \in Good
  OBVIOUS
<1>3. ASSUME NEW i \in Nat, i \in Good PROVE i + 1 \in Good
  <2> SUFFICES ASSUME i + 1 \in 1..Len(q), NEW x \in 1..Len(s), s[x] = q[i + 1] PROVE i + 1 <= x
    OBVIOUS
  <2>1. CASE i = 0
    BY <2>1
  <2>2. CASE i # 0
    <3>1. i \in 1..Len(q) /\ i < i + 1
      BY <1>1, <2>2
    <3>2. PICK y \in 1..Len(s) : s[y] = q[i]
      BY <3>1
    <3>3. i <= y
      BY <1>3, <3>1, <3>2
    <3>4. q[i] < q[i + 1]
      BY <3>1 DEF Increasing
    <3>5. s[x] \in Nat /\ s[y] \in Nat /\ x \in Nat /\ y \in Nat
      OBVIOUS
    <3>6. x < y => s[x] < s[y]
      BY DEF Increasing
    <3>7. y < x
      BY <3>2, <3>4, <3>5, <3>6
    <3> QED
      BY <3>3, <3>5, <3>7
  <2> QED
    BY <2>1, <2>2
<1> HIDE DEF Good
<1>4. Len(q) \in Good
  BY <1>1, <1>2, <1>3, EveryNumber
<1>5. CASE Len(q) = 0
  BY <1>1, <1>5
<1>6. CASE Len(q) # 0
  <2>1. Len(q) \in 1..Len(q)
    BY <1>1, <1>6
  <2>2. PICK x \in 1..Len(s) : s[x] = q[Len(q)]
    BY <2>1
  <2>3. Len(q) <= x
    BY <1>4, <2>1, <2>2 DEF Good
  <2> QED
    BY <1>1, <2>2, <2>3
<1> QED
  BY <1>5, <1>6

\* How w comes of putting x at the head of v: f is where the others were.
Topped(v, x, w, f) ==
    /\ f \in Seq(Nat) /\ Increasing(f) /\ \A i \in 1..Len(f) : f[i] \in 1..Len(v) /\ v[f[i]] # x
    /\ \A j \in 1..Len(v) : v[j] # x => \E i \in 1..Len(f) : f[i] = j
    /\ Len(f) >= Len(v) - 1 /\ (x \notin ToSet(v) => Len(f) >= Len(v))
    /\ w \in Seq(Nat) /\ w[1] = x
    /\ Len(w) = IF Len(f) + 1 < ReceiptLimit THEN Len(f) + 1 ELSE ReceiptLimit
    /\ \A i \in 1..Len(w) : i # 1 => w[i] = v[f[i - 1]]

\* What goes to the head is there once, and the others behind it as they were.
LEMMA OnTopIs ==
    ASSUME NEW v \in Seq(Nat), \A i, k \in 1..Len(v) : i # k => v[i] # v[k], NEW x \in Nat
    PROVE  \E f : Topped(v, x, OnTop(v, x), f)
<1>1. ReceiptLimit \in Nat /\ ReceiptLimit >= 1 /\ Len(v) \in Nat
  BY ReceiptsAssumption
<1>2. PICK keep : keep = ToSet(v) \ {x}
  OBVIOUS
<1>3. PICK q : q = Kept(v, keep)
  OBVIOUS
<1>4. q \in Seq(Nat) /\ \E f : Placed(q, f, v, keep, Len(v))
  BY <1>3, KeptPlaces
<1>5. PICK f : Placed(q, f, v, keep, Len(v))
  BY <1>4
<1>6. /\ f \in Seq(Nat) /\ Increasing(f) /\ Len(f) = Len(q) /\ Len(f) \in Nat
      /\ \A i \in 1..Len(f) : f[i] \in 1..Len(v) /\ v[f[i]] \in keep /\ q[i] = v[f[i]]
      /\ \A j \in 1..Len(v) : v[j] \in keep => \E i \in 1..Len(f) : f[i] = j
  BY <1>5 DEF Placed
<1>7. \A y : y \in ToSet(v) <=> \E i \in 1..Len(v) : y = v[i]
  BY InSequence
<1>8. \A i \in 1..Len(f) : f[i] \in 1..Len(v) /\ v[f[i]] # x
  BY <1>2, <1>6
<1>9. \A j \in 1..Len(v) : v[j] # x => \E i \in 1..Len(f) : f[i] = j
  BY <1>2, <1>6, <1>7
<1>10. Len(f) >= Len(v) - 1 /\ (x \notin ToSet(v) => Len(f) >= Len(v))
  <2>1. CASE x \notin ToSet(v)
    <3>1. PICK g : g = [i \in 1..Len(v) |-> i]
      OBVIOUS
    <3>2. g \in Seq(Nat) /\ Len(g) = Len(v) /\ \A i \in 1..Len(v) : g[i] = i
      <4>1. g \in [1..Len(v) -> Nat]
        BY <3>1
      <4> QED
        BY <1>1, <3>1, <4>1
    <3>3. Increasing(g)
      BY <3>2 DEF Increasing
    <3>4. \A i \in 1..Len(g) : \E y \in 1..Len(f) : f[y] = g[i]
      BY <1>7, <1>9, <2>1, <3>2
    <3>5. Len(g) <= Len(f)
      BY <1>6, <3>2, <3>3, <3>4, AsMany
    <3> QED
      BY <1>1, <1>6, <3>2, <3>5
  <2>2. CASE x \in ToSet(v)
    <3>1. PICK j \in 1..Len(v) : v[j] = x
      BY <1>7, <2>2
    <3>2. PICK n : n = Len(v) - 1
      OBVIOUS
    <3>3. n \in Nat /\ j \in 1..n + 1
      BY <1>1, <3>1, <3>2
    <3>4. PICK g : g = [i \in 1..n |-> IF i < j THEN i ELSE i + 1]
      OBVIOUS
    <3>5. g \in Seq(Nat) /\ Len(g) = n /\ \A i \in 1..n : g[i] = IF i < j THEN i ELSE i + 1
      <4>1. \A i \in 1..n : (IF i < j THEN i ELSE i + 1) \in Nat
        BY <3>3
      <4>2. g \in [1..n -> Nat]
        BY <3>4, <4>1
      <4> QED
        BY <3>3, <3>4, <4>2
    <3>6. Increasing(g)
      <4>1. ASSUME NEW i \in 1..n, NEW k \in 1..n, i < k PROVE g[i] < g[k]
        <5>1. g[i] = (IF i < j THEN i ELSE i + 1) /\ g[k] = (IF k < j THEN k ELSE k + 1)
          BY <3>5
        <5>2. i \in Nat /\ k \in Nat /\ j \in Nat
          BY <3>3
        <5> QED
          BY <4>1, <5>1, <5>2
      <4> QED
        BY <3>5, <4>1 DEF Increasing
    <3>7. ASSUME NEW i \in 1..Len(g) PROVE \E y \in 1..Len(f) : f[y] = g[i]
      <4>1. g[i] \in 1..Len(v) /\ g[i] # j
        <5>1. i \in 1..n /\ g[i] = IF i < j THEN i ELSE i + 1
          BY <3>5
        <5>2. n + 1 = Len(v)
          BY <1>1, <3>2
        <5> QED
          BY <3>3, <5>1, <5>2
      <4>2. v[g[i]] # x
        BY <3>1, <4>1
      <4> QED
        BY <1>9, <4>1, <4>2
    <3>8. Len(g) <= Len(f)
      BY <1>6, <3>5, <3>6, <3>7, AsMany
    <3> QED
      BY <1>1, <1>6, <2>2, <3>2, <3>5, <3>8
  <2> QED
    BY <2>1, <2>2
<1>11. PICK u : u = <<x>> \o q
  OBVIOUS
<1>12. u \in Seq(Nat) /\ Len(u) = Len(f) + 1 /\ u[1] = x /\ \A i \in 1..Len(u) : i # 1 => u[i] = v[f[i - 1]]
  <2>1. <<x>> \in Seq(Nat) /\ Len(<<x>>) = 1 /\ <<x>>[1] = x
    OBVIOUS
  <2>2. /\ u \in Seq(Nat) /\ Len(u) = 1 + Len(q)
        /\ \A i \in 1..Len(u) : u[i] = IF i <= 1 THEN <<x>>[i] ELSE q[i - 1]
    BY <1>4, <1>11, <2>1, ConcatProperties
  <2>3. Len(u) = Len(f) + 1 /\ u[1] = x
    BY <1>6, <2>1, <2>2
  <2>4. ASSUME NEW i \in 1..Len(u), i # 1 PROVE u[i] = v[f[i - 1]]
    <3>1. i - 1 \in 1..Len(f) /\ ~(i <= 1)
      BY <1>6, <2>3, <2>4
    <3> QED
      BY <1>6, <2>2, <3>1
  <2> QED
    BY <2>2, <2>3, <2>4
<1>13. PICK w : w = OnTop(v, x)
  OBVIOUS
<1>14. w = FirstOf(ReceiptLimit, u)
  BY <1>2, <1>3, <1>11, <1>13 DEF OnTop
<1>15. /\ w \in Seq(Nat) /\ Len(w) = (IF Len(u) < ReceiptLimit THEN Len(u) ELSE ReceiptLimit) /\ Len(w) <= Len(u)
       /\ \A i \in 1..Len(w) : w[i] = u[i]
  BY <1>1, <1>12, <1>14, FirstOfIs
<1>16. w[1] = x /\ \A i \in 1..Len(w) : i # 1 => w[i] = v[f[i - 1]]
  <2>1. 1 \in 1..Len(w) /\ \A i \in 1..Len(w) : i \in 1..Len(u)
    BY <1>1, <1>6, <1>12, <1>15
  <2>2. w[1] = x
    BY <1>12, <1>15, <2>1
  <2>3. ASSUME NEW i \in 1..Len(w), i # 1 PROVE w[i] = v[f[i - 1]]
    <3>1. i \in 1..Len(u) /\ w[i] = u[i]
      BY <1>15, <2>1
    <3> QED
      BY <1>12, <2>3, <3>1
  <2> QED
    BY <2>2, <2>3
<1>17. Len(w) = IF Len(f) + 1 < ReceiptLimit THEN Len(f) + 1 ELSE ReceiptLimit
  <2>1. Len(u) = Len(f) + 1
    BY <1>12
  <2>2. Len(w) = IF Len(u) < ReceiptLimit THEN Len(u) ELSE ReceiptLimit
    BY <1>15
  <2> QED
    BY <2>1, <2>2
<1>18. Topped(v, x, w, f)
  <2>1. f \in Seq(Nat) /\ Increasing(f) /\ w \in Seq(Nat)
    BY <1>6, <1>15
  <2> QED
    BY <2>1, <1>8, <1>9, <1>10, <1>16, <1>17 DEF Topped
<1> QED
  BY <1>13, <1>18

\* The next that is told goes to the head.
LEMMA OnTopKeeps ==
    ASSUME NEW v, NEW P \in SUBSET Nat, NEW M, NEW C \in SUBSET Nat, NEW n, ViewGood(v, P, M, C, n), C \cap M = {},
           NEW x \in P, x <= n, \A p \in P \ {x} : x < p, \A c \in C \ P : \A p \in P : c < p
    PROVE  ViewGood(OnTop(v, x), P \ {x}, M, C, n)
<1>1. /\ v \in Seq(Nat) /\ Len(v) <= ReceiptLimit /\ Len(v) \in Nat /\ \A i \in 1..Len(v) : v[i] <= n
      /\ \A i, k \in 1..Len(v) : i # k => v[i] # v[k]
      /\ \A i \in 1..Len(v) : v[i] \in M \cup P \/ \A p \in P : v[i] < p
      /\ Falls(v, M \cup P)
      /\ \A c \in C \ P : Shows(v, c)
  BY DEF ViewGood
<1>2. ReceiptLimit \in Nat /\ ReceiptLimit >= 1 /\ x \in Nat
  BY ReceiptsAssumption
<1>3. PICK w : w = OnTop(v, x)
  OBVIOUS
<1>4. PICK f :
         /\ f \in Seq(Nat) /\ Increasing(f) /\ \A i \in 1..Len(f) : f[i] \in 1..Len(v) /\ v[f[i]] # x
         /\ \A j \in 1..Len(v) : v[j] # x => \E i \in 1..Len(f) : f[i] = j
         /\ Len(f) >= Len(v) - 1 /\ (x \notin ToSet(v) => Len(f) >= Len(v))
         /\ w \in Seq(Nat) /\ w[1] = x
         /\ Len(w) = IF Len(f) + 1 < ReceiptLimit THEN Len(f) + 1 ELSE ReceiptLimit
         /\ \A i \in 1..Len(w) : i # 1 => w[i] = v[f[i - 1]]
  <2>1. \E g : Topped(v, x, w, g)
    BY <1>1, <1>2, <1>3, OnTopIs
  <2>2. PICK g : Topped(v, x, w, g)
    BY <2>1
  <2> QED
    BY <2>2 DEF Topped
<1>5. Len(f) \in Nat /\ Len(w) \in Nat /\ Len(w) <= Len(f) + 1 /\ Len(w) <= ReceiptLimit /\ 1 \in 1..Len(w)
  BY <1>2, <1>4
<1>6. ASSUME NEW i \in 1..Len(w), i # 1
      PROVE  i - 1 \in 1..Len(f) /\ f[i - 1] \in 1..Len(v) /\ w[i] = v[f[i - 1]] /\ w[i] # x
  <2>1. i - 1 \in 1..Len(f)
    BY <1>5, <1>6
  <2> QED
    BY <1>4, <1>6, <2>1
<1>7. ASSUME NEW i \in 1..Len(w), NEW k \in 1..Len(w), i # k PROVE w[i] # w[k]
  <2>1. CASE i = 1 \/ k = 1
    BY <1>4, <1>6, <1>7, <2>1
  <2>2. CASE i # 1 /\ k # 1
    <3>1. f[i - 1] # f[k - 1]
      <4>1. i - 1 \in 1..Len(f) /\ k - 1 \in 1..Len(f)
        BY <1>6, <2>2
      <4>2. i - 1 < k - 1 \/ k - 1 < i - 1
        BY <1>5, <1>7
      <4>3. f[i - 1] < f[k - 1] \/ f[k - 1] < f[i - 1]
        BY <1>4, <4>1, <4>2 DEF Increasing
      <4>4. f[i - 1] \in Nat /\ f[k - 1] \in Nat
        <5>1. f \in Seq(Nat)
          BY <1>4
        <5>2. \A y \in 1..Len(f) : f[y] \in Nat
          BY <5>1, InSequence
        <5> QED
          BY <4>1, <5>2
      <4> QED
        BY <4>3, <4>4
    <3> QED
      BY <1>1, <1>6, <2>2, <3>1
  <2> QED
    BY <2>1, <2>2
<1>8. ASSUME NEW i \in 1..Len(w) PROVE w[i] \in M \cup (P \ {x}) \/ \A p \in P \ {x} : w[i] < p
  <2>1. CASE i = 1
    BY <1>4, <2>1
  <2>2. CASE i # 1
    BY <1>1, <1>6, <2>2
  <2> QED
    BY <2>1, <2>2
<1>9. ASSUME NEW i \in 1..Len(w), NEW k \in 1..Len(w), i < k PROVE w[i] > w[k] \/ w[k] \in M \cup (P \ {x})
  <2>1. k # 1 /\ k - 1 \in 1..Len(f) /\ f[k - 1] \in 1..Len(v) /\ w[k] = v[f[k - 1]] /\ w[k] # x /\ w[k] \in Nat
    <3>1. k # 1
      BY <1>5, <1>9
    <3>2. w[k] \in Nat
      BY <1>4
    <3> QED
      BY <1>6, <3>1, <3>2
  <2>2. CASE i = 1
    <3>1. w[k] \in M \cup P \/ w[k] < x
      BY <1>1, <2>1
    <3> QED
      BY <1>2, <1>4, <2>1, <2>2, <3>1
  <2>3. CASE i # 1
    <3>1. i - 1 \in 1..Len(f) /\ f[i - 1] \in 1..Len(v) /\ w[i] = v[f[i - 1]] /\ i - 1 < k - 1
      BY <1>6, <1>9, <2>3
    <3>2. f[i - 1] < f[k - 1]
      BY <1>4, <2>1, <3>1 DEF Increasing
    <3>3. v[f[i - 1]] > v[f[k - 1]] \/ v[f[k - 1]] \in M \cup P
      BY <1>1, <2>1, <3>1, <3>2 DEF Falls
    <3> QED
      BY <2>1, <3>1, <3>3
  <2> QED
    BY <2>2, <2>3
<1>10. (\A y : y \in ToSet(v) <=> \E i \in 1..Len(v) : y = v[i]) /\ (\A y : y \in ToSet(w) <=> \E i \in 1..Len(w) : y = w[i])
  BY <1>1, <1>4, InSequence
<1>11. ASSUME NEW c \in C \ (P \ {x}) PROVE Shows(w, c)
  <2>1. CASE c = x
    BY <1>4, <1>5, <1>10, <2>1 DEF Shows
  <2>2. CASE c # x
    <3>1. c \in C \ P /\ c \in Nat /\ c \notin M /\ c < x /\ Shows(v, c)
      BY <1>1, <1>11, <2>2
    <3>2. ASSUME NEW j \in 1..Len(v), c = v[j] PROVE Shows(w, c)
      <4>1. PICK i \in 1..Len(f) : f[i] = j
        BY <1>4, <2>2, <3>2
      <4>2. CASE i + 1 <= ReceiptLimit
        <5>1. i + 1 \in 1..Len(w) /\ i + 1 # 1 /\ (i + 1) - 1 = i
          BY <1>2, <1>4, <1>5, <4>1, <4>2
        <5>2. w[i + 1] = v[f[i]]
          BY <1>4, <5>1
        <5> QED
          BY <1>10, <3>2, <4>1, <5>1, <5>2 DEF Shows
      <4>3. CASE ~(i + 1 <= ReceiptLimit)
        <5>1. Len(w) = ReceiptLimit /\ \A k \in 1..Len(w) : k # 1 => k - 1 < i
          BY <1>2, <1>4, <1>5, <4>1, <4>3
        <5>2. ASSUME NEW k \in 1..Len(w) PROVE w[k] > c
          <6>1. CASE k = 1
            BY <1>2, <1>4, <3>1, <6>1
          <6>2. CASE k # 1
            <7>1. k - 1 \in 1..Len(f) /\ f[k - 1] \in 1..Len(v) /\ w[k] = v[f[k - 1]] /\ k - 1 < i
              BY <1>6, <5>1, <6>2
            <7>2. f[k - 1] < f[i]
              BY <1>4, <4>1, <7>1 DEF Increasing
            <7>3. v[f[k - 1]] > v[j] \/ v[j] \in M \cup P
              BY <1>1, <4>1, <7>1, <7>2 DEF Falls
            <7> QED
              BY <3>1, <3>2, <7>1, <7>3
          <6> QED
            BY <6>1, <6>2
        <5> QED
          BY <1>10, <5>1, <5>2 DEF Shows
      <4> QED
        BY <4>2, <4>3
    <3>3. CASE Len(v) = ReceiptLimit /\ \A id \in ToSet(v) : id > c
      <4>1. Len(w) = ReceiptLimit
        BY <1>1, <1>2, <1>4, <1>5, <3>3
      <4>2. ASSUME NEW k \in 1..Len(w) PROVE w[k] > c
        <5>1. CASE k = 1
          BY <1>2, <1>4, <3>1, <5>1
        <5>2. CASE k # 1
          BY <1>6, <1>10, <3>3, <5>2
        <5> QED
          BY <5>1, <5>2
      <4> QED
        BY <1>10, <4>1, <4>2 DEF Shows
    <3> QED
      BY <1>10, <3>1, <3>2, <3>3 DEF Shows
  <2> QED
    BY <2>1, <2>2
<1>12. Falls(w, M \cup (P \ {x}))
  BY <1>9 DEF Falls
<1>13. \A i \in 1..Len(w) : w[i] <= n
  BY <1>1, <1>4, <1>6
<1> QED
  BY <1>3, <1>4, <1>5, <1>7, <1>8, <1>11, <1>12, <1>13 DEF ViewGood

\* What is shown after every receipt of a batch.
TopsTo(v, batch, n, g) == g = [i \in 0..n |-> IF i = 0 THEN v ELSE OnTop(g[i - 1], batch[i])]

LEMMA TopsExist ==
    ASSUME NEW v, NEW batch, NEW n \in Nat
    PROVE  \E g : TopsTo(v, batch, n, g)
<1> DEFINE Good == {k \in Nat : \E g : TopsTo(v, batch, k, g)}
<1>1. 0 \in Good
  <2> DEFINE g == [i \in 0..0 |-> v]
  <2>1. TopsTo(v, batch, 0, g)
    BY DEF TopsTo
  <2> HIDE DEF g
  <2> QED
    BY <2>1
<1>2. ASSUME NEW k \in Nat, k \in Good PROVE k + 1 \in Good
  <2>1. PICK f : TopsTo(v, batch, k, f)
    BY <1>2
  <2> DEFINE g == [i \in 0..k + 1 |-> IF i <= k THEN f[i] ELSE OnTop(f[k], batch[k + 1])]
  <2>2. ASSUME NEW i \in 0..k + 1
        PROVE  g[i] = IF i = 0 THEN v ELSE OnTop(g[i - 1], batch[i])
    <3>1. \A j \in 0..k : f[j] = IF j = 0 THEN v ELSE OnTop(f[j - 1], batch[j])
      BY <2>1 DEF TopsTo
    <3>2. CASE i = k + 1
      <4>1. g[i] = OnTop(f[k], batch[k + 1]) /\ g[k] = f[k] /\ i - 1 = k /\ i # 0
        BY <3>2
      <4> HIDE DEF g
      <4> QED
        BY <3>2, <4>1
    <3>3. CASE i <= k
      <4>1. g[i] = f[i] /\ (i # 0 => g[i - 1] = f[i - 1]) /\ i \in 0..k
        BY <3>3
      <4> HIDE DEF g
      <4> QED
        BY <3>1, <4>1
    <3> QED
      BY <3>2, <3>3
  <2>3. TopsTo(v, batch, k + 1, g)
    BY <2>2 DEF TopsTo
  <2> HIDE DEF g
  <2> QED
    BY <1>2, <2>3
<1> HIDE DEF Good
<1>3. n \in Good
  BY <1>1, <1>2, EveryNumber
<1> QED
  BY <1>3 DEF Good

LEMMA ShownAfterIs ==
    ASSUME NEW v, NEW batch, Len(batch) \in Nat
    PROVE  /\ ShownAfter(v, batch)[0] = v
           /\ \A i \in 1..Len(batch) : ShownAfter(v, batch)[i] = OnTop(ShownAfter(v, batch)[i - 1], batch[i])
<1>1. \E g : TopsTo(v, batch, Len(batch), g)
  BY TopsExist
<1>2. ShownAfter(v, batch) = CHOOSE g : TopsTo(v, batch, Len(batch), g)
  BY DEF ShownAfter, TopsTo
<1>3. TopsTo(v, batch, Len(batch), ShownAfter(v, batch))
  BY <1>1, <1>2
<1>4. PICK g : g = ShownAfter(v, batch)
  OBVIOUS
<1>5. PICK n : n = Len(batch)
  OBVIOUS
<1>6. TopsTo(v, batch, n, g)
  BY <1>3, <1>4, <1>5
<1>7. \A i \in 0..n : g[i] = IF i = 0 THEN v ELSE OnTop(g[i - 1], batch[i])
  BY <1>6 DEF TopsTo
<1>8. 0 \in 0..n /\ \A i \in 1..n : i \in 0..n /\ i # 0
  BY <1>5
<1>9. g[0] = v /\ \A i \in 1..n : g[i] = OnTop(g[i - 1], batch[i])
  BY <1>7, <1>8
<1> QED
  BY <1>4, <1>5, <1>9

\* A batch that is all before the others that are still to come.
RestOf(batch, i) == {batch[j] : j \in i + 1..Len(batch)}
LEMMA BatchKeeps ==
    ASSUME NEW v, NEW batch \in Seq(Nat), Increasing(batch), NEW R \in SUBSET Nat,
           \A i \in 1..Len(batch) : \A p \in R : batch[i] < p,
           NEW M, NEW C \in SUBSET Nat, C \cap M = {}, NEW most, ViewGood(v, ToSet(batch) \cup R, M, C, most),
           \A i \in 1..Len(batch) : batch[i] <= most,
           \A c \in C \ (ToSet(batch) \cup R) : \A p \in ToSet(batch) \cup R : c < p
    PROVE  ViewGood(ShownAfter(v, batch)[Len(batch)], R, M, C, most)
<1>1. PICK n : n = Len(batch)
  OBVIOUS
<1>2. n \in Nat /\ (\A x : x \in ToSet(batch) <=> \E i \in 1..n : x = batch[i]) /\ \A i \in 1..n : batch[i] \in Nat
  BY <1>1, InSequence
<1>3. PICK g : g = ShownAfter(v, batch)
  OBVIOUS
<1>4. g[0] = v /\ \A i \in 1..n : g[i] = OnTop(g[i - 1], batch[i])
  BY <1>1, <1>2, <1>3, ShownAfterIs
<1>5. \A i, k \in 1..n : i < k => batch[i] < batch[k]
  BY <1>1 DEF Increasing
<1>6. \A i \in 0..n : \A x : x \in RestOf(batch, i) <=> \E j \in 1..n : j > i /\ x = batch[j]
  <2> SUFFICES ASSUME NEW i \in 0..n, NEW x PROVE x \in RestOf(batch, i) <=> \E j \in 1..n : j > i /\ x = batch[j]
    OBVIOUS
  <2>1. \A j : j \in i + 1..n <=> j \in 1..n /\ j > i
    BY <1>2
  <2> QED
    BY <1>1, <2>1 DEF RestOf
<1> DEFINE Good == {i \in Nat : i <= n => ViewGood(g[i], RestOf(batch, i) \cup R, M, C, most)}
<1>7. 0 \in Good
  <2>1. RestOf(batch, 0) = ToSet(batch)
    <3>1. 0 \in 0..n /\ \A j \in 1..n : j > 0
      BY <1>2
    <3>2. \A x : x \in RestOf(batch, 0) <=> x \in ToSet(batch)
      BY <1>2, <1>6, <3>1
    <3> QED
      BY <3>2
  <2> QED
    BY <1>4, <2>1
<1>8. ASSUME NEW i \in Nat, i \in Good PROVE i + 1 \in Good
  <2> SUFFICES ASSUME i + 1 <= n PROVE ViewGood(g[i + 1], RestOf(batch, i + 1) \cup R, M, C, most)
    OBVIOUS
  <2>1. i \in 0..n /\ i + 1 \in 1..n /\ i + 1 \in 0..n /\ (i + 1) - 1 = i
    BY <1>2
  <2>2. PICK P : P = RestOf(batch, i) \cup R
    OBVIOUS
  <2>3. PICK x : x = batch[i + 1]
    OBVIOUS
  <2>4. ViewGood(g[i], P, M, C, most)
    BY <1>2, <1>8, <2>1, <2>2
  <2>5. x \in P /\ P \in SUBSET Nat
    <3>1. i + 1 > i
      OBVIOUS
    <3>2. x \in RestOf(batch, i)
      BY <1>6, <2>1, <2>3, <3>1
    <3>3. RestOf(batch, i) \subseteq Nat
      BY <1>2, <1>6, <2>1
    <3> QED
      BY <2>2, <3>2, <3>3
  <2>6. RestOf(batch, i + 1) \cup R = P \ {x}
    <3>1. \A j \in 1..n : j > i <=> j > i + 1 \/ j = i + 1
      OBVIOUS
    <3>2. \A j \in 1..n : j > i + 1 => batch[j] # x
      BY <1>2, <1>5, <2>1, <2>3
    <3>3. x \notin R
      BY <1>1, <1>2, <2>1, <2>3
    <3>4. \A y : y \in RestOf(batch, i + 1) <=> y \in RestOf(batch, i) /\ y # x
      BY <1>6, <2>1, <2>3, <3>1, <3>2
    <3> QED
      BY <2>2, <3>3, <3>4
  <2>7. \A p \in P \ {x} : x < p
    <3>1. \A j \in 1..n : j > i => j = i + 1 \/ i + 1 < j
      OBVIOUS
    <3>2. ASSUME NEW p \in P, p # x PROVE x < p
      <4>1. CASE p \in R
        BY <1>1, <2>1, <2>3, <4>1
      <4>2. CASE p \in RestOf(batch, i)
        <5>1. PICK j \in 1..n : j > i /\ p = batch[j]
          BY <1>6, <2>1, <4>2
        <5>2. i + 1 < j
          BY <2>3, <3>1, <3>2, <5>1
        <5> QED
          BY <1>5, <2>1, <2>3, <5>1, <5>2
      <4> QED
        BY <2>2, <3>2, <4>1, <4>2
    <3> QED
      BY <3>2
  <2>8. ASSUME NEW c \in C \ P, NEW p \in P PROVE c < p
    <3>1. p \in ToSet(batch) \cup R
      BY <1>2, <1>6, <2>1, <2>2
    <3>2. CASE c \notin ToSet(batch) \cup R
      BY <3>1, <3>2
    <3>3. CASE c \in ToSet(batch) \cup R
      <4>1. c \in ToSet(batch)
        BY <2>2, <2>8, <3>3
      <4>2. PICK j \in 1..n : c = batch[j]
        BY <1>2, <4>1
      <4>3. j <= i
        BY <1>6, <2>1, <2>2, <2>8, <4>2
      <4>4. CASE p \in R
        BY <1>1, <4>2, <4>4
      <4>5. CASE p \in RestOf(batch, i)
        <5>1. PICK k \in 1..n : k > i /\ p = batch[k]
          BY <1>6, <2>1, <4>5
        <5>2. j < k
          BY <4>3, <5>1
        <5> QED
          BY <1>5, <4>2, <5>1, <5>2
      <4> QED
        BY <2>2, <4>4, <4>5
    <3> QED
      BY <3>2, <3>3
  <2>9. x <= most
    BY <1>1, <2>1, <2>3
  <2>10. ViewGood(OnTop(g[i], x), P \ {x}, M, C, most)
    BY <2>4, <2>5, <2>7, <2>8, <2>9, OnTopKeeps
  <2> QED
    BY <1>4, <2>1, <2>3, <2>6, <2>10
<1> HIDE DEF Good
<1>9. n \in Good
  BY <1>2, <1>7, <1>8, EveryNumber
<1>10. RestOf(batch, n) = {}
  <2>1. n \in 0..n /\ \A j \in 1..n : ~(j > n)
    BY <1>2
  <2> QED
    BY <1>6, <2>1
<1>11. ViewGood(g[n], RestOf(batch, n) \cup R, M, C, most)
  BY <1>2, <1>9 DEF Good
<1>12. RestOf(batch, n) \cup R = R
  BY <1>10
<1> QED
  BY <1>1, <1>3, <1>11, <1>12

(***************************************************************************)
(* What is on its way to the page, in the order in which it is told: what  *)
(* was sent, what this refresh has read, and the writes it has not read.   *)
(***************************************************************************)
SentIds == UNION {ToSet(sent[i]) : i \in 1..Len(sent)}
Ahead == {r \in ToSet(audit) : r.rid > feed.last}
UnreadIds == IF feed.seeded THEN WriteIds(Ahead) ELSE {}
Pending == SentIds \cup ToSet(feed.fresh) \cup UnreadIds
\* What a snapshot with this label need not have.
SentAfter(at) == UNION {ToSet(sent[i]) : i \in {k \in 1..Len(sent) : tally.batches - Len(sent) + k > at}}
PendingAfter(at) == SentAfter(at) \cup ToSet(feed.fresh) \cup UnreadIds
\* The writes that a page shows which goes back to oldest.
Known(oldest) == {id \in WriteIds(ToSet(audit)) : id >= oldest /\ id \notin past.missed}

TellTyped ==
    /\ Folding
    /\ view = [seeded |-> view.seeded, receipts |-> view.receipts, last |-> view.last, shot |-> view.shot]
    /\ view.shot = [state |-> view.shot.state, at |-> view.shot.at, rows |-> view.shot.rows]
    /\ tally = [rows |-> tally.rows, moves |-> tally.moves, batches |-> tally.batches]
    /\ audit \in Seq(Rows) /\ tally.rows \in Nat /\ tally.batches \in Nat
    /\ feed.seeded \in BOOLEAN /\ feed.at \in {"idle", "queue"} /\ feed.last \in Nat
    /\ feed.fresh \in Seq(Nat) /\ past.told \in Seq(Nat) /\ sent \in Seq(Seq(Nat)) /\ view.last + Len(sent) <= tally.batches
    /\ view.seeded \in BOOLEAN /\ view.last \in Nat /\ view.shot.state \in {"none", "asked", "built"}
    /\ view.shot.at \in Nat /\ view.shot.at <= tally.batches /\ view.shot.rows \in Seq(Rows)

\* Nothing is told out of order or twice, and nothing is left out.
Ordered ==
    /\ Sorted(audit) /\ \A r \in ToSet(audit) : r.id <= tally.rows
    /\ Increasing(past.told) /\ Increasing(feed.fresh) /\ \A i \in 1..Len(sent) : Increasing(sent[i])
    /\ \A i, k \in 1..Len(sent) : i < k => \A a \in ToSet(sent[i]), b \in ToSet(sent[k]) : a < b
    /\ SentIds \subseteq ToSet(past.told)
    /\ \A a \in ToSet(past.told) \ SentIds, b \in SentIds : a < b
    /\ \A a \in ToSet(past.told), b \in ToSet(feed.fresh) : a < b
    /\ \A a \in ToSet(past.told) \cup ToSet(feed.fresh) : a <= tally.rows /\ (feed.seeded => \A r \in Ahead : a < r.id)
    /\ ~feed.seeded => past.told = <<>> /\ feed.fresh = <<>> /\ sent = <<>> /\ feed.last = 0
    /\ feed.at = "idle" => feed.fresh = <<>>
Complete ==
    feed.seeded => \A r \in ToSet(audit) :
        WritePath(r) /\ r.rid <= feed.last => r.id \in ToSet(past.told) \cup ToSet(feed.fresh) \cup past.missed

\* The page, and the snapshot that is on its way to it.
Shown ==
    ViewGood(view.receipts, Pending, past.missed, IF feed.seeded /\ view.seeded THEN Known(past.reach) ELSE {}, tally.rows)
ShotGood ==
    view.shot.state = "built" =>
        /\ Falling(view.shot.rows) /\ \A r \in ToSet(view.shot.rows) : r.id <= tally.rows
        /\ \A r \in ToSet(view.shot.rows) : WritePath(r) => r.id \in past.missed \cup Pending \/ \A p \in Pending : r.id < p
        /\ feed.seeded /\ view.last <= view.shot.at =>
              Known(Reach(view.shot.rows)) \ PendingAfter(view.shot.at) \subseteq WriteIds(ToSet(view.shot.rows))

TellIInv == TellTyped /\ Ordered /\ Complete /\ Shown /\ ShotGood

\* What is gone of the pending is missed, and what is new comes after all.
LEMMA ViewStays ==
    ASSUME NEW v, NEW P, NEW M, NEW C, NEW n \in Nat, ViewGood(v, P, M, C, n),
           NEW m \in Nat, n <= m, NEW Q, \A q \in Q \ P : q \in Nat /\ q > n, NEW N, M \subseteq N, P \ Q \subseteq N,
           NEW D, D \ Q \subseteq C \ P
    PROVE  ViewGood(v, Q, N, D, m)
<1>1. /\ v \in Seq(Nat) /\ Len(v) <= ReceiptLimit /\ Len(v) \in Nat /\ \A i \in 1..Len(v) : v[i] <= n /\ v[i] \in Nat
      /\ \A i, k \in 1..Len(v) : i # k => v[i] # v[k]
      /\ \A i \in 1..Len(v) : v[i] \in M \cup P \/ \A p \in P : v[i] < p
      /\ \A i, k \in 1..Len(v) : i < k => v[i] > v[k] \/ v[k] \in M \cup P
      /\ \A c \in C \ P : Shows(v, c)
  BY DEF ViewGood, Falls
<1>2. M \cup P \subseteq N \cup Q
  OBVIOUS
<1>3. \A i \in 1..Len(v) : v[i] <= m
  BY <1>1
<1>4. ASSUME NEW i \in 1..Len(v) PROVE v[i] \in N \cup Q \/ \A q \in Q : v[i] < q
  <2>1. CASE v[i] \in M \cup P
    BY <1>2, <2>1
  <2>2. CASE \A p \in P : v[i] < p
    <3>1. ASSUME NEW q \in Q PROVE v[i] < q
      <4>1. CASE q \in P
        BY <2>2, <4>1
      <4>2. CASE q \notin P
        <5>1. v[i] <= n /\ v[i] \in Nat /\ q \in Nat /\ q > n
          BY <1>1, <4>2
        <5> QED
          BY <5>1
      <4> QED
        BY <4>1, <4>2
    <3> QED
      BY <3>1
  <2> QED
    BY <1>1, <2>1, <2>2
<1>5. \A i, k \in 1..Len(v) : i < k => v[i] > v[k] \/ v[k] \in N \cup Q
  BY <1>1, <1>2
<1>6. \A c \in D \ Q : Shows(v, c)
  BY <1>1
<1> QED
  BY <1>1, <1>3, <1>4, <1>5, <1>6 DEF ViewGood, Falls

LEMMA PrunedIs ==
    ASSUME NEW list \in Seq(Rows), Sorted(list)
    PROVE  Pruned(list) \in Seq(Rows) /\ ToSet(Pruned(list)) \subseteq ToSet(list) /\ Sorted(Pruned(list))
<1>1. PICK n : n = Len(list)
  OBVIOUS
<1>2. n \in Nat /\ (\A i \in 1..n : list[i] \in Rows) /\ \A x : x \in ToSet(list) <=> \E i \in 1..n : x = list[i]
  BY <1>1, InSequence
<1>3. CASE Pruned(list) = list
  BY <1>3
<1>4. CASE Pruned(list) # list
  <2>1. Pruned(list) = SubSeq(list, n - AuditCap + 1, n) /\ n > AuditCap
    BY <1>1, <1>4 DEF Pruned
  <2>2. AuditCap \in Nat
    BY ReceiptsAssumption
  <2>3. PICK a : a = n - AuditCap + 1
    OBVIOUS
  <2>4. a \in Nat /\ a >= 1 /\ a <= n
    <3>1. a = (n - AuditCap) + 1 /\ AuditCap # 0
      BY <1>2, <2>2, <2>3, ReceiptsAssumption
    <3> QED
      BY <1>2, <2>1, <2>2, <3>1
  <2>5. PICK q : q = SubSeq(list, a, n)
    OBVIOUS
  <2>6. \A i \in a..n : list[i] \in Rows
    BY <1>2, <2>4
  <2>7. /\ q \in Seq(Rows) /\ Len(q) = (IF a <= n THEN n - a + 1 ELSE 0)
        /\ \A i \in 1..n - a + 1 : q[i] = list[a + i - 1]
    BY <1>1, <1>2, <2>4, <2>5, <2>6, SubSeqProperties
  <2>8. Len(q) = (n - a) + 1 /\ \A i \in 1..Len(q) : q[i] = list[(a + i) - 1] /\ (a + i) - 1 \in 1..n
    <3>1. Len(q) = (n - a) + 1
      BY <1>2, <2>4, <2>7
    <3>2. ASSUME NEW i \in 1..Len(q) PROVE q[i] = list[(a + i) - 1] /\ (a + i) - 1 \in 1..n
      <4>1. i \in 1..n - a + 1 /\ a + i - 1 = (a + i) - 1 /\ (a + i) - 1 \in 1..n
        BY <1>2, <2>4, <3>1
      <4> QED
        BY <2>7, <4>1
    <3> QED
      BY <3>1, <3>2
  <2>9. ToSet(q) \subseteq ToSet(list)
    <3>1. \A x : x \in ToSet(q) <=> \E i \in 1..Len(q) : x = q[i]
      BY <2>7, InSequence
    <3> QED
      BY <1>2, <2>8, <3>1
  <2>10. Sorted(q)
    <3>1. ASSUME NEW i \in 1..Len(q), NEW k \in 1..Len(q), i < k
          PROVE  q[i].rid < q[k].rid /\ q[i].id < q[k].id
      <4>1. (a + i) - 1 < (a + k) - 1
        BY <2>4, <2>8, <3>1
      <4> QED
        BY <1>1, <2>8, <4>1 DEF Sorted
    <3> QED
      BY <3>1 DEF Sorted
  <2> QED
    BY <2>1, <2>3, <2>5, <2>7, <2>9, <2>10
<1> QED
  BY <1>3, <1>4

LEMMA MaxRowidIs ==
    ASSUME NEW list \in Seq(Rows), Sorted(list)
    PROVE  MaxRowid(list) \in Nat /\ \A r \in ToSet(list) : r.rid <= MaxRowid(list)
<1>1. PICK n : n = Len(list)
  OBVIOUS
<1>2. n \in Nat /\ (\A i \in 1..n : list[i] \in Rows) /\ \A x : x \in ToSet(list) <=> \E i \in 1..n : x = list[i]
  BY <1>1, InSequence
<1>3. \A i \in 1..n : list[i].rid \in Nat 
  BY <1>2 DEF Rows
<1>4. PICK most : most = MaxRowid(list)
  OBVIOUS
<1>5. most \in Nat /\ \A i \in 1..n : list[i].rid <= most
  <2>1. CASE n = 0
    <3>1. list = <<>>
      BY <1>1, <2>1, EmptySeq
    <3>2. most = 0
      BY <1>4, <3>1 DEF MaxRowid
    <3>3. \A i \in 1..n : FALSE
      BY <2>1
    <3> QED
      BY <3>2, <3>3
  <2>2. CASE n # 0
    <3>1. list # <<>> /\ n \in 1..n
      BY <1>1, <1>2, <2>2
    <3>2. most = list[n].rid
      BY <1>1, <1>4, <3>1 DEF MaxRowid, Last
    <3>3. \A i \in 1..n : i < n => list[i].rid < list[n].rid
      BY <1>1, <3>1 DEF Sorted
    <3>4. ASSUME NEW i \in 1..n PROVE list[i].rid <= most
      <4>1. i < n \/ i = n
        BY <1>2
      <4>2. list[i].rid \in Nat /\ list[n].rid \in Nat
        BY <1>3, <3>1
      <4> QED
        BY <3>2, <3>3, <4>1, <4>2
    <3>5. most \in Nat
      BY <1>3, <3>1, <3>2
    <3> QED
      BY <3>4, <3>5
  <2> QED
    BY <2>1, <2>2
<1>6. \A r \in ToSet(list) : r.rid <= most
  BY <1>2, <1>5
<1> QED
  BY <1>4, <1>5, <1>6

\* The row that is inserted is the newest.
LEMMA InsertedIs ==
    ASSUME NEW list \in Seq(Rows), Sorted(list), NEW kind \in {"staged", "queued", "purge"},
           tally.rows \in Nat, \A r \in ToSet(list) : r.id <= tally.rows, NEW new,
           new = [rid |-> MaxRowid(list) + 1, id |-> tally.rows + 1, kind |-> kind]
    PROVE  /\ new \in Rows /\ new.rid = MaxRowid(list) + 1 /\ new.id = tally.rows + 1 /\ MaxRowid(list) \in Nat
           /\ \A r \in ToSet(list) : r.rid <= MaxRowid(list)
           /\ Inserted(list, kind) \in Seq(Rows) /\ Sorted(Inserted(list, kind))
           /\ \A x : x \in ToSet(Inserted(list, kind)) <=> x \in ToSet(list) \/ x = new
<1>1. PICK n : n = Len(list)
  OBVIOUS
<1>2. n \in Nat /\ (\A i \in 1..n : list[i] \in Rows) /\ \A x : x \in ToSet(list) <=> \E i \in 1..n : x = list[i]
  BY <1>1, InSequence
<1>3. \A i \in 1..n : list[i].rid \in Nat /\ list[i].id \in Nat /\ list[i].id <= tally.rows
  BY <1>2 DEF Rows
<1>4. PICK most : most = MaxRowid(list)
  OBVIOUS
<1>5. most \in Nat /\ \A i \in 1..n : list[i].rid <= most
  BY <1>2, <1>4, MaxRowidIs
<1>6. new = [rid |-> most + 1, id |-> tally.rows + 1, kind |-> kind]
  BY <1>4
<1>7. new \in Rows /\ new.rid = most + 1 /\ new.id = tally.rows + 1
  <2>1. most + 1 \in Nat \ {0} /\ tally.rows + 1 \in Nat \ {0}
    BY <1>5
  <2> QED
    BY <1>6, <2>1 DEF Rows
<1>8. PICK q : q = Append(list, new)
  OBVIOUS
<1>9. q \in Seq(Rows) /\ Len(q) = n + 1 /\ q[n + 1] = new /\ \A i \in 1..n : q[i] = list[i]
  BY <1>1, <1>7, <1>8, AppendProperties
<1>10. q = Inserted(list, kind)
  BY <1>4, <1>6, <1>8 DEF Inserted
<1>11. \A i \in 1..n + 1 : i \in 1..n \/ i = n + 1
  BY <1>2
<1>12. \A x : x \in ToSet(q) <=> x \in ToSet(list) \/ x = new
  <2>1. \A x : x \in ToSet(q) <=> \E i \in 1..n + 1 : x = q[i]
    BY <1>9, InSequence
  <2>2. n + 1 \in 1..n + 1 /\ \A i \in 1..n : i \in 1..n + 1
    BY <1>2
  <2> QED
    BY <1>2, <1>9, <1>11, <2>1, <2>2
<1>13. Sorted(q)
  <2>1. ASSUME NEW i \in 1..n + 1, NEW k \in 1..n + 1, i < k PROVE q[i].rid < q[k].rid /\ q[i].id < q[k].id
    <3>1. i \in 1..n /\ q[i] = list[i] /\ i \in Nat /\ k \in Nat
      BY <1>2, <1>9, <2>1
    <3>2. CASE k = n + 1
      <4>1. list[i].rid < most + 1 /\ list[i].id < tally.rows + 1
        BY <1>3, <1>5, <3>1
      <4> QED
        BY <1>7, <1>9, <3>1, <3>2, <4>1
    <3>3. CASE k \in 1..n
      BY <1>1, <1>9, <2>1, <3>1, <3>3 DEF Sorted
    <3> QED
      BY <1>11, <3>2, <3>3
  <2> QED
    BY <1>9, <2>1 DEF Sorted
<1>14. \A r \in ToSet(list) : r.rid <= most
  BY <1>2, <1>5
<1> QED
  BY <1>4, <1>5, <1>7, <1>9, <1>10, <1>12, <1>13, <1>14

LEMMA SortedIs ==
    ASSUME NEW list \in Seq(Rows), Sorted(list), NEW r \in ToSet(list), NEW s \in ToSet(list)
    PROVE  /\ r.rid \in Nat \ {0} /\ r.id \in Nat \ {0} /\ (r.id = s.id => r = s)
           /\ (r.rid < s.rid <=> r.id < s.id) /\ (r.rid <= s.rid <=> r.id <= s.id)
<1>1. PICK i \in 1..Len(list) : r = list[i]
  BY InSequence
<1>2. PICK k \in 1..Len(list) : s = list[k]
  BY InSequence
<1>3. r \in Rows /\ s \in Rows
  BY <1>1, <1>2, InSequence
<1>4. r.rid \in Nat \ {0} /\ r.id \in Nat \ {0} /\ s.rid \in Nat /\ s.id \in Nat
  BY <1>3 DEF Rows
<1>5. i < k \/ k < i \/ i = k
  OBVIOUS
<1>6. i < k => r.rid < s.rid /\ r.id < s.id
  BY <1>1, <1>2 DEF Sorted
<1>7. k < i => s.rid < r.rid /\ s.id < r.id
  BY <1>1, <1>2 DEF Sorted
<1>8. i = k => r = s
  BY <1>1, <1>2
<1> QED
  BY <1>4, <1>5, <1>6, <1>7, <1>8

LEMMA ToldIs ==
    ASSUME TellTyped, Ordered
    PROVE  \A a \in ToSet(past.told) \cup ToSet(feed.fresh) : a \in Nat /\ a <= tally.rows
<1>1. past.told \in Seq(Nat) /\ feed.fresh \in Seq(Nat)
  BY DEF TellTyped
<1>2. \A a \in ToSet(past.told) \cup ToSet(feed.fresh) : a \in Nat
  BY <1>1, InSequence
<1> QED
  BY <1>2 DEF Ordered

LEMMA PendingIs ==
    ASSUME TellTyped, Ordered
    PROVE  /\ Pending \in SUBSET Nat /\ \A p \in Pending : p <= tally.rows
           /\ \A r \in ToSet(audit) : r.id \in Nat \ {0} /\ r.rid \in Nat \ {0} /\ r.id <= tally.rows
<1>1. \A r \in ToSet(audit) : r.id \in Nat \ {0} /\ r.rid \in Nat \ {0} /\ r.id <= tally.rows
  BY SortedIs DEF TellTyped, Ordered
<1>2. \A a \in ToSet(past.told) \cup ToSet(feed.fresh) : a \in Nat /\ a <= tally.rows
  BY ToldIs
<1>3. \A p \in UnreadIds : p \in Nat /\ p <= tally.rows
  BY <1>1 DEF UnreadIds, WriteIds, Ahead
<1>4. SentIds \subseteq ToSet(past.told)
  BY DEF Ordered
<1> QED
  BY <1>1, <1>2, <1>3, <1>4 DEF Pending

\* A write that is neither missed nor to come was told before all that is.
LEMMA Passed ==
    ASSUME TellTyped, Ordered, Complete, feed.seeded, NEW r \in ToSet(audit), WritePath(r),
           r.id \notin past.missed, r.id \notin Pending
    PROVE  \A p \in Pending : r.id < p
<1>1. r.id \notin SentIds /\ r.id \notin ToSet(feed.fresh) /\ r.id \notin WriteIds(Ahead)
  BY DEF Pending, UnreadIds
<1>2. r.rid <= feed.last
  <2>1. r \notin Ahead
    BY <1>1 DEF WriteIds
  <2> QED
    BY <2>1, PendingIs DEF Ahead, TellTyped
<1>3. r.id \in ToSet(past.told) \ SentIds
  BY <1>1, <1>2 DEF Complete
<1>4. \A p \in SentIds : r.id < p
  BY <1>3 DEF Ordered
<1>5. \A p \in ToSet(feed.fresh) : r.id < p
  BY <1>3 DEF Ordered
<1>6. \A p \in UnreadIds : r.id < p
  BY <1>3 DEF Ordered, UnreadIds, WriteIds
<1> QED
  BY <1>4, <1>5, <1>6 DEF Pending

LEMMA AuditsTell ==
    ASSUME TellIInv, NEW list \in Seq(Rows), Sorted(list), ToSet(list) \subseteq ToSet(audit),
           NEW kind \in {"staged", "queued", "purge"}, Audits(list, kind), UNCHANGED <<feed, sent, view>>
    PROVE  TellIInv'
<1>1. PICK new : new = [rid |-> MaxRowid(list) + 1, id |-> tally.rows + 1, kind |-> kind]
  OBVIOUS
<1>2. TellTyped /\ Ordered /\ Complete /\ Shown /\ ShotGood
  BY DEF TellIInv
<1>3. tally.rows \in Nat /\ \A r \in ToSet(list) : r.id <= tally.rows
  BY <1>2 DEF TellTyped, Ordered
<1>4. /\ new \in Rows /\ new.rid = MaxRowid(list) + 1 /\ new.id = tally.rows + 1 /\ MaxRowid(list) \in Nat
      /\ Inserted(list, kind) \in Seq(Rows) /\ Sorted(Inserted(list, kind))
      /\ \A x : x \in ToSet(Inserted(list, kind)) <=> x \in ToSet(list) \/ x = new
  BY <1>1, <1>3, InsertedIs
<1>5. /\ audit' \in Seq(Rows) /\ Sorted(audit')
      /\ \A x \in ToSet(audit') : x \in ToSet(audit) \/ x = new
  <2>1. audit' = Pruned(Inserted(list, kind))
    BY DEF Audits
  <2> QED
    BY <1>4, <2>1, PrunedIs
<1>6. PICK gone : gone = {r.id : r \in {x \in ToSet(audit) : x.rid > feed.last}} \ ToSet(Ids(audit'))
  OBVIOUS
<1>7. PICK again : again = IF MaxRowid(list) < feed.last THEN {tally.rows + 1} ELSE {}
  OBVIOUS
<1>8. past' = [past EXCEPT !.missed = past.missed \cup gone \cup again] /\ tally' = [tally EXCEPT !.rows = tally.rows + 1]
  BY <1>6, <1>7 DEF Audits
<1>9. /\ past'.told = past.told /\ past'.reach = past.reach /\ past'.missed = past.missed \cup gone \cup again
      /\ past' = [told |-> past'.told, missed |-> past'.missed, folded |-> past'.folded, reach |-> past'.reach]
  BY <1>2, <1>8 DEF TellTyped, Folding
<1>10. /\ tally'.rows = tally.rows + 1 /\ tally'.batches = tally.batches
       /\ tally' = [rows |-> tally'.rows, moves |-> tally'.moves, batches |-> tally'.batches]
  BY <1>2, <1>8 DEF TellTyped
<1>11. feed' = feed /\ sent' = sent /\ view' = view
  OBVIOUS
<1>12. TellTyped'
  BY <1>2, <1>5, <1>9, <1>10, <1>11 DEF TellTyped, Folding
<1>13. \A r \in ToSet(audit) : r.id \in Nat \ {0} /\ r.rid \in Nat \ {0} /\ r.id <= tally.rows
  BY <1>2, PendingIs
<1>14. past.missed \subseteq past'.missed /\ gone \subseteq past'.missed /\ again \subseteq past'.missed
  BY <1>9
\* What is told.
<1>15. Ahead' \subseteq Ahead \cup {new}
  BY <1>5, <1>11 DEF Ahead
<1>16. Ordered'
  <2>1. \A r \in ToSet(audit') : r.id <= tally.rows + 1
    BY <1>3, <1>4, <1>5, <1>13
  <2>2. \A a \in ToSet(past.told) \cup ToSet(feed.fresh) : a \in Nat /\ a <= tally.rows
    BY <1>2, ToldIs
  <2>3. \A a \in ToSet(past.told) \cup ToSet(feed.fresh) : a <= tally.rows + 1 /\ a < new.id
    BY <1>3, <1>4, <2>2
  <2>4. \A a \in ToSet(past.told) \cup ToSet(feed.fresh) : feed.seeded => \A r \in Ahead' : a < r.id
    BY <1>2, <1>15, <2>3 DEF Ordered
  <2>5. SentIds' = SentIds
    BY <1>11 DEF SentIds
  <2> QED
    BY <1>2, <1>5, <1>9, <1>10, <1>11, <2>1, <2>3, <2>4, <2>5 DEF Ordered
<1>17. feed.last \in Nat /\ (new.rid <= feed.last => new.id \in past'.missed)
  <2>1. feed.last \in Nat
    BY <1>2 DEF TellTyped
  <2>2. ASSUME new.rid <= feed.last PROVE new.id \in again
    BY <1>4, <1>7, <2>1, <2>2
  <2> QED
    BY <1>14, <2>1, <2>2
<1>18. Complete'
  BY <1>2, <1>5, <1>9, <1>11, <1>14, <1>17 DEF Complete
\* What is on its way.
<1>19. UnreadIds' \subseteq UnreadIds \cup {new.id}
  BY <1>11, <1>15 DEF UnreadIds, WriteIds
<1>20. UnreadIds \ UnreadIds' \subseteq past'.missed
  <2>1. ASSUME NEW id \in UnreadIds, id \notin UnreadIds' PROVE id \in past'.missed
    <3>1. feed.seeded /\ id \in WriteIds(Ahead)
      BY <2>1 DEF UnreadIds
    <3>2. PICK r \in Ahead : WritePath(r) /\ id = r.id
      BY <3>1 DEF WriteIds
    <3>3. r \in ToSet(audit) /\ r.rid > feed.last
      BY <3>2 DEF Ahead
    <3>4. r \notin ToSet(audit')
      <4>1. r \notin Ahead'
        BY <1>11, <2>1, <3>1, <3>2 DEF UnreadIds, WriteIds
      <4> QED
        BY <1>11, <3>3, <4>1 DEF Ahead
    <3>5. id \notin ToSet(Ids(audit'))
      <4>1. ToSet(Ids(audit')) = {s.id : s \in ToSet(audit')}
        BY <1>5, IdsAre
      <4>2. ASSUME NEW s \in ToSet(audit'), s.id = id PROVE FALSE
        <5>1. s \in ToSet(audit)
          BY <1>3, <1>4, <1>5, <1>13, <3>2, <3>3, <4>2
        <5>2. s = r
          BY <1>2, <3>2, <3>3, <4>2, <5>1, SortedIs DEF TellTyped, Ordered
        <5> QED
          BY <3>4, <4>2, <5>2
      <4> QED
        BY <4>1, <4>2
    <3>6. id \in gone
      BY <1>6, <3>2, <3>3, <3>5
    <3> QED
      BY <1>14, <3>6
  <2> QED
    BY <2>1
<1>21. SentIds' = SentIds /\ (\A at : SentAfter(at)' = SentAfter(at))
  BY <1>10, <1>11 DEF SentIds, SentAfter
<1>22. Pending' \subseteq Pending \cup {new.id} /\ Pending \ Pending' \subseteq past'.missed
  BY <1>11, <1>19, <1>20, <1>21 DEF Pending
\* Of the writes that are known, the new one is missed or on its way.
<1>23. ASSUME feed.seeded, NEW oldest, NEW id \in Known(oldest)' PROVE id \in UnreadIds' \/ (id \in Known(oldest) /\ id # new.id)
  <2>1. PICK r \in ToSet(audit') : WritePath(r) /\ id = r.id /\ id >= oldest /\ id \notin past'.missed
    BY <1>23 DEF Known, WriteIds
  <2>2. CASE r = new
    <3>1. r.rid > feed.last
      BY <1>4, <1>17, <2>1, <2>2
    <3>2. r \in Ahead'
      BY <1>11, <2>1, <3>1 DEF Ahead
    <3> QED
      BY <1>11, <1>23, <2>1, <3>2 DEF UnreadIds, WriteIds
  <2>3. CASE r \in ToSet(audit)
    <3>1. id # new.id
      BY <1>3, <1>4, <1>13, <2>1, <2>3
    <3> QED
      BY <1>14, <2>1, <2>3, <3>1 DEF Known, WriteIds
  <2> QED
    BY <1>5, <2>2, <2>3
<1>24. \A oldest : \A id \in Known(oldest)' : id \notin past'.missed
  BY DEF Known
<1>25. Shown'
  <2>1. PICK C : C = IF feed.seeded /\ view.seeded THEN Known(past.reach) ELSE {}
    OBVIOUS
  <2>2. PICK D : D = IF feed.seeded /\ view.seeded THEN Known(past.reach)' ELSE {}
    OBVIOUS
  <2>3. D \ Pending' \subseteq C \ Pending
    <3>1. ASSUME NEW id \in D, id \notin Pending' PROVE id \in C \ Pending
      <4>1. feed.seeded /\ view.seeded /\ id \in Known(past.reach)'
        BY <2>2, <3>1
      <4>2. id \notin UnreadIds' /\ id \notin past'.missed
        BY <1>24, <3>1, <4>1 DEF Pending
      <4>3. id \in Known(past.reach)
        BY <1>9, <1>23, <4>1, <4>2
      <4> QED
        BY <1>22, <2>1, <3>1, <4>1, <4>2, <4>3
    <3> QED
      BY <3>1
  <2>4. ViewGood(view.receipts, Pending, past.missed, C, tally.rows)
    BY <1>2, <2>1 DEF Shown
  <2>5. \A q \in Pending' \ Pending : q \in Nat /\ q > tally.rows
    BY <1>3, <1>4, <1>22
  <2>6. tally.rows + 1 \in Nat /\ tally.rows <= tally.rows + 1
    BY <1>3
  <2>7. ViewGood(view.receipts, Pending', past'.missed, D, tally.rows + 1)
    BY <1>3, <1>14, <1>22, <2>3, <2>4, <2>5, <2>6, ViewStays
  <2> QED
    BY <1>10, <1>11, <2>2, <2>7 DEF Shown
<1>26. ShotGood'
  <2> SUFFICES ASSUME view.shot.state = "built" PROVE ShotGood'
    BY <1>11 DEF ShotGood
  <2>1. PICK list2 : list2 = view.shot.rows
    OBVIOUS
  <2>2. PICK at : at = view.shot.at
    OBVIOUS
  <2>3. /\ Falling(list2) /\ \A r \in ToSet(list2) : r.id <= tally.rows
        /\ \A r \in ToSet(list2) : WritePath(r) => r.id \in past.missed \cup Pending \/ \A p \in Pending : r.id < p
        /\ feed.seeded /\ view.last <= at => Known(Reach(list2)) \ PendingAfter(at) \subseteq WriteIds(ToSet(list2))
    BY <1>2, <2>1, <2>2 DEF ShotGood
  <2>4. \A r \in ToSet(list2) : r.id \in Nat
    <3>1. list2 \in Seq(Rows)
      BY <1>2, <2>1 DEF TellTyped
    <3>2. \A r \in ToSet(list2) : r \in Rows
      BY <3>1, InSequence
    <3> QED
      BY <3>2 DEF Rows
  <2>5. \A r \in ToSet(list2) : r.id <= tally.rows + 1 /\ r.id < new.id
    BY <1>3, <1>4, <2>3, <2>4
  <2>6. \A r \in ToSet(list2) : WritePath(r) => r.id \in past'.missed \cup Pending' \/ \A p \in Pending' : r.id < p
    <3>1. ASSUME NEW r \in ToSet(list2), WritePath(r) PROVE r.id \in past'.missed \cup Pending' \/ \A p \in Pending' : r.id < p
      <4>1. CASE r.id \in past.missed \cup Pending
        BY <1>14, <1>22, <4>1
      <4>2. CASE \A p \in Pending : r.id < p
        BY <1>22, <2>5, <4>2
      <4> QED
        BY <2>3, <3>1, <4>1, <4>2
    <3> QED
      BY <3>1
  <2>7. ASSUME feed.seeded, view.last <= at PROVE Known(Reach(list2))' \ PendingAfter(at)' \subseteq WriteIds(ToSet(list2))
    <3>1. ASSUME NEW id \in Known(Reach(list2))', id \notin PendingAfter(at)' PROVE id \in WriteIds(ToSet(list2))
      <4>1. id \notin UnreadIds' /\ id \notin past'.missed /\ id \notin SentAfter(at) /\ id \notin ToSet(feed.fresh)
        BY <1>11, <1>21, <1>24, <3>1 DEF PendingAfter
      <4>2. id \in Known(Reach(list2))
        BY <1>23, <2>7, <3>1, <4>1
      <4>3. id \notin UnreadIds
        BY <1>20, <4>1
      <4> QED
        BY <2>3, <2>7, <4>1, <4>2, <4>3 DEF PendingAfter
    <3> QED
      BY <3>1
  <2> QED
    BY <1>10, <1>11, <2>1, <2>2, <2>3, <2>5, <2>6, <2>7 DEF ShotGood
<1> QED
  BY <1>12, <1>16, <1>18, <1>25, <1>26 DEF TellIInv

\* Steps that leave on its way what was on its way.
LEMMA OnTheWay ==
    ASSUME Shown, ShotGood, UNCHANGED <<audit, view>>, tally'.rows = tally.rows, feed'.seeded = feed.seeded,
           past'.missed = past.missed, past'.reach = past.reach,
           Pending' = Pending, NEW at, at = view.shot.at, PendingAfter(at)' = PendingAfter(at)
    PROVE  Shown' /\ ShotGood'
<1>1. \A oldest : Known(oldest)' = Known(oldest)
  BY DEF Known
<1>2. Shown'
  BY <1>1 DEF Shown
<1>3. ShotGood'
  BY <1>1 DEF ShotGood
<1> QED
  BY <1>2, <1>3

LEMMA SeedTells ==
    ASSUME TellIInv, Seed
    PROVE  TellIInv'
<1>1. TellTyped /\ Ordered /\ Complete /\ Shown /\ ShotGood
  BY DEF TellIInv
<1>2. PICK most : most = MaxRowid(audit)
  OBVIOUS
<1>3. PICK all : all = past.missed \cup ToSet(Ids(audit))
  OBVIOUS
<1>4. /\ feed.at = "idle" /\ ~feed.seeded /\ UNCHANGED <<audit, jobs, sent, view, tally>>
      /\ feed' = [feed EXCEPT !.at = "queue", !.seeded = TRUE, !.first = TRUE, !.last = most]
      /\ past' = [past EXCEPT !.missed = all]
  BY <1>2, <1>3 DEF Seed
<1>5. /\ feed'.at = "queue" /\ feed'.seeded = TRUE /\ feed'.last = most /\ feed'.fresh = feed.fresh
      /\ past'.missed = all /\ past'.told = past.told /\ past'.reach = past.reach /\ Folding'
  BY <1>1, <1>4 DEF TellTyped, Folding
<1>6. most \in Nat /\ \A r \in ToSet(audit) : r.rid <= most /\ r.rid \in Nat
  BY <1>1, <1>2, MaxRowidIs, PendingIs DEF TellTyped, Ordered
<1>7. past.told = <<>> /\ feed.fresh = <<>> /\ sent = <<>>
  BY <1>1, <1>4 DEF Ordered
<1>8. Ahead' = {}
  BY <1>4, <1>5, <1>6 DEF Ahead
<1>9. ToSet(<<>>) = {} /\ Len(<<>>) = 0
  BY DEF ToSet
<1>10. SentIds' = {} /\ UnreadIds' = {} /\ Pending' = {} /\ SentIds = {} /\ Pending = {}
  <2>1. SentIds' = {} /\ SentIds = {}
    BY <1>4, <1>7, <1>9 DEF SentIds
  <2>2. UnreadIds' = {}
    BY <1>8 DEF UnreadIds, WriteIds
  <2>3. UnreadIds = {}
    BY <1>4 DEF UnreadIds
  <2> QED
    BY <1>5, <1>7, <1>9, <2>1, <2>2, <2>3 DEF Pending
<1>11. \A r \in ToSet(audit) : r.id \in all
  BY <1>1, <1>3, IdsAre DEF TellTyped
<1>12. \A oldest : Known(oldest)' = {}
  BY <1>4, <1>5, <1>11 DEF Known, WriteIds
<1>13. TellTyped'
  BY <1>1, <1>4, <1>5, <1>6 DEF TellTyped
<1>14. Ordered'
  BY <1>1, <1>4, <1>5, <1>7, <1>8, <1>9, <1>10 DEF Ordered
<1>15. Complete'
  BY <1>4, <1>5, <1>11 DEF Complete
<1>16. Shown'
  <2>1. ViewGood(view.receipts, Pending, past.missed, {}, tally.rows) /\ tally.rows \in Nat
    BY <1>1, <1>4 DEF Shown, TellTyped
  <2>2. past.missed \subseteq all /\ tally.rows <= tally.rows
    BY <1>3, <2>1
  <2>3. ViewGood(view.receipts, {}, all, {}, tally.rows)
    BY <1>10, <2>1, <2>2, ViewStays
  <2> QED
    BY <1>4, <1>5, <1>10, <1>12, <2>3 DEF Shown
<1>17. ShotGood'
  BY <1>1, <1>4, <1>10, <1>12 DEF ShotGood
<1> QED
  BY <1>13, <1>14, <1>15, <1>16, <1>17 DEF TellIInv

\* The rows that a refresh reads are those up to the last of them.
LEMMA ReadIs ==
    ASSUME TellTyped, Ordered, NEW read, read = FirstOf(BatchLimit, Kept(audit, {r \in ToSet(audit) : r.rid > feed.last}))
    PROVE  /\ read \in Seq(Rows) /\ Sorted(read) /\ ToSet(read) \subseteq Ahead
           /\ NextBaseline(read) \in Nat /\ NextBaseline(read) >= feed.last
           /\ \A r \in Ahead : r.rid <= NextBaseline(read) <=> r \in ToSet(read)
<1>1. PICK q : q = Kept(audit, {r \in ToSet(audit) : r.rid > feed.last})
  OBVIOUS
<1>2. audit \in Seq(Rows) /\ Sorted(audit) /\ feed.last \in Nat
  BY DEF TellTyped, Ordered
<1>3. q \in Seq(Rows) /\ Within(q, audit) /\ \A x : x \in ToSet(q) <=> x \in ToSet(audit) /\ x \in {r \in ToSet(audit) : r.rid > feed.last}
  BY <1>1, <1>2, KeptIsWithin
<1>4. ToSet(q) = Ahead /\ Sorted(q)
  BY <1>2, <1>3, WithinIs DEF Ahead
<1>5. BatchLimit \in Nat /\ BatchLimit >= 1
  BY ReceiptsAssumption
<1>6. /\ read \in Seq(Rows) /\ Len(read) = (IF Len(q) < BatchLimit THEN Len(q) ELSE BatchLimit) /\ Len(read) <= Len(q)
      /\ \A i \in 1..Len(read) : read[i] = q[i]
  BY <1>1, <1>3, <1>5, FirstOfIs
<1>7. Within(read, q)
  BY <1>1, <1>3, <1>5, FirstIsWithin
<1>8. Sorted(read) /\ ToSet(read) \subseteq Ahead
  BY <1>3, <1>4, <1>6, <1>7, WithinIs
<1>9. PICK n : n = Len(read)
  OBVIOUS
<1>10. PICK next : next = NextBaseline(read)
  OBVIOUS
<1>11. n \in Nat /\ Len(q) \in Nat /\ (\A x : x \in ToSet(read) <=> \E i \in 1..n : x = read[i]) /\ (\A x : x \in ToSet(q) <=> \E i \in 1..Len(q) : x = q[i])
  <2>1. Len(read) \in Nat /\ \A x : x \in ToSet(read) <=> \E i \in 1..Len(read) : x = read[i]
    BY <1>6, InSequence
  <2>2. Len(q) \in Nat /\ \A x : x \in ToSet(q) <=> \E i \in 1..Len(q) : x = q[i]
    BY <1>3, InSequence
  <2> QED
    BY <1>9, <2>1, <2>2
<1>12. \A r \in Ahead : r.rid \in Nat /\ r.rid > feed.last
  BY PendingIs DEF Ahead
<1>13. CASE n = 0
  <2>1. read = <<>> /\ Len(q) = 0
    <3>1. Len(read) = 0
      BY <1>9, <1>13
    <3>2. read = <<>>
      BY <1>6, <3>1, EmptySeq
    <3>3. Len(q) = 0
      BY <1>5, <1>6, <1>11, <3>1
    <3> QED
      BY <3>2, <3>3
  <2>2. Ahead = {}
    <3>1. \A i \in 1..Len(q) : FALSE
      BY <2>1
    <3> QED
      BY <1>4, <1>11, <3>1
  <2>3. next = feed.last
    BY <1>10, <2>1 DEF NextBaseline
  <2>4. next \in Nat /\ next >= feed.last
    BY <1>2, <2>3
  <2>5. \A r \in Ahead : r.rid <= next <=> r \in ToSet(read)
    BY <2>2
  <2> QED
    BY <1>6, <1>8, <1>10, <2>4, <2>5
<1>14. CASE n # 0
  <2>1. n \in 1..n /\ n \in 1..Len(q) /\ read # <<>>
    <3>1. Len(<<>>) = 0
      OBVIOUS
    <3> QED
      BY <1>6, <1>9, <1>11, <1>14, <3>1
  <2>2. next = read[n].rid /\ read[n] = q[n]
    BY <1>6, <1>9, <1>10, <2>1 DEF NextBaseline, Last
  <2>3. read[n] \in Ahead
    BY <1>8, <1>11, <2>1
  <2>4. next \in Nat /\ next > feed.last
    BY <1>12, <2>2, <2>3
  <2>5. ASSUME NEW r \in Ahead PROVE r.rid <= next <=> r \in ToSet(read)
    <3>1. PICK j \in 1..Len(q) : r = q[j]
      BY <1>4, <1>11, <2>5
    <3>2. CASE j <= n
      <4>1. j \in 1..n
        BY <1>11, <3>2
      <4>2. r \in ToSet(read)
        BY <1>6, <1>9, <1>11, <3>1, <4>1
      <4>3. j < n => q[j].rid < q[n].rid
        BY <1>4, <2>1 DEF Sorted
      <4>4. j < n \/ j = n
        BY <3>2, <4>1, <1>11
      <4>5. r.rid <= next
        BY <1>12, <2>2, <2>4, <2>5, <3>1, <4>3, <4>4
      <4> QED
        BY <4>2, <4>5
    <3>3. CASE ~(j <= n)
      <4>1. q[n].rid < q[j].rid
        BY <1>4, <1>11, <2>1, <3>3 DEF Sorted
      <4>2. ~(r.rid <= next)
        BY <1>12, <2>2, <2>4, <2>5, <3>1, <4>1
      <4>3. r \notin ToSet(read)
        <5>1. ASSUME NEW i \in 1..n, r = read[i] PROVE FALSE
          <6>1. r = q[i] /\ i < j /\ i \in 1..Len(q)
            BY <1>6, <1>9, <1>11, <3>3, <5>1
          <6>2. q[i].rid < q[j].rid
            BY <1>4, <6>1 DEF Sorted
          <6> QED
            BY <1>12, <2>5, <3>1, <6>1, <6>2
        <5> QED
          BY <1>11, <5>1
      <4> QED
        BY <4>2, <4>3
    <3> QED
      BY <3>2, <3>3
  <2> QED
    BY <1>2, <1>6, <1>8, <1>10, <2>4, <2>5
<1> QED
  BY <1>13, <1>14

LEMMA ReadTailTells ==
    ASSUME TellIInv, ReadTail
    PROVE  TellIInv'
<1>1. TellTyped /\ Ordered /\ Complete /\ Shown /\ ShotGood
  BY DEF TellIInv
<1>2. PICK read : read = FirstOf(BatchLimit, Kept(audit, {r \in ToSet(audit) : r.rid > feed.last}))
  OBVIOUS
<1>3. PICK next : next = NextBaseline(read)
  OBVIOUS
<1>4. PICK new : new = Receipts(read)
  OBVIOUS
<1>5. /\ feed.at = "idle" /\ feed.seeded /\ UNCHANGED <<audit, jobs, sent, view, tally, past>>
      /\ feed' = [feed EXCEPT !.at = "queue", !.first = FALSE, !.last = next, !.fresh = new]
  BY <1>2, <1>3, <1>4 DEF ReadTail
<1>6. feed'.at = "queue" /\ feed'.seeded = feed.seeded /\ feed'.last = next /\ feed'.fresh = new /\ Folding'
  BY <1>1, <1>5 DEF TellTyped, Folding
<1>7. /\ read \in Seq(Rows) /\ Sorted(read) /\ ToSet(read) \subseteq Ahead /\ next \in Nat /\ next >= feed.last
      /\ \A r \in Ahead : r.rid <= next <=> r \in ToSet(read)
  BY <1>1, <1>2, <1>3, ReadIs
<1>8. new \in Seq(Nat) /\ ToSet(new) = WriteIds(ToSet(read)) /\ Increasing(new)
  BY <1>4, <1>7, ReceiptsAre
<1>9. feed.fresh = <<>> /\ ToSet(feed.fresh) = {} /\ feed.last \in Nat
  BY <1>1, <1>5 DEF Ordered, ToSet, TellTyped
<1>10. \A r \in ToSet(audit) : r.id \in Nat \ {0} /\ r.rid \in Nat \ {0} /\ r.id <= tally.rows
  BY <1>1, PendingIs
<1>11. Ahead' = Ahead \ ToSet(read)
  <2>1. ASSUME NEW r \in ToSet(audit) PROVE r.rid > next <=> r.rid > feed.last /\ ~(r.rid <= next)
    BY <1>7, <1>9, <1>10
  <2> QED
    BY <1>5, <1>6, <1>7, <2>1 DEF Ahead
<1>12. UnreadIds = ToSet(new) \cup UnreadIds'
  BY <1>5, <1>6, <1>7, <1>8, <1>11 DEF UnreadIds, WriteIds
<1>13. SentIds' = SentIds /\ \A at : SentAfter(at)' = SentAfter(at)
  BY <1>5 DEF SentIds, SentAfter
<1>14. Pending' = Pending /\ \A at : PendingAfter(at)' = PendingAfter(at)
  BY <1>6, <1>9, <1>12, <1>13 DEF Pending, PendingAfter
<1>15. TellTyped'
  BY <1>1, <1>5, <1>6, <1>7, <1>8 DEF TellTyped
<1>16. \A a \in ToSet(new) : \E r \in ToSet(read) : a = r.id
  BY <1>8 DEF WriteIds
<1>17. Ordered'
  <2>1. \A a \in ToSet(past.told), b \in ToSet(new) : a < b
    BY <1>1, <1>5, <1>7, <1>16 DEF Ordered
  <2>2. ASSUME NEW a \in ToSet(new), NEW s \in Ahead' PROVE a <= tally.rows /\ a < s.id
    <3>1. PICK r \in ToSet(read) : a = r.id
      BY <1>16
    <3>2. r \in Ahead /\ s \in Ahead /\ r \in ToSet(audit) /\ s \in ToSet(audit) /\ s \notin ToSet(read)
      BY <1>7, <1>11 DEF Ahead
    <3>3. r.rid <= next /\ ~(s.rid <= next)
      BY <1>7, <3>2
    <3>4. r.rid < s.rid
      BY <1>7, <1>10, <3>2, <3>3
    <3>5. r.id < s.id
      BY <1>1, <3>2, <3>4, SortedIs DEF TellTyped, Ordered
    <3> QED
      BY <1>10, <3>1, <3>2, <3>5
  <2>3. \A a \in ToSet(new) : a <= tally.rows
    BY <1>7, <1>10, <1>16 DEF Ahead
  <2>4. \A a \in ToSet(past.told) : a <= tally.rows /\ \A s \in Ahead' : a < s.id
    BY <1>1, <1>5, <1>11 DEF Ordered
  <2>5. \A a \in ToSet(past.told) \cup ToSet(new) : a <= tally.rows /\ \A s \in Ahead' : a < s.id
    BY <2>2, <2>3, <2>4
  <2> QED
    BY <1>1, <1>5, <1>6, <1>8, <1>13, <2>1, <2>5 DEF Ordered
<1>18. Complete'
  <2>1. ASSUME NEW r \in ToSet(audit), WritePath(r), r.rid <= next
        PROVE  r.id \in ToSet(past.told) \cup ToSet(new) \cup past.missed
    <3>1. CASE r.rid <= feed.last
      BY <1>1, <1>5, <1>9, <2>1, <3>1 DEF Complete
    <3>2. CASE ~(r.rid <= feed.last)
      <4>1. r \in Ahead
        BY <1>9, <1>10, <3>2 DEF Ahead
      <4>2. r \in ToSet(read)
        BY <1>7, <2>1, <4>1
      <4> QED
        BY <1>8, <2>1, <4>2 DEF WriteIds
    <3> QED
      BY <3>1, <3>2
  <2> QED
    BY <1>5, <1>6, <2>1 DEF Complete
<1>19. Shown' /\ ShotGood'
  BY <1>1, <1>5, <1>6, <1>14, OnTheWay
<1> QED
  BY <1>15, <1>17, <1>18, <1>19 DEF TellIInv

\* Of an empty list.
LEMMA NothingIn == ToSet(<<>>) = {} /\ Len(<<>>) = 0
BY DEF ToSet

LEMMA EndRefreshTells ==
    ASSUME TellIInv, FoldIInv, NEW ok \in BOOLEAN, EndRefresh(ok)
    PROVE  TellIInv'
<1>1. TellTyped /\ Ordered /\ Complete /\ Shown /\ ShotGood
  BY DEF TellIInv
<1>2. PICK changes, read, folded :
        /\ feed.at = "queue" /\ UNCHANGED <<audit, jobs, view>>
        /\ feed' = [feed EXCEPT !.at = "idle", !.fresh = <<>>, !.jobs = read]
        /\ sent' = IF feed.fresh = <<>> /\ DOMAIN changes = {} THEN sent ELSE Append(sent, feed.fresh)
        /\ tally' = [tally EXCEPT !.batches = @ + Len(sent') - Len(sent)]
        /\ past' = [past EXCEPT !.told = past.told \o feed.fresh, !.folded = folded]
  BY DEF EndRefresh, Send
<1>3. feed.seeded
  BY <1>2 DEF FoldIInv
<1>4. PICK n : n = Len(sent)
  OBVIOUS
<1>5. PICK b : b = tally.batches
  OBVIOUS
<1>6. PICK c : c = tally'.batches
  OBVIOUS
<1>7. /\ n \in Nat /\ b \in Nat /\ view.last + n <= b /\ view.last \in Nat /\ sent \in Seq(Seq(Nat)) /\ feed.fresh \in Seq(Nat)
      /\ past.told \in Seq(Nat) /\ \A i \in 1..n : sent[i] \in Seq(Nat)
  BY <1>1, <1>4, <1>5, InSequence DEF TellTyped
<1>8. /\ feed'.at = "idle" /\ feed'.seeded = feed.seeded /\ feed'.last = feed.last /\ feed'.fresh = <<>>
      /\ past'.told = past.told \o feed.fresh /\ past'.missed = past.missed /\ past'.reach = past.reach /\ Folding'
      /\ tally'.rows = tally.rows /\ c = b + Len(sent') - n
      /\ tally' = [rows |-> tally'.rows, moves |-> tally'.moves, batches |-> tally'.batches]
  BY <1>1, <1>2, <1>4, <1>5, <1>6 DEF TellTyped, Folding
<1>9. past'.told \in Seq(Nat) /\ ToSet(past'.told) = ToSet(past.told) \cup ToSet(feed.fresh) /\ Increasing(past'.told)
  <2>1. PICK k : k = Len(past.told)
    OBVIOUS
  <2>2. PICK m : m = Len(feed.fresh)
    OBVIOUS
  <2>3. k \in Nat /\ m \in Nat
    BY <1>7, <2>1, <2>2
  <2>4. PICK t : t = past'.told
    OBVIOUS
  <2>5. /\ t \in Seq(Nat) /\ Len(t) = k + m
        /\ \A i \in 1..k + m : t[i] = IF i <= k THEN past.told[i] ELSE feed.fresh[i - k]
    <3>1. PICK h : h = past.told
      OBVIOUS
    <3>2. PICK g : g = feed.fresh
      OBVIOUS
    <3>3. h \in Seq(Nat) /\ g \in Seq(Nat)
      BY <1>7, <3>1, <3>2
    <3>4. /\ h \o g \in Seq(Nat) /\ Len(h \o g) = Len(h) + Len(g)
          /\ \A i \in 1..Len(h) + Len(g) : (h \o g)[i] = IF i <= Len(h) THEN h[i] ELSE g[i - Len(h)]
      BY <3>3, ConcatProperties
    <3>5. t = h \o g /\ k = Len(h) /\ m = Len(g)
      BY <1>8, <2>1, <2>2, <2>4, <3>1, <3>2
    <3> QED
      BY <3>1, <3>2, <3>4, <3>5
  <2>6. \A i \in 1..k : t[i] = past.told[i] /\ i \in 1..k + m
    BY <2>3, <2>5
  <2>7. \A i \in 1..m : t[i + k] = feed.fresh[i] /\ i + k \in 1..k + m
    <3>1. ASSUME NEW i \in 1..m PROVE t[i + k] = feed.fresh[i] /\ i + k \in 1..k + m
      <4>1. i + k \in 1..k + m /\ ~(i + k <= k) /\ (i + k) - k = i
        BY <2>3
      <4> QED
        BY <2>5, <4>1
    <3> QED
      BY <3>1
  <2>8. \A i \in 1..k + m : i \in 1..k \/ (i - k \in 1..m /\ (i - k) + k = i)
    BY <2>3
  <2>9. (\A x : x \in ToSet(t) <=> \E i \in 1..k + m : x = t[i]) /\ (\A x : x \in ToSet(past.told) <=> \E i \in 1..k : x = past.told[i])
        /\ (\A x : x \in ToSet(feed.fresh) <=> \E i \in 1..m : x = feed.fresh[i])
    <3>1. \A x : x \in ToSet(t) <=> \E i \in 1..k + m : x = t[i]
      BY <2>5, InSequence
    <3>2. \A x : x \in ToSet(past.told) <=> \E i \in 1..k : x = past.told[i]
      BY <1>7, <2>1, InSequence
    <3>3. \A x : x \in ToSet(feed.fresh) <=> \E i \in 1..m : x = feed.fresh[i]
      BY <1>7, <2>2, InSequence
    <3> QED
      BY <3>1, <3>2, <3>3
  <2>10. ASSUME NEW x PROVE x \in ToSet(t) <=> x \in ToSet(past.told) \/ x \in ToSet(feed.fresh)
    <3>1. x \in ToSet(t) => x \in ToSet(past.told) \/ x \in ToSet(feed.fresh)
      <4>1. SUFFICES ASSUME NEW i \in 1..k + m, x = t[i] PROVE x \in ToSet(past.told) \/ x \in ToSet(feed.fresh)
        BY <2>9
      <4>2. CASE i \in 1..k
        BY <2>6, <2>9, <4>1, <4>2
      <4>3. CASE i - k \in 1..m /\ (i - k) + k = i
        BY <2>7, <2>9, <4>1, <4>3
      <4> QED
        BY <2>8, <4>2, <4>3
    <3>2. x \in ToSet(past.told) => x \in ToSet(t)
      BY <2>6, <2>9
    <3>3. x \in ToSet(feed.fresh) => x \in ToSet(t)
      BY <2>7, <2>9
    <3> QED
      BY <3>1, <3>2, <3>3
  <2>11. \A i, j \in 1..k : i < j => past.told[i] < past.told[j]
    BY <1>1, <2>1 DEF Ordered, Increasing
  <2>12. \A i, j \in 1..m : i < j => feed.fresh[i] < feed.fresh[j]
    BY <1>1, <2>2 DEF Ordered, Increasing
  <2>13. \A i \in 1..k, j \in 1..m : past.told[i] < feed.fresh[j]
    BY <1>1, <2>9 DEF Ordered
  <2>14. ASSUME NEW i \in 1..k + m, NEW j \in 1..k + m, i < j PROVE t[i] < t[j]
    <3>1. CASE i \in 1..k /\ j \in 1..k
      BY <2>6, <2>11, <2>14, <3>1
    <3>2. CASE i \in 1..k /\ j \notin 1..k
      <4>1. t[i] = past.told[i]
        BY <2>6, <3>2
      <4>2. t[j] = feed.fresh[j - k] /\ j - k \in 1..m
        BY <2>7, <2>8, <3>2
      <4> QED
        BY <2>13, <3>2, <4>1, <4>2
    <3>3. CASE i \notin 1..k
      <4>1. t[i] = feed.fresh[i - k] /\ i - k \in 1..m
        BY <2>7, <2>8, <3>3
      <4>2. j \notin 1..k /\ i - k < j - k
        BY <2>3, <2>14, <3>3
      <4>3. t[j] = feed.fresh[j - k] /\ j - k \in 1..m
        BY <2>7, <2>8, <4>2
      <4> QED
        BY <2>12, <4>1, <4>2, <4>3
    <3> QED
      BY <3>1, <3>2, <3>3
  <2>15. ToSet(t) = ToSet(past.told) \cup ToSet(feed.fresh)
    BY <2>10
  <2>16. Increasing(t)
    BY <2>5, <2>14 DEF Increasing
  <2> QED
    BY <2>4, <2>5, <2>15, <2>16
<1>10. Ahead' = Ahead /\ UnreadIds' = UnreadIds /\ ToSet(feed'.fresh) = {}
  <2>1. Ahead' = Ahead
    BY <1>2, <1>8 DEF Ahead
  <2>2. UnreadIds' = UnreadIds
    BY <1>8, <2>1 DEF UnreadIds
  <2> QED
    BY <1>8, <2>1, <2>2, NothingIn
\* What was sent, and this batch if there is one.
<1>11. /\ sent' \in Seq(Seq(Nat)) /\ view.last + Len(sent') <= c /\ c \in Nat /\ b <= c /\ SentIds' = SentIds \cup ToSet(feed.fresh)
       /\ \A at : at \in Nat /\ at <= b => SentAfter(at)' = SentAfter(at) \cup ToSet(feed.fresh)
       /\ \A i \in 1..Len(sent') : Increasing(sent'[i])
       /\ \A i, k \in 1..Len(sent') : i < k => \A x \in ToSet(sent'[i]), y \in ToSet(sent'[k]) : x < y
  <2>1. CASE sent' = sent /\ feed.fresh = <<>>
    <3>1. c = b
      BY <1>4, <1>7, <1>8, <2>1
    <3>2. ToSet(feed.fresh) = {}
      BY <2>1, NothingIn
    <3>3. SentIds' = SentIds /\ \A at : SentAfter(at)' = SentAfter(at)
      BY <1>5, <1>6, <2>1, <3>1 DEF SentIds, SentAfter
    <3> QED
      BY <1>1, <1>4, <1>7, <2>1, <3>1, <3>2, <3>3 DEF Ordered
  <2>2. CASE sent' = Append(sent, feed.fresh)
    <3>1. PICK s : s = sent'
      OBVIOUS
    <3>2. s \in Seq(Seq(Nat)) /\ Len(s) = n + 1 /\ s[n + 1] = feed.fresh /\ \A i \in 1..n : s[i] = sent[i]
      BY <1>4, <1>7, <2>2, <3>1, AppendProperties
    <3>3. c = b + 1
      BY <1>7, <1>8, <3>1, <3>2
    <3>4. \A i \in 1..n + 1 : i \in 1..n \/ i = n + 1
      BY <1>7
    <3>5. n + 1 \in 1..n + 1 /\ \A i \in 1..n : i \in 1..n + 1
      BY <1>7
    <3>6. SentIds' = SentIds \cup ToSet(feed.fresh)
      <4>1. \A x : x \in SentIds' <=> \E i \in 1..n + 1 : x \in ToSet(s[i])
        BY <3>1, <3>2 DEF SentIds
      <4>2. \A x : x \in SentIds <=> \E i \in 1..n : x \in ToSet(sent[i])
        BY <1>4 DEF SentIds
      <4> QED
        BY <3>2, <3>4, <3>5, <4>1, <4>2
    <3>7. ASSUME NEW at, at \in Nat, at <= b PROVE SentAfter(at)' = SentAfter(at) \cup ToSet(feed.fresh)
      <4>1. \A x : x \in SentAfter(at)' <=> \E i \in 1..n + 1 : c - (n + 1) + i > at /\ x \in ToSet(s[i])
        BY <1>6, <3>1, <3>2 DEF SentAfter
      <4>2. \A x : x \in SentAfter(at) <=> \E i \in 1..n : b - n + i > at /\ x \in ToSet(sent[i])
        BY <1>4, <1>5 DEF SentAfter
      <4>3. \A i \in 1..n : c - (n + 1) + i > at <=> b - n + i > at
        BY <1>7, <3>3
      <4>4. c - (n + 1) + (n + 1) > at
        BY <1>7, <3>3, <3>7
      <4> QED
        BY <3>2, <3>4, <3>5, <4>1, <4>2, <4>3, <4>4
    <3>8. \A i \in 1..n + 1 : Increasing(s[i])
      BY <1>1, <1>4, <3>2, <3>4 DEF Ordered
    <3>9. ASSUME NEW i \in 1..n + 1, NEW k \in 1..n + 1, i < k, NEW x \in ToSet(s[i]), NEW y \in ToSet(s[k]) PROVE x < y
      <4>1. i \in 1..n
        BY <1>7, <3>9
      <4>2. CASE k \in 1..n
        BY <1>1, <1>4, <3>2, <3>9, <4>1, <4>2 DEF Ordered
      <4>3. CASE k = n + 1
        <5>1. x \in SentIds /\ y \in ToSet(feed.fresh)
          BY <1>4, <3>2, <3>9, <4>1, <4>3 DEF SentIds
        <5> QED
          BY <1>1, <5>1 DEF Ordered
      <4> QED
        BY <3>4, <4>2, <4>3
    <3>10. view.last + (n + 1) <= c /\ c \in Nat /\ b <= c
      BY <1>7, <3>3
    <3> QED
      BY <3>1, <3>2, <3>6, <3>7, <3>8, <3>9, <3>10
  <2> QED
    BY <1>2, <2>1, <2>2
<1>12. Pending' = Pending
  BY <1>10, <1>11 DEF Pending
<1>13. PICK at : at = view.shot.at
  OBVIOUS
<1>14. PendingAfter(at)' = PendingAfter(at)
  <2>1. at \in Nat /\ at <= b
    BY <1>1, <1>5, <1>13 DEF TellTyped
  <2> QED
    BY <1>10, <1>11, <2>1 DEF PendingAfter
<1>15. TellTyped'
  <2>1. feed'.fresh \in Seq(Nat)
    BY <1>8, EmptySeq
  <2>2. view.shot.at <= c
    <3>1. view.shot.at \in Nat /\ view.shot.at <= b
      BY <1>1, <1>5 DEF TellTyped
    <3> QED
      BY <1>7, <1>11, <3>1
  <2> QED
    BY <1>1, <1>2, <1>6, <1>8, <1>9, <1>11, <2>1, <2>2 DEF TellTyped
<1>16. Ordered'
  <2>1. \A x \in ToSet(past'.told) : x <= tally.rows /\ \A r \in Ahead : x < r.id
    BY <1>1, <1>3, <1>9 DEF Ordered
  <2>2. SentIds' \subseteq ToSet(past'.told)
    BY <1>1, <1>9, <1>11 DEF Ordered
  <2>3. \A x \in ToSet(past'.told) \ SentIds', y \in SentIds' : x < y
    BY <1>1, <1>9, <1>11 DEF Ordered
  <2>4. Increasing(feed'.fresh)
    BY <1>8, NothingIn DEF Increasing
  <2> QED
    BY <1>1, <1>2, <1>3, <1>8, <1>9, <1>10, <1>11, <2>1, <2>2, <2>3, <2>4 DEF Ordered
<1>17. Complete'
  BY <1>1, <1>2, <1>8, <1>9, <1>10 DEF Complete
<1>18. Shown' /\ ShotGood'
  BY <1>1, <1>2, <1>8, <1>12, <1>13, <1>14, OnTheWay
<1> QED
  BY <1>15, <1>16, <1>17, <1>18 DEF TellIInv

\* Steps that only the page and its snapshot take.
LEMMA PageKeeps ==
    ASSUME TellTyped, Ordered, Complete, UNCHANGED <<audit, feed, sent>>, past'.told = past.told, past'.missed = past.missed,
           tally'.rows = tally.rows, tally'.batches = tally.batches
    PROVE  /\ Ordered' /\ Complete' /\ Pending' = Pending /\ \A at : PendingAfter(at)' = PendingAfter(at)
           /\ \A oldest : Known(oldest)' = Known(oldest)
<1>1. SentIds' = SentIds /\ Ahead' = Ahead /\ UnreadIds' = UnreadIds /\ \A at : SentAfter(at)' = SentAfter(at)
  BY DEF SentIds, Ahead, UnreadIds, SentAfter
<1>2. Ordered'
  BY <1>1 DEF Ordered
<1>3. Complete'
  BY DEF Complete
<1> QED
  BY <1>1, <1>2, <1>3 DEF Pending, PendingAfter, Known

LEMMA AskShotTells ==
    ASSUME TellIInv, AskShot
    PROVE  TellIInv'
<1>1. TellTyped /\ Ordered /\ Complete /\ Shown /\ ShotGood
  BY DEF TellIInv
<1>2. PICK moves, shot :
        /\ view' = [view EXCEPT !.shot = shot] /\ shot = [NoShot EXCEPT !.state = "asked", !.at = tally.batches]
        /\ tally' = [tally EXCEPT !.moves = moves] /\ UNCHANGED <<audit, jobs, feed, sent, past>>
  BY DEF AskShot
<1>3. shot = [state |-> "asked", at |-> tally.batches, rows |-> <<>>]
  BY <1>2 DEF NoShot
<1>4. /\ tally'.rows = tally.rows /\ tally'.batches = tally.batches
      /\ tally' = [rows |-> tally'.rows, moves |-> tally'.moves, batches |-> tally'.batches]
  BY <1>1, <1>2 DEF TellTyped
<1>5. /\ view'.seeded = view.seeded /\ view'.receipts = view.receipts /\ view'.last = view.last
      /\ view'.shot = shot
      /\ view' = [seeded |-> view'.seeded, receipts |-> view'.receipts, last |-> view'.last, shot |-> view'.shot]
  BY <1>1, <1>2 DEF TellTyped
<1>6. view'.shot.state = "asked" /\ view'.shot.at = tally.batches /\ view'.shot.rows \in Seq(Rows)
      /\ view'.shot = [state |-> view'.shot.state, at |-> view'.shot.at, rows |-> view'.shot.rows]
  BY <1>3, <1>5, EmptySeq
<1>7. tally.batches \in Nat /\ tally.batches <= tally.batches
  BY <1>1 DEF TellTyped
<1>8. TellTyped'
  BY <1>1, <1>2, <1>4, <1>5, <1>6, <1>7 DEF TellTyped, Folding
<1>9. Ordered' /\ Complete' /\ Pending' = Pending /\ \A oldest : Known(oldest)' = Known(oldest)
  BY <1>1, <1>2, <1>4, PageKeeps
<1>10. Shown'
  BY <1>1, <1>2, <1>4, <1>5, <1>9 DEF Shown
<1>11. ShotGood'
  BY <1>6 DEF ShotGood
<1> QED
  BY <1>8, <1>9, <1>10, <1>11 DEF TellIInv

\* The rows of a snapshot are the newest, as far back as the last of them.
LEMMA NewestAre ==
    ASSUME TellTyped, Ordered, NEW list, list = FirstOf(SnapshotLimit, Reverse(audit))
    PROVE  /\ list \in Seq(Rows) /\ Falling(list) /\ ToSet(list) \subseteq ToSet(audit)
           /\ \A r \in ToSet(audit) : r.id >= Reach(list) => r \in ToSet(list)
<1>1. PICK back : back = Reverse(audit)
  OBVIOUS
<1>2. audit \in Seq(Rows) /\ Sorted(audit) /\ SnapshotLimit \in Nat /\ SnapshotLimit >= 1
  BY ReceiptsAssumption DEF TellTyped, Ordered
<1>3. back \in Seq(Rows) /\ (\A x : x \in ToSet(back) <=> x \in ToSet(audit)) /\ Falling(back)
  BY <1>1, <1>2, ReverseIs
<1>4. /\ list \in Seq(Rows) /\ Len(list) = (IF Len(back) < SnapshotLimit THEN Len(back) ELSE SnapshotLimit) /\ Len(list) <= Len(back)
      /\ \A i \in 1..Len(list) : list[i] = back[i]
  BY <1>1, <1>2, <1>3, FirstOfIs
<1>5. Within(list, back)
  BY <1>1, <1>2, <1>3, FirstIsWithin
<1>6. Falling(list) /\ ToSet(list) \subseteq ToSet(audit)
  BY <1>3, <1>4, <1>5, WithinIs
<1>7. PICK n : n = Len(list)
  OBVIOUS
<1>8. PICK m : m = Len(back)
  OBVIOUS
<1>9. n \in Nat /\ \A x : x \in ToSet(list) <=> \E i \in 1..n : x = list[i]
  BY <1>4, <1>7, InSequence
<1>10. m \in Nat /\ (\A x : x \in ToSet(back) <=> \E i \in 1..m : x = back[i]) /\ \A i \in 1..m : back[i] \in Rows
  BY <1>3, <1>8, InSequence
<1>11. ASSUME NEW r \in ToSet(audit), r.id >= Reach(list) PROVE r \in ToSet(list)
  <2>1. PICK i \in 1..m : r = back[i]
    BY <1>3, <1>10
  <2>2. CASE i <= n
    <3>1. i \in 1..n
      BY <1>9, <2>2
    <3> QED
      BY <1>4, <1>7, <1>9, <2>1, <3>1
  <2>3. CASE ~(i <= n)
    <3>1. n = SnapshotLimit /\ n \in 1..n /\ n \in 1..m /\ n < i
      <4>1. n < i /\ n < m
        BY <1>9, <1>10, <2>1, <2>3
      <4>2. n = SnapshotLimit
        BY <1>2, <1>4, <1>7, <1>8, <1>10, <4>1
      <4>3. n \in Nat /\ m \in Nat /\ n >= 1
        BY <1>2, <1>9, <1>10, <4>2
      <4>4. n \in 1..n /\ n \in 1..m
        BY <4>1, <4>3
      <4> QED
        BY <4>1, <4>2, <4>4
    <3>2. list # <<>>
      <4>1. list = <<>> => Len(list) = 0
        BY NothingIn
      <4>2. n # 0
        BY <3>1
      <4> QED
        BY <1>7, <4>1, <4>2
    <3>3. Reach(list) = list[n].id
      BY <1>2, <1>7, <3>1, <3>2 DEF Reach, Last
    <3>4. list[n] = back[n]
      BY <1>4, <1>7, <3>1
    <3>5. back[n].id > back[i].id
      BY <1>3, <1>8, <3>1 DEF Falling
    <3>6. back[n].id \in Nat /\ back[i].id \in Nat
      BY <1>10, <3>1 DEF Rows
    <3>7. back[i].id >= back[n].id
      <4>1. Reach(list) = back[n].id /\ r.id = back[i].id
        BY <2>1, <3>3, <3>4
      <4>2. r.id >= Reach(list)
        BY <1>11
      <4> QED
        BY <4>1, <4>2
    <3> QED
      BY <3>5, <3>6, <3>7
  <2> QED
    BY <2>2, <2>3
<1> QED
  BY <1>4, <1>6, <1>11

LEMMA BuildShotTells ==
    ASSUME TellIInv, BuildShot
    PROVE  TellIInv'
<1>1. TellTyped /\ Ordered /\ Complete /\ Shown /\ ShotGood
  BY DEF TellIInv
<1>2. PICK list : list = FirstOf(SnapshotLimit, Reverse(audit))
  OBVIOUS
<1>3. view' = [view EXCEPT !.shot.state = "built", !.shot.rows = list] /\ UNCHANGED <<audit, jobs, feed, sent, tally, past>>
  BY <1>2 DEF BuildShot
<1>4. /\ list \in Seq(Rows) /\ Falling(list) /\ ToSet(list) \subseteq ToSet(audit)
      /\ \A r \in ToSet(audit) : r.id >= Reach(list) => r \in ToSet(list)
  BY <1>1, <1>2, NewestAre
<1>5. /\ view'.seeded = view.seeded /\ view'.receipts = view.receipts /\ view'.last = view.last
      /\ view'.shot.state = "built" /\ view'.shot.at = view.shot.at /\ view'.shot.rows = list
      /\ view'.shot = [state |-> view'.shot.state, at |-> view'.shot.at, rows |-> view'.shot.rows]
      /\ view' = [seeded |-> view'.seeded, receipts |-> view'.receipts, last |-> view'.last, shot |-> view'.shot]
  BY <1>1, <1>3 DEF TellTyped
<1>6. TellTyped'
  BY <1>1, <1>3, <1>4, <1>5 DEF TellTyped, Folding
<1>7. Ordered' /\ Complete' /\ Pending' = Pending /\ (\A at : PendingAfter(at)' = PendingAfter(at)) /\ \A oldest : Known(oldest)' = Known(oldest)
  BY <1>1, <1>3, PageKeeps
<1>8. Shown'
  BY <1>1, <1>3, <1>5, <1>7 DEF Shown
<1>9. \A r \in ToSet(list) : r.id <= tally.rows
  BY <1>1, <1>4 DEF Ordered
<1>10. ASSUME NEW r \in ToSet(list), WritePath(r) PROVE r.id \in past.missed \cup Pending \/ \A p \in Pending : r.id < p
  <2>1. r \in ToSet(audit)
    BY <1>4
  <2>2. CASE feed.seeded
    BY <1>1, <1>10, <2>1, <2>2, Passed
  <2>3. CASE ~feed.seeded
    <3>1. feed.fresh = <<>> /\ sent = <<>>
      BY <1>1, <2>3 DEF Ordered
    <3>2. SentIds = {} /\ UnreadIds = {}
      BY <2>3, <3>1, NothingIn DEF SentIds, UnreadIds
    <3>3. Pending = {}
      BY <3>1, <3>2, NothingIn DEF Pending
    <3> QED
      BY <3>3
  <2> QED
    BY <2>2, <2>3
<1>11. Known(Reach(list)) \subseteq WriteIds(ToSet(list))
  BY <1>4 DEF Known, WriteIds
<1>12. ShotGood'
  BY <1>3, <1>4, <1>5, <1>7, <1>9, <1>10, <1>11 DEF ShotGood
<1> QED
  BY <1>6, <1>7, <1>8, <1>12 DEF TellIInv

\* The snapshot as a page shows it.
LEMMA SnapshotGood ==
    ASSUME NEW list \in Seq(Rows), Falling(list), NEW n, \A r \in ToSet(list) : r.id <= n,
           NEW M, NEW P, \A r \in ToSet(list) : WritePath(r) => r.id \in M \cup P \/ \A p \in P : r.id < p,
           NEW C, C \ P \subseteq WriteIds(ToSet(list))
    PROVE  ViewGood(FirstOf(ReceiptLimit, Receipts(list)), P, M, C, n)
<1>1. PICK p : p = Receipts(list)
  OBVIOUS
<1>2. p \in Seq(Nat) /\ ToSet(p) = WriteIds(ToSet(list)) /\ Descending(p)
  BY <1>1, ReceiptsAre
<1>3. PICK v : v = FirstOf(ReceiptLimit, p)
  OBVIOUS
<1>4. ReceiptLimit \in Nat
  BY ReceiptsAssumption
<1>5. /\ v \in Seq(Nat) /\ Len(v) = (IF Len(p) < ReceiptLimit THEN Len(p) ELSE ReceiptLimit) /\ Len(v) <= Len(p)
      /\ \A i \in 1..Len(v) : v[i] = p[i]
  BY <1>2, <1>3, <1>4, FirstOfIs
<1>6. Len(p) \in Nat /\ (\A x : x \in ToSet(p) <=> \E i \in 1..Len(p) : x = p[i]) /\ \A i \in 1..Len(p) : p[i] \in Nat
  BY <1>2, InSequence
<1>7. Len(v) \in Nat /\ (\A x : x \in ToSet(v) <=> \E i \in 1..Len(v) : x = v[i]) /\ \A i \in 1..Len(v) : v[i] \in Nat
  BY <1>5, InSequence
<1>8. \A i \in 1..Len(v) : i \in 1..Len(p)
  BY <1>5, <1>6, <1>7
<1>9. \A i, k \in 1..Len(v) : i < k => v[i] > v[k]
  BY <1>2, <1>5, <1>8 DEF Descending
<1>10. \A i, k \in 1..Len(v) : i # k => v[i] # v[k]
  <2>1. ASSUME NEW i \in 1..Len(v), NEW k \in 1..Len(v), i # k PROVE v[i] # v[k]
    <3>1. i < k \/ k < i
      BY <2>1
    <3> QED
      BY <1>7, <1>9, <3>1
  <2> QED
    BY <2>1
<1>11. \A i \in 1..Len(v) : \E r \in ToSet(list) : WritePath(r) /\ v[i] = r.id
  <2>1. \A i \in 1..Len(v) : v[i] \in WriteIds(ToSet(list))
    BY <1>2, <1>5, <1>6, <1>8
  <2> QED
    BY <2>1 DEF WriteIds
<1>12. \A i \in 1..Len(v) : v[i] <= n /\ (v[i] \in M \cup P \/ \A q \in P : v[i] < q)
  BY <1>11
<1>13. ASSUME NEW c \in C \ P PROVE Shows(v, c)
  <2>1. PICK j \in 1..Len(p) : c = p[j]
    BY <1>2, <1>6
  <2>2. CASE j <= Len(v)
    <3>1. j \in 1..Len(v)
      BY <1>7, <2>2
    <3> QED
      BY <1>5, <1>7, <2>1, <3>1 DEF Shows
  <2>3. CASE ~(j <= Len(v))
    <3>1. Len(v) = ReceiptLimit
      BY <1>4, <1>5, <1>6, <2>3
    <3>2. ASSUME NEW i \in 1..Len(v) PROVE v[i] > c
      <4>1. i < j /\ i \in 1..Len(p)
        BY <1>7, <1>8, <2>3
      <4> QED
        BY <1>2, <1>5, <2>1, <4>1 DEF Descending
    <3> QED
      BY <1>7, <3>1, <3>2 DEF Shows
  <2> QED
    BY <2>2, <2>3
<1>14. Falls(v, M \cup P)
  BY <1>9 DEF Falls
<1>15. Len(v) <= ReceiptLimit
  BY <1>4, <1>5, <1>6
<1>16. ViewGood(v, P, M, C, n)
  BY <1>5, <1>10, <1>12, <1>13, <1>14, <1>15 DEF ViewGood
<1> QED
  BY <1>1, <1>3, <1>16

LEMMA ApplySnapshotTells ==
    ASSUME TellIInv, ApplySnapshot
    PROVE  TellIInv'
<1>1. TellTyped /\ Ordered /\ Complete /\ Shown /\ ShotGood
  BY DEF TellIInv
<1>2. PICK list : list = view.shot.rows
  OBVIOUS
<1>3. /\ view.shot.state = "built" /\ UNCHANGED <<audit, jobs, feed, sent, tally>>
      /\ \/ view' = [view EXCEPT !.shot = NoShot] /\ UNCHANGED past
         \/ /\ ~(view.shot.at < view.last)
            /\ view' = [view EXCEPT !.seeded = TRUE, !.shot = NoShot, !.receipts = FirstOf(ReceiptLimit, Receipts(list))]
            /\ past' = [past EXCEPT !.reach = Reach(list)]
  BY <1>2 DEF ApplySnapshot
<1>4. past'.told = past.told /\ past'.missed = past.missed /\ Folding'
  BY <1>1, <1>3 DEF TellTyped, Folding
<1>5. Ordered' /\ Complete' /\ Pending' = Pending /\ \A oldest : Known(oldest)' = Known(oldest)
  BY <1>1, <1>3, <1>4, PageKeeps
<1>6. NoShot.state = "none" /\ NoShot.at = 0 /\ NoShot.rows = <<>> /\ NoShot = [state |-> NoShot.state, at |-> NoShot.at, rows |-> NoShot.rows]
  BY DEF NoShot
<1>7. /\ view'.shot = NoShot /\ view'.last = view.last
      /\ view' = [seeded |-> view'.seeded, receipts |-> view'.receipts, last |-> view'.last, shot |-> view'.shot]
  BY <1>1, <1>3 DEF TellTyped
<1>8. 0 <= tally.batches /\ 0 \in Nat /\ <<>> \in Seq(Rows)
  BY <1>1, EmptySeq DEF TellTyped
<1>9. view'.seeded \in BOOLEAN
  BY <1>1, <1>3 DEF TellTyped
<1>10. TellTyped'
  BY <1>1, <1>3, <1>4, <1>6, <1>7, <1>8, <1>9 DEF TellTyped
<1>11. ShotGood'
  BY <1>6, <1>7 DEF ShotGood
<1>12. Shown'
  <2>1. CASE view' = [view EXCEPT !.shot = NoShot] /\ UNCHANGED past
    <3>1. view'.seeded = view.seeded /\ view'.receipts = view.receipts
      BY <1>1, <2>1 DEF TellTyped
    <3> QED
      BY <1>1, <1>3, <1>5, <2>1, <3>1 DEF Shown
  <2>2. CASE /\ ~(view.shot.at < view.last)
             /\ view' = [view EXCEPT !.seeded = TRUE, !.shot = NoShot, !.receipts = FirstOf(ReceiptLimit, Receipts(list))]
             /\ past' = [past EXCEPT !.reach = Reach(list)]
    <3>1. PICK v : v = FirstOf(ReceiptLimit, Receipts(list))
      OBVIOUS
    <3>2. view'.seeded = TRUE /\ view'.receipts = v /\ past'.reach = Reach(list)
      BY <1>1, <2>2, <3>1 DEF TellTyped, Folding
    <3>3. PICK C : C = IF feed.seeded THEN Known(Reach(list)) ELSE {}
      OBVIOUS
    <3>4. PICK at : at = view.shot.at
      OBVIOUS
    <3>5. view.last <= at
      <4>1. view.last \in Nat /\ at \in Nat
        BY <1>1, <3>4 DEF TellTyped
      <4> QED
        BY <2>2, <3>4, <4>1
    <3>6. /\ Falling(list) /\ \A r \in ToSet(list) : r.id <= tally.rows
          /\ \A r \in ToSet(list) : WritePath(r) => r.id \in past.missed \cup Pending \/ \A p \in Pending : r.id < p
          /\ feed.seeded => Known(Reach(list)) \ PendingAfter(at) \subseteq WriteIds(ToSet(list))
      BY <1>1, <1>2, <1>3, <3>4, <3>5 DEF ShotGood
    <3>7. PendingAfter(at) \subseteq Pending
      BY DEF PendingAfter, Pending, SentAfter, SentIds
    <3>8. C \ Pending \subseteq WriteIds(ToSet(list))
      BY <3>3, <3>6, <3>7
    <3>9. list \in Seq(Rows)
      BY <1>1, <1>2 DEF TellTyped
    <3>10. ViewGood(v, Pending, past.missed, C, tally.rows)
      BY <3>1, <3>6, <3>8, <3>9, SnapshotGood
    <3> QED
      BY <1>3, <1>4, <1>5, <3>2, <3>3, <3>10 DEF Shown
  <2> QED
    BY <1>3, <2>1, <2>2
<1> QED
  BY <1>5, <1>10, <1>11, <1>12 DEF TellIInv

\* A batch that arrives is before all that is still to come.
LEMMA ApplyDeltasTells ==
    ASSUME TellIInv, ApplyDeltas
    PROVE  TellIInv'
<1>1. TellTyped /\ Ordered /\ Complete /\ Shown /\ ShotGood
  BY DEF TellIInv
<1>2. PICK batch : batch = Head(sent)
  OBVIOUS
<1>3. PICK v : v = ShownAfter(view.receipts, batch)[Len(batch)]
  OBVIOUS
<1>4. PICK s : s = Tail(sent)
  OBVIOUS
<1>5. PICK last : last = tally.batches - Len(s)
  OBVIOUS
<1>6. /\ view.seeded /\ sent # <<>> /\ sent' = s /\ UNCHANGED <<audit, jobs, feed, tally, past>>
      /\ view' = [view EXCEPT !.receipts = v, !.last = last]
  BY <1>2, <1>3, <1>4, <1>5 DEF ApplyDeltas
<1>7. PICK n : n = Len(sent)
  OBVIOUS
<1>8. PICK b : b = tally.batches
  OBVIOUS
<1>9. /\ n \in Nat /\ b \in Nat /\ view.last \in Nat /\ view.last + n <= b /\ sent \in Seq(Seq(Nat))
      /\ \A i \in 1..n : sent[i] \in Seq(Nat)
  BY <1>1, <1>7, <1>8, InSequence DEF TellTyped
<1>10. n >= 1
  BY <1>6, <1>7, <1>9, EmptySeq
<1>11. /\ s \in Seq(Seq(Nat)) /\ Len(s) = n - 1 /\ (\A i \in 1..n - 1 : s[i] = sent[i + 1]) /\ batch = sent[1] /\ batch \in Seq(Nat)
  <2>1. s \in Seq(Seq(Nat)) /\ Len(s) = Len(sent) - 1 /\ \A i \in 1..Len(s) : s[i] = sent[i + 1]
    BY <1>4, <1>6, <1>9, HeadTailProperties
  <2>2. batch = sent[1] /\ 1 \in 1..n
    BY <1>2, <1>9, <1>10
  <2> QED
    BY <1>7, <1>9, <2>1, <2>2
<1>12. \A i \in 1..n : i = 1 \/ (i - 1 \in 1..n - 1 /\ (i - 1) + 1 = i)
  BY <1>9
<1>13. \A i \in 1..n - 1 : i + 1 \in 1..n /\ i + 1 # 1 /\ 1 < i + 1
  BY <1>9
<1>14. last = (b - n) + 1 /\ last \in Nat /\ view.last <= last /\ last + Len(s) <= b /\ 1 \in 1..n
  <2>1. PICK m : m = Len(s)
    OBVIOUS
  <2>2. m = n - 1 /\ last = b - m
    BY <1>5, <1>8, <1>11, <2>1
  <2>3. last = (b - n) + 1 /\ last \in Nat /\ view.last <= last /\ last + m <= b /\ 1 \in 1..n
    BY <1>9, <1>10, <2>2
  <2> QED
    BY <2>1, <2>3
<1>15. /\ view'.seeded = view.seeded /\ view'.receipts = v /\ view'.last = last /\ view'.shot = view.shot
       /\ view' = [seeded |-> view'.seeded, receipts |-> view'.receipts, last |-> view'.last, shot |-> view'.shot]
  BY <1>1, <1>6 DEF TellTyped
<1>16. feed.seeded
  BY <1>1, <1>6 DEF Ordered, TellTyped
<1>17. Ahead' = Ahead /\ UnreadIds' = UnreadIds
  BY <1>6 DEF Ahead, UnreadIds
<1>18. \A x : x \in SentIds <=> \E i \in 1..n : x \in ToSet(sent[i])
  BY <1>7 DEF SentIds
<1>19. \A x : x \in SentIds' <=> \E i \in 1..n - 1 : x \in ToSet(s[i])
  BY <1>6, <1>11 DEF SentIds
<1>20. SentIds = ToSet(batch) \cup SentIds'
  <2>1. ASSUME NEW x \in SentIds PROVE x \in ToSet(batch) \cup SentIds'
    <3>1. PICK i \in 1..n : x \in ToSet(sent[i])
      BY <1>18
    <3>2. CASE i = 1
      BY <1>11, <3>1, <3>2
    <3>3. CASE i - 1 \in 1..n - 1 /\ (i - 1) + 1 = i
      <4>1. s[i - 1] = sent[i]
        BY <1>11, <3>3
      <4> QED
        BY <1>19, <3>1, <3>3, <4>1
    <3> QED
      BY <1>12, <3>2, <3>3
  <2>2. ToSet(batch) \subseteq SentIds
    BY <1>11, <1>14, <1>18
  <2>3. SentIds' \subseteq SentIds
    BY <1>11, <1>13, <1>18, <1>19
  <2> QED
    BY <2>1, <2>2, <2>3
<1>21. \A a \in ToSet(batch), x \in SentIds' : a < x
  BY <1>1, <1>7, <1>11, <1>13, <1>14, <1>19 DEF Ordered
<1>22. Pending = ToSet(batch) \cup Pending'
  BY <1>6, <1>17, <1>20 DEF Pending
<1>23. \A a \in ToSet(batch) : a \in ToSet(past.told) /\ \A p \in Pending' : a < p
  <2>1. ASSUME NEW a \in ToSet(batch) PROVE a \in ToSet(past.told) /\ \A p \in Pending' : a < p
    <3>1. a \in ToSet(past.told)
      BY <1>1, <1>20 DEF Ordered
    <3>2. \A p \in ToSet(feed.fresh) : a < p
      BY <1>1, <3>1 DEF Ordered
    <3>3. \A p \in UnreadIds : a < p
      BY <1>1, <3>1 DEF Ordered, UnreadIds, WriteIds
    <3> QED
      BY <1>6, <1>17, <1>21, <3>1, <3>2, <3>3 DEF Pending
  <2> QED
    BY <2>1
<1>24. TellTyped'
  BY <1>1, <1>6, <1>8, <1>9, <1>11, <1>14, <1>15 DEF TellTyped, Folding
<1>25. Ordered'
  <2>1. \A i \in 1..Len(s) : Increasing(s[i])
    BY <1>1, <1>7, <1>11, <1>13 DEF Ordered
  <2>2. ASSUME NEW i \in 1..Len(s), NEW k \in 1..Len(s), i < k, NEW x \in ToSet(s[i]), NEW y \in ToSet(s[k]) PROVE x < y
    <3>1. i \in 1..n - 1 /\ k \in 1..n - 1 /\ i + 1 < k + 1
      BY <1>9, <1>11, <2>2
    <3>2. s[i] = sent[i + 1] /\ s[k] = sent[k + 1] /\ i + 1 \in 1..n /\ k + 1 \in 1..n
      BY <1>11, <1>13, <3>1
    <3> QED
      BY <1>1, <1>7, <2>2, <3>1, <3>2 DEF Ordered
  <2>3. SentIds' \subseteq ToSet(past.told)
    BY <1>1, <1>20 DEF Ordered
  <2>4. \A x \in ToSet(past.told) \ SentIds', y \in SentIds' : x < y
    BY <1>1, <1>20, <1>21 DEF Ordered
  <2> QED
    BY <1>1, <1>6, <1>16, <1>17, <2>1, <2>2, <2>3, <2>4 DEF Ordered
<1>26. Complete'
  BY <1>1, <1>6 DEF Complete
<1>27. \A oldest : Known(oldest)' = Known(oldest)
  BY <1>6 DEF Known
<1>28. Shown'
  <2>1. PICK C : C = Known(past.reach)
    OBVIOUS
  <2>2. PICK M : M = past.missed
    OBVIOUS
  <2>3. ViewGood(view.receipts, Pending, M, C, tally.rows)
    BY <1>1, <1>6, <1>16, <2>1, <2>2 DEF Shown
  <2>4. C \in SUBSET Nat /\ C \cap M = {} /\ \A c \in C \ Pending : \A p \in Pending : c < p
    <3>1. ASSUME NEW c \in C PROVE c \in Nat /\ c \notin M /\ (c \notin Pending => \A p \in Pending : c < p)
      <4>1. PICK r \in ToSet(audit) : WritePath(r) /\ c = r.id /\ c \notin past.missed
        BY <2>1, <3>1 DEF Known, WriteIds
      <4>2. c \in Nat
        BY <1>1, <4>1, PendingIs
      <4> QED
        BY <1>1, <1>16, <2>2, <4>1, <4>2, Passed
    <3> QED
      BY <3>1
  <2>5. PICK Q : Q = Pending'
    OBVIOUS
  <2>6. Q \in SUBSET Nat /\ \A p \in Pending : p <= tally.rows
    BY <1>1, <1>22, <2>5, PendingIs
  <2>7. Len(batch) \in Nat /\ \A i \in 1..Len(batch) : batch[i] \in ToSet(batch)
    BY <1>11, InSequence
  <2>8. \A i \in 1..Len(batch) : batch[i] <= tally.rows /\ \A p \in Q : batch[i] < p
    BY <1>22, <1>23, <2>5, <2>6, <2>7
  <2>9. Increasing(batch)
    BY <1>1, <1>7, <1>11, <1>14 DEF Ordered
  <2>10. Pending = ToSet(batch) \cup Q
    BY <1>22, <2>5
  <2>11. ViewGood(v, Q, M, C, tally.rows)
    BY <1>3, <1>11, <2>3, <2>4, <2>6, <2>8, <2>9, <2>10, BatchKeeps
  <2> QED
    BY <1>6, <1>15, <1>16, <1>27, <2>1, <2>2, <2>5, <2>11 DEF Shown
<1>29. ShotGood'
  <2> SUFFICES ASSUME view.shot.state = "built" PROVE ShotGood'
    BY <1>15 DEF ShotGood
  <2>1. PICK list : list = view.shot.rows
    OBVIOUS
  <2>2. PICK at : at = view.shot.at
    OBVIOUS
  <2>3. /\ Falling(list) /\ \A r \in ToSet(list) : r.id <= tally.rows
        /\ \A r \in ToSet(list) : WritePath(r) => r.id \in past.missed \cup Pending \/ \A p \in Pending : r.id < p
        /\ view.last <= at => Known(Reach(list)) \ PendingAfter(at) \subseteq WriteIds(ToSet(list))
    BY <1>1, <1>16, <2>1, <2>2 DEF ShotGood
  <2>4. at \in Nat
    BY <1>1, <2>2 DEF TellTyped
  <2>5. \A r \in ToSet(list) : WritePath(r) => r.id \in past.missed \cup Pending' \/ \A p \in Pending' : r.id < p
    <3>1. ASSUME NEW r \in ToSet(list), WritePath(r) PROVE r.id \in past.missed \cup Pending' \/ \A p \in Pending' : r.id < p
      <4>1. CASE r.id \in ToSet(batch)
        BY <1>23, <4>1
      <4>2. CASE r.id \notin ToSet(batch)
        BY <1>22, <2>3, <3>1, <4>2
      <4> QED
        BY <4>1, <4>2
    <3> QED
      BY <3>1
  <2>6. ASSUME last <= at PROVE Known(Reach(list))' \ PendingAfter(at)' \subseteq WriteIds(ToSet(list))
    <3>1. view.last <= at
      BY <1>9, <1>14, <2>4, <2>6
    <3>2. SentAfter(at) \subseteq SentAfter(at)'
      <4>1. \A x : x \in SentAfter(at) <=> \E i \in 1..n : b - n + i > at /\ x \in ToSet(sent[i])
        BY <1>7, <1>8 DEF SentAfter
      <4>2. \A x : x \in SentAfter(at)' <=> \E i \in 1..n - 1 : b - (n - 1) + i > at /\ x \in ToSet(s[i])
        BY <1>6, <1>8, <1>11 DEF SentAfter
      <4>3. ASSUME NEW i \in 1..n, b - n + i > at PROVE i - 1 \in 1..n - 1 /\ b - (n - 1) + (i - 1) > at /\ s[i - 1] = sent[i]
        <5>1. i # 1
          BY <1>9, <1>14, <2>4, <2>6, <4>3
        <5>2. i - 1 \in 1..n - 1 /\ (i - 1) + 1 = i
          BY <1>12, <5>1
        <5>3. b - (n - 1) + (i - 1) > at
          BY <1>9, <2>4, <4>3
        <5> QED
          BY <1>11, <5>2, <5>3
      <4> QED
        BY <4>1, <4>2, <4>3
    <3>3. PendingAfter(at) \subseteq PendingAfter(at)'
      BY <1>6, <1>17, <3>2 DEF PendingAfter
    <3> QED
      BY <1>27, <2>3, <3>1, <3>3
  <2> QED
    BY <1>6, <1>15, <2>1, <2>2, <2>3, <2>5, <2>6 DEF ShotGood
<1> QED
  BY <1>24, <1>25, <1>26, <1>28, <1>29 DEF TellIInv

LEMMA JobTurnsTells ==
    ASSUME TellIInv, NEW j, NEW status, JobTurns(j, status)
    PROVE  TellIInv'
<1>1. TellTyped /\ Ordered /\ Complete /\ Shown /\ ShotGood
  BY DEF TellIInv
<1>2. PICK moves : tally' = [tally EXCEPT !.moves = moves] /\ UNCHANGED <<audit, feed, sent, view, past>>
  BY DEF JobTurns
<1>3. /\ tally'.rows = tally.rows /\ tally'.batches = tally.batches
      /\ tally' = [rows |-> tally'.rows, moves |-> tally'.moves, batches |-> tally'.batches]
  BY <1>1, <1>2 DEF TellTyped
<1>4. TellTyped'
  BY <1>1, <1>2, <1>3 DEF TellTyped, Folding
<1>5. Ordered' /\ Complete' /\ Pending' = Pending /\ (\A at : PendingAfter(at)' = PendingAfter(at)) /\ \A oldest : Known(oldest)' = Known(oldest)
  BY <1>1, <1>2, <1>3, PageKeeps
<1>6. Shown'
  BY <1>1, <1>2, <1>3, <1>5 DEF Shown
<1>7. ShotGood'
  BY <1>1, <1>2, <1>3, <1>5 DEF ShotGood
<1> QED
  BY <1>4, <1>5, <1>6, <1>7 DEF TellIInv

LEMMA NothingTold == TellIInv /\ UNCHANGED receiptVars => TellIInv'
<1> SUFFICES ASSUME TellIInv, UNCHANGED receiptVars PROVE TellIInv'
  OBVIOUS
<1>1. TellTyped /\ Ordered /\ Complete /\ Shown /\ ShotGood
  BY DEF TellIInv
<1>2. UNCHANGED <<audit, feed, sent, view, tally, past>>
  BY DEF receiptVars
<1>3. TellTyped'
  BY <1>1, <1>2 DEF TellTyped, Folding
<1>4. Ordered' /\ Complete' /\ Pending' = Pending /\ (\A at : PendingAfter(at)' = PendingAfter(at)) /\ \A oldest : Known(oldest)' = Known(oldest)
  BY <1>1, <1>2, PageKeeps
<1>5. Shown'
  BY <1>1, <1>2, <1>4 DEF Shown
<1>6. ShotGood'
  BY <1>1, <1>2, <1>4 DEF ShotGood
<1> QED
  BY <1>3, <1>4, <1>5, <1>6 DEF TellIInv

LEMMA TellInitially == ReceiptsInit => TellIInv
<1> SUFFICES ASSUME ReceiptsInit PROVE TellIInv
  OBVIOUS
<1>1. /\ audit = <<>> /\ feed = NewFeed /\ sent = <<>>
      /\ view = [seeded |-> FALSE, receipts |-> <<>>, last |-> 0, shot |-> NoShot]
      /\ tally = [rows |-> 0, moves |-> 0, batches |-> 0]
      /\ past = [told |-> <<>>, missed |-> {}, folded |-> Unread, reach |-> 0]
  BY DEF ReceiptsInit
<1>2. /\ feed = [at |-> "idle", seeded |-> FALSE, last |-> 0, jobs |-> Unread, first |-> FALSE, fresh |-> <<>>]
      /\ view.shot = [state |-> "none", at |-> 0, rows |-> <<>>]
  BY <1>1 DEF NewFeed, NoShot
<1>3. \A S : <<>> \in Seq(S)
  BY EmptySeq
<1>4. TellTyped
  <2>1. Folding /\ feed.seeded = FALSE /\ feed.at = "idle" /\ feed.last = 0 /\ feed.fresh = <<>>
    BY <1>1, <1>2 DEF Folding
  <2>2. /\ view = [seeded |-> view.seeded, receipts |-> view.receipts, last |-> view.last, shot |-> view.shot]
        /\ view.shot = [state |-> view.shot.state, at |-> view.shot.at, rows |-> view.shot.rows]
        /\ view.seeded = FALSE /\ view.last = 0 /\ view.shot.state = "none" /\ view.shot.at = 0 /\ view.shot.rows = <<>>
    BY <1>1, <1>2
  <2>3. /\ tally = [rows |-> tally.rows, moves |-> tally.moves, batches |-> tally.batches]
        /\ tally.rows = 0 /\ tally.batches = 0 /\ past.told = <<>> /\ Len(sent) = 0
    BY <1>1, NothingIn
  <2>4. view.last + Len(sent) <= tally.batches /\ view.shot.at <= tally.batches
    BY <2>2, <2>3
  <2>5. <<>> \in Seq(Nat) /\ <<>> \in Seq(Rows) /\ <<>> \in Seq(Seq(Nat))
    BY <1>3
  <2>6. audit \in Seq(Rows) /\ feed.fresh \in Seq(Nat) /\ past.told \in Seq(Nat) /\ sent \in Seq(Seq(Nat)) /\ view.shot.rows \in Seq(Rows)
    BY <1>1, <2>1, <2>2, <2>3, <2>5
  <2>7. /\ feed.seeded \in BOOLEAN /\ feed.at \in {"idle", "queue"} /\ view.seeded \in BOOLEAN
        /\ view.shot.state \in {"none", "asked", "built"} /\ 0 \in Nat
    BY <2>1, <2>2
  <2> QED
    BY <2>1, <2>2, <2>3, <2>4, <2>6, <2>7 DEF TellTyped
<1>5. Ordered /\ Complete
  <2>1. SentIds = {} /\ Ahead = {}
    BY <1>1, NothingIn DEF SentIds, Ahead
  <2> QED
    BY <1>1, <1>2, <2>1, NothingIn DEF Ordered, Complete, Sorted, Increasing
<1>6. Pending = {}
  BY <1>1, <1>2, NothingIn DEF Pending, SentIds, UnreadIds
<1>7. Shown
  <2>1. ViewGood(<<>>, {}, {}, {}, 0)
    <3>1. 0 <= ReceiptLimit
      BY ReceiptsAssumption
    <3> QED
      BY <1>3, <3>1, NothingIn DEF ViewGood, Falls
  <2> QED
    BY <1>1, <1>2, <1>6, <2>1 DEF Shown
<1>8. ShotGood
  BY <1>2 DEF ShotGood
<1> QED
  BY <1>4, <1>5, <1>7, <1>8 DEF TellIInv

LEMMA TellStep == TellIInv /\ FoldIInv /\ [ReceiptsNext]_receiptVars => TellIInv'
<1> SUFFICES ASSUME TellIInv, FoldIInv, [ReceiptsNext]_receiptVars PROVE TellIInv'
  OBVIOUS
<1>1. audit \in Seq(Rows) /\ Sorted(audit)
  BY DEF TellIInv, TellTyped, Ordered
<1>2. ASSUME NEW kind \in {"staged", "queued"}, Audit(kind) PROVE TellIInv'
  BY <1>1, <1>2, AuditsTell DEF Audit
<1>3. ASSUME NEW about \in SUBSET ToSet(Ids(audit)), NEW gone \in SUBSET JobIds, PurgeRollout(about, gone) PROVE TellIInv'
  <2>1. PICK list : list = Kept(audit, {r \in ToSet(audit) : r.id \notin about})
    OBVIOUS
  <2>2. list \in Seq(Rows) /\ Within(list, audit)
    BY <1>1, <2>1, KeptIsWithin
  <2>3. Sorted(list) /\ ToSet(list) \subseteq ToSet(audit)
    BY <1>1, <2>2, WithinIs
  <2>4. Audits(list, "purge") /\ UNCHANGED <<feed, sent, view>>
    BY <1>3, <2>1 DEF PurgeRollout
  <2> QED
    BY <2>2, <2>3, <2>4, AuditsTell
<1>4. ASSUME NEW j \in JobIds, NEW status \in Statuses \cup {Absent}, JobTurns(j, status) PROVE TellIInv'
  BY <1>4, JobTurnsTells
<1>5. ASSUME NEW ok \in BOOLEAN, EndRefresh(ok) PROVE TellIInv'
  BY <1>5, EndRefreshTells
<1> QED
  BY <1>2, <1>3, <1>4, <1>5, SeedTells, ReadTailTells, AskShotTells, BuildShotTells, ApplySnapshotTells, ApplyDeltasTells, NothingTold
     DEF ReceiptsNext

\* What the bridge has told and still holds, what is on the wire and what the page
\* shows belong together in every reachable state (ReadTail, EndRefresh, ApplyDeltas).
THEOREM TellInvariant == ReceiptsSpec => [](TellIInv /\ FoldIInv)
<1>1. ReceiptsInit => TellIInv /\ FoldIInv
  BY TellInitially, FoldInitially
<1>2. TellIInv /\ FoldIInv /\ [ReceiptsNext]_receiptVars => TellIInv' /\ FoldIInv'
  BY TellStep, FoldStep
<1> QED
  BY <1>1, <1>2, PTL DEF ReceiptsSpec

LEMMA TellIsArrival == TellIInv /\ FoldIInv => ReceiptsArrive
<1> SUFFICES ASSUME TellIInv, FoldIInv PROVE ReceiptsArrive
  OBVIOUS
<1>1. TellTyped /\ Ordered /\ Complete /\ Shown
  BY DEF TellIInv
<1>2. audit \in Seq(Rows) /\ Sorted(audit) /\ view.receipts \in Seq(Nat)
  BY <1>1 DEF TellTyped, Ordered, Shown, ViewGood
<1>3. \A i \in 1..Len(audit) : audit[i] \in ToSet(audit)
  BY <1>2, InSequence
<1>4. FeedIsComplete
  <2>1. \A i, k \in 1..Len(past.told) : i < k => past.told[i] < past.told[k]
    BY <1>1 DEF Ordered, Increasing
  <2>2. \A i \in 1..Len(audit) :
          WritePath(audit[i]) /\ feed.seeded /\ audit[i].rid <= feed.last =>
             audit[i].id \in ToSet(past.told) \cup ToSet(feed.fresh) \cup past.missed
    BY <1>1, <1>3 DEF Complete
  <2> QED
    BY <2>1, <2>2 DEF FeedIsComplete, FoldIInv
<1>5. ASSUME CaughtUp
      PROVE  /\ \A i, k \in 1..Len(view.receipts) : i < k => view.receipts[i] > view.receipts[k] \/ view.receipts[k] \in past.missed
             /\ \A r \in ToSet(audit) :
                   WritePath(r) /\ r.id >= past.reach /\ r.id \notin past.missed =>
                      r.id \in ToSet(view.receipts) \/ (Len(view.receipts) = ReceiptLimit /\ \A id \in ToSet(view.receipts) : id > r.id)
  <2>1. feed.fresh = <<>> /\ sent = <<>> /\ view.seeded /\ feed.last >= MaxRowid(audit) /\ feed.last \in Nat
    BY <1>1, <1>5 DEF CaughtUp, Ordered, TellTyped
  <2>2. MaxRowid(audit) \in Nat /\ \A r \in ToSet(audit) : r.rid <= MaxRowid(audit) /\ r.rid \in Nat \ {0}
    BY <1>1, <1>2, MaxRowidIs, PendingIs
  <2>3. Ahead = {}
    BY <2>1, <2>2 DEF Ahead
  <2>4. Pending = {}
    BY <2>1, <2>3, NothingIn DEF Pending, SentIds, UnreadIds, WriteIds
  <2>5. Falls(view.receipts, past.missed)
    BY <1>1, <2>4 DEF Shown, ViewGood
  <2>6. ASSUME NEW r \in ToSet(audit), WritePath(r), r.id >= past.reach, r.id \notin past.missed PROVE Shows(view.receipts, r.id)
    <3>1. feed.seeded
      <4>1. ~feed.seeded => feed.last = 0
        BY <1>1 DEF Ordered
      <4> QED
        BY <2>1, <2>2, <4>1
    <3>2. r.id \in Known(past.reach)
      BY <2>6 DEF Known, WriteIds
    <3>3. ViewGood(view.receipts, {}, past.missed, Known(past.reach), tally.rows)
      BY <1>1, <2>1, <2>4, <3>1 DEF Shown
    <3> QED
      BY <3>2, <3>3 DEF ViewGood
  <2> QED
    BY <2>5, <2>6 DEF Falls, Shows
<1> QED
  BY <1>4, <1>5 DEF ReceiptsArrive, ReceiptsAreCurrent

(***************************************************************************)
(* ReceiptsArrive: each write is told once and in order, and when nothing  *)
(* is on its way the page shows the newest, as far back as its snapshot    *)
(* went: for any limits, through pruning, purges, reused numbers, queues   *)
(* that cannot be read, and any interleaving of snapshots with deltas.     *)
(***************************************************************************)
THEOREM ReceiptsArriveHolds == ReceiptsSpec => []ReceiptsArrive
BY TellInvariant, TellIsArrival, PTL
=============================================================================
