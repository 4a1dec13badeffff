---------------------------- MODULE Resend_proofs ---------------------------
(***************************************************************************)
(* The forwarder of one connection, for every layout, owned range, number  *)
(* of steps and queue size.                                                *)
(***************************************************************************)
EXTENDS Resend, WellFoundedInduction, TLAPS

(***************************************************************************)
(* Facts about the step schedule, for every layout and owned range.        *)
(***************************************************************************)

\* Division with remainder, as the provers need it.
LEMMA DivMod ==
    ASSUME NEW a \in Nat, NEW b \in Nat \ {0}
    PROVE  /\ a \div b \in Nat
           /\ a % b \in 0 .. (b - 1)
           /\ a = b * (a \div b) + (a % b)
BY SMT

\* step_after always moves forward.
LEMMA StepAfterGrows ==
    ASSUME NEW s \in Nat
    PROVE  StepAfter(s) \in Nat /\ StepAfter(s) > s
<1>1. s % NumFragments \in 0 .. (NumFragments - 1)
  BY DivMod, ScheduleAssumption, Zenon
<1>. QED
  BY <1>1, ScheduleAssumption DEF StepAfter

\* expected_version never exceeds the step of the cut.
LEMMA ExpectedVersionBound ==
    ASSUME NEW s \in Nat, NEW p \in Nat
    PROVE  ExpectedVersion(p, s) \in Nat /\ ExpectedVersion(p, s) <= s
<1>1. CASE s < p + 1
  BY <1>1 DEF ExpectedVersion
<1>2. CASE s >= p + 1
  <2>. DEFINE a == s - (p + 1)
  <2>1. a \in Nat
    BY <1>2
  <2>. HIDE DEF a
  <2>2. /\ a \div NumFragments \in Nat
        /\ a % NumFragments \in 0 .. (NumFragments - 1)
        /\ a = NumFragments * (a \div NumFragments) + (a % NumFragments)
    BY <2>1, DivMod, ScheduleAssumption, Zenon
  <2>3. (a \div NumFragments) * NumFragments \in Nat
        /\ (a \div NumFragments) * NumFragments <= a
    BY <2>1, <2>2, ScheduleAssumption, Z3
  <2>4. ExpectedVersion(p, s) = p + 1 + (a \div NumFragments) * NumFragments
    BY <1>2 DEF ExpectedVersion, a
  <2>5. s = p + 1 + a
    BY <1>2 DEF a
  <2>. QED
    BY <2>1, <2>3, <2>4, <2>5
<1>. QED
  BY <1>1, <1>2

\* last_step is a step (or 0: none).
LEMMA LastStepType ==
    ASSUME NEW total \in Nat
    PROVE  LastStepOf(total) \in Nat
<1>1. CASE total = 0
  BY <1>1, Zenon DEF LastStepOf
<1>2. CASE total # 0
  <2>. DEFINE a == total - 1
              sweep == a \div NumFragments
  <2>1. a \in Nat
    BY <1>2
  <2>2. sweep \in Nat /\ a % NumFragments \in 0 .. (NumFragments - 1)
    BY <2>1, DivMod, ScheduleAssumption, Zenon
  <2>3. sweep * NumFragments \in Nat
        /\ (sweep # 0 => (sweep - 1) * NumFragments \in Nat)
    <3>. HIDE DEF sweep
    <3>. QED
      BY <2>2, ScheduleAssumption
  <2>4. LastStepOf(total) =
            IF a % NumFragments >= First
            THEN sweep * NumFragments
                 + (IF a % NumFragments < End - 1 THEN a % NumFragments ELSE End - 1) + 1
            ELSE IF sweep = 0 THEN 0 ELSE (sweep - 1) * NumFragments + End
    BY <1>2, Zenon DEF LastStepOf
  <2>. HIDE DEF a, sweep
  <2>. QED
    BY <2>2, <2>3, <2>4, ScheduleAssumption
<1>. QED
  BY <1>1, <1>2, Zenon

\* Step t merges one of the layout's fragments.
LEMMA FragmentForStepType ==
    ASSUME NEW t \in Nat \ {0}
    PROVE  FragmentForStep(t) \in Fragments
BY DivMod, ScheduleAssumption DEF FragmentForStep, Fragments

\* The step step_after returns is one the shard owns.
LEMMA StepAfterOwned ==
    ASSUME NEW s \in Nat
    PROVE  FragmentForStep(StepAfter(s)) \in Owned
<1>. DEFINE q == s \div NumFragments
            r == s % NumFragments
<1>1. q \in Nat /\ r \in 0 .. (NumFragments - 1) /\ s = NumFragments * q + r
  BY DivMod, ScheduleAssumption, Zenon
<1>2. \E k \in Nat, f \in Owned : StepAfter(s) - 1 = NumFragments * k + f
  <2>1. StepAfter(s) = IF r < First THEN s + 1 + (First - r)
                       ELSE IF r < End THEN s + 1
                       ELSE s + 1 + (NumFragments - r) + First
    BY Zenon DEF StepAfter
  <2>2. NumFragments * q \in Nat /\ NumFragments * (q + 1) = NumFragments * q + NumFragments
    BY <1>1, ScheduleAssumption
  <2>. HIDE DEF q, r
  <2>3. CASE r < First
    <3>1. StepAfter(s) - 1 = NumFragments * q + First /\ First \in Owned
      BY <1>1, <2>1, <2>2, <2>3, ScheduleAssumption DEF Owned
    <3>. QED
      BY <1>1, <3>1, Zenon
  <2>4. CASE r >= First /\ r < End
    <3>1. StepAfter(s) - 1 = NumFragments * q + r /\ r \in Owned
      BY <1>1, <2>1, <2>2, <2>4, ScheduleAssumption DEF Owned
    <3>. QED
      BY <1>1, <3>1, Zenon
  <2>5. CASE r >= End
    <3>1. StepAfter(s) - 1 = NumFragments * (q + 1) + First /\ First \in Owned
      BY <1>1, <2>1, <2>2, <2>5, ScheduleAssumption DEF Owned
    <3>2. q + 1 \in Nat
      BY <1>1
    <3>. QED
      BY <3>1, <3>2, Zenon
  <2>. QED
    BY <1>1, <2>3, <2>4, <2>5, ScheduleAssumption
<1>3. ASSUME NEW k \in Nat, NEW f \in Owned, StepAfter(s) - 1 = NumFragments * k + f
      PROVE  FragmentForStep(StepAfter(s)) = f
  <2>. DEFINE x == NumFragments * k + f
  <2>1. f \in 0 .. (NumFragments - 1) /\ x \in Nat
    BY <1>3, ScheduleAssumption DEF Owned
  <2>2. x % NumFragments \in 0 .. (NumFragments - 1)
        /\ x \div NumFragments \in Nat
        /\ x = NumFragments * (x \div NumFragments) + (x % NumFragments)
    BY <2>1, DivMod, ScheduleAssumption, Zenon
  <2>3. x % NumFragments = f
    BY <2>1, <2>2, ScheduleAssumption
  <2>. QED
    BY <1>3, <2>3, Zenon DEF FragmentForStep
<1>. QED
  BY <1>2, <1>3, Zenon

\* A step lies a whole number of sweeps after its fragment.
LEMMA StepPosition ==
    ASSUME NEW t \in Nat \ {0}
    PROVE  \E k \in Nat : t = FragmentForStep(t) + 1 + NumFragments * k
<1>1. t - 1 \in Nat
  OBVIOUS
<1>2. /\ (t - 1) \div NumFragments \in Nat
      /\ t - 1 = NumFragments * ((t - 1) \div NumFragments) + FragmentForStep(t)
  BY <1>1, DivMod, ScheduleAssumption, Zenon DEF FragmentForStep
<1>3. FragmentForStep(t) \in Nat
  BY FragmentForStepType, ScheduleAssumption DEF Fragments
<1>. DEFINE k == (t - 1) \div NumFragments
<1>4. k \in Nat /\ t - 1 = NumFragments * k + FragmentForStep(t)
  BY <1>2, Zenon
<1>. HIDE DEF k
<1>5. t = FragmentForStep(t) + 1 + NumFragments * k
  BY <1>3, <1>4, ScheduleAssumption
<1>. QED
  BY <1>4, <1>5, Zenon

\* Multiples of the layout size are a layout size apart.
LEMMA Sweeps ==
    ASSUME NEW a \in Int, NEW b \in Int, a < b
    PROVE  NumFragments * a + NumFragments <= NumFragments * b
<1>1. NumFragments * (b - a) >= NumFragments
  BY ScheduleAssumption
<1>. QED
  BY <1>1, ScheduleAssumption

\* The position of a step determines its fragment.
LEMMA PositionFragment ==
    ASSUME NEW p \in Fragments, NEW k \in Nat
    PROVE  FragmentForStep(p + 1 + NumFragments * k) = p
<1>. DEFINE x == NumFragments * k + p
<1>1. x \in Nat /\ p \in 0 .. (NumFragments - 1)
  BY ScheduleAssumption DEF Fragments
<1>2. /\ x \div NumFragments \in Nat
      /\ x % NumFragments \in 0 .. (NumFragments - 1)
      /\ x = NumFragments * (x \div NumFragments) + (x % NumFragments)
  BY <1>1, DivMod, ScheduleAssumption, Zenon
<1>3. x % NumFragments = p
  BY <1>1, <1>2, ScheduleAssumption
<1>4. (p + 1 + NumFragments * k) - 1 = x
  BY <1>1, ScheduleAssumption
<1>. QED
  BY <1>3, <1>4, Zenon DEF FragmentForStep

\* step_after skips no step of the shard.
LEMMA StepAfterLeast ==
    ASSUME NEW s \in Nat, NEW u \in Nat, u > s, FragmentForStep(u) \in Owned
    PROVE  StepAfter(s) <= u
<1>. DEFINE q == s \div NumFragments
            r == s % NumFragments
            g == FragmentForStep(u)
<1>1. q \in Nat /\ r \in 0 .. (NumFragments - 1) /\ s = NumFragments * q + r
  BY DivMod, ScheduleAssumption, Zenon
<1>2. g \in Nat /\ First <= g /\ g < End
  BY ScheduleAssumption DEF Owned
<1>3. PICK k \in Nat : u = g + 1 + NumFragments * k
  BY StepPosition
<1>4. StepAfter(s) = IF r < First THEN s + 1 + (First - r)
                     ELSE IF r < End THEN s + 1
                     ELSE s + 1 + (NumFragments - r) + First
  BY Zenon DEF StepAfter
<1>. HIDE DEF q, r, g
<1>5. k >= q
  <2>1. CASE k < q
    <3>1. NumFragments * k + NumFragments <= NumFragments * q
      BY <1>1, <1>3, <2>1, Sweeps
    <3>. QED
      BY <1>1, <1>2, <1>3, <3>1, ScheduleAssumption
  <2>. QED
    BY <1>1, <1>3, <2>1
<1>6. k = q \/ NumFragments * q + NumFragments <= NumFragments * k
  BY <1>1, <1>3, <1>5, Sweeps
<1>7. NumFragments * q \in Nat /\ NumFragments * k \in Nat
  BY <1>1, <1>3, ScheduleAssumption
<1>. QED
  BY <1>1, <1>2, <1>3, <1>4, <1>6, <1>7, ScheduleAssumption

\* expected_version of a fragment that was merged: its last step in the cut.
LEMMA ExpectedVersionIs ==
    ASSUME NEW s \in Nat, NEW p \in Nat, NEW k \in Nat,
           p + 1 + NumFragments * k <= s, s < p + 1 + NumFragments * k + NumFragments
    PROVE  ExpectedVersion(p, s) = p + 1 + NumFragments * k
<1>. DEFINE a == s - (p + 1)
            d == a \div NumFragments
<1>0. NumFragments * k \in Nat
  BY ScheduleAssumption
<1>1. a \in Nat /\ s >= p + 1
  BY <1>0
<1>2. /\ d \in Nat
      /\ a % NumFragments \in 0 .. (NumFragments - 1)
      /\ a = NumFragments * d + (a % NumFragments)
  BY <1>1, DivMod, ScheduleAssumption, Zenon
<1>3. ExpectedVersion(p, s) = p + 1 + d * NumFragments
  BY <1>1 DEF ExpectedVersion
<1>. DEFINE rest == a % NumFragments
<1>4. NumFragments * k <= a /\ a < NumFragments * k + NumFragments
  BY <1>0, ScheduleAssumption
<1>5. rest \in 0 .. (NumFragments - 1) /\ a = NumFragments * d + rest
  BY <1>2, Zenon
<1>. HIDE DEF a, d, rest
<1>6. d = k
  <2>1. CASE d < k
    <3>1. NumFragments * d + NumFragments <= NumFragments * k
      BY <1>2, <2>1, Sweeps
    <3>. QED
      BY <1>0, <1>1, <1>2, <1>4, <1>5, <3>1, ScheduleAssumption
  <2>2. CASE k < d
    <3>1. NumFragments * k + NumFragments <= NumFragments * d
      BY <1>2, <2>2, Sweeps
    <3>. QED
      BY <1>0, <1>1, <1>2, <1>4, <1>5, <3>1, ScheduleAssumption
  <2>. QED
    BY <1>2, <2>1, <2>2
<1>7. k * NumFragments = NumFragments * k
  BY ScheduleAssumption
<1>. QED
  BY <1>3, <1>6, <1>7, Zenon

\* expected_version is a step of the fragment at most a sweep back, or none.
LEMMA ExpectedVersionForm ==
    ASSUME NEW s \in Nat, NEW p \in Nat
    PROVE  \/ s < p + 1 /\ ExpectedVersion(p, s) = 0
           \/ \E k \in Nat : /\ ExpectedVersion(p, s) = p + 1 + NumFragments * k
                             /\ p + 1 + NumFragments * k <= s
                             /\ s < p + 1 + NumFragments * k + NumFragments
<1>1. CASE s < p + 1
  BY <1>1, Zenon DEF ExpectedVersion
<1>2. CASE s >= p + 1
  <2>. DEFINE a == s - (p + 1)
              d == a \div NumFragments
  <2>1. a \in Nat
    BY <1>2
  <2>2. /\ d \in Nat
        /\ a % NumFragments \in 0 .. (NumFragments - 1)
        /\ a = NumFragments * d + (a % NumFragments)
    BY <2>1, DivMod, ScheduleAssumption, Zenon
  <2>3. s = p + 1 + a
    BY <1>2
  <2>4. NumFragments * d <= a /\ a < NumFragments * d + NumFragments
        /\ NumFragments * d \in Nat
    <3>. DEFINE rest == a % NumFragments
    <3>1. rest \in 0 .. (NumFragments - 1) /\ a = NumFragments * d + rest
      BY <2>2, Zenon
    <3>. HIDE DEF a, d, rest
    <3>. QED
      BY <2>1, <2>2, <3>1, ScheduleAssumption
  <2>. HIDE DEF a, d
  <2>5. /\ p + 1 + NumFragments * d <= s
        /\ s < p + 1 + NumFragments * d + NumFragments
    BY <2>1, <2>3, <2>4, ScheduleAssumption
  <2>6. ExpectedVersion(p, s) = p + 1 + NumFragments * d
    BY <2>2, <2>5, ExpectedVersionIs, Zenon
  <2>. QED
    BY <2>2, <2>5, <2>6, Zenon
<1>. QED
  BY <1>1, <1>2

\* At its own step, a fragment has that step as its version.
LEMMA ExpectedAtStep ==
    ASSUME NEW t \in Nat \ {0}
    PROVE  ExpectedVersion(FragmentForStep(t), t) = t
<1>1. PICK k \in Nat : t = FragmentForStep(t) + 1 + NumFragments * k
  BY StepPosition, Zenon
<1>2. FragmentForStep(t) \in Nat
  BY FragmentForStepType, ScheduleAssumption DEF Fragments
<1>. QED
  BY <1>1, <1>2, ExpectedVersionIs, ScheduleAssumption

\* The shard's next step leaves the versions of its other fragments alone.
LEMMA ExpectedOfOthers ==
    ASSUME NEW s \in Nat, NEW p \in Owned, FragmentForStep(StepAfter(s)) # p
    PROVE  ExpectedVersion(p, StepAfter(s)) = ExpectedVersion(p, s)
<1>. DEFINE t == StepAfter(s)
<1>1. t \in Nat /\ t > s
  BY StepAfterGrows, Zenon
<1>2. p \in Nat /\ p \in Fragments
  BY ScheduleAssumption DEF Owned, Fragments
<1>3. ASSUME NEW j \in Nat, s < p + 1 + NumFragments * j
      PROVE  t < p + 1 + NumFragments * j
  <2>. DEFINE u == p + 1 + NumFragments * j
  <2>0. NumFragments * j \in Nat
    BY ScheduleAssumption
  <2>1. u \in Nat /\ u > s
    BY <1>2, <1>3, <2>0
  <2>4. FragmentForStep(u) = p
    BY <1>2, PositionFragment, Zenon
  <2>2. t <= u
    BY <2>1, <2>4, StepAfterLeast, Zenon
  <2>3. t # u
    BY <2>4, Zenon
  <2>. QED
    BY <1>1, <2>1, <2>2, <2>3
<1>4. CASE s < p + 1 /\ ExpectedVersion(p, s) = 0
  <2>1. t < p + 1 + NumFragments * 0
    BY <1>2, <1>3, <1>4, ScheduleAssumption
  <2>2. t < p + 1
    BY <1>1, <1>2, <2>1, ScheduleAssumption
  <2>. QED
    BY <1>4, <2>2, Zenon DEF ExpectedVersion
<1>5. ASSUME NEW k \in Nat,
             ExpectedVersion(p, s) = p + 1 + NumFragments * k,
             p + 1 + NumFragments * k <= s,
             s < p + 1 + NumFragments * k + NumFragments
      PROVE  ExpectedVersion(p, t) = ExpectedVersion(p, s)
  <2>1. NumFragments * (k + 1) = NumFragments * k + NumFragments
    BY ScheduleAssumption
  <2>2. NumFragments * k \in Nat
    BY ScheduleAssumption
  <2>5. k + 1 \in Nat /\ s < p + 1 + NumFragments * (k + 1)
    BY <1>2, <1>5, <2>1, <2>2, ScheduleAssumption
  <2>3. t < p + 1 + NumFragments * (k + 1)
    BY <1>3, <2>5, Zenon
  <2>. HIDE DEF t
  <2>4. /\ p + 1 + NumFragments * k <= t
        /\ t < p + 1 + NumFragments * k + NumFragments
    BY <1>1, <1>2, <1>5, <2>1, <2>2, <2>3, ScheduleAssumption
  <2>. QED
    BY <1>1, <1>2, <1>5, <2>4, ExpectedVersionIs, Zenon
<1>. QED
  BY <1>2, <1>4, <1>5, ExpectedVersionForm, Zenon

(***************************************************************************)
(* Sequences, as the provers need them.                                    *)
(***************************************************************************)

\* The length of a queue, and what is in it.
LEMMA LenIs ==
    ASSUME NEW S, NEW w \in Seq(S)
    PROVE  Len(w) \in Nat /\ DOMAIN w = 1 .. Len(w)
OBVIOUS

\* Every entry of a queue is of its kind.
LEMMA EntryIs ==
    ASSUME NEW S, NEW w \in Seq(S), NEW i \in 1 .. Len(w)
    PROVE  w[i] \in S
OBVIOUS

\* The first entry of a queue, and what popping it leaves.
LEMMA HeadTailIs ==
    ASSUME NEW S, NEW w \in Seq(S), w # <<>>
    PROVE  /\ Head(w) \in S /\ Tail(w) \in Seq(S)
           /\ Len(Tail(w)) = Len(w) - 1
OBVIOUS

\* A queue with one more entry.
LEMMA AppendIs ==
    ASSUME NEW S, NEW w \in Seq(S), NEW f \in S
    PROVE  /\ Append(w, f) \in Seq(S) /\ Len(Append(w, f)) = Len(w) + 1
           /\ \A i \in 1 .. Len(w) : Append(w, f)[i] = w[i]
           /\ Append(w, f)[Len(w) + 1] = f
OBVIOUS

\* Two parts of a queue, one behind the other.
LEMMA ConcatIs ==
    ASSUME NEW S, NEW a \in Seq(S), NEW b \in Seq(S)
    PROVE  /\ a \o b \in Seq(S) /\ Len(a \o b) = Len(a) + Len(b)
           /\ \A i \in 1 .. Len(a) + Len(b) :
                 (a \o b)[i] = IF i <= Len(a) THEN a[i] ELSE b[i - Len(a)]
OBVIOUS


\* The part of the type invariant the proof rests on.
PendingType ==
    /\ step \in Nat
    /\ pending \in [Owned -> Int]
    /\ target \in [Owned -> Int]
    /\ \A p \in Owned : pending[p] >= None

\* The inductive invariant: targets are covered, and the maps are maps.
TargetInv == PendingType /\ TargetsCovered

\* Offering versions keeps the map a map, and never lowers an entry.
LEMMA OfferedGrows ==
    ASSUME PendingType, NEW S \in SUBSET Owned,
           NEW offers \in [S -> Nat]
    PROVE  /\ Offered(offers) \in [Owned -> Int]
           /\ \A p \in Owned : Offered(offers)[p] >= pending[p]
BY DEF Offered, PendingType

\* The fragments of a shard are numbers.
LEMMA OwnedNat == Owned \subseteq Nat
BY ScheduleAssumption DEF Owned

\* A stream that has just started has its targets covered.
LEMMA InitTarget == Init => TargetInv
BY ScheduleAssumption
DEF Init, TargetInv, PendingType, TargetsCovered, NoVersions, None

\* Every step keeps the targets covered.
LEMMA StepTarget == TargetInv /\ [Next]_vars => TargetInv'
<1>. SUFFICES ASSUME TargetInv, [Next]_vars PROVE TargetInv'
  BY Zenon
<1>. USE DEF None
<1>a. PendingType /\ TargetsCovered
  BY Zenon DEF TargetInv
<1>b. \A p \in Owned : Version(p) \in Nat
  BY <1>a, ExpectedVersionBound, OwnedNat, Zenon DEF Version, PendingType
<1>1. CASE SendInitial
  BY <1>a, <1>1, Zenon DEF SendInitial, TargetInv, PendingType, TargetsCovered
<1>2. CASE Publish
  <2>. DEFINE t == StepAfter(step)
              p == FragmentForStep(t)
              offers == [q \in {p} |-> t]
  <2>1. t \in Nat /\ p \in Owned
    BY <1>a, StepAfterGrows, StepAfterOwned, Zenon DEF PendingType
  <2>2. offers \in [{p} -> Nat] /\ {p} \in SUBSET Owned
    BY <2>1, Zenon
  <2>3. pending' = pending \/ pending' = Offered(offers)
    BY <1>2, Zenon DEF Publish
  <2>4. /\ step' = t
        /\ UNCHANGED target
    BY <1>2, Zenon DEF Publish
  <2>. HIDE DEF t, p, offers
  <2>5. /\ Offered(offers) \in [Owned -> Int]
        /\ \A q \in Owned : Offered(offers)[q] >= pending[q]
    BY <1>a, <2>2, OfferedGrows, Zenon
  <2>6. pending' \in [Owned -> Int] /\ \A q \in Owned : pending'[q] >= pending[q]
    BY <1>a, <2>3, <2>5 DEF PendingType
  <2>. QED
    BY <1>a, <2>1, <2>4, <2>6 DEF TargetInv, PendingType, TargetsCovered
<1>3. ASSUME NEW event \in {"hello", "disconnected"}, HandleEvent(event)
      PROVE  TargetInv'
  <2>1. CASE UNCHANGED connVars
    BY <1>a, <1>3, <2>1, Zenon
    DEF HandleEvent, connVars, TargetInv, PendingType, TargetsCovered
  <2>2. ASSUME NEW kind, Start(kind)
        PROVE  TargetInv'
    <3>. DEFINE owing  == IF step < LastStep THEN Owned ELSE {}
                offers == [p \in owing |-> Version(p)]
    <3>1. offers \in [owing -> Nat] /\ owing \in SUBSET Owned
      BY <1>b, Zenon
    <3>2. /\ pending' = Offered(offers)
          /\ target' = Required(Offered(offers))
      BY <2>2, Zenon DEF Start
    <3>. HIDE DEF owing, offers
    <3>3. pending' \in [Owned -> Int] /\ \A p \in Owned : pending'[p] >= pending[p]
      BY <1>a, <3>1, <3>2, OfferedGrows, Zenon
    <3>4. target' = Required(pending')
      BY <3>2, Zenon
    <3>5. /\ target' \in [Owned -> Int]
          /\ \A p \in Owned : target'[p] = IF pending'[p] = None THEN target[p]
                                           ELSE MaxOf(target[p], pending'[p])
      BY <1>a, <3>3, <3>4, Zenon DEF Required, PendingType, MaxOf
    <3>6. UNCHANGED step
      BY <1>3, Zenon DEF HandleEvent
    <3>7. \A p \in Owned : target'[p] # -1 => pending'[p] >= target'[p]
      BY <1>a, <3>3, <3>5 DEF PendingType, TargetsCovered, MaxOf
    <3>8. \A p \in Owned : pending'[p] >= -1
      BY <1>a, <3>3 DEF PendingType
    <3>. QED
      BY <1>a, <3>3, <3>5, <3>6, <3>7, <3>8, Zenon
      DEF TargetInv, PendingType, TargetsCovered
  <2>. QED
    BY <1>3, <2>1, <2>2, Zenon DEF HandleEvent, connVars
<1>4. CASE DropSuperseded
  BY <1>a, <1>4, Zenon DEF DropSuperseded, TargetInv, PendingType, TargetsCovered
<1>5. CASE TakeDue
  <2>1. UNCHANGED step
    BY <1>5, Zenon DEF TakeDue
  <2>2. CASE UNCHANGED connVars
    BY <1>a, <2>1, <2>2, Zenon DEF connVars, TargetInv, PendingType, TargetsCovered
  <2>3. CASE NewConn
    BY <1>a, <2>1, <2>3
    DEF NewConn, NoVersions, TargetInv, PendingType, TargetsCovered
  <2>. QED
    BY <1>5, <2>2, <2>3, Zenon DEF TakeDue, connVars
<1>6. CASE Stop
  BY <1>a, <1>6, Zenon DEF Stop, TargetInv, PendingType, TargetsCovered
<1>7. CASE ForwardPrelude
  BY <1>a, <1>7, Zenon DEF ForwardPrelude, TargetInv, PendingType, TargetsCovered
<1>8. CASE ForwardPending
  <2>. DEFINE p == NextToPop
  <2>1. /\ pending' = [pending EXCEPT ![p] = -1]
        /\ target' = IF Meets(p) THEN [target EXCEPT ![p] = -1] ELSE target
        /\ UNCHANGED step
    BY <1>8, Zenon DEF ForwardPending
  <2>. HIDE DEF p
  <2>2. CASE p \in Owned
    <3>1. Meets(p) \/ target[p] = -1
      BY <1>a, <2>2, Zenon DEF TargetsCovered, Meets
    <3>2. target'[p] = -1 /\ target' \in [Owned -> Int]
          /\ \A q \in Owned : q # p => target'[q] = target[q]
      BY <1>a, <2>1, <2>2, <3>1 DEF PendingType
    <3>3. pending' \in [Owned -> Int]
          /\ pending'[p] = -1
          /\ \A q \in Owned : q # p => pending'[q] = pending[q]
      BY <1>a, <2>1, <2>2 DEF PendingType
    <3>. QED
      BY <1>a, <2>1, <2>2, <3>2, <3>3 DEF TargetInv, PendingType, TargetsCovered
  <2>3. CASE p \notin Owned
    <3>1. pending' = pending /\ target' = target
      BY <1>a, <2>1, <2>3, Zenon DEF PendingType
    <3>. QED
      BY <1>a, <2>1, <3>1, Zenon DEF TargetInv, PendingType, TargetsCovered
  <2>. QED
    BY <2>2, <2>3, Zenon
<1>9. CASE HandOver
  BY <1>a, <1>9, Zenon DEF HandOver, TargetInv, PendingType, TargetsCovered
<1>10. CASE ForwarderStops
  BY <1>a, <1>10, Zenon DEF ForwarderStops, TargetInv, PendingType, TargetsCovered
<1>11. CASE Deliver
  BY <1>a, <1>11, Zenon DEF Deliver, connVars, TargetInv, PendingType, TargetsCovered
<1>12. CASE Close
  BY <1>a, <1>12, Zenon DEF Close, connVars, TargetInv, PendingType, TargetsCovered
<1>13. CASE Superseded
  BY <1>a, <1>13, Zenon
  DEF Superseded, connVars, TargetInv, PendingType, TargetsCovered
<1>14. CASE UNCHANGED vars
  BY <1>a, <1>14, Zenon DEF vars, connVars, TargetInv, PendingType, TargetsCovered
<1>. QED
  BY Zenon, <1>1, <1>2, <1>3, <1>4, <1>5, <1>6, <1>7, <1>8, <1>9, <1>10, <1>11, <1>12,
     <1>13, <1>14 DEF Next, Scheduler, Forwarder

\* Every unmet target has a pending entry at least as new (the comment in
\* Pending::pop), so a catch-up's tail never waits for a version that no
\* entry will deliver.
THEOREM TargetsAlwaysCovered == Spec => []TargetsCovered
<1>1. TargetInv => TargetsCovered
  BY Zenon DEF TargetInv
<1>. QED
  BY InitTarget, StepTarget, <1>1, PTL DEF Spec

(***************************************************************************)
(* One sender: the versions of a fragment never go backwards.              *)
(***************************************************************************)

Frames == Owned \X Nat

\* The frames of the initial cut.
Initials == Owned \X {0}

\* The frames on their way, and the versions the connection has seen.
FrameType ==
    /\ cut \in First .. End
    /\ writer \in Seq(Frames)
    /\ prelude \in Seq(Initials)
    /\ flight \in SUBSET Frames
    /\ \A f, g \in flight : f = g
    /\ sent \in [Owned -> Int]
    /\ got \in [Owned -> Int]
    /\ floor \in [Owned -> Int]
    /\ owed \in [Owned -> Int]

\* Queue w, or the frames F, have fragment p up to version v.
QueuedUpTo(w, p, v) ==
    \A i \in 1 .. Len(w) : w[i][1] = p => w[i][2] <= v

FlightUpTo(F, p, v) == \A f \in F : f[1] = p => f[2] <= v

\* Why an older version is never handed over after a newer one.  Whatever was
\* handed over of a fragment is at most its current version and at most its
\* pending one; exact frames are left only while nothing but initial versions
\* was handed over; and while publications go out inline the forwarder has
\* nothing to send.
OrderInv ==
    /\ NeverBackwards
    /\ \A p \in Owned :
          /\ QueuedUpTo(writer, p, Version(p)) /\ FlightUpTo(flight, p, Version(p))
          /\ sent[p] <= Version(p)
          /\ pending[p] # None =>
                /\ pending[p] <= Version(p)
                /\ QueuedUpTo(writer, p, pending[p]) /\ FlightUpTo(flight, p, pending[p])
          /\ prelude # <<>> => QueuedUpTo(writer, p, 0) /\ FlightUpTo(flight, p, 0)
    /\ cut < End => step = 0
    /\ ~entry /\ current /\ step < LastStep =>
          prelude = <<>> /\ flight = {} /\ pending = NoVersions

\* A nonempty set of numbers has a least one.
LEMMA LeastNat ==
    ASSUME NEW S \in SUBSET Nat, S # {}
    PROVE  \E m \in S : \A n \in S : m <= n
<1>1. PICK m \in S : \A n \in S : ~(<<n, m>> \in OpToRel(<, Nat))
  BY NatLessThanWellFounded, WFMin, Zenon
<1>2. \A n \in S : ~(n < m)
  BY <1>1, Zenon DEF OpToRel
<1>. QED
  BY <1>2

\* Pending::pop always finds an entry when there is one.
LEMMA PopFinds ==
    ASSUME PendingType, HasPending
    PROVE  NextToPop \in Owned /\ pending[NextToPop] # None
           /\ \A q \in Owned \ {NextToPop} :
                 pending[q] # None => Before(NextToPop, q)
<1>. DEFINE S == {p \in Owned : pending[p] # None}
            T == {p \in S : target[p] # None}
            C == IF T = {} THEN S ELSE T
            V == {pending[p] : p \in C}
<1>1. C # {} /\ C \subseteq S /\ S \subseteq Owned
  BY Zenon DEF HasPending
<1>2. \A p \in S : pending[p] \in Nat
  BY DEF PendingType, None
<1>3. V \in SUBSET Nat /\ V # {}
  BY <1>1, <1>2, Zenon
<1>4. PICK v \in V : \A w \in V : v <= w
  <2>. HIDE DEF V
  <2>. QED
    BY <1>3, LeastNat, Zenon
<1>. DEFINE M == {p \in C : pending[p] = v}
<1>5. M \in SUBSET Nat /\ M # {}
  BY <1>1, <1>4, OwnedNat, Zenon
<1>6. PICK p \in M : \A q \in M : p <= q
  <2>. HIDE DEF M
  <2>. QED
    BY <1>5, LeastNat, Zenon
<1>7. p \in Owned /\ pending[p] # None /\ pending[p] = v
  BY <1>1, <1>6, Zenon
<1>8. ASSUME NEW q \in Owned \ {p}, pending[q] # None
      PROVE  Before(p, q)
  <2>1. q \in S /\ p \in C /\ p \in S /\ p # q
    BY <1>1, <1>6, <1>8, Zenon
  <2>2. CASE q \notin C
    BY <2>1, <2>2, Zenon DEF Before
  <2>3. CASE q \in C
    <3>1. (target[p] = None) <=> (target[q] = None)
      BY <2>1, <2>3, Zenon
    <3>2. pending[p] <= pending[q] /\ pending[p] \in Nat /\ pending[q] \in Nat
      BY <1>2, <1>4, <1>7, <2>1, <2>3
    <3>3. pending[p] = pending[q] => p <= q
      BY <1>6, <1>7, <2>3, Zenon
    <3>4. p \in Nat /\ q \in Nat
      BY <1>7, <2>1, OwnedNat, Zenon
    <3>. QED
      BY <2>1, <3>1, <3>2, <3>3, <3>4 DEF Before
  <2>. QED
    BY <2>2, <2>3, Zenon
<1>. QED
  BY <1>7, <1>8, Zenon DEF NextToPop

\* The first part of a sequence.
LEMMA FirstPart ==
    ASSUME NEW S, NEW w \in Seq(S), NEW i \in 1 .. Len(w)
    PROVE  /\ SubSeq(w, 1, i - 1) \in Seq(S)
           /\ Len(SubSeq(w, 1, i - 1)) = i - 1
           /\ \A k \in 1 .. i - 1 : SubSeq(w, 1, i - 1)[k] = w[k]
OBVIOUS

\* The last part of a sequence.
LEMMA LastPart ==
    ASSUME NEW S, NEW w \in Seq(S), NEW i \in 1 .. Len(w)
    PROVE  /\ SubSeq(w, i + 1, Len(w)) \in Seq(S)
           /\ Len(SubSeq(w, i + 1, Len(w))) = Len(w) - i
           /\ \A k \in 1 .. Len(w) - i : SubSeq(w, i + 1, Len(w))[k] = w[k + i]
OBVIOUS

\* What Deliver leaves of the writer queues.
LEMMA Removed ==
    ASSUME NEW S, NEW w \in Seq(S), NEW i \in 1 .. Len(w)
    PROVE  LET r == SubSeq(w, 1, i - 1) \o SubSeq(w, i + 1, Len(w))
           IN  /\ r \in Seq(S)
               /\ Len(r) = Len(w) - 1
               /\ \A k \in 1 .. Len(w) - 1 :
                     r[k] = IF k < i THEN w[k] ELSE w[k + 1]
<1>. DEFINE a == SubSeq(w, 1, i - 1)
            b == SubSeq(w, i + 1, Len(w))
            r == a \o b
<1>1. /\ a \in Seq(S) /\ Len(a) = i - 1
      /\ \A k \in 1 .. i - 1 : a[k] = w[k]
  BY FirstPart, Zenon
<1>2. /\ b \in Seq(S) /\ Len(b) = Len(w) - i
      /\ \A k \in 1 .. Len(w) - i : b[k] = w[k + i]
  BY LastPart, Zenon
<1>3. Len(w) \in Nat /\ i \in 1 .. Len(w)
  BY LenIs, Zenon
<1>. HIDE DEF a, b
<1>4. /\ r \in Seq(S) /\ Len(r) = Len(a) + Len(b)
      /\ \A k \in 1 .. Len(a) + Len(b) :
            r[k] = IF k <= Len(a) THEN a[k] ELSE b[k - Len(a)]
  BY <1>1, <1>2, ConcatIs, Zenon
<1>. HIDE DEF r
<1>5. Len(r) = Len(w) - 1
  BY <1>1, <1>2, <1>3, <1>4
<1>6. ASSUME NEW k \in 1 .. Len(w) - 1
      PROVE  r[k] = IF k < i THEN w[k] ELSE w[k + 1]
  <2>1. r[k] = IF k <= i - 1 THEN a[k] ELSE b[k - (i - 1)]
    BY <1>1, <1>2, <1>3, <1>4
  <2>2. CASE k < i
    BY <1>1, <1>3, <2>1, <2>2
  <2>3. CASE ~(k < i)
    <3>1. r[k] = b[k - (i - 1)] /\ k - (i - 1) \in 1 .. Len(w) - i
      BY <1>3, <2>1, <2>3
    <3>2. b[k - (i - 1)] = w[(k - (i - 1)) + i]
      BY <1>2, <3>1, Zenon
    <3>3. (k - (i - 1)) + i = k + 1
      BY <1>3
    <3>. QED
      BY <2>3, <3>1, <3>2, <3>3, Zenon
  <2>. QED
    BY <2>2, <2>3, Zenon
<1>. QED
  BY <1>4, <1>5, <1>6, Zenon DEF r, a, b

\* A merge moves its own fragment to its step and the others nowhere.
LEMMA VersionAfter ==
    ASSUME PendingType, step' = StepAfter(step)
    PROVE  /\ \A p \in Owned : Version(p) \in Nat /\ Version(p) <= step
           /\ step' \in Nat /\ step' > step
           /\ FragmentForStep(step') \in Owned
           /\ \A p \in Owned :
                 Version(p)' = IF p = FragmentForStep(step') THEN step'
                               ELSE Version(p)
<1>1. step \in Nat
  BY Zenon DEF PendingType
<1>2. step' \in Nat /\ step' > step /\ FragmentForStep(step') \in Owned
  BY <1>1, StepAfterGrows, StepAfterOwned, Zenon
<1>3. \A p \in Owned : Version(p) \in Nat /\ Version(p) <= step
  BY <1>1, OwnedNat, ExpectedVersionBound, Zenon DEF Version
<1>4. ExpectedVersion(FragmentForStep(step'), step') = step'
  BY <1>1, <1>2, ExpectedAtStep
<1>5. ASSUME NEW p \in Owned, p # FragmentForStep(step')
      PROVE  ExpectedVersion(p, step') = ExpectedVersion(p, step)
  BY <1>1, <1>5, ExpectedOfOthers, Zenon
<1>. QED
  BY <1>2, <1>3, <1>4, <1>5, Zenon DEF Version

\* Versions are numbers, and 0 before the first merge.
LEMMA VersionType ==
    ASSUME PendingType
    PROVE  \A p \in Owned : /\ Version(p) \in Nat
                            /\ Version(p) <= step
                            /\ step = 0 => Version(p) = 0
<1>1. \A p \in Owned : Version(p) \in Nat /\ Version(p) <= step
  BY OwnedNat, ExpectedVersionBound, Zenon DEF Version, PendingType
<1>. QED
  BY <1>1

\* The inductive invariant behind NeverBackwards.
SenderInv == TargetInv /\ FrameType /\ OrderInv

\* The parts of a frame.
LEMMA FrameParts ==
    /\ \A f \in Frames : f[1] \in Owned /\ f[2] \in Nat
    /\ \A f \in Initials : f \in Frames /\ f[2] = 0
    /\ \A p \in Owned : \A v \in Nat : <<p, v>> \in Frames
    /\ \A p \in Owned : <<p, 0>> \in Initials
BY DEF Frames, Initials

\* Every step keeps the frames frames.
LEMMA StepFrames == SenderInv /\ [Next]_vars => FrameType'
<1>. SUFFICES ASSUME SenderInv, [Next]_vars PROVE FrameType'
  BY Zenon
<1>a. PendingType /\ FrameType /\ OrderInv /\ TargetsCovered
  BY Zenon DEF SenderInv, TargetInv
<1>b. \A p \in Owned : Version(p) \in Nat /\ (step = 0 => Version(p) = 0)
  BY <1>a, VersionType, Zenon
<1>c. First \in Nat /\ End \in Nat /\ Owned = First .. (End - 1)
  BY ScheduleAssumption, Zenon DEF Owned
<1>d. writer \in Seq(Frames) /\ prelude \in Seq(Initials)
      /\ flight \subseteq Frames
  BY <1>a, Zenon DEF FrameType
<1>1. CASE SendInitial
  <2>. DEFINE frame == <<cut, Version(cut)>>
  <2>1. /\ frame \in Initials /\ frame \in Frames
        /\ cut' \in First .. End
    BY <1>1, <1>a, <1>b, <1>c DEF SendInitial, FrameType, OrderInv, Frames, Initials
  <2>2. /\ prelude' = prelude \/ prelude' = Append(prelude, frame)
                             \/ prelude' = <<frame>>
        /\ writer' = writer \/ writer' = Append(writer, frame)
        /\ UNCHANGED <<flight, sent, got, floor, owed>>
    BY <1>1, Zenon DEF SendInitial, history
  <2>. HIDE DEF frame
  <2>3. prelude' \in Seq(Initials)
    <3>1. prelude' = prelude \/ prelude' = Append(prelude, frame)
                             \/ prelude' = <<frame>>
      BY <2>2, Zenon
    <3>2. <<frame>> \in Seq(Initials) /\ Append(prelude, frame) \in Seq(Initials)
      BY <1>d, <2>1
    <3>. QED
      BY <1>d, <3>1, <3>2, Zenon
  <2>4. writer' \in Seq(Frames)
    <3>1. writer' = writer \/ writer' = Append(writer, frame)
      BY <2>2, Zenon
    <3>. QED
      BY <1>d, <2>1, <3>1
  <2>. QED
    BY <1>a, <2>1, <2>2, <2>3, <2>4, Zenon DEF FrameType
<1>2. CASE Publish
  <2>. DEFINE frame == <<FragmentForStep(StepAfter(step)), StepAfter(step)>>
  <2>1. frame \in Frames
    BY <1>a, StepAfterGrows, StepAfterOwned, Zenon DEF Frames, PendingType
  <2>2. /\ writer' = writer \/ writer' = Append(writer, frame)
        /\ UNCHANGED <<cut, prelude, flight, sent, got, floor, owed>>
    BY <1>2, Zenon DEF Publish, history
  <2>. HIDE DEF frame
  <2>3. writer' \in Seq(Frames)
    BY <1>d, <2>1, <2>2
  <2>. QED
    BY <1>a, <2>2, <2>3, Zenon DEF FrameType
<1>3. ASSUME NEW event \in {"hello", "disconnected"}, HandleEvent(event)
      PROVE  FrameType'
  <2>1. UNCHANGED <<cut, writer, prelude, flight, sent, got, floor>>
    BY <1>3, Zenon DEF HandleEvent, Start, connVars
  <2>2. owed' \in [Owned -> Int]
    BY <1>3, <1>a, <1>b DEF HandleEvent, Start, history, FrameType
  <2>. QED
    BY <1>a, <2>1, <2>2, Zenon DEF FrameType
<1>4. CASE DropSuperseded
  BY <1>a, <1>4, Zenon DEF DropSuperseded, history, FrameType
<1>5. CASE TakeDue
  <2>1. UNCHANGED <<cut, writer, got, owed>>
    BY <1>5, Zenon DEF TakeDue, history
  <2>2. floor' \in [Owned -> Int]
    BY <1>5, <1>a, <1>b DEF TakeDue, FrameType, HandedOver, MaxOf, None
  <2>3. CASE UNCHANGED connVars
    BY <1>a, <2>1, <2>2, <2>3, Zenon DEF connVars, FrameType
  <2>4. CASE NewConn
    BY <1>a, <2>1, <2>2, <2>4 DEF NewConn, NoVersions, None, FrameType
  <2>. QED
    BY <1>5, <2>3, <2>4, Zenon DEF TakeDue
<1>6. CASE Stop
  BY <1>a, <1>6, Zenon DEF Stop, history, FrameType
<1>7. CASE ForwardPrelude
  <2>1. Head(prelude) \in Initials /\ Tail(prelude) \in Seq(Initials)
    BY <1>7, <1>a, HeadTailIs, Zenon DEF ForwardPrelude, FrameType
  <2>. DEFINE frame == Head(prelude)
  <2>2. /\ prelude' = Tail(prelude)
        /\ sent' = [sent EXCEPT ![frame[1]] = MaxOf(@, frame[2])]
        /\ flight' = {frame}
        /\ UNCHANGED <<cut, writer, got, floor, owed>>
    BY <1>7, Zenon DEF ForwardPrelude
  <2>3. frame \in Frames /\ frame[1] \in Owned /\ frame[2] = 0
    BY <2>1 DEF Frames, Initials
  <2>. HIDE DEF frame
  <2>4. sent' \in [Owned -> Int]
    BY <1>a, <2>2, <2>3 DEF MaxOf, FrameType
  <2>. QED
    BY <1>a, <2>1, <2>2, <2>3, <2>4, Zenon DEF FrameType
<1>8. CASE ForwardPending
  <2>. DEFINE p == NextToPop
  <2>1. p \in Owned /\ pending[p] # None
    BY <1>8, <1>a, PopFinds, Zenon DEF ForwardPending
  <2>2. /\ sent' = [sent EXCEPT ![p] = pending[p]]
        /\ flight' = {<<p, pending[p]>>}
        /\ UNCHANGED <<cut, prelude, writer, got, floor, owed>>
    BY <1>8, Zenon DEF ForwardPending
  <2>. HIDE DEF p
  <2>3. pending[p] \in Nat
    BY <1>a, <2>1 DEF PendingType, None
  <2>. QED
    <3>1. <<p, pending[p]>> \in Frames
      BY <2>1, <2>3, FrameParts, Zenon
    <3>. QED
      BY <1>a, <2>1, <2>2, <2>3, <3>1 DEF FrameType
<1>9. CASE HandOver
  <2>1. \/ writer' = writer
        \/ \E frame \in flight : writer' = Append(writer, frame)
    BY <1>9, Zenon DEF HandOver
  <2>2. flight' = {} /\ UNCHANGED <<cut, prelude, sent, got, floor, owed>>
    BY <1>9, Zenon DEF HandOver, history
  <2>3. writer' \in Seq(Frames)
    BY <1>d, <2>1
  <2>. QED
    BY <1>a, <2>2, <2>3, Zenon DEF FrameType
<1>10. CASE ForwarderStops
  BY <1>a, <1>10, Zenon DEF ForwarderStops, history, FrameType
<1>11. CASE Deliver
  <2>1. PICK i \in 1 .. Len(writer) :
          /\ writer' = SubSeq(writer, 1, i - 1) \o SubSeq(writer, i + 1, Len(writer))
          /\ got' = [got EXCEPT ![writer[i][1]] = MaxOf(@, writer[i][2])]
    BY <1>11, Zenon DEF Deliver
  <2>2. UNCHANGED <<cut, prelude, flight, sent, floor, owed>>
    BY <1>11, Zenon DEF Deliver, connVars, history
  <2>3. writer' \in Seq(Frames)
    BY <1>a, <2>1, Removed, Zenon DEF FrameType
  <2>4. writer[i] \in Frames
    BY <1>a, EntryIs, Zenon DEF FrameType
  <2>5. got' \in [Owned -> Int]
    <3>. DEFINE p == writer[i][1]
                v == writer[i][2]
    <3>1. p \in Owned /\ v \in Int /\ got \in [Owned -> Int]
      <4>1. p \in Owned /\ v \in Int
        BY <2>4, FrameParts
      <4>. QED
        BY <1>a, <4>1, Zenon DEF FrameType
    <3>2. got' = [got EXCEPT ![p] = MaxOf(got[p], v)]
      BY <2>1, Zenon
    <3>. HIDE DEF p, v
    <3>3. MaxOf(got[p], v) \in Int
      BY <3>1, Zenon DEF MaxOf
    <3>. QED
      BY <3>1, <3>2, <3>3, Zenon
  <2>. QED
    BY <1>a, <2>2, <2>3, <2>5, Zenon DEF FrameType
<1>12. CASE Close
  BY <1>a, <1>12 DEF Close, connVars, history, FrameType
<1>13. CASE Superseded
  BY <1>a, <1>13, Zenon DEF Superseded, connVars, history, FrameType
<1>14. CASE UNCHANGED vars
  BY <1>a, <1>14, Zenon DEF vars, connVars, history, FrameType
<1>. QED
  BY Zenon, <1>1, <1>2, <1>3, <1>4, <1>5, <1>6, <1>7, <1>8, <1>9, <1>10, <1>11, <1>12,
     <1>13, <1>14 DEF Next, Scheduler, Forwarder

\* Queue w holds the versions of each fragment in order.
Sorted(w) ==
    \A i, j \in 1 .. Len(w) :
        i < j /\ w[i][1] = w[j][1] => w[i][2] <= w[j][2]

\* NeverBackwards, fragment by fragment.
LEMMA BackwardsIs ==
    NeverBackwards <=> Sorted(writer) /\ \A f \in flight : QueuedUpTo(writer, f[1], f[2])
BY Zenon DEF NeverBackwards, Sorted, QueuedUpTo

\* What a frame put into the writer queues does to their order.
LEMMA QueueAppend ==
    ASSUME FrameType, NEW f \in Frames, writer' = Append(writer, f)
    PROVE  /\ \A p \in Owned : \A v \in Int :
                 QueuedUpTo(writer, p, v) /\ (f[1] = p => f[2] <= v) => QueuedUpTo(writer', p, v)
           /\ Sorted(writer) /\ QueuedUpTo(writer, f[1], f[2]) => Sorted(writer')
<1>. DEFINE n == Len(writer)
<1>1. writer \in Seq(Frames)
  BY Zenon DEF FrameType
<1>2. /\ n \in Nat /\ Len(writer') = n + 1
      /\ \A i \in 1 .. n : writer'[i] = writer[i]
      /\ writer'[n + 1] = f
  BY <1>1, AppendIs, LenIs
<1>. HIDE DEF n
<1>3. \A i \in 1 .. n + 1 : i \in 1 .. n \/ i = n + 1
  BY <1>2
<1>4. ASSUME NEW p \in Owned, NEW v \in Int, QueuedUpTo(writer, p, v),
             f[1] = p => f[2] <= v
      PROVE  QueuedUpTo(writer', p, v)
  BY <1>2, <1>3, <1>4, Zenon DEF QueuedUpTo, n
<1>5. ASSUME Sorted(writer), QueuedUpTo(writer, f[1], f[2]) PROVE Sorted(writer')
  <2>. SUFFICES ASSUME NEW i \in 1 .. n + 1, NEW j \in 1 .. n + 1, i < j,
                       writer'[i][1] = writer'[j][1]
                PROVE  writer'[i][2] <= writer'[j][2]
    BY <1>2, Zenon DEF Sorted
  <2>1. i \in 1 .. n
    BY <1>2
  <2>. QED
    BY <1>2, <1>3, <1>5, <2>1 DEF Sorted, QueuedUpTo, n
<1>. QED
  BY <1>4, <1>5, Zenon

\* What a frame delivered out of the writer queues does to their order.
LEMMA QueueRemove ==
    ASSUME FrameType, NEW i \in 1 .. Len(writer),
           writer' = SubSeq(writer, 1, i - 1) \o SubSeq(writer, i + 1, Len(writer))
    PROVE  /\ \A p \in Owned : \A v \in Int : QueuedUpTo(writer, p, v) => QueuedUpTo(writer', p, v)
           /\ Sorted(writer) => Sorted(writer')
<1>. DEFINE n == Len(writer)
            r == SubSeq(writer, 1, i - 1) \o SubSeq(writer, i + 1, Len(writer))
<1>1. writer \in Seq(Frames) /\ n \in Nat /\ i \in 1 .. n
  BY LenIs, Zenon DEF FrameType
<1>2. /\ Len(r) = n - 1
      /\ \A k \in 1 .. n - 1 : r[k] = IF k < i THEN writer[k] ELSE writer[k + 1]
  BY <1>1, Removed, Zenon
<1>3. writer' = r
  BY Zenon
<1>. HIDE DEF r, n
<1>. DEFINE at(k) == IF k < i THEN k ELSE k + 1
<1>4. /\ Len(writer') = n - 1
      /\ \A k \in 1 .. n - 1 : writer'[k] = writer[at(k)] /\ at(k) \in 1 .. n
      /\ \A k, l \in 1 .. n - 1 : k < l => at(k) < at(l)
  <2>1. Len(writer') = n - 1
    BY <1>2, <1>3, Zenon
  <2>2. \A k \in 1 .. n - 1 : writer'[k] = writer[at(k)]
    BY <1>2, <1>3, Zenon
  <2>3. /\ \A k \in 1 .. n - 1 : at(k) \in 1 .. n
        /\ \A k, l \in 1 .. n - 1 : k < l => at(k) < at(l)
    BY <1>1
  <2>. QED
    BY <2>1, <2>2, <2>3, Zenon
<1>. HIDE DEF at
<1>5. ASSUME NEW p \in Owned, NEW v \in Int, QueuedUpTo(writer, p, v)
      PROVE  QueuedUpTo(writer', p, v)
  BY <1>4, <1>5, Zenon DEF QueuedUpTo, n
<1>6. ASSUME Sorted(writer) PROVE Sorted(writer')
  <2>. SUFFICES ASSUME NEW k \in 1 .. n - 1, NEW l \in 1 .. n - 1, k < l,
                       writer'[k][1] = writer'[l][1]
                PROVE  writer'[k][2] <= writer'[l][2]
    BY <1>4, Zenon DEF Sorted
  <2>. QED
    BY <1>4, <1>6, Zenon DEF Sorted, n
<1>. QED
  BY <1>5, <1>6, Zenon

\* A stream that has just started is in order.
LEMMA InitSender == Init => SenderInv
<1>. SUFFICES ASSUME Init PROVE SenderInv
  BY Zenon
<1>1. TargetInv /\ PendingType
  BY InitTarget, Zenon DEF TargetInv
<1>2. FrameType
  <2>1. /\ cut \in First .. End
        /\ writer = <<>> /\ prelude = <<>> /\ flight = {}
        /\ sent = NoVersions /\ got = NoVersions
        /\ floor = NoVersions /\ owed = NoVersions
    BY ScheduleAssumption DEF Init
  <2>2. NoVersions \in [Owned -> Int]
    BY DEF NoVersions, None
  <2>. QED
    BY <2>1, <2>2 DEF FrameType
<1>3. OrderInv
  <2>1. /\ step = 0 /\ writer = <<>> /\ flight = {} /\ prelude = <<>>
        /\ sent = NoVersions /\ pending = NoVersions
    BY Zenon DEF Init
  <2>2. \A p \in Owned : sent[p] = None /\ pending[p] = None /\ Version(p) \in Nat
    BY <1>1, <2>1, VersionType, Zenon DEF NoVersions
  <2>3. NeverBackwards /\ \A p, v : QueuedUpTo(writer, p, v) /\ FlightUpTo(flight, p, v)
    BY <2>1 DEF NeverBackwards, QueuedUpTo, FlightUpTo
  <2>4. \A p \in Owned : sent[p] <= Version(p)
    BY <2>2 DEF None
  <2>. QED
    BY <2>1, <2>2, <2>3, <2>4, Zenon DEF OrderInv
<1>. QED
  BY <1>1, <1>2, <1>3, Zenon DEF SenderInv

\* Every step keeps the order.
LEMMA StepOrder == SenderInv /\ [Next]_vars => OrderInv'
<1>. SUFFICES ASSUME SenderInv, [Next]_vars PROVE OrderInv'
  BY Zenon
<1>a. PendingType /\ FrameType /\ OrderInv
  BY Zenon DEF SenderInv, TargetInv
<1>b. /\ step \in Nat /\ LastStep \in Nat
      /\ pending \in [Owned -> Int] /\ sent \in [Owned -> Int]
      /\ \A p \in Owned : pending[p] # None => pending[p] \in Nat
      /\ \A p \in Owned : Version(p) \in Nat /\ Version(p) <= step
      /\ \A f \in flight : f \in Frames /\ f[1] \in Owned /\ f[2] \in Nat
      /\ \A i \in 1 .. Len(writer) : writer[i][1] \in Owned /\ writer[i][2] \in Nat
  <2>1. /\ step \in Nat /\ pending \in [Owned -> Int]
        /\ \A p \in Owned : pending[p] # None => pending[p] \in Nat
    BY <1>a DEF PendingType, None
  <2>2. LastStep \in Nat
    BY LastStepType, ResendAssumption, Zenon DEF LastStep
  <2>3. \A p \in Owned : Version(p) \in Nat /\ Version(p) <= step
    BY <1>a, VersionType, Zenon
  <2>4. sent \in [Owned -> Int] /\ flight \subseteq Frames /\ writer \in Seq(Frames)
    BY <1>a, Zenon DEF FrameType
  <2>5. \A i \in 1 .. Len(writer) : writer[i] \in Frames
    BY <2>4, EntryIs, Zenon
  <2>. QED
    BY <2>1, <2>2, <2>3, <2>4, <2>5, FrameParts, Zenon
<1>c. /\ Sorted(writer)
      /\ \A f \in flight : QueuedUpTo(writer, f[1], f[2])
      /\ \A p \in Owned :
            /\ QueuedUpTo(writer, p, Version(p)) /\ FlightUpTo(flight, p, Version(p))
            /\ sent[p] <= Version(p)
            /\ pending[p] # None =>
                  /\ pending[p] <= Version(p)
                  /\ QueuedUpTo(writer, p, pending[p]) /\ FlightUpTo(flight, p, pending[p])
            /\ prelude # <<>> => QueuedUpTo(writer, p, 0) /\ FlightUpTo(flight, p, 0)
      /\ cut < End => step = 0
      /\ ~entry /\ current /\ step < LastStep =>
            prelude = <<>> /\ flight = {} /\ pending = NoVersions
  BY <1>a, BackwardsIs, Zenon DEF OrderInv
<1>s. step \in Nat /\ LastStep \in Nat
  BY <1>b, Zenon
<1>v. \A p \in Owned : Version(p) \in Nat
  BY <1>b, Zenon
<1>w. \A i \in 1 .. Len(writer) : writer[i][2] \in Nat
  BY <1>b, Zenon
<1>x. \A f \in flight : f[2] \in Nat
  BY <1>b, Zenon
<1>i. \A p \in Owned : sent[p] \in Int /\ sent[p] <= Version(p)
  BY <1>b, <1>c, Zenon
<1>n. ~entry /\ current /\ step < LastStep =>
          prelude = <<>> /\ flight = {} /\ pending = NoVersions
  BY <1>c, Zenon
<1>q. \A p \in Owned :
        /\ QueuedUpTo(writer, p, Version(p)) /\ FlightUpTo(flight, p, Version(p))
        /\ pending[p] # None =>
              /\ pending[p] \in Nat
              /\ QueuedUpTo(writer, p, pending[p]) /\ FlightUpTo(flight, p, pending[p])
        /\ prelude # <<>> => QueuedUpTo(writer, p, 0) /\ FlightUpTo(flight, p, 0)
  BY <1>b, <1>c, Zenon
<1>d. Sorted(writer') /\ (\A f \in flight' : QueuedUpTo(writer', f[1], f[2]))
        => NeverBackwards'
  BY Zenon DEF NeverBackwards, Sorted, QueuedUpTo
<1>e. ASSUME UNCHANGED step
      PROVE  \A p : Version(p)' = Version(p)
  BY <1>e, Zenon DEF Version
\* A step that touches no frame.
<1>h. ASSUME UNCHANGED <<step, cut, pending, sent, prelude, flight, writer>>,
             ~entry' /\ current' /\ step < LastStep => ~entry /\ current
      PROVE  OrderInv'
  <2>1. \A p : Version(p)' = Version(p)
    BY <1>e, <1>h, Zenon
  <2>2. NeverBackwards'
    BY <1>c, <1>d, <1>h, Zenon
  <2>. QED
    BY <1>c, <1>h, <2>1, <2>2, Zenon DEF OrderInv, None, NoVersions
<1>4. CASE DropSuperseded
  BY <1>h, <1>4, Zenon DEF DropSuperseded
<1>6. CASE Stop
  BY <1>b, <1>h, <1>6 DEF Stop
<1>10. CASE ForwarderStops
  BY <1>h, <1>10, Zenon DEF ForwarderStops
<1>13. CASE Superseded
  BY <1>h, <1>13, Zenon DEF Superseded, connVars
<1>14. CASE UNCHANGED vars
  BY <1>h, <1>14, Zenon DEF vars, connVars
<1>1. CASE SendInitial
  <2>. DEFINE frame == <<cut, Version(cut)>>
  <2>1. /\ cut < End /\ step = 0 /\ UNCHANGED <<step, pending, sent, flight, current>>
        /\ writer' = writer \/ writer' = Append(writer, frame)
        /\ ~entry' => ~entry /\ prelude' = prelude
    BY <1>1, <1>c DEF SendInitial, NewEntry
  <2>2. /\ \A p \in Owned : Version(p) = 0 /\ Version(p)' = 0
    BY <1>a, <1>e, <2>1, VersionType, Zenon
  <2>3. cut \in Owned
    BY <1>a, <2>1, ScheduleAssumption DEF FrameType, Owned
  <2>4. frame \in Frames /\ frame[1] = cut /\ frame[2] = 0
    BY <2>2, <2>3, FrameParts, Zenon
  <2>. HIDE DEF frame
  <2>5. /\ Sorted(writer')
        /\ \A p \in Owned : \A v \in Nat : QueuedUpTo(writer, p, v) => QueuedUpTo(writer', p, v)
    <3>1. CASE writer' = writer
      BY <1>c, <3>1, Zenon
    <3>2. CASE writer' = Append(writer, frame)
      <4>1. QueuedUpTo(writer, frame[1], frame[2])
        BY <1>c, <2>2, <2>3, <2>4, Zenon
      <4>2. \A v \in Nat : v \in Int /\ 0 <= v
        OBVIOUS
      <4>. QED
        BY <1>a, <1>c, <2>4, <3>2, <4>1, <4>2, QueueAppend, Zenon
    <3>. QED
      BY <2>1, <3>1, <3>2, Zenon
  <2>6. \A p, v : FlightUpTo(flight, p, v) => FlightUpTo(flight', p, v)
    BY <2>1, Zenon
  <2>7. NeverBackwards'
    BY <1>b, <1>c, <1>d, <2>1, <2>5, Zenon
  <2>8. \A p \in Owned : QueuedUpTo(writer', p, 0) /\ FlightUpTo(flight', p, 0)
    BY <1>c, <2>2, <2>5, <2>6, Zenon
  <2>9. \A p \in Owned : pending[p] # None =>
            QueuedUpTo(writer', p, pending[p]) /\ FlightUpTo(flight', p, pending[p])
    BY <1>b, <1>c, <2>5, <2>6, Zenon
  <2>. QED
    BY <1>c, <2>1, <2>2, <2>7, <2>8, <2>9, Zenon DEF OrderInv, None, NoVersions
<1>2. CASE Publish
  <2>. DEFINE t == StepAfter(step)
              p == FragmentForStep(t)
              frame == <<p, t>>
  <2>1. /\ step' = t /\ cut = End /\ t <= LastStep
        /\ UNCHANGED <<cut, sent, prelude, flight, current>>
        /\ \/ writer' = writer
           \/ /\ writer' = Append(writer, frame) /\ t < LastStep
              /\ ~entry /\ current
        /\ pending' = pending \/ pending' = Offered([q \in {p} |-> t])
        /\ ~entry' => ~entry /\ pending' = pending
    BY <1>2 DEF Publish, ForwarderOwns, NewEntry
  <2>2. /\ t \in Nat /\ t > step /\ p \in Owned
        /\ \A q \in Owned : Version(q)' = IF q = p THEN t ELSE Version(q)
    BY <1>a, <2>1, VersionAfter, Zenon
  <2>3. frame \in Frames /\ frame[1] = p /\ frame[2] = t
    BY <2>2, FrameParts, Zenon
  <2>4. \A q \in Owned : pending'[q] = pending[q] \/ (q = p /\ pending'[q] = t)
    BY <1>b, <2>1, <2>2, Zenon DEF Offered
  <2>. HIDE DEF t, p, frame
  <2>5. \A q \in Owned : /\ Version(q)' \in Nat /\ Version(q) <= Version(q)'
                         /\ q = p => Version(q)' = t /\ Version(q) <= t
    BY <1>b, <2>2
  <2>6. \A q \in Owned : \A v \in Int :
            /\ QueuedUpTo(writer, q, Version(q)) /\ Version(q) <= v => QueuedUpTo(writer, q, v)
            /\ FlightUpTo(flight, q, Version(q)) /\ Version(q) <= v => FlightUpTo(flight, q, v)
    <3>1. \A q \in Owned : \A v \in Int :
            QueuedUpTo(writer, q, Version(q)) /\ Version(q) <= v => QueuedUpTo(writer, q, v)
      BY <1>v, <1>w DEF QueuedUpTo
    <3>2. \A q \in Owned : \A v \in Int :
            FlightUpTo(flight, q, Version(q)) /\ Version(q) <= v => FlightUpTo(flight, q, v)
      BY <1>v, <1>x DEF FlightUpTo
    <3>. QED
      BY <3>1, <3>2, Zenon
  <2>7. \A q \in Owned : QueuedUpTo(writer, q, Version(q)') /\ FlightUpTo(flight, q, Version(q)')
                         /\ (q = p => QueuedUpTo(writer, q, t) /\ FlightUpTo(flight, q, t))
    BY <1>c, <2>2, <2>5, <2>6
  <2>8. /\ Sorted(writer')
        /\ writer' # writer => prelude = <<>> /\ flight = {} /\ pending = NoVersions
        /\ \A q \in Owned : \A v \in Int :
              QueuedUpTo(writer, q, v) /\ (q = p => t <= v) => QueuedUpTo(writer', q, v)
    <3>1. CASE writer' = writer
      BY <1>c, <3>1, Zenon
    <3>2. CASE writer' = Append(writer, frame) /\ t < LastStep /\ ~entry /\ current
      <4>1. prelude = <<>> /\ flight = {} /\ pending = NoVersions
        <5>1. step < LastStep
          BY <1>s, <2>2, <3>2
        <5>. QED
          BY <1>n, <3>2, <5>1, Zenon
      <4>2. QueuedUpTo(writer, frame[1], frame[2])
        BY <2>2, <2>3, <2>7, Zenon
      <4>3. /\ Sorted(writer')
            /\ \A q \in Owned : \A v \in Int :
                 QueuedUpTo(writer, q, v) /\ (frame[1] = q => frame[2] <= v) => QueuedUpTo(writer', q, v)
        BY <1>a, <1>c, <2>3, <3>2, <4>2, QueueAppend, Zenon
      <4>4. writer' # writer
        <5>1. writer \in Seq(Frames)
          BY <1>a, Zenon DEF FrameType
        <5>. QED
          BY <2>3, <3>2, <5>1, AppendIs, LenIs
      <4>. QED
        BY <2>3, <4>1, <4>3, <4>4, Zenon
    <3>. QED
      BY <2>1, <3>1, <3>2, Zenon
  <2>9. \A q, v : FlightUpTo(flight, q, v) => FlightUpTo(flight', q, v)
    BY <2>1, Zenon
  <2>10. NeverBackwards'
    BY <1>c, <1>d, <2>1, <2>8, Zenon
  <2>11. \A q \in Owned :
            /\ QueuedUpTo(writer', q, Version(q)') /\ FlightUpTo(flight', q, Version(q)')
            /\ sent[q] <= Version(q)'
    <3>1. \A q \in Owned : Version(q)' \in Int /\ (q = p => t <= Version(q)')
      BY <2>2, <2>5
    <3>2. \A q \in Owned : sent[q] <= Version(q)'
      BY <1>i, <1>v, <2>5
    <3>. QED
      BY <2>7, <2>8, <2>9, <3>1, <3>2, Zenon
  <2>12. ASSUME NEW q \in Owned, pending'[q] # None
         PROVE  /\ pending'[q] <= Version(q)'
                /\ QueuedUpTo(writer', q, pending'[q]) /\ FlightUpTo(flight', q, pending'[q])
    <3>1. CASE q = p /\ pending'[q] = t
      BY <2>2, <2>5, <2>7, <2>8, <2>9, <3>1
    <3>2. CASE pending'[q] = pending[q]
      <4>1. writer' = writer
        BY <2>8, <2>12, <3>2, Zenon DEF NoVersions
      <4>2. /\ pending[q] \in Int /\ pending[q] <= Version(q)
            /\ QueuedUpTo(writer, q, pending[q]) /\ FlightUpTo(flight, q, pending[q])
        BY <1>b, <1>c, <2>12, <3>2, Zenon
      <4>3. pending[q] <= Version(q)'
        BY <1>b, <2>5, <4>2
      <4>. QED
        BY <2>8, <2>9, <3>2, <4>1, <4>2, <4>3, Zenon
    <3>. QED
      BY <2>4, <3>1, <3>2, Zenon
  <2>13. ASSUME NEW q \in Owned, prelude' # <<>>
         PROVE  QueuedUpTo(writer', q, 0) /\ FlightUpTo(flight', q, 0)
    BY <1>c, <2>1, <2>8, <2>9, <2>13, Zenon
  <2>14. ~(cut' < End)
    BY <2>1, ScheduleAssumption
  <2>15. ~entry' /\ current' /\ step' < LastStep =>
            prelude' = <<>> /\ flight' = {} /\ pending' = NoVersions
    <3>1. /\ step' = t /\ prelude' = prelude /\ flight' = flight /\ current' = current
          /\ ~entry' => ~entry /\ pending' = pending
      BY <2>1, Zenon
    <3>2. t \in Nat /\ t > step
      BY <2>2, Zenon
    <3>3. t < LastStep => step < LastStep
      BY <1>s, <3>2
    <3>. QED
      BY <1>n, <3>1, <3>3, Zenon
  <2>. QED
    BY <2>1, <2>10, <2>11, <2>12, <2>13, <2>14, <2>15, Zenon
    DEF OrderInv, None, NoVersions
<1>3. ASSUME NEW event \in {"hello", "disconnected"}, HandleEvent(event)
      PROVE  OrderInv'
  <2>1. CASE ~current /\ UNCHANGED <<entry, tail, connVars, history>>
    BY <1>h, <1>3, <2>1, Zenon DEF HandleEvent, connVars
  <2>2. ASSUME NEW kind, Start(kind)
        PROVE  OrderInv'
    <3>1. /\ UNCHANGED <<step, cut, sent, prelude, flight, writer>>
          /\ entry' = TRUE
      BY <1>3, <2>2, Zenon DEF HandleEvent, Start
    <3>2. \A p \in Owned : pending'[p] = pending[p] \/ pending'[p] = Version(p)
      BY <2>2, <1>b, Zenon DEF Start, Offered
    <3>3. \A p : Version(p)' = Version(p)
      BY <1>e, <3>1, Zenon
    <3>4. NeverBackwards'
      BY <1>c, <1>d, <3>1, Zenon
    <3>5. \A p \in Owned : pending'[p] # None =>
            /\ pending'[p] <= Version(p)
            /\ QueuedUpTo(writer, p, pending'[p]) /\ FlightUpTo(flight, p, pending'[p])
      <4>1. \A p \in Owned : Version(p) <= Version(p)
        BY <1>v
      <4>. QED
        BY <1>c, <3>2, <4>1, Zenon
    <3>. QED
      BY <1>c, <3>1, <3>3, <3>4, <3>5, Zenon DEF OrderInv
  <2>. QED
    BY <1>3, <2>1, <2>2, Zenon DEF HandleEvent
<1>5. CASE TakeDue
  <2>1. CASE UNCHANGED <<entry, connVars>>
    BY <1>h, <1>5, <2>1, Zenon DEF TakeDue, connVars
  <2>2. CASE NewConn
    <3>1. /\ UNCHANGED <<step, cut, current, writer>>
          /\ flight' = {} /\ prelude' = <<>>
          /\ pending' = NoVersions /\ sent' = NoVersions
      BY <1>5, <2>2, Zenon DEF TakeDue, NewConn
    <3>2. \A p : Version(p)' = Version(p)
      BY <1>e, <3>1, Zenon
    <3>3. NeverBackwards'
      BY <1>c, <1>d, <3>1, Zenon
    <3>4. \A p \in Owned : /\ sent'[p] <= Version(p) /\ pending'[p] = None
                           /\ FlightUpTo(flight', p, Version(p))
      BY <1>b, <3>1 DEF NoVersions, None, FlightUpTo
    <3>. QED
      BY <1>c, <3>1, <3>2, <3>3, <3>4, Zenon DEF OrderInv, NoVersions, None
  <2>. QED
    BY <1>5, <2>1, <2>2, Zenon DEF TakeDue
<1>7. CASE ForwardPrelude
  <2>. DEFINE frame == Head(prelude)
              p == frame[1]
  <2>1. /\ prelude # <<>>
        /\ sent' = [sent EXCEPT ![p] = MaxOf(sent[p], frame[2])]
        /\ flight' = {frame}
        /\ UNCHANGED <<step, cut, pending, writer, entry, current>>
    BY <1>7, Zenon DEF ForwardPrelude
  <2>2. frame \in Initials
    BY <1>a, <2>1, HeadTailIs, Zenon DEF FrameType
  <2>3. p \in Owned /\ frame[2] = 0
    BY <2>2, FrameParts, Zenon
  <2>4. ~(~entry /\ current /\ step < LastStep)
    BY <1>c, <2>1, Zenon
  <2>. HIDE DEF p, frame
  <2>5. \A q : Version(q)' = Version(q)
    BY <1>e, <2>1, Zenon
  <2>6. NeverBackwards'
    BY <1>c, <1>d, <2>1, <2>3, Zenon DEF p
  <2>7. \A q \in Owned : sent'[q] <= Version(q)
    BY <1>b, <1>c, <2>1, <2>3 DEF MaxOf
  <2>8. \A q : \A v \in Nat : FlightUpTo(flight', q, v)
    BY <2>1, <2>3 DEF FlightUpTo
  <2>. QED
    BY <1>b, <1>c, <2>1, <2>4, <2>5, <2>6, <2>7, <2>8, Zenon DEF OrderInv
<1>8. CASE ForwardPending
  <2>. DEFINE p == NextToPop
  <2>1. p \in Owned /\ pending[p] # None
    BY <1>8, <1>a, PopFinds, Zenon DEF ForwardPending
  <2>2. /\ prelude = <<>>
        /\ pending' = [pending EXCEPT ![p] = None]
        /\ sent' = [sent EXCEPT ![p] = pending[p]]
        /\ flight' = {<<p, pending[p]>>}
        /\ UNCHANGED <<step, cut, prelude, writer, entry, current>>
    BY <1>8, Zenon DEF ForwardPending
  <2>. HIDE DEF p
  <2>3. ~(~entry /\ current /\ step < LastStep)
    BY <1>c, <2>1, Zenon DEF NoVersions
  <2>4. \A q : Version(q)' = Version(q)
    BY <1>e, <2>2, Zenon
  <2>5. NeverBackwards'
    BY <1>c, <1>d, <2>1, <2>2
  <2>6. \A q \in Owned : /\ sent'[q] <= Version(q)
                         /\ pending'[q] # None => q # p /\ pending'[q] = pending[q]
    BY <1>b, <1>c, <2>1, <2>2, Zenon
  <2>7. \A q \in Owned : /\ FlightUpTo(flight', q, Version(q))
                         /\ q # p => FlightUpTo(flight', q, pending[q])
    BY <1>c, <2>1, <2>2 DEF FlightUpTo
  <2>. QED
    BY <1>c, <2>2, <2>3, <2>4, <2>5, <2>6, <2>7, Zenon DEF OrderInv
<1>9. CASE HandOver
  <2>1. /\ flight # {} /\ flight' = {}
        /\ writer' = writer \/ \E f \in flight : writer' = Append(writer, f)
        /\ UNCHANGED <<step, cut, pending, sent, prelude, entry, current>>
    BY <1>9, Zenon DEF HandOver
  <2>2. \A q : Version(q)' = Version(q)
    BY <1>e, <2>1, Zenon
  <2>3. /\ Sorted(writer')
        /\ \A q \in Owned : \A v \in Int :
              QueuedUpTo(writer, q, v) /\ FlightUpTo(flight, q, v)
                => QueuedUpTo(writer', q, v)
    <3>1. CASE writer' = writer
      BY <1>c, <3>1, Zenon
    <3>2. ASSUME NEW f \in flight, writer' = Append(writer, f)
          PROVE  /\ Sorted(writer')
                 /\ \A q \in Owned : \A v \in Int :
                       QueuedUpTo(writer, q, v) /\ FlightUpTo(flight, q, v)
                         => QueuedUpTo(writer', q, v)
      <4>1. f \in Frames /\ QueuedUpTo(writer, f[1], f[2])
        BY <1>b, <1>c, Zenon
      <4>2. \A q, v : FlightUpTo(flight, q, v) => (f[1] = q => f[2] <= v)
        BY Zenon DEF FlightUpTo
      <4>. QED
        BY <1>a, <1>c, <3>2, <4>1, <4>2, QueueAppend, Zenon
    <3>. QED
      BY <2>1, <3>1, <3>2, Zenon
  <2>4. NeverBackwards'
    BY <1>d, <2>1, <2>3, Zenon
  <2>5. \A q, v : FlightUpTo(flight', q, v)
    BY <2>1, Zenon DEF FlightUpTo
  <2>6. \A q \in Owned :
          /\ QueuedUpTo(writer', q, Version(q))
          /\ pending[q] # None => QueuedUpTo(writer', q, pending[q])
          /\ prelude # <<>> => QueuedUpTo(writer', q, 0)
    <3>1. \A q \in Owned : Version(q) \in Int /\ (pending[q] # None => pending[q] \in Int) /\ 0 \in Int
      BY <1>q, <1>v
    <3>. QED
      BY <1>q, <2>3, <3>1, Zenon
  <2>. QED
    BY <1>c, <2>1, <2>2, <2>4, <2>5, <2>6, Zenon DEF OrderInv
<1>11. CASE Deliver
  <2>1. PICK i \in 1 .. Len(writer) :
          writer' = SubSeq(writer, 1, i - 1) \o SubSeq(writer, i + 1, Len(writer))
    BY <1>11, Zenon DEF Deliver
  <2>2. UNCHANGED <<step, cut, pending, sent, prelude, flight, entry, current>>
    BY <1>11, Zenon DEF Deliver, connVars
  <2>3. /\ Sorted(writer')
        /\ \A q \in Owned : \A v \in Int :
              QueuedUpTo(writer, q, v) => QueuedUpTo(writer', q, v)
    BY <1>a, <1>c, <2>1, QueueRemove, Zenon
  <2>4. \A q : Version(q)' = Version(q)
    BY <1>e, <2>2, Zenon
  <2>5. NeverBackwards'
    BY <1>b, <1>c, <1>d, <2>2, <2>3
  <2>6. \A q \in Owned :
          /\ QueuedUpTo(writer', q, Version(q))
          /\ pending[q] # None => QueuedUpTo(writer', q, pending[q])
          /\ prelude # <<>> => QueuedUpTo(writer', q, 0)
    <3>1. \A q \in Owned : Version(q) \in Int /\ (pending[q] # None => pending[q] \in Int) /\ 0 \in Int
      BY <1>q, <1>v
    <3>. QED
      BY <1>q, <2>3, <3>1, Zenon
  <2>. QED
    BY <1>c, <2>2, <2>4, <2>5, <2>6, Zenon DEF OrderInv, None, NoVersions
<1>12. CASE Close
  <2>1. /\ writer' = <<>>
        /\ UNCHANGED <<step, cut, pending, sent, prelude, flight, entry, current>>
    BY <1>12, Zenon DEF Close, connVars
  <2>2. Sorted(writer') /\ \A q, v : QueuedUpTo(writer', q, v)
    BY <2>1 DEF Sorted, QueuedUpTo
  <2>3. \A q : Version(q)' = Version(q)
    BY <1>e, <2>1, Zenon
  <2>4. NeverBackwards'
    BY <1>d, <2>2, Zenon
  <2>. QED
    BY <1>c, <2>1, <2>2, <2>3, <2>4, Zenon DEF OrderInv, None, NoVersions
<1>. QED
  BY Zenon, <1>1, <1>2, <1>3, <1>4, <1>5, <1>6, <1>7, <1>8, <1>9, <1>10, <1>11, <1>12,
     <1>13, <1>14 DEF Next, Scheduler, Forwarder

\* Every step keeps the inductive invariant.
LEMMA StepSender == SenderInv /\ [Next]_vars => SenderInv'
BY StepTarget, StepFrames, StepOrder, Zenon DEF SenderInv

\* Whatever mix of initial cut, inline broadcasts, spills and catch-ups a
\* connection goes through, it is never handed a version of a fragment older
\* than one it was handed before.
THEOREM AlwaysForwards == Spec => []NeverBackwards
<1>1. SenderInv => NeverBackwards
  BY Zenon DEF SenderInv, OrderInv
<1>. QED
  BY InitSender, StepSender, <1>1, PTL DEF Spec

(***************************************************************************)
(* Catching up: the tail runs after everything owed, and the floor it      *)
(* records was given.                                                      *)
(***************************************************************************)

\* With received versions g, frames F in flight and writer queue w, the
\* connection was given version v of fragment p, or a newer one.
Had(g, F, w, p, v) ==
    \/ g[p] >= v
    \/ \E f \in F : f[1] = p /\ f[2] >= v
    \/ \E i \in 1 .. Len(w) : w[i][1] = p /\ w[i][2] >= v

\* The connection works, is its learner's current one and training goes on.
Live == open /\ current /\ step < LastStep

\* Why a tail comes after everything owed.  While the connection is live its
\* forwarder has not ended, what was popped was given, and what is pending is
\* current; during a catch-up an owed version was given or is a target, and
\* a fragment without a pending version was given its current one.
CatchUpInv ==
    /\ tail # {} => entry
    /\ \A p \in Owned : got[p] >= None
    /\ Live => task \in {"none", "running"}
    /\ Live => \A p \in Owned :
                  /\ Had(got, flight, writer, p, sent[p])
                  /\ Had(got, flight, writer, p, floor[p])
                  /\ pending[p] # None => pending[p] = Version(p)
    /\ Live /\ tail # {} => \A p \in Owned :
                  /\ owed[p] \in Nat
                  /\ \/ Had(got, flight, writer, p, owed[p])
                     \/ target[p] # None /\ target[p] >= owed[p]
                  /\ \/ pending[p] # None
                     \/ Had(got, flight, writer, p, Version(p))

\* Had is what the properties say of Given.
LEMMA GivenIs ==
    ASSUME NEW p \in Owned, NEW v
    PROVE  (\E u \in Given(p) : u >= v) <=> Had(got, flight, writer, p, v)
<1>1. ASSUME NEW u \in Given(p), u >= v PROVE Had(got, flight, writer, p, v)
  BY <1>1, Zenon DEF Given, Had
<1>2. ASSUME Had(got, flight, writer, p, v) PROVE \E u \in Given(p) : u >= v
  <2>1. CASE got[p] >= v
    BY <2>1, Zenon DEF Given
  <2>2. ASSUME NEW f \in flight, f[1] = p, f[2] >= v PROVE \E u \in Given(p) : u >= v
    BY <2>2, Zenon DEF Given
  <2>3. ASSUME NEW i \in 1 .. Len(writer), writer[i][1] = p, writer[i][2] >= v
        PROVE  \E u \in Given(p) : u >= v
    BY <2>3, Zenon DEF Given
  <2>. QED
    BY <1>2, <2>1, <2>2, <2>3, Zenon DEF Had
<1>. QED
  BY <1>1, <1>2, Zenon

\* Being given a version is being given every older one.
LEMMA HadOlder ==
    ASSUME NEW g \in [Owned -> Int], NEW F \in SUBSET Frames, NEW w \in Seq(Frames),
           NEW p \in Owned, NEW v \in Int, NEW u \in Int, u <= v, Had(g, F, w, p, v)
    PROVE  Had(g, F, w, p, u)
<1>1. \A i \in 1 .. Len(w) : w[i] \in Frames
  BY EntryIs, Zenon
<1>2. /\ g[p] \in Int /\ \A f \in F : f[2] \in Nat
      /\ \A i \in 1 .. Len(w) : w[i][2] \in Nat
  BY <1>1, FrameParts, Zenon
<1>. QED
  BY <1>2 DEF Had

\* A connection that is live was live before.
LEMMA LiveBefore == ASSUME PendingType, [Next]_vars, Live' PROVE Live
<1>1. step \in Nat /\ StepAfter(step) > step /\ StepAfter(step) \in Nat /\ LastStep \in Nat
  BY StepAfterGrows, LastStepType, ResendAssumption, Zenon DEF PendingType, LastStep
<1>2. (step' = step \/ step' = StepAfter(step)) /\ (open' => open) /\ (current' => current)
  <2>1. CASE Scheduler
    BY <2>1 DEF Scheduler, SendInitial, Publish, HandleEvent, DropSuperseded, TakeDue, Stop
  <2>2. CASE Forwarder
    <3>1. UNCHANGED <<step, current, open>>
      <4>1. CASE ForwardPrelude
        BY <4>1, Zenon DEF ForwardPrelude
      <4>2. CASE ForwardPending
        BY <4>2, Zenon DEF ForwardPending
      <4>3. CASE HandOver
        BY <4>3, Zenon DEF HandOver
      <4>4. CASE ForwarderStops
        BY <4>4, Zenon DEF ForwarderStops
      <4>. QED
        BY <2>2, <4>1, <4>2, <4>3, <4>4, Zenon DEF Forwarder
    <3>. QED
      BY <3>1, Zenon
  <2>3. CASE Deliver
    <3>1. UNCHANGED <<step, current, open>>
      BY <2>3, Zenon DEF Deliver
    <3>. QED
      BY <3>1, Zenon
  <2>4. CASE Close \/ Superseded \/ UNCHANGED vars
    BY <2>4 DEF Close, Superseded, vars
  <2>. QED
    BY <2>1, <2>2, <2>3, <2>4, Zenon DEF Next
<1>3. step' < LastStep => step < LastStep
  BY <1>1, <1>2
<1>. QED
  BY <1>2, <1>3, Zenon DEF Live

\* What a live connection was given it keeps: a popped frame goes through the
\* writer queues to the learner, and the learner keeps the newest version.
LEMMA GivenKept ==
    ASSUME SenderInv, CatchUpInv, [Next]_vars, Live'
    PROVE  \A p \in Owned : \A v \in Int :
              Had(got, flight, writer, p, v) => Had(got', flight', writer', p, v)
<1>a. FrameType /\ PendingType
  BY Zenon DEF SenderInv, TargetInv
<1>b. Live /\ task \in {"none", "running"} /\ open'
  BY <1>a, LiveBefore, Zenon DEF CatchUpInv, Live
<1>c. writer \in Seq(Frames) /\ flight \subseteq Frames
      /\ got \in [Owned -> Int] /\ Len(writer) \in Nat
  BY <1>a, LenIs, Zenon DEF FrameType
<1>d. ASSUME NEW f \in Frames, writer' = Append(writer, f)
      PROVE  /\ \A i \in 1 .. Len(writer) :
                   i \in 1 .. Len(writer') /\ writer'[i] = writer[i]
             /\ Len(writer) + 1 \in 1 .. Len(writer')
             /\ writer'[Len(writer) + 1] = f
  BY <1>c, <1>d, AppendIs
<1>1. CASE UNCHANGED <<got, flight, writer>>
  BY <1>1, Zenon
<1>2. ASSUME NEW f \in Frames, writer' = Append(writer, f), UNCHANGED <<got, flight>>
      PROVE  \A p \in Owned : \A v \in Int :
               Had(got, flight, writer, p, v) => Had(got', flight', writer', p, v)
  BY <1>d, <1>2, Zenon DEF Had
<1>3. CASE SendInitial
  <2>. DEFINE frame == <<cut, Version(cut)>>
  <2>1. /\ cut < End /\ UNCHANGED <<got, flight>>
        /\ writer' = writer \/ writer' = Append(writer, frame)
    BY <1>3, Zenon DEF SendInitial
  <2>2. cut \in Owned
    BY <1>a, <2>1, ScheduleAssumption DEF FrameType, Owned
  <2>3. frame \in Frames
    BY <1>a, <2>2, VersionType, FrameParts, Zenon
  <2>. HIDE DEF frame
  <2>. QED
    BY <1>1, <1>2, <2>1, <2>3, Zenon
<1>4. CASE Publish
  <2>. DEFINE frame == <<FragmentForStep(StepAfter(step)), StepAfter(step)>>
  <2>1. /\ UNCHANGED <<got, flight>>
        /\ writer' = writer \/ writer' = Append(writer, frame)
    BY <1>4, Zenon DEF Publish
  <2>2. frame \in Frames
    BY <1>a, StepAfterGrows, StepAfterOwned, FrameParts, Zenon DEF PendingType
  <2>. HIDE DEF frame
  <2>. QED
    BY <1>1, <1>2, <2>1, <2>2, Zenon
<1>5. CASE \E event \in {"hello", "disconnected"} : HandleEvent(event)
  BY <1>1, <1>5, Zenon DEF HandleEvent, Start, connVars
<1>6. CASE TakeDue
  <2>1. flight' = flight
    BY <1>b, <1>6, Zenon DEF TakeDue, Drained, NewConn, connVars
  <2>. QED
    BY <1>1, <1>6, <2>1, Zenon DEF TakeDue
<1>7. CASE DropSuperseded \/ Stop \/ ForwarderStops \/ Superseded \/ UNCHANGED vars
  BY <1>1, <1>7, Zenon DEF DropSuperseded, Stop, ForwarderStops, Superseded, vars, connVars
<1>8. CASE ForwardPrelude \/ ForwardPending
  <2>1. flight = {} /\ UNCHANGED <<got, writer>>
    BY <1>8, Zenon DEF ForwardPrelude, ForwardPending
  <2>. QED
    BY <2>1, Zenon DEF Had
<1>9. CASE HandOver
  <2>1. UNCHANGED got /\ \E f \in flight : writer' = Append(writer, f)
    BY <1>9, <1>b, Zenon DEF HandOver, Live
  <2>2. PICK f \in flight : writer' = Append(writer, f)
    BY <2>1, Zenon
  <2>3. f \in Frames /\ \A g \in flight : g = f
    BY <1>a, Zenon DEF FrameType
  <2>4. /\ \A i \in 1 .. Len(writer) :
             i \in 1 .. Len(writer') /\ writer'[i] = writer[i]
        /\ Len(writer) + 1 \in 1 .. Len(writer')
        /\ writer'[Len(writer) + 1] = f
    BY <1>d, <2>2, <2>3, Zenon
  <2>. QED
    BY <2>1, <2>3, <2>4, Zenon DEF Had
<1>10. CASE Deliver
  <2>1. PICK i \in 1 .. Len(writer) :
          /\ writer' = SubSeq(writer, 1, i - 1) \o SubSeq(writer, i + 1, Len(writer))
          /\ got' = [got EXCEPT ![writer[i][1]] = MaxOf(@, writer[i][2])]
    BY <1>10, Zenon DEF Deliver
  <2>. DEFINE p == writer[i][1]
              v == writer[i][2]
  <2>2. p \in Owned /\ v \in Nat
    BY <1>c, EntryIs, FrameParts, Zenon
  <2>3. /\ UNCHANGED flight
        /\ got' = [got EXCEPT ![p] = MaxOf(got[p], v)]
    BY <1>10, <2>1, Zenon DEF Deliver, connVars
  <2>4. ASSUME NEW k \in 1 .. Len(writer), k # i
        PROVE  \E l \in 1 .. Len(writer') : writer'[l] = writer[k]
    <3>1. /\ Len(writer') = Len(writer) - 1
          /\ \A l \in 1 .. Len(writer) - 1 :
                writer'[l] = IF l < i THEN writer[l] ELSE writer[l + 1]
      BY <1>c, <2>1, Removed, ZenonT(30)
    <3>2. CASE k < i
      <4>1. k \in 1 .. Len(writer') /\ writer'[k] = writer[k]
        BY <1>c, <3>1, <3>2
      <4>. QED
        BY <4>1, Zenon
    <3>3. CASE k > i
      <4>1. k - 1 \in 1 .. Len(writer') /\ writer'[k - 1] = writer[(k - 1) + 1]
        BY <1>c, <3>1, <3>3
      <4>2. (k - 1) + 1 = k
        BY <1>c
      <4>. QED
        BY <4>1, <4>2, Zenon
    <3>. QED
      BY <1>c, <2>4, <3>2, <3>3
  <2>5. \A q \in Owned : got'[q] \in Int /\ got'[q] >= got[q] /\ (q = p => got'[q] >= v)
    <3>. HIDE DEF p, v
    <3>. QED
      BY <1>c, <2>2, <2>3 DEF MaxOf
  <2>6. ASSUME NEW q \in Owned, NEW u \in Int, Had(got, flight, writer, q, u)
        PROVE  Had(got', flight', writer', q, u)
    <3>1. CASE got[q] >= u
      <4>1. got'[q] >= u
        BY <1>c, <2>5, <3>1
      <4>. QED
        BY <4>1, Zenon DEF Had
    <3>2. CASE \E f \in flight : f[1] = q /\ f[2] >= u
      BY <2>3, <3>2, Zenon DEF Had
    <3>3. ASSUME NEW k \in 1 .. Len(writer), writer[k][1] = q, writer[k][2] >= u
          PROVE  Had(got', flight', writer', q, u)
      <4>1. CASE k = i
        <5>1. got'[q] >= u
          BY <2>2, <2>5, <3>3, <4>1
        <5>. QED
          BY <5>1, ZenonT(30) DEF Had
      <4>2. CASE k # i
        BY <2>4, <3>3, <4>2, Zenon DEF Had
      <4>. QED
        BY <4>1, <4>2, Zenon
    <3>. QED
      BY <2>6, <3>1, <3>2, <3>3, ZenonT(30) DEF Had
  <2>. QED
    BY <2>6, Zenon
<1>11. CASE Close
  BY <1>11, <1>b, Zenon DEF Close
<1>. QED
  BY <1>3, <1>4, <1>5, <1>6, <1>7, <1>8, <1>9, <1>10, <1>11, Zenon
  DEF Next, Scheduler, Forwarder

\* The inductive invariant behind TailAfterOwed.
ResendInv == SenderInv /\ CatchUpInv

\* A stream that has just started owes nothing.
LEMMA InitResend == Init => ResendInv
<1>. SUFFICES ASSUME Init PROVE ResendInv
  BY Zenon
<1>1. /\ tail = {} /\ task = "none" /\ got = NoVersions /\ sent = NoVersions
      /\ floor = NoVersions /\ pending = NoVersions
  BY Zenon DEF Init
<1>2. \A p \in Owned : /\ got[p] = None /\ sent[p] = None /\ floor[p] = None
                       /\ pending[p] = None /\ got[p] >= None
  BY <1>1 DEF NoVersions, None
<1>3. \A p \in Owned : Had(got, flight, writer, p, None)
  BY <1>2, Zenon DEF Had
<1>. QED
  BY <1>1, <1>2, <1>3, InitSender, Zenon DEF ResendInv, CatchUpInv

\* Every step keeps it.
LEMMA StepCatchUp == ResendInv /\ [Next]_vars => CatchUpInv'
<1>. SUFFICES ASSUME ResendInv, [Next]_vars PROVE CatchUpInv'
  BY Zenon
<1>a. SenderInv /\ CatchUpInv /\ PendingType /\ FrameType /\ OrderInv /\ TargetsCovered
  BY Zenon DEF ResendInv, SenderInv, TargetInv
<1>b. /\ step \in Nat
      /\ pending \in [Owned -> Int] /\ sent \in [Owned -> Int] /\ got \in [Owned -> Int]
      /\ floor \in [Owned -> Int] /\ owed \in [Owned -> Int] /\ target \in [Owned -> Int]
      /\ \A p \in Owned : pending[p] >= None
      /\ \A p \in Owned : Version(p) \in Nat /\ Version(p) <= step
      /\ \A p \in Owned : sent[p] <= Version(p)
  <2>1. \A p \in Owned : Version(p) \in Nat /\ Version(p) <= step
    BY <1>a, VersionType, Zenon
  <2>. QED
    BY <1>a, <2>1, Zenon DEF PendingType, FrameType, OrderInv
<1>c. Live' => Live
  BY <1>a, LiveBefore, Zenon
<1>d. Live' => \A p \in Owned : \A v \in Int :
          Had(got, flight, writer, p, v) => Had(got', flight', writer', p, v)
  BY <1>a, GivenKept, Zenon
\* What holds of every version given stays, whatever the step.
<1>e. ASSUME Live'
      PROVE  \A p \in Owned :
                /\ Had(got', flight', writer', p, sent[p])
                /\ Had(got', flight', writer', p, floor[p])
                /\ Had(got', flight', writer', p, None)
                /\ pending[p] # None => pending[p] = Version(p)
                /\ tail # {} =>
                      /\ owed[p] \in Nat
                      /\ \/ Had(got', flight', writer', p, owed[p])
                         \/ target[p] # None /\ target[p] >= owed[p]
                      /\ \/ pending[p] # None
                         \/ Had(got', flight', writer', p, Version(p))
  <2>1. \A p \in Owned : Had(got, flight, writer, p, None)
    BY <1>a, ZenonT(30) DEF CatchUpInv, Had
  <2>2. \A p \in Owned : /\ sent[p] \in Int /\ floor[p] \in Int /\ owed[p] \in Int
                         /\ Version(p) \in Int /\ None \in Int
    BY <1>b DEF None
  <2>. QED
    BY <1>a, <1>c, <1>d, <1>e, <2>1, <2>2, Zenon DEF CatchUpInv
<1>f. ASSUME UNCHANGED step
      PROVE  \A p : Version(p)' = Version(p)
  BY <1>f, Zenon DEF Version
<1>g. (\A p \in Owned : got[p] >= None) /\ (tail # {} => entry)
      /\ (Live => task \in {"none", "running"})
  BY <1>a, Zenon DEF CatchUpInv
\* A step that pops, owes and publishes nothing.
<1>h. ASSUME UNCHANGED <<step, pending, sent, target, floor, owed, tail>>,
             Live' => task' \in {"none", "running"}, entry => entry',
             \A p \in Owned : got'[p] >= None
      PROVE  CatchUpInv'
  <2>1. \A p : Version(p)' = Version(p)
    BY <1>f, <1>h, Zenon
  <2>. QED
    BY <1>e, <1>g, <1>h, <2>1, Zenon DEF CatchUpInv, None
<1>1. CASE SendInitial
  <2>1. /\ UNCHANGED <<step, pending, sent, target, floor, owed, tail, got>>
        /\ entry => entry'
        /\ task' = task \/ task' = "running"
    BY <1>1 DEF SendInitial, NewEntry, history
  <2>. QED
    BY <1>c, <1>g, <1>h, <2>1, ZenonT(30)
<1>2. CASE Publish
  <2>. DEFINE t == StepAfter(step)
              p == FragmentForStep(t)
  <2>1. /\ step' = t /\ cut = End
        /\ UNCHANGED <<sent, target, floor, owed, tail, got, current, open>>
        /\ task' = task \/ task' = "running"
        /\ entry => entry'
    BY <1>2 DEF Publish, ForwarderOwns, NewEntry, history
  <2>2. /\ t \in Nat /\ t > step /\ p \in Owned
        /\ \A q \in Owned : Version(q)' = IF q = p THEN t ELSE Version(q)
    BY <1>a, <2>1, VersionAfter, ZenonT(30)
  <2>3. ASSUME Live'
        PROVE  \/ pending' = Offered([q \in {p} |-> t])
               \/ ~entry /\ pending' = pending
    <3>1. Live /\ task # "ended" /\ t < LastStep /\ current /\ open
      BY <1>c, <1>g, <2>1, <2>3, Zenon DEF Live
    <3>2. LastStep \in Nat
      BY LastStepType, ResendAssumption, Zenon DEF LastStep
    <3>. QED
      BY <1>2, <2>2, <3>1, <3>2 DEF Publish, ForwarderOwns
  <2>. HIDE DEF t, p
  <2>4. ASSUME Live'
        PROVE  \/ ~entry /\ \A q \in Owned : pending'[q] = None
               \/ \A q \in Owned : pending'[q] = IF q = p THEN t ELSE pending[q]
    <3>1. CASE ~entry /\ pending' = pending
      <4>1. current /\ step < LastStep
        BY <1>c, <2>4, Zenon DEF Live
      <4>. QED
        BY <1>a, <3>1, <4>1, Zenon DEF OrderInv, NoVersions
    <3>2. CASE pending' = Offered([q \in {p} |-> t])
      <4>1. t > sent[p] /\ t > pending[p]
        <5>1. pending[p] <= step
          BY <1>b, <1>e, <2>2, <2>4 DEF None
        <5>. QED
          BY <1>b, <2>2, <5>1
      <4>. QED
        BY <2>2, <3>2, <4>1, Zenon DEF Offered
    <3>. QED
      BY <2>3, <2>4, <3>1, <3>2, Zenon
  <2>5. ASSUME Live', NEW q \in Owned, pending'[q] # None
        PROVE  pending'[q] = Version(q)'
    BY <1>e, <2>2, <2>4, <2>5, Zenon
  <2>6. ASSUME Live', tail # {}, NEW q \in Owned, pending'[q] = None
        PROVE  Had(got', flight', writer', q, Version(q)')
    <3>1. q # p /\ pending[q] = None
      <4>1. t # None
        BY <2>2 DEF None
      <4>. QED
        BY <1>g, <2>4, <2>6, <4>1, Zenon
    <3>. QED
      BY <1>e, <2>2, <2>6, <3>1, Zenon
  <2>. QED
    BY <1>c, <1>e, <1>g, <2>1, <2>5, <2>6, ZenonT(30) DEF CatchUpInv, None
<1>3. ASSUME NEW event \in {"hello", "disconnected"}, HandleEvent(event)
      PROVE  CatchUpInv'
  <2>1. CASE ~current /\ UNCHANGED <<entry, tail, connVars, history>>
    <3>1. /\ UNCHANGED <<step, pending, sent, target, floor, owed, tail, got, entry, task>>
      BY <1>3, <2>1, Zenon DEF HandleEvent, connVars, history
    <3>. QED
      BY <1>c, <1>g, <1>h, <3>1, Zenon
  <2>2. ASSUME NEW kind, Start(kind)
        PROVE  CatchUpInv'
    <3>1. /\ UNCHANGED <<step, sent, floor, got>>
          /\ entry' = TRUE
          /\ task' = task \/ task' = "running"
      BY <1>3, <2>2, Zenon DEF HandleEvent, Start
    <3>2. \A p : Version(p)' = Version(p)
      BY <1>f, <3>1, Zenon
    <3>3. ASSUME Live'
          PROVE  /\ pending' = Offered([p \in Owned |-> Version(p)])
                 /\ target' = Required(pending')
                 /\ owed' = [p \in Owned |-> Version(p)]
      <4>1. step < LastStep
        BY <1>c, <3>3, Zenon DEF Live
      <4>. QED
        BY <2>2, <4>1, Zenon DEF Start
    <3>4. ASSUME Live', NEW p \in Owned
          PROVE  \/ pending'[p] = Version(p) /\ target'[p] >= Version(p)
                                            /\ target'[p] # None
                 \/ pending'[p] = None /\ Had(got', flight', writer', p, Version(p))
      <4>1. pending'[p] = IF Version(p) > sent[p] /\ Version(p) > pending[p]
                          THEN Version(p) ELSE pending[p]
        BY <3>3, <3>4, Zenon DEF Offered
      <4>2. target'[p] = IF pending'[p] = None THEN target[p]
                         ELSE MaxOf(target[p], pending'[p])
        BY <3>3, <3>4, Zenon DEF Required
      <4>3. CASE pending'[p] = Version(p)
        <5>1. target[p] \in Int /\ Version(p) \in Nat
          BY <1>b, Zenon
        <5>2. pending'[p] # None
          BY <4>3, <5>1 DEF None
        <5>3. target'[p] = MaxOf(target[p], Version(p))
          BY <4>2, <4>3, <5>2, Zenon
        <5>4. target'[p] >= Version(p) /\ target'[p] # None
          BY <5>1, <5>3 DEF MaxOf, None
        <5>. QED
          BY <4>3, <5>4, Zenon
      <4>4. CASE pending'[p] # Version(p)
        <5>1. pending[p] = None /\ pending'[p] = None /\ ~(Version(p) > sent[p])
          BY <1>b, <1>e, <3>4, <4>1, <4>4 DEF None
        <5>2. sent[p] = Version(p)
          BY <1>b, <5>1
        <5>. QED
          BY <1>e, <3>4, <5>1, <5>2, Zenon
      <4>. QED
        BY <4>3, <4>4, Zenon
    <3>5. ASSUME Live', NEW p \in Owned
          PROVE  /\ pending'[p] # None => pending'[p] = Version(p)
                 /\ owed'[p] = Version(p) /\ owed'[p] \in Nat
                 /\ \/ Had(got', flight', writer', p, owed'[p])
                    \/ target'[p] # None /\ target'[p] >= owed'[p]
                 /\ \/ pending'[p] # None
                    \/ Had(got', flight', writer', p, Version(p))
      <4>1. owed'[p] = Version(p) /\ Version(p) \in Nat
        BY <1>b, <3>3, <3>5, Zenon
      <4>2. Version(p) # None
        BY <4>1 DEF None
      <4>. QED
        BY <3>4, <3>5, <4>1, <4>2, Zenon
    <3>. QED
      BY <1>c, <1>e, <1>g, <3>1, <3>2, <3>5, Zenon DEF CatchUpInv, None
  <2>. QED
    BY <1>3, <2>1, <2>2, Zenon DEF HandleEvent
<1>4. CASE DropSuperseded
  <2>1. ~Live' /\ tail' = {} /\ UNCHANGED got
    BY <1>4, Zenon DEF DropSuperseded, Live
  <2>. QED
    BY <1>g, <2>1, Zenon DEF CatchUpInv, None
<1>5. CASE TakeDue
  <2>1. /\ UNCHANGED <<step, got, owed>> /\ tail' = {} /\ (tail # {} => CaughtUp)
        /\ floor' = IF "rejoin" \in tail THEN HandedOver ELSE floor
        /\ \/ NewConn
           \/ UNCHANGED connVars
    BY <1>5, Zenon DEF TakeDue, history
  <2>2. /\ task' = "none" \/ task' = task
        /\ sent' = sent \/ sent' = NoVersions
        /\ pending' = pending \/ pending' = NoVersions
    BY <2>1, Zenon DEF NewConn, connVars
  <2>3. \A p : Version(p)' = Version(p)
    BY <1>f, <2>1, Zenon
  <2>4. ASSUME Live', NEW p \in Owned
        PROVE  /\ Had(got', flight', writer', p, sent'[p])
               /\ pending'[p] # None => pending'[p] = Version(p)
    BY <1>e, <2>2, <2>4, Zenon DEF NoVersions
  <2>5. ASSUME Live', NEW p \in Owned
        PROVE  Had(got', flight', writer', p, floor'[p])
    <3>1. CASE "rejoin" \notin tail
      BY <1>e, <2>1, <2>5, <3>1, Zenon
    <3>2. CASE "rejoin" \in tail
      <4>1. tail # {} /\ CaughtUp /\ task # "ended"
        BY <1>c, <1>g, <2>1, <2>5, <3>2, Zenon
      <4>2. target[p] = None
        BY <4>1, Zenon DEF CaughtUp, Unmet
      <4>3. Had(got', flight', writer', p, owed[p]) /\ owed[p] \in Nat
        BY <1>e, <2>5, <4>1, <4>2, Zenon
      <4>4. floor'[p] = IF pending[p] # None THEN MaxOf(sent[p], 0) ELSE Version(p)
        BY <2>1, <3>2, Zenon DEF HandedOver
      <4>5. CASE pending[p] = None
        BY <1>e, <2>5, <4>1, <4>4, <4>5, Zenon
      <4>6. CASE pending[p] # None /\ sent[p] >= 0
        BY <1>e, <2>5, <4>4, <4>6, Zenon DEF MaxOf
      <4>7. CASE pending[p] # None /\ ~(sent[p] >= 0)
        <5>1. floor'[p] = 0 /\ 0 <= owed[p]
          BY <4>3, <4>4, <4>7 DEF MaxOf
        <5>2. FrameType'
          BY <1>a, StepFrames, Zenon
        <5>3. got' \in [Owned -> Int] /\ flight' \subseteq Frames /\ writer' \in Seq(Frames)
          BY <5>2, Zenon DEF FrameType
        <5>4. flight' \in SUBSET Frames /\ 0 \in Int /\ owed[p] \in Int
          BY <4>3, <5>3
        <5>. QED
          BY <4>3, <5>1, <5>3, <5>4, HadOlder, Zenon
      <4>. QED
        BY <4>5, <4>6, <4>7, Zenon
    <3>. QED
      BY <3>1, <3>2, Zenon
  <2>6. Live' => task' \in {"none", "running"}
    BY <1>c, <1>g, <2>2, Zenon
  <2>. QED
    BY <1>g, <2>1, <2>3, <2>4, <2>5, <2>6, Zenon DEF CatchUpInv, None
<1>6. CASE Stop
  <2>1. tail' = {} /\ UNCHANGED <<got, step>> /\ step = LastStep
    BY <1>6, Zenon DEF Stop
  <2>2. ~Live'
    BY <1>b, <2>1 DEF Live
  <2>. QED
    BY <1>g, <2>1, <2>2, Zenon DEF CatchUpInv, None
<1>7. CASE ForwardPrelude
  <2>. DEFINE frame == Head(prelude)
              p == frame[1]
  <2>1. /\ prelude # <<>>
        /\ sent' = [sent EXCEPT ![p] = MaxOf(sent[p], frame[2])]
        /\ flight' = {frame}
        /\ UNCHANGED <<step, pending, target, floor, owed, tail, got, entry, task>>
    BY <1>7, Zenon DEF ForwardPrelude
  <2>2. frame \in Initials
    BY <1>a, <2>1, HeadTailIs, Zenon DEF FrameType
  <2>3. p \in Owned /\ frame[2] = 0
    BY <2>2, FrameParts, Zenon
  <2>4. Had(got', flight', writer', p, 0)
    BY <2>1, <2>3 DEF Had
  <2>. HIDE DEF p, frame
  <2>5. \A q : Version(q)' = Version(q)
    BY <1>f, <2>1, Zenon
  <2>6. ASSUME Live', NEW q \in Owned
        PROVE  Had(got', flight', writer', q, sent'[q])
    <3>1. sent'[q] = sent[q] \/ (q = p /\ sent'[q] = 0)
      BY <1>b, <2>1, <2>3, Zenon DEF MaxOf
    <3>. QED
      BY <1>e, <2>4, <2>6, <3>1, Zenon
  <2>. QED
    BY <1>c, <1>e, <1>g, <2>1, <2>5, <2>6, Zenon DEF CatchUpInv, None
<1>8. CASE ForwardPending
  <2>. DEFINE p == NextToPop
  <2>1. p \in Owned /\ pending[p] # None
    BY <1>8, <1>a, PopFinds, Zenon DEF ForwardPending
  <2>2. /\ pending' = [pending EXCEPT ![p] = None]
        /\ sent' = [sent EXCEPT ![p] = pending[p]]
        /\ target' = IF Meets(p) THEN [target EXCEPT ![p] = None] ELSE target
        /\ flight' = {<<p, pending[p]>>}
        /\ UNCHANGED <<step, floor, owed, tail, got, entry, task>>
    BY <1>8, Zenon DEF ForwardPending
  <2>. HIDE DEF p
  <2>3. \A q : Version(q)' = Version(q)
    BY <1>f, <2>2, Zenon
  <2>4. \A v : pending[p] >= v => Had(got', flight', writer', p, v)
    BY <2>2, Zenon DEF Had
  <2>5. \A q \in Owned : q # p => /\ pending'[q] = pending[q] /\ sent'[q] = sent[q]
                                  /\ target'[q] = target[q]
    BY <1>b, <2>1, <2>2, Zenon
  <2>6. pending'[p] = None /\ sent'[p] = pending[p]
    BY <1>b, <2>1, <2>2, Zenon
  <2>7. pending[p] >= pending[p] /\ (target[p] # None => pending[p] >= target[p])
    BY <1>a, <1>b, <2>1 DEF TargetsCovered
  <2>8. ASSUME Live', tail # {}
        PROVE  Had(got', flight', writer', p, owed[p])
    <3>1. CASE target[p] # None /\ target[p] >= owed[p]
      <4>1. pending[p] >= owed[p]
        BY <1>b, <2>1, <2>7, <3>1
      <4>. QED
        BY <2>4, <4>1, Zenon
    <3>. QED
      BY <1>e, <2>1, <2>8, <3>1, Zenon
  <2>9. ASSUME Live', NEW q \in Owned
        PROVE  /\ Had(got', flight', writer', q, sent'[q])
               /\ pending'[q] # None => pending'[q] = Version(q)
               /\ tail # {} =>
                     /\ \/ Had(got', flight', writer', q, owed[q])
                        \/ target'[q] # None /\ target'[q] >= owed[q]
                     /\ \/ pending'[q] # None
                        \/ Had(got', flight', writer', q, Version(q))
    <3>1. CASE q # p
      BY <1>e, <2>5, <2>9, <3>1, Zenon
    <3>2. CASE q = p
      BY <1>e, <2>1, <2>4, <2>6, <2>7, <2>8, <2>9, <3>2, Zenon
    <3>. QED
      BY <3>1, <3>2, Zenon
  <2>. QED
    BY <1>c, <1>e, <1>g, <2>2, <2>3, <2>9, Zenon DEF CatchUpInv, None
<1>9. CASE HandOver
  <2>1. /\ UNCHANGED <<step, pending, sent, target, floor, owed, tail, got, entry, open>>
        /\ open => UNCHANGED task
    BY <1>9, Zenon DEF HandOver, history
  <2>2. Live' => task' \in {"none", "running"}
    BY <1>c, <1>g, <2>1, Zenon DEF Live
  <2>. QED
    BY <1>g, <1>h, <2>1, <2>2, Zenon
<1>10. CASE ForwarderStops
  <2>1. /\ UNCHANGED <<step, pending, sent, target, floor, owed, tail, got, entry>>
        /\ task = "stopping"
    BY <1>10, Zenon DEF ForwarderStops, history
  <2>2. ~Live'
    BY <1>c, <1>g, <2>1, Zenon
  <2>. QED
    BY <1>g, <1>h, <2>1, <2>2, Zenon
<1>11. CASE Deliver
  <2>1. PICK i \in 1 .. Len(writer) :
          got' = [got EXCEPT ![writer[i][1]] = MaxOf(@, writer[i][2])]
    BY <1>11, Zenon DEF Deliver
  <2>2. UNCHANGED <<step, pending, sent, target, floor, owed, tail, entry, task>>
    BY <1>11, Zenon DEF Deliver, connVars, history
  <2>. DEFINE p == writer[i][1]
              v == writer[i][2]
  <2>3. p \in Owned /\ v \in Nat /\ got' = [got EXCEPT ![p] = MaxOf(got[p], v)]
    <3>1. writer[i] \in Frames
      BY <1>a, EntryIs, Zenon DEF FrameType
    <3>. QED
      BY <2>1, <3>1, FrameParts, Zenon
  <2>. HIDE DEF p, v
  <2>4. \A q \in Owned : got'[q] >= None
    BY <1>b, <1>g, <2>3 DEF MaxOf, None
  <2>. QED
    BY <1>c, <1>g, <1>h, <2>2, <2>4, Zenon
<1>12. CASE Close
  <2>1. /\ UNCHANGED <<got, tail, entry>> /\ ~Live'
    BY <1>12, Zenon DEF Close, Live
  <2>. QED
    BY <1>g, <2>1, Zenon DEF CatchUpInv, None
<1>13. CASE Superseded
  <2>1. /\ UNCHANGED <<got, tail, entry>> /\ ~Live'
    BY <1>13, Zenon DEF Superseded, Live
  <2>. QED
    BY <1>g, <2>1, Zenon DEF CatchUpInv, None
<1>14. CASE UNCHANGED vars
  <2>1. UNCHANGED <<step, pending, sent, target, floor, owed, tail, got, entry, task>>
    BY <1>14, Zenon DEF vars, connVars, history
  <2>. QED
    BY <1>c, <1>g, <1>h, <2>1, Zenon
<1>. QED
  BY Zenon, <1>1, <1>2, <1>3, <1>4, <1>5, <1>6, <1>7, <1>8, <1>9, <1>10, <1>11, <1>12,
     <1>13, <1>14 DEF Next, Scheduler, Forwarder

\* Every step keeps the inductive invariant.
LEMMA StepResend == ResendInv /\ [Next]_vars => ResendInv'
BY StepSender, StepCatchUp, Zenon DEF ResendInv

\* A step that runs a tail of a live connection runs it after everything owed.
TailStep ==
    (tail # {} /\ tail' = {} /\ current /\ open /\ step < LastStep)
        => \A p \in Owned : \E v \in Given(p) : v >= owed[p]

\* The floor of a live connection was given to it.
FloorGiven ==
    open /\ current /\ step < LastStep =>
        \A p \in Owned : \E v \in Given(p) : v >= floor[p]

\* No step runs a tail early.
LEMMA TailStepHolds == ResendInv /\ [Next]_vars => [TailStep]_vars
<1>. SUFFICES ASSUME ResendInv, Next, tail # {}, tail' = {}, Live
              PROVE  \A p \in Owned : \E v \in Given(p) : v >= owed[p]
  BY Zenon DEF TailStep, Live
<1>1. CatchUpInv /\ PendingType /\ LastStep \in Nat
  BY LastStepType, ResendAssumption, Zenon
  DEF ResendInv, SenderInv, TargetInv, LastStep
<1>2. CaughtUp
  <2>1. CASE TakeDue
    BY <2>1, Zenon DEF TakeDue
  <2>2. CASE DropSuperseded
    BY <2>2, Zenon DEF DropSuperseded, Live
  <2>3. CASE Stop
    BY <1>1, <2>3 DEF Stop, Live, PendingType
  <2>4. CASE SendInitial \/ Publish
    BY <2>4, Zenon DEF SendInitial, Publish
  <2>5. CASE \E event \in {"hello", "disconnected"} : HandleEvent(event)
    BY <2>5, Zenon DEF HandleEvent, Start
  <2>6. CASE Forwarder
    BY <2>6, Zenon DEF Forwarder, ForwardPrelude, ForwardPending, HandOver, ForwarderStops
  <2>7. CASE Deliver
    <3>1. UNCHANGED tail
      BY <2>7, Zenon DEF Deliver
    <3>. QED
      BY <3>1, Zenon
  <2>8. CASE Close \/ Superseded
    BY <2>8, Zenon DEF Close, Superseded
  <2>. QED
    BY <2>1, <2>2, <2>3, <2>4, <2>5, <2>6, <2>7, <2>8, Zenon DEF Next, Scheduler
<1>3. \A p \in Owned : target[p] = None
  BY <1>1, <1>2, Zenon DEF CaughtUp, CatchUpInv, Unmet
<1>4. \A p \in Owned : Had(got, flight, writer, p, owed[p])
  BY <1>1, <1>3, Zenon DEF CatchUpInv
<1>. QED
  BY <1>4, GivenIs, Zenon

\* Floors are given.
LEMMA FloorHolds == ResendInv => FloorGiven
BY GivenIs, Zenon DEF ResendInv, CatchUpInv, FloorGiven, Live

\* The tail of a catch-up (finish_catch_up) of a live connection runs only
\* once every version owed at its start, or a newer one, was given to the
\* connection, and the floor it records never fences a caught-up learner.
THEOREM TailsAlwaysAfterOwed == Spec => TailAfterOwed
<1>1. Spec => [][TailStep]_vars /\ []FloorGiven
  BY InitResend, StepResend, TailStepHolds, FloorHolds, PTL DEF Spec
<1>. QED
  BY <1>1, Zenon DEF TailAfterOwed, TailStep, FloorGiven

(***************************************************************************)
(* A catch-up takes at most one send per target.                           *)
(***************************************************************************)

\* While a target is owed, the frames popped since the catch-up began and the
\* exact frames and targets still to pop are within the budget.
BoundInv ==
    /\ sends \in Nat
    /\ budget \in Nat
    /\ \A p \in Owned : target[p] >= None
    /\ targetInFlight => flight # {}
    /\ tail # {} => cut = End
    /\ tail # {} /\ (Unmet # {} \/ targetInFlight) =>
          sends + Len(prelude) + Cardinality(Unmet) <= budget

INSTANCE FiniteSetTheorems

\* The unmet targets are finitely many.
LEMMA UnmetFinite == /\ IsFiniteSet(Unmet) /\ Cardinality(Unmet) \in Nat
                     /\ IsFiniteSet(Unmet') /\ Cardinality(Unmet') \in Nat
<1>1. IsFiniteSet(Owned)
  BY FS_Interval, ScheduleAssumption DEF Owned
<1>2. Unmet \subseteq Owned /\ Unmet' \subseteq Owned
  BY Zenon DEF Unmet
<1>3. IsFiniteSet(Unmet) /\ IsFiniteSet(Unmet')
  BY <1>1, <1>2, FS_Subset, Zenon
<1>. QED
  BY <1>3, FS_CardinalityType, Zenon

\* Nothing was sent when the stream started.
LEMMA InitBound == Init => BoundInv
BY DEF Init, BoundInv, NoVersions, None

\* While a target is unmet, Pending::pop takes a target and meets it.
LEMMA PopMeets ==
    ASSUME TargetInv, BoundInv, HasPending, Unmet # {}
    PROVE  NextToPop \in Unmet /\ Meets(NextToPop)
<1>1. PICK u \in Owned : target[u] # None
  BY Zenon DEF Unmet
<1>2. pending[u] # None
  BY <1>1 DEF TargetInv, PendingType, TargetsCovered, BoundInv, None
<1>. DEFINE p == NextToPop
<1>3. /\ p \in Owned /\ pending[p] # None
      /\ \A q \in Owned \ {p} : pending[q] # None => Before(p, q)
  BY PopFinds, Zenon DEF TargetInv
<1>. HIDE DEF p
<1>4. target[p] # None
  <2>1. CASE u = p
    BY <1>1, <2>1, Zenon
  <2>2. CASE u # p
    BY <1>1, <1>2, <1>3, <2>2, Zenon DEF Before
  <2>. QED
    BY <2>1, <2>2, Zenon
<1>5. pending[p] >= target[p]
  BY <1>3, <1>4, Zenon DEF TargetInv, TargetsCovered
<1>. QED
  BY <1>3, <1>4, <1>5, Zenon DEF Unmet, Meets, p

\* Every step keeps the bound.
LEMMA StepBound == SenderInv /\ BoundInv /\ [Next]_vars => BoundInv'
<1>. SUFFICES ASSUME SenderInv, BoundInv, [Next]_vars PROVE BoundInv'
  BY Zenon
<1>a. /\ TargetInv /\ PendingType /\ FrameType
      /\ target \in [Owned -> Int] /\ pending \in [Owned -> Int]
  BY Zenon DEF SenderInv, TargetInv, PendingType
<1>b. /\ Cardinality(Unmet) \in Nat /\ Len(prelude) \in Nat /\ Len(prelude') \in Nat
      /\ IsFiniteSet(Unmet) /\ Cardinality(Unmet') \in Nat
  BY <1>a, UnmetFinite, StepFrames, LenIs, Zenon DEF FrameType
<1>c. /\ sends \in Nat /\ budget \in Nat
      /\ \A p \in Owned : target[p] >= None
      /\ targetInFlight => flight # {}
      /\ tail # {} => cut = End
      /\ tail # {} /\ (Unmet # {} \/ targetInFlight) =>
            sends + Len(prelude) + Cardinality(Unmet) <= budget
  BY Zenon DEF BoundInv
<1>d. target' = target => Unmet' = Unmet
  BY Zenon DEF Unmet
\* A step that pops and owes nothing.
<1>e. ASSUME UNCHANGED <<sends, budget>>,
             \A p \in Owned : target'[p] >= None,
             targetInFlight' => flight' # {},
             tail' # {} => /\ UNCHANGED <<tail, cut, target, prelude>>
                           /\ targetInFlight' => targetInFlight
      PROVE  BoundInv'
  BY <1>c, <1>d, <1>e, Zenon DEF BoundInv, None
<1>1. CASE SendInitial
  <2>1. tail' = {} /\ UNCHANGED <<sends, budget, target, flight, targetInFlight>>
    BY <1>1, <1>c, ScheduleAssumption DEF SendInitial, history
  <2>. QED
    BY <1>c, <1>e, <2>1, Zenon
<1>2. CASE Publish
  <2>1. UNCHANGED <<cut, sends, budget, target, tail, prelude, flight, targetInFlight>>
    BY <1>2, Zenon DEF Publish, history
  <2>. QED
    BY <1>c, <1>e, <2>1, Zenon
<1>3. ASSUME NEW event \in {"hello", "disconnected"}, HandleEvent(event)
      PROVE  BoundInv'
  <2>1. CASE ~current /\ UNCHANGED <<entry, tail, connVars, history>>
    <3>1. UNCHANGED <<cut, sends, budget, target, tail, prelude, flight, targetInFlight>>
      BY <1>3, <2>1, Zenon DEF HandleEvent, connVars, history
    <3>. QED
      BY <1>c, <1>e, <3>1, Zenon
  <2>2. ASSUME NEW kind, Start(kind)
        PROVE  BoundInv'
    <3>1. /\ sends' = 0 /\ cut = End
          /\ budget' = Len(prelude) + Cardinality({p \in Owned : target'[p] # None})
          /\ UNCHANGED <<cut, prelude, flight, targetInFlight>>
      BY <1>3, <2>2, Zenon DEF HandleEvent, Start
    <3>2. Unmet' = {p \in Owned : target'[p] # None}
      BY Zenon DEF Unmet, None
    <3>3. budget' = Len(prelude) + Cardinality(Unmet') /\ budget' \in Nat
      BY <1>b, <3>1, <3>2
    <3>4. target' = Required(pending')
      BY <2>2, ZenonT(30) DEF Start
    <3>5. \A p \in Owned : target'[p] >= None
      <4>1. \A p \in Owned : pending'[p] \in Int /\ pending'[p] >= None
        BY <1>a, StepTarget, Zenon DEF TargetInv, PendingType, None
      <4>. QED
        BY <1>a, <1>c, <3>4, <4>1, Zenon DEF Required, MaxOf, None
    <3>6. sends' + Len(prelude') + Cardinality(Unmet') <= budget'
      BY <1>b, <3>1, <3>3
    <3>. QED
      BY <1>c, <3>1, <3>3, <3>5, <3>6, Zenon DEF BoundInv, None
  <2>. QED
    BY <1>3, <2>1, <2>2, Zenon DEF HandleEvent
<1>4. CASE DropSuperseded
  BY <1>c, <1>e, <1>4, Zenon DEF DropSuperseded, history
<1>5. CASE TakeDue
  <2>1. tail' = {} /\ UNCHANGED <<sends, budget>> /\ (NewConn \/ UNCHANGED connVars)
    BY <1>5, Zenon DEF TakeDue, history
  <2>2. CASE UNCHANGED connVars
    BY <1>c, <1>e, <2>1, <2>2, Zenon DEF connVars
  <2>3. CASE NewConn
    <3>1. target' = NoVersions /\ targetInFlight' = FALSE
      BY <2>3, Zenon DEF NewConn
    <3>2. \A p \in Owned : target'[p] >= None
      BY <3>1 DEF NoVersions, None
    <3>. QED
      BY <1>e, <2>1, <3>1, <3>2, Zenon
  <2>. QED
    BY <2>1, <2>2, <2>3, Zenon
<1>6. CASE Stop
  BY <1>c, <1>e, <1>6, Zenon DEF Stop, history
<1>7. CASE ForwardPrelude
  <2>1. /\ prelude # <<>> /\ prelude' = Tail(prelude)
        /\ targetInFlight' = FALSE /\ sends' = sends + 1
        /\ UNCHANGED <<cut, target, tail, budget>>
    BY <1>7, Zenon DEF ForwardPrelude
  <2>2. Len(prelude') = Len(prelude) - 1
    BY <1>a, <2>1, HeadTailIs, Zenon DEF FrameType
  <2>3. Unmet' = Unmet
    BY <1>d, <2>1, Zenon
  <2>4. sends' + Len(prelude') + Cardinality(Unmet') =
            sends + Len(prelude) + Cardinality(Unmet)
    BY <1>b, <1>c, <2>1, <2>2, <2>3
  <2>. QED
    BY <1>c, <2>1, <2>3, <2>4 DEF BoundInv, None
<1>8. CASE ForwardPending
  <2>. DEFINE p == NextToPop
  <2>1. /\ flight = {} /\ HasPending
        /\ target' = IF Meets(p) THEN [target EXCEPT ![p] = None] ELSE target
        /\ flight' = {<<p, pending[p]>>}
        /\ targetInFlight' = Meets(p)
        /\ sends' = sends + 1
        /\ UNCHANGED <<cut, tail, prelude, budget>>
    BY <1>8, Zenon DEF ForwardPending
  <2>2. Unmet # {} => p \in Unmet /\ Meets(p)
    BY <1>a, <2>1, PopMeets, Zenon
  <2>3. p \in Owned
    BY <1>a, <2>1, PopFinds, Zenon
  <2>. HIDE DEF p
  <2>4. \A q \in Owned : target'[q] = target[q] \/ target'[q] = None
    BY <1>a, <2>1, <2>3, Zenon
  <2>5. \A q \in Owned : target'[q] >= None
    BY <1>a, <1>c, <2>4 DEF None
  <2>6. CASE Unmet = {}
    <3>1. target[p] = None
      BY <2>3, <2>6, Zenon DEF Unmet
    <3>2. ~Meets(p)
      BY <3>1, Zenon DEF Meets
    <3>3. Unmet' = {}
      BY <1>d, <2>1, <2>6, <3>2, Zenon
    <3>. QED
      BY <1>c, <2>1, <2>5, <3>2, <3>3 DEF BoundInv, None
  <2>7. CASE Unmet # {}
    <3>1. p \in Unmet /\ target' = [target EXCEPT ![p] = None]
      BY <2>1, <2>2, <2>7, Zenon
    <3>2. Unmet' = Unmet \ {p}
      BY <1>a, <2>3, <3>1, Zenon DEF Unmet, None
    <3>3. Cardinality(Unmet') = Cardinality(Unmet) - 1
      BY <1>b, <3>1, <3>2, FS_RemoveElement, ZenonT(30)
    <3>4. sends' + Len(prelude') + Cardinality(Unmet') =
              sends + Len(prelude) + Cardinality(Unmet)
      BY <1>b, <1>c, <2>1, <3>3
    <3>. QED
      BY <1>c, <2>1, <2>5, <2>7, <3>4 DEF BoundInv, None
  <2>. QED
    BY <2>6, <2>7, Zenon
<1>9. CASE HandOver
  <2>1. /\ targetInFlight' = FALSE
        /\ UNCHANGED <<cut, sends, budget, target, tail, prelude>>
    BY <1>9, Zenon DEF HandOver, history
  <2>. QED
    BY <1>c, <1>e, <2>1, Zenon
<1>10. CASE ForwarderStops
  BY <1>c, <1>e, <1>10, Zenon DEF ForwarderStops, history
<1>11. CASE Deliver
  <2>1. UNCHANGED <<cut, sends, budget, target, tail, prelude, flight, targetInFlight>>
    BY <1>11, Zenon DEF Deliver, connVars, history
  <2>. QED
    BY <1>c, <1>e, <2>1, Zenon
<1>12. CASE Close
  BY <1>c, <1>e, <1>12, Zenon DEF Close, connVars, history
<1>13. CASE Superseded
  BY <1>c, <1>e, <1>13, Zenon DEF Superseded, connVars, history
<1>14. CASE UNCHANGED vars
  BY <1>c, <1>e, <1>14, Zenon DEF vars, connVars, history
<1>. QED
  BY Zenon, <1>1, <1>2, <1>3, <1>4, <1>5, <1>6, <1>7, <1>8, <1>9, <1>10, <1>11, <1>12,
     <1>13, <1>14 DEF Next, Scheduler, Forwarder

\* "The tail needs at most one send per target however fast merges publish"
\* (resend.rs), the safety half of CatchUpEnds: while a catch-up is not handed
\* over, no more frames were popped than there were exact frames and targets
\* when it began.
THEOREM OneSendPerTarget == Spec => [](tail # {} /\ ~CaughtUp => sends <= budget)
<1>1. ASSUME SenderInv, BoundInv, tail # {}, ~CaughtUp
      PROVE  sends <= budget
  <2>1. sends + Len(prelude) + Cardinality(Unmet) <= budget
    BY <1>1, Zenon DEF BoundInv, CaughtUp
  <2>2. Len(prelude) \in Nat /\ Cardinality(Unmet) \in Nat
    BY <1>1, UnmetFinite, LenIs, Zenon DEF SenderInv, FrameType
  <2>. QED
    BY <1>1, <2>1, <2>2 DEF BoundInv
<1>. QED
  BY InitSender, StepSender, InitBound, StepBound, <1>1, PTL DEF Spec

=============================================================================
