----------------------- MODULE FragmentRounds_proofs ------------------------
(***************************************************************************)
(* The fragment rounds, for every layout, owned range, roster, quorum,     *)
(* pipeline depth, checkpoint policy and number of failures: their types;  *)
(* which round owns what, and whose votes it counts; the committed         *)
(* versions are the round-robin cut, the pipelined scheduler implements    *)
(* the sequential loop, and what learners see is on disk.                  *)
(***************************************************************************)
EXTENDS FragmentRounds, TLAPS

(***************************************************************************)
(* Facts about the step schedule, for every layout and owned range.        *)
(***************************************************************************)

\* Division with remainder, as the provers need it.
LEMMA DivMod ==
    ASSUME NEW a \in Nat, NEW b \in Nat \ {0}
    PROVE  /\ a \div b \in Nat
           /\ a % b \in 0 .. (b - 1)
           /\ a = b * (a \div b) + (a % b)
BY SMT

\* step_after always moves forward.
LEMMA StepAfterGrows ==
    ASSUME NEW s \in Nat
    PROVE  StepAfter(s) \in Nat /\ StepAfter(s) > s
<1>1. s % NumFragments \in 0 .. (NumFragments - 1)
  BY DivMod, ScheduleAssumption, Zenon
<1>. QED
  BY <1>1, ScheduleAssumption DEF StepAfter

\* expected_version never exceeds the step of the cut.
LEMMA ExpectedVersionBound ==
    ASSUME NEW s \in Nat, NEW p \in Nat
    PROVE  ExpectedVersion(p, s) \in Nat /\ ExpectedVersion(p, s) <= s
<1>1. CASE s < p + 1
  BY <1>1 DEF ExpectedVersion
<1>2. CASE s >= p + 1
  <2>. DEFINE a == s - (p + 1)
  <2>1. a \in Nat
    BY <1>2
  <2>. HIDE DEF a
  <2>2. /\ a \div NumFragments \in Nat
        /\ a % NumFragments \in 0 .. (NumFragments - 1)
        /\ a = NumFragments * (a \div NumFragments) + (a % NumFragments)
    BY <2>1, DivMod, ScheduleAssumption, Zenon
  <2>3. (a \div NumFragments) * NumFragments \in Nat
        /\ (a \div NumFragments) * NumFragments <= a
    BY <2>1, <2>2, ScheduleAssumption, Z3
  <2>4. ExpectedVersion(p, s) = p + 1 + (a \div NumFragments) * NumFragments
    BY <1>2 DEF ExpectedVersion, a
  <2>5. s = p + 1 + a
    BY <1>2 DEF a
  <2>. QED
    BY <2>1, <2>3, <2>4, <2>5
<1>. QED
  BY <1>1, <1>2

\* last_step is a step (or 0: none).
LEMMA LastStepType ==
    ASSUME NEW total \in Nat
    PROVE  LastStepOf(total) \in Nat
<1>1. CASE total = 0
  BY <1>1, Zenon DEF LastStepOf
<1>2. CASE total # 0
  <2>. DEFINE a == total - 1
              sweep == a \div NumFragments
  <2>1. a \in Nat
    BY <1>2
  <2>2. sweep \in Nat /\ a % NumFragments \in 0 .. (NumFragments - 1)
    BY <2>1, DivMod, ScheduleAssumption, Zenon
  <2>3. sweep * NumFragments \in Nat
        /\ (sweep # 0 => (sweep - 1) * NumFragments \in Nat)
    <3>. HIDE DEF sweep
    <3>. QED
      BY <2>2, ScheduleAssumption
  <2>4. LastStepOf(total) =
            IF a % NumFragments >= First
            THEN sweep * NumFragments
                 + (IF a % NumFragments < End - 1 THEN a % NumFragments ELSE End - 1) + 1
            ELSE IF sweep = 0 THEN 0 ELSE (sweep - 1) * NumFragments + End
    BY <1>2, Zenon DEF LastStepOf
  <2>. HIDE DEF a, sweep
  <2>. QED
    BY <2>2, <2>3, <2>4, ScheduleAssumption
<1>. QED
  BY <1>1, <1>2, Zenon

\* Step t merges one of the layout's fragments.
LEMMA FragmentForStepType ==
    ASSUME NEW t \in Nat \ {0}
    PROVE  FragmentForStep(t) \in Fragments
BY DivMod, ScheduleAssumption DEF FragmentForStep, Fragments

\* The step step_after returns is one the shard owns.
LEMMA StepAfterOwned ==
    ASSUME NEW s \in Nat
    PROVE  FragmentForStep(StepAfter(s)) \in Owned
<1>. DEFINE q == s \div NumFragments
            r == s % NumFragments
<1>1. q \in Nat /\ r \in 0 .. (NumFragments - 1) /\ s = NumFragments * q + r
  BY DivMod, ScheduleAssumption, Zenon
<1>2. \E k \in Nat, f \in Owned : StepAfter(s) - 1 = NumFragments * k + f
  <2>1. StepAfter(s) = IF r < First THEN s + 1 + (First - r)
                       ELSE IF r < End THEN s + 1
                       ELSE s + 1 + (NumFragments - r) + First
    BY Zenon DEF StepAfter
  <2>2. NumFragments * q \in Nat /\ NumFragments * (q + 1) = NumFragments * q + NumFragments
    BY <1>1, ScheduleAssumption
  <2>. HIDE DEF q, r
  <2>3. CASE r < First
    <3>1. StepAfter(s) - 1 = NumFragments * q + First /\ First \in Owned
      BY <1>1, <2>1, <2>2, <2>3, ScheduleAssumption DEF Owned
    <3>. QED
      BY <1>1, <3>1, Zenon
  <2>4. CASE r >= First /\ r < End
    <3>1. StepAfter(s) - 1 = NumFragments * q + r /\ r \in Owned
      BY <1>1, <2>1, <2>2, <2>4, ScheduleAssumption DEF Owned
    <3>. QED
      BY <1>1, <3>1, Zenon
  <2>5. CASE r >= End
    <3>1. StepAfter(s) - 1 = NumFragments * (q + 1) + First /\ First \in Owned
      BY <1>1, <2>1, <2>2, <2>5, ScheduleAssumption DEF Owned
    <3>2. q + 1 \in Nat
      BY <1>1
    <3>. QED
      BY <3>1, <3>2, Zenon
  <2>. QED
    BY <1>1, <2>3, <2>4, <2>5, ScheduleAssumption
<1>3. ASSUME NEW k \in Nat, NEW f \in Owned, StepAfter(s) - 1 = NumFragments * k + f
      PROVE  FragmentForStep(StepAfter(s)) = f
  <2>. DEFINE x == NumFragments * k + f
  <2>1. f \in 0 .. (NumFragments - 1) /\ x \in Nat
    BY <1>3, ScheduleAssumption DEF Owned
  <2>2. x % NumFragments \in 0 .. (NumFragments - 1)
        /\ x \div NumFragments \in Nat
        /\ x = NumFragments * (x \div NumFragments) + (x % NumFragments)
    BY <2>1, DivMod, ScheduleAssumption, Zenon
  <2>3. x % NumFragments = f
    BY <2>1, <2>2, ScheduleAssumption
  <2>. QED
    BY <1>3, <2>3, Zenon DEF FragmentForStep
<1>. QED
  BY <1>2, <1>3, Zenon

\* A step lies a whole number of sweeps after its fragment.
LEMMA StepPosition ==
    ASSUME NEW t \in Nat \ {0}
    PROVE  \E k \in Nat : t = FragmentForStep(t) + 1 + NumFragments * k
<1>1. t - 1 \in Nat
  OBVIOUS
<1>2. /\ (t - 1) \div NumFragments \in Nat
      /\ t - 1 = NumFragments * ((t - 1) \div NumFragments) + FragmentForStep(t)
  BY <1>1, DivMod, ScheduleAssumption, Zenon DEF FragmentForStep
<1>3. FragmentForStep(t) \in Nat
  BY FragmentForStepType, ScheduleAssumption DEF Fragments
<1>. DEFINE k == (t - 1) \div NumFragments
<1>4. k \in Nat /\ t - 1 = NumFragments * k + FragmentForStep(t)
  BY <1>2, Zenon
<1>. HIDE DEF k
<1>5. t = FragmentForStep(t) + 1 + NumFragments * k
  BY <1>3, <1>4, ScheduleAssumption
<1>. QED
  BY <1>4, <1>5, Zenon

\* Multiples of the layout size are a layout size apart.
LEMMA Sweeps ==
    ASSUME NEW a \in Int, NEW b \in Int, a < b
    PROVE  NumFragments * a + NumFragments <= NumFragments * b
<1>1. NumFragments * (b - a) >= NumFragments
  BY ScheduleAssumption
<1>. QED
  BY <1>1, ScheduleAssumption

\* The position of a step determines its fragment.
LEMMA PositionFragment ==
    ASSUME NEW p \in Fragments, NEW k \in Nat
    PROVE  FragmentForStep(p + 1 + NumFragments * k) = p
<1>. DEFINE x == NumFragments * k + p
<1>1. x \in Nat /\ p \in 0 .. (NumFragments - 1)
  BY ScheduleAssumption DEF Fragments
<1>2. /\ x \div NumFragments \in Nat
      /\ x % NumFragments \in 0 .. (NumFragments - 1)
      /\ x = NumFragments * (x \div NumFragments) + (x % NumFragments)
  BY <1>1, DivMod, ScheduleAssumption, Zenon
<1>3. x % NumFragments = p
  BY <1>1, <1>2, ScheduleAssumption
<1>4. (p + 1 + NumFragments * k) - 1 = x
  BY <1>1, ScheduleAssumption
<1>. QED
  BY <1>3, <1>4, Zenon DEF FragmentForStep

\* step_after skips no step of the shard.
LEMMA StepAfterLeast ==
    ASSUME NEW s \in Nat, NEW u \in Nat, u > s, FragmentForStep(u) \in Owned
    PROVE  StepAfter(s) <= u
<1>. DEFINE q == s \div NumFragments
            r == s % NumFragments
            g == FragmentForStep(u)
<1>1. q \in Nat /\ r \in 0 .. (NumFragments - 1) /\ s = NumFragments * q + r
  BY DivMod, ScheduleAssumption, Zenon
<1>2. g \in Nat /\ First <= g /\ g < End
  BY ScheduleAssumption DEF Owned
<1>3. PICK k \in Nat : u = g + 1 + NumFragments * k
  BY StepPosition
<1>4. StepAfter(s) = IF r < First THEN s + 1 + (First - r)
                     ELSE IF r < End THEN s + 1
                     ELSE s + 1 + (NumFragments - r) + First
  BY Zenon DEF StepAfter
<1>. HIDE DEF q, r, g
<1>5. k >= q
  <2>1. CASE k < q
    <3>1. NumFragments * k + NumFragments <= NumFragments * q
      BY <1>1, <1>3, <2>1, Sweeps
    <3>. QED
      BY <1>1, <1>2, <1>3, <3>1, ScheduleAssumption
  <2>. QED
    BY <1>1, <1>3, <2>1
<1>6. k = q \/ NumFragments * q + NumFragments <= NumFragments * k
  BY <1>1, <1>3, <1>5, Sweeps
<1>7. NumFragments * q \in Nat /\ NumFragments * k \in Nat
  BY <1>1, <1>3, ScheduleAssumption
<1>. QED
  BY <1>1, <1>2, <1>3, <1>4, <1>6, <1>7, ScheduleAssumption

\* expected_version of a fragment that was merged: its last step in the cut.
LEMMA ExpectedVersionIs ==
    ASSUME NEW s \in Nat, NEW p \in Nat, NEW k \in Nat,
           p + 1 + NumFragments * k <= s, s < p + 1 + NumFragments * k + NumFragments
    PROVE  ExpectedVersion(p, s) = p + 1 + NumFragments * k
<1>. DEFINE a == s - (p + 1)
            d == a \div NumFragments
<1>0. NumFragments * k \in Nat
  BY ScheduleAssumption
<1>1. a \in Nat /\ s >= p + 1
  BY <1>0
<1>2. /\ d \in Nat
      /\ a % NumFragments \in 0 .. (NumFragments - 1)
      /\ a = NumFragments * d + (a % NumFragments)
  BY <1>1, DivMod, ScheduleAssumption, Zenon
<1>3. ExpectedVersion(p, s) = p + 1 + d * NumFragments
  BY <1>1 DEF ExpectedVersion
<1>. DEFINE rest == a % NumFragments
<1>4. NumFragments * k <= a /\ a < NumFragments * k + NumFragments
  BY <1>0, ScheduleAssumption
<1>5. rest \in 0 .. (NumFragments - 1) /\ a = NumFragments * d + rest
  BY <1>2, Zenon
<1>. HIDE DEF a, d, rest
<1>6. d = k
  <2>1. CASE d < k
    <3>1. NumFragments * d + NumFragments <= NumFragments * k
      BY <1>2, <2>1, Sweeps
    <3>. QED
      BY <1>0, <1>1, <1>2, <1>4, <1>5, <3>1, ScheduleAssumption
  <2>2. CASE k < d
    <3>1. NumFragments * k + NumFragments <= NumFragments * d
      BY <1>2, <2>2, Sweeps
    <3>. QED
      BY <1>0, <1>1, <1>2, <1>4, <1>5, <3>1, ScheduleAssumption
  <2>. QED
    BY <1>2, <2>1, <2>2
<1>7. k * NumFragments = NumFragments * k
  BY ScheduleAssumption
<1>. QED
  BY <1>3, <1>6, <1>7, Zenon

\* expected_version is a step of the fragment at most a sweep back, or none.
LEMMA ExpectedVersionForm ==
    ASSUME NEW s \in Nat, NEW p \in Nat
    PROVE  \/ s < p + 1 /\ ExpectedVersion(p, s) = 0
           \/ \E k \in Nat : /\ ExpectedVersion(p, s) = p + 1 + NumFragments * k
                             /\ p + 1 + NumFragments * k <= s
                             /\ s < p + 1 + NumFragments * k + NumFragments
<1>1. CASE s < p + 1
  BY <1>1, Zenon DEF ExpectedVersion
<1>2. CASE s >= p + 1
  <2>. DEFINE a == s - (p + 1)
              d == a \div NumFragments
  <2>1. a \in Nat
    BY <1>2
  <2>2. /\ d \in Nat
        /\ a % NumFragments \in 0 .. (NumFragments - 1)
        /\ a = NumFragments * d + (a % NumFragments)
    BY <2>1, DivMod, ScheduleAssumption, Zenon
  <2>3. s = p + 1 + a
    BY <1>2
  <2>4. NumFragments * d <= a /\ a < NumFragments * d + NumFragments
        /\ NumFragments * d \in Nat
    <3>. DEFINE rest == a % NumFragments
    <3>1. rest \in 0 .. (NumFragments - 1) /\ a = NumFragments * d + rest
      BY <2>2, Zenon
    <3>. HIDE DEF a, d, rest
    <3>. QED
      BY <2>1, <2>2, <3>1, ScheduleAssumption
  <2>. HIDE DEF a, d
  <2>5. /\ p + 1 + NumFragments * d <= s
        /\ s < p + 1 + NumFragments * d + NumFragments
    BY <2>1, <2>3, <2>4, ScheduleAssumption
  <2>6. ExpectedVersion(p, s) = p + 1 + NumFragments * d
    BY <2>2, <2>5, ExpectedVersionIs, Zenon
  <2>. QED
    BY <2>2, <2>5, <2>6, Zenon
<1>. QED
  BY <1>1, <1>2

\* At its own step, a fragment has that step as its version.
LEMMA ExpectedAtStep ==
    ASSUME NEW t \in Nat \ {0}
    PROVE  ExpectedVersion(FragmentForStep(t), t) = t
<1>1. PICK k \in Nat : t = FragmentForStep(t) + 1 + NumFragments * k
  BY StepPosition, Zenon
<1>2. FragmentForStep(t) \in Nat
  BY FragmentForStepType, ScheduleAssumption DEF Fragments
<1>. QED
  BY <1>1, <1>2, ExpectedVersionIs, ScheduleAssumption

\* The shard's next step leaves the versions of its other fragments alone.
LEMMA ExpectedOfOthers ==
    ASSUME NEW s \in Nat, NEW p \in Owned, FragmentForStep(StepAfter(s)) # p
    PROVE  ExpectedVersion(p, StepAfter(s)) = ExpectedVersion(p, s)
<1>. DEFINE t == StepAfter(s)
<1>1. t \in Nat /\ t > s
  BY StepAfterGrows, Zenon
<1>2. p \in Nat /\ p \in Fragments
  BY ScheduleAssumption DEF Owned, Fragments
<1>3. ASSUME NEW j \in Nat, s < p + 1 + NumFragments * j
      PROVE  t < p + 1 + NumFragments * j
  <2>. DEFINE u == p + 1 + NumFragments * j
  <2>0. NumFragments * j \in Nat
    BY ScheduleAssumption
  <2>1. u \in Nat /\ u > s
    BY <1>2, <1>3, <2>0
  <2>4. FragmentForStep(u) = p
    BY <1>2, PositionFragment, Zenon
  <2>2. t <= u
    BY <2>1, <2>4, StepAfterLeast, Zenon
  <2>3. t # u
    BY <2>4, Zenon
  <2>. QED
    BY <1>1, <2>1, <2>2, <2>3
<1>4. CASE s < p + 1 /\ ExpectedVersion(p, s) = 0
  <2>1. t < p + 1 + NumFragments * 0
    BY <1>2, <1>3, <1>4, ScheduleAssumption
  <2>2. t < p + 1
    BY <1>1, <1>2, <2>1, ScheduleAssumption
  <2>. QED
    BY <1>4, <2>2, Zenon DEF ExpectedVersion
<1>5. ASSUME NEW k \in Nat,
             ExpectedVersion(p, s) = p + 1 + NumFragments * k,
             p + 1 + NumFragments * k <= s,
             s < p + 1 + NumFragments * k + NumFragments
      PROVE  ExpectedVersion(p, t) = ExpectedVersion(p, s)
  <2>1. NumFragments * (k + 1) = NumFragments * k + NumFragments
    BY ScheduleAssumption
  <2>2. NumFragments * k \in Nat
    BY ScheduleAssumption
  <2>5. k + 1 \in Nat /\ s < p + 1 + NumFragments * (k + 1)
    BY <1>2, <1>5, <2>1, <2>2, ScheduleAssumption
  <2>3. t < p + 1 + NumFragments * (k + 1)
    BY <1>3, <2>5, Zenon
  <2>. HIDE DEF t
  <2>4. /\ p + 1 + NumFragments * k <= t
        /\ t < p + 1 + NumFragments * k + NumFragments
    BY <1>1, <1>2, <1>5, <2>1, <2>2, <2>3, ScheduleAssumption
  <2>. QED
    BY <1>1, <1>2, <1>5, <2>4, ExpectedVersionIs, Zenon
<1>. QED
  BY <1>2, <1>4, <1>5, ExpectedVersionForm, Zenon

(***************************************************************************)
(* Types.  TypeOK alone is not inductive: a pull or a BCAST is well typed  *)
(* only because the step it names belongs to this shard, and a catch-up    *)
(* only because the learner is connected.                                  *)
(***************************************************************************)

StepsNamed ==
    /\ OwnsStep(nextT)
    /\ \A t \in Active : OwnsStep(t) /\ round[t].attempt >= 1
    /\ publishing # None => OwnsStep(publishing)
    /\ \A l \in Learners : \A pull \in pulls[l] : OwnsStep(pull.t)
    /\ \A l \in Learners : tails[l] # {} => current[l] # 0

TypeInv == TypeOK /\ StepsNamed

\* The sets of steps, versions and generations the bounds define are sets of
\* numbers; every step is a version.
LEMMA ConstantTypes ==
    /\ LastStep \in Nat
    /\ Steps \subseteq Nat \ {0}
    /\ Steps \subseteq Versions
    /\ Versions \subseteq Nat
    /\ 0 \in Versions
    /\ MaxGen \in Nat \ {0}
    /\ MaxAttempts \in Nat \ {0}
    /\ Owned \subseteq Nat
<1>1. LastStep \in Nat
  BY LastStepType, FragmentRoundsAssumption, Zenon DEF LastStep
<1>2. MaxGen \in Nat \ {0}
  BY FragmentRoundsAssumption DEF MaxGen
<1>3. Owned \subseteq Nat
  BY ScheduleAssumption DEF Owned
<1>. QED
  BY <1>1, <1>2, <1>3, FragmentRoundsAssumption DEF Steps, Versions

\* The order of versions; None is not a version.
LEMMA AtMost ==
    /\ \A n \in Nat : n <= n /\ n # None
    /\ \A i, j, k \in Nat : i <= j /\ j <= k => i <= k
BY DEF None

\* Generations start at one; zero stands for no connection.
LEMMA GenRange ==
    /\ 0 \in 0 .. MaxGen
    /\ \A n \in 1 .. MaxGen : n # 0 /\ n \in 0 .. MaxGen
    /\ \A n \in 0 .. MaxGen : n # 0 => n \in 1 .. MaxGen
BY ConstantTypes

\* A frame carries the given version of its fragment.
LEMMA FrameOf ==
    ASSUME NEW to, NEW frags, NEW v, NEW b \in Frames(to, frags, v)
    PROVE  b.p \in frags /\ b.v = v[b.p]
BY DEF Frames

\* A broadcast of step t carries version t of its fragment.
LEMMA BroadcastOf ==
    ASSUME NEW p, NEW t, NEW b \in Broadcast(p, t)
    PROVE  b.p = p /\ b.v = t
BY DEF Broadcast, Frames

\* A round slot that is not in use is well typed.
LEMMA IdleType == Idle \in Rounds /\ Idle.stage = "idle"
BY ConstantTypes DEF Rounds, Idle

\* The scheduler's next step is one of this shard's.
LEMMA StepAfterOwns ==
    ASSUME NEW s \in Nat
    PROVE  StepAfter(s) \in Nat /\ OwnsStep(StepAfter(s))
BY StepAfterGrows, StepAfterOwned DEF OwnsStep

\* A round's pulls stay pulls of owned steps.
LEMMA PullsSentType ==
    ASSUME TypeInv, NEW to, NEW pull \in Pulls, OwnsStep(pull.t)
    PROVE  /\ PullsSent(to, pull) \in [Learners -> SUBSET Pulls]
           /\ \A l \in Learners : \A q \in PullsSent(to, pull)[l] : OwnsStep(q.t)
BY Zenon DEF TypeInv, TypeOK, StepsNamed, PullsSent

\* Frames of fragment versions are well-typed BCASTs.
LEMMA FramesType ==
    ASSUME NEW to \in SUBSET Members, NEW frags \in SUBSET Owned,
           NEW v \in [frags -> Versions]
    PROVE  Frames(to, frags, v) \subseteq Bcasts
BY DEF Frames, Bcasts

\* The groups the registry calls current are members.
LEMMA CurrentGroupsType ==
    ASSUME TypeOK
    PROVE  CurrentGroups \in SUBSET Members
BY ZenonT(30) DEF TypeOK, CurrentGroups

\* What a commit broadcasts is a well-typed set of BCASTs.
LEMMA BroadcastType ==
    ASSUME TypeOK, NEW p \in Owned, NEW t \in Steps
    PROVE  Broadcast(p, t) \subseteq Bcasts
<1>1. [q \in {p} |-> t] \in [{p} -> Versions] /\ {p} \in SUBSET Owned
  BY ConstantTypes, Zenon
<1>. QED
  BY <1>1, CurrentGroupsType, FramesType, ZenonT(30) DEF Broadcast

\* Starting a catch-up touches the tail of its own learner only, and sends
\* well-typed BCASTs.
LEMMA CatchUpType ==
    ASSUME TypeInv, NEW m \in Members, NEW tail \in {"rejoin", "rebind"},
           CatchUp(m, tail)
    PROVE  /\ tails' \in [Learners -> SUBSET {"rejoin", "rebind"}]
           /\ bcasts' \subseteq Bcasts
           /\ \A l \in Learners : l # m[1] => tails'[l] = tails[l]
<1>1. Frames({m}, Owned, versions) \subseteq Bcasts
  BY FramesType, ZenonT(30) DEF TypeInv, TypeOK
<1>. QED
  BY <1>1, ZenonT(30) DEF CatchUp, TypeInv, TypeOK, Members

\* Launch starts a step of this shard, within the run.
LEMMA LaunchesOwnStep ==
    ASSUME TypeInv, Launch
    PROVE  /\ nextT \in Steps
           /\ FragmentForStep(nextT) \in Owned
           /\ OwnsStep(nextT)
<1>1. nextT \in Nat /\ OwnsStep(nextT)
  BY ZenonT(30) DEF TypeInv, TypeOK, StepsNamed
<1>2. Launchable(nextT)
  BY ZenonT(30) DEF Launch
<1>. QED
  BY <1>1, <1>2, ConstantTypes DEF Launchable, OwnsStep, Steps

\* The learner whose catch-up finishes is connected.
LEMMA CaughtUpMember ==
    ASSUME TypeInv, NEW l \in Learners, FinishCatchUp(l)
    PROVE  <<l, current[l]>> \in Members
<1>1. current[l] \in 0 .. MaxGen
  BY ZenonT(30) DEF TypeInv, TypeOK
<1>2. current[l] # 0
  BY ZenonT(30) DEF FinishCatchUp, TypeInv, StepsNamed
<1>. QED
  BY <1>1, <1>2, ConstantTypes DEF Members

\* A syncer that has just started is well typed.
LEMMA InitType == Init => TypeInv
<1>. SUFFICES ASSUME Init PROVE TypeInv
  BY Zenon
<1>. USE DEF Init
<1>1. /\ StepAfter(0) \in Nat
      /\ OwnsStep(StepAfter(0))
  BY StepAfterOwns, Zenon
<1>3. ZeroVersions \in [Owned -> Versions]
      /\ NoAnchors \in [Members -> [Owned -> Versions \cup {None}]]
  BY ConstantTypes, ZenonT(30) DEF ZeroVersions, NoAnchors
<1>4. TypeOK
  BY <1>1, <1>3, IdleType, ConstantTypes, FragmentRoundsAssumption
  DEF TypeOK, Snapshot
<1>5. Active = {}
  BY Zenon DEF Active, Idle
<1>6. StepsNamed
  BY <1>1, <1>5, Zenon DEF StepsNamed
<1>. QED
  BY <1>4, <1>6, Zenon DEF TypeInv

\* Launching a round keeps the types: it names a step this shard owns.
LEMMA LaunchType == TypeInv /\ Launch => TypeInv'
<1>. SUFFICES ASSUME TypeInv, Launch PROVE TypeInv'
  BY Zenon
<1>. USE DEF TypeInv
<1>. DEFINE t == nextT
            p == FragmentForStep(t)
            expected == {m \in CurrentGroups : ~Holds(m)}
            late == {x \in queued : FragmentForStep(x.t) = p}
            r == [stage |-> "gather", base |-> versions[p], attempt |-> 1,
                  expected |-> expected, pushes |-> {}, exact |-> ExactFold(expected),
                  carried |-> {x \in late : Attachable(x, versions[p], ExactFold(expected))}]
            pull == [t |-> t, attempt |-> 1]
<1>1. t \in Steps /\ p \in Owned /\ OwnsStep(t)
  BY LaunchesOwnStep, ZenonT(30)
<1>2. expected \in SUBSET Members
  BY CurrentGroupsType, Zenon
<1>3. ExactFold(expected) \in BOOLEAN
  BY Zenon DEF ExactFold
<1>4. r \in Rounds
  <2>1. late \in SUBSET Pushes
    BY Zenon DEF TypeOK
  <2>. HIDE DEF p, expected, late
  <2>2. versions[p] \in Versions
    BY <1>1, ZenonT(30) DEF TypeOK
  <2>3. 1 \in 0 .. MaxAttempts
    BY ConstantTypes
  <2>. QED
    BY <1>2, <1>3, <2>1, <2>2, <2>3, ZenonT(30) DEF Rounds
<1>5. pull \in Pulls
  BY <1>1, ConstantTypes DEF Pulls
<1>6. /\ nextT' = StepAfter(t)
      /\ busy' = busy \cup {p}
      /\ round' = [round EXCEPT ![t] = r]
      /\ queued' = queued \ late
      /\ pulls' = PullsSent(expected, pull)
  BY ZenonT(30) DEF Launch
<1>7. UNCHANGED <<phase, globalStep, versions, nextCommitT, publishing, disk,
                  anchors, gathered, counted, registryVars, gens, online, held,
                  answered, linkVars, failureVars>>
  BY ZenonT(30) DEF Launch
<1>8. r.attempt = 1
  BY Zenon
<1>. HIDE DEF t, p, expected, late, r, pull
<1>9. /\ pulls' \in [Learners -> SUBSET Pulls]
      /\ \A l \in Learners : \A q \in pulls'[l] : OwnsStep(q.t)
  BY <1>1, <1>5, <1>6, PullsSentType, ZenonT(30) DEF pull
<1>10. nextT' \in Nat /\ OwnsStep(nextT')
  BY <1>1, <1>6, StepAfterOwns, ConstantTypes, ZenonT(30)
<1>11. TypeOK'
  BY <1>1, <1>4, <1>6, <1>7, <1>9, <1>10, ZenonT(30)
  DEF TypeOK, registryVars, linkVars, failureVars
<1>12. \A u \in Active' : OwnsStep(u) /\ round'[u].attempt >= 1
  <2>1. /\ round \in [Steps -> Rounds]
        /\ \A u \in Active : OwnsStep(u) /\ round[u].attempt >= 1
    BY ZenonT(30) DEF TypeOK, StepsNamed
  <2>. QED
    BY <1>1, <1>6, <1>8, <2>1 DEF Active
<1>13. StepsNamed'
  BY <1>7, <1>9, <1>10, <1>12, ZenonT(30) DEF StepsNamed, registryVars
<1>. QED
  BY <1>11, <1>13, Zenon

\* Round t only moves to a later stage, or the syncer fails.
LEMMA StageType ==
    ASSUME TypeInv, NEW t \in Steps, NEW stage \in {"compute", "ready"},
           round[t].stage # "idle",
           \/ round' = [round EXCEPT ![t].stage = stage] /\ UNCHANGED phase
           \/ phase' = "failed" /\ UNCHANGED round,
           UNCHANGED <<globalStep, versions, nextT, nextCommitT, busy, publishing,
                       disk, carryVars, registryVars, learnerVars, linkVars,
                       failureVars>>
    PROVE  TypeInv'
<1>. USE DEF TypeInv
<1>0. [round[t] EXCEPT !.stage = stage] \in Rounds
  <2>1. round[t] \in Rounds
    BY ZenonT(30) DEF TypeOK
  <2>. QED
    BY <2>1, ZenonT(30) DEF Rounds
<1>1. round' \in [Steps -> Rounds]
  BY <1>0, ZenonT(30) DEF TypeOK
<1>2. TypeOK'
  BY <1>1, ZenonT(30)
  DEF TypeOK, carryVars, registryVars, learnerVars, linkVars, failureVars
<1>3. \A u \in Active' : u \in Active /\ round'[u].attempt = round[u].attempt
  <2>1. round \in [Steps -> Rounds]
    BY ZenonT(30) DEF TypeOK
  <2>. QED
    BY <1>1, <2>1 DEF Active, Rounds
<1>4. StepsNamed'
  BY <1>3, Zenon DEF StepsNamed, registryVars, learnerVars
<1>. QED
  BY <1>2, <1>4, Zenon

\* A round whose gather completes keeps the types.
LEMMA GatheredType ==
    ASSUME TypeInv, NEW t \in Steps, Gathered(t) PROVE TypeInv'
<1>1. /\ round[t].stage = "gather"
      /\ \/ round' = [round EXCEPT ![t].stage = "compute"] /\ UNCHANGED phase
         \/ phase' = "failed" /\ UNCHANGED round
      /\ UNCHANGED <<globalStep, versions, nextT, nextCommitT, busy, publishing,
                     disk, carryVars, registryVars, learnerVars, linkVars,
                     failureVars>>
  BY Zenon DEF Gathered
<1>. QED
  BY <1>1, StageType, Zenon

\* A round whose merge is computed keeps the types.
LEMMA ComputedType ==
    ASSUME TypeInv, NEW t \in Steps, Computed(t) PROVE TypeInv'
<1>1. /\ round[t].stage = "compute"
      /\ \/ round' = [round EXCEPT ![t].stage = "ready"] /\ UNCHANGED phase
         \/ phase' = "failed" /\ UNCHANGED round
      /\ UNCHANGED <<globalStep, versions, nextT, nextCommitT, busy, publishing,
                     disk, carryVars, registryVars, learnerVars, linkVars,
                     failureVars>>
  BY Zenon DEF Computed
<1>. QED
  BY <1>1, StageType, Zenon

\* A fixed roster's second PULL after a timeout keeps the types.
LEMMA RepullType ==
    ASSUME TypeInv, NEW t \in Steps, RepullRoster(t) PROVE TypeInv'
<1>. USE DEF TypeInv
<1>. DEFINE pull == [t |-> t, attempt |-> round[t].attempt]
            to == {m \in CurrentGroups : ~AnsweredBy(t, m[1])}
<1>1. t \in Active
  BY Zenon DEF RepullRoster, TimedOut, Active
<1>2. pull \in Pulls /\ OwnsStep(pull.t)
  BY <1>1, ConstantTypes DEF Pulls, TypeOK, StepsNamed, Rounds
<1>3. pulls' = PullsSent(to, pull)
  BY Zenon DEF RepullRoster
<1>4. UNCHANGED <<stateVars, roundVars, carryVars, registryVars, gens, online,
                  held, answered, linkVars, failureVars>>
  BY Zenon DEF RepullRoster
<1>. HIDE DEF pull, to
<1>5. /\ pulls' \in [Learners -> SUBSET Pulls]
      /\ \A l \in Learners : \A q \in pulls'[l] : OwnsStep(q.t)
  BY <1>2, <1>3, PullsSentType, Zenon
<1>6. TypeOK'
  BY <1>4, <1>5, ZenonT(30)
  DEF TypeOK, stateVars, roundVars, carryVars, registryVars,
                    linkVars, failureVars
<1>7. StepsNamed'
  BY <1>4, <1>5, Zenon DEF StepsNamed, Active, stateVars, roundVars, registryVars
<1>. QED
  BY <1>6, <1>7, Zenon

\* A round restarted after a timeout keeps the types: the attempt stays within
\* its bound and a released anchor stays a version.
LEMMA RestartType ==
    ASSUME TypeInv, NEW t \in Steps, Restart(t) PROVE TypeInv'
<1>. USE DEF TypeInv
<1>. DEFINE pull == [t |-> t, attempt |-> round[t].attempt + 1]
<1>1. t \in Active
  BY Zenon DEF Restart, TimedOut, Active
<1>2. pull \in Pulls /\ OwnsStep(pull.t)
  BY <1>1, ConstantTypes DEF Pulls, TypeOK, StepsNamed, Rounds, Restart
<1>3. /\ pulls' = PullsSent(CurrentGroups, pull)
      /\ round' = [round EXCEPT ![t] = NewAttempt(t)]
      /\ gathered' = IF CarryOn THEN Released(t) ELSE gathered
  BY Zenon DEF Restart
<1>4. UNCHANGED <<stateVars, busy, publishing, disk, queued, anchors, counted,
                  registryVars, gens, online, held, answered, linkVars, failureVars>>
  BY Zenon DEF Restart
<1>5. FragmentForStep(t) \in Owned
  BY <1>1, ZenonT(30) DEF StepsNamed, OwnsStep
<1>6. NewAttempt(t) \in Rounds
      /\ NewAttempt(t).attempt >= 1
      /\ NewAttempt(t).stage = round[t].stage
  <2>1. ExactFold(CurrentGroups) \in BOOLEAN
    BY Zenon DEF ExactFold
  <2>2. round[t] \in Rounds /\ versions[FragmentForStep(t)] \in Versions
    BY <1>5, Zenon DEF TypeOK
  <2>3. round[t].attempt + 1 \in 0 .. MaxAttempts /\ round[t].attempt + 1 >= 1
    BY <2>2, ConstantTypes DEF Restart, Rounds
  <2>. QED
    BY <2>1, <2>2, <2>3, CurrentGroupsType, ZenonT(30) DEF NewAttempt, Rounds
<1>7. Released(t) \in [Members -> [Owned -> Versions \cup {None}]]
  <2>1. ASSUME NEW m \in Members, NEW p \in Owned,
               NEW x \in round[t].pushes, gathered[m][p] = x.base
        PROVE  gathered[m][p] - 1 \in Versions \cup {None}
    <3>1. x.base \in Versions
      BY DEF TypeOK, Rounds, Pushes
    <3>. QED
      BY <2>1, <3>1, ConstantTypes DEF Versions, None
  <2>. QED
    BY <2>1, ZenonT(30) DEF Released, TypeOK
<1>. HIDE DEF pull
<1>8. /\ pulls' \in [Learners -> SUBSET Pulls]
      /\ \A l \in Learners : \A q \in pulls'[l] : OwnsStep(q.t)
  BY <1>2, <1>3, PullsSentType, Zenon
<1>9. TypeOK'
  BY <1>3, <1>4, <1>6, <1>7, <1>8, ZenonT(30)
  DEF TypeOK, stateVars, registryVars, linkVars, failureVars
<1>10. \A u \in Active' : OwnsStep(u) /\ round'[u].attempt >= 1
  BY <1>1, <1>3, <1>6, ZenonT(30) DEF Active, TypeOK, StepsNamed
<1>11. StepsNamed'
  BY <1>4, <1>8, <1>10, ZenonT(30) DEF StepsNamed, stateVars, registryVars
<1>. QED
  BY <1>9, <1>11, Zenon

\* Commit stores the step as version and as global step, and takes the round out.
LEMMA CommitType ==
    ASSUME TypeInv, NEW t \in Steps, Commit(t) PROVE TypeInv'
<1>. USE DEF TypeInv
<1>. DEFINE p == FragmentForStep(t)
<1>1. t \in Active
  BY Zenon DEF Commit, CommitsNext, Active
<1>2. OwnsStep(t) /\ p \in Owned
  BY <1>1, Zenon DEF StepsNamed, OwnsStep
<1>3. UNCHANGED <<nextT, queued, anchors, gathered, registryVars, learnerVars,
                  pushes, failureVars>>
  BY Zenon DEF Commit
<1>4. CASE ~CommitFits(t)
  <2>1. /\ phase' = "failed"
        /\ UNCHANGED <<globalStep, versions, nextCommitT, roundVars, counted, bcasts>>
    BY <1>4, Zenon DEF Commit
  <2>2. TypeOK'
    BY <1>3, <2>1, ZenonT(30)
    DEF TypeOK, roundVars, registryVars, learnerVars, failureVars
  <2>3. StepsNamed'
    BY <1>3, <2>1, Zenon DEF StepsNamed, Active, roundVars, registryVars, learnerVars
  <2>. QED
    BY <2>2, <2>3, Zenon
<1>5. CASE CommitFits(t)
  <2>1. Apply(t) /\ UNCHANGED phase
    BY <1>5, Zenon DEF Commit
  <2>2. versions' \in [Owned -> Versions] /\ globalStep' \in Versions
    BY <1>2, <2>1, ConstantTypes, ZenonT(30) DEF Apply, TypeOK
  <2>3. counted' \subseteq (Pushes \X {"own", "carried"})
    <3>1. round[t] \in Rounds
      BY Zenon DEF TypeOK
    <3>2. round[t].pushes \subseteq Pushes /\ round[t].carried \subseteq Pushes
      BY <3>1, Zenon DEF Rounds
    <3>. QED
      BY <2>1, <3>2, ZenonT(30) DEF Apply, TypeOK
  <2>4. /\ round' \in [Steps -> Rounds]
        /\ \A u \in Active' : u \in Active /\ round'[u] = round[u]
    <3>2. round' = [round EXCEPT ![t] = Idle]
      BY <2>1, Zenon DEF Apply
    <3>. QED
      BY <3>2, IdleType, ZenonT(30) DEF TypeOK, Active
  <2>5. nextCommitT' \in Nat
    BY <2>1, StepAfterGrows, ZenonT(30) DEF Apply, TypeOK
  <2>6. /\ publishing' \in Steps \cup {None}
        /\ publishing' # None => OwnsStep(publishing')
    BY <1>2, <1>5, ZenonT(30) DEF Commit, TypeOK, StepsNamed
  <2>7. busy' \subseteq Owned
    BY <1>5, ZenonT(30) DEF Commit, TypeOK
  <2>8. disk' \in [step : Versions \cup {None}, versions : [Owned -> Versions]]
    <3>1. disk' = disk \/ disk' = Snapshot(t, versions')
      BY <1>5, Zenon DEF Commit
    <3>. QED
      BY <3>1, <2>2, ConstantTypes DEF Snapshot, TypeOK
  <2>9. bcasts' \subseteq Bcasts
    BY <1>2, <1>5, BroadcastType, ZenonT(30) DEF Commit, TypeOK
  <2>10. TypeOK'
    BY <1>3, <2>1, <2>2, <2>3, <2>4, <2>5, <2>6, <2>7, <2>8, <2>9, ZenonT(30)
    DEF TypeOK, registryVars, learnerVars, failureVars
  <2>11. StepsNamed'
    BY <1>3, <2>4, <2>6, Zenon DEF StepsNamed, registryVars, learnerVars
  <2>. QED
    BY <2>10, <2>11, Zenon
<1>. QED
  BY <1>4, <1>5, Zenon

\* The publication sends the step it was waiting for, which this shard owns.
LEMMA SettlePublishType == TypeInv /\ SettlePublish => TypeInv'
<1>. SUFFICES ASSUME TypeInv, SettlePublish PROVE TypeInv'
  BY Zenon
<1>. USE DEF TypeInv
<1>1. publishing \in Steps /\ FragmentForStep(publishing) \in Owned
  BY Zenon DEF SettlePublish, TypeOK, StepsNamed, OwnsStep
<1>2. bcasts' \subseteq Bcasts
  BY <1>1, BroadcastType, ZenonT(30) DEF SettlePublish, TypeOK
<1>3. disk' \in [step : Versions \cup {None}, versions : [Owned -> Versions]]
  BY Zenon DEF SettlePublish, Snapshot, TypeOK
<1>4. /\ phase' \in {"train", "failed"}
      /\ busy' \subseteq busy
      /\ publishing' = None
      /\ UNCHANGED <<globalStep, versions, nextT, nextCommitT, round, carryVars,
                     registryVars, learnerVars, pushes, failureVars>>
  BY Zenon DEF SettlePublish
<1>5. TypeOK'
  BY <1>2, <1>3, <1>4, Zenon
  DEF TypeOK, carryVars, registryVars, learnerVars, failureVars
<1>6. StepsNamed'
  BY <1>4, Zenon DEF StepsNamed, Active, registryVars, learnerVars
<1>. QED
  BY <1>5, <1>6, Zenon

\* The end of the run keeps the types.
LEMMA FinishType == TypeInv /\ Finish => TypeInv'
<1>. SUFFICES ASSUME TypeInv, Finish PROVE TypeInv'
  BY Zenon
<1>. USE DEF TypeInv
<1>1. disk' \in [step : Versions \cup {None}, versions : [Owned -> Versions]]
  BY Zenon DEF Finish, Snapshot, TypeOK
<1>2. /\ phase' \in {"final", "failed"}
      /\ tails' = [l \in Learners |-> {}]
      /\ UNCHANGED <<globalStep, versions, nextT, nextCommitT, round, busy,
                     publishing, carryVars, groups, current, closing, hello,
                     learnerVars, linkVars, failureVars>>
  BY Zenon DEF Finish
<1>3. TypeOK'
  <2>1. /\ phase' \in {"hello", "init", "train", "final", "failed"}
        /\ tails' \in [Learners -> SUBSET {"rejoin", "rebind"}]
    BY <1>2, ZenonT(30)
  <2>. QED
    BY <1>1, <1>2, <2>1, ZenonT(30)
    DEF TypeOK, carryVars, learnerVars, linkVars, failureVars
<1>4. StepsNamed'
  BY <1>2, Zenon DEF StepsNamed, Active, learnerVars
<1>. QED
  BY <1>3, <1>4, Zenon

\* The start of training keeps the types.
LEMMA StartType == TypeInv /\ Start => TypeInv'
<1>. SUFFICES ASSUME TypeInv, Start PROVE TypeInv'
  BY Zenon
<1>. USE DEF TypeInv
<1>1. disk' \in [step : Versions \cup {None}, versions : [Owned -> Versions]]
  BY ZenonT(30) DEF Start, Snapshot, TypeOK
<1>2. bcasts' \subseteq Bcasts
  BY FramesType, CurrentGroupsType, ZenonT(30) DEF Start, TypeOK
<1>3. nextT' \in Nat /\ nextCommitT' \in Nat /\ OwnsStep(nextT')
  BY StepAfterOwns, ConstantTypes, ZenonT(30) DEF Start, TypeOK
<1>4. /\ phase' = "train"
      /\ UNCHANGED <<globalStep, versions, round, busy, publishing, carryVars,
                     registryVars, learnerVars, pushes, failureVars>>
  BY Zenon DEF Start
<1>5. TypeOK'
  BY <1>1, <1>2, <1>3, <1>4, ZenonT(30)
  DEF TypeOK, carryVars, registryVars, learnerVars, failureVars
<1>6. StepsNamed'
  BY <1>3, <1>4, Zenon DEF StepsNamed, Active, registryVars, learnerVars
<1>. QED
  BY <1>5, <1>6, Zenon

----------------------------------------------------------------------------

\* Raising an anchor keeps it a version.
LEMMA RaisedType ==
    ASSUME NEW known \in [Members -> [Owned -> Versions \cup {None}]],
           NEW x \in Pushes
    PROVE  Raised(known, x) \in [Members -> [Owned -> Versions \cup {None}]]
<1>1. x.m \in Members /\ x.base \in Versions
  BY Zenon DEF Pushes
<1>. DEFINE p == FragmentForStep(x.t)
            new == [known[x.m] EXCEPT ![p] = IF @ < x.base THEN x.base ELSE @]
<1>2. new \in [Owned -> Versions \cup {None}]
  BY <1>1, ZenonT(30)
<1>3. Raised(known, x) = [known EXCEPT ![x.m] = new]
  BY <1>1, Zenon DEF Raised
<1>. HIDE DEF new
<1>. QED
  BY <1>1, <1>2, <1>3, Zenon

\* A round that takes a push keeps its stage and attempt.
LEMMA TakesPush ==
    ASSUME TypeOK, NEW t \in Steps, NEW x \in Pushes,
           \/ round' = [round EXCEPT ![t].pushes = @ \cup {x}]
           \/ round' = [round EXCEPT ![t].carried = @ \cup {x}]
    PROVE  /\ round' \in [Steps -> Rounds]
           /\ \A u \in Steps : /\ round'[u].stage = round[u].stage
                               /\ round'[u].attempt = round[u].attempt
                               /\ round'[u].expected = round[u].expected
                               /\ round'[u].base = round[u].base
<1>1. round[t] \in Rounds
  BY Zenon DEF TypeOK
<1>2. CASE round' = [round EXCEPT ![t].pushes = @ \cup {x}]
  <2>. DEFINE r == [round[t] EXCEPT !.pushes = @ \cup {x}]
  <2>1. r \in Rounds
    BY <1>1, ZenonT(30) DEF Rounds
  <2>2. /\ r.stage = round[t].stage /\ r.attempt = round[t].attempt
        /\ r.expected = round[t].expected /\ r.base = round[t].base
    BY <1>1, Zenon DEF Rounds
  <2>3. round' = [round EXCEPT ![t] = r]
    BY <1>2, Zenon
  <2>. HIDE DEF r
  <2>. QED
    BY <2>1, <2>2, <2>3, ZenonT(30) DEF TypeOK
<1>3. CASE round' = [round EXCEPT ![t].carried = @ \cup {x}]
  <2>. DEFINE r == [round[t] EXCEPT !.carried = @ \cup {x}]
  <2>1. r \in Rounds
    BY <1>1, ZenonT(30) DEF Rounds
  <2>2. /\ r.stage = round[t].stage /\ r.attempt = round[t].attempt
        /\ r.expected = round[t].expected /\ r.base = round[t].base
    BY <1>1, Zenon DEF Rounds
  <2>3. round' = [round EXCEPT ![t] = r]
    BY <1>3, Zenon
  <2>. HIDE DEF r
  <2>. QED
    BY <2>1, <2>2, <2>3, ZenonT(30) DEF TypeOK
<1>. QED
  BY <1>2, <1>3, ZenonT(30)

\* Whatever becomes of a push, rounds keep their stages, attempts, members and
\* bases.
LEMMA PushKeepsRounds ==
    ASSUME TypeOK, NEW x \in pushes, HandlePush(x)
    PROVE  /\ round' \in [Steps -> Rounds]
           /\ \A u \in Steps : /\ round'[u].stage = round[u].stage
                               /\ round'[u].attempt = round[u].attempt
                               /\ round'[u].expected = round[u].expected
                               /\ round'[u].base = round[u].base
<1>1. x \in Pushes /\ x.t \in Steps
  BY Zenon DEF TypeOK, Pushes
<1>2. CASE Gather(x)
  BY <1>1, <1>2, TakesPush, ZenonT(30) DEF Gather
<1>3. CASE Attach(x)
  <2>1. PICK t \in LaterRounds(x) : round' = [round EXCEPT ![t].carried = @ \cup {x}]
    BY <1>3, ZenonT(30) DEF Attach
  <2>2. t \in Steps
    BY Zenon DEF LaterRounds, Inflight
  <2>. QED
    BY <1>1, <2>1, <2>2, TakesPush, ZenonT(30)
<1>4. CASE UNCHANGED round
  BY <1>4, ZenonT(30) DEF TypeOK
<1>. QED
  BY <1>2, <1>3, <1>4, ZenonT(30) DEF HandlePush, Queue, Reject

\* Whatever the syncer does with a PUSH keeps the types.
LEMMA HandlePushType ==
    ASSUME TypeInv, NEW x \in pushes, HandlePush(x) PROVE TypeInv'
<1>. USE DEF TypeInv
<1>1. x \in Pushes
  BY Zenon DEF TypeOK
<1>2. /\ phase' \in {"init", "train", "failed"}
      /\ queued' \subseteq Pushes
  BY <1>1, ZenonT(30) DEF HandlePush, Gather, Attach, Queue, Reject, TypeOK
<1>3. /\ anchors' = anchors \/ anchors' = Raised(anchors, x)
      /\ gathered' = gathered \/ gathered' = Raised(gathered, x)
  BY ZenonT(30) DEF HandlePush, Gather, Attach, Queue, Reject
<1>4. /\ anchors' \in [Members -> [Owned -> Versions \cup {None}]]
      /\ gathered' \in [Members -> [Owned -> Versions \cup {None}]]
  <2>1. /\ anchors \in [Members -> [Owned -> Versions \cup {None}]]
        /\ gathered \in [Members -> [Owned -> Versions \cup {None}]]
    BY Zenon DEF TypeOK
  <2>2. Raised(anchors, x) \in [Members -> [Owned -> Versions \cup {None}]]
    BY <1>1, <2>1, RaisedType, ZenonT(30)
  <2>3. Raised(gathered, x) \in [Members -> [Owned -> Versions \cup {None}]]
    BY <1>1, <2>1, RaisedType, ZenonT(30)
  <2>. QED
    BY <1>3, <2>1, <2>2, <2>3, ZenonT(30)
<1>5. /\ pushes' \subseteq pushes
      /\ UNCHANGED <<globalStep, versions, nextT, nextCommitT, busy, publishing,
                     disk, counted, registryVars, learnerVars, bcasts, failureVars>>
  BY Zenon DEF HandlePush
<1>6. TypeOK'
  BY <1>2, <1>4, <1>5, PushKeepsRounds, ZenonT(30)
  DEF TypeOK, registryVars, learnerVars, failureVars
<1>7. \A u \in Active' : u \in Active /\ round'[u].attempt = round[u].attempt
  BY PushKeepsRounds, Zenon DEF Active
<1>8. StepsNamed'
  BY <1>5, <1>7, Zenon DEF StepsNamed, registryVars, learnerVars
<1>. QED
  BY <1>6, <1>8, Zenon

\* A HELLO, first or of a reconnection, keeps the types.
LEMMA HandleHelloType ==
    ASSUME TypeInv, NEW m \in hello, HandleHello(m) PROVE TypeInv'
<1>. USE DEF TypeInv
<1>1. m \in Members /\ m[1] \in Learners /\ m[2] \in Nat \ {0}
  BY ConstantTypes DEF TypeOK, Members
<1>2. /\ hello' \subseteq hello
      /\ UNCHANGED <<nextT, nextCommitT, roundVars, carryVars, groups, current,
                     closing, learnerVars, pushes, failureVars>>
  BY Zenon DEF HandleHello
<1>3. /\ phase' \in {"init", "train"}
      /\ globalStep' \in Versions
      /\ versions' \in [Owned -> Versions]
  BY ConstantTypes DEF HandleHello, TypeOK, ZeroVersions
<1>4. /\ tails' \in [Learners -> SUBSET {"rejoin", "rebind"}]
      /\ bcasts' \subseteq Bcasts
      /\ \A l \in Learners : tails'[l] # tails[l] => current[l] # 0
  <2>1. CASE UNCHANGED <<tails, bcasts>>
    BY <2>1, ZenonT(30) DEF TypeOK
  <2>2. CASE IsCurrent(m) /\ CatchUp(m, "rejoin")
    BY <1>1, <2>2, CatchUpType, Zenon DEF IsCurrent
  <2>. QED
    BY <2>1, <2>2, ZenonT(30) DEF HandleHello
<1>5. TypeOK'
  BY <1>2, <1>3, <1>4, ZenonT(30)
  DEF TypeOK, roundVars, carryVars, learnerVars, failureVars
<1>6. StepsNamed'
  BY <1>2, <1>4, ZenonT(30) DEF StepsNamed, Active, roundVars, learnerVars
<1>. QED
  BY <1>5, <1>6, Zenon

\* A noticed disconnection keeps the types.
LEMMA HandleDisconnectedType ==
    ASSUME TypeInv, NEW m \in closing, HandleDisconnected(m) PROVE TypeInv'
<1>. USE DEF TypeInv
<1>. DEFINE replacement == <<m[1], current[m[1]]>>
<1>1. m[1] \in Learners
  BY Zenon DEF TypeOK, Members
<1>2. /\ closing' \subseteq closing
      /\ UNCHANGED <<stateVars, roundVars, carryVars, groups, current, hello,
                     learnerVars, pushes, failureVars>>
  BY Zenon DEF HandleDisconnected
<1>3. /\ tails' \in [Learners -> SUBSET {"rejoin", "rebind"}]
      /\ bcasts' \subseteq Bcasts
      /\ \A l \in Learners : tails'[l] # tails[l] => current[l] # 0
  <2>1. CASE UNCHANGED <<tails, bcasts>>
    BY <2>1, Zenon DEF TypeOK
  <2>2. CASE replacement \in groups /\ CatchUp(replacement, "rebind")
    <3>1. replacement \in Members /\ replacement[1] = m[1]
      BY <2>2, Zenon DEF TypeOK
    <3>2. current[m[1]] # 0
      BY <3>1, GenRange, Zenon DEF Members
    <3>. HIDE DEF replacement
    <3>. QED
      BY <1>1, <2>2, <3>1, <3>2, CatchUpType, ZenonT(30)
  <2>. QED
    BY <2>1, <2>2, Zenon DEF HandleDisconnected
<1>4. TypeOK'
  BY <1>2, <1>3, ZenonT(30)
  DEF TypeOK, stateVars, roundVars, carryVars, learnerVars, failureVars
<1>5. StepsNamed'
  BY <1>2, <1>3, Zenon DEF StepsNamed, Active, stateVars, roundVars, learnerVars
<1>. QED
  BY <1>4, <1>5, Zenon

\* A slot that moves goes to another generation of the same learner.
LEMMA ReboundType ==
    ASSUME TypeOK, NEW t \in Steps, NEW m \in Members, Rebindable(t, m)
    PROVE  /\ Rebound(t, m) \in Rounds
           /\ Rebound(t, m).stage = round[t].stage
           /\ Rebound(t, m).attempt = round[t].attempt
           /\ Rebound(t, m).base = round[t].base
           /\ Rebound(t, m).pushes = round[t].pushes
           /\ \E old \in round[t].expected :
                 /\ old[1] = m[1]
                 /\ Rebound(t, m).expected = (round[t].expected \ {old}) \cup {m}
<1>. DEFINE old == CHOOSE n \in round[t].expected : n[1] = m[1] /\ n # m
<1>1. old \in round[t].expected /\ old[1] = m[1]
  BY Zenon DEF Rebindable
<1>2. Rebound(t, m) = [round[t] EXCEPT !.expected = (@ \ {old}) \cup {m}]
  BY Zenon DEF Rebound
<1>3. round[t] \in Rounds
  BY Zenon DEF TypeOK
<1>. HIDE DEF old
<1>. QED
  BY <1>1, <1>2, <1>3 DEF Rounds

\* The end of a catch-up, with its moved slots and repeated PULLs, keeps the
\* types.
LEMMA FinishCatchUpType ==
    ASSUME TypeInv, NEW l \in Learners, FinishCatchUp(l) PROVE TypeInv'
<1>. USE DEF TypeInv
<1>. DEFINE m == <<l, current[l]>>
            moved == {t \in Steps : Rebindable(t, m)}
            again == IF FixedRoster THEN {t \in Steps : Replayed(t, m)} ELSE moved
            resent == {[t |-> t, attempt |-> round[t].attempt] : t \in again}
<1>1. m \in Members
  BY CaughtUpMember, ZenonT(30)
<1>2. again \subseteq Active
  BY Zenon DEF Active, Rebindable, Replayed
<1>3. /\ tails' = [tails EXCEPT ![l] = {}]
      /\ round' = IF FixedRoster THEN round
                  ELSE [t \in Steps |-> IF t \in moved THEN Rebound(t, m) ELSE round[t]]
      /\ pulls' = pulls \/ pulls' = [pulls EXCEPT ![l] = @ \cup resent]
      /\ UNCHANGED <<stateVars, busy, publishing, disk, carryVars, groups, current,
                     closing, hello, gens, online, held, answered, linkVars,
                     failureVars>>
  BY Zenon DEF FinishCatchUp
<1>4. /\ resent \subseteq Pulls
      /\ \A q \in resent : OwnsStep(q.t)
  <2>1. \A t \in again : /\ [t |-> t, attempt |-> round[t].attempt] \in Pulls
                         /\ OwnsStep(t)
    BY <1>2, ConstantTypes DEF Pulls, TypeOK, StepsNamed, Rounds, Active
  <2>. HIDE DEF again
  <2>. QED
    BY <2>1
<1>5. /\ round' \in [Steps -> Rounds]
      /\ \A u \in Steps : /\ round'[u].stage = round[u].stage
                          /\ round'[u].attempt = round[u].attempt
  <2>. HIDE DEF m
  <2>. QED
    BY <1>1, <1>3, ReboundType, ZenonT(30) DEF TypeOK
<1>. HIDE DEF m, moved, again, resent
<1>6. /\ pulls' \in [Learners -> SUBSET Pulls]
      /\ \A k \in Learners : \A q \in pulls'[k] : OwnsStep(q.t)
  <2>1. /\ pulls \in [Learners -> SUBSET Pulls]
        /\ \A k \in Learners : \A q \in pulls[k] : OwnsStep(q.t)
    BY ZenonT(30) DEF TypeOK, StepsNamed
  <2>2. CASE pulls' = pulls
    BY <2>1, <2>2, Zenon
  <2>3. CASE pulls' = [pulls EXCEPT ![l] = @ \cup resent]
    <3>1. \A k \in Learners : pulls'[k] = IF k = l THEN pulls[k] \cup resent
                                                   ELSE pulls[k]
      BY <2>1, <2>3, ZenonT(30)
    <3>. QED
      BY <1>4, <2>1, <2>3, <3>1, ZenonT(30)
  <2>. QED
    BY <1>3, <2>2, <2>3, ZenonT(30)
<1>7. TypeOK'
  BY <1>3, <1>5, <1>6, ZenonT(30)
  DEF TypeOK, stateVars, carryVars, linkVars, failureVars
<1>8. \A u \in Active' : u \in Active /\ round'[u].attempt = round[u].attempt
  BY <1>5, Zenon DEF Active
<1>9. StepsNamed'
  BY <1>3, <1>6, <1>8, ZenonT(30) DEF StepsNamed, stateVars, TypeOK
<1>. QED
  BY <1>7, <1>9, Zenon

\* A new connection keeps the types.
LEMMA ConnectType ==
    ASSUME TypeInv, NEW l \in Learners, Connect(l) PROVE TypeInv'
<1>. USE DEF TypeInv
<1>. DEFINE g == gens[l] + 1
<1>1. g \in 1 .. MaxGen /\ <<l, g>> \in Members
  BY ConstantTypes DEF Connect, TypeOK, Members
<1>2. /\ gens' = [gens EXCEPT ![l] = g]
      /\ online' = [online EXCEPT ![l] = g]
      /\ groups' = groups \cup {<<l, g>>}
      /\ current' = [current EXCEPT ![l] = g]
      /\ hello' = hello \cup {<<l, g>>}
      /\ tails' = [tails EXCEPT ![l] = {}]
      /\ UNCHANGED <<stateVars, roundVars, carryVars, closing, held, pulls,
                     answered, linkVars, failureVars>>
  BY Zenon DEF Connect
<1>. HIDE DEF g
<1>3. /\ gens' \in [Learners -> 0 .. MaxGen]
      /\ online' \in [Learners -> 0 .. MaxGen]
      /\ current' \in [Learners -> 0 .. MaxGen]
      /\ tails' \in [Learners -> SUBSET {"rejoin", "rebind"}]
      /\ groups' \subseteq Members /\ hello' \subseteq Members
  <2>1. g \in 0 .. MaxGen
    BY <1>1, GenRange, Zenon
  <2>. QED
    BY <1>1, <1>2, <2>1, ZenonT(30) DEF TypeOK
<1>5. TypeOK'
  BY <1>2, <1>3, ZenonT(30)
  DEF TypeOK, stateVars, roundVars, carryVars, linkVars, failureVars
<1>4. StepsNamed'
  BY <1>1, <1>2, ZenonT(30) DEF StepsNamed, Active, stateVars, roundVars, TypeOK
<1>. QED
  BY <1>4, <1>5, Zenon

\* What a broken connection leaves a learner is part of what it had.
LEMMA AfterBreakType ==
    ASSUME TypeInv, NEW lost, NEW kept, AfterBreak(lost, kept)
    PROVE  /\ held' \in [Learners -> [Owned -> Versions \cup {None}]]
           /\ pulls' \in [Learners -> SUBSET Pulls]
           /\ answered' \in [Learners -> SUBSET Pulls]
           /\ \A l \in Learners : pulls'[l] \subseteq pulls[l]
BY ZenonT(30) DEF AfterBreak, TypeInv, TypeOK

\* A broken connection keeps the types.
LEMMA BreakType ==
    ASSUME TypeInv, NEW l \in Learners, Break(l) PROVE TypeInv'
<1>. USE DEF TypeInv
<1>1. PICK kept : AfterBreak({l}, kept)
  BY Zenon DEF Break
<1>2. /\ breaks' = breaks + 1 /\ breaks < MaxBreaks
      /\ online' = [online EXCEPT ![l] = 0]
      /\ pushes' \subseteq pushes
      /\ bcasts' \subseteq bcasts
      /\ UNCHANGED <<stateVars, roundVars, carryVars, registryVars, gens, crashes>>
  BY ZenonT(30) DEF Break
<1>3. breaks' \in 0 .. MaxBreaks /\ online' \in [Learners -> 0 .. MaxGen]
  BY <1>2, ConstantTypes, FragmentRoundsAssumption DEF TypeOK
<1>4. TypeOK'
  BY <1>1, <1>2, <1>3, AfterBreakType, ZenonT(30)
  DEF TypeOK, stateVars, roundVars, carryVars, registryVars
<1>5. StepsNamed'
  BY <1>1, <1>2, AfterBreakType, ZenonT(30)
  DEF StepsNamed, Active, stateVars, roundVars, registryVars
<1>. QED
  BY <1>4, <1>5, ZenonT(30)

\* Removing a closed connection from the registry keeps the types.
LEMMA UnregisterType ==
    ASSUME TypeInv, NEW m \in groups, Unregister(m) PROVE TypeInv'
<1>. USE DEF TypeInv
<1>1. m \in Members /\ m[1] \in Learners
  BY ZenonT(30) DEF TypeOK, Members
<1>2. /\ groups' \subseteq groups
      /\ closing' = closing \cup {m}
      /\ current' = IF IsCurrent(m) THEN [current EXCEPT ![m[1]] = 0] ELSE current
      /\ tails' = IF IsCurrent(m) THEN [tails EXCEPT ![m[1]] = {}] ELSE tails
      /\ UNCHANGED <<stateVars, roundVars, carryVars, hello, learnerVars, linkVars,
                     failureVars>>
  BY DEF Unregister
<1>3. TypeOK'
  <2>1. /\ current \in [Learners -> 0 .. MaxGen]
        /\ tails \in [Learners -> SUBSET {"rejoin", "rebind"}]
    BY ZenonT(30) DEF TypeOK
  <2>2. /\ current' \in [Learners -> 0 .. MaxGen]
        /\ tails' \in [Learners -> SUBSET {"rejoin", "rebind"}]
    BY <1>1, <1>2, <2>1, GenRange, ZenonT(30)
  <2>. QED
    BY <1>1, <1>2, <2>2, ZenonT(30)
    DEF TypeOK, stateVars, roundVars, carryVars, learnerVars, linkVars, failureVars
<1>4. StepsNamed'
  BY <1>1, <1>2, ZenonT(30)
  DEF StepsNamed, Active, stateVars, roundVars, learnerVars, TypeOK
<1>. QED
  BY <1>3, <1>4, Zenon

\* A delivered BCAST keeps the types: what the learner holds is a version.
LEMMA DeliverType ==
    ASSUME TypeInv, NEW b \in bcasts, Deliver(b) PROVE TypeInv'
<1>. USE DEF TypeInv
<1>. DEFINE l == b.m[1]
            new == [held[l] EXCEPT ![b.p] = IF @ < b.v THEN b.v ELSE @]
<1>1. l \in Learners /\ b.p \in Owned /\ b.v \in Versions
  BY ZenonT(30) DEF TypeOK, Bcasts, Members
<1>2. new \in [Owned -> Versions \cup {None}]
  BY <1>1 DEF TypeOK
<1>3. held' = [held EXCEPT ![l] = new]
  BY <1>1, ZenonT(30) DEF Deliver, TypeOK
<1>4. /\ bcasts' \subseteq bcasts
      /\ UNCHANGED <<stateVars, roundVars, carryVars, registryVars, gens, online,
                     pulls, answered, pushes, failureVars>>
  BY ZenonT(30) DEF Deliver
<1>. HIDE DEF l, new
<1>5. TypeOK'
  BY <1>1, <1>2, <1>3, <1>4, ZenonT(30)
  DEF TypeOK, stateVars, roundVars, carryVars, registryVars, failureVars
<1>6. StepsNamed'
  BY <1>4, Zenon DEF StepsNamed, Active, stateVars, roundVars, registryVars
<1>. QED
  BY <1>5, <1>6, Zenon

\* A learner's PUSH is well typed: it answers a PULL with a version it holds.
LEMMA AnswerType ==
    ASSUME TypeInv, NEW l \in Learners, NEW pull \in pulls[l], Answer(l, pull)
    PROVE  TypeInv'
<1>. USE DEF TypeInv
<1>. DEFINE p == FragmentForStep(pull.t)
            x == [m |-> <<l, online[l]>>, t |-> pull.t, attempt |-> pull.attempt,
                  base |-> held[l][p]]
<1>1. pull \in Pulls /\ p \in Owned
  BY ZenonT(30) DEF TypeOK, StepsNamed, OwnsStep
<1>2. held[l][p] \in Versions /\ online[l] \in 1 .. MaxGen
  <2>1. held[l][p] # None /\ online[l] # 0
    BY Zenon DEF Answer, Ready
  <2>. HIDE DEF p
  <2>2. held[l] \in [Owned -> Versions \cup {None}] /\ online[l] \in 0 .. MaxGen
    BY Zenon DEF TypeOK
  <2>3. held[l][p] \in Versions \cup {None}
    BY <1>1, <2>2, ZenonT(30)
  <2>. QED
    BY <2>1, <2>2, <2>3, GenRange, Zenon
<1>3. x \in Pushes
  <2>. HIDE DEF p
  <2>. QED
    BY <1>1, <1>2, ZenonT(30) DEF Pushes, Pulls, Members
<1>4. /\ pulls' = [pulls EXCEPT ![l] = @ \ {pull}]
      /\ pushes' \subseteq pushes \cup {x}
      /\ \/ answered' = answered
         \/ answered' = [answered EXCEPT ![l] = @ \cup {pull}]
      /\ UNCHANGED <<stateVars, roundVars, carryVars, registryVars, gens, online,
                     held, bcasts, failureVars>>
  BY ZenonT(30) DEF Answer
<1>. HIDE DEF p, x
<1>5. /\ pulls' \in [Learners -> SUBSET Pulls]
      /\ answered' \in [Learners -> SUBSET Pulls]
      /\ pushes' \subseteq Pushes
      /\ \A k \in Learners : pulls'[k] \subseteq pulls[k]
  <2>1. /\ pulls \in [Learners -> SUBSET Pulls]
        /\ answered \in [Learners -> SUBSET Pulls]
        /\ pushes \subseteq Pushes
    BY ZenonT(30) DEF TypeOK
  <2>2. pushes' \subseteq Pushes
    BY <1>3, <1>4, <2>1, Zenon
  <2>3. answered' \in [Learners -> SUBSET Pulls]
    BY <1>1, <1>4, <2>1, ZenonT(30)
  <2>. QED
    BY <1>4, <2>1, <2>2, <2>3, ZenonT(30)
<1>6. TypeOK'
  BY <1>4, <1>5, ZenonT(30)
  DEF TypeOK, stateVars, roundVars, carryVars, registryVars, failureVars
<1>7. StepsNamed'
  BY <1>4, <1>5, ZenonT(30)
  DEF StepsNamed, Active, stateVars, roundVars, registryVars
<1>. QED
  BY <1>6, <1>7, Zenon

\* A crash of the syncer keeps the types: memory is reset, the disk is kept.
LEMMA CrashType == TypeInv /\ Crash => TypeInv'
<1>. SUFFICES ASSUME TypeInv, Crash PROVE TypeInv'
  BY Zenon
<1>. USE DEF TypeInv
<1>1. /\ StepAfter(0) \in Nat
      /\ OwnsStep(StepAfter(0))
  BY StepAfterOwns, Zenon
<1>3. /\ ZeroVersions \in [Owned -> Versions]
      /\ NoAnchors \in [Members -> [Owned -> Versions \cup {None}]]
  BY ConstantTypes, Zenon DEF ZeroVersions, NoAnchors
<1>4. PICK kept : AfterBreak(Learners, kept)
  BY Zenon DEF Crash
<1>5. crashes' \in 0 .. MaxCrashes
  <2>1. crashes \in 0 .. MaxCrashes /\ crashes < MaxCrashes /\ crashes' = crashes + 1
    BY ZenonT(30) DEF Crash, TypeOK
  <2>. QED
    BY <2>1, FragmentRoundsAssumption
<1>6. /\ phase' = "hello" /\ globalStep' = 0 /\ versions' = ZeroVersions
      /\ nextT' = StepAfter(0) /\ nextCommitT' = StepAfter(0)
      /\ round' = [t \in Steps |-> Idle] /\ busy' = {} /\ publishing' = None
      /\ queued' = {} /\ counted' = {} /\ anchors' = NoAnchors
      /\ gathered' = NoAnchors /\ groups' = {} /\ closing' = {} /\ hello' = {}
      /\ current' = [l \in Learners |-> 0] /\ tails' = [l \in Learners |-> {}]
      /\ online' = [l \in Learners |-> 0] /\ pushes' = {} /\ bcasts' = {}
      /\ UNCHANGED <<disk, gens, breaks>>
  BY Zenon DEF Crash
<1>7. TypeOK'
  <2>1. /\ round' \in [Steps -> Rounds]
        /\ current' \in [Learners -> 0 .. MaxGen]
        /\ online' \in [Learners -> 0 .. MaxGen]
        /\ tails' \in [Learners -> SUBSET {"rejoin", "rebind"}]
    BY <1>6, IdleType, GenRange, ZenonT(30)
  <2>2. /\ held' \in [Learners -> [Owned -> Versions \cup {None}]]
        /\ pulls' \in [Learners -> SUBSET Pulls]
        /\ answered' \in [Learners -> SUBSET Pulls]
    BY <1>4, AfterBreakType, ZenonT(30)
  <2>3. 0 \in Versions
    BY ConstantTypes, Zenon
  <2>. QED
    BY <1>1, <1>3, <1>5, <1>6, <2>1, <2>2, <2>3, ZenonT(30) DEF TypeOK
<1>8. Active' = {}
  BY <1>6, IdleType, ZenonT(30) DEF Active
<1>9. StepsNamed'
  BY <1>1, <1>4, <1>6, <1>8, AfterBreakType, ZenonT(30) DEF StepsNamed
<1>. QED
  BY <1>7, <1>9, Zenon

\* A step that changes nothing keeps the types.
LEMMA StutterType == TypeInv /\ UNCHANGED vars => TypeInv'
BY ZenonT(30)
DEF TypeInv, TypeOK, StepsNamed, Active, vars, stateVars, roundVars, carryVars,
       registryVars, learnerVars, linkVars, failureVars

\* Every step keeps the types.
LEMMA TypeStep == TypeInv /\ [Next]_vars => TypeInv'
<1>. SUFFICES ASSUME TypeInv, [Next]_vars PROVE TypeInv'
  BY Zenon
<1>1. CASE Scheduler
  <2>1. CASE Start \/ Launch \/ SettlePublish \/ Finish
    BY <2>1, StartType, LaunchType, SettlePublishType, FinishType, ZenonT(30)
  <2>2. ASSUME NEW t \in Steps, Gathered(t) \/ Computed(t) \/ Commit(t)
        PROVE  TypeInv'
    BY <2>2, GatheredType, ComputedType, CommitType, Zenon
  <2>3. ASSUME NEW t \in Steps, RepullRoster(t) \/ Restart(t) PROVE TypeInv'
    BY <2>3, RepullType, RestartType, Zenon
  <2>4. ASSUME NEW x \in pushes, HandlePush(x) PROVE TypeInv'
    BY <2>4, HandlePushType, Zenon
  <2>5. ASSUME NEW m \in hello, HandleHello(m) PROVE TypeInv'
    BY <2>5, HandleHelloType, Zenon
  <2>6. ASSUME NEW m \in closing, HandleDisconnected(m) PROVE TypeInv'
    BY <2>6, HandleDisconnectedType, Zenon
  <2>7. ASSUME NEW l \in Learners, FinishCatchUp(l) PROVE TypeInv'
    BY <2>7, FinishCatchUpType, Zenon
  <2>. QED
    BY <1>1, <2>1, <2>2, <2>3, <2>4, <2>5, <2>6, <2>7, ZenonT(30) DEF Scheduler
<1>2. CASE Learner
  BY <1>2, ConnectType, DeliverType, AnswerType, ZenonT(30) DEF Learner
<1>3. CASE \E m \in groups : Unregister(m)
  BY <1>3, UnregisterType, Zenon
<1>4. CASE Failure
  BY <1>4, BreakType, CrashType, Zenon DEF Failure
<1>5. CASE UNCHANGED vars
  BY <1>5, StutterType, Zenon
<1>. QED
  BY <1>1, <1>2, <1>3, <1>4, <1>5, ZenonT(30) DEF Next, Done, AttemptsBound

\* The types hold in every behaviour of the scheduler, the registry and the
\* learners: no step is ever launched, pulled or broadcast for a fragment that
\* another shard owns.
THEOREM TypeAlways == Safety => []TypeInv
BY InitType, TypeStep, PTL DEF Safety

\* Every variable of the protocol keeps its type.
THEOREM TypeCorrect == Safety => []TypeOK
<1>1. TypeInv => TypeOK
  BY Zenon DEF TypeInv
<1>. QED
  BY <1>1, TypeAlways, PTL


(***************************************************************************)
(* Rounds own their fragments.  CommitsFit is not inductive: that a commit *)
(* leaves the other rounds' bases alone needs that no two rounds, and no   *)
(* round and pending publication, share a fragment, and that the commit    *)
(* cursor follows global_step.                                             *)
(***************************************************************************)

Owning ==
    /\ nextCommitT = StepAfter(globalStep)
    /\ \A t \in Active :
          round[t].base = versions[FragmentForStep(t)] /\ FragmentForStep(t) \in busy
    /\ \A t, u \in Active : FragmentForStep(t) = FragmentForStep(u) => t = u
    /\ publishing # None =>
          /\ FragmentForStep(publishing) \in busy
          /\ \A t \in Active : FragmentForStep(t) # FragmentForStep(publishing)

Quiet == Active = {} /\ busy = {} /\ publishing = None

RoundInv ==
    /\ phase \in {"hello", "init"} => Quiet
    /\ phase = "train" => Owning

\* A step that starts no round, keeps the bases and leaves the scheduler's
\* cursors alone.
LEMMA QuietStep ==
    ASSUME RoundInv,
           phase' = phase \/ phase' = "failed" \/ phase' = "final",
           UNCHANGED <<globalStep, versions, nextCommitT, busy, publishing>>,
           Active' \subseteq Active,
           \A u \in Active' : round'[u].base = round[u].base
    PROVE  RoundInv'
BY ZenonT(30) DEF RoundInv, Owning, Quiet

\* Launch gives the new round a fragment no other round holds.
LEMMA LaunchRounds == TypeInv /\ RoundInv /\ Launch => RoundInv'
<1>. SUFFICES ASSUME TypeInv, RoundInv, Launch PROVE RoundInv'
  BY Zenon
<1>. DEFINE t == nextT
            p == FragmentForStep(t)
<1>1. /\ phase = "train" /\ phase' = "train"
      /\ t \in Steps
      /\ p \notin busy
      /\ busy' = busy \cup {p}
      /\ UNCHANGED <<globalStep, versions, nextCommitT, publishing>>
  BY LaunchesOwnStep, ZenonT(30) DEF Launch, Launchable
<1>2. /\ round'[t].base = versions[p]
      /\ \A u \in Steps : u # t => round'[u] = round[u]
  BY <1>1, ZenonT(30) DEF Launch, TypeInv, TypeOK
<1>3. Active' \subseteq Active \cup {t}
  BY <1>2, Zenon DEF Active
<1>4. Owning
  BY <1>1, Zenon DEF RoundInv
<1>. HIDE DEF t
<1>5. Owning'
  BY <1>1, <1>2, <1>3, <1>4, ZenonT(30) DEF Owning, Active
<1>. QED
  BY <1>1, <1>5, ZenonT(30) DEF RoundInv

\* A commit frees its round's fragment and moves no other round's base.
LEMMA CommitRounds ==
    ASSUME TypeInv, RoundInv, NEW t \in Steps, Commit(t)
    PROVE  RoundInv'
<1>. DEFINE p == FragmentForStep(t)
<1>1. t \in Active /\ phase = "train" /\ publishing = None /\ t = nextCommitT
  BY ZenonT(30) DEF Commit, CommitsNext, Active
<1>2. Owning
  BY <1>1, Zenon DEF RoundInv
<1>3. CASE ~CommitFits(t)
  BY <1>3, ZenonT(30) DEF Commit, RoundInv
<1>4. CASE CommitFits(t)
  <2>1. /\ phase' = "train"
        /\ globalStep' = t
        /\ nextCommitT' = StepAfter(t)
        /\ versions' = [versions EXCEPT ![p] = t]
        /\ round' = [round EXCEPT ![t] = Idle]
        /\ \/ publishing' = t /\ busy' = busy
           \/ publishing' = None /\ busy' = busy \ {p}
    BY <1>1, <1>4, ZenonT(30) DEF Commit, Apply
  <2>2. Active' = Active \ {t} /\ \A u \in Active' : round'[u] = round[u]
    BY <2>1, IdleType, ZenonT(30) DEF Active, TypeInv, TypeOK
  <2>3. \A u \in Active' :
           /\ FragmentForStep(u) # p
           /\ FragmentForStep(u) \in Owned
           /\ versions'[FragmentForStep(u)] = versions[FragmentForStep(u)]
    BY <1>1, <1>2, <2>1, <2>2 DEF Owning, TypeInv, TypeOK, StepsNamed, OwnsStep
  <2>4. p \in busy
    BY <1>1, <1>2, ZenonT(30) DEF Owning
  <2>. HIDE DEF p
  <2>5. Owning'
    BY <1>2, <2>1, <2>2, <2>3, <2>4, ZenonT(30) DEF Owning, p
  <2>. QED
    BY <2>1, <2>5, ZenonT(30) DEF RoundInv
<1>. QED
  BY <1>3, <1>4, Zenon

\* A restarted round takes the fragment's current version as its base.
LEMMA RestartRounds ==
    ASSUME TypeInv, RoundInv, NEW t \in Steps, Restart(t)
    PROVE  RoundInv'
<1>1. /\ t \in Active /\ phase = "train"
      /\ round' = [round EXCEPT ![t] = NewAttempt(t)]
      /\ UNCHANGED <<stateVars, busy, publishing>>
  BY ZenonT(30) DEF Restart, TimedOut, Active
<1>2. /\ NewAttempt(t).base = versions[FragmentForStep(t)]
      /\ NewAttempt(t).stage = round[t].stage
  <2>1. round[t] \in Rounds
    BY ZenonT(30) DEF TypeInv, TypeOK
  <2>. QED
    BY <2>1, ZenonT(30) DEF NewAttempt, Rounds
<1>3. /\ Active' = Active
      /\ \A u \in Active : u # t => round'[u] = round[u]
      /\ round'[t].base = versions[FragmentForStep(t)]
  BY <1>1, <1>2, ZenonT(30) DEF Active, TypeInv, TypeOK
<1>4. Owning
  BY <1>1, ZenonT(30) DEF RoundInv
<1>5. Owning'
  BY <1>1, <1>3, <1>4, ZenonT(30) DEF Owning, stateVars
<1>. QED
  BY <1>1, <1>5, ZenonT(30) DEF RoundInv, stateVars

\* The stages of a round and the publication.
LEMMA StageRounds ==
    ASSUME TypeInv, RoundInv, NEW t \in Steps, Gathered(t) \/ Computed(t)
    PROVE  RoundInv'
<1>1. round[t] \in Rounds /\ round[t].stage # "idle"
  BY ZenonT(30) DEF Gathered, Computed, TypeInv, TypeOK
<1>2. PICK stage \in {"compute", "ready"} :
         round' = [round EXCEPT ![t].stage = stage] \/ round' = round
  BY ZenonT(30) DEF Gathered, Computed
<1>3. [round[t] EXCEPT !.stage = stage].base = round[t].base
  BY <1>1, ZenonT(30) DEF Rounds
<1>4. \A u \in Steps : round'[u].base = round[u].base
  BY <1>2, <1>3, ZenonT(30) DEF TypeInv, TypeOK
<1>5. Active' \subseteq Active
  BY <1>1, <1>2, ZenonT(30) DEF Active, TypeInv, TypeOK
<1>6. /\ phase' = phase \/ phase' = "failed"
      /\ UNCHANGED <<globalStep, versions, nextCommitT, busy, publishing>>
  BY ZenonT(30) DEF Gathered, Computed
<1>7. \A u \in Active' : round'[u].base = round[u].base
  BY <1>4, <1>5, ZenonT(30) DEF Active
<1>. QED
  BY <1>5, <1>6, <1>7, QuietStep, ZenonT(30)

\* A settled publication frees its fragment.
LEMMA SettlePublishRounds == TypeInv /\ RoundInv /\ SettlePublish => RoundInv'
<1>. SUFFICES ASSUME TypeInv, RoundInv, SettlePublish PROVE RoundInv'
  BY ZenonT(30)
<1>1. /\ phase = "train" /\ phase' \in {"train", "failed"}
      /\ publishing # None /\ publishing' = None
      /\ busy' = busy \ {FragmentForStep(publishing)}
      /\ UNCHANGED <<globalStep, versions, nextCommitT, round>>
  BY Zenon DEF SettlePublish
<1>2. Owning
  BY <1>1, ZenonT(30) DEF RoundInv
<1>3. Active' = Active
  BY <1>1, ZenonT(30) DEF Active
<1>4. Owning'
  BY <1>1, <1>2, <1>3, ZenonT(30) DEF Owning
<1>. QED
  BY <1>1, <1>4, ZenonT(30) DEF RoundInv

\* A PUSH changes no round's base and no ownership.
LEMMA PushRounds ==
    ASSUME TypeInv, RoundInv, NEW x \in pushes, HandlePush(x)
    PROVE  RoundInv'
<1>1. /\ Active' \subseteq Active
      /\ \A u \in Active' : round'[u].base = round[u].base
  BY PushKeepsRounds, ZenonT(30) DEF Active, TypeInv
<1>2. /\ phase' = phase \/ phase' = "failed"
      /\ UNCHANGED <<globalStep, versions, nextCommitT, busy, publishing>>
  BY ZenonT(30) DEF HandlePush, Gather, Attach, Queue, Reject
<1>. QED
  BY <1>1, <1>2, QuietStep, ZenonT(30)

\* Moving slots to a reconnected learner changes no round's base.
LEMMA CatchUpRounds ==
    ASSUME TypeInv, RoundInv, NEW l \in Learners, FinishCatchUp(l)
    PROVE  RoundInv'
<1>. DEFINE m == <<l, current[l]>>
<1>1. m \in Members
  BY CaughtUpMember, ZenonT(30)
<1>2. /\ \/ round' = round
         \/ round' = [t \in Steps |-> IF t \in {u \in Steps : Rebindable(u, m)}
                                      THEN Rebound(t, m) ELSE round[t]]
      /\ UNCHANGED <<stateVars, busy, publishing>>
  BY ZenonT(30) DEF FinishCatchUp
<1>. HIDE DEF m
<1>3. \A t \in Steps : /\ round'[t].stage = round[t].stage
                       /\ round'[t].base = round[t].base
  BY <1>1, <1>2, ReboundType DEF TypeInv
<1>4. /\ Active' \subseteq Active
      /\ \A u \in Active' : round'[u].base = round[u].base
  BY <1>3, ZenonT(30) DEF Active
<1>5. phase' = phase /\ UNCHANGED <<globalStep, versions, nextCommitT, busy, publishing>>
  BY <1>2, Zenon DEF stateVars
<1>. QED
  BY <1>4, <1>5, QuietStep, ZenonT(30)

\* Every other step leaves the rounds alone, or starts from none.
LEMMA OtherRounds ==
    ASSUME TypeInv, RoundInv,
           \/ Start \/ Finish \/ Crash \/ UNCHANGED vars
           \/ \E t \in Steps : RepullRoster(t)
           \/ \E m \in hello : HandleHello(m)
           \/ \E m \in closing : HandleDisconnected(m)
           \/ \E l \in Learners : Connect(l) \/ Break(l)
           \/ \E m \in groups : Unregister(m)
           \/ \E b \in bcasts : Deliver(b)
           \/ \E l \in Learners : \E pull \in pulls[l] : Answer(l, pull)
    PROVE  RoundInv'
<1>1. CASE UNCHANGED <<stateVars, roundVars>>
  BY <1>1, ZenonT(30) DEF RoundInv, Owning, Quiet, Active, stateVars, roundVars
<1>2. CASE Start
  BY <1>2, ZenonT(30) DEF Start, RoundInv, Owning, Quiet, Active
<1>3. CASE Finish
  BY <1>3, ZenonT(30) DEF Finish, RoundInv
<1>4. CASE Crash
  <2>1. /\ phase' = "hello" /\ busy' = {} /\ publishing' = None
        /\ round' = [t \in Steps |-> Idle]
    BY <1>4, ZenonT(30) DEF Crash
  <2>2. Active' = {}
    BY <2>1, IdleType, ZenonT(30) DEF Active
  <2>. QED
    BY <2>1, <2>2, ZenonT(30) DEF RoundInv, Quiet
<1>5. CASE \E m \in hello : HandleHello(m)
  <2>1. CASE phase = "hello" /\ phase' = "init" /\ UNCHANGED roundVars
    BY <2>1, Zenon DEF RoundInv, Quiet, Active, roundVars
  <2>2. CASE UNCHANGED <<phase, globalStep, versions, nextT, nextCommitT, roundVars>>
    BY <1>1, <2>2, ZenonT(30) DEF stateVars
  <2>. QED
    BY <1>5, <2>1, <2>2, ZenonT(30) DEF HandleHello
<1>6. CASE UNCHANGED vars
  BY <1>1, <1>6, ZenonT(30) DEF vars
<1>7. CASE \E t \in Steps : RepullRoster(t)
  BY <1>1, <1>7, ZenonT(30) DEF RepullRoster
<1>8. CASE \E m \in closing : HandleDisconnected(m)
  BY <1>1, <1>8, ZenonT(30) DEF HandleDisconnected
<1>9. CASE \E l \in Learners : Connect(l) \/ Break(l)
  BY <1>1, <1>9, ZenonT(30) DEF Connect, Break
<1>10. CASE \E m \in groups : Unregister(m)
  BY <1>1, <1>10, ZenonT(30) DEF Unregister
<1>11. CASE \E b \in bcasts : Deliver(b)
  BY <1>1, <1>11, ZenonT(30) DEF Deliver
<1>12. CASE \E l \in Learners : \E pull \in pulls[l] : Answer(l, pull)
  BY <1>1, <1>12, ZenonT(30) DEF Answer
<1>. QED
  BY <1>2, <1>3, <1>4, <1>5, <1>6, <1>7, <1>8, <1>9, <1>10, <1>11, <1>12, ZenonT(30)

\* Every step keeps the ownership of fragments.
LEMMA RoundStep == TypeInv /\ RoundInv /\ [Next]_vars => RoundInv'
<1>. SUFFICES ASSUME TypeInv, RoundInv, [Next]_vars PROVE RoundInv'
  BY Zenon
<1>1. CASE Scheduler
  <2>1. CASE Start \/ Finish \/ (\E t \in Steps : RepullRoster(t))
               \/ (\E m \in hello : HandleHello(m))
               \/ (\E m \in closing : HandleDisconnected(m))
    BY <2>1, OtherRounds, ZenonT(30)
  <2>2. CASE Launch \/ SettlePublish
    BY <2>2, LaunchRounds, SettlePublishRounds, ZenonT(30)
  <2>3. ASSUME NEW t \in Steps, Gathered(t) \/ Computed(t) \/ Commit(t) \/ Restart(t)
        PROVE  RoundInv'
    BY <2>3, StageRounds, CommitRounds, RestartRounds, ZenonT(30)
  <2>4. ASSUME NEW x \in pushes, HandlePush(x) PROVE RoundInv'
    BY <2>4, PushRounds, Zenon
  <2>5. ASSUME NEW l \in Learners, FinishCatchUp(l) PROVE RoundInv'
    BY <2>5, CatchUpRounds, Zenon
  <2>. QED
    BY <1>1, <2>1, <2>2, <2>3, <2>4, <2>5, ZenonT(30) DEF Scheduler
<1>2. CASE Learner \/ Failure \/ (\E m \in groups : Unregister(m)) \/ UNCHANGED vars
  BY <1>2, OtherRounds, ZenonT(30) DEF Learner, Failure
<1>. QED
  BY <1>1, <1>2, Zenon DEF Next, Done, AttemptsBound

\* At the start no round is in flight and no fragment is held.
LEMMA RoundInit == Init => RoundInv
BY IdleType DEF Init, RoundInv, Quiet, Active

\* Each round works on the current version of a fragment nobody else uses.
THEOREM RoundsOwnFragments == Safety => []RoundInv
BY RoundInit, RoundStep, TypeAlways, PTL DEF Safety

\* However many rounds overlap, and whoever fails meanwhile, the round whose
\* turn it is passes every check of apply_round_commit.
THEOREM CommitsAlwaysFit == Safety => []CommitsFit
<1>1. TypeInv /\ RoundInv => CommitsFit
  BY Zenon DEF RoundInv, Owning, CommitsFit, CommitsNext, CommitFits
<1>. QED
  BY <1>1, TypeAlways, RoundsOwnFragments, PTL

(***************************************************************************)
(* Votes.  That a push is single per learner follows, without a fixed      *)
(* roster, from the sender being the learner's one captured member; moving *)
(* a slot must therefore never strand an accepted push.                    *)
(***************************************************************************)

OneSlot(t) == \A m, n \in round[t].expected : m[1] = n[1] => m = n

OwnAnswers(t) ==
    \A x \in round[t].pushes : x.t = t /\ x.attempt = round[t].attempt

SingleVotes(t) ==
    IF FixedRoster
    THEN \A x, y \in round[t].pushes : x.m[1] = y.m[1] => x = y
    ELSE /\ \A x \in round[t].pushes : x.m \in round[t].expected
         /\ \A x, y \in round[t].pushes : x.m = y.m => x = y

VoteInv == \A t \in Active : OneSlot(t) /\ OwnAnswers(t) /\ SingleVotes(t)

\* The registry has one current member per learner.
LEMMA CurrentIsSingle ==
    ASSUME TypeOK
    PROVE  \A m, n \in CurrentGroups : m[1] = n[1] => m = n
<1>1. \A m \in groups : m = <<m[1], m[2]>>
  BY DEF TypeOK, Members
<1>. QED
  BY <1>1, Zenon DEF CurrentGroups, IsCurrent

\* A round that keeps its members, pushes and attempt keeps its votes.
LEMMA SameVote ==
    ASSUME VoteInv, NEW t \in Active,
           round'[t].expected = round[t].expected,
           round'[t].pushes = round[t].pushes,
           round'[t].attempt = round[t].attempt
    PROVE  (OneSlot(t) /\ OwnAnswers(t) /\ SingleVotes(t))'
<1>1. OneSlot(t) /\ OwnAnswers(t) /\ SingleVotes(t)
  BY Zenon DEF VoteInv
<1>2. OneSlot(t)'
  BY <1>1, Zenon DEF OneSlot
<1>3. OwnAnswers(t)'
  BY <1>1, Zenon DEF OwnAnswers
<1>4. SingleVotes(t)'
  BY <1>1, Zenon DEF SingleVotes
<1>. QED
  BY <1>2, <1>3, <1>4, Zenon

\* Rounds that keep their members, pushes and attempt keep their votes.
LEMMA SameVotes ==
    ASSUME VoteInv, Active' \subseteq Active,
           \A t \in Active' : /\ round'[t].expected = round[t].expected
                              /\ round'[t].pushes = round[t].pushes
                              /\ round'[t].attempt = round[t].attempt
    PROVE  VoteInv'
<1>. SUFFICES ASSUME NEW t \in Active'
              PROVE  (OneSlot(t) /\ OwnAnswers(t) /\ SingleVotes(t))'
  BY Zenon DEF VoteInv
<1>. QED
  BY SameVote, ZenonT(30)

\* A round that begins an attempt has a slot per captured member and no push.
LEMMA FreshVotes ==
    ASSUME VoteInv, NEW t \in Steps, NEW r,
           r.pushes = {}, \A m, n \in r.expected : m[1] = n[1] => m = n,
           TypeOK, round' = [round EXCEPT ![t] = r]
    PROVE  VoteInv'
<1>1. round'[t] = r /\ \A u \in Steps : u # t => round'[u] = round[u]
  BY Zenon DEF TypeOK
<1>. SUFFICES ASSUME NEW u \in Active'
              PROVE  (OneSlot(u) /\ OwnAnswers(u) /\ SingleVotes(u))'
  BY Zenon DEF VoteInv
<1>2. CASE u = t
  BY <1>1, <1>2, ZenonT(30) DEF OneSlot, OwnAnswers, SingleVotes
<1>3. CASE u # t
  <2>1. u \in Active /\ round'[u] = round[u]
    BY <1>1, <1>3, Zenon DEF Active
  <2>. QED
    BY <2>1, SameVote, Zenon
<1>. QED
  BY <1>2, <1>3, Zenon

\* A new round has no votes and one slot per learner.
LEMMA LaunchVotes == TypeInv /\ VoteInv /\ Launch => VoteInv'
<1>. SUFFICES ASSUME TypeInv, VoteInv, Launch PROVE VoteInv'
  BY Zenon
<1>1. nextT \in Steps
  BY LaunchesOwnStep, ZenonT(30)
<1>. DEFINE expected == {m \in CurrentGroups : ~Holds(m)}
            p == FragmentForStep(nextT)
            exact == ExactFold(expected)
            late == {x \in queued : FragmentForStep(x.t) = p}
            r == [stage |-> "gather", base |-> versions[p], attempt |-> 1,
                  expected |-> expected, pushes |-> {}, exact |-> exact,
                  carried |-> {x \in late : Attachable(x, versions[p], exact)}]
<1>2. /\ round' = [round EXCEPT ![nextT] = r]
      /\ r.pushes = {}
      /\ r.expected = expected
  BY ZenonT(30) DEF Launch
<1>3. \A m, n \in expected : m[1] = n[1] => m = n
  BY CurrentIsSingle, Zenon DEF TypeInv
<1>. HIDE DEF expected, r
<1>. QED
  BY <1>1, <1>2, <1>3, FreshVotes, ZenonT(30) DEF TypeInv

\* A restarted round has no votes and one slot per learner.
LEMMA RestartVotes ==
    ASSUME TypeInv, VoteInv, NEW t \in Steps, Restart(t)
    PROVE  VoteInv'
<1>1. round[t] \in Rounds
  BY ZenonT(30) DEF TypeInv, TypeOK
<1>2. NewAttempt(t).pushes = {} /\ NewAttempt(t).expected = CurrentGroups
  BY <1>1, Zenon DEF NewAttempt, Rounds
<1>3. round' = [round EXCEPT ![t] = NewAttempt(t)]
  BY Zenon DEF Restart
<1>. QED
  BY <1>2, <1>3, CurrentIsSingle, FreshVotes, ZenonT(30) DEF TypeInv

\* route_push accepts one answer per learner.
LEMMA GatherVotes ==
    ASSUME TypeInv, VoteInv, NEW x \in Pushes, Gather(x)
    PROVE  VoteInv'
<1>. DEFINE t == x.t
            r == [round[t] EXCEPT !.pushes = @ \cup {x}]
<1>1. t \in Steps /\ round[t] \in Rounds
  BY ZenonT(30) DEF TypeInv, TypeOK, Pushes
<1>2. /\ r.pushes = round[t].pushes \cup {x} /\ r.expected = round[t].expected
      /\ r.attempt = round[t].attempt /\ r.stage = round[t].stage
  BY <1>1, Zenon DEF Rounds
<1>3. round' = [round EXCEPT ![t] = r]
  BY Zenon DEF Gather
<1>. HIDE DEF r
<1>4. round'[t] = r /\ \A u \in Steps : u # t => round'[u] = round[u]
  BY <1>1, <1>3, ZenonT(30) DEF TypeInv, TypeOK
<1>5. /\ t \in Active
      /\ x.attempt = round[t].attempt
      /\ Expected(x) /\ ~Duplicate(x)
  BY <1>1, ZenonT(30) DEF Gather, Accepts, Open, Active
<1>6. OneSlot(t) /\ OwnAnswers(t) /\ SingleVotes(t)
  BY <1>5, ZenonT(30) DEF VoteInv
<1>7. OneSlot(t)'
  BY <1>2, <1>4, <1>6, ZenonT(30) DEF OneSlot
<1>8. OwnAnswers(t)'
  BY <1>2, <1>4, <1>5, <1>6, ZenonT(30) DEF OwnAnswers
<1>9. SingleVotes(t)'
  <2>1. CASE FixedRoster
    BY <1>2, <1>4, <1>5, <1>6, <2>1 DEF SingleVotes, Duplicate, AnsweredBy
  <2>2. CASE ~FixedRoster
    BY <1>2, <1>4, <1>5, <1>6, <2>2, ZenonT(30)
    DEF SingleVotes, Duplicate, Expected
  <2>. QED
    BY <2>1, <2>2, Zenon
<1>. HIDE DEF t
<1>10. ASSUME NEW u \in Active', u # t
       PROVE  (OneSlot(u) /\ OwnAnswers(u) /\ SingleVotes(u))'
  <2>1. u \in Active /\ round'[u] = round[u]
    BY <1>4, <1>10, ZenonT(30) DEF Active
  <2>. QED
    BY <2>1, SameVote, Zenon
<1>. QED
  BY <1>7, <1>8, <1>9, <1>10, ZenonT(30) DEF VoteInv

\* A push that is carried, queued or rejected is no vote.
LEMMA PushVotes ==
    ASSUME TypeInv, VoteInv, NEW x \in pushes, HandlePush(x)
    PROVE  VoteInv'
<1>0. x \in Pushes
  BY ZenonT(30) DEF TypeInv, TypeOK
<1>1. CASE Gather(x)
  BY <1>0, <1>1, GatherVotes, ZenonT(30)
<1>2. CASE Attach(x)
  <2>1. PICK t \in LaterRounds(x) : round' = [round EXCEPT ![t].carried = @ \cup {x}]
    BY <1>2, ZenonT(30) DEF Attach
  <2>2. t \in Steps /\ round[t] \in Rounds
    BY ZenonT(30) DEF LaterRounds, Inflight, TypeInv, TypeOK
  <2>3. [round[t] EXCEPT !.carried = @ \cup {x}].pushes = round[t].pushes
    BY <2>2, ZenonT(30) DEF Rounds
  <2>4. \A u \in Steps : round'[u].pushes = round[u].pushes
    BY <2>1, <2>2, <2>3, ZenonT(30) DEF TypeInv, TypeOK
  <2>5. /\ Active' \subseteq Active
        /\ \A u \in Active' : /\ round'[u].expected = round[u].expected
                              /\ round'[u].pushes = round[u].pushes
                              /\ round'[u].attempt = round[u].attempt
    BY <2>4, PushKeepsRounds, ZenonT(30) DEF Active, TypeInv
  <2>. QED
    BY <2>5, SameVotes, ZenonT(30)
<1>3. CASE UNCHANGED round
  BY <1>3, SameVotes, ZenonT(30) DEF Active
<1>. QED
  BY <1>1, <1>2, <1>3, ZenonT(30) DEF HandlePush, Queue, Reject

\* A slot moves only while its learner has not answered.
LEMMA CatchUpVotes ==
    ASSUME TypeInv, VoteInv, NEW l \in Learners, FinishCatchUp(l)
    PROVE  VoteInv'
<1>. DEFINE m == <<l, current[l]>>
<1>1. m \in Members
  BY CaughtUpMember, ZenonT(30)
<1>2. \/ FixedRoster /\ round' = round
      \/ /\ ~FixedRoster
         /\ round' = [t \in Steps |-> IF t \in {u \in Steps : Rebindable(u, m)}
                                      THEN Rebound(t, m) ELSE round[t]]
  BY ZenonT(30) DEF FinishCatchUp
<1>. HIDE DEF m
<1>3. CASE FixedRoster /\ round' = round
  BY <1>3, SameVotes, ZenonT(30) DEF Active
<1>4. CASE /\ ~FixedRoster
           /\ round' = [t \in Steps |-> IF t \in {u \in Steps : Rebindable(u, m)}
                                        THEN Rebound(t, m) ELSE round[t]]
  <2>. SUFFICES ASSUME NEW t \in Active'
                PROVE  (OneSlot(t) /\ OwnAnswers(t) /\ SingleVotes(t))'
    BY Zenon DEF VoteInv
  <2>0. t \in Steps
    BY Zenon DEF Active
  <2>1. CASE ~Rebindable(t, m)
    <3>1. t \in Active /\ round'[t] = round[t]
      BY <1>4, <2>0, <2>1, ZenonT(30) DEF Active
    <3>. QED
      BY <3>1, SameVote, Zenon
  <2>2. CASE Rebindable(t, m)
    <3>1. round'[t] = Rebound(t, m)
      BY <1>4, <2>0, <2>2, ZenonT(30)
    <3>2. PICK old \in round[t].expected :
             /\ old[1] = m[1]
             /\ round'[t].expected = (round[t].expected \ {old}) \cup {m}
      BY <1>1, <2>0, <2>2, <3>1, ReboundType DEF TypeInv
    <3>3. /\ round'[t].attempt = round[t].attempt
          /\ round'[t].pushes = round[t].pushes
      BY <1>1, <2>0, <2>2, <3>1, ReboundType, ZenonT(30) DEF TypeInv
    <3>4. OneSlot(t) /\ OwnAnswers(t) /\ SingleVotes(t)
      BY <2>0, <2>2, ZenonT(30) DEF VoteInv, Active, Rebindable
    <3>5. \A x \in round[t].pushes : x.m[1] # m[1]
      BY <2>2, ZenonT(30) DEF Rebindable, AnsweredBy
    <3>6. OneSlot(t)'
      BY <3>2, <3>4, ZenonT(30) DEF OneSlot
    <3>7. OwnAnswers(t)'
      BY <3>3, <3>4, ZenonT(30) DEF OwnAnswers
    <3>8. SingleVotes(t)'
      BY <1>4, <3>2, <3>3, <3>4, <3>5, ZenonT(30) DEF SingleVotes
    <3>. QED
      BY <3>6, <3>7, <3>8, ZenonT(30)
  <2>. QED
    BY <2>1, <2>2, Zenon
<1>. QED
  BY <1>2, <1>3, <1>4, Zenon

\* Commits and stages change no vote of a round that stays.
LEMMA StageVotes ==
    ASSUME TypeInv, VoteInv, NEW t \in Steps, Gathered(t) \/ Computed(t) \/ Commit(t)
    PROVE  VoteInv'
<1>1. round[t] \in Rounds /\ round[t].stage # "idle"
  BY ZenonT(30) DEF Gathered, Computed, Commit, CommitsNext, TypeInv, TypeOK
<1>2. CASE round' = round
  BY <1>2, SameVotes, Zenon DEF Active
<1>3. CASE round' = [round EXCEPT ![t] = Idle]
  <2>1. Active' \subseteq Active /\ \A u \in Active' : round'[u] = round[u]
    BY <1>3, IdleType, ZenonT(30) DEF Active, TypeInv, TypeOK
  <2>. QED
    BY <2>1, SameVotes, Zenon
<1>4. ASSUME NEW stage \in {"compute", "ready"},
             round' = [round EXCEPT ![t].stage = stage]
      PROVE  VoteInv'
  <2>. DEFINE r == [round[t] EXCEPT !.stage = stage]
  <2>1. /\ r.expected = round[t].expected /\ r.pushes = round[t].pushes
        /\ r.attempt = round[t].attempt
    BY <1>1, ZenonT(30) DEF Rounds
  <2>2. round' = [round EXCEPT ![t] = r]
    BY <1>4, Zenon
  <2>. HIDE DEF r
  <2>3. \A u \in Steps : /\ round'[u].expected = round[u].expected
                         /\ round'[u].pushes = round[u].pushes
                         /\ round'[u].attempt = round[u].attempt
    BY <2>1, <2>2, ZenonT(30) DEF TypeInv, TypeOK
  <2>4. Active' \subseteq Active
    BY <1>1, <2>2, ZenonT(30) DEF Active, TypeInv, TypeOK
  <2>5. \A u \in Active' : u \in Steps
    BY Zenon DEF Active
  <2>. QED
    BY <2>3, <2>4, <2>5, SameVotes, ZenonT(30)
<1>5. \/ round' = round \/ round' = [round EXCEPT ![t] = Idle]
      \/ \E stage \in {"compute", "ready"} : round' = [round EXCEPT ![t].stage = stage]
  BY ZenonT(30) DEF Gathered, Computed, Commit, Apply, roundVars
<1>. QED
  BY <1>2, <1>3, <1>4, <1>5, ZenonT(30)

\* Every step keeps votes single and of their round's attempt.
LEMMA VoteStep == TypeInv /\ VoteInv /\ [Next]_vars => VoteInv'
<1>. SUFFICES ASSUME TypeInv, VoteInv, [Next]_vars PROVE VoteInv'
  BY Zenon
<1>1. CASE UNCHANGED round
  BY <1>1, SameVotes, ZenonT(30) DEF Active
<1>2. CASE Crash
  <2>1. Active' = {}
    BY <1>2, IdleType, Zenon DEF Crash, Active
  <2>. QED
    BY <2>1, ZenonT(30) DEF VoteInv
<1>3. CASE Scheduler
  <2>1. CASE Start \/ SettlePublish \/ Finish
               \/ (\E t \in Steps : RepullRoster(t))
               \/ (\E m \in hello : HandleHello(m))
               \/ (\E m \in closing : HandleDisconnected(m))
    BY <1>1, <2>1, ZenonT(30)
    DEF Start, SettlePublish, Finish, RepullRoster, HandleHello,
                      HandleDisconnected, roundVars
  <2>2. CASE Launch
    BY <2>2, LaunchVotes, Zenon
  <2>3. ASSUME NEW t \in Steps, Gathered(t) \/ Computed(t) \/ Commit(t) \/ Restart(t)
        PROVE  VoteInv'
    BY <2>3, StageVotes, RestartVotes, Zenon
  <2>4. ASSUME NEW x \in pushes, HandlePush(x) PROVE VoteInv'
    BY <2>4, PushVotes, Zenon
  <2>5. ASSUME NEW l \in Learners, FinishCatchUp(l) PROVE VoteInv'
    BY <2>5, CatchUpVotes, Zenon
  <2>. QED
    BY <1>3, <2>1, <2>2, <2>3, <2>4, <2>5, ZenonT(30) DEF Scheduler
<1>4. CASE Learner \/ (\E l \in Learners : Break(l)) \/ (\E m \in groups : Unregister(m))
  BY <1>1, <1>4, ZenonT(30)
  DEF Learner, Connect, Deliver, Answer, Break, Unregister, roundVars
<1>5. CASE UNCHANGED vars
  BY <1>1, <1>5, Zenon DEF vars, roundVars
<1>. QED
  BY <1>2, <1>3, <1>4, <1>5, ZenonT(30) DEF Next, Failure, Done, AttemptsBound

\* Votes are single, and answers belong to their round, in every behaviour.
THEOREM VotesAlways == Safety => []VoteInv
<1>1. Init => VoteInv
  BY IdleType, Zenon DEF Init, VoteInv, Active
<1>. QED
  BY <1>1, VoteStep, TypeAlways, PTL DEF Safety

\* A logical learner never has two slots or two accepted pushes in a round,
\* whatever generations it goes through.
THEOREM OneVoteAlways == Safety => []OneVotePerLearner
<1>1. VoteInv => OneVotePerLearner
  BY ZenonT(30) DEF VoteInv, OneSlot, SingleVotes, OneVotePerLearner
<1>. QED
  BY <1>1, VotesAlways, PTL

\* A delayed answer to a discarded attempt never enters a later attempt.
THEOREM AttemptsAlwaysIsolated == Safety => []AttemptIsolation
<1>1. VoteInv => AttemptIsolation
  BY Zenon DEF VoteInv, OwnAnswers, AttemptIsolation
<1>. QED
  BY <1>1, VotesAlways, PTL

----------------------------------------------------------------------------

(***************************************************************************)
(* The committed cut.  A resume takes the versions from the checkpoint, so *)
(* the checkpoint must hold a cut too.                                     *)
(***************************************************************************)

CutInv ==
    /\ CommittedCut
    /\ disk.step # None =>
          \A p \in Owned : disk.versions[p] = ExpectedVersion(p, disk.step)

\* Before the first step every fragment has version zero.
LEMMA ZeroCut == \A p \in Owned : ZeroVersions[p] = ExpectedVersion(p, 0)
BY ScheduleAssumption DEF ZeroVersions, ExpectedVersion, Owned

\* Merging the shard's next step into its fragment makes the next cut.
LEMMA NextCut ==
    ASSUME TypeOK, CommittedCut, NEW t, t = StepAfter(globalStep),
           NEW v, v = [versions EXCEPT ![FragmentForStep(t)] = t]
    PROVE  \A p \in Owned : v[p] = ExpectedVersion(p, t)
<1>1. globalStep \in Nat
  BY ConstantTypes, ZenonT(30) DEF TypeOK
<1>2. t \in Nat \ {0}
  BY <1>1, StepAfterGrows
<1>. SUFFICES ASSUME NEW p \in Owned PROVE v[p] = ExpectedVersion(p, t)
  BY ZenonT(30)
<1>3. CASE FragmentForStep(t) = p
  BY <1>2, <1>3, ExpectedAtStep, ZenonT(30) DEF TypeOK
<1>4. CASE FragmentForStep(t) # p
  BY <1>1, <1>4, ExpectedOfOthers, ZenonT(30) DEF TypeOK, CommittedCut
<1>. QED
  BY <1>3, <1>4, ZenonT(30)

SameState ==
    /\ UNCHANGED <<globalStep, versions, disk>>
    /\ phase' = "hello" <=> phase = "hello"

\* The checkpoint is left alone, or is the current state; the state is left
\* alone, advanced by a commit, reset by a crash or read by a resume.
LEMMA StateChanges ==
    ASSUME TypeInv, [Next]_vars
    PROVE  \/ SameState
           \/ /\ UNCHANGED <<globalStep, versions>>
              /\ disk' = Snapshot(globalStep, versions)
              /\ phase \in {"init", "train"} /\ phase' # "hello"
           \/ /\ \E t \in Steps :
                    /\ t = StepAfter(globalStep)
                    /\ globalStep' = t
                    /\ versions' = [versions EXCEPT ![FragmentForStep(t)] = t]
                    /\ disk' \in {disk, Snapshot(t, versions')}
              /\ phase \in {"init", "train"} /\ phase' # "hello"
           \/ Crash
           \/ /\ globalStep' = IF disk.step = None THEN 0 ELSE disk.step
              /\ versions' = IF disk.step = None THEN ZeroVersions ELSE disk.versions
              /\ disk' = disk
              /\ phase = "hello" /\ phase' = "init"
<1>1. CASE Start \/ SettlePublish \/ Finish
  BY <1>1, ZenonT(30) DEF SameState, Start, SettlePublish, Finish
<1>2. CASE \E t \in Steps : Commit(t)
  BY <1>2, ZenonT(30) DEF SameState, Commit, CommitFits, Apply, roundVars
<1>3. CASE \E m \in hello : HandleHello(m)
  BY <1>3, ZenonT(30) DEF SameState, HandleHello, roundVars
<1>4. CASE Launch
  BY <1>4, ZenonT(30) DEF Launch, SameState
<1>5. ASSUME NEW t \in Steps, Gathered(t) \/ Computed(t)
      PROVE  SameState
  BY <1>5, ZenonT(30) DEF Gathered, Computed, SameState
<1>6. ASSUME NEW t \in Steps, RepullRoster(t) \/ Restart(t)
      PROVE  SameState
  BY <1>6, ZenonT(30) DEF RepullRoster, Restart, SameState, stateVars, roundVars
<1>7. ASSUME NEW x \in pushes, HandlePush(x)
      PROVE  SameState
  BY <1>7, ZenonT(30) DEF HandlePush, Gather, Attach, Queue, Reject, SameState
<1>8. ASSUME NEW m \in closing, HandleDisconnected(m)
      PROVE  SameState
  BY <1>8, ZenonT(30) DEF SameState, HandleDisconnected, stateVars, roundVars
<1>9. ASSUME NEW l \in Learners, FinishCatchUp(l) \/ Connect(l) \/ Break(l)
       PROVE  SameState
  BY <1>9, ZenonT(30)
  DEF SameState, FinishCatchUp, Connect, Break, stateVars, roundVars
<1>10. ASSUME NEW b \in bcasts, Deliver(b)
       PROVE  SameState
  BY <1>10, ZenonT(30) DEF SameState, Deliver, stateVars, roundVars
<1>11. ASSUME NEW l \in Learners, NEW pull \in pulls[l], Answer(l, pull)
       PROVE  SameState
  BY <1>11, ZenonT(30) DEF SameState, Answer, stateVars, roundVars
<1>12. ASSUME NEW m \in groups, Unregister(m)
       PROVE  SameState
  BY <1>12, ZenonT(30) DEF SameState, Unregister, stateVars, roundVars
<1>13. CASE UNCHANGED vars
  BY <1>13, ZenonT(30) DEF SameState, vars, stateVars, roundVars
<1>. QED
  BY Zenon, <1>1, <1>2, <1>3, <1>4, <1>5, <1>6, <1>7, <1>8, <1>9, <1>10, <1>11,
     <1>12, <1>13, ZenonT(30)
  DEF Next, Scheduler, Learner, Failure, Done, AttemptsBound

\* Every step keeps the committed versions, and those on disk, a cut.
LEMMA CutStep == TypeInv /\ CutInv /\ [Next]_vars => CutInv'
<1>. SUFFICES ASSUME TypeInv, CutInv, [Next]_vars PROVE CutInv'
  BY Zenon
<1>1. CASE SameState
  BY <1>1, ZenonT(30) DEF SameState, CutInv, CommittedCut
<1>2. CASE UNCHANGED <<globalStep, versions>> /\ disk' = Snapshot(globalStep, versions)
  BY <1>2, ZenonT(30) DEF CutInv, CommittedCut, Snapshot
<1>3. ASSUME NEW t \in Steps, t = StepAfter(globalStep), globalStep' = t,
             versions' = [versions EXCEPT ![FragmentForStep(t)] = t],
             disk' \in {disk, Snapshot(t, versions')}
      PROVE  CutInv'
  <2>1. \A p \in Owned : versions'[p] = ExpectedVersion(p, t)
    BY <1>3, NextCut, ZenonT(30) DEF CutInv, TypeInv
  <2>2. CommittedCut'
    BY <1>3, <2>1, ZenonT(30) DEF CommittedCut
  <2>3. CASE disk' = disk
    BY <2>2, <2>3, ZenonT(30) DEF CutInv
  <2>4. CASE disk' = Snapshot(t, versions')
    <3>1. disk'.step = t /\ disk'.versions = versions'
      BY <2>4, ZenonT(30) DEF Snapshot
    <3>. QED
      BY <2>1, <2>2, <3>1, ZenonT(30) DEF CutInv
  <2>. QED
    BY <1>3, <2>3, <2>4, ZenonT(30)
<1>4. CASE Crash
  BY <1>4, ZeroCut, ZenonT(30) DEF CutInv, CommittedCut, Crash
<1>5. CASE /\ globalStep' = IF disk.step = None THEN 0 ELSE disk.step
           /\ versions' = IF disk.step = None THEN ZeroVersions ELSE disk.versions
           /\ disk' = disk
  BY <1>5, ZeroCut, ZenonT(30) DEF CutInv, CommittedCut
<1>. QED
  BY <1>1, <1>2, <1>3, <1>4, <1>5, StateChanges, ZenonT(30)

\* However rounds overlap and finish, and wherever a resume started from, the
\* versions are the round-robin cut at global_step.
THEOREM AlwaysCommittedCut == Safety => []CommittedCut
<1>1. Init => CutInv
  BY ZeroCut DEF Init, CutInv, CommittedCut, Snapshot
<1>2. CutInv => CommittedCut
  BY Zenon DEF CutInv
<1>. QED
  BY <1>1, <1>2, CutStep, TypeAlways, PTL DEF Safety

(***************************************************************************)
(* The pipelined scheduler implements the sequential loop.                 *)
(***************************************************************************)

\* The initial state is one of the sequential loop.
LEMMA SequentialInit == Init => Sequential!Init
BY ZenonT(30) DEF Init, ZeroVersions, Snapshot, None, Owned,
       Sequential!Init, Sequential!Zero, Sequential!Saved, Sequential!None,
       Sequential!Owned

\* Every step is a step of the sequential loop or leaves its state alone.
LEMMA SequentialStep ==
    TypeInv /\ [Next]_vars => [Sequential!Next]_(Sequential!vars)
<1>. SUFFICES ASSUME TypeInv, [Next]_vars
              PROVE  Sequential!Next \/ UNCHANGED Sequential!vars
  BY Zenon
<1>1. CASE SameState
  BY <1>1, Zenon DEF SameState, Sequential!vars
<1>2. CASE /\ UNCHANGED <<globalStep, versions>>
           /\ disk' = Snapshot(globalStep, versions)
           /\ phase # "hello" /\ phase' # "hello"
  BY <1>2, Zenon DEF Snapshot, Sequential!Next, Sequential!Save, Sequential!Saved
<1>3. ASSUME NEW t \in Steps, t = StepAfter(globalStep), globalStep' = t,
             versions' = [versions EXCEPT ![FragmentForStep(t)] = t],
             disk' \in {disk, Snapshot(t, versions')},
             phase # "hello", phase' # "hello"
      PROVE  Sequential!Next
  <2>1. t = Sequential!StepAfter(globalStep)
    BY <1>3, ZenonT(30) DEF StepAfter, Sequential!StepAfter
  <2>2. FragmentForStep(t) = Sequential!FragmentForStep(t)
    BY Zenon DEF FragmentForStep, Sequential!FragmentForStep
  <2>3. LastStep = Sequential!LastStepOf(TotalSteps)
    BY Zenon DEF LastStep, LastStepOf, Sequential!LastStepOf
  <2>4. t <= LastStep
    BY ConstantTypes DEF Steps
  <2>5. Sequential!Merge
    BY <1>3, <2>1, <2>2, <2>3, <2>4, ZenonT(30)
    DEF Snapshot, Sequential!Merge, Sequential!Saved
  <2>. QED
    BY <2>5, Zenon DEF Sequential!Next
<1>4. CASE Crash
  BY <1>4, ZenonT(30)
  DEF Crash, ZeroVersions, None, Owned, Sequential!Next, Sequential!Crash,
              Sequential!Zero, Sequential!None, Sequential!Owned
<1>5. CASE /\ globalStep' = IF disk.step = None THEN 0 ELSE disk.step
           /\ versions' = IF disk.step = None THEN ZeroVersions ELSE disk.versions
           /\ disk' = disk
           /\ phase = "hello" /\ phase' = "init"
  BY <1>5, Zenon DEF ZeroVersions, None, Owned, Sequential!Next, Sequential!Resume,
              Sequential!Zero, Sequential!None, Sequential!Owned
<1>. QED
  BY <1>1, <1>2, <1>3, <1>4, <1>5, StateChanges, ZenonT(30)

\* Overlapping, retried, asynchronously published rounds cannot be told from
\* merging one step after another: every behaviour of the scheduler is one of
\* the sequential loop with its checkpoint, crashes and resumes.
THEOREM RefinesSequential == Safety => ImplementsSequential
BY SequentialInit, SequentialStep, TypeAlways, PTL
DEF Safety, ImplementsSequential, Sequential!Spec

(***************************************************************************)
(* Durability with a checkpoint per round.  What a learner sees comes from *)
(* the state, so the invariant relates the checkpoint to the state in each *)
(* phase, a publication in progress being the only time they differ.       *)
(***************************************************************************)

OnDisk ==
    /\ phase = "init" /\ disk.step # None => disk.versions = versions
    /\ phase = "train" =>
          /\ disk.step # None
          /\ publishing = None => disk.versions = versions
          /\ publishing # None => publishing = globalStep
          /\ \A p \in Owned : disk.versions[p] <= versions[p]

\* Version v of fragment p is in the checkpoint file, or a later one is.
Durable(p, v) == disk.step # None /\ v <= disk.versions[p]

Visible ==
    /\ \A l \in Learners : \A p \in Owned :
          held[l][p] # None => Durable(p, held[l][p])
    /\ \A b \in bcasts : Durable(b.p, b.v)

\* A commit raises its fragment's version.
LEMMA CommitRaises ==
    ASSUME TypeInv, CutInv, NEW t \in Steps, t = StepAfter(globalStep)
    PROVE  \A p \in Owned : versions[p] <= [versions EXCEPT ![FragmentForStep(t)] = t][p]
<1>1. globalStep \in Nat
  BY ConstantTypes, ZenonT(30) DEF TypeInv, TypeOK
<1>2. t \in Nat /\ t > globalStep
  BY <1>1, StepAfterGrows, ZenonT(30)
<1>. SUFFICES ASSUME NEW p \in Owned
              PROVE  versions[p] <= [versions EXCEPT ![FragmentForStep(t)] = t][p]
  BY Zenon
<1>3. p \in Nat /\ versions[p] \in Nat
  BY ConstantTypes, ZenonT(30) DEF TypeInv, TypeOK
<1>4. versions[p] <= globalStep
  BY <1>1, <1>3, ExpectedVersionBound, ZenonT(30) DEF CutInv, CommittedCut
<1>5. versions \in [Owned -> Versions]
  BY ZenonT(30) DEF TypeInv, TypeOK
<1>. QED
  BY <1>1, <1>2, <1>3, <1>4, <1>5

\* A step that leaves state, publication and checkpoint alone.
LEMMA SameOnDisk ==
    ASSUME OnDisk, UNCHANGED <<globalStep, versions, disk, publishing>>,
           phase' = phase \/ phase' \in {"final", "failed", "hello"}
    PROVE  OnDisk'
BY Zenon DEF OnDisk

\* A commit writes its version to disk, or marks the step as publishing.
LEMMA CommitOnDisk ==
    ASSUME CheckpointEvery = 1, TypeInv, CutInv, OnDisk, NEW t \in Steps, Commit(t)
    PROVE  OnDisk'
<1>1. CASE ~CommitFits(t)
  BY <1>1, SameOnDisk, ZenonT(30) DEF Commit, roundVars
<1>2. CASE CommitFits(t)
  <2>1. /\ t = StepAfter(globalStep)
        /\ phase = "train" /\ phase' = "train" /\ publishing = None
        /\ globalStep' = t
        /\ versions' = [versions EXCEPT ![FragmentForStep(t)] = t]
        /\ \/ publishing' = t /\ disk' = disk
           \/ publishing' = None /\ disk' = Snapshot(t, versions')
    BY <1>2, ZenonT(30) DEF Commit, CommitFits, Apply, PersistBeforeBroadcast
  <2>2. disk.step # None /\ disk.versions = versions
    BY <2>1, ZenonT(30) DEF OnDisk
  <2>3. t # None /\ \A p \in Owned : versions[p] <= versions'[p]
    BY <2>1, CommitRaises, ConstantTypes, AtMost, ZenonT(30)
  <2>4. CASE publishing' = t /\ disk' = disk
    BY <2>1, <2>2, <2>3, <2>4, ZenonT(30) DEF OnDisk
  <2>5. CASE publishing' = None /\ disk' = Snapshot(t, versions')
    <3>1. disk'.step = t /\ disk'.versions = versions'
      BY <2>5, Zenon DEF Snapshot
    <3>2. versions \in [Owned -> Nat] /\ t \in Nat
      BY ConstantTypes, ZenonT(30) DEF TypeInv, TypeOK
    <3>3. \A p \in Owned : versions'[p] <= versions'[p]
      BY <2>1, <3>2
    <3>. QED
      BY <2>1, <2>3, <2>5, <3>1, <3>3, ZenonT(30) DEF OnDisk
  <2>. QED
    BY <2>1, <2>4, <2>5, ZenonT(30)
<1>. QED
  BY <1>1, <1>2, ZenonT(30)

\* A resume, a checkpoint and a crash keep the state on disk.
LEMMA StateOnDisk ==
    ASSUME CheckpointEvery = 1, TypeInv, OnDisk, Quiet \/ phase # "init",
           \/ Start \/ SettlePublish \/ Finish \/ Crash
           \/ \E m \in hello : HandleHello(m)
    PROVE  OnDisk'
<1>0. /\ \A p \in Owned : versions[p] <= versions[p]
      /\ globalStep # None
  <2>1. globalStep \in Nat /\ versions \in [Owned -> Nat]
    BY ConstantTypes, ZenonT(30) DEF TypeInv, TypeOK
  <2>. QED
    BY <2>1, AtMost, Zenon
<1>1. CASE Start
  <2>1. /\ phase = "init" /\ phase' = "train" /\ UNCHANGED <<globalStep, versions>>
        /\ publishing = None /\ publishing' = None
        /\ disk' = IF disk.step = None THEN Snapshot(globalStep, versions) ELSE disk
    BY <1>1, ZenonT(30) DEF Start, Quiet
  <2>2. disk'.step # None /\ disk'.versions = versions
    BY <1>0, <2>1, ZenonT(30) DEF OnDisk, Snapshot
  <2>. QED
    BY <1>0, <2>1, <2>2, ZenonT(30) DEF OnDisk
<1>2. CASE SettlePublish
  <2>1. /\ phase' \in {"train", "failed"} /\ UNCHANGED <<globalStep, versions>>
        /\ publishing' = None
        /\ disk' = Snapshot(globalStep, versions)
    BY <1>2, ZenonT(30) DEF SettlePublish
  <2>2. disk'.step # None /\ disk'.versions = versions
    BY <1>0, <2>1, ZenonT(30) DEF Snapshot
  <2>. QED
    BY <1>0, <2>1, <2>2, ZenonT(30) DEF OnDisk
<1>3. CASE Finish
  BY <1>3, SameOnDisk DEF Finish
<1>4. CASE Crash
  BY <1>4, ZenonT(30) DEF Crash, OnDisk
<1>5. CASE \E m \in hello : HandleHello(m)
  <2>1. CASE /\ phase' = "init" /\ UNCHANGED disk
             /\ versions' = IF disk.step = None THEN ZeroVersions ELSE disk.versions
    BY <2>1, ZenonT(30) DEF OnDisk
  <2>2. CASE UNCHANGED <<phase, globalStep, versions, disk, publishing>>
    BY <2>2, SameOnDisk, ZenonT(30)
  <2>. QED
    BY <1>5, <2>1, <2>2, ZenonT(30) DEF HandleHello, roundVars
<1>. QED
  BY <1>1, <1>2, <1>3, <1>4, <1>5, ZenonT(30)

\* Every step keeps on disk what the state has committed.
LEMMA OnDiskStep ==
    ASSUME CheckpointEvery = 1, TypeInv, RoundInv, CutInv, OnDisk, [Next]_vars
    PROVE  OnDisk'
<1>0. Quiet \/ phase # "init"
  BY Zenon DEF RoundInv
<1>1. CASE \E t \in Steps : Commit(t)
  BY <1>1, CommitOnDisk, ZenonT(30)
<1>2. CASE \/ Start \/ SettlePublish \/ Finish \/ Crash
           \/ \E m \in hello : HandleHello(m)
  BY <1>0, <1>2, StateOnDisk, ZenonT(30)
<1>3. CASE Launch \/ \E t \in Steps : Gathered(t) \/ Computed(t)
  BY <1>3, SameOnDisk, ZenonT(30) DEF Launch, Gathered, Computed
<1>4. CASE \E t \in Steps : RepullRoster(t) \/ Restart(t)
  BY <1>4, SameOnDisk, ZenonT(30)
  DEF RepullRoster, Restart, stateVars, roundVars
<1>5. CASE \E x \in pushes : HandlePush(x)
  BY <1>5, SameOnDisk, ZenonT(30) DEF HandlePush, Gather, Attach, Queue, Reject
<1>6. CASE \/ \E m \in closing : HandleDisconnected(m)
           \/ \E l \in Learners : FinishCatchUp(l)
           \/ \E m \in groups : Unregister(m)
  BY <1>6, SameOnDisk, ZenonT(30)
  DEF HandleDisconnected, FinishCatchUp, Unregister, stateVars,
                          roundVars
<1>7. CASE Learner \/ \E l \in Learners : Break(l)
  BY <1>7, SameOnDisk, ZenonT(30)
  DEF Learner, Connect, Deliver, Answer, Break, stateVars, roundVars
<1>8. CASE UNCHANGED vars
  BY <1>8, SameOnDisk, ZenonT(30) DEF vars, stateVars, roundVars
<1>. QED
  BY <1>1, <1>2, <1>3, <1>4, <1>5, <1>6, <1>7, <1>8, ZenonT(30)
  DEF Next, Scheduler, Failure, Done, AttemptsBound

\* The checkpoint never goes back.
LEMMA DiskGrows ==
    ASSUME CheckpointEvery = 1, TypeInv, TypeInv', CutInv, OnDisk, [Next]_vars,
           NEW p \in Owned, NEW v \in Versions, Durable(p, v)
    PROVE  Durable(p, v)'
<1>0. /\ v \in Nat /\ disk.versions[p] \in Nat /\ versions[p] \in Nat
      /\ disk'.versions[p] \in Nat /\ versions'[p] \in Nat
  BY ConstantTypes, ZenonT(30) DEF TypeInv, TypeOK
<1>1. CASE disk' = disk
  BY <1>1, ZenonT(30) DEF Durable
<1>2. CASE phase \in {"init", "train"} /\ disk' = Snapshot(globalStep, versions)
  <2>1. disk.versions[p] <= versions[p]
    BY <1>0, <1>2, AtMost, ZenonT(30) DEF OnDisk, Durable
  <2>2. disk'.step = globalStep /\ disk'.versions = versions
    BY <1>2, Zenon DEF Snapshot
  <2>3. globalStep # None
    <3>1. globalStep \in Nat
      BY ConstantTypes, ZenonT(30) DEF TypeInv, TypeOK
    <3>. QED
      BY <3>1, AtMost, Zenon
  <2>. QED
    BY <1>0, <2>1, <2>2, <2>3, AtMost, ZenonT(30) DEF Durable
<1>3. ASSUME NEW t \in Steps, t = StepAfter(globalStep),
             versions' = [versions EXCEPT ![FragmentForStep(t)] = t],
             disk' = Snapshot(t, versions'), phase \in {"init", "train"}
      PROVE  Durable(p, v)'
  <2>1. disk.versions[p] <= versions[p]
    BY <1>0, <1>3, AtMost, ZenonT(30) DEF OnDisk, Durable
  <2>2. versions[p] <= versions'[p]
    BY <1>3, CommitRaises, ZenonT(30)
  <2>3. disk'.step = t /\ disk'.versions = versions'
    BY <1>3, ZenonT(30) DEF Snapshot
  <2>4. t # None
    BY ConstantTypes, AtMost, Zenon
  <2>. QED
    <3>1. disk.versions[p] <= versions'[p]
      BY <1>0, <2>1, <2>2, AtMost, Zenon
    <3>. QED
      BY <1>0, <2>3, <2>4, <3>1, AtMost, Zenon DEF Durable
<1>4. Crash => disk' = disk
  BY ZenonT(30) DEF Crash
<1>. QED
  BY <1>1, <1>2, <1>3, <1>4, StateChanges, ZenonT(30) DEF SameState

\* The frames of a state that is on disk.
LEMMA FramesDurable ==
    ASSUME TypeInv, NEW to, disk'.step # None, disk'.versions = versions,
           NEW b \in Frames(to, Owned, versions)
    PROVE  Durable(b.p, b.v)'
<1>1. b.p \in Owned /\ b.v = versions[b.p]
  BY FrameOf
<1>2. versions[b.p] \in Nat
  BY <1>1, ConstantTypes, ZenonT(30) DEF TypeInv, TypeOK
<1>. QED
  BY <1>1, <1>2, AtMost, Zenon DEF Durable

\* A learner holds nothing but what it held or what was in transit to it.
LEMMA HeldDurable ==
    ASSUME CheckpointEvery = 1, TypeInv, TypeInv', CutInv, OnDisk, Visible,
           [Next]_vars, NEW l \in Learners, NEW p \in Owned, held'[l][p] # None
    PROVE  Durable(p, held[l][p])'
<1>1. \/ held'[l][p] = held[l][p]
      \/ \E b \in bcasts : b.p = p /\ b.v = held'[l][p]
  <2>1. CASE held' = held
    BY <2>1, ZenonT(30)
  <2>2. ASSUME NEW b \in bcasts, Deliver(b)
        PROVE  \/ held'[l][p] = held[l][p]
               \/ b.p = p /\ b.v = held'[l][p]
    <3>. DEFINE k == b.m[1]
                new == [held[k] EXCEPT ![b.p] = IF @ < b.v THEN b.v ELSE @]
    <3>1. k \in Learners /\ b.p \in Owned
      BY ZenonT(30) DEF TypeInv, TypeOK, Bcasts, Members
    <3>2. held' = [held EXCEPT ![k] = new]
      BY <2>2, ZenonT(30) DEF Deliver
    <3>3. new[p] = held[k][p] \/ (b.p = p /\ b.v = new[p])
      BY <3>1, ZenonT(30) DEF TypeInv, TypeOK
    <3>. HIDE DEF k, new
    <3>. QED
      BY <3>1, <3>2, <3>3, ZenonT(30) DEF TypeInv, TypeOK
  <2>3. ASSUME NEW lost, NEW kept, AfterBreak(lost, kept)
        PROVE  held'[l][p] = held[l][p]
    BY <2>3, ZenonT(30) DEF AfterBreak
  <2>4. CASE Failure
    BY <2>3, <2>4, ZenonT(30) DEF Failure, Break, Crash
  <2>5. CASE Learner \/ \E m \in groups : Unregister(m)
    BY <2>1, <2>2, <2>5, ZenonT(30)
    DEF Learner, Connect, Answer, Unregister, learnerVars
  <2>6. CASE Scheduler
    <3>1. CASE Start \/ Launch \/ SettlePublish \/ Finish
      BY <2>1, <3>1, ZenonT(30)
      DEF Start, Launch, SettlePublish, Finish, learnerVars
    <3>2. CASE \E t \in Steps : Gathered(t) \/ Computed(t) \/ Commit(t)
      BY <2>1, <3>2, ZenonT(30) DEF Gathered, Computed, Commit, learnerVars
    <3>3. CASE \E t \in Steps : RepullRoster(t) \/ Restart(t)
      BY <2>1, <3>3, ZenonT(30) DEF RepullRoster, Restart
    <3>4. CASE \/ \E x \in pushes : HandlePush(x)
               \/ \E m \in hello : HandleHello(m)
               \/ \E m \in closing : HandleDisconnected(m)
               \/ \E k \in Learners : FinishCatchUp(k)
      BY <2>1, <3>4, ZenonT(30)
      DEF HandlePush, HandleHello, HandleDisconnected, FinishCatchUp,
                        learnerVars
    <3>. QED
      BY <2>6, <3>1, <3>2, <3>3, <3>4, ZenonT(30) DEF Scheduler
  <2>. QED
    BY <2>1, <2>4, <2>5, <2>6, ZenonT(30)
    DEF Next, Done, AttemptsBound, vars, learnerVars
<1>2. PICK v \in Versions : v = held'[l][p]
  <2>1. held' \in [Learners -> [Owned -> Versions \cup {None}]]
    BY ZenonT(30) DEF TypeInv, TypeOK
  <2>. QED
    BY <2>1, ZenonT(30)
<1>3. Durable(p, v)
  BY <1>1, <1>2, ZenonT(30) DEF Visible
<1>4. Durable(p, v)'
  BY <1>3, DiskGrows, ZenonT(30)
<1>. QED
  BY <1>2, <1>4, ZenonT(30) DEF Durable

\* A frame in transit was in transit before, or is of a version on disk.
LEMMA BcastDurable ==
    ASSUME CheckpointEvery = 1, TypeInv, TypeInv', RoundInv, CutInv, OnDisk, OnDisk',
           Visible, [Next]_vars, NEW b \in bcasts'
    PROVE  Durable(b.p, b.v)'
<1>0. b.p \in Owned /\ b.v \in Versions
  BY ZenonT(30) DEF TypeInv, TypeOK, Bcasts
<1>1. CASE b \in bcasts
  BY <1>0, <1>1, DiskGrows, ZenonT(30) DEF Visible
<1>2. ASSUME NEW to, b \in Frames(to, Owned, versions),
             disk'.step # None, disk'.versions = versions
      PROVE  Durable(b.p, b.v)'
  BY <1>2, FramesDurable, ZenonT(30)
<1>3. CASE Start
  <2>1. b \in bcasts \/ b \in Frames(CurrentGroups, Owned, versions)
    BY <1>3, ZenonT(30) DEF Start
  <2>2. disk'.step # None /\ disk'.versions = versions
    BY <1>3, ZenonT(30) DEF Start, OnDisk, RoundInv, Quiet
  <2>. QED
    BY <1>1, <1>2, <2>1, <2>2, ZenonT(30)
<1>4. ASSUME NEW m, NEW tail, CatchUp(m, tail), phase = "train", publishing = None,
             UNCHANGED disk
      PROVE  Durable(b.p, b.v)'
  <2>1. b \in bcasts \/ b \in Frames({m}, Owned, versions)
    BY <1>4, ZenonT(30) DEF CatchUp
  <2>2. disk'.step # None /\ disk'.versions = versions
    BY <1>4, ZenonT(30) DEF OnDisk
  <2>. QED
    BY <1>1, <1>2, <2>1, <2>2, ZenonT(30)
<1>5. CASE \E m \in hello : HandleHello(m)
  BY <1>1, <1>4, <1>5, ZenonT(30) DEF HandleHello, Settled, roundVars
<1>6. CASE \E m \in closing : HandleDisconnected(m)
  BY <1>1, <1>4, <1>6, ZenonT(30) DEF HandleDisconnected, Settled, roundVars
<1>7. ASSUME NEW t \in Steps, b \in Broadcast(FragmentForStep(t), t),
             disk'.step # None, disk'.versions[FragmentForStep(t)] = t
      PROVE  Durable(b.p, b.v)'
  <2>1. b.p = FragmentForStep(t) /\ b.v = t
    BY <1>7, BroadcastOf
  <2>2. t \in Nat
    BY ConstantTypes, ZenonT(30)
  <2>. QED
    BY <1>7, <2>1, <2>2, AtMost, Zenon DEF Durable
<1>8. CASE SettlePublish
  <2>. DEFINE p == FragmentForStep(publishing)
  <2>1. /\ publishing \in Steps /\ publishing = globalStep /\ p \in Owned
    BY <1>8, ZenonT(30)
    DEF SettlePublish, OnDisk, TypeInv, TypeOK, StepsNamed, OwnsStep
  <2>2. versions[p] = publishing
    <3>1. versions[p] = ExpectedVersion(p, publishing)
      BY <2>1, ZenonT(30) DEF CutInv, CommittedCut
    <3>2. publishing \in Nat \ {0}
      BY <2>1, ConstantTypes, ZenonT(30)
    <3>. QED
      BY <3>1, <3>2, ExpectedAtStep, ZenonT(30)
  <2>3. disk'.step # None /\ disk'.versions = versions
    <3>1. disk' = Snapshot(globalStep, versions) /\ globalStep \in Nat
      BY <1>8, ConstantTypes, ZenonT(30) DEF SettlePublish, TypeInv, TypeOK
    <3>. QED
      BY <3>1, AtMost, Zenon DEF Snapshot
  <2>4. b \in bcasts \/ b \in Broadcast(p, publishing)
    BY <1>8, ZenonT(30) DEF SettlePublish
  <2>5. b \in Broadcast(p, publishing) => b.p = p /\ b.v = publishing
    BY BroadcastOf
  <2>6. publishing \in Nat
    BY <2>1, ConstantTypes, ZenonT(30)
  <2>. QED
    BY <1>1, <2>2, <2>3, <2>4, <2>5, <2>6, AtMost, ZenonT(30) DEF Durable
<1>9. ASSUME NEW t \in Steps, Commit(t) PROVE Durable(b.p, b.v)'
  <2>1. CASE bcasts' = bcasts
    BY <1>1, <2>1, ZenonT(30)
  <2>2. CASE /\ bcasts' = bcasts \cup Broadcast(FragmentForStep(t), t)
             /\ versions' = [versions EXCEPT ![FragmentForStep(t)] = t]
             /\ disk' = Snapshot(t, versions')
    <3>1. FragmentForStep(t) \in Owned
      BY <1>9, ZenonT(30)
      DEF Commit, CommitsNext, Active, TypeInv, StepsNamed, OwnsStep
    <3>2. disk'.step = t /\ disk'.versions = versions'
      BY <2>2, ZenonT(30) DEF Snapshot
    <3>3. t # None
      BY ConstantTypes, AtMost, Zenon
    <3>4. versions'[FragmentForStep(t)] = t
      BY <2>2, <3>1, ZenonT(30) DEF TypeInv, TypeOK
    <3>. QED
      BY <1>1, <1>7, <2>2, <3>2, <3>3, <3>4, ZenonT(30)
  <2>. QED
    BY <1>9, <2>1, <2>2, ZenonT(30) DEF Commit, Apply, PersistBeforeBroadcast
<1>10. CASE \/ Launch \/ Finish \/ \E t \in Steps : Gathered(t) \/ Computed(t)
  BY <1>1, <1>10, ZenonT(30) DEF Launch, Finish, Gathered, Computed, linkVars
<1>11. CASE \E t \in Steps : RepullRoster(t) \/ Restart(t)
  BY <1>1, <1>11, ZenonT(30) DEF RepullRoster, Restart, linkVars
<1>12. CASE \/ \E x \in pushes : HandlePush(x)
            \/ \E l \in Learners : FinishCatchUp(l)
            \/ \E m \in groups : Unregister(m)
  BY <1>1, <1>12, ZenonT(30) DEF HandlePush, FinishCatchUp, Unregister, linkVars
<1>13. CASE Learner \/ Failure \/ UNCHANGED vars
  BY <1>1, <1>13, ZenonT(30)
  DEF Learner, Connect, Deliver, Answer, Failure, Break, Crash, vars,
                     linkVars
<1>. QED
  BY <1>3, <1>5, <1>6, <1>8, <1>9, <1>10, <1>11, <1>12, <1>13, ZenonT(30)
  DEF Next, Scheduler, Done, AttemptsBound

DurableInv == CheckpointEvery = 1 => OnDisk /\ Visible

\* Every step keeps what learners hold, and what is in transit, on disk.
LEMMA DurableStep ==
    TypeInv /\ TypeInv' /\ RoundInv /\ CutInv /\ DurableInv /\ [Next]_vars => DurableInv'
<1>. SUFFICES ASSUME TypeInv, TypeInv', RoundInv, CutInv, OnDisk, Visible,
                     CheckpointEvery = 1, [Next]_vars
              PROVE  (OnDisk /\ Visible)'
  BY Zenon DEF DurableInv
<1>1. OnDisk'
  BY OnDiskStep, Zenon
<1>2. \A l \in Learners : \A p \in Owned :
         held'[l][p] # None => Durable(p, held[l][p])'
  BY HeldDurable, ZenonT(30)
<1>3. \A b \in bcasts' : Durable(b.p, b.v)'
  BY <1>1, BcastDurable, ZenonT(30)
<1>4. Visible'
  BY <1>2, <1>3, ZenonT(30) DEF Visible
<1>. QED
  BY <1>1, <1>4, ZenonT(30)

\* With a checkpoint per round, whether it is written before the commit returns
\* or in the background, no learner ever holds or is sent a version that a crash
\* of the syncer could take back.
THEOREM AlwaysDurableBeforeVisible == Safety => []DurableBeforeVisible
<1>1. Init => CutInv /\ DurableInv
  <2>. SUFFICES ASSUME Init PROVE CutInv /\ DurableInv
    BY Zenon
  <2>1. CutInv
    BY ZeroCut, ZenonT(30) DEF Init, CutInv, CommittedCut, Snapshot
  <2>2. OnDisk /\ Visible
    BY ZenonT(30) DEF Init, OnDisk, Visible
  <2>. QED
    BY <2>1, <2>2, ZenonT(30) DEF DurableInv
<1>2. DurableInv => DurableBeforeVisible
  BY Zenon DEF DurableInv, Visible, Durable, DurableBeforeVisible
<1>. QED
  BY <1>1, <1>2, CutStep, DurableStep, TypeAlways, RoundsOwnFragments, PTL
  DEF Safety

=============================================================================
