------------------------- MODULE ShardedHead_proofs -------------------------
(***************************************************************************)
(* The shards of a head (syncer/src/shard.rs), for every layout and every  *)
(* number of shards: their ranges cut the fragments into disjoint parts    *)
(* (RangeCover, RangesOrdered), a shard's schedule runs exactly the steps  *)
(* of its range (Next..., Last...), and so every cut of a shard is the     *)
(* round-robin one and the finished shards together are one unsharded      *)
(* head.                                                                   *)
(***************************************************************************)
EXTENDS ShardedHead, WellFoundedInduction, TLAPS

Mine(i) == RangeStart(i) .. (RangeEnd(i) - 1)

Frag(t) == Whole!FragmentForStep(t)

Ver(p, s) == Whole!ExpectedVersion(p, s)

After(i, s) == Plan(i)!StepAfter(s)

Round(i, t) == Plan(i)!RoundNumber(t)

Last(i) == Plan(i)!LastStepOf(TotalSteps)

----------------------------------------------------------------------------
(* Arithmetic.                                                             *)

\* Division with remainder.
LEMMA Division ==
    ASSUME NEW a \in Nat, NEW b \in Nat \ {0}
    PROVE  /\ a \div b \in Nat
           /\ a % b \in 0 .. (b - 1)
           /\ a = b * (a \div b) + (a % b)
BY SMT

\* A larger factor gives a product larger by at least the other factor.
LEMMA Multiples ==
    ASSUME NEW a \in Int, NEW b \in Int, NEW c \in Nat, a < b
    PROVE  c * a + c <= c * b
<1>1. c * (b - a) >= c
  OBVIOUS
<1>. QED
  BY <1>1

\* The quotient and the remainder are the only ones.
LEMMA DivisionIs ==
    ASSUME NEW b \in Nat \ {0}, NEW k \in Nat, NEW r \in 0 .. (b - 1)
    PROVE  (b * k + r) \div b = k /\ (b * k + r) % b = r
<1>. DEFINE x == b * k + r
            q == x \div b
            m == x % b
<1>1. x \in Nat
  OBVIOUS
<1>2. q \in Nat /\ m \in 0 .. (b - 1) /\ x = b * q + m
  BY <1>1, Division, Zenon
<1>3. b * q + m = b * k + r
  BY <1>2, Zenon
<1>. HIDE DEF q, m
<1>4. b * q \in Nat /\ b * k \in Nat
  BY <1>2
<1>5. ~(q < k)
  <2>1. q < k => b * q + b <= b * k
    BY <1>2, Multiples
  <2>. QED
    BY <1>2, <1>3, <1>4, <2>1
<1>6. ~(k < q)
  <2>1. k < q => b * k + b <= b * q
    BY <1>2, Multiples
  <2>. QED
    BY <1>2, <1>3, <1>4, <2>1
<1>7. q = k
  BY <1>2, <1>5, <1>6
<1>8. m = r
  BY <1>2, <1>3, <1>4, <1>7
<1>. QED
  BY <1>7, <1>8, Zenon DEF q, m

\* Division is monotone.
LEMMA DivisionGrows ==
    ASSUME NEW a \in Nat, NEW b \in Nat, NEW c \in Nat \ {0}, a <= b
    PROVE  a \div c <= b \div c
<1>. DEFINE q == a \div c
            m == a % c
            u == b \div c
            v == b % c
<1>1. q \in Nat /\ m \in 0 .. (c - 1) /\ a = c * q + m
  BY Division, Zenon
<1>2. u \in Nat /\ v \in 0 .. (c - 1) /\ b = c * u + v
  BY Division, Zenon
<1>. HIDE DEF q, m, u, v
<1>3. c * q \in Nat /\ c * u \in Nat
  BY <1>1, <1>2
<1>4. u < q => c * u + c <= c * q
  BY <1>1, <1>2, Multiples
<1>5. q <= u
  BY <1>1, <1>2, <1>3, <1>4
<1>. QED
  BY <1>5, Zenon DEF q, u

\* Adding a divisor to the dividend adds one to the quotient.
LEMMA DivisionStep ==
    ASSUME NEW a \in Nat, NEW c \in Nat \ {0}
    PROVE  (a + c) \div c = a \div c + 1
<1>. DEFINE q == a \div c
            m == a % c
<1>1. q \in Nat /\ m \in 0 .. (c - 1) /\ a = c * q + m
  BY Division, Zenon
<1>. HIDE DEF q, m
<1>2. q + 1 \in Nat /\ a + c = c * (q + 1) + m
  BY <1>1
<1>3. (a + c) \div c = q + 1
  BY <1>1, <1>2, DivisionIs
<1>. QED
  BY <1>3, Zenon DEF q

\* A nonempty set of naturals has a least element.
LEMMA LeastNumber ==
    ASSUME NEW S \in SUBSET Nat, S # {}
    PROVE  \E m \in S : \A n \in S : m <= n
<1>1. PICK m \in S : \A n \in S : ~(<<n, m>> \in OpToRel(<, Nat))
  BY NatLessThanWellFounded, WFMin, Zenon
<1>2. \A n \in S : ~(n < m)
  BY <1>1, Zenon DEF OpToRel
<1>. QED
  BY <1>2

----------------------------------------------------------------------------
(* The ranges (ShardPlan::owned_range).                                    *)

\* Every shard owns at least one fragment, all of them of the layout.
LEMMA RangeInside ==
    ASSUME NEW i \in Shards
    PROVE  /\ RangeStart(i) \in Nat
           /\ RangeEnd(i) \in Nat
           /\ RangeStart(i) < RangeEnd(i)
           /\ RangeEnd(i) <= NumFragments
<1>. DEFINE P == NumFragments
            K == ShardCount
<1>1. P \in Nat \ {0} /\ K \in Nat \ {0} /\ K <= P /\ i \in Nat /\ i + 1 <= K
  BY ShardAssumption DEF Shards
<1>. HIDE DEF P, K
<1>2. i * P \in Nat /\ (i + 1) * P = i * P + P
  BY <1>1
<1>3. (i * P + K) \div K = (i * P) \div K + 1 /\ (i * P) \div K \in Nat
  BY <1>1, <1>2, DivisionStep, Division, Zenon
<1>4. (i * P + K) \div K <= (i * P + P) \div K
  <2>1. i * P + K \in Nat /\ i * P + P \in Nat /\ i * P + K <= i * P + P
    BY <1>1, <1>2
  <2>. QED
    BY <1>1, <2>1, DivisionGrows, Zenon
<1>5. i * P + P <= K * P + 0 /\ K * P \in Nat
  <2>1. CASE i + 1 = K
    BY <1>1, <1>2, <2>1
  <2>2. CASE i + 1 < K
    <3>1. P * (i + 1) + P <= P * K
      BY <1>1, <2>2, Multiples
    <3>. QED
      BY <1>1, <1>2, <3>1
  <2>. QED
    BY <1>1, <2>1, <2>2
<1>6. (K * P + 0) \div K = P
  BY <1>1, DivisionIs
<1>7. (i * P + P) \div K <= P /\ (i * P + P) \div K \in Nat
  <2>1. i * P + P \in Nat /\ K * P + 0 \in Nat
    BY <1>1, <1>2, <1>5
  <2>2. (i * P + P) \div K <= (K * P + 0) \div K
    BY <1>1, <1>5, <2>1, DivisionGrows, Zenon
  <2>3. (i * P + P) \div K \in Nat
    BY <1>1, <2>1, Division, Zenon
  <2>. QED
    BY <1>6, <2>2, <2>3, Zenon
<1>8. RangeStart(i) = (i * P) \div K /\ RangeEnd(i) = (i * P + P) \div K
  BY <1>2, Zenon DEF RangeStart, RangeEnd, P, K
<1>. QED
  BY <1>3, <1>4, <1>7, <1>8 DEF P

\* The ranges follow each other.
LEMMA RangesOrdered ==
    ASSUME NEW i \in Shards, NEW j \in Shards, i < j
    PROVE  RangeEnd(i) <= RangeStart(j)
<1>. DEFINE P == NumFragments
            K == ShardCount
<1>1. P \in Nat \ {0} /\ K \in Nat \ {0} /\ i \in Nat /\ j \in Nat
  BY ShardAssumption DEF Shards
<1>. HIDE DEF P, K
<1>2. P * i + P <= P * j
  BY <1>1, Multiples
<1>3. (i + 1) * P <= j * P /\ (i + 1) * P \in Nat /\ j * P \in Nat
  BY <1>1, <1>2
<1>4. ((i + 1) * P) \div K <= (j * P) \div K
  BY <1>1, <1>3, DivisionGrows, Zenon
<1>. QED
  BY <1>4, Zenon DEF RangeStart, RangeEnd, P, K

\* No fragment belongs to two shards.
LEMMA RangesDisjoint ==
    ASSUME NEW i \in Shards, NEW j \in Shards, NEW p \in Mine(i), p \in Mine(j)
    PROVE  i = j
<1>1. i \in Int /\ j \in Int
  BY ShardAssumption DEF Shards
<1>2. ~(i < j)
  BY RangeInside, RangesOrdered DEF Mine
<1>3. ~(j < i)
  BY RangeInside, RangesOrdered DEF Mine
<1>. QED
  BY <1>1, <1>2, <1>3

\* Every fragment belongs to a shard.
LEMMA RangeCover ==
    ASSUME NEW p \in AllFragments
    PROVE  \E i \in Shards : p \in Mine(i)
<1>. DEFINE S == {i \in Shards : p < RangeEnd(i)}
            P == NumFragments
            K == ShardCount
<1>1. P \in Nat \ {0} /\ K \in Nat \ {0} /\ p \in Nat /\ p < P
  BY ShardAssumption DEF AllFragments
<1>2. K - 1 \in Shards /\ S \in SUBSET Nat
  BY ShardAssumption DEF Shards
<1>3. RangeEnd(K - 1) = P
  <2>. HIDE DEF P, K
  <2>1. (K * P + 0) \div K = P
    BY <1>1, DivisionIs
  <2>2. ((K - 1) + 1) * P = K * P + 0
    BY <1>1
  <2>. QED
    BY <2>1, <2>2, Zenon DEF RangeEnd, P, K
<1>4. K - 1 \in S
  BY <1>1, <1>2, <1>3, Zenon
<1>5. PICK i \in S : \A j \in S : i <= j
  <2>. HIDE DEF S
  <2>. QED
    BY <1>2, <1>4, LeastNumber, Zenon
<1>6. i \in Shards /\ i \in Nat /\ p < RangeEnd(i)
  BY <1>2, <1>5, Zenon
<1>7. RangeStart(i) <= p
  <2>1. CASE i = 0
    <3>1. (K * 0 + 0) \div K = 0
      BY <1>1, DivisionIs
    <3>2. i * P = K * 0 + 0
      BY <1>1, <2>1
    <3>. QED
      BY <1>1, <3>1, <3>2 DEF RangeStart
  <2>2. CASE i > 0
    <3>1. i - 1 \in Shards /\ (i - 1) + 1 = i
      BY <1>6, <2>2, ShardAssumption DEF Shards
    <3>2. i - 1 \notin S
      BY <1>5, <1>6, <3>1
    <3>3. RangeEnd(i - 1) \in Nat /\ RangeEnd(i - 1) <= p
      BY <1>1, <3>1, <3>2, RangeInside
    <3>4. RangeEnd(i - 1) = RangeStart(i)
      BY <3>1, Zenon DEF RangeEnd, RangeStart
    <3>. QED
      BY <3>3, <3>4, Zenon
  <2>. QED
    BY <1>6, <2>1, <2>2
<1>. QED
  BY <1>1, <1>6, <1>7, RangeInside DEF Mine

----------------------------------------------------------------------------
(* Steps, fragments and versions: the same for every shard.                *)

\* A step and its sweep.
LEMMA StepSweep ==
    ASSUME NEW t \in Nat \ {0}
    PROVE  /\ Frag(t) \in AllFragments
           /\ \E k \in Nat : t = NumFragments * k + Frag(t) + 1
<1>1. t - 1 \in Nat /\ NumFragments \in Nat \ {0}
  BY ShardAssumption
<1>. DEFINE k == (t - 1) \div NumFragments
<1>2. Frag(t) = (t - 1) % NumFragments
  BY Zenon DEF Frag, Whole!FragmentForStep
<1>3. /\ k \in Nat
      /\ Frag(t) \in 0 .. (NumFragments - 1)
      /\ t - 1 = NumFragments * k + Frag(t)
  BY <1>1, <1>2, Division, Zenon
<1>. HIDE DEF k
<1>4. t = NumFragments * k + Frag(t) + 1
  BY <1>1, <1>3
<1>. QED
  BY <1>3, <1>4, Zenon DEF AllFragments

\* The step of a fragment in a sweep.
LEMMA SweepStep ==
    ASSUME NEW p \in AllFragments, NEW k \in Nat, NEW u, u = NumFragments * k + p + 1
    PROVE  /\ u \in Nat \ {0}
           /\ Frag(u) = p
           /\ (u - 1) \div NumFragments = k
<1>1. NumFragments \in Nat \ {0} /\ p \in 0 .. (NumFragments - 1)
  BY ShardAssumption, Zenon DEF AllFragments
<1>2. NumFragments * k \in Nat
  BY <1>1
<1>3. u - 1 = NumFragments * k + p /\ u \in Nat \ {0}
  BY <1>1, <1>2
<1>4. /\ (NumFragments * k + p) \div NumFragments = k
      /\ (NumFragments * k + p) % NumFragments = p
  BY <1>1, DivisionIs, Zenon
<1>5. (u - 1) \div NumFragments = k /\ (u - 1) % NumFragments = p
  BY <1>3, <1>4, Zenon
<1>. QED
  BY <1>3, <1>5, Zenon DEF Frag, Whole!FragmentForStep

\* expected_version of a fragment that was merged: its last step in the cut.
LEMMA VerIs ==
    ASSUME NEW s \in Nat, NEW p \in Nat, NEW k \in Nat,
           p + 1 + NumFragments * k <= s, s < p + 1 + NumFragments * k + NumFragments
    PROVE  Ver(p, s) = p + 1 + NumFragments * k
<1>. DEFINE r == s - (p + 1 + NumFragments * k)
<1>1. NumFragments \in Nat \ {0} /\ NumFragments * k \in Nat /\ k * NumFragments = NumFragments * k
  BY ShardAssumption
<1>2. r \in 0 .. (NumFragments - 1) /\ s - (p + 1) = NumFragments * k + r /\ ~(s < p + 1)
  BY <1>1
<1>. HIDE DEF r
<1>3. (s - (p + 1)) \div NumFragments = k
  BY <1>1, <1>2, DivisionIs, Zenon
<1>4. Ver(p, s) = p + 1 + ((s - (p + 1)) \div NumFragments) * NumFragments
  BY <1>2, Zenon DEF Ver, Whole!ExpectedVersion
<1>. QED
  BY <1>1, <1>3, <1>4, Zenon

\* expected_version is a step of the fragment at most a sweep back, or none.
LEMMA VerForm ==
    ASSUME NEW s \in Nat, NEW p \in Nat
    PROVE  \/ s < p + 1 /\ Ver(p, s) = 0
           \/ \E k \in Nat : /\ Ver(p, s) = p + 1 + NumFragments * k
                             /\ p + 1 + NumFragments * k <= s
                             /\ s < p + 1 + NumFragments * k + NumFragments
<1>1. CASE s < p + 1
  BY <1>1, Zenon DEF Ver, Whole!ExpectedVersion
<1>2. CASE ~(s < p + 1)
  <2>. DEFINE a == s - (p + 1)
              k == a \div NumFragments
              r == a % NumFragments
  <2>1. a \in Nat /\ s = p + 1 + a /\ NumFragments \in Nat \ {0}
    BY <1>2, ShardAssumption
  <2>2. k \in Nat /\ r \in 0 .. (NumFragments - 1) /\ a = NumFragments * k + r
    BY <2>1, Division, Zenon
  <2>. HIDE DEF a, k, r
  <2>3. NumFragments * k \in Nat
    BY <2>1, <2>2
  <2>4. p + 1 + NumFragments * k <= s /\ s < p + 1 + NumFragments * k + NumFragments
    BY <2>1, <2>2, <2>3
  <2>. QED
    BY <2>2, <2>4, VerIs
<1>. QED
  BY <1>1, <1>2, Zenon

\* At its own step, a fragment has that step as its version.
LEMMA VerAtStep ==
    ASSUME NEW t \in Nat \ {0}
    PROVE  Ver(Frag(t), t) = t
<1>. DEFINE k == (t - 1) \div NumFragments
            r == (t - 1) % NumFragments
<1>1. NumFragments \in Nat \ {0} /\ t - 1 \in Nat
  BY ShardAssumption
<1>2. k \in Nat /\ r \in 0 .. (NumFragments - 1) /\ t - 1 = NumFragments * k + r
  BY <1>1, Division, Zenon
<1>3. Frag(t) = r
  BY Zenon DEF Frag, Whole!FragmentForStep
<1>. HIDE DEF k, r
<1>4. NumFragments * k \in Nat /\ r \in Nat
  BY <1>1, <1>2
<1>5. t = r + 1 + NumFragments * k /\ t < r + 1 + NumFragments * k + NumFragments
  BY <1>1, <1>2, <1>4
<1>6. Ver(r, t) = r + 1 + NumFragments * k
  BY <1>2, <1>4, <1>5, VerIs
<1>. QED
  BY <1>3, <1>5, <1>6, Zenon

\* Between two cuts without a step of fragment p, its version stays.
LEMMA VerStays ==
    ASSUME NEW s \in Nat, NEW t \in Nat, s <= t, NEW p \in AllFragments,
           \A u \in Nat : s < u /\ u <= t => Frag(u) # p
    PROVE  Ver(p, t) = Ver(p, s)
<1>1. p \in Nat /\ NumFragments \in Nat \ {0}
  BY ShardAssumption DEF AllFragments
<1>2. CASE t < p + 1 /\ Ver(p, t) = 0
  BY <1>1, <1>2 DEF Ver, Whole!ExpectedVersion
<1>3. ASSUME NEW k \in Nat,
             Ver(p, t) = p + 1 + NumFragments * k,
             p + 1 + NumFragments * k <= t,
             t < p + 1 + NumFragments * k + NumFragments
      PROVE  Ver(p, t) = Ver(p, s)
  <2>1. NumFragments * k \in Nat
    BY <1>1
  <2>. DEFINE u == NumFragments * k + p + 1
  <2>2. u \in Nat /\ u = p + 1 + NumFragments * k
    BY <1>1, <2>1
  <2>5. Frag(u) = p
    BY SweepStep
  <2>3. u <= s
    BY <1>3, <2>2, <2>5
  <2>. HIDE DEF u
  <2>4. p + 1 + NumFragments * k <= s /\ s < p + 1 + NumFragments * k + NumFragments
    BY <1>1, <1>3, <2>1, <2>2, <2>3
  <2>. QED
    BY <1>1, <1>3, <2>4, VerIs
<1>. QED
  BY <1>1, <1>2, <1>3, VerForm, Zenon

----------------------------------------------------------------------------
(* The schedule of a shard (step_after, last_step, round_number).          *)

\* The fragments of a shard are fragments of the layout.
LEMMA MineInside ==
    ASSUME NEW i \in Shards
    PROVE  Mine(i) \subseteq AllFragments
BY RangeInside, ShardAssumption DEF Mine, AllFragments

\* step_after: the shard's next step, by the place of `s` in its sweep.
LEMMA AfterForm ==
    ASSUME NEW i \in Shards, NEW s \in Nat
    PROVE  \E q \in Nat, r \in 0 .. (NumFragments - 1) :
              /\ s = NumFragments * q + r
              /\ After(i, s) = IF r < RangeStart(i) THEN NumFragments * q + RangeStart(i) + 1
                               ELSE IF r < RangeEnd(i) THEN NumFragments * q + r + 1
                               ELSE NumFragments * (q + 1) + RangeStart(i) + 1
<1>. DEFINE q == s \div NumFragments
            r == s % NumFragments
            F == RangeStart(i)
            E == RangeEnd(i)
            P == NumFragments
<1>1. P \in Nat \ {0} /\ F \in Nat /\ E \in Nat
  BY RangeInside, ShardAssumption, Zenon
<1>2. q \in Nat /\ r \in 0 .. (P - 1) /\ s = P * q + r
  BY <1>1, Division, Zenon
<1>3. After(i, s) = IF r < F THEN s + 1 + (F - r)
                    ELSE IF r < E THEN s + 1
                    ELSE s + 1 + (P - r) + F
  BY Zenon DEF After, Plan!StepAfter
<1>. HIDE DEF q, r, F, E, P
<1>4. P * q \in Nat /\ P * (q + 1) = P * q + P
  BY <1>1, <1>2
<1>5. /\ s + 1 + (F - r) = P * q + F + 1
      /\ s + 1 = P * q + r + 1
      /\ s + 1 + (P - r) + F = P * (q + 1) + F + 1
  BY <1>1, <1>2, <1>4
<1>6. After(i, s) = IF r < F THEN P * q + F + 1
                    ELSE IF r < E THEN P * q + r + 1
                    ELSE P * (q + 1) + F + 1
  BY <1>3, <1>5, Zenon
<1>. QED
  BY <1>2, <1>6, Zenon DEF F, E, P

\* step_after returns a later step of the shard.
LEMMA AfterOwned ==
    ASSUME NEW i \in Shards, NEW s \in Nat
    PROVE  After(i, s) \in Nat \ {0} /\ After(i, s) > s /\ Frag(After(i, s)) \in Mine(i)
<1>. DEFINE F == RangeStart(i)
            E == RangeEnd(i)
            P == NumFragments
            t == After(i, s)
<1>1. /\ P \in Nat \ {0} /\ F \in Nat /\ E \in Nat /\ F < E /\ E <= P
  BY RangeInside, ShardAssumption, Zenon
<1>2. PICK q \in Nat, r \in 0 .. (P - 1) :
          /\ s = P * q + r
          /\ t = IF r < F THEN P * q + F + 1
                 ELSE IF r < E THEN P * q + r + 1
                 ELSE P * (q + 1) + F + 1
  BY AfterForm, Zenon
<1>. HIDE DEF F, E, P, t
<1>3. P * q \in Nat /\ P * (q + 1) = P * q + P
  BY <1>1, <1>2
<1>4. t > s
  BY <1>1, <1>2, <1>3
<1>5. \E k \in Nat, f \in F .. (E - 1) : t = P * k + f + 1
  <2>1. CASE r < F
    BY <1>1, <1>2, <2>1
  <2>2. CASE r >= F /\ r < E
    BY <1>1, <1>2, <2>2
  <2>3. CASE r >= E
    <3>1. q + 1 \in Nat /\ F \in F .. (E - 1) /\ t = P * (q + 1) + F + 1
      BY <1>1, <1>2, <2>3
    <3>. QED
      BY <3>1, Zenon
  <2>. QED
    BY <1>1, <1>2, <2>1, <2>2, <2>3
<1>6. PICK k \in Nat, f \in F .. (E - 1) : t = P * k + f + 1
  BY <1>5, Zenon
<1>7. f \in Mine(i) /\ f \in AllFragments
  BY <1>6, MineInside, Zenon DEF Mine, F, E
<1>8. t \in Nat \ {0} /\ Frag(t) = f
  BY <1>6, <1>7, SweepStep DEF P
<1>. QED
  BY <1>4, <1>7, <1>8, Zenon DEF t

\* step_after skips no step of the shard.
LEMMA AfterLeast ==
    ASSUME NEW i \in Shards, NEW s \in Nat, NEW u \in Nat, u > s, Frag(u) \in Mine(i)
    PROVE  After(i, s) <= u
<1>. DEFINE F == RangeStart(i)
            E == RangeEnd(i)
            P == NumFragments
            t == After(i, s)
            g == Frag(u)
<1>1. /\ P \in Nat \ {0} /\ F \in Nat /\ E \in Nat /\ F < E /\ E <= P
      /\ g \in Nat /\ F <= g /\ g < E
  BY RangeInside, ShardAssumption DEF Mine
<1>2. PICK q \in Nat, r \in 0 .. (P - 1) :
          /\ s = P * q + r
          /\ t = IF r < F THEN P * q + F + 1
                 ELSE IF r < E THEN P * q + r + 1
                 ELSE P * (q + 1) + F + 1
  BY AfterForm, Zenon
<1>3. PICK k \in Nat : u = P * k + g + 1
  BY StepSweep
<1>. HIDE DEF F, E, P, t, g
<1>4. P * q \in Nat /\ P * (q + 1) = P * q + P /\ P * k \in Nat
  BY <1>1, <1>2, <1>3
<1>5. k < q => P * k + P <= P * q
  BY <1>1, <1>2, <1>3, Multiples
<1>6. q < k => P * q + P <= P * k
  BY <1>1, <1>2, <1>3, Multiples
<1>7. ~(k < q)
  BY <1>1, <1>2, <1>3, <1>4, <1>5
<1>8. CASE k = q
  <2>. DEFINE a == P * q
  <2>1. /\ a \in Nat /\ u = a + g + 1 /\ s = a + r
        /\ t = IF r < F THEN a + F + 1 ELSE IF r < E THEN a + r + 1 ELSE P * (q + 1) + F + 1
    BY <1>2, <1>3, <1>4, <1>8, Zenon
  <2>. HIDE DEF a
  <2>2. r <= g
    BY <1>1, <1>2, <2>1
  <2>3. t <= u
    BY <1>1, <1>2, <2>1, <2>2
  <2>. QED
    BY <2>3, Zenon DEF t
<1>9. CASE q < k
  BY <1>1, <1>2, <1>3, <1>4, <1>6, <1>9 DEF t
<1>. QED
  BY <1>2, <1>3, <1>7, <1>8, <1>9

\* The shard's next step leaves the versions of its other fragments alone.
LEMMA AfterKeeps ==
    ASSUME NEW i \in Shards, NEW s \in Nat, NEW p \in Mine(i), p # Frag(After(i, s))
    PROVE  Ver(p, After(i, s)) = Ver(p, s)
<1>. DEFINE t == After(i, s)
<1>1. t \in Nat /\ s <= t /\ p \in AllFragments
  BY AfterOwned, MineInside
<1>2. ASSUME NEW u \in Nat, s < u, u <= t, Frag(u) = p
      PROVE  FALSE
  <2>1. t <= u
    BY <1>2, AfterLeast, Zenon
  <2>2. u = t
    BY <1>1, <1>2, <2>1
  <2>. QED
    BY <1>2, <2>2, Zenon
<1>. HIDE DEF t
<1>3. Ver(p, t) = Ver(p, s)
  BY <1>1, <1>2, VerStays
<1>. QED
  BY <1>3, Zenon DEF t

\* round_number counts the shard's steps, from 1.
LEMMA RoundCounts ==
    ASSUME NEW i \in Shards, NEW s \in Nat, s = 0 \/ Frag(s) \in Mine(i)
    PROVE  Round(i, After(i, s)) = IF s = 0 THEN 1 ELSE Round(i, s) + 1
<1>. DEFINE F == RangeStart(i)
            E == RangeEnd(i)
            P == NumFragments
            W == E - F
            t == After(i, s)
<1>1. P \in Nat \ {0} /\ F \in Nat /\ E \in Nat /\ F < E /\ E <= P /\ W \in Nat
  BY RangeInside, ShardAssumption
<1>2. PICK q \in Nat, r \in 0 .. (P - 1) :
          /\ s = P * q + r
          /\ t = IF r < F THEN P * q + F + 1
                 ELSE IF r < E THEN P * q + r + 1
                 ELSE P * (q + 1) + F + 1
  BY AfterForm, Zenon
<1>3. ASSUME NEW k \in Nat, NEW f \in Mine(i), NEW u, u = P * k + f + 1
      PROVE  Round(i, u) = k * W + (f - F) + 1
  <2>1. f \in AllFragments
    BY MineInside, Zenon
  <2>2. Frag(u) = f /\ (u - 1) \div P = k
    BY <1>3, <2>1, SweepStep
  <2>3. Round(i, u) = ((u - 1) \div P) * W + (Frag(u) - F) + 1
    BY Zenon DEF Round, Frag, Plan!RoundNumber, Plan!FragmentForStep, Whole!FragmentForStep
  <2>. QED
    BY <2>2, <2>3, Zenon
<1>. HIDE DEF F, E, P, W, t
<1>4. P * q \in Nat /\ P * (q + 1) = P * q + P /\ q + 1 \in Nat
  BY <1>1, <1>2
<1>5. /\ F \in Mine(i)
      /\ \A f \in Mine(i) : f \in Nat /\ F <= f /\ f < E
      /\ \A f \in Nat : F <= f /\ f < E => f \in Mine(i)
  BY <1>1 DEF Mine, F, E
<1>6. CASE s = 0
  <2>1. q = 0 /\ r = 0
    BY <1>1, <1>2, <1>4, <1>6
  <2>2. P * q = 0
    BY <1>1, <2>1
  <2>3. t = P * q + F + 1
    BY <1>1, <1>2, <2>1, <2>2
  <2>4. Round(i, t) = q * W + (F - F) + 1
    BY <1>2, <1>3, <1>5, <2>3
  <2>5. Round(i, t) = 1
    BY <1>1, <2>1, <2>4
  <2>. QED
    BY <1>6, <2>5, Zenon DEF t
<1>7. CASE s # 0
  <2>. DEFINE g == Frag(s)
  <2>1. PICK k \in Nat : s = P * k + g + 1
    BY <1>7, StepSweep, Zenon DEF P
  <2>2. g \in Mine(i) /\ g \in Nat /\ F <= g /\ g < E
    BY <1>5, <1>7, Zenon
  <2>. HIDE DEF g
  <2>3. Round(i, s) = k * W + (g - F) + 1
    BY <1>3, <2>1, <2>2
  <2>4. /\ P * k \in Nat /\ P * (k + 1) = P * k + P /\ k + 1 \in Nat
        /\ k * W \in Nat /\ (k + 1) * W = k * W + W
    BY <1>1, <2>1
  <2>5. CASE g + 1 < P
    <3>1. q = k /\ r = g + 1
      <4>1. g + 1 \in 0 .. (P - 1) /\ P * k + (g + 1) = P * q + r
        BY <1>1, <1>2, <1>4, <2>1, <2>2, <2>4, <2>5
      <4>2. (P * k + (g + 1)) \div P = k /\ (P * k + (g + 1)) % P = g + 1
        BY <1>1, <2>1, <4>1, DivisionIs, Zenon
      <4>3. (P * q + r) \div P = q /\ (P * q + r) % P = r
        BY <1>1, <1>2, DivisionIs, Zenon
      <4>. QED
        BY <4>1, <4>2, <4>3, Zenon
    <3>2. CASE g + 1 < E
      <4>1. g + 1 \in Mine(i) /\ t = P * k + (g + 1) + 1
        BY <1>1, <1>2, <1>5, <2>2, <3>1, <3>2
      <4>2. Round(i, t) = k * W + ((g + 1) - F) + 1
        BY <1>3, <2>1, <4>1
      <4>3. Round(i, t) = Round(i, s) + 1
        BY <1>1, <2>2, <2>3, <2>4, <4>2
      <4>. QED
        BY <1>7, <4>3, Zenon DEF t
    <3>3. CASE g + 1 = E
      <4>1. t = P * (k + 1) + F + 1
        BY <1>1, <1>2, <2>2, <3>1, <3>3
      <4>2. Round(i, t) = (k + 1) * W + (F - F) + 1
        BY <1>3, <1>5, <2>4, <4>1
      <4>3. Round(i, t) = Round(i, s) + 1
        BY <1>1, <2>2, <2>3, <2>4, <3>3, <4>2 DEF W
      <4>. QED
        BY <1>7, <4>3, Zenon DEF t
    <3>. QED
      BY <1>1, <2>2, <3>2, <3>3
  <2>6. CASE g + 1 = P
    <3>1. q = k + 1 /\ r = 0
      <4>1. P * (k + 1) + 0 = P * q + r
        BY <1>1, <1>2, <1>4, <2>1, <2>2, <2>4, <2>6
      <4>2. (P * (k + 1) + 0) \div P = k + 1 /\ (P * (k + 1) + 0) % P = 0
        BY <1>1, <2>4, DivisionIs
      <4>3. (P * q + r) \div P = q /\ (P * q + r) % P = r
        BY <1>1, <1>2, DivisionIs, Zenon
      <4>. QED
        BY <4>1, <4>2, <4>3, Zenon
    <3>2. t = P * (k + 1) + F + 1
      BY <1>1, <1>2, <3>1
    <3>3. Round(i, t) = (k + 1) * W + (F - F) + 1
      BY <1>3, <1>5, <2>4, <3>2
    <3>4. Round(i, t) = Round(i, s) + 1
      BY <1>1, <2>2, <2>3, <2>4, <2>6, <3>3 DEF W
    <3>. QED
      BY <1>7, <3>4, Zenon DEF t
  <2>. QED
    BY <1>1, <2>2, <2>5, <2>6
<1>. QED
  BY <1>6, <1>7, Zenon

\* last_step: the last of the shard's steps within TotalSteps.
LEMMA LastIs ==
    ASSUME NEW i \in Shards
    PROVE  /\ Last(i) \in Nat /\ Last(i) <= TotalSteps
           /\ \A u \in 1 .. TotalSteps : Frag(u) \in Mine(i) => u <= Last(i)
<1>. DEFINE F == RangeStart(i)
            E == RangeEnd(i)
            P == NumFragments
            T == TotalSteps
            L == Last(i)
            q == (T - 1) \div P
            r == (T - 1) % P
<1>1. P \in Nat \ {0} /\ F \in Nat /\ E \in Nat /\ F < E /\ E <= P /\ T \in Nat
  BY RangeInside, ShardAssumption, Zenon
<1>2. L = IF T = 0 THEN 0
          ELSE IF r >= F THEN q * P + (IF r < E - 1 THEN r ELSE E - 1) + 1
          ELSE IF q = 0 THEN 0
          ELSE (q - 1) * P + E
  BY Zenon DEF Last, Plan!LastStepOf
<1>3. T # 0 => q \in Nat /\ r \in 0 .. (P - 1) /\ T - 1 = P * q + r
  <2>1. T # 0 => T - 1 \in Nat
    BY <1>1
  <2>. QED
    BY <1>1, <2>1, Division, Zenon
<1>4. ASSUME NEW u \in 1 .. T, Frag(u) \in Mine(i)
      PROVE  \E k \in Nat, g \in F .. (E - 1) : u = P * k + g + 1
  <2>1. u \in Nat \ {0} /\ Frag(u) \in F .. (E - 1)
    BY <1>1, <1>4 DEF Mine
  <2>2. PICK k \in Nat : u = P * k + Frag(u) + 1
    BY <2>1, StepSweep, Zenon
  <2>. QED
    BY <2>1, <2>2, Zenon
<1>. HIDE DEF F, E, P, T, L, q, r
<1>5. CASE T = 0
  BY <1>1, <1>2, <1>5 DEF L, T
<1>6. CASE T # 0
  <2>. DEFINE a == P * q
  <2>1. /\ q \in Nat /\ r \in 0 .. (P - 1)
        /\ a \in Nat /\ T = a + r + 1 /\ q * P = a
        /\ (q - 1) * P = a - P
    BY <1>1, <1>3, <1>6
  <2>2. /\ q # 0 => a - P \in Nat
        /\ q = 0 => a = 0
    <3>1. q # 0 => q - 1 \in Nat /\ (q - 1) * P \in Nat
      BY <1>1, <2>1
    <3>. QED
      BY <1>1, <2>1, <3>1
  <2>3. ASSUME NEW k \in Nat
        PROVE  P * k \in Nat /\ (P * k = a \/ P * k + P <= a \/ a + P <= P * k)
    <3>1. CASE k < q
      BY <1>1, <2>1, <3>1, Multiples
    <3>2. CASE q < k
      BY <1>1, <2>1, <3>2, Multiples
    <3>. QED
      BY <1>1, <2>1, <3>1, <3>2
  <2>. HIDE DEF a
  <2>4. L = IF r >= F THEN a + (IF r < E - 1 THEN r ELSE E - 1) + 1
            ELSE IF q = 0 THEN 0
            ELSE a - P + E
    BY <1>2, <1>6, <2>1, Zenon
  <2>5. L \in Nat /\ L <= T
    BY <1>1, <2>1, <2>2, <2>4
  <2>6. ASSUME NEW u \in 1 .. T, Frag(u) \in Mine(i)
        PROVE  u <= L
    <3>1. PICK k \in Nat, g \in F .. (E - 1) : u = P * k + g + 1
      BY <1>4, <2>6, Zenon
    <3>. DEFINE b == P * k
    <3>2. b \in Nat /\ (b = a \/ b + P <= a \/ a + P <= b) /\ u = b + g + 1
      BY <2>3, <3>1, Zenon
    <3>. HIDE DEF b
    <3>3. CASE r >= F
      BY <1>1, <2>1, <2>4, <3>1, <3>2, <3>3
    <3>4. CASE r < F /\ q = 0
      BY <1>1, <2>1, <2>2, <2>4, <3>1, <3>2, <3>4
    <3>5. CASE r < F /\ q # 0
      BY <1>1, <2>1, <2>2, <2>4, <3>1, <3>2, <3>5
    <3>. QED
      BY <1>1, <2>1, <3>3, <3>4, <3>5
  <2>. QED
    BY <2>5, <2>6, Zenon DEF L, T
<1>. QED
  BY <1>5, <1>6, Zenon

\* At the shard's last step its fragments have the versions of TotalSteps.
LEMMA LastVersions ==
    ASSUME NEW i \in Shards, NEW p \in Mine(i)
    PROVE  Ver(p, TotalSteps) = Ver(p, Last(i))
<1>1. /\ Last(i) \in Nat /\ Last(i) <= TotalSteps
      /\ \A u \in 1 .. TotalSteps : Frag(u) \in Mine(i) => u <= Last(i)
  BY LastIs, Zenon
<1>2. TotalSteps \in Nat /\ p \in AllFragments
  BY ShardAssumption, MineInside, Zenon
<1>3. \A u \in Nat : Last(i) < u /\ u <= TotalSteps => Frag(u) # p
  BY <1>1, <1>2
<1>. QED
  BY <1>1, <1>2, <1>3, VerStays

----------------------------------------------------------------------------
(* The inductive invariant.                                                *)

\* A shard that has committed stands at one of its own steps, its rounds
\* counted; its fragments are at the versions of that step; and what it has
\* merged are its steps up to there.
ShardInv ==
    /\ committed \in [Shards -> Nat]
    /\ version \in [AllFragments -> Nat]
    /\ rounds \in [Shards -> Nat]
    /\ \A i \in Shards :
        /\ committed[i] = 0 => rounds[i] = 0
        /\ committed[i] # 0 => Frag(committed[i]) \in Mine(i) /\ Round(i, committed[i]) = rounds[i]
        /\ \A p \in Mine(i) : version[p] = Ver(p, committed[i])
    /\ merged = {a \in Shards \X Nat :
                    1 <= a[2] /\ a[2] <= committed[a[1]] /\ Frag(a[2]) \in Mine(a[1])}

\* Nothing is committed at the start.
LEMMA InitShards ==
    ASSUME Init
    PROVE  ShardInv
<1>1. /\ committed \in [Shards -> Nat]
      /\ version \in [AllFragments -> Nat]
      /\ rounds \in [Shards -> Nat]
  BY Zenon DEF Init
<1>2. ASSUME NEW i \in Shards
      PROVE  /\ committed[i] = 0 /\ rounds[i] = 0
             /\ \A p \in Mine(i) : version[p] = Ver(p, committed[i])
  <2>1. committed[i] = 0 /\ rounds[i] = 0
    BY Zenon DEF Init
  <2>2. ASSUME NEW p \in Mine(i)
        PROVE  version[p] = Ver(p, committed[i])
    <3>1. p \in AllFragments /\ p \in Nat
      BY MineInside, ShardAssumption DEF AllFragments
    <3>2. version[p] = 0
      BY <3>1, Zenon DEF Init
    <3>3. Ver(p, 0) = 0
      BY <3>1 DEF Ver, Whole!ExpectedVersion
    <3>. QED
      BY <2>1, <3>2, <3>3, Zenon
  <2>. QED
    BY <2>1, <2>2, Zenon
<1>3. merged = {a \in Shards \X Nat :
                  1 <= a[2] /\ a[2] <= committed[a[1]] /\ Frag(a[2]) \in Mine(a[1])}
  <2>1. ASSUME NEW a \in Shards \X Nat, 1 <= a[2], a[2] <= committed[a[1]]
        PROVE  FALSE
    <3>1. a[1] \in Shards /\ a[2] \in Nat
      BY Zenon
    <3>2. committed[a[1]] = 0
      BY <1>2, <3>1, Zenon
    <3>. QED
      BY <2>1, <3>1, <3>2
  <2>2. merged = {}
    BY Zenon DEF Init
  <2>. QED
    BY <2>1, <2>2, Zenon
<1>. QED
  BY <1>1, <1>2, <1>3, Zenon DEF ShardInv

\* Shard i commits its next step t.
CommitAt(i, t) ==
    /\ t = After(i, committed[i])
    /\ t <= Last(i)
    /\ committed' = [committed EXCEPT ![i] = t]
    /\ version' = [version EXCEPT ![Frag(t)] = t]
    /\ rounds' = [rounds EXCEPT ![i] = @ + 1]
    /\ merged' = merged \cup {<<i, t>>}

\* A commit is one of CommitAt.
LEMMA CommitIs ==
    ASSUME NEW i \in Shards, Commit(i)
    PROVE  \E t : CommitAt(i, t)
BY Zenon DEF Commit, CommitAt, After, Last, Frag, Plan!FragmentForStep, Whole!FragmentForStep

\* The steps a shard has merged, after one more.
LEMMA MergedGrows ==
    ASSUME NEW i \in Shards, NEW s \in Nat, NEW t, t = After(i, s),
           NEW u \in Nat, 1 <= u, Frag(u) \in Mine(i)
    PROVE  u <= t <=> u <= s \/ u = t
<1>1. t \in Nat /\ t > s
  BY AfterOwned, Zenon
<1>2. u > s => t <= u
  BY AfterLeast, Zenon
<1>. QED
  BY <1>1, <1>2

\* Every step keeps the shards' invariant.
LEMMA StepShards ==
    ASSUME ShardInv, [Next]_vars
    PROVE  ShardInv'
<1>1. CASE UNCHANGED vars
  BY <1>1, Zenon DEF vars, ShardInv
<1>2. ASSUME NEW i \in Shards, NEW t, CommitAt(i, t)
      PROVE  ShardInv'
  <2>. DEFINE s == committed[i]
              f == Frag(t)
  <2>1. s \in Nat /\ t = After(i, s)
    BY <1>2, Zenon DEF ShardInv, CommitAt
  <2>2. t \in Nat \ {0} /\ t > s /\ f \in Mine(i) /\ f \in AllFragments
    BY <2>1, AfterOwned, MineInside, Zenon
  <2>3. /\ committed' \in [Shards -> Nat]
        /\ version' \in [AllFragments -> Nat]
        /\ rounds' \in [Shards -> Nat]
    BY <1>2, <2>2 DEF ShardInv, CommitAt
  <2>4. /\ committed'[i] = t
        /\ \A j \in Shards \ {i} : committed'[j] = committed[j] /\ rounds'[j] = rounds[j]
        /\ rounds'[i] = rounds[i] + 1
        /\ version'[f] = t
        /\ \A p \in AllFragments \ {f} : version'[p] = version[p]
    BY <1>2, <2>2 DEF ShardInv, CommitAt
  <2>5. ASSUME NEW j \in Shards
        PROVE  /\ committed'[j] = 0 => rounds'[j] = 0
               /\ committed'[j] # 0 => Frag(committed'[j]) \in Mine(j)
                                       /\ Round(j, committed'[j]) = rounds'[j]
    <3>1. CASE j = i
      <4>1. Round(i, t) = IF s = 0 THEN 1 ELSE Round(i, s) + 1
        BY <2>1, RoundCounts DEF ShardInv
      <4>2. s = 0 => rounds[i] = 0
        BY Zenon DEF ShardInv
      <4>3. s # 0 => Round(i, s) = rounds[i]
        BY Zenon DEF ShardInv
      <4>4. Round(i, t) = rounds[i] + 1
        BY <4>1, <4>2, <4>3
      <4>. QED
        BY <2>2, <2>4, <3>1, <4>4, Zenon
    <3>2. CASE j # i
      BY <2>4, <3>2 DEF ShardInv
    <3>. QED
      BY <3>1, <3>2, Zenon
  <2>6. ASSUME NEW j \in Shards, NEW p \in Mine(j)
        PROVE  version'[p] = Ver(p, committed'[j])
    <3>1. p \in AllFragments /\ version[p] = Ver(p, committed[j])
      BY MineInside, Zenon DEF ShardInv
    <3>2. CASE p = f
      <4>1. j = i
        BY <2>2, <3>2, RangesDisjoint, Zenon
      <4>2. Ver(f, t) = t
        BY <2>2, VerAtStep, Zenon
      <4>. QED
        BY <2>4, <3>2, <4>1, <4>2, Zenon
    <3>3. CASE p # f /\ j = i
      <4>1. Ver(p, t) = Ver(p, s)
        BY <2>1, <3>3, AfterKeeps, Zenon
      <4>. QED
        BY <2>4, <3>1, <3>3, <4>1, Zenon
    <3>4. CASE p # f /\ j # i
      BY <2>4, <3>1, <3>4, Zenon
    <3>. QED
      BY <3>2, <3>3, <3>4, Zenon
  <2>7. ASSUME NEW a \in Shards \X Nat
        PROVE  a \in merged' <=>
                 1 <= a[2] /\ a[2] <= committed'[a[1]] /\ Frag(a[2]) \in Mine(a[1])
    <3>1. a[1] \in Shards /\ a[2] \in Nat /\ a = <<a[1], a[2]>>
      OBVIOUS
    <3>2. a \in merged <=>
            1 <= a[2] /\ a[2] <= committed[a[1]] /\ Frag(a[2]) \in Mine(a[1])
      BY Zenon DEF ShardInv
    <3>3. a \in merged' <=> a \in merged \/ a = <<i, t>>
      BY <1>2, Zenon DEF CommitAt
    <3>4. CASE a[1] # i
      BY <2>4, <3>1, <3>2, <3>3, <3>4
    <3>5. CASE a[1] = i
      <4>1. a = <<i, t>> <=> a[2] = t
        BY <3>1, <3>5
      <4>2. 1 <= a[2] /\ Frag(a[2]) \in Mine(i) => (a[2] <= t <=> a[2] <= s \/ a[2] = t)
        BY <2>1, <3>1, MergedGrows
      <4>3. a[2] = t => 1 <= a[2] /\ Frag(a[2]) \in Mine(i)
        BY <2>2
      <4>4. a[2] <= s => a[2] <= t
        BY <2>1, <2>2, <3>1
      <4>. QED
        BY <2>4, <3>2, <3>3, <3>5, <4>1, <4>2, <4>3, <4>4, Zenon
    <3>. QED
      BY <3>4, <3>5, Zenon
  <2>8. merged' \subseteq Shards \X Nat
    BY <1>2, <2>2 DEF ShardInv, CommitAt
  <2>9. merged' = {a \in Shards \X Nat :
                     1 <= a[2] /\ a[2] <= committed'[a[1]] /\ Frag(a[2]) \in Mine(a[1])}
    BY <2>7, <2>8, Zenon
  <2>. QED
    BY <2>3, <2>5, <2>6, <2>9, Zenon DEF ShardInv
<1>. QED
  BY <1>1, <1>2, CommitIs, Zenon DEF Next, Done

\* The shards' invariant always holds.
LEMMA ShardsAlways == Spec => []ShardInv
BY InitShards, StepShards, PTL DEF Spec

----------------------------------------------------------------------------
(* The theorems.                                                           *)

\* The invariant gives the round-robin cut of every shard.
LEMMA CutHolds ==
    ASSUME ShardInv
    PROVE  CutIsRoundRobin
<1>. SUFFICES ASSUME NEW i \in Shards
              PROVE  /\ \A p \in RangeStart(i) .. (RangeEnd(i) - 1) :
                           version[p] = Plan(i)!ExpectedVersion(p, committed[i])
                     /\ committed[i] > 0 => Plan(i)!RoundNumber(committed[i]) = rounds[i]
  BY Zenon DEF CutIsRoundRobin
<1>1. \A p \in Mine(i) : version[p] = Ver(p, committed[i])
  BY Zenon DEF ShardInv
<1>2. \A p : Ver(p, committed[i]) = Plan(i)!ExpectedVersion(p, committed[i])
  BY Zenon DEF Ver, Whole!ExpectedVersion, Plan!ExpectedVersion
<1>3. committed[i] > 0 => Round(i, committed[i]) = rounds[i]
  BY DEF ShardInv
<1>. QED
  BY <1>1, <1>2, <1>3, Zenon DEF Mine, Round

\* The invariant gives the union of the shards.
LEMMA UnionHolds ==
    ASSUME ShardInv
    PROVE  UnionIsUnsharded
<1>1. ASSUME NEW a \in merged
      PROVE  /\ a[1] \in Shards /\ a[2] \in Nat /\ 1 <= a[2]
             /\ a[2] <= committed[a[1]] /\ Frag(a[2]) \in Mine(a[1])
  BY Zenon DEF ShardInv
<1>2. ASSUME NEW a \in merged, NEW b \in merged, Frag(a[2]) = Frag(b[2])
      PROVE  a[1] = b[1]
  BY <1>1, <1>2, RangesDisjoint, Zenon
<1>3. ASSUME Finished
      PROVE  /\ {a[2] : a \in merged} = 1 .. TotalSteps
             /\ \A p \in AllFragments : version[p] = Ver(p, TotalSteps)
  <2>1. TotalSteps \in Nat
    BY ShardAssumption, Zenon
  <2>2. \A i \in Shards : committed[i] = Last(i)
    BY <1>3, Zenon DEF Finished, Last
  <2>3. ASSUME NEW a \in merged
        PROVE  a[2] \in 1 .. TotalSteps
    BY <1>1, <2>1, <2>2, LastIs
  <2>4. ASSUME NEW u \in 1 .. TotalSteps
        PROVE  \E a \in merged : a[2] = u
    <3>1. u \in Nat \ {0}
      BY <2>1
    <3>2. PICK i \in Shards : Frag(u) \in Mine(i)
      BY <3>1, StepSweep, RangeCover, Zenon
    <3>3. u <= committed[i]
      BY <2>2, <3>2, LastIs, Zenon
    <3>4. <<i, u>> \in merged
      BY <3>1, <3>2, <3>3 DEF ShardInv
    <3>. QED
      BY <3>4, Zenon
  <2>5. ASSUME NEW p \in AllFragments
        PROVE  version[p] = Ver(p, TotalSteps)
    <3>1. PICK i \in Shards : p \in Mine(i)
      BY RangeCover, Zenon
    <3>2. version[p] = Ver(p, committed[i])
      BY <3>1, Zenon DEF ShardInv
    <3>. QED
      BY <2>2, <3>1, <3>2, LastVersions, Zenon
  <2>. QED
    BY <2>3, <2>4, <2>5, Zenon
<1>. QED
  BY <1>2, <1>3, Zenon DEF UnionIsUnsharded, Frag, Ver

\* Whatever the other shards have done, a shard's fragments are at the
\* round-robin versions of its own last step and round_number counts its
\* rounds: for every layout and number of shards.
THEOREM CutsAlwaysRoundRobin == Spec => []CutIsRoundRobin
BY ShardsAlways, CutHolds, PTL

\* No step or fragment is shared by two shards, and when every shard has
\* committed its last step all steps are merged and every fragment has the
\* version of an unsharded head.
THEOREM UnionAlwaysUnsharded == Spec => []UnionIsUnsharded
BY ShardsAlways, UnionHolds, PTL

=============================================================================
