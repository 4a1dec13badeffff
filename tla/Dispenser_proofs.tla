-------------------------- MODULE Dispenser_proofs --------------------------
(***************************************************************************)
(* The operations of the dispenser, for every set of islands, streams,     *)
(* limits and interleaves: each keeps the accounts of the rows, and none   *)
(* takes back a settled or a trained row.                                  *)
(***************************************************************************)
EXTENDS Dispenser, FiniteSetTheorems, TLAPS

----------------------------------------------------------------------------
(* Counting.                                                               *)

\* A one-to-one function onto a set keeps the number of elements.
LEMMA SameCount ==
    ASSUME NEW S, IsFiniteSet(S), NEW T, NEW f \in [S -> T],
           \A a, b \in S : f[a] = f[b] => a = b,
           \A t \in T : \E a \in S : f[a] = t
    PROVE  IsFiniteSet(T) /\ Cardinality(T) = Cardinality(S)
<1>1. f \in Surjection(S, T) /\ f \in Injection(S, T)
  BY Zenon DEF Surjection, Injection, IsInjective
<1>. QED
  BY <1>1, FS_Surjection, Zenon

\* A one-to-one function into a set of the same size reaches all of it.
LEMMA ReachesAll ==
    ASSUME NEW S, NEW T, IsFiniteSet(T), Cardinality(S) = Cardinality(T),
           NEW f \in [S -> T], \A a, b \in S : f[a] = f[b] => a = b
    PROVE  \A t \in T : \E a \in S : f[a] = t
<1>1. f \in Injection(S, T)
  BY Zenon DEF Injection, IsInjective
<1>2. f \in Surjection(S, T)
  BY <1>1, FS_Injection, Zenon
<1>. QED
  BY <1>2, Zenon DEF Surjection

\* A function onto a set of the same size is one to one.
LEMMA OneToOne ==
    ASSUME NEW S, IsFiniteSet(S), NEW T, Cardinality(S) = Cardinality(T),
           NEW f \in [S -> T], \A t \in T : \E a \in S : f[a] = t
    PROVE  \A a, b \in S : f[a] = f[b] => a = b
<1>1. f \in Surjection(S, T)
  BY Zenon DEF Surjection
<1>2. f \in Injection(S, T)
  BY <1>1, FS_SurjSameCardinalityImpliesInj, Zenon
<1>. QED
  BY <1>2, Zenon DEF Injection, IsInjective

\* The interval from 1.
LEMMA UpTo ==
    ASSUME NEW n \in Nat
    PROVE  IsFiniteSet(1 .. n) /\ Cardinality(1 .. n) = n
BY FS_Interval

\* Disjoint sets add up.
LEMMA DisjointCount ==
    ASSUME NEW S, NEW T, IsFiniteSet(S), IsFiniteSet(T), S \cap T = {}
    PROVE  IsFiniteSet(S \cup T) /\ Cardinality(S \cup T) = Cardinality(S) + Cardinality(T)
BY FS_Union, FS_EmptySet, FS_CardinalityType

\* A subset taken out.
LEMMA RestCount ==
    ASSUME NEW S, IsFiniteSet(S), NEW T \in SUBSET S
    PROVE  /\ IsFiniteSet(T) /\ IsFiniteSet(S \ T)
           /\ Cardinality(T) \in Nat /\ Cardinality(S) \in Nat /\ Cardinality(S \ T) \in Nat
           /\ Cardinality(S \ T) = Cardinality(S) - Cardinality(T)
<1>1. S \cap T = T
  BY Zenon
<1>2. IsFiniteSet(T) /\ IsFiniteSet(S \ T)
      /\ Cardinality(S \ T) = Cardinality(S) - Cardinality(T)
  <2>1. IsFiniteSet(S \ T) /\ Cardinality(S \ T) = Cardinality(S) - Cardinality(S \cap T)
    BY FS_Difference, Zenon
  <2>2. IsFiniteSet(T)
    BY FS_Subset, Zenon
  <2>. QED
    BY <1>1, <2>1, <2>2, Zenon
<1>3. Cardinality(T) \in Nat /\ Cardinality(S) \in Nat /\ Cardinality(S \ T) \in Nat
  BY <1>2, FS_CardinalityType, Zenon
<1>. QED
  BY <1>2, <1>3, Zenon

\* A proper subset is smaller.
LEMMA Smaller ==
    ASSUME NEW S, IsFiniteSet(S), NEW T \in SUBSET S, NEW x \in S, x \notin T
    PROVE  Cardinality(T) < Cardinality(S)
<1>1. /\ IsFiniteSet(T) /\ Cardinality(T) <= Cardinality(S)
      /\ Cardinality(S) = Cardinality(T) => S = T
  BY FS_Subset, Zenon
<1>2. Cardinality(S) \in Nat /\ Cardinality(T) \in Nat
  BY <1>1, FS_CardinalityType, Zenon
<1>. QED
  BY <1>1, <1>2

----------------------------------------------------------------------------
(* Positions and queues.                                                   *)

Of(P, s) == {p \in P : p[1] = s}

GivenTo(next) == {p \in Position : p[2] < next[p[1]]}

\* The places q of the positions Q are 1, 2, ... without a gap.
Filled(q, Q) == {q[p] : p \in Q} = 1 .. Cardinality(Q)

\* The queue of every stream has no gap.
Dense(queue) == \A s \in Streams : Filled(queue, Of(DOMAIN queue, s))

\* A position is its stream and number.
LEMMA PositionParts ==
    ASSUME NEW p \in Position
    PROVE  /\ p[1] \in Streams /\ p[1] \in Nat /\ p[2] \in Nat /\ p[2] < Limit(p[1])
           /\ p = <<p[1], p[2]>>
<1>1. p \in Streams \X (0 .. (StreamPositions - 1)) /\ p[2] < Limit(p[1])
  BY Zenon DEF Position
<1>2. p[1] \in Streams /\ p[2] \in 0 .. (StreamPositions - 1) /\ p = <<p[1], p[2]>>
  BY <1>1
<1>3. p[1] \in Nat /\ p[2] \in Nat
  BY <1>2, DispenserAssumption
<1>. QED
  BY <1>1, <1>2, <1>3, Zenon

\* There are finitely many positions.
LEMMA PositionsFinite == IsFiniteSet(Position)
<1>1. IsFiniteSet(0 .. (StreamPositions - 1))
  BY DispenserAssumption, FS_Interval
<1>2. IsFiniteSet(Streams \X (0 .. (StreamPositions - 1)))
  BY <1>1, DispenserAssumption, FS_Product, Zenon
<1>3. Position \in SUBSET (Streams \X (0 .. (StreamPositions - 1)))
  BY Zenon DEF Position
<1>. QED
  BY <1>2, <1>3, FS_Subset, Zenon

\* The places q of the positions Q are 1, 2, ..., one for each.
Places(Q, q) ==
    /\ IsFiniteSet(Q) /\ Cardinality(Q) \in Nat
    /\ \A p \in Q : q[p] \in 1 .. Cardinality(Q)
    /\ \A k \in 1 .. Cardinality(Q) : \E p \in Q : q[p] = k
    /\ \A p, o \in Q : q[p] = q[o] => p = o

\* The places of a stream's queue, one for each of its positions.
LEMMA QueuePlaces ==
    ASSUME NEW queue, DOMAIN queue \subseteq Position, Dense(queue), NEW s \in Streams
    PROVE  LET Q == Of(DOMAIN queue, s)
           IN  /\ IsFiniteSet(Q) /\ Cardinality(Q) \in Nat
               /\ \A p \in Q : queue[p] \in 1 .. Cardinality(Q)
               /\ \A k \in 1 .. Cardinality(Q) : \E p \in Q : queue[p] = k
               /\ \A p, o \in Q : queue[p] = queue[o] => p = o
<1>. DEFINE Q == Of(DOMAIN queue, s)
            n == Cardinality(Q)
            f == [p \in Q |-> queue[p]]
<1>1. Q \in SUBSET Position
  BY Zenon DEF Of
<1>2. IsFiniteSet(Q) /\ n \in Nat
  BY <1>1, PositionsFinite, FS_Subset, FS_CardinalityType, Zenon
<1>3. {queue[p] : p \in Q} = 1 .. n
  BY Zenon DEF Dense, Filled
<1>. HIDE DEF Q, n
<1>4. f \in [Q -> 1 .. n] /\ \A k \in 1 .. n : \E p \in Q : f[p] = k
  BY <1>3, Zenon
<1>5. Cardinality(Q) = Cardinality(1 .. n)
  BY <1>2, UpTo, Zenon DEF n
<1>6. \A p, o \in Q : f[p] = f[o] => p = o
  <2>. HIDE DEF f
  <2>. QED
    BY <1>2, <1>4, <1>5, OneToOne
<1>. QED
  BY <1>2, <1>4, <1>6, Zenon DEF Q, n

\* The rank of an entry of X in its stream, in the order of PushFront.
Ahead(X, y, byHolder) == {x \in X : x.pos[1] = y.pos[1] /\ GoesBefore(x, y, byHolder)}

InStream(X, s) == {x \in X : x.pos[1] = s}

\* The positions of entries.
Pos(X) == {x.pos : x \in X}

\* What PushFront is given: entries of distinct positions, with holders of islands.
Entries(X) ==
    /\ \A x \in X : x.pos \in Position /\ x.holder[1] \in Islands
    /\ \A x, y \in X : x.pos = y.pos => x = y

\* GoesBefore orders the entries of a stream.
LEMMA OrderOfEntries ==
    ASSUME NEW X, Entries(X), NEW byHolder \in BOOLEAN,
           NEW x \in X, NEW y \in X, x.pos[1] = y.pos[1]
    PROVE  /\ GoesBefore(x, x, byHolder)
           /\ GoesBefore(x, y, byHolder) \/ GoesBefore(y, x, byHolder)
           /\ GoesBefore(x, y, byHolder) /\ GoesBefore(y, x, byHolder) => x = y
           /\ \A z \in X : z.pos[1] = y.pos[1] /\ GoesBefore(z, x, byHolder) /\ GoesBefore(x, y, byHolder)
                              => GoesBefore(z, y, byHolder)
<1>1. \A z \in X : z.pos[2] \in Nat /\ z.holder[1] \in Nat
  BY DispenserAssumption, PositionParts, Zenon DEF Entries
<1>2. x.pos[2] = y.pos[2] => x = y
  BY PositionParts, Zenon DEF Entries
<1>. QED
  BY <1>1, <1>2 DEF GoesBefore

\* The ranks of the entries S of a stream are 1, 2, ... without a gap.
LEMMA Ranks ==
    ASSUME NEW X, IsFiniteSet(X), Entries(X), NEW byHolder \in BOOLEAN,
           NEW s, NEW S, S = InStream(X, s)
    PROVE  /\ IsFiniteSet(S) /\ Cardinality(S) \in Nat
           /\ \A y \in S : Cardinality(Ahead(X, y, byHolder)) \in 1 .. Cardinality(S)
           /\ \A k \in 1 .. Cardinality(S) :
                 \E y \in S : Cardinality(Ahead(X, y, byHolder)) = k
<1>. DEFINE n == Cardinality(S)
            A(y) == Ahead(X, y, byHolder)
            f == [y \in S |-> Cardinality(A(y))]
<1>0. S \in SUBSET X /\ \A y \in X : y \in S <=> y.pos[1] = s
  BY Zenon DEF InStream
<1>1. IsFiniteSet(S) /\ n \in Nat
  BY <1>0, FS_Subset, FS_CardinalityType, Zenon
<1>2. ASSUME NEW y \in S
      PROVE  A(y) \in SUBSET S /\ y \in A(y)
  BY <1>0, OrderOfEntries DEF Ahead
<1>3. ASSUME NEW y \in S
      PROVE  /\ IsFiniteSet(A(y))
             /\ Cardinality(A(y)) \in Nat /\ Cardinality(A(y)) \in 1 .. n
  <2>. HIDE DEF A
  <2>1. A(y) \in SUBSET S /\ y \in A(y)
    BY <1>2, Zenon
  <2>2. IsFiniteSet(A(y)) /\ Cardinality(A(y)) <= n /\ Cardinality(A(y)) \in Nat
    BY <1>1, <2>1, FS_Subset, FS_CardinalityType, Zenon
  <2>3. Cardinality(A(y)) # 0
    BY <2>1, <2>2, FS_EmptySet, Zenon
  <2>. QED
    BY <1>1, <2>2, <2>3
<1>4. ASSUME NEW y \in S, NEW z \in S, y # z, GoesBefore(y, z, byHolder)
      PROVE  Cardinality(A(y)) < Cardinality(A(z))
  <2>1. A(y) \in SUBSET A(z)
    BY <1>0, <1>4, OrderOfEntries DEF Ahead
  <2>2. z \in A(z) /\ z \notin A(y)
    BY <1>0, <1>4, OrderOfEntries DEF Ahead
  <2>. HIDE DEF A
  <2>3. IsFiniteSet(A(z))
    BY <1>3, Zenon
  <2>. QED
    BY <2>1, <2>2, <2>3, Smaller, Zenon
<1>. HIDE DEF A
<1>5. \A y, z \in S : f[y] = f[z] => y = z
  <2>. SUFFICES ASSUME NEW y \in S, NEW z \in S, f[y] = f[z], y # z
                PROVE  FALSE
    BY Zenon
  <2>1. GoesBefore(y, z, byHolder) \/ GoesBefore(z, y, byHolder)
    BY <1>0, OrderOfEntries
  <2>2. Cardinality(A(y)) \in Nat /\ Cardinality(A(z)) \in Nat
    BY <1>3, Zenon
  <2>3. Cardinality(A(y)) = Cardinality(A(z))
    BY Zenon
  <2>. QED
    BY <1>4, <2>1, <2>2, <2>3
<1>6. f \in [S -> 1 .. n]
  BY <1>3, Zenon
<1>7. IsFiniteSet(1 .. n) /\ Cardinality(S) = Cardinality(1 .. n)
  BY <1>1, UpTo, Zenon
<1>8. \A k \in 1 .. n : \E y \in S : f[y] = k
  <2>. DEFINE T == 1 .. n
  <2>1. f \in [S -> T] /\ IsFiniteSet(T) /\ Cardinality(S) = Cardinality(T)
    BY <1>6, <1>7, Zenon
  <2>. HIDE DEF f, T
  <2>2. \A k \in T : \E y \in S : f[y] = k
    BY <1>5, <2>1, ReachesAll
  <2>. QED
    BY <2>2, Zenon DEF T
<1>9. \A k \in 1 .. n : \E y \in S : Cardinality(A(y)) = k
  BY <1>8, Zenon
<1>. QED
  BY <1>1, <1>3, <1>9, Zenon DEF A

\* Dispenser::push_front: the entries' positions come before the queued ones,
\* and the queues stay without gaps.
LEMMA Pushed ==
    ASSUME NEW queue, DOMAIN queue \subseteq Position, Dense(queue),
           NEW X, IsFiniteSet(X), Entries(X), \A x \in X : x.pos \notin DOMAIN queue,
           NEW byHolder \in BOOLEAN, NEW r, r = PushFront(queue, X, byHolder)
    PROVE  DOMAIN r = DOMAIN queue \cup Pos(X) /\ Dense(r)
<1>1. DOMAIN r = DOMAIN queue \cup {x.pos : x \in X}
  BY Zenon DEF PushFront
<1>2. ASSUME NEW s \in Streams
      PROVE  Filled(r, Of(DOMAIN r, s))
  <2>. DEFINE D == Of(DOMAIN queue, s)
              n == Cardinality(D)
              S == InStream(X, s)
              m == Cardinality(S)
              B == {x.pos : x \in S}
              f == [x \in S |-> x.pos]
  <2>1. /\ IsFiniteSet(D) /\ n \in Nat
        /\ \A p \in D : queue[p] \in 1 .. n
        /\ \A k \in 1 .. n : \E p \in D : queue[p] = k
    BY QueuePlaces, Zenon
  <2>2. /\ IsFiniteSet(S) /\ m \in Nat
        /\ \A y \in S : Cardinality(Ahead(X, y, byHolder)) \in 1 .. m
        /\ \A k \in 1 .. m : \E y \in S : Cardinality(Ahead(X, y, byHolder)) = k
    BY Ranks
  <2>3. Of(DOMAIN r, s) = D \cup B /\ D \cap B = {}
    <3>1. D \cap B = {}
      <4>1. ASSUME NEW x \in S
            PROVE  x.pos \notin D
        BY Zenon DEF Of, InStream
      <4>2. \A p \in B : p \notin D
        BY <4>1, Zenon
      <4>. HIDE DEF B, D
      <4>. QED
        BY <4>2, Zenon
    <3>2. \A p : p \in B <=> p \in {x.pos : x \in X} /\ p[1] = s
      BY Zenon DEF InStream
    <3>. HIDE DEF B
    <3>3. Of(DOMAIN r, s) = D \cup B
      BY <1>1, <3>2, Zenon DEF Of
    <3>. QED
      BY <3>1, <3>3, Zenon
  <2>4. IsFiniteSet(B) /\ Cardinality(B) = m
    <3>1. f \in [S -> B] /\ \A t \in B : \E a \in S : f[a] = t
      BY Zenon
    <3>2. \A a, b \in S : f[a] = f[b] => a = b
      BY Zenon DEF Entries, InStream
    <3>. HIDE DEF f, S, B
    <3>. QED
      BY <2>2, <3>1, <3>2, SameCount
  <2>5. Cardinality(Of(DOMAIN r, s)) = n + m
    <3>. HIDE DEF D, B, n, m
    <3>1. Cardinality(D \cup B) = Cardinality(D) + Cardinality(B)
      BY <2>1, <2>3, <2>4, DisjointCount, Zenon
    <3>. QED
      BY <2>3, <2>4, <3>1, Zenon DEF n
  <2>6. ASSUME NEW p \in D
        PROVE  r[p] = queue[p] + m
    <3>1. p \in DOMAIN queue /\ p[1] = s /\ p \notin {x.pos : x \in X}
      BY Zenon DEF Of
    <3>2. r[p] = queue[p] + Cardinality({x \in X : x.pos[1] = p[1]})
      BY <3>1, Zenon DEF PushFront
    <3>. QED
      BY <3>1, <3>2, Zenon DEF InStream
  <2>7. ASSUME NEW y \in S
        PROVE  r[y.pos] = Cardinality(Ahead(X, y, byHolder))
    <3>1. y \in X /\ y.pos \in {x.pos : x \in X}
      BY Zenon DEF InStream
    <3>2. r[y.pos] = Cardinality({x \in {z \in X : z.pos[1] = y.pos[1]} :
                                    \E w \in X : w.pos = y.pos /\ GoesBefore(x, w, byHolder)})
      BY <3>1, Zenon DEF PushFront
    <3>3. {x \in {z \in X : z.pos[1] = y.pos[1]} :
              \E w \in X : w.pos = y.pos /\ GoesBefore(x, w, byHolder)}
            = Ahead(X, y, byHolder)
      BY <3>1, Zenon DEF Ahead, Entries
    <3>. QED
      BY <3>2, <3>3, Zenon
  <2>8. \A p \in D \cup B : r[p] \in 1 .. (n + m)
    <3>1. \A p \in D : r[p] \in 1 .. (n + m)
      <4>. HIDE DEF D, n, m
      <4>. QED
        BY <2>1, <2>2, <2>6
    <3>2. \A y \in S : r[y.pos] \in 1 .. (n + m)
      <4>. HIDE DEF S, n, m
      <4>. QED
        BY <2>1, <2>2, <2>7
    <3>. QED
      BY <3>1, <3>2, Zenon
  <2>9. ASSUME NEW k \in 1 .. (n + m)
        PROVE  \E p \in D \cup B : r[p] = k
    <3>1. CASE k <= m
      <4>1. PICK y \in S : r[y.pos] = k
        <5>. HIDE DEF S, n, m
        <5>. QED
          BY <2>1, <2>2, <2>7, <3>1
      <4>. QED
        BY <4>1, Zenon
    <3>2. CASE k > m
      <4>1. PICK p \in D : queue[p] = k - m
        <5>. HIDE DEF D, n, m
        <5>. QED
          BY <2>1, <2>2, <3>2
      <4>2. queue[p] + m = k
        <5>. HIDE DEF D, n, m
        <5>. QED
          BY <2>1, <2>2, <4>1
      <4>. QED
        BY <2>6, <4>2, Zenon
    <3>. QED
      <4>. HIDE DEF n, m, D, B
      <4>. QED
        BY <2>1, <2>2, <3>1, <3>2
  <2>10. {r[p] : p \in D \cup B} = 1 .. (n + m)
    <3>. HIDE DEF n, m, D, B
    <3>. QED
      BY <2>8, <2>9, Zenon
  <2>. QED
    BY <2>3, <2>5, <2>10, Zenon DEF Filled
<1>. QED
  BY <1>1, <1>2, Zenon DEF Dense, Pos

\* A nonempty set of naturals has a least element.
LEMMA LeastOf ==
    ASSUME NEW S \in SUBSET Nat, S # {}
    PROVE  \E m \in S : \A n \in S : m <= n
<1>0. S \subseteq Nat
  BY Zenon
<1>1. PICK m \in S : \A n \in S : ~(<<n, m>> \in OpToRel(<, Nat))
  BY <1>0, NatLessThanWellFounded, WFMin, Zenon
<1>2. \A n \in S : <<n, m>> \in OpToRel(<, Nat) <=> n < m
  <2>. SUFFICES ASSUME NEW n \in S
                PROVE  <<n, m>> \in OpToRel(<, Nat) <=> n < m
    BY Zenon
  <2>1. n \in Nat /\ m \in Nat
    BY <1>0, Zenon
  <2>. QED
    BY <2>1, Zenon DEF OpToRel
<1>3. \A n \in S : ~(n < m)
  BY <1>1, <1>2, Zenon
<1>. QED
  BY <1>0, <1>3

\* The queued positions of the accepted streams before stream s.
Below(queue, accept, s) == {o \in DOMAIN queue : o[1] \in accept /\ o[1] < s}

\* T are the positions with the first w places.
Prefix(T, Q, q, w) == \A p : p \in T <=> p \in Q /\ q[p] <= w

\* The places r are those of q, k places ahead.
MovedUp(R, r, q, k) == \A p \in R : r[p] = q[p] - k

\* The first w places of a stream's queue, taken out: the others move up.
LEMMA PrefixTaken ==
    ASSUME NEW Q, NEW q, Places(Q, q), NEW w \in 0 .. Cardinality(Q),
           NEW T, Prefix(T, Q, q, w),
           NEW r, MovedUp(Q \ T, r, q, Cardinality(T))
    PROVE  Filled(r, Q \ T)
<1>. DEFINE f == [p \in T |-> q[p]]
            W == 1 .. w
            n == Cardinality(Q)
            R == Q \ T
            I == 1 .. (n - w)
<1>1. /\ T \in SUBSET Q /\ IsFiniteSet(Q) /\ n \in Nat /\ w \in 0 .. n
      /\ \A p \in Q : q[p] \in 1 .. n
      /\ \A k \in 1 .. n : \E p \in Q : q[p] = k
  BY Zenon DEF Places, Prefix
<1>2. f \in [T -> W] /\ \A k \in W : \E p \in T : f[p] = k
  <2>1. \A p \in T : q[p] \in W
    BY <1>1 DEF Prefix
  <2>2. ASSUME NEW k \in W
        PROVE  \E p \in T : q[p] = k
    <3>1. PICK p \in Q : q[p] = k
      BY <1>1
    <3>. QED
      BY <3>1 DEF Prefix
  <2>. QED
    BY <2>1, <2>2, Zenon
<1>3. \A a, b \in T : f[a] = f[b] => a = b
  BY <1>1, Zenon DEF Places
<1>4. IsFiniteSet(T)
  BY <1>1, FS_Subset, Zenon
<1>5. Cardinality(T) = w
  <2>1. Cardinality(W) = w
    BY <1>1, UpTo
  <2>. HIDE DEF f, W
  <2>2. Cardinality(W) = Cardinality(T)
    BY <1>2, <1>3, <1>4, SameCount
  <2>. QED
    BY <2>1, <2>2, Zenon
<1>6. Cardinality(R) = n - w
  BY <1>1, <1>5, RestCount, Zenon
<1>. HIDE DEF n
<1>7. \A p \in R : r[p] = q[p] - w
  BY <1>5, Zenon DEF MovedUp
<1>8. \A p \in R : r[p] \in I
  <2>. SUFFICES ASSUME NEW p \in R PROVE r[p] \in I
    BY Zenon
  <2>1. q[p] \in 1 .. n /\ ~(q[p] <= w) /\ r[p] = q[p] - w
    BY <1>1, <1>7, Zenon DEF Prefix
  <2>. QED
    BY <1>1, <2>1
<1>9. \A k \in I : \E p \in R : r[p] = k
  <2>. SUFFICES ASSUME NEW k \in I PROVE \E p \in R : r[p] = k
    BY Zenon
  <2>1. k + w \in 1 .. n /\ k \in Nat /\ k > 0
    BY <1>1
  <2>2. PICK p \in Q : q[p] = k + w
    BY <1>1, <2>1, Zenon
  <2>3. p \in R /\ q[p] - w = k
    BY <1>1, <2>1, <2>2 DEF Prefix
  <2>. QED
    BY <1>7, <2>3, Zenon
<1>. HIDE DEF I, R
<1>10. {r[p] : p \in R} = I
  BY <1>8, <1>9, Zenon
<1>. QED
  BY <1>6, <1>10, Zenon DEF I, R, Filled

\* The places of the positions that a claim takes, over all accepted
\* streams, are different.
LEMMA OverallPlaces ==
    ASSUME NEW queue, DOMAIN queue \subseteq Position, Dense(queue), NEW accept,
           NEW p \in DOMAIN queue, NEW o \in DOMAIN queue,
           p[1] \in accept, p[1] < o[1]
    PROVE  /\ Cardinality(Below(queue, accept, p[1])) \in Nat
           /\ Cardinality(Below(queue, accept, o[1])) \in Nat
           /\ queue[p] \in Nat /\ queue[o] \in Nat
           /\ Cardinality(Below(queue, accept, p[1])) + queue[p]
                < Cardinality(Below(queue, accept, o[1])) + queue[o]
<1>. DEFINE L == Below(queue, accept, p[1])
            U == Below(queue, accept, o[1])
            Q == Of(DOMAIN queue, p[1])
            R == Of(DOMAIN queue, o[1])
<1>1. p[1] \in Streams /\ o[1] \in Streams /\ \A x \in DOMAIN queue : x[1] \in Nat
  BY PositionParts, Zenon
<1>2. p \in Q /\ o \in R
  BY Zenon DEF Of
<1>3. IsFiniteSet(Q) /\ Cardinality(Q) \in Nat /\ queue[p] \in 1 .. Cardinality(Q)
  <2>. HIDE DEF Q
  <2>. QED
    BY <1>1, <1>2, QueuePlaces, Zenon DEF Q
<1>4. Cardinality(R) \in Nat /\ queue[o] \in 1 .. Cardinality(R)
  <2>. HIDE DEF R
  <2>. QED
    BY <1>1, <1>2, QueuePlaces, Zenon DEF R
<1>5. L \in SUBSET Position /\ U \in SUBSET Position
  BY Zenon DEF Below
<1>6. IsFiniteSet(L) /\ IsFiniteSet(U) /\ Cardinality(L) \in Nat /\ Cardinality(U) \in Nat
  <2>. HIDE DEF L, U
  <2>. QED
    BY <1>5, PositionsFinite, FS_Subset, FS_CardinalityType, Zenon
<1>7. L \cap Q = {} /\ L \cup Q \in SUBSET U
  BY <1>1 DEF Below, Of
<1>. HIDE DEF L, U, Q, R
<1>8. Cardinality(L \cup Q) = Cardinality(L) + Cardinality(Q)
  BY <1>3, <1>6, <1>7, DisjointCount, Zenon
<1>9. Cardinality(L \cup Q) <= Cardinality(U)
  BY <1>6, <1>7, FS_Subset, Zenon
<1>10. Cardinality(L) + queue[p] < Cardinality(U) + queue[o]
  BY <1>3, <1>4, <1>6, <1>8, <1>9
<1>11. queue[p] \in Nat /\ queue[o] \in Nat
  BY <1>3, <1>4
<1>. QED
  BY <1>6, <1>10, <1>11, Zenon DEF L, U

\* FromQueues, by the queue.
LEMMA FromQueuesIs ==
    ASSUME NEW e, NEW accept, NEW wanted, NEW p
    PROVE  p \in FromQueues(e, accept, wanted) <=>
             /\ p \in DOMAIN e.queue
             /\ p[1] \in accept
             /\ Cardinality(Below(e.queue, accept, p[1])) + e.queue[p] <= wanted
BY Zenon DEF FromQueues, Below

\* A claim takes no more from the queues than it asks for.
LEMMA TakenFew ==
    ASSUME NEW e, DOMAIN e.queue \subseteq Position, Dense(e.queue),
           NEW accept, NEW wanted \in Nat,
           NEW old, old = FromQueues(e, accept, wanted)
    PROVE  /\ old \subseteq DOMAIN e.queue /\ IsFiniteSet(old)
           /\ Cardinality(old) \in Nat /\ Cardinality(old) <= wanted
<1>. DEFINE g(p) == Cardinality(Below(e.queue, accept, p[1])) + e.queue[p]
            f == [p \in old |-> g(p)]
            W == 1 .. wanted
<1>1. \A p \in old : p \in DOMAIN e.queue /\ p[1] \in accept /\ g(p) <= wanted
  BY FromQueuesIs, Zenon
<1>2. old \in SUBSET DOMAIN e.queue /\ old \in SUBSET Position
  BY <1>1, Zenon
<1>3. IsFiniteSet(old) /\ Cardinality(old) \in Nat
  BY <1>2, PositionsFinite, FS_Subset, FS_CardinalityType, Zenon
<1>4. ASSUME NEW p \in old
      PROVE  /\ Cardinality(Below(e.queue, accept, p[1])) \in Nat
             /\ e.queue[p] \in Nat /\ e.queue[p] > 0
  <2>. DEFINE L == Below(e.queue, accept, p[1])
              Q == Of(DOMAIN e.queue, p[1])
  <2>1. L \in SUBSET Position
    BY Zenon DEF Below
  <2>2. Cardinality(L) \in Nat
    <3>. HIDE DEF L
    <3>. QED
      BY <2>1, PositionsFinite, FS_Subset, FS_CardinalityType, Zenon
  <2>3. p[1] \in Streams /\ p \in Q
    BY <1>2, PositionParts, Zenon DEF Of
  <2>4. Cardinality(Q) \in Nat /\ e.queue[p] \in 1 .. Cardinality(Q)
    <3>. HIDE DEF Q
    <3>. QED
      BY <2>3, QueuePlaces, Zenon DEF Q
  <2>. QED
    BY <2>2, <2>4
<1>5. ASSUME NEW p \in old, NEW o \in old, g(p) = g(o)
      PROVE  p = o
  <2>1. p[1] \in Streams /\ p[1] \in Nat /\ o[1] \in Nat
    BY <1>2, PositionParts, Zenon
  <2>2. ~(p[1] < o[1])
    <3>. SUFFICES ASSUME p[1] < o[1] PROVE FALSE
      BY Zenon
    <3>1. g(p) < g(o) /\ g(p) \in Nat /\ g(o) \in Nat
      BY <1>1, <1>4, OverallPlaces
    <3>. HIDE DEF g
    <3>. QED
      BY <1>5, <3>1
  <2>3. ~(o[1] < p[1])
    <3>. SUFFICES ASSUME o[1] < p[1] PROVE FALSE
      BY Zenon
    <3>1. g(o) < g(p) /\ g(p) \in Nat /\ g(o) \in Nat
      BY <1>1, <1>4, OverallPlaces
    <3>. HIDE DEF g
    <3>. QED
      BY <1>5, <3>1
  <2>4. p[1] = o[1]
    BY <2>1, <2>2, <2>3
  <2>5. e.queue[p] = e.queue[o]
    BY <1>4, <1>5, <2>4
  <2>. DEFINE Q == Of(DOMAIN e.queue, p[1])
  <2>6. p \in Q /\ o \in Q
    BY <1>1, <2>4, Zenon DEF Of
  <2>7. \A x, y \in Q : e.queue[x] = e.queue[y] => x = y
    BY <2>1, QueuePlaces, Zenon
  <2>. HIDE DEF Q
  <2>. QED
    BY <2>5, <2>6, <2>7, Zenon
<1>6. \A p \in old : g(p) \in W
  BY <1>1, <1>4
<1>7. f \in [old -> W] /\ \A p, o \in old : f[p] = f[o] => p = o
  <2>. HIDE DEF g, W
  <2>. QED
    BY <1>5, <1>6, Zenon
<1>8. IsFiniteSet(W) /\ Cardinality(W) = wanted
  BY UpTo, Zenon
<1>9. Cardinality(old) <= Cardinality(W)
  <2>. HIDE DEF f, W
  <2>1. f \in Injection(old, W)
    BY <1>7, Zenon DEF Injection, IsInjective
  <2>. QED
    BY <1>8, <2>1, FS_Injection, Zenon
<1>. QED
  BY <1>2, <1>3, <1>8, <1>9, Zenon

\* A claim that takes nothing from the queues finds none of its streams queued.
LEMMA TakenNone ==
    ASSUME NEW e, DOMAIN e.queue \subseteq Position, Dense(e.queue),
           NEW accept, NEW wanted \in Nat \ {0},
           FromQueues(e, accept, wanted) = {}
    PROVE  \A p \in DOMAIN e.queue : p[1] \notin accept
<1>. SUFFICES ASSUME NEW p \in DOMAIN e.queue, p[1] \in accept
              PROVE  FALSE
  BY Zenon
<1>. DEFINE S == {o[1] : o \in {x \in DOMAIN e.queue : x[1] \in accept}}
<1>0. \A x \in DOMAIN e.queue : x[1] \in Nat
  BY PositionParts, Zenon
<1>1. S \in SUBSET Nat /\ S # {}
  BY <1>0, Zenon
<1>2. PICK s \in S : \A t \in S : s <= t
  <2>. HIDE DEF S
  <2>. QED
    BY <1>1, LeastOf, Zenon
<1>3. PICK o \in DOMAIN e.queue : o[1] = s /\ s \in accept
  BY <1>2, Zenon
<1>4. Below(e.queue, accept, s) = {}
  <2>1. ASSUME NEW x \in DOMAIN e.queue, x[1] \in accept
        PROVE  ~(x[1] < s)
    <3>1. x[1] \in S
      BY <2>1, Zenon
    <3>. HIDE DEF S
    <3>2. s \in Nat /\ x[1] \in Nat
      BY <1>0, <1>3, Zenon
    <3>3. s <= x[1]
      BY <1>2, <3>1, Zenon
    <3>. QED
      BY <3>2, <3>3
  <2>. QED
    BY <2>1, Zenon DEF Below
<1>. DEFINE Q == Of(DOMAIN e.queue, s)
<1>5. s \in Streams /\ o \in Q
  BY <1>3, PositionParts, Zenon DEF Of
<1>6. /\ Cardinality(Q) \in Nat
      /\ e.queue[o] \in 1 .. Cardinality(Q)
      /\ \A k \in 1 .. Cardinality(Q) : \E x \in Q : e.queue[x] = k
  BY <1>5, QueuePlaces, Zenon
<1>7. PICK x \in Q : e.queue[x] = 1
  <2>. HIDE DEF Q
  <2>1. 1 \in 1 .. Cardinality(Q)
    BY <1>6
  <2>. QED
    BY <1>6, <2>1, Zenon
<1>8. x \in DOMAIN e.queue /\ x[1] = s
  BY <1>7, Zenon DEF Of
<1>9. Cardinality(Below(e.queue, accept, s)) + e.queue[x] <= wanted
  <2>1. Cardinality(Below(e.queue, accept, s)) = 0
    BY <1>4, FS_EmptySet, Zenon
  <2>. QED
    BY <1>7, <2>1
<1>10. x \in FromQueues(e, accept, wanted)
  BY <1>3, <1>8, <1>9, FromQueuesIs
<1>. QED
  BY <1>10, Zenon

\* T are the positions of Q that fit in `wanted` after b others.
Fitting(T, Q, q, s, accept, b, wanted) ==
    \A p : p \in T <=> p \in Q /\ s \in accept /\ b + q[p] <= wanted

\* One stream's queue after a claim that takes T of its positions Q.
LEMMA StreamTaken ==
    ASSUME NEW Q, NEW q, Places(Q, q),
           NEW s, NEW accept, NEW b \in Nat, NEW wanted \in Nat,
           NEW T, Fitting(T, Q, q, s, accept, b, wanted),
           NEW r, MovedUp(Q \ T, r, q, Cardinality(T))
    PROVE  Filled(r, Q \ T)
<1>. DEFINE n == Cardinality(Q)
            w == IF s \notin accept \/ wanted <= b THEN 0
                 ELSE IF n <= wanted - b THEN n ELSE wanted - b
<1>0. n \in Nat /\ \A p \in Q : q[p] \in 1 .. n
  BY Zenon DEF Places
<1>. HIDE DEF n
<1>1. w \in 0 .. n
  BY <1>0
<1>2. Prefix(T, Q, q, w)
  <2>. SUFFICES ASSUME NEW p \in Q
                PROVE  s \in accept /\ b + q[p] <= wanted <=> q[p] <= w
    BY Zenon DEF Prefix, Fitting
  <2>1. q[p] \in 1 .. n
    BY <1>0, Zenon
  <2>. QED
    BY <1>0, <2>1
<1>. HIDE DEF w
<1>. QED
  BY <1>1, <1>2, PrefixTaken, Zenon DEF n

\* r is what is left of the queues q once the rows of old are taken.
LeftOf(q, old, r) ==
    /\ DOMAIN r = DOMAIN q \ old
    /\ \A p \in DOMAIN r : r[p] = q[p] - Cardinality(Of(old, p[1]))

\* The queues a claim leaves behind have no gaps.
LEMMA TakenDense ==
    ASSUME NEW e, DOMAIN e.queue \subseteq Position, Dense(e.queue),
           NEW accept, NEW wanted \in Nat,
           NEW r, LeftOf(e.queue, FromQueues(e, accept, wanted), r)
    PROVE  Dense(r)
<1>. DEFINE old == FromQueues(e, accept, wanted)
<1>0. /\ DOMAIN r = DOMAIN e.queue \ old
      /\ \A p \in DOMAIN r : r[p] = e.queue[p] - Cardinality(Of(old, p[1]))
  BY Zenon DEF LeftOf
<1>a. \A p : p \in old <=> p \in DOMAIN e.queue /\ p[1] \in accept
                          /\ Cardinality(Below(e.queue, accept, p[1])) + e.queue[p] <= wanted
  BY FromQueuesIs, Zenon
<1>. HIDE DEF old
<1>1. ASSUME NEW s \in Streams
      PROVE  Filled(r, Of(DOMAIN r, s))
  <2>. DEFINE q == e.queue
              Q == Of(DOMAIN q, s)
              T == Of(old, s)
              b == Cardinality(Below(q, accept, s))
  <2>1. Places(Q, q)
    BY QueuePlaces, Zenon DEF Places
  <2>2. b \in Nat
    <3>1. Below(q, accept, s) \in SUBSET Position
      BY Zenon DEF Below
    <3>. QED
      BY <3>1, PositionsFinite, FS_Subset, FS_CardinalityType, Zenon
  <2>3. ASSUME NEW p
        PROVE  p \in T <=> p \in Q /\ s \in accept /\ b + q[p] <= wanted
    <3>1. p \in T <=> p \in old /\ p[1] = s
      BY Zenon DEF Of
    <3>2. p \in Q <=> p \in DOMAIN q /\ p[1] = s
      BY Zenon DEF Of
    <3>3. p \in old <=> p \in DOMAIN q /\ p[1] \in accept
                        /\ Cardinality(Below(q, accept, p[1])) + q[p] <= wanted
      BY <1>a, Zenon
    <3>. QED
      BY <3>1, <3>2, <3>3, Zenon
  <2>4. Of(DOMAIN r, s) = Q \ T
    BY <1>0, Zenon DEF Of
  <2>5. \A p \in Q \ T : r[p] = q[p] - Cardinality(T)
    <3>. SUFFICES ASSUME NEW p \in Q \ T
                  PROVE  r[p] = q[p] - Cardinality(T)
      BY Zenon
    <3>1. p \in DOMAIN r /\ p[1] = s
      BY <2>4, Zenon DEF Of
    <3>2. r[p] = q[p] - Cardinality(Of(old, p[1]))
      BY <1>0, <3>1, Zenon
    <3>. QED
      BY <3>1, <3>2, Zenon
  <2>7. Fitting(T, Q, q, s, accept, b, wanted)
    BY <2>3, Zenon DEF Fitting
  <2>8. MovedUp(Q \ T, r, q, Cardinality(T))
    BY <2>5, Zenon DEF MovedUp
  <2>. HIDE DEF Q, T, b, q
  <2>9. Filled(r, Q \ T)
    BY <2>1, <2>2, <2>7, <2>8, StreamTaken, Zenon
  <2>. QED
    BY <2>4, <2>9, Zenon
<1>. QED
  BY <1>1, Zenon DEF Dense

----------------------------------------------------------------------------
(* The dispenser's invariant.                                              *)

Fields == {"next", "queue", "redo", "held", "nextBlock", "live", "last", "members", "retired",
           "settled", "trained"}

HeldIn(e) == Pos(e.held)

\* The streams are given out up to a number within their limit.
NextOk(next) == next \in [Streams -> Nat] /\ \A s \in Streams : next[s] <= Limit(s)

\* The queue of a dispenser that has given out `next`.
QueueOk(queue, next) == DOMAIN queue \subseteq GivenTo(next) /\ Dense(queue)

\* Accounted, of a dispenser e.
Balanced(e) ==
    /\ NextOk(e.next)
    /\ QueueOk(e.queue, e.next)
    /\ \A x, y \in e.held : x.pos = y.pos => x = y
    /\ HeldIn(e) \subseteq GivenTo(e.next) \ DOMAIN e.queue
    /\ \A x \in e.held : x.holder \in e.live
    /\ \A h \in e.live : h[1] \in Islands
    /\ e.settled \in Int
    /\ e.settled + Cardinality(HeldIn(e)) + Cardinality(DOMAIN e.queue)
         = Cardinality(GivenTo(e.next))

\* The rows trained (by `trained`) are settled: given out and not in `back`.
SettledRows(trained, next, back) ==
    /\ trained \in [Position -> Nat]
    /\ \A p \in Position :
        /\ trained[p] <= 1
        /\ trained[p] = 1 => p \in GivenTo(next) \ back

\* TrainedOnce, of a dispenser e.
Learned(e) == SettledRows(e.trained, e.next, HeldIn(e) \cup DOMAIN e.queue)

\* LiveIsTracked, of a dispenser e.
Tracked(e) == \A h \in e.live : h \in e.members \/ IsRetired(e, h)

\* The settled rows: given out and neither held nor queued.
SettledOf(e) == GivenTo(e.next) \ (HeldIn(e) \cup DOMAIN e.queue)

\* Every row of island i's streams is settled.
DoneFor(e, i) == \A p \in Position : p[1] \in Accept[i] => p \in SettledOf(e)

\* A stored END is true.
Promised(e) ==
    /\ DOMAIN e.last = Holders
    /\ \A h \in Holders : e.last[h].ans.type = "end" => DoneFor(e, h[1])

Good(e) == DOMAIN e = Fields /\ Balanced(e) /\ Learned(e) /\ Tracked(e) /\ Promised(e)

\* No row is trained less.
Grown(a, b) == \A p \in Position : a[p] <= b[p]

\* What a step of a running dispenser never undoes: a settled row stays
\* settled, a trained row trained.
Onward(e, r) == Grown(e.trained, r.trained) /\ SettledOf(e) \subseteq SettledOf(r)

\* The given positions are finitely many.
LEMMA GivenFinite ==
    ASSUME NEW next
    PROVE  GivenTo(next) \subseteq Position /\ IsFiniteSet(GivenTo(next))
           /\ Cardinality(GivenTo(next)) \in Nat
<1>1. GivenTo(next) \in SUBSET Position
  BY Zenon DEF GivenTo
<1>. QED
  BY <1>1, PositionsFinite, FS_Subset, FS_CardinalityType, Zenon

\* The positions of entries, one by one.
LEMMA PosIs ==
    ASSUME NEW X
    PROVE  /\ \A x \in X : x.pos \in Pos(X)
           /\ \A p \in Pos(X) : \E x \in X : p = x.pos
BY Zenon DEF Pos

\* The positions of a part of the entries, and of the rest.
LEMMA PosParts ==
    ASSUME NEW X, \A x, y \in X : x.pos = y.pos => x = y, NEW B \in SUBSET X
    PROVE  Pos(B) \subseteq Pos(X) /\ Pos(X \ B) = Pos(X) \ Pos(B)
<1>1. Pos(B) \subseteq Pos(X) /\ Pos(X \ B) \subseteq Pos(X)
  BY Zenon DEF Pos
<1>2. ASSUME NEW p \in Pos(X \ B), p \in Pos(B)
      PROVE  FALSE
  <2>1. PICK x \in X \ B : p = x.pos
    BY PosIs, Zenon
  <2>2. PICK y \in B : p = y.pos
    BY <1>2, PosIs, Zenon
  <2>3. x \in X /\ y \in X /\ x.pos = y.pos
    BY <2>1, <2>2, Zenon
  <2>4. x = y
    BY <2>3, Zenon
  <2>. QED
    BY <2>4, Zenon
<1>3. ASSUME NEW p \in Pos(X), p \notin Pos(B)
      PROVE  p \in Pos(X \ B)
  <2>1. PICK x \in X : p = x.pos
    BY PosIs, Zenon
  <2>2. x \notin B
    BY <1>3, <2>1, PosIs, Zenon
  <2>. QED
    BY <2>1, <2>2, PosIs, Zenon
<1>. QED
  BY <1>1, <1>2, <1>3, Zenon

\* What the dispenser holds can be pushed back.
LEMMA HeldEntries ==
    ASSUME NEW e, Balanced(e), NEW X \in SUBSET e.held
    PROVE  /\ IsFiniteSet(X) /\ Entries(X)
           /\ \A x \in X : x.pos \notin DOMAIN e.queue
           /\ Pos(X) \subseteq HeldIn(e)
           /\ IsFiniteSet(Pos(X))
           /\ Cardinality(Pos(X)) = Cardinality(X)
           /\ Cardinality(X) \in Nat
<1>. DEFINE P == Pos(X)
            f == [x \in X |-> x.pos]
<1>1. \A x \in e.held : x.pos \in HeldIn(e)
  BY PosIs, Zenon DEF HeldIn
<1>2. \A x \in X : x.pos \in GivenTo(e.next) /\ x.pos \notin DOMAIN e.queue
  BY <1>1, Zenon DEF Balanced
<1>3. \A x, y \in X : x.pos = y.pos => x = y
  BY Zenon DEF Balanced
<1>4. \A x \in X : x.pos \in Position /\ x.holder[1] \in Islands
  BY <1>2, GivenFinite, Zenon DEF Balanced
<1>5. Entries(X)
  BY <1>3, <1>4, Zenon DEF Entries
<1>6. P \in SUBSET Position /\ P \subseteq HeldIn(e)
  BY <1>1, <1>4, PosIs
<1>7. IsFiniteSet(P) /\ Cardinality(P) \in Nat
  <2>. HIDE DEF P
  <2>. QED
    BY <1>6, PositionsFinite, FS_Subset, FS_CardinalityType, Zenon
<1>8. f \in [X -> P] /\ \A t \in P : \E a \in X : f[a] = t
  BY PosIs, Zenon
<1>9. \A a, b \in X : f[a] = f[b] => a = b
  BY <1>3, Zenon
<1>10. IsFiniteSet(X) /\ Cardinality(X) = Cardinality(P)
  <2>. HIDE DEF f, P
  <2>1. f \in Injection(X, P) /\ f \in Surjection(X, P)
    BY <1>8, <1>9, Zenon DEF Injection, IsInjective, Surjection
  <2>. QED
    BY <1>7, <2>1, FS_Injection, Zenon
<1>. QED
  BY <1>2, <1>5, <1>6, <1>7, <1>10, Zenon

\* Rows that leave Held or the queues: the count of both together.
LEMMA Moved ==
    ASSUME NEW H, NEW Q, IsFiniteSet(H), IsFiniteSet(Q), H \cap Q = {},
           NEW B, B \subseteq H
    PROVE  /\ IsFiniteSet(H \ B) /\ IsFiniteSet(Q \cup B)
           /\ Cardinality(B) \in Nat
           /\ Cardinality(H) \in Nat /\ Cardinality(Q) \in Nat
           /\ Cardinality(H \ B) = Cardinality(H) - Cardinality(B)
           /\ Cardinality(Q \cup B) = Cardinality(Q) + Cardinality(B)
<1>1. B \in SUBSET H /\ Q \cap B = {}
  BY Zenon
<1>2. /\ IsFiniteSet(B) /\ IsFiniteSet(H \ B)
      /\ Cardinality(B) \in Nat /\ Cardinality(H) \in Nat
      /\ Cardinality(H \ B) = Cardinality(H) - Cardinality(B)
  BY <1>1, RestCount, Zenon
<1>3. IsFiniteSet(Q \cup B) /\ Cardinality(Q \cup B) = Cardinality(Q) + Cardinality(B)
  BY <1>1, <1>2, DisjointCount, Zenon
<1>4. Cardinality(Q) \in Nat
  BY FS_CardinalityType, Zenon
<1>. QED
  BY <1>2, <1>3, <1>4, Zenon

\* The held entries X leave, B of them for the queues; of the others, which
\* are settled, L have been trained.
Settling(e, r, X, B, L, byHolder) ==
    /\ r.next = e.next
    /\ r.held = e.held \ X
    /\ r.queue = PushFront(e.queue, B, byHolder)
    /\ r.settled = e.settled + Cardinality(X \ B)
    /\ L \subseteq Pos(X \ B)
    /\ r.trained \in [Position -> Nat]
    /\ \A p \in Position : r.trained[p] = IF p \in L THEN e.trained[p] + 1 ELSE e.trained[p]
    /\ \A x \in r.held : x.holder \in r.live
    /\ \A h \in r.live : h[1] \in Islands

\* Rows that go back to the queues or are settled stay accounted for.
LEMMA Settles ==
    ASSUME NEW e, Balanced(e), Learned(e),
           NEW X \in SUBSET e.held, NEW B \in SUBSET X, NEW byHolder \in BOOLEAN,
           NEW L, NEW r, Settling(e, r, X, B, L, byHolder)
    PROVE  Balanced(r) /\ Learned(r) /\ SettledOf(e) \subseteq SettledOf(r)
<1>. DEFINE PX == Pos(X)
            PB == Pos(B)
            PS == Pos(X \ B)
            Q == DOMAIN e.queue
            H == HeldIn(e)
            G == GivenTo(e.next)
<1>1. /\ IsFiniteSet(B) /\ Entries(B) /\ \A x \in B : x.pos \notin Q
      /\ IsFiniteSet(PB) /\ Cardinality(PB) = Cardinality(B)
  <2>1. B \in SUBSET e.held
    BY Zenon
  <2>. QED
    BY <2>1, HeldEntries, Zenon
<1>2. IsFiniteSet(X) /\ IsFiniteSet(PX) /\ Cardinality(PX) = Cardinality(X)
  BY HeldEntries, Zenon
<1>3. /\ Cardinality(X \ B) = Cardinality(X) - Cardinality(B)
      /\ Cardinality(X) \in Nat /\ Cardinality(B) \in Nat
  BY <1>2, RestCount, Zenon
<1>4. Q \subseteq G /\ Q \subseteq Position /\ Dense(e.queue) /\ H \subseteq G \ Q
  BY GivenFinite, Zenon DEF Balanced, QueueOk
<1>5. DOMAIN r.queue = Q \cup PB /\ Dense(r.queue)
  <2>. DEFINE eq == e.queue
              rq == r.queue
  <2>1. rq = PushFront(eq, B, byHolder)
    BY Zenon DEF Settling
  <2>2. DOMAIN eq \subseteq Position /\ Dense(eq) /\ \A x \in B : x.pos \notin DOMAIN eq
    BY <1>1, <1>4, Zenon
  <2>3. IsFiniteSet(B) /\ Entries(B)
    BY <1>1, Zenon
  <2>. HIDE DEF eq, rq
  <2>4. DOMAIN rq = DOMAIN eq \cup Pos(B) /\ Dense(rq)
    BY <2>1, <2>2, <2>3, Pushed, Zenon
  <2>. QED
    BY <2>4, Zenon DEF eq, rq
<1>6. \A x, y \in e.held : x.pos = y.pos => x = y
  BY Zenon DEF Balanced
<1>7. PX \subseteq H /\ PB \subseteq PX /\ PS = PX \ PB /\ HeldIn(r) = H \ PX
  <2>1. PX \subseteq H /\ HeldIn(r) = H \ PX
    <3>. DEFINE h == e.held
    <3>1. r.held = h \ X /\ X \in SUBSET h /\ \A x, y \in h : x.pos = y.pos => x = y
      BY <1>6, Zenon DEF Settling
    <3>. HIDE DEF h
    <3>2. Pos(X) \subseteq Pos(h) /\ Pos(h \ X) = Pos(h) \ Pos(X)
      BY <3>1, PosParts, Zenon
    <3>. QED
      BY <3>1, <3>2, Zenon DEF HeldIn, h
  <2>2. \A x, y \in X : x.pos = y.pos => x = y
    BY <1>6, Zenon
  <2>3. PB \subseteq PX /\ PS = PX \ PB
    BY <2>2, PosParts, Zenon
  <2>. QED
    BY <2>1, <2>3, Zenon
<1>8. IsFiniteSet(H) /\ IsFiniteSet(Q)
  BY <1>4, GivenFinite, FS_Subset, Zenon
<1>. HIDE DEF PX, PB, PS, Q, H
<1>9. H \cap Q = {} /\ (H \ PX) \cap (Q \cup PB) = {} /\ PB \subseteq H
  BY <1>4, <1>7, Zenon
<1>10. /\ Cardinality(H \ PX) = Cardinality(H) - Cardinality(PX)
       /\ Cardinality(H) \in Nat /\ Cardinality(Q) \in Nat
  BY <1>7, <1>8, <1>9, Moved, Zenon
<1>11. Cardinality(Q \cup PB) = Cardinality(Q) + Cardinality(PB)
  <2>1. Q \cap PB = {}
    BY <1>9, Zenon
  <2>2. IsFiniteSet(PB)
    BY <1>1, Zenon
  <2>. QED
    BY <1>8, <2>1, <2>2, DisjointCount, Zenon
<1>12. /\ e.settled \in Int
       /\ e.settled + Cardinality(H) + Cardinality(Q) = Cardinality(G)
  BY Zenon DEF Balanced, H, Q
<1>13. /\ r.settled \in Int
       /\ r.settled + Cardinality(HeldIn(r)) + Cardinality(DOMAIN r.queue) = Cardinality(G)
  <2>. DEFINE a == Cardinality(HeldIn(r))
              b == Cardinality(DOMAIN r.queue)
              c == r.settled
  <2>0. c = e.settled + Cardinality(X \ B)
    BY Zenon DEF Settling
  <2>1. /\ a = Cardinality(H) - Cardinality(X)
        /\ b = Cardinality(Q) + Cardinality(B)
        /\ c = e.settled + (Cardinality(X) - Cardinality(B))
    BY <1>1, <1>2, <1>3, <1>5, <1>7, <1>10, <1>11, <2>0, Zenon
  <2>. HIDE DEF a, b, c
  <2>2. c \in Int /\ c + a + b = Cardinality(G)
    BY <1>3, <1>10, <1>12, <2>1
  <2>. QED
    BY <2>2, Zenon DEF a, b, c
<1>14. r.next = e.next /\ \A x \in r.held : x \in e.held
  BY Zenon DEF Settling
<1>15. QueueOk(r.queue, r.next)
  BY <1>4, <1>5, <1>7, <1>14, Zenon DEF QueueOk
<1>16. HeldIn(r) \subseteq GivenTo(r.next) \ DOMAIN r.queue
  BY <1>4, <1>5, <1>7, <1>9, <1>14, Zenon
<1>17. Balanced(r)
  <2>1. NextOk(r.next)
    BY <1>14, Zenon DEF Balanced
  <2>2. \A x, y \in r.held : x.pos = y.pos => x = y
    BY <1>6, <1>14, Zenon
  <2>3. (\A x \in r.held : x.holder \in r.live) /\ (\A h \in r.live : h[1] \in Islands)
    BY Zenon DEF Settling
  <2>. QED
    BY <1>13, <1>14, <1>15, <1>16, <2>1, <2>2, <2>3, Zenon DEF Balanced
<1>18. ASSUME NEW p \in Position
       PROVE  /\ r.trained[p] <= 1
              /\ r.trained[p] = 1 => p \in G \ (HeldIn(r) \cup DOMAIN r.queue)
  <2>1. /\ e.trained[p] \in Nat /\ e.trained[p] <= 1
        /\ e.trained[p] = 1 => p \in G \ (H \cup Q)
    BY Zenon DEF Learned, SettledRows, H, Q
  <2>2. CASE p \in L
    <3>1. p \in PS
      BY <2>2, Zenon DEF PS, Settling
    <3>2. p \in H /\ p \in G /\ p \notin HeldIn(r) \cup DOMAIN r.queue
      BY <1>4, <1>5, <1>7, <3>1, Zenon
    <3>3. r.trained[p] = e.trained[p] + 1
      BY <2>2, Zenon DEF Settling
    <3>. QED
      BY <2>1, <3>2, <3>3
  <2>3. CASE p \notin L
    <3>1. r.trained[p] = e.trained[p]
      BY <2>3, Zenon DEF Settling
    <3>2. HeldIn(r) \cup DOMAIN r.queue \subseteq H \cup Q
      BY <1>5, <1>7, Zenon
    <3>. QED
      BY <2>1, <3>1, <3>2, Zenon
  <2>. QED
    BY <2>2, <2>3, Zenon
<1>19. Learned(r)
  BY <1>14, <1>18, Zenon DEF Learned, SettledRows, Settling
<1>20. G \ (H \cup Q) \subseteq G \ (HeldIn(r) \cup DOMAIN r.queue)
  BY <1>5, <1>7, Zenon
<1>21. SettledOf(e) \subseteq SettledOf(r)
  BY <1>14, <1>20, Zenon DEF SettledOf, H, Q
<1>. QED
  BY <1>17, <1>19, <1>21, Zenon

----------------------------------------------------------------------------
(* The operations of the dispenser keep its invariant.                     *)

\* Trained rows stay trained, over any number of steps.
LEMMA GrownSame ==
    ASSUME NEW a \in [Position -> Nat]
    PROVE  Grown(a, a)
<1>1. \A p \in Position : a[p] <= a[p]
  OBVIOUS
<1>. QED
  BY <1>1, Zenon DEF Grown

\* Growth of growth.
LEMMA GrownTwice ==
    ASSUME NEW a \in [Position -> Nat], NEW b \in [Position -> Nat], NEW c \in [Position -> Nat],
           Grown(a, b), Grown(b, c)
    PROVE  Grown(a, c)
<1>1. \A p \in Position : a[p] <= c[p]
  BY DEF Grown
<1>. QED
  BY <1>1, Zenon DEF Grown

\* No row moves from e to r.
SameRows(e, r) ==
    /\ r.next = e.next
    /\ r.queue = e.queue
    /\ r.held = e.held
    /\ r.settled = e.settled
    /\ r.trained = e.trained
    /\ r.live = e.live

\* The accounts of the rows depend on nothing else.
LEMMA RowsKept ==
    ASSUME NEW e, NEW r, SameRows(e, r)
    PROVE  /\ Balanced(e) => Balanced(r)
           /\ Learned(e) => Learned(r)
           /\ SettledOf(r) = SettledOf(e)
           /\ Learned(e) => Onward(e, r)
<1>1. HeldIn(r) = HeldIn(e)
  BY Zenon DEF SameRows, HeldIn
<1>2. Balanced(e) => Balanced(r)
  BY <1>1, Zenon DEF SameRows, Balanced
<1>3. Learned(e) => Learned(r)
  BY <1>1, Zenon DEF SameRows, Learned
<1>4. SettledOf(r) = SettledOf(e)
  BY <1>1, Zenon DEF SameRows, SettledOf
<1>5. ASSUME Learned(e)
      PROVE  Onward(e, r)
  <2>1. Grown(e.trained, r.trained)
    BY <1>5, GrownSame, Zenon DEF Learned, SettledRows, SameRows
  <2>2. SettledOf(e) \subseteq SettledOf(r)
    BY <1>4, Zenon
  <2>. QED
    BY <2>1, <2>2, Zenon DEF Onward
<1>. QED
  BY <1>2, <1>3, <1>4, <1>5, Zenon

\* Two moves onward are one.
LEMMA OnwardTwice ==
    ASSUME NEW a, Good(a), NEW b, Good(b), NEW c, Good(c), Onward(a, b), Onward(b, c)
    PROVE  Onward(a, c)
<1>1. a.trained \in [Position -> Nat] /\ b.trained \in [Position -> Nat] /\ c.trained \in [Position -> Nat]
  BY Zenon DEF Good, Learned, SettledRows
<1>2. Grown(a.trained, c.trained)
  BY <1>1, GrownTwice, Zenon DEF Onward
<1>3. SettledOf(a) \subseteq SettledOf(c)
  <2>1. SettledOf(a) \subseteq SettledOf(b) /\ SettledOf(b) \subseteq SettledOf(c)
    BY Zenon DEF Onward
  <2>. QED
    BY <2>1, Zenon
<1>. QED
  BY <1>2, <1>3, Zenon DEF Onward

\* What is done stays done, so stored answers stay true.
LEMMA StaysDone ==
    ASSUME NEW e, NEW r, SettledOf(e) \subseteq SettledOf(r), NEW i, DoneFor(e, i)
    PROVE  DoneFor(r, i)
BY Zenon DEF DoneFor

\* Stored ENDs stay true while settled rows stay settled.
LEMMA PromisesKept ==
    ASSUME NEW e, Promised(e), NEW r, SettledOf(e) \subseteq SettledOf(r),
           DOMAIN r.last = Holders,
           \A h \in Holders : r.last[h] = e.last[h] \/ r.last[h] = NoAnswer
    PROVE  Promised(r)
<1>1. NoAnswer.ans.type # "end"
  BY Zenon DEF NoAnswer
<1>. SUFFICES ASSUME NEW h \in Holders, r.last[h].ans.type = "end"
              PROVE  DoneFor(r, h[1])
  BY Zenon DEF Promised
<1>2. DoneFor(e, h[1])
  BY <1>1, Zenon DEF Promised
<1>. QED
  BY <1>2, StaysDone, Zenon

\* r is e with the holders of H retired.
Retires(e, H, r) ==
    /\ DOMAIN r = Fields /\ SameRows(e, r)
    /\ r.members = e.members \ H /\ r.last = e.last
    /\ \A h : IsRetired(r, h) <=> IsRetired(e, h) \/ h \in H

\* Members::retire moves no row; the holders of H lose their lease.
LEMMA RetireIs ==
    ASSUME NEW e, DOMAIN e = Fields, NEW H, NEW why
    PROVE  Retires(e, H, Retire(e, H, why))
<1>. DEFINE r == Retire(e, H, why)
            R == {[holder |-> h, why |-> why] : h \in {g \in H : ~IsRetired(e, g)}}
<1>1. r = [e EXCEPT !.members = e.members \ H, !.retired = e.retired \cup R]
  BY Zenon DEF Retire
<1>. HIDE DEF r
<1>2. \A h : (\E x \in R : x.holder = h) <=> h \in H /\ ~IsRetired(e, h)
  <2>1. ASSUME NEW h, h \in H, ~IsRetired(e, h)
        PROVE  \E x \in R : x.holder = h
    <3>. DEFINE x == [holder |-> h, why |-> why]
    <3>1. x \in R
      BY <2>1, Zenon
    <3>2. x.holder = h
      BY Zenon
    <3>. HIDE DEF x, R
    <3>. QED
      BY <3>1, <3>2, Zenon
  <2>2. ASSUME NEW h, NEW x \in R, x.holder = h
        PROVE  h \in H /\ ~IsRetired(e, h)
    <3>1. PICK g \in {g \in H : ~IsRetired(e, g)} : x = [holder |-> g, why |-> why]
      BY Zenon
    <3>2. g = h
      BY <2>2, <3>1, Zenon
    <3>. QED
      BY <3>1, <3>2, Zenon
  <2>. QED
    BY <2>1, <2>2, Zenon
<1>. HIDE DEF R
<1>3. DOMAIN r = Fields /\ r.members = e.members \ H /\ r.retired = e.retired \cup R
      /\ r.next = e.next /\ r.queue = e.queue /\ r.held = e.held /\ r.settled = e.settled
      /\ r.trained = e.trained /\ r.live = e.live /\ r.last = e.last
  BY <1>1, Zenon DEF Fields
<1>4. \A h : IsRetired(r, h) <=> IsRetired(e, h) \/ h \in H
  <2>. SUFFICES ASSUME NEW h
                PROVE  IsRetired(r, h) <=> IsRetired(e, h) \/ h \in H
    BY Zenon
  <2>1. IsRetired(r, h) <=> IsRetired(e, h) \/ \E x \in R : x.holder = h
    BY <1>3, Zenon DEF IsRetired
  <2>. QED
    BY <1>2, <2>1, Zenon
<1>5. Retires(e, H, r)
  BY <1>3, <1>4, Zenon DEF SameRows, Retires
<1>. QED
  BY <1>5, Zenon DEF r

\* A retired holder that stays live is still tracked.
LEMMA RetireGood ==
    ASSUME NEW e, Good(e), NEW H, NEW why
    PROVE  Good(Retire(e, H, why))
<1>. DEFINE r == Retire(e, H, why)
<1>0. DOMAIN e = Fields
  BY Zenon DEF Good
<1>r. Retires(e, H, r)
  BY <1>0, RetireIs, Zenon
<1>. HIDE DEF r
<1>1. /\ DOMAIN r = Fields /\ SameRows(e, r) /\ r.members = e.members \ H /\ r.last = e.last
      /\ \A h : IsRetired(r, h) <=> IsRetired(e, h) \/ h \in H
  BY <1>r, Zenon DEF Retires
<1>2. Balanced(r) /\ Learned(r) /\ SettledOf(r) = SettledOf(e)
  BY <1>1, RowsKept, Zenon DEF Good
<1>4. Promised(r)
  BY <1>1, <1>2, Zenon DEF Good, Promised, DoneFor
<1>3. Tracked(r)
  <2>. SUFFICES ASSUME NEW h \in r.live
                PROVE  h \in r.members \/ IsRetired(r, h)
    BY Zenon DEF Tracked
  <2>1. h \in e.members \/ IsRetired(e, h)
    BY <1>1, Zenon DEF Good, Tracked, SameRows
  <2>2. CASE h \in H
    BY <1>1, <2>2, Zenon
  <2>3. CASE h \notin H
    BY <1>1, <2>1, <2>3, Zenon
  <2>. QED
    BY <2>2, <2>3, Zenon
<1>. QED
  BY <1>1, <1>2, <1>3, <1>4, Zenon DEF Good, r

\* r is e with the rows of the holders of H returned.
Reclaims(e, H, r) ==
    /\ Good(r)
    /\ r.live = e.live \ H /\ r.members = e.members \ H
    /\ Onward(e, r)

\* Dispenser::reclaim returns all rows of the holders.
LEMMA ReclaimGood ==
    ASSUME NEW e, Good(e), NEW H, NEW why
    PROVE  Reclaims(e, H, Reclaim(e, H, why))
<1>. DEFINE r == Reclaim(e, H, why)
            a == Retire(e, H, why)
            mine == {x \in e.held : x.holder \in H}
            last == [h \in Holders |-> IF h \in H THEN NoAnswer ELSE a.last[h]]
            q == PushFront(e.queue, mine, TRUE)
<1>1. Good(a)
  BY RetireGood, Zenon
<1>2. DOMAIN a = Fields /\ SameRows(e, a) /\ a.members = e.members \ H
  <2>0. DOMAIN e = Fields
    BY Zenon DEF Good
  <2>1. Retires(e, H, a)
    BY <2>0, RetireIs, Zenon
  <2>. HIDE DEF a
  <2>. QED
    BY <2>1, Zenon DEF Retires
<1>3. r = [a EXCEPT !.live = a.live \ H, !.last = last, !.held = a.held \ mine,
                    !.queue = PushFront(a.queue, mine, TRUE)]
  BY Zenon DEF Reclaim
<1>. HIDE DEF r
<1>4. mine \in SUBSET e.held /\ \A x \in e.held \ mine : x.holder \notin H
  BY Zenon
<1>l. /\ DOMAIN last = Holders
      /\ \A h \in Holders : last[h] = a.last[h] \/ last[h] = NoAnswer
  BY Zenon
<1>. HIDE DEF a, mine, last
<1>5. /\ DOMAIN r = Fields /\ r.live = a.live \ H /\ r.held = a.held \ mine
      /\ r.queue = PushFront(a.queue, mine, TRUE)
      /\ r.next = a.next /\ r.settled = a.settled /\ r.trained = a.trained
      /\ r.members = a.members /\ r.retired = a.retired /\ r.last = last
  BY <1>2, <1>3, Zenon DEF Fields
<1>6. /\ a.live = e.live /\ a.held = e.held /\ a.queue = e.queue /\ a.next = e.next
      /\ a.settled = e.settled /\ a.trained = e.trained
  BY <1>2, Zenon DEF SameRows
<1>7. /\ e.settled \in Int /\ (\A x \in e.held : x.holder \in e.live)
      /\ (\A h \in e.live : h[1] \in Islands)
      /\ e.trained \in [Position -> Nat]
  BY Zenon DEF Good, Balanced, Learned, SettledRows
<1>8. mine \ mine = {} /\ Cardinality({}) = 0 /\ e.settled = e.settled + 0
  BY <1>7, FS_EmptySet
<1>9. \A x \in r.held : x.holder \in r.live
  BY <1>4, <1>5, <1>6, <1>7, Zenon
<1>10. \A h \in r.live : h[1] \in Islands
  BY <1>5, <1>6, <1>7, Zenon
<1>11. r.settled = e.settled + Cardinality(mine \ mine)
  BY <1>5, <1>6, <1>8, Zenon
<1>12. Settling(e, r, mine, mine, {}, TRUE)
  BY <1>5, <1>6, <1>7, <1>9, <1>10, <1>11, Zenon DEF Settling
<1>13. Balanced(r) /\ Learned(r) /\ SettledOf(e) \subseteq SettledOf(r)
  BY <1>4, <1>12, Settles, Zenon DEF Good
<1>14. Tracked(r)
  BY <1>1, <1>5, Zenon DEF Good, Tracked, IsRetired
<1>15. Promised(r)
  <2>1. SettledOf(a) = SettledOf(e)
    BY <1>2, RowsKept, Zenon
  <2>. QED
    BY <1>1, <1>l, <1>5, <1>13, <2>1, PromisesKept, Zenon DEF Good
<1>16. Onward(e, r)
  BY <1>5, <1>6, <1>7, <1>13, GrownSame, Zenon DEF Onward
<1>17. Reclaims(e, H, r)
  BY <1>2, <1>5, <1>6, <1>13, <1>14, <1>15, <1>16, Zenon DEF Good, Reclaims
<1>. QED
  BY <1>17, Zenon DEF r

\* Members::join and Dispenser::expire.
LEMMA JoinGood ==
    ASSUME NEW e, Good(e), NEW h, NEW r, r = Join(e, h)
    PROVE  Good(r) /\ h \in r.members /\ SameRows(e, r)
<1>1. CASE h \in e.members
  BY <1>1, Zenon DEF Join, SameRows
<1>2. CASE h \notin e.members
  <2>. DEFINE H == {m \in e.members : m[1] = h[1]}
              a == Retire(e, H, "superseded")
  <2>1. r = [a EXCEPT !.members = a.members \cup {h}]
    BY <1>2, Zenon DEF Join
  <2>. HIDE DEF H
  <2>2. Good(a)
    BY RetireGood, Zenon
  <2>3. SameRows(e, a)
    <3>0. DOMAIN e = Fields
      BY Zenon DEF Good
    <3>1. Retires(e, H, a)
      BY <3>0, RetireIs, Zenon
    <3>. HIDE DEF a
    <3>. QED
      BY <3>1, Zenon DEF Retires
  <2>4. DOMAIN a = Fields
    BY <2>2, Zenon DEF Good
  <2>. HIDE DEF a
  <2>5. /\ DOMAIN r = Fields /\ r.members = a.members \cup {h} /\ r.retired = a.retired
        /\ r.next = a.next /\ r.queue = a.queue /\ r.held = a.held /\ r.settled = a.settled
        /\ r.trained = a.trained /\ r.live = a.live /\ r.last = a.last
    BY <2>1, <2>4, Zenon DEF Fields
  <2>6. SameRows(a, r) /\ SameRows(e, r)
    BY <2>3, <2>5, Zenon DEF SameRows
  <2>7. Balanced(r) /\ Learned(r) /\ SettledOf(r) = SettledOf(a)
    BY <2>2, <2>6, RowsKept, Zenon DEF Good
  <2>8. Tracked(r)
    BY <2>2, <2>5, Zenon DEF Good, Tracked, IsRetired
  <2>9. Promised(r)
    BY <2>2, <2>5, <2>7, Zenon DEF Good, Promised, DoneFor
  <2>. QED
    BY <2>5, <2>6, <2>7, <2>8, <2>9, Zenon DEF Good
<1>. QED
  BY <1>1, <1>2, Zenon

\* Dispenser::expire: retire the silent, then reclaim from the retired.
LEMMA ExpireGood ==
    ASSUME NEW e, Good(e), NEW gone, NEW r, r = Expire(e, gone)
    PROVE  Good(r) /\ Onward(e, r)
<1>. DEFINE a == Retire(e, gone, "expired")
            H == {h \in a.live : IsRetired(a, h)}
<1>1. r = Reclaim(a, H, "expired")
  BY Zenon DEF Expire
<1>2. Good(a)
  BY RetireGood, Zenon
<1>3. Onward(e, a)
  <2>0. DOMAIN e = Fields
    BY Zenon DEF Good
  <2>r. Retires(e, gone, a)
    BY <2>0, RetireIs, Zenon
  <2>. HIDE DEF a
  <2>1. SameRows(e, a)
    BY <2>r, Zenon DEF Retires
  <2>. QED
    BY <2>1, RowsKept, Zenon DEF Good
<1>. HIDE DEF a, H
<1>4. Good(r) /\ Onward(a, r)
  <2>1. Reclaims(a, H, r)
    BY <1>1, <1>2, ReclaimGood, Zenon
  <2>. QED
    BY <2>1, Zenon DEF Reclaims
<1>. QED
  BY <1>2, <1>3, <1>4, OnwardTwice, Zenon

\* An END is an answer only when the island's data ended.
Truthful(r, h) == r.ans.type = "end" => DoneFor(r.d, h[1])

\* A holder is an island and its incarnation.
LEMMA HolderParts ==
    ASSUME NEW h \in Holders
    PROVE  h[1] \in Islands
BY Zenon DEF Holders

\* A fenced or refused request.
LEMMA FencedIs ==
    ASSUME NEW e, NEW h
    PROVE  Fenced(e, h).type # "end"
BY Zenon DEF Fenced

\* Dispenser::open_with of a learner of the run.
LEMMA OpenGood ==
    ASSUME NEW e, Good(e), NEW h, h[1] \in Islands, NEW r, r = Open(e, h)
    PROVE  Good(r.d) /\ Onward(e, r.d) /\ Truthful(r, h)
<1>0. r.ans.type # "end"
  BY FencedIs, Zenon DEF Open
<1>1. CASE IsRetired(e, h) \/ h \in e.live
  <2>1. r.d = e
    BY <1>1, Zenon DEF Open
  <2>2. Onward(e, e)
    BY RowsKept, Zenon DEF Good, SameRows
  <2>. QED
    BY <1>0, <2>1, <2>2, Zenon DEF Truthful
<1>2. CASE ~IsRetired(e, h) /\ h \notin e.live
  <2>. DEFINE a == Join(e, h)
              older == {g \in e.live : g[1] = h[1]}
              b == Reclaim(a, older, "superseded")
              c == [b EXCEPT !.live = b.live \cup {h}, !.last[h] = NoAnswer]
  <2>1. r.d = c
    <3>1. r = [d |-> c, ans |-> [type |-> "welcome"]]
      BY <1>2, Zenon DEF Open
    <3>. HIDE DEF c
    <3>. QED
      BY <3>1
  <2>2. h \notin older
    BY <1>2, Zenon
  <2>. HIDE DEF older
  <2>3. Good(a) /\ h \in a.members /\ SameRows(e, a)
    <3>. HIDE DEF a
    <3>. QED
      BY JoinGood, Zenon DEF a
  <2>. HIDE DEF a
  <2>4. Good(b) /\ b.live = a.live \ older /\ b.members = a.members \ older /\ Onward(a, b)
    <3>1. Reclaims(a, older, b)
      BY <2>3, ReclaimGood, Zenon
    <3>. HIDE DEF b
    <3>. QED
      BY <3>1, Zenon DEF Reclaims
  <2>5. DOMAIN b = Fields
    BY <2>4, Zenon DEF Good
  <2>6. c = [b EXCEPT !.live = b.live \cup {h}, !.last = [b.last EXCEPT ![h] = NoAnswer]]
    BY Zenon
  <2>. HIDE DEF b, c
  <2>7. /\ c.last = [b.last EXCEPT ![h] = NoAnswer]
        /\ DOMAIN c = Fields /\ c.live = b.live \cup {h} /\ c.held = b.held /\ c.queue = b.queue
        /\ c.next = b.next /\ c.settled = b.settled /\ c.trained = b.trained
        /\ c.members = b.members /\ c.retired = b.retired
    BY <2>5, <2>6, Zenon DEF Fields
  <2>8. HeldIn(c) = HeldIn(b)
    BY <2>7, Zenon DEF HeldIn
  <2>9. (\A x \in c.held : x.holder \in c.live) /\ (\A g \in c.live : g[1] \in Islands)
    <3>1. (\A x \in b.held : x.holder \in b.live) /\ (\A g \in b.live : g[1] \in Islands)
      BY <2>4, Zenon DEF Good, Balanced
    <3>. QED
      BY <2>7, <3>1, Zenon
  <2>10. Balanced(c)
    BY <2>4, <2>7, <2>8, <2>9, Zenon DEF Good, Balanced
  <2>11. Learned(c)
    BY <2>4, <2>7, <2>8, Zenon DEF Good, Learned
  <2>12. Tracked(c)
    <3>. SUFFICES ASSUME NEW g \in c.live
                  PROVE  g \in c.members \/ IsRetired(c, g)
      BY Zenon DEF Tracked
    <3>1. CASE g = h
      BY <2>2, <2>3, <2>4, <2>7, <3>1, Zenon
    <3>2. CASE g # h
      <4>1. g \in b.live
        BY <2>7, <3>2, Zenon
      <4>2. g \in b.members \/ IsRetired(b, g)
        BY <2>4, <4>1, Zenon DEF Good, Tracked
      <4>. QED
        BY <2>7, <4>2, Zenon DEF IsRetired
    <3>. QED
      BY <3>1, <3>2, Zenon
  <2>13. SettledOf(c) = SettledOf(b)
    BY <2>7, <2>8, Zenon DEF SettledOf
  <2>14. Promised(c)
    <3>1. Promised(b) /\ DOMAIN b.last = Holders
      BY <2>4, Zenon DEF Good, Promised
    <3>2. /\ DOMAIN c.last = Holders
          /\ \A g \in Holders : c.last[g] = b.last[g] \/ c.last[g] = NoAnswer
      BY <2>7, <3>1, Zenon
    <3>. QED
      BY <2>13, <3>1, <3>2, PromisesKept, Zenon
  <2>15. Good(c)
    BY <2>7, <2>10, <2>11, <2>12, <2>14, Zenon DEF Good
  <2>16. Onward(b, c)
    <3>1. Grown(b.trained, c.trained)
      BY <2>4, <2>7, GrownSame, Zenon DEF Good, Learned, SettledRows
    <3>. QED
      BY <2>13, <3>1, Zenon DEF Onward
  <2>17. Onward(e, a)
    BY <2>3, RowsKept, Zenon DEF Good
  <2>18. Onward(e, b)
    BY <2>3, <2>4, <2>17, OnwardTwice, Zenon
  <2>19. Onward(e, c)
    BY <2>4, <2>15, <2>16, <2>18, OnwardTwice, Zenon
  <2>. QED
    BY <1>0, <2>1, <2>15, <2>19, Zenon DEF Truthful
<1>. QED
  BY <1>1, <1>2, Zenon

\* The entries of a block b that holder h gets.
BlockOf(P, b, h) == {[pos |-> p, block |-> b, holder |-> h] : p \in P}

\* The claim of h takes `old` from the queues and `fresh` from the streams.
Granting(e, r, h, b, old, fresh) ==
    /\ NextOk(r.next)
    /\ GivenTo(r.next) = GivenTo(e.next) \cup fresh
    /\ fresh \cap GivenTo(e.next) = {}
    /\ fresh \subseteq Position
    /\ old \subseteq DOMAIN e.queue
    /\ DOMAIN r.queue = DOMAIN e.queue \ old
    /\ Dense(r.queue)
    /\ r.held = e.held \cup BlockOf(old \cup fresh, b, h)
    /\ h \in e.live
    /\ r.live = e.live
    /\ r.settled = e.settled
    /\ r.trained = e.trained

\* The positions of the entries of a block.
LEMMA BlockIs ==
    ASSUME NEW P, NEW b, NEW h
    PROVE  /\ \A x \in BlockOf(P, b, h) : x.pos \in P /\ x.holder = h
           /\ Pos(BlockOf(P, b, h)) = P
           /\ \A x, y \in BlockOf(P, b, h) : x.pos = y.pos => x = y
<1>1. \A x \in BlockOf(P, b, h) : \E p \in P : x = [pos |-> p, block |-> b, holder |-> h]
  BY Zenon DEF BlockOf
<1>2. \A x \in BlockOf(P, b, h) : x.pos \in P /\ x.holder = h
                                  /\ x = [pos |-> x.pos, block |-> b, holder |-> h]
  <2>. SUFFICES ASSUME NEW x \in BlockOf(P, b, h)
                PROVE  x.pos \in P /\ x.holder = h /\ x = [pos |-> x.pos, block |-> b, holder |-> h]
    BY Zenon
  <2>1. PICK p \in P : x = [pos |-> p, block |-> b, holder |-> h]
    BY <1>1, Zenon
  <2>. QED
    BY <2>1, Zenon
<1>3. \A p \in P : \E x \in BlockOf(P, b, h) : x.pos = p
  <2>. SUFFICES ASSUME NEW p \in P
                PROVE  \E x \in BlockOf(P, b, h) : x.pos = p
    BY Zenon
  <2>1. [pos |-> p, block |-> b, holder |-> h] \in BlockOf(P, b, h)
    BY Zenon DEF BlockOf
  <2>. QED
    BY <2>1, Zenon
<1>4. Pos(BlockOf(P, b, h)) = P
  <2>. DEFINE B == BlockOf(P, b, h)
  <2>. HIDE DEF B
  <2>1. \A p \in Pos(B) : p \in P
    <3>1. \A x \in B : x.pos \in P
      BY <1>2, Zenon DEF B
    <3>. SUFFICES ASSUME NEW p \in Pos(B)
                  PROVE  p \in P
      BY Zenon
    <3>2. PICK x \in B : p = x.pos
      BY Zenon DEF Pos
    <3>. QED
      BY <3>1, <3>2, Zenon
  <2>2. \A p \in P : p \in Pos(B)
    BY <1>3, PosIs, Zenon DEF B
  <2>. QED
    BY <2>1, <2>2, Zenon DEF B
<1>5. \A x, y \in BlockOf(P, b, h) : x.pos = y.pos => x = y
  BY <1>2, Zenon
<1>. QED
  BY <1>2, <1>4, <1>5, Zenon

\* The positions of two sets of entries.
LEMMA PosUnion ==
    ASSUME NEW X, NEW Y
    PROVE  Pos(X \cup Y) = Pos(X) \cup Pos(Y)
<1>. DEFINE A == Pos(X \cup Y)
            B == Pos(X) \cup Pos(Y)
<1>1. \A p \in A : p \in B
  BY PosIs
<1>2. \A p \in B : p \in A
  BY PosIs
<1>3. A = B
  <2>. HIDE DEF A, B
  <2>. QED
    BY <1>1, <1>2, Zenon
<1>. QED
  BY <1>3, Zenon

\* Rows given out again or for the first time stay accounted for.
LEMMA Grants ==
    ASSUME NEW e, Balanced(e), Learned(e),
           NEW h, NEW b, NEW old, NEW fresh, NEW r, Granting(e, r, h, b, old, fresh)
    PROVE  Balanced(r) /\ Learned(r) /\ SettledOf(e) \subseteq SettledOf(r)
<1>. DEFINE Q == DOMAIN e.queue
            H == HeldIn(e)
            G == GivenTo(e.next)
            P == old \cup fresh
            B == BlockOf(P, b, h)
<1>1. /\ NextOk(r.next) /\ GivenTo(r.next) = G \cup fresh /\ fresh \cap G = {}
      /\ fresh \subseteq Position /\ old \subseteq Q
      /\ DOMAIN r.queue = Q \ old /\ Dense(r.queue)
      /\ r.held = e.held \cup B /\ h \in e.live /\ r.live = e.live
      /\ r.settled = e.settled /\ r.trained = e.trained
  BY Zenon DEF Granting
<1>2. /\ Q \subseteq G /\ H \subseteq G \ Q
      /\ (\A x, y \in e.held : x.pos = y.pos => x = y)
      /\ (\A x \in e.held : x.holder \in e.live) /\ (\A g \in e.live : g[1] \in Islands)
      /\ e.settled \in Int /\ e.settled + Cardinality(H) + Cardinality(Q) = Cardinality(G)
  BY Zenon DEF Balanced, QueueOk
<1>3. /\ (\A x \in B : x.pos \in P /\ x.holder = h) /\ Pos(B) = P
      /\ (\A x, y \in B : x.pos = y.pos => x = y)
  <2>. HIDE DEF P
  <2>. QED
    BY BlockIs, Zenon
<1>4. HeldIn(r) = H \cup P
  <2>1. Pos(e.held \cup B) = Pos(e.held) \cup Pos(B)
    BY PosUnion, Zenon
  <2>. QED
    BY <1>1, <1>3, <2>1, Zenon DEF HeldIn
<1>5. \A x \in e.held : x.pos \in H
  BY PosIs, Zenon DEF HeldIn
<1>6. G \subseteq Position /\ IsFiniteSet(Position)
  BY GivenFinite, PositionsFinite, Zenon
<1>. HIDE DEF Q, H, G, B
<1>7. H \cap P = {} /\ HeldIn(r) \subseteq GivenTo(r.next) \ DOMAIN r.queue
      /\ DOMAIN r.queue \subseteq GivenTo(r.next)
  BY <1>1, <1>2, <1>4, Zenon
<1>8. \A x, y \in r.held : x.pos = y.pos => x = y
  <2>. SUFFICES ASSUME NEW x \in r.held, NEW y \in r.held, x.pos = y.pos
                PROVE  x = y
    BY Zenon
  <2>1. (x \in e.held \/ x \in B) /\ (y \in e.held \/ y \in B)
    BY <1>1, Zenon
  <2>2. ~(x.pos \in H /\ y.pos \in P) /\ ~(x.pos \in P /\ y.pos \in H)
    BY <1>7, Zenon
  <2>. QED
    BY <1>2, <1>3, <1>5, <2>1, <2>2, Zenon
<1>9. \A x \in r.held : x.holder \in r.live
  BY <1>1, <1>2, <1>3, Zenon
<1>10. /\ IsFiniteSet(H) /\ IsFiniteSet(Q) /\ IsFiniteSet(G) /\ IsFiniteSet(old)
       /\ IsFiniteSet(fresh)
  <2>1. H \subseteq Position /\ Q \subseteq Position /\ old \subseteq Position
    BY <1>1, <1>2, <1>6, Zenon
  <2>. QED
    BY <1>1, <1>6, <2>1, FS_Subset, Zenon
<1>11. Cardinality(Q \ old) = Cardinality(Q) - Cardinality(old)
       /\ Cardinality(Q) \in Nat /\ Cardinality(old) \in Nat
  BY <1>1, <1>10, RestCount, Zenon
<1>12. Cardinality(G \cup fresh) = Cardinality(G) + Cardinality(fresh)
       /\ Cardinality(G) \in Nat /\ Cardinality(fresh) \in Nat /\ Cardinality(H) \in Nat
  <2>1. G \cap fresh = {}
    BY <1>1, Zenon
  <2>. QED
    BY <1>10, <2>1, DisjointCount, FS_CardinalityType, Zenon
<1>13. IsFiniteSet(P) /\ Cardinality(P) = Cardinality(old) + Cardinality(fresh)
  <2>1. old \cap fresh = {}
    BY <1>1, <1>2, Zenon
  <2>2. IsFiniteSet(P)
    BY <1>10, FS_Union, Zenon
  <2>. QED
    BY <1>10, <2>1, <2>2, DisjointCount, Zenon
<1>. HIDE DEF P
<1>14. Cardinality(H \cup P) = Cardinality(H) + Cardinality(P)
  BY <1>7, <1>10, <1>13, DisjointCount, Zenon
<1>15. r.settled + Cardinality(HeldIn(r)) + Cardinality(DOMAIN r.queue) = Cardinality(GivenTo(r.next))
  <2>. DEFINE u == Cardinality(HeldIn(r))
              v == Cardinality(DOMAIN r.queue)
              w == Cardinality(GivenTo(r.next))
              t == r.settled
  <2>1. /\ u = Cardinality(H) + (Cardinality(old) + Cardinality(fresh))
        /\ v = Cardinality(Q) - Cardinality(old)
        /\ w = Cardinality(G) + Cardinality(fresh)
        /\ t = e.settled
    BY <1>1, <1>4, <1>11, <1>12, <1>13, <1>14, Zenon
  <2>. HIDE DEF u, v, w, t
  <2>2. t + u + v = w
    BY <1>2, <1>11, <1>12, <2>1
  <2>. QED
    BY <2>2, Zenon DEF u, v, w, t
<1>16. Balanced(r)
  BY <1>1, <1>2, <1>7, <1>8, <1>9, <1>15, Zenon DEF Balanced, QueueOk
<1>17. ASSUME NEW p \in Position
       PROVE  /\ r.trained[p] <= 1
              /\ r.trained[p] = 1 => p \in GivenTo(r.next) \ (HeldIn(r) \cup DOMAIN r.queue)
  <2>1. e.trained[p] <= 1 /\ (e.trained[p] = 1 => p \in G \ (H \cup Q))
    BY Zenon DEF Learned, SettledRows, G, H, Q
  <2>2. p \in G \ (H \cup Q) => p \in GivenTo(r.next) \ (HeldIn(r) \cup DOMAIN r.queue)
    BY <1>1, <1>4, Zenon DEF P
  <2>. QED
    BY <1>1, <2>1, <2>2, Zenon
<1>18. Learned(r)
  <2>1. r.trained \in [Position -> Nat]
    BY <1>1, Zenon DEF Learned, SettledRows
  <2>. QED
    BY <1>17, <2>1, Zenon DEF Learned, SettledRows
<1>19. G \ (H \cup Q) \subseteq GivenTo(r.next) \ (HeldIn(r) \cup DOMAIN r.queue)
  BY <1>1, <1>4, Zenon DEF P
<1>20. SettledOf(e) \subseteq SettledOf(r)
  BY <1>19, Zenon DEF SettledOf, G, H, Q
<1>. QED
  BY <1>16, <1>18, <1>20, Zenon

\* A stream has no more fresh positions than positions.
LEMMA LimitIs ==
    ASSUME NEW s \in Streams
    PROVE  Limit(s) \in Nat /\ Limit(s) <= StreamPositions
<1>. DEFINE m == Rows[s] * Passes
<1>1. Rows[s] \in Nat /\ Passes \in Nat /\ StreamPositions \in Nat
  BY DispenserAssumption, Zenon
<1>2. m \in Nat
  BY <1>1
<1>3. Limit(s) = IF Passes > 0 /\ m < StreamPositions THEN m ELSE StreamPositions
  BY Zenon DEF Limit
<1>. HIDE DEF m
<1>. QED
  BY <1>1, <1>2, <1>3

\* What pick_fresh gives to a claim.
LEMMA PickedIs ==
    ASSUME NEW next, NextOk(next), NEW i \in Islands, NEW need \in 0 .. MaxBlock,
           NEW n, n = PickFresh(next, Accept[i], need)
    PROVE  /\ n \in [Streams -> Nat]
           /\ \A s \in Streams : next[s] + n[s] <= Limit(s)
<1>1. Accept[i] \in SUBSET Streams
  BY DispenserAssumption, Zenon
<1>2. \A s \in Streams : next[s] <= Limit(s)
  BY Zenon DEF NextOk
<1>3. next \in [Streams -> 0 .. StreamPositions]
  <2>1. \A s \in Streams : next[s] \in 0 .. StreamPositions
    <3>. SUFFICES ASSUME NEW s \in Streams PROVE next[s] \in 0 .. StreamPositions
      BY Zenon
    <3>1. next[s] \in Nat /\ next[s] <= Limit(s) /\ Limit(s) \in Nat /\ Limit(s) <= StreamPositions
      BY LimitIs, Zenon DEF NextOk
    <3>. QED
      BY <3>1, DispenserAssumption
  <2>. QED
    BY <2>1, Zenon DEF NextOk
<1>. DEFINE N == [Streams -> 0 .. StreamPositions]
            A == Accept[i]
            S == SUBSET Streams
            R == 0 .. MaxBlock
            OK(x, a, k) == LET m == PickFresh(x, a, k)
                           IN  /\ m \in [Streams -> Nat]
                               /\ \A s \in Streams : x[s] + m[s] <= Limit(s) /\ (m[s] > 0 => s \in a)
<1>4. \A x \in N, a \in S, k \in R : (\A s \in Streams : x[s] <= Limit(s)) => OK(x, a, k)
  BY PickFreshAssumption, Zenon
<1>5. next \in N /\ A \in S /\ need \in R
  BY <1>1, <1>3, Zenon
<1>6. OK(next, A, need)
  <2>. HIDE DEF N, A, S, R, OK
  <2>. QED
    BY <1>2, <1>4, <1>5, Zenon
<1>7. n \in [Streams -> Nat] /\ \A s \in Streams : next[s] + n[s] <= Limit(s)
  BY <1>6, Zenon
<1>. QED
  BY <1>7, Zenon

\* Fresh positions, after those given out so far.
FreshRows(next, n) == {p \in Position : next[p[1]] <= p[2] /\ p[2] < next[p[1]] + n[p[1]]}

\* The streams after n fresh rows of each were given.
Advanced(next, n) == [s \in Streams |-> next[s] + n[s]]

\* The rows a claim takes from the streams were not given out before.
LEMMA FreshIs ==
    ASSUME NEW next, NextOk(next), NEW n \in [Streams -> Nat],
           \A s \in Streams : next[s] + n[s] <= Limit(s),
           NEW after, after = Advanced(next, n)
    PROVE  /\ NextOk(after)
           /\ GivenTo(after) = GivenTo(next) \cup FreshRows(next, n)
           /\ FreshRows(next, n) \cap GivenTo(next) = {}
           /\ FreshRows(next, n) \subseteq Position
<1>1. \A s \in Streams : next[s] \in Nat /\ n[s] \in Nat /\ after[s] = next[s] + n[s]
  BY Zenon DEF NextOk, Advanced
<1>2. after \in [Streams -> Nat]
  BY <1>1 DEF Advanced
<1>3. NextOk(after)
  BY <1>1, <1>2, Zenon DEF NextOk
<1>4. ASSUME NEW p \in Position
      PROVE  /\ p[2] < after[p[1]] <=> p[2] < next[p[1]] \/ (next[p[1]] <= p[2] /\ p[2] < next[p[1]] + n[p[1]])
             /\ ~(p[2] < next[p[1]] /\ next[p[1]] <= p[2])
  <2>1. p[1] \in Streams /\ p[2] \in Nat
    BY PositionParts, Zenon
  <2>2. next[p[1]] \in Nat /\ n[p[1]] \in Nat /\ after[p[1]] = next[p[1]] + n[p[1]]
    BY <1>1, <2>1, Zenon
  <2>. QED
    BY <2>1, <2>2
<1>5. GivenTo(after) = GivenTo(next) \cup FreshRows(next, n)
  BY <1>4, Zenon DEF GivenTo, FreshRows
<1>6. FreshRows(next, n) \cap GivenTo(next) = {}
  BY <1>4, Zenon DEF GivenTo, FreshRows
<1>. QED
  BY <1>3, <1>5, <1>6, Zenon DEF FreshRows

\* A claim that takes nothing from ended streams.
LEMMA EndedIs ==
    ASSUME NEW e, Good(e), NEW i \in Islands, NEW wanted \in Nat \ {0},
           FromQueues(e, Accept[i], wanted) = {}, Ended(e, Accept[i])
    PROVE  DoneFor(e, i)
<1>1. NextOk(e.next) /\ DOMAIN e.queue \subseteq Position /\ Dense(e.queue)
  <2>1. DOMAIN e.queue \subseteq GivenTo(e.next) /\ NextOk(e.next) /\ Dense(e.queue)
    BY Zenon DEF Good, Balanced, QueueOk
  <2>. QED
    BY <2>1, GivenFinite, Zenon
<1>2. \A p \in DOMAIN e.queue : p[1] \notin Accept[i]
  BY <1>1, TakenNone, Zenon
<1>3. ASSUME NEW p \in Position, p[1] \in Accept[i]
      PROVE  p \in SettledOf(e)
  <2>1. p[1] \in Streams /\ p[2] \in Nat /\ p[2] < Limit(p[1])
    BY PositionParts, Zenon
  <2>2. e.next[p[1]] >= Limit(p[1])
    BY <1>3, ZenonT(30) DEF Ended, Exhausted
  <2>3. e.next[p[1]] \in Nat /\ Limit(p[1]) \in Nat
    BY <1>1, <2>1, LimitIs, Zenon DEF NextOk
  <2>4. p[2] < e.next[p[1]]
    BY <2>1, <2>2, <2>3
  <2>5. p \in GivenTo(e.next)
    BY <2>4, Zenon DEF GivenTo
  <2>6. p \notin DOMAIN e.queue
    BY <1>2, <1>3, Zenon
  <2>7. p \notin HeldIn(e)
    <3>1. \A x \in e.held : x.pos[1] \notin Accept[i]
      BY Zenon DEF Ended
    <3>2. ASSUME NEW q \in Pos(e.held)
          PROVE  q[1] \notin Accept[i]
      <4>1. PICK x \in e.held : q = x.pos
        BY Zenon DEF Pos
      <4>. QED
        BY <3>1, <4>1, Zenon
    <3>. QED
      BY <1>3, <3>2, Zenon DEF HeldIn
  <2>. QED
    BY <2>5, <2>6, <2>7, Zenon DEF SettledOf
<1>. QED
  BY <1>3, Zenon DEF DoneFor

\* Dispenser::claim_new of a live holder.
LEMMA ClaimNewGood ==
    ASSUME NEW e, Good(e), NEW h \in e.live, NEW wanted \in Nat, NEW r, r = ClaimNew(e, h, wanted)
    PROVE  DOMAIN r = {"d", "ans"} /\ Good(r.d) /\ Onward(e, r.d) /\ Truthful(r, h)
<1>. DEFINE i == h[1]
            old == FromQueues(e, Accept[i], wanted)
            n == PickFresh(e.next, Accept[i], wanted - Cardinality(old))
            fresh == FreshRows(e.next, n)
            given == old \cup fresh
            b == e.nextBlock
            next == [s \in Streams |-> e.next[s] + n[s]]
            queue == [p \in DOMAIN e.queue \ old |-> e.queue[p] - Cardinality(Of(old, p[1]))]
            c == [e EXCEPT !.next = next, !.queue = queue, !.nextBlock = b + 1,
                           !.held = e.held \cup BlockOf(given, b, h)]
<1>0. Onward(e, e) /\ i \in Islands
  BY RowsKept, Zenon DEF Good, SameRows, Balanced
<1>1. CASE wanted = 0 \/ wanted > MaxBlock
  <2>1. r = [d |-> e, ans |-> [type |-> "refused"]]
    BY <1>1, ZenonT(30) DEF ClaimNew, Refuse
  <2>2. DOMAIN r = {"d", "ans"} /\ r.d = e /\ r.ans.type # "end"
    BY <2>1
  <2>. QED
    BY <1>0, <2>2, Zenon DEF Truthful
<1>2. CASE ~(wanted = 0 \/ wanted > MaxBlock) /\ given = {}
  <2>. DEFINE t == IF Ended(e, Accept[i]) THEN "end" ELSE "wait"
  <2>1. r = [d |-> e, ans |-> [type |-> t]]
    BY <1>2, Zenon DEF ClaimNew, FreshRows
  <2>2. DOMAIN r = {"d", "ans"} /\ r.d = e /\ r.ans.type = t
    BY <2>1
  <2>3. old = {}
    BY <1>2, Zenon
  <2>4. wanted \in Nat \ {0}
    BY <1>2, Zenon
  <2>5. ASSUME t = "end"
        PROVE  DoneFor(e, i)
    <3>1. Ended(e, Accept[i])
      BY <2>5, Zenon
    <3>. QED
      BY <1>0, <2>3, <2>4, <3>1, EndedIs, Zenon
  <2>. QED
    BY <1>0, <2>2, <2>5, Zenon DEF Truthful
<1>3. CASE ~(wanted = 0 \/ wanted > MaxBlock) /\ given # {}
  <2>1. r = [d |-> c, ans |-> [type |-> "grant", block |-> b, given |-> given]]
    BY <1>3, ZenonT(30) DEF ClaimNew, FreshRows, Of, BlockOf
  <2>2. DOMAIN r = {"d", "ans"} /\ r.d = c /\ r.ans.type # "end"
    <3>. HIDE DEF c, b, given
    <3>. QED
      BY <2>1
  <2>3. DOMAIN e = Fields /\ NextOk(e.next) /\ Dense(e.queue) /\ DOMAIN e.queue \subseteq Position
        /\ i \in Islands
    <3>1. DOMAIN e.queue \subseteq GivenTo(e.next)
      BY Zenon DEF Good, Balanced, QueueOk
    <3>2. DOMAIN e.queue \subseteq Position
      BY <3>1, GivenFinite, Zenon
    <3>. QED
      BY <3>2, Zenon DEF Good, Balanced, QueueOk
  <2>4. old \subseteq DOMAIN e.queue /\ Cardinality(old) \in Nat /\ Cardinality(old) <= wanted
    <3>. HIDE DEF old
    <3>. QED
      BY <2>3, TakenFew, ZenonT(30) DEF old
  <2>5. wanted - Cardinality(old) \in 0 .. MaxBlock
    <3>. HIDE DEF old
    <3>. QED
      BY <1>3, <2>4, DispenserAssumption
  <2>6. n \in [Streams -> Nat] /\ \A s \in Streams : e.next[s] + n[s] <= Limit(s)
    <3>. HIDE DEF n, old, i
    <3>. QED
      BY <2>3, <2>5, PickedIs, Zenon DEF n
  <2>7. /\ NextOk(next) /\ GivenTo(next) = GivenTo(e.next) \cup fresh
        /\ fresh \cap GivenTo(e.next) = {} /\ fresh \subseteq Position
    <3>1. next = Advanced(e.next, n)
      BY Zenon DEF Advanced
    <3>. HIDE DEF n, next
    <3>. QED
      BY <2>3, <2>6, <3>1, FreshIs, Zenon
  <2>8. DOMAIN queue = DOMAIN e.queue \ old /\ Dense(queue)
    <3>1. DOMAIN queue = DOMAIN e.queue \ old
          /\ \A p \in DOMAIN queue : queue[p] = e.queue[p] - Cardinality(Of(old, p[1]))
      BY Zenon
    <3>2. old = FromQueues(e, Accept[i], wanted)
      BY Zenon
    <3>. HIDE DEF old, queue
    <3>3. LeftOf(e.queue, FromQueues(e, Accept[i], wanted), queue)
      BY <3>1, <3>2, Zenon DEF LeftOf
    <3>4. Dense(queue)
      BY <2>3, <3>3, TakenDense, Zenon
    <3>. QED
      BY <3>1, <3>4, Zenon
  <2>. HIDE DEF old, n, fresh, next, queue, given
  <2>9. /\ DOMAIN c = Fields /\ c.next = next /\ c.queue = queue
        /\ c.held = e.held \cup BlockOf(given, b, h) /\ c.live = e.live /\ c.members = e.members
        /\ c.retired = e.retired /\ c.settled = e.settled /\ c.trained = e.trained
        /\ c.last = e.last
    BY <2>3, Zenon DEF Fields
  <2>. HIDE DEF c, b
  <2>10. Granting(e, c, h, b, old, fresh)
    BY <2>4, <2>7, <2>8, <2>9, Zenon DEF Granting, given
  <2>11. Balanced(c) /\ Learned(c) /\ SettledOf(e) \subseteq SettledOf(c)
    BY <2>10, Grants, Zenon DEF Good
  <2>12. Tracked(c)
    BY <2>9, Zenon DEF Good, Tracked, IsRetired
  <2>13. Promised(c)
    <3>1. DOMAIN c.last = Holders
      BY <2>9, Zenon DEF Good, Promised
    <3>. QED
      BY <2>9, <2>11, <3>1, PromisesKept, Zenon DEF Good
  <2>14. Onward(e, c)
    BY <1>0, <2>9, <2>11, Zenon DEF Onward
  <2>. QED
    BY <2>2, <2>9, <2>11, <2>12, <2>13, <2>14, Zenon DEF Good, Truthful
<1>. QED
  BY <1>1, <1>2, <1>3, Zenon

\* The held entry that an entry x of a report of h is about.
EntryOf(x, h) == [pos |-> x.pos, block |-> x.block, holder |-> h]

EntriesOf(S, h) == {EntryOf(x, h) : x \in S}

\* Every entry of the report is held, none is reported twice.
ValidFor(S, h, held) ==
    /\ \A x \in S : EntryOf(x, h) \in held
    /\ \A x, y \in S : EntryOf(x, h) = EntryOf(y, h) => x = y

\* The held entries of a report S and of its part T.
Parted(S, T, h, held) ==
    /\ EntriesOf(S, h) \in SUBSET held
    /\ EntriesOf(T, h) \in SUBSET EntriesOf(S, h)
    /\ EntriesOf(S, h) \ EntriesOf(T, h) = EntriesOf(S \ T, h)
    /\ IsFiniteSet(held) =>
         Cardinality(EntriesOf(S, h) \ EntriesOf(T, h)) = Cardinality(S \ T)

\* The entries of a part of a valid report, and of the rest.
LEMMA EntriesParts ==
    ASSUME NEW S, NEW h, NEW held, ValidFor(S, h, held), NEW T \in SUBSET S
    PROVE  Parted(S, T, h, held)
<1>1. \A A : \A y : y \in EntriesOf(A, h) <=> \E x \in A : y = EntryOf(x, h)
  BY Zenon DEF EntriesOf
<1>2. EntriesOf(S, h) \in SUBSET held /\ EntriesOf(T, h) \in SUBSET EntriesOf(S, h)
  <2>1. \A y \in EntriesOf(S, h) : y \in held
    <3>. SUFFICES ASSUME NEW y \in EntriesOf(S, h)
                  PROVE  y \in held
      BY Zenon
    <3>1. PICK x \in S : y = EntryOf(x, h)
      BY <1>1, Zenon
    <3>. QED
      BY <3>1, Zenon DEF ValidFor
  <2>2. \A y \in EntriesOf(T, h) : y \in EntriesOf(S, h)
    <3>. SUFFICES ASSUME NEW y \in EntriesOf(T, h)
                  PROVE  y \in EntriesOf(S, h)
      BY Zenon
    <3>1. PICK x \in T : y = EntryOf(x, h)
      BY <1>1, Zenon
    <3>2. x \in S
      BY Zenon
    <3>. QED
      BY <1>1, <3>1, <3>2, Zenon
  <2>. QED
    BY <2>1, <2>2, Zenon
<1>3. EntriesOf(S, h) \ EntriesOf(T, h) = EntriesOf(S \ T, h)
  <2>1. ASSUME NEW y \in EntriesOf(S, h), y \notin EntriesOf(T, h)
        PROVE  y \in EntriesOf(S \ T, h)
    <3>1. PICK x \in S : y = EntryOf(x, h)
      BY <1>1, Zenon
    <3>2. x \notin T
      BY <1>1, <2>1, <3>1, Zenon
    <3>3. x \in S \ T
      BY <3>2, Zenon
    <3>. QED
      BY <1>1, <3>1, <3>3, Zenon
  <2>2. ASSUME NEW y \in EntriesOf(S \ T, h)
        PROVE  y \in EntriesOf(S, h) /\ y \notin EntriesOf(T, h)
    <3>1. PICK x \in S \ T : y = EntryOf(x, h)
      BY <1>1, Zenon
    <3>2. x \in S /\ x \notin T
      BY Zenon
    <3>3. ASSUME NEW z \in T, y = EntryOf(z, h)
          PROVE  FALSE
      <4>1. z \in S
        BY Zenon
      <4>. QED
        BY <3>1, <3>2, <3>3, <4>1, Zenon DEF ValidFor
    <3>. QED
      BY <1>1, <3>1, <3>2, <3>3, Zenon
  <2>. QED
    BY <2>1, <2>2, Zenon
<1>4. ASSUME IsFiniteSet(held)
      PROVE  Cardinality(EntriesOf(S \ T, h)) = Cardinality(S \ T)
  <2>. DEFINE A == S \ T
              E == EntriesOf(A, h)
              f == [x \in A |-> EntryOf(x, h)]
  <2>1. E \in SUBSET held
    BY <1>2, <1>3, Zenon
  <2>2. IsFiniteSet(E)
    BY <1>4, <2>1, FS_Subset, Zenon
  <2>3. f \in [A -> E] /\ \A t \in E : \E a \in A : f[a] = t
    <3>. HIDE DEF A
    <3>. QED
      BY <1>1, Zenon
  <2>4. \A a, c \in A : f[a] = f[c] => a = c
    <3>1. \A a \in A : a \in S
      BY Zenon
    <3>. HIDE DEF A
    <3>. QED
      BY <3>1, Zenon DEF ValidFor
  <2>. HIDE DEF A, E, f
  <2>5. f \in Injection(A, E) /\ f \in Surjection(A, E)
    BY <2>3, <2>4, Zenon DEF Injection, IsInjective, Surjection
  <2>6. Cardinality(E) = Cardinality(A)
    BY <2>2, <2>5, FS_Injection, Zenon
  <2>. QED
    BY <2>6, Zenon DEF A, E
<1>. QED
  BY <1>2, <1>3, <1>4, Zenon DEF Parted

\* Dispenser::report_new.
LEMMA ReportNewGood ==
    ASSUME NEW e, Good(e), NEW h, NEW body, NEW r, r = ReportNew(e, h, body)
    PROVE  DOMAIN r = {"d", "ans"} /\ Good(r.d) /\ Onward(e, r.d) /\ Truthful(r, h)
<1>. DEFINE S == DOMAIN body
            again == {x \in S : x.kind = "requeue" /\ MayRedo(e, x.pos)}
            back == again \cup {x \in S : x.kind = "release"}
            learned == {x.pos : x \in {y \in S : y.kind = "trained"}}
            valid == /\ \A x \in S : body[x] = 1 /\ EntryOf(x, h) \in e.held
                     /\ \A x, y \in S : EntryOf(x, h) = EntryOf(y, h) => x = y
            X == EntriesOf(S, h)
            B == EntriesOf(back, h)
            redo == [p \in Position |-> IF \E x \in again : x.pos = p THEN e.redo[p] + 1 ELSE e.redo[p]]
            trained == [p \in Position |-> IF p \in learned THEN e.trained[p] + 1 ELSE e.trained[p]]
            c == [e EXCEPT !.held = e.held \ X, !.queue = PushFront(e.queue, B, FALSE), !.redo = redo,
                           !.settled = e.settled + Cardinality(S \ back), !.trained = trained]
<1>0. e.trained \in [Position -> Nat] /\ DOMAIN e = Fields /\ Onward(e, e)
  BY RowsKept, Zenon DEF Good, Learned, SettledRows, SameRows
<1>1. CASE ~valid
  <2>1. r = [d |-> e, ans |-> [type |-> "refused"]]
    BY <1>1, Zenon DEF ReportNew, Refuse, EntryOf
  <2>2. DOMAIN r = {"d", "ans"} /\ r.d = e /\ r.ans.type # "end"
    BY <2>1
  <2>. QED
    BY <1>0, <2>2, Zenon DEF Truthful
<1>2. CASE valid
  <2>1. r = [d |-> c, ans |-> [type |-> "ack"]]
    BY <1>2, Zenon DEF ReportNew, EntryOf, EntriesOf
  <2>2. DOMAIN r = {"d", "ans"} /\ r.d = c /\ r.ans.type # "end"
    <3>. HIDE DEF c
    <3>. QED
      BY <2>1
  <2>3. ValidFor(S, h, e.held)
    BY <1>2, Zenon DEF ValidFor
  <2>4. back \in SUBSET S
    BY Zenon
  <2>5. \A p \in learned : \E x \in S \ back : p = x.pos
    <3>. SUFFICES ASSUME NEW p \in learned
                  PROVE  \E x \in S \ back : p = x.pos
      BY Zenon
    <3>1. PICK x \in S : x.kind = "trained" /\ p = x.pos
      BY Zenon
    <3>2. x \notin back
      BY <3>1, Zenon
    <3>. QED
      BY <3>1, <3>2, Zenon
  <2>6. /\ trained \in [Position -> Nat]
        /\ \A p \in Position : trained[p] = IF p \in learned THEN e.trained[p] + 1 ELSE e.trained[p]
    <3>. HIDE DEF learned
    <3>. QED
      BY <1>0
  <2>. HIDE DEF S, back, learned, redo, trained
  <2>7. IsFiniteSet(e.held)
    <3>1. e.held \in SUBSET e.held
      BY Zenon
    <3>. QED
      BY <3>1, HeldEntries, Zenon DEF Good
  <2>8. /\ X \in SUBSET e.held /\ B \in SUBSET X /\ X \ B = EntriesOf(S \ back, h)
        /\ Cardinality(X \ B) = Cardinality(S \ back)
    <3>1. Parted(S, back, h, e.held)
      BY <2>3, <2>4, EntriesParts, Zenon
    <3>. QED
      BY <2>7, <3>1, Zenon DEF Parted
  <2>9. learned \subseteq Pos(X \ B)
    <3>. SUFFICES ASSUME NEW p \in learned
                  PROVE  p \in Pos(X \ B)
      BY Zenon
    <3>1. PICK x \in S \ back : p = x.pos
      BY <2>5, Zenon
    <3>2. EntryOf(x, h) \in X \ B
      BY <2>8, Zenon DEF EntriesOf
    <3>3. EntryOf(x, h).pos = x.pos
      BY Zenon DEF EntryOf
    <3>. QED
      BY <3>1, <3>2, <3>3, PosIs, Zenon
  <2>. HIDE DEF X, B
  <2>10. /\ DOMAIN c = Fields /\ c.held = e.held \ X /\ c.queue = PushFront(e.queue, B, FALSE)
         /\ c.settled = e.settled + Cardinality(S \ back) /\ c.trained = trained
         /\ c.next = e.next /\ c.live = e.live /\ c.members = e.members /\ c.retired = e.retired
         /\ c.last = e.last
    BY <1>0, Zenon DEF Fields
  <2>. HIDE DEF c
  <2>11. (\A x \in c.held : x.holder \in c.live) /\ (\A g \in c.live : g[1] \in Islands)
    <3>1. (\A x \in e.held : x.holder \in e.live) /\ (\A g \in e.live : g[1] \in Islands)
      BY Zenon DEF Good, Balanced
    <3>. QED
      BY <2>10, <3>1, Zenon
  <2>12. Settling(e, c, X, B, learned, FALSE)
    BY <2>6, <2>8, <2>9, <2>10, <2>11, Zenon DEF Settling
  <2>13. Balanced(c) /\ Learned(c) /\ SettledOf(e) \subseteq SettledOf(c)
    BY <2>8, <2>12, Settles, Zenon DEF Good
  <2>14. Tracked(c)
    BY <2>10, Zenon DEF Good, Tracked, IsRetired
  <2>15. Onward(e, c)
    <3>1. \A p \in Position : e.trained[p] <= trained[p]
      BY <1>0, <2>6
    <3>. QED
      BY <2>10, <2>13, <3>1, Zenon DEF Grown, Onward
  <2>16. Promised(c)
    <3>1. DOMAIN c.last = Holders
      BY <2>10, Zenon DEF Good, Promised
    <3>. QED
      BY <2>10, <2>13, <3>1, PromisesKept, Zenon DEF Good
  <2>. QED
    BY <2>2, <2>10, <2>13, <2>14, <2>15, <2>16, Zenon DEF Good, Truthful
<1>. QED
  BY <1>1, <1>2, Zenon

\* Dispenser::remember changes no row and no lease.
LEMMA RememberGood ==
    ASSUME NEW new, DOMAIN new = {"d", "ans"}, Good(new.d), NEW h \in Holders, Truthful(new, h),
           NEW seq, NEW r, r = Remember(new, h, seq)
    PROVE  Good(r.d) /\ Onward(new.d, r.d) /\ Truthful(r, h)
<1>. DEFINE e == new.d
            v == [seq |-> seq, ans |-> new.ans]
            c == [e EXCEPT !.last = [e.last EXCEPT ![h] = v]]
<1>1. r.d = c /\ r.ans = new.ans
  BY Zenon DEF Remember
<1>2. DOMAIN e = Fields /\ DOMAIN e.last = Holders
  BY Zenon DEF Good, Promised
<1>0. v.ans = new.ans
  BY Zenon
<1>. HIDE DEF e, v
<1>3. /\ DOMAIN c = Fields /\ c.next = e.next /\ c.queue = e.queue /\ c.held = e.held
      /\ c.settled = e.settled /\ c.trained = e.trained /\ c.live = e.live
      /\ c.members = e.members /\ c.retired = e.retired /\ c.last = [e.last EXCEPT ![h] = v]
  BY <1>2, Zenon DEF Fields
<1>. HIDE DEF c
<1>4. Good(e)
  BY Zenon DEF e
<1>5. SameRows(e, c)
  BY <1>3, Zenon DEF SameRows
<1>6. Balanced(c) /\ Learned(c) /\ SettledOf(c) = SettledOf(e) /\ Onward(e, c)
  BY <1>4, <1>5, RowsKept, Zenon DEF Good
<1>7. Tracked(c)
  BY <1>3, <1>4, Zenon DEF Good, Tracked, IsRetired
<1>8. \A i : DoneFor(e, i) <=> DoneFor(c, i)
  BY <1>6, Zenon DEF DoneFor
<1>9. Promised(c)
  <2>1. DOMAIN c.last = Holders
    BY <1>2, <1>3, Zenon
  <2>2. c.last[h] = v /\ \A g \in Holders : g # h => c.last[g] = e.last[g]
    BY <1>2, <1>3, Zenon
  <2>3. v.ans.type = "end" => DoneFor(c, h[1])
    BY <1>0, <1>8, Zenon DEF Truthful, e
  <2>4. \A g \in Holders : e.last[g].ans.type = "end" => DoneFor(c, g[1])
    BY <1>4, <1>8, Zenon DEF Good, Promised
  <2>5. \A g \in Holders : c.last[g].ans.type = "end" => DoneFor(c, g[1])
    <3>. SUFFICES ASSUME NEW g \in Holders, c.last[g].ans.type = "end"
                  PROVE  DoneFor(c, g[1])
      BY Zenon
    <3>1. CASE g = h
      BY <2>2, <2>3, <3>1, Zenon
    <3>2. CASE g # h
      BY <2>2, <2>4, <3>2, Zenon
    <3>. QED
      BY <3>1, <3>2, Zenon
  <2>. QED
    BY <2>1, <2>5, Zenon DEF Promised
<1>10. Truthful(r, h)
  BY <1>1, <1>8, Zenon DEF Truthful, e
<1>. QED
  BY <1>1, <1>3, <1>6, <1>7, <1>9, <1>10, Zenon DEF Good, e

\* What a request does to the rows: a new one what it asks for, a resent,
\* an old or a fenced one nothing.
LEMMA NumberedGood ==
    ASSUME NEW e, Good(e), NEW h \in Holders, NEW seq, NEW answers, NEW new,
           h \in e.live =>
             DOMAIN new = {"d", "ans"} /\ Good(new.d) /\ Onward(e, new.d) /\ Truthful(new, h),
           NEW r, r = Numbered(e, h, seq, answers, new)
    PROVE  Good(r.d) /\ Onward(e, r.d) /\ Truthful(r, h)
<1>0. Onward(e, e)
  BY RowsKept, ZenonT(30) DEF Good, SameRows
<1>1. \/ r.d = e /\ (r.ans.type # "end" \/ r.ans = e.last[h].ans)
      \/ h \in e.live /\ r = Remember(new, h, seq)
  BY FencedIs, Zenon DEF Numbered, Refuse, RequireLive
<1>2. CASE r.d = e /\ (r.ans.type # "end" \/ r.ans = e.last[h].ans)
  <2>1. Truthful(r, h)
    BY <1>2, Zenon DEF Truthful, Good, Promised
  <2>. QED
    BY <1>0, <1>2, <2>1, Zenon
<1>3. CASE h \in e.live /\ r = Remember(new, h, seq)
  <2>1. DOMAIN new = {"d", "ans"} /\ Good(new.d) /\ Onward(e, new.d) /\ Truthful(new, h)
    BY <1>3, Zenon
  <2>2. Good(r.d) /\ Onward(new.d, r.d) /\ Truthful(r, h)
    BY <1>3, <2>1, RememberGood, Zenon
  <2>. QED
    BY <2>1, <2>2, OnwardTwice, Zenon
<1>. QED
  BY <1>1, <1>2, <1>3, Zenon

----------------------------------------------------------------------------
(* The persisted record.                                                   *)

\* A record balances, and the rows trained into the model saved with it are
\* settled in it.
RecordOk(record, trained) ==
    /\ NextOk(record.next)
    /\ QueueOk(record.queue, record.next)
    /\ record.settled \in Int
    /\ record.settled + Cardinality(DOMAIN record.queue) = Cardinality(GivenTo(record.next))
    /\ SettledRows(trained, record.next, DOMAIN record.queue)

\* Nothing is held in a record.
LEMMA NoneHeld ==
    ASSUME NEW e, e.held = {}
    PROVE  HeldIn(e) = {} /\ Cardinality(HeldIn(e)) = 0
<1>1. HeldIn(e) = {}
  BY PosIs, Zenon DEF HeldIn
<1>. QED
  BY <1>1, FS_EmptySet, Zenon

\* Dispenser::encode_persisted.
LEMMA EncodeOk ==
    ASSUME NEW e, Good(e), NEW record, record = Encode(e)
    PROVE  RecordOk(record, e.trained)
<1>. DEFINE q == PushFront(e.queue, e.held, FALSE)
            r == [e EXCEPT !.held = {}, !.queue = q]
            X == e.held
<1>1. DOMAIN e = Fields /\ Balanced(e) /\ Learned(e)
  BY Zenon DEF Good
<1>2. record.next = e.next /\ record.queue = q /\ record.settled = e.settled
  <2>. DEFINE fence == {x.holder : x \in e.retired} \cup e.members
  <2>1. record = [next |-> e.next, queue |-> q, redo |-> e.redo, nextBlock |-> e.nextBlock,
                  settled |-> e.settled, fence |-> fence]
    BY Zenon DEF Encode
  <2>. HIDE DEF q, fence
  <2>. QED
    BY <2>1
<1>3. /\ r.held = {} /\ r.queue = q /\ r.next = e.next /\ r.settled = e.settled
      /\ r.trained = e.trained /\ r.live = e.live
  <2>. HIDE DEF q
  <2>. QED
    BY <1>1, Zenon DEF Fields
<1>4. /\ e.settled \in Int /\ (\A h \in e.live : h[1] \in Islands)
      /\ e.trained \in [Position -> Nat]
  BY <1>1, Zenon DEF Balanced, Learned, SettledRows
<1>. HIDE DEF r
<1>5. X \in SUBSET e.held /\ X \in SUBSET X /\ r.held = e.held \ X
      /\ e.settled = e.settled + Cardinality(X \ X)
  <2>1. X \ X = {}
    BY Zenon
  <2>2. Cardinality(X \ X) = 0
    BY <2>1, FS_EmptySet, Zenon
  <2>. QED
    BY <1>3, <1>4, <2>2
<1>6. Settling(e, r, X, X, {}, FALSE)
  BY <1>3, <1>4, <1>5, Zenon DEF Settling
<1>7. Balanced(r) /\ Learned(r)
  BY <1>1, <1>5, <1>6, Settles, Zenon
<1>8. HeldIn(r) = {} /\ Cardinality(HeldIn(r)) = 0
  BY <1>3, NoneHeld, Zenon
<1>9. /\ r.settled \in Int
      /\ r.settled + Cardinality(DOMAIN r.queue) = Cardinality(GivenTo(r.next))
  <2>1. r.settled \in Int
        /\ r.settled + Cardinality(HeldIn(r)) + Cardinality(DOMAIN r.queue) = Cardinality(GivenTo(r.next))
    BY <1>7, Zenon DEF Balanced
  <2>. QED
    BY <1>8, <2>1
<1>10. HeldIn(r) \cup DOMAIN r.queue = DOMAIN r.queue
  BY <1>8, Zenon
<1>11. SettledRows(r.trained, r.next, DOMAIN r.queue)
  BY <1>7, <1>10, Zenon DEF Learned
<1>12. NextOk(r.next) /\ QueueOk(r.queue, r.next)
  BY <1>7, Zenon DEF Balanced
<1>. QED
  BY <1>2, <1>3, <1>9, <1>11, <1>12, Zenon DEF RecordOk

\* A dispenser without holders is as good as its record.
LEMMA BlankGood ==
    ASSUME NEW e, DOMAIN e = Fields, e.held = {}, e.live = {}, e.last = Fresh.last,
           RecordOk(e, e.trained)
    PROVE  Good(e)
<1>1. HeldIn(e) = {} /\ Cardinality(HeldIn(e)) = 0
  BY NoneHeld, Zenon
<1>2. HeldIn(e) \cup DOMAIN e.queue = DOMAIN e.queue
      /\ HeldIn(e) \subseteq GivenTo(e.next) \ DOMAIN e.queue
  BY <1>1, Zenon
<1>3. /\ e.settled \in Int
      /\ e.settled + Cardinality(HeldIn(e)) + Cardinality(DOMAIN e.queue) = Cardinality(GivenTo(e.next))
  <2>1. e.settled \in Int
        /\ e.settled + Cardinality(DOMAIN e.queue) = Cardinality(GivenTo(e.next))
    BY Zenon DEF RecordOk
  <2>. QED
    BY <1>1, <2>1
<1>4. /\ \A x, y \in e.held : x.pos = y.pos => x = y
      /\ \A x \in e.held : x.holder \in e.live
      /\ \A h \in e.live : h[1] \in Islands
      /\ \A h \in e.live : h \in e.members \/ IsRetired(e, h)
  BY Zenon
<1>5. Balanced(e)
  BY <1>2, <1>3, <1>4, Zenon DEF Balanced, RecordOk
<1>6. Learned(e)
  BY <1>2, Zenon DEF Learned, RecordOk
<1>7. Tracked(e)
  BY <1>4, Zenon DEF Tracked
<1>8. Promised(e)
  <2>1. Fresh.last = [h \in Holders |-> NoAnswer]
    BY Zenon DEF Fresh
  <2>2. NoAnswer.ans.type # "end"
    BY Zenon DEF NoAnswer
  <2>3. DOMAIN e.last = Holders /\ \A h \in Holders : e.last[h] = NoAnswer
    BY <2>1, Zenon
  <2>. QED
    BY <2>2, <2>3, ZenonT(30) DEF Promised
<1>. QED
  BY <1>5, <1>6, <1>7, <1>8, Zenon DEF Good

\* The fields of a new dispenser.
LEMMA FreshFields ==
    /\ DOMAIN Fresh = Fields /\ Fresh.held = {} /\ Fresh.live = {}
    /\ Fresh.next = [s \in Streams |-> 0] /\ Fresh.settled = 0
    /\ Fresh.trained = [p \in Position |-> 0]
    /\ DOMAIN Fresh.queue = {}
BY Zenon DEF Fresh, Fields

\* A new dispenser keeps the invariant.
LEMMA FreshGood == Good(Fresh)
<1>1. Fresh.next \in [Streams -> Nat] /\ \A s \in Streams : Fresh.next[s] = 0
  BY FreshFields
<1>2. NextOk(Fresh.next)
  <2>1. \A s \in Streams : Fresh.next[s] <= Limit(s)
    BY <1>1, LimitIs
  <2>. QED
    BY <1>1, <2>1, Zenon DEF NextOk
<1>3. GivenTo(Fresh.next) = {}
  <2>1. ASSUME NEW p \in Position
        PROVE  ~(p[2] < Fresh.next[p[1]])
    <3>1. p[1] \in Streams /\ p[2] \in Nat
      BY PositionParts, Zenon
    <3>2. Fresh.next[p[1]] = 0
      BY <1>1, <3>1, Zenon
    <3>. QED
      BY <3>1, <3>2
  <2>. QED
    BY <2>1, Zenon DEF GivenTo
<1>4. QueueOk(Fresh.queue, Fresh.next)
  <2>1. ASSUME NEW s \in Streams
        PROVE  Filled(Fresh.queue, Of(DOMAIN Fresh.queue, s))
    <3>1. Of(DOMAIN Fresh.queue, s) = {}
      BY FreshFields, Zenon DEF Of
    <3>2. 1 .. 0 = {} /\ Cardinality({}) = 0
      BY FS_EmptySet
    <3>3. {Fresh.queue[p] : p \in {}} = {}
      BY Zenon
    <3>. QED
      BY <3>1, <3>2, <3>3, Zenon DEF Filled
  <2>2. Dense(Fresh.queue)
    BY <2>1, Zenon DEF Dense
  <2>. QED
    BY <2>2, FreshFields, Zenon DEF QueueOk
<1>5. SettledRows(Fresh.trained, Fresh.next, DOMAIN Fresh.queue)
  <2>1. Fresh.trained \in [Position -> Nat] /\ \A p \in Position : Fresh.trained[p] = 0
    BY FreshFields
  <2>. QED
    BY <2>1 DEF SettledRows
<1>6. Fresh.settled \in Int
      /\ Fresh.settled + Cardinality(DOMAIN Fresh.queue) = Cardinality(GivenTo(Fresh.next))
  BY <1>3, FreshFields, FS_EmptySet
<1>7. RecordOk(Fresh, Fresh.trained)
  BY <1>2, <1>4, <1>5, <1>6, Zenon DEF RecordOk
<1>. QED
  BY <1>7, FreshFields, BlankGood, Zenon

\* Dispenser::restore_persisted, with the model of the checkpoint.
LEMMA RestoreGood ==
    ASSUME NEW record, NEW trained, RecordOk(record, trained),
           NEW r, r = [Restore(record) EXCEPT !.trained = trained]
    PROVE  Good(r)
<1>. DEFINE a == [Fresh EXCEPT !.next = record.next, !.queue = record.queue, !.redo = record.redo,
                               !.nextBlock = record.nextBlock, !.settled = record.settled]
            b == Retire(a, record.fence, "restart")
<1>1. Restore(record) = b
  BY Zenon DEF Restore
<1>2. /\ DOMAIN a = Fields /\ a.next = record.next /\ a.queue = record.queue
      /\ a.settled = record.settled /\ a.held = {} /\ a.live = {} /\ a.last = Fresh.last
  BY FreshFields, Zenon DEF Fields
<1>. HIDE DEF a
<1>3. DOMAIN b = Fields /\ SameRows(a, b) /\ b.last = a.last
  <2>1. Retires(a, record.fence, b)
    BY <1>2, RetireIs, Zenon
  <2>. HIDE DEF b
  <2>. QED
    BY <2>1, Zenon DEF Retires
<1>. HIDE DEF b
<1>4. /\ DOMAIN r = Fields /\ r.next = b.next /\ r.queue = b.queue /\ r.settled = b.settled
      /\ r.held = b.held /\ r.live = b.live /\ r.last = b.last /\ r.trained = trained
  BY <1>1, <1>3, Zenon DEF Fields
<1>5. /\ b.next = a.next /\ b.queue = a.queue /\ b.settled = a.settled /\ b.held = a.held
      /\ b.live = a.live
  BY <1>3, Zenon DEF SameRows
<1>6. /\ r.next = record.next /\ r.queue = record.queue /\ r.settled = record.settled
      /\ r.held = {} /\ r.live = {} /\ r.last = Fresh.last
  BY <1>2, <1>3, <1>4, <1>5, Zenon
<1>7. RecordOk(r, r.trained)
  BY <1>4, <1>6, Zenon DEF RecordOk
<1>. QED
  BY <1>4, <1>6, <1>7, BlankGood, Zenon

=============================================================================
