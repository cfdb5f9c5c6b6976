---------------------------- MODULE UniverseProofs ----------------------------
(***************************************************************************)
(* Proofs about the rotation of the universe, for any number of symbols,   *)
(* days and faults, and whatever the evidence: a candidate that leaves has *)
(* dwelt, a day is read with the universe that was collected, and the      *)
(* selection does not fail.                                                *)
(***************************************************************************)
EXTENDS UniverseProperties, FiniteSetTheorems, WellFoundedInduction, TLAPS

(***************************************************************************)
(* The selection.                                                          *)
(***************************************************************************)

LEMMA DwellIs == CandidateDwell \in Nat /\ CandidateDwell > 0
  BY SelectionAssumption

\* An incumbent that may stay and does not has dwelt.
LEMMA BucketDwell ==
  ASSUME NEW current, NEW preferred, NEW forbidden, NEW inactive, NEW memberSince,
         NEW effective, NEW limit,
         NEW bucket, bucket = ReconcileBucket(current, preferred, forbidden, inactive, memberSince,
                                              effective, limit),
         bucket # {},
         NEW out \in current, out \notin forbidden, out \notin inactive, out \notin bucket
  PROVE  DwellComplete(Since(memberSince, out, effective), effective, CandidateDwell)
<1> DEFINE pool == Others(preferred, forbidden)
           best == BestOf(pool, BucketSize)
           kept == current \ (forbidden \cup inactive)
           filled == Filled(kept, pool)
           removable == {s \in filled \ best :
                           DwellComplete(Since(memberSince, s, effective), effective, CandidateDwell)}
           result == Replaced(filled, pool, removable, limit)
<1>1. bucket = IF \/ Cardinality(result) # BucketSize
                  \/ Cardinality(kept) = BucketSize /\ Cardinality(current \ result) > limit
               THEN {} ELSE result
  BY Zenon DEF ReconcileBucket
<1>2. out \in filled
  BY DEF Filled
<1> HIDE DEF filled, best, kept, pool
<1>3. out \notin result
  <2> HIDE DEF result
  <2> QED
    BY <1>1
<1>4. out \in removable
  <2> HIDE DEF removable
  <2> QED
    BY <1>2, <1>3 DEF Replaced, LastOf, BestOf
<1> QED
  BY <1>4

\* A candidate that the selection drops though it trades has dwelt.
LEMMA SelectDwell ==
  ASSUME NEW old, NEW ev, NEW effective, NEW monday, NEW times, NEW roles,
         roles = Select(old, ev, effective, monday, times),
         roles # Raises, roles # Roles(old.core, old.boundary, old.probe),
         NEW s \in Candidates(old), s \notin Members(roles), s \notin ev.inactive
  PROVE  DwellComplete(Since(times.member, s, effective), effective, CandidateDwell)
<1> DEFINE core == IF ev.steady /\ monday
                   THEN WeeklyCore(old, ev, effective, times, ReplacedCore(old, ev))
                   ELSE ReplacedCore(old, ev)
           probePreferred == Without(ProbePool(ev), core)
           probeLimit == IF ev.steady THEN 1 ELSE 0
           probe == ReconcileBucket(old.probe, probePreferred, core, ev.inactive, times.member,
                                    effective, probeLimit)
           preferred == BoundaryPreferred(old, ev, core \cup probe)
           limit == IF ev.steady THEN Max({1, DailyReplacements - 1}) ELSE 0
           boundary == ReconcileBucket(old.boundary, preferred, core \cup probe, ev.inactive,
                                       times.member, effective, limit)
<1>1. roles = Roles(core, boundary, probe) /\ probe # {} /\ boundary # {}
  <2>1. roles = IF \/ IncompleteActive(old, ev) # {}
                   \/ Len(ev.mature) < CoreSize + BucketSize \/ ~Enough(Without(ProbePool(ev), {}))
                   \/ ~ev.steady /\ ev.inactive = {}
                THEN Roles(old.core, old.boundary, old.probe)
                ELSE IF Cardinality(core) # CoreSize THEN Raises
                ELSE IF ~Enough(probePreferred) THEN Roles(old.core, old.boundary, old.probe)
                ELSE IF probe = {} THEN Raises
                ELSE IF ~Enough(preferred) THEN Roles(old.core, old.boundary, old.probe)
                ELSE IF boundary = {} THEN Raises
                ELSE Roles(core, boundary, probe)
    BY Zenon DEF Select
  <2> HIDE DEF core, probePreferred, probe, preferred, boundary
  <2> QED
    BY <2>1
<1> HIDE DEF core, probePreferred, probeLimit, preferred, limit
<1>2. s \notin core /\ s \notin boundary /\ s \notin probe
  <2> HIDE DEF probe, boundary
  <2> QED
    BY <1>1 DEF Members, Roles
<1>3. CASE s \in old.probe
  <2> DEFINE P == probe
  <2>1. P = ReconcileBucket(old.probe, probePreferred, core, ev.inactive, times.member,
                            effective, probeLimit)
    OBVIOUS
  <2>2. P # {} /\ s \notin P
    BY <1>1, <1>2
  <2> HIDE DEF P
  <2> QED
    BY <1>2, <1>3, <2>1, <2>2, BucketDwell
<1>4. CASE s \in old.boundary
  <2> DEFINE P == boundary
             F == core \cup probe
  <2>1. P = ReconcileBucket(old.boundary, preferred, F, ev.inactive, times.member,
                            effective, limit)
    OBVIOUS
  <2>2. P # {} /\ s \notin P /\ s \notin F
    BY <1>1, <1>2
  <2> HIDE DEF P, F
  <2> QED
    BY <1>4, <2>1, <2>2, BucketDwell
<1> QED
  BY <1>3, <1>4 DEF Candidates

(***************************************************************************)
(* The sizes of what is selected.                                          *)
(***************************************************************************)

\* A non-empty set of naturals has a least element.
LEMMA LeastNumber ==
  ASSUME NEW T, T \subseteq Nat, T # {} PROVE \E x \in T : \A y \in T : x <= y
<1> DEFINE Less == OpToRel(<, Nat)
<1>1. IsWellFoundedOn(Less, Nat)
  BY NatLessThanWellFounded
<1>2. \A x, y \in Nat : x < y => <<x, y>> \in Less
  BY DEF OpToRel
<1> HIDE DEF Less
<1>3. PICK x \in T : \A y \in T : ~(<<y, x>> \in Less)
  BY <1>1, WFMin
<1>4. ASSUME NEW y \in T PROVE x <= y
  <2>1. x \in Nat /\ y \in Nat
    OBVIOUS
  <2>2. ~(y < x)
    BY <1>2, <1>3, <2>1
  <2> QED
    BY <2>1, <2>2
<1> QED
  BY <1>4

\* A pool orders its symbols.
Orders(pool) ==
  /\ IsFiniteSet(DOMAIN pool)
  /\ \A s \in DOMAIN pool : pool[s] \in Int
  /\ \A s, t \in DOMAIN pool : pool[s] = pool[t] => s = t

\* The symbols before one in a pool.
Ahead(pool, s) == {t \in DOMAIN pool : pool[t] < pool[s]}

LEMMA AheadIs ==
  ASSUME NEW pool, Orders(pool), NEW s \in DOMAIN pool
  PROVE  /\ IsFiniteSet(Ahead(pool, s)) /\ Cardinality(Ahead(pool, s)) \in Nat
         /\ \A t \in DOMAIN pool :
              /\ t \in Ahead(pool, s) => Cardinality(Ahead(pool, t)) < Cardinality(Ahead(pool, s))
              /\ t # s /\ t \notin Ahead(pool, s) => s \in Ahead(pool, t)
<1>1. ASSUME NEW t \in DOMAIN pool
      PROVE  IsFiniteSet(Ahead(pool, t)) /\ Cardinality(Ahead(pool, t)) \in Nat
  <2>1. Ahead(pool, t) \in SUBSET DOMAIN pool
    BY DEF Ahead
  <2>2. IsFiniteSet(Ahead(pool, t))
    BY <2>1, FS_Subset DEF Orders
  <2> QED
    BY <2>2, FS_CardinalityType
<1>2. ASSUME NEW t \in DOMAIN pool, t \in Ahead(pool, s)
      PROVE  Cardinality(Ahead(pool, t)) < Cardinality(Ahead(pool, s))
  <2>1. pool[s] \in Int /\ pool[t] \in Int /\ pool[t] < pool[s]
    BY <1>2 DEF Ahead, Orders
  <2>2. Ahead(pool, t) \in SUBSET Ahead(pool, s)
    BY <2>1 DEF Ahead, Orders
  <2>3. t \notin Ahead(pool, t)
    BY <2>1 DEF Ahead
  <2>4. IsFiniteSet(Ahead(pool, s)) /\ Cardinality(Ahead(pool, s)) \in Nat
    BY <1>1
  <2>5. Cardinality(Ahead(pool, t)) \in Nat
    BY <1>1
  <2>6. /\ Cardinality(Ahead(pool, t)) <= Cardinality(Ahead(pool, s))
        /\ Cardinality(Ahead(pool, s)) # Cardinality(Ahead(pool, t))
    BY <1>2, <2>2, <2>3, <2>4, FS_Subset, Zenon
  <2> QED
    BY <2>4, <2>5, <2>6
<1>3. ASSUME NEW t \in DOMAIN pool, t # s, t \notin Ahead(pool, s)
      PROVE  s \in Ahead(pool, t)
  <2>1. pool[s] \in Int /\ pool[t] \in Int /\ pool[t] # pool[s]
    BY <1>3 DEF Orders
  <2> QED
    BY <1>3, <2>1 DEF Ahead
<1> QED
  BY <1>1, <1>2, <1>3

\* The best n of a pool are n.
LEMMA BestCount ==
  ASSUME NEW pool, Orders(pool), NEW n \in Nat, n <= Cardinality(DOMAIN pool)
  PROVE  /\ BestOf(pool, n) \subseteq DOMAIN pool /\ IsFiniteSet(BestOf(pool, n))
         /\ Cardinality(BestOf(pool, n)) = n
<1> DEFINE D == DOMAIN pool
           B(k) == BestOf(pool, k)
<1>1. IsFiniteSet(D) /\ Cardinality(D) \in Nat
  BY FS_CardinalityType DEF Orders
<1>2. ASSUME NEW k PROVE B(k) = {s \in D : Cardinality(Ahead(pool, s)) < k}
  BY DEF BestOf, Ahead
<1>3. ASSUME NEW k PROVE IsFiniteSet(B(k)) /\ Cardinality(B(k)) \in Nat
  <2>1. B(k) \in SUBSET D
    BY <1>2
  <2> QED
    BY <1>1, <2>1, FS_Subset, FS_CardinalityType
<1>4. ASSUME NEW k \in Nat, k < Cardinality(D), Cardinality(B(k)) = k
      PROVE  Cardinality(B(k + 1)) = k + 1
  <2>1. D \ B(k) # {}
    <3>1. SUFFICES ASSUME D \ B(k) = {} PROVE FALSE
      OBVIOUS
    <3>2. B(k) = D
      BY <1>2, <3>1
    <3> QED
      BY <1>1, <1>4, <3>2
  <2> DEFINE T == {Cardinality(Ahead(pool, t)) : t \in D \ B(k)}
  <2>2. T \subseteq Nat /\ T # {}
    BY <2>1, AheadIs
  <2>3. PICK m \in T : \A y \in T : m <= y
    BY <2>2, LeastNumber
  <2>4. PICK s \in D \ B(k) : m = Cardinality(Ahead(pool, s))
    BY <2>3
  <2>5. ASSUME NEW t \in D \ B(k)
        PROVE  Cardinality(Ahead(pool, s)) <= Cardinality(Ahead(pool, t))
    BY <2>3, <2>4
  <2>6. Cardinality(Ahead(pool, s)) \in Nat /\ ~(Cardinality(Ahead(pool, s)) < k)
    BY <1>2, <2>4, AheadIs
  <2>7. Ahead(pool, s) = B(k)
    <3>1. ASSUME NEW t \in Ahead(pool, s), t \notin B(k) PROVE FALSE
      <4>1. t \in D
        BY DEF Ahead
      <4>2. Cardinality(Ahead(pool, t)) < Cardinality(Ahead(pool, s))
        BY <4>1, AheadIs
      <4>3. Cardinality(Ahead(pool, s)) <= Cardinality(Ahead(pool, t))
        BY <2>5, <3>1, <4>1
      <4>4. Cardinality(Ahead(pool, t)) \in Nat
        BY <4>1, AheadIs
      <4> QED
        BY <2>6, <4>2, <4>3, <4>4
    <3>2. ASSUME NEW t \in B(k), t \notin Ahead(pool, s) PROVE FALSE
      <4>1. t \in D /\ Cardinality(Ahead(pool, t)) < k
        BY <1>2
      <4>2. s \in Ahead(pool, t)
        BY <2>4, <3>2, <4>1, AheadIs
      <4>3. Cardinality(Ahead(pool, s)) < Cardinality(Ahead(pool, t))
        BY <4>1, <4>2, AheadIs
      <4>4. Cardinality(Ahead(pool, t)) \in Nat
        BY <4>1, AheadIs
      <4> QED
        BY <2>6, <4>1, <4>3, <4>4
    <3> QED
      BY <3>1, <3>2
  <2>8. Cardinality(Ahead(pool, s)) = k
    BY <1>4, <2>7
  <2>9. B(k + 1) = B(k) \cup {s}
    <3>1. ASSUME NEW t \in B(k) PROVE t \in B(k + 1)
      <4>1. t \in D /\ Cardinality(Ahead(pool, t)) < k
        BY <1>2
      <4>2. Cardinality(Ahead(pool, t)) \in Nat
        BY <4>1, AheadIs
      <4>3. Cardinality(Ahead(pool, t)) < k + 1
        BY <4>1, <4>2
      <4> QED
        BY <1>2, <4>1, <4>3
    <3>2. s \in B(k + 1)
      <4>1. Cardinality(Ahead(pool, s)) < k + 1
        BY <2>8
      <4> QED
        BY <1>2, <2>4, <4>1
    <3>3. ASSUME NEW t \in B(k + 1), t \notin B(k), t # s PROVE FALSE
      <4>1. t \in D /\ Cardinality(Ahead(pool, t)) < k + 1
        BY <1>2
      <4>2. s \in Ahead(pool, t)
        BY <2>4, <2>7, <3>3, <4>1, AheadIs
      <4>3. Cardinality(Ahead(pool, s)) < Cardinality(Ahead(pool, t))
        BY <4>1, <4>2, AheadIs
      <4>4. Cardinality(Ahead(pool, t)) \in Nat
        BY <4>1, AheadIs
      <4> QED
        BY <2>8, <4>1, <4>3, <4>4
    <3> QED
      BY <3>1, <3>2, <3>3
  <2> QED
    BY <1>3, <1>4, <2>4, <2>9, FS_AddElement
<1>5. Cardinality(B(0)) = 0
  <2>1. B(0) = {}
    <3>1. ASSUME NEW s \in B(0) PROVE FALSE
      <4>1. s \in D /\ Cardinality(Ahead(pool, s)) < 0
        BY <1>2
      <4>2. Cardinality(Ahead(pool, s)) \in Nat
        BY <4>1, AheadIs
      <4> QED
        BY <4>1, <4>2
    <3> QED
      BY <3>1
  <2> QED
    BY <2>1, FS_EmptySet
<1>6. Cardinality(B(n)) = n
  <2> DEFINE Wrong == {k \in Nat : k <= Cardinality(D) /\ Cardinality(B(k)) # k}
  <2>1. SUFFICES ASSUME Wrong # {} PROVE FALSE
    OBVIOUS
  <2>2. PICK k \in Wrong : \A j \in Wrong : k <= j
    BY <2>1, LeastNumber
  <2>3. k # 0 /\ k \in Nat /\ k <= Cardinality(D)
    BY <1>5
  <2> DEFINE j == k - 1
  <2>4. j \in Nat /\ j < k /\ j < Cardinality(D) /\ k = j + 1
    BY <1>1, <2>3
  <2> HIDE DEF j
  <2>5. j \notin Wrong
    BY <2>2, <2>3, <2>4
  <2>6. j <= Cardinality(D)
    BY <1>1, <2>4
  <2>7. Cardinality(B(j)) = j
    BY <2>4, <2>5, <2>6
  <2>8. Cardinality(B(j + 1)) = j + 1
    BY <1>4, <2>4, <2>7
  <2> QED
    BY <2>2, <2>4, <2>8
<1> QED
  BY <1>2, <1>3, <1>6

\* Sets with nothing in common.
LEMMA DisjointCount ==
  ASSUME NEW S, IsFiniteSet(S), NEW T, IsFiniteSet(T), S \cap T = {}
  PROVE  IsFiniteSet(S \cup T) /\ Cardinality(S \cup T) = Cardinality(S) + Cardinality(T)
<1>1. /\ IsFiniteSet(S \cup T)
      /\ Cardinality(S \cup T) = Cardinality(S) + Cardinality(T) - Cardinality({})
  BY FS_Union
<1>2. Cardinality({}) = 0
  BY FS_EmptySet
<1>3. Cardinality(S) \in Nat /\ Cardinality(T) \in Nat
  BY FS_CardinalityType
<1> QED
  BY <1>1, <1>2, <1>3

\* As many come in as go out.
LEMMA SwapCount ==
  ASSUME NEW S, IsFiniteSet(S), NEW out \in SUBSET S, NEW into, IsFiniteSet(into),
         into \cap S = {}, Cardinality(into) = Cardinality(out)
  PROVE  /\ IsFiniteSet((S \ out) \cup into)
         /\ Cardinality((S \ out) \cup into) = Cardinality(S)
<1>1. IsFiniteSet(out) /\ Cardinality(out) \in Nat /\ Cardinality(S) \in Nat
  BY FS_Subset, FS_CardinalityType
<1> DEFINE rest == S \ out
<1>2. IsFiniteSet(rest) /\ Cardinality(rest) = Cardinality(S) - Cardinality(out)
  <2>1. S \cap out = out
    OBVIOUS
  <2> QED
    BY <1>1, <2>1, FS_Difference
<1>3. rest \cap into = {}
  OBVIOUS
<1> HIDE DEF rest
<1>4. /\ IsFiniteSet(rest \cup into)
      /\ Cardinality(rest \cup into) = Cardinality(rest) + Cardinality(into)
  BY <1>2, <1>3, DisjointCount
<1>5. Cardinality(rest \cup into) = Cardinality(S)
  BY <1>1, <1>2, <1>4
<1> QED
  BY <1>4, <1>5 DEF rest

LEMMA MinOfThree ==
  ASSUME NEW a \in Nat, NEW b \in Nat, NEW c \in Nat
  PROVE  /\ Min({a, b, c}) \in Nat
         /\ Min({a, b, c}) <= a /\ Min({a, b, c}) <= b /\ Min({a, b, c}) <= c
<1>1. \E x \in {a, b, c} : \A y \in {a, b, c} : x =< y
  <2>1. CASE a <= b /\ a <= c
    BY <2>1
  <2>2. CASE b <= a /\ b <= c
    BY <2>2
  <2>3. CASE c <= a /\ c <= b
    BY <2>3
  <2> QED
    BY <2>1, <2>2, <2>3
<1>2. Min({a, b, c}) \in {a, b, c} /\ \A y \in {a, b, c} : Min({a, b, c}) =< y
  BY <1>1 DEF Min
<1> QED
  BY <1>2

LEMMA SizesAre ==
  /\ CoreSize \in Nat /\ CoreSize > 0 /\ BucketSize \in Nat /\ BucketSize > 0
  /\ EntryRank \in Nat /\ RetainRank \in Nat /\ EntryRank <= RetainRank
  /\ WeeklyReplacements \in Nat /\ DailyReplacements \in Nat /\ Symbols \subseteq Nat
  BY SelectionAssumption

\* A part of a pool is ordered as the pool.
LEMMA PartOrders ==
  ASSUME NEW pool, Orders(pool), NEW S \in SUBSET DOMAIN pool
  PROVE  Orders(Restrict(pool, S)) /\ DOMAIN Restrict(pool, S) = S
<1>1. DOMAIN Restrict(pool, S) = S /\ \A s \in S : Restrict(pool, S)[s] = pool[s]
  BY DEF Restrict
<1>2. IsFiniteSet(S)
  BY FS_Subset DEF Orders
<1> QED
  BY <1>1, <1>2 DEF Orders

\* The others of a pool, when some of it are taken.
LEMMA OthersLeft ==
  ASSUME NEW pool, Orders(pool), NEW S, IsFiniteSet(S)
  PROVE  /\ Orders(Others(pool, S)) /\ DOMAIN Others(pool, S) = DOMAIN pool \ S
         /\ Cardinality(DOMAIN Others(pool, S)) \in Nat
         /\ Cardinality(DOMAIN Others(pool, S)) >= Cardinality(DOMAIN pool) - Cardinality(S)
<1> DEFINE D == DOMAIN pool
           R == D \ S
<1>1. Orders(Others(pool, S)) /\ DOMAIN Others(pool, S) = R
  <2>1. R \in SUBSET D
    OBVIOUS
  <2> HIDE DEF R
  <2>2. Orders(Restrict(pool, R)) /\ DOMAIN Restrict(pool, R) = R
    BY <2>1, PartOrders
  <2>3. Others(pool, S) = Restrict(pool, R)
    BY DEF Others, R
  <2> QED
    BY <2>2, <2>3
<1>2. IsFiniteSet(D) /\ Cardinality(D) \in Nat
  BY FS_CardinalityType DEF Orders
<1>3. IsFiniteSet(R) /\ Cardinality(R) = Cardinality(D) - Cardinality(D \cap S)
  BY <1>2, FS_Difference
<1>4. /\ Cardinality(D \cap S) <= Cardinality(S)
      /\ Cardinality(D \cap S) \in Nat /\ Cardinality(S) \in Nat
  <2>1. D \cap S \in SUBSET S
    OBVIOUS
  <2>2. IsFiniteSet(D \cap S) /\ Cardinality(D \cap S) <= Cardinality(S)
    BY <2>1, FS_Subset
  <2> QED
    BY <2>2, FS_CardinalityType
<1>5. Cardinality(R) \in Nat
  BY <1>3, FS_CardinalityType
<1> HIDE DEF R
<1>6. Cardinality(R) >= Cardinality(D) - Cardinality(S)
  BY <1>2, <1>3, <1>4
<1> QED
  BY <1>1, <1>5, <1>6 DEF R

\* Names order the symbols.
LEMMA LastCount ==
  ASSUME NEW S, IsFiniteSet(S), S \subseteq Symbols, NEW n \in Nat, n <= Cardinality(S)
  PROVE  LastOf(S, n) \subseteq S /\ IsFiniteSet(LastOf(S, n)) /\ Cardinality(LastOf(S, n)) = n
<1> DEFINE names == [s \in S |-> -s]
<1>1. Orders(names) /\ DOMAIN names = S
  BY SizesAre DEF Orders
<1> HIDE DEF names
<1>2. /\ BestOf(names, n) \subseteq S /\ IsFiniteSet(BestOf(names, n))
      /\ Cardinality(BestOf(names, n)) = n
  BY <1>1, BestCount
<1>3. LastOf(S, n) = BestOf(names, n)
  BY DEF LastOf, names
<1> QED
  BY <1>2, <1>3

\* A bucket with a pool that suffices is filled, and nobody in it is taken.
LEMMA BucketIsRole ==
  ASSUME NEW current, IsRole(current, BucketSize), NEW forbidden, NEW inactive,
         NEW preferred, Orders(preferred), DOMAIN preferred \subseteq Symbols \ forbidden,
         Enough(preferred),
         NEW memberSince, NEW effective, NEW limit \in Nat,
         NEW bucket, bucket = ReconcileBucket(current, preferred, forbidden, inactive, memberSince,
                                              effective, limit)
  PROVE  IsRole(bucket, BucketSize) /\ bucket \cap forbidden = {}
<1> DEFINE pool == Others(preferred, forbidden)
           kept == current \ (forbidden \cup inactive)
           filled == Filled(kept, pool)
           best == BestOf(pool, BucketSize)
           removable == {s \in filled \ best :
                           DwellComplete(Since(memberSince, s, effective), effective, CandidateDwell)}
           result == Replaced(filled, pool, removable, limit)
<1>1. bucket = IF \/ Cardinality(result) # BucketSize
                  \/ Cardinality(kept) = BucketSize /\ Cardinality(current \ result) > limit
               THEN {} ELSE result
  BY Zenon DEF ReconcileBucket
<1>2. /\ Orders(pool) /\ DOMAIN pool \subseteq Symbols \ forbidden
      /\ Cardinality(DOMAIN pool) \in Nat /\ Cardinality(DOMAIN pool) >= BucketSize
  <2>1. pool = Restrict(preferred, DOMAIN preferred)
    <3>1. DOMAIN preferred \ forbidden = DOMAIN preferred
      OBVIOUS
    <3> QED
      BY <3>1 DEF Others
  <2>2. Orders(pool) /\ DOMAIN pool = DOMAIN preferred
    BY <2>1, PartOrders
  <2>3. Cardinality(DOMAIN preferred) \in Nat
    BY FS_CardinalityType DEF Orders
  <2> QED
    BY <2>2, <2>3 DEF Enough
<1>3. /\ IsFiniteSet(current) /\ Cardinality(current) = BucketSize /\ current \subseteq Symbols
      /\ IsFiniteSet(kept) /\ Cardinality(kept) \in Nat /\ Cardinality(kept) <= BucketSize
      /\ Cardinality(kept) = BucketSize => kept = current
  <2>1. /\ IsFiniteSet(current) /\ Cardinality(current) = BucketSize /\ current \subseteq Symbols
    BY DEF IsRole
  <2>2. kept \in SUBSET current
    OBVIOUS
  <2> HIDE DEF kept
  <2>3. IsFiniteSet(kept) /\ Cardinality(kept) <= BucketSize
        /\ (Cardinality(kept) = BucketSize => kept = current)
    BY <2>1, <2>2, FS_Subset
  <2> QED
    BY <2>1, <2>3, FS_CardinalityType
<1>4. kept \subseteq Symbols \ forbidden /\ kept \subseteq current
  BY <1>3
<1> HIDE DEF pool, kept
<1>5. /\ IsFiniteSet(filled) /\ Cardinality(filled) = BucketSize
      /\ kept \subseteq filled /\ filled \subseteq Symbols \ forbidden
  <2> DEFINE others == Others(pool, kept)
             vacancies == BucketSize - Cardinality(kept)
             fillers == BestOf(others, vacancies)
  <2>1. /\ Orders(others) /\ DOMAIN others = DOMAIN pool \ kept
        /\ Cardinality(DOMAIN others) \in Nat
        /\ Cardinality(DOMAIN others) >= Cardinality(DOMAIN pool) - Cardinality(kept)
    BY <1>2, <1>3, OthersLeft
  <2>2. vacancies \in Nat /\ vacancies <= Cardinality(DOMAIN others)
    BY <1>2, <1>3, <2>1, SizesAre
  <2>3. filled = kept \cup fillers
    BY DEF Filled
  <2> HIDE DEF others, filled
  <2>4. vacancies + Cardinality(kept) = BucketSize
    BY <1>3, SizesAre
  <2> HIDE DEF vacancies
  <2>5. fillers \subseteq DOMAIN others /\ IsFiniteSet(fillers) /\ Cardinality(fillers) = vacancies
    BY <2>1, <2>2, BestCount
  <2> HIDE DEF fillers
  <2>6. kept \cap fillers = {}
    BY <2>1, <2>5
  <2>7. /\ IsFiniteSet(kept \cup fillers)
        /\ Cardinality(kept \cup fillers) = Cardinality(kept) + Cardinality(fillers)
    BY <1>3, <2>5, <2>6, DisjointCount
  <2>8. Cardinality(filled) = BucketSize
    BY <1>3, <2>2, <2>3, <2>4, <2>5, <2>7
  <2>9. filled \subseteq Symbols \ forbidden
    BY <1>2, <1>4, <2>1, <2>3, <2>5
  <2> QED
    BY <2>3, <2>7, <2>8, <2>9
<1> HIDE DEF filled
<1> DEFINE better == Restrict(pool, best \ filled)
           changes == Min({limit, Cardinality(DOMAIN better), Cardinality(removable)})
           out == LastOf(removable, changes)
           into == BestOf(better, changes)
<1>6. Orders(better) /\ DOMAIN better = best \ filled /\ Cardinality(DOMAIN better) \in Nat
  <2>1. best \ filled \in SUBSET DOMAIN pool
    BY DEF BestOf
  <2> HIDE DEF best
  <2>2. Orders(better) /\ DOMAIN better = best \ filled
    BY <1>2, <2>1, PartOrders
  <2> QED
    BY <2>2, FS_CardinalityType DEF Orders
<1>7. /\ removable \in SUBSET filled /\ IsFiniteSet(removable) /\ Cardinality(removable) \in Nat
      /\ removable \subseteq Symbols
  <2>1. removable \in SUBSET filled
    OBVIOUS
  <2> HIDE DEF removable
  <2> QED
    BY <1>5, <2>1, FS_Subset, FS_CardinalityType
<1>8. result = (filled \ out) \cup into
  BY Zenon DEF Replaced
<1> HIDE DEF result, removable, better
<1>9. /\ changes \in Nat /\ changes <= limit
      /\ changes <= Cardinality(DOMAIN better) /\ changes <= Cardinality(removable)
  BY <1>6, <1>7, MinOfThree
<1> HIDE DEF changes
<1>10. out \subseteq removable /\ IsFiniteSet(out) /\ Cardinality(out) = changes
  BY <1>7, <1>9, LastCount
<1>11. into \subseteq DOMAIN better /\ IsFiniteSet(into) /\ Cardinality(into) = changes
  BY <1>6, <1>9, BestCount
<1>12. best \subseteq DOMAIN pool
  BY DEF BestOf
<1> HIDE DEF out, into, best
<1>13. into \cap filled = {} /\ into \subseteq Symbols \ forbidden
  BY <1>2, <1>6, <1>11, <1>12
<1>14. IsFiniteSet(result) /\ Cardinality(result) = BucketSize
  BY <1>5, <1>7, <1>8, <1>10, <1>11, <1>13, SwapCount
<1>15. result \subseteq Symbols \ forbidden
  BY <1>5, <1>8, <1>13
<1>16. Cardinality(kept) = BucketSize => ~(Cardinality(current \ result) > limit)
  <2> SUFFICES ASSUME Cardinality(kept) = BucketSize
               PROVE  ~(Cardinality(current \ result) > limit)
    OBVIOUS
  <2>1. current \subseteq filled
    BY <1>3, <1>5
  <2> DEFINE left == current \ result
  <2>2. left \in SUBSET out
    BY <1>8, <2>1
  <2> HIDE DEF left
  <2>3. IsFiniteSet(left) /\ Cardinality(left) <= Cardinality(out)
    BY <1>10, <2>2, FS_Subset
  <2>4. Cardinality(left) \in Nat
    BY <2>3, FS_CardinalityType
  <2>5. ~(Cardinality(left) > limit)
    BY <1>9, <1>10, <2>3, <2>4
  <2> QED
    BY <2>5 DEF left
<1>17. bucket = result
  BY <1>1, <1>14, <1>16
<1> QED
  BY <1>14, <1>15, <1>17 DEF IsRole

LEMMA MaxOfTwo ==
  ASSUME NEW a \in Nat, NEW b \in Int
  PROVE  Max({a, b}) \in Nat
<1>1. \E x \in {a, b} : \A y \in {a, b} : x >= y
  <2>1. CASE a >= b
    BY <2>1
  <2>2. CASE b >= a
    BY <2>2
  <2> QED
    BY <2>1, <2>2
<1>2. Max({a, b}) \in {a, b} /\ \A y \in {a, b} : Max({a, b}) >= y
  BY <1>1 DEF Max
<1> QED
  BY <1>2

\* A list of evidence without duplicates orders its symbols.
LEMMA ListOrders ==
  ASSUME NEW list \in Seq(Symbols), IsInjective(list), NEW taken
  PROVE  /\ Orders(Without(list, taken)) /\ DOMAIN Without(list, taken) = ToSet(list) \ taken
         /\ IsFiniteSet(ToSet(list)) /\ Cardinality(ToSet(list)) = Len(list)
         /\ ToSet(list) \subseteq Symbols
         /\ \A s \in DOMAIN Without(list, taken) : Without(list, taken)[s] \in 1..Len(list)
<1> DEFINE places == 1..Len(list)
           T == ToSet(list)
           pool == Without(list, taken)
<1>1. /\ T \subseteq Symbols /\ \A s \in T : \E i \in places : list[i] = s
      /\ \A i \in places : list[i] \in T
  BY DEF ToSet
<1>2. list \in Bijection(places, T)
  <2>1. list \in [places -> T]
    BY <1>1
  <2>2. \A i, j \in places : list[i] = list[j] => i = j
    BY DEF IsInjective
  <2> HIDE DEF places, T
  <2> QED
    BY <1>1, <2>1, <2>2 DEF Bijection, Injection, Surjection
<1>3. IsFiniteSet(T) /\ Cardinality(T) = Len(list)
  <2>1. ExistsBijection(places, T)
    BY <1>2 DEF ExistsBijection
  <2>2. IsFiniteSet(places) /\ Cardinality(places) = Len(list)
    <3>1. Len(list) \in Nat
      OBVIOUS
    <3> QED
      BY <3>1, FS_Interval
  <2> QED
    BY <2>1, <2>2, FS_Bijection
<1>4. DOMAIN pool = T \ taken
  BY DEF Without
<1>5. \A s \in DOMAIN pool : pool[s] \in places /\ list[pool[s]] = s
  BY <1>1, <1>4 DEF Without
<1> HIDE DEF pool, T
<1>6. IsFiniteSet(DOMAIN pool)
  <2>1. T \ taken \in SUBSET T
    OBVIOUS
  <2> QED
    BY <1>3, <1>4, <2>1, FS_Subset
<1>7. Orders(pool)
  BY <1>5, <1>6 DEF Orders
<1> QED
  BY <1>1, <1>3, <1>4, <1>5, <1>7 DEF pool, T

LEMMA EvidenceLists ==
  ASSUME NEW ev, IsEvidence(ev)
  PROVE  /\ ev.mature \in Seq(Symbols) /\ IsInjective(ev.mature)
         /\ ProbePool(ev) \in Seq(Symbols) /\ IsInjective(ProbePool(ev))
         /\ ToSet(ev.mature) \cap ev.inactive = {}
<1>1. ev.mature \in Seq(Symbols) /\ ev.recent \in Seq(Symbols)
  BY DEF IsEvidence
<1> DEFINE list == ev.mature
           before == ev.recent
           all == ProbePool(ev)
<1>2. all = before \o list
  BY DEF ProbePool
<1>3. IsInjective(all) /\ ToSet(all) \cap ev.inactive = {}
  BY DEF IsEvidence
<1> HIDE DEF list, before, all
<1>4. list \in Seq(Symbols) /\ before \in Seq(Symbols)
  BY <1>1 DEF list, before
<1>5. all \in Seq(Symbols)
  BY <1>2, <1>4
<1>6. ASSUME NEW i \in DOMAIN list
      PROVE  Len(before) + i \in DOMAIN all /\ all[Len(before) + i] = list[i]
  <2>1. i \in 1..Len(list) /\ Len(before) \in Nat /\ Len(list) \in Nat
    BY <1>4
  <2> QED
    BY <1>2, <1>4, <2>1
<1>7. IsInjective(list)
  <2> SUFFICES ASSUME NEW i \in DOMAIN list, NEW j \in DOMAIN list, list[i] = list[j] PROVE i = j
    BY DEF IsInjective
  <2>1. Len(before) + i = Len(before) + j
    <3>1. all[Len(before) + i] = all[Len(before) + j]
      BY <1>6
    <3> QED
      BY <1>3, <1>6, <3>1 DEF IsInjective
  <2>2. i \in Nat /\ j \in Nat /\ Len(before) \in Nat
    BY <1>4
  <2> QED
    BY <2>1, <2>2
<1>8. ToSet(list) \subseteq ToSet(all)
  BY <1>6 DEF ToSet
<1>9. ToSet(list) \cap ev.inactive = {}
  BY <1>3, <1>8
<1> QED
  BY <1>3, <1>4, <1>5, <1>7, <1>9 DEF list, all

\* The core stays filled when those that do not trade are replaced.
LEMMA ReplacedIsRole ==
  ASSUME NEW old, IsRole(old.core, CoreSize), NEW ev, IsEvidence(ev),
         Len(ev.mature) >= CoreSize + BucketSize
  PROVE  IsRole(ReplacedCore(old, ev), CoreSize)
<1> DEFINE core == old.core
           gone == core \cap ev.inactive
           T == ToSet(ev.mature)
           pool == Without(ev.mature, core)
           into == BestOf(pool, Cardinality(gone))
<1>1. /\ Orders(pool) /\ DOMAIN pool = T \ core /\ T \subseteq Symbols
      /\ IsFiniteSet(T) /\ Cardinality(T) = Len(ev.mature) /\ Len(ev.mature) \in Nat
      /\ T \cap ev.inactive = {}
  <2>1. /\ ev.mature \in Seq(Symbols) /\ IsInjective(ev.mature) /\ T \cap ev.inactive = {}
    BY EvidenceLists
  <2>2. Len(ev.mature) \in Nat
    BY <2>1
  <2> QED
    BY <2>1, <2>2, ListOrders
<1>2. IsFiniteSet(core) /\ Cardinality(core) = CoreSize /\ core \subseteq Symbols
  BY DEF IsRole
<1>3. gone \in SUBSET core /\ IsFiniteSet(gone) /\ Cardinality(gone) \in Nat
  <2>1. gone \in SUBSET core
    OBVIOUS
  <2> HIDE DEF gone
  <2> QED
    BY <1>2, <2>1, FS_Subset, FS_CardinalityType
<1>4. Cardinality(T \cap core) \in Nat /\ Cardinality(T \cap core) <= CoreSize - Cardinality(gone)
  <2> DEFINE stay == core \ gone
             both == T \cap core
  <2>1. both \in SUBSET stay /\ core \cap gone = gone
    BY <1>1
  <2>2. IsFiniteSet(stay) /\ Cardinality(stay) = CoreSize - Cardinality(gone)
    BY <1>2, <2>1, FS_Difference
  <2> HIDE DEF stay, both
  <2>3. IsFiniteSet(both) /\ Cardinality(both) <= Cardinality(stay)
    BY <2>1, <2>2, FS_Subset
  <2>4. Cardinality(both) \in Nat
    BY <2>3, FS_CardinalityType
  <2> QED
    BY <2>2, <2>3, <2>4 DEF both
<1>5. Cardinality(DOMAIN pool) = Len(ev.mature) - Cardinality(T \cap core)
  BY <1>1, FS_Difference
<1>6. Cardinality(gone) <= Cardinality(DOMAIN pool)
  BY <1>1, <1>3, <1>4, <1>5, SizesAre
<1> HIDE DEF pool, gone
<1>7. into \subseteq DOMAIN pool /\ IsFiniteSet(into) /\ Cardinality(into) = Cardinality(gone)
  BY <1>1, <1>3, <1>6, BestCount
<1> DEFINE result == (core \ gone) \cup into
<1>8. ReplacedCore(old, ev) = result
  BY DEF ReplacedCore, pool, gone
<1> HIDE DEF into
<1>9. into \cap core = {} /\ into \subseteq Symbols
  BY <1>1, <1>7
<1>10. IsFiniteSet(result) /\ Cardinality(result) = CoreSize
  BY <1>2, <1>3, <1>7, <1>9, SwapCount
<1>11. result \subseteq Symbols
  BY <1>2, <1>9
<1> QED
  BY <1>8, <1>10, <1>11 DEF IsRole

\* On Mondays, too.
LEMMA WeeklyIsRole ==
  ASSUME NEW old, IsRole(old.core, CoreSize), NEW ev, IsEvidence(ev), NEW effective, NEW times,
         NEW core, IsRole(core, CoreSize)
  PROVE  IsRole(WeeklyCore(old, ev, effective, times, core), CoreSize)
<1> DEFINE mature == Without(ev.mature, {})
           challengers == {s \in DOMAIN mature \ (old.core \cup core) : mature[s] <= EntryRank}
           promotable == Restrict(mature, challengers)
           removable == {s \in core \cap DOMAIN mature :
                           /\ mature[s] > RetainRank
                           /\ DwellComplete(Since(times.core, s, old.eff), effective, CoreDwell)}
           worst == [s \in removable |-> -mature[s]]
           left == WeeklyReplacements - Cardinality(old.core \ core)
           changes == Min({Max({0, left}), Cardinality(DOMAIN promotable), Cardinality(removable)})
           out == BestOf(worst, changes)
           into == BestOf(promotable, changes)
           result == (core \ out) \cup into
<1>1. Orders(mature) /\ DOMAIN mature \subseteq Symbols
  BY EvidenceLists, ListOrders
<1>2. WeeklyCore(old, ev, effective, times, core) = result
  BY DEF WeeklyCore
<1>3. IsFiniteSet(core) /\ Cardinality(core) = CoreSize /\ core \subseteq Symbols
  BY DEF IsRole
<1> HIDE DEF mature
<1>4. challengers \in SUBSET DOMAIN mature /\ challengers \cap core = {}
  OBVIOUS
<1> HIDE DEF challengers
<1>5. Orders(promotable) /\ DOMAIN promotable = challengers
  BY <1>1, <1>4, PartOrders
<1>6. removable \in SUBSET core /\ removable \subseteq DOMAIN mature
  OBVIOUS
<1> HIDE DEF removable
<1>7. IsFiniteSet(removable) /\ Cardinality(removable) \in Nat
  BY <1>3, <1>6, FS_Subset, FS_CardinalityType
<1>8. Orders(worst) /\ DOMAIN worst = removable
  BY <1>1, <1>6, <1>7 DEF Orders
<1> HIDE DEF worst, promotable
<1>9. Cardinality(DOMAIN promotable) \in Nat
  BY <1>5, FS_CardinalityType DEF Orders
<1>10. Max({0, left}) \in Nat
  <2>1. IsFiniteSet(old.core \ core)
    <3>1. old.core \ core \in SUBSET old.core
      OBVIOUS
    <3> QED
      BY <3>1, FS_Subset DEF IsRole
  <2>2. Cardinality(old.core \ core) \in Nat
    BY <2>1, FS_CardinalityType
  <2>3. left \in Int
    BY <2>2, SizesAre
  <2> HIDE DEF left
  <2> QED
    BY <2>3, MaxOfTwo
<1> HIDE DEF left
<1> DEFINE bound == Max({0, left})
<1>11. /\ changes \in Nat /\ changes <= Cardinality(DOMAIN promotable)
       /\ changes <= Cardinality(removable)
  <2>1. /\ changes = Min({bound, Cardinality(DOMAIN promotable), Cardinality(removable)})
        /\ bound \in Nat
    BY <1>10
  <2> HIDE DEF bound, changes
  <2> QED
    BY <1>7, <1>9, <2>1, MinOfThree
<1> HIDE DEF changes
<1>12. out \subseteq removable /\ IsFiniteSet(out) /\ Cardinality(out) = changes
  BY <1>8, <1>11, BestCount
<1>13. into \subseteq challengers /\ IsFiniteSet(into) /\ Cardinality(into) = changes
  BY <1>5, <1>11, BestCount
<1> HIDE DEF out, into
<1>14. into \cap core = {} /\ into \subseteq Symbols /\ out \in SUBSET core
  BY <1>1, <1>4, <1>6, <1>12, <1>13
<1>15. IsFiniteSet(result) /\ Cardinality(result) = CoreSize
  BY <1>3, <1>12, <1>13, <1>14, SwapCount
<1>16. result \subseteq Symbols
  BY <1>3, <1>14
<1> QED
  BY <1>2, <1>15, <1>16 DEF IsRole

\* What the selection makes of whole roles and a day's evidence is whole.
LEMMA SelectIsWhole ==
  ASSUME NEW old, Whole(old), NEW ev, IsEvidence(ev), NEW effective, NEW monday, NEW times
  PROVE  Whole(Select(old, ev, effective, monday, times))
<1> DEFINE same == Roles(old.core, old.boundary, old.probe)
           core == IF ev.steady /\ monday
                   THEN WeeklyCore(old, ev, effective, times, ReplacedCore(old, ev))
                   ELSE ReplacedCore(old, ev)
           probePreferred == Without(ProbePool(ev), core)
           probeLimit == IF ev.steady THEN 1 ELSE 0
           probe == ReconcileBucket(old.probe, probePreferred, core, ev.inactive, times.member,
                                    effective, probeLimit)
           taken == core \cup probe
           preferred == BoundaryPreferred(old, ev, taken)
           limit == IF ev.steady THEN Max({1, DailyReplacements - 1}) ELSE 0
           boundary == ReconcileBucket(old.boundary, preferred, taken, ev.inactive, times.member,
                                       effective, limit)
           keeps == \/ IncompleteActive(old, ev) # {}
                    \/ Len(ev.mature) < CoreSize + BucketSize \/ ~Enough(Without(ProbePool(ev), {}))
                    \/ ~ev.steady /\ ev.inactive = {}
           roles == Select(old, ev, effective, monday, times)
<1>1. roles = IF keeps THEN same
              ELSE IF Cardinality(core) # CoreSize THEN Raises
              ELSE IF ~Enough(probePreferred) THEN same
              ELSE IF probe = {} THEN Raises
              ELSE IF ~Enough(preferred) THEN same
              ELSE IF boundary = {} THEN Raises
              ELSE Roles(core, boundary, probe)
  BY Zenon DEF Select
<1>2. Whole(same)
  BY DEF Whole, Roles, Candidates
<1>3. /\ IsRole(old.core, CoreSize)
      /\ IsRole(old.probe, BucketSize) /\ IsRole(old.boundary, BucketSize)
  BY DEF Whole
<1>4. /\ ev.mature \in Seq(Symbols) /\ IsInjective(ev.mature)
      /\ ProbePool(ev) \in Seq(Symbols) /\ IsInjective(ProbePool(ev))
  BY EvidenceLists
<1>5. ~keeps => Len(ev.mature) >= CoreSize + BucketSize
  BY <1>4, SizesAre
<1> HIDE DEF roles, same, keeps
<1>6. ~keeps => IsRole(core, CoreSize)
  <2> SUFFICES ASSUME ~keeps PROVE IsRole(core, CoreSize)
    OBVIOUS
  <2>1. IsRole(ReplacedCore(old, ev), CoreSize)
    BY <1>3, <1>5, ReplacedIsRole
  <2>2. IsRole(WeeklyCore(old, ev, effective, times, ReplacedCore(old, ev)), CoreSize)
    BY <1>3, <2>1, WeeklyIsRole
  <2> QED
    BY <2>1, <2>2
<1> HIDE DEF core
<1>7. Orders(probePreferred) /\ DOMAIN probePreferred \subseteq Symbols \ core
  BY <1>4, ListOrders
<1>8. probeLimit \in Nat /\ limit \in Nat
  <2>1. Max({1, DailyReplacements - 1}) \in Nat
    <3>1. DailyReplacements - 1 \in Int
      BY SizesAre
    <3> QED
      BY <3>1, MaxOfTwo
  <2> QED
    BY <2>1
<1> HIDE DEF probePreferred, probeLimit, limit
<1>9. Enough(probePreferred) => IsRole(probe, BucketSize) /\ probe \cap core = {}
  BY <1>3, <1>7, <1>8, BucketIsRole
<1> HIDE DEF probe, taken
<1>10. Orders(preferred) /\ DOMAIN preferred \subseteq Symbols \ taken
  <2> DEFINE ranked == Without(ev.mature, taken)
             n == Len(ev.mature)
             stays == BestOf(ranked, BoundaryRetainRank) \cap (old.boundary \ ev.inactive)
  <2>1. /\ Orders(ranked) /\ DOMAIN ranked \subseteq Symbols \ taken
        /\ \A s \in DOMAIN ranked : ranked[s] \in 1..n
    BY <1>4, ListOrders
  <2>2. n \in Nat
    BY <1>4
  <2>3. preferred = [s \in DOMAIN ranked |-> IF s \in stays THEN ranked[s] - n ELSE ranked[s]]
    BY DEF BoundaryPreferred
  <2> HIDE DEF preferred, ranked, n, stays
  <2>4. DOMAIN preferred = DOMAIN ranked
    BY <2>3
  <2>5. \A s \in DOMAIN ranked :
          IF s \in stays
          THEN preferred[s] \in Int /\ preferred[s] = ranked[s] - n /\ preferred[s] <= 0
          ELSE preferred[s] = ranked[s] /\ preferred[s] > 0
    BY <2>1, <2>2, <2>3
  <2>6. \A s, t \in DOMAIN ranked : preferred[s] = preferred[t] => ranked[s] = ranked[t]
    <3> SUFFICES ASSUME NEW s \in DOMAIN ranked, NEW t \in DOMAIN ranked,
                        preferred[s] = preferred[t]
                 PROVE  ranked[s] = ranked[t]
      OBVIOUS
    <3>1. ranked[s] \in Nat /\ ranked[t] \in Nat
      BY <2>1
    <3>2. CASE s \in stays /\ t \in stays
      BY <2>2, <2>5, <3>1, <3>2
    <3>3. CASE s \notin stays /\ t \notin stays
      BY <2>5, <3>3
    <3>4. CASE s \in stays /\ t \notin stays
      BY <2>5, <3>1, <3>4
    <3>5. CASE s \notin stays /\ t \in stays
      BY <2>5, <3>1, <3>5
    <3> QED
      BY <3>2, <3>3, <3>4, <3>5
  <2>7. \A s \in DOMAIN ranked : preferred[s] \in Int
    BY <2>1, <2>5
  <2> QED
    BY <2>1, <2>4, <2>6, <2>7 DEF Orders
<1> HIDE DEF preferred
<1>11. Enough(preferred) => IsRole(boundary, BucketSize) /\ boundary \cap taken = {}
  BY <1>3, <1>8, <1>10, BucketIsRole
<1> HIDE DEF boundary
<1>12. ~IsRole({}, BucketSize)
  BY FS_EmptySet, SizesAre DEF IsRole
<1>13. CASE keeps \/ ~Enough(probePreferred) \/ ~Enough(preferred)
  <2>1. roles = same
    BY <1>1, <1>6, <1>9, <1>12, <1>13 DEF IsRole
  <2> QED
    BY <1>2, <2>1 DEF roles
<1>14. CASE ~keeps /\ Enough(probePreferred) /\ Enough(preferred)
  <2>1. /\ IsRole(core, CoreSize) /\ IsRole(probe, BucketSize) /\ IsRole(boundary, BucketSize)
        /\ probe \cap core = {} /\ boundary \cap (core \cup probe) = {}
    BY <1>6, <1>9, <1>11, <1>14 DEF taken
  <2>2. roles = Roles(core, boundary, probe)
    BY <1>1, <1>12, <1>14, <2>1 DEF IsRole
  <2>3. Whole(Roles(core, boundary, probe))
    BY <2>1 DEF Whole, Roles, Candidates
  <2> QED
    BY <2>2, <2>3 DEF roles
<1> QED
  BY <1>13, <1>14

(***************************************************************************)
(* Times: a day has Ticks of them.                                         *)
(***************************************************************************)

LEMMA DayIs ==
  ASSUME NEW t \in Nat
  PROVE  /\ Day(t) \in Nat /\ t % Ticks \in Nat
         /\ Midnight(Day(t)) \in Nat /\ Midnight(Day(t) + 1) \in Nat
         /\ Midnight(Day(t)) <= t /\ t < Midnight(Day(t) + 1)
         /\ Midnight(Day(t)) % Ticks = 0 /\ Midnight(Day(t) + 1) % Ticks = 0
  BY DEF Day, Midnight, Ticks

LEMMA SameDay ==
  ASSUME NEW t \in Nat, (t + 1) % Ticks # 0
  PROVE  Day(t + 1) = Day(t)
  BY DEF Day, Ticks

\* A midnight that has come is not after that of the day, one to come is not
\* before the next.
LEMMA MidnightsAre ==
  ASSUME NEW m \in Nat, m % Ticks = 0, NEW t \in Nat
  PROVE  /\ m <= t => m <= Midnight(Day(t))
         /\ m > t => m >= Midnight(Day(t) + 1)
  BY DEF Day, Midnight, Ticks

LEMMA EarlierDay ==
  ASSUME NEW t \in Nat, NEW u \in Nat, t <= u, Day(t) # Day(u)
  PROVE  t <= Midnight(Day(u))
  BY DEF Day, Midnight, Ticks

LEMMA NextEffectiveIs ==
  ASSUME NEW t \in Nat
  PROVE  NextEffective(t) \in Nat /\ NextEffective(t) % Ticks = 0
  BY DEF NextEffective, Day, Midnight, Ticks

(***************************************************************************)
(* The invariant.                                                          *)
(***************************************************************************)

Callers == {"midnight", "storage", "discovery"}

ClockTypes ==
  /\ now \in Nat /\ (formal # None => formal \in Nat /\ formal <= now)
  /\ retro \in BOOLEAN /\ late \in BOOLEAN /\ torn \in BOOLEAN
StoreTypes ==
  /\ file.seq \in Nat /\ file.eff \in Nat
  /\ pending.seq \in Nat /\ pending.eff \in Nat /\ pending.eff % Ticks = 0
  /\ \A o \in overrides : o.eff \in Nat /\ o.eff % Ticks = 0
  /\ \A s \in DOMAIN joined : joined[s] \in Nat
ApplyTypes == apply = [step |-> apply.step, source |-> apply.source]
DiscTypes ==
  /\ disc = [step |-> disc.step, ready |-> disc.ready, at |-> disc.at, ev |-> disc.ev]
  /\ disc.at \in Nat
Types == ClockTypes /\ StoreTypes /\ ApplyTypes /\ DiscTypes /\ lock \in Seq(Callers)

\* What is in memory is what is on disk; an apply_due that is under way is
\* the boot's, or that of the boundary that holds the lock.
ModeInv ==
  /\ mode = "down" => apply = NoApply
  /\ mode # "down" => active = file
  /\ mode \in {"first", "starting"} => apply = NoApply
  /\ mode = "run" /\ apply # NoApply => lock # <<>> /\ Head(lock) = "midnight"
  /\ mode \in {"starting", "run"} /\ apply = NoApply => hash = RolesOf(file)

\* The universe in force is effective; but for the configured one it is from
\* a midnight, and the configured one is from before the formal start.
FileInv ==
  /\ file = NoDecision => formal = None /\ state = NoSince /\ mode = "down" /\ inForce = NoRoles
  /\ file # NoDecision => file.seq > 0
  /\ mode = "first" => state = NoSince
  /\ file.eff <= now
  /\ file.eff % Ticks = 0 \/ formal = None \/ file.eff <= formal

\* The boundary is asked for once, and the day has no universe before it.
Once(list, who) == \A i, j \in DOMAIN list : list[i] = who /\ list[j] = who => i = j
Asks(list, who) == \E i \in DOMAIN list : list[i] = who
LockInv ==
  /\ Once(lock, "midnight")
  /\ Asks(lock, "midnight") => now % Ticks = 0 /\ inForce = NoRoles

\* An event of the day announces a decision of a later day, or one that has
\* been replaced, or it is of the active universe and stamped with its hash.
Tells(e) ==
  \/ e.decision.eff \in Nat /\ e.decision.eff >= Midnight(Day(now) + 1)
  \/ e.decision.seq \in Nat /\ e.decision.seq < file.seq
  \/ e.decision = file /\ e.hash = RolesOf(file)
Listed(list) == list \in Seq({list[i] : i \in DOMAIN list})
EventInv ==
  /\ Listed(events)
  /\ ~late => \A i \in DOMAIN events : Tells(events[i])

\* The universe collected from the start of the day is the active one, and
\* an event says so.
InForceInv ==
  ~retro /\ inForce # NoRoles =>
    /\ inForce = RolesOf(file) /\ file.eff <= WindowStart
    /\ \E i \in DOMAIN events : events[i].decision = file

\* Who leaves with the pending decision has dwelt, by the times in memory
\* and by those in membership-state.json.
PendingDwell ==
  \A s \in Candidates(file) \ (Members(pending) \cup pending.inactive) :
    s \in DOMAIN joined /\ joined[s] + CandidateDwell <= pending.eff
DwellInv ==
  /\ pending.seq <= file.seq + 1
  /\ ~torn => /\ mode # "down" => since.member = joined
              /\ state # NoSince /\ apply.step # "state" => state.member = joined
              /\ pending.seq > file.seq => PendingDwell

UniverseInv ==
  Types /\ ModeInv /\ FileInv /\ LockInv /\ EventInv /\ InForceInv /\ DwellInv

(***************************************************************************)
(* The lock.                                                               *)
(***************************************************************************)

LEMMA RemovedAt ==
  ASSUME NEW list \in Seq(Callers), NEW k \in 1..Len(list)
  PROVE  /\ RemoveAt(list, k) \in Seq(Callers) /\ Len(RemoveAt(list, k)) = Len(list) - 1
         /\ \A i \in 1..(Len(list) - 1) :
              RemoveAt(list, k)[i] = IF i < k THEN list[i] ELSE list[i + 1]
<1> DEFINE front == SubSeq(list, 1, k - 1)
           back == SubSeq(list, k + 1, Len(list))
<1>1. front \in Seq(Callers) /\ Len(front) = k - 1 /\ \A i \in 1..(k - 1) : front[i] = list[i]
  OBVIOUS
<1>2. /\ back \in Seq(Callers) /\ Len(back) = Len(list) - k
      /\ \A i \in 1..(Len(list) - k) : back[i] = list[i + k]
  <2>1. ASSUME NEW i \in 1..(Len(list) - k) PROVE back[i] = list[i + k]
    <3>1. back[i] = list[i + (k + 1) - 1] /\ i + (k + 1) - 1 = i + k
      OBVIOUS
    <3> QED
      BY <3>1
  <2>2. back \in Seq(Callers) /\ Len(back) = Len(list) - k
    OBVIOUS
  <2> QED
    BY <2>1, <2>2
<1>3. RemoveAt(list, k) = front \o back
  BY DEF RemoveAt
<1> HIDE DEF front, back
<1>4. /\ front \o back \in Seq(Callers) /\ Len(front \o back) = Len(list) - 1
      /\ \A i \in 1..(Len(list) - 1) :
           (front \o back)[i] = IF i <= Len(front) THEN front[i] ELSE back[i - Len(front)]
  <2>1. front \o back \in Seq(Callers) /\ Len(front \o back) = Len(front) + Len(back)
    <3>1. front \in Seq(Callers) /\ back \in Seq(Callers)
      BY <1>1, <1>2
    <3>2. front \o back \in Seq(Callers)
      BY <3>1
    <3>3. Len(front \o back) = Len(front) + Len(back)
      BY <3>1
    <3> QED
      BY <3>2, <3>3
  <2>2. Len(front) + Len(back) = Len(list) - 1
    BY <1>1, <1>2
  <2>3. \A i \in 1..(Len(front) + Len(back)) :
          (front \o back)[i] = IF i <= Len(front) THEN front[i] ELSE back[i - Len(front)]
    BY <1>1, <1>2
  <2> QED
    BY <2>1, <2>2, <2>3
<1>5. ASSUME NEW i \in 1..(Len(list) - 1)
      PROVE  (front \o back)[i] = IF i < k THEN list[i] ELSE list[i + 1]
  <2>0. i \in Nat /\ k \in Nat
    OBVIOUS
  <2>1. CASE i < k
    <3>1. i \in 1..(k - 1) /\ i <= Len(front)
      BY <1>1, <2>0, <2>1
    <3> QED
      BY <1>1, <1>4, <2>1, <3>1
  <2>2. CASE ~(i < k)
    <3>1. i - (k - 1) \in 1..(Len(list) - k) /\ (i - (k - 1)) + k = i + 1
      BY <2>0, <2>2
    <3>2. back[i - (k - 1)] = list[(i - (k - 1)) + k]
      BY <1>2, <3>1
    <3>3. ~(i <= Len(front)) /\ i - Len(front) = i - (k - 1)
      BY <1>1, <2>0, <2>2
    <3> QED
      BY <1>4, <2>2, <3>1, <3>2, <3>3
  <2> QED
    BY <2>1, <2>2
<1> QED
  BY <1>3, <1>4, <1>5


\* A discovery that leaves the queue of the lock: who is in it once stays so.
LEMMA WaitingKeeps ==
  ASSUME NEW list \in Seq(Callers), NEW who, Once(list, who)
  PROVE  /\ Waiting(list) \in Seq(Callers) /\ Once(Waiting(list), who)
         /\ Asks(Waiting(list), who) => Asks(list, who)
         /\ ~(who = "discovery" /\ Asks(Waiting(list), who))
<1>1. CASE ~\E i \in 1..Len(list) : list[i] = "discovery"
  <2>1. Waiting(list) = list
    BY <1>1 DEF Waiting, RemoveFirst
  <2> QED
    BY <1>1, <2>1 DEF Asks
<1>2. CASE \E i \in 1..Len(list) : list[i] = "discovery"
  <2> DEFINE I == {i \in 1..Len(list) : list[i] = "discovery"}
             k == SelectInSeq(list, LAMBDA v : v = "discovery")
  <2>1. k \in 1..Len(list) /\ list[k] = "discovery"
    <3>1. I # {} /\ I \subseteq Nat
      BY <1>2
    <3>2. k = Min(I)
      BY <3>1 DEF SelectInSeq
    <3>3. \E x \in I : \A y \in I : x <= y
      <4> HIDE DEF I
      <4> QED
        BY <3>1, LeastNumber
    <3>4. Min(I) \in I
      <4> HIDE DEF I
      <4> QED
        BY <3>3 DEF Min
    <3> HIDE DEF k
    <3> QED
      BY <3>2, <3>4
  <2>2. Waiting(list) = RemoveAt(list, k)
    BY <1>2 DEF Waiting, RemoveFirst
  <2> HIDE DEF k, I
  <2> DEFINE rest == RemoveAt(list, k)
             from(i) == IF i < k THEN i ELSE i + 1
  <2>3. rest \in Seq(Callers) /\ Len(rest) = Len(list) - 1 /\ DOMAIN rest = 1..(Len(list) - 1)
    BY <2>1, RemovedAt
  <2>4. \A i \in DOMAIN rest : rest[i] = list[from(i)] /\ from(i) \in DOMAIN list
    <3>1. ASSUME NEW i \in 1..(Len(list) - 1)
          PROVE  from(i) \in 1..Len(list)
      BY <2>1
    <3>2. ASSUME NEW i \in 1..(Len(list) - 1)
          PROVE  rest[i] = list[from(i)]
      <4>1. rest[i] = IF i < k THEN list[i] ELSE list[i + 1]
        BY <2>1, RemovedAt
      <4> HIDE DEF rest
      <4> QED
        BY <4>1
    <3> HIDE DEF from, rest
    <3> QED
      BY <2>3, <3>1, <3>2
  <2>5. /\ \A i, j \in DOMAIN rest : from(i) = from(j) => i = j
        /\ \A i \in DOMAIN rest : from(i) # k
    <3> HIDE DEF rest
    <3> QED
      BY <2>1, <2>3
  <2> HIDE DEF rest, from
  <2>6. Once(rest, who)
    BY <2>4, <2>5 DEF Once
  <2>7. Asks(rest, who) => Asks(list, who)
    BY <2>4 DEF Asks
  <2>8. ~(who = "discovery" /\ Asks(rest, who))
    BY <2>1, <2>4, <2>5 DEF Asks, Once
  <2>9. Waiting(list) = rest
    BY <2>2 DEF rest
  <2> QED
    BY <2>3, <2>6, <2>7, <2>8, <2>9
<1> QED
  BY <1>1, <1>2

LEMMA TailKeeps ==
  ASSUME NEW list \in Seq(Callers), list # <<>>, NEW who, Once(list, who)
  PROVE  /\ Tail(list) \in Seq(Callers) /\ Once(Tail(list), who)
         /\ Asks(Tail(list), who) => Asks(list, who)
         /\ Head(list) = who => ~Asks(Tail(list), who)
<1>1. /\ Tail(list) \in Seq(Callers) /\ Len(Tail(list)) = Len(list) - 1
      /\ DOMAIN Tail(list) = 1..(Len(list) - 1)
  OBVIOUS
<1>2. \A i \in 1..(Len(list) - 1) : Tail(list)[i] = list[i + 1] /\ i + 1 \in DOMAIN list
  OBVIOUS
<1>3. Head(list) = list[1] /\ 1 \in DOMAIN list
  OBVIOUS
<1>4. Once(Tail(list), who)
  BY <1>1, <1>2 DEF Once
<1>5. Asks(Tail(list), who) => Asks(list, who)
  BY <1>1, <1>2 DEF Asks
<1>6. Head(list) = who => ~Asks(Tail(list), who)
  BY <1>1, <1>2, <1>3 DEF Asks, Once
<1> QED
  BY <1>1, <1>4, <1>5, <1>6

LEMMA AppendKeeps ==
  ASSUME NEW list \in Seq(Callers), NEW who, Once(list, who), NEW last \in Callers,
         last = who => ~Asks(list, who)
  PROVE  /\ Append(list, last) \in Seq(Callers) /\ Once(Append(list, last), who)
         /\ last # who /\ Asks(Append(list, last), who) => Asks(list, who)
         /\ Append(list, last) # <<>>
         /\ list # <<>> => Head(Append(list, last)) = Head(list)
<1> DEFINE more == Append(list, last)
<1>1. /\ more \in Seq(Callers) /\ Len(more) = Len(list) + 1 /\ more # <<>>
      /\ DOMAIN more = 1..(Len(list) + 1) /\ DOMAIN list = 1..Len(list)
  OBVIOUS
<1>2. more[Len(list) + 1] = last /\ \A i \in 1..Len(list) : more[i] = list[i]
  OBVIOUS
<1>3. list # <<>> => Head(more) = Head(list)
  OBVIOUS
<1> HIDE DEF more
<1>4. \A i \in DOMAIN more : i \in DOMAIN list \/ i = Len(list) + 1
  BY <1>1
<1>5. Once(more, who)
  BY <1>1, <1>2, <1>4 DEF Once, Asks
<1>6. last # who /\ Asks(more, who) => Asks(list, who)
  BY <1>1, <1>2, <1>4 DEF Asks
<1> QED
  BY <1>1, <1>3, <1>5, <1>6 DEF more

(***************************************************************************)
(* apply_due.                                                              *)
(***************************************************************************)

\* By the times in memory, who has dwelt joined that long ago: a symbol that
\* has no time counts as new.
LEMMA DwellMeans ==
  ASSUME NEW times, NEW s, NEW eff \in Nat, \A x \in DOMAIN times : times[x] \in Nat,
         DwellComplete(Since(times, s, eff), eff, CandidateDwell)
  PROVE  s \in DOMAIN times /\ times[s] + CandidateDwell <= eff
<1>1. CandidateDwell \in Nat /\ CandidateDwell > 0
  BY DwellIs
<1>2. CASE s \notin DOMAIN times
  <2>1. Since(times, s, eff) = eff
    BY <1>2 DEF Since
  <2>2. eff <= eff - CandidateDwell
    BY <2>1 DEF DwellComplete
  <2> QED
    BY <1>1, <2>2
<1>3. CASE s \in DOMAIN times
  <2>1. Since(times, s, eff) = times[s] /\ times[s] \in Nat
    BY <1>3 DEF Since
  <2>2. times[s] <= eff - CandidateDwell
    BY <2>1 DEF DwellComplete
  <2> QED
    BY <1>1, <1>3, <2>1, <2>2
<1> QED
  BY <1>2, <1>3

\* Who leaves with the step has dwelt.
DwellStep ==
  \A s \in Candidates(file) \ (Members(file') \cup file'.inactive) :
    s \in DOMAIN joined /\ joined[s] + CandidateDwell <= file'.eff

\* The next decision becomes active, from a midnight that has come.
Rolls ==
  /\ active' = file' /\ file'.seq = file.seq + 1
  /\ file'.eff \in Nat /\ file'.eff % Ticks = 0 /\ file'.eff <= now
  /\ apply' = [step |-> "state", source |-> apply'.source]
  /\ \A s \in DOMAIN joined' : joined'[s] \in Nat
  /\ ~torn => since'.member = joined' /\ DwellStep

\* Nothing is due.
Rests == apply' = [step |-> "done", source |-> {}] /\ UNCHANGED <<active, since, file, joined>>

LEMMA DueIs ==
  ASSUME UniverseInv, mode # "down", NEW t \in Nat, NEW c \in DueDecisions(t)
  PROVE  \/ c.decision = pending /\ pending.seq > file.seq /\ pending.eff <= t
         \/ \E o \in overrides : OverrideHolds(o) /\ o.eff <= t /\ c.decision = FromOverride(o)
<1>1. active = file
  BY DEF UniverseInv, ModeInv
<1>2. CASE c \in {[decision |-> FromOverride(o), source |-> {o}] :
                    o \in {x \in overrides : OverrideHolds(x) /\ x.eff <= t}}
  <2>1. PICK o \in {x \in overrides : OverrideHolds(x) /\ x.eff <= t} :
             c = [decision |-> FromOverride(o), source |-> {o}]
    BY <1>2
  <2>2. c.decision = FromOverride(o)
    BY <2>1
  <2> QED
    BY <2>1, <2>2
<1>3. CASE /\ Automation /\ pending # NoDecision /\ pending.seq > active.seq /\ pending.eff <= t
           /\ c \in {[decision |-> pending, source |-> {}]}
  <2>1. c.decision = pending
    BY <1>3
  <2> QED
    BY <1>1, <1>3, <2>1
<1> QED
  BY <1>2, <1>3 DEF DueDecisions

LEMMA ActivateRolls ==
  ASSUME UniverseInv, mode # "down", NEW t \in Nat, t <= now, NEW c \in DueDecisions(t),
         Activate(c.decision), apply' = [step |-> "state", source |-> c.source]
  PROVE  Rolls
<1> DEFINE d == c.decision
<1>1. /\ active = file /\ file.seq \in Nat /\ now \in Nat
      /\ \A s \in DOMAIN joined : joined[s] \in Nat
      /\ pending.seq \in Nat /\ pending.eff \in Nat /\ pending.eff % Ticks = 0
      /\ \A o \in overrides : o.eff \in Nat /\ o.eff % Ticks = 0
      /\ pending.seq <= file.seq + 1
      /\ ~torn => since.member = joined
      /\ ~torn /\ pending.seq > file.seq => PendingDwell
  BY DEF UniverseInv, Types, ClockTypes, StoreTypes, ModeInv, DwellInv
<1>2. /\ active' = d /\ file' = d
      /\ since' = [member |-> Carried(since.member, Members(d), d.eff), core |-> CarriedCore(d)]
      /\ joined' = [s \in Members(d) |-> IF s \in DOMAIN joined THEN joined[s] ELSE d.eff]
  BY DEF Activate
<1> HIDE DEF d
<1>3. /\ d.seq = file.seq + 1 /\ d.eff \in Nat /\ d.eff % Ticks = 0 /\ d.eff <= now
      /\ ~torn => \A s \in Candidates(file) \ (Members(d) \cup d.inactive) :
                    s \in DOMAIN joined /\ joined[s] + CandidateDwell <= d.eff
  <2>1. CASE d = pending /\ pending.seq > file.seq /\ pending.eff <= t
    <3>1. d.seq = file.seq + 1 /\ d.eff \in Nat /\ d.eff % Ticks = 0 /\ d.eff <= now
      BY <1>1, <2>1
    <3> QED
      BY <1>1, <2>1, <3>1 DEF PendingDwell
  <2>2. ASSUME NEW o \in overrides, OverrideHolds(o), o.eff <= t, d = FromOverride(o)
        PROVE  <1>3!:
    <3>1. /\ d.seq = file.seq + 1 /\ d.eff = o.eff
          /\ d.boundary = o.boundary /\ d.probe = o.probe
      BY <1>1, <2>2 DEF FromOverride, Decision, Roles
    <3>2. o.eff \in Nat /\ o.eff % Ticks = 0 /\ o.eff <= now
      BY <1>1, <2>2
    <3>3. ASSUME ~torn, NEW s \in Candidates(file) \ (Members(d) \cup d.inactive)
          PROVE  s \in DOMAIN joined /\ joined[s] + CandidateDwell <= d.eff
      <4>1. s \in Candidates(active) \ (o.boundary \cup o.probe)
        BY <1>1, <3>1, <3>3 DEF Members, Candidates
      <4>2. DwellComplete(Since(since.member, s, o.eff), o.eff, CandidateDwell)
        BY <2>2, <4>1 DEF OverrideHolds
      <4>3. DwellComplete(Since(joined, s, o.eff), o.eff, CandidateDwell)
        BY <1>1, <3>3, <4>2
      <4> QED
        BY <1>1, <3>1, <3>2, <4>3, DwellMeans
    <3> QED
      BY <3>1, <3>2, <3>3
  <2> QED
    BY <2>1, <2>2, DueIs DEF d
<1>4. \A s \in DOMAIN joined' : joined'[s] \in Nat
  BY <1>1, <1>2, <1>3
<1>5. ~torn => since'.member = joined'
  BY <1>1, <1>2 DEF Carried, Since
<1> QED
  BY <1>2, <1>3, <1>4, <1>5 DEF Rolls, DwellStep

LEMMA SelectionRolls ==
  ASSUME UniverseInv, mode # "down", NEW t \in Nat, t <= now, SelectAndActivate(t)
  PROVE  /\ Rolls \/ Rests
         /\ apply = NoApply /\ overrides' \subseteq overrides
<1>1. CASE Rests
  BY <1>1 DEF SelectAndActivate
<1>2. ASSUME NEW c \in Best(DueDecisions(t)), Activate(c.decision),
             apply' = [step |-> "state", source |-> c.source]
      PROVE  Rolls
  <2>1. c \in DueDecisions(t)
    BY DEF Best
  <2> QED
    BY <1>2, <2>1, ActivateRolls
<1> QED
  BY <1>1, <1>2 DEF SelectAndActivate, Rests, NoApply

(***************************************************************************)
(* The types.                                                              *)
(***************************************************************************)

LEMMA NoDecisionIs ==
  NoDecision.seq = 0 /\ NoDecision.eff = 0 /\ NoDecision.eff % Ticks = 0
  BY DEF NoDecision, Decision, Ticks

LEMMA AppliesRoll ==
  ASSUME UniverseInv, BootApply \/ BoundaryApply
  PROVE  /\ Rolls \/ Rests
         /\ apply = NoApply /\ overrides' \subseteq overrides /\ mode # "down"
         /\ UNCHANGED <<now, state, pending, formal, hash, mode, lock, disc, events, inForce, late,
                        torn>>
<1>1. now \in Nat /\ Midnight(Day(now)) \in Nat /\ Midnight(Day(now)) <= now /\ now <= now
  <2>1. now \in Nat
    BY DEF UniverseInv, Types, ClockTypes
  <2> QED
    BY <2>1, DayIs
<1>2. mode # "down"
  BY DEF BootApply, BoundaryApply
<1>3. CASE BootApply
  BY <1>1, <1>2, <1>3, SelectionRolls DEF BootApply
<1>4. CASE BoundaryApply
  BY <1>1, <1>2, <1>4, SelectionRolls DEF BoundaryApply
<1> QED
  BY <1>3, <1>4

LEMMA ClockTypesStep ==
  ASSUME UniverseInv, Next
  PROVE  ClockTypes'
<1>0. ClockTypes
  BY DEF UniverseInv, Types
<1>1. CASE WriteState \/ UnlinkSource \/ UnlinkPending
  BY <1>0, <1>1 DEF WriteState, UnlinkSource, UnlinkPending, ClockTypes, store, memory, disk,
     history
<1>2. CASE BootApply
  BY <1>0, <1>2 DEF BootApply, ClockTypes, store, memory, disk, history
<1>3. CASE BootReady
  BY <1>0, <1>3 DEF BootReady, MarkFormalStart, Emitted, ClockTypes, store, memory, disk, history
<1>4. CASE Boot \/ FirstBoot \/ FirstState \/ BootStart
  BY <1>0, <1>4 DEF Boot, FirstBoot, FirstState, BootStart, ClockTypes, store, memory, disk,
     history
<1>5. CASE BoundaryApply \/ BoundaryEmit
  BY <1>0, <1>5 DEF BoundaryApply, BoundaryEmit, Emitted, ClockTypes, store, memory, disk,
     history
<1>6. CASE StorageRequest \/ StorageStop \/ StorageStart \/ StorageReady \/ StorageTimeout
  BY <1>0, <1>6 DEF StorageRequest, StorageStop, Holds, StorageStart, StorageReady,
     MarkFormalStart, Emitted, StorageTimeout, ClockTypes, store, memory, disk, history
<1>7. CASE Observe \/ (Planning /\ VerifyBootstrap) \/ (Planning /\ KeepActive(Result)) \/
           (Planning /\ PlanChange(Result)) \/ (Planning /\ EvidenceRefused(Result))
  BY <1>0, <1>7 DEF Observe, VerifyBootstrap, Planned, KeepActive, PlanChange, EvidenceRefused,
     Fails, ClockTypes, store, memory, disk, history
<1>8. CASE Tick
  <2>1. now' = now + 1 /\ formal' = formal /\ torn' = torn
    BY <1>8 DEF Tick
  <2>2. retro' \in BOOLEAN /\ late' \in BOOLEAN
    BY <1>0, <1>8 DEF Tick, ClockTypes
  <2> QED
    BY <1>0, <2>1, <2>2 DEF ClockTypes
<1>9. CASE Crash \/ PlaceOverride \/ FillDisk \/ FreeDisk
  BY <1>0, <1>9 DEF Crash, Fails, PlaceOverride, FillDisk, FreeDisk, ClockTypes, store, memory,
     disk, history
<1> QED
  BY <1>1, <1>2, <1>3, <1>4, <1>5, <1>6, <1>7, <1>8, <1>9
     DEF Next, Store, Service, ObserveAndPlan

LEMMA ApplyTypesStep ==
  ASSUME UniverseInv, Next
  PROVE  ApplyTypes'
<1>0. ApplyTypes
  BY DEF UniverseInv, Types
<1>1. CASE WriteState \/ UnlinkSource \/ UnlinkPending
  BY <1>0, <1>1 DEF WriteState, UnlinkSource, UnlinkPending, ApplyTypes, NoApply, store, memory,
     disk, history
<1>2. CASE BootApply
  BY <1>2, AppliesRoll DEF ApplyTypes, Rolls, Rests
<1>3. CASE Boot \/ FirstBoot \/ FirstState \/ BootStart \/ BootReady
  BY <1>0, <1>3 DEF Boot, FirstBoot, FirstState, BootStart, BootReady, MarkFormalStart, Emitted,
     ApplyTypes, NoApply, store, memory, disk, history
<1>4. CASE BoundaryApply
  BY <1>4, AppliesRoll DEF ApplyTypes, Rolls, Rests
<1>5. CASE BoundaryEmit
  BY <1>0, <1>5 DEF BoundaryEmit, Emitted, ApplyTypes, NoApply, store, memory, disk, history
<1>6. CASE StorageRequest \/ StorageStop \/ StorageStart \/ StorageReady \/ StorageTimeout
  BY <1>0, <1>6 DEF StorageRequest, StorageStop, Holds, StorageStart, StorageReady,
     MarkFormalStart, Emitted, StorageTimeout, ApplyTypes, NoApply, store, memory, disk, history
<1>7. CASE Observe \/ (Planning /\ VerifyBootstrap) \/ (Planning /\ KeepActive(Result)) \/
           (Planning /\ PlanChange(Result)) \/ (Planning /\ EvidenceRefused(Result))
  BY <1>0, <1>7 DEF Observe, VerifyBootstrap, Planned, KeepActive, PlanChange, EvidenceRefused,
     Fails, ApplyTypes, NoApply, store, memory, disk, history
<1>8. CASE Tick \/ Crash \/ PlaceOverride \/ FillDisk \/ FreeDisk
  BY <1>0, <1>8 DEF Tick, Crash, Fails, PlaceOverride, FillDisk, FreeDisk, ApplyTypes, NoApply,
     store, memory, disk, history
<1> QED
  BY <1>1, <1>2, <1>3, <1>4, <1>5, <1>6, <1>7, <1>8
     DEF Next, Store, Service, ObserveAndPlan

LEMMA DiscTypesStep ==
  ASSUME UniverseInv, Next
  PROVE  DiscTypes'
<1>0. DiscTypes /\ now \in Nat
  BY DEF UniverseInv, Types, ClockTypes
<1>1. CASE WriteState \/ UnlinkSource \/ UnlinkPending
  BY <1>0, <1>1 DEF WriteState, UnlinkSource, UnlinkPending, DiscTypes, NoDiscovery,
     DueDiscovery, store, memory, disk, history
<1>2. CASE Boot \/ FirstBoot \/ FirstState \/ BootApply \/ BootStart \/ BootReady
  BY <1>0, <1>2 DEF Boot, FirstBoot, FirstState, BootApply, BootStart, BootReady,
     MarkFormalStart, Emitted, DiscTypes, NoDiscovery, DueDiscovery, store, memory, disk,
     history
<1>3. CASE BoundaryApply \/ BoundaryEmit
  BY <1>0, <1>3 DEF BoundaryApply, BoundaryEmit, Emitted, DiscTypes, NoDiscovery, DueDiscovery,
     store, memory, disk, history
<1>4. CASE StorageRequest \/ StorageStop \/ StorageStart \/ StorageReady \/ StorageTimeout
  BY <1>0, <1>4 DEF StorageRequest, StorageStop, Holds, StorageStart, StorageReady,
     MarkFormalStart, Emitted, StorageTimeout, DiscTypes, NoDiscovery, DueDiscovery, store,
     memory, disk, history
<1>5. CASE Observe
  BY <1>0, <1>5 DEF Observe, DiscTypes, NoDiscovery, DueDiscovery, store, memory, disk, history
<1>6. CASE (Planning /\ VerifyBootstrap) \/ (Planning /\ KeepActive(Result)) \/ (Planning /\
           PlanChange(Result)) \/ (Planning /\ EvidenceRefused(Result))
  BY <1>0, <1>6 DEF VerifyBootstrap, Planned, KeepActive, PlanChange, EvidenceRefused, Fails,
     DiscTypes, NoDiscovery, DueDiscovery, store, memory, disk, history
<1>7. CASE Tick \/ Crash \/ PlaceOverride \/ FillDisk \/ FreeDisk
  BY <1>0, <1>7 DEF Tick, Crash, Fails, PlaceOverride, FillDisk, FreeDisk, DiscTypes,
     NoDiscovery, DueDiscovery, store, memory, disk, history
<1> QED
  BY <1>1, <1>2, <1>3, <1>4, <1>5, <1>6, <1>7
     DEF Next, Store, Service, ObserveAndPlan

LEMMA StoreTypesStep ==
  ASSUME UniverseInv, Next
  PROVE  StoreTypes'
<1>0. StoreTypes /\ ClockTypes
  BY DEF UniverseInv, Types
<1>1. CASE UnlinkSource
  BY <1>0, <1>1, NoDecisionIs DEF UnlinkSource, StoreTypes, history
<1>2. CASE UnlinkPending
  BY <1>0, <1>2, NoDecisionIs DEF UnlinkPending, StoreTypes, history
<1>3. CASE WriteState
  BY <1>0, <1>3 DEF WriteState, StoreTypes, ClockTypes, NoDecision, Decision, store, memory,
     disk, history
<1>4. CASE FirstBoot
  BY <1>0, <1>4 DEF FirstBoot, StoreTypes, ClockTypes, NoDecision, Decision, store, memory, disk,
     history
<1>5. CASE BootApply
  <2>1. /\ Rolls \/ Rests
        /\ overrides' \subseteq overrides /\ pending' = pending
    BY <1>5, AppliesRoll
  <2>2. CASE Rolls
    BY <1>0, <2>1, <2>2 DEF StoreTypes, Rolls
  <2>3. CASE Rests
    BY <1>0, <2>1, <2>3 DEF StoreTypes, Rests
  <2> QED
    BY <2>1, <2>2, <2>3
<1>6. CASE Boot \/ FirstState \/ BootStart \/ BootReady
  BY <1>0, <1>6 DEF Boot, FirstState, BootStart, BootReady, MarkFormalStart, Emitted,
     StoreTypes, ClockTypes, NoDecision, Decision, store, memory, disk, history
<1>7. CASE BoundaryApply
  <2>1. /\ Rolls \/ Rests
        /\ overrides' \subseteq overrides /\ pending' = pending
    BY <1>7, AppliesRoll
  <2>2. CASE Rolls
    BY <1>0, <2>1, <2>2 DEF StoreTypes, Rolls
  <2>3. CASE Rests
    BY <1>0, <2>1, <2>3 DEF StoreTypes, Rests
  <2> QED
    BY <2>1, <2>2, <2>3
<1>8. CASE BoundaryEmit
  BY <1>0, <1>8 DEF BoundaryEmit, Emitted, StoreTypes, ClockTypes, NoDecision, Decision, store,
     memory, disk, history
<1>9. CASE StorageRequest \/ StorageStop \/ StorageStart \/ StorageReady \/ StorageTimeout
  BY <1>0, <1>9 DEF StorageRequest, StorageStop, Holds, StorageStart, StorageReady,
     MarkFormalStart, Emitted, StorageTimeout, StoreTypes, ClockTypes, NoDecision, Decision,
     store, memory, disk, history
<1>10. ASSUME Planning, KeepActive(Result) PROVE  StoreTypes'
  <2>1. pending' = NoDecision /\ UNCHANGED <<file, overrides, joined>>
    BY <1>10 DEF KeepActive, Planned, history
  <2> QED
    BY <1>0, <2>1, NoDecisionIs DEF StoreTypes
<1>11. ASSUME Planning, PlanChange(Result) PROVE  StoreTypes'
  <2>1. disc.at \in Nat /\ active = file
    BY <1>11 DEF UniverseInv, Types, DiscTypes, ModeInv, Planning
  <2>2. Effective \in Nat /\ Effective % Ticks = 0
    BY <2>1, NextEffectiveIs DEF Effective
  <2>3. pending'.seq = file.seq + 1 /\ pending'.eff = Effective
    BY <1>11, <2>1 DEF PlanChange, Decision
  <2>4. UNCHANGED <<file, overrides, joined>>
    BY <1>11 DEF PlanChange, Planned
  <2> QED
    BY <1>0, <2>2, <2>3, <2>4 DEF StoreTypes
<1>12. CASE Observe \/ (Planning /\ VerifyBootstrap) \/ (Planning /\ EvidenceRefused(Result))
  BY <1>0, <1>12 DEF Observe, VerifyBootstrap, Planned, EvidenceRefused, Fails, StoreTypes,
     ClockTypes, NoDecision, Decision, store, memory, disk, history
<1>13. CASE PlaceOverride
  <2>1. PICK p \in Proposals :
             overrides' = overrides \cup {[created |-> now, eff |-> Midnight(Day(now) + 1),
                                           boundary |-> p.boundary, probe |-> p.probe]}
    BY <1>13 DEF PlaceOverride
  <2>2. Midnight(Day(now) + 1) \in Nat /\ Midnight(Day(now) + 1) % Ticks = 0
    BY <1>0, DayIs DEF ClockTypes
  <2>3. \A o \in overrides' : o \in overrides \/ o.eff = Midnight(Day(now) + 1)
    BY <2>1
  <2>4. UNCHANGED <<file, pending, joined>>
    BY <1>13 DEF PlaceOverride, history
  <2> QED
    BY <1>0, <2>2, <2>3, <2>4 DEF StoreTypes
<1>14. CASE Tick \/ Crash \/ FillDisk \/ FreeDisk
  BY <1>0, <1>14 DEF Tick, Crash, Fails, FillDisk, FreeDisk, StoreTypes, ClockTypes, NoDecision,
     Decision, store, memory, disk, history
<1> QED
  BY <1>1, <1>2, <1>3, <1>4, <1>5, <1>6, <1>7, <1>8, <1>9, <1>10, <1>11, <1>12, <1>13, <1>14
     DEF Next, Store, Service, ObserveAndPlan

(***************************************************************************)
(* The parts.                                                              *)
(***************************************************************************)

LEMMA NoApplyIs == NoApply = [step |-> "idle", source |-> {}]
  BY DEF NoApply


LEMMA LockInvStep ==
  ASSUME UniverseInv, Next
  PROVE  LockInv' /\ (lock \in Seq(Callers))'
<1>0. /\ lock \in Seq(Callers) /\ Once(lock, "midnight")
      /\ (Asks(lock, "midnight") => now % Ticks = 0 /\ inForce = NoRoles)
      /\ now \in Nat
      /\ "storage" \in Callers /\ "discovery" \in Callers /\ "midnight" \in Callers
  BY DEF UniverseInv, Types, ClockTypes, LockInv, Callers
<1>1. CASE WriteState \/ UnlinkSource \/ UnlinkPending
  BY <1>0, <1>1 DEF WriteState, UnlinkSource, UnlinkPending, LockInv, store, memory, disk,
     history
<1>2. CASE BootReady
  <2>1. lock' = lock /\ now' = now
    BY <1>2 DEF BootReady
  <2>2. Asks(lock, "midnight") => "midnight" \in ToSet(lock)
    BY DEF Asks, ToSet
  <2>3. Asks(lock, "midnight") => inForce' = inForce
    BY <1>2, <2>2 DEF BootReady, MarkFormalStart, Enforced
  <2> QED
    BY <1>0, <2>1, <2>3 DEF LockInv
<1>3. CASE Boot \/ FirstBoot \/ FirstState \/ BootApply \/ BootStart
  BY <1>0, <1>3 DEF Boot, FirstBoot, FirstState, BootApply, BootStart, LockInv, store, memory,
     disk, history
<1>4. CASE BoundaryEmit
  <2>1. lock # <<>> /\ Head(lock) = "midnight" /\ lock' = Tail(lock) /\ now' = now
    BY <1>4 DEF BoundaryEmit
  <2> QED
    BY <1>0, <2>1, TailKeeps DEF LockInv
<1>5. CASE BoundaryApply
  BY <1>0, <1>5 DEF BoundaryApply, LockInv, store, memory, disk, history
<1>6. CASE StorageRequest
  <2>1. lock' = Append(lock, "storage") /\ UNCHANGED <<now, inForce>>
    BY <1>6 DEF StorageRequest, history
  <2> QED
    BY <1>0, <2>1, AppendKeeps DEF LockInv
<1>7. CASE StorageStop
  <2>1. lock # <<>> /\ lock' = Waiting(Tail(lock)) /\ UNCHANGED <<now, inForce>>
    BY <1>7 DEF StorageStop, Holds, history
  <2>2. /\ Tail(lock) \in Seq(Callers) /\ Once(Tail(lock), "midnight")
        /\ Asks(Tail(lock), "midnight") => Asks(lock, "midnight")
    BY <1>0, <2>1, TailKeeps
  <2> QED
    BY <1>0, <2>1, <2>2, WaitingKeeps DEF LockInv
<1>8. CASE StorageStart
  <2>1. lock # <<>> /\ (lock' = lock \/ lock' = Tail(lock)) /\ UNCHANGED <<now, inForce>>
    BY <1>8 DEF StorageStart, Holds, history
  <2> QED
    BY <1>0, <2>1, TailKeeps DEF LockInv
<1>9. CASE StorageReady
  <2>1. lock # <<>> /\ lock' = Tail(lock) /\ now' = now
    BY <1>9 DEF StorageReady, Holds
  <2>2. Asks(lock, "midnight") => "midnight" \in ToSet(lock)
    BY DEF Asks, ToSet
  <2>3. Asks(lock, "midnight") => inForce' = inForce
    BY <1>9, <2>2 DEF StorageReady, MarkFormalStart, Enforced
  <2> QED
    BY <1>0, <2>1, <2>3, TailKeeps DEF LockInv
<1>10. CASE StorageTimeout
  <2>1. lock # <<>> /\ lock' = Waiting(Tail(lock)) /\ UNCHANGED <<now, inForce>>
    BY <1>10 DEF StorageTimeout, Holds, history
  <2>2. /\ Tail(lock) \in Seq(Callers) /\ Once(Tail(lock), "midnight")
        /\ Asks(Tail(lock), "midnight") => Asks(lock, "midnight")
    BY <1>0, <2>1, TailKeeps
  <2> QED
    BY <1>0, <2>1, <2>2, WaitingKeeps DEF LockInv
<1>11. CASE Observe
  <2>1. lock' = Append(lock, "discovery") /\ UNCHANGED <<now, inForce>>
    BY <1>11 DEF Observe, history
  <2> QED
    BY <1>0, <2>1, AppendKeeps DEF LockInv
<1>12. CASE Planning /\ VerifyBootstrap
  <2>1. lock # <<>> /\ UNCHANGED <<now, inForce>>
    BY <1>12 DEF VerifyBootstrap, Planning, Planned, history
  <2>2. lock' = Tail(lock)
    BY <1>12 DEF VerifyBootstrap, Planning, Planned
  <2> QED
    BY <1>0, <2>1, <2>2, TailKeeps DEF LockInv
<1>13. ASSUME Planning, KeepActive(Result) PROVE  LockInv' /\ (lock \in Seq(Callers))'
  <2>1. lock # <<>> /\ UNCHANGED <<now, inForce>>
    BY <1>13 DEF KeepActive, Planning, Planned, history
  <2>2. lock' = Tail(lock)
    BY <1>13 DEF KeepActive, Planning, Planned
  <2> QED
    BY <1>0, <2>1, <2>2, TailKeeps DEF LockInv
<1>14. ASSUME Planning, PlanChange(Result) PROVE  LockInv' /\ (lock \in Seq(Callers))'
  <2>1. lock # <<>> /\ UNCHANGED <<now, inForce>>
    BY <1>14 DEF PlanChange, Planning, Planned, history
  <2>2. lock' = Tail(lock)
    BY <1>14 DEF PlanChange, Planning, Planned
  <2> QED
    BY <1>0, <2>1, <2>2, TailKeeps DEF LockInv
<1>15. ASSUME Planning, EvidenceRefused(Result) PROVE  LockInv' /\ (lock \in Seq(Callers))'
  <2>1. lock' = <<>> /\ UNCHANGED <<now, inForce>>
    BY <1>15 DEF EvidenceRefused, Fails
  <2> QED
    BY <1>0, <2>1 DEF LockInv, Once, Asks
<1>16. CASE Tick
  <2>1. now' = now + 1 /\ (lock = <<>> \/ now % Ticks # 0)
    BY <1>16 DEF Tick
  <2>2. ~Asks(lock, "midnight")
    BY <1>0, <2>1 DEF Asks
  <2>3. CASE now' % Ticks = 0
    <3>1. inForce' = NoRoles /\ (lock' = lock \/ lock' = Append(lock, "midnight"))
      BY <1>16, <2>3 DEF Tick
    <3> QED
      BY <1>0, <2>2, <2>3, <3>1, AppendKeeps DEF LockInv
  <2>4. CASE now' % Ticks # 0
    <3>1. UNCHANGED <<lock, inForce>>
      BY <1>16, <2>4 DEF Tick
    <3> QED
      BY <1>0, <2>2, <3>1 DEF LockInv
  <2> QED
    BY <2>3, <2>4
<1>17. CASE Crash
  <2>1. lock' = <<>> /\ UNCHANGED <<now, inForce>>
    BY <1>17 DEF Crash, Fails
  <2> QED
    BY <1>0, <2>1 DEF LockInv, Once, Asks
<1>18. CASE PlaceOverride \/ FillDisk \/ FreeDisk
  BY <1>0, <1>18 DEF PlaceOverride, FillDisk, FreeDisk, LockInv, store, memory, disk, history
<1> QED
  BY <1>1, <1>2, <1>3, <1>4, <1>5, <1>6, <1>7, <1>8, <1>9, <1>10, <1>11, <1>12, <1>13, <1>14,
     <1>15, <1>16, <1>17, <1>18
     DEF Next, Store, Service, ObserveAndPlan

LEMMA ModeInvStep ==
  ASSUME UniverseInv, Next
  PROVE  ModeInv'
<1>0. /\ ModeInv /\ ApplyTypes /\ apply' = [step |-> apply'.step, source |-> apply'.source]
      /\ lock \in Seq(Callers) /\ Once(lock, "midnight")
      /\ "storage" \in Callers /\ "discovery" \in Callers
      /\ file = NoDecision => mode = "down"
  BY ApplyTypesStep DEF UniverseInv, Types, ApplyTypes, LockInv, FileInv, Callers
<1>1. CASE WriteState
  <2>1. apply.step = "state" /\ apply' = [apply EXCEPT !.step = "unlink"]
    BY <1>1 DEF WriteState
  <2>2. apply # NoApply /\ apply'.step = "unlink"
    BY <1>0, <2>1, NoApplyIs DEF ApplyTypes
  <2>3. apply' # NoApply
    BY <2>2, NoApplyIs
  <2>4. UNCHANGED <<mode, active, file, lock, hash>>
    BY <1>1 DEF WriteState, memory
  <2> QED
    BY <1>0, <2>2, <2>3, <2>4 DEF ModeInv
<1>2. CASE UnlinkSource
  <2>1. apply.step = "unlink" /\ apply' = [apply EXCEPT !.step = "pending"]
    BY <1>2 DEF UnlinkSource
  <2>2. apply # NoApply /\ apply'.step = "pending"
    BY <1>0, <2>1, NoApplyIs DEF ApplyTypes
  <2>3. apply' # NoApply
    BY <2>2, NoApplyIs
  <2>4. UNCHANGED <<mode, active, file, lock, hash>>
    BY <1>2 DEF UnlinkSource, memory
  <2> QED
    BY <1>0, <2>2, <2>3, <2>4 DEF ModeInv
<1>3. CASE UnlinkPending
  <2>1. apply.step = "pending" /\ apply' = [apply EXCEPT !.step = "done"]
    BY <1>3 DEF UnlinkPending
  <2>2. apply # NoApply /\ apply'.step = "done"
    BY <1>0, <2>1, NoApplyIs DEF ApplyTypes
  <2>3. apply' # NoApply
    BY <2>2, NoApplyIs
  <2>4. UNCHANGED <<mode, active, file, lock, hash>>
    BY <1>3 DEF UnlinkPending, memory
  <2> QED
    BY <1>0, <2>2, <2>3, <2>4 DEF ModeInv
<1>4. CASE BootApply
  <2>1. Rolls \/ Rests
    BY <1>4, AppliesRoll
  <2>2. apply' # NoApply
    BY <2>1, NoApplyIs DEF Rolls, Rests
  <2>3. active = file /\ active' = file'
    BY <1>0, <2>1, <1>4 DEF ModeInv, Rolls, Rests, BootApply
  <2> QED
    BY <1>4, <2>2, <2>3 DEF ModeInv, BootApply
<1>5. CASE Boot \/ FirstBoot \/ FirstState \/ BootStart \/ BootReady
  BY <1>0, <1>5 DEF Boot, FirstBoot, FirstState, BootStart, BootReady, MarkFormalStart, Emitted,
     ModeInv, store, memory, disk, history
<1>6. CASE BoundaryApply
  <2>1. Rolls \/ Rests
    BY <1>6, AppliesRoll
  <2>2. apply' # NoApply
    BY <2>1, NoApplyIs DEF Rolls, Rests
  <2>3. active = file /\ active' = file'
    BY <1>0, <2>1, <1>6 DEF ModeInv, Rolls, Rests, BoundaryApply
  <2> QED
    BY <1>6, <2>2, <2>3 DEF ModeInv, BoundaryApply
<1>7. CASE BoundaryEmit
  BY <1>0, <1>7 DEF BoundaryEmit, Emitted, ModeInv, store, memory, disk, history
<1>8. CASE StorageRequest \/ StorageStop \/ StorageStart \/ StorageReady \/ StorageTimeout
  BY <1>0, <1>8 DEF StorageRequest, StorageStop, Holds, StorageStart, StorageReady,
     MarkFormalStart, Emitted, StorageTimeout, ModeInv, store, memory, disk, history
<1>9. CASE Observe
  BY <1>0, <1>9 DEF Observe, ModeInv, store, memory, disk, history
<1>10. CASE Planning /\ VerifyBootstrap
  <2>1. apply = NoApply /\ UNCHANGED <<mode, active, file, hash, apply>>
    BY <1>0, <1>10 DEF ModeInv, Planning, VerifyBootstrap, Planned, memory
  <2> QED
    BY <1>0, <2>1 DEF ModeInv
<1>11. ASSUME Planning, KeepActive(Result) PROVE  ModeInv'
  <2>1. apply = NoApply /\ UNCHANGED <<mode, active, file, hash, apply>>
    BY <1>0, <1>11 DEF ModeInv, Planning, KeepActive, Planned, memory
  <2> QED
    BY <1>0, <2>1 DEF ModeInv
<1>12. ASSUME Planning, PlanChange(Result) PROVE  ModeInv'
  <2>1. apply = NoApply /\ UNCHANGED <<mode, active, file, hash, apply>>
    BY <1>0, <1>12 DEF ModeInv, Planning, PlanChange, Planned, memory
  <2> QED
    BY <1>0, <2>1 DEF ModeInv
<1>13. CASE (Planning /\ EvidenceRefused(Result))
  BY <1>0, <1>13 DEF EvidenceRefused, Fails, ModeInv, store, memory, disk, history
<1>14. CASE Tick \/ Crash \/ PlaceOverride \/ FillDisk \/ FreeDisk
  BY <1>0, <1>14 DEF Tick, Crash, Fails, PlaceOverride, FillDisk, FreeDisk, ModeInv, store,
     memory, disk, history
<1> QED
  BY <1>1, <1>2, <1>3, <1>4, <1>5, <1>6, <1>7, <1>8, <1>9, <1>10, <1>11, <1>12, <1>13, <1>14
     DEF Next, Store, Service, ObserveAndPlan

LEMMA FileInvStep ==
  ASSUME UniverseInv, Next
  PROVE  FileInv'
<1>0. FileInv /\ ModeInv /\ ClockTypes /\ StoreTypes /\ NoDecision.seq = 0
  BY NoDecisionIs DEF UniverseInv, Types
<1>1. CASE WriteState
  <2>1. apply # NoApply
    BY <1>1, NoApplyIs DEF WriteState
  <2>2. mode \notin {"down", "first"} /\ UNCHANGED <<now, file, formal, mode, inForce>>
    BY <1>0, <1>1, <2>1 DEF WriteState, ModeInv, history
  <2> QED
    BY <1>0, <2>2 DEF FileInv
<1>2. CASE UnlinkSource \/ UnlinkPending
  BY <1>0, <1>2 DEF UnlinkSource, UnlinkPending, FileInv, ModeInv, ClockTypes, StoreTypes,
     store, memory, disk, history
<1>3. CASE FirstBoot
  <2>1. /\ file = NoDecision /\ file' = Decision(1, now, now, Bootstrap, {})
        /\ mode' = "first" /\ UNCHANGED <<now, formal, state, inForce>>
    BY <1>3 DEF FirstBoot
  <2>2. file'.seq = 1 /\ file'.eff = now
    BY <2>1 DEF Decision
  <2> QED
    BY <1>0, <2>1, <2>2 DEF FileInv, ClockTypes
<1>4. CASE BootApply
  <2>1. /\ Rolls \/ Rests
        /\ UNCHANGED <<now, formal, state, mode, inForce>> /\ mode # "down"
    BY <1>4, AppliesRoll
  <2>2. CASE Rolls
    BY <1>0, <2>1, <2>2 DEF Rolls, FileInv, StoreTypes
  <2>3. CASE Rests
    BY <1>0, <2>1, <2>3 DEF Rests, FileInv
  <2> QED
    BY <2>1, <2>2, <2>3
<1>5. CASE Boot \/ FirstState \/ BootStart \/ BootReady
  BY <1>0, <1>5 DEF Boot, FirstState, BootStart, BootReady, MarkFormalStart, Emitted, FileInv,
     ModeInv, ClockTypes, StoreTypes, store, memory, disk, history
<1>6. CASE BoundaryApply
  <2>1. /\ Rolls \/ Rests
        /\ UNCHANGED <<now, formal, state, mode, inForce>> /\ mode # "down"
    BY <1>6, AppliesRoll
  <2>2. CASE Rolls
    BY <1>0, <2>1, <2>2 DEF Rolls, FileInv, StoreTypes
  <2>3. CASE Rests
    BY <1>0, <2>1, <2>3 DEF Rests, FileInv
  <2> QED
    BY <2>1, <2>2, <2>3
<1>7. CASE BoundaryEmit
  BY <1>0, <1>7 DEF BoundaryEmit, Emitted, FileInv, ModeInv, ClockTypes, StoreTypes, store,
     memory, disk, history
<1>8. CASE StorageRequest \/ StorageStop \/ StorageStart \/ StorageReady \/ StorageTimeout
  BY <1>0, <1>8 DEF StorageRequest, StorageStop, Holds, StorageStart, StorageReady,
     MarkFormalStart, Emitted, StorageTimeout, FileInv, ModeInv, ClockTypes, StoreTypes, store,
     memory, disk, history
<1>9. CASE Observe \/ (Planning /\ VerifyBootstrap) \/ (Planning /\ KeepActive(Result)) \/
           (Planning /\ PlanChange(Result)) \/ (Planning /\ EvidenceRefused(Result))
  BY <1>0, <1>9 DEF Observe, VerifyBootstrap, Planned, KeepActive, PlanChange, EvidenceRefused,
     Fails, FileInv, ModeInv, ClockTypes, StoreTypes, store, memory, disk, history
<1>10. CASE Tick \/ Crash \/ PlaceOverride \/ FillDisk \/ FreeDisk
  BY <1>0, <1>10 DEF Tick, Crash, Fails, PlaceOverride, FillDisk, FreeDisk, FileInv, ModeInv,
     ClockTypes, StoreTypes, store, memory, disk, history
<1> QED
  BY <1>1, <1>2, <1>3, <1>4, <1>5, <1>6, <1>7, <1>8, <1>9, <1>10
     DEF Next, Store, Service, ObserveAndPlan

LEMMA AppendListed ==
  ASSUME NEW list, Listed(list), NEW e
  PROVE  /\ Listed(Append(list, e))
         /\ DOMAIN Append(list, e) = 1..(Len(list) + 1) /\ DOMAIN list = 1..Len(list)
         /\ Append(list, e)[Len(list) + 1] = e /\ Len(list) \in Nat
         /\ \A i \in DOMAIN list : i \in DOMAIN Append(list, e) /\ Append(list, e)[i] = list[i]
         /\ \A i \in DOMAIN Append(list, e) : i \in DOMAIN list \/ i = Len(list) + 1
<1> DEFINE S == {list[i] : i \in DOMAIN list}
           T == S \cup {e}
           more == Append(list, e)
<1>1. list \in Seq(S)
  BY DEF Listed
<1> HIDE DEF S
<1>2. list \in Seq(T) /\ e \in T
  <2>1. S \subseteq T
    OBVIOUS
  <2> HIDE DEF T
  <2>2. \A i \in 1..Len(list) : list[i] \in S
    BY <1>1
  <2> QED
    BY <1>1, <2>1, <2>2 DEF T
<1> HIDE DEF T
<1>3. /\ more \in Seq(T) /\ Len(more) = Len(list) + 1 /\ Len(list) \in Nat
      /\ DOMAIN more = 1..(Len(list) + 1) /\ DOMAIN list = 1..Len(list)
      /\ more[Len(list) + 1] = e
      /\ \A i \in 1..Len(list) : more[i] = list[i]
  BY <1>2
<1> HIDE DEF more
<1>4. Listed(more)
  <2> DEFINE V == {more[i] : i \in DOMAIN more}
  <2>1. \A i \in 1..Len(more) : more[i] \in V
    BY <1>3
  <2> HIDE DEF V
  <2>2. more \in Seq(V)
    BY <1>3, <2>1
  <2> QED
    BY <2>2 DEF V, Listed
<1> QED
  BY <1>3, <1>4 DEF more

\* A new universe leaves what the events say true.
LEMMA TellsStays ==
  ASSUME NEW e, Tells(e), file.seq \in Nat, file'.seq \in Nat, file'.seq > file.seq, now' = now
  PROVE  Tells(e)'
  BY DEF Tells


LEMMA EventInvStep ==
  ASSUME UniverseInv, Next
  PROVE  EventInv'
<1>0. /\ EventInv /\ ModeInv /\ FileInv /\ ClockTypes /\ StoreTypes /\ DiscTypes
      /\ NoDecision.seq = 0
  BY NoDecisionIs DEF UniverseInv, Types
<1>1. CASE WriteState \/ UnlinkSource \/ UnlinkPending
  BY <1>0, <1>1 DEF WriteState, UnlinkSource, UnlinkPending, EventInv, Tells, store, memory,
     disk, history
<1>2. CASE FirstBoot
  <2>1. /\ file = NoDecision /\ file' = Decision(1, now, now, Bootstrap, {})
        /\ UNCHANGED <<now, events, late>>
    BY <1>2 DEF FirstBoot
  <2>2. file.seq \in Nat /\ file'.seq \in Nat /\ file'.seq > file.seq
    BY <1>0, <2>1 DEF Decision
  <2> QED
    BY <1>0, <2>1, <2>2, TellsStays DEF EventInv
<1>3. CASE BootApply
  <2>1. /\ Rolls \/ Rests
        /\ UNCHANGED <<now, events, late>>
    BY <1>3, AppliesRoll
  <2>2. CASE Rolls
    <3>1. file.seq \in Nat /\ file'.seq \in Nat /\ file'.seq > file.seq
      BY <1>0, <2>2 DEF Rolls, StoreTypes
    <3> QED
      BY <1>0, <2>1, <3>1, TellsStays DEF EventInv
  <2>3. CASE Rests
    BY <1>0, <2>1, <2>3 DEF Rests, EventInv, Tells
  <2> QED
    BY <2>1, <2>2, <2>3
<1>4. CASE BootReady
  <2>1. /\ active = file /\ apply = NoApply /\ hash = RolesOf(file)
    BY <1>0, <1>4 DEF BootReady, ModeInv
  <2>2. /\ events' = Append(events, [decision |-> file, hash |-> RolesOf(file)])
        /\ UNCHANGED <<now, file, late>>
    BY <2>1, <1>4 DEF BootReady, MarkFormalStart, Emitted, store
  <2> QED
    BY <1>0, <2>2, AppendListed DEF EventInv, Tells
<1>5. CASE Boot \/ FirstState \/ BootStart
  BY <1>0, <1>5 DEF Boot, FirstState, BootStart, EventInv, Tells, store, memory, disk, history
<1>6. CASE BoundaryApply
  <2>1. /\ Rolls \/ Rests
        /\ UNCHANGED <<now, events, late>>
    BY <1>6, AppliesRoll
  <2>2. CASE Rolls
    <3>1. file.seq \in Nat /\ file'.seq \in Nat /\ file'.seq > file.seq
      BY <1>0, <2>2 DEF Rolls, StoreTypes
    <3> QED
      BY <1>0, <2>1, <3>1, TellsStays DEF EventInv
  <2>3. CASE Rests
    BY <1>0, <2>1, <2>3 DEF Rests, EventInv, Tells
  <2> QED
    BY <2>1, <2>2, <2>3
<1>7. CASE BoundaryEmit
  <2>1. active = file
    BY <1>0, <1>7 DEF BoundaryEmit, ModeInv
  <2>2. /\ events' = Append(events, [decision |-> file, hash |-> RolesOf(file)])
        /\ UNCHANGED <<now, file, late>>
    BY <2>1, <1>7 DEF BoundaryEmit, Emitted, store
  <2> QED
    BY <1>0, <2>2, AppendListed DEF EventInv, Tells
<1>8. CASE StorageReady
  <2>1. /\ active = file /\ apply = NoApply /\ hash = RolesOf(file)
    BY <1>0, <1>8 DEF StorageReady, Holds, ModeInv
  <2>2. /\ events' = Append(events, [decision |-> file, hash |-> RolesOf(file)])
        /\ UNCHANGED <<now, file, late>>
    BY <2>1, <1>8 DEF StorageReady, MarkFormalStart, Emitted, store
  <2> QED
    BY <1>0, <2>2, AppendListed DEF EventInv, Tells
<1>9. CASE StorageRequest \/ StorageStop \/ StorageStart \/ StorageTimeout
  BY <1>0, <1>9 DEF StorageRequest, StorageStop, Holds, StorageStart, StorageTimeout, EventInv,
     Tells, store, memory, disk, history
<1>10. ASSUME Planning, PlanChange(Result) PROVE  EventInv'
  <2>1. /\ events' = Append(events, [decision |-> pending', hash |-> hash])
        /\ pending'.eff = Effective /\ UNCHANGED <<now, file>>
        /\ late' = (late \/ Effective <= now)
    BY <1>10 DEF PlanChange, Planned, Emitted, Decision
  <2>2. Effective \in Nat /\ Effective % Ticks = 0 /\ now \in Nat
    BY <1>0, NextEffectiveIs DEF Effective, DiscTypes, ClockTypes
  <2>3. ~late' => ~late /\ Effective >= Midnight(Day(now) + 1)
    <3>1. Effective > now => Effective >= Midnight(Day(now) + 1)
      BY <2>2, MidnightsAre
    <3>2. ~late' => ~late /\ ~(Effective <= now)
      BY <2>1, Zenon
    <3>3. ~(Effective <= now) => Effective > now
      BY <2>2
    <3> QED
      BY <3>1, <3>2, <3>3
  <2>4. ~late' => Tells([decision |-> pending', hash |-> hash])
    BY <2>1, <2>2, <2>3 DEF Tells
  <2>5. \A e : Tells(e)' = Tells(e)
    BY <2>1 DEF Tells
  <2> QED
    BY <1>0, <2>1, <2>3, <2>4, <2>5, AppendListed DEF EventInv
<1>11. CASE Observe \/ (Planning /\ VerifyBootstrap) \/ (Planning /\ KeepActive(Result)) \/
           (Planning /\ EvidenceRefused(Result))
  BY <1>0, <1>11 DEF Observe, VerifyBootstrap, Planned, KeepActive, EvidenceRefused, Fails,
     EventInv, Tells, store, memory, disk, history
<1>12. CASE Tick
  <2>1. now' = now + 1 /\ now \in Nat /\ file' = file
    BY <1>0, <1>12 DEF Tick, store, ClockTypes
  <2>2. CASE now' % Ticks = 0
    <3>1. events' = <<>>
      BY <1>12, <2>2 DEF Tick
    <3> QED
      BY <3>1 DEF EventInv, Listed
  <2>3. CASE now' % Ticks # 0
    <3>1. UNCHANGED <<events, late>>
      BY <1>12, <2>3 DEF Tick
    <3>2. Day(now') = Day(now)
      BY <2>1, <2>3, SameDay
    <3> QED
      BY <1>0, <2>1, <3>1, <3>2 DEF EventInv, Tells
  <2> QED
    BY <2>2, <2>3
<1>13. CASE Crash \/ PlaceOverride \/ FillDisk \/ FreeDisk
  BY <1>0, <1>13 DEF Crash, Fails, PlaceOverride, FillDisk, FreeDisk, EventInv, Tells, store,
     memory, disk, history
<1> QED
  BY <1>1, <1>2, <1>3, <1>4, <1>5, <1>6, <1>7, <1>8, <1>9, <1>10, <1>11, <1>12, <1>13
     DEF Next, Store, Service, ObserveAndPlan

\* From its formal start, or from midnight, a day has an effective universe.
LEMMA StartsEffective ==
  ASSUME FileInv, ClockTypes, StoreTypes, now' = now,
         formal' = IF formal = None THEN now ELSE formal
  PROVE  file.eff <= WindowStart'
<1>1. now \in Nat /\ file.eff \in Nat /\ formal' \in Nat /\ formal' <= now /\ formal' # None
  BY DEF ClockTypes, StoreTypes, None
<1>2. file.eff <= now /\ (file.eff % Ticks = 0 \/ file.eff <= formal')
  BY <1>1 DEF FileInv
<1>3. /\ Midnight(Day(now)) \in Nat /\ Midnight(Day(now)) <= now
      /\ Midnight(Day(formal')) \in Nat /\ Midnight(Day(formal')) <= formal'
  BY <1>1, DayIs
<1>4. CASE Day(formal') = Day(now)
  <2>1. WindowStart' = formal'
    BY <1>1, <1>4 DEF WindowStart
  <2>2. file.eff % Ticks = 0 => file.eff <= Midnight(Day(now))
    BY <1>1, <1>2, MidnightsAre
  <2> QED
    BY <1>1, <1>2, <1>3, <1>4, <2>1, <2>2
<1>5. CASE Day(formal') # Day(now)
  <2>1. WindowStart' = Midnight(Day(now))
    BY <1>1, <1>5 DEF WindowStart
  <2>2. formal' <= Midnight(Day(now))
    BY <1>1, <1>5, EarlierDay
  <2>3. file.eff % Ticks = 0 => file.eff <= Midnight(Day(now))
    BY <1>1, <1>2, MidnightsAre
  <2> QED
    BY <1>1, <1>2, <1>3, <2>1, <2>2, <2>3
<1> QED
  BY <1>4, <1>5


LEMMA BoundaryEffective ==
  ASSUME FileInv, ClockTypes, StoreTypes, now % Ticks = 0
  PROVE  file.eff <= WindowStart
<1>1. now \in Nat /\ file.eff \in Nat /\ file.eff <= now
  BY DEF ClockTypes, StoreTypes, FileInv
<1>2. Midnight(Day(now)) = now
  BY <1>1 DEF Midnight, Day, Ticks
<1>3. CASE formal # None /\ Day(formal) = Day(now)
  <2>1. formal \in Nat /\ formal <= now
    BY <1>3 DEF ClockTypes
  <2>2. formal = now
    BY <1>1, <1>2, <1>3, <2>1, DayIs
  <2> QED
    BY <1>1, <1>3, <2>2 DEF WindowStart
<1>4. CASE ~(formal # None /\ Day(formal) = Day(now))
  BY <1>1, <1>2, <1>4 DEF WindowStart
<1> QED
  BY <1>3, <1>4

LEMMA InForceInvStep ==
  ASSUME UniverseInv, Next
  PROVE  InForceInv'
<1>0. /\ InForceInv /\ ModeInv /\ FileInv /\ ClockTypes /\ StoreTypes /\ LockInv
      /\ Listed(events) /\ NoDecision.seq = 0
      /\ lock \in Seq(Callers) /\ (lock # <<>> => Head(lock) = lock[1] /\ 1 \in DOMAIN lock)
  BY NoDecisionIs DEF UniverseInv, Types, EventInv
<1>1. CASE WriteState \/ UnlinkSource \/ UnlinkPending
  BY <1>0, <1>1 DEF WriteState, UnlinkSource, UnlinkPending, InForceInv, WindowStart, store,
     memory, disk, history
<1>2. CASE FirstBoot
  BY <1>0, <1>2 DEF FirstBoot, FileInv, InForceInv
<1>3. CASE BootApply
  <2>1. /\ Rolls \/ Rests
        /\ UNCHANGED <<now, events, formal, inForce>>
    BY <1>3, AppliesRoll
  <2>2. CASE Rolls
    <3>1. active = file /\ active' # active
      BY <1>0, <1>3, <2>2 DEF ModeInv, Rolls, StoreTypes, BootApply
    <3>2. retro' \/ inForce = NoRoles
      BY <1>0, <1>3, <3>1 DEF BootApply
    <3> QED
      BY <2>1, <3>2 DEF InForceInv
  <2>3. CASE Rests
    BY <1>0, <1>3, <2>1, <2>3 DEF Rests, InForceInv, WindowStart, BootApply
  <2> QED
    BY <2>1, <2>2, <2>3
<1>4. CASE BootReady
  <2>1. /\ active = file /\ file # NoDecision
    BY <1>0, <1>4 DEF BootReady, ModeInv, FileInv
  <2>2. events' = Append(events, [decision |-> file, hash |-> hash])
    BY <2>1, <1>4 DEF BootReady, MarkFormalStart, Emitted
  <2>3. /\ formal' = (IF formal = None THEN now ELSE formal) /\ UNCHANGED <<now, file, retro>>
        /\ inForce' \in {inForce, RolesOf(file)}
    BY <2>1, <1>4 DEF BootReady, MarkFormalStart, Enforced, store
  <2>4. \E i \in DOMAIN events' : events'[i].decision = file
    BY <1>0, <2>2, AppendListed
  <2>5. file.eff <= WindowStart'
    BY <1>0, <2>3, StartsEffective
  <2> QED
    BY <1>0, <2>3, <2>4, <2>5 DEF InForceInv
<1>5. CASE Boot \/ FirstState \/ BootStart
  BY <1>0, <1>5 DEF Boot, FirstState, BootStart, InForceInv, WindowStart, store, memory, disk,
     history
<1>6. CASE BoundaryApply
  <2>1. /\ Rolls \/ Rests
        /\ UNCHANGED <<now, events, formal, inForce>>
    BY <1>6, AppliesRoll
  <2>2. CASE Rolls
    <3>1. active = file /\ active' # active
      BY <1>0, <1>6, <2>2 DEF ModeInv, Rolls, StoreTypes, BoundaryApply
    <3>2. inForce = NoRoles
      BY <1>0, <1>6, <3>1 DEF BoundaryApply, LockInv, Asks
    <3> QED
      BY <2>1, <3>2 DEF InForceInv
  <2>3. CASE Rests
    BY <1>0, <1>6, <2>1, <2>3 DEF Rests, InForceInv, WindowStart, BoundaryApply
  <2> QED
    BY <2>1, <2>2, <2>3
<1>7. CASE BoundaryEmit
  <2>1. active = file /\ file # NoDecision /\ inForce' = RolesOf(file)
    BY <1>0, <1>7 DEF BoundaryEmit, ModeInv, FileInv
  <2>2. events' = Append(events, [decision |-> file, hash |-> RolesOf(file)])
    BY <2>1, <1>7 DEF BoundaryEmit, Emitted
  <2>3. UNCHANGED <<now, file, formal>>
    BY <1>7 DEF BoundaryEmit, store
  <2>4. \E i \in DOMAIN events' : events'[i].decision = file
    BY <1>0, <2>2, AppendListed
  <2>5. file.eff <= WindowStart'
    <3>1. now % Ticks = 0
      BY <1>0, <1>7 DEF BoundaryEmit, LockInv, Asks
    <3>2. file.eff <= WindowStart
      BY <1>0, <3>1, BoundaryEffective
    <3> QED
      BY <2>3, <3>2 DEF WindowStart
  <2> QED
    BY <2>1, <2>3, <2>4, <2>5 DEF InForceInv
<1>8. CASE StorageReady
  <2>1. /\ active = file /\ file # NoDecision
    BY <1>0, <1>8 DEF StorageReady, Holds, ModeInv, FileInv
  <2>2. events' = Append(events, [decision |-> file, hash |-> hash])
    BY <2>1, <1>8 DEF StorageReady, MarkFormalStart, Emitted
  <2>3. /\ formal' = (IF formal = None THEN now ELSE formal) /\ UNCHANGED <<now, file, retro>>
        /\ inForce' \in {inForce, RolesOf(file)}
    BY <2>1, <1>8 DEF StorageReady, MarkFormalStart, Enforced, store
  <2>4. \E i \in DOMAIN events' : events'[i].decision = file
    BY <1>0, <2>2, AppendListed
  <2>5. file.eff <= WindowStart'
    BY <1>0, <2>3, StartsEffective
  <2> QED
    BY <1>0, <2>3, <2>4, <2>5 DEF InForceInv
<1>9. CASE StorageRequest \/ StorageStop \/ StorageStart \/ StorageTimeout
  BY <1>0, <1>9 DEF StorageRequest, StorageStop, Holds, StorageStart, StorageTimeout,
     InForceInv, WindowStart, store, memory, disk, history
<1>10. ASSUME Planning, PlanChange(Result) PROVE  InForceInv'
  <2>1. /\ events' = Append(events, [decision |-> pending', hash |-> hash])
        /\ UNCHANGED <<now, file, formal, retro, inForce>>
    BY <1>10 DEF PlanChange, Planned, Emitted
  <2>2. \A i \in DOMAIN events : i \in DOMAIN events' /\ events'[i] = events[i]
    BY <1>0, <2>1, AppendListed
  <2> QED
    BY <1>0, <2>1, <2>2 DEF InForceInv, WindowStart
<1>11. CASE Observe \/ (Planning /\ VerifyBootstrap) \/ (Planning /\ KeepActive(Result)) \/
           (Planning /\ EvidenceRefused(Result))
  BY <1>0, <1>11 DEF Observe, VerifyBootstrap, Planned, KeepActive, EvidenceRefused, Fails,
     InForceInv, WindowStart, store, memory, disk, history
<1>12. CASE Tick
  <2>1. now' = now + 1 /\ now \in Nat /\ UNCHANGED <<file, formal>>
    BY <1>0, <1>12 DEF Tick, store, ClockTypes
  <2>2. CASE now' % Ticks = 0
    BY <1>12, <2>2 DEF Tick, InForceInv
  <2>3. CASE now' % Ticks # 0
    <3>1. UNCHANGED <<events, retro, inForce>>
      BY <1>12, <2>3 DEF Tick
    <3>2. Day(now') = Day(now)
      BY <2>1, <2>3, SameDay
    <3> QED
      BY <1>0, <2>1, <3>1, <3>2 DEF InForceInv, WindowStart
  <2> QED
    BY <2>2, <2>3
<1>13. CASE Crash \/ PlaceOverride \/ FillDisk \/ FreeDisk
  BY <1>0, <1>13 DEF Crash, Fails, PlaceOverride, FillDisk, FreeDisk, InForceInv, WindowStart,
     store, memory, disk, history
<1> QED
  BY <1>1, <1>2, <1>3, <1>4, <1>5, <1>6, <1>7, <1>8, <1>9, <1>10, <1>11, <1>12, <1>13
     DEF Next, Store, Service, ObserveAndPlan

\* Who leaves with the decision that is planned has dwelt.
LEMMA PlanDwells ==
  ASSUME UniverseInv, Planning, PlanChange(Result), ~torn,
         NEW s \in Candidates(file) \ (Members(pending') \cup pending'.inactive)
  PROVE  s \in DOMAIN joined /\ joined[s] + CandidateDwell <= pending'.eff
<1>1. /\ active = file /\ since.member = joined /\ disc.at \in Nat
      /\ \A x \in DOMAIN joined : joined[x] \in Nat
  BY DEF UniverseInv, ModeInv, DwellInv, Types, DiscTypes, StoreTypes, Planning
<1>2. /\ Result # Raises /\ Result # RolesOf(active)
      /\ pending' = Decision(active.seq + 1, Effective, disc.at, Result, Evidence.inactive)
  BY DEF PlanChange
<1>3. Effective \in Nat
  BY <1>1, NextEffectiveIs DEF Effective
<1>4. /\ pending'.eff = Effective /\ pending'.inactive = Evidence.inactive
      /\ Members(pending') = Members(Result)
  BY <1>2 DEF Decision, Members
<1>5. DwellComplete(Since(since.member, s, Effective), Effective, CandidateDwell)
  <2>1. Result = Select(active, Evidence, Effective, Monday(Effective), since)
    BY DEF Result
  <2>2. Result # Roles(active.core, active.boundary, active.probe)
    BY <1>2 DEF RolesOf
  <2>3. s \in Candidates(active) /\ s \notin Members(Result) /\ s \notin Evidence.inactive
    BY <1>1, <1>4
  <2> QED
    BY <1>2, <2>1, <2>2, <2>3, SelectDwell
<1> QED
  BY <1>1, <1>3, <1>4, <1>5, DwellMeans

LEMMA DwellInvStep ==
  ASSUME UniverseInv, Next
  PROVE  DwellInv'
<1>0. /\ DwellInv /\ ModeInv /\ FileInv /\ StoreTypes /\ ApplyTypes /\ torn \in BOOLEAN
      /\ NoDecision.seq = 0
  BY NoDecisionIs DEF UniverseInv, Types, ClockTypes
<1>1. CASE WriteState
  <2>1. apply # NoApply
    BY <1>1, NoApplyIs DEF WriteState
  <2>2. mode # "down" /\ state' = since /\ UNCHANGED <<file, pending, mode, since, joined, torn>>
    BY <1>0, <1>1, <2>1 DEF WriteState, ModeInv, memory, history
  <2> QED
    BY <1>0, <2>2 DEF DwellInv, PendingDwell
<1>2. CASE UnlinkSource
  <2>1. apply.step = "unlink" /\ apply'.step = "pending"
    BY <1>0, <1>2 DEF UnlinkSource, ApplyTypes
  <2>2. /\ UNCHANGED <<file, state, mode, since, joined, torn>>
        /\ pending' = pending \/ pending' = NoDecision
    BY <1>2 DEF UnlinkSource, memory, history
  <2> QED
    BY <1>0, <2>1, <2>2 DEF DwellInv, PendingDwell, StoreTypes
<1>3. CASE UnlinkPending
  <2>1. apply.step = "pending" /\ apply'.step = "done"
    BY <1>0, <1>3 DEF UnlinkPending, ApplyTypes
  <2>2. /\ UNCHANGED <<file, state, mode, since, joined, torn>>
        /\ pending' = pending \/ pending' = NoDecision
    BY <1>3 DEF UnlinkPending, memory, history
  <2> QED
    BY <1>0, <2>1, <2>2 DEF DwellInv, PendingDwell, StoreTypes
<1>4. CASE Boot
  <2>1. apply.step # "state"
    BY <1>0, <1>4, NoApplyIs DEF Boot, ModeInv
  <2>2. since' = state /\ state # NoSince /\ UNCHANGED <<file, pending, state, joined, torn, apply>>
    BY <1>4 DEF Boot, store, history
  <2> QED
    BY <1>0, <2>1, <2>2 DEF DwellInv, PendingDwell
<1>5. CASE FirstBoot
  <2>1. file = NoDecision /\ file' = Decision(1, now, now, Bootstrap, {})
    BY <1>5 DEF FirstBoot
  <2>2. UNCHANGED <<pending, state, torn, apply>>
    BY <1>5 DEF FirstBoot
  <2>3. file.seq = 0 /\ file'.seq = 1 /\ state = NoSince
    BY <1>0, <2>1 DEF Decision, FileInv
  <2>4. since'.member = joined'
    BY <1>5 DEF FirstBoot
  <2>5. ~(pending'.seq > file'.seq) /\ pending'.seq <= file'.seq + 1
    BY <1>0, <2>2, <2>3 DEF DwellInv, StoreTypes
  <2> QED
    BY <2>2, <2>3, <2>4, <2>5 DEF DwellInv
<1>6. CASE BootApply
  <2>1. /\ Rolls \/ Rests
        /\ UNCHANGED <<pending, state, mode, torn>> /\ apply = NoApply /\ mode # "down"
    BY <1>6, AppliesRoll
  <2>2. CASE Rolls
    <3>1. apply'.step = "state" /\ ~(pending'.seq > file'.seq) /\ pending'.seq <= file'.seq + 1
      BY <1>0, <2>1, <2>2 DEF Rolls, DwellInv, StoreTypes
    <3> QED
      BY <2>1, <2>2, <3>1 DEF Rolls, DwellInv
  <2>3. CASE Rests
    <3>1. apply.step # "state"
      BY <2>1, NoApplyIs
    <3> QED
      BY <1>0, <2>1, <2>3, <3>1 DEF Rests, DwellInv, PendingDwell
  <2> QED
    BY <2>1, <2>2, <2>3
<1>7. CASE FirstState \/ BootStart \/ BootReady
  BY <1>0, <1>7 DEF FirstState, BootStart, BootReady, MarkFormalStart, Emitted, DwellInv,
     PendingDwell, store, memory, disk, history
<1>8. CASE BoundaryApply
  <2>1. /\ Rolls \/ Rests
        /\ UNCHANGED <<pending, state, mode, torn>> /\ apply = NoApply /\ mode # "down"
    BY <1>8, AppliesRoll
  <2>2. CASE Rolls
    <3>1. apply'.step = "state" /\ ~(pending'.seq > file'.seq) /\ pending'.seq <= file'.seq + 1
      BY <1>0, <2>1, <2>2 DEF Rolls, DwellInv, StoreTypes
    <3> QED
      BY <2>1, <2>2, <3>1 DEF Rolls, DwellInv
  <2>3. CASE Rests
    <3>1. apply.step # "state"
      BY <2>1, NoApplyIs
    <3> QED
      BY <1>0, <2>1, <2>3, <3>1 DEF Rests, DwellInv, PendingDwell
  <2> QED
    BY <2>1, <2>2, <2>3
<1>9. CASE BoundaryEmit
  BY <1>0, <1>9 DEF BoundaryEmit, Emitted, DwellInv, PendingDwell, store, memory, disk, history
<1>10. CASE StorageRequest \/ StorageStop \/ StorageStart \/ StorageReady \/ StorageTimeout
  BY <1>0, <1>10 DEF StorageRequest, StorageStop, Holds, StorageStart, StorageReady,
     MarkFormalStart, Emitted, StorageTimeout, DwellInv, PendingDwell, store, memory, disk,
     history
<1>11. ASSUME Planning, KeepActive(Result) PROVE  DwellInv'
  <2>1. pending' = NoDecision /\ UNCHANGED <<file, state, mode, since, joined, torn, apply>>
    BY <1>11 DEF KeepActive, Planned, memory, history
  <2> QED
    BY <1>0, <2>1 DEF DwellInv, PendingDwell, StoreTypes
<1>12. ASSUME Planning, PlanChange(Result) PROVE  DwellInv'
  <2>1. UNCHANGED <<file, state, mode, since, joined, torn, apply>>
    BY <1>12 DEF PlanChange, Planned, memory
  <2>2. pending'.seq = file.seq + 1
    BY <1>0, <1>12 DEF PlanChange, Decision, ModeInv, Planning
  <2>3. ASSUME ~torn PROVE PendingDwell'
    BY <2>1, <2>3, <1>12, PlanDwells DEF PendingDwell
  <2> QED
    BY <1>0, <2>1, <2>2, <2>3 DEF DwellInv, StoreTypes
<1>13. ASSUME Planning, EvidenceRefused(Result) PROVE  DwellInv'
  <2>1. apply = NoApply /\ apply.step # "state"
    BY <1>0, <1>13, NoApplyIs DEF Planning, ModeInv
  <2>2. /\ mode' = "down" /\ apply' = NoApply
        /\ UNCHANGED <<file, pending, state, joined, torn>>
    BY <1>13 DEF EvidenceRefused, Fails, store
  <2> QED
    BY <1>0, <2>1, <2>2 DEF DwellInv, PendingDwell
<1>14. CASE Observe \/ (Planning /\ VerifyBootstrap)
  BY <1>0, <1>14 DEF Observe, VerifyBootstrap, Planned, DwellInv, PendingDwell, store, memory,
     disk, history
<1>15. CASE Tick \/ Crash \/ PlaceOverride \/ FillDisk \/ FreeDisk
  BY <1>0, <1>15 DEF Tick, Crash, Fails, PlaceOverride, FillDisk, FreeDisk, DwellInv,
     PendingDwell, store, memory, disk, history
<1> QED
  BY <1>1, <1>2, <1>3, <1>4, <1>5, <1>6, <1>7, <1>8, <1>9, <1>10, <1>11, <1>12, <1>13, <1>14,
     <1>15
     DEF Next, Store, Service, ObserveAndPlan

LEMMA UniverseInvInit == Init => UniverseInv
<1> SUFFICES ASSUME Init PROVE UniverseInv
  OBVIOUS
<1>1. NoDecision.seq = 0 /\ NoDecision.eff = 0 /\ 0 % Ticks = 0
  BY NoDecisionIs
<1>2. Types
  <2>1. ClockTypes
    <3>1. now \in Nat /\ formal = None
      BY DEF Init
    <3>2. retro \in BOOLEAN /\ late \in BOOLEAN /\ torn \in BOOLEAN
      BY DEF Init
    <3> QED
      BY <3>1, <3>2 DEF ClockTypes
  <2>5. lock \in Seq(Callers)
    <3>1. lock = <<>>
      BY DEF Init
    <3> QED
      BY <3>1
  <2>2. StoreTypes
    BY <1>1 DEF Init, StoreTypes
  <2>3. ApplyTypes
    BY DEF Init, ApplyTypes, NoApply
  <2>4. DiscTypes
    BY DEF Init, DiscTypes, NoDiscovery
  <2> QED
    BY <2>1, <2>2, <2>3, <2>4, <2>5 DEF Types
<1>3. ModeInv /\ FileInv
  BY <1>1 DEF Init, ModeInv, FileInv
<1>4. LockInv
  BY DEF Init, LockInv, Once, Asks
<1>5. EventInv /\ InForceInv
  BY DEF Init, EventInv, Listed, InForceInv
<1>6. DwellInv
  BY <1>1 DEF Init, DwellInv
<1> QED
  BY <1>2, <1>3, <1>4, <1>5, <1>6 DEF UniverseInv

LEMMA UniverseInvStep == UniverseInv /\ [Next]_vars => UniverseInv'
<1> SUFFICES ASSUME UniverseInv, [Next]_vars PROVE UniverseInv'
  OBVIOUS
<1>1. CASE Next
  <2>1. LockInv' /\ (lock \in Seq(Callers))'
    BY <1>1, LockInvStep
  <2>2. Types'
    BY <1>1, <2>1, ClockTypesStep, StoreTypesStep, ApplyTypesStep, DiscTypesStep DEF Types
  <2> QED
    BY <1>1, <2>1, <2>2, ModeInvStep, FileInvStep, EventInvStep, InForceInvStep, DwellInvStep
       DEF UniverseInv
<1>2. CASE UNCHANGED vars
  <2>1. Types'
    BY <1>2 DEF vars, UniverseInv, Types, ClockTypes, StoreTypes, ApplyTypes, DiscTypes
  <2>2. ModeInv' /\ FileInv' /\ LockInv' /\ DwellInv'
    BY <1>2 DEF vars, UniverseInv, ModeInv, FileInv, LockInv, DwellInv, PendingDwell
  <2>3. EventInv' /\ InForceInv'
    BY <1>2 DEF vars, UniverseInv, EventInv, Tells, InForceInv, WindowStart
  <2> QED
    BY <2>1, <2>2, <2>3 DEF UniverseInv
<1> QED
  BY <1>1, <1>2

LEMMA UniverseInvariant == Spec => []UniverseInv
  BY UniverseInvInit, UniverseInvStep, PTL DEF Spec

(***************************************************************************)
(* Candidates dwell.                                                       *)
(***************************************************************************)

\* Only apply_due and the first boot change the active universe.
LEMMA FileChanges ==
  ASSUME UniverseInv, Next, file' # file
  PROVE  FirstBoot \/ BootApply \/ BoundaryApply
<1>1. CASE Store
  BY <1>1 DEF Store, WriteState, UnlinkSource, UnlinkPending
<1>2. CASE Service
  BY <1>2 DEF Service, Boot, FirstState, BootStart, BootReady, BoundaryEmit, StorageRequest,
              StorageStop, StorageStart, StorageReady, store
<1>3. CASE StorageTimeout \/ Observe \/ Tick \/ Crash \/ PlaceOverride \/ FillDisk \/ FreeDisk
  BY <1>3 DEF StorageTimeout, Observe, Tick, Crash, PlaceOverride, FillDisk, FreeDisk, store
<1>4. CASE ObserveAndPlan
  BY <1>4 DEF ObserveAndPlan, VerifyBootstrap, KeepActive, PlanChange, EvidenceRefused, Planned,
              store
<1> QED
  BY <1>1, <1>2, <1>3, <1>4 DEF Next

\* A candidate leaves the universe, by a selection or by an override, only
\* when it has been in it for the dwell time or does not trade any more
\* (_reconcile_bucket, _decision_from_override, apply_due): over restarts,
\* discoveries, overrides and boundaries in any number and any order.
THEOREM CandidatesAlwaysDwell == Spec => CandidatesDwell
<1> DEFINE Dwell == (file # NoDecision /\ ~torn) =>
                      \A s \in Gone \ file'.inactive : joined[s] + CandidateDwell <= file'.eff
<1>1. ASSUME UniverseInv, [Next]_vars PROVE Dwell \/ UNCHANGED vars
  <2>1. SUFFICES ASSUME Next, file # NoDecision, ~torn, NEW s \in Gone \ file'.inactive
                 PROVE  joined[s] + CandidateDwell <= file'.eff
    BY <1>1
  <2>2. file' # file
    BY <2>1 DEF Gone, Members, Candidates
  <2>3. BootApply \/ BoundaryApply
    BY <1>1, <2>1, <2>2, FileChanges DEF FirstBoot
  <2>4. Rolls
    BY <1>1, <2>2, <2>3, AppliesRoll DEF Rests
  <2> QED
    BY <2>1, <2>4 DEF Rolls, DwellStep, Gone
<1>2. ASSUME UniverseInv, [Next]_vars PROVE [Dwell]_vars
  <2> HIDE DEF Dwell
  <2> QED
    BY <1>1, <1>2
<1> QED
  BY <1>2, UniverseInvariant, PTL DEF Spec, CandidatesDwell

(***************************************************************************)
(* A day is read with the universe that was collected.                     *)
(***************************************************************************)

\* The event the normaliser chooses is of the active universe.
LEMMA ReadsActive ==
  ASSUME UniverseInv, ~retro, ~late, inForce # NoRoles
  PROVE  Normalized = RolesOf(file)
<1> DEFINE Wins(i, j) ==
             LET x == events[i].decision
                 y == events[j].decision
             IN \/ x.seq > y.seq
                \/ x.seq = y.seq /\ (x.eff > y.eff \/ (x.eff = y.eff /\ i <= j))
           Good(i) == \A j \in InEffect : Wins(i, j)
           best == CHOOSE i \in InEffect : Good(i)
           F == {i \in DOMAIN events : events[i].decision = file}
<1>1. /\ now \in Nat /\ file.seq \in Nat /\ file.eff \in Nat /\ DOMAIN events \subseteq Nat
      /\ (formal # None => formal \in Nat /\ formal <= now)
      /\ \A i \in DOMAIN events : Tells(events[i])
      /\ file.eff <= WindowStart
      /\ \E i \in DOMAIN events : events[i].decision = file
  BY DEF UniverseInv, Types, ClockTypes, StoreTypes, EventInv, Listed, InForceInv
<1>2. WindowStart \in Nat /\ WindowStart <= now /\ WindowStart < Midnight(Day(now) + 1)
  BY <1>1, DayIs DEF WindowStart
<1>3. ASSUME NEW i \in InEffect
      PROVE  \/ events[i].decision.seq \in Nat /\ events[i].decision.seq < file.seq
             \/ events[i].decision = file /\ events[i].hash = RolesOf(file)
  <2>1. Tells(events[i]) /\ events[i].decision.eff <= WindowStart
    BY <1>1 DEF InEffect
  <2>2. Midnight(Day(now) + 1) \in Nat
    BY <1>1, DayIs
  <2> QED
    BY <1>2, <2>1, <2>2 DEF Tells
<1>4. F \subseteq InEffect /\ F # {} /\ F \subseteq Nat
  BY <1>1 DEF InEffect
<1>5. PICK first \in F : \A j \in F : first <= j
  BY <1>4, LeastNumber
<1>6. first \in InEffect /\ Good(first)
  <2>1. ASSUME NEW j \in InEffect PROVE Wins(first, j)
    <3>1. events[first].decision = file
      BY <1>5
    <3>2. CASE events[j].decision.seq \in Nat /\ events[j].decision.seq < file.seq
      BY <1>1, <3>1, <3>2
    <3>3. CASE events[j].decision = file
      <4>1. j \in F
        BY <3>3 DEF InEffect
      <4> QED
        BY <1>5, <3>1, <3>3, <4>1
    <3> QED
      BY <1>3, <3>2, <3>3
  <2> HIDE DEF Wins, F
  <2> QED
    BY <1>4, <1>5, <2>1
<1>7. best \in InEffect /\ Good(best)
  <2> HIDE DEF Good
  <2> QED
    BY <1>6
<1>8. Normalized = IF InEffect = {} THEN NoRoles
                   ELSE IF RolesOf(events[best].decision) # events[best].hash THEN Unreadable
                   ELSE RolesOf(events[best].decision)
  BY DEF Normalized
<1> HIDE DEF best
<1>9. events[best].decision = file /\ events[best].hash = RolesOf(file)
  <2>1. Wins(best, first) /\ events[first].decision = file
    BY <1>5, <1>6, <1>7
  <2>2. ~(events[best].decision.seq \in Nat /\ events[best].decision.seq < file.seq)
    BY <1>1, <2>1
  <2> QED
    BY <1>3, <1>7, <2>2
<1> QED
  BY <1>6, <1>8, <1>9

\* The normaliser reads a day with the universe that was collected from its
\* start (_active_universe, _next_effective_at, apply_due), for any number of
\* days, crashes, overrides and discoveries: no event of the day outranks the
\* active universe's, and the hash on its chunk is the active one's.
THEOREM DaysReadAsCollected == Spec => ReadsWhatWasCollected
<1> DEFINE Reads == (Day(now') > Day(now) /\ inForce # NoRoles /\ ~retro /\ ~late)
                      => Normalized = inForce
<1>1. ASSUME UniverseInv, [Next]_vars PROVE [Reads]_vars
  <2>1. SUFFICES ASSUME inForce # NoRoles, ~retro, ~late PROVE Normalized = inForce
    OBVIOUS
  <2>2. inForce = RolesOf(file)
    BY <1>1, <2>1 DEF UniverseInv, InForceInv
  <2> QED
    BY <1>1, <2>1, <2>2, ReadsActive
<1> QED
  BY <1>1, UniverseInvariant, PTL DEF Spec, ReadsWhatWasCollected

(***************************************************************************)
(* The selection does not fail.                                            *)
(***************************************************************************)

\* Whatever is or may become active keeps the contract of the roles.
WholeInv ==
  /\ file # NoDecision => Whole(file)
  /\ pending # NoDecision => Whole(pending)
  /\ \A o \in overrides : /\ IsRole(o.boundary, BucketSize) /\ IsRole(o.probe, BucketSize)
                          /\ o.boundary \cap o.probe = {}

\* A discovery that is to plan has the evidence of its snapshot.
DiscoveryInv ==
  /\ Once(lock, "discovery")
  /\ sources => mode \in {"starting", "run"}
  /\ Asks(lock, "discovery") => sources /\ disc.step = "waiting"
  /\ disc.step = "waiting" => disc.ev \in Evidences

SelectInv == UniverseInv /\ WholeInv /\ DiscoveryInv /\ ~failed

LEMMA ActiveIsWhole ==
  ASSUME UniverseInv, WholeInv, mode # "down" PROVE active = file /\ Whole(file)
  BY DEF UniverseInv, ModeInv, FileInv, WholeInv

\* What becomes active is whole.
LEMMA ActivateIsWhole ==
  ASSUME UniverseInv, WholeInv, BootApply \/ BoundaryApply
  PROVE  Whole(file')
<1>1. mode # "down" /\ active = file /\ Whole(file)
  <2>1. mode # "down"
    BY DEF BootApply, BoundaryApply
  <2> QED
    BY <2>1, ActiveIsWhole
<1>2. PICK t : SelectAndActivate(t) /\ t \in Nat
  <2>1. now \in Nat /\ Midnight(Day(now)) \in Nat
    <3>1. now \in Nat
      BY DEF UniverseInv, Types, ClockTypes
    <3> QED
      BY <3>1, DayIs
  <2> QED
    BY <2>1 DEF BootApply, BoundaryApply
<1>3. CASE file' = file
  <2> QED
    BY <1>1, <1>3 DEF Whole, IsRole, Candidates
<1>4. ASSUME NEW c \in DueDecisions(t), file' = c.decision PROVE Whole(file')
  <2>1. CASE c.decision = pending /\ pending.seq > file.seq
    <3>1. pending # NoDecision
      <4>1. file.seq \in Nat
        BY DEF UniverseInv, Types, StoreTypes
      <4> QED
        BY <2>1, <4>1, NoDecisionIs
    <3> QED
      BY <1>4, <2>1, <3>1 DEF WholeInv
  <2>2. ASSUME NEW o \in overrides, OverrideHolds(o), c.decision = FromOverride(o)
        PROVE  Whole(file')
    <3>1. file'.core = active.core /\ file'.boundary = o.boundary /\ file'.probe = o.probe
      BY <1>4, <2>2 DEF FromOverride, Decision, Roles
    <3>2. active.core \cap (o.boundary \cup o.probe) = {}
      BY <2>2 DEF OverrideHolds
    <3>3. /\ IsRole(o.boundary, BucketSize) /\ IsRole(o.probe, BucketSize)
          /\ o.boundary \cap o.probe = {}
      BY DEF WholeInv
    <3> QED
      BY <1>1, <3>1, <3>2, <3>3 DEF Whole, Candidates
  <2> QED
    BY <1>1, <1>2, <2>1, <2>2, DueIs
<1>5. SelectAndActivate(t) => file' = file \/ \E c \in DueDecisions(t) : file' = c.decision
  BY DEF SelectAndActivate, Activate, Best
<1> QED
  BY <1>2, <1>3, <1>4, <1>5

LEMMA WholeInvStep ==
  ASSUME UniverseInv, WholeInv, Next
  PROVE  WholeInv'
<1>1. CASE FirstBoot
  <2>1. /\ file' = Decision(1, now, now, Bootstrap, {}) /\ pending' = pending
        /\ overrides' = overrides
    BY <1>1 DEF FirstBoot
  <2>2. Whole(file')
    BY <2>1, UniverseAssumption DEF Whole, Decision, Candidates
  <2> QED
    BY <2>1, <2>2 DEF WholeInv
<1>2. CASE BootApply \/ BoundaryApply
  <2>1. Whole(file') /\ overrides' \subseteq overrides
    BY <1>2, ActivateIsWhole, AppliesRoll
  <2>2. pending' = pending
    BY <1>2 DEF BootApply, BoundaryApply
  <2> QED
    BY <2>1, <2>2 DEF WholeInv
<1>3. CASE Planning /\ PlanChange(Result)
  <2>1. /\ pending' = Decision(active.seq + 1, Effective, disc.at, Result, Evidence.inactive)
        /\ Whole(Result) /\ file' = file /\ overrides' = overrides
    BY <1>3 DEF PlanChange, Planned
  <2>2. Whole(pending')
    BY <2>1 DEF Whole, Decision, Candidates
  <2> QED
    BY <2>1, <2>2 DEF WholeInv
<1>4. CASE PlaceOverride
  <2>1. /\ file' = file /\ pending' = pending
        /\ \E p \in Proposals :
             overrides' = overrides \cup {[created |-> now, eff |-> Midnight(Day(now) + 1),
                                           boundary |-> p.boundary, probe |-> p.probe]}
    BY <1>4 DEF PlaceOverride
  <2>2. \A p \in Proposals : /\ IsRole(p.boundary, BucketSize) /\ IsRole(p.probe, BucketSize)
                             /\ p.boundary \cap p.probe = {}
    BY UniverseAssumption
  <2> QED
    BY <2>1, <2>2 DEF WholeInv
<1>5. CASE UnlinkSource \/ UnlinkPending
  <2>1. file' = file /\ pending' \in {pending, NoDecision} /\ overrides' \subseteq overrides
    BY <1>5 DEF UnlinkSource, UnlinkPending
  <2> QED
    BY <2>1 DEF WholeInv
<1>6. CASE Planning /\ (VerifyBootstrap \/ KeepActive(Result) \/ EvidenceRefused(Result))
  <2>1. file' = file /\ pending' \in {pending, NoDecision} /\ overrides' = overrides
    BY <1>6 DEF VerifyBootstrap, KeepActive, EvidenceRefused, Planned, store
  <2> QED
    BY <2>1 DEF WholeInv
<1>7. CASE \/ WriteState \/ Boot \/ FirstState \/ BootStart \/ BootReady \/ BoundaryEmit
           \/ StorageRequest \/ StorageStop \/ StorageStart \/ StorageReady \/ StorageTimeout
           \/ Observe \/ Tick \/ Crash \/ FillDisk \/ FreeDisk
  <2>1. UNCHANGED <<file, pending, overrides>>
    BY <1>7 DEF WriteState, Boot, FirstState, BootStart, BootReady, BoundaryEmit, StorageRequest,
       StorageStop, StorageStart, StorageReady, StorageTimeout, Observe, Tick, Crash, FillDisk,
       FreeDisk, store
  <2> QED
    BY <2>1 DEF WholeInv
<1> QED
  BY <1>1, <1>2, <1>3, <1>4, <1>5, <1>6, <1>7 DEF Next, Store, Service, ObserveAndPlan

LEMMA DiscoveryInvStep ==
  ASSUME UniverseInv, DiscoveryInv, Next
  PROVE  DiscoveryInv'
<1> DEFINE D == "discovery"
<1>0. /\ lock \in Seq(Callers) /\ Once(lock, D) /\ (sources => mode \in {"starting", "run"})
      /\ (Asks(lock, D) => sources /\ disc.step = "waiting")
      /\ (disc.step = "waiting" => disc.ev \in Evidences)
      /\ "storage" \in Callers /\ "discovery" \in Callers /\ "midnight" \in Callers
      /\ DiscTypes
  BY DEF DiscoveryInv, UniverseInv, Types, Callers
<1>a. NoDiscovery.step = "idle" /\ DueDiscovery.step = "due"
  BY DEF NoDiscovery, DueDiscovery
<1>1. CASE WriteState \/ UnlinkSource \/ UnlinkPending \/ FillDisk \/ FreeDisk \/ PlaceOverride
  <2>1. UNCHANGED <<lock, sources, mode, disc>>
    BY <1>1 DEF WriteState, UnlinkSource, UnlinkPending, FillDisk, FreeDisk, PlaceOverride
  <2> QED
    BY <2>1 DEF DiscoveryInv
<1>2. CASE Boot \/ FirstBoot \/ FirstState \/ BootApply \/ BootReady
  <2>1. /\ UNCHANGED <<lock, sources, disc>>
        /\ mode' = mode \/ mode' = "run" \/ mode \notin {"starting", "run"}
    BY <1>2 DEF Boot, FirstBoot, FirstState, BootApply, BootReady
  <2> QED
    BY <2>1 DEF DiscoveryInv
<1>3. CASE BootStart
  <2>1. /\ ~sources /\ lock' = lock /\ mode' \in {"starting", "run"}
        /\ disc' \in {NoDiscovery, DueDiscovery}
    BY <1>0, <1>3 DEF BootStart
  <2> QED
    BY <1>0, <1>a, <2>1 DEF DiscoveryInv
<1>4. CASE BoundaryApply
  <2>1. UNCHANGED <<lock, sources, mode, disc>>
    BY <1>4 DEF BoundaryApply
  <2> QED
    BY <2>1 DEF DiscoveryInv
<1>5. CASE BoundaryEmit \/ StorageReady
  <2>1. lock # <<>> /\ lock' = Tail(lock) /\ UNCHANGED <<sources, mode, disc>>
    BY <1>5 DEF BoundaryEmit, StorageReady, Holds
  <2> QED
    BY <1>0, <2>1, TailKeeps DEF DiscoveryInv
<1>6. CASE StorageRequest
  <2>1. lock' = Append(lock, "storage") /\ UNCHANGED <<sources, mode, disc>>
    BY <1>6 DEF StorageRequest
  <2> QED
    BY <1>0, <2>1, AppendKeeps DEF DiscoveryInv
<1>7. CASE StorageStop \/ StorageTimeout
  <2>1. /\ lock # <<>> /\ lock' = Waiting(Tail(lock)) /\ ~sources' /\ disc' = NoDiscovery
    BY <1>7 DEF StorageStop, StorageTimeout, Holds
  <2>2. Tail(lock) \in Seq(Callers) /\ Once(Tail(lock), D)
    BY <1>0, <2>1, TailKeeps
  <2>3. Once(lock', D) /\ ~Asks(lock', D)
    BY <2>1, <2>2, WaitingKeeps
  <2> QED
    BY <1>a, <2>1, <2>3 DEF DiscoveryInv
<1>8. CASE StorageStart
  <2>1. CASE storageGap /\ ~sources
    <3>1. /\ disc' = DueDiscovery /\ lock' = lock /\ mode' = "run"
      BY <1>8, <2>1 DEF StorageStart, Holds
    <3> QED
      BY <1>0, <1>a, <2>1, <3>1 DEF DiscoveryInv
  <2>2. CASE ~(storageGap /\ ~sources)
    <3>1. lock # <<>> /\ lock' = Tail(lock) /\ UNCHANGED <<sources, mode, disc>>
      BY <1>8, <2>2 DEF StorageStart, Holds
    <3> QED
      BY <1>0, <3>1, TailKeeps DEF DiscoveryInv
  <2> QED
    BY <2>1, <2>2
<1>9. CASE Observe
  <2>1. PICK ev \in Evidences : disc' = [disc EXCEPT !.step = "waiting", !.at = now, !.ev = ev]
    BY <1>9 DEF Observe
  <2>2. disc'.step = "waiting" /\ disc'.ev \in Evidences
    BY <1>0, <2>1 DEF DiscTypes
  <2>3. /\ sources /\ disc.step = "due" /\ lock' = Append(lock, "discovery")
        /\ UNCHANGED <<sources, mode>>
    BY <1>9 DEF Observe
  <2>4. Once(lock', D)
    BY <1>0, <2>3, AppendKeeps
  <2> QED
    BY <1>0, <2>2, <2>3, <2>4 DEF DiscoveryInv
<1>10. CASE Planning /\ (VerifyBootstrap \/ KeepActive(Result) \/ PlanChange(Result))
  <2>1. /\ lock # <<>> /\ Head(lock) = D /\ lock' = Tail(lock)
        /\ disc' = [NoDiscovery EXCEPT !.ready = TRUE] /\ UNCHANGED <<sources, mode>>
    BY <1>10 DEF Planning, VerifyBootstrap, KeepActive, PlanChange, Planned
  <2>2. disc'.step = "idle"
    BY <2>1 DEF NoDiscovery
  <2>3. Once(lock', D) /\ ~Asks(lock', D)
    BY <1>0, <2>1, TailKeeps
  <2> QED
    BY <1>0, <2>1, <2>2, <2>3 DEF DiscoveryInv
<1>11. CASE Crash \/ (Planning /\ EvidenceRefused(Result))
  <2>1. lock' = <<>> /\ ~sources' /\ disc' = NoDiscovery
    BY <1>11 DEF Crash, EvidenceRefused, Fails
  <2> QED
    BY <1>a, <2>1 DEF DiscoveryInv, Once, Asks
<1>12. CASE Tick
  <2>1. /\ lock' = lock \/ lock' = Append(lock, "midnight")
        /\ UNCHANGED <<sources, mode>>
    BY <1>12 DEF Tick
  <2>2. Once(lock', D) /\ (Asks(lock', D) => Asks(lock, D))
    BY <1>0, <2>1, AppendKeeps
  <2>3. disc' = disc \/ (disc.step = "idle" /\ disc' = [disc EXCEPT !.step = "due"])
    BY <1>12 DEF Tick
  <2>4. disc' = disc \/ (disc.step = "idle" /\ disc'.step = "due")
    BY <1>0, <2>3 DEF DiscTypes
  <2> QED
    BY <1>0, <2>1, <2>2, <2>4 DEF DiscoveryInv
<1> QED
  BY <1>1, <1>2, <1>3, <1>4, <1>5, <1>6, <1>7, <1>8, <1>9, <1>10, <1>11, <1>12
     DEF Next, Store, Service, ObserveAndPlan

\* A plan whose evidence is a snapshot's is not refused after the start.
LEMMA ResultIsWhole ==
  ASSUME UniverseInv, WholeInv, DiscoveryInv, Planning
  PROVE  Whole(Result) /\ Result # Raises
<1>1. active = file /\ Whole(active)
  <2>1. mode # "down"
    BY DEF Planning
  <2> QED
    BY <2>1, ActiveIsWhole DEF Whole
<1>2. IsEvidence(Evidence)
  <2>1. Asks(lock, "discovery")
    <3>1. lock \in Seq(Callers) /\ lock # <<>> /\ Head(lock) = "discovery"
      BY DEF UniverseInv, Types, Planning
    <3>2. 1 \in DOMAIN lock /\ lock[1] = Head(lock)
      BY <3>1
    <3> QED
      BY <3>1, <3>2 DEF Asks
  <2> DEFINE ev == disc.ev
  <2>2. IsEvidence(ev)
    BY <2>1, UniverseAssumption DEF DiscoveryInv
  <2> HIDE DEF ev
  <2>3. ev \in [mature : Seq(Symbols), recent : Seq(Symbols), inactive : SUBSET Symbols,
                steady : BOOLEAN]
    BY <2>2 DEF IsEvidence
  <2>4. Evidence = [ev EXCEPT !.inactive = ev.inactive \cap Members(active)]
    BY DEF Evidence, ev
  <2>5. /\ Evidence \in [mature : Seq(Symbols), recent : Seq(Symbols), inactive : SUBSET Symbols,
                         steady : BOOLEAN]
        /\ Evidence.mature = ev.mature /\ Evidence.recent = ev.recent
        /\ Evidence.inactive \subseteq ev.inactive
    BY <2>3, <2>4
  <2>6. ProbePool(Evidence) = ProbePool(ev)
    BY <2>5 DEF ProbePool
  <2> QED
    BY <2>2, <2>5, <2>6 DEF IsEvidence
<1>3. Whole(Result)
  BY <1>1, <1>2, SelectIsWhole DEF Result
<1>4. ~Whole(Raises)
  <2>1. Cardinality({}) = 0
    BY FS_EmptySet
  <2> QED
    BY <2>1, SizesAre DEF Whole, IsRole, Raises, Roles
<1> QED
  BY <1>3, <1>4

LEMMA NeverFails ==
  ASSUME SelectInv, Next
  PROVE  ~failed'
<1>1. CASE Planning /\ EvidenceRefused(Result)
  <2>1. formal = None
    BY <1>1, ResultIsWhole DEF EvidenceRefused, SelectInv
  <2>2. failed' = (formal # None)
    BY <1>1 DEF EvidenceRefused
  <2> QED
    BY <2>1, <2>2
<1>2. CASE Planning /\ (VerifyBootstrap \/ KeepActive(Result) \/ PlanChange(Result))
  <2>1. failed' = failed
    BY <1>2 DEF VerifyBootstrap, KeepActive, PlanChange, history
  <2> QED
    BY <2>1 DEF SelectInv
<1>3. CASE Store \/ Service \/ StorageTimeout
  <2>1. failed' = failed
    BY <1>3 DEF Store, WriteState, UnlinkSource, UnlinkPending, Service, Boot, FirstBoot,
       FirstState, BootApply, BootStart, BootReady, BoundaryApply, BoundaryEmit, StorageRequest,
       StorageStop, StorageStart, StorageReady, StorageTimeout, history
  <2> QED
    BY <2>1 DEF SelectInv
<1>4. CASE Observe \/ Tick \/ Crash \/ PlaceOverride \/ FillDisk \/ FreeDisk
  <2>1. failed' = failed
    BY <1>4 DEF Observe, Tick, Crash, PlaceOverride, FillDisk, FreeDisk, history
  <2> QED
    BY <2>1 DEF SelectInv
<1> QED
  BY <1>1, <1>2, <1>3, <1>4 DEF Next, ObserveAndPlan

LEMMA SelectInvInit == Init => SelectInv
<1> SUFFICES ASSUME Init PROVE SelectInv
  OBVIOUS
<1>1. WholeInv
  BY DEF Init, WholeInv
<1>2. DiscoveryInv
  BY DEF Init, DiscoveryInv, Once, Asks, NoDiscovery
<1> QED
  BY <1>1, <1>2, UniverseInvInit DEF SelectInv, Init

LEMMA SelectInvStep == SelectInv /\ [Next]_vars => SelectInv'
<1> SUFFICES ASSUME SelectInv, [Next]_vars PROVE SelectInv'
  OBVIOUS
<1>1. CASE Next
  BY <1>1, UniverseInvStep, WholeInvStep, DiscoveryInvStep, NeverFails DEF SelectInv
<1>2. CASE UNCHANGED vars
  <2>1. UniverseInv'
    BY <1>2, UniverseInvStep DEF SelectInv
  <2>2. WholeInv' /\ DiscoveryInv' /\ ~failed'
    BY <1>2 DEF vars, SelectInv, WholeInv, DiscoveryInv, Once, Asks
  <2> QED
    BY <2>1, <2>2 DEF SelectInv
<1> QED
  BY <1>1, <1>2

\* Evidence and candidates that do not suffice freeze the universe and do not
\* end in an error, whatever the snapshots, the overrides and the crashes: the
\* roles selected always have their sizes and nothing in common
\* (select_rolling_universe, _reconcile_bucket, UniverseDecision).
THEOREM SelectionsAreWhole == Spec => []SelectionFailsClosed
<1>1. SelectInv => SelectionFailsClosed
  BY DEF SelectInv, SelectionFailsClosed
<1> QED
  BY <1>1, SelectInvInit, SelectInvStep, PTL DEF Spec
=============================================================================
