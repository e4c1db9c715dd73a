------------------------------ MODULE FleetProofs ------------------------------
(***************************************************************************)
(* What is rolled out to fleets and reported of them, for every number of  *)
(* devices, rings and overlapping calls: the rings cover the members, the  *)
(* results of a call account for them and for its rows, and what is        *)
(* computed of members and readings is right.  And the types of all the    *)
(* data services together.  Where the model counts or adds up, the proofs  *)
(* take a least counterexample (LeastNumber of DeviceProofs).              *)
(***************************************************************************)
EXTENDS Sequences, DataServices, DeviceProofs, FunctionProofs

-----------------------------------------------------------------------------
(* What is aggregated of readings *)

\* The instance of FleetRollouts has the finite sets and their sizes of this module.
LEMMA FleetCount ==
    ASSUME NEW S
    PROVE  Rollouts!Cardinality(S) = Cardinality(S) /\ Rollouts!IsFiniteSet(S) = IsFiniteSet(S)
BY DEF Cardinality, Rollouts!Cardinality, IsFiniteSet, Rollouts!IsFiniteSet

\* What is said of the readings f of the devices D: how many are below a value, up to it, and
\* from it, and what they add up to.
Under(f, D, v) == Cardinality({d \in D : f[d] < v})

Upto(f, D, v) == Cardinality({d \in D : f[d] <= v})

LowSide(f, D, m) == Cardinality({d \in D : 2 * f[d] <= m})

HighSide(f, D, m) == Cardinality({d \in D : 2 * f[d] >= m})

SumOf(f, D) == Cardinality(UNION {{d} \X (1..f[d]) : d \in D})

\* The kth of the sorted readings is one of them.
LEMMA KthReading ==
    ASSUME NEW D, IsFiniteSet(D), NEW f, \A d \in D : f[d] \in Nat, NEW k \in 1..Cardinality(D)
    PROVE  LET v == Rollouts!Smallest(f, D, k)
           IN  (\E d \in D : v = f[d]) /\ Under(f, D, v) < k /\ k <= Upto(f, D, v)
<1> DEFINE values == {f[d] : d \in D}
           under(v) == {d \in D : f[d] < v}
           upto(v) == {d \in D : f[d] <= v}
           enough == {v \in values : k <= Cardinality(upto(v))}
<1>1. Cardinality(D) \in Nat /\ k \in Nat /\ 1 <= k /\ k <= Cardinality(D)
  BY FS_CardinalityType
<1>2. \A v : /\ IsFiniteSet(under(v)) /\ Cardinality(under(v)) \in Nat
             /\ IsFiniteSet(upto(v)) /\ Cardinality(upto(v)) \in Nat
  <2> TAKE v
  <2>1. under(v) \in SUBSET D /\ upto(v) \in SUBSET D
    OBVIOUS
  <2> QED
    BY <2>1, FS_Subset, FS_CardinalityType
<1>3. values \in SUBSET Nat /\ IsFiniteSet(values) /\ values # {}
  <2>1. IsFiniteSet(values)
    BY FiniteImage
  <2>2. D # {}
    BY <1>1, FS_EmptySet
  <2> QED
    BY <2>1, <2>2
<1>4. enough # {}
  <2>1. PICK g \in values : \A m \in values : m <= g
    BY <1>3, GreatestNumber
  <2>2. upto(g) = D
    BY <2>1
  <2> QED
    BY <2>1, <2>2, <1>1
<1>5. PICK v \in enough : \A u \in enough : v <= u
  BY <1>3, <1>4, LeastNumber
<1>6. Cardinality(under(v)) < k
  <2>1. CASE under(v) = {}
    BY <2>1, <1>1, FS_EmptySet
  <2>2. CASE under(v) # {}
    <3> DEFINE less == {f[d] : d \in under(v)}
    <3>1. less \in SUBSET Int /\ IsFiniteSet(less) /\ less # {}
      <4>1. IsFiniteSet(less)
        <5> HIDE DEF under
        <5> QED
          BY <1>2, FiniteImage
      <4> QED
        BY <2>2, <4>1
    <3>2. PICK u \in less : \A m \in less : m <= u
      BY <3>1, GreatestNumber
    <3>3. u \in values /\ u \in Nat /\ v \in Nat /\ u < v
      BY <3>2, <1>3, <1>5
    <3>4. upto(u) = under(v)
      <4>1. \A d \in D : f[d] <= u => f[d] < v
        BY <3>3
      <4>2. \A d \in D : f[d] < v => f[d] <= u
        BY <3>2
      <4> QED
        BY <4>1, <4>2
    <3>5. u \notin enough
      BY <3>3, <1>5
    <3>6. ~(k <= Cardinality(upto(u)))
      BY <3>3, <3>5
    <3> QED
      BY <3>4, <3>6, <1>1, <1>2
  <2> QED
    BY <2>1, <2>2
<1>7. \E w \in values : Cardinality(under(w)) < k /\ k <= Cardinality(upto(w))
  BY <1>5, <1>6
<1>8. Rollouts!Smallest(f, D, k) =
        CHOOSE w \in values : Rollouts!Cardinality(under(w)) < k /\ k <= Rollouts!Cardinality(upto(w))
  BY DEF Rollouts!Smallest
<1>10. \E w \in values : Rollouts!Cardinality(under(w)) < k /\ k <= Rollouts!Cardinality(upto(w))
  BY <1>7, FleetCount
<1> HIDE DEF values, under, upto
<1>11. /\ Rollouts!Smallest(f, D, k) \in values
       /\ Rollouts!Cardinality(under(Rollouts!Smallest(f, D, k))) < k
       /\ k <= Rollouts!Cardinality(upto(Rollouts!Smallest(f, D, k)))
  BY <1>10, <1>8, Zenon
<1>9. /\ Rollouts!Smallest(f, D, k) \in values
      /\ Cardinality(under(Rollouts!Smallest(f, D, k))) < k
      /\ k <= Cardinality(upto(Rollouts!Smallest(f, D, k)))
  BY <1>11, FleetCount
<1> QED
  BY <1>9 DEF values, under, upto, Under, Upto

\* The pairs of a device and a number up to its reading are as many as the readings' sum,
\* which their least and their greatest bound.
LEMMA SumIsBounded ==
    ASSUME NEW D, IsFiniteSet(D), NEW f, \A d \in D : f[d] \in Nat,
           NEW a \in Nat, NEW b \in Nat, \A d \in D : a <= f[d] /\ f[d] <= b
    PROVE  /\ SumOf(f, D) \in Nat
           /\ Cardinality(D) * a <= SumOf(f, D) /\ SumOf(f, D) <= Cardinality(D) * b
<1> DEFINE pairs == UNION {{d} \X (1..f[d]) : d \in D}
<1>1. /\ IsFiniteSet(D \X (1..a)) /\ Cardinality(D \X (1..a)) = Cardinality(D) * a
      /\ IsFiniteSet(D \X (1..b)) /\ Cardinality(D \X (1..b)) = Cardinality(D) * b
  <2>1. /\ IsFiniteSet(1..a) /\ Cardinality(1..a) = a
        /\ IsFiniteSet(1..b) /\ Cardinality(1..b) = b
    BY FS_Interval
  <2> QED
    BY <2>1, FS_Product
<1>2. pairs \subseteq D \X (1..b)
  OBVIOUS
<1>3. D \X (1..a) \subseteq pairs
  <2>1. \A d \in D : {d} \X (1..a) \subseteq {d} \X (1..f[d])
    OBVIOUS
  <2> QED
    BY <2>1
<1>4. IsFiniteSet(pairs) /\ Cardinality(pairs) <= Cardinality(D \X (1..b))
  BY <1>1, <1>2, FS_Subset
<1>5. Cardinality(D \X (1..a)) <= Cardinality(pairs)
  BY <1>3, <1>4, FS_Subset
<1>6. Cardinality(pairs) \in Nat
  BY <1>4, FS_CardinalityType
<1> QED
  BY <1>1, <1>4, <1>5, <1>6 DEF SumOf

\* At least half of the readings are on each side of the median.
LEMMA MedianHalves ==
    ASSUME NEW D, IsFiniteSet(D), D # {}, NEW f, \A d \in D : f[d] \in Nat
    PROVE  LET m == Rollouts!median2(f, D)
           IN  2 * LowSide(f, D, m) >= Cardinality(D) /\ 2 * HighSide(f, D, m) >= Cardinality(D)
<1> DEFINE n == Cardinality(D)
           h == n \div 2
           at(k) == Rollouts!Smallest(f, D, k)
           upto(v) == {d \in D : f[d] <= v}
           under(v) == {d \in D : f[d] < v}
           from(v) == {d \in D : f[d] >= v}
           m == Rollouts!median2(f, D)
<1>1. n \in Nat /\ n # 0
  BY FS_CardinalityType, FS_EmptySet
<1>2. h \in Nat /\ (n = 2 * h \/ n = 2 * h + 1) /\ (n % 2 = 1 <=> n = 2 * h + 1)
  BY <1>1
<1>3. \A A \in SUBSET D : IsFiniteSet(A) /\ Cardinality(A) \in Nat
  BY FS_Subset, FS_CardinalityType
<1>4. \A k \in 1..n : /\ at(k) \in Nat
                      /\ Cardinality(under(at(k))) < k /\ k <= Cardinality(upto(at(k)))
  BY KthReading DEF Under, Upto
<1>5. \A v \in Nat : Cardinality(from(v)) = n - Cardinality(under(v))
  <2> TAKE v \in Nat
  <2>1. from(v) = D \ under(v)
    OBVIOUS
  <2>2. D \cap under(v) = under(v)
    OBVIOUS
  <2> HIDE DEF from, under
  <2>3. Cardinality(D \ under(v)) = Cardinality(D) - Cardinality(D \cap under(v))
    BY FS_Difference
  <2> QED
    BY <2>1, <2>2, <2>3
<1>6. ASSUME NEW A \in SUBSET D, NEW B \in SUBSET D, A \subseteq B PROVE Cardinality(A) <= Cardinality(B)
  BY <1>3, <1>6, FS_Subset
<1>7. CASE n = 2 * h + 1
  <2>1. h + 1 \in 1..n
    BY <1>2, <1>7
  <2>2. m = 2 * at(h + 1)
    BY <1>2, <1>7, FleetCount DEF Rollouts!median2
  <2>3. PICK v \in Nat : v = at(h + 1)
    BY <2>1, <1>4
  <2>4. {d \in D : 2 * f[d] <= m} = upto(v) /\ {d \in D : 2 * f[d] >= m} = from(v)
    BY <2>2, <2>3
  <2>5. Cardinality(under(v)) < h + 1 /\ h + 1 <= Cardinality(upto(v))
    BY <2>1, <2>3, <1>4
  <2>6. Cardinality(under(v)) \in Nat /\ Cardinality(upto(v)) \in Nat
    BY <1>3
  <2> HIDE DEF under, upto, from, m
  <2>7. 2 * Cardinality(upto(v)) >= n /\ 2 * Cardinality(from(v)) >= n
    BY <2>5, <2>6, <1>5, <1>2, <1>7, <2>3
  <2> QED
    BY <2>4, <2>7 DEF m, LowSide, HighSide
<1>8. CASE n = 2 * h
  <2>1. h \in 1..n /\ h + 1 \in 1..n /\ n % 2 # 1
    BY <1>1, <1>2, <1>8
  <2>2. m = at(h) + at(h + 1)
    BY <2>1, FleetCount DEF Rollouts!median2
  <2>3. PICK v \in Nat : v = at(h)
    BY <2>1, <1>4
  <2>4. PICK w \in Nat : w = at(h + 1)
    BY <2>1, <1>4
  <2>5. /\ Cardinality(under(v)) < h /\ h <= Cardinality(upto(v))
        /\ Cardinality(under(w)) < h + 1 /\ h + 1 <= Cardinality(upto(w))
    BY <2>1, <2>3, <2>4, <1>4
  <2>6. /\ Cardinality(under(v)) \in Nat /\ Cardinality(upto(v)) \in Nat
        /\ Cardinality(under(w)) \in Nat /\ Cardinality(upto(w)) \in Nat
    BY <1>3
  <2>7. v <= w
    <3> SUFFICES ASSUME w < v PROVE FALSE
      OBVIOUS
    <3>1. upto(w) \subseteq under(v)
      OBVIOUS
    <3>2. Cardinality(upto(w)) <= Cardinality(under(v))
      BY <3>1, <1>6
    <3> QED
      BY <3>2, <2>5, <2>6, <1>2
  <2>8. upto(v) \subseteq {d \in D : 2 * f[d] <= m} /\ from(w) \subseteq {d \in D : 2 * f[d] >= m}
    <3>1. m = v + w
      BY <2>2, <2>3, <2>4
    <3> QED
      BY <3>1, <2>7
  <2>9. /\ Cardinality(upto(v)) <= Cardinality({d \in D : 2 * f[d] <= m})
        /\ Cardinality(from(w)) <= Cardinality({d \in D : 2 * f[d] >= m})
    BY <2>8, <1>6
  <2>10. /\ Cardinality({d \in D : 2 * f[d] <= m}) \in Nat
         /\ Cardinality({d \in D : 2 * f[d] >= m}) \in Nat
    BY <1>3
  <2>11. Cardinality(from(w)) = n - Cardinality(under(w))
    BY <1>5
  <2> DEFINE low == Cardinality({d \in D : 2 * f[d] <= m})
             high == Cardinality({d \in D : 2 * f[d] >= m})
             cu == Cardinality(under(w))
             cv == Cardinality(upto(v))
  <2>12. /\ low \in Nat /\ high \in Nat /\ cu \in Nat /\ cv \in Nat
         /\ h <= cv /\ cv <= low /\ cu < h + 1 /\ n - cu <= high
    BY <2>5, <2>6, <2>9, <2>10, <2>11
  <2>13. 2 * low >= n /\ 2 * high >= n
    <3> HIDE DEF low, high, cu, cv, n, h
    <3> QED
      BY <2>12, <1>2, <1>8, <1>1
  <2> QED
    BY <2>13 DEF LowSide, HighSide
<1> QED
  BY <1>2, <1>7, <1>8

\* What is aggregated of a fleet's readings is right, whatever they are.
LEMMA AggregateHolds ==
    ASSUME Rollouts!ConstantsFit, \A f \in Fleet : health[f].ids \subseteq Member
    PROVE  Rollouts!AggregateIsRight
<1> SUFFICES ASSUME NEW f \in Fleet, NEW heard \in [health[f].ids -> Measure \cup {NoMeasure}],
                    {d \in health[f].ids : heard[d] # NoMeasure} # {}
             PROVE  LET D == {d \in health[f].ids : heard[d] # NoMeasure}
                        a == Rollouts!fleet_telemetry_latest(heard)
                    IN  /\ a.count = Cardinality(D)
                        /\ \A d \in D : a.min <= heard[d] /\ heard[d] <= a.max
                        /\ {a.min, a.max} \subseteq {heard[d] : d \in D}
                        /\ a.count * a.min <= a.sum /\ a.sum <= a.count * a.max
                        /\ 2 * LowSide(heard, D, a.median2) >= a.count
                        /\ 2 * HighSide(heard, D, a.median2) >= a.count
  BY FleetCount DEF Rollouts!AggregateIsRight, LowSide, HighSide
<1> DEFINE D == {d \in health[f].ids : heard[d] # NoMeasure}
           n == Cardinality(D)
           a == Rollouts!fleet_telemetry_latest(heard)
           low == Rollouts!Smallest(heard, D, 1)
           high == Rollouts!Smallest(heard, D, n)
<1>1. IsFiniteSet(D) /\ n \in Nat /\ n # 0 /\ D # {}
  <2>1. IsFiniteSet(Member)
    BY FleetCount DEF Rollouts!ConstantsFit
  <2>2. D \subseteq Member
    OBVIOUS
  <2> HIDE DEF D
  <2>3. IsFiniteSet(D)
    BY <2>1, <2>2, FS_Subset
  <2>4. D # {}
    BY DEF D
  <2> QED
    BY <2>3, <2>4, FS_CardinalityType, FS_EmptySet
<1>2. \A d \in D : heard[d] \in Nat
  BY DEF Rollouts!ConstantsFit
<1>3. a = [count |-> n, min |-> low, max |-> high, sum |-> SumOf(heard, D),
           median2 |-> Rollouts!median2(heard, D)]
  <2>1. DOMAIN heard = health[f].ids
    OBVIOUS
  <2> QED
    BY <2>1, <1>1, FleetCount DEF Rollouts!fleet_telemetry_latest, SumOf
<1> HIDE DEF D
<1>4. /\ \E d \in D : low = heard[d]
      /\ \E d \in D : high = heard[d]
      /\ Under(heard, D, low) < 1 /\ n <= Upto(heard, D, high)
  <2>1. 1 \in 1..n /\ n \in 1..n
    BY <1>1
  <2> QED
    BY <2>1, <1>1, <1>2, KthReading
<1>7. low \in Nat /\ high \in Nat
  BY <1>2, <1>4
<1>5. \A d \in D : low <= heard[d]
  <2> DEFINE under == {d \in D : heard[d] < low}
  <2>1. under \subseteq D
    OBVIOUS
  <2>2. Under(heard, D, low) = Cardinality(under)
    BY DEF Under
  <2> HIDE DEF under
  <2>3. IsFiniteSet(under) /\ Cardinality(under) \in Nat
    BY <2>1, <1>1, FS_Subset, FS_CardinalityType
  <2>4. under = {}
    BY <2>2, <2>3, <1>4, FS_EmptySet
  <2> QED
    BY <2>4, <1>7, <1>2 DEF under
<1>6. \A d \in D : heard[d] <= high
  <2> DEFINE upto == {d \in D : heard[d] <= high}
  <2>1. upto \subseteq D
    OBVIOUS
  <2>2. Upto(heard, D, high) = Cardinality(upto)
    BY DEF Upto
  <2> HIDE DEF upto
  <2>3. IsFiniteSet(upto) /\ Cardinality(upto) <= n /\ (n = Cardinality(upto) => D = upto)
    BY <2>1, <1>1, FS_Subset
  <2>4. Cardinality(upto) \in Nat
    BY <2>3, FS_CardinalityType
  <2>5. D = upto
    BY <2>2, <2>3, <2>4, <1>4, <1>1
  <2> QED
    BY <2>5 DEF upto
<1>8. n * low <= SumOf(heard, D) /\ SumOf(heard, D) <= n * high
  <2>1. \A d \in D : low <= heard[d] /\ heard[d] <= high
    BY <1>5, <1>6
  <2> HIDE DEF low, high
  <2> QED
    BY <2>1, <1>1, <1>2, <1>7, SumIsBounded
<1>9. /\ 2 * LowSide(heard, D, Rollouts!median2(heard, D)) >= n
      /\ 2 * HighSide(heard, D, Rollouts!median2(heard, D)) >= n
  BY <1>1, <1>2, MedianHalves
<1>10. a.count = n /\ a.min = low /\ a.max = high /\ a.sum = SumOf(heard, D)
         /\ a.median2 = Rollouts!median2(heard, D)
  BY <1>3
<1>11. {low, high} \subseteq {heard[d] : d \in D}
  BY <1>4
<1> HIDE DEF a, low, high
<1>12. /\ a.count = Cardinality(D)
       /\ \A d \in D : a.min <= heard[d] /\ heard[d] <= a.max
       /\ {a.min, a.max} \subseteq {heard[d] : d \in D}
       /\ a.count * a.min <= a.sum /\ a.sum <= a.count * a.max
       /\ 2 * LowSide(heard, D, a.median2) >= a.count
       /\ 2 * HighSide(heard, D, a.median2) >= a.count
  BY <1>5, <1>6, <1>8, <1>9, <1>10, <1>11
<1> QED
  BY <1>12 DEF D, a

-----------------------------------------------------------------------------
(* Rings *)

\* The devices before a ring: the ring adds its own, and rings of the same sizes have the same.
LEMMA CursorCounts ==
    ASSUME NEW sizes \in Seq(Nat), NEW i \in 1..Len(sizes) + 1
    PROVE  /\ Rollouts!cursor(sizes, i) \in Nat
           /\ i = 1 => Rollouts!cursor(sizes, i) = 0
           /\ i <= Len(sizes) =>
                Rollouts!cursor(sizes, i + 1) = Rollouts!cursor(sizes, i) + sizes[i]
<1> DEFINE P == [j \in 1..Len(sizes) |-> {j} \X (1..sizes[j])]
           upto(k) == UNION {P[j] : j \in 1..k - 1}
<1>0. Len(sizes) \in Nat /\ \A j \in 1..Len(sizes) : sizes[j] \in Nat
  OBVIOUS
<1>1. \A k \in 1..Len(sizes) + 1 : Rollouts!cursor(sizes, k) = Cardinality(upto(k))
  <2> TAKE k \in 1..Len(sizes) + 1
  <2>1. upto(k) = UNION {{j} \X (1..sizes[j]) : j \in 1..k - 1}
    <3>1. \A j \in 1..k - 1 : P[j] = {j} \X (1..sizes[j])
      BY <1>0
    <3> HIDE DEF P
    <3> QED
      BY <3>1
  <2> QED
    BY <2>1, FleetCount DEF Rollouts!cursor
<1>2. ASSUME NEW j \in 1..Len(sizes)
      PROVE  IsFiniteSet(P[j]) /\ Cardinality(P[j]) = sizes[j]
  <2>1. /\ IsFiniteSet({j}) /\ Cardinality({j}) = 1
        /\ IsFiniteSet(1..sizes[j]) /\ Cardinality(1..sizes[j]) = sizes[j]
    <3>1. sizes[j] \in Nat
      BY <1>0
    <3>2. IsFiniteSet(1..sizes[j]) /\ Cardinality(1..sizes[j]) = sizes[j]
      BY <3>1, Numbers, Zenon
    <3> QED
      BY <3>2, FS_Singleton
  <2>2. IsFiniteSet({j} \X (1..sizes[j])) /\ Cardinality({j} \X (1..sizes[j])) = 1 * sizes[j]
    BY <2>1, FS_Product
  <2> QED
    BY <2>2, <1>0
<1>3. \A j \in 1..Len(sizes) : \A p \in P[j] : p[1] = j
  OBVIOUS
<1> HIDE DEF P
<1>4. \A k \in 1..Len(sizes) + 1 : IsFiniteSet(upto(k)) /\ Cardinality(upto(k)) \in Nat
  <2> TAKE k \in 1..Len(sizes) + 1
  <2>1. IsFiniteSet(1..k - 1) /\ 1..k - 1 \subseteq 1..Len(sizes)
    <3>1. k - 1 \in Nat /\ 1..k - 1 \subseteq 1..Len(sizes)
      BY <1>0
    <3> QED
      BY <3>1, Numbers, Zenon
  <2>2. IsFiniteSet({P[j] : j \in 1..k - 1})
    BY <2>1, FiniteImage
  <2>3. IsFiniteSet(upto(k))
    BY <2>1, <2>2, <1>2, FS_UNION
  <2> QED
    BY <2>3, FS_CardinalityType
<1>5. ASSUME i = 1 PROVE Rollouts!cursor(sizes, i) = 0
  <2>1. upto(1) = {}
    OBVIOUS
  <2>2. Cardinality(upto(1)) = 0
    BY <2>1, FS_EmptySet
  <2> QED
    BY <2>2, <1>1, <1>4, <1>5
<1>6. ASSUME i <= Len(sizes)
      PROVE  Rollouts!cursor(sizes, i + 1) = Rollouts!cursor(sizes, i) + sizes[i]
  <2>0. i \in 1..Len(sizes) /\ i + 1 \in 1..Len(sizes) + 1 /\ (i + 1) - 1 = i
    BY <1>6, <1>0
  <2>1. upto(i + 1) = upto(i) \cup P[i]
    <3>1. 1..i = 1..i - 1 \cup {i}
      BY <2>0
    <3> QED
      BY <3>1, <2>0
  <2>2. upto(i) \cap P[i] = {}
    BY <1>3, <2>0
  <2> HIDE DEF upto
  <2>3. Cardinality(upto(i + 1)) = Cardinality(upto(i)) + Cardinality(P[i]) - Cardinality({})
    BY <2>0, <2>1, <2>2, <1>2, <1>4, FS_Union
  <2>4. Cardinality(upto(i + 1)) = Cardinality(upto(i)) + sizes[i]
    <3>1. sizes[i] \in Nat
      BY <2>0, <1>0
    <3> QED
      BY <2>0, <2>3, <3>1, <1>2, <1>4, FS_EmptySet
  <2> QED
    BY <2>0, <2>4, <1>1
<1> QED
  BY <1>1, <1>4, <1>5, <1>6

\* What is before a ring depends on the sizes before it alone.
LEMMA CursorAgrees ==
    ASSUME NEW s, NEW t, NEW i \in Nat, \A j \in 1..i - 1 : s[j] = t[j]
    PROVE  Rollouts!cursor(s, i) = Rollouts!cursor(t, i)
<1>1. {{j} \X (1..s[j]) : j \in 1..i - 1} = {{j} \X (1..t[j]) : j \in 1..i - 1}
  OBVIOUS
<1> QED
  BY <1>1 DEF Rollouts!cursor

\* Of two rings the later one has no fewer devices before it.
LEMMA CursorGrows ==
    ASSUME NEW sizes \in Seq(Nat), NEW i \in 1..Len(sizes) + 1, NEW k \in 1..Len(sizes) + 1, i <= k
    PROVE  Rollouts!cursor(sizes, i) <= Rollouts!cursor(sizes, k)
<1> DEFINE c(j) == Rollouts!cursor(sizes, j)
           less == {j \in i..k : c(j) < c(i)}
<1>0. Len(sizes) \in Nat /\ \A j \in 1..Len(sizes) : sizes[j] \in Nat
  OBVIOUS
<1>1. \A j \in i..k : c(j) \in Nat /\ (j < k => c(j + 1) = c(j) + sizes[j] /\ sizes[j] \in Nat)
  <2> TAKE j \in i..k
  <2>1. j \in 1..Len(sizes) + 1 /\ (j < k => j <= Len(sizes) /\ j \in 1..Len(sizes))
    BY <1>0
  <2> QED
    BY <2>1, <1>0, CursorCounts
<1> HIDE DEF c
<1>2. SUFFICES ASSUME less # {} PROVE FALSE
  <2>1. i \in i..k /\ k \in i..k
    BY <1>0
  <2>2. ~(c(k) < c(i)) /\ c(k) \in Nat /\ c(i) \in Nat
    BY <2>1, <1>1, <1>2
  <2>3. c(i) <= c(k)
    BY <2>2
  <2> QED
    BY <2>3 DEF c
<1>3. PICK j \in less : \A l \in less : j <= l
  <2>1. less \in SUBSET Nat
    BY <1>0
  <2> QED
    BY <2>1, <1>2, LeastNumber
<1>4. j # i /\ j \in i..k
  BY <1>1, <1>3
<1>5. j - 1 \in i..k /\ j - 1 < k /\ (j - 1) + 1 = j /\ ~(j <= j - 1)
  BY <1>0, <1>4
<1>6. c(j) = c(j - 1) + sizes[j - 1] /\ c(j - 1) \in Nat /\ sizes[j - 1] \in Nat /\ c(i) \in Nat
  BY <1>1, <1>5
<1>7. c(j - 1) < c(i)
  BY <1>3, <1>6
<1>8. j - 1 \in less
  BY <1>5, <1>7
<1> QED
  BY <1>3, <1>5, <1>8

\* The rings' sizes are positive, and without max_rings they take all devices.
LEMMA RingSizesTake ==
    ASSUME NEW n \in Nat, NEW sizes \in Seq(Nat \ {0}), NEW max \in Nat
    PROVE  LET c == Rollouts!_compute_canary_rings(n, sizes, max)
           IN  /\ c \in Seq(Nat \ {0}) /\ c \in Seq(Nat)
               /\ sizes # << >> => Len(c) # 0
               /\ max = 0 => n <= Rollouts!cursor(c, Len(c) + 1)
<1> DEFINE covered == Rollouts!cursor(sizes, Len(sizes) + 1)
           c == Rollouts!_compute_canary_rings(n, sizes, max)
<1>1. Len(sizes) \in Nat /\ sizes \in Seq(Nat) /\ (sizes # << >> => Len(sizes) # 0)
  OBVIOUS
<1>2. covered \in Nat
  BY <1>1, CursorCounts
<1>3. c = IF max > 0 THEN SubSeq(sizes, 1, IF max < Len(sizes) THEN max ELSE Len(sizes))
          ELSE IF covered < n THEN Append(sizes, n - covered) ELSE sizes
  BY DEF Rollouts!_compute_canary_rings
<1>4. \A s \in Seq(Nat \ {0}) : s \in Seq(Nat)
  OBVIOUS
<1> HIDE DEF covered, c
<1>5. CASE max > 0
  <2> DEFINE k == IF max < Len(sizes) THEN max ELSE Len(sizes)
  <2>1. k \in 0..Len(sizes) /\ (Len(sizes) # 0 => k # 0)
    BY <1>1, <1>5
  <2>2. c = SubSeq(sizes, 1, k)
    BY <1>3, <1>5
  <2> HIDE DEF k
  <2>3. c \in Seq(Nat \ {0}) /\ Len(c) = k
    BY <2>1, <2>2, <1>1
  <2> QED
    BY <2>1, <2>3, <1>1, <1>4, <1>5 DEF c
<1>6. CASE max = 0 /\ covered < n
  <2>1. c = Append(sizes, n - covered) /\ n - covered \in Nat \ {0}
    BY <1>2, <1>3, <1>6
  <2>2. /\ c \in Seq(Nat \ {0}) /\ Len(c) = Len(sizes) + 1
        /\ c[Len(sizes) + 1] = n - covered
        /\ \A j \in 1..Len(sizes) : c[j] = sizes[j]
    BY <2>1, <1>1
  <2>3. c \in Seq(Nat)
    BY <2>2, <1>4
  <2>4. Rollouts!cursor(c, Len(sizes) + 1) = covered
    <3>1. Len(sizes) + 1 \in Nat /\ \A j \in 1..(Len(sizes) + 1) - 1 : c[j] = sizes[j]
      BY <2>2, <1>1
    <3> QED
      BY <3>1, CursorAgrees DEF covered
  <2>5. Rollouts!cursor(c, (Len(sizes) + 1) + 1) = Rollouts!cursor(c, Len(sizes) + 1) + c[Len(sizes) + 1]
    <3>1. Len(sizes) + 1 \in 1..Len(c) + 1 /\ Len(sizes) + 1 <= Len(c)
      BY <2>2, <1>1
    <3> QED
      BY <3>1, <2>3, CursorCounts
  <2>6. Rollouts!cursor(c, Len(c) + 1) = n
    BY <2>2, <2>4, <2>5, <1>2
  <2> QED
    BY <2>2, <2>3, <2>6, <1>1 DEF c
<1>7. CASE max = 0 /\ ~(covered < n)
  <2>1. c = sizes
    BY <1>3, <1>7
  <2> QED
    BY <2>1, <1>1, <1>2, <1>7 DEF c, covered
<1> QED
  BY <1>5, <1>6, <1>7

\* Equal chunks have positive sizes.
LEMMA ChunksArePositive ==
    ASSUME NEW n \in Nat, NEW size \in Nat \ {0}
    PROVE  Rollouts!chunks(n, size) \in Seq(Nat \ {0})
<1> DEFINE q == (n + size - 1) \div size
<1>1. q \in Nat /\ q * size <= n + size - 1
  <2>1. n + size - 1 \in Nat
    OBVIOUS
  <2>2. PICK m \in Nat : m = n + size - 1
    BY <2>1
  <2>3. m = size * (m \div size) + (m % size) /\ m % size \in Nat /\ m \div size \in Nat
    BY SMT
  <2>4. PICK r \in Nat : r = m % size
    BY <2>3
  <2>5. PICK k \in Nat : k = m \div size
    BY <2>3
  <2>6. m = size * k + r
    BY <2>3, <2>4, <2>5
  <2> QED
    BY <2>2, <2>5, <2>6
<1>2. ASSUME NEW i \in 1..q
      PROVE  (IF i * size <= n THEN size ELSE n - (i - 1) * size) \in Nat \ {0}
  <2>1. i \in Nat /\ i <= q
    BY <1>1
  <2>2. PICK k \in Nat : k = q
    BY <1>1
  <2>3. PICK d \in Nat : k = i + d
    <3>1. k - i \in Nat /\ k = i + (k - i)
      BY <2>1, <2>2
    <3> QED
      BY <3>1
  <2>4. (i + d) * size = i * size + d * size /\ d * size \in Nat /\ i * size \in Nat
    OBVIOUS
  <2>5. i * size <= n + size - 1
    BY <2>2, <2>3, <2>4, <1>1
  <2>6. (i - 1) * size = i * size - size
    BY <2>1
  <2>7. n - (i - 1) * size \in Nat \ {0}
    BY <2>4, <2>5, <2>6
  <2> QED
    BY <2>7
<1> HIDE DEF q
<1>3. Rollouts!chunks(n, size) = [i \in 1..q |-> IF i * size <= n THEN size ELSE n - (i - 1) * size]
  BY DEF Rollouts!chunks, q
<1> QED
  BY <1>1, <1>2, <1>3

\* The last of n devices that ring k takes.
RingEnd(c, k, n) == IF Rollouts!cursor(c, k) + c[k] < n THEN Rollouts!cursor(c, k) + c[k] ELSE n

\* Each ring is a run of the list, from where those before it end.
LEMMA RingsAreRuns ==
    ASSUME NEW S, NEW devices \in Seq(S), NEW c \in Seq(Nat)
    PROVE  LET rings == Rollouts!Slices(devices, c)
           IN  /\ rings \in Seq(Seq(S)) /\ Len(rings) = Len(c) /\ DOMAIN rings = 1..Len(c)
               /\ \A k \in 1..Len(c) :
                    /\ Rollouts!cursor(c, k) \in Nat /\ c[k] \in Nat
                    /\ rings[k] \in Seq(S)
                    /\ DOMAIN rings[k] = 1..RingEnd(c, k, Len(devices)) - Rollouts!cursor(c, k)
                    /\ \A i \in 1..RingEnd(c, k, Len(devices)) - Rollouts!cursor(c, k) :
                         rings[k][i] = devices[Rollouts!cursor(c, k) + i]
<1> DEFINE cur(k) == Rollouts!cursor(c, k)
           last(k) == IF cur(k) + c[k] < Len(devices) THEN cur(k) + c[k] ELSE Len(devices)
           rings == Rollouts!Slices(devices, c)
<1>0. Len(c) \in Nat /\ Len(devices) \in Nat
  OBVIOUS
<1>1. \A k \in 1..Len(c) : cur(k) \in Nat /\ c[k] \in Nat
  <2> TAKE k \in 1..Len(c)
  <2>1. k \in 1..Len(c) + 1
    BY <1>0
  <2> QED
    BY <2>1, CursorCounts
<1>2. rings = [k \in 1..Len(c) |-> SubSeq(devices, cur(k) + 1, last(k))]
  BY DEF Rollouts!Slices
<1> HIDE DEF cur, rings
<1>3. ASSUME NEW k \in 1..Len(c)
      PROVE  /\ rings[k] \in Seq(S)
             /\ DOMAIN rings[k] = 1..last(k) - cur(k)
             /\ \A i \in 1..last(k) - cur(k) : rings[k][i] = devices[cur(k) + i]
  <2>1. rings[k] = SubSeq(devices, cur(k) + 1, last(k))
    BY <1>2
  <2>2. last(k) \in 0..Len(devices) /\ cur(k) \in Nat
    BY <1>0, <1>1
  <2> HIDE DEF last
  <2>3. PICK a \in Nat, b \in 0..Len(devices) : a = cur(k) /\ b = last(k)
    BY <2>2
  <2>4. /\ SubSeq(devices, a + 1, b) \in Seq(S)
        /\ DOMAIN SubSeq(devices, a + 1, b) = 1..b - a
        /\ \A i \in 1..b - a : SubSeq(devices, a + 1, b)[i] = devices[a + i]
    <3>1. CASE a < b
      <4>1. /\ SubSeq(devices, a + 1, b) \in Seq(S) /\ Len(SubSeq(devices, a + 1, b)) = b - a
            /\ \A i \in 1..b - a : SubSeq(devices, a + 1, b)[i] = devices[a + i]
        BY <3>1, <1>0
      <4> QED
        BY <4>1
    <3>2. CASE ~(a < b)
      <4>1. SubSeq(devices, a + 1, b) = << >>
        BY <3>2, <1>0
      <4>2. 1..b - a = {}
        BY <3>2, <1>0
      <4> QED
        BY <4>1, <4>2
    <3> QED
      BY <3>1, <3>2
  <2> QED
    BY <2>1, <2>3, <2>4
<1>4. rings \in Seq(Seq(S)) /\ Len(rings) = Len(c) /\ DOMAIN rings = 1..Len(c)
  <2>1. DOMAIN rings = 1..Len(c) /\ rings = [k \in 1..Len(c) |-> rings[k]]
    BY <1>2
  <2> QED
    BY <2>1, <1>3, <1>0
<1> QED
  BY <1>1, <1>3, <1>4 DEF cur, rings, RingEnd

\* After a ring without devices all are: the list has ended.
LEMMA EmptyRingsAreLast ==
    ASSUME NEW S, NEW devices \in Seq(S), NEW c \in Seq(Nat \ {0})
    PROVE  LET rings == Rollouts!Slices(devices, c)
           IN  /\ \A k, l \in DOMAIN rings : k < l /\ rings[k] = << >> => rings[l] = << >>
               /\ devices # << >> /\ Len(c) # 0 => rings[1] # << >>
<1> DEFINE cur(k) == Rollouts!cursor(c, k)
           last(k) == IF cur(k) + c[k] < Len(devices) THEN cur(k) + c[k] ELSE Len(devices)
           rings == Rollouts!Slices(devices, c)
<1>0. c \in Seq(Nat) /\ Len(c) \in Nat /\ Len(devices) \in Nat
  OBVIOUS
<1>1. /\ DOMAIN rings = 1..Len(c)
      /\ \A k \in 1..Len(c) : /\ cur(k) \in Nat
                              /\ rings[k] \in Seq(S)
                              /\ DOMAIN rings[k] = 1..last(k) - cur(k)
  <2>1. /\ DOMAIN rings = 1..Len(c)
        /\ \A k \in 1..Len(c) : /\ Rollouts!cursor(c, k) \in Nat
                                /\ rings[k] \in Seq(S)
                                /\ DOMAIN rings[k] = 1..RingEnd(c, k, Len(devices)) - Rollouts!cursor(c, k)
    BY <1>0, RingsAreRuns
  <2> QED
    BY <2>1 DEF RingEnd
<1>2. \A k \in 1..Len(c) : c[k] \in Nat \ {0}
  OBVIOUS
<1> HIDE DEF rings
<1>3. \A k \in 1..Len(c) : rings[k] = << >> <=> Len(devices) <= cur(k)
  <2> TAKE k \in 1..Len(c)
  <2>1. PICK a \in Nat, b \in Nat \ {0} : a = cur(k) /\ b = c[k]
    BY <1>1, <1>2
  <2>2. PICK r \in Seq(S) : r = rings[k]
    BY <1>1
  <2> HIDE DEF cur
  <2>3. DOMAIN r = 1..last(k) - a /\ last(k) = IF a + b < Len(devices) THEN a + b ELSE Len(devices)
    BY <2>1, <2>2, <1>1
  <2>4. r = << >> <=> 1 \notin DOMAIN r
    <3>1. DOMAIN r = 1..Len(r) /\ Len(r) \in Nat
      OBVIOUS
    <3>2. r = << >> <=> Len(r) = 0
      OBVIOUS
    <3> QED
      BY <3>1, <3>2
  <2>5. 1 \in DOMAIN r <=> a < Len(devices)
    <3>1. 1 \in DOMAIN r <=> 1 <= last(k) - a
      BY <2>3, <1>0
    <3> QED
      BY <2>3, <3>1, <1>0
  <2> QED
    BY <2>1, <2>2, <2>4, <2>5, <1>0
<1>4. ASSUME NEW k \in 1..Len(c), NEW l \in 1..Len(c), k < l PROVE cur(k) <= cur(l)
  <2>1. k \in 1..Len(c) + 1 /\ l \in 1..Len(c) + 1 /\ k <= l
    BY <1>0, <1>4
  <2> QED
    BY <2>1, <1>0, CursorGrows
<1>5. Len(c) # 0 => cur(1) = 0
  <2>1. Len(c) # 0 => 1 \in 1..Len(c) + 1
    BY <1>0
  <2> QED
    BY <2>1, <1>0, CursorCounts
<1>6. devices # << >> => Len(devices) # 0
  OBVIOUS
<1> HIDE DEF cur
<1>7. ASSUME NEW k \in 1..Len(c), NEW l \in 1..Len(c), k < l, rings[k] = << >> PROVE rings[l] = << >>
  <2>1. cur(k) <= cur(l) /\ cur(k) \in Nat /\ cur(l) \in Nat
    BY <1>1, <1>4, <1>7
  <2>2. Len(devices) <= cur(k)
    BY <1>3, <1>7
  <2> QED
    BY <2>1, <2>2, <1>0, <1>3
<1>8. devices # << >> /\ Len(c) # 0 => rings[1] # << >>
  <2>1. Len(c) # 0 => 1 \in 1..Len(c)
    BY <1>0
  <2> QED
    BY <2>1, <1>0, <1>3, <1>5, <1>6
<1> QED
  BY <1>1, <1>7, <1>8 DEF rings

\* Whatever the sizes, the rings cover the list of devices.
THEOREM RingsAlwaysCover ==
    \A n \in Nat, sizes \in Seq(Nat \ {0}), max \in Nat : Rollouts!RingsCover(n, sizes, max)
<1> TAKE n \in Nat, sizes \in Seq(Nat \ {0}), max \in Nat
<1> DEFINE list == [i \in 1..n |-> i]
           c == Rollouts!_compute_canary_rings(n, sizes, max)
           cur(k) == Rollouts!cursor(c, k)
           last(k) == IF cur(k) + c[k] < n THEN cur(k) + c[k] ELSE n
           rings == Rollouts!RingsOf(n, sizes, max)
           places(k) == {rings[k][i] : i \in DOMAIN rings[k]}
<1>1. list \in Seq(1..n) /\ Len(list) = n /\ \A i \in 1..n : list[i] = i
  OBVIOUS
<1>2. /\ c \in Seq(Nat) /\ c \in Seq(Nat \ {0}) /\ Len(c) \in Nat
      /\ \A k \in 1..Len(c) : c[k] \in Nat \ {0}
      /\ max = 0 => n <= cur(Len(c) + 1)
  <2>1. /\ c \in Seq(Nat) /\ c \in Seq(Nat \ {0})
        /\ max = 0 => n <= cur(Len(c) + 1)
    BY RingSizesTake
  <2> HIDE DEF c, cur
  <2> QED
    BY <2>1
<1>3. rings = Rollouts!Slices(list, c)
  BY DEF Rollouts!RingsOf
<1> HIDE DEF list, c, rings
<1>4. /\ DOMAIN rings = 1..Len(c)
      /\ \A k \in 1..Len(c) : /\ DOMAIN rings[k] = 1..last(k) - cur(k)
                              /\ \A i \in 1..last(k) - cur(k) : rings[k][i] = list[cur(k) + i]
  <2> DEFINE r == Rollouts!Slices(list, c)
  <2>1. PICK S : list \in Seq(S)
    BY <1>1
  <2>2. /\ DOMAIN r = 1..Len(c)
        /\ \A k \in 1..Len(c) :
             /\ DOMAIN r[k] = 1..RingEnd(c, k, Len(list)) - Rollouts!cursor(c, k)
             /\ \A i \in 1..RingEnd(c, k, Len(list)) - Rollouts!cursor(c, k) :
                  r[k][i] = list[Rollouts!cursor(c, k) + i]
    BY <2>1, <1>2, RingsAreRuns
  <2>3. \A k : last(k) = RingEnd(c, k, Len(list))
    BY <1>1 DEF RingEnd
  <2> HIDE DEF r, last
  <2>4. rings = r
    BY <1>3 DEF r
  <2> QED
    BY <2>2, <2>3, <2>4
<1>5. \A k \in 1..Len(c) + 1 : /\ cur(k) \in Nat
                               /\ k = 1 => cur(k) = 0
                               /\ k <= Len(c) => cur(k + 1) = cur(k) + c[k]
  BY <1>2, CursorCounts
<1>6. \A k, l \in 1..Len(c) + 1 : k <= l => cur(k) <= cur(l)
  BY <1>2, CursorGrows
<1> HIDE DEF cur
<1>7. \A k \in 1..Len(c) : \A i \in 1..last(k) - cur(k) :
        cur(k) + i \in 1..n /\ rings[k][i] = cur(k) + i /\ i \in Nat
  <2> TAKE k \in 1..Len(c)
  <2> TAKE i \in 1..last(k) - cur(k)
  <2>1. k \in 1..Len(c) + 1 /\ c[k] \in Nat
    BY <1>2
  <2>2. cur(k) + i \in 1..n /\ i \in Nat
    BY <2>1, <1>5
  <2> QED
    BY <2>2, <1>1, <1>4
<1>8. \A k \in 1..Len(c) : places(k) = cur(k) + 1..last(k)
  <2> TAKE k \in 1..Len(c)
  <2>1. PICK a \in Nat, b \in Nat : a = cur(k) /\ b = last(k)
    BY <1>2, <1>5
  <2>2. DOMAIN rings[k] = 1..b - a /\ \A i \in 1..b - a : rings[k][i] = a + i
    BY <2>1, <1>4, <1>7
  <2>3. \A p \in a + 1..b : p - a \in 1..b - a /\ a + (p - a) = p
    OBVIOUS
  <2>4. \A i \in 1..b - a : a + i \in a + 1..b
    OBVIOUS
  <2>5. places(k) = {a + i : i \in 1..b - a}
    BY <2>2
  <2> QED
    BY <2>1, <2>3, <2>4, <2>5
<1>9. \A k \in DOMAIN rings : \A i, j \in DOMAIN rings[k] : i < j => rings[k][i] < rings[k][j]
  <2> TAKE k \in DOMAIN rings
  <2> TAKE i, j \in DOMAIN rings[k]
  <2>1. /\ k \in 1..Len(c) /\ cur(k) \in Nat
        /\ rings[k][i] = cur(k) + i /\ rings[k][j] = cur(k) + j /\ i \in Nat /\ j \in Nat
    <3>1. k \in 1..Len(c) /\ k \in 1..Len(c) + 1
      BY <1>2, <1>4
    <3>2. i \in 1..last(k) - cur(k) /\ j \in 1..last(k) - cur(k)
      BY <3>1, <1>4
    <3> HIDE DEF last
    <3> QED
      BY <3>1, <3>2, <1>5, <1>7
  <2> QED
    BY <2>1
<1>10. ASSUME NEW k \in DOMAIN rings, NEW l \in DOMAIN rings, k < l
       PROVE  \A p \in places(k), q \in places(l) : p < q
  <2>1. k \in 1..Len(c) /\ l \in 1..Len(c) /\ k + 1 \in 1..Len(c) + 1 /\ k + 1 <= l
        /\ l \in 1..Len(c) + 1 /\ k \in 1..Len(c) + 1 /\ k <= Len(c)
    BY <1>2, <1>4, <1>10
  <2>2. cur(k) + c[k] <= cur(l) /\ cur(k) \in Nat /\ cur(l) \in Nat /\ c[k] \in Nat
    BY <2>1, <1>2, <1>5, <1>6
  <2>3. places(k) = cur(k) + 1..last(k) /\ places(l) = cur(l) + 1..last(l)
    BY <2>1, <1>8
  <2>4. last(k) <= cur(k) + c[k] /\ last(k) \in Nat /\ last(l) \in Int
    <3>1. c[l] \in Nat
      BY <2>1, <1>2
    <3> QED
      BY <2>2, <3>1
  <2> HIDE DEF places, last
  <2> QED
    BY <2>2, <2>3, <2>4
<1>11. \A k, l \in DOMAIN rings : k < l /\ rings[k] = << >> => rings[l] = << >>
  BY <1>1, <1>2, <1>3, EmptyRingsAreLast
<1>12. \E m \in 0..n : /\ UNION {places(k) : k \in DOMAIN rings} = 1..m
                       /\ max = 0 => m = n
  <2> DEFINE e == cur(Len(c) + 1)
             m == IF e < n THEN e ELSE n
  <2>1. e \in Nat
    BY <1>2, <1>5
  <2>2. m \in 0..n /\ (max = 0 => m = n)
    BY <2>1, <1>2
  <2>3. ASSUME NEW k \in 1..Len(c), NEW p \in places(k) PROVE p \in 1..m
    <3>1. /\ cur(k) \in Nat /\ c[k] \in Nat /\ cur(k) + c[k] <= e
          /\ p \in cur(k) + 1..last(k)
      <4>1. k + 1 \in 1..Len(c) + 1 /\ k + 1 <= Len(c) + 1 /\ Len(c) + 1 \in 1..Len(c) + 1
            /\ k \in 1..Len(c) + 1 /\ k <= Len(c)
        BY <1>2
      <4> QED
        BY <4>1, <2>3, <1>2, <1>5, <1>6, <1>8
    <3> HIDE DEF e
    <3> QED
      BY <3>1, <2>1
  <2>4. ASSUME NEW p \in 1..m PROVE \E k \in 1..Len(c) : p \in places(k)
    <3> DEFINE beyond == {k \in 1..Len(c) + 1 : p <= cur(k)}
    <3>1. p \in Nat /\ 1 <= p /\ p <= n /\ p <= e
      BY <2>1
    <3>2. Len(c) + 1 \in beyond
      BY <3>1, <1>2
    <3>3. beyond \in SUBSET Nat
      BY <1>2
    <3>4. PICK k \in beyond : \A l \in beyond : k <= l
      BY <3>2, <3>3, LeastNumber
    <3>5. k # 1
      BY <3>1, <3>4, <1>5
    <3>6. k - 1 \in 1..Len(c) /\ k - 1 \in 1..Len(c) + 1 /\ (k - 1) + 1 = k /\ ~(k <= k - 1)
          /\ k - 1 <= Len(c)
      BY <3>4, <3>5, <1>2
    <3>7. k - 1 \notin beyond
      BY <3>4, <3>6
    <3>8. cur(k - 1) < p /\ p <= cur(k - 1) + c[k - 1] /\ cur(k - 1) \in Nat /\ c[k - 1] \in Nat
      <4>1. cur(k - 1) \in Nat /\ c[k - 1] \in Nat /\ cur(k) = cur(k - 1) + c[k - 1]
        BY <3>6, <1>2, <1>5
      <4>2. ~(p <= cur(k - 1)) /\ p <= cur(k)
        BY <3>4, <3>6, <3>7
      <4> QED
        BY <3>1, <4>1, <4>2
    <3>9. p \in cur(k - 1) + 1..last(k - 1)
      BY <3>1, <3>8
    <3> HIDE DEF places, last
    <3> QED
      BY <3>6, <3>9, <1>8
  <2>5. UNION {places(k) : k \in DOMAIN rings} = 1..m
    <3> HIDE DEF places, m
    <3> QED
      BY <2>3, <2>4, <1>4
  <2> QED
    BY <2>2, <2>5
<1> QED
  BY <1>9, <1>10, <1>11, <1>12 DEF Rollouts!RingsCover, rings

\* The rings of a fleet's members, of listed sizes or in equal chunks, cover them.
LEMMA FleetsCovered ==
    ASSUME Rollouts!ConstantsFit, Rollouts!FleetTypeOK PROVE Rollouts!FleetsAreCovered
<1> SUFFICES ASSUME NEW f \in Fleet,
                    NEW sizes \in RingSizes \cup {Rollouts!chunks(Rollouts!Cardinality(Rollouts!list_fleet_members(f)), k) :
                                 k \in 1..Rollouts!Cardinality(Rollouts!list_fleet_members(f)) + 1},
                    NEW max \in MaxRings
             PROVE  Rollouts!RingsCover(Rollouts!Cardinality(Rollouts!list_fleet_members(f)), sizes, max)
  BY DEF Rollouts!FleetsAreCovered
<1> DEFINE n == Rollouts!Cardinality(Rollouts!list_fleet_members(f))
<1>1. n \in Nat
  <2>1. Rollouts!list_fleet_members(f) \subseteq Member
    BY DEF Rollouts!list_fleet_members, Rollouts!Members
  <2>2. IsFiniteSet(Member)
    BY FleetCount DEF Rollouts!ConstantsFit
  <2> QED
    BY <2>1, <2>2, FleetCount, FS_Subset, FS_CardinalityType
<1> HIDE DEF n
<1>2. \A k \in 1..n + 1 : Rollouts!chunks(n, k) \in Seq(Nat \ {0})
  <2>1. \A k \in 1..n + 1 : k \in Nat \ {0}
    BY <1>1
  <2> QED
    BY <1>1, <2>1, ChunksArePositive
<1>3. sizes \in Seq(Nat \ {0}) /\ max \in Nat
  BY <1>2 DEF n, Rollouts!ConstantsFit
<1>4. Rollouts!RingsCover(n, sizes, max)
  BY <1>1, <1>3, RingsAlwaysCover
<1> QED
  BY <1>4 DEF n

-----------------------------------------------------------------------------
(* A result is noted *)

\* What a call is, whatever became of its rows: it is in one of its rings, only the last rings
\* are empty, its results follow its members, it has a member to go on with while it goes, and
\* only then a row; and what it reports as an error names no row.
CallInv(q) ==
    /\ q \in Rollouts!FleetCall
    /\ Len(q.results) \in 1..Len(q.rings)
    /\ \A k, l \in DOMAIN q.rings : k < l /\ q.rings[k] = << >> => q.rings[l] = << >>
    /\ Rollouts!ResultsFollow(q)
    /\ q.status = "going" => Len(Rollouts!Done(q)) < Len(q.rings[Rollouts!Ring(q)])
    /\ q.row # Rollouts!NoExecution => q.status = "going" /\ q.kind # "deploy"
    /\ \A k \in DOMAIN q.results : \A i \in DOMAIN q.results[k] :
         q.results[k][i].status = "error" => q.results[k][i].execution = Rollouts!NoExecution
    /\ q.stop /\ q.kind # "deploy" =>
         \A k \in DOMAIN q.results : Rollouts!HasError(q.results[k]) =>
             k = Rollouts!Ring(q) /\ q.status # "rolling_out"

\* The results of r are those of q and one more, which is the next of q's ring.
OneMore(q, r, result) ==
    /\ \A k \in DOMAIN q.results : \A i \in DOMAIN q.results[k] :
         k \in DOMAIN r.results /\ i \in DOMAIN r.results[k] /\ r.results[k][i] = q.results[k][i]
    /\ \A k \in DOMAIN r.results : \A i \in DOMAIN r.results[k] :
         \/ k \in DOMAIN q.results /\ i \in DOMAIN q.results[k] /\ r.results[k][i] = q.results[k][i]
         \/ k = Len(q.results) /\ i = Len(q.results[Len(q.results)]) + 1 /\ r.results[k][i] = result
    /\ LET k == Len(q.results)
           i == Len(q.results[k]) + 1
       IN  k \in DOMAIN r.results /\ i \in DOMAIN r.results[k] /\ r.results[k][i] = result

\* A result noted: the call is in the same ring or the next, or it has ended.
LEMMA AdvancedFollows ==
    ASSUME NEW q, CallInv(q), q.status = "going", NEW result \in Rollouts!Result,
           result.device = q.rings[Rollouts!Ring(q)][Len(Rollouts!Done(q)) + 1],
           result.status = "error" => result.execution = Rollouts!NoExecution
    PROVE  LET r == Rollouts!Advanced(q, result)
           IN  /\ CallInv(r) /\ OneMore(q, r, result)
               /\ r.kind = q.kind /\ r.row = Rollouts!NoExecution
<1> DEFINE n == Len(q.results)
           m == Len(q.results[n])
           rs == [q.results EXCEPT ![n] = Append(@, result)]
           noted == Rollouts!Noted(q, result)
           r == Rollouts!Advanced(q, result)
           With(res, st) == [kind |-> q.kind, plugin |-> q.plugin, stop |-> q.stop, rings |-> q.rings,
                             row |-> Rollouts!NoExecution, results |-> res, status |-> st]
<1>1. /\ q \in Rollouts!FleetCall
      /\ q.results \in Seq(Seq(Rollouts!Result)) /\ q.rings \in Seq(Seq(Member))
      /\ n \in Nat /\ n # 0 /\ n <= Len(q.rings) /\ Len(q.rings) \in Nat
      /\ DOMAIN q.results = 1..n /\ DOMAIN q.rings = 1..Len(q.rings)
  <2>1. q \in Rollouts!FleetCall /\ n \in 1..Len(q.rings)
    BY DEF CallInv
  <2>2. q.results \in Seq(Seq(Rollouts!Result)) /\ q.rings \in Seq(Seq(Member))
    BY <2>1 DEF Rollouts!FleetCall
  <2> QED
    BY <2>1, <2>2
<1>0. n \in Nat /\ n \in 1..n /\ n # 0 /\ n <= Len(q.rings) /\ Len(q.rings) \in Nat
  BY <1>1
<1>2. /\ \A k \in 1..n : q.results[k] \in Seq(Rollouts!Result)
      /\ \A k \in 1..Len(q.rings) : q.rings[k] \in Seq(Member)
  BY <1>1
<1>3. m \in Nat /\ q.results[n] \in Seq(Rollouts!Result)
  BY <1>1, <1>2
<1>4. /\ rs \in Seq(Seq(Rollouts!Result)) /\ Len(rs) = n /\ DOMAIN rs = 1..n
      /\ rs[n] = Append(q.results[n], result)
      /\ \A k \in 1..n : k # n => rs[k] = q.results[k]
  <2>1. Append(q.results[n], result) \in Seq(Rollouts!Result)
    BY <1>3
  <2> QED
    BY <2>1, <1>1
<1>5. /\ Len(rs[n]) = m + 1 /\ DOMAIN rs[n] = 1..m + 1
      /\ rs[n][m + 1] = result
      /\ \A i \in 1..m : rs[n][i] = q.results[n][i]
      /\ DOMAIN q.results[n] = 1..m
  <2>1. PICK s \in Seq(Rollouts!Result) : s = q.results[n]
    BY <1>3
  <2>2. rs[n] = Append(s, result) /\ m = Len(s)
    BY <2>1, <1>4
  <2> HIDE DEF rs
  <2> QED
    BY <2>1, <2>2
<1>6. noted = With(rs, "going")
  <2>1. q = [kind |-> q.kind, plugin |-> q.plugin, stop |-> q.stop, rings |-> q.rings,
             row |-> q.row, results |-> q.results, status |-> "going"]
    BY <1>1 DEF Rollouts!FleetCall
  <2>2. noted = [q EXCEPT !.results = rs, !.row = Rollouts!NoExecution]
    BY DEF Rollouts!Noted, Rollouts!Ring
  <2> HIDE DEF rs, noted
  <2> QED
    BY <2>1, <2>2
<1>7. /\ m < Len(q.rings[n])
      /\ result.device = q.rings[n][m + 1]
  BY DEF CallInv, Rollouts!Ring, Rollouts!Done
<1>8. r = IF m + 1 < Len(q.rings[n]) THEN With(rs, "going")
          ELSE IF q.stop /\ Rollouts!HasError(rs[n]) THEN With(rs, "stopped_on_failure")
          ELSE IF Rollouts!NothingLeft(q) THEN With(rs, "rolling_out")
          ELSE With(Append(rs, << >>), "going")
  <2>1. noted.results = rs /\ Rollouts!Done(noted) = rs[n]
    <3>1. noted.results = rs
      BY <1>6
    <3> HIDE DEF noted, rs
    <3> QED
      BY <3>1, <1>4 DEF Rollouts!Done, Rollouts!Ring
  <2>2. r = IF m + 1 < Len(q.rings[n]) THEN noted
          ELSE IF q.stop /\ Rollouts!HasError(rs[n]) THEN [noted EXCEPT !.status = "stopped_on_failure"]
          ELSE IF Rollouts!NothingLeft(q) THEN [noted EXCEPT !.status = "rolling_out"]
          ELSE [noted EXCEPT !.results = Append(@, << >>)]
    <3> HIDE DEF rs
    <3> QED
      BY <2>1, <1>5 DEF Rollouts!Advanced, Rollouts!Ring
  <2> HIDE DEF rs, noted, r
  <2>3. /\ [noted EXCEPT !.status = "stopped_on_failure"] = With(rs, "stopped_on_failure")
        /\ [noted EXCEPT !.status = "rolling_out"] = With(rs, "rolling_out")
    BY <1>6
  <2>4. [noted EXCEPT !.results = Append(@, << >>)] = With(Append(rs, << >>), "going")
    <3>1. PICK next : next = Append(rs, << >>)
      OBVIOUS
    <3>2. [noted EXCEPT !.results = next] = With(next, "going")
      BY <1>6
    <3> QED
      BY <2>1, <3>1, <3>2
  <2> QED
    BY <2>2, <2>3, <2>4, <1>6
<1>9. /\ Append(rs, << >>) \in Seq(Seq(Rollouts!Result)) /\ Len(Append(rs, << >>)) = n + 1
      /\ DOMAIN Append(rs, << >>) = 1..n + 1
      /\ \A k \in 1..n : Append(rs, << >>)[k] = rs[k]
      /\ Append(rs, << >>)[n + 1] = << >>
  <2> HIDE DEF rs
  <2>1. PICK T : T = Seq(Rollouts!Result)
    OBVIOUS
  <2>2. rs \in Seq(T) /\ << >> \in T /\ Len(rs) = n
    BY <2>1, <1>4
  <2>3. /\ Append(rs, << >>) \in Seq(T) /\ Len(Append(rs, << >>)) = n + 1
        /\ \A k \in 1..n : Append(rs, << >>)[k] = rs[k]
        /\ Append(rs, << >>)[n + 1] = << >>
    BY <2>2
  <2>4. DOMAIN Append(rs, << >>) = 1..n + 1
    BY <2>3
  <2> QED
    BY <2>1, <2>3, <2>4
<1> HIDE DEF rs, r
\* What is left to show of either list of results.
<1>10. \A res : /\ res \in Seq(Seq(Rollouts!Result))
                /\ \A k \in 1..n : k \in DOMAIN res /\ res[k] = rs[k]
                /\ \A k \in DOMAIN res : k \in 1..n \/ res[k] = << >>
                => \A st : OneMore(q, With(res, st), result)
  <2> SUFFICES ASSUME NEW res, NEW st, res \in Seq(Seq(Rollouts!Result)),
                      \A k \in 1..n : k \in DOMAIN res /\ res[k] = rs[k],
                      \A k \in DOMAIN res : k \in 1..n \/ res[k] = << >>
               PROVE  OneMore(q, With(res, st), result)
    BY Zenon
  <2>1. ASSUME NEW k \in 1..n, NEW i \in DOMAIN q.results[k]
        PROVE  k \in DOMAIN res /\ i \in DOMAIN res[k] /\ res[k][i] = q.results[k][i]
    <3>1. CASE k = n
      BY <3>1, <2>1, <1>3, <1>5
    <3>2. CASE k # n
      BY <3>2, <2>1, <1>4
    <3> QED
      BY <3>1, <3>2
  <2>2. ASSUME NEW k \in DOMAIN res, NEW i \in DOMAIN res[k]
        PROVE  \/ k \in 1..n /\ i \in DOMAIN q.results[k] /\ res[k][i] = q.results[k][i]
               \/ k = n /\ i = m + 1 /\ res[k][i] = result
    <3>1. k \in 1..n
      BY <2>2
    <3>2. CASE k = n
      <4>1. i \in 1..m + 1 /\ res[k][i] = rs[n][i]
        BY <3>1, <3>2, <2>2, <1>5
      <4>2. i \in 1..m \/ i = m + 1
        BY <4>1, <1>3
      <4> QED
        BY <4>1, <4>2, <3>1, <3>2, <1>5
    <3>3. CASE k # n
      BY <3>1, <3>3, <2>2, <1>4
    <3> QED
      BY <3>2, <3>3
  <2>3. n \in DOMAIN res /\ m + 1 \in DOMAIN res[n] /\ res[n][m + 1] = result
    <3>1. m + 1 \in 1..m + 1
      BY <1>3
    <3> QED
      BY <3>1, <1>0, <1>5
  <2>4. With(res, st).results = res
    OBVIOUS
  <2>5. PICK x : x = With(res, st) /\ x.results = res
    BY <2>4
  <2>6. \A k \in DOMAIN q.results : \A i \in DOMAIN q.results[k] :
          k \in DOMAIN x.results /\ i \in DOMAIN x.results[k] /\ x.results[k][i] = q.results[k][i]
    BY <2>1, <2>5, <1>1
  <2>7. \A k \in DOMAIN x.results : \A i \in DOMAIN x.results[k] :
          \/ k \in DOMAIN q.results /\ i \in DOMAIN q.results[k] /\ x.results[k][i] = q.results[k][i]
          \/ k = n /\ i = m + 1 /\ x.results[k][i] = result
    BY <2>2, <2>5, <1>1
  <2>8. n \in DOMAIN x.results /\ m + 1 \in DOMAIN x.results[n] /\ x.results[n][m + 1] = result
    BY <2>3, <2>5
  <2> HIDE DEF With
  <2>9. OneMore(q, x, result)
    BY <2>6, <2>7, <2>8, Zenon DEF OneMore
  <2> QED
    BY <2>9, <2>5, Zenon
<1>11. OneMore(q, r, result) /\ r.kind = q.kind /\ r.row = Rollouts!NoExecution
  <2>1. \A st : OneMore(q, With(rs, st), result) /\ OneMore(q, With(Append(rs, << >>), st), result)
    <3>1. \A k \in 1..n + 1 : k \in 1..n \/ k = n + 1
      BY <1>1
    <3>2. \A k \in 1..n : k \in 1..n + 1
      BY <1>1
    <3> HIDE DEF With
    <3> QED
      BY <3>1, <3>2, <1>4, <1>9, <1>10
  <2> QED
    BY <2>1, <1>8
\* The results with the new one still follow the members, and name rows only if they are not errors.
<1>12. /\ \A k \in 1..n : Len(rs[k]) \in Nat /\ Len(rs[k]) <= Len(q.rings[k]) /\ Len(q.rings[k]) \in Nat
       /\ \A k \in 1..n : k < n => Len(rs[k]) = Len(q.rings[k])
       /\ \A k \in 1..n : \A i \in DOMAIN rs[k] :
            /\ rs[k][i].device = q.rings[k][i]
            /\ rs[k][i].status = "error" => rs[k][i].execution = Rollouts!NoExecution
       /\ q.stop /\ q.kind # "deploy" => \A k \in 1..n : Rollouts!HasError(rs[k]) => k = n
  <2>1. /\ \A k \in 1..n : /\ Len(q.results[k]) <= Len(q.rings[k])
                           /\ \A i \in DOMAIN q.results[k] : q.results[k][i].device = q.rings[k][i]
                           /\ k < n => Len(q.results[k]) = Len(q.rings[k])
        /\ \A k \in 1..n : \A i \in DOMAIN q.results[k] :
             q.results[k][i].status = "error" => q.results[k][i].execution = Rollouts!NoExecution
        /\ q.stop /\ q.kind # "deploy" => \A k \in 1..n : Rollouts!HasError(q.results[k]) => k = n
    BY <1>1 DEF CallInv, Rollouts!ResultsFollow, Rollouts!Ring
  <2>2. \A k \in 1..n : Len(q.rings[k]) \in Nat /\ Len(q.results[k]) \in Nat
    <3> TAKE k \in 1..n
    <3>1. q.rings[k] \in Seq(Member) /\ q.results[k] \in Seq(Rollouts!Result)
      BY <1>0, <1>2
    <3> QED
      BY <3>1
  <2>3. n \in 1..n
    BY <1>0
  <2>4. ASSUME NEW k \in 1..n, NEW i \in DOMAIN rs[k]
        PROVE  /\ rs[k][i].device = q.rings[k][i]
               /\ rs[k][i].status = "error" => rs[k][i].execution = Rollouts!NoExecution
    <3>1. CASE k = n
      <4>1. i \in 1..m \/ i = m + 1
        BY <3>1, <2>4, <1>3, <1>5
      <4>2. CASE i \in 1..m
        BY <4>2, <3>1, <2>1, <2>3, <1>5
      <4>3. CASE i = m + 1
        BY <4>3, <3>1, <1>5, <1>7
      <4> QED
        BY <4>1, <4>2, <4>3
    <3>2. CASE k # n
      BY <3>2, <2>1, <2>4, <1>4
    <3> QED
      BY <3>1, <3>2
  <2>5. ASSUME NEW k \in 1..n
        PROVE  /\ Len(rs[k]) \in Nat /\ Len(rs[k]) <= Len(q.rings[k]) /\ Len(q.rings[k]) \in Nat
               /\ k < n => Len(rs[k]) = Len(q.rings[k])
    <3>1. CASE k = n
      <4>1. Len(rs[n]) = m + 1 /\ m < Len(q.rings[n]) /\ Len(q.rings[n]) \in Nat
        BY <2>2, <2>3, <1>5, <1>7
      <4> QED
        BY <3>1, <4>1, <1>0, <1>3
    <3>2. CASE k # n
      BY <3>2, <2>1, <2>2, <1>4
    <3> QED
      BY <3>1, <3>2
  <2>6. q.stop /\ q.kind # "deploy" => \A k \in 1..n : Rollouts!HasError(rs[k]) => k = n
    BY <2>1, <1>4
  <2> QED
    BY <2>4, <2>5, <2>6
<1>13. \A k, l \in DOMAIN q.rings : k < l /\ q.rings[k] = << >> => q.rings[l] = << >>
  BY DEF CallInv
\* A call with these results is one of the invariant, if its status agrees with them.
<1>14. ASSUME NEW st \in {"going", "rolling_out", "stopped_on_failure"},
              st = "going" => m + 1 < Len(q.rings[n]),
              st = "rolling_out" => /\ Rollouts!NothingLeft(q) /\ ~(m + 1 < Len(q.rings[n]))
                                    /\ ~(q.stop /\ Rollouts!HasError(rs[n]))
       PROVE  CallInv(With(rs, st))
  <2> DEFINE w == With(rs, st)
  <2>1. w \in Rollouts!FleetCall
    BY <1>1, <1>4 DEF Rollouts!FleetCall, Rollouts!NoExecution
  <2>2. /\ w.kind = q.kind /\ w.stop = q.stop /\ w.rings = q.rings /\ w.row = Rollouts!NoExecution
        /\ w.results = rs /\ w.status = st
    OBVIOUS
  <2> HIDE DEF w, With
  <2>3. Rollouts!Ring(w) = n /\ Rollouts!Done(w) = rs[n]
    BY <2>2, <1>4 DEF Rollouts!Ring, Rollouts!Done
  <2>4. Rollouts!ResultsFollow(w)
    <3>1. ASSUME st = "rolling_out", NEW k \in DOMAIN q.rings, NEW i \in DOMAIN q.rings[k]
          PROVE  k \in 1..n /\ i \in DOMAIN rs[k]
      <4>1. k \in 1..Len(q.rings) /\ q.rings[k] \in Seq(Member)
        BY <1>1, <1>2
      <4>2. q.rings[k] # << >>
        BY <3>1, <4>1
      <4>3. k \in 1..n
        BY <1>14, <3>1, <4>1, <4>2, <1>1 DEF Rollouts!NothingLeft, Rollouts!Ring
      <4>4. rs[k] \in Seq(Rollouts!Result) /\ DOMAIN rs[k] = 1..Len(rs[k]) /\ DOMAIN q.rings[k] = 1..Len(q.rings[k])
        BY <4>1, <4>3, <1>4
      <4>5. Len(rs[k]) = Len(q.rings[k])
        <5>1. CASE k = n
          BY <5>1, <4>3, <3>1, <1>14, <1>12, <1>5, <1>3
        <5>2. CASE k # n
          BY <5>2, <4>3, <1>12, <1>1
        <5> QED
          BY <5>1, <5>2
      <4> QED
        BY <4>3, <4>4, <4>5, <3>1
    <3> QED
      BY <3>1, <2>2, <2>3, <1>4, <1>12 DEF Rollouts!ResultsFollow
  <2>5. w.status = "going" => Len(Rollouts!Done(w)) < Len(w.rings[Rollouts!Ring(w)])
    BY <2>2, <2>3, <1>5, <1>14
  <2>6. w.stop /\ w.kind # "deploy" =>
          \A k \in DOMAIN w.results : Rollouts!HasError(w.results[k]) =>
             k = Rollouts!Ring(w) /\ w.status # "rolling_out"
    BY <2>2, <2>3, <1>4, <1>12, <1>14
  <2>7. Len(w.results) \in 1..Len(w.rings)
    BY <2>2, <1>1, <1>4
  <2>8. /\ \A k \in DOMAIN w.results : \A i \in DOMAIN w.results[k] :
             w.results[k][i].status = "error" => w.results[k][i].execution = Rollouts!NoExecution
        /\ \A k, l \in DOMAIN w.rings : k < l /\ w.rings[k] = << >> => w.rings[l] = << >>
        /\ w.row = Rollouts!NoExecution
    BY <2>2, <1>4, <1>12, <1>13
  <2> QED
    BY <2>1, <2>4, <2>5, <2>6, <2>7, <2>8 DEF CallInv, w
<1>15. ASSUME ~(m + 1 < Len(q.rings[n])), ~(q.stop /\ Rollouts!HasError(rs[n])), ~Rollouts!NothingLeft(q)
       PROVE  CallInv(With(Append(rs, << >>), "going"))
  <2> DEFINE res == Append(rs, << >>)
             w == With(res, "going")
  <2> HIDE DEF res
  <2>0. /\ res \in Seq(Seq(Rollouts!Result)) /\ Len(res) = n + 1 /\ DOMAIN res = 1..n + 1
        /\ \A k \in 1..n : res[k] = rs[k]
        /\ res[n + 1] = << >>
    BY <1>9 DEF res
  <2>1. w \in Rollouts!FleetCall
    BY <1>1, <2>0 DEF Rollouts!FleetCall, Rollouts!NoExecution
  <2>2. /\ w.kind = q.kind /\ w.stop = q.stop /\ w.rings = q.rings /\ w.row = Rollouts!NoExecution
        /\ w.results = res /\ w.status = "going"
    OBVIOUS
  <2> HIDE DEF w, With
  <2>3. Rollouts!Ring(w) = n + 1 /\ Rollouts!Done(w) = << >>
    BY <2>0, <2>2 DEF Rollouts!Ring, Rollouts!Done
  <2>4. n + 1 \in 1..Len(q.rings) /\ q.rings[n + 1] # << >>
    <3>1. PICK k \in 1..Len(q.rings) : k > n /\ q.rings[k] # << >>
      BY <1>15, <1>1 DEF Rollouts!NothingLeft, Rollouts!Ring
    <3>2. n + 1 \in 1..Len(q.rings) /\ (n + 1 = k \/ n + 1 < k)
      BY <3>1, <1>0
    <3> QED
      BY <3>1, <3>2, <1>1, <1>13
  <2>5. Len(q.rings[n + 1]) \in Nat /\ 0 < Len(q.rings[n + 1])
    <3>1. q.rings[n + 1] \in Seq(Member)
      BY <2>4, <1>2
    <3> QED
      BY <3>1, <2>4
  <2>6. Len(rs[n]) = Len(q.rings[n])
    BY <1>1, <1>3, <1>5, <1>7, <1>12, <1>15
  <2>7. ASSUME NEW k \in 1..n + 1
        PROVE  /\ Len(res[k]) <= Len(q.rings[k])
               /\ k < n + 1 => Len(res[k]) = Len(q.rings[k])
               /\ \A i \in DOMAIN res[k] :
                    /\ res[k][i].device = q.rings[k][i]
                    /\ res[k][i].status = "error" => res[k][i].execution = Rollouts!NoExecution
               /\ q.stop /\ q.kind # "deploy" => ~Rollouts!HasError(res[k])
    <3>1. CASE k = n + 1
      <4>1. res[k] = << >>
        BY <3>1, <2>0
      <4> QED
        BY <4>1, <3>1, <2>5, <1>1 DEF Rollouts!HasError
    <3>2. CASE k # n + 1
      <4>1. k \in 1..n /\ res[k] = rs[k] /\ (k < n \/ k = n)
        <5>1. k \in 1..n /\ (k < n \/ k = n)
          BY <3>2, <1>0
        <5> QED
          BY <5>1, <2>0
      <4> QED
        BY <4>1, <2>6, <1>1, <1>12, <1>15
    <3> QED
      BY <3>1, <3>2
  <2>8. Rollouts!ResultsFollow(w)
    <3>1. ASSUME NEW k \in DOMAIN w.results
          PROVE  /\ Len(w.results[k]) <= Len(w.rings[k])
                 /\ \A i \in DOMAIN w.results[k] : w.results[k][i].device = w.rings[k][i]
                 /\ k < Rollouts!Ring(w) => Len(w.results[k]) = Len(w.rings[k])
      <4>1. k \in 1..n + 1 /\ w.results[k] = res[k] /\ w.rings[k] = q.rings[k]
        BY <3>1, <2>0, <2>2
      <4> QED
        BY <4>1, <2>7, <2>3
    <3>2. w.status # "rolling_out"
      BY <2>2
    <3> QED
      BY <3>1, <3>2 DEF Rollouts!ResultsFollow
  <2>9. Len(Rollouts!Done(w)) < Len(w.rings[Rollouts!Ring(w)])
    BY <2>2, <2>3, <2>5
  <2>10. Len(w.results) \in 1..Len(w.rings)
    BY <2>0, <2>2, <2>4
  <2>11. /\ \A k \in DOMAIN w.results : \A i \in DOMAIN w.results[k] :
              w.results[k][i].status = "error" => w.results[k][i].execution = Rollouts!NoExecution
         /\ w.stop /\ w.kind # "deploy" => \A k \in DOMAIN w.results : ~Rollouts!HasError(w.results[k])
    BY <2>0, <2>2, <2>7
  <2>12. /\ \A k, l \in DOMAIN w.rings : k < l /\ w.rings[k] = << >> => w.rings[l] = << >>
         /\ w.row = Rollouts!NoExecution
    BY <2>2, <1>13
  <2>13. w = With(Append(rs, << >>), "going")
    BY DEF w, res
  <2>14. CallInv(w)
    BY <2>1, <2>8, <2>9, <2>10, <2>11, <2>12 DEF CallInv
  <2> QED
    BY <2>13, <2>14
<1>16. CallInv(r)
  <2> HIDE DEF With
  <2>1. CASE m + 1 < Len(q.rings[n])
    BY <2>1, <1>8, <1>14
  <2>2. CASE ~(m + 1 < Len(q.rings[n])) /\ q.stop /\ Rollouts!HasError(rs[n])
    BY <2>2, <1>8, <1>14
  <2>3. CASE ~(m + 1 < Len(q.rings[n])) /\ ~(q.stop /\ Rollouts!HasError(rs[n])) /\ Rollouts!NothingLeft(q)
    BY <2>3, <1>8, <1>14
  <2>4. CASE ~(m + 1 < Len(q.rings[n])) /\ ~(q.stop /\ Rollouts!HasError(rs[n])) /\ ~Rollouts!NothingLeft(q)
    BY <2>4, <1>8, <1>15
  <2> QED
    BY <2>1, <2>2, <2>3, <2>4
<1> QED
  BY <1>11, <1>16 DEF r

-----------------------------------------------------------------------------
(* Fleets, reports and drift *)

\* A report is of members it read, and what it heard of them are statuses.
ReportsAreHeard ==
    /\ health = [f \in Fleet |-> health[f]]
    /\ \A f \in Fleet :
         /\ health[f] = [open |-> health[f].open, ids |-> health[f].ids, heard |-> health[f].heard]
         /\ \A d \in DOMAIN health[f].heard :
              health[f].heard[d] \in Rollouts!DeviceStatus \cup {"unknown"}

\* What the fleets' invariant adds to their types.
FleetInv == Rollouts!FleetTypeOK /\ ReportsAreHeard

\* A report of members, with statuses heard of some of them, keeps the invariant.
LEMMA ReportKept ==
    ASSUME FleetInv, NEW f \in Fleet, NEW ids \in SUBSET Member, NEW heard, NEW open,
           DOMAIN heard \subseteq ids,
           \A d \in DOMAIN heard : heard[d] \in Rollouts!DeviceStatus \cup {"unknown"},
           health' = [health EXCEPT ![f] = [open |-> open, ids |-> ids, heard |-> heard]],
           UNCHANGED <<fleet, member, status>>
    PROVE  FleetInv'
<1> DEFINE new == [open |-> open, ids |-> ids, heard |-> heard]
<1>1. /\ \A g \in Fleet : health'[g] = IF g = f THEN new ELSE health[g]
      /\ health' = [g \in Fleet |-> health'[g]]
  BY DEF FleetInv, ReportsAreHeard
<1>2. new.open = open /\ new.ids = ids /\ new.heard = heard
  OBVIOUS
<1> HIDE DEF new
<1>3. ReportsAreHeard'
  <2>1. new = [open |-> new.open, ids |-> new.ids, heard |-> new.heard]
    BY <1>2 DEF new
  <2> QED
    BY <1>1, <1>2, <2>1 DEF FleetInv, ReportsAreHeard, Rollouts!DeviceStatus
<1>4. Rollouts!FleetTypeOK'
  BY <1>1, <1>2 DEF FleetInv, Rollouts!FleetTypeOK, Rollouts!DeviceStatus
<1> QED
  BY <1>3, <1>4 DEF FleetInv

\* Every step of fleets, members, reports and devices keeps it.
LEMMA FleetStep ==
    ASSUME FleetInv, Rollouts!FleetChanges \/ Rollouts!FleetReports
    PROVE  FleetInv'
<1>1. ASSUME UNCHANGED health, (fleet \in [Fleet -> {Missing, "active", Deleted}])',
             (member \subseteq Fleet \X Member)', (status \in [Member -> Rollouts!DeviceStatus])'
      PROVE  FleetInv'
  BY <1>1 DEF FleetInv, ReportsAreHeard, Rollouts!FleetTypeOK, Rollouts!DeviceStatus
<1>2. ASSUME NEW f \in Fleet, Rollouts!create_fleet(f) \/ Rollouts!delete_fleet(f)
      PROVE  FleetInv'
  BY <1>1, <1>2 DEF FleetInv, Rollouts!FleetTypeOK, Rollouts!DeviceStatus,
                    Rollouts!create_fleet, Rollouts!delete_fleet
<1>3. ASSUME NEW f \in Fleet, NEW d \in Member,
             Rollouts!add_fleet_member(f, d) \/ Rollouts!remove_fleet_member(f, d)
      PROVE  FleetInv'
  BY <1>1, <1>3 DEF FleetInv, Rollouts!FleetTypeOK, Rollouts!DeviceStatus,
                    Rollouts!add_fleet_member, Rollouts!remove_fleet_member
<1>4. ASSUME NEW f \in Fleet, Rollouts!fleet_health(f)
      PROVE  FleetInv'
  <2> DEFINE none == [d \in {} |-> "unknown"]
             ids == Rollouts!Members(f)
  <2>1. health' = [health EXCEPT ![f] = [open |-> TRUE, ids |-> ids, heard |-> none]]
    <3>1. Rollouts!NoReport = [open |-> FALSE, ids |-> {}, heard |-> none]
      BY DEF Rollouts!NoReport
    <3>2. health' = [health EXCEPT ![f] = [Rollouts!NoReport EXCEPT !.open = TRUE, !.ids = ids]]
      BY <1>4 DEF Rollouts!fleet_health
    <3> HIDE DEF none, ids
    <3>3. PICK yes, mid : yes = TRUE /\ mid = [Rollouts!NoReport EXCEPT !.open = yes]
      OBVIOUS
    <3>4. mid = [open |-> yes, ids |-> {}, heard |-> none]
      BY <3>1, <3>3
    <3>5. PICK is : is = ids
      OBVIOUS
    <3>6. [mid EXCEPT !.ids = is] = [open |-> yes, ids |-> is, heard |-> none]
      BY <3>4
    <3>7. [Rollouts!NoReport EXCEPT !.open = TRUE, !.ids = ids] = [mid EXCEPT !.ids = is]
      BY <3>3, <3>5
    <3> QED
      BY <3>2, <3>3, <3>5, <3>6, <3>7
  <2>2. DOMAIN none = {} /\ ids \in SUBSET Member /\ UNCHANGED <<fleet, member, status>>
    BY <1>4 DEF Rollouts!fleet_health, Rollouts!Members
  <2> HIDE DEF none, ids
  <2> QED
    BY <2>1, <2>2, ReportKept
<1>5. ASSUME NEW f \in Fleet, NEW d \in Member, Rollouts!_fetch_device(f, d)
      PROVE  FleetInv'
  <2> DEFINE old == health[f]
  <2>1. PICK s \in {status[d], "unknown"} :
          health' = [health EXCEPT ![f].heard =
                       [i \in DOMAIN @ \cup {d} |-> IF i = d THEN s ELSE @[i]]]
    BY <1>5 DEF Rollouts!_fetch_device
  <2> DEFINE heard == [i \in DOMAIN old.heard \cup {d} |-> IF i = d THEN s ELSE old.heard[i]]
  <2>2. /\ old = [open |-> old.open, ids |-> old.ids, heard |-> old.heard]
        /\ old.ids \in SUBSET Member /\ DOMAIN old.heard \subseteq old.ids /\ d \in old.ids
        /\ \A i \in DOMAIN old.heard : old.heard[i] \in Rollouts!DeviceStatus \cup {"unknown"}
        /\ s \in Rollouts!DeviceStatus \cup {"unknown"}
        /\ UNCHANGED <<fleet, member, status>>
    BY <1>5, <2>1 DEF FleetInv, ReportsAreHeard, Rollouts!FleetTypeOK, Rollouts!_fetch_device,
                      Rollouts!Unheard
  <2>3. health' = [health EXCEPT ![f] = [old EXCEPT !.heard = heard]]
    BY <2>1
  <2>4. /\ DOMAIN heard \subseteq old.ids
        /\ \A i \in DOMAIN heard : heard[i] \in Rollouts!DeviceStatus \cup {"unknown"}
    BY <2>2
  <2> HIDE DEF heard, old
  <2>5. [old EXCEPT !.heard = heard] = [open |-> old.open, ids |-> old.ids, heard |-> heard]
    BY <2>2
  <2>6. PICK open : open = old.open
    OBVIOUS
  <2>8. PICK ids \in SUBSET Member : ids = old.ids
    BY <2>2
  <2>7. health' = [health EXCEPT ![f] = [open |-> open, ids |-> ids, heard |-> heard]]
    BY <2>3, <2>5, <2>6, <2>8
  <2>9. PICK told : told = heard
    OBVIOUS
  <2>10. /\ DOMAIN told \subseteq ids
         /\ \A i \in DOMAIN told : told[i] \in Rollouts!DeviceStatus \cup {"unknown"}
         /\ health' = [health EXCEPT ![f] = [open |-> open, ids |-> ids, heard |-> told]]
    BY <2>4, <2>7, <2>8, <2>9
  <2>11. UNCHANGED <<fleet, member, status>>
    BY <2>2
  <2> QED
    BY <2>10, <2>11, ReportKept, Zenon
<1>6. ASSUME NEW f \in Fleet, Rollouts!fleet_health_answered(f)
      PROVE  FleetInv'
  <2> DEFINE none == [d \in {} |-> "unknown"]
  <2>1. health' = [health EXCEPT ![f] = [open |-> FALSE, ids |-> {}, heard |-> none]]
    BY <1>6 DEF Rollouts!fleet_health_answered, Rollouts!NoReport
  <2>2. DOMAIN none = {} /\ UNCHANGED <<fleet, member, status>>
    BY <1>6 DEF Rollouts!fleet_health_answered
  <2>3. {} \in SUBSET Member
    OBVIOUS
  <2> HIDE DEF none
  <2> QED
    BY <2>1, <2>2, <2>3, ReportKept
<1>7. ASSUME NEW d \in Member, Rollouts!status_changes(d)
      PROVE  FleetInv'
  BY <1>1, <1>7 DEF FleetInv, Rollouts!FleetTypeOK, Rollouts!DeviceStatus, Rollouts!status_changes
<1> QED
  BY <1>2, <1>3, <1>4, <1>5, <1>6, <1>7 DEF Rollouts!FleetChanges, Rollouts!FleetReports

\* A device lists the fleets that list it: both ask the same rows.
LEMMA SidesFollow == Rollouts!SidesAgree
BY DEF Rollouts!SidesAgree, Rollouts!list_device_fleets, Rollouts!list_fleet_members, Rollouts!Members

\* A report's counts are of the devices it heard: each is of one status.
LEMMA HealthFollows == ASSUME Rollouts!ConstantsFit, FleetInv PROVE Rollouts!HealthAdds
<1> SUFFICES ASSUME NEW f \in Fleet
             PROVE  LET s == Rollouts!summary(health[f].heard)
                    IN  /\ s.online + s.offline + s.unknown = s.total
                        /\ Rollouts!Unheard(f) = {} => s.total = Rollouts!Cardinality(health[f].ids)
  BY DEF Rollouts!HealthAdds
<1> DEFINE heard == health[f].heard
           D == DOMAIN heard
           of(S) == {d \in D : heard[d] \in S}
           all == Rollouts!DeviceStatus \cup {"unknown"}
           s == Rollouts!summary(heard)
<1>1. D \subseteq health[f].ids /\ health[f].ids \subseteq Member /\ \A d \in D : heard[d] \in all
  BY DEF FleetInv, ReportsAreHeard, Rollouts!FleetTypeOK
<1>2. IsFiniteSet(D)
  <2>1. IsFiniteSet(Member)
    BY FleetCount DEF Rollouts!ConstantsFit
  <2> HIDE DEF D
  <2> QED
    BY <1>1, <2>1, FS_Subset
<1>3. \A S : IsFiniteSet(of(S)) /\ Cardinality(of(S)) \in Nat
  <2> TAKE S
  <2>1. of(S) \subseteq D
    OBVIOUS
  <2> HIDE DEF of, D
  <2> QED
    BY <1>2, <2>1, FS_Subset, FS_CardinalityType
<1>4. of({"online", "offline"}) = of({"online"}) \cup of({"offline"}) /\ of({"online"}) \cap of({"offline"}) = {}
  OBVIOUS
<1>5. of(all) = D
  BY <1>1
<1>6. s = [online |-> Cardinality(of({"online"})), offline |-> Cardinality(of({"offline"})),
           unknown |-> Cardinality(of(all)) - Cardinality(of({"online", "offline"})),
           total |-> Cardinality(D)]
  BY FleetCount DEF Rollouts!summary
<1> HIDE DEF of, D, all, s
<1>7. Cardinality(of({"online", "offline"})) = Cardinality(of({"online"})) + Cardinality(of({"offline"}))
  <2>1. Cardinality(of({"online"}) \cup of({"offline"})) =
          Cardinality(of({"online"})) + Cardinality(of({"offline"})) - Cardinality(of({"online"}) \cap of({"offline"}))
    BY <1>3, FS_Union
  <2>2. Cardinality(of({"online"}) \cap of({"offline"})) = 0
    BY <1>4, FS_EmptySet
  <2>3. Cardinality(of({"online"})) \in Nat /\ Cardinality(of({"offline"})) \in Nat
    BY <1>3
  <2>4. Cardinality(of({"online", "offline"})) = Cardinality(of({"online"}) \cup of({"offline"}))
    BY <1>4
  <2> QED
    BY <2>1, <2>2, <2>3, <2>4
<1>8. s.online + s.offline + s.unknown = s.total
  <2>1. Cardinality(D) \in Nat
    BY <1>2, FS_CardinalityType
  <2> QED
    BY <2>1, <1>3, <1>5, <1>6, <1>7
<1>9. Rollouts!Unheard(f) = {} => s.total = Rollouts!Cardinality(health[f].ids)
  <2> SUFFICES ASSUME Rollouts!Unheard(f) = {} PROVE D = health[f].ids
    BY <1>6, FleetCount
  <2> QED
    BY <1>1 DEF Rollouts!Unheard, D
<1> QED
  BY <1>8, <1>9 DEF s

\* What drift reports of a device follows its rows.
LEMMA DriftFollows ==
    ASSUME Rollouts!ConstantsFit, Rollouts!TypeOK PROVE Rollouts!DriftIsTrue
<1> SUFFICES ASSUME NEW d \in Member
             PROVE  LET score == Rollouts!drift_score(d)
                    IN  /\ score \in 0..100
                        /\ (\E p \in Plugin : "missing" \in Rollouts!issues(d, p)) => score >= 60
                        /\ score = 0 =>
                             \A p \in Plugin : /\ \E e \in Rollouts!Installs(d, p) : row[e].status = "succeeded"
                                               /\ \E e \in Rollouts!Installs(d, p) : ~row[e].old
                        /\ \A p \in Plugin : "failed" \in Rollouts!issues(d, p) =>
                             \A e \in Rollouts!Installs(d, p) : row[e].status # "succeeded"
  BY DEF Rollouts!DriftIsTrue
<1> DEFINE of(i) == {p \in Plugin : i \in Rollouts!issues(d, p)}
           count(i) == Cardinality(of(i))
           sum == 60 * count("missing") + 25 * count("stale") + 20 * count("failed")
           score == Rollouts!drift_score(d)
<1>1. \A i : IsFiniteSet(of(i)) /\ count(i) \in Nat /\ (of(i) # {} => count(i) # 0)
  <2> TAKE i
  <2>1. of(i) \subseteq Plugin /\ IsFiniteSet(Plugin)
    BY FleetCount DEF Rollouts!ConstantsFit
  <2> HIDE DEF of
  <2> QED
    BY <2>1, FS_Subset, FS_CardinalityType, FS_EmptySet
<1>2. score = IF sum < 100 THEN sum ELSE 100
  BY FleetCount DEF Rollouts!drift_score
<1>3. /\ score \in 0..100
      /\ of("missing") # {} => score >= 60
      /\ score = 0 => of("missing") = {} /\ of("stale") = {}
  <2> HIDE DEF of, score, count
  <2>1. count("missing") \in Nat /\ count("stale") \in Nat /\ count("failed") \in Nat
    BY <1>1
  <2>2. /\ of("missing") # {} => count("missing") # 0
        /\ of("stale") # {} => count("stale") # 0
    BY <1>1
  <2>3. PICK a \in Nat, b \in Nat, c \in Nat : a = count("missing") /\ b = count("stale") /\ c = count("failed")
    BY <2>1
  <2>4. score = IF 60 * a + 25 * b + 20 * c < 100 THEN 60 * a + 25 * b + 20 * c ELSE 100
    BY <1>2, <2>3
  <2>5. score \in 0..100 /\ (a # 0 => score >= 60) /\ (score = 0 => a = 0 /\ b = 0)
    BY <2>4
  <2> QED
    BY <2>2, <2>3, <2>5
<1>4. ASSUME NEW p \in Plugin
      PROVE  LET S == Rollouts!Installs(d, p)
             IN  /\ S # {} => Rollouts!Latest(S) \in S
                 /\ S \subseteq Rollouts!Execution
  <2> DEFINE S == Rollouts!Installs(d, p)
             P(x) == \A y \in S : x >= y
  <2>1. S \subseteq Rollouts!Execution
    BY DEF Rollouts!Installs, Rollouts!Rows
  <2>2. IsFiniteSet(Rollouts!Execution) /\ Rollouts!Execution \subseteq Int
    BY Numbers DEF Rollouts!Execution, Rollouts!ConstantsFit
  <2> HIDE DEF S
  <2>3. IsFiniteSet(S) /\ S \in SUBSET Int
    BY <2>1, <2>2, FS_Subset
  <2>4. S # {} => \E x \in S : P(x)
    <3> SUFFICES ASSUME S # {} PROVE \E x \in S : P(x)
      OBVIOUS
    <3>1. PICK x \in S : \A y \in S : y <= x
      BY <2>3, GreatestNumber
    <3> QED
      BY <3>1, <2>3
  <2>5. Rollouts!Latest(S) = CHOOSE x \in S : P(x)
    BY DEF Rollouts!Latest, Rollouts!Max
  <2> HIDE DEF P
  <2>6. S # {} => Rollouts!Latest(S) \in S
    BY <2>4, <2>5, Zenon
  <2> QED
    BY <2>1, <2>6 DEF S
<1>5. ASSUME score = 0, NEW p \in Plugin
      PROVE  /\ \E e \in Rollouts!Installs(d, p) : row[e].status = "succeeded"
             /\ \E e \in Rollouts!Installs(d, p) : ~row[e].old
  <2>1. "missing" \notin Rollouts!issues(d, p) /\ "stale" \notin Rollouts!issues(d, p)
    BY <1>3, <1>5
  <2>2. ~\A e \in Rollouts!Installs(d, p) : row[e].status # "succeeded"
    BY <2>1 DEF Rollouts!issues
  <2>3. ~row[Rollouts!Latest(Rollouts!Installs(d, p))].old
    BY <2>1, <2>2 DEF Rollouts!issues
  <2> QED
    BY <2>2, <2>3, <1>4
<1>6. ASSUME NEW p \in Plugin, "failed" \in Rollouts!issues(d, p)
      PROVE  \A e \in Rollouts!Installs(d, p) : row[e].status # "succeeded"
  BY <1>6 DEF Rollouts!issues
<1> QED
  BY <1>3, <1>5, <1>6

-----------------------------------------------------------------------------
(* Calls and their rows *)

\* A finite set as a sequence.
LEMMA SetAsSequence ==
    ASSUME NEW S, IsFiniteSet(S)
    PROVE  /\ Rollouts!SetToSeq(S) \in Seq(S) /\ Len(Rollouts!SetToSeq(S)) = Cardinality(S)
           /\ S # {} => Rollouts!SetToSeq(S) # << >>
<1> DEFINE n == Cardinality(S)
           P(f) == Rollouts!IsInjective(f)
<1>1. n \in Nat /\ ExistsBijection(1..n, S)
  BY FS_CardinalityType
<1>2. PICK g : g \in Bijection(1..n, S)
  BY <1>1 DEF ExistsBijection
<1>3. g \in [1..n -> S] /\ P(g)
  BY <1>2 DEF Bijection, Injection, IsInjective, Rollouts!IsInjective
<1>4. Rollouts!SetToSeq(S) = CHOOSE f \in [1..n -> S] : P(f)
  BY FleetCount DEF Rollouts!SetToSeq
<1>5. Rollouts!SetToSeq(S) \in [1..n -> S]
  <2> HIDE DEF P, n
  <2> QED
    BY <1>3, <1>4, Zenon
<1>6. S # {} => n # 0
  BY FS_EmptySet
<1>7. Rollouts!SetToSeq(S) \in Seq(S) /\ Len(Rollouts!SetToSeq(S)) = n
  <2> HIDE DEF n
  <2>1. PICK f \in [1..n -> S] : f = Rollouts!SetToSeq(S)
    BY <1>5
  <2>2. f \in Seq(S) /\ Len(f) = n
    BY <1>1
  <2> QED
    BY <2>1, <2>2
<1> QED
  BY <1>6, <1>7

\* What a call has of its rows: the row it is about to dispatch, the rows it reported and those
\* it could not, as RolloutsAccount says.
CallFollows(o) ==
    op[o] # NoOp =>
        /\ CallInv(op[o])
        /\ op[o].row # Rollouts!NoExecution =>
             /\ op[o].row \in Rollouts!RowsOf(o) \ Rollouts!Reported(op[o])
             /\ row[op[o].row].device = Rollouts!Current(o)
        /\ Rollouts!DispatchedAreOwn(o)
        /\ op[o].kind # "deploy" => Rollouts!OrphansAreErrors(o)

\* The rows are numbered as they were created, each by a call.
RowsFollow ==
    /\ row \in [Rollouts!Execution -> Rollouts!Row \cup {Rollouts!NoRow}]
    /\ \E n \in 0..MaxRows : Rollouts!Rows = 1..n
    /\ \A e \in Rollouts!Rows : op[row[e].by] # NoOp

\* The inductive invariant of the rollouts.
RolloutsInv ==
    /\ FleetInv /\ RowsFollow
    /\ op \in [Op -> Rollouts!FleetCall \cup {NoOp}]
    /\ \A o \in Op : CallFollows(o)

\* Rows keep what they are, and what was dispatched stays so.
RowsKept ==
    \A e \in Rollouts!Rows : /\ e \in Rollouts!Rows'
                             /\ row'[e].device = row[e].device /\ row'[e].by = row[e].by
                             /\ row[e].sent => row'[e].sent

\* A call that does nothing, while others create rows of their own.
LEMMA OthersFollow ==
    ASSUME NEW o \in Op, CallFollows(o), op'[o] = op[o], RowsKept,
           \A e \in Rollouts!Rows' : row'[e].by = o => e \in Rollouts!Rows
    PROVE  CallFollows(o)'
<1> SUFFICES ASSUME op[o] # NoOp PROVE CallFollows(o)'
  BY DEF CallFollows
<1> DEFINE q == op[o]
<1>1. Rollouts!RowsOf(o)' = Rollouts!RowsOf(o)
  BY DEF Rollouts!RowsOf, RowsKept
<1>2. /\ \A e \in Rollouts!RowsOf(o) : row'[e].device = row[e].device /\ (row[e].sent => row'[e].sent)
  BY DEF Rollouts!RowsOf, RowsKept
<1>3. CallInv(q) /\ CallInv(op'[o])
  BY DEF CallFollows
<1>4. q.row # Rollouts!NoExecution =>
        /\ q.row \in Rollouts!RowsOf(o)' \ Rollouts!Reported(q)
        /\ row'[q.row].device = Rollouts!Current(o)'
  BY <1>1, <1>2 DEF CallFollows, Rollouts!Current
<1>5. Rollouts!DispatchedAreOwn(o)'
  BY <1>1, <1>2 DEF CallFollows, Rollouts!DispatchedAreOwn
<1>6. q.kind # "deploy" => Rollouts!OrphansAreErrors(o)'
  BY <1>1, <1>2 DEF CallFollows, Rollouts!OrphansAreErrors
<1> QED
  BY <1>3, <1>4, <1>5, <1>6 DEF CallFollows

\* A call that notes a result of the row it was dispatching, or an error.
LEMMA NotingFollows ==
    ASSUME RolloutsInv, NEW o \in Op, Rollouts!Going(o), NEW result \in Rollouts!Result,
           op' = [op EXCEPT ![o] = Rollouts!Advanced(op[o], result)],
           result.device = Rollouts!Current(o),
           result.status = "error" => result.execution = Rollouts!NoExecution,
           result.status = "dispatched" =>
               /\ result.execution = op[o].row /\ op[o].row # Rollouts!NoExecution
               /\ row'[op[o].row].sent,
           RowsKept, Rollouts!Rows' = Rollouts!Rows
    PROVE  CallFollows(o)'
<1> DEFINE q == op[o]
           r == Rollouts!Advanced(q, result)
           x == Len(q.results)
           y == Len(q.results[x]) + 1
<1>1. op'[o] = r /\ q # NoOp /\ q.status = "going" /\ CallInv(q)
  BY DEF RolloutsInv, CallFollows, Rollouts!Going
<1>2. CallInv(r) /\ OneMore(q, r, result) /\ r.kind = q.kind /\ r.row = Rollouts!NoExecution
  <2>1. result.device = q.rings[Rollouts!Ring(q)][Len(Rollouts!Done(q)) + 1]
    BY DEF Rollouts!Current
  <2> HIDE DEF q, r
  <2> QED
    BY <1>1, <2>1, AdvancedFollows DEF r
<1> HIDE DEF r
<1>3. /\ \A k \in DOMAIN q.results : \A i \in DOMAIN q.results[k] :
           k \in DOMAIN r.results /\ i \in DOMAIN r.results[k] /\ r.results[k][i] = q.results[k][i]
      /\ \A k \in DOMAIN r.results : \A i \in DOMAIN r.results[k] :
           \/ k \in DOMAIN q.results /\ i \in DOMAIN q.results[k] /\ r.results[k][i] = q.results[k][i]
           \/ k = x /\ i = y /\ r.results[k][i] = result
      /\ x \in DOMAIN r.results /\ y \in DOMAIN r.results[x] /\ r.results[x][y] = result
  BY <1>2 DEF OneMore
<1>4. /\ Rollouts!RowsOf(o)' = Rollouts!RowsOf(o)
      /\ \A e \in Rollouts!RowsOf(o) : /\ row'[e].device = row[e].device
                                       /\ row[e].sent => row'[e].sent
                                       /\ e # Rollouts!NoExecution
  <2>1. \A e \in Rollouts!Rows : e # Rollouts!NoExecution
    BY DEF Rollouts!Rows, Rollouts!Execution, Rollouts!NoExecution
  <2> QED
    BY <2>1 DEF Rollouts!RowsOf, RowsKept
<1>5. /\ q.row # Rollouts!NoExecution =>
           /\ q.row \in Rollouts!RowsOf(o) \ Rollouts!Reported(q)
           /\ row[q.row].device = Rollouts!Current(o)
      /\ Rollouts!DispatchedAreOwn(o)
      /\ q.kind # "deploy" => Rollouts!OrphansAreErrors(o)
  BY <1>1 DEF RolloutsInv, CallFollows
<1>6. \A k \in DOMAIN q.results : \A i \in DOMAIN q.results[k] :
        q.results[k][i].execution \in Rollouts!Reported(q)
  BY DEF Rollouts!Reported
<1>7. \A k \in DOMAIN r.results : \A i \in DOMAIN r.results[k] :
        r.results[k][i].execution \in Rollouts!Reported(r)
  BY DEF Rollouts!Reported
<1>8. result.status \in {"dispatched", "error"}
  BY DEF Rollouts!Result
<1>9. ASSUME NEW k \in DOMAIN r.results, NEW i \in DOMAIN r.results[k], r.results[k][i].status = "dispatched"
      PROVE  /\ r.results[k][i].execution \in Rollouts!RowsOf(o)
             /\ row'[r.results[k][i].execution].device = r.results[k][i].device
             /\ row'[r.results[k][i].execution].sent
             /\ \A l \in DOMAIN r.results : \A j \in DOMAIN r.results[l] :
                  r.results[l][j].execution = r.results[k][i].execution => l = k /\ j = i
  <2> DEFINE e == r.results[k][i].execution
  <2>1. CASE k \in DOMAIN q.results /\ i \in DOMAIN q.results[k] /\ r.results[k][i] = q.results[k][i]
    <3>1. /\ e \in Rollouts!RowsOf(o) /\ row[e].device = q.results[k][i].device /\ row[e].sent
          /\ \A l \in DOMAIN q.results : \A j \in DOMAIN q.results[l] :
               q.results[l][j].execution = e => l = k /\ j = i
      BY <2>1, <1>5, <1>9 DEF Rollouts!DispatchedAreOwn
    <3>2. result.execution # e
      BY <2>1, <3>1, <1>4, <1>5, <1>6, <1>8
    <3> QED
      BY <2>1, <3>1, <3>2, <1>3, <1>4
  <2>2. CASE k = x /\ i = y /\ r.results[k][i] = result
    <3>1. e = q.row /\ q.row # Rollouts!NoExecution /\ row'[q.row].sent
      BY <2>2, <1>9
    <3>2. \A l \in DOMAIN q.results : \A j \in DOMAIN q.results[l] : q.results[l][j].execution # e
      BY <3>1, <1>5, <1>6
    <3> QED
      BY <2>2, <3>1, <3>2, <1>3, <1>4, <1>5
  <2> QED
    BY <2>1, <2>2, <1>3
<1>10. Rollouts!DispatchedAreOwn(o)'
  BY <1>1, <1>4, <1>9 DEF Rollouts!DispatchedAreOwn
<1>11. ASSUME q.kind # "deploy", NEW e \in Rollouts!RowsOf(o), e \notin Rollouts!Reported(r)
       PROVE  \E k \in DOMAIN r.results : \E i \in DOMAIN r.results[k] :
                r.results[k][i].status = "error" /\ r.results[k][i].device = row'[e].device
  <2>1. CASE e = q.row
    <3>1. result.execution # e
      BY <1>3, <1>7, <1>11
    <3>2. result.status = "error" /\ result.device = row'[e].device
      BY <2>1, <3>1, <1>4, <1>5, <1>8
    <3> QED
      BY <3>2, <1>3
  <2>2. CASE e # q.row
    <3>1. e \notin Rollouts!Reported(q)
      BY <1>3, <1>11 DEF Rollouts!Reported
    <3>2. PICK k \in DOMAIN q.results : \E i \in DOMAIN q.results[k] :
             q.results[k][i].status = "error" /\ q.results[k][i].device = row[e].device
      BY <2>2, <3>1, <1>5, <1>11 DEF Rollouts!OrphansAreErrors
    <3> QED
      BY <3>2, <1>3, <1>4
  <2> QED
    BY <2>1, <2>2
<1>12. q.kind # "deploy" => Rollouts!OrphansAreErrors(o)'
  BY <1>1, <1>4, <1>11 DEF Rollouts!OrphansAreErrors
<1> QED
  BY <1>1, <1>2, <1>10, <1>12 DEF CallFollows

-----------------------------------------------------------------------------
(* Calls start *)

\* The call a member's list is rolled out by starts right.
LEMMA StartFollows ==
    ASSUME Rollouts!ConstantsFit, RolloutsInv, NEW o \in Op,
           NEW kind \in {"rollout", "invoke", "runbook", "deploy"}, NEW plugin_ \in Plugin \cup {NoPlugin},
           NEW rings \in Seq(Seq(Member)), NEW stop \in BOOLEAN,
           Rollouts!Start(o, kind, plugin_, rings, stop),
           rings # << >>, rings[1] # << >>,
           \A k, l \in DOMAIN rings : k < l /\ rings[k] = << >> => rings[l] = << >>
    PROVE  RolloutsInv'
<1> DEFINE q == [kind |-> kind, plugin |-> plugin_, stop |-> stop, rings |-> rings,
                 row |-> Rollouts!NoExecution, results |-> << << >> >>, status |-> "going"]
<1>1. /\ op[o] = NoOp /\ op' = [op EXCEPT ![o] = q] /\ UNCHANGED row
      /\ UNCHANGED <<fleet, member, health, status>>
  BY DEF Rollouts!Start, Rollouts!fleetVars
<1>2. << << >> >> \in Seq(Seq(Rollouts!Result)) /\ Len(<< << >> >>) = 1 /\ << << >> >>[1] = << >>
  <2>1. PICK T : T = Seq(Rollouts!Result)
    OBVIOUS
  <2>2. << >> \in T
    BY <2>1
  <2> QED
    BY <2>1, <2>2
<1>3. /\ q.kind = kind /\ q.stop = stop /\ q.rings = rings /\ q.row = Rollouts!NoExecution
      /\ q.results = << << >> >> /\ q.status = "going"
  OBVIOUS
<1>4. q \in Rollouts!FleetCall
  BY <1>2 DEF Rollouts!FleetCall, Rollouts!NoExecution
<1> HIDE DEF q
<1>5. CallInv(q)
  <2>1. DOMAIN q.results = {1} /\ q.results[1] = << >> /\ Len(q.results) = 1 /\ DOMAIN q.results[1] = {}
    BY <1>2, <1>3
  <2>2. Rollouts!Ring(q) = 1 /\ Rollouts!Done(q) = << >>
    BY <2>1 DEF Rollouts!Ring, Rollouts!Done
  <2>3. rings[1] \in Seq(Member) /\ Len(rings) \in Nat /\ 1 <= Len(rings)
    OBVIOUS
  <2>4. Len(rings[1]) \in Nat /\ 0 < Len(rings[1]) /\ Len(<< >>) = 0
    BY <2>3
  <2>5. Rollouts!ResultsFollow(q)
    BY <1>3, <2>1, <2>2, <2>4 DEF Rollouts!ResultsFollow
  <2>6. \A k \in DOMAIN q.results : ~Rollouts!HasError(q.results[k])
    BY <2>1 DEF Rollouts!HasError
  <2>7. Len(q.results) \in 1..Len(q.rings)
    BY <1>3, <2>1, <2>3
  <2>8. Len(Rollouts!Done(q)) < Len(q.rings[Rollouts!Ring(q)])
    BY <1>3, <2>2, <2>4
  <2>9. \A k \in DOMAIN q.results : DOMAIN q.results[k] = {}
    BY <2>1
  <2> QED
    BY <1>3, <1>4, <2>5, <2>6, <2>7, <2>8, <2>9 DEF CallInv
<1>6. q # NoOp /\ op'[o] = q /\ \A i \in Op : i # o => op'[i] = op[i]
  BY <1>1, <1>4 DEF Rollouts!ConstantsFit, RolloutsInv
<1>7. RowsKept /\ Rollouts!Rows' = Rollouts!Rows
  BY <1>1 DEF RowsKept, Rollouts!Rows
<1>8. \A e \in Rollouts!Rows : row[e].by \in Op /\ row[e].by # o
  <2>1. \A e \in Rollouts!Rows : row[e] \in Rollouts!Row
    BY DEF RolloutsInv, RowsFollow, Rollouts!Rows
  <2> QED
    BY <2>1, <1>1 DEF RolloutsInv, RowsFollow, Rollouts!Row
<1>9. Rollouts!RowsOf(o)' = {}
  BY <1>1, <1>7, <1>8 DEF Rollouts!RowsOf
<1>10. \A k \in DOMAIN q.results : DOMAIN q.results[k] = {}
  BY <1>2, <1>3
<1>11. CallFollows(o)'
  BY <1>3, <1>5, <1>6, <1>9, <1>10 DEF CallFollows, Rollouts!DispatchedAreOwn, Rollouts!OrphansAreErrors
<1>12. \A i \in Op : CallFollows(i)'
  <2> TAKE i \in Op
  <2>1. CASE i = o
    BY <2>1, <1>11
  <2>2. CASE i # o
    BY <2>2, <1>6, <1>7, OthersFollow DEF RolloutsInv
  <2> QED
    BY <2>1, <2>2
<1>13. RowsFollow'
  BY <1>1, <1>6, <1>7, <1>8 DEF RolloutsInv, RowsFollow
<1>14. FleetInv'
  BY <1>1 DEF RolloutsInv, FleetInv, ReportsAreHeard, Rollouts!FleetTypeOK, Rollouts!DeviceStatus
<1>15. op' \in [Op -> Rollouts!FleetCall \cup {NoOp}]
  BY <1>1, <1>4 DEF RolloutsInv
<1> QED
  BY <1>12, <1>13, <1>14, <1>15 DEF RolloutsInv

\* The members of a fleet that has some, as a list and as a call's only ring.
LEMMA ListedMembers ==
    ASSUME Rollouts!ConstantsFit, NEW f \in Fleet, Rollouts!list_fleet_members(f) # {}
    PROVE  LET devices == Rollouts!SetToSeq(Rollouts!list_fleet_members(f))
           IN  /\ devices \in Seq(Member) /\ devices # << >> /\ Len(devices) \in Nat
               /\ <<devices>> \in Seq(Seq(Member)) /\ <<devices>> # << >> /\ <<devices>>[1] # << >>
               /\ \A k, l \in DOMAIN <<devices>> : ~(k < l)
<1> DEFINE M == Rollouts!list_fleet_members(f)
           devices == Rollouts!SetToSeq(M)
<1>1. M \subseteq Member /\ IsFiniteSet(Member)
  BY FleetCount DEF Rollouts!list_fleet_members, Rollouts!Members, Rollouts!ConstantsFit
<1> HIDE DEF M
<1>2. IsFiniteSet(M) /\ M # {}
  BY <1>1, FS_Subset DEF M
<1>3. devices \in Seq(M) /\ devices # << >>
  BY <1>2, SetAsSequence
<1> HIDE DEF devices
<1>4. devices \in Seq(Member) /\ Len(devices) \in Nat
  BY <1>1, <1>3
<1>5. PICK T : T = Seq(Member)
  OBVIOUS
<1>6. <<devices>> \in Seq(T) /\ <<devices>> # << >> /\ <<devices>>[1] = devices /\ DOMAIN <<devices>> = {1}
  BY <1>4, <1>5
<1> QED
  BY <1>3, <1>4, <1>5, <1>6 DEF devices, M

\* Whatever a call runs on its members, it starts as the invariant says.
LEMMA StartsFollow ==
    ASSUME Rollouts!ConstantsFit, RolloutsInv, NEW o \in Op,
           \/ \E f \in Fleet, p \in Plugin \cup {NoPlugin}, stop \in BOOLEAN :
                \/ \E sizes \in RingSizes, max \in MaxRings :
                     Rollouts!rollout_execution_to_fleet(o, f, p, sizes, max, stop)
                \/ Rollouts!deploy_function_to_fleet(o, f, p, stop)
           \/ \E f \in Fleet, p \in Plugin : Rollouts!invoke_function_on_fleet(o, f, p)
           \/ \E d \in Member, n \in Steps, stop \in BOOLEAN : Rollouts!execute_runbook(o, d, n, stop)
    PROVE  RolloutsInv'
<1>1. ASSUME NEW f \in Fleet, NEW p \in Plugin \cup {NoPlugin}, NEW stop \in BOOLEAN,
             NEW sizes \in RingSizes, NEW max \in MaxRings,
             Rollouts!rollout_execution_to_fleet(o, f, p, sizes, max, stop)
      PROVE  RolloutsInv'
  <2> DEFINE devices == Rollouts!SetToSeq(Rollouts!list_fleet_members(f))
             c == Rollouts!_compute_canary_rings(Len(devices), sizes, max)
             rings == Rollouts!Slices(devices, c)
  <2>1. Rollouts!list_fleet_members(f) # {} /\ Rollouts!Start(o, "rollout", p, rings, stop)
    BY <1>1 DEF Rollouts!rollout_execution_to_fleet
  <2>2. devices \in Seq(Member) /\ devices # << >> /\ Len(devices) \in Nat
    BY <2>1, ListedMembers
  <2>3. sizes \in Seq(Nat \ {0}) /\ sizes # << >> /\ max \in Nat
    BY DEF Rollouts!ConstantsFit
  <2> HIDE DEF devices
  <2>4. c \in Seq(Nat \ {0}) /\ c \in Seq(Nat) /\ Len(c) # 0
    BY <2>2, <2>3, RingSizesTake
  <2> HIDE DEF c
  <2>5. rings \in Seq(Seq(Member)) /\ Len(rings) = Len(c)
    BY <2>2, <2>4, RingsAreRuns
  <2>6. /\ \A k, l \in DOMAIN rings : k < l /\ rings[k] = << >> => rings[l] = << >>
        /\ rings[1] # << >>
    BY <2>2, <2>4, EmptyRingsAreLast
  <2> HIDE DEF rings
  <2>7. rings # << >>
    BY <2>4, <2>5
  <2> QED
    BY <2>1, <2>5, <2>6, <2>7, StartFollows
<1>2. ASSUME NEW f \in Fleet, NEW p \in Plugin \cup {NoPlugin}, NEW stop \in BOOLEAN,
             NEW kind \in {"invoke", "deploy"}, Rollouts!list_fleet_members(f) # {},
             Rollouts!Start(o, kind, p, <<Rollouts!SetToSeq(Rollouts!list_fleet_members(f))>>, stop)
      PROVE  RolloutsInv'
  <2> DEFINE rings == <<Rollouts!SetToSeq(Rollouts!list_fleet_members(f))>>
  <2>1. /\ rings \in Seq(Seq(Member)) /\ rings # << >> /\ rings[1] # << >>
        /\ \A k, l \in DOMAIN rings : ~(k < l)
    BY <1>2, ListedMembers
  <2>2. Rollouts!Start(o, kind, p, rings, stop)
    BY <1>2
  <2> HIDE DEF rings
  <2>3. kind \in {"rollout", "invoke", "runbook", "deploy"}
    OBVIOUS
  <2> QED
    BY <2>1, <2>2, <2>3, StartFollows
<1>3. ASSUME NEW d \in Member, NEW n \in Steps, NEW stop \in BOOLEAN,
             Rollouts!execute_runbook(o, d, n, stop)
      PROVE  RolloutsInv'
  <2> DEFINE rings == [i \in 1..n |-> <<d>>]
  <2>1. Rollouts!Start(o, "runbook", NoPlugin, rings, stop)
    BY <1>3 DEF Rollouts!execute_runbook
  <2>2. n \in Nat /\ n # 0
    BY DEF Rollouts!ConstantsFit
  <2>3. PICK T : T = Seq(Member)
    OBVIOUS
  <2>4. <<d>> \in T /\ <<d>> # << >>
    BY <2>3
  <2>5. rings \in Seq(T) /\ rings # << >> /\ rings[1] = <<d>> /\ \A k \in DOMAIN rings : rings[k] = <<d>>
    BY <2>2, <2>4
  <2> HIDE DEF rings
  <2>6. rings \in Seq(Seq(Member)) /\ rings[1] # << >> /\ \A k \in DOMAIN rings : rings[k] # << >>
    BY <2>3, <2>4, <2>5
  <2>7. NoPlugin \in Plugin \cup {NoPlugin} /\ "runbook" \in {"rollout", "invoke", "runbook", "deploy"}
    OBVIOUS
  <2> QED
    BY <2>1, <2>5, <2>6, <2>7, StartFollows
<1> QED
  BY <1>1, <1>2, <1>3 DEF Rollouts!deploy_function_to_fleet, Rollouts!invoke_function_on_fleet

-----------------------------------------------------------------------------
(* Rows are created *)

\* A call that goes has a member to go on with.
LEMMA CurrentIsMember ==
    ASSUME RolloutsInv, NEW o \in Op, Rollouts!Going(o) PROVE Rollouts!Current(o) \in Member
<1> DEFINE q == op[o]
           n == Len(q.results)
           m == Len(q.results[n])
<1>1. CallInv(q) /\ q.status = "going"
  BY DEF RolloutsInv, CallFollows, Rollouts!Going
<1>2. /\ q \in Rollouts!FleetCall /\ n \in 1..Len(q.rings) /\ m < Len(q.rings[n])
  BY <1>1 DEF CallInv, Rollouts!Ring, Rollouts!Done
<1>3. q.results \in Seq(Seq(Rollouts!Result)) /\ q.rings \in Seq(Seq(Member))
  BY <1>2 DEF Rollouts!FleetCall
<1>4. Rollouts!Current(o) = q.rings[n][m + 1]
  BY DEF Rollouts!Current, Rollouts!Ring, Rollouts!Done
<1> HIDE DEF q
<1>5. q.results[n] \in Seq(Rollouts!Result) /\ q.rings[n] \in Seq(Member)
  BY <1>2, <1>3
<1> QED
  BY <1>2, <1>4, <1>5

\* A call that only gets a row to dispatch, or ends with an error, is still one of the invariant.
LEMMA CallKept ==
    ASSUME NEW q, CallInv(q), q.status = "going", NEW e, NEW st, NEW r,
           \/ e = Rollouts!NoExecution /\ st = "error"
           \/ e \in Rollouts!Execution /\ st = "going" /\ q.kind # "deploy",
           r = [kind |-> q.kind, plugin |-> q.plugin, stop |-> q.stop, rings |-> q.rings,
                row |-> e, results |-> q.results, status |-> st]
    PROVE  CallInv(r)
<1>1. q \in Rollouts!FleetCall
  BY DEF CallInv
<1>2. r \in Rollouts!FleetCall
  BY <1>1 DEF Rollouts!FleetCall
<1>3. /\ r.kind = q.kind /\ r.stop = q.stop /\ r.rings = q.rings /\ r.row = e
      /\ r.results = q.results /\ r.status = st
  OBVIOUS
<1>4. Rollouts!Ring(r) = Rollouts!Ring(q) /\ Rollouts!Done(r) = Rollouts!Done(q)
  BY <1>3 DEF Rollouts!Ring, Rollouts!Done
<1>5. Rollouts!ResultsFollow(r)
  BY <1>3, <1>4 DEF CallInv, Rollouts!ResultsFollow
<1> QED
  BY <1>2, <1>3, <1>4, <1>5 DEF CallInv

\* A row a call creates is new, and no other is touched.
LEMMA CreatedFollows ==
    ASSUME Rollouts!ConstantsFit, RolloutsInv, NEW o \in Op, Rollouts!Going(o),
           NEW e \in Rollouts!Execution, Rollouts!Created(o, e)
    PROVE  /\ e \notin Rollouts!Rows /\ Rollouts!Rows' = Rollouts!Rows \cup {e}
           /\ row'[e].by = o /\ row'[e].device = Rollouts!Current(o)
           /\ \A i \in Rollouts!Rows : row'[i] = row[i]
           /\ row' \in [Rollouts!Execution -> Rollouts!Row \cup {Rollouts!NoRow}]
           /\ \E n \in 0..MaxRows : Rollouts!Rows' = 1..n
           /\ UNCHANGED <<fleet, member, health, status>>
<1> DEFINE new == [device |-> Rollouts!Current(o), plugin |-> op[o].plugin,
                   status |-> "queued", by |-> o, sent |-> FALSE, old |-> FALSE]
<1>1. PICK n \in 0..MaxRows : Rollouts!Rows = 1..n
  BY DEF RolloutsInv, RowsFollow
<1>2. n \in Nat /\ MaxRows \in Nat
  BY DEF Rollouts!ConstantsFit
<1>3. e = n + 1
  <2>1. Cardinality(1..n) = n
    BY <1>2, Numbers
  <2> QED
    BY <1>1, <2>1, FleetCount DEF Rollouts!Created
<1>4. /\ row' = [row EXCEPT ![e] = new] /\ UNCHANGED <<fleet, member, health, status>>
      /\ row \in [Rollouts!Execution -> Rollouts!Row \cup {Rollouts!NoRow}]
  BY DEF Rollouts!Created, Rollouts!fleetVars, RolloutsInv, RowsFollow
<1>5. op[o].plugin \in Plugin \cup {NoPlugin}
  <2>1. op[o] \in Rollouts!FleetCall
    BY DEF RolloutsInv, CallFollows, CallInv, Rollouts!Going
  <2> QED
    BY <2>1 DEF Rollouts!FleetCall
<1>6. /\ new \in Rollouts!Row /\ new.status = "queued" /\ new.by = o
      /\ new.device = Rollouts!Current(o)
  BY <1>5, CurrentIsMember DEF Rollouts!Row, Rollouts!Active
<1> HIDE DEF new
<1>7. new # Rollouts!NoRow
  <2>1. Rollouts!NoRow.status = "none"
    BY DEF Rollouts!NoRow
  <2> QED
    BY <1>6, <2>1
<1>8. row'[e] = new /\ \A i \in Rollouts!Execution : i # e => row'[i] = row[i]
  BY <1>4
<1>9. e \notin Rollouts!Rows
  BY <1>1, <1>2, <1>3
<1>10. Rollouts!Rows' = Rollouts!Rows \cup {e}
  BY <1>7, <1>8 DEF Rollouts!Rows
<1>11. Rollouts!Rows' = 1..n + 1 /\ n + 1 \in 0..MaxRows
  BY <1>1, <1>2, <1>3, <1>10 DEF Rollouts!Execution
<1>12. \A i \in Rollouts!Rows : row'[i] = row[i]
  BY <1>8, <1>9 DEF Rollouts!Rows
<1>13. row' \in [Rollouts!Execution -> Rollouts!Row \cup {Rollouts!NoRow}]
  BY <1>4, <1>6
<1>14. \E k \in 0..MaxRows : Rollouts!Rows' = 1..k
  BY <1>11
<1> QED
  BY <1>4, <1>6, <1>8, <1>9, <1>10, <1>12, <1>13, <1>14

\* The step of a call on its next member, which creates that member's row.
LEMMA CreateFollows ==
    ASSUME Rollouts!ConstantsFit, RolloutsInv, NEW o \in Op, NEW e \in Rollouts!Execution,
           Rollouts!create_step(o, e) \/ Rollouts!deploy_step(o, e)
    PROVE  RolloutsInv'
<1> DEFINE q == op[o]
           r == op'[o]
<1>1. /\ Rollouts!Going(o) /\ Rollouts!Created(o, e) /\ q # NoOp /\ q.status = "going"
      /\ CallInv(q) /\ CallFollows(o)
      /\ op \in [Op -> Rollouts!FleetCall \cup {NoOp}]
  BY DEF Rollouts!create_step, Rollouts!deploy_step, RolloutsInv, CallFollows, Rollouts!Going
<1>2. /\ e \notin Rollouts!Rows /\ Rollouts!Rows' = Rollouts!Rows \cup {e}
      /\ row'[e].by = o /\ row'[e].device = Rollouts!Current(o)
      /\ \A i \in Rollouts!Rows : row'[i] = row[i]
      /\ row' \in [Rollouts!Execution -> Rollouts!Row \cup {Rollouts!NoRow}]
      /\ \E n \in 0..MaxRows : Rollouts!Rows' = 1..n
      /\ UNCHANGED <<fleet, member, health, status>>
  BY <1>1, CreatedFollows
<1>3. q \in Rollouts!FleetCall
  BY <1>1 DEF CallInv
<1>4. q.row = Rollouts!NoExecution
  BY <1>1 DEF CallInv, Rollouts!create_step, Rollouts!deploy_step
<1>5. PICK x \in {e, Rollouts!NoExecution}, st \in {"going", "error"} :
        /\ \/ x = Rollouts!NoExecution /\ st = "error" /\ q.kind = "deploy"
           \/ x = e /\ st = "going" /\ q.kind # "deploy"
        /\ r = [kind |-> q.kind, plugin |-> q.plugin, stop |-> q.stop, rings |-> q.rings,
                row |-> x, results |-> q.results, status |-> st]
        /\ op' = [op EXCEPT ![o] = r]
  <2>0. q = [kind |-> q.kind, plugin |-> q.plugin, stop |-> q.stop, rings |-> q.rings,
             row |-> q.row, results |-> q.results, status |-> q.status]
    BY <1>3 DEF Rollouts!FleetCall
  <2>1. CASE Rollouts!create_step(o, e)
    <3>1. op' = [op EXCEPT ![o] = [q EXCEPT !.row = e]] /\ q.kind # "deploy"
      BY <2>1 DEF Rollouts!create_step
    <3>2. [q EXCEPT !.row = e] = [kind |-> q.kind, plugin |-> q.plugin, stop |-> q.stop,
                                  rings |-> q.rings, row |-> e, results |-> q.results, status |-> q.status]
      <4> HIDE DEF q
      <4> QED BY <2>0
    <3> QED
      BY <3>1, <3>2, <1>1
  <2>2. CASE Rollouts!deploy_step(o, e)
    <3>1. op' = [op EXCEPT ![o] = [q EXCEPT !.status = "error"]] /\ q.kind = "deploy"
      BY <2>2 DEF Rollouts!deploy_step
    <3>2. [q EXCEPT !.status = "error"] = [kind |-> q.kind, plugin |-> q.plugin, stop |-> q.stop,
                                  rings |-> q.rings, row |-> q.row, results |-> q.results, status |-> "error"]
      <4> HIDE DEF q
      <4> QED BY <2>0
    <3> QED
      BY <3>1, <3>2, <1>1, <1>4
  <2> QED
    BY <2>1, <2>2
<1> HIDE DEF q, r
<1>6. CallInv(r)
  BY <1>1, <1>5, CallKept
<1>7. r \in Rollouts!FleetCall /\ r # NoOp /\ r.row = x /\ r.kind = q.kind /\ r.rings = q.rings /\ r.results = q.results
  BY <1>5, <1>6 DEF CallInv, Rollouts!ConstantsFit
<1>8. /\ Rollouts!RowsOf(o)' = Rollouts!RowsOf(o) \cup {e}
      /\ e \notin Rollouts!RowsOf(o)
      /\ \A i \in Rollouts!RowsOf(o) : row'[i] = row[i] /\ i # Rollouts!NoExecution
  <2>1. \A i \in Rollouts!Rows : i # Rollouts!NoExecution
    BY DEF Rollouts!Rows, Rollouts!Execution, Rollouts!NoExecution
  <2> QED
    BY <2>1, <1>2 DEF Rollouts!RowsOf
<1>9. /\ \A k \in DOMAIN q.results : \A i \in DOMAIN q.results[k] :
           /\ q.results[k][i].status = "dispatched" => q.results[k][i].execution \in Rollouts!RowsOf(o)
           /\ q.results[k][i].status = "error" => q.results[k][i].execution = Rollouts!NoExecution
           /\ q.results[k][i].status \in {"dispatched", "error"}
  <2>1. ASSUME NEW k \in DOMAIN q.results, NEW i \in DOMAIN q.results[k]
        PROVE  q.results[k][i].status \in {"dispatched", "error"}
    <3>1. q.results \in Seq(Seq(Rollouts!Result))
      BY <1>3 DEF Rollouts!FleetCall
    <3>2. q.results[k] \in Seq(Rollouts!Result)
      BY <3>1
    <3>3. q.results[k][i] \in Rollouts!Result
      BY <3>2
    <3> QED
      BY <3>3 DEF Rollouts!Result
  <2> QED
    BY <2>1, <1>1 DEF CallFollows, CallInv, Rollouts!DispatchedAreOwn, q
<1>10. e \notin Rollouts!Reported(r)
  <2>1. e # Rollouts!NoExecution
    BY DEF Rollouts!Execution, Rollouts!NoExecution
  <2> QED
    BY <2>1, <1>7, <1>8, <1>9 DEF Rollouts!Reported
<1>11. Rollouts!Current(o)' = Rollouts!Current(o)
  <2>1. op'[o] = r /\ op[o] = q
    BY DEF q, r
  <2> QED
    BY <2>1, <1>7 DEF Rollouts!Current, Rollouts!Ring, Rollouts!Done
<1>12. r.row # Rollouts!NoExecution => /\ r.row \in Rollouts!RowsOf(o)' \ Rollouts!Reported(r)
                                       /\ row'[r.row].device = Rollouts!Current(o)'
  BY <1>2, <1>5, <1>7, <1>8, <1>10, <1>11
<1>13. Rollouts!DispatchedAreOwn(o)'
  <2>1. op'[o] = r /\ op[o] = q
    BY DEF q, r
  <2> QED
    BY <2>1, <1>1, <1>7, <1>8 DEF CallFollows, Rollouts!DispatchedAreOwn
<1>14. r.kind # "deploy" => Rollouts!OrphansAreErrors(o)'
  <2>1. op'[o] = r /\ op[o] = q
    BY DEF q, r
  <2>2. Rollouts!Reported(r) = Rollouts!Reported(q)
    BY <1>7 DEF Rollouts!Reported
  <2> QED
    BY <2>1, <2>2, <1>1, <1>4, <1>5, <1>7, <1>8 DEF CallFollows, Rollouts!OrphansAreErrors
<1>15. CallFollows(o)'
  <2>1. op'[o] = r
    BY DEF r
  <2> QED
    BY <2>1, <1>6, <1>12, <1>13, <1>14 DEF CallFollows
<1>16. RowsKept
  BY <1>2 DEF RowsKept
<1>17. \A i \in Op : CallFollows(i)'
  <2> TAKE i \in Op
  <2>1. CASE i = o
    BY <2>1, <1>15
  <2>2. CASE i # o
    BY <2>2, <1>1, <1>2, <1>5, <1>16, OthersFollow DEF RolloutsInv
  <2> QED
    BY <2>1, <2>2
<1>18. op' \in [Op -> Rollouts!FleetCall \cup {NoOp}] /\ op'[o] = r /\ \A i \in Op : i # o => op'[i] = op[i]
  BY <1>1, <1>5, <1>7
<1>19. RowsFollow'
  <2>1. \A i \in Rollouts!Rows : row[i].by \in Op
    <3>1. \A i \in Rollouts!Rows : row[i] \in Rollouts!Row
      BY DEF RolloutsInv, RowsFollow, Rollouts!Rows
    <3> QED
      BY <3>1 DEF Rollouts!Row
  <2>2. \A i \in Rollouts!Rows' : op'[row'[i].by] # NoOp
    BY <2>1, <1>2, <1>7, <1>18 DEF RolloutsInv, RowsFollow
  <2> QED
    BY <2>2, <1>2 DEF RowsFollow
<1>20. FleetInv'
  BY <1>2 DEF RolloutsInv, FleetInv, ReportsAreHeard, Rollouts!FleetTypeOK, Rollouts!DeviceStatus
<1> QED
  BY <1>17, <1>18, <1>19, <1>20 DEF RolloutsInv

-----------------------------------------------------------------------------
(* Rows move, and the invariant *)

\* The step of a call that notes a result, whatever it did to the row it was dispatching.
LEMMA NotedFollows ==
    ASSUME Rollouts!ConstantsFit, RolloutsInv, NEW o \in Op, Rollouts!Going(o),
           NEW result \in Rollouts!Result, Rollouts!Note(o, result),
           result.device = Rollouts!Current(o),
           result.status = "error" => result.execution = Rollouts!NoExecution,
           result.status = "dispatched" =>
               /\ result.execution = op[o].row /\ op[o].row # Rollouts!NoExecution
               /\ row'[op[o].row].sent,
           RowsKept, Rollouts!Rows' = Rollouts!Rows,
           row' \in [Rollouts!Execution -> Rollouts!Row \cup {Rollouts!NoRow}],
           UNCHANGED <<fleet, member, health, status>>
    PROVE  RolloutsInv'
<1> DEFINE q == op[o]
           r == Rollouts!Advanced(q, result)
<1>1. op' = [op EXCEPT ![o] = r] /\ CallFollows(o)'
  BY NotingFollows DEF Rollouts!Note
<1>2. CallInv(r)
  <2>1. CallInv(q) /\ q.status = "going"
    BY DEF RolloutsInv, CallFollows, Rollouts!Going
  <2>2. result.device = q.rings[Rollouts!Ring(q)][Len(Rollouts!Done(q)) + 1]
    BY DEF Rollouts!Current
  <2> HIDE DEF q, r
  <2> QED
    BY <2>1, <2>2, AdvancedFollows DEF r
<1> HIDE DEF r
<1>3. r \in Rollouts!FleetCall /\ r # NoOp
  BY <1>2 DEF CallInv, Rollouts!ConstantsFit
<1>4. op' \in [Op -> Rollouts!FleetCall \cup {NoOp}] /\ op'[o] = r /\ \A i \in Op : i # o => op'[i] = op[i]
  BY <1>1, <1>3 DEF RolloutsInv
<1>5. \A i \in Op : CallFollows(i)'
  <2> TAKE i \in Op
  <2>1. CASE i = o
    BY <2>1, <1>1
  <2>2. CASE i # o
    BY <2>2, <1>4, OthersFollow DEF RolloutsInv
  <2> QED
    BY <2>1, <2>2
<1>6. RowsFollow'
  <2>1. \A i \in Rollouts!Rows : row[i].by \in Op
    <3>1. \A i \in Rollouts!Rows : row[i] \in Rollouts!Row
      BY DEF RolloutsInv, RowsFollow, Rollouts!Rows
    <3> QED
      BY <3>1 DEF Rollouts!Row
  <2> QED
    BY <2>1, <1>3, <1>4 DEF RolloutsInv, RowsFollow, RowsKept
<1>7. FleetInv'
  BY DEF RolloutsInv, FleetInv, ReportsAreHeard, Rollouts!FleetTypeOK, Rollouts!DeviceStatus
<1> QED
  BY <1>4, <1>5, <1>6, <1>7 DEF RolloutsInv

\* A step on one row that keeps what the row is.
LEMMA RowSteps ==
    ASSUME RolloutsInv, NEW e \in Rollouts!Rows, NEW new \in Rollouts!Row,
           new.device = row[e].device, new.by = row[e].by, row[e].sent => new.sent,
           row' = [row EXCEPT ![e] = new]
    PROVE  /\ RowsKept /\ Rollouts!Rows' = Rollouts!Rows
           /\ row' \in [Rollouts!Execution -> Rollouts!Row \cup {Rollouts!NoRow}]
<1>1. /\ row \in [Rollouts!Execution -> Rollouts!Row \cup {Rollouts!NoRow}]
      /\ e \in Rollouts!Execution
  BY DEF RolloutsInv, RowsFollow, Rollouts!Rows
<1>2. new # Rollouts!NoRow
  <2>1. new.status \in Rollouts!Active \cup Rollouts!Final /\ Rollouts!NoRow.status = "none"
    BY DEF Rollouts!Row, Rollouts!NoRow
  <2> QED
    BY <2>1 DEF Rollouts!Active, Rollouts!Final, Rollouts!Failed
<1>3. Rollouts!Rows' = Rollouts!Rows
  BY <1>1, <1>2 DEF Rollouts!Rows
<1>4. RowsKept
  BY <1>1, <1>3 DEF RowsKept, Rollouts!Rows
<1> QED
  BY <1>1, <1>3, <1>4

\* A step in which only one row moves.
LEMMA RowMoves ==
    ASSUME RolloutsInv, NEW e \in Rollouts!Rows, NEW new \in Rollouts!Row,
           new.device = row[e].device, new.by = row[e].by, row[e].sent => new.sent,
           row' = [row EXCEPT ![e] = new], UNCHANGED op,
           UNCHANGED <<fleet, member, health, status>>
    PROVE  RolloutsInv'
<1>1. /\ RowsKept /\ Rollouts!Rows' = Rollouts!Rows
      /\ row' \in [Rollouts!Execution -> Rollouts!Row \cup {Rollouts!NoRow}]
  BY RowSteps
<1>2. \A i \in Op : CallFollows(i)'
  BY <1>1, OthersFollow DEF RolloutsInv
<1>3. RowsFollow'
  BY <1>1 DEF RolloutsInv, RowsFollow, RowsKept
<1>4. FleetInv'
  BY DEF RolloutsInv, FleetInv, ReportsAreHeard, Rollouts!FleetTypeOK, Rollouts!DeviceStatus
<1> QED
  BY <1>2, <1>3, <1>4 DEF RolloutsInv

\* An execution's own life.
LEMMA LivesFollow ==
    ASSUME Rollouts!ConstantsFit, RolloutsInv, NEW e \in Rollouts!Execution,
           Rollouts!ages(e) \/ \E s \in Outcomes \cup {"cancelled"} : Rollouts!moves(e, s)
    PROVE  RolloutsInv'
<1> DEFINE old == row[e]
<1>1. e \in Rollouts!Rows /\ UNCHANGED op /\ UNCHANGED <<fleet, member, health, status>>
  BY DEF Rollouts!ages, Rollouts!moves, Rollouts!fleetVars
<1>2. old \in Rollouts!Row
  BY <1>1 DEF RolloutsInv, RowsFollow, Rollouts!Rows
<1>3. old = [device |-> old.device, plugin |-> old.plugin, status |-> old.status, by |-> old.by,
             sent |-> old.sent, old |-> old.old]
  BY <1>2 DEF Rollouts!Row
<1>4. CASE Rollouts!ages(e)
  <2>1. PICK yes \in BOOLEAN : yes = TRUE
    OBVIOUS
  <2>2. row' = [row EXCEPT ![e] = [old EXCEPT !.old = yes]]
    BY <1>4, <2>1 DEF Rollouts!ages
  <2> HIDE DEF old
  <2> DEFINE new == [old EXCEPT !.old = yes]
  <2>3. new = [device |-> old.device, plugin |-> old.plugin, status |-> old.status, by |-> old.by,
               sent |-> old.sent, old |-> yes]
    BY <1>3
  <2>4. new \in Rollouts!Row /\ new.device = old.device /\ new.by = old.by /\ new.sent = old.sent
    BY <1>2, <2>3 DEF Rollouts!Row
  <2> HIDE DEF new
  <2> QED
    BY <1>1, <2>2, <2>4, RowMoves DEF new, old
<1>5. ASSUME NEW s \in Outcomes \cup {"cancelled"}, Rollouts!moves(e, s)
      PROVE  RolloutsInv'
  <2>1. s \in Rollouts!Active \cup Rollouts!Final
    BY DEF Rollouts!ConstantsFit, Rollouts!Active, Rollouts!Final, Rollouts!Failed
  <2>2. row' = [row EXCEPT ![e] = [old EXCEPT !.status = s]]
    BY <1>5 DEF Rollouts!moves
  <2> HIDE DEF old
  <2> DEFINE new == [old EXCEPT !.status = s]
  <2>3. new = [device |-> old.device, plugin |-> old.plugin, status |-> s, by |-> old.by,
               sent |-> old.sent, old |-> old.old]
    BY <1>3
  <2>4. new \in Rollouts!Row /\ new.device = old.device /\ new.by = old.by /\ new.sent = old.sent
    BY <1>2, <2>1, <2>3 DEF Rollouts!Row
  <2> HIDE DEF new
  <2> QED
    BY <1>1, <2>2, <2>4, RowMoves DEF new, old
<1> QED
  BY <1>4, <1>5

\* What a call reports as an error names no row.
LEMMA ErrorIsResult ==
    ASSUME RolloutsInv, NEW o \in Op, Rollouts!Going(o)
    PROVE  LET result == Rollouts!Error(o)
           IN  /\ result \in Rollouts!Result /\ result.device = Rollouts!Current(o)
               /\ result.status = "error" /\ result.execution = Rollouts!NoExecution
BY CurrentIsMember DEF Rollouts!Error, Rollouts!Result

\* A call on a device that takes no more executions.
LEMMA RefusedFollows ==
    ASSUME Rollouts!ConstantsFit, RolloutsInv, NEW o \in Op,
           Rollouts!create_refused(o) \/ Rollouts!deploy_refused(o)
    PROVE  RolloutsInv'
<1> DEFINE q == op[o]
<1>1. /\ Rollouts!Going(o) /\ UNCHANGED row /\ UNCHANGED <<fleet, member, health, status>>
  BY DEF Rollouts!create_refused, Rollouts!deploy_refused, Rollouts!fleetVars
<1>2. /\ RowsKept /\ Rollouts!Rows' = Rollouts!Rows
      /\ row' \in [Rollouts!Execution -> Rollouts!Row \cup {Rollouts!NoRow}]
  BY <1>1 DEF RowsKept, Rollouts!Rows, RolloutsInv, RowsFollow
<1>3. ASSUME Rollouts!Note(o, Rollouts!Error(o)) PROVE RolloutsInv'
  <2> DEFINE result == Rollouts!Error(o)
  <2>1. /\ result \in Rollouts!Result /\ result.device = Rollouts!Current(o)
        /\ result.status = "error" /\ result.execution = Rollouts!NoExecution
    BY <1>1, ErrorIsResult
  <2>2. Rollouts!Note(o, result)
    BY <1>3
  <2> HIDE DEF result
  <2> QED
    BY <1>1, <1>2, <2>1, <2>2, NotedFollows
<1>4. ASSUME q.kind = "deploy", op' = [op EXCEPT ![o] = [q EXCEPT !.status = "error"]]
      PROVE  RolloutsInv'
  <2> DEFINE r == [q EXCEPT !.status = "error"]
  <2>1. q # NoOp /\ q.status = "going" /\ CallInv(q) /\ CallFollows(o) /\ q \in Rollouts!FleetCall
    BY <1>1 DEF Rollouts!Going, RolloutsInv, CallFollows, CallInv
  <2>2. q.row = Rollouts!NoExecution
    BY <2>1, <1>4 DEF CallInv
  <2>3. q = [kind |-> q.kind, plugin |-> q.plugin, stop |-> q.stop, rings |-> q.rings,
             row |-> q.row, results |-> q.results, status |-> q.status]
    BY <2>1 DEF Rollouts!FleetCall
  <2>4. r = [kind |-> q.kind, plugin |-> q.plugin, stop |-> q.stop, rings |-> q.rings,
             row |-> Rollouts!NoExecution, results |-> q.results, status |-> "error"]
    <3> HIDE DEF q
    <3> QED
      BY <2>2, <2>3
  <2>5. op' = [op EXCEPT ![o] = r]
    BY <1>4
  <2> HIDE DEF r
  <2>6. CallInv(r)
    BY <2>1, <2>4, CallKept
  <2>7. r \in Rollouts!FleetCall /\ r # NoOp /\ r.row = Rollouts!NoExecution /\ r.kind = "deploy" /\ r.results = q.results
    BY <2>4, <2>6, <1>4 DEF CallInv, Rollouts!ConstantsFit
  <2>8. op' \in [Op -> Rollouts!FleetCall \cup {NoOp}] /\ op'[o] = r /\ \A i \in Op : i # o => op'[i] = op[i]
    BY <2>5, <2>7 DEF RolloutsInv
  <2>9. Rollouts!DispatchedAreOwn(o)'
    BY <2>1, <2>7, <2>8, <1>1 DEF CallFollows, Rollouts!DispatchedAreOwn, Rollouts!RowsOf, Rollouts!Rows
  <2>10. CallFollows(o)'
    BY <2>6, <2>7, <2>8, <2>9 DEF CallFollows
  <2>11. \A i \in Op : CallFollows(i)'
    <3> TAKE i \in Op
    <3>1. CASE i = o
      BY <3>1, <2>10
    <3>2. CASE i # o
      BY <3>2, <2>8, <1>2, OthersFollow DEF RolloutsInv
    <3> QED
      BY <3>1, <3>2
  <2>12. RowsFollow'
    <3>1. \A i \in Rollouts!Rows : row[i].by \in Op
      <4>1. \A i \in Rollouts!Rows : row[i] \in Rollouts!Row
        BY DEF RolloutsInv, RowsFollow, Rollouts!Rows
      <4> QED
        BY <4>1 DEF Rollouts!Row
    <3> QED
      BY <3>1, <2>7, <2>8, <1>2 DEF RolloutsInv, RowsFollow, RowsKept
  <2>13. FleetInv'
    BY <1>1 DEF RolloutsInv, FleetInv, ReportsAreHeard, Rollouts!FleetTypeOK, Rollouts!DeviceStatus
  <2> QED
    BY <2>8, <2>11, <2>12, <2>13 DEF RolloutsInv
<1> QED
  BY <1>3, <1>4 DEF Rollouts!create_refused, Rollouts!deploy_refused, Rollouts!Note

\* A call dispatches its row: the row is sent, or it was cancelled before.
LEMMA DispatchFollows ==
    ASSUME Rollouts!ConstantsFit, RolloutsInv, NEW o \in Op, Rollouts!dispatch_step(o)
    PROVE  RolloutsInv'
<1> DEFINE e == op[o].row
           old == row[e]
           error == Rollouts!Error(o)
           sent == [device |-> Rollouts!Current(o), execution |-> e, status |-> "dispatched"]
<1>1. /\ Rollouts!Going(o) /\ e # Rollouts!NoExecution /\ UNCHANGED <<fleet, member, health, status>>
      /\ e \in Rollouts!Rows
  BY DEF Rollouts!dispatch_step, Rollouts!fleetVars, RolloutsInv, CallFollows, Rollouts!Going, Rollouts!RowsOf
<1>2. /\ error \in Rollouts!Result /\ error.device = Rollouts!Current(o)
      /\ error.status = "error" /\ error.execution = Rollouts!NoExecution
  BY <1>1, ErrorIsResult
<1>3. /\ sent \in Rollouts!Result /\ sent.device = Rollouts!Current(o)
      /\ sent.status = "dispatched" /\ sent.execution = e
  BY <1>1, CurrentIsMember DEF Rollouts!Result, Rollouts!Rows
<1>4. \/ /\ row' = [row EXCEPT ![e].status = "dispatched", ![e].sent = TRUE]
         /\ Rollouts!Note(o, sent) \/ Rollouts!Note(o, error)
      \/ Rollouts!Note(o, error) /\ UNCHANGED row
  BY DEF Rollouts!dispatch_step
<1> HIDE DEF error, sent
<1>5. CASE UNCHANGED row /\ Rollouts!Note(o, error)
  <2>1. /\ RowsKept /\ Rollouts!Rows' = Rollouts!Rows
        /\ row' \in [Rollouts!Execution -> Rollouts!Row \cup {Rollouts!NoRow}]
    BY <1>5 DEF RowsKept, Rollouts!Rows, RolloutsInv, RowsFollow
  <2> HIDE DEF e
  <2> QED
    BY <1>1, <1>2, <1>5, <2>1, NotedFollows
<1>6. CASE /\ row' = [row EXCEPT ![e].status = "dispatched", ![e].sent = TRUE]
           /\ Rollouts!Note(o, sent) \/ Rollouts!Note(o, error)
  <2>1. /\ row \in [Rollouts!Execution -> Rollouts!Row \cup {Rollouts!NoRow}]
        /\ e \in Rollouts!Execution /\ old \in Rollouts!Row
    BY <1>1 DEF RolloutsInv, RowsFollow, Rollouts!Rows
  <2>2. PICK yes \in BOOLEAN : yes = TRUE
    OBVIOUS
  <2>3. PICK mid : mid = [row EXCEPT ![e] = [old EXCEPT !.status = "dispatched"]]
    OBVIOUS
  <2>4. row' = [mid EXCEPT ![e] = [mid[e] EXCEPT !.sent = yes]]
    BY <1>6, <2>2, <2>3
  <2>5. old = [device |-> old.device, plugin |-> old.plugin, status |-> old.status, by |-> old.by,
               sent |-> old.sent, old |-> old.old]
    BY <2>1 DEF Rollouts!Row
  <2>6. mid[e] = [device |-> old.device, plugin |-> old.plugin, status |-> "dispatched", by |-> old.by,
                  sent |-> old.sent, old |-> old.old]
    <3>1. mid[e] = [old EXCEPT !.status = "dispatched"]
      BY <2>1, <2>3
    <3> HIDE DEF old
    <3> QED
      BY <3>1, <2>5
  <2> DEFINE new == [mid[e] EXCEPT !.sent = yes]
  <2>7. new = [device |-> old.device, plugin |-> old.plugin, status |-> "dispatched", by |-> old.by,
               sent |-> yes, old |-> old.old]
    <3>1. PICK was : was = mid[e]
      OBVIOUS
    <3>2. [was EXCEPT !.sent = yes] = [device |-> old.device, plugin |-> old.plugin, status |-> "dispatched",
                                       by |-> old.by, sent |-> yes, old |-> old.old]
      <4> HIDE DEF old
      <4> QED
        BY <3>1, <2>6
    <3> QED
      BY <3>1, <3>2
  <2>8. row' = [row EXCEPT ![e] = new]
    <3> HIDE DEF new, e
    <3> QED
      BY <2>1, <2>3, <2>4 DEF new
  <2>9. new \in Rollouts!Row /\ new.device = old.device /\ new.by = old.by /\ new.sent = yes
    BY <2>1, <2>7 DEF Rollouts!Row, Rollouts!Active
  <2> HIDE DEF new
  <2>10. /\ RowsKept /\ Rollouts!Rows' = Rollouts!Rows
         /\ row' \in [Rollouts!Execution -> Rollouts!Row \cup {Rollouts!NoRow}]
    BY <1>1, <2>2, <2>8, <2>9, RowSteps
  <2>11. row'[e].sent
    BY <2>1, <2>2, <2>8, <2>9
  <2>12. ASSUME Rollouts!Note(o, sent) PROVE RolloutsInv'
    BY <1>1, <1>3, <2>10, <2>11, <2>12, NotedFollows
  <2>13. ASSUME Rollouts!Note(o, error) PROVE RolloutsInv'
    BY <1>1, <1>2, <2>10, <2>13, NotedFollows
  <2> QED
    BY <1>6, <2>12, <2>13
<1> QED
  BY <1>4, <1>5, <1>6

\* Nothing happens to the calls and their rows.
LEMMA FleetsMove ==
    ASSUME RolloutsInv, FleetInv', UNCHANGED <<row, op>> PROVE RolloutsInv'
<1>1. RowsKept /\ Rollouts!Rows' = Rollouts!Rows
  BY DEF RowsKept, Rollouts!Rows
<1>2. \A i \in Op : CallFollows(i)'
  BY <1>1, OthersFollow DEF RolloutsInv
<1>3. RowsFollow'
  BY <1>1 DEF RolloutsInv, RowsFollow
<1> QED
  BY <1>2, <1>3 DEF RolloutsInv

\* Initially there is nothing.
LEMMA RolloutsStart ==
    ASSUME Rollouts!ConstantsFit,
           Rollouts!Init \/ \E f \in Fleet, members \in SUBSET Member : Rollouts!InitWith(f, members)
    PROVE  RolloutsInv
<1>1. row = [e \in Rollouts!Execution |-> Rollouts!NoRow] /\ op = [o \in Op |-> NoOp]
  BY DEF Rollouts!Init, Rollouts!InitWith
<1>2. Rollouts!Rows = {} /\ RowsFollow
  <2>1. Rollouts!Rows = {}
    BY <1>1 DEF Rollouts!Rows
  <2>2. 0 \in 0..MaxRows /\ 1..0 = {}
    BY DEF Rollouts!ConstantsFit
  <2> QED
    BY <1>1, <2>1, <2>2 DEF RowsFollow
<1>3. FleetInv
  <2>1. /\ health = [f \in Fleet |-> Rollouts!NoReport]
        /\ status = [d \in Member |-> "online"]
        /\ member \subseteq Fleet \X Member
        /\ fleet \in [Fleet -> {Missing, "active", Deleted}]
    BY DEF Rollouts!Init, Rollouts!InitWith, Rollouts!FleetInit
  <2> DEFINE none == [d \in {} |-> "unknown"]
  <2>2. PICK no : no = FALSE
    OBVIOUS
  <2>3. Rollouts!NoReport = [open |-> no, ids |-> {}, heard |-> none] /\ DOMAIN none = {}
    BY <2>2 DEF Rollouts!NoReport
  <2> HIDE DEF none
  <2>4. /\ Rollouts!NoReport.open = no /\ Rollouts!NoReport.ids = {} /\ Rollouts!NoReport.heard = none
    BY <2>3
  <2>5. \A f \in Fleet : health[f] = Rollouts!NoReport
    BY <2>1
  <2>6. ReportsAreHeard
    BY <2>1, <2>3, <2>4, <2>5 DEF ReportsAreHeard
  <2>7. Rollouts!FleetTypeOK
    BY <2>1, <2>3, <2>4, <2>5 DEF Rollouts!FleetTypeOK, Rollouts!DeviceStatus
  <2> QED
    BY <2>6, <2>7 DEF FleetInv
<1> QED
  BY <1>1, <1>2, <1>3 DEF RolloutsInv, CallFollows

\* Every step of the rollouts and of the fleets keeps the invariant.
LEMMA RolloutsStep ==
    ASSUME Rollouts!ConstantsFit, RolloutsInv, [Rollouts!Next]_(Rollouts!vars) PROVE RolloutsInv'
<1>1. ASSUME UNCHANGED Rollouts!vars PROVE RolloutsInv'
  <2>1. UNCHANGED <<fleet, member, health, status, row, op>>
    BY <1>1 DEF Rollouts!vars
  <2>2. FleetInv'
    BY <2>1 DEF RolloutsInv, FleetInv, ReportsAreHeard, Rollouts!FleetTypeOK, Rollouts!DeviceStatus
  <2> QED
    BY <2>1, <2>2, FleetsMove
<1>2. ASSUME Rollouts!FleetChanges \/ Rollouts!FleetReports, UNCHANGED <<row, op>> PROVE RolloutsInv'
  BY <1>2, FleetStep, FleetsMove DEF RolloutsInv
<1>3. ASSUME NEW o \in Op, Rollouts!create_refused(o) \/ Rollouts!deploy_refused(o) PROVE RolloutsInv'
  BY <1>3, RefusedFollows
<1>4. ASSUME NEW o \in Op, Rollouts!dispatch_step(o) PROVE RolloutsInv'
  BY <1>4, DispatchFollows
<1>5. ASSUME NEW o \in Op, NEW e \in Rollouts!Execution,
             Rollouts!create_step(o, e) \/ Rollouts!deploy_step(o, e)
      PROVE  RolloutsInv'
  BY <1>5, CreateFollows
<1>6. ASSUME NEW e \in Rollouts!Execution,
             Rollouts!ages(e) \/ \E s \in Outcomes \cup {"cancelled"} : Rollouts!moves(e, s)
      PROVE  RolloutsInv'
  BY <1>6, LivesFollow
<1>7. ASSUME NEW o \in Op,
             \/ \E f \in Fleet, p \in Plugin \cup {NoPlugin}, stop \in BOOLEAN :
                  \/ \E sizes \in RingSizes, max \in MaxRings :
                       Rollouts!rollout_execution_to_fleet(o, f, p, sizes, max, stop)
                  \/ Rollouts!deploy_function_to_fleet(o, f, p, stop)
             \/ \E f \in Fleet, p \in Plugin : Rollouts!invoke_function_on_fleet(o, f, p)
             \/ \E d \in Member, n \in Steps, stop \in BOOLEAN : Rollouts!execute_runbook(o, d, n, stop)
      PROVE  RolloutsInv'
  BY <1>7, StartsFollow
<1> QED
  BY <1>1, <1>2, <1>3, <1>4, <1>5, <1>6, <1>7 DEF Rollouts!Next, Rollouts!Calls

\* What the invariant says of every state.
LEMMA InvAccounts ==
    ASSUME Rollouts!ConstantsFit, RolloutsInv PROVE Rollouts!TypeOK /\ RolloutsAccount
<1>1. Rollouts!TypeOK
  BY DEF RolloutsInv, FleetInv, RowsFollow, Rollouts!TypeOK
<1>2. Rollouts!ResultsAccount
  BY DEF RolloutsInv, CallFollows, CallInv, Rollouts!ResultsAccount
<1>3. Rollouts!StopsAfterFailure
  BY DEF RolloutsInv, CallFollows, CallInv, Rollouts!StopsAfterFailure
<1>4. Rollouts!FleetsAreCovered /\ Rollouts!SidesAgree /\ Rollouts!HealthAdds /\ Rollouts!DriftIsTrue
  BY <1>1, FleetsCovered, SidesFollow, HealthFollows, DriftFollows DEF RolloutsInv, FleetInv
<1> QED
  BY <1>1, <1>2, <1>3, <1>4 DEF RolloutsAccount

\* From the empty tables on, every state is one of the invariant.
LEMMA RolloutsInvariant == Rollouts!Spec => []RolloutsInv
<1>1. Rollouts!Init => RolloutsInv
  BY RolloutsStart, FleetAssumption
<1>2. RolloutsInv /\ [Rollouts!Next]_(Rollouts!vars) => RolloutsInv'
  BY RolloutsStep, FleetAssumption
<1> QED
  BY <1>1, <1>2, PTL DEF Rollouts!Spec

\* What is rolled out to fleets of any size, in rings of any sizes, is accounted for by the
\* results of its calls, whatever calls, cancellations and changes of the fleets overlap; a
\* call that stops on failures does; and reports and drift follow members and installs.
THEOREM RolloutsStayAccounted == Rollouts!Spec => []RolloutsAccount
<1>1. RolloutsInv => RolloutsAccount
  BY InvAccounts, FleetAssumption
<1> QED
  BY <1>1, RolloutsInvariant, PTL

-----------------------------------------------------------------------------
(* The data services together *)

\* What the assistant is told of a device's violations and what is aggregated of a fleet's
\* readings is right, whatever batches and reports come in between.
THEOREM ReportsStayRight == Telemetry!Spec /\ Rollouts!Spec => []ReportsAreRight
<1>1. RolloutsInv => Rollouts!AggregateIsRight
  BY AggregateHolds, FleetAssumption DEF RolloutsInv, FleetInv, Rollouts!FleetTypeOK
<1>2. Telemetry!Spec => []Telemetry!AssistantIsRight
  BY AssistantStaysRight
<1> QED
  BY <1>1, <1>2, RolloutsInvariant, PTL DEF ReportsAreRight

\* Beside each other, the data services keep every table, call and file of its type.
THEOREM TypesStay ==
    /\ Spec /\ Shadow!Spec /\ Credentials!Spec /\ DeviceRecords!Spec /\ Telemetry!Spec
    /\ Plugins!Spec /\ Runtime!Spec /\ Store!Spec /\ Rollouts!Spec
    => []TypesOK
<1>1. /\ Spec => []TypeOK
      /\ Shadow!Spec => []ShadowInv
      /\ Credentials!Spec => []CredentialInv
      /\ DeviceRecords!Spec => [](OwnersInv /\ TrailInv)
      /\ Telemetry!Spec => []ViolationsInv
  BY TypeCorrect, ShadowInvariant, CredentialInvariant, RecordsInvariant, ViolationsInvariant
<1>2. /\ Plugins!Spec => []PluginInv
      /\ Runtime!Spec => []RuntimeInv
      /\ Store!Spec => []StoreInv
      /\ Rollouts!Spec => []RolloutsInv
  BY PluginInvariant, RuntimeInvariant, StoreInvariant, RolloutsInvariant
<1>3. /\ TypeOK /\ ShadowInv /\ CredentialInv /\ OwnersInv /\ ViolationsInv
      /\ PluginInv /\ RuntimeInv /\ StoreInv /\ RolloutsInv
      => TypesOK
  BY InvAccounts, FleetAssumption
     DEF ShadowInv, CredentialInv, OwnersInv, ViolationsInv, PluginInv, RuntimeInv, StoreInv, TypesOK
<1> QED
  BY <1>1, <1>2, <1>3, PTL
=============================================================================
