----------------------------- MODULE DeviceProofs -----------------------------
(***************************************************************************)
(* What device-service and an agent keep of a device, for any number of    *)
(* handlers, keys, samples and crashes: the properties of DeviceServices,  *)
(* each from an invariant of the module it is about.  And Discovery, for   *)
(* every set of announcements, owners and handlers: what overlapping       *)
(* claims, rejections and expiries may do to a pairing, and what not.      *)
(***************************************************************************)
EXTENDS DeviceServices, Discovery, FiniteSetTheorems, WellFoundedInduction, TLAPS

-----------------------------------------------------------------------------
(* Numbers and finite sets *)

\* A set of numbers that is not empty has a least one.
LEMMA LeastNumber ==
    ASSUME NEW S \in SUBSET Nat, S # {}
    PROVE  \E n \in S : \A m \in S : n <= m
<1>1. IsWellFoundedOn(OpToRel(<, Nat), Nat)
  BY NatLessThanWellFounded
<1>2. \E n \in S : \A m \in S : ~(<<m, n>> \in OpToRel(<, Nat))
  BY <1>1, WFMin
<1>3. \A m, n \in Nat : m < n => <<m, n>> \in OpToRel(<, Nat)
  BY DEF OpToRel
<1>4. \A m, n \in Nat : ~(m < n) => n <= m
  OBVIOUS
<1> QED
  BY <1>2, <1>3, <1>4, Zenon

\* A finite set of numbers has a greatest one.
LEMMA GreatestNumber ==
    ASSUME NEW S \in SUBSET Int, IsFiniteSet(S), S # {}
    PROVE  \E n \in S : \A m \in S : m <= n
<1> DEFINE without == {A \in SUBSET S : A # {} /\ ~\E n \in A : \A m \in A : m <= n}
           sizes == {Cardinality(A) : A \in without}
<1>1. \A A \in SUBSET S : IsFiniteSet(A) /\ Cardinality(A) \in Nat
  BY FS_Subset, FS_CardinalityType
<1> SUFFICES ASSUME S \in without PROVE FALSE
  OBVIOUS
<1>2. sizes \in SUBSET Nat /\ sizes # {}
  BY <1>1
<1>3. PICK k \in sizes : \A m \in sizes : k <= m
  BY <1>2, LeastNumber
<1>4. PICK A \in without : Cardinality(A) = k
  BY <1>3
<1>5. PICK x \in A : TRUE
  BY <1>4
<1>6. /\ A \ {x} \in SUBSET S /\ IsFiniteSet(A \ {x})
      /\ Cardinality(A \ {x}) = Cardinality(A) - 1
  BY <1>1, <1>4, <1>5, FS_RemoveElement
<1>7. A \ {x} \notin without
  <2> HIDE DEF without
  <2> SUFFICES ASSUME A \ {x} \in without PROVE FALSE
    OBVIOUS
  <2>1. Cardinality(A \ {x}) \in sizes
    OBVIOUS
  <2>2. Cardinality(A) \in Nat
    BY <1>1 DEF without
  <2> QED
    BY <2>1, <2>2, <1>3, <1>4, <1>6
<1>8. x \in Int
  BY <1>4, <1>5
<1>9. CASE A = {x}
  BY <1>9, <1>4, <1>8
<1>10. CASE A # {x}
  <2>1. A \ {x} # {}
    BY <1>10, <1>5
  <2>2. PICK y \in A \ {x} : \A m \in A \ {x} : m <= y
    BY <2>1, <1>6, <1>7
  <2>3. y \in Int /\ \A m \in A : m \in Int
    BY <2>2, <1>4
  <2>4. CASE x <= y
    BY <2>4, <2>2, <2>3, <1>4
  <2>5. CASE ~(x <= y)
    BY <2>5, <2>2, <2>3, <1>4, <1>5, <1>8
  <2> QED
    BY <2>4, <2>5
<1> QED
  BY <1>9, <1>10

\* What a function takes a finite set to is finite.
LEMMA FiniteImage ==
    ASSUME NEW S, IsFiniteSet(S), NEW f
    PROVE  IsFiniteSet({f[x] : x \in S})
<1> DEFINE g == [x \in S |-> f[x]]
           T == {f[x] : x \in S}
<1>1. g \in Surjection(S, T)
  BY DEF Surjection
<1> QED
  BY <1>1, FS_Surjection, Zenon

\* Of a finite set some n elements are those of the greatest keys.
LEMMA GreatestFirst ==
    ASSUME NEW S, IsFiniteSet(S), NEW key \in [S -> Int], NEW n \in 0..Cardinality(S)
    PROVE  \E W \in SUBSET S : Cardinality(W) = n /\ \A w \in W, v \in S \ W : key[v] <= key[w]
<1> DEFINE Good(k, W) == Cardinality(W) = k /\ \A w \in W, v \in S \ W : key[v] <= key[w]
           bad == {k \in 0..Cardinality(S) : \A W \in SUBSET S : ~Good(k, W)}
<1>1. Cardinality(S) \in Nat
  BY FS_CardinalityType
<1>2. SUFFICES ASSUME bad # {} PROVE FALSE
  OBVIOUS
<1>3. PICK k \in bad : \A m \in bad : k <= m
  <2>1. bad \in SUBSET Nat
    BY <1>1
  <2> QED
    BY <2>1, <1>2, LeastNumber
<1>4. k \in Nat /\ k <= Cardinality(S)
  BY <1>1
<1>5. k # 0
  <2>1. {} \in SUBSET S /\ Good(0, {})
    BY FS_EmptySet
  <2> QED
    BY <2>1
<1>6. PICK W \in SUBSET S : Good(k - 1, W)
  <2>1. k - 1 \in 0..Cardinality(S) /\ ~(k <= k - 1)
    BY <1>1, <1>4, <1>5
  <2>2. k - 1 \notin bad
    BY <2>1, <1>3
  <2> QED
    BY <2>1, <2>2
<1>7. IsFiniteSet(W) /\ IsFiniteSet(S \ W) /\ S \ W # {}
  <2>1. IsFiniteSet(W) /\ IsFiniteSet(S \ W)
    BY FS_Subset
  <2>2. W # S
    BY <1>4, <1>6, <1>1
  <2> QED
    BY <2>1, <2>2
<1>8. PICK x \in S \ W : \A v \in S \ W : key[v] <= key[x]
  <2> DEFINE keys == {key[v] : v \in S \ W}
  <2>1. IsFiniteSet(keys) /\ keys \in SUBSET Int /\ keys # {}
    BY <1>7, FiniteImage
  <2>2. PICK g \in keys : \A m \in keys : m <= g
    BY <2>1, GreatestNumber
  <2> QED
    BY <2>2
<1>9. Cardinality(W \cup {x}) = k
  <2>1. Cardinality(W \cup {x}) = Cardinality(W) + 1
    BY <1>7, <1>8, FS_AddElement
  <2> QED
    BY <2>1, <1>4, <1>6
<1>10. W \cup {x} \in SUBSET S /\ \A w \in W \cup {x}, v \in S \ (W \cup {x}) : key[v] <= key[w]
  BY <1>6, <1>8
<1> QED
  BY <1>9, <1>10, <1>3

\* There are n numbers from 1 to n.
LEMMA Numbers == ASSUME NEW n \in Nat PROVE IsFiniteSet(1..n) /\ Cardinality(1..n) = n
<1>1. IsFiniteSet(1..n) /\ Cardinality(1..n) = IF 1 > n THEN 0 ELSE n - 1 + 1
  BY FS_Interval
<1> QED
  BY <1>1

\* The elements of a set are as many as the pairs of a class and a number up to its size.
LEMMA SumOfClasses ==
    ASSUME NEW S, IsFiniteSet(S), NEW M, IsFiniteSet(M), NEW c, NEW of \in [M -> SUBSET S],
           \A x \in S : \E m \in M : x \in of[m],
           \A x \in S, m, n \in M : x \in of[m] /\ x \in of[n] => m = n,
           \A m \in M : c[m] = Cardinality(of[m])
    PROVE  Cardinality(UNION {{m} \X (1..c[m]) : m \in M}) = Cardinality(S)
<1> DEFINE pairs == UNION {{m} \X (1..c[m]) : m \in M}
           g(m) == CHOOSE h \in [1..c[m] -> of[m]] : h \in Bijection(1..c[m], of[m])
           G == [p \in pairs |-> g(p[1])[p[2]]]
<1>1. \A m \in M : IsFiniteSet(of[m]) /\ c[m] \in Nat
  BY FS_Subset, FS_CardinalityType
<1>2. \A m \in M : g(m) \in Bijection(1..c[m], of[m])
  <2> TAKE m \in M
  <2>1. ExistsBijection(1..c[m], of[m])
    BY <1>1, FS_CardinalityType
  <2>2. \E h \in [1..c[m] -> of[m]] : h \in Bijection(1..c[m], of[m])
    BY <2>1 DEF ExistsBijection, Bijection, Injection
  <2> QED
    BY <2>2, Zenon
<1> HIDE DEF g
<1>3. \A m \in M : /\ g(m) \in [1..c[m] -> of[m]]
                   /\ \A i, j \in 1..c[m] : g(m)[i] = g(m)[j] => i = j
                   /\ \A x \in of[m] : \E i \in 1..c[m] : g(m)[i] = x
  <2> TAKE m \in M
  <2>1. PICK h : h = g(m)
    OBVIOUS
  <2>2. h \in Bijection(1..c[m], of[m])
    BY <2>1, <1>2
  <2>3. DOMAIN h = 1..c[m]
    BY <2>2 DEF Bijection, Injection
  <2>4. /\ h \in [1..c[m] -> of[m]]
        /\ \A i, j \in 1..c[m] : h[i] = h[j] => i = j
        /\ \A x \in of[m] : \E i \in 1..c[m] : h[i] = x
    BY <2>2, <2>3 DEF Bijection, Injection, IsInjective, Surjection
  <2> QED
    BY <2>1, <2>4
<1>4. \A p \in pairs : p[1] \in M /\ p[2] \in 1..c[p[1]] /\ p = <<p[1], p[2]>>
  OBVIOUS
<1>5. \A m \in M : \A i \in 1..c[m] : <<m, i>> \in pairs
  OBVIOUS
<1> HIDE DEF pairs
<1>6. G \in [pairs -> S] /\ \A p \in pairs : G[p] \in of[p[1]]
  <2>1. \A p \in pairs : g(p[1])[p[2]] \in of[p[1]] /\ of[p[1]] \subseteq S
    <3> TAKE p \in pairs
    <3>1. p[1] \in M /\ p[2] \in 1..c[p[1]]
      BY <1>4
    <3>2. g(p[1]) \in [1..c[p[1]] -> of[p[1]]]
      BY <3>1, <1>3
    <3> QED
      BY <3>1, <3>2
  <2> QED
    BY <2>1
<1>7. \A p, q \in pairs : G[p] = G[q] => p = q
  <2> SUFFICES ASSUME NEW p \in pairs, NEW q \in pairs, G[p] = G[q] PROVE p = q
    OBVIOUS
  <2>1. G[p] \in of[p[1]] /\ G[q] \in of[q[1]]
    BY <1>6
  <2>2. p[1] = q[1]
    BY <2>1, <1>4
  <2>3. p[2] = q[2]
    BY <2>2, <1>3, <1>4
  <2> QED
    BY <2>2, <2>3, <1>4
<1>8. \A x \in S : \E p \in pairs : G[p] = x
  <2> TAKE x \in S
  <2>1. PICK m \in M : x \in of[m]
    OBVIOUS
  <2>2. PICK i \in 1..c[m] : g(m)[i] = x
    BY <2>1, <1>3
  <2>3. <<m, i>> \in pairs
    BY <1>5
  <2>4. G[<<m, i>>] = x
    BY <2>2, <2>3
  <2> QED
    BY <2>3, <2>4
<1>9. G \in Injection(pairs, S) /\ G \in Surjection(pairs, S)
  <2> HIDE DEF G
  <2> QED
    BY <1>6, <1>7, <1>8 DEF Injection, IsInjective, Surjection
<1>10. Cardinality(pairs) = Cardinality(S)
  <2> HIDE DEF G
  <2> QED
    BY <1>9, FS_Injection
<1> QED
  BY <1>10 DEF pairs

-----------------------------------------------------------------------------
(* Shadow *)

\* A handler that is alone still finds the row as it read it, and its version has room.
ReadersAreBehind ==
    \A w \in Writer : writer[w].step = "read" =>
        /\ writer[w].alone => writer[w].read = shadow
        /\ \A row \in writer[w].read : row.version < MaxVersion
        /\ writer[w].read = {} \/ \E row \in Shadow!Row : writer[w].read = {row}

\* The inductive invariant of the shadow: one row at most.
ShadowInv ==
    /\ Shadow!TypeOK /\ ReadersAreBehind /\ Shadow!DeltaHeals /\ Shadow!EventsAreCurrent
    /\ shadow = {} \/ \E row \in Shadow!Row : shadow = {row}

\* A device without a shadow has a coherent one.
LEMMA ShadowInit ==
    ASSUME Shadow!ConstantsFit, Shadow!Init PROVE ShadowInv
<1> USE DEF Shadow!Init, Shadow!Idle
<1>1. Shadow!TypeOK
  BY DEF Shadow!TypeOK
<1> QED
  BY <1>1 DEF ShadowInv, ReadersAreBehind, Shadow!DeltaHeals, Shadow!EventsAreCurrent

\* An update merges into a row with the delta of what it merged and the next version.
LEMMA MergedRows ==
    ASSUME Shadow!ConstantsFit, NEW row \in Shadow!Row, row.version < MaxVersion,
           NEW s \in Shadow!Side, NEW body \in Shadow!Update
    PROVE  LET new == Shadow!Merged(row, s, body) IN
           /\ new \in Shadow!Row
           /\ new.delta = Shadow!_compute_delta(new.desired, new.reported)
           /\ new.version = row.version + 1
<1> DEFINE desired == IF s = "desired" THEN Shadow!Merge(row.desired, body) ELSE row.desired
           reported == IF s = "desired" THEN row.reported ELSE Shadow!Merge(row.reported, body)
<1>1. ASSUME NEW old \in Shadow!Document PROVE Shadow!Merge(old, body) \in Shadow!Document
  BY Shadow!ConstantsFit DEF Shadow!Merge, Shadow!Document, Shadow!Update
<1>2. desired \in Shadow!Document /\ reported \in Shadow!Document
  BY <1>1 DEF Shadow!Row
<1>3. Shadow!_compute_delta(desired, reported) \in Shadow!Document
  BY <1>2 DEF Shadow!_compute_delta, Shadow!Document
<1>4. row.version + 1 \in 1..MaxVersion
  <2>1. row.version \in 1..MaxVersion
    BY DEF Shadow!Row
  <2> QED
    BY <2>1 DEF Shadow!ConstantsFit
<1> HIDE DEF desired, reported
<1>5. Shadow!Merged(row, s, body) =
        [desired |-> desired, reported |-> reported,
         delta |-> Shadow!_compute_delta(desired, reported), version |-> row.version + 1]
  BY DEF Shadow!Merged, desired, reported
<1> QED
  BY <1>2, <1>3, <1>4, <1>5 DEF Shadow!Row

\* What an UPDATE leaves: the columns the handler changed, and the others as they are.
LEMMA WrittenRow ==
    ASSUME NEW now \in Shadow!Row, NEW read \in Shadow!Row, NEW new \in Shadow!Row
    PROVE  /\ Shadow!Written(now, read, new) \in Shadow!Row
           /\ now = read => Shadow!Written(now, read, new) = new
<1> USE DEF Shadow!Row, Shadow!Written
<1>1. Shadow!Written(now, read, new) \in Shadow!Row
  OBVIOUS
<1>2. now = read => Shadow!Written(now, read, new) = new
  OBVIOUS
<1> QED
  BY <1>1, <1>2

\* A handler that has been overtaken is no longer alone, and else as it was.
LEMMA OvertakenCalls ==
    ASSUME NEW block \in Shadow!Reading \cup Shadow!Committed
    PROVE  LET over == [block EXCEPT !.alone = FALSE] IN
           /\ over \in Shadow!Reading \cup Shadow!Committed
           /\ over.step = block.step /\ over.alone = FALSE
           /\ block \in Shadow!Reading => over.read = block.read
<1>1. CASE block \in Shadow!Reading
  BY <1>1 DEF Shadow!Reading, Shadow!Committed
<1>2. CASE block \in Shadow!Committed
  BY <1>2 DEF Shadow!Reading, Shadow!Committed
<1> QED
  BY <1>1, <1>2

\* Every step of the shadow's writers keeps its invariant: a handler that is overtaken
\* may leave a wrong delta, and is then neither fresh nor alone.
LEMMA ShadowStep ==
    ASSUME Shadow!ConstantsFit, ShadowInv, [Shadow!Next]_(Shadow!vars)
    PROVE  ShadowInv'
<1> USE DEF ShadowInv, Shadow!TypeOK, ReadersAreBehind, Shadow!DeltaHeals, Shadow!EventsAreCurrent,
            Shadow!Idle
<1>1. ASSUME NEW w \in Writer, Shadow!Commit(w)
      PROVE  ShadowInv'
  <2> DEFINE read == IF shadow = {} THEN Shadow!NewRow ELSE CHOOSE r \in writer[w].read : TRUE
             now == IF shadow = {} THEN Shadow!NewRow ELSE CHOOSE r \in shadow : TRUE
             new == Shadow!Merged(read, writer[w].side, writer[w].body)
             event == Shadow!Event(read, new, writer[w].alone)
  <2>1. writer[w] \in Shadow!Reading
    BY <1>1 DEF Shadow!Commit, Shadow!Committed
  <2>2. /\ (writer[w].read = {}) = (shadow = {})
        /\ shadow' = {Shadow!Written(now, read, new)}
        /\ fresh' = (now = read)
        /\ writer' = Shadow!Overtake(w, event)
        /\ present' = present
    BY <1>1 DEF Shadow!Commit
  <2>3. Shadow!NewRow \in Shadow!Row /\ Shadow!NewRow.version = 1
    BY DEF Shadow!NewRow, Shadow!Row, Shadow!Empty, Shadow!Document, Shadow!ConstantsFit
  <2>4. read \in Shadow!Row /\ read.version < MaxVersion
    <3>1. CASE shadow = {}
      BY <2>3, <3>1 DEF Shadow!ConstantsFit
    <3>2. CASE shadow # {}
      BY <1>1, <2>2, <3>2 DEF Shadow!Commit
    <3> QED
      BY <3>1, <3>2
  <2>5. now \in Shadow!Row
    BY <2>3
  <2>6. writer[w].side \in Shadow!Side /\ writer[w].body \in Shadow!Update /\ writer[w].alone \in BOOLEAN
    BY <2>1 DEF Shadow!Reading
  <2>7. writer[w].alone => now = read
    BY <1>1, <2>2 DEF Shadow!Commit
  <2> HIDE DEF read, now
  <2>8. /\ new \in Shadow!Row
        /\ new.delta = Shadow!_compute_delta(new.desired, new.reported)
    BY <2>4, <2>6, MergedRows
  <2> HIDE DEF new
  <2>9. /\ Shadow!Written(now, read, new) \in Shadow!Row
        /\ now = read => Shadow!Written(now, read, new) = new
    BY <2>4, <2>5, <2>8, WrittenRow
  <2>10. /\ event \in Shadow!Committed /\ event.step = "committed"
         /\ event.alone = writer[w].alone /\ event.delta = new.delta /\ event.version = new.version
    BY <2>6, <2>8 DEF Shadow!Event, Shadow!Committed, Shadow!Row
  <2> HIDE DEF event
  <2>11. writer'[w] = event
    BY <2>2 DEF Shadow!Overtake
  <2>12. ASSUME NEW o \in Writer, o # w
         PROVE  /\ writer'[o] \in Shadow!Reading \cup Shadow!Committed \cup {Shadow!Idle}
                /\ writer'[o].step = writer[o].step
                /\ writer'[o].step \in {"read", "committed"} => ~writer'[o].alone
                /\ writer'[o].step = "read" => writer'[o].read = writer[o].read
    <3>1. CASE writer[o] = Shadow!Idle
      BY <2>2, <2>12, <3>1 DEF Shadow!Overtake
    <3>2. CASE writer[o] # Shadow!Idle
      <4>1. writer'[o] = [writer[o] EXCEPT !.alone = FALSE]
        BY <2>2, <2>12, <3>2 DEF Shadow!Overtake
      <4>2. writer[o] \in Shadow!Reading \cup Shadow!Committed
        BY <3>2
      <4> QED
        BY <4>1, <4>2, OvertakenCalls
    <3> QED
      BY <3>1, <3>2
  <2>13. Shadow!TypeOK'
    <3>1. writer' \in [Writer -> Shadow!Reading \cup Shadow!Committed \cup {Shadow!Idle}]
      BY <2>2, <2>10, <2>11, <2>12 DEF Shadow!Overtake
    <3> QED
      BY <2>2, <2>9, <3>1
  <2>14. ReadersAreBehind'
    BY <2>10, <2>11, <2>12
  <2>15. Shadow!DeltaHeals'
    BY <2>2, <2>8, <2>9
  <2>16. Shadow!EventsAreCurrent'
    BY <2>2, <2>7, <2>9, <2>10, <2>11, <2>12
  <2>17. (shadow = {} \/ \E row \in Shadow!Row : shadow = {row})'
    BY <2>2, <2>9
  <2> QED
    BY <2>13, <2>14, <2>15, <2>16, <2>17
<1>2. ASSUME NEW w \in Writer, Shadow!Conflict(w)
      PROVE  ShadowInv'
  BY <1>2 DEF Shadow!Conflict
<1>3. ASSUME NEW w \in Writer, Shadow!Publish(w)
      PROVE  ShadowInv'
  BY <1>3 DEF Shadow!Publish
<1>4. ASSUME NEW w \in Writer, NEW s \in Shadow!Side, NEW body \in Shadow!Update,
             Shadow!_get_or_create_shadow(w, s, body)
      PROVE  ShadowInv'
  <2> DEFINE new == [step |-> "read", side |-> s, body |-> body, read |-> shadow, alone |-> TRUE]
  <2>1. /\ writer' = [writer EXCEPT ![w] = new]
        /\ \A row \in shadow : row.version < MaxVersion
        /\ UNCHANGED <<present, shadow, fresh>>
    BY <1>4 DEF Shadow!_get_or_create_shadow
  <2>2. new \in Shadow!Reading
    BY DEF Shadow!Reading
  <2>3. new.step = "read" /\ new.read = shadow
    OBVIOUS
  <2> HIDE DEF new
  <2>4. writer' \in [Writer -> Shadow!Reading \cup Shadow!Committed \cup {[step |-> "idle"]}]
    BY <2>1, <2>2
  <2> QED
    BY <2>1, <2>3, <2>4
<1>5. CASE Shadow!delete_shadow
  <2>1. /\ shadow' = {} /\ UNCHANGED <<present, fresh>>
        /\ writer' = [o \in Writer |-> IF writer[o] = [step |-> "idle"] THEN [step |-> "idle"]
                                       ELSE [writer[o] EXCEPT !.alone = FALSE]]
    BY <1>5 DEF Shadow!delete_shadow
  <2>2. writer' \in [Writer -> Shadow!Reading \cup Shadow!Committed \cup {[step |-> "idle"]}]
    BY <2>1, OvertakenCalls
  <2>3. ASSUME NEW o \in Writer, writer'[o].step \in {"read", "committed"}
        PROVE  ~writer'[o].alone /\ writer'[o].step = writer[o].step /\ writer'[o].read = writer[o].read
    BY <2>1, <2>3 DEF Shadow!Reading, Shadow!Committed
  <2> QED
    BY <2>1, <2>2, <2>3
<1>6. CASE Shadow!delete_device \/ Shadow!register_agent \/ UNCHANGED Shadow!vars
  <2>1. UNCHANGED <<shadow, writer, fresh>> /\ present' \in BOOLEAN
    BY <1>6 DEF Shadow!delete_device, Shadow!register_agent, Shadow!vars
  <2> QED
    BY <2>1
<1> QED
  BY <1>1, <1>2, <1>3, <1>4, <1>5, <1>6 DEF Shadow!Next

\* Every state of a shadow is one of the invariant.
LEMMA ShadowInvariant == Shadow!Spec => []ShadowInv
<1> USE DeviceAssumption
<1>1. Shadow!Init => ShadowInv
  BY ShadowInit
<1>2. ShadowInv /\ [Shadow!Next]_(Shadow!vars) => ShadowInv'
  BY ShadowStep
<1> QED
  BY <1>1, <1>2, PTL DEF Shadow!Spec

\* A commit that finds the row it read leaves its delta right, whatever updates were lost
\* before it, and an event carries the delta and version its row has unless another has
\* committed since.
THEOREM ShadowStaysCoherent == Shadow!Spec => []ShadowIsCoherent
<1>1. ShadowInv => ShadowIsCoherent
  BY DEF ShadowInv, ShadowIsCoherent
<1> QED
  BY <1>1, ShadowInvariant, PTL

-----------------------------------------------------------------------------
(* Credentials *)

\* Without trouble a TPM holds what was saved last until it is undefined, and the file
\* is never used.
SealedIsLatest ==
    ~troubled /\ tpm =>
        /\ saving.step \notin {"file", "rename"}
        /\ saving.step \in {"idle", "undefine"} =>
             nv = (IF latest = NoPairing THEN Credentials!Undefined ELSE latest)

\* Without a TPM the file is replaced by what was written beside it.
FiledIsLatest ==
    ~tpm =>
        /\ saving.step \in {"idle", "file", "rename"}
        /\ file = latest
        /\ saving.step = "rename" => temporary = saving.what

\* The inductive invariant of the credentials.
CredentialInv ==
    /\ Credentials!TypeOK
    /\ SealedIsLatest /\ FiledIsLatest
    /\ saving.step # "idle" => saving.what \in Pairing

\* Every step of a save, a crash or a TPM that fails included, keeps what was saved last
\* where load looks for it, or marks the trouble.
LEMMA CredentialStep ==
    ASSUME Credentials!ConstantsFit, CredentialInv, [Credentials!Next]_(Credentials!vars)
    PROVE  CredentialInv'
<1> USE DEF Credentials!ConstantsFit, CredentialInv, Credentials!TypeOK, SealedIsLatest, FiledIsLatest,
            Credentials!Stages, Credentials!At, Credentials!Go, Credentials!Idle
<1>1. CASE Credentials!undefine_space
  BY <1>1 DEF Credentials!undefine_space
<1>2. CASE Credentials!define_space
  BY <1>2 DEF Credentials!define_space
<1>3. CASE Credentials!nv_write
  BY <1>3 DEF Credentials!nv_write
<1>4. CASE Credentials!tpm_fails
  BY <1>4 DEF Credentials!tpm_fails
<1>5. CASE Credentials!_file_save
  BY <1>5 DEF Credentials!_file_save
<1>6. CASE Credentials!file_rename
  BY <1>6 DEF Credentials!file_rename
<1>7. CASE Credentials!crash
  BY <1>7 DEF Credentials!crash
<1>8. ASSUME NEW p \in Pairing, Credentials!save(p)
      PROVE  CredentialInv'
  BY <1>8 DEF Credentials!save
<1>9. ASSUME NEW ok \in BOOLEAN, Credentials!clear(ok)
      PROVE  CredentialInv'
  BY <1>9 DEF Credentials!clear
<1>10. CASE UNCHANGED Credentials!vars
  BY <1>10 DEF Credentials!vars
<1> QED
  BY <1>1, <1>2, <1>3, <1>4, <1>5, <1>6, <1>7, <1>8, <1>9, <1>10 DEF Credentials!Next

\* Every state of the credentials is one of the invariant.
LEMMA CredentialInvariant == Credentials!Spec => []CredentialInv
<1> USE DeviceAssumption
<1>1. Credentials!Init => CredentialInv
  <2> SUFFICES ASSUME Credentials!Init PROVE CredentialInv
    OBVIOUS
  <2> USE DEF Credentials!Init, Credentials!ConstantsFit, Credentials!Idle
  <2>1. Credentials!TypeOK
    <3>1. tpm \in BOOLEAN /\ troubled \in BOOLEAN
      OBVIOUS
    <3>2. saving \in [step: Credentials!Stages, what: Pairing \cup {NoPairing}]
      BY DEF Credentials!Stages
    <3>3. nv = Credentials!Undefined /\ broken \in 0..MaxFaults
      OBVIOUS
    <3> QED
      BY <3>1, <3>2, <3>3 DEF Credentials!TypeOK
  <2>2. SealedIsLatest /\ FiledIsLatest
    BY DEF SealedIsLatest, FiledIsLatest
  <2> QED
    BY <2>1, <2>2 DEF CredentialInv
<1>2. CredentialInv /\ [Credentials!Next]_(Credentials!vars) => CredentialInv'
  BY CredentialStep
<1> QED
  BY <1>1, <1>2, PTL DEF Credentials!Spec

\* What load answers is the last pairing saved to the end, or none after a reset, through
\* crashes at any step, unless the TPM failed or the process died while the index was empty.
THEOREM LastSavedIsLoaded == Credentials!Spec => []LoadsLastSaved
<1> USE DeviceAssumption
<1>1. CredentialInv => LoadsLastSaved
  BY DEF CredentialInv, Credentials!ConstantsFit, Credentials!TypeOK, SealedIsLatest, FiledIsLatest,
     LoadsLastSaved, Credentials!LoadsLastSaved, Credentials!load, Credentials!_tpm_load, Credentials!At
<1> QED
  BY <1>1, CredentialInvariant, PTL

-----------------------------------------------------------------------------
(* DeviceRecords *)

\* What a grant that is under way was allowed to: by the owner or an operator, unless
\* the device was deleted since.
GrantsAreTheOwners ==
    \A c \in Handling : consenting[c].op = "grant" =>
        LET d == consenting[c].device IN
        /\ d \in used
        /\ DeviceRecords!Exists(d) /\ d \notin reborn => consenting[c].by \in Operators \cup {device[d].owner}

\* An id is used once its device exists or has a consent, a revoked one included.
IdsAreUsed ==
    /\ \A d \in Device : DeviceRecords!Exists(d) => d \in used
    /\ \A k \in consent : k.device \in used
    /\ \A c \in Handling : consenting[c].op = "revoke" => consenting[c].consent.device \in used

\* The inductive invariant of who consents.
OwnersInv ==
    /\ DeviceRecords!TypeOK
    /\ GrantsAreTheOwners /\ IdsAreUsed /\ DeviceRecords!ConsentsAreTheOwners

\* The kinds of calls.
LEMMA CallKinds ==
    ASSUME DeviceRecords!TypeOK, NEW c \in Handling
    PROVE  /\ consenting[c].op \in {"idle", "done", "delete", "update", "heartbeat", "register", "grant", "revoke"}
           /\ consenting[c].op \in {"delete", "update", "heartbeat", "register", "grant"} =>
                consenting[c].device \in Device
           /\ consenting[c].op = "heartbeat" => consenting[c].status \in {"offline", "online"}
           /\ consenting[c].op = "register" => consenting[c].owner \in User \cup {NoUser} /\ consenting[c].found \in BOOLEAN
           /\ consenting[c].op = "grant" => consenting[c].to \in Subject /\ consenting[c].by \in User
           /\ consenting[c].op = "revoke" => consenting[c].consent \in DeviceRecords!Consent
<1> DEFINE b == consenting[c]
<1>1. b \in DeviceRecords!Block \cup {DeviceRecords!Idle, DeviceRecords!Done}
  BY DEF DeviceRecords!TypeOK
<1> HIDE DEF b
<1> DEFINE Kinds ==
      /\ b.op \in {"idle", "done", "delete", "update", "heartbeat", "register", "grant", "revoke"}
      /\ b.op \in {"delete", "update", "heartbeat", "register", "grant"} => b.device \in Device
      /\ b.op = "heartbeat" => b.status \in {"offline", "online"}
      /\ b.op = "register" => b.owner \in User \cup {NoUser} /\ b.found \in BOOLEAN
      /\ b.op = "grant" => b.to \in Subject /\ b.by \in User
      /\ b.op = "revoke" => b.consent \in DeviceRecords!Consent
<1>2. ASSUME b \in {DeviceRecords!Idle, DeviceRecords!Done} PROVE Kinds
  BY <1>2 DEF DeviceRecords!Idle, DeviceRecords!Done
<1>3. ASSUME b \in [op: {"delete"}, device: Device] PROVE Kinds
  BY <1>3
<1>4. ASSUME b \in [op: {"update"}, device: Device, found: {TRUE}] PROVE Kinds
  BY <1>4
<1>5. ASSUME b \in [op: {"heartbeat"}, device: Device, status: {"offline", "online"}, found: {TRUE}] PROVE Kinds
  BY <1>5
<1>6. ASSUME b \in [op: {"register"}, device: Device, owner: User \cup {NoUser}, found: BOOLEAN] PROVE Kinds
  BY <1>6
<1>7. ASSUME b \in [op: {"grant"}, device: Device, to: Subject, by: User] PROVE Kinds
  BY <1>7
<1>8. ASSUME b \in [op: {"revoke"}, consent: DeviceRecords!Consent] PROVE Kinds
  BY <1>8
<1>9. Kinds
  BY <1>1, <1>2, <1>3, <1>4, <1>5, <1>6, <1>7, <1>8 DEF DeviceRecords!Block
<1> QED
  BY <1>9 DEF b

\* Every step of the handlers keeps rows, consents, trail and calls within their types.
LEMMA RecordTypeStep ==
    ASSUME DeviceRecords!TypeOK, [DeviceRecords!Next]_(DeviceRecords!vars)
    PROVE  DeviceRecords!TypeOK'
<1> USE DEF DeviceRecords!TypeOK
<1>0. ASSUME NEW c \in Handling, DeviceRecords!Finish(c)
      PROVE  consenting' \in [Handling -> DeviceRecords!Block \cup {DeviceRecords!Idle, DeviceRecords!Done}]
  BY <1>0 DEF DeviceRecords!Finish
<1>1. ASSUME NEW c \in Handling, NEW block \in DeviceRecords!Block, DeviceRecords!Begin(c, block)
      PROVE  DeviceRecords!TypeOK'
  BY <1>1 DEF DeviceRecords!Begin
<1>2. ASSUME NEW d \in Device, NEW u \in User, DeviceRecords!create_device(d, u)
      PROVE  DeviceRecords!TypeOK'
  BY <1>2 DEF DeviceRecords!create_device, DeviceRecords!DeviceRow
<1>3. ASSUME NEW c \in Handling, DeviceRecords!register_agent(c)
      PROVE  DeviceRecords!TypeOK'
  BY <1>0, <1>3, CallKinds DEF DeviceRecords!register_agent, DeviceRecords!DeviceRow
<1>4. ASSUME NEW c \in Handling, DeviceRecords!conflict(c) \/ DeviceRecords!update_device(c)
      PROVE  DeviceRecords!TypeOK'
  BY <1>0, <1>4 DEF DeviceRecords!conflict, DeviceRecords!update_device
<1>5. ASSUME NEW c \in Handling, DeviceRecords!heartbeat_agent(c)
      PROVE  DeviceRecords!TypeOK'
  BY <1>0, <1>5, CallKinds DEF DeviceRecords!heartbeat_agent, DeviceRecords!DeviceRow
<1>6. ASSUME NEW c \in Handling, DeviceRecords!delete_device(c)
      PROVE  DeviceRecords!TypeOK'
  BY <1>0, <1>6, CallKinds DEF DeviceRecords!delete_device, DeviceRecords!DeviceRow, DeviceRecords!Gone
<1>7. ASSUME NEW c \in Handling, DeviceRecords!grant_consent(c)
      PROVE  DeviceRecords!TypeOK'
  <2>1. consenting[c].device \in Device /\ consenting[c].to \in Subject /\ consenting[c].by \in User
    BY <1>7, CallKinds DEF DeviceRecords!grant_consent
  <2>2. consent' \subseteq DeviceRecords!Consent
    <3>1. [id |-> c, device |-> consenting[c].device, to |-> consenting[c].to, by |-> consenting[c].by,
           active |-> TRUE] \in DeviceRecords!Consent
      BY <2>1 DEF DeviceRecords!Consent
    <3> QED
      BY <1>7, <3>1 DEF DeviceRecords!grant_consent
  <2>3. trail' \subseteq DeviceRecords!Entry
    BY <1>7, <2>1 DEF DeviceRecords!grant_consent, DeviceRecords!Entry
  <2>4. crossed' \subseteq Device \X Subject
    BY <1>7, <2>1 DEF DeviceRecords!grant_consent
  <2> QED
    BY <1>0, <1>7, <2>2, <2>3, <2>4 DEF DeviceRecords!grant_consent
<1>8. ASSUME NEW c \in Handling, DeviceRecords!revoke_consent(c)
      PROVE  DeviceRecords!TypeOK'
  <2>1. consenting[c].consent \in DeviceRecords!Consent
    BY <1>8, CallKinds DEF DeviceRecords!revoke_consent
  <2>2. consent' \subseteq DeviceRecords!Consent
    <3>1. [consenting[c].consent EXCEPT !.active = FALSE] \in DeviceRecords!Consent
      BY <2>1 DEF DeviceRecords!Consent
    <3> QED
      BY <1>8, <3>1 DEF DeviceRecords!revoke_consent
  <2>3. trail' \subseteq DeviceRecords!Entry
    BY <1>8, <2>1 DEF DeviceRecords!revoke_consent, DeviceRecords!Consent, DeviceRecords!Entry
  <2>4. crossed' \subseteq Device \X Subject
    BY <1>8, <2>1 DEF DeviceRecords!revoke_consent, DeviceRecords!Consent
  <2> QED
    BY <1>0, <1>8, <2>2, <2>3, <2>4 DEF DeviceRecords!revoke_consent
<1>9. ASSUME NEW c \in Handling, NEW d \in Device, NEW u \in User,
             \/ DeviceRecords!update_read(c, d, u) \/ DeviceRecords!delete_read(c, d, u)
             \/ \E s \in Subject : DeviceRecords!grant_read(c, d, s, u)
      PROVE  DeviceRecords!TypeOK'
  BY <1>1, <1>9 DEF DeviceRecords!update_read, DeviceRecords!delete_read, DeviceRecords!grant_read,
     DeviceRecords!Block
<1>10. ASSUME NEW c \in Handling, NEW d \in Device, NEW u \in User \cup {NoUser},
              DeviceRecords!register_read(c, d, u)
       PROVE  DeviceRecords!TypeOK'
  BY <1>1, <1>10 DEF DeviceRecords!register_read, DeviceRecords!Block, DeviceRecords!Exists
<1>11. ASSUME NEW c \in Handling, NEW d \in Device, NEW s \in {"offline", "online"},
              DeviceRecords!heartbeat_read(c, d, s)
       PROVE  DeviceRecords!TypeOK'
  BY <1>1, <1>11 DEF DeviceRecords!heartbeat_read, DeviceRecords!Block
<1>12. ASSUME NEW c \in Handling, NEW k \in consent, NEW u \in User, DeviceRecords!revoke_read(c, k, u)
       PROVE  DeviceRecords!TypeOK'
  BY <1>1, <1>12 DEF DeviceRecords!revoke_read, DeviceRecords!Block
<1>13. CASE UNCHANGED DeviceRecords!vars
  BY <1>13 DEF DeviceRecords!vars
<1> QED
  BY <1>2, <1>3, <1>4, <1>5, <1>6, <1>7, <1>8, <1>9, <1>10, <1>11, <1>12, <1>13
  DEF DeviceRecords!Next

\* Every step keeps consents the owners': a device changes hands only when it is reborn.
LEMMA OwnersStep ==
    ASSUME OwnersInv, [DeviceRecords!Next]_(DeviceRecords!vars)
    PROVE  OwnersInv'
<1> DEFINE P == (GrantsAreTheOwners /\ IdsAreUsed /\ DeviceRecords!ConsentsAreTheOwners)'
<1> SUFFICES P
  BY RecordTypeStep DEF OwnersInv
<1> USE DEF OwnersInv, DeviceRecords!TypeOK, GrantsAreTheOwners, IdsAreUsed,
            DeviceRecords!ConsentsAreTheOwners, DeviceRecords!Exists, DeviceRecords!DeviceRow
<1>1. ASSUME NEW d \in Device, NEW u \in User, DeviceRecords!create_device(d, u)
      PROVE  P
  BY <1>1 DEF DeviceRecords!create_device
<1>2. ASSUME NEW c \in Handling, DeviceRecords!register_agent(c)
      PROVE  P
  BY <1>2, CallKinds DEF DeviceRecords!register_agent, DeviceRecords!Finish, DeviceRecords!Done
<1>3. ASSUME NEW c \in Handling, DeviceRecords!conflict(c) \/ DeviceRecords!update_device(c)
      PROVE  P
  BY <1>3 DEF DeviceRecords!conflict, DeviceRecords!update_device, DeviceRecords!Finish, DeviceRecords!Done
<1>4. ASSUME NEW c \in Handling, DeviceRecords!heartbeat_agent(c)
      PROVE  P
  BY <1>4, CallKinds DEF DeviceRecords!heartbeat_agent, DeviceRecords!Finish, DeviceRecords!Done
<1>5. ASSUME NEW c \in Handling, DeviceRecords!delete_device(c)
      PROVE  P
  BY <1>5, CallKinds DEF DeviceRecords!delete_device, DeviceRecords!Finish, DeviceRecords!Done,
     DeviceRecords!Gone
<1>6. ASSUME NEW c \in Handling, DeviceRecords!grant_consent(c)
      PROVE  P
  BY <1>6, CallKinds DEF DeviceRecords!grant_consent, DeviceRecords!Finish, DeviceRecords!Done
<1>7. ASSUME NEW c \in Handling, DeviceRecords!revoke_consent(c)
      PROVE  P
  <2> DEFINE k == consenting[c].consent
             revoked == [k EXCEPT !.active = FALSE]
  <2>1. /\ k \in DeviceRecords!Consent /\ k.device \in used
        /\ consent' = (consent \ {k}) \cup {revoked}
        /\ consenting' = [consenting EXCEPT ![c] = DeviceRecords!Done]
        /\ UNCHANGED <<device, used, reborn>>
    BY <1>7, CallKinds DEF DeviceRecords!revoke_consent, DeviceRecords!Finish
  <2>2. ~revoked.active /\ revoked.device = k.device
    BY <2>1 DEF DeviceRecords!Consent
  <2> HIDE DEF k, revoked
  <2> QED
    BY <2>1, <2>2 DEF DeviceRecords!Done
<1>8. ASSUME NEW c \in Handling, NEW block, block.op \notin {"grant", "revoke"}, DeviceRecords!Begin(c, block)
      PROVE  P
  BY <1>8 DEF DeviceRecords!Begin
<1>9. ASSUME NEW c \in Handling, NEW d \in Device, NEW u \in User,
             DeviceRecords!update_read(c, d, u) \/ DeviceRecords!delete_read(c, d, u)
      PROVE  P
  BY <1>8, <1>9 DEF DeviceRecords!update_read, DeviceRecords!delete_read
<1>10. ASSUME NEW c \in Handling, NEW d \in Device, NEW u \in User, NEW s \in Subject,
              DeviceRecords!grant_read(c, d, s, u)
       PROVE  P
  BY <1>10 DEF DeviceRecords!grant_read, DeviceRecords!Begin, DeviceRecords!_require_owner
<1>11. ASSUME NEW c \in Handling, NEW d \in Device, NEW u \in User \cup {NoUser},
              DeviceRecords!register_read(c, d, u)
       PROVE  P
  BY <1>8, <1>11 DEF DeviceRecords!register_read
<1>12. ASSUME NEW c \in Handling, NEW d \in Device, NEW s \in {"offline", "online"},
              DeviceRecords!heartbeat_read(c, d, s)
       PROVE  P
  BY <1>8, <1>12 DEF DeviceRecords!heartbeat_read
<1>13. ASSUME NEW c \in Handling, NEW k \in consent, NEW u \in User, DeviceRecords!revoke_read(c, k, u)
       PROVE  P
  BY <1>13 DEF DeviceRecords!revoke_read, DeviceRecords!Begin
<1>14. CASE UNCHANGED DeviceRecords!vars
  BY <1>14 DEF DeviceRecords!vars
<1> QED
  BY <1>1, <1>2, <1>3, <1>4, <1>5, <1>6, <1>7, <1>9, <1>10, <1>11, <1>12, <1>13, <1>14
  DEF DeviceRecords!Next

\* The instance counts as FiniteSets does.
LEMMA SameCount == ASSUME NEW S PROVE DeviceRecords!Cardinality(S) = Cardinality(S)
BY DEF Cardinality, DeviceRecords!Cardinality

\* A call that has not ended left nothing in the trail and granted no consent, and the
\* consent it revokes was active when it looked.
CallsAreFresh ==
    /\ \A e \in trail : consenting[e.call].op = "done"
    /\ \A k \in consent : k.active => consenting[k.id].op = "done"
    /\ \A c \in Handling : consenting[c].op = "revoke" => consenting[c].consent.active

\* The inductive invariant of the trail.
TrailInv ==
    /\ DeviceRecords!TypeOK /\ CallsAreFresh /\ DeviceRecords!TrailAccounts
    /\ IsFiniteSet(trail) /\ IsFiniteSet(consent)

\* What `TrailAccounts` says of one subject of a device.
Accounts(d, s) ==
    /\ Cardinality(DeviceRecords!Active(d, s)) <= 1
    /\ Cardinality(DeviceRecords!Entries("consent_granted", d, s)) =
         Cardinality(DeviceRecords!Entries("consent_revoked", d, s))
           + Cardinality(DeviceRecords!Active(d, s))

\* The trail accounts when it does for every subject that was not raced.
LEMMA AccountsAll ==
    DeviceRecords!TrailAccounts <=>
        \A d \in Device, s \in Subject : <<d, s>> \notin crossed => Accounts(d, s)
BY SameCount DEF DeviceRecords!TrailAccounts, Accounts

\* What is counted is finite.
LEMMA FiniteParts ==
    ASSUME IsFiniteSet(trail), IsFiniteSet(consent), NEW d, NEW s
    PROVE  /\ IsFiniteSet(DeviceRecords!Active(d, s)) /\ Cardinality(DeviceRecords!Active(d, s)) \in Nat
           /\ \A a : /\ IsFiniteSet(DeviceRecords!Entries(a, d, s))
                     /\ Cardinality(DeviceRecords!Entries(a, d, s)) \in Nat
<1>1. DeviceRecords!Active(d, s) \in SUBSET consent
  BY DEF DeviceRecords!Active
<1>2. \A a : DeviceRecords!Entries(a, d, s) \in SUBSET trail
  BY DEF DeviceRecords!Entries
<1>3. IsFiniteSet(DeviceRecords!Active(d, s)) /\ \A a : IsFiniteSet(DeviceRecords!Entries(a, d, s))
  BY <1>1, <1>2, FS_Subset
<1> QED
  BY <1>3, FS_CardinalityType

\* A grant adds one consent in force and one entry, when there was none in force.
LEMMA GrantAccounts ==
    ASSUME TrailInv, NEW c \in Handling, DeviceRecords!grant_consent(c),
           NEW d \in Device, NEW s \in Subject, <<d, s>> \notin crossed'
    PROVE  Accounts(d, s)'
<1> DEFINE k == [id |-> c, device |-> consenting[c].device, to |-> consenting[c].to, by |-> consenting[c].by, active |-> TRUE]
           e == [action |-> "consent_granted", device |-> consenting[c].device, to |-> consenting[c].to, call |-> c]
<1>1. /\ consent' = consent \cup {k} /\ trail' = trail \cup {e}
      /\ crossed' = crossed \cup {<<consenting[c].device, consenting[c].to>> :
                                a \in DeviceRecords!Active(consenting[c].device, consenting[c].to)}
      /\ consenting[c].op = "grant"
  BY DEF DeviceRecords!grant_consent
<1>2. k \notin consent /\ e \notin trail
  <2>1. k.id = c /\ e.call = c
    OBVIOUS
  <2> QED
    BY <1>1, <2>1 DEF TrailInv, CallsAreFresh
<1>3. Accounts(d, s)
  BY <1>1, AccountsAll DEF TrailInv
<1>4. DeviceRecords!Entries("consent_revoked", d, s)' = DeviceRecords!Entries("consent_revoked", d, s)
  BY <1>1 DEF DeviceRecords!Entries
<1>5. CASE d # consenting[c].device \/ s # consenting[c].to
  <2>1. /\ DeviceRecords!Active(d, s)' = DeviceRecords!Active(d, s)
        /\ DeviceRecords!Entries("consent_granted", d, s)' = DeviceRecords!Entries("consent_granted", d, s)
    BY <1>1, <1>5 DEF DeviceRecords!Active, DeviceRecords!Entries
  <2> QED
    BY <1>3, <1>4, <2>1 DEF Accounts
<1>6. CASE d = consenting[c].device /\ s = consenting[c].to
  <2>1. DeviceRecords!Active(d, s) = {}
    BY <1>1, <1>6
  <2>2. DeviceRecords!Active(d, s)' = {k}
    BY <1>1, <1>6, <2>1 DEF DeviceRecords!Active
  <2>3. DeviceRecords!Entries("consent_granted", d, s)' =
          DeviceRecords!Entries("consent_granted", d, s) \cup {e}
    BY <1>1, <1>6 DEF DeviceRecords!Entries
  <2>4. e \notin DeviceRecords!Entries("consent_granted", d, s)
    BY <1>2 DEF DeviceRecords!Entries
  <2> HIDE DEF k, e
  <2>5. Cardinality(DeviceRecords!Entries("consent_granted", d, s)') =
          Cardinality(DeviceRecords!Entries("consent_granted", d, s)) + 1
    BY <2>3, <2>4, FiniteParts, FS_AddElement DEF TrailInv
  <2>6. Cardinality(DeviceRecords!Active(d, s)') = 1 /\ Cardinality(DeviceRecords!Active(d, s)) = 0
    BY <2>1, <2>2, FS_Singleton, FS_EmptySet
  <2> QED
    BY <1>3, <1>4, <2>5, <2>6, FiniteParts DEF Accounts, TrailInv
<1> QED
  BY <1>5, <1>6

\* A revoke that finds its consent ends it, with one entry.
LEMMA RevokeAccounts ==
    ASSUME TrailInv, NEW c \in Handling, DeviceRecords!revoke_consent(c),
           NEW d \in Device, NEW s \in Subject, <<d, s>> \notin crossed'
    PROVE  Accounts(d, s)'
<1> DEFINE k == consenting[c].consent
           revoked == [k EXCEPT !.active = FALSE]
           e == [action |-> "consent_revoked", device |-> k.device, to |-> k.to, call |-> c]
<1>1. /\ consent' = (consent \ {k}) \cup {revoked} /\ trail' = trail \cup {e}
      /\ crossed' = IF k \in consent THEN crossed ELSE crossed \cup {<<k.device, k.to>>}
      /\ consenting[c].op = "revoke"
  BY DEF DeviceRecords!revoke_consent
<1>2. e \notin trail
  <2>1. e.call = c
    OBVIOUS
  <2> QED
    BY <1>1, <2>1 DEF TrailInv, CallsAreFresh
<1>3. Accounts(d, s)
  BY <1>1, AccountsAll DEF TrailInv
<1>4. k \in DeviceRecords!Consent /\ k.active /\ ~revoked.active
  BY <1>1, CallKinds DEF TrailInv, CallsAreFresh, DeviceRecords!Consent
<1>5. DeviceRecords!Entries("consent_granted", d, s)' = DeviceRecords!Entries("consent_granted", d, s)
  BY <1>1 DEF DeviceRecords!Entries
<1>6. DeviceRecords!Active(d, s)' = DeviceRecords!Active(d, s) \ {k}
  <2> HIDE DEF k, revoked
  <2> QED
    BY <1>1, <1>4 DEF DeviceRecords!Active
<1>7. CASE d # k.device \/ s # k.to
  <2>1. k \notin DeviceRecords!Active(d, s)
    BY <1>7 DEF DeviceRecords!Active
  <2>2. DeviceRecords!Active(d, s)' = DeviceRecords!Active(d, s)
    BY <1>6, <2>1
  <2>3. DeviceRecords!Entries("consent_revoked", d, s)' = DeviceRecords!Entries("consent_revoked", d, s)
    BY <1>1, <1>7 DEF DeviceRecords!Entries
  <2> QED
    BY <1>3, <1>5, <2>2, <2>3 DEF Accounts
<1>8. CASE d = k.device /\ s = k.to
  <2>1. k \in DeviceRecords!Active(d, s)
    BY <1>1, <1>4, <1>8 DEF DeviceRecords!Active
  <2>2. DeviceRecords!Entries("consent_revoked", d, s)' =
          DeviceRecords!Entries("consent_revoked", d, s) \cup {e}
    BY <1>1, <1>8 DEF DeviceRecords!Entries
  <2>3. e \notin DeviceRecords!Entries("consent_revoked", d, s)
    BY <1>2 DEF DeviceRecords!Entries
  <2> HIDE DEF k, e
  <2>4. Cardinality(DeviceRecords!Entries("consent_revoked", d, s)') =
          Cardinality(DeviceRecords!Entries("consent_revoked", d, s)) + 1
    BY <2>2, <2>3, FiniteParts, FS_AddElement DEF TrailInv
  <2>5. Cardinality(DeviceRecords!Active(d, s)') = Cardinality(DeviceRecords!Active(d, s)) - 1
    BY <1>6, <2>1, FiniteParts, FS_RemoveElement DEF TrailInv
  <2> QED
    BY <1>3, <1>5, <2>4, <2>5, FiniteParts DEF Accounts, TrailInv
<1> QED
  BY <1>7, <1>8

\* Every step keeps the trail an account of the consents in force.
LEMMA TrailStep ==
    ASSUME TrailInv, [DeviceRecords!Next]_(DeviceRecords!vars)
    PROVE  TrailInv'
<1> DEFINE P == (CallsAreFresh /\ DeviceRecords!TrailAccounts /\ IsFiniteSet(trail) /\ IsFiniteSet(consent))'
           Quiet(c, block) == /\ consenting' = [consenting EXCEPT ![c] = block]
                              /\ UNCHANGED <<consent, trail, crossed>>
<1> SUFFICES P
  BY RecordTypeStep DEF TrailInv
<1> USE DEF TrailInv
<1>1. ASSUME UNCHANGED <<consent, trail, crossed>>
      PROVE  (DeviceRecords!TrailAccounts /\ IsFiniteSet(trail) /\ IsFiniteSet(consent))'
  <2>1. \A d, s : Accounts(d, s)' <=> Accounts(d, s)
    BY <1>1 DEF Accounts, DeviceRecords!Active, DeviceRecords!Entries
  <2>2. DeviceRecords!TrailAccounts'
    BY <1>1, <2>1, AccountsAll DEF DeviceRecords!TrailAccounts, DeviceRecords!Active, DeviceRecords!Entries
  <2> QED
    BY <1>1, <2>2
<1>2. ASSUME NEW c \in Handling, NEW block, Quiet(c, block), consenting[c].op # "done",
             block.op = "revoke" => block.consent.active
      PROVE  P
  <2>1. CallsAreFresh'
    BY <1>2 DEF CallsAreFresh, DeviceRecords!TypeOK
  <2> QED
    BY <1>1, <1>2, <2>1
<1>3. ASSUME NEW c \in Handling,
             \/ DeviceRecords!register_agent(c) \/ DeviceRecords!conflict(c)
             \/ DeviceRecords!update_device(c) \/ DeviceRecords!heartbeat_agent(c)
             \/ DeviceRecords!delete_device(c)
      PROVE  P
  <2>1. Quiet(c, DeviceRecords!Done) /\ consenting[c].op # "done"
    BY <1>3 DEF DeviceRecords!register_agent, DeviceRecords!conflict, DeviceRecords!update_device,
       DeviceRecords!heartbeat_agent, DeviceRecords!delete_device, DeviceRecords!Finish
  <2> QED
    BY <1>2, <2>1 DEF DeviceRecords!Done
<1>4. ASSUME NEW d \in Device, NEW u \in User, DeviceRecords!create_device(d, u)
      PROVE  P
  BY <1>1, <1>4 DEF DeviceRecords!create_device, CallsAreFresh
<1>5. ASSUME NEW c \in Handling, NEW block, DeviceRecords!Begin(c, block),
             block.op = "revoke" => block.consent.active
      PROVE  P
  <2>1. Quiet(c, block) /\ consenting[c].op # "done"
    BY <1>5 DEF DeviceRecords!Begin, DeviceRecords!Idle
  <2> QED
    BY <1>2, <1>5, <2>1
<1>6. ASSUME NEW c \in Handling, NEW d \in Device, NEW u \in User,
             \/ DeviceRecords!update_read(c, d, u) \/ DeviceRecords!delete_read(c, d, u)
             \/ \E s \in Subject : DeviceRecords!grant_read(c, d, s, u)
      PROVE  P
  BY <1>5, <1>6 DEF DeviceRecords!update_read, DeviceRecords!delete_read, DeviceRecords!grant_read
<1>7. ASSUME NEW c \in Handling, NEW d \in Device, NEW u \in User \cup {NoUser},
             DeviceRecords!register_read(c, d, u)
      PROVE  P
  BY <1>5, <1>7 DEF DeviceRecords!register_read
<1>8. ASSUME NEW c \in Handling, NEW d \in Device, NEW s \in {"offline", "online"},
             DeviceRecords!heartbeat_read(c, d, s)
      PROVE  P
  BY <1>5, <1>8 DEF DeviceRecords!heartbeat_read
<1>9. ASSUME NEW c \in Handling, NEW k \in consent, NEW u \in User, DeviceRecords!revoke_read(c, k, u)
      PROVE  P
  BY <1>5, <1>9 DEF DeviceRecords!revoke_read
<1>10. ASSUME NEW c \in Handling, DeviceRecords!grant_consent(c)
       PROVE  P
  <2>1. \A d \in Device, s \in Subject : <<d, s>> \notin crossed' => Accounts(d, s)'
    BY <1>10, GrantAccounts
  <2>2. DeviceRecords!TrailAccounts'
    BY <2>1, SameCount DEF DeviceRecords!TrailAccounts, Accounts
  <2>3. IsFiniteSet(trail)' /\ IsFiniteSet(consent)'
    BY <1>10, FS_AddElement DEF DeviceRecords!grant_consent
  <2>4. CallsAreFresh'
    BY <1>10 DEF CallsAreFresh, DeviceRecords!TypeOK, DeviceRecords!grant_consent, DeviceRecords!Finish,
       DeviceRecords!Done
  <2> QED
    BY <2>2, <2>3, <2>4
<1>11. ASSUME NEW c \in Handling, DeviceRecords!revoke_consent(c)
       PROVE  P
  <2>1. \A d \in Device, s \in Subject : <<d, s>> \notin crossed' => Accounts(d, s)'
    BY <1>11, RevokeAccounts
  <2>2. DeviceRecords!TrailAccounts'
    BY <2>1, SameCount DEF DeviceRecords!TrailAccounts, Accounts
  <2>3. IsFiniteSet(trail)' /\ IsFiniteSet(consent)'
    BY <1>11, FS_AddElement, FS_RemoveElement DEF DeviceRecords!revoke_consent
  <2>4. CallsAreFresh'
    <3> DEFINE k == consenting[c].consent
               revoked == [k EXCEPT !.active = FALSE]
    <3>1. /\ consent' = (consent \ {k}) \cup {revoked}
          /\ trail' = trail \cup {[action |-> "consent_revoked", device |-> k.device, to |-> k.to, call |-> c]}
          /\ consenting' = [consenting EXCEPT ![c] = DeviceRecords!Done]
      BY <1>11 DEF DeviceRecords!revoke_consent, DeviceRecords!Finish
    <3>2. k \in DeviceRecords!Consent
      BY <1>11, CallKinds DEF DeviceRecords!revoke_consent
    <3>3. ~revoked.active
      BY <3>2 DEF DeviceRecords!Consent
    <3> HIDE DEF k, revoked
    <3> QED
      BY <3>1, <3>3 DEF CallsAreFresh, DeviceRecords!TypeOK, DeviceRecords!Done
  <2> QED
    BY <2>2, <2>3, <2>4
<1>12. CASE UNCHANGED DeviceRecords!vars
  BY <1>1, <1>12 DEF DeviceRecords!vars, CallsAreFresh
<1> QED
  BY <1>3, <1>4, <1>6, <1>7, <1>8, <1>9, <1>10, <1>11, <1>12 DEF DeviceRecords!Next

-----------------------------------------------------------------------------
(* Telemetry *)

\* What a batch has to find broken is broken by its sample, and a batch that is new has
\* stored none.
DueIsBroken ==
    \A r \in sample :
        /\ batch[r.id] # "new"
        /\ batch[r.id] = "stored" => due[r.id] \subseteq Telemetry!Broken(r)

\* The inductive invariant of the telemetry.
ViolationsInv == Telemetry!TypeOK /\ DueIsBroken /\ Telemetry!ViolationsAccount

\* What an objective finds broken is a violation that names its bound.
LEMMA FoundAreBroken ==
    ASSUME Telemetry!TypeOK, NEW r \in sample
    PROVE  /\ Telemetry!Found(r) \subseteq Telemetry!Violation
           /\ \A v \in Telemetry!Found(r) :
                /\ v.sample = r.id /\ v.metric = r.metric /\ v.value = r.value
                /\ ~Telemetry!Met(v.value, v)
           /\ \A o \in Telemetry!Broken(r) : \E v \in Telemetry!Found(r) : v.slo = o
<1> DEFINE V(o) == [slo |-> o, sample |-> r.id, metric |-> r.metric, value |-> r.value,
                    threshold |-> slo[o].threshold, operator |-> slo[o].operator, ts |-> r.ts]
<1>1. Telemetry!Found(r) = {V(o) : o \in Telemetry!Broken(r)}
  BY DEF Telemetry!Found
<1>2. ASSUME NEW o \in Telemetry!Broken(r)
      PROVE  /\ V(o) \in Telemetry!Violation
             /\ V(o).sample = r.id /\ V(o).metric = r.metric /\ V(o).value = r.value /\ V(o).slo = o
             /\ ~Telemetry!Met(V(o).value, V(o))
  <2>1. r \in Telemetry!Reading /\ slo[o] \in Telemetry!Objective /\ ~Telemetry!Met(r.value, slo[o]) /\ o \in Slo
    BY DEF Telemetry!TypeOK, Telemetry!Broken, Telemetry!Defined
  <2>2. V(o) \in Telemetry!Violation
    BY <2>1 DEF Telemetry!Violation, Telemetry!Reading, Telemetry!Objective
  <2>3. V(o).value = r.value /\ V(o).operator = slo[o].operator /\ V(o).threshold = slo[o].threshold
    OBVIOUS
  <2>4. ~Telemetry!Met(V(o).value, V(o))
    BY <2>1, <2>3 DEF Telemetry!Met
  <2> QED
    BY <2>2, <2>4
<1> HIDE DEF V
<1> QED
  BY <1>1, <1>2

\* While the objectives stay, so does what they find broken.
LEMMA SameObjectives ==
    ASSUME UNCHANGED slo PROVE \A r : Telemetry!Broken(r)' = Telemetry!Broken(r)
BY DEF Telemetry!Broken, Telemetry!Defined, Telemetry!Met

\* Every step of objectives and batches keeps the violations those of stored samples, and
\* leaves none out that a batch had to find.
LEMMA ViolationsStep ==
    ASSUME Telemetry!ConstantsFit, ViolationsInv, [Telemetry!Next]_(Telemetry!vars)
    PROVE  ViolationsInv'
<1> USE DEF ViolationsInv, Telemetry!TypeOK, DueIsBroken, Telemetry!ViolationsAccount
<1>1. ASSUME NEW o \in Slo, NEW new \in Telemetry!Objective \cup {Deleted},
             slo' = [slo EXCEPT ![o] = new], Telemetry!Changed(o)
      PROVE  ViolationsInv'
  <2>1. \A r \in sample : Telemetry!Broken(r) \ {o} \subseteq Telemetry!Broken(r)'
    <3>1. \A p \in Slo \ {o} : slo'[p] = slo[p]
      BY <1>1
    <3>2. ASSUME NEW r \in sample, NEW p \in Telemetry!Broken(r) \ {o} PROVE p \in Telemetry!Broken(r)'
      <4>1. p \in Slo \ {o} /\ slo'[p] = slo[p]
        BY <3>1 DEF Telemetry!Broken
      <4> QED
        BY <4>1, Zenon DEF Telemetry!Broken, Telemetry!Defined
    <3> QED
      BY <3>2, Zenon
  <2>2. /\ due' \in [Sample -> SUBSET Slo]
        /\ \A s \in Sample : due'[s] = IF batch[s] = "stored" THEN due[s] \ {o} ELSE due[s]
        /\ UNCHANGED <<sample, violation, batch, published>>
    BY <1>1 DEF Telemetry!Changed
  <2>3. Telemetry!TypeOK'
    BY <1>1, <2>2
  <2>4. DueIsBroken'
    BY <2>1, <2>2 DEF Telemetry!Reading
  <2>5. Telemetry!ViolationsAccount'
    BY <2>2 DEF Telemetry!Met
  <2> QED
    BY <2>3, <2>4, <2>5
<1>2. ASSUME NEW o \in Slo, NEW m \in Metric, NEW op \in Comparisons, NEW t \in Number,
             Telemetry!create_slo(o, m, op, t)
      PROVE  ViolationsInv'
  <2>1. [metric |-> m, operator |-> op, threshold |-> t, enabled |-> TRUE] \in Telemetry!Objective
    BY DEF Telemetry!Objective, Telemetry!ConstantsFit
  <2> QED
    BY <1>1, <1>2, <2>1 DEF Telemetry!create_slo
<1>3. ASSUME NEW o \in Slo, NEW t \in Number, NEW on \in BOOLEAN, Telemetry!update_slo(o, t, on)
      PROVE  ViolationsInv'
  <2> DEFINE new == [slo[o] EXCEPT !.threshold = t, !.enabled = on]
  <2>1. slo[o] \in Telemetry!Objective
    BY <1>3 DEF Telemetry!update_slo, Telemetry!Defined
  <2>2. new \in Telemetry!Objective
    BY <2>1 DEF Telemetry!Objective
  <2>3. slo' = [slo EXCEPT ![o] = new] /\ Telemetry!Changed(o)
    BY <1>3 DEF Telemetry!update_slo
  <2> QED
    BY <1>1, <2>2, <2>3
<1>4. ASSUME NEW o \in Slo, Telemetry!delete_slo(o)
      PROVE  ViolationsInv'
  BY <1>1, <1>4 DEF Telemetry!delete_slo
<1>5. ASSUME NEW r \in Telemetry!Reading, Telemetry!ingest_telemetry(r)
      PROVE  ViolationsInv'
  <2>1. /\ batch[r.id] = "new" /\ r.id \in Sample
        /\ sample' = sample \cup {r}
        /\ batch' = [batch EXCEPT ![r.id] = "stored"]
        /\ due' = [due EXCEPT ![r.id] = Telemetry!Broken(r)]
        /\ UNCHANGED <<slo, violation, published>>
    BY <1>5 DEF Telemetry!ingest_telemetry, Telemetry!Reading
  <2>2. Telemetry!Broken(r) \subseteq Slo
    BY DEF Telemetry!Broken
  <2>3. Telemetry!TypeOK'
    BY <2>1, <2>2
  <2>5. DueIsBroken'
    BY <2>1, SameObjectives DEF Telemetry!Reading
  <2>6. Telemetry!ViolationsAccount'
    BY <2>1 DEF Telemetry!Met
  <2> QED
    BY <2>3, <2>5, <2>6
<1>6. ASSUME NEW s \in Sample, Telemetry!evaluate_slos(s)
      PROVE  ViolationsInv'
  <2>1. PICK r \in sample : r.id = s /\ violation' = violation \cup Telemetry!Found(r)
    BY <1>6 DEF Telemetry!evaluate_slos
  <2>2. /\ batch[s] = "stored"
        /\ batch' = [batch EXCEPT ![s] = "evaluated"]
        /\ UNCHANGED <<sample, slo, published, due>>
    BY <1>6 DEF Telemetry!evaluate_slos
  <2>3. /\ Telemetry!Found(r) \subseteq Telemetry!Violation
        /\ \A v \in Telemetry!Found(r) :
             /\ v.sample = s /\ v.metric = r.metric /\ v.value = r.value
             /\ ~Telemetry!Met(v.value, v)
        /\ \A o \in Telemetry!Broken(r) : \E v \in Telemetry!Found(r) : v.slo = o
    BY <2>1, FoundAreBroken
  <2>4. Telemetry!TypeOK'
    BY <2>1, <2>2, <2>3
  <2>5. DueIsBroken'
    BY <2>2, SameObjectives DEF Telemetry!Reading
  <2>6. \A v \in violation' :
          /\ \E q \in sample' : q.id = v.sample /\ q.metric = v.metric /\ q.value = v.value
          /\ ~Telemetry!Met(v.value, v)
    BY <2>1, <2>2, <2>3
  <2>7. ASSUME NEW i \in Sample, batch'[i] \in {"evaluated", "done"}
        PROVE  due'[i] \subseteq {v.slo : v \in {w \in violation' : w.sample = i}}
    <3>1. CASE i = s
      BY <2>1, <2>2, <2>3, <3>1
    <3>2. CASE i # s
      BY <2>1, <2>2, <2>7, <3>2
    <3> QED
      BY <3>1, <3>2
  <2>8. ASSUME NEW i \in Sample, batch'[i] = "done"
        PROVE  {v \in violation' : v.sample = i} \subseteq published'
    BY <2>1, <2>2, <2>3, <2>8
  <2>9. Telemetry!ViolationsAccount'
    BY <2>6, <2>7, <2>8 DEF Telemetry!Met
  <2> QED
    BY <2>4, <2>5, <2>9
<1>7. ASSUME NEW s \in Sample, Telemetry!publish_violations(s)
      PROVE  ViolationsInv'
  <2>1. /\ batch[s] = "evaluated"
        /\ published' = published \cup {v \in violation : v.sample = s}
        /\ batch' = [batch EXCEPT ![s] = "done"]
        /\ UNCHANGED <<sample, slo, violation, due>>
    BY <1>7 DEF Telemetry!publish_violations
  <2>2. Telemetry!TypeOK'
    BY <2>1
  <2>3. DueIsBroken'
    BY <2>1, SameObjectives DEF Telemetry!Reading
  <2>4. Telemetry!ViolationsAccount'
    BY <2>1 DEF Telemetry!Met
  <2> QED
    BY <2>2, <2>3, <2>4
<1>8. ASSUME NEW s \in Sample, Telemetry!lose(s)
      PROVE  ViolationsInv'
  <2>1. batch' = [batch EXCEPT ![s] = "lost"] /\ UNCHANGED <<sample, slo, violation, published, due>>
    BY <1>8 DEF Telemetry!lose
  <2>2. Telemetry!TypeOK'
    BY <2>1
  <2>3. DueIsBroken'
    BY <2>1, SameObjectives DEF Telemetry!Reading
  <2>4. Telemetry!ViolationsAccount'
    BY <2>1 DEF Telemetry!Met
  <2> QED
    BY <2>2, <2>3, <2>4
<1>9. CASE UNCHANGED Telemetry!vars
  BY <1>9, SameObjectives DEF Telemetry!vars, Telemetry!Met
<1> QED
  BY <1>2, <1>3, <1>4, <1>5, <1>6, <1>7, <1>8, <1>9 DEF Telemetry!Next

-----------------------------------------------------------------------------
(* Records and telemetry *)

\* Every state of the records is one of the two invariants.
LEMMA RecordsInvariant == DeviceRecords!Spec => [](OwnersInv /\ TrailInv)
<1>1. DeviceRecords!Init => OwnersInv /\ TrailInv
  <2> SUFFICES ASSUME DeviceRecords!Init PROVE OwnersInv /\ TrailInv
    OBVIOUS
  <2> USE DEF DeviceRecords!Init, DeviceRecords!Idle, DeviceRecords!Gone
  <2>1. DeviceRecords!TypeOK
    BY DEF DeviceRecords!TypeOK, DeviceRecords!DeviceRow
  <2>2. OwnersInv
    BY <2>1 DEF OwnersInv, GrantsAreTheOwners, IdsAreUsed, DeviceRecords!ConsentsAreTheOwners,
       DeviceRecords!Exists
  <2>3. \A d, s : Accounts(d, s)
    <3> TAKE d, s
    <3>1. /\ DeviceRecords!Active(d, s) = {}
          /\ DeviceRecords!Entries("consent_granted", d, s) = {}
          /\ DeviceRecords!Entries("consent_revoked", d, s) = {}
      BY DEF DeviceRecords!Active, DeviceRecords!Entries
    <3>2. /\ Cardinality(DeviceRecords!Active(d, s)) = 0
          /\ Cardinality(DeviceRecords!Entries("consent_granted", d, s)) = 0
          /\ Cardinality(DeviceRecords!Entries("consent_revoked", d, s)) = 0
      BY <3>1, FS_EmptySet, Zenon
    <3> QED
      BY <3>2 DEF Accounts
  <2>4. TrailInv
    BY <2>1, <2>3, AccountsAll, FS_EmptySet DEF TrailInv, CallsAreFresh
  <2> QED
    BY <2>2, <2>4
<1>2. OwnersInv /\ TrailInv /\ [DeviceRecords!Next]_(DeviceRecords!vars) => OwnersInv' /\ TrailInv'
  BY OwnersStep, TrailStep
<1> QED
  BY <1>1, <1>2, PTL DEF DeviceRecords!Spec

\* And every state of the telemetry.
LEMMA ViolationsInvariant == Telemetry!Spec => []ViolationsInv
<1> USE DeviceAssumption
<1>1. Telemetry!Init => ViolationsInv
  BY DEF Telemetry!Init, ViolationsInv, Telemetry!TypeOK, DueIsBroken, Telemetry!ViolationsAccount
<1>2. ViolationsInv /\ [Telemetry!Next]_(Telemetry!vars) => ViolationsInv'
  BY ViolationsStep
<1> QED
  BY <1>1, <1>2, PTL DEF Telemetry!Spec

\* A consent in force is its owner's or an operator's, its trail says how often it was
\* granted and revoked, and the violations are those of the samples, whatever handlers
\* overlap and whichever batch is lost.
THEOREM RecordsStayAccounted == DeviceRecords!Spec /\ Telemetry!Spec => []RecordsAccount
<1>1. OwnersInv /\ TrailInv /\ ViolationsInv => RecordsAccount
  BY DEF OwnersInv, TrailInv, ViolationsInv, RecordsAccount
<1> QED
  BY <1>1, RecordsInvariant, ViolationsInvariant, PTL

-----------------------------------------------------------------------------
(* The assistant *)

\* The violations are finitely many, and each has the time of a stored sample of its metric.
Dated ==
    /\ IsFiniteSet(violation)
    /\ \A v \in violation : \E r \in sample : r.metric = v.metric /\ r.ts = v.ts

\* A violation gets the time of the sample it is of, and none is taken away.
LEMMA DatedStep ==
    ASSUME Telemetry!ConstantsFit, ViolationsInv, Dated, [Telemetry!Next]_(Telemetry!vars)
    PROVE  Dated'
<1>1. CASE UNCHANGED violation /\ sample \subseteq sample'
  BY <1>1 DEF Dated
<1>2. ASSUME NEW s \in Sample, Telemetry!evaluate_slos(s)
      PROVE  Dated'
  <2>1. PICK r \in sample : violation' = violation \cup Telemetry!Found(r)
    BY <1>2 DEF Telemetry!evaluate_slos
  <2>2. sample' = sample
    BY <1>2 DEF Telemetry!evaluate_slos
  <2>3. \A v \in Telemetry!Found(r) : v.metric = r.metric /\ v.ts = r.ts
    BY DEF Telemetry!Found
  <2>4. IsFiniteSet(Telemetry!Found(r))
    <3> DEFINE V == [o \in Slo |-> [slo |-> o, sample |-> r.id, metric |-> r.metric, value |-> r.value,
                       threshold |-> slo[o].threshold, operator |-> slo[o].operator, ts |-> r.ts]]
    <3>1. IsFiniteSet(Telemetry!Broken(r)) /\ Telemetry!Broken(r) \subseteq Slo
      <4>1. IsFiniteSet(Slo)
        BY DEF Telemetry!ConstantsFit, Telemetry!IsFiniteSet, IsFiniteSet
      <4>2. Telemetry!Broken(r) \subseteq Slo
        BY DEF Telemetry!Broken
      <4> QED
        BY <4>1, <4>2, FS_Subset
    <3>2. Telemetry!Found(r) = {V[o] : o \in Telemetry!Broken(r)}
      BY <3>1 DEF Telemetry!Found
    <3> HIDE DEF V
    <3>3. IsFiniteSet({V[o] : o \in Telemetry!Broken(r)})
      BY <3>1, FiniteImage
    <3> QED
      BY <3>2, <3>3
  <2>5. IsFiniteSet(violation')
    BY <2>1, <2>4, FS_Union DEF Dated
  <2> QED
    BY <2>1, <2>2, <2>3, <2>5 DEF Dated
<1> QED
  <2>1. CASE UNCHANGED Telemetry!vars
    BY <2>1, <1>1 DEF Telemetry!vars
  <2>2. ASSUME NEW o \in Slo, Telemetry!Changed(o) PROVE Dated'
    BY <2>2, <1>1 DEF Telemetry!Changed
  <2>3. ASSUME NEW s \in Sample, Telemetry!publish_violations(s) \/ Telemetry!lose(s) PROVE Dated'
    BY <2>3, <1>1 DEF Telemetry!publish_violations, Telemetry!lose
  <2>4. ASSUME NEW r \in Telemetry!Reading, Telemetry!ingest_telemetry(r) PROVE Dated'
    BY <2>4, <1>1 DEF Telemetry!ingest_telemetry
  <2>5. \A o \in Slo : /\ Telemetry!delete_slo(o) => Telemetry!Changed(o)
                       /\ \A m \in Metric, op_1 \in Comparisons, t \in Number : Telemetry!create_slo(o, m, op_1, t) => Telemetry!Changed(o)
                       /\ \A t \in Number, on \in BOOLEAN : Telemetry!update_slo(o, t, on) => Telemetry!Changed(o)
    BY DEF Telemetry!delete_slo, Telemetry!create_slo, Telemetry!update_slo
  <2> QED
    BY <1>2, <2>1, <2>2, <2>3, <2>4, <2>5 DEF Telemetry!Next

\* The instance of Telemetry has the finite sets and their sizes of this module.
LEMMA TelemetryCount ==
    ASSUME NEW S
    PROVE  Telemetry!Cardinality(S) = Cardinality(S) /\ Telemetry!IsFiniteSet(S) = IsFiniteSet(S)
BY DEF Cardinality, Telemetry!Cardinality, IsFiniteSet, Telemetry!IsFiniteSet

\* The lesser of two numbers.
LEMMA LesserOf ==
    ASSUME NEW a \in Nat, NEW b \in Nat
    PROVE  Telemetry!Min({a, b}) = IF a <= b THEN a ELSE b
<1> DEFINE P(x) == \A y \in {a, b} : x <= y
<1>1. Telemetry!Min({a, b}) = CHOOSE x \in {a, b} : P(x)
  BY DEF Telemetry!Min
<1>2. \E x \in {a, b} : P(x)
  OBVIOUS
<1>3. Telemetry!Min({a, b}) \in {a, b} /\ P(Telemetry!Min({a, b}))
  <2> HIDE DEF P
  <2> QED
    BY <1>1, <1>2, Zenon
<1> QED
  BY <1>3

\* The n newest of finitely many violations are n of them, none older than one that is left out.
LEMMA NewestAre ==
    ASSUME NEW V \in SUBSET Telemetry!Violation, IsFiniteSet(V), NEW n \in 0..Cardinality(V)
    PROVE  /\ Telemetry!Newest(V, n) \in SUBSET V
           /\ Cardinality(Telemetry!Newest(V, n)) = n
           /\ \A w \in Telemetry!Newest(V, n), v \in V \ Telemetry!Newest(V, n) : v.ts <= w.ts
<1> DEFINE key == [v \in V |-> v.ts]
           P(W) == Telemetry!Cardinality(W) = n /\ \A w \in W, v \in V \ W : v.ts <= w.ts
<1>1. key \in [V -> Int]
  BY DEF Telemetry!Violation
<1>2. PICK W \in SUBSET V : Cardinality(W) = n /\ \A w \in W, v \in V \ W : key[v] <= key[w]
  <2> HIDE DEF key
  <2> QED
    BY <1>1, GreatestFirst
<1>3. P(W)
  BY <1>2, TelemetryCount
<1>4. Telemetry!Newest(V, n) = CHOOSE U \in SUBSET V : P(U)
  BY DEF Telemetry!Newest
<1>5. Telemetry!Newest(V, n) \in SUBSET V /\ P(Telemetry!Newest(V, n))
  <2> HIDE DEF P
  <2> QED
    BY <1>3, <1>4, Zenon
<1> QED
  BY <1>5, TelemetryCount

\* Whatever violations there are, the assistant is right about them.
LEMMA AssistantFollows ==
    ASSUME Telemetry!ConstantsFit, Telemetry!TypeOK, Dated
    PROVE  Telemetry!AssistantIsRight
<1> SUFFICES ASSUME NEW since \in 0..MaxTime
             PROVE  LET V == Telemetry!list_violations(since)
                        agg == Telemetry!slo_assistant(since)
                        top == Telemetry!top_metrics(agg)
                        all(m) == {v \in V : v.metric = m}
                    IN  /\ Cardinality(UNION {{m} \X (1..agg[m].count) : m \in Metric}) =
                             Telemetry!Min({Limit, Cardinality(V)})
                        /\ \A m \in Metric :
                             /\ agg[m].count <= Cardinality(all(m))
                             /\ agg[m].count > 0 =>
                                  /\ agg[m].latest \in all(m)
                                  /\ \A v \in all(m) : v.ts <= agg[m].latest.ts
                                  /\ \A r \in Telemetry!latest_telemetry(m) : agg[m].latest.ts <= r.ts
                             /\ m \notin top =>
                                  \A k \in top : Telemetry!severity(agg[m].count) <= Telemetry!severity(agg[k].count)
  BY TelemetryCount DEF Telemetry!AssistantIsRight
<1> DEFINE V == Telemetry!list_violations(since)
           agg == Telemetry!slo_assistant(since)
           top == Telemetry!top_metrics(agg)
           all(m) == {v \in V : v.metric = m}
           n == Telemetry!Min({Limit, Cardinality(V)})
           read == Telemetry!Newest(V, n)
           of == [m \in Metric |-> {v \in read : v.metric = m}]
           newest(m) == CHOOSE v \in of[m] : \A w \in of[m] : w.ts <= v.ts
           count == [m \in Metric |-> Cardinality(of[m])]
<1>1. /\ V \in SUBSET Telemetry!Violation /\ IsFiniteSet(V) /\ Cardinality(V) \in Nat
      /\ V \subseteq violation
  <2>1. V \subseteq violation
    BY DEF Telemetry!list_violations
  <2> HIDE DEF V
  <2> QED
    BY <2>1, FS_Subset, FS_CardinalityType DEF Dated, Telemetry!TypeOK
<1>2. n \in 0..Cardinality(V)
  <2>1. Limit \in Nat
    BY DEF Telemetry!ConstantsFit
  <2> QED
    BY <2>1, <1>1, LesserOf
<1> HIDE DEF V, n
<1>3. /\ read \in SUBSET V /\ Cardinality(read) = n
      /\ \A w \in read, v \in V \ read : v.ts <= w.ts
  BY <1>1, <1>2, NewestAre
<1>4. agg = [m \in Metric |-> [count |-> count[m],
                               latest |-> IF of[m] = {} THEN Missing ELSE newest(m)]]
  <2>1. agg = [m \in Metric |-> [count |-> Telemetry!Cardinality(of[m]),
                                 latest |-> IF of[m] = {} THEN Missing ELSE newest(m)]]
    <3>1. Telemetry!Cardinality(V) = Cardinality(V)
      BY TelemetryCount
    <3> QED
      BY <3>1 DEF Telemetry!slo_assistant, V, n
  <2> HIDE DEF of, agg, newest
  <2>2. \A m \in Metric : Telemetry!Cardinality(of[m]) = Cardinality(of[m])
    BY TelemetryCount
  <2> QED
    BY <2>1, <2>2
<1> HIDE DEF agg, read
<1>5. \A m \in Metric : /\ of[m] \in SUBSET read /\ of[m] \in SUBSET all(m)
                        /\ IsFiniteSet(of[m]) /\ count[m] \in Nat
                        /\ IsFiniteSet(all(m)) /\ Cardinality(all(m)) \in Nat
                        /\ count[m] <= Cardinality(all(m))
                        /\ (count[m] > 0 <=> of[m] # {})
  <2> TAKE m \in Metric
  <2>1. of[m] \subseteq read /\ of[m] \subseteq all(m) /\ all(m) \subseteq V /\ count[m] = Cardinality(of[m])
    BY <1>3
  <2> HIDE DEF of, all, count
  <2>2. IsFiniteSet(all(m))
    BY <2>1, <1>1, FS_Subset
  <2>3. IsFiniteSet(of[m]) /\ Cardinality(of[m]) <= Cardinality(all(m))
    BY <2>1, <2>2, FS_Subset
  <2> QED
    BY <2>1, <2>2, <2>3, FS_CardinalityType, FS_EmptySet
<1>6. ASSUME NEW m \in Metric, of[m] # {}
      PROVE  newest(m) \in of[m] /\ \A w \in of[m] : w.ts <= newest(m).ts
  <2> DEFINE P(v) == \A w \in of[m] : w.ts <= v.ts
             times == {w.ts : w \in of[m]}
  <2> HIDE DEF of
  <2>1. \A w \in of[m] : w \in Telemetry!Violation /\ w.ts \in Nat
    <3>1. of[m] \subseteq read /\ read \subseteq V /\ V \subseteq Telemetry!Violation
      BY <1>1, <1>3, <1>5
    <3>2. MaxTime \in Nat
      BY DEF Telemetry!ConstantsFit
    <3>3. \A w \in Telemetry!Violation : w.ts \in Nat
      BY <3>2 DEF Telemetry!Violation
    <3> QED
      BY <3>1, <3>3
  <2>2. \E v \in of[m] : P(v)
    <3> DEFINE key == [w \in of[m] |-> w.ts]
    <3>1. IsFiniteSet({key[w] : w \in of[m]})
      <4>1. IsFiniteSet(of[m])
        BY <1>5
      <4> HIDE DEF key
      <4> QED
        BY <4>1, FiniteImage, Zenon
    <3>2. times = {key[w] : w \in of[m]}
      OBVIOUS
    <3>3. times \in SUBSET Int /\ times # {}
      BY <2>1, <1>6
    <3>4. PICK t \in times : \A s \in times : s <= t
      BY <3>1, <3>2, <3>3, GreatestNumber
    <3> QED
      BY <3>4
  <2> HIDE DEF P
  <2>3. newest(m) \in of[m] /\ P(newest(m))
    <3>1. newest(m) = CHOOSE v \in of[m] : P(v)
      BY DEF P
    <3> QED
      BY <2>2, <3>1, Zenon
  <2> QED
    BY <2>3 DEF P
<1>7. \A m \in Metric : agg[m].count = count[m] /\ (count[m] > 0 => agg[m].latest = newest(m))
  BY <1>4, <1>5
<1> HIDE DEF newest, count, of
<1>8. ASSUME NEW m \in Metric, count[m] > 0
      PROVE  /\ agg[m].latest \in all(m)
             /\ \A v \in all(m) : v.ts <= agg[m].latest.ts
             /\ \A r \in Telemetry!latest_telemetry(m) : agg[m].latest.ts <= r.ts
  <2>1. /\ agg[m].latest \in of[m]
        /\ \A w \in of[m] : w.ts <= agg[m].latest.ts
    <3>1. of[m] # {} /\ agg[m].latest = newest(m)
      BY <1>5, <1>7, <1>8
    <3>2. newest(m) \in of[m] /\ \A w \in of[m] : w.ts <= newest(m).ts
      BY <3>1, <1>6
    <3> QED
      BY <3>1, <3>2
  <2>2. PICK v \in of[m] : v = agg[m].latest
    BY <2>1
  <2>3. v \in all(m) /\ v \in read /\ v \in violation /\ v.metric = m
    BY <1>5, <1>1
  <2>4. \A w \in all(m) : w.ts <= v.ts
    <3> TAKE w \in all(m)
    <3>1. CASE w \in read
      BY <3>1, <2>1, <2>2 DEF of
    <3>2. CASE w \notin read
      BY <3>2, <2>3, <1>3
    <3> QED
      BY <3>1, <3>2
  <2>5. PICK q \in sample : q.metric = m /\ q.ts = v.ts
    BY <2>3 DEF Dated
  <2>6. \A r \in Telemetry!latest_telemetry(m) : v.ts <= r.ts
    BY <2>5 DEF Telemetry!latest_telemetry
  <2> QED
    BY <2>2, <2>3, <2>4, <2>6
<1>9. Cardinality(UNION {{m} \X (1..agg[m].count) : m \in Metric}) = n
  <2>1. IsFiniteSet(Metric) /\ IsFiniteSet(read)
    BY TelemetryCount, <1>3, <1>1, FS_Subset DEF Telemetry!ConstantsFit
  <2>2. of \in [Metric -> SUBSET read]
    BY DEF of
  <2>3. \A x \in read : x.metric \in Metric
    BY <1>3, <1>1 DEF Telemetry!Violation
  <2>4. \A x \in read : \E m \in Metric : x \in of[m]
    BY <2>3 DEF of
  <2>5. \A x \in read, m, k \in Metric : x \in of[m] /\ x \in of[k] => m = k
    BY DEF of
  <2>6. Cardinality(UNION {{m} \X (1..count[m]) : m \in Metric}) = Cardinality(read)
    <3>1. \A m \in Metric : count[m] = Cardinality(of[m])
      BY DEF count
    <3> QED
      BY <2>1, <2>2, <2>4, <2>5, <3>1, SumOfClasses
  <2>7. {{m} \X (1..agg[m].count) : m \in Metric} = {{m} \X (1..count[m]) : m \in Metric}
    BY <1>7
  <2> QED
    BY <2>6, <2>7, <1>3
<1>10. ASSUME NEW m \in Metric, m \notin top, NEW k \in top
       PROVE  Telemetry!severity(agg[m].count) <= Telemetry!severity(agg[k].count)
  <2> DEFINE hit == {i \in Metric : agg[i].count > 0}
             t == Telemetry!Min({TopMetrics, Telemetry!Cardinality(hit)})
             P(T) == /\ Telemetry!Cardinality(T) = t
                     /\ \A i \in T, j \in hit \ T : agg[j].count <= agg[i].count
             key == [i \in hit |-> agg[i].count]
  <2>1. hit \subseteq Metric
    OBVIOUS
  <2>2. key \in [hit -> Int]
    <3>1. \A i \in Metric : agg[i].count \in Nat
      <4> TAKE i \in Metric
      <4> QED
        BY <1>5, <1>7
    <3> QED
      BY <2>1, <3>1
  <2>3. top = CHOOSE T \in SUBSET hit : P(T)
    BY DEF Telemetry!top_metrics
  <2>4. \A i \in hit : key[i] = agg[i].count
    OBVIOUS
  <2> HIDE DEF hit, key
  <2>5. IsFiniteSet(hit) /\ Cardinality(hit) \in Nat
    BY <2>1, TelemetryCount, FS_Subset, FS_CardinalityType DEF Telemetry!ConstantsFit
  <2>6. t \in 0..Cardinality(hit)
    <3>1. TopMetrics \in Nat
      BY DEF Telemetry!ConstantsFit
    <3> QED
      BY <3>1, <2>5, LesserOf, TelemetryCount
  <2> HIDE DEF t
  <2>7. PICK W \in SUBSET hit : Cardinality(W) = t /\ \A w \in W, v \in hit \ W : key[v] <= key[w]
    BY <2>2, <2>5, <2>6, GreatestFirst
  <2>8. P(W)
    BY <2>4, <2>7, TelemetryCount
  <2> HIDE DEF P
  <2>9. top \in SUBSET hit /\ P(top)
    BY <2>3, <2>8, Zenon
  <2>10. CASE m \in hit
    <3>1. agg[m].count <= agg[k].count
      BY <2>9, <2>10, <1>10 DEF P
    <3>2. agg[m].count \in Nat /\ agg[k].count \in Nat /\ High \in Nat /\ Medium \in Nat
      BY <1>5, <1>7, <2>1, <2>9 DEF Telemetry!ConstantsFit
    <3> QED
      BY <3>1, <3>2 DEF Telemetry!severity
  <2>11. CASE m \notin hit
    <3>1. agg[m].count \in Nat /\ agg[k].count \in Nat /\ High \in Nat /\ Medium \in Nat
      BY <1>5, <1>7, <2>1, <2>9 DEF Telemetry!ConstantsFit
    <3>2. ~(agg[m].count > 0)
      BY <2>11 DEF hit
    <3> QED
      BY <3>1, <3>2 DEF Telemetry!severity
  <2> QED
    BY <2>10, <2>11
<1> QED
  BY <1>5, <1>7, <1>8, <1>9, <1>10 DEF n, V, agg

\* What the assistant says is true, whatever objectives and batches there are, and whichever
\* batch comes late or is lost.
THEOREM AssistantStaysRight == Telemetry!Spec => []Telemetry!AssistantIsRight
<1> USE DeviceAssumption
<1>1. Telemetry!Init => ViolationsInv /\ Dated
  BY FS_EmptySet DEF Telemetry!Init, ViolationsInv, Telemetry!TypeOK, DueIsBroken, Telemetry!ViolationsAccount, Dated
<1>2. ViolationsInv /\ Dated /\ [Telemetry!Next]_(Telemetry!vars) => ViolationsInv' /\ Dated'
  BY ViolationsStep, DatedStep
<1>3. ViolationsInv /\ Dated => Telemetry!AssistantIsRight
  BY AssistantFollows DEF ViolationsInv
<1> QED
  BY <1>1, <1>2, <1>3, PTL DEF Telemetry!Spec

-----------------------------------------------------------------------------
(* Discovery *)

\* What a row of the table is.
Discovered == [status: Status, late: BOOLEAN, owner: Owner \cup {NoOwner},
               token: Call \cup {NoCall}]
Answered == {"approved", "rejected", "expired"}

\* A handler changes only requests it has read as pending, so none of them is new.
ReadsArePending ==
    \A c \in Call, r \in Request :
        r \in call[c].rows => call[c].read[r] = "announced" /\ request[r].status # "none"

\* A handler that is not under way holds nothing, a claim has its owner, and an announce
\* has one id.
CallShape ==
    \A c \in Call :
        /\ call[c].op \notin Open => call[c].rows = {} /\ call[c].row = {}
        /\ call[c].op = "claim" => call[c].owner \in Owner
        /\ call[c].op = "announce" => \E r \in Request : call[c].row = {r}
        /\ call[c].op # "announce" => call[c].row = {}

\* The id an announce is going to insert is in no table, and is nobody else's.
IdsAreFresh ==
    \A c \in Call, r \in Request :
        r \in call[c].row =>
            /\ request[r].status = "none"
            /\ \A o \in Call : r \in call[o].row => o = c

Backed(r) ==
    request[r].status = "approved" =>
        [device |-> request[r].token, request |-> r, owner |-> request[r].owner] \in paired

\* Every token a poll was answered is a device of the request.
HandedAreDevices == \A r \in Request : \A c \in handed[r] : \E p \in DevicesOf(r) : p.device = c

\* An unraced request has a device only when it is approved, and then one.
OneDevice ==
    \A r \in Request \ raced :
        /\ DevicesOf(r) # {} => request[r].status = "approved"
        /\ \A p, q \in DevicesOf(r) : p = q
        /\ handed[r] \subseteq {request[r].token}

\* At most one unraced request of the hardware is pending.
OnePending == \A r, q \in Announced \ raced : r = q

Pairings ==
    /\ \A r \in Request : Backed(r)
    /\ HandedAreDevices /\ OneDevice /\ OnePending

Handlers == ReadsArePending /\ CallShape /\ IdsAreFresh

DiscoveryInv == Handlers /\ Pairings

-----------------------------------------------------------------------------
(* Discovery: a handler reads *)

\* Which handler begins, and what it holds.
LEMMA BeginKeeps ==
    ASSUME TypeOK, DiscoveryInv, NEW c \in Call, NEW op \in Open, NEW rows \in SUBSET Announced,
           NEW row \in SUBSET Request, NEW owner \in Owner \cup {NoOwner},
           Begin(c, op, rows, row, owner),
           op = "claim" => owner \in Owner,
           op = "announce" => \E r \in Request : row = {r},
           op # "announce" => row = {},
           \A r \in row : request[r].status = "none" /\ \A o \in Call : r \notin call[o].row
    PROVE  TypeOK' /\ DiscoveryInv'
<1> DEFINE new == [op |-> op, read |-> [r \in Request |-> request[r].status],
                   rows |-> rows, row |-> row, owner |-> owner]
<1>1. call' = [call EXCEPT ![c] = new] /\ UNCHANGED <<request, paired, handed, raced>>
  BY DEF Begin
<1>2. new \in [op: Open \cup {"new", "done"}, read: [Request -> Status],
               rows: SUBSET Request, row: SUBSET Request, owner: Owner \cup {NoOwner}]
  BY DEF TypeOK, Announced
<1>3. call'[c] = new /\ \A o \in Call : o # c => call'[o] = call[o]
  BY <1>1 DEF TypeOK
<1>4. TypeOK'
  BY <1>1, <1>2 DEF TypeOK
<1>5. ReadsArePending'
  BY <1>1, <1>3 DEF DiscoveryInv, Handlers, ReadsArePending, Announced
<1>6. CallShape'
  BY <1>3 DEF DiscoveryInv, Handlers, CallShape
<1>7. IdsAreFresh'
  BY <1>1, <1>3 DEF DiscoveryInv, Handlers, IdsAreFresh
<1>8. Pairings'
  BY <1>1 DEF DiscoveryInv, Pairings, Backed, HandedAreDevices, OneDevice, OnePending, DevicesOf, Announced
<1> QED
  BY <1>4, <1>5, <1>6, <1>7, <1>8 DEF DiscoveryInv, Handlers

\* An announce that reads takes an id that nobody uses.
LEMMA AnnounceReadKeeps ==
    ASSUME TypeOK, DiscoveryInv, NEW c \in Call, NEW r \in Request, announce_read(c, r)
    PROVE  TypeOK' /\ DiscoveryInv'
<1>1. Begin(c, "announce", Announced, {r}, NoOwner) /\ request[r].status = "none"
      /\ \A o \in Call : r \notin call[o].row
  BY DEF announce_read, NoRequest
<1> QED
  BY <1>1, BeginKeeps DEF Open

\* Polls, lists, claims and rejections read too.
LEMMA ReadKeeps ==
    ASSUME TypeOK, DiscoveryInv, NEW c \in Call,
           \/ list_pending_read(c)
           \/ \E r \in Request : \/ poll_read(c, r) \/ reject_read(c, r)
                                 \/ \E o \in Owner : claim_read(c, r, o)
    PROVE  TypeOK' /\ DiscoveryInv'
<1>1. CASE list_pending_read(c)
  BY <1>1, BeginKeeps DEF list_pending_read, Open, Overdue
<1>2. CASE \E r \in Request : poll_read(c, r)
  BY <1>2, BeginKeeps DEF poll_read, Open, Overdue
<1>3. CASE \E r \in Request : reject_read(c, r)
  BY <1>3, BeginKeeps DEF reject_read, Open
<1>4. CASE \E r \in Request, o \in Owner : claim_read(c, r, o)
  BY <1>4, BeginKeeps DEF claim_read, Open
<1> QED
  BY <1>1, <1>2, <1>3, <1>4

-----------------------------------------------------------------------------
(* Discovery: a handler commits *)

\* What AnswersAreFinal says of one step.
Final == \A r \in Request \ raced' :
            request[r].status \in Answered => request'[r].status = request[r].status

\* A request that is no longer pending when its reader commits counts as raced.
LEMMA PendingOrStale ==
    ASSUME TypeOK, DiscoveryInv, NEW c \in Call, NEW r \in Request, r \in call[c].rows, r \notin Stale(c)
    PROVE  request[r].status = "announced"
BY DEF DiscoveryInv, Handlers, ReadsArePending, Stale

\* A handler that ends leaves the others as they are, when it brings none of their
\* requests back and takes none of their ids.
LEMMA FinishKeeps ==
    ASSUME TypeOK, DiscoveryInv, NEW c \in Call, Finish(c),
           \A r \in Request : request[r].status # "none" => request'[r].status # "none",
           \A r \in Request \ call[c].row :
               request[r].status = "none" => request'[r].status = "none"
    PROVE  /\ Handlers'
           /\ call' \in [Call -> [op: Open \cup {"new", "done"}, read: [Request -> Status],
                                 rows: SUBSET Request, row: SUBSET Request,
                                 owner: Owner \cup {NoOwner}]]
<1>1. /\ Closed.op = "done" /\ Closed.rows = {} /\ Closed.row = {}
      /\ Closed \in [op: Open \cup {"new", "done"}, read: [Request -> Status],
                     rows: SUBSET Request, row: SUBSET Request, owner: Owner \cup {NoOwner}]
  BY DEF Closed, NewCall, Status
<1>2. call' = [call EXCEPT ![c] = Closed]
  BY DEF Finish
<1>3. call'[c] = Closed /\ \A o \in Call : o # c => call'[o] = call[o]
  BY <1>2 DEF TypeOK
<1>4. ReadsArePending'
  BY <1>1, <1>3 DEF DiscoveryInv, Handlers, ReadsArePending
<1>5. CallShape'
  BY <1>1, <1>3 DEF DiscoveryInv, Handlers, CallShape, Open
<1>6. IdsAreFresh'
  <2> SUFFICES ASSUME NEW o \in Call, NEW r \in Request, r \in call'[o].row
               PROVE  /\ request'[r].status = "none"
                      /\ \A q \in Call : r \in call'[q].row => q = o
    BY DEF IdsAreFresh
  <2>1. o # c /\ r \in call[o].row
    BY <1>1, <1>3
  <2>2. request[r].status = "none" /\ r \notin call[c].row
    BY <2>1 DEF DiscoveryInv, Handlers, IdsAreFresh
  <2>3. \A q \in Call : r \in call'[q].row => q = o
    BY <1>1, <1>3, <2>1 DEF DiscoveryInv, Handlers, IdsAreFresh
  <2> QED
    BY <2>2, <2>3
<1> QED
  BY <1>1, <1>2, <1>4, <1>5, <1>6 DEF Handlers, TypeOK

\* SetStatus moves the requests it names, and touches their status alone.
LEMMA SetStatusFields ==
    ASSUME TypeOK, NEW rows \in SUBSET Request, NEW s \in Status
    PROVE  /\ SetStatus(rows, s) \in [Request -> Discovered]
           /\ \A r \in Request : r \notin rows => SetStatus(rows, s)[r] = request[r]
           /\ \A r \in rows : /\ SetStatus(rows, s)[r].status = s
                              /\ SetStatus(rows, s)[r].token = request[r].token
<1>1. ASSUME NEW r \in Request
      PROVE  /\ [request[r] EXCEPT !.status = s] \in Discovered
             /\ [request[r] EXCEPT !.status = s].status = s
             /\ [request[r] EXCEPT !.status = s].token = request[r].token
  <2>1. request[r] \in Discovered
    BY DEF TypeOK, Discovered
  <2> QED
    BY <2>1 DEF Discovered
<1>2. \A r \in Request : request[r] \in Discovered
  BY DEF TypeOK, Discovered
<1> QED
  BY <1>1, <1>2 DEF SetStatus

\* Requests that expire or are rejected; an announce brings a new one along.
LEMMA SettleKeeps ==
    ASSUME TypeOK, DiscoveryInv, NEW c \in Call, NEW s \in {"expired", "rejected"},
           request' = SetStatus(call[c].rows, s), raced' = raced \cup Stale(c),
           call[c].op # "announce", Finish(c), UNCHANGED <<paired, handed>>
    PROVE  TypeOK' /\ DiscoveryInv' /\ Final
<1>1. call[c].row = {} /\ call[c].rows \subseteq Request
  BY DEF DiscoveryInv, Handlers, CallShape, TypeOK
<1>2. \A r \in Request : r \notin call[c].rows => request'[r] = request[r]
  BY <1>1, SetStatusFields DEF Status
<1>3. \A r \in call[c].rows : /\ request'[r].status = s
                              /\ request'[r].token = request[r].token
  BY <1>1, SetStatusFields DEF Status
<1>4. request' \in [Request -> Discovered]
  BY <1>1, SetStatusFields DEF Status
<1>5. \A r \in call[c].rows \ raced' : request[r].status = "announced"
  BY <1>1, PendingOrStale
<1>6. Handlers' /\ TypeOK'
  <2>1. \A r \in Request : request[r].status # "none" => request'[r].status # "none"
    BY <1>2, <1>3
  <2>2. \A r \in Request : request[r].status = "none" => request'[r].status = "none"
    BY <1>2 DEF DiscoveryInv, Handlers, ReadsArePending
  <2> QED
    BY <1>1, <1>4, <2>1, <2>2, FinishKeeps DEF TypeOK, Discovered, Stale
<1>7. Final
  BY <1>2, <1>5 DEF Final, Answered
<1>8. \A r \in Request : Backed(r)'
  BY <1>2, <1>3 DEF DiscoveryInv, Pairings, Backed
<1>9. HandedAreDevices'
  BY DEF DiscoveryInv, Pairings, HandedAreDevices, DevicesOf
<1>10. OneDevice'
  <2> SUFFICES ASSUME NEW r \in Request \ raced'
               PROVE  /\ DevicesOf(r) # {} => request'[r].status = "approved"
                      /\ \A p, q \in DevicesOf(r) : p = q
                      /\ handed[r] \subseteq {request'[r].token}
    BY DEF OneDevice, DevicesOf
  <2>1. /\ DevicesOf(r) # {} => request[r].status = "approved"
        /\ \A p, q \in DevicesOf(r) : p = q
        /\ handed[r] \subseteq {request[r].token}
    BY DEF DiscoveryInv, Pairings, OneDevice
  <2> QED
    BY <1>2, <1>3, <1>5, <2>1
<1>11. OnePending'
  BY <1>2, <1>3 DEF DiscoveryInv, Pairings, OnePending, Announced
<1> QED
  BY <1>6, <1>7, <1>8, <1>9, <1>10, <1>11 DEF DiscoveryInv, Pairings

\* Expiries and rejections are such commits.
LEMMA SettlementsKeep ==
    ASSUME TypeOK, DiscoveryInv, NEW c \in Call, expire_overdue(c) \/ reject(c)
    PROVE  TypeOK' /\ DiscoveryInv' /\ Final
BY SettleKeeps DEF expire_overdue, reject

\* An announce expires what it has read, and what it missed counts as raced.
LEMMA AnnounceKeeps ==
    ASSUME TypeOK, DiscoveryInv, NEW c \in Call, announce(c)
    PROVE  TypeOK' /\ DiscoveryInv' /\ Final
<1>1. PICK n \in Request : call[c].row = {n}
  BY DEF announce, DiscoveryInv, Handlers, CallShape
<1>2. request[n].status = "none" /\ n \notin call[c].rows /\ call[c].rows \subseteq Request
  BY <1>1 DEF DiscoveryInv, Handlers, IdsAreFresh, ReadsArePending, TypeOK
<1>3. /\ raced' = raced \cup Stale(c) \cup (Announced \ call[c].rows)
      /\ Finish(c) /\ UNCHANGED <<paired, handed>>
  BY DEF announce
<1> DEFINE inserted == [NoRequest EXCEPT !.status = "announced"]
<1>4. request' = [r \in Request |-> IF r = n THEN inserted
                                    ELSE SetStatus(call[c].rows, "expired")[r]]
  BY <1>1 DEF announce
<1>5. inserted.status = "announced"
      /\ inserted \in [status: Status, late: BOOLEAN, owner: Owner \cup {NoOwner},
                    token: Call \cup {NoCall}]
  BY DEF NoRequest, Status
<1>6. /\ request'[n] = inserted
      /\ \A r \in Request \ {n} : r \notin call[c].rows => request'[r] = request[r]
  BY <1>2, <1>4, SetStatusFields DEF Status
<1>7. \A r \in call[c].rows : /\ request'[r].status = "expired"
                              /\ request'[r].token = request[r].token
  BY <1>2, <1>4, SetStatusFields DEF Status
<1>8. request' \in [Request -> Discovered]
  <2>1. SetStatus(call[c].rows, "expired") \in [Request -> Discovered]
    BY <1>2, SetStatusFields DEF Status
  <2>2. inserted \in Discovered
    BY <1>5 DEF Discovered
  <2> HIDE DEF inserted
  <2> QED
    BY <1>4, <2>1, <2>2
<1>9. \A r \in call[c].rows \ raced' : request[r].status = "announced"
  BY <1>2, <1>3, PendingOrStale
<1>10. Handlers' /\ TypeOK'
  <2>1. \A r \in Request : request[r].status # "none" => request'[r].status # "none"
    BY <1>2, <1>6, <1>7
  <2>2. \A r \in Request \ call[c].row :
           request[r].status = "none" => request'[r].status = "none"
    BY <1>1, <1>6 DEF DiscoveryInv, Handlers, ReadsArePending
  <2>3. raced' \subseteq Request
    BY <1>2, <1>3 DEF TypeOK, Stale, Announced
  <2> QED
    BY <1>3, <1>8, <2>1, <2>2, <2>3, FinishKeeps DEF TypeOK, Discovered
<1>11. Final
  BY <1>2, <1>6, <1>9 DEF Final, Answered
<1>12. \A r \in Request : Backed(r)'
  BY <1>3, <1>5, <1>6, <1>7 DEF DiscoveryInv, Pairings, Backed
<1>13. HandedAreDevices'
  BY <1>3 DEF DiscoveryInv, Pairings, HandedAreDevices, DevicesOf
<1>14. OneDevice'
  <2> SUFFICES ASSUME NEW r \in Request \ raced'
               PROVE  /\ DevicesOf(r) # {} => request'[r].status = "approved"
                      /\ \A p, q \in DevicesOf(r) : p = q
                      /\ handed[r] \subseteq {request'[r].token}
    BY <1>3 DEF OneDevice, DevicesOf
  <2>1. /\ DevicesOf(r) # {} => request[r].status = "approved"
        /\ \A p, q \in DevicesOf(r) : p = q
        /\ handed[r] \subseteq {request[r].token}
    BY <1>3 DEF DiscoveryInv, Pairings, OneDevice
  <2>2. DevicesOf(n) = {} \/ r # n
    BY <1>2, <2>1
  <2>3. CASE r = n
    <3>1. handed[r] = {}
      BY <2>2, <2>3 DEF DiscoveryInv, Pairings, HandedAreDevices, TypeOK
    <3> QED
      BY <2>2, <2>3, <3>1
  <2>4. CASE r # n
    BY <1>6, <1>7, <1>9, <2>1, <2>4
  <2> QED
    BY <2>3, <2>4
<1>15. OnePending'
  BY <1>3, <1>6, <1>7 DEF OnePending, Announced
<1> QED
  BY <1>10, <1>11, <1>12, <1>13, <1>14, <1>15 DEF DiscoveryInv, Pairings

\* A claim pairs the hardware; unless it is raced the request has no device yet.
LEMMA ClaimKeeps ==
    ASSUME TypeOK, DiscoveryInv, NEW c \in Call, claim(c)
    PROVE  TypeOK' /\ DiscoveryInv' /\ Final
<1> DEFINE claimed(r) == [device |-> c, request |-> r, owner |-> call[c].owner]
<1>1. PICK n \in call[c].rows :
         /\ paired' = paired \cup {claimed(n)}
         /\ request' = [request EXCEPT ![n].status = "approved", ![n].token = c,
                                       ![n].owner = call[c].owner]
  BY DEF claim
<1>2. call[c].op = "claim" /\ raced' = raced \cup Stale(c) /\ Finish(c) /\ UNCHANGED handed
  BY DEF claim
<1>3. n \in Request /\ call[c].owner \in Owner /\ request[n].status # "none"
  BY <1>1, <1>2 DEF TypeOK, DiscoveryInv, Handlers, CallShape, ReadsArePending
<1>4. request \in [Request -> Discovered] /\ call[c].owner \in Owner \cup {NoOwner}
  BY <1>3 DEF TypeOK, Discovered
<1>5. /\ request' \in [Request -> Discovered]
      /\ request'[n].status = "approved" /\ request'[n].token = c
      /\ request'[n].owner = call[c].owner
      /\ \A r \in Request : r # n => request'[r] = request[r]
  BY <1>1, <1>3, <1>4 DEF Discovered, Status
<1>6. n \notin raced' => request[n].status = "announced"
  BY <1>1, <1>2, <1>3, PendingOrStale
<1>7. Handlers' /\ TypeOK'
  <2>1. \A r \in Request : request[r].status # "none" => request'[r].status # "none"
    BY <1>5
  <2>2. \A r \in Request : request[r].status = "none" => request'[r].status = "none"
    BY <1>3, <1>5
  <2>3. claimed(n) \in [device: Call, request: Request, owner: Owner]
    BY <1>3
  <2>4. raced' \subseteq Request
    BY <1>2 DEF TypeOK, Stale
  <2> HIDE DEF claimed
  <2>5. paired' \subseteq [device: Call, request: Request, owner: Owner]
    BY <1>1, <2>3 DEF TypeOK
  <2> QED
    BY <1>2, <1>5, <2>1, <2>2, <2>4, <2>5, FinishKeeps DEF TypeOK, Discovered
<1>8. Final
  BY <1>5, <1>6 DEF Final, Answered
<1>9. \A r \in Request : Backed(r)'
  <2> SUFFICES ASSUME NEW r \in Request PROVE Backed(r)'
    OBVIOUS
  <2>1. CASE r = n
    BY <1>1, <1>5, <2>1 DEF Backed
  <2>2. CASE r # n
    BY <1>1, <1>5, <2>2 DEF DiscoveryInv, Pairings, Backed
  <2> QED
    BY <2>1, <2>2
<1>10. \A r \in Request : DevicesOf(r) \subseteq DevicesOf(r)'
  BY <1>1 DEF DevicesOf
<1>11. /\ \A r \in Request : r # n => DevicesOf(r)' = DevicesOf(r)
       /\ DevicesOf(n)' = DevicesOf(n) \cup {claimed(n)}
  BY <1>1 DEF DevicesOf
<1>12. HandedAreDevices'
  BY <1>2, <1>10 DEF DiscoveryInv, Pairings, HandedAreDevices
<1>13. OneDevice'
  <2> SUFFICES ASSUME NEW r \in Request \ raced'
               PROVE  /\ DevicesOf(r)' # {} => request'[r].status = "approved"
                      /\ \A p, q \in DevicesOf(r)' : p = q
                      /\ handed[r] \subseteq {request'[r].token}
    BY <1>2 DEF OneDevice
  <2>1. /\ DevicesOf(r) # {} => request[r].status = "approved"
        /\ \A p, q \in DevicesOf(r) : p = q
        /\ handed[r] \subseteq {request[r].token}
    BY <1>2 DEF DiscoveryInv, Pairings, OneDevice
  <2>2. CASE r # n
    BY <1>5, <1>11, <2>1, <2>2
  <2>3. CASE r = n
    <3>1. DevicesOf(n) = {}
      BY <1>6, <2>1, <2>3
    <3>2. handed[n] = {}
      BY <1>3, <3>1 DEF DiscoveryInv, Pairings, HandedAreDevices
    <3> HIDE DEF claimed
    <3> QED
      BY <1>5, <1>11, <2>3, <3>1, <3>2
  <2> QED
    BY <2>2, <2>3
<1>14. OnePending'
  BY <1>2, <1>5 DEF DiscoveryInv, Pairings, OnePending, Announced
<1> QED
  BY <1>7, <1>8, <1>9, <1>12, <1>13, <1>14 DEF DiscoveryInv, Pairings

\* A handler that is abandoned changes nothing.
LEMMA AbandonKeeps ==
    ASSUME TypeOK, DiscoveryInv, NEW c \in Call, abandon(c)
    PROVE  TypeOK' /\ DiscoveryInv' /\ Final
<1>1. Finish(c) /\ UNCHANGED <<request, paired, handed, raced>>
  BY DEF abandon
<1>2. Handlers' /\ TypeOK'
  BY <1>1, FinishKeeps DEF TypeOK
<1>3. Pairings'
  BY <1>1 DEF DiscoveryInv, Pairings, Backed, HandedAreDevices, OneDevice, OnePending, DevicesOf, Announced
<1> QED
  BY <1>1, <1>2, <1>3 DEF DiscoveryInv, Final

\* A poll that is answered hands out the token the row has.
LEMMA PollKeeps ==
    ASSUME TypeOK, DiscoveryInv, NEW r \in Request, poll_approved(r)
    PROVE  TypeOK' /\ DiscoveryInv' /\ Final
<1>1. /\ request[r].status = "approved"
      /\ handed' = [handed EXCEPT ![r] = @ \cup {request[r].token}]
      /\ UNCHANGED <<request, paired, call, raced>>
  BY DEF poll_approved
<1>2. [device |-> request[r].token, request |-> r, owner |-> request[r].owner] \in paired
  BY <1>1 DEF DiscoveryInv, Pairings, Backed
<1>3. request[r].token \in Call
  BY <1>2 DEF TypeOK
<1>4. /\ handed'[r] = handed[r] \cup {request[r].token}
      /\ \A q \in Request : q # r => handed'[q] = handed[q]
      /\ handed' \in [Request -> SUBSET Call]
  BY <1>1, <1>3 DEF TypeOK
<1>5. \E p \in DevicesOf(r) : p.device = request[r].token
  BY <1>2 DEF DevicesOf
<1>6. HandedAreDevices'
  BY <1>1, <1>4, <1>5 DEF DiscoveryInv, Pairings, HandedAreDevices, DevicesOf
<1>7. OneDevice'
  BY <1>1, <1>4 DEF DiscoveryInv, Pairings, OneDevice, DevicesOf
<1>8. (\A q \in Request : Backed(q)') /\ OnePending'
  BY <1>1 DEF DiscoveryInv, Pairings, Backed, OnePending, Announced
<1>9. Handlers'
  BY <1>1 DEF DiscoveryInv, Handlers, ReadsArePending, CallShape, IdsAreFresh
<1> QED
  BY <1>1, <1>4, <1>6, <1>7, <1>8, <1>9 DEF DiscoveryInv, Pairings, TypeOK, Final

\* A deadline that passes moves no status.
LEMMA DeadlineKeeps ==
    ASSUME TypeOK, DiscoveryInv, NEW r \in Request, deadline(r)
    PROVE  TypeOK' /\ DiscoveryInv' /\ Final
<1>1. /\ request' = [request EXCEPT ![r].late = TRUE]
      /\ UNCHANGED <<paired, call, handed, raced>>
  BY DEF deadline
<1>2. request \in [Request -> Discovered]
  BY DEF TypeOK, Discovered
<1>3. /\ request' \in [Request -> Discovered]
      /\ \A q \in Request : /\ request'[q].status = request[q].status
                           /\ request'[q].token = request[q].token
                           /\ request'[q].owner = request[q].owner
  BY <1>1, <1>2 DEF Discovered
<1>4. Handlers'
  BY <1>1, <1>3 DEF DiscoveryInv, Handlers, ReadsArePending, CallShape, IdsAreFresh
<1>5. Pairings'
  BY <1>1, <1>3 DEF DiscoveryInv, Pairings, Backed, HandedAreDevices, OneDevice, OnePending,
     DevicesOf, Announced
<1> QED
  BY <1>1, <1>3, <1>4, <1>5 DEF DiscoveryInv, TypeOK, Discovered, Final

-----------------------------------------------------------------------------
(* Discovery: theorems *)

\* Every step keeps the invariant and, unless it races, every answer.
LEMMA StepKeeps ==
    ASSUME TypeOK, DiscoveryInv, [Next]_vars
    PROVE  TypeOK' /\ DiscoveryInv' /\ Final
<1>1. CASE UNCHANGED vars
  <2>1. Handlers' /\ TypeOK'
    BY <1>1 DEF vars, TypeOK, DiscoveryInv, Handlers, ReadsArePending, CallShape, IdsAreFresh
  <2>2. Pairings'
    BY <1>1 DEF vars, DiscoveryInv, Pairings, Backed, HandedAreDevices, OneDevice, OnePending,
       DevicesOf, Announced
  <2> QED
    BY <1>1, <2>1, <2>2 DEF vars, DiscoveryInv, Final
<1>2. CASE \E c \in Call : announce(c) \/ expire_overdue(c) \/ claim(c) \/ reject(c) \/ abandon(c)
  BY <1>2, AnnounceKeeps, SettlementsKeep, ClaimKeeps, AbandonKeeps
<1>3. CASE \E c \in Call :
             \/ list_pending_read(c)
             \/ \E r \in Request : \/ announce_read(c, r) \/ poll_read(c, r) \/ reject_read(c, r)
                                   \/ \E o \in Owner : claim_read(c, r, o)
  <2>1. TypeOK' /\ DiscoveryInv'
    BY <1>3, AnnounceReadKeeps, ReadKeeps
  <2>2. request' = request
    BY <1>3 DEF list_pending_read, announce_read, poll_read, reject_read, claim_read, Begin
  <2> QED
    BY <2>1, <2>2 DEF Final
<1>4. CASE \E r \in Request : poll_approved(r) \/ deadline(r)
  BY <1>4, PollKeeps, DeadlineKeeps
<1> QED
  BY <1>1, <1>2, <1>3, <1>4 DEF Next

\* The invariant holds throughout.
LEMMA DiscoveryInvariant == Spec => [](TypeOK /\ DiscoveryInv)
<1>1. Init => TypeOK /\ DiscoveryInv
  <2> SUFFICES ASSUME Init PROVE TypeOK /\ DiscoveryInv
    OBVIOUS
  <2>1. /\ \A c \in Call : call[c].rows = {} /\ call[c].row = {} /\ call[c].op = "new"
        /\ \A r \in Request : request[r].status = "none" /\ handed[r] = {}
        /\ paired = {} /\ raced = {}
    BY DEF Init, NewCall, NoRequest
  <2>2. TypeOK
    <3>1. NewCall \in [op: Open \cup {"new", "done"}, read: [Request -> Status],
                      rows: SUBSET Request, row: SUBSET Request, owner: Owner \cup {NoOwner}]
      BY DEF NewCall, Status
    <3>2. NoRequest \in Discovered
      BY DEF NoRequest, Discovered, Status
    <3> QED
      BY <3>1, <3>2 DEF Init, TypeOK, Discovered
  <2>3. Handlers
    BY <2>1 DEF Handlers, ReadsArePending, CallShape, IdsAreFresh, Open
  <2>4. Pairings
    BY <2>1 DEF Pairings, Backed, HandedAreDevices, OneDevice, OnePending, DevicesOf, Announced
  <2> QED
    BY <2>2, <2>3, <2>4 DEF DiscoveryInv
<1>2. TypeOK /\ DiscoveryInv /\ [Next]_vars => (TypeOK /\ DiscoveryInv)'
  BY StepKeeps
<1> QED
  BY <1>1, <1>2, PTL DEF Spec

\* Every variable keeps its type.
THEOREM TypeCorrect == Spec => []TypeOK
BY DiscoveryInvariant, PTL

\* Whatever claims, rejections and expiries overlap, an approved request names a device that
\* exists and every token handed out belongs to one: claim commits both together.
THEOREM ApprovalsAreBackedHolds == Spec => []ApprovalsAreBacked
<1>1. DiscoveryInv => ApprovalsAreBacked
  BY DEF DiscoveryInv, Pairings, Backed, HandedAreDevices, ApprovalsAreBacked
<1> QED
  BY <1>1, DiscoveryInvariant, PTL

\* A request no two handlers wrote at a time pairs one device at most.
THEOREM UnracedPairingHolds == Spec => []UnracedPairing
<1>1. TypeOK /\ DiscoveryInv => UnracedPairing
  <2> SUFFICES ASSUME TypeOK, DiscoveryInv, NEW r \in Request \ raced
               PROVE  /\ Cardinality(DevicesOf(r)) <= 1
                      /\ DevicesOf(r) # {} <=> request[r].status = "approved"
                      /\ handed[r] \subseteq {request[r].token}
                      /\ r \in Announced => Announced \ raced = {r}
    BY DEF UnracedPairing
  <2>1. /\ DevicesOf(r) # {} => request[r].status = "approved"
        /\ \A p, q \in DevicesOf(r) : p = q
        /\ handed[r] \subseteq {request[r].token}
    BY DEF DiscoveryInv, Pairings, OneDevice
  <2>2. ASSUME request[r].status = "approved" PROVE DevicesOf(r) # {}
    <3> DEFINE p == [device |-> request[r].token, request |-> r, owner |-> request[r].owner]
    <3>1. p \in paired
      BY <2>2 DEF DiscoveryInv, Pairings, Backed
    <3>2. p.request = r
      OBVIOUS
    <3> HIDE DEF p
    <3> QED
      BY <3>1, <3>2 DEF DevicesOf
  <2>3. Cardinality(DevicesOf(r)) <= 1
    <3>1. CASE DevicesOf(r) = {}
      BY <3>1, FS_EmptySet
    <3>2. CASE \E p : DevicesOf(r) = {p}
      BY <3>2, FS_Singleton
    <3> QED
      BY <2>1, <3>1, <3>2
  <2>4. r \in Announced => Announced \ raced = {r}
    BY DEF DiscoveryInv, Pairings, OnePending
  <2> QED
    BY <2>1, <2>2, <2>3, <2>4
<1> QED
  BY <1>1, DiscoveryInvariant, PTL

\* Both: whatever overlaps, a claim pairs what it says it pairs.
THEOREM PairingIsSafeHolds == Spec => []PairingIsSafe
<1>1. ApprovalsAreBacked /\ UnracedPairing => PairingIsSafe
  BY DEF PairingIsSafe
<1> QED
  BY <1>1, ApprovalsAreBackedHolds, UnracedPairingHolds, PTL

\* An answer is final unless it was raced: no later claim, rejection or expiry that read
\* the request while it was pending alone can move it.
THEOREM AnswersAreFinalHolds == Spec => AnswersAreFinal
<1> DEFINE Kept == \A r \in Request \ raced' :
                     request[r].status \in {"approved", "rejected", "expired"} =>
                       request'[r].status = request[r].status
<1>1. TypeOK /\ DiscoveryInv /\ [Next]_vars => [Kept]_vars
  BY StepKeeps DEF Final, Answered
<1> QED
  BY <1>1, DiscoveryInvariant, PTL DEF Spec, AnswersAreFinal
=============================================================================
