----------------------------- MODULE ServiceProofs -----------------------------
(***************************************************************************)
(* What the services around the core promise, for any number of resources, *)
(* callers, requests, devices and crashes: the properties of               *)
(* PlatformServices, each from an invariant of the module it is about.     *)
(***************************************************************************)
EXTENDS PlatformServices, FiniteSetTheorems, TLAPS

-----------------------------------------------------------------------------
(* Resources *)

\* The handlers that publish have a change each, tried less often than its attempt says, and
\* no change that was committed while one ran has it among those that had ended.
CallsInFlight ==
    \A c \in Call : call[c] # NoHandler =>
        /\ call[c].change \in 1..commits /\ call[c].attempt \in 1..KAFKA_RETRY_ATTEMPTS
        /\ Cardinality(Resources!EventsOf(call[c].change)) < call[c].attempt
        /\ \A v \in 1..commits : call[c].change \notin before[v]
        /\ \A d \in Call : call[d] # NoHandler /\ call[d].change = call[c].change => c = d

\* The lines of the trail are of changes, and one that lacks its end may cost another.
LinesAreOfChanges ==
    /\ \A i \in Resources!read_audit_events : trail[i] \in 1..commits
    /\ audited => /\ IsFiniteSet(Resources!Missing)
                  /\ Cardinality(Resources!Missing) + (IF open_line THEN 1 ELSE 0) <= 2 * ends

\* Every change has events no more than attempts, none before a change that had ended
\* when its own was committed.
EventsInOrder ==
    /\ \A v \in 1..commits : Cardinality(Resources!EventsOf(v)) <= KAFKA_RETRY_ATTEMPTS
    /\ \A i, j \in DOMAIN events : i < j => events[j] \notin before[events[i]]

LinesInOrder == \A i, j \in Resources!read_audit_events : i < j => trail[i] < trail[j]

\* The inductive invariant of the resources.
ResourcesInv ==
    Resources!TypeOK /\ CallsInFlight /\ LinesAreOfChanges /\ EventsInOrder /\ LinesInOrder

\* The instance counts as FiniteSets does.
LEMMA SameCount == ASSUME NEW S PROVE Resources!Cardinality(S) = Cardinality(S)
BY DEF Cardinality, Resources!Cardinality

\* A commit appends a change, behind every change whose handler has ended.
LEMMA Committing ==
    ASSUME Resources!ConstantsFit, Resources!TypeOK, NEW r \in Resource, NEW t \in Tenant \cup {Admin},
           Resources!Commit(r, t)
    PROVE  /\ commits' = commits + 1 /\ commits' \in 0..MaxCommits /\ commits \in Nat
           /\ audited' = audited /\ owner' \in [Resource -> Tenant \cup {Gone}]
           /\ before' \in [1..commits + 1 -> SUBSET (1..commits + 1)]
           /\ \A v \in 1..commits : before'[v] = before[v]
           /\ before'[commits + 1] = (1..commits) \ Resources!InFlight
<1> DEFINE ended == (1..commits) \ Resources!InFlight
<1>1. commits \in 0..MaxCommits /\ MaxCommits \in Nat /\ commits < MaxCommits /\ commits' = commits + 1
  BY DEF Resources!ConstantsFit, Resources!TypeOK, Resources!Commit
<1>2. before \in [1..commits -> SUBSET (1..commits)]
  BY DEF Resources!TypeOK, Resources!Changes
<1>3. before' = Append(before, ended)
  BY DEF Resources!Commit, Resources!Changes
<1>4. before \in Seq(SUBSET (1..commits)) /\ Len(before) = commits
  BY <1>1, <1>2
<1>5. /\ DOMAIN before' = 1..commits + 1
      /\ \A v \in 1..commits + 1 : before'[v] = IF v <= commits THEN before[v] ELSE ended
  BY <1>1, <1>2, <1>3, <1>4
<1>6. ended \in SUBSET (1..commits + 1) /\ SUBSET (1..commits) \subseteq SUBSET (1..commits + 1)
  BY <1>1
<1> HIDE DEF ended
<1>7. before \in Seq(SUBSET (1..commits + 1))
  <2>1. before \in [1..commits -> SUBSET (1..commits + 1)]
    BY <1>2, <1>6
  <2> QED
    BY <1>1, <2>1
<1>8. before' \in Seq(SUBSET (1..commits + 1)) /\ Len(before') = commits + 1
  BY <1>1, <1>3, <1>4, <1>6, <1>7
<1>9. before' \in [1..commits + 1 -> SUBSET (1..commits + 1)]
  BY <1>8
<1>10. owner' \in [Resource -> Tenant \cup {Gone}] /\ audited' = audited
  BY DEF Resources!TypeOK, Resources!Commit, Resources!Creates, Resources!Changed
<1> QED
  BY <1>1, <1>5, <1>9, <1>10 DEF ended

\* A commit leaves the order of the events: there is none of its change yet.
LEMMA CommitKeepsEvents ==
    ASSUME Resources!ConstantsFit, ResourcesInv, NEW r \in Resource, NEW t \in Tenant \cup {Admin},
           Resources!Commit(r, t), events' = events
    PROVE  EventsInOrder' /\ events' \in Seq(Resources!Changes') /\ Resources!EventsOf(commits + 1) = {}
<1>1. /\ commits' = commits + 1 /\ commits \in Nat
      /\ \A v \in 1..commits : before'[v] = before[v]
  BY Committing DEF ResourcesInv
<1>2. events \in Seq(1..commits) /\ \A i \in DOMAIN events : events[i] \in 1..commits
  BY DEF ResourcesInv, Resources!TypeOK, Resources!Changes
<1>3. Resources!EventsOf(commits + 1) = {}
  BY <1>1, <1>2 DEF Resources!EventsOf
<1>4. \A v : Resources!EventsOf(v)' = Resources!EventsOf(v)
  BY DEF Resources!EventsOf
<1>5. \A v \in 1..commits' : Cardinality(Resources!EventsOf(v)') <= KAFKA_RETRY_ATTEMPTS
  <2>1. Cardinality({}) = 0 /\ KAFKA_RETRY_ATTEMPTS \in Nat
    BY FS_EmptySet DEF Resources!ConstantsFit
  <2> QED
    BY <1>1, <1>3, <1>4, <2>1 DEF ResourcesInv, EventsInOrder
<1>6. \A i, j \in DOMAIN events' : i < j => events'[j] \notin before'[events'[i]]
  BY <1>1, <1>2 DEF ResourcesInv, EventsInOrder
<1>7. events' \in Seq(1..commits')
  BY <1>1, <1>2
<1> QED
  BY <1>3, <1>5, <1>6, <1>7 DEF EventsInOrder, Resources!Changes

\* A commit leaves the handlers in flight as they are, and its own handler may join them.
LEMMA CommitKeepsCalls ==
    ASSUME Resources!ConstantsFit, ResourcesInv, NEW r \in Resource, NEW t \in Tenant \cup {Admin},
           Resources!Commit(r, t), events' = events,
           \/ call' = call
           \/ call' = [c \in Call |-> NoHandler]
           \/ \E c \in Call : call[c] = NoHandler /\
                call' = [call EXCEPT ![c] = [change |-> commits', attempt |-> 1]]
    PROVE  CallsInFlight'
<1>1. /\ commits' = commits + 1 /\ commits \in Nat
      /\ before' \in [1..commits + 1 -> SUBSET (1..commits + 1)]
      /\ \A v \in 1..commits : before'[v] = before[v]
      /\ before'[commits + 1] = (1..commits) \ Resources!InFlight
  BY Committing DEF ResourcesInv
<1>2. KAFKA_RETRY_ATTEMPTS \in Nat \ {0} /\ CallsInFlight
  BY DEF Resources!ConstantsFit, ResourcesInv
<1>3. \A v : Resources!EventsOf(v)' = Resources!EventsOf(v)
  BY DEF Resources!EventsOf
<1>4. Cardinality(Resources!EventsOf(commits + 1)) = 0
  BY CommitKeepsEvents, FS_EmptySet
<1>5. \A c \in Call : call[c] # NoHandler =>
        /\ call[c].change \in 1..commits' /\ call[c].attempt \in 1..KAFKA_RETRY_ATTEMPTS
        /\ Cardinality(Resources!EventsOf(call[c].change)) < call[c].attempt
        /\ \A v \in 1..commits' : call[c].change \notin before'[v]
  <2> SUFFICES ASSUME NEW c \in Call, call[c] # NoHandler
               PROVE  /\ call[c].change \in 1..commits'
                      /\ \A v \in 1..commits' : call[c].change \notin before'[v]
    BY <1>2 DEF CallsInFlight
  <2>1. call[c].change \in 1..commits /\ call[c].change \in Resources!InFlight
    BY <1>2 DEF CallsInFlight, Resources!InFlight
  <2>2. \A v \in 1..commits : call[c].change \notin before[v]
    BY <1>2 DEF CallsInFlight
  <2> QED
    BY <1>1, <2>1, <2>2
<1>6. CASE call' = call
  BY <1>2, <1>3, <1>5, <1>6 DEF CallsInFlight
<1>7. CASE call' = [c \in Call |-> NoHandler]
  BY <1>7 DEF CallsInFlight
<1>8. ASSUME NEW c \in Call, call[c] = NoHandler,
             call' = [call EXCEPT ![c] = [change |-> commits', attempt |-> 1]]
      PROVE  CallsInFlight'
  <2> DEFINE new == [change |-> commits', attempt |-> 1]
  <2>1. new.change = commits + 1 /\ new.attempt = 1
    BY <1>1
  <2> HIDE DEF new
  <2>2. \A d \in Call \ {c} : call'[d] = call[d]
    BY <1>8
  <2>3. call'[c] \in {new, call[c]}
    BY <1>8 DEF new
  <2>4. /\ new.change \in 1..commits' /\ new.attempt \in 1..KAFKA_RETRY_ATTEMPTS
        /\ Cardinality(Resources!EventsOf(new.change)) < new.attempt
    BY <1>1, <1>2, <1>4, <2>1
  <2>5. \A v \in 1..commits' : new.change \notin before'[v]
    <3>1. \A v \in 1..commits : before[v] \subseteq 1..commits
      BY DEF ResourcesInv, Resources!TypeOK, Resources!Changes
    <3> QED
      BY <1>1, <2>1, <3>1
  <2>6. \A d \in Call \ {c} : call[d] # NoHandler => call[d].change # new.change
    BY <1>1, <1>2, <2>1 DEF CallsInFlight
  <2> QED
    <3>1. ASSUME NEW d \in Call, call'[d] # NoHandler
          PROVE  /\ call'[d].change \in 1..commits' /\ call'[d].attempt \in 1..KAFKA_RETRY_ATTEMPTS
                 /\ Cardinality(Resources!EventsOf(call'[d].change)) < call'[d].attempt
                 /\ \A v \in 1..commits' : call'[d].change \notin before'[v]
      BY <1>5, <1>8, <2>2, <2>3, <2>4, <2>5, <3>1
    <3>2. ASSUME NEW d \in Call, NEW e \in Call, call'[d] # NoHandler, call'[e] # NoHandler,
                 call'[d].change = call'[e].change
          PROVE  d = e
      BY <1>2, <1>8, <2>2, <2>3, <2>6, <3>2 DEF CallsInFlight
    <3> QED
      BY <1>3, <3>1, <3>2 DEF CallsInFlight
<1> QED
  BY <1>6, <1>7, <1>8

\* Whatever line a change leaves, the trail stays in order, and it lacks nothing but that
\* change, and not even that if its line was written or refused.
LEMMA LinesKept ==
    ASSUME Resources!ConstantsFit, ResourcesInv, commits' = commits + 1, commits' \in 0..MaxCommits,
           refused' \in {refused, refused \cup {commits'}},
           trail' \in {trail, Append(trail, commits'), Append(trail, Torn)}
    PROVE  /\ trail' \in Seq(1..MaxCommits \cup {Torn})
           /\ \A i \in Resources!read_audit_events' : trail'[i] \in 1..commits'
           /\ LinesInOrder'
           /\ Resources!Missing' \subseteq Resources!Missing \cup {commits'}
           /\ commits' \in refused' \/ trail' = Append(trail, commits') =>
                Resources!Missing' \subseteq Resources!Missing
<1> DEFINE read == {i \in DOMAIN trail : trail[i] # Torn}
           line == 1..MaxCommits \cup {Torn}
           lacking == {v \in 1..commits : \A i \in read : trail[i] # v} \ refused
<1>1. /\ commits \in Nat /\ MaxCommits \in Nat /\ Torn \notin Nat
      /\ commits' \in 1..MaxCommits
  BY DEF Resources!ConstantsFit, ResourcesInv, Resources!TypeOK
<1>2. trail \in Seq(line)
  BY DEF ResourcesInv, Resources!TypeOK
<1>3. /\ \A i \in read : trail[i] \in 1..commits
      /\ \A i, j \in read : i < j => trail[i] < trail[j]
  BY DEF ResourcesInv, LinesAreOfChanges, LinesInOrder, Resources!read_audit_events
<1>4. Resources!Missing = lacking
  BY DEF Resources!Missing, Resources!read_audit_events, Resources!Changes
<1> DEFINE read_ == {i \in DOMAIN trail' : trail'[i] # Torn}
           lacking_ == {v \in 1..commits' : \A i \in read_ : trail'[i] # v} \ refused'
<1>5. Resources!Missing' = lacking_ /\ Resources!read_audit_events' = read_
  BY DEF Resources!Missing, Resources!read_audit_events, Resources!Changes
<1>6. ASSUME trail' = trail
      PROVE  /\ trail' \in Seq(line) /\ read_ = read
             /\ \A i \in read : trail'[i] = trail[i]
  BY <1>2, <1>6
<1>7. ASSUME trail' = Append(trail, Torn)
      PROVE  /\ trail' \in Seq(line) /\ read_ = read
             /\ \A i \in read : trail'[i] = trail[i]
  <2>1. /\ trail' \in Seq(line) /\ DOMAIN trail' = 1..Len(trail) + 1 /\ DOMAIN trail = 1..Len(trail)
        /\ \A i \in 1..Len(trail) : trail'[i] = trail[i]
        /\ trail'[Len(trail) + 1] = Torn
    BY <1>2, <1>7
  <2> QED
    BY <1>2, <2>1
<1>8. ASSUME trail' = Append(trail, commits')
      PROVE  /\ trail' \in Seq(line) /\ read_ = read \cup {Len(trail) + 1}
             /\ \A i \in read : trail'[i] = trail[i] /\ i <= Len(trail)
             /\ trail'[Len(trail) + 1] = commits'
  <2>1. /\ trail' \in Seq(line) /\ DOMAIN trail' = 1..Len(trail) + 1 /\ DOMAIN trail = 1..Len(trail)
        /\ \A i \in 1..Len(trail) : trail'[i] = trail[i]
        /\ trail'[Len(trail) + 1] = commits'
    BY <1>1, <1>2, <1>8
  <2>2. commits' # Torn
    BY <1>1
  <2> QED
    BY <1>2, <2>1, <2>2
<1>9. ASSUME read_ = read, \A i \in read : trail'[i] = trail[i]
      PROVE  /\ \A i \in read_ : trail'[i] \in 1..commits'
             /\ \A i, j \in read_ : i < j => trail'[i] < trail'[j]
             /\ lacking_ \subseteq lacking \cup {commits'}
             /\ commits' \in refused' => lacking_ \subseteq lacking
  <2> HIDE DEF read, read_
  <2> QED
    BY <1>1, <1>3, <1>9
<1>10. ASSUME trail' = Append(trail, commits')
       PROVE  /\ \A i \in read_ : trail'[i] \in 1..commits'
              /\ \A i, j \in read_ : i < j => trail'[i] < trail'[j]
              /\ lacking_ \subseteq lacking
  <2>1. /\ read_ = read \cup {Len(trail) + 1}
        /\ \A i \in read : trail'[i] = trail[i] /\ i <= Len(trail) /\ i \in Nat
        /\ trail'[Len(trail) + 1] = commits' /\ Len(trail) \in Nat
    BY <1>2, <1>8, <1>10
  <2> HIDE DEF read, read_
  <2>2. /\ \A i \in read_ : trail'[i] \in 1..commits'
        /\ \A i, j \in read_ : i < j => trail'[i] < trail'[j]
    BY <1>1, <1>3, <2>1
  <2>3. lacking_ \subseteq lacking
    BY <1>1, <2>1
  <2> QED
    BY <2>2, <2>3
<1>11. CASE trail' = Append(trail, commits')
  <2> HIDE DEF read, read_, lacking, lacking_
  <2> QED
    BY <1>4, <1>5, <1>8, <1>10, <1>11 DEF LinesInOrder
<1>12. CASE trail' \in {trail, Append(trail, Torn)}
  <2>1. trail' \in Seq(line) /\ read_ = read /\ \A i \in read : trail'[i] = trail[i]
    BY <1>6, <1>7, <1>12
  <2>2. trail' = Append(trail, commits') => lacking_ \subseteq lacking
    BY <1>10
  <2> HIDE DEF read, read_, lacking, lacking_
  <2> QED
    BY <1>4, <1>5, <1>9, <2>1, <2>2 DEF LinesInOrder
<1> QED
  BY <1>11, <1>12

\* What the trail lacks stays within what crashes explain.
LEMMA LossesKept ==
    ASSUME Resources!ConstantsFit, ResourcesInv, NEW extra \in {0, 1},
           IsFiniteSet(Resources!Missing) =>
             /\ IsFiniteSet(Resources!Missing')
             /\ Cardinality(Resources!Missing') <= Cardinality(Resources!Missing) + extra,
           audited' = audited, open_line' \in BOOLEAN,
           \/ ends' = ends /\ extra = 0 /\ (open_line' => open_line)
           \/ ends' = ends /\ open_line /\ ~open_line'
           \/ ends' = ends + 1
    PROVE  audited' => /\ IsFiniteSet(Resources!Missing')
                       /\ Cardinality(Resources!Missing') + (IF open_line' THEN 1 ELSE 0) <= 2 * ends'
<1> SUFFICES ASSUME audited PROVE /\ IsFiniteSet(Resources!Missing')
                                  /\ Cardinality(Resources!Missing') + (IF open_line' THEN 1 ELSE 0) <= 2 * ends'
  OBVIOUS
<1> DEFINE n == Cardinality(Resources!Missing)
           m == Cardinality(Resources!Missing')
<1>1. /\ IsFiniteSet(Resources!Missing) /\ n + (IF open_line THEN 1 ELSE 0) <= 2 * ends
      /\ open_line \in BOOLEAN /\ ends \in Nat
  BY DEF ResourcesInv, LinesAreOfChanges, Resources!TypeOK, Resources!ConstantsFit
<1>2. IsFiniteSet(Resources!Missing') /\ m <= n + extra
  BY <1>1
<1>3. n \in Nat /\ m \in Nat
  BY <1>1, <1>2, FS_CardinalityType
<1> HIDE DEF n, m
<1>4. m + (IF open_line' THEN 1 ELSE 0) <= 2 * ends'
  BY <1>1, <1>2, <1>3
<1> QED
  BY <1>2, <1>4 DEF m

\* Every kind of commit: with its line and its handler, refused, or cut off by a crash.
LEMMA CommitKeeps ==
    ASSUME Resources!ConstantsFit, ResourcesInv, NEW r \in Resource, NEW t \in Tenant \cup {Admin},
           \/ \E c \in Call : Resources!change(c, r, t)
           \/ Resources!change_unaudited(r, t)
           \/ Resources!crash_in_change(r, t)
    PROVE  ResourcesInv'
<1> DEFINE written == trail' = Append(trail, commits')
<1> DEFINE Effect ==
             /\ Resources!Commit(r, t) /\ events' = events
             /\ producer' \in BOOLEAN /\ open_line' \in BOOLEAN /\ ends' \in 0..MaxEnds
             /\ refused' \in {refused, refused \cup {commits'}}
             /\ trail' \in {trail, Append(trail, commits'), Append(trail, Torn)}
<1>1. Effect
  <2>1. producer \in BOOLEAN /\ open_line \in BOOLEAN /\ ends \in 0..MaxEnds /\ MaxEnds \in Nat
    BY DEF ResourcesInv, Resources!TypeOK, Resources!ConstantsFit
  <2>2. ASSUME NEW c \in Call, Resources!change(c, r, t) PROVE Effect
    <3>1. CASE audited
      BY <2>1, <2>2, <3>1 DEF Resources!change, Resources!emit_audit_event
    <3>2. CASE ~audited
      BY <2>1, <2>2, <3>2 DEF Resources!change
    <3> QED
      BY <3>1, <3>2
  <2>3. ASSUME Resources!change_unaudited(r, t) PROVE Effect
    BY <2>1, <2>3 DEF Resources!change_unaudited
  <2>4. ASSUME Resources!crash_in_change(r, t) PROVE Effect
    <3>1. /\ Resources!Commit(r, t) /\ events' = events /\ refused' = refused
          /\ producer' \in BOOLEAN /\ ends' = ends + 1 /\ ends < MaxEnds
      BY <2>4 DEF Resources!crash_in_change, Resources!Restarted
    <3>2. /\ open_line' \in {open_line, TRUE}
          /\ trail' \in {trail, Append(trail, Torn)}
      BY <2>4 DEF Resources!crash_in_change
    <3>3. open_line' \in BOOLEAN
      BY <2>1, <3>2
    <3>4. ends' \in 0..MaxEnds
      BY <2>1, <3>1
    <3> QED
      BY <3>1, <3>2, <3>3, <3>4
  <2> QED
    BY <2>2, <2>3, <2>4
<1>2. \/ call' = call
      \/ call' = [c \in Call |-> NoHandler]
      \/ \E c \in Call : call[c] = NoHandler /\
           call' = [call EXCEPT ![c] = [change |-> commits', attempt |-> 1]]
  <2>1. ASSUME NEW c \in Call, Resources!change(c, r, t)
        PROVE  \/ call' = call
               \/ call[c] = NoHandler /\ call' = [call EXCEPT ![c] = [change |-> commits', attempt |-> 1]]
    <3>1. call[c] = NoHandler /\ call \in [Call -> Resources!Publication \cup {NoHandler}]
      BY <2>1 DEF Resources!change, ResourcesInv, Resources!TypeOK
    <3>2. CASE producer
      BY <2>1, <3>1, <3>2 DEF Resources!change
    <3>3. CASE ~producer
      <4>1. call' = [call EXCEPT ![c] = NoHandler]
        BY <2>1, <3>3 DEF Resources!change
      <4> QED
        BY <3>1, <4>1
    <3> QED
      BY <3>2, <3>3
  <2>2. ASSUME Resources!change_unaudited(r, t) PROVE call' = call
    BY <2>2 DEF Resources!change_unaudited
  <2>3. ASSUME Resources!crash_in_change(r, t) PROVE call' = [c \in Call |-> NoHandler]
    BY <2>3 DEF Resources!crash_in_change, Resources!Restarted
  <2> QED
    BY <2>1, <2>2, <2>3
<1>3. /\ commits' = commits + 1 /\ commits' \in 0..MaxCommits /\ commits \in Nat /\ audited' = audited
      /\ owner' \in [Resource -> Tenant \cup {Gone}]
      /\ before' \in [1..commits + 1 -> SUBSET (1..commits + 1)]
  BY <1>1, Committing DEF ResourcesInv
<1>4. EventsInOrder' /\ events' \in Seq(Resources!Changes')
  BY <1>1, CommitKeepsEvents
<1>5. CallsInFlight'
  BY <1>1, <1>2, CommitKeepsCalls
<1>6. /\ trail' \in Seq(1..MaxCommits \cup {Torn})
      /\ \A i \in Resources!read_audit_events' : trail'[i] \in 1..commits'
      /\ LinesInOrder'
      /\ Resources!Missing' \subseteq Resources!Missing \cup {commits'}
      /\ commits' \in refused' \/ written => Resources!Missing' \subseteq Resources!Missing
  BY <1>1, <1>3, LinesKept
<1>7. \/ ends' = ends /\ (commits' \in refused' \/ written) /\ (open_line' => open_line)
      \/ ends' = ends /\ open_line /\ ~open_line'
      \/ ends' = ends + 1
      \/ ~audited
  BY DEF Resources!change, Resources!change_unaudited, Resources!crash_in_change, Resources!Restarted,
         Resources!emit_audit_event, ResourcesInv, Resources!TypeOK
<1>8. ASSUME IsFiniteSet(Resources!Missing)
      PROVE  /\ IsFiniteSet(Resources!Missing')
             /\ Cardinality(Resources!Missing') <= Cardinality(Resources!Missing) + 1
             /\ Resources!Missing' \subseteq Resources!Missing =>
                  Cardinality(Resources!Missing') <= Cardinality(Resources!Missing) + 0
  <2> DEFINE more == Resources!Missing \cup {commits'}
  <2>1. IsFiniteSet(more) /\ Cardinality(more) <= Cardinality(Resources!Missing) + 1
        /\ Cardinality(Resources!Missing) \in Nat
    <3>1. IsFiniteSet(more)
          /\ Cardinality(more) \in {Cardinality(Resources!Missing), Cardinality(Resources!Missing) + 1}
      BY <1>8, FS_AddElement
    <3>2. Cardinality(Resources!Missing) \in Nat
      BY <1>8, FS_CardinalityType
    <3> QED
      BY <3>1, <3>2
  <2>2. IsFiniteSet(Resources!Missing') /\ Cardinality(Resources!Missing') <= Cardinality(more)
    BY <1>6, <2>1, FS_Subset
  <2>3. Resources!Missing' \subseteq Resources!Missing =>
          Cardinality(Resources!Missing') <= Cardinality(Resources!Missing)
    BY <1>8, FS_Subset
  <2>4. Cardinality(Resources!Missing') \in Nat /\ Cardinality(more) \in Nat
    BY <2>1, <2>2, FS_CardinalityType
  <2> QED
    BY <2>1, <2>2, <2>3, <2>4
<1>9. audited' => /\ IsFiniteSet(Resources!Missing')
                  /\ Cardinality(Resources!Missing') + (IF open_line' THEN 1 ELSE 0) <= 2 * ends'
  <2> HIDE DEF written
  <2>1. CASE ends' = ends /\ (commits' \in refused' \/ written) /\ (open_line' => open_line)
    <3>1. Resources!Missing' \subseteq Resources!Missing
      BY <1>6, <2>1
    <3> QED
      BY <1>1, <1>3, <1>8, <2>1, <3>1, LossesKept
  <2>2. CASE (ends' = ends /\ open_line /\ ~open_line') \/ ends' = ends + 1
    BY <1>1, <1>3, <1>8, <2>2, LossesKept
  <2>3. CASE ~audited
    BY <1>3, <2>3
  <2> QED
    BY <1>7, <2>1, <2>2, <2>3
<1>10. LinesAreOfChanges'
  BY <1>6, <1>9 DEF LinesAreOfChanges
<1>11. refused' \subseteq 1..commits' /\ audited' \in BOOLEAN
  BY <1>1, <1>3 DEF ResourcesInv, Resources!TypeOK, Resources!Changes
<1>12. call' \in [Call -> Resources!Publication' \cup {NoHandler}]
  <2>1. /\ call \in [Call -> Resources!Publication \cup {NoHandler}]
        /\ Resources!Publication \subseteq Resources!Publication'
    BY <1>3 DEF ResourcesInv, Resources!TypeOK, Resources!Publication, Resources!Changes
  <2>2. [change |-> commits', attempt |-> 1] \in Resources!Publication'
    BY <1>3 DEF Resources!Publication, Resources!Changes, Resources!ConstantsFit
  <2> QED
    BY <1>2, <2>1, <2>2
<1>13. Resources!TypeOK'
  BY <1>1, <1>3, <1>4, <1>6, <1>11, <1>12 DEF Resources!TypeOK, Resources!Changes
<1> QED
  BY <1>4, <1>5, <1>6, <1>10, <1>13 DEF ResourcesInv

\* An attempt appends the event of its own change at most, and is counted.
LEMMA PublishKeeps ==
    ASSUME Resources!ConstantsFit, ResourcesInv, NEW c \in Call, NEW out \in BOOLEAN, NEW ok \in BOOLEAN,
           Resources!publish_event(c, out, ok)
    PROVE  ResourcesInv'
<1>0. PICK v, n : v = call[c].change /\ n = call[c].attempt
  OBVIOUS
<1> DEFINE next == [call[c] EXCEPT !.attempt = @ + 1]
           last == ok \/ n = KAFKA_RETRY_ATTEMPTS
<1>1. /\ call[c] # NoHandler /\ call[c] \in Resources!Publication
      /\ call \in [Call -> Resources!Publication \cup {NoHandler}]
  BY DEF ResourcesInv, Resources!TypeOK, Resources!publish_event
<1>2. v \in 1..commits /\ n \in 1..KAFKA_RETRY_ATTEMPTS /\ Cardinality(Resources!EventsOf(v)) < n
  BY <1>0, <1>1 DEF ResourcesInv, CallsInFlight
<1>3. commits \in Nat /\ KAFKA_RETRY_ATTEMPTS \in Nat \ {0}
  BY DEF ResourcesInv, Resources!TypeOK, Resources!ConstantsFit
<1>4. events \in Seq(1..commits) /\ \A i \in DOMAIN events : events[i] \in 1..commits
  BY DEF ResourcesInv, Resources!TypeOK, Resources!Changes
<1>5. events' \in {events, Append(events, v)}
  BY <1>0 DEF Resources!publish_event
<1>6. UNCHANGED <<audited, owner, commits, trail, open_line, refused, producer, before, ends>>
  BY DEF Resources!publish_event
<1>7. call' = [call EXCEPT ![c] = IF last THEN NoHandler ELSE next]
  <2>1. call' = [call EXCEPT ![c] = IF ok \/ call[c].attempt = KAFKA_RETRY_ATTEMPTS THEN NoHandler
                                    ELSE next]
    BY DEF Resources!publish_event, Resources!last_attempt
  <2> QED
    BY <1>0, <2>1
<1>8. next.change = v /\ next.attempt = n + 1 /\ next \in [change : 1..commits, attempt : Nat]
  BY <1>0, <1>1, <1>2, <1>3 DEF Resources!Publication, Resources!Changes
<1> HIDE DEF next
<1>9. next \in Resources!Publication \/ last
  <2> SUFFICES ASSUME n # KAFKA_RETRY_ATTEMPTS PROVE next \in Resources!Publication
    OBVIOUS
  <2>1. n + 1 \in 1..KAFKA_RETRY_ATTEMPTS
    BY <1>2, <1>3
  <2> QED
    BY <1>8, <2>1 DEF Resources!Publication, Resources!Changes
<1>10. Resources!TypeOK'
  <2>1. events' \in Seq(1..commits)
    <3>1. CASE events' = events
      BY <1>4, <3>1
    <3>2. CASE events' = Append(events, v)
      BY <1>2, <1>4, <3>2
    <3> QED
      BY <1>5, <3>1, <3>2
  <2>2. call' \in [Call -> Resources!Publication \cup {NoHandler}]
    BY <1>1, <1>7, <1>9
  <2>3. Resources!Publication' = Resources!Publication
    BY <1>6 DEF Resources!Publication, Resources!Changes
  <2> QED
    BY <1>6, <2>1, <2>2, <2>3 DEF ResourcesInv, Resources!TypeOK, Resources!Changes
<1>11. LinesAreOfChanges' /\ LinesInOrder'
  BY <1>6 DEF ResourcesInv, LinesAreOfChanges, LinesInOrder, Resources!Missing,
     Resources!read_audit_events, Resources!Changes
<1>12. \A u : u # v => Resources!EventsOf(u)' = Resources!EventsOf(u)
  BY <1>2, <1>4, <1>5 DEF Resources!EventsOf
<1>13. Cardinality(Resources!EventsOf(v)') \in Nat /\ Cardinality(Resources!EventsOf(v)') <= n
  <2>1. IsFiniteSet(Resources!EventsOf(v)) /\ Cardinality(Resources!EventsOf(v)) \in Nat
    <3>1. IsFiniteSet(1..Len(events)) /\ Resources!EventsOf(v) \subseteq 1..Len(events)
      BY <1>4, FS_Interval DEF Resources!EventsOf
    <3> QED
      BY <3>1, FS_Subset, FS_CardinalityType
  <2>2. Resources!EventsOf(v)' \in {Resources!EventsOf(v), Resources!EventsOf(v) \cup {Len(events) + 1}}
    BY <1>2, <1>4, <1>5 DEF Resources!EventsOf
  <2>3. Cardinality(Resources!EventsOf(v)') \in
          {Cardinality(Resources!EventsOf(v)), Cardinality(Resources!EventsOf(v)) + 1}
    BY <2>1, <2>2, FS_AddElement
  <2> QED
    BY <1>2, <2>1, <2>3
<1>14. EventsInOrder'
  <2>1. ASSUME NEW u \in 1..commits PROVE Cardinality(Resources!EventsOf(u)') <= KAFKA_RETRY_ATTEMPTS
    <3>1. CASE u = v
      BY <1>2, <1>3, <1>13, <3>1
    <3>2. CASE u # v
      BY <1>12, <3>2 DEF ResourcesInv, EventsInOrder
    <3> QED
      BY <3>1, <3>2
  <2>2. \A i \in DOMAIN events : v \notin before[events[i]]
    BY <1>0, <1>1, <1>4 DEF ResourcesInv, CallsInFlight
  <2>3. \A i, j \in DOMAIN events : i < j => events[j] \notin before[events[i]]
    BY DEF ResourcesInv, EventsInOrder
  <2>4. \A i, j \in DOMAIN events' : i < j => events'[j] \notin before[events'[i]]
    <3>1. CASE events' = events
      BY <2>3, <3>1
    <3>2. CASE events' = Append(events, v)
      <4>1. /\ DOMAIN events' = 1..Len(events) + 1 /\ DOMAIN events = 1..Len(events)
            /\ Len(events) \in Nat /\ events'[Len(events) + 1] = v
            /\ \A i \in 1..Len(events) : events'[i] = events[i]
        BY <1>2, <1>4, <3>2
      <4> QED
        BY <2>2, <2>3, <4>1
    <3> QED
      BY <1>5, <3>1, <3>2
  <2> QED
    BY <1>6, <2>1, <2>4 DEF EventsInOrder
<1>15. CallsInFlight'
  <2>1. /\ \A d \in Call \ {c} : call'[d] = call[d]
        /\ call'[c] = IF last THEN NoHandler ELSE next
    BY <1>1, <1>7
  <2>2. \A d \in Call \ {c} : call[d] # NoHandler => call[d].change # v
    BY <1>0, <1>1 DEF ResourcesInv, CallsInFlight
  <2>3. ASSUME NEW d \in Call, call'[d] # NoHandler
        PROVE  /\ call'[d].change \in 1..commits /\ call'[d].attempt \in 1..KAFKA_RETRY_ATTEMPTS
               /\ \A u : u = call'[d].change => Cardinality(Resources!EventsOf(u)') < call'[d].attempt
               /\ \A u \in 1..commits : call'[d].change \notin before[u]
    <3>1. CASE d = c
      <4>1. call'[d] = next /\ next.attempt \in 1..KAFKA_RETRY_ATTEMPTS
        BY <1>9, <2>1, <2>3, <3>1 DEF Resources!Publication
      <4>2. Cardinality(Resources!EventsOf(v)') < n + 1
        BY <1>2, <1>3, <1>13
      <4>3. \A u \in 1..commits : v \notin before[u]
        BY <1>0, <1>1 DEF ResourcesInv, CallsInFlight
      <4> QED
        BY <1>2, <1>8, <4>1, <4>2, <4>3
    <3>2. CASE d # c
      <4>1. call'[d] = call[d] /\ call[d].change # v /\ call[d] # NoHandler
        BY <2>1, <2>2, <2>3, <3>2
      <4> QED
        BY <1>12, <4>1 DEF ResourcesInv, CallsInFlight
    <3> QED
      BY <3>1, <3>2
  <2>4. ASSUME NEW d \in Call, NEW e \in Call, call'[d] # NoHandler, call'[e] # NoHandler,
               call'[e].change = call'[d].change
        PROVE  d = e
    BY <1>8, <2>1, <2>2, <2>4 DEF ResourcesInv, CallsInFlight
  <2>5. \A d \in Call : call'[d] # NoHandler =>
          Cardinality(Resources!EventsOf(call[d].change)') < call'[d].attempt
    BY <2>3
  <2> QED
    BY <1>6, <2>3, <2>4, <2>5 DEF CallsInFlight
<1> QED
  BY <1>10, <1>11, <1>14, <1>15 DEF ResourcesInv

\* A process that ends takes its handlers with it and leaves the rest.
LEMMA CrashKeeps ==
    ASSUME Resources!ConstantsFit, ResourcesInv, Resources!crash
    PROVE  ResourcesInv'
<1>1. /\ UNCHANGED <<audited, owner, commits, trail, open_line, refused, events, before>>
      /\ ends' = ends + 1 /\ ends < MaxEnds /\ producer' \in BOOLEAN
      /\ call' = [c \in Call |-> NoHandler]
  BY DEF Resources!crash, Resources!Restarted
<1>2. ends \in 0..MaxEnds /\ MaxEnds \in Nat /\ open_line \in BOOLEAN
  BY DEF ResourcesInv, Resources!TypeOK, Resources!ConstantsFit
<1>3. Resources!Missing' = Resources!Missing
  BY <1>1 DEF Resources!Missing, Resources!read_audit_events, Resources!Changes
<1>4. IsFiniteSet(Resources!Missing) => Cardinality(Resources!Missing) \in Nat
  BY FS_CardinalityType
<1>5. audited' => /\ IsFiniteSet(Resources!Missing')
                  /\ Cardinality(Resources!Missing') + (IF open_line' THEN 1 ELSE 0) <= 2 * ends'
  BY <1>1, <1>2, <1>3, <1>4 DEF ResourcesInv, LinesAreOfChanges
<1>6. LinesAreOfChanges' /\ LinesInOrder'
  BY <1>1, <1>5 DEF ResourcesInv, LinesAreOfChanges, LinesInOrder, Resources!read_audit_events
<1>7. EventsInOrder'
  BY <1>1 DEF ResourcesInv, EventsInOrder, Resources!EventsOf
<1>8. CallsInFlight'
  BY <1>1 DEF CallsInFlight
<1>9. ends' \in 0..MaxEnds
  BY <1>1, <1>2
<1>10. Resources!TypeOK'
  BY <1>1, <1>9 DEF ResourcesInv, Resources!TypeOK, Resources!Changes, Resources!Publication
<1> QED
  BY <1>6, <1>7, <1>8, <1>10 DEF ResourcesInv

\* Before the first change there is nothing to account for.
LEMMA ResourcesBegin == ASSUME Resources!ConstantsFit, Resources!Init PROVE ResourcesInv
<1>1. /\ audited \in BOOLEAN /\ producer \in BOOLEAN /\ commits = 0 /\ trail = <<>> /\ open_line = FALSE
      /\ refused = {} /\ call = [c \in Call |-> NoHandler] /\ events = <<>> /\ before = <<>> /\ ends = 0
      /\ owner = [r \in Resource |-> Gone]
  BY DEF Resources!Init
<1>2. Resources!read_audit_events = {} /\ Resources!Missing = {}
  BY <1>1 DEF Resources!read_audit_events, Resources!Missing, Resources!Changes
<1>3. LinesAreOfChanges /\ LinesInOrder
  BY <1>1, <1>2, FS_EmptySet DEF LinesAreOfChanges, LinesInOrder
<1>4. EventsInOrder /\ CallsInFlight
  BY <1>1 DEF EventsInOrder, CallsInFlight
<1>5. before \in [1..commits -> SUBSET (1..commits)]
  BY <1>1
<1>6. open_line \in BOOLEAN
  BY <1>1
<1>7. Resources!TypeOK
  BY <1>1, <1>5, <1>6 DEF Resources!TypeOK, Resources!Changes, Resources!ConstantsFit
<1> QED
  BY <1>3, <1>4, <1>7 DEF ResourcesInv

\* A step of the resources keeps their invariant.
LEMMA ResourcesStep ==
    ASSUME Resources!ConstantsFit, ResourcesInv, [Resources!Next]_(Resources!vars)
    PROVE  ResourcesInv'
<1>1. ASSUME NEW c \in Call, NEW r \in Resource, NEW t \in Tenant \cup {Admin}, Resources!change(c, r, t)
      PROVE  ResourcesInv'
  BY <1>1, CommitKeeps
<1>2. ASSUME NEW r \in Resource, NEW t \in Tenant \cup {Admin},
             Resources!change_unaudited(r, t) \/ Resources!crash_in_change(r, t)
      PROVE  ResourcesInv'
  BY <1>2, CommitKeeps
<1>3. ASSUME NEW c \in Call, NEW out \in BOOLEAN, NEW ok \in BOOLEAN, Resources!publish_event(c, out, ok)
      PROVE  ResourcesInv'
  BY <1>3, PublishKeeps
<1>4. CASE Resources!crash
  BY <1>4, CrashKeeps
<1>5. CASE UNCHANGED Resources!vars
  BY <1>5 DEF Resources!vars, ResourcesInv, Resources!TypeOK, Resources!Changes, Resources!Publication,
     CallsInFlight, LinesAreOfChanges, LinesInOrder, EventsInOrder, Resources!EventsOf,
     Resources!Missing, Resources!read_audit_events
<1> QED
  BY <1>1, <1>2, <1>3, <1>4, <1>5 DEF Resources!Next

\* However handlers overlap and processes end, an event is of a committed change, is not
\* published more often than it is tried and not behind one of a change that had ended, and
\* the trail lacks only what was refused or what a crash cost: publish_event and
\* emit_audit_event.
THEOREM TrailsAndEventsHold ==
    Resources!Spec => [](Resources!TypeOK /\ Resources!EventsAreOfChanges /\ Resources!TrailIsWhole)
<1> USE ServicesAssumption
<1>1. Resources!Init => ResourcesInv
  BY ResourcesBegin
<1>2. ResourcesInv /\ [Resources!Next]_(Resources!vars) => ResourcesInv'
  BY ResourcesStep
<1>3. ResourcesInv => Resources!TypeOK /\ Resources!EventsAreOfChanges /\ Resources!TrailIsWhole
  <2> SUFFICES ASSUME ResourcesInv
               PROVE  Resources!TypeOK /\ Resources!EventsAreOfChanges /\ Resources!TrailIsWhole
    OBVIOUS
  <2>1. Resources!EventsAreOfChanges
    BY SameCount DEF ResourcesInv, EventsInOrder, Resources!EventsAreOfChanges, Resources!Changes
  <2>2. ASSUME audited PROVE Resources!Cardinality(Resources!Missing) <= 2 * ends
    <3>1. /\ IsFiniteSet(Resources!Missing) /\ ends \in Nat
          /\ Cardinality(Resources!Missing) + (IF open_line THEN 1 ELSE 0) <= 2 * ends
      BY <2>2 DEF ResourcesInv, LinesAreOfChanges, Resources!TypeOK, Resources!ConstantsFit
    <3>2. Cardinality(Resources!Missing) \in Nat
      BY <3>1, FS_CardinalityType
    <3>3. Cardinality(Resources!Missing) <= 2 * ends
      BY <3>1, <3>2
    <3> QED
      BY <3>3, SameCount
  <2>3. Resources!TrailIsWhole
    BY <2>2 DEF ResourcesInv, LinesInOrder, Resources!TrailIsWhole
  <2> QED
    BY <2>1, <2>3 DEF ResourcesInv
<1> QED
  BY <1>1, <1>2, <1>3, PTL DEF Resources!Spec

-----------------------------------------------------------------------------
(* PolicyCache *)

\* The audit file has the result, or lost it, or a handler is about to write it.
Logged(k, v) ==
    \/ <<k, v>> \in audit \cup unlogged
    \/ \E r \in Request : /\ request[r] # NoRequest /\ request[r].pc = "log"
                          /\ request[r].key = k /\ request[r].value = v

\* The policy says now what it allows, and said what a handler holds when it began, no
\* longer ago than the calls of Redis take.
HandlersAreRecent ==
    /\ \A k \in Key : allows[k] \in since[k][time]
    /\ \A r \in Request : request[r] # NoRequest =>
         /\ request[r].began <= time /\ time <= request[r].began + Latency
         /\ request[r].value \in since[request[r].key][request[r].began]

\* What is cached was said when its handler began, will be gone in time, and is logged.
EntriesAreRecent ==
    \A k \in Key : entry[k] # NoEntry =>
        /\ time < entry[k].until
        /\ \E t \in 0..time : /\ entry[k].value \in since[k][t]
                              /\ entry[k].until - t <= TTL + Latency
        /\ Logged(k, entry[k].value)

\* So was what was answered.
AnswerIsRecent ==
    answer # NoEntry =>
        /\ answer.at <= time
        /\ \E t \in 0..answer.at : /\ answer.value \in since[answer.key][t]
                                   /\ answer.at - t < TTL + Latency
        /\ Logged(answer.key, answer.value)

\* The inductive invariant of the cache.
PolicyInv == PolicyCache!TypeOK /\ HandlersAreRecent /\ EntriesAreRecent /\ AnswerIsRecent

\* The types its steps are reasoned about with.
PolicyTypes ==
    /\ TTL \in Nat \ {0} /\ Latency \in Nat /\ MaxAge \in Nat /\ time \in 0..MaxAge
    /\ allows \in [Key -> BOOLEAN]
    /\ since \in [Key -> [0..MaxAge -> SUBSET BOOLEAN]]
    /\ entry \in [Key -> PolicyCache!Entry \cup {NoEntry}]
    /\ request \in [Request -> PolicyCache!Handler \cup {NoRequest}]
    /\ NoRequest \notin PolicyCache!Handler

\* No step takes back what the policy has said, and none takes back the time.
LEMMA HistoryGrows ==
    ASSUME PolicyCache!ConstantsFit, PolicyInv, [PolicyCache!Next]_(PolicyCache!vars)
    PROVE  /\ time <= time' /\ time' \in 0..MaxAge
           /\ \A k \in Key, t \in 0..time : since[k][t] \subseteq since'[k][t]
           /\ since' \in [Key -> [0..MaxAge -> SUBSET BOOLEAN]]
<1>1. PolicyTypes
  BY DEF PolicyInv, PolicyCache!TypeOK, PolicyCache!ConstantsFit, PolicyTypes
<1>2. CASE PolicyCache!tick
  <2>1. /\ time' = time + 1 /\ time < MaxAge
        /\ since' = [k \in Key |-> [since[k] EXCEPT ![time + 1] = {allows[k]}]]
    BY <1>2 DEF PolicyCache!tick
  <2>2. \A k \in Key : {allows[k]} \in SUBSET BOOLEAN
    BY <1>1 DEF PolicyTypes
  <2>3. \A k \in Key, t \in 0..time : since'[k][t] = since[k][t]
    BY <1>1, <2>1 DEF PolicyTypes
  <2>4. since' \in [Key -> [0..MaxAge -> SUBSET BOOLEAN]]
    BY <1>1, <2>1, <2>2 DEF PolicyTypes
  <2> QED
    BY <1>1, <2>1, <2>3, <2>4 DEF PolicyTypes
<1>3. ASSUME NEW k \in Key, PolicyCache!roles_change(k)
      PROVE  /\ time' = time
             /\ \A j \in Key, t \in 0..time : since[j][t] \subseteq since'[j][t]
             /\ since' \in [Key -> [0..MaxAge -> SUBSET BOOLEAN]]
  <2>1. /\ time' = time /\ allows' = [allows EXCEPT ![k] = ~allows[k]]
        /\ since' = [since EXCEPT ![k] = [since[k] EXCEPT ![time] = since[k][time] \cup {allows'[k]}]]
    BY <1>1, <1>3 DEF PolicyCache!roles_change, PolicyTypes
  <2>2. allows'[k] \in BOOLEAN
    BY <1>1, <2>1 DEF PolicyTypes
  <2>3. since[k][time] \cup {allows'[k]} \in SUBSET BOOLEAN
    BY <1>1, <2>2 DEF PolicyTypes
  <2> QED
    BY <1>1, <2>1, <2>3 DEF PolicyTypes
<1>4. ASSUME NEW r \in Request, NEW k \in Key, PolicyCache!authorize(r, k)
      PROVE  UNCHANGED <<time, since>>
  BY <1>4 DEF PolicyCache!authorize
<1>5. ASSUME NEW r \in Request,
             PolicyCache!get_hit(r) \/ PolicyCache!get_miss(r) \/ PolicyCache!set(r) \/ PolicyCache!log(r)
      PROVE  UNCHANGED <<time, since>>
  BY <1>5 DEF PolicyCache!get_hit, PolicyCache!get_miss, PolicyCache!set, PolicyCache!log
<1>6. CASE PolicyCache!crash \/ UNCHANGED PolicyCache!vars
  BY <1>1, <1>6 DEF PolicyCache!crash, PolicyCache!vars, PolicyTypes
<1> QED
  BY <1>1, <1>2, <1>3, <1>4, <1>5, <1>6 DEF PolicyCache!Next, PolicyTypes

\* What is logged or about to be stays so: a handler that ends before has lost its line.
LEMMA LoggedStays ==
    ASSUME PolicyCache!ConstantsFit, PolicyInv, [PolicyCache!Next]_(PolicyCache!vars), NEW k, NEW v, Logged(k, v)
    PROVE  Logged(k, v)'
<1>1. PolicyTypes
  BY DEF PolicyInv, PolicyCache!TypeOK, PolicyCache!ConstantsFit, PolicyTypes
<1>2. CASE PolicyCache!tick
  BY <1>2 DEF PolicyCache!tick, Logged
<1>3. CASE PolicyCache!crash
  BY <1>3 DEF PolicyCache!crash, Logged
<1>4. ASSUME NEW j \in Key, PolicyCache!roles_change(j) PROVE Logged(k, v)'
  BY <1>4 DEF PolicyCache!roles_change, Logged
<1>5. ASSUME NEW r \in Request, NEW j \in Key, PolicyCache!authorize(r, j) PROVE Logged(k, v)'
  <2>1. request[r] = NoRequest /\ \A q \in Request \ {r} : request'[q] = request[q]
    BY <1>1, <1>5 DEF PolicyCache!authorize, PolicyTypes
  <2> QED
    BY <1>5, <2>1 DEF PolicyCache!authorize, Logged
<1>6. ASSUME NEW r \in Request,
             PolicyCache!get_hit(r) \/ PolicyCache!get_miss(r) \/ PolicyCache!set(r)
      PROVE  Logged(k, v)'
  <2>1. /\ request[r].pc # "log" /\ UNCHANGED <<audit, unlogged>>
        /\ \A q \in Request \ {r} : request'[q] = request[q]
    BY <1>1, <1>6 DEF PolicyCache!get_hit, PolicyCache!get_miss, PolicyCache!set, PolicyCache!Answered, PolicyTypes
  <2> QED
    BY <2>1 DEF Logged
<1>7. ASSUME NEW r \in Request, PolicyCache!log(r) PROVE Logged(k, v)'
  <2>1. /\ audit' \cup unlogged' = audit \cup unlogged \cup {<<request[r].key, request[r].value>>}
        /\ \A q \in Request \ {r} : request'[q] = request[q]
    BY <1>1, <1>7 DEF PolicyCache!log, PolicyCache!Answered, PolicyTypes
  <2> QED
    BY <2>1 DEF Logged
<1>8. CASE UNCHANGED PolicyCache!vars
  BY <1>8 DEF PolicyCache!vars, Logged
<1> QED
  BY <1>2, <1>3, <1>4, <1>5, <1>6, <1>7, <1>8 DEF PolicyCache!Next

\* A new handler holds what the policy says, and time passes within its calls' latency.
LEMMA HandlersStay ==
    ASSUME PolicyCache!ConstantsFit, PolicyInv, [PolicyCache!Next]_(PolicyCache!vars)
    PROVE  /\ HandlersAreRecent'
           /\ request' \in [Request -> PolicyCache!Handler \cup {NoRequest}]
           /\ allows' \in [Key -> BOOLEAN]
<1>1. PolicyTypes /\ HandlersAreRecent
  BY DEF PolicyInv, PolicyCache!TypeOK, PolicyCache!ConstantsFit, PolicyTypes
<1>2. /\ time <= time' /\ time' \in 0..MaxAge
      /\ \A k \in Key, t \in 0..time : since[k][t] \subseteq since'[k][t]
  BY HistoryGrows
<1>3. \A r \in Request : request[r] # NoRequest =>
        request[r].key \in Key /\ request[r].began \in 0..time /\ request[r].value \in BOOLEAN
  BY <1>1 DEF PolicyTypes, HandlersAreRecent, PolicyCache!Handler
<1>4. \A r \in Request : request[r] # NoRequest =>
        request[r].value \in since'[request[r].key][request[r].began]
  BY <1>1, <1>2, <1>3 DEF HandlersAreRecent
<1>5. CASE PolicyCache!tick
  <2>1. /\ time' = time + 1 /\ UNCHANGED <<allows, request>>
        /\ \A r \in Request : request[r] # NoRequest => time < request[r].began + Latency
        /\ since' = [k \in Key |-> [since[k] EXCEPT ![time + 1] = {allows[k]}]]
    BY <1>5 DEF PolicyCache!tick
  <2>2. \A k \in Key : allows'[k] \in since'[k][time']
    BY <1>1, <1>2, <2>1 DEF PolicyTypes
  <2>3. \A r \in Request : request'[r] # NoRequest =>
          request'[r].began <= time' /\ time' <= request'[r].began + Latency
    BY <1>1, <1>3, <2>1 DEF PolicyTypes
  <2> QED
    BY <1>1, <1>4, <2>1, <2>2, <2>3 DEF HandlersAreRecent, PolicyTypes
<1>6. ASSUME NEW k \in Key, PolicyCache!roles_change(k)
      PROVE  /\ HandlersAreRecent' /\ UNCHANGED request /\ allows' \in [Key -> BOOLEAN]
  <2>1. /\ UNCHANGED <<request, time>> /\ allows' = [allows EXCEPT ![k] = ~allows[k]]
        /\ since' = [since EXCEPT ![k] = [since[k] EXCEPT ![time] = since[k][time] \cup {allows'[k]}]]
    BY <1>1, <1>6 DEF PolicyCache!roles_change, PolicyTypes
  <2>2. allows' \in [Key -> BOOLEAN]
    BY <1>1, <2>1 DEF PolicyTypes
  <2>3. \A j \in Key : allows'[j] \in since'[j][time']
    <3>1. allows'[k] \in since'[k][time]
      BY <1>1, <2>1 DEF PolicyTypes
    <3>2. \A j \in Key \ {k} : allows'[j] = allows[j] /\ since'[j] = since[j]
      BY <1>1, <2>1 DEF PolicyTypes
    <3> QED
      BY <1>1, <2>1, <3>1, <3>2 DEF HandlersAreRecent
  <2> QED
    BY <1>1, <1>4, <2>1, <2>2, <2>3 DEF HandlersAreRecent
<1>7. ASSUME UNCHANGED <<allows, since, time>>,
             \A r \in Request : \/ request'[r] = NoRequest
                                \/ /\ request[r] # NoRequest /\ request'[r].key = request[r].key
                                   /\ request'[r].value = request[r].value
                                   /\ request'[r].began = request[r].began
                                \/ /\ request'[r].key \in Key /\ request'[r].began = time
                                   /\ request'[r].value = allows[request'[r].key]
      PROVE  HandlersAreRecent'
  <2>1. Latency \in Nat /\ time \in Nat
    BY <1>1 DEF PolicyTypes
  <2> QED
    BY <1>1, <1>7, <2>1 DEF HandlersAreRecent
<1>8. ASSUME NEW r \in Request, NEW k \in Key, PolicyCache!authorize(r, k)
      PROVE  /\ HandlersAreRecent' /\ UNCHANGED allows
             /\ request' \in [Request -> PolicyCache!Handler \cup {NoRequest}]
  <2> DEFINE new == [key |-> k, value |-> allows[k], pc |-> "get", began |-> time]
  <2>1. allows[k] \in BOOLEAN /\ time \in 0..MaxAge
    BY <1>1 DEF PolicyTypes
  <2>2. new \in PolicyCache!Handler
    BY <2>1 DEF PolicyCache!Handler
  <2>3. request' = [request EXCEPT ![r] = new] /\ UNCHANGED <<allows, since, time>>
    BY <1>8 DEF PolicyCache!authorize
  <2>4. new.key = k /\ new.value = allows[k] /\ new.began = time
    OBVIOUS
  <2> HIDE DEF new
  <2>5. \A q \in Request : request'[q] = IF q = r THEN new ELSE request[q]
    BY <1>1, <2>3 DEF PolicyTypes
  <2>6. HandlersAreRecent'
    BY <1>7, <2>3, <2>4, <2>5
  <2> QED
    BY <1>1, <2>2, <2>3, <2>6 DEF PolicyTypes
<1>9. ASSUME NEW r \in Request, PolicyCache!get_miss(r) \/ PolicyCache!set(r)
      PROVE  /\ HandlersAreRecent' /\ UNCHANGED allows
             /\ request' \in [Request -> PolicyCache!Handler \cup {NoRequest}]
  <2>1. /\ request[r] \in PolicyCache!Handler /\ UNCHANGED <<allows, since, time>>
        /\ \E pc \in {"set", "log"} : request' = [request EXCEPT ![r] = [request[r] EXCEPT !.pc = pc]]
    BY <1>1, <1>9 DEF PolicyCache!get_miss, PolicyCache!set, PolicyTypes
  <2>2. PICK pc \in {"set", "log"} : request' = [request EXCEPT ![r] = [request[r] EXCEPT !.pc = pc]]
    BY <2>1
  <2> DEFINE new == [request[r] EXCEPT !.pc = pc]
  <2>3. /\ new \in PolicyCache!Handler /\ new.key = request[r].key
        /\ new.value = request[r].value /\ new.began = request[r].began
    BY <2>1 DEF PolicyCache!Handler
  <2>4. request' = [request EXCEPT ![r] = new] /\ request[r] # NoRequest
    BY <1>1, <2>1, <2>2 DEF PolicyTypes
  <2> HIDE DEF new
  <2>5. \A q \in Request : request'[q] = IF q = r THEN new ELSE request[q]
    BY <1>1, <2>4 DEF PolicyTypes
  <2>6. HandlersAreRecent'
    BY <1>7, <2>1, <2>3, <2>4, <2>5
  <2> QED
    BY <1>1, <2>1, <2>3, <2>4, <2>6 DEF PolicyTypes
<1>10. ASSUME NEW r \in Request, PolicyCache!get_hit(r) \/ PolicyCache!log(r)
       PROVE  /\ HandlersAreRecent' /\ UNCHANGED allows
              /\ request' \in [Request -> PolicyCache!Handler \cup {NoRequest}]
  <2>1. request' = [request EXCEPT ![r] = NoRequest] /\ UNCHANGED <<allows, since, time>>
    BY <1>10 DEF PolicyCache!get_hit, PolicyCache!log, PolicyCache!Answered
  <2> QED
    BY <1>1, <1>7, <2>1 DEF PolicyTypes
<1>11. ASSUME PolicyCache!crash
       PROVE  /\ HandlersAreRecent' /\ UNCHANGED allows
              /\ request' \in [Request -> PolicyCache!Handler \cup {NoRequest}]
  <2>1. request' = [r \in Request |-> NoRequest] /\ UNCHANGED <<allows, since, time>>
    BY <1>11 DEF PolicyCache!crash
  <2> QED
    BY <1>7, <2>1
<1>12. CASE UNCHANGED PolicyCache!vars
  BY <1>1, <1>12 DEF PolicyCache!vars, HandlersAreRecent, PolicyTypes
<1> QED
  BY <1>1, <1>5, <1>6, <1>8, <1>9, <1>10, <1>11, <1>12 DEF PolicyCache!Next, PolicyTypes

\* An entry stays what it was until its time comes; a new one holds what its handler holds.
LEMMA EntriesStay ==
    ASSUME PolicyCache!ConstantsFit, PolicyInv, [PolicyCache!Next]_(PolicyCache!vars)
    PROVE  EntriesAreRecent' /\ entry' \in [Key -> PolicyCache!Entry \cup {NoEntry}]
<1>1. PolicyTypes /\ HandlersAreRecent /\ EntriesAreRecent
  BY DEF PolicyInv, PolicyCache!TypeOK, PolicyCache!ConstantsFit, PolicyTypes
<1>2. /\ time <= time' /\ time' \in 0..MaxAge
      /\ \A k \in Key, t \in 0..time : since[k][t] \subseteq since'[k][t]
  BY HistoryGrows
<1>3. ASSUME NEW k \in Key, entry[k] # NoEntry
      PROVE  /\ time < entry[k].until
             /\ \E t \in 0..time' : /\ entry[k].value \in since'[k][t]
                                    /\ entry[k].until - t <= TTL + Latency
             /\ \A v : v = entry[k].value => Logged(k, v)'
  <2>1. PICK v : v = entry[k].value
    OBVIOUS
  <2>2. Logged(k, v)
    BY <1>1, <1>3, <2>1 DEF EntriesAreRecent
  <2>3. Logged(k, v)'
    BY <2>2, LoggedStays
  <2>4. PICK t \in 0..time : entry[k].value \in since[k][t] /\ entry[k].until - t <= TTL + Latency
    BY <1>1, <1>3 DEF EntriesAreRecent
  <2>5. t \in 0..time' /\ entry[k].value \in since'[k][t]
    BY <1>1, <1>2, <2>4 DEF PolicyTypes
  <2> QED
    BY <1>1, <1>3, <2>1, <2>3, <2>4, <2>5 DEF EntriesAreRecent
<1>4. ASSUME NEW k \in Key, entry'[k] = entry[k], entry[k] # NoEntry, time' < entry[k].until
      PROVE  /\ time' < entry'[k].until
             /\ \E t \in 0..time' : /\ entry'[k].value \in since'[k][t]
                                    /\ entry'[k].until - t <= TTL + Latency
             /\ Logged(k, entry[k].value)'
  <2>1. PICK v : v = entry[k].value
    OBVIOUS
  <2>2. Logged(k, v)' /\ v = entry'[k].value
    BY <1>3, <1>4, <2>1
  <2> QED
    BY <1>3, <1>4, <2>2
<1>5. CASE PolicyCache!tick
  <2>1. /\ time' = time + 1
        /\ entry' = [k \in Key |-> IF entry[k] # NoEntry /\ entry[k].until = time' THEN NoEntry ELSE entry[k]]
    BY <1>5 DEF PolicyCache!tick
  <2>2. ASSUME NEW k \in Key, entry'[k] # NoEntry
        PROVE  entry'[k] = entry[k] /\ entry[k] # NoEntry /\ time' < entry[k].until
    <3>1. entry'[k] = entry[k] /\ entry[k] # NoEntry /\ entry[k].until # time'
      BY <2>1, <2>2
    <3>2. time < entry[k].until /\ entry[k].until \in Nat /\ time \in Nat
      BY <1>1, <1>3, <3>1 DEF PolicyTypes, PolicyCache!Entry
    <3> QED
      BY <2>1, <3>1, <3>2
  <2>3. entry' \in [Key -> PolicyCache!Entry \cup {NoEntry}]
    BY <1>1, <2>1 DEF PolicyTypes
  <2> QED
    BY <1>4, <2>2, <2>3 DEF EntriesAreRecent
<1>6. ASSUME entry' = entry, time' = time
      PROVE  EntriesAreRecent' /\ entry' \in [Key -> PolicyCache!Entry \cup {NoEntry}]
  BY <1>1, <1>3, <1>4, <1>6 DEF EntriesAreRecent, PolicyTypes
<1>7. ASSUME NEW r \in Request, PolicyCache!set(r), entry' # entry
      PROVE  EntriesAreRecent' /\ entry' \in [Key -> PolicyCache!Entry \cup {NoEntry}]
  <2>1. PICK k, v, b : k = request[r].key /\ v = request[r].value /\ b = request[r].began
    OBVIOUS
  <2> DEFINE new == [value |-> v, until |-> time + TTL]
  <2>2. /\ request[r] # NoRequest /\ UNCHANGED <<since, time, audit, unlogged>>
        /\ entry' = [entry EXCEPT ![k] = new]
        /\ request' = [request EXCEPT ![r] = [request[r] EXCEPT !.pc = "log"]]
    BY <1>7, <2>1 DEF PolicyCache!set, PolicyCache!Until
  <2>3. /\ request[r] \in PolicyCache!Handler /\ k \in Key /\ v \in BOOLEAN /\ b \in 0..time
        /\ time <= b + Latency /\ v \in since[k][b]
    BY <1>1, <2>1, <2>2 DEF PolicyTypes, HandlersAreRecent, PolicyCache!Handler
  <2>4. new \in PolicyCache!Entry
    <3>1. time + TTL \in 0..MaxAge + TTL
      BY <1>1 DEF PolicyTypes
    <3> QED
      BY <2>3, <3>1 DEF PolicyCache!Entry
  <2>5. new.value = v /\ new.until = time + TTL
    OBVIOUS
  <2> HIDE DEF new
  <2>6. Logged(k, v)'
    <3>1. [request[r] EXCEPT !.pc = "log"] \in PolicyCache!Handler
      BY <2>3 DEF PolicyCache!Handler
    <3>2. request'[r] # NoRequest
      BY <1>1, <2>2, <3>1 DEF PolicyTypes
    <3>3. request'[r].pc = "log" /\ request'[r].key = k /\ request'[r].value = v
      BY <1>1, <2>1, <2>2, <2>3 DEF PolicyTypes, PolicyCache!Handler
    <3> QED
      BY <3>2, <3>3 DEF Logged
  <2>7. /\ time' < new.until /\ new.until - b <= TTL + Latency /\ b \in 0..time'
        /\ v \in since'[k][b]
    BY <1>1, <2>2, <2>3, <2>5 DEF PolicyTypes
  <2>8. ASSUME NEW j \in Key, entry'[j] # NoEntry
        PROVE  /\ time' < entry'[j].until
               /\ \E t \in 0..time' : /\ entry'[j].value \in since'[j][t]
                                      /\ entry'[j].until - t <= TTL + Latency
               /\ \A u : u = entry'[j].value => Logged(j, u)'
    <3>1. CASE j = k
      BY <1>1, <2>2, <2>3, <2>5, <2>6, <2>7, <3>1 DEF PolicyTypes
    <3>2. CASE j # k
      <4>1. entry'[j] = entry[j] /\ time' = time
        BY <1>1, <2>2, <3>2 DEF PolicyTypes
      <4> QED
        BY <1>3, <2>8, <4>1
    <3> QED
      BY <3>1, <3>2
  <2>9. EntriesAreRecent'
    BY <2>8 DEF EntriesAreRecent
  <2> QED
    BY <1>1, <2>2, <2>3, <2>4, <2>9 DEF PolicyTypes
<1>8. ASSUME NEW r \in Request, NEW k \in Key, PolicyCache!authorize(r, k) PROVE entry' = entry /\ time' = time
  BY <1>8 DEF PolicyCache!authorize
<1>9. ASSUME PolicyCache!crash \/ UNCHANGED PolicyCache!vars PROVE entry' = entry /\ time' = time
  BY <1>9 DEF PolicyCache!crash, PolicyCache!vars
<1>10. ASSUME NEW k \in Key, PolicyCache!roles_change(k) PROVE entry' = entry /\ time' = time
  BY <1>10 DEF PolicyCache!roles_change
<1>11. ASSUME NEW r \in Request, PolicyCache!get_hit(r) \/ PolicyCache!get_miss(r) \/ PolicyCache!log(r)
       PROVE  entry' = entry /\ time' = time
  BY <1>11 DEF PolicyCache!get_hit, PolicyCache!get_miss, PolicyCache!log
<1>12. ASSUME NEW r \in Request, PolicyCache!set(r) PROVE time' = time
  BY <1>12 DEF PolicyCache!set
<1> QED
  BY <1>5, <1>6, <1>7, <1>8, <1>9, <1>10, <1>11, <1>12 DEF PolicyCache!Next

\* A hit answers what its entry holds, a handler what it has evaluated and then logs.
LEMMA AnswerStays ==
    ASSUME PolicyCache!ConstantsFit, PolicyInv, [PolicyCache!Next]_(PolicyCache!vars)
    PROVE  /\ AnswerIsRecent'
           /\ answer' # NoEntry => answer' \in [key : Key, value : BOOLEAN, at : 0..MaxAge]
<1> DEFINE Answers == [key : Key, value : BOOLEAN, at : 0..MaxAge]
<1>1. /\ PolicyTypes /\ HandlersAreRecent /\ EntriesAreRecent /\ AnswerIsRecent
      /\ answer # NoEntry => answer \in Answers
  BY DEF PolicyInv, PolicyCache!TypeOK, PolicyCache!ConstantsFit, PolicyTypes
<1>2. /\ time <= time' /\ time' \in 0..MaxAge
      /\ \A k \in Key, t \in 0..time : since[k][t] \subseteq since'[k][t]
  BY HistoryGrows
<1>3. ASSUME answer' = answer
      PROVE  AnswerIsRecent' /\ (answer' # NoEntry => answer' \in Answers)
  <2> SUFFICES ASSUME answer # NoEntry PROVE AnswerIsRecent'
    BY <1>1, <1>3 DEF AnswerIsRecent
  <2>1. PICK k, v, n : k = answer.key /\ v = answer.value /\ n = answer.at
    OBVIOUS
  <2>2. k \in Key /\ n \in 0..MaxAge /\ n <= time /\ Logged(k, v)
    BY <1>1, <2>1 DEF AnswerIsRecent
  <2>3. PICK t \in 0..n : v \in since[k][t] /\ n - t < TTL + Latency
    BY <1>1, <2>1 DEF AnswerIsRecent
  <2>4. Logged(k, v)'
    BY <2>2, LoggedStays
  <2>5. n <= time' /\ v \in since'[k][t]
    BY <1>1, <1>2, <2>2, <2>3 DEF PolicyTypes
  <2> QED
    BY <1>3, <2>1, <2>3, <2>4, <2>5 DEF AnswerIsRecent
<1>4. ASSUME NEW k \in Key, NEW v \in BOOLEAN, NEW t \in 0..time,
             answer' = [key |-> k, value |-> v, at |-> time], time' = time,
             v \in since[k][t], time - t < TTL + Latency, Logged(k, v)'
      PROVE  AnswerIsRecent' /\ (answer' # NoEntry => answer' \in Answers)
  <2>1. answer'.key = k /\ answer'.value = v /\ answer'.at = time /\ answer' \in Answers
    <3>1. time \in 0..MaxAge
      BY <1>1 DEF PolicyTypes
    <3> QED
      BY <1>4, <3>1
  <2>2. v \in since'[k][t] /\ time <= time'
    BY <1>1, <1>2, <1>4 DEF PolicyTypes
  <2> QED
    BY <1>4, <2>1, <2>2 DEF AnswerIsRecent
<1>5. ASSUME NEW r \in Request, PolicyCache!get_hit(r)
      PROVE  AnswerIsRecent' /\ (answer' # NoEntry => answer' \in Answers)
  <2>1. PICK k, v : k = request[r].key /\ v = entry[request[r].key].value
    OBVIOUS
  <2>2. /\ request[r] # NoRequest /\ entry[k] # NoEntry /\ time' = time
        /\ answer' = [key |-> k, value |-> v, at |-> time]
    BY <1>5, <2>1 DEF PolicyCache!get_hit, PolicyCache!Answered
  <2>3. k \in Key /\ v \in BOOLEAN /\ entry[k].until \in Nat /\ v = entry[k].value
    BY <1>1, <2>1, <2>2 DEF PolicyTypes, PolicyCache!Handler, PolicyCache!Entry
  <2>4. time < entry[k].until /\ Logged(k, v)
    BY <1>1, <2>2, <2>3 DEF EntriesAreRecent
  <2>5. PICK t \in 0..time : v \in since[k][t] /\ entry[k].until - t <= TTL + Latency
    BY <1>1, <2>2, <2>3 DEF EntriesAreRecent
  <2>6. time - t < TTL + Latency
    BY <1>1, <2>3, <2>4, <2>5 DEF PolicyTypes
  <2>7. Logged(k, v)'
    BY <2>4, LoggedStays
  <2> QED
    BY <1>4, <2>2, <2>3, <2>5, <2>6, <2>7
<1>6. ASSUME NEW r \in Request, PolicyCache!log(r)
      PROVE  AnswerIsRecent' /\ (answer' # NoEntry => answer' \in Answers)
  <2>1. PICK k, v, b : k = request[r].key /\ v = request[r].value /\ b = request[r].began
    OBVIOUS
  <2>2. /\ request[r] # NoRequest /\ time' = time /\ <<k, v>> \in audit' \cup unlogged'
        /\ answer' = [key |-> k, value |-> v, at |-> time]
    BY <1>6, <2>1 DEF PolicyCache!log, PolicyCache!Answered
  <2>3. k \in Key /\ v \in BOOLEAN /\ b \in 0..time /\ time <= b + Latency /\ v \in since[k][b]
    BY <1>1, <2>1, <2>2 DEF PolicyTypes, HandlersAreRecent, PolicyCache!Handler
  <2>4. time - b < TTL + Latency
    BY <1>1, <2>3 DEF PolicyTypes
  <2>5. Logged(k, v)'
    BY <2>2 DEF Logged
  <2> QED
    BY <1>4, <2>2, <2>3, <2>4, <2>5
<1>7. ASSUME NEW r \in Request, NEW k \in Key, PolicyCache!authorize(r, k) PROVE answer' = answer
  BY <1>7 DEF PolicyCache!authorize
<1>8. ASSUME NEW k \in Key, PolicyCache!roles_change(k) PROVE answer' = answer
  BY <1>8 DEF PolicyCache!roles_change
<1>9. ASSUME NEW r \in Request, PolicyCache!get_miss(r) \/ PolicyCache!set(r) PROVE answer' = answer
  BY <1>9 DEF PolicyCache!get_miss, PolicyCache!set
<1>10. ASSUME PolicyCache!tick \/ PolicyCache!crash \/ UNCHANGED PolicyCache!vars PROVE answer' = answer
  BY <1>10 DEF PolicyCache!tick, PolicyCache!crash, PolicyCache!vars
<1> QED
  BY <1>3, <1>5, <1>6, <1>7, <1>8, <1>9, <1>10 DEF PolicyCache!Next

\* The audit file and what it lacks are of results.
LEMMA ResultsStay ==
    ASSUME PolicyCache!ConstantsFit, PolicyInv, [PolicyCache!Next]_(PolicyCache!vars)
    PROVE  audit' \subseteq PolicyCache!Result /\ unlogged' \subseteq PolicyCache!Result
<1>1. /\ audit \subseteq PolicyCache!Result /\ unlogged \subseteq PolicyCache!Result
      /\ \A r \in Request : request[r] # NoRequest =>
           <<request[r].key, request[r].value>> \in PolicyCache!Result
  BY DEF PolicyInv, PolicyCache!TypeOK, PolicyCache!Result, PolicyCache!Handler
<1>2. ASSUME NEW r \in Request, PolicyCache!log(r)
      PROVE  audit' \subseteq PolicyCache!Result /\ unlogged' \subseteq PolicyCache!Result
  BY <1>1, <1>2 DEF PolicyCache!log
<1>3. ASSUME PolicyCache!crash
      PROVE  audit' \subseteq PolicyCache!Result /\ unlogged' \subseteq PolicyCache!Result
  BY <1>1, <1>3 DEF PolicyCache!crash
<1>4. ASSUME NEW r \in Request, NEW k \in Key, PolicyCache!authorize(r, k)
      PROVE  UNCHANGED <<audit, unlogged>>
  BY <1>4 DEF PolicyCache!authorize
<1>5. ASSUME NEW r \in Request, PolicyCache!get_hit(r) \/ PolicyCache!get_miss(r) \/ PolicyCache!set(r)
      PROVE  UNCHANGED <<audit, unlogged>>
  BY <1>5 DEF PolicyCache!get_hit, PolicyCache!get_miss, PolicyCache!set
<1>6. ASSUME NEW k \in Key, PolicyCache!roles_change(k) PROVE UNCHANGED <<audit, unlogged>>
  BY <1>6 DEF PolicyCache!roles_change
<1>7. ASSUME PolicyCache!tick \/ UNCHANGED PolicyCache!vars PROVE UNCHANGED <<audit, unlogged>>
  BY <1>7 DEF PolicyCache!tick, PolicyCache!vars
<1> QED
  BY <1>1, <1>2, <1>3, <1>4, <1>5, <1>6, <1>7 DEF PolicyCache!Next

\* However long calls of Redis take, whatever they fail with and whenever roles change, an
\* answer is one the policy gave within an entry's life and the calls that made it, and is
\* logged, or known to be lost: authorize.
THEOREM AnswersStayRecent == PolicyCache!Spec => [](PolicyCache!TypeOK /\ PolicyCache!AnswersAreRecent)
<1> USE ServicesAssumption
<1>1. PolicyCache!Init => PolicyInv
  <2> SUFFICES ASSUME PolicyCache!Init PROVE PolicyInv
    OBVIOUS
  <2>1. /\ allows \in [Key -> BOOLEAN] /\ time = 0 /\ MaxAge \in Nat
        /\ since = [k \in Key |-> [t \in 0..MaxAge |-> IF t = 0 THEN {allows[k]} ELSE {}]]
        /\ entry = [k \in Key |-> NoEntry] /\ request = [r \in Request |-> NoRequest]
        /\ answer = NoEntry /\ audit = {} /\ unlogged = {}
    BY DEF PolicyCache!Init, PolicyCache!ConstantsFit
  <2>2. \A k \in Key, t \in 0..MaxAge : (IF t = 0 THEN {allows[k]} ELSE {}) \in SUBSET BOOLEAN
    BY <2>1
  <2>3. since \in [Key -> [0..MaxAge -> SUBSET BOOLEAN]]
    BY <2>1, <2>2
  <2>4. PolicyCache!TypeOK
    BY <2>1, <2>3 DEF PolicyCache!TypeOK
  <2>5. HandlersAreRecent
    BY <2>1 DEF HandlersAreRecent
  <2>6. EntriesAreRecent /\ AnswerIsRecent
    BY <2>1 DEF EntriesAreRecent, AnswerIsRecent
  <2> QED
    BY <2>4, <2>5, <2>6 DEF PolicyInv
<1>2. PolicyInv /\ [PolicyCache!Next]_(PolicyCache!vars) => PolicyInv'
  <2> SUFFICES ASSUME PolicyInv, [PolicyCache!Next]_(PolicyCache!vars) PROVE PolicyInv'
    OBVIOUS
  <2>1. PolicyCache!TypeOK'
    BY HistoryGrows, HandlersStay, EntriesStay, AnswerStays, ResultsStay DEF PolicyCache!TypeOK
  <2> QED
    BY <2>1, HandlersStay, EntriesStay, AnswerStays DEF PolicyInv
<1>3. PolicyInv => PolicyCache!TypeOK /\ PolicyCache!AnswersAreRecent
  BY DEF PolicyInv, AnswerIsRecent, Logged, PolicyCache!AnswersAreRecent
<1> QED
  BY <1>1, <1>2, <1>3, PTL DEF PolicyCache!Spec
-----------------------------------------------------------------------------
(* Insights *)

\* What analyze_event makes of an event, and a row of the scores.
Analysed ==
    [device : Device, category : Insights!Category, analysed : 0..MaxNow, severity : Insights!Severity]
ScoreRow == [score : 0..100, level : {"low", "medium", "high", "critical"}, devices : Seq(0..100)]
FleetTask == [scores : Seq(0..100), total : Nat, worst : 0..100]
DraftRow ==
    [status : {"none", "draft", "reviewed"}, placed : BOOLEAN, copy : {"none", "draft", "reviewed"}]

InsightsTypes ==
    /\ insight \in Seq(Insights!Insight) /\ now \in 0..MaxNow
    /\ worker \in [Worker -> Analysed \cup {None}]
    /\ score \in [Device \cup {"fleet"} -> ScoreRow \cup {None}]
    /\ fleet_task \in FleetTask \cup {None}
    /\ draft \in DraftRow

\* An analysis is escalated as the first n insights demand.
EscalatedBy(n, a) ==
    a.category \in Insights!Escalating =>
        (a.severity = "critical"
           <=> Insights!_count_recent(n, a.device, a.category, a.analysed - WINDOW) + 1 >= THRESHOLD)

\* The loop has one event at a time, so that what waits for its summary is still escalated
\* by all the insights there are.
AnalysesAreRight ==
    /\ \A w \in Worker : worker[w] # None =>
         /\ worker[w].analysed <= now
         /\ \A a : a = worker[w] => EscalatedBy(Len(insight), a)
    /\ \A v, w \in Worker :
         /\ worker[v] # None /\ worker[v].category # "operational_summary"
         /\ worker[w] # None /\ worker[w].category # "operational_summary"
         => v = w

InsightsAreRight ==
    \A i \in DOMAIN insight :
        /\ insight[i].analysed <= insight[i].at
        /\ insight[i].status = "resolved" => insight[i].resolved
        /\ \A a : a = insight[i] => EscalatedBy(i - 1, a)

\* The sum and the worst of the scores a computation has so far lie between its scores.
FleetTaskIsRight ==
    fleet_task # None =>
        IF fleet_task.scores = <<>> THEN fleet_task.total = 0 /\ fleet_task.worst = 0
        ELSE \E i, j \in DOMAIN fleet_task.scores :
                /\ fleet_task.worst = fleet_task.scores[i]
                /\ Len(fleet_task.scores) * fleet_task.scores[j] <= fleet_task.total
                /\ fleet_task.total <= Len(fleet_task.scores) * fleet_task.worst

FleetScoreIsRight ==
    score["fleet"] # None /\ score["fleet"].devices # <<>> =>
        \E i, j \in DOMAIN score["fleet"].devices :
            score["fleet"].score \in score["fleet"].devices[i]..score["fleet"].devices[j]

\* The inductive invariant of the insights.
InsightsInv ==
    InsightsTypes /\ AnalysesAreRight /\ InsightsAreRight /\ FleetTaskIsRight /\ FleetScoreIsRight

\* The insights count as FiniteSets does.
LEMMA SameTally == ASSUME NEW S PROVE Insights!Cardinality(S) = Cardinality(S)
BY DEF Cardinality, Insights!Cardinality

\* An analysis is escalated by the device, the category and the time of the insights alone.
LEMMA EscalatedStays ==
    ASSUME NEW n \in Nat, NEW a,
           \A j \in 1..n : /\ insight'[j].device = insight[j].device
                           /\ insight'[j].category = insight[j].category
                           /\ insight'[j].at = insight[j].at
    PROVE  EscalatedBy(n, a)' <=> EscalatedBy(n, a)
<1>1. \A d, c, s : Insights!Similar(n, d, c, s)' = Insights!Similar(n, d, c, s)
  BY DEF Insights!Similar
<1>2. \A d, c, s : Insights!_count_recent(n, d, c, s)' = Insights!_count_recent(n, d, c, s)
  BY <1>1 DEF Insights!_count_recent
<1> QED
  BY <1>2 DEF EscalatedBy

\* An insight of another category leaves an analysis escalated as it is.
LEMMA EscalatedPast ==
    ASSUME insight \in Seq(Insights!Insight), NEW x \in Insights!Insight, insight' = Append(insight, x),
           NEW a, x.category # a.category, EscalatedBy(Len(insight), a)
    PROVE  \A n : n = Len(insight) + 1 => EscalatedBy(n, a)'
<1>1. PICK n \in Nat : n = Len(insight)
  OBVIOUS
<1>2. /\ \A j \in 1..n : insight'[j] = insight[j]
      /\ insight'[n + 1] = x
  BY <1>1
<1>3. \A s : Insights!Similar(n + 1, a.device, a.category, s)' = Insights!Similar(n, a.device, a.category, s)
  BY <1>1, <1>2 DEF Insights!Similar
<1>4. \A s : Insights!_count_recent(n + 1, a.device, a.category, s)'
               = Insights!_count_recent(n, a.device, a.category, s)
  BY <1>3 DEF Insights!_count_recent
<1> QED
  BY <1>1, <1>4 DEF EscalatedBy

\* What is analysed is escalated by all the insights.
LEMMA AnalysisIsRight ==
    ASSUME Insights!ConstantsFit, InsightsTypes, NEW d \in Device, NEW c \in Insights!Category,
           NEW a, a = Insights!Analysis(d, c)
    PROVE  /\ a \in Analysed /\ a.analysed = now /\ a.category = c
           /\ EscalatedBy(Len(insight), a)
<1> DEFINE many == Insights!_count_recent(Len(insight), d, c, now - WINDOW) + 1 >= THRESHOLD
<1>1. /\ c \in Insights!Escalating /\ many => a.severity = "critical"
      /\ c \in Insights!Escalating /\ ~many => a.severity = "warning"
      /\ c \notin Insights!Escalating => a.severity \in {"warning", "info"}
      /\ a.device = d /\ a.category = c /\ a.analysed = now
  <2>1. a = [device |-> d, category |-> c, analysed |-> now,
             severity |-> CASE c \in Insights!Escalating -> IF many THEN "critical" ELSE "warning"
                            [] c = "delivery_risk" -> "warning"
                            [] OTHER -> "info"]
    BY DEF Insights!Analysis
  <2> HIDE DEF many
  <2> QED
    BY <2>1 DEF Insights!Escalating
<1>2. a \in Analysed
  <2>1. a = [device |-> d, category |-> c, analysed |-> now, severity |-> a.severity]
    BY DEF Insights!Analysis
  <2>2. a.severity \in Insights!Severity
    BY <1>1 DEF Insights!Severity
  <2> QED
    BY <2>1, <2>2 DEF Analysed, InsightsTypes
<1>3. EscalatedBy(Len(insight), a)
  BY <1>1 DEF EscalatedBy
<1> QED
  BY <1>1, <1>2, <1>3

\* A handler takes an event, or an operator asks for an analysis.
LEMMA ProcessingKeeps ==
    ASSUME Insights!ConstantsFit, InsightsInv, NEW w \in Worker, NEW d \in Device,
           NEW c \in Insights!Category, Insights!process_event(w, d, c)
    PROVE  AnalysesAreRight' /\ worker' \in [Worker -> Analysed \cup {None}]
<1>1. PICK a : a = Insights!Analysis(d, c)
  OBVIOUS
<1>2. /\ worker[w] = None /\ worker' = [worker EXCEPT ![w] = a]
      /\ c # "operational_summary" => Insights!loop_is_free
      /\ insight' = insight /\ now' = now
  BY <1>1 DEF Insights!process_event, Insights!insightVars
<1>3. InsightsTypes /\ AnalysesAreRight
  BY DEF InsightsInv
<1>4. a \in Analysed /\ a.analysed = now /\ a.category = c /\ EscalatedBy(Len(insight), a)
  BY <1>1, <1>3, AnalysisIsRight
<1>5. worker' \in [Worker -> Analysed \cup {None}]
  BY <1>2, <1>3, <1>4 DEF InsightsTypes
<1>6. worker'[w] = a /\ \A v \in Worker \ {w} : worker'[v] = worker[v]
  BY <1>2, <1>3 DEF InsightsTypes
<1>7. \A b : EscalatedBy(Len(insight), b)' <=> EscalatedBy(Len(insight), b)
  <2>1. PICK n \in Nat : n = Len(insight)
    BY <1>3 DEF InsightsTypes
  <2>2. \A b : EscalatedBy(n, b)' <=> EscalatedBy(n, b)
    BY <1>2, EscalatedStays
  <2> QED
    BY <1>2, <2>1, <2>2
<1>8. \A v \in Worker : worker'[v] # None =>
        /\ worker'[v].analysed <= now'
        /\ \A b : b = worker'[v] => EscalatedBy(Len(insight), b)'
  <2> SUFFICES ASSUME NEW v \in Worker, worker'[v] # None, NEW b, b = worker'[v]
               PROVE  b.analysed <= now /\ EscalatedBy(Len(insight), b)
    BY <1>2, <1>7
  <2>1. now <= now
    BY <1>3 DEF InsightsTypes, Insights!ConstantsFit
  <2> QED
    BY <1>3, <1>4, <1>6, <2>1 DEF AnalysesAreRight
<1>9. \A u, v \in Worker :
        /\ worker'[u] # None /\ worker'[u].category # "operational_summary"
        /\ worker'[v] # None /\ worker'[v].category # "operational_summary"
        => u = v
  BY <1>2, <1>3, <1>4, <1>6 DEF AnalysesAreRight, Insights!loop_is_free
<1> QED
  BY <1>5, <1>8, <1>9 DEF AnalysesAreRight
\* An insight is inserted: it is escalated as its analysis was, for whatever was inserted
\* while that waited is of a category of no interest to it.
LEMMA InsertKeeps ==
    ASSUME Insights!ConstantsFit, InsightsInv, NEW w \in Worker,
           Insights!create_insight_from_analysis(w)
    PROVE  /\ insight' \in Seq(Insights!Insight) /\ worker' \in [Worker -> Analysed \cup {None}]
           /\ AnalysesAreRight' /\ InsightsAreRight'
<1>1. PICK a, n : a = worker[w] /\ n = Len(insight)
  OBVIOUS
<1> DEFINE x == [device |-> a.device, category |-> a.category, severity |-> a.severity,
                 analysed |-> a.analysed, at |-> now, status |-> "open", resolved |-> FALSE,
                 confidence |-> "none"]
<1>2. /\ a # None /\ insight' = Append(insight, x) /\ worker' = [worker EXCEPT ![w] = None]
      /\ now' = now
  BY <1>1 DEF Insights!create_insight_from_analysis
<1>3. InsightsTypes /\ AnalysesAreRight /\ InsightsAreRight
  BY DEF InsightsInv
<1>4. a \in Analysed /\ a.analysed <= now /\ EscalatedBy(n, a)
  BY <1>1, <1>2, <1>3 DEF AnalysesAreRight, InsightsTypes
<1>5. insight \in Seq(Insights!Insight) /\ n \in Nat /\ now \in 0..MaxNow
  BY <1>1, <1>3 DEF InsightsTypes
<1>6. x \in Insights!Insight
  BY <1>4, <1>5 DEF Analysed, Insights!Insight
<1>7. /\ x.device = a.device /\ x.category = a.category /\ x.severity = a.severity
      /\ x.analysed = a.analysed /\ x.at = now /\ x.status = "open"
  OBVIOUS
<1> HIDE DEF x
<1>8. /\ insight' \in Seq(Insights!Insight) /\ Len(insight') = n + 1
      /\ \A j \in 1..n : insight'[j] = insight[j]
      /\ insight'[n + 1] = x
  BY <1>1, <1>2, <1>5, <1>6
<1>9. /\ worker' \in [Worker -> Analysed \cup {None}]
      /\ worker'[w] = None /\ \A v \in Worker \ {w} : worker'[v] = worker[v]
  BY <1>2, <1>3 DEF InsightsTypes
<1>10. AnalysesAreRight'
  <2>1. ASSUME NEW v \in Worker, worker'[v] # None, NEW b, b = worker'[v]
        PROVE  b.analysed <= now' /\ EscalatedBy(Len(insight), b)'
    <3>1. v # w /\ b = worker[v] /\ b # None /\ b.analysed <= now /\ EscalatedBy(n, b)
      BY <1>1, <1>3, <1>9, <2>1 DEF AnalysesAreRight
    <3>2. CASE b.category = x.category
      <4>1. b.category = "operational_summary"
        BY <1>1, <1>2, <1>3, <1>7, <3>1, <3>2 DEF AnalysesAreRight
      <4>2. \A m : EscalatedBy(m, b)'
        BY <4>1 DEF EscalatedBy, Insights!Escalating
      <4> QED
        BY <1>2, <3>1, <4>2, <1>8
    <3>3. CASE b.category # x.category
      <4>1. \A m : m = Len(insight) + 1 => EscalatedBy(m, b)'
        BY <1>1, <1>2, <1>5, <1>6, <3>1, <3>3, EscalatedPast
      <4>2. EscalatedBy(n + 1, b)'
        BY <1>1, <4>1
      <4> QED
        BY <1>2, <1>8, <3>1, <4>2
    <3> QED
      BY <3>2, <3>3
  <2>2. ASSUME NEW u \in Worker, NEW v \in Worker,
               worker'[u] # None, worker'[u].category # "operational_summary",
               worker'[v] # None, worker'[v].category # "operational_summary"
        PROVE  u = v
    BY <1>3, <1>9, <2>2 DEF AnalysesAreRight
  <2> QED
    BY <2>1, <2>2 DEF AnalysesAreRight
<1>11. InsightsAreRight'
  <2> SUFFICES ASSUME NEW i \in 1..n + 1
               PROVE  /\ insight'[i].analysed <= insight'[i].at
                      /\ insight'[i].status = "resolved" => insight'[i].resolved
                      /\ \A b : b = insight'[i] => EscalatedBy(i - 1, b)'
    BY <1>5, <1>8 DEF InsightsAreRight
  <2>1. PICK m \in 0..n : m = i - 1
    BY <1>5
  <2>2. \A b : EscalatedBy(m, b)' <=> EscalatedBy(m, b)
    BY <1>5, <1>8, EscalatedStays
  <2>3. CASE i = n + 1
    <3>1. insight'[i] = x /\ m = n
      BY <1>5, <1>8, <2>1, <2>3
    <3>2. EscalatedBy(n, x)
      BY <1>4, <1>7 DEF EscalatedBy
    <3> QED
      BY <1>4, <1>7, <2>1, <2>2, <3>1, <3>2
  <2>4. CASE i \in 1..n
    <3>1. i \in DOMAIN insight /\ insight'[i] = insight[i]
      BY <1>1, <1>5, <1>8, <2>4
    <3> QED
      BY <1>3, <2>1, <2>2, <3>1 DEF InsightsAreRight
  <2> QED
    BY <1>5, <2>3, <2>4
<1> QED
  BY <1>8, <1>9, <1>10, <1>11

\* An operator changes the status or the confidence of an insight, which nothing is
\* escalated by.
LEMMA OperatorKeeps ==
    ASSUME Insights!ConstantsFit, InsightsInv, NEW i \in DOMAIN insight,
           \/ \E s \in {"acknowledged", "resolved"} : Insights!_transition_status(i, s)
           \/ Insights!enrich_insight(i)
    PROVE  /\ insight' \in Seq(Insights!Insight) /\ AnalysesAreRight' /\ InsightsAreRight'
<1>1. InsightsTypes /\ AnalysesAreRight /\ InsightsAreRight
  BY DEF InsightsInv
<1>2. PICK x, y : x = insight[i] /\ y = insight'[i]
  OBVIOUS
<1>3. insight \in Seq(Insights!Insight) /\ x \in Insights!Insight /\ i \in 1..Len(insight)
  BY <1>1, <1>2 DEF InsightsTypes
<1>4. /\ worker' = worker /\ now' = now /\ insight' = [insight EXCEPT ![i] = y]
      /\ y \in Insights!Insight
      /\ y.device = x.device /\ y.category = x.category /\ y.severity = x.severity
      /\ y.analysed = x.analysed /\ y.at = x.at
      /\ y.status = "resolved" => y.resolved
  <2>1. ASSUME NEW s \in {"acknowledged", "resolved"}, Insights!_transition_status(i, s)
        PROVE  <1>4!:
    <3> DEFINE z == [x EXCEPT !.status = s, !.resolved = x.resolved \/ s = "resolved"]
    <3>1. insight' = [insight EXCEPT ![i] = z] /\ worker' = worker /\ now' = now
      BY <1>2, <1>3, <2>1 DEF Insights!_transition_status, Insights!Insight
    <3>2. y = z
      BY <1>2, <1>3, <3>1
    <3>3. (x.resolved \/ s = "resolved") \in BOOLEAN
      BY <1>3 DEF Insights!Insight
    <3> QED
      BY <1>3, <3>1, <3>2, <3>3 DEF Insights!Insight
  <2>2. ASSUME Insights!enrich_insight(i)
        PROVE  <1>4!:
    <3>1. PICK c : c = Insights!_confidence_for(i)
      OBVIOUS
    <3>2. c \in {"low", "medium", "high"}
      BY <3>1 DEF Insights!_confidence_for
    <3> DEFINE z == [x EXCEPT !.confidence = c]
    <3>3. insight' = [insight EXCEPT ![i] = z] /\ worker' = worker /\ now' = now
      BY <1>2, <2>2, <3>1 DEF Insights!enrich_insight
    <3>4. y = z
      BY <1>2, <1>3, <3>3
    <3>5. x.status = "resolved" => x.resolved
      BY <1>1, <1>2 DEF InsightsAreRight
    <3> QED
      BY <1>3, <3>2, <3>3, <3>4, <3>5 DEF Insights!Insight
  <2> QED
    BY <2>1, <2>2
<1>5. /\ insight' \in Seq(Insights!Insight) /\ Len(insight') = Len(insight)
      /\ \A j \in 1..Len(insight) : insight'[j] = IF j = i THEN y ELSE insight[j]
  BY <1>3, <1>4
<1>6. \A j \in 1..Len(insight) : /\ insight'[j].device = insight[j].device
                               /\ insight'[j].category = insight[j].category
                               /\ insight'[j].at = insight[j].at
  BY <1>2, <1>4, <1>5
<1>7. \A n \in 0..Len(insight) : \A a : EscalatedBy(n, a)' <=> EscalatedBy(n, a)
  <2> SUFFICES ASSUME NEW n \in 0..Len(insight) PROVE \A a : EscalatedBy(n, a)' <=> EscalatedBy(n, a)
    OBVIOUS
  <2>1. n \in Nat /\ \A j \in 1..n : j \in 1..Len(insight)
    BY <1>3
  <2> QED
    BY <1>6, <2>1, EscalatedStays
<1>8. AnalysesAreRight'
  <2>1. PICK n : n = Len(insight)
    OBVIOUS
  <2>2. n \in 0..Len(insight) /\ n = Len(insight)'
    BY <1>3, <1>5, <2>1
  <2>3. \A a : EscalatedBy(Len(insight), a)' <=> EscalatedBy(Len(insight), a)
    BY <1>7, <2>1, <2>2
  <2> QED
    BY <1>1, <1>4, <2>3 DEF AnalysesAreRight
<1>9. InsightsAreRight'
  <2> SUFFICES ASSUME NEW j \in 1..Len(insight)
               PROVE  /\ insight'[j].analysed <= insight'[j].at
                      /\ insight'[j].status = "resolved" => insight'[j].resolved
                      /\ \A b : b = insight'[j] => EscalatedBy(j - 1, b)'
    BY <1>3, <1>5 DEF InsightsAreRight
  <2>1. PICK m \in 0..Len(insight) : m = j - 1
    BY <1>3
  <2>2. /\ insight[j].analysed <= insight[j].at
        /\ insight[j].status = "resolved" => insight[j].resolved
        /\ \A b : b = insight[j] => EscalatedBy(m, b)
    BY <1>1, <1>3, <2>1 DEF InsightsAreRight
  <2>3. CASE j # i
    BY <1>5, <1>7, <2>1, <2>2, <2>3
  <2>4. CASE j = i
    <3>1. insight'[j] = y /\ insight[j] = x
      BY <1>2, <1>5, <2>4
    <3>2. EscalatedBy(m, y)
      BY <1>4, <2>2, <3>1 DEF EscalatedBy
    <3> QED
      BY <1>4, <1>7, <2>1, <2>2, <3>1, <3>2
  <2> QED
    BY <2>3, <2>4
<1> QED
  BY <1>5, <1>8, <1>9

\* Without an insert, analyses that go or time that passes leave what is escalated.
LEMMA WaitingKeeps ==
    ASSUME Insights!ConstantsFit, InsightsInv, insight' = insight,
           \/ worker' = worker /\ now' = now
           \/ Insights!tick
           \/ \E w \in Worker : Insights!analysis_lost(w)
    PROVE  /\ AnalysesAreRight' /\ InsightsAreRight' /\ now' \in 0..MaxNow
           /\ worker' \in [Worker -> Analysed \cup {None}]
<1>1. InsightsTypes /\ AnalysesAreRight /\ InsightsAreRight
  BY DEF InsightsInv
<1>2. /\ now \in 0..MaxNow /\ now' \in 0..MaxNow /\ now <= now'
      /\ worker \in [Worker -> Analysed \cup {None}]
  BY <1>1 DEF InsightsTypes, Insights!ConstantsFit, Insights!tick, Insights!analysis_lost
<1>3. /\ worker' \in [Worker -> Analysed \cup {None}]
      /\ \A w \in Worker : worker'[w] \in {worker[w], None}
  BY <1>2 DEF Insights!tick, Insights!analysis_lost
<1>4. \A n \in Nat : \A a : EscalatedBy(n, a)' <=> EscalatedBy(n, a)
  BY EscalatedStays
<1>5. \A w \in Worker : worker[w] # None => worker[w].analysed <= now'
  <2> SUFFICES ASSUME NEW w \in Worker, worker[w] # None PROVE worker[w].analysed <= now'
    OBVIOUS
  <2>1. worker[w].analysed \in 0..MaxNow /\ worker[w].analysed <= now
    BY <1>1, <1>2 DEF AnalysesAreRight, Analysed
  <2> QED
    BY <1>2, <2>1
<1>6. AnalysesAreRight'
  <2>1. PICK n \in Nat : n = Len(insight)
    BY <1>1 DEF InsightsTypes
  <2>2. \A a : EscalatedBy(Len(insight), a)' <=> EscalatedBy(Len(insight), a)
    BY <1>4, <2>1
  <2> QED
    BY <1>1, <1>3, <1>5, <2>2 DEF AnalysesAreRight
<1>7. InsightsAreRight'
  <2> SUFFICES ASSUME NEW j \in DOMAIN insight, NEW b, b = insight[j] PROVE EscalatedBy(j - 1, b)'
    BY <1>1 DEF InsightsAreRight
  <2>1. PICK m \in Nat : m = j - 1
    BY <1>1 DEF InsightsTypes
  <2> QED
    BY <1>1, <1>4, <2>1 DEF InsightsAreRight
<1> QED
  BY <1>2, <1>3, <1>6, <1>7
-----------------------------------------------------------------------------
(* Scores *)

\* A device's score is a percentage, however many insights it has.
LEMMA DeviceRisk ==
    ASSUME InsightsTypes, NEW d \in Device, NEW p \in Insights!Parts
    PROVE  Insights!compute_device_risk(d, p) \in 0..100
<1>1. IsFiniteSet(DOMAIN insight)
  <2>1. Len(insight) \in Nat /\ DOMAIN insight = 1..Len(insight)
    BY DEF InsightsTypes
  <2> QED
    BY <2>1, FS_Interval
<1>2. \A s : Insights!Weighty(d, s) \in Nat
  <2> SUFFICES ASSUME NEW s PROVE Insights!Weighty(d, s) \in Nat
    OBVIOUS
  <2> DEFINE weighty == {i \in Insights!Newest(d) : insight[i].status # "resolved" /\ insight[i].severity = s}
  <2>1. weighty \subseteq DOMAIN insight
    BY DEF Insights!Newest
  <2>2. IsFiniteSet(weighty)
    BY <1>1, <2>1, FS_Subset
  <2>3. Insights!Weighty(d, s) = Cardinality(weighty)
    BY SameTally DEF Insights!Weighty
  <2> QED
    BY <2>2, <2>3, FS_CardinalityType
<1>3. p \in Nat
  BY DEF Insights!Parts, Insights!DevicePart
<1> DEFINE n == p + 25 * Insights!Weighty(d, "critical") + 12 * Insights!Weighty(d, "warning")
                  + 4 * Insights!Weighty(d, "info")
<1>4. n \in Nat
  BY <1>2, <1>3
<1>5. Insights!compute_device_risk(d, p) = IF n > 100 THEN 100 ELSE n
  BY DEF Insights!compute_device_risk, Insights!AtMost
<1> HIDE DEF n
<1> QED
  BY <1>4, <1>5

\* What lies between multiples of b is rounded to between their factors.
LEMMA RoundedBetween ==
    ASSUME NEW a \in Nat, NEW b \in Nat \ {0}, NEW low \in Nat, NEW high \in Nat,
           b * low <= a, a <= b * high, NEW r \in Insights!Rounded(a, b)
    PROVE  r \in low..high
<1>1. r \in Int /\ 2 * r * b - b <= 2 * a /\ 2 * a <= 2 * r * b + b
  BY DEF Insights!Rounded
<1>2. low <= r
  <2> SUFFICES ASSUME r + 1 <= low PROVE FALSE
    BY <1>1
  <2>1. b * (r + 1) <= b * low
    BY <1>1
  <2>2. b * (r + 1) = r * b + b /\ 2 * r * b = 2 * (r * b)
    BY <1>1
  <2>3. PICK q \in Int : q = r * b
    BY <1>1
  <2>4. PICK t \in Int : t = b * low
    OBVIOUS
  <2> QED
    BY <1>1, <2>1, <2>2, <2>3, <2>4
<1>3. r <= high
  <2> SUFFICES ASSUME high + 1 <= r PROVE FALSE
    BY <1>1
  <2>1. b * (high + 1) <= b * r
    BY <1>1
  <2>2. b * (high + 1) = b * high + b /\ 2 * r * b = 2 * (b * r)
    BY <1>1
  <2>3. PICK q \in Int : q = b * r
    BY <1>1
  <2>4. PICK t \in Int : t = b * high
    OBVIOUS
  <2> QED
    BY <1>1, <2>1, <2>2, <2>3, <2>4
<1> QED
  BY <1>1, <1>2, <1>3

\* The next device's score joins the scores, their sum and their worst.
LEMMA FleetNextKeeps ==
    ASSUME InsightsInv, NEW d \in Device, NEW p \in Insights!Parts, Insights!fleet_risk_next(d, p)
    PROVE  FleetTaskIsRight' /\ fleet_task' \in FleetTask
<1>1. PICK s, task : s = Insights!compute_device_risk(d, p) /\ task = fleet_task
  OBVIOUS
<1>2. PICK scores, total, worst : scores = task.scores /\ total = task.total /\ worst = task.worst
  OBVIOUS
<1>3. /\ task # None
      /\ fleet_task' = [scores |-> Append(scores, s), total |-> total + s,
                        worst |-> IF s > worst THEN s ELSE worst]
  BY <1>1, <1>2 DEF Insights!fleet_risk_next
<1>4. s \in 0..100 /\ task \in FleetTask
  BY <1>1, <1>3, DeviceRisk DEF InsightsInv, InsightsTypes
<1>5. scores \in Seq(0..100) /\ total \in Nat /\ worst \in 0..100
  BY <1>2, <1>4 DEF FleetTask
<1>6. PICK n, scores_, total_, worst_ :
        /\ n = Len(scores) /\ scores_ = Append(scores, s) /\ total_ = total + s
        /\ worst_ = IF s > worst THEN s ELSE worst
  OBVIOUS
<1>7. /\ n \in Nat /\ scores_ \in Seq(0..100) /\ Len(scores_) = n + 1
      /\ \A i \in 1..n : scores_[i] = scores[i]
      /\ scores_[n + 1] = s
  BY <1>4, <1>5, <1>6
<1>8. total_ \in Nat /\ worst_ \in 0..100 /\ s <= worst_ /\ worst <= worst_ /\ worst_ \in {s, worst}
  BY <1>4, <1>5, <1>6
<1>9. fleet_task'.scores = scores_ /\ fleet_task'.total = total_ /\ fleet_task'.worst = worst_
  BY <1>3, <1>6
<1>10. fleet_task' \in FleetTask
  BY <1>3, <1>6, <1>7, <1>8 DEF FleetTask
<1>11. \E i, j \in 1..n + 1 : /\ worst_ = scores_[i]
                              /\ (n + 1) * scores_[j] <= total_
                              /\ total_ <= (n + 1) * worst_
  <2>1. CASE scores = <<>>
    <3>1. n = 0 /\ total = 0 /\ worst = 0
      BY <1>1, <1>2, <1>3, <1>6, <2>1 DEF InsightsInv, FleetTaskIsRight
    <3>2. worst_ = scores_[1] /\ 1 * scores_[1] <= total_ /\ total_ <= 1 * worst_
      BY <1>4, <1>6, <1>7, <1>8, <3>1
    <3> QED
      BY <3>1, <3>2
  <2>2. CASE scores # <<>>
    <3>1. PICK i, j \in DOMAIN scores :
            worst = scores[i] /\ Len(scores) * scores[j] <= total /\ total <= Len(scores) * worst
      BY <1>1, <1>2, <1>3, <2>2 DEF InsightsInv, FleetTaskIsRight
    <3>2. i \in 1..n /\ j \in 1..n /\ scores[j] \in Nat
      <4>1. 1..n = DOMAIN scores /\ \A k \in 1..n : scores[k] \in 0..100
        BY <1>5, <1>6, SMT
      <4>2. i \in 1..n /\ j \in 1..n
        BY <4>1, Zenon
      <4>3. PICK x \in 0..100 : x = scores[j]
        BY <4>1, <4>2, Zenon
      <4>4. x \in Nat
        OBVIOUS
      <4> QED
        BY <4>2, <4>3, <4>4, Zenon
    <3> DEFINE low == scores[j]
    <3>3. n * low <= total /\ total <= n * worst /\ total_ = total + s
      BY <1>6, <3>1
    <3>4. low \in Nat
      BY <3>2
    <3> HIDE DEF low
    <3>5. \E k \in 1..n + 1 : worst_ = scores_[k]
      <4>1. CASE worst_ = s
        BY <1>7, <4>1
      <4>2. CASE worst_ = worst
        BY <1>7, <3>1, <3>2, <4>2
      <4> QED
        BY <1>8, <4>1, <4>2
    <3>6. \E k \in 1..n + 1 : (n + 1) * scores_[k] <= total_
      <4>1. CASE s <= low
        <5>1. n * s <= n * low
          BY <1>4, <1>7, <3>4, <4>1
        <5>2. (n + 1) * s = n * s + s
          BY <1>4, <1>7
        <5>3. PICK q, r \in Nat : q = n * s /\ r = n * low
          BY <1>4, <1>7, <3>4
        <5>4. q + s <= total_
          BY <1>4, <1>5, <3>3, <5>1, <5>3
        <5> QED
          BY <1>7, <5>2, <5>3, <5>4
      <4>2. CASE low < s
        <5>1. (n + 1) * low = n * low + low
          BY <1>7, <3>4
        <5>2. PICK q \in Nat : q = n * low
          BY <1>7, <3>4
        <5>3. q + low <= total_
          BY <1>4, <1>5, <3>3, <3>4, <4>2, <5>2
        <5>4. (n + 1) * low <= total_
          BY <5>1, <5>2, <5>3
        <5>5. j \in 1..n + 1 /\ scores_[j] = low
          BY <1>7, <3>2 DEF low
        <5> QED
          BY <5>4, <5>5
      <4> QED
        BY <1>4, <3>4, <4>1, <4>2
    <3>7. total_ <= (n + 1) * worst_
      <4>1. n * worst <= n * worst_
        BY <1>5, <1>7, <1>8
      <4>2. PICK q, r \in Nat : q = n * worst /\ r = n * worst_
        BY <1>5, <1>7, <1>8
      <4>3. (n + 1) * worst_ = n * worst_ + worst_
        BY <1>7, <1>8
      <4>4. total_ <= r + worst_
        BY <1>4, <1>5, <1>8, <3>3, <4>1, <4>2
      <4> QED
        BY <4>2, <4>3, <4>4
    <3> QED
      BY <3>5, <3>6, <3>7
  <2> QED
    BY <2>1, <2>2
<1>12. scores_ # <<>> /\ DOMAIN scores_ = 1..n + 1
  BY <1>7
<1> QED
  BY <1>7, <1>9, <1>10, <1>11, <1>12 DEF FleetTaskIsRight
\* What a fleet's computation has comes to a score between its scores.
LEMMA FleetScored ==
    ASSUME NEW task \in FleetTask, NEW i \in DOMAIN task.scores, NEW j \in DOMAIN task.scores,
           task.scores # <<>>, task.worst = task.scores[i],
           Len(task.scores) * task.scores[j] <= task.total,
           task.total <= Len(task.scores) * task.worst, NEW s \in Insights!FleetScores(task)
    PROVE  /\ s \in task.scores[j]..task.scores[i] /\ task.scores[j] \in 0..100
           /\ task.scores[i] \in 0..100
<1>1. PICK scores, total, n, low, high :
        /\ scores = task.scores /\ total = task.total /\ n = Len(task.scores)
        /\ low = task.scores[j] /\ high = task.scores[i]
  OBVIOUS
<1>2. scores \in Seq(0..100) /\ total \in Nat
  BY <1>1 DEF FleetTask
<1>3. n \in Nat \ {0} /\ DOMAIN scores = 1..n /\ \A k \in 1..n : scores[k] \in 0..100
  <2>1. scores # <<>> /\ n = Len(scores)
    BY <1>1
  <2> QED
    BY <1>2, <2>1, SMT
<1>4. low \in 0..100 /\ high \in 0..100
  BY <1>1, <1>3, Zenon
<1>5. low \in Nat /\ high \in Nat /\ n * low <= total /\ total <= n * high
  <2>1. n * low <= total /\ total <= n * high
    BY <1>1, Zenon
  <2> QED
    BY <1>4, <2>1
<1>6. PICK avg \in Insights!Rounded(total, n) : s \in Insights!Rounded(7 * avg + 3 * high, 10)
  BY <1>1 DEF Insights!FleetScores
<1>7. avg \in low..high
  BY <1>2, <1>3, <1>5, <1>6, RoundedBetween
<1>8. PICK a \in Nat : a = 7 * avg + 3 * high
  BY <1>5, <1>7
<1>9. 10 * low <= a /\ a <= 10 * high
  BY <1>5, <1>7, <1>8
<1>10. s \in low..high
  BY <1>5, <1>6, <1>8, <1>9, RoundedBetween
<1> QED
  BY <1>1, <1>4, <1>10

\* A score is stored: a device's, or a fleet's from what its computation has.
LEMMA StoringKeeps ==
    ASSUME InsightsInv,
           \/ Insights!compute_and_store_fleet_risk
           \/ \E d \in Device, p \in Insights!Parts : Insights!compute_and_store_device_risk(d, p)
    PROVE  FleetScoreIsRight' /\ score' \in [Device \cup {"fleet"} -> ScoreRow \cup {None}]
<1>1. score \in [Device \cup {"fleet"} -> ScoreRow \cup {None}] /\ FleetScoreIsRight /\ InsightsTypes
  BY DEF InsightsInv, InsightsTypes
<1>2. \A s : Insights!risk_level(s) \in {"low", "medium", "high", "critical"}
  BY DEF Insights!risk_level
<1>3. ASSUME NEW d \in Device, NEW p \in Insights!Parts,
             Insights!compute_and_store_device_risk(d, p)
      PROVE  FleetScoreIsRight' /\ score' \in [Device \cup {"fleet"} -> ScoreRow \cup {None}]
  <2>1. PICK s : s = Insights!compute_device_risk(d, p)
    OBVIOUS
  <2> DEFINE new == Insights!Row(s, <<>>)
  <2>2. score' = [score EXCEPT ![d] = new] /\ s \in 0..100
    BY <1>1, <1>3, <2>1, DeviceRisk DEF Insights!compute_and_store_device_risk
  <2>3. new.devices = <<>> /\ new \in ScoreRow
    BY <1>2, <2>2 DEF Insights!Row, ScoreRow
  <2> HIDE DEF new
  <2>4. score' \in [Device \cup {"fleet"} -> ScoreRow \cup {None}]
    BY <1>1, <2>2, <2>3
  <2>5. score'["fleet"] \in {new, score["fleet"]}
    BY <1>1, <2>2
  <2> QED
    BY <1>1, <2>3, <2>4, <2>5 DEF FleetScoreIsRight
<1>4. ASSUME Insights!compute_and_store_fleet_risk
      PROVE  FleetScoreIsRight' /\ score' \in [Device \cup {"fleet"} -> ScoreRow \cup {None}]
  <2>1. PICK task : task = fleet_task
    OBVIOUS
  <2>2. PICK s \in Insights!FleetScores(task) :
          /\ task # None
          /\ score' = [score EXCEPT !["fleet"] = Insights!Row(Insights!AtMost(100, s), task.scores)]
    BY <1>4, <2>1 DEF Insights!compute_and_store_fleet_risk
  <2>3. task \in FleetTask /\ task.scores \in Seq(0..100)
    BY <1>1, <2>1, <2>2 DEF InsightsTypes, FleetTask
  <2> DEFINE new == Insights!Row(Insights!AtMost(100, s), task.scores)
  <2>4. /\ s \in 0..100
        /\ task.scores # <<>> =>
             \E i, j \in DOMAIN task.scores : s \in task.scores[j]..task.scores[i]
    <3>1. CASE task.scores = <<>>
      BY <3>1 DEF Insights!FleetScores
    <3>2. CASE task.scores # <<>>
      <4>1. PICK i, j \in DOMAIN task.scores :
              /\ task.worst = task.scores[i]
              /\ Len(task.scores) * task.scores[j] <= task.total
              /\ task.total <= Len(task.scores) * task.worst
        BY <2>1, <2>2, <3>2 DEF InsightsInv, FleetTaskIsRight
      <4>2. /\ s \in task.scores[j]..task.scores[i] /\ task.scores[j] \in 0..100
            /\ task.scores[i] \in 0..100
        BY <2>3, <3>2, <4>1, FleetScored
      <4>3. s \in 0..100
        BY <4>2
      <4> QED
        BY <4>1, <4>2, <4>3
    <3> QED
      BY <3>1, <3>2
  <2>5. Insights!AtMost(100, s) = s
    BY <2>4 DEF Insights!AtMost
  <2>6. new.score = s /\ new.devices = task.scores /\ new \in ScoreRow
    BY <1>2, <2>3, <2>4, <2>5 DEF Insights!Row, ScoreRow
  <2> HIDE DEF new
  <2>7. /\ score' \in [Device \cup {"fleet"} -> ScoreRow \cup {None}]
        /\ score'["fleet"] = new
    BY <1>1, <2>2, <2>6 DEF new
  <2> QED
    BY <2>4, <2>6, <2>7 DEF FleetScoreIsRight
<1> QED
  BY <1>3, <1>4

\* A step of the insights keeps their invariant.
LEMMA InsightsStep ==
    ASSUME Insights!ConstantsFit, InsightsInv, [Insights!Next]_(Insights!vars)
    PROVE  InsightsInv'
<1>1. InsightsTypes /\ AnalysesAreRight /\ InsightsAreRight /\ FleetTaskIsRight /\ FleetScoreIsRight
  BY DEF InsightsInv
<1> DEFINE Events == /\ insight' \in Seq(Insights!Insight) /\ now' \in 0..MaxNow
                     /\ worker' \in [Worker -> Analysed \cup {None}]
                     /\ AnalysesAreRight' /\ InsightsAreRight'
           Risks == /\ score' \in [Device \cup {"fleet"} -> ScoreRow \cup {None}]
                    /\ fleet_task' \in FleetTask \cup {None}
                    /\ FleetTaskIsRight' /\ FleetScoreIsRight'
           Drafts == draft' \in DraftRow
<1>2. ASSUME UNCHANGED Insights!insightVars PROVE Events
  <2>1. insight' = insight /\ now' = now /\ worker' = worker
    BY <1>2 DEF Insights!insightVars
  <2>2. insight \in Seq(Insights!Insight)
    BY <1>1 DEF InsightsTypes
  <2> QED
    BY <2>1, <2>2, WaitingKeeps
<1>3. ASSUME UNCHANGED Insights!riskVars PROVE Risks
  BY <1>1, <1>3 DEF Insights!riskVars, InsightsTypes, FleetTaskIsRight, FleetScoreIsRight
<1>4. ASSUME UNCHANGED draft PROVE Drafts
  BY <1>1, <1>4 DEF InsightsTypes
<1> HIDE DEF Risks, Drafts
<1>5. CASE Insights!EventSteps(Device, Insights!Category)
  <2>1. ASSUME Insights!tick PROVE Events /\ UNCHANGED <<Insights!riskVars, draft>>
    <3>1. insight' = insight /\ UNCHANGED <<Insights!riskVars, draft>>
      BY <2>1 DEF Insights!tick
    <3>2. insight \in Seq(Insights!Insight)
      BY <1>1 DEF InsightsTypes
    <3> QED
      BY <2>1, <3>1, <3>2, WaitingKeeps
  <2>2. ASSUME NEW w \in Worker, NEW d \in Device, NEW c \in Insights!Category,
               Insights!process_event(w, d, c)
        PROVE  Events /\ UNCHANGED <<Insights!riskVars, draft>>
    <3>1. insight' = insight /\ now' = now /\ UNCHANGED <<Insights!riskVars, draft>>
      BY <2>2 DEF Insights!process_event
    <3>2. insight \in Seq(Insights!Insight) /\ now \in 0..MaxNow
      BY <1>1 DEF InsightsTypes
    <3>3. InsightsAreRight'
      <4>1. \A n \in Nat : \A a : EscalatedBy(n, a)' <=> EscalatedBy(n, a)
        BY <3>1, EscalatedStays
      <4> SUFFICES ASSUME NEW j \in DOMAIN insight, NEW b, b = insight[j] PROVE EscalatedBy(j - 1, b)'
        BY <1>1, <3>1 DEF InsightsAreRight
      <4>2. PICK m \in Nat : m = j - 1
        BY <3>2
      <4> QED
        BY <1>1, <4>1, <4>2 DEF InsightsAreRight
    <3> QED
      BY <2>2, <3>1, <3>2, <3>3, ProcessingKeeps
  <2>3. ASSUME NEW w \in Worker, Insights!create_insight_from_analysis(w)
        PROVE  Events /\ UNCHANGED <<Insights!riskVars, draft>>
    <3>1. now' = now /\ now \in 0..MaxNow /\ UNCHANGED <<Insights!riskVars, draft>>
      BY <1>1, <2>3 DEF Insights!create_insight_from_analysis, InsightsTypes
    <3> QED
      BY <2>3, <3>1, InsertKeeps
  <2>4. ASSUME NEW w \in Worker, Insights!analysis_lost(w)
        PROVE  Events /\ UNCHANGED <<Insights!riskVars, draft>>
    <3>1. insight' = insight /\ UNCHANGED <<Insights!riskVars, draft>>
      BY <2>4 DEF Insights!analysis_lost
    <3>2. insight \in Seq(Insights!Insight)
      BY <1>1 DEF InsightsTypes
    <3> QED
      BY <2>4, <3>1, <3>2, WaitingKeeps
  <2> HIDE DEF Events
  <2>5. Events /\ UNCHANGED <<Insights!riskVars, draft>>
    BY <1>5, <2>1, <2>2, <2>3, <2>4 DEF Insights!EventSteps
  <2>6. UNCHANGED Insights!riskVars /\ UNCHANGED draft
    BY <2>5
  <2> QED
    BY <1>3, <1>4, <2>5, <2>6 DEF Events, Risks, Drafts, InsightsInv, InsightsTypes
<1>6. CASE Insights!OperatorSteps
  <2>1. PICK i \in DOMAIN insight :
          \/ \E s \in {"acknowledged", "resolved"} : Insights!_transition_status(i, s)
          \/ Insights!enrich_insight(i)
    BY <1>6 DEF Insights!OperatorSteps
  <2>2. UNCHANGED <<now, worker, Insights!riskVars, draft>>
    BY <2>1 DEF Insights!_transition_status, Insights!enrich_insight
  <2>3. /\ now' \in 0..MaxNow /\ worker' \in [Worker -> Analysed \cup {None}]
        /\ UNCHANGED Insights!riskVars /\ UNCHANGED draft
    BY <1>1, <2>2 DEF InsightsTypes
  <2>4. insight' \in Seq(Insights!Insight) /\ AnalysesAreRight' /\ InsightsAreRight'
    BY <2>1, OperatorKeeps
  <2> QED
    BY <1>3, <1>4, <2>3, <2>4 DEF Risks, Drafts, InsightsInv, InsightsTypes
<1> HIDE DEF Events
<1>7. CASE Insights!RiskSteps
  <2>1. ASSUME NEW d \in Device, NEW p \in Insights!Parts,
               Insights!compute_and_store_device_risk(d, p)
        PROVE  Risks /\ UNCHANGED Insights!insightVars /\ UNCHANGED draft
    <3>1. UNCHANGED <<Insights!insightVars, fleet_task, draft>>
      BY <2>1 DEF Insights!compute_and_store_device_risk
    <3> QED
      BY <1>1, <2>1, <3>1, StoringKeeps DEF Risks, InsightsTypes, FleetTaskIsRight
  <2>2. ASSUME NEW d \in Device, NEW p \in Insights!Parts, Insights!fleet_risk_next(d, p)
        PROVE  Risks /\ UNCHANGED Insights!insightVars /\ UNCHANGED draft
    <3>1. UNCHANGED <<Insights!insightVars, score, draft>>
      BY <2>2 DEF Insights!fleet_risk_next
    <3> QED
      BY <1>1, <2>2, <3>1, FleetNextKeeps DEF Risks, InsightsTypes, FleetScoreIsRight
  <2>3. ASSUME Insights!fleet_risk_start
        PROVE  Risks /\ UNCHANGED Insights!insightVars /\ UNCHANGED draft
    <3>1. /\ fleet_task' = [scores |-> <<>>, total |-> 0, worst |-> 0]
          /\ UNCHANGED <<Insights!insightVars, score, draft>>
      BY <2>3 DEF Insights!fleet_risk_start
    <3> QED
      BY <1>1, <3>1 DEF Risks, InsightsTypes, FleetScoreIsRight, FleetTaskIsRight, FleetTask
  <2>4. ASSUME Insights!compute_and_store_fleet_risk
        PROVE  Risks /\ UNCHANGED Insights!insightVars /\ UNCHANGED draft
    <3>1. fleet_task' = None /\ UNCHANGED <<Insights!insightVars, draft>>
      BY <2>4 DEF Insights!compute_and_store_fleet_risk
    <3> QED
      BY <2>4, <3>1, StoringKeeps DEF Risks, FleetTaskIsRight
  <2>5. Risks /\ UNCHANGED Insights!insightVars /\ UNCHANGED draft
    BY <1>7, <2>1, <2>2, <2>3, <2>4 DEF Insights!RiskSteps
  <2> QED
    BY <1>2, <1>4, <2>5 DEF Events, Risks, Drafts, InsightsInv, InsightsTypes
<1>8. CASE Insights!DraftSteps
  <2>1. draft \in DraftRow
    BY <1>1 DEF InsightsTypes
  <2>2. Drafts /\ UNCHANGED <<Insights!insightVars, Insights!riskVars>>
    BY <1>8, <2>1 DEF Drafts, DraftRow, Insights!DraftSteps, Insights!build_draft,
         Insights!review_function_draft, Insights!placement_for_draft_start, Insights!placement_for_draft
  <2>3. UNCHANGED Insights!insightVars /\ UNCHANGED Insights!riskVars
    BY <2>2
  <2> QED
    BY <1>2, <1>3, <2>2, <2>3 DEF Events, Risks, Drafts, InsightsInv, InsightsTypes
<1>9. CASE UNCHANGED Insights!vars
  <2>1. UNCHANGED Insights!insightVars /\ UNCHANGED Insights!riskVars /\ UNCHANGED draft
    BY <1>9 DEF Insights!vars
  <2> QED
    BY <1>2, <1>3, <1>4, <2>1 DEF Events, Risks, Drafts, InsightsInv, InsightsTypes
<1> QED
  BY <1>5, <1>6, <1>7, <1>8, <1>9 DEF Insights!Next

\* Whatever is inserted while a summary is awaited, an insight is escalated by those before
\* it; scores are percentages, and a fleet's lies between its devices': analyze_event,
\* compute_device_risk and compute_and_store_fleet_risk.
THEOREM InsightsStayRight ==
    Insights!Spec => [](Insights!TypeOK /\ Insights!EscalationIsRight /\ Insights!ScoresAreRight)
<1> USE ServicesAssumption
<1>1. Insights!Init => InsightsInv
  <2> SUFFICES ASSUME Insights!Init PROVE InsightsInv
    OBVIOUS
  <2>1. /\ insight = <<>> /\ now = 0 /\ worker = [w \in Worker |-> None]
        /\ score = [s \in Device \cup {"fleet"} |-> None] /\ fleet_task = None
        /\ draft = Insights!NoDraft /\ MaxNow \in Nat
    BY DEF Insights!Init, Insights!InitWith, Insights!ConstantsFit
  <2>2. InsightsTypes
    BY <2>1 DEF InsightsTypes, DraftRow, Insights!NoDraft
  <2> QED
    BY <2>1, <2>2 DEF InsightsInv, AnalysesAreRight, InsightsAreRight, FleetTaskIsRight, FleetScoreIsRight
<1>2. InsightsInv /\ [Insights!Next]_(Insights!vars) => InsightsInv'
  BY InsightsStep
<1>3. ASSUME InsightsInv
      PROVE  Insights!TypeOK /\ Insights!EscalationIsRight /\ Insights!ScoresAreRight
  <2>1. Insights!TypeOK
    BY <1>3 DEF InsightsInv, InsightsTypes, InsightsAreRight, DraftRow, ScoreRow, Insights!TypeOK
  <2>2. Insights!EscalationIsRight
    BY <1>3 DEF InsightsInv, InsightsAreRight, EscalatedBy, Insights!EscalationIsRight
  <2>3. Insights!ScoresAreRight
    BY <1>3 DEF InsightsInv, InsightsAreRight, FleetScoreIsRight, Insights!ScoresAreRight
  <2> QED
    BY <2>1, <2>2, <2>3
<1> QED
  BY <1>1, <1>2, <1>3, PTL DEF Insights!Spec

-----------------------------------------------------------------------------
(* The services together *)

\* Whatever the services do beside each other, trails, events, policy answers, insights and
\* scores stay what they account for.
THEOREM ServicesStayTrue ==
    Resources!Spec /\ PolicyCache!Spec /\ Insights!Spec => []ServicesAccount
<1>1. /\ Resources!TypeOK /\ Resources!EventsAreOfChanges /\ Resources!TrailIsWhole
      /\ PolicyCache!TypeOK /\ PolicyCache!AnswersAreRecent
      /\ Insights!TypeOK /\ Insights!EscalationIsRight /\ Insights!ScoresAreRight
      => ServicesAccount
  BY DEF ServicesAccount, ServicesTyped
<1> QED
  BY <1>1, TrailsAndEventsHold, AnswersStayRecent, InsightsStayRight, PTL
===============================================================================
