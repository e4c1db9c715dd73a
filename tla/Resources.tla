------------------------------ MODULE Resources -------------------------------
(***************************************************************************)
(* network-service, webservice-service and dns-service: ports, web         *)
(* services and records.  A call that changes one commits, appends to the  *)
(* audit trail and then publishes an event, in a handler no other handler  *)
(* interrupts before the event.  A change is the number of its commit;     *)
(* dns-service keeps no trail and asks nobody whose record it is.          *)
(***************************************************************************)
EXTENDS Naturals, Sequences, FiniteSets

CONSTANTS
    Resource, Gone,
    Tenant, Admin,          \* callers
    Call, NoCall,
    KAFKA_RETRY_ATTEMPTS,
    Torn,                   \* a line of the trail that is not JSON
    MaxCommits, MaxCrashes  \* bounds

VARIABLES
    audited,    \* FALSE for dns-service
    row,        \* each resource's owner, or Gone
    commits,    \* changes so far
    trail,      \* the lines of the audit file
    open_line,  \* whether its last line lacks the end
    refused,    \* changes whose audit call raised
    producer,   \* whether this process has one
    call,       \* handlers that publish: their change and attempts
    events,     \* what the topic holds, by change
    before,     \* of each change: those whose handlers had ended when it was committed
    crashes

vars == <<audited, row, commits, trail, open_line, refused, producer, call, events, before, crashes>>

\* A torn line is none a call wrote, and an event is tried at least once.
ConstantsFit ==
    /\ Torn \notin Nat
    /\ KAFKA_RETRY_ATTEMPTS \in Nat \ {0}
    /\ MaxCommits \in Nat /\ MaxCrashes \in Nat

Changes == 1..commits
Publication == [change : Changes, attempt : 1..KAFKA_RETRY_ATTEMPTS]

TypeOK ==
    /\ audited \in BOOLEAN
    /\ row \in [Resource -> Tenant \cup {Gone}]
    /\ commits \in 0..MaxCommits
    /\ trail \in Seq(1..MaxCommits \cup {Torn}) /\ open_line \in BOOLEAN
    /\ refused \subseteq Changes
    /\ producer \in BOOLEAN
    /\ call \in [Call -> Publication \cup {NoCall}]
    /\ events \in Seq(Changes)
    /\ before \in [Changes -> SUBSET Changes]
    /\ crashes \in 0..MaxCrashes

Init ==
    /\ audited \in BOOLEAN
    /\ row = [r \in Resource |-> Gone]
    /\ commits = 0 /\ trail = <<>> /\ open_line = FALSE /\ refused = {}
    /\ producer \in BOOLEAN
    /\ call = [c \in Call |-> NoCall]
    /\ events = <<>> /\ before = <<>> /\ crashes = 0

-----------------------------------------------------------------------------

\* create_port, create_webservice, create_record: the caller owns what it creates.
Creates(r, t) ==
    /\ row[r] = Gone /\ t \in Tenant
    /\ row' = [row EXCEPT ![r] = t]

\* update_port and delete_port, and so on: 404 for what another tenant owns.
Changed(r, t) ==
    /\ row[r] # Gone
    /\ audited => t \in {row[r], Admin}
    /\ row' \in {row, [row EXCEPT ![r] = Gone]}

InFlight == {call[c].change : c \in {d \in Call : call[d] # NoCall}}

Commit(r, t) ==
    /\ commits < MaxCommits /\ UNCHANGED audited
    /\ Creates(r, t) \/ Changed(r, t)
    /\ commits' = commits + 1
    /\ before' = Append(before, Changes \ InFlight)

\* emit_audit_event: a line that was cut off swallows what is appended to it.
emit_audit_event(change) ==
    /\ trail' = IF open_line THEN trail ELSE Append(trail, change)
    /\ open_line' = FALSE

\* The handler up to its event.  Without a producer publish_event returns at once.
change(c, r, t) ==
    /\ call[c] = NoCall
    /\ Commit(r, t)
    /\ IF audited THEN emit_audit_event(commits') ELSE UNCHANGED <<trail, open_line>>
    /\ call' = [call EXCEPT ![c] = IF producer THEN [change |-> commits', attempt |-> 1] ELSE NoCall]
    /\ UNCHANGED <<refused, producer, events, crashes>>

\* The audit file cannot be written: the change stays, the caller gets an error and no
\* event is published.
change_unaudited(r, t) ==
    /\ audited
    /\ Commit(r, t)
    /\ refused' = refused \cup {commits'}
    /\ UNCHANGED <<trail, open_line, producer, call, events, crashes>>

\* Mutant: one attempt too many.
last_attempt_plus_one(attempt) == attempt > KAFKA_RETRY_ATTEMPTS

\* The range of the attempts ends here.
last_attempt(attempt) == attempt = KAFKA_RETRY_ATTEMPTS

\* publish_event: one attempt, which may have reached the broker although it raised.
publish_event(c, out, ok) ==
    /\ call[c] # NoCall
    /\ ok => out
    /\ events' = IF out THEN Append(events, call[c].change) ELSE events
    /\ call' = [call EXCEPT ![c] = IF ok \/ last_attempt(call[c].attempt) THEN NoCall
                                   ELSE [call[c] EXCEPT !.attempt = @ + 1]]
    /\ UNCHANGED <<audited, row, commits, trail, open_line, refused, producer, before, crashes>>

Restarted ==
    /\ crashes < MaxCrashes
    /\ crashes' = crashes + 1
    /\ producer' \in BOOLEAN
    /\ call' = [c \in Call |-> NoCall]

crash ==
    /\ Restarted
    /\ UNCHANGED <<audited, row, commits, trail, open_line, refused, events, before>>

\* The process ends between the commit and the trail, or while the line is written.
crash_in_change(r, t) ==
    /\ audited
    /\ Restarted
    /\ Commit(r, t)
    /\ \/ UNCHANGED <<trail, open_line>>
       \/ /\ trail' = IF open_line THEN trail ELSE Append(trail, Torn)
          /\ open_line' = TRUE
    /\ UNCHANGED <<refused, events>>

Next ==
    \/ \E c \in Call, r \in Resource, t \in Tenant \cup {Admin} : change(c, r, t)
    \/ \E r \in Resource, t \in Tenant \cup {Admin} : change_unaudited(r, t) \/ crash_in_change(r, t)
    \/ \E c \in Call, b1, b2 \in BOOLEAN : publish_event(c, b1, b2)
    \/ crash

Spec == Init /\ [][Next]_vars

-----------------------------------------------------------------------------

\* read_audit_events: the lines it answers; those that are not JSON are passed over.
read_audit_events == {i \in DOMAIN trail : trail[i] # Torn}

Missing == {v \in Changes : \A i \in read_audit_events : trail[i] # v} \ refused

\* The trail names changes in the order they were committed and none twice, and whatever it
\* lacks was refused or lost in a crash, at most two for each: the one being written, and the
\* one written behind what was left of it.
TrailIsWhole ==
    /\ \A i, j \in read_audit_events : i < j => trail[i] < trail[j]
    /\ audited => Cardinality(Missing) <= 2 * crashes

EventsOf(v) == {i \in DOMAIN events : events[i] = v}

\* An event is of a change that was committed and is published no more often than it is
\* tried; and events are out of order only if the handlers of their changes overlapped.
EventsAreOfChanges ==
    /\ \A v \in Changes : Cardinality(EventsOf(v)) <= KAFKA_RETRY_ATTEMPTS
    /\ \A i, j \in DOMAIN events : i < j => events[j] \notin before[events[i]]
=============================================================================
