----------------------------- MODULE Execution ------------------------------
(***************************************************************************)
(* The execution-service: the rows of the executions table, the handlers   *)
(* that move them, the time-out loop and the publication of dispatch       *)
(* envelopes, run by one or more replicas over one MySQL database.         *)
(*                                                                         *)
(* A replica is one asyncio process.  A handler's session block holds no   *)
(* await, so two handlers of the same replica never overlap inside it; but *)
(* the block is a plain SELECT, a test in Python and an UPDATE of the      *)
(* changed columns, with no lock and no version column, so a handler of    *)
(* ANOTHER replica can commit in between.  txn[r] is the block replica r   *)
(* is in: opened by the SELECT and the tests, ended by the commit.         *)
(* publishing holds the dispatch handlers that have committed and are      *)
(* still fetching the plugin or awaiting Kafka.                            *)
(***************************************************************************)
EXTENDS Naturals, FiniteSets, ExecutionStatus

CONSTANTS
    Exec,               \* execution ids; an id stands for one create request
    Replica,            \* the processes of the deployment
    Device, NoDevice,   \* target devices; a request may name none
    Key, NoKey,         \* idempotency keys; a request may carry none
    DeviceOf, KeyOf,    \* what each request carries
    TypeOf,             \* "command" or "function" (install and invoke)
    TriggerExec,        \* ids of the rows event triggers insert
    Denied,             \* execution types the guardrails block
    CallbackStatuses,   \* the statuses the callers of the deployment report
    MaxExecutionsPerDevice,
    KafkaRetryAttempts,
    MaxCrashes, MaxOutages    \* bounds on the faults of a run

VARIABLES
    status,         \* status of each row
    dispatched_at,  \* age of the row's dispatch timestamp
    running_at,     \* age of the row's running timestamp
    result,         \* final report whose output the row stores
    txn,            \* session block each replica is in
    publishing,     \* dispatch handlers between commit and answer
    envelopes,      \* copies of each envelope on execution.dispatched
    proc,           \* "linked" to Kafka, up but "unlinked", or "down"
    kafkaUp,        \* whether the broker answers
    crashes, outages

rows == <<status, dispatched_at, running_at, result>>
faults == <<kafkaUp, crashes, outages>>
vars == <<status, dispatched_at, running_at, result, txn, publishing,
          envelopes, proc, kafkaUp, crashes, outages>>

ExecutionType == {"command", "function"}

ConstantsAssumption ==
    /\ DeviceOf \in [Exec -> Device \cup {NoDevice}]
    /\ KeyOf \in [Exec -> Key \cup {NoKey}]
    /\ TypeOf \in [Exec -> ExecutionType]
    /\ NoDevice \notin Device
    /\ NoKey \notin Key
    /\ TriggerExec \subseteq Exec
    /\ \A e \in TriggerExec : TypeOf[e] = "function" /\ KeyOf[e] = NoKey
    /\ Denied \subseteq ExecutionType
    /\ CallbackStatuses \subseteq VALID_STATUSES
    /\ MaxExecutionsPerDevice \in Nat
    /\ KafkaRetryAttempts \in Nat \ {0}
    /\ MaxCrashes \in Nat /\ MaxOutages \in Nat

ASSUME ExecutionAssumption == ConstantsAssumption

ASSUME ExecFinite == IsFiniteSet(Exec)

-----------------------------------------------------------------------------
(* Types *)

Age == {"unset", "recent", "expired"}
Output == {"none", "succeeded", "failed"}
Op == {"create", "trigger", "dispatch", "callback", "cancel", "delete", "timeout"}

\* A session block: what it will write, to which rows it read.
Txn == [op: Op \cup {"idle"}, execs: SUBSET Exec, to: RowStatus, output: Output]
Idle == [op |-> "idle", execs |-> {}, to |-> Absent, output |-> "none"]
Block(op, S, to) == [op |-> op, execs |-> S, to |-> to, output |-> "none"]

\* A handler of dispatch past its commit; attempt counts its tries at Kafka.
Publication == [replica: Replica, exec: Exec, attempt: 1..KafkaRetryAttempts]

TypeOK ==
    /\ status \in [Exec -> RowStatus]
    /\ dispatched_at \in [Exec -> Age]
    /\ running_at \in [Exec -> Age]
    /\ result \in [Exec -> Output]
    /\ txn \in [Replica -> Txn]
    /\ publishing \in SUBSET Publication
    /\ envelopes \in [Exec -> Nat]
    /\ proc \in [Replica -> {"linked", "unlinked", "down"}]
    /\ kafkaUp \in BOOLEAN
    /\ crashes \in 0..MaxCrashes
    /\ outages \in 0..MaxOutages

Init ==
    /\ status = [e \in Exec |-> Absent]
    /\ dispatched_at = [e \in Exec |-> "unset"]
    /\ running_at = [e \in Exec |-> "unset"]
    /\ result = [e \in Exec |-> "none"]
    /\ txn = [r \in Replica |-> Idle]
    /\ publishing = {}
    /\ envelopes = [e \in Exec |-> 0]
    /\ proc = [r \in Replica |-> "linked"]
    /\ kafkaUp = TRUE
    /\ crashes = 0
    /\ outages = 0

-----------------------------------------------------------------------------
(* The SELECT and the tests of each handler *)

Exists(e) == status[e] \in VALID_STATUSES

\* Rows _count_active_for_device counts.
ActiveOn(d) == {e \in Exec : DeviceOf[e] = d /\ status[e] \in ACTIVE_STATUSES}

guardrails_violation(type) == type \in Denied

\* The event loop of r is free to enter a session block.
Free(r) == proc[r] # "down" /\ txn[r].op = "idle"

Open(r, block) ==
    /\ Free(r)
    /\ txn' = [txn EXCEPT ![r] = block]
    /\ UNCHANGED <<rows, publishing, envelopes, proc, faults>>

\* The uuid4 of the new row is nobody else's.
FreshId(e) == status[e] = Absent /\ \A r \in Replica : e \notin txn[r].execs

KeyInUse(e) ==
    /\ KeyOf[e] # NoKey
    /\ \E f \in Exec : KeyOf[f] = KeyOf[e] /\ Exists(f)

\* Mutant: off by one in the limit test.
create_execution_one_over(r, e) ==
    /\ e \notin TriggerExec
    /\ FreshId(e)
    /\ ~KeyInUse(e)
    /\ DeviceOf[e] # NoDevice =>
          Cardinality(ActiveOn(DeviceOf[e])) <= MaxExecutionsPerDevice
    /\ ~guardrails_violation(TypeOf[e])
    /\ Open(r, Block("create", {e}, "queued"))

create_execution(r, e) ==
    /\ e \notin TriggerExec
    /\ FreshId(e)
    /\ ~KeyInUse(e)       \* else the existing row is the answer
    /\ DeviceOf[e] # NoDevice =>
          Cardinality(ActiveOn(DeviceOf[e])) < MaxExecutionsPerDevice
    /\ ~guardrails_violation(TypeOf[e])
    /\ Open(r, Block("create", {e}, "queued"))

delete_execution(r, e) ==
    /\ Exists(e)
    /\ Open(r, Block("delete", {e}, Deleted))

\* Mutant: no transition test, so a running row is dispatched again.
dispatch_execution_unchecked(r, e) ==
    /\ Exists(e)
    /\ ~guardrails_violation(TypeOf[e])
    /\ Open(r, Block("dispatch", {e}, "dispatched"))

\* Mutant: publish_event is scheduled before the commit.
dispatch_execution_publish_first(r, e) ==
    /\ Exists(e)
    /\ ~guardrails_violation(TypeOf[e])
    /\ transition_allowed(status[e], "dispatched")
    /\ Free(r)
    /\ txn' = [txn EXCEPT ![r] = Block("dispatch", {e}, "dispatched")]
    /\ publishing' = publishing \cup {[replica |-> r, exec |-> e, attempt |-> 1]}
    /\ UNCHANGED <<rows, envelopes, proc, faults>>

dispatch_execution(r, e) ==
    /\ Exists(e)
    /\ ~guardrails_violation(TypeOf[e])
    /\ transition_allowed(status[e], "dispatched")
    /\ Open(r, Block("dispatch", {e}, "dispatched"))

\* Mutant: no transition test, so a second final report is accepted.
callback_execution_unchecked(r, e, new_status, output) ==
    /\ Exists(e)
    /\ output \in {"none", new_status} \cap Output
    /\ Open(r, [Block("callback", {e}, new_status) EXCEPT !.output = output])

\* Output comes with a final report, if at all.
callback_execution(r, e, new_status, output) ==
    /\ Exists(e)
    /\ transition_allowed(status[e], new_status)
    /\ output \in {"none", new_status} \cap Output
    /\ Open(r, [Block("callback", {e}, new_status) EXCEPT !.output = output])

\* Mutant: a finished execution can be cancelled.
cancel_execution_unchecked(r, e) ==
    /\ Exists(e)
    /\ Open(r, Block("cancel", {e}, "cancelled"))

cancel_execution(r, e) ==
    /\ Exists(e)
    /\ transition_allowed(status[e], "cancelled")
    /\ Open(r, Block("cancel", {e}, "cancelled"))

\* Mutant: running rows are not looked at.
Overdue_dispatched_only(e) ==
    status[e] = "dispatched" /\ dispatched_at[e] = "expired"

\* elapsed > threshold, read from the timestamp of the row's own status.
Overdue(e) ==
    \/ status[e] = "dispatched" /\ dispatched_at[e] = "expired"
    \/ status[e] = "running" /\ running_at[e] = "expired"

\* Mutant: the elapsed time is not compared with the threshold.
timeout_loop_at_once(r) ==
    LET candidates == {e \in Exec : status[e] \in {"dispatched", "running"}}
    IN  /\ candidates # {}
        /\ Open(r, Block("timeout", candidates, "timeout"))

timeout_loop(r) ==
    LET candidates == {e \in Exec : Overdue(e)}
    IN  /\ candidates # {}
        /\ Open(r, Block("timeout", candidates, "timeout"))

\* The row is inserted with no limit and no guardrail; the call of
\* dispatch_execution that follows reads it back in a session of its own.
fire_trigger(r, e) ==
    /\ Free(r)
    /\ proc[r] = "linked"      \* the consumer gave up if Kafka was down at start
    /\ e \in TriggerExec
    /\ FreshId(e)
    /\ status' = [status EXCEPT ![e] = "queued"]
    /\ txn' = [txn EXCEPT ![r] = Block("trigger", {e}, "dispatched")]
    /\ UNCHANGED <<dispatched_at, running_at, result, publishing, envelopes,
                   proc, faults>>

fire_trigger_dispatch(r) ==
    /\ txn[r].op = "trigger"
    /\ \E e \in txn[r].execs :
          LET refused == \/ ~Exists(e)
                         \/ guardrails_violation(TypeOf[e])
                         \/ ~transition_allowed(status[e], "dispatched")
          IN  txn' = [txn EXCEPT ![r] = IF refused THEN Idle
                                        ELSE Block("dispatch", {e}, "dispatched")]
    /\ UNCHANGED <<rows, publishing, envelopes, proc, faults>>

-----------------------------------------------------------------------------
(* The commit that ends each block *)

\* Mutant: the ORM writes the row back whether or not it is still there.
Present_upsert(r) == txn[r].execs

\* The rows the block writes.  An UPDATE that matches no row, because another
\* replica has deleted it, makes the ORM raise and the whole block rolls back.
Present(r) == IF \A e \in txn[r].execs : Exists(e) THEN txn[r].execs ELSE {}

Written(r, f, v) == [e \in Exec |-> IF e \in Present(r) THEN v ELSE f[e]]

EndBlock(r) == txn' = [txn EXCEPT ![r] = Idle]

\* Mutant: no UNIQUE constraint behind the lookup.
commit_create_any_key(r) ==
    /\ txn[r].op = "create"
    /\ EndBlock(r)
    /\ status' = [e \in Exec |-> IF e \in txn[r].execs THEN "queued" ELSE status[e]]
    /\ UNCHANGED <<dispatched_at, running_at, result, publishing, envelopes,
                   proc, faults>>

\* idempotency_key is UNIQUE: a second row with the key is an IntegrityError.
commit_create(r) ==
    /\ txn[r].op = "create"
    /\ EndBlock(r)
    /\ status' = [e \in Exec |->
                    IF e \in txn[r].execs /\ ~KeyInUse(e) THEN "queued" ELSE status[e]]
    /\ UNCHANGED <<dispatched_at, running_at, result, publishing, envelopes,
                   proc, faults>>

commit_delete(r) ==
    /\ txn[r].op = "delete"
    /\ EndBlock(r)
    /\ status' = Written(r, status, Deleted)
    /\ running_at' = Written(r, running_at, "unset")
    /\ result' = Written(r, result, "none")
    /\ UNCHANGED <<dispatched_at, publishing, envelopes, proc, faults>>

\* Mutant: the handler forgets the timestamp.
commit_dispatch_untimed(r) ==
    /\ txn[r].op = "dispatch"
    /\ EndBlock(r)
    /\ status' = Written(r, status, "dispatched")
    /\ publishing' = publishing
          \cup {[replica |-> r, exec |-> e, attempt |-> 1] : e \in Present(r)}
    /\ UNCHANGED <<dispatched_at, running_at, result, envelopes, proc, faults>>

\* Committed before the plugin is fetched and before Kafka is tried.
commit_dispatch(r) ==
    /\ txn[r].op = "dispatch"
    /\ EndBlock(r)
    /\ status' = Written(r, status, "dispatched")
    /\ dispatched_at' = Written(r, dispatched_at, "recent")
    /\ publishing' = publishing
          \cup {[replica |-> r, exec |-> e, attempt |-> 1] : e \in Present(r)}
    /\ UNCHANGED <<running_at, result, envelopes, proc, faults>>

commit_callback(r) ==
    /\ txn[r].op = "callback"
    /\ EndBlock(r)
    /\ status' = Written(r, status, txn[r].to)
    /\ running_at' = IF txn[r].to = "running"
                     THEN Written(r, running_at, "recent") ELSE running_at
    /\ result' = IF txn[r].output # "none"
                 THEN Written(r, result, txn[r].output) ELSE result
    /\ UNCHANGED <<dispatched_at, publishing, envelopes, proc, faults>>

write_status(r) ==
    /\ EndBlock(r)
    /\ status' = Written(r, status, txn[r].to)
    /\ UNCHANGED <<dispatched_at, running_at, result, publishing, envelopes,
                   proc, faults>>

commit_cancel(r) == txn[r].op = "cancel" /\ write_status(r)

commit_timeout(r) == txn[r].op = "timeout" /\ write_status(r)

-----------------------------------------------------------------------------
(* dispatch_execution after its commit *)

\* 502, 409, 503 or 400 from the plugin and capability checks: the row stays
\* dispatched and nothing is published.
reject_function(m) ==
    /\ TypeOf[m.exec] = "function"
    /\ m.attempt = 1
    /\ publishing' = publishing \ {m}
    /\ UNCHANGED <<rows, txn, envelopes, proc, faults>>

\* No producer since startup: the event is skipped with a warning.
publish_skip(m) ==
    /\ proc[m.replica] = "unlinked"
    /\ publishing' = publishing \ {m}
    /\ UNCHANGED <<rows, txn, envelopes, proc, faults>>

publish_ok(m) ==
    /\ proc[m.replica] = "linked"
    /\ kafkaUp
    /\ envelopes' = [envelopes EXCEPT ![m.exec] = @ + 1]
    /\ publishing' = publishing \ {m}
    /\ UNCHANGED <<rows, txn, proc, faults>>

\* Mutant: one attempt more than kafka_retry_attempts.
publish_fail_one_over(m, stored) ==
    /\ proc[m.replica] = "linked"
    /\ stored => kafkaUp
    /\ envelopes' = IF stored THEN [envelopes EXCEPT ![m.exec] = @ + 1] ELSE envelopes
    /\ publishing' = (publishing \ {m}) \cup
          (IF m.attempt <= KafkaRetryAttempts THEN {[m EXCEPT !.attempt = @ + 1]} ELSE {})
    /\ UNCHANGED <<rows, txn, proc, faults>>

\* One attempt fails: the broker is down, or it stored the record and its
\* answer was lost.  After the last attempt publish_event returns silently.
publish_fail(m, stored) ==
    /\ proc[m.replica] = "linked"
    /\ stored => kafkaUp
    /\ envelopes' = IF stored THEN [envelopes EXCEPT ![m.exec] = @ + 1] ELSE envelopes
    /\ publishing' = (publishing \ {m}) \cup
          (IF m.attempt < KafkaRetryAttempts THEN {[m EXCEPT !.attempt = @ + 1]} ELSE {})
    /\ UNCHANGED <<rows, txn, proc, faults>>

-----------------------------------------------------------------------------
(* Time, crashes and the broker *)

\* The threshold of the row's status passes.
age_dispatched(e) ==
    /\ status[e] = "dispatched" /\ dispatched_at[e] = "recent"
    /\ dispatched_at' = [dispatched_at EXCEPT ![e] = "expired"]
    /\ UNCHANGED <<status, running_at, result, txn, publishing, envelopes,
                   proc, faults>>

age_running(e) ==
    /\ status[e] = "running" /\ running_at[e] = "recent"
    /\ running_at' = [running_at EXCEPT ![e] = "expired"]
    /\ UNCHANGED <<status, dispatched_at, result, txn, publishing, envelopes,
                   proc, faults>>

\* The open block is rolled back; handlers past their commit are forgotten.
crash(r) ==
    /\ proc[r] # "down"
    /\ crashes < MaxCrashes
    /\ crashes' = crashes + 1
    /\ proc' = [proc EXCEPT ![r] = "down"]
    /\ txn' = [txn EXCEPT ![r] = Idle]
    /\ publishing' = {m \in publishing : m.replica # r}
    /\ UNCHANGED <<rows, envelopes, kafkaUp, outages>>

\* A producer that cannot connect is dropped for the life of the process.
startup(r) ==
    /\ proc[r] = "down"
    /\ proc' = [proc EXCEPT ![r] = IF kafkaUp THEN "linked" ELSE "unlinked"]
    /\ UNCHANGED <<rows, txn, publishing, envelopes, faults>>

kafka_stops ==
    /\ kafkaUp
    /\ outages < MaxOutages
    /\ kafkaUp' = FALSE
    /\ outages' = outages + 1
    /\ UNCHANGED <<rows, txn, publishing, envelopes, proc, crashes>>

kafka_recovers ==
    /\ ~kafkaUp
    /\ kafkaUp' = TRUE
    /\ UNCHANGED <<rows, txn, publishing, envelopes, proc, crashes, outages>>

-----------------------------------------------------------------------------
Request(r, e) ==
    \/ create_execution(r, e)
    \/ delete_execution(r, e)
    \/ dispatch_execution(r, e)
    \/ cancel_execution(r, e)
    \/ fire_trigger(r, e)
    \/ \E s \in CallbackStatuses, out \in Output : callback_execution(r, e, s, out)

Commit(r) ==
    \/ commit_create(r)
    \/ commit_delete(r)
    \/ commit_dispatch(r)
    \/ commit_callback(r)
    \/ commit_cancel(r)
    \/ commit_timeout(r)
    \/ fire_trigger_dispatch(r)

Publish(m) ==
    \/ reject_function(m)
    \/ publish_skip(m)
    \/ publish_ok(m)
    \/ \E stored \in BOOLEAN : publish_fail(m, stored)

Next ==
    \/ \E r \in Replica, e \in Exec : Request(r, e)
    \/ \E r \in Replica : timeout_loop(r) \/ Commit(r) \/ crash(r) \/ startup(r)
    \/ \E m \in publishing : Publish(m)
    \/ \E e \in Exec : age_dispatched(e) \/ age_running(e)
    \/ kafka_stops \/ kafka_recovers

Spec == Init /\ [][Next]_vars

\* The event loop runs what is ready, the time-out task wakes every few
\* seconds, time passes and a crashed pod is restarted.  Nothing says that a
\* client calls, that an agent answers or that the broker comes back.
Fairness ==
    /\ \A r \in Replica : WF_vars(timeout_loop(r)) /\ WF_vars(Commit(r))
                          /\ WF_vars(startup(r))
    /\ \A e \in Exec : WF_vars(age_dispatched(e)) /\ WF_vars(age_running(e))

FairSpec == Spec /\ Fairness

-----------------------------------------------------------------------------
(* Properties *)

\* The time-out loop can time every row it is responsible for: a dispatched or
\* running row always carries the timestamp _timeout_loop subtracts from now,
\* whichever replicas wrote its columns and in whichever order.
TimedRows ==
    \A e \in Exec : /\ status[e] = "dispatched" => dispatched_at[e] # "unset"
                    /\ status[e] = "running" => running_at[e] # "unset"

\* A retried create never gives a key a second row, even when both replicas
\* look the key up before either has inserted.
OneRowPerKey ==
    \A e, f \in Exec :
        /\ KeyOf[e] # NoKey /\ KeyOf[e] = KeyOf[f]
        /\ Exists(e) /\ Exists(f)
        => e = f

\* A block that has read a row another replica then deletes cannot write it
\* back: a deleted execution stays deleted.
DeletedStaysDeleted ==
    [][\A e \in Exec : status[e] = Deleted => status'[e] = Deleted]_vars

\* What a block has read of its rows is still true of them.
StillRead(b) ==
    \A e \in b.execs :
        /\ b.op = "create" => status[e] = Absent /\ ~KeyInUse(e)
        /\ b.op \in {"dispatch", "callback", "cancel"} =>
              transition_allowed(status[e], b.to)
        /\ b.op = "timeout" => Overdue(e)

\* With one replica, what a session block has read is still true when it
\* commits: the row may still make the move the block decided on.
FreshBlocks == \A r \in Replica : StillRead(txn[r])

LegalMove(e) ==
    status'[e] # status[e] =>
        \/ status[e] = Absent /\ status'[e] = "queued"
        \/ transition_allowed(status[e], status'[e])
        \/ Exists(e) /\ status'[e] = Deleted

\* ADR-0001: "A state machine enforces valid transitions", of every row and
\* whichever handlers wrote it.
LegalMoves == [][\A e \in Exec : LegalMove(e)]_vars

\* Output is stored with the report that ends the execution and nothing moves
\* the row afterwards: a row with output has the status it was reported with.
OutputMatchesStatus ==
    \A e \in Exec : result[e] # "none" => status[e] \in {result[e], Deleted}

\* At most one dispatch call wins, so the topic holds at most the copies its
\* own Kafka retries can make.
OneDispatch == \A e \in Exec : envelopes[e] <= KafkaRetryAttempts

TimeoutIsDue(r) ==
    commit_timeout(r) => \A e \in Exec : status'[e] # status[e] => Overdue(e)

\* The loop times out only what is overdue now: a report that arrived before
\* the commit is never overwritten.
TimeoutsAreDue == [][\A r \in Replica : TimeoutIsDue(r)]_vars

\* Requests never fill a device's queue past its limit.  Trigger rows count
\* against the requests, but a trigger inserts its row without asking for room.
RequestLimit ==
    \A d \in Device :
        Cardinality(ActiveOn(d) \ TriggerExec) <= MaxExecutionsPerDevice

\* ADR-0001: "a background loop in execution-service marks stale
\* dispatched/running executions as timeout".  However the replicas' writes
\* interleave, no row is left dispatched or running for good.
RowsAreResolved ==
    \A e \in Exec :
        status[e] \in {"dispatched", "running"}
            ~> status[e] \in TERMINAL_STATUSES \cup {Deleted}

\* The life cycle this service implements when a single replica runs.
Lifecycle == INSTANCE ExecutionLifecycle WITH
    Copies <- KafkaRetryAttempts,
    state <- status,
    released <- [e \in Exec |-> dispatched_at[e] # "unset"]

ImplementsLifecycle == Lifecycle!Spec
=============================================================================
