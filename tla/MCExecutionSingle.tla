-------------------------- MODULE MCExecutionSingle ---------------------------
(***************************************************************************)
(* One replica, twice.  `requests`, the Execution extended here, is two    *)
(* requests on a device whose limit is one; `triggers`, an instance with   *)
(* variables of its own, is a request beside the row of an event trigger.  *)
(* `scenario` says which of the two moves.                                 *)
(***************************************************************************)
EXTENDS MCExecution, TLC

CONSTANTS r1, Scenario

VARIABLES scenario, status_, dispatched_at_, running_at_, result_, txn_, publishing_,
          envelopes_, proc_, kafkaUp_, crashes_, outages_

Triggered == INSTANCE Execution WITH
    Exec <- {e1, t1}, TriggerExec <- {t1}, Replica <- {r1},
    DeviceOf <- (e1 :> d1 @@ t1 :> d1), KeyOf <- (e1 :> k1 @@ t1 :> NoKey),
    TypeOf <- (e1 :> "command" @@ t1 :> "function"),
    CallbackStatuses <- {"running", "failed"},
    MaxExecutionsPerDevice <- 1, KafkaRetryAttempts <- 1, MaxCrashes <- 1, MaxOutages <- 1,
    status <- status_, dispatched_at <- dispatched_at_, running_at <- running_at_,
    result <- result_, txn <- txn_, publishing <- publishing_, envelopes <- envelopes_,
    proc <- proc_, kafkaUp <- kafkaUp_, crashes <- crashes_, outages <- outages_

triggered == <<status_, dispatched_at_, running_at_, result_, txn_, publishing_,
               envelopes_, proc_, kafkaUp_, crashes_, outages_>>

SingleInit == scenario \in Scenario /\ Init /\ Triggered!Init

SingleNext ==
    \/ scenario = "requests" /\ Next /\ UNCHANGED <<scenario, triggered>>
    \/ scenario = "triggers" /\ Triggered!Next /\ UNCHANGED <<scenario, vars>>

SingleSpec == SingleInit /\ [][SingleNext]_<<scenario, vars, triggered>>

-----------------------------------------------------------------------------
\* A trigger's row passes neither the limit nor the guardrails, and still moves
\* as ExecutionLifecycle says, beside requests, a crash and an outage.
TriggersImplement == Triggered!Lifecycle!Init /\ [][Triggered!Lifecycle!Next]_(Triggered!Lifecycle!vars)
=============================================================================
