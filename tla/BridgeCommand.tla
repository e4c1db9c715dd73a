---------------------------- MODULE BridgeCommand -----------------------------
(***************************************************************************)
(* How a protocol bridge runs an execution: it reads the record of         *)
(* execution.dispatched, reports "running", sends the command to the       *)
(* device's network and reports what it makes of that.  The three bridges  *)
(* share this shape; they differ in which records are theirs and in what   *)
(* sending does.  A report that fails is logged and forgotten.             *)
(***************************************************************************)
EXTENDS ExecutionStatus, Naturals

CONSTANTS
    Execution, MaxCrashes,
    Target(_)       \* the device of an execution's record, as the bridge's registry names it

VARIABLES
    command,    \* of each execution's record: how far the bridge is
    row,        \* the execution's status at execution-service
    sent,       \* how often its command went out to the network
    dropped,    \* executions whose command was thrown away and nothing raised
    raised,     \* executions whose handler raised
    crashes

commandVars == <<command, row, sent, dropped, raised, crashes>>

Progress == {"offered", "ignored", "running", "sending", "succeeded", "failed", "done"}

CommandTypeOK ==
    /\ command \in [Execution -> Progress]
    /\ row \in [Execution -> VALID_STATUSES]
    /\ sent \in [Execution -> Nat]
    /\ dropped \subseteq Execution /\ raised \subseteq Execution
    /\ crashes \in Nat

CommandInit ==
    /\ command = [e \in Execution |-> "offered"]
    /\ row = [e \in Execution |-> "dispatched"]
    /\ sent = [e \in Execution |-> 0]
    /\ dropped = {} /\ raised = {}
    /\ crashes = 0

-----------------------------------------------------------------------------

\* The record is read; `mine` is what the bridge's registry says of its device.
consume(e, mine) ==
    /\ command[e] = "offered"
    /\ command' = [command EXCEPT ![e] = IF mine THEN "running" ELSE "ignored"]
    /\ UNCHANGED <<row, sent, dropped, raised, crashes>>

\* A report the service does not allow is answered 409, and nobody looks at the answer.
Report(e, status) ==
    row' = [row EXCEPT ![e] = IF transition_allowed(@, status) THEN status ELSE @]

callback_running(e) ==
    /\ command[e] = "running"
    /\ command' = [command EXCEPT ![e] = "sending"]
    /\ Report(e, "running") \/ UNCHANGED row
    /\ UNCHANGED <<sent, dropped, raised, crashes>>

\* Sending ends: the command went out or not, and the handler raised or not.
Sent(e, out, ok) ==
    /\ command[e] = "sending"
    /\ command' = [command EXCEPT ![e] = IF ok THEN "succeeded" ELSE "failed"]
    /\ sent' = [sent EXCEPT ![e] = IF out THEN @ + 1 ELSE @]
    /\ dropped' = IF ok /\ ~out THEN dropped \cup {e} ELSE dropped
    /\ raised' = IF ok THEN raised ELSE raised \cup {e}
    /\ UNCHANGED <<row, crashes>>

callback_final(e) ==
    /\ command[e] \in {"succeeded", "failed"}
    /\ Report(e, command[e]) \/ UNCHANGED row
    /\ command' = [command EXCEPT ![e] = "done"]
    /\ UNCHANGED <<sent, dropped, raised, crashes>>

\* A client cancels, or the time-out loop ends the row.
row_ends(e) ==
    /\ \E s \in {"cancelled", "timeout"} :
         transition_allowed(row[e], s) /\ row' = [row EXCEPT ![e] = s]
    /\ UNCHANGED <<command, sent, dropped, raised, crashes>>

\* The consumer commits its offset from time to time: a restarted bridge reads the
\* records it was working on again, or never.
CommandsLost ==
    /\ crashes < MaxCrashes
    /\ crashes' = crashes + 1
    /\ \E again \in SUBSET {e \in Execution : command[e] # "offered"} :
         command' = [e \in Execution |-> IF e \in again THEN "offered"
                                         ELSE IF command[e] = "offered" THEN "offered"
                                         ELSE "done"]
    /\ UNCHANGED <<row, sent, dropped, raised>>

\* What any bridge may do with its commands.
CommandNext ==
    \/ CommandsLost
    \/ \E e \in Execution :
         \/ \E mine \in BOOLEAN : consume(e, mine)
         \/ callback_running(e) \/ callback_final(e) \/ row_ends(e)
         \/ \E out, ok \in BOOLEAN : Sent(e, out, ok)

CommandSpec == CommandInit /\ [][CommandNext]_commandVars

-----------------------------------------------------------------------------

\* Whatever is lost, repeated or ended meanwhile: a row is "succeeded" only if its
\* command went out or was dropped without an error, "failed" only if its handler raised,
\* an ignored record leaves it alone, and without a crash a command goes out once.
ReportsAreTrue ==
    \A e \in Execution :
        /\ row[e] = "succeeded" => sent[e] > 0 \/ e \in dropped
        /\ row[e] = "failed" => e \in raised
        /\ sent[e] <= crashes + 1
        /\ crashes = 0 /\ command[e] \in {"offered", "ignored"} =>
             row[e] \notin {"running", "succeeded", "failed"} /\ sent[e] = 0
=============================================================================
