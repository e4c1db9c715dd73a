------------------------------- MODULE Emulator -------------------------------
(***************************************************************************)
(* nexora-device-emulator: one board.  It polls the list of executions and *)
(* asks the gateway for each of its own, or it is pushed its executions    *)
(* through the tunnel; it works on one at a time.  The rows of             *)
(* execution-service and the dispatches the gateway holds are the world it *)
(* calls.                                                                  *)
(***************************************************************************)
EXTENDS ExecutionStatus, Naturals

CONSTANTS
    Execution,
    MaxAgain,       \* dispatches the gateway receives again; a bound
    MaxBoots,       \* registrations of the board; a bound
    MaxRuns         \* pushes of an execution that is worked on each time; a bound

VARIABLES
    mode,       \* "poll", or "ws" for --ws-mode
    board,      \* "boot", "registered", "up", "killed"
    devices,    \* devices registered for the board: it runs as the last
    connected,  \* ws: the tunnel
    row,        \* rows at execution-service
    held,       \* dispatches the gateway holds
    again,      \* dispatches it received again
    todo,       \* poll: executions of the list still to be looked at
    work,       \* where the handler is, and with which execution
    ran,        \* how often each execution's work was done
    late,       \* executions that were worked on although their row had ended before
    acked       \* ws: executions acknowledged

emulatorVars == <<mode, board, devices, connected, row, held, again,
                  todo, work, ran, late, acked>>

Idle == [pc |-> "idle"]
At(pc, e) == [pc |-> pc, of |-> e]

TypeOK ==
    /\ mode \in {"poll", "ws"}
    /\ board \in {"boot", "registered", "up", "killed"}
    /\ devices \in 0..MaxBoots
    /\ connected \in BOOLEAN
    /\ row \in [Execution -> VALID_STATUSES]
    /\ held \subseteq Execution /\ acked \subseteq Execution /\ late \subseteq Execution
    /\ again \in 0..MaxAgain
    /\ todo \subseteq Execution
    /\ work \in {Idle} \cup {At(pc, e) : pc \in {"running", "working", "ack", "succeeded", "failed"},
                                         e \in Execution}
    /\ ran \in [Execution -> 0..MaxRuns]

Init ==
    /\ mode \in {"poll", "ws"}
    /\ board = "boot" /\ devices = 0
    /\ connected = FALSE
    /\ row = [e \in Execution |-> "queued"]
    /\ held = {} /\ again = 0
    /\ todo = {} /\ work = Idle
    /\ ran = [e \in Execution |-> 0]
    /\ late = {} /\ acked = {}

rest == <<mode, board, devices>>
world == <<row, held, again>>

-----------------------------------------------------------------------------
(* The world *)

dispatch(e) ==
    /\ row[e] = "queued"
    /\ row' = [row EXCEPT ![e] = "dispatched"]
    /\ held' \in {held, held \cup {e}}
    /\ UNCHANGED <<rest, connected, again, todo, work, ran, late, acked>>

row_ends(e) ==
    /\ \E s \in {"cancelled", "timeout"} :
         transition_allowed(row[e], s) /\ row' = [row EXCEPT ![e] = s]
    /\ UNCHANGED <<rest, connected, held, again, todo, work, ran, late, acked>>

\* A gateway that restarts reads records again.
dispatch_again(e) ==
    /\ again < MaxAgain /\ row[e] # "queued"
    /\ again' = again + 1
    /\ held' = held \cup {e}
    /\ UNCHANGED <<rest, connected, row, todo, work, ran, late, acked>>

-----------------------------------------------------------------------------
(* The board starts: _launch_board *)

\* Both registrations are retried together, so each retry registers another device.
_register(answered) ==
    /\ board = "boot" /\ devices < MaxBoots
    /\ devices' = devices + 1
    /\ board' = IF answered THEN "registered" ELSE "boot"
    /\ UNCHANGED <<mode, connected, world, todo, work, ran, late, acked>>

_register_session(answered) ==
    /\ board = "registered"
    /\ board' = IF answered THEN "up" ELSE "boot"
    /\ UNCHANGED <<mode, devices, connected, world, todo, work, ran, late, acked>>

\* kill_after is looked at between lists, and between messages.
kill ==
    /\ board = "up" /\ work = Idle /\ todo = {}
    /\ board' = "killed" /\ connected' = FALSE
    /\ UNCHANGED <<mode, devices, world, todo, work, ran, late, acked>>

-----------------------------------------------------------------------------
(* Polling: _run_board and _handle_execution *)

\* The list is read once; of its executions those queued or dispatched count.
_list_executions ==
    /\ mode = "poll" /\ board = "up" /\ work = Idle /\ todo = {}
    /\ todo' = {e \in Execution : row[e] \in {"queued", "dispatched"}}
    /\ UNCHANGED <<rest, connected, world, work, ran, late, acked>>

\* The gateway hands a dispatch over once and forgets it; an answer that is lost, or 404,
\* leaves the execution to the next list.
deliver(e, answered) ==
    /\ e \in todo /\ work = Idle
    /\ answered => e \in held
    /\ held' = held \ {e}
    /\ todo' = todo \ {e}
    /\ work' = IF answered THEN At("running", e) ELSE Idle
    /\ UNCHANGED <<rest, connected, row, again, ran, late, acked>>

\* A report that is refused or lost is logged, and the board goes on.
report_logged(e, status, next) ==
    /\ row' \in {row, [row EXCEPT ![e] = IF transition_allowed(@, status) THEN status ELSE @]}
    /\ work' = next
    /\ UNCHANGED todo

\* Mutant: work whose report raised is done again.
report_raised_retried(e, status, next) ==
    \/ /\ transition_allowed(row[e], status)
       /\ row' = [row EXCEPT ![e] = status]
       /\ work' = next
       /\ UNCHANGED todo
    \/ /\ UNCHANGED <<row, todo>>
       /\ work' = At("working", e)

\* A report that is refused or lost, or whose answer is, raises: the rest of the list is
\* not looked at.
report_raised(e, status, next) ==
    \/ /\ transition_allowed(row[e], status)
       /\ row' = [row EXCEPT ![e] = status]
       /\ work' = next
       /\ UNCHANGED todo
    \/ /\ row' \in {row, [row EXCEPT ![e] = IF transition_allowed(@, status) THEN status ELSE @]}
       /\ work' = Idle /\ todo' = {}

-----------------------------------------------------------------------------
(* The tunnel: _run_board_ws and _handle_execution_ws *)

connect ==
    /\ mode = "ws" /\ board = "up" /\ ~connected
    /\ connected' = TRUE
    /\ UNCHANGED <<rest, world, todo, work, ran, late, acked>>

\* reconnect_interval and kill_after close the tunnel between messages, a fault does anywhere.
connection_lost ==
    /\ connected
    /\ connected' = FALSE
    /\ UNCHANGED <<rest, world, todo, work, ran, late, acked>>

\* The gateway pushes what it holds, and pushes it again after a reconnect.
control(e) ==
    /\ connected /\ work = Idle /\ e \in held /\ ran[e] < MaxRuns
    /\ work' = At("running", e)
    /\ UNCHANGED <<rest, connected, world, todo, ran, late, acked>>

\* The gateway drops what is acknowledged; an ack on a broken tunnel is only logged.
ack(result) ==
    /\ work.pc = "ack"
    /\ LET e == work.of IN
       /\ work' = At(result, e)
       /\ \/ connected /\ acked' = acked \cup {e} /\ held' = held \ {e}
          \/ UNCHANGED <<acked, held>>
    /\ UNCHANGED <<rest, connected, row, again, todo, ran, late>>

-----------------------------------------------------------------------------
(* Both *)

callback_running ==
    /\ work.pc = "running"
    /\ LET e == work.of IN
       /\ \/ mode = "poll" /\ report_raised(e, "running", At("working", e))
          \/ mode = "ws" /\ report_logged(e, "running", At("working", e))
       /\ late' = IF work' # Idle /\ row[e] \in TERMINAL_STATUSES THEN late \cup {e} ELSE late
    /\ UNCHANGED <<rest, connected, held, again, ran, acked>>

\* The work, of whatever kind, succeeds or fails: an installation or an invocation as the
\* runtime's answer says, any as fail_rate does.
Work(next) ==
    /\ work.pc = "working"
    /\ ran' = [ran EXCEPT ![work.of] = @ + 1]
    /\ work' = next
    /\ UNCHANGED <<rest, connected, world, todo, late, acked>>

execute(result) == mode = "poll" /\ Work(At(result, work.of))

\* The result is reported after the acknowledgement.
execute_ws == mode = "ws" /\ Work(At("ack", work.of))

callback_final ==
    /\ mode = "poll" /\ work.pc \in {"succeeded", "failed"}
    /\ report_raised(work.of, work.pc, Idle)
    /\ UNCHANGED <<rest, connected, held, again, ran, late, acked>>

callback_final_ws ==
    /\ mode = "ws" /\ work.pc \in {"succeeded", "failed"}
    /\ report_logged(work.of, work.pc, Idle)
    /\ UNCHANGED <<rest, connected, held, again, ran, late, acked>>

Next ==
    \/ \E e \in Execution : dispatch(e) \/ row_ends(e) \/ dispatch_again(e) \/ control(e)
    \/ \E e \in Execution, b \in BOOLEAN : deliver(e, b)
    \/ \E b \in BOOLEAN : _register(b) \/ _register_session(b)
    \/ \E result \in {"succeeded", "failed"} : ack(result) \/ execute(result)
    \/ kill \/ _list_executions \/ connect \/ connection_lost
    \/ callback_running \/ execute_ws \/ callback_final \/ callback_final_ws

Spec == Init /\ [][Next]_emulatorVars

-----------------------------------------------------------------------------

\* Whatever the gateway receives again and whichever calls fail, a board that polls works on
\* an execution at most once, and on none whose row had ended; and in both modes a row that
\* says how the work went, and an ack, are of work that was done.
RunsOnce ==
    /\ mode = "poll" => late = {} /\ \A e \in Execution : ran[e] <= 1
    /\ \A e \in Execution : row[e] \in {"succeeded", "failed"} \/ e \in acked => ran[e] > 0
=============================================================================
