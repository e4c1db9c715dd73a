------------------------- MODULE ExecutionLifecycle --------------------------
(***************************************************************************)
(* What the execution pipeline promises about one execution, whatever the  *)
(* processes behind the API do: its status moves along the table of        *)
(* ExecutionStatus and never leaves a terminal status, and the envelope    *)
(* that makes a gateway deliver the command is put on the topic only once  *)
(* the execution was dispatched, at most Copies times.                     *)
(***************************************************************************)
EXTENDS Naturals, ExecutionStatus

CONSTANTS
    Exec,       \* execution ids
    Copies      \* most copies of one envelope the topic may hold

VARIABLES
    state,      \* the status of each execution
    released,   \* whether it was ever dispatched
    envelopes   \* copies of its dispatch envelope on the topic

vars == <<state, released, envelopes>>

TypeOK ==
    /\ state \in [Exec -> RowStatus]
    /\ released \in [Exec -> BOOLEAN]
    /\ envelopes \in [Exec -> 0..Copies]

Init ==
    /\ state = [e \in Exec |-> Absent]
    /\ released = [e \in Exec |-> FALSE]
    /\ envelopes = [e \in Exec |-> 0]

Accept(e) ==
    /\ state[e] = Absent
    /\ state' = [state EXCEPT ![e] = "queued"]
    /\ UNCHANGED <<released, envelopes>>

\* Some executions move together: one pass of the time-out loop ends several.
Move(S, to) ==
    /\ \A e \in S : transition_allowed(state[e], to)
    /\ state' = [e \in Exec |-> IF e \in S THEN to ELSE state[e]]
    /\ released' = [e \in Exec |-> released[e] \/ (e \in S /\ to = "dispatched")]
    /\ UNCHANGED envelopes

Remove(e) ==
    /\ state[e] \in VALID_STATUSES
    /\ state' = [state EXCEPT ![e] = Deleted]
    /\ UNCHANGED <<released, envelopes>>

Announce(e) ==
    /\ released[e]
    /\ envelopes[e] < Copies
    /\ envelopes' = [envelopes EXCEPT ![e] = @ + 1]
    /\ UNCHANGED <<state, released>>

Next ==
    \/ \E e \in Exec : Accept(e) \/ Remove(e) \/ Announce(e)
    \/ \E S \in SUBSET Exec, to \in VALID_STATUSES : Move(S, to)

Spec == Init /\ [][Next]_vars
=============================================================================
