--------------------------- MODULE ExecutionStatus ---------------------------
(***************************************************************************)
(* The status table of an execution, as execution_service/core/config.py   *)
(* declares it.  The service, its abstract life cycle and the agents that  *)
(* report to it all read the same table.                                   *)
(***************************************************************************)

TERMINAL_STATUSES == {"succeeded", "failed", "timeout", "cancelled"}

ACTIVE_STATUSES == {"queued", "dispatched", "running"}

VALID_STATUSES == ACTIVE_STATUSES \cup TERMINAL_STATUSES

\* What a row can be beside a status of the table: not inserted yet, or gone.
Absent  == "absent"
Deleted == "deleted"

RowStatus == VALID_STATUSES \cup {Absent, Deleted}

\* _ALLOWED_TRANSITIONS, as the set of its pairs.  A terminal status is not a
\* key of the dictionary, so nothing is allowed from it.
ALLOWED_TRANSITIONS ==
    ({"queued"} \X {"dispatched", "cancelled"})
      \cup ({"dispatched"} \X {"running", "failed", "timeout", "cancelled"})
      \cup ({"running"} \X {"succeeded", "failed", "timeout", "cancelled"})

transition_allowed(from, to) == <<from, to>> \in ALLOWED_TRANSITIONS
=============================================================================
