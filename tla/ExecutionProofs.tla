--------------------------- MODULE ExecutionProofs ---------------------------
(***************************************************************************)
(* Theorems of Execution, for every set of executions, replicas, devices,  *)
(* keys and every bound.                                                   *)
(***************************************************************************)
EXTENDS Execution, FiniteSetTheorems, TLAPS

USE ExecutionAssumption DEF ConstantsAssumption

-----------------------------------------------------------------------------
(* Types *)

\* Opening a block keeps the types.
LEMMA OpenType ==
    ASSUME TypeOK, NEW r \in Replica, NEW block \in Txn, Open(r, block)
    PROVE  TypeOK'
BY DEF TypeOK, Open, rows, faults

\* A block built from an operation, its rows and a status is a block.
LEMMA BlockType ==
    ASSUME NEW op \in Op, NEW S \in SUBSET Exec, NEW to \in RowStatus
    PROVE  Block(op, S, to) \in Txn
BY DEF Block, Txn, Output

\* The idle block is a block.
LEMMA IdleType == Idle \in Txn
BY DEF Idle, Txn, RowStatus, Output

\* A request of a client, a callback or a trigger keeps the types.
LEMMA RequestType ==
    ASSUME TypeOK, NEW r \in Replica, NEW e \in Exec, Request(r, e)
    PROVE  TypeOK'
<1> USE DEF Op, RowStatus, VALID_STATUSES, ACTIVE_STATUSES, TERMINAL_STATUSES,
            Absent, Deleted
<1>1. CASE create_execution(r, e)
  BY <1>1, BlockType, OpenType DEF create_execution
<1>2. CASE delete_execution(r, e)
  BY <1>2, BlockType, OpenType DEF delete_execution
<1>3. CASE dispatch_execution(r, e)
  BY <1>3, BlockType, OpenType DEF dispatch_execution
<1>4. CASE cancel_execution(r, e)
  BY <1>4, BlockType, OpenType DEF cancel_execution
<1>5. CASE fire_trigger(r, e)
  <2>1. Block("trigger", {e}, "dispatched") \in Txn
    BY BlockType
  <2>. QED
    BY <1>5, <2>1 DEF fire_trigger, TypeOK, faults
<1>6. ASSUME NEW s \in CallbackStatuses, NEW out \in Output,
             callback_execution(r, e, s, out)
      PROVE  TypeOK'
  <2>1. Block("callback", {e}, s) \in Txn
    BY BlockType
  <2>2. [Block("callback", {e}, s) EXCEPT !.output = out] \in Txn
    BY <2>1 DEF Txn
  <2>. QED
    BY <1>6, <2>2, OpenType DEF callback_execution
<1>. QED
  BY <1>1, <1>2, <1>3, <1>4, <1>5, <1>6 DEF Request

\* A column a commit writes keeps its type.
LEMMA WrittenType ==
    ASSUME NEW r, NEW V, NEW f \in [Exec -> V], NEW v \in V
    PROVE  Written(r, f, v) \in [Exec -> V]
BY DEF Written

\* The commit of any block keeps the types.
LEMMA CommitType ==
    ASSUME TypeOK, NEW r \in Replica, Commit(r)
    PROVE  TypeOK'
<1> USE DEF TypeOK, faults
<1>0. txn[r] \in Txn /\ txn[r].to \in RowStatus /\ txn[r].output \in Output
  BY DEF Txn
<1>i. EndBlock(r) => txn' \in [Replica -> Txn]
  BY IdleType DEF EndBlock
<1>1. CASE commit_create(r)
  BY <1>1, <1>i DEF commit_create, RowStatus, VALID_STATUSES, ACTIVE_STATUSES
<1>2. CASE commit_delete(r)
  <2>1. /\ Written(r, status, Deleted) \in [Exec -> RowStatus]
        /\ Written(r, running_at, "unset") \in [Exec -> Age]
        /\ Written(r, result, "none") \in [Exec -> Output]
    BY WrittenType DEF RowStatus, Age, Output
  <2>. QED
    BY <1>2, <1>i, <2>1 DEF commit_delete
<1>3. CASE commit_dispatch(r)
  <2>1. /\ Written(r, status, "dispatched") \in [Exec -> RowStatus]
        /\ Written(r, dispatched_at, "recent") \in [Exec -> Age]
    BY WrittenType DEF RowStatus, VALID_STATUSES, ACTIVE_STATUSES, Age
  <2>2. publishing' \in SUBSET Publication
    BY <1>3, <1>0 DEF commit_dispatch, Publication, Present, Txn
  <2>. QED
    BY <1>3, <1>i, <2>1, <2>2 DEF commit_dispatch
<1>4. CASE commit_callback(r)
  <2>1. /\ Written(r, status, txn[r].to) \in [Exec -> RowStatus]
        /\ Written(r, running_at, "recent") \in [Exec -> Age]
        /\ Written(r, result, txn[r].output) \in [Exec -> Output]
    BY <1>0, WrittenType DEF Age
  <2>. QED
    BY <1>4, <1>i, <2>1 DEF commit_callback
<1>5. CASE commit_cancel(r) \/ commit_timeout(r)
  <2>1. Written(r, status, txn[r].to) \in [Exec -> RowStatus]
    BY <1>0, WrittenType
  <2>. QED
    BY <1>5, <1>i, <2>1 DEF commit_cancel, commit_timeout, write_status
<1>6. CASE fire_trigger_dispatch(r)
  <2>1. PICK e \in txn[r].execs :
           txn' \in {[txn EXCEPT ![r] = Idle],
                     [txn EXCEPT ![r] = Block("dispatch", {e}, "dispatched")]}
    BY <1>6 DEF fire_trigger_dispatch
  <2>0. e \in Exec
    BY <1>0, <2>1 DEF Txn
  <2>2. Block("dispatch", {e}, "dispatched") \in Txn
    BY <2>0, BlockType DEF Op, RowStatus, VALID_STATUSES, ACTIVE_STATUSES
  <2>3. txn' \in [Replica -> Txn]
    BY <2>1, <2>2, IdleType
  <2>. QED
    BY <1>6, <2>3 DEF fire_trigger_dispatch, rows
<1>. QED
  BY <1>1, <1>2, <1>3, <1>4, <1>5, <1>6 DEF Commit

\* A dispatch handler past its commit keeps the types.
LEMMA PublishType ==
    ASSUME TypeOK, NEW m \in publishing, Publish(m)
    PROVE  TypeOK'
<1> USE DEF TypeOK, rows, faults
<1>0. m \in Publication /\ m.exec \in Exec /\ m.attempt \in 1..KafkaRetryAttempts
  BY DEF Publication
<1>1. CASE reject_function(m)
  BY <1>1 DEF reject_function
<1>2. CASE publish_skip(m)
  BY <1>2 DEF publish_skip
<1>3. CASE publish_ok(m)
  BY <1>3, <1>0 DEF publish_ok
<1>4. ASSUME NEW stored \in BOOLEAN, publish_fail(m, stored)
      PROVE  TypeOK'
  <2>1. envelopes' \in [Exec -> Nat]
    BY <1>4, <1>0 DEF publish_fail
  <2>2. m.attempt < KafkaRetryAttempts => [m EXCEPT !.attempt = @ + 1] \in Publication
    BY <1>0 DEF Publication
  <2>. QED
    BY <1>4, <2>1, <2>2 DEF publish_fail
<1>. QED
  BY <1>1, <1>2, <1>3, <1>4 DEF Publish

\* Time, crashes, restarts and the broker keep the types.
LEMMA FaultType ==
    ASSUME TypeOK,
           \/ \E r \in Replica : crash(r) \/ startup(r)
           \/ \E e \in Exec : age_dispatched(e) \/ age_running(e)
           \/ kafka_stops \/ kafka_recovers
    PROVE  TypeOK'
<1> USE DEF TypeOK, rows, faults
<1>1. ASSUME NEW r \in Replica, crash(r) PROVE TypeOK'
  BY <1>1, IdleType DEF crash
<1>2. ASSUME NEW r \in Replica, startup(r) PROVE TypeOK'
  BY <1>2 DEF startup
<1>3. ASSUME NEW e \in Exec, age_dispatched(e) \/ age_running(e) PROVE TypeOK'
  BY <1>3 DEF age_dispatched, age_running, Age
<1>4. CASE kafka_stops \/ kafka_recovers
  <2>1. kafkaUp' \in BOOLEAN
    BY <1>4, Zenon DEF kafka_stops, kafka_recovers
  <2>2. outages' \in 0..MaxOutages /\ crashes' = crashes
    BY <1>4 DEF kafka_stops, kafka_recovers
  <2>. QED
    BY <1>4, <2>1, <2>2 DEF kafka_stops, kafka_recovers
<1>. QED
  BY <1>1, <1>2, <1>3, <1>4

\* The time-out loop keeps the types.
LEMMA TimeoutLoopType ==
    ASSUME TypeOK, NEW r \in Replica, timeout_loop(r)
    PROVE  TypeOK'
<1> DEFINE S == {e \in Exec : Overdue(e)}
<1>1. Block("timeout", S, "timeout") \in Txn
  BY BlockType DEF Op, RowStatus, VALID_STATUSES, TERMINAL_STATUSES
<1>. QED
  BY <1>1, OpenType DEF timeout_loop

\* Every step keeps the types.
LEMMA NextType == TypeOK /\ [Next]_vars => TypeOK'
<1> SUFFICES ASSUME TypeOK, [Next]_vars PROVE TypeOK'
  OBVIOUS
<1>1. CASE UNCHANGED vars
  BY <1>1 DEF TypeOK, vars
<1>. QED
  BY <1>1, RequestType, CommitType, PublishType, FaultType, TimeoutLoopType DEF Next

\* Every variable keeps its type, for any deployment.
THEOREM TypeCorrect == Spec => []TypeOK
<1>1. Init => TypeOK
  BY IdleType DEF Init, TypeOK, RowStatus, Age, Output
<1>. QED
  BY <1>1, NextType, PTL DEF Spec

-----------------------------------------------------------------------------
(* The shape of a session block *)

WellFormed(b) ==
    /\ b.op = "callback" => b.to \in CallbackStatuses /\ b.output \in {"none", b.to}
    /\ b.op = "dispatch" => b.to = "dispatched"
    /\ b.op = "cancel" => b.to = "cancelled"
    /\ b.op = "timeout" => b.to = "timeout"
    /\ b.op = "create" => b.execs \cap TriggerExec = {}
    /\ b.op \notin {"idle", "timeout"} => \E e \in Exec : b.execs = {e}

BlockShape == \A r \in Replica : WellFormed(txn[r])

\* The idle block is one a handler may be in.
LEMMA IdleShape == WellFormed(Idle)
BY DEF WellFormed, Idle

\* What a step that replaces the block of one replica leaves.
LEMMA NewBlockShape ==
    ASSUME TypeOK, BlockShape, NEW r \in Replica, NEW block,
           txn' = [txn EXCEPT ![r] = block], WellFormed(block)
    PROVE  BlockShape'
BY DEF BlockShape, TypeOK, WellFormed

\* Every block is one a handler opens.
LEMMA NextShape == TypeOK /\ BlockShape /\ [Next]_vars => BlockShape'
<1> SUFFICES ASSUME TypeOK, BlockShape, [Next]_vars PROVE BlockShape'
  OBVIOUS
<1>1. ASSUME NEW r \in Replica, NEW e \in Exec, Request(r, e) PROVE BlockShape'
  <2>1. CASE create_execution(r, e)
    BY <2>1, NewBlockShape DEF create_execution, Open, Block, WellFormed
  <2>2. CASE delete_execution(r, e)
    BY <2>2, NewBlockShape DEF delete_execution, Open, Block, WellFormed
  <2>3. CASE dispatch_execution(r, e)
    BY <2>3, NewBlockShape DEF dispatch_execution, Open, Block, WellFormed
  <2>4. CASE cancel_execution(r, e)
    BY <2>4, NewBlockShape DEF cancel_execution, Open, Block, WellFormed
  <2>5. CASE fire_trigger(r, e)
    BY <2>5, NewBlockShape DEF fire_trigger, Block, WellFormed
  <2>6. ASSUME NEW s \in CallbackStatuses, NEW out \in Output,
               callback_execution(r, e, s, out)
        PROVE  BlockShape'
    <3> DEFINE block == [Block("callback", {e}, s) EXCEPT !.output = out]
    <3>1. WellFormed(block)
      BY <2>6 DEF callback_execution, Block, WellFormed
    <3>. QED
      BY <2>6, <3>1, NewBlockShape DEF callback_execution, Open
  <2>. QED
    BY <1>1, <2>1, <2>2, <2>3, <2>4, <2>5, <2>6 DEF Request
<1>2. ASSUME NEW r \in Replica, timeout_loop(r) PROVE BlockShape'
  BY <1>2, NewBlockShape DEF timeout_loop, Open, Block, WellFormed
<1>3. ASSUME NEW r \in Replica, Commit(r) PROVE BlockShape'
  <2>1. CASE EndBlock(r)
    BY <2>1, IdleShape, NewBlockShape DEF EndBlock
  <2>2. CASE fire_trigger_dispatch(r)
    <3>1. PICK e \in txn[r].execs :
             txn' \in {[txn EXCEPT ![r] = Idle],
                       [txn EXCEPT ![r] = Block("dispatch", {e}, "dispatched")]}
      BY <2>2 DEF fire_trigger_dispatch
    <3>2. e \in Exec
      BY <3>1 DEF TypeOK, Txn
    <3>3. WellFormed(Block("dispatch", {e}, "dispatched"))
      BY <3>2 DEF Block, WellFormed
    <3>. QED
      BY <3>1, <3>3, IdleShape, NewBlockShape
  <2>. QED
    BY <1>3, <2>1, <2>2 DEF Commit, commit_create, commit_delete, commit_dispatch,
       commit_callback, commit_cancel, commit_timeout, write_status
<1>4. ASSUME NEW r \in Replica, crash(r) PROVE BlockShape'
  BY <1>4, IdleShape, NewBlockShape DEF crash
<1>5. CASE txn' = txn
  BY <1>5 DEF BlockShape, WellFormed
<1>. QED
  BY <1>1, <1>2, <1>3, <1>4, <1>5 DEF Next, Publish, startup, age_dispatched,
     age_running, kafka_stops, kafka_recovers, reject_function, publish_skip,
     publish_ok, publish_fail, vars

\* Every open block is one that some handler opens: its rows, its status and
\* its output agree with its operation.
THEOREM BlocksWellFormed == Spec => []BlockShape
<1>1. Init => BlockShape
  BY IdleShape DEF Init, BlockShape
<1>. QED
  BY <1>1, TypeCorrect, NextShape, PTL DEF Spec

-----------------------------------------------------------------------------
(* Timestamps *)

\* A row keeps its timestamps through every step that leaves its columns alone
\* or writes no active status; only dispatch and the callback "running" write
\* one, and each writes the timestamp with it.
LEMMA NextTimed ==
    ASSUME "dispatched" \notin CallbackStatuses, TypeOK, BlockShape, TimedRows,
           [Next]_vars
    PROVE  TimedRows'
<1> USE DEF TimedRows
<1>0. \A r \in Replica : Present(r) \subseteq Exec /\ WellFormed(txn[r])
  BY DEF Present, BlockShape, TypeOK, Txn
<1>1. ASSUME NEW r \in Replica, NEW e \in Exec, fire_trigger(r, e) PROVE TimedRows'
  BY <1>1 DEF fire_trigger, TypeOK
<1>2. ASSUME NEW r \in Replica, commit_create(r) PROVE TimedRows'
  BY <1>2 DEF commit_create, TypeOK
<1>3. ASSUME NEW r \in Replica, commit_delete(r) PROVE TimedRows'
  BY <1>3, <1>0 DEF commit_delete, Written, TypeOK, Deleted
<1>4. ASSUME NEW r \in Replica, commit_dispatch(r) PROVE TimedRows'
  BY <1>4, <1>0 DEF commit_dispatch, Written, TypeOK
<1>5. ASSUME NEW r \in Replica, commit_callback(r) PROVE TimedRows'
  <2>1. txn[r].to # "dispatched"
    BY <1>5, <1>0 DEF commit_callback, WellFormed
  <2>. QED
    BY <1>5, <1>0, <2>1 DEF commit_callback, Written, TypeOK
<1>6. ASSUME NEW r \in Replica, commit_cancel(r) \/ commit_timeout(r) PROVE TimedRows'
  BY <1>6, <1>0 DEF commit_cancel,
      commit_timeout, write_status, Written, WellFormed, TypeOK
<1>7. ASSUME NEW e \in Exec, age_dispatched(e) \/ age_running(e) PROVE TimedRows'
  BY <1>7 DEF age_dispatched, age_running, TypeOK
<1>8. CASE UNCHANGED rows
  BY <1>8 DEF rows
<1>. QED
  BY <1>1, <1>2, <1>3, <1>4, <1>5, <1>6, <1>7, <1>8
  DEF Next, Request, Commit, Publish, create_execution, delete_execution,
      dispatch_execution, cancel_execution, callback_execution, timeout_loop, Open,
      fire_trigger_dispatch, reject_function, publish_skip, publish_ok, publish_fail,
      crash, startup, kafka_stops, kafka_recovers, rows, vars

\* As long as no caller reports "dispatched", a dispatched or running row always
\* carries the timestamp the time-out loop subtracts, for any number of
\* replicas whose blocks overlap.
THEOREM TimedRowsHold ==
    ASSUME "dispatched" \notin CallbackStatuses
    PROVE  Spec => []TimedRows
<1>1. Init => TimedRows
  BY DEF Init, TimedRows, Absent
<1>2. TypeOK /\ BlockShape /\ TimedRows /\ [Next]_vars => TimedRows'
  BY NextTimed
<1>. QED
  BY <1>1, <1>2, TypeCorrect, BlocksWellFormed, PTL DEF Spec

-----------------------------------------------------------------------------
(* Rows of overlapping blocks *)

\* An id belongs to the one handler that drew it until its row is inserted.
OwnIds ==
    \A r \in Replica : txn[r].op = "create" =>
        \A e \in txn[r].execs : /\ status[e] = Absent
                                /\ \A q \in Replica \ {r} : e \notin txn[q].execs

\* A block on rows that exist.
OnRows(b) == b.op # "create" /\ \A e \in b.execs : status[e] # Absent

\* Every step leaves the ids of the rows being created to one block each.
LEMMA NextOwnIds == TypeOK /\ OwnIds /\ [Next]_vars => OwnIds'
<1> SUFFICES ASSUME TypeOK, OwnIds, [Next]_vars PROVE OwnIds'
  OBVIOUS
<1>1. ASSUME NEW r \in Replica, NEW e \in Exec, create_execution(r, e) PROVE OwnIds'
  BY <1>1 DEF create_execution, FreshId, Open, rows, Block, OwnIds, TypeOK
<1>2. ASSUME NEW r \in Replica, NEW block, status' = status, OnRows(block),
             txn' = [txn EXCEPT ![r] = block]
      PROVE  OwnIds'
  BY <1>2 DEF OwnIds, OnRows, TypeOK
<1> USE DEF VALID_STATUSES, ACTIVE_STATUSES, TERMINAL_STATUSES, Absent
<1>3. ASSUME NEW r \in Replica, NEW op, NEW e \in Exec, NEW to, op # "create",
             Open(r, Block(op, {e}, to)), Exists(e)
      PROVE  OwnIds'
  <2>1. OnRows(Block(op, {e}, to))
    BY <1>3 DEF OnRows, Block, Exists
  <2>. QED
    BY <1>2, <1>3, <2>1 DEF Open, rows
<1>4. ASSUME NEW r \in Replica, NEW e \in Exec, NEW s, NEW out,
             callback_execution(r, e, s, out)
      PROVE  OwnIds'
  <2>1. OnRows([Block("callback", {e}, s) EXCEPT !.output = out])
    BY <1>4 DEF callback_execution, OnRows, Block, Exists
  <2>. QED
    BY <1>2, <1>4, <2>1 DEF callback_execution, Open, rows
<1>5. ASSUME NEW r \in Replica, timeout_loop(r) PROVE OwnIds'
  <2>1. OnRows(Block("timeout", {e \in Exec : Overdue(e)}, "timeout"))
    BY DEF OnRows, Block, Overdue
  <2>. QED
    BY <1>2, <1>5, <2>1 DEF timeout_loop, Open, rows
<1>6. ASSUME NEW r \in Replica, NEW e \in Exec, fire_trigger(r, e) PROVE OwnIds'
  <2>1. /\ txn' = [txn EXCEPT ![r] = Block("trigger", {e}, "dispatched")]
        /\ status' = [status EXCEPT ![e] = "queued"]
        /\ \A q \in Replica : e \notin txn[q].execs
    BY <1>6 DEF fire_trigger, FreshId
  <2>. QED
    BY <2>1 DEF OwnIds, Block, TypeOK
<1>7. ASSUME NEW r \in Replica, fire_trigger_dispatch(r) PROVE OwnIds'
  <2>1. PICK e \in txn[r].execs :
           \/ txn' = [txn EXCEPT ![r] = Idle]
           \/ Exists(e) /\ txn' = [txn EXCEPT ![r] = Block("dispatch", {e}, "dispatched")]
    BY <1>7 DEF fire_trigger_dispatch
  <2>2. OnRows(Idle) /\ (Exists(e) => OnRows(Block("dispatch", {e}, "dispatched")))
    BY DEF OnRows, Idle, Block, Exists
  <2>. QED
    BY <1>2, <1>7, <2>1, <2>2 DEF fire_trigger_dispatch, rows
\* The commit writes rows of its own block, or rows that exist.
<1>8. ASSUME NEW r \in Replica, txn' = [txn EXCEPT ![r] = Idle],
             \A e \in Exec : status'[e] # status[e] =>
                             status[e] # Absent \/ (txn[r].op = "create" /\ e \in txn[r].execs)
      PROVE  OwnIds'
  BY <1>8 DEF OwnIds, Idle, TypeOK, Txn
<1>9. ASSUME NEW r \in Replica, NEW v, txn' = [txn EXCEPT ![r] = Idle],
             status' = Written(r, status, v)
      PROVE  OwnIds'
  BY <1>8, <1>9 DEF Written, Present, Exists
<1>10. ASSUME NEW r \in Replica, commit_create(r) PROVE OwnIds'
  BY <1>8, <1>10 DEF commit_create, EndBlock
<1>11. ASSUME NEW r \in Replica, crash(r) PROVE OwnIds'
  BY <1>8, <1>11 DEF crash, rows
<1>12. CASE UNCHANGED <<status, txn>>
  BY <1>12 DEF OwnIds
<1>. QED
  BY <1>1, <1>3, <1>4, <1>5, <1>6, <1>7, <1>9, <1>10, <1>11, <1>12
  DEF Next, Request, Commit, Publish, delete_execution, dispatch_execution,
      cancel_execution, commit_delete, commit_dispatch, commit_callback,
      commit_cancel,
      commit_timeout, write_status, EndBlock, age_dispatched, age_running, startup, kafka_stops,
      kafka_recovers, reject_function, publish_skip, publish_ok, publish_fail, rows,
      vars

\* The id of a row being created is in no other block, for any number of
\* replicas: uuid4 gives every create its own.
THEOREM OwnIdsHold == Spec => []OwnIds
<1>1. Init => OwnIds
  BY DEF Init, OwnIds, Idle
<1>. QED
  BY <1>1, NextOwnIds, TypeCorrect, PTL DEF Spec

\* No step brings a deleted row back.
LEMMA NextDeleted ==
    ASSUME TypeOK, OwnIds, [Next]_vars, NEW e \in Exec, status[e] = Deleted
    PROVE  status'[e] = Deleted
<1> USE DEF Absent, Deleted
<1>1. ASSUME NEW r \in Replica, commit_create(r) PROVE status'[e] = Deleted
  BY <1>1 DEF commit_create, OwnIds
<1>2. ASSUME NEW r \in Replica, NEW v, status' = Written(r, status, v)
      PROVE  status'[e] = Deleted
  BY <1>2 DEF Written, Present, Exists, VALID_STATUSES, ACTIVE_STATUSES,
     TERMINAL_STATUSES
<1>3. ASSUME NEW r \in Replica, NEW f \in Exec, fire_trigger(r, f)
      PROVE  status'[e] = Deleted
  BY <1>3 DEF fire_trigger, FreshId, TypeOK
<1>4. CASE status' = status
  BY <1>4
<1>. QED
  BY <1>1, <1>2, <1>3, <1>4
  DEF Next, Request, Commit, Publish, create_execution, delete_execution,
      dispatch_execution, cancel_execution, callback_execution, timeout_loop, Open,
      commit_delete, commit_dispatch, commit_callback, commit_cancel,
      commit_timeout, write_status,
      fire_trigger_dispatch, reject_function, publish_skip, publish_ok, publish_fail,
      age_dispatched, age_running, crash, startup, kafka_stops, kafka_recovers, rows,
      vars

\* No block that overlaps a delete writes the row back, whatever it had read.
THEOREM DeletedStaysDeletedHolds == Spec => DeletedStaysDeleted
<1> DEFINE Stays == \A e \in Exec : status[e] = Deleted => status'[e] = Deleted
<1>1. TypeOK /\ OwnIds /\ [Next]_vars => [Stays]_vars
  BY NextDeleted
<1>. QED
  BY <1>1, TypeCorrect, OwnIdsHold, PTL DEF Spec, DeletedStaysDeleted

\* No step gives a key a second row: the lookup may be stale, the UNIQUE test
\* at the commit is not.
LEMMA NextKeys ==
    ASSUME TypeOK, BlockShape, OneRowPerKey, [Next]_vars
    PROVE  OneRowPerKey'
<1> USE DEF OneRowPerKey, Exists
<1>1. ASSUME NEW r \in Replica, commit_create(r) PROVE OneRowPerKey'
  <2>1. PICK e \in Exec : txn[r].execs = {e}
    BY <1>1 DEF commit_create, BlockShape, WellFormed
  <2>2. \/ status' = status
        \/ ~KeyInUse(e) /\ status' = [status EXCEPT ![e] = "queued"]
    BY <1>1, <2>1 DEF commit_create, TypeOK
  <2>. QED
    BY <2>2 DEF KeyInUse, TypeOK
<1>2. ASSUME NEW r \in Replica, NEW v, status' = Written(r, status, v)
      PROVE  OneRowPerKey'
  BY <1>2 DEF Written, Present
<1>3. ASSUME NEW r \in Replica, NEW e \in Exec, fire_trigger(r, e)
      PROVE  OneRowPerKey'
  BY <1>3 DEF fire_trigger, TypeOK
<1>4. CASE status' = status
  BY <1>4
<1>. QED
  BY <1>1, <1>2, <1>3, <1>4
  DEF Next, Request, Commit, Publish, create_execution, delete_execution,
      dispatch_execution, cancel_execution, callback_execution, timeout_loop, Open,
      commit_delete, commit_dispatch, commit_callback, commit_cancel,
      commit_timeout, write_status,
      fire_trigger_dispatch, reject_function, publish_skip, publish_ok, publish_fail,
      age_dispatched, age_running, crash, startup, kafka_stops, kafka_recovers, rows,
      vars

\* Whichever replicas race on a retried create, a key names one row.
THEOREM OneRowPerKeyHolds == Spec => []OneRowPerKey
<1>1. Init => OneRowPerKey
  BY DEF Init, OneRowPerKey, Exists, Absent, VALID_STATUSES, ACTIVE_STATUSES,
         TERMINAL_STATUSES
<1>2. TypeOK /\ BlockShape /\ OneRowPerKey /\ [Next]_vars => OneRowPerKey'
  BY NextKeys
<1>. QED
  BY <1>1, <1>2, TypeCorrect, BlocksWellFormed, PTL DEF Spec

-----------------------------------------------------------------------------
(***************************************************************************)
(* What Execution guarantees when a single replica runs: its session       *)
(* blocks hold no await, so a block commits in the state it read.  For     *)
(* every set of executions, devices and keys, with crashes, restarts and   *)
(* broker outages at any time.                                             *)
(***************************************************************************)

HIDE ExecutionAssumption DEF ConstantsAssumption

\* The limits are numbers.
LEMMA Bounds == KafkaRetryAttempts \in Nat \ {0} /\ MaxExecutionsPerDevice \in Nat
BY ExecutionAssumption DEF ConstantsAssumption

SingleReplica == \A q, r \in Replica : q = r

-----------------------------------------------------------------------------
(* A block commits in the state it read *)

\* A step that leaves the rows alone keeps the blocks fresh if the block it
\* opens is.
LEMMA FreshOpen ==
    ASSUME SingleReplica, TypeOK, NEW r \in Replica, NEW block,
           UNCHANGED rows, txn' = [txn EXCEPT ![r] = block], StillRead(block)
    PROVE  FreshBlocks'
BY DEF FreshBlocks, StillRead, SingleReplica, TypeOK, KeyInUse, Exists, Overdue, rows

\* A step that ends the block leaves none open.
LEMMA FreshEnd ==
    ASSUME SingleReplica, TypeOK, NEW r \in Replica, txn' = [txn EXCEPT ![r] = Idle]
    PROVE  FreshBlocks'
BY DEF FreshBlocks, StillRead, SingleReplica, TypeOK, Idle

\* With one replica no step changes what an open block has read.
LEMMA NextFresh ==
    ASSUME SingleReplica, TypeOK, FreshBlocks, [Next]_vars
    PROVE  FreshBlocks'
<1>1. ASSUME NEW r \in Replica, NEW e \in Exec, Request(r, e) PROVE FreshBlocks'
  <2>1. CASE create_execution(r, e)
    <3>1. StillRead(Block("create", {e}, "queued"))
      BY <2>1 DEF create_execution, Block, StillRead, FreshId
    <3>. QED
      BY <2>1, <3>1, FreshOpen DEF create_execution, Open
  <2>2. CASE delete_execution(r, e)
    <3>1. StillRead(Block("delete", {e}, Deleted))
      BY <2>2 DEF delete_execution, Block, StillRead, FreshId
    <3>. QED
      BY <2>2, <3>1, FreshOpen DEF delete_execution, Open
  <2>3. CASE dispatch_execution(r, e)
    <3>1. StillRead(Block("dispatch", {e}, "dispatched"))
      BY <2>3 DEF dispatch_execution, Block, StillRead, FreshId
    <3>. QED
      BY <2>3, <3>1, FreshOpen DEF dispatch_execution, Open
  <2>4. CASE cancel_execution(r, e)
    <3>1. StillRead(Block("cancel", {e}, "cancelled"))
      BY <2>4 DEF cancel_execution, Block, StillRead, FreshId
    <3>. QED
      BY <2>4, <3>1, FreshOpen DEF cancel_execution, Open
  <2>5. CASE fire_trigger(r, e)
    BY <2>5 DEF fire_trigger, Block, FreshBlocks, StillRead, SingleReplica, TypeOK
  <2>6. ASSUME NEW s \in CallbackStatuses, NEW out \in Output,
               callback_execution(r, e, s, out)
        PROVE  FreshBlocks'
    <3> DEFINE block == [Block("callback", {e}, s) EXCEPT !.output = out]
    <3>1. StillRead(block)
      BY <2>6 DEF callback_execution, Block, StillRead
    <3>. QED
      BY <2>6, <3>1, FreshOpen DEF callback_execution, Open
  <2>. QED
    BY <1>1, <2>1, <2>2, <2>3, <2>4, <2>5, <2>6 DEF Request
<1>2. ASSUME NEW r \in Replica, timeout_loop(r) PROVE FreshBlocks'
  <2> DEFINE block == Block("timeout", {e \in Exec : Overdue(e)}, "timeout")
  <2>1. StillRead(block)
    BY DEF Block, StillRead
  <2>. QED
    BY <1>2, <2>1, FreshOpen DEF timeout_loop, Open
<1>3. ASSUME NEW r \in Replica, Commit(r) PROVE FreshBlocks'
  <2>1. CASE EndBlock(r)
    BY <2>1, FreshEnd DEF EndBlock
  <2>2. CASE fire_trigger_dispatch(r)
    <3>1. PICK e \in txn[r].execs :
             \/ txn' = [txn EXCEPT ![r] = Idle]
             \/ /\ transition_allowed(status[e], "dispatched")
                /\ txn' = [txn EXCEPT ![r] = Block("dispatch", {e}, "dispatched")]
      BY <2>2 DEF fire_trigger_dispatch
    <3>2. ASSUME transition_allowed(status[e], "dispatched")
          PROVE  StillRead(Block("dispatch", {e}, "dispatched"))
      BY <3>2 DEF Block, StillRead
    <3>. QED
      BY <2>2, <3>1, <3>2, FreshOpen, FreshEnd DEF fire_trigger_dispatch
  <2>. QED
    BY <1>3, <2>1, <2>2 DEF Commit, commit_create, commit_delete, commit_dispatch,
       commit_callback, commit_cancel, commit_timeout, write_status
<1>4. ASSUME NEW r \in Replica, crash(r) PROVE FreshBlocks'
  BY <1>4, FreshEnd DEF crash
<1>5. ASSUME NEW e \in Exec, age_dispatched(e) \/ age_running(e) PROVE FreshBlocks'
  <2>1. \A f \in Exec : Overdue(f) => Overdue(f)'
    BY <1>5 DEF age_dispatched, age_running, Overdue, TypeOK
  <2>. QED
    BY <1>5, <2>1 DEF age_dispatched, age_running, FreshBlocks, StillRead, TypeOK,
                      Txn, KeyInUse, Exists
<1>6. CASE UNCHANGED <<rows, txn>>
  BY <1>6 DEF rows, FreshBlocks, StillRead, KeyInUse, Exists, Overdue
<1>. QED
  BY <1>1, <1>2, <1>3, <1>4, <1>5, <1>6 DEF Next, Publish, startup, kafka_stops,
     kafka_recovers, reject_function, publish_skip, publish_ok, publish_fail, vars, rows

\* With one replica, what a session block read is still true when it commits.
THEOREM FreshBlocksHold == ASSUME SingleReplica PROVE Spec => []FreshBlocks
<1>1. Init => FreshBlocks
  BY DEF Init, FreshBlocks, StillRead, Idle
<1>2. TypeOK /\ FreshBlocks /\ [Next]_vars => FreshBlocks'
  BY NextFresh
<1>. QED
  BY <1>1, <1>2, TypeCorrect, PTL DEF Spec

-----------------------------------------------------------------------------
(* The state machine *)

\* Every step moves every row along the table.
LEMMA NextLegal ==
    ASSUME TypeOK, BlockShape, FreshBlocks, [Next]_vars
    PROVE  \A e \in Exec : LegalMove(e)
<1> USE DEF LegalMove
<1>0. \A r \in Replica : /\ StillRead(txn[r])
                          /\ WellFormed(txn[r])
                          /\ Present(r) \subseteq txn[r].execs
                          /\ \A e \in Present(r) : Exists(e)
  BY DEF FreshBlocks, BlockShape, Present
<1>1. ASSUME NEW r \in Replica, NEW f \in Exec, fire_trigger(r, f)
      PROVE  \A e \in Exec : LegalMove(e)
  BY <1>1 DEF fire_trigger, FreshId, TypeOK
<1>2. ASSUME NEW r \in Replica, commit_create(r) PROVE \A e \in Exec : LegalMove(e)
  BY <1>2, <1>0 DEF commit_create, StillRead
<1>3. ASSUME NEW r \in Replica, commit_delete(r) PROVE \A e \in Exec : LegalMove(e)
  BY <1>3, <1>0 DEF commit_delete, Written
<1>4. ASSUME NEW r \in Replica, commit_dispatch(r) PROVE \A e \in Exec : LegalMove(e)
  BY <1>4, <1>0 DEF commit_dispatch, Written, StillRead, WellFormed
<1>5. ASSUME NEW r \in Replica, commit_callback(r) PROVE \A e \in Exec : LegalMove(e)
  BY <1>5, <1>0 DEF commit_callback, Written, StillRead
<1>6. ASSUME NEW r \in Replica, commit_cancel(r) \/ commit_timeout(r) PROVE \A e \in Exec : LegalMove(e)
  <2>1. \A e \in Present(r) : transition_allowed(status[e], txn[r].to)
    BY <1>6, <1>0 DEF commit_cancel,
      commit_timeout, write_status, StillRead, WellFormed, Overdue,
       transition_allowed, ALLOWED_TRANSITIONS
  <2>. QED
    BY <1>6, <2>1 DEF commit_cancel, commit_timeout, write_status, Written
<1>7. CASE status' = status
  BY <1>7
<1>. QED
  BY <1>1, <1>2, <1>3, <1>4, <1>5, <1>6, <1>7
  DEF Next, Request, Commit, Publish, create_execution, delete_execution,
      dispatch_execution, cancel_execution, callback_execution, timeout_loop, Open,
      fire_trigger_dispatch, reject_function, publish_skip, publish_ok, publish_fail,
      age_dispatched, age_running, crash, startup, kafka_stops, kafka_recovers, rows,
      vars

\* ADR-0001's claim about the state machine holds of one replica.
THEOREM LegalMovesHold == ASSUME SingleReplica PROVE Spec => LegalMoves
<1>1. TypeOK /\ BlockShape /\ FreshBlocks /\ [Next]_vars
         => [\A e \in Exec : LegalMove(e)]_vars
  BY NextLegal
<1>. QED
  BY <1>1, TypeCorrect, BlocksWellFormed, FreshBlocksHold, PTL DEF Spec, LegalMoves

\* The time-out loop overwrites no report.
THEOREM TimeoutsAreDueHold == ASSUME SingleReplica PROVE Spec => TimeoutsAreDue
<1>1. FreshBlocks /\ [Next]_vars => [\A r \in Replica : TimeoutIsDue(r)]_vars
  BY DEF TimeoutIsDue, FreshBlocks, StillRead, commit_cancel,
      commit_timeout, write_status, Written, Present
<1>. QED
  BY <1>1, FreshBlocksHold, PTL DEF Spec, TimeoutsAreDue

-----------------------------------------------------------------------------
(* Reports *)

\* No step moves a row away from the status its output was reported with.
LEMMA NextOutput ==
    ASSUME TypeOK, BlockShape, FreshBlocks, OutputMatchesStatus, [Next]_vars
    PROVE  OutputMatchesStatus'
<1> SUFFICES ASSUME NEW e \in Exec, result'[e] # "none"
             PROVE  status'[e] \in {result'[e], Deleted}
  BY DEF OutputMatchesStatus
<1>1. LegalMove(e)
  BY NextLegal
<1>2. CASE result'[e] = result[e]
  <2>1. status[e] \in {"succeeded", "failed", Deleted}
    BY <1>2 DEF OutputMatchesStatus, TypeOK, Output
  <2>2. /\ status[e] # Absent
        /\ ~transition_allowed(status[e], status'[e])
    BY <2>1 DEF Absent, Deleted, transition_allowed, ALLOWED_TRANSITIONS
  <2>. QED
    BY <1>1, <1>2, <2>2 DEF LegalMove, OutputMatchesStatus
<1>3. ASSUME NEW r \in Replica, commit_callback(r), result'[e] # result[e]
      PROVE  status'[e] \in {result'[e], Deleted}
  <2>1. txn[r].output = txn[r].to /\ e \in Present(r)
    BY <1>3 DEF commit_callback, BlockShape, WellFormed, Written
  <2>. QED
    BY <1>3, <2>1 DEF commit_callback, Written
<1>4. ASSUME NEW r \in Replica, commit_delete(r), result'[e] # result[e]
      PROVE  FALSE
  BY <1>4 DEF commit_delete, Written
<1>. QED
  BY <1>2, <1>3, <1>4
  DEF Next, Request, Commit, Publish, create_execution, delete_execution,
      dispatch_execution, cancel_execution, callback_execution, timeout_loop, Open,
      fire_trigger, commit_create, commit_dispatch, commit_cancel,
      commit_timeout, write_status,
      fire_trigger_dispatch, reject_function, publish_skip, publish_ok, publish_fail,
      age_dispatched, age_running, crash, startup, kafka_stops, kafka_recovers, rows,
      vars

\* A row with output keeps the status its output was reported with.
THEOREM OutputMatchesStatusHolds ==
    ASSUME SingleReplica PROVE Spec => []OutputMatchesStatus
<1>1. Init => OutputMatchesStatus
  BY DEF Init, OutputMatchesStatus
<1>2. TypeOK /\ BlockShape /\ FreshBlocks /\ OutputMatchesStatus /\ [Next]_vars
         => OutputMatchesStatus'
  BY NextOutput
<1>. QED
  BY <1>1, <1>2, TypeCorrect, BlocksWellFormed, FreshBlocksHold, PTL DEF Spec

-----------------------------------------------------------------------------
(* Envelopes *)

\* Why OneDispatch holds: a row that was never dispatched has no envelope and
\* no publication, a row has one publication at most, and a publication has
\* put on the topic no more copies than the attempts it has behind it.
OnePublication ==
    /\ \A m, n \in publishing : m.exec = n.exec => m = n
    /\ \A m \in publishing : /\ status[m.exec] \notin {Absent, "queued"}
                             /\ dispatched_at[m.exec] # "unset"
                             /\ envelopes[m.exec] < m.attempt
    /\ \A e \in Exec : status[e] \in {Absent, "queued"} => envelopes[e] = 0
    /\ OneDispatch

\* Steps that neither publish nor dispatch.
LEMMA OtherOnePublication ==
    ASSUME TypeOK, OnePublication, \A e \in Exec : LegalMove(e),
           publishing' \subseteq publishing, envelopes' = envelopes,
           \A e \in Exec : dispatched_at[e] # "unset" => dispatched_at'[e] # "unset"
    PROVE  OnePublication'
<1>1. \A e \in Exec : status'[e] \in {Absent, "queued"} =>
                      status[e] \in {Absent, "queued"}
  BY DEF LegalMove, transition_allowed, ALLOWED_TRANSITIONS, Absent, Deleted
<1>2. \A m \in publishing : m.exec \in Exec
  BY DEF TypeOK, Publication
<1>. QED
  BY <1>1, <1>2 DEF OnePublication, OneDispatch

\* A dispatch commit starts the first publication of its row.
LEMMA DispatchOnePublication ==
    ASSUME TypeOK, BlockShape, FreshBlocks, OnePublication, NEW r \in Replica,
           commit_dispatch(r)
    PROVE  OnePublication'
<1>1. PICK e \in Exec : txn[r].execs = {e}
  BY DEF commit_dispatch, BlockShape, WellFormed
<1>2. status[e] = "queued"
  BY <1>1 DEF commit_dispatch, FreshBlocks, StillRead, BlockShape, WellFormed,
     transition_allowed, ALLOWED_TRANSITIONS
<1>3. Present(r) = {e}
  BY <1>1, <1>2 DEF Present, Exists, VALID_STATUSES, ACTIVE_STATUSES
<1>4. /\ status' = [status EXCEPT ![e] = "dispatched"]
      /\ dispatched_at' = [dispatched_at EXCEPT ![e] = "recent"]
      /\ publishing' = publishing \cup {[replica |-> r, exec |-> e, attempt |-> 1]}
      /\ envelopes' = envelopes
  BY <1>3 DEF commit_dispatch, Written, TypeOK
<1>5. envelopes[e] = 0 /\ \A m \in publishing : m.exec # e
  BY <1>2 DEF OnePublication
<1>. QED
  BY <1>4, <1>5 DEF OnePublication, OneDispatch, TypeOK, Publication, Absent

\* An attempt at Kafka uses up one of the publication's tries.
LEMMA AttemptOnePublication ==
    ASSUME TypeOK, OnePublication, NEW m \in publishing,
           publish_ok(m) \/ \E stored \in BOOLEAN : publish_fail(m, stored)
    PROVE  OnePublication'
<1>1. m \in Publication /\ m.exec \in Exec /\ m.attempt \in 1..KafkaRetryAttempts
  BY DEF TypeOK, Publication
<1>2. /\ UNCHANGED <<status, dispatched_at>>
      /\ envelopes' \in {envelopes, [envelopes EXCEPT ![m.exec] = @ + 1]}
      /\ \/ publishing' = publishing \ {m}
         \/ publishing' = (publishing \ {m}) \cup {[m EXCEPT !.attempt = @ + 1]}
  BY DEF publish_ok, publish_fail, rows
<1> DEFINE next == [m EXCEPT !.attempt = @ + 1]
<1>3. next.exec = m.exec /\ next.attempt = m.attempt + 1
  BY <1>1 DEF Publication
<1>4. /\ envelopes[m.exec] < m.attempt
      /\ \A n \in publishing \ {m} : n.exec # m.exec /\ n.exec \in Exec
  BY DEF OnePublication, TypeOK, Publication
<1>5. /\ envelopes'[m.exec] <= m.attempt
      /\ \A e \in Exec \ {m.exec} : envelopes'[e] = envelopes[e]
  BY <1>1, <1>2, <1>4 DEF TypeOK
<1>6. \A n \in publishing' : \/ n \in publishing \ {m}
                             \/ n = next
  BY <1>2
<1>7. envelopes' \in [Exec -> Nat]
  BY <1>1, <1>2 DEF TypeOK
<1> HIDE DEF next
<1>8. \A n \in publishing' : envelopes'[n.exec] < n.attempt
  <2> SUFFICES ASSUME NEW n \in publishing' PROVE envelopes'[n.exec] < n.attempt
    OBVIOUS
  <2>1. CASE n = next
    BY <2>1, <1>1, <1>3, <1>5, <1>7
  <2>2. CASE n \in publishing \ {m}
    BY <2>2, <1>4, <1>5 DEF OnePublication
  <2>. QED
    BY <1>6, <2>1, <2>2
<1>9. OneDispatch'
  <2>1. envelopes'[m.exec] <= KafkaRetryAttempts
    BY <1>1, <1>5, <1>7, Bounds
  <2>2. \A e \in Exec : envelopes[e] <= KafkaRetryAttempts
    BY DEF OnePublication, OneDispatch
  <2>. QED
    BY <1>5, <2>1, <2>2 DEF OneDispatch
<1>. QED
  BY <1>1, <1>2, <1>3, <1>4, <1>5, <1>6, <1>8, <1>9 DEF OnePublication

\* Every step keeps a row to one publication and its envelopes to its tries.
LEMMA NextOnePublication ==
    ASSUME TypeOK, BlockShape, FreshBlocks, OnePublication, [Next]_vars
    PROVE  OnePublication'
<1>1. \A e \in Exec : LegalMove(e)
  BY NextLegal
<1>2. ASSUME NEW r \in Replica, commit_dispatch(r) PROVE OnePublication'
  BY <1>2, DispatchOnePublication
<1>3. ASSUME NEW m \in publishing,
             publish_ok(m) \/ \E stored \in BOOLEAN : publish_fail(m, stored)
      PROVE  OnePublication'
  BY <1>3, AttemptOnePublication
<1>4. ASSUME publishing' \subseteq publishing, UNCHANGED <<envelopes, dispatched_at>>
      PROVE  OnePublication'
  BY <1>1, <1>4, OtherOnePublication
<1>5. ASSUME NEW e \in Exec, age_dispatched(e) PROVE OnePublication'
  BY <1>1, <1>5, OtherOnePublication DEF age_dispatched, TypeOK
<1>. QED
  BY <1>2, <1>3, <1>4, <1>5
  DEF Next, Request, Commit, Publish, create_execution, delete_execution,
      dispatch_execution, cancel_execution, callback_execution, timeout_loop, Open,
      fire_trigger, commit_create, commit_delete, commit_callback, commit_cancel,
      commit_timeout, write_status,
      fire_trigger_dispatch, reject_function, publish_skip, age_running, crash,
      startup, kafka_stops, kafka_recovers, rows, vars

\* With one replica a row has at most one publication, and its envelopes and
\* the tries it has left never exceed kafka_retry_attempts.
THEOREM OnePublicationHolds == ASSUME SingleReplica PROVE Spec => []OnePublication
<1>1. Init => OnePublication
  BY Bounds DEF Init, OnePublication, OneDispatch
<1>2. TypeOK /\ BlockShape /\ FreshBlocks /\ OnePublication /\ [Next]_vars
         => OnePublication'
  BY NextOnePublication
<1>. QED
  BY <1>1, <1>2, TypeCorrect, BlocksWellFormed, FreshBlocksHold, PTL DEF Spec

\* However often an execution is dispatched, the topic holds at most the copies
\* one dispatch call's Kafka retries can make.
THEOREM OneDispatchHolds == ASSUME SingleReplica PROVE Spec => []OneDispatch
<1>1. OnePublication => OneDispatch
  BY DEF OnePublication
<1>. QED
  BY <1>1, OnePublicationHolds, PTL

-----------------------------------------------------------------------------
(* The queue limit *)

\* Why RequestLimit holds: the room the handler counted is still there when it
\* inserts.
RoomLeft ==
    \A r \in Replica : \A e \in txn[r].execs :
        txn[r].op = "create" /\ DeviceOf[e] # NoDevice =>
            Cardinality(ActiveOn(DeviceOf[e])) < MaxExecutionsPerDevice

\* The active rows of a device are finitely many.
LEMMA ActiveFinite ==
    ASSUME NEW d
    PROVE  /\ IsFiniteSet(ActiveOn(d)) /\ Cardinality(ActiveOn(d)) \in Nat
           /\ IsFiniteSet(ActiveOn(d) \ TriggerExec)
           /\ Cardinality(ActiveOn(d) \ TriggerExec) \in Nat
           /\ Cardinality(ActiveOn(d) \ TriggerExec) <= Cardinality(ActiveOn(d))
<1>1. IsFiniteSet(ActiveOn(d))
  BY ExecFinite, FS_Subset, ActiveOn(d) \subseteq Exec DEF ActiveOn
<1>. QED
  BY <1>1, FS_Subset, FS_CardinalityType, ActiveOn(d) \ TriggerExec \subseteq ActiveOn(d)

\* A create that has read room in the queue commits with that room still left.
LEMMA NextRoom ==
    ASSUME SingleReplica, TypeOK, RoomLeft, [Next]_vars
    PROVE  RoomLeft'
<1>1. ASSUME NEW r \in Replica, NEW e \in Exec, create_execution(r, e)
      PROVE  RoomLeft'
  <2>1. txn' = [txn EXCEPT ![r] = Block("create", {e}, "queued")] /\ status' = status
    BY <1>1 DEF create_execution, Open, rows
  <2>2. \A d : ActiveOn(d)' = ActiveOn(d)
    BY <2>1 DEF ActiveOn
  <2>3. \A q \in Replica : txn'[q].execs = {e}
    BY <2>1 DEF Block, TypeOK, SingleReplica
  <2>. QED
    BY <1>1, <2>2, <2>3 DEF create_execution, RoomLeft
<1>2. ASSUME NEW r \in Replica, txn'[r].op # "create" PROVE RoomLeft'
  BY <1>2 DEF RoomLeft, SingleReplica
<1>3. CASE UNCHANGED <<status, txn>>
  BY <1>3 DEF RoomLeft, ActiveOn
<1>4. ASSUME NEW r \in Replica, NEW op, NEW S, NEW to, op # "create",
             txn' = [txn EXCEPT ![r] = Block(op, S, to)]
      PROVE  RoomLeft'
  BY <1>2, <1>4 DEF Block, TypeOK
<1>5. ASSUME NEW r \in Replica, txn' = [txn EXCEPT ![r] = Idle] PROVE RoomLeft'
  BY <1>2, <1>5 DEF Idle, TypeOK
<1>6. ASSUME NEW r \in Replica, NEW e \in Exec, NEW s, NEW out,
             callback_execution(r, e, s, out)
      PROVE  RoomLeft'
  BY <1>2, <1>6 DEF callback_execution, Open, Block, TypeOK
<1>7. ASSUME NEW r \in Replica, fire_trigger_dispatch(r) PROVE RoomLeft'
  BY <1>4, <1>5, <1>7 DEF fire_trigger_dispatch
<1>. QED
  BY <1>1, <1>3, <1>4, <1>5, <1>6, <1>7
  DEF Next, Request, Commit, Publish, delete_execution, dispatch_execution,
      cancel_execution, timeout_loop, Open, fire_trigger, EndBlock, commit_create,
      commit_delete, commit_dispatch, commit_callback, commit_cancel,
      commit_timeout, write_status,
      reject_function, publish_skip, publish_ok, publish_fail, age_dispatched,
      age_running, crash, startup, kafka_stops, kafka_recovers, rows, vars

\* The commit of a create adds one row, and there was room for it.
LEMMA CreateLimit ==
    ASSUME TypeOK, BlockShape, FreshBlocks, RoomLeft, RequestLimit,
           NEW r \in Replica, commit_create(r)
    PROVE  RequestLimit'
<1> SUFFICES ASSUME NEW d \in Device
             PROVE  Cardinality(ActiveOn(d) \ TriggerExec)' <= MaxExecutionsPerDevice
  BY DEF RequestLimit
<1> DEFINE A == ActiveOn(d) \ TriggerExec
<1>1. PICK e \in Exec : txn[r].execs = {e}
  BY DEF commit_create, BlockShape, WellFormed
<1>2. status[e] = Absent /\ status' = [status EXCEPT ![e] = "queued"]
  BY <1>1 DEF commit_create, FreshBlocks, StillRead, TypeOK
<1>3. CASE DeviceOf[e] = d
  <2>1. A' \subseteq A \cup {e}
    BY <1>2 DEF ActiveOn, TypeOK
  <2>2. e \notin A
    BY <1>2 DEF ActiveOn, Absent, ACTIVE_STATUSES
  <2>3. Cardinality(A \cup {e}) = Cardinality(A) + 1 /\ IsFiniteSet(A \cup {e})
    BY <2>2, ActiveFinite, FS_AddElement
  <2>4. Cardinality(A') <= Cardinality(A) + 1 /\ Cardinality(A') \in Nat
    BY <2>1, <2>3, FS_Subset, FS_CardinalityType
  <2>5. d # NoDevice
    BY ExecutionAssumption DEF ConstantsAssumption
  <2>6. Cardinality(ActiveOn(d)) < MaxExecutionsPerDevice
    BY <1>1, <1>3, <2>5 DEF RoomLeft, commit_create
  <2>. QED
    BY <2>4, <2>6, ActiveFinite, Bounds
<1>4. CASE DeviceOf[e] # d
  <2>1. A' = A
    BY <1>2, <1>4 DEF ActiveOn, TypeOK
  <2>. QED
    BY <2>1 DEF RequestLimit
<1>. QED
  BY <1>3, <1>4

\* No step fills a queue past the limit with requests.
LEMMA NextLimit ==
    ASSUME TypeOK, BlockShape, FreshBlocks, RoomLeft, RequestLimit, [Next]_vars
    PROVE  RequestLimit'
<1>1. ASSUME NEW r \in Replica, commit_create(r) PROVE RequestLimit'
  BY <1>1, CreateLimit
<1>2. \A e \in Exec : LegalMove(e)
  BY NextLegal
<1>3. ASSUME \A e \in Exec \ TriggerExec : status[e] = Absent => status'[e] # "queued"
      PROVE  RequestLimit'
  <2> SUFFICES ASSUME NEW d \in Device
               PROVE  Cardinality(ActiveOn(d) \ TriggerExec)' <= MaxExecutionsPerDevice
    BY DEF RequestLimit
  <2> DEFINE A == ActiveOn(d) \ TriggerExec
  <2>1. A' \subseteq A
    BY <1>2, <1>3 DEF ActiveOn, LegalMove, transition_allowed, ALLOWED_TRANSITIONS,
       ACTIVE_STATUSES, Absent, Deleted
  <2>2. Cardinality(A') <= Cardinality(A) /\ Cardinality(A') \in Nat
    BY <2>1, ActiveFinite, FS_Subset, FS_CardinalityType
  <2>. QED
    BY <2>2, ActiveFinite, Bounds DEF RequestLimit
<1>4. CASE \A e \in Exec \ TriggerExec : status[e] = Absent => status'[e] # "queued"
  BY <1>3, <1>4
<1>5. ASSUME NEW r \in Replica, NEW e \in Exec, fire_trigger(r, e) PROVE RequestLimit'
  BY <1>4, <1>5 DEF fire_trigger, TypeOK, Absent
<1>6. ASSUME NEW r \in Replica, NEW v, status' = Written(r, status, v)
      PROVE  RequestLimit'
  BY <1>4, <1>6 DEF Written, Present, Exists, Absent, VALID_STATUSES, ACTIVE_STATUSES,
     TERMINAL_STATUSES
<1>7. CASE status' = status
  BY <1>4, <1>7 DEF Absent
<1>. QED
  BY <1>1, <1>5, <1>6, <1>7
  DEF Next, Request, Commit, Publish, create_execution, delete_execution,
      dispatch_execution, cancel_execution, callback_execution, timeout_loop, Open,
      commit_delete, commit_dispatch, commit_callback, commit_cancel,
      commit_timeout, write_status,
      fire_trigger_dispatch, reject_function, publish_skip, publish_ok, publish_fail,
      age_dispatched, age_running, crash, startup, kafka_stops, kafka_recovers, rows,
      vars

\* With one replica, requests never fill a device past its limit.
THEOREM RequestLimitHolds == ASSUME SingleReplica PROVE Spec => []RequestLimit
<1>1. Init => RoomLeft /\ RequestLimit
  <2>1. Init => \A d : ActiveOn(d) \ TriggerExec = {}
    BY DEF Init, ActiveOn, Absent, ACTIVE_STATUSES
  <2>. QED
    BY <2>1, FS_EmptySet, Bounds DEF Init, RoomLeft, RequestLimit, Idle
<1>2. TypeOK /\ RoomLeft /\ [Next]_vars => RoomLeft'
  BY NextRoom
<1>3. TypeOK /\ BlockShape /\ FreshBlocks /\ RoomLeft /\ RequestLimit /\ [Next]_vars
         => RequestLimit'
  BY NextLimit
<1>. QED
  BY <1>1, <1>2, <1>3, TypeCorrect, BlocksWellFormed, FreshBlocksHold, PTL DEF Spec

-----------------------------------------------------------------------------
(* The service implements the life cycle *)

\* The service starts where its life cycle starts.
LEMMA InitRefines == Init => Lifecycle!Init
BY DEF Init, Lifecycle!Init, Lifecycle!Absent, Absent

\* Writing one status over the rows of a fresh block is one Move.
LEMMA MoveRefines ==
    ASSUME TypeOK, NEW S \in SUBSET Exec, NEW to \in VALID_STATUSES,
           \A e \in S : transition_allowed(status[e], to),
           status' = [e \in Exec |-> IF e \in S THEN to ELSE status[e]],
           UNCHANGED envelopes,
           \A e \in Exec : (dispatched_at'[e] # "unset")
              <=> (dispatched_at[e] # "unset" \/ (e \in S /\ to = "dispatched"))
    PROVE  Lifecycle!Next
<1>1. Lifecycle!Move(S, to)
  BY DEF Lifecycle!Move, Lifecycle!transition_allowed, Lifecycle!ALLOWED_TRANSITIONS,
     transition_allowed, ALLOWED_TRANSITIONS
<1>2. to \in Lifecycle!VALID_STATUSES
  BY DEF Lifecycle!VALID_STATUSES, Lifecycle!ACTIVE_STATUSES,
     Lifecycle!TERMINAL_STATUSES, VALID_STATUSES, ACTIVE_STATUSES, TERMINAL_STATUSES
<1>. QED
  BY <1>1, <1>2 DEF Lifecycle!Next

\* Inserting a row is Accept.
LEMMA AcceptRefines ==
    ASSUME TypeOK, NEW e \in Exec, status[e] = Absent,
           status' = [status EXCEPT ![e] = "queued"],
           UNCHANGED <<dispatched_at, envelopes>>
    PROVE  Lifecycle!Next
BY DEF Lifecycle!Next, Lifecycle!Accept, Lifecycle!Absent, Absent, TypeOK

\* A stored record is Announce.
LEMMA AnnounceRefines ==
    ASSUME TypeOK, OnePublication, NEW m \in publishing,
           UNCHANGED <<status, dispatched_at>>,
           envelopes' = [envelopes EXCEPT ![m.exec] = @ + 1]
    PROVE  Lifecycle!Next
<1>1. m.exec \in Exec /\ m.attempt \in 1..KafkaRetryAttempts
  BY DEF TypeOK, Publication
<1>2. dispatched_at[m.exec] # "unset" /\ envelopes[m.exec] < KafkaRetryAttempts
  BY <1>1, Bounds DEF OnePublication, TypeOK
<1>3. Lifecycle!Announce(m.exec)
  BY <1>1, <1>2 DEF Lifecycle!Announce, TypeOK
<1>. QED
  BY <1>1, <1>3 DEF Lifecycle!Next

\* The commit of a block is one step of the life cycle, or none.
LEMMA CommitRefines ==
    ASSUME "dispatched" \notin CallbackStatuses, TypeOK, BlockShape, FreshBlocks,
           NEW r \in Replica, Commit(r)
    PROVE  Lifecycle!Next \/ UNCHANGED <<status, dispatched_at, envelopes>>
<1>0. StillRead(txn[r]) /\ WellFormed(txn[r]) /\ txn[r] \in Txn
  BY DEF FreshBlocks, BlockShape, TypeOK
<1>s. Present(r) \subseteq txn[r].execs /\ Present(r) \in SUBSET Exec
  BY <1>0 DEF Present, Txn
<1>1. CASE commit_create(r)
  <2>1. PICK e \in Exec : txn[r].execs = {e}
    BY <1>1, <1>0 DEF commit_create, WellFormed
  <2>2. status[e] = Absent /\ status' = [status EXCEPT ![e] = "queued"]
    BY <1>1, <1>0, <2>1 DEF commit_create, StillRead, TypeOK
  <2>. QED
    BY <1>1, <2>2, AcceptRefines DEF commit_create
<1>2. CASE commit_delete(r)
  <2>1. PICK e \in Exec : txn[r].execs = {e}
    BY <1>2, <1>0 DEF commit_delete, WellFormed
  <2>2. CASE Present(r) = {}
    BY <1>2, <2>2 DEF commit_delete, Written, TypeOK
  <2>3. CASE Present(r) = {e}
    <3>1. Exists(e) /\ status' = [status EXCEPT ![e] = Deleted]
      BY <1>2, <2>3 DEF commit_delete, Written, Present, TypeOK
    <3>2. Lifecycle!Remove(e)
      BY <1>2, <3>1 DEF commit_delete, Lifecycle!Remove, Lifecycle!Deleted, Deleted,
         Exists, Lifecycle!VALID_STATUSES, Lifecycle!ACTIVE_STATUSES,
         Lifecycle!TERMINAL_STATUSES, VALID_STATUSES, ACTIVE_STATUSES,
         TERMINAL_STATUSES
    <3>. QED
      BY <3>2 DEF Lifecycle!Next
  <2>. QED
    BY <1>s, <2>1, <2>2, <2>3
<1>3. CASE commit_dispatch(r)
  <2>1. \A e \in Present(r) : transition_allowed(status[e], "dispatched")
    BY <1>3, <1>0, <1>s DEF commit_dispatch, StillRead, WellFormed
  <2>2. "dispatched" \in VALID_STATUSES
    BY DEF VALID_STATUSES, ACTIVE_STATUSES
  <2>. QED
    BY <1>3, <1>s, <2>1, <2>2, MoveRefines DEF commit_dispatch, Written
<1>4. CASE commit_callback(r)
  <2>1. /\ \A e \in Present(r) : transition_allowed(status[e], txn[r].to)
        /\ txn[r].to \in VALID_STATUSES
        /\ txn[r].to # "dispatched"
    BY <1>4, <1>0, <1>s, ExecutionAssumption
    DEF commit_callback, StillRead, WellFormed, ConstantsAssumption
  <2>. QED
    BY <1>4, <1>s, <2>1, MoveRefines DEF commit_callback, Written
<1>5. CASE commit_cancel(r) \/ commit_timeout(r)
  <2>1. /\ \A e \in Present(r) : transition_allowed(status[e], txn[r].to)
        /\ txn[r].to \in {"cancelled", "timeout"}
    BY <1>5, <1>0, <1>s DEF commit_cancel,
      commit_timeout, write_status, StillRead, WellFormed, Overdue,
       transition_allowed, ALLOWED_TRANSITIONS
  <2>2. txn[r].to \in VALID_STATUSES /\ txn[r].to # "dispatched"
    BY <2>1 DEF VALID_STATUSES, TERMINAL_STATUSES
  <2>. QED
    BY <1>5, <1>s, <2>1, <2>2, MoveRefines DEF commit_cancel,
      commit_timeout, write_status, Written
<1>6. CASE fire_trigger_dispatch(r)
  BY <1>6 DEF fire_trigger_dispatch, rows
<1>. QED
  BY <1>1, <1>2, <1>3, <1>4, <1>5, <1>6 DEF Commit

\* Every step of the service is a step of the life cycle or a stutter.
LEMMA NextRefines ==
    ASSUME "dispatched" \notin CallbackStatuses, TypeOK, BlockShape, FreshBlocks,
           OnePublication, [Next]_vars
    PROVE  [Lifecycle!Next]_(Lifecycle!vars)
<1>0. SUFFICES Lifecycle!Next \/ /\ UNCHANGED <<status, envelopes>>
                                 /\ \A e \in Exec : (dispatched_at'[e] # "unset")
                                                <=> (dispatched_at[e] # "unset")
  BY DEF Lifecycle!vars
<1>1. ASSUME NEW r \in Replica, Commit(r)
      PROVE  Lifecycle!Next \/ UNCHANGED <<status, dispatched_at, envelopes>>
  BY <1>1, CommitRefines
<1>2. ASSUME NEW r \in Replica, NEW e \in Exec, fire_trigger(r, e)
      PROVE  Lifecycle!Next
  BY <1>2, AcceptRefines DEF fire_trigger, FreshId
<1>3. ASSUME NEW m \in publishing, Publish(m)
      PROVE  Lifecycle!Next \/ UNCHANGED <<status, dispatched_at, envelopes>>
  <2>1. /\ UNCHANGED <<status, dispatched_at>>
        /\ \/ envelopes' = envelopes
           \/ envelopes' = [envelopes EXCEPT ![m.exec] = @ + 1]
    BY <1>3 DEF Publish, reject_function, publish_skip, publish_ok, publish_fail, rows
  <2>. QED
    BY <2>1, AnnounceRefines
<1>4. ASSUME NEW e \in Exec, age_dispatched(e)
      PROVE  /\ UNCHANGED <<status, envelopes>>
             /\ \A f \in Exec : (dispatched_at'[f] # "unset")
                               <=> (dispatched_at[f] # "unset")
  BY <1>4 DEF age_dispatched, TypeOK
<1>. QED
  BY <1>1, <1>2, <1>3, <1>4
  DEF Next, Request, create_execution, delete_execution, dispatch_execution,
      cancel_execution, callback_execution, timeout_loop, Open, age_running, crash,
      startup, kafka_stops, kafka_recovers, rows, vars

\* One replica whose callers report no "dispatched" implements the life cycle:
\* through crashes, outages and retries every step of the service is a step of
\* ExecutionLifecycle or changes nothing it sees.
THEOREM Refinement ==
    ASSUME SingleReplica, "dispatched" \notin CallbackStatuses
    PROVE  Spec => ImplementsLifecycle
<1>1. TypeOK /\ BlockShape /\ FreshBlocks /\ OnePublication /\ [Next]_vars
         => [Lifecycle!Next]_(Lifecycle!vars)
  BY NextRefines
<1>. QED
  BY <1>1, InitRefines, TypeCorrect, BlocksWellFormed, FreshBlocksHold,
     OnePublicationHolds, PTL
  DEF Spec, ImplementsLifecycle, Lifecycle!Spec

=============================================================================
