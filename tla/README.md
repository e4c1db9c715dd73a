# Formal models of the Nexora platform

TLA+ models of the parts of this repository whose correctness depends on the
order in which processes act, the TLC runs that check them on small instances
and the TLAPS proofs that carry the most important results to every instance.
Paths below are relative to the repository's root.

Every module is translated from the code. Where the code and a document of the
repository disagree the model follows the code, and a run whose expected result
is a violation shows the disagreement (see *Disagreements with the documents*, section 3.5).

## 1. The system

Nexora manages edge devices. A client asks for an *execution* (a command, or a
function to install or invoke) on a device; the request becomes a row of MySQL,
then an envelope on a Kafka topic, then an entry of a Redis cache, then a message
on a WebSocket, and the agent's report travels back as an HTTP callback that moves
the row.

```
client --HTTP--> execution-service --Kafka execution.dispatched--> nexora-edge
                     |  MySQL                                        |  Redis
                     ^                                               v
                     +------------- HTTP callback ------------- nexora-agent
```

### 1.1 Components

| Component | State it keeps | Operations | Talks to |
|---|---|---|---|
| execution-service (`services/execution-service`, 2 replicas) | the `executions` table (MySQL); the Kafka producer of each process | create, get, list, delete, dispatch, callback, cancel, install/invoke function, time-out loop, event triggers, runbooks, canary rollouts, fleet deploys, drift | Kafka (produces `execution.*`, consumes trigger topics), plugin-service and device-service over HTTP |
| nexora-edge gateway (`services/nexora-edge`) | dispatch cache and sessions (Redis, or local dicts), `_ws_connections` per replica, consumer position | Kafka consumer, WebSocket tunnel with replay, Pub/Sub listener, REST session register and heartbeat, HTTP deliver with retries | Kafka, Redis, agents |
| nexora-agent (`packages/nexora-agent`) | SQLite offline queue, credentials, telemetry buffer | tunnel client, control messages, executor, pairing, telemetry flush, queue drain | gateway, execution-service, device-service |
| nexora-runtime (`packages/nexora-runtime`) and nexora-function-runtime (`services/nexora-function-runtime`) | installed WebAssembly functions and their metadata | install, invoke, list, remove | agent |
| device-service (`services/device-service`) | devices, discovery requests, shadows, consents and their trail, telemetry, objectives (SLO) and their violations | announce/poll/claim/reject, desired/reported/delta, register/heartbeat/delete, grant and revoke consents, ingestion and SLO evaluation | Kafka, MySQL |
| fleet-service (`services/fleet-service`) | fleets and their members | CRUD, membership, health and telemetry of a fleet | device-service; execution-service reads the members |
| plugin-service (`services/plugin-service`) | plugins and functions from draft to deprecated | create, update, activate, deprecate, security scan, delete | execution-service reads it |
| rbac-service (`services/rbac-service`) | a decision cache (Redis), an audit file | authorize | whoever asks |
| mqtt-bridge, zigbee-bridge, matter-bridge (`services/*-bridge`) | broker link, device maps, commissioning sessions | register devices, translate commands, states and telemetry | Kafka, device-service, execution-service |
| dns-service, network-service, webservice-service | one table each, the audit trail | changes with their audit line and event | MySQL, Kafka |
| ai-pipeline-service (`services/ai-pipeline-service`) | insights, risk scores, function drafts | analyse events, acknowledge/resolve/enrich, score devices and fleets, draft functions | Kafka, device-service, a language model |
| libraries/common | the audit trail (a file of JSON lines); a cache, an outbox and an event bus no service imports | append and read audit events; helpers | services |
| nexora-device-emulator (`services/nexora-device-emulator`) | one board: its registration, the execution it works on | register, poll the list of executions and `deliver`, or the tunnel; work, report | gateway, execution-service, device-service |
| nexora-ui, SDK, scripts, infrastructure | — | front end, client, deployment | — |

`PROJECT.json` lists all of them under `components`, those not modelled with the
reason.

### 1.2 How they interact, and what is hard

* **Replicas share rows without locks.** A handler of execution-service is a
  `SELECT`, a test in Python and an `UPDATE`; inside one process no `await`
  separates them, but two replicas run against the same table
  (`services/execution-service/k8s/deployment.yaml`), and the row has no version.
* **Commit first, publish later.** `dispatch_execution` commits `dispatched`, then
  fetches and checks the plugin, then tries Kafka a few times; each of the later
  steps can fail with the row already moved, and the process can die in between.
* **Kafka repeats.** A send whose answer is lost is retried, so an envelope can be
  on the topic twice; the gateway's consumer auto-commits, so a record held at a
  crash is read again or lost.
* **Awaits between a read and a write.** Every Redis call of the gateway is an
  `await`; sessions and dispatches are read whole and written back whole.
* **Old and new tunnels overlap.** An agent reconnects when it sees its socket
  dead; the gateway may notice later, and the old handler's `finally` block then
  runs after the new handler has registered.
* **Pub/Sub keeps nothing.** A push published before the tunnel subscribed is gone.
* **Fallback store.** On any Redis error each helper silently uses the process's
  own dict, so one logical store becomes several.
* **Time.** Rows time out, sessions and cached dispatches expire, policy answers and
  the window of repeated events pass.
* **Handlers overlap in one process.** device-service and plugin-service read with one
  `await` (or in one replica) and commit with another: a handler decides on what it
  read, and its `UPDATE` names the row by id and the columns it changed.
* **Two files, or two commits, for one fact.** A function is a module and its metadata,
  a credential an NV index or a file, a batch of telemetry its samples and then its
  violations; a process may stop in between.
* **Lists that are walked.** A rollout, a deploy, a runbook and a health report read the
  members once and then make calls, with the members, devices and rows moving under
  them.
* **Links that drop.** A bridge's MQTT or Matter connection may be gone when a command
  or a report is sent, and nobody raises.

### 1.3 What makes each component correct

* execution-service: status moves follow the table; a final status is final; one
  row per idempotency key; the queue limit; nothing is published that was not
  dispatched, and not more often than Kafka is retried; the time-out loop ends what
  is overdue and only that; no row stays dispatched or running for good.
* nexora-edge: a cached dispatch is not lost; it reaches a connected agent; it goes
  to its own device only; what was acknowledged is not offered again; the socket
  table and the `ws_connected` flag agree with the open tunnels.
* nexora-agent: a dispatch is acknowledged only after it was executed; a result or a
  sample is confirmed, held or given up after a bounded number of posts, never
  silently lost; the row never says what the command did not do; nothing blocks the
  offline queue for good.
* discovery: an approved announcement names a device of the owner it names, an
  announcement pairs one device, and an answer is final, wherever handlers did not race.
* shadow: the delta is the difference of desired and reported, and heals after updates
  that overlapped; an event is of the version it names.
* devices, consents, telemetry: a consent in force is its owner's, the trail accounts for
  it; a violation is one of a stored sample, and no batch leaves one out.
* credentials and function stores: what is loaded, listed or run is what was last saved
  or installed, whole, through crashes.
* fleets, rollouts, plugins: both sides of the membership agree; results are of the
  devices they name; a rollout stops where it must; what is dispatched is what was
  activated.
* bridges and emulator: a report is of a command that was sent or work that was done, and
  is not made twice; registries hold a device once.
* audit trail, policy cache, insights: the trail is in order and lacks only what a crash
  or a refusal explains; an answer is not older than its entry; repeated events escalate.

## 2. Modules

| Module | What it is |
|---|---|
| `ExecutionStatus` | the status table of `core/config.py`, shared by the modules that read it |
| `ExecutionLifecycle` | the abstract specification: what the pipeline promises about one execution |
| `Execution` | execution-service: rows, session blocks, time-out loop, publication, faults |
| `MCExecution`, `MCExecutionSingle` | small deployments of `Execution` for TLC |
| `ExecutionProofs` | proofs about any number of replicas, and about one, among them the refinement of `ExecutionLifecycle` |
| `EdgeGateway` | nexora-edge: consumer, stores, tunnels, sessions, deliver, faults |
| `MCEdgeGateway`, `MCEdgeGatewayOutage` | small deployments of `EdgeGateway` for TLC |
| `EdgeGatewayProofs` | type correctness, sockets, own dispatches, nothing lost, nothing left connected, acknowledged stays deleted |
| `Agent` | nexora-agent: tunnel, control messages, offline queue, telemetry, faults |
| `MCAgent` | a small agent for TLC |
| `AgentProofs` | type correctness, the bound on posts, rows tell the truth, no result and no sample is lost |
| `Discovery` | device-service: the pairing of hardware |
| `Shadow` | device-service: desired, reported, delta and version of a device |
| `DeviceRecords` | device-service: rows of devices, their owners and consents |
| `Telemetry` | device-service: batches, objectives, violations and the assistant |
| `Credentials` | nexora-agent: credentials in a TPM or a file |
| `Fleet`, `FleetRollouts` | fleet-service; rollouts, deploys, runbooks and drift of execution-service |
| `Plugins` | plugin-service: from draft to deprecated |
| `FunctionRuntime`, `FunctionStore` | nexora-function-runtime; the store of nexora-runtime |
| `DeviceServices`, `DeviceProofs` | `Shadow`, `Credentials`, `DeviceRecords` and `Telemetry` together, and their proofs and those of `Discovery` |
| `FunctionServices`, `FunctionProofs` | `Plugins`, `FunctionRuntime` and `FunctionStore` together, and their proofs |
| `DataServices`, `FleetProofs` | all the modules from `Discovery` to `FunctionStore` together; the proofs of fleets and rollouts and of what the modules have in common |
| `MCServices` | the instances of `DataServices`, small, for TLC |
| `BridgeCommand` | what the three bridges share: an execution's record becomes a command |
| `MqttBridge`, `ZigbeeBridge`, `MatterBridge` | the bridges |
| `Bridges`, `BridgeProofs` | the three together, and their proofs and those of the emulator's board |
| `Emulator` | nexora-device-emulator |
| `Resources` | network-, webservice- and dns-service with the audit trail and their events |
| `PolicyCache` | rbac-service: the cache beside the policy |
| `Insights` | ai-pipeline-service: insights, risk scores, drafts |
| `PlatformServices`, `ServiceProofs` | `Resources`, `PolicyCache` and `Insights` together, and their proofs |
| `MCPlatform` | the bridges, the board and the services of `PlatformServices`, small, for TLC |

### 2.1 `Execution`

**State.** `status`, `dispatched_at`, `running_at` and `result` are the columns of
a row that the properties tell apart; a timestamp is its age as the time-out loop
sees it (`unset`, `recent`, `expired`), and `result` is the final report whose output
the row stores. `txn[r]` is the session block replica `r` is in. `publishing` holds
the dispatch handlers that have committed and not answered yet, with the number of
the Kafka attempt they are at. `envelopes` counts the copies of each envelope on
`execution.dispatched`. `proc` says whether a process is up and has a producer.

**Steps.** A request is two actions: the `SELECT` with every test and early return
of the handler (`create_execution`, `dispatch_execution`, `callback_execution`,
`cancel_execution`, `delete_execution`, `timeout_loop`), and the commit
(`commit_create`, ...). Between the two another *replica* may do anything; the same
replica may not, since the block holds no `await` (`Free`). An `UPDATE` of a row
somebody has deleted matches nothing and SQLAlchemy rolls the block back
(`Present`). The `UNIQUE` constraint on the key is tested by the database at the
commit. `fire_trigger` inserts its row with its own commit and then calls
`dispatch_execution`. After its commit a dispatch ends in `reject_function` (plugin
or capability checks failed), `publish_skip` (no producer since startup),
`publish_ok` or `publish_fail`, whose record may have been stored although the
answer was lost.

**Abstractions.** The wording of answers, audit events and events other than
`execution.dispatched` are left out: of this repository only ai-pipeline-service
reads those. The runtime and capability checks of a function are one
nondeterministic refusal. A rejected request changes nothing and is no step.
Trigger topics are consumed but nothing in the repository publishes to them; the
trigger is modelled as an event that may come at any time.

**Constants that stand for the deployment.** `CallbackStatuses` are the statuses
the callers report. The agent, the bridges and the emulator of this repository
report `running`, `succeeded` and `failed`; the endpoint accepts every status of
the table, and one of them breaks `TimedRows` (section 3.5).

### 2.2 `EdgeGateway`

**State.** There is a store for Redis and one for each replica's local dicts
(`Place`): `cached` and `attempts` are the dispatches in it, `session` the
`ws_connected` flag of each session (`none` when there is no session). `Home(g)` is
the store a helper of replica `g` uses now. `ws` is `_ws_connections`; `conn[c]` is the
handler of a tunnel (where it is, which session it read, the keys it still has to
replay, its Pub/Sub listener and whether its socket is alive); `wire[c]` are the
control messages pushed to it and not acknowledged, which merges the Pub/Sub queue
and the socket. `request[h]` is the handler of an HTTP deliver call, `beat[g]` that of
a REST heartbeat. `taken`, `handed`, `failed` and `expired` are history variables.

**Steps.** One action is the code from one Redis `await` to the next. On the local
dicts those awaits do not really suspend; letting others run there too only adds
behaviours, so what holds of the model holds of the code. `receive_ack`,
`receive_heartbeat` and `tunnel_breaks` are the agent and the network; an agent opens
a tunnel only when its last one is dead.

**Faults.** `crash` forgets the process's dicts and sockets, and the record its
consumer held is read again or not; records that were processed but not yet
committed are covered by `MaxCopies`, the copies of an envelope the group may read.
`redis_stops` makes every Redis call fail: helpers fall back, replays abort,
listeners end. Redis keeps its data over an outage.

**Abstractions.** One REST heartbeat at a time per replica. Records without an id,
metrics, the message built for the agent, execution results and the listing
endpoints are left out.

### 2.3 `Agent`

**State.** `tunnel` is the coroutine `run`: its step, the ids its drain has read and has
yet to send, the answer of the post it has just made. `up` is its WebSocket, `wire` the
control messages on it that the agent has not read, `acks` those the gateway has not
read. `task[t]` is a handler of a control message; `live` says whether the socket it was
started with is still the open one. `queue` holds the rows of the SQLite table with
their ids and attempts (`sends`, the posts of an entry, is a history variable), `nextId`
its `AUTOINCREMENT` counter. `buffer` and `flight` are the telemetry buffer and the batch
a flush has taken. `row`, `received` and `pending` stand for execution-service,
device-service and the gateway.

**Steps.** One action is the code between two awaits that suspend. Handlers of control
messages are tasks of their own: they run beside the tunnel, beside each other and
longer than the socket they came from. A drain reads its entries once
(`start_drain`), then posts and settles them one by one (`drain`, `settle`) while
handlers and flushes go on adding entries; a post and its settlement are two steps
because a crash between them repeats the post. A request is `ok`, `refused` (any
other status, nothing changes) or gets no answer, in which case it may have been
served or not. `flushed` follows the code in putting a batch without an answer into
the buffer *and* the queue.

**Faults.** `tunnel_breaks` loses what is on the socket. `crash` leaves only the SQLite
file; systemd starts the agent again (`Restart=always`). It need not be an accident:
the unit sets `WatchdogSec=90` and nothing in the agent ever sends `WATCHDOG=1`.

**Abstractions.** Commands, installs and invocations are one nondeterministic result:
the executor turns every failure and its own time-out into `failed`. Pings and the REST
heartbeat change nothing of the agent. Errors of SQLite itself and entries of an
unknown kind, which nothing enqueues, are left out. A cancellation of the row is a
time-out with another name.

### 2.4 device-service and the agent's credentials

**Discovery.** `request` is `device_discoveries` (a deadline is the flag `late`), `paired`
the devices claims have created, `handed` the tokens polls were answered. A handler is a
`..._read` (the `SELECT` with its checks, which also remembers what it read) and a commit;
`raced` collects the requests that changed in between, and the properties are stated for
them and for the others apart. `expire_overdue` is the commit of polls, lists and claims
that found an announcement past its deadline; `poll_approved` answers a poll.

**Shadow.** `_get_or_create_shadow` reads or inserts, `Commit` writes the columns the handler
changed over whatever the row holds then (`Conflict`: two inserts), `Publish` re-reads the
row and sends the delta the handler had computed. `fresh` says whether the last commit found
what its handler had read. `update_desired`, `update_reported` and the heartbeat are one
action that differs in the side it writes.

**DeviceRecords.** Creating, self-registration, heartbeats, updates and deletes of a device,
granting and revoking consents with the trail. Deleting a device deletes its row alone;
`reborn` marks ids that were deleted and registered again, which come back with the consents
and the shadow of before.

**Telemetry.** A batch goes through `ingest_telemetry`, `evaluate_slos` and
`publish_violations`, each with its commit, while objectives are created, changed and
deleted; `lose` is a process that dies in between. `slo_assistant`, `latest_telemetry` and
`severity` are functions of the tables.

**Credentials.** A save is `undefine_space`, `define_space`, `nv_write` in a TPM, and
`_file_save`, `file_rename` in a file when there is none or it fails; the process may die
between any two. `load` answers from the TPM first and from the file when reading raises.

### 2.5 Fleets, functions and plugins

**Fleet.** Handlers of fleet-service do not await inside their session, so each change is one
step. `fleet_health` reads the members, `_fetch_device` hears of one device (or fails), and
`summary` and `fleet_telemetry_latest` are functions of what was heard. The statistics of a
fleet's readings are stated by how many readings lie on either side of a value (`median2` is
twice the median), which is what a sorted list says.

**FleetRollouts.** `op[o]` is a call under way: the rings of devices it has read, a list of
results for each ring it went into, the row it has created and not dispatched yet. A ring is a
slice of the list of members, from `cursor`, the sum of the sizes before it; a runbook's steps
are rings of one. `create_step` and `dispatch_step` are
separate, because the awaits between let rows be cancelled and other calls run; a refused
create or dispatch is an error result, without the row's id, as in the code. `deploy_step` is
the loop of `deploy_function_to_fleet` with the `TypeError` of section 3.5.
`_compute_canary_rings`, `issues`, `drift_score` and `fleet_deploy_status` are functions. `row` is
what `Execution` keeps, reduced to a status.

**Plugins.** A handler of a replica reads, decides and commits its columns (`block`); `raced`
collects the rows two blocks overlapped on, `activated` what an activation saw, `envelope` what
executions were dispatched with.

**FunctionRuntime** has no overlapping calls (its handlers never await), but each writes or
unlinks two files: `fails` is an error of a write, `stops` a process that ends between two,
`_reload_installed` the start. `engine` says whether wasmtime is installed: it raises on a file
that was half written, the stub in its place only looks whether the file is there.
**FunctionStore** has overlapping calls too: an install awaits
its download, an invocation reads the module in a thread; `loop` is the call that holds the
event loop between its two writes.

### 2.6 Bridges, emulator and the services around the core

**BridgeCommand** is the path of a record in every bridge: `consume`, `callback_running`, the
bridge's own sending, `callback_final`; `CommandsLost` is a restart that reads records again or
never. **MqttBridge** handles each message in a task of its own, **ZigbeeBridge** one after the
other, and both register devices at device-service with an answer that may be lost
(`agent_register`). **MatterBridge** numbers nodes and keeps sessions in memory; the owner starts
and polls a session through device-service (`matter_commission`, `matter_commission_status`),
and `told` is what they were last told of it. Each attribute change is sent by a task of its
own, so updates may arrive in another order. The bridge is modelled without an internal key:
with one it refuses both calls, for device-service sends none, and no session starts.

**Emulator** works on one execution at a time, polled (`_list_executions`, `deliver`) or pushed
(`control`), with a handler for each (`execute`, `callback_final` and `execute_ws`,
`callback_final_ws`); `report_raised` is the call whose refusal raises and ends the work, which
is all that keeps a polling board from running an execution again.

**Resources** is a change of a port, web service or record: commit, audit line, event, in one
handler; `audited` is false for dns-service, which keeps no trail. **PolicyCache** keeps with
each time what the policy said then (`since`). **Insights** awaits a summary between counting
similar insights and inserting one (`worker`), keeps what operators do, and computes scores:
a fleet's computation (`fleet_task`) asks for its devices one after the other and holds their
scores with the sum and the worst of them; what Python's `round` makes of a tie is open.

## 3. What is checked

### 3.1 Execution

| Run | Deployment | Shows |
|---|---|---|
| `execution_single` | 1 replica: 2 requests, limit 1, 2 Kafka attempts, 1 crash, 1 outage; and 1 replica: a request beside a trigger's row | `TypeOK`, `LegalMoves`, `TimeoutsAreDue`, `OutputMatchesStatus`, `OneDispatch`, `RequestLimit`; the service implements `ExecutionLifecycle` (`ImplementsLifecycle`, and with a trigger `TriggersImplement`) |
| `execution_pair` | 2 replicas, 2 requests with one key | `TimedRows` and `OneRowPerKey` survive lost updates |
| `execution_live` | 2 replicas, the row of 1 event trigger, 2 attempts, 1 crash, 1 outage, fairness | `RowsAreResolved`, `DeletedStaysDeleted` |
| `execution_race` | 2 replicas, 1 request | violation of `LegalMoves` |

*Why these bounds.* A lost update needs two blocks on one row, hence two replicas and
one execution; a race for a key needs two requests. The limit needs a request that
fills it and one that is refused. One crash and one outage reach every combination of a
producer that is linked, unlinked or gone; two attempts distinguish the last retry from
the others. `execution_live` takes a trigger's row, which starts dispatching in the
process that creates it and so can lose that process in between. The two scenarios of
`execution_single` have variables of their own and only one of them moves, so that each
stays small.

*Fairness.* `FairSpec` assumes that an event loop runs what is ready (commits, the
time-out task, which sleeps a fixed interval in a `while True` whose body catches its
exceptions), that a crashed pod is restarted by Kubernetes and that clocks advance.
It assumes nothing of clients, agents, callbacks or the broker.

### 3.2 EdgeGateway

| Run | Deployment | Shows |
|---|---|---|
| `edge_outage`: `Outage` | 1 replica, 1 tunnel, 1 deliver call, 1 Redis outage | `TypeOK`, `OwnDispatchesOnly`, `GatewaysAccount` |
| `edge_outage`: `Devices` | 1 replica, 2 devices, 1 tunnel, 1 Redis outage | the same |
| `edge_outage`: `Deliver` | 1 replica, 1 tunnel, 2 deliver calls | the same |
| `edge_outage`: `Overlap` | 2 replicas, 2 tunnels of one device | the same |
| `edge_crash` | 2 replicas, 1 tunnel, 2 copies, 1 crash, REST sessions, fairness | `NoStaleSocket`, `NothingLost`, `ReplayReaches`, `HandedStaysDeleted` |
| `edge_flag` | 2 replicas, 2 tunnels | violation of `FlagTracksTunnel` |
| `edge_push` | 1 replica, 1 tunnel, fairness | violation of `PushReaches` |

`GatewaysAccount` says that until Redis has failed or a replica has died no dispatch is lost
(`NothingLost`) and the last tunnel of a device to end leaves its session disconnected
(`ClosedIsOffline`). `edge_outage` has four deployments in one instance
(`MCEdgeGatewayOutage`). Its constraint `SmallDeployment` keeps TLC to the states that are
within one of them, so the state space is the sum of theirs rather than the product;
`Overlap` has a device and a dispatch of its own, so that no other deployment goes on from its
states.

*Why these bounds.* Tunnel ids are used again once their handler has ended, so two of
them give any number of overlapping reconnects of one agent. Two replicas
distinguish the process that consumes a record from the one that owns the socket.
Two deliver calls race with each other, with the acknowledgement and with both times
to live. `Devices` has two devices because a message at the wrong device needs
two. `edge_outage` leaves out REST sessions, and `GatewaysAccount` ends with the first outage
or crash, because with them `ClosedIsOffline` does not hold; and `edge_crash` leaves out
deliver calls because with them `HandedStaysDeleted` does not (section 3.5).

*Fairness.* Event loops run what is ready and pods are restarted; agents need not
connect or acknowledge, Redis need not come back, and whether Kafka can be reached
when a replica starts is not assumed. The liveness properties are disjunctions with
"the tunnel breaks" and "the entry is gone": the agent may always leave.

### 3.3 Agent

| Run | Deployment | Shows |
|---|---|---|
| `agent_offline` | 1 dispatch pushed at most twice, 2 handlers, 1 sample, 2 attempts, drains of 1 entry, 1 crash or unanswered request, fairness | `TypeOK`, `ResultsKept`, `SamplesAccount`, `RowsTellTheTruth`, `RetryLimit`, `QueueDrains` |

*Why these bounds.* `MaxPushes` 2 and two handlers let a duplicate run beside the
original and end differently. A drain of one entry with two or three in the queue
leaves entries behind (`_MAX_ATTEMPTS` is 10 and a drain takes 50 in the code; the
smallest values with the same cases are 2 and 1). `MaxTroubles` is shared by requests
that get no answer and crashes; refused requests and broken tunnels are not bounded.
With a budget of two the run does not end within its time; the proofs of section 4 have
no such bound.

*Fairness.* `QueueDrains` assumes only that the event loop runs the ready tunnel
coroutine (`WF` of `TunnelStep`), and states "if the tunnel is opened again and again".
It does not assume that a request ever succeeds. The load is finite, so the property
says that the queue becomes empty once the load ends.

### 3.4 The other services

`MCServices` and `MCPlatform` hold one instance of each module and a variable `focus` that
says which of them moves in a behaviour; the state space is the sum, not the product, of
theirs. Modules that share state (`Fleet` and `FleetRollouts`, `BridgeCommand` and a bridge)
move together. A module may have several values of `focus`: `mqtt` registers the devices it
hears of and `strict` does not, `matter` has two commissionings and `watcher` one with its
attribute changes, and `Insights` is looked at by what arrives (`events`), what operators do
(`operators`), scores (`risk`) and drafts (`drafts`), the middle two from a table that holds
insights already. Names that no expression tells apart are permuted (`Symmetry`). As one
module moves in a behaviour they share their values: in `services` the `x` are writers,
objectives, replicas and calls, the `y` metrics, artifacts and owners, the `z` samples and
requests; in `platform` the `q` are requests, messages and handlers of events. `services` stops
changing objectives once every batch has ended (`Unread`), and a rollout starts with a fleet of
one member or of two (`InitWith`), a state that `create_fleet` and `add_fleet_member` reach; the
theorems of section 4 start from the empty tables and have no such bound.

| Run | Property | Of | Says |
|---|---|---|---|
| `services` | `PairingIsSafe`, `AnswersAreFinal` | 2 announcements of one hardware, 2 owners, 4 overlapping handlers | section 1.3, with and without races |
| | `ShadowIsCoherent` | 1 key, 2 values, 2 writers, versions to 3 | `DeltaHeals`, `EventsAreCurrent` |
| | `RecordsAccount` | 1 device, 2 users, 1 subject, 3 handlers; 2 samples, 2 metrics, 2 objectives, times 0 and 1 | `ConsentsAreTheOwners`, `TrailAccounts`, `ViolationsAccount` |
| | `LoadsLastSaved` | 2 pairings, 2 faults, with and without a TPM | what `load` answers after crashes |
| | `ReportsAreRight` | 1 fleet, 2 devices, readings 1 to 3; violations of 2 objectives | `AggregateIsRight`, `AssistantIsRight` |
| | `RolloutsAccount` | 2 calls, 3 rows, 2 devices, lists of 1 and 2 ring sizes | `FleetsAreCovered` (the rings take the members they must), `ResultsAccount`, `StopsAfterFailure`, `SidesAgree`, `HealthAdds`, `DriftIsTrue` |
| | `DispatchedAsActivated` | 1 function, 2 artifacts, 2 replicas, scans required | envelopes carry what was activated |
| | `FunctionsAreWhole` | 1 function, 2 artifacts, 2 faults; 3 calls, 1 crash | `DiskIsTruth`, `UninstalledStaysAway`, `RunsWhole` |
| `deploy` | `DeployReaches` | the rollouts alone | violation (section 3.5) |
| `platform` | `BridgesAccount` | 1 execution, 1 crash, 2 messages; 2 names and addresses; 2 commissionings, and 1 whose node changes 3 times | the bridges' types, `ReportsAreTrue`, `KnownIsKept`, `RegistryIsRight`, `SessionsAccount`, `CalmShadow` |
| | `BridgesCommand` | the same | each bridge implements `BridgeCommand` |
| | `RunsOnce` | 2 executions, received again once, 2 boots | a board runs an execution once |
| | `ServicesAccount` | 1 resource, 2 tenants, 2 calls, 3 commits, 1 crash; 1 key, 2 requests, times to 3; 3 insights | the services' types, `TrailIsWhole`, `EventsAreOfChanges`, `AnswersAreRecent`, `EscalationIsRight`, `ScoresAreRight` |

`services` has `TypesOK`, the types of all nine of its modules in every state; `platform` has
`TypeOK` of the board, and the types of the others are part of `BridgesAccount` and
`ServicesAccount`.

*Why these bounds.* Every race here is one of two handlers over one
row, and three or four of them let a third see what the two left. Two artifacts tell an old
version from a new one. Two devices are enough for a call that stops half way, and the two
lists of ring sizes for members that are left over and for a ring that is cut. `RingsCover`,
`AggregateIsRight` and `ScoresAreRight` check functions against what their results must satisfy over every input
of the instance.

No liveness is stated of these modules: what must happen eventually there depends on
callers and devices, which no document obliges to come back.

### 3.5 Disagreements with the documents

Shown by a run whose expected result is a violation:

* `execution_race` — ADR-0001: "A state machine enforces valid transitions". Two
  replicas can commit over each other; a final status is overwritten.
* `edge_flag` — ADR-0006: `ws_connected` is true while a connection is open; the old
  tunnel's handler clears it when it ends after the new one has started.
* `edge_push` — the docstring promises that the owning instance picks a push up; one
  between replay and subscription is lost until the next reconnect.
* `deploy` — "Deploy (install) a function on all devices in a fleet." The loop calls
  `dispatch_execution` without its `request`; the `TypeError` is not an `HTTPException`, the
  call ends at the first row it creates and the other members get none. No test of the
  repository calls that endpoint. With `stop_on_failure` the cancels lack it too.

The models contain, and TLC has shown on the way, some more. They have no run of
their own, but each explains a premise or a bound above:

*The pipeline.*

* the runbook (`docs/deployment/execution-pipeline-runbook.md:32-33`) says that executions
  stay queued while Kafka is down; a dispatch call answers 200 and moves the row;
* a trigger inserts its row past the per-device limit (`fire_trigger`), and no service
  publishes the topics triggers wait for (`docs/adr/0005-faas-edge-native.md:188` lists them
  as future work);
* a replica started while Kafka is down never publishes again (`startup`,
  `publish_skip`), nor does a gateway started then ever read its topic
  (`EdgeGateway!startup`), although the runbook says that both recover;
* a callback may report `dispatched` on a queued row; the row then has no
  `dispatched_at` and is never timed out (why `TimedRowsHold` has its premise);
* a REST heartbeat writes back the `ws_connected` flag it read before the tunnel
  closed, and a crash leaves the flag until the session expires (`ClosedIsOffline` is checked
  without both);
* a deliver call in progress caches again a dispatch that has been acknowledged
  meanwhile, which breaks `HandedStaysDeleted`;
* a deliver call reads the session once, so its retries cannot see a device that
  registers meanwhile;
* without Redis the old tunnel's handler removes the new tunnel's socket from
  `_ws_connections`, and nothing can be pushed to it;
* when the agent's `running` report is lost, the row stays `dispatched`, the table
  refuses `succeeded` and `failed`, and the queue drops the result after its last
  attempt although execution-service was reachable all the time;
* "replayed in order" (`offline_queue.py:4`): the next entries are posted after one that
  was refused, which is posted again at the next connection;
* a control message that arrives twice is executed twice, concurrently;
* a batch of telemetry whose answer was lost is stored up to three times (the original
  post, the buffer and the queue), the premise in `SamplesAccount`.

*Services and devices.*

* two claims that overlap create two devices, the second of which the request names;
  `raced` in `Discovery` is there for it;
* the agent's announce lacks the `hardware_id` the endpoint requires, and waits for a
  `denied` no poll answers;
* deleting a device leaves its consents and its shadow, and an id registered again gets
  them back (`reborn`);
* an objective is evaluated as it is when the batch is evaluated, not when it was stored;
* an index that was undefined and not written is loaded as "not paired", whatever the file
  holds (`troubled` in `Credentials`);
* `deploy_status` counts rows, not devices, and a stale install is aged by its newest row
  even if that one failed;
* a result of a rollout or a runbook is an error without the row its step has created,
  which goes on by itself;
* MQTT: a command published without a connection is dropped and its execution reported
  `succeeded`; the loop ends with its first connection; an id device-service did not
  give is answered 404 at each batch, and another device is registered; state messages
  register devices with automatic registration off;
* Zigbee: a renamed device is registered again under its new name;
* Matter: each command's log call raises, so that every execution is reported `failed`
  although its command went out; device-service sends no `X-Internal-Key`
  (`api/discovery.py:381`), so a bridge with the key `docker-compose.dev.yml:573` gives it
  answers 403 and no owner can commission anything; node numbers start at 1 again after a restart, and an older
  attribute may overwrite a newer one (`mixed`);
* the board with a tunnel works on executions whose row has ended, and one that cannot
  register its session registers another device;
* the key of the policy cache does not name the roles;
* acknowledging a resolved insight opens it again, and a risk score looks at the newest
  fifty insights, resolved ones included.

### 3.6 Mutants

Each property of a passing run has, in `PROJECT.json`, a mutated definition in the same
module as the original (comment "Mutant: ...") that TLC refutes under the run's own
configuration: a dropped transition test, an off-by-one in the limit or in the retries, a
publication before the commit, a forgotten timestamp, a missing `UNIQUE`, a handler that
keeps its socket entry, a refused report that counts as sent, a delta computed before the
merge, a file written in place, a message handled in a task of its own. Some modules keep
further mutants: a property of section 3.4 is a conjunction, and they are those its other
conjuncts were tried with (`claim_half`, `Event_old_version`, `register_agent_takes`,
`revoke_consent_untold`, `list_device_fleets_all`, `summary_of_two`, `rewrite_meta_not`,
`verified_never`, `write_module_in_place`).

## 4. What is proved

A theorem holds for every value of the constants that satisfies the assumptions of its
module: `ExecutionAssumption` and `ExecFinite`, `GatewayAssumption`, `AgentAssumption`,
`DeviceAssumption`, `FunctionAssumption`, `FleetAssumption`, `BridgeAssumption`,
`ServicesAssumption` and the board's `Bounds`. They say that bounds are numbers, that limits which the code compares with
are at least one where it needs them to be, and that a marker (`None`, `NoCall`, ...) is none
of what it marks; TLC evaluates them in every run. All proofs have one shape: an inductive
invariant made of named parts, a lemma for each group of steps, and a theorem that draws the
property from it.

`DeviceServices`, `FunctionServices`, `DataServices`, `Bridges` and `PlatformServices` put
instances of modules that share no state beside each other, so that a property of several (`RecordsAccount`,
`BridgesAccount`, ...) can be stated once and used both by a run and by a theorem.

### 4.1 The pipeline

**Any number of replicas (`ExecutionProofs`).**
`TypeCorrect`; `TimedRowsHold` (assuming that no caller reports `dispatched`; without
that premise it does not hold, section 3.5); `DeletedStaysDeletedHolds`;
`OneRowPerKeyHolds`. `TimedRows` is not inductive alone: it needs `BlockShape`, that
every open block is one some handler opens. `DeletedStaysDeleted` needs `OwnIds`: the
id of a row being created is in nobody else's block, because `commit_create` is the
one commit that does not look whether its row exists.

**One replica (`ExecutionProofs`, premise `SingleReplica`).** The key is
`FreshBlocks`: what a block read is still true when it commits. It turns each test of
a handler into a fact about the state the commit finds, and gives `LegalMovesHold`,
`TimeoutsAreDueHold` and `OutputMatchesStatusHolds`. `OneDispatchHolds` needs
`OnePublication`: a row has at most one publication, it has left `queued`, and its
envelopes are fewer than the attempt it is at. `RequestLimitHolds` needs `RoomLeft`,
that the room the handler counted is still there at the insert, and the library's
facts on finite sets. `Refinement` shows that every step of the service is a step of
`ExecutionLifecycle` or a stutter under the mapping `released` = "the row has a
dispatch timestamp"; it assumes nothing of triggers, so that `TriggersImplement` is an instance
of it as `ImplementsLifecycle` is. `execution_race` shows why the premise is there.

**The gateway (`EdgeGatewayProofs`).** `TypeCorrect` for any
number of replicas, tunnels, devices and calls, with the strengthening that a consumer
at work holds a record and a handler at work has a device. `NoStaleSocketHolds` and
`OwnDispatchesOnlyHolds` are conjuncts of one invariant `Sockets`, strengthened with
`GoneIsSilent`: a tunnel whose handler has left its loop is down and carries nothing,
so its id can be used again. `NothingLostHolds` assumes that Redis is enabled and does
not fail (`SharedStore`), which makes `Shared` invariant (nobody works on local dicts),
and `Kept` (whoever is about to drop an entry has reported it).
`HandedStaysDeletedHolds` assumes that nobody calls the deliver endpoint: a call in
progress writes its copy back (section 3.5). `GatewaysStayAccounted` assumes that Redis is
enabled and that no REST call writes sessions, and lets Redis fail and replicas die: its
invariant `Undisturbed` speaks of the time before that, in which nobody works on local dicts
(`Calm`). It adds `ConnectedIsHeld` to `Kept`: a session that says connected belongs to a
device of which some tunnel has written it and has yet to mark it disconnected, so that the
last tunnel to end leaves none behind. The converse is false (`edge_flag`): a tunnel may be
open and its session marked by an older one.

**The agent (`AgentProofs`).** `TypeCorrect` for any number of
dispatches, handlers and faults, with `TaskHolds`: a handler at work has a dispatch, and
one that has executed has a result. `PostsAreBounded` needs `Ids`: the ids of the queue
are below the counter and pairwise different, so that the entry a drain has posted is
the entry it settles. `TruthIsTold` (with `AckedAreExecuted`, that a dispatch is
acknowledged only after it was executed) needs `Sources`, that every report in a handler or
in the queue carries a result its command has had, `RowsAreExecuted`, and `Confirmed`:
while a post that was answered with success waits to be settled, the row still has that
status, since no report and no time-out leaves a final one. `NoResultIsLost` follows
each step that takes a result from one place to the place it puts it. So does
`SamplesAreAccounted` for samples, with `SentArrived` (the entry a drain is about to delete
has arrived); that none is stored twice while every request is answered and nothing crashes
needs `InOnePlace` (a sample is in the buffer, in the batch being flushed or in one entry)
and `NotYetStored` (and has not arrived while it is there).

### 4.2 Devices and what they run

**Pairing (`DeviceProofs`).** For any announcements, owners and overlapping handlers:
`TypeCorrect`, `ApprovalsAreBackedHolds`, `UnracedPairingHolds`, together
`PairingIsSafeHolds`, and `AnswersAreFinalHolds`. The invariant adds what the handlers hold:
`ReadsArePending` (a handler changes only requests it read as announced), `CallShape`,
`IdsAreFresh` (the id an announce is going to insert is in no table and nobody else's) and
`OnePending` (two pending requests of the hardware that nobody raced are the same one). The
last turns on `announce`: what its read missed was inserted since, or is raced now.

**What is kept of a device (`DeviceProofs`).** `ShadowStaysCoherent` needs that there is one
row at most and `ReadersAreBehind`: a handler that is still alone finds the row as it read it.
`LastSavedIsLoaded` needs `SealedIsLatest` (without trouble a TPM holds what was saved last
unless a save has just undefined it) and `FiledIsLatest` (without a TPM the file is replaced
as a whole). `RecordsStayAccounted` rests on three invariants: `OwnersInv` (a grant under way
was allowed to its owner or an operator; an id with a consent has been used, so that a device
created under it later is `reborn`), `TrailInv` (a call that has not ended has left neither a
line nor a consent, and what it revokes was active when it looked, whence the cardinalities of
lines and consents move together) and `ViolationsInv` (what a batch has still to find broken is
broken by its own sample). `AssistantStaysRight` adds `Dated`: a violation has the metric and
the time of a stored sample, and there are finitely many.

**Fleets and rollouts (`FleetProofs`).** `RingsAlwaysCover` is a fact about the function that
computes the rings: for any number of devices, any sizes and any `max_rings` they are disjoint
runs of the list that leave out none they should not. `RolloutsStayAccounted` rests on
`RolloutsInv`: what a call is whatever became of its rows (`CallInv`: its results follow its
members, only the last rings are empty, while it goes it has a member to go on with), what it
has of its rows (`CallFollows`: the row it is about to dispatch is of the member it is at and
named by no result), that rows are numbered as they were created, each by a call
(`RowsFollow`), and that a health report holds only answers of members it read (`FleetInv`
with `ReportsAreHeard`). One lemma (`AdvancedFollows`) says what noting a result does to a
call, and the steps of rollouts, invocations, runbooks and deploys are cases of it.
`ReportsStayRight` proves the aggregate of a fleet's readings against what it must satisfy, and
joins it with the assistant; `TypesStay` has the types of all the data services.

Counting and adding up is where these proofs would want induction over data, which the prover
does not have (below). The models state sums as cardinalities, and the proofs take a least or
greatest counterexample (`LeastNumber`, `GreatestNumber`, from the library's fact that the
natural numbers are well founded) in its place.

**Functions (`FunctionProofs`).** `StoreIsWhole` needs that the call which holds the event loop
between its two writes is an install that found the directory (`HolderInstalls`), that without
a directory there are no files (`FilesAreInDirectories`) and that metadata is behind its module
only while the loop is held, or since a crash (`MetadataFollows`). `RuntimeKeepsItsFiles`
follows the handler at work: what it has done already (`HalfDone`), and that nobody else has
left the function half done (`OthersAgree`). `EnvelopesAreOfActivations` needs that a handler
whose row nobody wrote since may still do what it decided (`BlocksAreSound`), and that a row
out of the drafts keeps the artifact its activation found. `FunctionsStayWhole` joins the first
two.

### 4.3 The services around the core

**Bridges (`BridgeProofs`).** `CommandsAreTrue`: a command goes out once for each time its
record is read, and what is to be reported is what it came to. The three refinements
(`MqttImplements`, `ZigbeeImplements`, `MatterImplements`, together `BridgesImplement`) map
each step of a bridge to the step of `BridgeCommand` it is, or to a stutter; Matter needs in
addition that its log call always raises. `BridgesStayTrue` adds an invariant per bridge:
`KnownInv` (an id the MQTT bridge knows was registered); `RegistryInv` with `OneAtATime` (the
name a registration is awaited for is still unknown, since no other message is handled),
`DevicesAreCounted` and `AddressesFollow`; `SessionsInv` (node numbers and devices are given
out once, and the devices that no session tells of are those the code forgot); `CalmInv`
(without a lost or overtaken update one is under way, that of the last change, or none and the
shadow shows it).

**The board (`BridgeProofs`, premise `Bounds`: the bounds are numbers and allow a run).**
`TypeCorrect` and `RunsOnceHolds`. `StartedOnce` says that a polling board starts work only
as the row leaves `dispatched`, to which no row comes back; `ReportsFollowWork` that what
the handler is about to report, and what has been reported or acknowledged, was done; and
`RoomToRun` that the bound on pushed runs does not stop work that has started.

**Trails, policy and insights (`ServiceProofs`).** `TrailsAndEventsHold`: a handler that
publishes has a change of its own which has gone out less often than its attempt says, and
which is among those that had ended for no other change (`CallsInFlight`); the trail lacks two
changes for each crash at most, one of them on credit while a line without its end is the last
one (`LinesAreOfChanges`). `AnswersStayRecent`: what a handler holds was the policy's answer when
it began (`HandlersAreRecent`), what an entry holds at a time it can outlive by no
more than its time to live and the calls that made it (`EntriesAreRecent`), and it is in the
audit file, lost with a crash or about to be written (`Logged`). `InsightsStayRight`: since the
loop has one event at a time, an analysis that waits for its summary is still escalated by all
the insights there are (`AnalysesAreRight`) when it is inserted; a fleet's sum and worst score
lie between its scores times their number (`FleetTaskIsRight`), which rounding twice keeps
(`RoundedBetween`). `ServicesStayTrue` joins the three.

### 4.4 What is only model-checked

Every invariant that a passing run checks is stated by a theorem, and so is every action
property and every refinement, as far as their premises go: those about one replica, about a
deployment without REST sessions or deliver calls, or about a board within its bounds hold
there. What is left to TLC:

* `RowsAreResolved`, `ReplayReaches` and `QueueDrains`: liveness under fairness and `ENABLED`
  are outside what the prover does;
* that the disagreements of section 3.5 happen: a violation is a behaviour, and TLC shows it;
* that an instance of a run (`MCExecutionSingle`, `MCPlatform`, `MCServices`, ...) interleaves
  its modules rightly: the theorems are about the modules' own specifications, and a behaviour
  of an instance is one of the module that moves, or (where it starts with tables that hold
  something) the rest of one.

No operator is recursive: what a loop of the code counts, adds up or picks is stated by what it
must return, as a cardinality or a choice.

## 5. What is not modelled, and the plan

Not modelled:

* `libraries/common`'s cache, event bus and outbox: no service imports them;
* nexora-ui, the SDK, infrastructure and scripts: nothing in them decides state;
* authentication and the tenant filters of lists, the strings of policy rules, the
  results of WebAssembly modules, prompts and answers of the language model: pure functions of
  a request or libraries;
* list endpoints, health, metrics and the operators' aggregates: they read and change nothing;
* CRUD of triggers and the names of fleets: a single row with one writer;
* the control messages the gateway builds, `execution.result`, the mock server of
  matter-bridge, the emulator's pairing page.

Planned, in order:

1. `Delivery`: `Execution`, `EdgeGateway` and `Agent` composed over Kafka, tunnel and
   callbacks, each reduced to what crosses the boundary, to show that it implements
   `ExecutionLifecycle`, or where it does not. Until then each of the three models the other
   two as an environment that may do anything their code allows.
2. A runbook's and a rollout's rows as rows of `Execution` itself, in place of a status.
