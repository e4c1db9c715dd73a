------------------------------ MODULE MqttBridge ------------------------------
(***************************************************************************)
(* mqtt-bridge: messages of devices become calls of device-service, each   *)
(* in a task of its own, and executions become messages on a device's      *)
(* topic.  The ids on the topics are the devices' own; device-service      *)
(* gives every registration a new id, so only a device that was given its  *)
(* Nexora id beforehand is found there under the id it uses.               *)
(***************************************************************************)
EXTENDS BridgeCommand, FiniteSets

CONSTANTS
    Id,             \* device ids on the topics
    Native,         \* those device-service has, to begin with
    Message, NoTask,
    MaxCreated,     \* devices registered for an id; a bound
    AutoRegister    \* MQTT_AUTO_REGISTER

VARIABLES
    link,       \* the MQTT connection
    known,      \* _known
    exists,     \* the ids device-service has a device for
    created,    \* how often an id was registered
    task,       \* the tasks of messages
    forgotten   \* ids dropped from _known although device-service had them; history

mqttVars == <<link, known, exists, created, task, forgotten>>

Kind == {"register", "telemetry", "state"}
Task == [id: Id, kind: Kind, pc: {"register", "post", "again"}]

TypeOK ==
    /\ link \in {"starting", "up", "over"}
    /\ known \subseteq Id /\ exists \subseteq Native /\ forgotten \subseteq Id
    /\ created \in [Id -> Nat]
    /\ task \in [Message -> Task \cup {NoTask}]

Init ==
    /\ link = "starting"
    /\ known = {} /\ forgotten = {}
    /\ exists = Native
    /\ created = [i \in Id |-> 0]
    /\ task = [m \in Message |-> NoTask]

-----------------------------------------------------------------------------
(* The loop _run_mqtt_loop: it connects once, and an error ends it. *)

connect ==
    /\ link = "starting"
    /\ link' \in {"up", "over"}
    /\ UNCHANGED <<known, exists, created, task, forgotten, commandVars>>

connection_lost ==
    /\ link = "up"
    /\ link' = "over"
    /\ UNCHANGED <<known, exists, created, task, forgotten, commandVars>>

-----------------------------------------------------------------------------
(* Messages *)

\* A message's task runs up to its first request.  Without auto-registration the
\* telemetry of an unknown device is ignored; its state is not.
handle_message(m, i, kind) ==
    /\ link = "up"
    /\ task[m] = NoTask
    /\ (kind = "telemetry" /\ ~AutoRegister) => i \in known
    /\ task' = [task EXCEPT ![m] =
                  [id |-> i, kind |-> kind,
                   pc |-> IF kind = "register" \/ i \notin known THEN "register" ELSE "post"]]
    /\ UNCHANGED <<link, known, exists, created, forgotten, commandVars>>

\* agents/register gives the device a new id and its answer arrives, or is lost, or nothing
\* is created.
agent_register(i, made, answered) ==
    /\ answered => made
    /\ made => created[i] < MaxCreated
    /\ created' = [created EXCEPT ![i] = IF made THEN @ + 1 ELSE @]
    /\ known' = IF answered THEN known \cup {i} ELSE known
    /\ UNCHANGED <<link, exists, forgotten, commandVars>>

\* The device asks for it, known or not.
_handle_register(m, made, answered) ==
    /\ task[m] # NoTask /\ task[m].kind = "register"
    /\ agent_register(task[m].id, made, answered)
    /\ task' = [task EXCEPT ![m] = NoTask]

\* Whatever came of it, the message's own request follows, unless it was made already.
ensure_registered(m, made, answered) ==
    LET t == task[m] IN
    /\ t # NoTask /\ t.kind # "register" /\ t.pc \in {"register", "again"}
    /\ agent_register(t.id, made, answered)
    /\ task' = [task EXCEPT ![m] = IF t.pc = "again" THEN NoTask ELSE [t EXCEPT !.pc = "post"]]

\* The request of a state message: nobody looks at its answer.
_handle_state(m) ==
    /\ task[m] # NoTask /\ task[m].pc = "post" /\ task[m].kind = "state"
    /\ task' = [task EXCEPT ![m] = NoTask]
    /\ UNCHANGED <<link, known, exists, created, forgotten, commandVars>>

\* The request of a telemetry message.  404 makes the bridge forget the id and register it
\* again; of any other answer, and of none, it only makes a note.
_handle_telemetry(m, found) ==
    LET t == task[m] IN
    /\ t # NoTask /\ t.pc = "post" /\ t.kind = "telemetry"
    /\ ~found => t.id \notin exists
    /\ known' = IF found THEN known ELSE known \ {t.id}
    /\ forgotten' = IF t.id \in (known \ known') \cap exists THEN forgotten \cup {t.id}
                                                             ELSE forgotten
    /\ task' = [task EXCEPT ![m] = IF found THEN NoTask ELSE [t EXCEPT !.pc = "again"]]
    /\ UNCHANGED <<link, exists, created, commandVars>>

device_deleted(i) ==
    /\ exists' = exists \ {i}
    /\ UNCHANGED <<link, known, created, task, forgotten, commandVars>>

-----------------------------------------------------------------------------
(* Commands *)

\* Without a connection _mqtt_publish returns as if it had published.
_mqtt_publish(e, out, ok) ==
    /\ IF link = "up" THEN ok => out ELSE ok /\ ~out
    /\ Sent(e, out, ok)
    /\ UNCHANGED mqttVars

command_step(e) ==
    /\ \/ consume(e, Target(e) \in known)
       \/ callback_running(e) \/ callback_final(e) \/ row_ends(e)
    /\ UNCHANGED mqttVars

\* The registry is in memory, and so is every task.
crash ==
    /\ CommandsLost
    /\ link' = "starting" /\ known' = {}
    /\ task' = [m \in Message |-> NoTask]
    /\ UNCHANGED <<exists, created, forgotten>>

Next ==
    \/ connect \/ connection_lost \/ crash
    \/ \E i \in Id : device_deleted(i)
    \/ \E m \in Message, i \in Id, k \in Kind : handle_message(m, i, k)
    \/ \E m \in Message, b1, b2 \in BOOLEAN :
         _handle_register(m, b1, b2) \/ ensure_registered(m, b1, b2)
    \/ \E m \in Message : _handle_state(m)
    \/ \E m \in Message, b \in BOOLEAN : _handle_telemetry(m, b)
    \/ \E e \in Execution : command_step(e)
    \/ \E e \in Execution, b1, b2 \in BOOLEAN : _mqtt_publish(e, b1, b2)

Spec == CommandInit /\ Init /\ [][Next]_<<commandVars, mqttVars>>

-----------------------------------------------------------------------------

\* An id the bridge knows and device-service has is not forgotten while the process lives,
\* however its messages overlap and whichever requests fail; and an id is known only after
\* a registration that was answered.
KnownIsKept ==
    /\ forgotten = {}
    /\ \A i \in known : created[i] > 0
=============================================================================
