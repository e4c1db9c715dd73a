----------------------------- MODULE ZigbeeBridge -----------------------------
(***************************************************************************)
(* zigbee-bridge: the messages of zigbee2mqtt are handled one at a time,   *)
(* devices are registered under their friendly name, and executions become *)
(* messages on a device's "set" topic.  A device of device-service is the  *)
(* number of its registration.                                             *)
(***************************************************************************)
EXTENDS BridgeCommand, FiniteSets, Sequences, Functions

CONSTANTS
    Name, Ieee,     \* friendly names and addresses
    Lists,          \* what bridge/devices and a join event may name: sequences of both
    Message, NoTask,
    MaxDevices      \* registrations; a bound

VARIABLES
    link,           \* whether _mqtt_client is set
    devices,        \* the devices registered, by name, in order
    name_to_id,     \* _name_to_id, 0 for none
    ieee_to_id,     \* _ieee_to_id
    task,           \* messages being handled
    excused         \* of each name: removals, and registrations whose answer was lost

zigbeeVars == <<link, devices, name_to_id, ieee_to_id, task, excused>>

Registered(n) == {d \in DOMAIN devices : devices[d] = n}

Task == [todo: Seq(Name \X Ieee), asked: BOOLEAN, posts: 0..2]

\* What the constants have to be for the proofs.
ConstantsFit == Lists \subseteq Seq(Name \X Ieee)

TypeOK ==
    /\ link \in BOOLEAN
    /\ devices \in Seq(Name)
    /\ name_to_id \in [Name -> 0..Len(devices)]
    /\ ieee_to_id \in [Ieee -> 0..Len(devices)]
    /\ task \in [Message -> Task \cup {NoTask}]
    /\ excused \in [Name -> Nat]

Init ==
    /\ link = FALSE
    /\ devices = <<>>
    /\ name_to_id = [n \in Name |-> 0]
    /\ ieee_to_id = [a \in Ieee |-> 0]
    /\ task = [m \in Message |-> NoTask]
    /\ excused = [n \in Name |-> 0]

-----------------------------------------------------------------------------
(* The loop _mqtt_loop *)

connect ==
    /\ ~link
    /\ link' = TRUE
    /\ UNCHANGED <<devices, name_to_id, ieee_to_id, task, excused, commandVars>>

\* The error is raised where the loop waits for the next message.
connection_lost ==
    /\ link
    /\ \A m \in Message : task[m] = NoTask
    /\ link' = FALSE
    /\ UNCHANGED <<devices, name_to_id, ieee_to_id, task, excused, commandVars>>

\* Mutant: messages are handled in tasks of their own.
receive_in_tasks(m, todo, posts) ==
    /\ link
    /\ task[m] = NoTask
    /\ task' = [task EXCEPT ![m] = [todo |-> todo, asked |-> FALSE, posts |-> posts]]

\* The loop awaits the handling of one message before it takes the next.
receive(m, todo, posts) ==
    /\ link
    /\ \A other \in Message : task[other] = NoTask
    /\ task' = [task EXCEPT ![m] = [todo |-> todo, asked |-> FALSE, posts |-> posts]]

-----------------------------------------------------------------------------
(* Messages *)

\* bridge/devices, or an event device_joined or device_interview_successful.
handle_devices(m, list) ==
    /\ receive(m, list, 0)
    /\ UNCHANGED <<link, devices, name_to_id, ieee_to_id, excused, commandVars>>

\* A state message: telemetry, if one of its keys is a metric, and the shadow.
_process_device_state(m, n, posts) ==
    /\ name_to_id[n] # 0
    /\ receive(m, <<>>, posts)
    /\ UNCHANGED <<link, devices, name_to_id, ieee_to_id, excused, commandVars>>

\* An event device_leave or device_removed.
remove_device(m, n) ==
    /\ link
    /\ \A other \in Message : task[other] = NoTask
    /\ name_to_id[n] # 0
    /\ name_to_id' = [name_to_id EXCEPT ![n] = 0]
    /\ ieee_to_id' = [a \in Ieee |-> IF ieee_to_id[a] = name_to_id[n] THEN 0 ELSE ieee_to_id[a]]
    /\ excused' = [excused EXCEPT ![n] = @ + 1]
    /\ UNCHANGED <<link, devices, task, commandVars>>

\* A request of a state message was answered, or was not: the bridge makes a note at most.
post(m) ==
    /\ task[m] # NoTask /\ task[m].posts > 0
    /\ task' = [task EXCEPT ![m] = IF @.posts = 1 THEN NoTask ELSE [@ EXCEPT !.posts = 1]]
    /\ UNCHANGED <<link, devices, name_to_id, ieee_to_id, excused, commandVars>>

Rest(t) == IF Len(t.todo) = 1 THEN NoTask
           ELSE [t EXCEPT !.todo = Tail(t.todo), !.asked = FALSE]

\* The next device of a list: a known name is skipped, another is registered.
_process_device_info(m) ==
    LET t == task[m] IN
    /\ t # NoTask /\ t.todo # <<>> /\ ~t.asked
    /\ task' = [task EXCEPT ![m] = IF name_to_id[Head(t.todo)[1]] # 0 THEN Rest(t)
                                   ELSE [t EXCEPT !.asked = TRUE]]
    /\ UNCHANGED <<link, devices, name_to_id, ieee_to_id, excused, commandVars>>

\* agents/register made a device and its answer arrived, or was lost, or none was made.
register_zigbee_device(m, made, answered) ==
    LET t == task[m]
        n == Head(t.todo)[1]
        a == Head(t.todo)[2]
    IN
    /\ t # NoTask /\ t.asked
    /\ answered => made
    /\ made => Len(devices) < MaxDevices
    /\ devices' = IF made THEN Append(devices, n) ELSE devices
    /\ IF answered
         THEN /\ name_to_id' = [name_to_id EXCEPT ![n] = Len(devices')]
              /\ ieee_to_id' = [ieee_to_id EXCEPT ![a] = Len(devices')]
         ELSE UNCHANGED <<name_to_id, ieee_to_id>>
    /\ excused' = IF made /\ ~answered THEN [excused EXCEPT ![n] = @ + 1] ELSE excused
    /\ task' = [task EXCEPT ![m] = Rest(t)]
    /\ UNCHANGED <<link, commandVars>>

-----------------------------------------------------------------------------
(* Commands *)

\* A client names a device that exists.
consume_loop(e) ==
    /\ Target(e) \in DOMAIN devices
    /\ consume(e, Target(e) \in Range(name_to_id))
    /\ UNCHANGED zigbeeVars

\* Without a client _mqtt_publish returns as if it had published.
_mqtt_publish(e, out, ok) ==
    /\ IF link THEN ok => out ELSE ok /\ ~out
    /\ Sent(e, out, ok)
    /\ UNCHANGED zigbeeVars

\* Mutant: the last report is written over whatever the row is.
command_step_overwriting(e) ==
    /\ \/ callback_running(e) \/ row_ends(e)
       \/ /\ command[e] \in {"succeeded", "failed"}
          /\ command' = [command EXCEPT ![e] = "done"]
          /\ row' = [row EXCEPT ![e] = command[e]]
          /\ UNCHANGED <<sent, dropped, raised, crashes>>
    /\ UNCHANGED zigbeeVars

command_step(e) ==
    /\ callback_running(e) \/ callback_final(e) \/ row_ends(e)
    /\ UNCHANGED zigbeeVars

crash ==
    /\ CommandsLost
    /\ link' = FALSE
    /\ name_to_id' = [n \in Name |-> 0]
    /\ ieee_to_id' = [a \in Ieee |-> 0]
    /\ task' = [m \in Message |-> NoTask]
    /\ UNCHANGED <<devices, excused>>

Next ==
    \/ connect \/ connection_lost \/ crash
    \/ \E m \in Message, list \in Lists : handle_devices(m, list)
    \/ \E m \in Message, n \in Name, k \in 1..2 : _process_device_state(m, n, k)
    \/ \E m \in Message, n \in Name : remove_device(m, n)
    \/ \E m \in Message : post(m) \/ _process_device_info(m)
    \/ \E m \in Message, b1, b2 \in BOOLEAN : register_zigbee_device(m, b1, b2)
    \/ \E e \in Execution : consume_loop(e) \/ command_step(e)
    \/ \E e \in Execution, b1, b2 \in BOOLEAN : _mqtt_publish(e, b1, b2)

Spec == CommandInit /\ Init /\ [][Next]_<<commandVars, zigbeeVars>>

-----------------------------------------------------------------------------

\* However join events and device lists follow each other, a name gets a second device only
\* after it was removed, after the answer to its registration was lost, or after a restart;
\* and an address leads to a device only while a name does.
RegistryIsRight ==
    /\ \A n \in Name : Cardinality(Registered(n)) <= 1 + excused[n] + crashes
    /\ \A a \in Ieee : ieee_to_id[a] = 0 \/ ieee_to_id[a] \in Range(name_to_id)
=============================================================================
