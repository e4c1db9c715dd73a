----------------------------- MODULE BridgeProofs -----------------------------
(***************************************************************************)
(* What the three bridges promise, for any number of records, devices,     *)
(* messages and crashes: each does with its commands what BridgeCommand    *)
(* allows, a row is what its command came to, and the registry of each     *)
(* follows the devices behind it.  And of the emulated board, for every    *)
(* set of executions and every bound: a board that polls works on each     *)
(* execution at most once.                                                 *)
(***************************************************************************)
EXTENDS Bridges, Emulator, FiniteSetTheorems, TLAPS

-----------------------------------------------------------------------------
(* Commands *)

\* A command goes out once for each time its record is read, and what is to be reported
\* of it is what it came to.
CommandInv ==
    /\ command \in [Record -> Commands!Progress]
    /\ reported \in [Record -> Commands!VALID_STATUSES]
    /\ sent \in [Record -> Nat]
    /\ dropped \subseteq Record /\ raised \subseteq Record
    /\ crashes \in Nat
    /\ \A e \in Record :
         /\ command[e] = "succeeded" => sent[e] > 0 \/ e \in dropped
         /\ command[e] = "failed" => e \in raised
         /\ command[e] \notin {"succeeded", "failed", "done"} => sent[e] <= crashes
    /\ Commands!ReportsAreTrue

\* A record that was not read yet has come to nothing.
LEMMA CommandsBegin ==
    ASSUME Commands!CommandInit PROVE CommandInv
BY DEF Commands!CommandInit, CommandInv, Commands!ReportsAreTrue, Commands!Progress, Commands!VALID_STATUSES, Commands!ACTIVE_STATUSES,
   Commands!TERMINAL_STATUSES

\* A report writes its status or nothing.
LEMMA ReportWrites ==
    ASSUME reported \in [Record -> Commands!VALID_STATUSES], NEW e \in Record,
           NEW s \in Commands!VALID_STATUSES, Commands!Report(e, s) \/ UNCHANGED reported
    PROVE  reported' \in [Record -> Commands!VALID_STATUSES] /\ (reported' = reported \/ reported' = [reported EXCEPT ![e] = s])
BY DEF Commands!Report

\* Whatever a bridge does with its commands, its reports stay true.
LEMMA CommandsStep ==
    ASSUME CommandInv, [Commands!CommandNext]_(Commands!commandVars) PROVE CommandInv'
<1> USE DEF CommandInv, Commands!ReportsAreTrue, Commands!Progress
<1>1. {"running", "succeeded", "failed", "cancelled", "timeout"} \subseteq Commands!VALID_STATUSES
  BY DEF Commands!VALID_STATUSES, Commands!ACTIVE_STATUSES, Commands!TERMINAL_STATUSES
<1>2. ASSUME NEW e \in Record, NEW mine \in BOOLEAN, Commands!consume(e, mine) PROVE CommandInv'
  BY <1>2 DEF Commands!consume
<1>3. ASSUME NEW e \in Record, Commands!callback_running(e) PROVE CommandInv'
  <2>1. reported' \in [Record -> Commands!VALID_STATUSES] /\ (reported' = reported \/ reported' = [reported EXCEPT ![e] = "running"])
    BY <1>1, <1>3, ReportWrites DEF Commands!callback_running
  <2> QED
    BY <1>3, <2>1 DEF Commands!callback_running
<1>4. ASSUME NEW e \in Record, NEW out \in BOOLEAN, NEW ok \in BOOLEAN, Commands!Sent(e, out, ok)
      PROVE  CommandInv'
  BY <1>4 DEF Commands!Sent
<1>5. ASSUME NEW e \in Record, Commands!callback_final(e) PROVE CommandInv'
  <2>1. reported' \in [Record -> Commands!VALID_STATUSES] /\ (reported' = reported \/ reported' = [reported EXCEPT ![e] = command[e]])
    BY <1>1, <1>5, ReportWrites DEF Commands!callback_final
  <2> QED
    BY <1>5, <2>1 DEF Commands!callback_final
<1>6. ASSUME NEW e \in Record, Commands!row_ends(e) PROVE CommandInv'
  <2>1. PICK s \in {"cancelled", "timeout"} : reported' = [reported EXCEPT ![e] = s]
    BY <1>6 DEF Commands!row_ends
  <2> QED
    BY <1>1, <1>6, <2>1 DEF Commands!row_ends
<1>7. ASSUME Commands!CommandsLost PROVE CommandInv'
  <2>1. PICK more \in SUBSET {e \in Record : command[e] # "offered"} :
          command' = [e \in Record |-> IF e \in more THEN "offered"
                                          ELSE IF command[e] = "offered" THEN "offered"
                                          ELSE "done"]
    BY <1>7 DEF Commands!CommandsLost
  <2>2. /\ command' \in [Record -> {"offered", "done"}]
        /\ crashes' = crashes + 1 /\ UNCHANGED <<reported, sent, dropped, raised>>
    BY <1>7, <2>1 DEF Commands!CommandsLost
  <2>3. \A e \in Record : sent[e] <= crashes + 1
    OBVIOUS
  <2> QED
    BY <2>2, <2>3
<1>8. ASSUME UNCHANGED Commands!commandVars PROVE CommandInv'
  BY <1>8 DEF Commands!commandVars
<1> QED
  BY <1>2, <1>3, <1>4, <1>5, <1>6, <1>7, <1>8 DEF Commands!CommandNext

\* Rows are what their commands came to, whatever a bridge does beside them.
THEOREM CommandsAreTrue == Commands!CommandSpec => []Commands!ReportsAreTrue
<1>1. CommandInv => Commands!ReportsAreTrue
  BY DEF CommandInv
<1> QED
  BY <1>1, CommandsBegin, CommandsStep, PTL DEF Commands!CommandSpec

\* A step of mqtt-bridge does with the commands what any bridge may.
LEMMA MqttCommands ==
    ASSUME [Mqtt!Next]_<<Mqtt!commandVars, Mqtt!mqttVars>>
    PROVE  [Commands!CommandNext]_(Commands!commandVars)
<1> USE DEF Commands!commandVars, Mqtt!commandVars
<1>1. ASSUME Mqtt!CommandsLost PROVE Commands!CommandNext
  BY <1>1 DEF Commands!CommandNext, Commands!CommandsLost, Mqtt!CommandsLost
<1>2. ASSUME NEW e \in Record, NEW mine \in BOOLEAN, Mqtt!consume(e, mine)
      PROVE  Commands!CommandNext
  BY <1>2 DEF Commands!CommandNext, Commands!consume, Mqtt!consume
<1>3. ASSUME NEW e \in Record,
             Mqtt!callback_running(e) \/ Mqtt!callback_final(e) \/ Mqtt!row_ends(e)
      PROVE  Commands!CommandNext
  <2>1. \/ Commands!callback_running(e) \/ Commands!callback_final(e)
        \/ Commands!row_ends(e)
    BY <1>3 DEF Commands!callback_running, Commands!callback_final, Commands!row_ends,
       Commands!Report, Commands!transition_allowed, Commands!ALLOWED_TRANSITIONS,
       Mqtt!callback_running, Mqtt!callback_final, Mqtt!row_ends,
       Mqtt!Report, Mqtt!transition_allowed, Mqtt!ALLOWED_TRANSITIONS
  <2> QED
    BY <2>1 DEF Commands!CommandNext
<1>4. ASSUME NEW e \in Record, NEW out \in BOOLEAN, NEW ok \in BOOLEAN, Mqtt!Sent(e, out, ok)
      PROVE  Commands!CommandNext
  BY <1>4 DEF Commands!CommandNext, Commands!Sent, Mqtt!Sent
<1>5. ASSUME UNCHANGED Mqtt!commandVars PROVE UNCHANGED Commands!commandVars
  BY <1>5
<1>6. ASSUME NEW e \in Record, Mqtt!command_step(e) PROVE Commands!CommandNext
  <2>1. (IdOf(e) \in known) \in BOOLEAN
    OBVIOUS
  <2> QED
    BY <1>2, <1>3, <1>6, <2>1 DEF Mqtt!command_step
<1> QED
  BY <1>1, <1>2, <1>3, <1>4, <1>5, <1>6
  DEF Mqtt!Next, Mqtt!connect, Mqtt!connection_lost, Mqtt!crash, Mqtt!device_deleted,
      Mqtt!handle_message, Mqtt!_handle_register, Mqtt!ensure_registered, Mqtt!agent_register,
      Mqtt!_handle_state, Mqtt!_handle_telemetry, Mqtt!_mqtt_publish

\* mqtt-bridge implements BridgeCommand.
THEOREM MqttImplements == Mqtt!Spec => Commands!CommandSpec
<1>1. Mqtt!CommandInit => Commands!CommandInit
  BY DEF Mqtt!CommandInit, Commands!CommandInit
<1> QED
  BY <1>1, MqttCommands, PTL DEF Mqtt!Spec, Commands!CommandSpec

\* A step of zigbee-bridge does with the commands what any bridge may.
LEMMA ZigbeeCommands ==
    ASSUME [Zigbee!Next]_<<Zigbee!commandVars, Zigbee!zigbeeVars>>
    PROVE  [Commands!CommandNext]_(Commands!commandVars)
<1> USE DEF Commands!commandVars, Zigbee!commandVars
<1>1. ASSUME Zigbee!CommandsLost PROVE Commands!CommandNext
  BY <1>1 DEF Commands!CommandNext, Commands!CommandsLost, Zigbee!CommandsLost
<1>2. ASSUME NEW e \in Record, NEW mine \in BOOLEAN, Zigbee!consume(e, mine)
      PROVE  Commands!CommandNext
  BY <1>2 DEF Commands!CommandNext, Commands!consume, Zigbee!consume
<1>3. ASSUME NEW e \in Record,
             Zigbee!callback_running(e) \/ Zigbee!callback_final(e) \/ Zigbee!row_ends(e)
      PROVE  Commands!CommandNext
  <2>1. \/ Commands!callback_running(e) \/ Commands!callback_final(e)
        \/ Commands!row_ends(e)
    BY <1>3 DEF Commands!callback_running, Commands!callback_final, Commands!row_ends,
       Commands!Report, Commands!transition_allowed, Commands!ALLOWED_TRANSITIONS,
       Zigbee!callback_running, Zigbee!callback_final, Zigbee!row_ends,
       Zigbee!Report, Zigbee!transition_allowed, Zigbee!ALLOWED_TRANSITIONS
  <2> QED
    BY <2>1 DEF Commands!CommandNext
<1>4. ASSUME NEW e \in Record, NEW out \in BOOLEAN, NEW ok \in BOOLEAN, Zigbee!Sent(e, out, ok)
      PROVE  Commands!CommandNext
  BY <1>4 DEF Commands!CommandNext, Commands!Sent, Zigbee!Sent
<1>5. ASSUME UNCHANGED Zigbee!commandVars PROVE UNCHANGED Commands!commandVars
  BY <1>5
<1>6. ASSUME NEW e \in Record, Zigbee!consume_loop(e) PROVE Commands!CommandNext
  <2>1. (NumberOf(e) \in Zigbee!Range(name_to_id)) \in BOOLEAN
    OBVIOUS
  <2> QED
    BY <1>2, <1>6, <2>1 DEF Zigbee!consume_loop
<1> QED
  BY <1>1, <1>2, <1>3, <1>4, <1>5, <1>6
  DEF Zigbee!Next, Zigbee!connect, Zigbee!connection_lost, Zigbee!crash, Zigbee!handle_devices,
      Zigbee!_process_device_state, Zigbee!remove_device, Zigbee!post, Zigbee!_process_device_info,
      Zigbee!register_zigbee_device, Zigbee!command_step, Zigbee!_mqtt_publish

\* zigbee-bridge implements BridgeCommand.
THEOREM ZigbeeImplements == Zigbee!Spec => Commands!CommandSpec
<1>1. Zigbee!CommandInit => Commands!CommandInit
  BY DEF Zigbee!CommandInit, Commands!CommandInit
<1> QED
  BY <1>1, ZigbeeCommands, PTL DEF Zigbee!Spec, Commands!CommandSpec

\* A step of matter-bridge does with the commands what any bridge may.
LEMMA MatterCommands ==
    ASSUME [Matter!Next]_<<Matter!commandVars, Matter!matterVars>>
    PROVE  [Commands!CommandNext]_(Commands!commandVars)
<1> USE DEF Commands!commandVars, Matter!commandVars
<1>1. ASSUME Matter!CommandsLost PROVE Commands!CommandNext
  BY <1>1 DEF Commands!CommandNext, Commands!CommandsLost, Matter!CommandsLost
<1>2. ASSUME NEW e \in Record, NEW mine \in BOOLEAN, Matter!consume(e, mine)
      PROVE  Commands!CommandNext
  BY <1>2 DEF Commands!CommandNext, Commands!consume, Matter!consume
<1>3. ASSUME NEW e \in Record,
             Matter!callback_running(e) \/ Matter!callback_final(e) \/ Matter!row_ends(e)
      PROVE  Commands!CommandNext
  <2>1. \/ Commands!callback_running(e) \/ Commands!callback_final(e)
        \/ Commands!row_ends(e)
    BY <1>3 DEF Commands!callback_running, Commands!callback_final, Commands!row_ends,
       Commands!Report, Commands!transition_allowed, Commands!ALLOWED_TRANSITIONS,
       Matter!callback_running, Matter!callback_final, Matter!row_ends,
       Matter!Report, Matter!transition_allowed, Matter!ALLOWED_TRANSITIONS
  <2> QED
    BY <2>1 DEF Commands!CommandNext
<1>4. ASSUME NEW e \in Record, NEW out \in BOOLEAN, NEW ok \in BOOLEAN, Matter!Sent(e, out, ok)
      PROVE  Commands!CommandNext
  BY <1>4 DEF Commands!CommandNext, Commands!Sent, Matter!Sent
<1>5. ASSUME UNCHANGED Matter!commandVars PROVE UNCHANGED Commands!commandVars
  BY <1>5
<1> QED
  BY <1>1, <1>2, <1>3, <1>4, <1>5
  DEF Matter!Next, Matter!crash, Matter!matter_commission, Matter!start_commissioning,
      Matter!matter_commission_status, Matter!commission_status, Matter!pair,
      Matter!_register_device, Matter!_handle_attribute_change, Matter!_patch_shadow_reported,
      Matter!consume_loop, Matter!command_step, Matter!send_device_command

\* matter-bridge implements BridgeCommand.
THEOREM MatterImplements == Matter!Spec => Commands!CommandSpec
<1>1. Matter!CommandInit => Commands!CommandInit
  BY DEF Matter!CommandInit, Commands!CommandInit
<1> QED
  BY <1>1, MatterCommands, PTL DEF Matter!Spec, Commands!CommandSpec

-----------------------------------------------------------------------------
(* What mqtt-bridge knows *)

\* The inductive invariant of the ids: what is known was registered.
KnownInv == Mqtt!TypeOK /\ Mqtt!KnownIsKept

\* A message's step drops an id only when device-service has none for it.
LEMMA KnownStep ==
    ASSUME KnownInv, [Mqtt!Next]_<<Mqtt!commandVars, Mqtt!mqttVars>>
    PROVE  KnownInv'
<1> USE DEF KnownInv, Mqtt!TypeOK, Mqtt!KnownIsKept, Mqtt!Task
<1>1. ASSUME NEW i \in Id, NEW made \in BOOLEAN, NEW answered \in BOOLEAN,
             Mqtt!agent_register(i, made, answered)
      PROVE  /\ known' \subseteq Id /\ created' \in [Id -> Nat]
             /\ forgotten' = {} /\ \A k \in known' : created'[k] > 0
  BY <1>1 DEF Mqtt!agent_register
<1>2. CASE Mqtt!connect \/ Mqtt!connection_lost \/ \E i \in Id : Mqtt!device_deleted(i)
  BY <1>2 DEF Mqtt!connect, Mqtt!connection_lost, Mqtt!device_deleted
<1>3. CASE Mqtt!crash
  BY <1>3 DEF Mqtt!crash
<1>4. ASSUME NEW m \in Message, NEW i \in Id, NEW kind \in Mqtt!Kind,
             Mqtt!handle_message(m, i, kind)
      PROVE  KnownInv'
  BY <1>4 DEF Mqtt!handle_message
<1>5. ASSUME NEW m \in Message, NEW made \in BOOLEAN, NEW answered \in BOOLEAN,
             \/ Mqtt!_handle_register(m, made, answered)
             \/ Mqtt!ensure_registered(m, made, answered)
      PROVE  KnownInv'
  <2>1. PICK t \in Mqtt!Task : t = task[m]
    BY <1>5 DEF Mqtt!_handle_register, Mqtt!ensure_registered
  <2>2. /\ Mqtt!agent_register(t.id, made, answered)
        /\ \/ task' = [task EXCEPT ![m] = NoTask]
           \/ task' = [task EXCEPT ![m] = [t EXCEPT !.pc = "post"]]
    BY <1>5, <2>1 DEF Mqtt!_handle_register, Mqtt!ensure_registered
  <2>3. task' \in [Message -> Mqtt!Task \cup {NoTask}]
    BY <2>2
  <2>4. /\ known' \subseteq Id /\ created' \in [Id -> Nat]
        /\ forgotten' = {} /\ \A k \in known' : created'[k] > 0
    BY <1>1, <2>1, <2>2
  <2>5. UNCHANGED <<link, exists>>
    BY <2>2 DEF Mqtt!agent_register
  <2> QED
    BY <2>3, <2>4, <2>5
<1>6. ASSUME NEW m \in Message, Mqtt!_handle_state(m) PROVE KnownInv'
  BY <1>6 DEF Mqtt!_handle_state
<1>7. ASSUME NEW m \in Message, NEW found \in BOOLEAN, Mqtt!_handle_telemetry(m, found)
      PROVE  KnownInv'
  BY <1>7 DEF Mqtt!_handle_telemetry
<1>8. CASE \/ \E e \in Record : Mqtt!command_step(e)
           \/ \E e \in Record, out, ok \in BOOLEAN : Mqtt!_mqtt_publish(e, out, ok)
           \/ UNCHANGED Mqtt!mqttVars
  BY <1>8 DEF Mqtt!command_step, Mqtt!_mqtt_publish, Mqtt!mqttVars
<1> QED
  BY <1>2, <1>3, <1>4, <1>5, <1>6, <1>7, <1>8 DEF Mqtt!Next

-----------------------------------------------------------------------------
(* The registry of zigbee-bridge *)

\* One message is handled at a time, and the name it asks for is still unknown: nothing
\* else is handled while its registration is awaited.
OneAtATime ==
    /\ handled \in [Message -> Zigbee!Task \cup {NoTask}]
    /\ \A m, o \in Message : handled[m] # NoTask /\ handled[o] # NoTask => m = o
    /\ \A m \in Message : handled[m] # NoTask /\ handled[m].asked =>
         /\ handled[m].todo # <<>>
         /\ name_to_id[Head(handled[m].todo)[1]] = 0

\* A name that is known has used up its device, another has it left.
DevicesAreCounted ==
    \A n \in Name :
        /\ IsFiniteSet(Zigbee!Registered(n))
        /\ Cardinality(Zigbee!Registered(n))
             <= (IF name_to_id[n] # 0 THEN 1 ELSE 0) + excused[n] + crashes

\* An address leads to a device only while a name does.
AddressesFollow ==
    \A a \in Ieee : ieee_to_id[a] = 0 \/ \E n \in Name : ieee_to_id[a] = name_to_id[n]

\* Ids are those of devices that were registered.
IdsGiven ==
    /\ \A n \in Name : name_to_id[n] <= Len(named)
    /\ \A a \in Ieee : ieee_to_id[a] <= Len(named)

\* The inductive invariant of the registry.
RegistryInv ==
    /\ radio \in BOOLEAN
    /\ named \in Seq(Name)
    /\ name_to_id \in [Name -> Nat] /\ ieee_to_id \in [Ieee -> Nat]
    /\ excused \in [Name -> Nat] /\ crashes \in Nat
    /\ OneAtATime /\ DevicesAreCounted /\ AddressesFollow /\ IdsGiven

\* What is left of a task is a task that asks for nothing.
LEMMA RestType ==
    ASSUME NEW t \in Zigbee!Task, t.todo # <<>>
    PROVE  /\ Zigbee!Rest(t) \in Zigbee!Task \cup {NoTask}
           /\ Zigbee!Rest(t) # NoTask => ~Zigbee!Rest(t).asked
<1>1. Tail(t.todo) \in Seq(Name \X Ieee)
  BY DEF Zigbee!Task
<1> QED
  BY <1>1 DEF Zigbee!Rest, Zigbee!Task

\* Only the commands' steps and restarts change `crashes`, which never falls.
LEMMA RegistryStep ==
    ASSUME RegistryInv, [Zigbee!Next]_<<Zigbee!commandVars, Zigbee!zigbeeVars>>
    PROVE  RegistryInv'
<1> USE DEF RegistryInv
<1>1. ASSUME UNCHANGED <<named, name_to_id, ieee_to_id, excused, crashes>>
      PROVE  DevicesAreCounted' /\ AddressesFollow' /\ IdsGiven'
  BY <1>1 DEF DevicesAreCounted, AddressesFollow, IdsGiven, Zigbee!Registered
<1>2. ASSUME NEW m \in Message, NEW t \in Zigbee!Task, ~t.asked,
             \A o \in Message : handled[o] = NoTask, UNCHANGED name_to_id,
             handled' = [handled EXCEPT ![m] = t]
      PROVE  OneAtATime'
  BY <1>2 DEF OneAtATime
<1>3. ASSUME NEW m \in Message, handled[m] # NoTask, handled' = [handled EXCEPT ![m] = NoTask]
      PROVE  OneAtATime'
  BY <1>3 DEF OneAtATime
<1>4. CASE Zigbee!connect \/ Zigbee!connection_lost
  BY <1>1, <1>4 DEF Zigbee!connect, Zigbee!connection_lost, OneAtATime, Zigbee!commandVars
<1>5. CASE Zigbee!crash
  <2>1. /\ crashes' = crashes + 1 /\ UNCHANGED <<named, excused>>
        /\ name_to_id' = [n \in Name |-> 0] /\ ieee_to_id' = [a \in Ieee |-> 0]
        /\ handled' = [m \in Message |-> NoTask]
    BY <1>5 DEF Zigbee!crash, Zigbee!CommandsLost
  <2>2. OneAtATime' /\ AddressesFollow' /\ IdsGiven'
    <3>1. Len(named) \in Nat
      OBVIOUS
    <3> QED
      BY <2>1, <3>1 DEF OneAtATime, AddressesFollow, IdsGiven
  <2>3. ASSUME NEW n \in Name
        PROVE  /\ IsFiniteSet(Zigbee!Registered(n)')
               /\ Cardinality(Zigbee!Registered(n)') <= 0 + excused'[n] + crashes'
    <3>1. Zigbee!Registered(n)' = Zigbee!Registered(n)
      BY <2>1 DEF Zigbee!Registered
    <3>2. /\ IsFiniteSet(Zigbee!Registered(n))
          /\ Cardinality(Zigbee!Registered(n))
               <= (IF name_to_id[n] # 0 THEN 1 ELSE 0) + excused[n] + crashes
      BY DEF DevicesAreCounted
    <3>3. Cardinality(Zigbee!Registered(n)) \in Nat
      BY <3>2, FS_CardinalityType
    <3>4. Cardinality(Zigbee!Registered(n)) <= 0 + excused[n] + (crashes + 1)
      BY <3>2, <3>3
    <3> QED
      BY <2>1, <3>1, <3>2, <3>4
  <2>4. DevicesAreCounted'
    BY <2>1, <2>3 DEF DevicesAreCounted
  <2>5. radio' \in BOOLEAN
    BY <1>5 DEF Zigbee!crash
  <2> QED
    BY <2>1, <2>2, <2>4, <2>5
<1>6. CASE \/ \E e \in Record : Zigbee!consume_loop(e) \/ Zigbee!command_step(e)
           \/ \E e \in Record, out, ok \in BOOLEAN : Zigbee!_mqtt_publish(e, out, ok)
           \/ UNCHANGED <<Zigbee!commandVars, Zigbee!zigbeeVars>>
  <2>1. UNCHANGED crashes /\ UNCHANGED Zigbee!zigbeeVars
    BY <1>6 DEF Zigbee!consume_loop, Zigbee!command_step, Zigbee!_mqtt_publish, Zigbee!consume,
       Zigbee!callback_running, Zigbee!callback_final, Zigbee!row_ends, Zigbee!Sent,
       Zigbee!commandVars
  <2> QED
    BY <1>1, <2>1 DEF Zigbee!zigbeeVars, OneAtATime
<1>7. ASSUME NEW m \in Message, NEW list \in Lists, Zigbee!handle_devices(m, list)
      PROVE  RegistryInv'
  <2>1. [todo |-> list, asked |-> FALSE, posts |-> 0] \in Zigbee!Task
    BY BridgeAssumption DEF Zigbee!ConstantsFit, Zigbee!Task
  <2> QED
    BY <1>1, <1>2, <1>7, <2>1 DEF Zigbee!handle_devices, Zigbee!receive, Zigbee!commandVars
<1>8. ASSUME NEW m \in Message, NEW n \in Name, NEW k \in 1..2,
             Zigbee!_process_device_state(m, n, k)
      PROVE  RegistryInv'
  <2>1. [todo |-> <<>>, asked |-> FALSE, posts |-> k] \in Zigbee!Task
    BY DEF Zigbee!Task
  <2> QED
    BY <1>1, <1>2, <1>8, <2>1 DEF Zigbee!_process_device_state, Zigbee!receive, Zigbee!commandVars
<1>9. ASSUME NEW m \in Message, NEW n \in Name, Zigbee!remove_device(m, n)
      PROVE  RegistryInv'
  <2>1. /\ \A o \in Message : handled[o] = NoTask
        /\ name_to_id[n] # 0 /\ name_to_id' = [name_to_id EXCEPT ![n] = 0]
        /\ ieee_to_id' = [a \in Ieee |-> IF ieee_to_id[a] = name_to_id[n] THEN 0
                                                                          ELSE ieee_to_id[a]]
        /\ excused' = [excused EXCEPT ![n] = @ + 1]
        /\ UNCHANGED <<radio, named, handled, crashes>>
    BY <1>9 DEF Zigbee!remove_device, Zigbee!commandVars
  <2>2. OneAtATime'
    BY <2>1 DEF OneAtATime
  <2>3. AddressesFollow' /\ IdsGiven'
    <3>1. Len(named) \in Nat
      OBVIOUS
    <3> QED
      BY <2>1, <3>1 DEF AddressesFollow, IdsGiven
  <2>4. ASSUME NEW o \in Name
        PROVE  /\ IsFiniteSet(Zigbee!Registered(o)')
               /\ Cardinality(Zigbee!Registered(o)')
                    <= (IF name_to_id'[o] # 0 THEN 1 ELSE 0) + excused'[o] + crashes'
    <3>1. Zigbee!Registered(o)' = Zigbee!Registered(o)
      BY <2>1 DEF Zigbee!Registered
    <3>2. /\ IsFiniteSet(Zigbee!Registered(o))
          /\ Cardinality(Zigbee!Registered(o))
               <= (IF name_to_id[o] # 0 THEN 1 ELSE 0) + excused[o] + crashes
      BY DEF DevicesAreCounted
    <3>3. (IF name_to_id'[o] # 0 THEN 1 ELSE 0) + excused'[o] + crashes'
            = (IF name_to_id[o] # 0 THEN 1 ELSE 0) + excused[o] + crashes
      BY <2>1
    <3> QED
      BY <3>1, <3>2, <3>3
  <2>5. DevicesAreCounted'
    BY <2>4 DEF DevicesAreCounted
  <2> QED
    BY <2>1, <2>2, <2>3, <2>5
<1>10. ASSUME NEW m \in Message, Zigbee!post(m) PROVE RegistryInv'
  <2>1. /\ handled[m] # NoTask /\ handled[m].posts > 0
        /\ handled' = [handled EXCEPT ![m] = IF @.posts = 1 THEN NoTask ELSE [@ EXCEPT !.posts = 1]]
        /\ UNCHANGED <<radio, named, name_to_id, ieee_to_id, excused, crashes>>
    BY <1>10 DEF Zigbee!post, Zigbee!commandVars
  <2>2. PICK t \in Zigbee!Task : t = handled[m]
    BY <2>1 DEF OneAtATime
  <2> DEFINE posted == [t EXCEPT !.posts = 1]
  <2>3. posted \in Zigbee!Task /\ posted.asked = t.asked /\ posted.todo = t.todo
    <3>1. 1 \in 0..2
      OBVIOUS
    <3> QED
      BY <3>1 DEF Zigbee!Task
  <2>4. handled' = [handled EXCEPT ![m] = NoTask] \/ handled' = [handled EXCEPT ![m] = posted]
    BY <2>1, <2>2, <2>3
  <2> HIDE DEF posted
  <2>5. ASSUME handled' = [handled EXCEPT ![m] = posted] PROVE OneAtATime'
    <3> HIDE DEF Zigbee!Task
    <3>1. handled' \in [Message -> Zigbee!Task \cup {NoTask}]
      BY <2>3, <2>5 DEF OneAtATime
    <3>2. \A o \in Message : handled'[o] # NoTask => handled[o] # NoTask
      BY <2>1, <2>5 DEF OneAtATime
    <3>3. \A o \in Message : handled'[o] # NoTask /\ handled'[o].asked =>
            /\ handled'[o].todo = handled[o].todo
            /\ handled[o] # NoTask /\ handled[o].asked
      <4> TAKE o \in Message
      <4>1. CASE o = m
        BY <2>1, <2>2, <2>3, <2>5, <4>1 DEF OneAtATime
      <4>2. CASE o # m
        BY <2>5, <4>2 DEF OneAtATime
      <4> QED
        BY <4>1, <4>2
    <3>4. UNCHANGED name_to_id
      BY <2>1
    <3> QED
      BY <3>1, <3>2, <3>3, <3>4 DEF OneAtATime
  <2>6. OneAtATime'
    BY <1>3, <2>1, <2>4, <2>5
  <2> QED
    BY <1>1, <2>1, <2>6
<1>11. ASSUME NEW m \in Message, Zigbee!_process_device_info(m) PROVE RegistryInv'
  <2>1. PICK t \in Zigbee!Task : t = handled[m]
    BY <1>11 DEF Zigbee!_process_device_info, OneAtATime
  <2>2. /\ t # NoTask /\ t.todo # <<>> /\ ~t.asked /\ handled[m] # NoTask
        /\ handled' = [handled EXCEPT ![m] = IF name_to_id[Head(t.todo)[1]] # 0
                                               THEN Zigbee!Rest(t) ELSE [t EXCEPT !.asked = TRUE]]
        /\ UNCHANGED <<radio, named, name_to_id, ieee_to_id, excused, crashes>>
    BY <1>11, <2>1 DEF Zigbee!_process_device_info, Zigbee!commandVars
  <2>3. OneAtATime'
    <3>1. CASE name_to_id[Head(t.todo)[1]] # 0
      BY <2>2, <3>1, RestType DEF OneAtATime
    <3>2. CASE name_to_id[Head(t.todo)[1]] = 0
      <4>1. /\ [t EXCEPT !.asked = TRUE] \in Zigbee!Task
            /\ [t EXCEPT !.asked = TRUE].todo = t.todo
        BY DEF Zigbee!Task
      <4> HIDE DEF Zigbee!Task
      <4> QED
        BY <2>2, <3>2, <4>1 DEF OneAtATime
    <3> QED
      BY <3>1, <3>2
  <2> QED
    BY <1>1, <2>2, <2>3
<1>12. ASSUME NEW m \in Message, NEW made \in BOOLEAN, NEW answered \in BOOLEAN,
              Zigbee!register_zigbee_device(m, made, answered)
       PROVE  RegistryInv'
  <2>1. PICK t \in Zigbee!Task : t = handled[m]
    BY <1>12 DEF Zigbee!register_zigbee_device, OneAtATime
  <2> DEFINE n == Head(t.todo)[1]
             a == Head(t.todo)[2]
  <2>2. /\ t # NoTask /\ t.asked /\ t.todo # <<>> /\ n \in Name /\ a \in Ieee
        /\ name_to_id[n] = 0 /\ handled[m] # NoTask
    <3>1. t # NoTask /\ t.asked /\ handled[m] # NoTask
      BY <1>12, <2>1 DEF Zigbee!register_zigbee_device
    <3>2. t.todo # <<>> /\ name_to_id[n] = 0
      BY <2>1, <3>1 DEF OneAtATime
    <3> QED
      BY <3>1, <3>2 DEF Zigbee!Task
  <2>3. /\ answered => made
        /\ named' = IF made THEN Append(named, n) ELSE named
        /\ IF answered
             THEN /\ name_to_id' = [name_to_id EXCEPT ![n] = Len(named')]
                  /\ ieee_to_id' = [ieee_to_id EXCEPT ![a] = Len(named')]
             ELSE UNCHANGED <<name_to_id, ieee_to_id>>
        /\ excused' = IF made /\ ~answered THEN [excused EXCEPT ![n] = @ + 1] ELSE excused
        /\ handled' = [handled EXCEPT ![m] = Zigbee!Rest(t)]
        /\ UNCHANGED <<radio, crashes>>
    BY <1>12, <2>1 DEF Zigbee!register_zigbee_device, Zigbee!commandVars
  <2> HIDE DEF n, a
  <2>4. named' \in Seq(Name) /\ Len(named') \in Nat /\ (made => Len(named') # 0)
    BY <2>2, <2>3
  <2>5. OneAtATime'
    <3>1. \A o \in Message : o # m => handled[o] = NoTask
      BY <2>1, <2>2 DEF OneAtATime
    <3> QED
      BY <2>2, <2>3, <3>1, RestType DEF OneAtATime
  <2>6. AddressesFollow'
    <3> SUFFICES ASSUME NEW b \in Ieee, ieee_to_id'[b] # 0
                 PROVE  \E o \in Name : ieee_to_id'[b] = name_to_id'[o]
      BY DEF AddressesFollow
    <3>1. CASE answered /\ b = a
      BY <2>2, <2>3, <3>1
    <3>2. CASE ~(answered /\ b = a)
      <4>1. ieee_to_id'[b] = ieee_to_id[b]
        BY <2>3, <3>2
      <4>2. PICK o \in Name : ieee_to_id[b] = name_to_id[o]
        BY <4>1 DEF AddressesFollow
      <4> QED
        BY <2>2, <2>3, <4>1, <4>2
    <3> QED
      BY <3>1, <3>2
  <2>7. ASSUME NEW o \in Name
        PROVE  /\ IsFiniteSet(Zigbee!Registered(o)')
               /\ Cardinality(Zigbee!Registered(o)')
                    <= (IF name_to_id'[o] # 0 THEN 1 ELSE 0) + excused'[o] + crashes'
    <3>1. /\ IsFiniteSet(Zigbee!Registered(o))
          /\ Cardinality(Zigbee!Registered(o))
               <= (IF name_to_id[o] # 0 THEN 1 ELSE 0) + excused[o] + crashes
      BY DEF DevicesAreCounted
    <3>2. Cardinality(Zigbee!Registered(o)) \in Nat
      BY <3>1, FS_CardinalityType
    <3>3. CASE made /\ o = n
      <4>1. Zigbee!Registered(o)' = Zigbee!Registered(o) \cup {Len(named) + 1}
        BY <2>2, <2>3, <3>3 DEF Zigbee!Registered
      <4>2. Len(named) + 1 \notin Zigbee!Registered(o)
        BY DEF Zigbee!Registered
      <4>3. /\ IsFiniteSet(Zigbee!Registered(o)')
            /\ Cardinality(Zigbee!Registered(o)') = Cardinality(Zigbee!Registered(o)) + 1
        BY <3>1, <4>1, <4>2, FS_AddElement
      <4>4. (IF name_to_id'[o] # 0 THEN 1 ELSE 0) + excused'[o] + crashes'
              = 1 + excused[o] + crashes
        BY <2>2, <2>3, <2>4, <3>3
      <4> QED
        BY <2>2, <3>1, <3>2, <3>3, <4>3, <4>4
    <3>4. CASE ~(made /\ o = n)
      <4>1. Zigbee!Registered(o)' = Zigbee!Registered(o)
        BY <2>2, <2>3, <3>4 DEF Zigbee!Registered
      <4>2. name_to_id'[o] = name_to_id[o] /\ excused'[o] = excused[o] /\ crashes' = crashes
        BY <2>2, <2>3, <3>4
      <4> QED
        BY <3>1, <4>1, <4>2
    <3> QED
      BY <3>3, <3>4
  <2>8. DevicesAreCounted'
    BY <2>7 DEF DevicesAreCounted
  <2>9. name_to_id' \in [Name -> Nat] /\ ieee_to_id' \in [Ieee -> Nat] /\ excused' \in [Name -> Nat]
    <3>1. CASE answered
      BY <2>2, <2>3, <2>4, <3>1
    <3>2. CASE ~answered
      BY <2>2, <2>3, <2>4, <3>2
    <3> QED
      BY <3>1, <3>2
  <2>10. IdsGiven'
    <3>1. Len(named') \in Nat /\ Len(named) \in Nat /\ Len(named') >= Len(named)
      BY <2>2, <2>3
    <3>2. \A o \in Name : name_to_id'[o] = name_to_id[o] \/ name_to_id'[o] = Len(named')
      BY <2>2, <2>3
    <3>3. \A b \in Ieee : ieee_to_id'[b] = ieee_to_id[b] \/ ieee_to_id'[b] = Len(named')
      BY <2>2, <2>3
    <3> QED
      BY <3>1, <3>2, <3>3 DEF IdsGiven
  <2> QED
    BY <2>3, <2>4, <2>5, <2>6, <2>8, <2>9, <2>10
<1> QED
  BY <1>4, <1>5, <1>6, <1>7, <1>8, <1>9, <1>10, <1>11, <1>12 DEF Zigbee!Next

-----------------------------------------------------------------------------
(* The sessions of matter-bridge *)

\* Ids are drawn once, and nothing is told of one that was not drawn.
SessionsTyped ==
    /\ server \in {"real", "mock"} /\ used \subseteq Commissioning
    /\ session \in [Commissioning -> Matter!Session \cup {NoSession}]
    /\ told \in [Commissioning -> {"nothing", "pending", "commissioned", "failed"}]
    /\ IsFiniteSet(used) /\ Matter!Sessions \subseteq used
    /\ \A c \in Commissioning : c \notin used => told[c] = "nothing"
    /\ next_node \in Nat /\ nodes \in Nat /\ orphans \in Nat /\ gauge \in Nat
    /\ counted \subseteq Matter!Sessions

\* Node numbers and devices are given out once, below the next of each.
SessionsApart ==
    /\ \A c \in Matter!Sessions :
         /\ session[c].node < next_node /\ session[c].device <= nodes
         /\ session[c].status = "commissioned" <=> session[c].device # 0
         /\ c \in counted => session[c].status \in {"commissioned", "failed"}
         /\ told[c] \in {"commissioned", "failed"} =>
              told[c] = session[c].status /\ c \in counted
    /\ \A c1, c2 \in Matter!Sessions : c1 # c2 =>
         /\ session[c1].node # session[c2].node
         /\ session[c1].device # 0 => session[c1].device # session[c2].device

\* Devices and the gauge are counted.
SessionsCounted ==
    /\ nodes = orphans + Cardinality(Matter!Commissioned)
    /\ gauge = Cardinality(Matter!Commissioned \cap counted)

\* The inductive invariant of the sessions.
SessionsInv == SessionsTyped /\ SessionsApart /\ SessionsCounted

\* No session, nothing to account for.
LEMMA SessionsBegin ==
    ASSUME Matter!Init PROVE SessionsInv
<1>1. Matter!Sessions = {} /\ Matter!Commissioned = {}
  BY DEF Matter!Init, Matter!Sessions, Matter!Commissioned
<1>2. IsFiniteSet({}) /\ Cardinality({}) = 0
  BY FS_EmptySet
<1>3. SessionsTyped
  BY <1>1, <1>2 DEF Matter!Init, SessionsTyped
<1>4. SessionsApart
  BY <1>1 DEF SessionsApart
<1>5. SessionsCounted
  <2>1. {} \cap counted = {}
    OBVIOUS
  <2> QED
    BY <1>1, <1>2, <2>1 DEF Matter!Init, SessionsCounted
<1> QED
  BY <1>3, <1>4, <1>5 DEF SessionsInv

\* What is written into one session changes that session only.
LEMMA SessionWritten ==
    ASSUME SessionsTyped, NEW c \in Commissioning, NEW new \in Matter!Session,
           session' = [session EXCEPT ![c] = new]
    PROVE  /\ session' \in [Commissioning -> Matter!Session \cup {NoSession}]
           /\ session'[c] = new
           /\ \A d \in Commissioning : d # c => session'[d] = session[d]
           /\ Matter!Sessions' = Matter!Sessions \cup {c}
           /\ Matter!Commissioned' = (Matter!Commissioned \ {c})
                                       \cup (IF new.status = "commissioned" THEN {c} ELSE {})
<1> USE DEF SessionsTyped
<1>1. new # NoSession
  BY BridgeAssumption DEF Matter!ConstantsFit
<1>2. /\ session' \in [Commissioning -> Matter!Session \cup {NoSession}]
      /\ session'[c] = new /\ \A d \in Commissioning : d # c => session'[d] = session[d]
  OBVIOUS
<1>3. Matter!Sessions' = Matter!Sessions \cup {c}
  BY <1>1, <1>2 DEF Matter!Sessions
<1>4. \A d : d \in Matter!Commissioned' <=>
             \/ d # c /\ d \in Matter!Commissioned
             \/ d = c /\ new.status = "commissioned"
  <2>1. \A d \in Commissioning : d # c =>
          (d \in Matter!Commissioned' <=> d \in Matter!Commissioned)
    BY <1>2, <1>3 DEF Matter!Commissioned
  <2>2. c \in Matter!Commissioned' <=> new.status = "commissioned"
    BY <1>2, <1>3 DEF Matter!Commissioned
  <2>3. \A d : d \in Matter!Commissioned \/ d \in Matter!Commissioned' => d \in Commissioning
    BY DEF Matter!Commissioned, Matter!Sessions
  <2> QED
    BY <2>1, <2>2, <2>3
<1> QED
  BY <1>2, <1>3, <1>4

\* The commissioned sessions are finitely many.
LEMMA FewSessions ==
    ASSUME SessionsTyped
    PROVE  /\ IsFiniteSet(Matter!Commissioned)
           /\ IsFiniteSet(Matter!Commissioned \cap counted)
           /\ \A S : Matter!Cardinality(S) = Cardinality(S)
<1>1. Matter!Commissioned \subseteq used /\ Matter!Commissioned \cap counted \subseteq used
  BY DEF SessionsTyped, Matter!Commissioned
<1>2. \A S : Matter!Cardinality(S) = Cardinality(S)
  BY DEF Cardinality, Matter!Cardinality
<1> QED
  BY <1>1, <1>2, FS_Subset DEF SessionsTyped

\* Sessions that nothing touches stay as they are.
LEMMA SessionsKept ==
    ASSUME SessionsInv,
           UNCHANGED <<server, session, used, told, next_node, nodes, orphans, counted, gauge>>
    PROVE  SessionsInv'
<1>1. Matter!Sessions' = Matter!Sessions
  BY DEF Matter!Sessions
<1>2. Matter!Commissioned' = Matter!Commissioned
  BY <1>1 DEF Matter!Commissioned
<1> QED
  BY <1>1, <1>2 DEF SessionsInv, SessionsTyped, SessionsApart, SessionsCounted

\* However a session begins, is paired, ends and is polled, the sessions stay apart and
\* counted, and what was told of one that ended stays true.
LEMMA SessionsStep ==
    ASSUME SessionsInv, [Matter!Next]_<<Matter!commandVars, Matter!matterVars>>
    PROVE  SessionsInv'
<1> USE DEF SessionsInv
<1>f. /\ IsFiniteSet(Matter!Commissioned) /\ IsFiniteSet(Matter!Commissioned \cap counted)
      /\ Cardinality(Matter!Commissioned) \in Nat
      /\ Cardinality(Matter!Commissioned \cap counted) \in Nat
  BY FewSessions, FS_CardinalityType
<1>t. \A c \in Matter!Sessions : c \in Commissioning /\ session[c] \in Matter!Session
  BY DEF SessionsTyped, Matter!Sessions
<1>1. ASSUME NEW c \in Commissioning, NEW answered \in BOOLEAN,
             Matter!matter_commission(c, answered)
      PROVE  SessionsInv'
  <2> DEFINE new == [node |-> next_node, status |-> "pending", device |-> 0]
  <2>1. /\ c \notin used /\ used' = used \cup {c}
        /\ session' = [session EXCEPT ![c] = new] /\ next_node' = next_node + 1
        /\ told' = IF answered THEN [told EXCEPT ![c] = "pending"] ELSE told
        /\ UNCHANGED <<server, nodes, orphans, counted, gauge>>
    BY <1>1 DEF Matter!matter_commission, Matter!start_commissioning
  <2>2. /\ new \in Matter!Session
        /\ new.status = "pending" /\ new.device = 0 /\ new.node = next_node
    BY DEF Matter!Session, SessionsTyped
  <2> HIDE DEF new
  <2>3. /\ session' \in [Commissioning -> Matter!Session \cup {NoSession}]
        /\ session'[c] = new
        /\ \A d \in Commissioning : d # c => session'[d] = session[d]
        /\ Matter!Sessions' = Matter!Sessions \cup {c}
        /\ Matter!Commissioned' = Matter!Commissioned
    <3>1. c \notin Matter!Commissioned
      BY <2>1 DEF SessionsTyped, Matter!Commissioned
    <3>2. /\ session' \in [Commissioning -> Matter!Session \cup {NoSession}]
          /\ session'[c] = new
          /\ \A d \in Commissioning : d # c => session'[d] = session[d]
          /\ Matter!Sessions' = Matter!Sessions \cup {c}
          /\ Matter!Commissioned' = (Matter!Commissioned \ {c})
                                      \cup (IF new.status = "commissioned" THEN {c} ELSE {})
      BY <2>1, <2>2, SessionWritten
    <3> QED
      BY <2>2, <3>1, <3>2
  <2>4. SessionsTyped'
    <3>1. IsFiniteSet(used')
      BY <2>1, FS_AddElement DEF SessionsTyped
    <3> QED
      BY <2>1, <2>3, <3>1 DEF SessionsTyped
  <2>5. c \notin Matter!Sessions /\ c \notin counted /\ told'[c] \in {"nothing", "pending"}
    BY <2>1 DEF SessionsTyped
  <2>6. \A d \in Commissioning : d # c => told'[d] = told[d]
    BY <2>1 DEF SessionsTyped
  <2>7. SessionsApart'
    BY <1>t, <2>1, <2>2, <2>3, <2>5, <2>6 DEF SessionsApart, SessionsTyped, Matter!Session
  <2> QED
    BY <2>1, <2>3, <2>4, <2>7 DEF SessionsCounted
<1>2. ASSUME NEW c \in Commissioning, NEW ok \in BOOLEAN, Matter!pair(c, ok)
      PROVE  SessionsInv'
  <2> DEFINE new == [session[c] EXCEPT !.status = IF ok THEN "paired" ELSE "failed"]
  <2>1. /\ c \in Matter!Sessions /\ session[c].status = "pending"
        /\ UNCHANGED <<server, used, told, next_node, nodes, orphans, counted, gauge>>
    BY <1>2 DEF Matter!pair
  <2>2. /\ new \in Matter!Session /\ new.status \in {"paired", "failed"}
        /\ new.device = session[c].device /\ new.node = session[c].node
    BY <1>t, <2>1 DEF Matter!Session
  <2>3. session' = [session EXCEPT ![c] = new]
    BY <1>2 DEF Matter!pair
  <2> HIDE DEF new
  <2>4. /\ session' \in [Commissioning -> Matter!Session \cup {NoSession}]
        /\ session'[c] = new
        /\ \A d \in Commissioning : d # c => session'[d] = session[d]
        /\ Matter!Sessions' = Matter!Sessions
        /\ Matter!Commissioned' = Matter!Commissioned
    <3>1. c \notin Matter!Commissioned
      BY <2>1 DEF Matter!Commissioned
    <3>2. /\ session' \in [Commissioning -> Matter!Session \cup {NoSession}]
          /\ session'[c] = new
          /\ \A d \in Commissioning : d # c => session'[d] = session[d]
          /\ Matter!Sessions' = Matter!Sessions \cup {c}
          /\ Matter!Commissioned' = (Matter!Commissioned \ {c})
                                      \cup (IF new.status = "commissioned" THEN {c} ELSE {})
      BY <2>2, <2>3, SessionWritten
    <3> QED
      BY <2>1, <2>2, <3>1, <3>2
  <2>5. SessionsTyped'
    BY <2>1, <2>4 DEF SessionsTyped
  <2>6. session[c].device = 0 /\ c \notin counted /\ told[c] \notin {"commissioned", "failed"}
    BY <1>t, <2>1 DEF SessionsApart, Matter!Session
  <2>7. SessionsApart'
    BY <1>t, <2>1, <2>2, <2>4, <2>6 DEF SessionsApart
  <2> QED
    BY <2>1, <2>4, <2>5, <2>7 DEF SessionsCounted
<1>3. ASSUME NEW c \in Commissioning, NEW made \in BOOLEAN, NEW answered \in BOOLEAN,
             Matter!_register_device(c, made, answered)
      PROVE  SessionsInv'
  <2> DEFINE new == IF answered
                      THEN [session[c] EXCEPT !.status = "commissioned", !.device = nodes']
                      ELSE [session[c] EXCEPT !.status = "failed"]
  <2>1. /\ c \in Matter!Sessions /\ session[c].status = "paired"
        /\ answered => made
        /\ nodes' = (IF made THEN nodes + 1 ELSE nodes)
        /\ orphans' = (IF made /\ ~answered THEN orphans + 1 ELSE orphans)
        /\ UNCHANGED <<server, used, told, next_node, counted, gauge>>
    BY <1>3 DEF Matter!_register_device
  <2>2. nodes' \in Nat /\ orphans' \in Nat
    BY <2>1 DEF SessionsTyped
  <2>3. session[c].device = 0 /\ c \notin counted /\ told[c] \notin {"commissioned", "failed"}
    BY <1>t, <2>1 DEF SessionsApart, Matter!Session
  <2>4. /\ new \in Matter!Session /\ new.node = session[c].node
        /\ answered => new.status = "commissioned" /\ new.device = nodes'
        /\ ~answered => new.status = "failed" /\ new.device = 0
    BY <1>t, <2>1, <2>2, <2>3 DEF Matter!Session
  <2>5. session' = [session EXCEPT ![c] = new]
    BY <1>3 DEF Matter!_register_device
  <2> HIDE DEF new
  <2>6. c \notin Matter!Commissioned
    BY <2>1 DEF Matter!Commissioned
  <2>7. /\ session' \in [Commissioning -> Matter!Session \cup {NoSession}]
        /\ session'[c] = new
        /\ \A d \in Commissioning : d # c => session'[d] = session[d]
        /\ Matter!Sessions' = Matter!Sessions
        /\ Matter!Commissioned' = Matter!Commissioned \cup (IF answered THEN {c} ELSE {})
    <3>1. /\ session' \in [Commissioning -> Matter!Session \cup {NoSession}]
          /\ session'[c] = new
          /\ \A d \in Commissioning : d # c => session'[d] = session[d]
          /\ Matter!Sessions' = Matter!Sessions \cup {c}
          /\ Matter!Commissioned' = (Matter!Commissioned \ {c})
                                      \cup (IF new.status = "commissioned" THEN {c} ELSE {})
      BY <2>4, <2>5, SessionWritten
    <3> QED
      BY <2>1, <2>4, <2>6, <3>1
  <2>8. SessionsTyped'
    BY <2>1, <2>2, <2>7 DEF SessionsTyped
  <2>9. SessionsApart'
    <3>1. \A d \in Matter!Sessions : session[d].device <= nodes /\ session[d].device \in Nat
      BY <1>t DEF SessionsApart, Matter!Session
    <3>2. nodes' = nodes + 1 \/ (nodes' = nodes /\ ~answered)
      BY <2>1
    <3>3. \A d \in Matter!Sessions : d # c =>
            /\ session'[d] = session[d] /\ session[d].device <= nodes'
            /\ answered => session[d].device # nodes'
      BY <1>t, <2>7, <3>1, <3>2 DEF SessionsTyped
    <3>4. answered => nodes' # 0
      BY <3>2 DEF SessionsTyped
    <3>5. /\ session'[c].node = session[c].node /\ session'[c].device <= nodes'
          /\ session'[c].status \in {"commissioned", "failed"}
          /\ session'[c].status = "commissioned" <=> session'[c].device # 0
          /\ session'[c].device # 0 => session'[c].device = nodes' /\ answered
      BY <2>2, <2>4, <2>7, <3>4
    <3> QED
      BY <2>1, <2>3, <2>7, <3>3, <3>5 DEF SessionsApart
  <2>10. SessionsCounted'
    <3>1. Matter!Commissioned' \cap counted' = Matter!Commissioned \cap counted
      BY <2>1, <2>3, <2>7
    <3>2. answered => Cardinality(Matter!Commissioned') = Cardinality(Matter!Commissioned) + 1
      BY <1>f, <2>6, <2>7, FS_AddElement
    <3>3. ~answered => Matter!Commissioned' = Matter!Commissioned
      BY <2>7
    <3>4. gauge' = Cardinality(Matter!Commissioned' \cap counted')
      BY <2>1, <3>1 DEF SessionsCounted
    <3>5. nodes' = orphans' + Cardinality(Matter!Commissioned')
      <4>1. nodes = orphans + Cardinality(Matter!Commissioned) /\ nodes \in Nat /\ orphans \in Nat
        BY DEF SessionsCounted, SessionsTyped
      <4> QED
        BY <1>f, <2>1, <3>2, <3>3, <4>1
    <3> QED
      BY <3>4, <3>5 DEF SessionsCounted
  <2> QED
    BY <2>8, <2>9, <2>10
<1>4. ASSUME NEW c \in Commissioning, NEW answered \in BOOLEAN,
             Matter!matter_commission_status(c, answered)
      PROVE  SessionsInv'
  <2> DEFINE ended == c \notin counted /\ session[c].status \in {"commissioned", "failed"}
  <2>1. /\ c \in Matter!Sessions /\ told[c] # "nothing"
        /\ counted' = (IF ended THEN counted \cup {c} ELSE counted)
        /\ gauge' = (IF ended /\ c \in Matter!Commissioned THEN gauge + 1 ELSE gauge)
        /\ told' = IF ~answered THEN told
                   ELSE [told EXCEPT ![c] = IF session[c].status = "paired" THEN "pending"
                                            ELSE session[c].status]
        /\ UNCHANGED <<server, session, used, next_node, nodes, orphans>>
    BY <1>4 DEF Matter!matter_commission_status, Matter!commission_status
  <2>2. Matter!Sessions' = Matter!Sessions
    BY <2>1 DEF Matter!Sessions
  <2>3. Matter!Commissioned' = Matter!Commissioned
    BY <2>1, <2>2 DEF Matter!Commissioned
  <2>4. session[c].status \in {"pending", "paired", "commissioned", "failed"}
    BY <1>t, <2>1 DEF Matter!Session
  <2>5. /\ told' \in [Commissioning -> {"nothing", "pending", "commissioned", "failed"}]
        /\ \A d \in Commissioning : d # c => told'[d] = told[d]
        /\ told'[c] \in {"commissioned", "failed"} =>
             session[c].status = told'[c] \/ told'[c] = told[c]
    BY <2>1, <2>4 DEF SessionsTyped
  <2>6. SessionsTyped'
    <3>1. c \in used
      BY <2>1 DEF SessionsTyped
    <3>2. gauge' \in Nat /\ counted' \subseteq Matter!Sessions
      BY <2>1 DEF SessionsTyped
    <3> QED
      BY <2>1, <2>2, <2>5, <3>1, <3>2 DEF SessionsTyped
  <2>7. SessionsApart'
    <3>1. /\ told'[c] \in {"commissioned", "failed"} =>
               told'[c] = session[c].status /\ c \in counted'
          /\ c \in counted' => session[c].status \in {"commissioned", "failed"}
      BY <2>1, <2>5 DEF SessionsApart
    <3> QED
      BY <1>t, <2>1, <2>2, <2>5, <3>1 DEF SessionsApart
  <2>8. SessionsCounted'
    <3>1. CASE ended /\ c \in Matter!Commissioned
      <4>1. Matter!Commissioned' \cap counted' = (Matter!Commissioned \cap counted) \cup {c}
        BY <2>1, <2>3, <3>1
      <4>2. c \notin Matter!Commissioned \cap counted
        BY <3>1
      <4>3. Cardinality(Matter!Commissioned' \cap counted')
              = Cardinality(Matter!Commissioned \cap counted) + 1
        BY <1>f, <4>1, <4>2, FS_AddElement
      <4> QED
        BY <2>1, <2>3, <3>1, <4>3 DEF SessionsCounted
    <3>2. CASE ~(ended /\ c \in Matter!Commissioned)
      <4>1. Matter!Commissioned' \cap counted' = Matter!Commissioned \cap counted
        BY <2>1, <2>3, <3>2
      <4> QED
        BY <2>1, <2>3, <3>2, <4>1 DEF SessionsCounted
    <3> QED
      BY <3>1, <3>2
  <2> QED
    BY <2>6, <2>7, <2>8
<1>5. ASSUME Matter!crash PROVE SessionsInv'
  <2>1. PICK delayed \in SUBSET {c \in Matter!Sessions : session[c].status = "paired"} :
          nodes' = nodes + Matter!Cardinality(delayed)
    BY <1>5 DEF Matter!crash
  <2>2. /\ orphans' = nodes' /\ session' = [c \in Commissioning |-> NoSession]
        /\ next_node' = 1 /\ counted' = {} /\ gauge' = 0 /\ UNCHANGED <<used, told>>
        /\ server' \in {"real", "mock"}
    BY <1>5 DEF Matter!crash
  <2>3. nodes' \in Nat
    <3>1. delayed \subseteq used
      BY DEF SessionsTyped
    <3>2. Cardinality(delayed) \in Nat
      BY <3>1, FS_Subset, FS_CardinalityType DEF SessionsTyped
    <3> QED
      BY <2>1, <3>2, FewSessions DEF SessionsTyped
  <2>4. Matter!Sessions' = {} /\ Matter!Commissioned' = {}
    BY <2>2 DEF Matter!Sessions, Matter!Commissioned
  <2>5. SessionsTyped'
    BY <2>2, <2>3, <2>4 DEF SessionsTyped
  <2>6. SessionsApart'
    BY <2>4 DEF SessionsApart
  <2>7. Matter!Commissioned' \cap counted' = {} /\ Cardinality({}) = 0
    BY <2>4, FS_EmptySet
  <2>8. SessionsCounted'
    BY <2>2, <2>3, <2>4, <2>7 DEF SessionsCounted
  <2> QED
    BY <2>5, <2>6, <2>8
<1>6. CASE \/ \E c \in Commissioning : Matter!_handle_attribute_change(c)
           \/ \E c \in Commissioning, p \in 1..MaxChanges, b \in BOOLEAN :
                Matter!_patch_shadow_reported(c, p, b)
           \/ \E e \in Record : Matter!consume_loop(e) \/ Matter!command_step(e)
           \/ \E e \in Record, b \in BOOLEAN : Matter!send_device_command(e, b)
           \/ UNCHANGED Matter!matterVars
  BY <1>6, SessionsKept DEF Matter!_handle_attribute_change, Matter!_patch_shadow_reported,
     Matter!consume_loop, Matter!command_step, Matter!send_device_command, Matter!matterVars
<1> QED
  BY <1>1, <1>2, <1>3, <1>4, <1>5, <1>6 DEF Matter!Next

\* The inductive invariant of the watcher: without a loss or an overlap, one update is
\* under way, that of the last change, or none and the shadow shows it.
CalmInv ==
    /\ mixed \subseteq Commissioning
    /\ changes \in [Commissioning -> Nat] /\ shadow \in [Commissioning -> Nat]
    /\ patches \in [Commissioning -> SUBSET Nat]
    /\ \A c \in Commissioning : c \notin mixed =>
         \/ patches[c] = {} /\ shadow[c] = changes[c]
         \/ patches[c] = {changes[c]}

\* An update that finds another under way marks its session, and so does one that is lost.
LEMMA CalmStep ==
    ASSUME CalmInv, [Matter!Next]_<<Matter!commandVars, Matter!matterVars>>
    PROVE  CalmInv'
<1> USE DEF CalmInv
<1>1. ASSUME NEW c \in Commissioning, Matter!_handle_attribute_change(c) PROVE CalmInv'
  BY <1>1 DEF Matter!_handle_attribute_change
<1>2. ASSUME NEW c \in Commissioning, NEW p \in 1..MaxChanges, NEW arrives \in BOOLEAN,
             Matter!_patch_shadow_reported(c, p, arrives)
      PROVE  CalmInv'
  BY <1>2 DEF Matter!_patch_shadow_reported
<1>3. CASE Matter!crash
  BY <1>3 DEF Matter!crash
<1>4. CASE ~ \/ Matter!crash
             \/ \E c \in Commissioning : Matter!_handle_attribute_change(c)
             \/ \E c \in Commissioning, p \in 1..MaxChanges, b \in BOOLEAN :
                  Matter!_patch_shadow_reported(c, p, b)
  <2>1. UNCHANGED <<changes, patches, shadow, mixed>>
    BY <1>4 DEF Matter!Next, Matter!matter_commission, Matter!start_commissioning,
       Matter!matter_commission_status, Matter!commission_status, Matter!pair,
       Matter!_register_device, Matter!consume_loop, Matter!command_step,
       Matter!send_device_command, Matter!watching, Matter!matterVars
  <2> QED
    BY <2>1
<1> QED
  BY <1>1, <1>2, <1>3, <1>4

-----------------------------------------------------------------------------
(* The bridges together *)

\* The inductive invariant of the bridges.
BridgesInv == CommandInv /\ KnownInv /\ RegistryInv /\ SessionsInv /\ CalmInv

\* Nothing registered, nothing under way.
LEMMA BridgesBegin ==
    ASSUME BridgesInit PROVE BridgesInv
<1>1. CommandInv
  BY CommandsBegin DEF BridgesInit
<1>2. KnownInv
  BY DEF BridgesInit, Mqtt!Init, KnownInv, Mqtt!TypeOK, Mqtt!KnownIsKept
<1>3. RegistryInv
  <2>0. radio \in BOOLEAN
    BY DEF BridgesInit, Zigbee!Init
  <2>1. /\ named = <<>> /\ name_to_id = [n \in Name |-> 0] /\ ieee_to_id = [a \in Ieee |-> 0]
        /\ handled = [m \in Message |-> NoTask] /\ excused = [n \in Name |-> 0] /\ crashes = 0
    BY DEF BridgesInit, Zigbee!Init, Commands!CommandInit
  <2>2. \A n \in Name : Zigbee!Registered(n) = {}
    BY <2>1 DEF Zigbee!Registered
  <2>3. IsFiniteSet({}) /\ Cardinality({}) = 0
    BY FS_EmptySet
  <2>4. DevicesAreCounted
    BY <2>1, <2>2, <2>3 DEF DevicesAreCounted
  <2>5. OneAtATime /\ AddressesFollow /\ IdsGiven
    BY <2>1 DEF OneAtATime, AddressesFollow, IdsGiven
  <2> QED
    BY <2>0, <2>1, <2>4, <2>5 DEF RegistryInv
<1>4. SessionsInv
  BY SessionsBegin DEF BridgesInit
<1>5. CalmInv
  BY DEF BridgesInit, Matter!Init, CalmInv
<1> QED
  BY <1>1, <1>2, <1>3, <1>4, <1>5 DEF BridgesInv

\* A bridge that stands still keeps what it promises: of what the others change, only the
\* crashes count for it, and they only grow.
LEMMA RegistryKept ==
    ASSUME RegistryInv, UNCHANGED Zigbee!zigbeeVars, crashes' \in Nat, crashes' >= crashes
    PROVE  RegistryInv'
<1>1. UNCHANGED <<radio, named, name_to_id, ieee_to_id, handled, excused>>
  BY DEF Zigbee!zigbeeVars
<1>2. ASSUME NEW n \in Name
      PROVE  /\ IsFiniteSet(Zigbee!Registered(n)')
             /\ Cardinality(Zigbee!Registered(n)')
                  <= (IF name_to_id'[n] # 0 THEN 1 ELSE 0) + excused'[n] + crashes'
  <2>1. Zigbee!Registered(n)' = Zigbee!Registered(n)
    BY <1>1 DEF Zigbee!Registered
  <2>2. /\ IsFiniteSet(Zigbee!Registered(n))
        /\ Cardinality(Zigbee!Registered(n))
             <= (IF name_to_id[n] # 0 THEN 1 ELSE 0) + excused[n] + crashes
    BY DEF RegistryInv, DevicesAreCounted
  <2>3. Cardinality(Zigbee!Registered(n)) \in Nat /\ excused[n] \in Nat /\ crashes \in Nat
    BY <2>2, FS_CardinalityType DEF RegistryInv
  <2>4. Cardinality(Zigbee!Registered(n))
          <= (IF name_to_id[n] # 0 THEN 1 ELSE 0) + excused[n] + crashes'
    BY <2>2, <2>3
  <2> QED
    BY <1>1, <2>1, <2>2, <2>4
<1>3. OneAtATime' /\ AddressesFollow' /\ IdsGiven'
  BY <1>1 DEF RegistryInv, OneAtATime, AddressesFollow, IdsGiven
<1> QED
  BY <1>1, <1>2, <1>3 DEF RegistryInv, DevicesAreCounted

\* Whichever bridge moves, all keep their promises.
LEMMA BridgesStep ==
    ASSUME BridgesInv, [BridgesNext]_bridgeVars PROVE BridgesInv'
<1> USE DEF BridgesInv
<1>1. ASSUME [Commands!CommandNext]_(Commands!commandVars)
      PROVE  CommandInv' /\ crashes' \in Nat /\ crashes' >= crashes
  <2>1. CommandInv'
    BY <1>1, CommandsStep
  <2>2. crashes' = crashes \/ crashes' = crashes + 1
    BY <1>1 DEF Commands!CommandNext, Commands!CommandsLost, Commands!consume,
       Commands!callback_running, Commands!Sent, Commands!callback_final, Commands!row_ends,
       Commands!commandVars
  <2> QED
    BY <2>1, <2>2 DEF CommandInv
<1>2. ASSUME UNCHANGED Mqtt!mqttVars PROVE KnownInv'
  BY <1>2 DEF Mqtt!mqttVars, KnownInv, Mqtt!TypeOK, Mqtt!KnownIsKept
<1>3. ASSUME UNCHANGED Matter!matterVars PROVE SessionsInv' /\ CalmInv'
  <2>1. SessionsInv'
    BY <1>3, SessionsKept DEF Matter!matterVars
  <2>2. CalmInv'
    BY <1>3 DEF Matter!matterVars, CalmInv
  <2> QED
    BY <2>1, <2>2
<1>4. CASE Mqtt!Next /\ UNCHANGED <<Zigbee!zigbeeVars, Matter!matterVars>>
  <2>1. KnownInv' /\ CommandInv' /\ crashes' \in Nat /\ crashes' >= crashes
    BY <1>1, <1>4, KnownStep, MqttCommands
  <2>2. RegistryInv'
    BY <1>4, <2>1, RegistryKept
  <2> QED
    BY <1>3, <1>4, <2>1, <2>2
<1>5. CASE Zigbee!Next /\ UNCHANGED <<Mqtt!mqttVars, Matter!matterVars>>
  <2>1. RegistryInv' /\ CommandInv'
    BY <1>1, <1>5, RegistryStep, ZigbeeCommands
  <2> QED
    BY <1>2, <1>3, <1>5, <2>1
<1>6. CASE Matter!Next /\ UNCHANGED <<Mqtt!mqttVars, Zigbee!zigbeeVars>>
  <2>1. SessionsInv' /\ CalmInv' /\ CommandInv' /\ crashes' \in Nat /\ crashes' >= crashes
    BY <1>1, <1>6, SessionsStep, CalmStep, MatterCommands
  <2>2. RegistryInv'
    BY <1>6, <2>1, RegistryKept
  <2> QED
    BY <1>2, <1>6, <2>1, <2>2
<1>7. CASE UNCHANGED bridgeVars
  <2>1. /\ UNCHANGED Commands!commandVars /\ UNCHANGED Mqtt!mqttVars
        /\ UNCHANGED Zigbee!zigbeeVars /\ UNCHANGED Matter!matterVars
    BY <1>7 DEF bridgeVars
  <2>2. CommandInv' /\ crashes' \in Nat /\ crashes' >= crashes
    BY <1>1, <2>1
  <2> QED
    BY <1>2, <1>3, <2>1, <2>2, RegistryKept
<1> QED
  BY <1>4, <1>5, <1>6, <1>7 DEF BridgesNext

\* What a bridge keeps is what its inductive invariant says, and more.
LEMMA BridgesTypes ==
    ASSUME BridgesInv PROVE BridgesTyped
<1> USE DEF BridgesInv
<1>1. Commands!CommandTypeOK
  BY DEF CommandInv, Commands!CommandTypeOK
<1>2. Mqtt!TypeOK
  BY DEF KnownInv
<1>3. Zigbee!TypeOK
  <2>1. Len(named) \in Nat
    BY DEF RegistryInv
  <2>2. name_to_id \in [Name -> 0..Len(named)] /\ ieee_to_id \in [Ieee -> 0..Len(named)]
    BY <2>1 DEF RegistryInv, IdsGiven
  <2> QED
    BY <2>2 DEF RegistryInv, OneAtATime, Zigbee!TypeOK
<1>4. Matter!TypeOK
  <2>1. orphans \in 0..nodes
    <3>1. Cardinality(Matter!Commissioned) \in Nat
      BY FewSessions, FS_CardinalityType DEF SessionsInv
    <3> QED
      BY <3>1 DEF SessionsInv, SessionsTyped, SessionsCounted
  <2> QED
    BY <2>1 DEF SessionsInv, SessionsTyped, CalmInv, Matter!TypeOK
<1> QED
  BY <1>1, <1>2, <1>3, <1>4 DEF BridgesTyped

\* Rows are what their commands came to; mqtt-bridge forgets no device that exists and was
\* known; in zigbee-bridge a name has no device too many and an address leads nowhere by
\* itself; matter-bridge's sessions, devices and gauge account for each other, and the
\* shadow shows the last change when nothing was lost or overlapped.
THEOREM BridgesStayTrue == BridgesSpec => []BridgesAccount
<1>1. ASSUME BridgesInv PROVE BridgesAccount
  <2>1. Commands!ReportsAreTrue /\ Mqtt!KnownIsKept /\ Matter!CalmShadow
    BY <1>1 DEF BridgesInv, CommandInv, KnownInv, CalmInv, Matter!CalmShadow
  <2>2. Zigbee!RegistryIsRight
    <3>1. \A S : Zigbee!Cardinality(S) = Cardinality(S)
      BY DEF Cardinality, Zigbee!Cardinality
    <3>2. ASSUME NEW n \in Name
          PROVE  Cardinality(Zigbee!Registered(n)) <= 1 + excused[n] + crashes
      <4>1. /\ IsFiniteSet(Zigbee!Registered(n))
            /\ Cardinality(Zigbee!Registered(n))
                 <= (IF name_to_id[n] # 0 THEN 1 ELSE 0) + excused[n] + crashes
        BY <1>1 DEF BridgesInv, RegistryInv, DevicesAreCounted
      <4>2. excused[n] \in Nat /\ crashes \in Nat /\ Cardinality(Zigbee!Registered(n)) \in Nat
        BY <1>1, <4>1, FS_CardinalityType DEF BridgesInv, RegistryInv
      <4> QED
        BY <4>1, <4>2
    <3>3. \A a \in Ieee : ieee_to_id[a] = 0 \/ ieee_to_id[a] \in Zigbee!Range(name_to_id)
      BY <1>1 DEF BridgesInv, RegistryInv, AddressesFollow, Zigbee!Range
    <3> QED
      BY <3>1, <3>2, <3>3 DEF Zigbee!RegistryIsRight
  <2>3. Matter!SessionsAccount
    <3>1. SessionsTyped /\ SessionsApart /\ SessionsCounted
      BY <1>1 DEF BridgesInv, SessionsInv
    <3>2. Matter!Commissioned \subseteq Matter!Sessions
      BY DEF Matter!Commissioned
    <3>3. \A c \in Matter!Commissioned : session[c].device # 0
      BY <3>1 DEF SessionsApart, Matter!Commissioned
    <3> QED
      BY <3>1, <3>2, <3>3, FewSessions DEF Matter!SessionsAccount, SessionsApart, SessionsCounted
  <2> QED
    BY <1>1, <2>1, <2>2, <2>3, BridgesTypes DEF BridgesAccount
<1> QED
  BY <1>1, BridgesBegin, BridgesStep, PTL DEF BridgesSpec

\* The bridges together implement BridgeCommand.
THEOREM BridgesImplement == BridgesSpec => BridgesCommand
<1>1. BridgesInit => Commands!CommandInit
  BY DEF BridgesInit
<1>2. ASSUME [BridgesNext]_bridgeVars PROVE [Commands!CommandNext]_(Commands!commandVars)
  <2>1. ASSUME UNCHANGED bridgeVars PROVE UNCHANGED Commands!commandVars
    BY <2>1 DEF bridgeVars
  <2> QED
    BY <1>2, <2>1, MqttCommands, ZigbeeCommands, MatterCommands DEF BridgesNext
<1> QED
  BY <1>1, <1>2, PTL DEF BridgesSpec, BridgesCommand, Commands!CommandSpec

-----------------------------------------------------------------------------
(* The emulated board: its invariant *)

\* Every execution may be worked on.
Bounds == MaxAgain \in Nat /\ MaxBoots \in Nat /\ MaxRuns \in Nat \ {0}

\* The work of e is under way, past the report that it runs.
Started(e) == \E pc \in {"working", "ack", "succeeded", "failed"} : work = At(pc, e)

\* What the board does with an execution that is not done yet.
Pending(e) == \E pc \in {"running", "working"} : work = At(pc, e)

\* A polling board starts the work of e only when its row leaves "dispatched", and no
\* row comes back there.
StartedOnce ==
    \A e \in Execution :
        /\ Started(e) \/ ran[e] > 0 => row[e] \notin {"queued", "dispatched"}
        /\ work = At("working", e) => ran[e] = 0
        /\ work # At("ack", e)
        /\ ran[e] <= 1

\* A pushed execution is looked at only while the bound leaves room for it.
RoomToRun == \A e \in Execution : Pending(e) => ran[e] < MaxRuns

\* What the board is about to report, and has reported, is of work it has done.
ReportsFollowWork ==
    \A e \in Execution :
        \/ \E pc \in {"ack", "succeeded", "failed"} : work = At(pc, e)
        \/ row[e] \in {"succeeded", "failed"}
        \/ e \in acked
        => ran[e] > 0

\* A board with a tunnel reads no list.
ListIsPolled == mode = "ws" => todo = {}

IInv ==
    /\ ListIsPolled
    /\ mode = "poll" => late = {} /\ StartedOnce
    /\ mode = "ws" => RoomToRun
    /\ ReportsFollowWork

-----------------------------------------------------------------------------
(* Lemmas *)

\* Where the handler can be.
LEMMA WorkShape ==
    ASSUME TypeOK, work # Idle
    PROVE  \E e \in Execution, pc \in {"running", "working", "ack", "succeeded", "failed"} :
              work = At(pc, e) /\ work.of = e /\ work.pc = pc
BY DEF TypeOK, At, Idle

\* Two places are the same only if they are of the same execution.
LEMMA PlacesDiffer ==
    ASSUME NEW a, NEW b, NEW p, NEW q, At(p, a) = At(q, b)
    PROVE  a = b /\ p = q
<1>1. At(p, a).of = a /\ At(q, b).of = b /\ At(p, a).pc = p /\ At(q, b).pc = q
  BY DEF At
<1> QED
  BY <1>1

\* The board's list and the gateway know no place.
LEMMA IdleIsNoPlace == \A p, e : At(p, e) # Idle
<1> SUFFICES ASSUME NEW p, NEW e, At(p, e) = Idle PROVE FALSE
  OBVIOUS
<1>1. "of" \in DOMAIN At(p, e) /\ "of" \notin DOMAIN Idle
  BY DEF At, Idle
<1> QED
  BY <1>1

\* A report of "running" is accepted of a dispatched row alone.
LEMMA RunningFromDispatched ==
    \A s \in VALID_STATUSES : transition_allowed(s, "running") => s = "dispatched"
BY DEF transition_allowed, ALLOWED_TRANSITIONS, VALID_STATUSES, ACTIVE_STATUSES,
       TERMINAL_STATUSES

-----------------------------------------------------------------------------
(* The world and the start of the board *)

\* The invariant speaks of the rows, the handler and what was done.
LEMMA IInvFrame ==
    ASSUME IInv,
           UNCHANGED <<mode, row, work, ran, late, acked>>, ListIsPolled'
    PROVE  IInv'
BY DEF IInv, StartedOnce, RoomToRun, ReportsFollowWork, Started, Pending, At

\* A dispatched row was queued, so nothing was done for it.
LEMMA DispatchKeeps ==
    ASSUME TypeOK, IInv, NEW e \in Execution, dispatch(e)
    PROVE  TypeOK' /\ IInv'
<1>1. row' = [row EXCEPT ![e] = "dispatched"] /\ row[e] = "queued"
      /\ UNCHANGED <<mode, todo, work, ran, late, acked>>
  BY DEF dispatch, rest
<1>2. TypeOK'
  BY <1>1 DEF TypeOK, dispatch, rest, VALID_STATUSES, ACTIVE_STATUSES
<1>3. \A f \in Execution : row'[f] # row[f] => f = e /\ row[f] = "queued" /\ row'[f] = "dispatched"
  BY <1>1 DEF TypeOK
<1>4. StartedOnce => StartedOnce'
  BY <1>1, <1>3 DEF StartedOnce, Started, At
<1>5. RoomToRun => RoomToRun'
  BY <1>1 DEF RoomToRun, Pending, At
<1>6. ReportsFollowWork'
  BY <1>1, <1>3 DEF IInv, ReportsFollowWork, At
<1> QED
  BY <1>1, <1>2, <1>4, <1>5, <1>6 DEF IInv, ListIsPolled

\* A row that is cancelled or timed out says nothing of the work.
LEMMA RowEndsKeeps ==
    ASSUME TypeOK, IInv, NEW e \in Execution, row_ends(e)
    PROVE  TypeOK' /\ IInv'
<1>1. PICK s \in {"cancelled", "timeout"} : row' = [row EXCEPT ![e] = s]
  BY DEF row_ends
<1>2. UNCHANGED <<mode, todo, work, ran, late, acked>>
  BY DEF row_ends, rest
<1>3. TypeOK'
  BY <1>1 DEF TypeOK, row_ends, rest, VALID_STATUSES, TERMINAL_STATUSES
<1>4. \A f \in Execution : row'[f] # row[f] => row'[f] \in {"cancelled", "timeout"}
  BY <1>1 DEF TypeOK
<1>5. StartedOnce => StartedOnce'
  BY <1>2, <1>4 DEF StartedOnce, Started, At
<1>6. RoomToRun => RoomToRun'
  BY <1>2 DEF RoomToRun, Pending, At
<1>7. ReportsFollowWork'
  BY <1>2, <1>4 DEF IInv, ReportsFollowWork, At
<1> QED
  BY <1>2, <1>3, <1>5, <1>6, <1>7 DEF IInv, ListIsPolled

\* What the gateway receives, the registrations, the list and the tunnel.
LEMMA SurroundingsKeep ==
    ASSUME Bounds, TypeOK, IInv,
           \/ \E e \in Execution : dispatch_again(e)
           \/ \E b \in BOOLEAN : _register(b) \/ _register_session(b)
           \/ kill \/ _list_executions \/ connect \/ connection_lost
    PROVE  TypeOK' /\ IInv'
<1>1. CASE \E e \in Execution : dispatch_again(e)
  <2>1. again' \in 0..MaxAgain /\ held' \subseteq Execution
    BY <1>1 DEF Bounds, TypeOK, dispatch_again
  <2>2. UNCHANGED <<mode, board, devices, connected, row, todo, work, ran, late, acked>>
    BY <1>1 DEF dispatch_again, rest
  <2> QED
    BY <2>1, <2>2, IInvFrame DEF TypeOK, IInv, ListIsPolled
<1>2. CASE \E b \in BOOLEAN : _register(b) \/ _register_session(b)
  <2>1. devices' \in 0..MaxBoots /\ board' \in {"boot", "registered", "up", "killed"}
    BY <1>2 DEF Bounds, TypeOK, _register, _register_session
  <2>2. UNCHANGED <<mode, connected, row, held, again, todo, work, ran, late, acked>>
    BY <1>2 DEF _register, _register_session, world
  <2> QED
    BY <2>1, <2>2, IInvFrame DEF TypeOK, IInv, ListIsPolled
<1>3. CASE kill \/ _list_executions \/ connect \/ connection_lost
  <2>1. board' \in {"boot", "registered", "up", "killed"}
    BY <1>3 DEF TypeOK, kill, _list_executions, connect, connection_lost, rest
  <2>2. connected' \in BOOLEAN
    <3>1. connected' = TRUE \/ connected' = FALSE \/ connected' = connected
      BY <1>3 DEF kill, _list_executions, connect, connection_lost, rest, world
    <3>2. connected \in BOOLEAN
      BY DEF TypeOK
    <3> QED
      BY <3>1, <3>2, Zenon
  <2>3. todo' \subseteq Execution /\ ListIsPolled'
    <3>1. mode' = mode
      BY <1>3 DEF kill, _list_executions, connect, connection_lost, rest
    <3>2. CASE kill \/ connect \/ connection_lost
      <4>1. todo' = todo
        BY <3>2 DEF kill, connect, connection_lost
      <4> QED
        BY <3>1, <4>1 DEF TypeOK, IInv, ListIsPolled
    <3>3. CASE _list_executions
      <4>1. mode = "poll" /\ todo' \subseteq Execution
        BY <3>3 DEF _list_executions
      <4> QED
        BY <3>1, <4>1 DEF ListIsPolled
    <3> QED
      BY <1>3, <3>2, <3>3
  <2>4. UNCHANGED <<mode, devices, row, held, again, work, ran, late, acked>>
    BY <1>3 DEF kill, _list_executions, connect, connection_lost, rest, world
  <2> QED
    BY <2>1, <2>2, <2>3, <2>4, IInvFrame DEF TypeOK
<1> QED
  BY <1>1, <1>2, <1>3

-----------------------------------------------------------------------------
(* The handler *)

\* The handler takes up an execution, or none.
LEMMA TakesUp ==
    ASSUME TypeOK, IInv, NEW e \in Execution,
           work' = Idle \/ (work' = At("running", e) /\ (mode = "ws" => ran[e] < MaxRuns)),
           UNCHANGED <<mode, row, ran, late, acked>>, ListIsPolled'
    PROVE  IInv'
<1>1. \A f \in Execution, pc \in {"working", "ack", "succeeded", "failed"} : work' # At(pc, f)
  BY IdleIsNoPlace, PlacesDiffer
<1>2. \A f \in Execution : work' = At("running", f) => f = e /\ work' # Idle
  BY IdleIsNoPlace, PlacesDiffer
<1>3. StartedOnce => StartedOnce'
  BY <1>1 DEF StartedOnce, Started, At
<1>4. mode = "ws" => RoomToRun'
  BY <1>1, <1>2 DEF RoomToRun, Pending, At
<1>5. ReportsFollowWork'
  BY <1>1 DEF IInv, ReportsFollowWork, At
<1> QED
  BY <1>3, <1>4, <1>5 DEF IInv

\* The gateway hands an execution over, or not.
LEMMA DeliverKeeps ==
    ASSUME TypeOK, IInv, NEW e \in Execution, NEW b \in BOOLEAN, deliver(e, b)
    PROVE  TypeOK' /\ IInv'
<1>1. work' = Idle \/ work' = At("running", e)
  BY DEF deliver
<1>2. mode = "poll" /\ ListIsPolled'
  BY DEF deliver, rest, TypeOK, IInv, ListIsPolled
<1>3. IInv'
  BY <1>1, <1>2, TakesUp DEF deliver, rest
<1>4. TypeOK'
  BY <1>1 DEF TypeOK, deliver, rest
<1> QED
  BY <1>3, <1>4

\* The gateway pushes an execution.
LEMMA ControlKeeps ==
    ASSUME TypeOK, IInv, NEW e \in Execution, control(e)
    PROVE  TypeOK' /\ IInv'
<1>1. work' = At("running", e) /\ ran[e] < MaxRuns
  BY DEF control
<1>2. IInv'
  BY <1>1, TakesUp DEF control, rest, world, IInv, ListIsPolled
<1>3. TypeOK'
  BY <1>1 DEF TypeOK, control, rest, world
<1> QED
  BY <1>2, <1>3

\* The acknowledgement follows the work.
LEMMA AckKeeps ==
    ASSUME TypeOK, IInv, NEW result \in {"succeeded", "failed"}, ack(result)
    PROVE  TypeOK' /\ IInv'
<1>1. PICK e \in Execution : work = At("ack", e) /\ work.of = e
  <2>1. work # Idle
    BY DEF ack, Idle
  <2> QED
    BY <2>1, WorkShape DEF ack
<1>2. /\ work' = At(result, e) /\ acked' \subseteq acked \cup {e} /\ held' \subseteq held
      /\ UNCHANGED <<mode, board, devices, connected, row, again, todo, ran, late>>
  BY <1>1 DEF ack, rest
<1>3. \A f \in Execution, pc \in {"running", "working", "ack", "succeeded", "failed"} :
         work' = At(pc, f) => f = e /\ pc = result
  BY <1>2, PlacesDiffer
<1>4. TypeOK'
  BY <1>2 DEF TypeOK
<1>5. StartedOnce => StartedOnce'
  BY <1>1, <1>2, <1>3 DEF StartedOnce, Started
<1>6. RoomToRun => RoomToRun'
  BY <1>2, <1>3 DEF RoomToRun, Pending
<1>7. ran[e] > 0
  BY <1>1 DEF IInv, ReportsFollowWork
<1>8. ReportsFollowWork'
  BY <1>2, <1>3, <1>7 DEF IInv, ReportsFollowWork
<1> QED
  BY <1>2, <1>4, <1>5, <1>6, <1>8 DEF IInv, ListIsPolled

\* The work is done once more: for a polling board this is the first time.
LEMMA ExecuteKeeps ==
    ASSUME Bounds, TypeOK, IInv, NEW result \in {"succeeded", "failed"},
           execute(result) \/ execute_ws
    PROVE  TypeOK' /\ IInv'
<1>1. PICK e \in Execution : work = At("working", e) /\ work.of = e
  <2>1. work # Idle
    BY DEF execute, execute_ws, Work, Idle
  <2> QED
    BY <2>1, WorkShape DEF execute, execute_ws, Work
<1>2. /\ ran' = [ran EXCEPT ![e] = @ + 1]
      /\ \E pc \in {"ack", "succeeded", "failed"} :
           work' = At(pc, e) /\ (pc = "ack" => mode = "ws")
      /\ UNCHANGED <<mode, board, devices, connected, row, held, again, todo, late, acked>>
  BY <1>1 DEF execute, execute_ws, Work, rest, world
<1>3. PICK pc \in {"ack", "succeeded", "failed"} :
         work' = At(pc, e) /\ (pc = "ack" => mode = "ws")
  BY <1>2
<1>4. ran \in [Execution -> 0..MaxRuns] /\ MaxRuns \in Nat \ {0}
  BY DEF TypeOK, Bounds
<1>5. /\ ran[e] < MaxRuns /\ ran'[e] = ran[e] + 1 /\ ran'[e] > 0
      /\ \A f \in Execution : f # e => ran'[f] = ran[f]
  <2>1. mode = "poll" => ran[e] = 0
    BY <1>1 DEF IInv, StartedOnce
  <2>2. mode = "ws" => ran[e] < MaxRuns
    BY <1>1 DEF IInv, RoomToRun, Pending
  <2> QED
    BY <1>2, <1>4, <2>1, <2>2 DEF TypeOK
<1>6. \A f \in Execution, q \in {"running", "working", "ack", "succeeded", "failed"} :
         work' = At(q, f) => f = e /\ q = pc
  BY <1>3, PlacesDiffer
<1>7. TypeOK'
  <2>1. ran' \in [Execution -> 0..MaxRuns]
    BY <1>2, <1>4, <1>5
  <2> QED
    BY <1>2, <1>3, <2>1 DEF TypeOK
<1>8. mode = "poll" /\ StartedOnce => StartedOnce'
  <2> SUFFICES ASSUME mode = "poll", StartedOnce, NEW f \in Execution
               PROVE  /\ Started(f)' \/ ran'[f] > 0 => row'[f] \notin {"queued", "dispatched"}
                      /\ work' = At("working", f) => ran'[f] = 0
                      /\ work' # At("ack", f)
                      /\ ran'[f] <= 1
    BY DEF StartedOnce
  <2>1. row[e] \notin {"queued", "dispatched"} /\ ran[e] = 0
    BY <1>1 DEF StartedOnce, Started
  <2>2. CASE f = e
    BY <1>2, <1>3, <1>5, <1>6, <2>1, <2>2
  <2>3. CASE f # e
    BY <1>2, <1>5, <1>6, <2>3 DEF StartedOnce, Started
  <2> QED
    BY <2>2, <2>3
<1>9. RoomToRun'
  BY <1>6 DEF RoomToRun, Pending
<1>10. ReportsFollowWork'
  BY <1>2, <1>5, <1>6 DEF IInv, ReportsFollowWork
<1> QED
  BY <1>2, <1>7, <1>8, <1>9, <1>10 DEF IInv, ListIsPolled

\* A report, in either mode, writes the status it reports to one row, or nothing.
LEMMA BoardReports ==
    ASSUME TypeOK, NEW e \in Execution, NEW s \in VALID_STATUSES, NEW next,
           report_raised(e, s, next) \/ report_logged(e, s, next)
    PROVE  /\ row' \in [Execution -> VALID_STATUSES]
           /\ \A f \in Execution : row'[f] # row[f] =>
                f = e /\ transition_allowed(row[e], s) /\ row'[f] = s
           /\ todo' = todo \/ todo' = {}
           /\ work' = next \/ work' = Idle
<1>1. \/ row' = row
      \/ row' = [row EXCEPT ![e] = s] /\ transition_allowed(row[e], s)
  <2>1. CASE transition_allowed(row[e], s)
    BY <2>1 DEF report_raised, report_logged
  <2>2. CASE ~transition_allowed(row[e], s)
    <3>1. row' = row \/ row' = [row EXCEPT ![e] = row[e]]
      BY <2>2 DEF report_raised, report_logged
    <3>2. [row EXCEPT ![e] = row[e]] = row
      BY DEF TypeOK
    <3> QED
      BY <3>1, <3>2
  <2> QED
    BY <2>1, <2>2
<1>2. row' \in [Execution -> VALID_STATUSES]
  BY <1>1 DEF TypeOK
<1>3. \A f \in Execution : row'[f] # row[f] =>
         f = e /\ transition_allowed(row[e], s) /\ row'[f] = s
  BY <1>1 DEF TypeOK
<1>4. (todo' = todo \/ todo' = {}) /\ (work' = next \/ work' = Idle)
  BY DEF report_raised, report_logged
<1> QED
  BY <1>2, <1>3, <1>4

\* A row that may be reported running is dispatched, so nothing was done for it yet.
LEMMA CallbackRunningKeeps ==
    ASSUME TypeOK, IInv, callback_running
    PROVE  TypeOK' /\ IInv'
<1>1. PICK e \in Execution : work = At("running", e) /\ work.of = e
  <2>1. work # Idle
    BY DEF callback_running, Idle
  <2> QED
    BY <2>1, WorkShape DEF callback_running
<1>2. /\ \/ mode = "poll" /\ report_raised(e, "running", At("working", e))
         \/ mode = "ws" /\ report_logged(e, "running", At("working", e))
      /\ late' = IF work' # Idle /\ row[e] \in TERMINAL_STATUSES THEN late \cup {e} ELSE late
      /\ UNCHANGED <<mode, board, devices, connected, held, again, ran, acked>>
  BY <1>1 DEF callback_running, rest
<1>3. /\ row' \in [Execution -> VALID_STATUSES]
      /\ \A f \in Execution : row'[f] # row[f] =>
           f = e /\ transition_allowed(row[e], "running") /\ row'[f] = "running"
      /\ todo' = todo \/ todo' = {}
      /\ work' = At("working", e) \/ work' = Idle
  BY <1>2, BoardReports DEF VALID_STATUSES, ACTIVE_STATUSES
<1>4. \A f \in Execution, q \in {"running", "working", "ack", "succeeded", "failed"} :
         work' = At(q, f) => f = e /\ q = "working" /\ work' # Idle
  BY <1>3, PlacesDiffer, IdleIsNoPlace
<1>5. TypeOK'
  <2>1. work' \in {Idle} \cup {At(pc, f) : pc \in {"running", "working", "ack", "succeeded",
                                                   "failed"}, f \in Execution}
    BY <1>3
  <2>2. late' \subseteq Execution
    BY <1>2 DEF TypeOK
  <2> QED
    BY <1>2, <1>3, <2>1, <2>2 DEF TypeOK
<1>6. ASSUME mode = "poll", work' # Idle
      PROVE  row[e] = "dispatched" /\ row'[e] = "running"
  <2>1. transition_allowed(row[e], "running") /\ row' = [row EXCEPT ![e] = "running"]
    BY <1>2, <1>6 DEF report_raised
  <2>2. row[e] \in VALID_STATUSES
    BY DEF TypeOK
  <2> QED
    BY <2>1, <2>2, RunningFromDispatched DEF TypeOK
<1>7. ASSUME mode = "poll" PROVE late' = {} /\ StartedOnce'
  <2>1. late = {} /\ StartedOnce
    BY <1>7 DEF IInv
  <2>2. late' = {}
    BY <1>2, <1>6, <1>7, <2>1 DEF TERMINAL_STATUSES
  <2>3. ASSUME NEW f \in Execution
        PROVE  /\ Started(f)' \/ ran'[f] > 0 => row'[f] \notin {"queued", "dispatched"}
               /\ work' = At("working", f) => ran'[f] = 0
               /\ work' # At("ack", f)
               /\ ran'[f] <= 1
    <3>1. ran'[f] <= 1 /\ work' # At("ack", f)
      BY <1>2, <1>4, <2>1 DEF StartedOnce
    <3>2. work' = At("working", f) => ran'[f] = 0
      <4> SUFFICES ASSUME work' = At("working", f) PROVE ran'[f] = 0
        OBVIOUS
      <4>1. f = e /\ row[f] = "dispatched"
        BY <1>4, <1>6, <1>7
      <4>2. ~(ran[f] > 0) /\ ran[f] \in 0..MaxRuns
        BY <2>1, <4>1 DEF StartedOnce, TypeOK
      <4> QED
        BY <1>2, <4>2
    <3>3. Started(f)' => row'[f] \notin {"queued", "dispatched"}
      BY <1>4, <1>6, <1>7 DEF Started
    <3>4. ran'[f] > 0 => row'[f] \notin {"queued", "dispatched"}
      BY <1>2, <1>3, <2>1 DEF StartedOnce
    <3> QED
      BY <3>1, <3>2, <3>3, <3>4
  <2> QED
    BY <2>2, <2>3 DEF StartedOnce
<1>8. RoomToRun => RoomToRun'
  <2>1. RoomToRun => ran[e] < MaxRuns
    BY <1>1 DEF RoomToRun, Pending
  <2> QED
    BY <1>2, <1>4, <2>1 DEF RoomToRun, Pending
<1>9. ReportsFollowWork'
  BY <1>2, <1>3, <1>4 DEF IInv, ReportsFollowWork
<1> QED
  BY <1>2, <1>3, <1>5, <1>7, <1>8, <1>9 DEF IInv, ListIsPolled

\* How the work went is reported once it is done.
LEMMA CallbackFinalKeeps ==
    ASSUME TypeOK, IInv, callback_final \/ callback_final_ws
    PROVE  TypeOK' /\ IInv'
<1>1. PICK e \in Execution, pc \in {"succeeded", "failed"} :
         work = At(pc, e) /\ work.of = e /\ work.pc = pc
  <2>1. work # Idle
    BY DEF callback_final, callback_final_ws, Idle
  <2> QED
    BY <2>1, WorkShape DEF callback_final, callback_final_ws
<1>2. /\ report_raised(e, pc, Idle) \/ report_logged(e, pc, Idle)
      /\ UNCHANGED <<mode, board, devices, connected, held, again, ran, late, acked>>
  BY <1>1 DEF callback_final, callback_final_ws, rest
<1>3. /\ row' \in [Execution -> VALID_STATUSES]
      /\ \A f \in Execution : row'[f] # row[f] => f = e /\ row'[f] = pc
      /\ todo' = todo \/ todo' = {}
      /\ work' = Idle
  BY <1>2, BoardReports DEF VALID_STATUSES, TERMINAL_STATUSES
<1>4. \A f \in Execution, q \in {"running", "working", "ack", "succeeded", "failed"} :
         work' # At(q, f)
  BY <1>3, IdleIsNoPlace
<1>5. TypeOK'
  BY <1>2, <1>3 DEF TypeOK
<1>6. StartedOnce => StartedOnce'
  BY <1>2, <1>3, <1>4 DEF StartedOnce, Started
<1>7. RoomToRun'
  BY <1>4 DEF RoomToRun, Pending
<1>8. ran[e] > 0
  BY <1>1 DEF IInv, ReportsFollowWork
<1>9. ReportsFollowWork'
  BY <1>2, <1>3, <1>4, <1>8 DEF IInv, ReportsFollowWork
<1> QED
  BY <1>2, <1>3, <1>5, <1>6, <1>7, <1>9 DEF IInv, ListIsPolled

-----------------------------------------------------------------------------
(* Theorems *)

\* Every step keeps the invariant.
LEMMA StepKeeps ==
    ASSUME Bounds, TypeOK, IInv, [Next]_emulatorVars
    PROVE  TypeOK' /\ IInv'
<1>1. CASE UNCHANGED emulatorVars
  <2>1. IInv'
    BY <1>1, IInvFrame DEF emulatorVars, IInv, ListIsPolled
  <2> QED
    BY <1>1, <2>1 DEF TypeOK, emulatorVars
<1>2. CASE \E e \in Execution : dispatch(e) \/ row_ends(e) \/ control(e)
  BY <1>2, DispatchKeeps, RowEndsKeeps, ControlKeeps
<1>3. CASE \E e \in Execution, b \in BOOLEAN : deliver(e, b)
  BY <1>3, DeliverKeeps
<1>4. CASE \E result \in {"succeeded", "failed"} : ack(result) \/ execute(result) \/ execute_ws
  BY <1>4, AckKeeps, ExecuteKeeps
<1>5. CASE callback_running \/ callback_final \/ callback_final_ws
  BY <1>5, CallbackRunningKeeps, CallbackFinalKeeps
<1>6. CASE \/ \E e \in Execution : dispatch_again(e)
           \/ \E b \in BOOLEAN : _register(b) \/ _register_session(b)
           \/ kill \/ _list_executions \/ connect \/ connection_lost
  BY <1>6, SurroundingsKeep
<1> QED
  BY <1>1, <1>2, <1>3, <1>4, <1>5, <1>6 DEF Next

\* The invariant holds throughout.
LEMMA Invariant == ASSUME Bounds PROVE Spec => [](TypeOK /\ IInv)
<1>1. Init => TypeOK /\ IInv
  <2> SUFFICES ASSUME Init PROVE TypeOK /\ IInv
    OBVIOUS
  <2>1. TypeOK
    <3>1. row \in [Execution -> VALID_STATUSES]
      BY DEF Init, VALID_STATUSES, ACTIVE_STATUSES
    <3>2. ran \in [Execution -> 0..MaxRuns] /\ devices \in 0..MaxBoots /\ again \in 0..MaxAgain
      BY DEF Bounds, Init
    <3>3. connected \in BOOLEAN
      BY DEF Init
    <3> QED
      BY <3>1, <3>2, <3>3 DEF Init, TypeOK
  <2>2. \A e \in Execution : row[e] = "queued" /\ ran[e] = 0 /\ \A pc : work # At(pc, e)
    BY IdleIsNoPlace DEF Init
  <2>3. late = {} /\ acked = {} /\ todo = {}
    BY DEF Init
  <2>4. ListIsPolled /\ StartedOnce
    BY <2>2, <2>3 DEF ListIsPolled, StartedOnce, Started
  <2>5. RoomToRun /\ ReportsFollowWork
    BY <2>2, <2>3 DEF RoomToRun, Pending, ReportsFollowWork
  <2> QED
    BY <2>1, <2>3, <2>4, <2>5 DEF IInv
<1>2. TypeOK /\ IInv /\ [Next]_emulatorVars => (TypeOK /\ IInv)'
  BY StepKeeps
<1> QED
  BY <1>1, <1>2, PTL DEF Spec

\* Every variable keeps its type; no execution is worked on more often than the bound
\* of the pushes says, although work has no guard of its own.
THEOREM TypeCorrect == ASSUME Bounds PROVE Spec => []TypeOK
BY Invariant, PTL

\* A board that polls works on an execution at most once, whatever the gateway receives
\* again and whichever reports fail, and every row that says how the work went is of
\* work that was done: _handle_execution.
THEOREM RunsOnceHolds == ASSUME Bounds PROVE Spec => []RunsOnce
<1>1. TypeOK /\ IInv => RunsOnce
  BY DEF RunsOnce, IInv, StartedOnce, ReportsFollowWork
<1> QED
  BY <1>1, Invariant, PTL
=============================================================================
