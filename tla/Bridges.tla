------------------------------- MODULE Bridges --------------------------------
(***************************************************************************)
(* The three protocol bridges.  Each runs the executions of its devices as *)
(* BridgeCommand says and keeps a registry of its own (MqttBridge,         *)
(* ZigbeeBridge, MatterBridge).                                            *)
(***************************************************************************)
EXTENDS Integers, Sequences, FiniteSets

CONSTANTS
    Record, MaxRestarts, IdOf(_), NumberOf(_),              \* BridgeCommand
    Id, Native, Message, NoTask, MaxCreated, AutoRegister,  \* MqttBridge
    Name, Ieee, Lists, MaxRegistered,                       \* ZigbeeBridge
    Commissioning, NoSession, MaxCommissioned, MaxChanges   \* MatterBridge

VARIABLES
    command, reported, sent, dropped, raised, crashes,          \* BridgeCommand
    link, known, exists, created, forgotten, task,              \* MqttBridge
    radio, named, name_to_id, ieee_to_id, handled, excused,     \* ZigbeeBridge
    server, session, used, told, next_node, nodes, orphans, counted, gauge,
    changes, patches, shadow, mixed                             \* MatterBridge

Commands == INSTANCE BridgeCommand WITH
    Execution <- Record, MaxCrashes <- MaxRestarts, Target <- IdOf, row <- reported
Mqtt == INSTANCE MqttBridge WITH
    Execution <- Record, MaxCrashes <- MaxRestarts, Target <- IdOf, row <- reported
Zigbee == INSTANCE ZigbeeBridge WITH
    Execution <- Record, MaxCrashes <- MaxRestarts, Target <- NumberOf, row <- reported,
    MaxDevices <- MaxRegistered, link <- radio, devices <- named, task <- handled
Matter == INSTANCE MatterBridge WITH
    Execution <- Record, MaxCrashes <- MaxRestarts, Target <- NumberOf, row <- reported,
    MaxDevices <- MaxCommissioned, mode <- server, devices <- nodes

\* Lists name devices with their addresses, and NoSession is none of the sessions.
ASSUME BridgeAssumption == Zigbee!ConstantsFit /\ Matter!ConstantsFit

bridgeVars == <<Commands!commandVars, Mqtt!mqttVars, Zigbee!zigbeeVars, Matter!matterVars>>

BridgesInit == Commands!CommandInit /\ Mqtt!Init /\ Zigbee!Init /\ Matter!Init

\* Whichever bridge moves.  They share the records here, so what one of them does by
\* itself is a behaviour in which the others stand still.
BridgesNext ==
    \/ Mqtt!Next /\ UNCHANGED <<Zigbee!zigbeeVars, Matter!matterVars>>
    \/ Zigbee!Next /\ UNCHANGED <<Mqtt!mqttVars, Matter!matterVars>>
    \/ Matter!Next /\ UNCHANGED <<Mqtt!mqttVars, Zigbee!zigbeeVars>>

BridgesSpec == BridgesInit /\ [][BridgesNext]_bridgeVars

-----------------------------------------------------------------------------

\* Each bridge keeps its commands, tasks and registries within their types.
BridgesTyped ==
    /\ Commands!CommandTypeOK
    /\ Mqtt!TypeOK /\ Zigbee!TypeOK /\ Matter!TypeOK

\* A bridge reports what its commands did and nothing else, and its registry follows
\* the devices behind it: over MQTT, Zigbee and Matter.
BridgesAccount ==
    /\ BridgesTyped /\ Commands!ReportsAreTrue
    /\ Mqtt!KnownIsKept /\ Zigbee!RegistryIsRight
    /\ Matter!SessionsAccount /\ Matter!CalmShadow

\* Whatever a bridge's registry does meanwhile, of its commands it does only what
\* BridgeCommand allows: no report overwrites a row that ended, and none skips "running".
BridgesCommand == Commands!CommandSpec
=============================================================================
