------------------------------ MODULE MCPlatform ------------------------------
(***************************************************************************)
(* The emulated board, the three bridges and the services around the core, *)
(* on small instances.  They share no state, so one of them moves in a     *)
(* behaviour: `focus` says which.                                          *)
(***************************************************************************)
EXTENDS Emulator, Bridges, PlatformServices, TLC

CONSTANTS e1, e2, i1, i2, n1, n2, a1, a2, c1, c2, t1, t2, r1, k1, q1, q2,
          Focus     \* the modules that move

VARIABLE focus

mqtts == <<link, known, exists, created, forgotten, task>>
zigbees == <<radio, named, name_to_id, ieee_to_id, handled, excused>>
matters == <<server, session, used, told, next_node, nodes, orphans, counted, gauge,
             changes, patches, shadow, mixed>>
bridges == <<command, reported, sent, dropped, raised, crashes, mqtts, zigbees, matters>>
resources == <<audited, owner, commits, trail, open_line, refused, producer, call, events, before, ends>>
policies == <<allows, since, entry, request, answer, audit, unlogged, time>>
insights == <<insight, now, worker, score, fleet_task, draft>>
vars == <<focus, emulatorVars, bridges, resources, policies, insights>>

FirstId(e) == i1
FirstNumber(e) == 1
DeviceLists == {<<<<n1, a1>>>>, <<<<n1, a1>>, <<n2, a2>>>>, <<<<n2, a1>>>>}

\* mqtt-bridge where it does not register the devices it hears of.
StrictMqtt == INSTANCE MqttBridge WITH
    Execution <- Record, MaxCrashes <- MaxRestarts, Target <- IdOf, row <- reported,
    AutoRegister <- FALSE

\* Insights in a table of which risks are computed.
Insight(d, category, severity) ==
    [device |-> d, category |-> category, severity |-> severity, analysed |-> 0, at |-> 0,
     status |-> "open", resolved |-> FALSE, confidence |-> "none"]
Seen == <<Insight(i1, "slo_breach", "warning"), Insight(i1, "slo_breach", "critical"),
          Insight(i1, "anomaly", "info"), Insight(i2, "anomaly", "info")>>
Resolved(some) == [i \in DOMAIN Seen |->
                     IF i \in some THEN [Seen[i] EXCEPT !.status = "resolved", !.resolved = TRUE]
                                   ELSE Seen[i]]

PlatformInit ==
    /\ focus \in Focus
    /\ Init /\ (focus = "board" \/ mode = "poll")
    /\ BridgesInit /\ (focus \in {"matter", "watcher"} \/ server = "real")
    /\ Resources!Init /\ (focus = "resources" \/ (audited /\ producer))
    /\ PolicyCache!Init /\ (focus = "policy" \/ allows[k1])
    /\ \/ focus \notin {"operators", "risk"} /\ Insights!Init
       \/ focus = "operators" /\ Insights!InitWith(Seen)
       \/ focus = "risk" /\ \E some \in SUBSET (1..3) : Insights!InitWith(Resolved(some))

\* Of Matter there are two commissionings and no attribute changes, or one and its changes.
PlatformNext ==
    \/ /\ \/ focus = "mqtt" /\ Mqtt!Next
          \/ focus = "strict" /\ StrictMqtt!Next
       /\ UNCHANGED <<focus, zigbees, matters, emulatorVars, resources, policies, insights>>
    \/ /\ focus = "zigbee" /\ Zigbee!Next
       /\ UNCHANGED <<focus, mqtts, matters, emulatorVars, resources, policies, insights>>
    \/ /\ \/ focus = "matter" /\ UNCHANGED changes /\ Matter!Next
          \/ focus = "watcher" /\ Matter!Next /\ used' \subseteq {c1}
       /\ UNCHANGED <<focus, mqtts, zigbees, emulatorVars, resources, policies, insights>>
    \/ /\ focus = "board" /\ Next
       /\ UNCHANGED <<focus, bridges, resources, policies, insights>>
    \/ /\ focus = "resources" /\ Resources!Next
       /\ UNCHANGED <<focus, emulatorVars, bridges, policies, insights>>
    \/ /\ focus = "policy" /\ PolicyCache!Next
       /\ UNCHANGED <<focus, emulatorVars, bridges, resources, insights>>
    \/ /\ \/ /\ focus = "events"
             /\ Insights!EventSteps({i1}, {"slo_breach", "delivery_risk", "operational_summary"})
          \/ focus = "operators" /\ Insights!OperatorSteps
          \/ focus = "risk" /\ Insights!RiskSteps
          \/ focus = "drafts" /\ Insights!DraftSteps
       /\ UNCHANGED <<focus, emulatorVars, bridges, resources, policies>>

PlatformSpec == PlatformInit /\ [][PlatformNext]_vars

\* Requests, messages and workers, the q's, differ by name alone.
Symmetry == Permutations({q1, q2})
=============================================================================
