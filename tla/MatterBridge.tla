----------------------------- MODULE MatterBridge -----------------------------
(***************************************************************************)
(* matter-bridge: commissioning sessions, the watcher that carries         *)
(* attribute changes to the shadow, and the executions of Matter devices.  *)
(* Sessions, node numbers and what was counted are in memory; the devices  *)
(* the bridge registers, here numbers, are device-service's.               *)
(***************************************************************************)
EXTENDS BridgeCommand, FiniteSets

CONSTANTS
    Commissioning,  \* commissioning ids; device-service draws a new one for each request
    NoSession,
    MaxDevices,     \* one for each commissioning
    MaxChanges      \* attribute changes of a node; a bound

VARIABLES
    mode,       \* "real" with a matter-server, else "mock"
    session,    \* _sessions
    used,       \* the ids drawn
    told,       \* what the owner of each was told of it last, through device-service
    next_node,  \* _next_node_id
    devices,    \* devices registered so far
    orphans,    \* those of them no session of this process leads to
    counted,    \* _reported_sessions
    gauge,      \* ACTIVE_NODES
    changes,    \* of each session's node: changes the watcher saw
    patches,    \* shadow updates under way, by the number of their change
    shadow,     \* the change the shadow shows
    mixed       \* sessions of which an update was lost, or overtaken by another

matterVars == <<mode, session, used, told, next_node, devices, orphans, counted, gauge,
                changes, patches, shadow, mixed>>

Sessions == {c \in Commissioning : session[c] # NoSession}
Commissioned == {c \in Sessions : session[c].status = "commissioned"}

Session == [node: Nat, status: {"pending", "paired", "commissioned", "failed"}, device: Nat]

\* What the constants have to be for the proofs.
ConstantsFit == NoSession \notin Session

TypeOK ==
    /\ mode \in {"real", "mock"}
    /\ session \in [Commissioning -> Session \cup {NoSession}]
    /\ told \in [Commissioning -> {"nothing", "pending", "commissioned", "failed"}]
    /\ used \subseteq Commissioning /\ Sessions \subseteq used
    /\ next_node \in Nat /\ devices \in Nat /\ orphans \in 0..devices /\ gauge \in Nat
    /\ counted \subseteq Sessions
    /\ changes \in [Commissioning -> Nat] /\ shadow \in [Commissioning -> Nat]
    /\ patches \in [Commissioning -> SUBSET Nat]
    /\ mixed \subseteq Commissioning

Init ==
    /\ mode \in {"real", "mock"}
    /\ session = [c \in Commissioning |-> NoSession]
    /\ told = [c \in Commissioning |-> "nothing"]
    /\ used = {} /\ counted = {} /\ mixed = {}
    /\ next_node = 1 /\ devices = 0 /\ orphans = 0 /\ gauge = 0
    /\ changes = [c \in Commissioning |-> 0]
    /\ patches = [c \in Commissioning |-> {}]
    /\ shadow = [c \in Commissioning |-> 0]

watching == <<changes, patches, shadow, mixed>>

-----------------------------------------------------------------------------
(* Commissioning *)

start_commissioning(c) ==
    /\ c \notin used
    /\ used' = used \cup {c}
    /\ session' = [session EXCEPT ![c] = [node |-> next_node, status |-> "pending", device |-> 0]]
    /\ next_node' = next_node + 1
    /\ UNCHANGED <<mode, devices, orphans, counted, gauge, watching, commandVars>>

\* device-service draws the id and asks the bridge.  When the answer is lost the owner gets
\* 503 without the id, and the session goes on.
matter_commission(c, answered) ==
    /\ start_commissioning(c)
    /\ told' = IF answered THEN [told EXCEPT ![c] = "pending"] ELSE told

\* The pairing of _run_commissioning, which a matter-server may refuse.
pair(c, ok) ==
    /\ c \in Sessions /\ session[c].status = "pending"
    /\ ~ok => mode = "real"
    /\ session' = [session EXCEPT ![c].status = IF ok THEN "paired" ELSE "failed"]
    /\ UNCHANGED <<mode, used, told, next_node, devices, orphans, counted, gauge, watching,
                   commandVars>>

\* _register_device: a device is made and the answer arrives, or is lost, or none is made.
_register_device(c, made, answered) ==
    /\ c \in Sessions /\ session[c].status = "paired"
    /\ answered => made
    /\ devices' = IF made THEN devices + 1 ELSE devices
    /\ orphans' = IF made /\ ~answered THEN orphans + 1 ELSE orphans
    /\ session' = [session EXCEPT ![c] =
                     IF answered THEN [@ EXCEPT !.status = "commissioned", !.device = devices']
                                 ELSE [@ EXCEPT !.status = "failed"]]
    /\ UNCHANGED <<mode, used, told, next_node, counted, gauge, watching, commandVars>>

\* A poll counts a session that has ended, once.
commission_status(c) ==
    LET ended == c \notin counted /\ session[c].status \in {"commissioned", "failed"} IN
    /\ c \in Sessions
    /\ counted' = IF ended THEN counted \cup {c} ELSE counted
    /\ gauge' = IF ended /\ c \in Commissioned THEN gauge + 1 ELSE gauge
    /\ UNCHANGED <<mode, session, used, next_node, devices, orphans, watching, commandVars>>

\* The owner polls through device-service, with an id they were told.  The answer may be
\* lost; a session that is gone is 404, which tells nothing of the device.
matter_commission_status(c, answered) ==
    /\ told[c] # "nothing"
    /\ commission_status(c)
    /\ told' = IF ~answered THEN told
               ELSE [told EXCEPT ![c] = IF session[c].status = "paired" THEN "pending"
                                        ELSE session[c].status]

-----------------------------------------------------------------------------
(* Attributes *)

\* The watcher sees a change and starts a task that sends it; it does not wait for it.
_handle_attribute_change(c) ==
    /\ mode = "real" /\ c \in Commissioned
    /\ changes[c] < MaxChanges
    /\ changes' = [changes EXCEPT ![c] = @ + 1]
    /\ patches' = [patches EXCEPT ![c] = @ \cup {changes'[c]}]
    /\ mixed' = IF patches[c] = {} THEN mixed ELSE mixed \cup {c}
    /\ UNCHANGED <<mode, session, used, told, next_node, devices, orphans, counted, gauge, shadow,
                   commandVars>>

\* An update arrives, in any order, or is lost.
_patch_shadow_reported(c, p, arrives) ==
    /\ p \in patches[c]
    /\ patches' = [patches EXCEPT ![c] = @ \ {p}]
    /\ shadow' = IF arrives THEN [shadow EXCEPT ![c] = p] ELSE shadow
    /\ mixed' = IF arrives THEN mixed ELSE mixed \cup {c}
    /\ UNCHANGED <<mode, session, used, told, next_node, devices, orphans, counted, gauge, changes,
                   commandVars>>

-----------------------------------------------------------------------------
(* Commands *)

\* A client names a device that exists.
consume_loop(e) ==
    /\ Target(e) \in 1..devices
    /\ consume(e, \E c \in Commissioned : session[c].device = Target(e))
    /\ UNCHANGED matterVars

\* What is logged after the command was sent, and what is logged instead of sending one,
\* names its values in a way the standard logger refuses: the handler raises either way.
send_device_command(e, out) ==
    /\ out => mode = "real"
    /\ Sent(e, out, FALSE)
    /\ UNCHANGED matterVars

command_step(e) ==
    /\ callback_running(e) \/ callback_final(e) \/ row_ends(e)
    /\ UNCHANGED matterVars

\* A restarted bridge has no sessions, counts nodes from one and finds a server or not.
\* A device whose registration was under way may have been made.
crash ==
    /\ CommandsLost
    /\ mode' \in {"real", "mock"}
    /\ \E late \in SUBSET {c \in Sessions : session[c].status = "paired"} :
         devices' = devices + Cardinality(late)
    /\ orphans' = devices'
    /\ session' = [c \in Commissioning |-> NoSession]
    /\ next_node' = 1 /\ counted' = {} /\ gauge' = 0
    /\ patches' = [c \in Commissioning |-> {}]
    /\ mixed' = mixed \cup {c \in Commissioning : patches[c] # {}}
    /\ UNCHANGED <<used, told, changes, shadow>>

Next ==
    \/ crash
    \/ \E c \in Commissioning, b \in BOOLEAN :
         matter_commission(c, b) \/ matter_commission_status(c, b) \/ pair(c, b)
    \/ \E c \in Commissioning, b1, b2 \in BOOLEAN : _register_device(c, b1, b2)
    \/ \E c \in Commissioning : _handle_attribute_change(c)
    \/ \E c \in Commissioning, p \in 1..MaxChanges, b \in BOOLEAN : _patch_shadow_reported(c, p, b)
    \/ \E e \in Execution : consume_loop(e) \/ command_step(e)
    \/ \E e \in Execution, b \in BOOLEAN : send_device_command(e, b)

Spec == CommandInit /\ Init /\ [][Next]_<<commandVars, matterVars>>

-----------------------------------------------------------------------------

\* However sessions overlap, polls repeat and answers are lost: no two sessions of a process
\* have one node or one device, each device is a commissioned session's or an orphan, and the
\* gauge counts the commissioned sessions that were polled; and an owner who was told how a
\* session ended was told right.
SessionsAccount ==
    /\ \A c1, c2 \in Sessions : c1 # c2 =>
         /\ session[c1].node # session[c2].node
         /\ c1 \in Commissioned => session[c1].device # session[c2].device
    /\ devices = orphans + Cardinality(Commissioned)
    /\ gauge = Cardinality(Commissioned \cap counted)
    /\ \A c \in Sessions : told[c] \in {"commissioned", "failed"} =>
                           told[c] = session[c].status /\ c \in counted

\* Once no update is under way, the shadow shows the last change the watcher saw, unless an
\* update was lost or two of them overlapped.
CalmShadow ==
    \A c \in Commissioning : patches[c] = {} /\ c \notin mixed => shadow[c] = changes[c]
=============================================================================
