---------------------------- MODULE EdgeGateway -----------------------------
(***************************************************************************)
(* nexora-edge: the gateway between the topic execution.dispatched and the *)
(* agents.  Its replicas take dispatch records off Kafka, cache them until *)
(* an agent acknowledges them, and push them over the agents' WebSocket    *)
(* tunnels; an HTTP endpoint hands them to agents that poll.               *)
(*                                                                         *)
(* A replica is one asyncio process.  Every Redis call is an await, so the *)
(* handlers interleave between any two of them: one action is the code     *)
(* from one such await to the next.  (On the local dicts these awaits do   *)
(* not suspend; letting others run there too only adds behaviours.)  The   *)
(* agent is the environment: it opens tunnels, loses them and acknowledges *)
(* what it was sent.                                                       *)
(***************************************************************************)
EXTENDS Naturals, FiniteSets

CONSTANTS
    Exec, NoExec,
    Device, NoDevice, DeviceOf,   \* device each dispatch names, if any
    Gateway,                      \* the replicas
    Redis,                        \* the shared store, beside the local dicts
    Conn, NoConn,                 \* tunnels ever opened
    Delivery,                     \* calls of the HTTP deliver endpoint
    RestGateway,                  \* replicas the REST session calls land on
    RedisEnabled, RedisRequired,
    MaxDeliveryAttempts,
    MaxCopies,                    \* records of one envelope on the topic
    MaxCrashes, MaxOutages

VARIABLES
    topic,      \* records of each dispatch the group has yet to read
    consumer,   \* the consumer loop of each replica
    mode,       \* "redis" (redis_client set), "local" (None) or "down"
    redisUp,
    cached,     \* dispatches in each store
    attempts,   \* delivery_attempts of each cached dispatch
    session,    \* ws_connected of each device's session, in each store
    ws,         \* _ws_connections of each replica
    conn,       \* the handler of each tunnel
    wire,       \* control messages of each tunnel not acknowledged yet
    request,    \* the handler of each deliver call
    beat,       \* the heartbeat handler of each replica
    taken,      \* dispatches the gateway has cached once
    handed,     \* dispatches an agent has acknowledged or fetched
    failed,     \* dispatches a deliver call has reported as delivery_failed
    expired,    \* dispatches Redis dropped after DISPATCH_TTL_SECONDS
    crashes, outages

stores == <<cached, attempts>>
history == <<taken, handed, failed, expired>>
faults == <<redisUp, crashes, outages>>
tunnels == <<ws, conn, wire>>
vars == <<topic, consumer, mode, stores, session, tunnels, request, beat,
          history, faults>>

Place == Gateway \cup {Redis}

ASSUME GatewayAssumption ==
    /\ NoExec \notin Exec /\ NoDevice \notin Device /\ NoConn \notin Conn
    /\ Redis \notin Gateway /\ Gateway # {}
    /\ DeviceOf \in [Exec -> Device \cup {NoDevice}]
    /\ RestGateway \subseteq Gateway
    /\ RedisEnabled \in BOOLEAN /\ RedisRequired \in BOOLEAN
    /\ RedisRequired => RedisEnabled
    /\ MaxDeliveryAttempts \in Nat /\ MaxCopies \in Nat
    /\ MaxCrashes \in Nat /\ MaxOutages \in Nat

-----------------------------------------------------------------------------
SessionValue == {"none", "offline", "connected"}

Loop == [step: {"idle", "cache", "push", "stopped"}, exec: Exec \cup {NoExec}]
Waiting == [step |-> "idle", exec |-> NoExec]

\* A tunnel: where its handler is, the session it read, the keys it has left to
\* replay, whether its socket is up and what its Pub/Sub listener is doing.
Tunnel == [step: {"unused", "accepted", "read", "scan", "replay", "serving",
                  "beating", "leaving", "marking"},
           at: Gateway, device: Device \cup {NoDevice}, seen: SessionValue,
           left: SUBSET Exec, up: BOOLEAN,
           listener: {"none", "starting", "subscribed", "stopped"}]

SomeGateway == CHOOSE g \in Gateway : TRUE

\* An id of Conn no handler is using; ids are used again.
NoTunnel == [step |-> "unused", at |-> SomeGateway, device |-> NoDevice,
             seen |-> "none", left |-> {}, up |-> FALSE, listener |-> "none"]

DeliverCall == [step: {"unused", "session", "attempt", "note", "hand", "drop"},
                at: Gateway, exec: Exec \cup {NoExec}, seen: SessionValue,
                tries: 0..MaxDeliveryAttempts]

NoCall == [step |-> "unused", at |-> SomeGateway, exec |-> NoExec,
           seen |-> "none", tries |-> 0]

Beat == [device: Device \cup {NoDevice}, seen: SessionValue]
NoBeat == [device |-> NoDevice, seen |-> "none"]

TypeOK ==
    /\ topic \in [Exec -> Nat]
    /\ consumer \in [Gateway -> Loop]
    /\ mode \in [Gateway -> {"redis", "local", "down"}]
    /\ redisUp \in BOOLEAN
    /\ cached \in [Place -> SUBSET Exec]
    /\ attempts \in [Place -> [Exec -> 0..MaxDeliveryAttempts]]
    /\ session \in [Place -> [Device -> SessionValue]]
    /\ ws \in [Gateway -> [Device -> Conn \cup {NoConn}]]
    /\ conn \in [Conn -> Tunnel]
    /\ wire \in [Conn -> SUBSET Exec]
    /\ request \in [Delivery -> DeliverCall]
    /\ beat \in [Gateway -> Beat]
    /\ taken \subseteq Exec /\ handed \subseteq Exec
    /\ failed \subseteq Exec /\ expired \subseteq Exec
    /\ crashes \in 0..MaxCrashes /\ outages \in 0..MaxOutages

Init ==
    /\ topic \in [Exec -> 0..MaxCopies]
    /\ consumer = [g \in Gateway |-> Waiting]
    /\ mode = [g \in Gateway |-> IF RedisEnabled THEN "redis" ELSE "local"]
    /\ redisUp = TRUE
    /\ cached = [p \in Place |-> {}]
    /\ attempts = [p \in Place |-> [e \in Exec |-> 0]]
    /\ session = [p \in Place |-> [d \in Device |-> "none"]]
    /\ ws = [g \in Gateway |-> [d \in Device |-> NoConn]]
    /\ conn = [c \in Conn |-> NoTunnel]
    /\ wire = [c \in Conn |-> {}]
    /\ request = [h \in Delivery |-> NoCall]
    /\ beat = [g \in Gateway |-> NoBeat]
    /\ taken = {} /\ handed = {} /\ failed = {} /\ expired = {}
    /\ crashes = 0 /\ outages = 0

-----------------------------------------------------------------------------
(* The stores *)

\* The store each helper reads or writes: Redis, or the replica's own dict when
\* there is no client and on any Redis error.
Home(g) == IF mode[g] = "redis" /\ redisUp THEN Redis ELSE g

Up(g) == mode[g] # "down"

_dispatch_set(g, e, n) ==
    /\ cached' = [cached EXCEPT ![Home(g)] = @ \cup {e}]
    /\ attempts' = [attempts EXCEPT ![Home(g)][e] = n]

_dispatch_delete(g, e) ==
    /\ cached' = [cached EXCEPT ![Home(g)] = @ \ {e}]
    /\ attempts' = [attempts EXCEPT ![Home(g)][e] = 0]

_session_get(g, d) == session[Home(g)][d]

_session_set(g, d, v) == session' = [session EXCEPT ![Home(g)][d] = v]

\* Sending on a dead socket raises and the handler goes on.
_ws_push_dispatch(C, e) ==
    wire' = [c \in Conn |-> IF c \in C /\ conn[c].up THEN wire[c] \cup {e} ELSE wire[c]]

-----------------------------------------------------------------------------
(* The consumer loop *)

_consume_dispatched(g, e) ==
    /\ Up(g)
    /\ consumer[g].step = "idle"
    /\ topic[e] > 0
    /\ topic' = [topic EXCEPT ![e] = @ - 1]
    /\ consumer' = [consumer EXCEPT ![g] = [step |-> "cache", exec |-> e]]
    /\ UNCHANGED <<mode, stores, session, tunnels, request, beat, history, faults>>

cache_dispatch(g) ==
    /\ consumer[g].step = "cache"
    /\ _dispatch_set(g, consumer[g].exec, 0)
    /\ taken' = taken \cup {consumer[g].exec}
    /\ consumer' = [consumer EXCEPT ![g].step = "push"]
    /\ UNCHANGED <<topic, mode, session, tunnels, request, beat, handed, failed,
                   expired, faults>>

Listeners(d) == {c \in Conn : conn[c].listener = "subscribed" /\ conn[c].device = d}

\* Mutant: the entry is dropped once it is pushed, not when it is acknowledged.
push_dispatch_at_most_once(g) ==
    LET e == consumer[g].exec
        d == DeviceOf[e]
        reached == IF d = NoDevice THEN {} ELSE Listeners(d)
    IN  /\ consumer[g].step = "push"
        /\ _ws_push_dispatch(reached, e)
        /\ _dispatch_delete(g, e)
        /\ consumer' = [consumer EXCEPT ![g] = Waiting]
        /\ UNCHANGED <<topic, mode, session, ws, conn, request, beat, history, faults>>

\* Published to whoever has subscribed by now, or sent on the local socket.
push_dispatch(g) ==
    LET e == consumer[g].exec
        d == DeviceOf[e]
        reached == IF d = NoDevice THEN {}
                   ELSE IF mode[g] = "redis" THEN IF redisUp THEN Listeners(d) ELSE {}
                   ELSE {ws[g][d]}
    IN  /\ consumer[g].step = "push"
        /\ _ws_push_dispatch(reached, e)
        /\ consumer' = [consumer EXCEPT ![g] = Waiting]
        /\ UNCHANGED <<topic, mode, stores, session, ws, conn, request, beat,
                       history, faults>>

-----------------------------------------------------------------------------
(* The handler of a tunnel *)

\* An agent has one tunnel: it opens the next when it sees the last one dead,
\* which the gateway may not have noticed yet.
agent_ws_tunnel(c, g, d) ==
    /\ Up(g)
    /\ conn[c].step = "unused"
    /\ \A b \in Conn : conn[b].device = d => ~conn[b].up
    /\ ws' = [ws EXCEPT ![g][d] = c]
    /\ conn' = [conn EXCEPT ![c] = [NoTunnel EXCEPT !.step = "accepted", !.at = g,
                                                   !.device = d, !.up = TRUE]]
    /\ UNCHANGED <<topic, consumer, mode, stores, session, wire, request, beat,
                   history, faults>>

Step(c, from, to) == conn[c].step = from /\ conn' = [conn EXCEPT ![c].step = to]

read_session(c) ==
    /\ conn[c].step = "accepted"
    /\ conn' = [conn EXCEPT ![c].step = "read",
                            ![c].seen = _session_get(conn[c].at, conn[c].device)]
    /\ UNCHANGED <<topic, consumer, mode, stores, session, ws, wire, request, beat,
                   history, faults>>

\* Found or made, the session is written with ws_connected set.
write_session(c) ==
    /\ Step(c, "read", "scan")
    /\ _session_set(conn[c].at, conn[c].device, "connected")
    /\ UNCHANGED <<topic, consumer, mode, stores, ws, wire, request, beat, history,
                   faults>>

\* Mutant: the keys are listed in the replica's own dict.
_ws_replay_pending_local(c) ==
    /\ conn[c].step = "scan"
    /\ conn' = [conn EXCEPT ![c].step = "replay", ![c].left = cached[conn[c].at]]
    /\ UNCHANGED <<topic, consumer, mode, stores, session, ws, wire, request, beat,
                   history, faults>>

\* A Redis error ends the replay: it has no local fallback.
_ws_replay_pending(c) ==
    LET g == conn[c].at
        found == IF mode[g] = "redis" THEN IF redisUp THEN cached[Redis] ELSE {}
                 ELSE cached[g]
    IN  /\ conn[c].step = "scan"
        /\ conn' = [conn EXCEPT ![c].step = "replay", ![c].left = found]
        /\ UNCHANGED <<topic, consumer, mode, stores, session, ws, wire, request,
                       beat, history, faults>>

\* Mutant: the device of the dispatch is not tested.
replay_dispatch_any(c, e) ==
    /\ conn[c].step = "replay"
    /\ e \in conn[c].left
    /\ _ws_push_dispatch({c}, e)
    /\ conn' = [conn EXCEPT ![c].left = @ \ {e}]
    /\ UNCHANGED <<topic, consumer, mode, stores, session, ws, request, beat,
                   history, faults>>

\* Mutant: the replay counts as an attempt and writes the dispatch back.
replay_dispatch_counts(c, e) ==
    /\ conn[c].step = "replay"
    /\ e \in conn[c].left
    /\ _ws_push_dispatch({c}, e)
    /\ _dispatch_set(conn[c].at, e, 1)
    /\ conn' = [conn EXCEPT ![c].left = @ \ {e}]
    /\ UNCHANGED <<topic, consumer, mode, session, ws, request, beat, history, faults>>

\* The value of the next key is read and sent, if it is still there and the
\* device's; the local dict was copied whole.
replay_dispatch(c, e) ==
    LET g == conn[c].at
        aborted == mode[g] = "redis" /\ ~redisUp
        found == mode[g] = "redis" => e \in cached[Redis]
    IN  /\ conn[c].step = "replay"
        /\ e \in conn[c].left
        /\ _ws_push_dispatch(IF ~aborted /\ found /\ DeviceOf[e] = conn[c].device
                             THEN {c} ELSE {}, e)
        /\ conn' = [conn EXCEPT ![c].left = IF aborted THEN {} ELSE @ \ {e}]
        /\ UNCHANGED <<topic, consumer, mode, stores, session, ws, request, beat,
                       history, faults>>

\* The listener is a task of its own: it subscribes when it gets to run.
serve(c) ==
    /\ conn[c].step = "replay"
    /\ conn[c].left = {}
    /\ conn' = [conn EXCEPT ![c].step = "serving",
                            ![c].listener = IF mode[conn[c].at] = "redis"
                                            THEN "starting" ELSE "none"]
    /\ UNCHANGED <<topic, consumer, mode, stores, session, ws, wire, request, beat,
                   history, faults>>

\* An error of Redis ends the listener and nothing starts it again.
_ws_pubsub_listener(c) ==
    /\ conn[c].listener = "starting"
    /\ conn' = [conn EXCEPT ![c].listener = IF redisUp THEN "subscribed" ELSE "stopped"]
    /\ UNCHANGED <<topic, consumer, mode, stores, session, ws, wire, request, beat,
                   history, faults>>

receive_ack(c, e) ==
    /\ conn[c].step = "serving"
    /\ e \in wire[c]
    /\ wire' = [wire EXCEPT ![c] = @ \ {e}]
    /\ _dispatch_delete(conn[c].at, e)
    /\ handed' = handed \cup {e}
    /\ UNCHANGED <<topic, consumer, mode, session, ws, conn, request, beat, taken,
                   failed, expired, faults>>

\* A heartbeat message of the tunnel: the session is read, then written back.
receive_heartbeat(c) ==
    /\ conn[c].step = "serving"
    /\ _session_get(conn[c].at, conn[c].device) # "none"
    /\ conn' = [conn EXCEPT ![c].step = "beating",
                            ![c].seen = _session_get(conn[c].at, conn[c].device)]
    /\ UNCHANGED <<topic, consumer, mode, stores, session, ws, wire, request, beat,
                   history, faults>>

answer_heartbeat(c) ==
    /\ Step(c, "beating", "serving")
    /\ _session_set(conn[c].at, conn[c].device, conn[c].seen)
    /\ UNCHANGED <<topic, consumer, mode, stores, ws, wire, request, beat, history,
                   faults>>

\* Mutant: the entry of the device stays in _ws_connections.
leave_keeping_entry(c) ==
    /\ conn[c].step = "serving"
    /\ ~conn[c].up
    /\ conn' = [conn EXCEPT ![c].step = "leaving", ![c].listener = "none"]
    /\ wire' = [wire EXCEPT ![c] = {}]
    /\ UNCHANGED <<topic, consumer, mode, stores, session, ws, request, beat, history,
                   faults>>

\* The handler of a dead socket: it forgets the device's entry, whoever owns it.
leave(c) ==
    /\ conn[c].step = "serving"
    /\ ~conn[c].up
    /\ conn' = [conn EXCEPT ![c].step = "leaving", ![c].listener = "none"]
    /\ ws' = [ws EXCEPT ![conn[c].at][conn[c].device] = NoConn]
    /\ wire' = [wire EXCEPT ![c] = {}]
    /\ UNCHANGED <<topic, consumer, mode, stores, session, request, beat, history,
                   faults>>

read_session_again(c) ==
    /\ conn[c].step = "leaving"
    /\ conn' = [conn EXCEPT ![c].step = "marking",
                            ![c].seen = _session_get(conn[c].at, conn[c].device)]
    /\ UNCHANGED <<topic, consumer, mode, stores, session, ws, wire, request, beat,
                   history, faults>>

\* Mutant: the session is written back as it was read.
mark_disconnected_as_read(c) ==
    /\ conn[c].step = "marking"
    /\ IF conn[c].seen = "none" THEN UNCHANGED session
       ELSE _session_set(conn[c].at, conn[c].device, conn[c].seen)
    /\ conn' = [conn EXCEPT ![c] = NoTunnel]
    /\ UNCHANGED <<topic, consumer, mode, stores, ws, wire, request, beat, history,
                   faults>>

mark_disconnected(c) ==
    /\ conn[c].step = "marking"
    /\ IF conn[c].seen = "none" THEN UNCHANGED session
       ELSE _session_set(conn[c].at, conn[c].device, "offline")
    /\ conn' = [conn EXCEPT ![c] = NoTunnel]
    /\ UNCHANGED <<topic, consumer, mode, stores, ws, wire, request, beat, history,
                   faults>>

-----------------------------------------------------------------------------
(* The REST endpoints *)

\* The session is replaced, and with it the ws_connected a tunnel had set.
register_agent_session(g, d) ==
    /\ Up(g)
    /\ _session_set(g, d, "offline")
    /\ UNCHANGED <<topic, consumer, mode, stores, tunnels, request, beat, history,
                   faults>>

heartbeat(g, d) ==
    /\ Up(g)
    /\ beat[g] = NoBeat
    /\ _session_get(g, d) # "none"
    /\ beat' = [beat EXCEPT ![g] = [device |-> d, seen |-> _session_get(g, d)]]
    /\ UNCHANGED <<topic, consumer, mode, stores, session, tunnels, request, history,
                   faults>>

\* What was read is written back.
refresh_session(g) ==
    /\ beat[g] # NoBeat
    /\ _session_set(g, beat[g].device, beat[g].seen)
    /\ beat' = [beat EXCEPT ![g] = NoBeat]
    /\ UNCHANGED <<topic, consumer, mode, stores, tunnels, request, history, faults>>

deliver(h, g, e) ==
    /\ Up(g)
    /\ request[h] = NoCall
    /\ e \in cached[Home(g)]
    /\ request' = [request EXCEPT ![h] =
          [NoCall EXCEPT !.step = "session", !.at = g, !.exec = e,
                         !.tries = attempts[Home(g)][e]]]
    /\ UNCHANGED <<topic, consumer, mode, stores, session, tunnels, beat, history,
                   faults>>

\* Read once: the attempts that follow all use this answer.
deliver_session(h) ==
    LET d == DeviceOf[request[h].exec]
    IN  /\ request[h].step = "session"
        /\ request' = [request EXCEPT ![h].step = "attempt",
              ![h].seen = IF d = NoDevice THEN "none" ELSE _session_get(request[h].at, d)]
        /\ UNCHANGED <<topic, consumer, mode, stores, session, tunnels, beat, history,
                       faults>>

\* Mutant: one attempt more than MAX_DELIVERY_ATTEMPTS.
deliver_attempt_one_over(h) ==
    LET n == request[h].tries + 1
    IN  /\ request[h].step = "attempt"
        /\ n <= MaxDeliveryAttempts + 1
        /\ _dispatch_set(request[h].at, request[h].exec, n)
        /\ request' = [request EXCEPT ![h].tries = n,
              ![h].step = IF request[h].seen = "none" THEN "note" ELSE "hand"]
        /\ UNCHANGED <<topic, consumer, mode, session, tunnels, beat, history, faults>>

\* The handler's own copy of the dispatch is written back with each attempt.
deliver_attempt(h) ==
    LET n == request[h].tries + 1
    IN  /\ request[h].step = "attempt"
        /\ n <= MaxDeliveryAttempts
        /\ _dispatch_set(request[h].at, request[h].exec, n)
        /\ request' = [request EXCEPT ![h].tries = n,
              ![h].step = IF request[h].seen = "none" THEN "note" ELSE "hand"]
        /\ UNCHANGED <<topic, consumer, mode, session, tunnels, beat, history, faults>>

\* Mutant: the failed attempt drops the entry.
deliver_note_dropping(h) ==
    /\ request[h].step = "note"
    /\ _dispatch_delete(request[h].at, request[h].exec)
    /\ request' = [request EXCEPT ![h].step = "attempt"]
    /\ UNCHANGED <<topic, consumer, mode, session, tunnels, beat, history, faults>>

\* Without a session the attempt fails, and its error is written as well.
deliver_note(h) ==
    /\ request[h].step = "note"
    /\ _dispatch_set(request[h].at, request[h].exec, request[h].tries)
    /\ request' = [request EXCEPT ![h].step = "attempt"]
    /\ UNCHANGED <<topic, consumer, mode, session, tunnels, beat, history, faults>>

deliver_hand(h) ==
    /\ request[h].step = "hand"
    /\ _dispatch_delete(request[h].at, request[h].exec)
    /\ handed' = handed \cup {request[h].exec}
    /\ request' = [request EXCEPT ![h] = NoCall]
    /\ UNCHANGED <<topic, consumer, mode, session, tunnels, beat, taken, failed,
                   expired, faults>>

\* delivery_failed is published and the entry dropped after it.
deliver_give_up(h) ==
    /\ request[h].step = "attempt"
    /\ request[h].tries = MaxDeliveryAttempts
    /\ failed' = failed \cup {request[h].exec}
    /\ request' = [request EXCEPT ![h].step = "drop"]
    /\ UNCHANGED <<topic, consumer, mode, stores, session, tunnels, beat, taken,
                   handed, expired, faults>>

deliver_drop(h) ==
    /\ request[h].step = "drop"
    /\ _dispatch_delete(request[h].at, request[h].exec)
    /\ request' = [request EXCEPT ![h] = NoCall]
    /\ UNCHANGED <<topic, consumer, mode, session, tunnels, beat, history, faults>>

-----------------------------------------------------------------------------
(* Time, the network and crashes *)

\* Only Redis has a clock: SESSION_TTL_SECONDS and DISPATCH_TTL_SECONDS.
session_expires(d) ==
    /\ session[Redis][d] # "none"
    /\ session' = [session EXCEPT ![Redis][d] = "none"]
    /\ UNCHANGED <<topic, consumer, mode, stores, tunnels, request, beat, history,
                   faults>>

dispatch_expires(e) ==
    /\ e \in cached[Redis]
    /\ cached' = [cached EXCEPT ![Redis] = @ \ {e}]
    /\ attempts' = [attempts EXCEPT ![Redis][e] = 0]
    /\ expired' = expired \cup {e}
    /\ UNCHANGED <<topic, consumer, mode, session, tunnels, request, beat, taken,
                   handed, failed, faults>>

\* The link drops, or the agent dies.
tunnel_breaks(c) ==
    /\ conn[c].up
    /\ conn' = [conn EXCEPT ![c].up = FALSE]
    /\ UNCHANGED <<topic, consumer, mode, stores, session, ws, wire, request, beat,
                   history, faults>>

\* The consumer auto-commits its position: the record it holds is read again
\* after the restart, or not.
crash(g, again) ==
    LET e == consumer[g].exec
    IN  /\ Up(g)
        /\ crashes < MaxCrashes
        /\ crashes' = crashes + 1
        /\ again => e # NoExec
        /\ topic' = IF again THEN [topic EXCEPT ![e] = @ + 1] ELSE topic
        /\ mode' = [mode EXCEPT ![g] = "down"]
        /\ consumer' = [consumer EXCEPT ![g] = [step |-> "stopped", exec |-> NoExec]]
        /\ cached' = [cached EXCEPT ![g] = {}]
        /\ attempts' = [attempts EXCEPT ![g] = [x \in Exec |-> 0]]
        /\ session' = [session EXCEPT ![g] = [d \in Device |-> "none"]]
        /\ ws' = [ws EXCEPT ![g] = [d \in Device |-> NoConn]]
        /\ LET gone == {c \in Conn : conn[c].step # "unused" /\ conn[c].at = g}
           IN  /\ conn' = [c \in Conn |-> IF c \in gone THEN NoTunnel ELSE conn[c]]
               /\ wire' = [c \in Conn |-> IF c \in gone THEN {} ELSE wire[c]]
        /\ request' = [h \in Delivery |->
              IF request[h].at = g THEN NoCall ELSE request[h]]
        /\ beat' = [beat EXCEPT ![g] = NoBeat]
        /\ UNCHANGED <<history, redisUp, outages>>

\* A consumer that cannot reach Kafka as the process starts gives up for good.
startup(g, kafka) ==
    /\ mode[g] = "down"
    /\ RedisRequired => redisUp
    /\ mode' = [mode EXCEPT ![g] = IF RedisEnabled /\ redisUp THEN "redis" ELSE "local"]
    /\ consumer' = IF kafka THEN [consumer EXCEPT ![g] = Waiting] ELSE consumer
    /\ UNCHANGED <<topic, stores, session, tunnels, request, beat, history, faults>>

redis_stops ==
    /\ redisUp
    /\ outages < MaxOutages
    /\ redisUp' = FALSE
    /\ outages' = outages + 1
    /\ conn' = [c \in Conn |-> IF conn[c].listener = "subscribed"
                              THEN [conn[c] EXCEPT !.listener = "stopped"] ELSE conn[c]]
    /\ UNCHANGED <<topic, consumer, mode, stores, session, ws, wire, request, beat,
                   history, crashes>>

redis_recovers ==
    /\ ~redisUp
    /\ redisUp' = TRUE
    /\ UNCHANGED <<topic, consumer, mode, stores, session, tunnels, request, beat,
                   history, crashes, outages>>

-----------------------------------------------------------------------------
Consumer(g) ==
    \/ \E e \in Exec : _consume_dispatched(g, e)
    \/ cache_dispatch(g)
    \/ push_dispatch(g)

Handler(c) ==
    \/ read_session(c)
    \/ write_session(c)
    \/ _ws_replay_pending(c)
    \/ \E e \in Exec : replay_dispatch(c, e)
    \/ serve(c)
    \/ answer_heartbeat(c)
    \/ leave(c)
    \/ read_session_again(c)
    \/ mark_disconnected(c)

DeliverStep(h) ==
    \/ deliver_session(h)
    \/ deliver_attempt(h)
    \/ deliver_note(h)
    \/ deliver_hand(h)
    \/ deliver_give_up(h)
    \/ deliver_drop(h)

Next ==
    \/ \E g \in Gateway : \/ Consumer(g)
                         \/ refresh_session(g)
                         \/ \E b \in BOOLEAN : crash(g, b) \/ startup(g, b)
                         \/ \E c \in Conn, d \in Device : agent_ws_tunnel(c, g, d)
    \/ \E c \in Conn : \/ Handler(c)
                      \/ _ws_pubsub_listener(c)
                      \/ receive_heartbeat(c)
                      \/ tunnel_breaks(c)
                      \/ \E e \in Exec : receive_ack(c, e)
    \/ \E g \in RestGateway, d \in Device : register_agent_session(g, d)
                                          \/ heartbeat(g, d)
    \/ \E h \in Delivery : \/ DeliverStep(h)
                          \/ \E g \in Gateway, e \in Exec : deliver(h, g, e)
    \/ \E d \in Device : session_expires(d)
    \/ \E e \in Exec : dispatch_expires(e)
    \/ redis_stops \/ redis_recovers

Spec == Init /\ [][Next]_vars

\* Each event loop runs what is ready and a pod is restarted.  Nothing says
\* that an agent connects or acknowledges, or that Redis comes back.
Fairness ==
    /\ \A g \in Gateway : WF_vars(Consumer(g)) /\ WF_vars(refresh_session(g))
                         /\ WF_vars(\E b \in BOOLEAN : startup(g, b))
    /\ \A c \in Conn : WF_vars(Handler(c)) /\ WF_vars(_ws_pubsub_listener(c))
    /\ \A h \in Delivery : WF_vars(DeliverStep(h))

FairSpec == Spec /\ Fairness

-----------------------------------------------------------------------------
(* Properties *)

\* At-least-once, ADR-0006: a dispatch the gateway has cached stays in a store
\* until an agent has it, a deliver call has reported its failure or its time to
\* live has passed, whatever crashes and reconnects come in between.
NothingLost ==
    \A e \in taken : \/ \E p \in Place : e \in cached[p]
                    \/ e \in handed \cup failed \cup expired

\* _ws_connections never names a socket whose handler has left.
NoStaleSocket ==
    \A g \in Gateway, d \in Device :
        ws[g][d] # NoConn =>
            LET c == conn[ws[g][d]]
            IN  c.at = g /\ c.device = d /\ c.step \notin {"unused", "leaving", "marking"}

\* A tunnel carries only the dispatches of its own device, whether they were
\* replayed, published or sent directly.
OwnDispatchesOnly ==
    \A c \in Conn : \A e \in wire[c] : DeviceOf[e] = conn[c].device

\* "Disconnect marks ws_connected=False": once the last tunnel of a device is
\* gone its session does not say it is connected.
ClosedIsOffline ==
    \A d \in Device :
        (\A c \in Conn : conn[c].device # d) => session[Redis][d] # "connected"

\* While Redis has answered throughout and no replica has died, no dispatch is lost between
\* deliver calls, acknowledgements and reconnects, and of two tunnels of one device the one
\* that ends last, at whichever replica, leaves the session disconnected.
GatewaysAccount ==
    outages = 0 /\ crashes = 0 => NothingLost /\ ClosedIsOffline

\* "ACK deletes dispatch from cache": a dispatch an agent has is offered again
\* only if another record of its envelope is read.
HandedStaysDeleted ==
    [][\A e \in handed, p \in Place :
          e \in cached'[p] \ cached[p] => \E g \in Gateway : cache_dispatch(g)]_vars

\* "ws_connected: bool - true while a WS connection is open".
FlagTracksTunnel ==
    \A c \in Conn :
        conn[c].step = "serving" /\ conn[c].up /\ session[Redis][conn[c].device] # "none"
            => session[Redis][conn[c].device] = "connected"

\* On reconnect the replay offers every cached dispatch of the device, unless
\* the tunnel breaks again or the dispatch is gone meanwhile.
ReplayReaches ==
    \A c \in Conn, e \in Exec :
        conn[c].step = "accepted" /\ DeviceOf[e] = conn[c].device /\ e \in cached[Redis]
            ~> e \in wire[c] \/ e \notin cached[Redis] \/ ~conn[c].up

\* "This instance, which owns the WS connection, picks it up here and forwards
\* it to the agent": a dispatch cached while the device has a served tunnel
\* reaches it.
PushReaches ==
    \A c \in Conn, e \in Exec :
        conn[c].step = "serving" /\ DeviceOf[e] = conn[c].device /\ e \in cached[Redis]
            ~> e \in wire[c] \/ e \notin cached[Redis] \/ ~conn[c].up
=============================================================================
