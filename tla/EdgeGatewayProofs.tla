-------------------------- MODULE EdgeGatewayProofs --------------------------
(***************************************************************************)
(* Theorems of EdgeGateway, for every set of replicas, devices, tunnels    *)
(* and dispatches and every bound.                                         *)
(***************************************************************************)
EXTENDS EdgeGateway, TLAPS

USE GatewayAssumption

-----------------------------------------------------------------------------
(* Types *)

\* The record of an unused tunnel is a tunnel.
LEMMA NoTunnelType == NoTunnel \in Tunnel
BY DEF NoTunnel, Tunnel, SomeGateway, SessionValue

\* The record of an unused deliver call is one.
LEMMA NoCallType == NoCall \in DeliverCall
BY DEF NoCall, DeliverCall, SomeGateway, SessionValue

\* A replica reads and writes one of the stores.
LEMMA HomeType ==
    ASSUME NEW g \in Gateway
    PROVE  Home(g) \in Place
BY DEF Home, Place

\* Caching a dispatch keeps the types of the stores.
LEMMA SetType ==
    ASSUME TypeOK, NEW g \in Gateway, NEW e \in Exec,
           NEW n \in 0..MaxDeliveryAttempts, _dispatch_set(g, e, n)
    PROVE  /\ cached' \in [Place -> SUBSET Exec]
           /\ attempts' \in [Place -> [Exec -> 0..MaxDeliveryAttempts]]
BY HomeType DEF TypeOK, _dispatch_set

\* Dropping a dispatch keeps the types of the stores.
LEMMA DeleteType ==
    ASSUME TypeOK, NEW g \in Gateway, NEW e \in Exec, _dispatch_delete(g, e)
    PROVE  /\ cached' \in [Place -> SUBSET Exec]
           /\ attempts' \in [Place -> [Exec -> 0..MaxDeliveryAttempts]]
BY HomeType DEF TypeOK, _dispatch_delete

\* What a session read returns is a session value.
LEMMA SessionRead ==
    ASSUME TypeOK, NEW g \in Gateway, NEW d \in Device
    PROVE  _session_get(g, d) \in SessionValue
BY HomeType DEF TypeOK, _session_get

\* Writing a session value keeps the type of the sessions.
LEMMA SessionWrite ==
    ASSUME TypeOK, NEW g \in Gateway, NEW d \in Device, NEW v \in SessionValue,
           _session_set(g, d, v)
    PROVE  session' \in [Place -> [Device -> SessionValue]]
BY HomeType DEF TypeOK, _session_set

\* Pushing a dispatch keeps the type of the wires.
LEMMA PushType ==
    ASSUME TypeOK, NEW C, NEW e \in Exec, _ws_push_dispatch(C, e)
    PROVE  wire' \in [Conn -> SUBSET Exec]
BY DEF TypeOK, _ws_push_dispatch

\* The consumer loop keeps the types, for it pushes only a dispatch it holds.
Held ==
    \A g \in Gateway : consumer[g].step \in {"cache", "push"} => consumer[g].exec \in Exec

\* The consumer loop keeps the types, and holds a record while it works.
LEMMA ConsumerType ==
    ASSUME TypeOK, Held, NEW g \in Gateway, Consumer(g)
    PROVE  TypeOK' /\ Held'
<1>h. consumer[g].step \in {"cache", "push"} => consumer[g].exec \in Exec
  BY DEF Held
<1>z. 0 \in 0..MaxDeliveryAttempts
  OBVIOUS
<1>1. ASSUME NEW e \in Exec, _consume_dispatched(g, e)
      PROVE  TypeOK' /\ Held'
  BY <1>1 DEF _consume_dispatched, TypeOK, Held, Loop, stores, tunnels, history, faults
<1>2. CASE cache_dispatch(g)
  <2>1. consumer[g].exec \in Exec
    BY <1>2, <1>h DEF cache_dispatch
  <2>2. /\ cached' \in [Place -> SUBSET Exec]
        /\ attempts' \in [Place -> [Exec -> 0..MaxDeliveryAttempts]]
    BY <1>2, <1>z, <2>1, SetType DEF cache_dispatch
  <2>. DEFINE l == [consumer[g] EXCEPT !.step = "push"]
  <2>3. l \in Loop /\ l.exec \in Exec
    BY <2>1 DEF TypeOK, Loop
  <2>4. consumer' = [consumer EXCEPT ![g] = l]
    BY <1>2 DEF cache_dispatch, TypeOK
  <2>5. consumer' \in [Gateway -> Loop] /\ Held'
    BY <2>3, <2>4 DEF TypeOK, Held
  <2>. QED
    BY <1>2, <2>1, <2>2, <2>5 DEF cache_dispatch, TypeOK, tunnels, faults
<1>3. CASE push_dispatch(g)
  <2>1. consumer[g].exec \in Exec
    BY <1>3, <1>h DEF push_dispatch
  <2>2. wire' \in [Conn -> SUBSET Exec]
    BY <1>3, <2>1, PushType DEF push_dispatch
  <2>. QED
    BY <1>3, <2>2 DEF push_dispatch, TypeOK, Held, Loop, stores, history, faults, Waiting
<1>. QED
  BY <1>1, <1>2, <1>3 DEF Consumer

\* A tunnel in use has a device.
Owned == \A c \in Conn : conn[c].step # "unused" => conn[c].device \in Device

\* The handler of c moves on to t, and keeps its device until it ends.
LEMMA MoveType ==
    ASSUME TypeOK, Owned, NEW c \in Conn, NEW t \in Tunnel,
           t.step # "unused" => t.device \in Device,
           conn' = [conn EXCEPT ![c] = t]
    PROVE  conn' \in [Conn -> Tunnel] /\ Owned'
BY DEF TypeOK, Owned

\* The handler of a tunnel and its listener keep the types.
LEMMA TunnelType ==
    ASSUME TypeOK, Owned, NEW c \in Conn,
           \/ Handler(c) \/ _ws_pubsub_listener(c) \/ receive_heartbeat(c)
           \/ tunnel_breaks(c) \/ \E e \in Exec : receive_ack(c, e)
    PROVE  TypeOK' /\ Owned'
<1>c. conn[c] \in Tunnel
  BY DEF TypeOK
<1>g. conn[c].at \in Gateway /\ conn[c].seen \in SessionValue /\ conn[c].left \subseteq Exec
  BY <1>c DEF Tunnel
<1>d. conn[c].step # "unused" => conn[c].device \in Device
  BY DEF Owned
<1>s. conn[c].step # "unused" =>
        _session_get(conn[c].at, conn[c].device) \in SessionValue
  BY <1>g, <1>d, SessionRead
<1>1. CASE read_session(c)
  <2>. DEFINE t == [conn[c] EXCEPT !.step = "read",
                     !.seen = _session_get(conn[c].at, conn[c].device)]
  <2>1. t \in Tunnel /\ (t.step # "unused" => t.device \in Device)
    BY <1>1, <1>c, <1>g, <1>d, <1>s DEF read_session, Tunnel
  <2>2. conn' = [conn EXCEPT ![c] = t]
    BY <1>1 DEF read_session, TypeOK
  <2>3. conn' \in [Conn -> Tunnel] /\ Owned'
    BY <2>1, <2>2, MoveType
  <2>. QED
    BY <1>1, <2>3 DEF read_session, TypeOK, stores, tunnels, history, faults
<1>2. CASE write_session(c)
  <2>. DEFINE t == [conn[c] EXCEPT !.step = "scan"]
  <2>1. t \in Tunnel /\ (t.step # "unused" => t.device \in Device)
    BY <1>2, <1>c, <1>g, <1>d DEF write_session, Tunnel, Step
  <2>2. conn' = [conn EXCEPT ![c] = t]
    BY <1>2 DEF write_session, TypeOK, Step
  <2>3. conn' \in [Conn -> Tunnel] /\ Owned'
    BY <2>1, <2>2, MoveType
  <2>4. session' \in [Place -> [Device -> SessionValue]]
    BY <1>2, <1>g, <1>d, SessionWrite DEF write_session, Step, SessionValue
  <2>. QED
    BY <1>2, <2>3, <2>4 DEF write_session, TypeOK, stores, tunnels, history, faults
<1>3. CASE _ws_replay_pending(c)
  <2>. DEFINE t == [conn[c] EXCEPT !.step = "replay",
             !.left = IF mode[conn[c].at] = "redis"
                      THEN IF redisUp THEN cached[Redis] ELSE {}
                      ELSE cached[conn[c].at]]
  <2>1. t \in Tunnel /\ (t.step # "unused" => t.device \in Device)
    BY <1>3, <1>c, <1>g, <1>d DEF _ws_replay_pending, Tunnel, TypeOK, Place
  <2>2. conn' = [conn EXCEPT ![c] = t]
    BY <1>3 DEF _ws_replay_pending, TypeOK
  <2>3. conn' \in [Conn -> Tunnel] /\ Owned'
    BY <2>1, <2>2, MoveType
  <2>. QED
    BY <1>3, <2>3 DEF _ws_replay_pending, TypeOK, stores, tunnels, history, faults
<1>4. ASSUME NEW e \in Exec, replay_dispatch(c, e)
      PROVE  TypeOK' /\ Owned'
  <2>. DEFINE t == [conn[c] EXCEPT !.left =
             IF mode[conn[c].at] = "redis" /\ ~redisUp THEN {} ELSE @ \ {e}]
  <2>1. t \in Tunnel /\ (t.step # "unused" => t.device \in Device)
    BY <1>4, <1>c, <1>g, <1>d DEF replay_dispatch, Tunnel
  <2>2. conn' = [conn EXCEPT ![c] = t]
    BY <1>4 DEF replay_dispatch, TypeOK
  <2>3. conn' \in [Conn -> Tunnel] /\ Owned'
    BY <2>1, <2>2, MoveType
  <2>4. wire' \in [Conn -> SUBSET Exec]
    BY <1>4, PushType DEF replay_dispatch
  <2>. QED
    BY <1>4, <2>3, <2>4 DEF replay_dispatch, TypeOK, stores, tunnels, history, faults
<1>5. CASE serve(c)
  <2>. DEFINE t == [conn[c] EXCEPT !.step = "serving",
             !.listener = IF mode[conn[c].at] = "redis" THEN "starting" ELSE "none"]
  <2>1. t \in Tunnel /\ (t.step # "unused" => t.device \in Device)
    BY <1>5, <1>c, <1>g, <1>d DEF serve, Tunnel
  <2>2. conn' = [conn EXCEPT ![c] = t]
    BY <1>5 DEF serve, TypeOK
  <2>3. conn' \in [Conn -> Tunnel] /\ Owned'
    BY <2>1, <2>2, MoveType
  <2>. QED
    BY <1>5, <2>3 DEF serve, TypeOK, stores, tunnels, history, faults
<1>6. CASE _ws_pubsub_listener(c)
  <2>. DEFINE t == [conn[c] EXCEPT !.listener = IF redisUp THEN "subscribed" ELSE "stopped"]
  <2>1. t \in Tunnel /\ (t.step # "unused" => t.device \in Device)
    BY <1>6, <1>c, <1>g, <1>d DEF _ws_pubsub_listener, Tunnel
  <2>2. conn' = [conn EXCEPT ![c] = t]
    BY <1>6 DEF _ws_pubsub_listener, TypeOK
  <2>3. conn' \in [Conn -> Tunnel] /\ Owned'
    BY <2>1, <2>2, MoveType
  <2>. QED
    BY <1>6, <2>3 DEF _ws_pubsub_listener, TypeOK, stores, tunnels, history, faults
<1>7. ASSUME NEW e \in Exec, receive_ack(c, e)
      PROVE  TypeOK' /\ Owned'
  <2>1. /\ cached' \in [Place -> SUBSET Exec]
        /\ attempts' \in [Place -> [Exec -> 0..MaxDeliveryAttempts]]
    BY <1>7, <1>g, DeleteType DEF receive_ack
  <2>. QED
    BY <1>7, <2>1 DEF receive_ack, TypeOK, Owned, faults
<1>8. CASE receive_heartbeat(c)
  <2>. DEFINE t == [conn[c] EXCEPT !.step = "beating",
                     !.seen = _session_get(conn[c].at, conn[c].device)]
  <2>1. t \in Tunnel /\ (t.step # "unused" => t.device \in Device)
    BY <1>8, <1>c, <1>g, <1>d, <1>s DEF receive_heartbeat, Tunnel
  <2>2. conn' = [conn EXCEPT ![c] = t]
    BY <1>8 DEF receive_heartbeat, TypeOK
  <2>3. conn' \in [Conn -> Tunnel] /\ Owned'
    BY <2>1, <2>2, MoveType
  <2>. QED
    BY <1>8, <2>3 DEF receive_heartbeat, TypeOK, stores, tunnels, history, faults
<1>9. CASE answer_heartbeat(c)
  <2>. DEFINE t == [conn[c] EXCEPT !.step = "serving"]
  <2>1. t \in Tunnel /\ (t.step # "unused" => t.device \in Device)
    BY <1>9, <1>c, <1>g, <1>d DEF answer_heartbeat, Tunnel, Step
  <2>2. conn' = [conn EXCEPT ![c] = t]
    BY <1>9 DEF answer_heartbeat, TypeOK, Step
  <2>3. conn' \in [Conn -> Tunnel] /\ Owned'
    BY <2>1, <2>2, MoveType
  <2>4. session' \in [Place -> [Device -> SessionValue]]
    BY <1>9, <1>g, <1>d, SessionWrite DEF answer_heartbeat, Step, SessionValue
  <2>. QED
    BY <1>9, <2>3, <2>4 DEF answer_heartbeat, TypeOK, stores, tunnels, history, faults
<1>10. CASE leave(c)
  <2>. DEFINE t == [conn[c] EXCEPT !.step = "leaving", !.listener = "none"]
  <2>1. t \in Tunnel /\ (t.step # "unused" => t.device \in Device)
    BY <1>10, <1>c, <1>g, <1>d DEF leave, Tunnel
  <2>2. conn' = [conn EXCEPT ![c] = t]
    BY <1>10 DEF leave, TypeOK
  <2>3. conn' \in [Conn -> Tunnel] /\ Owned'
    BY <2>1, <2>2, MoveType
  <2>. QED
    BY <1>10, <2>3 DEF leave, TypeOK, stores, tunnels, history, faults
<1>11. CASE read_session_again(c)
  <2>. DEFINE t == [conn[c] EXCEPT !.step = "marking",
                     !.seen = _session_get(conn[c].at, conn[c].device)]
  <2>1. t \in Tunnel /\ (t.step # "unused" => t.device \in Device)
    BY <1>11, <1>c, <1>g, <1>d, <1>s DEF read_session_again, Tunnel
  <2>2. conn' = [conn EXCEPT ![c] = t]
    BY <1>11 DEF read_session_again, TypeOK
  <2>3. conn' \in [Conn -> Tunnel] /\ Owned'
    BY <2>1, <2>2, MoveType
  <2>. QED
    BY <1>11, <2>3 DEF read_session_again, TypeOK, stores, tunnels, history, faults
<1>12. CASE mark_disconnected(c)
  <2>. DEFINE t == NoTunnel
  <2>1. t \in Tunnel /\ (t.step # "unused" => t.device \in Device)
    BY <1>12, <1>c, <1>g, <1>d, NoTunnelType DEF mark_disconnected, Tunnel, NoTunnel
  <2>2. conn' = [conn EXCEPT ![c] = t]
    BY <1>12 DEF mark_disconnected, TypeOK
  <2>3. conn' \in [Conn -> Tunnel] /\ Owned'
    BY <2>1, <2>2, MoveType
  <2>4. session' \in [Place -> [Device -> SessionValue]]
    BY <1>12, <1>g, <1>d, SessionWrite DEF mark_disconnected, SessionValue, TypeOK
  <2>. QED
    BY <1>12, <2>3, <2>4 DEF mark_disconnected, TypeOK, stores, tunnels, history, faults
<1>13. CASE tunnel_breaks(c)
  <2>. DEFINE t == [conn[c] EXCEPT !.up = FALSE]
  <2>1. t \in Tunnel /\ (t.step # "unused" => t.device \in Device)
    BY <1>13, <1>c, <1>g, <1>d DEF tunnel_breaks, Tunnel
  <2>2. conn' = [conn EXCEPT ![c] = t]
    BY <1>13 DEF tunnel_breaks, TypeOK
  <2>3. conn' \in [Conn -> Tunnel] /\ Owned'
    BY <2>1, <2>2, MoveType
  <2>. QED
    BY <1>13, <2>3 DEF tunnel_breaks, TypeOK, stores, tunnels, history, faults
<1>. QED
  BY <1>1, <1>2, <1>3, <1>4, <1>5, <1>6, <1>7, <1>8, <1>9, <1>10, <1>11, <1>12,
     <1>13 DEF Handler

\* A deliver call in progress has a dispatch, a heartbeat a device.
Called == \A h \in Delivery : request[h].step # "unused" => request[h].exec \in Exec
Beating == \A g \in Gateway : beat[g] # NoBeat => beat[g].device \in Device

\* A deliver call that changes one field is still a deliver call.
LEMMA CallType ==
    ASSUME TypeOK, Called, NEW h \in Delivery, NEW r \in DeliverCall,
           r.step # "unused" => r.exec \in Exec,
           request' = [request EXCEPT ![h] = r]
    PROVE  request' \in [Delivery -> DeliverCall] /\ Called'
BY DEF TypeOK, Called

\* The deliver endpoint keeps the types.
LEMMA DeliverType ==
    ASSUME TypeOK, Called, NEW h \in Delivery,
           DeliverStep(h) \/ \E g \in Gateway, e \in Exec : deliver(h, g, e)
    PROVE  TypeOK' /\ Called'
<1>r. request[h] \in DeliverCall
  BY DEF TypeOK
<1>g. /\ request[h].at \in Gateway /\ request[h].seen \in SessionValue
      /\ request[h].tries \in 0..MaxDeliveryAttempts
  BY <1>r DEF DeliverCall
<1>e. request[h].step # "unused" => request[h].exec \in Exec
  BY DEF Called
<1>1. ASSUME NEW g \in Gateway, NEW e \in Exec, deliver(h, g, e)
      PROVE  TypeOK' /\ Called'
  <2>. DEFINE r == [NoCall EXCEPT !.step = "session", !.at = g, !.exec = e,
                                  !.tries = attempts[Home(g)][e]]
  <2>1. attempts[Home(g)][e] \in 0..MaxDeliveryAttempts
    BY HomeType DEF TypeOK
  <2>2. r \in DeliverCall /\ r.exec \in Exec
    BY <2>1, NoCallType DEF DeliverCall
  <2>3. request' = [request EXCEPT ![h] = r]
    BY <1>1 DEF deliver
  <2>4. request' \in [Delivery -> DeliverCall] /\ Called'
    BY <2>2, <2>3, CallType
  <2>. QED
    BY <1>1, <2>4 DEF deliver, TypeOK, stores, tunnels, history, faults
<1>2. CASE deliver_session(h)
  <2>. DEFINE d == DeviceOf[request[h].exec]
              v == IF d = NoDevice THEN "none" ELSE _session_get(request[h].at, d)
              r == [request[h] EXCEPT !.step = "attempt", !.seen = v]
  <2>1. request[h].exec \in Exec
    BY <1>2, <1>e DEF deliver_session
  <2>2. d \in Device \cup {NoDevice}
    BY <2>1
  <2>3. v \in SessionValue
    BY <2>2, <1>g, SessionRead DEF SessionValue
  <2>4. r \in DeliverCall /\ r.exec \in Exec
    BY <1>r, <2>1, <2>3 DEF DeliverCall
  <2>5. request' = [request EXCEPT ![h] = r]
    BY <1>2 DEF deliver_session, TypeOK
  <2>6. request' \in [Delivery -> DeliverCall] /\ Called'
    BY <2>4, <2>5, CallType
  <2>. QED
    BY <1>2, <2>6 DEF deliver_session, TypeOK, stores, tunnels, history, faults
<1>3. CASE deliver_attempt(h)
  <2>. DEFINE n == request[h].tries + 1
              r == [request[h] EXCEPT !.tries = n,
                      !.step = IF request[h].seen = "none" THEN "note" ELSE "hand"]
  <2>1. request[h].exec \in Exec
    BY <1>3, <1>e DEF deliver_attempt
  <2>2. n \in 0..MaxDeliveryAttempts
    BY <1>3, <1>g DEF deliver_attempt
  <2>3. r \in DeliverCall /\ r.exec \in Exec
    BY <1>r, <2>1, <2>2 DEF DeliverCall
  <2>4. request' = [request EXCEPT ![h] = r]
    BY <1>3 DEF deliver_attempt, TypeOK
  <2>5. request' \in [Delivery -> DeliverCall] /\ Called'
    BY <2>3, <2>4, CallType
  <2>6. /\ cached' \in [Place -> SUBSET Exec]
        /\ attempts' \in [Place -> [Exec -> 0..MaxDeliveryAttempts]]
    BY <1>3, <1>g, <2>1, <2>2, SetType DEF deliver_attempt
  <2>. QED
    BY <1>3, <2>5, <2>6 DEF deliver_attempt, TypeOK, tunnels, history, faults
<1>4. CASE deliver_note(h)
  <2>. DEFINE r == [request[h] EXCEPT !.step = "attempt"]
  <2>1. request[h].exec \in Exec
    BY <1>4, <1>e DEF deliver_note
  <2>2. r \in DeliverCall /\ r.exec \in Exec
    BY <1>r, <2>1 DEF DeliverCall
  <2>3. request' = [request EXCEPT ![h] = r]
    BY <1>4 DEF deliver_note, TypeOK
  <2>4. request' \in [Delivery -> DeliverCall] /\ Called'
    BY <2>2, <2>3, CallType
  <2>5. /\ cached' \in [Place -> SUBSET Exec]
        /\ attempts' \in [Place -> [Exec -> 0..MaxDeliveryAttempts]]
    BY <1>4, <1>g, <2>1, SetType DEF deliver_note
  <2>. QED
    BY <1>4, <2>4, <2>5 DEF deliver_note, TypeOK, tunnels, history, faults
<1>5. CASE deliver_hand(h) \/ deliver_drop(h)
  <2>1. request[h].exec \in Exec
    BY <1>5, <1>e DEF deliver_hand, deliver_drop
  <2>2. request' \in [Delivery -> DeliverCall] /\ Called'
    BY <1>5, NoCallType, CallType DEF deliver_hand, deliver_drop, NoCall
  <2>3. /\ cached' \in [Place -> SUBSET Exec]
        /\ attempts' \in [Place -> [Exec -> 0..MaxDeliveryAttempts]]
    BY <1>5, <1>g, <2>1, DeleteType DEF deliver_hand, deliver_drop
  <2>. QED
    BY <1>5, <2>1, <2>2, <2>3
    DEF deliver_hand, deliver_drop, TypeOK, tunnels, history, faults
<1>6. CASE deliver_give_up(h)
  <2>. DEFINE r == [request[h] EXCEPT !.step = "drop"]
  <2>1. request[h].exec \in Exec
    BY <1>6, <1>e DEF deliver_give_up
  <2>2. r \in DeliverCall /\ r.exec \in Exec
    BY <1>r, <2>1 DEF DeliverCall
  <2>3. request' = [request EXCEPT ![h] = r]
    BY <1>6 DEF deliver_give_up, TypeOK
  <2>4. request' \in [Delivery -> DeliverCall] /\ Called'
    BY <2>2, <2>3, CallType
  <2>. QED
    BY <1>6, <2>1, <2>4 DEF deliver_give_up, TypeOK, stores, tunnels, faults
<1>. QED
  BY <1>1, <1>2, <1>3, <1>4, <1>5, <1>6 DEF DeliverStep

\* The REST session calls keep the types.
LEMMA SessionsType ==
    ASSUME TypeOK, Beating, NEW g \in Gateway,
           \/ refresh_session(g)
           \/ \E d \in Device : register_agent_session(g, d) \/ heartbeat(g, d)
    PROVE  TypeOK' /\ Beating'
<1>b. beat[g] \in Beat /\ NoBeat \in Beat
  BY DEF TypeOK, Beat, NoBeat, SessionValue
<1>1. CASE refresh_session(g)
  <2>1. beat[g].device \in Device /\ beat[g].seen \in SessionValue
    BY <1>1, <1>b DEF refresh_session, Beating, Beat
  <2>2. session' \in [Place -> [Device -> SessionValue]]
    BY <1>1, <2>1, SessionWrite DEF refresh_session
  <2>. QED
    BY <1>1, <1>b, <2>2
    DEF refresh_session, TypeOK, Beating, stores, tunnels, history, faults
<1>2. ASSUME NEW d \in Device, register_agent_session(g, d)
      PROVE  TypeOK' /\ Beating'
  <2>1. session' \in [Place -> [Device -> SessionValue]]
    BY <1>2, SessionWrite DEF register_agent_session, SessionValue
  <2>. QED
    BY <1>2, <2>1
    DEF register_agent_session, TypeOK, Beating, stores, tunnels, history, faults
<1>3. ASSUME NEW d \in Device, heartbeat(g, d)
      PROVE  TypeOK' /\ Beating'
  <2>. DEFINE b == [device |-> d, seen |-> _session_get(g, d)]
  <2>1. b \in Beat /\ b.device \in Device
    BY SessionRead DEF Beat
  <2>2. beat' = [beat EXCEPT ![g] = b]
    BY <1>3 DEF heartbeat
  <2>. QED
    BY <1>3, <2>1, <2>2 DEF heartbeat, TypeOK, Beating, stores, tunnels, history, faults
<1>. QED
  BY <1>1, <1>2, <1>3

Types == TypeOK /\ Held /\ Owned /\ Called /\ Beating

\* A tunnel opens.
LEMMA OpenType ==
    ASSUME Types, NEW c \in Conn, NEW g \in Gateway, NEW d \in Device,
           agent_ws_tunnel(c, g, d)
    PROVE  Types'
<1>. DEFINE t == [NoTunnel EXCEPT !.step = "accepted", !.at = g, !.device = d,
                                  !.up = TRUE]
<1>1. t \in Tunnel /\ t.device \in Device
  BY NoTunnelType DEF Tunnel
<1>2. conn' = [conn EXCEPT ![c] = t]
  BY DEF agent_ws_tunnel
<1>3. conn' \in [Conn -> Tunnel] /\ Owned'
  BY <1>1, <1>2, MoveType DEF Types
<1>. QED
  BY <1>3 DEF agent_ws_tunnel, Types, TypeOK, Held, Called, Beating, stores, history,
              faults

\* A replica stops or starts.
LEMMA ProcessType ==
    ASSUME Types, NEW g \in Gateway, NEW b \in BOOLEAN, crash(g, b) \/ startup(g, b)
    PROVE  Types'
<1>1. CASE crash(g, b)
  <2>1. topic' \in [Exec -> Nat]
    BY <1>1 DEF crash, Types, TypeOK, Loop
  <2>2. consumer' \in [Gateway -> Loop] /\ Held'
    BY <1>1 DEF crash, Types, TypeOK, Loop, Held
  <2>3. /\ cached' \in [Place -> SUBSET Exec]
        /\ attempts' \in [Place -> [Exec -> 0..MaxDeliveryAttempts]]
    BY <1>1 DEF crash, Types, TypeOK, Place
  <2>4. session' \in [Place -> [Device -> SessionValue]]
    BY <1>1 DEF crash, Types, TypeOK, Place, SessionValue
  <2>5. ws' \in [Gateway -> [Device -> Conn \cup {NoConn}]]
    BY <1>1 DEF crash, Types, TypeOK
  <2>6. conn' \in [Conn -> Tunnel] /\ Owned'
    BY <1>1, NoTunnelType DEF crash, Types, TypeOK, Owned, NoTunnel
  <2>7. wire' \in [Conn -> SUBSET Exec]
    BY <1>1 DEF crash, Types, TypeOK
  <2>8. request' \in [Delivery -> DeliverCall] /\ Called'
    BY <1>1, NoCallType DEF crash, Types, TypeOK, Called, NoCall
  <2>9. beat' \in [Gateway -> Beat] /\ Beating'
    BY <1>1 DEF crash, Types, TypeOK, Beat, NoBeat, Beating, SessionValue
  <2>10. mode' \in [Gateway -> {"redis", "local", "down"}]
    BY <1>1 DEF crash, Types, TypeOK
  <2>11. crashes' \in 0..MaxCrashes
    BY <1>1 DEF crash, Types, TypeOK
  <2>. QED
    BY <1>1, <2>1, <2>2, <2>3, <2>4, <2>5, <2>6, <2>7, <2>8, <2>9, <2>10, <2>11
    DEF crash, Types, TypeOK, history
<1>2. CASE startup(g, b)
  <2>1. consumer' \in [Gateway -> Loop] /\ Held'
    BY <1>2 DEF startup, Types, TypeOK, Loop, Held, Waiting
  <2>. QED
    BY <1>2, <2>1
    DEF startup, Types, TypeOK, Owned, Called, Beating, stores, tunnels, history, faults
<1>. QED
  BY <1>1, <1>2

\* Redis drops an entry, stops or recovers.
LEMMA RedisType ==
    ASSUME Types,
           \/ \E d \in Device : session_expires(d)
           \/ \E e \in Exec : dispatch_expires(e)
           \/ redis_stops \/ redis_recovers
    PROVE  Types'
<1> USE DEF Types, TypeOK, Held, Called, Beating
<1>1. ASSUME NEW d \in Device, session_expires(d)
      PROVE  Types'
  BY <1>1 DEF session_expires, Owned, SessionValue, stores, tunnels, history, faults
<1>2. ASSUME NEW e \in Exec, dispatch_expires(e)
      PROVE  Types'
  <2>1. 0 \in 0..MaxDeliveryAttempts
    OBVIOUS
  <2>2. /\ cached' \in [Place -> SUBSET Exec]
        /\ attempts' \in [Place -> [Exec -> 0..MaxDeliveryAttempts]]
    BY <1>2, <2>1 DEF dispatch_expires
  <2>. QED
    BY <1>2, <2>2 DEF dispatch_expires, Owned, tunnels, faults
<1>3. CASE redis_stops
  <2>1. ASSUME NEW c \in Conn
        PROVE  [conn[c] EXCEPT !.listener = "stopped"] \in Tunnel
    <3>1. conn[c] \in Tunnel
      OBVIOUS
    <3>. QED
      BY <3>1 DEF Tunnel
  <2>2. conn' \in [Conn -> Tunnel]
    BY <1>3, <2>1 DEF redis_stops
  <2>3. ASSUME NEW c \in Conn
        PROVE  conn'[c].step = conn[c].step /\ conn'[c].device = conn[c].device
    <3>1. conn[c] \in Tunnel
      OBVIOUS
    <3>2. conn'[c] \in {conn[c], [conn[c] EXCEPT !.listener = "stopped"]}
      BY <1>3 DEF redis_stops
    <3>. QED
      BY <3>1, <3>2 DEF Tunnel
  <2>4. Owned'
    BY <2>3 DEF Owned
  <2>5. outages' \in 0..MaxOutages
    BY <1>3 DEF redis_stops
  <2>6. redisUp' \in BOOLEAN
    BY <1>3 DEF redis_stops
  <2>7. UNCHANGED <<topic, consumer, mode, stores, session, ws, wire, request, beat,
                    history, crashes>>
    BY <1>3 DEF redis_stops
  <2>. QED
    BY <2>2, <2>4, <2>5, <2>6, <2>7 DEF stores, history
<1>4. CASE redis_recovers
  BY <1>4 DEF redis_recovers, Owned, stores, tunnels, history
<1>. QED
  BY <1>1, <1>2, <1>3, <1>4

\* The invariant holds as the replicas start.
LEMMA TypesInit == Init => Types
<1> SUFFICES ASSUME Init PROVE Types
  OBVIOUS
<1> USE DEF Init
<1>1. /\ consumer \in [Gateway -> Loop] /\ Held
      /\ topic \in [Exec -> Nat] /\ mode \in [Gateway -> {"redis", "local", "down"}]
  BY DEF Loop, Held, Waiting
<1>2. /\ cached \in [Place -> SUBSET Exec]
      /\ attempts \in [Place -> [Exec -> 0..MaxDeliveryAttempts]]
      /\ session \in [Place -> [Device -> SessionValue]]
  BY DEF SessionValue
<1>3. /\ ws \in [Gateway -> [Device -> Conn \cup {NoConn}]]
      /\ conn \in [Conn -> Tunnel] /\ Owned
      /\ wire \in [Conn -> SUBSET Exec]
  BY NoTunnelType DEF Owned, NoTunnel
<1>4. /\ request \in [Delivery -> DeliverCall] /\ Called
      /\ beat \in [Gateway -> Beat] /\ Beating
  BY NoCallType DEF Called, NoCall, Beating, NoBeat, Beat, SessionValue
<1>. QED
  BY <1>1, <1>2, <1>3, <1>4 DEF Types, TypeOK

\* Every step keeps the invariant.
LEMMA TypesStep == Types /\ [Next]_vars => Types'
<1> SUFFICES ASSUME Types, [Next]_vars PROVE Types'
  OBVIOUS
<1> USE DEF Types
<1>1. ASSUME NEW g \in Gateway, Consumer(g)
      PROVE  Types'
  <2>1. UNCHANGED <<conn, request, beat>>
    BY <1>1 DEF Consumer, _consume_dispatched, cache_dispatch, push_dispatch, tunnels
  <2>. QED
    BY <1>1, <2>1, ConsumerType DEF Owned, Called, Beating
<1>2. ASSUME NEW c \in Conn,
             \/ Handler(c) \/ _ws_pubsub_listener(c) \/ receive_heartbeat(c)
             \/ tunnel_breaks(c) \/ \E e \in Exec : receive_ack(c, e)
      PROVE  Types'
  <2>1. UNCHANGED <<consumer, request, beat>>
    BY <1>2 DEF Handler, read_session, write_session, _ws_replay_pending, replay_dispatch,
         serve, answer_heartbeat, leave, read_session_again, mark_disconnected,
         _ws_pubsub_listener, receive_heartbeat, tunnel_breaks, receive_ack
  <2>. QED
    BY <1>2, <2>1, TunnelType DEF Held, Called, Beating
<1>3. ASSUME NEW h \in Delivery,
             DeliverStep(h) \/ \E g \in Gateway, e \in Exec : deliver(h, g, e)
      PROVE  Types'
  <2>1. UNCHANGED <<consumer, conn, beat>>
    BY <1>3 DEF DeliverStep, deliver, deliver_session, deliver_attempt, deliver_note,
         deliver_hand, deliver_give_up, deliver_drop, tunnels
  <2>. QED
    BY <1>3, <2>1, DeliverType DEF Held, Owned, Beating
<1>4. ASSUME NEW g \in Gateway,
             \/ refresh_session(g)
             \/ \E d \in Device : register_agent_session(g, d) \/ heartbeat(g, d)
      PROVE  Types'
  <2>1. UNCHANGED <<consumer, conn, request>>
    BY <1>4 DEF refresh_session, register_agent_session, heartbeat, tunnels
  <2>. QED
    BY <1>4, <2>1, SessionsType DEF Held, Owned, Called
<1>5. CASE UNCHANGED vars
  BY <1>5 DEF vars, stores, history, faults, tunnels, TypeOK, Held, Owned, Called, Beating
<1>. QED
  BY <1>1, <1>2, <1>3, <1>4, <1>5, OpenType, ProcessType, RedisType DEF Next

\* Every variable keeps its type, for any deployment.
THEOREM TypeCorrect == Spec => []TypeOK
<1>1. Init => Types
  BY TypesInit
<1>2. Types /\ [Next]_vars => Types'
  BY TypesStep
<1>. QED
  BY <1>1, <1>2, PTL DEF Spec, Types

-----------------------------------------------------------------------------
(***************************************************************************)
(* What EdgeGateway promises of tunnels and of cached dispatches, for      *)
(* every deployment.                                                       *)
(***************************************************************************)

-----------------------------------------------------------------------------
(* Tunnels *)

Gone == {"unused", "leaving", "marking"}

\* A tunnel whose handler has left carries nothing and is sent nothing more.
GoneIsSilent ==
    \A c \in Conn : conn[c].step \in Gone => ~conn[c].up /\ wire[c] = {}

Sockets == NoStaleSocket /\ OwnDispatchesOnly /\ GoneIsSilent

\* An entry of _ws_connections names a tunnel of its own replica and device
\* whose handler has not left.
LEMMA Registered ==
    ASSUME Types, NoStaleSocket, NEW g \in Gateway, NEW d \in Device, ws[g][d] # NoConn
    PROVE  /\ ws[g][d] \in Conn
           /\ conn[ws[g][d]].at = g /\ conn[ws[g][d]].device = d
           /\ conn[ws[g][d]].step \notin Gone
BY DEF Types, TypeOK, NoStaleSocket, Gone

\* Nothing about tunnels changes.
LEMMA SocketsKept ==
    ASSUME Sockets, UNCHANGED tunnels
    PROVE  Sockets'
BY DEF Sockets, NoStaleSocket, OwnDispatchesOnly, GoneIsSilent, tunnels

\* A push to tunnels of the dispatch's device.
LEMMA PushKeeps ==
    ASSUME Types, Sockets, NEW C, NEW e \in Exec, _ws_push_dispatch(C, e),
           \A c \in C \cap Conn : DeviceOf[e] = conn[c].device,
           UNCHANGED ws,
           \A c \in Conn : /\ conn'[c].at = conn[c].at /\ conn'[c].device = conn[c].device
                           /\ conn'[c].step = conn[c].step /\ conn'[c].up = conn[c].up
    PROVE  Sockets'
<1>1. \A c \in Conn : wire'[c] \in {wire[c], wire[c] \cup {e}}
  BY DEF _ws_push_dispatch
<1>2. \A c \in Conn : wire'[c] # wire[c] => c \in C /\ conn[c].up
  BY DEF _ws_push_dispatch
<1>3. NoStaleSocket'
  BY Registered DEF Sockets, NoStaleSocket, Gone
<1>4. OwnDispatchesOnly'
  BY <1>1, <1>2 DEF Sockets, OwnDispatchesOnly
<1>5. GoneIsSilent'
  BY <1>2 DEF Sockets, GoneIsSilent
<1>. QED
  BY <1>3, <1>4, <1>5 DEF Sockets

\* Handlers stay where they are; a socket may break.
LEMMA StillKeeps ==
    ASSUME Types, Sockets, UNCHANGED <<ws, wire>>,
           \A c \in Conn : /\ conn'[c].at = conn[c].at /\ conn'[c].device = conn[c].device
                           /\ conn'[c].step = conn[c].step /\ (conn'[c].up => conn[c].up)
    PROVE  Sockets'
<1>1. NoStaleSocket'
  BY Registered DEF Sockets, NoStaleSocket, Gone
<1>. QED
  BY <1>1 DEF Sockets, OwnDispatchesOnly, GoneIsSilent

\* The handler of c moves on without leaving.
LEMMA MoveKeeps ==
    ASSUME Types, Sockets, NEW c \in Conn,
           conn[c].step \notin Gone, conn'[c].step \notin Gone,
           conn'[c].at = conn[c].at, conn'[c].device = conn[c].device,
           \A b \in Conn : b # c => conn'[b] = conn[b], UNCHANGED <<ws, wire>>
    PROVE  Sockets'
<1>1. NoStaleSocket'
  BY Registered DEF Sockets, NoStaleSocket, Gone
<1>2. OwnDispatchesOnly'
  BY DEF Sockets, OwnDispatchesOnly
<1>3. GoneIsSilent'
  BY DEF Sockets, GoneIsSilent
<1>. QED
  BY <1>1, <1>2, <1>3 DEF Sockets

\* A tunnel that has left moves on, or ends.
LEMMA GoneKeeps ==
    ASSUME Types, Sockets, NEW c \in Conn,
           conn[c].step \in Gone, conn'[c].step \in Gone, ~conn'[c].up,
           \A b \in Conn : b # c => conn'[b] = conn[b], UNCHANGED <<ws, wire>>
    PROVE  Sockets'
<1>1. ASSUME NEW g \in Gateway, NEW d \in Device
      PROVE  ws[g][d] # c
  <2>1. c # NoConn
    OBVIOUS
  <2>2. ws[g][d] # NoConn => conn[ws[g][d]].step \notin Gone
    BY Registered DEF Sockets
  <2>. QED
    BY <2>1, <2>2
<1>2. NoStaleSocket'
  BY <1>1, Registered DEF Sockets, NoStaleSocket, Gone
<1>3. OwnDispatchesOnly'
  BY DEF Sockets, OwnDispatchesOnly, GoneIsSilent
<1>4. GoneIsSilent'
  BY DEF Sockets, GoneIsSilent
<1>. QED
  BY <1>2, <1>3, <1>4 DEF Sockets

\* No socket is registered as the replicas start.
LEMMA SocketsInit == Init => Sockets
BY DEF Init, Sockets, NoStaleSocket, OwnDispatchesOnly, GoneIsSilent, Gone, NoTunnel

\* Every step keeps the registered sockets, the silence of the tunnels that
\* have left and the device of what a tunnel carries.
LEMMA SocketsStep == Types /\ Sockets /\ [Next]_vars => Sockets'
<1> SUFFICES ASSUME Types, Sockets, [Next]_vars PROVE Sockets'
  OBVIOUS
<1>t. \A c \in Conn : conn[c] \in Tunnel
  BY DEF Types, TypeOK
<1>1. ASSUME NEW g \in Gateway, Consumer(g)
      PROVE  Sockets'
  <2>1. CASE UNCHANGED tunnels
    BY <2>1, SocketsKept
  <2>2. CASE push_dispatch(g)
    <3>. DEFINE e == consumer[g].exec
                d == DeviceOf[e]
                C == IF d = NoDevice THEN {}
                     ELSE IF mode[g] = "redis" THEN IF redisUp THEN Listeners(d) ELSE {}
                     ELSE {ws[g][d]}
    <3>1. e \in Exec
      BY <2>2 DEF push_dispatch, Types, Held
    <3>2. d # NoDevice => d \in Device
      BY <3>1
    <3>3. \A c \in C \cap Conn : conn[c].device = d
      BY <3>2, Registered DEF Sockets, Listeners
    <3>4. _ws_push_dispatch(C, e) /\ UNCHANGED <<ws, conn>>
      BY <2>2 DEF push_dispatch
    <3>. HIDE DEF C, e
    <3>. QED
      BY <3>1, <3>3, <3>4, PushKeeps
  <2>. QED
    BY <1>1, <2>1, <2>2 DEF Consumer, _consume_dispatched, cache_dispatch
<1>2. ASSUME NEW c \in Conn,
             \/ read_session(c) \/ write_session(c) \/ _ws_replay_pending(c)
             \/ serve(c) \/ receive_heartbeat(c) \/ answer_heartbeat(c)
      PROVE  Sockets'
  <2>1. /\ conn[c].step \notin Gone /\ conn'[c].step \notin Gone
        /\ conn'[c].at = conn[c].at /\ conn'[c].device = conn[c].device
        /\ \A b \in Conn : b # c => conn'[b] = conn[b]
    <3> USE DEF Step, Gone, Types, TypeOK, Tunnel
    <3>1. CASE read_session(c)
      BY <3>1, <1>t DEF read_session
    <3>2. CASE write_session(c)
      BY <3>2, <1>t DEF write_session
    <3>3. CASE _ws_replay_pending(c)
      BY <3>3, <1>t DEF _ws_replay_pending
    <3>4. CASE serve(c)
      BY <3>4, <1>t DEF serve
    <3>5. CASE receive_heartbeat(c)
      BY <3>5, <1>t DEF receive_heartbeat
    <3>6. CASE answer_heartbeat(c)
      BY <3>6, <1>t DEF answer_heartbeat
    <3>. QED
      BY <1>2, <3>1, <3>2, <3>3, <3>4, <3>5, <3>6
  <2>2. UNCHANGED <<ws, wire>>
    BY <1>2 DEF read_session, write_session, _ws_replay_pending, serve,
         receive_heartbeat, answer_heartbeat
  <2>. QED
    BY <2>1, <2>2, MoveKeeps
<1>3. ASSUME NEW c \in Conn, NEW e \in Exec, replay_dispatch(c, e)
      PROVE  Sockets'
  <2>. DEFINE C == IF /\ ~(mode[conn[c].at] = "redis" /\ ~redisUp)
                      /\ mode[conn[c].at] = "redis" => e \in cached[Redis]
                      /\ DeviceOf[e] = conn[c].device THEN {c} ELSE {}
  <2>1. \A b \in C \cap Conn : DeviceOf[e] = conn[b].device
    OBVIOUS
  <2>2. _ws_push_dispatch(C, e) /\ UNCHANGED ws
    BY <1>3 DEF replay_dispatch
  <2>3. \A b \in Conn : /\ conn'[b].at = conn[b].at /\ conn'[b].device = conn[b].device
                        /\ conn'[b].step = conn[b].step /\ conn'[b].up = conn[b].up
    BY <1>3, <1>t DEF replay_dispatch, Types, TypeOK, Tunnel
  <2>. HIDE DEF C
  <2>. QED
    BY <2>1, <2>2, <2>3, PushKeeps
<1>4. ASSUME NEW c \in Conn, _ws_pubsub_listener(c) \/ tunnel_breaks(c)
      PROVE  Sockets'
  <2>1. \A b \in Conn : /\ conn'[b].at = conn[b].at /\ conn'[b].device = conn[b].device
                        /\ conn'[b].step = conn[b].step /\ (conn'[b].up => conn[b].up)
    <3>1. conn[c] \in Tunnel
      BY <1>t
    <3>2. CASE _ws_pubsub_listener(c)
      <4>. DEFINE l == IF redisUp THEN "subscribed" ELSE "stopped"
      <4>1. conn' = [conn EXCEPT ![c] = [conn[c] EXCEPT !.listener = l]]
        BY <3>2 DEF _ws_pubsub_listener, Types, TypeOK
      <4>. HIDE DEF l
      <4>. QED
        BY <3>1, <4>1 DEF Types, TypeOK, Tunnel
    <3>3. CASE tunnel_breaks(c)
      <4>1. conn' = [conn EXCEPT ![c] = [conn[c] EXCEPT !.up = FALSE]]
        BY <3>3 DEF tunnel_breaks, Types, TypeOK
      <4>. QED
        BY <3>1, <4>1 DEF Types, TypeOK, Tunnel
    <3>. QED
      BY <1>4, <3>2, <3>3
  <2>2. UNCHANGED <<ws, wire>>
    BY <1>4 DEF _ws_pubsub_listener, tunnel_breaks
  <2>. QED
    BY <2>1, <2>2, StillKeeps
<1>5. ASSUME NEW c \in Conn, NEW e \in Exec, receive_ack(c, e)
      PROVE  Sockets'
  BY <1>5 DEF receive_ack, Sockets, NoStaleSocket, OwnDispatchesOnly, GoneIsSilent, Gone,
              Types, TypeOK
<1>6. ASSUME NEW c \in Conn, leave(c)
      PROVE  Sockets'
  <2>1. /\ conn'[c].step = "leaving" /\ ~conn'[c].up
        /\ \A b \in Conn : b # c => conn'[b] = conn[b]
        /\ conn[c].at \in Gateway /\ conn[c].device \in Device
    BY <1>6, <1>t DEF leave, Types, TypeOK, Tunnel, Owned
  <2>2. wire'[c] = {} /\ \A b \in Conn : b # c => wire'[b] = wire[b]
    BY <1>6 DEF leave, Types, TypeOK
  <2>3. ASSUME NEW g \in Gateway, NEW d \in Device, ws'[g][d] # NoConn
        PROVE  ws'[g][d] = ws[g][d] /\ ws[g][d] # c
    <3>1. ws'[g][d] = ws[g][d] /\ (g # conn[c].at \/ d # conn[c].device)
      BY <1>6, <2>1, <2>3 DEF leave, Types, TypeOK
    <3>. QED
      BY <2>3, <3>1, Registered DEF Sockets
  <2>4. NoStaleSocket'
    BY <2>1, <2>3, Registered DEF Sockets, NoStaleSocket, Gone
  <2>. QED
    BY <2>1, <2>2, <2>4 DEF Sockets, OwnDispatchesOnly, GoneIsSilent
<1>7. ASSUME NEW c \in Conn, read_session_again(c) \/ mark_disconnected(c)
      PROVE  Sockets'
  <2>1. /\ conn[c].step \in Gone /\ conn'[c].step \in Gone /\ ~conn'[c].up
        /\ \A b \in Conn : b # c => conn'[b] = conn[b]
    BY <1>7, <1>t DEF read_session_again, mark_disconnected, NoTunnel, Gone, Types,
         TypeOK, Tunnel, Sockets, GoneIsSilent
  <2>2. UNCHANGED <<ws, wire>>
    BY <1>7 DEF read_session_again, mark_disconnected
  <2>. QED
    BY <2>1, <2>2, GoneKeeps
<1>8. ASSUME NEW c \in Conn, NEW g \in Gateway, NEW d \in Device, agent_ws_tunnel(c, g, d)
      PROVE  Sockets'
  <2>1. /\ conn[c].step \in Gone /\ conn'[c].step = "accepted"
        /\ conn'[c].at = g /\ conn'[c].device = d
        /\ \A b \in Conn : b # c => conn'[b] = conn[b]
    BY <1>8 DEF agent_ws_tunnel, Types, TypeOK, Gone, NoTunnel
  <2>2. wire[c] = {} /\ wire' = wire
    BY <1>8, <2>1 DEF agent_ws_tunnel, Sockets, GoneIsSilent
  <2>3. ws'[g][d] = c
    BY <1>8 DEF agent_ws_tunnel, Types, TypeOK
  <2>4. ASSUME NEW k \in Gateway, NEW x \in Device, k # g \/ x # d
        PROVE  ws'[k][x] = ws[k][x] /\ ws[k][x] # c
    <3>1. ws'[k][x] = ws[k][x]
      BY <1>8, <2>4 DEF agent_ws_tunnel, Types, TypeOK
    <3>2. c # NoConn
      OBVIOUS
    <3>. QED
      BY <2>1, <3>1, <3>2, Registered DEF Sockets
  <2>5. NoStaleSocket'
    BY <2>1, <2>3, <2>4, Registered DEF Sockets, NoStaleSocket, Gone
  <2>6. OwnDispatchesOnly'
    BY <2>1, <2>2 DEF Sockets, OwnDispatchesOnly
  <2>7. GoneIsSilent'
    BY <2>1, <2>2 DEF Sockets, GoneIsSilent, Gone
  <2>. QED
    BY <2>5, <2>6, <2>7 DEF Sockets
<1>9. ASSUME NEW g \in Gateway, NEW b \in BOOLEAN, crash(g, b)
      PROVE  Sockets'
  <2>1. \A c \in Conn : \/ conn'[c] = NoTunnel /\ wire'[c] = {}
                        \/ conn'[c] = conn[c] /\ wire'[c] = wire[c]
    BY <1>9 DEF crash
  <2>2. \A d \in Device : ws'[g][d] = NoConn
    BY <1>9 DEF crash, Types, TypeOK
  <2>3. \A k \in Gateway : k # g => ws'[k] = ws[k]
    BY <1>9 DEF crash, Types, TypeOK
  <2>4. \A c \in Conn : conn[c].at # g => conn'[c] = conn[c]
    BY <1>9 DEF crash
  <2>5. NoStaleSocket'
    BY <2>2, <2>3, <2>4, Registered DEF Sockets, NoStaleSocket, Gone
  <2>6. OwnDispatchesOnly'
    BY <2>1 DEF Sockets, OwnDispatchesOnly
  <2>7. GoneIsSilent'
    BY <2>1 DEF Sockets, GoneIsSilent, NoTunnel
  <2>. QED
    BY <2>5, <2>6, <2>7 DEF Sockets
<1>10. CASE redis_stops
  <2>1. \A b \in Conn : /\ conn'[b].at = conn[b].at /\ conn'[b].device = conn[b].device
                        /\ conn'[b].step = conn[b].step /\ (conn'[b].up => conn[b].up)
    <3>1. ASSUME NEW b \in Conn
          PROVE  conn'[b] \in {conn[b], [conn[b] EXCEPT !.listener = "stopped"]}
      BY <1>10 DEF redis_stops
    <3>. QED
      BY <3>1, <1>t DEF Tunnel
  <2>2. UNCHANGED <<ws, wire>>
    BY <1>10 DEF redis_stops
  <2>. QED
    BY <2>1, <2>2, StillKeeps
<1>11. ASSUME UNCHANGED tunnels
       PROVE  Sockets'
  BY <1>11, SocketsKept
<1>. QED
  BY <1>1, <1>2, <1>3, <1>4, <1>5, <1>6, <1>7, <1>8, <1>9, <1>10, <1>11
  DEF Next, Handler, DeliverStep, refresh_session, startup, register_agent_session,
      heartbeat, deliver, deliver_session, deliver_attempt, deliver_note, deliver_hand,
      deliver_give_up, deliver_drop, session_expires, dispatch_expires, redis_recovers,
      vars

\* _ws_connections never names a socket whose handler has left.
THEOREM NoStaleSocketHolds == Spec => []NoStaleSocket
<1>1. Init => Types /\ Sockets
  BY TypesInit, SocketsInit
<1>2. (Types /\ Sockets) /\ [Next]_vars => (Types /\ Sockets)'
  BY TypesStep, SocketsStep
<1>. QED
  BY <1>1, <1>2, PTL DEF Spec, Sockets

\* No tunnel ever carries another device's dispatch.
THEOREM OwnDispatchesOnlyHolds == Spec => []OwnDispatchesOnly
<1>1. Init => Types /\ Sockets
  BY TypesInit, SocketsInit
<1>2. (Types /\ Sockets) /\ [Next]_vars => (Types /\ Sockets)'
  BY TypesStep, SocketsStep
<1>. QED
  BY <1>1, <1>2, PTL DEF Spec, Sockets

-----------------------------------------------------------------------------
(* Cached dispatches *)

\* The production deployment while Redis stays up.
SharedStore == RedisEnabled = TRUE /\ MaxOutages = 0

\* No replica works on its own dicts.
Shared ==
    /\ redisUp = TRUE
    /\ \A g \in Gateway : mode[g] \in {"redis", "down"}
    /\ \A g \in Gateway : consumer[g].step \in {"cache", "push"} => mode[g] = "redis"

\* What a store has taken in is in Redis or is done with; a deliver call about to
\* drop an entry has reported it.
Kept ==
    /\ \A e \in taken : e \in cached[Redis] \/ e \in handed \cup failed \cup expired
    /\ \A h \in Delivery : request[h].step = "drop" => request[h].exec \in failed

\* With Redis enabled every replica starts on it.
LEMMA SharedInit == ASSUME SharedStore PROVE Init => Shared
BY DEF Init, Shared, SharedStore, Waiting

\* Without an outage no replica falls back to its own dicts.
LEMMA SharedStep ==
    ASSUME SharedStore, Types, Shared, [Next]_vars
    PROVE  Shared'
<1>1. CASE UNCHANGED <<redisUp, mode, consumer>>
  BY <1>1 DEF Shared
<1>2. ASSUME NEW g \in Gateway, Consumer(g)
      PROVE  Shared'
  <2>1. UNCHANGED <<redisUp, mode>>
    BY <1>2 DEF Consumer, _consume_dispatched, cache_dispatch, push_dispatch, faults
  <2>2. \A k \in Gateway : k # g => consumer'[k] = consumer[k]
    BY <1>2 DEF Consumer, _consume_dispatched, cache_dispatch, push_dispatch, Types, TypeOK
  <2>3. mode[g] = "redis"
    BY <1>2 DEF Consumer, _consume_dispatched, cache_dispatch, push_dispatch, Shared, Up
  <2>. QED
    BY <2>1, <2>2, <2>3 DEF Shared
<1>3. ASSUME NEW g \in Gateway, NEW b \in BOOLEAN, crash(g, b)
      PROVE  Shared'
  BY <1>3 DEF crash, Shared, Types, TypeOK
<1>4. ASSUME NEW g \in Gateway, NEW b \in BOOLEAN, startup(g, b)
      PROVE  Shared'
  BY <1>4 DEF startup, Shared, SharedStore, Types, TypeOK, Waiting, faults
<1>5. CASE redis_stops
  BY <1>5 DEF redis_stops, SharedStore, Types, TypeOK
<1>6. CASE redis_recovers
  BY <1>6 DEF redis_recovers, Shared
<1>. QED
  BY <1>1, <1>2, <1>3, <1>4, <1>5, <1>6
  DEF Next, Handler, DeliverStep, read_session, write_session, _ws_replay_pending,
      replay_dispatch, serve, answer_heartbeat, leave, read_session_again,
      mark_disconnected, _ws_pubsub_listener, receive_heartbeat, tunnel_breaks,
      receive_ack, agent_ws_tunnel, refresh_session, register_agent_session, heartbeat,
      deliver, deliver_session, deliver_attempt, deliver_note, deliver_hand,
      deliver_give_up, deliver_drop, session_expires, dispatch_expires, vars, faults

\* Caching a dispatch loses none.
LEMMA SetKeeps ==
    ASSUME Types, NEW g, NEW e, NEW n, _dispatch_set(g, e, n)
    PROVE  cached[Redis] \subseteq cached'[Redis]
BY DEF _dispatch_set, Types, TypeOK, Place

\* Dropping a dispatch loses no other.
LEMMA DeleteKeeps ==
    ASSUME Types, NEW g, NEW e, _dispatch_delete(g, e)
    PROVE  cached[Redis] \ {e} \subseteq cached'[Redis]
BY DEF _dispatch_delete, Types, TypeOK, Place

\* A deliver call that moves on, but not to its drop.
LEMMA CallKeeps ==
    ASSUME Types, NEW h \in Delivery, NEW r, r.step # "drop",
           request' = [request EXCEPT ![h] = r]
    PROVE  \A k \in Delivery : request'[k].step = "drop" => request'[k] = request[k]
BY DEF Types, TypeOK

\* An entry leaves Redis only for a reason the history records.
LEMMA KeptStep ==
    ASSUME Types, Shared, Kept, [Next]_vars
    PROVE  Kept'
<1>1. CASE UNCHANGED <<cached, request, taken, handed, failed, expired>>
  BY <1>1 DEF Kept
<1>2. ASSUME NEW g \in Gateway, cache_dispatch(g)
      PROVE  Kept'
  <2>1. Home(g) = Redis
    BY <1>2 DEF cache_dispatch, Shared, Home
  <2>2. cached'[Redis] = cached[Redis] \cup {consumer[g].exec}
    BY <1>2, <2>1 DEF cache_dispatch, _dispatch_set, Types, TypeOK, Place
  <2>. QED
    BY <1>2, <2>2 DEF cache_dispatch, Kept
<1>3. ASSUME NEW c \in Conn, NEW e \in Exec, receive_ack(c, e)
      PROVE  Kept'
  <2>1. cached[Redis] \ {e} \subseteq cached'[Redis]
    BY <1>3 DEF receive_ack, _dispatch_delete, Types, TypeOK, Place
  <2>. QED
    BY <1>3, <2>1 DEF receive_ack, Kept
<1>4. ASSUME NEW h \in Delivery,
             \/ deliver_session(h) \/ \E g \in Gateway, e \in Exec : deliver(h, g, e)
      PROVE  Kept'
  <2>1. CASE deliver_session(h)
    <3>. DEFINE d == DeviceOf[request[h].exec]
                v == IF d = NoDevice THEN "none" ELSE _session_get(request[h].at, d)
                r == [request[h] EXCEPT !.step = "attempt", !.seen = v]
    <3>1. request' = [request EXCEPT ![h] = r]
      BY <2>1 DEF deliver_session, Types, TypeOK
    <3>2. r.step = "attempt"
      BY DEF Types, TypeOK, DeliverCall
    <3>. HIDE DEF r
    <3>. QED
      BY <2>1, <3>1, <3>2, CallKeeps DEF deliver_session, Kept, stores, history
  <2>2. ASSUME NEW g \in Gateway, NEW e \in Exec, deliver(h, g, e)
        PROVE  Kept'
    <3>. DEFINE r == [NoCall EXCEPT !.step = "session", !.at = g, !.exec = e,
                                    !.tries = attempts[Home(g)][e]]
    <3>1. request' = [request EXCEPT ![h] = r] /\ r.step = "session"
      BY <2>2 DEF deliver, NoCall
    <3>. HIDE DEF r
    <3>. QED
      BY <2>2, <3>1, CallKeeps DEF deliver, Kept, stores, history
  <2>. QED
    BY <1>4, <2>1, <2>2
<1>5. ASSUME NEW h \in Delivery, deliver_attempt(h) \/ deliver_note(h)
      PROVE  Kept'
  <2>1. cached[Redis] \subseteq cached'[Redis]
    BY <1>5, SetKeeps DEF deliver_attempt, deliver_note
  <2>2. \E r : request' = [request EXCEPT ![h] = r] /\ r.step # "drop"
    <3>. DEFINE q == [request[h] EXCEPT !.step = "attempt"]
                s == IF request[h].seen = "none" THEN "note" ELSE "hand"
                r == [request[h] EXCEPT !.tries = request[h].tries + 1, !.step = s]
    <3>1. q.step # "drop" /\ r.step # "drop"
      BY DEF Types, TypeOK, DeliverCall
    <3>2. deliver_attempt(h) => request' = [request EXCEPT ![h] = r]
      BY DEF deliver_attempt, Types, TypeOK
    <3>3. deliver_note(h) => request' = [request EXCEPT ![h] = q]
      BY DEF deliver_note, Types, TypeOK
    <3>. HIDE DEF q, r
    <3>. QED
      BY <1>5, <3>1, <3>2, <3>3
  <2>. QED
    BY <1>5, <2>1, <2>2, CallKeeps DEF deliver_attempt, deliver_note, Kept, history
<1>6. ASSUME NEW h \in Delivery, deliver_hand(h) \/ deliver_drop(h)
      PROVE  Kept'
  <2>1. cached[Redis] \ {request[h].exec} \subseteq cached'[Redis]
    BY <1>6, DeleteKeeps DEF deliver_hand, deliver_drop
  <2>2. request' = [request EXCEPT ![h] = NoCall] /\ NoCall.step # "drop"
    BY <1>6 DEF deliver_hand, deliver_drop, NoCall
  <2>3. request[h].exec \in handed' \cup failed'
    BY <1>6 DEF deliver_hand, deliver_drop, Kept, history
  <2>. QED
    BY <1>6, <2>1, <2>2, <2>3, CallKeeps DEF deliver_hand, deliver_drop, Kept, history
<1>7. ASSUME NEW h \in Delivery, deliver_give_up(h)
      PROVE  Kept'
  <2>1. request'[h].exec \in failed' /\ \A k \in Delivery : k # h => request'[k] = request[k]
    BY <1>7 DEF deliver_give_up, Types, TypeOK, DeliverCall
  <2>. QED
    BY <1>7, <2>1 DEF deliver_give_up, Kept, stores
<1>8. ASSUME NEW e \in Exec, dispatch_expires(e)
      PROVE  Kept'
  <2>1. cached'[Redis] = cached[Redis] \ {e}
    BY <1>8 DEF dispatch_expires, Types, TypeOK, Place
  <2>. QED
    BY <1>8, <2>1 DEF dispatch_expires, Kept
<1>9. ASSUME NEW g \in Gateway, NEW b \in BOOLEAN, crash(g, b)
      PROVE  Kept'
  <2>1. cached'[Redis] = cached[Redis]
    BY <1>9 DEF crash, Types, TypeOK, Place
  <2>2. \A k \in Delivery : request'[k].step = "drop" => request'[k] = request[k]
    BY <1>9 DEF crash, NoCall
  <2>. QED
    BY <1>9, <2>1, <2>2 DEF crash, Kept, history
<1>. QED
  BY <1>1, <1>2, <1>3, <1>4, <1>5, <1>6, <1>7, <1>8, <1>9
  DEF Next, Consumer, Handler, DeliverStep, _consume_dispatched, push_dispatch,
      read_session, write_session, _ws_replay_pending, replay_dispatch, serve,
      answer_heartbeat, leave, read_session_again, mark_disconnected,
      _ws_pubsub_listener, receive_heartbeat, tunnel_breaks, agent_ws_tunnel,
      refresh_session, register_agent_session, heartbeat, startup, session_expires,
      redis_stops, redis_recovers, vars, stores, history

\* With the shared store up, crashes of replicas and broken tunnels lose no
\* dispatch the gateway has cached.
THEOREM NothingLostHolds == ASSUME SharedStore PROVE Spec => []NothingLost
<1>1. Init => Types /\ Shared /\ Kept
  BY TypesInit, SharedInit DEF Init, Kept, NoCall
<1>2. (Types /\ Shared /\ Kept) /\ [Next]_vars => (Types /\ Shared /\ Kept)'
  BY TypesStep, SharedStep, KeptStep
<1>3. Kept => NothingLost
  BY DEF Kept, NothingLost, Place
<1>. QED
  BY <1>1, <1>2, <1>3, PTL DEF Spec

\* Without the HTTP endpoint, an acknowledged dispatch stays out of the stores
\* until another record of its envelope is read.
THEOREM HandedStaysDeletedHolds == ASSUME Delivery = {} PROVE Spec => HandedStaysDeleted
<1>1. ASSUME Types, [Next]_vars
      PROVE  [\A e \in handed, p \in Place :
                 e \in cached'[p] \ cached[p] => \E g \in Gateway : cache_dispatch(g)]_vars
  <2>. SUFFICES ASSUME NEW e \in handed, NEW p \in Place, e \in cached'[p] \ cached[p]
                PROVE  \E g \in Gateway : cache_dispatch(g)
    OBVIOUS
  <2>1. CASE UNCHANGED cached
    BY <2>1
  <2>2. ASSUME NEW c \in Conn, NEW x \in Exec, receive_ack(c, x)
        PROVE  FALSE
    BY <2>2 DEF receive_ack, _dispatch_delete, Types, TypeOK
  <2>3. ASSUME NEW x \in Exec, dispatch_expires(x)
        PROVE  FALSE
    BY <2>3 DEF dispatch_expires, Types, TypeOK
  <2>4. ASSUME NEW g \in Gateway, NEW b \in BOOLEAN, crash(g, b)
        PROVE  FALSE
    BY <2>4 DEF crash, Types, TypeOK
  <2>. QED
    BY <1>1, <2>1, <2>2, <2>3, <2>4
    DEF Next, Consumer, Handler, DeliverStep, _consume_dispatched, push_dispatch,
      read_session, write_session, _ws_replay_pending, replay_dispatch, serve,
      answer_heartbeat, leave, read_session_again, mark_disconnected,
      _ws_pubsub_listener, receive_heartbeat, tunnel_breaks, agent_ws_tunnel,
      refresh_session, register_agent_session, heartbeat, startup, session_expires,
      redis_stops, redis_recovers, vars, stores
<1>. QED
  BY <1>1, TypesInit, TypesStep, PTL DEF Spec, HandedStaysDeleted

-----------------------------------------------------------------------------
(* Sessions *)

\* Every replica works on Redis, and no REST call is about to write a session.
Calm ==
    /\ redisUp = TRUE
    /\ \A g \in Gateway : mode[g] = "redis" /\ beat[g] = NoBeat

\* A handler that has written the session of its device, or is about to mark it.
Holding(t) ==
    \/ t.step \in {"scan", "replay", "serving", "beating", "leaving"}
    \/ t.step = "marking" /\ t.seen # "none"

\* A session that says it is connected is some tunnel's, which will mark it.
ConnectedIsHeld ==
    \A d \in Device : session[Redis][d] = "connected" =>
        \E c \in Conn : conn[c].device = d /\ Holding(conn[c])

\* What holds until Redis has failed or a replica has died.
Undisturbed == outages = 0 /\ crashes = 0 => Calm /\ Kept /\ ConnectedIsHeld

\* Redis and the replicas stay as they are, and no heartbeat begins but one the REST
\* endpoint answers.
Undisturbing ==
    /\ UNCHANGED <<redisUp, mode, outages, crashes>>
    /\ \A g \in Gateway : beat'[g] # NoBeat => beat[g] # NoBeat \/ RestGateway # {}

\* A deliver call touches neither tunnels nor sessions.
LEMMA DeliverKeeps ==
    ASSUME NEW h \in Delivery, DeliverStep(h) \/ \E g \in Gateway, e \in Exec : deliver(h, g, e)
    PROVE  UNCHANGED <<mode, session, tunnels, beat, faults>>
<1>1. deliver_session(h) => UNCHANGED <<mode, session, tunnels, beat, faults>>
  BY DEF deliver_session
<1>2. deliver_attempt(h) \/ deliver_note(h) => UNCHANGED <<mode, session, tunnels, beat, faults>>
  BY DEF deliver_attempt, deliver_note
<1>3. deliver_hand(h) \/ deliver_drop(h) => UNCHANGED <<mode, session, tunnels, beat, faults>>
  BY DEF deliver_hand, deliver_drop
<1>4. deliver_give_up(h) => UNCHANGED <<mode, session, tunnels, beat, faults>>
  BY DEF deliver_give_up
<1>5. ASSUME NEW g \in Gateway, NEW e \in Exec, deliver(h, g, e)
      PROVE  UNCHANGED <<mode, session, tunnels, beat, faults>>
  BY <1>5 DEF deliver
<1>. QED
  BY <1>1, <1>2, <1>3, <1>4, <1>5, Zenon DEF DeliverStep

\* A step of a calm gateway is an outage, a crash or disturbs nothing.
LEMMA StepsDisturb ==
    ASSUME Types, [Next]_vars
    PROVE  \/ redis_stops
           \/ redis_recovers
           \/ \E g \in Gateway, b \in BOOLEAN : crash(g, b) \/ startup(g, b)
           \/ Undisturbing
<1>1. ASSUME NEW g \in Gateway, Consumer(g)
      PROVE  Undisturbing
  BY <1>1 DEF Consumer, _consume_dispatched, cache_dispatch, push_dispatch, faults, Undisturbing
<1>2. ASSUME NEW c \in Conn,
             \/ Handler(c) \/ _ws_pubsub_listener(c) \/ receive_heartbeat(c)
             \/ tunnel_breaks(c) \/ \E e \in Exec : receive_ack(c, e)
      PROVE  Undisturbing
  BY <1>2 DEF Handler, read_session, write_session, _ws_replay_pending, replay_dispatch, serve,
       answer_heartbeat, leave, read_session_again, mark_disconnected, _ws_pubsub_listener,
       receive_heartbeat, tunnel_breaks, receive_ack, faults, Undisturbing
<1>3. ASSUME NEW h \in Delivery,
             DeliverStep(h) \/ \E g \in Gateway, e \in Exec : deliver(h, g, e)
      PROVE  Undisturbing
  BY <1>3, DeliverKeeps DEF faults, tunnels, Undisturbing
<1>4. ASSUME NEW g \in Gateway, NEW c \in Conn, NEW d \in Device, agent_ws_tunnel(c, g, d)
      PROVE  Undisturbing
  BY <1>4 DEF agent_ws_tunnel, faults, Undisturbing
<1>5. ASSUME NEW g \in Gateway, refresh_session(g)
      PROVE  Undisturbing
  <2>1. \A k \in Gateway : beat'[k] = NoBeat \/ beat'[k] = beat[k]
    BY <1>5 DEF refresh_session, Types, TypeOK
  <2>. QED
    BY <1>5, <2>1 DEF refresh_session, faults, Undisturbing
<1>6. ASSUME NEW g \in RestGateway, NEW d \in Device,
             register_agent_session(g, d) \/ heartbeat(g, d)
      PROVE  Undisturbing
  BY <1>6 DEF register_agent_session, heartbeat, faults, Undisturbing
<1>7. ASSUME (\E d \in Device : session_expires(d)) \/ \E e \in Exec : dispatch_expires(e)
      PROVE  Undisturbing
  BY <1>7 DEF session_expires, dispatch_expires, faults, Undisturbing
<1>8. CASE UNCHANGED vars
  BY <1>8 DEF vars, faults, Undisturbing
<1>. QED
  BY <1>1, <1>2, <1>3, <1>4, <1>5, <1>6, <1>7, <1>8 DEF Next

\* Nothing is undone: an outage or a crash stays counted.
LEMMA TroublesStay ==
    ASSUME Types, [Next]_vars, outages' = 0 /\ crashes' = 0
    PROVE  outages = 0 /\ crashes = 0 /\ ~redis_stops /\ \A g \in Gateway, b \in BOOLEAN : ~crash(g, b)
<1>1. outages \in Nat /\ crashes \in Nat
  BY DEF Types, TypeOK
<1>2. ~redis_stops
  BY <1>1 DEF redis_stops
<1>3. ASSUME NEW g \in Gateway, NEW b \in BOOLEAN, crash(g, b)
      PROVE  FALSE
  <2>1. crashes' = crashes + 1
    BY <1>3 DEF crash
  <2>. QED
    BY <1>1, <2>1
<1>4. redis_recovers \/ (\E g \in Gateway, b \in BOOLEAN : startup(g, b)) \/ Undisturbing
  BY <1>2, <1>3, StepsDisturb
<1>5. UNCHANGED <<outages, crashes>>
  BY <1>4 DEF redis_recovers, startup, Undisturbing, faults
<1>. QED
  BY <1>2, <1>3, <1>5

\* Without an outage, a crash or a REST call, replicas stay on Redis.
LEMMA CalmStep ==
    ASSUME RestGateway = {}, Types, Calm, [Next]_vars, outages' = 0 /\ crashes' = 0
    PROVE  Undisturbing \/ redis_recovers
<1>1. ASSUME NEW g \in Gateway, NEW b \in BOOLEAN, startup(g, b)
      PROVE  FALSE
  BY <1>1 DEF startup, Calm
<1>. QED
  BY <1>1, TroublesStay, StepsDisturb

\* The handler of c moves on to t and writes no session: if it held a connected session it
\* still does.
LEMMA MoveHolds ==
    ASSUME Types, ConnectedIsHeld, NEW c \in Conn, NEW t,
           conn' = [conn EXCEPT ![c] = t], session' = session,
           Holding(conn[c]) /\ session[Redis][conn[c].device] = "connected"
               => t.device = conn[c].device /\ Holding(t)
    PROVE  ConnectedIsHeld'
<1> SUFFICES ASSUME NEW d \in Device, session[Redis][d] = "connected"
             PROVE  \E b \in Conn : conn'[b].device = d /\ Holding(conn'[b])
  BY DEF ConnectedIsHeld, Holding
<1>1. PICK b \in Conn : conn[b].device = d /\ Holding(conn[b])
  BY DEF ConnectedIsHeld
<1>2. \A x \in Conn : conn'[x] = IF x = c THEN t ELSE conn[x]
  BY DEF Types, TypeOK
<1>3. conn'[b].device = d /\ Holding(conn'[b])
  BY <1>1, <1>2
<1>. QED
  BY <1>3

\* The handler of c moves on to t and writes v into the session of its device: it holds the
\* session if v says it is connected.
LEMMA WriteHolds ==
    ASSUME Types, Calm, ConnectedIsHeld, NEW c \in Conn, NEW t, NEW v,
           conn' = [conn EXCEPT ![c] = t], conn[c].device \in Device,
           _session_set(conn[c].at, conn[c].device, v),
           v = "connected" => t.device = conn[c].device /\ Holding(t)
    PROVE  ConnectedIsHeld'
<1> SUFFICES ASSUME NEW d \in Device, session'[Redis][d] = "connected"
             PROVE  \E b \in Conn : conn'[b].device = d /\ Holding(conn'[b])
  BY DEF ConnectedIsHeld, Holding
<1>1. conn[c].at \in Gateway /\ Home(conn[c].at) = Redis
  BY DEF Types, TypeOK, Tunnel, Calm, Home
<1>2. \A x \in Device : session'[Redis][x] = IF x = conn[c].device THEN v ELSE session[Redis][x]
  BY <1>1 DEF _session_set, Types, TypeOK, Place
<1>3. \A x \in Conn : conn'[x] = IF x = c THEN t ELSE conn[x]
  BY DEF Types, TypeOK
<1>4. CASE d = conn[c].device
  BY <1>2, <1>3, <1>4
<1>5. CASE d # conn[c].device
  <2>1. PICK b \in Conn : conn[b].device = d /\ Holding(conn[b])
    BY <1>2, <1>5 DEF ConnectedIsHeld
  <2>2. conn'[b] = conn[b]
    BY <2>1, <1>3, <1>5
  <2>. QED
    BY <2>1, <2>2
<1>. QED
  BY <1>4, <1>5

\* The session a handler reads is the one in Redis.
LEMMA CalmRead ==
    ASSUME Types, Calm, NEW c \in Conn
    PROVE  _session_get(conn[c].at, conn[c].device) = session[Redis][conn[c].device]
BY DEF Types, TypeOK, Tunnel, Calm, Home, _session_get

\* A session comes to say it is connected only by a tunnel's hand, and stops saying so at the
\* latest when the last tunnel that holds it ends.
LEMMA HeldStep ==
    ASSUME RestGateway = {}, Types, Calm, ConnectedIsHeld, [Next]_vars,
           outages' = 0 /\ crashes' = 0
    PROVE  ConnectedIsHeld'
<1>t. \A c \in Conn : conn[c] \in Tunnel /\ (conn[c].step # "unused" => conn[c].device \in Device)
  BY DEF Types, TypeOK, Owned
<1>1. CASE UNCHANGED <<conn, session>>
  BY <1>1 DEF ConnectedIsHeld, Holding
<1>2. ASSUME NEW c \in Conn, read_session(c)
      PROVE  ConnectedIsHeld'
  <2>. DEFINE t == [conn[c] EXCEPT !.step = "read",
                     !.seen = _session_get(conn[c].at, conn[c].device)]
  <2>1. conn' = [conn EXCEPT ![c] = t] /\ session' = session /\ ~Holding(conn[c])
    BY <1>2 DEF read_session, Types, TypeOK, Holding
  <2>. QED
    BY <2>1, MoveHolds
<1>3. ASSUME NEW c \in Conn, write_session(c)
      PROVE  ConnectedIsHeld'
  <2>. DEFINE t == [conn[c] EXCEPT !.step = "scan"]
  <2>1. conn' = [conn EXCEPT ![c] = t]
    BY <1>3 DEF write_session, Step, Types, TypeOK
  <2>2. t.device = conn[c].device /\ Holding(t)
    BY <1>t DEF Tunnel, Holding
  <2>3. _session_set(conn[c].at, conn[c].device, "connected") /\ conn[c].device \in Device
    BY <1>3, <1>t DEF write_session, Step
  <2>. QED
    BY <2>1, <2>2, <2>3, WriteHolds
<1>4. ASSUME NEW c \in Conn, _ws_replay_pending(c)
      PROVE  ConnectedIsHeld'
  <2>. DEFINE t == [conn[c] EXCEPT !.step = "replay",
             !.left = IF mode[conn[c].at] = "redis"
                      THEN IF redisUp THEN cached[Redis] ELSE {}
                      ELSE cached[conn[c].at]]
  <2>1. conn' = [conn EXCEPT ![c] = t] /\ session' = session
    BY <1>4 DEF _ws_replay_pending, Types, TypeOK
  <2>2. t.device = conn[c].device /\ Holding(t)
    BY <1>t DEF Tunnel, Holding
  <2>. QED
    BY <2>1, <2>2, MoveHolds
<1>5. ASSUME NEW c \in Conn, NEW e \in Exec, replay_dispatch(c, e)
      PROVE  ConnectedIsHeld'
  <2>. DEFINE t == [conn[c] EXCEPT !.left =
             IF mode[conn[c].at] = "redis" /\ ~redisUp THEN {} ELSE @ \ {e}]
  <2>1. conn' = [conn EXCEPT ![c] = t] /\ session' = session
    BY <1>5 DEF replay_dispatch, Types, TypeOK
  <2>2. t.device = conn[c].device /\ (Holding(conn[c]) => Holding(t))
    BY <1>t DEF Tunnel, Holding
  <2>. QED
    BY <2>1, <2>2, MoveHolds
<1>6. ASSUME NEW c \in Conn, serve(c)
      PROVE  ConnectedIsHeld'
  <2>. DEFINE t == [conn[c] EXCEPT !.step = "serving",
             !.listener = IF mode[conn[c].at] = "redis" THEN "starting" ELSE "none"]
  <2>1. conn' = [conn EXCEPT ![c] = t] /\ session' = session
    BY <1>6 DEF serve, Types, TypeOK
  <2>2. t.device = conn[c].device /\ Holding(t)
    BY <1>t DEF Tunnel, Holding
  <2>. QED
    BY <2>1, <2>2, MoveHolds
<1>7. ASSUME NEW c \in Conn, _ws_pubsub_listener(c)
      PROVE  ConnectedIsHeld'
  <2>. DEFINE t == [conn[c] EXCEPT !.listener = IF redisUp THEN "subscribed" ELSE "stopped"]
  <2>1. conn' = [conn EXCEPT ![c] = t] /\ session' = session
    BY <1>7 DEF _ws_pubsub_listener, Types, TypeOK
  <2>2. t.device = conn[c].device /\ (Holding(conn[c]) => Holding(t))
    BY <1>t DEF Tunnel, Holding
  <2>. QED
    BY <2>1, <2>2, MoveHolds
<1>8. ASSUME NEW c \in Conn, tunnel_breaks(c)
      PROVE  ConnectedIsHeld'
  <2>. DEFINE t == [conn[c] EXCEPT !.up = FALSE]
  <2>1. conn' = [conn EXCEPT ![c] = t] /\ session' = session
    BY <1>8 DEF tunnel_breaks, Types, TypeOK
  <2>2. t.device = conn[c].device /\ (Holding(conn[c]) => Holding(t))
    BY <1>t DEF Tunnel, Holding
  <2>. QED
    BY <2>1, <2>2, MoveHolds
<1>9. ASSUME NEW c \in Conn, receive_heartbeat(c)
      PROVE  ConnectedIsHeld'
  <2>. DEFINE t == [conn[c] EXCEPT !.step = "beating",
                     !.seen = _session_get(conn[c].at, conn[c].device)]
  <2>1. conn' = [conn EXCEPT ![c] = t] /\ session' = session
    BY <1>9 DEF receive_heartbeat, Types, TypeOK
  <2>2. t.device = conn[c].device /\ Holding(t)
    BY <1>t DEF Tunnel, Holding
  <2>. QED
    BY <2>1, <2>2, MoveHolds
<1>10. ASSUME NEW c \in Conn, answer_heartbeat(c)
       PROVE  ConnectedIsHeld'
  <2>. DEFINE t == [conn[c] EXCEPT !.step = "serving"]
  <2>1. conn' = [conn EXCEPT ![c] = t]
    BY <1>10 DEF answer_heartbeat, Step, Types, TypeOK
  <2>2. t.device = conn[c].device /\ Holding(t)
    BY <1>t DEF Tunnel, Holding
  <2>3. _session_set(conn[c].at, conn[c].device, conn[c].seen) /\ conn[c].device \in Device
    BY <1>10, <1>t DEF answer_heartbeat, Step
  <2>. QED
    BY <2>1, <2>2, <2>3, WriteHolds
<1>11. ASSUME NEW c \in Conn, leave(c)
       PROVE  ConnectedIsHeld'
  <2>. DEFINE t == [conn[c] EXCEPT !.step = "leaving", !.listener = "none"]
  <2>1. conn' = [conn EXCEPT ![c] = t] /\ session' = session
    BY <1>11 DEF leave, Types, TypeOK
  <2>2. t.device = conn[c].device /\ Holding(t)
    BY <1>t DEF Tunnel, Holding
  <2>. QED
    BY <2>1, <2>2, MoveHolds
<1>12. ASSUME NEW c \in Conn, read_session_again(c)
       PROVE  ConnectedIsHeld'
  <2>. DEFINE t == [conn[c] EXCEPT !.step = "marking",
                     !.seen = _session_get(conn[c].at, conn[c].device)]
  <2>1. conn' = [conn EXCEPT ![c] = t] /\ session' = session
    BY <1>12 DEF read_session_again, Types, TypeOK
  <2>2. /\ t.device = conn[c].device /\ t.step = "marking"
        /\ t.seen = session[Redis][conn[c].device]
    BY <1>t, CalmRead DEF Tunnel
  <2>. HIDE DEF t
  <2>3. session[Redis][conn[c].device] = "connected" => Holding(t)
    BY <2>2 DEF Holding
  <2>. QED
    BY <2>1, <2>2, <2>3, MoveHolds
<1>13. ASSUME NEW c \in Conn, mark_disconnected(c)
       PROVE  ConnectedIsHeld'
  <2>1. conn' = [conn EXCEPT ![c] = NoTunnel] /\ conn[c].step = "marking" /\ conn[c].device \in Device
    BY <1>13, <1>t DEF mark_disconnected
  <2>2. CASE conn[c].seen = "none"
    <3>1. session' = session /\ ~Holding(conn[c])
      BY <1>13, <2>1, <2>2 DEF mark_disconnected, Holding
    <3>. QED
      BY <2>1, <3>1, MoveHolds
  <2>3. CASE conn[c].seen # "none"
    <3>1. _session_set(conn[c].at, conn[c].device, "offline")
      BY <1>13, <2>3 DEF mark_disconnected
    <3>. QED
      BY <2>1, <3>1, WriteHolds
  <2>. QED
    BY <2>2, <2>3
<1>14. ASSUME NEW c \in Conn, NEW g \in Gateway, NEW d \in Device, agent_ws_tunnel(c, g, d)
       PROVE  ConnectedIsHeld'
  <2>. DEFINE t == [NoTunnel EXCEPT !.step = "accepted", !.at = g, !.device = d, !.up = TRUE]
  <2>1. conn' = [conn EXCEPT ![c] = t] /\ session' = session /\ ~Holding(conn[c])
    BY <1>14 DEF agent_ws_tunnel, Holding
  <2>. HIDE DEF t
  <2>. QED
    BY <2>1, MoveHolds
<1>15. ASSUME NEW d \in Device, session_expires(d)
       PROVE  ConnectedIsHeld'
  <2>1. /\ conn' = conn
        /\ \A x \in Device : session'[Redis][x] = "connected" => session[Redis][x] = "connected"
    BY <1>15 DEF session_expires, tunnels, Types, TypeOK, Place
  <2>. QED
    BY <2>1 DEF ConnectedIsHeld, Holding
<1>16. ASSUME NEW g \in Gateway, refresh_session(g)
       PROVE  FALSE
  BY <1>16 DEF refresh_session, Calm
<1>17. ASSUME NEW g \in Gateway, NEW b \in BOOLEAN, startup(g, b)
       PROVE  FALSE
  BY <1>17 DEF startup, Calm
<1>18. ~redis_stops /\ \A g \in Gateway, b \in BOOLEAN : ~crash(g, b)
  BY TroublesStay
<1>19. ASSUME NEW g \in Gateway, Consumer(g)
       PROVE  UNCHANGED <<conn, session>>
  BY <1>19 DEF Consumer, _consume_dispatched, cache_dispatch, push_dispatch, tunnels
<1>20. ASSUME NEW c \in Conn, NEW e \in Exec, receive_ack(c, e)
       PROVE  UNCHANGED <<conn, session>>
  BY <1>20 DEF receive_ack
<1>21. ASSUME NEW h \in Delivery,
              DeliverStep(h) \/ \E g \in Gateway, e \in Exec : deliver(h, g, e)
       PROVE  UNCHANGED <<conn, session>>
  BY <1>21, DeliverKeeps DEF tunnels
<1>22. ASSUME redis_recovers \/ (\E e \in Exec : dispatch_expires(e)) \/ UNCHANGED vars
       PROVE  UNCHANGED <<conn, session>>
  BY <1>22 DEF redis_recovers, dispatch_expires, vars, tunnels
<1>23. ASSUME NEW c \in Conn, Handler(c)
       PROVE  ConnectedIsHeld'
  BY <1>23, <1>2, <1>3, <1>4, <1>5, <1>6, <1>10, <1>11, <1>12, <1>13 DEF Handler
<1>. QED
  BY <1>1, <1>7, <1>8, <1>9, <1>14, <1>15, <1>16, <1>17, <1>18, <1>19, <1>20, <1>21, <1>22, <1>23
  DEF Next

\* Until Redis has failed or a replica has died, no dispatch is lost and the last tunnel of a
\* device to end leaves its session disconnected, whatever tunnels overlap at whichever
\* replicas and whatever deliver calls race; where no REST call writes sessions.
THEOREM GatewaysStayAccounted ==
    ASSUME RedisEnabled = TRUE, RestGateway = {}
    PROVE  Spec => []GatewaysAccount
<1>1. Init => Types /\ Undisturbed
  <2>1. Init => Calm /\ Kept /\ ConnectedIsHeld
    BY DEF Init, Calm, Kept, ConnectedIsHeld, NoCall, Place
  <2>. QED
    BY <2>1, TypesInit DEF Undisturbed
<1>2. (Types /\ Undisturbed) /\ [Next]_vars => (Types /\ Undisturbed)'
  <2>1. ASSUME Types, Undisturbed, [Next]_vars, outages' = 0 /\ crashes' = 0
        PROVE  Calm' /\ Kept' /\ ConnectedIsHeld'
    <3>1. Calm /\ Kept /\ ConnectedIsHeld
      BY <2>1, TroublesStay DEF Undisturbed
    <3>2. Shared
      BY <3>1 DEF Calm, Shared
    <3>3. Calm'
      BY <2>1, <3>1, CalmStep DEF Calm, Undisturbing, redis_recovers
    <3>. QED
      BY <2>1, <3>1, <3>2, <3>3, KeptStep, HeldStep
  <2>. QED
    BY <2>1, TypesStep DEF Undisturbed
<1>3. Types /\ Undisturbed => GatewaysAccount
  <2>1. Kept => NothingLost
    BY DEF Kept, NothingLost, Place
  <2>2. ConnectedIsHeld => ClosedIsOffline
    BY DEF ConnectedIsHeld, ClosedIsOffline
  <2>. QED
    BY <2>1, <2>2 DEF Undisturbed, GatewaysAccount
<1>. QED
  BY <1>1, <1>2, <1>3, PTL DEF Spec

=============================================================================
