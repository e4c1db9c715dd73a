------------------------ MODULE MCEdgeGatewayOutage --------------------------
(***************************************************************************)
(* Four small deployments of EdgeGateway in one instance; TLC looks at the *)
(* states that are within one of them.  `outage` and `devices`: Redis      *)
(* stops once, under a tunnel and a deliver call, or under two devices.    *)
(* `deliver`: a tunnel and two deliver calls.  `overlap`: two replicas and *)
(* two tunnels of one device, which has a dispatch of its own, so that no  *)
(* other deployment goes on from its states.                               *)
(***************************************************************************)
EXTENDS EdgeGateway, TLC

CONSTANTS x1, x2, d1, d2, g1, g2, c1, c2, h1, h2

DeviceTable == x1 :> d1 @@ x2 :> d2

Outage  == [exec |-> x1, of |-> {d1}, at |-> {g1}, tunnels |-> {c1}, calls |-> {h1}, outages |-> 1]
Devices == [exec |-> x1, of |-> {d1, d2}, at |-> {g1}, tunnels |-> {c1}, calls |-> {}, outages |-> 1]
Deliver == [exec |-> x1, of |-> {d1}, at |-> {g1}, tunnels |-> {c1}, calls |-> {h1, h2}, outages |-> 0]
Overlap == [exec |-> x2, of |-> {d2}, at |-> {g1, g2}, tunnels |-> {c1, c2}, calls |-> {}, outages |-> 0]

Within(limit) ==
    /\ outages <= limit.outages
    /\ \A e \in Exec \ {limit.exec} : topic[e] = 0 /\ e \notin taken
    /\ \A g \in Gateway : consumer[g] # Waiting => g \in limit.at /\ consumer[g].exec = limit.exec
    /\ \A c \in Conn : conn[c] # NoTunnel =>
           c \in limit.tunnels /\ conn[c].at \in limit.at /\ conn[c].device \in limit.of
    /\ \A p \in Place, d \in Device \ limit.of : session[p][d] = "none"
    /\ \A h \in Delivery : request[h] # NoCall => h \in limit.calls /\ request[h].at \in limit.at

SmallDeployment == Within(Outage) \/ Within(Devices) \/ Within(Deliver) \/ Within(Overlap)
=============================================================================
