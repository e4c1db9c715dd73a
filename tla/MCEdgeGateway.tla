--------------------------- MODULE MCEdgeGateway -----------------------------
(***************************************************************************)
(* Small deployments of EdgeGateway: one dispatch of one device, up to two *)
(* tunnels and two replicas.                                               *)
(***************************************************************************)
EXTENDS EdgeGateway

CONSTANTS x1, d1

DeviceTable == [e \in Exec |-> d1]
=============================================================================
