---------------------------- MODULE MCExecution ------------------------------
(***************************************************************************)
(* Small deployments of Execution: three requests and the row of one event *)
(* trigger, two of the requests sharing an idempotency key, on one device. *)
(***************************************************************************)
EXTENDS Execution

CONSTANTS e1, e2, e3, t1, d1, k1

DeviceTable == [e \in Exec |-> d1]
KeyTable == [e \in Exec |-> IF e \in {e1, e2} THEN k1 ELSE NoKey]
TypeTable == [e \in Exec |-> IF e \in {e3, t1} THEN "function" ELSE "command"]
=============================================================================
