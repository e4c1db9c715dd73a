------------------------------- MODULE MCAgent -------------------------------
(***************************************************************************)
(* A small agent for TLC: one dispatch, pushed twice, and one sample.      *)
(***************************************************************************)
EXTENDS Agent
=============================================================================
