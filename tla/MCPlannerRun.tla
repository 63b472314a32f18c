---------------------------- MODULE MCPlannerRun ----------------------------
(* Two answered clarifications, two continuations and two faults.            *)
EXTENDS PlannerRun
=============================================================================
