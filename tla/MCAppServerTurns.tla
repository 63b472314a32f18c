-------------------------- MODULE MCAppServerTurns --------------------------
(* A Planner that may be asked, and a Reviewer, on one connection. *)
EXTENDS AppServerTurns
CONSTANTS planner, reviewer
MCCallers == {planner, reviewer}
MCReviewers == {reviewer}
=============================================================================
