------------------------- MODULE MCAppServerProcess -------------------------
(* A round and a call outside of any round share one client. *)
EXTENDS AppServerProcess
CONSTANTS a, b
MCCallers == {a, b}
MCRounds == {a}
=============================================================================
