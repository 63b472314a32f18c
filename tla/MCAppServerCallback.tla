------------------------ MODULE MCAppServerCallback ------------------------
(* Leases and faults are counted; nothing else needs a value.                *)
EXTENDS AppServerCallback
=============================================================================
