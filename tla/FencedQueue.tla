---------------------------- MODULE FencedQueue ----------------------------
(***************************************************************************)
(* What the bridge queue promises to the runtimes that share it: a request *)
(* is settled only by the runtime that holds it at that moment.  Leases,   *)
(* epochs, owners and retries do not appear here; BridgeQueue.tla shows    *)
(* that the SQLite queue with its claim fence implements this.             *)
(***************************************************************************)

CONSTANTS Requests, Runtimes, NoOne

VARIABLES stage,    \* stage[r]: what the outside world knows of request r
          holder,   \* holder[r]: the runtime that may settle r, or NoOne
          working   \* working[c]: the request runtime c believes it handles

vars == <<stage, holder, working>>

Stages == {"unknown", "waiting", "held", "done", "dead"}

Init == /\ stage = [r \in Requests |-> "unknown"]
        /\ holder = [r \in Requests |-> NoOne]
        /\ working = [c \in Runtimes |-> NoOne]

\* A request becomes known: waiting, or (legacy import) already finished.
Appear(r) == /\ stage[r] = "unknown"
             /\ \E s \in {"waiting", "done", "dead"} : stage' = [stage EXCEPT ![r] = s]
             /\ UNCHANGED <<holder, working>>

\* A runtime without work is given a request, taken from its holder if need be.
Grant(r, c) == /\ stage[r] \in {"waiting", "held"}
               /\ working[c] = NoOne
               /\ stage' = [stage EXCEPT ![r] = "held"]
               /\ holder' = [holder EXCEPT ![r] = c]
               /\ working' = [working EXCEPT ![c] = r]

\* The holder, and nobody else, gives the request its outcome.
Settle(r, c) == /\ stage[r] = "held"
                /\ holder[r] = c
                /\ working[c] = r
                /\ \E s \in {"waiting", "done", "dead"} : stage' = [stage EXCEPT ![r] = s]
                /\ holder' = [holder EXCEPT ![r] = NoOne]
                /\ working' = [working EXCEPT ![c] = NoOne]

\* A runtime drops its work: the request does not change.
Drop(c) == /\ working[c] # NoOne
           /\ working' = [working EXCEPT ![c] = NoOne]
           /\ UNCHANGED <<stage, holder>>

\* Held requests go back to waiting when their holders are given up.
Revoke == \E R \in SUBSET {r \in Requests : stage[r] = "held"} :
             /\ stage' = [r \in Requests |-> IF r \in R THEN "waiting" ELSE stage[r]]
             /\ holder' = [r \in Requests |-> IF r \in R THEN NoOne ELSE holder[r]]
             /\ UNCHANGED working

\* A receipt recorded elsewhere finishes a request that has none.
Record(r) == /\ stage[r] \in {"waiting", "held", "dead"}
             /\ stage' = [stage EXCEPT ![r] = "done"]
             /\ holder' = [holder EXCEPT ![r] = NoOne]
             /\ UNCHANGED working

\* An operator revives a dead letter, or forgets a finished request.
Administer(r) == /\ \/ stage[r] = "dead" /\ stage' = [stage EXCEPT ![r] = "waiting"]
                    \/ stage[r] = "done" /\ stage' = [stage EXCEPT ![r] = "unknown"]
                 /\ UNCHANGED <<holder, working>>

Next == \/ \E r \in Requests : Appear(r) \/ Record(r) \/ Administer(r)
        \/ \E r \in Requests, c \in Runtimes : Grant(r, c) \/ Settle(r, c)
        \/ \E c \in Runtimes : Drop(c)
        \/ Revoke

Spec == Init /\ [][Next]_vars
=============================================================================
