----------------------- MODULE AppServerProcessProofs -----------------------
(***************************************************************************)
(* Theorems about the App Server process, for any callers, any number of   *)
(* generations and any number of faults.                                   *)
(*                                                                         *)
(* The inductive invariant says where a generation that may run is kept:   *)
(* in the client's field, among the lost, in the retirement or among the   *)
(* trees of the final stop; and what a caller of start() that has passed a *)
(* test may still rely on.                                                 *)
(***************************************************************************)
EXTENDS AppServerProcess, TLAPS

\* Nothing refers to a generation that was not spawned.
Born == \A g \in Gens : os[g] = "unborn" =>
  /\ g \notin tree \cup lost \cup stopTrees
  /\ g # child /\ g # retirement /\ g # stopChild /\ g # flight.gen
  /\ census[g] = "none" /\ \A c \in Callers : at[c] # g

\* What may run is in somebody's books.
Kept == \A g \in Gens : Alive(g) => g = child \/ g = retirement \/ g \in lost \/ g \in stopTrees

\* A retirement is of the client's process, and detaches it before it closes it;
\* beside a lost process there is no other.
Retiring ==
  /\ idle # "off" => retirement # 0
  /\ retirement # 0 => child \in {0, retirement}
  /\ retirement # 0 /\ idle # "evidence" => child = 0
  /\ lost # {} => child = 0
  /\ ~stopped => stopTrees = {}

\* While an initialization is under way its process is the client's or is lost,
\* without the census that would let it be cleaned up.
Flights ==
  flight.stage \in {"handshake", "census"} =>
    /\ flight.gen # 0 /\ retirement = 0 /\ child \in {0, flight.gen}
    /\ ~stopped => census[flight.gen] = "none" /\ (child = flight.gen \/ flight.gen \in lost)

\* What a caller of start() has seen still holds when it goes on, or else it will
\* not go on: a lost process without a census is never confirmed.
Callings ==
  ~stopped => \A c \in Callers :
    /\ pc[c] = "lostcheck" => retirement = 0
    /\ pc[c] = "admit" => lost = {} /\ retirement = 0
    /\ pc[c] = "losing" => /\ lost # {}
                           /\ retirement = 0 \/ (retirement \in lost /\ census[retirement] # "full")

\* The final stop collects whatever may run before it kills.
Stopping ==
  /\ stop \in {"capture", "join"} => child \in {0, stopChild}
  /\ stop = "join" /\ stopChild # 0 => stopChild \in stopTrees
  /\ stop \in {"closing", "trees", "lost", "failed", "retry", "done"} => child = 0
  /\ stop \in {"closing", "trees", "lost", "failed", "done"} => idle = "off"
  /\ stop \in {"lost", "done"} => stopTrees = {}
  /\ stop = "done" => lost = {}
  /\ \A g \in Gens : Alive(g) =>
       /\ stop = "capture" => g \in lost \/ g \in stopTrees \/ g = stopChild
       /\ stop \in {"join", "closing", "trees", "lost", "done"} => g \in lost \/ g \in stopTrees

\* The process a caller works on is neither being started nor, for a round, shut
\* down, unless it is gone already.
Gone(g) == g \in lost \/ g \in broken \/ os[g] = "exited"
Roundings ==
  \A c \in Callers : pc[c] \in {"ready", "working"} =>
    /\ at[c] # 0 /\ at[c] # flight.gen
    /\ c \in pinned => /\ child = at[c] \/ stopped \/ Gone(at[c])
                       /\ retirement # 0 => at[c] # retirement \/ stopped \/ Gone(at[c])

Inv == /\ TypeOK /\ OneBackend /\ Born /\ Kept
       /\ Retiring /\ Flights /\ Callings /\ Stopping /\ Roundings

Places == Waiting \cup Ready \cup {"out", "ready", "working"}

\* Where the code sends a caller is a place.
LEMMA PlacesOK ==
  /\ {"out", "ready", "working", "begin", "lostcheck", "admit",
      "retiring", "losing", "joining", "rejoin"} \subseteq Places
  /\ TypeOK => pc \in [Callers -> Places]
<1>1. {"out", "ready", "working", "begin", "lostcheck", "admit",
      "retiring", "losing", "joining", "rejoin"} \subseteq Places
  BY DEF Places, Waiting, Ready
<1>2. TypeOK => pc \in [Callers -> Places]
  BY DEF TypeOK, Places
<1> QED BY <1>1, <1>2

LEMMA ZeroGen == 0 \notin Gens
  BY BoundsAssumption DEF Gens

\* A counter of faults stays in its range.
LEMMA FaultsOK == TypeOK /\ (Fault \/ NoFault) => faults' \in 0 .. MaxFaults
  BY BoundsAssumption DEF TypeOK, Fault, NoFault

\* The catch of startProcess, whatever its last snapshot said: the process is
\* retired by the one who owns it, or was lost before it could be counted.
LEMMA InvCatch ==
  ASSUME Inv, flight.stage \in {"handshake", "census"}, Quiet, Catch,
         NEW e \in Known, child # flight.gen => e # "full",
         census' = census \/ census' = [census EXCEPT ![flight.gen] = e],
         faults' \in 0 .. MaxFaults,
         UNCHANGED <<osVars, child, broken, closing, lostVars, stopVars, pinned>>
  PROVE  Inv'
<1> DEFINE g == flight.gen
<1>1. g \in Gens /\ retirement = 0 /\ child \in {0, g} /\ idle = "off" /\ os[g] # "unborn"
  BY DEF Inv, TypeOK, Flights, Retiring, Born
<1>2. /\ retirement' \in {0, g} /\ (retirement' = g => child = g \/ child = 0)
      /\ evidence' \in [Gens -> Known \cup {"pending"}] /\ idle' \in {"off", "evidence"}
      /\ idle' = "evidence" => retirement' = g /\ child = g
      /\ child = g => /\ flight' = [flight EXCEPT !.stage = "failing", !.rejected = TRUE]
                      /\ pc' = pc /\ idle' = "evidence"
      /\ child # g => /\ flight' = NoFlight /\ idle' = "off"
                      /\ pc' = [c \in Callers |-> IF pc[c] = "joining" THEN "out"
                                                  ELSE IF pc[c] = "rejoin" THEN "begin" ELSE pc[c]]
      /\ at' = at
  <2>1. CASE child = g
    BY <1>1, <2>1 DEF Catch, IdleStarts, Inv, TypeOK, Known
  <2>2. CASE child # g
    BY <1>1, <2>2 DEF Catch, FlightOver, Inv, TypeOK, Known
  <2> QED BY <2>1, <2>2
<1>3. UNCHANGED <<os, tree, child, broken, lost, draining, cleaning, stop, stopChild, stopTrees, pinned>>
  BY DEF osVars, lostVars, stopVars
<1>4. /\ flight' \in [gen : {0} \cup Gens, stage : {"none", "handshake", "census", "failing"},
                      abandoned : BOOLEAN, rejected : BOOLEAN]
      /\ flight'.gen \in {0, g}
      /\ flight'.stage = "failing" \/ flight' = NoFlight
      /\ flight'.stage = "failing" => child = g
  <2>1. CASE child = g
    BY <1>2, <2>1 DEF Inv, TypeOK
  <2>2. CASE child # g
    <3>1. /\ NoFlight \in [gen : {0} \cup Gens, stage : {"none", "handshake", "census", "failing"},
                           abandoned : BOOLEAN, rejected : BOOLEAN]
          /\ NoFlight.gen = 0 /\ NoFlight.stage = "none"
      BY DEF NoFlight
    <3> QED BY <1>2, <2>2, <3>1
  <2> QED BY <2>1, <2>2
<1>5. census' \in [Gens -> Known] /\ (\A h \in Gens \ {g} : census'[h] = census[h])
  BY <1>1 DEF Inv, TypeOK
<1>6. pc' \in [Callers -> Places] /\ \A c \in Callers : pc'[c] \in {pc[c], "out", "begin"}
  BY <1>1, <1>2, PlacesOK DEF Inv
<1>7. TypeOK'
  BY <1>1, <1>2, <1>3, <1>4, <1>5, <1>6 DEF Inv, TypeOK, Places
<1>8. OneBackend' /\ Kept'
  BY <1>1, <1>3, <1>2, ZeroGen DEF Inv, OneBackend, Kept, Alive
<1>9. Born'
  BY <1>1, <1>2, <1>3, <1>4, <1>5 DEF Inv, Born
<1>10. Retiring' /\ Stopping'
  <2>1. Retiring'
    BY <1>1, <1>2, <1>3, ZeroGen DEF Inv, Retiring, stopped
  <2>2. Stopping'
    BY <1>1, <1>2, <1>3, ZeroGen DEF Inv, Stopping, Alive
  <2> QED BY <2>1, <2>2
<1>11. Flights'
  BY <1>4 DEF Flights, NoFlight
<1>12. Callings'
  <2>1. ~stopped /\ child # g => census'[g] # "full" /\ g \in lost
    BY <1>1, <1>3 DEF Inv, Flights, TypeOK
  <2>2. child = g => lost = {}
    BY <1>1 DEF Inv, Retiring, TypeOK, Gens
  <2> QED BY <1>1, <1>2, <1>3, <1>5, <1>6, <2>1, <2>2 DEF Inv, Callings, stopped, Quiet, Ready
<1>13. Roundings'
  BY <1>1, <1>2, <1>3, <1>4, <1>6 DEF Inv, Roundings, Gone, stopped
<1> QED BY <1>7, <1>8, <1>9, <1>10, <1>11, <1>12, <1>13 DEF Inv

LEMMA InvHandshake ==
  ASSUME Inv, Handshake
  PROVE  Inv'
<1>1. /\ flight.stage = "handshake" /\ Quiet /\ faults' \in 0 .. MaxFaults /\ flight.gen \in Gens
      /\ UNCHANGED <<osVars, child, broken, census, closing, lostVars, stopVars, pinned>>
  BY BoundsAssumption DEF Handshake, Flying, Fault, NoFault, Inv, TypeOK, Flights
<1>2. CASE Catch
  <2>1. "none" \in Known
    BY DEF Known
  <2> QED BY <1>1, <1>2, <2>1, InvCatch
<1>3. CASE ~Catch
  <2>1. /\ flight' = [flight EXCEPT !.stage = "census"]
        /\ UNCHANGED <<os, tree, child, broken, census, closing, lost, draining, cleaning,
                       stop, stopChild, stopTrees, pinned, retirement, evidence, idle, pc, at>>
    BY <1>1, <1>3 DEF Handshake, osVars, lostVars, stopVars
  <2>2. /\ flight' \in [gen : {0} \cup Gens, stage : {"none", "handshake", "census", "failing"},
                        abandoned : BOOLEAN, rejected : BOOLEAN]
        /\ flight'.gen = flight.gen /\ flight'.stage = "census"
    BY <2>1 DEF Inv, TypeOK
  <2>3. TypeOK'
    BY <1>1, <2>1, <2>2 DEF Inv, TypeOK
  <2>4. OneBackend' /\ Kept' /\ Born' /\ Retiring' /\ Stopping' /\ Callings'
    BY <2>1, <2>2 DEF Inv, OneBackend, Kept, Born, Alive, Retiring, Stopping, Callings, stopped
  <2>5. Flights' /\ Roundings'
    BY <1>1, <2>1, <2>2 DEF Inv, Flights, Roundings, Gone, stopped
  <2> QED BY <2>3, <2>4, <2>5 DEF Inv
<1> QED BY <1>2, <1>3

LEMMA InvRecordTree ==
  ASSUME Inv, RecordTree
  PROVE  Inv'
<1> DEFINE g == flight.gen
<1>1. /\ flight.stage = "census" /\ Quiet
      /\ UNCHANGED <<osVars, child, broken, closing, lostVars, stopVars, pinned>>
  BY DEF RecordTree, Flying
<1>2. g \in Gens /\ retirement = 0 /\ os[g] # "unborn"
  BY <1>1 DEF Inv, TypeOK, Flights, Born
<1>3. PICK e \in {"full", "unknown"} : Snapshot(g, e) /\ census' = [census EXCEPT ![g] = e]
  BY DEF RecordTree
<1>4. faults' \in 0 .. MaxFaults /\ e \in Known /\ (child # g => e # "full")
  BY <1>3, BoundsAssumption DEF Snapshot, Fault, NoFault, Inv, TypeOK, Known
<1>5. CASE Doomed
  BY <1>1, <1>3, <1>4, <1>5, InvCatch DEF RecordTree
<1>6. CASE ~Doomed
  <2>1. /\ ~stopped /\ child = g /\ flight' = NoFlight
        /\ pc' = [c \in Callers |-> IF pc[c] = "joining" THEN "ready"
                                    ELSE IF pc[c] = "rejoin" THEN "begin" ELSE pc[c]]
        /\ at' = [c \in Callers |-> IF pc[c] = "joining" THEN g ELSE at[c]]
        /\ UNCHANGED <<retirement, evidence, idle>>
    BY <1>6 DEF RecordTree, FlightOver, Doomed
  <2>2. UNCHANGED <<os, tree, child, broken, closing, lost, draining, cleaning, stop, stopChild, stopTrees, pinned>>
    BY <1>1 DEF osVars, lostVars, stopVars
  <2>3. pc' \in [Callers -> Places] /\ at' \in [Callers -> {0} \cup Gens]
    BY <1>2, <2>1, PlacesOK DEF Inv, TypeOK
  <2>4. census' \in [Gens -> Known] /\ (\A h \in Gens \ {g} : census'[h] = census[h])
    BY <1>2, <1>3, <1>4 DEF Inv, TypeOK
  <2>5. TypeOK'
    BY <1>4, <2>1, <2>2, <2>3, <2>4 DEF Inv, TypeOK, Places, NoFlight
  <2>6. OneBackend' /\ Kept' /\ Retiring' /\ Stopping'
    BY <2>1, <2>2 DEF Inv, OneBackend, Kept, Alive, Retiring, Stopping, stopped
  <2>7. Born'
    BY <1>2, <2>1, <2>2, <2>4 DEF Inv, Born, NoFlight
  <2>8. Flights' /\ Callings'
    BY <1>2, <2>1, <2>2 DEF Inv, Flights, Callings, stopped, NoFlight
  <2>9. Roundings'
    BY <1>2, <2>1, <2>2 DEF Inv, Roundings, Gone, stopped, NoFlight, Gens
  <2> QED BY <2>5, <2>6, <2>7, <2>8, <2>9 DEF Inv
<1> QED BY <1>5, <1>6

LEMMA InvSpawn ==
  ASSUME Inv, NEW c \in Callers, Spawn(c)
  PROVE  Inv'
<1>1. /\ pc[c] = "admit" /\ ~stopped /\ flight = NoFlight /\ child = 0
      /\ lost = {} /\ retirement = 0 /\ stopTrees = {}
      /\ \A g \in Gens : ~Alive(g)
  <2>1. pc[c] = "admit" /\ ~stopped /\ flight = NoFlight /\ child = 0
    BY DEF Spawn, MaySpawn
  <2>2. lost = {} /\ retirement = 0 /\ stopTrees = {}
    BY <2>1 DEF Inv, Callings, Retiring
  <2> QED BY <2>1, <2>2 DEF Inv, Kept, Gens
<1>2. UNCHANGED <<broken, census, retirement, evidence, closing, idle, lost, draining, cleaning,
                  stop, stopChild, stopTrees, at, pinned>>
  BY DEF Spawn, idleVars, lostVars, stopVars
<1>3. ASSUME NEW g \in Gens, os[g] = "unborn",
             os' = [os EXCEPT ![g] = "running"], tree' = tree \cup {g},
             child' = g, flight' = [NoFlight EXCEPT !.gen = g, !.stage = "handshake"],
             Goto(c, "joining"), NoFault
      PROVE  Inv'
  <2>1. /\ os' \in [Gens -> {"unborn", "running", "exited"}]
        /\ \A h \in Gens : os'[h] = IF h = g THEN "running" ELSE os[h]
    BY <1>3 DEF Inv, TypeOK
  <2>2. /\ pc' \in [Callers -> Places]
        /\ \A d \in Callers : pc'[d] = IF d = c THEN "joining" ELSE pc[d]
    BY <1>3, PlacesOK DEF Inv, Goto
  <2>3. /\ flight' \in [gen : {0} \cup Gens, stage : {"none", "handshake", "census", "failing"},
                        abandoned : BOOLEAN, rejected : BOOLEAN]
        /\ flight'.gen = g /\ flight'.stage = "handshake" /\ g # 0
    <3>1. flight' = [gen |-> g, stage |-> "handshake", abandoned |-> FALSE, rejected |-> FALSE]
      BY <1>3 DEF NoFlight
    <3> QED BY <3>1, ZeroGen
  <2>4. TypeOK'
    BY <1>2, <1>3, <2>1, <2>2, <2>3 DEF Inv, TypeOK, Places, NoFault
  <2>5. OneBackend' /\ Kept'
    BY <1>1, <1>2, <1>3, <2>1 DEF OneBackend, Kept, Alive
  <2>6. Born'
    BY <1>1, <1>2, <1>3, <2>1, <2>3 DEF Inv, Born
  <2>7. Retiring' /\ Stopping'
    BY <1>1, <1>2, <1>3 DEF Inv, Retiring, Stopping, stopped
  <2>8. Flights'
    BY <1>1, <1>2, <1>3, <2>3 DEF Inv, Flights, Born
  <2>9. Callings'
    BY <1>1, <1>2, <2>2 DEF Inv, Callings, stopped
  <2>10. Roundings'
    BY <1>1, <1>2, <1>3, <2>1, <2>2, <2>3 DEF Inv, Roundings, Gone, stopped, Born, TypeOK
  <2> QED BY <2>4, <2>5, <2>6, <2>7, <2>8, <2>9, <2>10 DEF Inv
<1>4. CASE Goto(c, "out") /\ UNCHANGED <<osVars, child, flight>>
  <2>1. faults' \in 0 .. MaxFaults
    <3>1. Fault \/ NoFault
      BY DEF Spawn
    <3> QED BY <3>1, FaultsOK DEF Inv
  <2>2. pc' \in [Callers -> Places] /\ (\A d \in Callers : pc'[d] \in {pc[d], "out"}) /\ UNCHANGED <<os, tree>>
    BY <1>4, PlacesOK DEF Inv, Goto, osVars
  <2>3. TypeOK'
    BY <1>2, <1>4, <2>1, <2>2 DEF Inv, TypeOK, Places
  <2>4. OneBackend' /\ Kept' /\ Born' /\ Retiring' /\ Stopping' /\ Flights'
    BY <1>2, <1>4, <2>2 DEF Inv, OneBackend, Kept, Born, Alive, Retiring, Stopping, Flights, stopped
  <2>5. Callings' /\ Roundings'
    BY <1>2, <1>4, <2>2 DEF Inv, Callings, Roundings, Gone, stopped
  <2> QED BY <2>3, <2>4, <2>5 DEF Inv
<1> QED BY <1>3, <1>4 DEF Spawn

LEMMA InvCleanLost ==
  ASSUME Inv, NEW g \in Gens, CleanLost(g)
  PROVE  Inv'
<1>1. /\ Quiet /\ cleaning /\ g \in lost /\ g \notin draining
      /\ UNCHANGED <<child, broken, census, flight, retirement, evidence, closing, idle, draining,
                     stopChild, stopTrees, at, pinned>>
  BY DEF CleanLost, Cleanable, flightVars, idleVars
<1>2. /\ faults' \in 0 .. MaxFaults /\ cleaning' \in BOOLEAN
      /\ stop' \in {stop, "done", "failed"} /\ (stop' # stop => stop = "lost")
      /\ stop' = "done" /\ stop = "lost" => lost' = {}
  <2>1. Fault \/ NoFault
    BY DEF CleanLost, CannotKill
  <2>2. cleaning' \in BOOLEAN
    BY DEF CleanLost, Inv, TypeOK
  <2>3. /\ stop' \in {stop, "done", "failed"} /\ (stop' # stop => stop = "lost")
        /\ stop' = "done" /\ stop = "lost" => lost' = {}
    BY DEF CleanLost
  <2> QED BY <2>1, <2>2, <2>3, FaultsOK DEF Inv
<1>3. CASE /\ Kill(g, census[g]) /\ lost' = lost \ {g}
           /\ IF lost = {g} THEN cleaning' = FALSE /\ Move({"losing"}, "admit") ELSE UNCHANGED <<cleaning, pc>>
  <2>1. /\ os' \in [Gens -> {"unborn", "running", "exited"}] /\ tree' \subseteq tree /\ g \notin tree'
        /\ os'[g] = "exited" /\ \A h \in Gens \ {g} : os'[h] = os[h]
        /\ census[g] = "full"
    BY <1>3 DEF Kill, Inv, TypeOK
  <2>2. /\ pc' \in [Callers -> Places]
        /\ \A c \in Callers : pc'[c] = pc[c] \/ (pc[c] = "losing" /\ pc'[c] = "admit" /\ lost' = {})
        /\ lost' = {} => \A c \in Callers : pc'[c] # "losing"
    <3>1. CASE lost = {g}
      BY <1>3, <3>1, PlacesOK DEF Move, Inv
    <3>2. CASE lost # {g}
      BY <1>1, <1>3, <3>2, PlacesOK DEF Inv
    <3> QED BY <3>1, <3>2
  <2>3. TypeOK'
    BY <1>1, <1>2, <1>3, <2>1, <2>2 DEF Inv, TypeOK, Places
  <2>4. OneBackend' /\ Kept' /\ Born'
    BY <1>1, <1>3, <2>1 DEF Inv, OneBackend, Kept, Born, Alive
  <2>5. Retiring' /\ Flights'
    BY <1>1, <1>2, <1>3, <2>1 DEF Inv, Retiring, Flights, stopped, TypeOK
  <2>6. Stopping'
    BY <1>1, <1>2, <1>3, <2>1 DEF Inv, Stopping, Alive
  <2>7. Callings'
    BY <1>1, <1>2, <1>3, <2>1, <2>2 DEF Inv, Callings, stopped, Quiet, Ready
  <2>8. Roundings'
    BY <1>1, <1>2, <1>3, <2>1, <2>2 DEF Inv, Roundings, Gone, stopped, TypeOK
  <2> QED BY <2>3, <2>4, <2>5, <2>6, <2>7, <2>8 DEF Inv
<1>4. CASE Move({"losing"}, "out") /\ UNCHANGED <<osVars, lost>>
  <2>1. pc' \in [Callers -> Places] /\ \A c \in Callers : pc'[c] \in {pc[c], "out"}
    BY <1>4, PlacesOK DEF Move, Inv
  <2>2. UNCHANGED <<os, tree, lost>>
    BY <1>4 DEF osVars
  <2>3. TypeOK'
    BY <1>1, <1>2, <2>1, <2>2 DEF Inv, TypeOK, Places
  <2>4. OneBackend' /\ Kept' /\ Born' /\ Retiring' /\ Flights'
    BY <1>1, <1>2, <2>2 DEF Inv, OneBackend, Kept, Born, Alive, Retiring, Flights, stopped
  <2>5. Stopping'
    BY <1>1, <1>2, <2>2 DEF Inv, Stopping, Alive
  <2>6. Callings' /\ Roundings'
    BY <1>1, <1>2, <2>1, <2>2 DEF Inv, Callings, Roundings, Gone, stopped
  <2> QED BY <2>3, <2>4, <2>5, <2>6 DEF Inv
<1> QED BY <1>3, <1>4 DEF CleanLost

\* A step of one caller that only moves it: what it must have seen.
LEMMA InvCaller ==
  ASSUME Inv, NEW c \in Callers, NEW s \in Places, NEW a \in {0} \cup Gens,
         pc' = [pc EXCEPT ![c] = s], at' = [at EXCEPT ![c] = a],
         pinned' \subseteq Callers, \A d \in Callers \ {c} : d \in pinned' <=> d \in pinned,
         cleaning' \in BOOLEAN,
         UNCHANGED <<osVars, flightVars, idleVars, lost, draining, stopVars, faults>>,
         a \in Gens => os[a] # "unborn",
         ~stopped => /\ s = "lostcheck" => retirement = 0
                     /\ s = "admit" => lost = {} /\ retirement = 0
                     /\ s = "losing" => lost # {} /\ retirement = 0,
         s \in {"ready", "working"} =>
            /\ a # 0 /\ a # flight.gen
            /\ c \in pinned' => /\ child = a \/ stopped \/ Gone(a)
                                /\ retirement # 0 => a # retirement \/ stopped \/ Gone(a)
  PROVE  Inv'
<1>1. UNCHANGED <<os, tree, child, broken, census, flight, retirement, evidence, closing, idle,
                  lost, draining, stop, stopChild, stopTrees, faults>>
  BY DEF osVars, flightVars, idleVars, stopVars
<1>2. /\ pc' \in [Callers -> Places] /\ at' \in [Callers -> {0} \cup Gens]
      /\ pc'[c] = s /\ at'[c] = a
      /\ \A d \in Callers \ {c} : pc'[d] = pc[d] /\ at'[d] = at[d]
  BY PlacesOK DEF Inv, TypeOK
<1>3. TypeOK'
  BY <1>1, <1>2 DEF Inv, TypeOK, Places
<1>4. OneBackend' /\ Kept' /\ Retiring' /\ Stopping' /\ Flights'
  BY <1>1 DEF Inv, OneBackend, Kept, Alive, Retiring, Stopping, Flights, stopped
<1>5. Born'
  BY <1>1, <1>2 DEF Inv, Born
<1>6. Callings'
  BY <1>1, <1>2 DEF Inv, Callings, stopped
<1>7. Roundings'
  BY <1>1, <1>2 DEF Inv, Roundings, Gone, stopped
<1> QED BY <1>3, <1>4, <1>5, <1>6, <1>7 DEF Inv

\* The thread of a caller is on a generation that was spawned.
LEMMA AtOK == Inv => \A c \in Callers : at[c] \in {0} \cup Gens /\ (at[c] \in Gens => os[at[c]] # "unborn")
  BY DEF Inv, TypeOK, Born

LEMMA InvCall ==
  ASSUME Inv, NEW c \in Callers, Call(c)
  PROVE  Inv'
<1>1. pc' = [pc EXCEPT ![c] = "begin"] /\ at' = [at EXCEPT ![c] = at[c]]
  BY DEF Call, Inv, TypeOK
<1>2. /\ pinned' \subseteq Callers /\ \A d \in Callers \ {c} : d \in pinned' <=> d \in pinned
      /\ cleaning' \in BOOLEAN
      /\ UNCHANGED <<osVars, flightVars, idleVars, lost, draining, stopVars, faults>>
  BY DEF Call, Inv, TypeOK, lostVars
<1>3. "begin" \in Places
  BY PlacesOK
<1> QED BY <1>1, <1>2, <1>3, AtOK, InvCaller

LEMMA InvLostCheck ==
  ASSUME Inv, NEW c \in Callers, LostCheck(c)
  PROVE  Inv'
<1>1. /\ at' = [at EXCEPT ![c] = at[c]]
      /\ pinned' \subseteq Callers /\ \A d \in Callers \ {c} : d \in pinned' <=> d \in pinned
      /\ cleaning' \in BOOLEAN
      /\ UNCHANGED <<osVars, flightVars, idleVars, lost, draining, stopVars, faults>>
  BY DEF LostCheck, Inv, TypeOK
<1>2. ~stopped => retirement = 0
  BY DEF LostCheck, Inv, Callings
<1>3. CASE lost # {}
  <2>1. pc' = [pc EXCEPT ![c] = "losing"] /\ "losing" \in Places
    BY <1>3, PlacesOK DEF LostCheck, MustClean, Goto
  <2> QED BY <1>1, <1>2, <1>3, <2>1, AtOK, InvCaller
<1>4. CASE lost = {}
  <2>1. pc' = [pc EXCEPT ![c] = "admit"] /\ "admit" \in Places
    BY <1>4, PlacesOK DEF LostCheck, MustClean, Goto
  <2> QED BY <1>1, <1>2, <1>4, <2>1, AtOK, InvCaller
<1> QED BY <1>3, <1>4

LEMMA InvAdmit ==
  ASSUME Inv, NEW c \in Callers, Admit(c)
  PROVE  Inv'
<1>1. /\ pinned' \subseteq Callers /\ \A d \in Callers \ {c} : d \in pinned' <=> d \in pinned
      /\ cleaning' \in BOOLEAN
      /\ UNCHANGED <<osVars, flightVars, idleVars, lost, draining, stopVars, faults>>
  BY DEF Admit, Inv, TypeOK, lostVars
<1>2. CASE \E s \in {"out", "rejoin", "joining"} : Goto(c, s) /\ UNCHANGED at
  <2>1. PICK s \in {"out", "rejoin", "joining"} : Goto(c, s) /\ UNCHANGED at
    BY <1>2
  <2>2. pc' = [pc EXCEPT ![c] = s] /\ s \in Places /\ at' = [at EXCEPT ![c] = at[c]]
    BY <2>1, PlacesOK DEF Goto, Inv, TypeOK
  <2> QED BY <1>1, <2>2, AtOK, InvCaller
<1>3. CASE /\ ~stopped /\ flight = NoFlight /\ child # 0 /\ child \notin broken
           /\ Goto(c, "ready") /\ at' = [at EXCEPT ![c] = child]
  <2>1. pc[c] = "admit" /\ retirement = 0
    BY <1>3 DEF Admit, Inv, Callings
  <2>2. child \in Gens /\ os[child] # "unborn" /\ flight.gen = 0
    BY <1>3 DEF Inv, TypeOK, Born, NoFlight
  <2>3. pc' = [pc EXCEPT ![c] = "ready"] /\ "ready" \in Places
    BY <1>3, PlacesOK DEF Goto
  <2> QED BY <1>1, <1>3, <2>1, <2>2, <2>3, InvCaller
<1> QED BY <1>2, <1>3 DEF Admit

LEMMA InvWork ==
  ASSUME Inv, NEW c \in Callers, Work(c)
  PROVE  Inv'
<1>1. /\ pinned' \subseteq Callers /\ \A d \in Callers \ {c} : d \in pinned' <=> d \in pinned
      /\ cleaning' \in BOOLEAN
      /\ UNCHANGED <<osVars, flightVars, idleVars, lost, draining, stopVars, faults>>
      /\ pinned' = pinned
  BY DEF Work, Inv, TypeOK, lostVars
<1>2. CASE \E s \in {"working", "ready"} : pc[c] \in {"ready", "working"} /\ Goto(c, s) /\ UNCHANGED at
  <2>1. PICK s \in {"working", "ready"} : pc[c] \in {"ready", "working"} /\ Goto(c, s) /\ UNCHANGED at
    BY <1>2
  <2>2. pc' = [pc EXCEPT ![c] = s] /\ s \in Places /\ at' = [at EXCEPT ![c] = at[c]]
    BY <2>1, PlacesOK DEF Goto, Inv, TypeOK
  <2>3. /\ at[c] # 0 /\ at[c] # flight.gen
        /\ c \in pinned => /\ child = at[c] \/ stopped \/ Gone(at[c])
                           /\ retirement # 0 => at[c] # retirement \/ stopped \/ Gone(at[c])
    BY <2>1 DEF Inv, Roundings
  <2> QED BY <1>1, <2>1, <2>2, <2>3, AtOK, InvCaller
<1>3. CASE Goto(c, "out") /\ at' = [at EXCEPT ![c] = 0]
  <2>1. pc' = [pc EXCEPT ![c] = "out"] /\ "out" \in Places
    BY <1>3, PlacesOK DEF Goto
  <2> QED BY <1>1, <1>3, <2>1, ZeroGen, InvCaller
<1> QED BY <1>2, <1>3 DEF Work

LEMMA InvEndRound ==
  ASSUME Inv, NEW c \in Callers, EndRound(c)
  PROVE  Inv'
<1>1. /\ pc' = [pc EXCEPT ![c] = "out"] /\ at' = [at EXCEPT ![c] = at[c]]
  BY DEF EndRound, Inv, TypeOK
<1>2. /\ pinned' \subseteq Callers /\ \A d \in Callers \ {c} : d \in pinned' <=> d \in pinned
      /\ cleaning' \in BOOLEAN
      /\ UNCHANGED <<osVars, flightVars, idleVars, lost, draining, stopVars, faults>>
  BY DEF EndRound, Inv, TypeOK, lostVars
<1>3. "out" \in Places
  BY PlacesOK
<1> QED BY <1>1, <1>2, <1>3, AtOK, InvCaller

\* What a call of idleShutdown() leaves.
LEMMA StartsOK ==
  ASSUME Inv, NEW g \in {0} \cup Gens, IdleStarts(g), idle = "off" /\ retirement = 0 => g \in Gens
  PROVE  /\ idle # "off" => idle' = idle /\ retirement' = retirement
         /\ idle = "off" => idle' = "evidence" /\ retirement' = IF retirement # 0 THEN retirement ELSE g
         /\ evidence' \in [Gens -> Known \cup {"pending"}]
<1>1. idle # "off" => idle' = idle /\ retirement' = retirement /\ evidence' = evidence
  BY DEF IdleStarts
<1>2. idle = "off" => /\ idle' = "evidence" /\ retirement' = IF retirement # 0 THEN retirement ELSE g
                      /\ evidence' = evidence \/ evidence' = [evidence EXCEPT ![retirement'] = "pending"]
  BY DEF IdleStarts
<1> QED BY <1>1, <1>2 DEF Inv, TypeOK

LEMMA InvBegin ==
  ASSUME Inv, NEW c \in Callers, Begin(c)
  PROVE  Inv'
<1>1. /\ pinned' \subseteq Callers /\ \A d \in Callers \ {c} : d \in pinned' <=> d \in pinned
      /\ cleaning' \in BOOLEAN /\ at' = [at EXCEPT ![c] = at[c]]
      /\ UNCHANGED <<osVars, flightVars, lost, draining, cleaning, stopVars, at, pinned, faults>>
  BY DEF Begin, Inv, TypeOK, lostVars
<1>2. CASE stopped /\ Goto(c, "out") /\ UNCHANGED idleVars
  <2>1. pc' = [pc EXCEPT ![c] = "out"] /\ "out" \in Places
    BY <1>2, PlacesOK DEF Goto
  <2> QED BY <1>1, <1>2, <2>1, AtOK, InvCaller
<1>3. CASE ~stopped /\ idle = "off" /\ retirement = 0 /\ Goto(c, "lostcheck") /\ UNCHANGED idleVars
  <2>1. pc' = [pc EXCEPT ![c] = "lostcheck"] /\ "lostcheck" \in Places
    BY <1>3, PlacesOK DEF Goto
  <2> QED BY <1>1, <1>3, <2>1, AtOK, InvCaller
<1>4. CASE /\ ~stopped /\ (idle # "off" \/ retirement # 0)
           /\ Goto(c, "retiring") /\ IdleStarts(retirement) /\ UNCHANGED closing
  <2>1. retirement # 0 /\ retirement \in Gens
    BY <1>4 DEF Inv, Retiring, TypeOK
  <2>2. /\ retirement' = retirement /\ (idle' = idle \/ idle' = "evidence")
        /\ evidence' \in [Gens -> Known \cup {"pending"}] /\ idle' \in {"off", "evidence", "closing", "confirm"}
    BY <1>4, <2>1, StartsOK DEF Inv, TypeOK
  <2>3. UNCHANGED <<os, tree, child, broken, census, flight, retirement, closing, lost, draining, cleaning,
                    stop, stopChild, stopTrees, at, pinned, faults>>
    BY <1>1, <1>4, <2>2 DEF osVars, flightVars, stopVars
  <2>4. pc' \in [Callers -> Places] /\ \A d \in Callers : pc'[d] \in {pc[d], "retiring"}
    BY <1>4, PlacesOK DEF Goto, Inv
  <2>5. TypeOK'
    BY <2>2, <2>3, <2>4 DEF Inv, TypeOK, Places
  <2>6. OneBackend' /\ Kept' /\ Born' /\ Retiring' /\ Stopping' /\ Flights'
    BY <1>4, <2>1, <2>2, <2>3 DEF Inv, OneBackend, Kept, Born, Alive, Retiring, Stopping, Flights, stopped
  <2>7. Callings' /\ Roundings'
    BY <2>3, <2>4 DEF Inv, Callings, Roundings, Gone, stopped
  <2> QED BY <2>5, <2>6, <2>7 DEF Inv
<1> QED BY <1>2, <1>3, <1>4 DEF Begin

\* A caller that withdraws may abandon the start it was waiting for.
LEMMA InvAbort ==
  ASSUME Inv, NEW c \in Callers, Abort(c)
  PROVE  Inv'
<1>1. UNCHANGED <<os, tree, child, broken, census, retirement, evidence, closing, idle,
                  lost, draining, cleaning, stop, stopChild, stopTrees, at, pinned, faults>>
  BY DEF Abort, osVars, idleVars, lostVars, stopVars
<1>2. pc' \in [Callers -> Places] /\ \A d \in Callers : pc'[d] \in {pc[d], "out"}
  BY PlacesOK DEF Abort, Goto, Inv
<1>3. /\ flight' \in [gen : {0} \cup Gens, stage : {"none", "handshake", "census", "failing"},
                      abandoned : BOOLEAN, rejected : BOOLEAN]
      /\ flight'.gen = flight.gen /\ flight'.stage = flight.stage
  BY DEF Abort, Inv, TypeOK
<1>4. TypeOK'
  BY <1>1, <1>2, <1>3 DEF Inv, TypeOK, Places
<1>5. OneBackend' /\ Kept' /\ Born' /\ Retiring' /\ Stopping'
  BY <1>1, <1>3 DEF Inv, OneBackend, Kept, Born, Alive, Retiring, Stopping, stopped
<1>6. Flights'
  BY <1>1, <1>3 DEF Inv, Flights, stopped
<1>7. Callings' /\ Roundings'
  BY <1>1, <1>2, <1>3 DEF Inv, Callings, Roundings, Gone, stopped
<1> QED BY <1>4, <1>5, <1>6, <1>7 DEF Inv

LEMMA InvFlightFails ==
  ASSUME Inv, FlightFails
  PROVE  Inv'
<1>1. /\ flight.stage = "failing" /\ flight' = NoFlight
      /\ pc' = [c \in Callers |-> IF pc[c] = "joining" THEN "out"
                                  ELSE IF pc[c] = "rejoin" THEN "begin" ELSE pc[c]]
  BY DEF FlightFails, Flying, FlightOver
<1>2. UNCHANGED <<os, tree, child, broken, census, retirement, evidence, closing, idle,
                  lost, draining, cleaning, stop, stopChild, stopTrees, at, pinned, faults>>
  BY DEF FlightFails, osVars, idleVars, lostVars, stopVars
<1>3. pc' \in [Callers -> Places] /\ \A c \in Callers : pc'[c] \in {pc[c], "out", "begin"}
  BY <1>1, PlacesOK DEF Inv
<1>4. /\ NoFlight \in [gen : {0} \cup Gens, stage : {"none", "handshake", "census", "failing"},
                       abandoned : BOOLEAN, rejected : BOOLEAN]
      /\ NoFlight.gen = 0 /\ NoFlight.stage = "none"
  BY DEF NoFlight
<1>5. TypeOK'
  BY <1>1, <1>2, <1>3, <1>4 DEF Inv, TypeOK, Places
<1>6. OneBackend' /\ Kept' /\ Born' /\ Retiring' /\ Stopping' /\ Flights'
  BY <1>1, <1>2, <1>4, ZeroGen DEF Inv, OneBackend, Kept, Born, Alive, Retiring, Stopping, Flights, stopped
<1>7. Callings' /\ Roundings'
  BY <1>1, <1>2, <1>3, <1>4 DEF Inv, Callings, Roundings, Gone, stopped
<1> QED BY <1>5, <1>6, <1>7 DEF Inv

LEMMA InvBreak ==
  ASSUME Inv, Break
  PROVE  Inv'
<1>1. UNCHANGED <<os, tree, child, census, flight, retirement, evidence, closing, idle,
                  lost, draining, cleaning, stop, stopChild, stopTrees, pc, at, pinned>>
  BY DEF Break, osVars, idleVars, lostVars, stopVars, callerVars
<1>2. child # 0 /\ broken' = broken \cup {child} /\ faults' \in 0 .. MaxFaults
  BY FaultsOK DEF Break, Inv
<1>3. TypeOK'
  BY <1>1, <1>2 DEF Inv, TypeOK
<1>4. OneBackend' /\ Kept' /\ Born' /\ Retiring' /\ Stopping' /\ Flights' /\ Callings'
  BY <1>1 DEF Inv, OneBackend, Kept, Born, Alive, Retiring, Stopping, Flights, Callings, stopped
<1>5. Roundings'
  BY <1>1, <1>2 DEF Inv, Roundings, Gone, stopped
<1> QED BY <1>3, <1>4, <1>5 DEF Inv

\* What the end of a launcher, alone or with its tree, leaves of the processes.
LEMMA EndsOK ==
  ASSUME Inv, NEW g \in Gens, os[g] # "unborn", NEW known, LauncherEnds(g) \/ Kill(g, known)
  PROVE  /\ os' \in [Gens -> {"unborn", "running", "exited"}] /\ os'[g] = "exited"
         /\ \A h \in Gens \ {g} : os'[h] = os[h]
         /\ tree' \subseteq tree
         /\ \A h \in Gens : Alive(h)' => Alive(h)
         /\ \A h \in Gens : os'[h] = "unborn" => os[h] = "unborn"
         /\ Kill(g, known) => ~Alive(g)' /\ known = "full"
<1>1. os' = [os EXCEPT ![g] = "exited"] /\ tree' \in {tree, tree \ {g}}
  BY DEF LauncherEnds, Kill
<1>2. /\ os' \in [Gens -> {"unborn", "running", "exited"}] /\ os'[g] = "exited"
      /\ \A h \in Gens \ {g} : os'[h] = os[h]
  BY <1>1 DEF Inv, TypeOK
<1>3. \A h \in Gens : Alive(h)' => Alive(h)
  BY <1>1, <1>2 DEF Inv, Kept, Born, Alive, TypeOK
<1>4. Kill(g, known) => ~Alive(g)' /\ known = "full"
  BY <1>2 DEF Kill, Alive
<1> QED BY <1>1, <1>2, <1>3, <1>4

LEMMA InvExit ==
  ASSUME Inv, NEW g \in Gens, Exit(g)
  PROVE  Inv'
<1>1. /\ Quiet /\ os[g] = "running" /\ LauncherEnds(g) /\ faults' \in 0 .. MaxFaults
      /\ UNCHANGED <<broken, census, flight, retirement, evidence, closing, idle, cleaning,
                     stop, stopChild, stopTrees, pc, at, pinned>>
  BY FaultsOK DEF Exit, Running, Inv, idleVars, stopVars, callerVars
<1>2. \A c \in Callers : pc[c] \notin Ready
  BY <1>1 DEF Quiet
<1>3. /\ os' \in [Gens -> {"unborn", "running", "exited"}] /\ os'[g] = "exited"
      /\ \A h \in Gens \ {g} : os'[h] = os[h]
      /\ tree' \subseteq tree
      /\ \A h \in Gens : Alive(h)' => Alive(h)
      /\ \A h \in Gens : os'[h] = "unborn" => os[h] = "unborn"
  BY <1>1, EndsOK
<1>4. \/ child = g /\ child' = 0 /\ lost' = lost \cup {g} /\ draining' = draining \cup {g}
      \/ child # g /\ child' = child /\ lost' = lost /\ draining' = draining
  BY DEF Exit
<1>5. TypeOK'
  BY <1>1, <1>3, <1>4 DEF Inv, TypeOK
<1>6. OneBackend' /\ Kept' /\ Stopping'
  <2>1. OneBackend'
    BY <1>3 DEF Inv, OneBackend
  <2>2. Kept'
    BY <1>1, <1>3, <1>4 DEF Inv, Kept
  <2>3. Stopping'
    <3>1. /\ stop \in {"capture", "join"} => child' \in {0, stopChild}
          /\ stop \in {"closing", "trees", "lost", "failed", "retry", "done"} => child' = 0
      BY <1>4 DEF Inv, Stopping
    <3>2. stop = "done" => lost' = {}
      BY <1>4, ZeroGen DEF Inv, Stopping
    <3>3. lost \subseteq lost'
      BY <1>4
    <3> QED BY <1>1, <1>3, <3>1, <3>2, <3>3 DEF Inv, Stopping
  <2> QED BY <2>1, <2>2, <2>3
<1>7. Born'
  BY <1>1, <1>3, <1>4, ZeroGen DEF Inv, Born
<1>8. Retiring' /\ Flights' /\ Callings'
  <2>1. Retiring' /\ Flights'
    BY <1>1, <1>4 DEF Inv, Retiring, Flights, stopped
  <2>2. Callings'
    BY <1>1, <1>2, <1>4, ZeroGen DEF Inv, Callings, Retiring, stopped, Ready
  <2> QED BY <2>1, <2>2
<1>9. Roundings'
  BY <1>1, <1>3, <1>4 DEF Inv, Roundings, Gone, stopped, TypeOK
<1> QED BY <1>5, <1>6, <1>7, <1>8, <1>9 DEF Inv

LEMMA InvDrained ==
  ASSUME Inv, NEW g \in Gens, Drained(g)
  PROVE  Inv'
<1>1. UNCHANGED <<os, tree, child, broken, census, flight, retirement, evidence, closing, idle,
                  lost, cleaning, stop, stopChild, stopTrees, pc, at, pinned, faults>>
  BY DEF Drained, osVars, flightVars, idleVars, stopVars, callerVars
<1>2. TypeOK'
  BY <1>1 DEF Drained, Inv, TypeOK
<1>3. OneBackend' /\ Kept' /\ Born' /\ Retiring' /\ Stopping' /\ Flights'
  BY <1>1 DEF Inv, OneBackend, Kept, Born, Alive, Retiring, Stopping, Flights, stopped
<1>4. Callings' /\ Roundings'
  BY <1>1 DEF Inv, Callings, Roundings, Gone, stopped
<1> QED BY <1>2, <1>3, <1>4 DEF Inv

LEMMA InvIdleTimer ==
  ASSUME Inv, IdleTimer
  PROVE  Inv'
<1>1. /\ \A c \in Callers : pc[c] \notin Ready
      /\ pinned = {} /\ child # 0 /\ flight = NoFlight /\ ~stopped /\ IdleStarts(child)
      /\ UNCHANGED <<os, tree, child, broken, census, flight, closing, lost, draining, cleaning,
                     stop, stopChild, stopTrees, pc, at, pinned, faults>>
  BY DEF IdleTimer, Quiet, MayRetire, IsIdle, osVars, flightVars, lostVars, stopVars, callerVars
<1>2. child \in Gens /\ retirement \in {0, child} /\ lost = {}
  BY <1>1 DEF Inv, TypeOK, Retiring
<1>3. (retirement' = child /\ idle' = "evidence") \/ (idle' = idle /\ retirement' = retirement)
  BY <1>1, <1>2, StartsOK
<1>4. evidence' \in [Gens -> Known \cup {"pending"}]
  BY <1>1, <1>2, StartsOK
<1>5. TypeOK'
  BY <1>1, <1>2, <1>3, <1>4 DEF Inv, TypeOK
<1>6. OneBackend' /\ Stopping' /\ Flights' /\ Roundings'
  <2>1. OneBackend' /\ Stopping' /\ Roundings'
    BY <1>1 DEF Inv, OneBackend, Alive, Stopping, Roundings, stopped
  <2>2. Flights'
    <3>1. flight.stage = "none"
      BY <1>1 DEF NoFlight
    <3> QED BY <1>1, <3>1 DEF Flights
  <2> QED BY <2>1, <2>2
<1>7. Kept' /\ Born' /\ Retiring'
  <2>1. Kept'
    BY <1>1, <1>2, <1>3, ZeroGen DEF Inv, Kept, Alive
  <2>2. Born'
    BY <1>1, <1>2, <1>3 DEF Inv, Born
  <2>3. Retiring'
    BY <1>1, <1>2, <1>3 DEF Inv, Retiring, stopped
  <2> QED BY <2>1, <2>2, <2>3
<1>8. Callings'
  BY <1>1, <1>2 DEF Inv, Callings, stopped, Ready
<1> QED BY <1>5, <1>6, <1>7, <1>8 DEF Inv

LEMMA InvIdleDetach ==
  ASSUME Inv, IdleDetach
  PROVE  Inv'
<1> DEFINE g == retirement
<1>1. /\ idle = "evidence" /\ g \in Gens
      /\ UNCHANGED <<os, tree, broken, census, flight, retirement, lost, draining, cleaning,
                     stop, stopChild, stopTrees, pc, at, pinned>>
  BY DEF IdleDetach, osVars, lostVars, stopVars, callerVars, Inv, TypeOK, Retiring
<1>2. child' = 0 /\ idle' \in {"confirm", "closing"} /\ closing' = closing \cup {g} /\ child \in {0, g}
  BY <1>1, ZeroGen DEF IdleDetach, Inv, Retiring
<1>3. evidence' \in [Gens -> Known \cup {"pending"}] /\ faults' \in 0 .. MaxFaults
  <2>1. CASE evidence[g] = "pending"
    <3>1. PICK e \in {"full", "unknown"} : Snapshot(g, e) /\ evidence' = [evidence EXCEPT ![g] = e]
      BY <2>1 DEF IdleDetach
    <3>2. Fault \/ NoFault
      BY <3>1 DEF Snapshot
    <3> QED BY <3>1, <3>2, FaultsOK DEF Inv, TypeOK, Known
  <2>2. CASE evidence[g] # "pending"
    BY <2>2, FaultsOK DEF IdleDetach, Inv, TypeOK
  <2> QED BY <2>1, <2>2
<1>4. TypeOK'
  BY <1>1, <1>2, <1>3 DEF Inv, TypeOK
<1>5. OneBackend' /\ Kept' /\ Retiring'
  BY <1>1, <1>2 DEF Inv, OneBackend, Kept, Alive, Retiring, stopped
<1>6. Born' /\ Stopping'
  <2>1. Born'
    BY <1>1, <1>2, ZeroGen DEF Inv, Born
  <2>2. Stopping'
    BY <1>1, <1>2 DEF Inv, Stopping, Alive
  <2> QED BY <2>1, <2>2
<1>7. Flights' /\ Callings' /\ Roundings'
  <2>1. Flights' /\ Callings'
    BY <1>1, <1>2, ZeroGen DEF Inv, Flights, Callings, stopped
  <2>2. Roundings'
    BY <1>1, <1>2, ZeroGen DEF Inv, Roundings, Gone, stopped
  <2> QED BY <2>1, <2>2
<1> QED BY <1>4, <1>5, <1>6, <1>7 DEF Inv

LEMMA InvIdleClose ==
  ASSUME Inv, IdleClose
  PROVE  Inv'
<1>1. /\ idle = "closing" /\ idle' = "confirm" /\ retirement \in Gens /\ child = 0
      /\ os[retirement] # "unborn"
      /\ UNCHANGED <<child, broken, census, flight, retirement, evidence, closing, lost, draining,
                     cleaning, stop, stopChild, stopTrees, pc, at, pinned>>
  BY DEF IdleClose, flightVars, lostVars, stopVars, callerVars, Inv, TypeOK, Retiring, Born
<1>2. faults' \in 0 .. MaxFaults
  BY FaultsOK DEF IdleClose, Inv
<1>3. /\ os' \in [Gens -> {"unborn", "running", "exited"}]
      /\ \A h \in Gens : os'[h] = os[h] \/ os'[h] = "exited"
      /\ tree' \subseteq tree
      /\ \A h \in Gens : Alive(h)' => Alive(h)
      /\ \A h \in Gens : os'[h] = "unborn" => os[h] = "unborn"
  <2>1. CASE LauncherEnds(retirement)
    BY <1>1, <2>1, EndsOK
  <2>2. CASE UNCHANGED osVars
    BY <2>2 DEF osVars, Inv, TypeOK, Alive
  <2> QED BY <2>1, <2>2 DEF IdleClose
<1>4. TypeOK'
  BY <1>1, <1>2, <1>3 DEF Inv, TypeOK
<1>5. OneBackend' /\ Kept'
  BY <1>1, <1>3 DEF Inv, OneBackend, Kept
<1>6. Retiring' /\ Stopping'
  <2>1. Retiring'
    BY <1>1 DEF Inv, Retiring, stopped
  <2>2. Stopping'
    BY <1>1, <1>3 DEF Inv, Stopping
  <2> QED BY <2>1, <2>2
<1>7. Born' /\ Flights' /\ Callings'
  BY <1>1, <1>3 DEF Inv, Born, Flights, Callings, stopped
<1>8. Roundings'
  <2>1. \A h \in Gens : Gone(h) => Gone(h)'
    BY <1>1, <1>3 DEF Gone
  <2> QED BY <1>1, <2>1, AtOK DEF Inv, Roundings, stopped
<1> QED BY <1>4, <1>5, <1>6, <1>7, <1>8 DEF Inv

LEMMA InvIdleConfirm ==
  ASSUME Inv, IdleConfirm
  PROVE  Inv'
<1> DEFINE g == retirement
<1>1. /\ idle = "confirm" /\ idle' = "off" /\ g \in Gens /\ child = 0
      /\ os[g] # "unborn" /\ \A c \in Callers : pc[c] \notin Ready
      /\ UNCHANGED <<child, broken, census, flight, evidence, closing, lost, draining,
                     cleaning, stop, stopChild, stopTrees, at, pinned>>
  BY DEF IdleConfirm, Quiet, ShutdownSettles, flightVars, lostVars, stopVars, Inv, TypeOK, Retiring, Born
<1>2. faults' \in 0 .. MaxFaults
  <2>1. Fault \/ NoFault
    BY DEF IdleConfirm, CannotKill
  <2> QED BY <2>1, FaultsOK DEF Inv
<1>3. CASE Kill(g, evidence[g]) /\ retirement' = 0 /\ Move({"retiring"}, "lostcheck")
  <2>1. /\ os' \in [Gens -> {"unborn", "running", "exited"}]
        /\ \A h \in Gens : os'[h] = os[h] \/ os'[h] = "exited"
        /\ tree' \subseteq tree
        /\ \A h \in Gens : Alive(h)' => Alive(h) /\ h # g
        /\ \A h \in Gens : os'[h] = "unborn" => os[h] = "unborn"
    BY <1>1, <1>3, EndsOK
  <2>2. pc' \in [Callers -> Places] /\ \A c \in Callers : pc'[c] \in {pc[c], "lostcheck"}
    BY <1>3, PlacesOK DEF Move, Inv
  <2>3. TypeOK'
    BY <1>1, <1>2, <1>3, <2>1, <2>2 DEF Inv, TypeOK, Places
  <2>4. OneBackend' /\ Kept'
    BY <1>1, <1>3, <2>1 DEF Inv, OneBackend, Kept
  <2>5. Retiring' /\ Stopping' /\ Flights'
    <3>1. Retiring' /\ Flights'
      BY <1>1, <1>3 DEF Inv, Retiring, Flights, stopped
    <3>2. Stopping'
      BY <1>1, <2>1 DEF Inv, Stopping
    <3> QED BY <3>1, <3>2
  <2>6. Born'
    BY <1>1, <1>3, <2>1, ZeroGen DEF Inv, Born
  <2>7. Callings'
    BY <1>1, <1>3, <2>2 DEF Inv, Callings, stopped, Ready
  <2>8. Roundings'
    <3>1. \A h \in Gens : Gone(h) => Gone(h)'
      BY <1>1, <2>1 DEF Gone
    <3> QED BY <1>1, <1>3, <2>2, <3>1, AtOK DEF Inv, Roundings, stopped
  <2> QED BY <2>3, <2>4, <2>5, <2>6, <2>7, <2>8 DEF Inv
<1>4. CASE UNCHANGED <<osVars, retirement>> /\ Move({"retiring"}, "out")
  <2>1. pc' \in [Callers -> Places] /\ \A c \in Callers : pc'[c] \in {pc[c], "out"}
    BY <1>4, PlacesOK DEF Move, Inv
  <2>2. UNCHANGED <<os, tree, retirement>>
    BY <1>4 DEF osVars
  <2>3. TypeOK'
    BY <1>1, <1>2, <2>1, <2>2 DEF Inv, TypeOK, Places
  <2>4. OneBackend' /\ Kept' /\ Born' /\ Retiring' /\ Flights' /\ Stopping'
    BY <1>1, <2>2 DEF Inv, OneBackend, Kept, Born, Alive, Retiring, Flights, Stopping, stopped
  <2>5. Callings' /\ Roundings'
    BY <1>1, <2>1, <2>2 DEF Inv, Callings, Roundings, Gone, stopped
  <2> QED BY <2>3, <2>4, <2>5 DEF Inv
<1> QED BY <1>3, <1>4 DEF IdleConfirm

\* A step of the final stop: the callers and the initialization stay where they
\* are, and nothing new is born, retired or made the client's.
LEMMA InvStopping ==
  ASSUME Inv, stop # "off" \/ Quiet, stop' # "off",
         UNCHANGED <<broken, census, flight, lost, draining, pc, at, pinned>>,
         os' \in [Gens -> {"unborn", "running", "exited"}], tree' \subseteq tree,
         \A h \in Gens : os'[h] = os[h] \/ os'[h] = "exited",
         \A h \in Gens : os'[h] = "unborn" => os[h] = "unborn",
         \A h \in Gens : Alive(h)' => Alive(h),
         child' \in {0, child}, retirement' \in {0, retirement}, stopChild' \in {stopChild, child},
         stopTrees' \subseteq stopTrees \cup {stopChild}, 0 \notin stopTrees',
         evidence' \in [Gens -> Known \cup {"pending"}], closing' \subseteq Gens, cleaning' \in BOOLEAN,
         idle' \in {"off", "evidence", "closing", "confirm"}, faults' \in 0 .. MaxFaults,
         stop' \in {"diag", "retire", "capture", "join", "closing", "trees", "lost", "retry", "done", "failed"},
         Kept', Retiring', Stopping'
  PROVE  Inv'
<1>1. TypeOK'
  BY DEF Inv, TypeOK
<1>2. OneBackend' /\ Callings' /\ Flights'
  BY DEF Inv, OneBackend, Callings, Flights, stopped
<1>3. Born'
  BY ZeroGen DEF Inv, Born
<1>4. Roundings'
  BY DEF Inv, Roundings, stopped
<1> QED BY <1>1, <1>2, <1>3, <1>4 DEF Inv

\* Where the processes stay, so do the facts about them.
LEMMA SameProcesses ==
  ASSUME Inv, UNCHANGED osVars
  PROVE  /\ os' \in [Gens -> {"unborn", "running", "exited"}] /\ tree' \subseteq tree
         /\ \A h \in Gens : os'[h] = os[h] \/ os'[h] = "exited"
         /\ \A h \in Gens : os'[h] = "unborn" => os[h] = "unborn"
         /\ \A h \in Gens : Alive(h)' => Alive(h)
BY DEF osVars, Inv, TypeOK, Alive

\* What a step of the stop takes over from the state.
LEMMA StopTypes ==
  Inv => /\ child \in {0} \cup Gens /\ retirement \in {0} \cup Gens /\ stopChild \in {0} \cup Gens
         /\ evidence \in [Gens -> Known \cup {"pending"}] /\ closing \subseteq Gens /\ cleaning \in BOOLEAN
         /\ idle \in {"off", "evidence", "closing", "confirm"} /\ faults \in 0 .. MaxFaults
         /\ stopTrees \subseteq Gens /\ 0 \notin stopTrees
BY ZeroGen DEF Inv, TypeOK

LEMMA InvStop ==
  ASSUME Inv, Stop
  PROVE  Inv'
<1>1. /\ Quiet /\ stop' = "diag" /\ UNCHANGED osVars
      /\ UNCHANGED <<child, broken, census, flight, retirement, evidence, closing, idle, lost, draining,
                     cleaning, stopChild, stopTrees, pc, at, pinned, faults>>
  BY DEF Stop, flightVars, idleVars, lostVars, callerVars
<1>2. Kept' /\ Retiring' /\ Stopping'
  BY <1>1 DEF Inv, Kept, Alive, Retiring, Stopping, stopped, osVars
<1> QED BY <1>1, <1>2, SameProcesses, StopTypes, InvStopping

LEMMA InvStopJoins ==
  ASSUME Inv, StopJoins
  PROVE  Inv'
<1>1. /\ stop = "diag" /\ idle = "off" /\ retirement # 0 /\ stop' = "retire" /\ UNCHANGED osVars
      /\ IdleStarts(retirement)
      /\ UNCHANGED <<child, broken, census, flight, closing, lost, draining,
                     cleaning, stopChild, stopTrees, pc, at, pinned, faults>>
  BY DEF StopJoins, flightVars, lostVars, callerVars
<1>2. /\ retirement' = retirement /\ idle' = "evidence" /\ evidence' \in [Gens -> Known \cup {"pending"}]
  BY <1>1, StopTypes, StartsOK
<1>3. Kept' /\ Retiring' /\ Stopping'
  BY <1>1, <1>2 DEF Inv, Kept, Alive, Retiring, Stopping, stopped, osVars
<1> QED BY <1>1, <1>2, <1>3, SameProcesses, StopTypes, InvStopping

LEMMA InvStopRetired ==
  ASSUME Inv, StopRetired
  PROVE  Inv'
<1>1. /\ stop = "retire" /\ idle = "off" /\ retirement # 0 /\ stop' = "failed" /\ UNCHANGED osVars
      /\ UNCHANGED <<child, broken, census, flight, retirement, evidence, closing, idle, lost, draining,
                     cleaning, stopChild, stopTrees, pc, at, pinned, faults>>
  BY DEF StopRetired, flightVars, idleVars, lostVars, callerVars
<1>2. Kept' /\ Retiring' /\ Stopping'
  BY <1>1 DEF Inv, Kept, Alive, Retiring, Stopping, stopped, osVars
<1> QED BY <1>1, <1>2, SameProcesses, StopTypes, InvStopping

LEMMA InvStopTakes ==
  ASSUME Inv, StopTakes
  PROVE  Inv'
<1>1. /\ stop \in {"diag", "retire"} /\ idle = "off" /\ retirement = 0 /\ stop' = "capture"
      /\ stopChild' = child /\ UNCHANGED osVars
      /\ UNCHANGED <<child, broken, census, flight, retirement, closing, idle, lost, draining,
                     cleaning, stopTrees, pc, at, pinned, faults>>
  BY DEF StopTakes, flightVars, lostVars, callerVars
<1>2. evidence' \in [Gens -> Known \cup {"pending"}]
  BY StopTypes DEF StopTakes
<1>3. Kept' /\ Retiring'
  BY <1>1 DEF Inv, Kept, Alive, Retiring, stopped, osVars
<1>4. Stopping'
  BY <1>1, ZeroGen DEF Inv, Kept, Alive, Stopping, osVars
<1> QED BY <1>1, <1>2, <1>3, <1>4, SameProcesses, StopTypes, InvStopping

LEMMA InvStopCaptures ==
  ASSUME Inv, StopCaptures
  PROVE  Inv'
<1>1. /\ stop = "capture" /\ stop' = "join" /\ UNCHANGED osVars
      /\ stopTrees' = IF stopChild = 0 THEN stopTrees ELSE stopTrees \cup {stopChild}
      /\ UNCHANGED <<child, broken, census, flight, retirement, closing, idle, lost, draining,
                     cleaning, stopChild, pc, at, pinned>>
  BY DEF StopCaptures, flightVars, lostVars, callerVars
<1>2. evidence' \in [Gens -> Known \cup {"pending"}] /\ faults' \in 0 .. MaxFaults
  <2>1. CASE stopChild = 0 \/ evidence[stopChild] # "pending"
    BY <2>1, FaultsOK, StopTypes DEF StopCaptures, Inv
  <2>2. CASE stopChild # 0 /\ evidence[stopChild] = "pending"
    <3>1. PICK e \in {"full", "unknown"} : /\ Snapshot(stopChild, e)
                                           /\ evidence' = [evidence EXCEPT ![stopChild] = e]
      BY <2>2 DEF StopCaptures
    <3>2. Fault \/ NoFault
      BY <3>1 DEF Snapshot
    <3> QED BY <3>1, <3>2, FaultsOK, StopTypes DEF Inv, Known
  <2> QED BY <2>1, <2>2
<1>3. Kept' /\ Retiring'
  BY <1>1 DEF Inv, Kept, Alive, Retiring, stopped, osVars
<1>4. Stopping'
  BY <1>1, ZeroGen DEF Inv, Alive, Stopping, osVars
<1> QED BY <1>1, <1>2, <1>3, <1>4, SameProcesses, StopTypes, InvStopping

LEMMA InvStopDetaches ==
  ASSUME Inv, StopDetaches
  PROVE  Inv'
<1>1. /\ stop = "join" /\ idle = "off" /\ stop' \in {"closing", "trees"} /\ UNCHANGED osVars /\ child' = 0
      /\ UNCHANGED <<broken, census, flight, retirement, evidence, idle, lost, draining,
                     cleaning, stopChild, stopTrees, pc, at, pinned, faults>>
  BY DEF StopDetaches, lostVars, callerVars
<1>2. closing' \subseteq Gens
  BY StopTypes DEF StopDetaches, Running
<1>3. Kept'
  BY <1>1, ZeroGen DEF Inv, Kept, Alive, Stopping, osVars
<1>4. Retiring' /\ Stopping'
  BY <1>1 DEF Inv, Alive, Stopping, Retiring, stopped, osVars
<1> QED BY <1>1, <1>2, <1>3, <1>4, SameProcesses, StopTypes, InvStopping

LEMMA InvStopCloses ==
  ASSUME Inv, StopCloses
  PROVE  Inv'
<1>1. /\ stop = "closing" /\ stop' = "trees" /\ faults' \in 0 .. MaxFaults
      /\ UNCHANGED <<child, broken, census, flight, retirement, evidence, closing, idle, lost, draining,
                     cleaning, stopChild, stopTrees, pc, at, pinned>>
  BY FaultsOK DEF StopCloses, flightVars, idleVars, lostVars, callerVars, Inv
<1>2. /\ os' \in [Gens -> {"unborn", "running", "exited"}] /\ tree' \subseteq tree
      /\ \A h \in Gens : os'[h] = os[h] \/ os'[h] = "exited"
      /\ \A h \in Gens : os'[h] = "unborn" => os[h] = "unborn"
      /\ \A h \in Gens : Alive(h)' => Alive(h)
  <2>1. CASE LauncherEnds(stopChild)
    <3>1. stopChild \in Gens => os[stopChild] # "unborn"
      BY DEF Inv, Born
    <3>2. CASE stopChild \in Gens
      BY <2>1, <3>1, <3>2, EndsOK
    <3>3. CASE stopChild \notin Gens
      BY <2>1, <3>3 DEF LauncherEnds, Inv, TypeOK, Alive
    <3> QED BY <3>2, <3>3
  <2>2. CASE UNCHANGED osVars
    BY <2>2, SameProcesses
  <2> QED BY <2>1, <2>2 DEF StopCloses
<1>3. Kept' /\ Retiring' /\ Stopping'
  BY <1>1, <1>2 DEF Inv, Kept, Retiring, Stopping, stopped
<1> QED BY <1>1, <1>2, <1>3, StopTypes, InvStopping

LEMMA InvStopKills ==
  ASSUME Inv, NEW g \in Gens, StopKills(g)
  PROVE  Inv'
<1>1. /\ stop = "trees" /\ g \in stopTrees /\ os[g] # "unborn"
      /\ UNCHANGED <<child, broken, census, flight, evidence, closing, idle, lost, draining,
                     cleaning, stopChild, pc, at, pinned>>
  BY DEF StopKills, flightVars, lostVars, callerVars, Inv, Born
<1>2. faults' \in 0 .. MaxFaults
  <2>1. Fault \/ NoFault
    BY DEF StopKills, CannotKill
  <2> QED BY <2>1, FaultsOK DEF Inv
<1>3. CASE /\ Kill(g, evidence[g]) /\ stopTrees' = stopTrees \ {g}
           /\ retirement' = (IF retirement = g THEN 0 ELSE retirement) /\ UNCHANGED stop
  <2>1. /\ os' \in [Gens -> {"unborn", "running", "exited"}] /\ tree' \subseteq tree
        /\ \A h \in Gens : os'[h] = os[h] \/ os'[h] = "exited"
        /\ \A h \in Gens : os'[h] = "unborn" => os[h] = "unborn"
        /\ \A h \in Gens : Alive(h)' => Alive(h) /\ h # g
    BY <1>1, <1>3, EndsOK
  <2>2. Kept' /\ Stopping'
    BY <1>1, <1>3, <2>1 DEF Inv, Kept, Stopping
  <2>3. Retiring'
    BY <1>1, <1>3 DEF Inv, Retiring, Stopping, stopped
  <2> QED BY <1>1, <1>2, <1>3, <2>1, <2>2, <2>3, StopTypes, InvStopping
<1>4. CASE stop' = "failed" /\ UNCHANGED <<osVars, stopTrees, retirement>>
  <2>1. Kept' /\ Retiring' /\ Stopping'
    BY <1>1, <1>4 DEF Inv, Kept, Alive, Retiring, Stopping, stopped, osVars
  <2> QED BY <1>1, <1>2, <1>4, <2>1, SameProcesses, StopTypes, InvStopping
<1> QED BY <1>3, <1>4 DEF StopKills

LEMMA InvStopEnds ==
  ASSUME Inv, StopEnds
  PROVE  Inv'
<1>1. /\ stop = "trees" /\ stopTrees = {} /\ UNCHANGED osVars
      /\ stop' \in {"lost", "done"} /\ (stop' = "done" => lost = {}) /\ cleaning' \in BOOLEAN
      /\ UNCHANGED <<child, broken, census, flight, retirement, evidence, closing, idle, lost, draining,
                     stopChild, stopTrees, pc, at, pinned, faults>>
  BY StopTypes DEF StopEnds, LossesLeft, flightVars, idleVars, callerVars
<1>2. Kept' /\ Retiring' /\ Stopping'
  BY <1>1 DEF Inv, Kept, Alive, Retiring, Stopping, stopped, osVars
<1> QED BY <1>1, <1>2, SameProcesses, StopTypes, InvStopping

LEMMA InvStopAgain ==
  ASSUME Inv, StopAgain
  PROVE  Inv'
<1>1. /\ stop = "failed" /\ UNCHANGED osVars /\ child = 0
      /\ UNCHANGED <<child, broken, census, flight, closing, lost, draining,
                     cleaning, stopChild, stopTrees, pc, at, pinned, faults>>
  BY DEF StopAgain, flightVars, lostVars, callerVars, Inv, Stopping
<1>2. CASE retirement # 0 /\ stop' = "retry" /\ IdleStarts(retirement)
  <2>1. /\ retirement' = retirement /\ idle' \in {idle, "evidence"}
        /\ evidence' \in [Gens -> Known \cup {"pending"}]
    BY <1>2, StopTypes, StartsOK
  <2>2. Kept' /\ Retiring' /\ Stopping'
    BY <1>1, <1>2, <2>1 DEF Inv, Kept, Alive, Retiring, Stopping, stopped, osVars
  <2> QED BY <1>1, <1>2, <2>1, <2>2, SameProcesses, StopTypes, InvStopping
<1>3. CASE retirement = 0 /\ stop' = "trees" /\ UNCHANGED <<retirement, evidence, idle>>
  <2>1. Kept' /\ Retiring' /\ Stopping'
    BY <1>1, <1>3, ZeroGen DEF Inv, Kept, Alive, Retiring, Stopping, stopped, osVars
  <2> QED BY <1>1, <1>3, <2>1, SameProcesses, StopTypes, InvStopping
<1> QED BY <1>2, <1>3 DEF StopAgain

LEMMA InvStopRetried ==
  ASSUME Inv, StopRetried
  PROVE  Inv'
<1>1. /\ stop = "retry" /\ idle = "off" /\ UNCHANGED osVars
      /\ stop' = (IF retirement = 0 THEN "trees" ELSE "failed")
      /\ UNCHANGED <<child, broken, census, flight, retirement, evidence, closing, idle, lost, draining,
                     cleaning, stopChild, stopTrees, pc, at, pinned, faults>>
  BY DEF StopRetried, flightVars, idleVars, lostVars, callerVars
<1>2. Kept' /\ Retiring' /\ Stopping'
  BY <1>1, ZeroGen DEF Inv, Kept, Alive, Retiring, Stopping, stopped, osVars
<1> QED BY <1>1, <1>2, SameProcesses, StopTypes, InvStopping

LEMMA InvInit == Init => Inv
<1> SUFFICES ASSUME Init PROVE Inv
  OBVIOUS
<1>1. /\ NoFlight \in [gen : {0} \cup Gens, stage : {"none", "handshake", "census", "failing"},
                       abandoned : BOOLEAN, rejected : BOOLEAN]
      /\ NoFlight.gen = 0 /\ NoFlight.stage = "none"
  BY DEF NoFlight
<1>2. "out" \in Places /\ faults \in 0 .. MaxFaults
  BY PlacesOK, BoundsAssumption DEF Init
<1>3. TypeOK
  BY <1>1, <1>2 DEF Init, TypeOK, Places, Known
<1>4. \A g \in Gens : ~Alive(g)
  BY DEF Init, Alive
<1>5. OneBackend /\ Kept /\ Retiring /\ Stopping
  BY <1>4 DEF Init, OneBackend, Kept, Retiring, Stopping, stopped
<1>6. Born /\ Flights /\ Callings /\ Roundings
  BY <1>1, ZeroGen DEF Init, Born, Flights, Callings, Roundings
<1> QED BY <1>3, <1>5, <1>6 DEF Inv

LEMMA InvStep == Inv /\ [Next]_vars => Inv'
<1> SUFFICES ASSUME Inv, [Next]_vars PROVE Inv'
  OBVIOUS
<1>1. ASSUME NEW c \in Callers, CallerStep(c) \/ Abort(c) \/ Call(c) PROVE Inv'
  BY <1>1, InvBegin, InvLostCheck, InvAdmit, InvSpawn, InvWork, InvEndRound, InvAbort, InvCall
     DEF CallerStep
<1>2. CASE FlightStep
  BY <1>2, InvHandshake, InvRecordTree, InvFlightFails DEF FlightStep
<1>3. CASE IdleStep \/ IdleTimer
  BY <1>3, InvIdleDetach, InvIdleClose, InvIdleConfirm, InvIdleTimer DEF IdleStep
<1>4. CASE LostStep
  BY <1>4, InvDrained, InvCleanLost DEF LostStep
<1>5. CASE Break \/ \E g \in Gens : Exit(g)
  BY <1>5, InvBreak, InvExit
<1>6. CASE StopStep \/ Stop \/ StopAgain
  BY <1>6, InvStopJoins, InvStopRetired, InvStopTakes, InvStopCaptures, InvStopDetaches, InvStopCloses,
     InvStopEnds, InvStopRetried, InvStopKills, InvStop, InvStopAgain DEF StopStep
<1>7. CASE UNCHANGED vars
  <2>1. UNCHANGED <<os, tree, child, broken, census, flight, retirement, evidence, closing, idle, lost,
                    draining, cleaning, stop, stopChild, stopTrees, pc, at, pinned, faults>>
    BY <1>7 DEF vars, osVars, flightVars, idleVars, lostVars, stopVars, callerVars
  <2>2. TypeOK' /\ OneBackend' /\ Born' /\ Kept' /\ Retiring'
    BY <2>1 DEF Inv, TypeOK, OneBackend, Born, Kept, Retiring, Alive, stopped
  <2>3. Flights' /\ Callings' /\ Stopping' /\ Roundings'
    BY <2>1 DEF Inv, Flights, Callings, Stopping, Roundings, Alive, Gone, stopped
  <2> QED BY <2>2, <2>3 DEF Inv
<1> QED BY <1>1, <1>2, <1>3, <1>4, <1>5, <1>6, <1>7 DEF Next

\* The invariant holds of the client's process, whatever fails and whoever
\* calls: the books of app-server.ts name every process that may still run.
THEOREM InvInvariant == Spec => []Inv
<1> QED BY InvInit, InvStep, PTL DEF Spec

\* There are never two backends (start, cleanupLostProcesses, doIdleShutdown
\* wait for a confirmed tree before a successor is spawned).
THEOREM OneManagedBackendInvariant == Spec => []OneManagedBackend
<1>1. Inv => OneManagedBackend
  BY DEF Inv, OneManagedBackend
<1> QED BY <1>1, InvInvariant, PTL

\* The process of a round is not shut down under it: doIdleShutdown looks at the
\* pins, and a start that failed has no round on its process yet.
THEOREM RoundKeepsItsProcessInvariant == Spec => []RoundKeepsItsProcess
<1>1. Inv => RoundKeepsItsProcess
  BY DEF Inv, TypeOK, Roundings, Gone, RoundKeepsItsProcess
<1> QED BY <1>1, InvInvariant, PTL

\* A process comes to run only by a spawn, and start() does not spawn once the
\* stop has begun, whatever its caller was waiting for.
LEMMA UnbornStays ==
  ASSUME Inv, [Next]_vars, NEW g \in Gens, stopped, os[g] = "unborn"
  PROVE  os'[g] = "unborn"
<1>1. /\ g \notin lost \cup stopTrees /\ g # retirement /\ g # stopChild
      /\ g # child
  BY DEF Inv, Born
<1>2. ASSUME NEW h, h # g, NEW k, Kill(h, k) \/ LauncherEnds(h) PROVE os'[g] = "unborn"
  BY <1>2 DEF Kill, LauncherEnds, Inv, TypeOK
<1>3. ASSUME NEW c \in Callers, CallerStep(c) \/ Abort(c) \/ Call(c) PROVE os'[g] = "unborn"
  BY <1>3 DEF CallerStep, Begin, LostCheck, Admit, Spawn, MaySpawn, Work, EndRound, Abort, Call, osVars
<1>4. CASE FlightStep
  BY <1>4 DEF FlightStep, Handshake, RecordTree, FlightFails, osVars
<1>5. CASE IdleStep \/ IdleTimer
  <2>1. CASE IdleDetach \/ IdleTimer
    BY <2>1 DEF IdleDetach, IdleTimer, osVars
  <2>2. CASE IdleClose
    BY <1>1, <1>2, <2>2 DEF IdleClose, osVars
  <2>3. CASE IdleConfirm
    BY <1>1, <1>2, <2>3 DEF IdleConfirm, osVars
  <2> QED BY <1>5, <2>1, <2>2, <2>3 DEF IdleStep
<1>6. CASE LostStep
  <2>1. ASSUME NEW h \in Gens, Drained(h) PROVE os'[g] = "unborn"
    BY <2>1 DEF Drained, osVars
  <2>2. ASSUME NEW h \in Gens, CleanLost(h) PROVE os'[g] = "unborn"
    BY <1>1, <1>2, <2>2 DEF CleanLost, Cleanable, osVars
  <2> QED BY <1>6, <2>1, <2>2 DEF LostStep
<1>7. CASE Break \/ \E h \in Gens : Exit(h)
  <2>1. ASSUME NEW h \in Gens, Exit(h) PROVE os'[g] = "unborn"
    BY <1>2, <2>1 DEF Exit, Running
  <2> QED BY <1>7, <2>1 DEF Break, osVars
<1>8. CASE StopStep \/ Stop \/ StopAgain
  <2>1. ASSUME NEW h \in Gens, StopKills(h) PROVE os'[g] = "unborn"
    BY <1>1, <1>2, <2>1 DEF StopKills, osVars
  <2>2. CASE StopCloses
    BY <1>1, <1>2, <2>2 DEF StopCloses, osVars
  <2>3. CASE \/ StopJoins \/ StopRetired \/ StopTakes \/ StopCaptures \/ StopDetaches \/ StopEnds
             \/ StopRetried \/ Stop \/ StopAgain
    BY <2>3 DEF StopJoins, StopRetired, StopTakes, StopCaptures, StopDetaches, StopEnds, StopRetried,
                Stop, StopAgain, osVars
  <2> QED BY <1>8, <2>1, <2>2, <2>3 DEF StopStep
<1>9. CASE UNCHANGED vars
  BY <1>9 DEF vars, osVars
<1> QED BY <1>3, <1>4, <1>5, <1>6, <1>7, <1>8, <1>9 DEF Next

\* A stop is final: when it resolves nothing of any generation runs, neither the
\* process it closed nor one lost or retired before, and none is spawned after.
THEOREM StopIsFinalHolds == Spec => StopIsFinal
<1>1. Inv => StopLeavesNothing
  BY DEF Inv, Stopping, StopLeavesNothing
<1>2. Inv /\ [Next]_vars => [\A g \in Gens : stopped /\ os[g] = "unborn" => os'[g] = "unborn"]_vars
  BY UnbornStays
<1> QED BY <1>1, <1>2, InvInvariant, PTL DEF Spec, StopIsFinal, NoSpawnAfterStop
=============================================================================
