-------------------------- MODULE AppServerProcess --------------------------
(***************************************************************************)
(* The life of the Codex App Server process behind one client: the shared  *)
(* start and its handshake, the loss of the process or of its pipes, the   *)
(* idle shutdown, the retirement of a failed start, the cleanup of lost    *)
(* processes, and the final stop (src/src/app-server.ts).                  *)
(*                                                                         *)
(* A generation is one spawned launcher with the processes below it.  The  *)
(* client is one Node process: the continuations of a settled promise run  *)
(* before the next event of the outside world, which is what Quiet says.   *)
(***************************************************************************)
EXTENDS Naturals, FiniteSets

CONSTANTS Callers,    \* operations of the workflows that need the server
          Rounds,     \* those of them that are rounds and pin the process
          MaxSpawns,  \* bound: generations
          MaxFaults   \* bound: exits, broken pipes, failed scans and kills

ASSUME RoundsAssumption == Rounds \subseteq Callers
ASSUME BoundsAssumption == MaxSpawns \in Nat \ {0} /\ MaxFaults \in Nat

VARIABLES
  os,         \* os[g]: the launcher, "unborn", "running" or "exited"
  tree,       \* the generations whose descendants run
  child,      \* this.child, 0 for none
  broken,     \* transportFailures
  census,     \* census[g]: initializedProcessTrees, what is known of the tree
  flight,     \* this.initialization
  retirement, \* idleRetirement, 0 for none
  evidence,   \* evidence[g]: processRetirements, the snapshot before closing
  closing,    \* the generations whose stopProcess was called
  idle,       \* the progress of doIdleShutdown
  lost,       \* lostProcesses
  draining,   \* the lost ones whose exit diagnostic is not complete
  cleaning,   \* lostProcessCleanup is running
  stop,       \* the progress of doStop and of a repeated stop
  stopChild,  \* the process doStop found
  stopTrees,  \* stopForkTrees
  pc,         \* pc[c]: where a caller is in start() and in its round
  at,         \* at[c]: the generation that knows the caller's thread
  pinned,     \* the callers inside a round (beginRound, endRound)
  faults

osVars     == <<os, tree>>
flightVars == <<child, broken, census, flight>>
idleVars   == <<retirement, evidence, closing, idle>>
lostVars   == <<lost, draining, cleaning>>
stopVars   == <<stop, stopChild, stopTrees>>
callerVars == <<pc, at, pinned>>
vars == <<osVars, flightVars, idleVars, lostVars, stopVars, callerVars, faults>>

Gens == 1 .. MaxSpawns
Known == {"none", "full", "unknown"}
NoFlight == [gen |-> 0, stage |-> "none", abandoned |-> FALSE, rejected |-> FALSE]
Waiting == {"retiring", "losing", "joining", "rejoin"}
Ready == {"begin", "lostcheck", "admit"}

TypeOK ==
  /\ os \in [Gens -> {"unborn", "running", "exited"}] /\ tree \subseteq Gens
  /\ child \in {0} \cup Gens /\ broken \subseteq Gens /\ census \in [Gens -> Known]
  /\ flight \in [gen : {0} \cup Gens, stage : {"none", "handshake", "census", "failing"},
                 abandoned : BOOLEAN, rejected : BOOLEAN]
  /\ retirement \in {0} \cup Gens /\ evidence \in [Gens -> Known \cup {"pending"}]
  /\ closing \subseteq Gens /\ idle \in {"off", "evidence", "closing", "confirm"}
  /\ lost \subseteq Gens /\ draining \subseteq lost /\ cleaning \in BOOLEAN
  /\ stop \in {"off", "diag", "retire", "capture", "join", "closing", "trees", "lost", "retry",
               "done", "failed"}
  /\ stopChild \in {0} \cup Gens /\ stopTrees \subseteq Gens
  /\ pc \in [Callers -> Waiting \cup Ready \cup {"out", "ready", "working"}]
  /\ at \in [Callers -> {0} \cup Gens] /\ pinned \subseteq Callers /\ faults \in 0 .. MaxFaults

Init ==
  /\ os = [g \in Gens |-> "unborn"] /\ tree = {} /\ child = 0 /\ broken = {}
  /\ census = [g \in Gens |-> "none"] /\ flight = NoFlight
  /\ retirement = 0 /\ evidence = [g \in Gens |-> "none"] /\ closing = {} /\ idle = "off"
  /\ lost = {} /\ draining = {} /\ cleaning = FALSE
  /\ stop = "off" /\ stopChild = 0 /\ stopTrees = {}
  /\ pc = [c \in Callers |-> "out"] /\ at = [c \in Callers |-> 0] /\ pinned = {} /\ faults = 0

----------------------------------------------------------------------------
\* What the code asks of its state.
stopped == stop # "off"
Quiet == \A c \in Callers : pc[c] \notin Ready
Running(g) == g # 0 /\ os[g] = "running"
Alive(g) == os[g] = "running" \/ g \in tree
Fault == faults < MaxFaults /\ faults' = faults + 1
NoFault == UNCHANGED faults

\* assertProcessOwner: g is the process of the client and serves it.
Owned(g) == g # 0 /\ child = g /\ ~stopped /\ g \notin broken

\* Nothing uses the process: no request or turn in flight, no initialization.
IsIdle ==
  /\ child # 0 /\ child \notin broken /\ flight = NoFlight
  /\ \A c \in Callers : pc[c] = "working" => at[c] # child

\* Mutant: the pins of the rounds are not looked at.
IdleThoughPinned == IsIdle

\* The timer looks again when it fires: nothing pinned, nothing in flight.
MayRetire == pinned = {} /\ IsIdle

\* Mutant: a process that was lost is taken for gone with its tree.
LossIsEnough == FALSE

\* A lost process is cleaned up before anything else is believed.
MustClean == lost # {}

Cleanable == lost \ draining

\* The waiters of a settled promise go on, all at once.
Move(from, to) == pc' = [c \in Callers |-> IF pc[c] \in from THEN to ELSE pc[c]]

\* The state after `idleShutdown()` was called: its single flight is under way.
IdleStarts(g) ==
  IF idle # "off" THEN UNCHANGED <<retirement, evidence, idle>>
  ELSE /\ retirement' = IF retirement # 0 THEN retirement ELSE g
       /\ evidence' = IF evidence[retirement'] = "none" THEN [evidence EXCEPT ![retirement'] = "pending"]
                                                        ELSE evidence
       /\ idle' = "evidence"

\* What a snapshot of the process tree says: nothing once the process is not
\* ours any more; a failed scan is a fault.
Snapshot(g, e) ==
  IF child = g /\ Running(g) THEN \/ e = "full" /\ NoFault
                                  \/ e = "unknown" /\ Fault
  ELSE e = "unknown" /\ NoFault

\* stopCapturedProcessTree: only a complete snapshot lets it kill and confirm.
Kill(g, known) ==
  /\ known = "full"
  /\ os' = [os EXCEPT ![g] = "exited"] /\ tree' = tree \ {g}
CannotKill(known) == IF known = "full" THEN Fault ELSE NoFault

\* A launcher that ends may leave its descendants behind.
LauncherEnds(g) ==
  /\ os' = [os EXCEPT ![g] = "exited"]
  /\ tree' \in {tree, tree \ {g}}

----------------------------------------------------------------------------
\* start(): the callers.

\* A round pins the process first; a call outside a round does not.
Call(c) ==
  /\ Quiet /\ pc[c] = "out"
  /\ pc' = [pc EXCEPT ![c] = "begin"]
  /\ pinned' = pinned \cup ({c} \cap Rounds)
  /\ UNCHANGED <<osVars, flightVars, idleVars, lostVars, stopVars, at, faults>>

Goto(c, s) == pc' = [pc EXCEPT ![c] = s]

\* A shutdown under way, or one that could not be confirmed, comes first.
Begin(c) ==
  /\ pc[c] = "begin"
  /\ \/ stopped /\ Goto(c, "out") /\ UNCHANGED idleVars
     \/ ~stopped /\ (idle # "off" \/ retirement # 0)
        /\ Goto(c, "retiring") /\ IdleStarts(retirement) /\ UNCHANGED closing
     \/ ~stopped /\ idle = "off" /\ retirement = 0 /\ Goto(c, "lostcheck") /\ UNCHANGED idleVars
  /\ UNCHANGED <<osVars, flightVars, lostVars, stopVars, at, pinned, faults>>

\* Then the processes lost before.
LostCheck(c) ==
  /\ pc[c] = "lostcheck"
  /\ IF MustClean THEN Goto(c, "losing") /\ cleaning' = TRUE
                  ELSE Goto(c, "admit") /\ UNCHANGED cleaning
  /\ UNCHANGED <<osVars, flightVars, idleVars, lost, draining, stopVars, at, pinned, faults>>

\* No await separates these tests from the spawn.
Admit(c) ==
  /\ pc[c] = "admit"
  /\ \/ stopped /\ Goto(c, "out") /\ UNCHANGED at
     \/ ~stopped /\ (flight.abandoned \/ flight.rejected) /\ Goto(c, "rejoin") /\ UNCHANGED at
     \/ ~stopped /\ flight # NoFlight /\ ~flight.abandoned /\ ~flight.rejected
        /\ Goto(c, "joining") /\ UNCHANGED at
     \/ ~stopped /\ flight = NoFlight /\ child \in broken /\ Goto(c, "out") /\ UNCHANGED at
     \/ ~stopped /\ flight = NoFlight /\ child # 0 /\ child \notin broken
        /\ Goto(c, "ready") /\ at' = [at EXCEPT ![c] = child]
  /\ UNCHANGED <<osVars, flightVars, idleVars, lostVars, stopVars, pinned, faults>>

\* Mutant: what was awaited since the call is not looked at again.
SpawnsAnyway == flight = NoFlight /\ child = 0

MaySpawn == ~stopped /\ flight = NoFlight /\ child = 0

\* A new generation; the last one of the bound fails to spawn.
Spawn(c) ==
  /\ pc[c] = "admit" /\ MaySpawn
  /\ \/ \E g \in Gens :
          /\ os[g] = "unborn" /\ \A h \in Gens : h < g => os[h] # "unborn"
          /\ os' = [os EXCEPT ![g] = "running"] /\ tree' = tree \cup {g}
          /\ child' = g /\ flight' = [NoFlight EXCEPT !.gen = g, !.stage = "handshake"]
          /\ Goto(c, "joining") /\ NoFault
     \/ /\ IF os[MaxSpawns] = "unborn" THEN Fault ELSE NoFault
        /\ Goto(c, "out") /\ UNCHANGED <<osVars, child, flight>>
  /\ UNCHANGED <<broken, census, idleVars, lostVars, stopVars, at, pinned>>

\* A caller withdraws; the last one to wait for a start abandons it.
Abort(c) ==
  /\ Quiet /\ pc[c] \in Waiting
  /\ Goto(c, "out")
  /\ flight' = IF pc[c] = "joining" /\ \A d \in Callers \ {c} : pc[d] # "joining"
               THEN [flight EXCEPT !.abandoned = TRUE] ELSE flight
  /\ UNCHANGED <<osVars, child, broken, census, idleVars, lostVars, stopVars, at, pinned, faults>>

\* Requests and turns on the process; what is in flight when the process fails
\* or stops is rejected.
Work(c) ==
  /\ Quiet
  /\ \/ pc[c] = "ready" /\ Owned(at[c]) /\ Goto(c, "working") /\ UNCHANGED at
     \/ pc[c] = "working" /\ Owned(at[c]) /\ Goto(c, "ready") /\ UNCHANGED at
     \/ /\ IF pc[c] = "ready" THEN TRUE ELSE pc[c] = "working" /\ ~Owned(at[c]) /\ at[c] \notin draining
        /\ Goto(c, "out") /\ at' = [at EXCEPT ![c] = 0]
  /\ UNCHANGED <<osVars, flightVars, idleVars, lostVars, stopVars, pinned, faults>>

EndRound(c) ==
  /\ Quiet /\ pc[c] = "out" /\ c \in pinned
  /\ pinned' = pinned \ {c}
  /\ UNCHANGED <<osVars, flightVars, idleVars, lostVars, stopVars, pc, at, faults>>

----------------------------------------------------------------------------
\* startProcess: the initialization.

Flying(stage) == flight.stage = stage /\ flight.gen \notin draining

\* Mutant: those who wait for the end of a withdrawn attempt are not told.
FlightOverSilently(s) ==
  flight' = NoFlight /\ pc' = [c \in Callers |-> IF pc[c] = "joining" THEN s ELSE pc[c]]

\* The attempt is over; its callers get the error, later ones try again.
FlightOver(s) ==
  /\ flight' = NoFlight
  /\ pc' = [c \in Callers |-> IF pc[c] = "joining" THEN s
                              ELSE IF pc[c] = "rejoin" THEN "begin" ELSE pc[c]]

\* The catch of startProcess: it retires the process it still owns, and keeps
\* a launcher lost before the snapshot as one of unknown ownership.
Catch ==
  LET g == flight.gen IN
  \/ /\ child = g
     /\ flight' = [flight EXCEPT !.stage = "failing", !.rejected = TRUE]
     /\ IdleStarts(g) /\ UNCHANGED <<pc, at>>
  \/ /\ child # g /\ FlightOver("out") /\ UNCHANGED <<at, idle>>
     /\ IF child = 0 /\ retirement = 0 /\ ~(stopped /\ evidence[g] # "none")
        THEN retirement' = g /\ evidence' = [evidence EXCEPT ![g] = "unknown"]
        ELSE UNCHANGED <<retirement, evidence>>

\* What ends an initialization: withdrawn, stopped, its process gone or mute.
Doomed == flight.abandoned \/ stopped \/ flight.gen \in broken \/ child # flight.gen

Handshake ==
  /\ Quiet /\ Flying("handshake")
  /\ \/ /\ ~Doomed /\ NoFault
        /\ flight' = [flight EXCEPT !.stage = "census"] /\ UNCHANGED <<retirement, evidence, idle, pc, at>>
     \/ /\ IF Doomed THEN NoFault ELSE Fault
        /\ Catch
  /\ UNCHANGED <<osVars, child, broken, census, closing, lostVars, stopVars, pinned>>

\* The process tree is recorded while the launcher is still ours; only then is
\* work admitted.
RecordTree ==
  /\ Quiet /\ Flying("census")
  /\ \E e \in {"full", "unknown"} :
       /\ Snapshot(flight.gen, e)
       /\ census' = [census EXCEPT ![flight.gen] = e]
  /\ IF Doomed
     THEN Catch
     ELSE /\ FlightOver("ready") /\ UNCHANGED <<retirement, evidence, idle>>
          /\ at' = [c \in Callers |-> IF pc[c] = "joining" THEN flight.gen ELSE at[c]]
  /\ UNCHANGED <<osVars, child, broken, closing, lostVars, stopVars, pinned>>

\* The retirement of the failed process is over, confirmed or not.
FlightFails ==
  /\ Quiet /\ Flying("failing") /\ idle = "off"
  /\ FlightOver("out")
  /\ UNCHANGED <<osVars, child, broken, census, idleVars, lostVars, stopVars, at, pinned, faults>>

----------------------------------------------------------------------------
\* The process ends, or its pipes do.

\* stdin or stdout fails while the launcher runs: no request can be served.
Break ==
  /\ Quiet /\ child # 0 /\ child \notin broken /\ ~stopped /\ Fault
  /\ broken' = broken \cup {child}
  /\ UNCHANGED <<osVars, child, census, flight, idleVars, lostVars, stopVars, callerVars>>

\* An exit nobody asked for: the process is lost, and its stderr is drained
\* before anyone is told.  An expected exit has no listener left.
Exit(g) ==
  /\ Quiet /\ Running(g) /\ Fault
  /\ LauncherEnds(g)
  /\ IF child = g
     THEN child' = 0 /\ lost' = lost \cup {g} /\ draining' = draining \cup {g}
     ELSE UNCHANGED <<child, lost, draining>>
  /\ UNCHANGED <<broken, census, flight, idleVars, cleaning, stopVars, callerVars>>

Drained(g) ==
  /\ Quiet /\ g \in draining
  /\ draining' = draining \ {g}
  /\ UNCHANGED <<osVars, flightVars, idleVars, lost, cleaning, stopVars, callerVars, faults>>

\* cleanupLostProcesses: one confirmed process after the other; the first that
\* cannot be confirmed rejects all who wait.
CleanLost(g) ==
  /\ Quiet /\ cleaning /\ g \in Cleanable
  /\ \/ /\ Kill(g, census[g]) /\ lost' = lost \ {g} /\ NoFault
        /\ IF lost = {g} THEN cleaning' = FALSE /\ Move({"losing"}, "admit")
                         ELSE UNCHANGED <<cleaning, pc>>
     \/ /\ CannotKill(census[g]) /\ cleaning' = FALSE /\ Move({"losing"}, "out")
        /\ UNCHANGED <<osVars, lost>>
  /\ stop' = IF stop = "lost" /\ ~cleaning' THEN IF lost' = {} THEN "done" ELSE "failed" ELSE stop
  /\ UNCHANGED <<flightVars, idleVars, draining, stopChild, stopTrees, at, pinned>>

----------------------------------------------------------------------------
\* doIdleShutdown: recoverable, for an idle process or a failed start.

IdleTimer ==
  /\ Quiet /\ MayRetire /\ ~stopped
  /\ IdleStarts(child)
  /\ UNCHANGED <<osVars, flightVars, closing, lostVars, stopVars, callerVars, faults>>

\* The snapshot, and at once the detachment of the process.
IdleDetach ==
  /\ Quiet /\ idle = "evidence"
  /\ LET g == retirement IN
       /\ IF evidence[g] = "pending"
          THEN \E e \in {"full", "unknown"} : Snapshot(g, e) /\ evidence' = [evidence EXCEPT ![g] = e]
          ELSE NoFault /\ UNCHANGED evidence
       /\ child' = IF child = g THEN 0 ELSE child
       /\ idle' = IF g \in closing THEN "confirm" ELSE "closing"
       /\ closing' = closing \cup {g}
  /\ UNCHANGED <<osVars, broken, census, flight, retirement, lostVars, stopVars, callerVars>>

\* stopProcess: end of input, then signals, each with its time; a launcher that
\* survives them is a fault.
IdleClose ==
  /\ Quiet /\ idle = "closing"
  /\ \/ LauncherEnds(retirement) /\ NoFault
     \/ UNCHANGED osVars /\ Fault
  /\ idle' = "confirm"
  /\ UNCHANGED <<flightVars, retirement, evidence, closing, lostVars, stopVars, callerVars>>

ShutdownSettles == idle' = "off"

\* No successor before the whole tree is confirmed gone.
IdleConfirm ==
  /\ Quiet /\ idle = "confirm"
  /\ ShutdownSettles
  /\ \/ Kill(retirement, evidence[retirement]) /\ retirement' = 0 /\ NoFault
        /\ Move({"retiring"}, "lostcheck")
     \/ CannotKill(evidence[retirement]) /\ UNCHANGED <<osVars, retirement>> /\ Move({"retiring"}, "out")
  /\ UNCHANGED <<flightVars, evidence, closing, lostVars, stopVars, at, pinned>>

----------------------------------------------------------------------------
\* stop(): permanent.

Stop ==
  /\ Quiet /\ ~stopped /\ stop' = "diag"
  /\ UNCHANGED <<osVars, flightVars, idleVars, lostVars, stopChild, stopTrees, callerVars, faults>>

\* The losses tell their errors first; a shutdown under way is joined, one that
\* was not confirmed is tried again.
StopJoins ==
  /\ Quiet /\ stop = "diag" /\ draining = {} /\ idle = "off" /\ retirement # 0
  /\ stop' = "retire" /\ IdleStarts(retirement)
  /\ UNCHANGED <<osVars, flightVars, closing, lostVars, stopChild, stopTrees, callerVars, faults>>

StopRetired ==
  /\ Quiet /\ stop = "retire" /\ idle = "off" /\ retirement # 0
  /\ stop' = "failed"
  /\ UNCHANGED <<osVars, flightVars, idleVars, lostVars, stopChild, stopTrees, callerVars, faults>>

\* The process that is left is retired like an idle one; rejecting its requests
\* may start the same retirement from a failed initialization.
StopTakes ==
  /\ Quiet /\ idle = "off" /\ retirement = 0
  /\ (stop = "diag" /\ draining = {}) \/ stop = "retire"
  /\ stop' = "capture" /\ stopChild' = child
  /\ evidence' = IF child # 0 /\ evidence[child] = "none" THEN [evidence EXCEPT ![child] = "pending"]
                                                          ELSE evidence
  /\ UNCHANGED <<osVars, flightVars, retirement, closing, idle, lostVars, stopTrees, callerVars, faults>>

StopCaptures ==
  /\ Quiet /\ stop = "capture"
  /\ stop' = "join"
  /\ IF stopChild = 0 THEN NoFault /\ UNCHANGED <<evidence, stopTrees>>
     ELSE /\ stopTrees' = stopTrees \cup {stopChild}
          /\ IF evidence[stopChild] = "pending"
             THEN \E e \in {"full", "unknown"} :
                    Snapshot(stopChild, e) /\ evidence' = [evidence EXCEPT ![stopChild] = e]
             ELSE NoFault /\ UNCHANGED evidence
  /\ UNCHANGED <<osVars, flightVars, retirement, closing, idle, lostVars, stopChild, callerVars>>

StopDetaches ==
  /\ Quiet /\ stop = "join" /\ idle = "off"
  /\ child' = 0
  /\ IF Running(stopChild) /\ stopChild \notin closing
     THEN stop' = "closing" /\ closing' = closing \cup {stopChild}
     ELSE stop' = "trees" /\ UNCHANGED closing
  /\ UNCHANGED <<osVars, broken, census, flight, retirement, evidence, idle, lostVars, stopChild,
                 stopTrees, callerVars, faults>>

StopCloses ==
  /\ Quiet /\ stop = "closing"
  /\ \/ LauncherEnds(stopChild) /\ NoFault
     \/ UNCHANGED osVars /\ Fault
  /\ stop' = "trees"
  /\ UNCHANGED <<flightVars, idleVars, lostVars, stopChild, stopTrees, callerVars>>

\* cleanupStoppedForkTrees: the captured trees, then the lost processes.
StopKills(g) ==
  /\ Quiet /\ stop = "trees" /\ g \in stopTrees
  /\ \/ /\ Kill(g, evidence[g]) /\ stopTrees' = stopTrees \ {g} /\ NoFault
        /\ retirement' = IF retirement = g THEN 0 ELSE retirement
        /\ UNCHANGED stop
     \/ CannotKill(evidence[g]) /\ stop' = "failed" /\ UNCHANGED <<osVars, stopTrees, retirement>>
  /\ UNCHANGED <<flightVars, evidence, closing, idle, lostVars, stopChild, callerVars>>

LossesLeft == lost # {}

StopEnds ==
  /\ Quiet /\ stop = "trees" /\ stopTrees = {}
  /\ IF LossesLeft THEN stop' = "lost" /\ cleaning' = TRUE
                  ELSE stop' = "done" /\ UNCHANGED cleaning
  /\ UNCHANGED <<osVars, flightVars, idleVars, lost, draining, stopChild, stopTrees, callerVars, faults>>

\* A failed stop may be called again: only for the cleanup that is missing.
StopAgain ==
  /\ Quiet /\ stop = "failed" /\ (stopTrees \cup lost # {} \/ retirement # 0)
  /\ IF retirement # 0 THEN stop' = "retry" /\ IdleStarts(retirement)
                       ELSE stop' = "trees" /\ UNCHANGED <<retirement, evidence, idle>>
  /\ UNCHANGED <<osVars, flightVars, closing, lostVars, stopChild, stopTrees, callerVars, faults>>

StopRetried ==
  /\ Quiet /\ stop = "retry" /\ idle = "off"
  /\ stop' = IF retirement = 0 THEN "trees" ELSE "failed"
  /\ UNCHANGED <<osVars, flightVars, idleVars, lostVars, stopChild, stopTrees, callerVars, faults>>

----------------------------------------------------------------------------
CallerStep(c) == Begin(c) \/ LostCheck(c) \/ Admit(c) \/ Spawn(c) \/ Work(c) \/ EndRound(c)
FlightStep == Handshake \/ RecordTree \/ FlightFails
IdleStep == IdleDetach \/ IdleClose \/ IdleConfirm
LostStep == \E g \in Gens : Drained(g) \/ CleanLost(g)
StopStep == StopJoins \/ StopRetired \/ StopTakes \/ StopCaptures \/ StopDetaches \/ StopCloses
            \/ StopEnds \/ StopRetried \/ \E g \in Gens : StopKills(g)

Next ==
  \/ \E c \in Callers : CallerStep(c) \/ Abort(c) \/ Call(c)
  \/ FlightStep \/ IdleStep \/ IdleTimer \/ LostStep
  \/ Break \/ \E g \in Gens : Exit(g)
  \/ StopStep \/ Stop \/ StopAgain

Spec == Init /\ [][Next]_vars

\* Promises that settle run their continuations; the handshake, snapshots and
\* closings all have their time (rpcTimeoutMs, the scan limit, quitGraceMs,
\* killGraceMs, the 100 ms of the diagnostic).  An event that is due stays in
\* the queue of the event loop while microtasks run: it is not starved by new
\* calls.  Nobody is obliged to call.
Fairness ==
  /\ \A c \in Callers : WF_vars(CallerStep(c))
  /\ SF_vars(FlightStep) /\ SF_vars(IdleStep) /\ SF_vars(LostStep) /\ SF_vars(StopStep)
LiveSpec == Spec /\ Fairness

----------------------------------------------------------------------------
\* There are never two backends: nothing of a generation runs when a later one
\* does, however the earlier one ended (start, cleanupLostProcesses,
\* doIdleShutdown wait for a confirmed tree).
OneBackend == \A g, h \in Gens : Alive(g) /\ Alive(h) => g = h

\* A stop that resolves leaves nothing running, neither the process it closed
\* nor one lost or retired before; and it stays so.
StopLeavesNothing == stop = "done" => \A g \in Gens : ~Alive(g)

\* Once stop() has begun no process is spawned, whoever was waiting in start().
NoSpawnAfterStop == [][\A g \in Gens : stopped /\ os[g] = "unborn" => os'[g] = "unborn"]_vars

\* The process that knows the thread of a round is not shut down under it: it
\* goes away only by its own exit, by a broken pipe or by stop().
RoundKeepsItsProcess ==
  \A c \in pinned : pc[c] \in {"ready", "working"} =>
    child = at[c] \/ stopped \/ at[c] \in lost \cup broken \/ os[at[c]] = "exited"

\* A call of start() ends, with a process or with an error.
StartSettles == \A c \in Callers : pc[c] \in Waiting \cup Ready ~> pc[c] \notin Waiting \cup Ready

\* A stop ends: confirmed, or refused with the cleanup it could not confirm.
StopSettles == stop = "diag" ~> stop \in {"done", "failed"}

\* One backend, in consistent bookkeeping.
OneManagedBackend == TypeOK /\ OneBackend

\* A stop is final: nothing is left, and nothing comes after it.
StopIsFinal == []StopLeavesNothing /\ NoSpawnAfterStop

\* Every start and every stop ends.
CallsSettle == StartSettles /\ StopSettles
=============================================================================
