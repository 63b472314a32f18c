----------------------------- MODULE PlannerRun -----------------------------
(***************************************************************************)
(* One workflow planned by the foreground Planner: the visible turn, its   *)
(* conversion, the completion turn, native and textual clarifications, the *)
(* waiting run that a failed turn leaves behind and its continuation,      *)
(* cancellation and teardown (src/src/application/planner-execution.ts,    *)
(* lifecycle-execution.ts and the planner part of workflow.ts).            *)
(*                                                                         *)
(* Every turn runs on the one thread of the workflow, in the memory of one *)
(* manager: a record that outlives it cannot be continued. Store           *)
(* operations that follow each other with no other await between them are  *)
(* one step; a request to the App Server and the wait for a turn separate  *)
(* two steps. The App Server answers every turn/start, so no receipt of    *)
(* one is pending.                                                         *)
(***************************************************************************)
EXTENDS Naturals, FiniteSets

CONSTANTS MaxAnswers,  \* bound: clarifications answered
          MaxResumes,  \* bound: continuations of a waiting run
          MaxFaults    \* bound: losses, aborts, transient failures, unconfirmed interrupts

ASSUME BoundsAssumption == MaxAnswers \in Nat /\ MaxResumes \in Nat /\ MaxFaults \in Nat

VARIABLES
  rec,      \* the durable workflow record
  stopped,  \* runtime.stopped
  gen,      \* the generation of the App Server process
  down,     \* it is lost, and its process tree is not known to be gone
  live,     \* the turns of the thread that may still run
  active,   \* activeTurns: the registered turn, the target of a cancel
  flight,   \* the call that is planning: start, continue or resume
  cp,       \* the PlannerRunCheckpoint, and the generation of the thread's owner
  recov,    \* recoverableRuns: the waiting run
  input,    \* plannerInputs and pending: the parked clarification
  pins,     \* rounds begun and not ended (beginRound, endRound)
  autos,    \* ghost: automatic continuations of the run
  replies,  \* ghost: completion replies since the last answers
  round,    \* ghost: how many answers were claimed
  missed,   \* ghost: a turn was left that nothing in this process could interrupt
  resumes, faults
procVars  == <<stopped, gen, down>>
ghostVars == <<autos, replies, round, missed, resumes>>
vars == <<rec, procVars, live, active, flight, cp, recov, input, pins, ghostVars, faults>>

Slots == {1, 2}
Steps == {"visible", "conversion", "completion", "corrected", "finalizing"}
Record == [phase : {"none", "planning", "waiting_input", "executing", "failed", "cancelled"},
           proc : {"none", "running", "waiting", "failed", "cancelled"},
           retry : {"none", "continue", "cleanup", "startup"}]
Checkpoint == [gen : 0 .. MaxFaults + 1, step : Steps, auto : 0 .. 1, used : BOOLEAN,
               text : {"none", "complete", "short"}, of : 0 .. MaxAnswers,
               conv : {"none", "ready", "input", "failed"}]
NoCheckpoint == [gen |-> 0, step |-> "visible", auto |-> 0, used |-> FALSE, text |-> "none",
                 of |-> 0, conv |-> "none"]
Flight == [pc : {"none", "create", "claimed", "ready", "starting", "backoff", "turn", "accept",
                 "catch", "interrupt", "finally"},
           kind : {"start", "continue", "resume"}, abort : BOOLEAN, turn : {0} \cup Slots,
           nat : {0} \cup Slots, called : BOOLEAN, err : {"none", "fatal", "interrupted", "rejected"}]
NoFlight == [pc |-> "none", kind |-> "start", abort |-> FALSE, turn |-> 0, nat |-> 0,
             called |-> FALSE, err |-> "none"]
Run   == [kind : {"none", "continue", "cleanup"}, intr : {0} \cup Slots]
NoRun == [kind |-> "none", intr |-> 0]
Input   == [kind : {"none", "native", "text"}, turn : {0} \cup Slots]
NoInput == [kind |-> "none", turn |-> 0]

TypeOK ==
  /\ rec \in Record /\ stopped \in BOOLEAN /\ gen \in 1 .. MaxFaults + 1 /\ down \in BOOLEAN
  /\ live \subseteq Slots /\ active \in {0} \cup Slots /\ flight \in Flight /\ cp \in Checkpoint
  /\ recov \in Run /\ input \in Input /\ pins \in Nat /\ autos \in Nat /\ replies \in Nat
  /\ round \in 0 .. MaxAnswers /\ missed \in BOOLEAN /\ resumes \in 0 .. MaxResumes
  /\ faults \in 0 .. MaxFaults

Init ==
  /\ rec = [phase |-> "none", proc |-> "none", retry |-> "none"]
  /\ stopped = FALSE /\ gen = 1 /\ down = FALSE /\ live = {} /\ active = 0
  /\ flight = NoFlight /\ cp = NoCheckpoint /\ recov = NoRun /\ input = NoInput /\ pins = 0
  /\ autos = 0 /\ replies = 0 /\ round = 0 /\ missed = FALSE /\ resumes = 0 /\ faults = 0

----------------------------------------------------------------------------
Fault == faults < MaxFaults /\ faults' = faults + 1
NoFault == UNCHANGED faults
At(s) == flight.pc = s
To(s) == flight' = [flight EXCEPT !.pc = s]
Throw(e) == flight' = [flight EXCEPT !.pc = "catch", !.err = e]
Private == cp.step \in {"conversion", "corrected"}

\* originalThreadAvailable; terminalProcessTreeExited.
Available == cp.gen = gen /\ ~down
Exited == gen > cp.gen

\* throwIfAborted, isStopping; with the phase of the record, assertRunning.
Running == ~stopped /\ ~flight.abort
Planning == rec.phase = "planning"
CanGoOn == Running /\ Planning /\ Available

\* What isStopping and a caller's signal do to a wait: stop aborts the calls that
\* have a controller of their own, start has none.
Signalled == flight.abort \/ (stopped /\ flight.kind # "start")

----------------------------------------------------------------------------
(* Start: the admission of a workflow, its record and its thread.            *)
Start ==
  /\ rec.phase = "none" /\ ~stopped
  /\ rec' = [rec EXCEPT !.phase = "planning"] /\ pins' = pins + 1
  /\ flight' = [NoFlight EXCEPT !.pc = "create"]
  /\ NoFault /\ UNCHANGED <<procVars, live, active, cp, recov, input, ghostVars>>

\* Creation is not given up when the caller is: what it created is used or released.
CreateThread ==
  /\ At("create")
  /\ IF Running /\ Planning /\ ~down
     THEN \/ To("ready") /\ cp' = [NoCheckpoint EXCEPT !.gen = gen] /\ NoFault
          \/ Throw("fatal") /\ UNCHANGED cp /\ Fault
     ELSE Throw("fatal") /\ UNCHANGED cp /\ NoFault
  /\ UNCHANGED <<rec, procVars, live, active, recov, input, pins, ghostVars>>

----------------------------------------------------------------------------
(* Answers to a parked clarification, and the continuation of a waiting run. *)
Continue ==
  /\ At("none") /\ ~stopped /\ rec.phase = "waiting_input" /\ round < MaxAnswers
  /\ input # NoInput /\ Available
  /\ input' = NoInput
  /\ flight' = [NoFlight EXCEPT !.pc = "claimed", !.kind = "continue", !.nat = input.turn]
  /\ NoFault /\ UNCHANGED <<rec, procVars, live, active, cp, recov, pins, ghostVars>>

Cleared(c) == [c EXCEPT !.step = "visible", !.text = "none", !.conv = "none", !.of = 0]
\* Mutant: the answers renew the automatic continuation.
ResetAll(c) == [Cleared(c) EXCEPT !.used = FALSE, !.auto = 0]

\* resetPlannerCheckpointForAnswers: fresh artifacts, the budget of the run is kept.
ResetForAnswers(c) == [Cleared(c) EXCEPT !.used = FALSE]

ClaimAnswers ==
  /\ At("claimed") /\ flight.kind = "continue"
  /\ IF rec.phase = "waiting_input" /\ ~stopped
     THEN /\ rec' = [rec EXCEPT !.phase = "planning", !.proc = "running"]
          /\ cp' = ResetForAnswers(cp) /\ round' = round + 1 /\ replies' = 0 /\ To("ready")
     ELSE To("finally") /\ UNCHANGED <<rec, cp, round, replies>>
  /\ NoFault
  /\ UNCHANGED <<procVars, live, active, recov, input, pins, autos, missed, resumes>>

\* The turn of the interrupted run is confirmed ended before the run is claimed.
Resume ==
  /\ At("none") /\ ~stopped /\ Planning /\ recov.kind = "continue" /\ Available
  /\ resumes < MaxResumes /\ resumes' = resumes + 1
  /\ \/ /\ recov' = NoRun /\ live' = live \ {recov.intr} /\ NoFault
        /\ flight' = [NoFlight EXCEPT !.pc = "claimed", !.kind = "resume"]
     \/ /\ recov.intr # 0 /\ Fault /\ UNCHANGED <<recov, live, flight>>
  /\ UNCHANGED <<rec, procVars, active, cp, input, pins, autos, replies, round, missed>>

ClaimRun ==
  /\ At("claimed") /\ flight.kind = "resume"
  /\ CASE ~Planning -> To("finally") /\ UNCHANGED rec
       [] Planning /\ ~Running -> Throw("fatal") /\ UNCHANGED rec
       [] OTHER -> rec' = [rec EXCEPT !.proc = "running", !.retry = "none"] /\ To("ready")
  /\ NoFault /\ UNCHANGED <<procVars, live, active, cp, recov, input, pins, ghostVars>>

\* The record of a run whose terminated turn is confirmed ended.
Terminated ==
  IF rec.retry # "cleanup" THEN rec
  ELSE IF rec.phase = "cancelled" THEN [rec EXCEPT !.retry = "none"]
  ELSE [rec EXCEPT !.phase = "failed", !.proc = "failed", !.retry = "none"]

\* resumeTerminalCleanup: the terminated turn is confirmed ended, the run is over.
FinishCleanup ==
  /\ At("none") /\ ~stopped /\ recov.kind = "cleanup" /\ (Available \/ Exited)
  /\ live' = live \ {recov.intr} /\ recov' = NoRun /\ active' = 0 /\ pins' = pins - 1
  /\ rec' = Terminated /\ cp' = NoCheckpoint
  /\ NoFault /\ UNCHANGED <<procVars, flight, input, ghostVars>>

----------------------------------------------------------------------------
(* The turns of the thread.                                                  *)
\* The head of the loops of runTurnWithContinuation and acceptWithContinuation.
Ready ==
  /\ At("ready")
  /\ IF CanGoOn THEN To(IF cp.step = "visible" THEN "starting" ELSE "accept") ELSE Throw("fatal")
  /\ NoFault /\ UNCHANGED <<rec, procVars, live, active, cp, recov, input, pins, ghostVars>>

FreeSlot == IF 1 \in live THEN 2 ELSE 1

\* Mutant: a turn registered after a cancel is left running.
LeftRunning(t) == live' = live \cup {t} /\ active' = t /\ NoFault /\ UNCHANGED missed

\* registerActiveTurn, registerEphemeralTurn: a turn that was started while the
\* workflow was cancelled is interrupted.
Register(t) ==
  IF rec.phase = "cancelled"
  THEN /\ active' = 0
       /\ \/ UNCHANGED <<live, missed>> /\ NoFault
          \/ live' = live \cup {t} /\ missed' = TRUE /\ Fault
  ELSE live' = live \cup {t} /\ active' = t /\ NoFault /\ UNCHANGED missed

StartTurn ==
  /\ At("starting") \/ (At("backoff") /\ ~Signalled)
  /\ Available /\ flight.nat = 0
  /\ flight' = [flight EXCEPT !.pc = "turn", !.turn = FreeSlot] /\ Register(FreeSlot)
  /\ UNCHANGED <<rec, procVars, cp, recov, input, pins, autos, replies, round, resumes>>

\* The answer to a native clarification is written to the turn that asked.
\* From then on the clarification needs no interrupt of its own: its turn is this wait's.
AnswerTurn ==
  /\ At("starting") /\ Available /\ flight.nat # 0
  /\ flight' = [flight EXCEPT !.pc = "turn", !.turn = flight.nat, !.nat = 0, !.called = TRUE]
  /\ NoFault /\ UNCHANGED <<rec, procVars, live, active, cp, recov, input, pins, ghostVars>>

StartFails ==
  /\ (At("starting") \/ At("backoff")) /\ (Signalled \/ ~Available)
  /\ flight' = [flight EXCEPT !.pc = "catch", !.err = "fatal", !.called = (flight.nat # 0)]
  /\ NoFault /\ UNCHANGED <<rec, procVars, live, active, cp, recov, input, pins, ghostVars>>

\* A private or a completion turn leaves the registry when its wait ends.
Registered == IF cp.step = "visible" THEN active ELSE 0
Waited == At("turn") /\ Available /\ active' = Registered
Ended  == Waited /\ live' = live \ {flight.turn}

\* A usable reply: text that can be displayed, or a conversion that can be parsed.
\* It is kept before anything else is looked at.
TurnDone ==
  /\ Ended /\ flight.turn \in live
  /\ \/ /\ ~Private
        /\ \E text \in {"complete", "short"} :
             cp' = [cp EXCEPT !.text = text, !.of = round, !.conv = "none",
                              !.step = IF cp.step = "visible" THEN "conversion" ELSE "corrected"]
        /\ replies' = IF cp.step = "completion" THEN replies + 1 ELSE replies
     \/ /\ Private
        /\ \E conv \in {"ready", "input", "failed"} : cp' = [cp EXCEPT !.conv = conv, !.step = "finalizing"]
        /\ UNCHANGED replies
  /\ To(IF cp.step = "visible" THEN "ready" ELSE "accept")
  /\ NoFault
  /\ UNCHANGED <<rec, procVars, recov, input, pins, autos, round, missed, resumes>>

\* A turn that failed for good throws, as does the wait of an aborted call once it has
\* interrupted its turn. An empty reply, an envelope or an invalid conversion fails the
\* workflow. A cancelled workflow is left as it is.
TurnUnusable ==
  /\ Ended
  /\ \/ Throw("fatal") /\ UNCHANGED rec
     \/ Running /\ Planning /\ To("finally") /\ rec' = [rec EXCEPT !.phase = "failed"]
     \/ rec.phase = "cancelled" /\ cp.step # "visible" /\ To("finally") /\ UNCHANGED rec
  /\ NoFault /\ UNCHANGED <<procVars, cp, recov, input, pins, ghostVars>>

\* waitForContinuation: the run waits with its thread, its checkpoint and its round.
CanWait == Planning /\ ~stopped /\ Available
WaitingRecord == [rec EXCEPT !.proc = "waiting", !.retry = "continue"]
\* Mutant: the run is not kept.
ForgetRun(t) == recov' = NoRun /\ active' = 0 /\ flight' = NoFlight
KeepRun(t) == recov' = [kind |-> "continue", intr |-> t] /\ active' = 0 /\ flight' = NoFlight

\* A recoverable failure of the model: one automatic continuation belongs to the
\* run, whatever the stage, and the next failure waits for the user.
TurnFails ==
  /\ At("turn") /\ Available /\ live' = live \ {flight.turn}
  /\ CASE ~CanGoOn -> Throw("fatal") /\ active' = Registered /\ UNCHANGED <<rec, cp, recov, autos>>
       [] CanGoOn /\ cp.auto = 0 ->
            /\ cp' = [cp EXCEPT !.auto = 1] /\ autos' = autos + 1 /\ To("ready")
            /\ active' = Registered /\ UNCHANGED <<rec, recov>>
       [] OTHER -> rec' = WaitingRecord /\ KeepRun(0) /\ UNCHANGED <<cp, autos>>
  /\ NoFault /\ UNCHANGED <<procVars, input, pins, replies, round, missed, resumes>>

\* Mutant: a turn is retried that has not ended.
RetryAtOnce ==
  /\ ~Private /\ flight.turn \in live /\ Fault /\ At("turn") /\ Available /\ To("backoff")
  /\ UNCHANGED <<rec, procVars, live, active, cp, recov, input, pins, ghostVars>>

\* A transient failure of a visible turn is retried on the same thread.
TurnTransient ==
  /\ ~Private /\ flight.turn \in live /\ Fault /\ At("turn") /\ Available
  /\ live' = live \ {flight.turn} /\ To("backoff")
  /\ UNCHANGED <<rec, procVars, active, cp, recov, input, pins, ghostVars>>

\* The wait is given up and the turn's end is not confirmed: it may still run. A
\* broken protocol or a failed registration admits its cleanup only.
TurnInterrupted ==
  /\ Waited /\ Fault
  /\ \E e \in {"interrupted", "rejected"} : Throw(e)
  /\ missed' = (missed \/ (rec.phase = "cancelled" /\ flight'.err = "interrupted"))
  /\ UNCHANGED <<rec, procVars, live, cp, recov, input, pins, autos, replies, round, resumes>>

\* Mutant: the loss of the process does not fail the waits.
NotNoticed == FALSE /\ UNCHANGED vars
TurnLost ==
  /\ At("turn") /\ ~Available /\ Throw("fatal") /\ active' = Registered
  /\ NoFault /\ UNCHANGED <<rec, procVars, live, cp, recov, input, pins, ghostVars>>

----------------------------------------------------------------------------
(* The end of a planning call: a clarification, a plan, or a failure.        *)
Asking == [rec EXCEPT !.phase = "waiting_input", !.proc = "none", !.retry = "none"]

\* The visible turn's request outlives its caller, a completion turn's does not.
KeptForAnswers == Planning /\ ~stopped /\ (flight.abort => cp.step = "visible")

\* The turn asks and stays open; the request is parked with the run's round.
TurnAsks ==
  /\ Waited /\ ~Private /\ flight.turn \in live
  /\ IF KeptForAnswers
     THEN /\ rec' = Asking /\ input' = [kind |-> "native", turn |-> flight.turn] /\ flight' = NoFlight
          /\ cp' = IF cp.step = "visible" THEN cp ELSE Cleared(cp)
          /\ UNCHANGED missed
     ELSE /\ \/ Throw("fatal")
             \/ rec.phase = "cancelled" /\ cp.step = "completion" /\ To("finally")
          /\ missed' = TRUE /\ UNCHANGED <<rec, input, cp>>
  /\ NoFault /\ UNCHANGED <<procVars, live, recov, pins, autos, replies, round, resumes>>

NeedsCompletion == cp.text = "short" /\ ~cp.used
\* Mutant: a plan is committed for a caller that has gone.
PlanningOnly == Planning
\* assertPlannerCommit.
CanCommit == Running /\ Planning

\* acceptPlannerOutcome, from the stage the checkpoint has reached to the commit.
Accept ==
  /\ At("accept")
  /\ CASE rec.phase = "cancelled" -> To("finally") /\ UNCHANGED <<rec, cp, input>>
       [] rec.phase # "cancelled" /\ ~CanCommit -> Throw("fatal") /\ UNCHANGED <<rec, cp, input>>
       [] CanCommit /\ cp.step # "finalizing" -> To("starting") /\ UNCHANGED <<rec, cp, input>>
       [] CanCommit /\ cp.step = "finalizing" /\ cp.conv = "input" ->
            /\ rec' = Asking /\ UNCHANGED cp
            /\ IF Available THEN input' = [kind |-> "text", turn |-> 0] /\ flight' = NoFlight
               ELSE To("finally") /\ UNCHANGED input
       [] CanCommit /\ cp.step = "finalizing" /\ cp.conv = "ready" /\ NeedsCompletion ->
            cp' = [cp EXCEPT !.step = "completion", !.used = TRUE] /\ To("starting") /\ UNCHANGED <<rec, input>>
       [] OTHER ->
            /\ rec' = IF cp.conv = "ready" /\ cp.text = "complete"
                      THEN [rec EXCEPT !.phase = "executing", !.proc = "none", !.retry = "none"]
                      ELSE [rec EXCEPT !.phase = "failed"]
            /\ To("finally") /\ UNCHANGED <<cp, input>>
  /\ NoFault /\ UNCHANGED <<procVars, live, active, recov, pins, ghostVars>>

----------------------------------------------------------------------------
(* The catch of a call.                                                      *)
CatchRejected ==
  /\ At("catch") /\ flight.err = "rejected"
  /\ recov' = [kind |-> "cleanup", intr |-> flight.turn] /\ active' = 0 /\ flight' = NoFlight
  /\ rec' = IF Planning /\ ~stopped THEN [rec EXCEPT !.proc = "waiting", !.retry = "cleanup"] ELSE rec
  /\ NoFault /\ UNCHANGED <<procVars, live, cp, input, pins, ghostVars>>

\* A start that was cancelled settles the marker the cancel left for it.
CatchCancelled ==
  /\ At("catch") /\ flight.err # "rejected" /\ rec.phase = "cancelled" /\ To("finally")
  /\ rec' = IF rec.retry = "startup" THEN [rec EXCEPT !.proc = "cancelled", !.retry = "none"] ELSE rec
  /\ NoFault /\ UNCHANGED <<procVars, live, active, cp, recov, input, pins, ghostVars>>

\* An interrupted turn, or a caller that has gone: the run waits, unless its thread is lost.
Parks == ~stopped /\ (flight.err = "interrupted" \/ (flight.abort /\ cp # NoCheckpoint))
CatchWaits ==
  /\ At("catch") /\ flight.err # "rejected" /\ Planning /\ Parks
  /\ CASE flight.err = "fatal" /\ flight.nat # 0 -> To("interrupt") /\ UNCHANGED <<rec, recov, active>>
       [] CanWait /\ (flight.err = "interrupted" \/ flight.nat = 0) ->
            rec' = WaitingRecord /\ KeepRun(IF flight.err = "interrupted" THEN flight.turn ELSE 0)
       [] OTHER -> To("finally") /\ UNCHANGED <<rec, recov, active>>
  /\ NoFault /\ UNCHANGED <<procVars, live, cp, input, pins, ghostVars>>

CatchFails ==
  /\ At("catch") /\ flight.err # "rejected" /\ rec.phase # "cancelled" /\ ~(Planning /\ Parks)
  /\ To("finally")
  /\ rec' = CASE ~Planning -> rec
             [] Planning /\ flight.kind = "start" -> [rec EXCEPT !.phase = "failed"]
             [] OTHER -> [rec EXCEPT !.phase = "failed", !.proc = "failed", !.retry = "none"]
  /\ NoFault /\ UNCHANGED <<procVars, live, active, cp, recov, input, pins, ghostVars>>

\* The claimed clarification of a caller that has gone: its turn is confirmed ended,
\* or it is given back unanswered, or the submitted answer's turn is kept for cleanup.
InterruptNative(ok) ==
  /\ At("interrupt") /\ (ok => Available)
  /\ IF ~ok /\ Available THEN Fault ELSE NoFault
  /\ live' = IF ok THEN live \ {flight.nat} ELSE live
  /\ CASE ~CanWait -> To("finally") /\ UNCHANGED <<rec, recov, active, input>>
       [] CanWait /\ ~ok /\ ~flight.called ->
            /\ rec' = Asking /\ input' = [kind |-> "native", turn |-> flight.nat] /\ flight' = NoFlight
            /\ UNCHANGED <<recov, active>>
       [] OTHER -> rec' = WaitingRecord /\ KeepRun(IF ok THEN 0 ELSE flight.nat) /\ UNCHANGED input
  /\ UNCHANGED <<procVars, cp, pins, ghostVars>>

\* The finally: what is not retained is released, and its round ends.
Finally ==
  /\ At("finally") /\ flight' = NoFlight /\ pins' = pins - 1
  /\ active' = 0 /\ recov' = NoRun /\ input' = NoInput /\ cp' = NoCheckpoint
  /\ NoFault /\ UNCHANGED <<rec, procVars, live, ghostVars>>

----------------------------------------------------------------------------
(* Cancel and stop: takeRetainedRun, cleanupTerminalRun, the active turn.    *)
Target == IF input # NoInput THEN input.turn ELSE recov.intr
Takes == input # NoInput \/ recov.kind = "continue"
Over(ok) == recov.kind = "cleanup" /\ ok /\ (Available \/ Exited)

\* With ok FALSE no interrupt can be confirmed. What is taken has its turn interrupted;
\* otherwise the registered turn is.
Teardown(ok) ==
  /\ IF ok THEN NoFault ELSE Fault
  /\ live' = CASE ok /\ Available /\ (Takes \/ Over(ok)) /\ Target # 0 -> live \ {Target}
               [] ok /\ Available /\ Target = 0 -> live \ {active}
               [] OTHER -> live
  /\ active' = IF (Takes /\ Target # 0) \/ Over(ok) THEN 0 ELSE active
  /\ recov' = IF Takes \/ Over(ok) THEN NoRun ELSE recov
  /\ input' = IF Takes \/ Over(ok) THEN NoInput ELSE input
  /\ cp' = IF Takes \/ Over(ok) THEN NoCheckpoint ELSE cp
  /\ pins' = IF Takes \/ Over(ok) THEN pins - 1 ELSE pins

\* A start with no registered turn leaves a marker for its producer.
Marked == active = 0 /\ recov = NoRun /\ input = NoInput /\ Planning /\ ~At("none") /\ flight.kind = "start"
Cancelled ==
  LET retry == CASE recov.kind = "cleanup" -> rec.retry
                 [] Marked \/ rec.retry = "startup" -> "startup"
                 [] OTHER -> "none"
  IN [rec EXCEPT !.phase = "cancelled", !.retry = retry,
                 !.proc = IF retry = "startup" THEN "waiting" ELSE "cancelled"]

\* The clarification of a completion turn is not registered: claimed and not answered
\* yet, it is nobody's to interrupt.
Unaddressed == flight.nat # 0 /\ active = 0

Cancel ==
  /\ ~stopped /\ ~At("catch") /\ rec.phase \in {"planning", "waiting_input", "cancelled"}
  /\ rec.phase = "cancelled" => recov # NoRun
  /\ \E ok \in BOOLEAN : /\ Teardown(ok) /\ missed' = (missed \/ ~(ok /\ (Available \/ cp.gen = 0)) \/ Unaddressed)
                       /\ rec' = IF Over(ok) /\ Cancelled.retry = "cleanup"
                                 THEN [Cancelled EXCEPT !.retry = "none"] ELSE Cancelled
  /\ flight' = [flight EXCEPT !.abort = @ \/ (~At("none") /\ flight.kind # "start")]
  /\ UNCHANGED <<procVars, autos, replies, round, resumes>>

Stop ==
  /\ ~stopped /\ ~At("catch") /\ rec.phase # "none" /\ stopped' = TRUE
  /\ \E ok \in BOOLEAN : Teardown(ok) /\ rec' = IF Over(ok) THEN Terminated ELSE rec
  /\ UNCHANGED <<gen, down, flight, ghostVars>>

\* A call may have parked what it had just as the teardown began.
Sweep ==
  /\ stopped /\ At("none") /\ (recov # NoRun \/ input # NoInput)
  /\ \E ok \in BOOLEAN : Teardown(ok) /\ rec' = IF Over(ok) THEN Terminated ELSE rec
  /\ UNCHANGED <<procVars, flight, ghostVars>>

----------------------------------------------------------------------------
(* The environment: the App Server's process and the caller.                 *)
ServerLost ==
  /\ ~down /\ ~At("catch") /\ rec.phase # "none" /\ Fault /\ down' = TRUE
  /\ UNCHANGED <<rec, stopped, gen, live, active, flight, cp, recov, input, pins, ghostVars>>

TreeGone ==
  /\ down /\ ~At("catch") /\ down' = FALSE /\ gen' = gen + 1 /\ live' = {}
  /\ NoFault /\ UNCHANGED <<rec, stopped, active, flight, cp, recov, input, pins, ghostVars>>

CallerAborts ==
  /\ ~At("none") /\ ~At("catch") /\ ~flight.abort /\ Fault
  /\ flight' = [flight EXCEPT !.abort = TRUE]
  /\ UNCHANGED <<rec, procVars, live, active, cp, recov, input, pins, ghostVars>>

----------------------------------------------------------------------------
TurnEnds == TurnDone \/ TurnUnusable \/ TurnFails \/ TurnTransient \/ TurnInterrupted
            \/ TurnLost \/ TurnAsks
Works ==
  \/ CreateThread \/ ClaimAnswers \/ ClaimRun \/ Ready \/ StartTurn \/ AnswerTurn \/ StartFails
  \/ TurnEnds \/ Accept
  \/ CatchRejected \/ CatchCancelled \/ CatchWaits \/ CatchFails
  \/ (\E ok \in BOOLEAN : InterruptNative(ok)) \/ Finally

Next ==
  \/ Start \/ Continue \/ Resume \/ FinishCleanup \/ Works \/ Cancel \/ Stop \/ Sweep
  \/ ServerLost \/ TreeGone \/ CallerAborts

Spec == Init /\ [][Next]_vars
\* Every await of a call is bounded (turns, requests and cleanups have timeouts), and
\* the teardown goes on until it has taken what was parked.
LiveSpec == Spec /\ WF_vars(Works) /\ WF_vars(Sweep)

----------------------------------------------------------------------------
(* A round of the App Server's use has exactly one owner: the call, the      *)
(* waiting run or the parked clarification; none is lost, none ended twice.  *)
OneHolder ==
  pins = (IF At("none") THEN 0 ELSE 1) + (IF recov = NoRun THEN 0 ELSE 1) + (IF input = NoInput THEN 0 ELSE 1)

\* Two turns never run on the Planner's thread: none is started beside an open
\* clarification or an interrupted turn that is not known to have ended.
OneTurn == Cardinality(live) <= 1 \/ missed

\* As long as the App Server and the manager live, a record that waits has what it
\* waits for, and a record that is being planned has a call that plans it.
WaitingHasItsHandle ==
  ~stopped /\ ~down /\ gen = 1 /\ At("none") =>
    /\ Planning => recov.kind = rec.retry
    /\ rec.phase = "waiting_input" => input # NoInput

\* The automatic continuation belongs to the run, whatever it asks and however
\* often it is continued.
OneAutomaticContinuation == autos <= 1

\* An incomplete plan is completed once; only new answers earn another completion.
OneCompletion == replies <= 1

\* A cancelled workflow leaves no turn behind: the one that ran when it was cancelled
\* and the one that was started meanwhile are interrupted, by the cancel or by the wait
\* of the call it aborts, and a waiting run takes its turn along, unless an interrupt
\* could not be confirmed.
CancelStopsTheTurn ==
  /\ rec.phase = "cancelled" /\ recov = NoRun /\ ~missed /\ ~down
  /\ flight.err # "rejected" /\ ~(At("turn") /\ Signalled)
  => live = {}

\* The marker of a cancelled start does not outlive the start.
MarkerIsSettled == rec.phase = "cancelled" /\ rec.retry = "startup" /\ recov = NoRun => ~At("none")

\* A plan is accepted from the complete reply to the last answers, after its
\* conversion, by a call whose caller and manager are still there.
PlanIsCurrent ==
  [][rec'.phase = "executing" /\ rec.phase # "executing" =>
       Planning /\ Running /\ cp.of = round /\ cp.text = "complete" /\ cp.conv = "ready"]_vars

\* Every call ends.
CallEnds == ~At("none") ~> At("none")

\* After a stop every round is ended, but for a terminated turn nobody can confirm.
StopReleases == stopped ~> (pins = 0 \/ recov.kind = "cleanup")

\* One turn at a time.
OnePlannerTurn == TypeOK /\ OneTurn

\* What waits is held, and by one owner.
WaitingIsHeldOnce == WaitingHasItsHandle /\ OneHolder

\* Neither budget of a run is spent twice.
BudgetsHold == OneAutomaticContinuation /\ OneCompletion

\* Every call ends, and a stop leaves nothing that it could have released.
CallsAndStopsEnd == CallEnds /\ StopReleases
=============================================================================
