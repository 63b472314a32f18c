-------------------------- MODULE ForegroundReview --------------------------
(***************************************************************************)
(* One workflow reviewed by the foreground Reviewer: the admission of a    *)
(* review, the turns of the visible review, its conversion, the alignment  *)
(* and the reconciliation, the acceptance of the verdict, the waiting run  *)
(* that a failed turn leaves behind and its continuation, cancellation and *)
(* teardown (src/src/application/review-execution.ts, lifecycle-execution  *)
(* .ts, terminal-cleanup-guard.ts and the review part of workflow.ts).     *)
(*                                                                         *)
(* A manager is one DSH process with its App Server; several of them serve *)
(* the session.  A store update is one SQLite transaction, and it and the  *)
(* synchronous code after it are one step; every await of a model, of a    *)
(* process or of a file scan separates two steps.  A best-effort cleanup   *)
(* of a run that a cancel or a stop has taken is part of that step.  The   *)
(* App Server answers every turn/start, so no receipt of one is pending.   *)
(***************************************************************************)
EXTENDS Naturals, FiniteSets

CONSTANTS Managers,
          MaxReviewCycles,          \* config.maxReviewCycles
          MaxNoChangeReviewRounds,  \* config.maxNoChangeReviewRounds
          MaxAttempts,              \* bound: runs of the review, first or continued
          MaxEdits,                 \* bound: edits of the workspace
          MaxFaults                 \* bound: losses, aborts, failed reads and interrupts

ASSUME LimitsAssumption == MaxReviewCycles \in Nat \ {0} /\ MaxNoChangeReviewRounds \in Nat \ {0}
ASSUME BoundsAssumption == MaxAttempts \in Nat /\ MaxEdits \in Nat /\ MaxFaults \in Nat

VARIABLES
  rec,      \* the durable workflow record
  ws,       \* the evidence a scan of the workspace would give now
  lease,    \* the manager that holds the lease review:<workflow>, or Nobody
  guard,    \* the durable row terminal-cleanup:<session>:<workflow>
  alive,    \* alive[m]: "up", "stopped" or "dead"
  gen,      \* gen[m]: the generation of its App Server process
  down,     \* the managers whose App Server is lost, its tree not known to be gone
  live,     \* the model turns that may still run
  flight,   \* flight[m]: reviewFlights and resumeFlights, one run at a time
  recov,    \* recov[m]: recoverableRuns, the waiting run
  aux,      \* aux[m]: auxiliaryTurns, private turns not known to have ended
  pins,     \* pins[m]: rounds begun and not ended (beginRound, endRound)
  orphans,  \* ghost, orphans[m]: waiting runs dropped with their round open
  taken,    \* ghost: managers whose waiting run another manager's round replaced, or
            \* that gave their run up after they had lost the lease
  autos,    \* ghost: automatic continuations of the current business round
  deciding, \* a codex_workflow_decide has read a record that waits for a decision
  faults
sysVars   == <<alive, gen, down, deciding>>
ghostVars == <<orphans, taken, autos>>
vars == <<rec, ws, lease, guard, sysVars, live, flight, recov, aux, pins, ghostVars, faults>>

Nobody  == "none"
ASSUME NamesAssumption == Nobody \notin Managers
Phases  == {"executing", "fixing", "reviewing", "passed", "waiting_review_decision", "blocked",
            "cancelled"}
\* The next turn of a run, or the verdict it has; a rewrite is a second visible
\* turn, and the checkpoint exists from the conversion on.
Steps   == {"review", "rewrite", "conversion", "alignment", "reconciliation", "applied", "conflict"}
\* alignReview and reconcileReview; the rewrite, the conversion and the second check of
\* a reconciliation run on one private thread and count as one turn.
Private == {"alignment", "reconciliation"}
HasCheckpoint(s) == s \notin {"review", "rewrite"}
On(s)   == IF s \in Private THEN "auxiliary" ELSE "reviewer"
Gens    == 1 .. MaxFaults + 2
Turn    == [by : Managers, gen : Gens, att : 1 .. MaxAttempts, on : {"reviewer", "auxiliary"}]

Retry  == [kind : {"none", "continue", "cleanup"}, intr : {"none", "reviewer", "auxiliary"},
           by : Managers \cup {Nobody}, gen : {0} \cup Gens]
NoRetry == [kind |-> "none", intr |-> "none", by |-> Nobody, gen |-> 0]
Record == [phase : Phases, proc : {"none", "running", "waiting", "failed", "completed", "cancelled"},
           retry : Retry, reason : {"none", "unavailable", "conflict"}, attempt : 0 .. MaxAttempts,
           cycles : 0 .. MaxReviewCycles, contract : 0 .. 2, ev : 0 .. MaxEdits + 1,
           seen : 0 .. MaxEdits + 1, same : 0 .. MaxReviewCycles]
NewRecord == [phase |-> "executing", proc |-> "none", retry |-> NoRetry, reason |-> "none",
              attempt |-> 0, cycles |-> 0, contract |-> 0, ev |-> 0, seen |-> 0, same |-> 0]
Run    == [att : 0 .. MaxAttempts, prior : {"executing", "fixing"}, ev : 0 .. MaxEdits + 1, step : Steps,
           auto : 0 .. 1, gen : {0} \cup Gens, intr : {"none", "reviewer", "auxiliary"},
           igen : {0} \cup Gens, term : BOOLEAN]
NoRun  == [att |-> 0, prior |-> "executing", ev |-> 0, step |-> "review", auto |-> 0, gen |-> 0,
           intr |-> "none", igen |-> 0, term |-> FALSE]
Flight == [pc : {"none", "lease", "prepare", "confirm", "claim", "retire", "verify", "acknowledge",
                 "cleanup", "enter", "evidence", "create", "stage", "turn", "retry", "final", "commit",
                 "catch", "finally"},
           exist : BOOLEAN, run : Run, thread : {"none", "unbound", "bound"},
           hold : BOOLEAN, keep : BOOLEAN, abort : BOOLEAN, scope : Record, read : 0 .. MaxEdits + 1,
           err : {"none", "recoverable", "spent", "interrupted", "rejected", "evidence", "fatal"}]
NoFlight == [pc |-> "none", exist |-> FALSE, run |-> NoRun, thread |-> "none",
             hold |-> FALSE, keep |-> FALSE, abort |-> FALSE, scope |-> NewRecord, read |-> 0,
             err |-> "none"]

TypeOK ==
  /\ rec \in Record /\ ws \in 1 .. MaxEdits + 1 /\ lease \in Managers \cup {Nobody}
  /\ guard \in [by : Managers \cup {Nobody}, gen : {0} \cup Gens, held : BOOLEAN]
  /\ alive \in [Managers -> {"up", "stopped", "dead"}] /\ gen \in [Managers -> Gens]
  /\ down \subseteq Managers /\ live \subseteq Turn
  /\ flight \in [Managers -> Flight] /\ recov \in [Managers -> Run]
  /\ aux \in [Managers -> SUBSET Turn] /\ pins \in [Managers -> Nat]
  /\ orphans \in [Managers -> Nat] /\ taken \subseteq Managers /\ autos \in Nat
  /\ deciding \in BOOLEAN /\ faults \in 0 .. MaxFaults

Init ==
  /\ rec = NewRecord /\ ws = 1 /\ lease = Nobody /\ guard = [by |-> Nobody, gen |-> 0, held |-> FALSE]
  /\ alive = [m \in Managers |-> "up"] /\ gen = [m \in Managers |-> 1] /\ down = {} /\ live = {}
  /\ flight = [m \in Managers |-> NoFlight] /\ recov = [m \in Managers |-> NoRun]
  /\ aux = [m \in Managers |-> {}] /\ pins = [m \in Managers |-> 0]
  /\ orphans = [m \in Managers |-> 0] /\ taken = {} /\ autos = 0 /\ deciding = FALSE
  /\ faults = 0

----------------------------------------------------------------------------
Fault == faults < MaxFaults /\ faults' = faults + 1
NoFault == UNCHANGED faults
Bit(b) == IF b THEN 1 ELSE 0
At(m, s) == flight[m].pc = s
Go(m, f) == flight' = [flight EXCEPT ![m] = f]
To(m, s) == Go(m, [flight[m] EXCEPT !.pc = s])
Throw(m, e) == Go(m, [flight[m] EXCEPT !.pc = "catch", !.err = e])
Pin(m, n) == pins' = [pins EXCEPT ![m] = @ + n]
Unpin(m, n) == pins' = [pins EXCEPT ![m] = @ - n]

\* originalThreadAvailable; originalProcessTreeExited.
Available(m, g) == alive[m] # "dead" /\ gen[m] = g /\ m \notin down
Exited(m, g) == gen[m] > g
CanConfirm(m, g) == Available(m, g) \/ Exited(m, g)

\* throwIfAborted, isStopping. (Mutant of Able: a write is not fenced by the lease.)
Running(m) == alive[m] = "up" /\ ~flight[m].abort

\* The run goes on, and the lease admits its next write.
Able(m) == Running(m) /\ lease = m

\* ownsAttempt: the record is still in this attempt of the review, whose evidence
\* no other attempt writes.
Owns(m) == rec.phase = "reviewing" /\ rec.attempt = flight[m].run.att

\* assertReviewerRecovery: the record still waits for this run.
Recovers(r) == rec.attempt = r.att /\ rec.phase = r.prior /\ rec.proc = "waiting" /\ rec.retry.kind # "none"

AuxiliaryEnded(m) == aux[m] = {} \/ HasCheckpoint(recov[m].step)
NeedsPreparation == (rec.proc = "waiting" /\ rec.retry.kind # "none") \/ rec.reason # "none"
Startable == rec.phase \in {"executing", "fixing"} /\ rec.cycles < MaxReviewCycles

\* The call ends: its flight is removed and its lease released.
Release(m) == lease' = IF lease = m THEN Nobody ELSE lease
End(m) == Go(m, NoFlight) /\ Release(m)

\* TerminalCleanupGuard: an unconfirmed row yields only to the proven exit of the
\* process tree it was taken for, whoever asks and however old its lease is.
GuardClear == guard.held => Exited(guard.by, guard.gen)
Confirmed(g) == [g EXCEPT !.held = FALSE]
GuardedFor(r, m) == [by |-> m, gen |-> r.igen, held |-> TRUE]

\* The exact turn of an interrupted run.
TurnOf(m, r) == {t \in live : t.by = m /\ t.gen = r.igen /\ t.att = r.att /\ t.on = r.intr}

\* Mutant: the record waits, the run is not kept.
SetNothing(m, r) == UNCHANGED <<recov, orphans>>

\* setRecoverableRun, which replaces whatever run was there.
SetRun(m, r) ==
  /\ recov' = [recov EXCEPT ![m] = r]
  /\ orphans' = [orphans EXCEPT ![m] = @ + Bit(recov[m] # NoRun)]

----------------------------------------------------------------------------
(* Admission: admitReview up to its lease, and what it does under the lease. *)
Request(m) ==
  /\ alive[m] = "up" /\ At(m, "none") /\ rec.attempt < MaxAttempts
  /\ rec.phase # "cancelled" /\ GuardClear /\ AuxiliaryEnded(m)
  /\ guard' = Confirmed(guard)
  /\ Go(m, [NoFlight EXCEPT !.pc = "lease", !.scope.attempt = rec.attempt])
  /\ NoFault /\ UNCHANGED <<rec, ws, lease, sysVars, live, recov, aux, pins, ghostVars>>

Acquire(m) ==
  /\ At(m, "lease")
  /\ IF /\ lease = Nobody /\ alive[m] = "up" /\ ~flight[m].abort
        /\ rec.phase # "cancelled" /\ rec.attempt = flight[m].scope.attempt
        /\ AuxiliaryEnded(m) /\ (NeedsPreparation \/ Startable)
     THEN /\ lease' = m
          /\ Go(m, [flight[m] EXCEPT !.pc = IF NeedsPreparation THEN "prepare" ELSE "enter",
                                     !.scope = rec])
     ELSE End(m)
  /\ NoFault /\ UNCHANGED <<rec, ws, guard, sysVars, live, recov, aux, pins, ghostVars>>

CleanupConfirmed == ~(guard.held /\ guard.by = rec.retry.by /\ guard.gen = rec.retry.gen)
CanContinue(m) == /\ rec.phase # "cancelled" /\ recov[m] # NoRun /\ ~recov[m].term
                  /\ Recovers(recov[m]) /\ Available(m, recov[m].gen)

\* A waiting or failed review may be replaced: nothing of it awaits cleanup, and
\* an interrupted turn of another process is over with that process.
Replaceable(m) ==
  /\ rec.phase \in {"executing", "fixing"}
  /\ (rec.proc = "waiting" /\ rec.retry.kind # "none") \/ (rec.proc = "failed" /\ rec.reason # "none")
  /\ ~recov[m].term /\ (rec.retry.kind = "cleanup" => CleanupConfirmed)
  /\ recov[m] # NoRun => Recovers(recov[m])
  /\ (recov[m].intr = "none" /\ rec.retry.intr # "none")
       => (rec.retry.kind = "cleanup" \/ Exited(rec.retry.by, rec.retry.gen))

\* prepareNewReviewAfterWorkspaceChange: unchanged evidence continues the
\* original run unless a separate round was asked for.
Prepare(m, fresh) ==
  LET baseline == IF recov[m] # NoRun THEN recov[m].ev ELSE rec.ev
      replace  == fresh \/ (baseline # 0 /\ baseline # ws)
  IN
  /\ At(m, "prepare")
  /\ \/ /\ NoFault
        /\ CASE Able(m) /\ Replaceable(m) /\ replace ->
                  Go(m, [flight[m] EXCEPT !.pc = "confirm", !.scope = rec]) /\ UNCHANGED lease
             [] Able(m) /\ Replaceable(m) /\ ~replace /\ rec.reason = "none" /\ CanContinue(m) ->
                  To(m, "verify") /\ UNCHANGED lease
             [] OTHER -> End(m)
     \/ ~fresh /\ Fault /\ End(m)
  /\ UNCHANGED <<rec, ws, guard, sysVars, live, recov, aux, pins, ghostVars>>

\* Mutant: the old turn is not confirmed ended before the new round.
SkipConfirm(m) ==
  /\ At(m, "confirm") /\ To(m, "claim")
  /\ NoFault
  /\ UNCHANGED <<rec, ws, lease, guard, sysVars, live, recov, aux, pins, ghostVars>>

\* The turns of the old run are confirmed ended, or the call ends.
ConfirmOld(m) ==
  LET r == recov[m]
      S == IF r.intr = "reviewer" THEN TurnOf(m, r) ELSE {}
      A == IF r # NoRun THEN aux[m] ELSE {}
      can == /\ r.intr = "reviewer" => CanConfirm(m, r.igen)
             /\ \A t \in A : CanConfirm(m, t.gen)
  IN
  /\ At(m, "confirm")
  /\ \/ /\ lease = m /\ can /\ To(m, "claim") /\ NoFault
        /\ live' = live \ (S \cup A) /\ aux' = [aux EXCEPT ![m] = @ \ A] /\ Unpin(m, Cardinality(A))
        /\ UNCHANGED lease
     \/ /\ IF can /\ lease = m THEN r.intr # "none" /\ Fault ELSE NoFault
        /\ End(m) /\ UNCHANGED <<live, aux, pins>>
  /\ UNCHANGED <<rec, ws, guard, sysVars, recov, ghostVars>>

\* The old run is taken out of the map, then the record is cleared for a round.
Claim(m) ==
  LET had == recov[m] # NoRun
      cleared == [rec EXCEPT !.retry = NoRetry, !.reason = "none", !.proc = "none"] IN
  /\ At(m, "claim")
  /\ IF alive[m] # "up" \/ flight[m].abort \/ rec # flight[m].scope
     THEN End(m) /\ UNCHANGED <<rec, recov, pins, taken>>
     ELSE /\ recov' = [recov EXCEPT ![m] = NoRun]
          /\ IF lease = m
             THEN /\ rec' = cleared
                  /\ Go(m, [flight[m] EXCEPT !.pc = "retire", !.scope = cleared, !.hold = had])
                  /\ taken' = taken \cup {n \in Managers \ {m} : recov[n] # NoRun}
                  /\ UNCHANGED <<lease, pins>>
             ELSE /\ End(m) /\ Unpin(m, Bit(had)) /\ UNCHANGED rec
                  /\ taken' = IF had THEN taken \cup {m} ELSE taken
  /\ NoFault /\ UNCHANGED <<ws, guard, sysVars, live, aux, orphans, autos>>

Retire(m) ==
  /\ At(m, "retire") /\ Unpin(m, Bit(flight[m].hold))
  /\ IF Able(m) /\ rec = flight[m].scope /\ Startable
     THEN Go(m, [flight[m] EXCEPT !.pc = "enter", !.hold = FALSE]) /\ UNCHANGED lease
     ELSE End(m)
  /\ NoFault /\ UNCHANGED <<rec, ws, guard, sysVars, live, recov, aux, ghostVars>>

----------------------------------------------------------------------------
(* The continuation of a waiting run: WorkflowManager.resume, resume.        *)
Resume(m) ==
  /\ alive[m] = "up" /\ At(m, "none") /\ lease = Nobody /\ recov[m] # NoRun
  /\ \/ recov[m].term /\ Go(m, [NoFlight EXCEPT !.pc = "cleanup"])
     \/ CanContinue(m) /\ rec.attempt < MaxAttempts /\ Go(m, [NoFlight EXCEPT !.pc = "verify"])
  /\ lease' = m
  /\ NoFault /\ UNCHANGED <<rec, ws, guard, sysVars, live, recov, aux, pins, ghostVars>>

\* Mutant: the spent continuation is not carried into the next run.
TakeUpAfresh(m, r) ==
  /\ recov' = [recov EXCEPT ![m] = NoRun]
  /\ Go(m, [flight[m] EXCEPT !.pc = "enter", !.exist = TRUE, !.hold = TRUE, !.thread = "bound",
                             !.run = [r EXCEPT !.intr = "none", !.igen = 0, !.auto = 0], !.scope = rec'])

\* The run leaves the map and this call owns its thread, its child and its round.
TakeUp(m, r) ==
  /\ recov' = [recov EXCEPT ![m] = NoRun]
  /\ Go(m, [flight[m] EXCEPT !.pc = "enter", !.exist = TRUE, !.hold = TRUE, !.thread = "bound",
                             !.run = [r EXCEPT !.intr = "none", !.igen = 0], !.scope = rec'])

StillWaits(m) == alive[m] = "up" /\ recov[m] # NoRun /\ Recovers(recov[m])

\* A completed review is continued on the evidence it has seen only.
Verify(m) ==
  LET r == recov[m] IN
  /\ At(m, "verify")
  /\ \/ /\ NoFault /\ UNCHANGED rec
        /\ CASE ~StillWaits(m) \/ flight[m].abort \/ (HasCheckpoint(r.step) /\ ws # r.ev) ->
                  End(m) /\ UNCHANGED recov
             [] OTHER -> /\ UNCHANGED lease
                         /\ IF r.intr # "none" THEN To(m, "acknowledge") /\ UNCHANGED recov
                            ELSE TakeUp(m, r)
     \/ /\ Fault /\ HasCheckpoint(r.step) /\ End(m) /\ UNCHANGED <<rec, recov>>
  /\ UNCHANGED <<ws, guard, sysVars, live, aux, pins, ghostVars>>

\* The interrupted turn must be confirmed ended before the thread is used again.
Acknowledge(m) ==
  LET r == recov[m]
      S == TurnOf(m, r)
      A == aux[m] \cap S
      can == IF r.intr = "reviewer" THEN Available(m, r.igen) ELSE A = {} \/ CanConfirm(m, r.igen)
  IN
  /\ At(m, "acknowledge")
  /\ \/ /\ lease = m /\ recov[m] # NoRun /\ can /\ NoFault
        /\ live' = live \ S /\ aux' = [aux EXCEPT ![m] = @ \ S] /\ Unpin(m, Cardinality(A))
        /\ IF StillWaits(m)
           THEN rec' = [rec EXCEPT !.retry = [@ EXCEPT !.intr = "none", !.by = Nobody, !.gen = 0]]
                /\ TakeUp(m, r) /\ UNCHANGED lease
           ELSE End(m) /\ UNCHANGED <<rec, recov>>
     \/ /\ IF lease = m /\ recov[m] # NoRun /\ can THEN Fault ELSE NoFault
        /\ End(m) /\ UNCHANGED <<rec, live, recov, aux, pins>>
  /\ UNCHANGED <<ws, guard, sysVars, ghostVars>>

\* The record of a run whose terminal cleanup is confirmed.
Terminated(r, R) ==
  CASE R.phase = "cancelled" -> [R EXCEPT !.retry = NoRetry]
    [] R.attempt = r.att /\ R.phase = r.prior /\ R.proc = "waiting" /\ R.retry.kind = "cleanup" ->
         [R EXCEPT !.proc = "failed", !.retry = NoRetry, !.reason = "unavailable"]
    [] OTHER -> R

\* finishTerminalCleanup: the terminated run is released, never continued.
FinishCleanup(m) ==
  LET r == recov[m] IN
  /\ At(m, "cleanup")
  /\ \/ /\ r.term /\ CanConfirm(m, r.igen) /\ NoFault
        /\ live' = live \ TurnOf(m, r) /\ recov' = [recov EXCEPT ![m] = NoRun]
        /\ guard' = IF guard = GuardedFor(r, m) THEN Confirmed(guard) ELSE guard
        /\ rec' = IF rec.phase # "cancelled" /\ Able(m) THEN Terminated(r, rec) ELSE rec
        /\ Unpin(m, 1)
     \/ /\ IF r.term /\ CanConfirm(m, r.igen) THEN Fault ELSE NoFault
        /\ UNCHANGED <<rec, live, recov, guard, pins>>
  /\ End(m) /\ UNCHANGED <<ws, sysVars, aux, ghostVars>>

----------------------------------------------------------------------------
(* A run: entry, evidence, thread.                                           *)
Begin(m) ==
  LET f == flight[m]
      n == rec.attempt + 1
      prior == IF f.scope.phase = "fixing" THEN "fixing" ELSE "executing"
  IN
  /\ At(m, "enter") /\ Able(m)
  /\ rec.phase = f.scope.phase /\ rec.attempt = f.scope.attempt /\ (f.exist => Recovers(f.run))
  /\ rec' = [rec EXCEPT !.phase = "reviewing", !.proc = "running", !.retry = NoRetry, !.attempt = n]
  /\ Go(m, [f EXCEPT !.pc = "evidence", !.hold = TRUE, !.run.att = n, !.run.prior = prior,
                      !.scope = NewRecord])
  /\ Pin(m, Bit(~f.exist)) /\ autos' = IF f.exist THEN autos ELSE 0
  /\ NoFault /\ UNCHANGED <<ws, lease, guard, sysVars, live, recov, aux, orphans, taken>>

\* No model has started: an unstarted continuation keeps its waiting round.
StartupFails(m) ==
  LET f == flight[m]
      begins == /\ Able(m) /\ rec.phase = f.scope.phase /\ rec.attempt = f.scope.attempt
                /\ f.exist => Recovers(f.run)
      restores == /\ f.exist /\ alive[m] = "up" /\ rec.phase # "cancelled" /\ rec.proc = "waiting"
                  /\ Available(m, f.run.gen) /\ recov[m] = NoRun
      mine == /\ rec.phase = f.scope.phase /\ rec.attempt = f.scope.attempt
              /\ rec.phase # "cancelled" /\ lease = m
  IN
  /\ At(m, "enter") /\ IF begins THEN ~f.exist /\ Fault ELSE NoFault
  /\ IF restores
     THEN recov' = [recov EXCEPT ![m] = f.run] /\ UNCHANGED <<rec, pins>>
     ELSE /\ Unpin(m, Bit(f.hold)) /\ UNCHANGED recov
          /\ rec' = IF mine THEN [rec EXCEPT !.proc = "failed", !.retry = NoRetry] ELSE rec
  /\ taken' = IF f.exist /\ (IF restores THEN ~Recovers(f.run) ELSE ~mine) THEN taken \cup {m} ELSE taken
  /\ End(m) /\ UNCHANGED <<ws, guard, sysVars, live, aux, orphans, autos>>

\* A continuation reviews the evidence of its interrupted round, nothing newer.
Evidence(m) ==
  LET f == flight[m] IN
  /\ At(m, "evidence")
  /\ \/ /\ NoFault
        /\ IF Able(m) /\ Owns(m) /\ (f.exist => f.run.ev = ws)
           THEN /\ rec' = [rec EXCEPT !.ev = ws]
                /\ Go(m, [f EXCEPT !.run.ev = ws, !.pc = IF f.exist THEN "stage" ELSE "create"])
           ELSE Throw(m, "fatal") /\ UNCHANGED rec
     \/ Fault /\ Throw(m, "fatal") /\ UNCHANGED rec
  /\ UNCHANGED <<ws, lease, guard, sysVars, live, recov, aux, pins, ghostVars>>

CanCreate(m) == Running(m) /\ m \notin down

\* The Reviewer's thread is created and bound, or released unbound.
Create(m) ==
  LET f == flight[m] IN
  /\ At(m, "create")
  /\ \/ /\ CanCreate(m) /\ NoFault
        /\ IF Able(m) /\ Owns(m)
           THEN Go(m, [f EXCEPT !.pc = "stage", !.thread = "bound", !.run.gen = gen[m]])
           ELSE Go(m, [f EXCEPT !.pc = "catch", !.err = "fatal", !.thread = "unbound", !.run.gen = gen[m]])
     \/ /\ IF CanCreate(m) THEN Fault ELSE NoFault
        /\ Throw(m, "fatal")
  /\ UNCHANGED <<rec, ws, lease, guard, sysVars, live, recov, aux, pins, ghostVars>>

----------------------------------------------------------------------------
(* The turns. A visible turn needs the original thread, a private one a new  *)
(* thread and a round of its own; every turn but a continued review follows  *)
(* a progress write.                                                         *)
MyTurn(m) == [by |-> m, gen |-> flight[m].run.igen, att |-> flight[m].run.att, on |-> On(flight[m].run.step)]
MyPin(m)  == Bit(flight[m].run.step \in Private)

\* A progress write precedes every turn but the review itself, and is fenced.
Progress(m) == flight[m].run.step # "review" => lease = m

StartTurn(m) ==
  LET f == flight[m]
      private == f.run.step \in Private
      ready == /\ Running(m) /\ Progress(m)
               /\ IF private THEN Owns(m) /\ aux[m] = {} /\ m \notin down ELSE Available(m, f.run.gen)
  IN
  /\ At(m, "stage") /\ NoFault
  /\ IF ready
     THEN /\ live' = live \cup {[by |-> m, gen |-> gen[m], att |-> f.run.att, on |-> On(f.run.step)]}
          /\ Go(m, [f EXCEPT !.pc = "turn", !.run.igen = gen[m]]) /\ Pin(m, Bit(private))
     ELSE /\ \/ Throw(m, "fatal")
             \/ f.run.step = "conversion" /\ Able(m) /\ Go(m, [f EXCEPT !.pc = "retry", !.err = "recoverable"])
          /\ UNCHANGED <<live, pins>>
  /\ UNCHANGED <<rec, ws, lease, guard, sysVars, recov, aux, ghostVars>>

\* What follows a usable answer: a display rewrite, the conversion, the alignment
\* and, on a conflict, one reconciliation.
Next_(s) == CASE s = "review" -> {"rewrite", "conversion"}  [] s = "rewrite" -> {"conversion"}
              [] s = "conversion" -> {"alignment"}           [] s = "alignment" -> {"applied", "reconciliation"}
              [] OTHER -> {"applied", "conflict"}

\* The turn is over, and with it the round of a private thread.
Ended(m) ==
  /\ At(m, "turn") /\ Available(m, flight[m].run.igen) /\ NoFault
  /\ live' = live \ {MyTurn(m)} /\ Unpin(m, MyPin(m))
  /\ UNCHANGED <<rec, ws, lease, guard, sysVars, recov, aux, ghostVars>>

TurnDone(m) ==
  LET f == [flight[m] EXCEPT !.run.igen = 0] IN
  /\ Ended(m)
  /\ CASE rec.phase = "cancelled" -> Go(m, [f EXCEPT !.pc = "finally"])
       [] rec.phase # "cancelled" /\ Able(m) /\ Owns(m) ->
            \E n \in Next_(f.run.step) :
              Go(m, [f EXCEPT !.run.step = n, !.pc = IF n \in {"applied", "conflict"} THEN "final" ELSE "stage"])
       [] OTHER -> Go(m, [f EXCEPT !.pc = "catch", !.err = "fatal"])

\* The model fails: the rewrite has no continuation, nor has an unusable answer.
TurnFails(m) ==
  LET f == [flight[m] EXCEPT !.run.igen = 0] IN
  /\ Ended(m)
  /\ \/ Go(m, [f EXCEPT !.pc = "catch", !.err = "fatal"])
     \/ f.run.step # "rewrite" /\ Go(m, [f EXCEPT !.pc = "retry", !.err = "recoverable"])

\* The wait is given up and the turn's end is not confirmed: it may still run, and
\* a private turn keeps its round. A cleanup-only failure is never continued.
TurnInterrupted(m) ==
  LET f == [flight[m] EXCEPT !.run.intr = On(flight[m].run.step)] IN
  /\ At(m, "turn") /\ Fault
  /\ aux' = IF f.run.step \in Private THEN [aux EXCEPT ![m] = @ \cup {MyTurn(m)}] ELSE aux
  /\ \/ Go(m, [f EXCEPT !.pc = IF f.run.step = "rewrite" THEN "catch" ELSE "retry", !.err = "interrupted"])
     \/ Go(m, [f EXCEPT !.pc = "catch", !.err = "rejected"])
  /\ UNCHANGED <<rec, ws, lease, guard, sysVars, live, recov, pins, ghostVars>>

\* The wait of an aborted call interrupts its turn.
TurnAborted(m) ==
  /\ ~Running(m) /\ Ended(m)
  /\ Go(m, [flight[m] EXCEPT !.run.igen = 0, !.pc = "catch", !.err = "fatal"])

\* The App Server is lost: its turns fail, and end when its process tree is gone.
TurnLost(m) ==
  LET f == [flight[m] EXCEPT !.run.igen = 0] IN
  /\ At(m, "turn") /\ ~Available(m, flight[m].run.igen) /\ NoFault /\ Unpin(m, MyPin(m))
  /\ \/ Go(m, [f EXCEPT !.pc = "catch", !.err = "fatal"])
     \/ f.run.step # "rewrite" /\ Go(m, [f EXCEPT !.pc = "retry", !.err = "recoverable"])
  /\ UNCHANGED <<rec, ws, lease, guard, sysVars, live, recov, aux, ghostVars>>

----------------------------------------------------------------------------
(* One automatic continuation belongs to the whole business round.           *)
\* The interrupted turn of a completed review is confirmed ended, or it waits.
ConfirmStage(m) ==
  LET f == flight[m]
      t == [MyTurn(m) EXCEPT !.on = f.run.intr]
      can == IF f.run.intr = "reviewer" THEN Available(m, f.run.igen) ELSE CanConfirm(m, f.run.igen)
  IN
  /\ At(m, "retry") /\ f.err = "interrupted" /\ HasCheckpoint(f.run.step) /\ Running(m)
  /\ \/ /\ can /\ lease = m /\ NoFault
        /\ live' = live \ {t} /\ aux' = [aux EXCEPT ![m] = @ \ {t}] /\ Unpin(m, Cardinality(aux[m] \cap {t}))
        /\ Go(m, [f EXCEPT !.err = "recoverable", !.run.intr = "none", !.run.igen = 0])
     \/ /\ IF can /\ lease = m THEN Fault ELSE NoFault
        /\ To(m, "catch") /\ UNCHANGED <<live, aux, pins>>
  /\ UNCHANGED <<rec, ws, lease, guard, sysVars, recov, ghostVars>>

Again(m) ==
  /\ Go(m, [flight[m] EXCEPT !.pc = "stage", !.err = "none", !.run.auto = 1]) /\ autos' = autos + 1

\* A completed review goes on from its checkpoint, on unchanged evidence only.
RetryTurn(m) ==
  LET f == flight[m] IN
  /\ At(m, "retry") /\ UNCHANGED <<rec, ws, lease, guard, sysVars, live, recov, aux, pins, orphans, taken>>
  /\ \/ /\ ~Running(m) \/ (f.err = "interrupted" /\ ~HasCheckpoint(f.run.step))
        /\ To(m, "catch") /\ NoFault /\ UNCHANGED autos
     \/ /\ Running(m) /\ f.err = "recoverable"
        /\ CASE ~Owns(m) -> Throw(m, "fatal") /\ NoFault /\ UNCHANGED autos
             [] Owns(m) /\ ~HasCheckpoint(f.run.step) ->
                  /\ NoFault
                  /\ IF f.run.auto = 0 THEN Again(m) ELSE Throw(m, "spent") /\ UNCHANGED autos
             [] OTHER ->
                  IF f.run.auto = 1 \/ ~Available(m, f.run.gen)
                  THEN To(m, "catch") /\ NoFault /\ UNCHANGED autos
                  ELSE \/ /\ NoFault /\ IF ws = f.run.ev THEN Again(m) ELSE Throw(m, "fatal") /\ UNCHANGED autos
                       \/ Fault /\ Throw(m, "evidence") /\ UNCHANGED autos

----------------------------------------------------------------------------
(* The acceptance of a verdict: the last scan, then the commit.              *)
Final(m) ==
  LET f == flight[m] IN
  /\ At(m, "final")
  /\ \/ /\ NoFault
        /\ CASE rec.phase = "cancelled" -> To(m, "finally")
             [] rec.phase # "cancelled" /\ Running(m) /\ Owns(m) /\ ws = f.run.ev ->
                  Go(m, [f EXCEPT !.pc = "commit", !.read = ws])
             [] OTHER -> Throw(m, "fatal")
     \/ Fault /\ Throw(m, "evidence")
  /\ UNCHANGED <<rec, ws, lease, guard, sysVars, live, recov, aux, pins, ghostVars>>

\* Two consecutive rounds without an aligned verdict block the workflow.
Conflicted(m) ==
  LET n == rec.contract + 1 IN
  [rec EXCEPT !.contract = n, !.reason = "conflict", !.phase = IF n >= 2 THEN "blocked" ELSE flight[m].run.prior,
              !.proc = IF n >= 2 THEN "completed" ELSE "failed"]

\* trackNoChange: consecutive verdicts on the same evidence.
Tracked(m) == IF rec.seen = flight[m].run.ev THEN rec.same + 1 ELSE 0

\* computeReviewOutcome: a verdict with blocking findings asks for fixes until a
\* limit is reached; optional findings are the user's to decide.
Applied(m, verdict) ==
  LET base == [rec EXCEPT !.cycles = @ + 1, !.contract = 0, !.reason = "none", !.retry = NoRetry,
                          !.proc = "completed", !.seen = flight[m].run.ev, !.same = Tracked(m)]
      limit == base.same >= MaxNoChangeReviewRounds \/ base.cycles >= MaxReviewCycles
  IN CASE verdict = "pass"     -> [base EXCEPT !.phase = "passed", !.same = 0]
       [] verdict = "optional" -> [base EXCEPT !.phase = "waiting_review_decision", !.same = 0]
       [] OTHER -> [base EXCEPT !.phase = IF limit THEN "blocked" ELSE "fixing"]

Commit(m) ==
  /\ At(m, "commit") /\ NoFault
  /\ IF Able(m) /\ Owns(m)
     THEN /\ To(m, "finally")
          /\ IF flight[m].run.step = "conflict" THEN rec' = Conflicted(m)
             ELSE \E verdict \in {"pass", "optional", "blocking"} : rec' = Applied(m, verdict)
     ELSE Throw(m, "fatal") /\ UNCHANGED rec
  /\ UNCHANGED <<ws, lease, guard, sysVars, live, recov, aux, pins, ghostVars>>

----------------------------------------------------------------------------
(* The catch of a run: the exact run is retained for its cleanup or for its  *)
(* continuation, or the workflow returns to its retryable phase.             *)
Retained(m, r) == [kind |-> IF r.term THEN "cleanup" ELSE "continue", intr |-> r.intr,
                   by |-> IF r.intr = "none" THEN Nobody ELSE m, gen |-> r.igen]
WaitingRecord(m, r) == [rec EXCEPT !.phase = r.prior, !.proc = "waiting", !.retry = Retained(m, r), !.reason = "none"]
Keep(m, r) == SetRun(m, r) /\ Go(m, [flight[m] EXCEPT !.pc = "finally", !.keep = TRUE, !.hold = FALSE])

\* An unconfirmed terminated turn: retained and guarded before it is advertised.
CatchRejected(m) ==
  LET r == [flight[m].run EXCEPT !.term = TRUE] IN
  /\ At(m, "catch") /\ flight[m].err = "rejected" /\ Keep(m, r)
  /\ guard' = GuardedFor(r, m)
  /\ rec' = IF Owns(m) /\ alive[m] = "up" /\ lease = m THEN WaitingRecord(m, r) ELSE rec
  /\ NoFault /\ UNCHANGED <<ws, lease, sysVars, live, aux, pins, taken, autos>>

\* The failures after which waitForContinuation is called, and when it succeeds.
Waits(m) ==
  LET f == flight[m] IN
  /\ f.thread # "none" /\ alive[m] = "up" /\ Owns(m)
  /\ \/ f.err = "interrupted" /\ f.run.intr = "reviewer"
     \/ HasCheckpoint(f.run.step) /\ f.err \in {"recoverable", "evidence", "interrupted"}
     \/ f.err = "spent" /\ Available(m, f.run.gen)
     \/ f.err # "interrupted" /\ f.abort
Resumable(m) == \/ Available(m, flight[m].run.gen) \/ flight[m].run.intr = "reviewer"
                \/ HasCheckpoint(flight[m].run.step)

CatchWait(m) ==
  /\ At(m, "catch") /\ flight[m].err # "rejected" /\ Waits(m)
  /\ IF lease = m /\ Resumable(m)
     THEN rec' = WaitingRecord(m, flight[m].run) /\ Keep(m, flight[m].run)
     ELSE To(m, "finally") /\ UNCHANGED <<rec, recov, orphans>>
  /\ NoFault /\ UNCHANGED <<ws, lease, guard, sysVars, live, aux, pins, taken, autos>>

CatchFails(m) ==
  /\ At(m, "catch") /\ flight[m].err # "rejected" /\ ~Waits(m) /\ To(m, "finally")
  /\ rec' = IF Owns(m) /\ lease = m
            THEN [rec EXCEPT !.phase = flight[m].run.prior, !.proc = "failed", !.retry = NoRetry,
                             !.reason = IF flight[m].thread = "bound" THEN "unavailable" ELSE @]
            ELSE rec
  /\ NoFault /\ UNCHANGED <<ws, lease, guard, sysVars, live, recov, aux, pins, ghostVars>>

\* What the end of the observation makes of a record that still runs.
Observed(R) ==
  [R EXCEPT !.proc = IF R.phase \in {"reviewing", "executing", "fixing"} THEN "failed" ELSE "completed"]

\* The finally: what is not retained is given up, the observation is closed.
Finally(m) ==
  LET f == flight[m] IN
  /\ At(m, "finally") /\ End(m)
  /\ IF f.keep THEN UNCHANGED <<recov, pins, orphans>>
     ELSE /\ recov' = [recov EXCEPT ![m] = NoRun] /\ Unpin(m, Bit(f.hold))
          /\ orphans' = [orphans EXCEPT ![m] = @ + Bit(recov[m] # NoRun)]
  /\ rec' = IF rec.proc = "running" /\ rec.attempt = f.run.att /\ lease = m THEN Observed(rec) ELSE rec
  /\ NoFault /\ UNCHANGED <<ws, guard, sysVars, live, aux, taken, autos>>

----------------------------------------------------------------------------
(* Cancel and stop: takeRetainedRun, cleanupTerminalRun, cleanupAuxiliary-   *)
(* Turns. With ok FALSE no interrupt and no exit can be confirmed.           *)
Over(m, ok) == recov[m].term /\ ok /\ CanConfirm(m, recov[m].igen)
Teardown(m, ok) ==
  LET r == recov[m]
      takes == (r # NoRun /\ ~r.term) \/ Over(m, ok)
      turn == IF ok /\ (Over(m, ok) \/ (~r.term /\ r.intr = "reviewer" /\ Available(m, r.igen)))
              THEN TurnOf(m, r) ELSE {}
      A == {t \in aux[m] : ok /\ CanConfirm(m, t.gen)}
  IN
  /\ IF ok THEN NoFault ELSE Fault
  /\ live' = live \ (turn \cup A) /\ aux' = [aux EXCEPT ![m] = @ \ A]
  /\ recov' = IF takes THEN [recov EXCEPT ![m] = NoRun] ELSE recov
  /\ Unpin(m, Bit(takes) + Cardinality(A))
  /\ guard' = IF Over(m, ok) /\ guard = GuardedFor(r, m) THEN Confirmed(guard) ELSE guard

Abort(m) == flight' = IF At(m, "none") THEN flight ELSE [flight EXCEPT ![m].abort = TRUE]

\* codex_workflow_cancel, from whichever manager serves the session; called
\* again, it only cleans what is left.
Cancel(m) ==
  LET cancelled == [rec EXCEPT !.phase = "cancelled", !.proc = "cancelled",
                               !.retry = IF recov[m].term THEN @ ELSE NoRetry] IN
  /\ alive[m] = "up" /\ (rec.phase # "cancelled" \/ recov[m] # NoRun \/ aux[m] # {})
  /\ \E ok \in BOOLEAN :
       Teardown(m, ok) /\ rec' = IF Over(m, ok) THEN Terminated(recov[m], cancelled) ELSE cancelled
  /\ Abort(m) /\ UNCHANGED <<ws, lease, sysVars, ghostVars>>

Stop(m) ==
  /\ alive[m] = "up" /\ alive' = [alive EXCEPT ![m] = "stopped"]
  /\ \A n \in Managers \ {m} : alive[n] = "up"
  /\ \E ok \in BOOLEAN :
       Teardown(m, ok) /\ rec' = IF Over(m, ok) THEN Terminated(recov[m], rec) ELSE rec
  /\ Abort(m) /\ UNCHANGED <<ws, lease, gen, down, deciding, ghostVars>>

\* A flight may have parked a run just as the teardown began; stop is retried.
Sweep(m) ==
  /\ alive[m] = "stopped" /\ At(m, "none") /\ (recov[m] # NoRun \/ aux[m] # {})
  /\ \E ok \in BOOLEAN :
       Teardown(m, ok) /\ rec' = IF Over(m, ok) THEN Terminated(recov[m], rec) ELSE rec
  /\ UNCHANGED <<ws, lease, sysVars, flight, ghostVars>>

----------------------------------------------------------------------------
(* The environment: processes, leases, callers, the workspace, the user.     *)
Crash(m) ==
  /\ alive[m] # "dead" /\ Fault /\ alive' = [alive EXCEPT ![m] = "dead"] /\ down' = down \cup {m}
  /\ Go(m, NoFlight) /\ recov' = [recov EXCEPT ![m] = NoRun] /\ aux' = [aux EXCEPT ![m] = {}]
  /\ pins' = [pins EXCEPT ![m] = 0] /\ orphans' = [orphans EXCEPT ![m] = 0] /\ taken' = taken \ {m}
  /\ UNCHANGED <<rec, ws, lease, guard, gen, deciding, live, autos>>

ServerLost(m) ==
  /\ alive[m] # "dead" /\ m \notin down /\ Fault /\ down' = down \cup {m}
  /\ UNCHANGED <<rec, ws, lease, guard, alive, gen, deciding, live, flight, recov, aux, pins, ghostVars>>

\* The process tree of a lost App Server is gone, and its turns with it.
TreeGone(m) ==
  /\ m \in down /\ down' = down \ {m} /\ gen' = [gen EXCEPT ![m] = @ + 1]
  /\ live' = {t \in live : t.by # m}
  /\ NoFault /\ UNCHANGED <<rec, ws, lease, guard, alive, deciding, flight, recov, aux, pins, ghostVars>>

Expire ==
  /\ lease # Nobody /\ lease' = Nobody
  /\ IF alive[lease] = "dead" THEN NoFault ELSE Fault
  /\ UNCHANGED <<rec, ws, guard, sysVars, live, flight, recov, aux, pins, ghostVars>>

\* The heartbeat notices the lost lease, or the caller gives the call up.
Aborted(m) ==
  /\ ~At(m, "none") /\ ~flight[m].abort /\ Abort(m)
  /\ IF lease # m /\ ~At(m, "lease") THEN NoFault ELSE Fault
  /\ UNCHANGED <<rec, ws, lease, guard, sysVars, live, recov, aux, pins, ghostVars>>

Edit ==
  /\ ws <= MaxEdits /\ ws' = ws + 1
  /\ rec.attempt < MaxAttempts \/ \E m \in Managers : ~At(m, "none")
  /\ NoFault /\ UNCHANGED <<rec, lease, guard, sysVars, live, flight, recov, aux, pins, ghostVars>>

\* decideInternal reads the record, and its transaction does not read the phase.
DecideRead ==
  /\ rec.phase = "waiting_review_decision" /\ ~deciding /\ deciding' = TRUE
  /\ NoFault
  /\ UNCHANGED <<rec, ws, lease, guard, alive, gen, down, live, flight, recov, aux, pins, ghostVars>>

Decide ==
  /\ deciding /\ deciding' = FALSE
  /\ \E phase \in {"passed", "fixing"} :
       rec' = IF rec.phase = "cancelled" THEN rec ELSE [rec EXCEPT !.phase = phase, !.same = 0]
  /\ NoFault
  /\ UNCHANGED <<ws, lease, guard, alive, gen, down, live, flight, recov, aux, pins, ghostVars>>

----------------------------------------------------------------------------
TurnEnds(m) == TurnDone(m) \/ TurnFails(m) \/ TurnInterrupted(m) \/ TurnAborted(m) \/ TurnLost(m)
Works(m) ==
  \/ Acquire(m) \/ (\E fresh \in BOOLEAN : Prepare(m, fresh)) \/ ConfirmOld(m) \/ Claim(m) \/ Retire(m)
  \/ Verify(m) \/ Acknowledge(m) \/ FinishCleanup(m)
  \/ Begin(m) \/ StartupFails(m) \/ Evidence(m) \/ Create(m)
  \/ StartTurn(m) \/ TurnEnds(m) \/ ConfirmStage(m) \/ RetryTurn(m)
  \/ Final(m) \/ Commit(m) \/ CatchRejected(m) \/ CatchWait(m) \/ CatchFails(m) \/ Finally(m)

Next ==
  \/ \E m \in Managers :
       \/ Request(m) \/ Resume(m) \/ Works(m) \/ Cancel(m) \/ Stop(m) \/ Sweep(m)
       \/ Crash(m) \/ ServerLost(m) \/ TreeGone(m) \/ Aborted(m)
  \/ Expire \/ Edit \/ DecideRead \/ Decide

Spec == Init /\ [][Next]_vars
\* Every await of a run is bounded: turns, requests and scans have timeouts.
LiveSpec == Spec /\ \A m \in Managers : WF_vars(Works(m))

----------------------------------------------------------------------------
(* A round of the App Server's use is held by exactly one owner: the flight, *)
(* a private turn, the waiting run or an unconfirmed private turn.  The only *)
(* rounds that are lost are those of a run another manager's round replaced. *)
OneHolder ==
  \A m \in Managers :
    /\ pins[m] = Bit(flight[m].hold) + Bit(At(m, "turn") /\ flight[m].run.step \in Private /\ flight[m].run.intr = "none")
                 + Bit(recov[m] # NoRun) + Cardinality(aux[m]) + orphans[m]
    /\ orphans[m] > 0 => m \in taken

\* A model turn starts only when no other turn of the workflow may still run on
\* an App Server that is neither lost nor being closed by its stopped manager.
OneTurn == Cardinality({t \in live : t.by \notin down /\ alive[t.by] = "up"}) <= 1

\* A record that advertises a continuation has its run in a manager that lives,
\* unless that manager is gone, its continuation has just claimed the run, or it
\* was given up after the loss of the lease (then only a new round goes on); what
\* awaits a cleanup may also find it confirmed.
WaitingIsResumable ==
  rec.proc = "waiting" /\ rec.retry.kind # "none" =>
    \/ rec.retry.kind = "cleanup" /\ CleanupConfirmed
    \/ \E m \in Managers : \/ alive[m] # "up" \/ m \in taken
                           \/ recov[m] # NoRun /\ recov[m].att = rec.attempt
                           \/ flight[m].exist /\ flight[m].run.att = rec.attempt

\* One automatic continuation belongs to a business round, however often the
\* round is continued, in whatever stage it failed.
OneAutomaticContinuation == autos <= 1

\* No turn is started while a terminated turn of the workflow may still run.
NoTurnBesideUnconfirmed ==
  \A m \in Managers : At(m, "stage") \/ At(m, "create") => GuardClear

\* A review that failed is in a phase from which it can be retried, as long as no
\* manager is stopped or gone.
FailedIsRetryable == (\A m \in Managers : alive[m] = "up") /\ rec.proc = "failed" => rec.phase # "reviewing"

\* A cycle is spent by the holder of the lease, for the attempt that is current, on
\* evidence that is what the attempt began with, after its last turn has ended.
AcceptedAsReviewed ==
  [][rec'.cycles > rec.cycles =>
       \E m \in Managers : /\ lease = m /\ flight[m].run.att = rec.attempt
                           /\ flight[m].read = rec.ev /\ rec.ev = flight[m].run.ev
                           /\ ~\E t \in live : t.by = m /\ t.att = rec.attempt]_vars

\* Every call ends, whatever it meets: a review neither waits nor continues forever.
FlightEnds == \A m \in Managers : ~At(m, "none") ~> At(m, "none")

\* One turn at a time, and none beside a terminated one.
OneReviewTurn == TypeOK /\ OneTurn /\ NoTurnBesideUnconfirmed

\* What waits is held, and by one owner.
WaitingIsHeldOnce == WaitingIsResumable /\ OneHolder
=============================================================================
