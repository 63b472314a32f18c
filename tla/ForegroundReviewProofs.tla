------------------------ MODULE ForegroundReviewProofs ------------------------
(***************************************************************************)
(* Theorems about the foreground Reviewer of one workflow, for any         *)
(* managers, attempts, edits and faults: one turn at a time, none beside   *)
(* a terminated one, one automatic continuation in a round, a waiting run  *)
(* with one holder, and a verdict on the evidence that was reviewed.       *)
(*                                                                         *)
(* The inductive invariant says what the lease of the review is worth to   *)
(* the call that holds it, what a call that writes for the current attempt *)
(* may rely on without looking, and who answers for a turn that may run.   *)
(***************************************************************************)
EXTENDS ForegroundReview, FiniteSetTheorems, TLAPS

\* Where a call has not entered a run, has entered one, and decides by the record.
Before  == {"lease", "prepare", "confirm", "claim", "retire", "verify", "acknowledge", "cleanup"}
Inside  == {"evidence", "create", "stage", "turn", "retry", "final", "commit", "catch"}
Chooses == {"confirm", "claim", "retire", "enter"}
Writing(m) == flight[m].pc \in Inside
NoWriter == \A m \in Managers : ~Writing(m)

\* The turns that count: on an App Server that is neither lost nor closing.
Visible == {t \in live : t.by \notin down /\ alive[t.by] = "up"}
Waiting == rec.proc = "waiting" /\ rec.retry.kind # "none"
Retryable == {"executing", "fixing"}
Ends == {"cancelled", "reviewing"}

\* The record: a round that may go on is within its limits.
RecordOK ==
  /\ rec.phase \in Retryable \cup {"reviewing"} => rec.contract <= 1
  /\ rec.phase = "waiting_review_decision" => rec.contract = 0 /\ rec.proc = "completed"
  /\ rec.same <= rec.cycles
  /\ rec.phase = "reviewing" \/ rec.proc = "waiting" => rec.cycles < MaxReviewCycles
  /\ rec.proc = "waiting" => rec.phase \in Retryable /\ rec.retry.kind # "none" /\ rec.attempt > 0
  /\ deciding => rec.phase \in {"waiting_review_decision", "cancelled"}
  /\ rec.retry.intr # "none" => rec.retry.by \in Managers
  /\ autos <= 1

\* A process is replaced for a fault only; a turn is guarded for a process.
GensOK == /\ \A m \in Managers : gen[m] + Bit(m \in down) <= faults + 1
          /\ guard.held => guard.by \in Managers

\* A call that has not entered a run owns nothing; one that enters owns what it
\* has taken up.
Outside(m) ==
  LET f == flight[m] IN
  /\ f.pc = "none" => f = NoFlight
  /\ f.pc \in Before => f.run = NoRun /\ ~f.exist /\ ~f.keep /\ (f.hold => f.pc = "retire")
  /\ f.pc \in {"lease", "prepare", "confirm", "claim", "retire", "enter"} => f.scope.attempt < MaxAttempts
  /\ f.pc \in Chooses => f.scope.phase \in Retryable
  /\ f.pc \in {"verify", "acknowledge"} => ~recov[m].term /\ (recov[m] # NoRun => recov[m].att < MaxAttempts)
  /\ f.pc = "enter" =>
       /\ f.hold = f.exist /\ ~f.keep /\ (~f.exist => f.run = NoRun)
       /\ f.exist => /\ f.thread = "bound" /\ f.run.att > 0 /\ f.run.att = f.scope.attempt /\ f.run.prior = f.scope.phase
                     /\ ~f.run.term /\ f.run.intr = "none" /\ f.run.igen = 0 /\ recov[m] = NoRun
                     /\ f.run.att = rec.attempt /\ rec.proc = "waiting" =>
                          rec.phase = f.run.prior /\ rec.retry = Retained(m, f.run)

\* What a call inside a run has so far: its thread, its evidence, its turn.
Formed(m) ==
  LET f == flight[m] IN
  /\ f.run.intr # "none" => /\ f.pc \in {"retry", "catch"} /\ f.err \in {"interrupted", "rejected"}
                            /\ f.run.intr = On(f.run.step) /\ f.thread = "bound"
  /\ f.run.igen # 0 <=> f.pc = "turn" \/ f.run.intr # "none"
  /\ f.pc \in {"stage", "turn", "retry", "final", "commit"} => f.thread = "bound"
  /\ f.pc \in {"create", "stage", "turn", "retry", "final", "commit"} => f.run.ev = rec.ev
  /\ f.pc = "commit" => f.read = f.run.ev
  /\ f.pc = "retry" => f.err \in {"recoverable", "interrupted"}
  /\ f.pc = "catch" /\ f.err = "rejected" => f.run.intr # "none"
  /\ f.pc = "evidence" /\ f.exist => f.thread = "bound"
  /\ f.pc = "turn" /\ f.run.step \in Private => aux[m] = {}

\* A call inside a run is about the current attempt, which only a cancel ends.
Within(m) ==
  LET f == flight[m] IN
  /\ Writing(m) =>
       /\ f.hold /\ ~f.keep /\ f.run.att = rec.attempt /\ f.run.att > 0 /\ rec.phase \in Ends
       /\ recov[m].att < f.run.att /\ ~f.run.term /\ (recov[m] = NoRun \/ m \in taken)
       /\ Formed(m)
  /\ f.pc = "finally" => /\ f.hold = ~f.keep /\ f.run.att > 0
                         /\ ~f.keep => recov[m].att < f.run.att /\ (recov[m] = NoRun \/ m \in taken)

\* A waiting run is the one the record waits for, unless it was replaced.
Parked(m) ==
  LET r == recov[m] IN
  /\ r # NoRun => r.att > 0
  /\ r.term => r.intr # "none"
  /\ r.intr # "none" <=> r.igen # 0
  /\ r.intr = "auxiliary" => r.step \in Private
  /\ r # NoRun => \/ m \in taken \/ rec.phase = "cancelled"
                  \/ r.att = rec.attempt /\ (rec.phase = "reviewing" \/ Recovers(r))
  /\ r # NoRun /\ r.att = rec.attempt /\ rec.proc = "waiting" => rec.phase = r.prior /\ rec.retry = Retained(m, r)

\* Nobody else writes the record under the lease: what the holder has read and
\* confirmed is so until it enters its run, but for a cancel or a cleanup.
Holding(m) ==
  LET f == flight[m] r == recov[m] IN
  lease = m =>
    /\ f.pc \in {"prepare", "confirm", "claim", "retire", "enter"} => rec.attempt = f.scope.attempt
    /\ f.pc \in {"confirm", "claim", "retire"} =>
         rec = f.scope \/ rec.phase = "cancelled" \/ (f.scope.proc = "waiting" /\ rec.proc = "failed")
    /\ f.pc = "confirm" /\ rec = f.scope /\ alive[m] = "up" =>
         /\ (r # NoRun => Recovers(r)) /\ ~r.term
         /\ rec.retry.kind = "cleanup" => CleanupConfirmed
         /\ r = NoRun /\ rec.retry.intr # "none" => rec.retry.kind = "cleanup" \/ Exited(rec.retry.by, rec.retry.gen)
    /\ f.pc = "claim" /\ rec = f.scope /\ alive[m] = "up" => Visible = {} /\ GuardClear
    /\ f.pc = "retire" /\ rec = f.scope => Visible = {} /\ GuardClear /\ rec.proc = "none" /\ r = NoRun
    /\ f.pc = "enter" =>
         /\ rec.phase = f.scope.phase \/ rec.phase = "cancelled"
         /\ rec.phase = f.scope.phase =>
              /\ Visible = {} /\ GuardClear /\ rec.cycles < MaxReviewCycles
              /\ ~f.exist => rec.proc # "waiting" /\ (r = NoRun \/ m \in taken)
              /\ f.exist => Recovers(f.run)

\* A turn that may run is the one its call waits for or could not confirm, or the
\* one of the run that the record waits for, or the workflow is at an end.
Current(m, t) ==
  LET r == flight[m].run IN
  /\ Writing(m) /\ t.att = r.att /\ t.gen = r.igen /\ t.on = On(r.step)
  /\ At(m, "turn") \/ (r.intr # "none" /\ (t.on = "auxiliary" => t \in aux[m]))
Unconfirmed(m, t) ==
  LET r == recov[m] IN
  /\ t \in TurnOf(m, r) /\ rec.proc = "waiting" /\ r.att = rec.attempt
  /\ (r.term => guard = GuardedFor(r, m)) /\ (t.on = "auxiliary" => t \in aux[m])
Answered(m) ==
  \A t \in Visible : t.by = m =>
    /\ t.gen = gen[m]
    /\ Current(m, t) \/ (NoWriter /\ (Unconfirmed(m, t) \/ rec.phase \in Ends))
OneVisible == \A t, u \in Visible : t = u

\* A run with a verdict has no turn left, nor has the old run that a round replaces.
Verdict(m) == /\ flight[m].pc \in {"final", "commit"} => \A t \in live : t.by = m => t.att # rec.attempt
              /\ flight[m].pc = "claim" /\ rec.phase \in Retryable => \A t \in Visible : t.by # m

\* The rounds of a manager, and its private turns.
Rounds(m) ==
  /\ pins[m] = Bit(flight[m].hold) + Bit(At(m, "turn") /\ flight[m].run.step \in Private /\ flight[m].run.intr = "none")
                + Bit(recov[m] # NoRun) + Cardinality(aux[m]) + orphans[m]
  /\ orphans[m] > 0 => m \in taken
  /\ \A t, u \in aux[m] : t = u

\* A terminated turn is guarded, and the record says so or the workflow is at an end.
Guarded ==
  ~GuardClear => /\ NoWriter
                 /\ \/ rec.phase \in Ends
                    \/ /\ rec.proc = "waiting" /\ rec.retry.kind = "cleanup"
                       /\ rec.retry.by = guard.by /\ rec.retry.gen = guard.gen

\* An attempt has one run, and its continuation is spent once.
Spent(r) == r.att <= rec.attempt /\ (r.att = rec.attempt => autos <= r.auto)
Owned(m) == Spent(flight[m].run) /\ Spent(recov[m])
Has(m, a) == flight[m].run.att = a \/ recov[m].att = a
OneRun == \A m, n \in Managers : \A a \in 1 .. MaxAttempts : Has(m, a) /\ Has(n, a) => m = n

\* A record that waits has its run.
Held ==
  rec.proc = "waiting" =>
    \/ rec.retry.kind = "cleanup" /\ CleanupConfirmed
    \/ \E m \in Managers : \/ alive[m] # "up" \/ m \in taken
                           \/ recov[m].att = rec.attempt
                           \/ At(m, "enter") /\ flight[m].run.att = rec.attempt

Manager(m) == /\ Outside(m) /\ Within(m) /\ Parked(m) /\ Holding(m) /\ Answered(m) /\ Verdict(m)
              /\ Rounds(m) /\ Owned(m)
Shared == RecordOK /\ GensOK /\ OneVisible /\ Guarded /\ OneRun /\ Held
Inv == TypeOK /\ Shared /\ \A m \in Managers : Manager(m)

----------------------------------------------------------------------------
\* The bounds are numbers, and nobody is no manager.
LEMMA NumbersOK ==
  /\ MaxReviewCycles \in Nat /\ MaxReviewCycles > 0 /\ MaxNoChangeReviewRounds \in Nat
  /\ MaxAttempts \in Nat /\ MaxEdits \in Nat /\ MaxFaults \in Nat /\ Nobody \notin Managers
BY LimitsAssumption, BoundsAssumption, NamesAssumption

LEMMA BitOK == Bit(TRUE) = 1 /\ Bit(FALSE) = 0 /\ \A b \in BOOLEAN : Bit(b) \in {0, 1}
BY DEF Bit

\* Nothing is a run, a call or a record of their types.
LEMMA NothingOK == NoRun \in Run /\ NewRecord \in Record /\ NoFlight \in Flight /\ NoRetry \in Retry
<1>1. NoRun \in Run
  BY NumbersOK DEF NoRun, Run, Steps, Gens
<1>2. NoRetry \in Retry
  BY DEF NoRetry, Retry, Gens
<1>3. NewRecord \in Record
  BY <1>2, NumbersOK DEF NewRecord, Record, Phases
<1>4. NoFlight \in Flight
  BY <1>1, <1>3, NumbersOK DEF NoFlight, Flight
<1> QED BY <1>1, <1>2, <1>3, <1>4

\* Every call has a run, and a run has its numbers.
LEMMA RunsOK ==
  ASSUME TypeOK, NEW m \in Managers
  PROVE  /\ flight[m] \in Flight /\ flight[m].run \in Run /\ recov[m] \in Run /\ flight[m].scope \in Record
         /\ flight[m].run.att \in Nat /\ flight[m].run.auto \in Nat /\ flight[m].run.igen \in Nat
         /\ recov[m].att \in Nat /\ recov[m].auto \in Nat /\ recov[m].igen \in Nat
<1>1. \A r \in Run : r.att \in Nat /\ r.auto \in Nat /\ r.igen \in Nat
  BY NumbersOK DEF Run, Gens
<1>2. flight[m] \in Flight /\ recov[m] \in Run
  BY DEF TypeOK
<1>3. \A f \in Flight : f.run \in Run /\ f.scope \in Record
  BY DEF Flight
<1> QED BY <1>1, <1>2, <1>3

\* A call stays a call when it moves on, reads the record, or fails.
Pcs == Before \cup Inside \cup {"none", "enter", "finally"}
LEMMA CallsOK ==
  ASSUME NEW f \in Flight, NEW p \in Pcs
  PROVE  /\ [f EXCEPT !.pc = p] \in Flight
         /\ \A s \in Record : [f EXCEPT !.pc = p, !.scope = s] \in Flight
         /\ \A e \in {"none", "recoverable", "spent", "interrupted", "rejected", "evidence", "fatal"} :
              [f EXCEPT !.pc = p, !.err = e] \in Flight
<1>1. p \in {"none", "lease", "prepare", "confirm", "claim", "retire", "verify", "acknowledge",
            "cleanup", "enter", "evidence", "create", "stage", "turn", "retry", "final", "commit",
            "catch", "finally"}
  BY DEF Pcs, Before, Inside
<1>2. [f EXCEPT !.pc = p] \in Flight
  BY <1>1 DEF Flight
<1>3. \A s \in Record : [f EXCEPT !.pc = p, !.scope = s] \in Flight
  BY <1>1 DEF Flight
<1>4. \A e \in {"none", "recoverable", "spent", "interrupted", "rejected", "evidence", "fatal"} :
        [f EXCEPT !.pc = p, !.err = e] \in Flight
  BY <1>1 DEF Flight
<1> QED BY <1>2, <1>3, <1>4

\* A call, a waiting run, the private turns of one manager change.
LEMMA GoOK ==
  ASSUME flight \in [Managers -> Flight], NEW m \in Managers, NEW f \in Flight, Go(m, f)
  PROVE  /\ flight' \in [Managers -> Flight] /\ flight'[m] = f
         /\ \A n \in Managers \ {m} : flight'[n] = flight[n]
BY DEF Go

LEMMA ParkOK ==
  ASSUME recov \in [Managers -> Run], NEW m \in Managers, NEW r \in Run, recov' = [recov EXCEPT ![m] = r]
  PROVE  /\ recov' \in [Managers -> Run] /\ recov'[m] = r
         /\ \A n \in Managers \ {m} : recov'[n] = recov[n]
OBVIOUS

LEMMA FaultOK ==
  ASSUME TypeOK, Fault \/ NoFault
  PROVE  faults' \in 0 .. MaxFaults /\ faults <= faults'
BY NumbersOK DEF TypeOK, Fault, NoFault

\* The exit of a process tree stays proven.
LEMMA ExitStays ==
  ASSUME NEW m \in Managers, NEW g \in Nat, gen[m] \in Nat, gen'[m] \in Nat, gen[m] <= gen'[m], Exited(m, g)
  PROVE  Exited(m, g)'
BY DEF Exited

\* What stays when one manager acts: the call, the run and the turns of another.
Untouched(n) ==
  /\ flight'[n] = flight[n] /\ recov'[n] = recov[n] /\ aux'[n] = aux[n] /\ pins'[n] = pins[n]
  /\ orphans'[n] = orphans[n] /\ alive'[n] = alive[n] /\ gen'[n] = gen[n]
  /\ (n \in down' <=> n \in down) /\ (n \in taken => n \in taken')

\* What the record does, as a manager that does not act sees it.
Cancels == rec'.phase = "cancelled" /\ rec'.proc # "waiting" /\ rec'.attempt = rec.attempt /\ rec'.ev = rec.ev
Alike   == rec'.phase = rec.phase /\ rec'.attempt = rec.attempt /\ rec'.ev = rec.ev /\ rec'.cycles = rec.cycles
Closes(n) == lease' # n /\ Alike /\ rec.proc = "running" /\ rec'.proc # "waiting"
Cleans(n) == Alike /\ rec.proc = "waiting" /\ rec'.proc = "failed" /\ ~Has(n, rec.attempt)
Decides == rec.phase = "waiting_review_decision" /\ rec'.proc = rec.proc /\ rec'.attempt = rec.attempt
NoneOf(n) == \A t \in Visible : t.by # n
Takes(n) == /\ lease' # n /\ ~Writing(n) /\ NoneOf(n) /\ (recov[n] # NoRun => n \in taken')
            /\ (rec'.proc = "waiting" => ~Has(n, rec'.attempt)) /\ rec.attempt <= rec'.attempt
Moves(n) == rec' = rec \/ Cancels \/ Closes(n) \/ Cleans(n) \/ Decides \/ Takes(n)

\* What the turns, the guard and the continuations do, as it sees them.
Apart(n) ==
  /\ lease' = n => lease = n
  /\ \A k \in Managers : gen[k] <= gen'[k]
  /\ \A t \in live' : t \in live \/ t.by # n
  /\ (NoWriter => NoWriter') \/ NoneOf(n)
  /\ guard' = guard \/ guard.by # n \/ GuardClear \/ ~NoWriter
  /\ rec.phase \in Ends \/ (Visible' \subseteq Visible /\ (guard' = guard \/ ~guard'.held))
  /\ autos' <= autos \/ rec.attempt < rec'.attempt \/ ~Has(n, rec.attempt)

\* A waiting turn that may still run shows that its process has not gone.
LEMMA StillGuarded ==
  ASSUME TypeOK, NEW n \in Managers, NEW t \in Visible, t.by = n, t.gen = gen[n], Unconfirmed(n, t),
         recov[n].term, GuardClear
  PROVE  FALSE
<1>1. guard = GuardedFor(recov[n], n) /\ t.gen = recov[n].igen
  BY DEF Unconfirmed, TurnOf
<1>2. guard.held /\ guard.by = n /\ guard.gen = gen[n]
  BY <1>1 DEF GuardedFor
<1> QED BY <1>2 DEF GuardClear, Exited, TypeOK, Gens

----------------------------------------------------------------------------
(* What the step of one manager does to another: it sees the record move,   *)
(* never its own call, run or turns.                                         *)
\* A record that waits after the move is the one that waited before, or is not about it.
LEMMA StillWaiting ==
  ASSUME Inv, NEW n \in Managers, Moves(n), rec'.proc = "waiting", Has(n, rec'.attempt)
  PROVE  rec' = rec
BY DEF Inv, Shared, RecordOK, Moves, Cancels, Closes, Cleans, Decides, Takes

LEMMA OthersOutside ==
  ASSUME Inv, TypeOK', NEW n \in Managers, Untouched(n), Moves(n)
  PROVE  Outside(n)'
<1>1. Outside(n)
  BY DEF Inv, Manager
<1>2. flight'[n] = flight[n] /\ recov'[n] = recov[n]
  BY DEF Untouched
<1>3. (flight[n].run.att = rec.attempt /\ rec.proc = "waiting")' => rec' = rec
  BY <1>2, StillWaiting DEF Recovers, Has
<1> QED BY <1>1, <1>2, <1>3 DEF Outside, Recovers

LEMMA OthersWithin ==
  ASSUME Inv, TypeOK', NEW n \in Managers, Untouched(n), Moves(n)
  PROVE  Within(n)'
<1>1. Within(n)
  BY DEF Inv, Manager
<1>2. flight'[n] = flight[n] /\ recov'[n] = recov[n] /\ aux'[n] = aux[n] /\ (n \in taken => n \in taken')
  BY DEF Untouched
<1>3. Writing(n) => rec'.attempt = rec.attempt /\ rec'.ev = rec.ev /\ rec'.phase \in Ends
  <2>1. Writing(n) => rec.phase \in Ends /\ Has(n, rec.attempt)
    BY <1>1 DEF Within, Has
  <2> QED BY <2>1 DEF Moves, Cancels, Closes, Cleans, Decides, Takes, Alike, Ends
<1>4. Writing(n)' = Writing(n)
  BY <1>2 DEF Writing
<1> QED BY <1>1, <1>2, <1>3, <1>4 DEF Within, Formed

LEMMA OthersParked ==
  ASSUME Inv, TypeOK', NEW n \in Managers, Untouched(n), Moves(n)
  PROVE  Parked(n)'
<1>1. Parked(n) /\ Owned(n) /\ RecordOK
  BY DEF Inv, Manager, Shared
<1>2. recov'[n] = recov[n] /\ (n \in taken => n \in taken')
  BY DEF Untouched
<1>3. recov[n].att = rec'.attempt /\ rec'.proc = "waiting" => rec' = rec
  BY StillWaiting DEF Has
<1>4. recov[n] # NoRun /\ n \notin taken' =>
         \/ rec'.phase = "cancelled"
         \/ recov[n].att = rec'.attempt /\ (rec'.phase = "reviewing" \/ Recovers(recov[n])')
  <2> SUFFICES ASSUME recov[n] # NoRun, n \notin taken'
               PROVE  \/ rec'.phase = "cancelled"
                      \/ recov[n].att = rec'.attempt /\ (rec'.phase = "reviewing" \/ Recovers(recov[n])')
    OBVIOUS
  <2>1. \/ rec.phase = "cancelled" 
        \/ recov[n].att = rec.attempt /\ (rec.phase = "reviewing" \/ Recovers(recov[n]))
    BY <1>1, <1>2 DEF Parked
  <2>2. CASE rec' = rec
    BY <2>1, <2>2, <1>2 DEF Recovers
  <2>3. CASE Cancels
    BY <2>3 DEF Cancels
  <2>4. CASE Closes(n)
    BY <2>1, <2>4 DEF Closes, Alike, Recovers
  <2>5. CASE Cleans(n)
    BY <2>1, <2>5 DEF Cleans, Alike, Has
  <2>6. CASE Decides
    BY <2>1, <2>6, <1>1 DEF Decides, RecordOK, Recovers
  <2>7. CASE Takes(n)
    BY <2>7 DEF Takes
  <2> QED BY <2>2, <2>3, <2>4, <2>5, <2>6, <2>7 DEF Moves
<1> QED BY <1>1, <1>2, <1>3, <1>4 DEF Parked

LEMMA OthersHolding ==
  ASSUME Inv, TypeOK', NEW n \in Managers, Untouched(n), Moves(n), Apart(n)
  PROVE  Holding(n)'
<1> SUFFICES ASSUME lease' = n  PROVE Holding(n)'
  BY DEF Holding
<1>1. Holding(n) /\ Outside(n) /\ RecordOK /\ lease = n
  BY DEF Inv, Manager, Shared, Apart
<1>2. flight'[n] = flight[n] /\ recov'[n] = recov[n] /\ alive'[n] = alive[n] /\ (n \in taken => n \in taken')
  BY DEF Untouched
<1>3. ~Closes(n) /\ ~Takes(n)
  BY DEF Closes, Takes
<1> DEFINE f == flight[n]
           r == recov[n]
<1>4. \A k \in Managers : gen[k] \in Nat /\ gen'[k] \in Nat /\ gen[k] <= gen'[k]
  BY DEF Apart, Inv, TypeOK, Gens
<1>5. GuardClear /\ rec.phase \notin Ends => GuardClear'
  <2> SUFFICES ASSUME GuardClear, rec.phase \notin Ends, guard'.held PROVE GuardClear'
    BY DEF GuardClear
  <2>1. guard' = guard
    BY DEF Apart
  <2>2. guard.by \in Managers /\ guard.gen \in Nat
    BY <2>1 DEF Inv, TypeOK, Shared, GensOK, Gens
  <2>3. Exited(guard.by, guard.gen)
    BY <2>1 DEF GuardClear
  <2> QED BY <2>1, <2>2, <2>3, <1>4 DEF GuardClear, Exited
<1>6. rec.phase \notin Ends /\ Visible = {} => Visible' = {}
  BY DEF Apart
<1>7. rec'.attempt = rec.attempt
  BY <1>3 DEF Moves, Cancels, Cleans, Decides, Alike
<1>8. f.pc \in {"confirm", "claim", "retire"} =>
         rec' = f.scope \/ rec'.phase = "cancelled" \/ (f.scope.proc = "waiting" /\ rec'.proc = "failed")
  BY <1>1, <1>3 DEF Holding, Outside, Moves, Cancels, Cleans, Decides, Alike, RecordOK, Chooses, Retryable
<1>9. f.pc \in {"confirm", "claim", "retire"} /\ rec' = f.scope => rec = f.scope /\ rec' = rec /\ rec.phase \notin Ends
  BY <1>1, <1>3 DEF Holding, Outside, Moves, Cancels, Cleans, Decides, Alike, RecordOK, Chooses, Retryable, Ends
<1>10. f.pc = "confirm" /\ rec' = f.scope /\ alive'[n] = "up" =>
         /\ (r # NoRun => Recovers(r)') /\ ~r.term
         /\ rec'.retry.kind = "cleanup" => CleanupConfirmed'
         /\ r = NoRun /\ rec'.retry.intr # "none" => rec'.retry.kind = "cleanup" \/ Exited(rec.retry.by, rec.retry.gen)'
  <2> SUFFICES ASSUME f.pc = "confirm", rec' = f.scope, alive'[n] = "up"
               PROVE  /\ (r # NoRun => Recovers(r)') /\ ~r.term
                      /\ rec'.retry.kind = "cleanup" => CleanupConfirmed'
                      /\ r = NoRun /\ rec'.retry.intr # "none" =>
                           rec'.retry.kind = "cleanup" \/ Exited(rec.retry.by, rec.retry.gen)'
    OBVIOUS
  <2>1. rec' = rec /\ rec = f.scope /\ rec.phase \notin Ends
    BY <1>9
  <2>2. /\ (r # NoRun => Recovers(r)) /\ ~r.term
        /\ rec.retry.kind = "cleanup" => CleanupConfirmed
        /\ r = NoRun /\ rec.retry.intr # "none" =>
                           rec.retry.kind = "cleanup" \/ Exited(rec.retry.by, rec.retry.gen)
    BY <2>1, <1>1, <1>2 DEF Holding
  <2>3. r # NoRun => Recovers(r)'
    BY <2>1, <2>2, <1>2 DEF Recovers
  <2>4. rec'.retry.kind = "cleanup" => CleanupConfirmed'
    BY <2>1, <2>2 DEF CleanupConfirmed, Apart
  <2>5. r = NoRun /\ rec'.retry.intr # "none" => rec'.retry.kind = "cleanup" \/ Exited(rec.retry.by, rec.retry.gen)'
    <3> SUFFICES ASSUME r = NoRun, rec.retry.intr # "none", rec.retry.kind # "cleanup"
                 PROVE  Exited(rec.retry.by, rec.retry.gen)'
      BY <2>1
    <3>1. Exited(rec.retry.by, rec.retry.gen)
      BY <2>2
    <3>2. rec.retry.by \in Managers
      BY <1>1 DEF RecordOK
    <3>3. rec.retry.gen \in Nat
      BY DEF Inv, TypeOK, Record, Retry, Gens
    <3> QED BY <3>1, <3>2, <3>3, <2>1, <1>4 DEF Exited
  <2> QED BY <2>2, <2>3, <2>4, <2>5
<1>11. f.pc \in {"claim", "retire"} /\ rec' = f.scope /\ (f.pc = "claim" => alive'[n] = "up") =>
         Visible' = {} /\ GuardClear' /\ (f.pc = "retire" => rec'.proc = "none" /\ r = NoRun)
  BY <1>9, <1>1, <1>2, <1>5, <1>6 DEF Holding
<1>12. f.pc = "enter" => rec'.phase = f.scope.phase \/ rec'.phase = "cancelled"
  BY <1>1, <1>3 DEF Holding, Outside, Moves, Cancels, Cleans, Decides, Alike, Chooses, Retryable
<1>13. f.pc = "enter" /\ rec'.phase = f.scope.phase =>
         /\ Visible' = {} /\ GuardClear' /\ rec'.cycles < MaxReviewCycles
         /\ ~f.exist => rec'.proc # "waiting" /\ (r = NoRun \/ n \in taken')
         /\ f.exist => Recovers(f.run)'
  <2> SUFFICES ASSUME f.pc = "enter", rec'.phase = f.scope.phase
               PROVE  /\ Visible' = {} /\ GuardClear' /\ rec'.cycles < MaxReviewCycles
                      /\ ~f.exist => rec'.proc # "waiting" /\ (r = NoRun \/ n \in taken')
                      /\ f.exist => Recovers(f.run)'
    OBVIOUS
  <2>1. f.scope.phase \in Retryable
    BY <1>1 DEF Outside, Chooses
  <2>2. rec' = rec \/ Cleans(n)
    BY <2>1, <1>1, <1>3 DEF Moves, Cancels, Decides, Holding, Retryable
  <2>3. rec.phase = f.scope.phase /\ rec.phase \notin Ends /\ rec'.cycles = rec.cycles
    BY <2>1, <2>2 DEF Cleans, Alike, Retryable, Ends
  <2>4. /\ Visible = {} /\ GuardClear /\ rec.cycles < MaxReviewCycles
        /\ ~f.exist => rec.proc # "waiting" /\ (r = NoRun \/ n \in taken)
        /\ f.exist => Recovers(f.run)
    BY <2>3, <1>1 DEF Holding
  <2>5. ~f.exist => rec'.proc # "waiting"
    BY <2>2, <2>4 DEF Cleans
  <2>6. f.exist => rec' = rec
    BY <2>2, <2>4 DEF Cleans, Recovers, Has
  <2>7. f.exist => Recovers(f.run)'
    BY <2>4, <2>6, <1>2 DEF Recovers
  <2> QED BY <2>3, <2>4, <2>5, <2>7, <1>5, <1>6, <1>2
<1>14. f.pc \in {"prepare", "confirm", "claim", "retire", "enter"} => rec'.attempt = f.scope.attempt
  BY <1>7, <1>1 DEF Holding
<1> QED BY <1>2, <1>8, <1>10, <1>11, <1>12, <1>13, <1>14 DEF Holding

LEMMA OthersAnswered ==
  ASSUME Inv, TypeOK', NEW n \in Managers, Untouched(n), Moves(n), Apart(n)
  PROVE  Answered(n)'
<1> SUFFICES ASSUME NEW t \in live', t.by = n, t.by \notin down', alive'[t.by] = "up"
             PROVE  /\ t.gen = gen'[n]
                    /\ Current(n, t)' \/ (NoWriter' /\ (Unconfirmed(n, t)' \/ rec'.phase \in Ends))
  BY DEF Answered, Visible
<1>1. /\ flight'[n] = flight[n] /\ recov'[n] = recov[n] /\ aux'[n] = aux[n] /\ gen'[n] = gen[n]
      /\ alive'[n] = alive[n] /\ (n \in down' <=> n \in down)
  BY DEF Untouched
<1>2. t \in live
  BY DEF Apart
<1>3. t \in Visible
  BY <1>1, <1>2 DEF Visible
<1>4. ~NoneOf(n)
  BY <1>3 DEF NoneOf
<1>5. /\ t.gen = gen[n]
      /\ Current(n, t) \/ (NoWriter /\ (Unconfirmed(n, t) \/ rec.phase \in Ends))
  BY <1>3 DEF Inv, Manager, Answered
<1>6. CASE Current(n, t)
  BY <1>1, <1>5, <1>6 DEF Current, Writing, At
<1>7. ASSUME NoWriter, Unconfirmed(n, t) PROVE NoWriter' /\ (Unconfirmed(n, t)' \/ rec'.phase \in Ends)
  <2>1. NoWriter'
    BY <1>4, <1>7 DEF Apart
  <2>2. rec.proc = "waiting" /\ recov[n].att = rec.attempt /\ RecordOK
    BY <1>7 DEF Unconfirmed, Inv, Shared
  <2>3. rec' = rec \/ Cancels
    BY <2>2, <1>4 DEF Moves, Closes, Cleans, Decides, Takes, RecordOK, Has, Retryable
  <2>4. recov[n].term => guard' = guard
    <3> SUFFICES ASSUME recov[n].term PROVE guard' = guard
      OBVIOUS
    <3>1. ~GuardClear
      BY <1>3, <1>5, <1>7, StillGuarded DEF Inv
    <3>2. guard.by = n
      BY <1>7 DEF Unconfirmed, GuardedFor
    <3> QED BY <3>1, <3>2, <1>7 DEF Apart
  <2>5. rec' = rec => Unconfirmed(n, t)'
    BY <1>1, <1>7, <2>4 DEF Unconfirmed, TurnOf, GuardedFor
  <2> QED BY <2>1, <2>3, <2>5 DEF Cancels, Ends
<1>8. ASSUME NoWriter, rec.phase \in Ends PROVE NoWriter' /\ rec'.phase \in Ends
  <2>1. NoWriter'
    BY <1>4, <1>8 DEF Apart
  <2> QED BY <2>1, <1>4, <1>8 DEF Moves, Cancels, Closes, Cleans, Decides, Takes, Alike, Ends
<1> QED BY <1>1, <1>5, <1>6, <1>7, <1>8

LEMMA OthersVerdict ==
  ASSUME Inv, TypeOK', NEW n \in Managers, Untouched(n), Moves(n), Apart(n)
  PROVE  Verdict(n)'
<1>1. Verdict(n) /\ Within(n)
  BY DEF Inv, Manager
<1>2. flight'[n] = flight[n]
  BY DEF Untouched
<1>3. \A t \in live' : t \in live \/ t.by # n
  BY DEF Apart
<1>4. Writing(n) => rec'.attempt = rec.attempt
  BY DEF Moves, Cancels, Closes, Cleans, Decides, Takes, Alike
<1>5. flight[n].pc = "claim" /\ rec'.phase \in Retryable => \A t \in Visible' : t.by # n
  <2> SUFFICES ASSUME flight[n].pc = "claim", rec'.phase \in Retryable, NEW t \in Visible', t.by = n  PROVE FALSE
    OBVIOUS
  <2>1. t \in Visible
    BY <1>3 DEF Visible, Untouched
  <2>2. ~NoneOf(n)
    BY <2>1 DEF NoneOf
  <2>3. CASE rec.phase \in Retryable
    BY <1>1, <2>1, <2>3 DEF Verdict
  <2>4. CASE Decides
    <3>1. rec.phase = "waiting_review_decision" /\ rec.proc = "completed"
      BY <2>4 DEF Decides, Inv, Shared, RecordOK
    <3>2. Answered(n)
      BY DEF Inv, Manager
    <3> QED BY <1>1, <2>1, <3>1, <3>2 DEF Answered, Current, Unconfirmed, Ends, Within
  <2> QED BY <2>2, <2>3, <2>4 DEF Moves, Cancels, Closes, Cleans, Takes, Alike, Retryable
<1> QED BY <1>1, <1>2, <1>3, <1>4, <1>5 DEF Verdict, Writing, Inside

LEMMA OthersRounds ==
  ASSUME Inv, TypeOK', NEW n \in Managers, Untouched(n)
  PROVE  Rounds(n)'
BY DEF Inv, Manager, Rounds, Untouched, At, Bit

LEMMA OthersOwned ==
  ASSUME Inv, TypeOK', NEW n \in Managers, Untouched(n), Moves(n), Apart(n)
  PROVE  Owned(n)'
<1>1. Owned(n)
  BY DEF Inv, Manager
<1>2. flight'[n] = flight[n] /\ recov'[n] = recov[n]
  BY DEF Untouched
<1>3. rec.attempt \in Nat /\ rec'.attempt \in Nat /\ autos \in Nat /\ autos' \in Nat
  BY NumbersOK DEF Inv, TypeOK, Record
<1>4. /\ flight[n].run.att \in Nat /\ flight[n].run.auto \in Nat
      /\ recov[n].att \in Nat /\ recov[n].auto \in Nat
  BY RunsOK DEF Inv
<1>5. rec.attempt <= rec'.attempt
  <2>1. rec'.attempt = rec.attempt \/ rec.attempt <= rec'.attempt
    BY DEF Moves, Cancels, Closes, Cleans, Decides, Takes, Alike
  <2> QED BY <2>1, <1>3
<1>6. autos' <= autos \/ rec.attempt < rec'.attempt \/ ~Has(n, rec.attempt)
  BY DEF Apart
<1> QED BY <1>1, <1>2, <1>3, <1>4, <1>5, <1>6 DEF Owned, Spent, Has

\* A manager that does not act keeps what its part of the invariant says.
LEMMA OthersKeep ==
  ASSUME Inv, TypeOK', NEW n \in Managers, Untouched(n), Moves(n), Apart(n)
  PROVE  Manager(n)'
BY OthersOutside, OthersWithin, OthersParked, OthersHolding, OthersAnswered, OthersVerdict, OthersRounds,
   OthersOwned DEF Manager

----------------------------------------------------------------------------
(* Steps of one manager.                                                     *)
\* Only the manager m acts: the calls, runs, turns and rounds of the others stay.
Acts(m) == /\ \A n \in Managers \ {m} : /\ flight'[n] = flight[n] /\ recov'[n] = recov[n] /\ aux'[n] = aux[n]
                                        /\ pins'[n] = pins[n] /\ orphans'[n] = orphans[n]
           /\ \A t \in live' : t \in live \/ t.by = m
           /\ lease' \in {lease, Nobody, m} /\ (lease' = m => lease \in {m, Nobody})
           /\ taken \ {m} \subseteq taken'

\* The work of its call alone: the record and the waiting run stay, and a guard that
\* the exit of the process has cleared may be let go.
Works1(m) == /\ Acts(m) /\ UNCHANGED <<rec, ws, sysVars, recov, ghostVars>>
             /\ guard' = guard \/ (GuardClear /\ guard' = Confirmed(guard))
             /\ live' \subseteq live /\ (Fault \/ NoFault)

\* The invariant follows from its parts for the manager that acts.
LEMMA ActsKeeps ==
  ASSUME Inv, NEW m \in Managers, Acts(m), TypeOK', Shared', Manager(m)',
         \A n \in Managers \ {m} : Moves(n) /\ Apart(n) /\ alive'[n] = alive[n] /\ gen'[n] = gen[n]
                                   /\ (n \in down' <=> n \in down)
  PROVE  Inv'
<1>1. ASSUME NEW n \in Managers \ {m} PROVE Manager(n)'
  <2>1. Untouched(n)
    BY DEF Acts, Untouched
  <2> QED BY <2>1, OthersKeep
<1> QED BY <1>1 DEF Inv

\* Work of a call is Inv's when it is for the call: the rest of the state has not moved.
LEMMA WorksKeeps ==
  ASSUME Inv, NEW m \in Managers, Works1(m),
         flight' \in [Managers -> Flight], aux' \in [Managers -> SUBSET Turn], pins' \in [Managers -> Nat],
         Writing(m)' => Writing(m), flight'[m].run.att \in {0, flight[m].run.att},
         At(m, "enter") => At(m, "enter")' /\ flight'[m].run = flight[m].run,
         Outside(m)', Within(m)', Holding(m)', Answered(m)', Verdict(m)', Rounds(m)', Owned(m)'
  PROVE  Inv'
<1>1. TypeOK'
  <2>1. faults' \in 0 .. MaxFaults /\ faults <= faults'
    BY FaultOK DEF Inv, Works1
  <2>2. guard' \in [by : Managers \cup {Nobody}, gen : {0} \cup Gens, held : BOOLEAN]
    BY DEF Inv, TypeOK, Works1, Confirmed
  <2> QED BY <2>1, <2>2 DEF Inv, TypeOK, Works1, Acts, sysVars, ghostVars
<1>2. NoWriter => NoWriter'
  BY DEF NoWriter, Writing, Works1, Acts
<1>3. Visible' \subseteq Visible
  BY DEF Visible, Works1, sysVars
<1>4. /\ rec' = rec /\ alive' = alive /\ gen' = gen /\ down' = down /\ deciding' = deciding
      /\ recov' = recov /\ taken' = taken /\ autos' = autos
  BY DEF Works1, sysVars, ghostVars
<1>9. guard' = guard \/ (GuardClear /\ ~guard'.held)
  BY DEF Works1, Confirmed, Inv, TypeOK
<1>5. Shared'
  <2>1. Shared
    BY DEF Inv
  <2>2. RecordOK'
    BY <2>1, <1>4 DEF Shared, RecordOK
  <2>3. GensOK'
    <3>1. faults \in Nat /\ faults' \in Nat /\ faults <= faults'
      BY NumbersOK, FaultOK DEF Inv, TypeOK, Works1
    <3>2. \A n \in Managers : gen[n] \in Nat /\ Bit(n \in down) \in Nat
      BY NumbersOK DEF Inv, TypeOK, Gens, Bit
    <3> QED BY <2>1, <3>1, <3>2, <1>4, <1>9 DEF Shared, GensOK
  <2>4. OneVisible'
    BY <2>1, <1>3 DEF Shared, OneVisible
  <2>5. Guarded'
    BY <2>1, <1>2, <1>4, <1>9 DEF Shared, Guarded, GuardClear, Exited
  <2>6. OneRun'
    <3>1. \A n \in Managers : \A a \in 1 .. MaxAttempts : Has(n, a)' => Has(n, a)
      BY NumbersOK, <1>4 DEF Has, Works1, Acts
    <3> QED BY <3>1, <2>1 DEF Shared, OneRun
  <2>7. Held'
    <3>1. \A n \in Managers : At(n, "enter") => At(n, "enter")' /\ flight'[n].run = flight[n].run
      BY DEF Works1, Acts, At
    <3>2. CleanupConfirmed => CleanupConfirmed'
      BY <1>4, <1>9 DEF CleanupConfirmed
    <3> QED BY <3>1, <3>2, <2>1, <1>4 DEF Shared, Held
  <2> QED BY <2>2, <2>3, <2>4, <2>5, <2>6, <2>7 DEF Shared
<1>6. Parked(m)'
  BY <1>4 DEF Inv, Manager, Parked, Recovers
<1>7. Manager(m)'
  BY <1>6 DEF Manager
<1>8. ASSUME NEW n \in Managers \ {m}
      PROVE  /\ Moves(n) /\ Apart(n) /\ alive'[n] = alive[n] /\ gen'[n] = gen[n]
             /\ (n \in down' <=> n \in down)
  <2>1. Moves(n)
    BY <1>4 DEF Moves
  <2>2. lease' = n => lease = n
    BY NumbersOK DEF Works1, Acts
  <2>3. \A k \in Managers : gen[k] <= gen'[k]
    BY <1>4 DEF Inv, TypeOK, Gens
  <2>4. autos' <= autos
    BY <1>4 DEF Inv, TypeOK
  <2>5. \A t \in live' : t \in live \/ t.by # n
    BY DEF Works1
  <2> QED BY <1>2, <1>3, <1>4, <1>9, <2>1, <2>2, <2>3, <2>4, <2>5 DEF Apart
<1> QED BY <1>1, <1>5, <1>7, <1>8, ActsKeeps DEF Works1

\* A turn that is nobody's current one is seen as before by a call that does not write.
LEMMA StillAnswered ==
  ASSUME Inv, NEW m \in Managers, Works1(m), ~Writing(m), ~Writing(m)',
         \A t \in live' : t \in aux[m] => t \in aux'[m]
  PROVE  Answered(m)'
<1> SUFFICES ASSUME NEW t \in live', t.by = m, t.by \notin down', alive'[t.by] = "up"
             PROVE  t.gen = gen'[m] /\ NoWriter' /\ (Unconfirmed(m, t)' \/ rec'.phase \in Ends)
  BY DEF Answered, Visible
<1>1. /\ rec' = rec /\ alive' = alive /\ gen' = gen /\ down' = down /\ recov' = recov
  BY DEF Works1, sysVars
<1>2. t \in Visible
  BY <1>1 DEF Visible, Works1
<1>3. t.gen = gen[m] /\ NoWriter /\ (Unconfirmed(m, t) \/ rec.phase \in Ends)
  BY <1>2 DEF Inv, Manager, Answered, Current
<1>4. NoWriter'
  BY <1>3 DEF NoWriter, Writing, Works1, Acts
<1>5. ASSUME Unconfirmed(m, t) PROVE Unconfirmed(m, t)'
  <2>1. recov[m].term => guard' = guard
    BY <1>2, <1>3, <1>5, StillGuarded DEF Inv, Works1
  <2> QED BY <1>1, <1>5, <2>1 DEF Unconfirmed, TurnOf, GuardedFor
<1> QED BY <1>1, <1>3, <1>4, <1>5

\* A call that has not entered a run goes on or ends: it owned no round, and owns none.
LEMMA EarlyKeeps ==
  ASSUME Inv, NEW m \in Managers, NEW f \in Flight, Works1(m), Go(m, f), UNCHANGED <<live, aux, pins>>,
         flight[m].pc \in Before \cup {"none"}, f.pc \in (Before \ {"claim"}) \cup {"none", "enter"},
         f.run = NoRun, f.hold = flight[m].hold, Outside(m)', Holding(m)'
  PROVE  Inv'
<1>1. flight' \in [Managers -> Flight] /\ flight'[m] = f
  BY GoOK DEF Inv, TypeOK
<1>2. flight[m].run = NoRun
  BY DEF Inv, Manager, Outside, NoFlight
<1>3. ~Writing(m) /\ ~Writing(m)' /\ ~At(m, "turn") /\ ~At(m, "turn")' /\ ~At(m, "enter")
  BY <1>1 DEF Writing, Before, Inside, At
<1>4. Within(m)'
  <2>1. f.pc # "finally"
    BY DEF Before
  <2> QED BY <1>1, <1>3, <2>1 DEF Within
<1>5. Answered(m)'
  <2>1. \A t \in live' : t \in aux[m] => t \in aux'[m]
    OBVIOUS
  <2> QED BY <1>3, <2>1, StillAnswered
<1>6. Verdict(m)'
  BY <1>1 DEF Verdict, Before
<1>7. Rounds(m)'
  BY <1>1, <1>3, BitOK DEF Inv, Manager, Rounds, Works1, ghostVars
<1>8. Owned(m)'
  BY <1>1, <1>2 DEF Inv, Manager, Owned, Spent, Works1, ghostVars
<1>9. aux' \in [Managers -> SUBSET Turn] /\ pins' \in [Managers -> Nat]
  BY DEF Inv, TypeOK
<1> QED BY <1>1, <1>2, <1>3, <1>4, <1>5, <1>6, <1>7, <1>8, <1>9, WorksKeeps

LEMMA EarlyEnds ==
  ASSUME Inv, NEW m \in Managers, Works1(m), End(m), UNCHANGED <<live, aux, pins>>,
         flight[m].pc \in Before \cup {"none"}, ~flight[m].hold
  PROVE  Inv'
<1>1. NoFlight \in Flight /\ Go(m, NoFlight)
  BY NothingOK DEF End
<1>2. flight'[m] = NoFlight
  BY <1>1, GoOK DEF Inv, TypeOK
<1>3. Outside(m)' /\ Holding(m)'
  BY <1>2 DEF Outside, Holding, NoFlight, Before, Chooses
<1>4. NoFlight.pc = "none" /\ NoFlight.run = NoRun /\ NoFlight.hold = flight[m].hold
  <2>1. flight[m].hold \in BOOLEAN
    BY RunsOK DEF Inv, Flight
  <2> QED BY <2>1 DEF NoFlight
<1> QED BY <1>1, <1>3, <1>4, EarlyKeeps

\* A step that only moves the call m, and may take or release the lease.
LEMMA WorksOf ==
  ASSUME Inv, NEW m \in Managers, NEW f \in Flight, Go(m, f), Fault \/ NoFault,
         UNCHANGED <<rec, ws, sysVars, recov, ghostVars, live, aux, pins>>,
         guard' = guard \/ (GuardClear /\ guard' = Confirmed(guard)),
         lease' = lease \/ Release(m) \/ (lease = Nobody /\ lease' = m)
  PROVE  Works1(m)
<1>1. \A n \in Managers \ {m} : flight'[n] = flight[n]
  BY GoOK DEF Inv, TypeOK
<1>2. lease' \in {lease, Nobody, m} /\ (lease' = m => lease \in {m, Nobody})
  BY NumbersOK DEF Release
<1> QED BY <1>1, <1>2 DEF Works1, Acts, ghostVars

----------------------------------------------------------------------------
(* The admission.                                                            *)
LEMMA InvRequest ==
  ASSUME Inv, NEW m \in Managers, Request(m)  PROVE Inv'
<1> DEFINE f == [NoFlight EXCEPT !.pc = "lease", !.scope.attempt = rec.attempt]
<1>1. f \in Flight /\ Go(m, f)
  BY NothingOK DEF Request, Inv, TypeOK, Flight, Record
<1>2. /\ f.pc = "lease" /\ f.run = NoRun /\ ~f.exist /\ ~f.keep /\ ~f.hold
      /\ f.scope.attempt = rec.attempt
  BY DEF NoFlight, NewRecord
<1> HIDE DEF f
<1>3. Works1(m)
  BY <1>1, WorksOf DEF Request
<1>4. flight'[m] = f
  BY <1>1, GoOK DEF Inv, TypeOK
<1>5. flight[m] = NoFlight
  BY DEF Inv, Manager, Outside, Request, At
<1>6. Outside(m)' /\ Holding(m)'
  BY <1>2, <1>4 DEF Outside, Holding, Before, Chooses, Request
<1>7. UNCHANGED <<live, aux, pins>> /\ flight[m].pc = "none" /\ flight[m].hold = FALSE
  BY <1>5 DEF Request, NoFlight
<1>8. f.pc \in Before \ {"claim"} /\ flight[m].pc \in Before \cup {"none"} /\ f.hold = flight[m].hold
  BY <1>1, <1>2, <1>7 DEF Before, Flight
<1> QED BY <1>1, <1>2, <1>3, <1>6, <1>7, <1>8, EarlyKeeps

\* Nothing of a review in a retryable phase runs, but for a run that waits.
LEMMA RestsUnlessWaiting ==
  ASSUME Inv, rec.phase \in Retryable, rec.proc # "waiting"
  PROVE  Visible = {} /\ GuardClear /\ \A m \in Managers : recov[m] = NoRun \/ m \in taken
<1>1. \A m \in Managers : ~Writing(m)
  BY DEF Inv, Manager, Within, Retryable, Ends
<1>2. ASSUME NEW t \in Visible PROVE FALSE
  <2>1. t.by \in Managers
    BY DEF Visible, Inv, TypeOK, Turn
  <2>2. Answered(t.by)
    BY <2>1 DEF Inv, Manager
  <2> QED BY <2>1, <2>2, <1>1 DEF Answered, Current, Unconfirmed, Retryable, Ends
<1>3. GuardClear
  BY DEF Inv, Shared, Guarded, Retryable, Ends
<1>4. \A m \in Managers : recov[m] = NoRun \/ m \in taken
  BY DEF Inv, Manager, Parked, Recovers, Retryable
<1> QED BY <1>2, <1>3, <1>4

LEMMA InvAcquire ==
  ASSUME Inv, NEW m \in Managers, Acquire(m)  PROVE Inv'
<1>1. At(m, "lease") /\ Outside(m) /\ RecordOK
  BY DEF Acquire, Inv, Manager, Shared
<1>2. /\ flight[m].pc = "lease" /\ flight[m].run = NoRun /\ ~flight[m].exist /\ ~flight[m].keep
      /\ ~flight[m].hold /\ flight[m].scope.attempt < MaxAttempts
  BY <1>1 DEF Outside, At, Before
<1>3. CASE End(m)
  <2>1. Works1(m)
    BY <1>3, NothingOK, WorksOf DEF Acquire, End
  <2> QED BY <2>1, <1>2, <1>3, EarlyEnds DEF Acquire, Before
<1>4. CASE /\ lease = Nobody /\ rec.phase # "cancelled" /\ rec.attempt = flight[m].scope.attempt
           /\ NeedsPreparation \/ Startable
           /\ lease' = m
           /\ Go(m, [flight[m] EXCEPT !.pc = IF NeedsPreparation THEN "prepare" ELSE "enter", !.scope = rec])
  <2> DEFINE p == IF NeedsPreparation THEN "prepare" ELSE "enter"
             f == [flight[m] EXCEPT !.pc = p, !.scope = rec]
  <2>1. p \in {"prepare", "enter"} /\ (p = "enter" => ~NeedsPreparation /\ Startable)
    BY <1>4
  <2> HIDE DEF p
  <2>2. f \in Flight
    <3>1. flight[m] \in Flight /\ rec \in Record /\ p \in Pcs
      BY <2>1, RunsOK DEF Inv, TypeOK, Pcs, Before
    <3> QED BY <3>1, CallsOK
  <2>3. Go(m, f)
    BY <1>4 DEF p
  <2>4. /\ f.pc = p /\ f.run = NoRun /\ ~f.exist /\ ~f.keep /\ ~f.hold /\ f.scope = rec
        /\ f.hold = f.exist
    BY <1>2, RunsOK DEF Inv, Flight
  <2> HIDE DEF f
  <2>5. Works1(m)
    BY <1>4, <2>2, <2>3, WorksOf DEF Acquire
  <2>6. flight'[m] = f
    BY <2>2, <2>3, GoOK DEF Inv, TypeOK
  <2>7. Outside(m)'
    <3>1. CASE p = "prepare"
      BY <1>2, <1>4, <2>4, <2>6, <3>1 DEF Outside, Before, Chooses
    <3>2. CASE p = "enter"
      <4>1. rec.phase \in Retryable /\ rec.attempt < MaxAttempts
        BY <1>2, <1>4, <2>1, <3>2 DEF Startable, Retryable
      <4> QED BY <2>4, <2>6, <3>2, <4>1 DEF Outside, Before, Chooses
    <3> QED BY <2>1, <3>1, <3>2
  <2>8. Holding(m)'
    <3>1. p = "enter" => /\ Visible = {} /\ GuardClear /\ rec.cycles < MaxReviewCycles /\ rec.proc # "waiting"
                         /\ recov[m] = NoRun \/ m \in taken
      <4> SUFFICES ASSUME p = "enter"
                   PROVE  /\ Visible = {} /\ GuardClear /\ rec.cycles < MaxReviewCycles /\ rec.proc # "waiting"
                          /\ recov[m] = NoRun \/ m \in taken
        OBVIOUS
      <4>1. ~NeedsPreparation /\ Startable
        BY <2>1
      <4>2. rec.phase \in Retryable /\ rec.cycles < MaxReviewCycles /\ rec.proc # "waiting"
        BY <4>1, <1>1 DEF NeedsPreparation, Startable, Retryable, RecordOK
      <4> QED BY <4>2, RestsUnlessWaiting
    <3>2. /\ rec' = rec /\ recov' = recov /\ Visible' = Visible /\ taken' = taken /\ guard' = guard /\ gen' = gen
      BY DEF Acquire, sysVars, ghostVars, Visible
    <3> QED BY <3>1, <3>2, <2>1, <2>4, <2>6 DEF Holding, GuardClear, Exited
  <2>9. UNCHANGED <<live, aux, pins>> /\ f.pc \in (Before \ {"claim"}) \cup {"none", "enter"}
        /\ flight[m].pc \in Before \cup {"none"} /\ f.hold = flight[m].hold
    BY <1>2, <2>1, <2>2, <2>4, RunsOK DEF Acquire, Before, Inv, Flight
  <2> QED BY <2>2, <2>3, <2>4, <2>5, <2>7, <2>8, <2>9, EarlyKeeps
<1> QED BY <1>3, <1>4 DEF Acquire

LEMMA InvPrepare ==
  ASSUME Inv, NEW m \in Managers, NEW fresh \in BOOLEAN, Prepare(m, fresh)  PROVE Inv'
<1>1. At(m, "prepare") /\ Outside(m) /\ Holding(m) /\ RecordOK
  BY DEF Prepare, Inv, Manager, Shared
<1>2. /\ flight[m].pc = "prepare" /\ flight[m].run = NoRun /\ ~flight[m].exist /\ ~flight[m].keep
      /\ ~flight[m].hold /\ flight[m].scope.attempt < MaxAttempts
  BY <1>1 DEF Outside, At, Before
<1>3. Fault \/ NoFault
  BY DEF Prepare
<1>9. /\ rec' = rec /\ recov' = recov /\ Visible' = Visible /\ taken' = taken /\ guard' = guard /\ gen' = gen
      /\ alive' = alive
  BY DEF Prepare, sysVars, ghostVars, Visible
<1>4. CASE End(m)
  <2>1. Works1(m)
    BY <1>3, <1>4, NothingOK, WorksOf DEF Prepare, End
  <2> QED BY <2>1, <1>2, <1>4, EarlyEnds DEF Prepare, Before
<1>5. CASE Able(m) /\ Replaceable(m) /\ Go(m, [flight[m] EXCEPT !.pc = "confirm", !.scope = rec]) /\ UNCHANGED lease
  <2> DEFINE f == [flight[m] EXCEPT !.pc = "confirm", !.scope = rec]
  <2>1. f \in Flight /\ Go(m, f)
    <3>1. flight[m] \in Flight /\ rec \in Record /\ "confirm" \in Pcs
      BY RunsOK DEF Inv, TypeOK, Pcs, Before
    <3> QED BY <3>1, <1>5, CallsOK
  <2>2. f.pc = "confirm" /\ f.run = NoRun /\ ~f.exist /\ ~f.keep /\ ~f.hold /\ f.scope = rec
    BY <1>2, RunsOK DEF Inv, Flight
  <2> HIDE DEF f
  <2>3. Works1(m)
    BY <1>3, <1>5, <2>1, WorksOf DEF Prepare
  <2>4. flight'[m] = f
    BY <2>1, GoOK DEF Inv, TypeOK
  <2>5. rec.attempt < MaxAttempts /\ rec.phase \in Retryable
    BY <1>1, <1>2, <1>5 DEF Holding, Able, Replaceable, Retryable
  <2>6. Outside(m)'
    BY <2>2, <2>4, <2>5 DEF Outside, Before, Chooses
  <2>7. Holding(m)'
    <3>1. /\ recov[m] # NoRun => Recovers(recov[m])
          /\ ~recov[m].term
          /\ rec.retry.kind = "cleanup" => CleanupConfirmed
          /\ recov[m] = NoRun /\ rec.retry.intr # "none" =>
               rec.retry.kind = "cleanup" \/ Exited(rec.retry.by, rec.retry.gen)
      BY <1>5 DEF Replaceable, NoRun
    <3> QED BY <3>1, <1>9, <2>2, <2>4 DEF Holding, Recovers, CleanupConfirmed, Exited
  <2>9. UNCHANGED <<live, aux, pins>> /\ f.pc \in (Before \ {"claim"}) \cup {"none", "enter"}
        /\ flight[m].pc \in Before \cup {"none"} /\ f.hold = flight[m].hold
    BY <1>2, <2>1, <2>2, RunsOK DEF Prepare, Before, Inv, Flight
  <2> QED BY <2>1, <2>2, <2>3, <2>6, <2>7, <2>9, EarlyKeeps
<1>6. CASE Able(m) /\ CanContinue(m) /\ To(m, "verify") /\ UNCHANGED lease
  <2> DEFINE f == [flight[m] EXCEPT !.pc = "verify"]
  <2>1. f \in Flight /\ Go(m, f)
    <3>1. flight[m] \in Flight /\ "verify" \in Pcs
      BY RunsOK DEF Inv, TypeOK, Pcs, Before
    <3> QED BY <3>1, <1>6, CallsOK DEF To
  <2>2. f.pc = "verify" /\ f.run = NoRun /\ ~f.exist /\ ~f.keep /\ ~f.hold
    BY <1>2, RunsOK DEF Inv, Flight
  <2> HIDE DEF f
  <2>3. Works1(m)
    BY <1>3, <1>6, <2>1, WorksOf DEF Prepare
  <2>4. flight'[m] = f
    BY <2>1, GoOK DEF Inv, TypeOK
  <2>5. ~recov[m].term /\ recov[m].att < MaxAttempts
    BY <1>1, <1>2, <1>6 DEF Holding, Able, CanContinue, Recovers
  <2>6. Outside(m)'
    BY <1>9, <2>2, <2>4, <2>5 DEF Outside, Before, Chooses
  <2>7. Holding(m)'
    BY <2>2, <2>4 DEF Holding
  <2>9. UNCHANGED <<live, aux, pins>> /\ f.pc \in (Before \ {"claim"}) \cup {"none", "enter"}
        /\ flight[m].pc \in Before \cup {"none"} /\ f.hold = flight[m].hold
    BY <1>2, <2>1, <2>2, RunsOK DEF Prepare, Before, Inv, Flight
  <2> QED BY <2>1, <2>2, <2>3, <2>6, <2>7, <2>9, EarlyKeeps
<1> QED BY <1>4, <1>5, <1>6 DEF Prepare

\* A set whose members are equal has at most one; taking some away leaves the others.
LEMMA AtMostOne ==
  ASSUME NEW S, \A t, u \in S : t = u
  PROVE  /\ Cardinality(S) \in {0, 1} /\ (Cardinality(S) = 0 <=> S = {})
         /\ \A A \in SUBSET S : /\ Cardinality(A) \in {0, 1} /\ Cardinality(S \ A) = Cardinality(S) - Cardinality(A)
<1>1. \A A : A = {} \/ (\E t \in A : A = {t}) => Cardinality(A) \in {0, 1} /\ (Cardinality(A) = 0 <=> A = {})
  BY FS_EmptySet, FS_Singleton
<1>2. Cardinality({}) = 0 /\ \A A : (\E t \in A : A = {t}) => Cardinality(A) = 1
  BY FS_EmptySet, FS_Singleton
<1>3. CASE S = {}
  <2>1. \A A \in SUBSET S : A = {} /\ S \ A = {}
    BY <1>3
  <2> QED BY <1>2, <1>3, <2>1
<1>4. ASSUME NEW t \in S, S = {t} PROVE \A A \in SUBSET S : A = {} \/ A = {t}
  BY <1>4
<1>5. CASE S # {}
  <2>1. PICK t \in S : S = {t}
    BY <1>5
  <2>2. Cardinality(S) = 1
    BY <1>2, <2>1
  <2>3. ASSUME NEW A \in SUBSET S
        PROVE  Cardinality(A) \in {0, 1} /\ Cardinality(S \ A) = Cardinality(S) - Cardinality(A)
    <3>1. CASE A = {}
      <4>1. S \ A = S
        BY <3>1
      <4> QED BY <4>1, <3>1, <2>2, <1>2
    <3>2. CASE A = {t}
      <4>1. S \ A = {} /\ Cardinality(A) = 1
        BY <3>2, <2>1, <1>2
      <4> QED BY <4>1, <2>2, <1>2
    <3> QED BY <3>1, <3>2, <1>4, <2>1
  <2> QED BY <2>2, <2>3, <1>5
<1> QED BY <1>3, <1>5

\* Rounds that are counted are a number.
LEMMA PinsOK ==
  ASSUME Inv, NEW m \in Managers, NEW k, pins' = [pins EXCEPT ![m] = k], Rounds(m)', orphans' \in [Managers -> Nat]
  PROVE  pins' \in [Managers -> Nat]
<1>1. Cardinality(aux'[m]) \in {0, 1} /\ orphans'[m] \in Nat
  BY AtMostOne DEF Rounds
<1>2. Bit(flight'[m].hold) \in Nat /\ Bit(recov'[m] # NoRun) \in Nat
      /\ Bit((At(m, "turn") /\ flight[m].run.step \in Private /\ flight[m].run.intr = "none")') \in Nat
  BY DEF Bit
<1>3. pins'[m] \in Nat
  BY <1>1, <1>2 DEF Rounds
<1> QED BY <1>3 DEF Inv, TypeOK

\* The turns that may run while the record rests in a retryable phase are the waiting run's.
LEMMA RestsWaiting ==
  ASSUME Inv, rec.phase \in Retryable, NEW t \in Visible
  PROVE  /\ t.by \in Managers /\ NoWriter /\ t.gen = gen[t.by] /\ Unconfirmed(t.by, t)
<1>1. t.by \in Managers
  BY DEF Visible, Inv, TypeOK, Turn
<1>2. \A n \in Managers : ~Writing(n)
  BY DEF Inv, Manager, Within, Retryable, Ends
<1>3. Answered(t.by)
  BY <1>1 DEF Inv, Manager
<1> QED BY <1>1, <1>2, <1>3 DEF Answered, Current, Retryable, Ends, NoWriter

LEMMA InvConfirmOld ==
  ASSUME Inv, NEW m \in Managers, ConfirmOld(m)  PROVE Inv'
<1> DEFINE r == recov[m]
           S == IF r.intr = "reviewer" THEN TurnOf(m, r) ELSE {}
           A == IF r # NoRun THEN aux[m] ELSE {}
<1>1. At(m, "confirm") /\ Outside(m) /\ Holding(m) /\ RecordOK /\ Rounds(m) /\ TypeOK
  BY DEF ConfirmOld, Inv, Manager, Shared
<1>2. /\ flight[m].pc = "confirm" /\ flight[m].run = NoRun /\ ~flight[m].exist /\ ~flight[m].keep
      /\ ~flight[m].hold /\ flight[m].scope.attempt < MaxAttempts /\ flight[m].scope.phase \in Retryable
  BY <1>1 DEF Outside, At, Before, Chooses
<1>3. Fault \/ NoFault
  BY DEF ConfirmOld
<1>4. CASE End(m) /\ UNCHANGED <<live, aux, pins>>
  <2>1. Works1(m)
    BY <1>3, <1>4, NothingOK, WorksOf DEF ConfirmOld, End
  <2> QED BY <2>1, <1>2, <1>4, EarlyEnds DEF Before
<1>5. CASE /\ lease = m /\ To(m, "claim") /\ NoFault
           /\ live' = live \ (S \cup A) /\ aux' = [aux EXCEPT ![m] = @ \ A] /\ Unpin(m, Cardinality(A))
           /\ UNCHANGED lease
  <2> DEFINE f == [flight[m] EXCEPT !.pc = "claim"]
  <2>1. f \in Flight /\ Go(m, f)
    <3>1. flight[m] \in Flight /\ "claim" \in Pcs
      BY RunsOK DEF Inv, TypeOK, Pcs, Before
    <3> QED BY <3>1, <1>5, CallsOK DEF To
  <2>2. /\ f.pc = "claim" /\ f.run = NoRun /\ ~f.exist /\ ~f.keep /\ ~f.hold /\ f.scope = flight[m].scope
        /\ f.hold = flight[m].hold
    BY <1>2, RunsOK DEF Inv, Flight
  <2> HIDE DEF f
  <2>3. flight' \in [Managers -> Flight] /\ flight'[m] = f /\ \A n \in Managers \ {m} : flight'[n] = flight[n]
    BY <2>1, GoOK DEF Inv, TypeOK
  <2>4. A \in SUBSET aux[m] /\ aux[m] \in SUBSET Turn
    BY <1>1 DEF TypeOK
  <2>5. aux' \in [Managers -> SUBSET Turn] /\ aux'[m] = aux[m] \ A /\ \A n \in Managers \ {m} : aux'[n] = aux[n]
    BY <1>1, <1>5, <2>4 DEF TypeOK
  <2>6. pins'[m] = pins[m] - Cardinality(A) /\ \A n \in Managers \ {m} : pins'[n] = pins[n]
    BY <1>1, <1>5 DEF TypeOK, Unpin
  <2>7. Rounds(m)'
    <3>1. /\ Cardinality(aux[m]) \in {0, 1} /\ Cardinality(A) \in {0, 1}
          /\ Cardinality(aux[m] \ A) = Cardinality(aux[m]) - Cardinality(A)
      BY <1>1, <2>4, AtMostOne DEF Rounds
    <3>2. recov' = recov /\ orphans' = orphans /\ taken' = taken
      BY DEF ConfirmOld, ghostVars
    <3>3. orphans[m] \in Nat /\ Bit(flight[m].hold) = 0 /\ Bit(recov[m] # NoRun) \in Nat
      BY <1>1, <1>2 DEF TypeOK, Bit
    <3>4. ~At(m, "turn") /\ ~At(m, "turn")'
      BY <1>2, <2>2, <2>3 DEF At
    <3>5. pins[m] = Bit(recov[m] # NoRun) + Cardinality(aux[m]) + orphans[m]
      BY <1>1, <1>2, <3>1, <3>3, <3>4 DEF Rounds, Bit
    <3>6. pins'[m] = Bit(recov'[m] # NoRun) + Cardinality(aux'[m]) + orphans'[m]
      BY <2>5, <2>6, <3>1, <3>2, <3>3, <3>5
    <3>7. pins'[m] = Bit(flight'[m].hold) + 0 + Bit(recov'[m] # NoRun) + Cardinality(aux'[m]) + orphans'[m]
      BY <3>1, <3>2, <3>3, <3>6, <2>2, <2>3, <2>5 DEF Bit
    <3>8. \A t, u \in aux'[m] : t = u
      BY <1>1, <2>5 DEF Rounds
    <3> QED BY <3>2, <3>4, <3>7, <3>8, <1>1 DEF Rounds, Bit
  <2>8. pins' \in [Managers -> Nat]
    <3>1. orphans' \in [Managers -> Nat]
      BY <1>1 DEF TypeOK, ConfirmOld, ghostVars
    <3> QED BY <3>1, <2>7, <1>5, PinsOK DEF Unpin
  <2>9. Works1(m)
    <3>1. \A t \in live' : t \in live
      BY <1>5
    <3> QED BY <3>1, <1>3, <1>5, <2>3, <2>5, <2>6 DEF ConfirmOld, Works1, Acts, ghostVars
  <2>10. /\ rec' = rec /\ recov' = recov /\ alive' = alive /\ gen' = gen /\ down' = down /\ guard' = guard
    BY DEF ConfirmOld, sysVars
  <2>11. ~Writing(m) /\ ~Writing(m)' /\ ~At(m, "enter")
    BY <1>2, <2>2, <2>3 DEF Writing, At, Inside
  <2>12. Outside(m)'
    BY <1>2, <2>2, <2>3 DEF Outside, Before, Chooses
  <2>13. Within(m)' /\ Verdict(m)' /\ Owned(m)'
    <3>1. Within(m)'
      BY <2>2, <2>3, <2>11 DEF Within
    <3>3. ASSUME rec.phase \in Retryable, NEW t \in Visible', t.by = m PROVE FALSE
      <4>1. t \in live /\ t \notin S /\ t \notin A /\ t \in Visible
        BY <1>5, <2>10 DEF Visible
      <4>2. Unconfirmed(m, t)
        BY <3>3, <4>1, RestsWaiting
      <4>3. t \in TurnOf(m, r) /\ t.on = r.intr /\ (t.on = "auxiliary" => t \in aux[m])
        BY <4>2 DEF Unconfirmed, TurnOf
      <4>4. t.on \in {"reviewer", "auxiliary"}
        BY <4>1, <1>1 DEF TypeOK, Turn
      <4>5. r # NoRun
        BY <4>3, <4>4 DEF NoRun
      <4> QED BY <4>1, <4>3, <4>4, <4>5
    <3>4. Verdict(m)'
      BY <2>2, <2>3, <2>10, <3>3 DEF Verdict
    <3>2. Owned(m)'
      BY <1>2, <2>2, <2>3, <2>10 DEF Inv, Manager, Owned, Spent, ConfirmOld, ghostVars
    <3> QED BY <3>1, <3>2, <3>4
  <2>14. Answered(m)'
    <3>1. CASE r # NoRun
      <4>1. \A t \in live' : t \in aux[m] => t \in aux'[m]
        BY <3>1, <1>5
      <4> QED BY <4>1, <2>9, <2>11, StillAnswered
    <3>2. CASE r = NoRun
      <4>1. \A t \in live' : t \in aux[m] => t \in aux'[m]
        BY <3>2, <2>5
      <4> QED BY <4>1, <2>9, <2>11, StillAnswered
    <3> QED BY <3>1, <3>2
  <2>15. ASSUME rec = flight[m].scope, alive[m] = "up" PROVE Visible' = {} /\ GuardClear
    <3>1. /\ (r # NoRun => Recovers(r)) /\ ~r.term
          /\ rec.retry.kind = "cleanup" => CleanupConfirmed
          /\ r = NoRun /\ rec.retry.intr # "none" => rec.retry.kind = "cleanup" \/ Exited(rec.retry.by, rec.retry.gen)
      BY <1>1, <1>2, <1>5, <2>15 DEF Holding
    <3>2. rec.phase \in Retryable
      BY <1>2, <2>15
    <3>3. GuardClear
      <4> SUFFICES ASSUME ~GuardClear PROVE FALSE
        OBVIOUS
      <4>1. rec.retry.kind = "cleanup" /\ rec.retry.by = guard.by /\ rec.retry.gen = guard.gen
        BY <3>2 DEF Inv, Shared, Guarded, Retryable, Ends
      <4> QED BY <3>1, <4>1 DEF CleanupConfirmed, GuardClear
    <3>4. ASSUME NEW t \in Visible' PROVE FALSE
      <4>1. t \in live /\ t \notin S /\ t \notin A /\ t \in Visible
        BY <1>5, <2>10 DEF Visible
      <4>2. t.by \in Managers /\ t.gen = gen[t.by] /\ Unconfirmed(t.by, t)
        BY <3>2, <4>1, RestsWaiting
      <4> DEFINE n == t.by
      <4>3. /\ t \in live /\ t.gen = recov[n].igen /\ t.att = recov[n].att /\ t.on = recov[n].intr
            /\ rec.proc = "waiting" /\ recov[n].att = rec.attempt
            /\ recov[n].term => guard = GuardedFor(recov[n], n)
            /\ t.on = "auxiliary" => t \in aux[n]
        BY <4>2 DEF Unconfirmed, TurnOf
      <4>4. t.on \in {"reviewer", "auxiliary"} /\ t.att > 0
        <5>1. t \in Turn
          BY <4>1, <1>1 DEF TypeOK
        <5> QED BY <5>1, NumbersOK DEF Turn
      <4>5. recov[n] # NoRun
        BY <4>3, <4>4 DEF NoRun
      <4>6. CASE n = m
        <5>1. t.on = "reviewer" => t \in S
          BY <4>3, <4>6 DEF TurnOf
        <5>2. t.on = "auxiliary" => t \in A
          BY <4>3, <4>5, <4>6
        <5> QED BY <4>1, <4>4, <5>1, <5>2
      <4>7. CASE n # m
        <5>1. r = NoRun
          <6>1. r # NoRun => Has(m, rec.attempt) /\ Has(n, rec.attempt)
            BY <3>1, <4>3 DEF Recovers, Has
          <6>2. rec.attempt \in 1 .. MaxAttempts
            BY <4>3, <4>4, <1>1, NumbersOK DEF TypeOK, Record
          <6> QED BY <6>1, <6>2, <4>2, <4>7 DEF Inv, Shared, OneRun
        <5>2. rec.retry = Retained(n, recov[n])
          BY <4>2, <4>3, <4>5 DEF Inv, Manager, Parked
        <5>3. rec.retry.intr = t.on /\ rec.retry.by = n /\ rec.retry.gen = t.gen
              /\ rec.retry.kind = (IF recov[n].term THEN "cleanup" ELSE "continue")
          BY <5>2, <4>3, <4>4 DEF Retained
        <5>4. CASE recov[n].term
          <6>1. CleanupConfirmed /\ guard = GuardedFor(recov[n], n)
            BY <3>1, <4>3, <5>3, <5>4
          <6> QED BY <6>1, <5>3, <4>3 DEF CleanupConfirmed, GuardedFor
        <5>5. CASE ~recov[n].term
          <6>1. Exited(n, t.gen)
            BY <3>1, <5>1, <5>3, <5>5, <4>4
          <6> QED BY <6>1, <4>2, <1>1 DEF Exited, TypeOK, Gens
        <5> QED BY <5>4, <5>5
      <4> QED BY <4>6, <4>7
    <3> QED BY <3>3, <3>4
  <2>16. Holding(m)'
    <3>1. rec.attempt = flight[m].scope.attempt /\ (rec = flight[m].scope \/ rec.phase = "cancelled"
             \/ (flight[m].scope.proc = "waiting" /\ rec.proc = "failed"))
      BY <1>1, <1>2, <1>5 DEF Holding
    <3>2. GuardClear => GuardClear'
      BY <2>10 DEF GuardClear, Exited
    <3> QED BY <2>2, <2>3, <2>10, <2>15, <3>1, <3>2 DEF Holding
  <2>17. flight'[m].run.att = 0
    BY <2>2, <2>3 DEF NoRun
  <2> QED BY <2>3, <2>5, <2>7, <2>8, <2>9, <2>11, <2>12, <2>13, <2>14, <2>16, <2>17, WorksKeeps
<1> QED BY <1>4, <1>5 DEF ConfirmOld

\* A call that has not entered a run and holds no round may end at any time.
LEMMA EarlyGivesUp ==
  ASSUME Inv, NEW m \in Managers, flight[m].pc \in Before, ~flight[m].hold, End(m), Fault \/ NoFault,
         UNCHANGED <<rec, ws, guard, sysVars, live, recov, aux, pins, ghostVars>>
  PROVE  Inv'
<1>1. Works1(m)
  BY NothingOK, WorksOf DEF End
<1> QED BY <1>1, EarlyEnds

\* A call that has not entered a run moves on to a later point of its admission.
LEMMA EarlyMoves ==
  ASSUME Inv, NEW m \in Managers, NEW p \in {"acknowledge"}, At(m, "verify"), To(m, p), NoFault,
         UNCHANGED <<rec, ws, lease, guard, sysVars, live, recov, aux, pins, ghostVars>>
  PROVE  Inv'
<1> DEFINE f == [flight[m] EXCEPT !.pc = p]
<1>1. f \in Flight /\ Go(m, f)
  <2>1. flight[m] \in Flight /\ p \in Pcs
    BY RunsOK DEF Inv, TypeOK, Pcs, Before
  <2> QED BY <2>1, CallsOK DEF To
<1>2. Outside(m) /\ flight[m].pc = "verify"
  BY DEF Inv, Manager, At
<1>3. /\ f.pc = p /\ f.run = NoRun /\ ~f.exist /\ ~f.keep /\ ~f.hold /\ f.hold = flight[m].hold
  BY <1>2, RunsOK DEF Inv, Flight, Outside, Before
<1> HIDE DEF f
<1>4. Works1(m)
  BY <1>1, WorksOf
<1>5. flight'[m] = f
  BY <1>1, GoOK DEF Inv, TypeOK
<1>6. Outside(m)' /\ Holding(m)'
  BY <1>2, <1>3, <1>5 DEF Outside, Holding, Before, Chooses
<1>7. f.pc \in Before \ {"claim"} /\ flight[m].pc \in Before
  BY <1>2, <1>3 DEF Before
<1> QED BY <1>1, <1>3, <1>4, <1>6, <1>7, EarlyKeeps

LEMMA InvResume ==
  ASSUME Inv, NEW m \in Managers, Resume(m)  PROVE Inv'
<1>1. flight[m] = NoFlight
  BY DEF Inv, Manager, Outside, Resume, At
<1>2. PICK p \in {"cleanup", "verify"} :
        /\ Go(m, [NoFlight EXCEPT !.pc = p])
        /\ p = "verify" => CanContinue(m) /\ rec.attempt < MaxAttempts
  BY DEF Resume
<1> DEFINE f == [NoFlight EXCEPT !.pc = p]
<1>3. f \in Flight /\ Go(m, f)
  <2>1. p \in Pcs
    BY DEF Pcs, Before
  <2> QED BY <1>2, <2>1, NothingOK, CallsOK
<1>4. f.pc = p /\ f.run = NoRun /\ ~f.exist /\ ~f.keep /\ ~f.hold /\ f.hold = flight[m].hold
  BY <1>1 DEF NoFlight
<1> HIDE DEF f
<1>5. Works1(m)
  BY <1>3, WorksOf DEF Resume
<1>6. flight'[m] = f
  BY <1>3, GoOK DEF Inv, TypeOK
<1>7. recov' = recov
  BY DEF Resume
<1>8. p = "verify" => ~recov[m].term /\ recov[m].att < MaxAttempts
  BY <1>2 DEF CanContinue, Recovers
<1>9. Outside(m)' /\ Holding(m)'
  BY <1>4, <1>6, <1>7, <1>8 DEF Outside, Holding, Before, Chooses
<1>10. f.pc \in Before \ {"claim"} /\ flight[m].pc = "none" /\ UNCHANGED <<live, aux, pins>>
  BY <1>1, <1>4 DEF Before, NoFlight, Resume
<1> QED BY <1>3, <1>4, <1>5, <1>9, <1>10, EarlyKeeps

LEMMA InvRetire ==
  ASSUME Inv, NEW m \in Managers, Retire(m)  PROVE Inv'
<1>1. At(m, "retire") /\ Outside(m) /\ Holding(m) /\ RecordOK /\ Rounds(m) /\ TypeOK
  BY DEF Retire, Inv, Manager, Shared
<1>2. /\ flight[m].pc = "retire" /\ flight[m].run = NoRun /\ ~flight[m].exist /\ ~flight[m].keep
      /\ flight[m].scope.attempt < MaxAttempts /\ flight[m].scope.phase \in Retryable
  BY <1>1 DEF Outside, At, Before, Chooses
<1>3. /\ rec' = rec /\ recov' = recov /\ alive' = alive /\ gen' = gen /\ down' = down /\ guard' = guard
      /\ live' = live /\ aux' = aux /\ orphans' = orphans /\ taken' = taken /\ autos' = autos /\ NoFault
  BY DEF Retire, sysVars, ghostVars
<1>4. PICK f \in Flight :
        /\ Go(m, f) /\ f.run = NoRun /\ ~f.hold /\ ~f.keep
        /\ \/ f = NoFlight /\ Release(m)
           \/ /\ f.pc = "enter" /\ f.scope = flight[m].scope /\ lease' = lease /\ lease = m
              /\ rec = flight[m].scope /\ Startable /\ ~f.exist /\ f.exist = f.hold
  <2>1. CASE End(m)
    BY <2>1, NothingOK DEF End, NoFlight
  <2>2. CASE /\ Able(m) /\ rec = flight[m].scope /\ Startable
             /\ Go(m, [flight[m] EXCEPT !.pc = "enter", !.hold = FALSE]) /\ UNCHANGED lease
    <3> DEFINE f == [flight[m] EXCEPT !.pc = "enter", !.hold = FALSE]
    <3>1. flight[m] \in Flight
      BY RunsOK DEF Inv
    <3>2. f \in Flight
      BY <3>1 DEF Flight
    <3>3. f.pc = "enter" /\ f.scope = flight[m].scope /\ f.run = NoRun /\ ~f.hold /\ ~f.exist /\ f.exist = f.hold
          /\ ~f.keep
      BY <3>1, <1>2 DEF Flight
    <3> QED BY <2>2, <3>2, <3>3 DEF Able
  <2> QED BY <2>1, <2>2 DEF Retire
<1>5. flight' \in [Managers -> Flight] /\ flight'[m] = f /\ \A n \in Managers \ {m} : flight'[n] = flight[n]
  BY <1>4, GoOK DEF Inv, TypeOK
<1>6. pins'[m] = pins[m] - Bit(flight[m].hold) /\ \A n \in Managers \ {m} : pins'[n] = pins[n]
  BY <1>1 DEF Retire, TypeOK, Unpin
<1>7. Works1(m)
  <2>1. lease' \in {lease, Nobody, m} /\ (lease' = m => lease \in {m, Nobody})
    BY <1>4, NumbersOK DEF Release
  <2> QED BY <1>3, <1>5, <1>6, <2>1 DEF Retire, Works1, Acts, ghostVars
<1>8. ~Writing(m) /\ ~Writing(m)' /\ ~At(m, "enter") /\ ~At(m, "turn") /\ ~At(m, "turn")' /\ f.pc \in {"none", "enter"}
  BY <1>2, <1>4, <1>5 DEF Writing, At, Inside, NoFlight
<1>9. Rounds(m)'
  <2>1. Cardinality(aux[m]) \in {0, 1} /\ orphans[m] \in Nat
    BY <1>1, AtMostOne DEF Rounds, TypeOK
  <2>2. Bit(flight[m].hold) \in Nat /\ Bit(recov[m] # NoRun) \in Nat /\ Bit(flight'[m].hold) = 0
    BY <1>4, <1>5 DEF Bit
  <2> DEFINE b == Bit(flight[m].hold)
  <2>3. pins[m] = b + 0 + Bit(recov[m] # NoRun) + Cardinality(aux[m]) + orphans[m]
    BY <1>1, <1>8 DEF Rounds, Bit
  <2>4. pins'[m] = pins[m] - b
    BY <1>6
  <2>5. b \in Nat
    BY <2>2
  <2> HIDE DEF b
  <2>6. pins'[m] = 0 + 0 + Bit(recov[m] # NoRun) + Cardinality(aux[m]) + orphans[m]
    BY <2>1, <2>2, <2>3, <2>4, <2>5
  <2>7. pins'[m] = Bit(flight'[m].hold) + 0 + Bit(recov'[m] # NoRun) + Cardinality(aux'[m]) + orphans'[m]
    BY <2>2, <2>6, <1>3
  <2> QED BY <1>1, <1>3, <1>8, <2>7 DEF Rounds, Bit
<1>10. pins' \in [Managers -> Nat] /\ aux' \in [Managers -> SUBSET Turn]
  BY <1>1, <1>3, <1>9, PinsOK DEF Retire, Unpin, TypeOK
<1>11. Outside(m)'
  BY <1>2, <1>4, <1>5 DEF Outside, Before, Chooses, NoFlight
<1>12. Within(m)' /\ Verdict(m)'
  BY <1>5, <1>8 DEF Within, Verdict
<1>13. Owned(m)' /\ flight'[m].run.att = 0
  BY <1>2, <1>3, <1>4, <1>5 DEF Inv, Manager, Owned, Spent, NoRun
<1>14. Answered(m)'
  BY <1>3, <1>7, <1>8, StillAnswered
<1>15. Holding(m)'
  <2> SUFFICES ASSUME lease' = m PROVE Holding(m)'
    BY DEF Holding
  <2>1. CASE f = NoFlight
    BY <1>5, <2>1 DEF Holding, NoFlight
  <2>2. CASE /\ f.pc = "enter" /\ f.scope = flight[m].scope /\ lease = m
             /\ rec = flight[m].scope /\ Startable /\ ~f.exist
    <3>1. Visible = {} /\ GuardClear /\ rec.proc = "none" /\ recov[m] = NoRun /\ rec.attempt = flight[m].scope.attempt
      BY <1>1, <1>2, <2>2 DEF Holding
    <3>2. Visible' = {} /\ (GuardClear <=> GuardClear')
      BY <1>3, <3>1 DEF Visible, GuardClear, Exited
    <3> QED BY <1>3, <1>5, <2>2, <3>1, <3>2 DEF Holding, Startable
  <2> QED BY <1>4, <2>1, <2>2
<1> QED BY <1>5, <1>7, <1>8, <1>9, <1>10, <1>11, <1>12, <1>13, <1>14, <1>15, WorksKeeps

\* The abort of a call is a mark that its next step reads.
LEMMA InvAborted ==
  ASSUME Inv, NEW m \in Managers, Aborted(m)  PROVE Inv'
<1> DEFINE f == [flight[m] EXCEPT !.abort = TRUE]
<1>1. TypeOK /\ Manager(m) /\ flight[m] \in Flight /\ ~At(m, "none")
  BY RunsOK DEF Inv, Aborted
<1>2. f \in Flight
  BY <1>1 DEF Flight
<1>3. Go(m, f)
  BY <1>1 DEF Aborted, Abort, Go
<1>4. /\ f.pc = flight[m].pc /\ f.run = flight[m].run /\ f.exist = flight[m].exist /\ f.keep = flight[m].keep
      /\ f.hold = flight[m].hold /\ f.scope = flight[m].scope /\ f.thread = flight[m].thread
      /\ f.read = flight[m].read /\ f.err = flight[m].err
  BY <1>1 DEF Flight
<1> HIDE DEF f
<1>5. Works1(m)
  BY <1>2, <1>3, WorksOf DEF Aborted
<1>6. flight' \in [Managers -> Flight] /\ flight'[m] = f /\ \A n \in Managers \ {m} : flight'[n] = flight[n]
  BY <1>1, <1>2, <1>3, GoOK DEF TypeOK
<1>7. /\ rec' = rec /\ recov' = recov /\ alive' = alive /\ gen' = gen /\ down' = down /\ guard' = guard
      /\ live' = live /\ aux' = aux /\ orphans' = orphans /\ taken' = taken /\ autos' = autos /\ pins' = pins
      /\ lease' = lease
  BY DEF Aborted, sysVars, ghostVars
<1>8. \A s : At(m, s)' <=> At(m, s)
  BY <1>4, <1>6 DEF At
<1>9. Writing(m)' <=> Writing(m)
  BY <1>4, <1>6 DEF Writing
<1>10. Outside(m)'
  BY <1>1, <1>4, <1>6, <1>7, <1>8 DEF Manager, Outside, Recovers, At
<1>11. Within(m)'
  BY <1>1, <1>4, <1>6, <1>7, <1>9 DEF Manager, Within, Formed
<1>12. Holding(m)'
  <2>1. Visible' = Visible /\ (GuardClear' <=> GuardClear) /\ (CleanupConfirmed' <=> CleanupConfirmed)
    BY <1>7 DEF Visible, GuardClear, Exited, CleanupConfirmed
  <2> QED BY <1>1, <1>4, <1>6, <1>7, <2>1 DEF Manager, Holding, Recovers, Exited
<1>13. Answered(m)'
  <2>1. Visible' = Visible
    BY <1>7 DEF Visible
  <2>2. NoWriter' <=> NoWriter
    BY <1>6, <1>9 DEF NoWriter, Writing
  <2>3. \A t : Current(m, t)' <=> Current(m, t)
    BY <1>4, <1>6, <1>7, <1>8, <1>9 DEF Current
  <2>4. \A t : Unconfirmed(m, t)' <=> Unconfirmed(m, t)
    BY <1>7 DEF Unconfirmed, TurnOf, GuardedFor
  <2> QED BY <1>1, <1>7, <2>1, <2>2, <2>3, <2>4 DEF Manager, Answered
<1>14. Verdict(m)' /\ Owned(m)'
  <2>1. Visible' = Visible
    BY <1>7 DEF Visible
  <2>2. Verdict(m)'
    BY <1>1, <1>4, <1>6, <1>7, <2>1 DEF Manager, Verdict
  <2> QED BY <2>2, <1>1, <1>4, <1>6, <1>7 DEF Manager, Owned, Spent
<1>15. Rounds(m)'
  BY <1>1, <1>4, <1>6, <1>7, <1>8 DEF Manager, Rounds
<1>16. aux' \in [Managers -> SUBSET Turn] /\ pins' \in [Managers -> Nat]
  BY <1>1, <1>7 DEF TypeOK
<1>17. flight'[m].run.att \in {0, flight[m].run.att} /\ flight'[m].run = flight[m].run
  BY <1>4, <1>6
<1> QED BY <1>5, <1>6, <1>8, <1>9, <1>10, <1>11, <1>12, <1>13, <1>14, <1>15, <1>16, <1>17, WorksKeeps

----------------------------------------------------------------------------
(* The run.                                                                  *)
\* A call inside a run is alone: nobody else writes, and no turn but its own may run.
LEMMA WriterAlone ==
  ASSUME Inv, NEW m \in Managers, Writing(m)
  PROVE  /\ \A n \in Managers : Writing(n) => n = m
         /\ \A t \in Visible : t.by = m /\ t.gen = gen[m] /\ Current(m, t)
         /\ flight[m].run.att = rec.attempt /\ rec.attempt \in 1 .. MaxAttempts /\ rec.phase \in Ends
         /\ \A n \in Managers \ {m} : ~Has(n, rec.attempt)
<1>1. /\ flight[m].run.att = rec.attempt /\ rec.attempt > 0 /\ rec.phase \in Ends
  BY DEF Inv, Manager, Within
<1>2. rec.attempt \in 1 .. MaxAttempts
  BY <1>1, NumbersOK DEF Inv, TypeOK, Record
<1>3. \A n \in Managers \ {m} : ~Has(n, rec.attempt)
  BY <1>1, <1>2 DEF Inv, Shared, OneRun, Has
<1>4. \A n \in Managers : Writing(n) => n = m
  BY <1>3 DEF Inv, Manager, Within, Has
<1>5. ASSUME NEW t \in Visible PROVE t.by = m /\ t.gen = gen[m] /\ Current(m, t)
  <2>1. t.by \in Managers
    BY DEF Visible, Inv, TypeOK, Turn
  <2>2. /\ t.gen = gen[t.by]
        /\ Current(t.by, t) \/ (NoWriter /\ (Unconfirmed(t.by, t) \/ rec.phase \in Ends))
    BY <2>1 DEF Inv, Manager, Answered
  <2>3. Writing(t.by)
    BY <2>2 DEF NoWriter, Current
  <2>4. t.by = m
    BY <2>1, <2>3, <1>4
  <2> QED BY <2>2, <2>4 DEF NoWriter
<1> QED BY <1>1, <1>2, <1>3, <1>4, <1>5

\* The turn a call waits for is the one it has started.
LEMMA MineIsCurrent ==
  ASSUME Inv, NEW m \in Managers, NEW t \in Visible, Writing(m), At(m, "turn")
  PROVE  t = MyTurn(m)
<1>1. t.by = m /\ Current(m, t)
  BY WriterAlone
<1>2. t \in Turn
  BY DEF Visible, Inv, TypeOK
<1>3. t = [by |-> t.by, gen |-> t.gen, att |-> t.att, on |-> t.on]
  BY <1>2 DEF Turn
<1> QED BY <1>1, <1>3 DEF Current, MyTurn

\* A call inside a run keeps the invariant when it keeps its attempt, its round and
\* its continuation, and answers for the turn that may still run.
LEMMA InsideKeeps ==
  ASSUME Inv, NEW m \in Managers, NEW f \in Flight, Writing(m), Works1(m), Go(m, f),
         f.pc \in Inside \cup {"finally"}, f.run.att = flight[m].run.att, f.run.auto = flight[m].run.auto,
         f.hold = flight[m].hold, f.keep = flight[m].keep, f.run.term = flight[m].run.term,
         f.pc # "finally" => /\ Formed(m)'
                             /\ \A t \in Visible' : Current(m, t) => Current(m, t)',
         Verdict(m)', Rounds(m)', aux' \in [Managers -> SUBSET Turn], pins' \in [Managers -> Nat]
  PROVE  Inv'
<1>1. flight' \in [Managers -> Flight] /\ flight'[m] = f
  BY GoOK DEF Inv, TypeOK
<1>2. rec' = rec /\ recov' = recov /\ taken' = taken /\ autos' = autos
  BY DEF Works1, ghostVars
<1>3. /\ flight[m].hold /\ ~flight[m].keep /\ flight[m].run.att = rec.attempt /\ flight[m].run.att > 0 
      /\ rec.phase \in Ends /\ recov[m].att < flight[m].run.att /\ ~flight[m].run.term
      /\ recov[m] = NoRun \/ m \in taken
  BY DEF Inv, Manager, Within
<1>4. ~At(m, "enter") /\ f.pc \notin Before \cup Chooses \cup {"none", "enter"}
  BY DEF Writing, Inside, At, Before, Chooses
<1>5. Outside(m)' /\ Holding(m)'
  BY <1>1, <1>4 DEF Outside, Holding, Before, Chooses
<1>6. Within(m)'
  BY <1>1, <1>2, <1>3 DEF Within, Writing, Inside
<1>7. Answered(m)'
  <2> SUFFICES ASSUME NEW t \in Visible', t.by = m
               PROVE  /\ t.gen = gen'[m]
                      /\ Current(m, t)' \/ (NoWriter' /\ (Unconfirmed(m, t)' \/ rec'.phase \in Ends))
    BY DEF Answered
  <2>1. t \in Visible
    BY DEF Visible, Works1, sysVars
  <2>2. t.gen = gen'[m] /\ Current(m, t)
    BY <2>1, WriterAlone DEF Works1, sysVars
  <2>3. CASE f.pc # "finally"
    BY <2>2, <2>3
  <2>4. CASE f.pc = "finally"
    <3>1. NoWriter'
      <4>1. ~Writing(m)'
        BY <1>1, <2>4 DEF Writing, Inside
      <4>2. \A n \in Managers \ {m} : flight'[n] = flight[n] /\ ~Writing(n)
        BY WriterAlone DEF Works1, Acts
      <4> QED BY <4>1, <4>2 DEF NoWriter, Writing
    <3> QED BY <3>1, <2>2, <1>2, <1>3
  <2> QED BY <2>3, <2>4
<1>8. Owned(m)'
  BY <1>1, <1>2 DEF Inv, Manager, Owned, Spent
<1> QED BY <1>1, <1>4, <1>5, <1>6, <1>7, <1>8, WorksKeeps

\* The step that leaves its run as it is: a check that fails, a turn not waited for.
LEMMA InsideMoves ==
  ASSUME Inv, NEW m \in Managers, NEW f \in Flight, Writing(m), Go(m, f), ~At(m, "turn"), Fault \/ NoFault,
         UNCHANGED <<rec, ws, lease, guard, sysVars, live, recov, aux, pins, ghostVars>>,
         f.pc \in (Inside \ {"turn"}) \cup {"finally"}, f.run = flight[m].run,
         f.hold = flight[m].hold, f.keep = flight[m].keep,
         f.pc # "finally" => Formed(m)', Verdict(m)'
  PROVE  Inv'
<1>1. flight' \in [Managers -> Flight] /\ flight'[m] = f
  BY GoOK DEF Inv, TypeOK
<1>2. Works1(m)
  BY WorksOf
<1>3. ~At(m, "turn")'
  BY <1>1 DEF At
<1>4. Rounds(m)'
  BY <1>1, <1>3 DEF Inv, Manager, Rounds, ghostVars
<1>5. ASSUME f.pc # "finally", NEW t \in Visible', Current(m, t) PROVE Current(m, t)'
  BY <1>1, <1>5 DEF Current, At, Writing
<1>6. aux' \in [Managers -> SUBSET Turn] /\ pins' \in [Managers -> Nat]
  BY DEF Inv, TypeOK
<1> QED BY <1>1, <1>2, <1>4, <1>5, <1>6, InsideKeeps

Errors == {"none", "recoverable", "spent", "interrupted", "rejected", "evidence", "fatal"}
\* A run whose turn has ended fails, one whose turn may still run is caught with it, and
\* one that is over leaves.
LEMMA InsideThrows ==
  ASSUME Inv, NEW m \in Managers, NEW e \in Errors \ {"rejected"}, Writing(m), ~At(m, "turn"),
         flight[m].run.intr = "none", Throw(m, e), Fault \/ NoFault,
         UNCHANGED <<rec, ws, lease, guard, sysVars, live, recov, aux, pins, ghostVars>>
  PROVE  Inv'
<1> DEFINE f == [flight[m] EXCEPT !.pc = "catch", !.err = e]
<1>1. flight[m] \in Flight /\ Formed(m)
  BY RunsOK DEF Inv, Manager, Within
<1>2. f \in Flight
  BY <1>1, CallsOK DEF Pcs, Inside, Errors
<1>3. f.pc = "catch" /\ f.run = flight[m].run /\ f.hold = flight[m].hold /\ f.keep = flight[m].keep /\ f.err # "rejected"
  BY <1>1 DEF Flight
<1>4. Go(m, f)
  BY DEF Throw
<1> HIDE DEF f
<1>5. flight'[m] = f
  BY <1>2, <1>4, GoOK DEF Inv, TypeOK
<1>6. Formed(m)'
  BY <1>1, <1>3, <1>5 DEF Formed, At
<1>7. Verdict(m)'
  BY <1>3, <1>5 DEF Verdict
<1>8. f.pc \in (Inside \ {"turn"}) \cup {"finally"}
  BY <1>3 DEF Inside
<1> QED BY <1>2, <1>3, <1>4, <1>6, <1>7, <1>8, InsideMoves

LEMMA InsideCatches ==
  ASSUME Inv, NEW m \in Managers, At(m, "retry"), To(m, "catch"), Fault \/ NoFault,
         UNCHANGED <<rec, ws, lease, guard, sysVars, live, recov, aux, pins, ghostVars>>
  PROVE  Inv'
<1> DEFINE f == [flight[m] EXCEPT !.pc = "catch"]
<1>0. Writing(m) /\ ~At(m, "turn") /\ flight[m].pc = "retry"
  BY DEF Writing, At, Inside
<1>1. flight[m] \in Flight /\ Formed(m)
  BY <1>0, RunsOK DEF Inv, Manager, Within
<1>2. f \in Flight
  BY <1>1, CallsOK DEF Pcs, Inside
<1>3. f.pc = "catch" /\ f.run = flight[m].run /\ f.hold = flight[m].hold /\ f.keep = flight[m].keep
      /\ f.thread = flight[m].thread /\ f.err = flight[m].err
  BY <1>1 DEF Flight
<1>4. Go(m, f)
  BY DEF To
<1> HIDE DEF f
<1>5. flight'[m] = f
  BY <1>2, <1>4, GoOK DEF Inv, TypeOK
<1>6. Formed(m)'
  BY <1>0, <1>1, <1>3, <1>5 DEF Formed
<1>7. Verdict(m)'
  BY <1>3, <1>5 DEF Verdict
<1>8. f.pc \in (Inside \ {"turn"}) \cup {"finally"}
  BY <1>3 DEF Inside
<1> QED BY <1>0, <1>2, <1>3, <1>4, <1>6, <1>7, <1>8, InsideMoves

LEMMA InsideLeaves ==
  ASSUME Inv, NEW m \in Managers, Writing(m), ~At(m, "turn"), To(m, "finally"), Fault \/ NoFault,
         UNCHANGED <<rec, ws, lease, guard, sysVars, live, recov, aux, pins, ghostVars>>
  PROVE  Inv'
<1> DEFINE f == [flight[m] EXCEPT !.pc = "finally"]
<1>1. flight[m] \in Flight
  BY RunsOK DEF Inv
<1>2. f \in Flight
  BY <1>1, CallsOK DEF Pcs
<1>3. f.pc = "finally" /\ f.run = flight[m].run /\ f.hold = flight[m].hold /\ f.keep = flight[m].keep
  BY <1>1 DEF Flight
<1>4. Go(m, f)
  BY DEF To
<1> HIDE DEF f
<1>5. flight'[m] = f
  BY <1>2, <1>4, GoOK DEF Inv, TypeOK
<1>6. Verdict(m)'
  BY <1>3, <1>5 DEF Verdict
<1> QED BY <1>2, <1>3, <1>4, <1>6, InsideMoves

\* A run that waits for no turn of its own has none to answer for.
LEMMA NoInterrupt ==
  ASSUME Inv, NEW m \in Managers, Writing(m), flight[m].pc \notin {"retry", "catch"}
  PROVE  flight[m].run.intr = "none"
BY DEF Inv, Manager, Within, Formed

LEMMA InvCreate ==
  ASSUME Inv, NEW m \in Managers, Create(m)  PROVE Inv'
<1>1. flight[m].pc = "create" /\ Writing(m) /\ ~At(m, "turn")
  BY DEF Create, At, Writing, Inside
<1>2. flight[m].run.intr = "none" /\ flight[m] \in Flight /\ Formed(m) /\ flight[m].run \in Run
  BY <1>1, NoInterrupt, RunsOK DEF Inv, Manager, Within
<1>3. Fault \/ NoFault
  BY DEF Create
<1>4. CASE Throw(m, "fatal")
  BY <1>1, <1>2, <1>3, <1>4, InsideThrows DEF Create, Errors
<1>5. ASSUME NEW f \in Flight, Go(m, f), f.run = [flight[m].run EXCEPT !.gen = gen[m]],
             f.hold = flight[m].hold, f.keep = flight[m].keep,
             (f.pc = "stage" /\ f.thread = "bound") \/ (f.pc = "catch" /\ f.err = "fatal")
      PROVE  Inv'
  <2>1. /\ f.run.att = flight[m].run.att /\ f.run.auto = flight[m].run.auto /\ f.run.term = flight[m].run.term
        /\ f.run.intr = "none" /\ f.run.igen = flight[m].run.igen /\ f.run.ev = flight[m].run.ev
    BY <1>2, <1>5 DEF Run
  <2>2. flight'[m] = f
    BY <1>5, GoOK DEF Inv, TypeOK
  <2>3. Works1(m)
    BY <1>3, <1>5, WorksOf DEF Create
  <2>4. Formed(m)'
    BY <1>1, <1>2, <1>5, <2>1, <2>2 DEF Formed, Create
  <2>5. Verdict(m)' /\ ~At(m, "turn")' /\ f.pc \in Inside
    BY <1>5, <2>2 DEF Verdict, At, Inside
  <2>6. Rounds(m)'
    BY <1>1, <1>5, <2>2, <2>5 DEF Inv, Manager, Rounds, Create, ghostVars
  <2>7. ASSUME NEW t \in Visible', Current(m, t) PROVE Current(m, t)'
    BY <2>7, <1>1, <1>2 DEF Current
  <2>8. aux' \in [Managers -> SUBSET Turn] /\ pins' \in [Managers -> Nat]
    BY DEF Inv, TypeOK, Create
  <2> QED BY <1>1, <1>5, <2>1, <2>3, <2>4, <2>5, <2>6, <2>7, <2>8, InsideKeeps
<1>6. CASE Go(m, [flight[m] EXCEPT !.pc = "stage", !.thread = "bound", !.run.gen = gen[m]])
  <2> DEFINE f == [flight[m] EXCEPT !.pc = "stage", !.thread = "bound", !.run.gen = gen[m]]
  <2>1. [flight[m].run EXCEPT !.gen = gen[m]] \in Run
    BY <1>2 DEF Run, Inv, TypeOK
  <2>2. f \in Flight
    BY <1>2, <2>1 DEF Flight
  <2>3. f.run = [flight[m].run EXCEPT !.gen = gen[m]] /\ f.hold = flight[m].hold /\ f.keep = flight[m].keep
        /\ f.pc = "stage" /\ f.thread = "bound"
    BY <1>2 DEF Flight
  <2> QED BY <1>5, <1>6, <2>2, <2>3
<1>7. CASE Go(m, [flight[m] EXCEPT !.pc = "catch", !.err = "fatal", !.thread = "unbound", !.run.gen = gen[m]])
  <2> DEFINE f == [flight[m] EXCEPT !.pc = "catch", !.err = "fatal", !.thread = "unbound", !.run.gen = gen[m]]
  <2>1. [flight[m].run EXCEPT !.gen = gen[m]] \in Run
    BY <1>2 DEF Run, Inv, TypeOK
  <2>2. f \in Flight
    BY <1>2, <2>1 DEF Flight
  <2>3. f.run = [flight[m].run EXCEPT !.gen = gen[m]] /\ f.hold = flight[m].hold /\ f.keep = flight[m].keep
        /\ f.pc = "catch" /\ f.err = "fatal"
    BY <1>2 DEF Flight
  <2> QED BY <1>5, <1>7, <2>2, <2>3
<1> QED BY <1>4, <1>6, <1>7 DEF Create

LEMMA InvFinal ==
  ASSUME Inv, NEW m \in Managers, Final(m)  PROVE Inv'
<1>1. flight[m].pc = "final" /\ Writing(m) /\ ~At(m, "turn")
  BY DEF Final, At, Writing, Inside
<1>2. flight[m].run.intr = "none" /\ flight[m] \in Flight /\ Formed(m) /\ Verdict(m)
  BY <1>1, NoInterrupt, RunsOK DEF Inv, Manager, Within
<1>3. Fault \/ NoFault
  BY DEF Final
<1>4. CASE \E e \in Errors \ {"rejected"} : Throw(m, e)
  BY <1>1, <1>2, <1>3, <1>4, InsideThrows DEF Final
<1>5. CASE To(m, "finally")
  BY <1>1, <1>3, <1>5, InsideLeaves DEF Final
<1>6. CASE ws = flight[m].run.ev /\ Go(m, [flight[m] EXCEPT !.pc = "commit", !.read = ws])
  <2> DEFINE f == [flight[m] EXCEPT !.pc = "commit", !.read = ws]
  <2>1. f \in Flight
    <3>1. ws \in 0 .. MaxEdits + 1
      BY NumbersOK DEF Inv, TypeOK
    <3> QED BY <1>2, <3>1 DEF Flight
  <2>2. /\ f.pc = "commit" /\ f.run = flight[m].run /\ f.hold = flight[m].hold /\ f.keep = flight[m].keep
        /\ f.thread = flight[m].thread /\ f.read = flight[m].run.ev
    BY <1>2, <1>6 DEF Flight
  <2>3. Go(m, f)
    BY <1>6
  <2> HIDE DEF f
  <2>4. flight'[m] = f
    BY <2>1, <2>3, GoOK DEF Inv, TypeOK
  <2>5. Formed(m)'
    BY <1>1, <1>2, <2>2, <2>4 DEF Formed, Final
  <2>6. Verdict(m)'
    BY <1>1, <1>2, <2>2, <2>4 DEF Verdict, Final
  <2>7. f.pc \in (Inside \ {"turn"}) \cup {"finally"}
    BY <2>2 DEF Inside
  <2> QED BY <1>1, <1>3, <2>1, <2>2, <2>3, <2>5, <2>6, <2>7, InsideMoves DEF Final
<1>7. {"fatal", "evidence"} \subseteq Errors \ {"rejected"}
  BY DEF Errors
<1> QED BY <1>4, <1>5, <1>6, <1>7 DEF Final

\* A turn that is over leaves its call nothing to answer for, and its round ends with it.
LEMMA TurnOver ==
  ASSUME Inv, NEW m \in Managers, NEW f \in Flight, At(m, "turn"), Go(m, f), NoFault,
         live' \subseteq live, Visible' = {}, Unpin(m, MyPin(m)),
         UNCHANGED <<rec, ws, lease, guard, sysVars, recov, aux, ghostVars>>,
         f.run.att = flight[m].run.att, f.run.auto = flight[m].run.auto, f.run.term = flight[m].run.term,
         f.run.ev = flight[m].run.ev, f.run.igen = 0, f.run.intr = "none",
         f.thread = flight[m].thread, f.hold = flight[m].hold, f.keep = flight[m].keep,
         f.pc \in {"catch", "finally", "stage", "retry", "final"}, f.pc = "retry" => f.err = "recoverable",
         f.pc = "catch" => f.err # "rejected",
         f.pc = "final" => \A t \in live' : t.by = m => t.att # rec.attempt
  PROVE  Inv'
<1>1. flight[m].pc = "turn" /\ Writing(m)
  BY DEF At, Writing, Inside
<1>2. flight[m].run.intr = "none" /\ flight[m] \in Flight /\ Formed(m) /\ Rounds(m) /\ TypeOK
  BY <1>1, NoInterrupt, RunsOK DEF Inv, Manager, Within
<1>3. flight' \in [Managers -> Flight] /\ flight'[m] = f /\ \A n \in Managers \ {m} : flight'[n] = flight[n]
  BY GoOK DEF Inv, TypeOK
<1>4. pins'[m] = pins[m] - MyPin(m) /\ \A n \in Managers \ {m} : pins'[n] = pins[n]
  BY <1>2 DEF TypeOK, Unpin
<1>5. Works1(m)
  BY <1>3, <1>4 DEF Works1, Acts, ghostVars
<1>6. ~At(m, "turn")'
  BY <1>3 DEF At
<1>7. Rounds(m)'
  <2> DEFINE b == MyPin(m)
             rest == Bit(flight[m].hold) + Bit(recov[m] # NoRun) + Cardinality(aux[m]) + orphans[m]
  <2>1. b \in Nat /\ b = Bit(At(m, "turn") /\ flight[m].run.step \in Private /\ flight[m].run.intr = "none")
    BY <1>2 DEF MyPin, Bit
  <2>2. Cardinality(aux[m]) \in {0, 1} /\ orphans[m] \in Nat
        /\ Bit(flight[m].hold) \in Nat /\ Bit(recov[m] # NoRun) \in Nat
    BY <1>2, AtMostOne DEF Rounds, TypeOK, Bit
  <2>3. pins[m] = Bit(flight[m].hold) + b + Bit(recov[m] # NoRun) + Cardinality(aux[m]) + orphans[m]
    BY <1>2, <2>1 DEF Rounds
  <2>4. pins'[m] = pins[m] - b
    BY <1>4
  <2> HIDE DEF b
  <2>5. pins'[m] = Bit(flight[m].hold) + 0 + Bit(recov[m] # NoRun) + Cardinality(aux[m]) + orphans[m]
    BY <2>1, <2>2, <2>3, <2>4
  <2>6. pins'[m] = Bit(flight'[m].hold) + 0 + Bit(recov'[m] # NoRun) + Cardinality(aux'[m]) + orphans'[m]
    BY <2>5, <1>3 DEF ghostVars
  <2> QED BY <1>2, <1>6, <2>6 DEF Rounds, Bit, ghostVars
<1>8. aux' \in [Managers -> SUBSET Turn] /\ pins' \in [Managers -> Nat]
  BY <1>2, <1>7, PinsOK DEF Unpin, TypeOK, ghostVars
<1>9. Formed(m)'
  BY <1>1, <1>2, <1>3 DEF Formed
<1>10. Verdict(m)'
  BY <1>3 DEF Verdict
<1>11. f.pc \in Inside \cup {"finally"}
  BY DEF Inside
<1> QED BY <1>1, <1>5, <1>7, <1>8, <1>9, <1>10, <1>11, InsideKeeps

\* An answered turn was the only one.
LEMMA EndedLeavesNone ==
  ASSUME Inv, NEW m \in Managers, Ended(m)
  PROVE  /\ At(m, "turn") /\ Writing(m) /\ live' \subseteq live /\ Visible' = {}
         /\ m \notin down /\ alive[m] # "dead"
<1>1. At(m, "turn") /\ Writing(m)
  BY DEF Ended, At, Writing, Inside
<1>2. live' = live \ {MyTurn(m)} /\ Visible' \subseteq Visible
  BY DEF Ended, Visible, sysVars
<1>3. Visible' = {}
  BY <1>1, <1>2, MineIsCurrent DEF Visible
<1> QED BY <1>1, <1>2, <1>3 DEF Ended, Available

LEMMA InvTurnDone ==
  ASSUME Inv, NEW m \in Managers, TurnDone(m)  PROVE Inv'
<1>1. Ended(m) /\ flight[m] \in Flight /\ flight[m].run \in Run
  BY RunsOK DEF TurnDone, Inv
<1>2. At(m, "turn") /\ Writing(m) /\ live' \subseteq live /\ Visible' = {} /\ m \notin down
  BY <1>1, EndedLeavesNone
<1>3. flight[m].run.intr = "none"
  BY <1>2, NoInterrupt DEF At
<1>4. PICK p \in {"catch", "finally", "stage", "final"}, s \in Steps,
           e \in Errors :
         /\ p = "catch" => e # "rejected"
         /\ Go(m, [flight[m] EXCEPT !.run = [@ EXCEPT !.igen = 0, !.step = s], !.pc = p, !.err = e])
         /\ p = "final" => Able(m)
  <2> DEFINE F(p, s, e) == [flight[m] EXCEPT !.run = [@ EXCEPT !.igen = 0, !.step = s], !.pc = p, !.err = e]
  <2>1. flight[m].err \in Errors /\ flight[m].run.step \in Steps
    BY <1>1 DEF Flight, Run, Errors
  <2>2. CASE Go(m, [[flight[m] EXCEPT !.run.igen = 0] EXCEPT !.pc = "finally"])
    <3>1. [[flight[m] EXCEPT !.run.igen = 0] EXCEPT !.pc = "finally"]
            = F("finally", flight[m].run.step, flight[m].err)
      BY <1>1 DEF Flight, Run
    <3> QED BY <2>1, <2>2, <3>1
  <2>3. CASE Go(m, [[flight[m] EXCEPT !.run.igen = 0] EXCEPT !.pc = "catch", !.err = "fatal"])
    <3>1. [[flight[m] EXCEPT !.run.igen = 0] EXCEPT !.pc = "catch", !.err = "fatal"]
            = F("catch", flight[m].run.step, "fatal")
      BY <1>1 DEF Flight, Run
    <3>2. "fatal" \in Errors
      BY DEF Errors
    <3> QED BY <2>1, <2>3, <3>1, <3>2
  <2>4. ASSUME NEW n \in Steps, Able(m),
               Go(m, [[flight[m] EXCEPT !.run.igen = 0] EXCEPT !.run.step = n,
                        !.pc = IF n \in {"applied", "conflict"} THEN "final" ELSE "stage"])
        PROVE  \E p \in {"stage", "final"} : Go(m, F(p, n, flight[m].err))
    <3> DEFINE p == IF n \in {"applied", "conflict"} THEN "final" ELSE "stage"
    <3>1. p \in {"stage", "final"}
      OBVIOUS
    <3> HIDE DEF p
    <3>2. [[flight[m] EXCEPT !.run.igen = 0] EXCEPT !.run.step = n, !.pc = p] = F(p, n, flight[m].err)
      BY <1>1 DEF Flight, Run
    <3>3. Go(m, [[flight[m] EXCEPT !.run.igen = 0] EXCEPT !.run.step = n, !.pc = p])
      BY <2>4 DEF p
    <3>4. Go(m, F(p, n, flight[m].err))
      BY <3>2, <3>3
    <3> QED BY <3>1, <3>4
  <2>5. \A s \in Steps : Next_(s) \subseteq Steps
    BY DEF Next_, Steps
  <2> HIDE DEF F
  <2>6. [flight[m] EXCEPT !.run.igen = 0].run.step = flight[m].run.step
    BY <1>1 DEF Flight, Run
  <2> QED BY <2>1, <2>2, <2>3, <2>4, <2>5, <2>6 DEF TurnDone, F
<1> DEFINE f == [flight[m] EXCEPT !.run = [@ EXCEPT !.igen = 0, !.step = s], !.pc = p, !.err = e]
<1>5. f \in Flight
  <2>1. [flight[m].run EXCEPT !.igen = 0, !.step = s] \in Run
    BY <1>1 DEF Run
  <2> QED BY <1>1, <2>1 DEF Flight, Errors
<1>6. /\ f.run.att = flight[m].run.att /\ f.run.auto = flight[m].run.auto /\ f.run.term = flight[m].run.term
      /\ f.run.ev = flight[m].run.ev /\ f.run.igen = 0 /\ f.run.intr = "none"
      /\ f.thread = flight[m].thread /\ f.hold = flight[m].hold /\ f.keep = flight[m].keep
      /\ f.pc = p /\ f.err = e
  BY <1>1, <1>3 DEF Flight, Run
<1>7. Go(m, f)
  BY <1>4
<1> HIDE DEF f
<1>8. ASSUME p = "final", NEW t \in live', t.by = m PROVE FALSE
  <2>1. t \in Visible'
    BY <1>2, <1>4, <1>8 DEF Ended, Able, Running, Visible, TurnDone, sysVars
  <2> QED BY <1>2, <2>1
<1>9. p \in {"catch", "finally", "stage", "retry", "final"} /\ p # "retry" /\ (p = "catch" => f.err # "rejected")
  BY <1>4, <1>6
<1> QED BY <1>1, <1>2, <1>5, <1>6, <1>7, <1>8, <1>9, TurnOver DEF Ended

\* A turn that ends without a usable answer.
LEMMA TurnGone ==
  ASSUME Inv, NEW m \in Managers, At(m, "turn"), NoFault, live' \subseteq live, Visible' = {}, Unpin(m, MyPin(m)),
         UNCHANGED <<rec, ws, lease, guard, sysVars, recov, aux, ghostVars>>,
         NEW p \in {"catch", "retry"}, NEW e \in Errors \ {"rejected"}, p = "retry" => e = "recoverable",
         Go(m, [flight[m] EXCEPT !.run.igen = 0, !.pc = p, !.err = e])
  PROVE  Inv'
<1> DEFINE f == [flight[m] EXCEPT !.run.igen = 0, !.pc = p, !.err = e]
<1>1. flight[m] \in Flight /\ flight[m].run \in Run
  BY RunsOK DEF Inv
<1>2. flight[m].run.intr = "none"
  BY NoInterrupt DEF At, Writing, Inside
<1>3. f \in Flight
  <2>1. [flight[m].run EXCEPT !.igen = 0] \in Run
    BY <1>1 DEF Run
  <2> QED BY <1>1, <2>1 DEF Flight, Errors
<1>4. /\ f.run.att = flight[m].run.att /\ f.run.auto = flight[m].run.auto /\ f.run.term = flight[m].run.term
      /\ f.run.ev = flight[m].run.ev /\ f.run.igen = 0 /\ f.run.intr = "none"
      /\ f.thread = flight[m].thread /\ f.hold = flight[m].hold /\ f.keep = flight[m].keep
      /\ f.pc = p /\ f.err = e
  BY <1>1, <1>2 DEF Flight, Run
<1>5. Go(m, f)
  OBVIOUS
<1> HIDE DEF f
<1>6. f.pc \in {"catch", "finally", "stage", "retry", "final"} /\ f.pc # "final" /\ (f.pc = "retry" => f.err = "recoverable")
      /\ f.err # "rejected"
  BY <1>4
<1> QED BY <1>3, <1>4, <1>5, <1>6, TurnOver

LEMMA InvTurnFails ==
  ASSUME Inv, NEW m \in Managers, TurnFails(m)  PROVE Inv'
<1>1. Ended(m)
  BY DEF TurnFails
<1>2. At(m, "turn") /\ live' \subseteq live /\ Visible' = {}
  BY <1>1, EndedLeavesNone
<1>3. PICK p \in {"catch", "retry"}, e \in Errors \ {"rejected"} :
        /\ p = "retry" => e = "recoverable"
        /\ Go(m, [[flight[m] EXCEPT !.run.igen = 0] EXCEPT !.pc = p, !.err = e])
  BY DEF TurnFails, Errors
<1>4. [[flight[m] EXCEPT !.run.igen = 0] EXCEPT !.pc = p, !.err = e]
        = [flight[m] EXCEPT !.run.igen = 0, !.pc = p, !.err = e]
  OBVIOUS
<1> QED BY <1>1, <1>2, <1>3, <1>4, TurnGone DEF Ended

LEMMA InvTurnAborted ==
  ASSUME Inv, NEW m \in Managers, TurnAborted(m)  PROVE Inv'
<1>1. Ended(m)
  BY DEF TurnAborted
<1>2. At(m, "turn") /\ live' \subseteq live /\ Visible' = {} /\ "fatal" \in Errors \ {"rejected"}
  BY <1>1, EndedLeavesNone DEF Errors
<1>3. Go(m, [flight[m] EXCEPT !.run.igen = 0, !.pc = "catch", !.err = "fatal"])
  BY DEF TurnAborted
<1> QED BY <1>1, <1>2, <1>3, TurnGone DEF Ended

LEMMA InvTurnLost ==
  ASSUME Inv, NEW m \in Managers, TurnLost(m)  PROVE Inv'
<1>1. At(m, "turn") /\ Writing(m)
  BY DEF TurnLost, At, Writing, Inside
<1>2. Visible' = {}
  <2>1. Visible' = Visible
    BY DEF TurnLost, Visible, sysVars
  <2>2. ASSUME NEW t \in Visible PROVE FALSE
    <3>1. t.by = m /\ t.gen = gen[m] /\ t.gen = flight[m].run.igen
      BY <1>1, WriterAlone DEF Current
    <3>2. m \notin down /\ alive[m] = "up"
      BY <3>1 DEF Visible
    <3> QED BY <3>1, <3>2 DEF TurnLost, Available
  <2> QED BY <2>1, <2>2
<1>3. PICK p \in {"catch", "retry"}, e \in Errors \ {"rejected"} :
        /\ p = "retry" => e = "recoverable"
        /\ Go(m, [[flight[m] EXCEPT !.run.igen = 0] EXCEPT !.pc = p, !.err = e])
  BY DEF TurnLost, Errors
<1>4. [[flight[m] EXCEPT !.run.igen = 0] EXCEPT !.pc = p, !.err = e]
        = [flight[m] EXCEPT !.run.igen = 0, !.pc = p, !.err = e]
  OBVIOUS
<1> QED BY <1>1, <1>2, <1>3, <1>4, TurnGone DEF TurnLost

LEMMA InvTurnInterrupted ==
  ASSUME Inv, NEW m \in Managers, TurnInterrupted(m)  PROVE Inv'
<1> DEFINE i == On(flight[m].run.step)
           g == flight[m].run
<1>1. At(m, "turn") /\ Writing(m) /\ flight[m].pc = "turn"
  BY DEF TurnInterrupted, At, Writing, Inside
<1>2. /\ g.intr = "none" /\ flight[m] \in Flight /\ g \in Run /\ Formed(m) /\ Rounds(m) /\ TypeOK
  BY <1>1, NoInterrupt, RunsOK DEF Inv, Manager, Within
<1>3. i \in {"reviewer", "auxiliary"} /\ (i = "auxiliary" <=> g.step \in Private)
  BY DEF On
<1>4. PICK p \in {"catch", "retry"}, e \in {"interrupted", "rejected"} :
        /\ p = "retry" => e = "interrupted"
        /\ Go(m, [[flight[m] EXCEPT !.run.intr = i] EXCEPT !.pc = p, !.err = e])
  <2>1. CASE Go(m, [[flight[m] EXCEPT !.run.intr = i] EXCEPT !.pc = "catch", !.err = "rejected"])
    BY <2>1
  <2>2. CASE Go(m, [[flight[m] EXCEPT !.run.intr = i]
                      EXCEPT !.pc = IF [flight[m] EXCEPT !.run.intr = i].run.step = "rewrite" THEN "catch" ELSE "retry",
                             !.err = "interrupted"])
    <3> DEFINE p == IF [flight[m] EXCEPT !.run.intr = i].run.step = "rewrite" THEN "catch" ELSE "retry"
    <3>1. p \in {"catch", "retry"}
      OBVIOUS
    <3>2. Go(m, [[flight[m] EXCEPT !.run.intr = i] EXCEPT !.pc = p, !.err = "interrupted"])
      BY <2>2
    <3> HIDE DEF p
    <3> QED BY <3>1, <3>2
  <2> QED BY <2>1, <2>2 DEF TurnInterrupted
<1> DEFINE f == [[flight[m] EXCEPT !.run.intr = i] EXCEPT !.pc = p, !.err = e]
<1>5. f \in Flight
  <2>1. [g EXCEPT !.intr = i] \in Run
    BY <1>2, <1>3 DEF Run
  <2> QED BY <1>2, <2>1 DEF Flight
<1>6. /\ f.run.att = g.att /\ f.run.auto = g.auto /\ f.run.term = g.term /\ f.run.ev = g.ev
      /\ f.run.igen = g.igen /\ f.run.intr = i /\ f.run.step = g.step
      /\ f.thread = flight[m].thread /\ f.hold = flight[m].hold /\ f.keep = flight[m].keep
      /\ f.pc = p /\ f.err = e
  BY <1>2 DEF Flight, Run
<1>7. Go(m, f)
  BY <1>4
<1> HIDE DEF f, i
<1>8. flight' \in [Managers -> Flight] /\ flight'[m] = f /\ \A n \in Managers \ {m} : flight'[n] = flight[n]
  BY <1>5, <1>7, GoOK DEF Inv, TypeOK
<1>9. MyTurn(m) \in Turn
  <2>1. g.igen \in Gens
    BY <1>1, <1>2 DEF Formed, Run
  <2>2. g.att \in 1 .. MaxAttempts
    BY <1>1, WriterAlone
  <2> QED BY <2>1, <2>2, <1>3 DEF MyTurn, Turn, i
<1>10. /\ aux' \in [Managers -> SUBSET Turn]
       /\ g.step \in Private => aux[m] = {} /\ aux'[m] = {MyTurn(m)}
       /\ g.step \notin Private => aux'[m] = aux[m]
       /\ \A n \in Managers \ {m} : aux'[n] = aux[n]
  <2>1. [flight[m] EXCEPT !.run.intr = On(flight[m].run.step)].run.step = g.step
    BY <1>2 DEF Flight, Run
  <2>2. g.step \in Private => aux[m] = {}
    BY <1>1, <1>2 DEF Formed
  <2>3. CASE g.step \in Private
    <3>1. aux' = [aux EXCEPT ![m] = aux[m] \cup {MyTurn(m)}]
      BY <2>1, <2>3 DEF TurnInterrupted
    <3> QED BY <3>1, <2>2, <2>3, <1>2, <1>9 DEF TypeOK
  <2>4. CASE g.step \notin Private
    <3>1. aux' = aux
      BY <2>1, <2>4 DEF TurnInterrupted
    <3> QED BY <3>1, <2>4, <1>2 DEF TypeOK
  <2> QED BY <2>3, <2>4
<1>11. Works1(m)
  BY <1>8, <1>10 DEF TurnInterrupted, Works1, Acts, ghostVars
<1>12. Rounds(m)'
  <2>1. ~At(m, "turn")'
    BY <1>6, <1>8 DEF At
  <2>2. \A t, u \in aux'[m] : t = u
    BY <1>2, <1>10 DEF Rounds
  <2>3. Cardinality(aux'[m]) = Bit(g.step \in Private) + Cardinality(aux[m])
    <3>1. CASE g.step \in Private
      <4>1. Cardinality({}) = 0 /\ Cardinality({MyTurn(m)}) = 1
        BY FS_EmptySet, FS_Singleton
      <4>2. aux[m] = {} /\ aux'[m] = {MyTurn(m)} /\ Bit(g.step \in Private) = 1
        BY <1>10, <3>1 DEF Bit
      <4> QED BY <4>1, <4>2
    <3>2. CASE g.step \notin Private
      <4>1. Cardinality(aux[m]) \in {0, 1}
        BY <1>2, AtMostOne DEF Rounds
      <4> QED BY <1>10, <3>2, <4>1 DEF Bit
    <3> QED BY <3>1, <3>2
  <2>4. pins[m] = Bit(flight[m].hold) + Bit(g.step \in Private) + Bit(recov[m] # NoRun) + Cardinality(aux[m]) + orphans[m]
    BY <1>1, <1>2 DEF Rounds
  <2>5. /\ Bit(flight[m].hold) \in Nat /\ Bit(g.step \in Private) \in Nat /\ Bit(recov[m] # NoRun) \in Nat
        /\ Cardinality(aux[m]) \in {0, 1} /\ orphans[m] \in Nat
    BY <1>2, AtMostOne DEF Rounds, TypeOK, Bit
  <2>6. pins[m] = Bit(flight[m].hold) + 0 + Bit(recov[m] # NoRun) + Cardinality(aux'[m]) + orphans[m]
    BY <2>3, <2>4, <2>5
  <2>7. pins'[m] = Bit(flight'[m].hold) + 0 + Bit(recov'[m] # NoRun) + Cardinality(aux'[m]) + orphans'[m]
    BY <2>6, <1>6, <1>8 DEF TurnInterrupted, ghostVars
  <2> QED BY <1>2, <2>1, <2>2, <2>7 DEF Rounds, Bit, TurnInterrupted, ghostVars
<1>13. Formed(m)'
  BY <1>1, <1>2, <1>3, <1>4, <1>6, <1>8 DEF Formed, TurnInterrupted, i
<1>14. ASSUME NEW t \in Visible', Current(m, t) PROVE Current(m, t)'
  <2>1. t \in Visible
    BY DEF TurnInterrupted, Visible, sysVars
  <2>2. t = MyTurn(m)
    BY <1>1, <2>1, MineIsCurrent
  <2>3. t.on = "auxiliary" => t \in aux'[m]
    BY <1>3, <1>10, <2>2 DEF MyTurn, i
  <2>4. Writing(m)'
    BY <1>6, <1>8 DEF Writing, Inside
  <2> QED BY <1>3, <1>6, <1>8, <1>14, <2>3, <2>4 DEF Current
<1>15. Verdict(m)'
  BY <1>4, <1>6, <1>8 DEF Verdict
<1>16. pins' \in [Managers -> Nat] /\ f.pc \in Inside \cup {"finally"}
  BY <1>2, <1>6 DEF TurnInterrupted, TypeOK, Inside
<1> QED BY <1>1, <1>5, <1>6, <1>7, <1>10, <1>11, <1>12, <1>13, <1>14, <1>15, <1>16, InsideKeeps

LEMMA InvConfirmStage ==
  ASSUME Inv, NEW m \in Managers, ConfirmStage(m)  PROVE Inv'
<1> DEFINE g == flight[m].run
           t == [MyTurn(m) EXCEPT !.on = flight[m].run.intr]
<1>1. At(m, "retry") /\ Writing(m) /\ flight[m].pc = "retry" /\ ~At(m, "turn") /\ flight[m].err = "interrupted"
  BY DEF ConfirmStage, At, Writing, Inside
<1>2. flight[m] \in Flight /\ g \in Run /\ Formed(m) /\ Rounds(m) /\ TypeOK
  BY <1>1, RunsOK DEF Inv, Manager, Within
<1>3. CASE To(m, "catch") /\ UNCHANGED <<live, aux, pins>> /\ (Fault \/ NoFault)
  BY <1>1, <1>3, InsideCatches DEF ConfirmStage
<1>4. CASE /\ NoFault /\ live' = live \ {t} /\ aux' = [aux EXCEPT ![m] = @ \ {t}]
           /\ Unpin(m, Cardinality(aux[m] \cap {t}))
           /\ Go(m, [flight[m] EXCEPT !.err = "recoverable", !.run.intr = "none", !.run.igen = 0])
  <2> DEFINE f == [flight[m] EXCEPT !.err = "recoverable", !.run.intr = "none", !.run.igen = 0]
             A == aux[m] \cap {t}
  <2>1. f \in Flight
    <3>1. [g EXCEPT !.intr = "none", !.igen = 0] \in Run
      BY <1>2 DEF Run
    <3>2. f = [flight[m] EXCEPT !.err = "recoverable", !.run = [g EXCEPT !.intr = "none", !.igen = 0]]
      BY <1>2 DEF Flight, Run
    <3> QED BY <1>2, <3>1, <3>2 DEF Flight
  <2>2. /\ f.run.att = g.att /\ f.run.auto = g.auto /\ f.run.term = g.term /\ f.run.ev = g.ev
        /\ f.run.igen = 0 /\ f.run.intr = "none" /\ f.pc = "retry" /\ f.err = "recoverable"
        /\ f.thread = flight[m].thread /\ f.hold = flight[m].hold /\ f.keep = flight[m].keep
    BY <1>1, <1>2 DEF Flight, Run
  <2>3. Go(m, f)
    BY <1>4
  <2> HIDE DEF f
  <2>4. flight' \in [Managers -> Flight] /\ flight'[m] = f /\ \A n \in Managers \ {m} : flight'[n] = flight[n]
    BY <2>1, <2>3, GoOK DEF Inv, TypeOK
  <2>5. aux' \in [Managers -> SUBSET Turn] /\ aux'[m] = aux[m] \ A /\ \A n \in Managers \ {m} : aux'[n] = aux[n]
    <3>1. aux[m] \ {t} = aux[m] \ A
      OBVIOUS
    <3>2. aux[m] \ {t} \in SUBSET Turn
      BY <1>2 DEF TypeOK
    <3>3. aux' = [aux EXCEPT ![m] = aux[m] \ {t}]
      BY <1>4
    <3> QED BY <3>1, <3>2, <3>3, <1>2 DEF TypeOK
  <2>6. pins'[m] = pins[m] - Cardinality(A) /\ \A n \in Managers \ {m} : pins'[n] = pins[n]
    BY <1>2, <1>4 DEF TypeOK, Unpin
  <2>7. Works1(m)
    BY <1>4, <2>4, <2>5, <2>6 DEF ConfirmStage, Works1, Acts, ghostVars
  <2>8. ~At(m, "turn")' /\ Verdict(m)' /\ f.pc \in Inside
    BY <2>2, <2>4 DEF At, Verdict, Inside
  <2>9. Rounds(m)'
    <3>1. /\ Cardinality(aux[m]) \in {0, 1} /\ Cardinality(A) \in {0, 1}
          /\ Cardinality(aux[m] \ A) = Cardinality(aux[m]) - Cardinality(A)
      <4>1. A \in SUBSET aux[m]
        OBVIOUS
      <4> QED BY <1>2, <4>1, AtMostOne DEF Rounds
    <3>2. orphans[m] \in Nat /\ Bit(flight[m].hold) \in Nat /\ Bit(recov[m] # NoRun) \in Nat
      BY <1>2 DEF TypeOK, Bit
    <3>3. pins[m] = Bit(flight[m].hold) + 0 + Bit(recov[m] # NoRun) + Cardinality(aux[m]) + orphans[m]
      BY <1>1, <1>2 DEF Rounds, Bit
    <3>4. pins'[m] = Bit(flight[m].hold) + 0 + Bit(recov[m] # NoRun) + Cardinality(aux'[m]) + orphans[m]
      BY <3>1, <3>2, <3>3, <2>5, <2>6
    <3>5. pins'[m] = Bit(flight'[m].hold) + 0 + Bit(recov'[m] # NoRun) + Cardinality(aux'[m]) + orphans'[m]
      BY <3>4, <2>2, <2>4 DEF ConfirmStage, ghostVars
    <3>6. \A x, y \in aux'[m] : x = y
      BY <1>2, <2>5 DEF Rounds
    <3> QED BY <1>2, <2>8, <3>5, <3>6 DEF Rounds, Bit, ConfirmStage, ghostVars
  <2>10. pins' \in [Managers -> Nat]
    BY <1>2, <1>4, <2>9, PinsOK DEF Unpin, TypeOK, ConfirmStage, ghostVars
  <2>11. Formed(m)'
    BY <1>1, <1>2, <2>2, <2>4 DEF Formed, ConfirmStage
  <2>12. ASSUME NEW u \in Visible', Current(m, u) PROVE FALSE
    <3>1. u \in live /\ u # t
      BY <1>4 DEF Visible
    <3>2. u.by = m /\ g.intr # "none" /\ g.intr = On(g.step)
      <4>1. u \in Visible
        BY <3>1 DEF Visible, ConfirmStage, sysVars
      <4>2. u.by = m
        BY <1>1, <4>1, WriterAlone
      <4>3. g.intr # "none"
        BY <1>1, <2>12 DEF Current
      <4> QED BY <4>2, <4>3, <1>2 DEF Formed
    <3>3. t = [by |-> m, gen |-> g.igen, att |-> g.att, on |-> On(g.step)]
      BY <3>2 DEF MyTurn
    <3>4. u = [by |-> u.by, gen |-> u.gen, att |-> u.att, on |-> u.on]
      BY <3>1, <1>2 DEF TypeOK, Turn
    <3> QED BY <3>1, <3>2, <3>3, <3>4, <2>12 DEF Current
  <2> QED BY <1>1, <2>1, <2>2, <2>3, <2>5, <2>7, <2>8, <2>9, <2>10, <2>11, <2>12, InsideKeeps
<1> QED BY <1>3, <1>4 DEF ConfirmStage

\* A call inside a run starts a turn, or spends the continuation of its round.
LEMMA BusyKeeps ==
  ASSUME Inv, NEW m \in Managers, Writing(m), Acts(m), NoFault,
         UNCHANGED <<rec, ws, lease, guard, sysVars, recov, aux, orphans, taken>>,
         live' \subseteq Turn, autos' \in 0 .. 1, OneVisible',
         flight' \in [Managers -> Flight], pins' \in [Managers -> Nat],
         Writing(m)', flight'[m].run.att = flight[m].run.att,
         Outside(m)', Within(m)', Holding(m)', Answered(m)', Verdict(m)', Rounds(m)', Owned(m)'
  PROVE  Inv'
<1>1. TypeOK'
  BY DEF Inv, TypeOK, sysVars, NoFault
<1>2. ~NoWriter /\ ~NoWriter'
  BY DEF NoWriter
<1>3. /\ rec' = rec /\ alive' = alive /\ gen' = gen /\ down' = down /\ deciding' = deciding
      /\ recov' = recov /\ taken' = taken /\ guard' = guard /\ aux' = aux /\ orphans' = orphans /\ faults' = faults
  BY DEF sysVars, NoFault
<1>4. ~At(m, "enter") /\ rec.phase \in Ends
  BY WriterAlone DEF At, Writing, Inside
<1>5. Shared'
  <2>1. Shared
    BY DEF Inv
  <2>2. RecordOK'
    BY <2>1, <1>3 DEF Shared, RecordOK
  <2>3. GensOK'
    BY <2>1, <1>3 DEF Shared, GensOK
  <2>4. Guarded'
    BY <2>1, <1>2, <1>3 DEF Shared, Guarded, GuardClear, Exited
  <2>5. OneRun'
    <3>1. \A n \in Managers : \A a \in 1 .. MaxAttempts : Has(n, a)' => Has(n, a)
      BY <1>3 DEF Has, Acts
    <3> QED BY <3>1, <2>1 DEF Shared, OneRun
  <2>6. Held'
    <3>1. \A n \in Managers : At(n, "enter") => At(n, "enter")' /\ flight'[n].run = flight[n].run
      BY <1>4 DEF Acts, At
    <3> QED BY <3>1, <2>1, <1>3 DEF Shared, Held, CleanupConfirmed
  <2> QED BY <2>2, <2>3, <2>4, <2>5, <2>6 DEF Shared
<1>6. Manager(m)'
  <2>1. Parked(m)'
    BY <1>3 DEF Inv, Manager, Parked, Recovers
  <2> QED BY <2>1 DEF Manager
<1>7. ASSUME NEW n \in Managers \ {m}
      PROVE  /\ Moves(n) /\ Apart(n) /\ alive'[n] = alive[n] /\ gen'[n] = gen[n]
             /\ (n \in down' <=> n \in down)
  <2>1. Moves(n)
    BY <1>3 DEF Moves
  <2>2. \A k \in Managers : gen[k] <= gen'[k]
    BY <1>3 DEF Inv, TypeOK, Gens
  <2>3. ~Has(n, rec.attempt)
    BY WriterAlone
  <2>4. \A t \in live' : t \in live \/ t.by # n
    BY DEF Acts
  <2> QED BY <1>2, <1>3, <1>4, <2>1, <2>2, <2>3, <2>4 DEF Apart
<1> QED BY <1>1, <1>5, <1>6, <1>7, ActsKeeps

LEMMA InvStartTurn ==
  ASSUME Inv, NEW m \in Managers, StartTurn(m)  PROVE Inv'
<1> DEFINE g == flight[m].run
           t == [by |-> m, gen |-> gen[m], att |-> g.att, on |-> On(g.step)]
<1>1. flight[m].pc = "stage" /\ Writing(m) /\ ~At(m, "turn") /\ NoFault
  BY DEF StartTurn, At, Writing, Inside
<1>2. /\ g.intr = "none" /\ flight[m] \in Flight /\ g \in Run /\ Formed(m) /\ Rounds(m) /\ Owned(m) /\ TypeOK
      /\ Within(m)
  BY <1>1, NoInterrupt, RunsOK DEF Inv, Manager, Within
<1>3. CASE Throw(m, "fatal") /\ UNCHANGED <<live, pins>>
  BY <1>1, <1>2, <1>3, InsideThrows DEF StartTurn, Errors
<1>4. CASE Go(m, [flight[m] EXCEPT !.pc = "retry", !.err = "recoverable"]) /\ UNCHANGED <<live, pins>>
  <2> DEFINE f == [flight[m] EXCEPT !.pc = "retry", !.err = "recoverable"]
  <2>1. f \in Flight
    BY <1>2, CallsOK DEF Pcs, Inside
  <2>2. /\ f.pc = "retry" /\ f.run = g /\ f.hold = flight[m].hold /\ f.keep = flight[m].keep
        /\ f.thread = flight[m].thread /\ f.err = "recoverable"
    BY <1>2 DEF Flight
  <2>3. Go(m, f)
    BY <1>4
  <2> HIDE DEF f
  <2>4. flight'[m] = f
    BY <2>1, <2>3, GoOK DEF Inv, TypeOK
  <2>5. Formed(m)'
    BY <1>1, <1>2, <2>2, <2>4 DEF Formed, StartTurn
  <2>6. Verdict(m)' /\ f.pc \in (Inside \ {"turn"}) \cup {"finally"}
    BY <2>2, <2>4 DEF Verdict, Inside
  <2> QED BY <1>1, <1>4, <2>1, <2>2, <2>3, <2>5, <2>6, InsideMoves DEF StartTurn
<1>5. CASE /\ live' = live \cup {t} /\ Go(m, [flight[m] EXCEPT !.pc = "turn", !.run.igen = gen[m]])
           /\ Pin(m, Bit(g.step \in Private)) /\ (g.step \in Private => aux[m] = {})
  <2> DEFINE f == [flight[m] EXCEPT !.pc = "turn", !.run.igen = gen[m]]
  <2>1. f \in Flight
    <3>1. [g EXCEPT !.igen = gen[m]] \in Run
      BY <1>2 DEF Run, TypeOK
    <3> QED BY <1>2, <3>1 DEF Flight
  <2>2. /\ f.pc = "turn" /\ f.run.att = g.att /\ f.run.auto = g.auto /\ f.run.term = g.term /\ f.run.ev = g.ev
        /\ f.run.igen = gen[m] /\ f.run.intr = "none" /\ f.run.step = g.step
        /\ f.thread = flight[m].thread /\ f.hold = flight[m].hold /\ f.keep = flight[m].keep
    BY <1>2 DEF Flight, Run
  <2>3. Go(m, f)
    BY <1>5
  <2> HIDE DEF f
  <2>4. flight' \in [Managers -> Flight] /\ flight'[m] = f /\ \A n \in Managers \ {m} : flight'[n] = flight[n]
    BY <2>1, <2>3, GoOK DEF Inv, TypeOK
  <2>5. t \in Turn
    <3>1. g.att \in 1 .. MaxAttempts
      BY <1>1, WriterAlone
    <3> QED BY <3>1, <1>2 DEF Turn, TypeOK, On
  <2>6. /\ rec' = rec /\ recov' = recov /\ guard' = guard /\ aux' = aux /\ orphans' = orphans /\ gen' = gen
        /\ taken' = taken /\ autos' = autos /\ alive' = alive /\ down' = down
    BY DEF StartTurn, sysVars, ghostVars
  <2>7. Visible = {}
    <3>1. \A u \in Visible : Current(m, u)
      BY <1>1, WriterAlone
    <3> QED BY <3>1, <1>1, <1>2 DEF Current
  <2>8. Visible' \subseteq {t}
    BY <1>5, <2>6, <2>7 DEF Visible
  <2>9. pins'[m] = pins[m] + Bit(g.step \in Private) /\ (\A n \in Managers \ {m} : pins'[n] = pins[n])
        /\ pins' \in [Managers -> Nat]
    <3>1. Bit(g.step \in Private) \in Nat
      BY DEF Bit
    <3> QED BY <3>1, <1>2, <1>5 DEF TypeOK, Pin
  <2>10. Acts(m)
    BY <1>5, <2>4, <2>6, <2>9 DEF StartTurn, Acts
  <2>11. Writing(m)' /\ At(m, "turn")' /\ f.pc \notin Before \cup Chooses \cup {"none", "enter"}
    BY <2>2, <2>4 DEF Writing, Inside, At, Before, Chooses
  <2>12. Outside(m)' /\ Holding(m)'
    BY <2>4, <2>11 DEF Outside, Holding, Before, Chooses
  <2>13. Within(m)'
    <3>1. gen[m] # 0
      BY <1>2 DEF TypeOK, Gens
    <3>2. Formed(m)'
      BY <1>1, <1>2, <1>5, <2>2, <2>4, <2>6, <3>1 DEF Formed
    <3> QED BY <1>1, <1>2, <2>2, <2>4, <2>6, <3>2 DEF Within
  <2>14. Answered(m)'
    <3> SUFFICES ASSUME NEW u \in Visible' PROVE u.gen = gen'[m] /\ Current(m, u)'
      BY DEF Answered
    <3>1. u = t
      BY <2>8
    <3> QED BY <3>1, <2>2, <2>4, <2>6, <2>11 DEF Current
  <2>15. Verdict(m)' /\ Owned(m)'
    BY <1>2, <2>2, <2>4, <2>6 DEF Verdict, Owned, Spent
  <2>16. Rounds(m)'
    <3>1. /\ Bit(flight[m].hold) \in Nat /\ Bit(g.step \in Private) \in Nat /\ Bit(recov[m] # NoRun) \in Nat
          /\ Cardinality(aux[m]) \in {0, 1} /\ orphans[m] \in Nat
      BY <1>2, AtMostOne DEF Rounds, TypeOK, Bit
    <3>2. pins[m] = Bit(flight[m].hold) + 0 + Bit(recov[m] # NoRun) + Cardinality(aux[m]) + orphans[m]
      BY <1>1, <1>2 DEF Rounds, Bit
    <3>3. pins'[m] = Bit(flight[m].hold) + Bit(g.step \in Private) + Bit(recov[m] # NoRun) + Cardinality(aux[m]) + orphans[m]
      BY <3>1, <3>2, <2>9
    <3> QED BY <1>2, <3>3, <2>2, <2>4, <2>6, <2>11 DEF Rounds
  <2>17. live' \subseteq Turn /\ autos' \in 0 .. 1 /\ OneVisible'
    BY <1>2, <1>5, <2>5, <2>6, <2>8 DEF TypeOK, OneVisible, Inv, Shared, RecordOK
  <2> QED BY <1>1, <2>2, <2>4, <2>9, <2>10, <2>11, <2>12, <2>13, <2>14, <2>15, <2>16, <2>17, BusyKeeps
          DEF StartTurn, ghostVars
<1> QED BY <1>3, <1>4, <1>5 DEF StartTurn

LEMMA InvAgain ==
  ASSUME Inv, NEW m \in Managers, At(m, "retry"), flight[m].err = "recoverable", flight[m].run.auto = 0,
         NoFault, Again(m), UNCHANGED <<rec, ws, lease, guard, sysVars, live, recov, aux, pins, orphans, taken>>
  PROVE  Inv'
<1> DEFINE g == flight[m].run
           f == [flight[m] EXCEPT !.pc = "stage", !.err = "none", !.run.auto = 1]
<1>1. Writing(m) /\ flight[m].pc = "retry" /\ ~At(m, "turn")
  BY DEF At, Writing, Inside
<1>2. /\ flight[m] \in Flight /\ g \in Run /\ Formed(m) /\ Rounds(m) /\ Owned(m) /\ Parked(m) /\ TypeOK /\ Within(m)
  BY <1>1, RunsOK DEF Inv, Manager, Within
<1>3. g.intr = "none"
  BY <1>2 DEF Formed
<1>4. f \in Flight
  <2>1. [g EXCEPT !.auto = 1] \in Run
    BY <1>2 DEF Run
  <2> QED BY <1>2, <2>1 DEF Flight
<1>5. /\ f.pc = "stage" /\ f.run.att = g.att /\ f.run.auto = 1 /\ f.run.term = g.term /\ f.run.ev = g.ev
      /\ f.run.igen = g.igen /\ f.run.intr = "none" /\ f.run.step = g.step
      /\ f.thread = flight[m].thread /\ f.hold = flight[m].hold /\ f.keep = flight[m].keep
  BY <1>2, <1>3 DEF Flight, Run
<1>6. Go(m, f) /\ autos' = autos + 1
  BY DEF Again
<1> HIDE DEF f
<1>7. flight' \in [Managers -> Flight] /\ flight'[m] = f /\ \A n \in Managers \ {m} : flight'[n] = flight[n]
  BY <1>4, <1>6, GoOK DEF Inv, TypeOK
<1>8. /\ g.att = rec.attempt /\ g.att > 0 /\ recov[m].att < g.att
  BY <1>1, <1>2 DEF Within
<1>9. autos = 0 /\ autos' = 1
  BY <1>2, <1>6, <1>8 DEF Owned, Spent, TypeOK
<1>10. Acts(m)
  BY <1>7 DEF Acts
<1>11. Writing(m)' /\ ~At(m, "turn")' /\ f.pc \notin Before \cup Chooses \cup {"none", "enter"}
  BY <1>5, <1>7 DEF Writing, Inside, At, Before, Chooses
<1>12. Outside(m)' /\ Holding(m)'
  BY <1>7, <1>11 DEF Outside, Holding, Before, Chooses
<1>13. Within(m)'
  <2>1. Formed(m)'
    BY <1>1, <1>2, <1>3, <1>5, <1>7 DEF Formed
  <2> QED BY <1>1, <1>2, <1>5, <1>7, <2>1 DEF Within
<1>14. Visible' = {}
  <2>1. Visible' = Visible
    BY DEF Visible, sysVars
  <2>2. \A u \in Visible : Current(m, u)
    BY <1>1, WriterAlone
  <2> QED BY <2>1, <2>2, <1>1, <1>3 DEF Current
<1>15. Answered(m)' /\ OneVisible' /\ Verdict(m)'
  BY <1>5, <1>7, <1>14 DEF Answered, OneVisible, Verdict
<1>16. Owned(m)'
  BY <1>2, <1>5, <1>7, <1>8, <1>9, RunsOK DEF Owned, Spent, Inv
<1>17. Rounds(m)'
  BY <1>1, <1>2, <1>5, <1>7, <1>11 DEF Rounds
<1>18. live' \subseteq Turn /\ autos' \in 0 .. 1 /\ pins' \in [Managers -> Nat]
  BY <1>2, <1>9 DEF TypeOK
<1> QED BY <1>1, <1>5, <1>7, <1>10, <1>11, <1>12, <1>13, <1>15, <1>16, <1>17, <1>18, BusyKeeps

LEMMA InvRetryTurn ==
  ASSUME Inv, NEW m \in Managers, RetryTurn(m)  PROVE Inv'
<1>1. At(m, "retry") /\ Writing(m) /\ flight[m].pc = "retry" /\ ~At(m, "turn") /\ (Fault \/ NoFault)
  BY DEF RetryTurn, At, Writing, Inside
<1>2. Formed(m) /\ flight[m].run \in Run
  BY <1>1, RunsOK DEF Inv, Manager, Within
<1>3. CASE To(m, "catch") /\ UNCHANGED autos
  BY <1>1, <1>3, InsideCatches DEF RetryTurn, ghostVars
<1>4. ASSUME NEW e \in Errors \ {"rejected"}, flight[m].err = "recoverable", Throw(m, e), UNCHANGED autos PROVE Inv'
  <2>1. flight[m].run.intr = "none"
    BY <1>2, <1>4 DEF Formed
  <2> QED BY <1>1, <1>4, <2>1, InsideThrows DEF RetryTurn, ghostVars
<1>5. CASE flight[m].err = "recoverable" /\ flight[m].run.auto = 0 /\ NoFault /\ Again(m)
  BY <1>1, <1>5, InvAgain DEF RetryTurn
<1>6. flight[m].run.auto = 1 \/ flight[m].run.auto = 0
  BY <1>2 DEF Run
<1>7. {"fatal", "spent", "evidence"} \subseteq Errors \ {"rejected"}
  BY DEF Errors
<1> QED BY <1>3, <1>4, <1>5, <1>6, <1>7 DEF RetryTurn

----------------------------------------------------------------------------
(* What a call inside a run writes.                                          *)
\* The holder of the lease writes the record of its own attempt: to the others it is taken.
LEMMA WriterTakes ==
  ASSUME Inv, NEW m \in Managers, Writing(m), rec.phase = "reviewing", lease = m, lease' = m,
         rec'.attempt = rec.attempt, taken' = taken, NEW n \in Managers \ {m}
  PROVE  Takes(n)
<1>1. ~Writing(n) /\ ~Has(n, rec.attempt) /\ \A t \in Visible : t.by = m
  BY WriterAlone
<1>2. recov[n] # NoRun => n \in taken
  BY <1>1 DEF Inv, Manager, Parked, Has
<1>3. rec.attempt \in Nat
  BY NumbersOK DEF Inv, TypeOK, Record
<1> QED BY <1>1, <1>2, <1>3 DEF Takes, NoneOf

\* A call inside a run writes the record, the guard or its waiting run.
LEMMA WriterKeeps ==
  ASSUME Inv, NEW m \in Managers, Writing(m), Acts(m), UNCHANGED <<sysVars, live, taken, autos, lease>>,
         rec' = rec \/ (rec.phase = "reviewing" /\ lease = m /\ rec'.attempt = rec.attempt),
         TypeOK', Shared', Manager(m)'
  PROVE  Inv'
<1>1. ~NoWriter /\ rec.phase \in Ends
  BY WriterAlone DEF NoWriter
<1>2. gen' = gen /\ alive' = alive /\ down' = down
  BY DEF sysVars
<1>3. ASSUME NEW n \in Managers \ {m}
      PROVE  /\ Moves(n) /\ Apart(n) /\ alive'[n] = alive[n] /\ gen'[n] = gen[n]
             /\ (n \in down' <=> n \in down)
  <2>1. Moves(n)
    BY WriterTakes DEF Moves
  <2>2. \A k \in Managers : gen[k] <= gen'[k]
    BY <1>2 DEF Inv, TypeOK, Gens
  <2>3. autos' <= autos
    BY DEF Inv, TypeOK
  <2> QED BY <1>1, <1>2, <2>1, <2>2, <2>3 DEF Apart
<1> QED BY <1>3, ActsKeeps

\* The evidence of a run is recorded, and its thread is next.
LEMMA InvEvidence ==
  ASSUME Inv, NEW m \in Managers, Evidence(m)  PROVE Inv'
<1> DEFINE g == flight[m].run
           p == IF flight[m].exist THEN "stage" ELSE "create"
<1>1. flight[m].pc = "evidence" /\ Writing(m) /\ ~At(m, "turn") /\ (Fault \/ NoFault)
  BY DEF Evidence, At, Writing, Inside
<1>2. /\ g.intr = "none" /\ flight[m] \in Flight /\ g \in Run /\ Formed(m) /\ Manager(m) /\ TypeOK
  BY <1>1, NoInterrupt, RunsOK DEF Inv, Manager, Within
<1>3. CASE Throw(m, "fatal") /\ UNCHANGED rec
  BY <1>1, <1>2, <1>3, InsideThrows DEF Evidence, Errors
<1>4. CASE /\ Able(m) /\ Owns(m) /\ rec' = [rec EXCEPT !.ev = ws]
           /\ Go(m, [flight[m] EXCEPT !.run.ev = ws, !.pc = p]) /\ NoFault
  <2> DEFINE f == [flight[m] EXCEPT !.run.ev = ws, !.pc = p]
  <2>0. p \in {"stage", "create"} /\ (p = "stage" => flight[m].thread = "bound") /\ ws \in 0 .. MaxEdits + 1
    BY <1>1, <1>2, NumbersOK DEF Formed, TypeOK
  <2> HIDE DEF p
  <2>1. f \in Flight
    <3>1. [g EXCEPT !.ev = ws] \in Run
      BY <1>2, <2>0 DEF Run
    <3> QED BY <1>2, <2>0, <3>1 DEF Flight
  <2>2. /\ f.pc = p /\ f.run.att = g.att /\ f.run.auto = g.auto /\ f.run.term = g.term /\ f.run.ev = ws
        /\ f.run.igen = g.igen /\ f.run.intr = "none" /\ f.run.step = g.step
        /\ f.thread = flight[m].thread /\ f.hold = flight[m].hold /\ f.keep = flight[m].keep
    BY <1>2 DEF Flight, Run
  <2>3. Go(m, f)
    BY <1>4
  <2> HIDE DEF f
  <2>4. flight' \in [Managers -> Flight] /\ flight'[m] = f /\ \A n \in Managers \ {m} : flight'[n] = flight[n]
    BY <2>1, <2>3, GoOK DEF Inv, TypeOK
  <2>5. /\ recov' = recov /\ guard' = guard /\ aux' = aux /\ orphans' = orphans /\ gen' = gen
        /\ taken' = taken /\ autos' = autos /\ alive' = alive /\ down' = down /\ live' = live /\ deciding' = deciding
        /\ pins' = pins /\ lease' = lease /\ ws' = ws /\ faults' = faults
    BY <1>4 DEF Evidence, sysVars, ghostVars, NoFault
  <2>6. /\ rec' \in Record /\ rec'.phase = rec.phase /\ rec'.attempt = rec.attempt /\ rec'.proc = rec.proc
        /\ rec'.retry = rec.retry /\ rec'.cycles = rec.cycles /\ rec'.same = rec.same /\ rec'.contract = rec.contract
        /\ rec'.ev = ws
    BY <1>2, <1>4, <2>0 DEF TypeOK, Record
  <2>7. rec.phase = "reviewing" /\ lease = m
    BY <1>4 DEF Owns, Able
  <2>8. Visible = {} /\ Visible' = {}
    <3>1. \A u \in Visible : Current(m, u)
      BY <1>1, WriterAlone
    <3>2. Visible' = Visible
      BY <2>5 DEF Visible
    <3> QED BY <3>1, <3>2, <1>1, <1>2 DEF Current
  <2>9. Writing(m)' /\ ~At(m, "turn")' /\ f.pc \notin Before \cup Chooses \cup {"none", "enter"} /\ ~At(m, "enter")
    BY <1>1, <2>0, <2>2, <2>4 DEF Writing, Inside, At, Before, Chooses
  <2>10. TypeOK'
    BY <1>2, <2>4, <2>5, <2>6 DEF TypeOK
  <2>11. Acts(m)
    BY <2>4, <2>5 DEF Acts
  <2>12. Manager(m)'
    <3>1. Outside(m)' /\ Holding(m)'
      BY <2>4, <2>9 DEF Outside, Holding, Before, Chooses
    <3>2. Formed(m)'
      BY <1>1, <1>2, <2>0, <2>2, <2>4, <2>5, <2>6 DEF Formed
    <3>3. Within(m)'
      BY <1>1, <1>2, <2>2, <2>4, <2>5, <2>6, <2>9, <3>2 DEF Manager, Within, Writing, Inside
    <3>4. Parked(m)'
      BY <1>2, <2>5, <2>6 DEF Manager, Parked, Recovers
    <3>5. Answered(m)' /\ Verdict(m)'
      BY <2>0, <2>2, <2>4, <2>8 DEF Answered, Verdict
    <3>6. Rounds(m)'
      BY <1>1, <1>2, <2>2, <2>4, <2>5, <2>9 DEF Manager, Rounds, At
    <3>7. Owned(m)'
      BY <1>2, <2>2, <2>4, <2>5, <2>6 DEF Manager, Owned, Spent
    <3> QED BY <3>1, <3>3, <3>4, <3>5, <3>6, <3>7 DEF Manager
  <2>13. Shared'
    <3>1. Shared
      BY DEF Inv
    <3>2. RecordOK'
      BY <3>1, <2>5, <2>6 DEF Shared, RecordOK
    <3>3. GensOK'
      BY <3>1, <2>5 DEF Shared, GensOK
    <3>4. OneVisible'
      BY <2>8 DEF OneVisible
    <3>5. Guarded'
      <4>1. GuardClear
        BY <1>1, <3>1 DEF Shared, Guarded, NoWriter
      <4> QED BY <4>1, <2>5 DEF Guarded, GuardClear, Exited
    <3>6. OneRun'
      <4>1. \A n \in Managers : \A a \in 1 .. MaxAttempts : Has(n, a)' => Has(n, a)
        BY <2>2, <2>4, <2>5 DEF Has
      <4> QED BY <4>1, <3>1 DEF Shared, OneRun
    <3>7. Held'
      <4>1. \A n \in Managers : At(n, "enter") => At(n, "enter")' /\ flight'[n].run = flight[n].run
        BY <2>4, <2>9 DEF At
      <4> QED BY <4>1, <3>1, <2>5, <2>6 DEF Shared, Held, CleanupConfirmed
    <3> QED BY <3>2, <3>3, <3>4, <3>5, <3>6, <3>7 DEF Shared
  <2> QED BY <1>1, <2>5, <2>6, <2>7, <2>10, <2>11, <2>12, <2>13, WriterKeeps DEF sysVars
<1> QED BY <1>3, <1>4 DEF Evidence

\* The outcome of a run is written by the call that holds the lease, when no turn may run.
LEMMA InsideWrites ==
  ASSUME Inv, NEW m \in Managers, Writing(m), ~At(m, "turn"), rec.phase = "reviewing", lease = m, Visible = {},
         To(m, "finally"), NoFault,
         UNCHANGED <<ws, lease, guard, sysVars, live, recov, aux, pins, ghostVars>>,
         rec' \in Record, rec'.attempt = rec.attempt, rec'.proc \notin {"waiting"}, RecordOK'
  PROVE  Inv'
<1> DEFINE f == [flight[m] EXCEPT !.pc = "finally"]
<1>1. flight[m] \in Flight /\ Manager(m) /\ Shared /\ TypeOK
  BY RunsOK DEF Inv
<1>2. f \in Flight
  BY <1>1, CallsOK DEF Pcs
<1>3. f.pc = "finally" /\ f.run = flight[m].run /\ f.hold = flight[m].hold /\ f.keep = flight[m].keep
  BY <1>1 DEF Flight
<1>4. Go(m, f)
  BY DEF To
<1> HIDE DEF f
<1>5. flight' \in [Managers -> Flight] /\ flight'[m] = f /\ \A n \in Managers \ {m} : flight'[n] = flight[n]
  BY <1>2, <1>4, GoOK DEF Inv, TypeOK
<1>6. /\ gen' = gen /\ taken' = taken /\ autos' = autos /\ alive' = alive /\ down' = down /\ orphans' = orphans
      /\ faults' = faults /\ deciding' = deciding
  BY DEF sysVars, ghostVars, NoFault
<1>7. Visible' = {}
  BY <1>6 DEF Visible
<1>8. /\ ~Writing(m)' /\ ~At(m, "turn")' /\ ~At(m, "enter") /\ f.pc \notin Before \cup Chooses \cup {"none", "enter"}
  BY <1>3, <1>5 DEF Writing, Inside, At, Before, Chooses
<1>9. TypeOK'
  BY <1>1, <1>5, <1>6 DEF TypeOK
<1>10. Acts(m)
  BY <1>5, <1>6 DEF Acts
<1>11. /\ flight[m].hold /\ ~flight[m].keep /\ flight[m].run.att = rec.attempt /\ flight[m].run.att > 0
       /\ recov[m].att < flight[m].run.att /\ (recov[m] = NoRun \/ m \in taken)
  BY <1>1 DEF Manager, Within
<1>12. Manager(m)'
  <2>1. Outside(m)' /\ Holding(m)'
    BY <1>3, <1>5, <1>8 DEF Outside, Holding, Before, Chooses
  <2>2. Within(m)'
    BY <1>3, <1>5, <1>6, <1>8, <1>11 DEF Within
  <2>3. Parked(m)'
    <3>1. recov[m].att # rec.attempt
      BY <1>1, <1>11, RunsOK DEF Inv
    <3> QED BY <1>1, <1>6, <1>11, <3>1 DEF Manager, Parked
  <2>4. Answered(m)' /\ Verdict(m)'
    BY <1>3, <1>5, <1>7 DEF Answered, Verdict
  <2>5. Rounds(m)'
    BY <1>1, <1>3, <1>5, <1>6, <1>8 DEF Manager, Rounds, At
  <2>6. Owned(m)'
    BY <1>1, <1>3, <1>5, <1>6 DEF Manager, Owned, Spent
  <2> QED BY <2>1, <2>2, <2>3, <2>4, <2>5, <2>6 DEF Manager
<1>13. Shared'
  <2>1. GensOK'
    BY <1>1, <1>6 DEF Shared, GensOK
  <2>2. OneVisible'
    BY <1>7 DEF OneVisible
  <2>3. Guarded'
    <3>1. GuardClear
      BY <1>1 DEF Shared, Guarded, NoWriter
    <3> QED BY <3>1, <1>6 DEF Guarded, GuardClear, Exited
  <2>4. OneRun'
    <3>1. \A n \in Managers : \A a \in 1 .. MaxAttempts : Has(n, a)' => Has(n, a)
      BY <1>3, <1>5 DEF Has
    <3> QED BY <3>1, <1>1 DEF Shared, OneRun
  <2>5. Held'
    BY DEF Held
  <2> QED BY <2>1, <2>2, <2>3, <2>4, <2>5 DEF Shared
<1> QED BY <1>6, <1>9, <1>10, <1>12, <1>13, WriterKeeps DEF sysVars, ghostVars

\* What the record says while it is reviewed.
LEMMA ReviewedRecord ==
  ASSUME Inv, NEW m \in Managers, Writing(m), rec.phase = "reviewing"
  PROVE  /\ rec \in Record /\ RecordOK /\ rec.contract \in 0 .. 1 /\ rec.cycles \in Nat /\ rec.cycles < MaxReviewCycles
         /\ rec.same \in Nat /\ rec.same <= rec.cycles /\ ~deciding /\ rec.proc # "waiting"
         /\ flight[m].run \in Run /\ flight[m].run.prior \in Retryable /\ flight[m].run.ev \in 0 .. MaxEdits + 1
<1>1. rec \in Record /\ RecordOK /\ flight[m].run \in Run
  BY RunsOK DEF Inv, TypeOK, Shared
<1>2. rec.contract \in 0 .. 2 /\ rec.cycles \in Nat /\ rec.same \in Nat
  BY <1>1, NumbersOK DEF Record
<1>3. rec.contract <= 1 /\ rec.cycles < MaxReviewCycles /\ rec.same <= rec.cycles /\ ~deciding /\ rec.proc # "waiting"
  BY <1>1 DEF RecordOK, Retryable
<1>4. flight[m].run.prior \in Retryable /\ flight[m].run.ev \in 0 .. MaxEdits + 1
  BY <1>1 DEF Run, Retryable
<1> QED BY <1>1, <1>2, <1>3, <1>4

LEMMA InvCommit ==
  ASSUME Inv, NEW m \in Managers, Commit(m)  PROVE Inv'
<1>1. flight[m].pc = "commit" /\ Writing(m) /\ ~At(m, "turn") /\ NoFault
  BY DEF Commit, At, Writing, Inside
<1>2. flight[m].run.intr = "none"
  BY <1>1, NoInterrupt
<1>3. CASE Throw(m, "fatal") /\ UNCHANGED rec
  BY <1>1, <1>2, <1>3, InsideThrows DEF Commit, Errors
<1>4. CASE /\ Able(m) /\ Owns(m) /\ To(m, "finally")
           /\ rec' = Conflicted(m) \/ \E verdict \in {"pass", "optional", "blocking"} : rec' = Applied(m, verdict)
  <2>1. rec.phase = "reviewing" /\ lease = m
    BY <1>4 DEF Able, Owns
  <2>2. Visible = {}
    <3>1. \A u \in Visible : Current(m, u)
      BY <1>1, WriterAlone
    <3> QED BY <3>1, <1>1, <1>2 DEF Current, At
  <2>3. /\ rec \in Record /\ RecordOK /\ rec.contract \in 0 .. 1 /\ rec.cycles \in Nat /\ rec.cycles < MaxReviewCycles
        /\ rec.same \in Nat /\ rec.same <= rec.cycles /\ ~deciding /\ rec.proc # "waiting"
        /\ flight[m].run \in Run /\ flight[m].run.prior \in Retryable /\ flight[m].run.ev \in 0 .. MaxEdits + 1
    BY <1>1, <2>1, ReviewedRecord
  <2>4. deciding' = deciding /\ autos' = autos
    BY DEF Commit, sysVars, ghostVars
  <2>5. autos <= 1 /\ (rec.retry.intr # "none" => rec.retry.by \in Managers)
    BY <2>3 DEF RecordOK
  <2>6. rec' \in Record /\ rec'.attempt = rec.attempt /\ rec'.proc # "waiting" /\ RecordOK'
    <3>1. CASE rec' = Conflicted(m)
      <4> DEFINE n == rec.contract + 1
                 ph == IF n >= 2 THEN "blocked" ELSE flight[m].run.prior
                 pr == IF n >= 2 THEN "completed" ELSE "failed"
      <4>1. n \in 1 .. 2 /\ ph \in Retryable \cup {"blocked"} /\ (ph # "blocked" => n <= 1) /\ pr \in {"completed", "failed"}
        BY <2>3 DEF Retryable
      <4>2. rec' = [rec EXCEPT !.contract = n, !.reason = "conflict", !.phase = ph, !.proc = pr]
        BY <3>1 DEF Conflicted
      <4> HIDE DEF n, ph, pr
      <4>3. /\ rec'.contract = n /\ rec'.phase = ph /\ rec'.proc = pr /\ rec'.attempt = rec.attempt
            /\ rec'.cycles = rec.cycles /\ rec'.same = rec.same /\ rec'.retry = rec.retry
        BY <2>3, <4>2 DEF Record
      <4>4. rec' \in Record
        <5>1. n \in 0 .. 2 /\ ph \in Phases /\ pr \in {"none", "running", "waiting", "failed", "completed", "cancelled"}
          BY <4>1 DEF Phases, Retryable
        <5>2. rec \in Record
          BY <2>3
        <5> QED BY <4>2, <5>1, <5>2 DEF Record
      <4>5. RecordOK'
        BY <2>3, <2>4, <2>5, <4>1, <4>3 DEF RecordOK, Retryable
      <4> QED BY <4>1, <4>3, <4>4, <4>5
    <3>2. ASSUME NEW verdict \in {"pass", "optional", "blocking"}, rec' = Applied(m, verdict)
          PROVE  rec' \in Record /\ rec'.attempt = rec.attempt /\ rec'.proc # "waiting" /\ RecordOK'
      <4> DEFINE k == Tracked(m)
                 base == [rec EXCEPT !.cycles = @ + 1, !.contract = 0, !.reason = "none", !.retry = NoRetry,
                                     !.proc = "completed", !.seen = flight[m].run.ev, !.same = k]
      <4>1. k \in Nat /\ k <= rec.cycles + 1
        BY <2>3 DEF Tracked
      <4> HIDE DEF k
      <4>2. /\ base \in Record /\ base.attempt = rec.attempt /\ base.proc = "completed" /\ base.contract = 0
            /\ base.cycles = rec.cycles + 1 /\ base.retry = NoRetry /\ base.same = k
        <5>1. rec.cycles + 1 \in 0 .. MaxReviewCycles /\ k \in 0 .. MaxReviewCycles
          BY <2>3, <4>1, NumbersOK
        <5> DEFINE c == rec.cycles + 1
        <5>2. c \in 0 .. MaxReviewCycles /\ base = [rec EXCEPT !.cycles = c, !.contract = 0, !.reason = "none",
                 !.retry = NoRetry, !.proc = "completed", !.seen = flight[m].run.ev, !.same = k]
          BY <5>1, <2>3 DEF Record
        <5> HIDE DEF c, base
        <5>3. rec \in Record /\ flight[m].run.ev \in 0 .. MaxEdits + 1 /\ NoRetry \in Retry
          BY <2>3, NothingOK
        <5>4. base \in Record
          <6>1. base = [phase |-> rec.phase, proc |-> "completed", retry |-> NoRetry, reason |-> "none",
                        attempt |-> rec.attempt, cycles |-> c, contract |-> 0, ev |-> rec.ev,
                        seen |-> flight[m].run.ev, same |-> k]
            BY <5>2, <5>3 DEF Record
          <6>2. rec.phase \in Phases /\ rec.attempt \in 0 .. MaxAttempts /\ rec.ev \in 0 .. MaxEdits + 1
            BY <5>3 DEF Record
          <6>3. c \in 0 .. MaxReviewCycles /\ k \in 0 .. MaxReviewCycles /\ 0 \in 0 .. 2
            BY <5>1, <5>2
          <6>4. flight[m].run.ev \in 0 .. MaxEdits + 1 /\ NoRetry \in Retry
            BY <5>3
          <6> QED BY <6>1, <6>2, <6>3, <6>4 DEF Record
        <5>5. /\ base.attempt = rec.attempt /\ base.proc = "completed" /\ base.contract = 0
              /\ base.cycles = c /\ base.retry = NoRetry /\ base.same = k
          BY <5>2, <5>3 DEF Record
        <5> QED BY <5>4, <5>5 DEF c
      <4>3. PICK ph \in {"passed", "waiting_review_decision", "blocked", "fixing"}, s \in {0, k} :
              rec' = [base EXCEPT !.phase = ph, !.same = s]
        <5> HIDE DEF base
        <5>1. base = [base EXCEPT !.same = k]
          BY <4>2 DEF Record
        <5>2. verdict = "pass" => rec' = [base EXCEPT !.phase = "passed", !.same = 0]
          BY <3>2 DEF Applied, base, k
        <5>3. verdict = "optional" => rec' = [base EXCEPT !.phase = "waiting_review_decision", !.same = 0]
          BY <3>2 DEF Applied, base, k
        <5>4. verdict = "blocking" => \E ph \in {"blocked", "fixing"} : rec' = [base EXCEPT !.phase = ph]
          BY <3>2 DEF Applied, base, k
        <5>5. \A ph : [base EXCEPT !.phase = ph] = [base EXCEPT !.phase = ph, !.same = k]
          BY <4>2 DEF Record
        <5> QED BY <5>2, <5>3, <5>4, <5>5
      <4> HIDE DEF base
      <4>4. /\ rec'.attempt = rec.attempt /\ rec'.proc = "completed" /\ rec'.contract = 0 /\ rec'.phase = ph
            /\ rec'.cycles = rec.cycles + 1 /\ rec'.retry = NoRetry /\ rec'.same = s
        BY <4>2, <4>3 DEF Record
      <4>5. rec' \in Record
        <5>1. s \in 0 .. MaxReviewCycles
          BY <2>3, <4>1, NumbersOK
        <5> QED BY <4>2, <4>3, <5>1 DEF Record, Phases
      <4>6. s <= rec.cycles + 1
        BY <2>3, <4>1
      <4>7. RecordOK'
        BY <2>3, <2>4, <2>5, <4>3, <4>4, <4>6 DEF RecordOK, NoRetry
      <4> QED BY <4>4, <4>5, <4>7
    <3> QED BY <1>4, <3>1, <3>2
  <2> QED BY <1>1, <1>4, <2>1, <2>2, <2>6, InsideWrites DEF Commit
<1> QED BY <1>3, <1>4 DEF Commit

LEMMA InvCatchFails ==
  ASSUME Inv, NEW m \in Managers, CatchFails(m)  PROVE Inv'
<1>1. flight[m].pc = "catch" /\ Writing(m) /\ ~At(m, "turn") /\ NoFault /\ To(m, "finally")
  BY DEF CatchFails, At, Writing, Inside
<1>2. CASE ~(Owns(m) /\ lease = m)
  BY <1>1, <1>2, InsideLeaves DEF CatchFails
<1>3. CASE Owns(m) /\ lease = m
  <2>1. rec.phase = "reviewing" /\ Formed(m)
    BY <1>1, <1>3 DEF Owns, Inv, Manager, Within
  <2>2. Visible = {}
    <3> SUFFICES ASSUME NEW t \in Visible PROVE FALSE
      OBVIOUS
    <3>1. t.by = m /\ Current(m, t)
      BY <1>1, WriterAlone
    <3>2. alive[m] = "up" /\ flight[m].run.intr # "none"
      BY <1>1, <3>1 DEF Visible, Current, At
    <3>3. flight[m].err = "interrupted" /\ flight[m].thread = "bound" /\ flight[m].run.intr = On(flight[m].run.step)
      BY <2>1, <3>2 DEF Formed, CatchFails
    <3>4. flight[m].run.intr = "reviewer" \/ HasCheckpoint(flight[m].run.step)
      BY <3>3 DEF On, HasCheckpoint, Private
    <3> QED BY <1>3, <3>2, <3>3, <3>4 DEF Waits, CatchFails
  <2>3. /\ rec \in Record /\ RecordOK /\ rec.contract \in 0 .. 1 /\ rec.cycles \in Nat /\ rec.cycles < MaxReviewCycles
        /\ rec.same \in Nat /\ rec.same <= rec.cycles /\ ~deciding /\ rec.proc # "waiting"
        /\ flight[m].run \in Run /\ flight[m].run.prior \in Retryable /\ flight[m].run.ev \in 0 .. MaxEdits + 1
    BY <1>1, <2>1, ReviewedRecord
  <2>4. PICK x \in {"none", "unavailable", "conflict"} :
          rec' = [rec EXCEPT !.phase = flight[m].run.prior, !.proc = "failed", !.retry = NoRetry, !.reason = x]
    <3>1. rec.reason \in {"none", "unavailable", "conflict"}
      BY <2>3 DEF Record
    <3> QED BY <1>3, <3>1 DEF CatchFails
  <2>5. /\ rec'.contract = rec.contract /\ rec'.phase = flight[m].run.prior /\ rec'.proc = "failed"
        /\ rec'.attempt = rec.attempt /\ rec'.cycles = rec.cycles /\ rec'.same = rec.same /\ rec'.retry = NoRetry
    BY <2>3, <2>4 DEF Record
  <2>6. rec' \in Record
    BY <2>3, <2>4, NothingOK DEF Record, Phases, Retryable
  <2>7. RecordOK'
    <3>1. deciding' = deciding /\ autos' = autos
      BY DEF CatchFails, sysVars, ghostVars
    <3> QED BY <2>3, <2>5, <3>1 DEF RecordOK, Retryable, NoRetry
  <2> QED BY <1>1, <1>3, <2>1, <2>2, <2>5, <2>6, <2>7, InsideWrites DEF CatchFails
<1> QED BY <1>2, <1>3

\* The catch keeps the exact run: the turn that may still run passes from the call to it.
LEMMA KeepsRun ==
  ASSUME Inv, NEW m \in Managers, At(m, "catch"), NoFault, NEW r \in Run,
         r = flight[m].run \/ (r = [flight[m].run EXCEPT !.term = TRUE] /\ flight[m].run.intr # "none"),
         Keep(m, r), guard' = (IF r.term THEN GuardedFor(r, m) ELSE guard),
         (rec' = WaitingRecord(m, r) /\ Owns(m) /\ lease = m) \/ (rec' = rec /\ r.term),
         UNCHANGED <<ws, lease, sysVars, live, aux, pins, taken, autos>>
  PROVE  Inv'
<1> DEFINE g == flight[m].run
           f == [flight[m] EXCEPT !.pc = "finally", !.keep = TRUE, !.hold = FALSE]
           k == Bit(recov[m] # NoRun)
<1>1. flight[m].pc = "catch" /\ Writing(m) /\ ~At(m, "turn") /\ ~At(m, "enter")
  BY DEF At, Writing, Inside
<1>2. flight[m] \in Flight /\ g \in Run /\ Formed(m) /\ Manager(m) /\ TypeOK /\ Shared
  BY <1>1, RunsOK DEF Inv, Manager, Within
<1>3. /\ g.att = rec.attempt /\ g.att > 0 /\ rec.phase \in Ends /\ ~g.term /\ flight[m].hold
      /\ (recov[m] = NoRun \/ m \in taken)
  BY <1>1, <1>2 DEF Manager, Within
<1>4. /\ r.att = rec.attempt /\ r.att > 0 /\ r.auto = g.auto /\ r.intr = g.intr /\ r.igen = g.igen
      /\ r.step = g.step /\ r.prior = g.prior /\ r # NoRun /\ r.term \in BOOLEAN
      /\ r.term => r.intr # "none"
  <2>1. /\ r.att = g.att /\ r.auto = g.auto /\ r.intr = g.intr /\ r.igen = g.igen /\ r.step = g.step
        /\ r.prior = g.prior /\ r.term \in BOOLEAN /\ (r.term => r.intr # "none")
    BY <1>2, <1>3 DEF Run
  <2>2. r.att # NoRun.att
    BY <1>3, <2>1 DEF NoRun
  <2> QED BY <1>3, <2>1, <2>2
<1>5. f \in Flight
  BY <1>2 DEF Flight
<1>6. /\ f.pc = "finally" /\ f.run = g /\ f.hold = FALSE /\ f.keep = TRUE
  BY <1>2 DEF Flight
<1>7. Go(m, f)
  BY DEF Keep
<1> HIDE DEF f
<1>8. flight' \in [Managers -> Flight] /\ flight'[m] = f /\ \A n \in Managers \ {m} : flight'[n] = flight[n]
  BY <1>5, <1>7, GoOK DEF Inv, TypeOK
<1>9. recov' \in [Managers -> Run] /\ recov'[m] = r /\ \A n \in Managers \ {m} : recov'[n] = recov[n]
  BY <1>2, ParkOK DEF Keep, SetRun, TypeOK
<1>10. k \in {0, 1} /\ (k = 1 => recov[m] # NoRun)
  BY DEF Bit
<1>11. orphans' \in [Managers -> Nat] /\ orphans'[m] = orphans[m] + k /\ \A n \in Managers \ {m} : orphans'[n] = orphans[n]
  <2>1. orphans' = [orphans EXCEPT ![m] = orphans[m] + k]
    BY DEF Keep, SetRun
  <2> HIDE DEF k
  <2> QED BY <2>1, <1>2, <1>10 DEF TypeOK
<1>12. /\ gen' = gen /\ taken' = taken /\ autos' = autos /\ alive' = alive /\ down' = down /\ aux' = aux
       /\ pins' = pins /\ faults' = faults /\ deciding' = deciding /\ lease' = lease /\ live' = live
  BY DEF sysVars, NoFault
<1>13. ASSUME rec' # rec
       PROVE  /\ rec.phase = "reviewing" /\ lease = m
              /\ rec \in Record /\ RecordOK /\ rec.contract \in 0 .. 1 /\ rec.cycles < MaxReviewCycles
              /\ rec.same <= rec.cycles /\ ~deciding /\ g.prior \in Retryable
              /\ rec' = WaitingRecord(m, r)
  BY <1>1, <1>13, ReviewedRecord DEF Owns
<1>14. rec' # rec => /\ rec' \in Record /\ rec'.phase = g.prior /\ rec'.proc = "waiting" /\ rec'.retry = Retained(m, r)
                     /\ rec'.attempt = rec.attempt /\ rec'.cycles = rec.cycles /\ rec'.same = rec.same
                     /\ rec'.contract = rec.contract
  <2> SUFFICES ASSUME rec' # rec
               PROVE  /\ rec' \in Record /\ rec'.phase = g.prior /\ rec'.proc = "waiting" /\ rec'.retry = Retained(m, r)
                      /\ rec'.attempt = rec.attempt /\ rec'.cycles = rec.cycles /\ rec'.same = rec.same
                      /\ rec'.contract = rec.contract
    OBVIOUS
  <2>1. Retained(m, r) \in Retry
    <3>1. r.intr \in {"none", "reviewer", "auxiliary"} /\ r.igen \in {0} \cup Gens
      BY DEF Run
    <3> QED BY <3>1 DEF Retained, Retry
  <2>2. rec' = [rec EXCEPT !.phase = g.prior, !.proc = "waiting", !.retry = Retained(m, r), !.reason = "none"]
    BY <1>4, <1>13 DEF WaitingRecord
  <2>3. rec \in Record /\ g.prior \in Phases
    BY <1>13 DEF Phases, Retryable
  <2> QED BY <2>1, <2>2, <2>3 DEF Record
<1>15. /\ Retained(m, r).intr = r.intr /\ Retained(m, r).gen = r.igen
       /\ Retained(m, r).kind = (IF r.term THEN "cleanup" ELSE "continue")
       /\ r.intr # "none" => Retained(m, r).by = m
  BY DEF Retained
<1>16. ~Writing(m)' /\ ~At(m, "turn")' /\ f.pc \notin Before \cup Chooses \cup {"none", "enter"}
  BY <1>6, <1>8 DEF Writing, Inside, At, Before, Chooses
<1>17. GuardClear
  BY <1>1, <1>2 DEF Shared, Guarded, NoWriter
<1>18. NoWriter'
  <2>1. \A n \in Managers \ {m} : ~Writing(n)
    BY <1>1, WriterAlone
  <2> QED BY <2>1, <1>8, <1>16 DEF NoWriter, Writing
<1>19. guard' \in [by : Managers \cup {Nobody}, gen : {0} \cup Gens, held : BOOLEAN]
  <2>1. r.igen \in {0} \cup Gens
    BY DEF Run
  <2> QED BY <2>1, <1>2 DEF TypeOK, GuardedFor
<1>20. TypeOK'
  <2>1. rec' \in Record
    BY <1>2, <1>14 DEF TypeOK
  <2> QED BY <1>2, <1>8, <1>9, <1>11, <1>12, <1>19, <2>1 DEF TypeOK
<1>21. Acts(m)
  BY <1>8, <1>9, <1>11, <1>12 DEF Acts
<1>22. rec.proc # "waiting"
  BY <1>2, <1>3 DEF Shared, RecordOK, Retryable, Ends
<1>23. Manager(m)'
  <2>1. Outside(m)' /\ Holding(m)'
    BY <1>8, <1>16 DEF Outside, Holding, Before, Chooses
  <2>2. Within(m)'
    BY <1>3, <1>6, <1>8, <1>16 DEF Within
  <2>3. Parked(m)'
    <3>1. (r.intr # "none" <=> r.igen # 0) /\ (r.intr = "auxiliary" => r.step \in Private)
      BY <1>1, <1>2, <1>4 DEF Formed, On
    <3>2. CASE rec' = rec
      <4>1. rec'.phase = "cancelled" \/ (r.att = rec'.attempt /\ rec'.phase = "reviewing")
        BY <1>3, <1>4, <3>2 DEF Ends
      <4> QED BY <1>4, <1>9, <1>22, <3>1, <3>2, <4>1 DEF Parked
    <3>3. CASE rec' # rec
      <4>1. Recovers(recov[m])'
        BY <1>4, <1>9, <1>14, <1>15, <3>3 DEF Recovers
      <4> QED BY <1>4, <1>9, <1>14, <3>1, <3>3, <4>1 DEF Parked
    <3> QED BY <3>2, <3>3
  <2>4. Answered(m)'
    <3> SUFFICES ASSUME NEW t \in Visible', t.by = m
                 PROVE  /\ t.gen = gen'[m]
                        /\ NoWriter' /\ (Unconfirmed(m, t)' \/ rec'.phase \in Ends)
      BY DEF Answered
    <3>1. t \in Visible /\ t \in live'
      BY <1>12 DEF Visible
    <3>2. t.gen = gen[m] /\ Current(m, t)
      BY <1>1, <3>1, WriterAlone
    <3>3. CASE rec' = rec
      BY <1>3, <1>12, <1>18, <3>2, <3>3
    <3>4. CASE rec' # rec
      <4>1. t.att = r.att /\ t.gen = r.igen /\ t.on = r.intr /\ (t.on = "auxiliary" => t \in aux[m])
        <5>1. /\ t.att = g.att /\ t.gen = g.igen /\ t.on = On(g.step)
              /\ g.intr # "none" /\ (t.on = "auxiliary" => t \in aux[m])
          BY <1>1, <3>2 DEF Current
        <5>2. g.intr = On(g.step)
          BY <1>2, <5>1 DEF Formed
        <5> QED BY <1>3, <1>4, <5>1, <5>2
      <4>2. Unconfirmed(m, t)'
        BY <1>4, <1>9, <1>12, <1>14, <3>1, <3>4, <4>1 DEF Unconfirmed, TurnOf, GuardedFor
      <4> QED BY <1>12, <1>18, <3>2, <4>2
    <3> QED BY <3>3, <3>4
  <2>5. Verdict(m)'
    BY <1>6, <1>8 DEF Verdict
  <2>6. Rounds(m)'
    <3>1. Cardinality(aux[m]) \in {0, 1} /\ orphans[m] \in Nat /\ Rounds(m)
      BY <1>2, AtMostOne DEF Manager, Rounds, TypeOK
    <3>2. pins[m] = 1 + 0 + k + Cardinality(aux[m]) + orphans[m]
      BY <1>1, <1>3, <3>1 DEF Rounds, Bit
    <3>3. pins[m] = 0 + 0 + 1 + Cardinality(aux[m]) + (orphans[m] + k)
      <4> HIDE DEF k
      <4> QED BY <1>10, <3>1, <3>2
    <3>4. Bit(recov'[m] # NoRun) = 1 /\ Bit(flight'[m].hold) = 0 /\ Bit((At(m, "turn") /\ flight[m].run.step \in Private /\ flight[m].run.intr = "none")') = 0
      BY <1>4, <1>6, <1>8, <1>9, <1>16 DEF Bit
    <3>5. orphans'[m] > 0 => m \in taken'
      <4> HIDE DEF k
      <4> QED BY <1>3, <1>10, <1>11, <1>12, <3>1 DEF Rounds
    <3> HIDE DEF k
    <3> QED BY <3>1, <3>3, <3>4, <3>5, <1>11, <1>12 DEF Rounds
  <2>7. Owned(m)'
    <3>1. rec'.attempt = rec.attempt
      BY <1>14
    <3>2. Spent(g)
      BY <1>2 DEF Manager, Owned
    <3>3. Spent(r)
      BY <1>3, <1>4, <3>2 DEF Spent
    <3> QED BY <1>6, <1>8, <1>9, <1>12, <3>1, <3>2, <3>3 DEF Owned, Spent
  <2> QED BY <2>1, <2>2, <2>3, <2>4, <2>5, <2>6, <2>7 DEF Manager
<1>24. Shared'
  <2>1. RecordOK'
    <3>1. CASE rec' = rec
      BY <1>2, <1>12, <3>1 DEF Shared, RecordOK
    <3>2. CASE rec' # rec
      <4>1. rec'.attempt > 0
        BY <1>3, <1>14, <3>2
      <4> QED BY <1>2, <1>12, <1>13, <1>14, <1>15, <3>2, <4>1 DEF Shared, RecordOK, Retryable
    <3> QED BY <3>1, <3>2
  <2>2. GensOK'
    BY <1>2, <1>12 DEF Shared, GensOK, GuardedFor
  <2>3. OneVisible'
    <3>1. Visible' = Visible
      BY <1>12 DEF Visible
    <3> QED BY <3>1, <1>2 DEF Shared, OneVisible
  <2>4. Guarded'
    <3>1. CASE rec' = rec
      BY <1>3, <1>18, <3>1 DEF Guarded
    <3>2. CASE rec' # rec
      <4>1. CASE r.term
        <5>1. guard' = GuardedFor(r, m) /\ r.intr # "none"
          BY <1>4, <4>1
        <5> QED BY <1>14, <1>15, <1>18, <3>2, <4>1, <5>1 DEF Guarded, GuardedFor
      <4>2. CASE ~r.term
        <5>1. GuardClear'
          BY <1>12, <1>17, <4>2 DEF GuardClear, Exited
        <5> QED BY <5>1 DEF Guarded
      <4> QED BY <4>1, <4>2
    <3> QED BY <3>1, <3>2
  <2>5. OneRun'
    <3>1. \A n \in Managers : \A a \in 1 .. MaxAttempts : Has(n, a)' => Has(n, a)
      BY <1>3, <1>4, <1>6, <1>8, <1>9 DEF Has
    <3> QED BY <3>1, <1>2 DEF Shared, OneRun
  <2>6. Held'
    <3>1. rec' # rec => recov'[m].att = rec'.attempt
      BY <1>4, <1>9, <1>14
    <3> QED BY <3>1, <1>22 DEF Held
  <2> QED BY <2>1, <2>2, <2>3, <2>4, <2>5, <2>6 DEF Shared
<1>25. rec' = rec \/ (rec.phase = "reviewing" /\ lease = m /\ rec'.attempt = rec.attempt)
  BY <1>13, <1>14
<1> QED BY <1>1, <1>20, <1>21, <1>23, <1>24, <1>25, WriterKeeps

LEMMA InvCatchRejected ==
  ASSUME Inv, NEW m \in Managers, CatchRejected(m)  PROVE Inv'
<1> DEFINE r == [flight[m].run EXCEPT !.term = TRUE]
<1>1. flight[m].run \in Run /\ Formed(m) /\ At(m, "catch") /\ flight[m].err = "rejected"
  BY RunsOK DEF Inv, Manager, Within, CatchRejected, Writing, Inside, At
<1>2. r \in Run /\ r.term = TRUE
  BY <1>1 DEF Run
<1>3. flight[m].run.intr # "none"
  BY <1>1 DEF Formed, At
<1>4. rec' = (IF Owns(m) /\ alive[m] = "up" /\ lease = m THEN WaitingRecord(m, r) ELSE rec) /\ Keep(m, r)
      /\ guard' = GuardedFor(r, m)
  BY DEF CatchRejected
<1> HIDE DEF r
<1>5. r = [flight[m].run EXCEPT !.term = TRUE]
  BY DEF r
<1> QED BY <1>1, <1>2, <1>3, <1>4, <1>5, KeepsRun DEF CatchRejected

LEMMA InvCatchWait ==
  ASSUME Inv, NEW m \in Managers, CatchWait(m)  PROVE Inv'
<1>1. flight[m].run \in Run /\ Writing(m) /\ At(m, "catch") /\ ~At(m, "turn") /\ NoFault
  BY RunsOK DEF Inv, CatchWait, Writing, Inside, At
<1>2. ~flight[m].run.term
  BY <1>1 DEF Inv, Manager, Within
<1>3. CASE To(m, "finally") /\ UNCHANGED <<rec, recov, orphans>>
  BY <1>1, <1>3, InsideLeaves DEF CatchWait, ghostVars
<1>4. CASE lease = m /\ rec' = WaitingRecord(m, flight[m].run) /\ Keep(m, flight[m].run)
  <2>1. Owns(m)
    BY DEF CatchWait, Waits
  <2>2. guard' = guard
    BY DEF CatchWait
  <2> QED BY <1>1, <1>2, <1>4, <2>1, <2>2, KeepsRun DEF CatchWait
<1> QED BY <1>3, <1>4 DEF CatchWait

----------------------------------------------------------------------------
(* The end of a run.                                                         *)
\* One manager acts, no turn starts and none comes back: the others see the record
\* and the guard move, and the lease go.
LEMMA StepKeeps ==
  ASSUME Inv, NEW m \in Managers, Acts(m), TypeOK', Shared', Manager(m)',
         \A n \in Managers \ {m} : Moves(n) /\ alive'[n] = alive[n] /\ gen'[n] = gen[n] /\ (n \in down' <=> n \in down),
         \A k \in Managers : gen[k] <= gen'[k], Visible' \subseteq Visible, live' \subseteq live,
         NoWriter => NoWriter', autos' <= autos,
         guard' = guard \/ (~guard'.held /\ (guard.by = m \/ GuardClear))
  PROVE  Inv'
<1>1. ASSUME NEW n \in Managers \ {m} PROVE Apart(n)
  <2>1. lease' = n => lease = n
    BY NumbersOK DEF Acts
  <2> QED BY <2>1 DEF Apart
<1> QED BY <1>1, ActsKeeps

\* The observation that ends makes nothing of a record that waits or is decided.
LEMMA ObservedOK ==
  ASSUME rec \in Record, rec.proc = "running", NEW R, R = Observed(rec)
  PROVE  /\ R \in Record /\ R.phase = rec.phase /\ R.proc \in {"failed", "completed"} /\ R.retry = rec.retry
         /\ R.attempt = rec.attempt /\ R.cycles = rec.cycles /\ R.contract = rec.contract /\ R.ev = rec.ev
         /\ R.same = rec.same
<1> DEFINE x == IF rec.phase \in {"reviewing", "executing", "fixing"} THEN "failed" ELSE "completed"
<1>1. x \in {"failed", "completed"} /\ R = [rec EXCEPT !.proc = x]
  BY DEF Observed
<1> HIDE DEF x
<1> QED BY <1>1 DEF Record

LEMMA InvFinally ==
  ASSUME Inv, NEW m \in Managers, Finally(m)  PROVE Inv'
<1> DEFINE k == Bit(recov[m] # NoRun)
<1>1. flight[m].pc = "finally" /\ ~Writing(m) /\ ~At(m, "turn") /\ ~At(m, "enter") /\ End(m) /\ NoFault
  BY DEF Finally, At, Writing, Inside
<1>2. flight[m] \in Flight /\ Manager(m) /\ TypeOK /\ Shared /\ rec \in Record
  BY RunsOK DEF Inv, TypeOK
<1>3. /\ flight[m].hold = ~flight[m].keep /\ flight[m].run.att > 0
      /\ ~flight[m].keep => recov[m].att < flight[m].run.att /\ (recov[m] = NoRun \/ m \in taken)
  BY <1>1, <1>2 DEF Manager, Within
<1>4. flight' \in [Managers -> Flight] /\ flight'[m] = NoFlight /\ \A n \in Managers \ {m} : flight'[n] = flight[n]
  BY <1>1, NothingOK, GoOK DEF End, Inv, TypeOK
<1>5. /\ gen' = gen /\ taken' = taken /\ autos' = autos /\ alive' = alive /\ down' = down /\ aux' = aux
      /\ faults' = faults /\ deciding' = deciding /\ live' = live /\ guard' = guard /\ ws' = ws
  BY DEF Finally, sysVars, NoFault
<1>6. k \in {0, 1} /\ (k = 1 => recov[m] # NoRun)
  BY DEF Bit
<1>7. \/ flight[m].keep /\ recov' = recov /\ pins' = pins /\ orphans' = orphans
      \/ /\ ~flight[m].keep /\ recov' = [recov EXCEPT ![m] = NoRun] /\ pins' = [pins EXCEPT ![m] = pins[m] - 1]
         /\ orphans' = [orphans EXCEPT ![m] = orphans[m] + k]
  BY <1>3 DEF Finally, Unpin, Bit
<1>8. /\ recov' \in [Managers -> Run] /\ (\A n \in Managers \ {m} : recov'[n] = recov[n])
      /\ recov'[m] = (IF flight[m].keep THEN recov[m] ELSE NoRun)
  BY <1>2, <1>7, NothingOK DEF TypeOK
<1>9. /\ orphans' \in [Managers -> Nat] /\ (\A n \in Managers \ {m} : orphans'[n] = orphans[n])
      /\ orphans'[m] = (IF flight[m].keep THEN orphans[m] ELSE orphans[m] + k)
  <2> HIDE DEF k
  <2> QED BY <1>2, <1>6, <1>7 DEF TypeOK
<1>10. /\ (\A n \in Managers \ {m} : pins'[n] = pins[n])
       /\ pins'[m] = (IF flight[m].keep THEN pins[m] ELSE pins[m] - 1)
  BY <1>2, <1>7 DEF TypeOK
<1>11. rec' = rec \/ (rec' = Observed(rec) /\ rec.proc = "running" /\ lease = m)
  BY DEF Finally
<1>12. /\ rec' \in Record /\ rec'.phase = rec.phase /\ rec'.attempt = rec.attempt /\ rec'.cycles = rec.cycles
       /\ rec'.contract = rec.contract /\ rec'.ev = rec.ev /\ rec'.same = rec.same /\ rec'.retry = rec.retry
       /\ rec' = rec \/ (rec.proc = "running" /\ rec'.proc \in {"failed", "completed"} /\ lease = m)
  BY <1>2, <1>11, ObservedOK
<1>13. lease' \in {lease, Nobody} /\ lease' # m /\ (lease = m => lease' = Nobody)
  BY <1>1, NumbersOK DEF End, Release
<1>14. ~Writing(m)' /\ ~At(m, "turn")' /\ ~At(m, "enter")'
  BY <1>4 DEF Writing, Inside, At, NoFlight
<1>15. NoWriter => NoWriter'
  BY <1>4, <1>14 DEF NoWriter, Writing
<1>16. Visible' = Visible
  BY <1>5 DEF Visible
<1>17. ~flight[m].keep => recov[m].att # rec.attempt
  <2>1. flight[m].run.att <= rec.attempt /\ flight[m].run.att \in Nat /\ recov[m].att \in Nat /\ rec.attempt \in Nat
    BY <1>2, RunsOK, NumbersOK DEF Manager, Owned, Spent, Record
  <2> QED BY <2>1, <1>3
<1>18. Rounds(m)'
  <2>1. Cardinality(aux[m]) \in {0, 1} /\ orphans[m] \in Nat /\ Rounds(m) /\ pins[m] \in Nat
    BY <1>2, AtMostOne DEF Manager, Rounds, TypeOK
  <2>2. Bit((At(m, "turn") /\ flight[m].run.step \in Private /\ flight[m].run.intr = "none")') = 0
        /\ Bit(flight'[m].hold) = 0
    BY <1>4, <1>14 DEF Bit, NoFlight
  <2>3. CASE flight[m].keep
    <3>1. Bit(flight[m].hold) = 0
          /\ Bit(At(m, "turn") /\ flight[m].run.step \in Private /\ flight[m].run.intr = "none") = 0
      BY <1>1, <1>3, <2>3 DEF Bit
    <3>2. pins' = pins /\ recov' = recov /\ orphans' = orphans
      BY <1>7, <2>3
    <3> QED BY <2>1, <2>2, <3>1, <3>2, <1>5 DEF Rounds
  <2>4. CASE ~flight[m].keep
    <3>1. pins[m] = 1 + 0 + k + Cardinality(aux[m]) + orphans[m]
      BY <1>1, <1>3, <2>1, <2>4 DEF Rounds, Bit
    <3>2. Bit(recov'[m] # NoRun) = 0
      BY <1>8, <2>4 DEF Bit
    <3> HIDE DEF k
    <3>3. pins'[m] = 0 + 0 + 0 + Cardinality(aux[m]) + (orphans[m] + k)
      BY <1>6, <1>10, <2>1, <2>4, <3>1
    <3>4. orphans'[m] > 0 => m \in taken'
      BY <1>3, <1>5, <1>6, <1>9, <2>1, <2>4 DEF Rounds
    <3> QED BY <1>5, <1>9, <2>1, <2>2, <2>4, <3>2, <3>3, <3>4 DEF Rounds
  <2> QED BY <2>3, <2>4
<1>19. pins' \in [Managers -> Nat]
  <2>1. CASE flight[m].keep
    BY <1>2, <1>7, <2>1 DEF TypeOK
  <2>2. CASE ~flight[m].keep
    BY <1>7, <1>9, <1>18, <2>2, PinsOK
  <2> QED BY <2>1, <2>2
<1>20. TypeOK'
  BY <1>2, <1>4, <1>5, <1>8, <1>9, <1>12, <1>13, <1>19 DEF TypeOK
<1>21. Acts(m)
  BY <1>4, <1>5, <1>8, <1>9, <1>10, <1>13 DEF Acts
<1>22. Manager(m)'
  <2>1. Outside(m)' /\ Within(m)' /\ Holding(m)' /\ Verdict(m)'
    BY <1>4, <1>13, <1>14 DEF Outside, Within, Holding, Verdict, NoFlight, Before, Chooses
  <2>2. Parked(m)'
    <3>1. CASE flight[m].keep
      BY <1>2, <1>5, <1>8, <1>12, <3>1 DEF Manager, Parked, Recovers
    <3>2. CASE ~flight[m].keep
      <4>1. recov'[m] = NoRun
        BY <1>8, <3>2
      <4>2. ~NoRun.term /\ NoRun.intr = "none" /\ NoRun.igen = 0
        BY DEF NoRun
      <4> QED BY <4>1, <4>2 DEF Parked
    <3> QED BY <3>1, <3>2
  <2>3. Answered(m)'
    <3> SUFFICES ASSUME NEW t \in Visible, t.by = m
                 PROVE  /\ t.gen = gen'[m]
                        /\ NoWriter' /\ (Unconfirmed(m, t)' \/ rec'.phase \in Ends)
      BY <1>16 DEF Answered
    <3>1. t.gen = gen[m] /\ NoWriter /\ (Unconfirmed(m, t) \/ rec.phase \in Ends)
      BY <1>1, <1>2 DEF Manager, Answered, Current
    <3>2. ASSUME Unconfirmed(m, t) PROVE Unconfirmed(m, t)'
      <4>1. rec.proc = "waiting" /\ recov[m].att = rec.attempt
        BY <3>2 DEF Unconfirmed
      <4>2. recov'[m] = recov[m] /\ rec' = rec
        BY <4>1, <1>8, <1>12, <1>17
      <4> QED BY <1>5, <3>2, <4>2 DEF Unconfirmed, TurnOf, GuardedFor
    <3> QED BY <1>5, <1>12, <1>15, <3>1, <3>2
  <2>4. Owned(m)'
    <3>1. rec.attempt # 0
      BY <1>2, <1>3, RunsOK, NumbersOK DEF Manager, Owned, Spent, Record
    <3>2. Spent(recov[m])
      BY <1>2 DEF Manager, Owned
    <3>3. rec.attempt \in Nat
      BY <1>2, NumbersOK DEF Record
    <3> QED BY <1>4, <1>5, <1>8, <1>12, <3>1, <3>2, <3>3 DEF Owned, Spent, NoFlight, NoRun
  <2> QED BY <1>18, <2>1, <2>2, <2>3, <2>4 DEF Manager
<1>23. Shared'
  <2>1. RecordOK'
    BY <1>2, <1>5, <1>12 DEF Shared, RecordOK
  <2>2. GensOK'
    BY <1>2, <1>5 DEF Shared, GensOK
  <2>3. OneVisible'
    BY <1>2, <1>16 DEF Shared, OneVisible
  <2>4. Guarded'
    BY <1>2, <1>5, <1>12, <1>15 DEF Shared, Guarded, GuardClear, Exited
  <2>5. OneRun'
    <3>1. \A n \in Managers : \A a \in 1 .. MaxAttempts : Has(n, a)' => Has(n, a)
      BY <1>4, <1>8 DEF Has, NoFlight, NoRun
    <3> QED BY <3>1, <1>2 DEF Shared, OneRun
  <2>6. Held'
    <3> SUFFICES ASSUME rec'.proc = "waiting" PROVE Held'
      BY DEF Held
    <3>1. rec' = rec
      BY <1>12
    <3>2. CASE rec.retry.kind = "cleanup" /\ CleanupConfirmed
      BY <1>5, <3>1, <3>2 DEF Held, CleanupConfirmed
    <3>3. ASSUME NEW n \in Managers,
                 \/ alive[n] # "up" \/ n \in taken
                 \/ recov[n].att = rec.attempt
                 \/ At(n, "enter") /\ flight[n].run.att = rec.attempt
          PROVE  \/ alive'[n] # "up" \/ n \in taken'
                 \/ recov'[n].att = rec'.attempt
                 \/ At(n, "enter")' /\ flight'[n].run.att = rec'.attempt
      BY <1>1, <1>4, <1>5, <1>8, <1>17, <3>1, <3>3 DEF At
    <3> QED BY <1>2, <3>1, <3>2, <3>3 DEF Shared, Held
  <2> QED BY <2>1, <2>2, <2>3, <2>4, <2>5, <2>6 DEF Shared
<1>24. ASSUME NEW n \in Managers \ {m} PROVE Moves(n)
  BY <1>12, <1>13, NumbersOK DEF Moves, Closes, Alike
<1>25. autos' <= autos /\ \A j \in Managers : gen[j] <= gen'[j]
  BY <1>2, <1>5 DEF TypeOK, Gens
<1> QED BY <1>5, <1>15, <1>16, <1>20, <1>21, <1>22, <1>23, <1>24, <1>25, StepKeeps

----------------------------------------------------------------------------
(* The old run is taken out of the map for a new round.                      *)
\* Nothing of an attempt is spent by no run.
LEMMA NothingSpent ==
  ASSUME Inv, NEW m \in Managers
  PROVE  Spent(NoRun) /\ NoRun.att = 0 /\ ~NoRun.term /\ NoRun.intr = "none" /\ NoRun.igen = 0
<1>1. NoRun.att = 0 /\ NoRun.auto = 0 /\ ~NoRun.term /\ NoRun.intr = "none" /\ NoRun.igen = 0
  BY DEF NoRun
<1>2. Spent(recov[m]) /\ recov[m].att \in Nat /\ (recov[m] # NoRun => recov[m].att > 0)
  BY RunsOK DEF Inv, Manager, Owned, Parked
<1>3. rec.attempt \in Nat
  BY NumbersOK DEF Inv, TypeOK, Record
<1>4. rec.attempt = 0 => recov[m] = NoRun
  BY <1>2, <1>3 DEF Spent
<1> QED BY <1>1, <1>2, <1>3, <1>4 DEF Spent

\* The others' waiting runs were replaced, when the record waits for none of them.
LEMMA OthersReplaced ==
  ASSUME Inv, rec.phase \in Retryable, NEW m \in Managers, Has(m, rec.attempt) \/ rec.proc # "waiting",
         NEW n \in Managers \ {m}
  PROVE  recov[n] # NoRun => n \in taken
<1> SUFFICES ASSUME recov[n] # NoRun, n \notin taken PROVE FALSE
  OBVIOUS
<1>1. recov[n].att = rec.attempt /\ rec.proc = "waiting" /\ recov[n].att > 0
  BY DEF Inv, Manager, Parked, Recovers, Retryable
<1>2. rec.attempt \in 1 .. MaxAttempts
  BY <1>1, NumbersOK DEF Inv, TypeOK, Record
<1> QED BY <1>1, <1>2 DEF Inv, Shared, OneRun, Has

\* The record that is cleared for a round.
LEMMA ClearedOK ==
  ASSUME rec \in Record, NEW R, R = [rec EXCEPT !.retry = NoRetry, !.reason = "none", !.proc = "none"]
  PROVE  /\ R \in Record /\ R.phase = rec.phase /\ R.proc = "none" /\ R.retry = NoRetry
         /\ R.attempt = rec.attempt /\ R.cycles = rec.cycles /\ R.contract = rec.contract /\ R.ev = rec.ev
         /\ R.same = rec.same
BY NothingOK DEF Record

LEMMA InvClaim ==
  ASSUME Inv, NEW m \in Managers, Claim(m)  PROVE Inv'
<1> DEFINE had == recov[m] # NoRun
           k == Bit(recov[m] # NoRun)
           cleared == [rec EXCEPT !.retry = NoRetry, !.reason = "none", !.proc = "none"]
           others == {n \in Managers \ {m} : recov[n] # NoRun}
<1>1. flight[m].pc = "claim" /\ ~Writing(m) /\ ~At(m, "turn") /\ ~At(m, "enter") /\ NoFault
  BY DEF Claim, At, Writing, Inside
<1>2. flight[m] \in Flight /\ Manager(m) /\ TypeOK /\ Shared /\ rec \in Record
  BY RunsOK DEF Inv, TypeOK
<1>3. /\ flight[m].run = NoRun /\ ~flight[m].exist /\ ~flight[m].keep /\ ~flight[m].hold
      /\ flight[m].scope.attempt < MaxAttempts /\ flight[m].scope.phase \in Retryable
  BY <1>1, <1>2 DEF Manager, Outside, Before, Chooses
<1>4. CASE End(m) /\ UNCHANGED <<rec, recov, pins, taken>>
  <2>1. flight[m].pc \in Before
    BY <1>1 DEF Before
  <2> QED BY <1>1, <1>3, <1>4, <2>1, EarlyGivesUp DEF Claim, ghostVars
<1>5. CASE alive[m] = "up" /\ rec = flight[m].scope /\ recov' = [recov EXCEPT ![m] = NoRun]
           /\ \/ /\ lease = m /\ rec' = cleared
                 /\ Go(m, [flight[m] EXCEPT !.pc = "retire", !.scope = cleared, !.hold = had])
                 /\ taken' = taken \cup others /\ lease' = lease /\ pins' = pins
              \/ /\ lease # m /\ End(m) /\ Unpin(m, k) /\ rec' = rec
                 /\ taken' = IF had THEN taken \cup {m} ELSE taken
  <2>1. /\ gen' = gen /\ autos' = autos /\ alive' = alive /\ down' = down /\ aux' = aux /\ faults' = faults
        /\ deciding' = deciding /\ live' = live /\ guard' = guard /\ ws' = ws /\ orphans' = orphans
    BY <1>1 DEF Claim, sysVars, NoFault
  <2>2. rec.phase \in Retryable
    BY <1>3, <1>5
  <2>3. /\ cleared \in Record /\ cleared.phase = rec.phase /\ cleared.proc = "none" /\ cleared.retry = NoRetry
        /\ cleared.attempt = rec.attempt /\ cleared.cycles = rec.cycles /\ cleared.contract = rec.contract
        /\ cleared.ev = rec.ev /\ cleared.same = rec.same
    BY <1>2, ClearedOK
  <2>4. recov' \in [Managers -> Run] /\ recov'[m] = NoRun /\ \A n \in Managers \ {m} : recov'[n] = recov[n]
    BY <1>2, <1>5, NothingOK, ParkOK DEF TypeOK
  <2> DEFINE claims == lease = m
  <2>5. PICK f \in Flight :
          /\ Go(m, f) /\ f.run = NoRun /\ ~f.exist /\ ~f.keep
          /\ \/ /\ claims /\ f.pc = "retire" /\ f.scope = cleared /\ f.hold = had
                /\ rec' = cleared /\ lease' = m /\ taken' = taken \cup others /\ pins' = pins
             \/ /\ ~claims /\ f = NoFlight /\ lease' = lease /\ rec' = rec /\ Unpin(m, k)
                /\ taken' = IF had THEN taken \cup {m} ELSE taken
    <3>1. CASE claims
      <4> DEFINE f == [flight[m] EXCEPT !.pc = "retire", !.scope = cleared, !.hold = had]
      <4> HIDE DEF cleared, had
      <4>1. cleared \in Record /\ had \in BOOLEAN
        BY <2>3 DEF had
      <4>2. f \in Flight
        BY <1>2, <4>1 DEF Flight
      <4>3. f.run = NoRun /\ ~f.exist /\ ~f.keep /\ f.pc = "retire" /\ f.scope = cleared /\ f.hold = had
        BY <1>2, <1>3 DEF Flight
      <4> QED BY <1>5, <3>1, <4>2, <4>3
    <3>2. CASE ~claims
      <4>1. Go(m, NoFlight) /\ lease' = lease
        BY <1>5, <3>2 DEF End, Release
      <4>2. NoFlight.run = NoRun /\ ~NoFlight.exist /\ ~NoFlight.keep
        BY DEF NoFlight
      <4> QED BY <1>5, <3>2, <4>1, <4>2, NothingOK
    <3> QED BY <3>1, <3>2
  <2> HIDE DEF cleared
  <2>6. flight' \in [Managers -> Flight] /\ flight'[m] = f /\ \A n \in Managers \ {m} : flight'[n] = flight[n]
    BY <2>5, GoOK DEF Inv, TypeOK
  <2>7. /\ rec' \in Record /\ rec'.phase = rec.phase /\ rec'.attempt = rec.attempt /\ rec'.cycles = rec.cycles
        /\ rec'.contract = rec.contract /\ rec'.ev = rec.ev /\ rec'.same = rec.same
        /\ \/ claims /\ rec'.proc = "none" /\ rec'.retry = NoRetry
           \/ ~claims /\ rec' = rec
    BY <1>2, <2>3, <2>5
  <2>8. k \in {0, 1} /\ k = Bit(had) /\ (k = 1 => had)
    BY DEF Bit
  <2>9. /\ (\A n \in Managers \ {m} : pins'[n] = pins[n]) /\ pins'[m] = (IF claims THEN pins[m] ELSE pins[m] - k)
    <3> HIDE DEF k
    <3> QED BY <1>2, <2>5 DEF TypeOK, Unpin
  <2>10. f.pc \in {"none", "retire"} /\ (f.pc = "none" => f = NoFlight /\ ~f.hold)
    BY <2>5 DEF NoFlight
  <2>11. ~Writing(m)' /\ ~At(m, "turn")' /\ ~At(m, "enter")'
    BY <2>6, <2>10 DEF Writing, Inside, At
  <2>12. NoWriter => NoWriter'
    BY <2>6, <2>11 DEF NoWriter, Writing
  <2>13. Visible' = Visible
    BY <2>1 DEF Visible
  <2>14. \A t \in Visible : t.by # m
    BY <1>1, <1>2, <2>2 DEF Manager, Verdict
  <2>15. taken \subseteq taken' /\ taken' \subseteq Managers /\ (had /\ ~claims => m \in taken')
    BY <1>2, <2>5 DEF TypeOK
  <2>16. Rounds(m)'
    <3>1. Cardinality(aux[m]) \in {0, 1} /\ orphans[m] \in Nat /\ Rounds(m) /\ pins[m] \in Nat
      BY <1>2, AtMostOne DEF Manager, Rounds, TypeOK
    <3>2. Bit((At(m, "turn") /\ flight[m].run.step \in Private /\ flight[m].run.intr = "none")') = 0
          /\ Bit(recov'[m] # NoRun) = 0
      BY <2>4, <2>11 DEF Bit
    <3>3. pins[m] = 0 + 0 + k + Cardinality(aux[m]) + orphans[m]
      BY <1>1, <1>3, <3>1 DEF Rounds, Bit
    <3>4. Bit(flight'[m].hold) = (IF claims THEN k ELSE 0)
      <4>1. claims => flight'[m].hold = had
        BY <2>5, <2>6
      <4>2. ~claims => ~flight'[m].hold
        BY <2>5, <2>6, <2>10 DEF NoFlight
      <4>3. ~claims => Bit(flight'[m].hold) = 0
        BY <4>2 DEF Bit
      <4> QED BY <4>1, <4>3, <2>8
    <3> HIDE DEF k
    <3>5. pins'[m] = Bit(flight'[m].hold) + 0 + 0 + Cardinality(aux[m]) + orphans[m]
      BY <2>8, <2>9, <3>1, <3>3, <3>4
    <3> QED BY <2>1, <2>15, <3>1, <3>2, <3>5 DEF Rounds
  <2>17. pins' \in [Managers -> Nat]
    <3>1. CASE claims
      BY <1>2, <2>5, <3>1 DEF TypeOK
    <3>2. CASE ~claims
      <4>1. orphans' \in [Managers -> Nat] /\ pins' = [pins EXCEPT ![m] = pins[m] - k]
        BY <1>2, <2>1, <2>5, <3>2 DEF TypeOK, Unpin
      <4> HIDE DEF k
      <4> QED BY <2>16, <4>1, PinsOK
    <3> QED BY <3>1, <3>2
  <2>18. TypeOK'
    <3>1. lease' \in Managers \cup {Nobody}
      BY <1>2, <2>5 DEF TypeOK
    <3> QED BY <1>2, <2>1, <2>4, <2>6, <2>7, <2>15, <2>17, <3>1 DEF TypeOK
  <2>19. Acts(m)
    BY <2>1, <2>4, <2>5, <2>6, <2>9, <2>15 DEF Acts
  <2>20. claims => Visible = {} /\ GuardClear
    BY <1>1, <1>2, <1>5 DEF Manager, Holding
  <2>21. Manager(m)'
    <3>1. Outside(m)'
      <4>1. CASE f.pc = "retire"
        <5>1. f.scope = cleared
          BY <2>5, <4>1 DEF NoFlight
        <5> QED BY <1>3, <1>5, <2>2, <2>3, <2>5, <2>6, <4>1, <5>1 DEF Outside, Before, Chooses
      <4>2. CASE f.pc = "none"
        BY <2>6, <2>10, <4>2 DEF Outside, Before, Chooses
      <4> QED BY <2>10, <4>1, <4>2
    <3>2. Within(m)' /\ Verdict(m)'
      BY <2>6, <2>10, <2>11 DEF Within, Verdict
    <3>3. Parked(m)'
      BY <2>4, NothingSpent DEF Parked
    <3>4. Holding(m)'
      <4> SUFFICES ASSUME lease' = m PROVE Holding(m)'
        BY DEF Holding
      <4>1. claims
        BY <2>5
      <4>2. f.pc = "retire" /\ f.scope = rec'
        BY <2>5, <4>1
      <4>3. Visible' = {} /\ GuardClear'
        BY <2>1, <2>13, <2>20, <4>1 DEF GuardClear, Exited
      <4> QED BY <2>4, <2>6, <2>7, <4>1, <4>2, <4>3 DEF Holding
    <3>5. Answered(m)'
      BY <2>13, <2>14 DEF Answered
    <3>6. Owned(m)'
      BY <2>1, <2>4, <2>5, <2>6, <2>7, NothingSpent DEF Owned, Spent
    <3> QED BY <2>16, <3>1, <3>2, <3>3, <3>4, <3>5, <3>6 DEF Manager
  <2>22. Shared'
    <3>1. RecordOK'
      BY <1>2, <2>1, <2>2, <2>7 DEF Shared, RecordOK, NoRetry, Retryable
    <3>2. GensOK'
      BY <1>2, <2>1 DEF Shared, GensOK
    <3>3. OneVisible'
      BY <1>2, <2>13 DEF Shared, OneVisible
    <3>4. Guarded'
      BY <1>2, <2>1, <2>7, <2>12, <2>20 DEF Shared, Guarded, GuardClear, Exited
    <3>5. OneRun'
      <4>1. \A n \in Managers : \A a \in 1 .. MaxAttempts : Has(n, a)' => Has(n, a)
        BY <1>3, <2>4, <2>5, <2>6, NothingSpent DEF Has
      <4> QED BY <4>1, <1>2 DEF Shared, OneRun
    <3>6. Held'
      <4> SUFFICES ASSUME rec'.proc = "waiting" PROVE Held'
        BY DEF Held
      <4>1. rec' = rec /\ ~claims
        BY <2>7
      <4>2. CASE rec.retry.kind = "cleanup" /\ CleanupConfirmed
        BY <2>1, <4>1, <4>2 DEF Held, CleanupConfirmed
      <4>3. ASSUME NEW n \in Managers,
                   \/ alive[n] # "up" \/ n \in taken
                   \/ recov[n].att = rec.attempt
                   \/ At(n, "enter") /\ flight[n].run.att = rec.attempt
            PROVE  \/ alive'[n] # "up" \/ n \in taken'
                   \/ recov'[n].att = rec'.attempt
                   \/ At(n, "enter")' /\ flight'[n].run.att = rec'.attempt
        BY <1>1, <2>1, <2>4, <2>6, <2>15, <4>1, <4>3 DEF At
      <4> QED BY <1>2, <4>1, <4>2, <4>3 DEF Shared, Held
    <3> QED BY <3>1, <3>2, <3>3, <3>4, <3>5, <3>6 DEF Shared
  <2>23. ASSUME NEW n \in Managers \ {m} PROVE Moves(n)
    <3>1. CASE claims
      <4>1. lease' # n /\ rec'.proc # "waiting" /\ (recov[n] # NoRun => n \in taken')
        BY <2>5, <2>7, <3>1
      <4>2. ~Writing(n) /\ NoneOf(n)
        BY <2>2, <2>20, <3>1 DEF Inv, Manager, Within, Retryable, Ends, NoneOf
      <4>3. rec.attempt <= rec'.attempt
        BY <1>2, <2>7, NumbersOK DEF Record
      <4> QED BY <4>1, <4>2, <4>3 DEF Moves, Takes
    <3>2. CASE ~claims
      BY <2>7, <3>2 DEF Moves
    <3> QED BY <3>1, <3>2
  <2>24. autos' <= autos /\ \A j \in Managers : gen[j] <= gen'[j]
    BY <1>2, <2>1 DEF TypeOK, Gens
  <2> QED BY <2>1, <2>12, <2>13, <2>18, <2>19, <2>21, <2>22, <2>23, <2>24, StepKeeps
<1> QED BY <1>4, <1>5 DEF Claim

----------------------------------------------------------------------------
(* The waiting run is taken up for its continuation.                         *)
\* While the record waits for the run of one manager, no other run has a turn.
LEMMA WaitsAlone ==
  ASSUME Inv, NEW m \in Managers, StillWaits(m), ~recov[m].term
  PROVE  /\ rec.phase = recov[m].prior /\ rec.phase \in Retryable /\ rec.proc = "waiting"
         /\ recov[m].att = rec.attempt /\ rec.attempt \in 1 .. MaxAttempts
         /\ rec.retry = Retained(m, recov[m]) /\ rec.retry.kind = "continue"
         /\ \A n \in Managers \ {m} : ~Has(n, rec.attempt) /\ ~Writing(n) /\ NoneOf(n) /\ (recov[n] # NoRun => n \in taken)
         /\ NoWriter /\ GuardClear
         /\ \A t \in Visible : t \in TurnOf(m, recov[m])
<1> DEFINE r == recov[m]
<1>1. r \in Run /\ r.att = rec.attempt /\ r # NoRun /\ rec.proc = "waiting" /\ rec.phase = r.prior /\ r.att > 0
  BY RunsOK DEF StillWaits, Recovers, Inv, Manager, Parked
<1>2. rec.phase \in Retryable
  BY <1>1 DEF Run, Retryable
<1>3. rec.attempt \in 1 .. MaxAttempts
  BY <1>1, NumbersOK DEF Inv, TypeOK, Record
<1>4. rec.retry = Retained(m, r) /\ rec.retry.kind = "continue"
  BY <1>1 DEF Inv, Manager, Parked, Retained
<1>5. GuardClear
  BY <1>2, <1>4 DEF Inv, Shared, Guarded, Retryable, Ends
<1>6. \A n \in Managers : ~Writing(n)
  BY <1>2 DEF Inv, Manager, Within, Retryable, Ends
<1>7. \A n \in Managers \ {m} : ~Has(n, rec.attempt)
  BY <1>1, <1>3 DEF Inv, Shared, OneRun, Has
<1>8. ASSUME NEW t \in Visible PROVE t.by = m /\ t \in TurnOf(m, r)
  <2>1. t.by \in Managers /\ Unconfirmed(t.by, t)
    BY <1>2, RestsWaiting
  <2>2. Has(t.by, rec.attempt)
    BY <2>1 DEF Unconfirmed, Has
  <2> QED BY <1>7, <2>1, <2>2 DEF Unconfirmed
<1>9. \A n \in Managers \ {m} : NoneOf(n)
  BY <1>8 DEF NoneOf
<1>10. \A n \in Managers \ {m} : recov[n] # NoRun => n \in taken
  BY <1>1, <1>2, OthersReplaced DEF Has
<1> QED BY <1>1, <1>2, <1>3, <1>4, <1>5, <1>6, <1>7, <1>8, <1>9, <1>10 DEF NoWriter

\* The run of the record passes from the map to the call, its turn confirmed ended.
LEMMA TakesUp ==
  ASSUME Inv, NEW m \in Managers, flight[m].pc \in {"verify", "acknowledge"}, StillWaits(m), NoFault, TakeUp(m, recov[m]),
         UNCHANGED <<ws, lease, guard, sysVars, ghostVars>>,
         live' = live \ TurnOf(m, recov[m]), aux' = [aux EXCEPT ![m] = @ \ TurnOf(m, recov[m])],
         pins' = [pins EXCEPT ![m] = @ - Cardinality(aux[m] \cap TurnOf(m, recov[m]))],
         rec' = [rec EXCEPT !.retry = [@ EXCEPT !.intr = "none", !.by = Nobody, !.gen = 0]],
         rec' = rec \/ lease = m
  PROVE  Inv'
<1> DEFINE r == recov[m]
           S == TurnOf(m, r)
           g == [r EXCEPT !.intr = "none", !.igen = 0]
           f == [flight[m] EXCEPT !.pc = "enter", !.exist = TRUE, !.hold = TRUE, !.thread = "bound",
                                  !.run = g, !.scope = rec']
<1>1. ~Writing(m) /\ ~At(m, "turn") /\ ~At(m, "enter") /\ flight[m].pc \in Before
  BY DEF At, Writing, Inside, Before
<1>2. flight[m] \in Flight /\ Manager(m) /\ TypeOK /\ Shared /\ rec \in Record /\ r \in Run
  BY RunsOK DEF Inv, TypeOK
<1>3. /\ flight[m].run = NoRun /\ ~flight[m].exist /\ ~flight[m].keep /\ ~flight[m].hold /\ ~r.term
      /\ r # NoRun /\ r.att < MaxAttempts
  BY <1>1, <1>2 DEF Manager, Outside, StillWaits
<1>4. /\ rec.phase = r.prior /\ rec.phase \in Retryable /\ rec.proc = "waiting"
      /\ r.att = rec.attempt /\ rec.attempt \in 1 .. MaxAttempts
      /\ rec.retry = Retained(m, r) /\ rec.retry.kind = "continue"
      /\ NoWriter /\ GuardClear /\ \A t \in Visible : t \in S
  BY <1>3, WaitsAlone
<1>5. \A n \in Managers \ {m} : ~Has(n, rec.attempt) /\ ~Writing(n) /\ NoneOf(n) /\ (recov[n] # NoRun => n \in taken)
  BY <1>3, WaitsAlone
<1>6. /\ gen' = gen /\ autos' = autos /\ alive' = alive /\ down' = down /\ faults' = faults
      /\ deciding' = deciding /\ guard' = guard /\ ws' = ws /\ orphans' = orphans /\ taken' = taken /\ lease' = lease
  BY DEF sysVars, ghostVars, NoFault
<1>7. /\ rec' \in Record /\ rec'.phase = rec.phase /\ rec'.attempt = rec.attempt /\ rec'.cycles = rec.cycles
      /\ rec'.contract = rec.contract /\ rec'.ev = rec.ev /\ rec'.same = rec.same /\ rec'.proc = rec.proc
      /\ rec'.retry \in Retry /\ rec'.retry.kind = "continue" /\ rec'.retry.intr = "none"
      /\ rec'.retry.by = Nobody /\ rec'.retry.gen = 0
  <2> DEFINE q == [rec.retry EXCEPT !.intr = "none", !.by = Nobody, !.gen = 0]
  <2>1. rec.retry \in Retry
    BY <1>2 DEF Record
  <2>2. q \in Retry /\ q.kind = "continue" /\ q.intr = "none" /\ q.by = Nobody /\ q.gen = 0
    BY <1>4, <2>1 DEF Retry
  <2>3. rec' = [rec EXCEPT !.retry = q]
    OBVIOUS
  <2> HIDE DEF q
  <2> QED BY <1>2, <2>2, <2>3 DEF Record
<1>8. /\ g \in Run /\ g.att = r.att /\ g.auto = r.auto /\ g.prior = r.prior /\ ~g.term /\ g.intr = "none" /\ g.igen = 0
  BY <1>2, <1>3 DEF Run
<1>9. f \in Flight
  <2> HIDE DEF g
  <2> QED BY <1>2, <1>7, <1>8 DEF Flight
<1>10. /\ f.pc = "enter" /\ f.exist = TRUE /\ f.hold = TRUE /\ f.thread = "bound" /\ f.run = g /\ f.scope = rec'
       /\ ~f.keep
  BY <1>2, <1>3 DEF Flight
<1>11. Go(m, f) /\ recov' = [recov EXCEPT ![m] = NoRun]
  BY DEF TakeUp
<1> HIDE DEF f, g
<1>12. flight' \in [Managers -> Flight] /\ flight'[m] = f /\ \A n \in Managers \ {m} : flight'[n] = flight[n]
  BY <1>9, <1>11, GoOK DEF Inv, TypeOK
<1>13. recov' \in [Managers -> Run] /\ recov'[m] = NoRun /\ \A n \in Managers \ {m} : recov'[n] = recov[n]
  BY <1>2, <1>11, NothingOK, ParkOK DEF TypeOK
<1>14. aux' \in [Managers -> SUBSET Turn] /\ aux'[m] = aux[m] \ S /\ \A n \in Managers \ {m} : aux'[n] = aux[n]
  BY <1>2 DEF TypeOK
<1>15. pins'[m] = pins[m] - Cardinality(aux[m] \cap S) /\ \A n \in Managers \ {m} : pins'[n] = pins[n]
  BY <1>2 DEF TypeOK
<1>16. Visible' = {}
  BY <1>4, <1>6 DEF Visible
<1>17. ~Writing(m)' /\ ~At(m, "turn")' /\ f.pc \notin Before
  BY <1>10, <1>12 DEF Writing, Inside, At, Before
<1>18. NoWriter'
  BY <1>4, <1>12, <1>17 DEF NoWriter, Writing
<1>19. Rounds(m)'
  <2>1. /\ Cardinality(aux[m]) \in {0, 1} /\ orphans[m] \in Nat /\ Rounds(m) /\ pins[m] \in Nat
        /\ \A t, u \in aux[m] : t = u
    BY <1>2, AtMostOne DEF Manager, Rounds, TypeOK
  <2>2. /\ Cardinality(aux[m] \cap S) \in {0, 1}
        /\ Cardinality(aux[m] \ S) = Cardinality(aux[m]) - Cardinality(aux[m] \cap S)
    <3>1. aux[m] \cap S \in SUBSET aux[m] /\ aux[m] \ (aux[m] \cap S) = aux[m] \ S
      OBVIOUS
    <3>2. /\ Cardinality(aux[m] \cap S) \in {0, 1}
          /\ Cardinality(aux[m] \ (aux[m] \cap S)) = Cardinality(aux[m]) - Cardinality(aux[m] \cap S)
      BY <2>1, <3>1, AtMostOne
    <3> QED BY <3>1, <3>2
  <2>3. /\ Bit((At(m, "turn") /\ flight[m].run.step \in Private /\ flight[m].run.intr = "none")') = 0
        /\ Bit(recov'[m] # NoRun) = 0 /\ Bit(flight'[m].hold) = 1
    BY <1>10, <1>12, <1>13, <1>17 DEF Bit
  <2>4. pins[m] = 0 + 0 + 1 + Cardinality(aux[m]) + orphans[m]
    BY <1>1, <1>3, <2>1 DEF Rounds, Bit
  <2>5. pins'[m] = 1 + 0 + 0 + Cardinality(aux[m] \ S) + orphans[m]
    <3> HIDE DEF S
    <3> QED BY <1>15, <2>1, <2>2, <2>4
  <2> QED BY <1>6, <1>14, <2>1, <2>3, <2>5 DEF Rounds
<1>20. pins' \in [Managers -> Nat]
  <2>1. orphans' \in [Managers -> Nat]
    BY <1>2, <1>6 DEF TypeOK
  <2> QED BY <2>1, <1>19, PinsOK
<1>21. TypeOK'
  BY <1>2, <1>6, <1>7, <1>12, <1>13, <1>14, <1>20 DEF TypeOK
<1>22. Acts(m)
  BY <1>6, <1>12, <1>13, <1>14, <1>15 DEF Acts
<1>23. Manager(m)'
  <2>1. Outside(m)'
    <3>1. rec'.retry = Retained(m, g)
      <4>1. Retained(m, g) = [kind |-> "continue", intr |-> "none", by |-> Nobody, gen |-> 0]
        BY <1>8 DEF Retained
      <4>2. \A q \in Retry : q = [kind |-> q.kind, intr |-> q.intr, by |-> q.by, gen |-> q.gen]
        BY DEF Retry
      <4> QED BY <1>7, <4>1, <4>2
    <3>2. f.scope.attempt < MaxAttempts /\ f.scope.phase \in Retryable
      BY <1>3, <1>4, <1>7, <1>10
    <3>3. /\ flight'[m].pc = "enter" /\ flight'[m].exist /\ flight'[m].hold /\ flight'[m].hold = flight'[m].exist
          /\ ~flight'[m].keep /\ flight'[m].thread = "bound" /\ flight'[m].run = g /\ flight'[m].scope = rec'
      BY <1>10, <1>12
    <3>4. g.att > 0 /\ g.att = rec'.attempt /\ g.prior = rec'.phase
      BY <1>4, <1>7, <1>8
    <3>5. rec'.attempt < MaxAttempts /\ rec'.phase \in Retryable
      BY <1>10, <3>2
    <3> QED BY <1>8, <1>13, <3>1, <3>3, <3>4, <3>5 DEF Outside, Before, Chooses
  <2>2. Within(m)' /\ Verdict(m)'
    BY <1>10, <1>12, <1>17 DEF Within, Verdict
  <2>3. Parked(m)'
    BY <1>13, NothingSpent DEF Parked
  <2>4. Holding(m)'
    <3>1. Visible' = {} /\ GuardClear'
      BY <1>4, <1>6, <1>16 DEF GuardClear, Exited
    <3>2. rec'.cycles < MaxReviewCycles
      BY <1>2, <1>4, <1>7 DEF Shared, RecordOK
    <3>3. Recovers(flight[m].run)'
      BY <1>4, <1>7, <1>8, <1>10, <1>12 DEF Recovers
    <3>4. flight'[m].pc = "enter" /\ flight'[m].exist /\ flight'[m].scope = rec'
      BY <1>10, <1>12
    <3> QED BY <3>1, <3>2, <3>3, <3>4 DEF Holding
  <2>5. Answered(m)'
    BY <1>16 DEF Answered
  <2>6. Owned(m)'
    <3>1. Spent(r) /\ Spent(NoRun)
      BY <1>2, NothingSpent DEF Manager, Owned
    <3> QED BY <1>6, <1>7, <1>8, <1>10, <1>12, <1>13, <3>1 DEF Owned, Spent
  <2> QED BY <1>19, <2>1, <2>2, <2>3, <2>4, <2>5, <2>6 DEF Manager
<1>24. Shared'
  <2>1. RecordOK'
    BY <1>2, <1>6, <1>7 DEF Shared, RecordOK
  <2>2. GensOK'
    BY <1>2, <1>6 DEF Shared, GensOK
  <2>3. OneVisible'
    BY <1>16 DEF OneVisible
  <2>4. Guarded'
    BY <1>4, <1>6 DEF Guarded, GuardClear, Exited
  <2>5. OneRun'
    <3>1. \A n \in Managers : \A a \in 1 .. MaxAttempts : Has(n, a)' => Has(n, a)
      BY <1>8, <1>10, <1>12, <1>13, NothingSpent DEF Has
    <3> QED BY <3>1, <1>2 DEF Shared, OneRun
  <2>6. Held'
    BY <1>4, <1>7, <1>8, <1>10, <1>12 DEF Held, At
  <2> QED BY <2>1, <2>2, <2>3, <2>4, <2>5, <2>6 DEF Shared
<1>25. ASSUME NEW n \in Managers \ {m} PROVE Moves(n)
  <2>1. CASE rec' = rec
    BY <2>1 DEF Moves
  <2>2. CASE lease = m
    <3>1. lease' # n /\ ~Has(n, rec'.attempt) /\ rec.attempt <= rec'.attempt
      BY <1>4, <1>5, <1>6, <1>7, <1>12, <1>13, <2>2, NumbersOK
    <3> QED BY <1>5, <1>6, <3>1 DEF Moves, Takes
  <2> QED BY <2>1, <2>2
<1>26. autos' <= autos /\ \A j \in Managers : gen[j] <= gen'[j]
  BY <1>2, <1>6 DEF TypeOK, Gens
<1>27. Visible' \subseteq Visible /\ live' \subseteq live
  BY <1>16
<1> QED BY <1>6, <1>18, <1>21, <1>22, <1>23, <1>24, <1>25, <1>26, <1>27, StepKeeps

LEMMA InvVerify ==
  ASSUME Inv, NEW m \in Managers, Verify(m)  PROVE Inv'
<1> DEFINE r == recov[m]
<1>1. flight[m].pc = "verify" /\ flight[m].pc \in Before /\ ~flight[m].hold /\ At(m, "verify")
  BY DEF Verify, At, Before, Inv, Manager, Outside
<1>2. TypeOK /\ r \in Run /\ rec \in Record /\ ~r.term
  BY <1>1, RunsOK DEF Inv, TypeOK, Manager, Outside
<1>3. CASE End(m) /\ UNCHANGED <<rec, recov>> /\ (Fault \/ NoFault)
  BY <1>1, <1>3, EarlyGivesUp DEF Verify
<1>4. CASE NoFault /\ UNCHANGED <<rec, lease, recov>> /\ To(m, "acknowledge")
  BY <1>1, <1>4, EarlyMoves DEF Verify
<1>5. CASE NoFault /\ UNCHANGED <<rec, lease>> /\ StillWaits(m) /\ r.intr = "none" /\ TakeUp(m, r)
  <2>1. TurnOf(m, r) = {}
    BY <1>2, <1>5 DEF TurnOf, TypeOK, Turn
  <2>2. live' = live \ TurnOf(m, r)
    BY <2>1 DEF Verify
  <2>3. aux' = [aux EXCEPT ![m] = @ \ TurnOf(m, r)]
    <3>1. aux[m] \ TurnOf(m, r) = aux[m]
      BY <2>1
    <3>2. aux' = aux
      BY DEF Verify
    <3> QED BY <1>2, <3>1, <3>2 DEF TypeOK
  <2>4. pins' = [pins EXCEPT ![m] = @ - Cardinality(aux[m] \cap TurnOf(m, r))]
    <3>1. aux[m] \cap TurnOf(m, r) = {}
      BY <2>1
    <3>2. Cardinality(aux[m] \cap TurnOf(m, r)) = 0 /\ pins' = pins
      BY <3>1, FS_EmptySet DEF Verify
    <3> QED BY <1>2, <3>2 DEF TypeOK
  <2>5. rec' = [rec EXCEPT !.retry = [@ EXCEPT !.intr = "none", !.by = Nobody, !.gen = 0]]
    <3> DEFINE q == rec.retry
    <3>1. q = Retained(m, r) /\ r.igen = 0
      BY <1>2, <1>5, WaitsAlone DEF Inv, Manager, Parked
    <3>2. q \in Retry /\ q.intr = "none" /\ q.by = Nobody /\ q.gen = 0
      BY <1>2, <1>5, <3>1 DEF Record, Retained
    <3>3. q = [q EXCEPT !.intr = "none", !.by = Nobody, !.gen = 0]
      <4> HIDE DEF q
      <4> QED BY <3>2 DEF Retry
    <3>4. rec = [rec EXCEPT !.retry = q]
      BY <1>2 DEF Record
    <3>5. rec' = rec
      BY <1>5
    <3> QED BY <3>3, <3>4, <3>5
  <2> QED BY <1>1, <1>5, <2>2, <2>3, <2>4, <2>5, TakesUp DEF Verify
<1> QED BY <1>3, <1>4, <1>5 DEF Verify

\* The interrupted turn was confirmed ended, and the run is no longer waited for.
LEMMA AcknowledgeEnds ==
  ASSUME Inv, NEW m \in Managers, At(m, "acknowledge"), End(m), NoFault,
         UNCHANGED <<rec, ws, guard, sysVars, recov, ghostVars>>,
         live' = live \ TurnOf(m, recov[m]), aux' = [aux EXCEPT ![m] = @ \ TurnOf(m, recov[m])],
         pins' = [pins EXCEPT ![m] = @ - Cardinality(aux[m] \cap TurnOf(m, recov[m]))]
  PROVE  Inv'
<1> DEFINE S == TurnOf(m, recov[m])
<1>1. flight[m].pc = "acknowledge" /\ ~Writing(m) /\ ~At(m, "turn") /\ ~At(m, "enter") /\ flight[m].pc \in Before
  BY DEF At, Writing, Inside, Before
<1>2. flight[m] \in Flight /\ Manager(m) /\ TypeOK
  BY RunsOK DEF Inv
<1>3. flight[m].run = NoRun /\ ~flight[m].hold
  BY <1>1, <1>2 DEF Manager, Outside
<1>4. flight' \in [Managers -> Flight] /\ flight'[m] = NoFlight /\ \A n \in Managers \ {m} : flight'[n] = flight[n]
  BY NothingOK, GoOK DEF End, Inv, TypeOK
<1>5. aux' \in [Managers -> SUBSET Turn] /\ aux'[m] = aux[m] \ S /\ \A n \in Managers \ {m} : aux'[n] = aux[n]
  BY <1>2 DEF TypeOK
<1>6. pins'[m] = pins[m] - Cardinality(aux[m] \cap S) /\ \A n \in Managers \ {m} : pins'[n] = pins[n]
  BY <1>2 DEF TypeOK
<1>7. lease' \in {lease, Nobody} /\ lease' # m
  BY NumbersOK DEF End, Release
<1>8. Works1(m)
  <2>1. \A t \in live' : t \in live
    OBVIOUS
  <2>2. lease' \in {lease, Nobody, m} /\ (lease' = m => lease \in {m, Nobody})
    BY <1>7
  <2> QED BY <1>4, <1>5, <1>6, <2>1, <2>2 DEF Works1, Acts, ghostVars
<1>9. ~Writing(m)' /\ ~At(m, "turn")'
  BY <1>4 DEF Writing, Inside, At, NoFlight
<1>10. Outside(m)' /\ Within(m)' /\ Holding(m)' /\ Verdict(m)'
  BY <1>4, <1>7, <1>9 DEF Outside, Within, Holding, Verdict, NoFlight, Before, Chooses
<1>11. Answered(m)'
  <2>1. \A t \in live' : t \in aux[m] => t \in aux'[m]
    BY <1>5
  <2> QED BY <1>1, <1>8, <1>9, <2>1, StillAnswered
<1>12. Rounds(m)'
  <2>1. /\ Cardinality(aux[m]) \in {0, 1} /\ orphans[m] \in Nat /\ Rounds(m) /\ pins[m] \in Nat
        /\ \A t, u \in aux[m] : t = u
    BY <1>2, AtMostOne DEF Manager, Rounds, TypeOK
  <2>2. /\ Cardinality(aux[m] \cap S) \in {0, 1}
        /\ Cardinality(aux[m] \ S) = Cardinality(aux[m]) - Cardinality(aux[m] \cap S)
    <3>1. aux[m] \cap S \in SUBSET aux[m] /\ aux[m] \ (aux[m] \cap S) = aux[m] \ S
      OBVIOUS
    <3>2. /\ Cardinality(aux[m] \cap S) \in {0, 1}
          /\ Cardinality(aux[m] \ (aux[m] \cap S)) = Cardinality(aux[m]) - Cardinality(aux[m] \cap S)
      BY <2>1, <3>1, AtMostOne
    <3> QED BY <3>1, <3>2
  <2> DEFINE k == Bit(recov[m] # NoRun)
  <2>3. /\ Bit((At(m, "turn") /\ flight[m].run.step \in Private /\ flight[m].run.intr = "none")') = 0
        /\ Bit(flight'[m].hold) = 0 /\ k \in Nat
    BY <1>4, <1>9 DEF Bit, NoFlight
  <2>4. pins[m] = 0 + 0 + k + Cardinality(aux[m]) + orphans[m]
    BY <1>1, <1>3, <2>1 DEF Rounds, Bit
  <2>5. /\ recov' = recov /\ orphans' = orphans /\ taken' = taken
    BY DEF ghostVars
  <2>6. pins'[m] = 0 + 0 + k + Cardinality(aux[m] \ S) + orphans[m]
    <3> HIDE DEF S, k
    <3> QED BY <1>6, <2>1, <2>2, <2>3, <2>4
  <2> QED BY <1>5, <2>1, <2>3, <2>5, <2>6 DEF Rounds
<1>13. pins' \in [Managers -> Nat]
  <2>1. orphans' \in [Managers -> Nat]
    BY <1>2 DEF TypeOK, ghostVars
  <2> QED BY <2>1, <1>12, PinsOK
<1>14. Owned(m)' /\ flight'[m].run.att = 0
  BY <1>2, <1>3, <1>4 DEF Manager, Owned, Spent, ghostVars, NoFlight, NoRun
<1> QED BY <1>1, <1>4, <1>5, <1>8, <1>9, <1>10, <1>11, <1>12, <1>13, <1>14, WorksKeeps

LEMMA InvAcknowledge ==
  ASSUME Inv, NEW m \in Managers, Acknowledge(m)  PROVE Inv'
<1> DEFINE r == recov[m]
           S == TurnOf(m, r)
           A == aux[m] \cap S
<1>1. flight[m].pc = "acknowledge" /\ flight[m].pc \in Before /\ ~flight[m].hold /\ At(m, "acknowledge")
  BY DEF Acknowledge, At, Before, Inv, Manager, Outside
<1>2. CASE End(m) /\ UNCHANGED <<rec, live, recov, aux, pins>> /\ (Fault \/ NoFault)
  BY <1>1, <1>2, EarlyGivesUp DEF Acknowledge
<1>3. CASE /\ lease = m /\ NoFault
           /\ live' = live \ S /\ aux' = [aux EXCEPT ![m] = @ \ S] /\ Unpin(m, Cardinality(A))
           /\ IF StillWaits(m)
              THEN rec' = [rec EXCEPT !.retry = [@ EXCEPT !.intr = "none", !.by = Nobody, !.gen = 0]]
                   /\ TakeUp(m, r) /\ UNCHANGED lease
              ELSE End(m) /\ UNCHANGED <<rec, recov>>
  <2>1. CASE StillWaits(m)
    BY <1>1, <1>3, <2>1, TakesUp DEF Acknowledge, Unpin
  <2>2. CASE ~StillWaits(m)
    BY <1>1, <1>3, <2>2, AcknowledgeEnds DEF Acknowledge, Unpin
  <2> QED BY <2>1, <2>2
<1> QED BY <1>2, <1>3 DEF Acknowledge

----------------------------------------------------------------------------
(* The release of a waiting run: its cleanup, a cancel, a stop.              *)
\* The record is cancelled, or fails with the run whose cleanup is confirmed.
Counts == rec'.cycles = rec.cycles /\ rec'.same = rec.same /\ rec'.contract = rec.contract
Voids == Cancels /\ Counts /\ rec' \in Record /\ rec'.retry \in {rec.retry, NoRetry}
Fails(m) == /\ recov[m].term /\ recov'[m] = NoRun /\ recov[m].att = rec.attempt /\ rec.proc = "waiting" /\ Counts /\ Alike
            /\ rec' \in Record /\ rec'.proc = "failed" /\ rec'.retry = NoRetry
            /\ guard = GuardedFor(recov[m], m) => ~guard'.held

LEMMA ReleaseKeeps ==
  ASSUME Inv, NEW m \in Managers, Acts(m), TypeOK', UNCHANGED <<gen, down, deciding, autos, taken>>,
         \A n \in Managers \ {m} : alive'[n] = alive[n], alive'[m] \in {alive[m], "stopped"},
         live' \subseteq live, recov'[m] \in {recov[m], NoRun}, faults <= faults',
         guard' = guard \/ (recov[m].term /\ guard = GuardedFor(recov[m], m) /\ guard' = Confirmed(guard)),
         Writing(m)' => Writing(m), flight'[m].run \in {flight[m].run, NoRun},
         At(m, "enter") => At(m, "enter")' /\ flight'[m].run = flight[m].run,
         rec' = rec \/ Voids \/ Fails(m),
         rec' = rec /\ rec.proc = "waiting" /\ recov[m].att = rec.attempt /\ recov'[m] # recov[m] =>
           alive'[m] # "up" \/ (recov[m].term /\ (guard = GuardedFor(recov[m], m) => ~guard'.held)),
         \A t \in Visible' : t.by = m /\ ~Writing(m) =>
            rec'.phase = "cancelled" \/ ((t \in aux[m] => t \in aux'[m]) /\ (t \in TurnOf(m, recov[m]) => UNCHANGED <<recov, guard>>)),
         \A t \in Visible' : t.by = m /\ Writing(m) => Writing(m)' /\ (Current(m, t) => Current(m, t)'),
         Outside(m)', Within(m)', Holding(m)', Verdict(m)', Rounds(m)'
  PROVE  Inv'
<1> DEFINE r == recov[m]
<1>1. Manager(m) /\ TypeOK /\ Shared /\ rec \in Record /\ r \in Run
  BY RunsOK DEF Inv, TypeOK
<1>2. /\ gen' = gen /\ autos' = autos /\ down' = down /\ deciding' = deciding /\ taken' = taken
  OBVIOUS
<1>3. Visible' \subseteq Visible
  BY <1>1, <1>2 DEF Visible, TypeOK, Turn
<1>4. NoWriter => NoWriter'
  BY DEF NoWriter, Writing, Acts
<1>5. rec'.attempt = rec.attempt /\ Counts /\ rec' \in Record
  BY <1>1 DEF Voids, Fails, Cancels, Alike, Counts
<1>6. rec.attempt \in Nat /\ r.att \in Nat
  BY <1>1, RunsOK, NumbersOK DEF Record
<1>7. r.term => r # NoRun /\ r.att > 0 /\ r.intr # "none"
  BY <1>1, NothingSpent DEF Manager, Parked
<1>8. Fails(m) => \A n \in Managers \ {m} : ~Has(n, rec.attempt)
  <2> SUFFICES ASSUME Fails(m), NEW n \in Managers \ {m}, Has(n, rec.attempt) PROVE FALSE
    OBVIOUS
  <2>1. Has(m, rec.attempt) /\ rec.attempt \in 1 .. MaxAttempts
    BY <1>1, <1>6, <1>7, NumbersOK DEF Fails, Has, Record
  <2> QED BY <2>1, <1>1 DEF Shared, OneRun
\* What the record says of the terminated run that it waits for.
<1>9. r.term /\ r.att = rec.attempt /\ rec.proc = "waiting" =>
        rec.retry.kind = "cleanup" /\ rec.retry.by = m /\ rec.retry.gen = r.igen
  <2> SUFFICES ASSUME r.term, r.att = rec.attempt, rec.proc = "waiting"
               PROVE  rec.retry.kind = "cleanup" /\ rec.retry.by = m /\ rec.retry.gen = r.igen
    OBVIOUS
  <2>1. rec.retry = Retained(m, r)
    BY <1>1, <1>7 DEF Manager, Parked
  <2> QED BY <1>7, <2>1 DEF Retained
<1>10. r.term /\ guard.held /\ guard.by = m /\ guard.gen = r.igen => guard = GuardedFor(r, m)
  <2> SUFFICES ASSUME guard.held, guard.by = m, guard.gen = r.igen PROVE guard = GuardedFor(r, m)
    OBVIOUS
  <2>1. guard \in [by : Managers \cup {Nobody}, gen : {0} \cup Gens, held : BOOLEAN]
    BY <1>1 DEF TypeOK
  <2>2. guard = [by |-> guard.by, gen |-> guard.gen, held |-> guard.held]
    BY <2>1
  <2>3. guard.held = TRUE
    BY <2>1
  <2> QED BY <2>2, <2>3 DEF GuardedFor
<1>11. guard' = guard \/ (~guard'.held /\ guard.by = m)
  BY <1>1 DEF GuardedFor, Confirmed, TypeOK
<1>12. Manager(m)'
  <2>1. Parked(m)'
    <3>1. CASE recov'[m] = NoRun
      BY <3>1, NothingSpent DEF Parked
    <3>2. CASE recov'[m] = r /\ rec' = rec
      BY <1>1, <1>2, <3>2 DEF Manager, Parked, Recovers
    <3>3. CASE recov'[m] = r /\ Voids
      BY <1>1, <1>2, <3>3 DEF Manager, Parked, Voids, Cancels
    <3>4. CASE recov'[m] = r /\ Fails(m)
      BY <3>1, <3>4 DEF Fails
    <3> QED BY <3>1, <3>2, <3>3, <3>4
  <2>2. Answered(m)'
    <3> SUFFICES ASSUME NEW t \in Visible', t.by = m
                 PROVE  /\ t.gen = gen'[m]
                        /\ Current(m, t)' \/ (NoWriter' /\ (Unconfirmed(m, t)' \/ rec'.phase \in Ends))
      BY DEF Answered
    <3>1. /\ t.gen = gen[m]
          /\ Current(m, t) \/ (NoWriter /\ (Unconfirmed(m, t) \/ rec.phase \in Ends))
      BY <1>1, <1>3 DEF Manager, Answered
    <3>2. CASE Writing(m)
      BY <1>2, <3>1, <3>2 DEF NoWriter
    <3>3. CASE ~Writing(m) /\ rec'.phase = "cancelled"
      BY <1>2, <1>4, <3>1, <3>3 DEF Current, Ends
    <3>4. CASE ~Writing(m) /\ rec.phase \in Ends /\ rec'.phase # "cancelled"
      <4>1. rec'.phase \in Ends
        BY <3>4 DEF Voids, Fails, Cancels, Alike
      <4> QED BY <1>2, <1>4, <3>1, <3>4, <4>1 DEF Current
    <3>5. CASE ~Writing(m) /\ Unconfirmed(m, t) /\ rec'.phase # "cancelled"
      <4>1. t \in TurnOf(m, r)
        BY <3>5 DEF Unconfirmed
      <4>2. UNCHANGED <<recov, guard>> /\ (t \in aux[m] => t \in aux'[m])
        BY <3>5, <4>1
      <4>3. CASE rec' = rec
        <5>1. Unconfirmed(m, t)'
          BY <3>5, <4>2, <4>3 DEF Unconfirmed, TurnOf, GuardedFor, Visible
        <5> QED BY <1>2, <1>4, <3>1, <3>5, <5>1 DEF Current
      <4>4. CASE Fails(m)
        <5>1. guard = GuardedFor(r, m) /\ guard.held
          BY <3>5, <4>4 DEF Unconfirmed, Fails, GuardedFor
        <5> QED BY <4>2, <4>4, <5>1 DEF Fails
      <4> QED BY <3>5, <4>3, <4>4 DEF Voids, Cancels
    <3> QED BY <3>1, <3>2, <3>3, <3>4, <3>5 DEF Current
  <2>3. Owned(m)'
    BY <1>1, <1>2, <1>5, NothingSpent DEF Manager, Owned, Spent
  <2> QED BY <2>1, <2>2, <2>3 DEF Manager
<1>13. Shared'
  <2>1. RecordOK'
    <3>1. RecordOK
      BY <1>1 DEF Shared
    <3>2. CASE rec' = rec
      BY <1>2, <3>1, <3>2 DEF RecordOK
    <3>3. CASE Voids
      BY <1>2, <3>1, <3>3 DEF RecordOK, Voids, Cancels, Counts, NoRetry, Retryable
    <3>4. CASE Fails(m)
      BY <1>2, <3>1, <3>4 DEF RecordOK, Fails, Alike, Counts, NoRetry, Retryable
    <3> QED BY <3>2, <3>3, <3>4
  <2>2. GensOK'
    <3>1. faults \in Nat /\ faults' \in Nat
      BY NumbersOK, <1>1 DEF TypeOK
    <3>2. \A n \in Managers : gen[n] \in Nat /\ Bit(n \in down) \in Nat
      BY NumbersOK, <1>1 DEF TypeOK, Gens, Bit
    <3> QED BY <1>1, <1>2, <1>11, <3>1, <3>2 DEF Shared, GensOK
  <2>3. OneVisible'
    BY <1>1, <1>3 DEF Shared, OneVisible
  <2>4. Guarded'
    <3> SUFFICES ASSUME ~GuardClear' PROVE Guarded'
      BY DEF Guarded
    <3>1. guard' = guard /\ ~GuardClear /\ guard.held
      BY <1>2, <1>11 DEF GuardClear, Exited
    <3>2. /\ NoWriter'
          /\ \/ rec.phase \in Ends
             \/ /\ rec.proc = "waiting" /\ rec.retry.kind = "cleanup"
                /\ rec.retry.by = guard.by /\ rec.retry.gen = guard.gen
      BY <1>1, <1>4, <3>1 DEF Shared, Guarded
    <3>3. CASE rec' = rec
      BY <3>1, <3>2, <3>3 DEF Guarded
    <3>4. CASE Voids
      BY <3>2, <3>4 DEF Guarded, Voids, Cancels, Ends
    <3>5. CASE Fails(m)
      <4>1. r.term /\ guard # GuardedFor(r, m) /\ r.att = rec.attempt /\ rec.proc = "waiting"
        BY <3>1, <3>5 DEF Fails
      <4>2. rec.phase \in Ends
        BY <1>9, <1>10, <3>1, <3>2, <4>1
      <4> QED BY <3>2, <3>5, <4>2 DEF Guarded, Fails, Alike
    <3> QED BY <3>3, <3>4, <3>5
  <2>5. OneRun'
    <3>1. \A n \in Managers : \A a \in 1 .. MaxAttempts : Has(n, a)' => Has(n, a)
      BY NothingSpent DEF Has, Acts
    <3> QED BY <3>1, <1>1 DEF Shared, OneRun
  <2>6. Held'
    <3> SUFFICES ASSUME rec'.proc = "waiting" PROVE Held'
      BY DEF Held
    <3>1. rec' = rec
      BY DEF Voids, Fails, Cancels
    <3>2. CASE rec.retry.kind = "cleanup" /\ CleanupConfirmed
      BY <1>11, <3>1, <3>2 DEF Held, CleanupConfirmed
    <3>3. CASE r.att = rec.attempt /\ recov'[m] # r
      <4>1. CASE alive'[m] # "up"
        BY <4>1 DEF Held
      <4>2. CASE r.term /\ (guard = GuardedFor(r, m) => ~guard'.held)
        <5>1. rec.retry.kind = "cleanup" /\ rec.retry.by = m /\ rec.retry.gen = r.igen
          BY <1>9, <3>1, <3>3, <4>2
        <5>2. CleanupConfirmed'
          <6>1. guard'.held => guard' = guard
            BY <1>11
          <6> QED BY <1>10, <3>1, <4>2, <5>1, <6>1 DEF CleanupConfirmed
        <5> QED BY <3>1, <5>1, <5>2 DEF Held
      <4> QED BY <3>1, <3>3, <4>1, <4>2
    <3>4. ASSUME NEW n \in Managers, n = m => ~(r.att = rec.attempt /\ recov'[m] # r),
                 \/ alive[n] # "up" \/ n \in taken
                 \/ recov[n].att = rec.attempt
                 \/ At(n, "enter") /\ flight[n].run.att = rec.attempt
          PROVE  \/ alive'[n] # "up" \/ n \in taken'
                 \/ recov'[n].att = rec'.attempt
                 \/ At(n, "enter")' /\ flight'[n].run.att = rec'.attempt
      BY <1>2, <3>1, <3>4 DEF At, Acts
    <3> QED BY <1>1, <3>1, <3>2, <3>3, <3>4 DEF Shared, Held
  <2> QED BY <2>1, <2>2, <2>3, <2>4, <2>5, <2>6 DEF Shared
<1>14. ASSUME NEW n \in Managers \ {m} PROVE Moves(n)
  BY <1>8 DEF Moves, Voids, Fails, Cleans
<1>15. autos' <= autos /\ \A j \in Managers : gen[j] <= gen'[j]
  BY <1>1, <1>2 DEF TypeOK, Gens
<1> QED BY <1>2, <1>3, <1>4, <1>11, <1>12, <1>13, <1>14, <1>15, StepKeeps

\* What the confirmed cleanup of a run makes of the record.
LEMMA TerminatedOK ==
  ASSUME Inv, NEW m \in Managers, recov[m].term, recov'[m] = NoRun,
         guard = GuardedFor(recov[m], m) => ~guard'.held, rec' = Terminated(recov[m], rec)
  PROVE  rec' \in Record /\ (rec' = rec \/ Voids \/ Fails(m))
<1> DEFINE r == recov[m]
<1>1. rec \in Record /\ NoRetry \in Retry /\ RecordOK
  BY NothingOK DEF Inv, TypeOK, Shared
<1>2. CASE rec' = rec
  BY <1>1, <1>2
<1>3. CASE rec.phase = "cancelled" /\ rec' = [rec EXCEPT !.retry = NoRetry]
  <2>1. rec.proc # "waiting"
    BY <1>1, <1>3 DEF RecordOK, Retryable
  <2>2. rec' \in Record
    BY <1>1, <1>3 DEF Record
  <2>3. /\ rec'.phase = rec.phase /\ rec'.proc = rec.proc /\ rec'.attempt = rec.attempt /\ rec'.ev = rec.ev
        /\ rec'.cycles = rec.cycles /\ rec'.same = rec.same /\ rec'.contract = rec.contract /\ rec'.retry = NoRetry
    BY <1>1, <1>3 DEF Record
  <2>4. Voids
    BY <1>3, <2>1, <2>2, <2>3 DEF Voids, Cancels, Counts
  <2> QED BY <2>2, <2>4
<1>4. CASE /\ rec.attempt = r.att /\ rec.phase = r.prior /\ rec.proc = "waiting" /\ rec.retry.kind = "cleanup"
           /\ rec' = [rec EXCEPT !.proc = "failed", !.retry = NoRetry, !.reason = "unavailable"]
  <2>1. rec' \in Record
    BY <1>1, <1>4 DEF Record
  <2>2. /\ rec'.phase = rec.phase /\ rec'.proc = "failed" /\ rec'.attempt = rec.attempt /\ rec'.ev = rec.ev
        /\ rec'.cycles = rec.cycles /\ rec'.same = rec.same /\ rec'.contract = rec.contract /\ rec'.retry = NoRetry
    BY <1>1, <1>4 DEF Record
  <2>3. Fails(m)
    BY <1>4, <2>1, <2>2 DEF Fails, Alike, Counts
  <2> QED BY <2>1, <2>3
<1> QED BY <1>2, <1>3, <1>4 DEF Terminated

LEMMA InvFinishCleanup ==
  ASSUME Inv, NEW m \in Managers, FinishCleanup(m)  PROVE Inv'
<1> DEFINE r == recov[m]
<1>1. flight[m].pc = "cleanup" /\ flight[m].pc \in Before /\ ~flight[m].hold /\ End(m) /\ flight[m].run = NoRun
  BY DEF FinishCleanup, At, Before, Inv, Manager, Outside
<1>2. TypeOK /\ Manager(m) /\ r \in Run /\ rec \in Record
  BY RunsOK DEF Inv, TypeOK
<1>3. CASE UNCHANGED <<rec, live, recov, guard, pins>> /\ (Fault \/ NoFault)
  BY <1>1, <1>3, EarlyGivesUp DEF FinishCleanup
<1>4. CASE /\ r.term /\ CanConfirm(m, r.igen) /\ NoFault
           /\ live' = live \ TurnOf(m, r) /\ recov' = [recov EXCEPT ![m] = NoRun]
           /\ guard' = IF guard = GuardedFor(r, m) THEN Confirmed(guard) ELSE guard
           /\ rec' = IF rec.phase # "cancelled" /\ Able(m) THEN Terminated(r, rec) ELSE rec
           /\ Unpin(m, 1)
  <2>1. /\ ws' = ws /\ alive' = alive /\ gen' = gen /\ down' = down /\ deciding' = deciding /\ aux' = aux
        /\ orphans' = orphans /\ taken' = taken /\ autos' = autos /\ faults' = faults
    BY <1>4 DEF FinishCleanup, sysVars, ghostVars, NoFault
  <2>2. flight' \in [Managers -> Flight] /\ flight'[m] = NoFlight /\ \A n \in Managers \ {m} : flight'[n] = flight[n]
    BY <1>1, <1>2, NothingOK, GoOK DEF End, TypeOK
  <2>3. recov' \in [Managers -> Run] /\ recov'[m] = NoRun /\ \A n \in Managers \ {m} : recov'[n] = recov[n]
    BY <1>2, <1>4, NothingOK, ParkOK DEF TypeOK
  <2>4. /\ guard' \in [by : Managers \cup {Nobody}, gen : {0} \cup Gens, held : BOOLEAN]
        /\ guard' = guard \/ (r.term /\ guard = GuardedFor(r, m) /\ guard' = Confirmed(guard))
        /\ guard = GuardedFor(r, m) => ~guard'.held
    BY <1>2, <1>4 DEF TypeOK, Confirmed
  <2>5. rec' \in Record /\ (rec' = rec \/ Voids \/ Fails(m))
    BY <1>2, <1>4, <2>3, <2>4, TerminatedOK
  <2>6. lease' \in {lease, Nobody} /\ lease' # m
    BY <1>1, NumbersOK DEF End, Release
  <2>7. r # NoRun
    BY <1>4, NothingSpent
  <2>8. pins'[m] = pins[m] - 1 /\ \A n \in Managers \ {m} : pins'[n] = pins[n]
    BY <1>2, <1>4 DEF TypeOK, Unpin
  <2>9. ~Writing(m) /\ ~Writing(m)' /\ ~At(m, "enter") /\ ~At(m, "turn") /\ ~At(m, "turn")'
    BY <1>1, <2>2 DEF Writing, At, Inside, NoFlight
  <2>10. Rounds(m)'
    <3>1. Cardinality(aux[m]) \in {0, 1} /\ orphans[m] \in Nat /\ Rounds(m)
      BY <1>2, AtMostOne DEF Manager, Rounds, TypeOK
    <3>2. pins[m] = 0 + 0 + 1 + Cardinality(aux[m]) + orphans[m]
      BY <1>1, <2>7, <2>9, <3>1 DEF Rounds, Bit
    <3>3. pins'[m] = 0 + 0 + 0 + Cardinality(aux[m]) + orphans[m]
      BY <2>8, <3>1, <3>2
    <3> QED BY <2>1, <2>2, <2>3, <2>9, <3>1, <3>3 DEF Rounds, Bit, NoFlight
  <2>11. pins' \in [Managers -> Nat]
    <3>1. orphans' \in [Managers -> Nat]
      BY <1>2, <2>1 DEF TypeOK
    <3> QED BY <1>2, <1>4, <2>10, <3>1, PinsOK DEF Unpin, TypeOK
  <2>12. Acts(m)
    <3>1. \A t \in live' : t \in live
      BY <1>4
    <3> QED BY <2>1, <2>2, <2>3, <2>6, <2>8, <3>1 DEF Acts
  <2>13. live' \subseteq live
    BY <1>4
  <2>14. TypeOK'
    <3>1. lease' \in Managers \cup {Nobody}
      BY <1>2, <2>6 DEF TypeOK
    <3> QED BY <1>2, <2>1, <2>2, <2>3, <2>4, <2>5, <2>11, <2>13, <3>1 DEF TypeOK
  <2>15. Outside(m)' /\ Within(m)' /\ Holding(m)' /\ Verdict(m)'
    BY <2>2, <2>6, <2>9 DEF Outside, Within, Holding, Verdict, NoFlight, Before, Chooses
  <2>16. \A t \in Visible' : t.by = m /\ ~Writing(m) =>
            rec'.phase = "cancelled" \/ ((t \in aux[m] => t \in aux'[m]) /\ (t \in TurnOf(m, r) => UNCHANGED <<recov, guard>>))
    BY <1>4, <2>1 DEF Visible
  <2>17. faults <= faults' /\ flight'[m].run = NoRun
    BY <1>2, <2>1, <2>2, NumbersOK DEF TypeOK, NoFlight
  <2> QED BY <1>4, <2>1, <2>3, <2>4, <2>5, <2>9, <2>10, <2>12, <2>13, <2>14, <2>15, <2>16, <2>17, ReleaseKeeps
<1> QED BY <1>3, <1>4 DEF FinishCleanup

\* The teardown of what a manager retains, with the record that follows from it: a
\* cancel makes it cancelled, the stop of the manager at most confirms a cleanup.
LEMMA TeardownKeeps ==
  ASSUME Inv, NEW m \in Managers, NEW ok \in BOOLEAN, Teardown(m, ok),
         UNCHANGED <<ws, lease, gen, down, deciding, ghostVars>>,
         alive' \in [Managers -> {"up", "stopped", "dead"}], alive'[m] \in {alive[m], "stopped"},
         \A n \in Managers \ {m} : alive'[n] = alive[n],
         flight' = flight \/ (Abort(m) /\ ~At(m, "none")),
         rec' \in Record, Voids \/ (alive'[m] # "up" /\ (rec' = rec \/ Fails(m)))
  PROVE  Inv'
<1> DEFINE r == recov[m]
           takes == (r # NoRun /\ ~r.term) \/ Over(m, ok)
           turn == IF ok /\ (Over(m, ok) \/ (~r.term /\ r.intr = "reviewer" /\ Available(m, r.igen)))
                   THEN TurnOf(m, r) ELSE {}
           A == {t \in aux[m] : ok /\ CanConfirm(m, t.gen)}
<1>1. TypeOK /\ Manager(m) /\ r \in Run /\ rec \in Record /\ flight[m] \in Flight /\ RecordOK
  BY RunsOK DEF Inv, TypeOK, Shared
<1>2. /\ Fault \/ NoFault
      /\ live' = live \ (turn \cup A) /\ aux' = [aux EXCEPT ![m] = @ \ A]
      /\ recov' = IF takes THEN [recov EXCEPT ![m] = NoRun] ELSE recov
      /\ pins' = [pins EXCEPT ![m] = @ - (Bit(takes) + Cardinality(A))]
      /\ guard' = IF Over(m, ok) /\ guard = GuardedFor(r, m) THEN Confirmed(guard) ELSE guard
  BY DEF Teardown, Unpin
<1>3. Over(m, ok) => r.term
  BY DEF Over
<1>4. takes \in BOOLEAN /\ (takes => r # NoRun)
  BY <1>3, NothingSpent DEF Over
<1>5. A \subseteq aux[m]
  OBVIOUS
<1> HIDE DEF takes, turn, A
<1>6. /\ ws' = ws /\ lease' = lease /\ gen' = gen /\ down' = down /\ deciding' = deciding
      /\ orphans' = orphans /\ taken' = taken /\ autos' = autos
  BY DEF ghostVars
<1>7. /\ recov' \in [Managers -> Run] /\ recov'[m] = (IF takes THEN NoRun ELSE r)
      /\ \A n \in Managers \ {m} : recov'[n] = recov[n]
  BY <1>1, <1>2, NothingOK, ParkOK DEF TypeOK
<1>8. aux' \in [Managers -> SUBSET Turn] /\ aux'[m] = aux[m] \ A /\ \A n \in Managers \ {m} : aux'[n] = aux[n]
  BY <1>1, <1>2 DEF TypeOK
<1>9. pins'[m] = pins[m] - (Bit(takes) + Cardinality(A)) /\ \A n \in Managers \ {m} : pins'[n] = pins[n]
  BY <1>1, <1>2 DEF TypeOK
<1>10. /\ guard' \in [by : Managers \cup {Nobody}, gen : {0} \cup Gens, held : BOOLEAN]
       /\ guard' = guard \/ (r.term /\ guard = GuardedFor(r, m) /\ guard' = Confirmed(guard))
       /\ guard' = guard \/ (takes /\ ~guard'.held)
  BY <1>1, <1>2, <1>3 DEF TypeOK, Confirmed, takes
<1>11. live' \subseteq live /\ \A t \in live' : t \in aux[m] => t \in aux'[m]
  BY <1>2, <1>8
\* The call is at most marked as aborted.
<1>12. /\ flight' \in [Managers -> Flight] /\ \A n \in Managers \ {m} : flight'[n] = flight[n]
       /\ flight'[m].pc = flight[m].pc /\ flight'[m].run = flight[m].run /\ flight'[m].exist = flight[m].exist
       /\ flight'[m].keep = flight[m].keep /\ flight'[m].hold = flight[m].hold /\ flight'[m].scope = flight[m].scope
       /\ flight'[m].thread = flight[m].thread /\ flight'[m].read = flight[m].read /\ flight'[m].err = flight[m].err
       /\ flight[m].pc = "none" => flight'[m] = flight[m]
  <2>1. CASE flight' = flight
    BY <1>1, <2>1 DEF TypeOK
  <2>2. CASE Abort(m) /\ ~At(m, "none")
    <3> DEFINE f == [flight[m] EXCEPT !.abort = TRUE]
    <3>1. f \in Flight
      BY <1>1 DEF Flight
    <3>2. /\ f.pc = flight[m].pc /\ f.run = flight[m].run /\ f.exist = flight[m].exist /\ f.keep = flight[m].keep
          /\ f.hold = flight[m].hold /\ f.scope = flight[m].scope /\ f.thread = flight[m].thread
          /\ f.read = flight[m].read /\ f.err = flight[m].err
      BY <1>1 DEF Flight
    <3>3. Go(m, f)
      BY <2>2 DEF Abort, Go
    <3> HIDE DEF f
    <3>4. flight' \in [Managers -> Flight] /\ flight'[m] = f /\ \A n \in Managers \ {m} : flight'[n] = flight[n]
      BY <1>1, <3>1, <3>3, GoOK DEF TypeOK
    <3> QED BY <2>2, <3>2, <3>4 DEF At
  <2> QED BY <2>1, <2>2
<1>13. /\ \A s : At(m, s)' <=> At(m, s)
       /\ Writing(m)' <=> Writing(m)
  BY <1>12 DEF At, Writing
<1>14. rec' = rec \/ Voids \/ Fails(m)
  OBVIOUS
<1>15. rec'.attempt = rec.attempt /\ rec'.ev = rec.ev /\ rec'.cycles = rec.cycles
  BY <1>14 DEF Voids, Fails, Cancels, Alike, Counts
<1>16. rec'.proc = "waiting" => rec' = rec
  BY <1>14 DEF Voids, Fails, Cancels
<1>17. Visible' \subseteq Visible
  <2>1. \A t \in live : t.by \in Managers
    BY <1>1 DEF TypeOK, Turn
  <2>2. alive[m] = "up" \/ alive'[m] # "up"
    OBVIOUS
  <2> QED BY <1>6, <1>11, <2>1, <2>2 DEF Visible
<1>18. GuardClear => GuardClear'
  BY <1>6, <1>10 DEF GuardClear, Exited
<1>19. Acts(m)
  BY <1>6, <1>7, <1>8, <1>9, <1>11, <1>12 DEF Acts
<1>20. Outside(m)'
  <2>1. Outside(m)
    BY <1>1 DEF Manager
  <2>2. ~recov[m].term => ~recov'[m].term
    BY <1>7, NothingSpent
  <2>3. recov[m] = NoRun => recov'[m] = NoRun
    BY <1>7
  <2>4. recov'[m] = recov[m] \/ recov'[m] = NoRun
    BY <1>7
  <2>5. flight'[m].run.att = rec'.attempt /\ rec'.proc = "waiting" => rec' = rec
    BY <1>16
  <2> QED BY <1>12, <2>1, <2>2, <2>3, <2>4, <2>5 DEF Outside
<1>21. Within(m)'
  <2>1. Within(m)
    BY <1>1 DEF Manager
  <2>2. Writing(m) => rec'.phase \in Ends
    <3>1. Writing(m) => rec.phase \in Ends
      BY <2>1 DEF Within
    <3> QED BY <1>14, <3>1 DEF Voids, Fails, Cancels, Alike, Ends
  <2>3. \/ recov'[m] = recov[m]
        \/ recov'[m] = NoRun /\ recov'[m].att = 0
    BY <1>7, NothingSpent
  <2>4. aux[m] = {} => aux'[m] = {}
    BY <1>8
  <2>5. flight[m].run.att \in Nat
    BY <1>1, RunsOK
  <2>6. Formed(m) => Formed(m)'
    BY <1>12, <1>15, <2>4 DEF Formed
  <2> QED BY <1>6, <1>12, <1>13, <1>15, <2>1, <2>2, <2>3, <2>5, <2>6 DEF Within
<1>22. Holding(m)'
  <2> SUFFICES ASSUME lease' = m PROVE Holding(m)'
    BY DEF Holding
  <2>1. Holding(m) /\ Outside(m) /\ lease = m
    BY <1>1, <1>6 DEF Manager
  <2> DEFINE g == flight[m]
  <2>2. g.pc \in {"prepare", "confirm", "claim", "retire", "enter"} => rec'.attempt = g.scope.attempt
    BY <1>15, <2>1 DEF Holding
  <2>3. g.pc \in Chooses => g.scope.phase \in Retryable
    BY <2>1 DEF Outside
  <2>4. ASSUME g.pc \in {"confirm", "claim", "retire"}
        PROVE  rec = g.scope \/ rec.phase = "cancelled" \/ (g.scope.proc = "waiting" /\ rec.proc = "failed")
    BY <2>1, <2>4 DEF Holding
  <2>5. ASSUME g.pc \in {"confirm", "claim", "retire"}
        PROVE  rec' = g.scope \/ rec'.phase = "cancelled" \/ (g.scope.proc = "waiting" /\ rec'.proc = "failed")
    <3>1. CASE rec' = rec
      BY <2>4, <2>5, <3>1
    <3>2. CASE Voids
      BY <3>2 DEF Voids, Cancels
    <3>3. CASE Fails(m)
      <4>1. rec.proc = "waiting" /\ rec'.proc = "failed" /\ rec.phase # "cancelled"
        BY <1>1, <3>3 DEF Fails, RecordOK, Retryable
      <4> QED BY <2>4, <2>5, <4>1
    <3> QED BY <1>14, <3>1, <3>2, <3>3
  <2>6. ~Voids => alive'[m] # "up"
    OBVIOUS
  <2>7. Voids => rec'.phase = "cancelled"
    BY DEF Voids, Cancels
  <2>8. ASSUME g.pc \in {"confirm", "claim"}, rec' = g.scope, alive'[m] = "up"  PROVE FALSE
    BY <2>3, <2>6, <2>7, <2>8 DEF Chooses, Retryable
  <2>9. ASSUME g.pc = "retire", rec' = g.scope
        PROVE  Visible' = {} /\ GuardClear' /\ rec'.proc = "none" /\ recov'[m] = NoRun
    <3>1. ~Voids
      BY <2>3, <2>7, <2>9 DEF Chooses, Retryable
    <3>2. ~Fails(m)
      <4> SUFFICES ASSUME Fails(m) PROVE FALSE
        OBVIOUS
      <4>1. rec.proc = "waiting" /\ rec'.proc = "failed" /\ rec.phase # "cancelled"
        BY <1>1 DEF Fails, RecordOK, Retryable
      <4> QED BY <2>4, <2>9, <4>1
    <3>3. rec' = rec /\ rec = g.scope
      BY <1>14, <2>9, <3>1, <3>2
    <3>4. Visible = {} /\ GuardClear /\ rec.proc = "none" /\ recov[m] = NoRun
      BY <2>1, <2>9, <3>3 DEF Holding
    <3> QED BY <1>7, <1>17, <1>18, <3>3, <3>4
  <2>10. ASSUME g.pc = "enter"
         PROVE  /\ rec'.phase = g.scope.phase \/ rec'.phase = "cancelled"
                /\ rec'.phase = g.scope.phase =>
                     /\ Visible' = {} /\ GuardClear' /\ rec'.cycles < MaxReviewCycles
                     /\ ~g.exist => rec'.proc # "waiting" /\ (recov'[m] = NoRun \/ m \in taken)
                     /\ g.exist => Recovers(g.run)'
    <3>1. /\ rec.phase = g.scope.phase \/ rec.phase = "cancelled"
          /\ rec.phase = g.scope.phase =>
               /\ Visible = {} /\ GuardClear /\ rec.cycles < MaxReviewCycles
               /\ ~g.exist => rec.proc # "waiting" /\ (recov[m] = NoRun \/ m \in taken)
               /\ g.exist => Recovers(g.run)
      BY <2>1, <2>10 DEF Holding
    <3>2. CASE Voids
      BY <2>3, <2>7, <2>10, <3>2 DEF Chooses, Retryable
    <3>3. CASE rec' = rec \/ Fails(m)
      <4>1. rec'.phase = rec.phase
        BY <3>3 DEF Fails, Alike
      <4>2. g.exist => recov[m] = NoRun
        BY <2>1, <2>10 DEF Outside
      <4>3. g.exist => ~Fails(m)
        BY <4>2, NothingSpent DEF Fails
      <4>4. g.exist /\ Recovers(g.run) => Recovers(g.run)'
        BY <1>12, <3>3, <4>3 DEF Recovers
      <4>5. recov[m] = NoRun => recov'[m] = NoRun
        BY <1>7
      <4>6. rec.proc # "waiting" => rec'.proc # "waiting"
        BY <3>3 DEF Fails
      <4> QED BY <1>15, <1>17, <1>18, <3>1, <4>1, <4>4, <4>5, <4>6
    <3> QED BY <1>14, <3>2, <3>3
  <2>11. g.pc \notin {"prepare", "confirm", "claim", "retire", "enter"} => Holding(m)'
    BY <1>12 DEF Holding
  <2>12. g.pc \in {"prepare", "confirm", "claim"} => Holding(m)'
    BY <1>12, <2>2, <2>5, <2>8 DEF Holding
  <2>13. g.pc = "retire" => Holding(m)'
    BY <1>12, <2>2, <2>5, <2>9 DEF Holding
  <2>14. g.pc = "enter" => Holding(m)'
    BY <1>6, <1>12, <2>2, <2>10 DEF Holding, Recovers
  <2> QED BY <2>11, <2>12, <2>13, <2>14
<1>23. Verdict(m)'
  <2>1. Verdict(m)
    BY <1>1 DEF Manager
  <2>2. rec'.phase \in Retryable => rec.phase \in Retryable
    BY <1>14 DEF Voids, Fails, Cancels, Alike, Retryable
  <2> QED BY <1>11, <1>12, <1>15, <1>17, <2>1, <2>2 DEF Verdict
<1>24. Rounds(m)'
  <2>1. /\ Cardinality(aux[m]) \in {0, 1} /\ orphans[m] \in Nat /\ Rounds(m) /\ \A t, u \in aux[m] : t = u
    BY <1>1, AtMostOne DEF Manager, Rounds, TypeOK
  <2>2. Cardinality(A) \in {0, 1} /\ Cardinality(aux[m] \ A) = Cardinality(aux[m]) - Cardinality(A)
    BY <1>5, <2>1, AtMostOne
  <2> DEFINE a == Bit(flight[m].hold)
             b == Bit(At(m, "turn") /\ flight[m].run.step \in Private /\ flight[m].run.intr = "none")
             k == Bit(r # NoRun)
             j == Bit(takes)
  <2>3. a \in Nat /\ b \in Nat /\ k \in {0, 1} /\ j \in {0, 1}
    BY <1>4 DEF Bit
  <2>4. Bit(recov'[m] # NoRun) = k - j
    <3>1. CASE takes
      BY <1>4, <1>7, <3>1 DEF Bit
    <3>2. CASE ~takes
      BY <1>7, <2>3, <3>2 DEF Bit
    <3> QED BY <3>1, <3>2
  <2>5. pins[m] = a + b + k + Cardinality(aux[m]) + orphans[m]
    BY <2>1 DEF Rounds
  <2>6. pins'[m] = pins[m] - (j + Cardinality(A))
    BY <1>9
  <2>7. Bit(flight'[m].hold) = a /\ Bit((At(m, "turn") /\ flight[m].run.step \in Private /\ flight[m].run.intr = "none")') = b
    BY <1>12, <1>13
  <2>8. pins'[m] = a + b + (k - j) + (Cardinality(aux[m]) - Cardinality(A)) + orphans[m]
    <3> HIDE DEF a, b, k, j
    <3> QED BY <2>1, <2>2, <2>3, <2>5, <2>6
  <2>9. pins'[m] = Bit(flight'[m].hold) + Bit((At(m, "turn") /\ flight[m].run.step \in Private /\ flight[m].run.intr = "none")')
                   + Bit(recov'[m] # NoRun) + Cardinality(aux'[m]) + orphans'[m]
    <3> HIDE DEF a, b, k, j
    <3> QED BY <1>6, <1>8, <2>2, <2>4, <2>7, <2>8
  <2> QED BY <1>6, <1>8, <2>1, <2>9 DEF Rounds
<1>25. TypeOK'
  <2>1. pins' \in [Managers -> Nat]
    <3>1. orphans' \in [Managers -> Nat]
      BY <1>1, <1>6 DEF TypeOK
    <3> QED BY <1>1, <1>2, <1>24, <3>1, PinsOK DEF TypeOK
  <2>2. faults' \in 0 .. MaxFaults
    BY <1>1, <1>2, FaultOK
  <2>3. live' \subseteq Turn
    BY <1>1, <1>11 DEF TypeOK
  <2> QED BY <1>1, <1>6, <1>7, <1>8, <1>10, <1>12, <2>1, <2>2, <2>3 DEF TypeOK
<1>26. faults <= faults' /\ flight'[m].run \in {flight[m].run, NoRun}
  BY <1>1, <1>2, <1>12, FaultOK
<1>27. At(m, "enter") => At(m, "enter")' /\ flight'[m].run = flight[m].run
  BY <1>12, <1>13
<1>28. recov'[m] \in {recov[m], NoRun}
  BY <1>7
<1>29. rec' = rec /\ rec.proc = "waiting" /\ recov[m].att = rec.attempt /\ recov'[m] # recov[m] =>
           alive'[m] # "up" \/ (recov[m].term /\ (guard = GuardedFor(recov[m], m) => ~guard'.held))
  BY DEF Voids, Cancels
<1>30. ASSUME NEW t \in Visible', t.by = m
       PROVE  /\ ~Writing(m) => rec'.phase = "cancelled"
              /\ Writing(m) => Writing(m)' /\ (Current(m, t) => Current(m, t)')
  <2>1. rec'.phase = "cancelled"
    BY <1>30 DEF Voids, Cancels, Visible
  <2>2. t \in live'
    BY DEF Visible
  <2>3. Current(m, t) => Current(m, t)'
    BY <1>11, <1>12, <1>13, <2>2 DEF Current
  <2> QED BY <1>13, <2>1, <2>3
<1>31. \A t \in Visible' : t.by = m /\ ~Writing(m) =>
          rec'.phase = "cancelled" \/ ((t \in aux[m] => t \in aux'[m]) /\ (t \in TurnOf(m, recov[m]) => UNCHANGED <<recov, guard>>))
  BY <1>30
<1>32. \A t \in Visible' : t.by = m /\ Writing(m) => Writing(m)' /\ (Current(m, t) => Current(m, t)')
  BY <1>30
<1>33. UNCHANGED <<gen, down, deciding, autos, taken>> /\ live' \subseteq live /\ (Writing(m)' => Writing(m))
  BY <1>6, <1>11, <1>13
<1>34. guard' = guard \/ (recov[m].term /\ guard = GuardedFor(recov[m], m) /\ guard' = Confirmed(guard))
  BY <1>10
<1> QED BY <1>14, <1>19, <1>20, <1>21, <1>22, <1>23, <1>24, <1>25, <1>26, <1>27, <1>28,
          <1>29, <1>31, <1>32, <1>33, <1>34, ReleaseKeeps

\* A stopped manager confirms the cleanup of its terminated run, or leaves the record.
LEMMA StoppedRecord ==
  ASSUME Inv, NEW m \in Managers, NEW ok \in BOOLEAN, Teardown(m, ok),
         rec' = IF Over(m, ok) THEN Terminated(recov[m], rec) ELSE rec
  PROVE  rec' \in Record /\ (rec' = rec \/ Voids \/ Fails(m))
<1>1. TypeOK /\ rec \in Record
  BY DEF Inv, TypeOK
<1>2. CASE ~Over(m, ok)
  BY <1>1, <1>2
<1>3. CASE Over(m, ok)
  <2>1. recov[m].term
    BY <1>3 DEF Over
  <2>2. recov'[m] = NoRun
    BY <1>1, <1>3 DEF Teardown, TypeOK
  <2>3. guard = GuardedFor(recov[m], m) => ~guard'.held
    BY <1>1, <1>3 DEF Teardown, TypeOK, Confirmed
  <2> QED BY <1>3, <2>1, <2>2, <2>3, TerminatedOK
<1> QED BY <1>2, <1>3

LEMMA InvStop ==
  ASSUME Inv, NEW m \in Managers, Stop(m)  PROVE Inv'
<1>1. TypeOK
  BY DEF Inv
<1>2. PICK ok \in BOOLEAN : Teardown(m, ok) /\ rec' = IF Over(m, ok) THEN Terminated(recov[m], rec) ELSE rec
  BY DEF Stop
<1>3. rec' \in Record /\ (rec' = rec \/ Voids \/ Fails(m))
  BY <1>2, StoppedRecord
<1>4. /\ alive' \in [Managers -> {"up", "stopped", "dead"}] /\ alive'[m] = "stopped"
      /\ \A n \in Managers \ {m} : alive'[n] = alive[n]
  BY <1>1 DEF Stop, TypeOK
<1>5. flight' = flight \/ (Abort(m) /\ ~At(m, "none"))
  BY DEF Stop, Abort
<1> QED BY <1>2, <1>3, <1>4, <1>5, TeardownKeeps DEF Stop

LEMMA InvSweep ==
  ASSUME Inv, NEW m \in Managers, Sweep(m)  PROVE Inv'
<1>1. TypeOK
  BY DEF Inv
<1>2. PICK ok \in BOOLEAN : Teardown(m, ok) /\ rec' = IF Over(m, ok) THEN Terminated(recov[m], rec) ELSE rec
  BY DEF Sweep
<1>3. rec' \in Record /\ (rec' = rec \/ Voids \/ Fails(m))
  BY <1>2, StoppedRecord
<1>4. /\ alive' \in [Managers -> {"up", "stopped", "dead"}] /\ alive'[m] = alive[m] /\ alive[m] # "up"
      /\ \A n \in Managers \ {m} : alive'[n] = alive[n]
  BY <1>1 DEF Sweep, TypeOK, sysVars
<1>5. UNCHANGED <<ws, lease, gen, down, deciding, ghostVars>> /\ flight' = flight
  BY DEF Sweep, sysVars
<1> QED BY <1>2, <1>3, <1>4, <1>5, TeardownKeeps

LEMMA InvCancel ==
  ASSUME Inv, NEW m \in Managers, Cancel(m)  PROVE Inv'
<1> DEFINE R == [rec EXCEPT !.phase = "cancelled", !.proc = "cancelled",
                            !.retry = IF recov[m].term THEN @ ELSE NoRetry]
<1>1. TypeOK /\ rec \in Record /\ NoRetry \in Retry
  BY NothingOK DEF Inv, TypeOK
<1>2. PICK ok \in BOOLEAN : Teardown(m, ok) /\ rec' = IF Over(m, ok) THEN Terminated(recov[m], R) ELSE R
  BY DEF Cancel
<1>3. /\ R \in Record /\ R.phase = "cancelled" /\ R.proc = "cancelled" /\ R.retry \in {rec.retry, NoRetry}
      /\ R.attempt = rec.attempt /\ R.ev = rec.ev /\ R.cycles = rec.cycles /\ R.same = rec.same
      /\ R.contract = rec.contract
  BY <1>1 DEF Record, Phases
<1> HIDE DEF R
<1>4. rec' \in Record /\ Voids
  <2>1. CASE rec' = R
    BY <1>3, <2>1 DEF Voids, Cancels, Counts
  <2>2. CASE rec' = [R EXCEPT !.retry = NoRetry]
    <3>1. rec' \in Record
      BY <1>1, <1>3, <2>2 DEF Record
    <3>2. /\ rec'.phase = R.phase /\ rec'.proc = R.proc /\ rec'.attempt = R.attempt /\ rec'.ev = R.ev
          /\ rec'.cycles = R.cycles /\ rec'.same = R.same /\ rec'.contract = R.contract /\ rec'.retry = NoRetry
      BY <1>3, <2>2 DEF Record
    <3> QED BY <1>3, <3>1, <3>2 DEF Voids, Cancels, Counts
  <2> QED BY <1>2, <1>3, <2>1, <2>2 DEF Terminated
<1>5. /\ alive' \in [Managers -> {"up", "stopped", "dead"}] /\ alive'[m] = alive[m]
      /\ \A n \in Managers \ {m} : alive'[n] = alive[n]
  BY <1>1 DEF Cancel, TypeOK, sysVars
<1>6. flight' = flight \/ (Abort(m) /\ ~At(m, "none"))
  BY DEF Cancel, Abort
<1>7. UNCHANGED <<ws, lease, gen, down, deciding, ghostVars>>
  BY DEF Cancel, sysVars
<1> QED BY <1>2, <1>4, <1>5, <1>6, <1>7, TeardownKeeps

----------------------------------------------------------------------------
(* What happens to a manager: its crash, the loss of its App Server, the     *)
(* exit of the process tree; and what no manager does.                       *)
LEMMA FaultKeeps ==
  ASSUME Inv, NEW m \in Managers, Acts(m), TypeOK', GensOK', Manager(m)',
         UNCHANGED <<rec, guard, deciding, autos>>,
         \A n \in Managers \ {m} : alive'[n] = alive[n] /\ gen'[n] = gen[n] /\ (n \in down' <=> n \in down),
         \A k \in Managers : gen[k] <= gen'[k], Visible' \subseteq Visible, live' \subseteq live,
         NoWriter => NoWriter',
         \A a \in 1 .. MaxAttempts : Has(m, a)' => Has(m, a),
         alive'[m] = "up" => alive[m] = "up" /\ UNCHANGED <<flight, recov, taken>>
  PROVE  Inv'
<1>1. Shared /\ TypeOK
  BY DEF Inv
<1>2. RecordOK'
  BY <1>1 DEF Shared, RecordOK
<1>3. OneVisible'
  BY <1>1 DEF Shared, OneVisible
<1>4. Guarded'
  <2>1. GuardClear => GuardClear'
    <3> SUFFICES ASSUME GuardClear, guard.held PROVE Exited(guard.by, guard.gen)'
      BY DEF GuardClear
    <3>1. guard.by \in Managers /\ guard.gen \in Nat
      BY <1>1 DEF Shared, GensOK, TypeOK, Gens
    <3>2. Exited(guard.by, guard.gen) /\ gen[guard.by] \in Nat /\ gen'[guard.by] \in Nat
      BY <1>1, <3>1 DEF GuardClear, TypeOK, Gens
    <3> QED BY <3>1, <3>2 DEF Exited
  <2> QED BY <1>1, <2>1 DEF Shared, Guarded
<1>5. OneRun'
  <2>1. \A n \in Managers : \A a \in 1 .. MaxAttempts : Has(n, a)' => Has(n, a)
    BY DEF Has, Acts
  <2> QED BY <2>1, <1>1 DEF Shared, OneRun
<1>6. Held'
  <2> SUFFICES ASSUME rec.proc = "waiting" PROVE Held'
    BY DEF Held
  <2>1. CASE rec.retry.kind = "cleanup" /\ CleanupConfirmed
    BY <2>1 DEF Held, CleanupConfirmed
  <2>2. CASE \E n \in Managers : \/ alive[n] # "up" \/ n \in taken
                                 \/ recov[n].att = rec.attempt
                                 \/ At(n, "enter") /\ flight[n].run.att = rec.attempt
    BY <2>2 DEF Held, At, Acts
  <2> QED BY <1>1, <2>1, <2>2 DEF Shared, Held
<1>7. Shared'
  BY <1>2, <1>3, <1>4, <1>5, <1>6 DEF Shared
<1>8. autos' <= autos
  BY <1>1 DEF TypeOK
<1>9. \A n \in Managers \ {m} : Moves(n)
  BY DEF Moves
<1> QED BY <1>7, <1>8, <1>9, StepKeeps

LEMMA InvCrash ==
  ASSUME Inv, NEW m \in Managers, Crash(m)  PROVE Inv'
<1>1. TypeOK /\ Manager(m) /\ Shared
  BY DEF Inv
<1>2. /\ rec' = rec /\ ws' = ws /\ lease' = lease /\ guard' = guard /\ gen' = gen /\ deciding' = deciding
      /\ live' = live /\ autos' = autos /\ down' = down \cup {m} /\ taken' = taken \ {m}
  BY DEF Crash
<1>3. flight' \in [Managers -> Flight] /\ flight'[m] = NoFlight /\ \A n \in Managers \ {m} : flight'[n] = flight[n]
  BY <1>1, NothingOK, GoOK DEF Crash, TypeOK
<1>4. recov' \in [Managers -> Run] /\ recov'[m] = NoRun /\ \A n \in Managers \ {m} : recov'[n] = recov[n]
  BY <1>1, NothingOK, ParkOK DEF Crash, TypeOK
<1>5. /\ aux' \in [Managers -> SUBSET Turn] /\ aux'[m] = {} /\ \A n \in Managers \ {m} : aux'[n] = aux[n]
      /\ pins' \in [Managers -> Nat] /\ pins'[m] = 0 /\ \A n \in Managers \ {m} : pins'[n] = pins[n]
      /\ orphans' \in [Managers -> Nat] /\ orphans'[m] = 0 /\ \A n \in Managers \ {m} : orphans'[n] = orphans[n]
      /\ alive' \in [Managers -> {"up", "stopped", "dead"}] /\ alive'[m] = "dead"
      /\ \A n \in Managers \ {m} : alive'[n] = alive[n]
  BY <1>1 DEF Crash, TypeOK
<1>6. faults' = faults + 1 /\ faults' \in 0 .. MaxFaults /\ faults \in Nat
  BY <1>1, NumbersOK DEF Crash, Fault, TypeOK
<1>7. TypeOK'
  BY <1>1, <1>2, <1>3, <1>4, <1>5, <1>6 DEF TypeOK
<1>8. Acts(m)
  BY <1>2, <1>3, <1>4, <1>5 DEF Acts
<1>9. GensOK'
  <2>1. \A n \in Managers : gen[n] \in Nat /\ Bit(n \in down) \in {0, 1} /\ Bit(n \in down') \in {0, 1}
    BY <1>1 DEF TypeOK, Gens, Bit
  <2>2. \A n \in Managers : gen[n] + Bit(n \in down) <= faults + 1
    BY <1>1 DEF Shared, GensOK
  <2>3. \A n \in Managers : gen[n] + Bit(n \in down') <= faults + 2
    <3>1. \A n \in Managers : Bit(n \in down') <= Bit(n \in down) + 1
      BY <2>1
    <3> QED BY <1>6, <2>1, <2>2, <3>1
  <2>4. faults + 2 = faults' + 1
    BY <1>6
  <2> QED BY <1>1, <1>2, <2>3, <2>4 DEF Shared, GensOK
<1>10. ~Writing(m)' /\ ~At(m, "turn")'
  BY <1>3 DEF Writing, At, Inside, NoFlight
<1>11. Visible' \subseteq Visible
  BY <1>1, <1>2, <1>5 DEF Visible, TypeOK, Turn
<1>12. Manager(m)'
  <2>1. Outside(m)' /\ Within(m)' /\ Holding(m)' /\ Verdict(m)'
    BY <1>3, <1>10 DEF Outside, Within, Holding, Verdict, NoFlight, Before, Chooses
  <2>2. Parked(m)' /\ Owned(m)'
    BY <1>1, <1>2, <1>3, <1>4, NothingSpent DEF Parked, Owned, Spent, NoFlight
  <2>3. Answered(m)'
    BY <1>5 DEF Answered, Visible
  <2>4. Rounds(m)'
    <3>1. Cardinality({}) = 0
      BY FS_EmptySet
    <3> QED BY <1>3, <1>4, <1>5, <1>10, <3>1 DEF Rounds, Bit, NoFlight
  <2> QED BY <2>1, <2>2, <2>3, <2>4 DEF Manager
<1>13. NoWriter => NoWriter'
  BY <1>3, <1>10 DEF NoWriter, Writing
<1>14. \A a \in 1 .. MaxAttempts : Has(m, a)' => Has(m, a)
  BY <1>3, <1>4, NumbersOK, NothingSpent DEF Has, NoFlight
<1>15. \A k \in Managers : gen[k] <= gen'[k]
  BY <1>1, <1>2 DEF TypeOK, Gens
<1>16. \A n \in Managers \ {m} : alive'[n] = alive[n] /\ gen'[n] = gen[n] /\ (n \in down' <=> n \in down)
  BY <1>2, <1>5
<1> QED BY <1>2, <1>5, <1>7, <1>8, <1>9, <1>11, <1>12, <1>13, <1>14, <1>15, <1>16, FaultKeeps

\* The App Server of a manager that lives is lost, or the tree of a lost one is gone.
LEMMA ServerKeeps ==
  ASSUME Inv, NEW m \in Managers, TypeOK', GensOK',
         UNCHANGED <<rec, ws, lease, guard, alive, deciding, flight, recov, aux, pins, ghostVars>>,
         \A n \in Managers \ {m} : gen'[n] = gen[n] /\ (n \in down' <=> n \in down),
         gen[m] <= gen'[m], live' \subseteq live, \A t \in Visible' : t \in Visible /\ t.by # m
  PROVE  Inv'
<1>1. TypeOK /\ Manager(m) /\ Shared
  BY DEF Inv
<1>2. /\ orphans' = orphans /\ taken' = taken /\ autos' = autos
  BY DEF ghostVars
<1>3. \A k \in Managers : gen[k] \in Nat /\ gen'[k] \in Nat /\ gen[k] <= gen'[k]
  BY <1>1 DEF TypeOK, Gens
<1>4. GuardClear => GuardClear'
  <2> SUFFICES ASSUME GuardClear, guard.held PROVE Exited(guard.by, guard.gen)'
    BY DEF GuardClear
  <2>1. guard.by \in Managers /\ guard.gen \in Nat
    BY <1>1 DEF Shared, GensOK, TypeOK, Gens
  <2> QED BY <1>3, <2>1 DEF GuardClear, Exited
<1>5. Outside(m)' /\ Within(m)' /\ Parked(m)' /\ Rounds(m)' /\ Owned(m)'
  BY <1>1, <1>2 DEF Manager, Outside, Within, Parked, Rounds, Owned, Formed, Writing, Recovers, Spent, At
<1>6. Answered(m)'
  BY DEF Answered
<1>7. Verdict(m)'
  BY <1>1 DEF Manager, Verdict
<1>8. Holding(m)'
  <2>1. Holding(m) /\ RecordOK
    BY <1>1 DEF Manager, Shared
  <2>2. Visible = {} => Visible' = {}
    OBVIOUS
  <2>3. rec.retry.intr # "none" /\ Exited(rec.retry.by, rec.retry.gen) => Exited(rec.retry.by, rec.retry.gen)'
    <3> SUFFICES ASSUME rec.retry.intr # "none", Exited(rec.retry.by, rec.retry.gen)
                 PROVE  Exited(rec.retry.by, rec.retry.gen)'
      OBVIOUS
    <3>1. rec.retry.by \in Managers /\ rec.retry.gen \in Nat
      BY <1>1, <2>1 DEF RecordOK, TypeOK, Record, Retry, Gens
    <3> QED BY <1>3, <3>1 DEF Exited
  <2>4. CleanupConfirmed => CleanupConfirmed'
    BY DEF CleanupConfirmed
  <2> QED BY <1>2, <1>4, <2>1, <2>2, <2>3, <2>4 DEF Holding, Recovers
<1>9. Manager(m)'
  BY <1>5, <1>6, <1>7, <1>8 DEF Manager
<1>10. Acts(m)
  BY <1>2 DEF Acts
<1>11. NoWriter => NoWriter'
  BY DEF NoWriter, Writing
<1>12. \A a \in 1 .. MaxAttempts : Has(m, a)' => Has(m, a)
  BY DEF Has
<1>13. Visible' \subseteq Visible
  OBVIOUS
<1> QED BY <1>2, <1>3, <1>9, <1>10, <1>11, <1>12, <1>13, FaultKeeps

LEMMA InvServerLost ==
  ASSUME Inv, NEW m \in Managers, ServerLost(m)  PROVE Inv'
<1>1. TypeOK /\ Shared
  BY DEF Inv
<1>2. faults' = faults + 1 /\ faults' \in 0 .. MaxFaults /\ faults \in Nat
  BY <1>1, NumbersOK DEF ServerLost, Fault, TypeOK
<1>3. TypeOK'
  BY <1>1, <1>2 DEF ServerLost, TypeOK, ghostVars
<1>4. GensOK'
  <2>1. \A n \in Managers : gen[n] \in Nat /\ Bit(n \in down) \in {0, 1} /\ Bit(n \in down') \in {0, 1}
    BY <1>1 DEF TypeOK, Gens, Bit
  <2>2. \A n \in Managers : gen[n] + Bit(n \in down) <= faults + 1
    BY <1>1 DEF Shared, GensOK
  <2>3. \A n \in Managers : gen[n] + Bit(n \in down') <= faults + 2
    <3>1. \A n \in Managers : Bit(n \in down') <= Bit(n \in down) + 1
      BY <2>1
    <3> QED BY <1>2, <2>1, <2>2, <3>1
  <2>4. faults + 2 = faults' + 1
    BY <1>2
  <2> QED BY <1>1, <2>3, <2>4 DEF ServerLost, Shared, GensOK
<1>5. \A t \in Visible' : t \in Visible /\ t.by # m
  BY DEF ServerLost, Visible
<1>6. gen[m] <= gen'[m] /\ live' \subseteq live
  BY <1>1 DEF ServerLost, TypeOK, Gens
<1>7. \A n \in Managers \ {m} : gen'[n] = gen[n] /\ (n \in down' <=> n \in down)
  BY DEF ServerLost
<1> QED BY <1>3, <1>4, <1>5, <1>6, <1>7, ServerKeeps DEF ServerLost

LEMMA InvTreeGone ==
  ASSUME Inv, NEW m \in Managers, TreeGone(m)  PROVE Inv'
<1>1. TypeOK /\ Shared
  BY DEF Inv
<1>2. gen'[m] = gen[m] + 1 /\ (\A n \in Managers \ {m} : gen'[n] = gen[n]) /\ down' = down \ {m} /\ m \in down
  BY <1>1 DEF TreeGone, TypeOK
<1>3. faults' = faults /\ faults \in 0 .. MaxFaults
  BY <1>1 DEF TreeGone, NoFault, TypeOK
<1>4. gen[m] \in Nat /\ gen[m] + 1 <= faults + 1
  <2>1. Bit(m \in down) = 1
    BY <1>2 DEF Bit
  <2>2. gen[m] + Bit(m \in down) <= faults + 1 /\ gen[m] \in Nat
    BY <1>1 DEF Shared, GensOK, TypeOK, Gens
  <2> QED BY <2>1, <2>2
<1>5. gen' \in [Managers -> Gens]
  <2>1. gen'[m] \in Gens
    BY <1>2, <1>3, <1>4, NumbersOK DEF Gens
  <2> QED BY <1>1, <2>1 DEF TreeGone, TypeOK
<1>6. TypeOK'
  <2>1. live' \subseteq live /\ down' \subseteq down
    BY DEF TreeGone
  <2> QED BY <1>1, <1>3, <1>5, <2>1 DEF TreeGone, TypeOK, ghostVars
<1>7. GensOK'
  <2>1. Bit(m \in down') = 0 /\ \A n \in Managers \ {m} : Bit(n \in down') = Bit(n \in down)
    BY <1>2 DEF Bit
  <2>2. \A n \in Managers : gen'[n] + Bit(n \in down') <= faults' + 1
    <3>1. \A n \in Managers \ {m} : gen[n] + Bit(n \in down) <= faults + 1
      BY <1>1 DEF Shared, GensOK
    <3>2. gen'[m] + Bit(m \in down') <= faults + 1
      BY <1>2, <1>3, <1>4, <2>1
    <3> QED BY <1>2, <1>3, <2>1, <3>1, <3>2
  <2> QED BY <1>1, <2>2 DEF TreeGone, Shared, GensOK
<1>8. \A t \in Visible' : t \in Visible /\ t.by # m
  BY DEF TreeGone, Visible
<1>9. gen[m] <= gen'[m] /\ live' \subseteq live
  BY <1>2, <1>4 DEF TreeGone
<1>10. \A n \in Managers \ {m} : gen'[n] = gen[n] /\ (n \in down' <=> n \in down)
  BY <1>2
<1> QED BY <1>6, <1>7, <1>8, <1>9, <1>10, ServerKeeps DEF TreeGone

\* Nobody's call, run or turn moves.
LEMMA NobodyKeeps ==
  ASSUME Inv, TypeOK', Shared', UNCHANGED <<alive, gen, down, live, flight, recov, aux, pins, guard, ghostVars>>,
         lease' \in {lease, Nobody}, rec' = rec \/ Decides
  PROVE  Inv'
<1>1. ASSUME NEW n \in Managers PROVE Manager(n)'
  <2>1. Untouched(n)
    BY DEF Untouched, ghostVars
  <2>2. Moves(n)
    BY DEF Moves
  <2>3. Apart(n)
    <3>1. \A k \in Managers : gen[k] <= gen'[k]
      BY DEF Inv, TypeOK, Gens
    <3>2. Visible' = Visible /\ (NoWriter => NoWriter')
      BY DEF Visible, NoWriter, Writing
    <3>3. autos' <= autos
      BY DEF Inv, TypeOK, ghostVars
    <3> QED BY <3>1, <3>2, <3>3, NumbersOK DEF Apart
  <2> QED BY <2>1, <2>2, <2>3, OthersKeep
<1> QED BY <1>1 DEF Inv

\* A lease expires, the workspace is edited, a decision has read the record.
LEMMA InvOutside ==
  ASSUME Inv, Expire \/ Edit \/ DecideRead  PROVE Inv'
<1>1. TypeOK /\ Shared
  BY DEF Inv
<1>2. /\ rec' = rec /\ alive' = alive /\ gen' = gen /\ down' = down /\ live' = live /\ flight' = flight /\ recov' = recov
      /\ aux' = aux /\ pins' = pins /\ guard' = guard /\ orphans' = orphans /\ taken' = taken /\ autos' = autos
  BY DEF Expire, Edit, DecideRead, sysVars, ghostVars
<1>3. lease' \in {lease, Nobody} /\ ws' \in {ws, ws + 1} /\ (ws' = ws \/ ws <= MaxEdits) /\ (Fault \/ NoFault)
  BY DEF Expire, Edit, DecideRead
<1>4. deciding' = deciding \/ (deciding' = TRUE /\ rec.phase = "waiting_review_decision")
  BY DEF Expire, Edit, DecideRead, sysVars
<1>5. faults' \in 0 .. MaxFaults /\ faults <= faults' /\ faults \in Nat
  BY <1>1, <1>3, FaultOK, NumbersOK DEF TypeOK
<1>6. TypeOK'
  <2>1. ws' \in 1 .. MaxEdits + 1
    BY <1>1, <1>3, NumbersOK DEF TypeOK
  <2> QED BY <1>1, <1>2, <1>3, <1>4, <1>5, <2>1 DEF TypeOK
<1>7. RecordOK'
  BY <1>1, <1>2, <1>4 DEF Shared, RecordOK
<1>8. GensOK'
  <2>1. \A n \in Managers : gen[n] \in Nat /\ Bit(n \in down) \in Nat
    BY <1>1 DEF TypeOK, Gens, Bit
  <2> QED BY <1>1, <1>2, <1>5, <2>1 DEF Shared, GensOK, TypeOK
<1>9. OneVisible' /\ Guarded' /\ OneRun' /\ Held'
  BY <1>1, <1>2 DEF Shared, OneVisible, Visible, Guarded, GuardClear, Exited, NoWriter, Writing, OneRun, Has,
                    Held, CleanupConfirmed, At
<1>10. Shared'
  BY <1>7, <1>8, <1>9 DEF Shared
<1> QED BY <1>2, <1>3, <1>6, <1>10, NobodyKeeps DEF ghostVars

\* A decision is written whatever the phase has become, but never over a cancel.
LEMMA InvDecide ==
  ASSUME Inv, Decide  PROVE Inv'
<1>1. TypeOK /\ Shared /\ rec \in Record
  BY DEF Inv, TypeOK
<1>2. /\ alive' = alive /\ gen' = gen /\ down' = down /\ live' = live /\ flight' = flight /\ recov' = recov
      /\ aux' = aux /\ pins' = pins /\ guard' = guard /\ orphans' = orphans /\ taken' = taken /\ autos' = autos
      /\ lease' = lease /\ ws' = ws /\ faults' = faults /\ deciding' = FALSE
  BY DEF Decide, ghostVars, NoFault
<1>3. PICK phase \in {"passed", "fixing"} :
        rec' = IF rec.phase = "cancelled" THEN rec ELSE [rec EXCEPT !.phase = phase, !.same = 0]
  BY DEF Decide
<1>4. deciding /\ rec.phase \in {"waiting_review_decision", "cancelled"}
  BY <1>1 DEF Decide, Shared, RecordOK
<1>5. CASE rec.phase = "cancelled"
  <2>1. rec' = rec
    BY <1>3, <1>5
  <2>2. TypeOK'
    BY <1>1, <1>2, <2>1 DEF TypeOK
  <2>3. Shared'
    BY <1>1, <1>2, <2>1 DEF Shared, RecordOK, GensOK, OneVisible, Visible, Guarded, GuardClear, Exited, NoWriter,
                            Writing, OneRun, Has, Held, CleanupConfirmed, At
  <2> QED BY <1>2, <2>1, <2>2, <2>3, NobodyKeeps DEF ghostVars
<1>6. CASE rec.phase = "waiting_review_decision"
  <2>1. rec' \in Record
    <3>1. phase \in Phases /\ 0 \in 0 .. MaxReviewCycles
      BY NumbersOK DEF Phases
    <3>2. rec' = [rec EXCEPT !.phase = phase, !.same = 0]
      BY <1>3, <1>6
    <3> QED BY <1>1, <3>1, <3>2 DEF Record
  <2>2. /\ rec'.phase \in {"passed", "fixing"} /\ rec'.same = 0 /\ rec'.proc = rec.proc /\ rec'.retry = rec.retry
        /\ rec'.attempt = rec.attempt /\ rec'.cycles = rec.cycles /\ rec'.contract = rec.contract
    BY <1>1, <1>3, <1>6 DEF Record
  <2>3. rec.contract = 0 /\ rec.proc = "completed" /\ rec.cycles \in Nat
    BY <1>1, <1>6, NumbersOK DEF Shared, RecordOK, Record
  <2>4. RecordOK'
    BY <1>1, <1>2, <2>2, <2>3 DEF Shared, RecordOK
  <2>5. GensOK' /\ OneVisible' /\ OneRun'
    BY <1>1, <1>2 DEF Shared, GensOK, OneVisible, Visible, OneRun, Has
  <2>6. Guarded'
    <3>1. GuardClear
      BY <1>1, <1>6, <2>3 DEF Shared, Guarded, Ends
    <3> QED BY <1>2, <3>1 DEF Guarded, GuardClear, Exited
  <2>7. Held'
    BY <2>2, <2>3 DEF Held
  <2>8. TypeOK' /\ Shared'
    BY <1>1, <1>2, <2>1, <2>4, <2>5, <2>6, <2>7 DEF TypeOK, Shared
  <2>9. Decides
    BY <1>6, <2>2 DEF Decides
  <2> QED BY <1>2, <2>8, <2>9, NobodyKeeps DEF ghostVars
<1> QED BY <1>4, <1>5, <1>6

----------------------------------------------------------------------------
(* The entry of a run: a new round, or the continuation of the waiting one.  *)
\* What a call that may begin knows, by the lease alone.
LEMMA MayBegin ==
  ASSUME Inv, NEW m \in Managers, At(m, "enter"), lease = m, rec.phase = flight[m].scope.phase
  PROVE  /\ rec.attempt = flight[m].scope.attempt /\ rec.attempt < MaxAttempts /\ rec.phase \in Retryable
         /\ Visible = {} /\ GuardClear /\ NoWriter /\ rec.cycles < MaxReviewCycles /\ ~deciding
         /\ ~flight[m].exist => flight[m].run = NoRun /\ rec.proc # "waiting"
         /\ flight[m].exist => flight[m].run.att = rec.attempt /\ Recovers(flight[m].run)
         /\ recov[m] = NoRun \/ m \in taken
         /\ \A n \in Managers \ {m} : recov[n] # NoRun => n \in taken
<1> DEFINE f == flight[m]
<1>1. Manager(m) /\ Shared /\ f.pc = "enter"
  BY DEF Inv, At
<1>2. /\ rec.attempt = f.scope.attempt /\ f.scope.attempt < MaxAttempts /\ f.scope.phase \in Retryable
      /\ f.hold = f.exist /\ (~f.exist => f.run = NoRun)
      /\ f.exist => f.run.att = f.scope.attempt /\ recov[m] = NoRun
  BY <1>1 DEF Manager, Outside, Holding, Chooses
<1>3. /\ Visible = {} /\ GuardClear /\ rec.cycles < MaxReviewCycles
      /\ ~f.exist => rec.proc # "waiting" /\ (recov[m] = NoRun \/ m \in taken)
      /\ f.exist => Recovers(f.run)
  BY <1>1 DEF Manager, Holding
<1>4. NoWriter /\ ~deciding
  BY <1>1, <1>2 DEF Inv, Manager, Within, Shared, RecordOK, NoWriter, Retryable, Ends
<1>5. \A n \in Managers \ {m} : recov[n] # NoRun => n \in taken
  BY <1>2, <1>3, OthersReplaced DEF Has
<1> QED BY <1>2, <1>3, <1>4, <1>5

LEMMA InvBegin ==
  ASSUME Inv, NEW m \in Managers, Begin(m)  PROVE Inv'
<1> DEFINE n == rec.attempt + 1
           prior == IF flight[m].scope.phase = "fixing" THEN "fixing" ELSE "executing"
           g == [flight[m].run EXCEPT !.att = n, !.prior = prior]
           f == [flight[m] EXCEPT !.pc = "evidence", !.hold = TRUE, !.run.att = n, !.run.prior = prior,
                                  !.scope = NewRecord]
           new == Bit(~flight[m].exist)
<1>1. flight[m].pc = "enter" /\ ~Writing(m) /\ ~At(m, "turn") /\ At(m, "enter") /\ lease = m /\ alive[m] = "up"
  BY DEF Begin, At, Writing, Inside, Able, Running
<1>2. flight[m] \in Flight /\ Manager(m) /\ TypeOK /\ Shared /\ rec \in Record /\ flight[m].run \in Run
  BY RunsOK DEF Inv, TypeOK
<1>3. /\ rec.attempt = flight[m].scope.attempt /\ rec.attempt < MaxAttempts /\ rec.phase \in Retryable
      /\ Visible = {} /\ GuardClear /\ NoWriter /\ rec.cycles < MaxReviewCycles /\ ~deciding
      /\ ~flight[m].exist => flight[m].run = NoRun /\ rec.proc # "waiting"
      /\ flight[m].exist => flight[m].run.att = rec.attempt
      /\ recov[m] = NoRun \/ m \in taken
      /\ \A k \in Managers \ {m} : recov[k] # NoRun => k \in taken
  BY <1>1, MayBegin DEF Begin
<1>4. /\ ws' = ws /\ lease' = lease /\ guard' = guard /\ alive' = alive /\ gen' = gen /\ down' = down
      /\ deciding' = deciding /\ live' = live /\ recov' = recov /\ aux' = aux /\ orphans' = orphans
      /\ taken' = taken /\ faults' = faults
      /\ autos' = (IF flight[m].exist THEN autos ELSE 0)
  BY DEF Begin, sysVars, NoFault
<1>5. n \in 1 .. MaxAttempts /\ n \in 0 .. MaxAttempts /\ n > rec.attempt /\ rec.attempt \in Nat
  BY <1>2, <1>3, NumbersOK DEF Record
<1>6. prior \in {"executing", "fixing"}
  OBVIOUS
<1>7. rec' = [rec EXCEPT !.phase = "reviewing", !.proc = "running", !.retry = NoRetry, !.attempt = n]
  BY DEF Begin
<1>8. Go(m, f)
  BY DEF Begin
<1>9. pins' = [pins EXCEPT ![m] = @ + new]
  BY DEF Begin, Pin
<1> HIDE DEF n, prior
<1>10. /\ rec' \in Record /\ rec'.phase = "reviewing" /\ rec'.proc = "running" /\ rec'.retry = NoRetry
       /\ rec'.attempt = n /\ rec'.cycles = rec.cycles /\ rec'.same = rec.same /\ rec'.contract = rec.contract
  BY <1>2, <1>5, <1>7, NothingOK DEF Record, Phases
<1>11. /\ g \in Run /\ g.att = n /\ g.auto = flight[m].run.auto /\ g.intr = flight[m].run.intr
       /\ g.igen = flight[m].run.igen /\ g.term = flight[m].run.term
  BY <1>2, <1>5, <1>6 DEF Run
<1>12. f = [flight[m] EXCEPT !.pc = "evidence", !.hold = TRUE, !.run = g, !.scope = NewRecord]
  BY <1>2 DEF Flight, Run
<1>13. f \in Flight
  <2> HIDE DEF f, g
  <2> QED BY <1>2, <1>11, <1>12, NothingOK DEF Flight
<1>14. /\ f.pc = "evidence" /\ f.hold /\ f.hold = TRUE /\ f.run = g /\ f.exist = flight[m].exist /\ f.thread = flight[m].thread
       /\ f.keep = flight[m].keep
  <2> HIDE DEF f, g
  <2> QED BY <1>2, <1>12 DEF Flight
<1> HIDE DEF f, g
<1>15. flight' \in [Managers -> Flight] /\ flight'[m] = f /\ \A k \in Managers \ {m} : flight'[k] = flight[k]
  BY <1>8, <1>13, GoOK DEF Inv, TypeOK
<1>16. pins'[m] = pins[m] + new /\ \A k \in Managers \ {m} : pins'[k] = pins[k]
  BY <1>2, <1>9 DEF TypeOK
<1>17. pins' \in [Managers -> Nat]
  <2>1. new \in Nat
    BY DEF Bit
  <2> HIDE DEF new
  <2> QED BY <1>2, <1>9, <2>1 DEF TypeOK
<1>18. TypeOK'
  BY <1>2, <1>4, <1>10, <1>15, <1>17 DEF TypeOK
<1>19. Visible' = {}
  BY <1>3, <1>4 DEF Visible
<1>20. ~At(m, "turn")' /\ ~At(m, "enter")' /\ f.pc \notin Before /\ f.pc # "finally"
  BY <1>14, <1>15 DEF At, Before
<1>21. Acts(m)
  BY <1>1, <1>4, <1>15, <1>16 DEF Acts
<1>22. /\ ~flight[m].keep /\ flight[m].hold = flight[m].exist /\ flight[m].run.intr = "none" /\ ~flight[m].run.term
       /\ flight[m].run.igen = 0 /\ (flight[m].exist => flight[m].thread = "bound")
  BY <1>1, <1>2, <1>3, NothingSpent DEF Manager, Outside
<1>23. Spent(recov[m]) /\ Spent(flight[m].run) /\ recov[m].att \in Nat /\ autos \in Nat /\ flight[m].run.auto \in Nat
  BY <1>2, RunsOK DEF Manager, Owned, TypeOK
<1>24. Manager(m)'
  <2>1. Outside(m)' /\ Holding(m)' /\ Verdict(m)'
    BY <1>14, <1>15 DEF Outside, Holding, Verdict, Before, Chooses
  <2>2. Within(m)'
    <3>1. Formed(m)'
      BY <1>4, <1>11, <1>14, <1>15, <1>20, <1>22 DEF Formed
    <3>2. recov'[m].att < f.run.att
      BY <1>4, <1>5, <1>11, <1>14, <1>23 DEF Spent
    <3>3. f.run.att = rec'.attempt /\ f.run.att > 0 /\ ~f.run.term
      BY <1>5, <1>10, <1>11, <1>14, <1>22
    <3> QED BY <1>3, <1>4, <1>10, <1>14, <1>15, <1>20, <1>22, <3>1, <3>2, <3>3 DEF Within, Ends
  <2>3. Parked(m)'
    BY <1>2, <1>3, <1>4, <1>10 DEF Manager, Parked
  <2>4. Answered(m)'
    BY <1>19 DEF Answered
  <2>5. Rounds(m)'
    <3>1. /\ Rounds(m) /\ Cardinality(aux[m]) \in {0, 1} /\ orphans[m] \in Nat
      BY <1>2, AtMostOne DEF Manager, Rounds, TypeOK
    <3> DEFINE a == Bit(flight[m].hold)
               k == Bit(recov[m] # NoRun)
    <3>2. pins[m] = a + 0 + k + Cardinality(aux[m]) + orphans[m] /\ k \in Nat /\ a \in Nat /\ a + new = 1 /\ new \in Nat
      BY <1>1, <1>22, <3>1 DEF Rounds, Bit
    <3> HIDE DEF a, k, new
    <3>3. pins'[m] = 1 + 0 + k + Cardinality(aux[m]) + orphans[m]
      BY <1>16, <3>1, <3>2
    <3>4. /\ Bit((At(m, "turn") /\ flight[m].run.step \in Private /\ flight[m].run.intr = "none")') = 0
          /\ Bit(flight'[m].hold) = 1 /\ Bit(recov'[m] # NoRun) = k
      BY <1>4, <1>14, <1>15, <1>20 DEF Bit, k
    <3> QED BY <1>4, <3>1, <3>3, <3>4 DEF Rounds
  <2>6. Owned(m)'
    <3>1. Spent(recov[m])'
      BY <1>4, <1>5, <1>10, <1>23 DEF Spent
    <3>2. Spent(flight[m].run)'
      <4>1. autos' <= g.auto
        BY <1>3, <1>4, <1>11, <1>23 DEF Spent
      <4> QED BY <1>5, <1>10, <1>11, <1>14, <1>15, <4>1 DEF Spent
    <3> QED BY <3>1, <3>2 DEF Owned
  <2> QED BY <2>1, <2>2, <2>3, <2>4, <2>5, <2>6 DEF Manager
<1>25. Shared'
  <2>1. RecordOK'
    BY <1>2, <1>3, <1>4, <1>10 DEF Shared, RecordOK, NoRetry, Retryable
  <2>2. GensOK'
    BY <1>2, <1>4 DEF Shared, GensOK
  <2>3. OneVisible'
    BY <1>19 DEF OneVisible
  <2>4. Guarded'
    BY <1>3, <1>4 DEF Guarded, GuardClear, Exited
  <2>5. OneRun'
    <3>1. \A k \in Managers : recov[k].att \in Nat /\ flight[k].run.att \in Nat /\ Spent(recov[k]) /\ Spent(flight[k].run)
      BY <1>2, RunsOK DEF Inv, Manager, Owned
    <3>2. \A k \in Managers : ~Has(k, n)
      BY <1>5, <3>1 DEF Has, Spent
    <3>3. \A k \in Managers \ {m} : \A a \in 1 .. MaxAttempts : Has(k, a)' <=> Has(k, a)
      BY <1>4, <1>15 DEF Has
    <3>4. \A a \in 1 .. MaxAttempts : Has(m, a)' => a = n \/ Has(m, a)
      BY <1>4, <1>11, <1>14, <1>15 DEF Has
    <3>5. ASSUME NEW k \in Managers, NEW l \in Managers, NEW a \in 1 .. MaxAttempts, Has(k, a)', Has(l, a)'
          PROVE  k = l
      <4>1. CASE a = n
        BY <3>2, <3>3, <3>5, <4>1
      <4>2. CASE a # n
        <5>1. Has(k, a) /\ Has(l, a)
          BY <3>3, <3>4, <3>5, <4>2
        <5> QED BY <5>1, <1>2 DEF Shared, OneRun
      <4> QED BY <4>1, <4>2
    <3> QED BY <3>5 DEF OneRun
  <2>6. Held'
    BY <1>10 DEF Held
  <2> QED BY <2>1, <2>2, <2>3, <2>4, <2>5, <2>6 DEF Shared
<1>26. ASSUME NEW k \in Managers \ {m}
       PROVE  Moves(k) /\ Apart(k) /\ alive'[k] = alive[k] /\ gen'[k] = gen[k] /\ (k \in down' <=> k \in down)
  <2>1. NoneOf(k) /\ ~Writing(k)
    BY <1>3 DEF NoneOf, NoWriter
  <2>2. lease' # k /\ rec.attempt <= rec'.attempt /\ rec.attempt < rec'.attempt
    BY <1>1, <1>4, <1>5, <1>10
  <2>3. Takes(k)
    BY <1>3, <1>4, <1>10, <2>1, <2>2 DEF Takes
  <2>4. Visible' \subseteq Visible /\ \A j \in Managers : gen[j] <= gen'[j]
    BY <1>2, <1>4, <1>19 DEF TypeOK, Gens
  <2>5. Apart(k)
    BY <1>4, <2>1, <2>2, <2>4 DEF Apart
  <2> QED BY <1>4, <2>3, <2>5 DEF Moves
<1> QED BY <1>18, <1>21, <1>24, <1>25, <1>26, ActsKeeps

\* No model has started: the continuation is parked again, or the round has failed.
LEMMA InvStartupFails ==
  ASSUME Inv, NEW m \in Managers, StartupFails(m)  PROVE Inv'
<1> DEFINE f == flight[m]
           restores == /\ f.exist /\ alive[m] = "up" /\ rec.phase # "cancelled" /\ rec.proc = "waiting"
                       /\ Available(m, f.run.gen) /\ recov[m] = NoRun
           mine == /\ rec.phase = f.scope.phase /\ rec.attempt = f.scope.attempt
                   /\ rec.phase # "cancelled" /\ lease = m
           failed == [rec EXCEPT !.proc = "failed", !.retry = NoRetry]
           h == Bit(f.hold)
           k == Bit(recov[m] # NoRun)
<1>1. flight[m].pc = "enter" /\ ~Writing(m) /\ ~At(m, "turn") /\ At(m, "enter") /\ End(m)
  BY DEF StartupFails, At, Writing, Inside
<1>2. flight[m] \in Flight /\ Manager(m) /\ TypeOK /\ Shared /\ rec \in Record /\ f.run \in Run /\ recov[m] \in Run
  BY RunsOK DEF Inv, TypeOK
<1>3. /\ f.hold = f.exist /\ (~f.exist => f.run = NoRun)
      /\ f.exist => /\ f.run.att > 0 /\ ~f.run.term /\ f.run.intr = "none" /\ f.run.igen = 0 /\ recov[m] = NoRun
                    /\ f.run.att = rec.attempt /\ rec.proc = "waiting" =>
                         rec.phase = f.run.prior /\ rec.retry = Retained(m, f.run)
  BY <1>1, <1>2 DEF Manager, Outside
<1>4. flight' \in [Managers -> Flight] /\ flight'[m] = NoFlight /\ \A n \in Managers \ {m} : flight'[n] = flight[n]
  BY <1>1, <1>2, NothingOK, GoOK DEF End, TypeOK
<1>5. lease' \in {lease, Nobody} /\ lease' # m
  BY <1>1, NumbersOK DEF End, Release
<1>6. /\ ws' = ws /\ guard' = guard /\ alive' = alive /\ gen' = gen /\ down' = down /\ deciding' = deciding
      /\ live' = live /\ aux' = aux /\ orphans' = orphans /\ autos' = autos /\ (Fault \/ NoFault)
  BY DEF StartupFails, sysVars
<1>7. IF restores
      THEN recov' = [recov EXCEPT ![m] = f.run] /\ rec' = rec /\ pins' = pins
      ELSE /\ pins' = [pins EXCEPT ![m] = @ - h] /\ recov' = recov
           /\ rec' = IF mine THEN failed ELSE rec
  BY DEF StartupFails, Unpin
<1>8. taken' = IF f.exist /\ (IF restores THEN ~Recovers(f.run) ELSE ~mine) THEN taken \cup {m} ELSE taken
  BY DEF StartupFails
<1>9. failed \in Record /\ failed.phase = rec.phase /\ failed.proc = "failed" /\ failed.retry = NoRetry
      /\ failed.attempt = rec.attempt /\ failed.cycles = rec.cycles /\ failed.same = rec.same
      /\ failed.contract = rec.contract /\ failed.ev = rec.ev
  BY <1>2, NothingOK DEF Record
<1> HIDE DEF failed
<1>10. faults' \in 0 .. MaxFaults /\ faults <= faults' /\ faults \in Nat
  BY <1>2, <1>6, FaultOK, NumbersOK DEF TypeOK
<1>11. recov' \in [Managers -> Run] /\ recov'[m] = (IF restores THEN f.run ELSE recov[m])
       /\ \A n \in Managers \ {m} : recov'[n] = recov[n]
  BY <1>2, <1>7, ParkOK DEF TypeOK
<1>12. rec' = rec \/ (rec' = failed /\ mine /\ ~restores)
  BY <1>7
<1>13. \A n \in Managers \ {m} : pins'[n] = pins[n]
  BY <1>2, <1>7 DEF TypeOK
<1>14. ~Writing(m)' /\ ~At(m, "turn")' /\ (NoWriter => NoWriter')
  BY <1>4 DEF NoWriter, Writing, At, Inside, NoFlight
<1>15. Visible' = Visible
  BY <1>6 DEF Visible
<1>16. restores => f.run # NoRun
  BY <1>3, NothingSpent
<1>17. Rounds(m)'
  <2>1. /\ Rounds(m) /\ Cardinality(aux[m]) \in {0, 1} /\ orphans[m] \in Nat
    BY <1>2, AtMostOne DEF Manager, Rounds, TypeOK
  <2>2. pins[m] = h + 0 + k + Cardinality(aux[m]) + orphans[m] /\ k \in Nat /\ h \in Nat
    BY <1>1, <2>1 DEF Rounds, Bit
  <2>3. /\ Bit((At(m, "turn") /\ flight[m].run.step \in Private /\ flight[m].run.intr = "none")') = 0
        /\ Bit(flight'[m].hold) = 0
    BY <1>4, <1>14 DEF Bit, NoFlight
  <2>4. pins'[m] = Bit(recov'[m] # NoRun) + Cardinality(aux[m]) + orphans[m]
    <3>1. CASE restores
      <4>1. h = 1 /\ k = 0 /\ Bit(recov'[m] # NoRun) = 1 /\ pins'[m] = pins[m]
        BY <1>3, <1>7, <1>11, <1>16, <3>1 DEF Bit
      <4> HIDE DEF h, k
      <4> QED BY <2>1, <2>2, <4>1
    <3>2. CASE ~restores
      <4>1. Bit(recov'[m] # NoRun) = k /\ pins'[m] = pins[m] - h
        BY <1>2, <1>7, <1>11, <3>2 DEF TypeOK
      <4> HIDE DEF h, k
      <4> QED BY <2>1, <2>2, <4>1
    <3> QED BY <3>1, <3>2
  <2>5. orphans[m] > 0 => m \in taken'
    BY <1>8, <2>1 DEF Rounds
  <2>6. Bit(recov'[m] # NoRun) \in Nat
    BY DEF Bit
  <2>7. pins'[m] = Bit(flight'[m].hold) + Bit((At(m, "turn") /\ flight[m].run.step \in Private /\ flight[m].run.intr = "none")')
                   + Bit(recov'[m] # NoRun) + Cardinality(aux'[m]) + orphans'[m]
    BY <1>6, <2>1, <2>3, <2>4, <2>6
  <2> QED BY <1>6, <2>1, <2>5, <2>7 DEF Rounds
<1>18. TypeOK'
  <2>1. pins' \in [Managers -> Nat]
    <3>1. pins' = [pins EXCEPT ![m] = pins'[m]]
      BY <1>2, <1>7 DEF TypeOK
    <3>2. orphans' \in [Managers -> Nat]
      BY <1>2, <1>6 DEF TypeOK
    <3> QED BY <1>17, <3>1, <3>2, PinsOK
  <2>2. lease' \in Managers \cup {Nobody} /\ taken' \subseteq Managers /\ rec' \in Record
    BY <1>2, <1>5, <1>8, <1>9, <1>12 DEF TypeOK
  <2> QED BY <1>2, <1>4, <1>6, <1>10, <1>11, <2>1, <2>2 DEF TypeOK
<1>19. Acts(m)
  BY <1>4, <1>5, <1>6, <1>8, <1>11, <1>13 DEF Acts
<1>20. Outside(m)' /\ Within(m)' /\ Holding(m)' /\ Verdict(m)'
  BY <1>4, <1>5, <1>14 DEF Outside, Within, Holding, Verdict, NoFlight, Before, Chooses
<1>21. taken \subseteq taken'
  BY <1>8
<1>22. Spent(f.run) /\ Spent(recov[m]) /\ Spent(NoRun)
  BY <1>2, NothingSpent DEF Manager, Owned
<1>23. Owned(m)'
  <2>1. rec'.attempt = rec.attempt
    BY <1>9, <1>12
  <2> QED BY <1>4, <1>6, <1>11, <1>22, <2>1 DEF Owned, Spent, NoFlight
<1>24. \A n \in Managers : \A a \in 1 .. MaxAttempts : Has(n, a)' => Has(n, a)
  BY <1>4, <1>11, NumbersOK, NothingSpent DEF Has, NoFlight
<1>25. OneRun' /\ GensOK' /\ OneVisible'
  <2>1. \A n \in Managers : gen[n] \in Nat /\ Bit(n \in down) \in Nat
    BY <1>2 DEF TypeOK, Gens, Bit
  <2>2. GensOK'
    BY <1>2, <1>6, <1>10, <2>1 DEF Shared, GensOK, TypeOK
  <2> QED BY <1>2, <1>15, <1>24, <2>2 DEF Shared, OneRun, OneVisible
<1>26. CASE rec' = rec
  <2>1. Parked(m)'
    <3>1. CASE ~restores
      BY <1>2, <1>11, <1>21, <1>26, <3>1 DEF Manager, Parked, Recovers
    <3>2. CASE restores
      <4>1. recov'[m] = f.run /\ f.exist
        BY <1>11, <3>2
      <4>2. m \in taken' \/ (f.run.att = rec.attempt /\ Recovers(f.run))
        BY <1>8, <3>2 DEF Recovers
      <4>3. Recovers(f.run) => Recovers(recov[m])'
        BY <1>26, <4>1 DEF Recovers
      <4>4. Retained(m, f.run) = Retained(m, recov[m])'
        BY <4>1 DEF Retained
      <4> QED BY <1>3, <1>26, <4>1, <4>2, <4>3, <4>4 DEF Parked
    <3> QED BY <3>1, <3>2
  <2>2. Answered(m)'
    <3> SUFFICES ASSUME NEW t \in Visible, t.by = m
                 PROVE  t.gen = gen[m] /\ NoWriter' /\ (Unconfirmed(m, t)' \/ rec'.phase \in Ends)
      BY <1>6, <1>15 DEF Answered
    <3>1. t.gen = gen[m] /\ NoWriter /\ (Unconfirmed(m, t) \/ rec.phase \in Ends)
      BY <1>1, <1>2 DEF Manager, Answered, Current
    <3>2. CASE rec.phase \in Ends
      BY <1>14, <1>26, <3>1, <3>2
    <3>3. CASE Unconfirmed(m, t)
      <4>1. recov[m] # NoRun
        <5>1. t.att # 0 /\ t.att = recov[m].att
          BY <1>2, <3>3 DEF Unconfirmed, TurnOf, TypeOK, Turn
        <5> QED BY <5>1, NothingSpent
      <4>2. recov'[m] = recov[m]
        BY <1>11, <4>1
      <4>3. Unconfirmed(m, t)'
        BY <1>6, <1>26, <3>3, <4>2 DEF Unconfirmed, TurnOf, GuardedFor
      <4> QED BY <1>14, <3>1, <4>3
    <3> QED BY <3>1, <3>2, <3>3
  <2>3. Held'
    <3> SUFFICES ASSUME rec.proc = "waiting" PROVE Held'
      BY <1>26 DEF Held
    <3>1. CASE rec.retry.kind = "cleanup" /\ CleanupConfirmed
      BY <1>6, <1>26, <3>1 DEF Held, CleanupConfirmed
    <3>2. CASE \E n \in Managers : alive[n] # "up" \/ n \in taken
      BY <1>6, <1>21, <3>2 DEF Held
    <3>3. ASSUME NEW n \in Managers, recov[n].att = rec.attempt  PROVE Held'
      <4>1. rec.attempt > 0
        BY <1>2 DEF Shared, RecordOK
      <4>2. recov[n] # NoRun
        BY <3>3, <4>1, NothingSpent
      <4>3. recov'[n] = recov[n]
        BY <1>11, <4>2
      <4> QED BY <1>26, <3>3, <4>3 DEF Held
    <3>4. ASSUME NEW n \in Managers, At(n, "enter"), flight[n].run.att = rec.attempt  PROVE Held'
      <4>1. CASE n # m
        BY <1>4, <1>26, <3>4, <4>1 DEF Held, At
      <4>2. CASE n = m /\ restores
        BY <1>11, <1>26, <3>4, <4>2 DEF Held
      <4>3. CASE n = m /\ ~restores
        <5>1. f.exist
          <6>1. rec.attempt > 0
            BY <1>2 DEF Shared, RecordOK
          <6> QED BY <1>3, <3>4, <4>3, <6>1, NothingSpent
        <5>2. ~mine
          BY <1>7, <1>9, <1>26, <4>3
        <5>3. m \in taken'
          BY <1>8, <4>3, <5>1, <5>2
        <5> QED BY <5>3 DEF Held
      <4> QED BY <4>1, <4>2, <4>3
    <3> QED BY <1>2, <3>1, <3>2, <3>3, <3>4 DEF Shared, Held
  <2>4. Shared'
    <3>1. RecordOK' /\ Guarded'
      BY <1>2, <1>6, <1>14, <1>26 DEF Shared, RecordOK, Guarded, GuardClear, Exited
    <3> QED BY <1>25, <2>3, <3>1 DEF Shared
  <2>5. Manager(m)'
    BY <1>17, <1>20, <1>23, <2>1, <2>2 DEF Manager
  <2>6. /\ \A n \in Managers \ {m} : Moves(n) /\ alive'[n] = alive[n] /\ gen'[n] = gen[n] /\ (n \in down' <=> n \in down)
        /\ \A j \in Managers : gen[j] <= gen'[j]
        /\ autos' <= autos
    BY <1>2, <1>6, <1>26 DEF Moves, TypeOK, Gens
  <2>7. Visible' \subseteq Visible /\ live' \subseteq live
    BY <1>6, <1>15
  <2>8. guard' = guard
    BY <1>6
  <2> QED BY <1>14, <1>18, <1>19, <2>4, <2>5, <2>6, <2>7, <2>8, StepKeeps
<1>27. CASE rec' = failed /\ mine /\ ~restores
  <2>1. /\ rec.phase \in Retryable /\ Visible = {} /\ GuardClear /\ NoWriter /\ ~deciding
        /\ recov[m] = NoRun \/ m \in taken
        /\ \A n \in Managers \ {m} : recov[n] # NoRun => n \in taken
    BY <1>1, <1>27, MayBegin
  <2>2. recov'[m] = recov[m] /\ lease' = Nobody
    BY <1>1, <1>11, <1>27 DEF End, Release
  <2>3. Parked(m)'
    BY <1>2, <1>9, <1>21, <1>27, <2>1, <2>2 DEF Manager, Parked
  <2>4. Answered(m)'
    BY <1>15, <2>1 DEF Answered
  <2>5. Manager(m)'
    BY <1>17, <1>20, <1>23, <2>3, <2>4 DEF Manager
  <2>6. RecordOK'
    BY <1>2, <1>6, <1>9, <1>27, <2>1 DEF Shared, RecordOK, NoRetry, Retryable
  <2>7. Guarded' /\ Held'
    BY <1>6, <1>9, <1>27, <2>1 DEF Guarded, GuardClear, Exited, Held
  <2>8. Shared'
    BY <1>25, <2>6, <2>7 DEF Shared
  <2>9. ASSUME NEW n \in Managers \ {m} PROVE Moves(n)
    <3>1. lease' # n /\ ~Writing(n) /\ NoneOf(n) /\ (recov[n] # NoRun => n \in taken')
      BY <1>21, <2>1, <2>2, NumbersOK DEF NoneOf, NoWriter
    <3>2. rec'.proc # "waiting" /\ rec.attempt <= rec'.attempt
      BY <1>2, <1>9, <1>27, NumbersOK DEF Record
    <3> QED BY <3>1, <3>2 DEF Moves, Takes
  <2>10. /\ \A n \in Managers \ {m} : alive'[n] = alive[n] /\ gen'[n] = gen[n] /\ (n \in down' <=> n \in down)
         /\ \A j \in Managers : gen[j] <= gen'[j]
         /\ autos' <= autos
    BY <1>2, <1>6 DEF TypeOK, Gens
  <2>11. Visible' \subseteq Visible /\ live' \subseteq live /\ guard' = guard
    BY <1>6, <1>15
  <2> QED BY <1>14, <1>18, <1>19, <2>5, <2>8, <2>9, <2>10, <2>11, StepKeeps
<1> QED BY <1>12, <1>26, <1>27

----------------------------------------------------------------------------
(* The whole specification.                                                  *)
LEMMA InvInit == Init => Inv
<1> SUFFICES ASSUME Init PROVE Inv
  OBVIOUS
<1>1. /\ rec = NewRecord /\ ws = 1 /\ lease = Nobody /\ guard = [by |-> Nobody, gen |-> 0, held |-> FALSE]
      /\ down = {} /\ live = {} /\ taken = {} /\ autos = 0 /\ deciding = FALSE /\ faults = 0
  BY DEF Init
<1>2. ASSUME NEW m \in Managers
      PROVE  /\ alive[m] = "up" /\ gen[m] = 1 /\ flight[m] = NoFlight /\ recov[m] = NoRun /\ aux[m] = {}
             /\ pins[m] = 0 /\ orphans[m] = 0
  BY DEF Init
<1>3. TypeOK
  <2>1. 1 \in Gens /\ ws \in 1 .. MaxEdits + 1 /\ faults \in 0 .. MaxFaults
    BY <1>1, NumbersOK DEF Gens
  <2>2. /\ alive \in [Managers -> {"up", "stopped", "dead"}] /\ gen \in [Managers -> Gens]
        /\ flight \in [Managers -> Flight] /\ recov \in [Managers -> Run]
        /\ aux \in [Managers -> SUBSET Turn] /\ pins \in [Managers -> Nat] /\ orphans \in [Managers -> Nat]
    BY <2>1, NothingOK DEF Init
  <2>3. guard \in [by : Managers \cup {Nobody}, gen : {0} \cup Gens, held : BOOLEAN]
    BY <1>1
  <2>4. rec \in Record
    BY <1>1, NothingOK
  <2> QED BY <1>1, <2>1, <2>2, <2>3, <2>4 DEF TypeOK
<1>4. /\ rec.phase = "executing" /\ rec.proc = "none" /\ rec.retry = NoRetry /\ rec.attempt = 0 /\ rec.cycles = 0
      /\ rec.contract = 0 /\ rec.same = 0
  BY <1>1 DEF NewRecord
<1>5. Shared
  <2>1. RecordOK
    BY <1>1, <1>4, NumbersOK DEF RecordOK, NoRetry, Retryable
  <2>2. GensOK
    BY <1>1, <1>2 DEF GensOK, Bit
  <2>3. OneVisible /\ Guarded /\ Held
    BY <1>1, <1>4 DEF OneVisible, Visible, Guarded, GuardClear, Held
  <2>4. OneRun
    BY <1>2, NumbersOK DEF OneRun, Has, NoFlight, NoRun
  <2> QED BY <2>1, <2>2, <2>3, <2>4 DEF Shared
<1>6. ASSUME NEW m \in Managers PROVE Manager(m)
  <2>1. /\ flight[m].pc = "none" /\ flight[m].run = NoRun /\ flight[m].hold = FALSE /\ NoRun.att = 0 /\ ~NoRun.term
        /\ NoRun.intr = "none" /\ NoRun.igen = 0
    <3>1. NoFlight.pc = "none" /\ NoFlight.run = NoRun /\ NoFlight.hold = FALSE
      BY DEF NoFlight
    <3>2. NoRun.att = 0 /\ ~NoRun.term /\ NoRun.intr = "none" /\ NoRun.igen = 0
      BY DEF NoRun
    <3> QED BY <1>2, <3>1, <3>2
  <2>2. Outside(m) /\ Within(m) /\ Holding(m) /\ Verdict(m)
    BY <1>1, <1>2, <2>1, NumbersOK DEF Outside, Within, Holding, Verdict, Writing, Inside, Before, Chooses
  <2>3. Parked(m) /\ Answered(m)
    BY <1>1, <1>2, <2>1 DEF Parked, Answered, Visible
  <2>4. Rounds(m)
    <3>1. Cardinality({}) = 0
      BY FS_EmptySet
    <3>2. /\ Bit(flight[m].hold) = 0 /\ Bit(recov[m] # NoRun) = 0
          /\ Bit(At(m, "turn") /\ flight[m].run.step \in Private /\ flight[m].run.intr = "none") = 0
      BY <1>2, <2>1 DEF At, Bit
    <3> QED BY <1>2, <3>1, <3>2 DEF Rounds
  <2>5. Owned(m)
    BY <1>1, <1>2, <1>4, <2>1 DEF Owned, Spent, NoRun
  <2> QED BY <2>2, <2>3, <2>4, <2>5 DEF Manager
<1> QED BY <1>3, <1>5, <1>6 DEF Inv

LEMMA InvStutter == Inv /\ UNCHANGED vars => Inv'
<1> SUFFICES ASSUME Inv, UNCHANGED vars PROVE Inv'
  OBVIOUS
<1>1. UNCHANGED <<rec, ws, lease, guard, alive, gen, down, deciding, live, flight, recov, aux, pins, orphans, taken, autos, faults>>
  BY DEF vars, sysVars, ghostVars
<1>2. TypeOK'
  BY <1>1 DEF Inv, TypeOK
<1>3. Shared'
  BY <1>1 DEF Inv, Shared, RecordOK, GensOK, OneVisible, Visible, Guarded, GuardClear, Exited, NoWriter, Writing,
              OneRun, Has, Held, CleanupConfirmed, At
<1> QED BY <1>1, <1>2, <1>3, NobodyKeeps DEF ghostVars

LEMMA InvStep == Inv /\ [Next]_vars => Inv'
<1> SUFFICES ASSUME Inv, [Next]_vars PROVE Inv'
  OBVIOUS
<1>1. ASSUME NEW m \in Managers, Works(m)  PROVE Inv'
  <2>1. ASSUME NEW fresh \in BOOLEAN, Prepare(m, fresh)  PROVE Inv'
    BY <2>1, InvPrepare
  <2>2. CASE Acquire(m) \/ ConfirmOld(m) \/ Claim(m) \/ Retire(m)
    BY <2>2, InvAcquire, InvConfirmOld, InvClaim, InvRetire
  <2>3. CASE Verify(m) \/ Acknowledge(m) \/ FinishCleanup(m)
    BY <2>3, InvVerify, InvAcknowledge, InvFinishCleanup
  <2>4. CASE Begin(m) \/ StartupFails(m) \/ Evidence(m) \/ Create(m)
    BY <2>4, InvBegin, InvStartupFails, InvEvidence, InvCreate
  <2>5. CASE StartTurn(m) \/ ConfirmStage(m) \/ RetryTurn(m)
    BY <2>5, InvStartTurn, InvConfirmStage, InvRetryTurn
  <2>6. CASE TurnEnds(m)
    BY <2>6, InvTurnDone, InvTurnFails, InvTurnInterrupted, InvTurnAborted, InvTurnLost DEF TurnEnds
  <2>7. CASE Final(m) \/ Commit(m) \/ CatchRejected(m) \/ CatchWait(m) \/ CatchFails(m) \/ Finally(m)
    BY <2>7, InvFinal, InvCommit, InvCatchRejected, InvCatchWait, InvCatchFails, InvFinally
  <2> QED BY <1>1, <2>1, <2>2, <2>3, <2>4, <2>5, <2>6, <2>7 DEF Works
<1>2. ASSUME NEW m \in Managers, Request(m) \/ Resume(m) \/ Cancel(m) \/ Stop(m) \/ Sweep(m)  PROVE Inv'
  BY <1>2, InvRequest, InvResume, InvCancel, InvStop, InvSweep
<1>3. ASSUME NEW m \in Managers, Crash(m) \/ ServerLost(m) \/ TreeGone(m) \/ Aborted(m)  PROVE Inv'
  BY <1>3, InvCrash, InvServerLost, InvTreeGone, InvAborted
<1>4. CASE Expire \/ Edit \/ DecideRead \/ Decide
  BY <1>4, InvOutside, InvDecide
<1>5. CASE UNCHANGED vars
  BY <1>5, InvStutter
<1> QED BY <1>1, <1>2, <1>3, <1>4, <1>5 DEF Next

\* Types, the worth of the lease of a review to the call that holds it, one
\* writer at a time and one run of an attempt, and every turn that may run
\* answered for by a call, by the waiting run or by the end of the workflow
\* (admitReview, the visible review, recoverableRuns and their cleanup).
THEOREM InvInvariant == Spec => []Inv
BY InvInit, InvStep, PTL DEF Spec

\* At no time do two turns of the workflow run, and no review starts a turn
\* while one that was terminated may still run (resolveRecovery,
\* TerminalCleanupGuard).
THEOREM OneReviewTurnInvariant == Spec => []OneReviewTurn
<1>1. Inv => OneReviewTurn
  <2> SUFFICES ASSUME Inv PROVE OneReviewTurn
    OBVIOUS
  <2>1. OneTurn
    <3>1. Cardinality(Visible) \in {0, 1}
      BY AtMostOne DEF Inv, Shared, OneVisible
    <3> QED BY <3>1 DEF OneTurn, Visible
  <2>2. NoTurnBesideUnconfirmed
    BY DEF Inv, Shared, Guarded, NoTurnBesideUnconfirmed, NoWriter, Writing, Inside, At
  <2> QED BY <2>1, <2>2 DEF Inv, OneReviewTurn
<1> QED BY <1>1, InvInvariant, PTL

\* A record that waits for a continuation has its run in a manager, and each
\* round of the App Server's use has exactly one owner (recoverableRuns,
\* beginRound and endRound).
THEOREM WaitingIsHeldOnceInvariant == Spec => []WaitingIsHeldOnce
<1>1. Inv => WaitingIsHeldOnce
  <2> SUFFICES ASSUME Inv PROVE WaitingIsHeldOnce
    OBVIOUS
  <2>1. WaitingIsResumable
    <3> SUFFICES ASSUME rec.proc = "waiting", ~(rec.retry.kind = "cleanup" /\ CleanupConfirmed)
                 PROVE  \E m \in Managers : \/ alive[m] # "up" \/ m \in taken
                                            \/ recov[m] # NoRun /\ recov[m].att = rec.attempt
                                            \/ flight[m].exist /\ flight[m].run.att = rec.attempt
      BY DEF WaitingIsResumable
    <3>1. rec.attempt > 0
      BY DEF Inv, Shared, RecordOK
    <3>2. PICK m \in Managers : \/ alive[m] # "up" \/ m \in taken
                                \/ recov[m].att = rec.attempt
                                \/ At(m, "enter") /\ flight[m].run.att = rec.attempt
      BY DEF Inv, Shared, Held
    <3>3. recov[m].att = rec.attempt => recov[m] # NoRun
      BY <3>1, NothingSpent
    <3>4. At(m, "enter") /\ flight[m].run.att = rec.attempt => flight[m].exist
      BY <3>1, NothingSpent DEF Inv, Manager, Outside, At
    <3> QED BY <3>2, <3>3, <3>4
  <2>2. OneHolder
    BY DEF Inv, Manager, Rounds, OneHolder
  <2> QED BY <2>1, <2>2 DEF WaitingIsHeldOnce
<1> QED BY <1>1, InvInvariant, PTL

\* One automatic continuation belongs to a round, however often the round is
\* taken up again (autoContinuations of the recoverable run).
THEOREM OneAutomaticContinuationInvariant == Spec => []OneAutomaticContinuation
<1>1. Inv => OneAutomaticContinuation
  BY DEF Inv, Shared, RecordOK, OneAutomaticContinuation
<1> QED BY <1>1, InvInvariant, PTL

\* Only the commit of a verdict spends a cycle.
LEMMA OnlyCommitSpends ==
  ASSUME Inv, Next, rec'.cycles > rec.cycles
  PROVE  \E m \in Managers : Commit(m)
<1>1. rec \in Record /\ rec.cycles \in Nat /\ rec' # rec /\ ~(rec'.cycles = rec.cycles)
  BY NumbersOK DEF Inv, TypeOK, Record
<1>2. ASSUME NEW m \in Managers, Works(m)  PROVE Commit(m)
  <2>1. CASE Claim(m) \/ Acknowledge(m) \/ Begin(m) \/ StartupFails(m) \/ Evidence(m)
    BY <1>1, <2>1 DEF Claim, Acknowledge, Begin, StartupFails, Evidence, Record
  <2>2. CASE FinishCleanup(m)
    BY <1>1, <2>2 DEF FinishCleanup, Terminated, Record
  <2>3. CASE CatchRejected(m) \/ CatchWait(m) \/ CatchFails(m)
    BY <1>1, <2>3 DEF CatchRejected, CatchWait, CatchFails, WaitingRecord, Record
  <2>4. CASE Finally(m)
    BY <1>1, <2>4 DEF Finally, Observed, Record
  <2>5. CASE Acquire(m) \/ (\E fresh \in BOOLEAN : Prepare(m, fresh)) \/ ConfirmOld(m) \/ Retire(m)
    BY <1>1, <2>5 DEF Acquire, Prepare, ConfirmOld, Retire
  <2>6. CASE Verify(m)
    BY <1>1, <2>6 DEF Verify
  <2>7. CASE Create(m) \/ StartTurn(m) \/ ConfirmStage(m) \/ RetryTurn(m) \/ Final(m)
    BY <1>1, <2>7 DEF Create, StartTurn, ConfirmStage, RetryTurn, Final
  <2>8. CASE TurnEnds(m)
    <3>1. TurnDone(m) => rec' = rec
      BY DEF TurnDone, Ended
    <3>2. TurnFails(m) => rec' = rec
      BY DEF TurnFails, Ended
    <3>3. TurnInterrupted(m) => rec' = rec
      BY DEF TurnInterrupted
    <3>4. TurnAborted(m) => rec' = rec
      BY DEF TurnAborted, Ended
    <3>5. TurnLost(m) => rec' = rec
      BY DEF TurnLost
    <3> QED BY <1>1, <2>8, <3>1, <3>2, <3>3, <3>4, <3>5 DEF TurnEnds
  <2> QED BY <1>2, <2>1, <2>2, <2>3, <2>4, <2>5, <2>6, <2>7, <2>8 DEF Works
<1>3. ASSUME NEW m \in Managers, Request(m) \/ Resume(m) \/ Crash(m) \/ ServerLost(m) \/ TreeGone(m) \/ Aborted(m)  PROVE FALSE
  BY <1>1, <1>3 DEF Request, Resume, Crash, ServerLost, TreeGone, Aborted
<1>4. ASSUME NEW m \in Managers, Cancel(m) \/ Stop(m) \/ Sweep(m)  PROVE FALSE
  <2>1. CASE Cancel(m)
    BY <1>1, <2>1 DEF Cancel, Terminated, Record
  <2>2. CASE Stop(m) \/ Sweep(m)
    BY <1>1, <2>2 DEF Stop, Sweep, Terminated, Record
  <2> QED BY <1>4, <2>1, <2>2
<1>5. CASE Expire \/ Edit \/ DecideRead \/ Decide
  BY <1>1, <1>5 DEF Expire, Edit, DecideRead, Decide, Record
<1> QED BY <1>2, <1>3, <1>4, <1>5 DEF Next

\* A cycle is spent by the holder of the lease, for the current attempt, on the
\* evidence that the attempt began with and after its last turn has ended (the
\* last scan of the evidence and the transaction that accepts the verdict).
THEOREM AcceptedAsReviewedHolds == Spec => AcceptedAsReviewed
<1>1. ASSUME Inv, [Next]_vars
      PROVE  [rec'.cycles > rec.cycles =>
                \E m \in Managers : /\ lease = m /\ flight[m].run.att = rec.attempt
                                    /\ flight[m].read = rec.ev /\ rec.ev = flight[m].run.ev
                                    /\ ~\E t \in live : t.by = m /\ t.att = rec.attempt]_vars
  <2> SUFFICES ASSUME Next, rec'.cycles > rec.cycles
               PROVE  \E m \in Managers : /\ lease = m /\ flight[m].run.att = rec.attempt
                                          /\ flight[m].read = rec.ev /\ rec.ev = flight[m].run.ev
                                          /\ ~\E t \in live : t.by = m /\ t.att = rec.attempt
    BY <1>1
  <2>1. PICK m \in Managers : Commit(m)
    BY <1>1, OnlyCommitSpends
  <2>2. flight[m].pc = "commit" /\ Writing(m)
    BY <2>1 DEF Commit, At, Writing, Inside
  <2>3. rec.cycles \in Nat
    BY <1>1, NumbersOK DEF Inv, TypeOK, Record
  <2>4. lease = m
    BY <2>1, <2>3 DEF Commit, Able
  <2>5. flight[m].run.att = rec.attempt /\ flight[m].read = flight[m].run.ev /\ flight[m].run.ev = rec.ev
    BY <1>1, <2>2 DEF Inv, Manager, Within, Formed
  <2>6. \A t \in live : t.by = m => t.att # rec.attempt
    BY <1>1, <2>2 DEF Inv, Manager, Verdict
  <2> QED BY <2>4, <2>5, <2>6
<1> QED BY <1>1, InvInvariant, PTL DEF Spec, AcceptedAsReviewed
===============================================================================
