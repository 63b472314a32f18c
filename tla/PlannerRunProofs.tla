---------------------------- MODULE PlannerRunProofs ----------------------------
(***************************************************************************)
(* Theorems about the foreground Planner of one workflow, for any number   *)
(* of answers, continuations and faults.                                   *)
(*                                                                         *)
(* The inductive invariant says who holds the run (a call, a waiting run   *)
(* or a parked clarification, and never two of them), which turn of the    *)
(* thread may be open wherever the call is, and what a cancelled workflow  *)
(* may still have open.                                                    *)
(***************************************************************************)
EXTENDS PlannerRun, FiniteSetTheorems, TLAPS

\* One holder of the run, and one round for it.
Books ==
  /\ OneHolder
  /\ ~At("none") => recov = NoRun /\ input = NoInput
  /\ recov # NoRun => input = NoInput
  /\ recov.kind = "none" => recov = NoRun

\* Each loss of the process is a fault, and a claimed answer is within its bound.
Counts ==
  /\ gen + (IF down THEN 1 ELSE 0) <= faults + 1
  /\ At("claimed") /\ flight.kind = "continue" => round < MaxAnswers

\* The thread of the run: created by the call, given up with the run, and without
\* an open turn once its process is gone.
Threads ==
  /\ cp.gen <= gen
  /\ cp.gen = 0 => /\ cp = NoCheckpoint /\ recov = NoRun /\ input = NoInput
                   /\ flight.pc \in {"none", "create", "catch", "finally"}
                   /\ ~At("none") => live = {}
  /\ At("create") => cp.gen = 0
  /\ At("none") /\ recov = NoRun /\ input = NoInput => cp.gen = 0
  /\ cp.gen # 0 /\ cp.gen # gen => live = {}

\* What a call that failed knows of its turn, and when a clarification is claimed.
Throws ==
  /\ At("catch") => flight.err # "none" /\ (flight.err # "fatal" => cp.gen # 0 /\ flight.nat = 0)
  /\ flight.err = "rejected" => At("catch")
  /\ flight.pc \in {"create", "turn", "backoff", "accept"} => flight.nat = 0
  /\ At("ready") /\ flight.nat # 0 => cp.step = "visible"

\* The phase of the record wherever a call is.
Phases ==
  /\ rec.phase = "none" => At("none") /\ cp.gen = 0 /\ live = {} /\ autos = 0 /\ replies = 0
  /\ rec.phase = "cancelled" => input = NoInput /\ recov.kind # "continue"
  /\ At("claimed") => \/ flight.kind = "continue" /\ rec.phase \in {"waiting_input", "cancelled"}
                      \/ flight.kind = "resume" /\ rec.phase \in {"planning", "cancelled"}
  /\ ~At("none") /\ ~At("claimed") /\ ~At("finally") => rec.phase \in {"planning", "cancelled"}
  /\ At("finally") /\ rec.phase \in {"planning", "waiting_input"} => stopped \/ (cp.gen # 0 /\ ~Available)
  /\ WaitingHasItsHandle

\* The budgets of the run as its checkpoint counts them, and the reply it holds.
Budget ==
  /\ autos <= 1 /\ replies <= 1
  /\ cp.gen # 0 => /\ autos = cp.auto
                   /\ ~cp.used => replies = 0
                   /\ cp.step = "completion" => cp.used /\ replies = 0
  /\ At("create") => autos = 0 /\ replies = 0
  /\ cp.text # "none" => cp.of = round

\* The turns of the thread that may be open where the call is.
Expected ==
  CASE At("none") -> {recov.intr, input.turn}
    [] At("turn") -> {flight.turn}
    [] At("catch") /\ flight.err # "fatal" -> {flight.turn}
    [] At("finally") -> Slots
    [] OTHER -> {flight.nat}
Lives == ~missed => /\ ~(1 \in live /\ 2 \in live)
                    /\ Available => live \subseteq Expected

\* What a cancel finds registered.
Actives ==
  /\ input.turn # 0 => active \in {0, input.turn}
  /\ flight.nat # 0 => active \in {0, flight.nat}
  /\ At("turn") => active \in {0, flight.turn}
  /\ At("turn") /\ flight.kind = "start" /\ rec.phase # "cancelled" => active = flight.turn
  /\ flight.kind # "continue" => flight.nat = 0

\* What a cancelled workflow may have open: the turn of a wait that was told, the
\* turn of a failed registration, or the turn a waiting run has for its cleanup.
Left == (IF (At("turn") /\ Signalled) \/ flight.err = "rejected" THEN {flight.turn} ELSE {})
        \cup {recov.intr}
Cancels ==
  ~missed /\ ~down =>
    /\ rec.phase = "cancelled" => live \subseteq Left
    /\ /\ rec.phase \in {"planning", "waiting_input"} /\ ~stopped
       /\ At("none") /\ recov = NoRun /\ input = NoInput
       => live = {}

Inv == /\ TypeOK /\ Books /\ Counts /\ Threads /\ Throws
       /\ Phases /\ Budget /\ Lives /\ Actives /\ Cancels

\* The empty values.
LEMMA Nothing ==
  /\ NoFlight \in Flight /\ NoFlight.pc = "none" /\ NoFlight.kind = "start" /\ NoFlight.nat = 0
  /\ NoFlight.err = "none" /\ NoFlight.abort = FALSE
  /\ NoRun \in Run /\ NoRun.kind = "none" /\ NoRun.intr = 0
  /\ NoInput \in Input /\ NoInput.kind = "none" /\ NoInput.turn = 0
  /\ NoCheckpoint \in Checkpoint /\ NoCheckpoint.gen = 0 /\ NoCheckpoint.step = "visible"
  /\ NoCheckpoint.auto = 0 /\ NoCheckpoint.used = FALSE /\ NoCheckpoint.text = "none"
<1>1. /\ NoFlight \in Flight /\ NoFlight.pc = "none" /\ NoFlight.kind = "start" /\ NoFlight.nat = 0
      /\ NoFlight.err = "none" /\ NoFlight.abort = FALSE
  BY DEF NoFlight, Flight
<1>2. /\ NoRun \in Run /\ NoRun.kind = "none" /\ NoRun.intr = 0
      /\ NoInput \in Input /\ NoInput.kind = "none" /\ NoInput.turn = 0
  BY DEF NoRun, Run, NoInput, Input
<1>3. /\ NoCheckpoint \in Checkpoint /\ NoCheckpoint.gen = 0 /\ NoCheckpoint.step = "visible"
      /\ NoCheckpoint.auto = 0 /\ NoCheckpoint.used = FALSE /\ NoCheckpoint.text = "none"
  BY BoundsAssumption DEF NoCheckpoint, Checkpoint, Steps
<1> QED BY <1>1, <1>2, <1>3

Pcs == {"none", "create", "claimed", "ready", "starting", "backoff", "turn", "accept", "catch",
        "interrupt", "finally"}

\* A call that goes to another place keeps the rest of itself.
LEMMA ToOK ==
  ASSUME TypeOK, NEW s \in Pcs, To(s)
  PROVE  /\ flight' \in Flight /\ flight'.pc = s /\ flight'.kind = flight.kind
         /\ flight'.abort = flight.abort /\ flight'.turn = flight.turn /\ flight'.nat = flight.nat
         /\ flight'.called = flight.called /\ flight'.err = flight.err
BY DEF TypeOK, To, Flight, Pcs

LEMMA ThrowOK ==
  ASSUME TypeOK, NEW e \in {"fatal", "interrupted", "rejected"}, Throw(e)
  PROVE  /\ flight' \in Flight /\ flight'.pc = "catch" /\ flight'.kind = flight.kind
         /\ flight'.abort = flight.abort /\ flight'.turn = flight.turn /\ flight'.nat = flight.nat
         /\ flight'.called = flight.called /\ flight'.err = e
BY DEF TypeOK, Throw, Flight

\* A fault is counted, and within its bound.
LEMMA FaultsOK ==
  ASSUME TypeOK, Fault \/ NoFault
  PROVE  faults' \in 0 .. MaxFaults /\ faults' >= faults
BY BoundsAssumption DEF TypeOK, Fault, NoFault

\* The counters are numbers.
LEMMA NumbersOK ==
  TypeOK => /\ gen \in Nat \ {0} /\ faults \in Nat /\ MaxFaults \in Nat /\ faults <= MaxFaults
            /\ round \in Nat /\ MaxAnswers \in Nat /\ pins \in Nat /\ autos \in Nat /\ replies \in Nat
            /\ cp.gen \in Nat /\ cp.auto \in Nat /\ cp.of \in Nat
BY BoundsAssumption DEF TypeOK, Checkpoint

\* What is held while a call is under way.
LEMMA BusyOK ==
  ASSUME Inv, ~At("none")
  PROVE  /\ recov = NoRun /\ input = NoInput /\ pins = 1 /\ recov.intr = 0 /\ input.turn = 0
         /\ recov.kind = "none"
BY Nothing DEF Inv, Books, OneHolder

\* A step inside a call that keeps the thread and the checkpoint.
LEMMA InvGoesOn ==
  ASSUME Inv, ~At("none"), flight' \in Flight, flight'.pc \notin {"none", "create", "claimed"},
         cp.gen = 0 => flight'.pc \in {"catch", "finally"},
         rec' \in Record, live' \subseteq live, active' \in {0, active},
         UNCHANGED <<procVars, cp, recov, input, pins, autos, replies, round, resumes>>,
         missed' \in BOOLEAN, faults' \in 0 .. MaxFaults, faults' >= faults,
         Throws', Phases', Lives', Actives', Cancels'
  PROVE  Inv'
<1>1. UNCHANGED <<stopped, gen, down>>
  BY DEF procVars
<1>2. TypeOK'
  BY <1>1 DEF Inv, TypeOK
<1>3. Books' /\ Counts'
  <2>1. Books'
    BY DEF Inv, Books, OneHolder, At
  <2>2. Counts'
    BY <1>1, NumbersOK DEF Inv, Counts, At
  <2> QED BY <2>1, <2>2
<1>4. Threads'
  BY <1>1 DEF Inv, Threads, At
<1>5. Budget'
  BY DEF Inv, Budget, At
<1> QED BY <1>2, <1>3, <1>4, <1>5 DEF Inv

LEMMA InvReady ==
  ASSUME Inv, Ready
  PROVE  Inv'
<1>1. /\ At("ready") /\ ~At("none") /\ cp.gen # 0 /\ rec.phase \in {"planning", "cancelled"}
      /\ UNCHANGED <<rec, procVars, live, active, cp, recov, input, pins, ghostVars, faults>>
  BY DEF Ready, NoFault, Inv, Threads, Phases, At
<1>2. UNCHANGED <<stopped, gen, down, autos, replies, round, missed, resumes>>
  BY <1>1 DEF procVars, ghostVars
<1>3. /\ flight' \in Flight /\ flight'.pc \in {"starting", "accept", "catch"}
      /\ flight'.kind = flight.kind /\ flight'.nat = flight.nat
      /\ flight'.pc = "accept" => flight.nat = 0
      /\ flight'.pc = "catch" => flight'.err = "fatal"
      /\ flight'.pc # "catch" => flight'.err = flight.err
  <2>1. CASE CanGoOn /\ cp.step = "visible"
    BY <2>1, ToOK DEF Ready, Pcs, Inv
  <2>2. CASE CanGoOn /\ cp.step # "visible"
    BY <1>1, <2>2, ToOK DEF Ready, Pcs, Inv, Throws
  <2>3. CASE ~CanGoOn
    BY <2>3, ThrowOK DEF Ready, Inv
  <2> QED BY <2>1, <2>2, <2>3
<1>4. Throws' /\ Phases'
  BY <1>1, <1>2, <1>3 DEF Inv, Throws, Phases, At, WaitingHasItsHandle, Planning
<1>5. Lives' /\ Actives' /\ Cancels'
  <2>1. Lives'
    BY <1>1, <1>2, <1>3 DEF Inv, Lives, Expected, Available, At
  <2>2. Actives'
    BY <1>1, <1>2, <1>3 DEF Inv, Actives, At
  <2>3. Cancels'
    BY <1>1, <1>2, <1>3 DEF Inv, Cancels, Left, At, Throws
  <2> QED BY <2>1, <2>2, <2>3
<1> QED BY <1>1, <1>2, <1>3, <1>4, <1>5, InvGoesOn DEF Inv, TypeOK

LEMMA InvClaimRun ==
  ASSUME Inv, ClaimRun
  PROVE  Inv'
<1>1. /\ At("claimed") /\ flight.kind = "resume" /\ ~At("none") /\ cp.gen # 0
      /\ rec.phase \in {"planning", "cancelled"}
      /\ UNCHANGED <<procVars, live, active, cp, recov, input, pins, ghostVars, faults>>
  BY DEF ClaimRun, NoFault, Inv, Threads, Phases, At
<1>2. UNCHANGED <<stopped, gen, down, autos, replies, round, missed, resumes>>
  BY <1>1 DEF procVars, ghostVars
<1>3. /\ flight' \in Flight /\ flight'.pc \in {"ready", "catch", "finally"}
      /\ flight'.kind = flight.kind /\ flight'.nat = flight.nat /\ flight'.turn = flight.turn
      /\ flight'.pc = "finally" => rec.phase = "cancelled"
      /\ flight'.pc = "catch" => flight'.err = "fatal"
      /\ flight'.pc # "catch" => flight'.err = flight.err
      /\ rec' \in Record /\ rec'.phase = rec.phase
  <2>1. CASE ~Planning
    BY <1>1, <2>1, ToOK DEF ClaimRun, Pcs, Inv, TypeOK, Planning
  <2>2. CASE Planning /\ ~Running
    BY <2>2, ThrowOK DEF ClaimRun, Inv, TypeOK
  <2>3. CASE Planning /\ Running
    <3>1. rec' = [rec EXCEPT !.proc = "running", !.retry = "none"] /\ To("ready")
      BY <2>3 DEF ClaimRun
    <3> QED BY <1>1, <2>3, <3>1, ToOK DEF Pcs, Inv, TypeOK, Record
  <2> QED BY <2>1, <2>2, <2>3
<1>4. Throws' /\ Phases'
  BY <1>1, <1>2, <1>3 DEF Inv, Throws, Phases, At, WaitingHasItsHandle, Planning, Actives
<1>5. Lives' /\ Actives' /\ Cancels'
  <2>1. Lives'
    BY <1>1, <1>2, <1>3 DEF Inv, Lives, Expected, Available, At, TypeOK
  <2>2. Actives'
    BY <1>1, <1>2, <1>3 DEF Inv, Actives, At
  <2>3. Cancels'
    BY <1>1, <1>2, <1>3 DEF Inv, Cancels, Left, At, Throws
  <2> QED BY <2>1, <2>2, <2>3
<1> QED BY <1>1, <1>2, <1>3, <1>4, <1>5, InvGoesOn DEF Inv, TypeOK

LEMMA InvStartFails ==
  ASSUME Inv, StartFails
  PROVE  Inv'
<1>1. /\ flight.pc \in {"starting", "backoff"} /\ ~At("none") /\ cp.gen # 0
      /\ rec.phase \in {"planning", "cancelled"}
      /\ UNCHANGED <<rec, procVars, live, active, cp, recov, input, pins, ghostVars, faults>>
  BY DEF StartFails, NoFault, Inv, Threads, Phases, At
<1>2. UNCHANGED <<stopped, gen, down, autos, replies, round, missed, resumes>>
  BY <1>1 DEF procVars, ghostVars
<1>3. /\ flight' \in Flight /\ flight'.pc = "catch" /\ flight'.err = "fatal"
      /\ flight'.kind = flight.kind /\ flight'.nat = flight.nat
  BY DEF StartFails, Inv, TypeOK, Flight
<1>4. Throws' /\ Phases'
  BY <1>1, <1>2, <1>3 DEF Inv, Throws, Phases, At, WaitingHasItsHandle
<1>5. Lives' /\ Actives' /\ Cancels'
  <2>1. Lives'
    BY <1>1, <1>2, <1>3 DEF Inv, Lives, Expected, Available, At
  <2>2. Actives'
    BY <1>1, <1>2, <1>3 DEF Inv, Actives, At
  <2>3. Cancels'
    BY <1>1, <1>2, <1>3 DEF Inv, Cancels, Left, At, Throws
  <2> QED BY <2>1, <2>2, <2>3
<1> QED BY <1>1, <1>2, <1>3, <1>4, <1>5, InvGoesOn DEF Inv, TypeOK

\* Where a call waits for its turn.
LEMMA TurnOK ==
  ASSUME Inv, At("turn")
  PROVE  /\ ~At("none") /\ cp.gen # 0 /\ flight.nat = 0 /\ rec.phase \in {"planning", "cancelled"}
         /\ flight.err # "rejected" /\ active \in {0, flight.turn}
         /\ ~missed /\ Available => live \subseteq {flight.turn}
BY DEF Inv, Threads, Throws, Phases, Actives, Lives, Expected, At

LEMMA InvTurnUnusable ==
  ASSUME Inv, TurnUnusable
  PROVE  Inv'
<1>1. /\ At("turn") /\ Available /\ active' \in {0, active} /\ live' = live \ {flight.turn}
      /\ UNCHANGED <<procVars, cp, recov, input, pins, ghostVars, faults>>
  BY DEF TurnUnusable, Ended, Waited, Registered, NoFault
<1>2. UNCHANGED <<stopped, gen, down, autos, replies, round, missed, resumes>>
  BY <1>1 DEF procVars, ghostVars
<1>3. /\ flight' \in Flight /\ flight'.kind = flight.kind /\ flight'.nat = flight.nat /\ rec' \in Record
      /\ \/ flight'.pc = "catch" /\ flight'.err = "fatal" /\ rec' = rec
         \/ flight'.pc = "finally" /\ flight'.err = flight.err /\ rec'.phase = "failed"
         \/ flight'.pc = "finally" /\ flight'.err = flight.err /\ rec' = rec /\ rec.phase = "cancelled"
  <2>1. CASE Throw("fatal") /\ UNCHANGED rec
    BY <2>1, ThrowOK DEF Inv, TypeOK
  <2>2. CASE To("finally") /\ rec' = [rec EXCEPT !.phase = "failed"]
    BY <2>2, ToOK DEF Inv, TypeOK, Record, Pcs
  <2>3. CASE rec.phase = "cancelled" /\ To("finally") /\ UNCHANGED rec
    BY <2>3, ToOK DEF Inv, TypeOK, Pcs
  <2> QED BY <2>1, <2>2, <2>3 DEF TurnUnusable
<1>4. Throws' /\ Phases'
  BY <1>1, <1>2, <1>3, TurnOK DEF Inv, Throws, Phases, At, WaitingHasItsHandle, Planning
<1>5. Lives' /\ Actives' /\ Cancels'
  <2>1. Lives'
    BY <1>1, <1>2, <1>3, TurnOK DEF Inv, Lives, Expected, Available, At, TypeOK
  <2>2. Actives'
    BY <1>1, <1>2, <1>3, TurnOK DEF Inv, Actives, At
  <2>3. Cancels'
    BY <1>1, <1>2, <1>3, TurnOK DEF Inv, Cancels, Left, At, Throws
  <2> QED BY <2>1, <2>2, <2>3
<1> QED BY <1>1, <1>2, <1>3, <1>4, <1>5, TurnOK, InvGoesOn DEF Inv, TypeOK

LEMMA InvTurnTransient ==
  ASSUME Inv, TurnTransient
  PROVE  Inv'
<1>1. /\ At("turn") /\ Available /\ live' = live \ {flight.turn} /\ To("backoff")
      /\ faults' \in 0 .. MaxFaults /\ faults' >= faults
      /\ UNCHANGED <<rec, procVars, active, cp, recov, input, pins, ghostVars>>
  BY FaultsOK DEF TurnTransient, Inv
<1>2. UNCHANGED <<stopped, gen, down, autos, replies, round, missed, resumes>>
  BY <1>1 DEF procVars, ghostVars
<1>3. /\ flight' \in Flight /\ flight'.pc = "backoff" /\ flight'.kind = flight.kind
      /\ flight'.nat = flight.nat /\ flight'.err = flight.err
  BY <1>1, ToOK DEF Inv, Pcs
<1>4. Throws' /\ Phases'
  BY <1>1, <1>2, <1>3, TurnOK DEF Inv, Throws, Phases, At, WaitingHasItsHandle, Planning
<1>5. Lives' /\ Actives' /\ Cancels'
  <2>1. Lives'
    BY <1>1, <1>2, <1>3, TurnOK DEF Inv, Lives, Expected, Available, At
  <2>2. Actives'
    BY <1>1, <1>2, <1>3, TurnOK DEF Inv, Actives, At
  <2>3. Cancels'
    BY <1>1, <1>2, <1>3, TurnOK DEF Inv, Cancels, Left, At, Throws
  <2> QED BY <2>1, <2>2, <2>3
<1> QED BY <1>1, <1>2, <1>3, <1>4, <1>5, TurnOK, InvGoesOn DEF Inv, TypeOK

LEMMA InvTurnLost ==
  ASSUME Inv, TurnLost
  PROVE  Inv'
<1>1. /\ At("turn") /\ ~Available /\ Throw("fatal") /\ active' \in {0, active}
      /\ UNCHANGED <<rec, procVars, live, cp, recov, input, pins, ghostVars, faults>>
  BY DEF TurnLost, Registered, NoFault
<1>2. UNCHANGED <<stopped, gen, down, autos, replies, round, missed, resumes>>
  BY <1>1 DEF procVars, ghostVars
<1>3. /\ flight' \in Flight /\ flight'.pc = "catch" /\ flight'.kind = flight.kind
      /\ flight'.nat = flight.nat /\ flight'.err = "fatal"
  BY <1>1, ThrowOK DEF Inv
<1>4. Throws' /\ Phases'
  BY <1>1, <1>2, <1>3, TurnOK DEF Inv, Throws, Phases, At, WaitingHasItsHandle, Planning
<1>5. Lives' /\ Actives' /\ Cancels'
  <2>1. Lives'
    BY <1>1, <1>2 DEF Inv, Lives, Available
  <2>2. Actives'
    BY <1>1, <1>2, <1>3, TurnOK DEF Inv, Actives, At
  <2>3. Cancels'
    BY <1>1, <1>2, <1>3, TurnOK DEF Inv, Cancels, Left, At, Throws, Threads, Available
  <2> QED BY <2>1, <2>2, <2>3
<1> QED BY <1>1, <1>2, <1>3, <1>4, <1>5, TurnOK, InvGoesOn DEF Inv, TypeOK

LEMMA InvTurnInterrupted ==
  ASSUME Inv, TurnInterrupted
  PROVE  Inv'
<1>1. /\ At("turn") /\ Available /\ active' \in {0, active}
      /\ faults' \in 0 .. MaxFaults /\ faults' >= faults
      /\ missed' = (missed \/ (rec.phase = "cancelled" /\ flight'.err = "interrupted"))
      /\ UNCHANGED <<rec, procVars, live, cp, recov, input, pins, autos, replies, round, resumes>>
  BY FaultsOK DEF TurnInterrupted, Waited, Registered, Inv
<1>2. UNCHANGED <<stopped, gen, down>>
  BY <1>1 DEF procVars
<1>3. /\ flight' \in Flight /\ flight'.pc = "catch" /\ flight'.kind = flight.kind
      /\ flight'.nat = flight.nat /\ flight'.turn = flight.turn /\ flight'.err \in {"interrupted", "rejected"}
  BY ThrowOK DEF TurnInterrupted, Inv
<1>4. Throws' /\ Phases'
  BY <1>1, <1>2, <1>3, TurnOK DEF Inv, Throws, Phases, At, WaitingHasItsHandle, Planning
<1>5. Lives' /\ Actives' /\ Cancels'
  <2>1. Lives'
    BY <1>1, <1>2, <1>3, TurnOK DEF Inv, Lives, Expected, Available, At
  <2>2. Actives'
    BY <1>1, <1>2, <1>3, TurnOK DEF Inv, Actives, At
  <2>3. Cancels'
    BY <1>1, <1>2, <1>3, TurnOK DEF Inv, Cancels, Left, At, Throws
  <2> QED BY <2>1, <2>2, <2>3
<1> QED BY <1>1, <1>2, <1>3, <1>4, <1>5, TurnOK, InvGoesOn DEF Inv, TypeOK

LEMMA InvCatchCancelled ==
  ASSUME Inv, CatchCancelled
  PROVE  Inv'
<1>1. /\ At("catch") /\ ~At("none") /\ flight.err # "rejected" /\ rec.phase = "cancelled" /\ To("finally")
      /\ UNCHANGED <<procVars, live, active, cp, recov, input, pins, ghostVars, faults>>
  BY DEF CatchCancelled, NoFault, At
<1>2. UNCHANGED <<stopped, gen, down, autos, replies, round, missed, resumes>>
  BY <1>1 DEF procVars, ghostVars
<1>3. /\ flight' \in Flight /\ flight'.pc = "finally" /\ flight'.kind = flight.kind
      /\ flight'.nat = flight.nat /\ flight'.err = flight.err
      /\ rec' \in Record /\ rec'.phase = "cancelled"
  BY <1>1, ToOK DEF CatchCancelled, Inv, Pcs, TypeOK, Record
<1>4. Throws' /\ Phases'
  BY <1>1, <1>2, <1>3 DEF Inv, Throws, Phases, At, WaitingHasItsHandle, Planning
<1>5. Lives' /\ Actives' /\ Cancels'
  <2>1. Lives'
    BY <1>1, <1>2, <1>3 DEF Inv, Lives, Expected, Available, At, TypeOK
  <2>2. Actives'
    BY <1>1, <1>2, <1>3 DEF Inv, Actives, At
  <2>3. Cancels'
    BY <1>1, <1>2, <1>3 DEF Inv, Cancels, Left, At
  <2> QED BY <2>1, <2>2, <2>3
<1> QED BY <1>1, <1>2, <1>3, <1>4, <1>5, InvGoesOn DEF Inv, TypeOK

LEMMA InvCatchFails ==
  ASSUME Inv, CatchFails
  PROVE  Inv'
<1>1. /\ At("catch") /\ ~At("none") /\ flight.err # "rejected" /\ rec.phase # "cancelled" /\ To("finally")
      /\ UNCHANGED <<procVars, live, active, cp, recov, input, pins, ghostVars, faults>>
  BY DEF CatchFails, NoFault, At
<1>2. UNCHANGED <<stopped, gen, down, autos, replies, round, missed, resumes>>
  BY <1>1 DEF procVars, ghostVars
<1>3. /\ flight' \in Flight /\ flight'.pc = "finally" /\ flight'.kind = flight.kind
      /\ flight'.nat = flight.nat /\ flight'.err = flight.err
      /\ rec' \in Record /\ rec'.phase = "failed"
  <2>1. Planning
    BY <1>1 DEF Inv, Phases, At, Planning
  <2>2. rec' \in Record /\ rec'.phase = "failed"
    BY <2>1 DEF CatchFails, Inv, TypeOK, Record
  <2> QED BY <1>1, <2>2, ToOK DEF Inv, Pcs
<1>4. Throws' /\ Phases'
  BY <1>1, <1>2, <1>3 DEF Inv, Throws, Phases, At, WaitingHasItsHandle, Planning
<1>5. Lives' /\ Actives' /\ Cancels'
  <2>1. Lives'
    BY <1>1, <1>2, <1>3 DEF Inv, Lives, Expected, Available, At, TypeOK
  <2>2. Actives'
    BY <1>1, <1>2, <1>3 DEF Inv, Actives, At
  <2>3. Cancels'
    BY <1>1, <1>2, <1>3 DEF Inv, Cancels, Left, At
  <2> QED BY <2>1, <2>2, <2>3
<1> QED BY <1>1, <1>2, <1>3, <1>4, <1>5, InvGoesOn DEF Inv, TypeOK

\* A call ends and leaves what it had to a waiting run, a parked clarification or nobody.
LEMMA InvEnds ==
  ASSUME Inv, ~At("none"), flight' = NoFlight,
         cp.gen # 0, rec' \in Record, rec'.phase \in {"planning", "waiting_input", "cancelled"},
         live' \subseteq live, active' \in {0, active},
         cp' \in Checkpoint, cp'.gen = cp.gen, cp'.auto = cp.auto, cp'.used = cp.used,
         cp' = cp \/ (cp'.text = "none" /\ cp'.step = "visible"),
         UNCHANGED <<procVars, pins, autos, replies, round, missed, resumes>>,
         faults' \in 0 .. MaxFaults, faults' >= faults,
         \/ recov' \in Run /\ recov'.kind # "none" /\ input' = NoInput
         \/ input' \in Input /\ input'.kind # "none" /\ recov' = NoRun,
         rec'.phase = "planning" => recov'.kind = rec'.retry \/ stopped,
         rec'.phase = "waiting_input" => input' # NoInput,
         rec'.phase = "cancelled" => recov'.kind = "cleanup",
         ~missed /\ Available => live' \subseteq {recov'.intr, input'.turn},
         ~missed /\ ~down /\ rec'.phase = "cancelled" => live' \subseteq {recov'.intr},
         input'.turn # 0 => active' \in {0, input'.turn}
  PROVE  Inv'
<1>1. UNCHANGED <<stopped, gen, down>>
  BY DEF procVars
<1>2. /\ recov' \in Run /\ input' \in Input /\ (recov' = NoRun \/ input' = NoInput)
      /\ recov' # NoRun \/ input' # NoInput
      /\ recov'.kind = "none" => recov' = NoRun
      /\ flight'.pc = "none" /\ flight' \in Flight /\ flight'.err = "none" /\ flight'.nat = 0
  BY Nothing
<1>3. TypeOK'
  BY <1>1, <1>2 DEF Inv, TypeOK
<1>4. Books' /\ Counts'
  <2>1. Books'
    BY <1>2, BusyOK DEF Books, OneHolder, At
  <2>2. Counts'
    BY <1>1, <1>2, NumbersOK DEF Inv, Counts, At
  <2> QED BY <2>1, <2>2
<1>5. Threads' /\ Throws'
  BY <1>1, <1>2 DEF Inv, Threads, Throws, At
<1>6. Phases'
  BY <1>1, <1>2, Nothing DEF Inv, Phases, At, WaitingHasItsHandle, Planning
<1>7. Budget'
  BY <1>2 DEF Inv, Budget, At
<1>8. Lives' /\ Actives' /\ Cancels'
  <2>1. Lives'
    BY <1>1, <1>2 DEF Inv, Lives, Expected, Available, At
  <2>2. Actives'
    BY <1>2 DEF Actives, At
  <2>3. Cancels'
    BY <1>1, <1>2 DEF Cancels, Left, At
  <2> QED BY <2>1, <2>2, <2>3
<1> QED BY <1>3, <1>4, <1>5, <1>6, <1>7, <1>8 DEF Inv

\* The waiting run that a call leaves.
LEMMA KeepOK ==
  ASSUME Inv, NEW t \in {0} \cup Slots, KeepRun(t), NEW r, r = WaitingRecord
  PROVE  /\ recov' \in Run /\ recov'.kind = "continue" /\ recov'.intr = t /\ active' = 0 /\ flight' = NoFlight
         /\ r \in Record /\ r.phase = rec.phase /\ r.retry = "continue"
BY DEF Inv, TypeOK, KeepRun, WaitingRecord, Run, Record

LEMMA InvTurnFails ==
  ASSUME Inv, TurnFails
  PROVE  Inv'
<1>1. /\ At("turn") /\ Available /\ live' = live \ {flight.turn}
      /\ UNCHANGED <<procVars, input, pins, replies, round, missed, resumes, faults>>
  BY DEF TurnFails, NoFault
<1>2. UNCHANGED <<stopped, gen, down>>
  BY <1>1 DEF procVars
<1>3. CASE ~CanGoOn
  <2>1. /\ flight' \in Flight /\ flight'.pc = "catch" /\ flight'.kind = flight.kind
        /\ flight'.nat = flight.nat /\ flight'.err = "fatal" /\ active' \in {0, active}
        /\ UNCHANGED <<rec, cp, recov, autos>>
    BY <1>3, ThrowOK DEF Inv, TurnFails, Registered
  <2>2. Throws' /\ Phases'
    BY <1>1, <1>2, <2>1, TurnOK DEF Inv, Throws, Phases, At, WaitingHasItsHandle, Planning
  <2>3. Lives' /\ Actives' /\ Cancels'
    <3>1. Lives'
      BY <1>1, <1>2, <2>1, TurnOK DEF Inv, Lives, Expected, Available, At
    <3>2. Actives'
      BY <1>1, <1>2, <2>1, TurnOK DEF Inv, Actives, At
    <3>3. Cancels'
      BY <1>1, <1>2, <2>1, TurnOK DEF Inv, Cancels, Left, At, Throws
    <3> QED BY <3>1, <3>2, <3>3
  <2> QED BY <1>1, <2>1, <2>2, <2>3, TurnOK, InvGoesOn DEF Inv, TypeOK
<1>4. CASE CanGoOn /\ cp.auto = 0
  <2>1. /\ flight' \in Flight /\ flight'.pc = "ready" /\ flight'.kind = flight.kind
        /\ flight'.nat = flight.nat /\ flight'.err = flight.err /\ active' \in {0, active}
        /\ autos' = autos + 1 /\ UNCHANGED <<rec, recov>>
    BY <1>4, ToOK DEF Inv, TurnFails, Registered, Pcs
  <2>2. /\ cp' \in Checkpoint /\ cp'.gen = cp.gen /\ cp'.auto = 1 /\ cp'.used = cp.used
        /\ cp'.text = cp.text /\ cp'.of = cp.of /\ cp'.step = cp.step
    BY <1>4 DEF TurnFails, Inv, TypeOK, Checkpoint
  <2>3. Throws' /\ Phases'
    BY <1>1, <1>2, <2>1, <2>2, TurnOK DEF Inv, Throws, Phases, At, WaitingHasItsHandle, Planning
  <2>4. Lives' /\ Actives' /\ Cancels'
    <3>1. Lives'
      BY <1>1, <1>2, <2>1, TurnOK DEF Inv, Lives, Expected, Available, At
    <3>2. Actives'
      BY <1>1, <1>2, <2>1, TurnOK DEF Inv, Actives, At
    <3>3. Cancels'
      BY <1>1, <1>2, <2>1, TurnOK DEF Inv, Cancels, Left, At, Throws
    <3> QED BY <3>1, <3>2, <3>3
  <2>5. TypeOK' /\ Budget'
    <3>1. autos = 0
      BY <1>4, TurnOK, <1>1 DEF Inv, Budget
    <3> QED BY <1>1, <1>2, <2>1, <2>2, <3>1, TurnOK DEF Inv, TypeOK, Budget, At
  <2>6. Books' /\ Counts' /\ Threads'
    BY <1>1, <1>2, <2>1, <2>2, TurnOK DEF Inv, Books, OneHolder, Counts, Threads, At
  <2> QED BY <2>3, <2>4, <2>5, <2>6 DEF Inv
<1>5. CASE CanGoOn /\ cp.auto # 0
  <2>1. rec' = WaitingRecord /\ KeepRun(0) /\ UNCHANGED <<cp, autos>>
    BY <1>5 DEF TurnFails
  <2>2. rec.phase = "planning"
    BY <1>5 DEF CanGoOn, Planning
  <2> QED BY <1>1, <2>1, <2>2, TurnOK, KeepOK, BusyOK, Nothing, InvEnds DEF Inv, TypeOK
<1> QED BY <1>3, <1>4, <1>5

LEMMA InvCatchRejected ==
  ASSUME Inv, CatchRejected
  PROVE  Inv'
<1>1. /\ At("catch") /\ ~At("none") /\ cp.gen # 0 /\ flight.err = "rejected"
      /\ rec.phase \in {"planning", "cancelled"}
      /\ ~missed /\ Available => live \subseteq {flight.turn}
  BY DEF CatchRejected, Inv, Throws, Phases, Lives, Expected, At
<1>2. /\ recov' \in Run /\ recov'.kind = "cleanup" /\ recov'.intr = flight.turn
  BY DEF CatchRejected, Inv, TypeOK, Run, Flight
<1>3. /\ rec' \in Record /\ rec'.phase = rec.phase
      /\ rec.phase = "planning" /\ ~stopped => rec'.retry = "cleanup"
  BY DEF CatchRejected, Inv, TypeOK, Record, Planning
<1>4. ~missed /\ ~down /\ rec.phase = "cancelled" => live \subseteq {flight.turn}
  BY <1>1, BusyOK DEF Inv, TypeOK, Slots, Cancels, Left, At
<1>5. /\ active' = 0 /\ flight' = NoFlight
      /\ UNCHANGED <<procVars, live, cp, input, pins, autos, replies, round, missed, resumes, faults>>
  BY DEF CatchRejected, NoFault, ghostVars
<1> QED BY <1>1, <1>2, <1>3, <1>4, <1>5, BusyOK, Nothing, InvEnds DEF Inv, TypeOK

\* A record that asks.
LEMMA AskingOK == TypeOK => Asking \in Record /\ Asking.phase = "waiting_input"
BY DEF TypeOK, Asking, Record

\* The checkpoint of a clarification keeps its thread and its budgets.
LEMMA ClearedOK ==
  ASSUME TypeOK
  PROVE  /\ Cleared(cp) \in Checkpoint /\ Cleared(cp).gen = cp.gen /\ Cleared(cp).auto = cp.auto
         /\ Cleared(cp).used = cp.used /\ Cleared(cp).text = "none" /\ Cleared(cp).step = "visible"
<1> DEFINE c == Cleared(cp)
<1>1. c = [cp EXCEPT !.step = "visible", !.text = "none", !.conv = "none", !.of = 0]
  BY DEF Cleared
<1> HIDE DEF c
<1>2. 0 \in 0 .. MaxAnswers
  BY BoundsAssumption
<1> QED BY <1>1, <1>2 DEF TypeOK, Checkpoint, Steps, c

LEMMA InvTurnAsks ==
  ASSUME Inv, TurnAsks
  PROVE  Inv'
<1>1. /\ At("turn") /\ Available /\ active' = Registered /\ active' \in {0, active} /\ flight.turn \in live
      /\ UNCHANGED <<procVars, live, recov, pins, autos, replies, round, resumes, faults>>
  BY DEF TurnAsks, Waited, Registered, NoFault
<1>2. UNCHANGED <<stopped, gen, down>>
  BY <1>1 DEF procVars
<1>3. CASE KeptForAnswers
  <2>1. /\ rec' = Asking /\ input' = [kind |-> "native", turn |-> flight.turn] /\ flight' = NoFlight
        /\ cp' = cp \/ cp' = Cleared(cp)
        /\ UNCHANGED missed
    BY <1>3 DEF TurnAsks
  <2>2. /\ cp' \in Checkpoint /\ cp'.gen = cp.gen /\ cp'.auto = cp.auto /\ cp'.used = cp.used
        /\ cp' = cp \/ (cp'.text = "none" /\ cp'.step = "visible")
    BY <2>1, ClearedOK DEF Inv, TypeOK
  <2>3. input' \in Input /\ input'.kind = "native" /\ input'.turn = flight.turn
    BY <2>1 DEF Input, Inv, TypeOK, Flight
  <2> QED BY <1>1, <2>1, <2>2, <2>3, AskingOK, TurnOK, BusyOK, Nothing, InvEnds DEF Inv, TypeOK
<1>4. CASE ~KeptForAnswers
  <2>1. /\ missed' = TRUE /\ UNCHANGED <<rec, input, cp>>
        /\ flight' \in Flight /\ flight'.kind = flight.kind /\ flight'.nat = flight.nat
        /\ \/ flight'.pc = "catch" /\ flight'.err = "fatal"
           \/ flight'.pc = "finally" /\ flight'.err = flight.err /\ rec.phase = "cancelled"
    BY <1>4, ThrowOK, ToOK DEF TurnAsks, Inv, Pcs
  <2>2. Throws' /\ Phases'
    BY <1>1, <1>2, <2>1, TurnOK DEF Inv, Throws, Phases, At, WaitingHasItsHandle, Planning
  <2>3. Lives' /\ Actives' /\ Cancels'
    BY <1>1, <2>1, TurnOK DEF Inv, Lives, Actives, Cancels, At
  <2> QED BY <1>1, <2>1, <2>2, <2>3, TurnOK, InvGoesOn DEF Inv, TypeOK
<1> QED BY <1>3, <1>4

LEMMA InvCatchWaits ==
  ASSUME Inv, CatchWaits
  PROVE  Inv'
<1>1. /\ At("catch") /\ ~At("none") /\ flight.err \in {"fatal", "interrupted"} /\ rec.phase = "planning"
      /\ ~stopped /\ cp.gen # 0
      /\ UNCHANGED <<procVars, live, cp, input, pins, ghostVars, faults>>
  BY DEF CatchWaits, Parks, NoFault, Inv, TypeOK, Flight, Throws, Threads, Planning, At
<1>2. UNCHANGED <<stopped, gen, down, autos, replies, round, missed, resumes>>
  BY <1>1 DEF procVars, ghostVars
<1>3. CASE flight.err = "fatal" /\ flight.nat # 0
  <2>1. To("interrupt") /\ UNCHANGED <<rec, recov, active>>
    BY <1>3 DEF CatchWaits
  <2>2. /\ flight' \in Flight /\ flight'.pc = "interrupt" /\ flight'.kind = flight.kind
        /\ flight'.nat = flight.nat /\ flight'.err = flight.err
    BY <2>1, ToOK DEF Inv, Pcs
  <2>3. Throws' /\ Phases'
    BY <1>1, <1>2, <2>1, <2>2 DEF Inv, Throws, Phases, At, WaitingHasItsHandle, Planning
  <2>4. Lives' /\ Actives' /\ Cancels'
    <3>1. Lives'
      BY <1>1, <1>2, <1>3, <2>2 DEF Inv, Lives, Expected, Available, At
    <3>2. Actives'
      BY <1>1, <1>2, <2>1, <2>2 DEF Inv, Actives, At
    <3>3. Cancels'
      BY <1>1, <1>2, <2>1, <2>2 DEF Inv, Throws, Cancels, Left, At
    <3> QED BY <3>1, <3>2, <3>3
  <2> QED BY <1>1, <1>2, <2>1, <2>2, <2>3, <2>4, InvGoesOn DEF Inv, TypeOK
<1>4. CASE CanWait /\ (flight.err = "interrupted" \/ flight.nat = 0)
  <2> DEFINE t == IF flight.err = "interrupted" THEN flight.turn ELSE 0
  <2>1. rec' = WaitingRecord /\ KeepRun(t)
    BY <1>4 DEF CatchWaits
  <2>2. t \in {0} \cup Slots
    BY DEF Inv, TypeOK, Flight
  <2>3. ~missed /\ Available => live \subseteq {t}
    BY <1>1, <1>4 DEF Inv, Lives, Expected, At
  <2> HIDE DEF t
  <2> QED BY <1>1, <1>2, <2>1, <2>2, <2>3, KeepOK, BusyOK, Nothing, InvEnds DEF Inv, TypeOK
<1>5. CASE ~(flight.err = "fatal" /\ flight.nat # 0) /\ ~(CanWait /\ (flight.err = "interrupted" \/ flight.nat = 0))
  <2>1. To("finally") /\ UNCHANGED <<rec, recov, active>> /\ ~Available
    BY <1>1, <1>5 DEF CatchWaits, CanWait, Planning
  <2>2. /\ flight' \in Flight /\ flight'.pc = "finally" /\ flight'.kind = flight.kind
        /\ flight'.nat = flight.nat /\ flight'.err = flight.err
    BY <2>1, ToOK DEF Inv, Pcs
  <2>3. Throws' /\ Phases'
    BY <1>1, <1>2, <2>1, <2>2 DEF Inv, Throws, Phases, At, WaitingHasItsHandle, Planning, Available
  <2>4. Lives' /\ Actives' /\ Cancels'
    <3>1. Lives'
      BY <1>1, <1>2, <2>1, <2>2 DEF Inv, Lives, Expected, Available, At
    <3>2. Actives'
      BY <1>1, <1>2, <2>1, <2>2 DEF Inv, Actives, At
    <3>3. Cancels'
      BY <1>1, <1>2, <2>1, <2>2 DEF Inv, Throws, Cancels, Left, At
    <3> QED BY <3>1, <3>2, <3>3
  <2> QED BY <1>1, <1>2, <2>1, <2>2, <2>3, <2>4, InvGoesOn DEF Inv, TypeOK
<1> QED BY <1>3, <1>4, <1>5

LEMMA InvInterruptNative ==
  ASSUME Inv, NEW ok \in BOOLEAN, InterruptNative(ok)
  PROVE  Inv'
<1>1. /\ At("interrupt") /\ ~At("none") /\ cp.gen # 0 /\ rec.phase \in {"planning", "cancelled"}
      /\ faults' \in 0 .. MaxFaults /\ faults' >= faults
      /\ flight.nat \in {0} \cup Slots
      /\ live' = (IF ok THEN live \ {flight.nat} ELSE live)
      /\ ~missed /\ Available => live \subseteq {flight.nat}
      /\ UNCHANGED <<procVars, cp, pins, ghostVars>>
  BY FaultsOK DEF InterruptNative, Inv, TypeOK, Flight, Threads, Phases, Lives, Expected, At
<1>2. UNCHANGED <<stopped, gen, down, autos, replies, round, missed, resumes>>
  BY <1>1 DEF procVars, ghostVars
<1>3. CASE ~CanWait
  <2>1. To("finally") /\ UNCHANGED <<rec, recov, active, input>>
    BY <1>3 DEF InterruptNative
  <2>2. /\ flight' \in Flight /\ flight'.pc = "finally" /\ flight'.kind = flight.kind
        /\ flight'.nat = flight.nat /\ flight'.err = flight.err
    BY <2>1, ToOK DEF Inv, Pcs
  <2>3. Throws' /\ Phases'
    BY <1>1, <1>2, <1>3, <2>1, <2>2 DEF Inv, Throws, Phases, At, WaitingHasItsHandle, Planning, Available, CanWait
  <2>4. Lives' /\ Actives' /\ Cancels'
    <3>1. Lives'
      BY <1>1, <1>2, <2>1, <2>2 DEF Inv, TypeOK, Lives, Expected, Available, At
    <3>2. Actives'
      BY <1>1, <1>2, <2>1, <2>2 DEF Inv, Actives, At
    <3>3. Cancels'
      BY <1>1, <1>2, <2>1, <2>2 DEF Inv, Throws, Cancels, Left, At
    <3> QED BY <3>1, <3>2, <3>3
  <2> QED BY <1>1, <1>2, <2>1, <2>2, <2>3, <2>4, InvGoesOn DEF Inv, TypeOK
<1>4. CASE CanWait /\ ~ok /\ ~flight.called
  <2>1. /\ rec' = Asking /\ input' = [kind |-> "native", turn |-> flight.nat] /\ flight' = NoFlight
        /\ UNCHANGED <<recov, active>>
    BY <1>4 DEF InterruptNative
  <2>2. input' \in Input /\ input'.kind = "native" /\ input'.turn = flight.nat
    BY <1>1, <2>1 DEF Input
  <2>3. flight.nat # 0 => active \in {0, flight.nat}
    BY DEF Inv, Actives
  <2> QED BY <1>1, <1>2, <1>4, <2>1, <2>2, <2>3, AskingOK, BusyOK, Nothing, InvEnds DEF Inv, TypeOK
<1>5. CASE CanWait /\ (ok \/ flight.called)
  <2>1. rec' = WaitingRecord /\ KeepRun(IF ok THEN 0 ELSE flight.nat) /\ UNCHANGED input
    BY <1>5 DEF InterruptNative
  <2>2. rec.phase = "planning" /\ (IF ok THEN 0 ELSE flight.nat) \in {0} \cup Slots
    BY <1>1, <1>5 DEF CanWait, Planning
  <2> QED BY <1>1, <1>2, <2>1, <2>2, KeepOK, BusyOK, Nothing, InvEnds DEF Inv, TypeOK
<1> QED BY <1>3, <1>4, <1>5

\* A call that goes on with its thread and a checkpoint it has moved.
LEMMA InvMovesOn ==
  ASSUME Inv, ~At("none"), cp.gen # 0, flight' \in Flight,
         flight'.pc \in {"ready", "starting", "accept"}, flight.nat = 0,
         flight'.kind = flight.kind, flight'.nat = flight.nat, flight'.err = flight.err,
         flight.err # "rejected", rec' = rec, rec.phase \in {"planning", "cancelled"},
         live' \subseteq live, active' \in {0, active},
         ~missed /\ Available => live' \subseteq {flight.nat},
         ~missed /\ ~down /\ rec.phase = "cancelled" => live' = {},
         UNCHANGED <<procVars, recov, input, pins, autos, round, missed, resumes, faults>>,
         replies' \in Nat, cp' \in Checkpoint, cp'.gen = cp.gen, Budget'
  PROVE  Inv'
<1>1. UNCHANGED <<stopped, gen, down>>
  BY DEF procVars
<1>2. TypeOK'
  BY <1>1 DEF Inv, TypeOK
<1>3. Books' /\ Counts' /\ Threads'
  <2>1. Books'
    BY DEF Inv, Books, OneHolder, At
  <2>2. Counts'
    BY <1>1 DEF Inv, Counts, At
  <2>3. Threads'
    BY <1>1 DEF Inv, Threads, At
  <2> QED BY <2>1, <2>2, <2>3
<1>4. Throws' /\ Phases'
  BY <1>1 DEF Inv, Throws, Phases, At, WaitingHasItsHandle, Planning
<1>5. Lives' /\ Actives' /\ Cancels'
  <2>1. Lives'
    BY <1>1 DEF Inv, Lives, Expected, Available, At
  <2>2. Actives'
    BY <1>1 DEF Inv, Actives, At
  <2>3. Cancels'
    BY <1>1 DEF Inv, Cancels, Left, At
  <2> QED BY <2>1, <2>2, <2>3
<1> QED BY <1>2, <1>3, <1>4, <1>5 DEF Inv

LEMMA InvTurnDone ==
  ASSUME Inv, TurnDone
  PROVE  Inv'
<1>1. /\ At("turn") /\ Available /\ active' \in {0, active} /\ live' = live \ {flight.turn}
      /\ flight.turn \in live
      /\ UNCHANGED <<rec, procVars, recov, input, pins, autos, round, missed, resumes, faults>>
  BY DEF TurnDone, Ended, Waited, Registered, NoFault
<1>2. /\ flight' \in Flight /\ flight'.pc \in {"ready", "accept"} /\ flight'.kind = flight.kind
      /\ flight'.nat = flight.nat /\ flight'.err = flight.err
  BY ToOK DEF TurnDone, Inv, Pcs
<1>3. /\ autos <= 1 /\ replies <= 1 /\ autos = cp.auto /\ (~cp.used => replies = 0)
      /\ cp.step = "completion" => cp.used /\ replies = 0
      /\ cp.text # "none" => cp.of = round
  BY <1>1, TurnOK DEF Inv, Budget
<1>4. /\ replies' \in Nat /\ cp' \in Checkpoint /\ cp'.gen = cp.gen /\ cp'.auto = cp.auto
      /\ cp'.used = cp.used /\ cp'.step # "completion" /\ (cp'.text # "none" => cp'.of = round)
      /\ replies' = IF cp.step = "completion" THEN replies + 1 ELSE replies
  <2>1. CASE ~Private
    <3>1. PICK text \in {"complete", "short"} :
             cp' = [cp EXCEPT !.text = text, !.of = round, !.conv = "none",
                              !.step = IF cp.step = "visible" THEN "conversion" ELSE "corrected"]
      BY <2>1 DEF TurnDone
    <3>2. replies' = IF cp.step = "completion" THEN replies + 1 ELSE replies
      BY <2>1 DEF TurnDone
    <3>3. round \in 0 .. MaxAnswers
      BY DEF Inv, TypeOK
    <3>4. /\ cp' \in Checkpoint /\ cp'.gen = cp.gen /\ cp'.auto = cp.auto
          /\ cp'.used = cp.used /\ cp'.step # "completion" /\ cp'.of = round
      BY <3>1, <3>3 DEF Inv, TypeOK, Checkpoint, Steps
    <3> QED BY <3>2, <3>4, NumbersOK DEF Inv
  <2>2. CASE Private
    <3>1. PICK conv \in {"ready", "input", "failed"} : cp' = [cp EXCEPT !.conv = conv, !.step = "finalizing"]
      BY <2>2 DEF TurnDone
    <3>2. replies' = replies /\ cp.step # "completion"
      BY <2>2 DEF TurnDone, Private
    <3>3. /\ cp' \in Checkpoint /\ cp'.gen = cp.gen /\ cp'.auto = cp.auto /\ cp'.text = cp.text
          /\ cp'.used = cp.used /\ cp'.step # "completion" /\ cp'.of = cp.of
      BY <3>1 DEF Inv, TypeOK, Checkpoint, Steps
    <3> QED BY <1>3, <3>2, <3>3, NumbersOK DEF Inv
  <2> QED BY <2>1, <2>2
<1>5. Budget'
  BY <1>1, <1>2, <1>3, <1>4 DEF Budget, At
<1>6. ~missed /\ ~down /\ rec.phase = "cancelled" => live' = {}
  BY <1>1, BusyOK, TurnOK DEF Inv, TypeOK, Slots, Cancels, Left, At
<1>7. ~missed => live' \subseteq {flight.nat}
  BY <1>1, TurnOK
<1> QED BY <1>1, <1>2, <1>4, <1>5, <1>6, <1>7, TurnOK, InvMovesOn

\* Where a call accepts what it has no turn is open.
LEMMA AcceptOK ==
  ASSUME Inv, At("accept")
  PROVE  /\ ~At("none") /\ cp.gen # 0 /\ flight.nat = 0 /\ rec.phase \in {"planning", "cancelled"}
         /\ flight.err # "rejected" /\ (~missed /\ Available => live = {})
         /\ ~missed /\ ~down /\ rec.phase = "cancelled" => live = {}
<1>1. /\ ~At("none") /\ cp.gen # 0 /\ flight.nat = 0 /\ rec.phase \in {"planning", "cancelled"}
      /\ flight.err # "rejected"
  BY DEF Inv, Threads, Throws, Phases, At
<1>2. ~missed /\ Available => live = {}
  BY <1>1 DEF Inv, TypeOK, Slots, Lives, Expected, At
<1>3. ~missed /\ ~down /\ rec.phase = "cancelled" => live = {}
  BY <1>1, BusyOK DEF Inv, TypeOK, Slots, Cancels, Left, At
<1> QED BY <1>1, <1>2, <1>3

LEMMA InvAccept ==
  ASSUME Inv, Accept
  PROVE  Inv'
<1>1. /\ At("accept")
      /\ UNCHANGED <<procVars, live, active, recov, pins, ghostVars, faults>>
  BY DEF Accept, NoFault
<1>2. UNCHANGED <<stopped, gen, down, autos, replies, round, missed, resumes>>
  BY <1>1 DEF procVars, ghostVars
\* It ends here: the call goes to its catch or its finally.
<1>3. ASSUME UNCHANGED <<cp, input>>, flight' \in Flight, flight'.kind = flight.kind, flight'.nat = flight.nat,
             \/ flight'.pc = "catch" /\ flight'.err = "fatal" /\ rec' = rec
             \/ /\ flight'.pc = "finally" /\ flight'.err = flight.err /\ rec' \in Record
                /\ \/ rec'.phase \in {"executing", "failed"}
                   \/ rec' = rec /\ rec.phase = "cancelled"
                   \/ rec'.phase = "waiting_input" /\ ~Available
      PROVE  Inv'
  <2>1. Throws' /\ Phases'
    BY <1>1, <1>2, <1>3, AcceptOK DEF Inv, Throws, Phases, At, WaitingHasItsHandle, Planning, Available
  <2>2. Lives' /\ Actives' /\ Cancels'
    <3>1. Lives'
      BY <1>1, <1>2, <1>3, AcceptOK DEF Inv, TypeOK, Lives, Expected, Available, At
    <3>2. Actives'
      BY <1>1, <1>2, <1>3, AcceptOK DEF Inv, Actives, At
    <3>3. Cancels'
      BY <1>1, <1>2, <1>3, AcceptOK DEF Inv, Cancels, Left, At
    <3> QED BY <3>1, <3>2, <3>3
  <2> QED BY <1>1, <1>2, <1>3, <2>1, <2>2, AcceptOK, InvGoesOn DEF Inv, TypeOK
<1>4. CASE rec.phase = "cancelled"
  <2>1. To("finally") /\ UNCHANGED <<rec, cp, input>>
    BY <1>4 DEF Accept, CanCommit, Planning
  <2> QED BY <1>3, <1>4, <2>1, ToOK DEF Inv, TypeOK, Pcs
<1>5. CASE rec.phase # "cancelled" /\ ~CanCommit
  <2>1. Throw("fatal") /\ UNCHANGED <<rec, cp, input>>
    BY <1>5 DEF Accept
  <2> QED BY <1>3, <2>1, ThrowOK DEF Inv
<1>6. CASE CanCommit /\ cp.step # "finalizing"
  <2>1. To("starting") /\ UNCHANGED <<rec, cp, input>>
    BY <1>6 DEF Accept, CanCommit, Planning
  <2>2. /\ flight' \in Flight /\ flight'.pc = "starting" /\ flight'.kind = flight.kind
        /\ flight'.nat = flight.nat /\ flight'.err = flight.err
    BY <2>1, ToOK DEF Inv, Pcs
  <2>3. replies' \in Nat /\ cp' \in Checkpoint /\ Budget'
    BY <1>2, <2>1, <2>2 DEF Inv, TypeOK, Budget, At
  <2> QED BY <1>1, <1>2, <2>1, <2>2, <2>3, AcceptOK, InvMovesOn
<1>7. CASE CanCommit /\ cp.step = "finalizing" /\ cp.conv = "input"
  <2>1. /\ rec' = Asking /\ UNCHANGED cp
        /\ IF Available THEN input' = [kind |-> "text", turn |-> 0] /\ flight' = NoFlight
           ELSE To("finally") /\ UNCHANGED input
    BY <1>7 DEF Accept, CanCommit, Planning
  <2>2. CASE Available
    <3>1. input' \in Input /\ input'.kind = "text" /\ input'.turn = 0 /\ flight' = NoFlight
      BY <2>1, <2>2 DEF Input
    <3>2. recov' = NoRun
      BY <1>1, AcceptOK, BusyOK
    <3> QED BY <1>1, <1>2, <2>1, <3>1, <3>2, AskingOK, AcceptOK, Nothing, InvEnds DEF Inv, TypeOK
  <2>3. CASE ~Available
    <3>1. To("finally") /\ UNCHANGED input
      BY <2>1, <2>3
    <3> QED BY <1>3, <2>1, <2>3, <3>1, ToOK, AskingOK DEF Inv, Pcs
  <2> QED BY <2>2, <2>3
<1>8. CASE CanCommit /\ cp.step = "finalizing" /\ cp.conv = "ready" /\ NeedsCompletion
  <2>1. cp' = [cp EXCEPT !.step = "completion", !.used = TRUE] /\ To("starting") /\ UNCHANGED <<rec, input>>
    BY <1>8 DEF Accept, CanCommit, Planning
  <2>2. /\ flight' \in Flight /\ flight'.pc = "starting" /\ flight'.kind = flight.kind
        /\ flight'.nat = flight.nat /\ flight'.err = flight.err
    BY <2>1, ToOK DEF Inv, Pcs
  <2>3. /\ cp' \in Checkpoint /\ cp'.gen = cp.gen /\ cp'.auto = cp.auto /\ cp'.used = TRUE
        /\ cp'.text = cp.text /\ cp'.of = cp.of
    BY <2>1 DEF Inv, TypeOK, Checkpoint, Steps
  <2>4. ~cp.used
    BY <1>8 DEF NeedsCompletion
  <2>5. replies' \in Nat /\ Budget'
    BY <1>1, <1>2, <2>2, <2>3, <2>4, AcceptOK DEF Inv, TypeOK, Budget, At
  <2> QED BY <1>1, <1>2, <2>1, <2>2, <2>3, <2>5, AcceptOK, InvMovesOn
<1>9. CASE /\ CanCommit /\ cp.step = "finalizing" /\ cp.conv # "input"
           /\ ~(cp.conv = "ready" /\ NeedsCompletion)
  <2>1. /\ rec' = IF cp.conv = "ready" /\ cp.text = "complete"
                  THEN [rec EXCEPT !.phase = "executing", !.proc = "none", !.retry = "none"]
                  ELSE [rec EXCEPT !.phase = "failed"]
        /\ To("finally") /\ UNCHANGED <<cp, input>>
    BY <1>9 DEF Accept, CanCommit, Planning
  <2>2. rec' \in Record /\ rec'.phase \in {"executing", "failed"}
    BY <2>1 DEF Inv, TypeOK, Record
  <2> QED BY <1>3, <2>1, <2>2, ToOK DEF Inv, Pcs
<1> QED BY <1>4, <1>5, <1>6, <1>7, <1>8, <1>9

\* A turn is started where none is open.
LEMMA InvStartTurn ==
  ASSUME Inv, StartTurn
  PROVE  Inv'
<1> DEFINE t == FreeSlot
<1>1. /\ flight.pc \in {"starting", "backoff"} /\ ~At("none") /\ cp.gen # 0 /\ Available /\ flight.nat = 0
      /\ rec.phase \in {"planning", "cancelled"} /\ flight.err # "rejected"
      /\ Register(t)
      /\ UNCHANGED <<rec, procVars, cp, recov, input, pins, autos, replies, round, resumes>>
  BY DEF StartTurn, Inv, Threads, Throws, Phases, At
<1>2. UNCHANGED <<stopped, gen, down>>
  BY <1>1 DEF procVars
<1>3. t \in Slots
  BY DEF FreeSlot, Slots
<1>4. /\ flight' \in Flight /\ flight'.pc = "turn" /\ flight'.turn = t /\ flight'.kind = flight.kind
      /\ flight'.nat = 0 /\ flight'.err = flight.err /\ flight'.abort = flight.abort
  BY <1>1, <1>3 DEF StartTurn, Inv, TypeOK, Flight
<1>5. ~missed => live = {}
  BY <1>1 DEF Inv, TypeOK, Slots, Lives, Expected, At
<1> HIDE DEF t
<1>6. /\ faults' \in 0 .. MaxFaults /\ faults' >= faults /\ missed' \in BOOLEAN /\ (missed => missed')
      /\ live' \subseteq Slots /\ active' \in {0, t} /\ live' \subseteq live \cup {t}
      /\ rec.phase # "cancelled" => active' = t
      /\ rec.phase = "cancelled" /\ ~missed' => live' = live
  <2>1. Fault \/ NoFault
    BY <1>1 DEF Register
  <2> QED BY <1>1, <1>3, <2>1, FaultsOK DEF Register, Inv, TypeOK
<1>7. TypeOK'
  BY <1>1, <1>2, <1>3, <1>4, <1>6 DEF Inv, TypeOK
<1>8. Books' /\ Counts' /\ Threads'
  <2>1. Books'
    BY <1>1, <1>4 DEF Inv, Books, OneHolder, At
  <2>2. Counts'
    BY <1>2, <1>4, <1>6, NumbersOK DEF Inv, Counts, At
  <2>3. Threads'
    BY <1>1, <1>2, <1>4 DEF Inv, Threads, Available, At
  <2> QED BY <2>1, <2>2, <2>3
<1>9. Throws' /\ Phases' /\ Budget'
  <2>1. Throws' /\ Phases'
    BY <1>1, <1>2, <1>4 DEF Inv, Throws, Phases, At, WaitingHasItsHandle
  <2>2. Budget'
    BY <1>1, <1>4 DEF Inv, Budget, At
  <2> QED BY <2>1, <2>2
<1>10. Lives' /\ Actives' /\ Cancels'
  <2>1. Lives'
    BY <1>3, <1>4, <1>5, <1>6 DEF Lives, Expected, At, Slots
  <2>2. Actives'
    BY <1>1, <1>4, <1>6, BusyOK DEF Inv, Actives, At
  <2>3. Cancels'
    BY <1>1, <1>2, <1>4, <1>5, <1>6 DEF Cancels, Left, At
  <2> QED BY <2>1, <2>2, <2>3
<1> QED BY <1>7, <1>8, <1>9, <1>10 DEF Inv

\* The answered turn is the call's turn from now on.
LEMMA InvAnswerTurn ==
  ASSUME Inv, AnswerTurn
  PROVE  Inv'
<1>1. /\ At("starting") /\ ~At("none") /\ cp.gen # 0 /\ Available /\ flight.nat # 0
      /\ rec.phase \in {"planning", "cancelled"} /\ flight.kind = "continue" /\ flight.err # "rejected"
      /\ UNCHANGED <<rec, procVars, live, active, cp, recov, input, pins, ghostVars, faults>>
  BY DEF AnswerTurn, NoFault, Inv, Threads, Throws, Phases, Actives, At
<1>2. UNCHANGED <<stopped, gen, down, autos, replies, round, missed, resumes>>
  BY <1>1 DEF procVars, ghostVars
<1>3. /\ flight' \in Flight /\ flight'.pc = "turn" /\ flight'.turn = flight.nat /\ flight'.kind = flight.kind
      /\ flight'.nat = 0 /\ flight'.err = flight.err
  BY DEF AnswerTurn, Inv, TypeOK, Flight
<1>4. Throws' /\ Phases'
  BY <1>1, <1>2, <1>3 DEF Inv, Throws, Phases, At, WaitingHasItsHandle, Planning
<1>5. Lives' /\ Actives' /\ Cancels'
  <2>1. Lives'
    BY <1>1, <1>2, <1>3 DEF Inv, Lives, Expected, Available, At
  <2>2. Actives'
    BY <1>1, <1>2, <1>3 DEF Inv, Actives, At
  <2>3. Cancels'
    BY <1>1, <1>2, <1>3 DEF Inv, Cancels, Left, At
  <2> QED BY <2>1, <2>2, <2>3
<1> QED BY <1>1, <1>2, <1>3, <1>4, <1>5, InvGoesOn DEF Inv, TypeOK

LEMMA InvCreateThread ==
  ASSUME Inv, CreateThread
  PROVE  Inv'
<1>1. /\ At("create") /\ ~At("none") /\ cp.gen = 0 /\ flight.nat = 0 /\ live = {}
      /\ rec.phase \in {"planning", "cancelled"} /\ autos = 0 /\ replies = 0 /\ flight.err # "rejected"
      /\ faults' \in 0 .. MaxFaults /\ faults' >= faults
      /\ UNCHANGED <<rec, procVars, live, active, recov, input, pins, ghostVars>>
  <2>1. Fault \/ NoFault
    BY DEF CreateThread
  <2> QED BY <2>1, FaultsOK DEF CreateThread, Inv, Threads, Throws, Phases, Budget, At
<1>2. UNCHANGED <<stopped, gen, down, autos, replies, round, missed, resumes>>
  BY <1>1 DEF procVars, ghostVars
<1>3. CASE To("ready") /\ cp' = [NoCheckpoint EXCEPT !.gen = gen]
  <2>1. /\ flight' \in Flight /\ flight'.pc = "ready" /\ flight'.kind = flight.kind
        /\ flight'.nat = flight.nat /\ flight'.err = flight.err
    BY <1>3, ToOK DEF Inv, Pcs
  <2>2. /\ cp' \in Checkpoint /\ cp'.gen = gen /\ cp'.auto = 0 /\ cp'.used = FALSE
        /\ cp'.step = "visible" /\ cp'.text = "none" /\ gen # 0
    <3>1. gen \in 0 .. MaxFaults + 1 /\ gen # 0
      BY NumbersOK DEF Inv, TypeOK
    <3>2. cp' = [gen |-> gen, step |-> "visible", auto |-> 0, used |-> FALSE, text |-> "none",
                 of |-> 0, conv |-> "none"]
      BY <1>3 DEF NoCheckpoint
    <3> QED BY <3>1, <3>2, BoundsAssumption DEF Checkpoint, Steps
  <2>3. TypeOK'
    BY <1>1, <1>2, <2>1, <2>2 DEF Inv, TypeOK
  <2>4. Books' /\ Counts' /\ Threads'
    <3>1. Books'
      BY <1>1, <2>1 DEF Inv, Books, OneHolder, At
    <3>2. Counts' /\ Threads'
      BY <1>1, <1>2, <2>1, <2>2, NumbersOK DEF Inv, Counts, Threads, At
    <3> QED BY <3>1, <3>2
  <2>5. Throws' /\ Phases' /\ Budget'
    BY <1>1, <1>2, <2>1, <2>2 DEF Inv, Throws, Phases, Budget, At, WaitingHasItsHandle
  <2>6. Lives' /\ Actives' /\ Cancels'
    BY <1>1, <1>2, <2>1 DEF Inv, Lives, Actives, Cancels, At
  <2> QED BY <2>3, <2>4, <2>5, <2>6 DEF Inv
<1>4. CASE Throw("fatal") /\ UNCHANGED cp
  <2>1. /\ flight' \in Flight /\ flight'.pc = "catch" /\ flight'.err = "fatal" /\ flight'.kind = flight.kind
        /\ flight'.nat = flight.nat
    BY <1>4, ThrowOK DEF Inv
  <2>2. Throws' /\ Phases'
    BY <1>1, <1>2, <1>4, <2>1 DEF Inv, Throws, Phases, At, WaitingHasItsHandle, Planning
  <2>3. Lives' /\ Actives' /\ Cancels'
    BY <1>1, <1>2, <2>1 DEF Inv, Lives, Actives, Cancels, At
  <2> QED BY <1>1, <1>2, <1>4, <2>1, <2>2, <2>3, InvGoesOn DEF Inv, TypeOK
<1> QED BY <1>3, <1>4 DEF CreateThread

LEMMA InvClaimAnswers ==
  ASSUME Inv, ClaimAnswers
  PROVE  Inv'
<1>1. /\ At("claimed") /\ flight.kind = "continue" /\ ~At("none") /\ cp.gen # 0
      /\ rec.phase \in {"waiting_input", "cancelled"} /\ round < MaxAnswers /\ flight.err # "rejected"
      /\ UNCHANGED <<procVars, live, active, recov, input, pins, autos, missed, resumes, faults>>
  BY DEF ClaimAnswers, NoFault, Inv, Threads, Throws, Phases, Counts, At
<1>2. UNCHANGED <<stopped, gen, down>>
  BY <1>1 DEF procVars
<1>3. CASE rec.phase = "waiting_input" /\ ~stopped
  <2>1. /\ rec' = [rec EXCEPT !.phase = "planning", !.proc = "running"]
        /\ cp' = [Cleared(cp) EXCEPT !.used = FALSE]
        /\ round' = round + 1 /\ replies' = 0 /\ To("ready")
    BY <1>3 DEF ClaimAnswers, ResetForAnswers
  <2>2. rec' \in Record /\ rec'.phase = "planning"
    BY <2>1 DEF Inv, TypeOK, Record
  <2>3. /\ cp' \in Checkpoint /\ cp'.gen = cp.gen /\ cp'.auto = cp.auto /\ cp'.used = FALSE
        /\ cp'.text = "none" /\ cp'.step = "visible"
    BY <2>1, ClearedOK DEF Inv, Checkpoint
  <2>4. /\ flight' \in Flight /\ flight'.pc = "ready" /\ flight'.kind = flight.kind
        /\ flight'.nat = flight.nat /\ flight'.err = flight.err
    BY <2>1, ToOK DEF Inv, Pcs
  <2>5. TypeOK'
    <3>1. round' \in 0 .. MaxAnswers
      BY <1>1, <2>1, NumbersOK DEF Inv
    <3> QED BY <1>1, <1>2, <2>1, <2>2, <2>3, <2>4, <3>1 DEF Inv, TypeOK
  <2>6. Books' /\ Counts' /\ Threads'
    <3>1. Books'
      BY <1>1, <2>4 DEF Inv, Books, OneHolder, At
    <3>2. Counts' /\ Threads'
      BY <1>1, <1>2, <2>3, <2>4 DEF Inv, Counts, Threads, At
    <3> QED BY <3>1, <3>2
  <2>7. Throws' /\ Phases' /\ Budget'
    BY <1>1, <1>2, <2>1, <2>2, <2>3, <2>4 DEF Inv, Throws, Phases, Budget, At, WaitingHasItsHandle
  <2>8. Lives' /\ Actives' /\ Cancels'
    <3>1. Lives'
      BY <1>1, <1>2, <2>3, <2>4 DEF Inv, Lives, Expected, Available, At
    <3>2. Actives' /\ Cancels'
      BY <1>1, <1>2, <2>2, <2>4 DEF Inv, Actives, Cancels, Left, At
    <3> QED BY <3>1, <3>2
  <2> QED BY <2>5, <2>6, <2>7, <2>8 DEF Inv
<1>4. CASE ~(rec.phase = "waiting_input" /\ ~stopped)
  <2>1. To("finally") /\ UNCHANGED <<rec, cp, round, replies>>
    BY <1>4 DEF ClaimAnswers
  <2>2. /\ flight' \in Flight /\ flight'.pc = "finally" /\ flight'.kind = flight.kind
        /\ flight'.nat = flight.nat /\ flight'.err = flight.err
    BY <2>1, ToOK DEF Inv, Pcs
  <2>3. Throws' /\ Phases'
    BY <1>1, <1>2, <1>4, <2>1, <2>2 DEF Inv, Throws, Phases, At, WaitingHasItsHandle
  <2>4. Lives' /\ Actives' /\ Cancels'
    <3>1. Lives'
      BY <1>1, <1>2, <2>1, <2>2 DEF Inv, TypeOK, Lives, Expected, Available, At
    <3>2. Actives' /\ Cancels'
      BY <1>1, <1>2, <2>1, <2>2 DEF Inv, Actives, Cancels, Left, At
    <3> QED BY <3>1, <3>2
  <2> QED BY <1>1, <1>2, <2>1, <2>2, <2>3, <2>4, InvGoesOn DEF Inv, TypeOK
<1> QED BY <1>3, <1>4

LEMMA InvStart ==
  ASSUME Inv, Start
  PROVE  Inv'
<1>1. /\ rec.phase = "none" /\ ~stopped /\ At("none") /\ cp.gen = 0 /\ live = {} /\ autos = 0 /\ replies = 0
      /\ recov = NoRun /\ input = NoInput
      /\ UNCHANGED <<procVars, live, active, cp, recov, input, ghostVars, faults>>
  BY DEF Start, NoFault, Inv, Threads, Phases
<1>2. UNCHANGED <<stopped, gen, down, autos, replies, round, missed, resumes>>
  BY <1>1 DEF procVars, ghostVars
<1>3. rec' \in Record /\ rec'.phase = "planning"
  BY DEF Start, Inv, TypeOK, Record
<1>4. /\ flight' \in Flight /\ flight'.pc = "create" /\ flight'.kind = "start" /\ flight'.nat = 0
      /\ flight'.err = "none"
  BY Nothing DEF Start, Flight
<1>5. pins' = 1
  BY <1>1 DEF Start, Inv, Books, OneHolder
<1>6. TypeOK'
  BY <1>1, <1>2, <1>3, <1>4, <1>5 DEF Inv, TypeOK
<1>7. Books' /\ Counts' /\ Threads'
  BY <1>1, <1>2, <1>4, <1>5 DEF Inv, Books, OneHolder, Counts, Threads, At
<1>8. Throws' /\ Phases' /\ Budget'
  BY <1>1, <1>2, <1>3, <1>4 DEF Inv, Throws, Phases, Budget, WaitingHasItsHandle, At
<1>9. Lives' /\ Actives' /\ Cancels'
  BY <1>1, <1>2, <1>4, Nothing DEF Lives, Actives, Cancels, At
<1> QED BY <1>6, <1>7, <1>8, <1>9 DEF Inv

\* What a call takes up again from a clarification or from a waiting run.
LEMMA InvTakesUp ==
  ASSUME Inv, At("none"), ~stopped, Available, cp.gen # 0, recov # NoRun \/ input # NoInput,
         flight' \in Flight, flight'.pc = "claimed", flight'.err = "none", flight'.abort = FALSE,
         \/ /\ flight'.kind = "continue" /\ rec.phase = "waiting_input" /\ round < MaxAnswers
            /\ flight'.nat = input.turn /\ live' = live /\ input # NoInput
         \/ /\ flight'.kind = "resume" /\ rec.phase = "planning" /\ flight'.nat = 0
            /\ recov # NoRun /\ live' = live \ {recov.intr},
         recov' = NoRun, input' = NoInput, resumes' \in 0 .. MaxResumes,
         UNCHANGED <<rec, procVars, active, cp, pins, autos, replies, round, missed, faults>>
  PROVE  Inv'
<1>1. UNCHANGED <<stopped, gen, down>>
  BY DEF procVars
<1>2. TypeOK'
  BY <1>1, Nothing DEF Inv, TypeOK
<1>3. Books' /\ Counts' /\ Threads'
  <2>1. Books'
    BY Nothing DEF Inv, Books, OneHolder, At
  <2>2. Counts' /\ Threads'
    BY <1>1 DEF Inv, Counts, Threads, At
  <2> QED BY <2>1, <2>2
<1>4. Throws' /\ Phases' /\ Budget'
  BY <1>1, Nothing DEF Inv, Throws, Phases, Budget, WaitingHasItsHandle, At
<1>5. recov # NoRun => input.turn = 0
  BY Nothing DEF Inv, Books
<1>6. input # NoInput => recov.intr = 0
  BY Nothing DEF Inv, Books
<1>7. Lives' /\ Actives' /\ Cancels'
  <2>1. Lives'
    BY <1>1, <1>5, <1>6 DEF Inv, TypeOK, Slots, Lives, Expected, Available, At
  <2>2. Actives'
    BY Nothing DEF Inv, Actives, At
  <2>3. Cancels'
    BY <1>1 DEF Cancels, At
  <2> QED BY <2>1, <2>2, <2>3
<1> QED BY <1>2, <1>3, <1>4, <1>7 DEF Inv

LEMMA InvContinue ==
  ASSUME Inv, Continue
  PROVE  Inv'
<1>1. /\ At("none") /\ ~stopped /\ rec.phase = "waiting_input" /\ round < MaxAnswers
      /\ input # NoInput /\ Available /\ input' = NoInput
      /\ UNCHANGED <<rec, procVars, live, active, cp, recov, pins, ghostVars, faults>>
  BY DEF Continue, NoFault
<1>2. recov = NoRun /\ cp.gen # 0
  BY <1>1 DEF Inv, Books, Threads
<1>3. /\ flight' \in Flight /\ flight'.pc = "claimed" /\ flight'.kind = "continue" /\ flight'.nat = input.turn
      /\ flight'.err = "none" /\ flight'.abort = FALSE
  BY Nothing DEF Continue, Flight, Inv, TypeOK, Input
<1> QED BY <1>1, <1>2, <1>3, InvTakesUp DEF ghostVars, Inv, TypeOK

LEMMA InvResume ==
  ASSUME Inv, Resume
  PROVE  Inv'
<1>1. /\ At("none") /\ ~stopped /\ rec.phase = "planning" /\ recov.kind = "continue" /\ Available
      /\ resumes' \in 0 .. MaxResumes
      /\ UNCHANGED <<rec, procVars, active, cp, input, pins, autos, replies, round, missed>>
  BY BoundsAssumption DEF Resume, Planning, Inv, TypeOK
<1>2. recov # NoRun /\ input = NoInput /\ cp.gen # 0
  BY <1>1, Nothing DEF Inv, Books, Threads
<1>3. CASE /\ recov' = NoRun /\ live' = live \ {recov.intr} /\ NoFault
           /\ flight' = [NoFlight EXCEPT !.pc = "claimed", !.kind = "resume"]
  <2>1. /\ flight' \in Flight /\ flight'.pc = "claimed" /\ flight'.kind = "resume" /\ flight'.nat = 0
        /\ flight'.err = "none" /\ flight'.abort = FALSE
    BY <1>3, Nothing DEF Flight
  <2> QED BY <1>1, <1>2, <1>3, <2>1, InvTakesUp DEF NoFault
<1>4. CASE Fault /\ UNCHANGED <<recov, live, flight>>
  <2>1. UNCHANGED <<stopped, gen, down>> /\ faults' \in 0 .. MaxFaults /\ faults' >= faults
    BY <1>1, <1>4, FaultsOK DEF procVars, Inv
  <2>2. TypeOK'
    BY <1>1, <1>4, <2>1 DEF Inv, TypeOK
  <2>3. Counts'
    BY <1>1, <1>4, <2>1, NumbersOK DEF Inv, Counts, At
  <2>4. Books' /\ Threads' /\ Throws' /\ Phases' /\ Budget'
    BY <1>1, <1>4, <2>1 DEF Inv, Books, OneHolder, Threads, Throws, Phases, Budget, At, Available,
                            WaitingHasItsHandle, Planning
  <2>5. Lives' /\ Actives' /\ Cancels'
    BY <1>1, <1>4, <2>1 DEF Inv, Lives, Expected, Actives, Cancels, Left, Signalled, At, Available
  <2> QED BY <2>2, <2>3, <2>4, <2>5 DEF Inv
<1> QED BY <1>3, <1>4 DEF Resume

\* The run is given up: its thread, its round and whatever held it.
LEMMA InvReleased ==
  ASSUME Inv, flight' \in Flight, flight'.pc = "none", flight'.nat = 0 \/ flight'.nat = flight.nat,
         flight'.nat # 0 => flight'.kind = flight.kind, flight'.err = "none" \/ (flight'.err = flight.err /\ At("none")),
         recov' = NoRun, input' = NoInput, cp' = NoCheckpoint, pins' = 0,
         active' \in {0, active}, live' \subseteq live, rec' \in Record, rec'.phase # "none",
         UNCHANGED <<gen, down, autos, replies, round, resumes>>, stopped' \in BOOLEAN,
         missed' \in BOOLEAN, missed => missed', faults' \in 0 .. MaxFaults, faults' >= faults,
         rec'.phase \in {"planning", "waiting_input"} =>
           stopped' \/ down \/ (gen # 1 /\ (missed' \/ live' = {})),
         rec'.phase = "cancelled" /\ ~missed' /\ ~down => live' = {}
  PROVE  Inv'
<1>1. TypeOK'
  BY Nothing DEF Inv, TypeOK
<1>2. Books' /\ Counts' /\ Threads'
  <2>1. Books'
    BY Nothing DEF Books, OneHolder, At
  <2>2. Counts'
    BY NumbersOK DEF Inv, Counts, At
  <2>3. Threads'
    BY NumbersOK, Nothing DEF Inv, Threads, At
  <2> QED BY <2>1, <2>2, <2>3
<1>3. Throws' /\ Phases' /\ Budget'
  <2>1. Throws' /\ Budget'
    BY Nothing DEF Inv, Throws, Budget, At
  <2>2. Phases'
    BY Nothing DEF Phases, WaitingHasItsHandle, Planning, At
  <2> QED BY <2>1, <2>2
<1>4. Lives' /\ Actives' /\ Cancels'
  <2>1. Lives'
    <3>1. ~Available'
      BY Nothing, NumbersOK DEF Available, Inv
    <3> QED BY <3>1 DEF Inv, Lives
  <2>2. Actives'
    BY Nothing DEF Inv, Actives, At
  <2>3. Cancels'
    BY DEF Cancels, Left, At
  <2> QED BY <2>1, <2>2, <2>3
<1> QED BY <1>1, <1>2, <1>3, <1>4 DEF Inv

LEMMA InvFinally ==
  ASSUME Inv, Finally
  PROVE  Inv'
<1>1. /\ At("finally") /\ ~At("none") /\ flight' = NoFlight /\ pins' = pins - 1
      /\ active' = 0 /\ recov' = NoRun /\ input' = NoInput /\ cp' = NoCheckpoint
      /\ UNCHANGED <<rec, procVars, live, ghostVars, faults>>
  BY DEF Finally, NoFault, At
<1>2. UNCHANGED <<stopped, gen, down, autos, replies, round, missed, resumes>>
  BY <1>1 DEF procVars, ghostVars
<1>3. rec.phase # "none" /\ pins' = 0
  BY <1>1, BusyOK DEF Inv, Phases
<1>4. rec.phase \in {"planning", "waiting_input"} => stopped \/ down \/ (gen # 1 /\ live = {})
  BY <1>1, NumbersOK DEF Inv, Phases, Threads, Available
<1>5. rec.phase = "cancelled" /\ ~missed /\ ~down => live = {}
  BY <1>1, BusyOK DEF Inv, TypeOK, Slots, Cancels, Left, Throws, At
<1> QED BY <1>1, <1>2, <1>3, <1>4, <1>5, Nothing, InvReleased DEF Inv, TypeOK

\* A terminated turn that is known to have ended leaves a failed or a cancelled run.
LEMMA TerminatedOK ==
  TypeOK => /\ Terminated \in Record /\ (Terminated.phase = rec.phase \/ Terminated.phase = "failed")
            /\ rec.retry = "cleanup" => Terminated.phase # "planning"
BY DEF TypeOK, Terminated, Record

LEMMA InvFinishCleanup ==
  ASSUME Inv, FinishCleanup
  PROVE  Inv'
<1>1. /\ At("none") /\ ~stopped /\ recov.kind = "cleanup" /\ (Available \/ Exited)
      /\ live' = live \ {recov.intr} /\ recov' = NoRun /\ active' = 0 /\ pins' = pins - 1
      /\ rec' = Terminated /\ cp' = NoCheckpoint
      /\ UNCHANGED <<procVars, flight, input, ghostVars, faults>>
  BY DEF FinishCleanup, NoFault
<1>2. UNCHANGED <<stopped, gen, down, autos, replies, round, missed, resumes>>
  BY <1>1 DEF procVars, ghostVars
<1>3. recov # NoRun /\ input = NoInput /\ pins' = 0 /\ cp.gen # 0 /\ rec.phase # "none"
  BY <1>1, Nothing DEF Inv, Books, OneHolder, Threads, Phases
<1>4. ~missed => live' = {}
  <2>1. CASE Available
    BY <1>1, <1>3, <2>1, Nothing DEF Inv, TypeOK, Slots, Lives, Expected, At
  <2>2. CASE Exited
    BY <1>1, <1>3, <2>2, NumbersOK DEF Inv, Threads, Exited
  <2> QED BY <1>1, <2>1, <2>2
<1>5. rec'.phase \in {"planning", "waiting_input"} => down \/ gen # 1
  <2>1. CASE ~down /\ gen = 1
    BY <1>1, <1>3, <2>1, TerminatedOK DEF Inv, Phases, WaitingHasItsHandle, Planning
  <2> QED BY <2>1
<1>6. rec' \in Record /\ rec'.phase # "none"
  BY <1>1, <1>3, TerminatedOK DEF Inv
<1> QED BY <1>1, <1>2, <1>3, <1>4, <1>5, <1>6, InvReleased DEF Inv, TypeOK, At


\* A teardown takes what is held with its round, or leaves it as it is.
LEMMA TeardownOK ==
  ASSUME Inv, NEW ok \in BOOLEAN, Teardown(ok)
  PROVE  /\ live' \subseteq live /\ active' \in {0, active}
         /\ faults' \in 0 .. MaxFaults /\ faults' >= faults
         /\ Takes \/ Over(ok) => /\ At("none") /\ cp.gen # 0 /\ pins' = 0
                                 /\ recov' = NoRun /\ input' = NoInput /\ cp' = NoCheckpoint
         /\ ~(Takes \/ Over(ok)) => UNCHANGED <<active, recov, input, cp, pins>>
<1>1. faults' \in 0 .. MaxFaults /\ faults' >= faults
  BY FaultsOK DEF Teardown, Inv
<1>2. live' \subseteq live /\ active' \in {0, active}
  BY DEF Teardown
<1>3. ASSUME Takes \/ Over(ok)
      PROVE  /\ At("none") /\ cp.gen # 0 /\ pins' = 0
             /\ recov' = NoRun /\ input' = NoInput /\ cp' = NoCheckpoint
  <2>1. recov' = NoRun /\ input' = NoInput /\ cp' = NoCheckpoint /\ pins' = pins - 1
    BY <1>3 DEF Teardown
  <2>2. recov # NoRun \/ input # NoInput
    BY <1>3, Nothing DEF Takes, Over
  <2>3. At("none") /\ cp.gen # 0
    BY <2>2 DEF Inv, Books, Threads
  <2>4. pins = 1
    BY <2>2, <2>3 DEF Inv, Books, OneHolder
  <2> QED BY <2>1, <2>3, <2>4
<1>4. ~(Takes \/ Over(ok)) => UNCHANGED <<active, recov, input, cp, pins>>
  BY DEF Teardown
<1> QED BY <1>1, <1>2, <1>3, <1>4

\* A waiting run whose cleanup is confirmed has no turn left.
LEMMA OverLeavesNothing ==
  ASSUME Inv, NEW ok \in BOOLEAN, Teardown(ok), Over(ok), rec.phase = "cancelled", ~missed, ~down
  PROVE  live' = {}
<1>1. At("none") /\ cp.gen # 0 /\ ok /\ (Available \/ Exited)
  BY TeardownOK DEF Over
<1>2. live \subseteq {recov.intr} /\ input = NoInput /\ Target = recov.intr
  BY <1>1 DEF Inv, Cancels, Left, Phases, Throws, Target, At
<1>3. CASE Available
  BY <1>1, <1>2, <1>3 DEF Teardown, Inv, TypeOK, Slots
<1>4. CASE Exited
  <2>1. cp.gen # gen
    BY <1>4, NumbersOK DEF Exited, Inv
  <2>2. live = {}
    BY <1>1, <2>1 DEF Inv, Threads
  <2> QED BY <2>2, TeardownOK
<1> QED BY <1>1, <1>3, <1>4

LEMMA InvStopping ==
  ASSUME Inv, NEW ok \in BOOLEAN, Teardown(ok), rec' = IF Over(ok) THEN Terminated ELSE rec,
         rec.phase # "none", stopped' = TRUE, UNCHANGED <<gen, down, flight, ghostVars>>
  PROVE  Inv'
<1>1. UNCHANGED <<autos, replies, round, missed, resumes>>
  BY DEF ghostVars
<1>2. rec' \in Record /\ (rec'.phase = rec.phase \/ rec'.phase = "failed")
  BY TerminatedOK DEF Inv, TypeOK
<1>3. CASE Takes \/ Over(ok)
  <2>1. /\ At("none") /\ cp.gen # 0 /\ pins' = 0 /\ recov' = NoRun /\ input' = NoInput /\ cp' = NoCheckpoint
        /\ live' \subseteq live /\ active' \in {0, active}
        /\ faults' \in 0 .. MaxFaults /\ faults' >= faults
    BY <1>3, TeardownOK
  <2>2. rec'.phase = "cancelled" /\ ~missed' /\ ~down => live' = {}
    <3>1. rec.phase = "cancelled" => Over(ok)
      BY <1>3 DEF Takes, Inv, Phases
    <3> QED BY <1>1, <1>2, <3>1, OverLeavesNothing
  <2> QED BY <1>1, <1>2, <2>1, <2>2, InvReleased DEF Inv, TypeOK, At
<1>4. CASE ~(Takes \/ Over(ok))
  <2>1. /\ UNCHANGED <<active, recov, input, cp, pins, rec>> /\ live' \subseteq live
        /\ faults' \in 0 .. MaxFaults /\ faults' >= faults
    BY <1>4, TeardownOK
  <2>2. TypeOK'
    BY <1>1, <2>1 DEF Inv, TypeOK
  <2>3. Books' /\ Counts' /\ Threads'
    <3>1. Books' /\ Counts'
      BY <1>1, <2>1, NumbersOK DEF Inv, Books, OneHolder, Counts, At
    <3>2. Threads'
      BY <1>1, <2>1 DEF Inv, Threads, At
    <3> QED BY <3>1, <3>2
  <2>4. Throws' /\ Phases' /\ Budget'
    BY <1>1, <2>1 DEF Inv, Throws, Phases, Budget, WaitingHasItsHandle, At
  <2>5. Lives' /\ Actives' /\ Cancels'
    BY <1>1, <2>1 DEF Inv, Lives, Expected, Available, Actives, Cancels, Left, Signalled, At
  <2> QED BY <2>2, <2>3, <2>4, <2>5 DEF Inv
<1> QED BY <1>3, <1>4

LEMMA InvStop ==
  ASSUME Inv, Stop
  PROVE  Inv'
BY InvStopping DEF Stop

LEMMA InvSweep ==
  ASSUME Inv, Sweep
  PROVE  Inv'
<1>1. rec.phase # "none" /\ stopped' = TRUE /\ UNCHANGED <<gen, down>>
  BY DEF Sweep, Inv, TypeOK, Phases, Threads, procVars
<1> QED BY <1>1, InvStopping DEF Sweep

\* The record of a cancel.
LEMMA CancelledOK ==
  TypeOK => /\ Cancelled \in Record /\ Cancelled.phase = "cancelled"
            /\ [Cancelled EXCEPT !.retry = "none"] \in Record
            /\ [Cancelled EXCEPT !.retry = "none"].phase = "cancelled"
BY DEF TypeOK, Cancelled, Record

\* Nothing was held: the turn of a call is interrupted, or its wait is told.
LEMMA InvCancelActive ==
  ASSUME Inv, ~stopped, ~At("catch"), rec.phase \in {"planning", "waiting_input", "cancelled"},
         rec.phase = "cancelled" => recov # NoRun,
         NEW ok \in BOOLEAN, Teardown(ok), ~(Takes \/ Over(ok)),
         missed' = (missed \/ ~(ok /\ (Available \/ cp.gen = 0)) \/ Unaddressed),
         rec' \in Record, rec'.phase = "cancelled",
         flight' = [flight EXCEPT !.abort = (flight.abort \/ (~At("none") /\ flight.kind # "start"))],
         UNCHANGED <<stopped, gen, down, autos, replies, round, resumes>>
  PROVE  Inv'
<1>1. /\ UNCHANGED <<active, recov, input, cp, pins>> /\ live' \subseteq live
      /\ faults' \in 0 .. MaxFaults /\ faults' >= faults
  BY TeardownOK
<1>2. /\ flight' \in Flight /\ flight'.pc = flight.pc /\ flight'.kind = flight.kind
      /\ flight'.turn = flight.turn /\ flight'.nat = flight.nat /\ flight'.err = flight.err
      /\ flight'.abort = (flight.abort \/ (~At("none") /\ flight.kind # "start"))
  BY DEF Inv, TypeOK, Flight
<1>3. missed' \in BOOLEAN
  BY DEF Inv, TypeOK
<1>4. input = NoInput /\ recov.kind # "continue"
  BY DEF Takes
<1>5. TypeOK'
  BY <1>1, <1>2, <1>3 DEF Inv, TypeOK
<1>6. Books' /\ Counts' /\ Threads'
  <2>1. Books' /\ Counts'
    BY <1>1, <1>2, NumbersOK DEF Inv, Books, OneHolder, Counts, At
  <2>2. Threads'
    BY <1>1, <1>2 DEF Inv, Threads, At
  <2> QED BY <2>1, <2>2
<1>7. Throws' /\ Phases' /\ Budget'
  BY <1>1, <1>2, <1>4 DEF Inv, Throws, Phases, Budget, WaitingHasItsHandle, Planning, At
<1>8. Lives' /\ Actives'
  BY <1>1, <1>2 DEF Inv, Lives, Expected, Available, Actives, At
<1>9. Cancels'
  <2> SUFFICES ASSUME ~missed', ~down
               PROVE  live' \subseteq Left'
    BY DEF Cancels
  <2>1. ok /\ (Available \/ cp.gen = 0) /\ ~Unaddressed /\ ~missed
    OBVIOUS
  <2>2. CASE cp.gen = 0
    <3>1. recov = NoRun /\ rec.phase \in {"planning", "waiting_input"}
      BY <2>2 DEF Inv, Threads
    <3>2. live = {}
      BY <1>4, <2>1, <2>2, <3>1 DEF Inv, Threads, Cancels
    <3> QED BY <1>1, <3>2
  <2>3. CASE Available /\ cp.gen # 0
    <3>1. ~At("none")
      <4>1. CASE At("none")
        <5>1. recov # NoRun
          BY <1>4, <2>3, <4>1 DEF Inv, Threads
        <5>2. recov.kind = "cleanup"
          BY <1>4, <5>1 DEF Inv, Books, TypeOK, Run
        <5> QED BY <2>1, <2>3, <5>2 DEF Over
      <4> QED BY <4>1
    <3>2. recov = NoRun /\ recov.intr = 0 /\ Target = 0
      BY <1>4, <3>1, BusyOK DEF Target
    <3>3. live' = live \ {active} /\ live \subseteq Expected
      BY <2>1, <2>3, <3>2 DEF Teardown, Inv, Lives
    <3>4. rec.phase \in {"planning", "waiting_input"} /\ ~At("finally")
      BY <2>3, <3>2 DEF Inv, Phases
    <3>5. CASE At("turn")
      <4>1. live \subseteq {flight.turn}
        BY <3>3, <3>5 DEF Expected, At
      <4>2. CASE flight.kind = "start"
        BY <3>3, <3>4, <3>5, <4>1, <4>2 DEF Inv, Actives
      <4>3. CASE flight.kind # "start"
        BY <1>1, <1>2, <3>5, <4>1, <4>3 DEF Left, Signalled, At
      <4> QED BY <4>2, <4>3
    <3>6. CASE ~At("turn")
      <4>1. live \subseteq {flight.nat}
        BY <3>1, <3>3, <3>4, <3>6 DEF Expected, At
      <4>2. flight.nat # 0 => active = flight.nat
        BY <2>1 DEF Inv, Actives, Unaddressed
      <4> QED BY <3>3, <4>1, <4>2 DEF Inv, TypeOK, Slots
    <3> QED BY <3>5, <3>6
  <2> QED BY <2>1, <2>2, <2>3
<1> QED BY <1>5, <1>6, <1>7, <1>8, <1>9 DEF Inv

LEMMA InvCancel ==
  ASSUME Inv, Cancel
  PROVE  Inv'
<1>1. /\ ~stopped /\ ~At("catch") /\ rec.phase \in {"planning", "waiting_input", "cancelled"}
      /\ rec.phase = "cancelled" => recov # NoRun
      /\ flight' = [flight EXCEPT !.abort = (flight.abort \/ (~At("none") /\ flight.kind # "start"))]
      /\ UNCHANGED <<stopped, gen, down, autos, replies, round, resumes>>
  BY DEF Cancel, procVars
<1>2. PICK ok \in BOOLEAN :
        /\ Teardown(ok) /\ missed' = (missed \/ ~(ok /\ (Available \/ cp.gen = 0)) \/ Unaddressed)
        /\ rec' = IF Over(ok) /\ Cancelled.retry = "cleanup"
                  THEN [Cancelled EXCEPT !.retry = "none"] ELSE Cancelled
  BY DEF Cancel
<1>3. rec' \in Record /\ rec'.phase = "cancelled"
  BY <1>2, CancelledOK DEF Inv
<1>4. CASE Takes \/ Over(ok)
  <2>1. /\ At("none") /\ cp.gen # 0 /\ pins' = 0 /\ recov' = NoRun /\ input' = NoInput /\ cp' = NoCheckpoint
        /\ live' \subseteq live /\ active' \in {0, active}
        /\ faults' \in 0 .. MaxFaults /\ faults' >= faults
    BY <1>2, <1>4, TeardownOK
  <2>2. /\ flight' \in Flight /\ flight'.pc = "none" /\ flight'.nat = flight.nat
        /\ flight'.kind = flight.kind /\ flight'.err = flight.err
    BY <1>1, <2>1 DEF Inv, TypeOK, Flight, At
  <2>3. ~missed' /\ ~down => live' = {}
    <3> SUFFICES ASSUME ~missed', ~down
                 PROVE  live' = {}
      OBVIOUS
    <3>1. ok /\ Available /\ ~missed
      BY <1>2, <2>1
    <3>2. live \subseteq {recov.intr, input.turn}
      BY <2>1, <3>1 DEF Inv, Lives, Expected, At
    <3>3. live \subseteq {0, Target}
      BY <3>2, Nothing DEF Target, Inv, Books
    <3>4. 0 \notin live
      BY DEF Inv, TypeOK, Slots
    <3>5. live' = IF Target # 0 THEN live \ {Target} ELSE live \ {active}
      BY <1>2, <1>4, <3>1 DEF Teardown
    <3> QED BY <3>3, <3>4, <3>5
  <2>4. missed' \in BOOLEAN /\ (missed => missed')
    BY <1>2 DEF Inv, TypeOK
  <2> QED BY <1>1, <1>3, <2>1, <2>2, <2>3, <2>4, InvReleased DEF Inv, TypeOK
<1>5. CASE ~(Takes \/ Over(ok))
  BY <1>1, <1>2, <1>3, <1>5, InvCancelActive
<1> QED BY <1>4, <1>5

LEMMA InvServerLost ==
  ASSUME Inv, ServerLost
  PROVE  Inv'
<1>1. /\ ~down /\ down' = TRUE /\ faults' = faults + 1 /\ faults' \in 0 .. MaxFaults
      /\ UNCHANGED <<rec, stopped, gen, live, active, flight, cp, recov, input, pins, ghostVars>>
  BY FaultsOK DEF ServerLost, Fault, Inv
<1>2. UNCHANGED <<autos, replies, round, missed, resumes>>
  BY <1>1 DEF ghostVars
<1>3. TypeOK'
  BY <1>1, <1>2 DEF Inv, TypeOK
<1>4. Books' /\ Counts' /\ Threads'
  BY <1>1, <1>2, NumbersOK DEF Inv, Books, OneHolder, Counts, Threads, At
<1>5. Throws' /\ Phases' /\ Budget'
  BY <1>1, <1>2 DEF Inv, Throws, Phases, Budget, WaitingHasItsHandle, At, Available
<1>6. Lives' /\ Actives' /\ Cancels'
  BY <1>1, <1>2 DEF Inv, Lives, Available, Actives, Cancels, At
<1> QED BY <1>3, <1>4, <1>5, <1>6 DEF Inv

LEMMA InvTreeGone ==
  ASSUME Inv, TreeGone
  PROVE  Inv'
<1>1. /\ down /\ down' = FALSE /\ gen' = gen + 1 /\ live' = {} /\ faults' = faults
      /\ UNCHANGED <<rec, stopped, active, flight, cp, recov, input, pins, ghostVars>>
  BY DEF TreeGone, NoFault
<1>2. UNCHANGED <<autos, replies, round, missed, resumes>>
  BY <1>1 DEF ghostVars
<1>3. gen' <= faults + 1 /\ gen' \in 1 .. MaxFaults + 1
  BY <1>1, NumbersOK DEF Inv, Counts
<1>4. TypeOK'
  BY <1>1, <1>2, <1>3 DEF Inv, TypeOK
<1>5. Books' /\ Counts' /\ Threads'
  BY <1>1, <1>2, <1>3, NumbersOK DEF Inv, Books, OneHolder, Counts, Threads, At
<1>6. ~Available' /\ gen' # 1
  BY <1>1, NumbersOK DEF Inv, Threads, Available
<1>7. Throws' /\ Phases' /\ Budget'
  BY <1>1, <1>2, <1>6 DEF Inv, Throws, Phases, Budget, WaitingHasItsHandle, At
<1>8. Lives' /\ Actives' /\ Cancels'
  BY <1>1, <1>2 DEF Inv, Lives, Actives, Cancels, At
<1> QED BY <1>4, <1>5, <1>7, <1>8 DEF Inv

LEMMA InvCallerAborts ==
  ASSUME Inv, CallerAborts
  PROVE  Inv'
<1>1. /\ ~At("none") /\ ~At("catch") /\ faults' \in 0 .. MaxFaults /\ faults' >= faults
      /\ flight' = [flight EXCEPT !.abort = TRUE]
      /\ UNCHANGED <<rec, procVars, live, active, cp, recov, input, pins, ghostVars>>
  BY FaultsOK DEF CallerAborts, Inv
<1>2. UNCHANGED <<stopped, gen, down, autos, replies, round, missed, resumes>>
  BY <1>1 DEF procVars, ghostVars
<1>3. /\ flight' \in Flight /\ flight'.pc = flight.pc /\ flight'.kind = flight.kind
      /\ flight'.turn = flight.turn /\ flight'.nat = flight.nat /\ flight'.err = flight.err
      /\ flight'.abort = TRUE
  BY <1>1 DEF Inv, TypeOK, Flight
<1>4. TypeOK'
  BY <1>1, <1>2, <1>3 DEF Inv, TypeOK
<1>5. Books' /\ Counts' /\ Threads'
  BY <1>1, <1>2, <1>3, NumbersOK DEF Inv, Books, OneHolder, Counts, Threads, At
<1>6. Throws' /\ Phases' /\ Budget'
  BY <1>1, <1>2, <1>3 DEF Inv, Throws, Phases, Budget, WaitingHasItsHandle, Available, Planning, At
<1>7. Lives' /\ Actives' /\ Cancels'
  BY <1>1, <1>2, <1>3 DEF Inv, Lives, Expected, Available, Actives, Cancels, Left, Signalled, At
<1> QED BY <1>4, <1>5, <1>6, <1>7 DEF Inv

LEMMA InvInit == Init => Inv
<1> SUFFICES ASSUME Init
             PROVE  Inv
  OBVIOUS
<1>1. TypeOK
  <2>1. rec \in Record
    BY DEF Init, Record
  <2>2. /\ gen \in 1 .. MaxFaults + 1 /\ round \in 0 .. MaxAnswers /\ resumes \in 0 .. MaxResumes
        /\ faults \in 0 .. MaxFaults /\ pins \in Nat /\ autos \in Nat /\ replies \in Nat
    BY BoundsAssumption DEF Init
  <2>3. flight \in Flight /\ cp \in Checkpoint /\ recov \in Run /\ input \in Input
    BY Nothing DEF Init
  <2> QED BY <2>1, <2>2, <2>3 DEF Init, TypeOK
<1>2. Books /\ Counts /\ Threads /\ Throws
  BY Nothing DEF Init, Books, OneHolder, Counts, Threads, Throws, At
<1>3. Phases /\ Budget
  BY Nothing DEF Init, Phases, Budget, WaitingHasItsHandle, Planning, At
<1>4. Lives /\ Actives /\ Cancels
  BY Nothing DEF Init, Lives, Actives, Cancels, At
<1> QED BY <1>1, <1>2, <1>3, <1>4 DEF Inv

\* The steps of a call.
LEMMA InvWorks ==
  ASSUME Inv, Works
  PROVE  Inv'
<1>1. CASE CreateThread \/ ClaimAnswers \/ ClaimRun \/ Ready \/ StartTurn \/ AnswerTurn \/ StartFails
  BY <1>1, InvCreateThread, InvClaimAnswers, InvClaimRun, InvReady, InvStartTurn, InvAnswerTurn, InvStartFails
<1>2. CASE TurnEnds
  BY <1>2, InvTurnDone, InvTurnUnusable, InvTurnFails, InvTurnTransient, InvTurnInterrupted,
     InvTurnLost, InvTurnAsks DEF TurnEnds
<1>3. CASE Accept
  BY <1>3, InvAccept
<1>4. CASE CatchRejected \/ CatchCancelled \/ CatchWaits \/ CatchFails
  BY <1>4, InvCatchRejected, InvCatchCancelled, InvCatchWaits, InvCatchFails
<1>5. CASE \E ok \in BOOLEAN : InterruptNative(ok)
  BY <1>5, InvInterruptNative
<1>6. CASE Finally
  BY <1>6, InvFinally
<1> QED BY <1>1, <1>2, <1>3, <1>4, <1>5, <1>6 DEF Works

LEMMA InvStep == Inv /\ [Next]_vars => Inv'
<1> SUFFICES ASSUME Inv, [Next]_vars
             PROVE  Inv'
  OBVIOUS
<1>1. CASE Start \/ Continue \/ Resume \/ FinishCleanup
  BY <1>1, InvStart, InvContinue, InvResume, InvFinishCleanup
<1>2. CASE Works
  BY <1>2, InvWorks
<1>3. CASE Cancel \/ Stop \/ Sweep
  BY <1>3, InvCancel, InvStop, InvSweep
<1>4. CASE ServerLost \/ TreeGone \/ CallerAborts
  BY <1>4, InvServerLost, InvTreeGone, InvCallerAborts
<1>5. CASE UNCHANGED vars
  <2>1. UNCHANGED <<rec, stopped, gen, down, live, active, flight, cp, recov, input, pins, autos,
                    replies, round, missed, resumes, faults>>
    BY <1>5 DEF vars, procVars, ghostVars
  <2>2. TypeOK' /\ Books' /\ Counts' /\ Threads' /\ Throws' /\ Budget'
    BY <2>1 DEF Inv, TypeOK, Books, OneHolder, Counts, Threads, Throws, Budget, At
  <2>3. Phases' /\ Lives' /\ Actives' /\ Cancels'
    BY <2>1 DEF Inv, Phases, WaitingHasItsHandle, Planning, Available, Lives, Expected, Actives,
                Cancels, Left, Signalled, At
  <2> QED BY <2>2, <2>3 DEF Inv
<1> QED BY <1>1, <1>2, <1>3, <1>4, <1>5 DEF Next

\* The run has one holder, its thread the turns that the place of its call allows,
\* and a cancelled one no turn that was not told to end (planner-execution.ts).
THEOREM InvInvariant == Spec => []Inv
BY InvInit, InvStep, PTL DEF Spec

----------------------------------------------------------------------------
\* Two turns never run on the Planner's thread, unless one was left that nothing in
\* this process could interrupt (runTurnWithContinuation, continuePlannerTurn).
THEOREM OnePlannerTurnInvariant == Spec => []OnePlannerTurn
<1>1. ASSUME Inv
      PROVE  OneTurn
  <2> SUFFICES ASSUME ~missed
               PROVE  Cardinality(live) <= 1
    BY DEF OneTurn
  <2>1. live = {} \/ live = {1} \/ live = {2}
    BY <1>1 DEF Inv, TypeOK, Slots, Lives
  <2>2. Cardinality({}) = 0 /\ Cardinality({1}) = 1 /\ Cardinality({2}) = 1
    BY FS_EmptySet, FS_Singleton
  <2> QED BY <2>1, <2>2
<1>2. Inv => OnePlannerTurn
  BY <1>1 DEF OnePlannerTurn, Inv
<1> QED BY <1>2, InvInvariant, PTL

\* A record that waits has what it waits for, and a round of the App Server's use has
\* one owner (waitForContinuation, plannerInputs, recoverableRuns, beginRound, endRound).
THEOREM WaitingIsHeldOnceInvariant == Spec => []WaitingIsHeldOnce
<1>1. Inv => WaitingIsHeldOnce
  BY DEF Inv, Phases, Books, WaitingIsHeldOnce
<1> QED BY <1>1, InvInvariant, PTL

\* However often a run is continued, it has one automatic continuation, and one
\* completion until new answers come (resetPlannerCheckpointForAnswers).
THEOREM BudgetsHoldInvariant == Spec => []BudgetsHold
<1>1. Inv => BudgetsHold
  BY DEF Inv, Budget, BudgetsHold, OneAutomaticContinuation, OneCompletion
<1> QED BY <1>1, InvInvariant, PTL

\* A cancelled workflow leaves no turn behind that an interrupt could have ended
\* (cancel, takeRetainedRun, registerActiveTurn and the waits a cancel aborts).
THEOREM CancelStopsTheTurnInvariant == Spec => []CancelStopsTheTurn
<1>1. ASSUME Inv, rec.phase = "cancelled", recov = NoRun, ~missed, ~down,
             flight.err # "rejected", ~(At("turn") /\ Signalled)
      PROVE  live = {}
  <2>1. recov.intr = 0 /\ live \subseteq Left
    BY <1>1, Nothing DEF Inv, Cancels
  <2>2. Left = {0}
    BY <1>1, <2>1 DEF Left
  <2> QED BY <1>1, <2>1, <2>2 DEF Inv, TypeOK, Slots
<1>2. Inv => CancelStopsTheTurn
  BY <1>1 DEF CancelStopsTheTurn
<1> QED BY <1>2, InvInvariant, PTL

----------------------------------------------------------------------------
\* Only the commit of acceptPlannerOutcome begins the execution.
LEMMA OnlyAcceptExecutes ==
  ASSUME TypeOK, [Next]_vars, rec'.phase = "executing", rec.phase # "executing"
  PROVE  Accept
<1> SUFFICES ASSUME ~Accept
             PROVE  FALSE
  OBVIOUS
<1>1. ~UNCHANGED rec
  OBVIOUS
<1>2. ~(Start \/ Continue \/ Resume \/ CreateThread \/ ClaimAnswers \/ ClaimRun)
  <2>1. ~(Start \/ ClaimAnswers)
    BY DEF Start, ClaimAnswers, TypeOK, Record
  <2>2. ~(Continue \/ Resume \/ CreateThread)
    BY <1>1 DEF Continue, Resume, CreateThread
  <2>3. ~ClaimRun
    BY <1>1 DEF ClaimRun, TypeOK, Record
  <2> QED BY <2>1, <2>2, <2>3
<1>3. ~(Ready \/ StartTurn \/ AnswerTurn \/ StartFails \/ Finally)
  BY <1>1 DEF Ready, StartTurn, AnswerTurn, StartFails, Finally
<1>4. ~TurnEnds
  <2>1. ~(TurnDone \/ TurnTransient \/ TurnInterrupted \/ TurnLost)
    BY <1>1 DEF TurnDone, TurnTransient, TurnInterrupted, TurnLost
  <2>2. ~TurnUnusable
    BY <1>1 DEF TurnUnusable, TypeOK, Record
  <2>3. ~TurnFails
    BY <1>1 DEF TurnFails, WaitingRecord, TypeOK, Record
  <2>4. ~TurnAsks
    BY <1>1 DEF TurnAsks, Asking, TypeOK, Record
  <2> QED BY <2>1, <2>2, <2>3, <2>4 DEF TurnEnds
<1>5. ~(CatchRejected \/ CatchCancelled \/ CatchWaits \/ CatchFails)
  <2>1. ~CatchRejected
    BY <1>1 DEF CatchRejected, TypeOK, Record
  <2>2. ~CatchCancelled
    BY <1>1 DEF CatchCancelled, TypeOK, Record
  <2>3. ~CatchWaits
    BY <1>1 DEF CatchWaits, WaitingRecord, TypeOK, Record
  <2>4. ~CatchFails
    BY <1>1 DEF CatchFails, TypeOK, Record
  <2> QED BY <2>1, <2>2, <2>3, <2>4
<1>6. ~\E ok \in BOOLEAN : InterruptNative(ok)
  BY <1>1 DEF InterruptNative, Asking, WaitingRecord, TypeOK, Record
<1>7. ~(FinishCleanup \/ Cancel \/ Stop \/ Sweep)
  <2>1. ~(FinishCleanup \/ Stop \/ Sweep)
    BY <1>1, TerminatedOK DEF FinishCleanup, Stop, Sweep
  <2>2. ~Cancel
    BY CancelledOK DEF Cancel
  <2> QED BY <2>1, <2>2
<1>8. ~(ServerLost \/ TreeGone \/ CallerAborts) /\ ~UNCHANGED vars
  BY <1>1 DEF ServerLost, TreeGone, CallerAborts, vars
<1> QED BY <1>2, <1>3, <1>4, <1>5, <1>6, <1>7, <1>8 DEF Next, Works

\* A plan is accepted from the complete reply to the last answers, after its
\* conversion, by a call whose caller and manager are still there (assertPlannerCommit).
THEOREM PlanIsCurrentHolds == Spec => PlanIsCurrent
<1> DEFINE Commits == rec'.phase = "executing" /\ rec.phase # "executing" =>
             Planning /\ Running /\ cp.of = round /\ cp.text = "complete" /\ cp.conv = "ready"
<1>1. ASSUME Inv, [Next]_vars, rec'.phase = "executing", rec.phase # "executing"
      PROVE  Planning /\ Running /\ cp.of = round /\ cp.text = "complete" /\ cp.conv = "ready"
  <2>1. Accept
    BY <1>1, OnlyAcceptExecutes DEF Inv
  <2>2. CanCommit /\ cp.text = "complete" /\ cp.conv = "ready"
    BY <1>1, <2>1 DEF Accept, Asking, Inv, TypeOK, Record
  <2> QED BY <1>1, <2>2 DEF CanCommit, Inv, Budget
<1>2. Inv /\ [Next]_vars => [Commits]_vars
  BY <1>1
<1> HIDE DEF Commits
<1>3. Spec => [][Commits]_vars
  BY <1>2, InvInvariant, PTL DEF Spec
<1> QED BY <1>3 DEF PlanIsCurrent, Commits
=============================================================================
