--------------------------- MODULE AppServerTurns ---------------------------
(***************************************************************************)
(* The turns of one App Server connection: starting a turn or an inline    *)
(* review, the reply that may come late or never, the notifications and    *)
(* the requests of the server, broken frames, waiting, interrupting, and   *)
(* the receipt that keeps a start whose reply was not seen                 *)
(* (src/src/app-server.ts).                                                *)
(*                                                                         *)
(* Each caller works on a thread of its own, one operation at a time, as   *)
(* the phases of a workflow do.  A turn is numbered when its request is    *)
(* written; what the server emits may be read in any order.                *)
(***************************************************************************)
EXTENDS Naturals, FiniteSets

CONSTANTS Callers,    \* workflow operations, each with its thread
          Reviewers,  \* those that run reviews and refuse questions
          MaxTurns,   \* bound: requests to start a turn
          MaxFaults   \* bound: losses, time-outs and broken frames

ASSUME ReviewersAssumption == Reviewers \subseteq Callers
ASSUME BoundsAssumption == MaxTurns \in Nat \ {0} /\ MaxFaults \in Nat

VARIABLES
  turn,    \* turn[t]: what the server does with it and what the client knows
  hints,   \* hints[t]: failures, the broken frames held for a pending reply
  pc,      \* pc[c]: where the operation of a caller is
  cur,     \* cur[c]: the turn it is about, 0 for none
  served,  \* the callers whose thread is registered with the current process
  faults
vars == <<turn, hints, pc, cur, served, faults>>

Turns == 1 .. MaxTurns
NoTurn == [by |-> "none", srv |-> "none", due |-> {}, rpc |-> "none", reply |-> "none",
           reg |-> FALSE, done |-> FALSE, input |-> FALSE, fail |-> 0, confirmed |-> FALSE]
Live == {"sent", "running", "asking"}
Busy == {"sent", "started", "waiting", "interrupting"}

\* A frame that was broken: what is left of its ids, and whose it really was.
Hint == [thread : BOOLEAN, turn : BOOLEAN, of : Turns]

TypeOK ==
  /\ turn \in [Turns -> [by : Callers \cup {"none"},
                         srv : Live \cup {"none", "ended", "refused", "lost"},
                         due : SUBSET {"reply", "note"}, rpc : {"none", "open", "kept", "closed"},
                         reply : {"none", "bad", "adopted"}, reg : BOOLEAN, done : BOOLEAN,
                         input : BOOLEAN, fail : {0} \cup Turns, confirmed : BOOLEAN]]
  /\ hints \in [Turns -> SUBSET Hint]
  /\ pc \in [Callers -> Busy \cup {"idle", "pending", "broken", "asked"}]
  /\ cur \in [Callers -> {0} \cup Turns] /\ served \subseteq Callers /\ faults \in 0 .. MaxFaults
  /\ \A t \in Turns : turn[t].rpc = "open" <=> \E c \in Callers : pc[c] = "sent" /\ cur[c] = t

Init ==
  /\ turn = [t \in Turns |-> NoTurn] /\ hints = [t \in Turns |-> {}]
  /\ pc = [c \in Callers |-> "idle"] /\ cur = [c \in Callers |-> 0]
  /\ served = Callers /\ faults = 0

----------------------------------------------------------------------------
Fault == faults < MaxFaults /\ faults' = faults + 1
Goto(c, s) == pc' = [pc EXCEPT ![c] = s]
Of(c) == turn[cur[c]]
Strict(c) == c \in Reviewers

\* receiptFinished: the interruption was confirmed, or the completion was read
\* under the registration of the receipt.
Finished(t) == turn[t].confirmed \/ (turn[t].reply = "adopted" /\ turn[t].done)

\* receiptStatus "ready": the original reply arrived and its turn is still ours.
ReadyReceipt(t) == turn[t].reply = "adopted" /\ turn[t].reg /\ turn[t].by \in served

\* Mutant: a kept receipt hinders nobody.
NothingUnadopted(c) == {}

\* assertNoUnadoptedStart: the starts of the thread that are not accounted for.
Unadopted(c) == {t \in Turns : /\ turn[t].by = c /\ turn[t].rpc = "kept" /\ ~Finished(t)
                               /\ turn[t].srv # "lost"}

\* requestRaw: the observer of a start is gone before a valid reply was seen.
Kept(r) == [r EXCEPT !.rpc = "kept"]

\* turnResult and the tests of waitForTurn: what a waiter sees of its turn.
Outcome(c, r) ==
  IF r.fail # 0 THEN "interrupting"
  ELSE IF r.input THEN IF Strict(c) THEN "interrupting" ELSE "asked"
  ELSE IF r.done THEN "idle" ELSE "waiting"

\* The turn changes and its waiter, if it has one, is woken.
Update(t, r) ==
  /\ turn' = [turn EXCEPT ![t] = r]
  /\ LET c == r.by IN
       pc' = IF pc[c] = "waiting" /\ cur[c] = t THEN [pc EXCEPT ![c] = Outcome(c, r)] ELSE pc

----------------------------------------------------------------------------
\* startTurn and startReview, with requestRegisteredTurn.

\* The next free number; nothing else is started on a thread whose earlier start
\* is not accounted for: its receipt is handed out again.
Start(c) ==
  /\ pc[c] \in {"idle", "pending"} /\ c \in served
  /\ IF Unadopted(c) # {}
     THEN /\ Goto(c, "pending")
          /\ cur' = [cur EXCEPT ![c] = CHOOSE t \in Unadopted(c) : TRUE]
          /\ UNCHANGED turn
     ELSE \E t \in Turns :
          /\ turn[t].srv = "none" /\ \A u \in Turns : u < t => turn[u].srv # "none"
          /\ turn' = [turn EXCEPT ![t] = [NoTurn EXCEPT !.by = c, !.srv = "sent", !.rpc = "open"]]
          /\ cur' = [cur EXCEPT ![c] = t] /\ Goto(c, "sent")
  /\ UNCHANGED <<hints, served, faults>>

\* The RPC times out or its caller aborts: the start is submitted, and kept.
GiveUp(c) ==
  /\ pc[c] = "sent" /\ Fault
  /\ turn' = [turn EXCEPT ![cur[c]] = Kept(@)]
  /\ Goto(c, "pending")
  /\ UNCHANGED <<hints, cur, served>>

\* interruptionFailure comes before the error.
Fails(c) == "interrupting"

\* Mutant: the events of the turn are only listened to from here on.
WaitsBlindly(c) == "waiting"

\* waitForTurn looks at what was recorded before it listens.
Waits(c) == Outcome(c, Of(c))

\* onStarted, and the settings of a review: a failure of either leaves
\* a running turn to be interrupted.
Register(c) ==
  /\ pc[c] = "started"
  /\ \/ Goto(c, Waits(c)) /\ UNCHANGED faults
     \/ Goto(c, Fails(c)) /\ Fault
  /\ UNCHANGED <<turn, hints, cur, served>>

\* waitForTurn: its time, or its caller.
Withdraw(c) ==
  /\ pc[c] = "waiting" /\ Fault
  /\ Goto(c, "interrupting")
  /\ UNCHANGED <<turn, hints, cur, served>>

\* continueTurn answers the question; a broken frame meanwhile comes first.
Continue(c) ==
  /\ pc[c] = "asked" /\ c \in served
  /\ IF Of(c).fail # 0 THEN Goto(c, "interrupting") /\ UNCHANGED turn
     ELSE LET r == [Of(c) EXCEPT !.input = FALSE,
                                 !.srv = IF @ = "asking" THEN "running" ELSE @] IN
          turn' = [turn EXCEPT ![cur[c]] = r] /\ pc' = [pc EXCEPT ![c] = Outcome(c, r)]
  /\ UNCHANGED <<hints, cur, served, faults>>

\* A question nobody answers any more, or a turn that was interrupted in vain:
\* the workflow asks for the interruption again.
Interrupt(c) ==
  /\ pc[c] \in {"asked", "broken"} /\ c \in served
  /\ Goto(c, "interrupting")
  /\ UNCHANGED <<turn, hints, cur, served, faults>>

----------------------------------------------------------------------------
\* interrupt, abandonTurn and interruptionFailure.

\* The turn is over for this client: its state goes, its receipt is confirmed.
Over(t) ==
  LET r == [turn[t] EXCEPT !.confirmed = TRUE, !.rpc = "closed", !.reg = FALSE,
                           !.done = FALSE, !.input = FALSE, !.fail = 0,
                           !.srv = IF @ \in Live THEN "ended" ELSE @] IN
  turn' = [turn EXCEPT ![t] = r]

\* A completion that was read makes the request superfluous.
Confirmable(c) == Of(c).done \/ Of(c).srv \in Live

Interrupted(c) ==
  /\ pc[c] = "interrupting" /\ Confirmable(c)
  /\ Over(cur[c]) /\ Goto(c, "idle")
  /\ UNCHANGED <<hints, cur, served, faults>>

\* The reply is an error (the turn is not active any more), or does not come,
\* whatever the server did: the original turn stays the caller's business.
NotInterrupted(c) ==
  /\ pc[c] = "interrupting" /\ ~Of(c).done
  /\ \/ Of(c).srv = "ended" /\ UNCHANGED <<turn, faults>>
     \/ Fault /\ turn' \in {turn, [turn EXCEPT ![cur[c]].srv = "ended",
                                               ![cur[c]].due = @ \cup {"note"}]}
  /\ Goto(c, "broken")
  /\ UNCHANGED <<hints, cur, served>>

----------------------------------------------------------------------------
\* The operation of a receipt.

\* resume: only with the original reply; it is adopted like a fresh one.
Resume(c) ==
  /\ pc[c] = "pending" /\ c \in served /\ ReadyReceipt(cur[c])
  /\ Goto(c, "started")
  /\ UNCHANGED <<turn, hints, cur, served, faults>>

\* Mutant: a reply that cannot be read is taken for a refusal.
BadIsOver(t) == Finished(t) \/ turn[t].srv = "lost" \/ turn[t].reply = "bad"

\* Read to its end, interrupted, or gone with its process.
Accounted(t) == Finished(t) \/ turn[t].srv = "lost"

\* cleanup: nothing to do, or its turn to interrupt, or else the process that
\* was asked to start it must be gone.
Cleanup(c) ==
  LET t == cur[c] IN
  /\ pc[c] = "pending"
  /\ \/ /\ Accounted(t)
        /\ turn' = [turn EXCEPT ![t].rpc = "closed", ![t].confirmed = TRUE] /\ Goto(c, "idle")
     \/ ~Accounted(t) /\ ReadyReceipt(t) /\ Goto(c, "interrupting") /\ UNCHANGED turn
  /\ UNCHANGED <<hints, cur, served, faults>>

----------------------------------------------------------------------------
\* The server, and onLine.

Served(t) == turn[t].by \in served

\* It accepts a request or refuses it, runs it, asks, and ends it.
ServerTurns(t) ==
  /\ Served(t)
  /\ \/ /\ turn[t].srv = "sent"
        /\ \E s \in {"running", "refused"} :
             turn' = [turn EXCEPT ![t].srv = s, ![t].due = @ \cup {"reply"}]
     \/ /\ turn[t].srv \in {"running", "asking"}
        /\ turn' = [turn EXCEPT ![t].srv = "ended", ![t].due = @ \cup {"note"}]
  /\ UNCHANGED <<hints, pc, cur, served, faults>>

\* Mutant: any failure held for a pending reply is this one's.
AnyHint(t) == hints[t]

\* registerTurn: the broken frames whose ids do not speak against this turn.
Matching(t) == {h \in hints[t] : /\ h.thread => turn[h.of].by = turn[t].by
                                 /\ h.turn => h.of = t}

\* adoptReceipt and registerTurn: a completion read before is kept, and so are
\* the failures that were held for the reply.
Adopted(t, r) == [r EXCEPT !.reply = "adopted", !.reg = TRUE, !.due = @ \ {"reply"},
                           !.fail = IF Matching(t) = {} THEN 0 ELSE (CHOOSE h \in Matching(t) : TRUE).of,
                           !.input = r.input /\ Matching(t) = {}]

\* The reply of a start, whether or not somebody waits for it: it is adopted, or
\* refuses the start, or cannot be read.
Reply(t) ==
  LET r == turn[t]
      c == turn[t].by
      heard == pc[c] = "sent" /\ cur[c] = t
      Answered(new, place) == /\ turn' = [turn EXCEPT ![t] = new]
                              /\ pc' = IF heard THEN [pc EXCEPT ![c] = place] ELSE pc
      rpc == IF heard THEN "closed" ELSE r.rpc
      ok == [Adopted(t, r) EXCEPT !.rpc = rpc]
      refused == [r EXCEPT !.reply = "bad", !.due = {}, !.rpc = rpc]
      bad == [Kept(r) EXCEPT !.reply = "bad", !.due = @ \ {"reply"}] IN
  /\ "reply" \in r.due
  /\ \/ r.srv # "refused" /\ Answered(ok, "started") /\ UNCHANGED faults
     \/ r.srv = "refused" /\ Answered(refused, "idle") /\ UNCHANGED faults
     \/ r.srv # "refused" /\ Answered(bad, "pending") /\ Fault
  /\ hints' = [hints EXCEPT ![t] = {}]
  /\ UNCHANGED <<cur, served>>

\* turn/completed: recorded even before the reply that names the turn.
Completed(t) ==
  /\ "note" \in turn[t].due
  /\ IF turn[t].confirmed THEN turn' = [turn EXCEPT ![t].due = @ \ {"note"}] /\ UNCHANGED pc
     ELSE Update(t, [turn[t] EXCEPT !.due = @ \ {"note"}, !.done = TRUE, !.input = FALSE])
  /\ UNCHANGED <<hints, cur, served, faults>>

\* item/tool/requestUserInput.
Asks(t) ==
  /\ Served(t) /\ turn[t].srv = "running"
  /\ Update(t, [turn[t] EXCEPT !.srv = "asking", !.input = TRUE])
  /\ UNCHANGED <<hints, cur, served, faults>>

\* rejectProtocolFrame: a broken frame of a running turn, with what is left of
\* its ids, fails the one registered turn it fits; without one, the one pending
\* start it may be about keeps it as a hint.
Frame(t, h) ==
  LET fits == {u \in Turns : /\ turn[u].reg /\ ~turn[u].done /\ Served(u)
                             /\ h.thread => turn[u].by = turn[t].by
                             /\ h.turn => u = t}
      held == {u \in Turns : /\ turn[u].rpc \in {"open", "kept"} /\ turn[u].reply = "none" /\ Served(u)
                             /\ h.thread => turn[u].by = turn[t].by} IN
  /\ Served(t) /\ turn[t].srv \in {"running", "asking"} /\ h.of = t /\ (h.thread \/ h.turn) /\ Fault
  /\ \/ /\ Cardinality(fits) = 1
        /\ \E u \in fits : /\ turn[u].fail = 0
                           /\ Update(u, [turn[u] EXCEPT !.fail = t, !.input = FALSE])
        /\ UNCHANGED hints
     \/ /\ fits = {} /\ Cardinality(held) = 1
        /\ \E u \in held : hints' = [hints EXCEPT ![u] = @ \cup {h}]
        /\ UNCHANGED <<turn, pc>>
  /\ UNCHANGED <<cur, served>>

\* The process is lost with everything it ran: open starts keep their receipt,
\* what was registered is rejected, and no thread is known any more.
Lose ==
  /\ Fault /\ served # {}
  /\ served' = {}
  /\ turn' = [t \in Turns |->
        LET r == turn[t] IN
        [r EXCEPT !.srv = IF @ = "none" THEN @ ELSE "lost", !.due = {}, !.reg = FALSE,
                  !.rpc = IF @ = "open" THEN "kept" ELSE @]]
  /\ pc' = [c \in Callers |-> IF pc[c] \in {"sent", "pending"} THEN "pending" ELSE "idle"]
  /\ hints' = [t \in Turns |-> {}]
  /\ UNCHANGED cur

\* startThread or resumeThread on the next process.
Serve(c) ==
  /\ pc[c] \in {"idle", "pending"} /\ c \notin served
  /\ served' = served \cup {c}
  /\ UNCHANGED <<turn, hints, pc, cur, faults>>

----------------------------------------------------------------------------
Next ==
  \/ \E c \in Callers : Register(c) \/ Interrupted(c) \/ NotInterrupted(c) \/ Start(c) \/ GiveUp(c) \/ Withdraw(c) \/ Continue(c)
                        \/ Interrupt(c) \/ Resume(c) \/ Cleanup(c) \/ Serve(c)
  \/ \E t \in Turns : ServerTurns(t) \/ Reply(t) \/ Completed(t) \/ Asks(t) \/ \E h \in Hint : Frame(t, h)
  \/ Lose

Spec == Init /\ [][Next]_vars

----------------------------------------------------------------------------
\* No turn runs unmanaged: while the server may still be running what a caller
\* started, that caller has it in hand, as its call, its receipt, its question
\* or its unconfirmed interruption.
NoUnmanagedTurn ==
  \A t \in Turns : turn[t].srv \in Live => cur[turn[t].by] = t /\ pc[turn[t].by] # "idle"

\* A thread has one writer: never two turns that run, or that a lost reply may
\* have left running.
OneWriter == \A t, u \in Turns :
  turn[t].srv \in Live /\ turn[u].srv \in Live /\ turn[t].by = turn[u].by => t = u

\* A turn is failed by a broken frame of its own only, however little of the ids
\* is left and whichever replies are still out.
FailureIsItsOwn == \A t \in Turns : turn[t].fail \in {0, t}

\* A receipt is given up only when its turn is known to be over.
ReleasedIsOver == \A t \in Turns : turn[t].confirmed => turn[t].srv \notin Live

\* No wake-up is missed: what a waiter waits for has not happened yet, even when
\* it happened before the reply that named the turn, or during onStarted.
NoMissedWakeup == \A c \in Callers : pc[c] = "waiting" =>
  ~Of(c).done /\ ~Of(c).input /\ Of(c).fail = 0

\* No turn of a thread runs beside another or without anyone who answers for it.
TurnsAreOwned == TypeOK /\ OneWriter /\ NoUnmanagedTurn
=============================================================================
