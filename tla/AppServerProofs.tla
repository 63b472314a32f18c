------------------------- MODULE AppServerProofs ----------------------------
(***************************************************************************)
(* Theorems about the turns of an App Server connection, for any callers,  *)
(* any number of turns and any number of losses, time-outs and broken      *)
(* frames; and, in the last part, about the callback that reviews a        *)
(* submission on one thread of such a connection.                          *)
(*                                                                         *)
(* The inductive invariant of the turns relates three views of a turn that *)
(* the code keeps in step by hand: what its own record says (Shape), where *)
(* the operation of its caller stands (Stands), and whether somebody still *)
(* has to account for it (Owed).                                           *)
(***************************************************************************)
EXTENDS AppServerTurns, AppServerCallback, TLAPS

TurnRecord == [by : Callers \cup {"none"},
               srv : Live \cup {"none", "ended", "refused", "lost"},
               due : SUBSET {"reply", "note"}, rpc : {"none", "open", "kept", "closed"},
               reply : {"none", "bad", "adopted"}, reg : BOOLEAN, done : BOOLEAN,
               input : BOOLEAN, fail : {0} \cup Turns, confirmed : BOOLEAN]
Places == Busy \cup {"idle", "pending", "broken", "asked"}

\* An operation at one of these places has adopted the reply of its turn.
ActivePlaces == {"started", "waiting", "interrupting", "asked", "broken"}

\* The record of a turn: what the client knows agrees with what the server did.
Shape(t, r) ==
  /\ r.srv = "none" => r = NoTurn
  /\ r.srv # "none" => r.by \in Callers
  /\ r.srv = "sent" => r.due = {} /\ r.reply = "none" /\ r.rpc \in {"open", "kept"}
  /\ "reply" \in r.due => /\ r.srv \in {"running", "asking", "ended", "refused"}
                          /\ r.reply = "none" /\ r.rpc \in {"open", "kept"}
  /\ "note" \in r.due => r.srv = "ended"
  /\ r.done => r.srv \in {"ended", "lost"}
  /\ r.reply = "adopted" => r.srv \in {"running", "asking", "ended", "lost"}
  /\ r.reg => r.reply = "adopted" /\ r.srv # "lost"
  /\ r.confirmed => r.rpc = "closed" /\ r.srv \notin Live
  /\ r.fail \in {0, t}

\* The operation of a caller at place s, whose current turn is r.
Stands(s, r) ==
  /\ s = "pending" => r.rpc = "kept"
  /\ s \in ActivePlaces => r.reg
  /\ s = "waiting" => ~r.done /\ ~r.input /\ r.fail = 0

\* A turn its caller may not leave: it may run, its receipt is not accounted for,
\* or it is registered and its end was not read.
Owed(r) ==
  \/ r.srv \in Live
  \/ r.rpc = "kept" /\ r.srv # "lost" /\ ~r.confirmed /\ ~(r.reply = "adopted" /\ r.done)
  \/ r.reg /\ ~r.done

TurnInv(t) == /\ Shape(t, turn[t])
              /\ Owed(turn[t]) => cur[turn[t].by] = t /\ pc[turn[t].by] # "idle"
CallerInv(c) == pc[c] # "idle" => /\ cur[c] \in Turns /\ Of(c).by = c /\ Of(c).srv # "none"
                                  /\ Stands(pc[c], Of(c))
\* A broken frame that a pending start keeps is a frame of its own, unless only
\* a turn id is left of it or the process of the start is gone.
HintInv(t) == \A h \in hints[t] : /\ h.thread \/ h.turn
                                  /\ turn[t].srv # "lost" /\ h.thread => h.of = t
Inv == /\ TypeOK
       /\ \A t \in Turns : TurnInv(t) /\ HintInv(t)
       /\ \A c \in Callers : CallerInv(c)

----------------------------------------------------------------------------
\* What a waiter is told: it goes on waiting only while nothing has happened,
\* and leaves its turn only for a completion.
LEMMA OutcomeCases ==
  ASSUME NEW c, NEW r \in TurnRecord
  PROVE  /\ Outcome(c, r) \in {"interrupting", "asked", "idle", "waiting"}
         /\ Outcome(c, r) = "waiting" => ~r.done /\ ~r.input /\ r.fail = 0
         /\ Outcome(c, r) = "idle" => r.done
  BY DEF Outcome, TurnRecord

\* A caller whose operation is not at rest is the only one about its turn.
LEMMA OneCaller ==
  ASSUME Inv, NEW c \in Callers, pc[c] # "idle", NEW d \in Callers, pc[d] # "idle",
         cur[c] = cur[d]
  PROVE  c = d
  BY DEF Inv, CallerInv, Of

\* A step that changes one turn, and moves at most the caller the turn belongs to,
\* keeps the invariant when the new record is well shaped, the caller stands
\* rightly by it and does not leave it while it is owed.
LEMMA OneTurnStep ==
  ASSUME Inv, NEW t \in Turns, turn[t].srv # "none",
         NEW r \in TurnRecord, r.srv # "none", r.by = turn[t].by, Shape(t, r),
         turn[t].srv = "lost" => r.srv = "lost",
         NEW s \in Places,
         turn' = [turn EXCEPT ![t] = r], pc' = [pc EXCEPT ![r.by] = s], cur' = cur,
         hints' = hints \/ hints' = [hints EXCEPT ![t] = {}],
         served' \subseteq Callers, faults' \in 0 .. MaxFaults,
         cur[r.by] = t => Stands(s, r) /\ (r.rpc = "open" <=> s = "sent"),
         cur[r.by] # t => s = pc[r.by] /\ r.rpc # "open",
         Owed(r) => cur[r.by] = t /\ s # "idle"
  PROVE  Inv'
<1> DEFINE b == r.by
<1>0. b \in Callers /\ turn \in [Turns -> TurnRecord] /\ pc \in [Callers -> Places]
  BY DEF Inv, TypeOK, TurnInv, Shape, TurnRecord, Places
<1>1. \A u \in Turns : turn'[u] = IF u = t THEN r ELSE turn[u]
  BY <1>0
<1>2. \A c \in Callers : pc'[c] = IF c = b THEN s ELSE pc[c]
  BY <1>0
<1>3. \A u \in Turns \ {t} : turn[u].rpc = "open" <=> \E c \in Callers : pc[c] = "sent" /\ cur[c] = u
  BY DEF Inv, TypeOK
<1>4. \A c \in Callers \ {b} : pc[c] # "idle" => cur[c] # t
  BY <1>0 DEF Inv, CallerInv, Of
<1>5. \A u \in Turns : turn'[u].rpc = "open" <=> \E c \in Callers : pc'[c] = "sent" /\ cur[c] = u
  <2>1. turn'[t].rpc = "open" <=> \E c \in Callers : pc'[c] = "sent" /\ cur[c] = t
    BY <1>0, <1>1, <1>2, <1>4
  <2>2. ASSUME NEW u \in Turns \ {t}
        PROVE  turn'[u].rpc = "open" <=> \E c \in Callers : pc'[c] = "sent" /\ cur[c] = u
    BY <1>0, <1>1, <1>2, <1>3, <2>2
  <2> QED BY <2>1, <2>2
<1>6. TypeOK'
  <2>1. turn' \in [Turns -> TurnRecord] /\ pc' \in [Callers -> Places]
    BY <1>0
  <2>2. hints' \in [Turns -> SUBSET Hint] /\ cur' \in [Callers -> {0} \cup Turns]
    BY DEF Inv, TypeOK
  <2> QED BY <1>5, <2>1, <2>2 DEF TypeOK, TurnRecord, Places
<1>7. ASSUME NEW u \in Turns PROVE TurnInv(u)' /\ HintInv(u)'
  <2>1. CASE u = t
    BY <1>0, <1>1, <1>2, <2>1 DEF Inv, TypeOK, TurnInv, HintInv
  <2>2. CASE u # t
    <3>1. TurnInv(u) /\ HintInv(u) /\ turn'[u] = turn[u] /\ hints'[u] = hints[u]
      BY <1>1, <2>2 DEF Inv, TypeOK
    <3>2. Owed(turn[u]) => turn[u].by \in Callers
      BY <3>1 DEF TurnInv, Shape, Owed, NoTurn, Live
    <3>3. Owed(turn[u]) => pc'[turn[u].by] # "idle"
      BY <1>2, <2>2, <3>1, <3>2 DEF TurnInv
    <3> QED BY <3>1, <3>3 DEF TurnInv, HintInv
  <2> QED BY <2>1, <2>2
<1>8. ASSUME NEW c \in Callers PROVE CallerInv(c)'
  <2>0. CallerInv(c)
    BY DEF Inv
  <2>1. CASE c = b /\ cur[c] = t
    BY <1>0, <1>1, <1>2, <2>1 DEF CallerInv, Of
  <2>2. CASE pc'[c] = pc[c] /\ (pc[c] # "idle" => cur[c] # t)
    BY <1>1, <2>0, <2>2 DEF CallerInv, Of
  <2> QED BY <1>2, <1>4, <2>1, <2>2
<1> QED BY <1>6, <1>7, <1>8 DEF Inv

\* What the invariant says of the current turn of a caller that is not at rest.
LEMMA CurrentTurn ==
  ASSUME Inv, NEW c \in Callers, pc[c] # "idle"
  PROVE  /\ cur[c] \in Turns /\ turn[cur[c]] \in TurnRecord
         /\ turn[cur[c]].by = c /\ turn[cur[c]].srv # "none"
         /\ Shape(cur[c], turn[cur[c]]) /\ Stands(pc[c], turn[cur[c]])
         /\ turn[cur[c]].rpc = "open" <=> pc[c] = "sent"
<1>1. cur[c] \in Turns /\ turn[cur[c]].by = c /\ turn[cur[c]].srv # "none" /\ Stands(pc[c], turn[cur[c]])
  BY DEF Inv, CallerInv, Of
<1>2. turn[cur[c]] \in TurnRecord /\ Shape(cur[c], turn[cur[c]])
  BY <1>1 DEF Inv, TypeOK, TurnInv, TurnRecord
<1>3. turn[cur[c]].rpc = "open" <=> \E d \in Callers : pc[d] = "sent" /\ cur[d] = cur[c]
  BY <1>1 DEF Inv, TypeOK
<1> QED BY <1>1, <1>2, <1>3, OneCaller

\* The caller moves and its turn stays: registering, waiting no longer, asking for
\* the interruption again, taking up a receipt.
LEMMA MoveStep ==
  ASSUME Inv, NEW c \in Callers, pc[c] \notin {"idle", "sent"},
         NEW s \in Places \ {"sent"}, Stands(s, turn[cur[c]]),
         s = "idle" => ~Owed(turn[cur[c]]),
         pc' = [pc EXCEPT ![c] = s], turn' = turn, cur' = cur, hints' = hints,
         served' \subseteq Callers, faults' \in 0 .. MaxFaults
  PROVE  Inv'
<1> DEFINE t == cur[c]
           r == turn[t]
<1>1. t \in Turns /\ r \in TurnRecord /\ r.by = c /\ r.srv # "none" /\ Shape(t, r) /\ r.rpc # "open"
  BY CurrentTurn
<1>2. turn' = [turn EXCEPT ![t] = r]
  BY DEF Inv, TypeOK
<1> HIDE DEF t
<1>3. cur[c] = t
  BY DEF t
<1> QED BY <1>1, <1>2, <1>3, OneTurnStep

\* A start that is given up, and a turn that is over or interrupted in vain.
LEMMA GiveUpStep ==
  ASSUME Inv, NEW c \in Callers, GiveUp(c)
  PROVE  Inv'
<1> DEFINE t == cur[c]
           r == Kept(turn[t])
<1>1. t \in Turns /\ turn[t] \in TurnRecord /\ turn[t].by = c /\ turn[t].srv # "none" /\ Shape(t, turn[t])
  BY CurrentTurn DEF GiveUp
<1>2. r \in TurnRecord /\ r.by = c /\ r.srv = turn[t].srv /\ r.rpc = "kept"
  BY <1>1 DEF Kept, TurnRecord
<1>3. turn[t].rpc = "open"
  BY CurrentTurn DEF GiveUp
<1>4. Shape(t, r)
  BY <1>1, <1>2, <1>3 DEF Shape, Kept, TurnRecord, NoTurn
<1>5. /\ turn' = [turn EXCEPT ![t] = r] /\ faults' \in 0 .. MaxFaults /\ served' \subseteq Callers
      /\ pc' = [pc EXCEPT ![c] = "pending"] /\ hints' = hints /\ cur' = cur
  BY <1>1, BoundsAssumption DEF GiveUp, Goto, Fault, Inv, TypeOK
<1>6. Stands("pending", r)
  BY <1>2 DEF Stands, ActivePlaces
<1> HIDE DEF t, r
<1>7. cur[c] = t
  BY DEF t
<1> QED BY <1>1, <1>2, <1>4, <1>5, <1>6, <1>7, OneTurnStep DEF Places

LEMMA RegisterStep ==
  ASSUME Inv, NEW c \in Callers, Register(c)
  PROVE  Inv'
<1>1. cur[c] \in Turns /\ turn[cur[c]] \in TurnRecord /\ Shape(cur[c], turn[cur[c]]) /\ turn[cur[c]].reg
  BY CurrentTurn DEF Register, Stands, ActivePlaces
<1>2. faults' \in 0 .. MaxFaults /\ served' \subseteq Callers
  BY BoundsAssumption DEF Register, Fault, Inv, TypeOK
<1>3. CASE Goto(c, Waits(c))
  <2>1. Stands(Waits(c), turn[cur[c]]) /\ Waits(c) \in Places \ {"sent"}
    BY <1>1, OutcomeCases DEF Waits, Of, Stands, Places, Busy, ActivePlaces
  <2>2. Waits(c) = "idle" => ~Owed(turn[cur[c]])
    BY <1>1, OutcomeCases DEF Waits, Of, Owed, Shape, Live
  <2> QED BY <1>2, <1>3, <2>1, <2>2, MoveStep DEF Register, Goto
<1>4. CASE Goto(c, Fails(c))
  BY <1>1, <1>2, <1>4, MoveStep DEF Register, Goto, Fails, Stands, ActivePlaces, Places, Busy
<1> QED BY <1>3, <1>4 DEF Register

LEMMA CallerMoves ==
  ASSUME Inv, NEW c \in Callers, Withdraw(c) \/ Interrupt(c) \/ Resume(c)
  PROVE  Inv'
<1>1. cur[c] \in Turns /\ turn[cur[c]] \in TurnRecord /\ Shape(cur[c], turn[cur[c]]) /\ Stands(pc[c], turn[cur[c]])
  BY CurrentTurn DEF Withdraw, Interrupt, Resume
<1>2. faults' \in 0 .. MaxFaults /\ served' \subseteq Callers
  BY BoundsAssumption DEF Withdraw, Interrupt, Resume, Fault, Inv, TypeOK
<1>3. turn[cur[c]].reg
  BY <1>1 DEF Withdraw, Interrupt, Resume, Stands, ActivePlaces, ReadyReceipt
<1>4. Stands("interrupting", turn[cur[c]]) /\ Stands("started", turn[cur[c]])
  BY <1>3 DEF Stands, ActivePlaces
<1> QED BY <1>2, <1>4, MoveStep DEF Withdraw, Interrupt, Resume, Goto, Places, Busy

LEMMA ContinueStep ==
  ASSUME Inv, NEW c \in Callers, Continue(c)
  PROVE  Inv'
<1> DEFINE t == cur[c]
           r == [turn[t] EXCEPT !.input = FALSE, !.srv = IF @ = "asking" THEN "running" ELSE @]
<1>1. /\ t \in Turns /\ turn[t] \in TurnRecord /\ turn[t].by = c /\ turn[t].srv # "none"
      /\ Shape(t, turn[t]) /\ turn[t].reg /\ turn[t].rpc # "open"
  BY CurrentTurn DEF Continue, Stands, ActivePlaces
<1>2. UNCHANGED <<hints, cur, served, faults>> /\ served \subseteq Callers /\ faults \in 0 .. MaxFaults
  BY DEF Continue, Inv, TypeOK
<1>3. CASE turn[t].fail # 0
  BY <1>1, <1>2, <1>3, MoveStep DEF Continue, Of, Goto, Stands, ActivePlaces, Places, Busy
<1>4. CASE turn[t].fail = 0
  <2>1. turn' = [turn EXCEPT ![t] = r] /\ pc' = [pc EXCEPT ![c] = Outcome(c, r)]
    BY <1>4 DEF Continue, Of
  <2>2. r \in TurnRecord /\ r.by = c /\ r.srv # "none" /\ r.reg /\ r.rpc # "open" /\ (turn[t].srv = "lost" => r.srv = "lost")
    BY <1>1 DEF TurnRecord, Live
  <2>3. Shape(t, r)
    BY <1>1, <2>2 DEF Shape, TurnRecord, Live
  <2>4. Outcome(c, r) \in Places \ {"sent"} /\ Stands(Outcome(c, r), r)
    BY <2>2, OutcomeCases DEF Stands, Places, Busy, ActivePlaces
  <2>5. Outcome(c, r) = "idle" => ~Owed(r)
    BY <2>2, <2>3, OutcomeCases DEF Owed, Shape, Live
  <2> HIDE DEF t, r
  <2>6. cur[c] = t
    BY DEF t
  <2> QED BY <1>1, <1>2, <2>1, <2>2, <2>3, <2>4, <2>5, <2>6, OneTurnStep
<1> QED BY <1>3, <1>4

LEMMA InterruptedStep ==
  ASSUME Inv, NEW c \in Callers, Interrupted(c)
  PROVE  Inv'
<1> DEFINE t == cur[c]
           r == [turn[t] EXCEPT !.confirmed = TRUE, !.rpc = "closed", !.reg = FALSE,
                                !.done = FALSE, !.input = FALSE, !.fail = 0,
                                !.srv = IF @ \in Live THEN "ended" ELSE @]
<1>1. /\ t \in Turns /\ turn[t] \in TurnRecord /\ turn[t].by = c /\ turn[t].srv # "none"
      /\ Shape(t, turn[t]) /\ turn[t].reg
  BY CurrentTurn DEF Interrupted, Stands, ActivePlaces
<1>2. /\ turn' = [turn EXCEPT ![t] = r] /\ pc' = [pc EXCEPT ![c] = "idle"]
      /\ hints' = hints /\ cur' = cur /\ served' \subseteq Callers /\ faults' \in 0 .. MaxFaults
  <2>1. turn' = [turn EXCEPT ![t] = r]
    BY DEF Interrupted, Over
  <2> QED BY <2>1 DEF Interrupted, Goto, Inv, TypeOK
<1>3. /\ r \in TurnRecord /\ r.by = c /\ r.srv \notin Live \cup {"none"} /\ r.rpc = "closed" /\ ~r.reg
      /\ turn[t].srv = "lost" => r.srv = "lost"
  BY <1>1 DEF TurnRecord, Live
<1>4. Shape(t, r)
  BY <1>1, <1>3 DEF Shape, TurnRecord, Live
<1>5. Stands("idle", r) /\ ~Owed(r)
  BY <1>3 DEF Stands, Owed, ActivePlaces
<1> HIDE DEF t, r
<1>6. cur[c] = t
  BY DEF t
<1> QED BY <1>1, <1>2, <1>3, <1>4, <1>5, <1>6, OneTurnStep DEF Places

LEMMA NotInterruptedStep ==
  ASSUME Inv, NEW c \in Callers, NotInterrupted(c)
  PROVE  Inv'
<1> DEFINE t == cur[c]
           r == [turn[t] EXCEPT !.srv = "ended", !.due = @ \cup {"note"}]
<1>1. /\ t \in Turns /\ turn[t] \in TurnRecord /\ turn[t].by = c /\ turn[t].srv # "none"
      /\ Shape(t, turn[t]) /\ turn[t].reg /\ turn[t].rpc # "open"
  BY CurrentTurn DEF NotInterrupted, Stands, ActivePlaces
<1>2. /\ pc' = [pc EXCEPT ![c] = "broken"] /\ hints' = hints /\ cur' = cur
      /\ served' \subseteq Callers /\ faults' \in 0 .. MaxFaults
  BY BoundsAssumption DEF NotInterrupted, Goto, Fault, Inv, TypeOK
<1>3. turn' = turn \/ turn' = [turn EXCEPT ![t] = r]
  BY DEF NotInterrupted
<1>4. CASE turn' = turn
  BY <1>1, <1>2, <1>4, MoveStep DEF NotInterrupted, Stands, ActivePlaces, Places, Busy
<1>5. CASE turn' = [turn EXCEPT ![t] = r]
  <2>1. /\ r \in TurnRecord /\ r.by = c /\ r.srv = "ended" /\ r.reg /\ r.rpc = turn[t].rpc
        /\ turn[t].srv # "lost"
    BY <1>1 DEF TurnRecord, Shape
  <2>2. Shape(t, r)
    BY <1>1, <2>1 DEF Shape, TurnRecord, Live
  <2>3. Stands("broken", r)
    BY <2>1 DEF Stands
  <2> HIDE DEF t, r
  <2>4. cur[c] = t
    BY DEF t
  <2> QED BY <1>1, <1>2, <1>5, <2>1, <2>2, <2>3, <2>4, OneTurnStep DEF Places
<1> QED BY <1>3, <1>4, <1>5

LEMMA CleanupStep ==
  ASSUME Inv, NEW c \in Callers, Cleanup(c)
  PROVE  Inv'
<1> DEFINE t == cur[c]
           r == [turn[t] EXCEPT !.rpc = "closed", !.confirmed = TRUE]
<1>1. /\ t \in Turns /\ turn[t] \in TurnRecord /\ turn[t].by = c /\ turn[t].srv # "none"
      /\ Shape(t, turn[t]) /\ turn[t].rpc = "kept"
  BY CurrentTurn DEF Cleanup, Stands
<1>2. hints' = hints /\ cur' = cur /\ served' \subseteq Callers /\ faults' \in 0 .. MaxFaults
  BY DEF Cleanup, Inv, TypeOK
<1>3. CASE Accounted(t) /\ turn' = [turn EXCEPT ![t].rpc = "closed", ![t].confirmed = TRUE] /\ Goto(c, "idle")
  <2>1. turn' = [turn EXCEPT ![t] = r] /\ pc' = [pc EXCEPT ![c] = "idle"]
    BY <1>3 DEF Goto
  <2>2. /\ r \in TurnRecord /\ r.by = c /\ r.srv = turn[t].srv /\ r.rpc = "closed"
        /\ r.reg = turn[t].reg /\ r.done = turn[t].done
    BY <1>1 DEF TurnRecord
  <2>3. turn[t].srv = "lost" \/ (turn[t].done /\ turn[t].reply = "adopted")
    BY <1>1, <1>3 DEF Accounted, Finished, Shape, TurnRecord
  <2>4. Shape(t, r)
    BY <1>1, <2>2, <2>3 DEF Shape, TurnRecord, Live
  <2>5. Stands("idle", r) /\ ~Owed(r)
    BY <1>1, <2>2, <2>3 DEF Stands, Owed, ActivePlaces, Shape, Live
  <2> HIDE DEF t, r
  <2>6. cur[c] = t
    BY DEF t
  <2> QED BY <1>1, <1>2, <2>1, <2>2, <2>4, <2>5, <2>6, OneTurnStep DEF Places
<1>4. CASE ReadyReceipt(t) /\ Goto(c, "interrupting") /\ UNCHANGED turn
  BY <1>1, <1>2, <1>4, MoveStep DEF Cleanup, ReadyReceipt, Goto, Stands, ActivePlaces, Places, Busy
<1> QED BY <1>3, <1>4 DEF Cleanup

\* What the invariant says of a turn that was started.
LEMMA StartedTurn ==
  ASSUME Inv, NEW t \in Turns, turn[t].srv # "none"
  PROVE  /\ turn[t] \in TurnRecord /\ Shape(t, turn[t])
         /\ turn[t].by \in Callers /\ pc[turn[t].by] \in Places
         /\ Owed(turn[t]) => cur[turn[t].by] = t /\ pc[turn[t].by] # "idle"
         /\ pc[turn[t].by] # "idle" /\ cur[turn[t].by] = t =>
              /\ Stands(pc[turn[t].by], turn[t])
              /\ turn[t].rpc = "open" <=> pc[turn[t].by] = "sent"
         /\ turn[t].rpc = "open" => cur[turn[t].by] = t /\ pc[turn[t].by] = "sent"
<1>1. turn[t] \in TurnRecord /\ Shape(t, turn[t]) /\ turn[t].by \in Callers
  BY DEF Inv, TypeOK, TurnInv, Shape, TurnRecord
<1>2. pc[turn[t].by] \in Places
  BY <1>1 DEF Inv, TypeOK, Places
<1>3. Owed(turn[t]) => cur[turn[t].by] = t /\ pc[turn[t].by] # "idle"
  BY DEF Inv, TurnInv
<1>4. pc[turn[t].by] # "idle" /\ cur[turn[t].by] = t =>
              /\ Stands(pc[turn[t].by], turn[t])
              /\ turn[t].rpc = "open" <=> pc[turn[t].by] = "sent"
  BY <1>1, CurrentTurn
<1>5. turn[t].rpc = "open" => cur[turn[t].by] = t /\ pc[turn[t].by] = "sent"
  <2>1. turn[t].rpc = "open" => \E d \in Callers : pc[d] = "sent" /\ cur[d] = t
    BY DEF Inv, TypeOK
  <2> QED BY <2>1, CurrentTurn
<1> QED BY <1>1, <1>2, <1>3, <1>4, <1>5

\* The caller stays where it is and its turn changes: what the server does.
LEMMA TurnStep ==
  ASSUME Inv, NEW t \in Turns, turn[t].srv # "none",
         NEW r \in TurnRecord, r.srv # "none", r.by = turn[t].by, Shape(t, r),
         turn[t].srv = "lost" => r.srv = "lost", r.rpc = turn[t].rpc,
         pc[turn[t].by] # "idle" /\ cur[turn[t].by] = t => Stands(pc[turn[t].by], r),
         Owed(r) => Owed(turn[t]),
         turn' = [turn EXCEPT ![t] = r], pc' = pc, cur' = cur,
         hints' = hints, served' = served, faults' = faults
  PROVE  Inv'
<1>1. turn[t].by \in Callers /\ pc[turn[t].by] \in Places
  BY StartedTurn
<1>2. pc' = [pc EXCEPT ![r.by] = pc[turn[t].by]] /\ served' \subseteq Callers /\ faults' \in 0 .. MaxFaults
  BY DEF Inv, TypeOK
<1>3. cur[r.by] = t => /\ Stands(pc[turn[t].by], r)
                       /\ r.rpc = "open" <=> pc[turn[t].by] = "sent"
  BY StartedTurn DEF Stands, ActivePlaces
<1>4. cur[r.by] # t => r.rpc # "open"
  BY StartedTurn
<1>5. Owed(r) => cur[r.by] = t /\ pc[turn[t].by] # "idle"
  BY StartedTurn
<1> QED BY <1>1, <1>2, <1>3, <1>4, <1>5, OneTurnStep

LEMMA ServerTurnsStep ==
  ASSUME Inv, NEW t \in Turns, ServerTurns(t)
  PROVE  Inv'
<1>0. UNCHANGED <<hints, pc, cur, served, faults>>
  BY DEF ServerTurns
<1>1. CASE turn[t].srv = "sent"
  <2>1. PICK s \in {"running", "refused"} :
          turn' = [turn EXCEPT ![t].srv = s, ![t].due = @ \cup {"reply"}]
    BY <1>1 DEF ServerTurns
  <2> DEFINE r == [turn[t] EXCEPT !.srv = s, !.due = @ \cup {"reply"}]
  <2>2. turn' = [turn EXCEPT ![t] = r]
    BY <2>1
  <2>3. turn[t] \in TurnRecord /\ Shape(t, turn[t])
    BY <1>1, StartedTurn
  <2>4. /\ r \in TurnRecord /\ r.by = turn[t].by /\ r.srv = s /\ r.rpc = turn[t].rpc
        /\ r.due = {"reply"} /\ r.reply = "none" /\ r.rpc \in {"open", "kept"} /\ ~r.reg /\ ~r.done
    BY <1>1, <2>3 DEF TurnRecord, Live, Shape
  <2>5. Shape(t, r)
    BY <1>1, <2>3, <2>4 DEF Shape, TurnRecord, Live
  <2>6. pc[turn[t].by] # "idle" /\ cur[turn[t].by] = t => Stands(pc[turn[t].by], r)
    <3>1. pc[turn[t].by] # "idle" /\ cur[turn[t].by] = t => Stands(pc[turn[t].by], turn[t])
      BY <1>1, StartedTurn
    <3> QED BY <2>3, <3>1 DEF Stands, TurnRecord
  <2>7. Owed(turn[t])
    BY <1>1 DEF Owed, Live
  <2> HIDE DEF r
  <2> QED BY <1>0, <1>1, <2>2, <2>4, <2>5, <2>6, <2>7, TurnStep
<1>2. CASE turn[t].srv \in {"running", "asking"}
  <2> DEFINE r == [turn[t] EXCEPT !.srv = "ended", !.due = @ \cup {"note"}]
  <2>1. turn' = [turn EXCEPT ![t] = r]
    BY <1>2 DEF ServerTurns
  <2>2. turn[t] \in TurnRecord /\ Shape(t, turn[t])
    BY <1>2, StartedTurn
  <2>3. r \in TurnRecord /\ r.by = turn[t].by /\ r.srv = "ended" /\ r.rpc = turn[t].rpc
    BY <2>2 DEF TurnRecord
  <2>4. Shape(t, r)
    BY <1>2, <2>2, <2>3 DEF Shape, TurnRecord, Live
  <2>5. pc[turn[t].by] # "idle" /\ cur[turn[t].by] = t => Stands(pc[turn[t].by], r)
    <3>1. pc[turn[t].by] # "idle" /\ cur[turn[t].by] = t => Stands(pc[turn[t].by], turn[t])
      BY <1>2, StartedTurn
    <3> QED BY <2>2, <3>1 DEF Stands, TurnRecord
  <2>6. Owed(turn[t])
    BY <1>2 DEF Owed, Live
  <2> HIDE DEF r
  <2> QED BY <1>0, <1>2, <2>1, <2>3, <2>4, <2>5, <2>6, TurnStep
<1> QED BY <1>1, <1>2 DEF ServerTurns

\* A failure held for a pending start whose process is there is the start's own.
LEMMA MatchingIsOwn ==
  ASSUME Inv, NEW t \in Turns, turn[t].srv # "lost", NEW h \in Matching(t)
  PROVE  h.of = t
<1>1. h \in hints[t] /\ (h.turn => h.of = t)
  BY DEF Matching
<1>2. h.thread \/ h.turn
  BY <1>1 DEF Inv, HintInv
<1>3. h.thread => h.of = t
  BY <1>1 DEF Inv, HintInv
<1> QED BY <1>1, <1>2, <1>3

\* A step that changes a turn as the notifications do: its waiter is woken.
LEMMA UpdateStep ==
  ASSUME Inv, NEW t \in Turns, turn[t].srv # "none",
         NEW r \in TurnRecord, r.srv # "none", r.by = turn[t].by, Shape(t, r),
         turn[t].srv = "lost" => r.srv = "lost", r.rpc = turn[t].rpc, r.reg = turn[t].reg,
         turn[t].done => r.done,
         Owed(r) => Owed(turn[t]),
         Update(t, r), UNCHANGED <<hints, cur, served>>, faults' \in 0 .. MaxFaults
  PROVE  Inv'
<1> DEFINE c == r.by
           woken == pc[c] = "waiting" /\ cur[c] = t
           s == IF woken THEN Outcome(c, r) ELSE pc[c]
<1>1. c \in Callers /\ pc[c] \in Places /\ pc \in [Callers -> Places]
  BY StartedTurn DEF Inv, TypeOK, Places
<1>2. turn' = [turn EXCEPT ![t] = r] /\ pc' = [pc EXCEPT ![c] = s]
  BY <1>1 DEF Update
<1>3. Outcome(c, r) \in Places \ {"sent"} /\ (r.reg => Stands(Outcome(c, r), r))
  BY OutcomeCases DEF Stands, ActivePlaces, Places, Busy
<1>4. woken => turn[t].reg /\ turn[t].rpc # "open"
  BY StartedTurn DEF Stands, ActivePlaces
<1>5. pc[c] # "idle" /\ cur[c] = t => Stands(pc[c], turn[t])
  BY StartedTurn
<1>6. cur[c] = t => Stands(s, r)
  BY <1>3, <1>4, <1>5 DEF Stands, ActivePlaces
<1>7. cur[c] = t => (r.rpc = "open" <=> s = "sent")
  BY <1>3, <1>4, StartedTurn
<1>8. cur[c] # t => r.rpc # "open"
  BY StartedTurn
<1>9. Owed(r) => cur[c] = t /\ s # "idle"
  <2>1. Owed(r) => cur[c] = t /\ pc[c] # "idle"
    BY StartedTurn
  <2>2. r.done /\ woken => ~Owed(r)
    BY <1>4, StartedTurn DEF Owed, Shape, Live
  <2> QED BY <2>1, <2>2, OutcomeCases
<1>10. s \in Places /\ served' \subseteq Callers
  BY <1>1, <1>3, <1>4 DEF Inv, TypeOK
<1> HIDE DEF s
<1> QED BY <1>2, <1>6, <1>7, <1>8, <1>9, <1>10, OneTurnStep DEF s

LEMMA CompletedStep ==
  ASSUME Inv, NEW t \in Turns, Completed(t)
  PROVE  Inv'
<1> DEFINE r == [turn[t] EXCEPT !.due = @ \ {"note"}]
           d == [turn[t] EXCEPT !.due = @ \ {"note"}, !.done = TRUE, !.input = FALSE]
<1>1. turn[t].srv # "none"
  <2>1. turn[t].srv = "none" => turn[t].due = {}
    BY DEF Inv, TurnInv, Shape, NoTurn
  <2> QED BY <2>1 DEF Completed
<1>2. turn[t] \in TurnRecord /\ Shape(t, turn[t]) /\ turn[t].srv = "ended"
  BY <1>1, StartedTurn DEF Completed, Shape
<1>3. UNCHANGED <<hints, cur, served, faults>> /\ faults \in 0 .. MaxFaults
  BY DEF Completed, Inv, TypeOK
<1>4. CASE turn[t].confirmed
  <2>1. turn' = [turn EXCEPT ![t] = r] /\ pc' = pc
    BY <1>4 DEF Completed
  <2>2. /\ r \in TurnRecord /\ r.by = turn[t].by /\ r.srv = "ended" /\ r.rpc = turn[t].rpc
        /\ Owed(r) = Owed(turn[t])
        /\ \A s \in Places : Stands(s, r) = Stands(s, turn[t])
    BY <1>2 DEF TurnRecord, Owed, Stands
  <2>3. Shape(t, r)
    BY <1>2, <2>2 DEF Shape, TurnRecord, Live
  <2>4. pc[turn[t].by] # "idle" /\ cur[turn[t].by] = t => Stands(pc[turn[t].by], r)
    BY <1>1, <2>2, StartedTurn
  <2> HIDE DEF r
  <2> QED BY <1>1, <1>2, <1>3, <2>1, <2>2, <2>3, <2>4, TurnStep
<1>5. CASE ~turn[t].confirmed
  <2>1. Update(t, d)
    BY <1>5 DEF Completed
  <2>2. /\ d \in TurnRecord /\ d.by = turn[t].by /\ d.srv = "ended" /\ d.rpc = turn[t].rpc
        /\ d.reg = turn[t].reg /\ d.done
    BY <1>2 DEF TurnRecord
  <2>3. Shape(t, d)
    BY <1>2, <2>2 DEF Shape, TurnRecord, Live
  <2>4. Owed(d) => Owed(turn[t])
    BY <1>2 DEF Owed, TurnRecord, Live
  <2> HIDE DEF d
  <2> QED BY <1>1, <1>2, <1>3, <2>1, <2>2, <2>3, <2>4, UpdateStep
<1> QED BY <1>4, <1>5

LEMMA AsksStep ==
  ASSUME Inv, NEW t \in Turns, Asks(t)
  PROVE  Inv'
<1> DEFINE r == [turn[t] EXCEPT !.srv = "asking", !.input = TRUE]
<1>1. turn[t] \in TurnRecord /\ Shape(t, turn[t]) /\ turn[t].srv = "running"
  BY StartedTurn DEF Asks
<1>2. UNCHANGED <<hints, cur, served, faults>> /\ faults \in 0 .. MaxFaults /\ Update(t, r)
  BY DEF Asks, Inv, TypeOK
<1>3. /\ r \in TurnRecord /\ r.by = turn[t].by /\ r.srv = "asking" /\ r.rpc = turn[t].rpc
      /\ r.reg = turn[t].reg /\ r.done = turn[t].done
  BY <1>1 DEF TurnRecord, Live
<1>4. Shape(t, r)
  BY <1>1, <1>3 DEF Shape, TurnRecord, Live
<1>5. Owed(turn[t])
  BY <1>1 DEF Owed, Live
<1> HIDE DEF r
<1> QED BY <1>1, <1>2, <1>3, <1>4, <1>5, UpdateStep

\* The reply of a start: adopted with the failures held for it, refused, or broken.
LEMMA ReplyStep ==
  ASSUME Inv, NEW t \in Turns, Reply(t)
  PROVE  Inv'
<1> DEFINE r == turn[t]
           c == r.by
           heard == pc[c] = "sent" /\ cur[c] = t
           rpc == IF heard THEN "closed" ELSE r.rpc
           ok == [Adopted(t, r) EXCEPT !.rpc = rpc]
           refused == [r EXCEPT !.reply = "bad", !.due = {}, !.rpc = rpc]
           bad == [Kept(r) EXCEPT !.reply = "bad", !.due = @ \ {"reply"}]
<1>1. r.srv # "none"
  <2>1. r.srv = "none" => r.due = {}
    BY DEF Inv, TurnInv, Shape, NoTurn
  <2> QED BY <2>1 DEF Reply
<1>2. /\ r \in TurnRecord /\ Shape(t, r) /\ r.srv \in {"running", "asking", "ended", "refused"}
      /\ r.reply = "none" /\ r.rpc \in {"open", "kept"} /\ ~r.confirmed /\ ~r.reg
  <2>1. r \in TurnRecord /\ Shape(t, r) /\ "reply" \in r.due
    BY <1>1, StartedTurn DEF Reply
  <2> QED BY <2>1 DEF Shape
<1>3. /\ cur[c] = t /\ pc[c] \in {"sent", "pending"} /\ pc[c] \in Places /\ c \in Callers
      /\ r.rpc = "open" <=> heard
  <2>1. Owed(r) \/ r.rpc = "open"
    BY <1>2 DEF Owed
  <2>2. cur[c] = t /\ pc[c] # "idle" /\ Stands(pc[c], r) /\ (r.rpc = "open" <=> pc[c] = "sent") /\ pc[c] \in Places
    BY <1>1, <2>1, StartedTurn
  <2>3. pc[c] \in {"sent", "pending"}
    BY <1>2, <2>2 DEF Stands, ActivePlaces, Places, Busy
  <2> QED BY <1>1, <2>2, <2>3, StartedTurn
<1>4. /\ hints' = [hints EXCEPT ![t] = {}] /\ cur' = cur
      /\ served' \subseteq Callers /\ faults' \in 0 .. MaxFaults
  BY BoundsAssumption DEF Reply, Fault, Inv, TypeOK
<1>5. CASE r.srv # "refused" /\ turn' = [turn EXCEPT ![t] = ok]
           /\ pc' = IF heard THEN [pc EXCEPT ![c] = "started"] ELSE pc
  <2> DEFINE s == IF heard THEN "started" ELSE "pending"
  <2>1. pc' = [pc EXCEPT ![c] = s]
    BY <1>3, <1>5 DEF Inv, TypeOK
  <2> DEFINE f == IF Matching(t) = {} THEN 0 ELSE (CHOOSE h \in Matching(t) : TRUE).of
  <2>2. f \in {0, t}
    BY <1>2, MatchingIsOwn
  <2>3. /\ ok \in TurnRecord /\ ok.by = c /\ ok.srv = r.srv /\ ok.reply = "adopted" /\ ok.reg
        /\ ok.due = r.due \ {"reply"} /\ ok.fail = f /\ ok.rpc = rpc /\ ok.done = r.done
        /\ ok.confirmed = r.confirmed
    <3> DEFINE i == r.input /\ Matching(t) = {}
               a == [r EXCEPT !.reply = "adopted", !.reg = TRUE, !.due = @ \ {"reply"},
                              !.fail = f, !.input = i]
    <3>1. Adopted(t, r) = a /\ i \in BOOLEAN
      BY DEF Adopted
    <3>2. rpc \in {"closed", "open", "kept"}
      BY <1>2
    <3>4. ok = [a EXCEPT !.rpc = rpc]
      BY <3>1
    <3> HIDE DEF f, i, r, rpc, ok
    <3>3. /\ a \in TurnRecord /\ a.by = c /\ a.srv = r.srv /\ a.reply = "adopted" /\ a.reg
          /\ a.due = r.due \ {"reply"} /\ a.fail = f /\ a.done = r.done /\ a.confirmed = r.confirmed
      BY <1>2, <2>2, <3>1 DEF TurnRecord
    <3> HIDE DEF a
    <3> QED BY <1>2, <3>2, <3>3, <3>4 DEF TurnRecord
  <2> HIDE DEF ok, f
  <2>4. Shape(t, ok)
    BY <1>2, <1>3, <1>5, <2>2, <2>3 DEF Shape, Live
  <2>5. Stands(s, ok) /\ (ok.rpc = "open" <=> s = "sent")
    BY <1>2, <1>3, <2>3 DEF Stands, ActivePlaces
  <2>6. s \in Places \ {"idle"}
    BY DEF Places, Busy
  <2>7. /\ turn' = [turn EXCEPT ![t] = ok] /\ r.srv # "lost" /\ ok.srv # "none"
        /\ ok \in TurnRecord /\ ok.by = r.by /\ cur[ok.by] = t
        /\ pc' = [pc EXCEPT ![ok.by] = s]
    BY <1>2, <1>3, <1>5, <2>1, <2>3
  <2> HIDE DEF s, heard, rpc
  <2> QED BY <1>1, <1>4, <2>4, <2>5, <2>6, <2>7, OneTurnStep
<1>6. CASE r.srv = "refused" /\ turn' = [turn EXCEPT ![t] = refused]
           /\ pc' = IF heard THEN [pc EXCEPT ![c] = "idle"] ELSE pc
  <2> DEFINE s == IF heard THEN "idle" ELSE "pending"
  <2>1. pc' = [pc EXCEPT ![c] = s]
    BY <1>3, <1>6 DEF Inv, TypeOK
  <2>2. /\ refused \in TurnRecord /\ refused.by = c /\ refused.srv = "refused" /\ refused.rpc = rpc
        /\ refused.due = {} /\ refused.reply = "bad" /\ ~refused.reg
    BY <1>2, <1>6 DEF TurnRecord
  <2>3. Shape(t, refused)
    BY <1>2, <1>3, <2>2 DEF Shape, TurnRecord, Live
  <2>4. /\ Stands(s, refused) /\ (refused.rpc = "open" <=> s = "sent")
        /\ Owed(refused) => s # "idle"
    BY <1>2, <1>3, <2>2 DEF Stands, ActivePlaces, Owed, Live
  <2>5. s \in Places
    BY DEF Places, Busy
  <2>6. /\ turn' = [turn EXCEPT ![t] = refused] /\ r.srv # "lost" /\ refused.srv # "none"
        /\ refused \in TurnRecord /\ refused.by = r.by /\ cur[refused.by] = t
        /\ pc' = [pc EXCEPT ![refused.by] = s]
    BY <1>2, <1>3, <1>6, <2>1, <2>2
  <2> HIDE DEF refused, s, heard, rpc
  <2> QED BY <1>1, <1>4, <2>3, <2>4, <2>5, <2>6, OneTurnStep
<1>7. CASE r.srv # "refused" /\ turn' = [turn EXCEPT ![t] = bad]
           /\ pc' = IF heard THEN [pc EXCEPT ![c] = "pending"] ELSE pc
  <2>1. pc' = [pc EXCEPT ![c] = "pending"]
    BY <1>3, <1>7 DEF Inv, TypeOK
  <2>2. /\ bad \in TurnRecord /\ bad.by = c /\ bad.srv = r.srv /\ bad.rpc = "kept"
        /\ bad.due = r.due \ {"reply"} /\ bad.reply = "bad" /\ ~bad.reg
    BY <1>2 DEF TurnRecord, Kept
  <2>3. Shape(t, bad)
    BY <1>2, <2>2 DEF Shape, TurnRecord, Live, Kept
  <2>4. Stands("pending", bad)
    BY <2>2 DEF Stands, ActivePlaces
  <2>5. /\ turn' = [turn EXCEPT ![t] = bad] /\ r.srv # "lost" /\ bad.srv # "none"
        /\ bad \in TurnRecord /\ bad.by = r.by /\ cur[bad.by] = t
        /\ pc' = [pc EXCEPT ![bad.by] = "pending"] /\ bad.rpc # "open" /\ "pending" \in Places
    BY <1>2, <1>3, <1>7, <2>1, <2>2 DEF Places
  <2> HIDE DEF bad, heard, rpc
  <2> QED BY <1>1, <1>4, <2>3, <2>4, <2>5, OneTurnStep
<1> QED BY <1>5, <1>6, <1>7 DEF Reply

\* A broken frame: whatever turn it fails, or whatever start keeps it while its
\* process is there, it is the turn the frame was about, however little of the
\* ids is left; the turn that runs on a thread is the only one that is owed.
LEMMA FrameStep ==
  ASSUME Inv, NEW t \in Turns, NEW h \in Hint, Frame(t, h)
  PROVE  Inv'
<1>1. /\ turn[t] \in TurnRecord /\ Shape(t, turn[t]) /\ Owed(turn[t])
      /\ turn[t].srv \in {"running", "asking"} /\ cur[turn[t].by] = t
      /\ h.of = t /\ (h.thread \/ h.turn)
  BY StartedTurn DEF Frame, Owed, Live
<1>2. UNCHANGED <<cur, served>> /\ served \subseteq Callers /\ faults' \in 0 .. MaxFaults
  <2>1. UNCHANGED <<cur, served>> /\ Fault
    BY DEF Frame
  <2> QED BY <2>1, BoundsAssumption DEF Fault, Inv, TypeOK
<1>3. CASE /\ UNCHANGED hints
           /\ \E u \in Turns : /\ turn[u].reg /\ ~turn[u].done
                               /\ h.thread => turn[u].by = turn[t].by
                               /\ h.turn => u = t
                               /\ Update(u, [turn[u] EXCEPT !.fail = t, !.input = FALSE])
  <2>1. PICK u \in Turns : /\ turn[u].reg /\ ~turn[u].done
                           /\ h.thread => turn[u].by = turn[t].by
                           /\ h.turn => u = t
                           /\ Update(u, [turn[u] EXCEPT !.fail = t, !.input = FALSE])
    BY <1>3
  <2>2. u = t
    <3>1. turn[u].srv # "none"
      BY <2>1 DEF Inv, TurnInv, Shape, NoTurn
    <3>2. cur[turn[u].by] = u
      BY <2>1, <3>1, StartedTurn DEF Owed
    <3> QED BY <1>1, <2>1, <3>2
  <2> DEFINE r == [turn[t] EXCEPT !.fail = t, !.input = FALSE]
  <2>3. /\ r \in TurnRecord /\ r.by = turn[t].by /\ r.srv = turn[t].srv /\ r.rpc = turn[t].rpc
        /\ r.reg = turn[t].reg /\ r.done = turn[t].done /\ Update(t, r)
    BY <1>1, <2>1, <2>2 DEF TurnRecord
  <2>4. Shape(t, r)
    BY <1>1, <2>3 DEF Shape, TurnRecord, Live
  <2> HIDE DEF r
  <2> QED BY <1>1, <1>2, <1>3, <2>3, <2>4, UpdateStep
<1>4. CASE /\ UNCHANGED <<turn, pc>>
           /\ \E u \in Turns : /\ turn[u].rpc \in {"open", "kept"} /\ turn[u].reply = "none"
                               /\ h.thread => turn[u].by = turn[t].by
                               /\ hints' = [hints EXCEPT ![u] = @ \cup {h}]
  <2>1. PICK u \in Turns : /\ turn[u].rpc \in {"open", "kept"} /\ turn[u].reply = "none"
                           /\ h.thread => turn[u].by = turn[t].by
                           /\ hints' = [hints EXCEPT ![u] = @ \cup {h}]
    BY <1>4
  <2>2. turn[u].srv # "lost" /\ h.thread => u = t
    <3>1. turn[u].srv # "none" /\ ~turn[u].confirmed
      BY <2>1 DEF Inv, TurnInv, Shape, NoTurn
    <3>2. turn[u].srv # "lost" => cur[turn[u].by] = u
      BY <2>1, <3>1, StartedTurn DEF Owed
    <3> QED BY <1>1, <2>1, <3>2
  <2>3. \A w \in Turns : HintInv(w)'
    BY <1>1, <1>4, <2>1, <2>2 DEF Inv, TypeOK, HintInv
  <2>4. hints' \in [Turns -> SUBSET Hint]
    BY <2>1 DEF Inv, TypeOK
  <2>5. TypeOK'
    BY <1>2, <1>4, <2>4 DEF Inv, TypeOK
  <2>6. (\A w \in Turns : TurnInv(w)') /\ (\A c \in Callers : CallerInv(c)')
    BY <1>2, <1>4 DEF Inv, TurnInv, CallerInv, Of
  <2> QED BY <2>3, <2>5, <2>6 DEF Inv
<1> QED BY <1>3, <1>4 DEF Frame

\* A start: the receipt of an earlier one, or a fresh turn on a thread that owes
\* nothing.
LEMMA StartStep ==
  ASSUME Inv, NEW c \in Callers, Start(c)
  PROVE  Inv'
<1>0. UNCHANGED <<hints, served, faults>> /\ pc[c] \in {"idle", "pending"}
  BY DEF Start
<1>1. \A t \in Turns : turn[t].by = c /\ turn[t].srv # "none" /\ Owed(turn[t]) => t = cur[c] /\ pc[c] = "pending"
  BY <1>0 DEF Inv, TurnInv
<1>2. CASE Unadopted(c) # {}
  <2>1. PICK t \in Unadopted(c) : cur' = [cur EXCEPT ![c] = t]
    BY <1>2 DEF Start
  <2>2. t \in Turns /\ turn[t].by = c /\ Owed(turn[t])
    BY <2>1 DEF Unadopted, Finished, Owed
  <2>3. cur[c] = t /\ pc[c] = "pending"
    <3>1. turn[t].srv # "none"
      BY <2>2 DEF Inv, TurnInv, Shape, Owed, NoTurn, Live
    <3> QED BY <1>1, <2>2, <3>1
  <2>4. cur' = cur /\ pc' = pc /\ turn' = turn
    <3>1. pc' = [pc EXCEPT ![c] = "pending"] /\ turn' = turn
      BY <1>2 DEF Start, Goto
    <3> QED BY <2>1, <2>3, <3>1 DEF Inv, TypeOK
  <2> QED BY <1>0, <2>4 DEF Inv, TypeOK, TurnInv, HintInv, CallerInv, Of
<1>3. CASE Unadopted(c) = {}
  <2>1. PICK t \in Turns : /\ turn[t].srv = "none"
                           /\ turn' = [turn EXCEPT ![t] = [NoTurn EXCEPT !.by = c, !.srv = "sent", !.rpc = "open"]]
                           /\ cur' = [cur EXCEPT ![c] = t] /\ pc' = [pc EXCEPT ![c] = "sent"]
    BY <1>3 DEF Start, Goto
  <2> DEFINE r == [NoTurn EXCEPT !.by = c, !.srv = "sent", !.rpc = "open"]
  <2>2. r \in TurnRecord /\ Shape(t, r) /\ r.by = c /\ r.srv = "sent" /\ r.rpc = "open"
    BY DEF NoTurn, TurnRecord, Shape, Live
  <2>3. turn[t] = NoTurn /\ turn \in [Turns -> TurnRecord] /\ cur \in [Callers -> {0} \cup Turns] /\ pc \in [Callers -> Places]
    BY <2>1 DEF Inv, TurnInv, Shape, TypeOK, TurnRecord, Places
  <2>4. ASSUME NEW u \in Turns, turn[u].by = c, turn[u].srv # "none" PROVE ~Owed(turn[u])
    <3>1. SUFFICES ASSUME Owed(turn[u]) PROVE FALSE
      OBVIOUS
    <3>2. u = cur[c] /\ pc[c] = "pending"
      BY <1>1, <2>4, <3>1
    <3>3. turn[u].rpc = "kept" /\ Shape(u, turn[u])
      BY <3>2, CurrentTurn DEF Stands
    <3>4. turn[u].srv # "lost" /\ ~Finished(u)
      BY <3>1, <3>3 DEF Owed, Shape, Finished, Live
    <3>5. u \in Unadopted(c)
      BY <2>4, <3>3, <3>4 DEF Unadopted
    <3> QED BY <1>3, <3>5
  <2>5. /\ \A u \in Turns : turn'[u] = IF u = t THEN r ELSE turn[u]
        /\ \A d \in Callers : /\ pc'[d] = IF d = c THEN "sent" ELSE pc[d]
                              /\ cur'[d] = IF d = c THEN t ELSE cur[d]
    BY <2>1, <2>3
  <2> HIDE DEF r
  <2>6. \A d \in Callers \ {c} : pc[d] # "idle" => cur[d] # t
    BY <2>1 DEF Inv, CallerInv, Of
  <2>7. TypeOK'
    <3>1. ASSUME NEW u \in Turns
          PROVE  turn'[u].rpc = "open" <=> \E d \in Callers : pc'[d] = "sent" /\ cur'[d] = u
      <4>1. turn[u].rpc = "open" <=> \E d \in Callers : pc[d] = "sent" /\ cur[d] = u
        BY DEF Inv, TypeOK
      <4>2. CASE u = t
        BY <2>2, <2>5, <4>2
      <4>3. CASE u # t
        BY <1>0, <2>5, <4>1, <4>3
      <4> QED BY <4>2, <4>3
    <3>2. turn' \in [Turns -> TurnRecord] /\ pc' \in [Callers -> Places] /\ cur' \in [Callers -> {0} \cup Turns]
      <4>1. turn' = [turn EXCEPT ![t] = r]
        BY <2>1 DEF r
      <4> QED BY <2>1, <2>2, <2>3, <4>1 DEF Places, Busy
    <3> QED BY <1>0, <3>1, <3>2 DEF Inv, TypeOK, TurnRecord, Places
  <2>8. ASSUME NEW u \in Turns PROVE TurnInv(u)' /\ HintInv(u)'
    <3>1. CASE u = t
      <4>1. HintInv(t)'
        BY <1>0, <2>1, <2>2, <2>5 DEF Inv, HintInv
      <4> QED BY <2>2, <2>5, <3>1, <4>1 DEF TurnInv
    <3>2. CASE u # t
      <4>1. TurnInv(u) /\ HintInv(u) /\ turn'[u] = turn[u]
        BY <2>5, <3>2 DEF Inv
      <4>2. Owed(turn[u]) => turn[u].by \in Callers /\ turn[u].srv # "none"
        BY <4>1 DEF TurnInv, Shape, Owed, NoTurn, Live
      <4>3. Owed(turn[u]) => cur'[turn[u].by] = u /\ pc'[turn[u].by] # "idle"
        BY <2>4, <2>5, <4>1, <4>2 DEF TurnInv
      <4> QED BY <1>0, <4>1, <4>3 DEF TurnInv, HintInv
    <3> QED BY <3>1, <3>2
  <2>9. ASSUME NEW d \in Callers PROVE CallerInv(d)'
    <3>1. CASE d = c
      BY <2>2, <2>5, <3>1 DEF CallerInv, Of, Stands, ActivePlaces
    <3>2. CASE d # c
      BY <2>5, <2>6, <3>2 DEF Inv, CallerInv, Of
    <3> QED BY <3>1, <3>2
  <2> QED BY <2>7, <2>8, <2>9 DEF Inv
<1> QED BY <1>2, <1>3

\* A loss of the process settles what it ran, and keeps the receipts.
LEMMA LoseStep ==
  ASSUME Inv, Lose
  PROVE  Inv'
<1> DEFINE Gone(r) == [r EXCEPT !.srv = IF @ = "none" THEN @ ELSE "lost", !.due = {}, !.reg = FALSE,
                                !.rpc = IF @ = "open" THEN "kept" ELSE @]
<1>1. /\ \A t \in Turns : turn'[t] = Gone(turn[t]) /\ hints'[t] = {}
      /\ \A c \in Callers : /\ pc'[c] = IF pc[c] \in {"sent", "pending"} THEN "pending" ELSE "idle"
                            /\ cur'[c] = cur[c]
      /\ turn' = [t \in Turns |-> Gone(turn[t])]
  BY DEF Lose
<1>2. ASSUME NEW t \in Turns
      PROVE  /\ turn[t] \in TurnRecord /\ Shape(t, turn[t])
             /\ turn[t].srv = "none" => turn[t] = NoTurn
             /\ turn[t].srv # "none" => Gone(turn[t]).srv = "lost"
             /\ Gone(turn[t]) \in TurnRecord /\ Gone(turn[t]).by = turn[t].by
             /\ ~Gone(turn[t]).reg /\ Gone(turn[t]).due = {} /\ Gone(turn[t]).fail = turn[t].fail
             /\ Gone(turn[t]).confirmed = turn[t].confirmed
             /\ Gone(turn[t]).rpc = IF turn[t].rpc = "open" THEN "kept" ELSE turn[t].rpc
  <2>1. turn[t] \in TurnRecord /\ Shape(t, turn[t])
    BY DEF Inv, TypeOK, TurnInv, TurnRecord
  <2>2. turn[t].srv = "none" => turn[t] = NoTurn
    BY <2>1 DEF Shape
  <2> QED BY <2>1, <2>2 DEF TurnRecord
<1>3. Gone(NoTurn) = NoTurn
  <2>1. Gone(NoTurn) = [NoTurn EXCEPT !.srv = "none", !.due = {}, !.reg = FALSE, !.rpc = "none"]
    BY DEF NoTurn
  <2> DEFINE n == [NoTurn EXCEPT !.srv = "none", !.due = {}, !.reg = FALSE, !.rpc = "none"]
  <2>2. n = NoTurn
    <3>1. n \in TurnRecord /\ NoTurn \in TurnRecord
      BY DEF NoTurn, TurnRecord
    <3>2. /\ n.by = NoTurn.by /\ n.srv = NoTurn.srv /\ n.due = NoTurn.due /\ n.rpc = NoTurn.rpc
          /\ n.reply = NoTurn.reply /\ n.reg = NoTurn.reg /\ n.done = NoTurn.done
          /\ n.input = NoTurn.input /\ n.fail = NoTurn.fail /\ n.confirmed = NoTurn.confirmed
      BY DEF NoTurn
    <3> HIDE DEF n
    <3> QED BY <3>1, <3>2 DEF TurnRecord
  <2> QED BY <2>1, <2>2
<1> HIDE DEF Gone
<1>4. ASSUME NEW t \in Turns PROVE TurnInv(t)' /\ HintInv(t)'
  <2>1. CASE turn[t].srv = "none"
    <3>1. turn'[t] = NoTurn
      BY <1>1, <1>2, <1>3, <2>1
    <3> QED BY <1>1, <3>1 DEF TurnInv, HintInv, Shape, Owed, NoTurn, Live
  <2>2. CASE turn[t].srv # "none"
    <3>1. Shape(t, Gone(turn[t]))
      BY <1>2, <2>2 DEF Shape, Live
    <3>2. ~Owed(Gone(turn[t]))
      BY <1>2, <2>2 DEF Owed, Live
    <3> QED BY <1>1, <1>2, <2>2, <3>1, <3>2 DEF TurnInv, HintInv
  <2> QED BY <2>1, <2>2
<1>5. ASSUME NEW c \in Callers PROVE CallerInv(c)'
  <2>1. CASE pc[c] \in {"sent", "pending"}
    <3>1. cur[c] \in Turns /\ turn[cur[c]].by = c /\ turn[cur[c]].srv # "none" /\ turn[cur[c]].rpc \in {"open", "kept"}
      BY <2>1, CurrentTurn DEF Stands
    <3> QED BY <1>1, <1>2, <2>1, <3>1 DEF CallerInv, Of, Stands, ActivePlaces
  <2>2. CASE pc[c] \notin {"sent", "pending"}
    BY <1>1, <2>2 DEF CallerInv
  <2> QED BY <2>1, <2>2
<1>6. TypeOK'
  <2>1. turn' \in [Turns -> TurnRecord]
    BY <1>1, <1>2
  <2>2. \A t \in Turns : turn'[t].rpc # "open"
    BY <1>1, <1>2
  <2>3. \A c \in Callers : pc'[c] # "sent"
    BY <1>1
  <2>4. hints' \in [Turns -> SUBSET Hint] /\ pc' \in [Callers -> Places]
    BY DEF Lose, Places
  <2>5. cur' \in [Callers -> {0} \cup Turns] /\ served' \subseteq Callers /\ faults' \in 0 .. MaxFaults
    <3>1. cur' = cur /\ served' = {} /\ Fault
      BY DEF Lose
    <3> QED BY <3>1, BoundsAssumption DEF Fault, Inv, TypeOK
  <2> QED BY <2>1, <2>2, <2>3, <2>4, <2>5 DEF TypeOK, TurnRecord, Places
<1> QED BY <1>4, <1>5, <1>6 DEF Inv

\* The invariant holds at first.
LEMMA InvInit == Init => Inv
<1> SUFFICES ASSUME Init PROVE Inv
  OBVIOUS
<1>1. NoTurn \in TurnRecord
  BY DEF NoTurn, TurnRecord
<1>2. \A t \in Turns : Shape(t, NoTurn) /\ ~Owed(NoTurn)
  BY DEF Shape, Owed, NoTurn, Live
<1>3. TypeOK
  <2>1. turn \in [Turns -> TurnRecord]
    BY <1>1 DEF Init
  <2>2. \A t \in Turns : turn[t].rpc # "open"
    BY DEF Init, NoTurn
  <2>3. \A c \in Callers : pc[c] # "sent"
    BY DEF Init
  <2>4. 0 \in 0 .. MaxFaults /\ pc \in [Callers -> Places]
    BY BoundsAssumption DEF Init, Places
  <2> QED BY <2>1, <2>2, <2>3, <2>4 DEF Init, TypeOK, TurnRecord, Places
<1>4. \A t \in Turns : TurnInv(t) /\ HintInv(t)
  BY <1>2 DEF Init, TurnInv, HintInv
<1>5. \A c \in Callers : CallerInv(c)
  BY DEF Init, CallerInv
<1> QED BY <1>3, <1>4, <1>5 DEF Inv

\* Every step keeps it: one step per action.
LEMMA InvStep == Inv /\ [Next]_vars => Inv'
<1> SUFFICES ASSUME Inv, [Next]_vars PROVE Inv'
  OBVIOUS
<1>1. ASSUME NEW c \in Callers, Register(c) PROVE Inv'
  BY <1>1, RegisterStep
<1>2. ASSUME NEW c \in Callers, Interrupted(c) PROVE Inv'
  BY <1>2, InterruptedStep
<1>3. ASSUME NEW c \in Callers, NotInterrupted(c) PROVE Inv'
  BY <1>3, NotInterruptedStep
<1>4. ASSUME NEW c \in Callers, Start(c) PROVE Inv'
  BY <1>4, StartStep
<1>5. ASSUME NEW c \in Callers, GiveUp(c) PROVE Inv'
  BY <1>5, GiveUpStep
<1>6. ASSUME NEW c \in Callers, Withdraw(c) \/ Interrupt(c) \/ Resume(c) PROVE Inv'
  BY <1>6, CallerMoves
<1>7. ASSUME NEW c \in Callers, Continue(c) PROVE Inv'
  BY <1>7, ContinueStep
<1>8. ASSUME NEW c \in Callers, Cleanup(c) PROVE Inv'
  BY <1>8, CleanupStep
<1>9. ASSUME NEW c \in Callers, Serve(c) PROVE Inv'
  BY <1>9 DEF Serve, Inv, TypeOK, TurnInv, HintInv, CallerInv, Of
<1>10. ASSUME NEW t \in Turns, ServerTurns(t) PROVE Inv'
  BY <1>10, ServerTurnsStep
<1>11. ASSUME NEW t \in Turns, Reply(t) PROVE Inv'
  BY <1>11, ReplyStep
<1>12. ASSUME NEW t \in Turns, Completed(t) PROVE Inv'
  BY <1>12, CompletedStep
<1>13. ASSUME NEW t \in Turns, Asks(t) PROVE Inv'
  BY <1>13, AsksStep
<1>14. ASSUME NEW t \in Turns, NEW h \in Hint, Frame(t, h) PROVE Inv'
  BY <1>14, FrameStep
<1>15. CASE Lose
  BY <1>15, LoseStep
<1>16. CASE UNCHANGED vars
  BY <1>16 DEF vars, Inv, TypeOK, TurnInv, HintInv, CallerInv, Of
<1> QED BY <1>1, <1>2, <1>3, <1>4, <1>5, <1>6, <1>7, <1>8, <1>9, <1>10, <1>11, <1>12,
           <1>13, <1>14, <1>15, <1>16 DEF Next

----------------------------------------------------------------------------
\* Every reachable state satisfies the inductive invariant.
THEOREM InvInvariant == Spec => []Inv
<1> QED BY InvInit, InvStep, PTL DEF Spec

\* No turn of a thread runs beside another, or without a caller that answers for
\* it: assertNoUnadoptedStart hands out the receipt of a start whose reply was not
\* seen, and that receipt is the caller's current turn until it is accounted for.
THEOREM TurnsAreOwnedInvariant == Spec => []TurnsAreOwned
<1>1. Inv => TurnsAreOwned
  <2> SUFFICES ASSUME Inv PROVE TurnsAreOwned
    OBVIOUS
  <2>1. NoUnmanagedTurn
    BY DEF Inv, TurnInv, Owed, NoUnmanagedTurn
  <2>2. OneWriter
    BY <2>1 DEF NoUnmanagedTurn, OneWriter
  <2> QED BY <2>1, <2>2 DEF TurnsAreOwned, Inv
<1> QED BY <1>1, InvInvariant, PTL

\* A receipt is given up only when its turn is over (receiptFinished, cleanup).
THEOREM ReleasedIsOverInvariant == Spec => []ReleasedIsOver
<1>1. Inv => ReleasedIsOver
  BY DEF Inv, TurnInv, Shape, ReleasedIsOver
<1> QED BY <1>1, InvInvariant, PTL

\* A broken frame fails its own turn only, whichever of its ids is left and
\* whichever replies are out (rejectProtocolFrame and the hints of registerTurn).
THEOREM FailureIsItsOwnInvariant == Spec => []FailureIsItsOwn
<1>1. Inv => FailureIsItsOwn
  BY DEF Inv, TurnInv, Shape, FailureIsItsOwn
<1> QED BY <1>1, InvInvariant, PTL

\* No wake-up is missed: waitForTurn waits only for what has not happened yet.
THEOREM NoMissedWakeupInvariant == Spec => []NoMissedWakeup
<1>1. Inv => NoMissedWakeup
  BY DEF Inv, CallerInv, Stands, NoMissedWakeup
<1> QED BY <1>1, InvInvariant, PTL

----------------------------------------------------------------------------
(***************************************************************************)
(* The callback that reviews a submission on such a connection.  Its state *)
(* is not that of the turns above: it sees one thread and the last turn of *)
(* it, whatever the client goes through.                                   *)
(*                                                                         *)
(* That a turn is held depends on what the run and the retained Reviewer   *)
(* agree on: which of them answers for a turn that may run (Holds), what   *)
(* is retained at each place of the run (Record), who has the round        *)
(* (Place), and what a readable review has left in both (Reads).           *)
(***************************************************************************)

\* A turn that may run and was not given up, and the places of a turn of the run.
Open == ~missed /\ MayRun
Turning == {"go", "starting", "sent", "started", "waiting", "stopping"}
Parking == {"receipt", "cleanup"}

\* Whatever may run has its round, and nobody starts beside it.
Holds ==
  /\ Open => Here
  /\ Here => pins = 1
  /\ doubled => missed
  /\ stage \in {"create", "bind", "go", "starting"} => ~Open
  /\ stage \in {"confirm", "interrupting"} /\ Open => kept.start \/ kept.intr
  /\ stage = "resuming" /\ Open => kept.start
  /\ stage \in Parking /\ Open => kept.start
  /\ stage \in {"ending", "idle"} /\ Open
       => listed /\ (kept.start \/ kept.intr) /\ (stage = "ending" => run.keep)

Record ==
  /\ kept.start => listed /\ ~kept.intr /\ ~kept.binding
  /\ kept.binding => ~kept.intr
  /\ stage \notin {"idle", "ending"} /\ listed => kept.start
  /\ stage \in {"confirm", "interrupting", "resuming"} /\ kept.start => run.had
  /\ stage = "bind" => ~kept.start
  /\ stage \in Turning /\ kept.start => run.resumed
  /\ kept.start \/ kept.intr => bound

Place ==
  /\ run.aborted => Latched
  /\ stage = "idle" => run = NoRun
  /\ stage = "create" => pins = 1 /\ ~Here /\ ~listed
  /\ stage \in Parking => run.keep
  /\ ~listed /\ (stage \in {"idle"} \cup Parking \/ (stage = "ending" /\ run.keep)) => pins = 0 /\ ~Here
  /\ stage \in {"started", "waiting"} /\ Latched => run.asked \/ run.aborted
  /\ stage \in Turning \cup {"resuming"} => bound
  /\ stage = "interrupting" /\ Here => bound
  /\ (listed \/ stage = "confirm") /\ Here => bound \/ kept.binding

Reads ==
  /\ current # 0 => sends[current] # "new"
  /\ read => bound
  /\ read /\ stage # "idle" => run.text /\ run.kind = "conversion"
  /\ read /\ (listed \/ stage = "confirm") => kept.text /\ (kept.start => kept.kind = "conversion")

CallbackInv == CallbackTypeOK /\ Holds /\ Record /\ Place /\ Reads

\* How a run leaves: its start is kept with the Reviewer, the Reviewer is kept, or
\* nothing is.
Leaves == /\ run' \in Run /\ kept' \in Retained /\ listed' \in BOOLEAN
          /\ run'.aborted = run.aborted /\ run'.text = run.text /\ run'.kind = run.kind
Parks == /\ Leaves /\ stage' = "receipt" /\ run'.keep /\ listed'
         /\ kept'.start /\ ~kept'.intr /\ ~kept'.binding
         /\ read => kept'.text /\ kept'.kind = "conversion"
Retains == /\ Leaves /\ stage' = "ending" /\ run'.keep /\ listed' /\ ~kept'.start /\ kept'.text = run.text
Drops == Leaves /\ stage' = "ending" /\ ~run'.keep /\ kept' = kept /\ listed' = listed

LEMMA EndedRun ==
  ASSUME run \in Run, NEW k \in BOOLEAN
  PROVE  /\ [run EXCEPT !.keep = k] \in Run
         /\ [run EXCEPT !.keep = k].keep = k
         /\ [run EXCEPT !.keep = k].aborted = run.aborted
         /\ [run EXCEPT !.keep = k].text = run.text
         /\ [run EXCEPT !.keep = k].kind = run.kind
  BY DEF Run

LEMMA NoRetainedType == NoRetained \in Retained
  BY DEF NoRetained, Retained, Kinds

\* The readable review is kept with whatever is retained.
LEMMA TextKept ==
  ASSUME run \in Run, NEW k \in Retained
  PROVE  /\ WithText(k) \in Retained /\ WithText(k).text = run.text
         /\ WithText(k).start = k.start /\ WithText(k).intr = k.intr
         /\ WithText(k).binding = k.binding /\ WithText(k).kind = k.kind
  BY DEF WithText, Run, Retained

LEMMA PlainType ==
  ASSUME kept \in Retained
  PROVE  Plain \in Retained /\ ~Plain.start /\ ~Plain.intr /\ Plain.binding = kept.binding
<1>1. kept.binding \in BOOLEAN
  BY DEF Retained
<1>2. ~NoRetained.start /\ ~NoRetained.intr
  BY DEF NoRetained
<1>3. \A k \in Retained, b \in BOOLEAN :
         LET p == [k EXCEPT !.binding = b]
         IN  p \in Retained /\ p.start = k.start /\ p.intr = k.intr /\ p.binding = b
  BY DEF Retained
<1> QED BY <1>1, <1>2, <1>3, NoRetainedType DEF Plain

LEMMA EndedCase ==
  ASSUME run \in Run, kept \in Retained, listed \in BOOLEAN,
         Ended(FALSE), UNCHANGED <<kept, listed>>
  PROVE  Drops
  BY EndedRun DEF Ended, Enter, Drops, Leaves

\* waitInThread retains the thread with what it is given, or nothing.
LEMMA WaitCase ==
  ASSUME run \in Run, kept \in Retained, listed \in BOOLEAN,
         NEW k \in Retained, ~k.start, WaitInThread(k)
  PROVE  \/ Retains /\ Here /\ ~Latched /\ kept'.intr = k.intr /\ kept'.binding = k.binding
         \/ Drops /\ ~(Here /\ ~Latched /\ run.claimed)
<1>1. CASE Here /\ ~Latched /\ run.claimed
  BY <1>1, EndedRun, TextKept DEF WaitInThread, Ended, Enter, Retains, Leaves
<1>2. CASE ~(Here /\ ~Latched /\ run.claimed)
  BY <1>2, EndedCase DEF WaitInThread
<1> QED BY <1>1, <1>2

\* waitForStartReceipt keeps the start that is there, or one of this run.
LEMMA ReceiptCase ==
  ASSUME run \in Run, kept \in Retained, Record, Reads, stage # "idle", WaitForReceipt
  PROVE  Parks
<1>1. run' = [run EXCEPT !.keep = TRUE] /\ stage' = "receipt" /\ listed' = TRUE
  BY DEF WaitForReceipt, Enter
<1>2. run' \in Run /\ run'.keep /\ run'.aborted = run.aborted
      /\ run'.text = run.text /\ run'.kind = run.kind
  BY <1>1, EndedRun
<1>3. CASE run.had /\ kept.start
  <2>1. kept' = kept
    BY <1>3 DEF WaitForReceipt
  <2>2. read => kept.text /\ kept.kind = "conversion"
    BY <1>3 DEF Record, Reads
  <2> QED BY <1>1, <1>2, <1>3, <2>1, <2>2 DEF Parks, Leaves, Record, Retained
<1>4. CASE ~(run.had /\ kept.start)
  <2> DEFINE k == [NoRetained EXCEPT !.start = TRUE, !.kind = run.kind, !.next = run.next,
                                     !.intent = IF Latched THEN "cancel" ELSE "none"]
  <2>1. k \in Retained /\ k.start /\ ~k.intr /\ ~k.binding /\ k.kind = run.kind
    BY DEF NoRetained, Retained, Run, Kinds
  <2>2. kept' = WithText(k)
    BY <1>4 DEF WaitForReceipt
  <2>3. kept' \in Retained /\ kept'.start /\ ~kept'.intr /\ ~kept'.binding
        /\ kept'.text = run.text /\ kept'.kind = run.kind
    BY <2>1, <2>2, TextKept
  <2> QED BY <1>1, <1>2, <2>3 DEF Parks, Leaves, Reads
<1> QED BY <1>3, <1>4

\* The catch of a run, by what it finds.
LEMMA CatchCase ==
  ASSUME run \in Run, kept \in Retained, listed \in BOOLEAN, Record, Reads, NEW e, Catch(e)
  PROVE  \/ Parks /\ Unfinished
         \/ Retains /\ ~Unfinished /\ Here /\ ~Latched /\ (e = "transient" \/ run.aborted)
              /\ ~kept'.intr /\ kept'.binding = kept.binding
         \/ Drops /\ ~Unfinished
<1>1. CASE Unfinished
  <2>1. /\ run' = [run EXCEPT !.keep = TRUE] /\ stage' = "receipt" /\ listed' = TRUE
        /\ kept' = kept \/ kept' = [kept EXCEPT !.intent = "terminal", !.failure = TRUE]
    BY <1>1 DEF Catch, Enter
  <2>2. /\ kept' \in Retained /\ kept'.start = kept.start /\ kept'.intr = kept.intr
        /\ kept'.binding = kept.binding /\ kept'.text = kept.text /\ kept'.kind = kept.kind
    BY <2>1 DEF Retained
  <2>3. kept.start /\ listed /\ ~kept.intr /\ ~kept.binding
    BY <1>1 DEF Unfinished, Record
  <2>4. read => kept.text /\ kept.kind = "conversion"
    BY <2>3 DEF Reads
  <2> QED BY <1>1, <2>1, <2>2, <2>3, <2>4, EndedRun DEF Parks, Leaves
<1>2. CASE ~Unfinished /\ (e = "transient" \/ run.aborted)
  <2>1. WaitInThread(Plain)
    BY <1>2 DEF Catch
  <2> QED BY <1>2, <2>1, WaitCase, PlainType
<1>3. CASE ~Unfinished /\ ~(e = "transient" \/ run.aborted)
  BY <1>3, EndedCase DEF Catch
<1> QED BY <1>1, <1>2, <1>3

----------------------------------------------------------------------------
\* What a step of a run leaves alone, and what it may do to the turn.
CallbackFrame ==
  /\ UNCHANGED <<cleaning, thread, pins, bound, latch, stop, callVars, read>>
  /\ last' \in {"none", "sent", "bad", "running", "over"} /\ mishaps' \in 0 .. MaxMishaps
  /\ doubled' \in BOOLEAN /\ missed' \in BOOLEAN /\ (doubled' => missed')

LEMMA FaultType ==
  ASSUME CallbackTypeOK, Mishap \/ NoMishap
  PROVE  mishaps' \in 0 .. MaxMishaps
  BY CallbackBounds DEF CallbackTypeOK, Mishap, NoMishap

LEMMA ParksStep ==
  ASSUME CallbackInv, CallbackFrame, Parks, stage # "idle", bound, Open' => Here
  PROVE  CallbackInv'
<1>1. CallbackTypeOK'
  BY DEF CallbackInv, CallbackTypeOK, CallbackFrame, Parks, Leaves, callVars, Stages
<1>2. Holds'
  BY DEF CallbackInv, Holds, CallbackFrame, Parks, Here, Parking
<1>3. Record'
  BY DEF CallbackInv, CallbackFrame, Parks, Record, Turning
<1>4. Place'
  BY DEF CallbackInv, Place, CallbackFrame, Parks, Leaves, Latched, Parking, Turning
<1>5. Reads'
  BY DEF CallbackInv, Reads, CallbackFrame, Parks, Leaves, callVars
<1> QED BY <1>1, <1>2, <1>3, <1>4, <1>5 DEF CallbackInv

LEMMA RetainsStep ==
  ASSUME CallbackInv, CallbackFrame, Retains, stage # "idle", Here, bound \/ kept'.binding,
         kept'.intr => bound /\ ~kept'.binding, Open' => kept'.intr
  PROVE  CallbackInv'
<1>1. CallbackTypeOK'
  BY DEF CallbackInv, CallbackTypeOK, CallbackFrame, Retains, Leaves, callVars, Stages
<1>2. Holds'
  BY DEF CallbackInv, Holds, CallbackFrame, Retains, Here, Parking
<1>3. Record'
  BY DEF CallbackInv, CallbackFrame, Retains, Record, Turning
<1>4. Place'
  BY DEF CallbackInv, Place, CallbackFrame, Retains, Leaves, Latched, Parking, Turning
<1>5. Reads'
  BY DEF CallbackInv, Reads, CallbackFrame, Retains, Leaves, callVars
<1> QED BY <1>1, <1>2, <1>3, <1>4, <1>5 DEF CallbackInv

LEMMA DropsStep ==
  ASSUME CallbackInv, CallbackFrame, Drops, stage \notin {"idle", "ending"}, ~Open'
  PROVE  CallbackInv'
<1>1. CallbackTypeOK'
  BY DEF CallbackInv, CallbackTypeOK, CallbackFrame, Drops, Leaves, callVars, Stages
<1>2. Holds'
  BY DEF CallbackInv, Holds, CallbackFrame, Drops, Here, Parking
<1>3. Record'
  BY DEF CallbackInv, CallbackFrame, Drops, Record, Turning
<1>4. Place'
  BY DEF CallbackInv, Place, CallbackFrame, Drops, Leaves, Latched, Parking, Turning, Here
<1>5. Reads'
  BY DEF CallbackInv, Reads, CallbackFrame, Drops, Leaves, callVars
<1> QED BY <1>1, <1>2, <1>3, <1>4, <1>5 DEF CallbackInv

\* The catch of a run, when no turn can be open that it has no receipt of.
LEMMA CatchStep ==
  ASSUME CallbackInv, CallbackFrame, NEW e, Catch(e), stage \in Turning \cup {"interrupting"},
         Open' => Unfinished /\ Here
  PROVE  CallbackInv'
<1>1. run \in Run /\ kept \in Retained /\ listed \in BOOLEAN /\ Record /\ Reads
  BY DEF CallbackInv, CallbackTypeOK
<1>2. stage \notin {"idle", "ending"}
  BY DEF Turning
<1>3. Here => bound
  BY DEF CallbackInv, Place
<1>4. Unfinished => bound
  BY <1>1 DEF Unfinished, Record
<1>5. CASE Parks /\ Unfinished
  BY <1>2, <1>4, <1>5, ParksStep
<1>6. CASE Retains /\ ~Unfinished /\ Here /\ ~kept'.intr
  BY <1>2, <1>3, <1>6, RetainsStep
<1>7. CASE Drops /\ ~Unfinished
  BY <1>2, <1>7, DropsStep
<1> QED BY <1>1, <1>5, <1>6, <1>7, CatchCase

LEMMA ReceiptStep ==
  ASSUME CallbackInv, CallbackFrame, WaitForReceipt, stage \in Turning \cup {"resuming"}, Open' => Here
  PROVE  CallbackInv'
<1>1. run \in Run /\ kept \in Retained /\ Record /\ Reads
  BY DEF CallbackInv, CallbackTypeOK
<1>2. stage # "idle" /\ bound
  BY DEF CallbackInv, Place, Turning
<1>3. Parks
  BY <1>1, <1>2, ReceiptCase
<1> QED BY <1>2, <1>3, ParksStep

----------------------------------------------------------------------------
\* The consumer that registers is not the one that is registered.
LEMMA NewConsumer ==
  ASSUME CallbackInv, NEW e \in 1 .. MaxSends, Send(e)
  PROVE  /\ current # e /\ sends' \in [1 .. MaxSends -> {"new", "waiting", "settled"}]
         /\ current' \in 0 .. MaxSends /\ (current' # 0 => sends'[current'] # "new")
         /\ stage # "idle" => run' = run
<1>1. current # e
  BY DEF CallbackInv, Reads, Send, CallbackTypeOK
<1>2. CASE Refused
  <2>1. current' = current /\ run' = run /\ sends' = [sends EXCEPT ![e] = "settled"]
    BY <1>2 DEF Send
  <2>2. sends' \in [1 .. MaxSends -> {"new", "waiting", "settled"}]
    BY <2>1 DEF CallbackInv, CallbackTypeOK
  <2>3. current # 0 => sends'[current] # "new"
    BY <2>1 DEF CallbackInv, CallbackTypeOK, Reads
  <2> QED BY <1>1, <2>1, <2>2, <2>3 DEF CallbackInv, CallbackTypeOK
<1>3. CASE ~Refused
  <2>1. current' = e /\ sends' = [Superseded(sends) EXCEPT ![e] = "waiting"]
    BY <1>3 DEF Send
  <2>2. Superseded(sends) \in [1 .. MaxSends -> {"new", "waiting", "settled"}]
    BY DEF Superseded, Unwaited, CallbackInv, CallbackTypeOK
  <2>3. sends' \in [1 .. MaxSends -> {"new", "waiting", "settled"}] /\ sends'[e] = "waiting"
    BY <2>1, <2>2
  <2>4. stage # "idle" => run' = run
    BY <1>1, <1>3 DEF Send, CancelWait, IsObserver
  <2> QED BY <1>1, <2>1, <2>3, <2>4, CallbackBounds
<1> QED BY <1>2, <1>3

\* A run begins with what is retained: for any turn that may run, its receipt or
\* its interruption comes first.
LEMMA BeginCase ==
  ASSUME CallbackInv, stage = "idle", Begin
  PROVE  /\ run' \in Run /\ ~run'.aborted /\ run'.had = listed
         /\ listed => run'.text = kept.text
         /\ listed /\ kept.start => run'.kind = kept.kind
         /\ listed /\ ~kept.start /\ kept.text => run'.kind = "conversion"
         /\ listed' \in BOOLEAN /\ (listed' <=> listed /\ kept.start) /\ pins' \in 0 .. 1
         /\ kept' \in Retained /\ (listed => kept' = kept)
         /\ ~listed => stage' = "create" /\ pins' = 1 /\ kept' = NoRetained
         /\ listed => pins' = pins
         /\ listed => \/ stage' \in {"confirm", "interrupting"}
                       /\ (kept.binding /\ Here => stage' # "interrupting")
                      \/ stage' = "bind" /\ kept.binding
<1>1. run \in Run /\ kept \in Retained /\ listed \in BOOLEAN /\ pins \in 0 .. 1
  BY DEF CallbackInv, CallbackTypeOK
<1>2. run' \in Run /\ ~run'.aborted /\ run'.had = listed
  <2> DEFINE t == listed /\ kept.text
             k == IF listed /\ kept.start THEN kept.kind
                  ELSE IF listed /\ kept.text THEN "conversion" ELSE "visible"
             n == IF listed THEN kept.next ELSE 0
  <2>1. t \in BOOLEAN /\ k \in Kinds /\ n \in 0 .. 1
    BY <1>1 DEF Retained, Kinds
  <2>2. run' = [NoRun EXCEPT !.had = listed, !.claimed = listed, !.text = t, !.kind = k, !.next = n]
    BY DEF Begin
  <2> HIDE DEF t, k, n
  <2>3. run' = [had |-> listed, claimed |-> listed, kind |-> k, text |-> t, next |-> n, asked |-> FALSE,
                aborted |-> FALSE, error |-> "none", keep |-> FALSE, resumed |-> FALSE]
    BY <2>2 DEF NoRun
  <2> QED BY <1>1, <2>1, <2>3 DEF Run, Errors
<1>3. /\ listed => run'.text = kept.text
      /\ listed /\ kept.start => run'.kind = kept.kind
      /\ listed /\ ~kept.start /\ kept.text => run'.kind = "conversion"
  BY <1>1 DEF Begin, NoRun, Retained
<1>4. kept' \in Retained /\ (listed => kept' = kept)
  BY <1>1, NoRetainedType DEF Begin
<1>5. ~listed => pins = 0
  BY DEF CallbackInv, Place
<1>6. ~listed => stage' = "create" /\ pins' = 1 /\ kept' = NoRetained
  BY <1>5 DEF Begin, Enter
<1>7. listed => \/ stage' \in {"confirm", "interrupting"}
                  /\ (kept.binding /\ Here => stage' # "interrupting")
                \/ stage' = "bind" /\ kept.binding
  <2>1. SUFFICES ASSUME listed PROVE stage' = IF kept.failure THEN "confirm"
                                           ELSE IF kept.binding /\ Here THEN "bind" ELSE "interrupting"
    OBVIOUS
  <2> QED BY <2>1 DEF Begin, Enter
<1>8. listed' \in BOOLEAN /\ (listed' <=> listed /\ kept.start)
  BY <1>1 DEF Begin, Retained
<1>9. listed => pins' = pins
  BY DEF Begin
<1>10. pins' \in 0 .. 1
  BY <1>1, <1>6, <1>9
<1> QED BY <1>2, <1>3, <1>4, <1>6, <1>7, <1>8, <1>9, <1>10

LEMMA SendStep ==
  ASSUME CallbackInv, NEW e \in 1 .. MaxSends, Send(e)
  PROVE  CallbackInv'
<1> USE DEF CallbackInv
<1>1. UNCHANGED <<cleaning, thread, last, bound, latch, stop, closed, ghostVars, mishaps>>
  BY DEF Send, NoMishap
<1>2. CASE UNCHANGED <<stage, run, kept, listed, pins>>
  <2>1. CallbackTypeOK'
    BY <1>1, <1>2, NewConsumer DEF CallbackTypeOK, ghostVars
  <2>2. Holds'
    BY <1>1, <1>2 DEF Holds, Open, MayRun, Here, ghostVars
  <2>3. Record'
    BY <1>1, <1>2 DEF Record
  <2>4. Place'
    BY <1>1, <1>2 DEF Place, Latched, Here
  <2>5. Reads'
    BY <1>1, <1>2, NewConsumer DEF Reads, ghostVars
  <2> QED BY <2>1, <2>2, <2>3, <2>4, <2>5
<1>3. CASE stage = "idle" /\ Begin /\ ~Refused
  <2>1. bound => listed
    BY <1>3 DEF Refused
  <2>2. CallbackTypeOK'
    <3>1. run' \in Run /\ kept' \in Retained
      BY <1>3, BeginCase
    <3>2. stage' \in Stages
      BY <1>3, BeginCase DEF Stages, CallbackTypeOK
    <3>3. pins' \in 0 .. 1 /\ listed' \in BOOLEAN
      BY <1>3, BeginCase
    <3> QED BY <1>1, <3>1, <3>2, <3>3, NewConsumer DEF CallbackTypeOK, ghostVars
  <2>3. Holds'
    BY <1>1, <1>3, BeginCase DEF Holds, Open, MayRun, Here, ghostVars, Place, Record, Parking
  <2>4. Record'
    <3>1. CASE listed
      BY <1>1, <1>3, <3>1, BeginCase DEF Record, Turning
    <3>2. CASE ~listed
      BY <1>1, <1>3, <3>2, BeginCase DEF NoRetained, Record
    <3> QED BY <3>1, <3>2 DEF CallbackTypeOK
  <2>5. Place'
    BY <1>1, <1>3, BeginCase DEF Place, Latched, Here, Turning, Parking
  <2>6. Reads'
    BY <1>1, <1>3, <2>1, NewConsumer, BeginCase DEF Reads, ghostVars
  <2> QED BY <2>2, <2>3, <2>4, <2>5, <2>6
<1>4. UNCHANGED <<stage, run, kept, listed, pins>> \/ (stage = "idle" /\ Begin /\ ~Refused)
  BY NewConsumer DEF Send
<1> QED BY <1>2, <1>3, <1>4

LEMMA CloseStep ==
  ASSUME CallbackInv, Close
  PROVE  CallbackInv'
  BY DEF Close, NoMishap, CallbackInv, CallbackTypeOK, Holds, Record, Place, Reads, Open, MayRun, Here,
     Latched, ghostVars

LEMMA CreateStep ==
  ASSUME CallbackInv, Create
  PROVE  CallbackInv'
<1> USE DEF CallbackInv
<1>1. CASE Ended(FALSE) /\ UNCHANGED <<thread, last, doubled>>
  <2>1. run \in Run /\ kept \in Retained /\ listed \in BOOLEAN /\ stage = "create"
    BY DEF CallbackTypeOK, Create, At
  <2>2. CallbackFrame
    <3>1. Mishap \/ NoMishap
      BY <1>1 DEF Create
    <3> QED BY <1>1, <3>1, FaultType DEF CallbackFrame, Create, CallbackTypeOK, Holds
  <2>3. ~Open /\ ~Open'
    BY <1>1, <2>1 DEF Create, Holds, Open, MayRun
  <2>4. Drops
    BY <1>1, <2>1, EndedCase DEF Create
  <2> QED BY <2>1, <2>2, <2>3, <2>4, DropsStep
<1>2. CASE /\ ~run.aborted /\ NoMishap
           /\ thread' = "here" /\ last' = "none" /\ doubled' = (doubled \/ MayRun)
           /\ run' = [run EXCEPT !.claimed = TRUE] /\ Enter("bind")
  <2> USE DEF Enter
  <2>1. UNCHANGED <<kept, listed, cleaning, pins, bound, latch, stop, callVars, read, missed>>
        /\ stage = "create"
    BY DEF Create, At
  <2>2. /\ run' \in Run /\ run'.aborted = run.aborted /\ run'.text = run.text /\ run'.kind = run.kind
        /\ run'.had = run.had
    BY <1>2 DEF CallbackTypeOK, Run
  <2>3. CallbackTypeOK'
    BY <1>2, <2>1, <2>2 DEF CallbackTypeOK, NoMishap, callVars, Stages
  <2>4. Holds'
    BY <1>2, <2>1 DEF Holds, Open, MayRun, Here, Place, Parking
  <2>5. Record'
    BY <1>2, <2>1, <2>2 DEF Record, Turning, Place
  <2>6. Place'
    BY <1>2, <2>1, <2>2 DEF Place, Latched, Here, Turning, Parking
  <2>7. Reads'
    BY <1>2, <2>1, <2>2 DEF Reads, callVars
  <2> QED BY <2>3, <2>4, <2>5, <2>6, <2>7
<1> QED BY <1>1, <1>2 DEF Create

\* The binding is written, or the thread is retained with it.
LEMMA BindStep ==
  ASSUME CallbackInv, Bind
  PROVE  CallbackInv'
<1> USE DEF CallbackInv
<1>1. /\ UNCHANGED <<cleaning, thread, last, pins, latch, stop, callVars, ghostVars>>
      /\ stage = "bind" /\ ~Open
      /\ run \in Run /\ kept \in Retained /\ listed \in BOOLEAN
  BY DEF Bind, At, Holds, CallbackTypeOK
<1>2. CASE /\ bound' = TRUE /\ kept' = [kept EXCEPT !.binding = FALSE] /\ Enter("interrupting")
           /\ NoMishap /\ UNCHANGED <<run, listed>>
  <2>1. /\ kept' \in Retained /\ kept'.start = kept.start /\ kept'.intr = kept.intr /\ ~kept'.binding
        /\ kept'.text = kept.text /\ kept'.kind = kept.kind
    BY <1>1, <1>2 DEF Retained
  <2>2. stage' = "interrupting" /\ ~Open'
    BY <1>1, <1>2 DEF Enter, Open, MayRun, ghostVars
  <2>3. CallbackTypeOK'
    BY <1>1, <1>2, <2>1, <2>2 DEF CallbackTypeOK, NoMishap, callVars, ghostVars, Stages
  <2>4. Holds'
    BY <1>1, <1>2, <2>2 DEF Holds, Here, ghostVars, Parking
  <2>5. ~kept.start
    BY <1>1 DEF Record
  <2>6. Record'
    BY <1>1, <1>2, <2>1, <2>2, <2>5 DEF Record, Turning
  <2>7. Place'
    BY <1>1, <1>2, <2>1, <2>2 DEF Place, Latched, Here, Turning, Parking
  <2>8. Reads'
    BY <1>1, <1>2, <2>1, <2>2 DEF Reads, callVars, ghostVars
  <2> QED BY <2>3, <2>4, <2>6, <2>7, <2>8
<1>3. CASE WaitInThread([Plain EXCEPT !.binding = TRUE]) /\ Mishap /\ UNCHANGED bound
  <2> DEFINE k == [Plain EXCEPT !.binding = TRUE]
  <2>1. k \in Retained /\ ~k.start /\ ~k.intr /\ k.binding
    <3>1. Plain \in Retained /\ ~Plain.start /\ ~Plain.intr
      BY <1>1, PlainType
    <3> QED BY <3>1 DEF Retained
  <2> HIDE DEF k
  <2>2. CallbackFrame
    BY <1>1, <1>3, FaultType DEF CallbackFrame, CallbackTypeOK, Holds, ghostVars, callVars
  <2>3. WaitInThread(k)
    BY <1>3 DEF k
  <2>4. ~Open'
    BY <1>1, <1>3 DEF Open, MayRun, ghostVars
  <2> QED BY <1>1, <2>1, <2>2, <2>3, <2>4, WaitCase, RetainsStep, DropsStep
<1> QED BY <1>2, <1>3 DEF Bind

\* Either the old turn is over or held, or a cancel makes the run give it up,
\* which is remembered.
LEMMA ResolveStep ==
  ASSUME CallbackInv, Resolve
  PROVE  CallbackInv'
<1> USE DEF CallbackInv
<1>1. /\ UNCHANGED <<cleaning, thread, pins, bound, latch, stop, callVars, read, doubled>>
      /\ stage = "interrupting"
      /\ run \in Run /\ kept \in Retained /\ listed \in BOOLEAN /\ missed \in BOOLEAN
      /\ last \in {"none", "sent", "bad", "running", "over"}
  BY DEF Resolve, At, CallbackTypeOK
<1>2. ASSUME last' \in {"none", "sent", "bad", "running", "over"}, Mishap \/ NoMishap,
             missed' \in BOOLEAN, missed => missed'
      PROVE  CallbackFrame
  BY <1>1, <1>2, FaultType DEF CallbackFrame, CallbackTypeOK, Holds
<1>3. CASE /\ ~CanRun /\ Catch("terminal") /\ NoMishap
           /\ last' \in {last} \cup (IF kept.intr THEN {"over"} ELSE {})
           /\ missed' = (missed \/ (kept.intr /\ ~listed' /\ MayRun'))
  <2>1. CallbackFrame
    <3>1. missed' \in BOOLEAN
      BY <1>1, <1>3 DEF MayRun, CallbackTypeOK
    <3>2. last' \in {"none", "sent", "bad", "running", "over"}
      BY <1>1, <1>3
    <3> QED BY <1>1, <1>2, <1>3, <3>1, <3>2
  <2>2. Open' => Open /\ ~(kept.intr /\ ~listed')
    BY <1>1, <1>3 DEF Open, MayRun
  <2>3. Open => Here
    BY DEF Holds
  <2>4. Open' => Unfinished
    <3> SUFFICES ASSUME Open' PROVE Unfinished
      OBVIOUS
    <3>1. last # "over" /\ (kept.start \/ kept.intr)
      BY <1>1, <2>2 DEF Holds, Open, MayRun
    <3>2. CASE kept.start
      BY <1>1, <3>1, <3>2 DEF Unfinished, Record
    <3>3. CASE kept.intr /\ ~kept.start
      <4>1. ~listed /\ listed' /\ ~Unfinished
        BY <1>1, <2>2, <3>3 DEF Record, Unfinished
      <4>2. Retains /\ ~Latched /\ run.aborted
        BY <1>1, <1>3, <4>1, CatchCase DEF Drops
      <4> QED BY <4>2 DEF Place
    <3> QED BY <3>1, <3>2, <3>3
  <2> QED BY <1>1, <1>3, <2>1, <2>2, <2>3, <2>4, CatchStep
<1>4. CASE /\ CanRun /\ NoMishap
           /\ \/ /\ ~kept.intr /\ Enter(IF kept.start THEN "resuming" ELSE "go")
                 /\ UNCHANGED <<run, kept, listed, last, missed>>
              \/ /\ kept.intr /\ last' = "over" /\ kept' = [kept EXCEPT !.intr = FALSE] /\ Enter("go")
                 /\ UNCHANGED <<run, listed, missed>>
  <2>1. /\ kept' \in Retained /\ kept'.start = kept.start /\ kept'.binding = kept.binding
        /\ kept'.text = kept.text /\ kept'.kind = kept.kind /\ ~kept'.intr
    BY <1>1, <1>4 DEF Retained
  <2>2. /\ stage' \in {"resuming", "go"} /\ (stage' = "resuming" <=> kept.start)
        /\ last' \in {"none", "sent", "bad", "running", "over"}
        /\ UNCHANGED <<run, listed, missed, mishaps>>
    BY <1>1, <1>4 DEF Enter, NoMishap, Record
  <2>3. Here /\ ~Latched /\ bound
    BY <1>1, <1>4 DEF CanRun, Place
  <2>4. Open' => Open /\ kept.start
    BY <1>1, <1>4, <2>2 DEF Open, MayRun, Holds
  <2>5. CallbackTypeOK'
    BY <1>1, <2>1, <2>2 DEF CallbackTypeOK, callVars, Stages
  <2>6. Holds'
    BY <1>1, <2>1, <2>2, <2>4 DEF Holds, Here, Parking
  <2>7. Record'
    BY <1>1, <2>1, <2>2, <2>3 DEF Record, Turning
  <2>8. Place'
    BY <1>1, <2>2, <2>3 DEF Place, Latched, Here, Turning, Parking
  <2>9. Reads'
    BY <1>1, <2>1, <2>2 DEF Reads, callVars
  <2> QED BY <2>5, <2>6, <2>7, <2>8, <2>9
<1>5. CASE /\ kept.intr /\ Mishap /\ UNCHANGED last
           /\ WaitInThread([Plain EXCEPT !.intr = TRUE])
           /\ missed' = (missed \/ (~listed' /\ MayRun))
  <2> DEFINE k == [Plain EXCEPT !.intr = TRUE]
  <2>1. k \in Retained /\ ~k.start /\ k.intr /\ ~k.binding
    <3>1. Plain \in Retained /\ ~Plain.start /\ ~Plain.binding
      BY <1>1, <1>5, PlainType DEF Record
    <3> QED BY <3>1 DEF Retained
  <2> HIDE DEF k
  <2>2. CallbackFrame
    <3>1. missed' \in BOOLEAN /\ (missed => missed')
      BY <1>1, <1>5 DEF MayRun
    <3> QED BY <1>1, <1>2, <1>5, <3>1
  <2>3. WaitInThread(k) /\ bound
    BY <1>5 DEF k, Record
  <2>4. ~listed
    BY <1>1, <1>5 DEF Record
  <2>5. CASE Retains /\ Here /\ kept'.intr = k.intr /\ kept'.binding = k.binding
    BY <1>1, <2>1, <2>2, <2>3, <2>5, RetainsStep
  <2>6. CASE Drops
    <3>1. ~Open'
      BY <1>1, <1>5, <2>4, <2>6 DEF Open, MayRun, Drops
    <3> QED BY <1>1, <2>2, <2>6, <3>1, DropsStep
  <2> QED BY <1>1, <2>1, <2>3, <2>5, <2>6, WaitCase
<1> QED BY <1>3, <1>4, <1>5 DEF Resolve

\* A start is waited for again only while its receipt is there.
LEMMA ResumeStep ==
  ASSUME CallbackInv, ResumeStart
  PROVE  CallbackInv'
<1> USE DEF CallbackInv
<1>1. /\ UNCHANGED <<cleaning, thread, last, pins, bound, latch, stop, callVars, ghostVars>>
      /\ stage = "resuming"
      /\ run \in Run /\ NoMishap /\ bound
  BY DEF ResumeStart, At, CallbackTypeOK, Place
<1>2. CASE WaitForReceipt
  <2>1. CallbackFrame
    BY <1>1, FaultType DEF CallbackFrame, CallbackTypeOK, Holds, ghostVars
  <2>2. Open' => Here
    BY <1>1 DEF Open, MayRun, Holds, ghostVars
  <2> QED BY <1>1, <1>2, <2>1, <2>2, ReceiptStep
<1>3. CASE /\ run' = [run EXCEPT !.resumed = TRUE, !.error = IF Latched THEN "latch" ELSE "none"]
           /\ Enter(IF Latched THEN "stopping" ELSE "started") /\ UNCHANGED <<kept, listed>>
  <2>1. /\ run' \in Run /\ run'.resumed /\ run'.aborted = run.aborted /\ run'.text = run.text
        /\ run'.kind = run.kind
    <3> DEFINE e == IF Latched THEN "latch" ELSE "none"
    <3>1. e \in Errors
      BY DEF Errors
    <3>2. run' = [run EXCEPT !.resumed = TRUE, !.error = e]
      BY <1>3
    <3> HIDE DEF e
    <3> QED BY <1>1, <3>1, <3>2 DEF Run
  <2>2. stage' \in {"started", "stopping"} /\ (stage' = "started" => ~Latched)
    BY <1>3 DEF Enter
  <2>3. CallbackTypeOK'
    BY <1>1, <1>3, <2>1, <2>2 DEF CallbackTypeOK, callVars, ghostVars, Stages, NoMishap
  <2>4. Holds'
    BY <1>1, <1>3, <2>2 DEF Holds, Here, Parking, Open, MayRun, ghostVars
  <2>5. Record'
    BY <1>1, <1>3, <2>1, <2>2 DEF Record, Turning
  <2>6. Place'
    BY <1>1, <1>3, <2>1, <2>2 DEF Place, Latched, Here, Turning, Parking
  <2>7. Reads'
    BY <1>1, <1>3, <2>1, <2>2 DEF Reads, callVars, ghostVars
  <2> QED BY <2>3, <2>4, <2>5, <2>6, <2>7
<1> QED BY <1>2, <1>3 DEF ResumeStart

\* The turn is over, or it is held for another attempt.
LEMMA ConfirmStep ==
  ASSUME CallbackInv, Confirm
  PROVE  CallbackInv'
<1> USE DEF CallbackInv
<1>1. /\ UNCHANGED <<cleaning, thread, pins, bound, latch, stop, callVars, ghostVars>>
      /\ stage = "confirm"
      /\ run \in Run /\ kept \in Retained /\ mishaps' \in 0 .. MaxMishaps /\ stage' = "ending"
      /\ last' \in {"none", "sent", "bad", "running", "over"}
  BY FaultType DEF Confirm, At, CallbackTypeOK, Ended, Enter
<1>2. CASE /\ last' = (IF kept.start \/ kept.intr THEN "over" ELSE last)
           /\ kept' = [kept EXCEPT !.start = FALSE, !.intr = FALSE] /\ listed' = FALSE /\ Ended(FALSE)
  <2>1. /\ kept' \in Retained /\ ~kept'.start /\ ~kept'.intr /\ kept'.binding = kept.binding
    BY <1>1, <1>2 DEF Retained
  <2>2. /\ run' \in Run /\ ~run'.keep /\ run'.aborted = run.aborted /\ run'.text = run.text
        /\ run'.kind = run.kind
    BY <1>1, <1>2, EndedRun DEF Ended
  <2>3. ~Open'
    BY <1>1, <1>2 DEF Open, MayRun, Holds, ghostVars
  <2>4. CallbackTypeOK'
    BY <1>1, <1>2, <2>1, <2>2 DEF CallbackTypeOK, callVars, ghostVars, Stages
  <2>5. Holds'
    BY <1>1, <2>3 DEF Holds, Here, Parking, ghostVars
  <2>6. Record'
    BY <1>1, <1>2, <2>1 DEF Record, Turning
  <2>7. Place'
    BY <1>1, <1>2, <2>2 DEF Place, Latched, Here, Turning, Parking
  <2>8. Reads'
    BY <1>1, <1>2, <2>2 DEF Reads, callVars, ghostVars
  <2> QED BY <2>4, <2>5, <2>6, <2>7, <2>8
<1>3. CASE Ended(TRUE) /\ listed' = TRUE /\ UNCHANGED <<last, kept>>
  <2>1. /\ run' \in Run /\ run'.keep /\ run'.aborted = run.aborted /\ run'.text = run.text
        /\ run'.kind = run.kind
    BY <1>1, <1>3, EndedRun DEF Ended
  <2>2. CallbackTypeOK'
    BY <1>1, <1>3, <2>1 DEF CallbackTypeOK, callVars, ghostVars, Stages
  <2>3. Holds'
    BY <1>1, <1>3, <2>1 DEF Holds, Here, Parking, ghostVars, Open, MayRun
  <2>4. Record'
    BY <1>1, <1>3 DEF Record, Turning
  <2>5. Place'
    BY <1>1, <1>3, <2>1 DEF Place, Latched, Here, Turning, Parking
  <2>6. Reads'
    BY <1>1, <1>3, <2>1 DEF Reads, callVars, ghostVars
  <2> QED BY <2>2, <2>3, <2>4, <2>5, <2>6
<1> QED BY <1>2, <1>3 DEF Confirm

\* A turn is started only where none may run.
LEMMA GoStep ==
  ASSUME CallbackInv, Go
  PROVE  CallbackInv'
<1> USE DEF CallbackInv
<1>1. /\ UNCHANGED <<cleaning, thread, last, pins, bound, latch, stop, callVars, ghostVars>>
      /\ stage = "go"
      /\ NoMishap /\ ~Open /\ ~Open'
  BY DEF Go, At, Holds, Open, MayRun, ghostVars
<1>2. CASE Enter("starting") /\ UNCHANGED <<run, kept, listed>>
  <2>1. CallbackTypeOK'
    BY <1>1, <1>2 DEF CallbackTypeOK, callVars, ghostVars, Stages, NoMishap, Enter
  <2>2. Holds'
    BY <1>1, <1>2 DEF Holds, Here, Parking, ghostVars, Enter
  <2>3. Record'
    BY <1>1, <1>2 DEF Record, Turning, Enter
  <2>4. Place'
    BY <1>1, <1>2 DEF Place, Latched, Here, Turning, Parking, Enter
  <2>5. Reads'
    BY <1>1, <1>2 DEF Reads, callVars, ghostVars, Enter
  <2> QED BY <2>1, <2>2, <2>3, <2>4, <2>5
<1>3. CASE Catch("terminal")
  <2>1. CallbackFrame
    BY <1>1, FaultType DEF CallbackFrame, CallbackTypeOK, Holds, ghostVars
  <2> QED BY <1>1, <1>3, <2>1, CatchStep DEF Turning
<1> QED BY <1>2, <1>3 DEF Go

\* A visible turn that failed is continued on the same thread, or the run leaves.
LEMMA TurnFailsStep ==
  ASSUME CallbackInv, CallbackFrame, stage \in Turning \ {"go"}, NEW e, TurnFails(e),
         ~Open'
  PROVE  CallbackInv'
<1> USE DEF CallbackInv
<1>1. CASE ContinuesHere(e)
  <2>1. stage' = "go" /\ run' = [run EXCEPT !.next = 1] /\ UNCHANGED <<kept, listed>> /\ run.kind = "visible"
    BY <1>1 DEF TurnFails, Enter, Continues, ContinuesHere
  <2>2. /\ run' \in Run /\ run'.resumed = run.resumed /\ run'.aborted = run.aborted
        /\ run'.text = run.text /\ run'.kind = run.kind
    BY <2>1 DEF CallbackTypeOK, Run
  <2>3. CallbackTypeOK'
    BY <2>1, <2>2 DEF CallbackFrame, CallbackTypeOK, callVars, Stages
  <2>4. Holds'
    BY <2>1 DEF CallbackFrame, Holds, Here, Parking
  <2>5. Record'
    BY <2>1, <2>2 DEF CallbackFrame, Record, Turning
  <2>6. Place'
    BY <2>1, <2>2 DEF CallbackFrame, Place, Latched, Here, Turning, Parking
  <2>7. Reads'
    BY <2>1, <2>2 DEF CallbackFrame, Reads, Turning, callVars
  <2> QED BY <2>3, <2>4, <2>5, <2>6, <2>7
<1>2. CASE Catch(e)
  BY <1>2, CatchStep DEF Turning
<1> QED BY <1>1, <1>2 DEF TurnFails

LEMMA StartTurnStep ==
  ASSUME CallbackInv, StartTurn
  PROVE  CallbackInv'
<1> USE DEF CallbackInv
<1>1. /\ UNCHANGED <<cleaning, thread, pins, bound, latch, stop, callVars, read, missed>>
      /\ stage = "starting"
      /\ run \in Run /\ ~Open /\ mishaps' \in 0 .. MaxMishaps
  BY FaultType DEF StartTurn, At, Holds, CallbackTypeOK
<1>2. CASE /\ ~(run.aborted \/ ~Here) /\ last' = "sent"
           /\ doubled' = (doubled \/ MayRun) /\ Enter("sent")
           /\ run' = [run EXCEPT !.asked = FALSE, !.error = "none"] /\ UNCHANGED <<kept, listed>>
  <2>1. /\ run' \in Run /\ run'.resumed = run.resumed /\ run'.aborted = run.aborted
        /\ run'.text = run.text /\ run'.kind = run.kind
    BY <1>1, <1>2 DEF Run, Errors
  <2>2. CallbackTypeOK'
    BY <1>1, <1>2, <2>1 DEF CallbackTypeOK, callVars, Stages, Enter, MayRun
  <2>3. Holds'
    BY <1>1, <1>2 DEF Holds, Here, Parking, Enter, Open
  <2>4. Record'
    BY <1>1, <1>2, <2>1 DEF Record, Turning, Enter
  <2>5. Place'
    BY <1>1, <1>2, <2>1 DEF Place, Latched, Here, Turning, Parking, Enter
  <2>6. Reads'
    BY <1>1, <1>2, <2>1 DEF Reads, callVars, Enter
  <2> QED BY <2>2, <2>3, <2>4, <2>5, <2>6
<1>3. ASSUME NEW e, Catch(e) \/ TurnFails(e), UNCHANGED <<last, doubled>>
      PROVE  CallbackInv'
  <2>1. CallbackFrame
    BY <1>1, <1>3 DEF CallbackFrame, CallbackTypeOK, Holds
  <2>2. ~Open'
    BY <1>1, <1>3 DEF Open, MayRun
  <2> QED BY <1>1, <1>3, <2>1, <2>2, CatchStep, TurnFailsStep DEF Turning
<1> QED BY <1>2, <1>3 DEF StartTurn

\* The reply is read by the run that waits for it, or kept for its receipt.
LEMMA CallbackReplyStep ==
  ASSUME CallbackInv, ReplyArrives
  PROVE  CallbackInv'
<1> USE DEF CallbackInv
<1>1. /\ UNCHANGED <<cleaning, thread, pins, bound, latch, stop, callVars, ghostVars>>
      /\ run \in Run /\ last = "sent" /\ Here /\ mishaps' \in 0 .. MaxMishaps
      /\ last' \in {"running", "bad", "over"}
  BY FaultType DEF ReplyArrives, CallbackTypeOK
<1>2. CallbackFrame
  BY <1>1 DEF CallbackFrame, CallbackTypeOK, Holds, ghostVars
<1>3. Open' => Open /\ Here
  BY <1>1 DEF Open, MayRun, ghostVars, Here
<1>4. CASE UNCHANGED <<stage, run, kept, listed>>
  <2>1. CallbackTypeOK'
    BY <1>1, <1>4 DEF CallbackTypeOK, callVars, ghostVars
  <2>2. Holds'
    BY <1>1, <1>3, <1>4 DEF Holds, Here, ghostVars
  <2>3. Record'
    BY <1>1, <1>4 DEF Record
  <2>4. Place'
    BY <1>1, <1>4 DEF Place, Latched, Here
  <2>5. Reads'
    BY <1>1, <1>4 DEF Reads, callVars, ghostVars
  <2> QED BY <2>1, <2>2, <2>3, <2>4, <2>5
<1>5. CASE /\ stage = "sent" /\ Enter(Registers)
           /\ run' = [run EXCEPT !.error = IF Latched THEN "latch" ELSE "none"]
           /\ UNCHANGED <<kept, listed>>
  <2>1. /\ run' \in Run /\ run'.resumed = run.resumed /\ run'.aborted = run.aborted
        /\ run'.text = run.text /\ run'.kind = run.kind
    <3> DEFINE x == IF Latched THEN "latch" ELSE "none"
    <3>1. x \in Errors /\ run' = [run EXCEPT !.error = x]
      BY <1>5 DEF Errors
    <3> HIDE DEF x
    <3> QED BY <1>1, <3>1 DEF Run
  <2>2. stage' \in {"started", "stopping"} /\ (stage' = "started" => ~Latched)
    BY <1>5 DEF Enter, Registers
  <2>3. CallbackTypeOK'
    BY <1>1, <1>5, <2>1, <2>2 DEF CallbackTypeOK, callVars, ghostVars, Stages
  <2>4. Holds'
    BY <1>1, <1>3, <2>2 DEF Holds, Here, Parking, ghostVars
  <2>5. Record'
    BY <1>1, <1>5, <2>1, <2>2 DEF Record, Turning
  <2>6. Place'
    BY <1>1, <1>5, <2>1, <2>2 DEF Place, Latched, Here, Turning, Parking
  <2>7. Reads'
    BY <1>1, <1>5, <2>1, <2>2 DEF Reads, callVars, ghostVars
  <2> QED BY <2>3, <2>4, <2>5, <2>6, <2>7
<1>6. CASE stage = "sent" /\ WaitForReceipt
  BY <1>2, <1>3, <1>6, ReceiptStep DEF Turning
<1>7. ASSUME stage = "sent", last' = "over", NEW e, TurnFails(e)
      PROVE  CallbackInv'
  <2>1. ~Open'
    BY <1>7 DEF Open, MayRun
  <2> QED BY <1>2, <1>7, <2>1, TurnFailsStep DEF Turning
<1> QED BY <1>4, <1>5, <1>6, <1>7 DEF ReplyArrives, At

LEMMA CallbackGiveUpStep ==
  ASSUME CallbackInv, GiveUpStart
  PROVE  CallbackInv'
<1> USE DEF CallbackInv
<1>1. /\ UNCHANGED <<cleaning, thread, last, pins, bound, latch, stop, callVars, ghostVars>>
      /\ WaitForReceipt /\ stage = "sent"
  BY DEF GiveUpStart, At
<1>2. CallbackFrame
  BY <1>1, FaultType DEF GiveUpStart, CallbackFrame, CallbackTypeOK, Holds, ghostVars
<1>3. Open' => Here
  BY <1>1 DEF Open, MayRun, Holds, ghostVars
<1> QED BY <1>1, <1>2, <1>3, ReceiptStep DEF Turning

\* Registered and Withdraw move the run on, and change its error only.
LEMMA CallbackMoveStep ==
  ASSUME CallbackInv,
         UNCHANGED <<kept, listed, cleaning, thread, last, pins, bound, latch, stop, callVars, ghostVars>>,
         Mishap \/ NoMishap, stage \in {"started", "waiting"}, stage' \in {"waiting", "stopping"},
         stage' # stage,
         NEW x \in Errors, run' = run \/ run' = [run EXCEPT !.error = x]
  PROVE  CallbackInv'
<1> USE DEF CallbackInv
<1>1. /\ run' \in Run /\ run'.resumed = run.resumed /\ run'.aborted = run.aborted /\ run'.asked = run.asked
      /\ run'.text = run.text /\ run'.kind = run.kind
  BY DEF CallbackTypeOK, Run
<1>2. CallbackTypeOK'
  BY <1>1, FaultType DEF CallbackTypeOK, callVars, ghostVars, Stages
<1>3. Holds'
  BY DEF Holds, Here, Parking, ghostVars, Open, MayRun
<1>4. Record'
  BY <1>1 DEF Record, Turning
<1>5. Place'
  BY <1>1 DEF Place, Latched, Here, Turning, Parking
<1>6. Reads'
  BY <1>1 DEF Reads, callVars, ghostVars
<1> QED BY <1>2, <1>3, <1>4, <1>5, <1>6

LEMMA RegisteredStep ==
  ASSUME CallbackInv, Registered
  PROVE  CallbackInv'
<1>1. "terminal" \in Errors
  BY DEF Errors
<1> QED BY <1>1, CallbackMoveStep DEF Registered, At, Enter

LEMMA WithdrawStep ==
  ASSUME CallbackInv, WithdrawWait
  PROVE  CallbackInv'
<1> DEFINE x == IF run.aborted THEN "abort" ELSE "transient"
<1>1. x \in Errors
  BY DEF Errors
<1>2. run' = [run EXCEPT !.error = x] /\ stage = "waiting" /\ stage' = "stopping"
  BY DEF WithdrawWait, At, Enter
<1> HIDE DEF x
<1> QED BY <1>1, <1>2, CallbackMoveStep DEF WithdrawWait

----------------------------------------------------------------------------
LEMMA LostStep ==
  ASSUME CallbackInv, Lost
  PROVE  CallbackInv'
<1>1. /\ UNCHANGED <<cleaning, thread, last, pins, bound, latch, stop, callVars, ghostVars>>
      /\ stage \in {"started", "waiting"} /\ ~Here /\ NoMishap
  BY DEF Lost
<1>2. CallbackFrame
  BY <1>1, FaultType DEF CallbackInv, CallbackFrame, CallbackTypeOK, Holds, ghostVars
<1>3. ~Open'
  BY <1>1 DEF CallbackInv, Open, MayRun, Holds, ghostVars
<1> QED BY <1>1, <1>2, <1>3, TurnFailsStep DEF Lost, Turning

\* The turn is over, its process is gone, or it is retained for another attempt.
LEMMA StoppingStep ==
  ASSUME CallbackInv, Stopping
  PROVE  CallbackInv'
<1>1. /\ UNCHANGED <<cleaning, thread, pins, bound, latch, stop, callVars, ghostVars>> /\ stage = "stopping"
      /\ run \in Run /\ kept \in Retained /\ listed \in BOOLEAN /\ bound
  BY DEF CallbackInv, Stopping, At, CallbackTypeOK, Place, Turning
<1>2. CallbackFrame
  <2>1. (Mishap \/ NoMishap) /\ last' \in {last, "over"}
    BY DEF Stopping
  <2> QED BY <1>1, <2>1, FaultType DEF CallbackInv, CallbackFrame, CallbackTypeOK, Holds, ghostVars
<1>3. CASE ~Here /\ TurnFails(run.error) /\ UNCHANGED last
  <2>1. ~Open'
    BY <1>1, <1>3 DEF CallbackInv, Open, MayRun, Holds, ghostVars
  <2> QED BY <1>1, <1>2, <1>3, <2>1, TurnFailsStep DEF Turning
<1>4. CASE /\ Here /\ last' = "over"
           /\ IF ContinuesHere(run.error) THEN TurnFails(run.error)
              ELSE IF run.error = "transient" \/ run.aborted THEN WaitInThread(Plain)
              ELSE Ended(FALSE) /\ UNCHANGED <<kept, listed>>
  <2>1. ~Open'
    BY <1>4 DEF Open, MayRun
  <2>2. CASE TurnFails(run.error)
    BY <1>1, <1>2, <2>1, <2>2, TurnFailsStep DEF Turning
  <2>3. CASE WaitInThread(Plain)
    <3>1. (Retains /\ Here /\ ~kept'.intr) \/ Drops
      BY <1>1, <2>3, PlainType, WaitCase
    <3> QED BY <1>1, <1>2, <2>1, <3>1, RetainsStep, DropsStep
  <2>4. CASE Ended(FALSE) /\ UNCHANGED <<kept, listed>>
    BY <1>1, <1>2, <2>1, <2>4, EndedCase, DropsStep
  <2> QED BY <1>4, <2>2, <2>3, <2>4
<1>5. CASE Here /\ last = "running" /\ UNCHANGED last
           /\ WaitForInterruption(run.error \in {"latch", "terminal"})
  <2>1. CASE Unfinished
    <3>1. Catch("terminal")
      BY <1>5, <2>1 DEF WaitForInterruption
    <3> QED BY <1>1, <1>2, <1>5, <2>1, <3>1, CatchStep DEF Turning
  <2>2. CASE ~Unfinished
    <3> DEFINE c == run.error \in {"latch", "terminal"}
               k == [NoRetained EXCEPT !.intr = TRUE, !.failure = c]
    <3>1. k \in Retained /\ ~k.start /\ k.intr /\ ~k.binding
      <4>1. c \in BOOLEAN
        OBVIOUS
      <4> HIDE DEF c
      <4>2. \A r \in Retained, b \in BOOLEAN :
              LET x == [r EXCEPT !.intr = TRUE, !.failure = b]
              IN  x \in Retained /\ x.intr /\ x.start = r.start /\ x.binding = r.binding
        BY DEF Retained
      <4>3. NoRetained \in Retained /\ ~NoRetained.start /\ ~NoRetained.binding
        BY NoRetainedType DEF NoRetained
      <4> QED BY <4>1, <4>2, <4>3
    <3>2. Ended(TRUE) /\ listed' = TRUE /\ kept' = WithText(k)
      BY <1>5, <2>2 DEF WaitForInterruption
    <3> HIDE DEF k
    <3>3. Retains /\ kept'.intr /\ ~kept'.binding
      BY <1>1, <3>1, <3>2, TextKept, EndedRun DEF Ended, Enter, Retains, Leaves
    <3> QED BY <1>1, <1>2, <1>5, <3>3, RetainsStep
  <2> QED BY <2>1, <2>2
<1> QED BY <1>3, <1>4, <1>5 DEF Stopping

\* What a start that was resumed leaves: its receipt is gone.
LEMMA SettledCase ==
  ASSUME CallbackInv, stage = "waiting", Settled
  PROVE  /\ kept' \in Retained /\ ~kept'.start /\ kept'.intr = kept.intr /\ kept'.binding = kept.binding
         /\ kept'.text = kept.text /\ ~listed' /\ listed' \in BOOLEAN
<1>1. kept \in Retained /\ listed \in BOOLEAN /\ (kept.start <=> listed) /\ (kept.start => run.resumed)
  BY DEF CallbackInv, CallbackTypeOK, Record, Turning
<1>2. CASE run.resumed
  BY <1>1, <1>2 DEF Settled, Retained
<1>3. CASE ~run.resumed
  BY <1>1, <1>3 DEF Settled
<1> QED BY <1>2, <1>3

\* The run goes on, or ends, with a turn that is over.
LEMMA OverStep ==
  ASSUME CallbackInv, stage = "waiting", last = "over", Settled,
         UNCHANGED <<cleaning, thread, last, pins, bound, latch, stop, callVars, doubled, missed>>, NoMishap,
         run' \in Run, run'.aborted = run.aborted, read' \in BOOLEAN,
         stage' \in {"go", "starting"} \/ (stage' = "ending" /\ ~run'.keep),
         read' => run'.text /\ run'.kind = "conversion"
  PROVE  CallbackInv'
<1> USE DEF CallbackInv
<1>1. ~Open' /\ bound
  BY DEF Open, MayRun, Place, Turning
<1>2. CallbackTypeOK'
  BY SettledCase DEF CallbackTypeOK, NoMishap, callVars, Stages
<1>3. Holds'
  BY <1>1 DEF Holds, Here, Parking
<1>4. Record'
  BY <1>1, SettledCase DEF Record, Turning
<1>5. Place'
  BY <1>1, SettledCase DEF Place, Latched, Here, Turning, Parking
<1>6. Reads'
  BY <1>1, SettledCase DEF Reads, callVars
<1> QED BY <1>2, <1>3, <1>4, <1>5, <1>6

\* A review is accepted at the end of its turn, and from then on is converted.
LEMMA TurnDoneStep ==
  ASSUME CallbackInv, TurnDone
  PROVE  CallbackInv'
<1>1. /\ UNCHANGED <<cleaning, thread, last, pins, bound, latch, stop, callVars, doubled, missed>>
      /\ stage = "waiting" /\ last = "over" /\ Here /\ NoMishap
      /\ run \in Run /\ kept \in Retained /\ listed \in BOOLEAN /\ read \in BOOLEAN /\ ~Open'
      /\ (read => run.text /\ run.kind = "conversion")
  BY DEF CallbackInv, TurnDone, At, CallbackTypeOK, Open, MayRun, Reads
<1>2. ASSUME UNCHANGED read PROVE CallbackFrame
  BY <1>1, <1>2, FaultType DEF CallbackInv, CallbackFrame, CallbackTypeOK, Holds
<1>3. CASE Catch("terminal") /\ UNCHANGED read
  BY <1>1, <1>2, <1>3, CatchStep DEF Turning
<1>4. CASE run.kind \in {"visible", "rewrite"} /\ Reviewed /\ Settled /\ read' = (read \/ stage' = "go")
  <2>1. ~read
    BY <1>1, <1>4
  <2>2. CASE Ended(FALSE)
    <3>1. run' \in Run /\ ~run'.keep /\ run'.aborted = run.aborted /\ stage' = "ending"
      BY <1>1, <2>2, EndedRun DEF Ended, Enter
    <3> QED BY <1>1, <1>4, <2>1, <3>1, OverStep
  <2>3. CASE Enter("go") /\ run' = [run EXCEPT !.text = TRUE, !.kind = AfterReview, !.resumed = FALSE]
    <3>1. run' \in Run /\ run'.aborted = run.aborted /\ stage' = "go" /\ run'.text /\ run'.kind = "conversion"
      BY <1>1, <2>3 DEF Enter, Run, Kinds, AfterReview
    <3> QED BY <1>1, <1>4, <3>1, OverStep
  <2>4. CASE Enter("starting") /\ run' = [run EXCEPT !.kind = "rewrite", !.resumed = FALSE]
    <3>1. run' \in Run /\ run'.aborted = run.aborted /\ stage' = "starting"
      BY <1>1, <2>4 DEF Enter, Run, Kinds
    <3> QED BY <1>1, <1>4, <2>1, <3>1, OverStep
  <2> QED BY <1>4, <2>2, <2>3, <2>4 DEF Reviewed
<1>5. CASE Ended(FALSE) /\ Settled /\ UNCHANGED read
  <2>1. run' \in Run /\ ~run'.keep /\ run'.aborted = run.aborted /\ stage' = "ending"
        /\ run'.text = run.text /\ run'.kind = run.kind
    BY <1>1, <1>5, EndedRun DEF Ended, Enter
  <2> QED BY <1>1, <1>5, <2>1, OverStep
<1>6. CASE WaitInThread([Plain EXCEPT !.start = FALSE]) /\ UNCHANGED read
  <2> DEFINE k == [Plain EXCEPT !.start = FALSE]
  <2>1. k \in Retained /\ ~k.start /\ ~k.intr
    <3>1. Plain \in Retained /\ ~Plain.intr
      BY <1>1, PlainType
    <3> QED BY <3>1 DEF Retained
  <2> HIDE DEF k
  <2>2. bound
    BY <1>1 DEF CallbackInv, Place, Turning
  <2>3. WaitInThread(k)
    BY <1>6 DEF k
  <2>4. (Retains /\ Here /\ ~kept'.intr) \/ Drops
    BY <1>1, <2>1, <2>3, WaitCase
  <2> QED BY <1>1, <1>2, <1>6, <2>2, <2>4, RetainsStep, DropsStep
<1>7. CASE run.kind = "visible" /\ Enter("go") /\ run' = [run EXCEPT !.next = 1, !.resumed = FALSE]
          /\ Settled
          /\ UNCHANGED read
  <2>1. run' \in Run /\ run'.aborted = run.aborted
    <3>1. run \in Run /\ run' = [run EXCEPT !.next = 1, !.resumed = FALSE]
      BY <1>1, <1>7
    <3>2. \A n \in 0 .. 1 : /\ [run EXCEPT !.next = n, !.resumed = FALSE] \in Run
                            /\ [run EXCEPT !.next = n, !.resumed = FALSE].aborted = run.aborted
      BY <3>1 DEF Run
    <3>3. 1 \in 0 .. 1
      OBVIOUS
    <3> QED BY <3>1, <3>2, <3>3, Zenon
  <2>2. stage' = "go" /\ ~read
    BY <1>1, <1>7 DEF Enter
  <2> QED BY <1>1, <1>7, <2>1, <2>2, OverStep
<1> QED BY <1>3, <1>4, <1>5, <1>6, <1>7 DEF TurnDone

----------------------------------------------------------------------------
\* What is kept after the evidence, or cleaned up at once.
LEMMA ReceiptEvidenceStep ==
  ASSUME CallbackInv, Receipt
  PROVE  CallbackInv'
<1> USE DEF CallbackInv
<1>1. /\ UNCHANGED <<run, listed, thread, last, pins, bound, latch, stop, callVars, ghostVars>>
      /\ stage = "receipt" /\ NoMishap /\ kept \in Retained /\ cleaning' \in BOOLEAN /\ run.keep
      /\ stage' \in {"cleanup", "ending"}
  BY DEF Receipt, At, CallbackTypeOK, Enter, Place, Parking
<1>2. /\ kept' \in Retained /\ kept'.start = kept.start /\ kept'.intr = kept.intr
      /\ kept'.binding = kept.binding /\ kept'.text = kept.text /\ kept'.kind = kept.kind
  <2>1. CASE kept' = kept \/ kept' = [kept EXCEPT !.intent = "cancel"]
    BY <1>1, <2>1 DEF Retained
  <2>2. CASE kept' = [kept EXCEPT !.intent = "terminal", !.failure = TRUE]
    BY <1>1, <2>2 DEF Retained
  <2> QED BY <2>1, <2>2 DEF Receipt
<1>3. CallbackTypeOK'
  BY <1>1, <1>2 DEF CallbackTypeOK, callVars, ghostVars, Stages, NoMishap
<1>4. Holds'
  BY <1>1, <1>2 DEF Holds, Here, Parking, Open, MayRun, ghostVars, Record
<1>5. Record'
  BY <1>1, <1>2 DEF Record, Turning
<1>6. Place'
  BY <1>1, <1>2 DEF Place, Latched, Here, Turning, Parking
<1>7. Reads'
  BY <1>1, <1>2 DEF Reads, callVars, ghostVars
<1> QED BY <1>3, <1>4, <1>5, <1>6, <1>7

LEMMA CleanedUpStep ==
  ASSUME CallbackInv, CleanedUp
  PROVE  CallbackInv'
<1> USE DEF CallbackInv
<1>1. /\ UNCHANGED <<run, kept, listed, cleaning, thread, last, pins, bound, latch, stop, callVars, ghostVars>>
      /\ stage = "cleanup" /\ stage' = "ending" /\ NoMishap /\ run.keep
  BY DEF CleanedUp, At, Enter, Place, Parking
<1>2. CallbackTypeOK'
  BY <1>1 DEF CallbackTypeOK, callVars, ghostVars, Stages, NoMishap
<1>3. Holds'
  BY <1>1 DEF Holds, Here, Parking, Open, MayRun, ghostVars, Record
<1>4. Record'
  BY <1>1 DEF Record, Turning
<1>5. Place'
  BY <1>1 DEF Place, Latched, Here, Turning, Parking
<1>6. Reads'
  BY <1>1 DEF Reads, callVars, ghostVars
<1> QED BY <1>2, <1>3, <1>4, <1>5, <1>6

\* The round of what is not retained ends; a turn of it is over.
LEMMA EndRunStep ==
  ASSUME CallbackInv, EndRun
  PROVE  CallbackInv'
<1> USE DEF CallbackInv
<1>1. /\ UNCHANGED <<kept, listed, cleaning, last, bound, stop, current, closed, ghostVars>>
      /\ stage = "ending" /\ stage' = "idle" /\ NoMishap /\ run' = NoRun /\ latch' = latch \ {"key"}
      /\ run.keep => UNCHANGED <<pins, thread>>
      /\ ~run.keep => pins' = 0 /\ thread' = (IF Here THEN "none" ELSE thread)
  BY DEF EndRun, At, Enter, Released
<1>2. /\ sends' \in [1 .. MaxSends -> {"new", "waiting", "settled"}]
      /\ current # 0 => sends'[current] # "new"
  BY DEF EndRun, Unwaited, CallbackTypeOK, Reads
<1>3. NoRun \in Run /\ ~NoRun.aborted
  BY DEF NoRun, Run, Kinds, Errors
<1>4. Open' => Open /\ run.keep
  BY <1>1 DEF Open, MayRun, Here, ghostVars, Holds
<1>5. CallbackTypeOK'
  BY <1>1, <1>2, <1>3 DEF CallbackTypeOK, ghostVars, Stages, NoMishap
<1>6. Holds'
  BY <1>1, <1>4 DEF Holds, Here, Parking, ghostVars
<1>7. Record'
  BY <1>1 DEF Record, Turning
<1>8. Place'
  BY <1>1, <1>3 DEF Place, Latched, Here, Turning, Parking
<1>9. Reads'
  BY <1>1, <1>2 DEF Reads, ghostVars
<1> QED BY <1>5, <1>6, <1>7, <1>8, <1>9

\* What is retained goes only when its turn is over.
LEMMA CleanStep ==
  ASSUME CallbackInv, Clean
  PROVE  CallbackInv'
<1> USE DEF CallbackInv
<1>1. /\ UNCHANGED <<stage, run, bound, latch, stop, callVars, ghostVars>> /\ cleaning' = FALSE
      /\ kept \in Retained /\ listed \in BOOLEAN /\ mishaps' \in 0 .. MaxMishaps
      /\ last \in {"none", "sent", "bad", "running", "over"}
  BY FaultType DEF Clean, CallbackTypeOK
<1>2. CASE /\ last' = (IF kept.start \/ kept.intr THEN "over" ELSE last)
           /\ kept' = [kept EXCEPT !.start = FALSE, !.intr = FALSE] /\ listed' = FALSE
           /\ IF listed THEN Released ELSE UNCHANGED <<pins, thread>>
  <2>1. /\ kept' \in Retained /\ ~kept'.start /\ ~kept'.intr
        /\ kept'.binding = kept.binding /\ kept'.text = kept.text
    BY <1>1, <1>2 DEF Retained
  <2>2. /\ thread' = thread \/ (listed /\ Here /\ thread' = "none")
        /\ listed => pins' = 0 /\ ~Here'
        /\ ~listed => UNCHANGED <<pins, thread>>
    BY <1>1, <1>2 DEF Released, Here
  <2>3. Open' => Open /\ ~kept.start /\ ~kept.intr /\ ~listed
    BY <1>1, <1>2, <2>2 DEF Open, MayRun, ghostVars, Holds, Here, Record
  <2>4. CallbackTypeOK'
    <3>1. pins' \in 0 .. 1
      BY <2>2 DEF CallbackTypeOK
    <3>2. thread' \in {"none", "here", "lost"} /\ last' \in {"none", "sent", "bad", "running", "over"}
      BY <1>1, <1>2, <2>2 DEF CallbackTypeOK
    <3> QED BY <1>1, <1>2, <2>1, <3>1, <3>2 DEF CallbackTypeOK, callVars, ghostVars
  <2>5. Holds'
    BY <1>1, <1>2, <2>2, <2>3 DEF Holds, Here, Parking, ghostVars
  <2>6. Record'
    BY <1>1, <1>2, <2>1 DEF Record
  <2>7. Place'
    BY <1>1, <1>2, <2>1, <2>2 DEF Place, Latched, Here
  <2>8. Reads'
    BY <1>1, <1>2, <2>1 DEF Reads, callVars, ghostVars
  <2> QED BY <2>4, <2>5, <2>6, <2>7, <2>8
<1>3. CASE UNCHANGED <<kept, listed, last, pins, thread>>
  <2>1. CallbackTypeOK'
    BY <1>1, <1>3 DEF CallbackTypeOK, callVars, ghostVars
  <2>2. Holds' /\ Record' /\ Place' /\ Reads'
    BY <1>1, <1>3 DEF Holds, Record, Place, Reads, Open, MayRun, Latched, Here, callVars,
       ghostVars
  <2> QED BY <2>1, <2>2
<1> QED BY <1>2, <1>3 DEF Clean

----------------------------------------------------------------------------
\* A cancel latches, aborts the run and asks for the end of its turn.
LEMMA RevokeStep ==
  ASSUME CallbackInv, NEW l, l # {}, l \subseteq {"workflow", "key", "stopped"},
         NEW r, r = run \/ (stage # "idle" /\ r = [run EXCEPT !.aborted = TRUE]),
         Revoke(r, l), stop' \in {"no", "sends", "cleanups", "done"}, UNCHANGED <<current, closed>>,
         sends' \in [1 .. MaxSends -> {"new", "waiting", "settled"}],
         current # 0 => sends'[current] # "new"
  PROVE  CallbackInv'
<1> USE DEF CallbackInv
<1>1. /\ UNCHANGED <<stage, listed, thread, last, pins, bound, ghostVars>> /\ NoMishap
      /\ latch' = latch \cup l /\ cleaning' \in BOOLEAN /\ kept \in Retained /\ run \in Run
  BY DEF Revoke, CallbackTypeOK
<1>2. Latched' /\ latch' \subseteq {"workflow", "key", "stopped"}
  BY <1>1 DEF Latched, CallbackTypeOK
<1>3. /\ kept' \in Retained /\ kept'.start = kept.start /\ kept'.intr = kept.intr
      /\ kept'.binding = kept.binding /\ kept'.text = kept.text /\ kept'.kind = kept.kind
  <2>1. kept' = kept \/ kept' = [kept EXCEPT !.intent = "cancel"]
    BY DEF Revoke
  <2> QED BY <1>1, <2>1 DEF Retained
<1>4. /\ r \in Run /\ r.had = run.had /\ r.text = run.text /\ r.kind = run.kind /\ r.keep = run.keep
      /\ r.resumed = run.resumed /\ (stage = "idle" => r = run)
  BY <1>1 DEF Run
<1>5. /\ run' \in Run /\ run'.had = run.had
      /\ run'.text = run.text /\ run'.kind = run.kind /\ run'.keep = run.keep
      /\ run'.resumed = run.resumed /\ (stage = "idle" => run' = run) /\ (Active => run'.asked)
  <2> DEFINE a == r.aborted \/ (stage # "idle" /\ (Active \/ Preparing))
             b == r.asked \/ Active
  <2>1. a \in BOOLEAN /\ b \in BOOLEAN
    BY <1>4 DEF Run, Active, Preparing
  <2>2. run' = [r EXCEPT !.aborted = a, !.asked = b]
    BY DEF Revoke
  <2>3. stage = "idle" => a = r.aborted /\ b = r.asked
    BY <1>4 DEF Active, Run
  <2>4. Active => b
    OBVIOUS
  <2> HIDE DEF a, b
  <2>5. /\ run' \in Run /\ run'.had = r.had /\ run'.text = r.text /\ run'.kind = r.kind /\ run'.keep = r.keep
        /\ run'.resumed = r.resumed /\ run'.asked = b
    BY <1>4, <2>1, <2>2 DEF Run
  <2>6. stage = "idle" => run' = r
    BY <1>4, <2>2, <2>3 DEF Run
  <2> QED BY <1>4, <2>4, <2>5, <2>6
<1>6. CallbackTypeOK'
  BY <1>1, <1>2, <1>3, <1>5 DEF CallbackTypeOK, ghostVars, NoMishap
<1>7. Holds'
  BY <1>1, <1>3, <1>5 DEF Holds, Here, Open, MayRun, ghostVars
<1>8. Record'
  BY <1>1, <1>3, <1>5 DEF Record
<1>9. Place'
  BY <1>1, <1>2, <1>3, <1>5 DEF Place, Here, Active
<1>10. Reads'
  BY <1>1, <1>3, <1>5 DEF Reads, ghostVars
<1> QED BY <1>6, <1>7, <1>8, <1>9, <1>10

LEMMA CancelStep ==
  ASSUME CallbackInv, Cancel
  PROVE  CallbackInv'
<1> DEFINE l == {"workflow"} \cup (IF Active THEN {"key"} ELSE {})
<1>1. l # {} /\ l \subseteq {"workflow", "key", "stopped"}
  OBVIOUS
<1>2. Revoke(run, l) /\ UNCHANGED <<stop, callVars>>
  BY DEF Cancel
<1> HIDE DEF l
<1> QED BY <1>1, <1>2, RevokeStep DEF CallbackInv, CallbackTypeOK, Reads, callVars

LEMMA LoseLeaseStep ==
  ASSUME CallbackInv, LoseLease
  PROVE  CallbackInv'
<1> DEFINE r == CancelWait(current, current)
<1>1. r = run \/ (stage # "idle" /\ r = [run EXCEPT !.aborted = TRUE])
  BY DEF CancelWait
<1>2. Revoke(r, {"key"}) /\ UNCHANGED <<stop, current, closed>>
  BY DEF LoseLease
<1>3. /\ sends' \in [1 .. MaxSends -> {"new", "waiting", "settled"}]
      /\ current # 0 => sends'[current] # "new"
  BY DEF LoseLease, Unwaited, CallbackInv, CallbackTypeOK, Reads
<1> HIDE DEF r
<1> QED BY <1>1, <1>2, <1>3, RevokeStep DEF CallbackInv, CallbackTypeOK

LEMMA StopStep ==
  ASSUME CallbackInv, Stop
  PROVE  CallbackInv'
<1> USE DEF CallbackInv
<1>1. /\ UNCHANGED <<stage, kept, listed, cleaning, thread, last, pins, bound, current, closed, ghostVars>>
      /\ NoMishap
      /\ stop' = "sends" /\ latch' = latch \cup {"stopped"} /\ run \in Run /\ Latched'
  BY DEF Stop, CallbackTypeOK, Latched
<1>2. /\ sends' \in [1 .. MaxSends -> {"new", "waiting", "settled"}]
      /\ current # 0 => sends'[current] # "new"
  BY DEF Stop, Unwaited, CallbackTypeOK, Reads
<1>3. /\ run' \in Run /\ run'.had = run.had
      /\ run'.text = run.text /\ run'.kind = run.kind /\ run'.keep = run.keep
      /\ run'.resumed = run.resumed /\ (stage = "idle" => run' = run) /\ (stage # "idle" => run'.aborted)
  <2> DEFINE b == run.asked \/ Active
  <2>1. b \in BOOLEAN
    BY <1>1 DEF Run, Active
  <2>2. run' = IF stage = "idle" THEN run ELSE [run EXCEPT !.aborted = TRUE, !.asked = b]
    BY DEF Stop
  <2> HIDE DEF b
  <2> QED BY <1>1, <2>1, <2>2 DEF Run
<1>4. CallbackTypeOK'
  BY <1>1, <1>2, <1>3 DEF CallbackTypeOK, ghostVars, NoMishap
<1>5. Holds'
  BY <1>1, <1>3 DEF Holds, Here, Open, MayRun, ghostVars
<1>6. Record'
  BY <1>1, <1>3 DEF Record
<1>7. Place'
  BY <1>1, <1>3 DEF Place, Here
<1>8. Reads'
  BY <1>1, <1>2, <1>3 DEF Reads, ghostVars
<1> QED BY <1>4, <1>5, <1>6, <1>7, <1>8

LEMMA StopCleansStep ==
  ASSUME CallbackInv, StopCleans
  PROVE  CallbackInv'
<1>1. Revoke(run, {"stopped"}) /\ UNCHANGED callVars /\ stop' \in {"no", "sends", "cleanups", "done"}
  BY DEF StopCleans, CallbackInv, CallbackTypeOK
<1> QED BY <1>1, RevokeStep DEF CallbackInv, CallbackTypeOK, Reads, callVars

\* The end of a stop, the end of the turn and the loss of the process.
LEMMA OutsideStep ==
  ASSUME CallbackInv, StopEnds \/ TurnEnds \/ LoseThread
  PROVE  CallbackInv'
<1> USE DEF CallbackInv
<1>1. /\ UNCHANGED <<stage, run, kept, listed, cleaning, pins, bound, latch, callVars, ghostVars>>
      /\ mishaps' \in 0 .. MaxMishaps
      /\ thread' = thread \/ thread' = "lost"
      /\ last' = last \/ last' = "over"
      /\ stop' = stop \/ stop' = "done"
  BY FaultType DEF StopEnds, TurnEnds, LoseThread
<1>2. (Here' => Here) /\ (Open' => Open /\ Here')
  BY <1>1 DEF Here, Open, MayRun, ghostVars, Holds
<1>3. CallbackTypeOK'
  BY <1>1 DEF CallbackTypeOK, callVars, ghostVars
<1>4. Holds' /\ Record' /\ Reads'
  BY <1>1, <1>2 DEF Holds, Record, Reads, callVars, ghostVars
<1>5. Place'
  BY <1>1, <1>2 DEF Place, Latched
<1> QED BY <1>3, <1>4, <1>5

----------------------------------------------------------------------------
LEMMA CallbackInvInit ==
  ASSUME CallbackInit
  PROVE  CallbackInv
<1>1. NoRun \in Run /\ ~NoRun.aborted
  BY DEF NoRun, Run, Kinds, Errors
<1>2. NoRetained \in Retained /\ ~NoRetained.start /\ ~NoRetained.intr /\ ~NoRetained.binding
  BY NoRetainedType DEF NoRetained
<1>3. CallbackTypeOK
  <2>1. 0 \in 0 .. MaxSends /\ 0 \in 0 .. MaxMishaps /\ 0 \in 0 .. 1
    BY CallbackBounds
  <2>2. sends \in [1 .. MaxSends -> {"new", "waiting", "settled"}]
    BY DEF CallbackInit
  <2> QED BY <1>1, <1>2, <2>1, <2>2 DEF CallbackInit, CallbackTypeOK, Stages
<1>4. Holds /\ Record /\ Place /\ Reads
  BY <1>1, <1>2 DEF CallbackInit, Holds, Record, Place, Reads, Open, MayRun, Here, Turning, Parking
<1> QED BY <1>3, <1>4 DEF CallbackInv

LEMMA CallbackInvStep == CallbackInv /\ [CallbackNext]_callbackVars => CallbackInv'
<1> SUFFICES ASSUME CallbackInv, [CallbackNext]_callbackVars PROVE CallbackInv'
  OBVIOUS
<1>1. CASE Create \/ Bind \/ Resolve \/ ResumeStart \/ Confirm
  BY <1>1, CreateStep, BindStep, ResolveStep, ResumeStep, ConfirmStep
<1>2. CASE Go \/ StartTurn \/ ReplyArrives \/ GiveUpStart \/ Registered \/ WithdrawWait
  BY <1>2, GoStep, StartTurnStep, CallbackReplyStep, CallbackGiveUpStep, RegisteredStep, WithdrawStep
<1>3. CASE Stopping \/ Lost \/ TurnDone
  BY <1>3, StoppingStep, LostStep, TurnDoneStep
<1>4. CASE Receipt \/ CleanedUp \/ EndRun \/ Clean
  BY <1>4, ReceiptEvidenceStep, CleanedUpStep, EndRunStep, CleanStep
<1>5. ASSUME NEW e \in 1 .. MaxSends, Send(e) PROVE CallbackInv'
  BY <1>5, SendStep
<1>6. CASE Close \/ Cancel \/ LoseLease \/ Stop \/ StopCleans
  BY <1>6, CloseStep, CancelStep, LoseLeaseStep, StopStep, StopCleansStep
<1>7. CASE StopEnds \/ TurnEnds \/ LoseThread
  BY <1>7, OutsideStep
<1>8. CASE UNCHANGED callbackVars
  BY <1>8 DEF callbackVars, callVars, ghostVars, CallbackInv, CallbackTypeOK, Holds, Record, Place, Reads, Open,
     MayRun, Here, Latched
<1> QED BY <1>1, <1>2, <1>3, <1>4, <1>5, <1>6, <1>7, <1>8 DEF CallbackNext, RunStep

\* What the turns of the callback, its records and its places agree on holds in
\* every state: whatever the model answers, however often the callback fails or
\* is cancelled, and wherever its run stops (send, run, releaseRetainedReviewer and
\* doStop of app-server-callback.ts).
THEOREM CallbackInvInvariant == CallbackSpec => []CallbackInv
<1>1. CallbackInit => CallbackInv
  BY CallbackInvInit
<1>2. CallbackInv /\ [CallbackNext]_callbackVars => CallbackInv'
  BY CallbackInvStep
<1> QED BY <1>1, <1>2, PTL DEF CallbackSpec

\* A turn that may run is in the hands of the run or of the retained Reviewer with
\* its round pinned, and no second one is started beside it, across every
\* hand-over, cancel, lost lease, loss of the process and stop (send, run with
\* confirmRetainedStart and waitForStartReceipt, releaseRetainedReviewer, doStop).
THEOREM TurnIsHeldInvariant == CallbackSpec => []TurnIsHeld
<1>1. CallbackInv => TurnIsHeld
  <2> SUFFICES ASSUME CallbackInv PROVE TurnIsHeld
    OBVIOUS
  <2>1. MayRun => missed \/ (InHand /\ pins = 1)
    <3> SUFFICES ASSUME Open PROVE InHand /\ pins = 1
      BY DEF Open
    <3>1. pins = 1
      BY DEF CallbackInv, Holds
    <3>2. stage \in {"idle", "ending"} => InHand
      BY DEF CallbackInv, Holds, InHand
    <3>3. stage \notin {"idle", "ending"} => InHand
      BY DEF CallbackInv, CallbackTypeOK, Stages, Holds, InHand
    <3> QED BY <3>1, <3>2, <3>3
  <2>2. ~doubled \/ missed
    BY DEF CallbackInv, Holds
  <2>3. At("waiting") /\ Latched => run.asked \/ run.aborted
    BY DEF CallbackInv, Place, At
  <2>4. At("idle") /\ ~listed => pins = 0 /\ ~Here
    BY DEF CallbackInv, Place, At
  <2> QED BY <2>1, <2>2, <2>3, <2>4 DEF TurnIsHeld, CallbackInv
<1>2. CallbackSpec => []CallbackInv
  BY CallbackInvInvariant
<1> QED BY <1>1, <1>2, PTL

\* Only a new consumer is registered, and only it.
LEMMA HandoverStep ==
  ASSUME CallbackInv, CallbackNext
  PROVE  HandoverKeepsTheRun
<1>1. ASSUME current' # current
      PROVE  \E e \in 1 .. MaxSends : Send(e)
  <2>1. ASSUME UNCHANGED callVars PROVE FALSE
    BY <1>1, <2>1 DEF callVars
  <2>2. ~RunStep
    BY <1>1, <2>1 DEF RunStep, Create, Bind, Resolve, ResumeStart, Confirm, Go, StartTurn,
       GiveUpStart, Registered,
       WithdrawWait, Stopping, Lost, TurnDone, Receipt, CleanedUp, EndRun
  <2>3. ~(ReplyArrives \/ Clean \/ TurnEnds \/ LoseThread \/ Close
        \/ Cancel \/ LoseLease \/ Stop \/ StopCleans \/ StopEnds)
    BY <1>1, <2>1 DEF ReplyArrives, Clean, TurnEnds, LoseThread, Close, Cancel, LoseLease, Stop,
       StopCleans, StopEnds
  <2> QED BY <2>2, <2>3 DEF CallbackNext
<1> QED BY <1>1, NewConsumer DEF HandoverKeepsTheRun, At

\* After a readable review only its conversion is asked for.
LEMMA ReadStep ==
  ASSUME CallbackInv, CallbackNext
  PROVE  ReadOnce
<1> SUFFICES ASSUME read, stage' = "sent", stage # "sent" PROVE run.kind = "conversion"
  BY DEF ReadOnce
<1>1. stage # "idle"
  <2> SUFFICES ASSUME stage = "idle" PROVE FALSE
    OBVIOUS
  <2>1. ASSUME UNCHANGED stage PROVE FALSE
    BY <2>1
  <2>2. ~RunStep
    BY DEF RunStep, Create, Bind, Resolve, ResumeStart, Confirm, Go, StartTurn, GiveUpStart,
       Registered,
       WithdrawWait, Stopping, Lost, TurnDone, Receipt, CleanedUp, EndRun, At
  <2>3. ~(ReplyArrives \/ Clean \/ TurnEnds \/ LoseThread \/ Close \/ Stop \/ StopEnds)
    BY DEF ReplyArrives, Clean, TurnEnds, LoseThread, Close, Stop, StopEnds, At
  <2>4. ~(Cancel \/ LoseLease \/ StopCleans)
    BY DEF Cancel, LoseLease, StopCleans, Revoke
  <2>5. ASSUME NEW e \in 1 .. MaxSends, Send(e) PROVE FALSE
    BY <2>5, BeginCase DEF Send
  <2> QED BY <2>2, <2>3, <2>4, <2>5 DEF CallbackNext
<1> QED BY <1>1 DEF CallbackInv, Reads

\* A new consumer adopts the run that it finds and cancels nothing of it, and after
\* a readable review only its conversion is asked for, however often it fails
\* (send with its flights, adoptObserver, and the turns that run starts).
THEOREM ReviewIsKeptHolds == CallbackSpec => ReviewIsKept
<1>1. CallbackInv /\ [CallbackNext]_callbackVars => [HandoverKeepsTheRun /\ ReadOnce]_callbackVars
  BY HandoverStep, ReadStep
<1>2. CallbackSpec => []CallbackInv
  BY CallbackInvInvariant
<1> QED BY <1>1, <1>2, PTL DEF CallbackSpec, ReviewIsKept
=============================================================================
