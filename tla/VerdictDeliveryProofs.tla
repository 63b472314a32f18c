------------------------ MODULE VerdictDeliveryProofs ------------------------
(***************************************************************************)
(* Theorems about the delivery of verdicts, for any runtimes, submissions, *)
(* edits, verdicts by hand and faults: one wake-up for a submission, true  *)
(* receipts, and a pass that was verified.                                 *)
(*                                                                         *)
(* The inductive invariant follows a request from its application to the   *)
(* session's log: a handler past the application carries the one request   *)
(* that was applied for its submission, and what it knows of the workspace *)
(* is what the record was applied against as long as the review stands.    *)
(***************************************************************************)
EXTENDS VerdictDelivery, TLAPS

\* Where a handler is past the application of its verdict.
Places == {"check1", "void1", "check2", "void2", "reload", "relay", "commit"}

\* What the record remembers of the verdict that was applied last.
Remembers ==
  /\ rec.sub = 0 => rec.state = "none"
  /\ rec.state = "failed" => rec.phase = "cancelled"
  /\ rec.appliedSub <= rec.sub /\ rec.cycles <= rec.appliedSub
  /\ rec.appliedReq = NoOne => rec.appliedSub = 0
  /\ rec.appliedReq # NoOne => SubmissionOf(rec.appliedReq) = rec.appliedSub
  /\ rec.state \in {"applied", "delivered"} => rec.appliedSub = rec.sub
  /\ rec.review => rec.appliedPrint # NoPrint /\ rec.error = "none"

\* A request that reached the log, or is on its way there, is the only one
\* that was applied for its submission.
Sent(r) == wakes[r] # 0 \/ \E c \in Runtimes : at[c] \in Places /\ Req(c) = r
Sents ==
  \A r \in Requests : Sent(r) =>
    /\ SubmissionOf(r) <= rec.appliedSub
    /\ SubmissionOf(r) = rec.appliedSub => rec.appliedReq = r
    /\ \A q \in Requests : Sent(q) /\ SubmissionOf(q) = SubmissionOf(r) => q = r

\* Whoever says that a message was delivered, or is about to, has seen it there.
Delivering(c) == at[c] = "commit" \/ (at[c] \in {"settle", "reject"} /\ word[c] = "delivered")
Told ==
  /\ \A r \in Requests : wakes[r] <= 1 /\ (receipt[r] = "delivered" => wakes[r] = 1)
  /\ rec.state = "delivered" => wakes[rec.appliedReq] = 1
  /\ \A c \in Runtimes : Delivering(c) => wakes[Req(c)] = 1

\* A handler about to relay a review that stands has seen the workspace it is of.
Relaying(c) ==
  \/ at[c] = "relay"
  \/ at[c] = "reload" /\ rec.sub = SubmissionOf(Req(c)) /\ rec.phase # "cancelled"
Verified ==
  \A c \in Runtimes : Relaying(c) /\ rec.review /\ rec.appliedReq = Req(c) => ev[c] = rec.appliedPrint

Inv == TypeOK /\ Remembers /\ Sents /\ Told /\ Verified

\* The part of TypeOK that is the queue's, without its routing.
RowsOK(t) == t \in [Requests -> Q!Row] /\ \A r \in Requests : Q!RowShape(t[r])
QueueOK ==
  /\ RowsOK(rows) /\ claim \in [Runtimes -> Q!Claims \cup {Q!NoClaim}] /\ lost \in [Runtimes -> BOOLEAN]
  /\ overtaken \in BOOLEAN /\ faults \in 0 .. MaxFaults

\* The routing follows the session's home.
LEMMA RouteOK ==
  /\ host \in Runtimes \cup {NoOne} => (Q!TypeOK <=> QueueOK)
  /\ (host \in Runtimes \cup {NoOne})' => (Q!TypeOK <=> QueueOK)'
<1>1. host \in Runtimes \cup {NoOne} => [r \in Requests |-> {host} \ {NoOne}] \in [Requests -> SUBSET Runtimes]
  OBVIOUS
<1>2. (host \in Runtimes \cup {NoOne})' => [r \in Requests |-> {host'} \ {NoOne}] \in [Requests -> SUBSET Runtimes]
  OBVIOUS
<1>3. 0 \in 0 .. 0
  OBVIOUS
<1> QED BY <1>1, <1>2, <1>3 DEF Q!TypeOK, QueueOK, RowsOK

\* The bounds are numbers, and the names are apart.
LEMMA NumbersOK ==
  /\ MaxRounds \in Nat \ {0} /\ MaxEdits \in Nat /\ MaxManual \in Nat /\ MaxFaults \in Nat
  /\ Rounds \subseteq Nat \ {0} /\ NoOne \notin Requests /\ NoOne \notin Runtimes /\ NoOne # "verdict"
  /\ \A r \in Requests : SubmissionOf(r) \in Rounds
  /\ \A n \in Rounds : Staged(n) \in Requests /\ <<"manual", n>> \in Requests
                       /\ SubmissionOf(Staged(n)) = n /\ SubmissionOf(<<"manual", n>>) = n
BY BoundsAssumption, NamesAssumption DEF Rounds, Requests, SubmissionOf, Staged

\* A well-shaped row in the place of another.
LEMMA RowUpdate ==
  ASSUME NEW r \in Requests, NEW row \in Q!Row, Q!RowShape(row), RowsOK(rows), rows' = [rows EXCEPT ![r] = row]
  PROVE  RowsOK(rows')
BY DEF RowsOK

\* The rows a fenced outcome or the recovery writes.
LEMMA SettledRows ==
  ASSUME NEW row \in Q!Row, Q!RowShape(row), row.status = "processing", NEW c \in Runtimes
  PROVE  /\ Q!AckedRow(row, c) \in Q!Row /\ Q!RowShape(Q!AckedRow(row, c))
         /\ Q!RetriedRow(row) \in Q!Row /\ Q!RowShape(Q!RetriedRow(row))
         /\ Q!DeadRow(row) \in Q!Row /\ Q!RowShape(Q!DeadRow(row))
         /\ Q!RecoveredRow(row) \in Q!Row /\ (~row.live => Q!RowShape(Q!RecoveredRow(row)))
<1>1. \A n \in Q!AttemptCounts : Q!Bump(n) \in Q!AttemptCounts
  BY DEF Q!AttemptCounts, Q!Bump
<1> QED BY <1>1, NumbersOK DEF Q!Row, Q!RowShape, Q!AckedRow, Q!RetriedRow, Q!DeadRow, Q!RecoveredRow, Q!Statuses

\* The queue is as it was, but for the counted faults.
LEMMA QueueKeeps ==
  ASSUME QueueOK, UNCHANGED <<rows, claim, lost, overtaken>>, faults' \in 0 .. MaxFaults
  PROVE  QueueOK'
BY DEF QueueOK, RowsOK

\* A request enters the queue.
LEMMA QueueEnqueue ==
  ASSUME QueueOK, NEW r \in Requests, Q!Enqueue(r, "verdict")
  PROVE  QueueOK' /\ claim' = claim
<1> DEFINE row == [Q!Absent EXCEPT !.status = "inbox", !.hash = "verdict"]
<1>1. row \in Q!Row /\ Q!RowShape(row)
  <2> DEFINE b == FALSE
  <2>1. Q!Absent = [status |-> "absent", hash |-> NoOne, epoch |-> 0, owner |-> NoOne,
                    live |-> b, due |-> b, attempts |-> 0, receipt |-> NoOne] /\ b \in BOOLEAN /\ ~b
    BY DEF Q!Absent
  <2>2. "verdict" \in Q!Commands /\ {"absent", "inbox"} \subseteq Q!Statuses /\ 0 \in Q!AttemptCounts
    BY DEF Q!Commands, Q!Statuses, Q!AttemptCounts
  <2> HIDE DEF b
  <2>3. Q!Absent \in Q!Row /\ Q!Absent.live = b /\ Q!Absent.due = b /\ Q!Absent.owner = NoOne /\ Q!Absent.receipt = NoOne
    BY <2>1, <2>2 DEF Q!Row
  <2>4. row \in Q!Row /\ row.status = "inbox" /\ row.hash = "verdict" /\ row.live = b /\ row.due = b
        /\ row.owner = NoOne /\ row.receipt = NoOne
    BY <2>2, <2>3 DEF Q!Row
  <2> QED BY <2>1, <2>4, NumbersOK DEF Q!RowShape
<1>2. rows' = [rows EXCEPT ![r] = row] /\ UNCHANGED <<claim, lost, overtaken, faults>>
  BY DEF Q!Enqueue
<1> HIDE DEF row
<1>3. RowsOK(rows')
  BY <1>1, <1>2, RowUpdate DEF QueueOK
<1> QED BY <1>2, <1>3 DEF QueueOK

\* A handler takes a request.
LEMMA QueueClaim ==
  ASSUME QueueOK, NEW c \in Runtimes, NEW r \in Requests, Q!Claim(c, r)
  PROVE  /\ QueueOK' /\ claim[c] = Q!NoClaim /\ claim'[c] # Q!NoClaim /\ claim'[c].req = r
         /\ \A d \in Runtimes \ {c} : claim'[d] = claim[d]
<1> DEFINE row == [rows[r] EXCEPT !.status = "processing", !.epoch = @ + 1, !.owner = c, !.live = TRUE, !.due = FALSE]
<1>1. rows[r] \in Q!Row /\ Q!RowShape(rows[r]) /\ rows[r].status \in {"retry", "processing", "inbox"}
  BY DEF QueueOK, RowsOK, Q!Claim, Q!Candidates, Q!DueRetries, Q!Expired, Q!Inbox
<1>2. row \in Q!Row /\ Q!RowShape(row)
  <2>1. row \in Q!Row
    BY <1>1, rows[r].epoch + 1 \in Nat DEF Q!Row, Q!Statuses
  <2>2. row.status = "processing" /\ row.hash = rows[r].hash /\ row.live /\ ~row.due
        /\ row.receipt = rows[r].receipt /\ row.owner = c
    BY <1>1 DEF Q!Row
  <2> QED BY <1>1, <2>1, <2>2, NumbersOK DEF Q!RowShape
<1>3. /\ rows' = [rows EXCEPT ![r] = row] /\ claim' = [claim EXCEPT ![c] = Q!ClaimOn(r)]
      /\ lost' = [lost EXCEPT ![c] = FALSE] /\ UNCHANGED <<overtaken, faults>> /\ claim[c] = Q!NoClaim
  BY <1>1 DEF Q!Claim, Q!Idle, QueueOK, RowsOK, Q!Row
<1> HIDE DEF row
<1>4. RowsOK(rows')
  BY <1>2, <1>3, RowUpdate DEF QueueOK
<1>5. Q!ClaimOn(r) \in Q!Claims /\ Q!ClaimOn(r).req = r /\ Q!ClaimOn(r) # Q!NoClaim
  <2>1. rows[r].hash # NoOne
    BY <1>1 DEF Q!RowShape
  <2>2. Q!ClaimOn(r) \in Q!Claims /\ Q!ClaimOn(r).req = r
    BY <1>1, <2>1 DEF Q!ClaimOn, Q!Claims, Q!Row
  <2> QED BY <2>2, NumbersOK DEF Q!NoClaim
<1> QED BY <1>3, <1>4, <1>5 DEF QueueOK

\* A handler is over: its row is settled, parked, dead or somebody else's.
LEMMA QueueDrop ==
  ASSUME QueueOK, NEW c \in Runtimes, faults' \in 0 .. MaxFaults,
         \/ \E r \in Requests : Q!Ack(c, r) \/ Q!Park(c, r) \/ Q!PumpDeadLetter(c, r)
         \/ Q!ReturnLost(c) \/ Q!Crash(c)
  PROVE  QueueOK' /\ claim'[c] = Q!NoClaim /\ \A d \in Runtimes \ {c} : claim'[d] = claim[d]
<1>1. Q!Drop(c) /\ UNCHANGED overtaken
  BY DEF Q!Ack, Q!Park, Q!PumpDeadLetter, Q!ReturnLost, Q!Crash
<1>2. RowsOK(rows')
  <2>1. ASSUME NEW r \in Requests, Q!Fence(c, r)
        PROVE  /\ Q!AckedRow(rows[r], c) \in Q!Row /\ Q!RowShape(Q!AckedRow(rows[r], c))
               /\ Q!RetriedRow(rows[r]) \in Q!Row /\ Q!RowShape(Q!RetriedRow(rows[r]))
               /\ Q!DeadRow(rows[r]) \in Q!Row /\ Q!RowShape(Q!DeadRow(rows[r]))
    BY <2>1, SettledRows DEF QueueOK, RowsOK, Q!Fence
  <2>2. CASE UNCHANGED rows
    BY <2>2 DEF QueueOK, RowsOK
  <2>3. ASSUME NEW r \in Requests, Q!Ack(c, r), Q!Fence(c, r)  PROVE RowsOK(rows')
    BY <2>1, <2>3, RowUpdate DEF Q!Ack, Q!FencedWrite, QueueOK
  <2>4. ASSUME NEW r \in Requests, Q!Park(c, r), Q!Fence(c, r)  PROVE RowsOK(rows')
    BY <2>1, <2>4, RowUpdate DEF Q!Park, Q!FencedWrite, QueueOK
  <2>5. ASSUME NEW r \in Requests, Q!PumpDeadLetter(c, r), Q!Fence(c, r)  PROVE RowsOK(rows')
    BY <2>1, <2>5, RowUpdate DEF Q!PumpDeadLetter, Q!FencedWrite, QueueOK
  <2>6. \/ UNCHANGED rows
        \/ \E r \in Requests : Q!Fence(c, r) /\ (Q!Ack(c, r) \/ Q!Park(c, r) \/ Q!PumpDeadLetter(c, r))
    BY DEF Q!Ack, Q!Park, Q!PumpDeadLetter, Q!ReturnLost, Q!Crash, Q!FencedWrite
  <2> QED BY <2>2, <2>3, <2>4, <2>5, <2>6
<1> QED BY <1>1, <1>2 DEF QueueOK, Q!Drop

\* Leases and time.
LEMMA QueueTime ==
  ASSUME QueueOK,
         \/ \E c \in Runtimes : Q!HeartbeatError(c) \/ \E r \in Requests : Q!Heartbeat(c, r)
         \/ \E r \in Requests : Q!Expire(r) \/ Q!Stall(r) \/ Q!RetryDue(r)
         \/ Q!RecoverOrphans
  PROVE  QueueOK' /\ claim' = claim
<1>1. ASSUME NEW r \in Requests, NEW row \in Q!Row, Q!RowShape(row), rows' = [rows EXCEPT ![r] = row]
      PROVE  RowsOK(rows')
  BY <1>1, RowUpdate DEF QueueOK
<1>2. \A r \in Requests : rows[r] \in Q!Row /\ Q!RowShape(rows[r])
  BY DEF QueueOK, RowsOK
<1>3. ASSUME NEW c \in Runtimes, Q!HeartbeatError(c)  PROVE QueueOK' /\ claim' = claim
  <2>1. /\ UNCHANGED <<rows, claim, overtaken>> /\ lost' = [lost EXCEPT ![c] = TRUE]
        /\ faults < MaxFaults /\ faults' = faults + 1
    BY <1>3 DEF Q!HeartbeatError, Q!Fault
  <2>2. lost' \in [Runtimes -> BOOLEAN]
    BY <2>1 DEF QueueOK
  <2>3. faults' \in 0 .. MaxFaults
    BY <2>1, NumbersOK DEF QueueOK
  <2> QED BY <2>1, <2>2, <2>3 DEF QueueOK, RowsOK
<1>4. ASSUME NEW c \in Runtimes, NEW r \in Requests, Q!Heartbeat(c, r)  PROVE QueueOK' /\ claim' = claim
  <2>1. CASE Q!Fence(c, r)
    <3> DEFINE row == [rows[r] EXCEPT !.live = TRUE]
    <3>1. row \in Q!Row /\ Q!RowShape(row)
      BY <1>2, <2>1 DEF Q!Row, Q!RowShape, Q!Fence
    <3>2. rows' = [rows EXCEPT ![r] = row] /\ UNCHANGED <<claim, lost, overtaken, faults>>
      BY <1>4, <2>1 DEF Q!Heartbeat
    <3> HIDE DEF row
    <3> QED BY <1>1, <3>1, <3>2 DEF QueueOK
  <2>2. CASE ~Q!Fence(c, r)
    BY <1>4, <2>2 DEF Q!Heartbeat, QueueOK, RowsOK
  <2> QED BY <2>1, <2>2
<1>5. ASSUME NEW r \in Requests, Q!Expire(r) \/ Q!Stall(r)  PROVE QueueOK' /\ claim' = claim
  <2> DEFINE row == [rows[r] EXCEPT !.live = FALSE]
  <2>1. row \in Q!Row /\ Q!RowShape(row)
    BY <1>2 DEF Q!Row, Q!RowShape
  <2>2. rows' = [rows EXCEPT ![r] = row] /\ UNCHANGED <<claim, lost>> /\ overtaken' \in BOOLEAN /\ faults' \in 0 .. MaxFaults
    <3>1. CASE Q!Expire(r)
      BY <3>1 DEF Q!Expire, QueueOK
    <3>2. CASE Q!Stall(r)
      <4>1. rows' = [rows EXCEPT ![r] = row] /\ UNCHANGED <<claim, lost>> /\ overtaken' = TRUE
            /\ faults < MaxFaults /\ faults' = faults + 1
        BY <3>2 DEF Q!Stall, Q!Fault
      <4> HIDE DEF row
      <4>2. faults' \in 0 .. MaxFaults
        BY <4>1, NumbersOK DEF QueueOK
      <4> QED BY <4>1, <4>2
    <3> QED BY <1>5, <3>1, <3>2
  <2> HIDE DEF row
  <2> QED BY <1>1, <2>1, <2>2 DEF QueueOK
<1>6. ASSUME NEW r \in Requests, Q!RetryDue(r)  PROVE QueueOK' /\ claim' = claim
  <2> DEFINE row == [rows[r] EXCEPT !.due = TRUE]
  <2>1. row \in Q!Row /\ Q!RowShape(row)
    BY <1>2, <1>6 DEF Q!Row, Q!RowShape, Q!RetryDue
  <2>2. rows' = [rows EXCEPT ![r] = row] /\ UNCHANGED <<claim, lost, overtaken, faults>>
    BY <1>6 DEF Q!RetryDue
  <2> HIDE DEF row
  <2> QED BY <1>1, <2>1, <2>2 DEF QueueOK
<1>7. CASE Q!RecoverOrphans
  <2>1. ASSUME NEW r \in Requests, rows[r].status = "processing", ~rows[r].live
        PROVE  Q!RecoveredRow(rows[r]) \in Q!Row /\ Q!RowShape(Q!RecoveredRow(rows[r]))
    BY <1>2, <2>1 DEF Q!RecoveredRow, Q!Row, Q!RowShape, Q!Statuses
  <2>2. RowsOK(rows')
    BY <1>2, <1>7, <2>1 DEF Q!RecoverOrphans, RowsOK
  <2> QED BY <1>7, <2>2 DEF Q!RecoverOrphans, QueueOK
<1> QED BY <1>3, <1>4, <1>5, <1>6, <1>7

\* The rest of TypeOK: the handlers, the record, the logs and the surroundings.
HandlersOK ==
  /\ at \in [Runtimes -> Steps] /\ ev \in [Runtimes -> Prints \cup {NoPrint}]
  /\ word \in [Runtimes -> Words] /\ \A c \in Runtimes : at[c] = "idle" <=> Q!Idle(c)
RecordOK == rec \in Record /\ RecordShape
LogsOK == wakes \in [Requests -> Nat] /\ said \in [Requests -> Words] /\ receipt \in [Requests -> Words]
EnvOK ==
  /\ workspace \in Prints /\ host \in Runtimes \cup {NoOne}
  /\ content \in [Requests -> {"", "pass", "fix"}] /\ deciding \in BOOLEAN /\ edits \in 0 .. MaxEdits

LEMMA TypeParts ==
  /\ TypeOK <=> QueueOK /\ HandlersOK /\ RecordOK /\ LogsOK /\ EnvOK
  /\ TypeOK' <=> QueueOK' /\ HandlersOK' /\ RecordOK' /\ LogsOK' /\ EnvOK'
<1>1. TypeOK <=> Q!TypeOK /\ HandlersOK /\ RecordOK /\ LogsOK /\ EnvOK
  BY DEF TypeOK, HandlersOK, RecordOK, LogsOK, EnvOK
<1>2. TypeOK' <=> Q!TypeOK' /\ HandlersOK' /\ RecordOK' /\ LogsOK' /\ EnvOK'
  BY DEF TypeOK, HandlersOK, RecordOK, LogsOK, EnvOK
<1>3. EnvOK => host \in Runtimes \cup {NoOne}
  BY DEF EnvOK
<1>4. EnvOK' => (host \in Runtimes \cup {NoOne})'
  BY DEF EnvOK
<1> QED BY <1>1, <1>2, <1>3, <1>4, RouteOK

\* The request of a handler that is not idle.
LEMMA HandlerRequest ==
  ASSUME TypeOK, NEW c \in Runtimes, at[c] # "idle"
  PROVE  Req(c) \in Requests /\ SubmissionOf(Req(c)) \in Rounds
<1>1. claim[c] \in Q!Claims
  BY TypeParts DEF HandlersOK, QueueOK, Q!Idle
<1> QED BY <1>1, NumbersOK DEF Q!Claims, Req

\* A step that leaves the log and the last application alone, stands for no
\* more reviews than before, and moves the handlers M in a way that keeps what
\* is said of each of them.
LEMMA Preserve ==
  ASSUME Inv, NEW M \in SUBSET Runtimes, wakes' = wakes,
         QueueOK', HandlersOK', RecordOK', LogsOK', EnvOK', Remembers',
         rec'.appliedReq = rec.appliedReq, rec'.appliedSub = rec.appliedSub,
         rec'.state = "delivered" => wakes[rec.appliedReq] = 1,
         \A r \in Requests : receipt'[r] = "delivered" => wakes[r] = 1,
         rec'.review => rec.review /\ rec'.appliedPrint = rec.appliedPrint,
         rec'.phase # "cancelled" => rec.phase # "cancelled",
         rec'.sub = rec.sub \/ \A r \in Requests : Sent(r) => SubmissionOf(r) # rec'.sub,
         \A c \in Runtimes \ M : at'[c] = at[c] /\ ev'[c] = ev[c] /\ word'[c] = word[c] /\ claim'[c] = claim[c],
         \A c \in M : at'[c] \in Places => at[c] \in Places /\ claim'[c] = claim[c],
         \A c \in M : Delivering(c)' => wakes[Req(c)'] = 1,
         \A c \in M : (Relaying(c) /\ rec.review /\ rec.appliedReq = Req(c))' => ev'[c] = rec'.appliedPrint
  PROVE  Inv'
<1>1. TypeOK'
  BY TypeParts
<1>2. Sents'
  <2>1. \A c \in Runtimes : at'[c] \in Places => at[c] \in Places /\ Req(c)' = Req(c)
    BY DEF Req
  <2>2. \A r \in Requests : Sent(r)' => Sent(r)
    BY <2>1 DEF Sent
  <2> QED BY <2>2 DEF Inv, Sents
<1>3. Told'
  <2>1. \A c \in Runtimes : Delivering(c)' => wakes[Req(c)'] = 1
    BY DEF Inv, Told, Delivering, Req
  <2> QED BY <2>1 DEF Inv, Told
<1>4. Verified'
  <2>1. SUFFICES ASSUME NEW c \in Runtimes \ M, Relaying(c)', rec'.review, rec'.appliedReq = Req(c)'
                 PROVE  ev'[c] = rec'.appliedPrint
    BY DEF Verified
  <2>2. Req(c)' = Req(c) /\ at'[c] = at[c] /\ at[c] \in {"relay", "reload"}
    BY <2>1 DEF Req, Relaying
  <2>3. Sent(Req(c)) /\ Req(c) \in Requests
    BY <2>2, HandlerRequest DEF Inv, Sent, Places
  <2>4. Relaying(c)
    BY <2>1, <2>2, <2>3 DEF Relaying
  <2> QED BY <2>1, <2>2, <2>4 DEF Inv, Verified
<1> QED BY <1>1, <1>2, <1>3, <1>4 DEF Inv

\* A step of the record alone: the handlers, their claims and the log stay.
LEMMA RecordStep ==
  ASSUME Inv, UNCHANGED <<at, ev, word, claim, wakes, said, receipt>>,
         QueueOK', RecordOK', EnvOK', Remembers',
         rec'.appliedReq = rec.appliedReq, rec'.appliedSub = rec.appliedSub,
         rec'.state = "delivered" => wakes[rec.appliedReq] = 1,
         rec'.review => rec.review /\ rec'.appliedPrint = rec.appliedPrint,
         rec'.phase # "cancelled" => rec.phase # "cancelled",
         rec'.sub = rec.sub \/ \A r \in Requests : Sent(r) => SubmissionOf(r) # rec'.sub
  PROVE  Inv'
<1>1. HandlersOK' /\ LogsOK'
  BY TypeParts DEF Inv, HandlersOK, LogsOK, Q!Idle
<1>2. \A r \in Requests : receipt'[r] = "delivered" => wakes[r] = 1
  BY DEF Inv, Told
<1>3. \E M \in SUBSET Runtimes : M = {}
  OBVIOUS
<1>4. PICK M \in SUBSET Runtimes : M = {}
  BY <1>3
<1>5. /\ \A c \in Runtimes \ M : at'[c] = at[c] /\ ev'[c] = ev[c] /\ word'[c] = word[c] /\ claim'[c] = claim[c]
      /\ \A c \in M : FALSE
  BY <1>4
<1> QED BY <1>1, <1>2, <1>5, Preserve

\* A step of the queue or of the surroundings: the record stays as well.
LEMMA OtherStep ==
  ASSUME Inv, UNCHANGED <<at, ev, word, claim, wakes, said, receipt, rec>>, QueueOK', EnvOK'
  PROVE  Inv'
<1>1. RecordOK' /\ Remembers'
  BY TypeParts DEF Inv, RecordOK, RecordShape, Remembers
<1>2. rec.state = "delivered" => wakes[rec.appliedReq] = 1
  BY DEF Inv, Told
<1> QED BY <1>1, <1>2, RecordStep

\* Handler c moves to step s with the word w and the fingerprint p.
Moved(c, s, w, p) ==
  at' = [at EXCEPT ![c] = s] /\ word' = [word EXCEPT ![c] = w] /\ ev' = [ev EXCEPT ![c] = p]

LEMMA MovedOK ==
  ASSUME TypeOK, NEW c \in Runtimes, NEW s \in Steps, NEW w \in Words, NEW p \in Prints \cup {NoPrint},
         at[c] # "idle", s # "idle", Moved(c, s, w, p), claim' = claim
  PROVE  /\ HandlersOK' /\ at'[c] = s /\ word'[c] = w /\ ev'[c] = p
         /\ \A d \in Runtimes \ {c} : at'[d] = at[d] /\ ev'[d] = ev[d] /\ word'[d] = word[d]
BY TypeParts DEF HandlersOK, Moved, Q!Idle

\* A step of handler c that keeps the log and its claim.
LEMMA HandlerMove ==
  ASSUME Inv, NEW c \in Runtimes, HandlersOK',
         \A d \in Runtimes \ {c} : at'[d] = at[d] /\ ev'[d] = ev[d] /\ word'[d] = word[d],
         UNCHANGED <<rows, claim, lost, overtaken, wakes, said, receipt, workspace, host, content, deciding, edits>>,
         faults' \in 0 .. MaxFaults, RecordOK', Remembers',
         rec'.appliedReq = rec.appliedReq, rec'.appliedSub = rec.appliedSub,
         rec'.state = "delivered" => wakes[rec.appliedReq] = 1,
         rec'.review => rec.review /\ rec'.appliedPrint = rec.appliedPrint,
         rec'.phase # "cancelled" => rec.phase # "cancelled", rec'.sub = rec.sub,
         at'[c] \in Places => at[c] \in Places,
         Delivering(c)' => wakes[Req(c)] = 1,
         (Relaying(c) /\ rec.review /\ rec.appliedReq = Req(c))' => ev'[c] = rec'.appliedPrint
  PROVE  Inv'
<1>1. LogsOK' /\ EnvOK' /\ QueueOK'
  BY TypeParts, QueueKeeps DEF Inv, LogsOK, EnvOK
<1>2. \A r \in Requests : receipt'[r] = "delivered" => wakes[r] = 1
  BY DEF Inv, Told
<1>3. Req(c)' = Req(c)
  BY DEF Req
<1>6. PICK M \in SUBSET Runtimes : M = {c}
  OBVIOUS
<1>7. /\ \A d \in Runtimes \ M : at'[d] = at[d] /\ ev'[d] = ev[d] /\ word'[d] = word[d] /\ claim'[d] = claim[d]
      /\ \A d \in M : at'[d] \in Places => at[d] \in Places /\ claim'[d] = claim[d]
      /\ \A d \in M : Delivering(d)' => wakes[Req(d)'] = 1
      /\ \A d \in M : (Relaying(d) /\ rec.review /\ rec.appliedReq = Req(d))' => ev'[d] = rec'.appliedPrint
  BY <1>3, <1>6
<1> QED BY <1>1, <1>2, <1>7, Preserve

\* A step of handler c that does not write the record either.
LEMMA ReadingMove ==
  ASSUME Inv, NEW c \in Runtimes, HandlersOK',
         \A d \in Runtimes \ {c} : at'[d] = at[d] /\ ev'[d] = ev[d] /\ word'[d] = word[d],
         UNCHANGED <<rows, claim, lost, overtaken, wakes, said, receipt, workspace, host, content, deciding, edits, rec>>,
         faults' \in 0 .. MaxFaults,
         at'[c] \in Places => at[c] \in Places,
         Delivering(c)' => wakes[Req(c)] = 1,
         Relaying(c)' /\ rec.review /\ rec.appliedReq = Req(c) => ev'[c] = rec.appliedPrint
  PROVE  Inv'
<1>1. RecordOK' /\ Remembers'
  BY TypeParts DEF Inv, RecordOK, RecordShape, Remembers
<1>2. (rec.state = "delivered" => wakes[rec.appliedReq] = 1) /\ Req(c)' = Req(c)
  BY DEF Inv, Told, Req
<1> QED BY <1>1, <1>2, HandlerMove

\* Handler c is over; a receipt it writes says what its word says.
LEMMA HandlerLeaves ==
  ASSUME Inv, NEW c \in Runtimes, Leave(c), UNCHANGED <<rec, wakes, said, workspace, host, content, deciding, edits>>,
         faults' \in 0 .. MaxFaults,
         \/ \E r \in Requests : Q!Ack(c, r) \/ Q!Park(c, r) \/ Q!PumpDeadLetter(c, r)
         \/ Q!ReturnLost(c) \/ Q!Crash(c),
         \/ receipt' = receipt
         \/ \E r \in Requests : r = Req(c) /\ at[c] \in {"settle", "reject"} /\ receipt' = [receipt EXCEPT ![r] = word[c]]
  PROVE  Inv'
<1>1. QueueOK' /\ claim'[c] = Q!NoClaim /\ \A d \in Runtimes \ {c} : claim'[d] = claim[d]
  BY TypeParts, QueueDrop DEF Inv
<1>2. at'[c] = "idle" /\ \A d \in Runtimes \ {c} : at'[d] = at[d] /\ ev'[d] = ev[d] /\ word'[d] = word[d] /\ claim'[d] = claim[d]
  BY <1>1, TypeParts DEF Inv, HandlersOK, Leave, Finish, Goto
<1>3. HandlersOK' /\ EnvOK' /\ RecordOK' /\ Remembers'
  <2>1. at' \in [Runtimes -> Steps] /\ ev' \in [Runtimes -> Prints \cup {NoPrint}] /\ word' \in [Runtimes -> Words]
    BY TypeParts DEF Inv, HandlersOK, Leave, Finish, Goto, Steps, Words
  <2>2. \A d \in Runtimes : at'[d] = "idle" <=> Q!Idle(d)'
    BY <1>1, <1>2, TypeParts DEF Inv, HandlersOK, Q!Idle
  <2> QED BY <2>1, <2>2, TypeParts DEF Inv, HandlersOK, EnvOK, RecordOK, RecordShape, Remembers
<1>4. LogsOK' /\ \A r \in Requests : receipt'[r] = "delivered" => wakes[r] = 1
  BY TypeParts DEF Inv, Told, LogsOK, HandlersOK, Delivering
<1>5. rec.state = "delivered" => wakes[rec.appliedReq] = 1
  BY DEF Inv, Told
<1>6. PICK M \in SUBSET Runtimes : M = {c}
  OBVIOUS
<1>7. /\ \A d \in Runtimes \ M : at'[d] = at[d] /\ ev'[d] = ev[d] /\ word'[d] = word[d] /\ claim'[d] = claim[d]
      /\ \A d \in M : ~(at'[d] \in Places) /\ ~Delivering(d)' /\ ~Relaying(d)'
  BY <1>2, <1>6 DEF Places, Delivering, Relaying
<1> QED BY <1>1, <1>3, <1>4, <1>5, <1>7, Preserve

\* A new submission: nothing was applied for it yet.
LEMMA InvSubmit == ASSUME Inv, Submit PROVE Inv'
<1>1. /\ rec' = [rec EXCEPT !.sub = rec.sub + 1, !.state = "reviewing", !.pending = TRUE, !.submitted = workspace]
      /\ rec.sub < MaxRounds /\ rec.phase = "executing" /\ ~SubmissionActive
      /\ UNCHANGED <<rows, claim, lost, overtaken, faults, at, ev, word, wakes, said, receipt, workspace, host, content, deciding, edits>>
  BY DEF Submit, queueVars, handlerVars, logVars, envVars
<1>2. rec \in Record /\ RecordShape /\ workspace \in Prints /\ Remembers /\ rec.sub \in Nat /\ rec.appliedSub \in Nat /\ rec.cycles \in Nat
  <2>1. rec \in Record /\ RecordShape /\ workspace \in Prints /\ Remembers
    BY TypeParts DEF Inv, RecordOK, EnvOK
  <2>2. rec.sub \in Nat /\ rec.appliedSub \in Nat /\ rec.cycles \in Nat
    BY <2>1, NumbersOK DEF Record
  <2> QED BY <2>1, <2>2
<1>3. rec.state # "failed" /\ rec.staged = NoOne
  BY <1>1, <1>2, TypeParts DEF Remembers, RecordShape, SubmissionActive
<1>4. /\ rec'.sub = rec.sub + 1 /\ rec'.state = "reviewing" /\ rec'.staged = rec.staged /\ rec'.phase = rec.phase
      /\ rec'.appliedReq = rec.appliedReq /\ rec'.appliedSub = rec.appliedSub /\ rec'.appliedPrint = rec.appliedPrint
      /\ rec'.review = rec.review /\ rec'.error = rec.error /\ rec'.cycles = rec.cycles
  BY <1>1, <1>2 DEF Record
<1>5. rec' \in Record
  <2>1. rec.sub + 1 \in 0 .. MaxRounds /\ "reviewing" \in SubmissionStates /\ TRUE \in BOOLEAN /\ workspace \in Prints \cup {NoPrint}
    BY <1>1, <1>2, NumbersOK DEF SubmissionStates
  <2>2. PICK n \in 0 .. MaxRounds, b \in BOOLEAN : n = rec.sub + 1 /\ b = TRUE
    BY <2>1
  <2>3. rec' = [rec EXCEPT !.sub = n, !.state = "reviewing", !.pending = b, !.submitted = workspace]
    BY <1>1, <2>2
  <2> QED BY <1>2, <2>1, <2>3 DEF Record
<1>6. RecordShape' /\ Remembers'
  BY <1>2, <1>3, <1>4 DEF RecordShape, Remembers
<1>7. QueueOK' /\ EnvOK'
  BY <1>1, TypeParts, QueueKeeps DEF Inv, EnvOK, QueueOK
<1>8. \A r \in Requests : Sent(r) => SubmissionOf(r) # rec'.sub
  BY <1>2, <1>4, NumbersOK DEF Inv, Sents, Remembers, Rounds
<1> QED BY <1>1, <1>4, <1>5, <1>6, <1>7, <1>8, RecordStep DEF RecordOK

\* A verdict is staged.
LEMMA InvStageVerdict == ASSUME Inv, NEW v \in {"pass", "fix"}, StageVerdict(v) PROVE Inv'
<1>1. /\ rec' = [rec EXCEPT !.state = "verdict_ready", !.staged = Staged(rec.sub)] /\ rec.state = "reviewing"
      /\ content' = [content EXCEPT ![Staged(rec.sub)] = v]
      /\ UNCHANGED <<rows, claim, lost, overtaken, faults, at, ev, word, wakes, said, receipt, workspace, host, deciding, edits>>
  BY DEF StageVerdict, queueVars, handlerVars, logVars
<1>2. rec \in Record /\ RecordShape /\ Remembers /\ rec.sub \in Rounds
  BY <1>1, TypeParts, NumbersOK DEF Inv, RecordOK, Record, Rounds, Remembers
<1>3. Staged(rec.sub) \in Requests
  BY <1>2, NumbersOK
<1>4. /\ rec'.sub = rec.sub /\ rec'.state = "verdict_ready" /\ rec'.staged = Staged(rec.sub) /\ rec'.phase = rec.phase
      /\ rec'.appliedReq = rec.appliedReq /\ rec'.appliedSub = rec.appliedSub /\ rec'.appliedPrint = rec.appliedPrint
      /\ rec'.review = rec.review /\ rec'.error = rec.error /\ rec'.cycles = rec.cycles /\ rec'.pending = rec.pending
  BY <1>1, <1>2 DEF Record
<1>5. rec' \in Record
  BY <1>1, <1>2, <1>3 DEF Record, SubmissionStates
<1>6. RecordShape' /\ Remembers'
  BY <1>2, <1>4 DEF RecordShape, Remembers, Rounds
<1>7. QueueOK' /\ EnvOK'
  BY <1>1, TypeParts, QueueKeeps DEF Inv, EnvOK, QueueOK
<1> QED BY <1>1, <1>4, <1>5, <1>6, <1>7, RecordStep DEF RecordOK

\* The staged verdict is queued, and only then received.
LEMMA InvEnqueueStaged == ASSUME Inv, NEW r \in Requests, EnqueueStaged(r) PROVE Inv'
<1>1. UNCHANGED <<at, ev, word, wakes, said, receipt, rec>> /\ EnvOK' /\ Q!Enqueue(r, "verdict")
  BY TypeParts DEF Inv, EnqueueStaged, handlerVars, logVars, envVars, EnvOK
<1> QED BY <1>1, TypeParts, QueueEnqueue, OtherStep DEF Inv

LEMMA InvReceive == ASSUME Inv, Receive PROVE Inv'
<1>1. /\ rec' = [rec EXCEPT !.state = "received"] /\ rec.state = "verdict_ready"
      /\ UNCHANGED <<rows, claim, lost, overtaken, faults, at, ev, word, wakes, said, receipt, workspace, host, content, deciding, edits>>
  BY DEF Receive, queueVars, handlerVars, logVars, envVars
<1>2. rec \in Record /\ RecordShape /\ Remembers
  BY TypeParts DEF Inv, RecordOK
<1>4. /\ rec'.sub = rec.sub /\ rec'.state = "received" /\ rec'.staged = rec.staged /\ rec'.phase = rec.phase
      /\ rec'.appliedReq = rec.appliedReq /\ rec'.appliedSub = rec.appliedSub /\ rec'.appliedPrint = rec.appliedPrint
      /\ rec'.review = rec.review /\ rec'.error = rec.error /\ rec'.cycles = rec.cycles /\ rec'.pending = rec.pending
  BY <1>1, <1>2 DEF Record
<1>5. rec' \in Record /\ RecordShape' /\ Remembers'
  <2>1. rec' \in Record
    BY <1>1, <1>2 DEF Record, SubmissionStates
  <2> QED BY <1>1, <1>2, <1>4, <2>1 DEF RecordShape, Remembers
<1>7. QueueOK' /\ EnvOK'
  BY <1>1, TypeParts, QueueKeeps DEF Inv, EnvOK, QueueOK
<1> QED BY <1>1, <1>4, <1>5, <1>7, RecordStep DEF RecordOK

\* A verdict by hand is queued.
LEMMA InvRespond == ASSUME Inv, NEW n \in Rounds, Respond(n) PROVE Inv'
<1>1. /\ UNCHANGED <<at, ev, word, wakes, said, receipt, rec, workspace, host, deciding, edits>>
      /\ content' = [content EXCEPT ![<<"manual", n>>] = "pass"] /\ Q!Enqueue(<<"manual", n>>, "verdict")
  BY DEF Respond, handlerVars, logVars
<1>2. EnvOK'
  BY <1>1, TypeParts DEF Inv, EnvOK
<1> QED BY <1>1, <1>2, TypeParts, NumbersOK, QueueEnqueue, OtherStep DEF Inv

\* Leases and time.
LEMMA InvQueueStep == ASSUME Inv, QueueStep PROVE Inv'
<1>1. UNCHANGED <<at, ev, word, wakes, said, receipt, rec>> /\ EnvOK'
  BY TypeParts DEF Inv, QueueStep, handlerVars, logVars, envVars, EnvOK
<1>2. QueueOK' /\ claim' = claim
  BY TypeParts, QueueTime DEF Inv, QueueStep
<1> QED BY <1>1, <1>2, OtherStep

\* The session's decision and the cancel.
LEMMA InvDecide == ASSUME Inv, DecideLoad \/ DecideCas PROVE Inv'
<1>1. CASE DecideLoad
  <2>1. /\ UNCHANGED <<rows, claim, lost, overtaken, faults, at, ev, word, wakes, said, receipt, rec, workspace, host, content, edits>>
        /\ deciding' = TRUE
    BY <1>1 DEF DecideLoad, queueVars, handlerVars, logVars
  <2>2. EnvOK' /\ QueueOK'
    BY <2>1, TypeParts, QueueKeeps DEF Inv, EnvOK, QueueOK
  <2> QED BY <2>1, <2>2, OtherStep
<1>2. CASE DecideCas
  <2>1. /\ UNCHANGED <<rows, claim, lost, overtaken, faults, at, ev, word, wakes, said, receipt, workspace, host, content, edits>>
        /\ deciding' = FALSE
    BY <1>2 DEF DecideCas, queueVars, handlerVars, logVars
  <2>2. EnvOK' /\ QueueOK'
    BY <2>1, TypeParts, QueueKeeps DEF Inv, EnvOK, QueueOK
  <2>3. CASE rec' = rec
    BY <2>1, <2>2, <2>3, OtherStep
  <2>4. ASSUME NEW ph \in {"passed", "executing"}, rec' = [rec EXCEPT !.phase = ph, !.error = "none"], ~Suppressed
        PROVE  Inv'
    <3>1. rec \in Record /\ RecordShape /\ Remembers /\ (rec.state = "delivered" => wakes[rec.appliedReq] = 1)
      BY TypeParts DEF Inv, RecordOK, Told
    <3>2. /\ rec'.sub = rec.sub /\ rec'.state = rec.state /\ rec'.staged = rec.staged
          /\ rec'.appliedReq = rec.appliedReq /\ rec'.appliedSub = rec.appliedSub /\ rec'.appliedPrint = rec.appliedPrint
          /\ rec'.review = rec.review /\ rec'.error = "none" /\ rec'.cycles = rec.cycles /\ rec'.pending = rec.pending
      BY <2>4, <3>1 DEF Record
    <3>3. rec' \in Record
      BY <2>4, <3>1 DEF Record, Phases
    <3>4. RecordShape' /\ Remembers'
      BY <2>4, <3>1, <3>2 DEF RecordShape, Remembers, Suppressed
    <3> QED BY <2>1, <2>2, <2>4, <3>1, <3>2, <3>3, <3>4, RecordStep DEF RecordOK, Suppressed
  <2> QED BY <1>2, <2>3, <2>4 DEF DecideCas
<1> QED BY <1>1, <1>2

LEMMA InvCancel == ASSUME Inv, Cancel PROVE Inv'
<1> DEFINE s == IF rec.sub = 0 \/ SubmissionTerminal THEN rec.state ELSE "failed"
<1>1. /\ rec' = [rec EXCEPT !.phase = "cancelled", !.state = s]
      /\ UNCHANGED <<rows, claim, lost, overtaken, faults, at, ev, word, wakes, said, receipt, workspace, host, content, deciding, edits>>
  BY DEF Cancel, queueVars, handlerVars, logVars, envVars
<1>2. rec \in Record /\ RecordShape /\ Remembers /\ (rec.state = "delivered" => wakes[rec.appliedReq] = 1)
  BY TypeParts DEF Inv, RecordOK, Told
<1>3. s \in {rec.state, "failed"} /\ (rec.sub = 0 => s = rec.state) /\ s \in SubmissionStates
  BY <1>2 DEF Record, SubmissionStates
<1> HIDE DEF s
<1>4. /\ rec'.sub = rec.sub /\ rec'.state = s /\ rec'.staged = rec.staged /\ rec'.phase = "cancelled"
      /\ rec'.appliedReq = rec.appliedReq /\ rec'.appliedSub = rec.appliedSub /\ rec'.appliedPrint = rec.appliedPrint
      /\ rec'.review = rec.review /\ rec'.error = rec.error /\ rec'.cycles = rec.cycles /\ rec'.pending = rec.pending
  BY <1>1, <1>2 DEF Record
<1>5. rec' \in Record
  BY <1>1, <1>2, <1>3 DEF Record, Phases
<1>6. RecordShape' /\ Remembers'
  BY <1>2, <1>3, <1>4 DEF RecordShape, Remembers
<1>7. QueueOK' /\ EnvOK'
  BY <1>1, TypeParts, QueueKeeps DEF Inv, EnvOK, QueueOK
<1> QED BY <1>1, <1>2, <1>3, <1>4, <1>5, <1>6, <1>7, RecordStep DEF RecordOK

\* The workspace changes, or the session moves.
LEMMA InvSurroundings ==
  ASSUME Inv, (\E p \in Prints : Edit(p)) \/ (\E h \in Runtimes \cup {NoOne} : Rehost(h))
  PROVE  Inv'
<1>1. ASSUME NEW p \in Prints, Edit(p) PROVE Inv'
  <2>1. /\ UNCHANGED <<rows, claim, lost, overtaken, faults, at, ev, word, wakes, said, receipt, rec, host, content, deciding>>
        /\ workspace' = p /\ edits < MaxEdits /\ edits' = edits + 1
    BY <1>1 DEF Edit, queueVars, handlerVars, logVars
  <2>2. edits' \in 0 .. MaxEdits
    <3>1. edits \in 0 .. MaxEdits
      BY TypeParts DEF Inv, EnvOK
    <3> QED BY <2>1, <3>1, NumbersOK
  <2>3. EnvOK'
    BY <2>1, <2>2, TypeParts DEF Inv, EnvOK
  <2> QED BY <2>1, <2>3, TypeParts, QueueKeeps, OtherStep DEF Inv, QueueOK
<1>2. ASSUME NEW h \in Runtimes \cup {NoOne}, Rehost(h) PROVE Inv'
  <2>1. /\ UNCHANGED <<rows, claim, lost, overtaken, at, ev, word, wakes, said, receipt, rec, workspace, content, deciding, edits>>
        /\ host' = h /\ faults < MaxFaults /\ faults' = faults + 1
    BY <1>2 DEF Rehost, QueueKept, handlerVars, logVars
  <2>2. faults' \in 0 .. MaxFaults
    BY <2>1, TypeParts, NumbersOK DEF Inv, QueueOK
  <2>3. QueueOK' /\ EnvOK'
    BY <2>1, <2>2, TypeParts, QueueKeeps DEF Inv, EnvOK
  <2> QED BY <2>1, <2>3, OtherStep
<1> QED BY <1>1, <1>2

\* What a handler keeps between its steps.
LEMMA LocalsOK ==
  ASSUME TypeOK, NEW c \in Runtimes
  PROVE  /\ at[c] \in Steps /\ word[c] \in Words /\ ev[c] \in Prints \cup {NoPrint} /\ faults \in 0 .. MaxFaults
         /\ word = [word EXCEPT ![c] = word[c]] /\ ev = [ev EXCEPT ![c] = ev[c]]
BY TypeParts DEF HandlersOK, QueueOK

\* A collection of evidence may cost one of the counted faults.
LEMMA ObservedOK ==
  ASSUME TypeOK, NEW p \in Observed, ChargeFor(p)
  PROVE  p \in Prints \cup {NoPrint} /\ faults' \in 0 .. MaxFaults
<1>1. workspace \in Prints /\ faults \in 0 .. MaxFaults
  BY TypeParts DEF EnvOK, QueueOK
<1>2. p \in Prints \cup {NoPrint} /\ (p = NoPrint => faults < MaxFaults)
  <2>1. workspace # NoPrint
    BY <1>1 DEF Prints, NoPrint
  <2> QED BY <2>1 DEF Observed
<1> QED BY <1>1, <1>2, NumbersOK DEF ChargeFor

\* A handler takes a verdict.
LEMMA InvClaimVerdict == ASSUME Inv, NEW c \in Runtimes, NEW r \in Requests, ClaimVerdict(c, r) PROVE Inv'
<1>1. /\ UNCHANGED <<ev, word, rec, wakes, said, receipt, workspace, host, content, deciding, edits>>
      /\ at' = [at EXCEPT ![c] = "collect"] /\ Q!Claim(c, r)
  BY DEF ClaimVerdict, Goto, logVars, envVars
<1>2. /\ QueueOK' /\ claim[c] = Q!NoClaim /\ claim'[c] # Q!NoClaim
      /\ \A d \in Runtimes \ {c} : claim'[d] = claim[d]
  BY <1>1, TypeParts, QueueClaim DEF Inv
<1>3. at'[c] = "collect" /\ \A d \in Runtimes \ {c} : at'[d] = at[d] /\ ev'[d] = ev[d] /\ word'[d] = word[d] /\ claim'[d] = claim[d]
  BY <1>1, <1>2, TypeParts DEF Inv, HandlersOK
<1>4. HandlersOK'
  <2>1. at' \in [Runtimes -> Steps] /\ ev' \in [Runtimes -> Prints \cup {NoPrint}] /\ word' \in [Runtimes -> Words]
    BY <1>1, TypeParts DEF Inv, HandlersOK, Steps
  <2>2. \A d \in Runtimes : at'[d] = "idle" <=> Q!Idle(d)'
    BY <1>2, <1>3, TypeParts DEF Inv, HandlersOK, Q!Idle
  <2> QED BY <2>1, <2>2 DEF HandlersOK
<1>5. EnvOK' /\ LogsOK' /\ RecordOK' /\ Remembers'
  BY <1>1, TypeParts DEF Inv, LogsOK, EnvOK, RecordOK, RecordShape, Remembers
<1>6. (rec.state = "delivered" => wakes[rec.appliedReq] = 1) /\ \A q \in Requests : receipt'[q] = "delivered" => wakes[q] = 1
  BY <1>1 DEF Inv, Told
<1>7. PICK M \in SUBSET Runtimes : M = {c}
  OBVIOUS
<1>8. /\ \A d \in Runtimes \ M : at'[d] = at[d] /\ ev'[d] = ev[d] /\ word'[d] = word[d] /\ claim'[d] = claim[d]
      /\ \A d \in M : ~(at'[d] \in Places) /\ ~Delivering(d)' /\ ~Relaying(d)'
  BY <1>3, <1>7 DEF Places, Delivering, Relaying
<1> QED BY <1>1, <1>2, <1>4, <1>5, <1>6, <1>8, Preserve

\* It collects its evidence.
LEMMA InvCollect == ASSUME Inv, NEW c \in Runtimes, Collect(c) PROVE Inv'
<1>1. /\ at[c] = "collect"
      /\ UNCHANGED <<rows, claim, lost, overtaken, wakes, said, receipt, workspace, host, content, deciding, edits, rec>>
  BY DEF Collect, QueueKept, logVars, envVars
<1>2. PICK s \in {"settle", "apply"}, w \in Words, p \in Prints \cup {NoPrint} :
           Moved(c, s, w, p) /\ faults' \in 0 .. MaxFaults /\ (s = "settle" => w = "cancelled")
  <2>1. CASE /\ at' = [at EXCEPT ![c] = "settle"] /\ word' = [word EXCEPT ![c] = "cancelled"] /\ UNCHANGED <<ev, faults>>
    <3>1. "cancelled" \in Words /\ Moved(c, "settle", "cancelled", ev[c]) /\ ev[c] \in Prints \cup {NoPrint} /\ faults' \in 0 .. MaxFaults
      BY <2>1, LocalsOK DEF Inv, Words, Moved
    <3> QED BY <3>1
  <2>2. ASSUME NEW p \in Observed, ev' = [ev EXCEPT ![c] = p], ChargeFor(p), at' = [at EXCEPT ![c] = "apply"], UNCHANGED word
        PROVE  word[c] \in Words /\ Moved(c, "apply", word[c], p) /\ p \in Prints \cup {NoPrint} /\ faults' \in 0 .. MaxFaults
    BY <2>2, LocalsOK, ObservedOK DEF Inv, Moved
  <2>3. \/ /\ at' = [at EXCEPT ![c] = "settle"] /\ word' = [word EXCEPT ![c] = "cancelled"] /\ UNCHANGED <<ev, faults>>
        \/ \E p \in Observed : ev' = [ev EXCEPT ![c] = p] /\ ChargeFor(p) /\ at' = [at EXCEPT ![c] = "apply"] /\ UNCHANGED word
    BY DEF Collect, Finish, Goto
  <2>4. ASSUME NEW p \in Observed, ev' = [ev EXCEPT ![c] = p], ChargeFor(p), at' = [at EXCEPT ![c] = "apply"], UNCHANGED word
        PROVE  \E w \in Words, q \in Prints \cup {NoPrint} : Moved(c, "apply", w, q) /\ faults' \in 0 .. MaxFaults
    BY <2>2, <2>4
  <2> QED BY <2>1, <2>3, <2>4
<1>3. s \in Steps /\ s # "idle" /\ s \notin Places
  BY DEF Steps, Places
<1>4. /\ HandlersOK' /\ at'[c] = s /\ word'[c] = w
      /\ \A d \in Runtimes \ {c} : at'[d] = at[d] /\ ev'[d] = ev[d] /\ word'[d] = word[d]
  BY <1>1, <1>2, <1>3, MovedOK DEF Inv
<1>5. ~Delivering(c)' /\ ~Relaying(c)'
  BY <1>2, <1>4 DEF Delivering, Relaying
<1> QED BY <1>1, <1>2, <1>3, <1>4, <1>5, ReadingMove

\* The verification before the relay: the workspace is as it was reviewed, or
\* the handler goes on to void the verdict.
LEMMA InvCheck ==
  ASSUME Inv, NEW c \in Runtimes,
         Check(c, "check1", "void1", "check2") \/ Check(c, "check2", "void2", "reload")
  PROVE  Inv'
<1>1. /\ UNCHANGED <<rows, claim, lost, overtaken, wakes, said, receipt, workspace, host, content, deciding, edits, rec, word>>
      /\ at[c] \in Places /\ at[c] # "idle"
  BY DEF Check, QueueKept, logVars, envVars, Places
<1>2. PICK s \in {"check2", "void1", "void2", "reload"} : at' = [at EXCEPT ![c] = s]
           /\ \/ NothingToVerify(Req(c)) /\ UNCHANGED <<ev, faults>>
              \/ \E p \in Observed : ev' = [ev EXCEPT ![c] = p] /\ ChargeFor(p) /\ (s = "reload" => p = rec.appliedPrint)
  BY DEF Check, Goto
<1>3. s \in Steps /\ s # "idle" /\ word[c] \in Words /\ word' = [word EXCEPT ![c] = word[c]]
  BY <1>1, LocalsOK DEF Inv, Steps
<1>4. PICK p \in Prints \cup {NoPrint} :
           /\ Moved(c, s, word[c], p) /\ faults' \in 0 .. MaxFaults
           /\ s = "reload" => NothingToVerify(Req(c)) \/ p = rec.appliedPrint
  <2>1. CASE NothingToVerify(Req(c)) /\ UNCHANGED <<ev, faults>>
    <3>1. ev[c] \in Prints \cup {NoPrint} /\ Moved(c, s, word[c], ev[c]) /\ faults' \in 0 .. MaxFaults
      BY <1>2, <1>3, <2>1, LocalsOK DEF Inv, Moved
    <3> QED BY <2>1, <3>1
  <2>2. ASSUME NEW p \in Observed, ev' = [ev EXCEPT ![c] = p], ChargeFor(p), s = "reload" => p = rec.appliedPrint
        PROVE  \E q \in Prints \cup {NoPrint} : Moved(c, s, word[c], q) /\ faults' \in 0 .. MaxFaults /\ (s = "reload" => q = rec.appliedPrint)
    <3>1. p \in Prints \cup {NoPrint} /\ Moved(c, s, word[c], p) /\ faults' \in 0 .. MaxFaults
      BY <1>2, <1>3, <2>2, ObservedOK DEF Inv, Moved
    <3> QED BY <2>2, <3>1
  <2> QED BY <1>2, <2>1, <2>2
<1>5. /\ HandlersOK' /\ at'[c] = s /\ ev'[c] = p
      /\ \A d \in Runtimes \ {c} : at'[d] = at[d] /\ ev'[d] = ev[d] /\ word'[d] = word[d]
  BY <1>1, <1>3, <1>4, MovedOK DEF Inv
<1>6. ~Delivering(c)'
  BY <1>5 DEF Delivering
<1>7. Relaying(c)' /\ rec.review /\ rec.appliedReq = Req(c) => ev'[c] = rec.appliedPrint
  <2>1. rec.review => rec.appliedPrint # NoPrint /\ rec.error = "none"
    BY DEF Inv, Remembers
  <2>2. Relaying(c)' => s = "reload" /\ rec.sub = SubmissionOf(Req(c)) /\ rec.phase # "cancelled"
    BY <1>1, <1>5 DEF Relaying, Req
  <2> QED BY <1>4, <1>5, <2>1, <2>2 DEF NothingToVerify
<1> QED BY <1>1, <1>4, <1>5, <1>6, <1>7, ReadingMove

\* A void verdict stands for no review.
LEMMA VoidedOK ==
  ASSUME rec \in Record, RecordShape, Remembers, rec' = VoidedRecord, ~Suppressed
  PROVE  /\ rec' \in Record /\ RecordShape' /\ Remembers' /\ ~rec'.review /\ rec'.sub = rec.sub /\ rec'.state = rec.state
         /\ rec'.appliedReq = rec.appliedReq /\ rec'.appliedSub = rec.appliedSub
<1> DEFINE b == FALSE
           ph == IF rec.phase \in {"passed", "decision"} THEN "executing" ELSE rec.phase
<1>1. rec' = [rec EXCEPT !.phase = ph, !.error = "void", !.review = b, !.appliedPrint = NoPrint, !.staged = NoOne]
  BY DEF VoidedRecord
<1>2. b \in BOOLEAN /\ ~b /\ ph \in Phases /\ ph # "cancelled"
  BY DEF Record, Phases, Suppressed
<1> HIDE DEF b, ph
<1>3. rec' \in Record
  BY <1>1, <1>2 DEF Record
<1>4. /\ rec'.sub = rec.sub /\ rec'.state = rec.state /\ rec'.staged = NoOne /\ rec'.phase = ph /\ rec'.pending = rec.pending
      /\ rec'.appliedReq = rec.appliedReq /\ rec'.appliedSub = rec.appliedSub /\ rec'.appliedPrint = NoPrint
      /\ rec'.review = b /\ rec'.cycles = rec.cycles
  BY <1>1 DEF Record
<1>5. rec.state = "failed" => FALSE
  BY DEF Remembers, Suppressed
<1> QED BY <1>2, <1>3, <1>4, <1>5 DEF RecordShape, Remembers

LEMMA InvVoid ==
  ASSUME Inv, NEW c \in Runtimes, Void(c, "void1", "check2") \/ Void(c, "void2", "reload")
  PROVE  Inv'
<1>1. /\ UNCHANGED <<rows, claim, lost, overtaken, faults, wakes, said, receipt, workspace, host, content, deciding, edits, ev, word>>
      /\ at[c] \in Places /\ at[c] # "idle"
      /\ \/ rec' = VoidedRecord /\ ~Suppressed
         \/ rec' = rec /\ (Suppressed \/ rec.sub # SubmissionOf(Req(c)))
  BY DEF Void, queueVars, logVars, envVars, Places
<1>2. PICK s \in {"check2", "reload"} : at' = [at EXCEPT ![c] = s]
  BY DEF Void, Goto
<1>3. /\ HandlersOK' /\ at'[c] = s /\ faults' \in 0 .. MaxFaults
      /\ \A d \in Runtimes \ {c} : at'[d] = at[d] /\ ev'[d] = ev[d] /\ word'[d] = word[d]
  <2>1. s \in Steps /\ s # "idle" /\ Moved(c, s, word[c], ev[c]) /\ word[c] \in Words /\ ev[c] \in Prints \cup {NoPrint}
    BY <1>1, <1>2, LocalsOK DEF Inv, Steps, Moved
  <2> QED BY <1>1, <2>1, MovedOK, LocalsOK DEF Inv
<1>4. rec \in Record /\ RecordShape /\ Remembers /\ (rec.state = "delivered" => wakes[rec.appliedReq] = 1)
  BY TypeParts DEF Inv, RecordOK, Told
<1>5. ~Delivering(c)'
  BY <1>3 DEF Delivering
<1>6. CASE rec' = rec /\ (Suppressed \/ rec.sub # SubmissionOf(Req(c)))
  <2>1. ~Relaying(c)'
    BY <1>1, <1>3, <1>6 DEF Relaying, Req, Suppressed
  <2> QED BY <1>1, <1>3, <1>5, <1>6, <2>1, ReadingMove
<1>7. CASE rec' = VoidedRecord /\ ~Suppressed
  <2>1. /\ RecordOK' /\ Remembers' /\ ~rec'.review /\ rec'.sub = rec.sub /\ rec'.state = rec.state
        /\ rec'.appliedReq = rec.appliedReq /\ rec'.appliedSub = rec.appliedSub /\ rec.phase # "cancelled"
    BY <1>4, <1>7, VoidedOK DEF RecordOK, Suppressed
  <2> QED BY <1>1, <1>3, <1>4, <1>5, <2>1, HandlerMove
<1> QED BY <1>1, <1>6, <1>7

\* The last look before the relay.
LEMMA InvReload == ASSUME Inv, NEW c \in Runtimes, Reload(c) PROVE Inv'
<1>1. /\ UNCHANGED <<rows, claim, lost, overtaken, faults, wakes, said, receipt, workspace, host, content, deciding, edits, rec, ev>>
      /\ at[c] = "reload"
  BY DEF Reload, queueVars, logVars, envVars
<1>2. Message \in Words
  <2>1. rec.error \in {"none", "void", "refused"}
    BY TypeParts DEF Inv, RecordOK, Record
  <2> QED BY <2>1 DEF Message, Words
<1>3. PICK s \in {"reject", "relay"}, w \in Words :
           /\ at' = [at EXCEPT ![c] = s] /\ word' = [word EXCEPT ![c] = w] /\ (s = "reject" => w # "delivered")
           /\ s = "relay" => rec.phase # "cancelled" /\ rec.sub = SubmissionOf(Req(c))
  <2>1. {"cancelled", "no_such_workflow"} \subseteq Words
    BY DEF Words
  <2>2. CASE rec.phase # "cancelled" /\ AppliedFor(Req(c)) /\ Finish(c, "relay", Message)
    BY <1>2, <2>2 DEF Finish, Goto, AppliedFor
  <2>3. CASE Finish(c, "reject", "cancelled")
    BY <2>1, <2>3 DEF Finish, Goto
  <2>4. CASE Finish(c, "reject", "no_such_workflow")
    BY <2>1, <2>4 DEF Finish, Goto
  <2> QED BY <2>2, <2>3, <2>4 DEF Reload
<1>4. /\ HandlersOK' /\ at'[c] = s /\ word'[c] = w /\ ev'[c] = ev[c] /\ faults' \in 0 .. MaxFaults
      /\ \A d \in Runtimes \ {c} : at'[d] = at[d] /\ ev'[d] = ev[d] /\ word'[d] = word[d]
  <2>1. s \in Steps /\ s # "idle" /\ Moved(c, s, w, ev[c]) /\ ev[c] \in Prints \cup {NoPrint} /\ at[c] # "idle"
    BY <1>1, <1>3, LocalsOK DEF Inv, Steps, Moved
  <2> QED BY <1>1, <2>1, MovedOK, LocalsOK DEF Inv
<1>5. ~Delivering(c)' /\ at[c] \in Places
  BY <1>1, <1>3, <1>4 DEF Delivering, Places
<1>6. Relaying(c)' /\ rec.review /\ rec.appliedReq = Req(c) => ev'[c] = rec.appliedPrint
  <2>1. Relaying(c)' => Relaying(c)
    BY <1>1, <1>3, <1>4 DEF Relaying
  <2> QED BY <1>4, <2>1 DEF Inv, Verified
<1> QED BY <1>1, <1>4, <1>5, <1>6, ReadingMove

\* The delivery marker.
LEMMA InvCommit == ASSUME Inv, NEW c \in Runtimes, Commit(c) PROVE Inv'
<1>1. /\ UNCHANGED <<rows, claim, lost, overtaken, faults, wakes, said, receipt, workspace, host, content, deciding, edits, ev>>
      /\ at[c] = "commit"
  BY DEF Commit, queueVars, logVars, envVars
<1>2. PICK w \in Words :
           /\ at' = [at EXCEPT ![c] = "settle"] /\ word' = [word EXCEPT ![c] = w]
           /\ \/ Committable(Req(c)) /\ rec' = [rec EXCEPT !.state = "delivered"]
              \/ rec' = rec
  <2>1. {"delivered", "cancelled", "no_such_workflow"} \subseteq Words
    BY DEF Words
  <2> QED BY <2>1 DEF Commit, Finish, Goto
<1>3. /\ HandlersOK' /\ at'[c] = "settle" /\ faults' \in 0 .. MaxFaults
      /\ \A d \in Runtimes \ {c} : at'[d] = at[d] /\ ev'[d] = ev[d] /\ word'[d] = word[d]
  <2>1. "settle" \in Steps /\ Moved(c, "settle", w, ev[c]) /\ ev[c] \in Prints \cup {NoPrint} /\ at[c] # "idle"
    BY <1>1, <1>2, LocalsOK DEF Inv, Steps, Moved
  <2> QED BY <1>1, <2>1, MovedOK, LocalsOK DEF Inv
<1>4. wakes[Req(c)] = 1 /\ ~Relaying(c)' /\ at'[c] \notin Places
  BY <1>1, <1>3 DEF Inv, Told, Delivering, Relaying, Places
<1>5. CASE rec' = rec
  BY <1>1, <1>3, <1>4, <1>5, ReadingMove
<1>6. CASE Committable(Req(c)) /\ rec' = [rec EXCEPT !.state = "delivered"]
  <2>1. rec \in Record /\ RecordShape /\ Remembers /\ rec.state = "applied" /\ rec.appliedReq = Req(c)
    BY <1>6, TypeParts DEF Inv, RecordOK, Committable
  <2>2. /\ rec'.sub = rec.sub /\ rec'.state = "delivered" /\ rec'.staged = rec.staged /\ rec'.phase = rec.phase
        /\ rec'.appliedReq = rec.appliedReq /\ rec'.appliedSub = rec.appliedSub /\ rec'.appliedPrint = rec.appliedPrint
        /\ rec'.review = rec.review /\ rec'.error = rec.error /\ rec'.cycles = rec.cycles /\ rec'.pending = rec.pending
    BY <1>6, <2>1 DEF Record
  <2>3. rec' \in Record
    BY <1>6, <2>1 DEF Record, SubmissionStates
  <2>4. RecordShape' /\ Remembers'
    BY <2>1, <2>2 DEF RecordShape, Remembers
  <2> QED BY <1>1, <1>3, <1>4, <2>1, <2>2, <2>3, <2>4, HandlerMove DEF RecordOK
<1> QED BY <1>2, <1>5, <1>6

\* Every way in which a handler ends.
LEMMA InvLeaves ==
  ASSUME Inv, NEW c \in Runtimes,
         \/ Return(c) \/ Crash(c)
         \/ \E r \in Requests : Absent(c, r) \/ Acknowledge(c, r) \/ RetryLater(c, r) \/ Throw(c, r)
  PROVE  Inv'
<1>1. faults \in 0 .. MaxFaults /\ (Q!Fault => faults' \in 0 .. MaxFaults)
  <2>1. faults \in 0 .. MaxFaults
    BY TypeParts DEF Inv, QueueOK
  <2> QED BY <2>1, NumbersOK DEF Q!Fault
<1>2. ASSUME Return(c) PROVE Inv'
  <2>1. Leave(c) /\ UNCHANGED <<rec, wakes, said, receipt, workspace, host, content, deciding, edits, faults>> /\ Q!ReturnLost(c)
    BY <1>2 DEF Return, logVars, envVars, Q!ReturnLost
  <2> QED BY <1>1, <2>1, HandlerLeaves
<1>3. ASSUME Crash(c) PROVE Inv'
  <2>1. Leave(c) /\ UNCHANGED <<rec, wakes, said, receipt, workspace, host, content, deciding, edits>> /\ Q!Crash(c) /\ Q!Fault
    BY <1>3 DEF Crash, logVars, envVars, Q!Crash
  <2> QED BY <1>1, <2>1, HandlerLeaves
<1>4. ASSUME NEW r \in Requests, Absent(c, r) PROVE Inv'
  <2>1. Leave(c) /\ UNCHANGED <<rec, wakes, said, receipt, workspace, host, content, deciding, edits, faults>> /\ Q!Park(c, r)
    BY <1>4 DEF Absent, logVars, envVars
  <2> QED BY <1>1, <2>1, HandlerLeaves
<1>5. ASSUME NEW r \in Requests, Acknowledge(c, r) PROVE Inv'
  <2>1. /\ Leave(c) /\ UNCHANGED <<rec, wakes, said, workspace, host, content, deciding, edits, faults>> /\ Q!Ack(c, r)
        /\ at[c] \in {"settle", "reject"} /\ Req(c) = r
        /\ receipt' = receipt \/ receipt' = [receipt EXCEPT ![r] = word[c]]
    BY <1>5 DEF Acknowledge, envVars, Q!Ack, Req
  <2> QED BY <1>1, <2>1, HandlerLeaves
<1>6. ASSUME NEW r \in Requests, RetryLater(c, r) PROVE Inv'
  <2>1. Leave(c) /\ UNCHANGED <<rec, wakes, said, receipt, workspace, host, content, deciding, edits>> /\ Q!Park(c, r) /\ Q!Fault
    BY <1>6 DEF RetryLater, logVars, envVars, Q!RetryPersistent
  <2> QED BY <1>1, <2>1, HandlerLeaves
<1>7. ASSUME NEW r \in Requests, Throw(c, r) PROVE Inv'
  <2>1. Leave(c) /\ UNCHANGED <<rec, wakes, said, receipt, workspace, host, content, deciding, edits, faults>> /\ Q!PumpDeadLetter(c, r)
    BY <1>7 DEF Throw, logVars, envVars, Q!PumpDeadLetter
  <2> QED BY <1>1, <2>1, HandlerLeaves
<1> QED BY <1>2, <1>3, <1>4, <1>5, <1>6, <1>7

\* What an application writes.
LEMMA AppliedOK ==
  ASSUME rec \in Record, RecordShape, Remembers, NEW r \in Requests, rec.sub = SubmissionOf(r), rec.appliedSub # rec.sub,
         rec.phase # "cancelled",
         \/ rec' = RefusedRecord(r)
         \/ \E p \in Prints, ph \in Phases \ {"cancelled"} : rec' = AppliedRecord(r, p, ph)
  PROVE  /\ rec' \in Record /\ RecordShape' /\ Remembers' /\ rec'.state = "applied" /\ rec'.sub = rec.sub
         /\ rec'.appliedReq = r /\ rec'.appliedSub = SubmissionOf(r)
<1>1. /\ rec.sub \in 0 .. MaxRounds /\ rec.appliedSub \in Nat /\ rec.cycles \in Nat /\ rec.sub \in Nat
      /\ rec.appliedSub <= rec.sub /\ rec.cycles <= rec.appliedSub /\ rec.sub # 0 /\ r # NoOne
  BY NumbersOK DEF Record, Remembers, Rounds
<1>2. rec.cycles + 1 <= rec.sub /\ rec.cycles + 1 \in 0 .. MaxRounds
  BY <1>1, NumbersOK
<1>3. CASE rec' = RefusedRecord(r)
  <2> DEFINE b == FALSE
             n == SubmissionOf(r)
  <2>1. rec' = [rec EXCEPT !.state = "applied", !.staged = NoOne, !.pending = b, !.review = b, !.appliedReq = r,
                           !.appliedSub = n, !.appliedPrint = NoPrint, !.error = "refused"]
    BY <1>3 DEF RefusedRecord
  <2>2. b \in BOOLEAN /\ ~b /\ n = rec.sub /\ n = SubmissionOf(r)
    OBVIOUS
  <2> HIDE DEF b, n
  <2>3. rec' \in Record
    BY <1>1, <2>1, <2>2 DEF Record, SubmissionStates
  <2>4. /\ rec'.sub = rec.sub /\ rec'.state = "applied" /\ rec'.staged = NoOne /\ rec'.phase = rec.phase /\ rec'.pending = b
        /\ rec'.appliedReq = r /\ rec'.appliedSub = n /\ rec'.appliedPrint = NoPrint /\ rec'.review = b /\ rec'.cycles = rec.cycles
    BY <2>1 DEF Record
  <2>5. RecordShape' /\ Remembers'
    BY <1>1, <2>2, <2>4 DEF RecordShape, Remembers
  <2> QED BY <2>2, <2>3, <2>4, <2>5
<1>4. ASSUME NEW p \in Prints, NEW ph \in Phases \ {"cancelled"}, rec' = AppliedRecord(r, p, ph)
      PROVE  /\ rec' \in Record /\ RecordShape' /\ Remembers' /\ rec'.state = "applied" /\ rec'.sub = rec.sub
             /\ rec'.appliedReq = r /\ rec'.appliedSub = SubmissionOf(r)
  <2> DEFINE b == FALSE
             t == TRUE
             n == SubmissionOf(r)
             k == rec.cycles + 1
  <2>1. rec' = [rec EXCEPT !.state = "applied", !.staged = NoOne, !.pending = b, !.review = t, !.appliedReq = r,
                           !.appliedSub = n, !.appliedPrint = p, !.submitted = p, !.error = "none", !.phase = ph, !.cycles = k]
    BY <1>4 DEF AppliedRecord
  <2>2. b \in BOOLEAN /\ ~b /\ t \in BOOLEAN /\ t /\ n = rec.sub /\ n = SubmissionOf(r) /\ k <= n /\ k \in 0 .. MaxRounds /\ p # NoPrint
    BY <1>2 DEF Prints, NoPrint
  <2> HIDE DEF b, t, n, k
  <2>3. rec' \in Record
    BY <1>1, <2>1, <2>2 DEF Record, SubmissionStates
  <2>4. /\ rec'.sub = rec.sub /\ rec'.state = "applied" /\ rec'.staged = NoOne /\ rec'.phase = ph /\ rec'.pending = b /\ rec'.error = "none"
        /\ rec'.appliedReq = r /\ rec'.appliedSub = n /\ rec'.appliedPrint = p /\ rec'.review = t /\ rec'.cycles = k
    BY <2>1 DEF Record
  <2>5. RecordShape' /\ Remembers'
    BY <1>1, <2>2, <2>4 DEF RecordShape, Remembers
  <2> QED BY <2>2, <2>3, <2>4, <2>5
<1> QED BY <1>3, <1>4

\* The transaction of the application: refused, already done, or applied now.
LEMMA InvApplyCas == ASSUME Inv, NEW c \in Runtimes, NEW r \in Requests, ApplyCas(c, r) PROVE Inv'
<1>1. /\ UNCHANGED <<rows, claim, lost, overtaken, faults, wakes, said, receipt, workspace, host, content, deciding, edits, ev>>
      /\ at[c] = "apply" /\ r = Req(c) /\ at[c] \notin Places
  BY DEF ApplyCas, queueVars, logVars, envVars, Places
<1>2. rec \in Record /\ RecordShape /\ Remembers /\ (rec.state = "delivered" => wakes[rec.appliedReq] = 1)
  BY TypeParts DEF Inv, RecordOK, Told
<1>3. ASSUME NEW s \in {"settle", "reject"}, NEW w \in Words, Finish(c, s, w), w = "delivered" => wakes[r] = 1, UNCHANGED rec
      PROVE  Inv'
  <2>1. s \in Steps /\ s # "idle" /\ Moved(c, s, w, ev[c]) /\ ev[c] \in Prints \cup {NoPrint} /\ faults' \in 0 .. MaxFaults
    BY <1>1, <1>3, LocalsOK DEF Inv, Steps, Moved, Finish, Goto
  <2>2. /\ HandlersOK' /\ at'[c] = s /\ word'[c] = w
        /\ \A d \in Runtimes \ {c} : at'[d] = at[d] /\ ev'[d] = ev[d] /\ word'[d] = word[d]
    BY <1>1, <2>1, MovedOK DEF Inv
  <2>3. at'[c] \notin Places /\ ~Relaying(c)' /\ (Delivering(c)' => wakes[Req(c)] = 1)
    BY <1>1, <1>3, <2>2 DEF Places, Relaying, Delivering
  <2> QED BY <1>1, <1>3, <2>1, <2>2, <2>3, ReadingMove
<1>4. ASSUME Goto(c, "check1"), UNCHANGED word,
             \/ rec' = rec /\ rec.appliedReq = r
             \/ /\ ~Duplicate(r) /\ ~Unknown(r) /\ ~Suppressed
                /\ \/ rec' = RefusedRecord(r)
                   \/ \E p \in Prints, ph \in Phases \ {"cancelled"} : rec' = AppliedRecord(r, p, ph)
      PROVE  Inv'
  <2>1. "check1" \in Steps /\ Moved(c, "check1", word[c], ev[c]) /\ word[c] \in Words /\ ev[c] \in Prints \cup {NoPrint} /\ faults' \in 0 .. MaxFaults
    BY <1>1, <1>4, LocalsOK DEF Inv, Steps, Moved, Goto
  <2>2. /\ HandlersOK' /\ at'[c] = "check1"
        /\ \A d \in Runtimes \ {c} : at'[d] = at[d] /\ ev'[d] = ev[d] /\ word'[d] = word[d]
    BY <1>1, <2>1, MovedOK DEF Inv
  <2>3. /\ RecordOK' /\ Remembers' /\ rec'.appliedReq = r /\ rec'.appliedSub = SubmissionOf(r)
        /\ rec'.state = "delivered" => wakes[rec'.appliedReq] = 1
        /\ rec' = rec \/ rec.appliedSub < SubmissionOf(r)
    <3>1. CASE rec' = rec /\ rec.appliedReq = r
      BY <1>2, <3>1, NumbersOK DEF RecordOK, RecordShape, Remembers
    <3>2. CASE /\ ~Duplicate(r) /\ ~Unknown(r) /\ ~Suppressed
               /\ \/ rec' = RefusedRecord(r)
                  \/ \E p \in Prints, ph \in Phases \ {"cancelled"} : rec' = AppliedRecord(r, p, ph)
      <4>1. rec.sub = SubmissionOf(r) /\ rec.appliedSub # rec.sub /\ rec.phase # "cancelled"
        BY <3>2 DEF Duplicate, Unknown, Suppressed
      <4>2. rec.appliedSub <= rec.sub /\ rec.appliedSub \in Nat /\ rec.sub \in Nat
        BY <1>2, NumbersOK DEF Record, Remembers
      <4>3. /\ rec' \in Record /\ RecordShape' /\ Remembers' /\ rec'.state = "applied"
            /\ rec'.appliedReq = r /\ rec'.appliedSub = SubmissionOf(r)
        BY <1>2, <3>2, <4>1, AppliedOK
      <4> QED BY <4>1, <4>2, <4>3 DEF RecordOK
    <3> QED BY <1>4, <3>1, <3>2
  <2>4. TypeOK'
    BY <1>1, <2>1, <2>2, <2>3, TypeParts, QueueKeeps DEF Inv, LogsOK, EnvOK
  <2>5. \A d \in Runtimes : Req(d)' = Req(d)
    BY <1>1 DEF Req
  <2>6. \A q \in Requests : Sent(q)' => Sent(q) \/ q = r
    BY <1>1, <2>2, <2>5 DEF Sent
  <2>7. \A q \in Requests : Sent(q) =>
          /\ SubmissionOf(q) <= rec.appliedSub
          /\ SubmissionOf(q) = rec.appliedSub => rec.appliedReq = q
          /\ \A p \in Requests : Sent(p) /\ SubmissionOf(p) = SubmissionOf(q) => p = q
    BY DEF Inv, Sents
  <2>8. Sents'
    <3>1. rec.appliedSub \in Nat /\ \A q \in Requests : SubmissionOf(q) \in Nat
      BY <1>2, NumbersOK DEF Record, Rounds
    <3>2. \A q \in Requests : Sent(q) /\ SubmissionOf(q) = SubmissionOf(r) => q = r
      BY <2>3, <2>7, <3>1
    <3>3. \A q \in Requests : Sent(q) => SubmissionOf(q) <= SubmissionOf(r)
      BY <2>3, <2>7, <3>1
    <3>4. ASSUME NEW q \in Requests, Sent(q)'
          PROVE  /\ SubmissionOf(q) <= rec'.appliedSub
                 /\ SubmissionOf(q) = rec'.appliedSub => rec'.appliedReq = q
                 /\ \A p \in Requests : Sent(p)' /\ SubmissionOf(p) = SubmissionOf(q) => p = q
      BY <2>3, <2>6, <2>7, <3>1, <3>2, <3>3, <3>4
    <3> QED BY <3>4 DEF Sents, SubmissionOf
  <2>9. Told'
    <3>1. \A d \in Runtimes : Delivering(d)' => Delivering(d)
      BY <2>2 DEF Delivering
    <3> QED BY <1>1, <2>3, <2>5, <3>1 DEF Inv, Told
  <2>10. Verified'
    <3>1. SUFFICES ASSUME NEW d \in Runtimes, Relaying(d)', rec'.review, rec'.appliedReq = Req(d)'
                   PROVE  ev'[d] = rec'.appliedPrint
      BY DEF Verified
    <3>2. d # c /\ at'[d] = at[d] /\ at[d] \in Places /\ Req(d) = r
      BY <2>2, <2>3, <2>5, <3>1 DEF Relaying, Places
    <3>3. Sent(r)
      BY <3>2 DEF Sent
    <3>4. rec' = rec
      <4>1. SubmissionOf(r) <= rec.appliedSub /\ rec.appliedSub \in Nat /\ SubmissionOf(r) \in Nat
        BY <1>2, <2>7, <3>3, NumbersOK DEF Record, Rounds
      <4> QED BY <2>3, <4>1
    <3>5. Relaying(d) /\ ev'[d] = ev[d]
      BY <2>2, <2>5, <3>1, <3>2, <3>4 DEF Relaying
    <3> QED BY <2>5, <3>1, <3>4, <3>5 DEF Inv, Verified
  <2> QED BY <2>3, <2>4, <2>8, <2>9, <2>10 DEF Inv
<1>5. {"cancelled", "delivered", "duplicate", "no_such_workflow"} \subseteq Words
  BY DEF Words
<1>6. CASE Finish(c, "settle", "cancelled") /\ UNCHANGED rec
  BY <1>3, <1>5, <1>6
<1>7. CASE rec.appliedReq = r /\ AlreadyDelivered /\ Finish(c, "settle", "delivered") /\ UNCHANGED rec
  BY <1>2, <1>3, <1>5, <1>7 DEF AlreadyDelivered
<1>8. CASE rec.appliedReq = r /\ Goto(c, "check1") /\ UNCHANGED word /\ UNCHANGED rec
  BY <1>4, <1>8
<1>9. CASE Finish(c, "reject", IF Duplicate(r) THEN "duplicate" ELSE "no_such_workflow") /\ UNCHANGED rec
  <2>1. PICK w \in {"duplicate", "no_such_workflow"} : w = IF Duplicate(r) THEN "duplicate" ELSE "no_such_workflow"
    OBVIOUS
  <2> QED BY <1>3, <1>5, <1>9, <2>1
<1>10. CASE /\ ~Suppressed /\ ~Duplicate(r) /\ ~Unknown(r) /\ Goto(c, "check1") /\ UNCHANGED word
            /\ IF ev[c] # NoPrint /\ ev[c] = rec.submitted
               THEN \E ph \in Outcomes(content[r]) : rec' = AppliedRecord(r, ev[c], ph)
               ELSE rec' = RefusedRecord(r)
  <2>1. Outcomes(content[r]) \subseteq Phases \ {"cancelled"} /\ ev[c] \in Prints \cup {NoPrint}
    BY LocalsOK DEF Inv, Outcomes, Phases
  <2> QED BY <1>4, <1>10, <2>1
<1> QED BY <1>6, <1>7, <1>8, <1>9, <1>10 DEF ApplyCas

\* The message goes to the session once.
LEMMA InvRelay == ASSUME Inv, NEW c \in Runtimes, NEW r \in Requests, Relay(c, r) PROVE Inv'
<1>1. /\ UNCHANGED <<rows, claim, lost, overtaken, faults, receipt, workspace, host, content, deciding, edits, ev, rec>>
      /\ at[c] = "relay" /\ r = Req(c) /\ at' = [at EXCEPT ![c] = "commit"] /\ word' = [word EXCEPT ![c] = ""]
      /\ \/ wakes[r] # 0 /\ UNCHANGED <<wakes, said>>
         \/ wakes[r] = 0 /\ wakes' = [wakes EXCEPT ![r] = @ + 1] /\ said' = [said EXCEPT ![r] = word[c]]
  BY DEF Relay, queueVars, envVars, Finish, Goto, InLog
<1>2. /\ HandlersOK' /\ at'[c] = "commit" /\ word[c] \in Words
      /\ \A d \in Runtimes \ {c} : at'[d] = at[d] /\ ev'[d] = ev[d] /\ word'[d] = word[d]
  <2>1. "commit" \in Steps /\ "" \in Words /\ Moved(c, "commit", "", ev[c]) /\ ev[c] \in Prints \cup {NoPrint} /\ at[c] # "idle" /\ word[c] \in Words
    BY <1>1, LocalsOK DEF Inv, Steps, Moved, Words
  <2> QED BY <1>1, <2>1, MovedOK DEF Inv
<1>3. /\ wakes' \in [Requests -> Nat] /\ wakes'[r] = 1
      /\ \A q \in Requests \ {r} : wakes'[q] = wakes[q]
      /\ said' \in [Requests -> Words] /\ \A q \in Requests : wakes[q] \in Nat /\ wakes[q] <= 1
  <2>1. /\ wakes \in [Requests -> Nat] /\ said \in [Requests -> Words]
        /\ \A q \in Requests : wakes[q] <= 1
    BY TypeParts DEF Inv, LogsOK, Told
  <2>2. CASE wakes[r] # 0 /\ UNCHANGED <<wakes, said>>
    <3>1. wakes[r] = 1
      BY <2>1, <2>2
    <3> QED BY <2>1, <2>2, <3>1
  <2>3. CASE wakes[r] = 0 /\ wakes' = [wakes EXCEPT ![r] = @ + 1] /\ said' = [said EXCEPT ![r] = word[c]]
    <3>1. said' \in [Requests -> Words]
      BY <1>2, <2>1, <2>3
    <3>2. wakes' = [wakes EXCEPT ![r] = 1]
      BY <2>1, <2>3
    <3> QED BY <2>1, <3>1, <3>2
  <2> QED BY <1>1, <2>2, <2>3
<1>4. TypeOK'
  <2>1. LogsOK' /\ EnvOK' /\ RecordOK'
    BY <1>1, <1>3, TypeParts DEF Inv, LogsOK, EnvOK, RecordOK, RecordShape
  <2> QED BY <1>1, <1>2, <2>1, TypeParts, QueueKeeps, LocalsOK DEF Inv
<1>5. \A d \in Runtimes : Req(d)' = Req(d)
  BY <1>1 DEF Req
<1>6. Sents'
  <2>1. Sent(r)
    BY <1>1 DEF Sent, Places
  <2>2. \A q \in Requests : Sent(q)' => Sent(q)
    BY <1>1, <1>2, <1>3, <1>5, <2>1 DEF Sent, Places
  <2> QED BY <1>1, <2>2 DEF Inv, Sents
<1>7. Told'
  <2>1. \A q \in Requests : wakes'[q] <= 1 /\ (wakes[q] = 1 => wakes'[q] = 1)
    BY <1>3
  <2>2. rec.state = "delivered" => wakes[rec.appliedReq] = 1 /\ rec.appliedReq \in Requests
    <3>1. rec \in Record /\ Remembers /\ RecordShape
      BY TypeParts DEF Inv, RecordOK
    <3>2. rec.state = "delivered" => rec.appliedReq # NoOne
      BY <3>1 DEF Remembers
    <3> QED BY <3>1, <3>2 DEF Inv, Told, Record
  <2>3. \A d \in Runtimes : Delivering(d)' => wakes'[Req(d)'] = 1
    <3>1. SUFFICES ASSUME NEW d \in Runtimes \ {c}, Delivering(d)' PROVE wakes'[Req(d)'] = 1
      BY <1>1, <1>3, <1>5
    <3>2. Delivering(d) /\ at[d] # "idle"
      BY <1>2, <3>1 DEF Delivering
    <3>3. Req(d) \in Requests /\ wakes[Req(d)] = 1
      BY <3>2, HandlerRequest DEF Inv, Told
    <3> QED BY <1>5, <2>1, <3>3
  <2>4. \A q \in Requests : receipt'[q] = "delivered" => wakes'[q] = 1
    BY <1>1, <2>1 DEF Inv, Told
  <2> QED BY <1>1, <2>1, <2>2, <2>3, <2>4 DEF Told
<1>8. Verified'
  <2>1. SUFFICES ASSUME NEW d \in Runtimes, Relaying(d)', rec.review, rec.appliedReq = Req(d) PROVE ev'[d] = rec'.appliedPrint
    BY <1>1, <1>5 DEF Verified
  <2>2. d # c /\ Relaying(d)
    BY <1>1, <1>2, <1>5, <2>1 DEF Relaying
  <2> QED BY <1>1, <2>1, <2>2 DEF Inv, Verified
<1>9. Remembers'
  BY <1>1 DEF Inv, Remembers
<1> QED BY <1>4, <1>6, <1>7, <1>8, <1>9 DEF Inv

\* Every behaviour starts in the invariant: nothing is queued and nobody works.
LEMMA InvInit == ASSUME Init PROVE Inv
<1>1. \A c \in Runtimes : at[c] = "idle" /\ claim[c] = Q!NoClaim /\ word[c] = "" /\ ev[c] = NoPrint
  BY DEF Init, Q!Init
<1>2. \A r \in Requests : wakes[r] = 0 /\ receipt[r] = ""
  BY DEF Init
<1>3. /\ rec.sub = 0 /\ rec.state = "none" /\ rec.staged = NoOne /\ rec.phase = "executing" /\ ~rec.pending
      /\ rec.appliedReq = NoOne /\ rec.appliedSub = 0 /\ rec.appliedPrint = NoPrint /\ ~rec.review /\ rec.cycles = 0
  BY DEF Init
<1>4. RecordOK
  <2>1. rec \in Record
    <3> DEFINE b == FALSE
    <3>1. rec = [phase |-> "executing", sub |-> 0, state |-> "none", staged |-> NoOne,
                 pending |-> b, submitted |-> NoPrint, appliedReq |-> NoOne, appliedSub |-> 0,
                 appliedPrint |-> NoPrint, error |-> "none", review |-> b, cycles |-> 0] /\ b \in BOOLEAN
      BY DEF Init
    <3> HIDE DEF b
    <3>2. 0 \in 0 .. MaxRounds
      BY NumbersOK
    <3>3. "executing" \in Phases /\ "none" \in SubmissionStates
      BY DEF Phases, SubmissionStates
    <3> QED BY <3>1, <3>2, <3>3 DEF Record
  <2> QED BY <1>3, <2>1, NumbersOK DEF RecordOK, RecordShape
<1>5. HandlersOK
  <2>1. at = [c \in Runtimes |-> "idle"] /\ ev = [c \in Runtimes |-> NoPrint] /\ word = [c \in Runtimes |-> ""]
    BY DEF Init
  <2>2. "idle" \in Steps /\ NoPrint \in Prints \cup {NoPrint} /\ "" \in Words
    BY DEF Steps, Words
  <2> QED BY <1>1, <2>1, <2>2 DEF HandlersOK, Q!Idle
<1>6. LogsOK
  <2>1. wakes = [r \in Requests |-> 0] /\ said = [r \in Requests |-> ""] /\ receipt = [r \in Requests |-> ""] /\ "" \in Words
    BY DEF Init, Words
  <2> QED BY <2>1 DEF LogsOK
<1>7. EnvOK
  <2>1. host \in Runtimes /\ workspace = "print0" /\ content = [r \in Requests |-> ""] /\ deciding = FALSE /\ edits = 0
    BY DEF Init
  <2>2. edits \in 0 .. MaxEdits
    <3>1. edits = 0
      BY DEF Init
    <3> QED BY <3>1, NumbersOK
  <2> QED BY <2>1, <2>2 DEF EnvOK, Prints
<1>8. QueueOK
  <2>1. Q!Absent \in Q!Row /\ Q!RowShape(Q!Absent)
    <3> DEFINE b == FALSE
    <3>1. Q!Absent = [status |-> "absent", hash |-> NoOne, epoch |-> 0, owner |-> NoOne,
                      live |-> b, due |-> b, attempts |-> 0, receipt |-> NoOne] /\ b \in BOOLEAN /\ ~b
      BY DEF Q!Absent
    <3>2. "absent" \in Q!Statuses /\ 0 \in Q!AttemptCounts
      BY DEF Q!Statuses, Q!AttemptCounts
    <3> HIDE DEF b
    <3> QED BY <3>1, <3>2, NumbersOK DEF Q!Row, Q!RowShape
  <2>2. /\ rows = [r \in Requests |-> Q!Absent] /\ claim = [c \in Runtimes |-> Q!NoClaim]
        /\ lost = [c \in Runtimes |-> FALSE] /\ overtaken = FALSE /\ faults = 0
    BY DEF Init, Q!Init
  <2>3. faults \in 0 .. MaxFaults
    BY <2>2, NumbersOK
  <2> QED BY <2>1, <2>2, <2>3 DEF QueueOK, RowsOK
<1>9. TypeOK
  BY <1>4, <1>5, <1>6, <1>7, <1>8, TypeParts
<1>10. Remembers
  BY <1>3, NumbersOK DEF Remembers
<1>11. Sents /\ Told /\ Verified
  <2>1. \A r \in Requests : ~Sent(r)
    BY <1>1, <1>2 DEF Sent, Places
  <2>2. \A c \in Runtimes : ~Delivering(c) /\ ~Relaying(c)
    BY <1>1 DEF Delivering, Relaying
  <2>3. Sents /\ Verified
    BY <2>1, <2>2 DEF Sents, Verified
  <2>4. Told
    <3>1. ASSUME NEW r \in Requests PROVE wakes[r] <= 1
      <4>1. wakes[r] = 0
        BY <1>2
      <4> QED BY <4>1
    <3>2. \A r \in Requests : receipt[r] # "delivered"
      BY <1>2
    <3> QED BY <1>3, <2>2, <3>1, <3>2 DEF Told
  <2> QED BY <2>3, <2>4
<1> QED BY <1>9, <1>10, <1>11 DEF Inv

\* Every step keeps the invariant, action by action.
LEMMA InvStep == ASSUME Inv, [Next]_vars PROVE Inv'
<1>1. CASE UNCHANGED vars
  <2>1. /\ UNCHANGED <<at, ev, word, claim, wakes, said, receipt, rec>>
        /\ UNCHANGED <<rows, lost, overtaken, faults, workspace, host, content, deciding, edits>>
    BY <1>1 DEF vars, queueVars, handlerVars, logVars, envVars
  <2>2. QueueOK' /\ EnvOK'
    BY <2>1, TypeParts, QueueKeeps DEF Inv, EnvOK, QueueOK
  <2> QED BY <2>1, <2>2, OtherStep
<1>2. CASE Submit \/ Review \/ \E n \in Rounds : Respond(n)
  BY <1>2, InvSubmit, InvStageVerdict, InvEnqueueStaged, InvReceive, InvRespond DEF Review
<1>3. ASSUME NEW c \in Runtimes, NEW r \in Requests, ClaimVerdict(c, r) PROVE Inv'
  BY <1>3, InvClaimVerdict
<1>4. ASSUME NEW c \in Runtimes, HandlerStep(c) PROVE Inv'
  <2>1. CASE Collect(c) \/ Reload(c) \/ Commit(c) \/ Return(c)
    BY <2>1, InvCollect, InvReload, InvCommit, InvLeaves
  <2>2. CASE \/ Check(c, "check1", "void1", "check2") \/ Void(c, "void1", "check2")
             \/ Check(c, "check2", "void2", "reload") \/ Void(c, "void2", "reload")
    BY <2>2, InvCheck, InvVoid
  <2>3. CASE \E r \in Requests : ApplyCas(c, r) \/ Relay(c, r) \/ Absent(c, r) \/ Acknowledge(c, r)
    BY <2>3, InvApplyCas, InvRelay, InvLeaves
  <2> QED BY <1>4, <2>1, <2>2, <2>3 DEF HandlerStep
<1>5. ASSUME NEW c \in Runtimes, HandlerFault(c) PROVE Inv'
  BY <1>5, InvLeaves DEF HandlerFault
<1>6. CASE QueueStep \/ DecideLoad \/ DecideCas \/ Cancel \/ (\E p \in Prints : Edit(p)) \/ (\E h \in Runtimes \cup {NoOne} : Rehost(h))
  BY <1>6, InvQueueStep, InvDecide, InvCancel, InvSurroundings
<1> QED BY <1>1, <1>2, <1>3, <1>4, <1>5, <1>6 DEF Next

\* The invariant of the delivery: types, what the record remembers, one request
\* for a submission on its way, true words about it, and a verified relay.
THEOREM InvInvariant == Spec => []Inv
<1>1. Init => Inv
  BY InvInit
<1>2. Inv /\ [Next]_vars => Inv'
  BY InvStep
<1> QED BY <1>1, <1>2, PTL DEF Spec

\* A session is woken at most once for a submission, whichever request carried
\* the verdict and however often handlers crashed, lost their claim or ran side
\* by side, and neither the record nor a receipt says `delivered` of a message
\* that is not in the session's log (handleVerdict, commitVerdictDelivery).
THEOREM OneTrueDeliveryInvariant == Spec => []OneTrueDelivery
<1>1. Inv => OneTrueDelivery
  <2>1. SUFFICES ASSUME Inv PROVE OneTrueDelivery
    OBVIOUS
  <2>2. ASSUME NEW n \in Rounds PROVE wakes[<<"staged", n>>] + wakes[<<"manual", n>>] <= 1
    <3>1. /\ <<"staged", n>> \in Requests /\ <<"manual", n>> \in Requests /\ <<"staged", n>> # <<"manual", n>>
          /\ SubmissionOf(<<"staged", n>>) = n /\ SubmissionOf(<<"manual", n>>) = n
      BY NumbersOK DEF Staged
    <3>2. wakes[<<"staged", n>>] = 0 \/ wakes[<<"manual", n>>] = 0
      BY <2>1, <3>1 DEF Inv, Sents, Sent
    <3>3. \A r \in Requests : wakes[r] \in Nat /\ wakes[r] <= 1
      BY <2>1, TypeParts DEF Inv, LogsOK, Told
    <3> QED BY <3>1, <3>2, <3>3
  <2> QED BY <2>1, <2>2 DEF Inv, OneTrueDelivery, WokenOncePerSubmission, DeliveredWasRelayed, Told
<1> QED BY <1>1, InvInvariant, PTL

\* An applied or delivered verdict is the verdict of the current submission,
\* and no submission counts two review cycles (applyExternalVerdict).
THEOREM VerdictOfCurrentSubmissionInvariant == Spec => []VerdictOfCurrentSubmission
<1>1. Inv => VerdictOfCurrentSubmission
  <2>1. SUFFICES ASSUME Inv PROVE VerdictOfCurrentSubmission
    OBVIOUS
  <2>2. rec \in Record /\ RecordShape /\ Remembers
    BY <2>1, TypeParts DEF Inv, RecordOK
  <2>3. rec.sub \in Nat /\ rec.appliedSub \in Nat /\ rec.cycles \in Nat
    BY <2>2, NumbersOK DEF Record
  <2> QED BY <2>2, <2>3 DEF VerdictOfCurrentSubmission, Remembers
<1> QED BY <1>1, InvInvariant, PTL

\* A session that is told of a pass on a review that stands is told by a handler
\* that saw, after its claim, the workspace that was reviewed
\* (assertVerdictStillValid before the relay).
THEOREM PassWasVerifiedHolds == Spec => PassWasVerified
<1>1. Inv /\ [Next]_vars =>
        [\A c \in Runtimes, r \in Requests :
           (/\ Relay(c, r) /\ wakes'[r] # wakes[r] /\ said'[r] = "pass"
            /\ rec.review /\ rec.appliedReq = r)
             => ev[c] = rec.appliedPrint]_vars
  BY DEF Inv, Verified, Relaying, Relay
<1> QED BY <1>1, InvInvariant, PTL DEF Spec, PassWasVerified

\* A cancelled record is never written again: every writer of the delivery, of
\* the submission and of the session's tools tests the phase (store.update).
THEOREM CancelledIsTerminalHolds == Spec => CancelledIsTerminal
<1>1. [Next]_vars => [rec.phase = "cancelled" => rec' = rec]_vars
  <2>1. SUFFICES ASSUME Next, rec.phase = "cancelled" PROVE rec' = rec
    OBVIOUS
  <2>2. CASE Submit \/ Review \/ (\E n \in Rounds : Respond(n)) \/ QueueStep \/ DecideLoad \/ DecideCas \/ Cancel
    BY <2>1, <2>2 DEF Submit, Review, StageVerdict, EnqueueStaged, Receive, Respond, QueueStep, DecideLoad, DecideCas, Cancel, Suppressed
  <2>3. CASE (\E p \in Prints : Edit(p)) \/ (\E h \in Runtimes \cup {NoOne} : Rehost(h))
    BY <2>3 DEF Edit, Rehost
  <2>4. ASSUME NEW c \in Runtimes, NEW r \in Requests,
               ClaimVerdict(c, r) \/ ApplyCas(c, r) \/ Relay(c, r) \/ Absent(c, r) \/ Acknowledge(c, r) \/ RetryLater(c, r) \/ Throw(c, r)
        PROVE  rec' = rec
    BY <2>1, <2>4 DEF ClaimVerdict, ApplyCas, Relay, Absent, Acknowledge, RetryLater, Throw, Suppressed
  <2>5. ASSUME NEW c \in Runtimes, Collect(c) \/ Reload(c) \/ Commit(c) \/ Return(c) \/ Crash(c)
        PROVE  rec' = rec
    BY <2>1, <2>5 DEF Collect, Reload, Commit, Return, Crash, Committable, Suppressed
  <2>6. ASSUME NEW c \in Runtimes,
               \/ Check(c, "check1", "void1", "check2") \/ Void(c, "void1", "check2")
               \/ Check(c, "check2", "void2", "reload") \/ Void(c, "void2", "reload")
        PROVE  rec' = rec
    BY <2>1, <2>6 DEF Check, Void, Suppressed
  <2> QED BY <2>1, <2>2, <2>3, <2>4, <2>5, <2>6 DEF Next, HandlerStep, HandlerFault
<1> QED BY <1>1, PTL DEF Spec, CancelledIsTerminal

----------------------------------------------------------------------------
(***************************************************************************)
(* The queue that the delivery uses, with the uses that it makes of it, is *)
(* still a FencedQueue: a request is settled only by the runtime that      *)
(* holds it.  This is not a consequence of the theorem about BridgeQueue   *)
(* alone: here a claim is parked without a fault, all requests are routed  *)
(* at once when the session moves, and faults are charged to other calls.  *)
(***************************************************************************)

\* What a row shows of itself to the abstract queue, and the abstract state.
HolderOf(row) == IF row.status = "processing" THEN row.owner ELSE NoOne
stages == [r \in Requests |-> Q!StageOf(rows[r].status)]
holders == [r \in Requests |-> HolderOf(rows[r])]
workers == [c \in Runtimes |-> claim[c].req]
Stutter == UNCHANGED <<stages, holders, workers>>

\* An abstract step, or none.
Fenced == Q!Abstract!Next \/ Stutter

\* One row changes: so do one stage and one holder.
LEMMA OneRow ==
  ASSUME QueueOK, NEW r \in Requests, NEW row, rows' = [rows EXCEPT ![r] = row]
  PROVE  /\ stages' = [stages EXCEPT ![r] = Q!StageOf(row.status)]
         /\ holders' = [holders EXCEPT ![r] = HolderOf(row)]
BY DEF QueueOK, RowsOK, stages, holders

\* The names of a claim: nobody handles a request that is none.
LEMMA Worker ==
  ASSUME QueueOK, NEW c \in Runtimes
  PROVE  /\ claim[c].req \in Requests \cup {NoOne}
         /\ Q!Idle(c) <=> claim[c].req = NoOne
         /\ Q!Drop(c) => workers' = [workers EXCEPT ![c] = NoOne]
<1>1. claim[c] \in Q!Claims \/ claim[c] = Q!NoClaim
  BY DEF QueueOK
<1>2. Q!NoClaim.req = NoOne /\ NoOne \notin Requests
  BY NumbersOK DEF Q!NoClaim
<1>3. claim[c] \in Q!Claims => claim[c].req \in Requests
  BY DEF Q!Claims
<1>4. Q!Drop(c) => workers' = [workers EXCEPT ![c] = NoOne]
  BY <1>2 DEF QueueOK, Q!Drop, workers
<1> QED BY <1>1, <1>2, <1>3, <1>4 DEF Q!Idle

\* The queue stands still.
LEMMA FencedKept == ASSUME UNCHANGED <<rows, claim>> PROVE Fenced
BY DEF Fenced, Stutter, stages, holders, workers

\* A new request appears.
LEMMA FencedEnqueue ==
  ASSUME QueueOK, NEW r \in Requests, Q!Enqueue(r, "verdict")
  PROVE  Fenced
<1> DEFINE row == [Q!Absent EXCEPT !.status = "inbox", !.hash = "verdict"]
<1>1. rows' = [rows EXCEPT ![r] = row] /\ UNCHANGED claim /\ row.status = "inbox" /\ rows[r].status = "absent"
  BY DEF Q!Enqueue, Q!Absent
<1> HIDE DEF row
<1>2. stages' = [stages EXCEPT ![r] = "waiting"] /\ holders' = [holders EXCEPT ![r] = NoOne]
  BY <1>1, OneRow DEF Q!StageOf, HolderOf
<1>3. stages[r] = "unknown" /\ holders[r] = NoOne
  BY <1>1 DEF stages, holders, Q!StageOf, HolderOf
<1>4. UNCHANGED <<holders, workers>>
  BY <1>1, <1>2, <1>3 DEF holders, workers
<1>5. Q!Abstract!Appear(r)
  BY <1>2, <1>3, <1>4 DEF Q!Abstract!Appear, stages, holders, workers, HolderOf
<1> QED BY <1>5 DEF Fenced, Q!Abstract!Next

\* A claim grants a waiting request, or takes it from its last holder.
LEMMA FencedClaim ==
  ASSUME QueueOK, NEW c \in Runtimes, NEW r \in Requests, Q!Claim(c, r)
  PROVE  Fenced
<1> DEFINE row == [rows[r] EXCEPT !.status = "processing", !.epoch = @ + 1, !.owner = c, !.live = TRUE, !.due = FALSE]
<1>0. rows \in [Requests -> Q!Row] /\ rows[r] \in Q!Row
  BY DEF QueueOK, RowsOK
<1>1. rows' = [rows EXCEPT ![r] = row] /\ row.status = "processing" /\ row.owner = c
  BY <1>0 DEF Q!Claim, Q!Row
<1> HIDE DEF row
<1>2. stages' = [stages EXCEPT ![r] = "held"] /\ holders' = [holders EXCEPT ![r] = c]
  <2>1. Q!StageOf(row.status) = "held" /\ HolderOf(row) = c
    BY <1>1 DEF Q!StageOf, HolderOf
  <2> QED BY <1>1, <2>1, OneRow
<1>3. rows[r].status \in {"retry", "processing", "inbox"}
  BY DEF Q!Claim, Q!Candidates, Q!DueRetries, Q!Expired, Q!Inbox
<1>4. stages[r] \in {"waiting", "held"}
  BY <1>3 DEF stages, Q!StageOf
<1>5. workers[c] = NoOne /\ workers' = [workers EXCEPT ![c] = r]
  BY Worker DEF Q!Claim, Q!ClaimOn, QueueOK, workers
<1>6. Q!Abstract!Grant(r, c)
  BY <1>2, <1>4, <1>5 DEF Q!Abstract!Grant, stages, holders, workers, HolderOf
<1> QED BY <1>6 DEF Fenced, Q!Abstract!Next

\* A fenced outcome settles the request of its holder, or only drops the work.
LEMMA FencedOutcome ==
  ASSUME QueueOK, NEW c \in Runtimes, NEW r \in Requests, claim[c].req = r, Q!Drop(c),
         NEW row, row.status \in {"done", "retry", "dead-letter"}, Q!FencedWrite(c, r, row)
  PROVE  Fenced
<1>1. workers[c] = r /\ r # NoOne /\ workers' = [workers EXCEPT ![c] = NoOne]
  BY Worker, NumbersOK DEF workers
<1>2. CASE ~Q!Fence(c, r)
  <2>1. Q!Abstract!Drop(c)
    BY <1>1, <1>2 DEF Q!FencedWrite, Q!Abstract!Drop, stages, holders, workers, HolderOf
  <2> QED BY <2>1 DEF Fenced, Q!Abstract!Next
<1>3. CASE Q!Fence(c, r)
  <2>1. stages' = [stages EXCEPT ![r] = Q!StageOf(row.status)] /\ holders' = [holders EXCEPT ![r] = NoOne]
    BY <1>3, OneRow DEF Q!FencedWrite, HolderOf
  <2>2. Q!StageOf(row.status) \in {"waiting", "done", "dead"}
    BY DEF Q!StageOf
  <2>3. stages[r] = "held" /\ holders[r] = c
    BY <1>3 DEF Q!Fence, stages, holders, Q!StageOf, HolderOf
  <2>4. Q!Abstract!Settle(r, c)
    BY <1>1, <2>1, <2>2, <2>3 DEF Q!Abstract!Settle, stages, holders, workers, HolderOf
  <2> QED BY <2>4 DEF Fenced, Q!Abstract!Next
<1> QED BY <1>2, <1>3

\* Every way in which a handler ends.
LEMMA FencedFinish ==
  ASSUME QueueOK, NEW c \in Runtimes, NEW r \in Requests,
         Q!Ack(c, r) \/ Q!Park(c, r) \/ Q!RetryPersistent(c, r) \/ Q!PumpDeadLetter(c, r)
  PROVE  Fenced
<1>1. rows[r] \in Q!Row
  BY DEF QueueOK, RowsOK
<1>2. /\ Q!AckedRow(rows[r], c).status = "done"
      /\ Q!RetriedRow(rows[r]).status = "retry" /\ Q!DeadRow(rows[r]).status = "dead-letter"
  BY <1>1 DEF Q!Row, Q!AckedRow, Q!RetriedRow, Q!DeadRow
<1>3. CASE Q!Ack(c, r)
  BY <1>2, <1>3, FencedOutcome DEF Q!Ack
<1>4. CASE Q!Park(c, r) \/ Q!RetryPersistent(c, r)
  BY <1>2, <1>4, FencedOutcome DEF Q!Park, Q!RetryPersistent
<1>5. CASE Q!PumpDeadLetter(c, r)
  BY <1>2, <1>5, FencedOutcome DEF Q!PumpDeadLetter
<1> QED BY <1>3, <1>4, <1>5

\* A handler that ends without a statement drops its work.
LEMMA FencedDrop ==
  ASSUME QueueOK, NEW c \in Runtimes, Q!ReturnLost(c) \/ Q!Crash(c)
  PROVE  Fenced
<1>1. UNCHANGED rows /\ workers[c] # NoOne /\ workers' = [workers EXCEPT ![c] = NoOne]
  BY Worker DEF Q!ReturnLost, Q!Crash, workers
<1>2. Q!Abstract!Drop(c)
  BY <1>1 DEF Q!Abstract!Drop, stages, holders, workers, HolderOf
<1> QED BY <1>2 DEF Fenced, Q!Abstract!Next

\* Leases and time: heartbeats and clocks show nothing, the recovery revokes.
LEMMA FencedTime == ASSUME QueueOK, QueueStep PROVE Fenced
<1>0. rows \in [Requests -> Q!Row]
  BY DEF QueueOK, RowsOK
<1>1. ASSUME NEW r \in Requests, NEW b \in BOOLEAN, UNCHANGED claim,
             \/ rows' = [rows EXCEPT ![r].live = b]
             \/ rows' = [rows EXCEPT ![r].due = b]
      PROVE  Fenced
  <2>1. ASSUME NEW q \in Requests
        PROVE  rows'[q].status = rows[q].status /\ rows'[q].owner = rows[q].owner
    BY <1>0, <1>1, <2>1 DEF Q!Row
  <2> QED BY <1>1, <2>1 DEF Fenced, Stutter, stages, holders, workers, HolderOf
<1>2. ASSUME NEW c \in Runtimes, Q!HeartbeatError(c) PROVE Fenced
  BY <1>2, FencedKept DEF Q!HeartbeatError
<1>3. ASSUME NEW c \in Runtimes, NEW r \in Requests, Q!Heartbeat(c, r) PROVE Fenced
  BY <1>1, <1>3, FencedKept DEF Q!Heartbeat
<1>4. ASSUME NEW r \in Requests, Q!Expire(r) \/ Q!Stall(r) \/ Q!RetryDue(r) PROVE Fenced
  BY <1>1, <1>4 DEF Q!Expire, Q!Stall, Q!RetryDue
<1>5. ASSUME Q!RecoverOrphans PROVE Fenced
  <2> DEFINE R == {r \in Requests : rows[r].status = "processing" /\ ~rows[r].live}
  <2>1. ASSUME NEW r \in Requests
        PROVE  /\ r \in R => Q!StageOf(rows'[r].status) = "waiting" /\ HolderOf(rows'[r]) = NoOne
               /\ r \notin R => rows'[r] = rows[r]
               /\ r \in R => Q!StageOf(rows[r].status) = "held"
    BY <1>0, <1>5, <2>1 DEF Q!RecoverOrphans, Q!RecoveredRow, Q!Row, Q!StageOf, HolderOf
  <2>2. R \in SUBSET {r \in Requests : stages[r] = "held"}
    BY <2>1 DEF stages
  <2> HIDE DEF R
  <2>3. /\ stages' = [r \in Requests |-> IF r \in R THEN "waiting" ELSE stages[r]]
        /\ holders' = [r \in Requests |-> IF r \in R THEN NoOne ELSE holders[r]]
        /\ UNCHANGED workers
    BY <1>5, <2>1 DEF stages, holders, workers, Q!RecoverOrphans
  <2>4. Q!Abstract!Revoke
    BY <2>2, <2>3 DEF Q!Abstract!Revoke, stages, holders, workers, HolderOf
  <2> QED BY <2>4 DEF Fenced, Q!Abstract!Next
<1> QED BY <1>2, <1>3, <1>4, <1>5 DEF QueueStep

\* Every step of the delivery is a step of the abstract queue, or invisible.
LEMMA FencedStep == ASSUME Inv, [Next]_vars PROVE Fenced
<1>1. QueueOK
  BY TypeParts DEF Inv
<1>2. ASSUME NEW c \in Runtimes, NEW r \in Requests, ClaimVerdict(c, r) PROVE Fenced
  BY <1>1, <1>2, FencedClaim DEF ClaimVerdict
<1>3. ASSUME NEW c \in Runtimes, NEW r \in Requests,
             Absent(c, r) \/ Acknowledge(c, r) \/ RetryLater(c, r) \/ Throw(c, r)
      PROVE  Fenced
  BY <1>1, <1>3, FencedFinish DEF Absent, Acknowledge, RetryLater, Throw
<1>4. ASSUME NEW c \in Runtimes, Return(c) \/ Crash(c) PROVE Fenced
  BY <1>1, <1>4, FencedDrop DEF Return, Crash
<1>5. ASSUME NEW r \in Requests, EnqueueStaged(r) PROVE Fenced
  BY <1>1, <1>5, FencedEnqueue DEF EnqueueStaged
<1>6. ASSUME NEW n \in Rounds, Respond(n) PROVE Fenced
  <2>1. <<"manual", n>> \in Requests
    BY NumbersOK
  <2> QED BY <1>1, <1>6, <2>1, FencedEnqueue DEF Respond
<1>7. CASE QueueStep
  BY <1>1, <1>7, FencedTime
<1>8. ASSUME NEW c \in Runtimes,
             \/ Collect(c) \/ Reload(c) \/ Commit(c)
             \/ Check(c, "check1", "void1", "check2") \/ Void(c, "void1", "check2")
             \/ Check(c, "check2", "void2", "reload") \/ Void(c, "void2", "reload")
             \/ \E r \in Requests : ApplyCas(c, r) \/ Relay(c, r)
      PROVE  Fenced
  <2>1. UNCHANGED <<rows, claim>>
    BY <1>8 DEF Collect, Reload, Commit, Check, Void, ApplyCas, Relay, QueueKept, queueVars
  <2> QED BY <2>1, FencedKept
<1>9. CASE \/ Submit \/ Receive \/ DecideLoad \/ DecideCas \/ Cancel
           \/ \E v \in {"pass", "fix"} : StageVerdict(v)
           \/ \E p \in Prints : Edit(p)
           \/ \E h \in Runtimes \cup {NoOne} : Rehost(h)
           \/ UNCHANGED vars
  <2>1. UNCHANGED <<rows, claim>>
    BY <1>9 DEF Submit, Receive, DecideLoad, DecideCas, Cancel, StageVerdict, Edit, Rehost, QueueKept, queueVars, vars
  <2> QED BY <2>1, FencedKept
<1> QED BY <1>2, <1>3, <1>4, <1>5, <1>6, <1>7, <1>8, <1>9 DEF Next, Review, HandlerStep, HandlerFault

\* The queue under the delivery keeps the promise of FencedQueue, through every
\* outcome of handleVerdict and whatever becomes of its runtime: only the runtime
\* that holds a verdict request settles it (bridge-runtime.ts handleVerdict with the
\* fenced statements of queue-repository.ts).
THEOREM QueueStaysFenced == Spec => Q!ImplementsFencedQueue
<1>1. Init => Q!Abstract!Init
  <2> SUFFICES ASSUME Init PROVE Q!Abstract!Init
    OBVIOUS
  <2>1. rows = [r \in Requests |-> Q!Absent] /\ claim = [c \in Runtimes |-> Q!NoClaim]
    BY DEF Init, Q!Init
  <2>2. Q!Absent.status = "absent" /\ Q!NoClaim.req = NoOne /\ Q!StageOf("absent") = "unknown"
    BY DEF Q!Absent, Q!NoClaim, Q!StageOf
  <2> QED BY <2>1, <2>2 DEF Q!Abstract!Init
<1>2. Inv /\ [Next]_vars => [Q!Abstract!Next]_(Q!Abstract!vars)
  BY FencedStep DEF Fenced, Stutter, stages, holders, workers, HolderOf, Q!Abstract!vars
<1>3. Spec => []Inv
  BY InvInvariant
<1> QED BY <1>1, <1>2, <1>3, PTL DEF Spec, Q!Abstract!Spec, Q!ImplementsFencedQueue
=============================================================================
