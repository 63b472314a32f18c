------------------------- MODULE BridgeQueueProofs -------------------------
(***************************************************************************)
(* Theorems about the bridge queue, for every number of runtimes and       *)
(* requests, every retry limit and every number of faults.                 *)
(***************************************************************************)
EXTENDS BridgeQueue, TLAPS

\* Attempt counts stay in their range when they are bumped.
LEMMA BumpType == \A n \in AttemptCounts : Bump(n) \in AttemptCounts
  BY BoundsAssumption DEF AttemptCounts, Bump

\* The part of TypeOK that speaks of the rows.
RowsOK(t) == /\ t \in [Requests -> Row]
             /\ \A r \in Requests : RowShape(t[r])

\* A row that is replaced by a well-shaped row leaves the rows well-shaped.
LEMMA RowUpdate ==
  ASSUME NEW r \in Requests, NEW row \in Row, RowShape(row), RowsOK(rows),
         rows' = [rows EXCEPT ![r] = row]
  PROVE  RowsOK(rows')
  BY DEF RowsOK

\* The rows a step writes are rows, and well-shaped.
LEMMA AbsentRow == Absent \in Row /\ RowShape(Absent)
  BY BoundsAssumption DEF Absent, Row, RowShape, Statuses, AttemptCounts

\* So are the rows a fenced outcome or the recovery writes.
LEMMA SettledRows ==
  ASSUME NEW row \in Row, RowShape(row), row.status = "processing", NEW c \in Runtimes
  PROVE  /\ AckedRow(row, c) \in Row /\ RowShape(AckedRow(row, c))
         /\ RetriedRow(row) \in Row /\ RowShape(RetriedRow(row))
         /\ DeadRow(row) \in Row /\ RowShape(DeadRow(row))
         /\ QuarantinedRow(row) \in Row /\ RowShape(QuarantinedRow(row))
         /\ RecoveredRow(row) \in Row /\ (~row.live => RowShape(RecoveredRow(row)))
  BY BumpType, NamesAssumption DEF Row, RowShape, AckedRow, RetriedRow, DeadRow, QuarantinedRow, RecoveredRow, Statuses

\* A fenced statement on a claimed request keeps the rows well-shaped whatever
\* well-shaped row it writes, and the dropped claim keeps the claims typed.
LEMMA OutcomeType ==
  ASSUME TypeOK, NEW c \in Runtimes, NEW r \in Requests, NEW row,
         Fence(c, r) => row \in Row /\ RowShape(row),
         FencedWrite(c, r, row), Drop(c),
         UNCHANGED <<route, overtaken, ops>>, faults' \in 0 .. MaxFaults
  PROVE  TypeOK'
<1>1. RowsOK(rows')
  <2>1. CASE Fence(c, r)
    BY <2>1, RowUpdate DEF FencedWrite, TypeOK, RowsOK
  <2>2. CASE ~Fence(c, r)
    BY <2>2 DEF FencedWrite, TypeOK, RowsOK
  <2> QED BY <2>1, <2>2
<1>2. claim' \in [Runtimes -> Claims \cup {NoClaim}] /\ lost' \in [Runtimes -> BOOLEAN]
  BY DEF Drop, TypeOK
<1> QED BY <1>1, <1>2 DEF TypeOK, RowsOK

\* Types and row shapes hold initially and are kept by every step.
LEMMA TypeInit == Init => TypeOK
<1> SUFFICES ASSUME Init PROVE TypeOK
  OBVIOUS
<1>1. RowsOK(rows)
  BY AbsentRow DEF Init, RowsOK
<1>2. claim \in [Runtimes -> Claims \cup {NoClaim}]
  BY DEF Init
<1>3. 0 \in 0 .. MaxFaults /\ 0 \in 0 .. MaxOps
  BY BoundsAssumption
<1> QED BY <1>1, <1>2, <1>3 DEF Init, TypeOK, RowsOK

\* Every step keeps the types and the row shapes: one step per action.
LEMMA TypeStep == TypeOK /\ [Next]_vars => TypeOK'
<1> SUFFICES ASSUME TypeOK, [Next]_vars PROVE TypeOK'
  OBVIOUS
<1> USE BoundsAssumption
<1>0. RowsOK(rows)
  BY DEF TypeOK, RowsOK
<1>1. ASSUME NEW r \in Requests, NEW h \in Commands, Enqueue(r, h) PROVE TypeOK'
  <2>1. [Absent EXCEPT !.status = "inbox", !.hash = h] \in Row
    BY AbsentRow DEF Row, Statuses
  <2>2. RowShape([Absent EXCEPT !.status = "inbox", !.hash = h])
    BY KindsAssumption DEF Absent, RowShape, Commands
  <2>3. RowsOK(rows')
    BY <1>0, <1>1, <2>1, <2>2, RowUpdate DEF Enqueue
  <2> QED BY <1>1, <2>3 DEF Enqueue, TypeOK, RowsOK
<1>2. ASSUME NEW c \in Runtimes, NEW r \in Requests, Claim(c, r) PROVE TypeOK'
  <2> DEFINE row == [rows[r] EXCEPT !.status = "processing", !.epoch = @ + 1,
                                    !.owner = c, !.live = TRUE, !.due = FALSE]
  <2>1. rows[r].status \in {"retry", "processing", "inbox"}
    BY <1>2 DEF Claim, Candidates, DueRetries, Expired, Inbox
  <2>2. row \in Row /\ RowShape(row)
    <3>1. rows[r] \in Row /\ RowShape(rows[r])
      BY <1>0 DEF RowsOK
    <3>2. row \in Row
      BY <3>1, rows[r].epoch + 1 \in Nat DEF Row, Statuses
    <3>3. row.status = "processing" /\ row.hash = rows[r].hash /\ row.live /\ ~row.due
          /\ row.receipt = rows[r].receipt /\ row.owner = c
      BY <3>1 DEF Row
    <3> QED BY <3>1, <3>2, <3>3, <2>1, NamesAssumption DEF RowShape
  <2>3. rows' = [rows EXCEPT ![r] = row]
    BY <1>2, <1>0 DEF Claim, RowsOK, Row
  <2> HIDE DEF row
  <2>4. RowsOK(rows')
    BY <1>0, <2>2, <2>3, RowUpdate
  <2>5. ClaimOn(r) \in Claims
    <3>1. rows[r].hash # NoOne
      BY <1>0, <2>1 DEF RowsOK, RowShape
    <3> QED BY <1>0, <3>1 DEF ClaimOn, Claims, RowsOK, Row
  <2> QED BY <1>2, <2>4, <2>5 DEF Claim, TypeOK, RowsOK
<1>3. ASSUME NEW c \in Runtimes, NEW r \in Requests, Finish(c, r) PROVE TypeOK'
  <2>1. Fence(c, r) => /\ AckedRow(rows[r], c) \in Row /\ RowShape(AckedRow(rows[r], c))
                       /\ RetriedRow(rows[r]) \in Row /\ RowShape(RetriedRow(rows[r]))
                       /\ DeadRow(rows[r]) \in Row /\ RowShape(DeadRow(rows[r]))
                       /\ QuarantinedRow(rows[r]) \in Row /\ RowShape(QuarantinedRow(rows[r]))
    BY <1>0, SettledRows DEF RowsOK, Fence
  <2>2. faults \in 0 .. MaxFaults
    BY DEF TypeOK
  <2>3. CASE Ack(c, r)
    BY <2>1, <2>2, <2>3, OutcomeType DEF Ack
  <2>4. CASE RetryOrDeadLetter(c, r)
    BY <2>1, <2>2, <2>4, OutcomeType DEF RetryOrDeadLetter
  <2>5. CASE RetryPersistent(c, r)
    <3>1. faults' \in 0 .. MaxFaults
      BY <2>2, <2>5 DEF RetryPersistent, Fault
    <3> QED BY <2>1, <2>5, <3>1, OutcomeType DEF RetryPersistent, Park
  <2>6. CASE PumpDeadLetter(c, r)
    BY <2>1, <2>2, <2>6, OutcomeType DEF PumpDeadLetter
  <2>7. CASE Quarantine(c, r)
    BY <2>1, <2>2, <2>7, OutcomeType DEF Quarantine
  <2> QED BY <1>3, <2>3, <2>4, <2>5, <2>6, <2>7 DEF Finish
<1>4. ASSUME NEW c \in Runtimes, NEW r \in Requests, Heartbeat(c, r) PROVE TypeOK'
  <2>1. CASE Fence(c, r)
    <3> DEFINE row == [rows[r] EXCEPT !.live = TRUE]
    <3>1. row \in Row /\ RowShape(row)
      BY <1>0, <2>1 DEF RowsOK, Row, RowShape, Fence
    <3>2. rows' = [rows EXCEPT ![r] = row] /\ UNCHANGED lost
      BY <1>4, <2>1 DEF Heartbeat
    <3> HIDE DEF row
    <3>3. RowsOK(rows')
      BY <1>0, <3>1, <3>2, RowUpdate
    <3> QED BY <1>4, <3>2, <3>3 DEF Heartbeat, TypeOK, RowsOK
  <2>2. CASE ~Fence(c, r)
    BY <1>4, <2>2 DEF Heartbeat, TypeOK
  <2> QED BY <2>1, <2>2
<1>5. ASSUME NEW c \in Runtimes, ReturnLost(c) \/ HeartbeatError(c) \/ Crash(c) PROVE TypeOK'
  <2>1. claim' \in [Runtimes -> Claims \cup {NoClaim}] /\ lost' \in [Runtimes -> BOOLEAN]
    BY <1>5 DEF ReturnLost, HeartbeatError, Crash, Drop, TypeOK
  <2>2. faults' \in 0 .. MaxFaults
    BY <1>5 DEF ReturnLost, HeartbeatError, Crash, Fault, TypeOK
  <2>3. UNCHANGED <<rows, route, overtaken, ops>>
    BY <1>5 DEF ReturnLost, HeartbeatError, Crash
  <2> QED BY <2>1, <2>2, <2>3 DEF TypeOK
<1>6. ASSUME NEW r \in Requests, Expire(r) \/ Stall(r) PROVE TypeOK'
  <2> DEFINE row == [rows[r] EXCEPT !.live = FALSE]
  <2>1. row \in Row /\ RowShape(row)
    BY <1>0 DEF RowsOK, Row, RowShape
  <2>2. rows' = [rows EXCEPT ![r] = row] /\ UNCHANGED <<claim, lost, route, ops>>
    BY <1>6 DEF Expire, Stall
  <2> HIDE DEF row
  <2>3. RowsOK(rows')
    BY <1>0, <2>1, <2>2, RowUpdate
  <2>4. faults' \in 0 .. MaxFaults
    BY <1>6 DEF Expire, Stall, Fault, TypeOK
  <2>5. overtaken' \in BOOLEAN
    BY <1>6 DEF Expire, Stall, TypeOK
  <2> QED BY <2>2, <2>3, <2>4, <2>5 DEF TypeOK, RowsOK
<1>7. ASSUME NEW r \in Requests, RetryDue(r) PROVE TypeOK'
  <2> DEFINE row == [rows[r] EXCEPT !.due = TRUE]
  <2>1. row \in Row /\ RowShape(row)
    BY <1>0, <1>7 DEF RowsOK, Row, RowShape, RetryDue
  <2>2. rows' = [rows EXCEPT ![r] = row]
    BY <1>7 DEF RetryDue
  <2> HIDE DEF row
  <2>3. RowsOK(rows')
    BY <1>0, <2>1, <2>2, RowUpdate
  <2> QED BY <1>7, <2>3 DEF RetryDue, TypeOK, RowsOK
<1>8. ASSUME RecoverOrphans PROVE TypeOK'
  <2>1. \A r \in Requests :
           /\ rows[r] \in Row /\ RowShape(rows[r])
           /\ rows[r].status = "processing" /\ ~rows[r].live =>
                RecoveredRow(rows[r]) \in Row /\ RowShape(RecoveredRow(rows[r]))
    <3>1. ASSUME NEW r \in Requests PROVE rows[r] \in Row /\ RowShape(rows[r])
      BY <1>0 DEF RowsOK
    <3>2. ASSUME NEW r \in Requests, rows[r].status = "processing", ~rows[r].live
          PROVE  RecoveredRow(rows[r]) \in Row /\ RowShape(RecoveredRow(rows[r]))
      BY <3>1, <3>2 DEF RecoveredRow, Row, RowShape, Statuses
    <3> QED BY <3>1, <3>2
  <2>2. RowsOK(rows')
    BY <1>8, <2>1 DEF RecoverOrphans, RowsOK
  <2> QED BY <1>8, <2>2 DEF RecoverOrphans, TypeOK, RowsOK
<1>9. ASSUME NEW r \in Requests, Requeue(r) PROVE TypeOK'
  <2> DEFINE row == [rows[r] EXCEPT !.status = "retry", !.due = TRUE, !.owner = NoOne]
  <2>1. row \in Row /\ RowShape(row)
    BY <1>0, <1>9 DEF RowsOK, Row, RowShape, Statuses, Requeue, Requeueable
  <2>2. rows' = [rows EXCEPT ![r] = row]
    BY <1>0, <1>9 DEF Requeue, RowsOK, Row
  <2> HIDE DEF row
  <2>3. RowsOK(rows')
    BY <1>0, <2>1, <2>2, RowUpdate
  <2> QED BY <1>9, <2>3 DEF Requeue, Op, TypeOK, RowsOK
<1>10. ASSUME NEW r \in Requests, Prune(r) PROVE TypeOK'
  <2>1. RowsOK(rows')
    BY <1>0, <1>10, AbsentRow, RowUpdate DEF Prune
  <2> QED BY <1>10, <2>1 DEF Prune, Op, TypeOK, RowsOK
<1>11. ASSUME NEW r \in Requests, NEW h \in Commands, ImportReceipt(r, h) PROVE TypeOK'
  <2> DEFINE row == ReceivedRow(rows[r], h)
  <2>1. rows[r] \in Row /\ RowShape(rows[r])
    BY <1>0 DEF RowsOK
  <2>2. row \in Row
    <3>1. CASE rows[r].status = "absent"
      BY <2>1, <3>1 DEF row, ReceivedRow, Row, Statuses
    <3>2. CASE rows[r].status # "absent"
      BY <2>1, <3>2 DEF row, ReceivedRow, Row, Statuses
    <3> QED BY <3>1, <3>2
  <2>3. row.hash # NoOne
    BY <2>1, KindsAssumption DEF ReceivedRow, Row, RowShape, Commands
  <2>4. row.status = "done" /\ row.receipt = Legacy /\ row.owner = NoOne /\ ~row.live /\ ~row.due
    BY <2>1 DEF ReceivedRow, Row
  <2>5. RowShape(row)
    BY <2>3, <2>4, NamesAssumption DEF RowShape
  <2>6. rows' = [rows EXCEPT ![r] = row]
    BY <1>11 DEF ImportReceipt
  <2> HIDE DEF row
  <2>7. RowsOK(rows')
    BY <1>0, <2>2, <2>5, <2>6, RowUpdate
  <2>8. overtaken' \in BOOLEAN
    BY <1>11 DEF ImportReceipt, Renewed, TypeOK
  <2> QED BY <1>11, <2>7, <2>8 DEF ImportReceipt, Op, TypeOK, RowsOK
<1>12. ASSUME NEW r \in Requests, NEW h \in Commands, NEW n \in AttemptCounts,
              NEW s \in {"inbox", "retry", "dead-letter"}, ImportRow(r, h, s, n)
       PROVE TypeOK'
  <2>1. PICK d \in BOOLEAN :
          /\ d => s = "retry"
          /\ rows' = [rows EXCEPT ![r] = [Absent EXCEPT !.status = s, !.hash = h,
                                                        !.attempts = n, !.due = d]]
    BY <1>12 DEF ImportRow
  <2> DEFINE row == [Absent EXCEPT !.status = s, !.hash = h, !.attempts = n, !.due = d]
  <2>2. row \in Row
    BY AbsentRow DEF Row, Statuses
  <2>3. RowShape(row)
    BY <2>1, KindsAssumption DEF Absent, RowShape, Commands
  <2> HIDE DEF row
  <2>4. RowsOK(rows')
    BY <1>0, <2>1, <2>2, <2>3, RowUpdate DEF row
  <2> QED BY <1>12, <2>4 DEF ImportRow, Op, TypeOK, RowsOK
<1>13. ASSUME NEW r \in Requests, NEW S \in SUBSET Runtimes, Reroute(r, S) PROVE TypeOK'
  BY <1>13 DEF Reroute, Fault, TypeOK
<1>14. CASE UNCHANGED vars
  BY <1>14 DEF vars, TypeOK
<1> QED
  BY <1>1, <1>2, <1>3, <1>4, <1>5, <1>6, <1>7, <1>8, <1>9, <1>10, <1>11, <1>12, <1>13, <1>14
  DEF Next

\* Every queue row, claim and counter keeps its type, and the fields of a row
\* agree with its status, in every reachable state.
THEOREM TypeInvariant == Spec => []TypeOK
<1>1. Init => TypeOK
  BY TypeInit
<1>2. TypeOK /\ [Next]_vars => TypeOK'
  BY TypeStep
<1> QED BY <1>1, <1>2, PTL DEF Spec

\* Facts about the names that the step proofs need.
LEMMA Names == /\ NoClaim.req = NoOne
               /\ NoOne \notin Requests /\ NoOne \notin Runtimes
               /\ \A r \in Requests : ClaimOn(r).req = r /\ ClaimOn(r) # NoClaim
  BY NamesAssumption DEF NoClaim, ClaimOn

\* What the row of a settled request says.
Outcomes == {"retry", "done", "dead-letter"}

\* A handler's outcome drops its claim, and touches its row only when the
\* fence holds; a row it touches says what became of it.
LEMMA FinishEffect ==
  ASSUME TypeOK, NEW c \in Runtimes, NEW r \in Requests, Finish(c, r)
  PROVE  /\ claim[c].req = r /\ Drop(c) /\ UNCHANGED overtaken
         /\ \/ UNCHANGED rows
            \/ /\ Fence(c, r)
               /\ \E row \in Row : /\ row.status \in Outcomes /\ row.hash = rows[r].hash
                                   /\ row.epoch = rows[r].epoch
                                   /\ rows' = [rows EXCEPT ![r] = row]
<1>0. rows[r] \in Row /\ RowShape(rows[r])
  BY DEF TypeOK
<1> DEFINE Written(row) == /\ row \in Row /\ row.status \in Outcomes
                           /\ row.hash = rows[r].hash /\ row.epoch = rows[r].epoch
<1>1. Fence(c, r) => /\ Written(AckedRow(rows[r], c)) /\ Written(RetriedRow(rows[r]))
                     /\ Written(DeadRow(rows[r])) /\ Written(QuarantinedRow(rows[r]))
  <2> SUFFICES ASSUME Fence(c, r)
               PROVE  /\ Written(AckedRow(rows[r], c)) /\ Written(RetriedRow(rows[r]))
                      /\ Written(DeadRow(rows[r])) /\ Written(QuarantinedRow(rows[r]))
    OBVIOUS
  <2>1. /\ AckedRow(rows[r], c) \in Row /\ RetriedRow(rows[r]) \in Row
        /\ DeadRow(rows[r]) \in Row /\ QuarantinedRow(rows[r]) \in Row
    BY <1>0, SettledRows DEF Fence
  <2> QED BY <1>0, <2>1 DEF AckedRow, RetriedRow, DeadRow, QuarantinedRow, Row, Outcomes
<1>2. \A row : Written(row) /\ FencedWrite(c, r, row) =>
         \/ UNCHANGED rows
         \/ Fence(c, r) /\ \E w \in Row : /\ w.status \in Outcomes /\ w.hash = rows[r].hash
                                         /\ w.epoch = rows[r].epoch
                                         /\ rows' = [rows EXCEPT ![r] = w]
  BY DEF FencedWrite
<1>3. \A row : ~Fence(c, r) /\ FencedWrite(c, r, row) => UNCHANGED rows
  BY DEF FencedWrite
<1> HIDE DEF Written
<1>4. CASE Ack(c, r)
  BY <1>1, <1>2, <1>3, <1>4 DEF Ack
<1>5. CASE RetryOrDeadLetter(c, r)
  BY <1>1, <1>2, <1>3, <1>5 DEF RetryOrDeadLetter
<1>6. CASE RetryPersistent(c, r)
  BY <1>1, <1>2, <1>3, <1>6 DEF RetryPersistent, Park
<1>7. CASE PumpDeadLetter(c, r)
  BY <1>1, <1>2, <1>3, <1>7 DEF PumpDeadLetter
<1>8. CASE Quarantine(c, r)
  BY <1>1, <1>2, <1>3, <1>8 DEF Quarantine
<1> QED BY <1>4, <1>5, <1>6, <1>7, <1>8 DEF Finish

\* Besides claiming, a step keeps a runtime's claim or drops it, and a row that
\* is in progress after the step was in progress before, under the same claim.
LEMMA StepEffect ==
  ASSUME TypeOK, [Next]_vars, \A c \in Runtimes, r \in Requests : ~Claim(c, r)
  PROVE  /\ \A c \in Runtimes : claim'[c] = claim[c] \/ claim'[c] = NoClaim
         /\ \A r \in Requests : rows'[r].status = "processing" =>
              /\ rows[r].status = "processing"
              /\ rows'[r].owner = rows[r].owner /\ rows'[r].epoch = rows[r].epoch
              /\ rows'[r].hash = rows[r].hash /\ rows'[r].attempts = rows[r].attempts
<1> DEFINE Goal ==
         /\ \A c \in Runtimes : claim'[c] = claim[c] \/ claim'[c] = NoClaim
         /\ \A r \in Requests : rows'[r].status = "processing" =>
              /\ rows[r].status = "processing"
              /\ rows'[r].owner = rows[r].owner /\ rows'[r].epoch = rows[r].epoch
              /\ rows'[r].hash = rows[r].hash /\ rows'[r].attempts = rows[r].attempts
<1>0. rows \in [Requests -> Row] /\ claim \in [Runtimes -> Claims \cup {NoClaim}]
  BY DEF TypeOK
<1>1. ASSUME NEW r \in Requests, NEW h \in Commands, Enqueue(r, h) PROVE Goal
  BY <1>0, <1>1 DEF Enqueue, Absent
<1>3. ASSUME NEW c \in Runtimes, NEW r \in Requests, Finish(c, r) PROVE Goal
  BY <1>0, <1>3, FinishEffect DEF Drop, Outcomes
<1>4. ASSUME NEW c \in Runtimes, NEW r \in Requests, Heartbeat(c, r) PROVE Goal
  BY <1>0, <1>4 DEF Heartbeat, Row
<1>5. ASSUME NEW c \in Runtimes, ReturnLost(c) \/ HeartbeatError(c) \/ Crash(c)
      PROVE Goal
  BY <1>0, <1>5 DEF ReturnLost, HeartbeatError, Crash, Drop
<1>6. ASSUME NEW r \in Requests, Expire(r) \/ Stall(r) \/ RetryDue(r) \/ Requeue(r) \/ Prune(r)
      PROVE Goal
  BY <1>0, <1>6 DEF Expire, Stall, RetryDue, Requeue, Prune, Row, Absent
<1>8. ASSUME RecoverOrphans PROVE Goal
  BY <1>0, <1>8 DEF RecoverOrphans, RecoveredRow, Row
<1>11. ASSUME NEW r \in Requests, NEW h \in Commands, ImportReceipt(r, h) PROVE Goal
  BY <1>0, <1>11 DEF ImportReceipt, ReceivedRow, Row
<1>12. ASSUME NEW r \in Requests, NEW h \in Commands, NEW n \in AttemptCounts,
              NEW s \in {"inbox", "retry", "dead-letter"}, ImportRow(r, h, s, n)
       PROVE Goal
  BY <1>0, <1>12 DEF ImportRow, Absent
<1>13. ASSUME NEW r \in Requests, NEW S \in SUBSET Runtimes, Reroute(r, S) PROVE Goal
  BY <1>13 DEF Reroute
<1>14. CASE UNCHANGED vars
  BY <1>14 DEF vars
<1> HIDE DEF Goal
<1>15. ASSUME NEW c \in Runtimes, NEW r \in Requests,
              Claim(c, r) \/ Finish(c, r) \/ Heartbeat(c, r)
       PROVE Goal
  BY <1>15, <1>3, <1>4
<1>16. ASSUME Next PROVE Goal
  BY <1>16, <1>1, <1>5, <1>6, <1>8, <1>11, <1>12, <1>13, <1>15 DEF Next
<1> QED BY <1>14, <1>16 DEF Goal

\* An older handle of a runtime never passes the claim fence.
THEOREM HandleIsCurrentInvariant == Spec => []HandleIsCurrent
<1>1. Init => HandleIsCurrent
  BY DEF Init, HandleIsCurrent, Absent
<1>2. TypeOK /\ HandleIsCurrent /\ [Next]_vars => HandleIsCurrent'
  <2> SUFFICES ASSUME TypeOK, HandleIsCurrent, [Next]_vars PROVE HandleIsCurrent'
    OBVIOUS
  <2>0. rows \in [Requests -> Row] /\ claim \in [Runtimes -> Claims \cup {NoClaim}]
    BY DEF TypeOK
  <2>1. ASSUME NEW d \in Runtimes, NEW q \in Requests, Claim(d, q) PROVE HandleIsCurrent'
    <3>1. /\ rows'[q].owner = d /\ rows'[q].epoch = ClaimOn(q).epoch
          /\ \A r \in Requests \ {q} : rows'[r] = rows[r]
          /\ claim'[d] = ClaimOn(q) /\ \A c \in Runtimes \ {d} : claim'[c] = claim[c]
      BY <2>0, <2>1 DEF Claim, ClaimOn, Row
    <3> QED BY <3>1, Names DEF HandleIsCurrent
  <2>2. CASE \A d \in Runtimes, q \in Requests : ~Claim(d, q)
    BY <2>2, StepEffect, Names DEF HandleIsCurrent
  <2> QED BY <2>1, <2>2
<1> QED BY <1>1, <1>2, TypeInvariant, PTL DEF Spec

\* A healthy handler - one that has not been told it lost its claim - holds its
\* request under a running lease, as long as no stall or import overtook one.
\* This is what makes ExclusiveUnlessOvertaken inductive.
HealthyHolds == ~overtaken => \A c \in Runtimes :
                  ~Idle(c) /\ ~lost[c] => Holds(c, claim[c].req) /\ rows[claim[c].req].live

\* What a step other than a claim does to a healthy handler and its row: the
\* handler is done, or knows its loss, or both are as before.
LEMMA HealthyStep ==
  ASSUME TypeOK, HealthyHolds, [Next]_vars, ~overtaken', ~overtaken,
         \A d \in Runtimes, q \in Requests : ~Claim(d, q),
         NEW c \in Runtimes, ~Idle(c)', ~lost'[c]
  PROVE  /\ claim'[c] = claim[c] /\ ~Idle(c) /\ ~lost[c]
         /\ rows'[claim[c].req].status = "processing"
         /\ rows'[claim[c].req].epoch = rows[claim[c].req].epoch
         /\ rows'[claim[c].req].owner = rows[claim[c].req].owner
         /\ rows'[claim[c].req].live
<1> DEFINE p == claim[c].req
           Same == /\ claim'[c] = claim[c] /\ ~Idle(c) /\ ~lost[c]
                   /\ rows'[p] = rows[p]
           Goal == /\ claim'[c] = claim[c] /\ ~Idle(c) /\ ~lost[c]
                   /\ rows'[p].status = "processing" /\ rows'[p].epoch = rows[p].epoch
                   /\ rows'[p].owner = rows[p].owner /\ rows'[p].live
<1>0. /\ rows \in [Requests -> Row] /\ claim \in [Runtimes -> Claims \cup {NoClaim}]
      /\ lost \in [Runtimes -> BOOLEAN]
  BY DEF TypeOK
<1>1. ~Idle(c) /\ ~lost[c] => /\ p \in Requests /\ rows[p].status = "processing"
                              /\ rows[p].owner = c /\ rows[p].live
                              /\ rows[p].epoch = claim[c].epoch
  BY <1>0 DEF HealthyHolds, Holds, Fence, Idle, Claims
<1>2. Same => Goal
  BY <1>1
<1>3. ASSUME NEW r \in Requests, NEW h \in Commands, Enqueue(r, h) PROVE Same
  BY <1>0, <1>1, <1>3 DEF Enqueue, Idle
<1>4. ASSUME NEW d \in Runtimes, NEW r \in Requests, Finish(d, r) PROVE Same
  <2>1. d # c /\ claim'[c] = claim[c] /\ lost'[c] = lost[c]
    BY <1>0, <1>4, FinishEffect DEF Drop, Idle
  <2>2. ~Idle(c) /\ ~lost[c]
    BY <2>1 DEF Idle
  <2>3. rows'[p] = rows[p]
    BY <1>0, <1>1, <1>4, <2>1, <2>2, FinishEffect DEF Fence
  <2> QED BY <2>1, <2>2, <2>3
<1>5. ASSUME NEW d \in Runtimes, NEW r \in Requests, Heartbeat(d, r) PROVE Goal
  <2>1. claim'[c] = claim[c] /\ ~Idle(c) /\ ~lost[c]
    BY <1>0, <1>5 DEF Heartbeat, Idle
  <2>2. rows' = rows \/ rows' = [rows EXCEPT ![r].live = TRUE]
    BY <1>5 DEF Heartbeat
  <2> QED BY <1>0, <1>1, <2>1, <2>2 DEF Row
<1>6. ASSUME NEW d \in Runtimes, ReturnLost(d) \/ HeartbeatError(d) \/ Crash(d) PROVE Same
  BY <1>0, <1>6 DEF ReturnLost, HeartbeatError, Crash, Drop, Idle
<1>7. ASSUME NEW r \in Requests, Expire(r) PROVE Same
  <2>1. ~Idle(c) /\ ~lost[c]
    BY <1>7 DEF Expire, Idle
  <2>2. p # r
    BY <1>0, <1>1, <1>7, <2>1 DEF Expire, Renewed, Holds, Fence
  <2> QED BY <1>0, <1>7, <2>1, <2>2 DEF Expire
<1>8. ASSUME NEW r \in Requests, Stall(r) PROVE FALSE
  BY <1>8 DEF Stall
<1>9. ASSUME NEW r \in Requests, RetryDue(r) \/ Requeue(r) \/ Prune(r) PROVE Same
  <2>1. ~Idle(c) /\ ~lost[c]
    BY <1>9 DEF RetryDue, Requeue, Prune, Idle
  <2> QED BY <1>0, <1>1, <1>9, <2>1 DEF RetryDue, Requeue, Requeueable, Prune
<1>10. ASSUME RecoverOrphans PROVE Same
  <2>1. ~Idle(c) /\ ~lost[c]
    BY <1>10 DEF RecoverOrphans, Idle
  <2> QED BY <1>0, <1>1, <1>10, <2>1 DEF RecoverOrphans
<1>11. ASSUME NEW r \in Requests, NEW h \in Commands, ImportReceipt(r, h) PROVE Same
  <2>1. ~Idle(c) /\ ~lost[c]
    BY <1>11 DEF ImportReceipt, Idle
  <2>2. p # r
    BY <1>0, <1>1, <1>11, <2>1 DEF ImportReceipt, Renewed, Holds, Fence
  <2> QED BY <1>0, <1>11, <2>1, <2>2 DEF ImportReceipt
<1>12. ASSUME NEW r \in Requests, NEW h \in Commands, NEW n \in AttemptCounts,
              NEW s \in {"inbox", "retry", "dead-letter"}, ImportRow(r, h, s, n)
       PROVE Same
  <2>1. ~Idle(c) /\ ~lost[c] /\ rows[r].status = "absent"
    BY <1>12 DEF ImportRow, Idle
  <2>2. p # r
    BY <1>1, <2>1
  <2> QED BY <1>0, <1>12, <2>1, <2>2 DEF ImportRow
<1>13. ASSUME NEW r \in Requests, NEW S \in SUBSET Runtimes, Reroute(r, S) PROVE Same
  BY <1>13 DEF Reroute, Idle
<1>14. ASSUME UNCHANGED vars PROVE Same
  BY <1>14 DEF vars, Idle
<1> HIDE DEF Same, Goal
<1>15. ASSUME NEW d \in Runtimes, NEW r \in Requests,
              Claim(d, r) \/ Finish(d, r) \/ Heartbeat(d, r)
       PROVE Goal
  BY <1>2, <1>4, <1>5, <1>15
<1>16. ASSUME Next PROVE Goal
  BY <1>2, <1>3, <1>6, <1>7, <1>8, <1>9, <1>10, <1>11, <1>12, <1>13, <1>15, <1>16 DEF Next
<1> QED BY <1>2, <1>14, <1>16 DEF Goal

\* The history flag is never withdrawn.
LEMMA OvertakenStep ==
  ASSUME TypeOK, [Next]_vars, overtaken PROVE overtaken'
<1>1. ASSUME NEW d \in Runtimes, NEW r \in Requests,
              Claim(d, r) \/ Finish(d, r) \/ Heartbeat(d, r)
      PROVE overtaken'
  BY <1>1, FinishEffect DEF Claim, Heartbeat
<1>2. ASSUME Next PROVE overtaken'
  BY <1>1, <1>2 DEF Next, Enqueue, ImportReceipt, ImportRow, ReturnLost, HeartbeatError, Crash,
     Expire, Stall, RetryDue, Requeue, Prune, Reroute, RecoverOrphans
<1> QED BY <1>2 DEF vars

\* HealthyHolds is inductive.
LEMMA HealthyHoldsStep == TypeOK /\ HealthyHolds /\ [Next]_vars => HealthyHolds'
<1> SUFFICES ASSUME TypeOK, HealthyHolds, [Next]_vars, ~overtaken',
                    NEW c \in Runtimes, ~Idle(c)', ~lost'[c]
             PROVE  Holds(c, claim[c].req)' /\ rows'[claim'[c].req].live
  BY DEF HealthyHolds
<1>0. /\ rows \in [Requests -> Row] /\ claim \in [Runtimes -> Claims \cup {NoClaim}]
  BY DEF TypeOK
<1>1. ~overtaken
  BY OvertakenStep
<1>2. ASSUME NEW d \in Runtimes, NEW q \in Requests, Claim(d, q)
      PROVE  Holds(c, claim[c].req)' /\ rows'[claim'[c].req].live
  <2>1. CASE d = c
    BY <1>0, <1>2, <2>1, Names DEF Claim, ClaimOn, Holds, Fence, Row
  <2>2. CASE d # c
    <3>1. claim'[c] = claim[c] /\ ~Idle(c) /\ ~lost[c]
      BY <1>0, <1>2, <2>2 DEF Claim, Idle, TypeOK
    <3>2. Holds(c, claim[c].req) /\ rows[claim[c].req].live
      BY <1>1, <3>1 DEF HealthyHolds
    <3>3. claim[c].req # q /\ claim[c].req \in Requests
      BY <1>0, <1>2, <3>1, <3>2
         DEF Claim, Candidates, DueRetries, Expired, Inbox, Holds, Fence, Idle, Claims
    <3>4. rows'[claim[c].req] = rows[claim[c].req]
      BY <1>0, <1>2, <3>3 DEF Claim
    <3> QED BY <3>1, <3>2, <3>4 DEF Holds, Fence
  <2> QED BY <2>1, <2>2
<1>3. CASE \A d \in Runtimes, q \in Requests : ~Claim(d, q)
  <2>1. /\ claim'[c] = claim[c] /\ ~Idle(c) /\ ~lost[c]
        /\ rows'[claim[c].req].status = "processing"
        /\ rows'[claim[c].req].epoch = rows[claim[c].req].epoch
        /\ rows'[claim[c].req].owner = rows[claim[c].req].owner
        /\ rows'[claim[c].req].live
    BY <1>1, <1>3, HealthyStep
  <2>2. Holds(c, claim[c].req)
    BY <1>1, <2>1 DEF HealthyHolds
  <2> QED BY <2>1, <2>2 DEF Holds, Fence
<1> QED BY <1>2, <1>3

\* Two runtimes both believe they own a request only after one of them stalled
\* longer than its lease, or a receipt was imported over its claim.
THEOREM ExclusiveInvariant == Spec => []ExclusiveUnlessOvertaken
<1>1. Init => HealthyHolds
  BY DEF Init, HealthyHolds, Idle
<1>2. TypeOK /\ HealthyHolds /\ [Next]_vars => HealthyHolds'
  BY HealthyHoldsStep
<1>3. HealthyHolds => ExclusiveUnlessOvertaken
  BY DEF HealthyHolds, ExclusiveUnlessOvertaken, Holds, Fence
<1> QED BY <1>1, <1>2, <1>3, TypeInvariant, PTL DEF Spec

\* A step leaves a row alone, or creates it, or removes it, or moves it on: the
\* command stays, the epoch does not decrease, and the row was not finished.
Moves(old, new) == \/ new = old
                   \/ old.status = "absent"
                   \/ new.status = "absent"
                   \/ /\ new.hash = old.hash /\ new.epoch >= old.epoch
                      /\ old.status # "done"

\* Every step moves every row in one of these ways.
LEMMA RowMoves == TypeOK /\ [Next]_vars => \A q \in Requests : Moves(rows[q], rows'[q])
<1> SUFFICES ASSUME TypeOK, [Next]_vars, NEW q \in Requests
             PROVE  Moves(rows[q], rows'[q])
  OBVIOUS
<1>0. /\ rows \in [Requests -> Row] /\ RowShape(rows[q])
      /\ rows[q].epoch \in Nat /\ rows[q].epoch >= rows[q].epoch
      /\ rows[q].epoch + 1 >= rows[q].epoch
  <2>1. rows \in [Requests -> Row] /\ RowShape(rows[q]) /\ rows[q].epoch \in Nat
    BY DEF TypeOK, Row
  <2> QED BY <2>1
<1>1. ASSUME NEW r \in Requests, NEW h \in Commands, Enqueue(r, h) PROVE Moves(rows[q], rows'[q])
  BY <1>0, <1>1 DEF Enqueue, Moves
<1>2. ASSUME NEW c \in Runtimes, NEW r \in Requests, Claim(c, r) PROVE Moves(rows[q], rows'[q])
  <2>1. rows[r].status # "done"
    BY <1>2 DEF Claim, Candidates, DueRetries, Expired, Inbox
  <2>2. rows'[q] = rows[q] \/ q = r
    BY <1>0, <1>2 DEF Claim
  <2>3. q = r => rows'[q].hash = rows[q].hash /\ rows'[q].epoch = rows[q].epoch + 1
    BY <1>0, <1>2 DEF Claim, Row
  <2> QED BY <1>0, <2>1, <2>2, <2>3 DEF Moves
<1>3. ASSUME NEW c \in Runtimes, NEW r \in Requests, Finish(c, r) PROVE Moves(rows[q], rows'[q])
  BY <1>0, <1>3, FinishEffect DEF Fence, Moves
<1>4. ASSUME NEW c \in Runtimes, NEW r \in Requests, Heartbeat(c, r) PROVE Moves(rows[q], rows'[q])
  BY <1>0, <1>4 DEF Heartbeat, Fence, Moves, Row
<1>5. ASSUME NEW c \in Runtimes, ReturnLost(c) \/ HeartbeatError(c) \/ Crash(c)
      PROVE Moves(rows[q], rows'[q])
  BY <1>5 DEF ReturnLost, HeartbeatError, Crash, Moves
<1>6. ASSUME NEW r \in Requests, Expire(r) \/ Stall(r) \/ RetryDue(r) \/ Requeue(r)
      PROVE Moves(rows[q], rows'[q])
  <2>1. rows[r].status # "done"
    BY <1>6 DEF Expire, Stall, RetryDue, Requeue, Requeueable
  <2>2. rows'[q] = rows[q] \/ q = r
    BY <1>0, <1>6 DEF Expire, Stall, RetryDue, Requeue
  <2>3. rows'[q].hash = rows[q].hash /\ rows'[q].epoch = rows[q].epoch
    BY <1>0, <1>6 DEF Expire, Stall, RetryDue, Requeue, Row
  <2> QED BY <1>0, <2>1, <2>2, <2>3 DEF Moves
<1>7. ASSUME NEW r \in Requests, Prune(r) PROVE Moves(rows[q], rows'[q])
  BY <1>0, <1>7 DEF Prune, Absent, Moves
<1>8. ASSUME RecoverOrphans PROVE Moves(rows[q], rows'[q])
  BY <1>0, <1>8 DEF RecoverOrphans, RecoveredRow, Row, Moves
<1>9. ASSUME NEW r \in Requests, NEW h \in Commands, ImportReceipt(r, h)
      PROVE  Moves(rows[q], rows'[q])
  <2>1. rows'[q] = rows[q] \/ (q = r /\ rows'[q] = ReceivedRow(rows[q], h))
    BY <1>0, <1>9 DEF ImportReceipt
  <2>2. /\ ReceivedRow(rows[q], h).epoch = rows[q].epoch
        /\ rows[q].status # "absent" => ReceivedRow(rows[q], h).hash = rows[q].hash
    BY <1>0 DEF ReceivedRow, Row
  <2>3. q = r => rows[q].status # "done"
    BY <1>0, <1>9 DEF ImportReceipt, Importable, RowShape
  <2> QED BY <1>0, <2>1, <2>2, <2>3 DEF Moves
<1>10. ASSUME NEW r \in Requests, NEW h \in Commands, NEW n \in AttemptCounts,
              NEW s \in {"inbox", "retry", "dead-letter"}, ImportRow(r, h, s, n)
       PROVE Moves(rows[q], rows'[q])
  BY <1>0, <1>10 DEF ImportRow, Moves
<1>11. ASSUME NEW r \in Requests, NEW S \in SUBSET Runtimes, Reroute(r, S)
       PROVE Moves(rows[q], rows'[q])
  BY <1>11 DEF Reroute, Moves
<1>12. CASE UNCHANGED vars
  BY <1>12 DEF vars, Moves
<1>13. ASSUME NEW c \in Runtimes, NEW r \in Requests,
              Claim(c, r) \/ Finish(c, r) \/ Heartbeat(c, r)
       PROVE Moves(rows[q], rows'[q])
  BY <1>2, <1>3, <1>4, <1>13
<1>14. ASSUME Next PROVE Moves(rows[q], rows'[q])
  BY <1>1, <1>5, <1>6, <1>7, <1>8, <1>9, <1>10, <1>11, <1>13, <1>14 DEF Next
<1> QED BY <1>12, <1>14

\* A finished request keeps its receipt and never runs again.
THEOREM DoneIsFinalTheorem == Spec => DoneIsFinal
<1>1. TypeOK /\ [Next]_vars =>
        [\A r \in Requests : rows[r].status = "done"
             => rows'[r] = rows[r] \/ rows'[r].status = "absent"]_vars
  BY RowMoves DEF Moves
<1> QED BY <1>1, TypeInvariant, PTL DEF Spec, DoneIsFinal

\* A command is never replaced under its id, and no claim generation recurs
\* while the row exists.
THEOREM IdentityTheorem == Spec => IdentityIsStable
<1>1. TypeOK /\ [Next]_vars =>
        [\A r \in Requests : (rows[r].status # "absent" /\ rows'[r].status # "absent")
             => rows'[r].hash = rows[r].hash /\ rows'[r].epoch >= rows[r].epoch]_vars
  <2> SUFFICES ASSUME TypeOK, [Next]_vars, NEW r \in Requests,
                      rows[r].status # "absent", rows'[r].status # "absent"
               PROVE  rows'[r].hash = rows[r].hash /\ rows'[r].epoch >= rows[r].epoch
    OBVIOUS
  <2>1. rows[r].epoch \in Nat
    BY DEF TypeOK, Row
  <2>2. rows[r].epoch >= rows[r].epoch
    BY <2>1
  <2> QED BY <2>2, RowMoves DEF Moves
<1> QED BY <1>1, TypeInvariant, PTL DEF Spec, IdentityIsStable

\* The handler of a request decides on a copy of its row's command and attempt
\* count; while its claim stands, the copy agrees with the row.
CopyAgrees == \A c \in Runtimes, r \in Requests :
                Holds(c, r) => /\ claim[c].hash = rows[r].hash
                               /\ claim[c].attempts = rows[r].attempts

\* CopyAgrees is inductive.
LEMMA CopyAgreesStep == TypeOK /\ CopyAgrees /\ [Next]_vars => CopyAgrees'
<1> SUFFICES ASSUME TypeOK, CopyAgrees, [Next]_vars PROVE CopyAgrees'
  OBVIOUS
<1>0. rows \in [Requests -> Row] /\ claim \in [Runtimes -> Claims \cup {NoClaim}]
  BY DEF TypeOK
<1>1. ASSUME NEW d \in Runtimes, NEW q \in Requests, Claim(d, q) PROVE CopyAgrees'
  <2>1. /\ rows'[q].owner = d
        /\ rows'[q].hash = ClaimOn(q).hash /\ rows'[q].attempts = ClaimOn(q).attempts
        /\ \A r \in Requests \ {q} : rows'[r] = rows[r]
        /\ claim'[d] = ClaimOn(q) /\ \A c \in Runtimes \ {d} : claim'[c] = claim[c]
    BY <1>0, <1>1 DEF Claim, ClaimOn, Row
  <2> QED BY <2>1, Names DEF CopyAgrees, Holds, Fence
<1>2. CASE \A d \in Runtimes, q \in Requests : ~Claim(d, q)
  BY <1>2, StepEffect, Names DEF CopyAgrees, Holds, Fence
<1> QED BY <1>1, <1>2

\* A failed dispatch is parked for another attempt at most MaxRetryAttempts
\* times (retryOrDeadLetter); only a failing store parks it beyond that.
THEOREM RetriesTheorem == Spec => RetriesAreBudgeted
<1> DEFINE Parked(r) == /\ rows[r].status = "processing" /\ rows'[r].status = "retry"
                        /\ rows[r].hash \in Plans /\ rows'[r].attempts # rows[r].attempts
                        /\ faults' = faults
<1>1. Init => CopyAgrees
  BY DEF Init, CopyAgrees, Holds, Fence, Absent
<1>2. TypeOK /\ CopyAgrees /\ [Next]_vars =>
        [\A r \in Requests : Parked(r) => rows'[r].attempts <= MaxRetryAttempts]_vars
  <2> SUFFICES ASSUME TypeOK, CopyAgrees, Next, NEW q \in Requests, Parked(q)
               PROVE  rows'[q].attempts <= MaxRetryAttempts
    BY DEF vars
  <2>0. /\ rows \in [Requests -> Row] /\ rows[q] \in Row /\ RowShape(rows[q])
        /\ faults \in 0 .. MaxFaults
    BY DEF TypeOK
  <2>1. ASSUME NEW c \in Runtimes, NEW r \in Requests, Finish(c, r)
        PROVE  rows'[q].attempts <= MaxRetryAttempts
    <3>1. Fence(c, r) /\ q = r
      BY <2>0, <2>1, FinishEffect
    <3>2. claim[c].hash = rows[q].hash /\ claim[c].attempts = rows[q].attempts
      BY <2>1, <3>1, FinishEffect DEF CopyAgrees, Holds
    <3>3. claim[c].hash \notin Malformed
      BY <3>2, KindsAssumption
    <3>4. CASE Ack(c, r)
      BY <2>0, <3>1, <3>4 DEF Ack, FencedWrite, AckedRow, Row
    <3>5. CASE RetryOrDeadLetter(c, r)
      <4>1. CASE Exhausted(c)
        BY <2>0, <3>1, <3>5, <4>1 DEF RetryOrDeadLetter, FencedWrite, DeadRow, Row
      <4>2. CASE ~Exhausted(c)
        <5>1. rows'[q] = RetriedRow(rows[q])
          BY <2>0, <3>1, <3>5, <4>2 DEF RetryOrDeadLetter, FencedWrite
        <5>2. rows'[q].attempts = Bump(rows[q].attempts) /\ rows[q].attempts \in AttemptCounts
          BY <2>0, <5>1 DEF RetriedRow, Row
        <5> QED BY <3>2, <4>2, <5>2, BoundsAssumption DEF Exhausted, Bump, AttemptCounts
      <4> QED BY <4>1, <4>2
    <3>6. CASE RetryPersistent(c, r)
      BY <2>0, <3>6, BoundsAssumption DEF RetryPersistent, Fault
    <3>7. CASE PumpDeadLetter(c, r)
      BY <2>0, <3>1, <3>7 DEF PumpDeadLetter, FencedWrite, DeadRow, Row
    <3>8. CASE Quarantine(c, r)
      BY <3>3, <3>8 DEF Quarantine
    <3> QED BY <2>1, <3>4, <3>5, <3>6, <3>7, <3>8 DEF Finish
  <2>2. ASSUME NEW c \in Runtimes, NEW r \in Requests,
               Claim(c, r) \/ Finish(c, r) \/ Heartbeat(c, r)
        PROVE  rows'[q].attempts <= MaxRetryAttempts
    <3>1. ~Claim(c, r) /\ ~Heartbeat(c, r)
      BY <2>0 DEF Claim, Heartbeat, Row
    <3> QED BY <2>1, <2>2, <3>1
  <2>3. ASSUME NEW r \in Requests, NEW h \in Commands, Enqueue(r, h) \/ ImportReceipt(r, h)
        PROVE  FALSE
    <3>1. CASE Enqueue(r, h)
      BY <2>0, <3>1 DEF Enqueue
    <3>2. CASE ImportReceipt(r, h)
      BY <2>0, <3>2 DEF ImportReceipt, ReceivedRow, Row
    <3> QED BY <2>3, <3>1, <3>2
  <2>4. ~(\E r \in Requests, h \in Commands, s \in {"inbox", "retry", "dead-letter"},
             n \in AttemptCounts : ImportRow(r, h, s, n))
    BY <2>0 DEF ImportRow
  <2>5. ~(\E c \in Runtimes : ReturnLost(c) \/ HeartbeatError(c) \/ Crash(c))
    BY DEF ReturnLost, HeartbeatError, Crash
  <2>6. ASSUME NEW r \in Requests,
               Expire(r) \/ Stall(r) \/ RetryDue(r) \/ Requeue(r) \/ Prune(r)
        PROVE  FALSE
    <3>1. rows'[q] = rows[q] \/ (q = r /\ rows[r].status = "processing")
      BY <2>0, <2>6 DEF Expire, Stall, RetryDue, Requeue, Requeueable, Prune
    <3>2. CASE Expire(r) \/ Stall(r)
      BY <2>0, <3>2 DEF Expire, Stall, Row
    <3>3. CASE RetryDue(r) \/ Requeue(r) \/ Prune(r)
      BY <2>0, <3>1, <3>3 DEF RetryDue, Requeue, Requeueable, Prune
    <3> QED BY <2>6, <3>2, <3>3
  <2>7. ~(\E r \in Requests, S \in SUBSET Runtimes : Reroute(r, S))
    BY DEF Reroute
  <2>8. ~RecoverOrphans
    <3>1. RecoveredRow(rows[q]).attempts = rows[q].attempts
      BY <2>0 DEF RecoveredRow, Row
    <3>2. RecoverOrphans => rows'[q] \in {rows[q], RecoveredRow(rows[q])}
      BY DEF RecoverOrphans
    <3> QED BY <3>1, <3>2
  <2> QED BY <2>2, <2>3, <2>4, <2>5, <2>6, <2>7, <2>8 DEF Next
<1> QED BY <1>1, <1>2, CopyAgreesStep, TypeInvariant, PTL DEF Spec, RetriesAreBudgeted

\* A request has one owner and one handle that passes the fence (claimNext,
\* the fenced updates).
THEOREM OneOwnerInvariant == Spec => []OneOwner
BY HandleIsCurrentInvariant, ExclusiveInvariant, PTL DEF OneOwner

\* What is finished stays finished, and what exists stays the same request
\* (enqueueCommand, ackClaim, importLegacyReceipt).
THEOREM RowsAreStableTheorem == Spec => RowsAreStable
BY DoneIsFinalTheorem, IdentityTheorem, PTL DEF RowsAreStable

-----------------------------------------------------------------------------
(***************************************************************************)
(* The SQLite queue implements FencedQueue, for every number of runtimes   *)
(* and requests: a request that somebody holds is settled by its holder,   *)
(* and nobody else's statement changes what the outside world knows of it. *)
(***************************************************************************)

\* What a row shows of itself to the abstract queue.
HolderOf(row) == IF row.status = "processing" THEN row.owner ELSE NoOne
Shows(row, s, h) == StageOf(row.status) = s /\ HolderOf(row) = h

\* The abstract state of BridgeQueue (the substitutions of Abstract).
stages == [r \in Requests |-> StageOf(rows[r].status)]
holders == [r \in Requests |-> HolderOf(rows[r])]
workers == [c \in Runtimes |-> claim[c].req]

\* The stage of a row names its status, up to inbox and retry.
LEMMA Stages ==
  ASSUME NEW row \in Row
  PROVE  /\ StageOf(row.status) = "unknown" <=> row.status = "absent"
         /\ StageOf(row.status) = "waiting" <=> row.status \in {"inbox", "retry"}
         /\ StageOf(row.status) = "held" <=> row.status = "processing"
         /\ StageOf(row.status) = "done" <=> row.status = "done"
         /\ StageOf(row.status) = "dead" <=> row.status = "dead-letter"
  BY DEF StageOf, Row, Statuses

\* One row changes: so do one stage and one holder.
LEMMA OneRow ==
  ASSUME rows \in [Requests -> Row], NEW r \in Requests, NEW row,
         rows' = [rows EXCEPT ![r] = row]
  PROVE  /\ stages' = [stages EXCEPT ![r] = StageOf(row.status)]
         /\ holders' = [holders EXCEPT ![r] = HolderOf(row)]
  BY DEF stages, holders

\* One row changes and shows the same: the abstract queue does not move.
LEMMA SameShow ==
  ASSUME rows \in [Requests -> Row], NEW r \in Requests, NEW row,
         rows' = [rows EXCEPT ![r] = row],
         Shows(row, StageOf(rows[r].status), HolderOf(rows[r]))
  PROVE  UNCHANGED <<stages, holders>>
  BY OneRow DEF stages, holders, Shows

\* A dropped claim frees its runtime.
LEMMA Freed ==
  ASSUME TypeOK, NEW c \in Runtimes, Drop(c)
  PROVE  workers' = [workers EXCEPT ![c] = NoOne]
  BY Names DEF TypeOK, Drop, workers

\* The three variables of the abstract queue stand still.
Stutter == UNCHANGED <<stages, holders, workers>>

\* A row that nobody holds changes without becoming held: its stage changes.
LEMMA UnheldRow ==
  ASSUME TypeOK, NEW r \in Requests, NEW row, rows' = [rows EXCEPT ![r] = row],
         row.status # "processing", rows[r].status # "processing", UNCHANGED claim
  PROVE  /\ stages' = [stages EXCEPT ![r] = StageOf(row.status)]
         /\ UNCHANGED <<holders, workers>>
<1>0. rows \in [Requests -> Row]
  BY DEF TypeOK
<1>1. stages' = [stages EXCEPT ![r] = StageOf(row.status)]
  BY <1>0, OneRow
<1>2. holders' = [holders EXCEPT ![r] = NoOne] /\ holders[r] = NoOne
  BY <1>0, OneRow DEF HolderOf, holders
<1>3. UNCHANGED holders
  BY <1>2 DEF holders
<1> QED BY <1>1, <1>3 DEF workers

\* What becomes known: a new request, or one imported from the file queue.
LEMMA Appears ==
  ASSUME TypeOK, NEW r \in Requests, NEW row, rows' = [rows EXCEPT ![r] = row],
         rows[r].status = "absent", row.status \in {"inbox", "retry", "done", "dead-letter"},
         UNCHANGED claim
  PROVE  Abstract!Appear(r)
<1>1. stages[r] = "unknown" /\ StageOf(row.status) \in {"waiting", "done", "dead"}
  BY DEF stages, StageOf
<1>2. stages' = [stages EXCEPT ![r] = StageOf(row.status)] /\ UNCHANGED <<holders, workers>>
  BY UnheldRow
<1> QED BY <1>1, <1>2 DEF Abstract!Appear, stages, holders, workers, HolderOf

\* An imported receipt finishes a request, new or known.
LEMMA ReceiptStep ==
  ASSUME TypeOK, NEW r \in Requests, NEW h \in Commands, ImportReceipt(r, h)
  PROVE  Abstract!Appear(r) \/ Abstract!Record(r)
<1> DEFINE row == ReceivedRow(rows[r], h)
<1>0. /\ rows \in [Requests -> Row] /\ rows[r] \in Row /\ RowShape(rows[r])
      /\ rows[r].receipt = NoOne /\ rows' = [rows EXCEPT ![r] = row] /\ UNCHANGED claim
  BY DEF TypeOK, ImportReceipt, Importable
<1>1. row.status = "done" /\ row.owner = NoOne
  BY <1>0 DEF ReceivedRow, Row
<1> HIDE DEF row
<1>2. CASE rows[r].status = "absent"
  BY <1>0, <1>1, <1>2, Appears
<1>3. CASE rows[r].status # "absent"
  <2>1. stages[r] \in {"waiting", "held", "dead"}
    BY <1>0, <1>3 DEF stages, StageOf, Row, Statuses, RowShape
  <2>2. stages' = [stages EXCEPT ![r] = "done"] /\ holders' = [holders EXCEPT ![r] = NoOne]
    BY <1>0, <1>1, OneRow DEF StageOf, HolderOf
  <2> QED BY <1>0, <2>1, <2>2 DEF Abstract!Record, stages, holders, workers, HolderOf
<1> QED BY <1>2, <1>3

\* An operator revives a dead letter, or forgets a finished request.
LEMMA OperatorStep ==
  ASSUME TypeOK, NEW r \in Requests, Requeue(r) \/ Prune(r)
  PROVE  Abstract!Administer(r)
<1>0. rows \in [Requests -> Row] /\ rows[r] \in Row
  BY DEF TypeOK
<1>1. CASE Requeue(r)
  <2> DEFINE row == [rows[r] EXCEPT !.status = "retry", !.due = TRUE, !.owner = NoOne]
  <2>1. rows' = [rows EXCEPT ![r] = row] /\ rows[r].status = "dead-letter" /\ UNCHANGED claim
    BY <1>0, <1>1 DEF Requeue, Requeueable
  <2>2. row.status = "retry"
    BY <1>0 DEF Row
  <2> HIDE DEF row
  <2>3. stages' = [stages EXCEPT ![r] = "waiting"] /\ UNCHANGED <<holders, workers>>
    BY <2>1, <2>2, UnheldRow DEF StageOf
  <2>4. stages[r] = "dead"
    BY <2>1 DEF stages, StageOf
  <2> QED BY <2>3, <2>4 DEF Abstract!Administer, stages, holders, workers, HolderOf
<1>2. CASE Prune(r)
  <2>1. rows' = [rows EXCEPT ![r] = Absent] /\ rows[r].status = "done" /\ UNCHANGED claim
    BY <1>2 DEF Prune
  <2>2. stages' = [stages EXCEPT ![r] = "unknown"] /\ UNCHANGED <<holders, workers>>
    <3>1. Absent.status = "absent" /\ StageOf("absent") = "unknown"
      BY DEF Absent, StageOf
    <3>2. rows[r].status # "processing" /\ Absent.status # "processing"
      BY <2>1, <3>1
    <3>3. /\ stages' = [stages EXCEPT ![r] = StageOf(Absent.status)]
          /\ UNCHANGED <<holders, workers>>
      BY <2>1, <3>2, UnheldRow
    <3> QED BY <3>1, <3>3
  <2>3. stages[r] = "done"
    BY <2>1 DEF stages, StageOf
  <2> QED BY <2>2, <2>3 DEF Abstract!Administer, stages, holders, workers, HolderOf
<1> QED BY <1>1, <1>2

\* A claim grants a waiting request, or takes it from its last holder.
LEMMA ClaimStep ==
  ASSUME TypeOK, NEW c \in Runtimes, NEW r \in Requests, Claim(c, r)
  PROVE  Abstract!Grant(r, c)
<1> DEFINE row == [rows[r] EXCEPT !.status = "processing", !.epoch = @ + 1,
                                  !.owner = c, !.live = TRUE, !.due = FALSE]
<1>0. /\ rows \in [Requests -> Row] /\ rows[r] \in Row
      /\ claim \in [Runtimes -> Claims \cup {NoClaim}]
  BY DEF TypeOK
<1>1. rows' = [rows EXCEPT ![r] = row]
  BY <1>0 DEF Claim
<1>2. row.status = "processing" /\ row.owner = c
  BY <1>0 DEF Row
<1> HIDE DEF row
<1>3. stages' = [stages EXCEPT ![r] = "held"] /\ holders' = [holders EXCEPT ![r] = c]
  <2>1. StageOf(row.status) = "held" /\ HolderOf(row) = c
    BY <1>2 DEF StageOf, HolderOf
  <2> QED BY <1>0, <1>1, <2>1, OneRow
<1>4. rows[r].status \in {"retry", "processing", "inbox"}
  BY DEF Claim, Candidates, DueRetries, Expired, Inbox
<1>5. stages[r] \in {"waiting", "held"}
  BY <1>4 DEF stages, StageOf
<1>6. workers[c] = NoOne /\ workers' = [workers EXCEPT ![c] = r]
  BY <1>0, Names DEF Claim, Idle, workers
<1> QED BY <1>3, <1>5, <1>6 DEF Abstract!Grant, stages, holders, workers, HolderOf

\* An outcome settles the request when its statement passes the fence, and
\* only drops the work when it does not.
LEMMA FinishStep ==
  ASSUME TypeOK, NEW c \in Runtimes, NEW r \in Requests, Finish(c, r)
  PROVE  Abstract!Settle(r, c) \/ Abstract!Drop(c)
<1>0. rows \in [Requests -> Row] /\ rows[r] \in Row
  BY DEF TypeOK
<1>1. workers[c] = r /\ r # NoOne /\ workers' = [workers EXCEPT ![c] = NoOne]
  BY FinishEffect, Freed, Names DEF workers
<1>2. CASE UNCHANGED rows
  BY <1>1, <1>2 DEF Abstract!Drop, stages, holders, workers, HolderOf
<1>3. ASSUME Fence(c, r), NEW row \in Row, rows' = [rows EXCEPT ![r] = row],
             row.status \in Outcomes
      PROVE  Abstract!Settle(r, c)
  <2>1. /\ stages' = [stages EXCEPT ![r] = StageOf(row.status)]
        /\ holders' = [holders EXCEPT ![r] = NoOne]
    BY <1>0, <1>3, OneRow DEF HolderOf, Outcomes
  <2>2. StageOf(row.status) \in {"waiting", "done", "dead"}
    BY <1>3 DEF StageOf, Outcomes
  <2>3. stages[r] = "held" /\ holders[r] = c
    BY <1>3 DEF Fence, stages, holders, StageOf, HolderOf
  <2> QED BY <1>1, <2>1, <2>2, <2>3 DEF Abstract!Settle, stages, holders, workers, HolderOf
<1> QED BY <1>2, <1>3, FinishEffect

\* A handler that ends without a statement drops its work.
LEMMA DropStep ==
  ASSUME TypeOK, NEW c \in Runtimes, ReturnLost(c) \/ Crash(c)
  PROVE  Abstract!Drop(c)
<1>1. claim[c].req # NoOne
  BY Names DEF TypeOK, ReturnLost, Crash, Idle, Claims
<1>2. workers' = [workers EXCEPT ![c] = NoOne] /\ UNCHANGED rows
  BY Freed DEF ReturnLost, Crash
<1> QED BY <1>1, <1>2 DEF Abstract!Drop, stages, holders, workers, HolderOf

\* The recovery gives up the holders of expired claims.
LEMMA RecoveryStep == ASSUME TypeOK, RecoverOrphans PROVE Abstract!Revoke
<1> DEFINE R == {r \in Requests : rows[r].status = "processing" /\ ~rows[r].live}
<1>0. rows \in [Requests -> Row]
  BY DEF TypeOK
<1>1. ASSUME NEW r \in Requests
      PROVE  /\ r \in R => StageOf(rows'[r].status) = "waiting" /\ HolderOf(rows'[r]) = NoOne
             /\ r \notin R => rows'[r] = rows[r]
             /\ r \in R => StageOf(rows[r].status) = "held"
  BY <1>0, <1>1 DEF RecoverOrphans, RecoveredRow, Row, StageOf, HolderOf
<1>2. R \in SUBSET {r \in Requests : stages[r] = "held"}
  BY <1>1 DEF stages
<1> HIDE DEF R
<1>3. /\ stages' = [r \in Requests |-> IF r \in R THEN "waiting" ELSE stages[r]]
      /\ holders' = [r \in Requests |-> IF r \in R THEN NoOne ELSE holders[r]]
      /\ UNCHANGED workers
  BY <1>1 DEF stages, holders, workers, RecoverOrphans
<1> QED BY <1>2, <1>3 DEF Abstract!Revoke, stages, holders, workers, HolderOf

\* Heartbeats, the clock and the router show nothing.
LEMMA SilentStep ==
  ASSUME TypeOK,
         \/ \E c \in Runtimes : HeartbeatError(c) \/ \E r \in Requests : Heartbeat(c, r)
         \/ \E r \in Requests : Expire(r) \/ Stall(r) \/ RetryDue(r)
         \/ \E r \in Requests, S \in SUBSET Runtimes : Reroute(r, S)
  PROVE  Stutter
<1>0. rows \in [Requests -> Row]
  BY DEF TypeOK
<1>1. ASSUME NEW r \in Requests, NEW b \in BOOLEAN, UNCHANGED claim,
             \/ rows' = [rows EXCEPT ![r].live = b]
             \/ rows' = [rows EXCEPT ![r].due = b]
      PROVE  Stutter
  <2>1. ASSUME NEW q \in Requests
        PROVE  rows'[q].status = rows[q].status /\ rows'[q].owner = rows[q].owner
    BY <1>0, <1>1, <2>1 DEF Row
  <2> QED BY <1>1, <2>1 DEF Stutter, stages, holders, workers, HolderOf
<1>2. UNCHANGED <<rows, claim>> => Stutter
  BY DEF Stutter, stages, holders, workers
<1>3. ASSUME NEW c \in Runtimes, HeartbeatError(c) PROVE Stutter
  BY <1>2, <1>3 DEF HeartbeatError
<1>4. ASSUME NEW c \in Runtimes, NEW r \in Requests, Heartbeat(c, r) PROVE Stutter
  BY <1>1, <1>2, <1>4 DEF Heartbeat
<1>5. ASSUME NEW r \in Requests, Expire(r) \/ Stall(r) \/ RetryDue(r) PROVE Stutter
  BY <1>1, <1>5 DEF Expire, Stall, RetryDue
<1>6. ASSUME NEW r \in Requests, NEW S \in SUBSET Runtimes, Reroute(r, S) PROVE Stutter
  BY <1>2, <1>6 DEF Reroute
<1> QED BY <1>3, <1>4, <1>5, <1>6

\* Every step of the queue is a step of the abstract queue, or invisible.
LEMMA RefinementStep == TypeOK /\ [Next]_vars => [Abstract!Next]_(Abstract!vars)
<1> SUFFICES ASSUME TypeOK, [Next]_vars PROVE Abstract!Next \/ Stutter
  BY DEF Abstract!vars, Stutter, stages, holders, workers, HolderOf
<1> DEFINE Goal == Abstract!Next \/ Stutter
<1>1. ASSUME NEW r \in Requests, NEW h \in Commands, Enqueue(r, h) \/ ImportReceipt(r, h)
      PROVE  Goal
  <2>1. Enqueue(r, h) => Abstract!Appear(r)
    BY Appears DEF Enqueue, Absent
  <2> QED BY <1>1, <2>1, ReceiptStep DEF Abstract!Next
<1>2. ASSUME NEW r \in Requests, NEW h \in Commands, NEW s \in {"inbox", "retry", "dead-letter"},
             NEW n \in AttemptCounts, ImportRow(r, h, s, n)
      PROVE  Goal
  <2>1. Abstract!Appear(r)
    BY <1>2, Appears DEF ImportRow, Absent
  <2> QED BY <2>1 DEF Abstract!Next
<1>3. ASSUME NEW c \in Runtimes, NEW r \in Requests, Claim(c, r) \/ Finish(c, r) PROVE Goal
  BY <1>3, ClaimStep, FinishStep DEF Abstract!Next
<1>4. ASSUME NEW c \in Runtimes, ReturnLost(c) \/ Crash(c) PROVE Goal
  BY <1>4, DropStep DEF Abstract!Next
<1>5. ASSUME NEW r \in Requests, Requeue(r) \/ Prune(r) PROVE Goal
  BY <1>5, OperatorStep DEF Abstract!Next
<1>6. ASSUME RecoverOrphans PROVE Goal
  BY <1>6, RecoveryStep DEF Abstract!Next
<1>7. CASE UNCHANGED vars
  BY <1>7 DEF vars, Stutter, stages, holders, workers
<1> HIDE DEF Goal
<1>8. ASSUME Next PROVE Goal \/ Stutter
  BY <1>8, <1>1, <1>2, <1>3, <1>4, <1>5, <1>6, SilentStep DEF Next
<1> QED BY <1>7, <1>8 DEF Goal

\* The SQLite queue implements the abstract queue: only the holder of a request
\* settles it, whatever leases, epochs, crashes and operators do.
THEOREM RefinementTheorem == Spec => ImplementsFencedQueue
<1>1. Init => Abstract!Init
  BY DEF Init, Abstract!Init, Absent, NoClaim, StageOf
<1>2. TypeOK /\ [Next]_vars => [Abstract!Next]_(Abstract!vars)
  BY RefinementStep
<1> QED BY <1>1, <1>2, TypeInvariant, PTL DEF Spec, Abstract!Spec, ImplementsFencedQueue
=============================================================================
