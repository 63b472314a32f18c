------------------------ MODULE DispatchDeliveryProofs ------------------------
(***************************************************************************)
(* Theorems about the dispatch of plans, for any runtimes, sessions, plans *)
(* and faults: one workflow for a plan, one active workflow for a session, *)
(* one message, and no marker or receipt of a message that was not sent.   *)
(*                                                                         *)
(* The inductive invariant says what the creation lease is worth: as long  *)
(* as no creator slept past it, a creator about to save still holds it,    *)
(* and what it looked up under the lease is still so.                      *)
(***************************************************************************)
EXTENDS DispatchDelivery, FiniteSetTheorems, TLAPS

\* Every plan names its session; of a directory the lease may be another's.
Addressed == \A r \in Requests : Target[r] # Cwd

\* Where a handler has found its session, and where it has its workflow.
Bound == HandlerSteps \ {"idle", "resolve", "refuse", "park"}
Assigned(c) ==
  /\ at[c] \in Bound =>
       /\ job[c].session \in Sessions
       /\ Target[Req(c)] # Cwd => job[c].session = Target[Req(c)]
  /\ at[c] \in {"release", "relay", "commit"} => job[c].id \in Dispatched(Req(c))

\* A handler that holds the lease knows that nobody made the workflow of its
\* plan, and then that its session has no active one; at the save it holds it.
HandlerClear(c) ==
  LET s == job[c].session IN
  /\ at[c] = "save" => creation[s].holder = c /\ creation[s].live
  /\ at[c] \in {"active", "renew", "save"} /\ creation[s].holder = c /\ Target[Req(c)] # Cwd => Existing(Req(c)) = {}
  /\ at[c] \in {"renew", "save"} /\ creation[s].holder = c => ActiveIn(s) = {}

\* The same of the session's own start of a workflow.
ToolClear(s) ==
  /\ tool[s] = "save" => creation[s].holder = s /\ creation[s].live
  /\ tool[s] \in {"renew", "save"} /\ creation[s].holder = s => ActiveIn(s) = {}

\* One workflow of a plan that names its session, one active one of a session.
OneMade == \A r \in Requests : Target[r] # Cwd => \A i, j \in Existing(r) : i = j
OneActive == \A s \in Sessions : \A i, j \in ActiveIn(s) : i = j

Guarded ==
  ~late => /\ \A c \in Runtimes : HandlerClear(c)
           /\ \A s \in Sessions : ToolClear(s)
           /\ OneMade /\ OneActive

\* What is called delivered, or is about to be, is in a log, and there once.
Reached(r) == \E s \in Sessions : wakes[s][r] > 0
Told ==
  /\ \A s \in Sessions, r \in Requests : wakes[s][r] <= 1
  /\ \A r \in Requests : \A i \in Dispatched(r) : flows[i].delivery = "delivered" => Reached(r)
  /\ \A r \in Requests : receipt[r] = "delivered" => Reached(r)
  /\ \A c \in Runtimes : at[c] \in {"commit", "settle"} => Reached(Req(c))

Inv == TypeOK /\ (\A c \in Runtimes : Assigned(c)) /\ Guarded /\ Told

\* The part of TypeOK that is the queue's, without its routing.
RowsOK(t) == t \in [Requests -> Q!Row] /\ \A r \in Requests : Q!RowShape(t[r])
QueueOK ==
  /\ RowsOK(rows) /\ claim \in [Runtimes -> Q!Claims \cup {Q!NoClaim}] /\ lost \in [Runtimes -> BOOLEAN]
  /\ overtaken \in BOOLEAN /\ faults \in 0 .. MaxFaults

HostOK == host \in [Sessions -> Runtimes \cup {NoOne}]
RegistryOK == registry \in [Sessions -> [owner : Runtimes \cup {NoOne}, live : BOOLEAN]]

\* Requests are routed to runtimes.
LEMMA RouteOK ==
  /\ HostOK /\ RegistryOK => (Q!TypeOK <=> QueueOK)
  /\ HostOK' /\ RegistryOK' => (Q!TypeOK' <=> QueueOK')
<1>1. ASSUME HostOK, RegistryOK, NEW r \in Requests  PROVE Owners(r) \in SUBSET Runtimes
  <2>1. \A s \in Sessions : registry[s].owner \in Runtimes \cup {NoOne} /\ host[s] \in Runtimes \cup {NoOne}
    BY <1>1 DEF HostOK, RegistryOK
  <2>2. CwdOwners \subseteq Runtimes \cup {NoOne}
    <3>1. Live # {} => (CHOOSE s \in Live : TRUE) \in Live
      OBVIOUS
    <3>2. Live \subseteq Sessions
      BY DEF Live
    <3> QED BY <2>1, <3>1, <3>2 DEF CwdOwners
  <2>3. Target[r] # Cwd => Target[r] \in Sessions
    BY TargetAssumption
  <2> QED BY <2>1, <2>2, <2>3 DEF Owners
<1>2. ASSUME HostOK', RegistryOK', NEW r \in Requests  PROVE Owners(r)' \in SUBSET Runtimes
  <2>1. \A s \in Sessions : registry'[s].owner \in Runtimes \cup {NoOne} /\ host'[s] \in Runtimes \cup {NoOne}
    BY <1>2 DEF HostOK, RegistryOK
  <2>2. CwdOwners' \subseteq Runtimes \cup {NoOne}
    <3>1. Live' # {} => (CHOOSE s \in Live' : TRUE) \in Live'
      OBVIOUS
    <3>2. Live' \subseteq Sessions
      BY DEF Live
    <3> QED BY <2>1, <3>1, <3>2 DEF CwdOwners
  <2>3. Target[r] # Cwd => Target[r] \in Sessions
    BY TargetAssumption
  <2> QED BY <2>1, <2>2, <2>3 DEF Owners
<1>3. 0 \in 0 .. 0
  OBVIOUS
<1>4. HostOK /\ RegistryOK => [r \in Requests |-> Owners(r)] \in [Requests -> SUBSET Runtimes]
  BY <1>1
<1>5. HostOK' /\ RegistryOK' => [r \in Requests |-> Owners(r)'] \in [Requests -> SUBSET Runtimes]
  BY <1>2
<1> QED BY <1>3, <1>4, <1>5 DEF Q!TypeOK, QueueOK, RowsOK

\* The bounds are numbers, and the names are apart.
LEMMA NumbersOK ==
  /\ MaxRetryAttempts \in Nat /\ MaxStarted \in Nat /\ MaxFaults \in Nat
  /\ NoOne \notin Requests /\ NoOne \notin Runtimes /\ NoOne \notin Sessions /\ NoOne # "plan"
  /\ Runtimes \cap Sessions = {} /\ Cwd \notin Sessions /\ Cwd \notin Requests
BY BoundsAssumption, NamesAssumption, TargetAssumption

\* A well-shaped row in the place of another.
LEMMA RowUpdate ==
  ASSUME NEW r \in Requests, NEW row \in Q!Row, Q!RowShape(row), RowsOK(rows), rows' = [rows EXCEPT ![r] = row]
  PROVE  RowsOK(rows')
BY DEF RowsOK

\* The rows a fenced outcome or the recovery writes.
LEMMA SettledRows ==
  ASSUME NEW row \in Q!Row, Q!RowShape(row), row.status = "processing", NEW c \in Runtimes
  PROVE  /\ Q!AckedRow(row, c) \in Q!Row /\ Q!RowShape(Q!AckedRow(row, c))
         /\ Q!RetriedRow(row) \in Q!Row /\ Q!RowShape(Q!RetriedRow(row))
         /\ Q!DeadRow(row) \in Q!Row /\ Q!RowShape(Q!DeadRow(row))
         /\ Q!RecoveredRow(row) \in Q!Row /\ (~row.live => Q!RowShape(Q!RecoveredRow(row)))
<1>1. \A n \in Q!AttemptCounts : Q!Bump(n) \in Q!AttemptCounts
  BY NumbersOK DEF Q!AttemptCounts, Q!Bump
<1> QED BY <1>1, NumbersOK DEF Q!Row, Q!RowShape, Q!AckedRow, Q!RetriedRow, Q!DeadRow, Q!RecoveredRow, Q!Statuses

\* The queue is as it was, but for the counted faults.
LEMMA QueueKeeps ==
  ASSUME QueueOK, UNCHANGED <<rows, claim, lost, overtaken>>, faults' \in 0 .. MaxFaults
  PROVE  QueueOK'
BY DEF QueueOK, RowsOK

\* A request enters the queue.
LEMMA QueueEnqueue ==
  ASSUME QueueOK, NEW r \in Requests, Q!Enqueue(r, "plan")
  PROVE  QueueOK' /\ claim' = claim
<1> DEFINE row == [Q!Absent EXCEPT !.status = "inbox", !.hash = "plan"]
<1>1. row \in Q!Row /\ Q!RowShape(row)
  <2> DEFINE b == FALSE
  <2>1. Q!Absent = [status |-> "absent", hash |-> NoOne, epoch |-> 0, owner |-> NoOne,
                    live |-> b, due |-> b, attempts |-> 0, receipt |-> NoOne] /\ b \in BOOLEAN /\ ~b
    BY DEF Q!Absent
  <2>2. "plan" \in Q!Commands /\ {"absent", "inbox"} \subseteq Q!Statuses /\ 0 \in Q!AttemptCounts
    BY NumbersOK DEF Q!Commands, Q!Statuses, Q!AttemptCounts
  <2> HIDE DEF b
  <2>3. Q!Absent \in Q!Row /\ Q!Absent.live = b /\ Q!Absent.due = b /\ Q!Absent.owner = NoOne /\ Q!Absent.receipt = NoOne
    BY <2>1, <2>2 DEF Q!Row
  <2>4. row \in Q!Row /\ row.status = "inbox" /\ row.hash = "plan" /\ row.live = b /\ row.due = b
        /\ row.owner = NoOne /\ row.receipt = NoOne
    BY <2>2, <2>3 DEF Q!Row
  <2> QED BY <2>1, <2>4, NumbersOK DEF Q!RowShape
<1>2. rows' = [rows EXCEPT ![r] = row] /\ UNCHANGED <<claim, lost, overtaken, faults>>
  BY DEF Q!Enqueue
<1> HIDE DEF row
<1>3. RowsOK(rows')
  BY <1>1, <1>2, RowUpdate DEF QueueOK
<1> QED BY <1>2, <1>3 DEF QueueOK

\* A handler takes a request.
LEMMA QueueClaim ==
  ASSUME QueueOK, NEW c \in Runtimes, NEW r \in Requests, Q!Claim(c, r)
  PROVE  /\ QueueOK' /\ claim[c] = Q!NoClaim /\ claim'[c] # Q!NoClaim /\ claim'[c].req = r
         /\ \A d \in Runtimes \ {c} : claim'[d] = claim[d]
<1> DEFINE row == [rows[r] EXCEPT !.status = "processing", !.epoch = @ + 1, !.owner = c, !.live = TRUE, !.due = FALSE]
<1>1. rows[r] \in Q!Row /\ Q!RowShape(rows[r]) /\ rows[r].status \in {"retry", "processing", "inbox"}
  BY DEF QueueOK, RowsOK, Q!Claim, Q!Candidates, Q!DueRetries, Q!Expired, Q!Inbox
<1>2. row \in Q!Row /\ Q!RowShape(row)
  <2>1. row \in Q!Row
    BY <1>1, rows[r].epoch + 1 \in Nat DEF Q!Row, Q!Statuses
  <2>2. row.status = "processing" /\ row.hash = rows[r].hash /\ row.live /\ ~row.due
        /\ row.receipt = rows[r].receipt /\ row.owner = c
    BY <1>1 DEF Q!Row
  <2> QED BY <1>1, <2>1, <2>2, NumbersOK DEF Q!RowShape
<1>3. /\ rows' = [rows EXCEPT ![r] = row] /\ claim' = [claim EXCEPT ![c] = Q!ClaimOn(r)]
      /\ lost' = [lost EXCEPT ![c] = FALSE] /\ UNCHANGED <<overtaken, faults>> /\ claim[c] = Q!NoClaim
  BY <1>1 DEF Q!Claim, Q!Idle, QueueOK, RowsOK, Q!Row
<1> HIDE DEF row
<1>4. RowsOK(rows')
  BY <1>2, <1>3, RowUpdate DEF QueueOK
<1>5. Q!ClaimOn(r) \in Q!Claims /\ Q!ClaimOn(r).req = r /\ Q!ClaimOn(r) # Q!NoClaim
  <2>1. rows[r].hash # NoOne
    BY <1>1 DEF Q!RowShape
  <2>2. Q!ClaimOn(r) \in Q!Claims /\ Q!ClaimOn(r).req = r
    BY <1>1, <2>1 DEF Q!ClaimOn, Q!Claims, Q!Row
  <2> QED BY <2>2, NumbersOK DEF Q!NoClaim
<1> QED BY <1>3, <1>4, <1>5 DEF QueueOK

\* A handler is over: its row is settled, parked, dead or somebody else's.
LEMMA QueueDrop ==
  ASSUME QueueOK, NEW c \in Runtimes, faults' \in 0 .. MaxFaults,
         \/ \E r \in Requests : Q!Ack(c, r) \/ Q!Park(c, r) \/ Q!RetryOrDeadLetter(c, r) \/ Q!PumpDeadLetter(c, r)
         \/ Q!ReturnLost(c) \/ Q!Crash(c)
  PROVE  QueueOK' /\ claim'[c] = Q!NoClaim /\ \A d \in Runtimes \ {c} : claim'[d] = claim[d]
<1>1. Q!Drop(c) /\ UNCHANGED overtaken
  BY DEF Q!Ack, Q!Park, Q!RetryOrDeadLetter, Q!PumpDeadLetter, Q!ReturnLost, Q!Crash
<1>2. RowsOK(rows')
  <2>1. ASSUME NEW r \in Requests, Q!Fence(c, r)
        PROVE  /\ Q!AckedRow(rows[r], c) \in Q!Row /\ Q!RowShape(Q!AckedRow(rows[r], c))
               /\ Q!RetriedRow(rows[r]) \in Q!Row /\ Q!RowShape(Q!RetriedRow(rows[r]))
               /\ Q!DeadRow(rows[r]) \in Q!Row /\ Q!RowShape(Q!DeadRow(rows[r]))
    BY <2>1, SettledRows DEF QueueOK, RowsOK, Q!Fence
  <2>2. CASE UNCHANGED rows
    BY <2>2 DEF QueueOK, RowsOK
  <2>3. ASSUME NEW r \in Requests, Q!Ack(c, r), Q!Fence(c, r)  PROVE RowsOK(rows')
    BY <2>1, <2>3, RowUpdate DEF Q!Ack, Q!FencedWrite, QueueOK
  <2>4. ASSUME NEW r \in Requests, Q!Park(c, r), Q!Fence(c, r)  PROVE RowsOK(rows')
    BY <2>1, <2>4, RowUpdate DEF Q!Park, Q!FencedWrite, QueueOK
  <2>5. ASSUME NEW r \in Requests, Q!PumpDeadLetter(c, r), Q!Fence(c, r)  PROVE RowsOK(rows')
    BY <2>1, <2>5, RowUpdate DEF Q!PumpDeadLetter, Q!FencedWrite, QueueOK
  <2>6. ASSUME NEW r \in Requests, Q!RetryOrDeadLetter(c, r), Q!Fence(c, r)  PROVE RowsOK(rows')
    <3>1. CASE Q!Exhausted(c)
      BY <2>1, <2>6, <3>1, RowUpdate DEF Q!RetryOrDeadLetter, Q!FencedWrite, QueueOK
    <3>2. CASE ~Q!Exhausted(c)
      BY <2>1, <2>6, <3>2, RowUpdate DEF Q!RetryOrDeadLetter, Q!FencedWrite, QueueOK
    <3> QED BY <3>1, <3>2
  <2>7. \/ UNCHANGED rows
        \/ \E r \in Requests : Q!Fence(c, r) /\ (Q!Ack(c, r) \/ Q!Park(c, r) \/ Q!RetryOrDeadLetter(c, r) \/ Q!PumpDeadLetter(c, r))
    BY DEF Q!Ack, Q!Park, Q!RetryOrDeadLetter, Q!PumpDeadLetter, Q!ReturnLost, Q!Crash, Q!FencedWrite
  <2> QED BY <2>2, <2>3, <2>4, <2>5, <2>6, <2>7
<1> QED BY <1>1, <1>2 DEF QueueOK, Q!Drop

\* Leases and time.
LEMMA QueueTime ==
  ASSUME QueueOK,
         \/ \E c \in Runtimes : Q!HeartbeatError(c) \/ \E r \in Requests : Q!Heartbeat(c, r)
         \/ \E r \in Requests : Q!Expire(r) \/ Q!Stall(r) \/ Q!RetryDue(r)
         \/ Q!RecoverOrphans
  PROVE  QueueOK' /\ claim' = claim
<1>1. ASSUME NEW r \in Requests, NEW row \in Q!Row, Q!RowShape(row), rows' = [rows EXCEPT ![r] = row]
      PROVE  RowsOK(rows')
  BY <1>1, RowUpdate DEF QueueOK
<1>2. \A r \in Requests : rows[r] \in Q!Row /\ Q!RowShape(rows[r])
  BY DEF QueueOK, RowsOK
<1>3. ASSUME NEW c \in Runtimes, Q!HeartbeatError(c)  PROVE QueueOK' /\ claim' = claim
  <2>1. /\ UNCHANGED <<rows, claim, overtaken>> /\ lost' = [lost EXCEPT ![c] = TRUE]
        /\ faults < MaxFaults /\ faults' = faults + 1
    BY <1>3 DEF Q!HeartbeatError, Q!Fault
  <2>2. lost' \in [Runtimes -> BOOLEAN]
    BY <2>1 DEF QueueOK
  <2>3. faults' \in 0 .. MaxFaults
    BY <2>1, NumbersOK DEF QueueOK
  <2> QED BY <2>1, <2>2, <2>3 DEF QueueOK, RowsOK
<1>4. ASSUME NEW c \in Runtimes, NEW r \in Requests, Q!Heartbeat(c, r)  PROVE QueueOK' /\ claim' = claim
  <2>1. CASE Q!Fence(c, r)
    <3> DEFINE row == [rows[r] EXCEPT !.live = TRUE]
    <3>1. row \in Q!Row /\ Q!RowShape(row)
      BY <1>2, <2>1 DEF Q!Row, Q!RowShape, Q!Fence
    <3>2. rows' = [rows EXCEPT ![r] = row] /\ UNCHANGED <<claim, lost, overtaken, faults>>
      BY <1>4, <2>1 DEF Q!Heartbeat
    <3> HIDE DEF row
    <3> QED BY <1>1, <3>1, <3>2 DEF QueueOK
  <2>2. CASE ~Q!Fence(c, r)
    BY <1>4, <2>2 DEF Q!Heartbeat, QueueOK, RowsOK
  <2> QED BY <2>1, <2>2
<1>5. ASSUME NEW r \in Requests, Q!Expire(r) \/ Q!Stall(r)  PROVE QueueOK' /\ claim' = claim
  <2> DEFINE row == [rows[r] EXCEPT !.live = FALSE]
  <2>1. row \in Q!Row /\ Q!RowShape(row)
    BY <1>2 DEF Q!Row, Q!RowShape
  <2>2. rows' = [rows EXCEPT ![r] = row] /\ UNCHANGED <<claim, lost>> /\ overtaken' \in BOOLEAN /\ faults' \in 0 .. MaxFaults
    <3>1. CASE Q!Expire(r)
      BY <3>1 DEF Q!Expire, QueueOK
    <3>2. CASE Q!Stall(r)
      <4>1. rows' = [rows EXCEPT ![r] = row] /\ UNCHANGED <<claim, lost>> /\ overtaken' = TRUE
            /\ faults < MaxFaults /\ faults' = faults + 1
        BY <3>2 DEF Q!Stall, Q!Fault
      <4> HIDE DEF row
      <4>2. faults' \in 0 .. MaxFaults
        BY <4>1, NumbersOK DEF QueueOK
      <4> QED BY <4>1, <4>2
    <3> QED BY <1>5, <3>1, <3>2
  <2> HIDE DEF row
  <2> QED BY <1>1, <2>1, <2>2 DEF QueueOK
<1>6. ASSUME NEW r \in Requests, Q!RetryDue(r)  PROVE QueueOK' /\ claim' = claim
  <2> DEFINE row == [rows[r] EXCEPT !.due = TRUE]
  <2>1. row \in Q!Row /\ Q!RowShape(row)
    BY <1>2, <1>6 DEF Q!Row, Q!RowShape, Q!RetryDue
  <2>2. rows' = [rows EXCEPT ![r] = row] /\ UNCHANGED <<claim, lost, overtaken, faults>>
    BY <1>6 DEF Q!RetryDue
  <2> HIDE DEF row
  <2> QED BY <1>1, <2>1, <2>2 DEF QueueOK
<1>7. CASE Q!RecoverOrphans
  <2>1. ASSUME NEW r \in Requests, rows[r].status = "processing", ~rows[r].live
        PROVE  Q!RecoveredRow(rows[r]) \in Q!Row /\ Q!RowShape(Q!RecoveredRow(rows[r]))
    BY <1>2, <2>1 DEF Q!RecoveredRow, Q!Row, Q!RowShape, Q!Statuses
  <2>2. RowsOK(rows')
    BY <1>2, <1>7, <2>1 DEF Q!RecoverOrphans, RowsOK
  <2> QED BY <1>7, <2>2 DEF Q!RecoverOrphans, QueueOK
<1> QED BY <1>3, <1>4, <1>5, <1>6, <1>7

\* The rest of TypeOK.
HandlersOK ==
  /\ at \in [Runtimes -> HandlerSteps] /\ \A c \in Runtimes : at[c] = "idle" <=> Q!Idle(c)
  /\ job \in [Runtimes -> [session : Sessions \cup {NoOne}, id : Ids \cup {NoOne}]]
FlowsOK ==
  flows \in [Ids -> Flow] /\ \A i \in Ids : Made(i) => (flows[i].delivery = "none" <=> i \in Started)
CreationOK ==
  /\ creation \in [Sessions -> [holder : Runtimes \cup Sessions \cup {NoOne}, live : BOOLEAN]]
  /\ \A s \in Sessions : creation[s].holder \in Sessions => creation[s].holder = s
LogsOK ==
  /\ wakes \in [Sessions -> [Requests -> 0 .. 2]] /\ receipt \in [Requests -> {"none", "delivered", "failed"}]
ToolOK == tool \in [Sessions -> ToolSteps]
LateOK == late \in BOOLEAN

LEMMA TypeParts ==
  /\ TypeOK <=> QueueOK /\ HandlersOK /\ FlowsOK /\ CreationOK /\ ToolOK /\ HostOK /\ RegistryOK /\ LogsOK /\ LateOK
  /\ TypeOK' <=> QueueOK' /\ HandlersOK' /\ FlowsOK' /\ CreationOK' /\ ToolOK' /\ HostOK' /\ RegistryOK' /\ LogsOK' /\ LateOK'
<1>1. TypeOK <=> Q!TypeOK /\ HandlersOK /\ FlowsOK /\ CreationOK /\ ToolOK /\ HostOK /\ RegistryOK /\ LogsOK /\ LateOK
  BY DEF TypeOK, HandlersOK, FlowsOK, CreationOK, LogsOK, HostOK, RegistryOK, ToolOK, LateOK
<1>2. TypeOK' <=> Q!TypeOK' /\ HandlersOK' /\ FlowsOK' /\ CreationOK' /\ ToolOK' /\ HostOK' /\ RegistryOK' /\ LogsOK' /\ LateOK'
  BY DEF TypeOK, HandlersOK, FlowsOK, CreationOK, LogsOK, HostOK, RegistryOK, ToolOK, LateOK
<1> QED BY <1>1, <1>2, RouteOK

\* The request of a handler that is not idle.
LEMMA HandlerRequest ==
  ASSUME TypeOK, NEW c \in Runtimes, at[c] # "idle"
  PROVE  Req(c) \in Requests
<1>1. claim[c] \in Q!Claims
  BY TypeParts DEF HandlersOK, QueueOK, Q!Idle
<1> QED BY <1>1 DEF Q!Claims, Req

\* The workflows of a plan are its own.
LEMMA IdsOK ==
  /\ \A r \in Requests : Dispatched(r) \subseteq Ids /\ Dispatched(r) \cap Started = {}
  /\ \A r, q \in Requests : r # q => Dispatched(r) \cap Dispatched(q) = {}
  /\ Started \subseteq Ids
<1>1. \A r \in Requests : \A i \in Dispatched(r) : i[1] = r
  BY DEF Dispatched
<1>2. \A i \in Started : i[1] = Cwd
  BY DEF Started
<1>3. \A r \in Requests : Dispatched(r) \subseteq Ids
  BY DEF Ids
<1>4. Started \subseteq Ids
  BY DEF Ids
<1>5. \A r \in Requests : Dispatched(r) \cap Started = {}
  BY <1>1, <1>2, NumbersOK
<1>6. \A r, q \in Requests : r # q => Dispatched(r) \cap Dispatched(q) = {}
  BY <1>1
<1> QED BY <1>3, <1>4, <1>5, <1>6

\* No workflow is made and none becomes active again.
Fewer ==
  \A i \in Ids : /\ flows'[i].phase # "none" => flows[i].phase # "none"
                 /\ flows'[i].phase = "active" => flows[i].phase = "active" /\ flows'[i].session = flows[i].session

LEMMA FewerOK ==
  ASSUME Fewer
  PROVE  /\ \A r \in Requests : Existing(r)' \subseteq Existing(r)
         /\ \A s : ActiveIn(s)' \subseteq ActiveIn(s)
<1>1. \A r \in Requests : Existing(r)' \subseteq Existing(r)
  BY IdsOK DEF Fewer, Existing, Made
<1>2. \A s : ActiveIn(s)' \subseteq ActiveIn(s)
  BY DEF Fewer, ActiveIn
<1> QED BY <1>1, <1>2

\* Nobody but its holder takes or loses a creation lease that somebody relies on.
Undisturbed(by, saving, s) ==
  (creation'[s].holder = by => creation[s].holder = by) /\ (saving => creation'[s] = creation[s])

\* A step that makes no workflow, moves the handlers M and the starts T, and
\* does not disturb the leases of the others.
LEMMA GuardedKeeps ==
  ASSUME Inv, NEW M \in SUBSET Runtimes, NEW T \in SUBSET Sessions, ~late' => ~late, Fewer,
         \A c \in Runtimes \ M : at'[c] = at[c] /\ job'[c] = job[c] /\ claim'[c] = claim[c],
         \A s \in Sessions \ T : tool'[s] = tool[s],
         \A c \in Runtimes \ M : ~late' /\ at[c] \in {"active", "renew", "save"} =>
           Undisturbed(c, at[c] = "save", job[c].session),
         \A s \in Sessions \ T : ~late' /\ tool[s] \in {"renew", "save"} => Undisturbed(s, tool[s] = "save", s),
         \A c \in M : ~late' => HandlerClear(c)',
         \A s \in T : ~late' => ToolClear(s)'
  PROVE  Guarded'
<1>1. SUFFICES ASSUME ~late'
               PROVE  (\A c \in Runtimes : HandlerClear(c)') /\ (\A s \in Sessions : ToolClear(s)') /\ OneMade' /\ OneActive'
  BY DEF Guarded
<1>2. (\A c \in Runtimes : HandlerClear(c)) /\ (\A s \in Sessions : ToolClear(s)) /\ OneMade /\ OneActive
  BY <1>1 DEF Inv, Guarded
<1>3. ASSUME NEW c \in Runtimes \ M  PROVE HandlerClear(c)'
  <2>1. at'[c] = at[c] /\ job'[c] = job[c] /\ Req(c)' = Req(c) /\ HandlerClear(c)
        /\ (at[c] \in {"active", "renew", "save"} => Undisturbed(c, at[c] = "save", job[c].session))
    BY <1>1, <1>2, <1>3 DEF Req
  <2>2. at[c] # "idle" => Req(c) \in Requests
    BY HandlerRequest DEF Inv
  <2>3. /\ at[c] # "idle" => {i \in Dispatched(Req(c)) : flows'[i].phase # "none"} \subseteq Existing(Req(c))
        /\ {i \in Ids : flows'[i].session = job[c].session /\ flows'[i].phase = "active"} \subseteq ActiveIn(job[c].session)
    BY <2>2, IdsOK DEF Fewer, Existing, ActiveIn, Made
  <2>4. HandlerClear(c)' <=>
          LET s == job[c].session IN
          /\ at[c] = "save" => creation'[s].holder = c /\ creation'[s].live
          /\ at[c] \in {"active", "renew", "save"} /\ creation'[s].holder = c /\ Target[Req(c)] # Cwd =>
               {i \in Dispatched(Req(c)) : flows'[i].phase # "none"} = {}
          /\ at[c] \in {"renew", "save"} /\ creation'[s].holder = c =>
               {i \in Ids : flows'[i].session = s /\ flows'[i].phase = "active"} = {}
    BY <2>1 DEF HandlerClear, Existing, ActiveIn, Made
  <2> QED BY <2>1, <2>3, <2>4 DEF HandlerClear, Undisturbed
<1>4. ASSUME NEW s \in Sessions \ T  PROVE ToolClear(s)'
  BY <1>1, <1>2, <1>4, FewerOK DEF ToolClear, Undisturbed
<1>5. OneMade' /\ OneActive'
  <2>1. OneMade'
    BY <1>2, FewerOK DEF OneMade
  <2>2. OneActive'
    BY <1>2, FewerOK DEF OneActive
  <2> QED BY <2>1, <2>2
<1>6. (\A c \in M : HandlerClear(c)') /\ (\A s \in T : ToolClear(s)')
  BY <1>1
<1>7. \A c \in Runtimes : HandlerClear(c)'
  BY <1>3, <1>6
<1>8. \A s \in Sessions : ToolClear(s)'
  BY <1>4, <1>6
<1> QED BY <1>5, <1>7, <1>8

\* What was reached stays so; a marker, a receipt, or a handler on its way to
\* them is there only when the message is.
LEMMA ToldKeeps ==
  ASSUME Inv, TypeOK',
         \A s \in Sessions, r \in Requests : wakes[s][r] <= wakes'[s][r] /\ wakes'[s][r] <= 1,
         \A r \in Requests : \A i \in Dispatched(r) :
           flows'[i].delivery = "delivered" => flows[i].delivery = "delivered" \/ Reached(r),
         \A r \in Requests : receipt'[r] = "delivered" => receipt[r] = "delivered" \/ Reached(r),
         \A c \in Runtimes : at'[c] \in {"commit", "settle"} =>
           \/ at[c] \in {"commit", "settle"} /\ claim'[c] = claim[c]
           \/ \E s \in Sessions : wakes'[s][claim'[c].req] > 0
  PROVE  Told'
<1>1. \A s \in Sessions, r \in Requests : wakes[s][r] \in Nat /\ wakes'[s][r] \in Nat
  BY TypeParts DEF Inv, LogsOK
<1>2. \A r \in Requests : Reached(r) => \E s \in Sessions : wakes'[s][r] > 0
  BY <1>1 DEF Reached
<1>3. ASSUME NEW c \in Runtimes, at'[c] \in {"commit", "settle"}
      PROVE  \E s \in Sessions : wakes'[s][claim'[c].req] > 0
  <2>1. CASE at[c] \in {"commit", "settle"} /\ claim'[c] = claim[c]
    <3>1. Reached(claim[c].req) /\ claim[c].req \in Requests
      BY <2>1, HandlerRequest DEF Inv, Told, Req
    <3> QED BY <2>1, <3>1, <1>2
  <2> QED BY <1>3, <2>1
<1>4. \A r \in Requests : \A i \in Dispatched(r) : flows'[i].delivery = "delivered" => \E s \in Sessions : wakes'[s][r] > 0
  BY <1>2 DEF Inv, Told
<1>5. \A r \in Requests : receipt'[r] = "delivered" => \E s \in Sessions : wakes'[s][r] > 0
  BY <1>2 DEF Inv, Told
<1> QED BY <1>3, <1>4, <1>5 DEF Told, Reached, Req

\* Whoever moves takes a lease that does not run, or uses its own.
LeaseStep(by) ==
  \A s \in Sessions : \/ creation'[s] = creation[s]
                      \/ /\ creation[s].holder = by \/ ~creation[s].live
                         /\ creation'[s].holder \in {by, NoOne}

\* A handler moves, and makes no workflow.
LEMMA HandlerMoves ==
  ASSUME Inv, NEW c \in Runtimes, TypeOK', Told', UNCHANGED late, Fewer, LeaseStep(c),
         \A d \in Runtimes \ {c} : at'[d] = at[d] /\ job'[d] = job[d] /\ claim'[d] = claim[d],
         \A s \in Sessions : tool'[s] = tool[s] \/ tool'[s] = "idle",
         Assigned(c)', ~late => HandlerClear(c)'
  PROVE  Inv'
<1> DEFINE T == {s \in Sessions : tool'[s] # tool[s]}
<1>1. ASSUME NEW d \in Runtimes \ {c}, ~late, at[d] \in {"active", "renew", "save"}
      PROVE  Undisturbed(d, at[d] = "save", job[d].session)
  <2>1. job[d].session \in Sessions /\ HandlerClear(d) /\ d # NoOne
    BY <1>1, NumbersOK DEF Inv, Assigned, Bound, HandlerSteps, Guarded
  <2> QED BY <1>1, <2>1 DEF LeaseStep, Undisturbed, HandlerClear
<1>2. ASSUME NEW s \in Sessions \ T, ~late, tool[s] \in {"renew", "save"}
      PROVE  Undisturbed(s, tool[s] = "save", s)
  <2>1. ToolClear(s) /\ s # NoOne /\ s # c
    BY <1>2, NumbersOK DEF Inv, Guarded
  <2> QED BY <1>2, <2>1 DEF LeaseStep, Undisturbed, ToolClear
<1>3. \A s \in T : ToolClear(s)'
  BY DEF ToolClear
<1>4. Guarded'
  <2>1. /\ {c} \in SUBSET Runtimes /\ T \in SUBSET Sessions
        /\ \A d \in {c} : ~late' => HandlerClear(d)'
        /\ \A s \in Sessions \ T : tool'[s] = tool[s]
    OBVIOUS
  <2> HIDE DEF T
  <2> QED BY <2>1, <1>1, <1>2, <1>3, GuardedKeeps
<1>5. \A d \in Runtimes : Assigned(d)'
  <2>1. ASSUME NEW d \in Runtimes \ {c}  PROVE Assigned(d)'
    BY <2>1 DEF Inv, Assigned, Req
  <2> QED BY <2>1
<1> QED BY <1>4, <1>5 DEF Inv

\* A session's own start of a workflow moves, and makes none.
LEMMA ToolMoves ==
  ASSUME Inv, NEW s \in Sessions, TypeOK', UNCHANGED <<claim, at, job, wakes, receipt, late>>, Fewer, LeaseStep(s),
         \A i \in Ids : flows'[i].delivery = flows[i].delivery,
         \A t \in Sessions \ {s} : tool'[t] = tool[t], ~late => ToolClear(s)'
  PROVE  Inv'
<1>1. ASSUME NEW d \in Runtimes, ~late, at[d] \in {"active", "renew", "save"}
      PROVE  Undisturbed(d, at[d] = "save", job[d].session)
  <2>1. job[d].session \in Sessions /\ HandlerClear(d) /\ d # NoOne /\ d # s
    BY <1>1, NumbersOK DEF Inv, Assigned, Bound, HandlerSteps, Guarded
  <2> QED BY <1>1, <2>1 DEF LeaseStep, Undisturbed, HandlerClear
<1>2. ASSUME NEW t \in Sessions \ {s}, ~late, tool[t] \in {"renew", "save"}
      PROVE  Undisturbed(t, tool[t] = "save", t)
  <2>1. ToolClear(t) /\ t # NoOne /\ t # s
    BY <1>2, NumbersOK DEF Inv, Guarded
  <2> QED BY <1>2, <2>1 DEF LeaseStep, Undisturbed, ToolClear
<1>3. Guarded'
  <2>1. {} \in SUBSET Runtimes /\ {s} \in SUBSET Sessions /\ (\A t \in {s} : ~late' => ToolClear(t)')
    OBVIOUS
  <2> QED BY <2>1, <1>1, <1>2, GuardedKeeps
<1>4. Told'
  <2>1. \A t \in Sessions, r \in Requests : wakes[t][r] \in Nat /\ wakes[t][r] <= 1
    BY TypeParts DEF Inv, Told, LogsOK
  <2>2. \A t \in Sessions, r \in Requests : wakes[t][r] <= wakes'[t][r] /\ wakes'[t][r] <= 1
    BY <2>1
  <2>3. \A r \in Requests : \A i \in Dispatched(r) : flows'[i].delivery = flows[i].delivery
    BY IdsOK
  <2> QED BY <2>2, <2>3, ToldKeeps
<1>5. \A c \in Runtimes : Assigned(c)'
  BY DEF Inv, Assigned, Req
<1> QED BY <1>3, <1>4, <1>5 DEF Inv

Jobs == [session : Sessions \cup {NoOne}, id : Ids \cup {NoOne}]

\* A handler goes on.
LEMMA GoesOn ==
  ASSUME TypeOK, NEW c \in Runtimes, NEW t \in HandlerSteps, NEW j \in Jobs, at[c] # "idle", t # "idle",
         Goto(c, t), job' = [job EXCEPT ![c] = j], claim' = claim
  PROVE  /\ HandlersOK' /\ at'[c] = t /\ job'[c] = j
         /\ \A d \in Runtimes \ {c} : at'[d] = at[d] /\ job'[d] = job[d] /\ claim'[d] = claim[d]
<1>1. HandlersOK
  BY TypeParts
<1>2. at'[c] = t /\ at' \in [Runtimes -> HandlerSteps] /\ \A d \in Runtimes \ {c} : at'[d] = at[d]
  BY <1>1 DEF HandlersOK, Goto
<1>3. job'[c] = j /\ job' \in [Runtimes -> Jobs] /\ \A d \in Runtimes \ {c} : job'[d] = job[d]
  BY <1>1 DEF HandlersOK, Jobs
<1> QED BY <1>1, <1>2, <1>3 DEF HandlersOK, Jobs, Q!Idle

\* A handler is over.
LEMMA Ends ==
  ASSUME TypeOK, NEW c \in Runtimes, Finish(c), claim'[c] = Q!NoClaim, \A d \in Runtimes \ {c} : claim'[d] = claim[d]
  PROVE  /\ HandlersOK' /\ at'[c] = "idle" /\ Assigned(c)' /\ HandlerClear(c)'
         /\ \A d \in Runtimes \ {c} : at'[d] = at[d] /\ job'[d] = job[d] /\ claim'[d] = claim[d]
<1>1. HandlersOK /\ "idle" \in HandlerSteps
  BY TypeParts DEF HandlerSteps
<1>2. at'[c] = "idle" /\ at' \in [Runtimes -> HandlerSteps] /\ \A d \in Runtimes \ {c} : at'[d] = at[d]
  BY <1>1 DEF HandlersOK, Finish
<1>3. job' \in [Runtimes -> Jobs] /\ \A d \in Runtimes \ {c} : job'[d] = job[d]
  BY <1>1 DEF HandlersOK, Finish, Jobs, NoJob
<1>4. Assigned(c)' /\ HandlerClear(c)'
  BY <1>2 DEF Assigned, HandlerClear, Bound
<1> QED BY <1>1, <1>2, <1>3, <1>4 DEF HandlersOK, Jobs, Q!Idle

\* What a step that makes and writes no workflow, sends no message and writes
\* no receipt says of the message: a handler goes on to the marker or the
\* receipt only from there, or with the message in the log.
LEMMA Silent ==
  ASSUME Inv, TypeOK', UNCHANGED <<flows, wakes, receipt>>,
         \A c \in Runtimes : at'[c] \in {"commit", "settle"} =>
           claim'[c] = claim[c] /\ (at[c] \in {"commit", "settle"} \/ Reached(claim[c].req))
  PROVE  Told' /\ Fewer
<1>1. \A s \in Sessions, r \in Requests : wakes[s][r] \in Nat /\ wakes[s][r] <= 1
  BY TypeParts DEF Inv, Told, LogsOK
<1>2. \A s \in Sessions, r \in Requests : wakes[s][r] <= wakes'[s][r] /\ wakes'[s][r] <= 1
  BY <1>1
<1>3. \A c \in Runtimes : at'[c] \in {"commit", "settle"} =>
           \/ at[c] \in {"commit", "settle"} /\ claim'[c] = claim[c]
           \/ \E s \in Sessions : wakes'[s][claim'[c].req] > 0
  BY DEF Reached
<1> QED BY <1>2, <1>3, ToldKeeps DEF Fewer

\* The queue goes on without the handlers.
LEMMA QueueIdle ==
  ASSUME TypeOK, UNCHANGED queueVars
  PROVE  QueueOK'
<1>1. UNCHANGED <<rows, claim, lost, overtaken, faults>> /\ QueueOK
  BY TypeParts DEF queueVars
<1> QED BY <1>1 DEF QueueOK, RowsOK

\* A handler goes on with nothing but its own steps, and the lease, changed.
LEMMA PlainMove ==
  ASSUME Inv, NEW c \in Runtimes, NEW t \in HandlerSteps, NEW j \in Jobs, at[c] # "idle", t # "idle",
         Goto(c, t), job' = [job EXCEPT ![c] = j],
         UNCHANGED <<queueVars, flows, tool, host, registry, wakes, receipt, late>>,
         CreationOK', LeaseStep(c),
         t \in {"commit", "settle"} => Reached(Req(c)),
         t \in Bound => j.session \in Sessions /\ (Target[Req(c)] # Cwd => j.session = Target[Req(c)]),
         t \in {"release", "relay", "commit"} => j.id \in Dispatched(Req(c)),
         t = "save" => creation'[j.session].holder = c /\ creation'[j.session].live,
         ~late /\ t \in {"active", "renew", "save"} /\ creation'[j.session].holder = c /\ Target[Req(c)] # Cwd => Existing(Req(c)) = {},
         ~late /\ t \in {"renew", "save"} /\ creation'[j.session].holder = c => ActiveIn(j.session) = {}
  PROVE  Inv'
<1>1. UNCHANGED claim /\ TypeOK
  BY DEF queueVars, Inv
<1>2. /\ HandlersOK' /\ at'[c] = t /\ job'[c] = j
      /\ \A d \in Runtimes \ {c} : at'[d] = at[d] /\ job'[d] = job[d] /\ claim'[d] = claim[d]
  BY <1>1, GoesOn
<1>3. TypeOK'
  <2>1. QueueOK' /\ FlowsOK' /\ ToolOK' /\ HostOK' /\ RegistryOK' /\ LogsOK' /\ LateOK'
    BY <1>1, TypeParts, QueueIdle DEF FlowsOK, Made, ToolOK, HostOK, RegistryOK, LogsOK, LateOK
  <2> QED BY <1>2, <2>1, TypeParts
<1>4. Told' /\ Fewer
  BY <1>1, <1>2, <1>3, Silent DEF Req
<1>5. Assigned(c)'
  BY <1>1, <1>2 DEF Assigned, Req
<1>6. ~late => HandlerClear(c)'
  BY <1>1, <1>2 DEF HandlerClear, Req, Existing, Made, ActiveIn
<1> QED BY <1>2, <1>3, <1>4, <1>5, <1>6, HandlerMoves

\* The lease, when a handler leaves it alone.
LEMMA LeaseKept ==
  ASSUME Inv, UNCHANGED creation
  PROVE  CreationOK' /\ \A by : LeaseStep(by)
BY TypeParts DEF Inv, CreationOK, LeaseStep

\* resolveTarget: the host of the session, or of the only one of the directory.
LEMMA InvResolve ==
  ASSUME Inv, NEW c \in Runtimes, Resolve(c)
  PROVE  Inv'
<1>1. /\ UNCHANGED <<rows, claim, lost, overtaken, faults, flows, creation, tool, host, registry, wakes, receipt, late>>
      /\ UNCHANGED queueVars /\ at[c] = "resolve" /\ TypeOK
  BY DEF Resolve, queueVars, sessionVars, logVars, Inv
<1>2. Req(c) \in Requests
  BY <1>1, HandlerRequest
<1>3. PICK t \in {"refuse", "park", "lookup"}, j \in Jobs :
        /\ Goto(c, t) /\ job' = [job EXCEPT ![c] = j]
        /\ t = "lookup" => j.session \in Sessions /\ (Target[Req(c)] # Cwd => j.session = Target[Req(c)])
  <2>1. job[c] \in Jobs /\ job = [job EXCEPT ![c] = job[c]]
    BY <1>1, TypeParts DEF HandlersOK, Jobs
  <2>2. Candidates(Req(c)) \subseteq Sessions /\ (Target[Req(c)] # Cwd => Candidates(Req(c)) = {Target[Req(c)]})
    BY <1>2, TargetAssumption DEF Candidates, Live
  <2>3. CASE Goto(c, "refuse") /\ UNCHANGED job
    BY <2>1, <2>3
  <2>4. CASE Goto(c, "park") /\ UNCHANGED job
    BY <2>1, <2>4
  <2>5. ASSUME NEW s \in Candidates(Req(c)), Goto(c, "lookup"), job' = [job EXCEPT ![c].session = s]
        PROVE  \E j \in Jobs : /\ job' = [job EXCEPT ![c] = j]
                               /\ j.session \in Sessions /\ (Target[Req(c)] # Cwd => j.session = Target[Req(c)])
    <3> DEFINE j == [job[c] EXCEPT !.session = s]
    <3>1. j \in Jobs /\ j.session = s
      BY <2>1, <2>2 DEF Jobs
    <3>2. job' = [job EXCEPT ![c] = j]
      BY <2>1, <2>5
    <3> HIDE DEF j
    <3> QED BY <2>2, <3>1, <3>2
  <2> QED BY <2>3, <2>4, <2>5 DEF Resolve
<1>4. t \in HandlerSteps /\ t \notin {"idle", "commit", "settle", "active", "renew", "save", "release", "relay"}
      /\ at[c] # "idle" /\ (t \in Bound => t = "lookup")
  BY <1>1, <1>3 DEF HandlerSteps, Bound
<1> QED BY <1>1, <1>3, <1>4, LeaseKept, PlainMove

\* A handler on its way: its request, its session, and what it has.
LEMMA OnItsWay ==
  ASSUME Inv, NEW c \in Runtimes, at[c] # "idle"
  PROVE  /\ Req(c) \in Requests /\ job[c] \in Jobs /\ job = [job EXCEPT ![c] = job[c]] /\ Assigned(c)
         /\ (at[c] \in {"commit", "settle"} => Reached(Req(c)))
         /\ (at[c] \in Bound => job[c].session \in Sessions /\ creation[job[c].session].holder \in Runtimes \cup Sessions \cup {NoOne})
<1>1. HandlersOK /\ CreationOK /\ Assigned(c)
  BY TypeParts DEF Inv
<1>2. Req(c) \in Requests
  BY HandlerRequest DEF Inv
<1>3. job[c] \in Jobs /\ job = [job EXCEPT ![c] = job[c]]
  BY <1>1 DEF HandlersOK, Jobs
<1>4. at[c] \in {"commit", "settle"} => Reached(Req(c))
  BY DEF Inv, Told
<1> QED BY <1>1, <1>2, <1>3, <1>4 DEF Assigned, CreationOK

\* The workflow of an earlier attempt is found, or the lease is needed.
LEMMA InvLookup ==
  ASSUME Inv, NEW c \in Runtimes, Lookup(c)
  PROVE  Inv'
<1>1. /\ UNCHANGED <<queueVars, flows, creation, tool, host, registry, wakes, receipt, late>>
      /\ at[c] = "lookup" /\ at[c] \in Bound
  BY DEF Lookup, sessionVars, logVars, Bound, HandlerSteps
<1>2. /\ Req(c) \in Requests /\ job[c] \in Jobs /\ job = [job EXCEPT ![c] = job[c]] /\ Assigned(c)
  BY <1>1, OnItsWay
<1>3. CreationOK' /\ LeaseStep(c)
  BY <1>1, LeaseKept
<1>4. CASE Goto(c, "acquire") /\ UNCHANGED job
  BY <1>1, <1>2, <1>3, <1>4, PlainMove DEF HandlerSteps, Assigned
<1>5. ASSUME NEW i \in Dispatched(Req(c)), job' = [job EXCEPT ![c].id = i],
             NEW t \in {"settle", "relay"}, Goto(c, t), t = "settle" => AlreadyDelivered(i)
      PROVE  Inv'
  <2> DEFINE j == [job[c] EXCEPT !.id = i]
  <2>1. j \in Jobs /\ j.id = i /\ j.session = job[c].session
    BY <1>2, IdsOK DEF Jobs
  <2>2. job' = [job EXCEPT ![c] = j]
    BY <1>2, <1>5
  <2>3. t = "settle" => Reached(Req(c))
    BY <1>2, <1>5 DEF Inv, Told, AlreadyDelivered
  <2>4. t \in HandlerSteps /\ t # "idle" /\ t # "commit" /\ t \notin {"active", "renew", "save"}
    BY DEF HandlerSteps
  <2> HIDE DEF j
  <2> QED BY <1>1, <1>2, <1>3, <1>5, <2>1, <2>2, <2>3, <2>4, PlainMove DEF Assigned
<1>6. \/ \E i \in Dispatched(Req(c)) : /\ job' = [job EXCEPT ![c].id = i]
                                       /\ Goto(c, IF AlreadyDelivered(i) THEN "settle" ELSE "relay")
      \/ Goto(c, "acquire") /\ UNCHANGED job
  BY DEF Lookup
<1> QED BY <1>4, <1>5, <1>6

\* acquireLease: the lease is free, and taken, or somebody's.
LEMMA InvAcquire ==
  ASSUME Inv, NEW c \in Runtimes, Acquire(c)
  PROVE  Inv'
<1>1. /\ UNCHANGED <<queueVars, job, flows, tool, host, registry, wakes, receipt, late>>
      /\ at[c] = "acquire" /\ at[c] \in Bound
  BY DEF Acquire, sessionVars, logVars, Bound, HandlerSteps
<1>2. /\ Req(c) \in Requests /\ job[c] \in Jobs /\ job = [job EXCEPT ![c] = job[c]] /\ Assigned(c)
      /\ job[c].session \in Sessions
  BY <1>1, OnItsWay
<1>3. CASE Goto(c, "park") /\ UNCHANGED creation
  BY <1>1, <1>2, <1>3, LeaseKept, PlainMove DEF HandlerSteps, Bound
<1>4. ASSUME Acquirable(job[c].session), Held(job[c].session, c), Goto(c, "recheck")
      PROVE  Inv'
  <2>1. CreationOK' /\ LeaseStep(c)
    BY <1>2, <1>4, TypeParts, NumbersOK DEF Inv, CreationOK, Acquirable, Held, LeaseStep
  <2> QED BY <1>1, <1>2, <1>4, <2>1, PlainMove DEF HandlerSteps, Assigned
<1> QED BY <1>3, <1>4 DEF Acquire

\* The second look for the request, inside the lease.
LEMMA InvRecheck ==
  ASSUME Inv, NEW c \in Runtimes, Recheck(c)
  PROVE  Inv'
<1>1. /\ UNCHANGED <<queueVars, flows, creation, tool, host, registry, wakes, receipt, late>>
      /\ at[c] = "recheck" /\ at[c] \in Bound
  BY DEF Recheck, sessionVars, logVars, Bound, HandlerSteps
<1>2. /\ Req(c) \in Requests /\ job[c] \in Jobs /\ job = [job EXCEPT ![c] = job[c]] /\ Assigned(c)
  BY <1>1, OnItsWay
<1>3. CreationOK' /\ LeaseStep(c)
  BY <1>1, LeaseKept
<1>4. CASE Existing(Req(c)) = {} /\ Goto(c, "active") /\ UNCHANGED job
  BY <1>1, <1>2, <1>3, <1>4, PlainMove DEF HandlerSteps, Assigned
<1>5. ASSUME NEW i \in Existing(Req(c)), job' = [job EXCEPT ![c].id = i], Goto(c, "release")
      PROVE  Inv'
  <2> DEFINE j == [job[c] EXCEPT !.id = i]
  <2>1. j \in Jobs /\ j.id = i /\ j.session = job[c].session /\ i \in Dispatched(Req(c))
    BY <1>2, IdsOK DEF Jobs, Existing
  <2>2. job' = [job EXCEPT ![c] = j]
    BY <1>2, <1>5
  <2> HIDE DEF j
  <2> QED BY <1>1, <1>2, <1>3, <1>5, <2>1, <2>2, PlainMove DEF HandlerSteps, Assigned
<1> QED BY <1>4, <1>5 DEF Recheck

\* assertNoActiveWorkflow.
LEMMA InvCheckActive ==
  ASSUME Inv, NEW c \in Runtimes, CheckActive(c)
  PROVE  Inv'
<1>1. /\ UNCHANGED <<queueVars, job, flows, creation, tool, host, registry, wakes, receipt, late>>
      /\ at[c] = "active" /\ at[c] \in Bound
  BY DEF CheckActive, sessionVars, logVars, Bound, HandlerSteps
<1>2. /\ Req(c) \in Requests /\ job[c] \in Jobs /\ job = [job EXCEPT ![c] = job[c]] /\ Assigned(c)
  BY <1>1, OnItsWay
<1>3. CreationOK' /\ LeaseStep(c)
  BY <1>1, LeaseKept
<1>4. CASE ActiveIn(job[c].session) = {} /\ Goto(c, "renew")
  <2>1. ~late /\ creation'[job[c].session].holder = c /\ Target[Req(c)] # Cwd => Existing(Req(c)) = {}
    BY <1>1 DEF Inv, Guarded, HandlerClear
  <2> QED BY <1>1, <1>2, <1>3, <1>4, <2>1, PlainMove DEF HandlerSteps, Assigned
<1>5. CASE Goto(c, "giveup")
  BY <1>1, <1>2, <1>3, <1>5, PlainMove DEF HandlerSteps, Assigned
<1> QED BY <1>4, <1>5 DEF CheckActive

\* renewLease: the lease is still the handler's, and runs again.
LEMMA InvRenew ==
  ASSUME Inv, NEW c \in Runtimes, Renew(c)
  PROVE  Inv'
<1>1. /\ UNCHANGED <<queueVars, job, flows, tool, host, registry, wakes, receipt, late>>
      /\ at[c] = "renew" /\ at[c] \in Bound
  BY DEF Renew, sessionVars, logVars, Bound, HandlerSteps
<1>2. /\ Req(c) \in Requests /\ job[c] \in Jobs /\ job = [job EXCEPT ![c] = job[c]] /\ Assigned(c)
      /\ job[c].session \in Sessions
  BY <1>1, OnItsWay
<1>3. CASE Goto(c, "giveup") /\ UNCHANGED creation
  BY <1>1, <1>2, <1>3, LeaseKept, PlainMove DEF HandlerSteps, Assigned
<1>4. ASSUME Renews(job[c].session, c), Goto(c, "save"), creation' = [creation EXCEPT ![job[c].session].live = TRUE]
      PROVE  Inv'
  <2>1. CreationOK
    BY TypeParts DEF Inv
  <2>2. /\ creation'[job[c].session].holder = c /\ creation'[job[c].session].live
        /\ \A s \in Sessions : creation'[s].holder = creation[s].holder
        /\ \A s \in Sessions : s # job[c].session => creation'[s] = creation[s]
        /\ creation' \in [Sessions -> [holder : Runtimes \cup Sessions \cup {NoOne}, live : BOOLEAN]]
    BY <1>2, <1>4, <2>1 DEF CreationOK, Renews
  <2>3. CreationOK' /\ LeaseStep(c)
    BY <1>4, <2>1, <2>2 DEF CreationOK, LeaseStep, Renews
  <2>4. /\ ~late /\ Target[Req(c)] # Cwd => Existing(Req(c)) = {}
        /\ ~late => ActiveIn(job[c].session) = {}
    BY <1>1, <1>4 DEF Inv, Guarded, HandlerClear, Renews
  <2> QED BY <1>1, <1>2, <1>4, <2>2, <2>3, <2>4, PlainMove DEF HandlerSteps, Assigned
<1> QED BY <1>3, <1>4 DEF Renew

\* releaseLease, under the fence.
LEMMA Returning ==
  ASSUME Inv, NEW s \in Sessions, NEW by, Returned(s, by)
  PROVE  CreationOK' /\ LeaseStep(by)
<1>1. CreationOK /\ Unheld \in [holder : Runtimes \cup Sessions \cup {NoOne}, live : BOOLEAN] /\ Unheld.holder = NoOne
  <2> DEFINE b == FALSE
  <2>1. Unheld = [holder |-> NoOne, live |-> b] /\ b \in BOOLEAN
    BY DEF Unheld
  <2> HIDE DEF b
  <2> QED BY <2>1, TypeParts DEF Inv
<1> QED BY <1>1, NumbersOK DEF CreationOK, LeaseStep, Returned

LEMMA InvRelease ==
  ASSUME Inv, NEW c \in Runtimes, Release(c)
  PROVE  Inv'
<1>1. /\ UNCHANGED <<queueVars, job, flows, tool, host, registry, wakes, receipt, late>>
      /\ at[c] \in {"release", "giveup"} /\ at[c] \in Bound /\ at[c] # "idle"
  BY DEF Release, sessionVars, logVars, Bound, HandlerSteps
<1>2. /\ Req(c) \in Requests /\ job[c] \in Jobs /\ job = [job EXCEPT ![c] = job[c]] /\ Assigned(c)
      /\ job[c].session \in Sessions
  BY <1>1, OnItsWay
<1>3. CreationOK' /\ LeaseStep(c)
  BY <1>2, Returning DEF Release
<1>4. CASE at[c] = "release" /\ Goto(c, "relay")
  BY <1>1, <1>2, <1>3, <1>4, PlainMove DEF HandlerSteps, Assigned
<1>5. CASE Goto(c, "park")
  BY <1>1, <1>2, <1>3, <1>5, PlainMove DEF HandlerSteps, Bound
<1> QED BY <1>1, <1>4, <1>5 DEF Release

\* A handler ends; what it leaves is its receipt, and sessions that died with it.
LEMMA EndMove ==
  ASSUME Inv, NEW c \in Runtimes, Finish(c), faults' \in 0 .. MaxFaults,
         \/ \E r \in Requests : Q!Ack(c, r) \/ Q!Park(c, r) \/ Q!RetryOrDeadLetter(c, r) \/ Q!PumpDeadLetter(c, r)
         \/ Q!ReturnLost(c) \/ Q!Crash(c),
         UNCHANGED <<flows, creation, host, registry, wakes, late>>,
         ToolOK', \A s \in Sessions : tool'[s] = tool[s] \/ tool'[s] = "idle",
         receipt' \in [Requests -> {"none", "delivered", "failed"}],
         \A r \in Requests : receipt'[r] = "delivered" => receipt[r] = "delivered" \/ Reached(r)
  PROVE  Inv'
<1>1. TypeOK /\ QueueOK
  BY TypeParts DEF Inv
<1>2. QueueOK' /\ claim'[c] = Q!NoClaim /\ \A d \in Runtimes \ {c} : claim'[d] = claim[d]
  BY <1>1, QueueDrop
<1>3. /\ HandlersOK' /\ at'[c] = "idle" /\ Assigned(c)' /\ HandlerClear(c)'
      /\ \A d \in Runtimes \ {c} : at'[d] = at[d] /\ job'[d] = job[d] /\ claim'[d] = claim[d]
  BY <1>1, <1>2, Ends
<1>4. TypeOK'
  <2>1. FlowsOK' /\ CreationOK' /\ HostOK' /\ RegistryOK' /\ LogsOK' /\ LateOK'
    BY <1>1, TypeParts DEF FlowsOK, Made, CreationOK, HostOK, RegistryOK, LogsOK, LateOK
  <2> QED BY <1>2, <1>3, <2>1, TypeParts
<1>5. Told'
  <2>1. \A s \in Sessions, r \in Requests : wakes[s][r] \in Nat /\ wakes[s][r] <= 1
    BY <1>1, TypeParts DEF Inv, Told, LogsOK
  <2>2. \A s \in Sessions, r \in Requests : wakes[s][r] <= wakes'[s][r] /\ wakes'[s][r] <= 1
    BY <2>1
  <2>3. \A d \in Runtimes : at'[d] \in {"commit", "settle"} => at[d] \in {"commit", "settle"} /\ claim'[d] = claim[d]
    BY <1>3
  <2> QED BY <1>4, <2>2, <2>3, ToldKeeps
<1>6. Fewer /\ LeaseStep(c)
  BY DEF Fewer, LeaseStep
<1> QED BY <1>3, <1>4, <1>5, <1>6, HandlerMoves

\* The receipt, written under the fence.
LEMMA InvAcknowledge ==
  ASSUME Inv, NEW c \in Runtimes, NEW r \in Requests, Acknowledge(c, r)
  PROVE  Inv'
<1>1. /\ UNCHANGED <<flows, creation, tool, host, registry, wakes, late>> /\ UNCHANGED faults
      /\ Finish(c) /\ Q!Ack(c, r) /\ at[c] \in {"settle", "refuse"} /\ Req(c) = r
  BY DEF Acknowledge, sessionVars, Q!Ack, Req
<1>2. faults' \in 0 .. MaxFaults /\ ToolOK' /\ receipt \in [Requests -> {"none", "delivered", "failed"}]
  BY <1>1, TypeParts DEF Inv, QueueOK, ToolOK, LogsOK
<1>3. at[c] = "settle" => Reached(r)
  BY <1>1 DEF Inv, Told
<1>4. /\ receipt' \in [Requests -> {"none", "delivered", "failed"}]
      /\ \A q \in Requests : receipt'[q] = "delivered" => receipt[q] = "delivered" \/ Reached(q)
  BY <1>2, <1>3 DEF Acknowledge
<1> QED BY <1>1, <1>2, <1>4, EndMove

\* The other ends of a handler: parked, retried, dead-lettered, lost.
LEMMA InvGivesUp ==
  ASSUME Inv, NEW c \in Runtimes, NEW r \in Requests,
         \/ Park(c, r) \/ Throw(c, r) \/ Return(c)
         \/ Finish(c) /\ Q!RetryPersistent(c, r) /\ UNCHANGED <<flows, creation, tool, sessionVars, logVars, late>>
  PROVE  Inv'
<1>1. /\ UNCHANGED <<flows, creation, tool, host, registry, wakes, receipt, late>>
      /\ Finish(c)
      /\ \/ \E q \in Requests : Q!Ack(c, q) \/ Q!Park(c, q) \/ Q!RetryOrDeadLetter(c, q) \/ Q!PumpDeadLetter(c, q)
         \/ Q!ReturnLost(c) \/ Q!Crash(c)
  BY DEF Park, Throw, Return, Q!RetryPersistent, sessionVars, logVars
<1>2. UNCHANGED faults \/ (faults < MaxFaults /\ faults' = faults + 1)
  BY DEF Park, Throw, Return, Q!RetryPersistent, Q!Fault, Q!RetryOrDeadLetter, Q!PumpDeadLetter, Q!ReturnLost
<1>3. faults \in 0 .. MaxFaults
  BY TypeParts DEF Inv, QueueOK
<1>4. faults' \in 0 .. MaxFaults
  BY <1>2, <1>3, NumbersOK
<1>5. ToolOK' /\ receipt' \in [Requests -> {"none", "delivered", "failed"}]
  BY <1>1, TypeParts DEF Inv, ToolOK, LogsOK
<1> QED BY <1>1, <1>4, <1>5, EndMove

\* The process dies, and the starts of its sessions with it.
LEMMA InvCrash ==
  ASSUME Inv, NEW c \in Runtimes, Crash(c)
  PROVE  Inv'
<1>1. /\ UNCHANGED <<flows, creation, host, registry, wakes, receipt, late>> /\ Finish(c) /\ Q!Crash(c)
      /\ faults < MaxFaults /\ faults' = faults + 1
  BY DEF Crash, sessionVars, logVars, Q!Crash, Q!Fault
<1>2. faults \in 0 .. MaxFaults /\ ToolOK /\ receipt \in [Requests -> {"none", "delivered", "failed"}]
  BY TypeParts DEF Inv, QueueOK, LogsOK
<1>3. faults' \in 0 .. MaxFaults
  BY <1>1, <1>2, NumbersOK
<1>4. ToolOK' /\ \A s \in Sessions : tool'[s] = tool[s] \/ tool'[s] = "idle"
  BY <1>2 DEF Crash, ToolOK, ToolSteps
<1> QED BY <1>1, <1>2, <1>3, <1>4, EndMove

\* A store error, while creating or after the relay.
LEMMA InvStoreError ==
  ASSUME Inv, NEW c \in Runtimes, NEW r \in Requests, StoreError(c, r)
  PROVE  Inv'
<1>1. CASE Finish(c) /\ Q!RetryPersistent(c, r)
  BY <1>1, InvGivesUp DEF StoreError
<1>2. ASSUME NEW t \in {"park", "giveup"}, Goto(c, t), UNCHANGED <<rows, claim, lost, overtaken, job>>,
             faults < MaxFaults, faults' = faults + 1, at[c] \in {"acquire", "recheck", "active", "renew", "save"},
             UNCHANGED <<flows, creation, tool, host, registry, wakes, receipt, late>>
      PROVE  Inv'
  <2>1. at[c] # "idle" /\ at[c] \in Bound
    BY <1>2 DEF Bound, HandlerSteps
  <2>2. /\ job[c] \in Jobs /\ job' = [job EXCEPT ![c] = job[c]] /\ Assigned(c) /\ TypeOK
    BY <1>2, <2>1, OnItsWay DEF Inv
  <2>3. t \in HandlerSteps /\ t # "idle"
    BY DEF HandlerSteps
  <2>4. /\ HandlersOK' /\ at'[c] = t /\ job'[c] = job[c]
        /\ \A d \in Runtimes \ {c} : at'[d] = at[d] /\ job'[d] = job[d] /\ claim'[d] = claim[d]
    BY <1>2, <2>1, <2>2, <2>3, GoesOn
  <2>5. QueueOK'
    <3>1. QueueOK
      BY <2>2, TypeParts
    <3>2. faults \in 0 .. MaxFaults
      BY <3>1 DEF QueueOK
    <3>3. faults' \in 0 .. MaxFaults
      BY <1>2, <3>2, NumbersOK
    <3> QED BY <1>2, <3>1, <3>3, QueueKeeps
  <2>6. TypeOK'
    <3>1. FlowsOK' /\ CreationOK' /\ ToolOK' /\ HostOK' /\ RegistryOK' /\ LogsOK' /\ LateOK'
      BY <1>2, <2>2, TypeParts DEF FlowsOK, Made, CreationOK, ToolOK, HostOK, RegistryOK, LogsOK, LateOK
    <3> QED BY <2>4, <2>5, <3>1, TypeParts
  <2>7. Told' /\ Fewer
    BY <1>2, <2>4, <2>6, Silent
  <2>8. Assigned(c)' /\ HandlerClear(c)' /\ LeaseStep(c)
    BY <1>2, <2>1, <2>2, <2>4 DEF Assigned, HandlerClear, Req, LeaseStep
  <2> QED BY <1>2, <2>4, <2>6, <2>7, <2>8, HandlerMoves
<1> QED BY <1>1, <1>2 DEF StoreError, QueueKept, sessionVars, logVars

\* A handler takes a request.
LEMMA InvClaimPlan ==
  ASSUME Inv, NEW c \in Runtimes, NEW r \in Requests, ClaimPlan(c, r)
  PROVE  Inv'
<1>1. /\ UNCHANGED <<job, flows, creation, tool, host, registry, wakes, receipt, late>> /\ Q!Claim(c, r) /\ Goto(c, "resolve")
      /\ TypeOK /\ QueueOK /\ HandlersOK
  BY TypeParts DEF ClaimPlan, sessionVars, logVars, Inv
<1>2. /\ QueueOK' /\ claim[c] = Q!NoClaim /\ claim'[c] # Q!NoClaim
      /\ \A d \in Runtimes \ {c} : claim'[d] = claim[d]
  BY <1>1, QueueClaim
<1>3. /\ at'[c] = "resolve" /\ at' \in [Runtimes -> HandlerSteps] /\ \A d \in Runtimes \ {c} : at'[d] = at[d]
  BY <1>1 DEF HandlersOK, Goto, HandlerSteps
<1>4. HandlersOK'
  BY <1>1, <1>2, <1>3 DEF HandlersOK, Q!Idle
<1>5. TypeOK'
  <2>1. FlowsOK' /\ CreationOK' /\ ToolOK' /\ HostOK' /\ RegistryOK' /\ LogsOK' /\ LateOK'
    BY <1>1, TypeParts DEF FlowsOK, Made, CreationOK, ToolOK, HostOK, RegistryOK, LogsOK, LateOK
  <2> QED BY <1>2, <1>4, <2>1, TypeParts
<1>6. Told' /\ Fewer
  BY <1>1, <1>2, <1>3, <1>5, Silent
<1>7. Assigned(c)' /\ HandlerClear(c)' /\ LeaseStep(c)
  BY <1>1, <1>3 DEF Assigned, Bound, HandlerClear, LeaseStep
<1> QED BY <1>1, <1>2, <1>3, <1>5, <1>6, <1>7, HandlerMoves

\* The message is sent, unless it is in the session's log.
LEMMA InvRelay ==
  ASSUME Inv, NEW c \in Runtimes, Relay(c)
  PROVE  Inv'
<1> DEFINE s == job[c].session
           r == Req(c)
<1>1. /\ UNCHANGED <<queueVars, job, flows, creation, tool, host, registry, receipt, late>>
      /\ at[c] = "relay" /\ at[c] \in Bound /\ TypeOK
  BY DEF Relay, sessionVars, Bound, HandlerSteps, Inv
<1>2. /\ r \in Requests /\ job[c] \in Jobs /\ job = [job EXCEPT ![c] = job[c]] /\ Assigned(c) /\ s \in Sessions
  BY <1>1, OnItsWay
<1>3. CASE Goto(c, "park") /\ UNCHANGED wakes
  <2>1. CreationOK' /\ LeaseStep(c)
    BY <1>1, LeaseKept
  <2> QED BY <1>1, <1>2, <1>3, <2>1, PlainMove DEF HandlerSteps, Bound
<1>4. ASSUME Goto(c, "commit"), \/ wakes[s][r] # 0 /\ UNCHANGED wakes
                                \/ wakes[s][r] = 0 /\ wakes' = [wakes EXCEPT ![s][r] = IF @ < 2 THEN @ + 1 ELSE @]
      PROVE  Inv'
  <2>1. /\ HandlersOK' /\ at'[c] = "commit" /\ job'[c] = job[c] /\ UNCHANGED claim
        /\ \A d \in Runtimes \ {c} : at'[d] = at[d] /\ job'[d] = job[d] /\ claim'[d] = claim[d]
    BY <1>1, <1>2, <1>4, GoesOn DEF HandlerSteps, queueVars
  <2>2. wakes \in [Sessions -> [Requests -> 0 .. 2]] /\ \A t \in Sessions, q \in Requests : wakes[t][q] <= 1
    BY <1>1, TypeParts DEF LogsOK, Inv, Told
  <2>3. /\ wakes' \in [Sessions -> [Requests -> 0 .. 2]] /\ wakes'[s][r] > 0
        /\ \A t \in Sessions, q \in Requests : wakes[t][q] <= wakes'[t][q] /\ wakes'[t][q] <= 1
    <3>1. CASE wakes[s][r] # 0 /\ UNCHANGED wakes
      BY <1>2, <2>2, <3>1
    <3>2. CASE wakes[s][r] = 0 /\ wakes' = [wakes EXCEPT ![s][r] = IF @ < 2 THEN @ + 1 ELSE @]
      <4>1. wakes' = [wakes EXCEPT ![s] = [wakes[s] EXCEPT ![r] = 1]]
        BY <1>2, <2>2, <3>2
      <4>2. wakes' \in [Sessions -> [Requests -> 0 .. 2]] /\ wakes'[s][r] = 1
            /\ \A t \in Sessions, q \in Requests : wakes'[t][q] = IF t = s /\ q = r THEN 1 ELSE wakes[t][q]
        <5>1. [wakes[s] EXCEPT ![r] = 1] \in [Requests -> 0 .. 2]
          BY <1>2, <2>2
        <5> QED BY <1>2, <2>2, <4>1, <5>1
      <4> QED BY <1>2, <2>2, <3>2, <4>2
    <3> QED BY <1>4, <3>1, <3>2
  <2>4. TypeOK'
    <3>1. QueueOK' /\ FlowsOK' /\ CreationOK' /\ ToolOK' /\ HostOK' /\ RegistryOK' /\ LateOK'
      BY <1>1, TypeParts, QueueIdle DEF FlowsOK, Made, CreationOK, ToolOK, HostOK, RegistryOK, LateOK
    <3>2. LogsOK'
      BY <1>1, <2>3, TypeParts DEF LogsOK
    <3> QED BY <2>1, <3>1, <3>2, TypeParts
  <2>5. Told'
    <3>1. \A d \in Runtimes : at'[d] \in {"commit", "settle"} =>
            \/ at[d] \in {"commit", "settle"} /\ claim'[d] = claim[d]
            \/ \E t \in Sessions : wakes'[t][claim'[d].req] > 0
      BY <1>2, <2>1, <2>3 DEF Req
    <3> QED BY <1>1, <2>3, <2>4, <3>1, ToldKeeps
  <2>6. Fewer /\ LeaseStep(c) /\ Assigned(c)' /\ HandlerClear(c)'
    BY <1>1, <1>2, <2>1 DEF Fewer, LeaseStep, Assigned, HandlerClear, Req
  <2> QED BY <1>1, <2>1, <2>4, <2>5, <2>6, HandlerMoves
<1>5. \/ Goto(c, "park") /\ UNCHANGED wakes
      \/ Goto(c, "commit") /\ \/ wakes[s][r] # 0 /\ UNCHANGED wakes
                              \/ wakes[s][r] = 0 /\ wakes' = [wakes EXCEPT ![s][r] = IF @ < 2 THEN @ + 1 ELSE @]
  BY DEF Relay, InLog
<1> QED BY <1>3, <1>4, <1>5

\* A workflow in the place of another.
LEMMA FlowUpdate ==
  ASSUME FlowsOK, NEW i \in Ids, NEW f \in Flow, f.delivery = "none" <=> i \in Started, flows' = [flows EXCEPT ![i] = f]
  PROVE  FlowsOK' /\ flows'[i] = f /\ \A j \in Ids \ {i} : flows'[j] = flows[j]
BY DEF FlowsOK, Made

\* A record of a workflow, rewritten with its marker or its phase.
LEMMA MarkedFlow ==
  ASSUME NEW w \in Flow, NEW b \in BOOLEAN
  PROVE  [w EXCEPT !.delivery = "delivered", !.quiet = b] =
           [session |-> w.session, phase |-> w.phase, delivery |-> "delivered", quiet |-> b]
<1> DEFINE m == [w EXCEPT !.delivery = "delivered"]
<1>1. m = [session |-> w.session, phase |-> w.phase, delivery |-> "delivered", quiet |-> w.quiet]
  BY DEF Flow
<1> HIDE DEF m
<1>2. [m EXCEPT !.quiet = b] = [session |-> w.session, phase |-> w.phase, delivery |-> "delivered", quiet |-> b]
  BY <1>1
<1> QED BY <1>2 DEF m

LEMMA EndedFlow ==
  ASSUME NEW w \in Flow, NEW b \in BOOLEAN, NEW p \in {"over", "cancelled"}
  PROVE  [w EXCEPT !.phase = p, !.quiet = b] =
           [session |-> w.session, phase |-> p, delivery |-> w.delivery, quiet |-> b]
<1> DEFINE m == [w EXCEPT !.phase = p]
<1>1. m = [session |-> w.session, phase |-> p, delivery |-> w.delivery, quiet |-> w.quiet]
  BY DEF Flow
<1> HIDE DEF m
<1>2. [m EXCEPT !.quiet = b] = [session |-> w.session, phase |-> p, delivery |-> w.delivery, quiet |-> b]
  BY <1>1
<1> QED BY <1>2 DEF m

\* The delivery marker.
LEMMA InvCommit ==
  ASSUME Inv, NEW c \in Runtimes, Commit(c)
  PROVE  Inv'
<1> DEFINE i == job[c].id
           f == [session |-> flows[i].session, phase |-> flows[i].phase, delivery |-> "delivered", quiet |-> FALSE]
<1>1. /\ UNCHANGED <<queueVars, job, creation, tool, host, registry, wakes, receipt, late>> /\ Goto(c, "settle")
      /\ at[c] = "commit" /\ at[c] \in Bound /\ TypeOK
  BY DEF Commit, sessionVars, logVars, Bound, HandlerSteps, Inv
<1>2. /\ Req(c) \in Requests /\ job[c] \in Jobs /\ job = [job EXCEPT ![c] = job[c]] /\ Assigned(c) /\ Reached(Req(c))
  BY <1>1, OnItsWay
<1>3. /\ HandlersOK' /\ at'[c] = "settle" /\ job'[c] = job[c] /\ UNCHANGED claim
      /\ \A d \in Runtimes \ {c} : at'[d] = at[d] /\ job'[d] = job[d] /\ claim'[d] = claim[d]
  BY <1>1, <1>2, GoesOn DEF HandlerSteps, queueVars
<1>4. i \in Dispatched(Req(c)) /\ i \in Ids /\ i \notin Started
  BY <1>1, <1>2, IdsOK DEF Assigned
<1>5. FlowsOK /\ flows[i] \in Flow
  BY <1>1, <1>4, TypeParts DEF FlowsOK
<1>6. /\ FlowsOK' /\ Fewer
      /\ \A q \in Requests : \A j \in Dispatched(q) :
           flows'[j].delivery = "delivered" => flows[j].delivery = "delivered" \/ Reached(q)
  <2>1. CASE UNCHANGED flows
    BY <1>5, <2>1 DEF FlowsOK, Made, Fewer
  <2>2. CASE flows' = [flows EXCEPT ![i].delivery = "delivered", ![i].quiet = FALSE]
    <3>1. flows' = [flows EXCEPT ![i] = f]
      <4> DEFINE b == FALSE
      <4>1. [flows[i] EXCEPT !.delivery = "delivered", !.quiet = b] =
              [session |-> flows[i].session, phase |-> flows[i].phase, delivery |-> "delivered", quiet |-> b]
        <5>1. b \in BOOLEAN /\ flows[i] \in Flow
          BY <1>5
        <5> HIDE DEF b, i
        <5> QED BY <5>1, MarkedFlow
      <4> QED BY <1>4, <1>5, <2>2, <4>1 DEF FlowsOK
    <3>2. f \in Flow /\ f.delivery = "delivered" /\ f.phase = flows[i].phase /\ f.session = flows[i].session
      <4> DEFINE b == FALSE
      <4>1. f = [session |-> flows[i].session, phase |-> flows[i].phase, delivery |-> "delivered", quiet |-> b] /\ b \in BOOLEAN
        OBVIOUS
      <4> HIDE DEF b, f
      <4> QED BY <1>5, <4>1 DEF Flow
    <3> HIDE DEF f
    <3>3. FlowsOK' /\ flows'[i] = f /\ \A j \in Ids \ {i} : flows'[j] = flows[j]
      BY <1>4, <1>5, <3>1, <3>2, FlowUpdate
    <3>4. Fewer
      BY <3>2, <3>3 DEF Fewer
    <3>5. ASSUME NEW q \in Requests, NEW j \in Dispatched(q), flows'[j].delivery = "delivered"
          PROVE  flows[j].delivery = "delivered" \/ Reached(q)
      <4>1. CASE j = i
        BY <1>2, <1>4, <3>5, <4>1, IdsOK
      <4>2. CASE j # i
        BY <3>3, <3>5, <4>2, IdsOK
      <4> QED BY <4>1, <4>2
    <3> QED BY <3>3, <3>4, <3>5
  <2> QED BY <2>1, <2>2 DEF Commit
<1>7. TypeOK'
  <2>1. QueueOK' /\ CreationOK' /\ ToolOK' /\ HostOK' /\ RegistryOK' /\ LateOK' /\ LogsOK'
    BY <1>1, TypeParts, QueueIdle DEF CreationOK, ToolOK, HostOK, RegistryOK, LateOK, LogsOK
  <2> QED BY <1>3, <1>6, <2>1, TypeParts
<1>8. Told'
  <2>1. \A t \in Sessions, q \in Requests : wakes[t][q] \in Nat /\ wakes[t][q] <= 1
    BY <1>1, TypeParts DEF LogsOK, Inv, Told
  <2>2. \A t \in Sessions, q \in Requests : wakes[t][q] <= wakes'[t][q] /\ wakes'[t][q] <= 1
    BY <1>1, <2>1
  <2>3. \A d \in Runtimes : at'[d] \in {"commit", "settle"} => at[d] \in {"commit", "settle"} /\ claim'[d] = claim[d]
    BY <1>1, <1>3
  <2> QED BY <1>1, <1>6, <1>7, <2>2, <2>3, ToldKeeps
<1>9. LeaseStep(c) /\ Assigned(c)' /\ HandlerClear(c)'
  BY <1>1, <1>2, <1>3 DEF LeaseStep, Assigned, HandlerClear, Req
<1> QED BY <1>1, <1>3, <1>6, <1>7, <1>8, <1>9, HandlerMoves

\* A workflow is made, active in the session s.
LEMMA Creates ==
  ASSUME FlowsOK, NEW i \in Ids, ~Made(i), NEW s \in Sessions, NEW d \in {"none", "prepared"},
         d = "none" <=> i \in Started, flows' = [flows EXCEPT ![i] = NewFlow(s, d)]
  PROVE  /\ FlowsOK'
         /\ \A t \in Sessions : ActiveIn(t)' = IF t = s THEN ActiveIn(t) \cup {i} ELSE ActiveIn(t)
         /\ \A q \in Requests : Existing(q)' = IF i \in Dispatched(q) THEN Existing(q) \cup {i} ELSE Existing(q)
         /\ \A j \in Ids : flows'[j].delivery = "delivered" => flows[j].delivery = "delivered"
<1> DEFINE f == NewFlow(s, d)
<1>1. f \in Flow /\ f.session = s /\ f.phase = "active" /\ f.delivery = d
  <2> DEFINE b == FALSE
  <2>1. f = [session |-> s, phase |-> "active", delivery |-> d, quiet |-> b] /\ b \in BOOLEAN
    BY DEF NewFlow
  <2> HIDE DEF b, f
  <2> QED BY <2>1 DEF Flow
<1>2. flows' = [flows EXCEPT ![i] = f]
  OBVIOUS
<1> HIDE DEF f
<1>3. FlowsOK' /\ flows'[i] = f /\ \A j \in Ids \ {i} : flows'[j] = flows[j]
  BY <1>1, <1>2, FlowUpdate
<1>4. flows[i].phase = "none"
  BY DEF Made
<1>5. ASSUME NEW t \in Sessions
      PROVE  ActiveIn(t)' = IF t = s THEN ActiveIn(t) \cup {i} ELSE ActiveIn(t)
  <2>1. ActiveIn(t)' = {j \in Ids : flows'[j].session = t /\ flows'[j].phase = "active"}
    BY DEF ActiveIn
  <2> QED BY <1>1, <1>3, <1>4, <2>1 DEF ActiveIn
<1>6. ASSUME NEW q \in Requests
      PROVE  Existing(q)' = IF i \in Dispatched(q) THEN Existing(q) \cup {i} ELSE Existing(q)
  <2>1. Existing(q)' = {j \in Dispatched(q) : flows'[j].phase # "none"}
    BY DEF Existing, Made
  <2> QED BY <1>1, <1>3, IdsOK, <2>1 DEF Existing, Made
<1>7. \A j \in Ids : flows'[j].delivery = "delivered" => flows[j].delivery = "delivered"
  BY <1>1, <1>3
<1> QED BY <1>3, <1>5, <1>6, <1>7

\* The record is saved: under ~late by the holder of the lease, for a session
\* with no active workflow, and for an addressed plan with none yet.
LEMMA InvSave ==
  ASSUME Inv, NEW c \in Runtimes, Save(c)
  PROVE  Inv'
<1> DEFINE s == job[c].session
           r == Req(c)
<1>1. /\ UNCHANGED <<queueVars, creation, tool, host, registry, wakes, receipt, late>> /\ Goto(c, "release")
      /\ at[c] = "save" /\ at[c] \in Bound /\ TypeOK
  BY DEF Save, sessionVars, logVars, Bound, HandlerSteps, Inv
<1>2. /\ r \in Requests /\ job[c] \in Jobs /\ Assigned(c) /\ s \in Sessions
  BY <1>1, OnItsWay
<1>3. PICK i \in Dispatched(r) :
        ~Made(i) /\ flows' = [flows EXCEPT ![i] = NewFlow(s, "prepared")] /\ job' = [job EXCEPT ![c].id = i]
  BY DEF Save
<1> DEFINE j == [job[c] EXCEPT !.id = i]
<1>4. i \in Ids /\ i \notin Started /\ \A q \in Requests : i \in Dispatched(q) => q = r
  BY <1>2, IdsOK
<1>5. j \in Jobs /\ j.id = i /\ j.session = s /\ job' = [job EXCEPT ![c] = j]
  <2>1. HandlersOK
    BY <1>1, TypeParts
  <2> QED BY <1>2, <1>3, <1>4, <2>1 DEF Jobs, HandlersOK
<1> HIDE DEF j
<1>6. /\ HandlersOK' /\ at'[c] = "release" /\ job'[c] = j /\ UNCHANGED claim
      /\ \A d \in Runtimes \ {c} : at'[d] = at[d] /\ job'[d] = job[d] /\ claim'[d] = claim[d]
  BY <1>1, <1>5, GoesOn DEF HandlerSteps, queueVars
<1>7. /\ FlowsOK'
      /\ \A t \in Sessions : ActiveIn(t)' = IF t = s THEN ActiveIn(t) \cup {i} ELSE ActiveIn(t)
      /\ \A q \in Requests : Existing(q)' = IF i \in Dispatched(q) THEN Existing(q) \cup {i} ELSE Existing(q)
      /\ \A k \in Ids : flows'[k].delivery = "delivered" => flows[k].delivery = "delivered"
  <2>1. FlowsOK
    BY <1>1, TypeParts
  <2> HIDE DEF s
  <2> QED BY <1>2, <1>3, <1>4, <2>1, Creates
<1>8. TypeOK'
  <2>1. QueueOK' /\ CreationOK' /\ ToolOK' /\ HostOK' /\ RegistryOK' /\ LateOK' /\ LogsOK'
    BY <1>1, TypeParts, QueueIdle DEF CreationOK, ToolOK, HostOK, RegistryOK, LateOK, LogsOK
  <2> QED BY <1>6, <1>7, <2>1, TypeParts
<1>9. Told'
  <2>1. \A t \in Sessions, q \in Requests : wakes[t][q] \in Nat /\ wakes[t][q] <= 1
    BY <1>1, TypeParts DEF LogsOK, Inv, Told
  <2>2. \A t \in Sessions, q \in Requests : wakes[t][q] <= wakes'[t][q] /\ wakes'[t][q] <= 1
    BY <1>1, <2>1
  <2>3. \A d \in Runtimes : at'[d] \in {"commit", "settle"} => at[d] \in {"commit", "settle"} /\ claim'[d] = claim[d]
    BY <1>6
  <2>4. \A q \in Requests : \A k \in Dispatched(q) : flows'[k].delivery = "delivered" => flows[k].delivery = "delivered"
    BY <1>7, IdsOK
  <2> QED BY <1>1, <1>8, <2>2, <2>3, <2>4, ToldKeeps
<1>10. \A d \in Runtimes : Assigned(d)'
  <2>1. ASSUME NEW d \in Runtimes \ {c}  PROVE Assigned(d)'
    BY <1>6, <2>1 DEF Inv, Assigned, Req
  <2>2. Assigned(c)'
    BY <1>1, <1>2, <1>4, <1>5, <1>6 DEF Assigned, Req
  <2> QED BY <2>1, <2>2
<1>11. ASSUME ~late
       PROVE  (\A d \in Runtimes : HandlerClear(d)') /\ (\A t \in Sessions : ToolClear(t)') /\ OneMade' /\ OneActive'
  <2>1. (\A d \in Runtimes : HandlerClear(d)) /\ (\A t \in Sessions : ToolClear(t)) /\ OneMade /\ OneActive
    BY <1>11 DEF Inv, Guarded
  <2>2. /\ creation[s].holder = c /\ ActiveIn(s) = {}
        /\ Target[r] # Cwd => Existing(r) = {}
    BY <1>1, <2>1 DEF HandlerClear
  <2>3. ASSUME NEW d \in Runtimes \ {c}  PROVE HandlerClear(d)'
    <3>1. /\ at'[d] = at[d] /\ job'[d] = job[d] /\ Req(d)' = Req(d) /\ HandlerClear(d) /\ Assigned(d) /\ UNCHANGED creation
          /\ (at[d] # "idle" => Req(d) \in Requests)
      BY <1>1, <1>6, <2>1, <2>3, HandlerRequest DEF Req, Inv
    <3>2. CASE at[d] \notin {"active", "renew", "save"}
      BY <3>1, <3>2 DEF HandlerClear
    <3>3. CASE at[d] \in {"active", "renew", "save"}
      <4>1. job[d].session \in Sessions /\ (Target[Req(d)] # Cwd => job[d].session = Target[Req(d)]) /\ Req(d) \in Requests
        BY <3>1, <3>3 DEF Assigned, Bound, HandlerSteps
      <4>2. creation[job[d].session].holder = d => job[d].session # s
        BY <2>2, <2>3
      <4>3. creation[job[d].session].holder = d /\ Target[Req(d)] # Cwd => Req(d) # r
        BY <1>1, <1>2, <4>1, <4>2 DEF Assigned
      <4>4. creation[job[d].session].holder = d /\ Target[Req(d)] # Cwd => {k \in Dispatched(Req(d)) : flows'[k].phase # "none"} = Existing(Req(d))
        <5>1. \A q \in Requests : q # r => {k \in Dispatched(q) : flows'[k].phase # "none"} = Existing(q)
          BY <1>4, <1>7 DEF Existing, Made
        <5> QED BY <4>1, <4>3, <5>1
      <4>5. creation[job[d].session].holder = d => {k \in Ids : flows'[k].session = job[d].session /\ flows'[k].phase = "active"} = ActiveIn(job[d].session)
        <5>1. \A t \in Sessions : t # s => {k \in Ids : flows'[k].session = t /\ flows'[k].phase = "active"} = ActiveIn(t)
          BY <1>7 DEF ActiveIn
        <5> QED BY <4>1, <4>2, <5>1
      <4>6. HandlerClear(d)' <=>
              /\ at[d] = "save" => creation[job[d].session].holder = d /\ creation[job[d].session].live
              /\ at[d] \in {"active", "renew", "save"} /\ creation[job[d].session].holder = d /\ Target[Req(d)] # Cwd =>
                   {k \in Dispatched(Req(d)) : flows'[k].phase # "none"} = {}
              /\ at[d] \in {"renew", "save"} /\ creation[job[d].session].holder = d =>
                   {k \in Ids : flows'[k].session = job[d].session /\ flows'[k].phase = "active"} = {}
        BY <3>1 DEF HandlerClear, Existing, ActiveIn, Made
      <4> QED BY <3>1, <4>4, <4>5, <4>6 DEF HandlerClear
    <3> QED BY <3>2, <3>3
  <2>4. HandlerClear(c)'
    BY <1>6 DEF HandlerClear
  <2>5. ASSUME NEW t \in Sessions  PROVE ToolClear(t)'
    <3>1. ToolClear(t) /\ UNCHANGED <<tool, creation>> /\ c # t
      BY <1>1, <2>1, NumbersOK
    <3>2. t # s => ActiveIn(t)' = ActiveIn(t)
      BY <1>7
    <3> QED BY <2>2, <3>1, <3>2 DEF ToolClear
  <2>6. OneMade'
    <3>1. ASSUME NEW q \in Requests, Target[q] # Cwd, NEW k \in Existing(q)', NEW l \in Existing(q)'  PROVE k = l
      <4>1. CASE q = r
        BY <1>7, <2>2, <3>1, <4>1
      <4>2. CASE q # r
        BY <1>4, <1>7, <2>1, <3>1, <4>2 DEF OneMade
      <4> QED BY <4>1, <4>2
    <3> QED BY <3>1 DEF OneMade
  <2>7. OneActive'
    <3>1. ASSUME NEW t \in Sessions, NEW k \in ActiveIn(t)', NEW l \in ActiveIn(t)'  PROVE k = l
      BY <1>7, <2>1, <2>2, <3>1 DEF OneActive
    <3> QED BY <3>1 DEF OneActive
  <2> QED BY <2>3, <2>4, <2>5, <2>6, <2>7
<1> QED BY <1>1, <1>8, <1>9, <1>10, <1>11 DEF Inv, Guarded

\* A session's own start goes on with nothing but its step, and the lease,
\* changed.
LEMMA PlainToolMove ==
  ASSUME Inv, NEW s \in Sessions, NEW t \in ToolSteps, ToolGoto(s, t), ToolKept, UNCHANGED flows,
         CreationOK', LeaseStep(s),
         t = "save" => creation'[s].holder = s /\ creation'[s].live,
         ~late /\ t \in {"renew", "save"} /\ creation'[s].holder = s => ActiveIn(s) = {}
  PROVE  Inv'
<1>1. /\ UNCHANGED <<queueVars, claim, at, job, flows, host, registry, wakes, receipt, late>> /\ TypeOK
  BY DEF ToolKept, queueVars, handlerVars, sessionVars, logVars, Inv
<1>2. ToolOK' /\ tool'[s] = t /\ \A u \in Sessions \ {s} : tool'[u] = tool[u]
  BY <1>1, TypeParts DEF ToolGoto, ToolOK
<1>3. TypeOK'
  <2>1. QueueOK' /\ HandlersOK' /\ FlowsOK' /\ HostOK' /\ RegistryOK' /\ LogsOK' /\ LateOK'
    BY <1>1, TypeParts, QueueIdle DEF HandlersOK, Q!Idle, FlowsOK, Made, HostOK, RegistryOK, LogsOK, LateOK
  <2> QED BY <1>2, <2>1, TypeParts
<1>4. ~late => ToolClear(s)'
  BY <1>1, <1>2 DEF ToolClear, ActiveIn
<1>5. Fewer
  BY <1>1 DEF Fewer
<1> QED BY <1>1, <1>2, <1>3, <1>4, <1>5, ToolMoves

LEMMA InvToolAcquire ==
  ASSUME Inv, NEW s \in Sessions, ToolAcquire(s)
  PROVE  Inv'
<1>1. CreationOK' /\ LeaseStep(s)
  BY TypeParts, NumbersOK DEF Inv, ToolAcquire, CreationOK, Acquirable, Held, LeaseStep
<1> QED BY <1>1, PlainToolMove DEF ToolAcquire, ToolSteps

LEMMA InvToolCheck ==
  ASSUME Inv, NEW s \in Sessions, ToolCheck(s)
  PROVE  Inv'
<1>1. CreationOK' /\ LeaseStep(s) /\ ToolKept /\ UNCHANGED <<flows, creation>>
  BY LeaseKept DEF ToolCheck
<1>2. CASE ActiveIn(s) = {} /\ ToolGoto(s, "renew")
  BY <1>1, <1>2, PlainToolMove DEF ToolSteps
<1>3. CASE ToolGoto(s, "release")
  BY <1>1, <1>3, PlainToolMove DEF ToolSteps
<1> QED BY <1>2, <1>3 DEF ToolCheck

LEMMA InvToolRenew ==
  ASSUME Inv, NEW s \in Sessions, ToolRenew(s)
  PROVE  Inv'
<1>1. ToolKept /\ UNCHANGED flows /\ CreationOK
  BY TypeParts DEF ToolRenew, Inv
<1>2. CASE ToolGoto(s, "release") /\ UNCHANGED creation
  BY <1>1, <1>2, LeaseKept, PlainToolMove DEF ToolSteps
<1>3. ASSUME Renews(s, s), ToolGoto(s, "save"), creation' = [creation EXCEPT ![s].live = TRUE]
      PROVE  Inv'
  <2>1. /\ creation'[s].holder = s /\ creation'[s].live
        /\ \A u \in Sessions : creation'[u].holder = creation[u].holder
        /\ \A u \in Sessions : u # s => creation'[u] = creation[u]
        /\ creation' \in [Sessions -> [holder : Runtimes \cup Sessions \cup {NoOne}, live : BOOLEAN]]
    BY <1>1, <1>3 DEF CreationOK, Renews
  <2>2. CreationOK' /\ LeaseStep(s)
    BY <1>1, <1>3, <2>1 DEF CreationOK, LeaseStep, Renews
  <2>3. ~late => ActiveIn(s) = {}
    BY <1>3 DEF ToolRenew, Inv, Guarded, ToolClear, Renews
  <2> QED BY <1>1, <1>3, <2>1, <2>2, <2>3, PlainToolMove DEF ToolSteps
<1> QED BY <1>2, <1>3 DEF ToolRenew

LEMMA InvToolRelease ==
  ASSUME Inv, NEW s \in Sessions, ToolRelease(s)
  PROVE  Inv'
BY Returning, PlainToolMove DEF ToolRelease, ToolSteps

\* The session saves its own workflow: of no plan, and under ~late by the
\* holder of the lease, with no active workflow.
LEMMA InvToolSave ==
  ASSUME Inv, NEW s \in Sessions, ToolSave(s)
  PROVE  Inv'
<1>1. /\ UNCHANGED <<queueVars, claim, at, job, creation, host, registry, wakes, receipt, late>> /\ TypeOK
      /\ tool[s] = "save" /\ ToolGoto(s, "release") /\ ToolKept
  BY DEF ToolSave, ToolKept, queueVars, handlerVars, sessionVars, logVars, Inv
<1>2. ToolOK' /\ tool'[s] = "release" /\ \A u \in Sessions \ {s} : tool'[u] = tool[u]
  BY <1>1, TypeParts DEF ToolGoto, ToolOK, ToolSteps
<1>3. CASE UNCHANGED flows
  BY <1>1, <1>3, LeaseKept, PlainToolMove DEF ToolSteps
<1>4. ASSUME NEW i \in Started, ~Made(i), flows' = [flows EXCEPT ![i] = NewFlow(s, "none")]
      PROVE  Inv'
  <2>1. i \in Ids /\ \A q \in Requests : i \notin Dispatched(q)
    BY IdsOK
  <2>2. /\ FlowsOK'
        /\ \A t \in Sessions : ActiveIn(t)' = IF t = s THEN ActiveIn(t) \cup {i} ELSE ActiveIn(t)
        /\ \A q \in Requests : Existing(q)' = Existing(q)
        /\ \A k \in Ids : flows'[k].delivery = "delivered" => flows[k].delivery = "delivered"
    BY <1>1, <1>4, <2>1, TypeParts, Creates
  <2>3. TypeOK'
    <3>1. QueueOK' /\ HandlersOK' /\ CreationOK' /\ HostOK' /\ RegistryOK' /\ LateOK' /\ LogsOK'
      BY <1>1, TypeParts, QueueIdle DEF HandlersOK, Q!Idle, CreationOK, HostOK, RegistryOK, LateOK, LogsOK
    <3> QED BY <1>2, <2>2, <3>1, TypeParts
  <2>4. Told'
    <3>1. \A t \in Sessions, q \in Requests : wakes[t][q] \in Nat /\ wakes[t][q] <= 1
      BY <1>1, TypeParts DEF LogsOK, Inv, Told
    <3>2. \A t \in Sessions, q \in Requests : wakes[t][q] <= wakes'[t][q] /\ wakes'[t][q] <= 1
      BY <1>1, <3>1
    <3>3. \A q \in Requests : \A k \in Dispatched(q) : flows'[k].delivery = "delivered" => flows[k].delivery = "delivered"
      BY <2>2, IdsOK
    <3> QED BY <1>1, <2>3, <3>2, <3>3, ToldKeeps
  <2>5. \A d \in Runtimes : Assigned(d)'
    BY <1>1 DEF Inv, Assigned, Req
  <2>6. ASSUME ~late
        PROVE  (\A d \in Runtimes : HandlerClear(d)') /\ (\A t \in Sessions : ToolClear(t)') /\ OneMade' /\ OneActive'
    <3>1. (\A d \in Runtimes : HandlerClear(d)) /\ (\A t \in Sessions : ToolClear(t)) /\ OneMade /\ OneActive
      BY <2>6 DEF Inv, Guarded
    <3>2. creation[s].holder = s /\ ActiveIn(s) = {}
      BY <1>1, <3>1 DEF ToolClear
    <3>3. ASSUME NEW d \in Runtimes  PROVE HandlerClear(d)'
      <4>1. /\ at'[d] = at[d] /\ job'[d] = job[d] /\ Req(d)' = Req(d) /\ HandlerClear(d) /\ UNCHANGED creation
            /\ (at[d] # "idle" => Req(d) \in Requests) /\ (at[d] \in Bound => job[d].session \in Sessions)
        BY <1>1, <3>1, HandlerRequest DEF Req, Inv, Assigned
      <4>2. creation[job[d].session].holder = d => job[d].session # s
        BY <3>2, NumbersOK
      <4>3. at[d] # "idle" => {k \in Dispatched(Req(d)) : flows'[k].phase # "none"} = Existing(Req(d))
        BY <2>2, <4>1 DEF Existing, Made
      <4>4. at[d] \in Bound /\ creation[job[d].session].holder = d =>
              {k \in Ids : flows'[k].session = job[d].session /\ flows'[k].phase = "active"} = ActiveIn(job[d].session)
        <5>1. \A t \in Sessions : t # s => {k \in Ids : flows'[k].session = t /\ flows'[k].phase = "active"} = ActiveIn(t)
          BY <2>2 DEF ActiveIn
        <5> QED BY <4>1, <4>2, <5>1
      <4>5. HandlerClear(d)' <=>
              /\ at[d] = "save" => creation[job[d].session].holder = d /\ creation[job[d].session].live
              /\ at[d] \in {"active", "renew", "save"} /\ creation[job[d].session].holder = d /\ Target[Req(d)] # Cwd =>
                   {k \in Dispatched(Req(d)) : flows'[k].phase # "none"} = {}
              /\ at[d] \in {"renew", "save"} /\ creation[job[d].session].holder = d =>
                   {k \in Ids : flows'[k].session = job[d].session /\ flows'[k].phase = "active"} = {}
        BY <4>1 DEF HandlerClear, Existing, ActiveIn, Made
      <4>6. {"active", "renew", "save"} \subseteq Bound
        BY DEF Bound, HandlerSteps
      <4> QED BY <4>1, <4>3, <4>4, <4>5, <4>6 DEF HandlerClear
    <3>4. ASSUME NEW t \in Sessions  PROVE ToolClear(t)'
      <4>1. CASE t = s
        BY <1>2, <4>1 DEF ToolClear
      <4>2. CASE t # s
        BY <1>1, <1>2, <2>2, <3>1, <4>2 DEF ToolClear
      <4> QED BY <4>1, <4>2
    <3>5. OneMade'
      BY <2>2, <3>1 DEF OneMade
    <3>6. OneActive'
      <4>1. ASSUME NEW t \in Sessions, NEW k \in ActiveIn(t)', NEW l \in ActiveIn(t)'  PROVE k = l
        BY <2>2, <3>1, <3>2, <4>1 DEF OneActive
      <4> QED BY <4>1 DEF OneActive
    <3> QED BY <3>3, <3>4, <3>5, <3>6
  <2> QED BY <1>1, <2>3, <2>4, <2>5, <2>6 DEF Inv, Guarded
<1> QED BY <1>3, <1>4 DEF ToolSave

\* A step of nobody's creation.
LEMMA Elsewhere ==
  ASSUME Inv, TypeOK', UNCHANGED <<claim, at, job, creation, wakes, receipt, late>>, Fewer,
         \A i \in Ids : flows'[i].delivery = flows[i].delivery,
         \A s \in Sessions : tool'[s] = tool[s] \/ tool'[s] = "idle"
  PROVE  Inv'
<1> DEFINE T == {s \in Sessions : tool'[s] # tool[s]}
<1>1. Guarded'
  <2>1. /\ {} \in SUBSET Runtimes /\ T \in SUBSET Sessions
        /\ \A s \in Sessions \ T : tool'[s] = tool[s]
        /\ \A s \in T : ToolClear(s)'
    BY DEF ToolClear
  <2>2. \A by, saving, s : Undisturbed(by, saving, s)
    BY DEF Undisturbed
  <2> HIDE DEF T
  <2> QED BY <2>1, <2>2, GuardedKeeps
<1>2. Told'
  <2>1. \A t \in Sessions, r \in Requests : wakes[t][r] \in Nat /\ wakes[t][r] <= 1
    BY TypeParts DEF Inv, Told, LogsOK
  <2>2. \A t \in Sessions, r \in Requests : wakes[t][r] <= wakes'[t][r] /\ wakes'[t][r] <= 1
    BY <2>1
  <2>3. \A r \in Requests : \A i \in Dispatched(r) : flows'[i].delivery = flows[i].delivery
    BY IdsOK
  <2> QED BY <2>2, <2>3, ToldKeeps
<1>3. \A c \in Runtimes : Assigned(c)'
  BY DEF Inv, Assigned, Req
<1> QED BY <1>1, <1>2, <1>3 DEF Inv

\* The record of one workflow is rewritten: cancelled, complete, or quiet.
LEMMA InvRewrites ==
  ASSUME Inv, NEW i \in Ids, Cancel(i) \/ Complete(i) \/ GoQuiet(i)
  PROVE  Inv'
<1>1. /\ UNCHANGED <<queueVars, claim, at, job, creation, tool, host, registry, wakes, receipt, late>> /\ TypeOK
  BY DEF Cancel, Complete, GoQuiet, ToolKept, queueVars, handlerVars, sessionVars, logVars, Inv
<1>2. FlowsOK /\ flows[i] \in Flow
  BY <1>1, TypeParts DEF FlowsOK
<1>3. PICK f \in Flow :
        /\ flows' = [flows EXCEPT ![i] = f] /\ f.delivery = flows[i].delivery /\ f.session = flows[i].session
        /\ f.phase # "none" /\ (f.phase = "active" => flows[i].phase = "active") /\ flows[i].phase # "none"
  <2> DEFINE b == FALSE
             w == flows[i]
             Ended(p) == [session |-> w.session, phase |-> p, delivery |-> w.delivery, quiet |-> b]
  <2>1. b \in BOOLEAN /\ w \in Flow
    BY <1>2
  <2>2. ASSUME NEW p \in {"over", "cancelled"}
        PROVE  /\ Ended(p) \in Flow /\ Ended(p) = [w EXCEPT !.phase = p, !.quiet = b]
               /\ Ended(p).phase = p /\ Ended(p).delivery = w.delivery /\ Ended(p).session = w.session
    <3>1. Ended(p) = [w EXCEPT !.phase = p, !.quiet = b]
      <4> HIDE DEF b, w
      <4> QED BY <2>1, EndedFlow
    <3>2. Ended(p) \in Flow
      <4> HIDE DEF b, w
      <4> QED BY <2>1 DEF Flow
    <3> QED BY <3>1, <3>2
  <2>3. CASE Cancel(i)
    <3>1. flows' = [flows EXCEPT ![i] = [w EXCEPT !.phase = "cancelled", !.quiet = b]] /\ w.phase # "none"
      BY <1>2, <2>3 DEF Cancel, FlowsOK
    <3> HIDE DEF w, b, Ended
    <3> QED BY <2>2, <3>1 DEF w
  <2>4. CASE Complete(i)
    <3>1. flows' = [flows EXCEPT ![i] = [w EXCEPT !.phase = "over", !.quiet = b]] /\ w.phase # "none"
      BY <1>2, <2>4 DEF Complete, FlowsOK
    <3> HIDE DEF w, b, Ended
    <3> QED BY <2>2, <3>1 DEF w
  <2>5. CASE GoQuiet(i)
    <3> DEFINE f == [w EXCEPT !.quiet = TRUE]
    <3>1. f \in Flow /\ f.delivery = w.delivery /\ f.session = w.session /\ f.phase = w.phase
      BY <2>1 DEF Flow
    <3>2. flows' = [flows EXCEPT ![i] = f] /\ w.phase = "active"
      BY <1>2, <2>5 DEF GoQuiet, FlowsOK
    <3> HIDE DEF f
    <3> QED BY <3>1, <3>2
  <2> QED BY <2>3, <2>4, <2>5
<1>4. f.delivery = "none" <=> i \in Started
  BY <1>2, <1>3 DEF FlowsOK, Made
<1>5. FlowsOK' /\ flows'[i] = f /\ \A j \in Ids \ {i} : flows'[j] = flows[j]
  BY <1>2, <1>3, <1>4, FlowUpdate
<1>6. TypeOK'
  <2>1. QueueOK' /\ HandlersOK' /\ CreationOK' /\ ToolOK' /\ HostOK' /\ RegistryOK' /\ LateOK' /\ LogsOK'
    BY <1>1, TypeParts, QueueIdle DEF HandlersOK, Q!Idle, CreationOK, ToolOK, HostOK, RegistryOK, LateOK, LogsOK
  <2> QED BY <1>5, <2>1, TypeParts
<1>7. Fewer /\ \A j \in Ids : flows'[j].delivery = flows[j].delivery
  BY <1>3, <1>5 DEF Fewer
<1> QED BY <1>1, <1>6, <1>7, Elsewhere

\* The heartbeat of a runtime, and the recovery it runs.
LEMMA InvRefresh ==
  ASSUME Inv, NEW c \in Runtimes, Refresh(c)
  PROVE  Inv'
<1>1. /\ UNCHANGED <<queueVars, claim, at, job, creation, tool, host, wakes, receipt, late>> /\ TypeOK
      /\ FlowsOK /\ RegistryOK /\ HostOK
  BY TypeParts DEF Refresh, queueVars, handlerVars, logVars, Inv
<1>2. RegistryOK'
  <2> DEFINE b == TRUE
             n == FALSE
             R == [owner : Runtimes \cup {NoOne}, live : BOOLEAN]
             mine == [owner |-> c, live |-> b]
             gone == [owner |-> NoOne, live |-> n]
  <2>1. b \in BOOLEAN /\ n \in BOOLEAN
    OBVIOUS
  <2>2. registry' = [s \in Sessions |-> CASE host[s] = c -> mine
                                          [] host[s] # c /\ registry[s].owner = c -> gone
                                          [] OTHER -> registry[s]]
    BY DEF Refresh
  <2> HIDE DEF b, n
  <2>3. mine \in R /\ gone \in R
    BY <2>1
  <2>4. \A s \in Sessions : registry[s] \in R
    BY <1>1 DEF RegistryOK
  <2> HIDE DEF mine, gone, R
  <2>5. registry' \in [Sessions -> R]
    BY <2>2, <2>3, <2>4
  <2> QED BY <2>5 DEF RegistryOK, R
<1>3. \A i \in Ids : /\ flows'[i] \in Flow /\ flows'[i].delivery = flows[i].delivery /\ flows'[i].session = flows[i].session
                     /\ flows'[i].phase # "none" <=> flows[i].phase # "none"
                     /\ flows'[i].phase = "active" => flows[i].phase = "active"
  <2>1. ASSUME NEW i \in Ids  PROVE /\ flows[i] \in Flow
                                    /\ flows'[i] = flows[i] \/ (flows[i].phase = "active" /\ flows'[i] = [flows[i] EXCEPT !.phase = "abandoned"])
    BY <1>1 DEF Refresh, FlowsOK, Abandoned
  <2> QED BY <2>1 DEF Flow
<1>4. FlowsOK' /\ Fewer
  <2>1. flows' \in [Ids -> Flow]
    BY <1>3 DEF Refresh
  <2> QED BY <1>1, <1>3, <2>1 DEF FlowsOK, Made, Fewer
<1>5. TypeOK'
  <2>1. QueueOK' /\ HandlersOK' /\ CreationOK' /\ ToolOK' /\ HostOK' /\ LateOK' /\ LogsOK'
    BY <1>1, TypeParts, QueueIdle DEF HandlersOK, Q!Idle, CreationOK, ToolOK, HostOK, LateOK, LogsOK
  <2> QED BY <1>2, <1>4, <2>1, TypeParts
<1> QED BY <1>1, <1>3, <1>4, <1>5, Elsewhere

\* A session opens, closes or moves.
LEMMA InvRehost ==
  ASSUME Inv, NEW s \in Sessions, NEW h \in Runtimes \cup {NoOne}, Rehost(s, h)
  PROVE  Inv'
<1>1. /\ UNCHANGED <<rows, claim, lost, overtaken, at, job, flows, creation, registry, wakes, receipt, late>> /\ TypeOK
      /\ faults < MaxFaults /\ faults' = faults + 1 /\ host' = [host EXCEPT ![s] = h]
      /\ UNCHANGED tool \/ ToolGoto(s, "idle")
  BY DEF Rehost, Fault, QueueKept, handlerVars, logVars, Inv
<1>2. /\ QueueOK /\ HandlersOK /\ FlowsOK /\ CreationOK /\ ToolOK /\ HostOK /\ RegistryOK /\ LogsOK /\ LateOK
  BY <1>1, TypeParts
<1>3. faults' \in 0 .. MaxFaults
  <2>1. faults \in 0 .. MaxFaults
    BY <1>2 DEF QueueOK
  <2> QED BY <1>1, <2>1, NumbersOK
<1>4. HostOK' /\ ToolOK' /\ \A t \in Sessions : tool'[t] = tool[t] \/ tool'[t] = "idle"
  BY <1>1, <1>2 DEF HostOK, ToolOK, ToolSteps, ToolGoto
<1>5. TypeOK'
  <2>1. QueueOK'
    BY <1>1, <1>2, <1>3, QueueKeeps
  <2>2. HandlersOK' /\ FlowsOK' /\ CreationOK' /\ RegistryOK' /\ LateOK' /\ LogsOK'
    BY <1>1, <1>2 DEF HandlersOK, Q!Idle, FlowsOK, Made, CreationOK, RegistryOK, LateOK, LogsOK
  <2> QED BY <1>4, <2>1, <2>2, TypeParts
<1> QED BY <1>1, <1>4, <1>5, Elsewhere DEF Fewer

LEMMA InvExpireSession ==
  ASSUME Inv, NEW s \in Sessions, ExpireSession(s)
  PROVE  Inv'
<1>1. /\ UNCHANGED <<queueVars, claim, at, job, flows, creation, tool, host, wakes, receipt, late>> /\ TypeOK
      /\ registry' = [registry EXCEPT ![s].live = FALSE]
  BY DEF ExpireSession, queueVars, handlerVars, logVars, Inv
<1>2. RegistryOK'
  BY <1>1, TypeParts DEF RegistryOK
<1>3. TypeOK'
  <2>1. QueueOK' /\ HandlersOK' /\ FlowsOK' /\ CreationOK' /\ ToolOK' /\ HostOK' /\ LateOK' /\ LogsOK'
    BY <1>1, TypeParts, QueueIdle DEF HandlersOK, Q!Idle, FlowsOK, Made, CreationOK, ToolOK, HostOK, LateOK, LogsOK
  <2> QED BY <1>2, <2>1, TypeParts
<1> QED BY <1>1, <1>3, Elsewhere DEF Fewer

\* The queue moves without its handlers.
LEMMA InvQueue ==
  ASSUME Inv, QueueStep \/ \E r \in Requests : Enqueue(r)
  PROVE  Inv'
<1>1. /\ UNCHANGED <<at, job, flows, creation, tool, host, registry, wakes, receipt, late>> /\ TypeOK /\ QueueOK
  BY TypeParts DEF QueueStep, Enqueue, handlerVars, sessionVars, logVars, Inv
<1>2. QueueOK' /\ claim' = claim
  BY <1>1, QueueTime, QueueEnqueue DEF QueueStep, Enqueue
<1>3. TypeOK'
  <2>1. HandlersOK' /\ FlowsOK' /\ CreationOK' /\ ToolOK' /\ HostOK' /\ RegistryOK' /\ LateOK' /\ LogsOK'
    BY <1>1, <1>2, TypeParts DEF HandlersOK, Q!Idle, FlowsOK, Made, CreationOK, ToolOK, HostOK, RegistryOK, LateOK, LogsOK
  <2> QED BY <1>2, <2>1, TypeParts
<1> QED BY <1>1, <1>2, <1>3, Elsewhere DEF Fewer

\* A creation lease runs out: unless its creator sleeps at the save, which is
\* late, nobody relies on it.
LEMMA InvExpireCreation ==
  ASSUME Inv, NEW s \in Sessions, ExpireCreation(s)
  PROVE  Inv'
<1>1. /\ UNCHANGED <<rows, claim, lost, overtaken, at, job, flows, tool, host, registry, wakes, receipt>> /\ TypeOK
      /\ creation' = [creation EXCEPT ![s].live = FALSE]
      /\ UNCHANGED faults \/ (faults < MaxFaults /\ faults' = faults + 1)
  BY DEF ExpireCreation, Fault, QueueKept, handlerVars, sessionVars, logVars, Inv
<1>2. /\ QueueOK /\ HandlersOK /\ FlowsOK /\ CreationOK /\ ToolOK /\ HostOK /\ RegistryOK /\ LogsOK /\ LateOK
  BY <1>1, TypeParts
<1>3. /\ CreationOK' /\ \A t \in Sessions : creation'[t].holder = creation[t].holder
      /\ \A t \in Sessions \ {s} : creation'[t] = creation[t]
  BY <1>1, <1>2 DEF CreationOK
<1>4. TypeOK'
  <2>1. faults' \in 0 .. MaxFaults
    <3>1. faults \in 0 .. MaxFaults
      BY <1>2 DEF QueueOK
    <3> QED BY <1>1, <3>1, NumbersOK
  <2>2. QueueOK'
    BY <1>1, <1>2, <2>1, QueueKeeps
  <2>3. LateOK'
    BY <1>2 DEF ExpireCreation, LateOK
  <2>4. HandlersOK' /\ FlowsOK' /\ ToolOK' /\ HostOK' /\ RegistryOK' /\ LogsOK'
    BY <1>1, <1>2 DEF HandlersOK, Q!Idle, FlowsOK, Made, ToolOK, HostOK, RegistryOK, LogsOK
  <2> QED BY <1>3, <2>2, <2>3, <2>4, TypeParts
<1>5. ~late' => ~late
  BY DEF ExpireCreation
<1>6. ASSUME NEW c \in Runtimes, ~late', at[c] \in {"active", "renew", "save"}
      PROVE  Undisturbed(c, at[c] = "save", job[c].session)
  <2>1. job[c].session \in Sessions /\ HandlerClear(c)
    BY <1>5, <1>6 DEF Inv, Assigned, Bound, HandlerSteps, Guarded
  <2>2. at[c] = "save" => job[c].session # s
    BY <1>6, <2>1 DEF HandlerClear, ExpireCreation, InUse
  <2> QED BY <1>3, <2>1, <2>2 DEF Undisturbed
<1>7. ASSUME NEW t \in Sessions, ~late', tool[t] \in {"renew", "save"}
      PROVE  Undisturbed(t, tool[t] = "save", t)
  <2>1. ToolClear(t)
    BY <1>5, <1>7 DEF Inv, Guarded
  <2>2. tool[t] = "save" => t # s
    BY <1>7, <2>1 DEF ToolClear, ExpireCreation, InUse
  <2> QED BY <1>3, <2>2 DEF Undisturbed
<1>8. Guarded'
  <2>1. {} \in SUBSET Runtimes /\ {} \in SUBSET Sessions /\ Fewer
    BY <1>1 DEF Fewer
  <2> QED BY <1>1, <1>5, <1>6, <1>7, <2>1, GuardedKeeps
<1>9. Told'
  <2>1. \A t \in Sessions, r \in Requests : wakes[t][r] \in Nat /\ wakes[t][r] <= 1
    BY <1>2 DEF Inv, Told, LogsOK
  <2>2. \A t \in Sessions, r \in Requests : wakes[t][r] <= wakes'[t][r] /\ wakes'[t][r] <= 1
    BY <1>1, <2>1
  <2> QED BY <1>1, <1>4, <2>2, ToldKeeps
<1>10. \A c \in Runtimes : Assigned(c)'
  BY <1>1 DEF Inv, Assigned, Req
<1> QED BY <1>4, <1>8, <1>9, <1>10 DEF Inv

LEMMA InvInit == ASSUME Init PROVE Inv
<1>1. /\ \A c \in Runtimes : at[c] = "idle" /\ claim[c] = Q!NoClaim
      /\ \A i \in Ids : flows[i] = NoFlow
      /\ \A s \in Sessions : tool[s] = "idle" /\ creation[s] = Unheld
      /\ \A s \in Sessions, r \in Requests : wakes[s][r] = 0
      /\ \A r \in Requests : receipt[r] = "none"
      /\ ~late
  BY DEF Init, Q!Init
<1>2. NoFlow \in Flow /\ NoFlow.phase = "none" /\ NoFlow.delivery = "none"
  <2> DEFINE b == FALSE
  <2>1. NoFlow = [session |-> NoOne, phase |-> "none", delivery |-> "none", quiet |-> b] /\ b \in BOOLEAN
    BY DEF NoFlow
  <2> HIDE DEF b
  <2> QED BY <2>1 DEF Flow
<1>3. Unheld \in [holder : Runtimes \cup Sessions \cup {NoOne}, live : BOOLEAN] /\ Unheld.holder = NoOne
  <2> DEFINE b == FALSE
  <2>1. Unheld = [holder |-> NoOne, live |-> b] /\ b \in BOOLEAN
    BY DEF Unheld
  <2> HIDE DEF b
  <2> QED BY <2>1
<1>4. HandlersOK
  <2>1. at = [c \in Runtimes |-> "idle"] /\ job = [c \in Runtimes |-> NoJob] /\ "idle" \in HandlerSteps
    BY DEF Init, HandlerSteps
  <2>2. NoJob \in Jobs
    BY DEF NoJob, Jobs
  <2> QED BY <1>1, <2>1, <2>2 DEF HandlersOK, Q!Idle, Jobs
<1>5. FlowsOK
  BY <1>1, <1>2 DEF Init, FlowsOK, Made
<1>6. CreationOK
  <2>1. creation = [s \in Sessions |-> Unheld]
    BY DEF Init
  <2> QED BY <1>3, <2>1, NumbersOK DEF CreationOK
<1>7. ToolOK
  BY DEF Init, ToolOK, ToolSteps
<1>8. HostOK
  BY DEF Init, HostOK
<1>9. RegistryOK
  BY <1>8 DEF Init, RegistryOK, HostOK
<1>10. LogsOK
  BY DEF Init, LogsOK
<1>11. LateOK
  BY DEF Init, LateOK
<1>12. QueueOK
  <2>1. Q!Absent \in Q!Row /\ Q!RowShape(Q!Absent)
    <3> DEFINE b == FALSE
    <3>1. Q!Absent = [status |-> "absent", hash |-> NoOne, epoch |-> 0, owner |-> NoOne,
                      live |-> b, due |-> b, attempts |-> 0, receipt |-> NoOne] /\ b \in BOOLEAN /\ ~b
      BY DEF Q!Absent
    <3>2. "absent" \in Q!Statuses /\ 0 \in Q!AttemptCounts
      BY NumbersOK DEF Q!Statuses, Q!AttemptCounts
    <3> HIDE DEF b
    <3> QED BY <3>1, <3>2 DEF Q!Row, Q!RowShape
  <2>2. rows = [r \in Requests |-> Q!Absent] /\ claim = [c \in Runtimes |-> Q!NoClaim] /\ lost = [c \in Runtimes |-> FALSE]
        /\ overtaken = FALSE /\ faults = 0
    BY DEF Init, Q!Init
  <2>3. RowsOK(rows)
    BY <2>1, <2>2 DEF RowsOK
  <2>4. faults \in 0 .. MaxFaults
    BY <2>2, NumbersOK
  <2>5. claim \in [Runtimes -> Q!Claims \cup {Q!NoClaim}] /\ lost \in [Runtimes -> BOOLEAN] /\ overtaken \in BOOLEAN
    BY <2>2
  <2> QED BY <2>3, <2>4, <2>5 DEF QueueOK
<1>13. TypeOK
  BY <1>4, <1>5, <1>6, <1>7, <1>8, <1>9, <1>10, <1>11, <1>12, TypeParts
<1>14. \A c \in Runtimes : Assigned(c)
  BY <1>1 DEF Assigned, Bound
<1>15. Guarded
  <2>1. \A r \in Requests : Existing(r) = {}
    BY <1>1, <1>2, IdsOK DEF Existing, Made
  <2>2. \A s \in Sessions : ActiveIn(s) = {}
    BY <1>1, <1>2 DEF ActiveIn
  <2> QED BY <1>1, <2>1, <2>2 DEF Guarded, HandlerClear, ToolClear, OneMade, OneActive
<1>16. Told
  BY <1>1, <1>2, IdsOK DEF Told
<1> QED BY <1>13, <1>14, <1>15, <1>16 DEF Inv

LEMMA InvStutter ==
  ASSUME Inv, UNCHANGED vars
  PROVE  Inv'
<1>1. /\ UNCHANGED <<queueVars, claim, at, job, flows, creation, tool, host, registry, wakes, receipt, late>> /\ TypeOK
  BY DEF vars, queueVars, handlerVars, sessionVars, logVars, Inv
<1>2. TypeOK'
  <2>1. QueueOK' /\ HandlersOK' /\ FlowsOK' /\ CreationOK' /\ ToolOK' /\ HostOK' /\ RegistryOK' /\ LateOK' /\ LogsOK'
    BY <1>1, TypeParts, QueueIdle DEF HandlersOK, Q!Idle, FlowsOK, Made, CreationOK, ToolOK, HostOK, RegistryOK, LateOK, LogsOK
  <2> QED BY <2>1, TypeParts
<1> QED BY <1>1, <1>2, Elsewhere DEF Fewer

LEMMA InvStep == ASSUME Inv, [Next]_vars PROVE Inv'
<1>1. ASSUME NEW c \in Runtimes, HandlerStep(c)  PROVE Inv'
  <2>1. ASSUME NEW r \in Requests, Acknowledge(c, r) \/ Park(c, r)  PROVE Inv'
    BY <2>1, InvAcknowledge, InvGivesUp
  <2>2. CASE Return(c)
    <3>1. PICK r \in Requests : TRUE
      <4>1. claim[c] \in Q!Claims
        BY <2>2, TypeParts DEF Return, Inv, HandlersOK, QueueOK, Q!ReturnLost, Q!Idle
      <4> QED BY <4>1 DEF Q!Claims
    <3> QED BY <2>2, InvGivesUp
  <2> QED BY <1>1, <2>1, <2>2, InvResolve, InvLookup, InvAcquire, InvRecheck, InvCheckActive, InvRenew, InvSave,
             InvRelease, InvRelay, InvCommit DEF HandlerStep
<1>2. ASSUME NEW c \in Runtimes, HandlerFault(c)  PROVE Inv'
  BY <1>2, InvCrash, InvStoreError, InvGivesUp DEF HandlerFault
<1>3. ASSUME NEW c \in Runtimes, NEW r \in Requests, ClaimPlan(c, r)  PROVE Inv'
  BY <1>3, InvClaimPlan
<1>4. ASSUME NEW c \in Runtimes, Refresh(c)  PROVE Inv'
  BY <1>4, InvRefresh
<1>5. ASSUME NEW s \in Sessions, ToolAcquire(s) \/ ToolStep(s) \/ ExpireSession(s) \/ ExpireCreation(s)  PROVE Inv'
  BY <1>5, InvToolAcquire, InvToolCheck, InvToolRenew, InvToolSave, InvToolRelease, InvExpireSession, InvExpireCreation DEF ToolStep
<1>6. ASSUME NEW s \in Sessions, NEW h \in Runtimes \cup {NoOne}, Rehost(s, h)  PROVE Inv'
  BY <1>6, InvRehost
<1>7. ASSUME NEW i \in Ids, Cancel(i) \/ Complete(i) \/ GoQuiet(i)  PROVE Inv'
  BY <1>7, InvRewrites
<1>8. CASE QueueStep \/ \E r \in Requests : Enqueue(r)
  BY <1>8, InvQueue
<1>9. CASE UNCHANGED vars
  BY <1>9, InvStutter
<1> QED BY <1>1, <1>2, <1>3, <1>4, <1>5, <1>6, <1>7, <1>8, <1>9 DEF Next

-----------------------------------------------------------------------------
(* The theorems.                                                             *)

\* Types, and what the creation lease is worth to whoever holds it: a creator
\* about to save holds it, and knows what it looked up to be still so
\* (startExternalPlan, createFreshWorkflow, acquireLease).
THEOREM InvInvariant == Spec => []Inv
BY InvInit, InvStep, PTL DEF Spec

\* At most one of two equals.
LEMMA AtMostOne ==
  ASSUME NEW S, \A i, j \in S : i = j
  PROVE  Cardinality(S) <= 1
<1>1. CASE S = {}
  BY <1>1, FS_EmptySet
<1>2. CASE S # {}
  <2>1. PICK i \in S : S = {i}
    BY <1>2
  <2>2. Cardinality({i}) = 1
    BY FS_Singleton
  <2> QED BY <2>1, <2>2
<1> QED BY <1>1, <1>2

LEMMA InvOneActive == Inv => OneActivePerSession
<1>1. ASSUME Inv, ~late, NEW s \in Sessions  PROVE Cardinality(ActiveIn(s)) <= 1
  BY <1>1, AtMostOne DEF Inv, Guarded, OneActive
<1> QED BY <1>1 DEF OneActivePerSession

\* No session gets two active workflows, from plans addressed to it, from
\* plans for its directory or from its own tools, while no creator sleeps past
\* its lease before it saves (assertNoActiveWorkflow under the creation lease).
THEOREM OneActivePerSessionInvariant == Spec => []OneActivePerSession
BY InvInvariant, InvOneActive, PTL

LEMMA InvOneWorkflow == ASSUME Addressed PROVE Inv => OneWorkflow
<1>1. ASSUME Inv, ~late, NEW r \in Requests  PROVE Cardinality({i \in Dispatched(r) : Made(i)}) <= 1
  <2>1. \A i, j \in {k \in Dispatched(r) : Made(k)} : i = j
    BY <1>1 DEF Addressed, Inv, Guarded, OneMade, Existing
  <2> QED BY <2>1, AtMostOne
<1>2. Inv => OneWorkflowPerRequest
  BY <1>1 DEF OneWorkflowPerRequest
<1> QED BY <1>2, InvOneActive DEF Inv, OneWorkflow

\* A plan that names its session makes one workflow, through every replay,
\* takeover and crash of its handlers, under the same proviso
\* (createFreshWorkflow looks for the request again inside the lease).
THEOREM OneWorkflowInvariant == Addressed => (Spec => []OneWorkflow)
<1>1. ASSUME Addressed  PROVE Spec => []OneWorkflow
  <2>1. Inv => OneWorkflow
    BY <1>1, InvOneWorkflow
  <2> QED BY <2>1, InvInvariant, PTL
<1> QED BY <1>1

\* A session gets the message of a plan at most once, and no delivery marker
\* and no receipt claims a message that was not sent (handleDispatch, relay).
THEOREM OneTrueDeliveryInvariant == Spec => []OneTrueDelivery
<1>1. Inv => OneTrueDelivery
  <2>1. ASSUME Inv, NEW r \in Requests, NEW i \in Ids, i \in Dispatched(r), flows[i].delivery = "delivered"
        PROVE  \E s \in Sessions : wakes[s][r] > 0
    BY <2>1 DEF Inv, Told, Reached
  <2> QED BY <2>1 DEF Inv, Told, Reached, OneTrueDelivery, PlanRelayedOnce, DeliveredWasRelayed
<1> QED BY <1>1, InvInvariant, PTL

----------------------------------------------------------------------------
(***************************************************************************)
(* The queue that the dispatch uses, with the uses that it makes of it, is *)
(* still a FencedQueue: a request is settled only by the runtime that      *)
(* holds it, although sessions that come, go and expire route many         *)
(* requests at once, and faults are charged to calls beside the queue.     *)
(***************************************************************************)

\* What a row shows of itself to the abstract queue, and the abstract state.
HolderOf(row) == IF row.status = "processing" THEN row.owner ELSE NoOne
stages == [r \in Requests |-> Q!StageOf(rows[r].status)]
holders == [r \in Requests |-> HolderOf(rows[r])]
workers == [c \in Runtimes |-> claim[c].req]
Stutter == UNCHANGED <<stages, holders, workers>>

\* An abstract step, or none.
Fenced == Q!Abstract!Next \/ Stutter

\* One row changes: so do one stage and one holder.
LEMMA OneRow ==
  ASSUME QueueOK, NEW r \in Requests, NEW row, rows' = [rows EXCEPT ![r] = row]
  PROVE  /\ stages' = [stages EXCEPT ![r] = Q!StageOf(row.status)]
         /\ holders' = [holders EXCEPT ![r] = HolderOf(row)]
BY DEF QueueOK, RowsOK, stages, holders

\* The names of a claim: nobody handles a request that is none.
LEMMA Worker ==
  ASSUME QueueOK, NEW c \in Runtimes
  PROVE  /\ claim[c].req \in Requests \cup {NoOne}
         /\ Q!Idle(c) <=> claim[c].req = NoOne
         /\ Q!Drop(c) => workers' = [workers EXCEPT ![c] = NoOne]
<1>1. claim[c] \in Q!Claims \/ claim[c] = Q!NoClaim
  BY DEF QueueOK
<1>2. Q!NoClaim.req = NoOne /\ NoOne \notin Requests
  BY NumbersOK DEF Q!NoClaim
<1>3. claim[c] \in Q!Claims => claim[c].req \in Requests
  BY DEF Q!Claims
<1>4. Q!Drop(c) => workers' = [workers EXCEPT ![c] = NoOne]
  BY <1>2 DEF QueueOK, Q!Drop, workers
<1> QED BY <1>1, <1>2, <1>3, <1>4 DEF Q!Idle

\* The queue stands still.
LEMMA FencedKept == ASSUME UNCHANGED <<rows, claim>> PROVE Fenced
BY DEF Fenced, Stutter, stages, holders, workers

\* A new request appears.
LEMMA FencedEnqueue ==
  ASSUME QueueOK, NEW r \in Requests, Q!Enqueue(r, "plan")
  PROVE  Fenced
<1> DEFINE row == [Q!Absent EXCEPT !.status = "inbox", !.hash = "plan"]
<1>1. rows' = [rows EXCEPT ![r] = row] /\ UNCHANGED claim /\ row.status = "inbox" /\ rows[r].status = "absent"
  BY DEF Q!Enqueue, Q!Absent
<1> HIDE DEF row
<1>2. stages' = [stages EXCEPT ![r] = "waiting"] /\ holders' = [holders EXCEPT ![r] = NoOne]
  BY <1>1, OneRow DEF Q!StageOf, HolderOf
<1>3. stages[r] = "unknown" /\ holders[r] = NoOne
  BY <1>1 DEF stages, holders, Q!StageOf, HolderOf
<1>4. UNCHANGED <<holders, workers>>
  BY <1>1, <1>2, <1>3 DEF holders, workers
<1>5. Q!Abstract!Appear(r)
  BY <1>2, <1>3, <1>4 DEF Q!Abstract!Appear, stages, holders, workers, HolderOf
<1> QED BY <1>5 DEF Fenced, Q!Abstract!Next

\* A claim grants a waiting request, or takes it from its last holder.
LEMMA FencedClaim ==
  ASSUME QueueOK, NEW c \in Runtimes, NEW r \in Requests, Q!Claim(c, r)
  PROVE  Fenced
<1> DEFINE row == [rows[r] EXCEPT !.status = "processing", !.epoch = @ + 1, !.owner = c, !.live = TRUE, !.due = FALSE]
<1>0. rows \in [Requests -> Q!Row] /\ rows[r] \in Q!Row
  BY DEF QueueOK, RowsOK
<1>1. rows' = [rows EXCEPT ![r] = row] /\ row.status = "processing" /\ row.owner = c
  BY <1>0 DEF Q!Claim, Q!Row
<1> HIDE DEF row
<1>2. stages' = [stages EXCEPT ![r] = "held"] /\ holders' = [holders EXCEPT ![r] = c]
  <2>1. Q!StageOf(row.status) = "held" /\ HolderOf(row) = c
    BY <1>1 DEF Q!StageOf, HolderOf
  <2> QED BY <1>1, <2>1, OneRow
<1>3. rows[r].status \in {"retry", "processing", "inbox"}
  BY DEF Q!Claim, Q!Candidates, Q!DueRetries, Q!Expired, Q!Inbox
<1>4. stages[r] \in {"waiting", "held"}
  BY <1>3 DEF stages, Q!StageOf
<1>5. workers[c] = NoOne /\ workers' = [workers EXCEPT ![c] = r]
  BY Worker DEF Q!Claim, Q!ClaimOn, QueueOK, workers
<1>6. Q!Abstract!Grant(r, c)
  BY <1>2, <1>4, <1>5 DEF Q!Abstract!Grant, stages, holders, workers, HolderOf
<1> QED BY <1>6 DEF Fenced, Q!Abstract!Next

\* A fenced outcome settles the request of its holder, or only drops the work.
LEMMA FencedOutcome ==
  ASSUME QueueOK, NEW c \in Runtimes, NEW r \in Requests, claim[c].req = r, Q!Drop(c),
         NEW row, row.status \in {"done", "retry", "dead-letter"}, Q!FencedWrite(c, r, row)
  PROVE  Fenced
<1>1. workers[c] = r /\ r # NoOne /\ workers' = [workers EXCEPT ![c] = NoOne]
  BY Worker, NumbersOK DEF workers
<1>2. CASE ~Q!Fence(c, r)
  <2>1. Q!Abstract!Drop(c)
    BY <1>1, <1>2 DEF Q!FencedWrite, Q!Abstract!Drop, stages, holders, workers, HolderOf
  <2> QED BY <2>1 DEF Fenced, Q!Abstract!Next
<1>3. CASE Q!Fence(c, r)
  <2>1. stages' = [stages EXCEPT ![r] = Q!StageOf(row.status)] /\ holders' = [holders EXCEPT ![r] = NoOne]
    BY <1>3, OneRow DEF Q!FencedWrite, HolderOf
  <2>2. Q!StageOf(row.status) \in {"waiting", "done", "dead"}
    BY DEF Q!StageOf
  <2>3. stages[r] = "held" /\ holders[r] = c
    BY <1>3 DEF Q!Fence, stages, holders, Q!StageOf, HolderOf
  <2>4. Q!Abstract!Settle(r, c)
    BY <1>1, <2>1, <2>2, <2>3 DEF Q!Abstract!Settle, stages, holders, workers, HolderOf
  <2> QED BY <2>4 DEF Fenced, Q!Abstract!Next
<1> QED BY <1>2, <1>3

\* Every way in which a handler ends.
LEMMA FencedFinish ==
  ASSUME QueueOK, NEW c \in Runtimes, NEW r \in Requests,
         Q!Ack(c, r) \/ Q!RetryOrDeadLetter(c, r) \/ Q!RetryPersistent(c, r) \/ Q!PumpDeadLetter(c, r)
  PROVE  Fenced
<1>1. rows[r] \in Q!Row
  BY DEF QueueOK, RowsOK
<1>2. /\ Q!AckedRow(rows[r], c).status = "done"
      /\ Q!RetriedRow(rows[r]).status = "retry" /\ Q!DeadRow(rows[r]).status = "dead-letter"
  BY <1>1 DEF Q!Row, Q!AckedRow, Q!RetriedRow, Q!DeadRow
<1>3. CASE Q!Ack(c, r)
  BY <1>2, <1>3, FencedOutcome DEF Q!Ack
<1>4. CASE Q!RetryPersistent(c, r)
  BY <1>2, <1>4, FencedOutcome DEF Q!Park, Q!RetryPersistent
<1>5. CASE Q!PumpDeadLetter(c, r)
  BY <1>2, <1>5, FencedOutcome DEF Q!PumpDeadLetter
<1>6. CASE Q!RetryOrDeadLetter(c, r)
  <2> DEFINE row == IF Q!Exhausted(c) THEN Q!DeadRow(rows[r]) ELSE Q!RetriedRow(rows[r])
  <2>1. row.status \in {"retry", "dead-letter"}
    BY <1>2
  <2>2. claim[c].req = r /\ Q!Drop(c) /\ Q!FencedWrite(c, r, row)
    BY <1>6 DEF Q!RetryOrDeadLetter
  <2> HIDE DEF row
  <2> QED BY <2>1, <2>2, FencedOutcome
<1> QED BY <1>3, <1>4, <1>5, <1>6

\* A handler that ends without a statement drops its work.
LEMMA FencedDrop ==
  ASSUME QueueOK, NEW c \in Runtimes, Q!ReturnLost(c) \/ Q!Crash(c)
  PROVE  Fenced
<1>1. UNCHANGED rows /\ workers[c] # NoOne /\ workers' = [workers EXCEPT ![c] = NoOne]
  BY Worker DEF Q!ReturnLost, Q!Crash, workers
<1>2. Q!Abstract!Drop(c)
  BY <1>1 DEF Q!Abstract!Drop, stages, holders, workers, HolderOf
<1> QED BY <1>2 DEF Fenced, Q!Abstract!Next

\* Leases and time: heartbeats and clocks show nothing, the recovery revokes.
LEMMA FencedTime == ASSUME QueueOK, QueueStep PROVE Fenced
<1>0. rows \in [Requests -> Q!Row]
  BY DEF QueueOK, RowsOK
<1>1. ASSUME NEW r \in Requests, NEW b \in BOOLEAN, UNCHANGED claim,
             \/ rows' = [rows EXCEPT ![r].live = b]
             \/ rows' = [rows EXCEPT ![r].due = b]
      PROVE  Fenced
  <2>1. ASSUME NEW q \in Requests
        PROVE  rows'[q].status = rows[q].status /\ rows'[q].owner = rows[q].owner
    BY <1>0, <1>1, <2>1 DEF Q!Row
  <2> QED BY <1>1, <2>1 DEF Fenced, Stutter, stages, holders, workers, HolderOf
<1>2. ASSUME NEW c \in Runtimes, Q!HeartbeatError(c) PROVE Fenced
  BY <1>2, FencedKept DEF Q!HeartbeatError
<1>3. ASSUME NEW c \in Runtimes, NEW r \in Requests, Q!Heartbeat(c, r) PROVE Fenced
  BY <1>1, <1>3, FencedKept DEF Q!Heartbeat
<1>4. ASSUME NEW r \in Requests, Q!Expire(r) \/ Q!Stall(r) \/ Q!RetryDue(r) PROVE Fenced
  BY <1>1, <1>4 DEF Q!Expire, Q!Stall, Q!RetryDue
<1>5. ASSUME Q!RecoverOrphans PROVE Fenced
  <2> DEFINE R == {r \in Requests : rows[r].status = "processing" /\ ~rows[r].live}
  <2>1. ASSUME NEW r \in Requests
        PROVE  /\ r \in R => Q!StageOf(rows'[r].status) = "waiting" /\ HolderOf(rows'[r]) = NoOne
               /\ r \notin R => rows'[r] = rows[r]
               /\ r \in R => Q!StageOf(rows[r].status) = "held"
    BY <1>0, <1>5, <2>1 DEF Q!RecoverOrphans, Q!RecoveredRow, Q!Row, Q!StageOf, HolderOf
  <2>2. R \in SUBSET {r \in Requests : stages[r] = "held"}
    BY <2>1 DEF stages
  <2> HIDE DEF R
  <2>3. /\ stages' = [r \in Requests |-> IF r \in R THEN "waiting" ELSE stages[r]]
        /\ holders' = [r \in Requests |-> IF r \in R THEN NoOne ELSE holders[r]]
        /\ UNCHANGED workers
    BY <1>5, <2>1 DEF stages, holders, workers, Q!RecoverOrphans
  <2>4. Q!Abstract!Revoke
    BY <2>2, <2>3 DEF Q!Abstract!Revoke, stages, holders, workers, HolderOf
  <2> QED BY <2>4 DEF Fenced, Q!Abstract!Next
<1> QED BY <1>2, <1>3, <1>4, <1>5 DEF QueueStep

\* Every step of the dispatch is a step of the abstract queue, or invisible.
LEMMA FencedStep == ASSUME Inv, [Next]_vars PROVE Fenced
<1>1. QueueOK
  BY TypeParts DEF Inv
<1>2. ASSUME NEW c \in Runtimes, NEW r \in Requests, ClaimPlan(c, r) PROVE Fenced
  BY <1>1, <1>2, FencedClaim DEF ClaimPlan
<1>3. ASSUME NEW c \in Runtimes, NEW r \in Requests,
             Acknowledge(c, r) \/ Park(c, r) \/ StoreError(c, r) \/ Throw(c, r)
      PROVE  Fenced
  BY <1>1, <1>3, FencedFinish, FencedKept DEF Acknowledge, Park, StoreError, Throw, QueueKept
<1>4. ASSUME NEW c \in Runtimes, Return(c) \/ Crash(c) PROVE Fenced
  BY <1>1, <1>4, FencedDrop DEF Return, Crash
<1>5. ASSUME NEW r \in Requests, Enqueue(r) PROVE Fenced
  BY <1>1, <1>5, FencedEnqueue DEF Enqueue
<1>6. CASE QueueStep
  BY <1>1, <1>6, FencedTime
<1>7. ASSUME NEW c \in Runtimes,
             \/ Resolve(c) \/ Lookup(c) \/ Acquire(c) \/ Recheck(c) \/ CheckActive(c) \/ Renew(c)
             \/ Save(c) \/ Release(c) \/ Relay(c) \/ Commit(c) \/ Refresh(c)
      PROVE  Fenced
  <2>1. UNCHANGED <<rows, claim>>
    BY <1>7 DEF Resolve, Lookup, Acquire, Recheck, CheckActive, Renew, Save, Release, Relay, Commit, Refresh,
       QueueKept, queueVars
  <2> QED BY <2>1, FencedKept
<1>8. ASSUME NEW s \in Sessions,
             \/ ToolAcquire(s) \/ ToolStep(s) \/ ExpireSession(s) \/ ExpireCreation(s)
             \/ \E h \in Runtimes \cup {NoOne} : Rehost(s, h)
      PROVE  Fenced
  <2>1. UNCHANGED <<rows, claim>>
    BY <1>8 DEF ToolAcquire, ToolStep, ToolCheck, ToolRenew, ToolSave, ToolRelease, ExpireSession, ExpireCreation, Rehost,
       ToolKept, QueueKept, queueVars
  <2> QED BY <2>1, FencedKept
<1>9. ASSUME NEW i \in Ids, Cancel(i) \/ Complete(i) \/ GoQuiet(i) PROVE Fenced
  <2>1. UNCHANGED <<rows, claim>>
    BY <1>9 DEF Cancel, Complete, GoQuiet, ToolKept, queueVars
  <2> QED BY <2>1, FencedKept
<1>10. CASE UNCHANGED vars
  BY <1>10, FencedKept DEF vars, queueVars
<1> QED BY <1>2, <1>3, <1>4, <1>5, <1>6, <1>7, <1>8, <1>9, <1>10 DEF Next, HandlerStep, HandlerFault

\* The queue under the dispatch keeps the promise of FencedQueue, through every
\* outcome of handleDispatch and whatever becomes of its runtime and its sessions:
\* only the runtime that holds a plan request settles it (bridge-runtime.ts
\* handleDispatch with the fenced statements of queue-repository.ts).
THEOREM QueueStaysFenced == Spec => Q!ImplementsFencedQueue
<1>1. Init => Q!Abstract!Init
  <2> SUFFICES ASSUME Init PROVE Q!Abstract!Init
    OBVIOUS
  <2>1. rows = [r \in Requests |-> Q!Absent] /\ claim = [c \in Runtimes |-> Q!NoClaim]
    BY DEF Init, Q!Init
  <2>2. Q!Absent.status = "absent" /\ Q!NoClaim.req = NoOne /\ Q!StageOf("absent") = "unknown"
    BY DEF Q!Absent, Q!NoClaim, Q!StageOf
  <2> QED BY <2>1, <2>2 DEF Q!Abstract!Init
<1>2. Inv /\ [Next]_vars => [Q!Abstract!Next]_(Q!Abstract!vars)
  BY FencedStep DEF Fenced, Stutter, stages, holders, workers, HolderOf, Q!Abstract!vars
<1>3. Spec => []Inv
  BY InvInvariant
<1> QED BY <1>1, <1>2, <1>3, PTL DEF Spec, Q!Abstract!Spec, Q!ImplementsFencedQueue
=============================================================================
