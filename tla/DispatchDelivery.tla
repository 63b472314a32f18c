-------------------------- MODULE DispatchDelivery --------------------------
(***************************************************************************)
(* The way of a dispatched plan to a DSH session: handleDispatch of        *)
(* bridge-runtime.ts on the queue of BridgeQueue, the creation of the      *)
(* workflow it may need (startExternalPlan of workflow.ts) under the       *)
(* creation lease of the session, which the session's own tools take too,  *)
(* and the registry of live sessions with the recovery of abandoned        *)
(* workflows that every refresh of it runs.                                *)
(*                                                                         *)
(* A plan is addressed to a session or to a directory; all sessions here   *)
(* work in one directory.  Each step is the code between two awaits.       *)
(***************************************************************************)
EXTENDS Naturals, FiniteSets

CONSTANTS Runtimes, NoOne, Legacy,
          Sessions,          \* DSH sessions, all in one directory
          Requests, Target,  \* Target[r]: the addressed session, or Cwd
          Cwd,
          MaxRetryAttempts,  \* options.maxRetryAttempts
          MaxStarted,        \* bound: workflows the sessions start themselves
          MaxFaults          \* bound: crashes, stalls, failing calls, session moves

ASSUME BoundsAssumption == {MaxRetryAttempts, MaxStarted, MaxFaults} \subseteq Nat
ASSUME NamesAssumption == /\ NoOne \notin Runtimes \cup Sessions \cup Requests \cup {"plan"}
                          /\ Runtimes \cap Sessions = {} /\ Cwd \notin Requests
ASSUME TargetAssumption == Cwd \notin Sessions /\ Target \in [Requests -> Sessions \cup {Cwd}]

VARIABLES rows, claim, lost, overtaken, faults,  \* of BridgeQueue
          at,        \* at[c]: where runtime c's handler is
          job,       \* job[c]: the session it found and the workflow it has
          flows,     \* flows[i]: the record of workflow i
          creation,  \* creation[s]: the row workflow-create:<s> of the leases
          tool,      \* tool[s]: where the session's own start of a workflow is
          host,      \* host[s]: the runtime where the session is open, or NoOne
          registry,  \* registry[s]: the row of s in live_sessions
          wakes,     \* wakes[s][r]: messages of plan r in the log of s
          receipt,   \* receipt[r]: the status in r's receipt
          late       \* history: a creator slept past its lease before it saved

queueVars == <<rows, claim, lost, overtaken, faults>>
handlerVars == <<at, job>>
sessionVars == <<host, registry>>
logVars == <<wakes, receipt>>
vars == <<queueVars, handlerVars, flows, creation, tool, sessionVars, logVars, late>>

\* Explicit targets are routed to the host of the session, others to the owner
\* of the only live session of the directory, or of the first of several.
Live == {s \in Sessions : registry[s].live}

\* Mutant: several sessions of one directory have no owner.
UniqueOwner == IF Cardinality(Live) = 1 THEN {registry[s].owner : s \in Live} ELSE {}

CwdOwners == IF Cardinality(Live) = 1 THEN {registry[s].owner : s \in Live}
             ELSE IF Live = {} THEN {} ELSE {registry[CHOOSE s \in Live : TRUE].owner}
Owners(r) == (IF Target[r] = Cwd THEN CwdOwners ELSE {host[Target[r]]}) \ {NoOne}

Q == INSTANCE BridgeQueue WITH
       Plans <- {"plan"}, Verdicts <- {}, Malformed <- {}, MaxOps <- 0, ops <- 0,
       route <- [r \in Requests |-> Owners(r)]

\* A request may get two workflows if its creators are not kept apart.
Dispatched(r) == {r} \X {1, 2}
Started == {Cwd} \X (1 .. MaxStarted)
Ids == (UNION {Dispatched(r) : r \in Requests}) \cup Started
NoFlow == [session |-> NoOne, phase |-> "none", delivery |-> "none", quiet |-> FALSE]
Flow == [session : Sessions \cup {NoOne}, phase : {"none", "active", "over", "cancelled", "abandoned"},
         delivery : {"none", "prepared", "delivered"}, quiet : BOOLEAN]
Unheld == [holder |-> NoOne, live |-> FALSE]
NoJob == [session |-> NoOne, id |-> NoOne]
HandlerSteps == {"idle", "resolve", "lookup", "acquire", "recheck", "active", "renew", "save",
                 "release", "giveup", "park", "relay", "commit", "settle", "refuse"}
ToolSteps == {"idle", "active", "renew", "save", "release"}

Made(i) == flows[i].phase # "none"
ActiveIn(s) == {i \in Ids : flows[i].session = s /\ flows[i].phase = "active"}
\* "cancelled" is the user's, "abandoned" the recovery's cancellation.
Suppressed(i) == flows[i].phase \in {"cancelled", "abandoned"}

Init ==
  /\ host \in [Sessions -> Runtimes \cup {NoOne}]
  /\ registry = [s \in Sessions |-> [owner |-> host[s], live |-> host[s] # NoOne]]
  /\ Q!Init
  /\ at = [c \in Runtimes |-> "idle"] /\ job = [c \in Runtimes |-> NoJob]
  /\ flows = [i \in Ids |-> NoFlow]
  /\ creation = [s \in Sessions |-> Unheld]
  /\ tool = [s \in Sessions |-> "idle"]
  /\ wakes = [s \in Sessions |-> [r \in Requests |-> 0]]
  /\ receipt = [r \in Requests |-> "none"]
  /\ late = FALSE

Req(c) == claim[c].req
Goto(c, s) == at' = [at EXCEPT ![c] = s]
Fault == faults < MaxFaults /\ faults' = faults + 1
QueueKept == UNCHANGED <<rows, claim, lost, overtaken>>

----------------------------------------------------------------------------
(* The creation lease of a session, taken by handlers and by its tools.     *)

\* acquireLease: refused while somebody's lease runs.
Acquirable(s) == ~creation[s].live
Held(s, by) == creation' = [creation EXCEPT ![s] = [holder |-> by, live |-> TRUE]]

\* renewLease, under the fence and whatever the age of the lease.
Renews(s, by) == creation[s].holder = by

\* releaseLease, under the fence.
Returned(s, by) == creation' = IF creation[s].holder = by
                               THEN [creation EXCEPT ![s] = Unheld] ELSE creation

----------------------------------------------------------------------------
(* handleDispatch.                                                          *)

Enqueue(r) ==
  /\ UNCHANGED <<handlerVars, flows, creation, tool, sessionVars, logVars, late>>
  /\ Q!Enqueue(r, "plan")

ClaimPlan(c, r) ==
  /\ UNCHANGED <<job, flows, creation, tool, sessionVars, logVars, late>>
  /\ Q!Claim(c, r)
  /\ Goto(c, "resolve")

\* resolveTarget: the sessions this request may be for, as c sees them.
Candidates(r) == IF Target[r] = Cwd THEN Live ELSE {Target[r]}

Resolve(c) ==
  LET S == Candidates(Req(c)) IN
  /\ at[c] = "resolve"
  /\ \/ /\ Cardinality(S) > 1
        /\ Goto(c, "refuse") /\ UNCHANGED job
     \/ /\ S = {} \/ \E s \in S : S = {s} /\ host[s] # c
        /\ Goto(c, "park") /\ UNCHANGED job
     \/ \E s \in S : /\ S = {s} /\ host[s] = c
                     /\ Goto(c, "lookup")
                     /\ job' = [job EXCEPT ![c].session = s]
  /\ UNCHANGED <<queueVars, flows, creation, tool, sessionVars, logVars, late>>

AlreadyDelivered(i) == flows[i].delivery = "delivered"

\* byBridgeRequest: a replay finds the workflow of the first attempt.
Lookup(c) ==
  /\ at[c] = "lookup"
  /\ \/ \E i \in Dispatched(Req(c)) :
          /\ Made(i)
          /\ job' = [job EXCEPT ![c].id = i]
          /\ Goto(c, IF AlreadyDelivered(i) THEN "settle" ELSE "relay")
     \/ /\ \A i \in Dispatched(Req(c)) : ~Made(i)
        /\ ~lost[c]
        /\ Goto(c, "acquire") /\ UNCHANGED job
  /\ UNCHANGED <<queueVars, flows, creation, tool, sessionVars, logVars, late>>

\* The lease is waited for, not for long.
Acquire(c) ==
  LET s == job[c].session IN
  /\ at[c] = "acquire"
  /\ \/ Acquirable(s) /\ Held(s, c) /\ Goto(c, "recheck")
     \/ ~Acquirable(s) /\ Goto(c, "park") /\ UNCHANGED creation
  /\ UNCHANGED <<queueVars, job, flows, tool, sessionVars, logVars, late>>

\* Mutant: the replay is looked up before the lease only.
NotRechecked(r) == {}

\* What the second look for the request, inside the lease, may find.
Existing(r) == {i \in Dispatched(r) : Made(i)}

Recheck(c) ==
  /\ at[c] = "recheck"
  /\ \/ \E i \in Existing(Req(c)) : job' = [job EXCEPT ![c].id = i] /\ Goto(c, "release")
     \/ Existing(Req(c)) = {} /\ Goto(c, "active") /\ UNCHANGED job
  /\ UNCHANGED <<queueVars, flows, creation, tool, sessionVars, logVars, late>>

\* assertNoActiveWorkflow.
CheckActive(c) ==
  /\ at[c] = "active"
  /\ Goto(c, IF ActiveIn(job[c].session) = {} THEN "renew" ELSE "giveup")
  /\ UNCHANGED <<queueVars, job, flows, creation, tool, sessionVars, logVars, late>>

Renew(c) ==
  LET s == job[c].session IN
  /\ at[c] = "renew"
  /\ \/ /\ Renews(s, c) /\ Goto(c, "save")
        /\ creation' = [creation EXCEPT ![s].live = TRUE]
     \/ ~Renews(s, c) /\ Goto(c, "giveup") /\ UNCHANGED creation
  /\ UNCHANGED <<queueVars, job, flows, tool, sessionVars, logVars, late>>

NewFlow(s, delivery) == [session |-> s, phase |-> "active", delivery |-> delivery, quiet |-> FALSE]

\* The record is saved with no further look at the lease.
Save(c) ==
  /\ at[c] = "save"
  /\ \E i \in Dispatched(Req(c)) :
       /\ ~Made(i) /\ (i[2] = 2 => Made(<<i[1], 1>>))
       /\ flows' = [flows EXCEPT ![i] = NewFlow(job[c].session, "prepared")]
       /\ job' = [job EXCEPT ![c].id = i]
  /\ Goto(c, "release")
  /\ UNCHANGED <<queueVars, creation, tool, sessionVars, logVars, late>>

Release(c) ==
  /\ at[c] \in {"release", "giveup"}
  /\ Returned(job[c].session, c)
  /\ Goto(c, IF at[c] = "release" THEN "relay" ELSE "park")
  /\ UNCHANGED <<queueVars, job, flows, tool, sessionVars, logVars, late>>

\* Mutant: the session's log is not searched.
NotSearched(s, r) == FALSE

\* The deterministic message id of the plan is in the session's log.
InLog(s, r) == wakes[s][r] # 0

\* The message is sent to the agent found at the start, unless its log has it;
\* the phase of the workflow is not looked at.  A closed session refuses it.
Relay(c) ==
  LET s == job[c].session  r == Req(c) IN
  /\ at[c] = "relay"
  /\ ~lost[c]
  /\ \/ InLog(s, r) /\ Goto(c, "commit") /\ UNCHANGED wakes
     \/ /\ ~InLog(s, r) /\ host[s] = c
        /\ wakes' = [wakes EXCEPT ![s][r] = IF @ < 2 THEN @ + 1 ELSE @]
        /\ Goto(c, "commit")
     \/ ~InLog(s, r) /\ host[s] # c /\ Goto(c, "park") /\ UNCHANGED wakes
  /\ UNCHANGED <<queueVars, job, flows, creation, tool, sessionVars, receipt, late>>

\* The delivery marker; a cancelled workflow does not get it.
Commit(c) ==
  LET i == job[c].id IN
  /\ at[c] = "commit"
  /\ ~lost[c]
  /\ flows' = IF Suppressed(i) THEN flows
              ELSE [flows EXCEPT ![i].delivery = "delivered", ![i].quiet = FALSE]
  /\ Goto(c, "settle")
  /\ UNCHANGED <<queueVars, job, creation, tool, sessionVars, logVars, late>>

Finish(c) == at' = [at EXCEPT ![c] = "idle"] /\ job' = [job EXCEPT ![c] = NoJob]

\* The receipt, written only under the fence.
Acknowledge(c, r) ==
  /\ at[c] \in {"settle", "refuse"}
  /\ receipt' = IF Q!Fence(c, r)
                THEN [receipt EXCEPT ![r] = IF at[c] = "settle" THEN "delivered" ELSE "failed"]
                ELSE receipt
  /\ Finish(c)
  /\ UNCHANGED <<flows, creation, tool, sessionVars, wakes, late>>
  /\ Q!Ack(c, r)

\* retryOrDeadLetter: no session, a busy one, or a refused message.
Park(c, r) ==
  /\ at[c] = "park"
  /\ Finish(c)
  /\ UNCHANGED <<flows, creation, tool, sessionVars, logVars, late>>
  /\ Q!RetryOrDeadLetter(c, r)

\* A store error: while creating or relaying it counts as an attempt, after
\* the relay it is retried for as long as it takes.
StoreError(c, r) ==
  /\ UNCHANGED <<flows, creation, tool, sessionVars, logVars, late>>
  /\ faults < MaxFaults
  /\ \/ at[c] \in {"acquire", "recheck", "active", "renew", "save"}
        /\ Goto(c, IF at[c] = "acquire" THEN "park" ELSE "giveup") /\ faults' = faults + 1
        /\ QueueKept /\ UNCHANGED job
     \/ at[c] \in {"commit", "settle"} /\ Finish(c) /\ Q!RetryPersistent(c, r)

\* These calls are outside every try: an error reaches the pump.
Throw(c, r) ==
  /\ at[c] \in {"resolve", "lookup", "refuse", "park"} /\ faults < MaxFaults
  /\ Finish(c)
  /\ UNCHANGED <<flows, creation, tool, sessionVars, logVars, late>>
  /\ Q!PumpDeadLetter(c, r)

\* A handler that finds its claim lost at one of its tests returns.
Return(c) ==
  /\ at[c] \in {"lookup", "relay", "commit", "settle", "refuse", "park"}
  /\ at[c] = "lookup" => \A i \in Dispatched(Req(c)) : ~Made(i)
  /\ Finish(c)
  /\ UNCHANGED <<flows, creation, tool, sessionVars, logVars, late>>
  /\ Q!ReturnLost(c)

\* The process dies and starts again with its sessions, or just the outcome of
\* the handler cannot be written.
Crash(c) ==
  /\ Finish(c)
  /\ UNCHANGED <<flows, creation, sessionVars, logVars, late>>
  /\ tool' \in {tool, [s \in Sessions |-> IF host[s] = c THEN "idle" ELSE tool[s]]}
  /\ Q!Crash(c)

----------------------------------------------------------------------------
(* A workflow that the session starts itself, with start or review_only.    *)

ToolGoto(s, t) == tool' = [tool EXCEPT ![s] = t]
ToolKept == UNCHANGED <<queueVars, handlerVars, sessionVars, logVars, late>>

ToolAcquire(s) ==
  /\ tool[s] = "idle" /\ host[s] # NoOne
  /\ \E i \in Started : ~Made(i)
  /\ Acquirable(s) /\ Held(s, s)
  /\ ToolGoto(s, "active")
  /\ ToolKept /\ UNCHANGED flows

ToolCheck(s) ==
  /\ tool[s] = "active"
  /\ ToolGoto(s, IF ActiveIn(s) = {} THEN "renew" ELSE "release")
  /\ ToolKept /\ UNCHANGED <<flows, creation>>

ToolRenew(s) ==
  /\ tool[s] = "renew"
  /\ \/ /\ Renews(s, s) /\ ToolGoto(s, "save")
        /\ creation' = [creation EXCEPT ![s].live = TRUE]
     \/ ~Renews(s, s) /\ ToolGoto(s, "release") /\ UNCHANGED creation
  /\ ToolKept /\ UNCHANGED flows

ToolSave(s) ==
  /\ tool[s] = "save"
  /\ \/ \E i \in Started : ~Made(i) /\ flows' = [flows EXCEPT ![i] = NewFlow(s, "none")]
     \/ (\A i \in Started : Made(i)) /\ UNCHANGED flows
  /\ ToolGoto(s, "release")
  /\ ToolKept /\ UNCHANGED creation

ToolRelease(s) ==
  /\ tool[s] = "release"
  /\ Returned(s, s)
  /\ ToolGoto(s, "idle")
  /\ ToolKept /\ UNCHANGED flows

\* codex_workflow_cancel, and the end of a workflow.
Cancel(i) ==
  /\ flows[i].phase \in {"active", "over"} /\ host[flows[i].session] # NoOne
  /\ flows' = [flows EXCEPT ![i].phase = "cancelled", ![i].quiet = FALSE]
  /\ ToolKept /\ UNCHANGED <<creation, tool>>

Complete(i) ==
  /\ flows[i].phase = "active" /\ host[flows[i].session] # NoOne
  /\ flows' = [flows EXCEPT ![i].phase = "over", ![i].quiet = FALSE]
  /\ ToolKept /\ UNCHANGED <<creation, tool>>

----------------------------------------------------------------------------
(* Sessions, their registry, and the recovery of abandoned workflows.       *)

\* abandonOrphaned, given the sessions of this runtime: workflows of other
\* sessions that were not written for two leases.
Abandoned(c) ==
  {i \in Ids : flows[i].phase = "active" /\ flows[i].quiet /\ host[flows[i].session] # c}

\* doRefreshSessions, by the heartbeat of every runtime: its own rows replaced
\* or renewed, then the recovery.
Refresh(c) ==
  /\ registry' = [s \in Sessions |->
       CASE host[s] = c -> [owner |-> c, live |-> TRUE]
         [] host[s] # c /\ registry[s].owner = c -> [owner |-> NoOne, live |-> FALSE]
         [] OTHER -> registry[s]]
  /\ flows' = [i \in Ids |-> IF i \in Abandoned(c) THEN [flows[i] EXCEPT !.phase = "abandoned"]
                             ELSE flows[i]]
  /\ registry' # registry \/ flows' # flows
  /\ UNCHANGED <<queueVars, handlerVars, creation, tool, host, logVars, late>>

\* Nobody writes the record of i for two leases.
GoQuiet(i) ==
  /\ flows[i].phase = "active" /\ ~flows[i].quiet
  /\ flows' = [flows EXCEPT ![i].quiet = TRUE]
  /\ ToolKept /\ UNCHANGED <<creation, tool>>

\* The session closes, or is opened by a runtime; it is never open twice.  A
\* start in progress goes with its process or ends in it.
Rehost(s, h) ==
  /\ h # host[s] /\ Fault
  /\ host' = [host EXCEPT ![s] = h]
  /\ UNCHANGED tool \/ (tool[s] # "idle" /\ ToolGoto(s, "idle"))
  /\ QueueKept
  /\ UNCHANGED <<handlerVars, flows, creation, registry, logVars, late>>

\* A registered session whose runtime is gone runs out.
ExpireSession(s) ==
  /\ registry[s].live /\ registry[s].owner # host[s]
  /\ registry' = [registry EXCEPT ![s].live = FALSE]
  /\ UNCHANGED <<queueVars, handlerVars, flows, creation, tool, host, logVars, late>>

----------------------------------------------------------------------------
(* Leases and time.                                                         *)

InUse(s) == \/ tool[s] # "idle" /\ creation[s].holder = s
            \/ \E c \in Runtimes : /\ creation[s].holder = c /\ job[c].session = s
                                   /\ at[c] \in {"recheck", "active", "renew", "save", "release", "giveup"}

\* The creation lease runs out: its creator is gone, or sleeps.
ExpireCreation(s) ==
  /\ creation[s].live
  /\ \/ ~InUse(s) /\ UNCHANGED <<faults, late>>
     \/ /\ InUse(s) /\ Fault
        /\ late' = (late \/ (tool[s] = "save" /\ creation[s].holder = s)
                         \/ \E c \in Runtimes : at[c] = "save" /\ creation[s].holder = c)
  /\ creation' = [creation EXCEPT ![s].live = FALSE]
  /\ QueueKept
  /\ UNCHANGED <<handlerVars, flows, tool, sessionVars, logVars>>

\* As in BridgeQueue.
QueueStep ==
  /\ UNCHANGED <<handlerVars, flows, creation, tool, sessionVars, logVars, late>>
  /\ \/ \E c \in Runtimes : Q!HeartbeatError(c) \/ \E r \in Requests : Q!Heartbeat(c, r)
     \/ \E r \in Requests : Q!Expire(r) \/ Q!Stall(r) \/ Q!RetryDue(r)
     \/ Q!RecoverOrphans

----------------------------------------------------------------------------
HandlerStep(c) ==
  \/ Resolve(c) \/ Lookup(c) \/ Acquire(c) \/ Recheck(c) \/ CheckActive(c) \/ Renew(c) \/ Save(c)
  \/ Release(c) \/ Relay(c) \/ Commit(c) \/ Return(c)
  \/ \E r \in Requests : Acknowledge(c, r) \/ Park(c, r)

HandlerFault(c) == Crash(c) \/ \E r \in Requests : StoreError(c, r) \/ Throw(c, r)

ToolStep(s) == ToolCheck(s) \/ ToolRenew(s) \/ ToolSave(s) \/ ToolRelease(s)

Next ==
  \/ \E r \in Requests : Enqueue(r)
  \/ \E c \in Runtimes : \/ \E r \in Requests : ClaimPlan(c, r)
                         \/ HandlerStep(c) \/ HandlerFault(c) \/ Refresh(c)
  \/ \E s \in Sessions : \/ ToolAcquire(s) \/ ToolStep(s) \/ ExpireSession(s) \/ ExpireCreation(s)
                         \/ \E h \in Runtimes \cup {NoOne} : Rehost(s, h)
  \/ \E i \in Ids : Cancel(i) \/ Complete(i) \/ GoQuiet(i)
  \/ QueueStep

Spec == Init /\ [][Next]_vars

\* Pumps and handlers run, tools end, heartbeats refresh, time passes.
Fairness ==
  /\ \A c \in Runtimes : /\ WF_vars(\E r \in Requests : ClaimPlan(c, r))
                         /\ WF_vars(HandlerStep(c))
                         /\ WF_vars(Refresh(c))
  /\ \A s \in Sessions : WF_vars(ToolStep(s)) /\ WF_vars(ExpireSession(s)) /\ WF_vars(ExpireCreation(s) /\ UNCHANGED faults)
  /\ WF_vars(QueueStep /\ \E r \in Requests : Q!Expire(r))
  /\ WF_vars(QueueStep /\ \E r \in Requests : Q!RetryDue(r))

LiveSpec == Spec /\ Fairness

----------------------------------------------------------------------------
(* Properties.                                                              *)

\* Types; a handler's step agrees with its claim, the creation lease names a
\* creator of that session, and just the dispatched workflows await a delivery.
TypeOK ==
  /\ Q!TypeOK
  /\ at \in [Runtimes -> HandlerSteps]
  /\ \A c \in Runtimes : at[c] = "idle" <=> Q!Idle(c)
  /\ job \in [Runtimes -> [session : Sessions \cup {NoOne}, id : Ids \cup {NoOne}]]
  /\ flows \in [Ids -> Flow]
  /\ \A i \in Ids : Made(i) => (flows[i].delivery = "none" <=> i \in Started)
  /\ creation \in [Sessions -> [holder : Runtimes \cup Sessions \cup {NoOne}, live : BOOLEAN]]
  /\ \A s \in Sessions : creation[s].holder \in Sessions => creation[s].holder = s
  /\ tool \in [Sessions -> ToolSteps]
  /\ host \in [Sessions -> Runtimes \cup {NoOne}]
  /\ registry \in [Sessions -> [owner : Runtimes \cup {NoOne}, live : BOOLEAN]]
  /\ wakes \in [Sessions -> [Requests -> 0 .. 2]]
  /\ receipt \in [Requests -> {"none", "delivered", "failed"}]
  /\ late \in BOOLEAN

\* A dispatched request yields exactly one workflow, through every replay,
\* takeover and crash of its handlers, unless a creator slept past its lease
\* between its last renewal and its save.  For a plan addressed to a session:
\* for a directory the lease may be of another session, and it does not hold.
OneWorkflowPerRequest ==
  ~late => \A r \in Requests : Cardinality({i \in Dispatched(r) : Made(i)}) <= 1

\* A session never has two active workflows, whoever created them (same proviso).
OneActivePerSession == ~late => \A s \in Sessions : Cardinality(ActiveIn(s)) <= 1

\* A session gets the message of a plan at most once, however often its request
\* is replayed, retried and taken over.
PlanRelayedOnce == \A s \in Sessions, r \in Requests : wakes[s][r] <= 1

\* What is marked or receipted as delivered was sent to a session, whatever
\* crash, lost claim or failing store came between relay, marker and receipt.
DeliveredWasRelayed ==
  /\ \A r \in Requests, i \in Ids : i \in Dispatched(r) /\ flows[i].delivery = "delivered" =>
       \E s \in Sessions : wakes[s][r] > 0
  /\ \A r \in Requests : receipt[r] = "delivered" => \E s \in Sessions : wakes[s][r] > 0

\* An enqueued plan is settled, by a message in a session or by a receipt or a
\* dead letter that says why not, unless the sessions it may go to are closed:
\* neither an ambiguous directory, nor a busy session, nor a lease left behind
\* by a crash keeps it in the queue.
Reachable(r) == \E s \in Sessions : Target[r] \in {s, Cwd} /\ host[s] # NoOne
EveryPlanSettled ==
  \A r \in Requests : rows[r].status # "absent" ~>
    rows[r].status \in {"done", "dead-letter"} \/ ~Reachable(r)

\* Said by workflow.ts:1275: the workflow is bound to the exact session that
\* will execute it, so no other session gets its plan.
PlanGoesToItsSession ==
  \A r \in Requests, s \in Sessions :
    wakes[s][r] > 0 => \E i \in Dispatched(r) : flows[i].session = s

\* Said by store.ts:236 and bridge-runtime.ts:246: only a workflow whose session
\* has disappeared is abandoned.
AbandonedWasGone ==
  [][\A i \in Ids : flows'[i].phase = "abandoned" /\ flows[i].phase # "abandoned"
        => host[flows[i].session] = NoOne]_vars

\* One workflow for a request and for a session.
OneWorkflow == TypeOK /\ OneWorkflowPerRequest /\ OneActivePerSession

\* One message for a plan, and no marker or receipt that claims one that was not.
OneTrueDelivery == PlanRelayedOnce /\ DeliveredWasRelayed
=============================================================================
