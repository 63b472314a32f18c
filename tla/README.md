# Formal model of dsh-codex-workflow

TLA+ modules, TLC configurations and TLAPS proofs for the plugin in `src/src`
(TypeScript).  Paths below are relative to `src/src` unless they start with
`README` or `docs`.

## The system

The plugin lets a Codex thread and a DSH session work on one task.  In the
*Codex-led* mode a CLI process (`bridge-cli.ts dispatch`) puts a plan into a
durable queue, a DSH runtime that hosts the addressed session creates a
workflow and wakes the session, the session works and calls
`codex_workflow_submit`, a background Reviewer judges the result, and its
verdict travels back through the same queue to the session.  In the *DSH-led*
mode the session's tools (`start`, `continue`, `resume`, `review`, `decide`,
`cancel`) drive a Planner and a Reviewer in the App Server.

Several DSH processes and CLI processes share one SQLite file (`coord.sqlite`,
every statement group in `BEGIN IMMEDIATE`).  Inside a process everything is
single-threaded JavaScript: code between two `await`s is atomic, and everything
else interleaves.  This is the granularity of the models here, with one exception:
`PlannerRun` merges store calls that follow one another into one step.  The store is
synchronous SQLite, so the `await`s between them are microtasks only.

### Inventory

| Component | State it keeps | Operations | Talks to | What is hard | What makes it correct |
|---|---|---|---|---|---|
| Bridge queue (`queue-repository.ts`, `bridge-store.ts`, pump of `bridge-runtime.ts`) | one row per request: status, command, attempts, claim epoch, owner, expiry, receipt | enqueue, claim, renew, ack, retry, dead-letter, quarantine, orphan recovery, requeue, import, prune | every process | leases that expire under their holder, crashes between claim and outcome | a settled request stays settled; only the holder of the latest claim settles; retries are budgeted; everything is settled in the end |
| Verdict delivery (`handleVerdict`, `applyExternalVerdict`, `assertVerdictStillValid`, `commitVerdictDelivery`) | the record's applied-verdict fields, the session log | apply, verify, void, relay, mark delivered, acknowledge | queue, store, DSH session | crash after the relay, workspace edits, cancel, resubmission, two verdicts for one submission, session moves | wake once; tell the truth; never for another submission; never after cancel |
| Background submission (`submission-execution.ts`, sweep of `workflow.ts`) | submission id, state, fence and staged verdict in the record; a lease per submission; consumers and completed results in memory | submit, run, retry, stage, enqueue, mark received, fail, notify, sweep, claim | store, leases, queue, Reviewer callback | takeover by another runtime, in-memory state that dies, three-phase hand-over | review once, mint once, never lose a staged verdict, always end, always report a failure |
| Workflow creation and dispatch delivery (`startExternalPlan`, `handleDispatch`) | creation lease per session, the new record, its delivery state | create, replay, relay, acknowledge, retry | queue, leases, session | replay after a crash, two processes creating at once | one workflow per request, one active workflow per session |
| Notice delivery (`handleSubmissionNotice`) | the notice's state | relay, commit, acknowledge | queue, session | replay, superseded notices | each failure is told once |
| Workflow phases and tools (`workflow.ts`, `tools.ts`, `lifecycle-execution.ts`) | phase, review cycles, decision | decide, cancel, resume, stop | store | decisions on stale reads | legal phase changes only; limits on cycles |
| Workflow store (`store.ts`, `workflow-repository.ts`) | record JSON and revision | save, update (compare-and-set), list, abandon | SQLite | lost updates, double rollback | an update applies to the latest record or not at all |
| Leases, live sessions (`coordination-repositories.ts`) | owner, epoch, expiry | acquire, renew, release, refresh | all | renewal after expiry | epochs never repeat; one owner |
| Foreground review (`review-execution.ts`, `workflow-review-admission.ts`) | phase, cycles and retry state in the record; a lease; checkpoints, waiting runs and unconfirmed private turns in memory | review, continue, resume, clean up | store, leases, App Server | a run that failed half way, another manager on the same record, turns nobody could confirm ended | one turn at a time; a waiting record has its run; a cycle is spent on the evidence that was reviewed |
| Planner (`planner-execution.ts`) | phase, questions and plan in the record; checkpoint, waiting run and parked clarification in memory | start, continue, resume | store, App Server | a cancel or an abort at any await; answers claimed before a failure | one turn on the thread; a plan belongs to the last answers; a cancel leaves no turn behind; every call ends |
| App Server client (`app-server.ts`) | the child, its flights and retirements, lost processes; turns, receipts, pending inputs, forks | start, begin and end a round, stop; start a turn, wait, interrupt, clean up a receipt | child process | a lost process whose tree lives on, starts that meet an idle shutdown or a stop; replies that come late, broken or never | one backend; nothing after a stop; a turn has one writer and an owner; no wake-up is missed |
| App Server callback (`app-server-callback.ts`) | shared operations, retained Reviewers, latches | send, adopt, cancel, close, stop | App Server, consumers | a run shared by consumers one after the other, cancels between the steps of a start | a turn that runs is held; a hand-over keeps the review; every send ends |
| CLI callback and audit (`codex-callback.ts`, `codex-cli-audit.ts`) | child processes, attempts | send, reconcile, cancel, stop | child process | kill against exit | bounded retries |
| Transient retry, review authority, usage accounting | none or a pure merge | classify, compare, merge | callers | boundaries | classification and merge laws |
| Terminal cleanup, relay guard, observation | cleanup leases, progress | mark, confirm, abandon | store, processes | process identity | nothing runs on behind a terminal workflow |
| Evidence, child sessions, desktop opener, client view, texts, wiring | none that decides | I/O | | | |

`PROJECT.json` lists each component with what is modelled of it, and under
`hazards` the lines where each of these difficulties bites.

## The modules

| Module | What it is |
|---|---|
| `FencedQueue` | the abstract queue: a request waits, is held, is done or dead, and only its holder settles it |
| `BridgeQueue` | the SQLite queue with epochs, expiry, recovery, operators, and the pump that claims |
| `BridgeQueueProofs` | theorems about `BridgeQueue` for all constants, and the proof that it implements `FencedQueue` |
| `VerdictDeliveryProofs`, `DispatchDeliveryProofs`, `SubmissionProofs` | theorems about the module of that name: its inductive invariant and the properties its runs check |
| `ForegroundReviewProofs`, `PlannerRunProofs`, `AppServerProcessProofs` | the same for the foreground review, the Planner and the App Server's process |
| `AppServerProofs` | the same for `AppServerTurns`, and for `AppServerCallback`, whose names are apart from those of the turns |
| `VerdictDelivery` | the handler of a verdict step by step, the record's verdict transitions, the session log; instantiates `BridgeQueue` for the queue part |
| `DispatchDelivery` | the handler of a dispatched plan step by step, the creation of its workflow under the creation lease, the session's own start, the registry of live sessions and the recovery of abandoned workflows; instantiates `BridgeQueue` |
| `Submission` | submit, the run of a background review, the recovery sweep, leases, processes |
| `ForegroundReview` | a review of the DSH-led mode: admission, the run turn by turn, waiting runs, resume, terminal cleanup, several managers |
| `PlannerRun` | planning in the DSH-led mode: start, continue, resume, clarifications, completion, waiting runs |
| `AppServerProcess` | the App Server process behind one client: shared start, loss, idle shutdown, cleanup, stop |
| `AppServerTurns` | the turns of one connection: starts and their receipts, notifications, broken frames, waits, interrupts |
| `AppServerCallback` | the background Reviewer of one submission, shared by the consumers of its leases |
| `MC...` | model values, small sets and symmetry for TLC, one for each module that is run |

How they compose: `VerdictDelivery` and `DispatchDelivery` instantiate `BridgeQueue`.
`Submission` sees the callback as what it returns and retains; `AppServerCallback` is
that callback in detail, and sees the client as a thread that is available or not and
a turn that runs or not.  `AppServerTurns` is that client for one connection and
`AppServerProcess` is what makes and loses connections.  `ForegroundReview` and
`PlannerRun` stand on the same client.

### FencedQueue and BridgeQueue

`rows[r]` is the queue row; time is reduced to two flags, `live`
(`claim_until > now`) and `due` (`next_attempt_at <= now`), which actions of the
environment flip.  `claim[c]` is the copy of the row a handler holds (the wrapped
claim of `bridge-store.ts`) and `lost[c]` is what its `isLost()` answers.
Each SQL statement group is one action with its `WHERE` clause as guard:
`Fence` is `status = 'processing' AND claim_epoch = ? AND claim_owner = ?`.
`Candidates` keeps the order of the query: due retries, expired claims, inbox.
What a handler decides is arbitrary here.  `attempts` saturates one above the
limit, since it is only compared with it.

The refinement maps a status to a stage, the owner of a processing row to the
holder, and the claim in hand to what a runtime works on: a handler that lost its
claim may still call any statement, and all of them are stutters.

### VerdictDelivery

One action per piece of `handleVerdict` between two awaits: collect evidence,
apply (a transaction), first check, void, second check, reload, relay, commit,
acknowledge; with the exits that retry, acknowledge as cancelled, duplicate or
unknown, or leave by an exception to the pump, which dead-letters.  The session
log is `wakes` and `said`; a relay looks the deterministic message id up in it.
Around the handler act: a new submission and its staged verdict, a verdict sent
by hand for the same submission, cancel, decide (its read and its transaction are
two steps), workspace edits, the session moving or closing, crashes, stalls,
failing calls.  A cancelled record suppresses every `store.update` that does
not say `ignoreCancelled`.  A verdict without a submission id is left out.

### DispatchDelivery

`at[c]` walks through `handleDispatch` and, inside it, `startExternalPlan`: find the
target, look the request up, take the creation lease of the session, look again,
test for an active workflow, renew, save, release, relay, commit, acknowledge; with
the exits that park, refuse an ambiguous directory, or throw to the pump.  `tool[s]`
walks through the start of a workflow by the session itself (`startInner` and the
twin in `review_only`) under the same lease.  `registry` is `live_sessions` and
`host` the truth it is late about; a plan for a session is routed by `host`
(`this.agents.get`), one for a directory by `registry`.  `Refresh` is the forced
refresh of the session heartbeat: a runtime's rows, then `abandonOrphaned`.
`flows[i].quiet` says that record `i` was not written for two leases.  A request has
room for two workflows, so that a second one can be seen.

Abstractions: all sessions work in one directory, so the refusal of a session in
another one (an exit like that of an ambiguous directory) is left out; a closed
session refuses the followup; what happens inside a workflow is an end (`Complete`)
or a cancel at any moment; submissions, which exempt a workflow from the recovery, are
not in this module, so what `Abandoned` says is about workflows without one.
`ClaimPlan` chooses the session that owns an ambiguous directory arbitrarily but
always the same, as the order of the ids does.

### Submission

`rec` holds the fields of the record that the run and the sweep read; `lease[s]`
is the row `submission:<workflow>:<s>`; `mem[c]` is what dies with a process
(registered and retired consumers, retained threads, the completed result, the
`recovering` marks, the retained threads whose App Server has exited); `run[c]` are the locals of the run in progress.  Each step is
the code between two awaits of `run` in `submission-execution.ts`, of
`submitInternal`, of `releaseSubmissionFence` or of `runRecovery`.  `Owns` is the
test that `updateCurrent` makes inside its transaction; `Update` is a write
through it.  Inside the `try` of an attempt (`submission-execution.ts:211-349`) a refused
write, or a workspace that changed under a completed result, makes the attempt busy
first (`Reuse`, `Call`, `Retain`); the next write then ends the run if it is no longer the
owner.  `Retain` puts the completed result in memory before it asks for the lease row.

Abstractions: a runtime runs one submission at a time and does not sweep the one
it is running; backoff is a delay of any length; the epoch of a new lease is any
epoch nobody remembers (they are only compared for equality); the alignment of a
review is a choice; the App Server callback is reduced to what it returns and
what it retains.  Left out: `newReviewRound`, the migration of records of an old
version, the two branches that fail a record for an unreadable staged command or
a missing request, and a callback that does not own consumers.

### AppServerProcess

A generation `g` is one spawned launcher (`os[g]`) with the processes below it
(`tree`).  `child`, `flight`, `retirement`, `evidence` and `lost` are the fields of the
client; `census[g]` is what the client has learnt of the tree, and `unknown` stands for
a snapshot that is partial or failed.  `CallerStep` is the loop of `start()`: wait for a
retirement, clean up the lost, join or begin a flight, look at the child.
`FlightStep` is `startProcess` with its handshake and its census, `IdleStep`
`doIdleShutdown`, `LostStep` `cleanupLostProcesses`, `StopStep` `doStop`; `Break` and
`Exit` come from outside.  A caller that is a round pins the process.

Continuations of settled promises run before the next event of the outside world;
`Quiet` in the guards of the environment says so.  A "tree" is the captured instances,
not processes that escaped the capture.  The code fails closed and so does the model:
an exit during the snapshot of an idle shutdown, or before the census, leaves a
retirement of unknown ownership that refuses all later starts.

### AppServerTurns

`turn[t]` has two sides: what the server does (`srv`, and `due`, the messages it has
written) and what the client knows (`rpc`, `reply`, `reg`, `done`, `input`, `fail`).  The
messages of a turn are read in any order.  `pc[c]` is where the operation of a caller
is: its request is out, registered, waiting, interrupting, asked, or kept as a receipt
because the reply was not seen.  `Frame(t, h)` is a broken frame of turn `t` of which
the hint `h` is left (thread id, turn id, both or neither); it fails a registered turn or
is held for the replies still out, as `onLine` and `registerTurn` do.  Left out: private
forks, detached reviews (the only caller asks for inline ones,
`review-execution.ts:524`) and `releaseThreadForExternal`.

### ForegroundReview

`rec` is the record, `lease` the row `review:<workflow>`, `guard` the row
`terminal-cleanup:<session>:<workflow>`; `flight[m]`, `recov[m]` and `aux[m]` are the run
in progress, the waiting run and the unconfirmed private turns in the memory of manager
`m`, `pins[m]` its rounds at the App Server, `live` the turns that may run.  A run goes
`Acquire`, `Prepare`, `ConfirmOld`, `Claim`, then evidence, a stage and its turn until it has a verdict
(`Evidence`, `Create`, `StartTurn`, `TurnEnds`, `ConfirmStage`, `RetryTurn`), then the second
scan and the acceptance (`Final`, `Commit`), with the exits of the catch
(`CatchRejected`, `CatchWait`, `CatchFails`) and the `finally`.  `Resume` takes a waiting
run up where its checkpoint says; a terminated run is only cleaned up (`FinishCleanup`,
`Sweep`).  A write of the run goes through the admission, which asks for the lease in the
transaction (`Able`).

Abstractions: the private turns of one reconciliation are one turn; a decision is two
steps; a manager is stopped only while the others are up, and the workspace is
edited only while a review may still run.  Left out: receipts of starts whose reply is
missing, the CLI transport, the Codex-led branch, the heartbeats of progress.
History variables: `taken` marks a manager whose waiting run was replaced by
another manager's round or that gave up its run after losing the lease; `orphans`
counts the rounds left open by such runs; `autos` counts automatic continuations.

What the model makes visible and no property forbids: a crash in the middle of a
review leaves the phase `reviewing` until the workflow is cancelled; losing the
lease while claiming a waiting run drops the run; a private turn confirmed by a resume
after its terminal cleanup goes on refusing reviews until a cancel or a stop; an abort
during a terminal cleanup leaves a waiting record whose guard is confirmed.

### PlannerRun

One manager, since a record that outlives its manager cannot be continued.
`flight` is the call (`start`, `continue`, `resume`), `cp` the checkpoint, `recov` the
waiting run, `input` the parked clarification, `active` the registered turn that a cancel
interrupts.  Store operations with no other await between them are one step; a request to
the App Server and the wait for a turn separate two steps.  `Accept` is
`acceptPlannerOutcome`: conversion, completion, corrected conversion, and the
commit.  An answered clarification needs no interrupt (`app-server.ts:1040`).
What the merge hides: a stop between the commit of the questions and `finishOrPark`, whose
`retained` result is dropped (`planner-execution.ts:683-686`).
`missed` is a history variable: a turn was left that nothing in the process could
interrupt.  It covers a completion turn that asks while its caller is aborted
(`workflow.ts:3164`, although `planner-execution.ts:676` says otherwise), a clarification of
a completion turn claimed but not answered when the workflow is cancelled, and
interrupts that could not be confirmed.

Also visible: a `waitForContinuation` that throws inside the catch leaves
`planning` without a run; a store failure after answers were claimed loses the
clarification; a cancel in another process never interrupts the turn of this one.

### AppServerCallback

`run` are the locals of the shared run, `kept` the retained Reviewer with `intr` and
`start` (interruption, start not confirmed) and the `intent` of a cleanup, `sends[e]` the
promise of the send of lease `e`, `current` and `closed` the registry of
`submission-review-consumer.ts`, `latch` the cancel and stop latches.  The path is the
one that `src/` uses: an ephemeral Reviewer and a consumer
(`submission-execution.ts:261`).  A visible turn that fails in the loop of `run`, its refused start included, is continued
once in the same run; the wait for a resumed start is outside that loop
(`app-server-callback.ts:874`), so its failure goes to the catch (`ContinuesHere`).
`missed` marks a turn that a cancel gave up while its
former interruption was being confirmed again, and was not confirmed: `waitInThread` then
throws and `releaseOwned` unsubscribes, although the turn may run.

Also visible: a review with an invalid display, which by a comment is "never a
terminal submission failure", releases its Reviewer, so the next send asks for an
original Reviewer that is gone and the submission fails; a `cancelSubmission` without a
run leaves its latch, since only the `finally` of a run clears it; a process lost
between the end of a round and the test of the consumer leaves the retained record
pinned until a cancel or a stop.

## The runs

| Run | Bounds | Properties | What it shows |
|---|---|---|---|
| `queue` | 2 runtimes, 2 requests (plans and malformed rows), 1 fault, 1 operator step, fairness | `TypeOK`, `OneOwner`, `RowsAreStable`, `RetriesAreBudgeted`, `ImplementsFencedQueue`, `EverySettled` | a handle is current and two owners come only after an overtaken lease; done is final, identity and epochs stay; the retry budget; every step implements `FencedQueue`; every claimable request is settled although another waits before it |
| `verdict_faults` | 1 submission, 1 edit, a rival manual verdict, 2 faults of any kind | `OneTrueDelivery`, `PassWasVerified`, `CancelledIsTerminal` | one wake-up per submission, and delivered means relayed; a pass was verified; cancelled is terminal |
| `verdict_liveness` | 2 submissions, no edits, 1 fault that the handler retries, fairness | `VerdictOfCurrentSubmission`, `AppliedIsDelivered` | a handler of the first submission never acts for the second; an applied verdict is delivered or superseded |
| `submission` | 2 submissions, 2 attempts per round, 2 runtimes, 1 edit, 1 fault of any kind besides failing claims of the sweep | `OneVerdict`, `MovesForward` | reviewed once and minted once in each round; no step backwards; a successor's fence is not cleared |
| `submission_liveness` | 1 submission, 2 faults, one runtime may be closed for good, fairness | `VerdictSurvives`, `FailureIsReported`, `SubmissionEnds` | a submission ends and its failure is reported; a staged verdict survives |
| `dispatch_safety` | 1 plan for 1 session, 2 runtimes, 1 workflow of the session's own, 2 faults | `OneWorkflow`, `OneTrueDelivery` | one workflow per request and one active per session; one message, and delivered means relayed |
| `dispatch_liveness` | 1 plan for a directory, 2 sessions that open, close and move, 2 faults, fairness | `EveryPlanSettled` | the plan is settled while a session is open |
| `app_process` | 2 callers, one of them a round, 2 generations, 1 fault, fairness | `OneManagedBackend`, `StopIsFinal`, `RoundKeepsItsProcess`, `CallsSettle` | never two backends; a stop leaves nothing and nothing follows it; a round keeps its process; every start and stop ends |
| `app_turns` | 2 callers, 3 starts, 2 faults | `ReleasedIsOver`, `FailureIsItsOwn`, `NoMissedWakeup`, `TurnsAreOwned` | one writer per thread, and somebody answers for each turn; a broken frame fails its own turn; no wake-up is missed |
| `review` | 2 managers, 2 runs of the review, 1 edit, 1 fault | `OneReviewTurn`, `WaitingIsHeldOnce`, `OneAutomaticContinuation`, `AcceptedAsReviewed` | one turn at a time and none beside a terminated one; a waiting record has its run, and each open round one owner; one automatic continuation; a cycle is spent under the lease on evidence that did not change |
| `planner` | 2 answers, 2 continuations, 2 faults, fairness | `OnePlannerTurn`, `WaitingIsHeldOnce`, `BudgetsHold`, `CancelStopsTheTurn`, `PlanIsCurrent`, `CallsAndStopsEnd` | one turn on the thread; what waits is held; the budgets survive continuations and answers; a cancel leaves no turn; a plan answers the last answers; calls and stops end |
| `callback` | 3 leases of one submission, 2 faults, fairness | `TurnIsHeld`, `ReviewIsKept`, `CallsEnd` | a turn that may run is in somebody's hands and pinned; a hand-over keeps the review; sends and stops end |

A property that joins several statements about one subject, as `OneVerdict` or
`WaitingIsHeldOnce` do, is a conjunction of named parts, each with its own comment.

The bounds are the smallest at which each property can be broken by a plausible
error: two runtimes are needed for a takeover, two requests for one to block
the other, two submissions for a leak between rounds, two attempts for a retry
inside a round, two generations of a process for two backends, three starts for a
retry on a thread whose first start is still out, two runs of a review for a
continuation, two answers for a budget that is earned again, three leases for a
hand-over after a hand-over.  A verdict or notice in the queue takes a part of a
plan's steps (it has no retry budget), so `queue` has plans and malformed rows only.
For each property `PROJECT.json` names a changed definition under which the same
run finds a violation.

The liveness runs bound the faults, so they speak of what happens once faults
stop.

### Fairness

Weak fairness of a runtime's steps: a pump and a promise continuation run when the
event loop is free and a live process does not block it.  Strong fairness of
`Sweep` in `Submission`: every pump sweeps (`bridge-runtime.ts:303-305`), again and
again, while a lease comes and goes.  Weak fairness of the expiry of a lease and of
the backoff of a retry is the clock, and so is that of a registry row whose runtime
is gone; `Refresh` has weak fairness as a timer of its own (`bridge-runtime.ts:172`).

In `AppServerProcess` the steps of a flight, of an idle shutdown, of a cleanup and of a
stop are strongly fair, because `Quiet` takes them out again and again while callers'
continuations run: an event that is due stays in the queue of the event loop and is
delivered when the microtasks are done.  In `PlannerRun` and `AppServerCallback` the
steps of a call are weakly fair, and so is the end of a turn or its time-out: every
wait of the client has a timer (`app-server.ts:2043`); the sweep of a stopped manager is
one too.

Nothing is assumed of people: submit, edit, cancel, decide, answer, resume and the
operator's steps have no fairness, nor has any fault.  A session that has closed
need not open again.

Deadlock is not checked: with the requests, rounds and faults of an instance used
up, the system rests.

### What the passing runs leave out

`submission_liveness` has no failing store call in phases B and C (`note`, `receive`), nor
`claim`, and one submission; `verdict_liveness` has none of the `StoreFaults`.
In `dispatch_liveness` no session starts a workflow of its own, so no plan waits for a
busy session there; `DispatchBusy.cfg`, below, has one.
`dispatch_safety` has an addressed plan, because both properties about the workflow
of a request fail for a directory, as shown below; they also except a creator that
slept past its lease between its last renewal and its unfenced save (`late`), which
the code does not prevent (`workflow.ts:1326`).

### Configurations that find a disagreement

These are not among the runs of `PROJECT.json`.  Each checks one statement and TLC finds
a behaviour of the code that contradicts it; they are run with `tlc -config <cfg>` on the
`MC` module of the component.  Five contradict a comment of the code:

- `VerdictDeadLetter.cfg` (`AppliedNeverDeadLettered`): an error of the read before the relay
  (`bridge-runtime.ts:765`) is rethrown at `:796` and reaches the pump, which
  dead-letters the claim although the verdict is applied.  `bridge-runtime.ts:645-648`: "a
  transient followup failure or an offline session must keep the claim retrying with
  backoff forever — never a dead letter".
- `SubmissionStoreError.cfg` (`VerdictSurvives`): the write that notes an exhausted enqueue
  (`workflow.ts:1883`) is outside its try; when it fails the outer catch fails a submission
  whose verdict is staged (`submission-execution.ts:557`).  `workflow.ts:1703-1705`:
  "Transient enqueue failures keep the staged identity and retry — they never mark the
  submission failed".
- `DispatchAbandon.cfg` (`AbandonedWasGone`): each runtime passes only its own sessions to
  `abandonOrphaned` (`bridge-runtime.ts:249`, `store.ts:262-272`), so a second runtime cancels
  a quiet workflow of a session open in the first.  `bridge-runtime.ts:246-248`: "close old
  workflows whose owning DSH session has disappeared".
- `ForegroundReviewStuck.cfg` (`FailedIsRetryable`): `waitForContinuation` throws in the catch
  when the App Server of the thread is lost (`review-execution.ts:1324`), so the write that
  restores the phase is skipped; the process state becomes `failed` while the phase
  stays `reviewing`, from which no review is admitted (`workflow.ts:1435`).
  `review-execution.ts:958-961`: "returns the workflow to its RETRYABLE phase".
- `PlannerRunMarker.cfg` (`MarkerIsSettled`): a cancel between two turns of a start writes
  `awaitingStartReceipt`; `acceptPlannerOutcome` then returns the cancelled record without
  throwing (`workflow.ts:3090`), and the catch that clears the marker is not reached, so the
  cancelled workflow goes on counting as active (`store.ts:222`).
  `lifecycle-execution.ts:354`: "The producer still owns the unknown start/creation
  boundary".

The others:

- `VerdictVoidUnreported.cfg`: a verdict is voided between its relay and its delivery
  marker; the replay finds the message in the log and sends nothing, so the
  session is told the old outcome only (`bridge-runtime.ts:819`).
- `VerdictDecideRace.cfg`: a decision tested on an earlier read is written over a
  verdict voided in between (`workflow.ts:2176-2197`, `tools.ts:266`).
- `SubmissionFirstReview.cfg`: a round spent before a Reviewer could be created
  retires the consumer, and the next sweep fails the submission for want of an
  original Reviewer it never had (`submission-review-consumer.ts:115`), although
  `README.md:326` keeps "its ordinary first-review retry".
- `SubmissionLost.cfg`: the sweep of a runtime that does not have the completed
  result fails the submission while the runtime that has it waits for its backoff
  (`submission-execution.ts:184`, `README.md:382`).
- `SubmissionStaleClaim.cfg`: the claiming transaction does not test its lease and
  overwrites the stamp of the run that holds it now (`workflow.ts:1986`).
- `SubmissionLeak.cfg`: a failed claiming transaction leaves the `recovering` mark
  behind (`workflow.ts:1985`).
- `SubmissionForeign.cfg`: a completed result of a submission that another process
  gave up on ends every run of the next submission in this process
  (`submission-execution.ts:138`).
- `DispatchSession.cfg`: a replay of a plan for a directory finds the workflow of the
  first attempt and relays it to the session that lives in the directory now, not
  to the one the workflow is bound to (`bridge-runtime.ts:425`).
- `DispatchTwoWorkflows.cfg`: a handler that is taken over while the session of the
  directory changes creates a second workflow for the request, under the lease of
  the other session (`workflow.ts:1281` says exactly one).

### Further configurations that pass

- `VerdictRounds.cfg`: two submissions with an edit and a fault of any kind, safety only.
- `VerdictLivenessEdits.cfg`: one submission with an edit (so that verdicts are voided) and two
  faults, liveness.
- `SubmissionSafety.cfg`: one submission, three faults.
- `DispatchBusy.cfg`: `EveryPlanSettled` for a session that may be busy with a workflow it
  started itself; one fault instead of two, because the other bounds are those of
  `dispatch_liveness`.
- `ForegroundReviewLiveness.cfg`: one manager, two faults, weak fairness of a run's steps: every
  call of a review ends (`FlightEnds`).

## The proofs

`BridgeQueueProofs` proves, for any sets of requests, runtimes and commands and any
bounds satisfying the three assumptions of `BridgeQueue`:

- `TypeInvariant`: `TypeOK`, which contains the shape of the rows. It is inductive
  as it stands. One lemma states which shapes a step may give a row; every action
  is an instance of it.
- `HandleIsCurrentInvariant`: the epoch of a row never decreases and a claim takes
  a fresh one, so a handle with an older epoch cannot match.
- `ExclusiveInvariant`: exclusion is not inductive, because a row that nobody
  watches says nothing about the runtimes. The strengthening `HealthyHolds` says
  that a runtime that believes it holds a claim is the owner of a processing row
  with that epoch, unless the history flag `overtaken` is set; two owners of one
  row are one runtime.
- `DoneIsFinalTheorem`, `IdentityTheorem`: action properties from the type
  invariant, by cases on the actions.
- `OneOwnerInvariant`, `RowsAreStableTheorem`: the properties that the run `queue` checks,
  each the conjunction of two of the results above.
- `RetriesTheorem`: a failed dispatch is parked within the budget (a plan whose
  relay landed but could not be recorded is parked as a fault, without a budget, as
  the code does). The handler decides on the attempts it copied; the
  strengthening `CopyAgrees` says that the copy equals the row's count while the
  fence holds.

It also proves, under the same assumptions, that `BridgeQueue` implements
`FencedQueue` (`RefinementTheorem`). The map is `stages`, `holders` and
`workers`; one lemma per kind of statement says which abstract step it is, and
needs `TypeOK` for the shape of the rows: an outcome that passes the fence is
`Settle` by the holder, one that does not is `Drop`, the orphan recovery is `Revoke`
of all expired holders at once, heartbeats and the clock are stutters.

`VerdictDeliveryProofs`, under the bounds, `FaultsAssumption` and `NamesAssumption` (a
runtime, a request and the name "verdict" are not the value that stands for nobody),
proves `OneTrueDeliveryInvariant`, `VerdictOfCurrentSubmissionInvariant`,
`PassWasVerifiedHolds` and `CancelledIsTerminalHolds`.  "One wake-up for a submission"
is about two requests (the staged verdict and one by hand) and two runtimes, and is
lost as soon as nothing is known of a handler on its way to the relay.  `Inv` follows the
request: `Remembers` says what the record keeps of the verdict applied last, `Sents` that
a request in the log, or carried by a handler past its application, is the one
that was applied for its submission, `Told` that a receipt has its message, and
`Verified` that what a handler knows of the workspace is what the record was
applied against for as long as the review stands.  The proof corrected a property: a pass
is verified against the print of its *own* application, and a later round may have
applied another in the meantime; the run's bounds were too small to show the difference.
`QueueStaysFenced` composes the two: the queue as this delivery uses it implements
`FencedQueue`.  It does not follow from `RefinementTheorem`, which is about the steps of
`BridgeQueue`: here requests appear when a review ends, a handler ends in the middle of
its own steps, and a faulty call is charged outside the queue.

`DispatchDeliveryProofs` proves `OneActivePerSessionInvariant`, `OneTrueDeliveryInvariant`
and `OneWorkflowInvariant`.  The last is stated for plans that name their session
(`Addressed`): a plan that only names a directory may be given to two sessions, each
under a creation lease of its own, as described above, and `OneWorkflow` is then false.
`Inv` says what a creation lease is worth: as long as no creator slept past it (`late`),
a creator about to save still holds it, what it looked up under it (no workflow
of the plan, no active one of the session) is still so, and the two properties are those
two look-ups.  The exclusion of the queue is not used: the lease is enough.
`QueueStaysFenced` is the composition for this delivery, where the move of one session
changes the route of many requests in a step; `Inv` gives it the shape of the rows, and
each step of `Next` is an abstract step or leaves `rows` and `claim` alone.

`SubmissionProofs`, for any finite set of runtimes, proves `OneVerdictInvariant`,
`MovesForwardHolds` and `VerdictSurvivesInvariant`.  The last holds when no write fails
between the minting of the verdict and its reception (`Lossless`, which the cfg of
`submission_liveness` satisfies; with such a failure the code may fail a submission whose
verdict is staged: `SubmissionStoreError.cfg`).  `Inv` follows the chain that
keeps a review from being repeated: only the runtime whose lease row and whose stamp
on the record agree creates a Reviewer (`Threads`, `Mine`); once one was created,
a run that holds the lease, and whose stamp is on the record, needs that Reviewer, has it,
or has its result (`NoReview`).

`ForegroundReviewProofs`, for any managers and any limits of rounds, attempts, edits and
faults, under the three assumptions of `ForegroundReview` (the limits are numbers, a
round limit is not zero, and no manager is the value that stands for nobody), proves
`OneReviewTurnInvariant`, `WaitingIsHeldOnceInvariant`,
`OneAutomaticContinuationInvariant` and `AcceptedAsReviewedHolds`.  None is inductive: that
one turn runs at a time depends on what the lease is worth to a call that read the
record several awaits ago.  `Inv` is a conjunction of named parts:
- `Holding`: while a call holds the lease, the record is what it read, but for a cancel or
  a cleanup, and what it confirmed since (no turn may run, the guard is clear) is still so;
- `Within`: a call inside a run is about the current attempt, which only a cancel ends,
  even after its lease has expired, because a call without the lease cannot write and
  another one cannot claim a record in `reviewing`;
- `Answered`: a turn that may run is the one its call waits for or could not confirm,
  or belongs to the run the record waits for (`Unconfirmed`), or the workflow is at an end;
- `OneVisible` and `Guarded`: there is one such turn, and beside a terminated one nobody writes;
- `OneRun`, `Owned`: an attempt has one run, in one manager, and spends its
  continuation once;
- `Parked`, `Held`, `Rounds`: a record that waits names a run that some manager has,
  and each round of the App Server's use has one owner.

The proof corrected the history variable `taken`: a continuation that fails before its run
has begun gives its run up in more cases than the variable said, which a run with four
attempts then showed too (`OneHolder` and `WaitingIsResumable` speak of such a manager's
runs); the bounds of `ForegroundReview.cfg` are too small to meet it.

`PlannerRunProofs` proves `OnePlannerTurnInvariant`, `WaitingIsHeldOnceInvariant`,
`BudgetsHoldInvariant`, `CancelStopsTheTurnInvariant` and `PlanIsCurrentHolds`.  None is
inductive: each depends on who holds the run.  `Inv` says that a call, a waiting run or
a parked clarification holds it and never two of them (`Books`), which turn may
be open at each place of a call (`Lives`, `Actives`), which counters a place has
left (`Budget`), and what a cancelled workflow may still have open (`Cancels`).

`AppServerProcessProofs`, for any callers and any number of generations, proves
`OneManagedBackendInvariant`, `RoundKeepsItsProcessInvariant` and `StopIsFinalHolds`.
`Inv` says that a generation that may run is in somebody's books (`Kept`: the client's
field, the lost ones, the retirement, the trees of the final stop), that the books
exclude each other (`Retiring`), and what a caller of `start()` that has passed
a test may still rely on when it goes on (`Flights`, `Callings`, `Roundings`).

`AppServerProofs`, for any callers and any number of turns, proves
`TurnsAreOwnedInvariant`, `ReleasedIsOverInvariant`, `FailureIsItsOwnInvariant` and
`NoMissedWakeupInvariant`.  `Inv` relates three views of a turn that the code keeps in step
by hand: its record (`Shape`), where the operation of its caller stands (`Stands`),
and whether somebody still has to account for it (`Owed`).

Its last part is about `AppServerCallback` (the module extends both, and neither speaks of
the other's state), for any number of leases of the submission and of faults, and proves
`TurnIsHeldInvariant` and `ReviewIsKeptHolds`.  Neither is inductive: who answers for a turn
depends on what the run and the retained Reviewer each say of it.  `CallbackInv` is
- `Holds`: a turn that may run has its thread and its pinned round, it is the run's own
  or is confirmed by it, or is what the retained Reviewer was retained for, and the run
  is at no place from which it starts another.  Only a turn given up by a cancel while
  its interruption was being confirmed again is excepted (`missed`, as in the property);
- `Record`: the retained Reviewer awaits the receipt of a start, an interruption or a
  binding, not two of them that exclude each other, and a run that goes on beside
  it was made from it and has resumed its turn;
- `Place`: what each place of the run implies for the pin, the thread, the cancel and
  what is kept;
- `Reads`: a readable review that was accepted is in the run or in the retained
  Reviewer, which then ask for nothing but its conversion.

Each module also states its `Inv` as `InvInvariant`; its first conjunct is the type
invariant.  The proof has one lemma for each action; what several actions need (a write of
one handler leaves the others alone, a lease that expires, a turn that ends) is a lemma
of its own.  None of the proofs bounds a constant: the bounds of the cfgs are for TLC only.

Only model-checked are the properties under fairness (`EverySettled`, `AppliedIsDelivered`,
`SubmissionEnds`, `FailureIsReported`, `EveryPlanSettled`, `CallsSettle`,
`CallsAndStopsEnd`, `CallsEnd` and `FlightEnds`), because liveness is out of the prover's
reach.  Every other property that a run checks is a theorem.

## Plan

Done: the queue, the two deliveries on it, the background submission and its
callback, the foreground review, the Planner, the App Server's process and its turns.
Next, each with a type invariant, its hazards as properties, and a mutated
definition for each:

1. `NoticeDelivery`: `handleSubmissionNotice`, composed with the queue.
2. `Leases`: the lease table with a clock of ticks, as an abstract fenced lock that
   `Submission`, `DispatchDelivery` and `ForegroundReview` rely on.
3. `WorkflowStore`: the compare-and-set loop, implementing the atomic update the
   other modules take for granted (refinement).
4. `AppServerForks`: private forks, their creation receipts and their release.
5. `CliAudit`: attempts, cancellation, kills.
6. `UsageMerge` and the review authority: pure functions against reference definitions.

Each new module comes with its inductive invariant and its safety properties as theorems.

## What is not modelled

SQLite itself (a statement group is atomic and durable), the contents of messages,
prompts and reviews, hashing and collecting of evidence (a fingerprint is a
value that differs when the workspace does), the probing of processes (its outcome is a
choice), the user interface, argument parsing, logging; the delivery of notices, the
compare-and-set loop of the store, private forks of the App Server, the CLI audit and
the CLI callback.  The reasons are with each component in `PROJECT.json`.

## Running

    tlc -workers 4 -config BridgeQueue.cfg MCBridgeQueue
    tlapm BridgeQueueProofs.tla
    tlapm VerdictDeliveryProofs.tla
    tlapm DispatchDeliveryProofs.tla
    tlapm SubmissionProofs.tla
    tlapm ForegroundReviewProofs.tla
    tlapm PlannerRunProofs.tla
    tlapm AppServerProcessProofs.tla
    tlapm AppServerProofs.tla

A run takes from a second to about two minutes, a proof from one to a few minutes.
