----------------------------- MODULE Submission -----------------------------
(***************************************************************************)
(* The background review of a submission: submission-execution.ts with the *)
(* tool codex_workflow_submit and the recovery sweep of workflow.ts.       *)
(*                                                                         *)
(* Every runtime sweeps every workflow of the shared store, so a run that  *)
(* stops for any reason may be continued by another process.  What the     *)
(* record, the leases and the queue hold survives a crash; the consumer of *)
(* the Reviewer, its thread and the completed result live in one process.  *)
(*                                                                         *)
(* A run is a sequence of awaits; each step is the code between two.  A    *)
(* runtime runs at most one submission at a time and its sweep leaves its  *)
(* own running submission alone.  Backoff is a delay of any length, so a   *)
(* sweep may find a submission due at any moment.  newReviewRound is left  *)
(* out: it only lifts the guard of Admit.                                  *)
(***************************************************************************)
EXTENDS Naturals, FiniteSets

CONSTANTS Runtimes, NoOne,
          MaxSubs,     \* bound: submissions of the workflow
          MaxTries,    \* config.callbackMaxAttempts
          MaxEdits,    \* bound: changes of the workspace
          MaxFaults,   \* bound: what goes wrong
          FaultKinds   \* what may go wrong

ASSUME BoundsAssumption == {MaxSubs, MaxTries} \subseteq Nat \ {0} /\ {MaxEdits, MaxFaults} \subseteq Nat
ASSUME RuntimesAssumption == IsFiniteSet(Runtimes) /\ NoOne \notin Runtimes
\* The child session cannot be opened; the Reviewer is busy, or it, its process
\* or its retained thread fails for good;
\* the authority check breaks; a queue or store call of enqueueStagedVerdict, of
\* phase C or of the sweep's claim fails; a process stalls, dies, or is closed.
ASSUME FaultsAssumption ==
  FaultKinds \subseteq {"startup", "busy", "terminal", "authority", "enqueue", "note", "receive",
                       "claim", "stall", "crash", "close"}

VARIABLES rec,       \* the workflow record
          lease,     \* lease[s]: the row submission:<workflow>:<s>
          submitter, \* the holder of the row submit:<workflow>
          queued,    \* queued[s]: the verdict of s is in the bridge queue
          mem,       \* mem[c]: what runtime c keeps in memory between runs
          at,        \* at[c]: the next step of runtime c
          run,       \* run[c]: the local variables of its run
          past,      \* past[s]: what was done for s, whoever did it (history)
          workspace, edits, faults

leaseVars == <<lease, submitter>>
envVars == <<workspace, edits>>
vars == <<rec, leaseVars, queued, mem, at, run, past, envVars, faults>>

Subs == 1 .. MaxSubs
Prints == 0 .. MaxEdits
Epochs == 1 .. (Cardinality(Runtimes) + 3)

\* Mutant: a submission that was being sent is nobody's business.
RecoverableUnsent == {"queued", "retrying"}

Recoverable == {"queued", "sending", "retrying"}
Active == {"queued", "sending", "retrying", "verdict_ready", "received"}
States == Active \cup {"none", "delivered", "failed"}
Reasons == {"none", "error", "reviewer", "result"}
RunSteps == {"check", "verify", "send", "call", "thread", "retain", "reuse", "align", "conflict",
             "stage", "enqueue", "receive", "busy", "fail", "notify", "end", "release", "unfence"}
SubmitSteps == {"admit", "fenced", "startup"}
Steps == {"idle", "down", "claim"} \cup SubmitSteps \cup RunSteps

Record == [sub : 0 .. MaxSubs, phase : {"executing", "passed", "blocked", "cancelled"},
           state : States, tok : Runtimes \cup {NoOne}, ep : {0} \cup Epochs, sent : BOOLEAN,
           pending : BOOLEAN, origin : BOOLEAN, failures : 0 .. 2, reason : Reasons,
           notice : {"none", "prepared", "enqueued", "delivered"}, print : Prints]
Lease == [owner : Runtimes \cup {NoOne}, ep : {0} \cup Epochs, live : BOOLEAN]
Memory == [reg : SUBSET Subs, retired : SUBSET Subs, cont : SUBSET Subs,
           gone : SUBSET Subs, cp : 0 .. MaxSubs, leaked : SUBSET Subs]
Run == [sub : 0 .. MaxSubs, ep : {0} \cup Epochs, print : Prints, tries : 0 .. MaxTries, needs : BOOLEAN,
        own : BOOLEAN, lost : BOOLEAN, keep : BOOLEAN, why : Reasons]
Past == [created : BOOLEAN, reviewed : 0 .. 2, minted : 0 .. 2]

\* A process that has just started.
Fresh == [reg |-> {}, retired |-> {}, cont |-> {}, gone |-> {}, cp |-> 0, leaked |-> {}]
NoRun == [sub |-> 0, ep |-> 0, print |-> 0, tries |-> 0, needs |-> FALSE, own |-> FALSE,
          lost |-> FALSE, keep |-> FALSE, why |-> "none"]
Unheld == [owner |-> NoOne, ep |-> 0, live |-> FALSE]

Init ==
  /\ rec = [sub |-> 0, phase |-> "executing", state |-> "none", tok |-> NoOne, ep |-> 0,
            sent |-> FALSE, pending |-> FALSE, origin |-> FALSE, failures |-> 0,
            reason |-> "none", notice |-> "none", print |-> 0]
  /\ lease = [s \in Subs |-> Unheld]
  /\ submitter = NoOne
  /\ queued = [s \in Subs |-> FALSE]
  /\ mem = [c \in Runtimes |-> Fresh]
  /\ at = [c \in Runtimes |-> "idle"]
  /\ run = [c \in Runtimes |-> NoRun]
  /\ past = [s \in Subs |-> [created |-> FALSE, reviewed |-> 0, minted |-> 0]]
  /\ workspace = 0 /\ edits = 0 /\ faults = 0

----------------------------------------------------------------------------
(* The fence of every write, and the shapes of a step.                      *)

\* Something outside the plugin goes wrong (the bound on it).
Fault(kind) == kind \in FaultKinds /\ faults < MaxFaults /\ faults' = faults + 1

Goto(c, s) == at' = [at EXCEPT ![c] = s]
Held(c, s, e) == lease[s] = [owner |-> c, ep |-> e, live |-> TRUE]

\* isCurrent and the identity of the context, without the lease row.
Stamped(c) ==
  /\ rec.sub = run[c].sub /\ rec.state \in Active /\ rec.phase = "executing"
  /\ rec.tok = c /\ rec.ep = run[c].ep

\* updateCurrent: the record carries this run's fence and the lease row is ours.
Owns(c) == Stamped(c) /\ Held(c, run[c].sub, run[c].ep)

\* A write through updateCurrent: without ownership the run ends and writes nothing.
Update(c, new, s) ==
  \/ Owns(c) /\ rec' = new /\ Goto(c, s)
  \/ ~Owns(c) /\ rec' = rec /\ Goto(c, "end")

\* A step that only moves on, or learns why the run fails.
Move(c, s) == Goto(c, s) /\ UNCHANGED <<rec, leaseVars, queued, mem, run, past, envVars>>
FailWith(c, reason) == /\ Goto(c, "fail")
                       /\ run' = [run EXCEPT ![c].why = reason]
                       /\ UNCHANGED <<rec, leaseVars, queued, mem, past, envVars>>

Checkpoint(c) == mem[c].cp = run[c].sub

----------------------------------------------------------------------------
(* codex_workflow_submit.                                                   *)

\* A review that lost its Reviewer is not repeated on unchanged material.
NewRound(print) ==
  ~(rec.state = "failed" /\ rec.reason \in {"reviewer", "result"} /\ print = rec.print)

Submittable == rec.phase = "executing" /\ rec.state \notin Active /\ rec.sub < MaxSubs

\* Admission checks, then the evidence is collected.
Admit(c) ==
  /\ at[c] = "idle" /\ Submittable
  /\ NewRound(workspace)
  /\ Goto(c, "admit")
  /\ run' = [run EXCEPT ![c] = [NoRun EXCEPT !.sub = rec.sub, !.print = workspace]]
  /\ UNCHANGED <<rec, leaseVars, queued, mem, past, envVars, faults>>

\* The lease submit:<workflow>; refused while another process submits.
Fence(c) ==
  /\ at[c] = "admit"
  /\ \/ /\ submitter = NoOne
        /\ submitter' = c /\ Goto(c, "fenced") /\ UNCHANGED run
     \/ /\ submitter # NoOne
        /\ Goto(c, "idle") /\ run' = [run EXCEPT ![c] = NoRun] /\ UNCHANGED submitter
  /\ UNCHANGED <<rec, lease, queued, mem, past, envVars, faults>>

\* The record of a new submission.  reviewerThreadOrigin is not reset.
PreparedRecord(c, n) ==
  [rec EXCEPT !.sub = n, !.state = "queued", !.sent = FALSE, !.pending = FALSE,
              !.reason = "none", !.notice = "none", !.tok = c, !.ep = 1, !.print = run[c].print]

\* The lease of the new submission id, the preparing transaction, and the
\* release of the submit lease.
Prepare(c) ==
  /\ at[c] = "fenced"
  /\ \/ /\ Submittable /\ rec.sub = run[c].sub /\ NewRound(run[c].print)
        /\ LET n == rec.sub + 1 IN
             /\ rec' = PreparedRecord(c, n)
             /\ lease' = [lease EXCEPT ![n] = [owner |-> c, ep |-> 1, live |-> TRUE]]
             /\ run' = [run EXCEPT ![c] = [NoRun EXCEPT !.sub = n, !.ep = 1]]
        /\ Goto(c, "startup")
     \/ /\ ~(Submittable /\ rec.sub = run[c].sub /\ NewRound(run[c].print))
        /\ Goto(c, "idle") /\ run' = [run EXCEPT ![c] = NoRun]
        /\ UNCHANGED <<rec, lease>>
  /\ submitter' = IF submitter = c THEN NoOne ELSE submitter
  /\ UNCHANGED <<queued, mem, past, envVars, faults>>

\* The child session is created and the run starts, if the submission is
\* still this one; a refused start gives the lease back.
Startup(c) ==
  /\ at[c] = "startup"
  /\ Move(c, IF Owns(c) /\ rec.state = "queued" THEN "check" ELSE "release")
  /\ UNCHANGED faults

StartupFails(c) == at[c] = "startup" /\ Fault("startup") /\ Move(c, "release")

----------------------------------------------------------------------------
(* The run of one submission.                                               *)

\* Checks before the first attempt.  A completed result or a Reviewer that
\* existed must still be here; otherwise the review is not repeated.
Refusal(c) ==
  LET s == run[c].sub IN
  IF rec.pending /\ mem[c].cp = 0 THEN "result"
  ELSE IF mem[c].cp # 0 /\ workspace # rec.print THEN "error"
  ELSE IF (run[c].needs /\ s \notin mem[c].reg) \/ s \in mem[c].retired THEN "reviewer"
  ELSE "none"

\* A checkpoint of another submission ends the run; nothing clears it.
Begin(c) ==
  LET s == run[c].sub
      foreign == mem[c].cp \notin {0, s} \/ (Checkpoint(c) /\ ~Owns(c)) IN
  /\ at[c] = "check"
  /\ \/ foreign /\ Move(c, "end")
     \/ ~foreign /\ Refusal(c) # "none" /\ FailWith(c, Refusal(c))
     \/ /\ ~foreign /\ Refusal(c) = "none"
        /\ Goto(c, "verify")
        /\ run' = [run EXCEPT ![c].own = s \notin mem[c].reg]
        /\ mem' = [mem EXCEPT ![c].reg = @ \cup {s}]
        /\ UNCHANGED <<rec, leaseVars, queued, past, envVars>>
  /\ UNCHANGED faults

\* The head of an attempt: without a completed result the workspace must be
\* the submitted one.
Verify(c) ==
  /\ at[c] = "verify"
  /\ \/ run[c].lost /\ Move(c, "end")
     \/ ~run[c].lost /\ (Checkpoint(c) \/ (workspace = rec.print /\ Owns(c))) /\ Move(c, "send")
     \/ ~run[c].lost /\ ~Checkpoint(c) /\ workspace # rec.print /\ FailWith(c, "error")
     \/ ~run[c].lost /\ ~Checkpoint(c) /\ workspace = rec.print /\ ~Owns(c) /\ Move(c, "end")
  /\ UNCHANGED faults

Send(c) ==
  /\ at[c] = "send"
  /\ Update(c, [rec EXCEPT !.state = "sending", !.sent = TRUE], IF Checkpoint(c) THEN "reuse" ELSE "call")
  /\ run' = [run EXCEPT ![c].tries = @ + 1]
  /\ UNCHANGED <<leaseVars, queued, mem, past, envVars, faults>>

\* consumer.adopt: this run takes over what an earlier run registered.
Adopted(c) == [run EXCEPT ![c].own = TRUE]
Registered(c) == [mem EXCEPT ![c].reg = @ \cup {run[c].sub}]

\* Another try when the workspace changed or the submission is no longer ours.
Reuse(c) ==
  /\ at[c] = "reuse"
  /\ \/ (workspace # rec.print \/ ~Owns(c)) /\ Move(c, "busy")
     \/ /\ workspace = rec.print /\ Owns(c)
        /\ Goto(c, "align") /\ run' = Adopted(c) /\ mem' = Registered(c)
        /\ UNCHANGED <<rec, leaseVars, queued, past, envVars>>
  /\ UNCHANGED faults

\* callback.send without the original Reviewer it requires, or with a retained
\* thread whose app server has exited.
Unavailable(c) ==
  LET s == run[c].sub IN s \in mem[c].gone \/ (run[c].needs /\ s \notin mem[c].cont)

CallRefused(c) ==
  /\ at[c] = "call"
  /\ Unavailable(c)
  /\ FailWith(c, "reviewer")
  /\ UNCHANGED faults

\* The retained thread is continued, or a Reviewer is created and onThread
\* records that it existed.
Call(c) ==
  LET s == run[c].sub IN
  /\ at[c] = "call"
  /\ ~Unavailable(c)
  /\ \/ ~Owns(c) /\ Move(c, "busy")
     \/ /\ Owns(c)
        /\ Goto(c, "thread")
        /\ run' = Adopted(c) /\ mem' = Registered(c)
        /\ rec' = IF s \in mem[c].cont THEN rec ELSE [rec EXCEPT !.origin = TRUE]
        /\ past' = [past EXCEPT ![s].created = TRUE]
        /\ UNCHANGED <<leaseVars, queued, envVars>>
  /\ UNCHANGED faults

\* No Reviewer could be created: busy until the retries are spent, or invalid.
CreateBusy(c) == /\ at[c] = "call" /\ ~Unavailable(c) /\ Owns(c) /\ run[c].sub \notin mem[c].cont
                 /\ Fault("busy") /\ Goto(c, "busy")
                 /\ run' = Adopted(c) /\ mem' = Registered(c)
                 /\ UNCHANGED <<rec, leaseVars, queued, past, envVars>>
CreateFails(c) == /\ at[c] = "call" /\ ~Unavailable(c) /\ run[c].sub \notin mem[c].cont
                  /\ Fault("terminal") /\ FailWith(c, "error")

\* The review completes; its thread is released.
Answer(c) ==
  LET s == run[c].sub IN
  /\ at[c] = "thread" /\ ~run[c].lost
  /\ Goto(c, "retain")
  /\ mem' = [mem EXCEPT ![c].cont = @ \ {s}]
  /\ past' = [past EXCEPT ![s].reviewed = IF @ < 2 THEN @ + 1 ELSE @]
  /\ UNCHANGED <<rec, leaseVars, queued, run, envVars, faults>>

\* A lost lease cancels the wait.
WaitCancelled(c) == at[c] = "thread" /\ run[c].lost /\ Move(c, "end") /\ UNCHANGED faults

\* Busy, overloaded or timed out: the thread is retained.
ThreadBusy(c) ==
  /\ at[c] = "thread" /\ ~run[c].lost /\ Fault("busy")
  /\ Goto(c, "busy")
  /\ mem' = [mem EXCEPT ![c].cont = @ \cup {run[c].sub}]
  /\ UNCHANGED <<rec, leaseVars, queued, run, past, envVars>>

\* No verdict, invalid thread or a dead process: terminal.
ThreadFails(c) == at[c] = "thread" /\ ~run[c].lost /\ Fault("terminal") /\ FailWith(c, "reviewer")

\* The completed result is kept in memory if the record still carries our fence;
\* the record then says so, unless the lease row is no longer ours.
Retain(c) ==
  /\ at[c] = "retain"
  /\ mem' = IF Stamped(c) THEN [mem EXCEPT ![c].cp = run[c].sub] ELSE mem
  /\ \/ Owns(c) /\ rec' = [rec EXCEPT !.pending = TRUE] /\ Goto(c, "align")
     \/ ~Owns(c) /\ UNCHANGED rec /\ Goto(c, "busy")
  /\ UNCHANGED <<leaseVars, queued, run, past, envVars, faults>>

\* The authority check: aligned, in conflict after one reconciliation (not
\* tried on a changed workspace), or failing itself.
Align(c) ==
  /\ at[c] = "align"
  /\ \/ Move(c, "stage")
     \/ Move(c, IF workspace = rec.print THEN "conflict" ELSE "busy")
  /\ UNCHANGED faults
AlignFails(c) == at[c] = "align" /\ Fault("authority") /\ Move(c, "busy")

\* An unreconciled conflict ends the submission, the second in a row the workflow.
ContractFailed(c) ==
  LET f == rec.failures + 1 IN
  /\ at[c] = "conflict"
  /\ Update(c, [rec EXCEPT !.failures = f, !.state = "failed", !.notice = "prepared",
                           !.phase = IF f >= 2 THEN "blocked" ELSE @], "notify")
  /\ UNCHANGED <<leaseVars, queued, mem, run, past, envVars, faults>>

\* Phase A: the verdict command is minted in the record.
Stage(c) ==
  /\ at[c] = "stage"
  /\ \/ workspace # rec.print /\ FailWith(c, "error")
     \/ /\ workspace = rec.print
        /\ Update(c, [rec EXCEPT !.state = "verdict_ready", !.pending = FALSE, !.failures = 0], "enqueue")
        /\ past' = IF Owns(c) THEN [past EXCEPT ![run[c].sub].minted = IF @ < 2 THEN @ + 1 ELSE @] ELSE past
        /\ UNCHANGED <<leaseVars, queued, mem, run, envVars>>
  /\ UNCHANGED faults

\* Phase B, on the durable queue.
Enqueue(c) ==
  /\ at[c] = "enqueue"
  /\ Goto(c, "receive")
  /\ queued' = [queued EXCEPT ![run[c].sub] = TRUE]
  /\ UNCHANGED <<rec, leaseVars, mem, run, past, envVars, faults>>

\* Mutant: exhaustion is treated as a failure of the submission.
FailOnExhaustion == "fail"

\* Mutant: exhaustion is one more busy attempt.
RetryOnExhaustion == "busy"

\* Where a run goes that could not enqueue its verdict.
AfterExhaustion == "end"

\* Phase B exhausted: a note in the record, recovery enqueues later.
EnqueueExhausted(c) ==
  /\ at[c] = "enqueue" /\ Fault("enqueue")
  /\ Move(c, AfterExhaustion)

\* That note cannot be written: the error reaches the outer catch.
NoteFails(c) ==
  /\ at[c] = "enqueue" /\ Fault("note")
  /\ FailWith(c, "error")

\* Phase C.
Receive(c) ==
  /\ at[c] = "receive"
  /\ Update(c, [rec EXCEPT !.state = "received"], "end")
  /\ UNCHANGED <<leaseVars, queued, mem, run, past, envVars, faults>>

ReceiveFails(c) ==
  /\ at[c] = "receive" /\ Fault("receive")
  /\ FailWith(c, "error")

\* A busy attempt; after the last of the round the run ends, recoverable.
Busy(c) ==
  LET over == run[c].tries >= MaxTries IN
  /\ at[c] = "busy"
  /\ Update(c, [rec EXCEPT !.state = "retrying", !.pending = Checkpoint(c)],
            IF over THEN "end" ELSE "verify")
  /\ run' = [run EXCEPT ![c].keep = Owns(c) /\ over]
  /\ UNCHANGED <<leaseVars, queued, mem, past, envVars, faults>>

\* Mutant: the failure is recorded without its notice.
SilentRecord(c) == [rec EXCEPT !.state = "failed", !.pending = FALSE, !.reason = run[c].why]

\* The outer catch: the submission fails and a notice is prepared with it.
FailedRecord(c) ==
  [rec EXCEPT !.state = "failed", !.pending = FALSE, !.reason = run[c].why,
              !.notice = IF @ = "none" THEN "prepared" ELSE @]

Fail(c) ==
  /\ at[c] = "fail"
  /\ Update(c, FailedRecord(c), "notify")
  /\ UNCHANGED <<leaseVars, queued, mem, run, past, envVars, faults>>

Notify(c) ==
  /\ at[c] = "notify"
  /\ Goto(c, "end")
  /\ rec' = IF rec.sub = run[c].sub /\ rec.notice = "prepared" THEN [rec EXCEPT !.notice = "enqueued"] ELSE rec
  /\ UNCHANGED <<leaseVars, queued, mem, run, past, envVars, faults>>

----------------------------------------------------------------------------
(* The end of a run.                                                        *)

\* What a waiting submission leaves in memory for the next round.
Retained(c) ==
  /\ run[c].keep /\ run[c].own /\ ~run[c].lost
  /\ run[c].sub \in mem[c].cont \/ Checkpoint(c)

\* Whose resources this run closes: its own, or an earlier run's it has
\* final authority over.
Closes(c) ==
  \/ run[c].own
  \/ /\ run[c].sub \in mem[c].reg /\ ~run[c].lost
     /\ rec.sub = run[c].sub /\ rec.tok = c /\ rec.ep = run[c].ep
     /\ Held(c, run[c].sub, run[c].ep)

\* A closed consumer never comes back in this process.
Without(m, s) == [m EXCEPT !.reg = @ \ {s}, !.retired = @ \cup {s}, !.cont = @ \ {s},
                           !.cp = IF @ = s THEN 0 ELSE @]
Closed(c) == [mem EXCEPT ![c] = Without(mem[c], run[c].sub)]

End(c) ==
  /\ at[c] = "end"
  /\ Goto(c, "release")
  /\ mem' = IF ~Retained(c) /\ Closes(c) THEN Closed(c) ELSE mem
  /\ UNCHANGED <<rec, leaseVars, queued, run, past, envVars, faults>>

\* The lease row goes back if it is still ours; the epoch stays.
Release(c) ==
  LET s == run[c].sub
      ours == lease[s].owner = c /\ lease[s].ep = run[c].ep IN
  /\ at[c] = "release"
  /\ \/ /\ ours
        /\ lease' = [lease EXCEPT ![s].owner = NoOne, ![s].live = FALSE]
        /\ Goto(c, "unfence") /\ UNCHANGED run
     \/ ~ours /\ Goto(c, "idle") /\ run' = [run EXCEPT ![c] = NoRun] /\ UNCHANGED lease
  /\ UNCHANGED <<rec, submitter, queued, mem, past, envVars, faults>>

\* Mutant: the cleanup looks at the submission id only.
SameSubmission(c) == rec.sub = run[c].sub

\* The fence in the record is cleared unless a successor has begun.
StillReleased(c) ==
  LET s == run[c].sub IN
  /\ lease[s].owner = NoOne /\ lease[s].ep = run[c].ep
  /\ rec.sub = s /\ rec.tok = c /\ rec.ep = run[c].ep

Unfence(c) ==
  /\ at[c] = "unfence"
  /\ rec' = IF StillReleased(c) THEN [rec EXCEPT !.tok = NoOne, !.ep = 0] ELSE rec
  /\ Goto(c, "idle") /\ run' = [run EXCEPT ![c] = NoRun]
  /\ UNCHANGED <<leaseVars, queued, mem, past, envVars, faults>>

----------------------------------------------------------------------------
(* The recovery sweep, run by every pump of every runtime.                  *)

\* acquireLease takes the next epoch.  Epochs are only compared for equality
\* here, so any epoch that nobody remembers stands for it.
Remembered(s) == {lease[s].ep, rec.ep} \cup {run[c].ep : c \in Runtimes}
NextEpoch(s) == CHOOSE e \in Epochs : e \notin Remembered(s)

\* The lease of a submission that nobody holds, or that has expired.
Sweep(c) ==
  LET s == rec.sub IN
  /\ at[c] = "idle" /\ rec.state \in Recoverable
  /\ s \notin mem[c].leaked /\ ~lease[s].live
  /\ lease' = [lease EXCEPT ![s] = [owner |-> c, ep |-> NextEpoch(s), live |-> TRUE]]
  /\ Goto(c, "claim")
  /\ run' = [run EXCEPT ![c] = [NoRun EXCEPT !.sub = s, !.ep = NextEpoch(s)]]
  /\ UNCHANGED <<rec, submitter, queued, mem, past, envVars, faults>>

\* The claiming transaction looks at the record again.
Claimable(c) == rec.sub = run[c].sub /\ rec.state \in Recoverable

\* Once a Reviewer was registered and something sent, only that Reviewer may go on.
NeedsOriginal == rec.sent /\ rec.origin

Claim(c) ==
  /\ at[c] = "claim"
  /\ \/ /\ Claimable(c)
        /\ rec' = [rec EXCEPT !.state = "sending", !.tok = c, !.ep = run[c].ep]
        /\ run' = [run EXCEPT ![c].needs = NeedsOriginal]
        /\ Goto(c, "check") /\ UNCHANGED lease
     \/ /\ ~Claimable(c)
        /\ lease' = IF lease[run[c].sub].owner = c /\ lease[run[c].sub].ep = run[c].ep
                    THEN [lease EXCEPT ![run[c].sub].owner = NoOne, ![run[c].sub].live = FALSE] ELSE lease
        /\ run' = [run EXCEPT ![c] = NoRun]
        /\ Goto(c, "idle") /\ UNCHANGED rec
  /\ UNCHANGED <<submitter, queued, mem, past, envVars, faults>>

\* The claiming transaction fails: the sweep ends with the lease and the
\* process's recovering mark left behind. The mark keeps it from happening to a
\* process twice, so it needs no bound.
ClaimFails(c) ==
  /\ at[c] = "claim" /\ "claim" \in FaultKinds
  /\ mem' = [mem EXCEPT ![c].leaked = @ \cup {run[c].sub}]
  /\ run' = [run EXCEPT ![c] = NoRun] /\ Goto(c, "idle")
  /\ UNCHANGED <<rec, leaseVars, queued, past, envVars, faults>>

\* A staged verdict is enqueued again, exactly as minted, without a lease.
RecoverEnqueue ==
  /\ rec.state = "verdict_ready" /\ ~queued[rec.sub]
  /\ queued' = [queued EXCEPT ![rec.sub] = TRUE]
  /\ UNCHANGED <<rec, leaseVars, mem, at, run, past, envVars, faults>>

RecoverReceive ==
  /\ rec.state = "verdict_ready" /\ queued[rec.sub]
  /\ rec' = [rec EXCEPT !.state = "received"]
  /\ UNCHANGED <<leaseVars, queued, mem, at, run, past, envVars, faults>>

\* A notice that is not delivered is enqueued again.
RecoverNotice ==
  /\ rec.notice = "prepared"
  /\ rec' = [rec EXCEPT !.notice = "enqueued"]
  /\ UNCHANGED <<leaseVars, queued, mem, at, run, past, envVars, faults>>

----------------------------------------------------------------------------
(* The bridge runtime, seen from here, and the session's tools.             *)

\* handleSubmissionNotice: the session hears of the failure.
DeliverNotice ==
  /\ rec.notice = "enqueued" /\ rec.phase # "cancelled"
  /\ rec' = [rec EXCEPT !.notice = "delivered"]
  /\ UNCHANGED <<leaseVars, queued, mem, at, run, past, envVars, faults>>

\* The queued verdict is applied and relayed (VerdictDelivery).
Applied ==
  /\ rec.state = "received" /\ rec.phase = "executing"
  /\ \E phase \in {"executing", "passed"} :
       rec' = [rec EXCEPT !.state = "delivered", !.phase = phase]
  /\ UNCHANGED <<leaseVars, queued, mem, at, run, past, envVars, faults>>

\* codex_workflow_cancel, called in runtime c.
Cancel(c) ==
  /\ at[c] # "down" /\ rec.phase # "cancelled"
  /\ rec' = [rec EXCEPT !.phase = "cancelled", !.pending = FALSE,
                        !.state = IF @ \in Active THEN "failed" ELSE @]
  /\ mem' = [mem EXCEPT ![c].cp = 0]
  /\ UNCHANGED <<leaseVars, queued, at, run, past, envVars, faults>>

----------------------------------------------------------------------------
(* Time, processes and people.                                              *)

Running(c) == at[c] \in (RunSteps \cup {"startup"}) \ {"unfence"}

\* The heartbeat renews the row whatever its age, or finds another owner.
Beat(c) ==
  LET s == run[c].sub
      ours == lease[s].owner = c /\ lease[s].ep = run[c].ep IN
  /\ Running(c) /\ at[c] # "release"
  /\ \/ ours /\ ~lease[s].live /\ lease' = [lease EXCEPT ![s].live = TRUE] /\ UNCHANGED run
     \/ ~ours /\ ~run[c].lost /\ run' = [run EXCEPT ![c].lost = TRUE] /\ UNCHANGED lease
  /\ UNCHANGED <<rec, submitter, queued, mem, at, past, envVars, faults>>

\* A lease whose holder is gone runs out.
Expire ==
  /\ \/ \E s \in Subs :
          /\ lease[s].live
          /\ ~\E c \in Runtimes : /\ Running(c) \/ at[c] = "claim"
                                  /\ run[c].sub = s /\ run[c].ep = lease[s].ep
          /\ lease' = [lease EXCEPT ![s].live = FALSE]
          /\ UNCHANGED submitter
     \/ /\ submitter # NoOne /\ at[submitter] # "fenced"
        /\ submitter' = NoOne /\ UNCHANGED lease
  /\ UNCHANGED <<rec, queued, mem, at, run, past, envVars, faults>>

\* A process suspended for longer than its leases.
Stall(c) ==
  /\ Running(c) \/ at[c] = "claim"
  /\ Held(c, run[c].sub, run[c].ep)
  /\ Fault("stall")
  /\ lease' = [lease EXCEPT ![run[c].sub].live = FALSE]
  /\ UNCHANGED <<rec, submitter, queued, mem, at, run, past, envVars>>

\* The app server that holds a retained Reviewer thread exits.
LoseThread(c) ==
  \E s \in mem[c].cont :
    /\ Fault("terminal")
    /\ mem' = [mem EXCEPT ![c].cont = @ \ {s}, ![c].gone = @ \cup {s}]
    /\ UNCHANGED <<rec, leaseVars, queued, at, run, past, envVars>>

\* A process that dies and starts again empty, or is closed while another lives on.
Crash(c) ==
  /\ at[c] # "down" /\ (at[c] = "idle" /\ mem[c] = Fresh => "close" \in FaultKinds)
  /\ \/ Fault("crash") /\ Goto(c, "idle")
     \/ Fault("close") /\ Goto(c, "down") /\ \E d \in Runtimes \ {c} : at[d] # "down"
  /\ mem' = [mem EXCEPT ![c] = Fresh]
  /\ run' = [run EXCEPT ![c] = NoRun]
  /\ UNCHANGED <<rec, leaseVars, queued, past, envVars>>

Edit ==
  /\ edits < MaxEdits
  /\ edits' = edits + 1
  /\ workspace' = edits + 1
  /\ UNCHANGED <<rec, leaseVars, queued, mem, at, run, past, faults>>

----------------------------------------------------------------------------
RunStep(c) ==
  \/ Startup(c) \/ StartupFails(c) \/ Begin(c) \/ Verify(c) \/ Send(c) \/ Reuse(c)
  \/ CallRefused(c) \/ Call(c) \/ CreateBusy(c) \/ CreateFails(c)
  \/ Answer(c) \/ WaitCancelled(c) \/ ThreadBusy(c) \/ ThreadFails(c) \/ Retain(c)
  \/ Align(c) \/ AlignFails(c) \/ ContractFailed(c)
  \/ Stage(c) \/ Enqueue(c) \/ EnqueueExhausted(c) \/ NoteFails(c)
  \/ Receive(c) \/ ReceiveFails(c) \/ Busy(c) \/ Fail(c) \/ Notify(c)
  \/ End(c) \/ Release(c) \/ Unfence(c) \/ Claim(c) \/ ClaimFails(c)

Step(c) == Admit(c) \/ Fence(c) \/ Prepare(c) \/ RunStep(c) \/ Sweep(c) \/ Cancel(c)
           \/ Beat(c) \/ Stall(c) \/ LoseThread(c) \/ Crash(c)

Next == \/ \E c \in Runtimes : Step(c)
        \/ RecoverEnqueue \/ RecoverReceive \/ RecoverNotice
        \/ DeliverNotice \/ Applied \/ Expire \/ Edit

Spec == Init /\ [][Next]_vars

\* The event loop runs what is due, the pumps sweep again and again, time passes.
Fairness ==
  /\ \A c \in Runtimes : /\ WF_vars(Fence(c) \/ Prepare(c) \/ RunStep(c))
                         /\ WF_vars(Beat(c))
                         /\ SF_vars(Sweep(c))
  /\ WF_vars(RecoverEnqueue) /\ WF_vars(RecoverReceive) /\ WF_vars(RecoverNotice)
  /\ WF_vars(DeliverNotice) /\ WF_vars(Applied) /\ WF_vars(Expire)

FairSpec == Spec /\ Fairness

----------------------------------------------------------------------------
(* Properties.                                                              *)

\* Every variable keeps its type, and what a submission must not carry over
\* from the one before it is reset when it is queued.
TypeOK ==
  /\ rec \in Record
  /\ lease \in [Subs -> Lease]
  /\ submitter \in Runtimes \cup {NoOne}
  /\ queued \in [Subs -> BOOLEAN]
  /\ mem \in [Runtimes -> Memory]
  /\ at \in [Runtimes -> Steps]
  /\ run \in [Runtimes -> Run]
  /\ past \in [Subs -> Past]
  /\ workspace \in Prints /\ edits \in 0 .. MaxEdits /\ faults \in 0 .. MaxFaults
  /\ rec.state = "queued" => ~rec.sent /\ ~rec.pending /\ rec.notice = "none"

\* A completed review is never repeated: whatever process, lease or attempt
\* continues a submission, at most one review of it completes (the admission
\* checks and the checkpoint of submission-execution.ts).
ReviewedOnce == \A s \in Subs : past[s].reviewed <= 1

\* The verdict command of a submission is minted at most once, so a late run
\* cannot stage a second one with another request id (phase A).
MintedOnce == \A s \in Subs : past[s].minted <= 1

\* A submission whose verdict was staged goes on to be received and
\* delivered; nothing short of a cancel fails it (phases A to C).  Checked with
\* the faults "note" and "receive" left out: when the note of an exhausted
\* enqueue or the write of phase C fails, the code fails the submission and its
\* verdict is lost (SubmissionStoreError.cfg).
VerdictSurvives ==
  \A s \in Subs : past[s].minted > 0 /\ rec.sub = s /\ rec.phase # "cancelled" =>
    rec.state \in {"verdict_ready", "received", "delivered"}

Order(state) == CASE state \in {"queued", "sending", "retrying"} -> 0
                  [] state = "verdict_ready" -> 1
                  [] state = "received" -> 2
                  [] OTHER -> 3

\* No late run and no sweep takes a submission backwards: past its review it
\* is never queued, sending or retrying again, and a finished one stays so.
NeverBackwards == [][rec'.sub = rec.sub => Order(rec'.state) >= Order(rec.state) \/ rec.sub = 0]_vars

\* A run in progress that owns the submission.
Progressing(c) == at[c] \in RunSteps \ {"release", "unfence"} /\ Owns(c)

\* The cleanup of an older run never clears the fence of a successor that has
\* already stamped the record (releaseSubmissionFence).
FenceIsNotCleared ==
  [][\A c \in Runtimes : Progressing(c) /\ rec'.sub = rec.sub => rec'.tok # NoOne]_vars

\* One review and one verdict for a submission, whoever continues it.
OneVerdict == TypeOK /\ ReviewedOnce /\ MintedOnce

\* The record of a submission moves forward, fenced by its run.
MovesForward == NeverBackwards /\ FenceIsNotCleared

\* A submission that fails on its own tells the session: the notice is
\* delivered unless the workflow is cancelled or submitted again first.
FailureIsReported ==
  \A s \in Subs : rec.sub = s /\ rec.state = "failed" ~>
    rec.notice = "delivered" \/ rec.phase = "cancelled" \/ rec.sub # s

\* A submission ends: with the faults over, the sweeps of the runtimes that
\* are left bring it to its verdict or to its failure.
SubmissionEnds ==
  \A s \in Subs : rec.sub = s /\ rec.state \in Active ~> rec.sub # s \/ rec.state \notin Active

\* Said by README.md:326: a submission that failed for want of its Reviewer
\* had one.
FirstReviewIsRetried ==
  rec.state = "failed" /\ rec.reason = "reviewer" => past[rec.sub].created

\* Said by README.md:326 and 382: a submission fails as lost only when no
\* process is waiting to continue its review.
LostIsLost ==
  rec.state = "failed" /\ rec.reason \in {"reviewer", "result"} =>
    \A c \in Runtimes : at[c] = "idle" => rec.sub \notin mem[c].reg

\* Said by workflow.ts:1990 and submission-execution.ts:86: the holder of the
\* lease is the only one to stamp the record.
FenceIsKept ==
  [][\A c \in Runtimes : Progressing(c) /\ rec'.sub = rec.sub => rec'.tok = c]_vars
=============================================================================
