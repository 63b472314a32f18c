-------------------------- MODULE VerdictDelivery --------------------------
(***************************************************************************)
(* The way of a Reviewer's verdict to the DSH session that asked for it:   *)
(* handleVerdict of bridge-runtime.ts on the queue of BridgeQueue, and the *)
(* transitions of the workflow record it calls in workflow.ts.             *)
(*                                                                         *)
(* A handler is a sequence of awaits; each step below is the code between  *)
(* two of them, so other runtimes, the workspace, the session's tools and  *)
(* the operator act in between.  Each submission n has one staged verdict  *)
(* request; a `respond` of the CLI may queue another for the same n.       *)
(***************************************************************************)
EXTENDS Naturals, FiniteSets

CONSTANTS Runtimes, NoOne, Legacy,
          MaxRounds,   \* bound: submissions of the workflow
          MaxEdits,    \* bound: changes of the workspace
          MaxManual,   \* bound: verdicts queued by hand
          MaxFaults,   \* bound: crashes, stalls, failing calls, session moves
          StoreFaults  \* store calls that may fail and are not retried in place

ASSUME BoundsAssumption == MaxRounds \in Nat \ {0} /\ {MaxEdits, MaxManual, MaxFaults} \subseteq Nat
ASSUME FaultsAssumption == StoreFaults \subseteq {"reload", "retry", "receipt"}

VARIABLES rows, claim, lost, overtaken, faults,  \* of BridgeQueue
          at,        \* at[c]: where runtime c's handler is
          ev,        \* ev[c]: the fingerprint the handler collected
          word,      \* word[c]: the message, then the receipt status, it will send
          rec,       \* the workflow record
          workspace, \* the fingerprint of the working tree now
          host,      \* the runtime where the DSH session lives, or NoOne
          content,   \* content[r]: the verdict in request r
          wakes,     \* wakes[r]: messages about r in the session's log
          said,      \* said[r]: what the last of them told the session
          receipt,   \* receipt[r]: the status in r's receipt
          deciding,  \* the session's decide call read a record to decide on
          edits      \* changes of the workspace so far

queueVars == <<rows, claim, lost, overtaken, faults>>
handlerVars == <<at, ev, word>>
logVars == <<wakes, said, receipt>>
envVars == <<workspace, host, content, deciding, edits>>
vars == <<queueVars, handlerVars, rec, logVars, envVars>>

Rounds == 1 .. MaxRounds
Requests == {"staged", "manual"} \X Rounds
Staged(n) == <<"staged", n>>
SubmissionOf(r) == r[2]

ASSUME NamesAssumption == NoOne \notin Runtimes \cup Requests \cup {"verdict"}

Prints == {"print0", "print1"}
NoPrint == "none"

\* The router accepts a verdict where the session of its workflow lives.
Q == INSTANCE BridgeQueue WITH
       Plans <- {}, Verdicts <- {"verdict"}, Malformed <- {}, MaxRetryAttempts <- 0,
       MaxOps <- 0, ops <- 0, route <- [r \in Requests |-> {host} \ {NoOne}]

Phases == {"executing", "decision", "passed", "blocked", "cancelled"}
SubmissionStates == {"none", "reviewing", "verdict_ready", "received", "applied",
                     "delivered", "failed"}
Words == {"", "pass", "fix", "void", "refused",
          "delivered", "cancelled", "no_such_workflow", "duplicate"}
Steps == {"idle", "collect", "apply", "check1", "void1", "check2", "void2", "reload", "relay",
          "commit", "settle", "reject"}

Record == [phase : Phases, sub : 0 .. MaxRounds, state : SubmissionStates,
           staged : Requests \cup {NoOne}, pending : BOOLEAN, submitted : Prints \cup {NoPrint},
           appliedReq : Requests \cup {NoOne}, appliedSub : 0 .. MaxRounds,
           appliedPrint : Prints \cup {NoPrint}, error : {"none", "void", "refused"},
           review : BOOLEAN, cycles : 0 .. MaxRounds]

\* Mutant: no writer looks at the phase.
NeverSuppressed == FALSE

\* store.update without ignoreCancelled leaves a cancelled record alone.
Suppressed == rec.phase = "cancelled"

SubmissionActive == rec.state \in {"reviewing", "verdict_ready", "received"}
SubmissionTerminal == rec.state \in {"applied", "delivered", "failed"}

Init ==
  /\ host \in Runtimes
  /\ Q!Init
  /\ at = [c \in Runtimes |-> "idle"]
  /\ ev = [c \in Runtimes |-> NoPrint]
  /\ word = [c \in Runtimes |-> ""]
  /\ rec = [phase |-> "executing", sub |-> 0, state |-> "none", staged |-> NoOne,
            pending |-> FALSE, submitted |-> NoPrint, appliedReq |-> NoOne, appliedSub |-> 0,
            appliedPrint |-> NoPrint, error |-> "none", review |-> FALSE, cycles |-> 0]
  /\ workspace = "print0"
  /\ content = [r \in Requests |-> ""]
  /\ wakes = [r \in Requests |-> 0]
  /\ said = [r \in Requests |-> ""]
  /\ receipt = [r \in Requests |-> ""]
  /\ deciding = FALSE
  /\ edits = 0

----------------------------------------------------------------------------
(* The submission side, up to the queued verdict (its own module has the    *)
(* leases, the retries and the recovery of these steps).                    *)

\* codex_workflow_submit: a new submission replaces the old one, delivered or
\* only applied, unless that one is still under review.
Submit ==
  /\ rec.phase = "executing"
  /\ ~SubmissionActive
  /\ rec.sub < MaxRounds
  /\ rec' = [rec EXCEPT !.sub = @ + 1, !.state = "reviewing", !.pending = TRUE,
                        !.submitted = workspace]
  /\ UNCHANGED <<queueVars, handlerVars, logVars, envVars>>

\* Phase A: the verdict command is minted and kept in the record.
StageVerdict(v) ==
  /\ rec.state = "reviewing"
  /\ ~Suppressed
  /\ rec' = [rec EXCEPT !.state = "verdict_ready", !.staged = Staged(rec.sub)]
  /\ content' = [content EXCEPT ![Staged(rec.sub)] = v]
  /\ UNCHANGED <<queueVars, handlerVars, logVars, workspace, host, deciding, edits>>

\* Phase B: that command is put in the queue, once.
EnqueueStaged(r) ==
  /\ rec.state = "verdict_ready" /\ r = rec.staged
  /\ UNCHANGED <<handlerVars, rec, logVars, envVars>>
  /\ Q!Enqueue(r, "verdict")

\* Phase C: only now the queued verdict may be applied.
Receive ==
  /\ rec.state = "verdict_ready"
  /\ rows[rec.staged].status # "absent"
  /\ ~Suppressed
  /\ rec' = [rec EXCEPT !.state = "received"]
  /\ UNCHANGED <<queueVars, handlerVars, logVars, envVars>>

\* A verdict answered by hand for any submission made so far.
Respond(n) ==
  /\ n <= rec.sub
  /\ Cardinality({r \in Requests : r[1] = "manual" /\ content[r] # ""}) < MaxManual
  /\ content' = [content EXCEPT ![<<"manual", n>>] = "pass"]
  /\ UNCHANGED <<handlerVars, rec, logVars, workspace, host, deciding, edits>>
  /\ Q!Enqueue(<<"manual", n>>, "verdict")

----------------------------------------------------------------------------
(* handleVerdict.                                                           *)

Req(c) == claim[c].req
Goto(c, s) == at' = [at EXCEPT ![c] = s]
Finish(c, s, w) == /\ Goto(c, s)
                   /\ word' = [word EXCEPT ![c] = w]

\* The handler is over, and its locals with it.
Leave(c) == Finish(c, "idle", "") /\ ev' = [ev EXCEPT ![c] = NoPrint]

\* What a collection of evidence may return: the workspace as it is, or
\* nothing when it cannot be observed (a fault).
Observed == {p \in Prints \cup {NoPrint} : p = workspace \/ (p = NoPrint /\ faults < MaxFaults)}
ChargeFor(p) == faults' = IF p = NoPrint THEN faults + 1 ELSE faults
QueueKept == UNCHANGED <<rows, claim, lost, overtaken>>

\* The claim, the first isLost test, and the load and evidence collection of
\* applyExternalVerdict; a cancelled workflow answers at once.
ClaimVerdict(c, r) ==
  /\ UNCHANGED <<ev, word, rec, logVars, envVars>>
  /\ Q!Claim(c, r)
  /\ Goto(c, "collect")

Collect(c) ==
  /\ at[c] = "collect"
  /\ ~lost[c]
  /\ \/ /\ rec.phase = "cancelled"
        /\ Finish(c, "settle", "cancelled")
        /\ UNCHANGED <<ev, faults>>
     \/ /\ rec.phase # "cancelled"
        /\ \E p \in Observed : ev' = [ev EXCEPT ![c] = p] /\ ChargeFor(p)
        /\ Goto(c, "apply")
        /\ UNCHANGED word
  /\ QueueKept
  /\ UNCHANGED <<rec, logVars, envVars>>

\* The verdict is refused for good by the identities in the record.
Duplicate(r) == rec.appliedSub = SubmissionOf(r)
Unknown(r) ==
  \/ rec.sub # SubmissionOf(r)
  \/ rec.staged # NoOne /\ rec.staged # r
  \/ rec.staged = r /\ rec.state \notin {"verdict_ready", "received"}
  \/ rec.staged = NoOne /\ rec.state \notin {"none", "received"}
  \/ ~rec.pending
NotYet(r) == rec.staged = r /\ rec.state = "verdict_ready"

\* The record of a verdict that was reviewed against another workspace.
RefusedRecord(r) ==
  [rec EXCEPT !.state = "applied", !.staged = NoOne, !.pending = FALSE, !.review = FALSE,
              !.appliedReq = r, !.appliedSub = SubmissionOf(r), !.appliedPrint = NoPrint,
              !.error = "refused"]

\* The record of an applied verdict: a pass ends the work, anything else goes
\* back to fixing, to a decision of the user, or to blocked at a limit.
AppliedRecord(r, p, ph) ==
  [rec EXCEPT !.state = "applied", !.staged = NoOne, !.pending = FALSE, !.review = TRUE,
              !.appliedReq = r, !.appliedSub = SubmissionOf(r), !.appliedPrint = p,
              !.submitted = p, !.error = "none", !.phase = ph, !.cycles = @ + 1]

Outcomes(v) == IF v = "pass" THEN {"passed"} ELSE {"executing", "decision", "blocked"}

\* Mutant: an applied verdict is taken for a delivered one.
AlreadyApplied == rec.state \in {"applied", "delivered"}

AlreadyDelivered == rec.state = "delivered"

\* The transaction of applyExternalVerdict, and what the handler makes of its
\* result.  It is not preceded by another isLost test.
ApplyCas(c, r) ==
  /\ at[c] = "apply" /\ r = Req(c)
  /\ \/ /\ Suppressed
        /\ Finish(c, "settle", "cancelled")
        /\ UNCHANGED rec
     \/ /\ ~Suppressed /\ rec.appliedReq = r
        /\ IF AlreadyDelivered
           THEN Finish(c, "settle", "delivered")
           ELSE Goto(c, "check1") /\ UNCHANGED word
        /\ UNCHANGED rec
     \/ /\ ~Suppressed /\ rec.appliedReq # r
        /\ Duplicate(r) \/ (~NotYet(r) /\ Unknown(r))
        /\ Finish(c, "reject", IF Duplicate(r) THEN "duplicate" ELSE "no_such_workflow")
        /\ UNCHANGED rec
     \/ /\ ~Suppressed /\ rec.appliedReq # r
        /\ ~NotYet(r) /\ ~Duplicate(r) /\ ~Unknown(r)
        /\ IF ev[c] # NoPrint /\ ev[c] = rec.submitted
           THEN \E ph \in Outcomes(content[r]) : rec' = AppliedRecord(r, ev[c], ph)
           ELSE rec' = RefusedRecord(r)
        /\ Goto(c, "check1")
        /\ UNCHANGED word
  /\ UNCHANGED <<queueVars, ev, logVars, envVars>>

\* Mutant: a verdict is verified only once it is delivered.
TrustApplied(r) == rec.state = "applied"

\* assertVerdictStillValid: load the record, compare the workspace with the
\* fingerprint the verdict was applied against.
NothingToVerify(r) ==
  \/ rec.phase = "cancelled"
  \/ rec.error \in {"void", "refused"}
  \/ rec.appliedPrint = NoPrint
  \/ rec.sub # SubmissionOf(r)

Check(c, from, bad, good) ==
  /\ at[c] = from
  /\ from = "check1" => ~lost[c]
  /\ \/ /\ NothingToVerify(Req(c))
        /\ Goto(c, good)
        /\ UNCHANGED <<ev, faults>>
     \/ /\ ~NothingToVerify(Req(c))
        /\ \E p \in Observed : /\ ev' = [ev EXCEPT ![c] = p]
                               /\ ChargeFor(p)
                               /\ Goto(c, IF p = rec.appliedPrint THEN good ELSE bad)
  /\ QueueKept
  /\ UNCHANGED <<word, rec, logVars, envVars>>

\* Its transaction: the applied verdict, a pass included, is void.
VoidedRecord ==
  [rec EXCEPT !.phase = IF @ \in {"passed", "decision"} THEN "executing" ELSE @,
              !.error = "void", !.review = FALSE, !.appliedPrint = NoPrint, !.staged = NoOne]

Void(c, from, good) ==
  /\ at[c] = from
  /\ rec' = IF ~Suppressed /\ rec.sub = SubmissionOf(Req(c)) THEN VoidedRecord ELSE rec
  /\ Goto(c, good)
  /\ UNCHANGED <<queueVars, ev, word, logVars, envVars>>

\* What the relayed message says of the record.
Message == CASE rec.error # "none" -> rec.error
             [] rec.phase = "passed" -> "pass"
             [] OTHER -> "fix"

\* Mutant: a refused or void verdict is not worth a message.
StandsFor(r) == /\ rec.state = "applied" /\ rec.appliedReq = r /\ rec.sub = SubmissionOf(r)
                /\ rec.review

\* r is still the applied verdict of the current submission.
AppliedFor(r) == rec.state = "applied" /\ rec.appliedReq = r /\ rec.sub = SubmissionOf(r)

\* The last look at the record before the session is woken.
Reload(c) ==
  /\ at[c] = "reload"
  /\ \/ /\ rec.phase = "cancelled"
        /\ Finish(c, "reject", "cancelled")
     \/ /\ rec.phase # "cancelled"
        /\ ~AppliedFor(Req(c))
        /\ Finish(c, "reject", "no_such_workflow")
     \/ /\ rec.phase # "cancelled"
        /\ AppliedFor(Req(c))
        /\ Finish(c, "relay", Message)
  /\ UNCHANGED <<queueVars, ev, rec, logVars, envVars>>

\* The message id of r is in the session's log.
InLog(r) == wakes[r] # 0

\* The session is here: search its log for the message id and send the message
\* if it is not there, without an await in between.
Relay(c, r) ==
  /\ at[c] = "relay" /\ r = Req(c)
  /\ ~lost[c]
  /\ host = c
  /\ IF InLog(r) THEN UNCHANGED <<wakes, said>>
     ELSE wakes' = [wakes EXCEPT ![r] = @ + 1] /\ said' = [said EXCEPT ![r] = word[c]]
  /\ Finish(c, "commit", "")
  /\ UNCHANGED <<queueVars, ev, rec, receipt, envVars>>

\* The session is not here: wait for it.
Absent(c, r) ==
  /\ at[c] = "relay"
  /\ host # c
  /\ Leave(c)
  /\ UNCHANGED <<faults, rec, logVars, envVars>>
  /\ Q!Park(c, r)

\* Mutant: delivery is committed for whatever the record holds by now.
AnySubmission(r) == ~Suppressed

\* The fence of the delivery marker.
Committable(r) == ~Suppressed /\ rec.state = "applied" /\ rec.sub = SubmissionOf(r) /\ rec.appliedReq = r

\* commitVerdictDelivery.
Commit(c) ==
  /\ at[c] = "commit"
  /\ ~lost[c]
  /\ IF Committable(Req(c))
     THEN rec' = [rec EXCEPT !.state = "delivered"] /\ Finish(c, "settle", "delivered")
     ELSE /\ Finish(c, "settle", IF rec.phase = "cancelled" THEN "cancelled"
                                 ELSE "no_such_workflow")
          /\ UNCHANGED rec
  /\ UNCHANGED <<queueVars, ev, logVars, envVars>>

\* The receipt; it is written only under the fence.
Acknowledge(c, r) ==
  /\ at[c] \in {"settle", "reject"}
  /\ receipt' = IF Q!Fence(c, r) THEN [receipt EXCEPT ![r] = word[c]] ELSE receipt
  /\ Leave(c)
  /\ UNCHANGED <<rec, wakes, said, envVars>>
  /\ Q!Ack(c, r)

\* A call that fails is retried later, where the handler catches it ...
RetryLater(c, r) ==
  /\ at[c] \in {"collect", "apply", "check1", "void1", "check2", "void2", "relay", "commit", "settle"}
  /\ Leave(c)
  /\ UNCHANGED <<rec, logVars, envVars>>
  /\ Q!RetryPersistent(c, r)

\* ... and reaches the pump, which dead-letters the claim, where it does not:
\* the load before the relay, a retry of a verdict that is not applied yet, and
\* the receipt of a verdict that is refused.
Escapes(c) == \/ at[c] = "reload" /\ "reload" \in StoreFaults
              \/ at[c] \in {"collect", "apply"} /\ ~lost[c] /\ "retry" \in StoreFaults
              \/ at[c] = "reject" /\ ~lost[c] /\ "receipt" \in StoreFaults

Throw(c, r) ==
  /\ Escapes(c)
  /\ faults < MaxFaults
  /\ Leave(c)
  /\ UNCHANGED <<rec, logVars, envVars>>
  /\ Q!PumpDeadLetter(c, r)

\* A handler that finds its claim lost at one of its tests returns.
Return(c) ==
  /\ at[c] \in {"collect", "check1", "relay", "commit", "settle", "reject"}
  /\ Leave(c)
  /\ UNCHANGED <<rec, logVars, envVars>>
  /\ Q!ReturnLost(c)

Crash(c) ==
  /\ Leave(c)
  /\ UNCHANGED <<rec, logVars, envVars>>
  /\ Q!Crash(c)

\* Leases and time, as in BridgeQueue.
QueueStep ==
  /\ UNCHANGED <<handlerVars, rec, logVars, envVars>>
  /\ \/ \E c \in Runtimes : Q!HeartbeatError(c) \/ \E r \in Requests : Q!Heartbeat(c, r)
     \/ \E r \in Requests : Q!Expire(r) \/ Q!Stall(r) \/ Q!RetryDue(r)
     \/ Q!RecoverOrphans

----------------------------------------------------------------------------
(* The session's tools, the workspace and the session's home.               *)

\* codex_workflow_decide reads the record, then writes without reading again.
DecideLoad ==
  /\ ~deciding
  /\ rec.phase = "decision" /\ rec.review
  /\ deciding' = TRUE
  /\ UNCHANGED <<queueVars, handlerVars, rec, logVars, workspace, host, content, edits>>

DecideCas ==
  /\ deciding
  /\ deciding' = FALSE
  /\ IF Suppressed THEN UNCHANGED rec
     ELSE \E ph \in {"passed", "executing"} : rec' = [rec EXCEPT !.phase = ph, !.error = "none"]
  /\ UNCHANGED <<queueVars, handlerVars, logVars, workspace, host, content, edits>>

Cancel ==
  /\ rec.phase # "cancelled"
  /\ rec' = [rec EXCEPT !.phase = "cancelled",
                        !.state = IF rec.sub = 0 \/ SubmissionTerminal THEN @ ELSE "failed"]
  /\ UNCHANGED <<queueVars, handlerVars, logVars, envVars>>

Edit(p) ==
  /\ p # workspace
  /\ edits < MaxEdits
  /\ workspace' = p
  /\ edits' = edits + 1
  /\ UNCHANGED <<queueVars, handlerVars, rec, logVars, host, content, deciding>>

\* The session closes or is opened by another runtime; it is never open twice.
Rehost(h) ==
  /\ h # host
  /\ faults < MaxFaults
  /\ faults' = faults + 1
  /\ host' = h
  /\ QueueKept
  /\ UNCHANGED <<handlerVars, rec, logVars, workspace, content, deciding, edits>>

----------------------------------------------------------------------------
HandlerStep(c) ==
  \/ Collect(c) \/ Reload(c) \/ Commit(c) \/ Return(c)
  \/ Check(c, "check1", "void1", "check2") \/ Void(c, "void1", "check2")
  \/ Check(c, "check2", "void2", "reload") \/ Void(c, "void2", "reload")
  \/ \E r \in Requests : ApplyCas(c, r) \/ Relay(c, r) \/ Absent(c, r) \/ Acknowledge(c, r)

HandlerFault(c) == Crash(c) \/ \E r \in Requests : RetryLater(c, r) \/ Throw(c, r)

Review == \/ \E v \in {"pass", "fix"} : StageVerdict(v)
          \/ \E r \in Requests : EnqueueStaged(r)
          \/ Receive

Next ==
  \/ Submit \/ Review
  \/ \E n \in Rounds : Respond(n)
  \/ \E c \in Runtimes : \/ \E r \in Requests : ClaimVerdict(c, r)
                         \/ HandlerStep(c) \/ HandlerFault(c)
  \/ QueueStep
  \/ DecideLoad \/ DecideCas \/ Cancel
  \/ \E p \in Prints : Edit(p)
  \/ \E h \in Runtimes \cup {NoOne} : Rehost(h)

Spec == Init /\ [][Next]_vars

\* Handlers end, staged verdicts are pushed on by recovery, time passes.
Fairness ==
  /\ \A c \in Runtimes : /\ WF_vars(\E r \in Requests : ClaimVerdict(c, r))
                        /\ WF_vars(HandlerStep(c))
  /\ WF_vars(QueueStep /\ \E r \in Requests : Q!Expire(r))
  /\ WF_vars(QueueStep /\ \E r \in Requests : Q!RetryDue(r))
  /\ WF_vars(\E r \in Requests : EnqueueStaged(r))
  /\ WF_vars(Receive)

LiveSpec == Spec /\ Fairness

----------------------------------------------------------------------------
(* Properties.                                                              *)

\* A verdict is staged only on its way to the record, a request is pending only
\* until it has its verdict, and a fingerprint stands for a review in force.
RecordShape == /\ rec.staged # NoOne => rec.state \in {"verdict_ready", "received", "failed"}
               /\ rec.staged # NoOne => rec.staged = Staged(rec.sub)
               /\ rec.state \in {"applied", "delivered"} => ~rec.pending
               /\ rec.appliedPrint # NoPrint => rec.appliedReq # NoOne

\* Types, the record's shape, and the handlers' program counters agree with the
\* claims they hold.
TypeOK ==
  /\ Q!TypeOK
  /\ at \in [Runtimes -> Steps] /\ ev \in [Runtimes -> Prints \cup {NoPrint}]
  /\ word \in [Runtimes -> Words]
  /\ \A c \in Runtimes : at[c] = "idle" <=> Q!Idle(c)
  /\ rec \in Record /\ RecordShape
  /\ workspace \in Prints /\ host \in Runtimes \cup {NoOne}
  /\ content \in [Requests -> {"", "pass", "fix"}]
  /\ wakes \in [Requests -> Nat] /\ said \in [Requests -> Words] /\ receipt \in [Requests -> Words]
  /\ deciding \in BOOLEAN /\ edits \in 0 .. MaxEdits

\* The session is woken at most once for a submission, whichever request
\* carried the verdict, and through every takeover, crash and replay.
WokenOncePerSubmission ==
  \A n \in Rounds : wakes[<<"staged", n>>] + wakes[<<"manual", n>>] <= 1

\* `delivered` is written only for a verdict whose message is in the session's
\* log, and only a receipt of such a verdict says `delivered`.
DeliveredWasRelayed ==
  /\ rec.state = "delivered" => wakes[rec.appliedReq] = 1
  /\ \A r \in Requests : receipt[r] = "delivered" => wakes[r] = 1

\* One wake-up, and no record or receipt that claims one that was not.
OneTrueDelivery == TypeOK /\ WokenOncePerSubmission /\ DeliveredWasRelayed

\* While a verdict is applied or delivered it is the verdict of the current
\* submission, and a review cycle is counted at most once for a submission.
VerdictOfCurrentSubmission ==
  /\ rec.state \in {"applied", "delivered"} =>
       rec.appliedSub = rec.sub /\ SubmissionOf(rec.appliedReq) = rec.sub
  /\ rec.cycles <= rec.sub

\* A session is told "pass" on a review that still stands only if the last
\* verification, by this handler and after its claim, found the workspace that
\* was reviewed.  A submission made meanwhile does not count: it changes what is
\* submitted, not what was reviewed.
PassWasVerified ==
  [][\A c \in Runtimes, r \in Requests :
        (/\ Relay(c, r) /\ wakes'[r] # wakes[r] /\ said'[r] = "pass"
         /\ rec.review /\ rec.appliedReq = r)
          => ev[c] = rec.appliedPrint]_vars

\* Nothing brings a cancelled workflow back, and nothing moves its submission
\* forward: neither a late verdict, nor a decision, nor a replay.
CancelledIsTerminal ==
  [][rec.phase = "cancelled" => rec' = rec]_vars

\* An applied verdict of a reachable session is delivered, unless a new submission
\* or a cancel supersedes it: the record does not stay applied.
AppliedIsDelivered ==
  (rec.state = "applied" /\ host # NoOne)
    ~> (rec.state # "applied" \/ rec.phase = "cancelled" \/ host = NoOne)

\* A verdict that is applied and not delivered keeps its claim retrying with
\* backoff and never becomes a dead letter (bridge-runtime.ts, handleVerdict).
AppliedNeverDeadLettered ==
  rec.state = "applied" /\ rec.phase # "cancelled"
    => rows[rec.appliedReq].status # "dead-letter"

\* A void verdict is reported: once the delivery of a void verdict is recorded,
\* the session was told that it is void (workflow.ts, assertVerdictStillValid).
VoidIsReported ==
  rec.state = "delivered" /\ rec.error = "void" => said[rec.appliedReq] = "void"

\* A decision takes effect only while the workflow waits for one (tools.ts,
\* codex_workflow_decide).
DecisionOnlyWhenWaiting ==
  [][DecideCas /\ rec' # rec => rec.phase = "decision"]_vars
=============================================================================
