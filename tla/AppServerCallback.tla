------------------------- MODULE AppServerCallback --------------------------
(***************************************************************************)
(* The App Server callback dispatcher: one background review of one        *)
(* submission on an ephemeral Reviewer thread, shared by the consumers     *)
(* that lease the submission one after the other in this process           *)
(* (src/src/app-server-callback.ts, with the consumers of                  *)
(* application/submission-review-consumer.ts).                             *)
(*                                                                         *)
(* A run makes up to four kinds of turns on its thread: the visible        *)
(* review, one continuation of it, a rewrite of its display and the        *)
(* conversion.  What a run leaves behind to be continued or cleaned up is  *)
(* the retained Reviewer.  Each step is the code between two awaits.  The  *)
(* submission always asks for an ephemeral Reviewer and always has a       *)
(* consumer, so the paths of the other callers are not here.               *)
(*                                                                         *)
(* The names are apart from those of AppServerTurns, which has the client  *)
(* under this callback, so that AppServerProofs can extend both modules.   *)
(***************************************************************************)
EXTENDS Naturals, FiniteSets

CONSTANTS MaxSends,    \* bound: leases of the submission, each with one call of send
          MaxMishaps   \* bound: lost replies, failing calls, unconfirmed interrupts, losses

ASSUME CallbackBounds == MaxSends \in Nat \ {0} /\ MaxMishaps \in Nat

VARIABLES
  stage,    \* where the run is
  run,      \* its local variables
  kept,     \* the retained Reviewer, which a run goes on referring to
  listed,   \* it is in recoverableThreads
  cleaning, \* releaseRetainedReviewer is under way
  thread,   \* the Reviewer thread, as isThreadAvailable sees it
  last,     \* the last turn of the thread, as the App Server has it
  pins,     \* beginRound and endRound
  bound,    \* onThread succeeded: from now on only the original Reviewer will do
  latch,    \* cancelledWorkflows, cancelledByKey and stopped
  stop,     \* where doStop is
  sends,    \* the promise of each send
  current,  \* the registered consumer, 0 for none
  closed,   \* the key of the submission is retired
  read,     \* ghost: a readable review was accepted
  doubled,  \* ghost: a turn was started beside one that may still run
  missed,   \* ghost: an unconfirmed turn was given up by a cancel
  mishaps
callVars == <<sends, current, closed>>
ghostVars == <<read, doubled, missed>>
callbackVars == <<stage, run, kept, listed, cleaning, thread, last, pins, bound, latch, stop, callVars,
                  ghostVars, mishaps>>

Kinds == {"visible", "rewrite", "conversion"}
Stages == {"idle", "confirm", "create", "bind", "interrupting", "resuming", "go", "starting", "sent", "started",
           "waiting", "stopping", "receipt", "cleanup", "ending"}
Errors == {"none", "abort", "latch", "transient", "terminal"}
Run == [had : BOOLEAN, claimed : BOOLEAN, kind : Kinds, text : BOOLEAN, next : 0 .. 1, asked : BOOLEAN,
        aborted : BOOLEAN, error : Errors, keep : BOOLEAN, resumed : BOOLEAN]
NoRun == [had |-> FALSE, claimed |-> FALSE, kind |-> "visible", text |-> FALSE, next |-> 0, asked |-> FALSE,
          aborted |-> FALSE, error |-> "none", keep |-> FALSE, resumed |-> FALSE]

\* Interruption and start that are not confirmed, the intent of a cleanup, a
\* failure that only awaits it, a binding to write, the readable review.
Retained == [intr : BOOLEAN, start : BOOLEAN, intent : {"none", "cancel", "terminal"}, failure : BOOLEAN,
             binding : BOOLEAN, text : BOOLEAN, kind : Kinds, next : 0 .. 1]
NoRetained == [intr |-> FALSE, start |-> FALSE, intent |-> "none", failure |-> FALSE,
               binding |-> FALSE, text |-> FALSE, kind |-> "visible", next |-> 0]

CallbackTypeOK ==
  /\ stage \in Stages /\ run \in Run /\ kept \in Retained /\ listed \in BOOLEAN /\ cleaning \in BOOLEAN
  /\ thread \in {"none", "here", "lost"} /\ last \in {"none", "sent", "bad", "running", "over"}
  /\ pins \in 0 .. 1 /\ bound \in BOOLEAN
  /\ latch \subseteq {"workflow", "key", "stopped"} /\ stop \in {"no", "sends", "cleanups", "done"}
  /\ sends \in [1 .. MaxSends -> {"new", "waiting", "settled"}] /\ current \in 0 .. MaxSends
  /\ closed \in BOOLEAN /\ {read, doubled, missed} \subseteq BOOLEAN /\ mishaps \in 0 .. MaxMishaps

CallbackInit ==
  /\ stage = "idle" /\ run = NoRun /\ kept = NoRetained /\ listed = FALSE /\ cleaning = FALSE
  /\ thread = "none" /\ last = "none" /\ pins = 0 /\ bound = FALSE /\ latch = {} /\ stop = "no"
  /\ sends = [e \in 1 .. MaxSends |-> "new"] /\ current = 0 /\ closed = FALSE
  /\ read = FALSE /\ doubled = FALSE /\ missed = FALSE /\ mishaps = 0

----------------------------------------------------------------------------
Mishap == mishaps < MaxMishaps /\ mishaps' = mishaps + 1
NoMishap == UNCHANGED mishaps
At(s) == stage = s
Enter(s) == stage' = s
Here == thread = "here"
Latched == latch # {}

\* To unsubscribe a thread does not end its turn; the loss of the process does.
MayRun == thread # "lost" /\ last \in {"sent", "bad", "running"}

\* The entries of active and preparing.
Active == stage \in {"started", "waiting", "stopping"}
Preparing == stage \in {"confirm", "create", "bind", "interrupting", "resuming"} \/ (Active /\ run.resumed)

\* ensureRunning.
CanRun == ~run.aborted /\ ~Latched /\ Here

Ended(keep) == Enter("ending") /\ run' = [run EXCEPT !.keep = keep]

\* The readable review is retained, to be converted and not repeated.
WithText(k) == [k EXCEPT !.text = run.text]

\* waitInThread, with ensureRunning and the catch that it may throw into: the
\* thread is retained unless the review was cancelled or the thread is gone.
WaitInThread(k) ==
  IF Here /\ ~Latched /\ run.claimed
  THEN Ended(TRUE) /\ kept' = WithText(k) /\ listed' = TRUE
  ELSE Ended(FALSE) /\ UNCHANGED <<kept, listed>>
Plain == [NoRetained EXCEPT !.binding = kept.binding]

\* The catch of run. A start that is not accounted for comes first.
Unfinished == run.had /\ kept.start /\ last # "over"
Catch(e) ==
  IF Unfinished
  THEN /\ Enter("receipt") /\ run' = [run EXCEPT !.keep = TRUE] /\ listed' = TRUE
       /\ kept' = IF run.aborted \/ Latched THEN kept
                  ELSE [kept EXCEPT !.intent = "terminal", !.failure = TRUE]
  ELSE IF e = "transient" \/ run.aborted THEN WaitInThread(Plain)
  ELSE Ended(FALSE) /\ UNCHANGED <<kept, listed>>

\* waitForInterruption: whatever was cancelled, the unconfirmed turn is retained.
WaitForInterruption(cleanupOnly) ==
  IF Unfinished THEN Catch("terminal")
  ELSE /\ Ended(TRUE) /\ listed' = TRUE
       /\ kept' = WithText([NoRetained EXCEPT !.intr = TRUE, !.failure = cleanupOnly])

\* waitForStartReceipt, up to its first await.
WaitForReceipt ==
  /\ Enter("receipt") /\ run' = [run EXCEPT !.keep = TRUE] /\ listed' = TRUE
  /\ kept' = IF run.had /\ kept.start THEN kept
             ELSE WithText([NoRetained EXCEPT !.start = TRUE, !.kind = run.kind, !.next = run.next,
                                              !.intent = IF Latched THEN "cancel" ELSE "none"])

----------------------------------------------------------------------------
(* send, and the consumers.                                                 *)

\* run, up to its first await: a terminal failure is only cleaned up, a lost
\* original is not replaced, a retained thread goes on where it was.
Begin ==
  /\ run' = [NoRun EXCEPT !.had = listed, !.claimed = listed, !.text = listed /\ kept.text,
                          !.kind = IF listed /\ kept.start THEN kept.kind
                                   ELSE IF listed /\ kept.text THEN "conversion" ELSE "visible",
                          !.next = IF listed THEN kept.next ELSE 0]
  /\ listed' = (listed /\ kept.start)
  /\ kept' = IF listed THEN kept ELSE NoRetained
  /\ pins' = IF listed THEN pins ELSE pins + 1
  /\ Enter(CASE ~listed -> "create"
            [] listed /\ kept.failure -> "confirm"
            [] OTHER -> IF kept.binding /\ Here THEN "bind" ELSE "interrupting")

\* Rejected at once: latched, already interrupted, or the original Reviewer is
\* asked for and is not here.
Refused == \/ Latched
           \/ stage # "idle" /\ run.aborted
           \/ stage = "idle" /\ bound /\ ~listed

\* Mutant: whoever observed the operation may abort it.
AnyObserver(e, registered) == e # 0

\* onAbort: only the consumer that is registered now aborts the operation.
IsObserver(e, registered) == e # 0 /\ e = registered

\* cancelWait ends the consumer's own wait, and aborts what it observes.
CancelWait(e, registered) ==
  IF stage # "idle" /\ IsObserver(e, registered) THEN [run EXCEPT !.aborted = TRUE] ELSE run
Unwaited(s, e) == [d \in 1 .. MaxSends |-> IF d = e /\ s[d] = "waiting" THEN "settled" ELSE s[d]]

\* Mutant: the superseded consumer goes on waiting for the run.
StillWaits(s) == s

\* adopt ends the wait of the consumer it supersedes, and nothing else.
Superseded(s) == Unwaited(s, current)

\* A new lease of the submission: its consumer is registered and adopts the run
\* that is under way, whose former consumer is superseded, or starts one.
Send(e) ==
  /\ sends[e] = "new" /\ \A d \in 1 .. MaxSends : d < e => sends[d] # "new"
  /\ ~closed
  /\ IF Refused
     THEN /\ sends' = [sends EXCEPT ![e] = "settled"]
          /\ UNCHANGED <<stage, run, kept, listed, pins, current>>
     ELSE /\ current' = e
          /\ sends' = [Superseded(sends) EXCEPT ![e] = "waiting"]
          /\ IF stage = "idle" THEN Begin
             ELSE run' = CancelWait(current, e) /\ UNCHANGED <<stage, kept, listed, pins>>
  /\ NoMishap /\ UNCHANGED <<cleaning, thread, last, bound, latch, stop, closed, ghostVars>>

\* The submission keeps its consumer for the next round only if its Reviewer can
\* be continued or still has to be cleaned up.
ToBeContinued == listed /\ (kept.intr \/ kept.start \/ (Here /\ kept.intent = "none" /\ ~kept.failure))

Close ==
  /\ stage = "idle" /\ current # 0 /\ sends[current] = "settled" /\ ~closed /\ ~ToBeContinued
  /\ closed' = TRUE
  /\ NoMishap
  /\ UNCHANGED <<stage, run, kept, listed, cleaning, thread, last, pins, bound, latch, stop>>
  /\ UNCHANGED <<sends, current, ghostVars>>

----------------------------------------------------------------------------
(* run: the thread.                                                         *)

\* Creation, retried; a task that it could not configure it releases itself.
Create ==
  /\ At("create")
  /\ \/ /\ ~run.aborted /\ NoMishap
        /\ thread' = "here" /\ last' = "none" /\ doubled' = (doubled \/ MayRun)
        /\ run' = [run EXCEPT !.claimed = TRUE] /\ Enter("bind")
     \/ /\ IF run.aborted THEN NoMishap ELSE Mishap
        /\ Ended(FALSE) /\ UNCHANGED <<thread, last, doubled>>
  /\ UNCHANGED <<kept, listed, cleaning, pins, bound, latch, stop, callVars, read, missed>>

\* onThread writes the binding; the thread waits for it rather than be lost.
Bind ==
  /\ At("bind")
  /\ \/ /\ bound' = TRUE /\ kept' = [kept EXCEPT !.binding = FALSE] /\ Enter("interrupting")
        /\ NoMishap /\ UNCHANGED <<run, listed>>
     \/ WaitInThread([Plain EXCEPT !.binding = TRUE]) /\ Mishap /\ UNCHANGED bound
  /\ UNCHANGED <<cleaning, thread, last, pins, latch, stop, callVars, ghostVars>>

\* ensureRunning, and the interruption that a former run left unconfirmed. A
\* cancel in the meantime wins over it: that turn is given up.
Resolve ==
  /\ At("interrupting") /\ UNCHANGED <<cleaning, thread, pins, bound, latch, stop, callVars, read, doubled>>
  /\ \/ /\ ~CanRun /\ Catch("terminal") /\ NoMishap
        /\ last' \in {last} \cup (IF kept.intr THEN {"over"} ELSE {})
        /\ missed' = (missed \/ (kept.intr /\ ~listed' /\ MayRun'))
     \/ /\ CanRun /\ ~kept.intr /\ NoMishap
        /\ Enter(IF kept.start THEN "resuming" ELSE "go") /\ UNCHANGED <<run, kept, listed, last, missed>>
     \/ /\ CanRun /\ kept.intr /\ NoMishap
        /\ last' = "over" /\ kept' = [kept EXCEPT !.intr = FALSE] /\ Enter("go")
        /\ UNCHANGED <<run, listed, missed>>
     \/ /\ kept.intr /\ Mishap /\ UNCHANGED last
        /\ WaitInThread([Plain EXCEPT !.intr = TRUE])
        /\ missed' = (missed \/ (~listed' /\ MayRun))

\* A start whose reply was not seen: still unknown or to be cleaned up, or its
\* turn, registered now, is waited for like a fresh one.
ResumeStart ==
  /\ At("resuming")
  /\ IF kept.intent # "none" \/ last \notin {"running", "over"} \/ ~Here
     THEN WaitForReceipt
     ELSE /\ run' = [run EXCEPT !.resumed = TRUE, !.error = IF Latched THEN "latch" ELSE "none"]
          /\ Enter(IF Latched THEN "stopping" ELSE "started") /\ UNCHANGED <<kept, listed>>
  /\ NoMishap /\ UNCHANGED <<cleaning, thread, last, pins, bound, latch, stop, callVars, ghostVars>>

\* confirmRetainedInterruption: the receipt's cleanup, or the interruption; of a
\* lost process, that it is gone.
CanConfirm ==
  IF kept.start THEN last = "over" \/ thread = "lost" \/ (last = "running" /\ Here)
  ELSE kept.intr => Here \/ thread = "lost"

\* A terminal failure that waited for its cleanup is told at last.
Confirm ==
  /\ At("confirm")
  /\ \/ /\ CanConfirm /\ NoMishap
        /\ last' = IF kept.start \/ kept.intr THEN "over" ELSE last
        /\ kept' = [kept EXCEPT !.start = FALSE, !.intr = FALSE] /\ listed' = FALSE
        /\ Ended(FALSE)
     \/ /\ (~CanConfirm /\ NoMishap) \/ (CanConfirm /\ Mishap)
        /\ Ended(TRUE) /\ listed' = TRUE /\ UNCHANGED <<last, kept>>
  /\ UNCHANGED <<cleaning, thread, pins, bound, latch, stop, callVars, ghostVars>>

----------------------------------------------------------------------------
(* run: its turns.                                                          *)

\* Before each visible turn and before the conversion.
Go ==
  /\ At("go") /\ UNCHANGED <<cleaning, thread, last, pins, bound, latch, stop, callVars, ghostVars>>
  /\ NoMishap
  /\ IF CanRun THEN Enter("starting") /\ UNCHANGED <<run, kept, listed>> ELSE Catch("terminal")

\* The only continuation of a failed visible turn, on the same thread. A failed
\* wait for a start that is resumed is not continued in this run.
Continues(e) == run.kind = "visible" /\ run.next = 0 /\ e = "transient" /\ ~run.aborted /\ ~Latched
ContinuesHere(e) == Continues(e) /\ ~run.resumed
TurnFails(e) ==
  IF ContinuesHere(e) THEN Enter("go") /\ run' = [run EXCEPT !.next = 1] /\ UNCHANGED <<kept, listed>>
  ELSE Catch(e)

\* startTurn, up to its request; a transient error may come before it.
StartTurn ==
  /\ At("starting") /\ UNCHANGED <<cleaning, thread, pins, bound, latch, stop, callVars, read, missed>>
  /\ IF run.aborted \/ ~Here THEN Catch("terminal") /\ NoMishap /\ UNCHANGED <<last, doubled>>
     ELSE \/ /\ last' = "sent" /\ doubled' = (doubled \/ MayRun) /\ NoMishap
             /\ Enter("sent") /\ run' = [run EXCEPT !.asked = FALSE, !.error = "none"]
             /\ UNCHANGED <<kept, listed>>
          \/ \E e \in {"transient", "terminal"} : TurnFails(e) /\ Mishap /\ UNCHANGED <<last, doubled>>

\* Mutant: a turn that starts late is registered, whatever was cancelled.
RegistersAnyway == "started"

\* onStarted: the latch is looked at as soon as the turn is registered.
Registers == IF Latched THEN "stopping" ELSE "started"

\* The reply of turn/start, read by the run or kept for it.
ReplyArrives ==
  /\ last = "sent" /\ Here
  /\ \/ /\ last' = "running" /\ NoMishap /\ UNCHANGED <<kept, listed>>
        /\ IF At("sent") THEN /\ Enter(Registers)
                               /\ run' = [run EXCEPT !.error = IF Latched THEN "latch" ELSE "none"]
           ELSE UNCHANGED <<stage, run>>
     \/ /\ last' = "bad" /\ Mishap
        /\ IF At("sent") THEN WaitForReceipt ELSE UNCHANGED <<stage, run, kept, listed>>
     \/ /\ At("sent") /\ last' = "over" /\ Mishap
        /\ \E e \in {"transient", "terminal"} : TurnFails(e)
  /\ UNCHANGED <<cleaning, thread, pins, bound, latch, stop, callVars, ghostVars>>

\* The caller is aborted, the request times out or its process is lost.
GiveUpStart ==
  /\ At("sent")
  /\ IF run.aborted \/ ~Here THEN NoMishap ELSE Mishap
  /\ WaitForReceipt
  /\ UNCHANGED <<cleaning, thread, last, pins, bound, latch, stop, callVars, ghostVars>>

\* The registration is written; its failure leaves a turn to be interrupted.
Registered ==
  /\ At("started")
  /\ \/ Enter("waiting") /\ UNCHANGED run /\ NoMishap
     \/ Enter("stopping") /\ run' = [run EXCEPT !.error = "terminal"] /\ Mishap
  /\ UNCHANGED <<kept, listed, cleaning, thread, last, pins, bound, latch, stop, callVars, ghostVars>>

\* waitForTurn ends without the turn: its caller is aborted, or time is up.
WithdrawWait ==
  /\ At("waiting") /\ last # "over" /\ Here
  /\ IF run.aborted THEN NoMishap ELSE Mishap
  /\ Enter("stopping") /\ run' = [run EXCEPT !.error = IF run.aborted THEN "abort" ELSE "transient"]
  /\ UNCHANGED <<kept, listed, cleaning, thread, last, pins, bound, latch, stop, callVars, ghostVars>>

\* The turn is interrupted, or that is not confirmed.
Stopping ==
  /\ At("stopping") /\ UNCHANGED <<cleaning, thread, pins, bound, latch, stop, callVars, ghostVars>>
  /\ \/ /\ ~Here /\ TurnFails(run.error) /\ NoMishap /\ UNCHANGED last
     \/ /\ Here /\ last' = "over" /\ NoMishap
        /\ IF ContinuesHere(run.error) THEN TurnFails(run.error)
           ELSE IF run.error = "transient" \/ run.aborted THEN WaitInThread(Plain)
           ELSE Ended(FALSE) /\ UNCHANGED <<kept, listed>>
     \/ /\ Here /\ last = "running" /\ Mishap /\ UNCHANGED last
        /\ WaitForInterruption(run.error \in {"latch", "terminal"})

Lost ==
  /\ stage \in {"started", "waiting"} /\ ~Here
  /\ \E e \in {"transient", "terminal"} : TurnFails(e)
  /\ NoMishap /\ UNCHANGED <<cleaning, thread, last, pins, bound, latch, stop, callVars, ghostVars>>

\* A start that was resumed is accounted for.
Settled == IF run.resumed THEN kept' = [kept EXCEPT !.start = FALSE] /\ listed' = FALSE
           ELSE UNCHANGED <<kept, listed>>

\* The step after a review whose display is accepted.
AfterReview == "conversion"

\* The review is complete: a cancel in between wins; its display is accepted, to
\* be rewritten once, or of no use.
Reviewed ==
  \/ Latched /\ Ended(FALSE)
  \/ /\ ~Latched /\ Enter("go") /\ run' = [run EXCEPT !.text = TRUE, !.kind = AfterReview, !.resumed = FALSE]
  \/ /\ ~Latched /\ run.kind = "visible"
     /\ Enter("starting") /\ run' = [run EXCEPT !.kind = "rewrite", !.resumed = FALSE]
  \/ ~Latched /\ Ended(FALSE)

\* The end of a turn, by kind and status.
TurnDone ==
  /\ At("waiting") /\ last = "over" /\ Here /\ NoMishap
  /\ UNCHANGED <<cleaning, thread, last, pins, bound, latch, stop, callVars, doubled, missed>>
  /\ \/ /\ ~CanRun /\ run.resumed /\ Catch("terminal") /\ UNCHANGED read
     \/ /\ CanRun \/ ~run.resumed
        /\ \/ run.kind \in {"visible", "rewrite"} /\ Reviewed /\ Settled /\ read' = (read \/ stage' = "go")
           \/ run.kind = "rewrite" /\ Ended(FALSE) /\ Settled /\ UNCHANGED read
           \/ run.kind = "conversion" /\ Ended(FALSE) /\ Settled /\ UNCHANGED read
           \/ run.kind # "rewrite" /\ WaitInThread([Plain EXCEPT !.start = FALSE]) /\ UNCHANGED read
           \/ run.kind = "visible" /\ Continues("transient") /\ UNCHANGED read
              /\ Enter("go") /\ run' = [run EXCEPT !.next = 1, !.resumed = FALSE] /\ Settled
           \/ run.kind = "visible" /\ Ended(FALSE) /\ Settled /\ UNCHANGED read

----------------------------------------------------------------------------
(* The end of a run, and the cleanup of what it retained.                   *)

\* waitForStartReceipt after the evidence: what was cancelled is cleaned up now,
\* what cannot be known any more waits for its process to go.
Receipt ==
  /\ At("receipt")
  /\ IF Latched \/ kept.intent = "cancel"
     THEN /\ kept' = [kept EXCEPT !.intent = "cancel"] /\ cleaning' = listed /\ Enter("cleanup")
     ELSE /\ kept' = IF last = "bad" \/ ~Here THEN [kept EXCEPT !.intent = "terminal", !.failure = TRUE]
                   ELSE kept
          /\ Enter("ending") /\ UNCHANGED cleaning
  /\ NoMishap /\ UNCHANGED <<run, listed, thread, last, pins, bound, latch, stop, callVars, ghostVars>>

CleanedUp ==
  /\ At("cleanup") /\ ~cleaning /\ Enter("ending")
  /\ NoMishap
  /\ UNCHANGED <<run, kept, listed, cleaning, thread, last, pins, bound, latch, stop, callVars, ghostVars>>

\* releaseOwned, once: the thread is unsubscribed and the round ends.
Released == pins' = 0 /\ thread' = IF Here THEN "none" ELSE thread

\* finally: the latch of the submission goes, and what is not retained.
EndRun ==
  /\ At("ending")
  /\ IF run.keep THEN UNCHANGED <<pins, thread>> ELSE Released
  /\ latch' = latch \ {"key"} /\ Enter("idle") /\ run' = NoRun
  /\ sends' = Unwaited(sends, current)
  /\ NoMishap /\ UNCHANGED <<kept, listed, cleaning, last, bound, stop, current, closed, ghostVars>>

\* releaseRetainedReviewer: the retained Reviewer goes only when its turn is
\* known to be over.
Clean ==
  /\ cleaning /\ cleaning' = FALSE
  /\ \/ /\ CanConfirm /\ NoMishap
        /\ last' = IF kept.start \/ kept.intr THEN "over" ELSE last
        /\ kept' = [kept EXCEPT !.start = FALSE, !.intr = FALSE]
        /\ listed' = FALSE
        /\ IF listed THEN Released ELSE UNCHANGED <<pins, thread>>
     \/ /\ (~CanConfirm /\ NoMishap) \/ (CanConfirm /\ Mishap)
        /\ UNCHANGED <<kept, listed, last, pins, thread>>
  /\ UNCHANGED <<stage, run, bound, latch, stop, callVars, ghostVars>>

----------------------------------------------------------------------------
(* cancel, cancelSubmission and stop.                                       *)

\* The run is aborted and its turn interrupted, if there is one; what is
\* retained is cleaned up.
Revoke(r, l) ==
  /\ latch' = latch \cup l
  /\ run' = [r EXCEPT !.aborted = @ \/ (stage # "idle" /\ (Active \/ Preparing)), !.asked = @ \/ Active]
  /\ kept' = IF listed /\ kept.start THEN [kept EXCEPT !.intent = "cancel"] ELSE kept
  /\ cleaning' = (cleaning \/ listed)
  /\ NoMishap /\ UNCHANGED <<stage, listed, thread, last, pins, bound, ghostVars>>

Cancel ==
  /\ latch \cap {"workflow", "stopped"} = {}
  /\ Revoke(run, {"workflow"} \cup IF Active THEN {"key"} ELSE {})
  /\ UNCHANGED <<stop, callVars>>

\* The heartbeat finds the lease lost: the wait ends first, then the submission
\* is cancelled here.
LoseLease ==
  /\ current # 0 /\ sends[current] = "waiting" /\ "stopped" \notin latch
  /\ Revoke(CancelWait(current, current), {"key"})
  /\ sends' = Unwaited(sends, current)
  /\ UNCHANGED <<stop, current, closed>>

\* The plugin goes: what waits is aborted, then the runs end, then what they
\* retained is cleaned up.
Stop ==
  /\ stop = "no" /\ stop' = "sends"
  /\ latch' = latch \cup {"stopped"}
  /\ run' = IF stage = "idle" THEN run ELSE [run EXCEPT !.aborted = TRUE, !.asked = @ \/ Active]
  /\ sends' = Unwaited(sends, current)
  /\ NoMishap
  /\ UNCHANGED <<stage, kept, listed, cleaning, thread, last, pins, bound, current, closed, ghostVars>>

StopCleans ==
  /\ \/ stop = "sends" /\ stage = "idle" /\ stop' = "cleanups"
     \/ stop = "done" /\ listed /\ ~cleaning /\ UNCHANGED stop
  /\ Revoke(run, {"stopped"})
  /\ UNCHANGED callVars

StopEnds ==
  /\ stop = "cleanups" /\ ~cleaning /\ stop' = "done"
  /\ NoMishap
  /\ UNCHANGED <<stage, run, kept, listed, cleaning, thread, last, pins, bound, latch, callVars, ghostVars>>

----------------------------------------------------------------------------
\* The turn ends on the server; the process is lost.
TurnEnds ==
  /\ last = "running" /\ Here /\ last' = "over"
  /\ NoMishap
  /\ UNCHANGED <<stage, run, kept, listed, cleaning, thread, pins, bound, latch, stop, callVars, ghostVars>>

LoseThread ==
  /\ Here /\ thread' = "lost" /\ Mishap
  /\ UNCHANGED <<stage, run, kept, listed, cleaning, last, pins, bound, latch, stop, callVars, ghostVars>>

RunStep == \/ Create \/ Bind \/ Resolve \/ ResumeStart \/ Confirm \/ Go \/ StartTurn \/ GiveUpStart
           \/ Registered \/ WithdrawWait \/ Stopping \/ Lost \/ TurnDone \/ Receipt \/ CleanedUp \/ EndRun

CallbackNext ==
  \/ RunStep \/ ReplyArrives \/ Clean \/ TurnEnds \/ LoseThread
  \/ (\E e \in 1 .. MaxSends : Send(e)) \/ Close
  \/ Cancel \/ LoseLease \/ Stop \/ StopCleans \/ StopEnds

CallbackSpec == CallbackInit /\ [][CallbackNext]_callbackVars

\* Every await of a run has a time-out; stop awaits what it started.
CallbackLiveSpec ==
  /\ CallbackSpec
  /\ WF_callbackVars(RunStep) /\ WF_callbackVars(ReplyArrives)
  /\ WF_callbackVars(TurnEnds) /\ WF_callbackVars(Clean)
  /\ WF_callbackVars(stop = "sends" /\ StopCleans) /\ WF_callbackVars(StopEnds)

----------------------------------------------------------------------------
\* A turn that may still run is in the hands of the run or of the retained
\* Reviewer, with its round pinned, and it is the only one; after a cancel, a
\* lost lease or a stop, nobody goes on waiting for it without having asked for
\* its interruption; what is neither running nor retained holds nothing.
\* Excepted is the turn that a cancel makes the run give up while its former
\* interruption is being confirmed again.
InHand == \/ stage \in {"confirm", "interrupting", "resuming", "sent", "started", "waiting", "stopping",
                       "receipt", "cleanup"}
          \/ listed /\ (kept.start \/ kept.intr)
TurnIsHeld ==
  /\ CallbackTypeOK
  /\ ~doubled \/ missed
  /\ MayRun => missed \/ (InHand /\ pins = 1)
  /\ At("waiting") /\ Latched => run.asked \/ run.aborted
  /\ At("idle") /\ ~listed => pins = 0 /\ ~Here

\* A handover to the next consumer never disturbs the run that it adopts, and a
\* readable review is never made again: what is asked after it is its conversion.
HandoverKeepsTheRun == current' # current /\ ~At("idle") => run'.aborted = run.aborted
ReadOnce == read /\ stage' = "sent" /\ stage # "sent" => run.kind = "conversion"
ReviewIsKept == [][HandoverKeepsTheRun /\ ReadOnce]_callbackVars

\* Every send settles, and so does a stop.
CallsEnd ==
  /\ \A e \in 1 .. MaxSends : sends[e] = "waiting" ~> sends[e] = "settled"
  /\ stop = "sends" ~> stop = "done"
=============================================================================
