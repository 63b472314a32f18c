---------------------------- MODULE BridgeQueue ----------------------------
(***************************************************************************)
(* The durable bridge queue (infrastructure/queue-repository.ts behind     *)
(* bridge-store.ts) and the pump of each runtime that consumes it          *)
(* (bridge-runtime.ts).  Several DSH runtimes and CLI processes share one  *)
(* SQLite file; every statement below is one transaction.  A claim is a    *)
(* lease: the row carries an epoch, an owner and an expiry, and every      *)
(* settling statement is fenced on the epoch and the owner.                *)
(*                                                                         *)
(* Time is two flags of a row: `live` (claim_until > now) and `due`        *)
(* (next_attempt_at <= now).  A pump is single-flight, so a runtime has at *)
(* most one claim in hand.  What a handler does between the claim and its  *)
(* outcome is the matter of VerdictDelivery; here it picks any outcome.    *)
(***************************************************************************)
EXTENDS Naturals

CONSTANTS Requests,          \* request ids
          Runtimes,          \* consuming runtimes (one claim owner each)
          Plans,             \* command hashes of dispatch_plan commands
          Verdicts,          \* command hashes of verdict and notice commands
          Malformed,         \* hashes of rows the parser rejects
          NoOne,             \* the empty owner, the empty receipt
          Legacy,            \* author of a receipt imported from files
          MaxRetryAttempts,  \* options.maxRetryAttempts of the runtime
          MaxFaults,         \* bound: crashes, stalls, failed heartbeats, re-routings
          MaxOps             \* bound: operator and migration steps

ASSUME BoundsAssumption == /\ MaxRetryAttempts \in Nat
                           /\ MaxFaults \in Nat
                           /\ MaxOps \in Nat

ASSUME NamesAssumption == /\ NoOne \notin Runtimes \cup Requests
                          /\ Legacy \notin Runtimes \cup {NoOne}

\* The three kinds of command are told apart by the parser.
ASSUME KindsAssumption == /\ Plans \cap Verdicts = {}
                          /\ Malformed \cap (Plans \cup Verdicts) = {}
                          /\ NoOne \notin Plans \cup Verdicts \cup Malformed

VARIABLES rows,       \* rows[r]: the queue row of request r
          claim,      \* claim[c]: the claim runtime c is handling
          lost,       \* lost[c]: isLost() of c's current handler
          route,      \* route[r]: runtimes whose ownership router accepts r
          overtaken,  \* history: a row was taken from under a healthy handler
          faults,     \* faults so far, bounded by MaxFaults
          ops         \* operator steps so far, bounded by MaxOps

vars == <<rows, claim, lost, route, overtaken, faults, ops>>

Commands == Plans \cup Verdicts \cup Malformed
Statuses == {"absent", "inbox", "processing", "retry", "dead-letter", "done"}

\* Attempts are only ever compared with the limit, so they saturate above it.
AttemptCounts == 0 .. MaxRetryAttempts + 1
Bump(n) == IF n > MaxRetryAttempts THEN n ELSE n + 1

Row == [status : Statuses, hash : Commands \cup {NoOne}, epoch : Nat,
        owner : Runtimes \cup {NoOne}, live : BOOLEAN, due : BOOLEAN,
        attempts : AttemptCounts, receipt : Runtimes \cup {NoOne, Legacy}]

Absent == [status |-> "absent", hash |-> NoOne, epoch |-> 0, owner |-> NoOne,
           live |-> FALSE, due |-> FALSE, attempts |-> 0, receipt |-> NoOne]

NoClaim == [req |-> NoOne, hash |-> NoOne, epoch |-> 0, attempts |-> 0]
Claims == [req : Requests, hash : Commands, epoch : Nat, attempts : AttemptCounts]

Idle(c) == claim[c] = NoClaim

\* Mutant: the claim generation alone is compared.
EpochFence(c, r) == /\ rows[r].status = "processing"
                    /\ rows[r].epoch = claim[c].epoch

\* The fence of ack, retry, dead-letter, renew and quarantine: the row is
\* processing under exactly this epoch and this owner.
Fence(c, r) == /\ rows[r].status = "processing"
               /\ rows[r].epoch = claim[c].epoch
               /\ rows[r].owner = c

\* Runtime c holds request r, as the database sees it.
Holds(c, r) == claim[c].req = r /\ Fence(c, r)

----------------------------------------------------------------------------
Init == /\ rows = [r \in Requests |-> Absent]
        /\ claim = [c \in Runtimes |-> NoClaim]
        /\ lost = [c \in Runtimes |-> FALSE]
        /\ route \in [Requests -> SUBSET Runtimes]
        /\ overtaken = FALSE
        /\ faults = 0
        /\ ops = 0

Fault == faults < MaxFaults /\ faults' = faults + 1
Op == ops < MaxOps /\ ops' = ops + 1

\* A new request; a known id with the same hash is a no-op, with another hash
\* an error: neither changes the row.
Enqueue(r, h) ==
  /\ rows[r].status = "absent"
  /\ rows' = [rows EXCEPT ![r] = [Absent EXCEPT !.status = "inbox", !.hash = h]]
  /\ UNCHANGED <<claim, lost, route, overtaken, faults, ops>>

\* Whatever the router says, a malformed row may be claimed by anyone.
Eligible(c, r) == c \in route[r] \/ rows[r].hash \in Malformed

DueRetries(c) == {r \in Requests : rows[r].status = "retry" /\ rows[r].due /\ Eligible(c, r)}
Inbox(c) == {r \in Requests : rows[r].status = "inbox" /\ Eligible(c, r)}

\* Mutant: a claim in progress is taken over before it expires.
InProgress(c) == {r \in Requests : rows[r].status = "processing" /\ Eligible(c, r)}
Expired(c) == {r \in Requests : rows[r].status = "processing" /\ ~rows[r].live /\ Eligible(c, r)}

\* Mutant: a due retry that this runtime may not claim hides the inbox from it.
BlockedCandidates(c) ==
  IF \E r \in Requests : rows[r].status = "retry" /\ rows[r].due
  THEN DueRetries(c) ELSE Expired(c) \cup Inbox(c)

\* Due retries first, then expired claims, then the inbox.
Candidates(c) == CASE DueRetries(c) # {} -> DueRetries(c)
                   [] DueRetries(c) = {} /\ Expired(c) # {} -> Expired(c)
                   [] OTHER -> Inbox(c)

\* What the handler keeps of the row it claimed.
ClaimOn(r) == [req |-> r, hash |-> rows[r].hash, epoch |-> rows[r].epoch + 1,
               attempts |-> rows[r].attempts]

\* claimNext: one transaction selects the row, bumps the epoch, takes it over.
Claim(c, r) ==
  /\ Idle(c)
  /\ r \in Candidates(c)
  /\ rows' = [rows EXCEPT ![r].status = "processing", ![r].epoch = @ + 1,
                          ![r].owner = c, ![r].live = TRUE, ![r].due = FALSE]
  /\ claim' = [claim EXCEPT ![c] = ClaimOn(r)]
  /\ lost' = [lost EXCEPT ![c] = FALSE]
  /\ UNCHANGED <<route, overtaken, faults, ops>>

\* The handler of c ends; its heartbeat timer is cleared.
Drop(c) == /\ claim' = [claim EXCEPT ![c] = NoClaim]
           /\ lost' = [lost EXCEPT ![c] = FALSE]

----------------------------------------------------------------------------
(* Fenced outcomes.  A statement whose fence fails changes 0 rows.          *)

AckedRow(row, c) == [row EXCEPT !.status = "done", !.receipt = c, !.live = FALSE]

RetriedRow(row) == [row EXCEPT !.status = "retry", !.attempts = Bump(@), !.owner = NoOne,
                               !.live = FALSE, !.due = FALSE]

\* Mutant: the dead letter keeps its lease.
LeasedDeadRow(row) == [row EXCEPT !.status = "dead-letter", !.attempts = Bump(@)]

DeadRow(row) == [row EXCEPT !.status = "dead-letter", !.attempts = Bump(@), !.owner = NoOne,
                            !.live = FALSE, !.due = FALSE]

QuarantinedRow(row) == [row EXCEPT !.status = "dead-letter", !.owner = NoOne, !.live = FALSE]

FencedWrite(c, r, row) ==
  rows' = IF Fence(c, r) THEN [rows EXCEPT ![r] = row] ELSE rows

\* The handler finished and still believes in its claim: receipt and done.
Ack(c, r) ==
  /\ claim[c].req = r
  /\ claim[c].hash \notin Malformed
  /\ ~lost[c]
  /\ FencedWrite(c, r, AckedRow(rows[r], c))
  /\ Drop(c)
  /\ UNCHANGED <<route, overtaken, faults, ops>>

\* Mutant: the failure at hand is not counted.
LateExhausted(c) == claim[c].attempts > MaxRetryAttempts

Exhausted(c) == claim[c].attempts + 1 > MaxRetryAttempts

\* A dispatch failed: parked for another attempt, or dead once the attempts
\* counted when it was claimed are used up.
RetryOrDeadLetter(c, r) ==
  /\ claim[c].req = r
  /\ claim[c].hash \in Plans
  /\ ~lost[c]
  /\ FencedWrite(c, r, IF Exhausted(c) THEN DeadRow(rows[r]) ELSE RetriedRow(rows[r]))
  /\ Drop(c)
  /\ UNCHANGED <<route, overtaken, faults, ops>>

\* A verdict or a notice met an absent session or a failing store, or the
\* delivery of a relayed plan could not be recorded: the request is parked
\* however often that happened before.
Park(c, r) ==
  /\ claim[c].req = r
  /\ claim[c].hash \notin Malformed
  /\ ~lost[c]
  /\ FencedWrite(c, r, RetriedRow(rows[r]))
  /\ Drop(c)
  /\ UNCHANGED <<route, overtaken, ops>>

RetryPersistent(c, r) == Fault /\ Park(c, r)

\* The handler threw: the pump dead-letters without asking isLost.
PumpDeadLetter(c, r) ==
  /\ claim[c].req = r
  /\ claim[c].hash \notin Malformed
  /\ FencedWrite(c, r, DeadRow(rows[r]))
  /\ Drop(c)
  /\ UNCHANGED <<route, overtaken, faults, ops>>

\* A claimed row that does not parse is quarantined before any handler runs.
Quarantine(c, r) ==
  /\ claim[c].req = r
  /\ claim[c].hash \in Malformed
  /\ FencedWrite(c, r, QuarantinedRow(rows[r]))
  /\ Drop(c)
  /\ UNCHANGED <<route, overtaken, faults, ops>>

\* A handler that knows it lost its claim returns without writing.
ReturnLost(c) ==
  /\ ~Idle(c)
  /\ lost[c]
  /\ Drop(c)
  /\ UNCHANGED <<rows, route, overtaken, faults, ops>>

----------------------------------------------------------------------------
(* Lease, time and failures.                                                *)

\* The claim heartbeat: renews under the fence, even a claim that has expired;
\* a renewal that changes no row tells the handler it lost the claim.
Heartbeat(c, r) ==
  /\ claim[c].req = r
  /\ claim[c].hash \notin Malformed
  /\ ~lost[c]
  /\ IF Fence(c, r)
     THEN ~rows[r].live /\ rows' = [rows EXCEPT ![r].live = TRUE] /\ UNCHANGED lost
     ELSE lost' = [lost EXCEPT ![c] = TRUE] /\ UNCHANGED rows
  /\ UNCHANGED <<claim, route, overtaken, faults, ops>>

\* A renewal that throws ends the heartbeat for good.
HeartbeatError(c) ==
  /\ ~Idle(c)
  /\ claim[c].hash \notin Malformed
  /\ ~lost[c]
  /\ Fault
  /\ lost' = [lost EXCEPT ![c] = TRUE]
  /\ UNCHANGED <<rows, claim, route, overtaken, ops>>

\* The process dies (and restarts under a new claim owner), or its handler
\* returns without an outcome because the settling write itself failed.
Crash(c) ==
  /\ ~Idle(c)
  /\ Fault
  /\ Drop(c)
  /\ UNCHANGED <<rows, route, overtaken, ops>>

\* Somebody renews the claim on r in time.
Renewed(r) == \E c \in Runtimes : Holds(c, r) /\ ~lost[c]

\* The claim lease runs out: in time when nobody renews it, and by a stall of
\* the process when somebody should.
Expire(r) ==
  /\ rows[r].status = "processing"
  /\ rows[r].live
  /\ ~Renewed(r)
  /\ rows' = [rows EXCEPT ![r].live = FALSE]
  /\ UNCHANGED <<claim, lost, route, overtaken, faults, ops>>

Stall(r) ==
  /\ rows[r].status = "processing"
  /\ rows[r].live
  /\ Renewed(r)
  /\ Fault
  /\ rows' = [rows EXCEPT ![r].live = FALSE]
  /\ overtaken' = TRUE
  /\ UNCHANGED <<claim, lost, route, ops>>

\* next_attempt_at is reached.
RetryDue(r) ==
  /\ rows[r].status = "retry"
  /\ ~rows[r].due
  /\ rows' = [rows EXCEPT ![r].due = TRUE]
  /\ UNCHANGED <<claim, lost, route, overtaken, faults, ops>>

\* Mutant: recovery resets the claim generation.
ResetRow(row) == [row EXCEPT !.status = "retry", !.owner = NoOne, !.due = TRUE, !.epoch = 0]

\* A starting runtime moves every expired claim back to retry, due now.
RecoveredRow(row) == [row EXCEPT !.status = "retry", !.owner = NoOne, !.due = TRUE]

RecoverOrphans ==
  /\ \E r \in Requests : rows[r].status = "processing" /\ ~rows[r].live
  /\ rows' = [r \in Requests |-> IF rows[r].status = "processing" /\ ~rows[r].live
                                 THEN RecoveredRow(rows[r]) ELSE rows[r]]
  /\ UNCHANGED <<claim, lost, route, overtaken, faults, ops>>

\* Sessions appear, disappear and move between runtimes.
Reroute(r, S) ==
  /\ route[r] # S
  /\ Fault
  /\ route' = [route EXCEPT ![r] = S]
  /\ UNCHANGED <<rows, claim, lost, overtaken, ops>>

----------------------------------------------------------------------------
(* Operator commands and the one-time import of the file queue.             *)

Requeueable(r) == rows[r].status = "dead-letter"

\* `requeue` revives dead letters only; attempts stay as an audit trail.
Requeue(r) ==
  /\ Requeueable(r)
  /\ Op
  /\ rows' = [rows EXCEPT ![r].status = "retry", ![r].due = TRUE, ![r].owner = NoOne]
  /\ UNCHANGED <<claim, lost, route, overtaken, faults>>

\* A row of the file queue enters unless the id is known.
ImportRow(r, h, s, n) ==
  /\ rows[r].status = "absent"
  /\ Op
  /\ \E d \in BOOLEAN :
       /\ d => s = "retry"
       /\ rows' = [rows EXCEPT ![r] = [Absent EXCEPT !.status = s, !.hash = h,
                                                     !.attempts = n, !.due = d]]
  /\ UNCHANGED <<claim, lost, route, overtaken, faults>>

Importable(r) == rows[r].receipt = NoOne

ReceivedRow(row, h) ==
  [row EXCEPT !.status = "done", !.receipt = Legacy, !.owner = NoOne, !.live = FALSE,
              !.due = FALSE, !.hash = IF row.status = "absent" THEN h ELSE row.hash]

\* A receipt of the file queue enters unless the row has one; it finishes the
\* row whatever its status, a claim in progress included.
ImportReceipt(r, h) ==
  /\ Importable(r)
  /\ Op
  /\ rows' = [rows EXCEPT ![r] = ReceivedRow(rows[r], h)]
  /\ overtaken' = (overtaken \/ Renewed(r))
  /\ UNCHANGED <<claim, lost, route, faults>>

\* `prune` deletes an old finished row, and its epoch with it.
Prune(r) ==
  /\ rows[r].status = "done"
  /\ Op
  /\ rows' = [rows EXCEPT ![r] = Absent]
  /\ UNCHANGED <<claim, lost, route, overtaken, faults>>

----------------------------------------------------------------------------
Finish(c, r) == \/ Ack(c, r) \/ RetryOrDeadLetter(c, r) \/ RetryPersistent(c, r)
                \/ PumpDeadLetter(c, r) \/ Quarantine(c, r)

Next == \/ \E r \in Requests, h \in Commands : Enqueue(r, h) \/ ImportReceipt(r, h)
        \/ \E r \in Requests, h \in Commands, s \in {"inbox", "retry", "dead-letter"},
              n \in AttemptCounts : ImportRow(r, h, s, n)
        \/ \E c \in Runtimes, r \in Requests :
              Claim(c, r) \/ Finish(c, r) \/ Heartbeat(c, r)
        \/ \E c \in Runtimes : ReturnLost(c) \/ HeartbeatError(c) \/ Crash(c)
        \/ \E r \in Requests :
              Expire(r) \/ Stall(r) \/ RetryDue(r) \/ Requeue(r) \/ Prune(r)
        \/ \E r \in Requests, S \in SUBSET Runtimes : Reroute(r, S)
        \/ RecoverOrphans

Spec == Init /\ [][Next]_vars

\* The pump of a runtime runs on a timer and every handler ends; a lease that
\* is not renewed runs out and a parked row comes due as time passes.
Fairness ==
  /\ \A c \in Runtimes : WF_vars(\E r \in Requests : Claim(c, r))
  /\ \A c \in Runtimes : WF_vars(ReturnLost(c) \/ \E r \in Requests : Finish(c, r))
  /\ \A r \in Requests : WF_vars(Expire(r)) /\ WF_vars(RetryDue(r))

LiveSpec == Spec /\ Fairness

----------------------------------------------------------------------------
(* Properties.                                                              *)

\* A row's fields agree with its status: only a known request has a command,
\* only a claim in progress has a running lease, only a parked row
\* comes due, only a finished row has a receipt, and no row that waits or is
\* dead names an owner.
RowShape(row) == /\ row.hash = NoOne <=> row.status = "absent"
                 /\ row.live => row.status = "processing"
                 /\ row.due => row.status = "retry"
                 /\ row.receipt # NoOne <=> row.status = "done"
                 /\ row.owner # NoOne => row.status \in {"processing", "done"}
                 /\ row.status = "processing" => row.owner # NoOne

\* Types of the queue, the claims and the bookkeeping, and the shape of the rows.
TypeOK == /\ rows \in [Requests -> Row]
          /\ \A r \in Requests : RowShape(rows[r])
          /\ claim \in [Runtimes -> Claims \cup {NoClaim}]
          /\ lost \in [Runtimes -> BOOLEAN]
          /\ route \in [Requests -> SUBSET Runtimes]
          /\ overtaken \in BOOLEAN
          /\ faults \in 0 .. MaxFaults
          /\ ops \in 0 .. MaxOps

\* A row in processing that names a runtime as its owner names the claim that
\* runtime has in hand, epoch included, if it has one on that request: an
\* older handle of the same runtime can never pass the fence.
HandleIsCurrent ==
  \A c \in Runtimes, r \in Requests :
    (rows[r].status = "processing" /\ rows[r].owner = c /\ claim[c].req = r)
      => claim[c].epoch = rows[r].epoch

\* Two runtimes that both believe they own a request exist only after a stall
\* longer than the lease, or after a receipt was imported over a live claim:
\* crashes, failed heartbeats, recovery, routing and operators never cause it.
ExclusiveUnlessOvertaken ==
  ~overtaken => \A c, d \in Runtimes :
                  (c # d /\ ~Idle(c) /\ ~lost[c] /\ ~Idle(d) /\ ~lost[d])
                    => claim[c].req # claim[d].req

\* A finished request keeps its receipt and never runs again; only prune may
\* remove it.
DoneIsFinal ==
  [][\A r \in Requests : rows[r].status = "done"
        => rows'[r] = rows[r] \/ rows'[r].status = "absent"]_vars

\* While a row exists its command is immutable and its epoch never decreases:
\* an id cannot be reused for another payload and no claim generation recurs.
IdentityIsStable ==
  [][\A r \in Requests : (rows[r].status # "absent" /\ rows'[r].status # "absent")
        => rows'[r].hash = rows[r].hash /\ rows'[r].epoch >= rows[r].epoch]_vars

\* A failed dispatch of a plan parks it only while the row has attempts left;
\* the count is the row's, although the handler decides on a copy.  Beyond that
\* only a failing store, which counts as a fault, parks a plan again.
RetriesAreBudgeted ==
  [][\A r \in Requests :
        (/\ rows[r].status = "processing" /\ rows'[r].status = "retry"
         /\ rows[r].hash \in Plans /\ rows'[r].attempts # rows[r].attempts
         /\ faults' = faults)
        => rows'[r].attempts <= MaxRetryAttempts]_vars

\* Every queued request that some runtime may claim is eventually finished or
\* dead-lettered, whatever other requests nobody may claim are queued before it.
Pending(r) == rows[r].status \in {"inbox", "retry", "processing"}
EverySettled ==
  \A r \in Requests : (Pending(r) /\ route[r] # {})
                        ~> (rows[r].status \in {"done", "dead-letter"} \/ route[r] = {})

\* A request has one owner, and that owner one handle that passes the fence.
OneOwner == HandleIsCurrent /\ ExclusiveUnlessOvertaken

\* What is finished stays finished, and what exists stays the same request.
RowsAreStable == DoneIsFinal /\ IdentityIsStable

\* The SQLite queue implements the abstract queue: only the current holder of
\* a request settles it.
StageOf(s) == CASE s = "absent" -> "unknown"
                [] s \in {"inbox", "retry"} -> "waiting"
                [] s = "processing" -> "held"
                [] s = "done" -> "done"
                [] OTHER -> "dead"

Abstract == INSTANCE FencedQueue WITH
  stage <- [r \in Requests |-> StageOf(rows[r].status)],
  holder <- [r \in Requests |-> IF rows[r].status = "processing" THEN rows[r].owner ELSE NoOne],
  working <- [c \in Runtimes |-> claim[c].req]

ImplementsFencedQueue == Abstract!Spec
=============================================================================
