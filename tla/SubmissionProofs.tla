--------------------------- MODULE SubmissionProofs ---------------------------
(***************************************************************************)
(* Theorems about the background review of submissions, for any runtimes,  *)
(* submissions, tries, edits and faults: one review and one verdict for a  *)
(* submission, whoever continues it.                                       *)
(*                                                                         *)
(* The inductive invariant follows the chain that keeps a review from      *)
(* being repeated.  Only the runtime whose lease row and whose stamp on    *)
(* the record agree creates a Reviewer; once one was created, a run that   *)
(* holds the lease needs that Reviewer, has it, or has its result.         *)
(***************************************************************************)
EXTENDS Submission, FiniteSetTheorems, TLAPS

\* The places of a run before, and after, its submission is being sent.
Before == {"startup", "check", "verify", "send"}
During == {"call", "thread", "retain", "reuse", "align", "stage", "conflict", "busy"}
InRun == RunSteps \cup {"startup", "claim"}

\* No write fails between the verdict that was minted and its reception.
Lossless == {"note", "receive"} \cap FaultKinds = {}

\* What was done for a submission, and what the record still says of it.
History ==
  /\ rec.sub = 0 => rec.state = "none"
  /\ rec.phase = "executing" => rec.failures <= 1
  /\ \A s \in Subs :
       /\ s > rec.sub => ~past[s].created /\ past[s].minted = 0
       /\ ~past[s].created => past[s].reviewed = 0
       /\ past[s].created /\ rec.sub = s => rec.sent /\ rec.origin
       /\ past[s].minted > 0 /\ rec.sub = s => rec.state \notin Recoverable
       /\ past[s].reviewed <= 1 /\ past[s].minted <= 1
       /\ Lossless /\ past[s].minted > 0 /\ rec.sub = s /\ rec.phase # "cancelled" =>
            rec.state \in {"verdict_ready", "received", "delivered"}

\* A Reviewer that may still answer exists in one process, and has not answered yet.
Thread(c, s) == s \in mem[c].cont \/ (at[c] = "thread" /\ run[c].sub = s)
Threads ==
  \A c \in Runtimes, s \in Subs : Thread(c, s) =>
    /\ past[s].created /\ past[s].reviewed = 0
    /\ \A d \in Runtimes \ {c} : ~Thread(d, s)

\* What keeps a run from creating a second Reviewer.
NoReview(c) ==
  \/ run[c].needs \/ run[c].sub \in mem[c].cont \cup mem[c].gone
  \/ mem[c].cp = run[c].sub \/ rec.phase # "executing"

\* What the run of one runtime may rely on at its place.
Mine(c) ==
  /\ run[c].sub <= rec.sub
  /\ at[c] \in InRun => run[c].sub # 0
  /\ at[c] \in Before \cup {"claim"} => run[c].tries < MaxTries
  /\ at[c] = "call" => mem[c].cp # run[c].sub /\ (rec.sub = run[c].sub => rec.sent)
  /\ at[c] \in {"reuse", "align", "stage", "conflict"} =>
       mem[c].cp = run[c].sub \/ rec.phase # "executing"
  /\ /\ at[c] \in Before \cup {"call", "busy"} /\ Stamped(c)
     /\ lease[run[c].sub].owner = c /\ past[run[c].sub].created
     => NoReview(c)
  /\ at[c] \in Before /\ Stamped(c) => rec.state \in Recoverable
  /\ at[c] \in During /\ Stamped(c) => rec.state = "sending"
  /\ Lossless /\ at[c] = "fail" /\ Stamped(c) => rec.state \in Recoverable

Inv == TypeOK /\ History /\ Threads /\ \A c \in Runtimes : Mine(c)

----------------------------------------------------------------------------
(* Lemmas on the record, the leases and the places of a run.                *)

\* The bounds are numbers.
LEMMA NumbersOK ==
  /\ MaxSubs \in Nat \ {0} /\ MaxTries \in Nat \ {0} /\ MaxEdits \in Nat /\ MaxFaults \in Nat
  /\ 0 \notin Subs /\ \A s \in Subs : s \in 1 .. MaxSubs /\ s \in Nat
BY BoundsAssumption DEF Subs

\* What is known of a runtime and its run.
LEMMA RuntimeOK ==
  ASSUME TypeOK, NEW c \in Runtimes
  PROVE  /\ at[c] \in Steps /\ run[c] \in Run /\ mem[c] \in Memory
         /\ run[c].sub \in 0 .. MaxSubs /\ run[c].sub \in Nat /\ (run[c].sub # 0 => run[c].sub \in Subs)
         /\ rec.sub \in 0 .. MaxSubs /\ rec.sub \in Nat
BY NumbersOK DEF TypeOK, Run, Subs, Record

\* A runtime goes to another place.
LEMMA GotoOK ==
  ASSUME TypeOK, NEW c \in Runtimes, NEW s \in Steps, Goto(c, s)
  PROVE  /\ at' \in [Runtimes -> Steps] /\ at'[c] = s
         /\ \A d \in Runtimes \ {c} : at'[d] = at[d]
BY DEF TypeOK, Goto

\* What the step of another runtime leaves to the run of d.
Leaves(d) ==
  /\ at'[d] = at[d] /\ run'[d] = run[d] /\ mem'[d] = mem[d]
  /\ rec'.sub >= rec.sub
  /\ rec'.sub = rec.sub /\ rec.sent => rec'.sent
  /\ rec.phase # "executing" => rec'.phase # "executing"
  /\ Stamped(d)' => Stamped(d) /\ (rec'.state = rec.state \/ rec.state \notin Recoverable)
  /\ run[d].sub # 0 /\ lease'[run[d].sub].owner = d => lease[run[d].sub].owner = d
  /\ run[d].sub # 0 /\ lease[run[d].sub].owner = d /\ past'[run[d].sub].created => past[run[d].sub].created

LEMMA MineKept ==
  ASSUME TypeOK, TypeOK', NEW d \in Runtimes, Mine(d), Leaves(d)
  PROVE  Mine(d)'
<1>1. /\ run[d].sub \in Nat /\ rec.sub \in Nat /\ rec'.sub \in Nat
  BY NumbersOK, RuntimeOK DEF TypeOK, Record
<1>2. /\ (run[d].sub <= rec.sub)' /\ (at[d] \in InRun => run[d].sub # 0)'
      /\ (at[d] \in Before \cup {"claim"} => run[d].tries < MaxTries)'
      /\ (at[d] = "call" => mem[d].cp # run[d].sub /\ (rec.sub = run[d].sub => rec.sent))'
      /\ (at[d] \in {"reuse", "align", "stage", "conflict"} =>
            mem[d].cp = run[d].sub \/ rec.phase # "executing")'
  BY <1>1 DEF Mine, Leaves
<1>3. (/\ at[d] \in Before \cup {"call", "busy"} /\ Stamped(d)
       /\ lease[run[d].sub].owner = d /\ past[run[d].sub].created
       => NoReview(d))'
  <2>1. at[d] \in Before \cup {"call", "busy"} => run[d].sub # 0
    BY DEF Mine, Before, InRun, RunSteps
  <2> QED BY <2>1 DEF Mine, Leaves, NoReview
<1>4. /\ (at[d] \in Before /\ Stamped(d) => rec.state \in Recoverable)'
      /\ (at[d] \in During /\ Stamped(d) => rec.state = "sending")'
      /\ (Lossless /\ at[d] = "fail" /\ Stamped(d) => rec.state \in Recoverable)'
  BY DEF Mine, Leaves, Recoverable
<1> QED BY <1>2, <1>3, <1>4 DEF Mine

\* A thread that is not a new one is still the only one.
LEMMA ThreadsKept ==
  ASSUME Threads, past' = past,
         \A c \in Runtimes, s \in Subs : Thread(c, s)' => Thread(c, s)
  PROVE  Threads'
BY DEF Threads

\* A record that goes forward keeps what was done for its submission.
LEMMA HistoryKept ==
  ASSUME TypeOK, History, past' = past, rec'.sub = rec.sub, rec.sub = 0 => rec'.state = "none",
         rec.sent => rec'.sent, rec.origin => rec'.origin,
         rec.state \notin Recoverable => rec'.state \notin Recoverable,
         rec.phase = "cancelled" => rec'.phase = "cancelled", rec'.phase = "executing" => rec'.failures <= 1,
         Lossless /\ rec'.phase # "cancelled" /\ rec.state \in {"verdict_ready", "received", "delivered"} =>
           rec'.state \in {"verdict_ready", "received", "delivered"}
  PROVE  History'
BY DEF History

\* A step of the run of c that writes the record forward.
LEMMA InvWrites ==
  ASSUME Inv, NEW c \in Runtimes, TypeOK', UNCHANGED past, Mine(c)',
         \A d \in Runtimes \ {c}, s \in Subs : lease'[s].owner = d => lease[s].owner = d,
         \A d \in Runtimes \ {c} : at'[d] = at[d] /\ run'[d] = run[d] /\ mem'[d] = mem[d],
         at'[c] = "thread" => at[c] = "thread" /\ run'[c].sub = run[c].sub,
         mem'[c].cont \subseteq mem[c].cont,
         rec'.sub = rec.sub, rec.sub = 0 => rec'.state = "none",
         rec.sent => rec'.sent, rec.origin => rec'.origin,
         rec.phase # "executing" => rec'.phase # "executing",
         \A d \in Runtimes \ {c} :
           Stamped(d)' => Stamped(d) /\ (rec'.state = rec.state \/ rec.state \notin Recoverable),
         rec.state \notin Recoverable => rec'.state \notin Recoverable,
         rec.phase = "cancelled" => rec'.phase = "cancelled", rec'.phase = "executing" => rec'.failures <= 1,
         Lossless /\ rec'.phase # "cancelled" /\ rec.state \in {"verdict_ready", "received", "delivered"} =>
           rec'.state \in {"verdict_ready", "received", "delivered"}
  PROVE  Inv'
<1>1. History'
  BY HistoryKept DEF Inv
<1>2. Threads'
  BY ThreadsKept DEF Inv, Thread
<1>3. \A d \in Runtimes \ {c} : Mine(d)'
  <2> TAKE d \in Runtimes \ {c}
  <2>1. Leaves(d)
    BY NumbersOK, RuntimeOK DEF Leaves, Inv
  <2> QED BY <2>1, MineKept DEF Inv
<1> QED BY <1>1, <1>2, <1>3 DEF Inv

\* A step of the run of c that leaves the record alone.
LEMMA InvMoves ==
  ASSUME Inv, NEW c \in Runtimes, TypeOK', UNCHANGED <<rec, past>>, Mine(c)',
         \A d \in Runtimes \ {c}, s \in Subs : lease'[s].owner = d => lease[s].owner = d,
         \A d \in Runtimes \ {c} : at'[d] = at[d] /\ run'[d] = run[d] /\ mem'[d] = mem[d],
         at'[c] = "thread" => at[c] = "thread" /\ run'[c].sub = run[c].sub,
         mem'[c].cont \subseteq mem[c].cont
  PROVE  Inv'
<1>1. \A d \in Runtimes \ {c} : Stamped(d)' = Stamped(d)
  BY DEF Stamped
<1>2. (rec.sub = 0 => rec.state = "none") /\ (rec.phase = "executing" => rec.failures <= 1)
  BY DEF Inv, History
<1> QED BY <1>1, <1>2, InvWrites

\* A step of nobody's run.
LEMMA InvWorld ==
  ASSUME Inv, TypeOK', UNCHANGED <<past, at, run, mem>>,
         \A d \in Runtimes, s \in Subs : lease'[s].owner = d => lease[s].owner = d,
         rec'.sub = rec.sub, rec.sub = 0 => rec'.state = "none",
         rec.sent => rec'.sent, rec.origin => rec'.origin,
         rec.phase # "executing" => rec'.phase # "executing",
         \A d \in Runtimes :
           Stamped(d)' => Stamped(d) /\ (rec'.state = rec.state \/ rec.state \notin Recoverable),
         rec.state \notin Recoverable => rec'.state \notin Recoverable,
         rec.phase = "cancelled" => rec'.phase = "cancelled", rec'.phase = "executing" => rec'.failures <= 1,
         Lossless /\ rec'.phase # "cancelled" /\ rec.state \in {"verdict_ready", "received", "delivered"} =>
           rec'.state \in {"verdict_ready", "received", "delivered"}
  PROVE  Inv'
<1>1. History'
  BY HistoryKept DEF Inv
<1>2. Threads'
  BY ThreadsKept DEF Inv, Thread
<1>3. \A d \in Runtimes : Mine(d)'
  <2> TAKE d \in Runtimes
  <2>1. Leaves(d)
    BY NumbersOK, RuntimeOK DEF Leaves, Inv
  <2> QED BY <2>1, MineKept DEF Inv
<1> QED BY <1>1, <1>2, <1>3 DEF Inv

\* A place where the runtime has no run yet, or no longer.
LEMMA MineIdle ==
  ASSUME NEW c \in Runtimes, at'[c] \notin InRun, run'[c].sub <= rec'.sub
  PROVE  Mine(c)'
BY DEF Mine, InRun, RunSteps, Before, During

\* The end of a run.
LEMMA MineEnds ==
  ASSUME NEW c \in Runtimes, Mine(c), at[c] \in InRun,
         at'[c] \in {"enqueue", "receive", "notify", "end", "release", "unfence"},
         run'[c].sub = run[c].sub, rec'.sub = rec.sub
  PROVE  Mine(c)'
BY DEF Mine, Before, During

\* A run that fails before its verdict was minted.
LEMMA MineFails ==
  ASSUME NEW c \in Runtimes, Mine(c), at[c] \in Before \cup During \/ ~Lossless, at[c] \in InRun, at'[c] = "fail",
         run'[c].sub = run[c].sub, run'[c].ep = run[c].ep, rec' = rec
  PROVE  Mine(c)'
BY DEF Mine, Before, During, Stamped, Recoverable

\* A fault is counted within its bound.
LEMMA FaultOK ==
  ASSUME TypeOK, NEW kind, Fault(kind)
  PROVE  faults' \in 0 .. MaxFaults
BY NumbersOK DEF TypeOK, Fault

\* A run that only goes on.
LEMMA InvGoes ==
  ASSUME Inv, NEW c \in Runtimes, NEW s \in Steps \ {"thread"}, Move(c, s),
         faults' \in 0 .. MaxFaults, Mine(c)'
  PROVE  Inv'
<1>1. /\ at' \in [Runtimes -> Steps] /\ at'[c] = s /\ \A d \in Runtimes \ {c} : at'[d] = at[d]
      /\ UNCHANGED <<rec, lease, submitter, queued, mem, run, past, workspace, edits>>
  BY GotoOK DEF Move, Inv, leaseVars, envVars
<1>2. TypeOK'
  BY <1>1 DEF Inv, TypeOK
<1> QED BY <1>1, <1>2, InvMoves

\* A run that learns why it fails, before its verdict was minted.
LEMMA InvFailsWith ==
  ASSUME Inv, NEW c \in Runtimes, NEW reason \in Reasons, FailWith(c, reason),
         faults' \in 0 .. MaxFaults, at[c] \in Before \cup During \/ ~Lossless, at[c] \in InRun
  PROVE  Inv'
<1>1. /\ at' \in [Runtimes -> Steps] /\ at'[c] = "fail" /\ \A d \in Runtimes \ {c} : at'[d] = at[d]
      /\ UNCHANGED <<rec, lease, submitter, queued, mem, past, workspace, edits>>
  BY GotoOK DEF FailWith, Inv, leaseVars, envVars, Steps, RunSteps
<1>2. /\ run' \in [Runtimes -> Run] /\ run'[c].sub = run[c].sub /\ run'[c].ep = run[c].ep
      /\ \A d \in Runtimes \ {c} : run'[d] = run[d]
  BY DEF FailWith, Inv, TypeOK, Run
<1>3. TypeOK'
  BY <1>1, <1>2 DEF Inv, TypeOK
<1>4. Mine(c)'
  BY <1>1, <1>2, MineFails DEF Inv
<1> QED BY <1>1, <1>2, <1>3, <1>4, InvMoves

LEMMA InvStartup ==
  ASSUME Inv, NEW c \in Runtimes, Startup(c)
  PROVE  Inv'
<1>1. at[c] = "startup" /\ faults' = faults
  BY DEF Startup
<1>2. CASE Move(c, "check")
  <2>1. Mine(c)'
    <3>1. at'[c] = "check" /\ UNCHANGED <<rec, lease, mem, run, past>>
      BY <1>2, GotoOK DEF Move, Inv, leaseVars, Steps, RunSteps
    <3> QED BY <1>1, <3>1 DEF Inv, Mine, InRun, Before, During, Stamped, NoReview
  <2> QED BY <1>1, <1>2, <2>1, InvGoes DEF Inv, TypeOK, Steps, RunSteps
<1>3. CASE Move(c, "release")
  <2>1. Mine(c)'
    <3>1. at'[c] = "release" /\ UNCHANGED <<rec, run>>
      BY <1>3, GotoOK DEF Move, Inv, Steps, RunSteps
    <3> QED BY <1>1, <3>1, MineEnds DEF Inv, InRun
  <2> QED BY <1>1, <1>3, <2>1, InvGoes DEF Inv, TypeOK, Steps, RunSteps
<1> QED BY <1>2, <1>3 DEF Startup

\* A run that ends, or that gives its lease back.
LEMMA InvEnds ==
  ASSUME Inv, NEW c \in Runtimes, at[c] \in InRun, faults' \in 0 .. MaxFaults,
         NEW s \in {"enqueue", "receive", "notify", "end", "release"}, Move(c, s)
  PROVE  Inv'
<1>1. at'[c] = s /\ UNCHANGED <<rec, run>> /\ s \in Steps \ {"thread"}
  BY GotoOK DEF Move, Inv, Steps, RunSteps
<1>2. Mine(c)'
  BY <1>1, MineEnds DEF Inv
<1> QED BY <1>1, <1>2, InvGoes

LEMMA InvStartupFails ==
  ASSUME Inv, NEW c \in Runtimes, StartupFails(c)
  PROVE  Inv'
BY InvEnds, FaultOK DEF StartupFails, InRun, Inv

\* A run notes whether it owns its consumer, has to keep it, or lost its lease.
LEMMA FlagOK ==
  ASSUME TypeOK, NEW c \in Runtimes, NEW b \in BOOLEAN,
         \/ run' = [run EXCEPT ![c].own = b]
         \/ run' = [run EXCEPT ![c].keep = b]
         \/ run' = [run EXCEPT ![c].lost = b]
  PROVE  /\ run' \in [Runtimes -> Run] /\ \A d \in Runtimes \ {c} : run'[d] = run[d]
         /\ run'[c].sub = run[c].sub /\ run'[c].ep = run[c].ep /\ run'[c].tries = run[c].tries
         /\ run'[c].needs = run[c].needs
<1>1. CASE run' = [run EXCEPT ![c].own = b]
  BY <1>1 DEF TypeOK, Run
<1>2. CASE run' = [run EXCEPT ![c].keep = b]
  BY <1>2 DEF TypeOK, Run
<1>3. CASE run' = [run EXCEPT ![c].lost = b]
  BY <1>3 DEF TypeOK, Run
<1> QED BY <1>1, <1>2, <1>3

LEMMA InvBegin ==
  ASSUME Inv, NEW c \in Runtimes, Begin(c)
  PROVE  Inv'
<1>1. at[c] = "check" /\ at[c] \in InRun /\ at[c] \in Before /\ faults' = faults /\ faults' \in 0 .. MaxFaults
  BY DEF Begin, InRun, Before, RunSteps, Inv, TypeOK
<1>2. CASE Move(c, "end")
  BY <1>1, <1>2, InvEnds
<1>3. CASE FailWith(c, Refusal(c))
  <2>1. Refusal(c) \in Reasons
    BY DEF Refusal, Reasons
  <2> QED BY <1>1, <1>3, <2>1, InvFailsWith
<1>4. CASE /\ Goto(c, "verify")
           /\ run' = [run EXCEPT ![c].own = run[c].sub \notin mem[c].reg]
           /\ mem' = [mem EXCEPT ![c].reg = @ \cup {run[c].sub}]
           /\ UNCHANGED <<rec, leaseVars, queued, past, envVars>>
  <2>1. /\ at' \in [Runtimes -> Steps] /\ at'[c] = "verify" /\ \A d \in Runtimes \ {c} : at'[d] = at[d]
        /\ UNCHANGED <<rec, lease, submitter, queued, past, workspace, edits>>
    BY <1>4, GotoOK DEF Inv, leaseVars, envVars, Steps, RunSteps
  <2>2. /\ run' \in [Runtimes -> Run] /\ \A d \in Runtimes \ {c} : run'[d] = run[d]
        /\ run'[c].sub = run[c].sub /\ run'[c].ep = run[c].ep /\ run'[c].needs = run[c].needs
        /\ run'[c].tries = run[c].tries
    <3>1. \E b \in BOOLEAN : run' = [run EXCEPT ![c].own = b]
      BY <1>4
    <3> QED BY <3>1, FlagOK DEF Inv
  <2>3. run[c].sub \in Subs
    BY <1>1, RuntimeOK DEF Inv, Mine
  <2>4. /\ mem' \in [Runtimes -> Memory] /\ \A d \in Runtimes \ {c} : mem'[d] = mem[d]
        /\ mem'[c].cont = mem[c].cont /\ mem'[c].gone = mem[c].gone /\ mem'[c].cp = mem[c].cp
    BY <1>4, <2>3 DEF Inv, TypeOK, Memory
  <2>5. TypeOK'
    BY <1>1, <2>1, <2>2, <2>4 DEF Inv, TypeOK
  <2>6. Mine(c)'
    BY <1>1, <2>1, <2>2, <2>4 DEF Inv, Mine, InRun, RunSteps, Before, During, Stamped, NoReview
  <2> QED BY <2>1, <2>2, <2>4, <2>5, <2>6, InvMoves
<1> QED BY <1>2, <1>3, <1>4 DEF Begin

LEMMA InvVerify ==
  ASSUME Inv, NEW c \in Runtimes, Verify(c)
  PROVE  Inv'
<1>1. at[c] = "verify" /\ at[c] \in InRun /\ at[c] \in Before /\ faults' \in 0 .. MaxFaults
  BY DEF Verify, InRun, Before, RunSteps, Inv, TypeOK
<1>2. CASE Move(c, "end")
  BY <1>1, <1>2, InvEnds
<1>3. CASE FailWith(c, "error")
  BY <1>1, <1>3, InvFailsWith DEF Reasons
<1>4. CASE Move(c, "send")
  <2>1. at'[c] = "send" /\ UNCHANGED <<rec, lease, mem, run, past>>
    BY <1>4, GotoOK DEF Move, Inv, leaseVars, Steps, RunSteps
  <2>2. Mine(c)'
    BY <1>1, <2>1 DEF Inv, Mine, InRun, RunSteps, Before, During, Stamped, NoReview
  <2> QED BY <1>1, <1>4, <2>2, InvGoes DEF Steps, RunSteps
<1> QED BY <1>2, <1>3, <1>4 DEF Verify

\* A write of a run that owns the submission is no stamp of anybody else's.
LEMMA UpdateOK ==
  ASSUME Inv, NEW c \in Runtimes, NEW new, NEW s \in Steps, Update(c, new, s),
         Owns(c) => /\ new \in Record /\ new.sub = rec.sub /\ new.tok = rec.tok /\ new.ep = rec.ep
                    /\ (rec.sent => new.sent) /\ (rec.origin => new.origin) /\ new.phase # "cancelled"
                    /\ (rec.state \notin Recoverable => new.state \notin Recoverable)
  PROVE  /\ rec' \in Record /\ at' \in [Runtimes -> Steps] /\ \A d \in Runtimes \ {c} : at'[d] = at[d]
         /\ rec'.sub = rec.sub /\ (rec.sub = 0 => rec'.state = "none")
         /\ (rec.sent => rec'.sent) /\ (rec.origin => rec'.origin)
         /\ (rec.phase # "executing" => rec'.phase # "executing")
         /\ (rec.phase = "cancelled" => rec'.phase = "cancelled")
         /\ (rec.state \notin Recoverable => rec'.state \notin Recoverable)
         /\ Owns(c) => /\ rec' = new /\ at'[c] = s /\ run[c].sub = rec.sub /\ Stamped(c) /\ rec.phase = "executing"
                       /\ rec.state \in Active /\ lease[run[c].sub].owner = c /\ run[c].sub \in Subs
         /\ ~Owns(c) => rec' = rec /\ at'[c] = "end"
         /\ ((\A d \in Runtimes \ {c} : run'[d] = run[d]) =>
               \A d \in Runtimes \ {c} :
                 Stamped(d)' => Stamped(d) /\ (rec'.state = rec.state \/ rec.state \notin Recoverable))
<1>1. CASE Owns(c)
  <2>1. /\ rec' = new /\ at' \in [Runtimes -> Steps] /\ at'[c] = s /\ \A d \in Runtimes \ {c} : at'[d] = at[d]
    BY <1>1, GotoOK DEF Update, Inv
  <2>2. /\ run[c].sub = rec.sub /\ Stamped(c) /\ rec.phase = "executing" /\ rec.state \in Active
        /\ lease[run[c].sub].owner = c /\ rec.tok = c
    BY <1>1 DEF Owns, Stamped, Held
  <2>3. rec.sub # 0 /\ run[c].sub \in Subs
    BY <2>2, RuntimeOK DEF Inv, History, Active
  <2>4. \A d \in Runtimes \ {c} : ~Stamped(d)'
    BY <1>1, <2>1, <2>2 DEF Stamped
  <2> QED BY <1>1, <2>1, <2>2, <2>3, <2>4
<1>2. CASE ~Owns(c)
  <2>1. /\ rec' = rec /\ at' \in [Runtimes -> Steps] /\ at'[c] = "end" /\ \A d \in Runtimes \ {c} : at'[d] = at[d]
    BY <1>2, GotoOK DEF Update, Inv, Steps, RunSteps
  <2>2. rec.sub = 0 => rec.state = "none"
    BY DEF Inv, History
  <2> QED BY <1>2, <2>1, <2>2 DEF Stamped, Inv, TypeOK
<1> QED BY <1>1, <1>2

LEMMA InvSend ==
  ASSUME Inv, NEW c \in Runtimes, Send(c)
  PROVE  Inv'
<1> DEFINE new == [rec EXCEPT !.state = "sending", !.sent = TRUE]
           place == IF Checkpoint(c) THEN "reuse" ELSE "call"
<1>1. /\ at[c] = "send" /\ Update(c, new, place) /\ run' = [run EXCEPT ![c].tries = @ + 1]
      /\ UNCHANGED <<lease, submitter, queued, mem, past, workspace, edits, faults>>
  BY DEF Send, leaseVars, envVars
<1>2. /\ new \in Record /\ new.state = "sending" /\ new.sent /\ new.sub = rec.sub /\ new.tok = rec.tok
      /\ new.ep = rec.ep /\ new.origin = rec.origin /\ new.phase = rec.phase
      /\ new.failures = rec.failures
  BY DEF Inv, TypeOK, Record, States, Active
<1>3. place \in Steps \ {"thread"}
  BY DEF Steps, RunSteps
<1>4. run[c].tries < MaxTries /\ (Stamped(c) => rec.state \in Recoverable)
  BY <1>1 DEF Inv, Mine, Before
<1>5. /\ run' \in [Runtimes -> Run] /\ \A d \in Runtimes \ {c} : run'[d] = run[d]
      /\ run'[c].sub = run[c].sub /\ run'[c].ep = run[c].ep /\ run'[c].needs = run[c].needs
  BY <1>1, <1>4, NumbersOK DEF Inv, TypeOK, Run
<1>6. Owns(c) => Stamped(c) /\ rec.phase = "executing"
  BY DEF Owns, Stamped
<1> HIDE DEF new, place
<1>7. /\ rec' \in Record /\ at' \in [Runtimes -> Steps] /\ \A d \in Runtimes \ {c} : at'[d] = at[d]
      /\ rec'.sub = rec.sub /\ (rec.sub = 0 => rec'.state = "none")
      /\ (rec.sent => rec'.sent) /\ (rec.origin => rec'.origin)
      /\ (rec.phase # "executing" => rec'.phase # "executing")
      /\ (rec.phase = "cancelled" => rec'.phase = "cancelled")
      /\ (rec.state \notin Recoverable => rec'.state \notin Recoverable)
      /\ Owns(c) => rec' = new /\ at'[c] = place
      /\ ~Owns(c) => rec' = rec /\ at'[c] = "end"
      /\ \A d \in Runtimes \ {c} :
           Stamped(d)' => Stamped(d) /\ (rec'.state = rec.state \/ rec.state \notin Recoverable)
  BY <1>1, <1>2, <1>3, <1>4, <1>5, <1>6, UpdateOK
<1>8. TypeOK'
  BY <1>1, <1>2, <1>5, <1>7 DEF Inv, TypeOK
<1>9. Mine(c)'
  <2>1. CASE Owns(c)
    BY <1>1, <1>2, <1>5, <1>6, <1>7, <2>1 DEF place, Inv, Mine, InRun, RunSteps, Before, During, Stamped, NoReview, Checkpoint
  <2>2. CASE ~Owns(c)
    BY <1>1, <1>5, <1>7, <2>2, MineEnds DEF Inv, InRun, RunSteps
  <2> QED BY <2>1, <2>2
<1>10. /\ rec'.state = rec.state \/ rec.state \in Recoverable
       /\ rec'.phase = "executing" => rec'.failures <= 1
  BY <1>2, <1>4, <1>6, <1>7 DEF Inv, History
<1>11. at'[c] # "thread"
  BY <1>3, <1>7
<1> QED BY <1>1, <1>5, <1>7, <1>8, <1>9, <1>10, <1>11, InvWrites DEF Recoverable

\* A run takes over the consumer that an earlier one registered.
LEMMA AdoptOK ==
  ASSUME Inv, NEW c \in Runtimes, run[c].sub \in Subs, run' = Adopted(c), mem' = Registered(c)
  PROVE  /\ run' \in [Runtimes -> Run] /\ \A d \in Runtimes \ {c} : run'[d] = run[d]
         /\ run'[c].sub = run[c].sub /\ run'[c].ep = run[c].ep /\ run'[c].needs = run[c].needs
         /\ mem' \in [Runtimes -> Memory] /\ \A d \in Runtimes \ {c} : mem'[d] = mem[d]
         /\ mem'[c].cont = mem[c].cont /\ mem'[c].gone = mem[c].gone /\ mem'[c].cp = mem[c].cp
<1>1. \E b \in BOOLEAN : run' = [run EXCEPT ![c].own = b]
  BY DEF Adopted
<1>2. /\ mem' \in [Runtimes -> Memory] /\ \A d \in Runtimes \ {c} : mem'[d] = mem[d]
      /\ mem'[c].cont = mem[c].cont /\ mem'[c].gone = mem[c].gone /\ mem'[c].cp = mem[c].cp
  BY DEF Registered, Inv, TypeOK, Memory
<1> QED BY <1>1, <1>2, FlagOK DEF Inv

\* A run that could not be served is busy, and waits for another attempt.
LEMMA MineBusy ==
  ASSUME NEW c \in Runtimes, Mine(c), at[c] \in During, at'[c] = "busy", rec' = rec, lease' = lease,
         run'[c].sub = run[c].sub, run'[c].ep = run[c].ep,
         run[c].sub # 0 /\ Stamped(c) /\ lease[run[c].sub].owner = c /\ past'[run[c].sub].created => NoReview(c)'
  PROVE  Mine(c)'
BY DEF Mine, Before, During, InRun, RunSteps, Stamped

LEMMA InvReuse ==
  ASSUME Inv, NEW c \in Runtimes, Reuse(c)
  PROVE  Inv'
<1>1. at[c] = "reuse" /\ at[c] \in InRun /\ at[c] \in During /\ faults' = faults /\ faults' \in 0 .. MaxFaults
  BY DEF Reuse, InRun, During, RunSteps, Inv, TypeOK
<1>2. CASE Move(c, "busy")
  <2>1. at'[c] = "busy" /\ UNCHANGED <<rec, lease, mem, run, past>>
    BY <1>2, GotoOK DEF Move, Inv, leaseVars, Steps, RunSteps
  <2>2. Mine(c)'
    BY <1>1, <2>1, MineBusy DEF Inv, Mine, NoReview
  <2> QED BY <1>1, <1>2, <2>2, InvGoes DEF Steps, RunSteps
<1>3. CASE /\ Goto(c, "align") /\ run' = Adopted(c) /\ mem' = Registered(c)
           /\ UNCHANGED <<rec, leaseVars, queued, past, envVars>>
  <2>1. /\ at' \in [Runtimes -> Steps] /\ at'[c] = "align" /\ \A d \in Runtimes \ {c} : at'[d] = at[d]
        /\ UNCHANGED <<rec, lease, submitter, queued, past, workspace, edits>>
    BY <1>3, GotoOK DEF Inv, leaseVars, envVars, Steps, RunSteps
  <2>2. run[c].sub \in Subs
    BY <1>1, RuntimeOK DEF Inv, Mine
  <2>3. TypeOK'
    BY <1>1, <1>3, <2>1, <2>2, AdoptOK DEF Inv, TypeOK
  <2>4. Mine(c)'
    BY <1>1, <1>3, <2>1, <2>2, AdoptOK DEF Inv, Mine, InRun, RunSteps, Before, During, Stamped
  <2> QED BY <1>3, <2>1, <2>2, <2>3, <2>4, AdoptOK, InvMoves
<1> QED BY <1>1, <1>2, <1>3 DEF Reuse

LEMMA InvCallRefused ==
  ASSUME Inv, NEW c \in Runtimes, CallRefused(c)
  PROVE  Inv'
<1>1. at[c] = "call" /\ at[c] \in InRun /\ at[c] \in During /\ faults' \in 0 .. MaxFaults
  BY DEF CallRefused, InRun, During, RunSteps, Inv, TypeOK
<1> QED BY <1>1, InvFailsWith DEF CallRefused, Reasons

\* A Reviewer that is created is the first one of its submission.
LEMMA FirstReviewer ==
  ASSUME Inv, NEW c \in Runtimes, at[c] = "call", ~Unavailable(c), Owns(c), run[c].sub \notin mem[c].cont
  PROVE  ~past[run[c].sub].created
<1>1. Stamped(c) /\ rec.phase = "executing" /\ lease[run[c].sub].owner = c
  BY DEF Owns, Stamped, Held
<1>2. ~NoReview(c)
  BY <1>1 DEF Inv, Mine, NoReview, Unavailable
<1> QED BY <1>1, <1>2 DEF Inv, Mine

LEMMA InvCall ==
  ASSUME Inv, NEW c \in Runtimes, Call(c)
  PROVE  Inv'
<1>1. /\ at[c] = "call" /\ at[c] \in InRun /\ at[c] \in During /\ faults' = faults /\ faults' \in 0 .. MaxFaults
      /\ ~Unavailable(c)
  BY DEF Call, InRun, During, RunSteps, Inv, TypeOK
<1>2. CASE ~Owns(c) /\ Move(c, "busy")
  <2>1. at'[c] = "busy" /\ UNCHANGED <<rec, lease, mem, run, past>>
    BY <1>2, GotoOK DEF Move, Inv, leaseVars, Steps, RunSteps
  <2>2. Mine(c)'
    BY <1>1, <2>1, MineBusy DEF Inv, Mine, NoReview
  <2> QED BY <1>1, <1>2, <2>2, InvGoes DEF Steps, RunSteps
<1>3. CASE /\ Owns(c) /\ Goto(c, "thread") /\ run' = Adopted(c) /\ mem' = Registered(c)
           /\ rec' = IF run[c].sub \in mem[c].cont THEN rec ELSE [rec EXCEPT !.origin = TRUE]
           /\ past' = [past EXCEPT ![run[c].sub].created = TRUE]
           /\ UNCHANGED <<leaseVars, queued, envVars>>
  <2> DEFINE s == run[c].sub
  <2>1. /\ at' \in [Runtimes -> Steps] /\ at'[c] = "thread" /\ \A d \in Runtimes \ {c} : at'[d] = at[d]
        /\ UNCHANGED <<lease, submitter, queued, workspace, edits>>
    BY <1>3, GotoOK DEF Inv, leaseVars, envVars, Steps, RunSteps
  <2>2. /\ s \in Subs /\ rec.sub = s /\ rec.sent /\ rec.state = "sending" /\ rec.tok = c /\ lease[s].owner = c
        /\ rec.phase = "executing"
    BY <1>1, <1>3, RuntimeOK DEF Inv, Mine, Owns, Stamped, Held
  <2>3. /\ run' \in [Runtimes -> Run] /\ \A d \in Runtimes \ {c} : run'[d] = run[d]
        /\ run'[c].sub = s /\ run'[c].ep = run[c].ep /\ run'[c].needs = run[c].needs
        /\ mem' \in [Runtimes -> Memory] /\ \A d \in Runtimes \ {c} : mem'[d] = mem[d]
        /\ mem'[c].cont = mem[c].cont /\ mem'[c].gone = mem[c].gone /\ mem'[c].cp = mem[c].cp
    BY <1>3, <2>2, AdoptOK
  <2>4. /\ rec' \in Record /\ rec'.sub = s /\ rec'.sent /\ rec'.state = "sending" /\ rec'.tok = c
        /\ rec'.phase = "executing" /\ (rec.origin \/ s \notin mem[c].cont => rec'.origin)
        /\ rec'.failures <= 1
    BY <1>3, <2>2 DEF Inv, TypeOK, Record, History
  <2>5. /\ past' \in [Subs -> Past] /\ past'[s].created
        /\ \A x \in Subs : /\ past'[x].reviewed = past[x].reviewed /\ past'[x].minted = past[x].minted
                           /\ x # s => past'[x].created = past[x].created
    BY <1>3, <2>2 DEF Inv, TypeOK, Past
  <2>6. /\ s \in mem[c].cont => past[s].created /\ past[s].reviewed = 0 /\ rec.origin
        /\ s \notin mem[c].cont => ~past[s].created /\ past[s].reviewed = 0
        /\ \A d \in Runtimes \ {c} : ~Thread(d, s)
    <3>1. CASE s \in mem[c].cont
      BY <2>2, <3>1 DEF Inv, Threads, Thread, History
    <3>2. CASE s \notin mem[c].cont
      <4>1. ~past[s].created
        BY <1>1, <1>3, <3>2, FirstReviewer
      <4> QED BY <2>2, <3>2, <4>1 DEF Inv, Threads, History
    <3> QED BY <3>1, <3>2
  <2> HIDE DEF s
  <2>7. TypeOK'
    BY <1>1, <2>1, <2>3, <2>4, <2>5 DEF Inv, TypeOK
  <2>8. History'
    <3>1. past[s].minted = 0 \/ ~(past[s].minted > 0)
      BY <2>2 DEF Inv, History, Recoverable
    <3>2. ASSUME NEW x \in Subs, x # s
          PROVE  /\ x > rec'.sub => ~past'[x].created /\ past'[x].minted = 0
                 /\ ~past'[x].created => past'[x].reviewed = 0
                 /\ past'[x].reviewed <= 1 /\ past'[x].minted <= 1
      BY <2>2, <2>4, <2>5, <3>2 DEF Inv, History
    <3>3. /\ past'[s].reviewed <= 1 /\ past'[s].minted <= 1 /\ ~(s > rec'.sub) /\ ~(past'[s].minted > 0)
          /\ rec'.sent /\ rec'.origin
      BY <2>2, <2>4, <2>5, <2>6, <3>1, NumbersOK DEF Inv, History
    <3> QED BY <2>2, <2>4, <2>5, <3>2, <3>3, NumbersOK DEF History
  <2>9. Threads'
    <3>1. \A d \in Runtimes, x \in Subs : Thread(d, x)' => Thread(d, x) \/ (d = c /\ x = s)
      BY <2>1, <2>3 DEF Thread
    <3> QED BY <2>2, <2>5, <2>6, <3>1 DEF Inv, Threads
  <2>10. Mine(c)'
    BY <2>1, <2>2, <2>3, <2>4, NumbersOK DEF Mine, InRun, RunSteps, Before, During
  <2>11. \A d \in Runtimes \ {c} : Mine(d)'
    <3> TAKE d \in Runtimes \ {c}
    <3>1. run[d].sub # 0 /\ lease[run[d].sub].owner = d => run[d].sub \in Subs /\ run[d].sub # s
      BY <2>2, RuntimeOK DEF Inv
    <3>2. Leaves(d)
      BY <2>1, <2>2, <2>3, <2>4, <2>5, <3>1, NumbersOK DEF Leaves, Stamped
    <3> QED BY <2>7, <3>2, MineKept DEF Inv
  <2> QED BY <2>7, <2>8, <2>9, <2>10, <2>11 DEF Inv
<1> QED BY <1>2, <1>3 DEF Call

LEMMA InvCreateBusy ==
  ASSUME Inv, NEW c \in Runtimes, CreateBusy(c)
  PROVE  Inv'
<1>1. /\ at[c] = "call" /\ ~Unavailable(c) /\ Owns(c) /\ run[c].sub \notin mem[c].cont /\ at[c] \in During
      /\ run' = Adopted(c) /\ mem' = Registered(c) /\ faults' \in 0 .. MaxFaults
      /\ at' \in [Runtimes -> Steps] /\ at'[c] = "busy" /\ \A d \in Runtimes \ {c} : at'[d] = at[d]
      /\ UNCHANGED <<rec, lease, submitter, queued, past, workspace, edits>>
  BY GotoOK, FaultOK DEF CreateBusy, During, Inv, leaseVars, envVars, Steps, RunSteps
<1>2. run[c].sub \in Subs /\ ~past[run[c].sub].created
  BY <1>1, RuntimeOK, FirstReviewer DEF Inv, Mine, InRun, RunSteps
<1>3. TypeOK'
  BY <1>1, <1>2, AdoptOK DEF Inv, TypeOK
<1>4. Mine(c)'
  BY <1>1, <1>2, AdoptOK, MineBusy DEF Inv
<1> QED BY <1>1, <1>2, <1>3, <1>4, AdoptOK, InvMoves

LEMMA InvCreateFails ==
  ASSUME Inv, NEW c \in Runtimes, CreateFails(c)
  PROVE  Inv'
<1>1. at[c] = "call" /\ at[c] \in InRun /\ at[c] \in During /\ faults' \in 0 .. MaxFaults
  BY FaultOK DEF CreateFails, InRun, During, RunSteps, Inv
<1> QED BY <1>1, InvFailsWith DEF CreateFails, Reasons

LEMMA InvAnswer ==
  ASSUME Inv, NEW c \in Runtimes, Answer(c)
  PROVE  Inv'
<1> DEFINE s == run[c].sub
<1>1. /\ at[c] = "thread" /\ at' \in [Runtimes -> Steps] /\ at'[c] = "retain"
      /\ \A d \in Runtimes \ {c} : at'[d] = at[d]
      /\ UNCHANGED <<rec, lease, submitter, queued, run, workspace, edits, faults>>
  BY GotoOK DEF Answer, Inv, leaseVars, envVars, Steps, RunSteps
<1>2. s \in Subs
  BY <1>1, RuntimeOK DEF Inv, Mine, InRun, RunSteps
<1>3. past[s].created /\ past[s].reviewed = 0 /\ \A d \in Runtimes \ {c} : ~Thread(d, s)
  BY <1>1, <1>2 DEF Inv, Threads, Thread
<1>4. /\ mem' \in [Runtimes -> Memory] /\ \A d \in Runtimes \ {c} : mem'[d] = mem[d]
      /\ mem'[c].cont = mem[c].cont \ {s} /\ mem'[c].gone = mem[c].gone /\ mem'[c].cp = mem[c].cp
  BY <1>2 DEF Answer, Inv, TypeOK, Memory
<1>5. /\ past' \in [Subs -> Past] /\ past'[s].reviewed = 1 /\ past'[s].created /\ past'[s].minted = past[s].minted
      /\ \A x \in Subs : x # s => past'[x] = past[x]
  BY <1>2, <1>3 DEF Answer, Inv, TypeOK, Past
<1> HIDE DEF s
<1>6. TypeOK'
  BY <1>1, <1>4, <1>5 DEF Inv, TypeOK
<1>7. History'
  BY <1>1, <1>2, <1>3, <1>5 DEF Inv, History
<1>8. Threads'
  <2>1. \A d \in Runtimes, x \in Subs : Thread(d, x)' => Thread(d, x) /\ x # s
    BY <1>1, <1>2, <1>3, <1>4 DEF Thread, s
  <2> QED BY <1>5, <2>1 DEF Inv, Threads
<1>9. Mine(c)'
  BY <1>1, <1>2, NumbersOK DEF Inv, Mine, Before, During, InRun, RunSteps, Stamped, s
<1>10. \A d \in Runtimes \ {c} : Mine(d)'
  <2> TAKE d \in Runtimes \ {c}
  <2>1. \A x \in Subs : past'[x].created => past[x].created
    BY <1>3, <1>5
  <2>2. Leaves(d)
    BY <1>1, <1>4, <2>1, NumbersOK, RuntimeOK DEF Leaves, Inv, Stamped
  <2> QED BY <1>6, <2>2, MineKept DEF Inv
<1> QED BY <1>6, <1>7, <1>8, <1>9, <1>10 DEF Inv

LEMMA InvWaitCancelled ==
  ASSUME Inv, NEW c \in Runtimes, WaitCancelled(c)
  PROVE  Inv'
BY InvEnds DEF WaitCancelled, InRun, RunSteps, Inv, TypeOK

LEMMA InvThreadBusy ==
  ASSUME Inv, NEW c \in Runtimes, ThreadBusy(c)
  PROVE  Inv'
<1>1. /\ at[c] = "thread" /\ at' \in [Runtimes -> Steps] /\ at'[c] = "busy" /\ faults' \in 0 .. MaxFaults
      /\ \A d \in Runtimes \ {c} : at'[d] = at[d]
      /\ UNCHANGED <<rec, lease, submitter, queued, run, past, workspace, edits>>
  BY GotoOK, FaultOK DEF ThreadBusy, Inv, leaseVars, envVars, Steps, RunSteps
<1>2. run[c].sub \in Subs
  BY <1>1, RuntimeOK DEF Inv, Mine, InRun, RunSteps
<1>3. /\ mem' \in [Runtimes -> Memory] /\ \A d \in Runtimes \ {c} : mem'[d] = mem[d]
      /\ mem'[c].cont = mem[c].cont \cup {run[c].sub}
  BY <1>2 DEF ThreadBusy, Inv, TypeOK, Memory
<1>4. TypeOK'
  BY <1>1, <1>3 DEF Inv, TypeOK
<1>5. History'
  BY <1>1 DEF Inv, History
<1>6. Threads'
  BY <1>1, <1>2, <1>3, ThreadsKept DEF Inv, Thread
<1>7. Mine(c)'
  BY <1>1, <1>3, MineBusy DEF Inv, During, NoReview
<1>8. \A d \in Runtimes \ {c} : Mine(d)'
  <2> TAKE d \in Runtimes \ {c}
  <2>1. Leaves(d)
    BY <1>1, <1>3, RuntimeOK DEF Leaves, Inv, Stamped
  <2> QED BY <1>4, <2>1, MineKept DEF Inv
<1> QED BY <1>4, <1>5, <1>6, <1>7, <1>8 DEF Inv

LEMMA InvThreadFails ==
  ASSUME Inv, NEW c \in Runtimes, ThreadFails(c)
  PROVE  Inv'
<1>1. at[c] = "thread" /\ at[c] \in InRun /\ at[c] \in During /\ faults' \in 0 .. MaxFaults
  BY FaultOK DEF ThreadFails, InRun, During, RunSteps, Inv
<1> QED BY <1>1, InvFailsWith DEF ThreadFails, Reasons

\* A run that writes the record, if the submission is still its own.
LEMMA InvUpdates ==
  ASSUME Inv, NEW c \in Runtimes, NEW new, NEW s \in Steps \ {"thread"}, Update(c, new, s),
         at[c] \in InRun,
         UNCHANGED <<lease, submitter, queued, past, workspace, edits, faults>>,
         run' \in [Runtimes -> Run], mem' \in [Runtimes -> Memory], run'[c].sub = run[c].sub,
         mem'[c].cont = mem[c].cont,
         \A d \in Runtimes \ {c} : run'[d] = run[d] /\ mem'[d] = mem[d],
         Owns(c) => /\ new \in Record /\ new.sub = rec.sub /\ new.tok = rec.tok /\ new.ep = rec.ep
                    /\ (rec.sent => new.sent) /\ (rec.origin => new.origin) /\ new.phase # "cancelled"
                    /\ (rec.state \notin Recoverable => new.state \notin Recoverable)
                    /\ new.state # "queued" /\ (new.phase = "executing" => new.failures <= 1)
                    /\ (Lossless /\ rec.state \in {"verdict_ready", "received", "delivered"} =>
                          new.state \in {"verdict_ready", "received", "delivered"})
                    /\ (rec' = new /\ at'[c] = s => Mine(c)')
  PROVE  Inv'
<1>1. /\ rec' \in Record /\ at' \in [Runtimes -> Steps] /\ \A d \in Runtimes \ {c} : at'[d] = at[d]
      /\ rec'.sub = rec.sub /\ (rec.sub = 0 => rec'.state = "none")
      /\ (rec.sent => rec'.sent) /\ (rec.origin => rec'.origin)
      /\ (rec.phase # "executing" => rec'.phase # "executing")
      /\ (rec.phase = "cancelled" => rec'.phase = "cancelled")
      /\ (rec.state \notin Recoverable => rec'.state \notin Recoverable)
      /\ Owns(c) => rec' = new /\ at'[c] = s
      /\ ~Owns(c) => rec' = rec /\ at'[c] = "end"
      /\ \A d \in Runtimes \ {c} :
           Stamped(d)' => Stamped(d) /\ (rec'.state = rec.state \/ rec.state \notin Recoverable)
  BY UpdateOK
<1>2. TypeOK'
  BY <1>1 DEF Inv, TypeOK
<1>3. Mine(c)'
  BY <1>1, MineEnds DEF Inv
<1>4. Lossless /\ rec'.phase # "cancelled" /\ rec.state \in {"verdict_ready", "received", "delivered"} =>
        rec'.state \in {"verdict_ready", "received", "delivered"}
  BY <1>1
<1>5. rec'.phase = "executing" => rec'.failures <= 1
  BY <1>1 DEF Inv, History
<1> QED BY <1>1, <1>2, <1>3, <1>4, <1>5, InvWrites

\* What a run that owns the submission knows of it.
LEMMA OwnsOK ==
  ASSUME Inv, NEW c \in Runtimes, Owns(c), at[c] \in InRun
  PROVE  /\ Stamped(c) /\ rec.sub = run[c].sub /\ rec.sub \in Subs /\ rec.tok = c /\ rec.ep = run[c].ep
         /\ rec.phase = "executing" /\ rec.state \in Active /\ lease[run[c].sub].owner = c
         /\ at[c] \in Before => rec.state \in Recoverable
         /\ at[c] \in During => rec.state = "sending"
         /\ Lossless /\ at[c] = "fail" => rec.state \in Recoverable
BY RuntimeOK DEF Inv, Mine, Owns, Stamped, Held

LEMMA InvRetain ==
  ASSUME Inv, NEW c \in Runtimes, Retain(c)
  PROVE  Inv'
<1> DEFINE new == [rec EXCEPT !.pending = TRUE]
<1>1. /\ at[c] = "retain" /\ at[c] \in InRun /\ at[c] \in During
      /\ mem' = IF Stamped(c) THEN [mem EXCEPT ![c].cp = run[c].sub] ELSE mem
      /\ UNCHANGED <<lease, submitter, queued, run, past, workspace, edits, faults>>
  BY DEF Retain, leaseVars, envVars, InRun, During, RunSteps
<1>2. /\ new \in Record /\ new.state = rec.state /\ new.sent = rec.sent /\ new.sub = rec.sub /\ new.tok = rec.tok
      /\ new.ep = rec.ep /\ new.origin = rec.origin /\ new.phase = rec.phase /\ new.failures = rec.failures
  BY DEF Inv, TypeOK, Record
<1>3. /\ mem' \in [Runtimes -> Memory] /\ mem'[c].cont = mem[c].cont /\ \A d \in Runtimes \ {c} : mem'[d] = mem[d]
      /\ Stamped(c) => mem'[c].cp = run[c].sub
  BY <1>1, RuntimeOK DEF Inv, TypeOK, Memory
<1> HIDE DEF new
<1>4. CASE Owns(c) /\ rec' = new /\ Goto(c, "align")
  <2>1. Update(c, new, "align")
    BY <1>4 DEF Update
  <2>2. Stamped(c) /\ rec.state = "sending" /\ rec.phase = "executing" /\ rec.failures <= 1
    BY <1>1, <1>4, OwnsOK DEF Inv, History
  <2>3. rec' = new /\ at'[c] = "align" => Mine(c)'
    BY <1>1, <1>2, <1>3, <2>2 DEF Inv, Mine, Before, During, InRun, RunSteps, Stamped
  <2> QED BY <1>1, <1>2, <1>3, <2>1, <2>2, <2>3, InvUpdates DEF Inv, TypeOK, Steps, RunSteps
<1>5. CASE rec' = rec /\ Goto(c, "busy")
  <2>1. at' \in [Runtimes -> Steps] /\ at'[c] = "busy" /\ \A d \in Runtimes \ {c} : at'[d] = at[d]
    BY <1>5, GotoOK DEF Inv, Steps, RunSteps
  <2>2. TypeOK'
    BY <1>1, <1>3, <1>5, <2>1 DEF Inv, TypeOK
  <2>3. Mine(c)'
    BY <1>1, <1>3, <1>5, <2>1, MineBusy DEF Inv, NoReview
  <2> QED BY <1>1, <1>3, <1>5, <2>1, <2>2, <2>3, InvMoves
<1> QED BY <1>4, <1>5 DEF Retain, new

LEMMA InvAlign ==
  ASSUME Inv, NEW c \in Runtimes, Align(c) \/ AlignFails(c)
  PROVE  Inv'
<1>1. /\ at[c] = "align" /\ faults' \in 0 .. MaxFaults
      /\ \E s \in {"stage", "conflict", "busy"} : Move(c, s)
  BY FaultOK DEF Align, AlignFails, Inv, TypeOK
<1>2. PICK s \in {"stage", "conflict", "busy"} : Move(c, s)
  BY <1>1
<1>3. at'[c] = s /\ UNCHANGED <<rec, lease, mem, run, past>>
  BY <1>2, GotoOK DEF Move, Inv, leaseVars, Steps, RunSteps
<1>4. Mine(c)'
  BY <1>1, <1>3 DEF Inv, Mine, Before, During, InRun, RunSteps, Stamped, NoReview
<1> QED BY <1>1, <1>2, <1>4, InvGoes DEF Steps, RunSteps

LEMMA InvContractFailed ==
  ASSUME Inv, NEW c \in Runtimes, ContractFailed(c)
  PROVE  Inv'
<1> DEFINE f == rec.failures + 1
           p == IF f >= 2 THEN "blocked" ELSE rec.phase
           new == [rec EXCEPT !.failures = f, !.state = "failed", !.notice = "prepared", !.phase = p]
<1>1. /\ at[c] = "conflict" /\ at[c] \in InRun /\ at[c] \in During /\ Update(c, new, "notify")
      /\ UNCHANGED <<lease, submitter, queued, mem, run, past, workspace, edits, faults>>
  BY DEF ContractFailed, leaseVars, envVars, InRun, During, RunSteps
<1>2. Owns(c) => /\ rec.phase = "executing" /\ rec.failures \in 0 .. 1 /\ rec.state = "sending"
  BY <1>1, OwnsOK DEF Inv, History, TypeOK, Record
<1>3. Owns(c) => f \in 0 .. 2 /\ p \in {"executing", "blocked"} /\ (p = "executing" => f <= 1)
  BY <1>2
<1> HIDE DEF f, p
<1>4. Owns(c) => /\ new \in Record /\ new.state = "failed" /\ new.sent = rec.sent /\ new.sub = rec.sub
                 /\ new.tok = rec.tok /\ new.ep = rec.ep /\ new.origin = rec.origin
                 /\ new.phase = p /\ new.failures = f
  BY <1>3 DEF Inv, TypeOK, Record, States, Active
<1> HIDE DEF new
<1>5. Owns(c) /\ rec' = new /\ at'[c] = "notify" => Mine(c)'
  BY <1>1, <1>4, MineEnds DEF Inv
<1> QED BY <1>1, <1>2, <1>3, <1>4, <1>5, InvUpdates DEF Inv, TypeOK, Steps, RunSteps, Recoverable

\* The record of a verdict that was minted.
LEMMA StagedOK ==
  ASSUME NEW r \in Record, NEW st \in States, NEW b \in BOOLEAN, NEW f \in 0 .. 2
  PROVE  [r EXCEPT !.state = st, !.pending = b, !.failures = f] \in Record
BY DEF Record

\* The record of a submission that failed.
LEMMA FailedOK ==
  ASSUME NEW r \in Record, NEW st \in States, NEW b \in BOOLEAN, NEW why \in Reasons,
         NEW n \in {"none", "prepared", "enqueued", "delivered"}
  PROVE  [r EXCEPT !.state = st, !.pending = b, !.reason = why, !.notice = n] \in Record
BY DEF Record

\* The memory of a process that has closed a consumer.
LEMMA WithoutOK ==
  ASSUME NEW m \in Memory, NEW s \in Subs
  PROVE  Without(m, s) \in Memory /\ Without(m, s).cont \subseteq m.cont
<1> DEFINE reg == m.reg \ {s}
           retired == m.retired \cup {s}
           cont == m.cont \ {s}
           kept == IF m.cp = s THEN 0 ELSE m.cp
<1>1. /\ reg \subseteq Subs /\ retired \subseteq Subs /\ cont \subseteq m.cont /\ m.cont \subseteq Subs
      /\ kept \in 0 .. MaxSubs
  BY NumbersOK DEF Memory
<1>2. Without(m, s) = [m EXCEPT !.reg = reg, !.retired = retired, !.cont = cont, !.cp = kept]
  BY DEF Without
<1> HIDE DEF reg, retired, cont, kept
<1> QED BY <1>1, <1>2 DEF Memory

LEMMA InvStage ==
  ASSUME Inv, NEW c \in Runtimes, Stage(c)
  PROVE  Inv'
<1> DEFINE s == run[c].sub
           new == [rec EXCEPT !.state = "verdict_ready", !.pending = FALSE, !.failures = 0]
<1>1. at[c] = "stage" /\ at[c] \in InRun /\ at[c] \in During /\ faults' = faults /\ faults' \in 0 .. MaxFaults
  BY DEF Stage, InRun, During, RunSteps, Inv, TypeOK
<1>2. CASE FailWith(c, "error")
  BY <1>1, <1>2, InvFailsWith DEF Reasons
<1>3. CASE /\ Update(c, new, "enqueue") /\ ~Owns(c) /\ past' = past
           /\ UNCHANGED <<leaseVars, queued, mem, run, envVars>>
  <2>1. Move(c, "end")
    BY <1>3 DEF Update, Move
  <2> QED BY <1>1, <2>1, InvEnds
<1>4. CASE /\ Update(c, new, "enqueue") /\ Owns(c)
           /\ past' = [past EXCEPT ![s].minted = IF @ < 2 THEN @ + 1 ELSE @]
           /\ UNCHANGED <<leaseVars, queued, mem, run, envVars>>
  <2>1. /\ rec' = new /\ at' \in [Runtimes -> Steps] /\ at'[c] = "enqueue" /\ \A d \in Runtimes \ {c} : at'[d] = at[d]
        /\ UNCHANGED <<lease, submitter, queued, mem, run, workspace, edits>>
    BY <1>4, GotoOK DEF Update, Inv, leaseVars, envVars, Steps, RunSteps
  <2>2. s \in Subs /\ rec.sub = s /\ rec.tok = c /\ rec.state = "sending" /\ rec.phase = "executing"
    BY <1>1, <1>4, OwnsOK
  <2>3. past[s].minted = 0
    <3>1. ~(past[s].minted > 0)
      BY <2>2 DEF Inv, History, Recoverable
    <3> QED BY <2>2, <3>1 DEF Inv, TypeOK, Past
  <2>4. /\ new \in Record /\ new.state = "verdict_ready" /\ new.sent = rec.sent /\ new.sub = rec.sub
        /\ new.tok = rec.tok /\ new.origin = rec.origin /\ new.phase = rec.phase /\ new.failures = 0
    <3>1. new \in Record
      <4>1. rec \in Record /\ "verdict_ready" \in States /\ FALSE \in BOOLEAN /\ 0 \in 0 .. 2
        BY DEF Inv, TypeOK, States, Active
      <4> QED BY <4>1, StagedOK
    <3> QED BY <3>1 DEF Inv, TypeOK, Record
  <2>5. /\ past' \in [Subs -> Past] /\ past'[s].minted = 1
        /\ \A x \in Subs : /\ past'[x].reviewed = past[x].reviewed /\ past'[x].created = past[x].created
                           /\ x # s => past'[x].minted = past[x].minted
    BY <1>4, <2>2, <2>3 DEF Inv, TypeOK, Past
  <2> HIDE DEF s, new
  <2>6. TypeOK'
    BY <1>1, <2>1, <2>4, <2>5 DEF Inv, TypeOK
  <2>7. History'
    <3>1. \A x \in Subs : (past'[x].created => past[x].created) /\ (past[x].created => past'[x].created)
      BY <2>5
    <3> QED BY <2>1, <2>2, <2>3, <2>4, <2>5, <3>1, NumbersOK DEF Inv, History, Recoverable
  <2>8. Threads'
    <3>1. \A d \in Runtimes, x \in Subs : Thread(d, x)' => Thread(d, x)
      BY <2>1 DEF Thread
    <3> QED BY <2>5, <3>1 DEF Inv, Threads
  <2>9. Mine(c)'
    BY <1>1, <2>1, <2>4, MineEnds DEF Inv
  <2>10. \A d \in Runtimes \ {c} : Mine(d)'
    <3> TAKE d \in Runtimes \ {c}
    <3>1. Leaves(d)
      BY <2>1, <2>2, <2>4, <2>5, NumbersOK, RuntimeOK DEF Leaves, Inv, Stamped
    <3> QED BY <2>6, <3>1, MineKept DEF Inv
  <2> QED BY <2>6, <2>7, <2>8, <2>9, <2>10 DEF Inv
<1> QED BY <1>2, <1>3, <1>4 DEF Stage

LEMMA InvEnqueue ==
  ASSUME Inv, NEW c \in Runtimes, Enqueue(c)
  PROVE  Inv'
<1>1. /\ at[c] = "enqueue" /\ at[c] \in InRun /\ at' \in [Runtimes -> Steps] /\ at'[c] = "receive"
      /\ \A d \in Runtimes \ {c} : at'[d] = at[d]
      /\ UNCHANGED <<rec, lease, submitter, mem, run, past, workspace, edits, faults>>
  BY GotoOK DEF Enqueue, InRun, RunSteps, Inv, leaseVars, envVars, Steps
<1>2. queued' \in [Subs -> BOOLEAN]
  BY DEF Enqueue, Inv, TypeOK
<1>3. TypeOK'
  BY <1>1, <1>2 DEF Inv, TypeOK
<1>4. Mine(c)'
  BY <1>1, MineEnds DEF Inv
<1> QED BY <1>1, <1>3, <1>4, InvMoves

LEMMA InvEnqueueExhausted ==
  ASSUME Inv, NEW c \in Runtimes, EnqueueExhausted(c)
  PROVE  Inv'
BY InvEnds, FaultOK DEF EnqueueExhausted, AfterExhaustion, InRun, RunSteps, Inv

\* A write that fails after the verdict was minted is what Lossless excludes.
LEMMA InvWriteFails ==
  ASSUME Inv, NEW c \in Runtimes, NoteFails(c) \/ ReceiveFails(c)
  PROVE  Inv'
<1>1. /\ at[c] \in InRun /\ ~Lossless /\ faults' \in 0 .. MaxFaults /\ FailWith(c, "error")
  BY FaultOK DEF NoteFails, ReceiveFails, Fault, Lossless, InRun, RunSteps, Inv
<1> QED BY <1>1, InvFailsWith DEF Reasons

LEMMA InvReceive ==
  ASSUME Inv, NEW c \in Runtimes, Receive(c)
  PROVE  Inv'
<1> DEFINE new == [rec EXCEPT !.state = "received"]
<1>1. /\ at[c] \in InRun /\ Update(c, new, "end")
      /\ UNCHANGED <<lease, submitter, queued, mem, run, past, workspace, edits, faults>>
  BY DEF Receive, leaseVars, envVars, InRun, RunSteps
<1>2. /\ new \in Record /\ new.state = "received" /\ new.sent = rec.sent /\ new.sub = rec.sub /\ new.tok = rec.tok
      /\ new.ep = rec.ep /\ new.origin = rec.origin /\ new.phase = rec.phase /\ new.failures = rec.failures
  BY DEF Inv, TypeOK, Record, States, Active
<1> HIDE DEF new
<1>3. Owns(c) => rec.phase = "executing" /\ rec.failures <= 1
  BY <1>1, OwnsOK DEF Inv, History
<1>4. Owns(c) /\ rec' = new /\ at'[c] = "end" => Mine(c)'
  BY <1>1, <1>2, MineEnds DEF Inv
<1> QED BY <1>1, <1>2, <1>3, <1>4, InvUpdates DEF Inv, TypeOK, Steps, RunSteps, Recoverable

LEMMA InvBusy ==
  ASSUME Inv, NEW c \in Runtimes, Busy(c)
  PROVE  Inv'
<1> DEFINE over == run[c].tries >= MaxTries
           pend == Checkpoint(c)
           new == [rec EXCEPT !.state = "retrying", !.pending = pend]
           place == IF over THEN "end" ELSE "verify"
<1>1. /\ at[c] = "busy" /\ at[c] \in InRun /\ at[c] \in During /\ Update(c, new, place)
      /\ run' = [run EXCEPT ![c].keep = Owns(c) /\ over]
      /\ UNCHANGED <<lease, submitter, queued, mem, past, workspace, edits, faults>>
  BY DEF Busy, leaseVars, envVars, InRun, During, RunSteps
<1>2. pend \in BOOLEAN
  BY DEF Checkpoint
<1>3. place \in Steps \ {"thread"} /\ place \in {"end", "verify"} /\ (place = "verify" => ~over)
  BY DEF Steps, RunSteps
<1>4. /\ run' \in [Runtimes -> Run] /\ \A d \in Runtimes \ {c} : run'[d] = run[d]
      /\ run'[c].sub = run[c].sub /\ run'[c].ep = run[c].ep /\ run'[c].needs = run[c].needs
      /\ run'[c].tries = run[c].tries
  <2>1. \E b \in BOOLEAN : run' = [run EXCEPT ![c].keep = b]
    BY <1>1
  <2> QED BY <2>1, FlagOK DEF Inv
<1>5. ~over => run[c].tries < MaxTries
  BY NumbersOK DEF Inv, TypeOK, Run
<1> HIDE DEF pend, place, over
<1>6. /\ new \in Record /\ new.state = "retrying" /\ new.sent = rec.sent /\ new.sub = rec.sub /\ new.tok = rec.tok
      /\ new.ep = rec.ep /\ new.origin = rec.origin /\ new.phase = rec.phase /\ new.failures = rec.failures
  BY <1>2 DEF Inv, TypeOK, Record, States, Active
<1> HIDE DEF new
<1>7. Owns(c) => Stamped(c) /\ rec.phase = "executing" /\ rec.state = "sending" /\ rec.failures <= 1
  BY <1>1, OwnsOK DEF Inv, History
<1>8. Owns(c) /\ rec' = new /\ at'[c] = place => Mine(c)'
  <2>1. CASE place = "end"
    BY <1>1, <1>4, <1>6, <2>1, MineEnds DEF Inv
  <2>2. CASE place = "verify"
    BY <1>1, <1>3, <1>4, <1>5, <1>6, <1>7, <2>2 DEF Inv, Mine, InRun, RunSteps, Before, During, Stamped,
                                                     NoReview, Recoverable
  <2> QED BY <1>3, <2>1, <2>2
<1> QED BY <1>1, <1>3, <1>4, <1>6, <1>7, <1>8, InvUpdates DEF Inv, TypeOK, Recoverable

LEMMA InvFail ==
  ASSUME Inv, NEW c \in Runtimes, Fail(c)
  PROVE  Inv'
<1> DEFINE new == FailedRecord(c)
<1>1. /\ at[c] = "fail" /\ at[c] \in InRun /\ Update(c, new, "notify")
      /\ UNCHANGED <<lease, submitter, queued, mem, run, past, workspace, edits, faults>>
  BY DEF Fail, leaseVars, envVars, InRun, RunSteps
<1>2. /\ new \in Record /\ new.state = "failed" /\ new.sent = rec.sent /\ new.sub = rec.sub /\ new.tok = rec.tok
      /\ new.ep = rec.ep /\ new.origin = rec.origin /\ new.phase = rec.phase /\ new.failures = rec.failures
  <2> DEFINE n == IF rec.notice = "none" THEN "prepared" ELSE rec.notice
  <2>1. rec \in Record /\ "failed" \in States /\ FALSE \in BOOLEAN /\ run[c].why \in Reasons
        /\ n \in {"none", "prepared", "enqueued", "delivered"}
    BY RuntimeOK DEF Inv, TypeOK, Record, States, Run
  <2>2. new = [rec EXCEPT !.state = "failed", !.pending = FALSE, !.reason = run[c].why, !.notice = n]
    BY DEF FailedRecord
  <2> HIDE DEF n, new
  <2>3. new \in Record
    BY <2>1, <2>2, FailedOK
  <2> QED BY <2>1, <2>2, <2>3 DEF Record
<1> HIDE DEF new
<1>3. Owns(c) => /\ rec.phase = "executing" /\ rec.failures <= 1 /\ (Lossless => rec.state \in Recoverable)
  BY <1>1, OwnsOK DEF Inv, History
<1>4. Owns(c) /\ rec' = new /\ at'[c] = "notify" => Mine(c)'
  BY <1>1, <1>2, MineEnds DEF Inv
<1> QED BY <1>1, <1>2, <1>3, <1>4, InvUpdates DEF Inv, TypeOK, Steps, RunSteps, Recoverable

LEMMA InvNotify ==
  ASSUME Inv, NEW c \in Runtimes, Notify(c)
  PROVE  Inv'
<1>1. /\ at[c] \in InRun /\ at' \in [Runtimes -> Steps] /\ at'[c] = "end" /\ \A d \in Runtimes \ {c} : at'[d] = at[d]
      /\ UNCHANGED <<lease, submitter, queued, mem, run, past, workspace, edits, faults>>
  BY GotoOK DEF Notify, InRun, RunSteps, Inv, leaseVars, envVars, Steps
<1>2. /\ rec' \in Record /\ rec'.state = rec.state /\ rec'.sent = rec.sent /\ rec'.sub = rec.sub
      /\ rec'.tok = rec.tok /\ rec'.ep = rec.ep /\ rec'.origin = rec.origin /\ rec'.phase = rec.phase
      /\ rec'.failures = rec.failures /\ rec'.pending = rec.pending
      /\ rec'.notice # rec.notice => rec.notice = "prepared"
  BY DEF Notify, Inv, TypeOK, Record
<1>3. TypeOK'
  BY <1>1, <1>2 DEF Inv, TypeOK
<1>4. Mine(c)'
  BY <1>1, <1>2, MineEnds DEF Inv
<1>5. \A d \in Runtimes \ {c} : Stamped(d)' => Stamped(d)
  BY <1>1, <1>2 DEF Stamped
<1>6. (rec.sub = 0 => rec.state = "none") /\ (rec.phase = "executing" => rec.failures <= 1)
  BY DEF Inv, History
<1> QED BY <1>1, <1>2, <1>3, <1>4, <1>5, <1>6, InvWrites

LEMMA InvEnd ==
  ASSUME Inv, NEW c \in Runtimes, End(c)
  PROVE  Inv'
<1>1. /\ at[c] \in InRun /\ at' \in [Runtimes -> Steps] /\ at'[c] = "release" /\ \A d \in Runtimes \ {c} : at'[d] = at[d]
      /\ UNCHANGED <<rec, lease, submitter, queued, run, past, workspace, edits, faults>>
  BY GotoOK DEF End, InRun, RunSteps, Inv, leaseVars, envVars, Steps
<1>2. run[c].sub \in Subs
  BY <1>1, RuntimeOK DEF Inv, Mine
<1>3. /\ mem' \in [Runtimes -> Memory] /\ mem'[c].cont \subseteq mem[c].cont
      /\ \A d \in Runtimes \ {c} : mem'[d] = mem[d]
  <2>1. CASE mem' = mem
    BY <2>1 DEF Inv, TypeOK
  <2>2. CASE mem' = Closed(c)
    BY <1>2, <2>2, WithoutOK DEF Closed, Inv, TypeOK
  <2> QED BY <2>1, <2>2 DEF End
<1>4. TypeOK'
  BY <1>1, <1>3 DEF Inv, TypeOK
<1>5. Mine(c)'
  BY <1>1, MineEnds DEF Inv
<1> QED BY <1>1, <1>3, <1>4, <1>5, InvMoves

----------------------------------------------------------------------------
(* The lease of a run, its end and its admission.                           *)

\* There is an epoch that nobody remembers.
LEMMA EpochsOK ==
  ASSUME NEW s \in Subs
  PROVE  NextEpoch(s) \in Epochs /\ NextEpoch(s) \notin Remembered(s) /\ 1 \in Epochs /\ Epochs \subseteq Nat
<1> DEFINE N == Cardinality(Runtimes)
           f == [c \in Runtimes |-> run[c].ep]
           R == {run[c].ep : c \in Runtimes}
           A == R \cup {rec.ep}
           B == A \cup {lease[s].ep}
<1>1. N \in Nat /\ Epochs = 1 .. (N + 3) /\ Epochs \subseteq Nat /\ 1 \in Epochs
  <2>1. N \in Nat
    BY RuntimesAssumption, FS_CardinalityType
  <2> QED BY <2>1 DEF Epochs
<1>2. IsFiniteSet(R) /\ Cardinality(R) <= N /\ Cardinality(R) \in Nat
  <2>1. f \in Surjection(Runtimes, R)
    BY DEF Surjection
  <2>2. IsFiniteSet(R) /\ Cardinality(R) <= N
    BY <2>1, RuntimesAssumption, FS_Surjection
  <2> QED BY <2>2, FS_CardinalityType
<1>3. IsFiniteSet(A) /\ Cardinality(A) <= N + 1 /\ Cardinality(A) \in Nat
  <2>1. IsFiniteSet(A) /\ Cardinality(A) = IF rec.ep \in R THEN Cardinality(R) ELSE Cardinality(R) + 1
    BY <1>2, FS_AddElement
  <2> QED BY <1>1, <1>2, <2>1
<1>4. IsFiniteSet(B) /\ Cardinality(B) <= N + 2 /\ Cardinality(B) \in Nat
  <2>1. IsFiniteSet(B) /\ Cardinality(B) = IF lease[s].ep \in A THEN Cardinality(A) ELSE Cardinality(A) + 1
    <3> HIDE DEF A
    <3> QED BY <1>3, FS_AddElement
  <2> QED BY <1>1, <1>3, <2>1
<1>5. Cardinality(Epochs) = N + 3
  BY <1>1, FS_Interval
<1>6. Remembered(s) = B
  BY DEF Remembered
<1>7. ~(Epochs \subseteq B)
  <2> HIDE DEF B
  <2>1. Epochs \subseteq B => Cardinality(Epochs) <= Cardinality(B)
    BY <1>4, FS_Subset
  <2> QED BY <1>1, <1>4, <1>5, <2>1
<1> QED BY <1>1, <1>6, <1>7 DEF NextEpoch

\* A lease row that is given back.
LEMMA GivenBack ==
  ASSUME TypeOK, NEW s \in Subs,
         lease' = [lease EXCEPT ![s].owner = NoOne, ![s].live = FALSE]
  PROVE  /\ lease' \in [Subs -> Lease] /\ lease'[s].owner = NoOne
         /\ \A x \in Subs : x # s => lease'[x] = lease[x]
         /\ \A d \in Runtimes, x \in Subs : lease'[x].owner = d => lease[x].owner = d
<1> DEFINE r == [lease[s] EXCEPT !.owner = NoOne, !.live = FALSE]
<1>1. lease' = [lease EXCEPT ![s] = r]
  OBVIOUS
<1>2. r \in Lease /\ r.owner = NoOne
  BY DEF TypeOK, Lease
<1> HIDE DEF r
<1> QED BY <1>1, <1>2, RuntimesAssumption DEF TypeOK

\* The local variables of a run that has not begun, with its submission.
LEMMA NoRunOK == NoRun \in Run /\ NoRun.sub = 0 /\ NoRun.ep = 0 /\ NoRun.tries = 0
BY NumbersOK DEF Run, NoRun, Reasons, Prints

LEMMA NamedOK ==
  ASSUME NEW r \in Run, NEW s \in 0 .. MaxSubs, NEW p \in Prints
  PROVE  /\ [r EXCEPT !.sub = s, !.print = p] \in Run
         /\ [r EXCEPT !.sub = s, !.print = p].sub = s
BY DEF Run

LEMMA LeasedOK ==
  ASSUME NEW s \in 0 .. MaxSubs, NEW e \in Epochs
  PROVE  LET r == [NoRun EXCEPT !.sub = s, !.ep = e] IN r \in Run /\ r.sub = s /\ r.ep = e /\ r.tries = 0
<1>1. ASSUME NEW r \in Run
      PROVE  LET q == [r EXCEPT !.sub = s, !.ep = e] IN q \in Run /\ q.sub = s /\ q.ep = e /\ q.tries = r.tries
  BY DEF Run
<1> QED BY <1>1, NoRunOK

\* A run that is over.
LEMMA RunOver ==
  ASSUME TypeOK, NEW c \in Runtimes, run' = [run EXCEPT ![c] = NoRun]
  PROVE  /\ run' \in [Runtimes -> Run] /\ run'[c].sub = 0 /\ \A d \in Runtimes \ {c} : run'[d] = run[d]
BY NoRunOK DEF TypeOK

LEMMA InvRelease ==
  ASSUME Inv, NEW c \in Runtimes, Release(c)
  PROVE  Inv'
<1>1. /\ at[c] = "release" /\ at[c] \in InRun
      /\ UNCHANGED <<rec, submitter, queued, mem, past, workspace, edits, faults>>
  BY DEF Release, InRun, RunSteps, envVars
<1>2. run[c].sub \in Subs
  BY <1>1, RuntimeOK DEF Inv, Mine
<1>3. CASE /\ lease' = [lease EXCEPT ![run[c].sub].owner = NoOne, ![run[c].sub].live = FALSE]
           /\ Goto(c, "unfence") /\ UNCHANGED run
  <2>1. /\ at' \in [Runtimes -> Steps] /\ at'[c] = "unfence" /\ \A d \in Runtimes \ {c} : at'[d] = at[d]
    BY <1>3, GotoOK DEF Inv, Steps, RunSteps
  <2>2. /\ lease' \in [Subs -> Lease] /\ \A d \in Runtimes, x \in Subs : lease'[x].owner = d => lease[x].owner = d
    BY <1>2, <1>3, GivenBack DEF Inv
  <2>3. TypeOK'
    BY <1>1, <1>3, <2>1, <2>2 DEF Inv, TypeOK
  <2>4. Mine(c)'
    BY <1>1, <1>3, <2>1, MineEnds DEF Inv
  <2> QED BY <1>1, <1>3, <2>1, <2>2, <2>3, <2>4, InvMoves
<1>4. CASE Goto(c, "idle") /\ run' = [run EXCEPT ![c] = NoRun] /\ UNCHANGED lease
  <2>1. /\ at' \in [Runtimes -> Steps] /\ at'[c] = "idle" /\ \A d \in Runtimes \ {c} : at'[d] = at[d]
    BY <1>4, GotoOK DEF Inv, Steps
  <2>2. /\ run' \in [Runtimes -> Run] /\ run'[c].sub = 0 /\ \A d \in Runtimes \ {c} : run'[d] = run[d]
    BY <1>4, RunOver DEF Inv
  <2>3. TypeOK'
    BY <1>1, <1>4, <2>1, <2>2 DEF Inv, TypeOK
  <2>4. Mine(c)'
    BY <1>1, <2>1, <2>2, RuntimeOK, MineIdle DEF Inv, InRun, RunSteps
  <2> QED BY <1>1, <1>4, <2>1, <2>2, <2>3, <2>4, InvMoves
<1> QED BY <1>3, <1>4 DEF Release

LEMMA InvUnfence ==
  ASSUME Inv, NEW c \in Runtimes, Unfence(c)
  PROVE  Inv'
<1>1. /\ at' \in [Runtimes -> Steps] /\ at'[c] = "idle" /\ \A d \in Runtimes \ {c} : at'[d] = at[d]
      /\ UNCHANGED <<lease, submitter, queued, mem, past, workspace, edits, faults>>
  BY GotoOK DEF Unfence, Inv, leaseVars, envVars, Steps
<1>2. /\ run' \in [Runtimes -> Run] /\ run'[c].sub = 0 /\ \A d \in Runtimes \ {c} : run'[d] = run[d]
  BY RunOver DEF Unfence, Inv
<1>3. rec' = rec \/ rec' = [rec EXCEPT !.tok = NoOne, !.ep = 0]
  BY DEF Unfence
<1>4. /\ rec' \in Record /\ rec'.state = rec.state /\ rec'.sent = rec.sent /\ rec'.sub = rec.sub
      /\ rec'.origin = rec.origin /\ rec'.phase = rec.phase /\ rec'.failures = rec.failures
      /\ rec'.pending = rec.pending /\ rec'.notice = rec.notice
      /\ (rec'.tok = rec.tok /\ rec'.ep = rec.ep) \/ rec'.tok = NoOne
  BY <1>3 DEF Inv, TypeOK, Record
<1>5. TypeOK'
  BY <1>1, <1>2, <1>4 DEF Inv, TypeOK
<1>6. Mine(c)'
  BY <1>1, <1>2, <1>4, RuntimeOK, MineIdle DEF Inv, InRun, RunSteps
<1>7. \A d \in Runtimes \ {c} : Stamped(d)' => Stamped(d)
  BY <1>2, <1>4, RuntimesAssumption DEF Stamped
<1>8. (rec.sub = 0 => rec.state = "none") /\ (rec.phase = "executing" => rec.failures <= 1)
  BY DEF Inv, History
<1> QED BY <1>1, <1>2, <1>4, <1>5, <1>6, <1>7, <1>8, InvWrites

LEMMA InvAdmit ==
  ASSUME Inv, NEW c \in Runtimes, Admit(c)
  PROVE  Inv'
<1>1. /\ at' \in [Runtimes -> Steps] /\ at'[c] = "admit" /\ \A d \in Runtimes \ {c} : at'[d] = at[d]
      /\ UNCHANGED <<rec, lease, submitter, queued, mem, past, workspace, edits, faults>>
  BY GotoOK DEF Admit, Inv, leaseVars, envVars, Steps, SubmitSteps
<1>2. /\ run' \in [Runtimes -> Run] /\ run'[c].sub = rec.sub /\ \A d \in Runtimes \ {c} : run'[d] = run[d]
  <2> DEFINE r == [NoRun EXCEPT !.sub = rec.sub, !.print = workspace]
  <2>1. r \in Run /\ r.sub = rec.sub
    BY NoRunOK, NamedOK DEF Inv, TypeOK, Record
  <2>2. run' = [run EXCEPT ![c] = r]
    BY DEF Admit
  <2> HIDE DEF r
  <2> QED BY <2>1, <2>2 DEF Inv, TypeOK
<1>3. TypeOK'
  BY <1>1, <1>2 DEF Inv, TypeOK
<1>4. Mine(c)'
  BY <1>1, <1>2, RuntimeOK, MineIdle DEF Inv, InRun, RunSteps
<1> QED BY <1>1, <1>2, <1>3, <1>4, InvMoves

LEMMA InvFence ==
  ASSUME Inv, NEW c \in Runtimes, Fence(c)
  PROVE  Inv'
<1>1. /\ at[c] = "admit" /\ at' \in [Runtimes -> Steps] /\ at'[c] \in {"fenced", "idle"}
      /\ \A d \in Runtimes \ {c} : at'[d] = at[d]
      /\ submitter' \in Runtimes \cup {NoOne}
      /\ UNCHANGED <<rec, lease, queued, mem, past, workspace, edits, faults>>
  BY GotoOK DEF Fence, Inv, envVars, Steps, SubmitSteps, TypeOK
<1>2. /\ run' \in [Runtimes -> Run] /\ run'[c].sub \in {0, run[c].sub} /\ \A d \in Runtimes \ {c} : run'[d] = run[d]
  BY RunOver DEF Fence, Inv, TypeOK
<1>3. TypeOK'
  BY <1>1, <1>2 DEF Inv, TypeOK
<1>4. Mine(c)'
  BY <1>1, <1>2, RuntimeOK, MineIdle DEF Inv, InRun, RunSteps, Mine
<1> QED BY <1>1, <1>2, <1>3, <1>4, InvMoves

----------------------------------------------------------------------------
(* The submission that is prepared, the sweep and the claim.                *)

\* The record of a submission that is prepared.
LEMMA PreparedOK ==
  ASSUME TypeOK, NEW c \in Runtimes, NEW n \in Subs
  PROVE  LET q == PreparedRecord(c, n) IN
         /\ q \in Record /\ q.sub = n /\ q.state = "queued" /\ ~q.sent /\ ~q.pending /\ q.notice = "none"
         /\ q.tok = c /\ q.phase = rec.phase /\ q.failures = rec.failures
<1> DEFINE b == FALSE
           p == run[c].print
           q == [rec EXCEPT !.sub = n, !.state = "queued", !.sent = b, !.pending = b, !.reason = "none",
                            !.notice = "none", !.tok = c, !.ep = 1, !.print = p]
<1>1. b \in BOOLEAN /\ ~b /\ p \in Prints /\ n \in 0 .. MaxSubs /\ 1 \in Epochs /\ rec \in Record
  BY NumbersOK, EpochsOK, RuntimeOK DEF TypeOK, Run
<1>2. PreparedRecord(c, n) = q
  BY DEF PreparedRecord
<1> HIDE DEF b, p
<1>3. /\ q \in Record /\ q.sub = n /\ q.state = "queued" /\ ~q.sent /\ ~q.pending /\ q.notice = "none"
      /\ q.tok = c /\ q.phase = rec.phase /\ q.failures = rec.failures
  BY <1>1 DEF Record, States, Active, Reasons
<1> HIDE DEF q
<1> QED BY <1>2, <1>3

LEMMA InvPrepare ==
  ASSUME Inv, NEW c \in Runtimes, Prepare(c)
  PROVE  Inv'
<1> DEFINE n == rec.sub + 1
           r == [NoRun EXCEPT !.sub = n, !.ep = 1]
           new == PreparedRecord(c, n)
           row == [owner |-> c, ep |-> 1, live |-> TRUE]
<1>1. /\ at[c] = "fenced" /\ submitter' \in Runtimes \cup {NoOne}
      /\ UNCHANGED <<queued, mem, past, workspace, edits, faults>>
  BY DEF Prepare, envVars, Inv, TypeOK
<1>2. CASE /\ Submittable /\ rec' = new /\ lease' = [lease EXCEPT ![n] = row]
           /\ run' = [run EXCEPT ![c] = r] /\ Goto(c, "startup")
  <2>1. /\ at' \in [Runtimes -> Steps] /\ at'[c] = "startup" /\ \A d \in Runtimes \ {c} : at'[d] = at[d]
    BY <1>2, GotoOK DEF Inv, Steps, SubmitSteps
  <2>2. /\ n \in Subs /\ n \in Nat /\ n \in 0 .. MaxSubs /\ n > rec.sub /\ n # 0 /\ rec.phase = "executing"
    BY <1>2, NumbersOK, RuntimeOK DEF Submittable, Subs, Inv
  <2>3. ~past[n].created /\ past[n].minted = 0
    BY <2>2 DEF Inv, History
  <2>4. r \in Run /\ r.sub = n /\ r.ep = 1 /\ r.tries = 0
    BY <2>2, EpochsOK, LeasedOK
  <2>5. /\ new \in Record /\ new.sub = n /\ new.state = "queued" /\ ~new.sent /\ ~new.pending /\ new.notice = "none"
        /\ new.tok = c /\ new.phase = rec.phase /\ new.failures = rec.failures
    BY <2>2, PreparedOK DEF Inv
  <2>6. row \in Lease /\ row.owner = c
    BY <2>2, EpochsOK DEF Lease
  <2> HIDE DEF n, r, new, row
  <2>7. /\ lease' \in [Subs -> Lease] /\ lease'[n].owner = c /\ \A x \in Subs : x # n => lease'[x] = lease[x]
    BY <1>2, <2>2, <2>6 DEF Inv, TypeOK
  <2>8. run' \in [Runtimes -> Run] /\ run'[c] = r /\ \A d \in Runtimes \ {c} : run'[d] = run[d]
    BY <1>2, <2>4 DEF Inv, TypeOK
  <2>9. TypeOK'
    BY <1>1, <1>2, <2>1, <2>5, <2>7, <2>8 DEF Inv, TypeOK
  <2>10. History'
    BY <1>1, <1>2, <2>2, <2>3, <2>5, NumbersOK, RuntimeOK DEF Inv, History
  <2>11. Threads'
    <3>1. \A d \in Runtimes, x \in Subs : Thread(d, x)' => Thread(d, x)
      BY <1>1, <2>1, <2>8 DEF Thread
    <3> QED BY <1>1, <3>1, ThreadsKept DEF Inv
  <2>12. Mine(c)'
    <3>1. run'[c].sub = n /\ run'[c].tries < MaxTries
      BY <2>4, <2>8, NumbersOK
    <3> QED BY <1>1, <1>2, <2>1, <2>2, <2>3, <2>5, <3>1, RuntimeOK
            DEF Mine, Before, During, InRun, RunSteps, Recoverable, Stamped
  <2>13. \A d \in Runtimes \ {c} : Mine(d)'
    <3> TAKE d \in Runtimes \ {c}
    <3>1. ~Stamped(d)'
      BY <1>2, <2>5 DEF Stamped
    <3>2. run[d].sub # 0 => run[d].sub \in Subs
      BY RuntimeOK DEF Inv
    <3>3. Leaves(d)
      BY <1>1, <1>2, <2>1, <2>2, <2>5, <2>7, <2>8, <3>1, <3>2, RuntimeOK DEF Leaves, Inv
    <3> QED BY <2>9, <3>3, MineKept DEF Inv
  <2> QED BY <2>9, <2>10, <2>11, <2>12, <2>13 DEF Inv
<1>3. CASE /\ Goto(c, "idle") /\ run' = [run EXCEPT ![c] = NoRun] /\ UNCHANGED <<rec, lease>>
  <2>1. /\ at' \in [Runtimes -> Steps] /\ at'[c] = "idle" /\ \A d \in Runtimes \ {c} : at'[d] = at[d]
    BY <1>3, GotoOK DEF Inv, Steps
  <2>2. /\ run' \in [Runtimes -> Run] /\ run'[c].sub = 0 /\ \A d \in Runtimes \ {c} : run'[d] = run[d]
    BY <1>3, RunOver DEF Inv
  <2>3. TypeOK'
    BY <1>1, <1>3, <2>1, <2>2 DEF Inv, TypeOK
  <2>4. Mine(c)'
    BY <1>3, <2>1, <2>2, RuntimeOK, MineIdle DEF Inv, InRun, RunSteps
  <2> QED BY <1>1, <1>3, <2>1, <2>2, <2>3, <2>4, InvMoves
<1> QED BY <1>2, <1>3 DEF Prepare

LEMMA InvSweep ==
  ASSUME Inv, NEW c \in Runtimes, Sweep(c)
  PROVE  Inv'
<1> DEFINE s == rec.sub
           e == NextEpoch(s)
           r == [NoRun EXCEPT !.sub = s, !.ep = e]
           row == [owner |-> c, ep |-> e, live |-> TRUE]
<1>1. /\ rec.state \in Recoverable /\ at' \in [Runtimes -> Steps] /\ at'[c] = "claim"
      /\ \A d \in Runtimes \ {c} : at'[d] = at[d]
      /\ UNCHANGED <<rec, submitter, queued, mem, past, workspace, edits, faults>>
  BY GotoOK DEF Sweep, Inv, envVars, Steps
<1>2. s \in Subs /\ s # 0 /\ s \in 0 .. MaxSubs
  BY <1>1, NumbersOK, RuntimeOK DEF Inv, History, Recoverable, Subs
<1>3. e \in Epochs
  BY <1>2, EpochsOK
<1>4. r \in Run /\ r.sub = s /\ r.tries = 0 /\ row \in Lease /\ row.owner = c
  <2> HIDE DEF e
  <2>1. r \in Run /\ r.sub = s /\ r.tries = 0
    BY <1>2, <1>3, LeasedOK
  <2> QED BY <1>3, <2>1 DEF Lease
<1>5. lease' = [lease EXCEPT ![s] = row] /\ run' = [run EXCEPT ![c] = r]
  BY DEF Sweep
<1> HIDE DEF s, e, r, row
<1>6. /\ lease' \in [Subs -> Lease] /\ lease'[s].owner = c /\ \A x \in Subs : x # s => lease'[x] = lease[x]
      /\ run' \in [Runtimes -> Run] /\ run'[c].sub = s /\ run'[c].tries = 0
      /\ \A d \in Runtimes \ {c} : run'[d] = run[d]
  BY <1>2, <1>4, <1>5 DEF Inv, TypeOK
<1>7. TypeOK'
  BY <1>1, <1>6 DEF Inv, TypeOK
<1>8. Mine(c)'
  BY <1>1, <1>2, <1>6, NumbersOK, RuntimeOK DEF Mine, Before, During, InRun, RunSteps, Inv, s
<1>9. \A d \in Runtimes \ {c}, x \in Subs : lease'[x].owner = d => lease[x].owner = d
  BY <1>6
<1> QED BY <1>1, <1>6, <1>7, <1>8, <1>9, InvMoves

\* A run that remembers whether it needs the original Reviewer.
LEMMA NeedsOK ==
  ASSUME TypeOK, NEW c \in Runtimes, NEW b \in BOOLEAN, run' = [run EXCEPT ![c].needs = b]
  PROVE  /\ run' \in [Runtimes -> Run] /\ \A d \in Runtimes \ {c} : run'[d] = run[d]
         /\ run'[c].sub = run[c].sub /\ run'[c].ep = run[c].ep /\ run'[c].tries = run[c].tries
         /\ run'[c].needs = b
BY DEF TypeOK, Run

LEMMA InvClaim ==
  ASSUME Inv, NEW c \in Runtimes, Claim(c)
  PROVE  Inv'
<1>1. /\ at[c] = "claim" /\ at[c] \in InRun
      /\ UNCHANGED <<submitter, queued, mem, past, workspace, edits, faults>>
  BY DEF Claim, InRun, envVars
<1>2. run[c].sub \in Subs /\ run[c].tries < MaxTries
  BY <1>1, RuntimeOK DEF Inv, Mine
<1>3. CASE /\ Claimable(c)
           /\ rec' = [rec EXCEPT !.state = "sending", !.tok = c, !.ep = run[c].ep]
           /\ run' = [run EXCEPT ![c].needs = NeedsOriginal]
           /\ Goto(c, "check") /\ UNCHANGED lease
  <2>1. /\ at' \in [Runtimes -> Steps] /\ at'[c] = "check" /\ \A d \in Runtimes \ {c} : at'[d] = at[d]
    BY <1>3, GotoOK DEF Inv, Steps, RunSteps
  <2>2. rec.sub = run[c].sub /\ rec.state \in Recoverable
    BY <1>3 DEF Claimable
  <2>3. /\ rec' \in Record /\ rec'.state = "sending" /\ rec'.tok = c /\ rec'.sub = rec.sub /\ rec'.sent = rec.sent
        /\ rec'.origin = rec.origin /\ rec'.phase = rec.phase /\ rec'.failures = rec.failures
    BY <1>3, RuntimeOK DEF Inv, TypeOK, Record, States, Active, Run
  <2>4. /\ run' \in [Runtimes -> Run] /\ \A d \in Runtimes \ {c} : run'[d] = run[d]
        /\ run'[c].sub = run[c].sub /\ run'[c].tries = run[c].tries
    <3>1. \E b \in BOOLEAN : run' = [run EXCEPT ![c].needs = b]
      BY <1>3 DEF NeedsOriginal, Inv, TypeOK, Record
    <3> QED BY <3>1, NeedsOK DEF Inv
  <2>5. past[run[c].sub].created => run'[c].needs
    <3>1. ASSUME past[run[c].sub].created  PROVE run' = [run EXCEPT ![c].needs = TRUE]
      <4>1. NeedsOriginal = TRUE
        BY <1>2, <2>2, <3>1 DEF NeedsOriginal, Inv, History, TypeOK, Record
      <4> QED BY <1>3, <4>1
    <3> QED BY <3>1, NeedsOK DEF Inv
  <2>6. TypeOK'
    BY <1>1, <1>3, <2>1, <2>3, <2>4 DEF Inv, TypeOK
  <2>7. Mine(c)'
    BY <1>1, <1>2, <1>3, <2>1, <2>2, <2>3, <2>4, <2>5, NumbersOK, RuntimeOK
       DEF Inv, Mine, Before, During, InRun, RunSteps, Recoverable, NoReview
  <2>8. \A d \in Runtimes \ {c} : ~Stamped(d)'
    BY <2>3 DEF Stamped
  <2>9. (rec.sub = 0 => rec'.state = "none") /\ (rec.phase = "executing" => rec.failures <= 1)
    BY <1>2, <2>2, NumbersOK DEF Inv, History
  <2> QED BY <1>1, <1>3, <2>1, <2>2, <2>3, <2>4, <2>6, <2>7, <2>8, <2>9, InvWrites DEF Recoverable
<1>4. CASE /\ lease' = IF lease[run[c].sub].owner = c /\ lease[run[c].sub].ep = run[c].ep
                       THEN [lease EXCEPT ![run[c].sub].owner = NoOne, ![run[c].sub].live = FALSE] ELSE lease
           /\ run' = [run EXCEPT ![c] = NoRun]
           /\ Goto(c, "idle") /\ UNCHANGED rec
  <2>1. /\ at' \in [Runtimes -> Steps] /\ at'[c] = "idle" /\ \A d \in Runtimes \ {c} : at'[d] = at[d]
    BY <1>4, GotoOK DEF Inv, Steps
  <2>2. /\ run' \in [Runtimes -> Run] /\ run'[c].sub = 0 /\ \A d \in Runtimes \ {c} : run'[d] = run[d]
    BY <1>4, RunOver DEF Inv
  <2>3. /\ lease' \in [Subs -> Lease] /\ \A d \in Runtimes, x \in Subs : lease'[x].owner = d => lease[x].owner = d
    <3>1. CASE lease' = lease
      BY <3>1 DEF Inv, TypeOK
    <3>2. CASE lease' = [lease EXCEPT ![run[c].sub].owner = NoOne, ![run[c].sub].live = FALSE]
      BY <1>2, <3>2, GivenBack DEF Inv
    <3> QED BY <1>4, <3>1, <3>2
  <2>4. TypeOK'
    BY <1>1, <1>4, <2>1, <2>2, <2>3 DEF Inv, TypeOK
  <2>5. Mine(c)'
    BY <1>4, <2>1, <2>2, RuntimeOK, MineIdle DEF Inv, InRun, RunSteps
  <2> QED BY <1>1, <1>4, <2>1, <2>2, <2>3, <2>4, <2>5, InvMoves
<1> QED BY <1>3, <1>4 DEF Claim

LEMMA InvClaimFails ==
  ASSUME Inv, NEW c \in Runtimes, ClaimFails(c)
  PROVE  Inv'
<1>1. /\ at[c] = "claim" /\ at' \in [Runtimes -> Steps] /\ at'[c] = "idle" /\ \A d \in Runtimes \ {c} : at'[d] = at[d]
      /\ UNCHANGED <<rec, lease, submitter, queued, past, workspace, edits, faults>>
  BY GotoOK DEF ClaimFails, Inv, leaseVars, envVars, Steps
<1>2. run[c].sub \in Subs
  BY <1>1, RuntimeOK DEF Inv, Mine, InRun
<1>3. /\ run' \in [Runtimes -> Run] /\ run'[c].sub = 0 /\ \A d \in Runtimes \ {c} : run'[d] = run[d]
  BY RunOver DEF ClaimFails, Inv
<1>4. /\ mem' \in [Runtimes -> Memory] /\ mem'[c].cont = mem[c].cont /\ \A d \in Runtimes \ {c} : mem'[d] = mem[d]
  BY <1>2 DEF ClaimFails, Inv, TypeOK, Memory
<1>5. TypeOK'
  BY <1>1, <1>3, <1>4 DEF Inv, TypeOK
<1>6. Mine(c)'
  BY <1>1, <1>3, RuntimeOK, MineIdle DEF Inv, InRun, RunSteps
<1> QED BY <1>1, <1>3, <1>4, <1>5, <1>6, InvMoves

----------------------------------------------------------------------------
(* The world around the runs, and the step.                                 *)

\* A step that only writes the workflow record.
LEMMA InvRecovers ==
  ASSUME Inv, UNCHANGED <<past, at, run, mem, lease, submitter, queued, workspace, edits, faults>>,
         rec' \in Record, rec'.state = "queued" => rec.state = "queued" /\ rec'.notice = "none",
         rec'.sub = rec.sub, rec'.tok = rec.tok, rec'.ep = rec.ep, rec'.sent = rec.sent, rec'.origin = rec.origin,
         rec'.pending = rec.pending, rec'.failures = rec.failures,
         rec.phase # "executing" => rec'.phase = rec.phase,
         \/ rec'.state = rec.state
         \/ rec.state \in {"verdict_ready", "received"} /\ rec'.state \in {"received", "delivered"}
  PROVE  Inv'
<1>1. TypeOK'
  BY DEF Inv, TypeOK
<1>2. \A d \in Runtimes :
        Stamped(d)' => Stamped(d) /\ (rec'.state = rec.state \/ rec.state \notin Recoverable)
  BY DEF Stamped, Recoverable, Active
<1>3. (rec.sub = 0 => rec.state = "none") /\ (rec.phase = "executing" => rec.failures <= 1)
  BY DEF Inv, History
<1>4. rec'.phase = "executing" => rec'.failures <= 1
  BY <1>3 DEF Inv, TypeOK
<1> QED BY <1>1, <1>2, <1>3, <1>4, InvWorld DEF Recoverable

\* The recovery of what is staged, the notices, and the deliveries.
LEMMA InvRecovery ==
  ASSUME Inv, RecoverEnqueue \/ RecoverReceive \/ RecoverNotice \/ DeliverNotice \/ Applied
  PROVE  Inv'
<1>1. CASE RecoverEnqueue
  <2>1. queued' \in [Subs -> BOOLEAN] /\ UNCHANGED <<rec, lease, submitter, mem, at, run, past, workspace, edits, faults>>
    BY <1>1 DEF RecoverEnqueue, Inv, TypeOK, leaseVars, envVars
  <2>2. TypeOK'
    BY <2>1 DEF Inv, TypeOK
  <2>3. (rec.sub = 0 => rec.state = "none") /\ (rec.phase = "executing" => rec.failures <= 1)
    BY DEF Inv, History
  <2> QED BY <2>1, <2>2, <2>3, InvWorld DEF Stamped
<1>2. CASE RecoverReceive
  BY <1>2, InvRecovers DEF RecoverReceive, leaseVars, envVars, Inv, TypeOK, Record, States, Active
<1>3. CASE RecoverNotice
  BY <1>3, InvRecovers DEF RecoverNotice, leaseVars, envVars, Inv, TypeOK, Record
<1>4. CASE DeliverNotice
  BY <1>4, InvRecovers DEF DeliverNotice, leaseVars, envVars, Inv, TypeOK, Record
<1>5. CASE Applied
  <2>1. PICK phase \in {"executing", "passed"} : rec' = [rec EXCEPT !.state = "delivered", !.phase = phase]
    BY <1>5 DEF Applied
  <2>2. /\ rec' \in Record /\ rec'.state = "delivered" /\ rec'.sub = rec.sub /\ rec'.tok = rec.tok
        /\ rec'.ep = rec.ep /\ rec'.sent = rec.sent /\ rec'.origin = rec.origin /\ rec'.pending = rec.pending
        /\ rec'.failures = rec.failures
    BY <2>1 DEF Inv, TypeOK, Record, States
  <2> QED BY <1>5, <2>2, InvRecovers DEF Applied, leaseVars, envVars
<1> QED BY <1>1, <1>2, <1>3, <1>4, <1>5

\* A lease row that is renewed, or that runs out.
LEMMA RowOK ==
  ASSUME TypeOK, NEW s \in Subs, NEW b \in BOOLEAN, lease' = [lease EXCEPT ![s].live = b]
  PROVE  lease' \in [Subs -> Lease] /\ \A x \in Subs : lease'[x].owner = lease[x].owner
BY DEF TypeOK, Lease

\* Time passes for the leases.
LEMMA InvRows ==
  ASSUME Inv, UNCHANGED <<rec, queued, mem, at, run, past, workspace, edits>>,
         faults' \in 0 .. MaxFaults, submitter' \in Runtimes \cup {NoOne},
         \/ lease' = lease
         \/ \E s \in Subs, b \in BOOLEAN : lease' = [lease EXCEPT ![s].live = b]
  PROVE  Inv'
<1>1. lease' \in [Subs -> Lease] /\ \A x \in Subs : lease'[x].owner = lease[x].owner
  BY RowOK DEF Inv, TypeOK
<1>2. TypeOK'
  BY <1>1 DEF Inv, TypeOK
<1>3. (rec.sub = 0 => rec.state = "none") /\ (rec.phase = "executing" => rec.failures <= 1)
  BY DEF Inv, History
<1>4. \A d \in Runtimes : Stamped(d)' => Stamped(d)
  BY DEF Stamped
<1> QED BY <1>1, <1>2, <1>3, <1>4, InvWorld

LEMMA InvExpire ==
  ASSUME Inv, Expire
  PROVE  Inv'
<1>1. /\ UNCHANGED <<rec, queued, mem, at, run, past, workspace, edits, faults>>
      /\ faults' \in 0 .. MaxFaults /\ submitter' \in Runtimes \cup {NoOne}
  BY DEF Expire, envVars, Inv, TypeOK
<1>2. \/ lease' = lease
      \/ \E s \in Subs, b \in BOOLEAN : lease' = [lease EXCEPT ![s].live = b]
  BY DEF Expire
<1> QED BY <1>1, <1>2, InvRows

\* A run that holds or has lost the lease of its submission.
LEMMA RunningOK ==
  ASSUME Inv, NEW c \in Runtimes, Running(c) \/ at[c] = "claim"
  PROVE  at[c] \in InRun /\ run[c].sub \in Subs
<1>1. at[c] \in InRun
  BY DEF Running, InRun
<1> QED BY <1>1, RuntimeOK DEF Inv, Mine

LEMMA InvStall ==
  ASSUME Inv, NEW c \in Runtimes, Stall(c)
  PROVE  Inv'
<1>1. /\ UNCHANGED <<rec, submitter, queued, mem, at, run, past, workspace, edits>> /\ faults' \in 0 .. MaxFaults
      /\ run[c].sub \in Subs
  BY FaultOK, RunningOK DEF Stall, envVars, Inv
<1>2. lease' = [lease EXCEPT ![run[c].sub].live = FALSE]
  BY DEF Stall
<1>3. \E s \in Subs, b \in BOOLEAN : lease' = [lease EXCEPT ![s].live = b]
  BY <1>1, <1>2
<1> QED BY <1>1, <1>3, InvRows DEF Inv, TypeOK

LEMMA InvBeat ==
  ASSUME Inv, NEW c \in Runtimes, Beat(c)
  PROVE  Inv'
<1>1. /\ UNCHANGED <<rec, submitter, queued, mem, at, past, workspace, edits, faults>>
      /\ run[c].sub \in Subs /\ at[c] \in InRun
  BY RunningOK DEF Beat, envVars
<1>2. CASE lease' = [lease EXCEPT ![run[c].sub].live = TRUE] /\ UNCHANGED run
  <2>1. \E s \in Subs, b \in BOOLEAN : lease' = [lease EXCEPT ![s].live = b]
    BY <1>1, <1>2
  <2> QED BY <1>1, <1>2, <2>1, InvRows DEF Inv, TypeOK
<1>3. CASE run' = [run EXCEPT ![c].lost = TRUE] /\ UNCHANGED lease
  <2>1. /\ run' \in [Runtimes -> Run] /\ \A d \in Runtimes \ {c} : run'[d] = run[d]
        /\ run'[c].sub = run[c].sub /\ run'[c].ep = run[c].ep /\ run'[c].tries = run[c].tries
        /\ run'[c].needs = run[c].needs
    <3>1. \E b \in BOOLEAN : run' = [run EXCEPT ![c].lost = b]
      BY <1>3
    <3> QED BY <3>1, FlagOK DEF Inv
  <2>2. TypeOK'
    BY <1>1, <1>3, <2>1 DEF Inv, TypeOK
  <2>3. Mine(c)'
    <3>1. (Stamped(c)' => Stamped(c)) /\ (NoReview(c) => NoReview(c)')
      BY <1>1, <2>1 DEF Stamped, NoReview
    <3> QED BY <1>1, <1>3, <2>1, <3>1 DEF Inv, Mine
  <2> QED BY <1>1, <1>3, <2>1, <2>2, <2>3, InvMoves
<1> QED BY <1>2, <1>3 DEF Beat

LEMMA InvLoseThread ==
  ASSUME Inv, NEW c \in Runtimes, LoseThread(c)
  PROVE  Inv'
<1>1. PICK s \in mem[c].cont : mem' = [mem EXCEPT ![c].cont = @ \ {s}, ![c].gone = @ \cup {s}]
  BY DEF LoseThread
<1>2. UNCHANGED <<rec, lease, submitter, queued, at, run, past, workspace, edits>> /\ faults' \in 0 .. MaxFaults
  BY FaultOK DEF LoseThread, leaseVars, envVars, Inv
<1>3. s \in Subs
  BY RuntimeOK DEF Inv, Memory
<1>4. /\ mem' \in [Runtimes -> Memory] /\ \A d \in Runtimes \ {c} : mem'[d] = mem[d]
      /\ mem'[c].cont = mem[c].cont \ {s} /\ mem'[c].gone = mem[c].gone \cup {s} /\ mem'[c].cp = mem[c].cp
  <2> DEFINE cont == mem[c].cont \ {s}
             gone == mem[c].gone \cup {s}
             m == [mem[c] EXCEPT !.cont = cont, !.gone = gone]
  <2>1. cont \subseteq Subs /\ gone \subseteq Subs
    BY <1>3, RuntimeOK DEF Inv, Memory
  <2>2. mem' = [mem EXCEPT ![c] = m]
    BY <1>1
  <2> HIDE DEF cont, gone
  <2>3. m \in Memory /\ m.cont = cont /\ m.gone = gone /\ m.cp = mem[c].cp
    BY <2>1, RuntimeOK DEF Inv, Memory
  <2> HIDE DEF m
  <2>4. mem' \in [Runtimes -> Memory] /\ mem'[c] = m /\ \A d \in Runtimes \ {c} : mem'[d] = mem[d]
    BY <2>2, <2>3 DEF Inv, TypeOK
  <2> QED BY <2>3, <2>4 DEF cont, gone
<1>5. TypeOK'
  BY <1>2, <1>4 DEF Inv, TypeOK
<1>6. Mine(c)'
  <2>1. (Stamped(c)' => Stamped(c)) /\ (NoReview(c) => NoReview(c)')
    BY <1>2, <1>4 DEF Stamped, NoReview
  <2> QED BY <1>2, <1>4, <2>1 DEF Inv, Mine
<1> QED BY <1>2, <1>4, <1>5, <1>6, InvMoves

LEMMA InvCrash ==
  ASSUME Inv, NEW c \in Runtimes, Crash(c)
  PROVE  Inv'
<1>1. /\ at' \in [Runtimes -> Steps] /\ at'[c] \in {"idle", "down"} /\ \A d \in Runtimes \ {c} : at'[d] = at[d]
      /\ UNCHANGED <<rec, lease, submitter, queued, past, workspace, edits>> /\ faults' \in 0 .. MaxFaults
  BY FaultOK, GotoOK DEF Crash, Inv, leaseVars, envVars, Steps
<1>2. /\ run' \in [Runtimes -> Run] /\ run'[c].sub = 0 /\ \A d \in Runtimes \ {c} : run'[d] = run[d]
  BY RunOver DEF Crash, Inv
<1>3. /\ mem' \in [Runtimes -> Memory] /\ mem'[c].cont = {} /\ \A d \in Runtimes \ {c} : mem'[d] = mem[d]
  <2>1. Fresh \in Memory /\ Fresh.cont = {}
    BY NumbersOK DEF Fresh, Memory
  <2> QED BY <2>1 DEF Crash, Inv, TypeOK
<1>4. TypeOK'
  BY <1>1, <1>2, <1>3 DEF Inv, TypeOK
<1>5. Mine(c)'
  BY <1>1, <1>2, RuntimeOK, MineIdle DEF Inv, InRun, RunSteps
<1> QED BY <1>1, <1>2, <1>3, <1>4, <1>5, InvMoves

LEMMA InvEdit ==
  ASSUME Inv, Edit
  PROVE  Inv'
<1>1. UNCHANGED <<rec, lease, submitter, queued, mem, at, run, past, faults>>
  BY DEF Edit, leaseVars
<1>2. edits' \in 0 .. MaxEdits /\ workspace' \in Prints
  BY NumbersOK DEF Edit, Inv, TypeOK, Prints
<1>3. TypeOK'
  BY <1>1, <1>2 DEF Inv, TypeOK
<1>4. (rec.sub = 0 => rec.state = "none") /\ (rec.phase = "executing" => rec.failures <= 1)
  BY DEF Inv, History
<1>5. \A d \in Runtimes : Stamped(d)' => Stamped(d)
  BY <1>1 DEF Stamped
<1> QED BY <1>1, <1>3, <1>4, <1>5, InvWorld

\* The record of a workflow that is cancelled.
LEMMA CancelledOK ==
  ASSUME NEW r \in Record, NEW st \in States, NEW b \in BOOLEAN
  PROVE  [r EXCEPT !.phase = "cancelled", !.pending = b, !.state = st] \in Record
BY DEF Record

LEMMA InvCancel ==
  ASSUME Inv, NEW c \in Runtimes, Cancel(c)
  PROVE  Inv'
<1> DEFINE st == IF rec.state \in Active THEN "failed" ELSE rec.state
<1>1. UNCHANGED <<lease, submitter, queued, at, run, past, workspace, edits, faults>>
  BY DEF Cancel, leaseVars, envVars
<1>2. /\ rec' \in Record /\ rec'.phase = "cancelled" /\ rec'.state = st /\ rec'.sub = rec.sub
      /\ rec'.sent = rec.sent /\ rec'.origin = rec.origin
  <2>1. rec' = [rec EXCEPT !.phase = "cancelled", !.pending = FALSE, !.state = st]
    BY DEF Cancel
  <2>2. rec \in Record /\ st \in States /\ FALSE \in BOOLEAN
    BY DEF Inv, TypeOK, Record, States
  <2> HIDE DEF st
  <2>3. rec' \in Record
    BY <2>1, <2>2, CancelledOK
  <2> QED BY <2>1, <2>2, <2>3 DEF Record
<1>3. st \notin Active /\ st \notin Recoverable /\ st # "queued" /\ (rec.sub = 0 => st = "none")
  BY DEF Active, Recoverable, Inv, History
<1> HIDE DEF st
<1>4. mem' \in [Runtimes -> Memory] /\ mem'[c].cp = 0 /\ mem'[c].cont = mem[c].cont
      /\ \A d \in Runtimes \ {c} : mem'[d] = mem[d]
  BY NumbersOK DEF Cancel, Inv, TypeOK, Memory
<1>5. TypeOK'
  BY <1>1, <1>2, <1>3, <1>4 DEF Inv, TypeOK
<1>6. Mine(c)'
  <2>1. ~Stamped(c)' /\ NoReview(c)'
    BY <1>2 DEF Stamped, NoReview
  <2>2. at[c] = "call" => run[c].sub # 0
    BY DEF Inv, Mine, InRun, RunSteps
  <2> QED BY <1>1, <1>2, <1>4, <2>1, <2>2 DEF Inv, Mine
<1>7. \A d \in Runtimes : ~Stamped(d)'
  BY <1>2 DEF Stamped
<1> QED BY <1>1, <1>2, <1>3, <1>4, <1>5, <1>6, <1>7, InvWrites

LEMMA InvInit == Init => Inv
<1> SUFFICES ASSUME Init  PROVE Inv
  OBVIOUS
<1>1. /\ rec.sub = 0 /\ rec.state = "none" /\ rec.phase = "executing" /\ rec.failures = 0
      /\ rec \in Record
  BY NumbersOK DEF Init, Record, States, Reasons, Prints
<1>2. TypeOK
  <2>1. Unheld \in Lease /\ Fresh \in Memory /\ [created |-> FALSE, reviewed |-> 0, minted |-> 0] \in Past
    BY NumbersOK DEF Unheld, Lease, Fresh, Memory, Past
  <2> QED BY <1>1, <2>1, NumbersOK, NoRunOK DEF Init, TypeOK, Prints, Steps
<1>3. \A s \in Subs : ~past[s].created /\ past[s].reviewed = 0 /\ past[s].minted = 0
  BY DEF Init
<1>4. History
  BY <1>1, <1>3, NumbersOK DEF History
<1>5. Threads
  BY DEF Init, Threads, Thread, Fresh
<1>6. \A c \in Runtimes : Mine(c)
  BY <1>1, NoRunOK DEF Init, Mine, InRun, RunSteps, Before, During
<1> QED BY <1>2, <1>4, <1>5, <1>6 DEF Inv

\* Every step keeps the invariant.
LEMMA InvStep == Inv /\ [Next]_vars => Inv'
<1> SUFFICES ASSUME Inv, [Next]_vars  PROVE Inv'
  OBVIOUS
<1>1. ASSUME NEW c \in Runtimes, RunStep(c)  PROVE Inv'
  <2>1. CASE \/ Startup(c) \/ StartupFails(c) \/ Begin(c) \/ Verify(c) \/ Send(c) \/ Reuse(c)
             \/ CallRefused(c) \/ Call(c) \/ CreateBusy(c) \/ CreateFails(c)
    BY <2>1, InvStartup, InvStartupFails, InvBegin, InvVerify, InvSend, InvReuse, InvCallRefused, InvCall,
       InvCreateBusy, InvCreateFails
  <2>2. CASE \/ Answer(c) \/ WaitCancelled(c) \/ ThreadBusy(c) \/ ThreadFails(c) \/ Retain(c)
             \/ Align(c) \/ AlignFails(c) \/ ContractFailed(c)
    BY <2>2, InvAnswer, InvWaitCancelled, InvThreadBusy, InvThreadFails, InvRetain, InvAlign, InvContractFailed
  <2>3. CASE \/ Stage(c) \/ Enqueue(c) \/ EnqueueExhausted(c) \/ NoteFails(c)
             \/ Receive(c) \/ ReceiveFails(c) \/ Busy(c) \/ Fail(c) \/ Notify(c)
             \/ End(c) \/ Release(c) \/ Unfence(c) \/ Claim(c) \/ ClaimFails(c)
    BY <2>3, InvStage, InvEnqueue, InvEnqueueExhausted, InvWriteFails, InvReceive, InvBusy, InvFail, InvNotify,
       InvEnd, InvRelease, InvUnfence, InvClaim, InvClaimFails
  <2> QED BY <1>1, <2>1, <2>2, <2>3 DEF RunStep
<1>2. ASSUME NEW c \in Runtimes, Step(c)  PROVE Inv'
  BY <1>1, <1>2, InvAdmit, InvFence, InvPrepare, InvSweep, InvCancel, InvBeat, InvStall, InvLoseThread, InvCrash
     DEF Step
<1>3. CASE UNCHANGED vars
  <2>1. UNCHANGED <<rec, lease, submitter, queued, mem, at, run, past, workspace, edits, faults>>
    BY <1>3 DEF vars, leaseVars, envVars
  <2> QED BY <2>1, InvRows DEF Inv, TypeOK
<1> QED BY <1>2, <1>3, InvRecovery, InvExpire, InvEdit DEF Next

----------------------------------------------------------------------------
(* The record goes forward.                                                 *)

\* The order of the states of a submission.
LEMMA OrderOK ==
  /\ \A st \in Recoverable : Order(st) = 0
  /\ Order("verdict_ready") = 1 /\ Order("received") = 2
  /\ Order("none") = 3 /\ Order("delivered") = 3 /\ Order("failed") = 3
  /\ \A st \in States : Order(st) \in 0 .. 3
BY DEF Order, Recoverable, States, Active

\* What a step may do to the record of a submission: its state goes forward, and
\* its fence is cleared only when nobody holds its lease.
Forward ==
  rec'.sub = rec.sub =>
    /\ Order(rec'.state) >= Order(rec.state) \/ rec.sub = 0
    /\ rec'.tok \in Runtimes \cup {rec.tok} \/ lease[rec.sub].owner = NoOne

\* A step that leaves the state and the fence of the record alone.
LEMMA ForwardKeeps ==
  ASSUME Inv, rec'.state = rec.state, rec'.tok = rec.tok
  PROVE  Forward
<1>1. Order(rec.state) \in 0 .. 3
  BY OrderOK DEF Inv, TypeOK, Record
<1> QED BY <1>1 DEF Forward

\* A write of a run that owns the submission.
LEMMA ForwardWrites ==
  ASSUME Inv, NEW c \in Runtimes, NEW new, NEW s, Update(c, new, s),
         Owns(c) => new.tok = rec.tok /\ Order(new.state) >= Order(rec.state)
  PROVE  Forward
<1>1. CASE rec' = rec
  BY <1>1, ForwardKeeps
<1>2. CASE Owns(c) /\ rec' = new
  BY <1>2 DEF Forward
<1> QED BY <1>1, <1>2 DEF Update

LEMMA ForwardRun ==
  ASSUME Inv, NEW c \in Runtimes, RunStep(c)
  PROVE  Forward
<1>1. rec \in Record /\ Order(rec.state) \in 0 .. 3
  BY OrderOK DEF Inv, TypeOK, Record
<1>2. at[c] \in During /\ Owns(c) => Order(rec.state) = 0
  <2>1. at[c] \in During => at[c] \in InRun
    BY DEF During, InRun, RunSteps
  <2> QED BY <2>1, OwnsOK, OrderOK DEF Recoverable
<1>3. at[c] = "send" /\ Owns(c) => Order(rec.state) = 0
  BY OrderOK DEF Inv, Mine, Owns, Before
<1>4. CASE rec' = rec
  BY <1>4, ForwardKeeps
<1>5. CASE Send(c)
  <2> DEFINE new == [rec EXCEPT !.state = "sending", !.sent = TRUE]
             place == IF Checkpoint(c) THEN "reuse" ELSE "call"
  <2>1. at[c] = "send" /\ Update(c, new, place)
    BY <1>5 DEF Send
  <2>2. new.tok = rec.tok /\ new.state = "sending"
    BY <1>1 DEF Record
  <2> HIDE DEF new, place
  <2> QED BY <1>3, <2>1, <2>2, ForwardWrites, OrderOK DEF Recoverable
<1>6. CASE Call(c)
  <2>1. rec'.state = rec.state /\ rec'.tok = rec.tok
    BY <1>1, <1>6 DEF Call, Move, FailWith, Record
  <2> QED BY <2>1, ForwardKeeps
<1>7. CASE Retain(c)
  <2>1. rec'.state = rec.state /\ rec'.tok = rec.tok
    BY <1>1, <1>7 DEF Retain, Record
  <2> QED BY <2>1, ForwardKeeps
<1>8. CASE ContractFailed(c)
  <2> DEFINE f == rec.failures + 1
             p == IF f >= 2 THEN "blocked" ELSE rec.phase
             new == [rec EXCEPT !.failures = f, !.state = "failed", !.notice = "prepared", !.phase = p]
  <2>1. Update(c, new, "notify")
    BY <1>8 DEF ContractFailed
  <2> HIDE DEF f, p
  <2>2. new.tok = rec.tok /\ new.state = "failed"
    BY <1>1 DEF Record
  <2> HIDE DEF new
  <2> QED BY <1>1, <2>1, <2>2, ForwardWrites, OrderOK
<1>9. CASE Stage(c)
  <2>1. CASE FailWith(c, "error")
    BY <2>1, ForwardKeeps DEF FailWith
  <2>2. CASE Update(c, [rec EXCEPT !.state = "verdict_ready", !.pending = FALSE, !.failures = 0], "enqueue")
    <3> DEFINE b == FALSE
               new == [rec EXCEPT !.state = "verdict_ready", !.pending = b, !.failures = 0]
    <3>1. Update(c, new, "enqueue")
      BY <2>2
    <3> HIDE DEF b
    <3>2. new.tok = rec.tok /\ new.state = "verdict_ready"
      BY <1>1 DEF Record
    <3>3. at[c] \in During
      BY <1>9 DEF Stage, During
    <3> HIDE DEF new
    <3> QED BY <1>1, <1>2, <3>1, <3>2, <3>3, ForwardWrites, OrderOK
  <2> QED BY <1>9, <2>1, <2>2 DEF Stage
<1>10. CASE Receive(c)
  <2>1. Owns(c) => Order(rec.state) <= 2
    BY <1>1, OrderOK DEF Owns, Stamped, Active, Recoverable
  <2> QED BY <1>1, <1>10, <2>1, ForwardWrites, OrderOK DEF Receive, Record
<1>11. CASE Busy(c)
  <2> DEFINE pend == Checkpoint(c)
             new == [rec EXCEPT !.state = "retrying", !.pending = pend]
             place == IF run[c].tries >= MaxTries THEN "end" ELSE "verify"
  <2>1. at[c] \in During /\ Update(c, new, place)
    BY <1>11 DEF Busy, During
  <2> HIDE DEF pend, place
  <2>2. new.tok = rec.tok /\ new.state = "retrying"
    BY <1>1 DEF Record
  <2> HIDE DEF new
  <2> QED BY <1>2, <2>1, <2>2, ForwardWrites, OrderOK DEF Recoverable
<1>12. CASE Fail(c)
  <2> DEFINE b == FALSE
             n == IF rec.notice = "none" THEN "prepared" ELSE rec.notice
             new == [rec EXCEPT !.state = "failed", !.pending = b, !.reason = run[c].why, !.notice = n]
  <2>1. Update(c, new, "notify")
    BY <1>12 DEF Fail, FailedRecord
  <2> HIDE DEF b, n
  <2>2. new.tok = rec.tok /\ new.state = "failed"
    BY <1>1 DEF Record
  <2> HIDE DEF new
  <2> QED BY <1>1, <2>1, <2>2, ForwardWrites, OrderOK
<1>13. CASE Notify(c)
  <2>1. rec'.state = rec.state /\ rec'.tok = rec.tok
    BY <1>1, <1>13 DEF Notify, Record
  <2> QED BY <2>1, ForwardKeeps
<1>14. CASE Unfence(c)
  <2>1. CASE StillReleased(c) /\ rec' = [rec EXCEPT !.tok = NoOne, !.ep = 0]
    BY <1>1, <2>1 DEF StillReleased, Forward, Record
  <2> QED BY <1>4, <1>14, <2>1 DEF Unfence
<1>15. CASE Claim(c)
  <2>1. CASE Claimable(c) /\ rec' = [rec EXCEPT !.state = "sending", !.tok = c, !.ep = run[c].ep]
    <3>1. rec'.state = "sending" /\ rec'.tok = c /\ rec.state \in Recoverable
      BY <1>1, <2>1 DEF Claimable, Record
    <3> QED BY <3>1, OrderOK DEF Forward, Recoverable
  <2> QED BY <1>4, <1>15, <2>1 DEF Claim
<1>16. \/ rec' = rec \/ Send(c) \/ Call(c) \/ Retain(c) \/ ContractFailed(c) \/ Stage(c) \/ Receive(c)
       \/ Busy(c) \/ Fail(c) \/ Notify(c) \/ Unfence(c) \/ Claim(c)
  BY DEF RunStep, Startup, StartupFails, Begin, Verify, Reuse, CallRefused, CreateBusy, CreateFails, Answer,
         WaitCancelled, ThreadBusy, ThreadFails, Align, AlignFails, Enqueue, EnqueueExhausted, NoteFails,
         ReceiveFails, End, Release, ClaimFails, Move, FailWith
<1> QED BY <1>4, <1>5, <1>6, <1>7, <1>8, <1>9, <1>10, <1>11, <1>12, <1>13, <1>14, <1>15, <1>16

LEMMA ForwardStep ==
  ASSUME Inv, [Next]_vars
  PROVE  Forward
<1>1. rec \in Record /\ Order(rec.state) \in 0 .. 3
  BY OrderOK DEF Inv, TypeOK, Record
<1>2. CASE rec' = rec
  BY <1>2, ForwardKeeps
<1>3. ASSUME NEW c \in Runtimes, Prepare(c)  PROVE Forward
  <2>1. CASE rec' = PreparedRecord(c, rec.sub + 1) /\ Submittable
    <3>1. rec.sub + 1 \in Subs /\ rec.sub + 1 # rec.sub
      BY <2>1, NumbersOK, RuntimeOK DEF Submittable, Subs, Inv
    <3>2. rec'.sub = rec.sub + 1
      BY <2>1, <3>1, PreparedOK DEF Inv
    <3> QED BY <3>1, <3>2 DEF Forward
  <2> QED BY <1>2, <1>3, <2>1 DEF Prepare
<1>4. ASSUME NEW c \in Runtimes, Cancel(c)  PROVE Forward
  <2> DEFINE b == FALSE
             st == IF rec.state \in Active THEN "failed" ELSE rec.state
  <2>1. rec' = [rec EXCEPT !.phase = "cancelled", !.pending = b, !.state = st]
    BY <1>4 DEF Cancel
  <2>2. Order(st) >= Order(rec.state)
    BY <1>1, OrderOK
  <2> HIDE DEF b, st
  <2>3. rec'.state = st /\ rec'.tok = rec.tok
    BY <1>1, <2>1 DEF Record
  <2> QED BY <2>2, <2>3 DEF Forward
<1>5. ASSUME NEW c \in Runtimes, Step(c)  PROVE Forward
  <2>1. CASE RunStep(c)
    BY <2>1, ForwardRun
  <2>2. CASE Admit(c) \/ Fence(c) \/ Sweep(c) \/ Beat(c) \/ Stall(c) \/ LoseThread(c) \/ Crash(c)
    BY <1>2, <2>2 DEF Admit, Fence, Sweep, Beat, Stall, LoseThread, Crash
  <2> QED BY <1>3, <1>4, <1>5, <2>1, <2>2 DEF Step
<1>6. CASE RecoverEnqueue \/ Expire \/ Edit \/ UNCHANGED vars
  BY <1>2, <1>6 DEF RecoverEnqueue, Expire, Edit, vars
<1>7. CASE RecoverReceive
  <2>1. rec.state = "verdict_ready" /\ rec'.state = "received" /\ rec'.tok = rec.tok
    BY <1>1, <1>7 DEF RecoverReceive, Record
  <2> QED BY <2>1, OrderOK DEF Forward
<1>8. CASE RecoverNotice \/ DeliverNotice
  <2>1. rec'.state = rec.state /\ rec'.tok = rec.tok
    BY <1>1, <1>8 DEF RecoverNotice, DeliverNotice, Record
  <2> QED BY <2>1, ForwardKeeps
<1>9. CASE Applied
  <2>1. rec.state = "received" /\ rec'.state = "delivered" /\ rec'.tok = rec.tok
    BY <1>1, <1>9 DEF Applied, Record
  <2> QED BY <2>1, OrderOK DEF Forward
<1> QED BY <1>5, <1>6, <1>7, <1>8, <1>9 DEF Next

----------------------------------------------------------------------------
(* The theorems.                                                            *)

\* The inductive invariant holds of every behaviour: the fence of the record,
\* the lease rows, the Reviewers in memory and what was done for a submission
\* agree, at every place of every run (submission-execution.ts).
THEOREM InvInvariant == Spec => []Inv
BY InvInit, InvStep, PTL DEF Spec

\* Whatever runtimes, sweeps, stalls, crashes and retries continue a
\* submission, at most one review of it completes and one verdict is minted.
THEOREM OneVerdictInvariant == Spec => []OneVerdict
<1>1. Inv => OneVerdict
  BY DEF Inv, History, OneVerdict, ReviewedOnce, MintedOnce
<1> QED BY <1>1, InvInvariant, PTL

\* When no write is lost between the verdict that was minted and its reception,
\* nothing short of a cancel fails a submission whose verdict was staged.
THEOREM VerdictSurvivesInvariant == Lossless => (Spec => []VerdictSurvives)
<1>1. Lossless /\ Inv => VerdictSurvives
  BY DEF Inv, History, VerdictSurvives
<1>2. ASSUME Lossless  PROVE Inv => VerdictSurvives
  BY <1>1, <1>2
<1>3. ASSUME Lossless  PROVE Spec => []VerdictSurvives
  BY <1>2, <1>3, InvInvariant, PTL
<1> QED BY <1>3

\* No late run and no sweep takes a submission backwards, and the cleanup of a
\* run never clears the fence of another that is in progress and owns the
\* submission (updateCurrent, releaseSubmissionFence).
THEOREM MovesForwardHolds == Spec => MovesForward
<1>1. Inv /\ [Next]_vars => [rec'.sub = rec.sub => Order(rec'.state) >= Order(rec.state) \/ rec.sub = 0]_vars
  BY ForwardStep DEF Forward
<1>2. Inv /\ [Next]_vars =>
        [\A c \in Runtimes : Progressing(c) /\ rec'.sub = rec.sub => rec'.tok # NoOne]_vars
  BY ForwardStep, RuntimesAssumption DEF Forward, Progressing, Owns, Stamped, Held
<1>3. Spec => NeverBackwards
  BY <1>1, InvInvariant, PTL DEF Spec, NeverBackwards
<1>4. Spec => FenceIsNotCleared
  BY <1>2, InvInvariant, PTL DEF Spec, FenceIsNotCleared
<1> QED BY <1>3, <1>4 DEF MovesForward

=============================================================================
