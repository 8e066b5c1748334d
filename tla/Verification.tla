---------------------------- MODULE Verification ----------------------------
(***************************************************************************)
(* The verification gate of one worktree daemon, and the verifier behind   *)
(* it (crates/walaru-daemon/src/server.rs, verifier.rs, and the run rows   *)
(* and result cache of crates/walaru-core/src/store.rs).                   *)
(*                                                                         *)
(* Every connection is served by its own thread.  A `verify` thread reads  *)
(* or bumps the shared generation, may cancel the token in the active      *)
(* slot, takes the gate, checks its generation, installs its own token,    *)
(* checks again, runs the verifier (a second time when the first attempt   *)
(* went stale), and decides whether the outcome may be published.  A       *)
(* `cancel` or `stop` thread bumps the generation and cancels the active   *)
(* token.  Meanwhile the developer edits the worktree, and the daemon may  *)
(* be stopped, crash and be started again.                                 *)
(*                                                                         *)
(* Each step below is one atomic operation of the code on shared state:    *)
(* a load or fetch_add of the generation, a critical section of the        *)
(* active slot, a capture of the worktree's revision, a store statement.   *)
(* Ids from next_verification_id are unique, so a request stands for its   *)
(* id; a revision is a number, and a capture of it is atomic.              *)
(***************************************************************************)
EXTENDS Naturals

CONSTANTS
    Verifies,     \* the `verify` requests clients send
    Full,         \* those with `full`: they neither read nor fill the cache
    Cancels,      \* the `cancel` and `stop` requests clients send
    NoRequest,    \* stands for an empty gate and for an empty slot (None)
    MaxRevision,  \* bound: the worktree moves through revisions 0..MaxRevision
    Good,         \* the revisions whose tests all pass
    MaxRestarts   \* bound: how often the daemon is started again

ASSUME ConstantsAssumption ==
    /\ NoRequest \notin Verifies
    /\ Full \subseteq Verifies
    /\ Verifies \cap Cancels = {}
    /\ MaxRevision \in Nat
    /\ MaxRestarts \in Nat
    /\ Good \subseteq 0..MaxRevision

VARIABLES
    tree,                     \* the revision the worktree is at
    verification_generation,  \* Daemon.verification_generation
    verification_gate,        \* who holds Daemon.verification_gate
    active_verification,      \* whose token is in Daemon.active_verification
    should_stop,              \* Daemon.should_stop
    server,                   \* where DaemonServer::serve is
    restarts,                 \* number of daemon starts after the first
    pc,                       \* where the thread of each request is
    generation,               \* `generation` of each verify
    cancelled,                \* the CancellationToken of each verify
    attempt,                  \* 1, or 2 once it was requeued
    before,                   \* `before.revision` of the current attempt
    executed,                 \* the revision the worker really compiled and ran
    process,                  \* what the worker process left behind
    outcome,                  \* `outcome.status` of the current attempt
    answer,                   \* the answer to each request
    runs,                     \* table `runs`: the row of each request's latest attempt
    cache                     \* table `verification_cache`: revisions with a cached success

daemonVars == <<verification_generation, verification_gate, active_verification,
                should_stop, server, restarts>>
attemptVars == <<attempt, before, executed, process, outcome>>
storeVars == <<runs, cache>>
vars == <<tree, daemonVars, pc, generation, cancelled, attemptVars, answer, storeVars>>

-----------------------------------------------------------------------------
Revisions == 0..MaxRevision

\* walaru_core::store::RunStatus, and a row that was never inserted.
RunStatus == {"running", "passed", "failed", "stale", "error"}
Rows == RunStatus \cup {"absent"}

\* Answers that carry the outcome of a run, in the words of RunStatus.
Verdicts == {"passed", "failed", "stale", "error"}

\* "superseded" is superseded_verification(); "internal" is an Err turned into
\* exit 3 by handle(); "ack" acknowledges a cancel or a stop.
Answers == Verdicts \cup {"none", "superseded", "internal", "ack"}

\* Where a verify thread is while the verifier works on an attempt of it.
Verifying == {"verify", "lookup", "worker", "tests", "ingest", "finish", "save", "decide"}

\* Where it holds the gate and its token is in the active slot.
Installed == {"recheck", "clear"} \cup Verifying

\* Where it holds the gate.
InGate == {"admit", "install"} \cup Installed

\* Where it has a run row that is not finished.
RowOpen == {"worker", "tests", "ingest", "finish"}

VerifyPC == {"idle", "supersede", "gate", "done", "dropped"} \cup InGate
CancelPC == {"idle", "bumped", "stop", "done", "dropped"}

Requests == Verifies \cup Cancels

TypeOK ==
    /\ tree \in Revisions
    /\ verification_generation \in Nat
    /\ verification_gate \in Verifies \cup {NoRequest}
    /\ active_verification \in Verifies \cup {NoRequest}
    /\ should_stop \in BOOLEAN
    /\ server \in {"serving", "stopping", "draining", "down"}
    /\ restarts \in 0..MaxRestarts
    /\ pc \in [Requests -> VerifyPC \cup CancelPC]
    /\ generation \in [Verifies -> Nat]
    /\ cancelled \in [Verifies -> BOOLEAN]
    /\ attempt \in [Verifies -> {1, 2}]
    /\ before \in [Verifies -> Revisions]
    /\ executed \in [Verifies -> Revisions]
    /\ process \in [Verifies -> {"none", "success", "failure", "noEvidence"}]
    /\ outcome \in [Verifies -> Verdicts \cup {"none"}]
    /\ answer \in [Requests -> Answers]
    /\ runs \in [Verifies -> Rows]
    /\ cache \in SUBSET Revisions

Init ==
    /\ tree = 0
    /\ verification_generation = 0
    /\ verification_gate = NoRequest
    /\ active_verification = NoRequest
    /\ should_stop = FALSE
    /\ server = "serving"
    /\ restarts = 0
    /\ pc = [r \in Requests |-> "idle"]
    /\ generation = [r \in Verifies |-> 0]
    /\ cancelled = [r \in Verifies |-> FALSE]
    /\ attempt = [r \in Verifies |-> 1]
    /\ before = [r \in Verifies |-> 0]
    /\ executed = [r \in Verifies |-> 0]
    /\ process = [r \in Verifies |-> "none"]
    /\ outcome = [r \in Verifies |-> "none"]
    /\ answer = [r \in Requests |-> "none"]
    /\ runs = [r \in Verifies |-> "absent"]
    /\ cache = {}

-----------------------------------------------------------------------------
(* Steps shared by several operations.                                     *)

Goto(r, to) == pc' = [pc EXCEPT ![r] = to]

At(r, from) ==
    /\ server # "down"
    /\ pc[r] = from

\* generation != self.verification_generation.load()
Obsolete(r) == generation[r] # verification_generation

\* cancel_active_verification: cancels whatever token is in the slot.
CancelActive ==
    cancelled' = [r \in Verifies |-> cancelled[r] \/ r = active_verification]

\* store.begin_run and store.finish_run for the row of r's current attempt.
SetRow(r, status) == runs' = [runs EXCEPT ![r] = status]

\* The locals of requests R go out of scope when their handlers return.
Forget(R) ==
    /\ generation' = [r \in Verifies |-> IF r \in R THEN 0 ELSE generation[r]]
    /\ cancelled' = [r \in Verifies |-> IF r \in R THEN FALSE ELSE cancelled[r]]
    /\ attempt' = [r \in Verifies |-> IF r \in R THEN 1 ELSE attempt[r]]
    /\ before' = [r \in Verifies |-> IF r \in R THEN 0 ELSE before[r]]
    /\ executed' = [r \in Verifies |-> IF r \in R THEN 0 ELSE executed[r]]
    /\ process' = [r \in Verifies |-> IF r \in R THEN "none" ELSE process[r]]
    /\ outcome' = [r \in Verifies |-> IF r \in R THEN "none" ELSE outcome[r]]

\* The verifier leaves with an error before it has a run row.
LeaveWithoutRow(r, a) ==
    /\ answer' = [answer EXCEPT ![r] = a]
    /\ Goto(r, "clear")
    /\ UNCHANGED <<tree, daemonVars, generation, cancelled, attemptVars, storeVars>>

\* Mutant of LeaveWithErrorRow: an early return that forgets the row.
LeaveForgettingRow(r, a) == LeaveWithoutRow(r, a)

\* The verifier finishes its row as an error and leaves.
LeaveWithErrorRow(r, a) ==
    /\ SetRow(r, "error")
    /\ answer' = [answer EXCEPT ![r] = a]
    /\ Goto(r, "clear")
    /\ UNCHANGED <<tree, daemonVars, generation, cancelled, attemptVars, cache>>

-----------------------------------------------------------------------------
(* verify: up to the gate.                                                 *)

\* A validated request reads the generation, or bumps it with `supersede`.
Arrive(r, supersede) ==
    /\ At(r, "idle")
    /\ generation' = [generation EXCEPT ![r] =
            IF supersede THEN verification_generation + 1 ELSE verification_generation]
    /\ verification_generation' =
            IF supersede THEN verification_generation + 1 ELSE verification_generation
    /\ Goto(r, IF supersede THEN "supersede" ELSE "gate")
    /\ UNCHANGED <<tree, verification_gate, active_verification, should_stop, server, restarts,
                   cancelled, attempt, before, executed, process, outcome, answer, storeVars>>

\* if supersede { self.cancel_active_verification(); }
CancelOlder(r) ==
    /\ At(r, "supersede")
    /\ CancelActive
    /\ Goto(r, "gate")
    /\ UNCHANGED <<tree, daemonVars, generation, attemptVars, answer, storeVars>>

\* Mutant of LockGate: verifications are not serialised.
LockGateHeld(r) ==
    /\ At(r, "gate")
    /\ verification_gate' = r
    /\ Goto(r, "admit")
    /\ UNCHANGED <<tree, verification_generation, active_verification, should_stop, server,
                   restarts, generation, cancelled, attemptVars, answer, storeVars>>

\* self.verification_gate.lock()
LockGate(r) ==
    /\ At(r, "gate")
    /\ verification_gate = NoRequest
    /\ verification_gate' = r
    /\ Goto(r, "admit")
    /\ UNCHANGED <<tree, verification_generation, active_verification, should_stop, server,
                   restarts, generation, cancelled, attemptVars, answer, storeVars>>

\* The first check under the gate: an obsolete request leaves without a run.
Admit(r) ==
    /\ At(r, "admit")
    /\ \/ /\ Obsolete(r)
          /\ answer' = [answer EXCEPT ![r] = "superseded"]
          /\ verification_gate' = NoRequest
          /\ Forget({r})
          /\ Goto(r, "done")
       \/ /\ ~Obsolete(r)
          /\ Goto(r, "install")
          /\ UNCHANGED <<answer, verification_gate, generation, cancelled, attemptVars>>
    /\ UNCHANGED <<tree, verification_generation, active_verification, should_stop, server,
                   restarts, storeVars>>

\* *active = Some((verification_id, cancellation.clone()))
InstallToken(r) ==
    /\ At(r, "install")
    /\ active_verification' = r
    /\ Goto(r, "recheck")
    /\ UNCHANGED <<tree, verification_generation, verification_gate, should_stop, server,
                   restarts, generation, cancelled, attemptVars, answer, storeVars>>

\* Mutant of Recheck: the generation is not looked at again.
RecheckSkipped(r) ==
    /\ At(r, "recheck")
    /\ Goto(r, "verify")
    /\ UNCHANGED <<tree, daemonVars, generation, cancelled, attemptVars, answer, storeVars>>

\* The second check: a bump that came before the slot was filled found the
\* slot empty, so the request cancels itself.
Recheck(r) ==
    /\ At(r, "recheck")
    /\ cancelled' = [cancelled EXCEPT ![r] = @ \/ Obsolete(r)]
    /\ Goto(r, "verify")
    /\ UNCHANGED <<tree, daemonVars, generation, attemptVars, answer, storeVars>>

-----------------------------------------------------------------------------
(* Verifier::verify_internal, once per attempt.                            *)

\* Artifacts are missing, the worktree cannot be read, or the run's files
\* cannot be created.
StartFails(r) ==
    /\ \/ At(r, "verify")
       \/ At(r, "lookup")
    /\ LeaveWithoutRow(r, "internal")

\* The requeue's own `RuntimeArtifacts::discover()?` fails: this return does
\* not go through clear_active_verification.
RequeueDiscoverFails(r) ==
    /\ At(r, "verify")
    /\ attempt[r] = 2
    /\ answer' = [answer EXCEPT ![r] = "internal"]
    /\ verification_gate' = NoRequest
    /\ Forget({r})
    /\ Goto(r, "done")
    /\ UNCHANGED <<tree, verification_generation, active_verification, should_stop, server,
                   restarts, storeVars>>

\* check_cancellation before the first row exists.
CancelledEarly(r) ==
    /\ \/ At(r, "verify")
       \/ At(r, "lookup")
    /\ cancelled[r]
    /\ LeaveWithoutRow(r, "superseded")

\* let before = RevisionSnapshot::capture(execution_root)
CaptureBefore(r) ==
    /\ At(r, "verify")
    /\ ~cancelled[r]
    /\ before' = [before EXCEPT ![r] = tree]
    /\ Goto(r, "lookup")
    /\ UNCHANGED <<tree, daemonVars, generation, cancelled, attempt, executed, process,
                   outcome, answer, storeVars>>

\* A cached success is used only if the worktree is still at its revision.
CacheUsable(r) ==
    /\ r \notin Full
    /\ before[r] \in cache
    /\ tree = before[r]

CacheHit(r) ==
    /\ At(r, "lookup")
    /\ ~cancelled[r]
    /\ CacheUsable(r)
    /\ outcome' = [outcome EXCEPT ![r] = "passed"]
    /\ Goto(r, "decide")
    /\ UNCHANGED <<tree, daemonVars, generation, cancelled, attempt, before, executed,
                   process, answer, storeVars>>

\* store.begin_run, and the worker is spawned.
BeginRun(r) ==
    /\ At(r, "lookup")
    /\ ~cancelled[r]
    /\ ~CacheUsable(r)
    /\ SetRow(r, "running")
    /\ Goto(r, "worker")
    /\ UNCHANGED <<tree, daemonVars, generation, cancelled, attemptVars, answer, cache>>

\* The build reads the sources some time after it was spawned.
WorkerReads(r) ==
    /\ At(r, "worker")
    /\ executed' = [executed EXCEPT ![r] = tree]
    /\ Goto(r, "tests")
    /\ UNCHANGED <<tree, daemonVars, generation, cancelled, attempt, before, process,
                   outcome, answer, storeVars>>

\* try_wait returns a status: tests only all pass on a good revision, and a
\* build can fail, or succeed without fresh evidence, on any.
WorkerExits(r, left) ==
    /\ At(r, "tests")
    /\ left = "success" => executed[r] \in Good
    /\ process' = [process EXCEPT ![r] = left]
    /\ Goto(r, "ingest")
    /\ UNCHANGED <<tree, daemonVars, generation, cancelled, attempt, before, executed,
                   outcome, answer, storeVars>>

\* supervise, or the check after it, or ingest_events, sees the token.
CancelledWithRow(r) ==
    /\ \/ At(r, "worker")
       \/ At(r, "tests")
       \/ At(r, "ingest")
    /\ cancelled[r]
    /\ LeaveWithErrorRow(r, "superseded")

\* Spawn error, time limit, unreadable evidence, failed capture.
RunFails(r) ==
    /\ \/ At(r, "worker")
       \/ At(r, "tests")
       \/ At(r, "ingest")
       \/ At(r, "finish")
    /\ LeaveWithErrorRow(r, "internal")

\* ingest_events stored every line; the last look at the token was before.
Ingest(r) ==
    /\ At(r, "ingest")
    /\ ~cancelled[r]
    /\ Goto(r, "finish")
    /\ UNCHANGED <<tree, daemonVars, generation, cancelled, attemptVars, answer, storeVars>>

\* Mutant of Desired: the worker's result is stored as it is.
DesiredRaw(r) == process[r]

\* Passed, Failed, or Error when fresh evidence is missing.
Desired(r) ==
    IF process[r] = "success" THEN "passed"
    ELSE IF process[r] = "failure" THEN "failed" ELSE "error"

\* Mutant of FinishedStatus: the second capture is ignored.
FinishedUnchecked(r) == Desired(r)

\* store.finish_run overrides the desired status when revisions differ.
FinishedStatus(r) == IF tree = before[r] THEN Desired(r) ELSE "stale"

FinishRun(r) ==
    /\ At(r, "finish")
    /\ SetRow(r, FinishedStatus(r))
    /\ outcome' = [outcome EXCEPT ![r] = FinishedStatus(r)]
    /\ Goto(r, "save")
    /\ UNCHANGED <<tree, daemonVars, generation, cancelled, attempt, before, executed,
                   process, answer, cache>>

\* A cacheable success is stored with its manifest.
Cached(r) == IF outcome[r] = "passed" /\ r \notin Full THEN cache \cup {before[r]} ELSE cache

SaveCache(r) ==
    /\ At(r, "save")
    /\ cache' = Cached(r)
    /\ Goto(r, "decide")
    /\ UNCHANGED <<tree, daemonVars, generation, cancelled, attemptVars, answer, runs>>

\* Saving, or the prune after it, fails: the finished run is not reported.
SaveFails(r) ==
    /\ At(r, "save")
    /\ cache' \in {cache, Cached(r)}
    /\ answer' = [answer EXCEPT ![r] = "internal"]
    /\ Goto(r, "clear")
    /\ UNCHANGED <<tree, daemonVars, generation, cancelled, attemptVars, runs>>

-----------------------------------------------------------------------------
(* verify: after the verifier.                                             *)

\* A stale first attempt is run again, once.
Requeue(r) ==
    /\ At(r, "decide")
    /\ outcome[r] = "stale"
    /\ attempt[r] = 1
    /\ attempt' = [attempt EXCEPT ![r] = 2]
    /\ process' = [process EXCEPT ![r] = "none"]
    /\ outcome' = [outcome EXCEPT ![r] = "none"]
    /\ Goto(r, "verify")
    /\ UNCHANGED <<tree, daemonVars, generation, cancelled, before, executed, answer,
                   storeVars>>

\* Mutant of MayNotPublish: only the token is looked at.
TokenOnly(r) == cancelled[r]

\* cancellation.is_cancelled() || generation != ...load()
MayNotPublish(r) == cancelled[r] \/ Obsolete(r)

\* The last check: only a current request publishes its outcome.
Decide(r) ==
    /\ At(r, "decide")
    /\ outcome[r] = "stale" => attempt[r] = 2
    /\ answer' = [answer EXCEPT ![r] = IF MayNotPublish(r) THEN "superseded" ELSE outcome[r]]
    /\ Goto(r, "clear")
    /\ UNCHANGED <<tree, daemonVars, generation, cancelled, attemptVars, storeVars>>

\* Mutant of Clear: a path on which the gate's guard is kept.
ClearKeepsGate(r) ==
    /\ At(r, "clear")
    /\ active_verification' = NoRequest
    /\ Forget({r})
    /\ Goto(r, "done")
    /\ UNCHANGED <<tree, verification_generation, verification_gate, should_stop, server,
                   restarts, answer, storeVars>>

\* clear_active_verification, then the gate's guard is dropped.
Clear(r) ==
    /\ At(r, "clear")
    /\ active_verification' =
            IF active_verification = r THEN NoRequest ELSE active_verification
    /\ verification_gate' = NoRequest
    /\ Forget({r})
    /\ Goto(r, "done")
    /\ UNCHANGED <<tree, verification_generation, should_stop, server, restarts, answer,
                   storeVars>>

-----------------------------------------------------------------------------
(* cancel and stop.                                                        *)

\* cancel_verification: the generation first ...
CancelBump(c) ==
    /\ At(c, "idle")
    /\ verification_generation' = verification_generation + 1
    /\ Goto(c, "bumped")
    /\ UNCHANGED <<tree, verification_gate, active_verification, should_stop, server, restarts,
                   generation, cancelled, attemptVars, answer, storeVars>>

\* ... then the active token.  `stop` goes on to set should_stop.
CancelToken(c, isStop) ==
    /\ At(c, "bumped")
    /\ CancelActive
    /\ IF isStop
       THEN Goto(c, "stop") /\ UNCHANGED answer
       ELSE Goto(c, "done") /\ answer' = [answer EXCEPT ![c] = "ack"]
    /\ UNCHANGED <<tree, daemonVars, generation, attemptVars, storeVars>>

\* Mutant of StopFlag: the stop is acknowledged and nothing else.
StopIgnored(c) ==
    /\ At(c, "stop")
    /\ answer' = [answer EXCEPT ![c] = "ack"]
    /\ Goto(c, "done")
    /\ UNCHANGED <<tree, daemonVars, generation, cancelled, attemptVars, storeVars>>

\* self.should_stop.store(true)
StopFlag(c) ==
    /\ At(c, "stop")
    /\ should_stop' = TRUE
    /\ answer' = [answer EXCEPT ![c] = "ack"]
    /\ Goto(c, "done")
    /\ UNCHANGED <<tree, verification_generation, verification_gate, active_verification, server,
                   restarts, generation, cancelled, attemptVars, storeVars>>

-----------------------------------------------------------------------------
(* The server's life, and the developer.                                   *)

\* The accept loop ends and serve calls cancel_verification itself.
ServeBump ==
    /\ server = "serving"
    /\ should_stop
    /\ server' = "stopping"
    /\ verification_generation' = verification_generation + 1
    /\ UNCHANGED <<tree, verification_gate, active_verification, should_stop, restarts, pc,
                   generation, cancelled, attemptVars, answer, storeVars>>

ServeCancel ==
    /\ server = "stopping"
    /\ server' = "draining"
    /\ CancelActive
    /\ UNCHANGED <<tree, verification_generation, verification_gate, active_verification,
                   should_stop, restarts, pc, generation, attemptVars, answer, storeVars>>

\* The process is gone: threads end where they are, memory is lost.
ProcessEnds ==
    /\ server' = "down"
    /\ pc' = [r \in Requests |-> IF pc[r] \in {"idle", "done"} THEN pc[r] ELSE "dropped"]
    /\ verification_generation' = 0
    /\ verification_gate' = NoRequest
    /\ active_verification' = NoRequest
    /\ should_stop' = FALSE
    /\ Forget(Verifies)
    /\ UNCHANGED <<tree, restarts, answer, storeVars>>

\* Every worker thread ended, or two seconds passed and they are detached.
Exit ==
    /\ server = "draining"
    /\ ProcessEnds

Crash ==
    /\ server # "down"
    /\ restarts < MaxRestarts
    /\ ProcessEnds

\* Mutant of Recovered: opening the store repairs nothing.
NotRecovered(status) == status

\* Store::open: rows a dead daemon left running become errors.
Recovered(status) == IF status = "running" THEN "error" ELSE status

\* Daemon::open.
Restart ==
    /\ server = "down"
    /\ restarts < MaxRestarts
    /\ server' = "serving"
    /\ restarts' = restarts + 1
    /\ runs' = [r \in Verifies |-> Recovered(runs[r])]
    /\ UNCHANGED <<tree, verification_generation, verification_gate, active_verification,
                   should_stop, pc, generation, cancelled, attemptVars, answer, cache>>

\* An edit that leads to a revision the worktree never had.
Edit ==
    /\ tree < MaxRevision
    /\ tree' = tree + 1
    /\ UNCHANGED <<daemonVars, pc, generation, cancelled, attemptVars, answer, storeVars>>

\* An edit that takes the worktree back to an earlier revision.
Revert ==
    /\ \E v \in Revisions : v < tree /\ tree' = v
    /\ UNCHANGED <<daemonVars, pc, generation, cancelled, attemptVars, answer, storeVars>>

-----------------------------------------------------------------------------
\* What a verify thread does when nothing fails.
Progress(r) ==
    \/ CancelOlder(r) \/ LockGate(r) \/ Admit(r) \/ InstallToken(r) \/ Recheck(r)
    \/ CancelledEarly(r) \/ CaptureBefore(r) \/ CacheHit(r) \/ BeginRun(r) \/ WorkerReads(r)
    \/ \E left \in {"success", "failure", "noEvidence"} : WorkerExits(r, left)
    \/ CancelledWithRow(r) \/ Ingest(r) \/ FinishRun(r) \/ SaveCache(r)
    \/ Requeue(r) \/ Decide(r) \/ Clear(r)

Failure(r) == StartFails(r) \/ RequeueDiscoverFails(r) \/ RunFails(r) \/ SaveFails(r)

CancelStep(c) ==
    \/ \E isStop \in BOOLEAN : CancelToken(c, isStop)
    \/ StopFlag(c)

ServerStep == ServeBump \/ ServeCancel \/ Exit

Next ==
    \/ \E r \in Verifies : \E supersede \in BOOLEAN : Arrive(r, supersede)
    \/ \E r \in Verifies : Progress(r)
    \/ \E r \in Verifies : Failure(r)
    \/ \E c \in Cancels : CancelBump(c)
    \/ \E c \in Cancels : CancelStep(c)
    \/ ServerStep
    \/ Crash
    \/ Restart
    \/ Edit

\* Threads are scheduled, the worker has a time limit, and finitely many
\* requests compete for the gate; requests, failures, crashes and edits are
\* up to others.
Fairness ==
    /\ \A r \in Verifies : WF_vars(Progress(r))
    /\ \A c \in Cancels : WF_vars(CancelStep(c))
    /\ WF_vars(ServerStep)

Spec == Init /\ [][Next]_vars /\ Fairness

\* The same system with a developer who may also undo an edit, as the code allows.
RevertSpec == Init /\ [][Next \/ Revert]_vars /\ Fairness

-----------------------------------------------------------------------------
(* Properties.                                                             *)

\* One verification at a time, and a cancel can always reach it: whoever is
\* past the gate holds it, and from InstallToken on the active slot holds its
\* token.  Covers the lock / install / clear protocol of Daemon::verify,
\* including the requeue that returns without clearing the slot.
HolderIsCancellable ==
    \A r \in Verifies :
        /\ pc[r] \in InGate => verification_gate = r
        /\ pc[r] \in Installed => active_verification = r

\* No obsolete work goes on unnoticed: a verification that started although a
\* newer generation exists has its token cancelled, or the thread that bumped
\* the generation is still on its way to cancel_active_verification.
ObsoleteWorkIsCancelled ==
    \A r \in Verifies :
        pc[r] \in Verifying /\ Obsolete(r) =>
            \/ cancelled[r]
            \/ \E v \in Verifies : pc[v] = "supersede"
            \/ \E c \in Cancels : pc[c] = "bumped"
            \/ server = "stopping"

\* "Results bind to a content revision.  A concurrent edit makes an in-flight result
\* stale": a `passed` answer, a `passed` row and a cache entry exist only for revisions
\* whose tests really pass, whatever requeues, cancels and restarts came between
\* (verify_internal, finish_run).  It holds under Spec, where every edit leads to a new
\* revision; under RevertSpec, where an edit may be undone before the second capture, the
\* code does not keep this promise.
SuccessIsReal ==
    /\ \A r \in Verifies :
        /\ pc[r] = "clear" /\ answer[r] = "passed" => before[r] \in Good
        /\ pc[r] \in {"save", "decide", "clear"} /\ runs[r] = "passed" => before[r] \in Good
    /\ cache \subseteq Good

\* Why SuccessIsReal holds, attempt by attempt: revisions only grow, so a
\* worktree found at `before` again was there all the time, and what the worker
\* executed in between was `before`; and a row that passed belongs to the last attempt.
EvidenceOf(r) ==
    /\ pc[r] \in RowOpen \cup {"lookup"} => before[r] <= tree
    /\ pc[r] \in {"tests", "ingest", "finish"} => before[r] <= executed[r] /\ executed[r] <= tree
    /\ pc[r] \in {"ingest", "finish"} /\ process[r] = "success" => executed[r] \in Good
    /\ pc[r] \in {"save", "decide"} /\ outcome[r] = "passed" => before[r] \in Good
    /\ pc[r] = "clear" /\ answer[r] = "passed" => before[r] \in Good
    /\ runs[r] = "passed" => pc[r] \in {"save", "decide", "clear", "done", "dropped"}
    /\ runs[r] = "passed" /\ pc[r] \in {"save", "decide"} => outcome[r] = "passed"
    /\ runs[r] = "passed" /\ pc[r] = "clear" => before[r] \in Good

Evidence ==
    /\ cache \subseteq Good
    /\ \A r \in Verifies : EvidenceOf(r)

\* A row is `running` only while its own attempt is being worked on: every way
\* out of the verifier finishes the row, and a restart repairs what a crash left.
NoPhantomRun ==
    server # "down" =>
        \A r \in Verifies : runs[r] = "running" => pc[r] \in RowOpen

\* The gate as its clients see it.  A request waits from Arrive until its
\* answer is fixed (Admit, Decide, or an error), and was overtaken if the
\* generation moved on meanwhile.
servicePhase ==
    [r \in Verifies |-> CASE pc[r] = "idle" -> "new"
                          [] pc[r] # "idle" /\ answer[r] # "none" -> "answered"
                          [] pc[r] = "dropped" /\ answer[r] = "none" -> "lost"
                          [] OTHER -> "waiting"]
serviceOvertaken ==
    [r \in Verifies |-> /\ pc[r] \notin {"idle", "done", "dropped"}
                        /\ answer[r] = "none"
                        /\ Obsolete(r)]
serviceReply == [r \in Verifies |-> answer[r]]

Service == INSTANCE VerificationService WITH
    up <- server # "down",
    interrupted <- verification_generation > 0,
    phase <- servicePhase,
    overtaken <- serviceOvertaken,
    reply <- serviceReply

\* The detailed gate implements the abstract one: however threads interleave,
\* a request that an interruption overtook before its last check is never
\* answered with an outcome, and none is cancelled without an interruption.
ImplementsService == Service!Spec

\* Every request is answered, or its daemon goes away.
EveryRequestEnds ==
    \A r \in Requests : pc[r] # "idle" ~> pc[r] \in {"done", "dropped"}

\* A stop request ends the daemon, whatever is being verified.
StopEnds == \A c \in Cancels : pc[c] = "stop" ~> server = "down"

\* "verification was cancelled because a newer request replaced it": a request
\* is answered superseded only when the generation moved on after it arrived.
SupersededOnlyByNewer ==
    \A r \in Verifies :
        server # "down" /\ pc[r] = "clear" /\ answer[r] = "superseded" => Obsolete(r)
=============================================================================
