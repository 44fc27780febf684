----------------------------- MODULE RunExecutor -----------------------------
(***************************************************************************)
(* The Run Executor processes over the run queue: the supervisor loop      *)
(* (reap, renew, claim), the worker thread of each claimed Attempt, the    *)
(* process life cycle (start, SIGTERM, SIGUSR1/SIGUSR2 drain and resume,   *)
(* crash) and the operators' submissions and cancellations.                *)
(*                                                                         *)
(* Every repository call is the operation of module RunQueue: the caller   *)
(* takes the Begin step, is suspended while the transaction runs, and goes *)
(* on from its commit or its exception.                                    *)
(***************************************************************************)
EXTENDS RunQueue

CONSTANTS
    Concurrency,       \* worker threads of one process
    HeartbeatSeconds,  \* heartbeat_interval_seconds
    HandlerMayFail,    \* may the work handler or the artifact upload raise?
    DatabaseMayFail,   \* may a transaction fail with a database error?
    Unfreezable,       \* Runs whose execution snapshot cannot be frozen
    RoleMayLapse,      \* may a running process lose its worker-role lease?
    Prompt             \* processes whose running loop completes a pass per clock tick

ASSUME ExecutorAssumption ==
    /\ Concurrency \in Nat \ {0}
    /\ HeartbeatSeconds \in Nat \ {0} /\ HeartbeatSeconds < LeaseSeconds
    /\ Unfreezable \subseteq Runs
    /\ Prompt \subseteq Executors
    /\ {HandlerMayFail, DatabaseMayFail, RoleMayLapse} \subseteq BOOLEAN

VARIABLES
    proc,     \* the executor process of each slot
    worker    \* the thread executing each Attempt

execVars == <<vars, proc, worker>>

Steps == {"down", "starting", "reap", "beat", "beating", "guard", "claim",
          "claiming", "rest", "unwinding"}

Process == [step : Steps, epoch : Nat, held : SUBSET Attempts,
            todo : SUBSET Attempts, stop : BOOLEAN]

Down == [step |-> "down", epoch |-> 0, held |-> {}, todo |-> {}, stop |-> FALSE]

\* Program points of _execute_claim; "none" has not been claimed, "killed" died
\* with its process, "raised" left an exception in its future.
WorkerSteps == {"none", "check1", "handler", "check2", "mark", "marking",
                "prepare", "check3", "commit", "committing", "rejected",
                "terminal", "terminating", "done", "raised", "killed"}

Worker == [pc : WorkerSteps, write : TerminalWrites \cup {NoWrite}]

\* The processes and threads stay in the sets of their program points.
ExecTypeOK ==
    /\ TypeOK
    /\ proc \in [Executors -> Process]
    /\ worker \in [Attempts -> Worker]

ExecInit ==
    /\ Init
    /\ proc = [e \in Executors |-> Down]
    /\ worker = [a \in Attempts |-> [pc |-> "none", write |-> NoWrite]]

Looping(e) == proc[e].step \in Steps \ {"down", "starting", "unwinding"}
Finished == {"none", "done", "raised", "killed"}

\* Bound: the process of the last modelled activation is not disturbed, since
\* none would follow it.
Disturbable == activation.epoch < MaxEpoch

\* A call may fail with a database error, which no caller expects.
DatabaseErrs == DatabaseMayFail /\ Disturbable

Goto(a, pc) == worker' = [worker EXCEPT ![a].pc = pc]
Step(e, s)  == proc' = [proc EXCEPT ![e].step = s]
-----------------------------------------------------------------------------
(* Process life cycle (cli.run_executor).                                   *)

\* Mutant of Start: the role is taken while another lease is live.
StartStealing(e) ==
    /\ proc[e].step = "down"
    /\ Disturbable
    /\ role' = [owner |-> e, state |-> "active", live |-> TRUE]
    /\ UNCHANGED <<clock, tables, activation, txn, beats>>
    /\ Step(e, "starting")
    /\ UNCHANGED worker

\* role_controller.start(): refused while another lease is live; the container
\* is then restarted until it is accepted.
Start(e) ==
    /\ proc[e].step = "down"
    /\ Disturbable
    /\ RoleActivate(e)
    /\ RoleMayLapse \/ role'.live
    /\ Step(e, "starting")
    /\ UNCHANGED worker

\* executor.activate()
Activate(e) ==
    /\ proc[e].step = "starting"
    /\ ActivateRole(e)
    /\ proc' = [proc EXCEPT ![e].step = "reap", ![e].epoch = activation.epoch + 1]
    /\ UNCHANGED worker

\* activate_role refuses a role that drained or lapsed meanwhile: the process
\* exits, and releases the role if it still owns it.
ActivateRefused(e) ==
    /\ proc[e].step = "starting"
    /\ ~WorkerRoleLease(e, FALSE)
    /\ proc' = [proc EXCEPT ![e] = Down]
    /\ IF role.owner = e THEN RoleRelease ELSE UNCHANGED vars
    /\ UNCHANGED worker

Drain ==
    /\ Disturbable
    /\ role.owner \in Executors /\ proc[role.owner].step # "down"
    /\ RoleDrain
    /\ UNCHANGED <<proc, worker>>

Resume ==
    /\ role.owner \in Executors /\ proc[role.owner].step # "down"
    /\ RoleResume
    /\ UNCHANGED <<proc, worker>>

\* SIGTERM: begin_draining, then executor.stop().
Stop(e) ==
    /\ Looping(e) /\ ~proc[e].stop
    /\ Disturbable
    /\ proc' = [proc EXCEPT ![e].stop = TRUE]
    /\ IF role.owner = e /\ role.live /\ role.state = "active" THEN RoleDrain ELSE UNCHANGED vars
    /\ UNCHANGED worker

\* The process dies with its threads; its transaction may commit or not.
Crash(e) ==
    /\ proc[e].step # "down"
    /\ Disturbable
    /\ proc' = [proc EXCEPT ![e] = Down]
    /\ worker' = [a \in Attempts |->
                    IF a \in proc[e].held THEN [worker[a] EXCEPT !.pc = "killed"] ELSE worker[a]]
    /\ UNCHANGED vars

\* Mutant of Exit: the process does not wait for its threads.
ExitAtOnce(e) ==
    /\ \/ proc[e].step = "unwinding"
       \/ proc[e].step = "rest" /\ proc[e].stop /\ proc[e].held = {}
    /\ proc' = [proc EXCEPT ![e] = Down]
    /\ IF role.owner = e THEN RoleRelease ELSE UNCHANGED vars
    /\ UNCHANGED worker

\* An exception left the loop, or the loop ended after a stop: the thread pool
\* waits for its threads (nobody renews their leases meanwhile), then the
\* process releases its role and exits.
Exit(e) ==
    /\ \/ proc[e].step = "unwinding"
       \/ proc[e].step = "rest" /\ proc[e].stop /\ proc[e].held = {}
    /\ \A a \in proc[e].held : worker[a].pc \in Finished
    /\ proc' = [proc EXCEPT ![e] = Down]
    /\ IF role.owner = e THEN RoleRelease ELSE UNCHANGED vars
    /\ UNCHANGED worker

\* The role lease lapses when its process is gone, or when the process fails to
\* renew it in time.
Lapse ==
    /\ role.owner \in Executors
    /\ (RoleMayLapse /\ Disturbable) \/ proc[role.owner].step = "down"
    /\ RoleExpire
    /\ UNCHANGED <<proc, worker>>

\* Of a process that let its lease lapse, or of one that died before its renewal
\* was committed.
LateRenewal ==
    /\ role.owner \in Executors
    /\ RoleMayLapse \/ proc[role.owner].step = "down"
    /\ RoleLateRenewal
    /\ UNCHANGED <<proc, worker>>
-----------------------------------------------------------------------------
(* The supervisor loop (run_until_idle).                                    *)

\* Mutant of Reap: a loop reaps only what its own epoch claimed.
ReapOwn(e) ==
    /\ proc[e].step = "reap"
    /\ LockFree
    /\ \E now \in Readings :
         \/ /\ \A a \in Expired(now) : attempts[a].epoch # proc[e].epoch
            /\ UNCHANGED vars
         \/ /\ \E a \in Expired(now) : attempts[a].epoch = proc[e].epoch
            /\ \E lost \in Reapable(now) : ReapExpiredLeases(now, lost)
    /\ proc' = [proc EXCEPT ![e].step = "beat", ![e].todo = proc[e].held]
    /\ UNCHANGED worker

Reap(e) ==
    /\ proc[e].step = "reap"
    /\ LockFree
    /\ \E now \in Readings :
         \/ {} \in Reapable(now) /\ UNCHANGED vars
         \/ \E lost \in Reapable(now) : ReapExpiredLeases(now, lost)
    /\ proc' = [proc EXCEPT ![e].step = "beat", ![e].todo = proc[e].held]
    /\ UNCHANGED worker

\* future.result() returns, and the Attempt is no longer held.
Collect(e, a) ==
    /\ proc[e].step = "beat" /\ a \in proc[e].todo
    /\ worker[a].pc = "done"
    /\ proc' = [proc EXCEPT ![e].todo = @ \ {a}, ![e].held = @ \ {a}]
    /\ UNCHANGED <<vars, worker>>

\* future.result() re-raises, and the exception leaves the loop.
CollectRaised(e, a) ==
    /\ proc[e].step = "beat" /\ a \in proc[e].todo
    /\ worker[a].pc = "raised"
    /\ Step(e, "unwinding")
    /\ UNCHANGED <<vars, worker>>

\* Mutant of Due: a lease is renewed when it expires.
DueAtExpiry(a, now) == now >= attempts[a].lease

\* The last renewal was at lease - LeaseSeconds, unless the deadline cut it.
Due(a, now) == now + LeaseSeconds >= attempts[a].lease + HeartbeatSeconds

NotDue(e, a) ==
    /\ proc[e].step = "beat" /\ a \in proc[e].todo
    /\ worker[a].pc \notin Finished
    /\ ~Due(a, clock)
    /\ proc' = [proc EXCEPT ![e].todo = @ \ {a}]
    /\ UNCHANGED <<vars, worker>>

Renew(e, a) ==
    /\ proc[e].step = "beat" /\ a \in proc[e].todo
    /\ worker[a].pc \notin Finished
    /\ \E now \in Readings : Due(a, now) /\ BeginHeartbeat(a, now)
    /\ Step(e, "beating")
    /\ UNCHANGED worker

\* heartbeat raises RunClaimRejectedError before its row check; the loop goes on.
RenewRefused(e, a) ==
    /\ proc[e].step = "beat" /\ a \in proc[e].todo
    /\ worker[a].pc \notin Finished
    /\ Due(a, clock)
    /\ ~OwnerActive(a) \/ attempts[a].state \notin ActiveStates
    /\ proc' = [proc EXCEPT ![e].todo = @ \ {a}]
    /\ UNCHANGED <<vars, worker>>

\* Reaping, or a call before its transaction began, fails: the error leaves the
\* loop.
LoopRaises(e) ==
    /\ DatabaseErrs
    /\ \/ proc[e].step \in {"reap", "claim"}
       \/ /\ proc[e].step = "beat"
          /\ \E a \in proc[e].todo : worker[a].pc \notin Finished /\ Due(a, clock)
    /\ Step(e, "unwinding")
    /\ UNCHANGED <<vars, worker>>

\* The process waiting for this heartbeat; none when that process is gone.
Beating(b) == {e \in Executors : proc[e].step = "beating" /\ b.attempt \in proc[e].todo}

Renewed(b) ==
    /\ Heartbeat(b) \/ (~OwnedRow(b.attempt, b.now, FALSE) /\ HeartbeatRejected(b))
    /\ proc' = [e \in Executors |->
                  IF e \in Beating(b)
                  THEN [proc[e] EXCEPT !.step = "beat", !.todo = @ \ {b.attempt}]
                  ELSE proc[e]]
    /\ UNCHANGED worker

RenewRaises(b) ==
    /\ DatabaseErrs
    /\ HeartbeatRejected(b)
    /\ proc' = [e \in Executors |->
                  IF e \in Beating(b) THEN [proc[e] EXCEPT !.step = "unwinding"] ELSE proc[e]]
    /\ UNCHANGED worker

\* can_claim(): the process is to be ACTIVE and the role row agrees.
ClaimGuard(e) == WorkerRoleLease(e, FALSE)

MayClaim(e) ==
    ~proc[e].stop /\ Cardinality(proc[e].held) < Concurrency /\ ClaimGuard(e)

\* The role read may fail, which check_ready answers with "not ready".
GuardClaim(e) ==
    /\ \/ proc[e].step = "beat" /\ proc[e].todo = {}
       \/ proc[e].step = "guard"
    /\ \/ MayClaim(e) /\ Step(e, "claim")
       \/ (~MayClaim(e) \/ DatabaseErrs) /\ Step(e, "rest")
    /\ UNCHANGED <<vars, worker>>

Claim(e) ==
    /\ proc[e].step = "claim"
    /\ \E now \in Readings : BeginClaim(e, proc[e].epoch, now)
    /\ Step(e, "claiming")
    /\ UNCHANGED worker

\* claim_next raises RunClaimRejectedError, which nothing in the loop catches.
ClaimRefused(e) ==
    /\ proc[e].step = "claim"
    /\ LockFree
    /\ ~ActiveRole(e, proc[e].epoch, FALSE)
    /\ Step(e, "unwinding")
    /\ UNCHANGED <<vars, worker>>

\* The process waiting for the claim that holds the queue lock.
Claiming(e) ==
    proc[e].step = "claiming" /\ txn.executor = e /\ txn.epoch = proc[e].epoch

\* The claim is committed and its thread starts; a claim whose process is gone
\* is committed with no thread.
Claimed(r, a) ==
    /\ r \notin Unfreezable
    /\ ClaimNext(r, a)
    /\ worker' = [worker EXCEPT ![a].pc =
                    IF Claiming(txn.executor) THEN "check1" ELSE "killed"]
    /\ proc' = [e \in Executors |->
                  IF Claiming(e) THEN [proc[e] EXCEPT !.step = "guard", !.held = @ \cup {a}]
                  ELSE proc[e]]

\* claim_next finds no capacity or no Run, or its process is gone.
ClaimedNothing ==
    /\ txn.op = "claim"
    /\ \/ Cardinality(ActiveAttempts) >= MAX_ACTIVE_ATTEMPTS
       \/ QueuedRuns = {}
       \/ ~Claiming(txn.executor)
    /\ Rollback
    /\ proc' = [e \in Executors |->
                  IF Claiming(e) THEN [proc[e] EXCEPT !.step = "rest"] ELSE proc[e]]
    /\ UNCHANGED worker

\* snapshot_factory or the database raises: the claim is rolled back, the Run
\* stays queued, and the exception leaves the loop.
ClaimRaised ==
    /\ txn.op = "claim"
    /\ DatabaseErrs \/ \E r \in Unfreezable : FairClaim(r)
    /\ Rollback
    /\ proc' = [e \in Executors |->
                  IF Claiming(e) THEN [proc[e] EXCEPT !.step = "unwinding"] ELSE proc[e]]
    /\ UNCHANGED worker

Wake(e) ==
    /\ proc[e].step = "rest"
    /\ ~(proc[e].stop /\ proc[e].held = {})
    /\ Step(e, "reap")
    /\ UNCHANGED <<vars, worker>>
-----------------------------------------------------------------------------
(* The worker thread of an Attempt (_execute_claim).                        *)

RunOf(a) == runs[attempts[a].run]

\* except handlers: the thread goes on to commit_terminal_failure.
Fail(a, write) == worker' = [worker EXCEPT ![a] = [pc |-> "terminal", write |-> write]]

Failed(code) == [target |-> "failed", code |-> code]
TimedOut     == [target |-> "timed_out", code |-> "deadline_exceeded"]
Cancelled    == [target |-> "cancelled", code |-> "cancelled"]

\* _check_cancellation_or_deadline, raising: called between the stages, by the
\* handler at its own boundaries and before every artifact upload.
CheckRaises(a) ==
    /\ worker[a].pc \in {"check1", "handler", "check2", "prepare", "check3"}
    /\ CASE clock >= attempts[a].deadline                        -> Fail(a, TimedOut)
         [] RunOf(a).state \in {"cancel_requested", "cancelled"}  -> Fail(a, Cancelled)
         [] RunOf(a).state \in TerminalStates                     -> Goto(a, "rejected")
         [] OTHER                                                 -> FALSE
    /\ UNCHANGED <<vars, proc>>

\* The Run cannot be read: any other exception, before or after mark_finalizing.
CheckErrs(a) ==
    /\ DatabaseErrs
    /\ worker[a].pc \in {"check1", "check2", "check3"}
    /\ Fail(a, Failed(IF worker[a].pc = "check3" THEN "finalization_failed" ELSE "execution_failed"))
    /\ UNCHANGED <<vars, proc>>

CheckPasses(a) ==
    /\ worker[a].pc \in {"check1", "check2", "check3"}
    /\ clock < attempts[a].deadline
    /\ RunOf(a).state \in {"queued", "running", "finalizing"}
    /\ Goto(a, CASE worker[a].pc = "check1" -> "handler"
                 [] worker[a].pc = "check2" -> "mark"
                 [] worker[a].pc = "check3" -> "commit")
    /\ UNCHANGED <<vars, proc>>

\* The handler refuses a conversation that is not as the request froze it.  No
\* other Run of that conversation can succeed while this one is executing, so
\* commit_success finds the count the handler found.
TurnCountFresh(a) == RunOf(a).conv # NoConversation => turns[RunOf(a).conv] = RunOf(a).seen

HandlerReturns(a) ==
    /\ worker[a].pc = "handler"
    /\ TurnCountFresh(a)
    /\ Goto(a, "check2")
    /\ UNCHANGED <<vars, proc>>

HandlerRaises(a) ==
    /\ worker[a].pc = "handler"
    /\ HandlerMayFail \/ ~TurnCountFresh(a)
    /\ Fail(a, Failed("execution_failed"))
    /\ UNCHANGED <<vars, proc>>

\* artifact_finalizer.prepare: the members, then the manifest, are stored.
Prepared(a) ==
    /\ worker[a].pc = "prepare"
    /\ Goto(a, "check3")
    /\ UNCHANGED <<vars, proc>>

PrepareRaises(a) ==
    /\ HandlerMayFail
    /\ worker[a].pc = "prepare"
    /\ Fail(a, Failed("finalization_failed"))
    /\ UNCHANGED <<vars, proc>>

\* The thread enters the transaction of its next write.
BeginCall(a) ==
    /\ \E now \in Readings :
         \/ /\ worker[a].pc = "mark" /\ Goto(a, "marking")
            /\ BeginWrite("finalize", a, NoWrite, now)
         \/ /\ worker[a].pc = "commit" /\ Goto(a, "committing")
            /\ BeginWrite("succeed", a, NoWrite, now)
         \/ /\ worker[a].pc = "terminal" /\ Goto(a, "terminating")
            /\ BeginWrite("fail", a, worker[a].write, now)
    /\ UNCHANGED proc

\* Where RunClaimRejectedError takes the thread: out of its stages to the
\* "rejected" handler, out of _terminal_best_effort to its end.
AfterRejection(a) ==
    Goto(a, IF worker[a].pc \in {"terminal", "terminating"} THEN "done" ELSE "rejected")

\* The role check refuses the call, or the Attempt is already terminal.
CallRefused(a) ==
    /\ worker[a].pc \in {"mark", "commit", "terminal"}
    /\ LockFree
    /\ ~OwnerActive(a) \/ attempts[a].state \notin ActiveStates
    /\ AfterRejection(a)
    /\ UNCHANGED <<vars, proc>>

\* The thread suspended in the transaction that holds the queue lock.
Suspended(a) == txn.attempt = a /\ worker[a].pc \in {"marking", "committing", "terminating"}

\* The transaction commits; a thread that died with its process stays dead.
CallCommits ==
    /\ MarkFinalizing \/ CommitSuccess \/ CommitTerminalFailure
    /\ worker' = [a \in Attempts |->
                    IF Suspended(a)
                    THEN [worker[a] EXCEPT !.pc = IF txn.op = "finalize" THEN "prepare" ELSE "done"]
                    ELSE worker[a]]
    /\ UNCHANGED proc

\* _lock_owned_attempt refuses the row, or commit_success finds that the
\* Attempt is no longer finalizing: RunClaimRejectedError.
CallRejected(a) ==
    /\ Suspended(a)
    /\ \/ ~OwnedRow(a, txn.now, txn.write.target = "timed_out")
       \/ txn.op = "succeed" /\ attempts[a].state # "finalizing"
    /\ Rollback
    /\ AfterRejection(a)
    /\ UNCHANGED proc

\* assert_run_transition refuses the state: ValueError, which is caught in
\* _terminal_best_effort and is any other exception elsewhere.
CallIllegal(a) ==
    /\ Suspended(a)
    /\ OwnedRow(a, txn.now, txn.write.target = "timed_out")
    /\ \/ /\ txn.op = "finalize" /\ ~CanTransition(attempts[a].state, "finalizing")
          /\ Fail(a, Failed("execution_failed"))
       \/ /\ txn.op = "fail" /\ ~CanTransition(attempts[a].state, txn.write.target)
          /\ Goto(a, "done")
    /\ Rollback
    /\ UNCHANGED proc

\* Mutant of CallRaises: the error of mark_finalizing is swallowed.
CallSwallows(a) ==
    /\ Suspended(a)
    /\ DatabaseErrs
    /\ Rollback
    /\ CASE txn.op = "finalize" -> Goto(a, "prepare")
         [] txn.op = "succeed"  -> Fail(a, Failed("finalization_failed"))
         [] txn.op = "fail"     -> Goto(a, "raised")
    /\ UNCHANGED proc

\* The database fails: an exception that the stages answer with a FAILED write
\* and that leaves the thread when it hits that write.
CallRaises(a) ==
    /\ Suspended(a)
    /\ DatabaseErrs
    /\ Rollback
    /\ CASE txn.op = "finalize" -> Fail(a, Failed("execution_failed"))
         [] txn.op = "succeed"  -> Fail(a, Failed("finalization_failed"))
         [] txn.op = "fail"     -> Goto(a, "raised")
    /\ UNCHANGED proc

\* The transaction of a dead thread is rolled back by its lost connection.
OrphanRollback ==
    /\ txn.op \in {"finalize", "succeed", "fail"}
    /\ ~Suspended(txn.attempt)
    /\ Rollback
    /\ UNCHANGED <<proc, worker>>

\* except RunClaimRejectedError: a cancelled Run still ends as CANCELLED.
HandleRejection(a) ==
    /\ worker[a].pc = "rejected"
    /\ IF RunOf(a).state = "cancel_requested" THEN Fail(a, Cancelled) ELSE Goto(a, "done")
    /\ UNCHANGED <<vars, proc>>

\* The handler's own read fails, and the exception stays in the future.
RejectionErrs(a) ==
    /\ DatabaseErrs
    /\ worker[a].pc = "rejected"
    /\ Goto(a, "raised")
    /\ UNCHANGED <<vars, proc>>
-----------------------------------------------------------------------------
(* The operators' requests and time.                                        *)

Submit(r, q) ==
    /\ \E seen \in 0..(IF q.conv = NoConversation THEN 0 ELSE turns[q.conv]) : Admit(r, q, seen)
    /\ UNCHANGED <<proc, worker>>

Cancel(r) ==
    /\ RequestCancel(r)
    /\ UNCHANGED <<proc, worker>>

\* Time matters while a lease has still to expire.  A loop that is Prompt is at
\* rest when the clock moves, and then makes a pass.
TimePasses ==
    /\ \E a \in ActiveAttempts : attempts[a].lease > clock
    /\ \A e \in Prompt : Looping(e) => proc[e].step = "rest"
    /\ Tick
    /\ proc' = [e \in Executors |->
                  IF proc[e].step = "rest" /\ ~(proc[e].stop /\ proc[e].held = {})
                  THEN [proc[e] EXCEPT !.step = "reap"] ELSE proc[e]]
    /\ UNCHANGED worker
-----------------------------------------------------------------------------
Loop(e) ==
    \/ Reap(e) \/ GuardClaim(e) \/ Claim(e) \/ ClaimRefused(e) \/ Wake(e) \/ LoopRaises(e)
    \/ \E a \in Attempts :
         Collect(e, a) \/ CollectRaised(e, a) \/ NotDue(e, a) \/ Renew(e, a) \/ RenewRefused(e, a)

Database ==
    \/ \E b \in beats : Renewed(b) \/ RenewRaises(b)
    \/ \E r \in Runs, a \in Attempts : Claimed(r, a)
    \/ ClaimedNothing \/ ClaimRaised \/ CallCommits \/ OrphanRollback
    \/ \E a \in Attempts : CallRejected(a) \/ CallIllegal(a) \/ CallRaises(a)

\* The steps of a thread that are its own and end by themselves; the handler and
\* the uploads may take for ever.
Thread(a) ==
    \/ CheckRaises(a) \/ CheckErrs(a) \/ CheckPasses(a)
    \/ BeginCall(a) \/ CallRefused(a) \/ HandleRejection(a) \/ RejectionErrs(a)

Work(a) == HandlerReturns(a) \/ HandlerRaises(a) \/ Prepared(a) \/ PrepareRaises(a)

\* The end of a heartbeat's transaction, which may hold its row against the reaper.
HeartbeatEnds(a) == \E b \in beats : b.attempt = a /\ (Renewed(b) \/ RenewRaises(b))

Lifetime(e) == Start(e) \/ Activate(e) \/ ActivateRefused(e) \/ Exit(e)

ExecNext ==
    \/ \E e \in Executors : Lifetime(e) \/ Loop(e) \/ Stop(e) \/ Crash(e)
    \/ \E a \in Attempts : Thread(a) \/ Work(a)
    \/ Database \/ Drain \/ Resume \/ Lapse \/ LateRenewal
    \/ \E r \in Runs : Cancel(r) \/ \E q \in Requests : Submit(r, q)
    \/ TimePasses

ExecSpec == ExecInit /\ [][ExecNext]_execVars

\* Containers restart, processes and threads run, PostgreSQL ends the
\* transactions it began, each heartbeat's too, work ends, leases of dead processes and time run out.
\* Strong fairness of Start: a dead process has at most one renewal under way, so
\* none keeps its role for ever.  Of Activate: no deployment drains every process in
\* the short time between its start and its activation for ever.  Of TimePasses:
\* a Prompt loop is at rest again and again, and time does pass then.
Fairness ==
    /\ \A e \in Executors :
         /\ WF_execVars(Lifetime(e)) /\ WF_execVars(Loop(e))
         /\ SF_execVars(Start(e)) /\ SF_execVars(Activate(e))
    /\ \A a \in Attempts :
         WF_execVars(Thread(a)) /\ WF_execVars(Work(a)) /\ WF_execVars(HeartbeatEnds(a))
    /\ WF_execVars(Database) /\ WF_execVars(Lapse) /\ SF_execVars(TimePasses)

FairExecSpec == ExecSpec /\ Fairness
-----------------------------------------------------------------------------
(* Properties.                                                             *)

\* The processes use the queue as module RunQueue allows: every step of a loop,
\* a thread, a signal or a crash is a step of the queue or leaves it alone.
ImplementsQueue == Spec

\* A thread's program point and the durable state of its Run agree: before
\* mark_finalizing it can meet only its own RUNNING Run, a cancellation request
\* or the reaper's FAILED; after it, only FINALIZING, those two again.  So no
\* thread works for a Run that succeeded, timed out or was cancelled without it.
ThreadAgreement ==
    \A a \in Attempts :
      /\ worker[a].pc \in {"check1", "handler", "check2", "mark", "marking"} =>
           RunOf(a).state \in {"running", "cancel_requested", "failed"}
      /\ worker[a].pc \in {"prepare", "check3", "commit", "committing"} =>
           RunOf(a).state \in {"finalizing", "cancel_requested", "failed"}

\* A thread that still runs is held by exactly one process, which is up, and no
\* process runs more threads than its concurrency.
ThreadsHeld ==
    /\ \A a \in Attempts : worker[a].pc \notin Finished =>
         Cardinality({e \in Executors : a \in proc[e].held /\ proc[e].step # "down"}) = 1
    /\ \A e \in Executors : Cardinality(proc[e].held) <= Concurrency

\* The supervisor loop keeps its threads' leases alive: while a Prompt loop runs,
\* also through a drain or a stop, no Attempt that is before its deadline can be
\* taken for lost.
LeasesKept ==
    \A e \in Prompt : Looping(e) =>
      \A a \in proc[e].held :
        /\ worker[a].pc \notin Finished /\ attempts[a].state \in ActiveStates
        /\ clock < attempts[a].deadline
        => clock < attempts[a].lease

\* Every claimed Attempt reaches a terminal state, through crashes, restarts,
\* lost commits, drains and takeovers.
AttemptsTerminate ==
    \A a \in Attempts : attempts[a].state \in ActiveStates ~> attempts[a].state \in TerminalStates
=============================================================================
