------------------------- MODULE RunExecutorProofs -------------------------
(***************************************************************************)
(* The executor processes use the run queue as module RunQueue allows, so  *)
(* that what is proved of the queue holds under every crash, drain and     *)
(* database error of theirs; their threads agree with the durable state of *)
(* the Runs they work for, keep their leases as long as their process      *)
(* keeps its role and its pace, and are gone when the next epoch begins.   *)
(***************************************************************************)
EXTENDS RunExecutor, RunQueueProofs, FiniteSetTheorems

\* What a thread is to record was decided by one of its except clauses.
WritesKnown == \A a \in Attempts : worker[a].pc = "terminal" => worker[a].write \in TerminalWrites

Processes == proc \in [Executors -> Process]
Workers   == worker \in [Attempts -> Worker] /\ WritesKnown

\* The transaction that writes an Attempt was begun by the Attempt's thread,
\* which is suspended in it unless it died with its process.
Calls ==
    \A a \in Attempts : txn.attempt = a =>
      \/ txn.op = "finalize" /\ worker[a].pc \in {"marking", "killed"}
      \/ txn.op = "succeed"  /\ worker[a].pc \in {"committing", "killed"}
      \/ txn.op = "fail"     /\ worker[a].pc \in {"terminating", "killed"}

\* A thread starts with its Attempt.
Unclaimed == \A a \in Attempts : attempts[a].state = "absent" => worker[a].pc \in {"none", "killed"}

Before == {"check1", "handler", "check2", "mark", "marking"}
After  == {"prepare", "check3", "commit", "committing"}

\* ThreadAgreement, said of the Attempt rows.
Agree ==
    \A a \in Attempts :
      /\ worker[a].pc \in Before => attempts[a].state \in {"running", "cancel_requested", "failed"}
      /\ worker[a].pc \in After => attempts[a].state \in {"finalizing", "cancel_requested", "failed"}
-----------------------------------------------------------------------------
(* Every step is a step of the queue, or leaves it alone. *)

LEMMA LifetimeSteps ==
  ASSUME NEW e \in Executors, Lifetime(e) \/ Stop(e) \/ Crash(e)
  PROVE  RoleStep \/ UNCHANGED vars
  BY DEF Lifetime, Start, Activate, ActivateRefused, Exit, Stop, Crash, RoleStep

LEMMA RoleSteps ==
  ASSUME Drain \/ Resume \/ Lapse \/ LateRenewal
  PROVE  RoleStep
  BY DEF Drain, Resume, Lapse, LateRenewal, RoleStep

LEMMA LoopSteps ==
  ASSUME NEW e \in Executors, Loop(e)
  PROVE  BeginStep \/ QueueStep \/ UNCHANGED vars
  <1>1. CASE Reap(e)
    BY <1>1 DEF Reap, QueueStep
  <1>2. CASE Claim(e)
    <2>1. PICK now \in Readings : BeginClaim(e, proc[e].epoch, now)
      BY <1>2 DEF Claim
    <2>2. activation.epoch = proc[e].epoch
      BY <2>1 DEF BeginClaim, ActiveRole
    <2>. QED BY <2>1, <2>2 DEF BeginStep
  <1>3. CASE \E a \in Attempts : Renew(e, a)
    BY <1>3 DEF Renew, BeginStep
  <1>4. CASE \/ GuardClaim(e) \/ ClaimRefused(e) \/ Wake(e) \/ LoopRaises(e)
             \/ \E a \in Attempts : Collect(e, a) \/ CollectRaised(e, a) \/ NotDue(e, a)
                                    \/ RenewRefused(e, a)
    BY <1>4 DEF GuardClaim, ClaimRefused, Wake, LoopRaises, Collect, CollectRaised, NotDue,
                RenewRefused
  <1>. QED BY <1>1, <1>2, <1>3, <1>4 DEF Loop

LEMMA ThreadSteps ==
  ASSUME WritesKnown, NEW a \in Attempts, Thread(a) \/ Work(a)
  PROVE  BeginStep \/ UNCHANGED vars
  <1>1. CASE BeginCall(a)
    BY <1>1 DEF BeginCall, BeginStep, WritesKnown
  <1>2. CASE \/ CheckRaises(a) \/ CheckErrs(a) \/ CheckPasses(a) \/ CallRefused(a)
             \/ HandleRejection(a) \/ RejectionErrs(a) \/ Work(a)
    BY <1>2 DEF CheckRaises, CheckErrs, CheckPasses, CallRefused, HandleRejection, RejectionErrs,
                Work, HandlerReturns, HandlerRaises, Prepared, PrepareRaises
  <1>. QED BY <1>1, <1>2 DEF Thread

LEMMA DatabaseSteps == Database => WriteStep
  BY DEF Database, WriteStep, Renewed, RenewRaises, Claimed, ClaimedNothing, ClaimRaised,
         CallCommits, OrphanRollback, CallRejected, CallIllegal, CallRaises

LEMMA RequestSteps ==
  ASSUME NEW r \in Runs, Cancel(r) \/ \E q \in Requests : Submit(r, q)
  PROVE  QueueStep
  BY DEF Cancel, Submit, QueueStep

LEMMA ExecStep == WritesKnown /\ [ExecNext]_execVars => [Next]_vars
  <1>. SUFFICES ASSUME WritesKnown, [ExecNext]_execVars PROVE [Next]_vars
    OBVIOUS
  <1>1. CASE \E e \in Executors : Lifetime(e) \/ Loop(e) \/ Stop(e) \/ Crash(e)
    BY <1>1, LifetimeSteps, LoopSteps DEF Next
  <1>2. CASE \E a \in Attempts : Thread(a) \/ Work(a)
    BY <1>2, ThreadSteps DEF Next
  <1>3. CASE Database
    BY <1>3, DatabaseSteps DEF Next
  <1>4. CASE Drain \/ Resume \/ Lapse \/ LateRenewal
    BY <1>4, RoleSteps DEF Next
  <1>5. CASE \E r \in Runs : Cancel(r) \/ \E q \in Requests : Submit(r, q)
    BY <1>5, RequestSteps DEF Next
  <1>6. CASE TimePasses
    BY <1>6 DEF TimePasses, Next
  <1>7. CASE UNCHANGED execVars
    BY <1>7 DEF execVars
  <1>. QED BY <1>1, <1>2, <1>3, <1>4, <1>5, <1>6, <1>7 DEF ExecNext
-----------------------------------------------------------------------------
(* Program points and local values. *)

LEMMA GotoType ==
  ASSUME Workers, NEW a \in Attempts, NEW pc \in WorkerSteps \ {"terminal"}, Goto(a, pc)
  PROVE  Workers'
  BY DEF Workers, Worker, WritesKnown, Goto

LEMMA FailType ==
  ASSUME Workers, NEW a \in Attempts, NEW w \in TerminalWrites, Fail(a, w)
  PROVE  Workers'
  BY DEF Workers, Worker, WorkerSteps, WritesKnown, Fail

LEMMA StepType ==
  ASSUME Processes, NEW e \in Executors, NEW s \in Steps, Step(e, s)
  PROVE  Processes'
  BY DEF Processes, Process, Step

LEMMA LifetimeType ==
  ASSUME TypeOK, Processes, Workers, NEW e \in Executors, Lifetime(e) \/ Stop(e) \/ Crash(e)
  PROVE  Processes' /\ Workers'
  <1>1. Down \in Process
    BY DEF Down, Process, Steps
  <1>2. CASE Start(e)
    BY <1>2, StepType DEF Start, Workers, WritesKnown, Steps
  <1>3. CASE Activate(e)
    <2>1. activation.epoch + 1 \in Nat
      BY DEF TypeOK
    <2>. QED BY <1>3, <2>1 DEF Activate, Processes, Process, Steps, Workers, WritesKnown
  <1>4. CASE ActivateRefused(e) \/ Exit(e)
    BY <1>1, <1>4 DEF ActivateRefused, Exit, Processes, Workers, WritesKnown
  <1>5. CASE Stop(e)
    BY <1>5 DEF Stop, Processes, Process, Workers, WritesKnown
  <1>6. CASE Crash(e)
    <2>1. Processes'
      BY <1>1, <1>6 DEF Crash, Processes
    <2>2. ASSUME NEW a \in Attempts
          PROVE  worker'[a] \in Worker /\ (worker'[a].pc = "terminal" => worker'[a] = worker[a])
      BY <1>6 DEF Crash, Workers, Worker, WorkerSteps
    <2>3. worker' = [a \in Attempts |-> worker'[a]]
      BY <1>6 DEF Crash
    <2>. QED BY <2>1, <2>2, <2>3 DEF Workers, WritesKnown
  <1>. QED BY <1>2, <1>3, <1>4, <1>5, <1>6 DEF Lifetime

LEMMA LoopType ==
  ASSUME Processes, Workers, NEW e \in Executors, Loop(e)
  PROVE  Processes' /\ Workers'
  <1>1. Workers'
    <2>1. UNCHANGED worker
      BY DEF Loop, Reap, GuardClaim, Claim, ClaimRefused, Wake, LoopRaises, Collect,
             CollectRaised, NotDue, Renew, RenewRefused
    <2>. QED BY <2>1 DEF Workers, WritesKnown
  <1>2. CASE GuardClaim(e) \/ Claim(e) \/ ClaimRefused(e) \/ Wake(e) \/ LoopRaises(e)
             \/ \E a \in Attempts : CollectRaised(e, a) \/ Renew(e, a)
    BY <1>1, <1>2, StepType
    DEF GuardClaim, Claim, ClaimRefused, Wake, LoopRaises, CollectRaised, Renew, Steps
  <1>3. CASE Reap(e)
    BY <1>1, <1>3 DEF Reap, Processes, Process, Steps
  <1>4. CASE \E a \in Attempts : Collect(e, a) \/ NotDue(e, a) \/ RenewRefused(e, a)
    BY <1>1, <1>4 DEF Collect, NotDue, RenewRefused, Processes, Process
  <1>. QED BY <1>1, <1>2, <1>3, <1>4 DEF Loop

LEMMA ThreadType ==
  ASSUME Processes, Workers, NEW a \in Attempts, Thread(a) \/ Work(a)
  PROVE  Processes' /\ Workers'
  <1>1. Processes'
    <2>1. UNCHANGED proc
      BY DEF Thread, Work, CheckRaises, CheckErrs, CheckPasses, BeginCall, CallRefused,
             HandleRejection, RejectionErrs, HandlerReturns, HandlerRaises, Prepared, PrepareRaises
    <2>. QED BY <2>1 DEF Processes
  <1>2. {Failed("execution_failed"), Failed("finalization_failed"), TimedOut, Cancelled}
          \subseteq TerminalWrites
    BY DEF Failed, TimedOut, Cancelled, TerminalWrites
  <1>3. CASE CheckRaises(a)
    <2>1. Fail(a, TimedOut) \/ Fail(a, Cancelled) \/ Goto(a, "rejected")
      BY <1>3 DEF CheckRaises
    <2>. QED BY <1>1, <1>2, <2>1, FailType, GotoType DEF WorkerSteps
  <1>4. CASE CheckErrs(a) \/ HandlerRaises(a) \/ PrepareRaises(a)
    <2>1. Fail(a, Failed("execution_failed")) \/ Fail(a, Failed("finalization_failed"))
      BY <1>4 DEF CheckErrs, HandlerRaises, PrepareRaises
    <2>. QED BY <1>1, <1>2, <2>1, FailType
  <1>5. CASE CheckPasses(a)
    <2>1. Goto(a, "handler") \/ Goto(a, "mark") \/ Goto(a, "commit")
      BY <1>5 DEF CheckPasses
    <2>. QED BY <1>1, <2>1, GotoType DEF WorkerSteps
  <1>6. CASE HandlerReturns(a) \/ Prepared(a) \/ BeginCall(a) \/ CallRefused(a) \/ RejectionErrs(a)
    BY <1>1, <1>6, GotoType
    DEF HandlerReturns, Prepared, BeginCall, CallRefused, AfterRejection, RejectionErrs, WorkerSteps
  <1>7. CASE HandleRejection(a)
    BY <1>1, <1>2, <1>7, FailType, GotoType DEF HandleRejection, WorkerSteps
  <1>. QED BY <1>3, <1>4, <1>5, <1>6, <1>7 DEF Thread, Work

LEMMA DatabaseType ==
  ASSUME TypeOK, Processes, Workers, Calls, Database
  PROVE  Processes' /\ Workers'
  <1>1. ASSUME NEW b \in beats, Renewed(b) \/ RenewRaises(b)
        PROVE  Processes' /\ Workers'
    <2>1. UNCHANGED worker /\ proc' = [e \in Executors |-> proc'[e]]
      BY <1>1 DEF Renewed, RenewRaises
    <2>2. ASSUME NEW e \in Executors PROVE proc'[e] \in Process
      <3>1. proc[e] \in Process
        BY DEF Processes
      <3>2. \/ proc'[e] = proc[e]
            \/ proc'[e] = [proc[e] EXCEPT !.step = "beat", !.todo = @ \ {b.attempt}]
            \/ proc'[e] = [proc[e] EXCEPT !.step = "unwinding"]
        BY <1>1 DEF Renewed, RenewRaises
      <3>. QED BY <3>1, <3>2 DEF Process, Steps
    <2>. QED BY <2>1, <2>2 DEF Processes, Workers, WritesKnown
  <1>2. ASSUME NEW r \in Runs, NEW a \in Attempts, Claimed(r, a)
        PROVE  Processes' /\ Workers'
    <2>1. Workers'
      <3>1. Goto(a, "check1") \/ Goto(a, "killed")
        BY <1>2 DEF Claimed, Goto
      <3>. QED BY <3>1, GotoType DEF WorkerSteps
    <2>2. Processes'
      BY <1>2 DEF Claimed, Processes, Process, Steps
    <2>. QED BY <2>1, <2>2
  <1>3. CASE ClaimedNothing \/ ClaimRaised
    BY <1>3 DEF ClaimedNothing, ClaimRaised, Processes, Process, Steps, Workers, WritesKnown
  <1>4. CASE CallCommits
    <2>1. ASSUME NEW a \in Attempts
          PROVE  worker'[a] \in Worker /\ (worker'[a].pc = "terminal" => worker'[a] = worker[a])
      BY <1>4 DEF CallCommits, Workers, Worker, WorkerSteps
    <2>2. worker' = [a \in Attempts |-> worker'[a]]
      BY <1>4 DEF CallCommits
    <2>3. UNCHANGED proc
      BY <1>4 DEF CallCommits
    <2>. QED BY <2>1, <2>2, <2>3 DEF Processes, Workers, WritesKnown
  <1>5. CASE OrphanRollback
    BY <1>5 DEF OrphanRollback, Processes, Workers, WritesKnown
  <1>6. ASSUME NEW a \in Attempts, CallRejected(a) \/ CallIllegal(a) \/ CallRaises(a)
        PROVE  Processes' /\ Workers'
    <2>1. Processes'
      BY <1>6 DEF CallRejected, CallIllegal, CallRaises, Processes
    <2>2. \/ Goto(a, "done") \/ Goto(a, "rejected") \/ Goto(a, "raised")
          \/ Fail(a, Failed("execution_failed")) \/ Fail(a, Failed("finalization_failed"))
      <3>1. CASE CallRejected(a) \/ CallIllegal(a)
        BY <1>6, <3>1 DEF CallRejected, AfterRejection, CallIllegal
      <3>2. CASE CallRaises(a)
        <4>1. txn.op \in {"finalize", "succeed", "fail"}
          BY <3>2 DEF CallRaises, Suspended, Calls
        <4>. QED BY <3>2, <4>1 DEF CallRaises
      <3>. QED BY <1>6, <3>1, <3>2
    <2>3. {Failed("execution_failed"), Failed("finalization_failed")} \subseteq TerminalWrites
      BY DEF Failed, TerminalWrites
    <2>. QED BY <2>1, <2>2, <2>3, FailType, GotoType DEF WorkerSteps
  <1>. QED BY <1>1, <1>2, <1>3, <1>4, <1>5, <1>6 DEF Database

LEMMA ExecNextType ==
  ASSUME TypeOK, Processes, Workers, Calls, [ExecNext]_execVars
  PROVE  Processes' /\ Workers'
  <1>1. CASE \E e \in Executors : Lifetime(e) \/ Loop(e) \/ Stop(e) \/ Crash(e)
    BY <1>1, LifetimeType, LoopType
  <1>2. CASE \E a \in Attempts : Thread(a) \/ Work(a)
    BY <1>2, ThreadType
  <1>3. CASE Database
    BY <1>3, DatabaseType
  <1>4. CASE Drain \/ Resume \/ Lapse \/ LateRenewal \/ UNCHANGED execVars
             \/ \E r \in Runs : Cancel(r) \/ \E q \in Requests : Submit(r, q)
    BY <1>4 DEF Drain, Resume, Lapse, LateRenewal, Cancel, Submit, execVars, Processes, Workers,
                WritesKnown
  <1>5. CASE TimePasses
    BY <1>5 DEF TimePasses, Processes, Process, Steps, Workers, WritesKnown
  <1>. QED BY <1>1, <1>2, <1>3, <1>4, <1>5 DEF ExecNext

-----------------------------------------------------------------------------
(* The threads and the rows they work on. *)

Threads == Calls /\ Unclaimed /\ Agree

\* The queue ends or disturbs Attempts, whoever works for them.
Quiet == \A a \in Attempts : attempts'[a].state \in {attempts[a].state, "cancel_requested", "failed"}

LEMMA ExpiredQuiet ==
  ASSUME TypeOK, NEW now, NEW lost, ReapExpiredLeases(now, lost)
  PROVE  Quiet
  BY DEF ReapExpiredLeases, Quiet, TypeOK, AttemptRecord

LEMMA CancelQuiet ==
  ASSUME TypeOK, NEW r \in Runs, RequestCancel(r)
  PROVE  Quiet
  BY DEF RequestCancel, MoveBoth, Quiet, TypeOK, AttemptRecord

LEMMA HeartbeatQuiet ==
  ASSUME TypeOK, NEW b \in beats, Heartbeat(b) \/ HeartbeatRejected(b)
  PROVE  Quiet
  <1>1. ASSUME NEW a \in Attempts PROVE attempts'[a].state = attempts[a].state
    <2>1. attempts \in [Attempts -> AttemptRecord]
      BY DEF TypeOK
    <2>2. CASE Heartbeat(b)
      <3>. DEFINE t == Earliest(b.now + LeaseSeconds, attempts[b.attempt].deadline)
      <3>1. attempts' = [attempts EXCEPT ![b.attempt].lease = t]
        BY <2>2 DEF Heartbeat
      <3>. HIDE DEF t
      <3>. QED BY <2>1, <3>1 DEF AttemptRecord
    <2>3. CASE HeartbeatRejected(b)
      BY <2>3 DEF HeartbeatRejected, tables
    <2>. QED BY <2>2, <2>3
  <1>. QED BY <1>1 DEF Quiet

\* What the other parties do leaves the threads where they are.
LEMMA QuietKeeps ==
  ASSUME Threads, Quiet, UNCHANGED <<txn, worker>>
  PROVE  Threads'
  <1>1. Calls'
    BY DEF Threads, Calls
  <1>2. Unclaimed'
    BY DEF Threads, Unclaimed, Quiet
  <1>3. Agree'
    BY DEF Threads, Agree, Quiet
  <1>. QED BY <1>1, <1>2, <1>3 DEF Threads

\* A thread moves on its own, outside a transaction.
OwnMoves(a) ==
    /\ UNCHANGED <<attempts, txn>>
    /\ \A b \in Attempts \ {a} : worker'[b] = worker[b]
    /\ worker[a].pc \notin {"none", "killed", "marking", "committing", "terminating"}
    /\ worker'[a].pc \in Before => worker[a].pc \in Before
    /\ worker'[a].pc \in After => worker[a].pc \in After

LEMMA OwnMovesKeeps ==
  ASSUME Threads, NEW a \in Attempts, OwnMoves(a)
  PROVE  Threads'
  BY DEF Threads, Calls, Unclaimed, Agree, OwnMoves

\* A transaction ends without a write.
EndOfCall(a) ==
    /\ UNCHANGED attempts
    /\ txn' = NoTxn
    /\ \A b \in Attempts \ {a} : worker'[b] = worker[b]
    /\ worker[a].pc \notin {"none", "killed"}
    /\ worker'[a].pc \notin Before \cup After

LEMMA EndOfCallKeeps ==
  ASSUME Threads, NEW a \in Attempts, EndOfCall(a)
  PROVE  Threads'
  BY ConstantsAssumption DEF Threads, Calls, Unclaimed, Agree, EndOfCall, NoTxn

\* The steps of processes and requests that no thread waits for.
LEMMA OthersKeep ==
  ASSUME IInv, Threads,
         \/ \E e \in Executors : Lifetime(e) \/ Loop(e) \/ Stop(e)
         \/ Drain \/ Resume \/ Lapse \/ LateRenewal \/ TimePasses
         \/ \E r \in Runs : Cancel(r) \/ \E q \in Requests : Submit(r, q)
         \/ \E b \in beats : Renewed(b) \/ RenewRaises(b)
  PROVE  Threads'
  <1>1. ASSUME NEW e \in Executors, Lifetime(e) \/ Stop(e) PROVE Threads'
    <2>1. UNCHANGED <<attempts, txn, worker>>
      BY <1>1 DEF Lifetime, Start, Activate, ActivateRefused, Exit, Stop, RoleActivate, RoleFrame,
                  ActivateRole, RoleRelease, RoleDrain, tables, vars
    <2>. QED BY <2>1, QuietKeeps DEF Quiet
  <1>2. ASSUME NEW e \in Executors, Loop(e) PROVE Threads'
    <2>1. CASE Reap(e)
      <3>1. UNCHANGED <<txn, worker>>
        BY <2>1 DEF Reap, ReapExpiredLeases, vars
      <3>2. Quiet
        BY <2>1, ExpiredQuiet DEF Reap, vars, Quiet, IInv
      <3>. QED BY <3>1, <3>2, QuietKeeps
    <2>2. CASE Claim(e)
      <3>1. UNCHANGED <<attempts, worker>> /\ txn'.attempt = NoAttempt
        BY <2>2 DEF Claim, BeginClaim, NoTxn, tables
      <3>. QED BY <3>1, ConstantsAssumption DEF Threads, Calls, Unclaimed, Agree
    <2>3. CASE \/ GuardClaim(e) \/ ClaimRefused(e) \/ Wake(e) \/ LoopRaises(e)
               \/ \E a \in Attempts : Collect(e, a) \/ CollectRaised(e, a) \/ NotDue(e, a)
                                      \/ RenewRefused(e, a) \/ Renew(e, a)
      <3>1. UNCHANGED <<attempts, txn, worker>>
        BY <2>3 DEF GuardClaim, ClaimRefused, Wake, LoopRaises, Collect, CollectRaised, NotDue,
                    RenewRefused, Renew, BeginHeartbeat, tables, vars
      <3>. QED BY <3>1, QuietKeeps DEF Quiet
    <2>. QED BY <1>2, <2>1, <2>2, <2>3 DEF Loop
  <1>3. CASE Drain \/ Resume \/ Lapse \/ LateRenewal \/ TimePasses
    <2>1. UNCHANGED <<attempts, txn, worker>>
      BY <1>3 DEF Drain, Resume, Lapse, LateRenewal, TimePasses, RoleDrain, RoleResume, RoleExpire,
                  RoleLateRenewal, RoleFrame, Tick, tables
    <2>. QED BY <2>1, QuietKeeps DEF Quiet
  <1>4. CASE \E r \in Runs : Cancel(r) \/ \E q \in Requests : Submit(r, q)
    <2>1. UNCHANGED <<txn, worker>>
      BY <1>4 DEF Cancel, RequestCancel, Submit, Admit
    <2>2. Quiet
      BY <1>4, CancelQuiet DEF Cancel, Submit, Admit, Quiet, IInv
    <2>. QED BY <2>1, <2>2, QuietKeeps
  <1>5. ASSUME NEW b \in beats, Renewed(b) \/ RenewRaises(b) PROVE Threads'
    <2>1. UNCHANGED <<txn, worker>> /\ (Heartbeat(b) \/ HeartbeatRejected(b))
      BY <1>5 DEF Renewed, RenewRaises, Heartbeat, HeartbeatRejected
    <2>. QED BY <2>1, HeartbeatQuiet, QuietKeeps DEF IInv
  <1>. QED BY <1>1, <1>2, <1>3, <1>4, <1>5

\* A crash takes the threads of the process, also out of their transactions.
LEMMA CrashKeeps ==
  ASSUME Threads, NEW e \in Executors, Crash(e)
  PROVE  Threads'
  <1>1. UNCHANGED <<attempts, txn>>
    BY DEF Crash, vars
  <1>2. \A a \in Attempts : worker'[a].pc \in {worker[a].pc, "killed"}
    BY DEF Crash
  <1>. QED BY <1>1, <1>2 DEF Threads, Calls, Unclaimed, Agree, Before, After

LEMMA BeginWriteTxn ==
  ASSUME NEW op, NEW a, NEW w, NEW now, BeginWrite(op, a, w, now)
  PROVE  UNCHANGED attempts /\ txn'.op = op /\ txn'.attempt = a
  BY DEF BeginWrite, NoTxn, tables

LEMMA ThreadKeeps ==
  ASSUME Workers, Threads, NEW a \in Attempts, Thread(a) \/ Work(a)
  PROVE  Threads'
  <1>. USE DEF Workers, Worker
  <1>1. CASE CheckRaises(a)
    <2>1. worker[a].pc \in {"check1", "handler", "check2", "prepare", "check3"}
      BY <1>1 DEF CheckRaises
    <2>2. UNCHANGED vars /\ (Fail(a, TimedOut) \/ Fail(a, Cancelled) \/ Goto(a, "rejected"))
      BY <1>1 DEF CheckRaises
    <2>3. OwnMoves(a)
      BY <2>1, <2>2 DEF OwnMoves, Fail, Goto, vars, Before, After
    <2>. QED BY <2>3, OwnMovesKeeps
  <1>2. CASE CheckErrs(a) \/ HandlerRaises(a) \/ PrepareRaises(a) \/ HandleRejection(a) \/ RejectionErrs(a)
    <2>1. OwnMoves(a)
      BY <1>2 DEF CheckErrs, HandlerRaises, PrepareRaises, HandleRejection, RejectionErrs,
                  OwnMoves, Fail, Goto, vars, Before, After
    <2>. QED BY <2>1, OwnMovesKeeps
  <1>3. CASE CheckPasses(a)
    <2>1. UNCHANGED vars
          /\ \/ worker[a].pc = "check1" /\ Goto(a, "handler")
             \/ worker[a].pc = "check2" /\ Goto(a, "mark")
             \/ worker[a].pc = "check3" /\ Goto(a, "commit")
      BY <1>3 DEF CheckPasses
    <2>2. OwnMoves(a)
      BY <2>1 DEF OwnMoves, Goto, vars, Before, After
    <2>. QED BY <2>2, OwnMovesKeeps
  <1>4. CASE HandlerReturns(a) \/ Prepared(a) \/ CallRefused(a)
    <2>1. OwnMoves(a)
      BY <1>4 DEF HandlerReturns, Prepared, CallRefused, AfterRejection, OwnMoves, Goto, vars,
                  Before, After
    <2>. QED BY <2>1, OwnMovesKeeps
  <1>5. CASE BeginCall(a)
    <2>1. /\ UNCHANGED attempts
          /\ txn'.attempt = a
          /\ \A b \in Attempts \ {a} : worker'[b] = worker[b]
          /\ \/ txn'.op = "finalize" /\ worker[a].pc = "mark" /\ worker'[a].pc = "marking"
             \/ txn'.op = "succeed" /\ worker[a].pc = "commit" /\ worker'[a].pc = "committing"
             \/ txn'.op = "fail" /\ worker[a].pc = "terminal" /\ worker'[a].pc = "terminating"
      <3>1. PICK now \in Readings :
              \/ worker[a].pc = "mark" /\ Goto(a, "marking") /\ BeginWrite("finalize", a, NoWrite, now)
              \/ worker[a].pc = "commit" /\ Goto(a, "committing") /\ BeginWrite("succeed", a, NoWrite, now)
              \/ /\ worker[a].pc = "terminal" /\ Goto(a, "terminating")
                 /\ BeginWrite("fail", a, worker[a].write, now)
        BY <1>5 DEF BeginCall
      <3>2. UNCHANGED attempts /\ txn'.attempt = a
        BY <3>1, BeginWriteTxn
      <3>3. \/ worker[a].pc = "mark" /\ Goto(a, "marking") /\ txn'.op = "finalize"
            \/ worker[a].pc = "commit" /\ Goto(a, "committing") /\ txn'.op = "succeed"
            \/ worker[a].pc = "terminal" /\ Goto(a, "terminating") /\ txn'.op = "fail"
        BY <3>1, BeginWriteTxn
      <3>. QED BY <3>2, <3>3 DEF Goto
    <2>. QED BY <2>1 DEF Threads, Calls, Unclaimed, Agree, Before, After
  <1>. QED BY <1>1, <1>2, <1>3, <1>4, <1>5 DEF Thread, Work

LEMMA ClaimKeeps ==
  ASSUME IInv, Workers, Threads,
         ClaimedNothing \/ ClaimRaised \/ \E r \in Runs, a \in Attempts : Claimed(r, a)
  PROVE  Threads'
  <1>1. CASE ClaimedNothing \/ ClaimRaised
    <2>1. UNCHANGED <<attempts, worker>> /\ txn' = NoTxn
      BY <1>1 DEF ClaimedNothing, ClaimRaised, Rollback, Unlock, tables
    <2>. QED BY <2>1, ConstantsAssumption DEF NoTxn, Threads, Calls, Unclaimed, Agree
  <1>2. ASSUME NEW r \in Runs, NEW a \in Attempts, Claimed(r, a) PROVE Threads'
    <2>1. /\ ClaimNext(r, a)
          /\ attempts \in [Attempts -> AttemptRecord] /\ worker \in [Attempts -> Worker]
      BY <1>2 DEF Claimed, IInv, TypeOK, Workers
    <2>2. PICK x : x.state = "running" /\ attempts' = [attempts EXCEPT ![a] = x]
      BY <2>1 DEF ClaimNext
    <2>3. txn' = NoTxn /\ attempts'[a].state = "running"
      BY <2>1, <2>2 DEF ClaimNext, Unlock
    <2>4. \A b \in Attempts \ {a} : worker'[b] = worker[b]
      BY <1>2, <2>1 DEF Claimed
    <2>5. \A b \in Attempts \ {a} : attempts'[b] = attempts[b]
      BY <2>1, <2>2
    <2>6. worker'[a].pc \in {"check1", "killed"}
      BY <1>2 DEF Claimed, Workers, Worker
    <2>. QED BY <2>3, <2>4, <2>5, <2>6, ConstantsAssumption
         DEF NoTxn, Threads, Calls, Unclaimed, Agree, Before, After
  <1>. QED BY <1>1, <1>2

LEMMA CommitKeeps ==
  ASSUME IInv, Workers, Threads, CallCommits
  PROVE  Threads'
  <1>. DEFINE a == txn.attempt
  <1>1. a \in Attempts /\ txn.op \in {"finalize", "succeed", "fail"}
    BY DEF CallCommits, MarkFinalizing, CommitSuccess, CommitTerminalFailure, IInv, TxnOwnsRow
  <1>2. txn' = NoTxn /\ \A b \in Attempts \ {a} : attempts'[b] = attempts[b]
    BY DEF CallCommits, MarkFinalizing, CommitSuccess, CommitTerminalFailure, Unlock, MoveBoth,
           IInv, TypeOK
  <1>3. attempts'[a].state # "absent" /\ (txn.op = "finalize" => attempts'[a].state = "finalizing")
    <2>0. attempts \in [Attempts -> AttemptRecord]
      BY DEF IInv, TypeOK
    <2>1. CASE MarkFinalizing
      <3>1. attempts' = [attempts EXCEPT ![a].state = "finalizing"]
        BY <2>1 DEF MarkFinalizing, MoveBoth
      <3>. QED BY <1>1, <2>0, <3>1 DEF AttemptRecord
    <2>3. CASE CommitSuccess
      <3>1. attempts' = [attempts EXCEPT ![a].state = "succeeded"] /\ txn.op = "succeed"
        BY <2>3 DEF CommitSuccess
      <3>. QED BY <1>1, <2>0, <3>1 DEF AttemptRecord
    <2>2. CASE CommitTerminalFailure
      <3>1. txn.write.target # "absent" /\ txn.op = "fail"
        BY <2>2 DEF CommitTerminalFailure, IInv, TxnOwnsRow, TerminalWrites
      <3>2. attempts'[a].state = txn.write.target
        BY <1>1, <2>2 DEF CommitTerminalFailure, MoveBoth, IInv, TypeOK, AttemptRecord
      <3>. QED BY <3>1, <3>2
    <2>. QED BY <2>1, <2>2, <2>3 DEF CallCommits
  <1>4. \A b \in Attempts \ {a} : worker'[b] = worker[b]
    BY DEF CallCommits, Suspended
  <1>5. IF Suspended(a) THEN worker'[a].pc = IF txn.op = "finalize" THEN "prepare" ELSE "done"
        ELSE worker'[a] = worker[a]
    BY <1>1 DEF CallCommits, Workers, Worker
  <1>6. ~Suspended(a) => worker[a].pc = "killed"
    BY <1>1 DEF Suspended, Threads, Calls
  <1>. HIDE DEF a
  <1>7. Calls'
    BY <1>2, ConstantsAssumption DEF NoTxn, Calls
  <1>8. Unclaimed'
    BY <1>1, <1>2, <1>3, <1>4 DEF Threads, Unclaimed
  <1>9. Agree'
    BY <1>1, <1>2, <1>3, <1>4, <1>5, <1>6 DEF Threads, Agree, Before, After
  <1>. QED BY <1>7, <1>8, <1>9 DEF Threads

LEMMA AbortKeeps ==
  ASSUME Workers, Threads,
         OrphanRollback \/ \E a \in Attempts : CallRejected(a) \/ CallIllegal(a) \/ CallRaises(a)
  PROVE  Threads'
  <1>1. CASE OrphanRollback
    <2>1. UNCHANGED <<attempts, worker>> /\ txn' = NoTxn
      BY <1>1 DEF OrphanRollback, Rollback, Unlock, tables
    <2>. QED BY <2>1, ConstantsAssumption DEF NoTxn, Threads, Calls, Unclaimed, Agree
  <1>2. ASSUME NEW a \in Attempts, CallRejected(a) \/ CallIllegal(a) \/ CallRaises(a)
        PROVE  Threads'
    <2>1. Suspended(a) /\ UNCHANGED attempts /\ txn' = NoTxn
      BY <1>2 DEF CallRejected, CallIllegal, CallRaises, Rollback, Unlock, tables
    <2>2. \/ Goto(a, "done") \/ Goto(a, "rejected") \/ Goto(a, "raised")
          \/ Fail(a, Failed("execution_failed")) \/ Fail(a, Failed("finalization_failed"))
      <3>1. CASE CallRejected(a) \/ CallIllegal(a)
        BY <3>1 DEF CallRejected, AfterRejection, CallIllegal
      <3>2. CASE CallRaises(a)
        <4>1. txn.op \in {"finalize", "succeed", "fail"}
          BY <2>1 DEF Suspended, Threads, Calls
        <4>. QED BY <3>2, <4>1 DEF CallRaises
      <3>. QED BY <1>2, <3>1, <3>2
    <2>3. EndOfCall(a)
      BY <2>1, <2>2 DEF EndOfCall, Suspended, Goto, Fail, Workers, Worker, Before, After
    <2>. QED BY <2>3, EndOfCallKeeps
  <1>. QED BY <1>1, <1>2

LEMMA ExecNextThreads ==
  ASSUME IInv, Workers, Threads, [ExecNext]_execVars
  PROVE  Threads'
  <1>1. CASE Database
    BY <1>1, OthersKeep, ClaimKeeps, CommitKeeps, AbortKeeps DEF Database
  <1>2. CASE UNCHANGED execVars
    BY <1>2, QuietKeeps DEF execVars, vars, Quiet
  <1>. QED BY <1>1, <1>2, OthersKeep, CrashKeeps, ThreadKeeps DEF ExecNext
-----------------------------------------------------------------------------
(* The processes and the threads they hold. *)

HeldBy(e) ==
    /\ IsFiniteSet(proc[e].held)
    /\ Cardinality(proc[e].held) <= Concurrency
    /\ proc[e].step \in {"claim", "claiming"} => Cardinality(proc[e].held) < Concurrency
    /\ proc[e].step \in {"down", "starting"} => proc[e].held = {}
    /\ \A a \in proc[e].held : attempts[a].run \in Runs
    /\ \A f \in Executors \ {e} : proc[e].held \cap proc[f].held = {}

Holding ==
    /\ \A e \in Executors : HeldBy(e)
    /\ \A a \in Attempts : worker[a].pc \notin Finished => \E e \in Executors : a \in proc[e].held
    /\ txn.op = "claim" => txn.executor \in Executors

\* An Attempt stays with its Run, and a transaction that claims is an executor's.
LEMMA RowsKept ==
  ASSUME IInv, [Next]_vars
  PROVE  \A a \in Attempts : attempts[a].run \in Runs => attempts'[a].run \in Runs
  <1>1. ASSUME NEW r \in Runs, NEW a \in Attempts, ClaimNext(r, a)
        PROVE  \A b \in Attempts : attempts[b].run \in Runs => attempts'[b].run \in Runs
    <2>1. /\ attempts[a].state = "absent"
          /\ \A b \in Attempts : b # a => attempts'[b] = attempts[b]
      BY <1>1, ClaimNextMoves
    <2>. QED BY <2>1 DEF IInv, RunAttemptAgreement
  <1>2. ASSUME NEW r \in Runs, NEW q \in Requests, NEW seen \in Nat, Admit(r, q, seen)
        PROVE  UNCHANGED attempts
    BY <1>2 DEF Admit
  <1>. QED BY <1>1, <1>2, NextMoves DEF AttemptsEnd

LEMMA ClaimsKept ==
  ASSUME Holding, [Next]_vars
  PROVE  txn'.op = "claim" => txn'.executor \in Executors
  <1>1. CASE RoleStep \/ QueueStep \/ Tick \/ UNCHANGED vars
    <2>1. UNCHANGED txn
      BY <1>1 DEF RoleStep, RoleActivate, ActivateRole, RoleDrain, RoleResume, RoleExpire,
                  RoleLateRenewal, RoleRelease, RoleFrame, QueueStep, Admit, RequestCancel,
                  ReapExpiredLeases, Tick, vars
    <2>. QED BY <2>1 DEF Holding
  <1>2. CASE WriteStep
    <2>1. UNCHANGED txn \/ txn' = NoTxn
      BY <1>2 DEF WriteStep, ClaimNext, MarkFinalizing, CommitTerminalFailure, CommitSuccess,
                  Rollback, Heartbeat, HeartbeatRejected, Unlock
    <2>. QED BY <2>1 DEF Holding, NoTxn
  <1>3. CASE BeginStep
    <2>1. ASSUME NEW now \in Readings, NEW e \in Executors, BeginClaim(e, activation.epoch, now)
          PROVE  txn'.executor \in Executors
      BY <2>1 DEF BeginClaim, NoTxn
    <2>2. ASSUME NEW op \in {"finalize", "succeed", "fail"}, NEW a, NEW w, NEW now,
                 BeginWrite(op, a, w, now)
          PROVE  txn'.op # "claim"
      BY <2>2, BeginWriteTxn
    <2>3. ASSUME NEW a, NEW now, BeginHeartbeat(a, now)
          PROVE  UNCHANGED txn
      BY <2>3 DEF BeginHeartbeat
    <2>. QED BY <1>3, <2>1, <2>2, <2>3 DEF BeginStep, Holding
  <1>. QED BY <1>1, <1>2, <1>3 DEF Next

\* A process takes on no thread, and a thread that runs on stays with it.
Keeps(e) ==
    /\ proc'[e].held \subseteq proc[e].held
    /\ proc'[e].step \in {"claim", "claiming"} => Cardinality(proc[e].held) < Concurrency
    /\ proc'[e].step \in {"down", "starting"} => proc'[e].held = {}

Kept(a) ==
    worker'[a].pc \notin Finished =>
      /\ worker[a].pc \notin Finished
      /\ \A e \in Executors : a \in proc[e].held => a \in proc'[e].held

Orderly == /\ \A e \in Executors : Keeps(e)
           /\ \A a \in Attempts : Kept(a)

LEMMA OrderlyKeeps ==
  ASSUME IInv, Processes, Holding, [Next]_vars, Orderly
  PROVE  Holding'
  <1>1. ASSUME NEW e \in Executors PROVE HeldBy(e)'
    <2>1. /\ IsFiniteSet(proc'[e].held)
          /\ Cardinality(proc'[e].held) <= Cardinality(proc[e].held)
          /\ Cardinality(proc'[e].held) \in Nat /\ Cardinality(proc[e].held) \in Nat
      BY FS_Subset, FS_CardinalityType DEF Orderly, Keeps, Holding, HeldBy
    <2>2. Cardinality(proc'[e].held) <= Concurrency
      BY <2>1, ExecutorAssumption DEF Holding, HeldBy
    <2>3. proc'[e].step \in {"claim", "claiming"} => Cardinality(proc'[e].held) < Concurrency
      BY <2>1, ExecutorAssumption DEF Orderly, Keeps
    <2>4. \A a \in proc'[e].held : attempts'[a].run \in Runs
      BY RowsKept DEF Orderly, Keeps, Holding, HeldBy, Processes, Process
    <2>5. \A f \in Executors \ {e} : proc'[e].held \cap proc'[f].held = {}
      BY DEF Orderly, Keeps, Holding, HeldBy
    <2>. QED BY <2>1, <2>2, <2>3, <2>4, <2>5 DEF Orderly, Keeps, HeldBy
  <1>2. \A a \in Attempts : worker'[a].pc \notin Finished => \E e \in Executors : a \in proc'[e].held
    BY DEF Orderly, Kept, Holding
  <1>. QED BY <1>1, <1>2, ClaimsKept DEF Holding

\* Only the executor whose loop waits for the claim takes the new thread.
LEMMA ClaimedKeeps ==
  ASSUME IInv, Processes, Workers, Holding, [Next]_vars, NEW r \in Runs, NEW a \in Attempts,
         Claimed(r, a)
  PROVE  Holding'
  <1>. DEFINE x == txn.executor
  <1>1. /\ ClaimNext(r, a) /\ x \in Executors
        /\ attempts \in [Attempts -> AttemptRecord] /\ worker \in [Attempts -> Worker]
    BY DEF Claimed, ClaimNext, Holding, IInv, TypeOK, Workers
  <1>2. attempts[a].run \notin Runs /\ attempts'[a].run = r
    <2>1. PICK row : row.run = r /\ attempts' = [attempts EXCEPT ![a] = row]
      BY <1>1 DEF ClaimNext
    <2>. QED BY <1>1, <2>1 DEF ClaimNext, IInv, RunAttemptAgreement
  <1>3. /\ \A b \in Attempts \ {a} : worker'[b] = worker[b]
        /\ worker'[a].pc = IF Claiming(x) THEN "check1" ELSE "killed"
    BY <1>1 DEF Claimed, Worker
  <1>4. /\ \A e \in Executors \ {x} : proc'[e] = proc[e]
        /\ ~Claiming(x) => proc'[x] = proc[x]
        /\ Claiming(x) => proc'[x].step = "guard" /\ proc'[x].held = proc[x].held \cup {a}
    BY <1>1 DEF Claimed, Claiming, Processes, Process
  <1>. HIDE DEF x
  <1>5. ASSUME NEW e \in Executors, proc'[e] = proc[e]
        PROVE  /\ IsFiniteSet(proc'[e].held)
               /\ Cardinality(proc'[e].held) <= Concurrency
               /\ proc'[e].step \in {"claim", "claiming"} => Cardinality(proc'[e].held) < Concurrency
               /\ proc'[e].step \in {"down", "starting"} => proc'[e].held = {}
    BY <1>5 DEF Holding, HeldBy
  <1>6. CASE Claiming(x)
    <2>1. a \notin proc[x].held /\ Cardinality(proc[x].held) < Concurrency
      BY <1>1, <1>2, <1>6 DEF Holding, HeldBy, Claiming
    <2>2. IsFiniteSet(proc'[x].held) /\ Cardinality(proc'[x].held) = Cardinality(proc[x].held) + 1
      BY <1>1, <1>4, <1>6, <2>1, FS_AddElement DEF Holding, HeldBy
    <2>3. Cardinality(proc[x].held) \in Nat
      BY <1>1, FS_CardinalityType DEF Holding, HeldBy
    <2>4. Cardinality(proc'[x].held) <= Concurrency
      BY <2>1, <2>2, <2>3, ExecutorAssumption
    <2>5. \A e \in Executors : \A b \in proc'[e].held : attempts'[b].run \in Runs
      BY <1>1, <1>2, <1>4, <1>6, RowsKept DEF Holding, HeldBy, Processes, Process
    <2>6. \A e \in Executors : a \notin proc[e].held
      BY <1>2 DEF Holding, HeldBy
    <2>7. \A e, f \in Executors : e # f => proc'[e].held \cap proc'[f].held = {}
      BY <1>1, <1>4, <1>6, <2>6 DEF Holding, HeldBy
    <2>8. \A e \in Executors : HeldBy(e)'
      BY <1>4, <1>5, <1>6, <2>2, <2>4, <2>5, <2>7 DEF HeldBy
    <2>9. \A b \in Attempts : worker'[b].pc \notin Finished => \E e \in Executors : b \in proc'[e].held
      BY <1>1, <1>3, <1>4, <1>6 DEF Holding
    <2>. QED BY <2>8, <2>9, ClaimsKept DEF Holding
  <1>7. CASE ~Claiming(x)
    <2>1. \A e \in Executors : proc'[e] = proc[e]
      BY <1>4, <1>7
    <2>2. \A e \in Executors : HeldBy(e)'
      BY <1>5, <2>1, RowsKept DEF Holding, HeldBy, Processes, Process
    <2>3. \A b \in Attempts : worker'[b].pc \notin Finished => \E e \in Executors : b \in proc'[e].held
      BY <1>3, <1>7, <2>1 DEF Holding, Finished
    <2>. QED BY <2>2, <2>3, ClaimsKept DEF Holding
  <1>. QED BY <1>6, <1>7

\* Everything but a claim is orderly.
LEMMA LifetimeOrderly ==
  ASSUME Processes, Workers, Holding, NEW e \in Executors, Lifetime(e) \/ Stop(e) \/ Crash(e)
  PROVE  Orderly
  <1>. USE DEF Processes, Process, Holding, HeldBy, Orderly, Keeps, Kept
  <1>1. CASE Start(e)
    BY <1>1 DEF Start, Step
  <1>2. CASE Activate(e)
    BY <1>2 DEF Activate
  <1>3. CASE ActivateRefused(e)
    BY <1>3 DEF ActivateRefused, Down
  <1>4. CASE Exit(e)
    BY <1>4 DEF Exit, Down
  <1>5. CASE Stop(e)
    BY <1>5 DEF Stop, Looping
  <1>6. CASE Crash(e)
    BY <1>6 DEF Crash, Down, Workers, Worker, Finished
  <1>. QED BY <1>1, <1>2, <1>3, <1>4, <1>5, <1>6 DEF Lifetime

LEMMA LoopOrderly ==
  ASSUME Processes, Holding, NEW e \in Executors, Loop(e)
  PROVE  Orderly
  <1>. USE DEF Processes, Process, Holding, HeldBy, Orderly, Keeps, Kept
  <1>1. CASE Reap(e)
    BY <1>1 DEF Reap
  <1>2. CASE GuardClaim(e)
    BY <1>2 DEF GuardClaim, MayClaim, Step
  <1>3. CASE Claim(e) \/ ClaimRefused(e) \/ Wake(e) \/ LoopRaises(e)
    <2>1. /\ UNCHANGED worker
          /\ \/ proc[e].step = "claim" /\ Step(e, "claiming")
             \/ Step(e, "reap") \/ Step(e, "unwinding")
      BY <1>3 DEF Claim, ClaimRefused, Wake, LoopRaises
    <2>2. \A f \in Executors \ {e} : proc'[f] = proc[f] /\ proc'[f].held = proc[f].held
                                                        /\ proc'[f].step = proc[f].step
      BY <2>1 DEF Step
    <2>3. proc'[e].held = proc[e].held /\ proc'[e].step \in {"claiming", "reap", "unwinding"}
      BY <2>1 DEF Step
    <2>4. proc'[e].step = "claiming" => proc[e].step = "claim"
      BY <2>1 DEF Step
    <2>5. Keeps(e)
      BY <2>3, <2>4
    <2>6. \A f \in Executors \ {e} : Keeps(f)
      BY <2>2
    <2>7. \A a \in Attempts : Kept(a)
      <3>1. \A f \in Executors : proc'[f].held = proc[f].held
        BY <2>2, <2>3
      <3>. QED BY <2>1, <3>1
    <2>. QED BY <2>5, <2>6, <2>7 DEF Orderly
  <1>4. ASSUME NEW a \in Attempts, Collect(e, a) PROVE Orderly
    BY <1>4 DEF Collect, Finished
  <1>5. CASE \E a \in Attempts : CollectRaised(e, a) \/ NotDue(e, a) \/ Renew(e, a) \/ RenewRefused(e, a)
    BY <1>5 DEF CollectRaised, NotDue, Renew, RenewRefused, Step
  <1>. QED BY <1>1, <1>2, <1>3, <1>4, <1>5 DEF Loop

\* A thread's own steps and the ends of its transactions.
LEMMA ThreadOrderly ==
  ASSUME Processes, Workers, Holding, Calls, NEW a \in Attempts,
         Thread(a) \/ Work(a) \/ CallRejected(a) \/ CallIllegal(a) \/ CallRaises(a)
  PROVE  Orderly
  <1>1. UNCHANGED proc
    BY DEF Thread, Work, CheckRaises, CheckErrs, CheckPasses, BeginCall, CallRefused,
           HandleRejection, RejectionErrs, HandlerReturns, HandlerRaises, Prepared, PrepareRaises,
           CallRejected, CallIllegal, CallRaises
  <1>2. worker[a].pc \notin Finished
    BY DEF Thread, Work, CheckRaises, CheckErrs, CheckPasses, BeginCall, CallRefused,
           HandleRejection, RejectionErrs, HandlerReturns, HandlerRaises, Prepared, PrepareRaises,
           CallRejected, CallIllegal, CallRaises, Suspended, Finished
  <1>3. \A b \in Attempts \ {a} : worker'[b] = worker[b]
    <2>1. \/ \E pc : Goto(a, pc)
          \/ \E w : Fail(a, w)
      <3>1. CASE CallRaises(a)
        <4>1. txn.op \in {"finalize", "succeed", "fail"}
          BY <3>1 DEF CallRaises, Suspended, Calls
        <4>. QED BY <3>1, <4>1 DEF CallRaises
      <3>2. CASE CheckRaises(a)
        BY <3>2 DEF CheckRaises
      <3>. QED BY <3>1, <3>2
           DEF Thread, Work, CheckErrs, CheckPasses, BeginCall, CallRefused,
           HandleRejection, RejectionErrs, HandlerReturns, HandlerRaises, Prepared, PrepareRaises,
           AfterRejection, CallRejected, CallIllegal
    <2>. QED BY <2>1 DEF Goto, Fail, Workers
  <1>. QED BY <1>1, <1>2, <1>3
       DEF Processes, Process, Holding, HeldBy, Orderly, Keeps, Kept

LEMMA DatabaseOrderly ==
  ASSUME Processes, Workers, Holding,
         \/ \E b \in beats : Renewed(b) \/ RenewRaises(b)
         \/ ClaimedNothing \/ ClaimRaised \/ CallCommits \/ OrphanRollback
  PROVE  Orderly
  <1>. USE DEF Processes, Process, Holding, HeldBy, Orderly, Keeps, Kept
  <1>1. ASSUME NEW b \in beats, Renewed(b) \/ RenewRaises(b) PROVE Orderly
    <2>1. UNCHANGED worker
      BY <1>1 DEF Renewed, RenewRaises
    <2>2. ASSUME NEW e \in Executors
          PROVE  proc'[e] = proc[e] \/ (proc'[e].held = proc[e].held
                                        /\ proc'[e].step \in {"beat", "unwinding"})
      <3>1. proc[e] \in Process
        OBVIOUS
      <3>2. \/ proc'[e] = proc[e]
            \/ proc'[e] = [proc[e] EXCEPT !.step = "beat", !.todo = @ \ {b.attempt}]
            \/ proc'[e] = [proc[e] EXCEPT !.step = "unwinding"]
        BY <1>1 DEF Renewed, RenewRaises
      <3>. QED BY <3>1, <3>2
    <2>. QED BY <2>1, <2>2
  <1>2. CASE ClaimedNothing \/ ClaimRaised
    BY <1>2 DEF ClaimedNothing, ClaimRaised
  <1>3. CASE CallCommits
    <2>1. UNCHANGED proc
      BY <1>3 DEF CallCommits
    <2>2. ASSUME NEW a \in Attempts
          PROVE  worker'[a] = worker[a] \/ worker[a].pc \notin Finished
      BY <1>3 DEF CallCommits, Suspended, Finished
    <2>. QED BY <2>1, <2>2
  <1>4. CASE OrphanRollback
    BY <1>4 DEF OrphanRollback
  <1>. QED BY <1>1, <1>2, <1>3, <1>4

LEMMA RestOrderly ==
  ASSUME Processes, Holding,
         \/ Drain \/ Resume \/ Lapse \/ LateRenewal \/ TimePasses \/ UNCHANGED execVars
         \/ \E r \in Runs : Cancel(r) \/ \E q \in Requests : Submit(r, q)
  PROVE  Orderly
  <1>1. UNCHANGED worker
    BY DEF Drain, Resume, Lapse, LateRenewal, TimePasses, Cancel, Submit, execVars
  <1>2. ASSUME NEW e \in Executors
        PROVE  proc'[e] = proc[e] \/ (proc'[e].held = proc[e].held /\ proc'[e].step = "reap")
    BY DEF Drain, Resume, Lapse, LateRenewal, TimePasses, Cancel, Submit, execVars, Processes, Process
  <1>. QED BY <1>1, <1>2 DEF Holding, HeldBy, Orderly, Keeps, Kept

LEMMA ExecNextHolding ==
  ASSUME IInv, Processes, Workers, Threads, Holding, [ExecNext]_execVars
  PROVE  Holding'
  <1>1. [Next]_vars
    BY ExecStep DEF Workers
  <1>2. Orderly \/ \E r \in Runs, a \in Attempts : Claimed(r, a)
    <2>1. CASE \E e \in Executors : Lifetime(e) \/ Loop(e) \/ Stop(e) \/ Crash(e)
      BY <2>1, LifetimeOrderly, LoopOrderly
    <2>2. CASE \E a \in Attempts : Thread(a) \/ Work(a)
      BY <2>2, ThreadOrderly DEF Threads
    <2>3. CASE Database
      BY <2>3, ThreadOrderly, DatabaseOrderly DEF Database, Threads
    <2>. QED BY <2>1, <2>2, <2>3, RestOrderly DEF ExecNext
  <1>. QED BY <1>1, <1>2, OrderlyKeeps, ClaimedKeeps
-----------------------------------------------------------------------------
(* The theorems. *)

\* The inductive invariant of the executors: that of the queue, the threads in
\* agreement with the rows and the transaction, and each held by its process.
ExecIInv == IInv /\ Processes /\ Workers /\ Threads /\ Holding

LEMMA ExecInitIInv == ASSUME ExecInit PROVE ExecIInv
  <1>1. Down \in Process
    BY DEF Down, Process, Steps
  <1>2. [pc |-> "none", write |-> NoWrite] \in Worker
    BY DEF Worker, WorkerSteps
  <1>3. Processes /\ Workers
    BY <1>1, <1>2 DEF ExecInit, Processes, Workers, WritesKnown
  <1>4. Threads
    BY ConstantsAssumption
    DEF ExecInit, Init, NoTxn, Threads, Calls, Unclaimed, Agree, Before, After
  <1>5. Holding
    <2>1. \A e \in Executors : proc[e].held = {} /\ proc[e].step = "down"
      BY DEF ExecInit, Down
    <2>2. IsFiniteSet({}) /\ Cardinality({}) = 0 /\ Concurrency \in Nat \ {0}
      BY FS_EmptySet, ExecutorAssumption
    <2>3. ASSUME NEW e \in Executors PROVE HeldBy(e)
      <3>1. IsFiniteSet(proc[e].held) /\ Cardinality(proc[e].held) = 0
        BY <2>1, <2>2
      <3>2. Cardinality(proc[e].held) < Concurrency
        BY <2>2, <3>1
      <3>. QED BY <2>1, <3>1, <3>2, <2>2 DEF HeldBy
    <2>4. \A a \in Attempts : worker[a].pc \in Finished
      BY DEF ExecInit, Finished
    <2>. QED BY <2>3, <2>4 DEF ExecInit, Init, NoTxn, Holding
  <1>. QED BY <1>3, <1>4, <1>5, InitIInv DEF ExecInit, ExecIInv

LEMMA ExecNextIInv == ASSUME ExecIInv, [ExecNext]_execVars PROVE ExecIInv'
  <1>1. Processes' /\ Workers'
    BY ExecNextType DEF ExecIInv, IInv, Threads
  <1>2. IInv'
    BY ExecStep, NextIInv DEF ExecIInv, Workers
  <1>. QED BY <1>1, <1>2, ExecNextThreads, ExecNextHolding DEF ExecIInv

\* The executor processes do to the run queue only what module RunQueue lets
\* any caller do, whatever crashes, drains, database errors and late renewals
\* meet: everything proved of the queue holds of the whole system.
THEOREM ExecRefinesQueue == ExecSpec => ImplementsQueue
  <1>1. ExecInit => Init /\ ExecIInv
    BY ExecInitIInv DEF ExecInit
  <1>2. ExecIInv /\ [ExecNext]_execVars => ExecIInv' /\ [Next]_vars
    BY ExecNextIInv, ExecStep DEF ExecIInv, Workers
  <1>. QED BY <1>1, <1>2, PTL DEF ExecSpec, ImplementsQueue, Spec

\* Processes, threads and the writes they are about to make stay in the sets of
\* their program points, with any number of executors and threads.
THEOREM ExecTypeCorrect == ExecSpec => []ExecTypeOK
  <1>1. ExecInit => ExecIInv
    BY ExecInitIInv
  <1>2. ExecIInv /\ [ExecNext]_execVars => ExecIInv'
    BY ExecNextIInv
  <1>3. ExecIInv => ExecTypeOK
    BY DEF ExecIInv, IInv, Processes, Workers, ExecTypeOK
  <1>. QED BY <1>1, <1>2, <1>3, PTL DEF ExecSpec

\* A thread's program point and the durable state of its Run agree, through every
\* cancellation, reaping, takeover, crash and lost commit.
THEOREM ThreadsAgree == ExecSpec => []ThreadAgreement
  <1>1. ExecInit => ExecIInv
    BY ExecInitIInv
  <1>2. ExecIInv /\ [ExecNext]_execVars => ExecIInv'
    BY ExecNextIInv
  <1>3. ExecIInv => ThreadAgreement
    BY DEF ExecIInv, IInv, RunAttemptAgreement, Threads, Agree, Before, After, ThreadAgreement, RunOf
  <1>. QED BY <1>1, <1>2, <1>3, PTL DEF ExecSpec

\* A thread that still runs is held by exactly one process, which is up, and no
\* process runs more threads than its concurrency: no claim is executed twice and
\* none is abandoned by a loop that lives.
THEOREM ThreadsAreHeld == ExecSpec => []ThreadsHeld
  <1>1. ExecInit => ExecIInv
    BY ExecInitIInv
  <1>2. ExecIInv /\ [ExecNext]_execVars => ExecIInv'
    BY ExecNextIInv
  <1>3. ASSUME ExecIInv PROVE ThreadsHeld
    <2>1. ASSUME NEW a \in Attempts, worker[a].pc \notin Finished
          PROVE  Cardinality({e \in Executors : a \in proc[e].held /\ proc[e].step # "down"}) = 1
      <3>1. PICK e \in Executors : a \in proc[e].held
        BY <1>3, <2>1 DEF ExecIInv, Holding
      <3>2. {f \in Executors : a \in proc[f].held /\ proc[f].step # "down"} = {e}
        BY <1>3, <3>1 DEF ExecIInv, Holding, HeldBy
      <3>. QED BY <3>2, FS_Singleton
    <2>. QED BY <1>3, <2>1 DEF ExecIInv, Holding, HeldBy, ThreadsHeld
  <1>. QED BY <1>1, <1>2, <1>3, PTL DEF ExecSpec
-----------------------------------------------------------------------------
(* Which process runs threads, as long as no role lapses. *)

\* While no role lapses, the role row shows every process that is up.
RolesHeld ==
    \A e \in Executors : proc[e].step # "down" =>
      role.owner = e /\ role.live /\ role.state \in {"active", "draining"}

Working(e) == proc[e].step \in Steps \ {"down", "starting"}

\* A process works in the current epoch, and its threads execute what it claimed there.
Owning ==
    /\ \A e \in Executors : proc[e].todo \subseteq proc[e].held
    /\ \A e \in Executors : Working(e) =>
         /\ activation.epoch = proc[e].epoch /\ activation.executor = e
         /\ \A a \in proc[e].held : attempts[a].executor = e /\ attempts[a].epoch = proc[e].epoch

RoleInv == RolesHeld /\ Owning

LEMMA OneUp ==
  ASSUME RolesHeld, NEW e \in Executors, NEW f \in Executors,
         proc[e].step # "down", proc[f].step # "down"
  PROVE  e = f
  BY DEF RolesHeld

LEMMA HeldRows ==
  ASSUME IInv, Holding, NEW e \in Executors, NEW a \in Attempts, a \in proc[e].held
  PROVE  attempts[a].state # "absent"
  BY DEF Holding, HeldBy, IInv, RunAttemptAgreement

\* Nothing but a heartbeat changes a lease, and nothing starts an Attempt anew.
RowStays(a) ==
    /\ attempts'[a].executor = attempts[a].executor /\ attempts'[a].epoch = attempts[a].epoch
    /\ attempts'[a].deadline = attempts[a].deadline /\ attempts'[a].state # "absent"
    /\ attempts'[a].state \in ActiveStates => attempts[a].state \in ActiveStates

RowsStay ==
    \A a \in Attempts : attempts[a].state # "absent" => RowStays(a) /\ attempts'[a].lease = attempts[a].lease

\* The rows of claimed Attempts, in the steps of the queue other than heartbeats.
LEMMA QueueKeepsRows ==
  ASSUME IInv,
         \/ \E now \in Readings : \E lost \in Reapable(now) : ReapExpiredLeases(now, lost)
         \/ \E r \in Runs : RequestCancel(r)
         \/ MarkFinalizing \/ CommitTerminalFailure \/ CommitSuccess
         \/ \E r \in Runs, a \in Attempts : ClaimNext(r, a)
         \/ UNCHANGED attempts
  PROVE  RowsStay
  <1>0. attempts \in [Attempts -> AttemptRecord]
    BY DEF IInv, TypeOK
  <1>1. ASSUME NEW now \in Readings, NEW lost, ReapExpiredLeases(now, lost) PROVE RowsStay
    <2>1. ASSUME NEW a \in Attempts
          PROVE  \/ attempts'[a] = attempts[a]
                 \/ attempts'[a] = [attempts[a] EXCEPT !.state = "failed"]
      BY <1>1 DEF ReapExpiredLeases
    <2>. QED BY <1>0, <2>1 DEF RowsStay, RowStays, AttemptRecord, ActiveStates
  <1>2. ASSUME NEW a \in Attempts, NEW t \in RunLifecycleState, attempts[a].state \in ActiveStates,
               attempts' = [attempts EXCEPT ![a].state = t]
        PROVE  RowsStay
    <2>1. t # "absent"
      BY DEF RunLifecycleState, ActiveStates, TerminalStates
    <2>2. ASSUME NEW b \in Attempts
          PROVE  /\ attempts'[b].executor = attempts[b].executor /\ attempts'[b].epoch = attempts[b].epoch
                 /\ attempts'[b].deadline = attempts[b].deadline /\ attempts'[b].lease = attempts[b].lease
                 /\ attempts'[b].state = IF b = a THEN t ELSE attempts[b].state
      BY <1>0, <1>2 DEF AttemptRecord
    <2>. QED BY <1>2, <2>1, <2>2 DEF RowsStay, RowStays
  <1>3. ASSUME NEW r \in Runs, RequestCancel(r) PROVE RowsStay
    <2>1. \/ UNCHANGED attempts
          \/ \E a \in Attempts : /\ attempts[a].state \in ActiveStates
                                 /\ attempts' = [attempts EXCEPT ![a].state = "cancel_requested"]
      BY <1>3 DEF RequestCancel, MoveBoth, ActiveStates
    <2>2. CASE UNCHANGED attempts
      BY <2>2 DEF RowsStay, RowStays
    <2>. QED BY <1>2, <2>1, <2>2 DEF RunLifecycleState, ActiveStates
  <1>4. CASE MarkFinalizing \/ CommitTerminalFailure \/ CommitSuccess
    <2>0. txn.attempt \in Attempts /\ attempts[txn.attempt].state \in ActiveStates
      BY <1>4 DEF MarkFinalizing, CommitTerminalFailure, CommitSuccess, OwnedRow, IInv, TxnOwnsRow
    <2>2. txn.op = "fail" => txn.write.target \in RunLifecycleState
      BY DEF IInv, TxnOwnsRow, TerminalWrites, RunLifecycleState, TerminalStates
    <2>3. {"finalizing", "succeeded"} \subseteq RunLifecycleState
      BY DEF RunLifecycleState, ActiveStates, TerminalStates
    <2>4. \E t \in RunLifecycleState : attempts' = [attempts EXCEPT ![txn.attempt].state = t]
      <3>1. CASE MarkFinalizing
        BY <2>3, <3>1 DEF MarkFinalizing, MoveBoth
      <3>2. CASE CommitTerminalFailure
        BY <2>2, <3>2 DEF CommitTerminalFailure, MoveBoth
      <3>3. CASE CommitSuccess
        BY <2>3, <3>3 DEF CommitSuccess
      <3>. QED BY <1>4, <3>1, <3>2, <3>3
    <2>1. \E a \in Attempts, t \in RunLifecycleState :
            attempts[a].state \in ActiveStates /\ attempts' = [attempts EXCEPT ![a].state = t]
      BY <2>0, <2>4
    <2>. QED BY <1>2, <2>1
  <1>5. ASSUME NEW r \in Runs, NEW a \in Attempts, ClaimNext(r, a) PROVE RowsStay
    <2>1. attempts[a].state = "absent" /\ \A b \in Attempts : b # a => attempts'[b] = attempts[b]
      BY <1>5, ClaimNextMoves
    <2>. QED BY <2>1 DEF RowsStay, RowStays
  <1>6. CASE UNCHANGED attempts
    BY <1>6 DEF RowsStay, RowStays
  <1>. QED BY <1>1, <1>3, <1>4, <1>5, <1>6

\* What a step of the life cycle leaves of a process.
Undisturbed(g) ==
    /\ UNCHANGED activation
    /\ proc'[g].step = proc[g].step /\ proc'[g].epoch = proc[g].epoch
    /\ proc'[g].held = proc[g].held /\ proc'[g].todo = proc[g].todo

Activated(g) ==
    /\ activation'.epoch = proc'[g].epoch /\ activation'.executor = g
    /\ proc'[g].held = {} /\ proc'[g].todo = {} /\ proc'[g].step = "reap"

LifeCycle ==
    \/ \E e \in Executors : Lifetime(e) \/ Stop(e) \/ Crash(e)
    \/ Drain \/ Resume \/ Lapse \/ LateRenewal

LEMMA LifeProcs ==
  ASSUME Processes, Holding, RoleInv, LifeCycle, NEW g \in Executors
  PROVE  \/ Undisturbed(g) \/ Activated(g)
         \/ /\ proc'[g].step \in {"down", "starting"}
            /\ proc'[g].todo \subseteq proc'[g].held
  <1>0. proc[g].todo \subseteq proc[g].held /\ proc[g] \in Process
    BY DEF RoleInv, Owning, Processes
  <1>1. ASSUME NEW e \in Executors, Start(e) \/ ActivateRefused(e) \/ Exit(e) \/ Crash(e)
        PROVE  \/ proc'[g] = proc[g] /\ UNCHANGED activation
               \/ proc'[g] = Down
               \/ /\ proc'[g].step = "starting"
                  /\ proc'[g].held = proc[g].held /\ proc'[g].todo = proc[g].todo
    <2>1. UNCHANGED activation
      BY <1>1 DEF Start, ActivateRefused, Exit, Crash, RoleActivate, RoleFrame, RoleRelease, vars
    <2>2. proc' = [proc EXCEPT ![e] = Down] \/ proc' = [proc EXCEPT ![e].step = "starting"]
      BY <1>1 DEF Start, ActivateRefused, Exit, Crash, Step
    <2>. QED BY <2>1, <2>2 DEF Processes, Process
  <1>2. ASSUME NEW e \in Executors, Activate(e)
        PROVE  IF g = e THEN Activated(g) ELSE proc'[g] = proc[g] /\ proc[g].step = "down"
    <2>1. proc[e].step = "starting" /\ proc[e].held = {} /\ proc[e].todo = {}
      BY <1>2 DEF Activate, Holding, HeldBy, RoleInv, Owning
    <2>2. g # e => proc[g].step = "down"
      BY <2>1, OneUp DEF RoleInv
    <2>. QED BY <1>2, <2>1, <2>2 DEF Activate, ActivateRole, Processes, Process, Activated
  <1>3. ASSUME NEW e \in Executors, Stop(e) PROVE Undisturbed(g)
    BY <1>3 DEF Stop, Processes, Process, RoleDrain, RoleFrame, vars, Undisturbed
  <1>4. CASE Drain \/ Resume \/ Lapse \/ LateRenewal
    <2>1. proc'[g] = proc[g] /\ UNCHANGED activation
      BY <1>4 DEF Drain, Resume, Lapse, LateRenewal, RoleDrain, RoleResume, RoleExpire,
                  RoleLateRenewal, RoleFrame
    <2>. QED BY <2>1 DEF Undisturbed
  <1>. QED BY <1>0, <1>1, <1>2, <1>3, <1>4 DEF LifeCycle, Lifetime, Down, Undisturbed

LEMMA LifeRole ==
  ASSUME RoleMayLapse = FALSE, TypeOK, Processes, Holding, RoleInv, LifeCycle
  PROVE  RoleInv'
  <1>1. UNCHANGED attempts
    BY DEF LifeCycle, Lifetime, Start, Activate, ActivateRefused, Exit, Stop, Crash, Drain, Resume,
           Lapse, LateRenewal, RoleActivate, RoleFrame, ActivateRole, RoleRelease, RoleDrain,
           RoleResume, RoleExpire, RoleLateRenewal, tables, vars
  <1>2. RolesHeld'
    <2>1. ASSUME NEW e \in Executors, Start(e) PROVE RolesHeld'
      <3>1. ~role.live /\ role'.owner = e /\ role'.live /\ role'.state = "active"
        BY <2>1 DEF Start, RoleActivate, Row!Activate
      <3>2. \A f \in Executors : f # e => proc'[f].step = "down"
        BY <2>1, <3>1 DEF Start, Step, RoleInv, RolesHeld, Processes
      <3>. QED BY <3>1, <3>2 DEF RolesHeld
    <2>2. ASSUME NEW e \in Executors, ActivateRefused(e) \/ Exit(e) PROVE RolesHeld'
      <3>1. proc[e].step # "down" /\ proc' = [proc EXCEPT ![e] = Down]
        BY <2>2 DEF ActivateRefused, Exit
      <3>2. \A f \in Executors : proc'[f].step = "down"
        BY <3>1, OneUp DEF RoleInv, Processes, Down
      <3>. QED BY <3>2 DEF RolesHeld
    <2>3. ASSUME NEW e \in Executors, Activate(e) \/ Stop(e) \/ Crash(e) PROVE RolesHeld'
      <3>1. /\ role'.owner = role.owner /\ role'.live = role.live
            /\ role.state \in {"active", "draining"} => role'.state \in {"active", "draining"}
        BY <2>3 DEF Activate, ActivateRole, Stop, Crash, RoleDrain, Row!Drain, vars, TypeOK
      <3>2. \A f \in Executors : proc'[f].step # "down" => proc[f].step # "down"
        BY <2>3 DEF Activate, Stop, Crash, Down, Processes, Process
      <3>. QED BY <3>1, <3>2 DEF RoleInv, RolesHeld
    <2>4. CASE Drain \/ Resume
      BY <2>4 DEF Drain, Resume, RoleDrain, RoleResume, Row!Drain, Row!Resume, TypeOK, RoleInv, RolesHeld
    <2>5. CASE Lapse \/ LateRenewal
      BY <2>5 DEF Lapse, LateRenewal, RoleInv, RolesHeld
    <2>. QED BY <2>1, <2>2, <2>3, <2>4, <2>5 DEF LifeCycle, Lifetime
  <1>3. Owning'
    <2>1. ASSUME NEW g \in Executors
          PROVE  /\ proc'[g].todo \subseteq proc'[g].held
                 /\ Working(g)' =>
                      /\ activation'.epoch = proc'[g].epoch /\ activation'.executor = g
                      /\ \A a \in proc'[g].held :
                           attempts'[a].executor = g /\ attempts'[a].epoch = proc'[g].epoch
      BY <1>1, LifeProcs DEF Undisturbed, Activated, RoleInv, Owning, Working
    <2>. QED BY <2>1 DEF Owning
  <1>. QED BY <1>2, <1>3 DEF RoleInv

\* A process that goes on keeps its epoch, and takes on only what it claims.
Steady(f) ==
    /\ proc'[f].step # "down" => proc[f].step # "down"
    /\ Working(f)' => Working(f)
    /\ proc'[f].epoch = proc[f].epoch /\ proc'[f].todo \subseteq proc'[f].held
    /\ \A a \in proc'[f].held :
         a \in proc[f].held \/ (attempts'[a].executor = f /\ attempts'[a].epoch = proc[f].epoch)

LEMMA SteadyRole ==
  ASSUME IInv, Processes, Holding, RoleInv, UNCHANGED roles,
         \A a \in Attempts : attempts[a].state # "absent" => RowStays(a),
         \A f \in Executors : Steady(f)
  PROVE  RoleInv'
  <1>1. RolesHeld'
    BY DEF RoleInv, RolesHeld, roles, Steady
  <1>2. ASSUME NEW f \in Executors, Working(f)'
        PROVE  /\ activation'.epoch = proc'[f].epoch /\ activation'.executor = f
               /\ \A a \in proc'[f].held : attempts'[a].executor = f /\ attempts'[a].epoch = proc'[f].epoch
    <2>1. Working(f) /\ proc'[f].epoch = proc[f].epoch /\ UNCHANGED activation
      BY <1>2 DEF Steady, roles
    <2>2. \A a \in proc[f].held : attempts'[a].executor = f /\ attempts'[a].epoch = proc[f].epoch
      BY <2>1, HeldRows DEF RoleInv, Owning, RowStays, Processes, Process
    <2>. QED BY <2>1, <2>2 DEF Steady, RoleInv, Owning
  <1>3. \A f \in Executors : proc'[f].todo \subseteq proc'[f].held
    BY DEF Steady
  <1>. QED BY <1>1, <1>2, <1>3 DEF RoleInv, Owning

\* The rows in a step of the queue: a heartbeat changes a lease, and no more.
LEMMA QueueKeepsClaims ==
  ASSUME IInv, [Next]_vars
  PROVE  \A a \in Attempts : attempts[a].state # "absent" => RowStays(a)
  <1>1. CASE RoleStep \/ BeginStep \/ Tick \/ UNCHANGED vars
    <2>1. UNCHANGED attempts
      BY <1>1 DEF RoleStep, RoleActivate, ActivateRole, RoleDrain, RoleResume, RoleExpire,
                  RoleLateRenewal, RoleRelease, RoleFrame, BeginStep, BeginClaim, BeginWrite,
                  BeginHeartbeat, Tick, tables, vars
    <2>. QED BY <2>1 DEF RowStays
  <1>2. CASE QueueStep
    <2>1. UNCHANGED attempts \/ (\E now \in Readings : \E lost \in Reapable(now) : ReapExpiredLeases(now, lost))
                             \/ (\E r \in Runs : RequestCancel(r))
      BY <1>2 DEF QueueStep, Admit
    <2>. QED BY <2>1, QueueKeepsRows DEF RowsStay
  <1>3. ASSUME NEW b \in beats, Heartbeat(b)
        PROVE  \A a \in Attempts : attempts[a].state # "absent" => RowStays(a)
    <2>. DEFINE t == Earliest(b.now + LeaseSeconds, attempts[b.attempt].deadline)
    <2>1. /\ attempts \in [Attempts -> AttemptRecord] /\ b.attempt \in Attempts
          /\ attempts' = [attempts EXCEPT ![b.attempt].lease = t]
      BY <1>3 DEF Heartbeat, IInv, TypeOK
    <2>. HIDE DEF t
    <2>2. \A a \in Attempts : \/ attempts'[a] = attempts[a]
                              \/ attempts'[a] = [attempts[a] EXCEPT !.lease = t]
      BY <2>1
    <2>. QED BY <2>1, <2>2 DEF AttemptRecord, RowStays
  <1>4. CASE WriteStep
    <2>1. \/ UNCHANGED attempts
          \/ \E b \in beats : Heartbeat(b)
          \/ MarkFinalizing \/ CommitTerminalFailure \/ CommitSuccess
          \/ \E r \in Runs, a \in Attempts : ClaimNext(r, a)
      BY <1>4 DEF WriteStep, Rollback, HeartbeatRejected, tables
    <2>. QED BY <1>3, <2>1, QueueKeepsRows DEF RowsStay
  <1>. QED BY <1>1, <1>2, <1>4 DEF Next

LEMMA LoopSteady ==
  ASSUME Processes, RoleInv, NEW e \in Executors, Loop(e)
  PROVE  UNCHANGED roles /\ \A f \in Executors : Steady(f)
  <1>1. /\ UNCHANGED roles /\ Working(e) /\ proc[e] \in Process
        /\ \A f \in Executors : proc[f].todo \subseteq proc[f].held
    BY DEF Loop, Reap, GuardClaim, Claim, ClaimRefused, Wake, LoopRaises, Collect, CollectRaised,
           NotDue, Renew, RenewRefused, ReapExpiredLeases, BeginClaim, BeginHeartbeat, roles, vars,
           Working, Steps, Processes, RoleInv, Owning
  <1>2. \/ \E s \in Steps \ {"down", "starting"} : Step(e, s)
        \/ proc' = [proc EXCEPT ![e].step = "beat", ![e].todo = proc[e].held]
        \/ \E a \in Attempts : proc' = [proc EXCEPT ![e].todo = @ \ {a}, ![e].held = @ \ {a}]
        \/ \E a \in Attempts : proc' = [proc EXCEPT ![e].todo = @ \ {a}]
    BY DEF Loop, Reap, GuardClaim, Claim, ClaimRefused, Wake, LoopRaises, Collect, CollectRaised,
           NotDue, Renew, RenewRefused, Steps
  <1>3. /\ \A f \in Executors \ {e} : proc'[f] = proc[f]
        /\ proc'[e].step \in Steps \ {"down", "starting"} /\ proc'[e].epoch = proc[e].epoch
        /\ proc'[e].held \subseteq proc[e].held /\ proc'[e].todo \subseteq proc'[e].held
    <2>0. proc \in [Executors -> Process] /\ proc[e].todo \subseteq proc[e].held
      BY <1>1 DEF Processes
    <2>1. ASSUME NEW s \in Steps \ {"down", "starting"}, Step(e, s)
          PROVE  /\ \A f \in Executors \ {e} : proc'[f] = proc[f]
                 /\ proc'[e].step = s /\ proc'[e].epoch = proc[e].epoch
                 /\ proc'[e].held = proc[e].held /\ proc'[e].todo = proc[e].todo
      BY <2>0, <2>1 DEF Step, Process
    <2>2. CASE proc' = [proc EXCEPT ![e].step = "beat", ![e].todo = proc[e].held]
      <3>1. /\ \A f \in Executors \ {e} : proc'[f] = proc[f]
            /\ proc'[e].step = "beat" /\ proc'[e].epoch = proc[e].epoch
            /\ proc'[e].held = proc[e].held /\ proc'[e].todo = proc[e].held
        BY <2>0, <2>2 DEF Process
      <3>. QED BY <3>1 DEF Steps
    <2>3. ASSUME NEW a \in Attempts, proc' = [proc EXCEPT ![e].todo = @ \ {a}, ![e].held = @ \ {a}]
          PROVE  /\ \A f \in Executors \ {e} : proc'[f] = proc[f]
                 /\ proc'[e].step = proc[e].step /\ proc'[e].epoch = proc[e].epoch
                 /\ proc'[e].held = proc[e].held \ {a} /\ proc'[e].todo = proc[e].todo \ {a}
      BY <2>0, <2>3 DEF Process
    <2>4. ASSUME NEW a \in Attempts, proc' = [proc EXCEPT ![e].todo = @ \ {a}]
          PROVE  /\ \A f \in Executors \ {e} : proc'[f] = proc[f]
                 /\ proc'[e].step = proc[e].step /\ proc'[e].epoch = proc[e].epoch
                 /\ proc'[e].held = proc[e].held /\ proc'[e].todo = proc[e].todo \ {a}
      BY <2>0, <2>4 DEF Process
    <2>. QED BY <1>1, <1>2, <2>0, <2>1, <2>2, <2>3, <2>4 DEF Working
  <1>. QED BY <1>1, <1>3 DEF Steady, Working

LEMMA ClaimSteady ==
  ASSUME IInv, Processes, RoleInv,
         ClaimedNothing \/ ClaimRaised \/ \E r \in Runs, a \in Attempts : Claimed(r, a)
  PROVE  UNCHANGED roles /\ \A f \in Executors : Steady(f)
  <1>0. \A f \in Executors : proc[f] \in Process /\ proc[f].todo \subseteq proc[f].held
    BY DEF Processes, RoleInv, Owning
  <1>1. ASSUME ClaimedNothing \/ ClaimRaised
        PROVE  UNCHANGED roles /\ \A f \in Executors : Steady(f)
    <2>1. \A f \in Executors :
            \/ proc'[f] = proc[f]
            \/ Claiming(f) /\ \E s \in {"rest", "unwinding"} : proc'[f] = [proc[f] EXCEPT !.step = s]
      BY <1>1 DEF ClaimedNothing, ClaimRaised
    <2>2. UNCHANGED roles
      BY <1>1 DEF ClaimedNothing, ClaimRaised, Rollback, roles
    <2>3. ASSUME NEW f \in Executors PROVE Steady(f)
      <3>1. ASSUME NEW s \in {"rest", "unwinding"}, Claiming(f), proc'[f] = [proc[f] EXCEPT !.step = s]
            PROVE  Steady(f)
        <4>1. /\ proc[f].step = "claiming" /\ proc'[f].epoch = proc[f].epoch
              /\ proc'[f].held = proc[f].held /\ proc'[f].todo = proc[f].todo
          BY <1>0, <3>1 DEF Claiming, Process
        <4>. QED BY <1>0, <4>1 DEF Steady, Working, Steps
      <3>2. CASE proc'[f] = proc[f]
        BY <1>0, <3>2 DEF Steady, Working
      <3>. QED BY <2>1, <3>1, <3>2
    <2>. QED BY <2>2, <2>3
  <1>2. ASSUME NEW r \in Runs, NEW a \in Attempts, Claimed(r, a)
        PROVE  UNCHANGED roles /\ \A f \in Executors : Steady(f)
    <2>1. attempts'[a].executor = txn.executor /\ attempts'[a].epoch = txn.epoch /\ UNCHANGED roles
      <3>1. ClaimNext(r, a) /\ attempts \in [Attempts -> AttemptRecord]
        BY <1>2 DEF Claimed, IInv, TypeOK
      <3>2. PICK row : /\ row.executor = txn.executor /\ row.epoch = txn.epoch
                       /\ attempts' = [attempts EXCEPT ![a] = row]
        BY <3>1 DEF ClaimNext
      <3>. QED BY <3>1, <3>2 DEF ClaimNext, roles
    <2>2. \A f \in Executors :
            \/ proc'[f] = proc[f]
            \/ Claiming(f) /\ proc'[f] = [proc[f] EXCEPT !.step = "guard", !.held = @ \cup {a}]
      BY <1>2 DEF Claimed
    <2>3. ASSUME NEW f \in Executors PROVE Steady(f)
      <3>1. CASE proc'[f] = proc[f]
        BY <1>0, <3>1 DEF Steady, Working
      <3>2. CASE Claiming(f) /\ proc'[f] = [proc[f] EXCEPT !.step = "guard", !.held = @ \cup {a}]
        <4>1. /\ proc[f].step = "claiming" /\ txn.executor = f /\ txn.epoch = proc[f].epoch
              /\ proc'[f].step = "guard" /\ proc'[f].epoch = proc[f].epoch
              /\ proc'[f].held = proc[f].held \cup {a} /\ proc'[f].todo = proc[f].todo
          BY <1>0, <3>2 DEF Claiming, Process
        <4>. QED BY <1>0, <2>1, <4>1 DEF Steady, Working, Steps
      <3>. QED BY <2>2, <3>1, <3>2
    <2>. QED BY <2>1, <2>3
  <1>. QED BY <1>1, <1>2

LEMMA RestSteady ==
  ASSUME Processes, RoleInv,
         \/ \E a \in Attempts : Thread(a) \/ Work(a) \/ CallRejected(a) \/ CallIllegal(a) \/ CallRaises(a)
         \/ CallCommits \/ OrphanRollback \/ TimePasses \/ UNCHANGED execVars
         \/ \E b \in beats : Renewed(b) \/ RenewRaises(b)
         \/ \E r \in Runs : Cancel(r) \/ \E q \in Requests : Submit(r, q)
  PROVE  UNCHANGED roles /\ \A f \in Executors : Steady(f)
  <1>0. \A f \in Executors : proc[f] \in Process /\ proc[f].todo \subseteq proc[f].held
    BY DEF Processes, RoleInv, Owning
  <1>1. ASSUME NEW b \in beats, Renewed(b) \/ RenewRaises(b)
        PROVE  UNCHANGED roles /\ \A f \in Executors : Steady(f)
    <2>1. UNCHANGED roles
      BY <1>1 DEF Renewed, RenewRaises, Heartbeat, HeartbeatRejected, roles
    <2>2. \A f \in Executors :
            \/ proc'[f] = proc[f]
            \/ /\ f \in Beating(b)
               /\ \/ proc'[f] = [proc[f] EXCEPT !.step = "beat", !.todo = @ \ {b.attempt}]
                  \/ proc'[f] = [proc[f] EXCEPT !.step = "unwinding"]
      BY <1>1 DEF Renewed, RenewRaises
    <2>3. ASSUME NEW f \in Executors PROVE Steady(f)
      <3>1. CASE proc'[f] = proc[f]
        BY <1>0, <3>1 DEF Steady, Working
      <3>2. CASE f \in Beating(b) /\ proc'[f] = [proc[f] EXCEPT !.step = "beat", !.todo = @ \ {b.attempt}]
        <4>1. /\ proc[f].step = "beating" /\ proc'[f].epoch = proc[f].epoch
              /\ proc'[f].held = proc[f].held /\ proc'[f].todo = proc[f].todo \ {b.attempt}
          BY <1>0, <3>2 DEF Beating, Process
        <4>. QED BY <1>0, <4>1 DEF Steady, Working, Steps
      <3>3. CASE f \in Beating(b) /\ proc'[f] = [proc[f] EXCEPT !.step = "unwinding"]
        <4>1. /\ proc[f].step = "beating" /\ proc'[f].epoch = proc[f].epoch
              /\ proc'[f].held = proc[f].held /\ proc'[f].todo = proc[f].todo
          BY <1>0, <3>3 DEF Beating, Process
        <4>. QED BY <1>0, <4>1 DEF Steady, Working, Steps
      <3>. QED BY <2>2, <3>1, <3>2, <3>3
    <2>. QED BY <2>1, <2>3
  <1>2. CASE TimePasses
    <2>1. \A f \in Executors :
            \/ proc'[f] = proc[f]
            \/ proc[f].step = "rest" /\ proc'[f] = [proc[f] EXCEPT !.step = "reap"]
      BY <1>2 DEF TimePasses
    <2>2. UNCHANGED roles
      BY <1>2 DEF TimePasses, Tick, roles
    <2>3. ASSUME NEW f \in Executors PROVE Steady(f)
      <3>1. CASE proc'[f] = proc[f]
        BY <1>0, <3>1 DEF Steady, Working
      <3>2. CASE proc[f].step = "rest" /\ proc'[f] = [proc[f] EXCEPT !.step = "reap"]
        <4>1. /\ proc[f].step = "rest" /\ proc'[f].epoch = proc[f].epoch
              /\ proc'[f].held = proc[f].held /\ proc'[f].todo = proc[f].todo
          BY <1>0, <3>2 DEF Process
        <4>. QED BY <1>0, <4>1 DEF Steady, Working, Steps
      <3>. QED BY <2>1, <3>1, <3>2
    <2>. QED BY <2>2, <2>3
  <1>3. ASSUME UNCHANGED <<proc, roles>> PROVE UNCHANGED roles /\ \A f \in Executors : Steady(f)
    BY <1>0, <1>3 DEF Steady, Working
  <1>4. CASE \E a \in Attempts : Thread(a) \/ Work(a) \/ CallRejected(a) \/ CallIllegal(a) \/ CallRaises(a)
    <2>1. UNCHANGED <<proc, roles>>
      BY <1>4 DEF Thread, Work, CheckRaises, CheckErrs, CheckPasses, BeginCall, CallRefused,
           HandleRejection, RejectionErrs, HandlerReturns, HandlerRaises, Prepared, PrepareRaises,
           CallRejected, CallIllegal, CallRaises, Rollback, BeginWrite, roles, vars
    <2>. QED BY <1>3, <2>1
  <1>5. CASE \/ CallCommits \/ OrphanRollback \/ UNCHANGED execVars
             \/ \E r \in Runs : Cancel(r) \/ \E q \in Requests : Submit(r, q)
    <2>1. UNCHANGED <<proc, roles>>
      BY <1>5 DEF CallCommits, MarkFinalizing, CommitTerminalFailure, CommitSuccess, OrphanRollback,
           Rollback, Cancel, Submit, Admit, RequestCancel, execVars, vars, roles
    <2>. QED BY <1>3, <2>1
  <1>. QED BY <1>1, <1>2, <1>4, <1>5

LEMMA ExecNextRole ==
  ASSUME RoleMayLapse = FALSE, ExecIInv, RoleInv, [ExecNext]_execVars
  PROVE  RoleInv'
  <1>0. IInv /\ TypeOK /\ Processes /\ Workers /\ Threads /\ Holding /\ [Next]_vars
    BY ExecStep DEF ExecIInv, IInv, Workers
  <1>1. CASE LifeCycle
    BY <1>0, <1>1, LifeRole
  <1>2. CASE ~LifeCycle
    <2>1. UNCHANGED roles /\ \A f \in Executors : Steady(f)
      BY <1>0, <1>2, LoopSteady, ClaimSteady, RestSteady DEF ExecNext, Database, LifeCycle
    <2>. QED BY <1>0, <2>1, QueueKeepsClaims, SteadyRole
  <1>. QED BY <1>1, <1>2

LEMMA ExecInitRole == ASSUME ExecInit PROVE RoleInv
  <1>1. \A e \in Executors : proc[e] = Down
    BY DEF ExecInit
  <1>. QED BY <1>1 DEF Down, RoleInv, RolesHeld, Owning, Working

\* As long as no running process loses its role lease, at most one executor
\* process is up, and every thread that still runs works for the activation in
\* force: when a new slot takes over, after a drain, a crash or a refused start,
\* no thread of an older epoch is left.
OneEpochRuns ==
    /\ \A e, f \in Executors : proc[e].step # "down" /\ proc[f].step # "down" => e = f
    /\ \A a \in Attempts : worker[a].pc \notin Finished =>
         attempts[a].epoch = activation.epoch /\ attempts[a].executor = activation.executor

\* The role row excludes a second process from its start to the end of its last
\* thread, which Exit waits for.
THEOREM TakeoverIsClean == ASSUME RoleMayLapse = FALSE PROVE ExecSpec => []OneEpochRuns
  <1>1. ExecInit => ExecIInv /\ RoleInv
    BY ExecInitIInv, ExecInitRole
  <1>2. ExecIInv /\ RoleInv /\ [ExecNext]_execVars => ExecIInv' /\ RoleInv'
    BY ExecNextIInv, ExecNextRole
  <1>3. ASSUME ExecIInv, RoleInv PROVE OneEpochRuns
    <2>1. ASSUME NEW a \in Attempts, worker[a].pc \notin Finished
          PROVE  attempts[a].epoch = activation.epoch /\ attempts[a].executor = activation.executor
      <3>1. PICK e \in Executors : a \in proc[e].held
        BY <1>3, <2>1 DEF ExecIInv, Holding
      <3>2. Working(e)
        BY <1>3, <3>1 DEF ExecIInv, Holding, HeldBy, Processes, Process, Working
      <3>. QED BY <1>3, <3>1, <3>2 DEF RoleInv, Owning
    <2>. QED BY <1>3, <2>1, OneUp DEF RoleInv, OneEpochRuns
  <1>. QED BY <1>1, <1>2, <1>3, PTL DEF ExecSpec
-----------------------------------------------------------------------------
(* The leases of the threads of a prompt loop. *)

\* A loop that waits for a claim is answered by its own transaction.
ClaimOf(e) ==
    proc[e].step = "claiming" =>
      /\ txn.op = "claim" /\ Claiming(e)
      /\ e \in Prompt => txn.now \in Readings

OwnClaims == \A e \in Executors : ClaimOf(e)

\* The only heartbeat under way for a loop's threads is the one it waits for.
BeatsOf(e) ==
    Looping(e) =>
      \A b \in beats : b.attempt \in proc[e].held =>
        /\ proc[e].step = "beating" /\ b.attempt \in proc[e].todo
        /\ \A c \in beats : c.attempt \in proc[e].held => c = b
        /\ e \in Prompt => b.now \in Readings

OwnBeats ==
    /\ \A b \in beats : attempts[b.attempt].state # "absent"
    /\ \A e \in Executors : BeatsOf(e)

AtStake(a) ==
    worker[a].pc \notin Finished /\ attempts[a].state \in ActiveStates /\ clock < attempts[a].deadline

\* The pass of the loop is done with the lease of a.
Served(e, a) ==
    proc[e].step # "reap" /\ (proc[e].step \in {"beat", "beating"} => a \notin proc[e].todo)

\* The lease lasts to the next tick, or to the deadline.
Lasts(a) == clock + 1 < attempts[a].lease \/ clock + 1 >= attempts[a].deadline

InTimeFor(e) ==
    Looping(e) =>
      \A a \in proc[e].held : AtStake(a) =>
        clock < attempts[a].lease /\ (Served(e, a) => Lasts(a))

InTime == \A e \in Prompt : InTimeFor(e)

LeaseInv == OwnClaims /\ OwnBeats /\ InTime

LEMMA LifeInv ==
  ASSUME Processes, Workers, Holding, RoleInv, LeaseInv, LifeCycle
  PROVE  LeaseInv'
  <1>1. UNCHANGED <<attempts, txn, beats, clock>>
    BY DEF LifeCycle, Lifetime, Start, Activate, ActivateRefused, Exit, Stop, Crash, Drain, Resume, Lapse,
           LateRenewal, RoleActivate, RoleFrame, ActivateRole, RoleRelease, RoleDrain, RoleResume,
           RoleExpire, RoleLateRenewal, tables, vars
  <1>2. \A a \in Attempts : worker'[a].pc \in {worker[a].pc, "killed"}
    <2>1. UNCHANGED worker \/ \E e \in Executors : Crash(e)
      BY DEF LifeCycle, Lifetime, Start, Activate, ActivateRefused, Exit, Stop, Drain, Resume, Lapse, LateRenewal
    <2>2. ASSUME NEW e \in Executors, Crash(e), NEW a \in Attempts
          PROVE  worker'[a].pc \in {worker[a].pc, "killed"}
      BY <2>2 DEF Crash, Workers, Worker
    <2>. QED BY <2>1, <2>2
  <1>4. ASSUME NEW g \in Executors
        PROVE  Looping(g)' =>
                 \/ Looping(g) /\ Undisturbed(g)
                 \/ proc'[g].held = {} /\ proc'[g].step = "reap"
    BY LifeProcs DEF Undisturbed, Activated, Looping
  <1>6. OwnClaims'
    BY <1>1, <1>4 DEF Undisturbed, LeaseInv, OwnClaims, ClaimOf, Looping, Claiming, Readings, Steps
  <1>7. OwnBeats'
    BY <1>1, <1>4 DEF Undisturbed, LeaseInv, OwnBeats, BeatsOf, Readings
  <1>8. InTime'
    <2>1. ASSUME NEW e \in Prompt PROVE InTimeFor(e)'
      <3>1. e \in Executors /\ (proc[e].held \subseteq Attempts)
        BY ExecutorAssumption DEF Processes, Process
      <3>. QED BY <1>1, <1>2, <1>4, <3>1 DEF Undisturbed, LeaseInv, InTime, InTimeFor, AtStake, Served, Lasts, Finished
    <2>. QED BY <2>1 DEF InTime
  <1>. QED BY <1>6, <1>7, <1>8 DEF LeaseInv


\* What leaves the processes, the beats and the time alone.
LEMMA AsideInv ==
  ASSUME IInv, Processes, Holding, RoleInv, LeaseInv, RowsStay, UNCHANGED <<proc, beats, clock, roles>>,
         txn.op = "claim" => UNCHANGED txn,
         \A a \in Attempts : Kept(a)
  PROVE  LeaseInv'
  <1>1. \A e \in Executors : \A a \in proc[e].held : a \in Attempts /\ attempts[a].state # "absent"
    BY HeldRows DEF Processes, Process
  <1>4. OwnClaims'
    BY DEF LeaseInv, OwnClaims, ClaimOf, Claiming, Readings
  <1>5. OwnBeats'
    <2>1. \A b \in beats : b.attempt \in Attempts
      BY DEF IInv, TypeOK
    <2>. QED BY <2>1 DEF LeaseInv, OwnBeats, BeatsOf, Readings, RowsStay, RowStays, Looping
  <1>6. InTime'
    <2>1. ASSUME NEW e \in Prompt PROVE InTimeFor(e)'
      <3>1. e \in Executors
        BY ExecutorAssumption
      <3>. QED BY <1>1, <3>1
           DEF LeaseInv, InTime, InTimeFor, AtStake, Served, Lasts, RowsStay, RowStays, Kept, Looping
    <2>. QED BY <2>1 DEF InTime
  <1>. QED BY <1>4, <1>5, <1>6 DEF LeaseInv

\* The threads, the operators and the threads' transactions are such steps.
LEMMA AsideSteps ==
  ASSUME IInv, Processes, Workers, Threads, Holding, RoleInv, LeaseInv,
         \/ \E a \in Attempts : Thread(a) \/ Work(a) \/ CallRejected(a) \/ CallIllegal(a) \/ CallRaises(a)
         \/ CallCommits \/ OrphanRollback \/ UNCHANGED execVars
         \/ \E r \in Runs : Cancel(r) \/ \E q \in Requests : Submit(r, q)
  PROVE  LeaseInv'
  <1>1. \A a \in Attempts : Kept(a)
    BY ThreadOrderly, DatabaseOrderly, RestOrderly DEF Orderly, Threads
  <1>2. ASSUME NEW a \in Attempts, Thread(a) \/ Work(a) PROVE LeaseInv'
    <2>1. UNCHANGED <<proc, attempts, clock, roles>>
      BY <1>2 DEF Thread, Work, CheckRaises, CheckErrs, CheckPasses, BeginCall, CallRefused,
           HandleRejection, RejectionErrs, HandlerReturns, HandlerRaises, Prepared, PrepareRaises,
           BeginWrite, tables, roles, vars
    <2>2. UNCHANGED beats /\ (UNCHANGED txn \/ LockFree)
      BY <1>2 DEF Thread, Work, CheckRaises, CheckErrs, CheckPasses, BeginCall, CallRefused,
           HandleRejection, RejectionErrs, HandlerReturns, HandlerRaises, Prepared, PrepareRaises,
           BeginWrite, vars
    <2>. QED BY <1>1, <2>1, <2>2, QueueKeepsRows, AsideInv DEF LockFree
  <1>3. ASSUME NEW a \in Attempts, CallRejected(a) \/ CallIllegal(a) \/ CallRaises(a)
        PROVE  LeaseInv'
    <2>1. UNCHANGED <<proc, attempts, clock, roles, beats>> /\ txn.op # "claim"
      BY <1>3 DEF CallRejected, CallIllegal, CallRaises, Rollback, tables, Suspended, Threads, Calls
    <2>. QED BY <1>1, <2>1, QueueKeepsRows, AsideInv
  <1>4. CASE CallCommits
    <2>1. /\ MarkFinalizing \/ CommitTerminalFailure \/ CommitSuccess
          /\ UNCHANGED <<proc, clock, roles, beats>> /\ txn.op # "claim"
      BY <1>4 DEF CallCommits, MarkFinalizing, CommitTerminalFailure, CommitSuccess
    <2>. QED BY <1>1, <2>1, QueueKeepsRows, AsideInv
  <1>5. CASE OrphanRollback \/ UNCHANGED execVars
    <2>1. UNCHANGED <<proc, attempts, clock, roles, beats>> /\ (txn.op = "claim" => UNCHANGED txn)
      BY <1>5 DEF OrphanRollback, Rollback, tables, execVars, vars, roles
    <2>. QED BY <1>1, <2>1, QueueKeepsRows, AsideInv
  <1>6. ASSUME NEW r \in Runs, Cancel(r) \/ \E q \in Requests : Submit(r, q) PROVE LeaseInv'
    <2>1. RequestCancel(r) \/ UNCHANGED attempts
      BY <1>6 DEF Cancel, Submit, Admit
    <2>2. UNCHANGED <<proc, clock, roles, beats, txn>>
      BY <1>6 DEF Cancel, Submit, Admit, RequestCancel, roles
    <2>. QED BY <1>1, <2>1, <2>2, QueueKeepsRows, AsideInv
  <1>. QED BY <1>2, <1>3, <1>4, <1>5, <1>6


\* Only e moves: no other process is up.
LEMMA OneMoves ==
  ASSUME IInv, Processes, Holding, RoleInv, LeaseInv, RowsStay, NEW e \in Executors,
         proc[e].step # "down", proc'[e].step # "down",
         \A f \in Executors \ {e} : proc'[f] = proc[f],
         UNCHANGED <<clock, roles>>,
         Looping(e)' => Looping(e), proc'[e].epoch = proc[e].epoch,
         proc'[e].todo \subseteq proc'[e].held, proc'[e].held \subseteq proc[e].held,
         \A b \in beats' : attempts'[b.attempt].state # "absent",
         ClaimOf(e)', BeatsOf(e)', e \in Prompt => InTimeFor(e)'
  PROVE  LeaseInv'
  <1>1. \A f \in Executors \ {e} : proc[f].step = "down" /\ proc'[f].step = "down"
    BY OneUp DEF RoleInv
  <1>2. \A a \in proc[e].held : a \in Attempts /\ attempts[a].state # "absent"
    BY HeldRows DEF Processes, Process
  <1>5. OwnClaims'
    BY <1>1 DEF OwnClaims, ClaimOf
  <1>6. OwnBeats'
    BY <1>1 DEF OwnBeats, BeatsOf, Looping
  <1>7. InTime'
    BY <1>1, ExecutorAssumption DEF InTime, InTimeFor, Looping
  <1>. QED BY <1>5, <1>6, <1>7 DEF LeaseInv

\* The pass of the loop went on, and nobody's lease changed.
LEMMA PassInTime ==
  ASSUME IInv, Processes, Holding, RoleInv, LeaseInv, RowsStay, NEW e \in Prompt,
         Looping(e)' => Looping(e), UNCHANGED <<clock, worker>>,
         proc'[e].held \subseteq proc[e].held,
         \A a \in proc'[e].held : AtStake(a) /\ Served(e, a)' => Served(e, a) \/ Lasts(a)
  PROVE  InTimeFor(e)'
  <1>1. e \in Executors
    BY ExecutorAssumption
  <1>2. \A a \in proc[e].held : a \in Attempts /\ attempts[a].state # "absent"
    BY <1>1, HeldRows DEF Processes, Process
  <1>3. SUFFICES ASSUME Looping(e)', NEW a \in proc'[e].held, AtStake(a)'
                 PROVE  clock' < attempts'[a].lease /\ (Served(e, a)' => Lasts(a)')
    BY DEF InTimeFor
  <1>4. /\ a \in Attempts /\ a \in proc[e].held /\ AtStake(a)
        /\ attempts'[a].lease = attempts[a].lease /\ attempts'[a].deadline = attempts[a].deadline
    BY <1>2, <1>3 DEF AtStake, RowsStay, RowStays
  <1>5. clock < attempts[a].lease /\ (Served(e, a) => Lasts(a))
    BY <1>3, <1>4 DEF LeaseInv, InTime, InTimeFor
  <1>. QED BY <1>4, <1>5 DEF Lasts

LEMMA LoopInv ==
  ASSUME IInv, Processes, Workers, Holding, RoleInv, LeaseInv, NEW e \in Executors, Loop(e)
  PROVE  LeaseInv'
  <1>1. /\ proc[e].step \in Steps \ {"down", "starting", "unwinding"}
        /\ UNCHANGED <<clock, roles, worker>>
        /\ RowsStay
    <2>1. /\ proc[e].step \in Steps \ {"down", "starting", "unwinding"}
          /\ UNCHANGED <<clock, roles, worker>>
      BY DEF Loop, Reap, GuardClaim, Claim, ClaimRefused, Wake, LoopRaises, Collect, CollectRaised,
             NotDue, Renew, RenewRefused, Steps, ReapExpiredLeases, BeginClaim, BeginHeartbeat, roles, vars
    <2>2. UNCHANGED attempts \/ \E now \in Readings : \E lost \in Reapable(now) : ReapExpiredLeases(now, lost)
      BY DEF Loop, Reap, GuardClaim, Claim, ClaimRefused, Wake, LoopRaises, Collect, CollectRaised,
             NotDue, Renew, RenewRefused, BeginClaim, BeginHeartbeat, tables, vars
    <2>. QED BY <2>1, <2>2, QueueKeepsRows
  <1>2. Looping(e) /\ proc[e].step # "down" /\ proc \in [Executors -> Process] /\ proc[e] \in Process
    BY <1>1 DEF Looping, Processes
  <1>3. \A b \in beats : attempts'[b.attempt].state # "absent"
    BY <1>1 DEF LeaseInv, OwnBeats, RowsStay, RowStays, IInv, TypeOK
  <1>4. proc[e].step # "beating" => \A b \in beats : b.attempt \notin proc[e].held
    BY <1>2 DEF LeaseInv, OwnBeats, BeatsOf
  <1>5. proc[e].todo \subseteq proc[e].held
    BY DEF RoleInv, Owning
  <1>6. CASE Reap(e)
    <2>1. /\ UNCHANGED <<beats, txn>> /\ proc[e].step = "reap"
          /\ proc' = [proc EXCEPT ![e].step = "beat", ![e].todo = proc[e].held]
      BY <1>6 DEF Reap, ReapExpiredLeases, vars
    <2>2. /\ \A f \in Executors \ {e} : proc'[f] = proc[f]
          /\ proc'[e].step = "beat" /\ proc'[e].todo = proc[e].held
          /\ proc'[e].held = proc[e].held /\ proc'[e].epoch = proc[e].epoch
      BY <1>2, <2>1 DEF Process
    <2>3. BeatsOf(e)' /\ ClaimOf(e)'
      BY <1>4, <2>1, <2>2 DEF BeatsOf, ClaimOf
    <2>4. e \in Prompt => InTimeFor(e)'
      BY <1>1, <1>2, <2>2, PassInTime DEF Served
    <2>. QED BY <1>1, <1>2, <1>3, <1>5, <2>1, <2>2, <2>3, <2>4, OneMoves
  <1>7. ASSUME NEW a \in Attempts, Collect(e, a) \/ NotDue(e, a) \/ RenewRefused(e, a)
        PROVE  LeaseInv'
    <2>1. /\ UNCHANGED vars /\ proc[e].step = "beat" /\ a \in proc[e].todo
          /\ \A f \in Executors \ {e} : proc'[f] = proc[f]
          /\ proc'[e].step = "beat" /\ proc'[e].todo = proc[e].todo \ {a}
          /\ proc'[e].epoch = proc[e].epoch
          /\ proc'[e].held = proc[e].held \/ (Collect(e, a) /\ proc'[e].held = proc[e].held \ {a})
      BY <1>2, <1>7 DEF Collect, NotDue, RenewRefused, Process
    <2>2. BeatsOf(e)' /\ ClaimOf(e)' /\ \A b \in beats' : attempts'[b.attempt].state # "absent"
      BY <1>3, <1>4, <2>1 DEF BeatsOf, ClaimOf, vars
    <2>3. proc'[e].todo \subseteq proc'[e].held /\ proc'[e].held \subseteq proc[e].held
      BY <1>5, <2>1
    <2>4. ASSUME e \in Prompt PROVE InTimeFor(e)'
      <3>1. a \in proc'[e].held /\ AtStake(a) => Lasts(a)
        <4>1. CASE Collect(e, a)
          BY <4>1 DEF Collect, AtStake, Finished
        <4>2. CASE NotDue(e, a)
          <5>1. attempts[a].lease \in Nat /\ clock \in Nat
            BY DEF IInv, TypeOK, AttemptRecord
          <5>2. ~(clock + LeaseSeconds >= attempts[a].lease + HeartbeatSeconds)
            BY <4>2 DEF NotDue, Due
          <5>. QED BY <5>1, <5>2, ExecutorAssumption, ConstantsAssumption DEF Lasts
        <4>3. CASE RenewRefused(e, a)
          <5>1. a \in proc[e].held
            BY <1>5, <2>1
          <5>2. OwnerActive(a)
            <6>1. activation \in [epoch : Nat, executor : Executors \cup {NoExecutor}]
              BY DEF IInv, TypeOK
            <6>0. Working(e) /\ proc[e].step # "down"
              BY <2>1 DEF Working, Steps
            <6>2. /\ activation = [epoch |-> attempts[a].epoch, executor |-> attempts[a].executor]
                  /\ attempts[a].executor = e
              BY <5>1, <6>0, <6>1 DEF RoleInv, Owning
            <6>3. role.owner = e /\ role.live /\ role.state \in {"active", "draining"}
              BY <6>0 DEF RoleInv, RolesHeld
            <6>. QED BY <6>2, <6>3 DEF OwnerActive, ActiveRole, WorkerRoleLease
          <5>. QED BY <4>3, <5>2 DEF RenewRefused, AtStake
        <4>. QED BY <1>7, <4>1, <4>2, <4>3
      <3>2. \A b \in proc'[e].held : AtStake(b) /\ Served(e, b)' => Served(e, b) \/ Lasts(b)
        BY <2>1, <3>1 DEF Served
      <3>. QED BY <1>1, <1>2, <2>3, <2>4, <3>2, PassInTime
    <2>. QED BY <1>1, <1>2, <2>1, <2>2, <2>3, <2>4, OneMoves
  <1>8. ASSUME NEW a \in Attempts, Renew(e, a) PROVE LeaseInv'
    <2>1. PICK now \in Readings : BeginHeartbeat(a, now)
      BY <1>8 DEF Renew
    <2>2. /\ proc[e].step = "beat" /\ a \in proc[e].todo /\ UNCHANGED txn
          /\ beats' = beats \cup {[attempt |-> a, now |-> now]} /\ attempts[a].state # "absent"
          /\ UNCHANGED <<attempts, clock>>
          /\ \A f \in Executors \ {e} : proc'[f] = proc[f]
          /\ proc'[e].step = "beating" /\ proc'[e].todo = proc[e].todo
          /\ proc'[e].epoch = proc[e].epoch /\ proc'[e].held = proc[e].held
      BY <1>2, <1>8, <2>1 DEF Renew, Step, BeginHeartbeat, ActiveStates, Process, tables
    <2>3. BeatsOf(e)' /\ ClaimOf(e)' /\ \A b \in beats' : attempts'[b.attempt].state # "absent"
      BY <1>3, <1>4, <2>2 DEF BeatsOf, ClaimOf, Readings
    <2>4. e \in Prompt => InTimeFor(e)'
      BY <1>1, <1>2, <2>2, PassInTime DEF Served
    <2>. QED BY <1>1, <1>2, <1>5, <2>2, <2>3, <2>4, OneMoves
  <1>9. CASE Claim(e)
    <2>1. PICK now \in Readings : BeginClaim(e, proc[e].epoch, now)
      BY <1>9 DEF Claim
    <2>2. /\ proc[e].step = "claim" /\ UNCHANGED <<beats, clock, attempts>>
          /\ txn' = [NoTxn EXCEPT !.op = "claim", !.executor = e, !.epoch = proc[e].epoch, !.now = now]
          /\ \A f \in Executors \ {e} : proc'[f] = proc[f]
          /\ proc'[e].step = "claiming" /\ proc'[e].todo = proc[e].todo
          /\ proc'[e].epoch = proc[e].epoch /\ proc'[e].held = proc[e].held
      BY <1>2, <1>9, <2>1 DEF Claim, Step, BeginClaim, Process, tables
    <2>3. BeatsOf(e)' /\ ClaimOf(e)'
      BY <1>3, <1>4, <2>2 DEF BeatsOf, ClaimOf, Claiming, Readings, NoTxn
    <2>4. e \in Prompt => InTimeFor(e)'
      BY <1>1, <1>2, <2>2, PassInTime DEF Served
    <2>. QED BY <1>1, <1>2, <1>3, <1>5, <2>2, <2>3, <2>4, OneMoves
  <1>10. CASE \/ GuardClaim(e) \/ ClaimRefused(e) \/ Wake(e) \/ LoopRaises(e)
              \/ \E a \in Attempts : CollectRaised(e, a)
    <2>1. /\ UNCHANGED vars
          /\ \/ /\ proc[e].step = "guard" \/ (proc[e].step = "beat" /\ proc[e].todo = {})
                /\ Step(e, "claim") \/ Step(e, "rest")
             \/ Step(e, "unwinding")
             \/ proc[e].step = "rest" /\ Step(e, "reap")
          /\ proc[e].step # "beating"
      BY <1>10 DEF GuardClaim, ClaimRefused, Wake, LoopRaises, CollectRaised
    <2>2. /\ \A f \in Executors \ {e} : proc'[f] = proc[f]
          /\ \/ /\ proc[e].step = "guard" \/ (proc[e].step = "beat" /\ proc[e].todo = {})
                /\ proc'[e].step \in {"claim", "rest"}
             \/ proc'[e].step = "unwinding"
             \/ proc[e].step = "rest" /\ proc'[e].step = "reap"
          /\ proc'[e].todo = proc[e].todo
          /\ proc'[e].epoch = proc[e].epoch /\ proc'[e].held = proc[e].held
      BY <1>2, <2>1 DEF Step, Process
    <2>3. BeatsOf(e)' /\ ClaimOf(e)' /\ \A b \in beats' : attempts'[b.attempt].state # "absent"
      BY <1>3, <1>4, <2>1, <2>2 DEF BeatsOf, ClaimOf, vars
    <2>4. e \in Prompt => InTimeFor(e)'
      <3>1. CASE proc'[e].step = "unwinding"
        BY <3>1 DEF InTimeFor, Looping
      <3>2. CASE proc'[e].step # "unwinding"
        BY <1>1, <1>2, <2>2, <3>2, PassInTime DEF Served
      <3>. QED BY <3>1, <3>2
    <2>. QED BY <1>1, <1>2, <1>5, <2>1, <2>2, <2>3, <2>4, OneMoves
  <1>. QED BY <1>6, <1>7, <1>8, <1>9, <1>10 DEF Loop


\* A heartbeat that ends is the one its loop waits for, or nobody's.
LEMMA BeatInv ==
  ASSUME IInv, Processes, Holding, RoleInv, LeaseInv, MaxLag + 1 < LeaseSeconds,
         NEW b \in beats, Renewed(b) \/ RenewRaises(b)
  PROVE  LeaseInv'
  <1>. DEFINE x == b.attempt
              t == Earliest(b.now + LeaseSeconds, attempts[x].deadline)
  <1>1. /\ UNCHANGED <<clock, txn, roles, worker>> /\ beats' = beats \ {b}
        /\ \/ Renewed(b) /\ OwnedRow(x, b.now, FALSE) /\ attempts' = [attempts EXCEPT ![x].lease = t]
           \/ Renewed(b) /\ ~OwnedRow(x, b.now, FALSE) /\ UNCHANGED attempts
           \/ RenewRaises(b) /\ UNCHANGED attempts
    BY DEF Renewed, RenewRaises, Heartbeat, HeartbeatRejected, tables, roles
  <1>2. /\ attempts \in [Attempts -> AttemptRecord] /\ x \in Attempts /\ b.now \in Nat /\ clock \in Nat
        /\ attempts[x].state # "absent"
    BY DEF IInv, TypeOK, LeaseInv, OwnBeats
  <1>3. t \in Nat
    BY <1>2, ConstantsAssumption DEF Earliest, AttemptRecord
  <1>4. \A a \in Attempts :
          /\ attempts'[a].executor = attempts[a].executor /\ attempts'[a].epoch = attempts[a].epoch
          /\ attempts'[a].deadline = attempts[a].deadline /\ attempts'[a].state = attempts[a].state
          /\ a # x => attempts'[a].lease = attempts[a].lease
    <2>. HIDE DEF t, x
    <2>1. attempts' = [attempts EXCEPT ![x].lease = t] \/ UNCHANGED attempts
      BY <1>1
    <2>2. ASSUME NEW a \in Attempts
          PROVE  attempts'[a] = attempts[a] \/ (a = x /\ attempts'[a] = [attempts[a] EXCEPT !.lease = t])
      BY <1>2, <2>1
    <2>. QED BY <1>2, <2>2 DEF AttemptRecord
  <1>5. ASSUME NEW f \in Executors
        PROVE  /\ f \notin Beating(b) => proc'[f] = proc[f]
               /\ f \in Beating(b) =>
                    /\ Looping(f) /\ proc'[f].held = proc[f].held
                    /\ proc'[f].epoch = proc[f].epoch
                    /\ \/ Renewed(b) /\ proc'[f].step = "beat" /\ proc'[f].todo = proc[f].todo \ {x}
                       \/ proc'[f].step = "unwinding" /\ proc'[f].todo = proc[f].todo
    <2>1. proc[f] \in Process
      BY DEF Processes
    <2>2. CASE Renewed(b)
      <3>1. proc'[f] = IF f \in Beating(b) THEN [proc[f] EXCEPT !.step = "beat", !.todo = @ \ {x}]
                       ELSE proc[f]
        BY <2>2 DEF Renewed
      <3>. QED BY <2>1, <2>2, <3>1 DEF Process, Beating, Looping, Steps
    <2>3. CASE RenewRaises(b)
      <3>1. proc'[f] = IF f \in Beating(b) THEN [proc[f] EXCEPT !.step = "unwinding"] ELSE proc[f]
        BY <2>3 DEF RenewRaises
      <3>. QED BY <2>1, <2>3, <3>1 DEF Process, Beating, Looping, Steps
    <2>. QED BY <2>2, <2>3
  <1>6. ASSUME NEW f \in Executors, Looping(f), x \in proc[f].held
        PROVE  f \in Beating(b) /\ (f \in Prompt => b.now \in Readings)
    BY <1>6 DEF LeaseInv, OwnBeats, BeatsOf, Beating
  <1>7. \A f \in Executors : Looping(f)' => Looping(f)
    BY <1>5 DEF Looping
  <1>10. OwnClaims'
    BY <1>1, <1>5 DEF LeaseInv, OwnClaims, ClaimOf, Claiming, Readings
  <1>11. OwnBeats'
    <2>1. \A c \in beats' : c \in beats /\ attempts'[c.attempt].state # "absent"
      BY <1>1, <1>4 DEF LeaseInv, OwnBeats, IInv, TypeOK
    <2>2. ASSUME NEW f \in Executors PROVE BeatsOf(f)'
      <3>0. BeatsOf(f)
        BY DEF LeaseInv, OwnBeats
      <3>1. CASE f \notin Beating(b)
        BY <1>1, <1>5, <1>7, <2>1, <3>0, <3>1 DEF BeatsOf, Readings, Looping
      <3>2. CASE f \in Beating(b)
        <4>1. x \in proc[f].held /\ proc'[f].held = proc[f].held
          BY <1>5, <3>2 DEF Beating, RoleInv, Owning
        <4>2. \A c \in beats' : c.attempt \notin proc'[f].held
          BY <1>1, <1>5, <2>1, <3>0, <3>2, <4>1 DEF BeatsOf
        <4>. QED BY <4>2 DEF BeatsOf
      <3>. QED BY <3>1, <3>2
    <2>. QED BY <2>1, <2>2 DEF OwnBeats
  <1>12. ASSUME NEW f \in Prompt PROVE InTimeFor(f)'
    <2>1. f \in Executors /\ proc[f].held \subseteq Attempts
      BY ExecutorAssumption DEF Processes, Process
    <2>2. SUFFICES ASSUME Looping(f)', NEW a \in proc'[f].held, AtStake(a)'
                   PROVE  clock' < attempts'[a].lease /\ (Served(f, a)' => Lasts(a)')
      BY DEF InTimeFor
    <2>3. /\ a \in Attempts /\ a \in proc[f].held /\ Looping(f)
          /\ AtStake(a) /\ attempts'[a].deadline = attempts[a].deadline
      BY <1>1, <1>4, <1>5, <1>7, <2>1, <2>2 DEF AtStake
    <2>4. clock < attempts[a].lease /\ (Served(f, a) => Lasts(a))
      BY <2>2, <2>3 DEF LeaseInv, InTime, InTimeFor
    <2>5. CASE a # x
      <3>1. attempts'[a].lease = attempts[a].lease
        BY <1>4, <2>3, <2>5
      <3>2. Served(f, a)' => Served(f, a)
        BY <1>5, <2>1, <2>2, <2>5 DEF Served, Looping, Beating
      <3>. QED BY <1>1, <2>3, <2>4, <3>1, <3>2 DEF Lasts
    <2>6. CASE a = x
      <3>1. f \in Beating(b) /\ b.now \in Readings
        BY <1>6, <2>1, <2>3, <2>6
      <3>2. Renewed(b)
        BY <1>5, <2>1, <2>2, <3>1 DEF Looping
      <3>3. b.now <= clock /\ clock <= b.now + MaxLag
        BY <1>2, <3>1 DEF Readings
      <3>4. OwnedRow(x, b.now, FALSE)
        <4>1. attempts[a].lease \in Nat /\ attempts[a].deadline \in Nat
          BY <1>2, <2>3 DEF AttemptRecord
        <4>. QED BY <1>2, <2>3, <2>4, <2>6, <3>3, <4>1 DEF OwnedRow, AtStake
      <3>5. attempts'[x].lease = t
        <4>1. attempts' = [attempts EXCEPT ![x].lease = t]
          BY <3>2, <3>4 DEF Renewed, Heartbeat
        <4>. HIDE DEF t, x
        <4>. QED BY <1>2, <4>1 DEF AttemptRecord
      <3>6. attempts[x].deadline \in Nat /\ clock < attempts[x].deadline
        BY <1>2, <2>3, <2>6 DEF AttemptRecord, AtStake
      <3>7. MaxLag \in Nat /\ LeaseSeconds \in Nat
        BY ConstantsAssumption
      <3>8. clock < t /\ (clock + 1 < t \/ clock + 1 >= attempts[x].deadline)
        BY <1>2, <3>3, <3>6, <3>7 DEF Earliest
      <3>. HIDE DEF t, x
      <3>. QED BY <1>1, <2>3, <2>6, <3>5, <3>8 DEF Lasts
    <2>. QED BY <2>5, <2>6
  <1>. QED BY <1>10, <1>11, <1>12 DEF LeaseInv, InTime


\* A claim that ends gives its loop a lease that is fresh, or nothing.
LEMMA ClaimInv ==
  ASSUME IInv, Processes, Workers, Holding, RoleInv, LeaseInv, MaxLag + 1 < LeaseSeconds,
         ClaimedNothing \/ ClaimRaised \/ \E r \in Runs, a \in Attempts : Claimed(r, a)
  PROVE  LeaseInv'
  <1>. DEFINE None == UNCHANGED <<attempts, worker>>
              New(a) == /\ attempts[a].state = "absent" /\ attempts'[a].state = "running"
                        /\ attempts'[a].executor = txn.executor /\ attempts'[a].epoch = txn.epoch
                        /\ attempts'[a].lease = txn.now + LeaseSeconds
                        /\ attempts'[a].deadline = txn.now + DeadlineSeconds
                        /\ \A c \in Attempts \ {a} : worker'[c] = worker[c]
  <1>1. /\ UNCHANGED <<clock, roles, beats>>
        /\ None \/ \E a \in Attempts : New(a)
        /\ RowsStay
    <2>1. CASE ClaimedNothing \/ ClaimRaised
      BY <2>1, QueueKeepsRows DEF ClaimedNothing, ClaimRaised, Rollback, tables
    <2>2. ASSUME NEW r \in Runs, NEW a \in Attempts, Claimed(r, a)
          PROVE  UNCHANGED <<clock, roles, beats>> /\ New(a) /\ RowsStay
      <3>1. ClaimNext(r, a) /\ attempts \in [Attempts -> AttemptRecord] /\ worker \in [Attempts -> Worker]
        BY <2>2 DEF Claimed, IInv, TypeOK, Workers
      <3>2. PICK row : /\ row = [state |-> "running", run |-> r, epoch |-> txn.epoch,
                                 fence |-> fence + 1, executor |-> txn.executor,
                                 lease |-> txn.now + LeaseSeconds,
                                 deadline |-> txn.now + DeadlineSeconds]
                       /\ attempts' = [attempts EXCEPT ![a] = row]
        BY <3>1 DEF ClaimNext
      <3>3. attempts'[a] = row
        BY <3>1, <3>2
      <3>4. attempts[a].state = "absent" /\ UNCHANGED <<clock, roles, beats>>
        BY <3>1 DEF ClaimNext, roles
      <3>5. \A c \in Attempts \ {a} : worker'[c] = worker[c]
        BY <2>2, <3>1 DEF Claimed
      <3>6. RowsStay
        BY <3>1, QueueKeepsRows
      <3>. QED BY <3>2, <3>3, <3>4, <3>5, <3>6
    <2>. QED BY <2>1, <2>2
  <1>2. ASSUME NEW f \in Executors
        PROVE  /\ ~Claiming(f) => proc'[f] = proc[f] /\ proc[f].step # "claiming"
               /\ Claiming(f) =>
                    /\ proc[f].step = "claiming"
                    /\ proc'[f].epoch = proc[f].epoch /\ proc'[f].todo = proc[f].todo
                    /\ \/ proc'[f].held = proc[f].held /\ proc'[f].step \in {"rest", "unwinding"}
                       \/ /\ proc'[f].step = "guard"
                          /\ \E a \in Attempts : New(a) /\ proc'[f].held = proc[f].held \cup {a}
    <2>. HIDE DEF New
    <2>0. proc[f] \in Process
      BY DEF Processes
    <2>1. proc[f].step = "claiming" => Claiming(f)
      BY DEF LeaseInv, OwnClaims, ClaimOf
    <2>2. Claiming(f) => proc[f].step = "claiming"
      BY DEF Claiming
    <2>3. CASE ClaimedNothing
      <3>1. proc'[f] = IF Claiming(f) THEN [proc[f] EXCEPT !.step = "rest"] ELSE proc[f]
        BY <2>3 DEF ClaimedNothing
      <3>. QED BY <2>0, <2>1, <2>2, <3>1 DEF Process
    <2>4. CASE ClaimRaised
      <3>1. proc'[f] = IF Claiming(f) THEN [proc[f] EXCEPT !.step = "unwinding"] ELSE proc[f]
        BY <2>4 DEF ClaimRaised
      <3>. QED BY <2>0, <2>1, <2>2, <3>1 DEF Process
    <2>5. ASSUME NEW r \in Runs, NEW a \in Attempts, Claimed(r, a), NEW c \in Attempts, New(c)
          PROVE  c = a /\ proc'[f] = IF Claiming(f) THEN [proc[f] EXCEPT !.step = "guard", !.held = @ \cup {a}]
                                     ELSE proc[f]
      <3>1. ClaimNext(r, a) /\ attempts[c].state # attempts'[c].state
        BY <2>5 DEF Claimed, New
      <3>2. c = a
        BY <3>1, ClaimNextMoves
      <3>. QED BY <2>5, <3>2 DEF Claimed
    <2>6. CASE \E r \in Runs, a \in Attempts : Claimed(r, a)
      <3>1. PICK r \in Runs, a \in Attempts : Claimed(r, a)
        BY <2>6
      <3>2. ~None
        <4>1. ClaimNext(r, a) /\ attempts \in [Attempts -> AttemptRecord]
          BY <3>1 DEF Claimed, IInv, TypeOK
        <4>2. attempts[a].state = "absent" /\ \E row : row.state = "running" /\ attempts' = [attempts EXCEPT ![a] = row]
          BY <4>1 DEF ClaimNext
        <4>. QED BY <4>1, <4>2
      <3>3. PICK c \in Attempts : New(c)
        BY <1>1, <3>2
      <3>4. c = a /\ proc'[f] = IF Claiming(f) THEN [proc[f] EXCEPT !.step = "guard", !.held = @ \cup {a}]
                                ELSE proc[f]
        BY <2>5, <3>1, <3>3
      <3>5. Claiming(f) => proc'[f].step = "guard" /\ proc'[f].held = proc[f].held \cup {a}
                           /\ proc'[f].epoch = proc[f].epoch /\ proc'[f].todo = proc[f].todo
        BY <2>0, <3>4 DEF Process
      <3>. QED BY <2>1, <2>2, <3>3, <3>4, <3>5
    <2>. QED BY <2>3, <2>4, <2>6
  <1>. HIDE DEF New
  <1>3. \A f \in Executors : Looping(f)' => Looping(f)
    BY <1>2 DEF Looping, Steps
  <1>4. \A f \in Executors : \A a \in proc[f].held : a \in Attempts /\ attempts[a].state # "absent"
    BY HeldRows DEF Processes, Process
  <1>7. OwnClaims'
    BY <1>2 DEF OwnClaims, ClaimOf
  <1>8. OwnBeats'
    <2>1. \A b \in beats : b.attempt \in Attempts /\ attempts[b.attempt].state # "absent"
                           /\ attempts'[b.attempt].state # "absent"
      BY <1>1 DEF LeaseInv, OwnBeats, IInv, TypeOK, RowsStay, RowStays
    <2>2. ASSUME NEW f \in Executors PROVE BeatsOf(f)'
      <3>0. BeatsOf(f)
        BY DEF LeaseInv, OwnBeats
      <3>1. CASE Claiming(f)
        <4>1. \A b \in beats : b.attempt \notin proc[f].held
          BY <1>2, <3>0, <3>1 DEF BeatsOf, Looping, Steps
        <4>2. \A b \in beats : b.attempt \notin proc'[f].held
          BY <1>2, <2>1, <3>1, <4>1 DEF New
        <4>. QED BY <1>1, <4>2 DEF BeatsOf
      <3>2. CASE ~Claiming(f)
        BY <1>1, <1>2, <3>0, <3>2 DEF BeatsOf, Looping, Readings
      <3>. QED BY <3>1, <3>2
    <2>. QED BY <1>1, <2>1, <2>2 DEF OwnBeats
  <1>9. ASSUME NEW f \in Prompt PROVE InTimeFor(f)'
    <2>1. f \in Executors
      BY ExecutorAssumption
    <2>2. SUFFICES ASSUME Looping(f)', NEW a \in proc'[f].held, AtStake(a)'
                   PROVE  clock' < attempts'[a].lease /\ (Served(f, a)' => Lasts(a)')
      BY DEF InTimeFor
    <2>3. Looping(f)
      BY <1>3, <2>1, <2>2
    <2>4. CASE a \in proc[f].held
      <3>1. a \in Attempts /\ attempts[a].state # "absent"
        BY <1>4, <2>1, <2>4
      <3>2. worker'[a] = worker[a]
        BY <1>1, <3>1 DEF New
      <3>3. AtStake(a) /\ attempts'[a].lease = attempts[a].lease /\ attempts'[a].deadline = attempts[a].deadline
        BY <1>1, <2>2, <3>1, <3>2 DEF AtStake, RowsStay, RowStays
      <3>4. clock < attempts[a].lease /\ (Served(f, a) => Lasts(a))
        BY <2>3, <2>4, <3>3 DEF LeaseInv, InTime, InTimeFor
      <3>5. Served(f, a)' => Served(f, a)
        BY <1>2, <2>1 DEF Served
      <3>. QED BY <1>1, <3>3, <3>4, <3>5 DEF Lasts
    <2>5. CASE a \notin proc[f].held
      <3>1. Claiming(f) /\ a \in Attempts /\ New(a)
        BY <1>2, <2>1, <2>2, <2>5
      <3>2. txn.now \in Readings
        BY <1>2, <2>1, <3>1 DEF LeaseInv, OwnClaims, ClaimOf
      <3>3. txn.now \in Nat /\ clock \in Nat /\ txn.now <= clock /\ clock <= txn.now + MaxLag
        BY <3>2 DEF Readings, IInv, TypeOK
      <3>4. clock + 1 < txn.now + LeaseSeconds
        BY <3>3, ConstantsAssumption
      <3>. QED BY <1>1, <3>1, <3>3, <3>4, ConstantsAssumption DEF New, Lasts
    <2>. QED BY <2>4, <2>5
  <1>. QED BY <1>7, <1>8, <1>9 DEF LeaseInv, InTime

\* The clock moves while every prompt loop is at rest, with all its leases served.
LEMMA TimeInv ==
  ASSUME IInv, Processes, Holding, RoleInv, LeaseInv, TimePasses
  PROVE  LeaseInv'
  <1>1. UNCHANGED <<attempts, txn, beats, roles, worker>> /\ clock' = clock + 1
    BY DEF TimePasses, Tick, tables, roles
  <1>2. ASSUME NEW f \in Executors
        PROVE  /\ proc'[f].epoch = proc[f].epoch /\ proc'[f].held = proc[f].held
               /\ proc'[f].todo = proc[f].todo
               /\ \/ proc'[f].step = proc[f].step /\ (proc[f].step = "rest" => proc[f].held = {})
                  \/ proc[f].step = "rest" /\ proc'[f].step = "reap"
    BY DEF TimePasses, Processes, Process
  <1>3. \A f \in Prompt : f \in Executors /\ (Looping(f) => proc[f].step = "rest")
    BY ExecutorAssumption DEF TimePasses
  <1>4. \A f \in Executors : Looping(f)' => Looping(f)
    BY <1>2 DEF Looping, Steps
  <1>7. OwnClaims'
    BY <1>1, <1>2, <1>3 DEF LeaseInv, OwnClaims, ClaimOf, Claiming, Looping, Steps
  <1>8. OwnBeats'
    <2>1. ASSUME NEW f \in Executors PROVE BeatsOf(f)'
      <3>1. BeatsOf(f) /\ (Looping(f)' => Looping(f))
        BY <1>4 DEF LeaseInv, OwnBeats
      <3>2. f \in Prompt /\ Looping(f) => \A b \in beats : b.attempt \notin proc[f].held
        BY <1>3, <3>1 DEF BeatsOf
      <3>. QED BY <1>1, <1>2, <3>1, <3>2 DEF BeatsOf
    <2>. QED BY <1>1, <2>1 DEF LeaseInv, OwnBeats
  <1>9. ASSUME NEW f \in Prompt PROVE InTimeFor(f)'
    <2>1. SUFFICES ASSUME Looping(f)', NEW a \in proc'[f].held, AtStake(a)'
                   PROVE  clock' < attempts'[a].lease /\ (Served(f, a)' => Lasts(a)')
      BY DEF InTimeFor
    <2>2. f \in Executors /\ proc[f].step = "rest" /\ Looping(f) /\ a \in proc[f].held
          /\ proc'[f].step = "reap"
      BY <1>2, <1>3, <1>4, <2>1
    <2>3. a \in Attempts /\ clock \in Nat /\ attempts[a].lease \in Nat /\ attempts[a].deadline \in Nat
      BY <2>2 DEF IInv, TypeOK, AttemptRecord, Processes, Process
    <2>4. AtStake(a) /\ clock + 1 < attempts[a].deadline
      BY <1>1, <2>1, <2>3 DEF AtStake
    <2>5. Lasts(a)
      BY <2>2, <2>4 DEF LeaseInv, InTime, InTimeFor, Served
    <2>. QED BY <1>1, <2>2, <2>3, <2>4, <2>5 DEF Lasts, Served
  <1>. QED BY <1>7, <1>8, <1>9 DEF LeaseInv, InTime

\* The loop keeps its threads' leases alive, through drains, stops, failed reads
\* and slow transactions: as long as a running process keeps its role, a clock
\* reading is younger than the lease by more than a tick, and the loop makes its
\* pass every tick, no Attempt of it that is before its deadline is ever expired.
THEOREM LeasesAreKept ==
  ASSUME RoleMayLapse = FALSE, MaxLag + 1 < LeaseSeconds
  PROVE  ExecSpec => []LeasesKept
  <1>1. ExecInit => ExecIInv /\ RoleInv /\ LeaseInv
    <2>1. ASSUME ExecInit PROVE LeaseInv
      <3>1. \A e \in Executors : proc[e] = Down
        BY <2>1 DEF ExecInit
      <3>2. beats = {}
        BY <2>1 DEF ExecInit, Init
      <3>. QED BY <3>1, <3>2, ExecutorAssumption
           DEF Down, RoleInv, RolesHeld, Owning, OwnClaims, ClaimOf, OwnBeats, BeatsOf, InTime,
               InTimeFor, Looping, LeaseInv
    <2>. QED BY <2>1, ExecInitIInv, ExecInitRole
  <1>2. ExecIInv /\ RoleInv /\ LeaseInv /\ [ExecNext]_execVars => ExecIInv' /\ RoleInv' /\ LeaseInv'
    <2>. SUFFICES ASSUME ExecIInv, RoleInv, LeaseInv, [ExecNext]_execVars PROVE LeaseInv'
      BY ExecNextIInv, ExecNextRole
    <2>0. IInv /\ TypeOK /\ Processes /\ Workers /\ Threads /\ Holding
      BY DEF ExecIInv, IInv
    <2>1. CASE LifeCycle
      BY <2>0, <2>1, LifeInv
    <2>2. CASE \E e \in Executors : Loop(e)
      BY <2>0, <2>2, LoopInv
    <2>3. CASE Database
      BY <2>0, <2>3, BeatInv, ClaimInv, AsideSteps DEF Database
    <2>4. CASE \/ \E a \in Attempts : Thread(a) \/ Work(a)
               \/ \E r \in Runs : Cancel(r) \/ \E q \in Requests : Submit(r, q)
               \/ UNCHANGED execVars
      BY <2>0, <2>4, AsideSteps
    <2>5. CASE TimePasses
      BY <2>0, <2>5, TimeInv
    <2>. QED BY <2>1, <2>2, <2>3, <2>4, <2>5 DEF ExecNext, LifeCycle
  <1>3. LeaseInv => LeasesKept
    BY DEF LeaseInv, InTime, InTimeFor, AtStake, LeasesKept
  <1>. QED BY <1>1, <1>2, <1>3, PTL DEF ExecSpec

-----------------------------------------------------------------------------
(* What the queue promises, of the processes over it. *)

\* The processes, through their crashes, drains and database errors, take every
\* Run through the abstract life cycle: queued, claimed at most once, terminal for
\* ever, and its result visible exactly when it succeeded.
THEOREM ExecRefinesLifecycle == ExecSpec => ImplementsLifecycle
  BY ExecRefinesQueue, RefinesLifecycle DEF ImplementsQueue

\* No Run is ever executed by two threads, also not when the process of the first
\* crashed, was drained or lost its lease while its thread went on.
OneExecution ==
    \A a, b \in Attempts :
      worker[a].pc \notin {"none", "killed"} /\ worker[b].pc \notin {"none", "killed"}
      /\ attempts[a].run = attempts[b].run => a = b

\* A thread starts with its Attempt, and a Run is claimed once.
THEOREM ExecutedOnce == ExecSpec => []OneExecution
  <1>1. ExecInit => ExecIInv
    BY ExecInitIInv
  <1>2. ExecIInv /\ [ExecNext]_execVars => ExecIInv'
    BY ExecNextIInv
  <1>3. ASSUME ExecIInv PROVE OneExecution
    <2>1. \A a \in Attempts : worker[a].pc \notin {"none", "killed"} => attempts[a].state # "absent"
      BY <1>3 DEF ExecIInv, Threads, Unclaimed
    <2>2. \A a \in Attempts : attempts[a].state # "absent" => attempts[a].run \in Runs
      BY <1>3 DEF ExecIInv, IInv, RunAttemptAgreement
    <2>3. NoReplay
      BY <1>3 DEF ExecIInv, IInv
    <2>. QED BY <2>1, <2>2, <2>3 DEF NoReplay, OneExecution
  <1>. QED BY <1>1, <1>2, <1>3, PTL DEF ExecSpec
-----------------------------------------------------------------------------
(* What a thread records of its deadline. *)

\* A deadline is recorded by a thread that saw it pass, in a call that reads the
\* clock after that.
LateOnly ==
    /\ \A a \in Attempts : worker[a].pc = "terminal" /\ worker[a].write.target = "timed_out" =>
         clock >= attempts[a].deadline
    /\ txn.op = "fail" /\ txn.write.target = "timed_out" =>
         txn.now >= attempts[txn.attempt].deadline

NeverTimedOut == \A a \in Attempts : attempts[a].state # "timed_out"

\* A thread goes to record its deadline only when the clock has passed it.
LEMMA ThreadsTimeOut ==
  ASSUME ExecIInv, [ExecNext]_execVars, NEW a \in Attempts,
         worker'[a].pc = "terminal", worker'[a].write.target = "timed_out"
  PROVE  worker'[a] = worker[a] \/ (attempts[a].state # "absent" /\ clock >= attempts[a].deadline)
  <1>0. worker \in [Attempts -> Worker]
    BY DEF ExecIInv, Workers
  <1>1. ASSUME NEW b \in Attempts, NEW pc \in WorkerSteps \ {"terminal"}, Goto(b, pc)
        PROVE  worker'[a] = worker[a]
    BY <1>0, <1>1 DEF Goto, Worker
  <1>2. ASSUME NEW b \in Attempts, NEW w, Fail(b, w), w.target # "timed_out"
        PROVE  worker'[a] = worker[a]
    BY <1>0, <1>2 DEF Fail
  <1>3. CASE UNCHANGED worker
    BY <1>3
  <1>4. ASSUME NEW b \in Attempts, CheckRaises(b)
        PROVE  worker'[a] = worker[a] \/ (attempts[a].state # "absent" /\ clock >= attempts[a].deadline)
    <2>1. CASE clock >= attempts[b].deadline /\ Fail(b, TimedOut)
      <3>1. attempts[b].state # "absent"
        BY <1>4 DEF CheckRaises, ExecIInv, Threads, Unclaimed
      <3>2. a = b \/ worker'[a] = worker[a]
        BY <1>0, <2>1 DEF Fail
      <3>. QED BY <2>1, <3>1, <3>2
    <2>2. CASE Fail(b, Cancelled) \/ Goto(b, "rejected")
      BY <1>1, <1>2, <2>2 DEF Cancelled, WorkerSteps
    <2>. QED BY <1>4, <2>1, <2>2 DEF CheckRaises
  <1>5. ASSUME NEW b \in Attempts, CheckErrs(b) PROVE worker'[a] = worker[a]
    <2>1. PICK code : Fail(b, Failed(code))
      BY <1>5 DEF CheckErrs
    <2>. QED BY <1>2, <2>1 DEF Failed
  <1>6. ASSUME NEW b \in Attempts, \/ CheckPasses(b) \/ BeginCall(b) \/ CallRefused(b) \/ HandleRejection(b)
                                   \/ RejectionErrs(b) \/ HandlerReturns(b) \/ Prepared(b) \/ CallRejected(b)
        PROVE  worker'[a] = worker[a]
    <2>1. \/ \E pc \in WorkerSteps \ {"terminal"} : Goto(b, pc)
          \/ Fail(b, Cancelled)
      BY <1>6 DEF CheckPasses, BeginCall, CallRefused, HandleRejection, RejectionErrs, HandlerReturns,
                  Prepared, CallRejected, AfterRejection, WorkerSteps
    <2>. QED BY <1>1, <1>2, <2>1 DEF Cancelled
  <1>7. ASSUME NEW b \in Attempts, HandlerRaises(b) \/ PrepareRaises(b) \/ CallIllegal(b) \/ CallRaises(b)
        PROVE  worker'[a] = worker[a]
    <2>1. \/ \E pc \in {"done", "raised"} : Goto(b, pc)
          \/ \E code \in {"execution_failed", "finalization_failed"} : Fail(b, Failed(code))
      <3>1. CallRaises(b) => txn.op \in {"finalize", "succeed", "fail"}
        BY DEF CallRaises, Suspended, ExecIInv, Threads, Calls
      <3>2. CASE CallRaises(b)
        BY <3>1, <3>2 DEF CallRaises
      <3>. QED BY <1>7, <3>2 DEF HandlerRaises, PrepareRaises, CallIllegal
    <2>. QED BY <1>1, <1>2, <2>1 DEF Failed, WorkerSteps
  <1>8. ASSUME NEW e \in Executors, Crash(e) PROVE worker'[a] = worker[a]
    BY <1>0, <1>8 DEF Crash, Worker
  <1>9. ASSUME NEW r \in Runs, NEW b \in Attempts, Claimed(r, b) PROVE worker'[a] = worker[a]
    <2>1. PICK pc \in {"check1", "killed"} : worker' = [worker EXCEPT ![b].pc = pc]
      BY <1>9 DEF Claimed
    <2>. QED BY <1>0, <2>1 DEF Worker
  <1>10. CASE CallCommits
    <2>1. \/ worker'[a] = worker[a]
          \/ \E pc \in {"prepare", "done"} : worker'[a] = [worker[a] EXCEPT !.pc = pc]
      BY <1>10 DEF CallCommits
    <2>. QED BY <1>0, <2>1 DEF Worker
  <1>11. CASE \E e \in Executors : Lifetime(e) \/ Loop(e) \/ Stop(e)
    BY <1>11, <1>3 DEF Lifetime, Start, Activate, ActivateRefused, Exit, Stop, Loop, Reap, GuardClaim, Claim,
                ClaimRefused, Wake, LoopRaises, Collect, CollectRaised, NotDue, Renew, RenewRefused
  <1>12. CASE Database
    BY <1>3, <1>6, <1>7, <1>9, <1>10, <1>12
       DEF Database, Renewed, RenewRaises, ClaimedNothing, ClaimRaised, OrphanRollback
  <1>13. CASE \/ Drain \/ Resume \/ Lapse \/ LateRenewal \/ TimePasses \/ UNCHANGED execVars
              \/ \E r \in Runs : Cancel(r) \/ \E q \in Requests : Submit(r, q)
    BY <1>3, <1>13 DEF Drain, Resume, Lapse, LateRenewal, TimePasses, execVars, Cancel, Submit
  <1>14. CASE \E b \in Attempts : Thread(b) \/ Work(b)
    BY <1>4, <1>5, <1>6, <1>7, <1>14 DEF Thread, Work
  <1>. QED BY <1>8, <1>11, <1>12, <1>13, <1>14 DEF ExecNext

\* The thread enters the transaction that is to record its failure.
RecordBegins(a) ==
    \E now \in Readings :
      /\ worker[a].pc = "terminal" /\ UNCHANGED <<attempts, clock>>
      /\ txn' = [NoTxn EXCEPT !.op = "fail", !.attempt = a, !.write = worker[a].write, !.now = now]

\* Nobody else begins such a call.
LEMMA CallsTimeOut ==
  ASSUME [ExecNext]_execVars
  PROVE  UNCHANGED txn \/ txn'.op # "fail" \/ \E a \in Attempts : RecordBegins(a)
  <1>1. ASSUME Rollback \/ Unlock PROVE txn'.op # "fail"
    BY <1>1 DEF Rollback, Unlock, NoTxn
  <1>2. ASSUME NEW a \in Attempts, BeginCall(a)
        PROVE  txn'.op # "fail" \/ RecordBegins(a)
    BY <1>2 DEF BeginCall, BeginWrite, NoTxn, tables, RecordBegins
  <1>3. CASE \E e \in Executors : Claim(e)
    BY <1>3 DEF Claim, BeginClaim, NoTxn
  <1>4. CASE Database
    BY <1>1, <1>4 DEF Database, Renewed, RenewRaises, Heartbeat, HeartbeatRejected, Claimed, ClaimNext,
                ClaimedNothing, ClaimRaised, CallCommits, MarkFinalizing, CommitSuccess,
                CommitTerminalFailure, OrphanRollback, CallRejected, CallIllegal, CallRaises
  <1>5. CASE \E a \in Attempts : (Thread(a) /\ ~BeginCall(a)) \/ Work(a)
    BY <1>5 DEF Thread, Work, CheckRaises, CheckErrs, CheckPasses, CallRefused, HandleRejection,
           RejectionErrs, HandlerReturns, HandlerRaises, Prepared, PrepareRaises, vars
  <1>6. CASE LifeCycle
    BY <1>6 DEF LifeCycle, Lifetime, Start, Activate, ActivateRefused, Exit, Stop, Crash, Drain, Resume, Lapse,
           LateRenewal, RoleActivate, RoleFrame, ActivateRole, RoleRelease, RoleDrain, RoleResume,
           RoleExpire, RoleLateRenewal, vars
  <1>7. ASSUME NEW e \in Executors, Loop(e), ~Claim(e) PROVE UNCHANGED txn
    <2>1. CASE Reap(e)
      BY <2>1 DEF Reap, ReapExpiredLeases, vars
    <2>2. CASE \E a \in Attempts : Renew(e, a)
      BY <2>2 DEF Renew, BeginHeartbeat
    <2>. QED BY <1>7, <2>1, <2>2 DEF Loop, GuardClaim, ClaimRefused, Wake, LoopRaises, Collect,
                                     CollectRaised, NotDue, RenewRefused, vars
  <1>8. CASE \/ TimePasses \/ UNCHANGED execVars
             \/ \E r \in Runs : Cancel(r) \/ \E q \in Requests : Submit(r, q)
    BY <1>8 DEF TimePasses, Tick, execVars, vars, Cancel, RequestCancel, Submit, Admit
  <1>9. CASE \E e \in Executors : Loop(e)
    BY <1>3, <1>7, <1>9
  <1>10. CASE \E a \in Attempts : Thread(a) \/ Work(a)
    BY <1>2, <1>5, <1>10
  <1>. QED BY <1>4, <1>6, <1>8, <1>9, <1>10 DEF ExecNext, LifeCycle

LEMMA LateOnlyKept ==
  ASSUME MaxLag = 0, ExecIInv, LateOnly, [ExecNext]_execVars
  PROVE  LateOnly'
  <1>0. IInv /\ [Next]_vars /\ TypeOK /\ clock \in Nat /\ attempts \in [Attempts -> AttemptRecord]
    BY ExecStep DEF ExecIInv, IInv, Workers, TypeOK
  <1>1. \A a \in Attempts : attempts[a].state # "absent" =>
          attempts'[a].deadline = attempts[a].deadline /\ attempts[a].deadline \in Nat
    BY <1>0, QueueKeepsClaims DEF RowStays, AttemptRecord
  <1>2. clock' \in Nat /\ clock' >= clock
    <2>1. UNCHANGED clock \/ clock' = clock + 1
      BY <1>0 DEF Next, RoleStep, RoleActivate, ActivateRole, RoleDrain, RoleResume, RoleExpire,
           RoleLateRenewal, RoleRelease, RoleFrame, BeginStep, BeginClaim, BeginWrite, BeginHeartbeat,
           WriteStep, ClaimNext, MarkFinalizing, CommitTerminalFailure, CommitSuccess, Rollback,
           Heartbeat, HeartbeatRejected, QueueStep, Admit, RequestCancel, ReapExpiredLeases, Tick, vars
    <2>. QED BY <1>0, <2>1
  <1>3. ASSUME NEW a \in Attempts, worker'[a].pc = "terminal", worker'[a].write.target = "timed_out"
        PROVE  clock' >= attempts'[a].deadline
    <2>1. attempts[a].state # "absent" /\ clock >= attempts[a].deadline
      BY <1>3, ThreadsTimeOut DEF LateOnly, ExecIInv, Threads, Unclaimed
    <2>. QED BY <1>0, <1>1, <1>2, <2>1
  <1>4. ASSUME txn'.op = "fail", txn'.write.target = "timed_out"
        PROVE  txn'.now >= attempts'[txn'.attempt].deadline
    <2>1. CASE UNCHANGED txn
      <3>1. txn.attempt \in Attempts /\ attempts[txn.attempt].state # "absent"
        BY <1>0, <1>4, <2>1 DEF IInv, TxnOwnsRow, ActiveStates
      <3>. QED BY <1>1, <1>4, <2>1, <3>1 DEF LateOnly
    <2>2. ASSUME NEW a \in Attempts, RecordBegins(a)
          PROVE  txn'.now >= attempts'[txn'.attempt].deadline
      <3>1. PICK now \in Readings :
              /\ worker[a].pc = "terminal" /\ UNCHANGED <<attempts, clock>>
              /\ txn'.now = now /\ txn'.attempt = a /\ txn'.write = worker[a].write
        BY <2>2 DEF RecordBegins, NoTxn
      <3>2. now = clock
        BY <1>0 DEF Readings
      <3>3. clock >= attempts[a].deadline
        BY <1>4, <3>1 DEF LateOnly
      <3>. QED BY <3>1, <3>2, <3>3
    <2>. QED BY <1>4, <2>1, <2>2, CallsTimeOut
  <1>. QED BY <1>3, <1>4 DEF LateOnly

\* A thread that finds its deadline passed never gets to record it: its write reads
\* the clock after the check did, the lease ended by the deadline, and the reaper
\* records the Run as lost instead.  (A reading that lags is one the clock of the
\* thread's own host, which made the check, could not give.)
THEOREM DeadlinesNotRecorded == ASSUME MaxLag = 0 PROVE ExecSpec => []NeverTimedOut
  <1>1. ExecInit => ExecIInv /\ LateOnly /\ NeverTimedOut
    <2>1. ASSUME ExecInit PROVE LateOnly /\ NeverTimedOut
      BY <2>1 DEF ExecInit, Init, LateOnly, NeverTimedOut, NoTxn
    <2>. QED BY <2>1, ExecInitIInv
  <1>2. ASSUME ExecIInv, LateOnly, NeverTimedOut, LeasesEndByDeadline, [ExecNext]_execVars
        PROVE  ExecIInv' /\ LateOnly' /\ NeverTimedOut'
    <2>0. IInv /\ [Next]_vars
      BY <1>2, ExecStep DEF ExecIInv, Workers
    <2>1. ASSUME NEW a \in Attempts, attempts'[a].state = "timed_out" PROVE FALSE
      <3>1. /\ txn.op = "fail" /\ txn.attempt = a /\ txn.write.target = "timed_out"
            /\ txn.now < attempts[a].lease
        BY <1>2, <2>0, <2>1, OnlyFailuresTimeOut DEF NeverTimedOut
      <3>2. txn.now >= attempts[a].deadline /\ attempts[a].lease <= attempts[a].deadline
        BY <1>2, <3>1 DEF LateOnly, LeasesEndByDeadline
      <3>3. txn.now \in Nat /\ attempts[a].lease \in Nat /\ attempts[a].deadline \in Nat
        BY <2>0 DEF IInv, TypeOK, Txn, AttemptRecord
      <3>. QED BY <3>1, <3>2, <3>3
    <2>. QED BY <1>2, <2>1, ExecNextIInv, LateOnlyKept DEF NeverTimedOut
  <1>3. ExecSpec => []LeasesEndByDeadline
    BY ExecRefinesQueue, LeasesWithinDeadlines, PTL DEF ImplementsQueue
  <1>. QED BY <1>1, <1>2, <1>3, PTL DEF ExecSpec

-----------------------------------------------------------------------------
(* What the handler read of its conversation. *)

\* From the handler's check to the commit.
Handled == {"check2", "mark", "marking", "prepare", "check3", "commit", "committing"}

\* The conversation is as long as the request froze it from the handler's check of
\* it to the commit, however long the uploads take and whatever is submitted,
\* cancelled or reaped meanwhile, unless the Attempt is taken from the thread.  So
\* commit_success never raises for a stale turn count.
FrozenTurnsHold ==
    /\ \A a \in Attempts : worker[a].pc \in Handled /\ attempts[a].state \in ActiveStates => TurnCountFresh(a)
    /\ txn.op = "succeed" /\ Suspended(txn.attempt) => TurnCountFresh(txn.attempt)

\* A thread reaches the stages after the handler from the handler's check, or was there.
LEMMA StagesInOrder ==
  ASSUME ExecIInv, [ExecNext]_execVars, NEW a \in Attempts, worker'[a].pc \in Handled
  PROVE  worker[a].pc \in Handled \/ (TurnCountFresh(a) /\ UNCHANGED vars)
  <1>0. worker \in [Attempts -> Worker]
    BY DEF ExecIInv, Workers
  <1>1. ASSUME NEW b \in Attempts, NEW pc \in WorkerSteps, Goto(b, pc), pc \in Handled => worker[b].pc \in Handled
        PROVE  worker[a].pc \in Handled
    BY <1>0, <1>1 DEF Goto, Worker
  <1>2. ASSUME NEW b \in Attempts, NEW w, Fail(b, w)
        PROVE  worker[a].pc \in Handled
    BY <1>0, <1>2 DEF Fail, Handled
  <1>3. UNCHANGED worker => worker[a].pc \in Handled
    OBVIOUS
  <1>4. ASSUME NEW b \in Attempts, CheckRaises(b) PROVE worker[a].pc \in Handled
    BY <1>1, <1>2, <1>4 DEF CheckRaises, WorkerSteps, Handled
  <1>5. ASSUME NEW b \in Attempts, CheckPasses(b) PROVE worker[a].pc \in Handled
    <2>1. PICK pc \in {"handler", "mark", "commit"} :
            Goto(b, pc) /\ (pc = "handler" \/ worker[b].pc \in {"check2", "check3"})
      BY <1>5 DEF CheckPasses
    <2>. QED BY <1>1, <2>1 DEF WorkerSteps, Handled
  <1>6. ASSUME NEW b \in Attempts, BeginCall(b) PROVE worker[a].pc \in Handled
    <2>1. PICK pc \in {"marking", "committing", "terminating"} :
            Goto(b, pc) /\ (pc = "terminating" \/ worker[b].pc \in {"mark", "commit"})
      BY <1>6 DEF BeginCall
    <2>. QED BY <1>1, <2>1 DEF WorkerSteps, Handled
  <1>7. ASSUME NEW b \in Attempts, \/ CheckErrs(b) \/ CallRefused(b) \/ HandleRejection(b) \/ RejectionErrs(b)
                                   \/ HandlerRaises(b) \/ PrepareRaises(b) \/ CallRejected(b) \/ CallIllegal(b)
        PROVE  worker[a].pc \in Handled
    <2>1. \/ \E pc \in {"done", "rejected", "raised"} : Goto(b, pc)
          \/ \E w : Fail(b, w)
      BY <1>7 DEF CheckErrs, CallRefused, AfterRejection, HandleRejection, RejectionErrs, HandlerRaises,
                  PrepareRaises, CallRejected, CallIllegal
    <2>. QED BY <1>1, <1>2, <2>1 DEF WorkerSteps, Handled
  <1>8. ASSUME NEW b \in Attempts, CallRaises(b) PROVE worker[a].pc \in Handled
    <2>1. txn.op \in {"finalize", "succeed", "fail"}
      BY <1>8 DEF CallRaises, Suspended, ExecIInv, Threads, Calls
    <2>2. Goto(b, "raised") \/ \E w : Fail(b, w)
      BY <1>8, <2>1 DEF CallRaises
    <2>. QED BY <1>1, <1>2, <2>2 DEF WorkerSteps, Handled
  <1>9. ASSUME NEW b \in Attempts, HandlerReturns(b)
        PROVE  worker[a].pc \in Handled \/ (TurnCountFresh(a) /\ UNCHANGED vars)
    <2>1. a = b \/ worker'[a] = worker[a]
      BY <1>0, <1>9 DEF HandlerReturns, Goto
    <2>. QED BY <1>9, <2>1 DEF HandlerReturns
  <1>10. ASSUME NEW b \in Attempts, Prepared(b) PROVE worker[a].pc \in Handled
    BY <1>1, <1>10 DEF Prepared, WorkerSteps, Handled
  <1>11. ASSUME NEW e \in Executors, Crash(e) PROVE worker[a].pc \in Handled
    <2>1. worker'[a] = worker[a] \/ worker'[a] = [worker[a] EXCEPT !.pc = "killed"]
      BY <1>11 DEF Crash
    <2>. QED BY <1>0, <2>1 DEF Worker, Handled
  <1>12. ASSUME NEW r \in Runs, NEW b \in Attempts, Claimed(r, b) PROVE worker[a].pc \in Handled
    <2>1. PICK pc \in {"check1", "killed"} : worker' = [worker EXCEPT ![b].pc = pc]
      BY <1>12 DEF Claimed
    <2>. QED BY <1>0, <2>1 DEF Worker, Handled
  <1>13. CASE CallCommits
    <2>1. \/ worker'[a] = worker[a]
          \/ /\ Suspended(a) /\ txn.op = "finalize"
             /\ worker'[a] = [worker[a] EXCEPT !.pc = "prepare"]
          \/ worker'[a] = [worker[a] EXCEPT !.pc = "done"]
      BY <1>13 DEF CallCommits
    <2>2. Suspended(a) /\ txn.op = "finalize" => worker[a].pc \in Handled
      BY DEF Suspended, ExecIInv, Threads, Calls, Handled
    <2>. QED BY <1>0, <2>1, <2>2 DEF Worker, Handled
  <1>14. CASE Database
    BY <1>3, <1>7, <1>8, <1>12, <1>13, <1>14
       DEF Database, Renewed, RenewRaises, ClaimedNothing, ClaimRaised, OrphanRollback
  <1>15. CASE \E b \in Attempts : Thread(b) \/ Work(b)
    BY <1>4, <1>5, <1>6, <1>7, <1>9, <1>10, <1>15 DEF Thread, Work
  <1>16. CASE \/ \E e \in Executors : Lifetime(e) \/ Loop(e) \/ Stop(e)
              \/ Drain \/ Resume \/ Lapse \/ LateRenewal \/ TimePasses \/ UNCHANGED execVars
              \/ \E r \in Runs : Cancel(r) \/ \E q \in Requests : Submit(r, q)
    <2>1. UNCHANGED worker
      BY <1>16 DEF Lifetime, Start, Activate, ActivateRefused, Exit, Stop, Loop, Reap, GuardClaim, Claim,
                ClaimRefused, Wake, LoopRaises, Collect, CollectRaised, NotDue, Renew, RenewRefused,
                Drain, Resume, Lapse, LateRenewal, TimePasses, execVars, Cancel, Submit
    <2>. QED BY <1>3, <2>1
  <1>. QED BY <1>11, <1>14, <1>15, <1>16 DEF ExecNext

\* No other Run of the conversation commits while a Run of it is active.
LEMMA TurnsKept ==
  ASSUME IInv, ConversationSingleFlight, [Next]_vars, NEW a \in Attempts,
         attempts[a].state \in ActiveStates, attempts'[a].state \in ActiveStates, TurnCountFresh(a)
  PROVE  TurnCountFresh(a)'
  <1>. DEFINE r == attempts[a].run
  <1>1. /\ r \in Runs /\ runs[r].state = attempts[a].state /\ runs[r] \in RunRecord
        /\ turns \in [Conversations -> Nat]
    BY DEF IInv, TypeOK, RunAttemptAgreement, ActiveStates
  <1>2. attempts'[a].run = r
    <2>1. CASE AttemptsEnd
      BY <2>1 DEF AttemptsEnd
    <2>2. ASSUME NEW s \in Runs, NEW b \in Attempts, ClaimNext(s, b) PROVE attempts'[a].run = r
      BY <2>2 DEF ClaimNext, ActiveStates, IInv, TypeOK
    <2>3. ASSUME NEW s \in Runs, NEW q \in Requests, NEW seen \in Nat, Admit(s, q, seen)
          PROVE  attempts'[a].run = r
      BY <2>3 DEF Admit
    <2>. QED BY <2>1, <2>2, <2>3, NextMoves
  <1>3. runs'[r].conv = runs[r].conv /\ runs'[r].seen = runs[r].seen
    <2>1. CASE RunsMove
      BY <1>1, <2>1 DEF RunsMove, RunMoves
    <2>2. ASSUME NEW s \in Runs, NEW q \in Requests, NEW seen \in Nat, Admit(s, q, seen)
          PROVE  runs'[r].conv = runs[r].conv /\ runs'[r].seen = runs[r].seen
      BY <1>1, <2>2, AdmitRows DEF ActiveStates
    <2>. QED BY <2>1, <2>2, StepOfRuns
  <1>4. runs[r].conv # NoConversation => turns'[runs[r].conv] = turns[runs[r].conv]
    <2>1. CASE ~CommitSuccess
      BY <2>1, OnlyCommitsSucceed
    <2>2. CASE CommitSuccess
      <3>. DEFINE s == attempts[txn.attempt].run
      <3>1. /\ txn.attempt \in Attempts /\ s \in Runs /\ runs[s].state = "finalizing"
            /\ attempts \in [Attempts -> AttemptRecord]
            /\ attempts' = [attempts EXCEPT ![txn.attempt].state = "succeeded"]
            /\ turns' = IF runs[s].conv = NoConversation THEN turns
                        ELSE [turns EXCEPT ![runs[s].conv] = turns[runs[s].conv] + 1]
        BY <2>2 DEF CommitSuccess, IInv, TypeOK, TxnOwnsRow, RunAttemptAgreement
      <3>2. txn.attempt # a
        BY <3>1 DEF AttemptRecord, ActiveStates
      <3>3. s # r
        BY <1>1, <3>1, <3>2 DEF IInv, NoReplay
      <3>4. runs[s].conv # runs[r].conv \/ runs[s].conv = NoConversation
        BY <1>1, <3>1, <3>3 DEF ConversationSingleFlight, Nonterminal, ActiveStates
      <3>. QED BY <1>1, <3>1, <3>4
    <2>. QED BY <2>1, <2>2
  <1>. QED BY <1>2, <1>3, <1>4 DEF TurnCountFresh, RunOf

\* The conversation belongs to this Run until it ends.
THEOREM TurnsStayFresh == ExecSpec => []FrozenTurnsHold
  <1>. DEFINE Fresh == \A a \in Attempts :
                         worker[a].pc \in Handled /\ attempts[a].state \in ActiveStates => TurnCountFresh(a)
  <1>1. ExecInit => ExecIInv /\ Fresh
    <2>1. ASSUME ExecInit PROVE Fresh
      BY <2>1 DEF ExecInit, Handled
    <2>. QED BY <2>1, ExecInitIInv
  <1>2. ASSUME ExecIInv, Fresh, ConversationSingleFlight, [ExecNext]_execVars
        PROVE  ExecIInv' /\ Fresh'
    <2>0. IInv /\ [Next]_vars
      BY <1>2, ExecStep DEF ExecIInv, Workers
    <2>1. ASSUME NEW a \in Attempts, worker'[a].pc \in Handled, attempts'[a].state \in ActiveStates
          PROVE  TurnCountFresh(a)'
      <3>1. CASE worker[a].pc \in Handled
        <4>1. attempts[a].state # "absent"
          BY <1>2, <3>1 DEF ExecIInv, Threads, Unclaimed, Handled
        <4>2. attempts[a].state \in ActiveStates
          BY <2>0, <2>1, <4>1, QueueKeepsClaims DEF RowStays
        <4>. QED BY <1>2, <2>0, <2>1, <3>1, <4>2, TurnsKept
      <3>2. CASE TurnCountFresh(a) /\ UNCHANGED vars
        BY <3>2 DEF TurnCountFresh, RunOf, vars, tables
      <3>. QED BY <1>2, <2>1, <3>1, <3>2, StagesInOrder
    <2>. QED BY <1>2, <2>1, ExecNextIInv
  <1>3. ASSUME ExecIInv, Fresh PROVE FrozenTurnsHold
    <2>1. ASSUME txn.op = "succeed", Suspended(txn.attempt) PROVE TurnCountFresh(txn.attempt)
      <3>1. txn.attempt \in Attempts /\ attempts[txn.attempt].state \in ActiveStates
        BY <1>3, <2>1 DEF ExecIInv, IInv, TxnOwnsRow
      <3>2. worker[txn.attempt].pc \in Handled
        BY <1>3, <2>1, <3>1 DEF Suspended, ExecIInv, Threads, Calls, Handled
      <3>. QED BY <1>3, <3>1, <3>2
    <2>. QED BY <1>3, <2>1 DEF FrozenTurnsHold
  <1>4. ExecSpec => []ConversationSingleFlight
    BY ExecRefinesQueue, SingleFlight, PTL DEF ImplementsQueue
  <1>. QED BY <1>1, <1>2, <1>3, <1>4, PTL DEF ExecSpec
=============================================================================
