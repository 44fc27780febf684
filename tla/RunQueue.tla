------------------------------ MODULE RunQueue ------------------------------
(***************************************************************************)
(* The PostgreSQL run queue: PostgresRunQueueRepository, the transactional *)
(* authority for admission, fair claims, fenced Attempt writes,            *)
(* cancellation and lease reaping.                                         *)
(*                                                                         *)
(* The callers (API requests, executor loops, worker threads) are free:    *)
(* any operation may be called at any time, with any claim, and with a     *)
(* clock reading that is already old when the transaction runs.  The       *)
(* callers' own control flow is module RunExecutor.                        *)
(*                                                                         *)
(* Every operation but heartbeat and activate_role runs under one advisory *)
(* lock (_QUEUE_LOCK).  The operations that first check the executor's     *)
(* role are two steps: Begin* takes the lock, reads the role rows and      *)
(* passes the check; the step named after the operation checks and writes  *)
(* the Attempt and Run rows and releases the lock.  The role rows are not  *)
(* protected by that lock and the isolation level is READ COMMITTED, so    *)
(* they may change between the two steps.                                  *)
(***************************************************************************)
EXTENDS Naturals, FiniteSets, RunStates

CONSTANTS
    Runs,                \* Run ids, numbered in the order of (created_at, run_id)
    Attempts,            \* Attempt ids; an id stands for its claim token too
    Operators,
    Conversations,
    Requests,            \* the requests clients submit
    Executors,           \* configured executor ids, one per deployment slot
    MAX_QUEUED_RUNS,
    MAX_ACTIVE_ATTEMPTS,
    LeaseSeconds,        \* Attempt lease granted by a claim or a heartbeat
    DeadlineSeconds,     \* hard Attempt deadline
    MaxLag,              \* bound: how old a caller's clock reading may be
    MaxClock,            \* bound: length of the modelled time line
    MaxEpoch,            \* bound: number of role activations
    MaxBeats,            \* bound: heartbeats under way at once
    NoConversation, NoRun, NoAttempt, NoExecutor

ASSUME ConstantsAssumption ==
    /\ Runs \subseteq Nat
    /\ NoRun \notin Runs /\ NoAttempt \notin Attempts
    /\ NoExecutor \notin Executors /\ NoConversation \notin Conversations
    /\ Requests \subseteq [op : Operators, key : Nat,
                           conv : Conversations \cup {NoConversation}]
    /\ MAX_QUEUED_RUNS \in Nat /\ MAX_ACTIVE_ATTEMPTS \in Nat
    /\ LeaseSeconds \in Nat \ {0} /\ DeadlineSeconds \in Nat
    /\ LeaseSeconds < DeadlineSeconds
    /\ MaxLag \in Nat /\ MaxClock \in Nat /\ MaxEpoch \in Nat /\ MaxBeats \in Nat

VARIABLES
    clock,        \* wall clock shared by the API and executor hosts
    runs,         \* table runs
    attempts,     \* table run_attempts
    fence,        \* run_fencing_epoch_seq
    turns,        \* number of turns of each conversation
    lastClaimed,  \* table run_operator_fairness: fence of the operator's last claim
    role,         \* the run_executor row of production_worker_role_activations
    activation,   \* the ACTIVE row of run_executor_activations
    txn,          \* the transaction holding _QUEUE_LOCK past its role check
    beats,        \* heartbeats past their role check (they take no _QUEUE_LOCK)
    overtakenBy   \* history: the operators served since this one was served,
                  \* while this one had a Run waiting

tables == <<runs, attempts, fence, turns, lastClaimed, overtakenBy>>
roles  == <<role, activation>>
vars   == <<clock, runs, attempts, fence, turns, lastClaimed, role, activation,
            txn, beats, overtakenBy>>

\* The worker-role row and what may happen to it.
Row == INSTANCE RoleRow WITH Owners <- Executors, NoOwner <- NoExecutor

FailureCodes == {"none", "cancelled", "deadline_exceeded", "execution_failed",
                 "finalization_failed", "executor_lost"}

\* What commit_terminal_failure may be asked to record.
TerminalWrites == {[target |-> "failed",    code |-> "execution_failed"],
                   [target |-> "failed",    code |-> "finalization_failed"],
                   [target |-> "timed_out", code |-> "deadline_exceeded"],
                   [target |-> "cancelled", code |-> "cancelled"]}

NoWrite == [target |-> "none", code |-> "none"]

RunRecord ==
    [state : RunLifecycleState \cup {"absent"}, version : Nat,
     op : Operators \cup {"none"}, key : Nat,
     conv : Conversations \cup {NoConversation},
     seen : Nat,                             \* conversation_turn_count
     result : Attempts \cup {NoAttempt},     \* owner of the visible manifest
     failure : FailureCodes]

AttemptRecord ==
    [state : RunLifecycleState \cup {"absent"}, run : Runs \cup {NoRun},
     epoch : Nat, fence : Nat, executor : Executors \cup {NoExecutor},
     lease : Nat, deadline : Nat]

Txn ==
    [op : {"none", "claim", "finalize", "succeed", "fail"},
     attempt : Attempts \cup {NoAttempt}, now : Nat,
     write : TerminalWrites \cup {NoWrite},
     executor : Executors \cup {NoExecutor}, epoch : Nat]

NoTxn == [op |-> "none", attempt |-> NoAttempt, now |-> 0, write |-> NoWrite,
          executor |-> NoExecutor, epoch |-> 0]

\* Every variable stays in the set its table, row or local value ranges over.
TypeOK ==
    /\ clock \in Nat
    /\ runs \in [Runs -> RunRecord]
    /\ attempts \in [Attempts -> AttemptRecord]
    /\ fence \in Nat
    /\ turns \in [Conversations -> Nat]
    /\ lastClaimed \in [Operators -> Nat]
    /\ role \in [owner : Executors \cup {NoExecutor},
                 state : {"standby", "active", "draining"}, live : BOOLEAN]
    /\ activation \in [epoch : Nat, executor : Executors \cup {NoExecutor}]
    /\ txn \in Txn
    /\ beats \subseteq [attempt : Attempts, now : Nat]
    /\ overtakenBy \in [Operators -> SUBSET (Operators \cup {"none"})]
-----------------------------------------------------------------------------
Init ==
    /\ clock = 0
    /\ runs = [r \in Runs |->
                 [state |-> "absent", version |-> 0, op |-> "none", key |-> 0,
                  conv |-> NoConversation, seen |-> 0, result |-> NoAttempt,
                  failure |-> "none"]]
    /\ attempts = [a \in Attempts |->
                     [state |-> "absent", run |-> NoRun, epoch |-> 0, fence |-> 0,
                      executor |-> NoExecutor, lease |-> 0, deadline |-> 0]]
    /\ fence = 0
    /\ turns = [c \in Conversations |-> 0]
    /\ lastClaimed = [o \in Operators |-> 0]
    /\ role = Row!Standby
    /\ activation = [epoch |-> 0, executor |-> NoExecutor]
    /\ txn = NoTxn
    /\ beats = {}
    /\ overtakenBy = [o \in Operators |-> {}]

QueuedRuns     == {r \in Runs : runs[r].state = "queued"}
ActiveAttempts == {a \in Attempts : attempts[a].state \in ActiveStates}
Nonterminal    == {"queued"} \cup ActiveStates
Waiting(o)     == \E r \in QueuedRuns : runs[r].op = o

\* The clock readings a caller may still be holding when its transaction runs.
Readings == {t \in 0..clock : clock <= t + MaxLag}

LockFree == txn.op = "none"
-----------------------------------------------------------------------------
(* Role authority.  The worker-role row as the processes' lease controllers *)
(* keep it (module WorkerLease, which implements RoleRow).                  *)

RoleFrame == UNCHANGED <<clock, tables, activation, txn, beats>>

RoleActivate(e) == Row!Activate(e) /\ RoleFrame
RoleDrain       == Row!Drain /\ RoleFrame
RoleResume      == Row!Resume /\ RoleFrame
RoleExpire      == Row!Expire /\ RoleFrame
RoleLateRenewal == Row!LateRenewal /\ RoleFrame
RoleRelease     == Row!Release /\ RoleFrame

\* _require_worker_role_lease
WorkerRoleLease(e, allowDraining) ==
    /\ role.owner = e /\ role.live
    /\ role.state \in {"active"} \cup (IF allowDraining THEN {"draining"} ELSE {})

\* _require_active_role (and _active_slot_for_claim, which finds the same row)
ActiveRole(e, epoch, allowDraining) ==
    /\ activation = [epoch |-> epoch, executor |-> e]
    /\ WorkerRoleLease(e, allowDraining)

\* activate_role: under its own lock (_ACTIVATION_LOCK), the previous ACTIVE
\* row becomes STANDBY and this slot's row takes the next epoch.
ActivateRole(e) ==
    /\ activation.epoch < MaxEpoch
    /\ WorkerRoleLease(e, FALSE)
    /\ activation' = [epoch |-> activation.epoch + 1, executor |-> e]
    /\ UNCHANGED <<clock, tables, role, txn, beats>>
-----------------------------------------------------------------------------
(* Admission.  A request whose (operator, key) exists is answered from the  *)
(* existing row (or refused as a conflict) and changes nothing.            *)

\* Mutant of Admissible: the queue limit is checked with <=.
AdmissibleAtLimit(q) ==
    /\ \A r \in Runs : runs[r].state = "absent" \/ runs[r].op # q.op \/ runs[r].key # q.key
    /\ Cardinality(QueuedRuns) <= MAX_QUEUED_RUNS
    /\ q.conv # NoConversation =>
         \A r \in Runs : ~(runs[r].conv = q.conv /\ runs[r].state \in Nonterminal)

\* Mutant of Admissible: the conversation check forgets CANCEL_REQUESTED.
AdmissibleCancelling(q) ==
    /\ \A r \in Runs : runs[r].state = "absent" \/ runs[r].op # q.op \/ runs[r].key # q.key
    /\ Cardinality(QueuedRuns) < MAX_QUEUED_RUNS
    /\ q.conv # NoConversation =>
         \A r \in Runs : ~(runs[r].conv = q.conv
                           /\ runs[r].state \in {"queued", "running", "finalizing"})

Admissible(q) ==
    /\ \A r \in Runs : runs[r].state = "absent" \/ runs[r].op # q.op \/ runs[r].key # q.key
    /\ Cardinality(QueuedRuns) < MAX_QUEUED_RUNS
    /\ q.conv # NoConversation =>
         \A r \in Runs : ~(runs[r].conv = q.conv /\ runs[r].state \in Nonterminal)

\* seen is the turn count the API read before the admission transaction.
Admit(r, q, seen) ==
    /\ LockFree
    /\ runs[r].state = "absent"
    /\ Admissible(q)
    /\ q.conv = NoConversation => seen = 0
    /\ q.conv # NoConversation => seen <= turns[q.conv]
    /\ runs' = [runs EXCEPT ![r] =
                  [state |-> "queued", version |-> 1, op |-> q.op, key |-> q.key,
                   conv |-> q.conv, seen |-> seen, result |-> NoAttempt,
                   failure |-> "none"]]
    /\ UNCHANGED <<clock, attempts, fence, turns, lastClaimed, overtakenBy, roles, txn, beats>>
-----------------------------------------------------------------------------
(* Writes shared by the operations.                                        *)

\* _write_run: the Run moves and its state_version counts the move.
Moved(run, target, code) ==
    [run EXCEPT !.state = target, !.version = @ + 1, !.failure = code]

\* The lock is released by commit or rollback.
Unlock == txn' = NoTxn

\* A transaction that raised, or whose caller died, writes nothing.
Rollback ==
    /\ ~LockFree
    /\ Unlock
    /\ UNCHANGED <<clock, tables, roles, beats>>
-----------------------------------------------------------------------------
(* Claims.                                                                 *)

BeginClaim(e, epoch, now) ==
    /\ LockFree
    /\ ActiveRole(e, epoch, FALSE)
    /\ txn' = [NoTxn EXCEPT !.op = "claim", !.executor = e, !.epoch = epoch, !.now = now]
    /\ UNCHANGED <<clock, tables, roles, beats>>

\* _fair_claim_select: each operator's oldest queued Run competes; the operator
\* claimed least recently wins (never claimed first), then the oldest Run.
Heads == {r \in QueuedRuns : \A s \in QueuedRuns : runs[s].op = runs[r].op => r <= s}

\* Mutant of FairClaim: the oldest Run wins, whoever its operator is.
OldestFirst(r) == r \in Heads /\ \A s \in Heads : r <= s

FairClaim(r) ==
    /\ r \in Heads
    /\ \A s \in Heads :
         \/ lastClaimed[runs[r].op] < lastClaimed[runs[s].op]
         \/ lastClaimed[runs[r].op] = lastClaimed[runs[s].op] /\ r <= s

\* claim_next past its role check, when capacity and a Run are there.  When
\* they are not, the transaction ends as Rollback does.
ClaimNext(r, a) ==
    /\ txn.op = "claim"
    /\ Cardinality(ActiveAttempts) < MAX_ACTIVE_ATTEMPTS
    /\ FairClaim(r)
    /\ attempts[a].state = "absent"
    /\ fence' = fence + 1
    /\ attempts' = [attempts EXCEPT ![a] =
                      [state |-> "running", run |-> r, epoch |-> txn.epoch,
                       fence |-> fence + 1, executor |-> txn.executor,
                       lease |-> txn.now + LeaseSeconds,
                       deadline |-> txn.now + DeadlineSeconds]]
    /\ runs' = [runs EXCEPT ![r] = Moved(@, "running", "none")]
    /\ lastClaimed' = [lastClaimed EXCEPT ![runs[r].op] = fence + 1]
    /\ overtakenBy' = [o \in Operators |->
                         IF o = runs[r].op THEN {}
                         ELSE IF Waiting(o) THEN overtakenBy[o] \cup {runs[r].op}
                         ELSE overtakenBy[o]]
    /\ Unlock
    /\ UNCHANGED <<clock, turns, roles, beats>>
-----------------------------------------------------------------------------
(* Writes of a claimed Attempt.                                            *)

\* The role half of _lock_owned_attempt.
OwnerActive(a) == ActiveRole(attempts[a].executor, attempts[a].epoch, TRUE)

\* Mutant of OwnedRow: the state of the Attempt is not checked.
OwnedInAnyState(a, now, allowDeadlineExpired) ==
    /\ attempts[a].lease > now
    /\ allowDeadlineExpired \/ attempts[a].deadline > now

\* The row half of _lock_owned_attempt.
OwnedRow(a, now, allowDeadlineExpired) ==
    /\ attempts[a].state \in ActiveStates
    /\ attempts[a].lease > now
    /\ allowDeadlineExpired \/ attempts[a].deadline > now

\* A write to an Attempt that is not active would be refused by OwnedRow: no
\* state changes while the lock is held, so it may as well not begin.
BeginWrite(op, a, write, now) ==
    /\ LockFree
    /\ attempts[a].state \in ActiveStates
    /\ OwnerActive(a)
    /\ txn' = [NoTxn EXCEPT !.op = op, !.attempt = a, !.write = write, !.now = now]
    /\ UNCHANGED <<clock, tables, roles, beats>>

\* Mutant of MoveBoth: the Run row is forgotten.
MoveAttemptOnly(a, target, code) ==
    attempts' = [attempts EXCEPT ![a].state = target] /\ UNCHANGED runs

\* Both rows move, or the transaction raises and neither does.
MoveBoth(a, target, code) ==
    /\ attempts' = [attempts EXCEPT ![a].state = target]
    /\ runs' = [runs EXCEPT ![attempts[a].run] = Moved(@, target, code)]

\* Mutant of MarkFinalizing: the manifest is made visible when finalization starts.
ShownEarly ==
    /\ txn.op = "finalize"
    /\ LET a == txn.attempt
           r == attempts[a].run
       IN
         /\ OwnedRow(a, txn.now, FALSE)
         /\ CanTransition(attempts[a].state, "finalizing")
         /\ attempts' = [attempts EXCEPT ![a].state = "finalizing"]
         /\ runs' = [runs EXCEPT ![r] = [Moved(@, "finalizing", "none") EXCEPT !.result = a]]
    /\ Unlock
    /\ UNCHANGED <<clock, fence, turns, lastClaimed, overtakenBy, roles, beats>>

MarkFinalizing ==
    /\ txn.op = "finalize"
    /\ LET a == txn.attempt IN
         /\ OwnedRow(a, txn.now, FALSE)
         /\ CanTransition(attempts[a].state, "finalizing")
         /\ runs[attempts[a].run].state = "running"
         /\ MoveBoth(a, "finalizing", "none")
    /\ Unlock
    /\ UNCHANGED <<clock, fence, turns, lastClaimed, overtakenBy, roles, beats>>

CommitTerminalFailure ==
    /\ txn.op = "fail"
    /\ LET a == txn.attempt
           t == txn.write.target
       IN
         /\ OwnedRow(a, txn.now, t = "timed_out")
         /\ CanTransition(attempts[a].state, t)
         /\ CanTransition(runs[attempts[a].run].state, t)
         /\ MoveBoth(a, t, txn.write.code)
    /\ Unlock
    /\ UNCHANGED <<clock, fence, turns, lastClaimed, overtakenBy, roles, beats>>

\* Mutant of CommitSuccess: the frozen turn count is not compared.
CommitStale ==
    /\ txn.op = "succeed"
    /\ LET a == txn.attempt
           r == attempts[a].run
       IN
         /\ OwnedRow(a, txn.now, FALSE)
         /\ attempts[a].state = "finalizing"
         /\ runs[r].state = "finalizing"
         /\ attempts' = [attempts EXCEPT ![a].state = "succeeded"]
         /\ runs' = [runs EXCEPT ![r] = [Moved(@, "succeeded", "none") EXCEPT !.result = a]]
         /\ turns' = IF runs[r].conv = NoConversation THEN turns
                     ELSE [turns EXCEPT ![runs[r].conv] = @ + 1]
    /\ Unlock
    /\ UNCHANGED <<clock, fence, lastClaimed, overtakenBy, roles, beats>>

\* Mutant of CommitSuccess: any active Attempt may succeed.
CommitCancelled ==
    /\ txn.op = "succeed"
    /\ LET a == txn.attempt
           r == attempts[a].run
       IN
         /\ OwnedRow(a, txn.now, FALSE)
         /\ runs[r].conv # NoConversation => turns[runs[r].conv] = runs[r].seen
         /\ attempts' = [attempts EXCEPT ![a].state = "succeeded"]
         /\ runs' = [runs EXCEPT ![r] = [Moved(@, "succeeded", "none") EXCEPT !.result = a]]
         /\ turns' = IF runs[r].conv = NoConversation THEN turns
                     ELSE [turns EXCEPT ![runs[r].conv] = @ + 1]
    /\ Unlock
    /\ UNCHANGED <<clock, fence, lastClaimed, overtakenBy, roles, beats>>

\* commit_success: manifest visibility, both rows and the conversation turn in
\* one transaction; append_turn raises when the frozen turn count is stale.
CommitSuccess ==
    /\ txn.op = "succeed"
    /\ LET a == txn.attempt
           r == attempts[a].run
       IN
         /\ OwnedRow(a, txn.now, FALSE)
         /\ attempts[a].state = "finalizing"
         /\ runs[r].state = "finalizing"
         /\ runs[r].conv # NoConversation => turns[runs[r].conv] = runs[r].seen
         /\ attempts' = [attempts EXCEPT ![a].state = "succeeded"]
         /\ runs' = [runs EXCEPT ![r] = [Moved(@, "succeeded", "none") EXCEPT !.result = a]]
         /\ turns' = IF runs[r].conv = NoConversation THEN turns
                     ELSE [turns EXCEPT ![runs[r].conv] = @ + 1]
    /\ Unlock
    /\ UNCHANGED <<clock, fence, lastClaimed, overtakenBy, roles, beats>>

BeginHeartbeat(a, now) ==
    /\ attempts[a].state \in ActiveStates
    /\ Cardinality(beats) < MaxBeats
    /\ OwnerActive(a)
    /\ beats' = beats \cup {[attempt |-> a, now |-> now]}
    /\ UNCHANGED <<clock, tables, roles, txn>>

\* Mutant of Earliest: the lease is set to a remaining time.
Remaining(s, t) == s - t

Earliest(s, t) == IF s < t THEN s ELSE t

Heartbeat(b) ==
    /\ OwnedRow(b.attempt, b.now, FALSE)
    /\ attempts' = [attempts EXCEPT ![b.attempt].lease =
                      Earliest(b.now + LeaseSeconds, attempts[b.attempt].deadline)]
    /\ beats' = beats \ {b}
    /\ UNCHANGED <<clock, runs, fence, turns, lastClaimed, overtakenBy, roles, txn>>

HeartbeatRejected(b) ==
    /\ beats' = beats \ {b}
    /\ UNCHANGED <<clock, tables, roles, txn>>
-----------------------------------------------------------------------------
(* Cancellation and reaping: neither checks the executor role.             *)

\* request_cancel by the Run's operator.
RequestCancel(r) ==
    /\ LockFree
    /\ \/ /\ runs[r].state = "queued"
          /\ runs' = [runs EXCEPT ![r] = Moved(@, "cancelled", "cancelled")]
          /\ UNCHANGED attempts
       \/ /\ runs[r].state \in {"running", "finalizing"}
          /\ \E a \in Attempts :
               /\ attempts[a].run = r /\ attempts[a].state = runs[r].state
               /\ MoveBoth(a, "cancel_requested", "none")
    /\ UNCHANGED <<clock, fence, turns, lastClaimed, overtakenBy, roles, txn, beats>>

Expired(now) == {a \in ActiveAttempts : attempts[a].lease <= now}

\* FOR UPDATE SKIP LOCKED: of the expired rows, those a heartbeat under way may
\* have locked can be left for a later pass.
Reapable(now) == {lost \in SUBSET Expired(now) :
                    Expired(now) \ {b.attempt : b \in beats} \subseteq lost}

\* Mutant of ReapExpiredLeases: the Run goes back to the queue.
Requeue(now, lost) ==
    /\ LockFree
    /\ lost \in Reapable(now) \ {{}}
    /\ \A a \in lost : runs[attempts[a].run].state \in ActiveStates
    /\ attempts' = [a \in Attempts |->
                      IF a \in lost THEN [attempts[a] EXCEPT !.state = "failed"]
                      ELSE attempts[a]]
    /\ runs' = [r \in Runs |->
                  IF \E a \in lost : attempts[a].run = r
                  THEN Moved(runs[r], "queued", "none")
                  ELSE runs[r]]
    /\ UNCHANGED <<clock, fence, turns, lastClaimed, overtakenBy, roles, txn, beats>>

\* reap_expired_leases: one transaction fails the expired Attempts it could lock.
ReapExpiredLeases(now, lost) ==
    /\ LockFree
    /\ lost \in Reapable(now) \ {{}}
    /\ \A a \in lost : runs[attempts[a].run].state \in ActiveStates
    /\ attempts' = [a \in Attempts |->
                      IF a \in lost THEN [attempts[a] EXCEPT !.state = "failed"]
                      ELSE attempts[a]]
    /\ runs' = [r \in Runs |->
                  IF \E a \in lost : attempts[a].run = r
                  THEN Moved(runs[r], "failed", "executor_lost")
                  ELSE runs[r]]
    /\ UNCHANGED <<clock, fence, turns, lastClaimed, overtakenBy, roles, txn, beats>>

Tick ==
    /\ clock < MaxClock
    /\ clock' = clock + 1
    /\ UNCHANGED <<tables, roles, txn, beats>>
-----------------------------------------------------------------------------
RoleStep ==
    \/ \E e \in Executors : RoleActivate(e) \/ ActivateRole(e)
    \/ RoleDrain \/ RoleResume \/ RoleExpire \/ RoleLateRenewal \/ RoleRelease

BeginStep ==
    \E now \in Readings :
      \/ \E e \in Executors : BeginClaim(e, activation.epoch, now)
      \/ \E a \in Attempts :
           \/ BeginWrite("finalize", a, NoWrite, now)
           \/ BeginWrite("succeed", a, NoWrite, now)
           \/ \E w \in TerminalWrites : BeginWrite("fail", a, w, now)
           \/ BeginHeartbeat(a, now)

WriteStep ==
    \/ \E r \in Runs, a \in Attempts : ClaimNext(r, a)
    \/ MarkFinalizing \/ CommitTerminalFailure \/ CommitSuccess \/ Rollback
    \/ \E b \in beats : Heartbeat(b) \/ HeartbeatRejected(b)

QueueStep ==
    \/ \E r \in Runs, q \in Requests :
         \E seen \in 0..(IF q.conv = NoConversation THEN 0 ELSE turns[q.conv]) : Admit(r, q, seen)
    \/ \E r \in Runs : RequestCancel(r)
    \/ \E now \in Readings : \E lost \in Reapable(now) : ReapExpiredLeases(now, lost)

Next == RoleStep \/ BeginStep \/ WriteStep \/ QueueStep \/ Tick

Spec == Init /\ [][Next]_vars
-----------------------------------------------------------------------------
(* Properties.                                                             *)

\* A Run and its Attempt never disagree: the Run row and the Attempt row are
\* always written by the same transaction, so whatever claim, cancellation,
\* heartbeat, reaping and commit interleave, an Attempt is in its Run's state,
\* a Run that is executing has an Attempt, and a Run not yet claimed has none.
RunAttemptAgreement ==
    /\ \A a \in Attempts : attempts[a].state # "absent" =>
         attempts[a].run \in Runs /\ runs[attempts[a].run].state = attempts[a].state
    /\ \A r \in Runs : runs[r].state \in ActiveStates => \E a \in Attempts : attempts[a].run = r
    /\ \A a \in Attempts : attempts[a].run \in Runs => attempts[a].state # "absent"

\* No silent replay: a Run whose Attempt was lost, cancelled or failed is never
\* claimed a second time.
NoReplay ==
    \A a, b \in Attempts : attempts[a].run \in Runs /\ attempts[a].run = attempts[b].run => a = b

\* The queue and the execution capacity are never exceeded; an Attempt whose
\* cancellation is requested keeps its slot.
CapacityRespected ==
    /\ Cardinality(QueuedRuns) <= MAX_QUEUED_RUNS
    /\ Cardinality(ActiveAttempts) <= MAX_ACTIVE_ATTEMPTS

\* A conversation has at most one Run that is not terminal.
ConversationSingleFlight ==
    \A r, s \in Runs :
      /\ runs[r].conv # NoConversation /\ runs[r].conv = runs[s].conv
      /\ runs[r].state \in Nonterminal /\ runs[s].state \in Nonterminal
      => r = s

\* A result is visible exactly for the SUCCEEDED Runs, and it is the manifest
\* of the Run's own succeeded Attempt: no cancelled, reaped or failed Attempt
\* ever shows a result.
ResultVisibility ==
    \A r \in Runs :
      /\ runs[r].result # NoAttempt <=> runs[r].state = "succeeded"
      /\ runs[r].result # NoAttempt =>
           /\ attempts[runs[r].result].run = r
           /\ attempts[runs[r].result].state = "succeeded"

\* Succeeded in conversation c.
SucceededIn(c) == {r \in Runs : runs[r].conv = c /\ runs[r].state = "succeeded"}

\* The turns of a conversation are those of its succeeded Runs: each success
\* appended one turn, at the position its request froze, and nothing else did.
TurnsOfSuccesses ==
    \A c \in Conversations :
      /\ turns[c] = Cardinality(SucceededIn(c))
      /\ \A r, s \in SucceededIn(c) : runs[r].seen = runs[s].seen => r = s
      /\ \A r \in SucceededIn(c) : runs[r].seen < turns[c]

\* A terminal Run row and a terminal Attempt row are never written again: not by
\* a late commit, a late heartbeat, the reaper or a second cancellation.
TerminalIsFinal ==
    [][/\ \A r \in Runs : runs[r].state \in TerminalStates => runs'[r] = runs[r]
       /\ \A a \in Attempts : attempts[a].state \in TerminalStates => attempts'[a] = attempts[a]
      ]_vars

\* state_version, which progress clients compare, counts the moves of the Run.
VersionCountsMoves ==
    [][\A r \in Runs :
         runs'[r].version = runs[r].version + (IF runs'[r].state = runs[r].state THEN 0 ELSE 1)
      ]_vars

\* Per-operator fairness of claims: while an operator has a Run waiting, no
\* other operator is served twice.
NoOvertaking ==
    [][\A r \in Runs : runs[r].state = "queued" /\ runs'[r].state = "running" =>
         \A o \in Operators : Waiting(o) /\ o # runs[r].op => runs[r].op \notin overtakenBy[o]
      ]_vars

\* The transaction past its role check writes an Attempt that is active, and
\* stays so while the lock is held: neither the reaper nor a cancellation nor
\* another commit can end it in between.  An Attempt row is never queued.
TxnOwnsRow ==
    /\ txn.op \in {"finalize", "succeed", "fail"} =>
         txn.attempt \in Attempts /\ attempts[txn.attempt].state \in ActiveStates
    /\ txn.op = "fail" => txn.write \in TerminalWrites
    /\ \A a \in Attempts : attempts[a].state # "queued"

\* The inductive invariant behind the theorems about the tables.
IInv == TypeOK /\ RunAttemptAgreement /\ NoReplay /\ ResultVisibility /\ TxnOwnsRow

\* The queue implements the abstract life cycle of its Runs.
Lifecycle == INSTANCE RunLifecycle WITH
    lifecycle <- [r \in Runs |-> runs[r].state],
    visible   <- {r \in Runs : runs[r].result # NoAttempt}

ImplementsLifecycle == Lifecycle!Spec
=============================================================================
