--------------------------- MODULE RunQueueProofs ---------------------------
(***************************************************************************)
(* Theorems about the run queue, for every number of Runs, Attempts,       *)
(* operators and executors, every capacity, lease and deadline.            *)
(***************************************************************************)
EXTENDS RunQueue, FiniteSetTheorems, WellFoundedInduction, TLAPS

\* What _write_run does to a Run row.
LEMMA MovedType ==
    ASSUME NEW run \in RunRecord, NEW t \in RunLifecycleState, NEW c \in FailureCodes
    PROVE  /\ Moved(run, t, c) \in RunRecord
           /\ Moved(run, t, c).state = t
           /\ Moved(run, t, c).version = run.version + 1
           /\ Moved(run, t, c).result = run.result
           /\ Moved(run, t, c).conv = run.conv /\ Moved(run, t, c).op = run.op
           /\ Moved(run, t, c).seen = run.seen
<1>1. run.version + 1 \in Nat
  BY DEF RunRecord
<1>2. Moved(run, t, c) \in RunRecord
  BY <1>1 DEF Moved, RunRecord
<1>. QED
  BY <1>2 DEF Moved, RunRecord

\* The empty tables satisfy the inductive invariant.
LEMMA InitIInv == ASSUME Init PROVE IInv
<1>1. TypeOK
  BY ConstantsAssumption
  DEF Init, TypeOK, Row!Standby, RunRecord, AttemptRecord, Txn, NoTxn, NoWrite, FailureCodes
<1>2. RunAttemptAgreement /\ NoReplay /\ TxnOwnsRow
  BY ConstantsAssumption
  DEF Init, RunAttemptAgreement, NoReplay, TxnOwnsRow, NoTxn, ActiveStates
<1>3. ResultVisibility
  BY DEF Init, ResultVisibility
<1>. QED
  BY <1>1, <1>2, <1>3 DEF IInv

\* The tables and the running transaction: what the invariant beyond the types
\* depends on.
queue == <<runs, attempts, txn>>

\* Steps that leave the queue tables alone leave the invariant alone.
LEMMA QueueUnchanged ==
    ASSUME IInv, TypeOK', UNCHANGED queue
    PROVE  IInv'
  BY DEF IInv, queue, RunAttemptAgreement, NoReplay, ResultVisibility, TxnOwnsRow

\* The lock is free after the step, and the tables satisfied the invariant.
LEMMA Unlocked ==
    ASSUME Unlock, \A a \in Attempts : attempts'[a].state # "queued"
    PROVE  TxnOwnsRow'
  BY DEF Unlock, TxnOwnsRow, NoTxn

\* A transaction that moves an active Attempt and its Run to the same state,
\* without making a result visible, keeps the tables consistent.
LEMMA MoveBothKeeps ==
    ASSUME IInv, NEW a \in Attempts, attempts[a].state \in ActiveStates,
           NEW t \in RunLifecycleState \ {"queued", "succeeded"}, NEW c \in FailureCodes,
           MoveBoth(a, t, c)
    PROVE  /\ runs' \in [Runs -> RunRecord]
           /\ attempts' \in [Attempts -> AttemptRecord]
           /\ RunAttemptAgreement' /\ NoReplay' /\ ResultVisibility'
           /\ \A b \in Attempts : attempts'[b].state # "queued"
<1>. DEFINE r == attempts[a].run
<1>0. /\ runs \in [Runs -> RunRecord] /\ attempts \in [Attempts -> AttemptRecord]
      /\ attempts[a].state # "absent"
  BY DEF IInv, TypeOK, ActiveStates
<1>1. r \in Runs /\ runs[r].state = attempts[a].state /\ runs[r] \in RunRecord
  BY <1>0 DEF IInv, RunAttemptAgreement
<1>2. /\ runs' = [runs EXCEPT ![r] = Moved(runs[r], t, c)]
      /\ attempts' = [attempts EXCEPT ![a].state = t]
  BY DEF MoveBoth
<1>3. runs' \in [Runs -> RunRecord]
  BY <1>0, <1>1, <1>2, MovedType
<1>4. attempts' \in [Attempts -> AttemptRecord]
  BY <1>0, <1>2 DEF AttemptRecord
<1>5. /\ runs'[r].state = t /\ runs'[r].result = runs[r].result
      /\ \A s \in Runs : s # r => runs'[s] = runs[s]
  BY <1>0, <1>1, <1>2, MovedType
<1>6. /\ attempts'[a].state = t /\ attempts'[a].run = r
      /\ \A b \in Attempts : b # a => attempts'[b] = attempts[b]
  BY <1>0, <1>2 DEF AttemptRecord
<1>7. \A b \in Attempts : attempts'[b].run = attempts[b].run
  BY <1>6
<1>8. \A b \in Attempts : b # a /\ attempts[b].run \in Runs => attempts[b].run # r
  BY <1>1 DEF IInv, NoReplay
<1>9. RunAttemptAgreement'
  <2>1. ASSUME NEW b \in Attempts, attempts'[b].state # "absent"
        PROVE  attempts'[b].run \in Runs /\ runs'[attempts'[b].run].state = attempts'[b].state
    <3>1. CASE b = a
      BY <3>1, <1>1, <1>5, <1>6
    <3>2. CASE b # a
      <4>1. attempts[b].run \in Runs /\ runs[attempts[b].run].state = attempts[b].state
        BY <3>2, <2>1, <1>6 DEF IInv, RunAttemptAgreement
      <4>. QED
        BY <4>1, <3>2, <1>5, <1>6, <1>8
    <3>. QED
      BY <3>1, <3>2
  <2>2. ASSUME NEW s \in Runs, runs'[s].state \in ActiveStates
        PROVE  \E b \in Attempts : attempts'[b].run = s
    <3>1. CASE s = r
      BY <3>1, <1>6
    <3>2. CASE s # r
      BY <3>2, <2>2, <1>5, <1>7 DEF IInv, RunAttemptAgreement
    <3>. QED
      BY <3>1, <3>2
  <2>3. ASSUME NEW b \in Attempts, attempts'[b].run \in Runs
        PROVE  attempts'[b].state # "absent"
    <3>1. t # "absent"
      BY DEF RunLifecycleState, ActiveStates, TerminalStates
    <3>. QED
      BY <3>1, <2>3, <1>6, <1>7 DEF IInv, RunAttemptAgreement
  <2>. QED
    BY <2>1, <2>2, <2>3 DEF RunAttemptAgreement
<1>10. NoReplay'
  BY <1>7 DEF IInv, NoReplay
<1>11. ResultVisibility'
  <2>. SUFFICES ASSUME NEW s \in Runs
       PROVE  /\ runs'[s].result # NoAttempt <=> runs'[s].state = "succeeded"
              /\ runs'[s].result # NoAttempt =>
                   /\ attempts'[runs'[s].result].run = s
                   /\ attempts'[runs'[s].result].state = "succeeded"
    BY DEF ResultVisibility
  <2>1. CASE s = r
    <3>1. runs[r].result = NoAttempt
      BY <1>1 DEF IInv, ResultVisibility, ActiveStates
    <3>. QED
      BY <3>1, <2>1, <1>5
  <2>2. CASE s # r
    <3>1. /\ runs[s].result # NoAttempt <=> runs[s].state = "succeeded"
          /\ runs[s].result # NoAttempt =>
               /\ attempts[runs[s].result].run = s
               /\ attempts[runs[s].result].state = "succeeded"
      BY DEF IInv, ResultVisibility
    <3>2. runs[s].result \in Attempts \cup {NoAttempt}
      BY <1>0 DEF RunRecord
    <3>3. runs[s].result # a
      BY <3>1, <2>2, ConstantsAssumption
    <3>. QED
      BY <3>1, <3>2, <3>3, <2>2, <1>5, <1>6
  <2>. QED
    BY <2>1, <2>2
<1>12. \A b \in Attempts : attempts'[b].state # "queued"
  BY <1>6 DEF IInv, TxnOwnsRow
<1>. QED
  BY <1>3, <1>4, <1>9, <1>10, <1>11, <1>12

\* A write of both rows that ends its transaction.
LEMMA EndOfWrite ==
    ASSUME TypeOK, Unlock,
           runs' \in [Runs -> RunRecord], attempts' \in [Attempts -> AttemptRecord],
           UNCHANGED <<clock, fence, turns, lastClaimed, overtakenBy, roles, beats>>,
           \A b \in Attempts : attempts'[b].state # "queued"
    PROVE  TypeOK' /\ TxnOwnsRow'
<1>1. txn' \in Txn
  BY ConstantsAssumption DEF Unlock, NoTxn, Txn, NoWrite
<1>. QED
  BY <1>1, Unlocked DEF TypeOK, roles

\* The tables, row by row, when the clock readings and the local state of the
\* callers change and the Run and Attempt rows do not.
LEMMA RoleStepKeeps == ASSUME IInv, RoleStep PROVE IInv'
<1>. USE DEF IInv, TypeOK
<1>1. UNCHANGED <<clock, tables, txn, beats>>
  BY DEF RoleStep, RoleActivate, ActivateRole, RoleDrain, RoleResume, RoleExpire,
         RoleLateRenewal, RoleRelease, RoleFrame
<1>. DEFINE RoleTypes ==
       /\ role' \in [owner : Executors \cup {NoExecutor},
                     state : {"standby", "active", "draining"}, live : BOOLEAN]
       /\ activation' \in [epoch : Nat, executor : Executors \cup {NoExecutor}]
<1>2. RoleTypes
  <2>1. ASSUME NEW e \in Executors, RoleActivate(e)  PROVE RoleTypes
    BY <2>1 DEF RoleActivate, RoleFrame, Row!Activate
  <2>2. ASSUME NEW e \in Executors, ActivateRole(e)  PROVE RoleTypes
    BY <2>2 DEF ActivateRole
  <2>3. ASSUME RoleDrain \/ RoleResume \/ RoleExpire \/ RoleLateRenewal  PROVE RoleTypes
    BY <2>3 DEF RoleDrain, RoleResume, RoleExpire, RoleLateRenewal, RoleFrame,
                Row!Drain, Row!Resume, Row!Expire, Row!LateRenewal
  <2>4. ASSUME RoleRelease  PROVE RoleTypes
    BY <2>4 DEF RoleRelease, RoleFrame, Row!Release, Row!Standby
  <2>. QED
    BY <2>1, <2>2, <2>3, <2>4 DEF RoleStep
<1>3. TypeOK'
  BY <1>1, <1>2 DEF tables
<1>. QED
  BY <1>1, <1>3, QueueUnchanged DEF tables, queue

LEMMA TickKeeps == ASSUME IInv, Tick PROVE IInv'
<1>1. TypeOK' /\ UNCHANGED queue
  BY DEF IInv, TypeOK, Tick, tables, roles, queue
<1>. QED
  BY <1>1, QueueUnchanged

LEMMA BeginStepKeeps == ASSUME IInv, BeginStep PROVE IInv'
<1>. SUFFICES ASSUME NEW now \in Readings,
                     \/ \E e \in Executors : BeginClaim(e, activation.epoch, now)
                     \/ \E a \in Attempts :
                          \/ BeginWrite("finalize", a, NoWrite, now)
                          \/ BeginWrite("succeed", a, NoWrite, now)
                          \/ \E w \in TerminalWrites : BeginWrite("fail", a, w, now)
                          \/ BeginHeartbeat(a, now)
              PROVE  IInv'
  BY DEF BeginStep
<1>0. now \in Nat /\ TypeOK
  BY DEF Readings, IInv, TypeOK
<1>1. ASSUME NEW e \in Executors, BeginClaim(e, activation.epoch, now)  PROVE IInv'
  <2>1. UNCHANGED <<clock, tables, roles, beats>>
    BY <1>1 DEF BeginClaim
  <2>2. txn' \in Txn /\ txn'.op = "claim"
    BY <1>0, <1>1 DEF BeginClaim, Txn, NoTxn, TypeOK
  <2>3. TypeOK'
    BY <1>0, <2>1, <2>2 DEF TypeOK, tables, roles
  <2>. QED
    BY <2>1, <2>2, <2>3
    DEF IInv, tables, RunAttemptAgreement, NoReplay, ResultVisibility, TxnOwnsRow
<1>2. ASSUME NEW op \in {"finalize", "succeed", "fail"}, NEW a \in Attempts,
             NEW w \in TerminalWrites \cup {NoWrite},
             op = "fail" => w \in TerminalWrites,
             BeginWrite(op, a, w, now)
      PROVE  IInv'
  <2>1. UNCHANGED <<clock, tables, roles, beats>> /\ attempts[a].state \in ActiveStates
    BY <1>2 DEF BeginWrite
  <2>2. txn' \in Txn /\ txn'.op = op /\ txn'.attempt = a /\ txn'.write = w
    BY <1>0, <1>2 DEF BeginWrite, Txn, NoTxn
  <2>3. TypeOK'
    BY <1>0, <2>1, <2>2 DEF TypeOK, tables, roles
  <2>. QED
    BY <1>2, <2>1, <2>2, <2>3
    DEF IInv, tables, RunAttemptAgreement, NoReplay, ResultVisibility, TxnOwnsRow
<1>3. ASSUME NEW a \in Attempts, BeginHeartbeat(a, now)  PROVE IInv'
  <2>1. UNCHANGED queue /\ TypeOK'
    BY <1>0, <1>3 DEF BeginHeartbeat, TypeOK, tables, roles, queue
  <2>. QED
    BY <2>1, QueueUnchanged
<1>. QED
  BY <1>1, <1>2, <1>3

LEMMA ClaimNextKeeps ==
    ASSUME IInv, NEW r \in Runs, NEW a \in Attempts, ClaimNext(r, a)
    PROVE  IInv'
<1>0. /\ TypeOK /\ RunAttemptAgreement /\ NoReplay /\ ResultVisibility /\ TxnOwnsRow
      /\ runs[r] \in RunRecord
  BY DEF IInv, TypeOK
<1>1. runs[r].state = "queued" /\ attempts[a].state = "absent"
  BY DEF ClaimNext, FairClaim, Heads, QueuedRuns
<1>2. \A b \in Attempts : attempts[b].run # r
  BY <1>0, <1>1 DEF RunAttemptAgreement, TxnOwnsRow
<1>3. /\ runs' = [runs EXCEPT ![r] = Moved(runs[r], "running", "none")]
      /\ runs' \in [Runs -> RunRecord]
      /\ runs'[r].state = "running" /\ runs'[r].result = runs[r].result
      /\ \A s \in Runs : s # r => runs'[s] = runs[s]
  <2>1. "running" \in RunLifecycleState /\ "none" \in FailureCodes
    BY DEF RunLifecycleState, ActiveStates, FailureCodes
  <2>. QED
    BY <1>0, <2>1, MovedType DEF ClaimNext, TypeOK
<1>4. /\ attempts' \in [Attempts -> AttemptRecord]
      /\ attempts'[a].state = "running" /\ attempts'[a].run = r
      /\ \A b \in Attempts : b # a => attempts'[b] = attempts[b]
  <2>. DEFINE new == [state |-> "running", run |-> r, epoch |-> txn.epoch,
                      fence |-> fence + 1, executor |-> txn.executor,
                      lease |-> txn.now + LeaseSeconds,
                      deadline |-> txn.now + DeadlineSeconds]
  <2>1. attempts' = [attempts EXCEPT ![a] = new]
    BY DEF ClaimNext
  <2>2. new \in AttemptRecord
    BY <1>0, ConstantsAssumption
    DEF TypeOK, Txn, AttemptRecord, RunLifecycleState, ActiveStates
  <2>. QED
    BY <1>0, <2>1, <2>2 DEF TypeOK
<1>5. TypeOK'
  <2>1. fence' \in Nat /\ lastClaimed' \in [Operators -> Nat]
    <3>1. fence + 1 \in Nat /\ lastClaimed \in [Operators -> Nat]
      BY <1>0 DEF TypeOK
    <3>2. fence' = fence + 1 /\ lastClaimed' = [lastClaimed EXCEPT ![runs[r].op] = fence + 1]
      BY DEF ClaimNext
    <3>. QED
      BY <3>1, <3>2
  <2>2. overtakenBy' \in [Operators -> SUBSET (Operators \cup {"none"})]
    <3>1. runs[r].op \in Operators \cup {"none"}
      BY <1>0 DEF RunRecord
    <3>2. overtakenBy' = [o \in Operators |->
                            IF o = runs[r].op THEN {}
                            ELSE IF Waiting(o) THEN overtakenBy[o] \cup {runs[r].op}
                            ELSE overtakenBy[o]]
      BY DEF ClaimNext
    <3>3. overtakenBy \in [Operators -> SUBSET (Operators \cup {"none"})]
      BY <1>0 DEF TypeOK
    <3>. QED
      BY <3>1, <3>2, <3>3
  <2>3. txn' \in Txn
    BY <1>0, ConstantsAssumption DEF ClaimNext, Unlock, NoTxn, Txn, NoWrite
  <2>4. UNCHANGED <<clock, turns, roles, beats>>
    BY DEF ClaimNext
  <2>. QED
    BY <1>0, <1>3, <1>4, <2>1, <2>2, <2>3, <2>4 DEF TypeOK, roles
<1>6. RunAttemptAgreement'
  BY <1>0, <1>1, <1>2, <1>3, <1>4 DEF RunAttemptAgreement
<1>7. NoReplay'
  BY <1>0, <1>2, <1>4 DEF NoReplay
<1>8. ResultVisibility'
  <2>1. \A s \in Runs : runs[s].result \in Attempts \cup {NoAttempt} /\ runs[s].result # a
    BY <1>0, <1>1, ConstantsAssumption DEF ResultVisibility, TypeOK, RunRecord
  <2>. QED
    BY <1>0, <1>1, <1>3, <1>4, <2>1 DEF ResultVisibility
<1>9. TxnOwnsRow'
  BY <1>0, <1>4, Unlocked DEF ClaimNext, TxnOwnsRow
<1>. QED
  BY <1>5, <1>6, <1>7, <1>8, <1>9 DEF IInv

LEMMA AdmitKeeps ==
    ASSUME IInv, NEW r \in Runs, NEW q \in Requests, NEW seen \in Nat, Admit(r, q, seen)
    PROVE  IInv'
<1>0. /\ TypeOK /\ RunAttemptAgreement /\ NoReplay /\ ResultVisibility /\ TxnOwnsRow
      /\ runs[r] \in RunRecord /\ runs[r].state = "absent"
  BY DEF IInv, TypeOK, Admit
<1>. DEFINE new == [state |-> "queued", version |-> 1, op |-> q.op, key |-> q.key,
                    conv |-> q.conv, seen |-> seen, result |-> NoAttempt,
                    failure |-> "none"]
<1>1. runs' = [runs EXCEPT ![r] = new] /\ UNCHANGED <<attempts, txn>>
  BY DEF Admit
<1>2. new \in RunRecord
  <2>1. q \in [op : Operators, key : Nat, conv : Conversations \cup {NoConversation}]
    BY ConstantsAssumption
  <2>. QED
    BY <2>1 DEF RunRecord, RunLifecycleState, FailureCodes
<1>3. /\ runs' \in [Runs -> RunRecord]
      /\ runs'[r].state = "queued" /\ runs'[r].result = NoAttempt
      /\ \A s \in Runs : s # r => runs'[s] = runs[s]
  BY <1>0, <1>1, <1>2 DEF TypeOK
<1>4. TypeOK'
  BY <1>0, <1>1, <1>3 DEF Admit, TypeOK, roles
<1>5. \A b \in Attempts : attempts[b].run # r
  BY <1>0 DEF RunAttemptAgreement
<1>6. RunAttemptAgreement' /\ NoReplay' /\ TxnOwnsRow'
  BY <1>0, <1>1, <1>3, <1>5 DEF RunAttemptAgreement, NoReplay, TxnOwnsRow, ActiveStates
<1>7. ResultVisibility'
  BY <1>0, <1>1, <1>3 DEF ResultVisibility
<1>. QED
  BY <1>4, <1>6, <1>7 DEF IInv

\* mark_finalizing and commit_terminal_failure move both rows of the Attempt
\* whose claim they checked.
LEMMA MarkFinalizingKeeps == ASSUME IInv, MarkFinalizing PROVE IInv'
<1>. DEFINE a == txn.attempt
<1>0. TypeOK /\ TxnOwnsRow
  BY DEF IInv
<1>1. a \in Attempts /\ attempts[a].state \in ActiveStates
  BY <1>0 DEF MarkFinalizing, TxnOwnsRow
<1>2. MoveBoth(a, "finalizing", "none")
  BY DEF MarkFinalizing
<1>3. "finalizing" \in RunLifecycleState \ {"queued", "succeeded"} /\ "none" \in FailureCodes
  BY DEF RunLifecycleState, ActiveStates, FailureCodes
<1>4. /\ runs' \in [Runs -> RunRecord]
      /\ attempts' \in [Attempts -> AttemptRecord]
      /\ RunAttemptAgreement' /\ NoReplay' /\ ResultVisibility'
      /\ \A b \in Attempts : attempts'[b].state # "queued"
  BY <1>1, <1>2, <1>3, MoveBothKeeps
<1>5. Unlock /\ UNCHANGED <<clock, fence, turns, lastClaimed, overtakenBy, roles, beats>>
  BY DEF MarkFinalizing
<1>. QED
  BY <1>0, <1>4, <1>5, EndOfWrite DEF IInv

LEMMA CommitTerminalFailureKeeps == ASSUME IInv, CommitTerminalFailure PROVE IInv'
<1>. DEFINE a == txn.attempt
            t == txn.write.target
<1>0. TypeOK /\ TxnOwnsRow
  BY DEF IInv
<1>1. a \in Attempts /\ attempts[a].state \in ActiveStates /\ txn.write \in TerminalWrites
  BY <1>0 DEF CommitTerminalFailure, TxnOwnsRow
<1>2. MoveBoth(a, t, txn.write.code)
  BY DEF CommitTerminalFailure
<1>3. t \in RunLifecycleState \ {"queued", "succeeded"} /\ txn.write.code \in FailureCodes
  BY <1>1 DEF TerminalWrites, RunLifecycleState, TerminalStates, FailureCodes
<1>4. /\ runs' \in [Runs -> RunRecord]
      /\ attempts' \in [Attempts -> AttemptRecord]
      /\ RunAttemptAgreement' /\ NoReplay' /\ ResultVisibility'
      /\ \A b \in Attempts : attempts'[b].state # "queued"
  BY <1>1, <1>2, <1>3, MoveBothKeeps
<1>5. Unlock /\ UNCHANGED <<clock, fence, turns, lastClaimed, overtakenBy, roles, beats>>
  BY DEF CommitTerminalFailure
<1>. QED
  BY <1>0, <1>4, <1>5, EndOfWrite DEF IInv

LEMMA CommitSuccessKeeps == ASSUME IInv, CommitSuccess PROVE IInv'
<1>. DEFINE a == txn.attempt
            r == attempts[a].run
<1>0. /\ TypeOK /\ RunAttemptAgreement /\ NoReplay /\ ResultVisibility /\ TxnOwnsRow
  BY DEF IInv
<1>1. a \in Attempts /\ attempts[a].state = "finalizing"
  BY <1>0 DEF CommitSuccess, TxnOwnsRow
<1>2. r \in Runs /\ runs[r].state = "finalizing" /\ runs[r] \in RunRecord /\ a # NoAttempt
  BY <1>0, <1>1, ConstantsAssumption DEF RunAttemptAgreement, TypeOK
<1>. DEFINE new == [Moved(runs[r], "succeeded", "none") EXCEPT !.result = a]
<1>3. /\ runs' = [runs EXCEPT ![r] = new]
      /\ attempts' = [attempts EXCEPT ![a].state = "succeeded"]
      /\ Unlock /\ UNCHANGED <<clock, fence, lastClaimed, overtakenBy, roles, beats>>
  BY DEF CommitSuccess
<1>4. new \in RunRecord /\ new.state = "succeeded" /\ new.result = a
  <2>1. "succeeded" \in RunLifecycleState /\ "none" \in FailureCodes
    BY DEF RunLifecycleState, TerminalStates, FailureCodes
  <2>. QED
    BY <1>1, <1>2, <2>1, MovedType DEF RunRecord
<1>5. /\ runs' \in [Runs -> RunRecord]
      /\ runs'[r].state = "succeeded" /\ runs'[r].result = a
      /\ \A s \in Runs : s # r => runs'[s] = runs[s]
  BY <1>0, <1>2, <1>3, <1>4 DEF TypeOK
<1>6. /\ attempts' \in [Attempts -> AttemptRecord]
      /\ attempts'[a].state = "succeeded" /\ attempts'[a].run = r
      /\ \A b \in Attempts : b # a => attempts'[b] = attempts[b]
  BY <1>0, <1>1, <1>3
  DEF TypeOK, AttemptRecord, RunLifecycleState, TerminalStates
<1>7. \A b \in Attempts : attempts'[b].run = attempts[b].run
  BY <1>6
<1>8. \A b \in Attempts : b # a /\ attempts[b].run \in Runs => attempts[b].run # r
  BY <1>0, <1>1, <1>2 DEF NoReplay
<1>9. TypeOK' /\ TxnOwnsRow'
  <2>1. turns' \in [Conversations -> Nat]
    <3>1. CASE runs[r].conv = NoConversation
      BY <1>0, <3>1 DEF CommitSuccess, TypeOK
    <3>2. CASE runs[r].conv # NoConversation
      <4>1. turns[runs[r].conv] + 1 \in Nat
        BY <1>0, <1>2, <3>2 DEF TypeOK, RunRecord
      <4>2. turns' = [turns EXCEPT ![runs[r].conv] = turns[runs[r].conv] + 1]
        BY <3>2 DEF CommitSuccess
      <4>. QED
        BY <1>0, <4>1, <4>2 DEF TypeOK
    <3>. QED
      BY <3>1, <3>2
  <2>2. txn' \in Txn
    BY <1>3, ConstantsAssumption DEF Unlock, NoTxn, Txn, NoWrite
  <2>3. \A b \in Attempts : attempts'[b].state # "queued"
    BY <1>0, <1>6 DEF TxnOwnsRow
  <2>. QED
    BY <1>0, <1>3, <1>5, <1>6, <2>1, <2>2, <2>3, Unlocked DEF TypeOK, roles
<1>10. RunAttemptAgreement'
  BY <1>0, <1>1, <1>2, <1>5, <1>6, <1>7, <1>8 DEF RunAttemptAgreement, ActiveStates
<1>11. NoReplay'
  BY <1>0, <1>7 DEF NoReplay
<1>12. ResultVisibility'
  <2>1. \A s \in Runs : s # r => runs[s].result # a
    BY <1>0, <1>2 DEF ResultVisibility
  <2>2. \A s \in Runs : runs[s].result \in Attempts \cup {NoAttempt}
    BY <1>0 DEF TypeOK, RunRecord
  <2>. QED
    BY <1>0, <1>2, <1>5, <1>6, <2>1, <2>2 DEF ResultVisibility
<1>. QED
  BY <1>9, <1>10, <1>11, <1>12 DEF IInv

LEMMA RequestCancelKeeps ==
    ASSUME IInv, NEW r \in Runs, RequestCancel(r)
    PROVE  IInv'
<1>0. /\ TypeOK /\ RunAttemptAgreement /\ NoReplay /\ ResultVisibility /\ TxnOwnsRow
      /\ runs[r] \in RunRecord
  BY DEF IInv, TypeOK
<1>1. UNCHANGED <<clock, fence, turns, lastClaimed, overtakenBy, roles, txn, beats>> /\ LockFree
  BY DEF RequestCancel
<1>2. CASE /\ runs[r].state = "queued"
           /\ runs' = [runs EXCEPT ![r] = Moved(runs[r], "cancelled", "cancelled")]
           /\ UNCHANGED attempts
  <2>0. "cancelled" \in RunLifecycleState /\ "cancelled" \in FailureCodes
    BY DEF RunLifecycleState, TerminalStates, FailureCodes
  <2>1. /\ runs' \in [Runs -> RunRecord]
        /\ runs'[r].state = "cancelled" /\ runs'[r].result = runs[r].result
        /\ \A s \in Runs : s # r => runs'[s] = runs[s]
    BY <1>0, <1>2, <2>0, MovedType DEF TypeOK
  <2>2. \A b \in Attempts : attempts[b].run # r
    BY <1>0, <1>2 DEF RunAttemptAgreement, TxnOwnsRow
  <2>3. TypeOK'
    BY <1>0, <1>1, <1>2, <2>1 DEF TypeOK, roles
  <2>4. RunAttemptAgreement' /\ NoReplay' /\ TxnOwnsRow'
    BY <1>0, <1>1, <1>2, <2>1, <2>2
    DEF RunAttemptAgreement, NoReplay, TxnOwnsRow, ActiveStates
  <2>5. ResultVisibility'
    BY <1>0, <1>2, <2>1 DEF ResultVisibility
  <2>. QED
    BY <2>3, <2>4, <2>5 DEF IInv
<1>3. CASE /\ runs[r].state \in {"running", "finalizing"}
           /\ \E a \in Attempts :
                /\ attempts[a].run = r /\ attempts[a].state = runs[r].state
                /\ MoveBoth(a, "cancel_requested", "none")
  <2>1. PICK a \in Attempts :
          /\ attempts[a].run = r /\ attempts[a].state = runs[r].state
          /\ MoveBoth(a, "cancel_requested", "none")
    BY <1>3
  <2>2. attempts[a].state \in ActiveStates
    BY <1>3, <2>1 DEF ActiveStates
  <2>3. /\ "cancel_requested" \in RunLifecycleState \ {"queued", "succeeded"}
        /\ "none" \in FailureCodes
    BY DEF RunLifecycleState, ActiveStates, FailureCodes
  <2>4. /\ runs' \in [Runs -> RunRecord]
        /\ attempts' \in [Attempts -> AttemptRecord]
        /\ RunAttemptAgreement' /\ NoReplay' /\ ResultVisibility'
        /\ \A b \in Attempts : attempts'[b].state # "queued"
    BY <2>1, <2>2, <2>3, MoveBothKeeps
  <2>5. TypeOK' /\ TxnOwnsRow'
    BY <1>0, <1>1, <2>4 DEF TypeOK, roles, TxnOwnsRow, LockFree
  <2>. QED
    BY <2>4, <2>5 DEF IInv
<1>. QED
  BY <1>2, <1>3 DEF RequestCancel

LEMMA ReapExpiredLeasesKeeps ==
    ASSUME IInv, NEW now \in Nat, NEW X, ReapExpiredLeases(now, X)
    PROVE  IInv'
<1>. DEFINE Lost(r) == \E a \in X : attempts[a].run = r
<1>0. /\ TypeOK /\ RunAttemptAgreement /\ NoReplay /\ ResultVisibility /\ TxnOwnsRow
  BY DEF IInv
<1>1. /\ UNCHANGED <<clock, fence, turns, lastClaimed, overtakenBy, roles, txn, beats>>
      /\ LockFree
      /\ attempts' = [a \in Attempts |->
                        IF a \in X THEN [attempts[a] EXCEPT !.state = "failed"]
                        ELSE attempts[a]]
      /\ runs' = [r \in Runs |-> IF Lost(r) THEN Moved(runs[r], "failed", "executor_lost")
                                 ELSE runs[r]]
  BY DEF ReapExpiredLeases
<1>2. X \subseteq Attempts /\ \A a \in X : attempts[a].state \in ActiveStates
  BY DEF ReapExpiredLeases, Reapable, Expired, ActiveAttempts
<1>3. "failed" \in RunLifecycleState /\ "executor_lost" \in FailureCodes
  BY DEF RunLifecycleState, TerminalStates, FailureCodes
<1>4. \A r \in Runs :
        /\ runs'[r] \in RunRecord
        /\ runs'[r].result = runs[r].result
        /\ Lost(r) => runs'[r].state = "failed"
        /\ ~Lost(r) => runs'[r] = runs[r]
  <2>. SUFFICES ASSUME NEW r \in Runs
       PROVE  /\ runs'[r] \in RunRecord
              /\ runs'[r].result = runs[r].result
              /\ Lost(r) => runs'[r].state = "failed"
              /\ ~Lost(r) => runs'[r] = runs[r]
    OBVIOUS
  <2>1. runs[r] \in RunRecord
    BY <1>0 DEF TypeOK
  <2>2. runs'[r] = IF Lost(r) THEN Moved(runs[r], "failed", "executor_lost") ELSE runs[r]
    BY <1>1
  <2>. QED
    BY <1>3, <2>1, <2>2, MovedType
<1>5. \A a \in Attempts :
        /\ attempts'[a] \in AttemptRecord
        /\ attempts'[a].run = attempts[a].run
        /\ a \in X => attempts'[a].state = "failed"
        /\ a \notin X => attempts'[a] = attempts[a]
  <2>. SUFFICES ASSUME NEW a \in Attempts
       PROVE  /\ attempts'[a] \in AttemptRecord
              /\ attempts'[a].run = attempts[a].run
              /\ a \in X => attempts'[a].state = "failed"
              /\ a \notin X => attempts'[a] = attempts[a]
    OBVIOUS
  <2>1. attempts[a] \in AttemptRecord
    BY <1>0 DEF TypeOK
  <2>2. attempts'[a] = IF a \in X THEN [attempts[a] EXCEPT !.state = "failed"] ELSE attempts[a]
    BY <1>1
  <2>. QED
    BY <1>3, <2>1, <2>2 DEF AttemptRecord
<1>6. runs' \in [Runs -> RunRecord] /\ attempts' \in [Attempts -> AttemptRecord]
  BY <1>1, <1>4, <1>5
<1>7. \A a \in Attempts : attempts[a].run \in Runs => (Lost(attempts[a].run) <=> a \in X)
  BY <1>0, <1>2 DEF NoReplay
<1>8. TypeOK' /\ TxnOwnsRow'
  BY <1>0, <1>1, <1>5, <1>6 DEF TypeOK, roles, TxnOwnsRow, LockFree
<1>9. RunAttemptAgreement'
  BY <1>0, <1>2, <1>4, <1>5, <1>7 DEF RunAttemptAgreement, ActiveStates
<1>10. NoReplay'
  BY <1>0, <1>5 DEF NoReplay
<1>11. ResultVisibility'
  <2>1. \A s \in Runs : runs[s].result \in Attempts \cup {NoAttempt}
    BY <1>0 DEF TypeOK, RunRecord
  <2>2. \A s \in Runs : Lost(s) => runs[s].state \in ActiveStates
    BY <1>0, <1>2 DEF RunAttemptAgreement, ActiveStates
  <2>3. \A s \in Runs : runs[s].result # NoAttempt => runs[s].result \notin X
    BY <1>0, <1>2, <2>1 DEF ResultVisibility, ActiveStates
  <2>. QED
    BY <1>0, <1>4, <1>5, <2>1, <2>2, <2>3 DEF ResultVisibility, ActiveStates
<1>. QED
  BY <1>8, <1>9, <1>10, <1>11 DEF IInv

\* A heartbeat moves nothing but the lease, whatever became of the Attempt
\* between its role check and its row check.
LEMMA HeartbeatKeeps ==
    ASSUME IInv, NEW b \in beats, Heartbeat(b) \/ HeartbeatRejected(b)
    PROVE  IInv'
<1>0. /\ TypeOK /\ RunAttemptAgreement /\ NoReplay /\ ResultVisibility /\ TxnOwnsRow
      /\ b.attempt \in Attempts /\ b.now \in Nat
  BY DEF IInv, TypeOK
<1>1. CASE HeartbeatRejected(b)
  <2>1. TypeOK' /\ UNCHANGED queue
    BY <1>0, <1>1 DEF HeartbeatRejected, TypeOK, tables, roles, queue
  <2>. QED
    BY <2>1, QueueUnchanged
<1>2. CASE Heartbeat(b)
  <2>. DEFINE a == b.attempt
              l == Earliest(b.now + LeaseSeconds, attempts[a].deadline)
  <2>1. l \in Nat
    BY <1>0, ConstantsAssumption DEF Earliest, TypeOK, AttemptRecord
  <2>2. attempts' = [attempts EXCEPT ![a].lease = l]
    BY <1>2 DEF Heartbeat
  <2>3. /\ attempts' \in [Attempts -> AttemptRecord]
        /\ \A c \in Attempts : attempts'[c].state = attempts[c].state
                               /\ attempts'[c].run = attempts[c].run
    BY <1>0, <2>1, <2>2 DEF TypeOK, AttemptRecord
  <2>4. UNCHANGED <<clock, runs, fence, turns, lastClaimed, overtakenBy, roles, txn>>
        /\ beats' \subseteq beats
    BY <1>2 DEF Heartbeat
  <2>5. TypeOK'
    BY <1>0, <2>3, <2>4 DEF TypeOK, roles
  <2>6. RunAttemptAgreement' /\ NoReplay' /\ TxnOwnsRow'
    BY <1>0, <2>3, <2>4 DEF RunAttemptAgreement, NoReplay, TxnOwnsRow
  <2>7. ResultVisibility'
    <3>1. \A s \in Runs : runs[s].result \in Attempts \cup {NoAttempt}
      BY <1>0 DEF TypeOK, RunRecord
    <3>. QED
      BY <1>0, <2>3, <2>4, <3>1 DEF ResultVisibility
  <2>. QED
    BY <2>5, <2>6, <2>7 DEF IInv
<1>. QED
  BY <1>1, <1>2

LEMMA RollbackKeeps == ASSUME IInv, Rollback PROVE IInv'
<1>1. TypeOK'
  BY ConstantsAssumption
  DEF IInv, TypeOK, Rollback, Unlock, NoTxn, Txn, NoWrite, tables, roles
<1>2. TxnOwnsRow'
  BY Unlocked DEF IInv, Rollback, tables, TxnOwnsRow
<1>. QED
  BY <1>1, <1>2
  DEF IInv, Rollback, tables, RunAttemptAgreement, NoReplay, ResultVisibility

\* Every step of the queue keeps the inductive invariant.
LEMMA NextIInv == ASSUME IInv, [Next]_vars PROVE IInv'
<1>0. \A now \in Readings : now \in Nat
  BY DEF Readings
<1>1. CASE UNCHANGED vars
  <2>1. TypeOK' /\ UNCHANGED queue
    BY <1>1 DEF IInv, TypeOK, vars, queue
  <2>. QED
    BY <2>1, QueueUnchanged
<1>2. CASE RoleStep \/ BeginStep \/ Tick
  BY <1>2, RoleStepKeeps, BeginStepKeeps, TickKeeps
<1>3. CASE WriteStep
  BY <1>3, ClaimNextKeeps, MarkFinalizingKeeps, CommitTerminalFailureKeeps,
     CommitSuccessKeeps, RollbackKeeps, HeartbeatKeeps
  DEF WriteStep
<1>4. CASE QueueStep
  <2>1. ASSUME NEW r \in Runs, NEW q \in Requests,
               NEW seen \in 0..(IF q.conv = NoConversation THEN 0 ELSE turns[q.conv]),
               Admit(r, q, seen)
        PROVE  IInv'
    <3>1. seen \in Nat
      BY <2>1
    <3>. QED
      BY <2>1, <3>1, AdmitKeeps
  <2>2. ASSUME NEW r \in Runs, RequestCancel(r) PROVE IInv'
    BY <2>2, RequestCancelKeeps
  <2>3. ASSUME NEW now \in Readings, NEW lost, ReapExpiredLeases(now, lost) PROVE IInv'
    BY <1>0, <2>3, ReapExpiredLeasesKeeps
  <2>. QED
    BY <1>4, <2>1, <2>2, <2>3 DEF QueueStep
<1>. QED
  BY <1>1, <1>2, <1>3, <1>4 DEF Next

\* The tables are consistent after every number of steps of any callers:
\* types, Run/Attempt agreement, no replay, result visibility, and the row a
\* locked transaction is about to write.
THEOREM InductiveInvariant == Spec => []IInv
<1>1. Init => IInv
  BY InitIInv
<1>2. IInv /\ [Next]_vars => IInv'
  BY NextIInv
<1>. QED
  BY <1>1, <1>2, PTL DEF Spec
-----------------------------------------------------------------------------
(* What one step may do to the rows.                                        *)

\* The Run moves along the transition table.
RunMoves(r) ==
    /\ CanTransition(runs[r].state, runs'[r].state)
    /\ runs'[r].version = runs[r].version + 1
    /\ runs'[r].conv = runs[r].conv /\ runs'[r].op = runs[r].op /\ runs'[r].seen = runs[r].seen

RunsMove == \A r \in Runs : runs'[r] = runs[r] \/ RunMoves(r)

\* Terminal Attempt rows stay as they are, no Attempt becomes active, and each
\* stays an Attempt of its Run.
AttemptsEnd ==
    \A a \in Attempts :
      /\ attempts'[a].run = attempts[a].run
      /\ attempts[a].state \in TerminalStates => attempts'[a] = attempts[a]
      /\ attempts'[a].state \in ActiveStates => attempts[a].state \in ActiveStates

\* A move is a change; it starts before a terminal state, and it enters the
\* nonterminal states from nowhere else.
LEMMA Transitions ==
    ASSUME NEW s, NEW t, CanTransition(s, t)
    PROVE  /\ s # t /\ s \notin TerminalStates /\ s # "absent"
           /\ t \in RunLifecycleState /\ t # "queued"
           /\ s \in Nonterminal
  BY DEF CanTransition, AllowedTransitions, RunLifecycleState, ActiveStates, TerminalStates,
         Nonterminal

LEMMA MoveBothMoves ==
    ASSUME IInv, NEW a \in Attempts, attempts[a].state \in ActiveStates,
           NEW t \in RunLifecycleState, NEW c \in FailureCodes,
           CanTransition(attempts[a].state, t), MoveBoth(a, t, c)
    PROVE  RunsMove /\ AttemptsEnd
<1>. DEFINE r == attempts[a].run
<1>1. /\ runs \in [Runs -> RunRecord] /\ attempts \in [Attempts -> AttemptRecord]
      /\ r \in Runs /\ runs[r].state = attempts[a].state
  BY DEF IInv, TypeOK, RunAttemptAgreement, ActiveStates
<1>2. /\ runs' = [runs EXCEPT ![r] = Moved(runs[r], t, c)]
      /\ attempts' = [attempts EXCEPT ![a].state = t]
  BY DEF MoveBoth
<1>3. RunsMove
  BY <1>1, <1>2, MovedType DEF RunsMove, RunMoves
<1>4. AttemptsEnd
  BY <1>1, <1>2 DEF AttemptsEnd, AttemptRecord, ActiveStates, TerminalStates
<1>. QED
  BY <1>3, <1>4

LEMMA CommitSuccessMoves == ASSUME IInv, CommitSuccess PROVE RunsMove /\ AttemptsEnd
<1>. DEFINE a == txn.attempt
            r == attempts[a].run
<1>1. a \in Attempts /\ attempts[a].state = "finalizing"
  BY DEF CommitSuccess, IInv, TxnOwnsRow
<1>2. /\ runs \in [Runs -> RunRecord] /\ attempts \in [Attempts -> AttemptRecord]
      /\ r \in Runs /\ runs[r].state = "finalizing"
  BY <1>1 DEF IInv, TypeOK, RunAttemptAgreement
<1>3. /\ runs' = [runs EXCEPT ![r] = [Moved(runs[r], "succeeded", "none") EXCEPT !.result = a]]
      /\ attempts' = [attempts EXCEPT ![a].state = "succeeded"]
  BY DEF CommitSuccess
<1>4. "succeeded" \in RunLifecycleState /\ "none" \in FailureCodes
      /\ CanTransition("finalizing", "succeeded")
  BY DEF RunLifecycleState, ActiveStates, TerminalStates, FailureCodes, CanTransition,
         AllowedTransitions
<1>5. RunsMove
  <2>1. runs[r] \in RunRecord
    BY <1>2
  <2>2. /\ Moved(runs[r], "succeeded", "none") \in RunRecord
        /\ Moved(runs[r], "succeeded", "none").state = "succeeded"
        /\ Moved(runs[r], "succeeded", "none").version = runs[r].version + 1
        /\ Moved(runs[r], "succeeded", "none").conv = runs[r].conv
        /\ Moved(runs[r], "succeeded", "none").op = runs[r].op
        /\ Moved(runs[r], "succeeded", "none").seen = runs[r].seen
    BY <1>4, <2>1, MovedType
  <2>3. /\ runs'[r].state = "succeeded" /\ runs'[r].version = runs[r].version + 1
        /\ runs'[r].conv = runs[r].conv /\ runs'[r].op = runs[r].op /\ runs'[r].seen = runs[r].seen
    BY <1>2, <1>3, <2>2 DEF RunRecord
  <2>. QED
    BY <1>2, <1>3, <1>4, <2>3 DEF RunsMove, RunMoves
<1>6. AttemptsEnd
  BY <1>1, <1>2, <1>3 DEF AttemptsEnd, AttemptRecord, ActiveStates, TerminalStates
<1>. QED
  BY <1>5, <1>6

LEMMA RequestCancelMoves ==
    ASSUME IInv, NEW r \in Runs, RequestCancel(r)
    PROVE  RunsMove /\ AttemptsEnd
<1>1. CASE /\ runs[r].state = "queued"
           /\ runs' = [runs EXCEPT ![r] = Moved(runs[r], "cancelled", "cancelled")]
           /\ UNCHANGED attempts
  <2>1. /\ "cancelled" \in RunLifecycleState /\ "cancelled" \in FailureCodes
        /\ CanTransition("queued", "cancelled")
    BY DEF RunLifecycleState, TerminalStates, FailureCodes, CanTransition, AllowedTransitions
  <2>2. runs \in [Runs -> RunRecord]
    BY DEF IInv, TypeOK
  <2>. QED
    BY <1>1, <2>1, <2>2, MovedType DEF RunsMove, RunMoves, AttemptsEnd
<1>2. CASE /\ runs[r].state \in {"running", "finalizing"}
           /\ \E a \in Attempts :
                /\ attempts[a].run = r /\ attempts[a].state = runs[r].state
                /\ MoveBoth(a, "cancel_requested", "none")
  <2>1. PICK a \in Attempts :
          /\ attempts[a].state \in {"running", "finalizing"}
          /\ MoveBoth(a, "cancel_requested", "none")
    BY <1>2
  <2>2. /\ "cancel_requested" \in RunLifecycleState /\ "none" \in FailureCodes
        /\ attempts[a].state \in ActiveStates
        /\ CanTransition(attempts[a].state, "cancel_requested")
    BY <2>1 DEF RunLifecycleState, ActiveStates, FailureCodes, CanTransition, AllowedTransitions
  <2>. QED
    BY <2>1, <2>2, MoveBothMoves
<1>. QED
  BY <1>1, <1>2 DEF RequestCancel

LEMMA ReapExpiredLeasesMoves ==
    ASSUME IInv, NEW now \in Nat, NEW lost, ReapExpiredLeases(now, lost)
    PROVE  RunsMove /\ AttemptsEnd
<1>0. /\ runs \in [Runs -> RunRecord] /\ attempts \in [Attempts -> AttemptRecord]
      /\ "failed" \in RunLifecycleState /\ "executor_lost" \in FailureCodes
  BY DEF IInv, TypeOK, RunLifecycleState, TerminalStates, FailureCodes
<1>1. /\ attempts' = [a \in Attempts |->
                        IF a \in lost THEN [attempts[a] EXCEPT !.state = "failed"]
                        ELSE attempts[a]]
      /\ runs' = [r \in Runs |-> IF \E a \in lost : attempts[a].run = r
                                 THEN Moved(runs[r], "failed", "executor_lost")
                                 ELSE runs[r]]
      /\ \A a \in lost : runs[attempts[a].run].state \in ActiveStates
      /\ lost \subseteq ActiveAttempts
  BY DEF ReapExpiredLeases, Reapable, Expired
<1>2. RunsMove
  <2>. SUFFICES ASSUME NEW r \in Runs PROVE runs'[r] = runs[r] \/ RunMoves(r)
    BY DEF RunsMove
  <2>1. CASE ~\E a \in lost : attempts[a].run = r
    BY <1>1, <2>1
  <2>2. CASE \E a \in lost : attempts[a].run = r
    <3>1. runs'[r] = Moved(runs[r], "failed", "executor_lost") /\ runs[r].state \in ActiveStates
      BY <1>1, <2>2
    <3>2. CanTransition(runs[r].state, "failed")
      BY <3>1 DEF CanTransition, AllowedTransitions, RunLifecycleState, ActiveStates
    <3>. QED
      BY <1>0, <3>1, <3>2, MovedType DEF RunMoves
  <2>. QED
    BY <2>1, <2>2
<1>3. AttemptsEnd
  BY <1>0, <1>1
  DEF AttemptsEnd, ActiveAttempts, AttemptRecord, ActiveStates, TerminalStates
<1>. QED
  BY <1>2, <1>3

\* A claim moves its Run and makes one Attempt active.
LEMMA ClaimNextMoves ==
    ASSUME IInv, NEW r \in Runs, NEW a \in Attempts, ClaimNext(r, a)
    PROVE  /\ RunsMove
           /\ attempts[a].state = "absent"
           /\ \A b \in Attempts : b # a => attempts'[b] = attempts[b]
<1>1. /\ runs' = [runs EXCEPT ![r] = Moved(runs[r], "running", "none")]
      /\ runs[r].state = "queued" /\ runs \in [Runs -> RunRecord]
  BY DEF ClaimNext, FairClaim, Heads, QueuedRuns, IInv, TypeOK
<1>2. /\ "running" \in RunLifecycleState /\ "none" \in FailureCodes
      /\ CanTransition("queued", "running")
  BY DEF RunLifecycleState, ActiveStates, FailureCodes, CanTransition, AllowedTransitions
<1>3. RunsMove
  BY <1>1, <1>2, MovedType DEF RunsMove, RunMoves
<1>. QED
  BY <1>3 DEF ClaimNext, IInv, TypeOK

\* Every step moves Runs along the table, admits one Run, or claims one.
LEMMA NextMoves ==
    ASSUME IInv, [Next]_vars
    PROVE  \/ RunsMove /\ AttemptsEnd
           \/ \E r \in Runs, a \in Attempts : ClaimNext(r, a)
           \/ \E r \in Runs, q \in Requests : \E seen \in Nat : Admit(r, q, seen)
<1>0. /\ runs \in [Runs -> RunRecord] /\ attempts \in [Attempts -> AttemptRecord]
      /\ turns \in [Conversations -> Nat]
  BY DEF IInv, TypeOK
<1>1. ASSUME UNCHANGED <<runs, attempts>>  PROVE RunsMove /\ AttemptsEnd
  BY <1>1 DEF RunsMove, AttemptsEnd
<1>2. CASE UNCHANGED vars
  BY <1>1, <1>2 DEF vars
<1>3. CASE RoleStep \/ BeginStep \/ Tick \/ Rollback
  <2>1. UNCHANGED <<runs, attempts>>
    BY <1>3
    DEF RoleStep, RoleActivate, ActivateRole, RoleDrain, RoleResume, RoleExpire,
        RoleLateRenewal, RoleRelease, RoleFrame, BeginStep, BeginClaim, BeginWrite, BeginHeartbeat,
        Tick, Rollback, tables
  <2>. QED
    BY <1>1, <2>1
<1>4. ASSUME NEW b \in beats, Heartbeat(b) \/ HeartbeatRejected(b)
      PROVE  RunsMove /\ AttemptsEnd
  <2>1. CASE HeartbeatRejected(b)
    BY <1>1, <2>1 DEF HeartbeatRejected, tables
  <2>2. CASE Heartbeat(b)
    <3>1. UNCHANGED runs /\ b.attempt \in Attempts /\ attempts[b.attempt].state \in ActiveStates
      BY <2>2 DEF Heartbeat, OwnedRow, IInv, TypeOK
    <3>2. /\ \A a \in Attempts : a # b.attempt => attempts'[a] = attempts[a]
          /\ attempts'[b.attempt].state = attempts[b.attempt].state
          /\ attempts'[b.attempt].run = attempts[b.attempt].run
      BY <1>0, <2>2, <3>1 DEF Heartbeat, AttemptRecord
    <3>. QED
      BY <3>1, <3>2 DEF RunsMove, AttemptsEnd, ActiveStates, TerminalStates
  <2>. QED
    BY <1>4, <2>1, <2>2
<1>5. CASE MarkFinalizing
  <2>1. /\ txn.attempt \in Attempts /\ attempts[txn.attempt].state \in ActiveStates
        /\ CanTransition(attempts[txn.attempt].state, "finalizing")
        /\ MoveBoth(txn.attempt, "finalizing", "none")
    BY <1>5 DEF MarkFinalizing, IInv, TxnOwnsRow
  <2>2. "finalizing" \in RunLifecycleState /\ "none" \in FailureCodes
    BY DEF RunLifecycleState, ActiveStates, FailureCodes
  <2>. QED
    BY <2>1, <2>2, MoveBothMoves
<1>6. CASE CommitTerminalFailure
  <2>1. /\ txn.attempt \in Attempts /\ attempts[txn.attempt].state \in ActiveStates
        /\ txn.write \in TerminalWrites
        /\ CanTransition(attempts[txn.attempt].state, txn.write.target)
        /\ MoveBoth(txn.attempt, txn.write.target, txn.write.code)
    BY <1>6 DEF CommitTerminalFailure, IInv, TxnOwnsRow
  <2>2. txn.write.target \in RunLifecycleState /\ txn.write.code \in FailureCodes
    BY <2>1 DEF TerminalWrites, RunLifecycleState, TerminalStates, FailureCodes
  <2>. QED
    BY <2>1, <2>2, MoveBothMoves
<1>7. CASE WriteStep
  BY <1>3, <1>4, <1>5, <1>6, <1>7, CommitSuccessMoves DEF WriteStep
<1>8. CASE QueueStep
  <2>1. ASSUME NEW r \in Runs, NEW q \in Requests,
               NEW seen \in 0..(IF q.conv = NoConversation THEN 0 ELSE turns[q.conv]),
               Admit(r, q, seen)
        PROVE  \E s \in Nat : Admit(r, q, s)
    BY <2>1
  <2>2. ASSUME NEW now \in Readings, NEW lost, ReapExpiredLeases(now, lost) PROVE RunsMove /\ AttemptsEnd
    BY <2>2, ReapExpiredLeasesMoves DEF Readings
  <2>. QED
    BY <1>8, <2>1, <2>2, RequestCancelMoves DEF QueueStep
<1>. QED
  BY <1>2, <1>3, <1>7, <1>8 DEF Next
-----------------------------------------------------------------------------
(* The safety properties of the run queue, from the inductive invariant and *)
(* the step lemmas above.                                                  *)

\* Every table keeps the type of its rows.
THEOREM TypeCorrect == Spec => []TypeOK
<1>1. IInv => TypeOK
  BY DEF IInv
<1>. QED
  BY <1>1, InductiveInvariant, PTL

\* A Run row and its Attempt row never disagree about the state.
THEOREM RowsAgree == Spec => []RunAttemptAgreement
<1>1. IInv => RunAttemptAgreement
  BY DEF IInv
<1>. QED
  BY <1>1, InductiveInvariant, PTL

\* A Run is claimed at most once.
THEOREM NeverReplayed == Spec => []NoReplay
<1>1. IInv => NoReplay
  BY DEF IInv
<1>. QED
  BY <1>1, InductiveInvariant, PTL

\* A result is visible exactly for a SUCCEEDED Run, and belongs to its Attempt.
THEOREM ResultsVisible == Spec => []ResultVisibility
<1>1. IInv => ResultVisibility
  BY DEF IInv
<1>. QED
  BY <1>1, InductiveInvariant, PTL
-----------------------------------------------------------------------------
TerminalKept ==
    /\ \A r \in Runs : runs[r].state \in TerminalStates => runs'[r] = runs[r]
    /\ \A a \in Attempts : attempts[a].state \in TerminalStates => attempts'[a] = attempts[a]

\* One step leaves the terminal rows alone.
LEMMA StepKeepsTerminal == ASSUME IInv, [Next]_vars PROVE TerminalKept
<1>0. runs \in [Runs -> RunRecord]
  BY DEF IInv, TypeOK
<1>1. ASSUME RunsMove
      PROVE  \A r \in Runs : runs[r].state \in TerminalStates => runs'[r] = runs[r]
  BY <1>1, Transitions DEF RunsMove, RunMoves
<1>2. CASE RunsMove /\ AttemptsEnd
  BY <1>1, <1>2 DEF AttemptsEnd, TerminalKept
<1>3. ASSUME NEW r \in Runs, NEW a \in Attempts, ClaimNext(r, a) PROVE TerminalKept
  BY <1>1, <1>3, ClaimNextMoves DEF TerminalStates, TerminalKept
<1>4. ASSUME NEW r \in Runs, NEW q \in Requests, NEW seen \in Nat, Admit(r, q, seen)
      PROVE  TerminalKept
  BY <1>0, <1>4 DEF Admit, TerminalStates, TerminalKept
<1>. QED
  BY <1>2, <1>3, <1>4, NextMoves

\* Terminal rows are never written again.
THEOREM TerminalRowsFinal == Spec => TerminalIsFinal
<1>1. IInv /\ [Next]_vars => TerminalKept
  BY StepKeepsTerminal
<1>. QED
  BY <1>1, InductiveInvariant, PTL DEF Spec, TerminalIsFinal, TerminalKept
-----------------------------------------------------------------------------
\* Rows that do not exist yet have version 0: the version counts from admission.
AbsentVersion == \A r \in Runs : runs[r].state = "absent" => runs[r].version = 0

\* An admission gives an absent row state QUEUED and version 1.
LEMMA AdmitRows ==
    ASSUME IInv, NEW r \in Runs, NEW q \in Requests, NEW seen \in Nat, Admit(r, q, seen)
    PROVE  /\ runs[r].state = "absent" /\ runs'[r].state = "queued"
           /\ runs'[r].version = 1 /\ runs'[r].conv = q.conv
           /\ runs'[r].result = NoAttempt
           /\ \A s \in Runs : s # r => runs'[s] = runs[s]
           /\ UNCHANGED attempts
  BY DEF Admit, IInv, TypeOK

\* A claim is a step along the table of the Runs.
LEMMA StepOfRuns ==
    ASSUME IInv, [Next]_vars
    PROVE  \/ RunsMove
           \/ \E r \in Runs, q \in Requests : \E seen \in Nat : Admit(r, q, seen)
  BY NextMoves, ClaimNextMoves

\* state_version counts the moves of each Run.
THEOREM VersionsCount == Spec => VersionCountsMoves
<1>1. Init => AbsentVersion
  BY DEF Init, AbsentVersion
<1>. DEFINE Counted ==
       \A r \in Runs :
         runs'[r].version = runs[r].version + (IF runs'[r].state = runs[r].state THEN 0 ELSE 1)
<1>2. ASSUME IInv, AbsentVersion, [Next]_vars  PROVE AbsentVersion' /\ Counted
  <2>0. \A r \in Runs : runs[r].version \in Nat
    BY <1>2 DEF IInv, TypeOK, RunRecord
  <2>1. CASE RunsMove
    <3>1. ASSUME NEW r \in Runs
          PROVE  /\ runs'[r].state = "absent" => runs'[r].version = 0
                 /\ runs'[r].version = runs[r].version + (IF runs'[r].state = runs[r].state THEN 0 ELSE 1)
      <4>1. CASE runs'[r] = runs[r]
        BY <1>2, <2>0, <4>1 DEF AbsentVersion
      <4>2. CASE RunMoves(r)
        <5>1. runs'[r].state # runs[r].state /\ runs'[r].state # "absent"
          BY <4>2, Transitions DEF RunMoves, RunLifecycleState, ActiveStates, TerminalStates
        <5>. QED
          BY <4>2, <5>1 DEF RunMoves
      <4>. QED
        BY <2>1, <4>1, <4>2 DEF RunsMove
    <3>. QED
      BY <3>1 DEF AbsentVersion
  <2>2. ASSUME NEW r \in Runs, NEW q \in Requests, NEW seen \in Nat, Admit(r, q, seen)
        PROVE  AbsentVersion' /\ Counted
    BY <1>2, <2>0, <2>2, AdmitRows DEF AbsentVersion
  <2>. QED
    BY <1>2, <2>1, <2>2, StepOfRuns
<1>. QED
  BY <1>1, <1>2, InductiveInvariant, PTL DEF Spec, VersionCountsMoves
-----------------------------------------------------------------------------
\* A conversation has at most one Run in flight.
THEOREM SingleFlight == Spec => []ConversationSingleFlight
<1>1. Init => ConversationSingleFlight
  BY DEF Init, ConversationSingleFlight, Nonterminal, ActiveStates
<1>2. ASSUME IInv, ConversationSingleFlight, [Next]_vars  PROVE ConversationSingleFlight'
  <2>1. CASE RunsMove
    <3>1. \A r \in Runs : /\ runs'[r].conv = runs[r].conv
                          /\ runs'[r].state \in Nonterminal => runs[r].state \in Nonterminal
      BY <2>1, Transitions DEF RunsMove, RunMoves
    <3>. QED
      BY <1>2, <3>1 DEF ConversationSingleFlight, Nonterminal
  <2>2. ASSUME NEW r \in Runs, NEW q \in Requests, NEW seen \in Nat, Admit(r, q, seen)
        PROVE  ConversationSingleFlight'
    <3>1. q.conv # NoConversation =>
            \A s \in Runs : ~(runs[s].conv = q.conv /\ runs[s].state \in Nonterminal)
      BY <2>2 DEF Admit, Admissible
    <3>2. runs'[r].conv = q.conv /\ \A s \in Runs : s # r => runs'[s] = runs[s]
      BY <1>2, <2>2, AdmitRows
    <3>. QED
      BY <1>2, <3>1, <3>2 DEF ConversationSingleFlight, Nonterminal
  <2>. QED
    BY <1>2, <2>1, <2>2, StepOfRuns
<1>. QED
  BY <1>1, <1>2, InductiveInvariant, PTL DEF Spec
-----------------------------------------------------------------------------
\* The queue and the executing Attempts are finitely many and within capacity.
WithinCapacity ==
    /\ IsFiniteSet(QueuedRuns) /\ Cardinality(QueuedRuns) <= MAX_QUEUED_RUNS
    /\ IsFiniteSet(ActiveAttempts) /\ Cardinality(ActiveAttempts) <= MAX_ACTIVE_ATTEMPTS

\* A set within its capacity stays so when it shrinks, and when an element is
\* added under the guard that its size is below the capacity.
LEMMA Shrinks ==
    ASSUME NEW S, NEW T \in SUBSET S, IsFiniteSet(S), NEW m \in Nat, Cardinality(S) <= m
    PROVE  IsFiniteSet(T) /\ Cardinality(T) <= m
  BY FS_Subset, FS_CardinalityType

LEMMA GrowsByOne ==
    ASSUME NEW S, NEW x, NEW T \in SUBSET (S \cup {x}), IsFiniteSet(S), NEW m \in Nat,
           Cardinality(S) < m
    PROVE  IsFiniteSet(T) /\ Cardinality(T) <= m
<1>1. /\ IsFiniteSet(S \cup {x}) /\ Cardinality(S) \in Nat
      /\ Cardinality(S \cup {x}) = Cardinality(S) \/ Cardinality(S \cup {x}) = Cardinality(S) + 1
  BY FS_AddElement, FS_CardinalityType
<1>2. Cardinality(S \cup {x}) <= m
  BY <1>1
<1>. QED
  BY <1>1, <1>2, Shrinks

\* Admission and claims respect the two capacities.
THEOREM Capacity == Spec => []CapacityRespected
<1>0. MAX_QUEUED_RUNS \in Nat /\ MAX_ACTIVE_ATTEMPTS \in Nat
  BY ConstantsAssumption
<1>1. ASSUME Init  PROVE WithinCapacity
  <2>1. QueuedRuns = {} /\ ActiveAttempts = {}
    BY <1>1 DEF Init, QueuedRuns, ActiveAttempts, ActiveStates
  <2>. QED
    BY <1>0, <2>1, FS_EmptySet DEF WithinCapacity
<1>2. ASSUME IInv, WithinCapacity, [Next]_vars  PROVE WithinCapacity'
  <2>1. ASSUME RunsMove  PROVE QueuedRuns' \subseteq QueuedRuns
    BY <2>1, Transitions DEF RunsMove, RunMoves, QueuedRuns
  <2>2. ASSUME QueuedRuns' \subseteq QueuedRuns
        PROVE  IsFiniteSet(QueuedRuns') /\ Cardinality(QueuedRuns') <= MAX_QUEUED_RUNS
    BY <1>0, <1>2, <2>2, Shrinks DEF WithinCapacity
  <2>3. ASSUME ActiveAttempts' \subseteq ActiveAttempts
        PROVE  IsFiniteSet(ActiveAttempts') /\ Cardinality(ActiveAttempts') <= MAX_ACTIVE_ATTEMPTS
    BY <1>0, <1>2, <2>3, Shrinks DEF WithinCapacity
  <2>4. CASE RunsMove /\ AttemptsEnd
    <3>1. ActiveAttempts' \subseteq ActiveAttempts
      BY <2>4 DEF AttemptsEnd, ActiveAttempts
    <3>. QED
      BY <2>1, <2>2, <2>3, <2>4, <3>1 DEF WithinCapacity
  <2>5. ASSUME NEW r \in Runs, NEW a \in Attempts, ClaimNext(r, a)  PROVE WithinCapacity'
    <3>1. RunsMove /\ ActiveAttempts' \subseteq ActiveAttempts \cup {a}
      BY <1>2, <2>5, ClaimNextMoves DEF ActiveAttempts
    <3>2. Cardinality(ActiveAttempts) < MAX_ACTIVE_ATTEMPTS
      BY <2>5 DEF ClaimNext
    <3>3. IsFiniteSet(ActiveAttempts') /\ Cardinality(ActiveAttempts') <= MAX_ACTIVE_ATTEMPTS
      BY <1>0, <1>2, <3>1, <3>2, GrowsByOne DEF WithinCapacity
    <3>. QED
      BY <2>1, <2>2, <3>1, <3>3 DEF WithinCapacity
  <2>6. ASSUME NEW r \in Runs, NEW q \in Requests, NEW seen \in Nat, Admit(r, q, seen)
        PROVE  WithinCapacity'
    <3>1. /\ QueuedRuns' \subseteq QueuedRuns \cup {r}
          /\ ActiveAttempts' \subseteq ActiveAttempts
      BY <1>2, <2>6, AdmitRows DEF QueuedRuns, ActiveAttempts
    <3>2. Cardinality(QueuedRuns) < MAX_QUEUED_RUNS
      BY <2>6 DEF Admit, Admissible
    <3>3. IsFiniteSet(QueuedRuns') /\ Cardinality(QueuedRuns') <= MAX_QUEUED_RUNS
      BY <1>0, <1>2, <3>1, <3>2, GrowsByOne DEF WithinCapacity
    <3>. QED
      BY <2>3, <3>1, <3>3 DEF WithinCapacity
  <2>. QED
    BY <1>2, <2>4, <2>5, <2>6, NextMoves
<1>3. WithinCapacity => CapacityRespected
  BY DEF WithinCapacity, CapacityRespected
<1>. QED
  BY <1>1, <1>2, <1>3, InductiveInvariant, PTL DEF Spec
-----------------------------------------------------------------------------
\* The instance uses the states and the table of module RunStates.
LEMMA SameStates ==
    /\ Lifecycle!RunLifecycleState = RunLifecycleState
    /\ \A t, u : Lifecycle!CanTransition(t, u) <=> CanTransition(t, u)
  BY DEF Lifecycle!RunLifecycleState, Lifecycle!ActiveStates, Lifecycle!TerminalStates,
         Lifecycle!CanTransition, Lifecycle!AllowedTransitions,
         RunLifecycleState, ActiveStates, TerminalStates, CanTransition, AllowedTransitions

\* The queue implements the life cycle of module RunLifecycle: seen from its
\* Runs' states and visible results, every transaction is an admission, a move
\* of Runs along the transition table, or no change.
THEOREM RefinesLifecycle == Spec => ImplementsLifecycle
<1>. DEFINE states == [r \in Runs |-> runs[r].state]
            shown  == {r \in Runs : runs[r].result # NoAttempt}
<1>1. Init => Lifecycle!Init
  BY DEF Init, Lifecycle!Init
<1>2. ASSUME IInv, IInv', [Next]_vars  PROVE [Lifecycle!Next]_(Lifecycle!vars)
  <2>0. /\ states' \in [Runs -> RunLifecycleState \cup {"absent"}]
        /\ \A r \in Runs : states[r] = runs[r].state /\ states'[r] = runs'[r].state
    BY <1>2 DEF IInv, TypeOK, RunRecord
  <2>00. /\ \A r \in Runs : r \in shown <=> runs[r].state = "succeeded"
         /\ \A r \in Runs : r \in shown' <=> runs'[r].state = "succeeded"
    BY <1>2 DEF IInv, ResultVisibility
  <2>1. CASE RunsMove
    <3>0. PICK S \in SUBSET Runs : \A r \in Runs : r \in S <=> RunMoves(r)
      <4>1. {r \in Runs : RunMoves(r)} \in SUBSET Runs
        OBVIOUS
      <4>. QED
        BY <4>1
    <3>1. ASSUME NEW r \in Runs
          PROVE  IF r \in S THEN CanTransition(states[r], states'[r]) ELSE states'[r] = states[r]
      BY <2>0, <2>1, <3>0 DEF RunsMove, RunMoves
    <3>2. shown' = shown \cup {r \in S : states'[r] = "succeeded"}
      <4>1. ASSUME NEW r \in Runs
            PROVE  r \in shown' <=> r \in shown \/ (r \in S /\ states'[r] = "succeeded")
        <5>1. CASE r \in S
          BY <2>0, <2>00, <3>0, <5>1, Transitions DEF RunMoves, TerminalStates
        <5>2. CASE r \notin S
          BY <2>0, <2>00, <3>1, <5>2
        <5>. QED
          BY <5>1, <5>2
      <4>. QED
        BY <4>1
    <3>3. Lifecycle!Advance(S)
      BY <2>0, <3>1, <3>2, SameStates DEF Lifecycle!Advance
    <3>. QED
      BY <3>3 DEF Lifecycle!Next
  <2>2. ASSUME NEW r \in Runs, NEW q \in Requests, NEW seen \in Nat, Admit(r, q, seen)
        PROVE  Lifecycle!Admit(r)
    <3>1. /\ states[r] = "absent" /\ states'[r] = "queued"
          /\ \A s \in Runs : s # r => states'[s] = states[s]
      BY <1>2, <2>0, <2>2, AdmitRows
    <3>2. states' = [states EXCEPT ![r] = "queued"]
      BY <3>1
    <3>3. shown' = shown
      <4>1. \A s \in Runs : s \in shown' <=> s \in shown
        BY <2>0, <2>00, <3>1
      <4>. QED
        BY <4>1
    <3>. QED
      BY <3>1, <3>2, <3>3 DEF Lifecycle!Admit
  <2>. QED
    BY <1>2, <2>1, <2>2, StepOfRuns DEF Lifecycle!Next
<1>. QED
  BY <1>1, <1>2, InductiveInvariant, PTL DEF Spec, ImplementsLifecycle, Lifecycle!Spec
-----------------------------------------------------------------------------
\* An admitted Run has an operator; the fence numbers of last_claimed_at never
\* run ahead; who overtook a waiting operator was claimed after it.
ServedLater ==
    /\ \A r \in Runs : runs[r].state # "absent" => runs[r].op \in Operators
    /\ \A o \in Operators : lastClaimed[o] <= fence
    /\ \A o \in Operators : \A p \in overtakenBy[o] :
         p \in Operators /\ lastClaimed[o] < lastClaimed[p]

\* Every set of Runs has an oldest one.
LEMMA OldestRun ==
    ASSUME NEW S \in SUBSET Runs, S # {}
    PROVE  \E r \in S : \A s \in S : r <= s
<1>1. Runs \subseteq Nat /\ S \subseteq Nat
  BY ConstantsAssumption
<1>2. PICK r \in S : \A s \in S : ~(<<s, r>> \in OpToRel(<, Nat))
  BY <1>1, NatLessThanWellFounded, WFMin
<1>3. \A s \in S : ~(s < r)
  BY <1>1, <1>2 DEF OpToRel
<1>. QED
  BY <1>1, <1>3

\* Claims alone touch the fairness table.
LEMMA FairnessTable ==
    ASSUME [Next]_vars
    PROVE  \/ UNCHANGED <<fence, lastClaimed, overtakenBy>>
           \/ \E r \in Runs, a \in Attempts : ClaimNext(r, a)
  BY DEF Next, RoleStep, RoleActivate, ActivateRole, RoleDrain, RoleResume, RoleExpire,
         RoleLateRenewal, RoleRelease, RoleFrame, BeginStep, BeginClaim, BeginWrite, BeginHeartbeat,
         WriteStep, MarkFinalizing, CommitTerminalFailure, CommitSuccess, Rollback,
         Heartbeat, HeartbeatRejected, QueueStep, Admit, RequestCancel, ReapExpiredLeases,
         Tick, tables, vars

\* A Run leaves the queue for execution only by its own claim.
LEMMA OnlyClaimsStart ==
    ASSUME IInv, IInv', [Next]_vars, NEW r \in Runs,
           runs[r].state = "queued", runs'[r].state = "running"
    PROVE  \E a \in Attempts : ClaimNext(r, a)
<1>1. ASSUME RunsMove, AttemptsEnd  PROVE FALSE
  <2>1. PICK a \in Attempts : attempts'[a].run = r
    BY DEF IInv, RunAttemptAgreement, ActiveStates
  <2>2. attempts'[a].state = "running"
    BY <2>1 DEF IInv, RunAttemptAgreement
  <2>3. attempts[a].state \in ActiveStates /\ attempts[a].run = r
    BY <1>1, <2>1, <2>2 DEF AttemptsEnd, ActiveStates
  <2>. QED
    BY <2>3 DEF IInv, RunAttemptAgreement, ActiveStates
<1>2. ASSUME NEW s \in Runs, NEW a \in Attempts, ClaimNext(s, a)  PROVE s = r
  BY <1>2 DEF ClaimNext, IInv, TypeOK
<1>3. ASSUME NEW s \in Runs, NEW q \in Requests, NEW seen \in Nat, Admit(s, q, seen)
      PROVE  FALSE
  BY <1>3, AdmitRows
<1>. QED
  BY <1>1, <1>2, <1>3, NextMoves

\* No operator is served twice while another one waits, whatever the arrivals,
\* cancellations and failures in between.
THEOREM ClaimsAreFair == Spec => NoOvertaking
<1>. DEFINE Fair ==
       \A r \in Runs : runs[r].state = "queued" /\ runs'[r].state = "running" =>
         \A o \in Operators : Waiting(o) /\ o # runs[r].op => runs[r].op \notin overtakenBy[o]
<1>1. Init => ServedLater
  BY DEF Init, ServedLater
<1>2. ASSUME IInv, ServedLater, [Next]_vars  PROVE ServedLater'
  <2>. DEFINE Owned == \A r \in Runs : runs'[r].state # "absent" => runs'[r].op \in Operators
  <2>1. Owned
    <3>1. CASE RunsMove
      BY <1>2, <3>1, Transitions DEF RunsMove, RunMoves, ServedLater
    <3>2. ASSUME NEW r \in Runs, NEW q \in Requests, NEW seen \in Nat, Admit(r, q, seen)
          PROVE  Owned
      <4>1. runs'[r].op = q.op /\ \A s \in Runs : s # r => runs'[s] = runs[s]
        BY <1>2, <3>2 DEF Admit, IInv, TypeOK
      <4>2. q.op \in Operators
        BY ConstantsAssumption
      <4>. QED
        BY <1>2, <4>1, <4>2 DEF ServedLater
    <3>. QED
      BY <1>2, <3>1, <3>2, StepOfRuns
  <2>2. CASE UNCHANGED <<fence, lastClaimed, overtakenBy>>
    BY <1>2, <2>1, <2>2 DEF ServedLater
  <2>3. ASSUME NEW r \in Runs, NEW a \in Attempts, ClaimNext(r, a)  PROVE ServedLater'
    <3>. DEFINE p == runs[r].op
    <3>1. p \in Operators
      BY <1>2, <2>3 DEF ServedLater, ClaimNext, FairClaim, Heads, QueuedRuns
    <3>2. /\ fence \in Nat /\ lastClaimed \in [Operators -> Nat]
          /\ fence' = fence + 1
          /\ lastClaimed' = [lastClaimed EXCEPT ![p] = fence + 1]
      BY <1>2, <2>3 DEF IInv, TypeOK, ClaimNext
    <3>3. \A o \in Operators :
            overtakenBy'[o] \in {{}, overtakenBy[o] \cup {p}, overtakenBy[o]}
            /\ (o = p => overtakenBy'[o] = {})
      BY <2>3 DEF ClaimNext
    <3>4. \A o \in Operators : lastClaimed'[o] <= fence'
      BY <1>2, <3>1, <3>2 DEF ServedLater
    <3>5. ASSUME NEW o \in Operators, NEW x \in overtakenBy'[o]
          PROVE  x \in Operators /\ lastClaimed'[o] < lastClaimed'[x]
      <4>1. o # p /\ (x \in overtakenBy[o] \/ x = p)
        BY <3>3
      <4>2. lastClaimed'[o] = lastClaimed[o] /\ lastClaimed[o] <= fence
        BY <1>2, <3>2, <4>1 DEF ServedLater
      <4>3. CASE x = p
        BY <3>1, <3>2, <4>2, <4>3
      <4>4. CASE x # p /\ x \in overtakenBy[o]
        BY <1>2, <3>2, <4>2, <4>4 DEF ServedLater
      <4>. QED
        BY <4>1, <4>3, <4>4
    <3>. QED
      BY <2>1, <3>4, <3>5 DEF ServedLater
  <2>. QED
    BY <1>2, <2>2, <2>3, FairnessTable
<1>3. ASSUME IInv, IInv', ServedLater, [Next]_vars  PROVE Fair
  <2>. SUFFICES ASSUME NEW r \in Runs, runs[r].state = "queued", runs'[r].state = "running",
                       NEW o \in Operators, Waiting(o), o # runs[r].op,
                       runs[r].op \in overtakenBy[o]
       PROVE  FALSE
    OBVIOUS
  <2>1. FairClaim(r)
    BY <1>3, OnlyClaimsStart DEF ClaimNext
  <2>. DEFINE S == {s \in QueuedRuns : runs[s].op = o}
  <2>2. S # {} /\ S \subseteq Runs
    BY DEF Waiting, QueuedRuns
  <2>3. PICK s \in S : \A t \in S : s <= t
    BY <2>2, OldestRun
  <2>4. s \in Heads
    BY <2>3 DEF Heads
  <2>5. lastClaimed[o] < lastClaimed[runs[r].op] /\ runs[r].op \in Operators
    BY <1>3 DEF ServedLater
  <2>6. lastClaimed[runs[r].op] <= lastClaimed[o]
    <3>1. lastClaimed[runs[r].op] \in Nat /\ lastClaimed[o] \in Nat /\ runs[s].op = o
      BY <1>3, <2>3, <2>5 DEF IInv, TypeOK
    <3>. QED
      BY <2>1, <2>4, <3>1 DEF FairClaim
  <2>7. lastClaimed[runs[r].op] \in Nat /\ lastClaimed[o] \in Nat
    BY <1>3, <2>5 DEF IInv, TypeOK
  <2>. QED
    BY <2>5, <2>6, <2>7
<1>. QED
  BY <1>1, <1>2, <1>3, InductiveInvariant, PTL DEF Spec, NoOvertaking
-----------------------------------------------------------------------------
\* commit_success alone makes an Attempt SUCCEEDED or appends a turn.
LEMMA OnlyCommitsSucceed ==
    ASSUME IInv, [Next]_vars, ~CommitSuccess
    PROVE  /\ UNCHANGED turns
           /\ \A a \in Attempts : attempts'[a].state = "succeeded" => attempts[a].state = "succeeded"
<1>. DEFINE Same == UNCHANGED turns
            NoneNew == \A a \in Attempts :
                         attempts'[a].state = "succeeded" => attempts[a].state = "succeeded"
<1>0. attempts \in [Attempts -> AttemptRecord]
  BY DEF IInv, TypeOK
<1>1. ASSUME NEW a \in Attempts, NEW t, t # "succeeded", attempts' = [attempts EXCEPT ![a].state = t]
      PROVE  NoneNew
  BY <1>0, <1>1 DEF AttemptRecord
<1>2. CASE RoleStep \/ BeginStep \/ Tick \/ Rollback \/ UNCHANGED vars
  <2>1. UNCHANGED <<turns, attempts>>
    BY <1>2
    DEF RoleStep, RoleActivate, ActivateRole, RoleDrain, RoleResume, RoleExpire,
        RoleLateRenewal, RoleRelease, RoleFrame, BeginStep, BeginClaim, BeginWrite, BeginHeartbeat,
        Tick, Rollback, tables, vars
  <2>. QED
    BY <2>1
<1>3. CASE MarkFinalizing
  <2>1. txn.attempt \in Attempts /\ attempts' = [attempts EXCEPT ![txn.attempt].state = "finalizing"]
    BY <1>3 DEF MarkFinalizing, MoveBoth, IInv, TxnOwnsRow
  <2>. QED
    BY <1>1, <1>3, <2>1 DEF MarkFinalizing
<1>4. CASE CommitTerminalFailure
  <2>1. /\ txn.attempt \in Attempts
        /\ attempts' = [attempts EXCEPT ![txn.attempt].state = txn.write.target]
        /\ txn.write.target # "succeeded"
    BY <1>4 DEF CommitTerminalFailure, MoveBoth, IInv, TxnOwnsRow, TerminalWrites
  <2>. QED
    BY <1>1, <1>4, <2>1 DEF CommitTerminalFailure
<1>5. ASSUME NEW r \in Runs, RequestCancel(r)  PROVE Same /\ NoneNew
  BY <1>1, <1>5 DEF RequestCancel, MoveBoth
<1>6. ASSUME NEW now, NEW lost, ReapExpiredLeases(now, lost)  PROVE Same /\ NoneNew
  BY <1>0, <1>6 DEF ReapExpiredLeases, AttemptRecord
<1>7. ASSUME NEW r \in Runs, NEW a \in Attempts, ClaimNext(r, a)  PROVE Same /\ NoneNew
  <2>1. attempts'[a].state = "running" /\ \A b \in Attempts : b # a => attempts'[b] = attempts[b]
    BY <1>0, <1>7 DEF ClaimNext
  <2>. QED
    BY <1>7, <2>1 DEF ClaimNext
<1>8. ASSUME NEW b \in beats, Heartbeat(b) \/ HeartbeatRejected(b)  PROVE Same /\ NoneNew
  <2>1. CASE HeartbeatRejected(b)
    BY <2>1 DEF HeartbeatRejected, tables
  <2>2. CASE Heartbeat(b)
    <3>1. UNCHANGED turns /\ \A a \in Attempts : attempts'[a].state = attempts[a].state
      BY <1>0, <2>2 DEF Heartbeat, AttemptRecord
    <3>. QED
      BY <3>1
  <2>. QED
    BY <1>8, <2>1, <2>2
<1>9. ASSUME NEW r \in Runs, NEW q \in Requests, NEW seen, Admit(r, q, seen)  PROVE Same /\ NoneNew
  BY <1>9 DEF Admit
<1>10. CASE WriteStep
  BY <1>2, <1>3, <1>4, <1>7, <1>8, <1>10 DEF WriteStep
<1>11. CASE QueueStep
  BY <1>5, <1>6, <1>9, <1>11 DEF QueueStep
<1>. QED
  BY <1>2, <1>10, <1>11 DEF Next

\* The turns of each conversation, with the finiteness that counting them needs.
TurnsCounted ==
    \A c \in Conversations :
      /\ IsFiniteSet(SucceededIn(c)) /\ turns[c] = Cardinality(SucceededIn(c))
      /\ \A r, s \in SucceededIn(c) : runs[r].seen = runs[s].seen => r = s
      /\ \A r \in SucceededIn(c) : runs[r].seen < turns[c]

\* Each succeeded Run of a conversation appended exactly one turn.
THEOREM TurnsMatchSuccesses == Spec => []TurnsOfSuccesses
<1>1. Init => TurnsCounted
  <2>1. ASSUME Init, NEW c \in Conversations  PROVE SucceededIn(c) = {} /\ turns[c] = 0
    BY <2>1 DEF Init, SucceededIn
  <2>. QED
    BY <2>1, FS_EmptySet DEF TurnsCounted
<1>2. ASSUME IInv, IInv', TurnsCounted, [Next]_vars  PROVE TurnsCounted'
  <2>0. TerminalKept
    BY <1>2, StepKeepsTerminal
  <2>1. CASE ~CommitSuccess
    <3>1. ASSUME NEW r \in Runs
          PROVE  runs'[r].state = "succeeded" <=> runs[r].state = "succeeded"
      <4>1. ASSUME runs[r].state = "succeeded"  PROVE runs'[r].state = "succeeded"
        BY <2>0, <4>1 DEF TerminalKept, TerminalStates
      <4>2. ASSUME runs'[r].state = "succeeded"  PROVE runs[r].state = "succeeded"
        <5>. DEFINE a == runs'[r].result
        <5>1. a \in Attempts /\ attempts'[a].run = r /\ attempts'[a].state = "succeeded"
          BY <1>2, <4>2 DEF IInv, ResultVisibility, TypeOK, RunRecord
        <5>2. attempts[a].state = "succeeded"
          BY <1>2, <2>1, <5>1, OnlyCommitsSucceed
        <5>3. attempts[a].run = r
          BY <2>0, <5>1, <5>2 DEF TerminalKept, TerminalStates
        <5>. QED
          BY <1>2, <5>1, <5>2, <5>3 DEF IInv, RunAttemptAgreement
      <4>. QED
        BY <4>1, <4>2
    <3>2. \A r \in Runs : runs[r].state = "succeeded" => runs'[r] = runs[r]
      BY <2>0 DEF TerminalKept, TerminalStates
    <3>3. ASSUME NEW c \in Conversations  PROVE SucceededIn(c)' = SucceededIn(c)
      BY <3>1, <3>2 DEF SucceededIn
    <3>4. UNCHANGED turns
      BY <1>2, <2>1, OnlyCommitsSucceed
    <3>5. \A c \in Conversations : \A r \in SucceededIn(c) : runs'[r].seen = runs[r].seen
      BY <3>2 DEF SucceededIn
    <3>. QED
      BY <1>2, <3>3, <3>4, <3>5 DEF TurnsCounted
  <2>2. CASE CommitSuccess
    <3>. DEFINE a == txn.attempt
                r == attempts[a].run
                k == runs[r].conv
    <3>1. /\ a \in Attempts /\ attempts[a].state = "finalizing"
          /\ r \in Runs /\ runs[r].state = "finalizing" /\ runs[r] \in RunRecord
          /\ runs \in [Runs -> RunRecord] /\ turns \in [Conversations -> Nat]
      BY <1>2, <2>2 DEF CommitSuccess, IInv, TxnOwnsRow, RunAttemptAgreement, TypeOK
    <3>2. /\ runs' = [runs EXCEPT ![r] = [Moved(runs[r], "succeeded", "none") EXCEPT !.result = a]]
          /\ k # NoConversation => turns[k] = runs[r].seen
          /\ turns' = IF k = NoConversation THEN turns ELSE [turns EXCEPT ![k] = turns[k] + 1]
      BY <2>2 DEF CommitSuccess
    <3>3. /\ runs'[r].state = "succeeded" /\ runs'[r].conv = k /\ runs'[r].seen = runs[r].seen
          /\ \A s \in Runs : s # r => runs'[s] = runs[s]
      BY <3>1, <3>2 DEF Moved, RunRecord
    <3>. SUFFICES ASSUME NEW c \in Conversations
         PROVE  /\ IsFiniteSet(SucceededIn(c)') /\ turns'[c] = Cardinality(SucceededIn(c)')
                /\ \A t, u \in SucceededIn(c)' : runs'[t].seen = runs'[u].seen => t = u
                /\ \A t \in SucceededIn(c)' : runs'[t].seen < turns'[c]
      BY DEF TurnsCounted
    <3>4. /\ IsFiniteSet(SucceededIn(c)) /\ turns[c] = Cardinality(SucceededIn(c))
          /\ \A t, u \in SucceededIn(c) : runs[t].seen = runs[u].seen => t = u
          /\ \A t \in SucceededIn(c) : runs[t].seen < turns[c]
          /\ \A t \in SucceededIn(c) : t \in Runs /\ t # r /\ runs'[t] = runs[t]
      BY <1>2, <3>1, <3>3 DEF TurnsCounted, SucceededIn
    <3>5. CASE c # k
      <4>1. turns'[c] = turns[c]
        BY <3>1, <3>2, <3>5
      <4>2. SucceededIn(c)' = SucceededIn(c)
        BY <3>1, <3>3, <3>5 DEF SucceededIn
      <4>. QED
        BY <3>4, <4>1, <4>2
    <3>6. CASE c = k
      <4>1. turns'[c] = turns[c] + 1 /\ turns[c] = runs[r].seen /\ turns[c] \in Nat
        BY <3>1, <3>2, <3>6, ConstantsAssumption
      <4>2. SucceededIn(c)' = SucceededIn(c) \cup {r} /\ r \notin SucceededIn(c)
        BY <3>1, <3>3, <3>6 DEF SucceededIn
      <4>3. IsFiniteSet(SucceededIn(c)') /\ Cardinality(SucceededIn(c)') = turns[c] + 1
        <5>1. ASSUME NEW S, NEW x, IsFiniteSet(S), x \notin S
              PROVE  IsFiniteSet(S \cup {x}) /\ Cardinality(S \cup {x}) = Cardinality(S) + 1
          BY <5>1, FS_AddElement
        <5>2. IsFiniteSet(SucceededIn(c)) /\ r \notin SucceededIn(c)
          BY <3>4, <4>2
        <5>3. /\ IsFiniteSet(SucceededIn(c) \cup {r})
              /\ Cardinality(SucceededIn(c) \cup {r}) = Cardinality(SucceededIn(c)) + 1
          BY <5>1, <5>2
        <5>. QED
          BY <3>4, <4>2, <5>3
      <4>4. \A t \in SucceededIn(c) : runs'[t].seen = runs[t].seen /\ runs[t].seen \in Nat
        BY <3>1, <3>4 DEF RunRecord
      <4>5. \A t \in SucceededIn(c) : runs'[t].seen < turns[c]
        BY <3>4, <4>4
      <4>6. \A t, u \in SucceededIn(c)' : runs'[t].seen = runs'[u].seen => t = u
        <5>. DEFINE old == SucceededIn(c)
                    pos(t) == runs'[t].seen
        <5>1. /\ \A t \in old : pos(t) \in Nat /\ pos(t) < turns[c]
              /\ pos(r) = turns[c]
              /\ \A t, u \in old : pos(t) = pos(u) => t = u
          BY <3>3, <3>4, <4>1, <4>4, <4>5
        <5>2. \A t \in old : pos(t) # pos(r)
          BY <4>1, <5>1
        <5>. QED
          BY <4>2, <5>1, <5>2
      <4>7. \A t \in SucceededIn(c)' : runs'[t].seen < turns'[c]
        BY <3>3, <4>1, <4>2, <4>4, <4>5
      <4>. QED
        BY <4>1, <4>3, <4>6, <4>7
    <3>. QED
      BY <3>5, <3>6
  <2>. QED
    BY <2>1, <2>2
<1>3. TurnsCounted => TurnsOfSuccesses
  BY DEF TurnsCounted, TurnsOfSuccesses
<1>. QED
  BY <1>1, <1>2, <1>3, InductiveInvariant, PTL DEF Spec

-----------------------------------------------------------------------------
\* The lease of an Attempt ends at the latest when its deadline does, so that a
\* thread that finds its deadline passed has no lease left to record it under.
LeasesEndByDeadline == \A a \in Attempts : attempts[a].lease <= attempts[a].deadline

\* What a step does to the lease and the deadline of one row.
LeaseMoves(a) ==
    \/ attempts'[a].lease = attempts[a].lease /\ attempts'[a].deadline = attempts[a].deadline
    \/ \E now \in Nat :
         /\ attempts'[a].lease = now + LeaseSeconds
         /\ attempts'[a].deadline = now + DeadlineSeconds
    \/ \E now \in Nat :
         /\ attempts'[a].lease = Earliest(now + LeaseSeconds, attempts[a].deadline)
         /\ attempts'[a].deadline = attempts[a].deadline

\* Leases are set by claims and heartbeats, deadlines by claims.
LEMMA StepOfLeases == ASSUME IInv, [Next]_vars, NEW a \in Attempts PROVE LeaseMoves(a)
<1>0. attempts \in [Attempts -> AttemptRecord]
  BY DEF IInv, TypeOK
<1>1. CASE UNCHANGED attempts
  BY <1>1 DEF LeaseMoves
<1>2. ASSUME NEW b \in Attempts, NEW t, attempts' = [attempts EXCEPT ![b].state = t]
      PROVE  LeaseMoves(a)
  BY <1>0, <1>2 DEF AttemptRecord, LeaseMoves
<1>3. CASE RoleStep \/ BeginStep \/ Tick \/ UNCHANGED vars
  <2>1. UNCHANGED attempts
    BY <1>3 DEF RoleStep, RoleActivate, ActivateRole, RoleDrain, RoleResume, RoleExpire,
                RoleLateRenewal, RoleRelease, RoleFrame, BeginStep, BeginClaim, BeginWrite,
                BeginHeartbeat, Tick, tables, vars
  <2>. QED
    BY <1>1, <2>1
<1>4. CASE QueueStep
  <2>1. ASSUME NEW now \in Readings, NEW lost, ReapExpiredLeases(now, lost) PROVE LeaseMoves(a)
    <3>1. attempts'[a] \in {attempts[a], [attempts[a] EXCEPT !.state = "failed"]}
      BY <2>1 DEF ReapExpiredLeases
    <3>. QED
      BY <1>0, <3>1 DEF AttemptRecord, LeaseMoves
  <2>2. CASE \E r \in Runs : RequestCancel(r)
    BY <1>1, <1>2, <2>2 DEF RequestCancel, MoveBoth
  <2>. QED
    BY <1>1, <1>4, <2>1, <2>2 DEF QueueStep, Admit
<1>5. CASE WriteStep
  <2>1. ASSUME NEW r \in Runs, NEW b \in Attempts, ClaimNext(r, b) PROVE LeaseMoves(a)
    <3>1. PICK row : /\ row.lease = txn.now + LeaseSeconds /\ row.deadline = txn.now + DeadlineSeconds
                     /\ attempts' = [attempts EXCEPT ![b] = row]
      BY <2>1 DEF ClaimNext
    <3>2. txn.now \in Nat
      BY DEF IInv, TypeOK, Txn
    <3>. QED
      BY <1>0, <3>1, <3>2 DEF LeaseMoves
  <2>2. ASSUME NEW b \in beats, Heartbeat(b) PROVE LeaseMoves(a)
    <3>. DEFINE t == Earliest(b.now + LeaseSeconds, attempts[b.attempt].deadline)
    <3>1. /\ b.now \in Nat /\ b.attempt \in Attempts
          /\ attempts' = [attempts EXCEPT ![b.attempt].lease = t]
      BY <2>2 DEF Heartbeat, IInv, TypeOK
    <3>2. a = b.attempt => t = Earliest(b.now + LeaseSeconds, attempts[a].deadline)
      OBVIOUS
    <3>. HIDE DEF t
    <3>3. attempts'[a] = IF a = b.attempt THEN [attempts[a] EXCEPT !.lease = t] ELSE attempts[a]
      BY <1>0, <3>1
    <3>. QED
      BY <1>0, <3>1, <3>2, <3>3 DEF AttemptRecord, LeaseMoves
  <2>3. CASE MarkFinalizing \/ CommitTerminalFailure \/ CommitSuccess
    <3>1. txn.attempt \in Attempts
      BY <2>3 DEF MarkFinalizing, CommitTerminalFailure, CommitSuccess, IInv, TxnOwnsRow
    <3>. QED
      BY <1>2, <2>3, <3>1 DEF MarkFinalizing, CommitTerminalFailure, CommitSuccess, MoveBoth
  <2>4. CASE Rollback \/ \E b \in beats : HeartbeatRejected(b)
    BY <1>1, <2>4 DEF Rollback, HeartbeatRejected, tables
  <2>. QED
    BY <1>5, <2>1, <2>2, <2>3, <2>4 DEF WriteStep
<1>. QED
  BY <1>3, <1>4, <1>5 DEF Next

\* A claim starts with a lease that is shorter than the deadline, and every
\* heartbeat cuts the new lease at the deadline.
THEOREM LeasesWithinDeadlines == Spec => []LeasesEndByDeadline
<1>1. Init => LeasesEndByDeadline
  BY DEF Init, LeasesEndByDeadline
<1>2. ASSUME IInv, LeasesEndByDeadline, [Next]_vars PROVE LeasesEndByDeadline'
  <2>1. ASSUME NEW a \in Attempts PROVE attempts'[a].lease <= attempts'[a].deadline
    <3>1. attempts[a].lease \in Nat /\ attempts[a].deadline \in Nat
      BY <1>2 DEF IInv, TypeOK, AttemptRecord
    <3>2. attempts[a].lease <= attempts[a].deadline /\ LeaseMoves(a)
      BY <1>2, StepOfLeases DEF LeasesEndByDeadline
    <3>. QED
      BY <3>1, <3>2, ConstantsAssumption DEF LeaseMoves, Earliest
  <2>. QED
    BY <2>1 DEF LeasesEndByDeadline
<1>. QED
  BY <1>1, <1>2, InductiveInvariant, PTL DEF Spec

\* Only commit_terminal_failure records TIMED_OUT, while its Attempt has a lease.
LEMMA OnlyFailuresTimeOut ==
    ASSUME IInv, [Next]_vars, NEW a \in Attempts,
           attempts'[a].state = "timed_out", attempts[a].state # "timed_out"
    PROVE  /\ txn.op = "fail" /\ txn.attempt = a /\ txn.write.target = "timed_out"
           /\ txn.now < attempts[a].lease
<1>0. attempts \in [Attempts -> AttemptRecord] /\ txn \in Txn
  BY DEF IInv, TypeOK
<1>1. ASSUME NEW b \in Attempts, NEW t, t # "timed_out", attempts' = [attempts EXCEPT ![b].state = t]
      PROVE  FALSE
  BY <1>0, <1>1 DEF AttemptRecord
<1>2. attempts'[a] # attempts[a]
  OBVIOUS
<1>3. CASE RoleStep \/ BeginStep \/ Tick \/ UNCHANGED vars
  <2>1. UNCHANGED attempts
    BY <1>3 DEF RoleStep, RoleActivate, ActivateRole, RoleDrain, RoleResume, RoleExpire,
                RoleLateRenewal, RoleRelease, RoleFrame, BeginStep, BeginClaim, BeginWrite,
                BeginHeartbeat, Tick, tables, vars
  <2>. QED
    BY <1>2, <2>1
<1>4. CASE QueueStep
  <2>1. ASSUME NEW now \in Readings, NEW lost, ReapExpiredLeases(now, lost) PROVE FALSE
    <3>1. attempts'[a] \in {attempts[a], [attempts[a] EXCEPT !.state = "failed"]}
      BY <2>1 DEF ReapExpiredLeases
    <3>. QED
      BY <1>0, <3>1 DEF AttemptRecord
  <2>2. ASSUME NEW r \in Runs, RequestCancel(r) PROVE FALSE
    BY <1>1, <1>2, <2>2 DEF RequestCancel, MoveBoth
  <2>. QED
    BY <1>2, <1>4, <2>1, <2>2 DEF QueueStep, Admit
<1>5. CASE WriteStep
  <2>1. ASSUME NEW r \in Runs, NEW b \in Attempts, ClaimNext(r, b) PROVE FALSE
    <3>1. attempts'[b].state = "running" /\ \A c \in Attempts : c # b => attempts'[c] = attempts[c]
      BY <1>0, <2>1 DEF ClaimNext
    <3>. QED
      BY <1>2, <3>1
  <2>2. ASSUME NEW b \in beats, Heartbeat(b) PROVE FALSE
    <3>1. attempts'[a].state = attempts[a].state
      BY <1>0, <2>2 DEF Heartbeat, AttemptRecord
    <3>. QED
      BY <3>1
  <2>3. CASE MarkFinalizing
    <3>1. txn.attempt \in Attempts /\ attempts' = [attempts EXCEPT ![txn.attempt].state = "finalizing"]
      BY <2>3 DEF MarkFinalizing, MoveBoth, IInv, TxnOwnsRow
    <3>. QED
      BY <1>1, <3>1
  <2>4. CASE CommitSuccess
    <3>1. txn.attempt \in Attempts /\ attempts' = [attempts EXCEPT ![txn.attempt].state = "succeeded"]
      BY <2>4 DEF CommitSuccess, IInv, TxnOwnsRow
    <3>. QED
      BY <1>1, <3>1
  <2>5. CASE CommitTerminalFailure
    <3>1. /\ txn.op = "fail" /\ txn.attempt \in Attempts
          /\ txn.now < attempts[txn.attempt].lease
          /\ attempts' = [attempts EXCEPT ![txn.attempt].state = txn.write.target]
      <4>1. txn.now \in Nat /\ txn.attempt \in Attempts
        BY <1>0, <2>5 DEF CommitTerminalFailure, IInv, TxnOwnsRow, Txn
      <4>2. attempts[txn.attempt].lease \in Nat
        BY <1>0, <4>1 DEF AttemptRecord
      <4>. QED
        BY <2>5, <4>1, <4>2 DEF CommitTerminalFailure, MoveBoth, OwnedRow
    <3>2. txn.write.target = "timed_out"
      BY <1>1, <3>1
    <3>3. txn.attempt = a
      BY <1>0, <1>2, <3>1
    <3>. QED
      BY <3>1, <3>2, <3>3
  <2>6. CASE Rollback \/ \E b \in beats : HeartbeatRejected(b)
    BY <1>2, <2>6 DEF Rollback, HeartbeatRejected, tables
  <2>. QED
    BY <1>5, <2>1, <2>2, <2>3, <2>4, <2>5, <2>6 DEF WriteStep
<1>. QED
  BY <1>3, <1>4, <1>5 DEF Next

\* An Attempt is recorded as TIMED_OUT only by a call whose clock reading is still
\* before the deadline: allow_deadline_expired lets a later call past the deadline,
\* and the lease, which was cut at the deadline, refuses it.
TimeoutsAreEarly ==
    [][\A a \in Attempts : attempts'[a].state = "timed_out" /\ attempts[a].state # "timed_out" =>
         txn.attempt = a /\ txn.now < attempts[a].deadline]_vars

\* The lease of the Attempt covers the reading, and ends by the deadline.
THEOREM TimeoutsPrecedeDeadlines == Spec => TimeoutsAreEarly
<1>. DEFINE Early ==
       \A a \in Attempts : attempts'[a].state = "timed_out" /\ attempts[a].state # "timed_out" =>
         txn.attempt = a /\ txn.now < attempts[a].deadline
<1>1. ASSUME IInv, LeasesEndByDeadline, [Next]_vars PROVE Early
  <2>1. ASSUME NEW a \in Attempts, attempts'[a].state = "timed_out", attempts[a].state # "timed_out"
        PROVE  txn.attempt = a /\ txn.now < attempts[a].deadline
    <3>1. txn.attempt = a /\ txn.now < attempts[a].lease
      BY <1>1, <2>1, OnlyFailuresTimeOut
    <3>2. /\ txn.now \in Nat /\ attempts[a].lease \in Nat /\ attempts[a].deadline \in Nat
          /\ attempts[a].lease <= attempts[a].deadline
      BY <1>1 DEF IInv, TypeOK, Txn, AttemptRecord, LeasesEndByDeadline
    <3>. QED
      BY <3>1, <3>2
  <2>. QED
    BY <2>1
<1>. QED
  BY <1>1, InductiveInvariant, LeasesWithinDeadlines, PTL DEF Spec, TimeoutsAreEarly

-----------------------------------------------------------------------------
\* A write checks the Attempt row and the Run row separately, and the check of the
\* second row is never the one that raises: mark_finalizing, commit_terminal_failure
\* and commit_success find the Run where they found its Attempt, request_cancel
\* finds an Attempt to cancel, and the reaper is never stopped by a Run that has
\* already ended.
SecondChecksPass ==
    /\ LET a == txn.attempt IN
         /\ txn.op = "finalize" /\ CanTransition(attempts[a].state, "finalizing") =>
              runs[attempts[a].run].state = "running"
         /\ txn.op = "fail" /\ CanTransition(attempts[a].state, txn.write.target) =>
              CanTransition(runs[attempts[a].run].state, txn.write.target)
         /\ txn.op = "succeed" /\ attempts[a].state = "finalizing" =>
              runs[attempts[a].run].state = "finalizing"
    /\ \A r \in Runs : runs[r].state \in {"running", "finalizing"} =>
         \E a \in Attempts : attempts[a].run = r /\ attempts[a].state = runs[r].state
    /\ \A now \in Readings : \A a \in Expired(now) : runs[attempts[a].run].state \in ActiveStates

\* Both rows are in one state, and the open transaction has an active Attempt.
THEOREM OneCheckSuffices == Spec => []SecondChecksPass
<1>1. ASSUME IInv PROVE SecondChecksPass
  <2>1. ASSUME NEW a \in Attempts, attempts[a].state \in ActiveStates
        PROVE  attempts[a].run \in Runs /\ runs[attempts[a].run].state = attempts[a].state
    BY <1>1, <2>1 DEF IInv, RunAttemptAgreement, ActiveStates
  <2>2. txn.op \in {"finalize", "succeed", "fail"} =>
          txn.attempt \in Attempts /\ attempts[txn.attempt].state \in ActiveStates
    BY <1>1 DEF IInv, TxnOwnsRow
  <2>3. \A s : CanTransition(s, "finalizing") => s = "running"
    BY DEF CanTransition, AllowedTransitions, RunLifecycleState, ActiveStates, TerminalStates
  <2>4. ASSUME NEW r \in Runs, runs[r].state \in {"running", "finalizing"}
        PROVE  \E a \in Attempts : attempts[a].run = r /\ attempts[a].state = runs[r].state
    <3>1. PICK a \in Attempts : attempts[a].run = r
      BY <1>1, <2>4 DEF IInv, RunAttemptAgreement, ActiveStates
    <3>2. attempts[a].state = runs[r].state
      BY <1>1, <3>1 DEF IInv, RunAttemptAgreement
    <3>. QED
      BY <3>1, <3>2
  <2>5. \A now \in Readings : \A a \in Expired(now) : runs[attempts[a].run].state \in ActiveStates
    BY <2>1 DEF Expired, ActiveAttempts
  <2>. QED
    BY <2>1, <2>2, <2>3, <2>4, <2>5 DEF SecondChecksPass
<1>. QED
  BY <1>1, InductiveInvariant, PTL
=============================================================================
