------------------------- MODULE WorkflowTaskProofs -------------------------
(***************************************************************************)
(* Theorems about a workflow task and its Runs, for every number of Runs,  *)
(* question slots, versions and revisions.                                 *)
(***************************************************************************)
EXTENDS WorkflowTask, TLAPS

\* The empty table satisfies the inductive invariant.
LEMMA InitTaskInv == ASSUME Init PROVE TaskInv
<1>1. TaskTypeOK
  BY TaskAssumption
  DEF Init, TaskTypeOK, Task, Question, Intent, TaskRun, NoQuestion, NoIntent
<1>2. LiveRunIsLatest /\ LostWorkIsDebt /\ OpenQuestionStopsTask
  BY DEF Init, LiveRunIsLatest, LostWorkIsDebt, OpenQuestionStopsTask, Exists, Unfinished
<1>3. IntentsDated
  BY DEF Init, IntentsDated, NoIntent
<1>4. RunsOfTask
  BY TaskAssumption DEF Init, RunsOfTask, NoIntent, NoQuestion, Live
<1>. QED
  BY <1>1, <1>2, <1>3, <1>4 DEF TaskInv

\* What the states of a Run are to the task.
LEMMA StateFacts ==
    /\ ActiveStates \subseteq RunLifecycleState
    /\ TerminalStates \subseteq RunLifecycleState
    /\ "queued" \in RunLifecycleState
    /\ TerminalStates \cap ({"queued"} \cup ActiveStates) = {}
    /\ "absent" \notin RunLifecycleState
  BY DEF ActiveStates, TerminalStates, RunLifecycleState

\* compare_and_swap in a phase of the table.
LEMMA ChangedType ==
    ASSUME TaskTypeOK, NEW phase \in TaskPhase
    PROVE  /\ _changed(phase) \in Task
           /\ _changed(phase).phase = phase
           /\ _changed(phase).version = task.version + 1
           /\ _changed(phase).revision = task.revision
           /\ _changed(phase).run = task.run
           /\ _changed(phase).runRevision = task.runRevision
           /\ _changed(phase).tokens = task.tokens
<1>1. task \in Task /\ task.version + 1 \in Nat
  BY DEF TaskTypeOK, Task
<1>2. _changed(phase) \in Task
  BY <1>1 DEF Task, _changed
<1>. QED
  BY <1>1, <1>2 DEF Task, _changed

\* Every step but an admission, a new intent and a purge: the binding and the
\* outbox stay, and a Run only moves on while it is live.
RunMoves(r) ==
    /\ Live(r)
    /\ runs'[r].state \in RunLifecycleState \ {"queued"}
    /\ runs'[r].attempts = 1 /\ runs'[r].state \in TerminalStates \ {"succeeded"} /\ Unfinished'
         => task'.tokens = "unknown"

LEMMA StepKeeps ==
    ASSUME TaskInv, TaskTypeOK', OpenQuestionStopsTask',
           Exists' => Exists, Unfinished' => Unfinished,
           task'.phase = "absent" =>
             /\ task.phase = "absent"
             /\ \A s \in Slots : questions[s].status = "none" => questions'[s].status = "none",
           task'.run = task.run, task'.runRevision = task.runRevision,
           task'.version \in {task.version, task.version + 1},
           task.tokens = "unknown" => task'.tokens = "unknown",
           Live(task.run) => task'.revision = task.revision,
           intents' = intents,
           \A r \in Runs : runs'[r] = runs[r] \/ RunMoves(r)
    PROVE  TaskInv'
<1>. USE DEF TaskInv
<1>1. \A r \in Runs : Live(r)' => Live(r)
  BY DEF Live, RunMoves
<1>2. LiveRunIsLatest'
  BY <1>1 DEF LiveRunIsLatest
<1>3. LostWorkIsDebt'
  BY DEF LostWorkIsDebt, RunMoves
<1>4. IntentsDated'
  <2>. SUFFICES ASSUME NEW r \in Runs
       PROVE  /\ intents[r].status # "none" => intents[r].version <= task'.version /\ r # Initial
              /\ intents[r].status = "dispatched" => intents[r].version < task'.version
              /\ intents[r].status = "pending" => runs'[r].state = "absent"
              /\ intents[r].status = "none" /\ r # Initial /\ Exists' => runs'[r].state = "absent"
              /\ intents[r].status = "pending" /\ intents[r].version = task'.version
                   => ~Live(task.run)'
    BY DEF IntentsDated
  <2>1. task.version \in Nat /\ intents[r].version \in Nat
    BY DEF TaskTypeOK, Task, Intent
  <2>2. runs[r].state = "absent" => runs'[r] = runs[r]
    BY StateFacts DEF RunMoves, Live
  <2>3. task'.version = task.version => (Live(task.run)' => Live(task.run))
    BY <1>1 DEF Live
  <2>. QED
    BY <2>1, <2>2, <2>3 DEF IntentsDated
<1>5. RunsOfTask'
  <2>1. ASSUME task'.phase = "absent", NEW r \in Runs
        PROVE  runs'[r].state = "absent" /\ intents'[r].status = "none"
    BY <2>1, StateFacts DEF RunsOfTask, RunMoves, Live
  <2>4. task'.phase = "absent" => \A s \in Slots : questions'[s].status = "none"
    BY DEF RunsOfTask
  <2>2. ASSUME NEW r \in Runs, runs'[r].state \in {"absent", "queued"}
        PROVE  runs'[r].attempts = 0
    BY <2>2, StateFacts DEF RunsOfTask, RunMoves
  <2>3. Live(task.run)' => task'.runRevision = task'.revision
    BY <1>1 DEF RunsOfTask, Live
  <2>. QED
    BY <2>1, <2>2, <2>3, <2>4 DEF RunsOfTask
<1>. QED
  BY <1>2, <1>3, <1>4, <1>5

\* The rows of the queue alone move: the task and its questions stay.
LEMMA RunStepKeeps ==
    ASSUME TaskInv, NEW r \in Runs, NEW new \in TaskRun,
           Live(r), new.state \in RunLifecycleState \ {"queued"},
           new.state \in TerminalStates \ {"succeeded"} => new.attempts = 0,
           runs' = [runs EXCEPT ![r] = new],
           UNCHANGED <<task, questions, intents, pausing, retained>>
    PROVE  TaskInv'
<1>1. TaskTypeOK'
  BY DEF TaskInv, TaskTypeOK
<1>2. \A x \in Runs : runs'[x] = runs[x] \/ RunMoves(x)
  BY DEF TaskInv, TaskTypeOK, RunMoves
<1>3. \A x \in Runs : Live(x)' => Live(x)
  BY <1>2 DEF Live, RunMoves
<1>4. OpenQuestionStopsTask'
  BY <1>3 DEF TaskInv, OpenQuestionStopsTask, _blocked, Open, Exists, Live
<1>. QED
  BY <1>1, <1>2, <1>4, StepKeeps DEF TaskInv, TaskTypeOK, Task, Exists, Unfinished

LEMMA ClaimKeeps == ASSUME TaskInv, NEW r \in Runs, Claim(r) PROVE TaskInv'
<1>. DEFINE new == [runs[r] EXCEPT !.state = "running", !.attempts = 1]
<1>1. new \in TaskRun /\ new.state = "running"
  BY DEF TaskInv, TaskTypeOK, TaskRun, RunLifecycleState, ActiveStates
<1>2. runs' = [runs EXCEPT ![r] = new]
  BY DEF Claim, TaskInv, TaskTypeOK
<1>3. Live(r) /\ UNCHANGED <<task, questions, intents, pausing, retained>>
  BY DEF Claim, Live
<1>. HIDE DEF new
<1>. QED
  BY <1>1, <1>2, <1>3, RunStepKeeps
  DEF RunLifecycleState, ActiveStates, TerminalStates

LEMMA FinalizeKeeps == ASSUME TaskInv, NEW r \in Runs, Finalize(r) PROVE TaskInv'
<1>. DEFINE new == [runs[r] EXCEPT !.state = "finalizing"]
<1>1. new \in TaskRun /\ new.state = "finalizing"
  BY DEF TaskInv, TaskTypeOK, TaskRun, RunLifecycleState, ActiveStates
<1>2. runs' = [runs EXCEPT ![r] = new]
  BY DEF Finalize, TaskInv, TaskTypeOK
<1>3. Live(r) /\ UNCHANGED <<task, questions, intents, pausing, retained>>
  BY DEF Finalize, Live, ActiveStates
<1>. HIDE DEF new
<1>. QED
  BY <1>1, <1>2, <1>3, RunStepKeeps
  DEF RunLifecycleState, ActiveStates, TerminalStates

LEMMA CancelKeeps == ASSUME TaskInv, NEW r \in Runs, Cancel(r) PROVE TaskInv'
<1>. DEFINE new == [runs[r] EXCEPT !.state = IF @ = "queued" THEN "cancelled" ELSE "cancel_requested"]
<1>1. new \in TaskRun
  BY DEF TaskInv, TaskTypeOK, TaskRun, RunLifecycleState, ActiveStates, TerminalStates
<1>2. /\ new.state = IF runs[r].state = "queued" THEN "cancelled" ELSE "cancel_requested"
      /\ new.attempts = runs[r].attempts
  BY DEF TaskInv, TaskTypeOK, TaskRun
<1>3. runs' = [runs EXCEPT ![r] = new]
  BY DEF Cancel, TaskInv, TaskTypeOK
<1>4. Live(r) /\ UNCHANGED <<task, questions, intents, pausing, retained>>
  BY DEF Cancel, Live, ActiveStates
<1>5. new.state \in TerminalStates \ {"succeeded"} => new.attempts = 0
  BY <1>2 DEF TaskInv, RunsOfTask, TerminalStates
<1>6. new.state \in RunLifecycleState \ {"queued"}
  BY <1>2 DEF RunLifecycleState, ActiveStates, TerminalStates
<1>. HIDE DEF new
<1>. QED
  BY <1>1, <1>3, <1>4, <1>5, <1>6, RunStepKeeps

\* Which questions are open depends on their status and revision only.
LEMMA SameOpen ==
    ASSUME \A s \in Slots : Open(questions[s])' => Open(questions[s])
    PROVE  _blocked(questions)' => _blocked(questions)
  BY DEF _blocked

\* The task goes to another phase, or only to another version, and no question opens.
LEMMA PhaseStepKeeps ==
    ASSUME TaskInv, Current, NEW phase \in TaskPhase,
           task.phase \notin TERMINAL_PHASES, phase = "active" => ~_blocked(questions)',
           task' = _changed(phase),
           questions' \in [Slots -> Question],
           \A s \in Slots : Open(questions[s])' => Open(questions[s]),
           UNCHANGED <<intents, runs, pausing, retained>>
    PROVE  TaskInv'
<1>1. /\ task' \in Task /\ task'.phase = phase /\ task'.version = task.version + 1
      /\ task'.revision = task.revision /\ task'.run = task.run
      /\ task'.runRevision = task.runRevision /\ task'.tokens = task.tokens
  BY ChangedType DEF TaskInv
<1>2. TaskTypeOK'
  BY <1>1 DEF TaskInv, TaskTypeOK
<1>3. OpenQuestionStopsTask'
  BY <1>1, SameOpen DEF TaskInv, OpenQuestionStopsTask, Current, Exists, Live
<1>. QED
  BY <1>1, <1>2, <1>3, StepKeeps
  DEF Unfinished, Exists, Current, TaskPhase, TERMINAL_PHASES

LEMMA ResumeWaitsKeeps == ASSUME TaskInv, ResumeWaits PROVE TaskInv'
<1>1. "waiting_for_input" \in TaskPhase /\ task.phase \notin TERMINAL_PHASES
  BY DEF ResumeWaits, TaskPhase, TERMINAL_PHASES
<1>2. \A s \in Slots : Open(questions[s])' => Open(questions[s])
  BY <1>1, ChangedType DEF ResumeWaits, TaskInv, Open
<1>. QED
  BY <1>1, <1>2, PhaseStepKeeps DEF ResumeWaits, TaskInv, TaskTypeOK

LEMMA TransitionKeeps ==
    ASSUME TaskInv, NEW phase \in TaskPhase, transition(phase) PROVE TaskInv'
<1>1. task.phase \in TaskPhase
  BY DEF transition, Current, Exists, TaskInv, TaskTypeOK, Task
<1>2. task.phase \notin TERMINAL_PHASES
  BY <1>1 DEF transition, AllowedPhases, TERMINAL_PHASES
<1>3. _blocked(questions)' <=> _blocked(questions)
  BY ChangedType DEF transition, _blocked, Open, TaskInv
<1>. QED
  BY <1>2, <1>3, ChangedType, PhaseStepKeeps DEF transition, TaskInv, TaskTypeOK, Open

LEMMA ExpireQuestionsKeeps == ASSUME TaskInv, ExpireQuestions PROVE TaskInv'
<1>1. task.phase \in TaskPhase /\ task.phase \notin TERMINAL_PHASES /\ Current
  BY DEF ExpireQuestions, Current, Unfinished, Exists, TaskInv, TaskTypeOK, Task
<1>2. questions' \in [Slots -> Question]
  BY DEF ExpireQuestions, TaskInv, TaskTypeOK, Question
<1>3. \A s \in Slots : Open(questions[s])' => Open(questions[s])
  BY <1>1, ChangedType DEF ExpireQuestions, TaskInv, TaskTypeOK, Question, Open
<1>4. task.phase = "active" => ~_blocked(questions)'
  BY <1>1, <1>3, SameOpen DEF TaskInv, OpenQuestionStopsTask, Current
<1>. QED
  BY <1>1, <1>2, <1>3, <1>4, PhaseStepKeeps DEF ExpireQuestions

\* Neither the task nor its Runs and intents change, and no question opens.
LEMMA QuietStepKeeps ==
    ASSUME TaskInv, TaskTypeOK', UNCHANGED <<task, intents, runs>>,
           \A s \in Slots : Open(questions[s])' => Open(questions[s]),
           \A s \in Slots : questions[s].status = "none" => questions'[s].status = "none"
    PROVE  TaskInv'
<1>1. OpenQuestionStopsTask'
  BY SameOpen DEF TaskInv, OpenQuestionStopsTask, Exists, Live
<1>. QED
  BY <1>1, StepKeeps DEF TaskInv, TaskTypeOK, Task, Exists, Unfinished

LEMMA PauseSeesLiveRunKeeps == ASSUME TaskInv, PauseSeesLiveRun PROVE TaskInv'
  BY QuietStepKeeps DEF PauseSeesLiveRun, TaskInv, TaskTypeOK, Live, Open

LEMMA PauseEndsKeeps == ASSUME TaskInv, NEW r \in Runs, PauseEnds(r) PROVE TaskInv'
  BY QuietStepKeeps DEF PauseEnds, TaskInv, TaskTypeOK, Open

LEMMA RetentionEndsKeeps == ASSUME TaskInv, RetentionEnds PROVE TaskInv'
  BY QuietStepKeeps DEF RetentionEnds, TaskInv, TaskTypeOK, Open

LEMMA QuestionDueKeeps == ASSUME TaskInv, NEW s \in Slots, QuestionDue(s) PROVE TaskInv'
<1>1. TaskTypeOK'
  BY DEF QuestionDue, TaskInv, TaskTypeOK, Question
<1>2. \A x \in Slots : Open(questions[x])' => Open(questions[x])
  BY DEF QuestionDue, TaskInv, TaskTypeOK, Question, Open
<1>3. \A x \in Slots : questions[x].status = "none" => questions'[x].status = "none"
  BY DEF QuestionDue, TaskInv, TaskTypeOK, Question
<1>. QED
  BY <1>1, <1>2, <1>3, QuietStepKeeps DEF QuestionDue

LEMMA RenewKeeps ==
    ASSUME TaskInv, NEW f, Renew(f) PROVE TaskInv'
<1>1. "waiting_for_input" \in TaskPhase
  BY DEF TaskPhase
<1>2. /\ task' \in Task /\ task'.phase = "waiting_for_input"
      /\ task'.version = task.version + 1 /\ task'.revision = task.revision
      /\ task'.run = task.run /\ task'.runRevision = task.runRevision
      /\ task'.tokens = task.tokens
  BY <1>1, ChangedType DEF Renew, TaskInv
<1>3. questions' \in [Slots -> Question]
  <2>1. \A s \in Slots : [questions[s] EXCEPT !.status = "superseded"] \in Question
    BY DEF TaskInv, TaskTypeOK, Question
  <2>2. [status |-> "pending", revision |-> task.revision, field |-> Renewed,
         timer |-> "running"] \in Question
    BY DEF TaskInv, TaskTypeOK, Question, Task
  <2>. QED
    BY <2>1, <2>2 DEF Renew, TaskInv, TaskTypeOK
<1>4. _blocked(questions) /\ Exists
  BY DEF Renew, Renewable, _blocked, Current
<1>5. OpenQuestionStopsTask'
  BY <1>2, <1>4 DEF TaskInv, OpenQuestionStopsTask, Renew, Live
<1>6. TaskTypeOK'
  BY <1>2, <1>3 DEF Renew, TaskInv, TaskTypeOK
<1>. QED
  BY <1>2, <1>4, <1>5, <1>6, StepKeeps
  DEF Renew, Unfinished, Exists, TERMINAL_PHASES

LEMMA ReviseGoalKeeps == ASSUME TaskInv, ReviseGoal PROVE TaskInv'
<1>. DEFINE phase == IF task.phase = "waiting_for_input" THEN "active" ELSE task.phase
<1>1. phase \in TaskPhase /\ phase \notin TERMINAL_PHASES /\ Exists
  BY DEF ReviseGoal, Unfinished, Exists, TaskInv, TaskTypeOK, Task, TaskPhase, TERMINAL_PHASES
<1>. HIDE DEF phase
<1>2. task' = [_changed(phase) EXCEPT !.revision = @ + 1]
  BY DEF ReviseGoal, phase
<1>3. /\ task' \in Task /\ task'.phase = phase /\ task'.version = task.version + 1
      /\ task'.revision = task.revision + 1 /\ task'.run = task.run
      /\ task'.runRevision = task.runRevision /\ task'.tokens = task.tokens
  <2>1. _changed(phase).revision + 1 \in Nat
    BY <1>1, ChangedType DEF TaskInv, TaskTypeOK, Task
  <2>. QED
    BY <1>1, <1>2, <2>1, ChangedType DEF TaskInv, Task
<1>4. questions' \in [Slots -> Question]
  BY DEF ReviseGoal, TaskInv, TaskTypeOK, Question
<1>5. ~_blocked(questions)'
  <2>1. \A s \in Slots : questions'[s].status \notin {"pending", "expired"}
    BY DEF ReviseGoal, TaskInv, TaskTypeOK, Question
  <2>. QED
    BY <2>1 DEF _blocked, Open
<1>6. TaskTypeOK' /\ OpenQuestionStopsTask'
  BY <1>3, <1>4, <1>5 DEF ReviseGoal, TaskInv, TaskTypeOK, OpenQuestionStopsTask
<1>7. Unfinished /\ ~Live(task.run) /\ UNCHANGED <<intents, runs>>
  BY DEF ReviseGoal
<1>. QED
  BY <1>1, <1>3, <1>6, <1>7, StepKeeps
  DEF Unfinished, Exists, TaskPhase, TERMINAL_PHASES

\* The success of the Run the task is bound to, with whatever its update did to
\* the questions and the phase.
LEMMA SucceedKeeps == ASSUME TaskInv, NEW r \in Runs, Succeed(r) PROVE TaskInv'
<1>. DEFINE new == [runs[r] EXCEPT !.state = "succeeded"]
<1>1. /\ new \in TaskRun /\ new.state = "succeeded" /\ runs' = [runs EXCEPT ![r] = new]
      /\ new.attempts = runs[r].attempts
  BY DEF Succeed, TaskInv, TaskTypeOK, TaskRun, RunLifecycleState, TerminalStates
<1>. HIDE DEF new
<1>2. runs' \in [Runs -> TaskRun]
  BY <1>1 DEF TaskInv, TaskTypeOK
<1>3. Live(r) /\ task.run = r /\ Unfinished
  BY DEF Succeed, Live, Current, Unfinished, TERMINAL_PHASES, ActiveStates
<1>4. ~Live(r)'
  BY <1>1, <1>2 DEF Live, TaskInv, TaskTypeOK, ActiveStates
<1>5. PICK phase \in {"active", "waiting_for_input", "complete", "paused"} :
        /\ task' = _changed(phase)
        /\ phase = "active" => UNCHANGED questions
        /\ questions' \in [Slots -> Question]
  <2>1. CASE \E f \in Fields, s \in Slots : ApplyQuestion(f, s)
    <3>1. PICK f \in Fields, s \in Slots : ApplyQuestion(f, s)
      BY <2>1
    <3>2. CASE AsksAgain(f)
      BY <3>1, <3>2 DEF ApplyQuestion, TaskInv, TaskTypeOK
    <3>3. CASE ~AsksAgain(f)
      <4>1. [status |-> "pending", revision |-> task.revision, field |-> f,
             timer |-> "running"] \in Question
        BY DEF TaskInv, TaskTypeOK, Question, Task
      <4>. QED
        BY <3>1, <3>3, <4>1 DEF ApplyQuestion, TaskInv, TaskTypeOK
    <3>. QED
      BY <3>2, <3>3
  <2>2. CASE \E phase \in {"complete", "paused"} : ApplyPhase(phase)
    BY <2>2 DEF ApplyPhase, TaskInv, TaskTypeOK
  <2>. QED
    BY <2>1, <2>2 DEF Succeed
<1>6. phase \in TaskPhase
  BY DEF TaskPhase, TERMINAL_PHASES
<1>7. /\ task' \in Task /\ task'.phase = phase /\ task'.version = task.version + 1
      /\ task'.revision = task.revision /\ task'.run = task.run
      /\ task'.runRevision = task.runRevision /\ task'.tokens = task.tokens
  BY <1>5, <1>6, ChangedType DEF TaskInv
<1>8. phase = "active" => ~_blocked(questions)'
  <2>1. ~_blocked(questions)
    BY <1>3 DEF Succeed, TaskInv, OpenQuestionStopsTask, Unfinished
  <2>. QED
    BY <1>5, <1>7, <2>1 DEF _blocked, Open
<1>9. TaskTypeOK'
  BY <1>2, <1>5, <1>7 DEF Succeed, TaskInv, TaskTypeOK
<1>10. OpenQuestionStopsTask'
  BY <1>3, <1>4, <1>7, <1>8 DEF OpenQuestionStopsTask
<1>11. \A x \in Runs : runs'[x] = runs[x] \/ RunMoves(x)
  BY <1>1, <1>3 DEF RunMoves, TaskInv, TaskTypeOK, RunLifecycleState, TerminalStates
<1>. QED
  BY <1>3, <1>6, <1>7, <1>9, <1>10, <1>11, StepKeeps
  DEF Succeed, Unfinished, Exists, TaskPhase, TERMINAL_PHASES

\* What record_failed_run may do to the task, and that it does not overlook the
\* Run the task is bound to.
LEMMA RecordFailedFacts ==
    ASSUME TaskInv, NEW r \in Runs, RecordFailed(r)
    PROVE  /\ task' \in Task /\ task'.version \in {task.version, task.version + 1}
           /\ task'.phase \in {task.phase, "paused"} /\ (Unfinished' => Unfinished) /\ Exists
           /\ task'.revision = task.revision /\ task'.run = task.run
           /\ task'.runRevision = task.runRevision
           /\ task.tokens = "unknown" => task'.tokens = "unknown"
           /\ Live(r) /\ Unfinished' => task'.tokens = "unknown"
<1>1. Exists
  BY DEF RecordFailed
<1>2. CASE _recordsNothing(r)
  <2>1. task' = task
    BY <1>2 DEF RecordFailed
  <2>2. Live(r) /\ Unfinished => task.tokens = "unknown"
    BY <1>1, <1>2 DEF _recordsNothing, TaskInv, LiveRunIsLatest, RunsOfTask, Unfinished
  <2>. QED
    BY <1>1, <2>1, <2>2 DEF TaskInv, TaskTypeOK, Unfinished, Exists
<1>3. CASE ~_recordsNothing(r)
  <2>1. "paused" \in TaskPhase
    BY DEF TaskPhase
  <2>2. task' = [_changed("paused") EXCEPT !.tokens = "unknown"]
    BY <1>3 DEF RecordFailed
  <2>3. /\ task' \in Task /\ task'.version = task.version + 1 /\ task'.phase = "paused"
        /\ task'.revision = task.revision /\ task'.run = task.run
        /\ task'.runRevision = task.runRevision /\ task'.tokens = "unknown"
    BY <2>1, <2>2, ChangedType DEF TaskInv, Task
  <2>4. Unfinished
    BY <1>1, <1>3 DEF _recordsNothing, Unfinished
  <2>. QED
    BY <1>1, <2>3, <2>4
<1>. QED
  BY <1>2, <1>3

LEMMA PauseRecordsKeeps == ASSUME TaskInv, NEW r \in Runs, PauseRecords(r) PROVE TaskInv'
<1>1. RecordFailed(r)
  BY DEF PauseRecords
<1>2. TaskTypeOK'
  BY <1>1, RecordFailedFacts DEF PauseRecords, TaskInv, TaskTypeOK
<1>3. OpenQuestionStopsTask'
  BY <1>1, RecordFailedFacts
  DEF PauseRecords, TaskInv, OpenQuestionStopsTask, _blocked, Open, Live, Exists
<1>. QED
  BY <1>1, <1>2, <1>3, RecordFailedFacts, StepKeeps DEF PauseRecords, Exists

LEMMA EndKeeps ==
    ASSUME TaskInv, NEW r \in Runs, NEW target \in TerminalStates, End(r, target)
    PROVE  TaskInv'
<1>. DEFINE new == [runs[r] EXCEPT !.state = target]
<1>1. /\ new \in TaskRun /\ new.state = target /\ runs' = [runs EXCEPT ![r] = new]
      /\ target \in RunLifecycleState \ {"queued"}
  BY DEF End, TaskInv, TaskTypeOK, TaskRun, RunLifecycleState, TerminalStates, ActiveStates
<1>. HIDE DEF new
<1>2. RecordFailed(r) /\ Live(r)
  BY DEF End, Live
<1>3. TaskTypeOK'
  BY <1>1, <1>2, RecordFailedFacts DEF End, TaskInv, TaskTypeOK
<1>4. \A x \in Runs : runs'[x] = runs[x] \/ RunMoves(x)
  BY <1>1, <1>2, RecordFailedFacts DEF RunMoves, TaskInv, TaskTypeOK
<1>5. \A x \in Runs : Live(x)' => Live(x)
  BY <1>4 DEF Live, RunMoves
<1>6. OpenQuestionStopsTask'
  BY <1>2, <1>5, RecordFailedFacts
  DEF End, TaskInv, OpenQuestionStopsTask, _blocked, Open, Live, Exists
<1>. QED
  BY <1>2, <1>3, <1>4, <1>6, RecordFailedFacts, StepKeeps DEF End, Exists

\* A stopped task goes on: an intent to run it is committed with its version.
LEMMA NewIntentKeeps ==
    ASSUME TaskInv, Current, NEW r \in Runs, r # Initial, intents[r].status = "none",
           task.phase \notin TERMINAL_PHASES, ~Live(task.run), ~_blocked(questions)',
           task' = _changed("active"), NewIntent(r),
           questions' \in [Slots -> Question], UNCHANGED <<runs, pausing, retained>>
    PROVE  TaskInv'
<1>. DEFINE new == [status |-> "pending", revision |-> task.revision, version |-> task'.version]
<1>1. /\ task' \in Task /\ task'.phase = "active" /\ task'.version = task.version + 1
      /\ task'.revision = task.revision /\ task'.run = task.run
      /\ task'.runRevision = task.runRevision /\ task'.tokens = task.tokens
  BY ChangedType DEF TaskInv, TaskPhase
<1>2. new \in Intent /\ new.status = "pending" /\ new.version = task.version + 1
  BY <1>1 DEF Intent, Task
<1>3. intents' = [intents EXCEPT ![r] = new]
  BY DEF NewIntent
<1>. HIDE DEF new
<1>4. TaskTypeOK'
  BY <1>1, <1>2, <1>3 DEF TaskInv, TaskTypeOK
<1>5. LiveRunIsLatest' /\ LostWorkIsDebt' /\ OpenQuestionStopsTask'
  BY <1>1 DEF TaskInv, Current, Exists, Unfinished, Live, LiveRunIsLatest, LostWorkIsDebt,
              OpenQuestionStopsTask
<1>6. IntentsDated'
  <2>. SUFFICES ASSUME NEW x \in Runs
       PROVE  /\ intents'[x].status # "none" => intents'[x].version <= task'.version /\ x # Initial
              /\ intents'[x].status = "dispatched" => intents'[x].version < task'.version
              /\ intents'[x].status = "pending" => runs'[x].state = "absent"
              /\ intents'[x].status = "none" /\ x # Initial /\ Exists' => runs'[x].state = "absent"
              /\ intents'[x].status = "pending" /\ intents'[x].version = task'.version
                   => ~Live(task.run)'
    BY DEF IntentsDated
  <2>1. task.version \in Nat /\ intents[x].version \in Nat
    BY DEF TaskInv, TaskTypeOK, Task, Intent
  <2>2. ~Live(task.run)'
    BY <1>1 DEF Live
  <2>3. CASE x = r
    BY <1>1, <1>2, <1>3, <2>1, <2>2, <2>3 DEF TaskInv, TaskTypeOK, IntentsDated, Current
  <2>4. CASE x # r
    BY <1>1, <1>3, <2>1, <2>2, <2>4 DEF TaskInv, TaskTypeOK, IntentsDated, Current
  <2>. QED
    BY <2>3, <2>4
<1>7. RunsOfTask'
  BY <1>1 DEF TaskInv, RunsOfTask, Live
<1>. QED
  BY <1>4, <1>5, <1>6, <1>7 DEF TaskInv

LEMMA ResumeContinuesKeeps == ASSUME TaskInv, NEW r \in Runs, ResumeContinues(r) PROVE TaskInv'
<1>1. task.phase \notin TERMINAL_PHASES
  BY DEF ResumeContinues, TERMINAL_PHASES
<1>2. task'.revision = task.revision
  BY ChangedType DEF ResumeContinues, TaskInv, TaskPhase
<1>3. ~_blocked(questions)'
  BY <1>2 DEF ResumeContinues, _blocked, Open
<1>. QED
  BY <1>1, <1>3, NewIntentKeeps DEF ResumeContinues, TaskInv, TaskTypeOK

\* The last answer leaves no Run live, because the question had stopped the task.
LEMMA AnswerKeeps ==
    ASSUME TaskInv, NEW s \in Slots, NEW r \in Runs, Answer(s, r) PROVE TaskInv'
<1>1. /\ Current /\ Exists /\ task.phase \in TaskPhase /\ task.phase \notin TERMINAL_PHASES
      /\ _blocked(questions) /\ UNCHANGED <<runs, pausing, retained>>
  BY DEF Answer, Current, Unfinished, Exists, TaskInv, TaskTypeOK, Task, _blocked
<1>2. ~Live(task.run) /\ task.phase # "active"
  BY <1>1 DEF TaskInv, OpenQuestionStopsTask
<1>3. questions' \in [Slots -> Question]
  BY DEF Answer, TaskInv, TaskTypeOK, Question
<1>4. CASE task.phase = "waiting_for_input" /\ ~_blocked(questions')
  <2>1. task' = _changed("active") /\ NewIntent(r) /\ intents[r].status = "none" /\ r # Initial
    BY <1>4 DEF Answer
  <2>2. task'.revision = task.revision
    BY <2>1, ChangedType DEF TaskInv, TaskPhase
  <2>3. ~_blocked(questions)'
    BY <1>4, <2>2 DEF _blocked, Open
  <2>. QED
    BY <1>1, <1>2, <1>3, <2>1, <2>3, NewIntentKeeps
<1>5. CASE ~(task.phase = "waiting_for_input" /\ ~_blocked(questions'))
  <2>1. task' = _changed(task.phase) /\ UNCHANGED intents
    BY <1>5 DEF Answer
  <2>2. task'.revision = task.revision
    BY <1>1, <2>1, ChangedType DEF TaskInv
  <2>3. \A x \in Slots : Open(questions[x])' => Open(questions[x])
    BY <2>2 DEF Answer, Open, TaskInv, TaskTypeOK, Question
  <2>. QED
    BY <1>1, <1>2, <1>3, <2>1, <2>3, PhaseStepKeeps
<1>. QED
  BY <1>4, <1>5

\* The first Run is admitted with its task.
LEMMA CreateKeeps == ASSUME TaskInv, Create PROVE TaskInv'
<1>. DEFINE new == [runs[Initial] EXCEPT !.state = "queued", !.expected = task'.version]
<1>1. /\ task' \in Task /\ task'.phase = "active" /\ task'.version = 1 /\ task'.revision = 1
      /\ task'.run = Initial /\ task'.runRevision = 1 /\ Initial \in Runs
  BY TaskAssumption DEF Create, Task, TaskPhase
<1>2. \A x \in Runs : runs[x].state = "absent" /\ intents[x].status = "none" /\ runs[x].attempts = 0
  BY DEF Create, TaskInv, RunsOfTask
<1>3. new \in TaskRun /\ new.state = "queued" /\ new.attempts = 0
  BY <1>1, <1>2 DEF TaskInv, TaskTypeOK, TaskRun, RunLifecycleState, Task
<1>4. runs' = [runs EXCEPT ![Initial] = new] /\ UNCHANGED <<questions, intents, pausing, retained>>
  BY <1>1 DEF Create, _submit, TaskInv, TaskTypeOK
<1>. HIDE DEF new
<1>5. TaskTypeOK'
  BY <1>1, <1>3, <1>4 DEF TaskInv, TaskTypeOK
<1>6. \A x \in Runs : runs'[x] = IF x = Initial THEN new ELSE runs[x]
  BY <1>4 DEF TaskInv, TaskTypeOK
<1>7. LiveRunIsLatest' /\ LostWorkIsDebt'
  BY <1>1, <1>2, <1>3, <1>6
  DEF LiveRunIsLatest, LostWorkIsDebt, Live, ActiveStates, TerminalStates
<1>8. OpenQuestionStopsTask'
  <2>1. \A s \in Slots : questions[s].status = "none"
    BY DEF Create, TaskInv, RunsOfTask
  <2>. QED
    BY <1>4, <2>1 DEF OpenQuestionStopsTask, _blocked, Open
<1>9. IntentsDated' /\ RunsOfTask'
  BY <1>1, <1>2, <1>3, <1>4, <1>6 DEF IntentsDated, RunsOfTask, ActiveStates
<1>. QED
  BY <1>5, <1>7, <1>8, <1>9 DEF TaskInv

\* An intent that can be dispatched finds no live Run and admits its own.
LEMMA DispatchKeeps == ASSUME TaskInv, NEW r \in Runs, Dispatch(r) PROVE TaskInv'
<1>. DEFINE new == [runs[r] EXCEPT !.state = "queued", !.expected = task'.version]
<1>. DEFINE mark == [intents[r] EXCEPT !.status = "dispatched"]
<1>1. /\ task' \in Task /\ task'.phase = "active" /\ task'.version = task.version + 1
      /\ task'.revision = task.revision /\ task'.run = r
      /\ task'.runRevision = task.revision /\ task'.tokens = task.tokens
      /\ task.phase = "active" /\ Exists
  <2>1. "active" \in TaskPhase /\ task.phase = "active" /\ Exists
    BY DEF Dispatch, TaskPhase, Current
  <2>2. task' = [_changed("active") EXCEPT !.run = r, !.runRevision = task.revision]
    BY <2>1 DEF Dispatch
  <2>3. task.revision \in Nat
    BY DEF TaskInv, TaskTypeOK, Task
  <2>. QED
    BY <2>1, <2>2, <2>3, ChangedType DEF TaskInv, Task
<1>2. task.version \in Nat /\ \A x \in Runs : intents[x].version \in Nat
  BY DEF TaskInv, TaskTypeOK, Task, Intent
<1>3. intents[r].status = "pending" /\ intents[r].version = task.version
  BY <1>2 DEF Dispatch, TaskInv, TaskTypeOK, Intent, IntentsDated
<1>4. runs[r].state = "absent" /\ runs[r].attempts = 0 /\ ~Live(task.run)
  BY <1>3 DEF TaskInv, IntentsDated, RunsOfTask
<1>5. new \in TaskRun /\ new.state = "queued" /\ new.attempts = 0
  <2>1. runs[r] \in TaskRun
    BY DEF TaskInv, TaskTypeOK
  <2>2. task'.version \in Nat /\ "queued" \in RunLifecycleState
    BY <1>1, <1>2 DEF RunLifecycleState
  <2>. QED
    BY <1>4, <2>1, <2>2 DEF TaskRun
<1>6. mark \in Intent /\ mark.status = "dispatched" /\ mark.version = task.version
  BY <1>3 DEF TaskInv, TaskTypeOK, Intent
<1>7. /\ runs' = [runs EXCEPT ![r] = new]
      /\ intents' = [intents EXCEPT ![r] = mark]
  <2>1. runs' = [runs EXCEPT ![r] = new]
    <3>1. _submit(r)
      BY DEF Dispatch
    <3>. QED
      BY <3>1 DEF _submit, TaskInv, TaskTypeOK
  <2>2. intents' = [intents EXCEPT ![r] = mark]
    BY DEF Dispatch, TaskInv, TaskTypeOK
  <2>. QED
    BY <2>1, <2>2
<1>. HIDE DEF new, mark
<1>8. TaskTypeOK'
  BY <1>1, <1>5, <1>6, <1>7 DEF Dispatch, TaskInv, TaskTypeOK
<1>9. ASSUME NEW x \in Runs
      PROVE  /\ runs'[x] = IF x = r THEN new ELSE runs[x]
             /\ intents'[x] = IF x = r THEN mark ELSE intents[x]
  BY <1>7 DEF TaskInv, TaskTypeOK
<1>10. \A x \in Runs : ~Live(x)
  BY <1>1, <1>4 DEF TaskInv, LiveRunIsLatest
<1>11. LiveRunIsLatest'
  BY <1>1, <1>9, <1>10 DEF LiveRunIsLatest, Live
<1>12. LostWorkIsDebt'
  BY <1>1, <1>5, <1>9 DEF TaskInv, LostWorkIsDebt, Unfinished, Exists, TerminalStates
<1>13. OpenQuestionStopsTask'
  <2>1. ~_blocked(questions)
    BY <1>1 DEF TaskInv, OpenQuestionStopsTask
  <2>. QED
    BY <1>1, <2>1 DEF Dispatch, OpenQuestionStopsTask, _blocked, Open
<1>14. IntentsDated'
  <2>. SUFFICES ASSUME NEW x \in Runs
       PROVE  /\ intents'[x].status # "none" => intents'[x].version <= task'.version /\ x # Initial
              /\ intents'[x].status = "dispatched" => intents'[x].version < task'.version
              /\ intents'[x].status = "pending" => runs'[x].state = "absent"
              /\ intents'[x].status = "none" /\ x # Initial /\ Exists' => runs'[x].state = "absent"
              /\ intents'[x].status = "pending" /\ intents'[x].version = task'.version
                   => ~Live(task.run)'
    BY DEF IntentsDated
  <2>1. CASE x = r
    BY <1>1, <1>2, <1>3, <1>6, <1>9, <2>1 DEF TaskInv, IntentsDated
  <2>2. CASE x # r
    BY <1>1, <1>2, <1>9, <2>2 DEF TaskInv, IntentsDated
  <2>. QED
    BY <2>1, <2>2
<1>15. RunsOfTask'
  BY <1>1, <1>5, <1>9 DEF TaskInv, RunsOfTask
<1>. QED
  BY <1>8, <1>11, <1>12, <1>13, <1>14, <1>15 DEF TaskInv

\* Of a purged task only the rows of its Runs are left.
LEMMA PurgeKeeps == ASSUME TaskInv, Purge PROVE TaskInv'
<1>1. /\ task' = [task EXCEPT !.phase = "purged"] /\ task' \in Task /\ task'.phase = "purged"
      /\ task'.run = task.run /\ task'.runRevision = task.runRevision
      /\ task'.revision = task.revision
  BY DEF Purge, TaskInv, TaskTypeOK, Task
<1>2. TaskTypeOK'
  BY <1>1 DEF Purge, TaskInv, TaskTypeOK, NoQuestion, NoIntent, Question, Intent
<1>3. LiveRunIsLatest' /\ LostWorkIsDebt' /\ OpenQuestionStopsTask'
  BY <1>1 DEF LiveRunIsLatest, LostWorkIsDebt, OpenQuestionStopsTask, Exists, Unfinished
<1>4. IntentsDated'
  BY <1>1 DEF Purge, IntentsDated, NoIntent, Exists
<1>5. RunsOfTask'
  BY <1>1 DEF Purge, TaskInv, RunsOfTask, Live
<1>. QED
  BY <1>2, <1>3, <1>4, <1>5 DEF TaskInv

LEMMA NextKeeps == ASSUME TaskInv, [Next]_vars PROVE TaskInv'
<1>1. CASE Request
  <2>1. CASE Create
    BY <2>1, CreateKeeps
  <2>2. CASE \E s \in Slots, r \in Runs : Answer(s, r)
    BY <2>2, AnswerKeeps
  <2>3. CASE \E f \in UNION {[S -> Slots] : S \in SUBSET Slots} : Renew(f)
    BY <2>3, RenewKeeps
  <2>4. CASE ResumeWaits
    BY <2>4, ResumeWaitsKeeps
  <2>5. CASE \E r \in Runs : ResumeContinues(r)
    BY <2>5, ResumeContinuesKeeps
  <2>6. CASE \E r \in Runs : Dispatch(r)
    BY <2>6, DispatchKeeps
  <2>7. CASE ReviseGoal
    BY <2>7, ReviseGoalKeeps
  <2>8. CASE \E phase \in TaskPhase : transition(phase)
    BY <2>8, TransitionKeeps
  <2>9. CASE PauseSeesLiveRun
    BY <2>9, PauseSeesLiveRunKeeps
  <2>10. CASE \E r \in Runs : PauseRecords(r)
    BY <2>10, PauseRecordsKeeps
  <2>11. CASE \E r \in Runs : PauseEnds(r)
    BY <2>11, PauseEndsKeeps
  <2>12. CASE ExpireQuestions
    BY <2>12, ExpireQuestionsKeeps
  <2>. QED
    BY <1>1, <2>1, <2>2, <2>3, <2>4, <2>5, <2>6, <2>7, <2>8, <2>9, <2>10, <2>11, <2>12
    DEF Request
<1>2. CASE Work
  <2>1. CASE \E r \in Runs : Claim(r)
    BY <2>1, ClaimKeeps
  <2>2. CASE \E r \in Runs : Finalize(r)
    BY <2>2, FinalizeKeeps
  <2>3. CASE \E r \in Runs : Cancel(r)
    BY <2>3, CancelKeeps
  <2>4. CASE \E r \in Runs : Succeed(r)
    BY <2>4, SucceedKeeps
  <2>5. CASE \E r \in Runs, target \in TerminalStates : End(r, target)
    BY <2>5, EndKeeps
  <2>. QED
    BY <1>2, <2>1, <2>2, <2>3, <2>4, <2>5 DEF Work
<1>3. CASE Time
  BY <1>3, QuestionDueKeeps, RetentionEndsKeeps, PurgeKeeps DEF Time
<1>4. CASE UNCHANGED vars
  <2>1. \A s \in Slots : Open(questions[s])' => Open(questions[s])
    BY <1>4 DEF vars, Open
  <2>. QED
    BY <1>4, <2>1, QuietStepKeeps DEF vars, TaskInv, TaskTypeOK
<1>. QED
  BY <1>1, <1>2, <1>3, <1>4 DEF Next

\* The inductive invariant holds in every state of every behaviour of the task
\* service, the task API, the outbox and the queue's writes to the task.
THEOREM TaskInvariant == Spec => []TaskInv
<1>1. Init => TaskInv
  BY InitTaskInv
<1>2. TaskInv /\ [Next]_vars => TaskInv'
  BY NextKeeps
<1>. QED
  BY <1>1, <1>2, PTL DEF Spec
-----------------------------------------------------------------------------
\* Every row keeps the shape of its contract, whatever races.
THEOREM TaskTypeCorrect == Spec => []TaskTypeOK
  BY TaskInvariant, PTL DEF TaskInv

\* No race of resume requests, answers, redeliveries of an intent, pauses and
\* goal revisions gives a task a second live Run.
THEOREM OneLiveRun == Spec => []LiveRunIsLatest
  BY TaskInvariant, PTL DEF TaskInv

\* No order of answers, resumes, renewals, phase changes and results lets a task
\* run past an open required question.
THEOREM OpenQuestionStops == Spec => []OpenQuestionStopsTask
  BY TaskInvariant, PTL DEF TaskInv

\* A Run that started and ended without a result leaves its task's consumption
\* unknown, also when a pause request had seen it live before it ended.
THEOREM LostWorkStaysDebt == Spec => []LostWorkIsDebt
  BY TaskInvariant, PTL DEF TaskInv
-----------------------------------------------------------------------------
\* A step admits one Run, moves one Run along the transition table, or moves none.
SameState(r) == runs'[r].state = runs[r].state
OneAdmitted  == \E r \in Runs : /\ runs[r].state = "absent" /\ runs'[r].state = "queued"
                                /\ \A x \in Runs \ {r} : SameState(x)
OneMoved     == \E r \in Runs : /\ CanTransition(runs[r].state, runs'[r].state)
                                /\ \A x \in Runs \ {r} : SameState(x)

\* The entries of the transition table that the task's Runs use.
LEMMA TableEntries ==
    /\ CanTransition("queued", "running") /\ CanTransition("running", "finalizing")
    /\ CanTransition("queued", "cancelled") /\ CanTransition("running", "cancel_requested")
    /\ CanTransition("finalizing", "cancel_requested") /\ CanTransition("finalizing", "succeeded")
  BY DEF CanTransition, AllowedTransitions, RunLifecycleState, ActiveStates, TerminalStates

LEMMA StepOfRuns ==
    ASSUME TaskInv, [Next]_vars
    PROVE  OneAdmitted \/ OneMoved \/ \A r \in Runs : SameState(r)
<1>1. runs \in [Runs -> TaskRun]
  BY DEF TaskInv, TaskTypeOK
<1>2. CASE Create
  <2>1. Initial \in Runs /\ runs[Initial].state = "absent"
    BY <1>2, TaskAssumption DEF Create, TaskInv, RunsOfTask
  <2>2. _submit(Initial)
    BY <1>2 DEF Create
  <2>. QED
    BY <1>1, <2>1, <2>2 DEF _submit, OneAdmitted, SameState, TaskRun
<1>3. ASSUME NEW r \in Runs, Dispatch(r) PROVE OneAdmitted
  <2>1. task.version \in Nat /\ intents[r] \in Intent
    BY DEF TaskInv, TaskTypeOK, Task
  <2>2. runs[r].state = "absent"
    BY <1>3, <2>1 DEF Dispatch, Intent, TaskInv, IntentsDated
  <2>3. _submit(r)
    BY <1>3 DEF Dispatch
  <2>. QED
    BY <1>1, <2>2, <2>3 DEF _submit, OneAdmitted, SameState, TaskRun
<1>4. ASSUME NEW r \in Runs, Claim(r) \/ Finalize(r) \/ Cancel(r) \/ Succeed(r) PROVE OneMoved
  <2>1. CASE Claim(r)
    BY <1>1, <2>1, TableEntries DEF Claim, OneMoved, SameState, TaskRun
  <2>2. CASE Finalize(r)
    BY <1>1, <2>2, TableEntries DEF Finalize, OneMoved, SameState, TaskRun
  <2>3. CASE Cancel(r)
    BY <1>1, <2>3, TableEntries DEF Cancel, OneMoved, SameState, TaskRun
  <2>4. CASE Succeed(r)
    BY <1>1, <2>4, TableEntries DEF Succeed, OneMoved, SameState, TaskRun
  <2>. QED
    BY <1>4, <2>1, <2>2, <2>3, <2>4
<1>5. ASSUME NEW r \in Runs, NEW target \in TerminalStates, End(r, target) PROVE OneMoved
  BY <1>1, <1>5 DEF End, OneMoved, SameState, TaskRun
<1>6. UNCHANGED runs => \A r \in Runs : SameState(r)
  BY DEF SameState
<1>7. CASE Request
  <2>1. ASSUME NEW s \in Slots, NEW r \in Runs, Answer(s, r) PROVE UNCHANGED runs
    BY <2>1 DEF Answer
  <2>2. ASSUME NEW f, Renew(f) PROVE UNCHANGED runs
    BY <2>2 DEF Renew
  <2>3. ASSUME NEW r \in Runs, ResumeContinues(r) \/ PauseRecords(r) \/ PauseEnds(r)
        PROVE  UNCHANGED runs
    BY <2>3 DEF ResumeContinues, PauseRecords, PauseEnds
  <2>4. ASSUME NEW phase \in TaskPhase, transition(phase) PROVE UNCHANGED runs
    BY <2>4 DEF transition
  <2>5. ResumeWaits \/ ReviseGoal \/ PauseSeesLiveRun \/ ExpireQuestions => UNCHANGED runs
    BY DEF ResumeWaits, ReviseGoal, PauseSeesLiveRun, ExpireQuestions
  <2>. QED
    BY <1>2, <1>3, <1>6, <1>7, <2>1, <2>2, <2>3, <2>4, <2>5 DEF Request
<1>8. CASE Work
  BY <1>4, <1>5, <1>8 DEF Work
<1>9. CASE Time
  BY <1>6, <1>9 DEF Time, QuestionDue, RetentionEnds, Purge
<1>10. CASE UNCHANGED vars
  BY <1>6, <1>10 DEF vars
<1>. QED
  BY <1>7, <1>8, <1>9, <1>10 DEF Next

LEMMA SameTable ==
    /\ Lifecycle!RunLifecycleState = RunLifecycleState
    /\ \A t, u : Lifecycle!CanTransition(t, u) <=> CanTransition(t, u)
  BY DEF Lifecycle!RunLifecycleState, Lifecycle!ActiveStates, Lifecycle!TerminalStates,
         Lifecycle!CanTransition, Lifecycle!AllowedTransitions,
         RunLifecycleState, ActiveStates, TerminalStates, CanTransition, AllowedTransitions

\* The task implements the life cycle of module RunLifecycle: each of its Runs is
\* admitted at most once, however often its intent is delivered, and then follows
\* the transition table.
THEOREM TaskRefinesLifecycle == Spec => ImplementsLifecycle
<1>. DEFINE states == [r \in Runs |-> runs[r].state]
            shown  == {r \in Runs : runs[r].state = "succeeded"}
<1>1. Init => Lifecycle!Init
  BY DEF Init, Lifecycle!Init
<1>2. ASSUME TaskInv, TaskInv', [Next]_vars PROVE [Lifecycle!Next]_(Lifecycle!vars)
  <2>1. /\ states' \in [Runs -> RunLifecycleState \cup {"absent"}]
        /\ \A r \in Runs : states[r] = runs[r].state /\ states'[r] = runs'[r].state
    BY <1>2 DEF TaskInv, TaskTypeOK, TaskRun
  <2>2. CASE OneAdmitted
    <3>1. PICK r \in Runs : /\ runs[r].state = "absent" /\ runs'[r].state = "queued"
                            /\ \A x \in Runs \ {r} : SameState(x)
      BY <2>2 DEF OneAdmitted
    <3>2. states' = [states EXCEPT ![r] = "queued"]
      BY <2>1, <3>1 DEF SameState
    <3>3. shown' = shown
      BY <3>1 DEF SameState
    <3>. QED
      BY <2>1, <3>1, <3>2, <3>3 DEF Lifecycle!Next, Lifecycle!Admit
  <2>3. CASE OneMoved
    <3>1. PICK r \in Runs : /\ CanTransition(runs[r].state, runs'[r].state)
                            /\ \A x \in Runs \ {r} : SameState(x)
      BY <2>3 DEF OneMoved
    <3>2. runs[r].state # "succeeded"
      BY <3>1 DEF CanTransition, AllowedTransitions, RunLifecycleState, TerminalStates
    <3>3. shown' = shown \cup {x \in {r} : states'[x] = "succeeded"}
      <4>1. ASSUME NEW x \in Runs
            PROVE  x \in shown' <=> x \in shown \/ (x = r /\ states'[x] = "succeeded")
        BY <2>1, <3>1, <3>2 DEF SameState
      <4>. QED
        BY <4>1
    <3>4. \A x \in Runs : IF x \in {r} THEN CanTransition(states[x], states'[x])
                                       ELSE states'[x] = states[x]
      BY <2>1, <3>1 DEF SameState
    <3>5. Lifecycle!Advance({r})
      BY <2>1, <3>3, <3>4, SameTable DEF Lifecycle!Advance
    <3>. QED
      BY <3>5 DEF Lifecycle!Next
  <2>4. CASE \A r \in Runs : SameState(r)
    <3>1. states' = states /\ shown' = shown
      BY <2>1, <2>4 DEF SameState
    <3>. QED
      BY <3>1 DEF Lifecycle!vars
  <2>. QED
    BY <1>2, <2>2, <2>3, <2>4, StepOfRuns
<1>. QED
  BY <1>1, <1>2, TaskInvariant, PTL DEF Spec, ImplementsLifecycle, Lifecycle!Spec
=============================================================================
