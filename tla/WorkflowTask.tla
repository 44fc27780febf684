---------------------------- MODULE WorkflowTask ----------------------------
(***************************************************************************)
(* One workflow task and its Runs: WorkflowTaskService over the            *)
(* PostgreSQL task repository, the task API, the resume outbox, and the    *)
(* parts of the run queue that read or write the task (RunQueue models the *)
(* rest of it).                                                            *)
(*                                                                         *)
(* A service operation reads the task, reduces it and compares-and-swaps   *)
(* its version.  A swap whose version moved changes nothing, so each       *)
(* operation is one atomic step; whoever loses the race gets an error.     *)
(* The reads that no version protects are steps of their own: a pause      *)
(* request that has seen a live Run (pausing), and a resume request that   *)
(* has read an intent (an intent may be dispatched at any later time).     *)
(*                                                                         *)
(* A resume intent and the Run it starts have one name: the Run id is      *)
(* uuid5(intent_id).  A version stands for the snapshot digest too.        *)
(***************************************************************************)
EXTENDS Naturals, FiniteSets, RunStates

CONSTANTS
    Runs,          \* the task's Runs; all but Initial are named by an intent
    Initial,       \* the Run created with the task
    Slots,         \* places for questions in the task's document
    Fields,        \* what a Run may ask for; identifies a question of a revision
    Renewed,       \* stands for the unique dedupe key of a renewed question
    NoRun,
    MaxVersion,    \* bound: requests are made up to this version
    MaxRevision    \* bound: goal revisions

ASSUME TaskAssumption ==
    /\ Initial \in Runs /\ NoRun \notin Runs
    /\ Renewed \notin Fields
    /\ MaxVersion \in Nat /\ MaxRevision \in Nat

VARIABLES
    task,       \* the row of workflow_tasks
    questions,  \* its questions
    intents,    \* table workflow_task_resumes
    runs,       \* the task's rows of table runs
    pausing,    \* Runs a pause request saw live before it writes
    retained    \* FALSE once raw_content_expires_at has passed

vars == <<task, questions, intents, runs, pausing, retained>>

TERMINAL_PHASES == {"complete", "failed", "cancelled"}
TaskPhase == {"active", "waiting_for_input", "paused"} \cup TERMINAL_PHASES

Task == [phase : TaskPhase \cup {"absent", "purged"}, version : Nat, revision : Nat,
         run : Runs \cup {NoRun},     \* latest_run_id
         runRevision : Nat,           \* latest_run_goal_revision
         tokens : {"counted", "unknown"}]   \* budget_usage.tokens, "unknown" for None

Question == [status : {"none", "pending", "answered", "expired", "superseded"},
             revision : Nat, field : Fields \cup {Renewed},
             timer : {"running", "over"}]   \* over: expires_at has passed

Intent == [status : {"none", "pending", "dispatched"}, revision : Nat, version : Nat]

TaskRun == [state : RunLifecycleState \cup {"absent"},
            expected : Nat,           \* expected_task_version of the request
            attempts : {0, 1}]        \* its rows in run_attempts

NoQuestion == [status |-> "none", revision |-> 0, field |-> Renewed, timer |-> "running"]
NoIntent   == [status |-> "none", revision |-> 0, version |-> 0]

\* Every row keeps the shape of its contract.
TaskTypeOK ==
    /\ task \in Task
    /\ questions \in [Slots -> Question]
    /\ intents \in [Runs -> Intent]
    /\ runs \in [Runs -> TaskRun]
    /\ pausing \subseteq Runs
    /\ retained \in BOOLEAN
-----------------------------------------------------------------------------
Init ==
    /\ task = [phase |-> "absent", version |-> 0, revision |-> 0, run |-> NoRun,
               runRevision |-> 0, tokens |-> "counted"]
    /\ questions = [s \in Slots |-> NoQuestion]
    /\ intents = [r \in Runs |-> NoIntent]
    /\ runs = [r \in Runs |-> [state |-> "absent", expected |-> 0, attempts |-> 0]]
    /\ pausing = {}
    /\ retained = TRUE

Exists     == task.phase \notin {"absent", "purged"}
Unfinished == Exists /\ task.phase \notin TERMINAL_PHASES

\* _current: the task is there and inside its retention window.  Room bounds
\* the requests of the API.
Current == Exists /\ retained
Room    == task.version < MaxVersion

\* Unanswered questions of the current revision; every question a Run asks is
\* blocking.
Open(q)       == q.status \in {"pending", "expired"} /\ q.revision = task.revision
_blocked(qs)  == \E s \in Slots : Open(qs[s])
Live(r)       == r \in Runs /\ runs[r].state \in {"queued"} \cup ActiveStates

\* _changed and compare_and_swap: a new version in the given phase.
_changed(phase) == [task EXCEPT !.version = @ + 1, !.phase = phase]

\* The outbox row and the queue row that the given version asks for.
NewIntent(r)  == intents' = [intents EXCEPT ![r] =
                   [status |-> "pending", revision |-> task.revision, version |-> task'.version]]
_submit(r)    == runs' = [runs EXCEPT ![r].state = "queued", ![r].expected = task'.version]
-----------------------------------------------------------------------------
(* The task API. *)

\* POST /tasks: the task, its binding and its first Run in one transaction.
Create ==
    /\ task.phase = "absent"
    /\ task' = [phase |-> "active", version |-> 1, revision |-> 1, run |-> Initial,
                runRevision |-> 1, tokens |-> "counted"]
    /\ _submit(Initial)
    /\ UNCHANGED <<questions, intents, pausing, retained>>

\* POST /answers: the last open question reactivates a waiting task and inserts
\* its resume intent with the same swap.
Answer(s, r) ==
    /\ Current /\ Unfinished /\ task.phase # "paused" /\ Room
    /\ Open(questions[s]) /\ questions[s].status = "pending" /\ questions[s].timer = "running"
    /\ questions' = [questions EXCEPT ![s].status = "answered"]
    /\ IF task.phase = "waiting_for_input" /\ ~_blocked(questions')
       THEN /\ intents[r].status = "none" /\ r # Initial
            /\ task' = _changed("active")
            /\ NewIntent(r)
       ELSE /\ task' = _changed(task.phase)
            /\ UNCHANGED intents
    /\ UNCHANGED <<runs, pausing, retained>>

\* The pending intents a resume request finds for the current revision.
Pending == {r \in Runs : intents[r].status = "pending" /\ intents[r].revision = task.revision}

\* A question whose time is up and that a resume request may renew.
Renewable(s) == Open(questions[s]) /\ questions[s].timer = "over"

\* POST /resume, renew_expired_questions: every question whose time is up is
\* superseded by a new one.
Renew(f) ==
    /\ Current /\ task.phase \in {"paused", "waiting_for_input"} /\ Room
    /\ \E s \in Slots : Renewable(s)
    /\ f \in [{s \in Slots : Renewable(s)} -> {s \in Slots : questions[s].status = "none"}]
    /\ \A s, t \in DOMAIN f : f[s] = f[t] => s = t
    /\ questions' = [s \in Slots |->
         CASE Renewable(s) -> [questions[s] EXCEPT !.status = "superseded"]
           [] \E t \in DOMAIN f : f[t] = s ->
                [status |-> "pending", revision |-> task.revision, field |-> Renewed, timer |-> "running"]
           [] OTHER -> questions[s]]
    /\ task' = _changed("waiting_for_input")
    /\ UNCHANGED <<intents, runs, pausing, retained>>

\* Mutant of ResumeWaits: a phase the table does not know.
ResumeWaitsUnknown ==
    /\ Current /\ task.phase = "paused" /\ Room
    /\ Pending = {} /\ _blocked(questions)
    /\ task' = _changed("waiting")
    /\ UNCHANGED <<questions, intents, runs, pausing, retained>>

\* POST /resume with no intent pending: a paused task with open questions goes
\* back to waiting for them.
ResumeWaits ==
    /\ Current /\ task.phase = "paused" /\ Room
    /\ ~\E s \in Slots : Renewable(s)
    /\ Pending = {} /\ _blocked(questions)
    /\ task' = _changed("waiting_for_input")
    /\ UNCHANGED <<questions, intents, runs, pausing, retained>>

\* Mutant of ResumeContinues: the last Run is not looked at.
ResumeContinuesUnchecked(r) ==
    /\ Current /\ task.phase \in {"active", "paused"} /\ Room
    /\ Pending = {} /\ ~_blocked(questions)
    /\ intents[r].status = "none" /\ r # Initial
    /\ task' = _changed("active")
    /\ NewIntent(r)
    /\ UNCHANGED <<questions, runs, pausing, retained>>

\* ... and request_resume commits an intent to continue once the last Run ended.
ResumeContinues(r) ==
    /\ Current /\ task.phase \in {"active", "paused"} /\ Room
    /\ Pending = {} /\ ~_blocked(questions) /\ ~Live(task.run)
    /\ intents[r].status = "none" /\ r # Initial
    /\ task' = _changed("active")
    /\ NewIntent(r)
    /\ UNCHANGED <<questions, runs, pausing, retained>>

\* Mutant of Dispatch: an intent delivered again is not recognised.
DispatchAgain(r) ==
    /\ intents[r].status # "none" /\ Current
    /\ task.phase = "active" /\ task.revision = intents[r].revision
    /\ task' = [_changed(task.phase) EXCEPT !.run = r, !.runRevision = task.revision]
    /\ _submit(r)
    /\ intents' = [intents EXCEPT ![r].status = "dispatched"]
    /\ UNCHANGED <<questions, pausing, retained>>

\* dispatch: binding, queue row and outbox mark in one transaction.  The queue
\* may refuse (overloaded, conversation busy): then nothing is written.
Dispatch(r) ==
    /\ intents[r].status # "none" /\ Current
    /\ task.run # r
    /\ task.phase = "active" /\ task.revision = intents[r].revision
    /\ task.version = intents[r].version
    /\ task' = [_changed(task.phase) EXCEPT !.run = r, !.runRevision = task.revision]
    /\ _submit(r)
    /\ intents' = [intents EXCEPT ![r].status = "dispatched"]
    /\ UNCHANGED <<questions, pausing, retained>>

\* PATCH /goal: only between Runs; unanswered questions are superseded.  The
\* handler reads the task and its Run before it swaps the version of the request.
\* A request names a version its client was shown, so one that succeeds read that
\* very version, and a Run is admitted only with a new one: the test is still true.
ReviseGoal ==
    /\ Current /\ Unfinished /\ Room /\ task.revision < MaxRevision
    /\ ~Live(task.run)
    /\ questions' = [s \in Slots |->
         IF questions[s].status \in {"pending", "expired"}
         THEN [questions[s] EXCEPT !.status = "superseded"] ELSE questions[s]]
    /\ task' = [_changed(IF task.phase = "waiting_for_input" THEN "active" ELSE task.phase)
                  EXCEPT !.revision = @ + 1]
    /\ UNCHANGED <<intents, runs, pausing, retained>>

\* The phases transition allows the API to ask for.
AllowedPhases ==
    [p \in TaskPhase |-> CASE p = "active"            -> {"paused", "cancelled"}
                           [] p = "waiting_for_input" -> {"paused", "cancelled"}
                           [] p = "paused"            -> {"active", "waiting_for_input", "cancelled"}
                           [] OTHER                   -> {}]

\* Mutant of transition: resuming does not look at the open questions.
transitionUnchecked(phase) ==
    /\ Current /\ Room
    /\ phase \in AllowedPhases[task.phase]
    /\ phase = "paused" => ~Live(task.run)
    /\ task' = _changed(phase)
    /\ UNCHANGED <<questions, intents, runs, pausing, retained>>

\* PATCH /phase by transition: everything but pausing a task whose Run is live.
transition(phase) ==
    /\ Current /\ Room
    /\ phase \in AllowedPhases[task.phase]
    /\ phase = "paused" => ~Live(task.run)
    /\ phase = "active" => ~_blocked(questions)
    /\ task' = _changed(phase)
    /\ UNCHANGED <<questions, intents, runs, pausing, retained>>

\* PATCH /phase "paused" while the Run is live: the request has read both rows.
PauseSeesLiveRun ==
    /\ Exists /\ Room
    /\ Live(task.run)
    /\ pausing' = pausing \cup {task.run}
    /\ UNCHANGED <<task, questions, intents, runs, retained>>

\* GET /tasks marks the questions whose time is up.
ExpireQuestions ==
    /\ Current /\ Unfinished /\ Room
    /\ \E s \in Slots : questions[s].status = "pending" /\ questions[s].timer = "over"
    /\ questions' = [s \in Slots |->
         IF questions[s].status = "pending" /\ questions[s].timer = "over"
         THEN [questions[s] EXCEPT !.status = "expired"] ELSE questions[s]]
    /\ task' = _changed(task.phase)
    /\ UNCHANGED <<intents, runs, pausing, retained>>

-----------------------------------------------------------------------------
(* The executors' and operators' writes of the queue. *)

Claim(r) ==
    /\ runs[r].state = "queued"
    /\ runs' = [runs EXCEPT ![r].state = "running", ![r].attempts = 1]
    /\ UNCHANGED <<task, questions, intents, pausing, retained>>

Finalize(r) ==
    /\ runs[r].state = "running"
    /\ runs' = [runs EXCEPT ![r].state = "finalizing"]
    /\ UNCHANGED <<task, questions, intents, pausing, retained>>

\* request_cancel, by the run API or at the end of a phase change.
Cancel(r) ==
    /\ runs[r].state \in {"queued", "running", "finalizing"}
    /\ runs' = [runs EXCEPT ![r].state = IF @ = "queued" THEN "cancelled" ELSE "cancel_requested"]
    /\ UNCHANGED <<task, questions, intents, pausing, retained>>

\* apply_update of a Run that owns the version it froze: it asks a question,
\* completes the task or pauses it.  Asking what this revision already asked
\* changes neither the questions nor the phase.
AsksAgain(f) == \E s \in Slots : /\ questions[s].status # "none" /\ questions[s].field = f
                                 /\ questions[s].revision = task.revision

ApplyQuestion(f, s) ==
    IF AsksAgain(f)
    THEN task' = _changed("active") /\ UNCHANGED questions
    ELSE /\ questions[s].status = "none"
         /\ questions' = [questions EXCEPT ![s] =
              [status |-> "pending", revision |-> task.revision, field |-> f, timer |-> "running"]]
         /\ task' = _changed("waiting_for_input")

ApplyPhase(phase) == task' = _changed(phase) /\ UNCHANGED questions

\* commit_success with its task update, one transaction.
Succeed(r) ==
    /\ runs[r].state = "finalizing"
    /\ Current /\ task.phase = "active" /\ task.run = r /\ task.version = runs[r].expected
    /\ runs' = [runs EXCEPT ![r].state = "succeeded"]
    /\ \/ \E f \in Fields, s \in Slots : ApplyQuestion(f, s)
       \/ \E phase \in {"complete", "paused"} : ApplyPhase(phase)
    /\ UNCHANGED <<intents, pausing, retained>>

\* record_failed_run: what the Run consumed is unknown, unless it no longer is
\* the task's business.
_recordsNothing(r) ==
    \/ task.run # r \/ task.phase \in TERMINAL_PHASES
    \/ task.runRevision # task.revision
    \/ task.phase = "paused" /\ task.tokens = "unknown"

RecordFailed(r) ==
    /\ Exists
    /\ task' = IF _recordsNothing(r) THEN task
               ELSE [_changed("paused") EXCEPT !.tokens = "unknown"]

\* Mutant of End: only a failure is recorded with the task.
EndForgets(r, target) ==
    /\ runs[r].state \in ActiveStates
    /\ target \in TerminalStates \ {"succeeded"} /\ CanTransition(runs[r].state, target)
    /\ IF target = "failed" THEN RecordFailed(r) ELSE Exists /\ UNCHANGED task
    /\ runs' = [runs EXCEPT ![r].state = target]
    /\ UNCHANGED <<questions, intents, pausing, retained>>

\* commit_terminal_failure and the reaper: the Run row and the task in one
\* transaction, which a purged task aborts.
End(r, target) ==
    /\ runs[r].state \in ActiveStates
    /\ target \in TerminalStates \ {"succeeded"} /\ CanTransition(runs[r].state, target)
    /\ RecordFailed(r)
    /\ runs' = [runs EXCEPT ![r].state = target]
    /\ UNCHANGED <<questions, intents, pausing, retained>>

\* The pause request that saw the Run live records its failure.
PauseRecords(r) ==
    /\ r \in pausing
    /\ RecordFailed(r)
    /\ pausing' = pausing \ {r}
    /\ UNCHANGED <<questions, intents, runs, retained>>

\* It may also end without writing: an error, a crash of the API process.
PauseEnds(r) ==
    /\ r \in pausing
    /\ pausing' = pausing \ {r}
    /\ UNCHANGED <<task, questions, intents, runs, retained>>
-----------------------------------------------------------------------------
(* Time. *)

QuestionDue(s) ==
    /\ questions[s].status = "pending" /\ questions[s].timer = "running"
    /\ questions' = [questions EXCEPT ![s].timer = "over"]
    /\ UNCHANGED <<task, intents, runs, pausing, retained>>

RetentionEnds ==
    /\ Exists /\ retained
    /\ retained' = FALSE
    /\ UNCHANGED <<task, questions, intents, runs, pausing>>

\* purge_expired, called by every request of the task API; the outbox follows.
Purge ==
    /\ Exists /\ ~retained
    /\ task' = [task EXCEPT !.phase = "purged"]
    /\ questions' = [s \in Slots |-> NoQuestion]
    /\ intents' = [r \in Runs |-> NoIntent]
    /\ UNCHANGED <<runs, pausing, retained>>
-----------------------------------------------------------------------------
Request ==
    \/ Create
    \/ \E s \in Slots, r \in Runs : Answer(s, r)
    \/ \E f \in UNION {[S -> Slots] : S \in SUBSET Slots} : Renew(f)
    \/ ResumeWaits
    \/ \E r \in Runs : ResumeContinues(r)
    \/ \E r \in Runs : Dispatch(r)
    \/ ReviseGoal
    \/ \E phase \in TaskPhase : transition(phase)
    \/ PauseSeesLiveRun
    \/ \E r \in Runs : PauseRecords(r)
    \/ \E r \in Runs : PauseEnds(r)
    \/ ExpireQuestions

Work ==
    \/ \E r \in Runs : Claim(r)
    \/ \E r \in Runs : Finalize(r)
    \/ \E r \in Runs : Cancel(r)
    \/ \E r \in Runs : Succeed(r)
    \/ \E r \in Runs, target \in TerminalStates : End(r, target)

Time == (\E s \in Slots : QuestionDue(s)) \/ RetentionEnds \/ Purge

Next == Request \/ Work \/ Time

Spec == Init /\ [][Next]_vars
-----------------------------------------------------------------------------
\* A Run that is not terminal is the one its task is bound to, so there is at
\* most one: whatever resume requests, answers and deliveries of an intent race.
LiveRunIsLatest == \A r \in Runs : Live(r) /\ Exists => r = task.run

\* An open required question stops the task: it is not active, and no Run of it
\* is queued or executing.
OpenQuestionStopsTask ==
    Exists /\ _blocked(questions) => task.phase # "active" /\ ~Live(task.run)

\* Work that was started and lost is never forgotten: the task's consumption
\* stays unknown, so that no later Run starts with a fresh budget.
LostWorkIsDebt ==
    \A r \in Runs : /\ runs[r].attempts = 1 /\ runs[r].state \in TerminalStates \ {"succeeded"}
                    /\ Unfinished
                    => task.tokens = "unknown"

\* An intent is not newer than its task, and older once dispatched; the Run it
\* names is admitted by its dispatch and only by it, and while it can still be
\* dispatched no other Run is live.
IntentsDated ==
    \A r \in Runs :
      /\ intents[r].status # "none" => intents[r].version <= task.version /\ r # Initial
      /\ intents[r].status = "dispatched" => intents[r].version < task.version
      /\ intents[r].status = "pending" => runs[r].state = "absent"
      /\ intents[r].status = "none" /\ r # Initial /\ Exists => runs[r].state = "absent"
      /\ intents[r].status = "pending" /\ intents[r].version = task.version => ~Live(task.run)

\* Before the task there is nothing; a Run waiting for its first claim has no
\* Attempt; a live Run belongs to the current revision.
RunsOfTask ==
    /\ task.phase = "absent" => /\ \A r \in Runs : runs[r].state = "absent" /\ intents[r].status = "none"
                                /\ \A s \in Slots : questions[s].status = "none"
    /\ \A r \in Runs : runs[r].state \in {"absent", "queued"} => runs[r].attempts = 0
    /\ Live(task.run) => task.runRevision = task.revision

\* The inductive invariant behind the theorems about the task.
TaskInv == /\ TaskTypeOK /\ LiveRunIsLatest /\ OpenQuestionStopsTask /\ LostWorkIsDebt
           /\ IntentsDated /\ RunsOfTask

\* The task's Runs live the life of any Run of the queue: one admission each, no
\* matter how often an intent is delivered.
Lifecycle == INSTANCE RunLifecycle WITH
    lifecycle <- [r \in Runs |-> runs[r].state],
    visible   <- {r \in Runs : runs[r].state = "succeeded"}

ImplementsLifecycle == Lifecycle!Spec
-----------------------------------------------------------------------------
\* A client that keeps posting /resume, with a queue that accepts Runs again,
\* dispatches whatever intent can be dispatched.
FairTaskSpec == Spec /\ \A r \in Runs : WF_vars(Dispatch(r))

\* "A durable resumption intent cannot be lost between accepting an answer and
\* publishing work": the intent of an active task does not stay undispatched.
ResumeIntentNotLost ==
    \A r \in Runs : []<>~(r \in Pending /\ task.phase = "active" /\ retained)
==========================================================================
