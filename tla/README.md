# ProofAgent in TLA+

A TLA+ development kept beside the ProofAgent code (`src/`). It models the
durable execution of Runs (the part of the program where several processes,
threads, leases and transactions meet), the workflow tasks that Runs work for,
the controlled ReAct loop that a Run executes within the task's budget, the
blue/green release that replaces the processes, and the workspace in which
agents are configured and published; it checks the models
with TLC on small instances and proves their main properties with TLAPS for
every value of the constants.

## 1. Inventory of the system

ProofAgent answers operators' questions with governed agents. A question is a
*Run*: it is admitted to a queue in PostgreSQL, claimed by a Run Executor,
executed by a worker thread as an *Attempt*, and its result becomes visible
when the Attempt's artifacts are committed. Everything else (agent
configuration, knowledge, tools, model providers, evaluation, release) feeds
that path or reads its results.

| Component | State it keeps | Operations | Interacts through | What is hard | Correct when |
|---|---|---|---|---|---|
| Run queue (`run_queue_repository.py`, `contracts/run_execution.py`) | tables `runs`, `run_attempts`, `run_operator_fairness`, `run_executor_activations`, the fencing sequence | admit, claim_next, heartbeat, mark_finalizing, request_cancel, commit_success, commit_terminal_failure, reap_expired_leases, activate_role | one advisory lock, row locks, READ COMMITTED transactions | late clock readings, role rows read outside any lock, reaper against late writers | Run and Attempt agree, no replay, terminal rows final, results visible only with success, limits, fairness |
| Run executor (`run_executor.py`, `published_run_handler.py`, `cli.run_executor`) | the futures of one process, each thread's program point | reap, renew, claim, execute, finalize, stop | repository calls, signals | crash anywhere, drain between guard and claim, exceptions crossing threads | leases of live threads renewed, every Attempt ends, cancellations honoured |
| Worker role leases (`worker_role_repository.py`, `worker_health.py`) | one row per production role; the controller's cached activation | activate, heartbeat, begin_draining, resume_active, release | row lock, heartbeat thread, signal handlers | handlers and threads sharing one lock; silent death of the heartbeat thread | one live owner; a drained role claims nothing |
| Run API (`run_queue_api.py`, `run_submission_service.py`, `run_cancellation_service.py`) | none | submit, cancel, read, stream progress | queue operations | turn count read before admission, retries of a key | idempotent submissions |
| Conversations (`conversation_repository.py`) | the ordered turns | create, append_turn | inside commit_success | stale turn counts | turns are those of succeeded Runs |
| Artifact authority (`artifacts/finalization.py`, `artifact_repository.py`) | objects in S3, manifests, visibility | prepare, publish, commit_visible_manifest, recovery | object store, queue transaction | crash between upload and commit | no partial bundle is visible |
| Workflow tasks (`task_service.py`, `workflow_task_repository.py`) | versioned task documents, resume intents, run bindings | create, ask, answer, revise_goal, resume, bind_run, apply_update, record_failed_run | compare-and-swap with bounded retries; inside commit_success and the reaper | lost updates, stale resume intents | a task's phase agrees with its Run |
| Formal publication (`formal_production_agent_publication_command.py`, `formal_publication_command_repository.py`) | command rows with leases and steps | submit, claim, advance, recover | worker role, PostgreSQL | crash between steps | not reachable (see 6) |
| Deployment choreography (`deployment/choreography.py`, `gateway.py`, `scripts/deployment/compose_driver.py`) | two gateway files, the containers of both slots, what `deploy()` remembers | start standby, drain, switch, promote, abort, roll back, fence, pause and resume admission | signals and role rows of both slots, nginx, Docker Compose | a command that acts and then fails; executors that crash meanwhile | one slot works, nothing is cut off before the switch, a reported success is one |
| Controlled ReAct (`controlled_react/`, `execution_budget.py`) | one Run's state and ledger; the task's `budget_usage` | intent, plan, review, retrieve, call a tool, answer, repair, recover, commit | model, retrieval and tool ports; the task update | anything a model may answer; calls that fail or overrun; Runs that die with unknown consumption | the loop ends, an answer has its evidence, the budget holds across Runs |
| Agent configuration workspace (`agent_configuration_workspace.py`, `local_store.py`, `local/bundle.py`) | drafts with revisions and validations, versions, the active pointer, shared model connections, compiled packages: one directory tree | edit, rename, validate, publish, roll back; direct writes of drafts and connections | a file lock, private copies of the tree, renames | a commit replaces the whole tree; reads long before the commit; writes without the lock | no work of others is undone; what is published was validated |
| Tools, knowledge, models, evaluation, observability, release gates, security, front ends | policies, traces, evidence | see `PROJECT.json` | | mostly sequential or data | listed in `PROJECT.json` with the reason each is not modelled |

`PROJECT.json` lists every component, the hazards with their source lines, the
map from definitions to source lines, the runs, their mutants, the findings and
the theorems.

## 2. Modules

| Module | What it is |
|---|---|
| `RunStates` | The durable states and the transition table of `contracts/run_execution.py`. |
| `RunLifecycle` | Abstract specification of a Run: it follows the table, and its result becomes visible exactly when it succeeds. |
| `RunQueue` | `PostgresRunQueueRepository`: every operation that writes, and the worker-role rows it reads, under free callers. |
| `RunExecutor` | The executor processes (loop, threads, signals, crashes, errors) and the operators' requests over `RunQueue`. |
| `RunExecutorProofs` | The inductive invariants of `RunExecutor`, its refinement of `RunQueue`, and its theorems about leases, takeovers and deadlines. |
| `RoleRow` | Abstract specification of the worker-role row: a live role changes hands only by its owner's release. `RunQueue` reads it, `WorkerLease` implements it. |
| `WorkerLease` | `PostgresWorkerRoleRepository` and, in every process, the `WorkerRoleLeaseController` that `start()`, the heartbeat thread, the signal handlers and the claim guard share. |
| `WorkerLeaseProofs` | The inductive invariant of `WorkerLease`, its refinement of `RoleRow`, and unique epochs. |
| `WorkflowTask` | `WorkflowTaskService`, the task repository and API, the resume outbox, and what the run queue reads and writes of a task. |
| `WorkflowTaskProofs` | The inductive invariant of `WorkflowTask` and its refinement of `RunLifecycle`. |
| `Deployment` | One blue/green release: `BlueGreenChoreographer`, the Compose driver, the gateway files and the executors of both slots. |
| `DeploymentProofs` | The inductive invariant of `Deployment` and its theorems. |
| `ExecutionBudget` | `WorkflowBudgetLedger` and the durable usage that the Runs of a task restore, settle or lose. |
| `ExecutionBudgetProofs` | The inductive invariant of `ExecutionBudget` and its theorem. |
| `ControlledReAct` | `ControlledReActOrchestrator.start`: the Runs of a task and their loop, every call of which passes `ExecutionBudget`. |
| `ControlledReActProofs` | The loop implements `ExecutionBudget`; its inductive invariant and theorems. |
| `AgentConfiguration` | `AgentConfigurationWorkspace` over `LocalAgentConfigurationStore` and its unit of work, beside direct writes of the store. |
| `AgentConfigurationProofs` | The inductive invariant of `AgentConfiguration` and its theorems. |
| `RunQueueProofs` | The inductive invariant of `RunQueue`, the step lemmas and the theorems, including the refinement of `RunLifecycle`. |
| `MCRunQueue`, `MCRunExecutor`, `MCWorkerLease`, `MCWorkflowTask`, `MCDeployment`, `MCControlledReAct`, `MCAgentConfiguration` | Requests and symmetry for TLC; each `.cfg` is one run. |

### How RunQueue corresponds to the code

* Every operation but `heartbeat` and `activate_role` holds `_QUEUE_LOCK` to its
  end, so it is one atomic step, except that `_require_active_role` reads two
  role rows that this lock does not protect. Those operations are therefore two
  steps: `Begin*` (lock taken, role check passed, recorded in `txn`) and the step
  with the operation's name (row check, writes, commit). `Rollback` is every way
  a transaction ends without writing. Heartbeats take no queue lock; the ones
  past their role check are in `beats`, and the row lock, check and write are the
  atomic step `Heartbeat`. The reaper skips locked rows, and no other writer runs
  beside it: a pass fails every expired row except some of those that a heartbeat
  in `beats` may have locked (`Reapable`), which wait for a later pass.
* Callers are free: any claim of any Attempt may be presented at any time with a
  clock reading at most `MaxLag` old.
* A Run id is a number in the order of `(created_at, run_id)`, the order
  `_fair_claim_select` uses. An Attempt id stands for its claim token.
  `last_claimed_at` is the fencing number of the operator's last claim: claims
  are serialised by the queue lock and made by one loop at a time, and equal
  timestamps are not modelled. The slot is not kept apart from the executor id,
  which is fixed per slot (`bootstrap/production_roles.py`).
  The Attempt's `state_version` comparison is left out: the row lock is held from
  the read to the write.
* The role row is an instance of `RoleRow`: its expiry is the bit `live`; `RoleLateRenewal` is a renewal whose
  clock reading predates the expiry.
* A request is a `RunRequest` without a `task_id`. The request digest is left
  out: a repeated `(operator, key)` changes nothing whether it is answered or
  refused.
* `overtakenBy` is a history variable for the fairness property; nothing reads it.

### How RunExecutor corresponds to the code

`proc[e].step` is the program point of `run_until_idle` (and of `serve`, whose
sleep is `rest`); `held` is the dictionary of futures, `todo` the part of it the
current pass has not visited. `worker[a].pc` is the program point of
`_execute_claim`. A call of the repository is the `Begin` step of `RunQueue`,
a suspended caller and a commit or exception; the handler's exceptions follow
the `except` clauses one by one. `unwinding` is the exit of the
`ThreadPoolExecutor` context, which waits for its threads while nobody renews
their leases. `Crash` kills a process with its threads at any point, and its
open transaction may commit or be rolled back. `DatabaseErrs` admits an
unexpected error in every call. `ImplementsQueue` (run `takeover`) shows that
the composition uses the queue only as `RunQueue` allows, so what is proved of
`RunQueue` holds of it.

### How WorkerLease corresponds to the code

`proc[e]` is one process: the program point of its main thread (`start()`, the
executor loop, `can_claim`, `close()`), a signal handler on top of it, the
heartbeat thread, the holder of the controller's `Lock`, the statement it waits
for, and the controller's fields (`act` is `_activation`, `lost` is
`_lease_lost`). A method of the controller is two steps: the lock is taken and
the statement sent with a clock reading (`Send`), and it is executed and its
answer stored (`Answer`); a signal, a crash or a database error may come in
between, and a failed statement may have been committed (`StatementErrs`).
A statement outlives its process (`orphans`). A handler stands on the main
thread: that thread does not go on (`OnMain`), also when the handler waits for
the lock the thread holds (`Stuck`). The owner stands for slot and owner id.
Not every activation in `act` is a lease (`HasLease`): a process that starts to
drain while the row is standby keeps that row, of which its readiness check asks
nothing, and its first heartbeat, signal or release is refused by the repository
before a statement is sent. Several processes may keep the same standby row.

`RunQueue` and `RunExecutor` are modelled over `RoleRow`, and `WorkerLease`
implements it (`ImplementsRoleRow`, proved): that is how the three fit together.
`Deployment` uses the same row (`RowSteps`, proved).

### How WorkflowTask corresponds to the code

* A service operation reads the task, reduces it and compares-and-swaps its
  version; one that lost the race changes nothing. So each operation is one
  atomic step. Two reads are not protected by a version and are steps of their
  own: a pause request that has seen the Run live (`PauseSeesLiveRun`, then
  `PauseRecords` or `PauseEnds`), and a delivery of an intent, which may happen
  at any later time and any number of times (`Dispatch`).
* `PATCH /goal` tests that no Run is live before it swaps the version its body
  names, and `ReviseGoal` does both at once. This is exact for clients that name a
  version they were shown: such a version existed when the handler read the task,
  so a swap that succeeds finds the task that was read, and a Run is admitted only
  together with a new version. A client that guesses the version a dispatch is
  about to write could revise under a live Run; it is not modelled.
* An intent and its Run have one name, because the Run id is
  `uuid5(intent_id)`; `Initial` is the Run created with the task. A version
  stands for the snapshot digest, which covers it.
* `Succeed` and `End` are the task writes inside `commit_success`,
  `commit_terminal_failure` and the reaper: the Run and the task move in one
  transaction. The Runs follow the table of `RunStates`; that the queue itself
  does so is what `RunQueue` shows, and `ImplementsLifecycle` says that nothing
  the task does admits a Run twice.
* `tokens` is whether `budget_usage.tokens` is known. `Purge` is
  `purge_expired`, with the outbox rows that follow by the foreign key.
* Modelled for PostgreSQL, where every question a Run asks is blocking.
  Acceptance criteria and assessments, the validation of an answer's value and
  the creation of a new task under a purged id are left out.

### How Deployment corresponds to the code

* `step` is the `DeploymentStepName` in progress and `at` the next command of
  its driver operation. `Returns`, `Raises` and `RecoveryNext` are the three
  ways `_run` and `_recover` end; `run` holds the local variables of `deploy()`.
  `Command` and `Fails` let every command fail before or after its effect.
* `include` is what the two files say and `running` what nginx has loaded; they
  differ after a write that could neither be loaded nor restored.
* A slot's `api` and `workers` are its containers by environment file; `hold` is
  the epoch of the activation that its executor process took. A drain or resume
  signal reaches a process only when it took one, and has no effect when its lease
  is lost or its statement fails. An executor crashes at any time and is restarted
  by Docker; the role row it leaves lapses. The lease also lapses under a process
  that is up (`RoleLapses`): its heartbeat thread died of a database error, or a
  renewal was late. A renewal under way may still come (`RenewedLate`); otherwise
  that process never holds the role again, and claims and commits nothing.
* `killed` is a history variable: the slots whose Attempt the release cut off.
* Left out: the digests of the release's inputs, the migration itself, the
  journal, and what probes look at beyond the state above.

### How ControlledReAct corresponds to the code

* `run.at` is the place in `start()` and `_run_loop`; a step between two places
  is everything the code does without a call. A place of `Calling` reserves its
  model call (`CallModel`), and the call ends reported, unreported or failed.
* Models, reviewers, policies and sources may answer anything; the code's own
  decisions are translated: the completion gate (`Gated`, `Complete`,
  `Pending`), the convergence signals (`Eligible`), the compiled plan of a lite
  workflow (`Compiled`), the order of the plan's checks (`Constrained`), the
  repair of a rejected answer and the recovery of a gap it names (`Recover`).
* `run.history` is `observation_records` with the action each one observed;
  `got` is what the completion gate tells apart: no accepted evidence, some, or
  some that a requirement can cite.
* A query stands for its text: the planner's retrieval parameters are reduced to
  it before they are compared (`_canonicalize_planner_proposal`).
* `usage`, `ledger` and `call` are the task's usage, the Run's ledger and its
  open reservation; `sent` and `spent` are histories that nothing reads. `Lose`
  is `record_failed_run`, and a Run ends in `Settle` or `Lose`, never in both,
  which `WorkflowTask` shows (`OneLiveRun`, `LostWorkStaysDebt`).

### How AgentConfiguration corresponds to the code

* `tree` is the configuration directory, `lock` the store's file lock where it is
  held across more than one step, `call[c]` a request: what it read (`seen`,
  `content`, `expected`), the validation it made, and, in its unit of work, the
  copy it started from (`base`) and the one it changed (`staged`).
* A request is a read, the work of its adapter, and a unit of work: `Stage`
  (copy and change under the lock, in private), `Compare` (lock again, compare
  the digest of the live tree with that of the copy), `MoveAway` and `Put` (the
  two renames), `InstallAudit`. A direct write of the store is one step under
  the lock. `Compile` is `compile_draft_agent`, which writes into the live tree
  without the lock.
* Equality of trees stands for equality of digests. Audit records and timestamps
  make the digest differ where the rest of the tree would come back to what it
  was; `stamp` does the same for the connections, and revisions and version ids
  for drafts and versions.
* `PutFails` and `AuditFails` are a failing rename with the way back;
  `PutBlocked` is a rename that fails because a package was compiled into the
  gap, where the way back fails too and `rollback()` deletes both copies.
* A content is a contract bundle; all that matters of it is which shared
  connections it names (`Refs`). A validation remembers the content it was asked
  for and the one it ran.
* The composition is that of the development server
  (`observability/api/app.py:295`). The canonical seed, creation of a draft with
  an idempotency key, tool sources, knowledge release records and validation
  captures are left out; each is one more write under the same lock.

## 3. Runs

Passing runs:

| Run | Instance | Shows |
|---|---|---|
| `leases` | 1 Run, 2 Attempts, 2 executors, 2 epochs, late readings, lease 2 < deadline 3 | the inductive invariant, final terminal rows, the refinement of `RunLifecycle` |
| `admission` | 3 Runs from 4 requests of 2 operators, a shared conversation, limits 2 queued and 1 active | limits, single flight, turns; a waiting operator is not overtaken twice |
| `takeover` | 2 processes, one of them prompt, 1 Run, crashes and restarts, drains, stops, role leases of dead processes running out, work and database errors, with fairness | thread/row agreement, no thread lost, leases renewed in time while the prompt loop runs, refinement of `RunQueue`, every claimed Attempt becomes terminal |
| `row` | 2 processes started active or draining, over a live or a standby row, crashes, database errors, late statements, lease 2, heartbeat 1 | the row implements `RoleRow`, the epoch of a lease names one process |
| `tasks` | 1 task, 4 Runs, 3 questions, 2 goal revisions, 8 versions | one live Run, none while a question is open, lost work stays unknown debt, one admission per intent |
| `release` | 1 release, 2 slots, 2 executor crashes, leases lapsing under live and dead processes, every command may fail, with fairness | slots exclude each other, nothing cut off before the switch, reported successes are real, the routed slot ends up executing or its executor is up without the role |
| `loop` | 1 task, 2 Runs, 2 plan rounds, 2 queries and 1 requirement, 1 tool, a task plan of one step or none, token limit 4, overrun 1 | the loop ends, an answer has its evidence and its steps, the budget holds across Runs |
| `workspace` | 2 callers, 1 draft with 3 revisions, 2 versions, 2 contracts, 1 connection, 2 stamped writes, failing renames, crashes | a commit of the whole tree changes only what its operation may; published versions were validated and keep their connections |

Runs that exhibit a disagreement between the code and what the repository says
of it (each quoted in `PROJECT.json` under `findings`):

| Run | The code | The repository says |
|---|---|---|
| `signals` | a drain or stop signal that interrupts the claim guard waits for the lock its own thread holds | "deployment drain/resume controls without stopping the process" |
| `resume` | an intent whose dispatch failed, and whose task was then paused and resumed, is presented again by every later request and refused | "a durable resumption intent cannot be lost between accepting an answer and publishing work" |
| `abort` | a drain signal that was delivered before its step failed is not undone; the outcome is ABORTED and no executor claims | "aborts the release and restores the old Executor" |
| `raced` | two validations of a draft share the directory they compile into and run from; the newer revision is recorded as validated and published although the older one ran | "Publish and activate one currently validated Draft atomically" |

More behaviours that the models have and that a reader of the code should know,
each met while modelling:

* Fencing. A terminal write that passed the role check before a takeover is
  committed after it (`run_queue_repository.py:905`, then `:839`), although ADR
  0131 says that a higher epoch "permanently fences lower-epoch terminal writes".
  It still moves only the row it owns (`TxnOwnsRow`, proved).
* Cancellation. A request accepted between the thread's check and
  `mark_finalizing` (`run_executor.py:219`) ends as FAILED/execution_failed.
* Drain. A drain between the claim guard and `claim_next`
  (`run_executor.py:162`) raises `RunClaimRejectedError`, which ends the loop;
  the running threads then lose their leases instead of finishing their Attempts.
* Freeze. A Run whose snapshot cannot be frozen (`control/run_execution.py:54`)
  stays QUEUED at the head of the queue and ends the loop at every claim,
  although the sprint plan says that such a failure "releases the slot through
  one conditional terminal transaction".
* Deadline. `heartbeat` cuts the lease at the deadline, so a thread that notices
  its deadline has no lease left, its TIMED_OUT write is refused, and the reaper
  records FAILED/executor_lost. `allow_deadline_expired` (`run_queue_repository.py:610`)
  therefore never lets anything through (proved: `TimeoutsPrecedeDeadlines`,
  `DeadlinesNotRecorded`).
* Purge. A task purged while its Run executes makes the reaper's transaction
  fail for ever (`run_queue_repository.py:820`), with every other Run in it.
* Pause. `PATCH phase` paused decides on a Run it read before; when that Run
  ends in between, the task may be paused with an unknown debt.
* Release. The candidate's API is never recreated with its active environment,
  which the next release's prechecks require (`compose_driver.py:910`); the
  admission pause blocks `POST /api/runs` only, while answers and resumptions
  of tasks still submit Runs (`compose_driver.py:1208`).
* Role heartbeat. A database error other than a lost lease ends the role's
  heartbeat thread silently (`worker_health.py:260`); the role then lapses while
  its process runs. `StatementErrs`, `RoleMayLapse` and `Deployment`'s
  `RoleLapses` admit it. Nothing restarts that process, so a release that reported
  success may be left with an executor that is up and never claims again:
  `ReleaseSettles` allows just that.
* Draining start. `start()` says that "a draining worker must already own the
  live role lease" (`worker_health.py:133`), but it asks the readiness check for
  the state the row is in: a standby row passes (`:286`), and the process starts
  with an activation that nobody owns. It claims nothing, and its first statement
  is refused, so no live role changes hands by it.
* Digest. The idempotency digest covers `conversation_turn_count`
  (`contracts/run_execution.py:133`): a client's retry of a submission whose Run
  has committed its turn is a conflict.
* Loss of the store. Between its two renames a commit leaves no configuration
  directory (`bundle.py:564`, `:566`). A crash there leaves an empty store, with
  the whole of it in a hidden staging directory that nothing reads; a package
  compiled there makes the directory anew, so that the copy and the backup can
  both not be renamed into place, and `rollback()` deletes both.
* Packages are part of the compared tree although they are no configuration: a
  validation that compiles makes every unit of work begun before it conflict.
* Publication checks a draft's connections, and a connection archived between
  that check and the commit is published; it cannot be deleted
  (`ReferencesExist`).
* ReAct. ADR 0032 says that a spent plan budget emits REFUSE without calling the
  planner model, but `_plan_next_action` calls it (`orchestrator.py:1113`) and
  constrains the proposal afterwards. A budget that runs out inside a review is
  reported as a denied review (`orchestrator.py:569`). Memory may be committed
  for an answer that the last `ensure_available` then refuses
  (`orchestrator.py:1047`, `:178`).

### Bounds

`MaxLag`, `MaxClock`, `MaxEpoch`, `MaxBeats` bound the clock reading's age, the
time line, the activations and the concurrent heartbeats. In `leases` the time
line is as long as an Attempt's deadline, so that a lease is granted, renewed,
cut at the deadline and expires; two epochs give one takeover. `admission` keeps
time still, and its three Runs share two Attempts: its properties do not depend
on time, two claims are all that overtaking takes, and cancellation and failure
end Runs in every way. In the executor run time
passes only while some lease has still to expire (`TimePasses`), so with one Run
`MaxClock` cuts no behaviour off. `Disturbable`
keeps crashes, drains and errors away from the last modelled activation, because
no further process would follow it; `WorkerLease` uses the same bound, and
keeps at most one statement of a dead process under way. Its time line is one
lease and one renewal long, which covers expiry, takeover and a statement that
arrives after both.
In `tasks` `MaxVersion` bounds the requests of the API, not what executors
write: eight versions are enough for two rounds of question, answer, resume and
failure, and four Runs for three intents that race. In `release` the only bound
is two crashes, one more than it takes for a predicted epoch to be wrong on
both ways. In `loop` two Runs are one that is lost and one that must count it;
two rounds are a query and the recovery of a gap, or a query and a tool; the
token limit is the one that binds, since a call costs at least one, and the
limits per kind bind for retrieval and tools (the proof covers every value).
Repetition and saturation, which need more rounds, are translated but not
reached. In `workspace` three revisions are an edit, a validation and what
invalidates it; two versions are a publication and the one it replaces; two
callers are a commit and the one that finds the tree changed. In `takeover` a
process in `Prompt` makes a pass per clock tick while its loop runs: the poll
interval (0.2 s) is far below the heartbeat interval. The other process may be
arbitrarily slow, and `LeasesKept` is about the prompt one. A role lease that
runs out under a live process (`RoleMayLapse`) is off there. The proofs hold for
both values, except `LeasesAreKept` and `TakeoverIsClean`, which are about
processes that keep their role. Deadlock is not checked: an idle
queue with every request submitted has nothing to do.

### Fairness

`FairLeaseSpec` (run `signals`): the threads of a process run and PostgreSQL
answers; signals, crashes and errors are not fair.

`FairTaskSpec` (run `resume`): a client that keeps posting `/resume` and a queue
that accepts Runs again deliver whatever intent can be delivered.

`FairReleaseSpec` (run `release`): the choreographer goes on, because every
driver command has a timeout; the lease of a role runs out once no process is up
that took it (under one that is up it may, and need not); a restarted container's executor tries to activate again. Crashes, claims and
the end of Attempts are not fair.

`FairExecSpec` (run `takeover`) assumes: containers are restarted
(`restart: unless-stopped` in `deploy/production/slot/compose.yaml`), so
`Lifetime` is weakly fair; the loop and the threads run; PostgreSQL ends the
transactions it began, also each heartbeat's (`HeartbeatEnds`: one that never
ended would hold its row against every pass of the reaper); the handler and the uploads end (their clients have
timeouts); the role lease of a dead process expires and time passes. `Activate`
is strongly fair: no deployment drains every new process for ever between its
start and its activation. Operators' requests, signals, crashes and errors are
not fair. `Start` is strongly fair because a dead process has at most one
renewal under way, which can keep its role alive once; `TimePasses` because a
prompt loop is at rest again and again, and time does pass then.

## 4. Proofs

`RunQueue` declares `ConstantsAssumption` (disjoint null values, natural
numbers, `LeaseSeconds < DeadlineSeconds`, which `claim_next` enforces); nothing
else is assumed.

`IInv == TypeOK /\ RunAttemptAgreement /\ NoReplay /\ ResultVisibility /\ TxnOwnsRow`
is inductive (`InductiveInvariant` in `RunQueueProofs`). None of its parts is
inductive alone: that both rows agree after a write needs that the Attempt of
the open transaction is active (`TxnOwnsRow`) and is its Run's only Attempt
(`NoReplay`); that a claim makes no second Attempt needs that a queued Run has
none (`RunAttemptAgreement`); that a success shows its own manifest needs all
three. The proof has one lemma per kind of write (claim, move of both rows,
reaping, heartbeat) and one case per action.

From it `RunQueueProofs` proves, for every value of the constants:
`TypeCorrect`, `RowsAgree`, `NeverReplayed`, `ResultsVisible`,
`TerminalRowsFinal`, `VersionsCount`, `RefinesLifecycle`, and, with
invariants of their own, `SingleFlight`, `Capacity` (cardinalities from
`FiniteSetTheorems`), `TurnsMatchSuccesses` and `ClaimsAreFair` (which needs that
an operator that overtook a waiting one was claimed later than it).
`OneCheckSuffices` says that the exceptions the code raises when the second of the
two rows is not where the first one is are never raised. `LeasesWithinDeadlines`
goes through what a step may do to a lease (`StepOfLeases`), and
`TimeoutsPrecedeDeadlines` follows.

`WorkerLease` declares `LeaseAssumption` (disjoint null values, a heartbeat
interval of at least one and shorter than the lease, as the controller's
constructor enforces). `WorkerLeaseProofs` proves that `LInv` is inductive: the
types, `TokensDated`, and which thread may hold the lock with which statement.
`TokensDated` is what the refinement needs: because the token of a lease was written at a
reading no later than the one it is used with and is exactly one lease long, a
heartbeat never shortens a lease and an activation decided on an early reading
never overwrites a live one. From it: `LeaseTypeCorrect`, `TokensAreDated`,
`LeaseRefinesRoleRow` (every statement maps to a step of `RoleRow` or to a
stutter) and `EpochsAreUnique` (by a function from epochs to the processes that
activated them, with which every lease kept, read or sent agrees). Both are about
leases: a standby row that a draining start kept is dated by nothing and shared,
and harmless, because no statement is ever sent about it.

`WorkflowTask` declares `TaskAssumption` (`Initial` is a Run, the null values are
none). `TaskInv == TaskTypeOK /\ LiveRunIsLatest /\ OpenQuestionStopsTask /\
LostWorkIsDebt /\ IntentsDated /\ RunsOfTask` is inductive. That at most one Run is
live does not follow from what a request sees: an intent is delivered long after
it was read. It follows from `IntentsDated`: an intent that can still be
dispatched carries the task's version, and at that version no Run is live,
because every step that makes one live also moves the version. From it:
`TaskTypeCorrect`, `OneLiveRun`, `OpenQuestionStops`, `LostWorkStaysDebt`,
`TaskRefinesLifecycle`.

`Deployment` declares `DeploymentAssumption` (the old epoch is positive). `IInv`
is the conjunction of the types, of what each step knows of the choreographer's
locals (`StepInv`), of which executor took the role, whether or not its lease
still runs (`PlantInv`), of the containers of
each step (`SlotInv`), of the files (`FilesInv`), and of two invariants about the
end: `DeployInv` says that a row showing the predicted epoch proves that the old
executor was not replaced meanwhile, which is why a zero count still holds when
it is stopped, and `RollbackInv` that the candidate was overtaken or its lease
lost. From it: `DeployTypeCorrect`, `SlotsExclude`, `SwitchAfterDrain`,
`DeployedHolds`, `RolledBackHolds`, `RowStepsHold`.

`ExecutionBudget` declares `BudgetAssumption` (limits are numbers, a model call
reserves at least one token, `Unknown` is no number). Its `IInv` is the types,
`BudgetHolds` and what makes it inductive: as long as the durable total is known,
the live ledger, or between Runs the usage, has counted every call and charged
every token spent or reserved (`KnownTotal`); once it is unknown, calls may be
uncounted, but every later ledger is full from its start (`LostTotal`). From it
`TaskBudgetHolds`. `LoopKeepsBudget` proves that every action of the loop is a
step of `BudgetSpec` or leaves the budget alone, and `LoopBudgetHolds` follows,
whatever the models answer.

`ControlledReAct` declares `LoopAssumption` (the sets of queries are disjoint
from the requirements, a task plan has at least one step, as `ToolTaskPlan`
requires). `LoopInv` adds to the types what each place of the loop owes to the
decision that led there: what is about to be observed was decided while a plan
round was left and, for a query, was not tried (`Observing`, from
`ConstrainedSound`, which goes through the checks of `_constrain_next_action` in
their order); a draft has passed the completion gate (`Drafting`); the steps of a
task plan were executed in order (`InOrder`); only the last places know an answer
(`Ends`). One lemma per kind of step (a move, a decision, an observation, the
intent, the start and end of a Run) preserves it. From it `LoopTypeCorrect`,
`LoopEnds` and `AnswersSupported`.

`RunExecutor` declares `ExecutorAssumption`. `ExecIInv` in `RunExecutorProofs` is
the queue's `IInv` and, beside the types of processes and threads, what relates
the threads to the rows and to the open transaction: the write transaction is
that of a thread suspended in the call, or of one that was killed there
(`Calls`); an Attempt without a thread is not yet claimed (`Unclaimed`); a thread's
program point fits the state of its Attempt, which anybody but the thread can
only cancel or fail (`Agree`, `Quiet`); and every running thread is in the held
set of exactly one process (`Holding`), where all steps but a claim are orderly:
they only shrink held sets, by threads that have finished. That a step of the
executors is a step of the queue (`ExecStep`) needs of this only that a thread
records what one of its except clauses decided (`WritesKnown`). From it:
`ExecRefinesQueue`, through which every theorem about `RunQueue` holds of the
composed system (`ExecRefinesLifecycle` is one of them), `ExecTypeCorrect`,
`ThreadsAgree`, `ThreadsAreHeld` and `ExecutedOnce`.

Four more results about the executors rest on `ExecIInv` and an invariant of their
own each.

* `TurnsStayFresh`: a thread past its handler finds its conversation as long as
  its request froze it, because an active Run is the only one of its conversation
  that is not terminal (`SingleFlight`) and only a commit adds a turn (`TurnsKept`).
* `TakeoverIsClean`, for `RoleMayLapse = FALSE`: `RoleInv` says that the role row
  shows every process that is up (`RolesHeld`), so that there is one at most, and
  that it works in the current epoch with threads it claimed there (`Owning`). A
  process that lets its role lapse breaks `RolesHeld`: its threads go on, and only
  the fence (`OwnerActive`) stops their writes.
* `LeasesAreKept`, for `RoleMayLapse = FALSE` and `MaxLag + 1 < LeaseSeconds` (a
  lease granted on the oldest admissible reading outlasts the next tick; the default
  lease of 15 s with a pass every 0.2 s is far from that bound, while the
  constructor would also take a pause of 5 s with a lease of 2 s, where a pass per
  tick of one second is not given): `LeaseInv` adds to `RoleInv`
  that a loop waiting for a claim or a heartbeat is answered by its own transaction
  (`OwnClaims`, `OwnBeats`: an older heartbeat of a dead process is never about a
  thread of this one), and that a lease the pass is done with lasts to the next
  tick or to the deadline (`Served`, `Lasts`). The pass renews what is due, what is
  not due lasts (`HeartbeatSeconds` is at least one tick), a fresh claim lasts,
  and a refused renewal cannot be this loop's, since its role is held. Only a loop
  that is at rest lets the clock tick, and then everything it holds was served.
* `DeadlinesNotRecorded`, for `MaxLag = 0`: a thread sets out to record TIMED_OUT
  only after the clock passed the deadline, and its call reads the clock later
  (`LateOnly`); with `TimeoutsPrecedeDeadlines` the call is refused. A lagging
  reading would be one taken before the check by the clock of the same host, which
  the code cannot give; TLC finds TIMED_OUT rows when `MaxLag` is 1.

`AgentConfiguration` declares `ConfigurationAssumption` (disjoint null values,
`Initial` is a content, at least one revision, since a created draft has revision
1). The lock is held only from the comparison to the end of an installation, so
`ConfigInv` says what outlives it: every tree, every private copy and every backup
is sound (`Sound`: a draft that could be published was validated as it is, a
version was validated, passed, and has its connections); a request knows what its
program point has established (`Knows`), and what it read of a draft is still so
unless the draft's revision has moved on (`Fresh`); from the copied tree to the
changed one every draft is kept with its connections, has moved on or is gone, and
the difference is the request's own change (`Copies`); the live tree agrees with
the copy between the comparison and the last rename (`Installing`). `Fresh` is the
heart: a publication looked at its connections in an earlier locked section, and
its version is sound because whatever deletes one of them finds the draft that
names it, or comes after a step that moved the draft on. That each commit keeps
`Fresh` for everybody else is shown once, for a change of the live tree in which
drafts are `Kept`, and then by what each kind of write does to the tree. From
`ConfigInv`: `CommitsOwn` (by cases of the step that makes a commit count),
`PublishedValidated`, `ReferencesStay`, `ConfigTypeCorrect`.

Every safety property of a passing run is thus a theorem. Only model-checked are
the properties of the runs that expect a violation, which no proof could
establish, and liveness (`AttemptsTerminate`, `ReleaseSettles`), since fairness and
`ENABLED` are outside the prover's reach.

## 5. Plan

1. `ArtifactAuthority`: uploads, manifests, visibility and orphan recovery.
2. The PostgreSQL unit of work of the configuration workspace, sessions and
   permission epochs, release gates.
3. `resume()` of the loop, once something in production calls it.

The project is kept to a dozen runs, so that a full verification stays quick: a
run of a new module takes the place of one that shows least. The behaviours
listed under section 3 without a run are ones whose run gave way like that.

## 6. Not modelled

In the executor, what a handler computes is one step that returns, raises or
never ends; `ControlledReAct` is that step. Of the loop these are left out:
`resume()` and `task_checkpoint_ref`, which no production code calls, and with
them a denied tool approval; the one repair of a source selection; the models a
retrieval calls itself; memory contents; the binding of observations to truth
records; and the deterministic stand-ins for models that are not configured. Read-only operations (lists, projections,
progress streams) change no state. Formatting, logging and front ends are left
out. In `WorkerLease`: a signal that interrupts another handler, the health
server's readiness probe (which takes the lock for a moment), and a clock that
runs backwards.

Formal publication is not reachable in this repository: nothing calls
`_compose_formal_production_agent_publication_command`
(`bootstrap/production_roles.py:485`), in line with ADR 0242 ("formal production
publication remains unavailable"), and its provisional version id
`formal-version-<sha256>` is not the UUID that `publish_version` requires, so
that no publication could commit. A model of its protocol would be about a
program that cannot run.
