-------------------------- MODULE ControlledReAct --------------------------
(***************************************************************************)
(* The Controlled ReAct orchestrator: the Runs of one workflow task, one   *)
(* after the other, from start() to the task update they commit.  A Run    *)
(* resolves the intent once and then loops: plan the next action,          *)
(* constrain it to what the completion gate and the convergence signals    *)
(* allow, review it, observe, until it answers, asks, refuses or pauses.   *)
(*                                                                         *)
(* ExecutionBudget is the ledger every call passes.  Models, reviewers,    *)
(* policies, retrieval and tools may answer anything: their answers are    *)
(* nondeterministic choices.  A query stands for its text, a tool proposal *)
(* for its parameters, evidence for whether it counts and is cited.        *)
(*                                                                         *)
(* resume() and task_checkpoint_ref have no caller in production and are   *)
(* left out, and with them the denied approval of a tool.  So are the      *)
(* retrieval's own auxiliary models, and the deterministic stand-ins for   *)
(* an intent or planner model that is not configured.                      *)
(***************************************************************************)
EXTENDS ExecutionBudget, Sequences, FiniteSets

CONSTANTS
    Queries,        \* what the intent or the planner may want retrieved
    Supplements,    \* the queries that may close a gap of a comparison
    Needs,          \* the query that supplements one requirement of the question
    Other,          \* a requirement id the model made up
    Tools,          \* parameters of the tool proposals of the planner
    Steps,          \* sequence: parameters of the steps of tool_task_plan
    MaxPlanRounds,  \* max_plan_rounds
    MaxToolCalls,   \* max_tool_calls of one Run
    MaxQuestions,   \* InteractionPolicy.max_rounds
    MaxRuns         \* bound: Runs of the task

ASSUME LoopAssumption ==
    /\ MaxPlanRounds \in Nat \ {0} /\ MaxToolCalls \in Nat
    /\ MaxQuestions \in Nat /\ MaxRuns \in Nat
    /\ Supplements \subseteq Queries /\ Queries \cap Needs = {} /\ Other \notin Needs
    /\ Steps \in Seq({Steps[i] : i \in DOMAIN Steps}) \ {<<>>}

VARIABLES
    config,  \* the frozen configuration of the task's Runs
    run,     \* the live Run: where it is, and its ControlledReActRunState
    phase,   \* the task's phase
    asked,   \* len(task.questions)
    runs     \* Runs started

loopVars == <<config, run, phase, asked, runs>>
vars == <<budgetVars, loopVars>>

ActionKinds == {"retrieve", "tool", "answer", "ask", "refuse"}
Action == [kind : {"retrieve"}, key : Queries \cup Needs]
          \cup [kind : {"tool"}, key : Tools \cup {Steps[i] : i \in DOMAIN Steps}]
          \cup [kind : {"answer", "ask", "refuse"}]

\* What a retrieval brought: no accepted evidence, some, or some with citation.
Observation == [kind : {"retrieve", "tool"}, key : Queries \cup Needs \cup Tools
                  \cup {Steps[i] : i \in DOMAIN Steps}, got : {"none", "uncited", "cited"}]

Outcomes == {"none", "answered", "refused", "clarification", "approval",
             "tool_denied", "policy_denied", "failed"}

Places == {"idle", "start", "intent", "plan", "ask", "review", "retrieve", "tool",
           "calling", "answer", "draft", "grounding", "admit", "memory", "end", "commit"}

Complexity == {"lite", "escalating", "standard"}

Config == [complexity : Complexity,  \* escalating: lite that may become standard
           taskPlan : BOOLEAN]       \* there is a tool_task_plan

Run == [at          : Places,
        retried     : BOOLEAN,                    \* the stage's one repeated model call
        required    : SUBSET Queries,             \* the required queries of the intent
        gap         : {"none", "open", "closed"}, \* what a comparison still lacks
        recommended : {"retrieve", "tool", "ask", "refuse"},
        history     : Seq(Observation),
        action      : Action,                     \* what the plan decided last
        queried     : BOOLEAN,                    \* some query of the retrieval left
        repaired    : BOOLEAN,                    \* the answer's one repair
        recovery    : SUBSET (Needs \cup {Other}),  \* requirements the answer says it lacks
        outcome     : Outcomes,
        question    : BOOLEAN]

Refuse == [kind |-> "refuse"]

Idle == [at |-> "idle", retried |-> FALSE, required |-> {}, gap |-> "none",
         recommended |-> "retrieve", history |-> <<>>, action |-> Refuse,
         queried |-> FALSE, repaired |-> FALSE, recovery |-> {}, outcome |-> "none",
         question |-> FALSE]

\* Every part keeps its shape, and the task is never asked more often than its
\* interaction policy allows, whichever of the three stages asks.
LoopTypeOK ==
    /\ BudgetTypeOK
    /\ config \in Config /\ run \in Run
    /\ phase \in {"active", "waiting_for_input", "paused", "complete"}
    /\ asked \in 0 .. MaxQuestions
    /\ runs \in 0 .. MaxRuns
-----------------------------------------------------------------------------
Init ==
    /\ BudgetInit
    /\ config \in Config
    /\ run = Idle
    /\ phase = "active" /\ asked = 0 /\ runs = 0

\* What the Run has observed.
Round      == Len(run.history)
Seen(kind) == {i \in 1 .. Round : run.history[i].kind = kind}
Tried      == {run.history[i].key : i \in Seen("retrieve")}
Supported  == {run.history[i].key : i \in {j \in Seen("retrieve") : run.history[j].got = "cited"}}
HasEvidence == \E i \in Seen("retrieve") : run.history[i].got # "none"

\* assess_retrieval_completion; Gated when there is something to complete.
Gated    == run.required # {}

\* Mutant of Complete: a query that was tried counts as covered.
CompleteWhenTried == run.required \subseteq Tried /\ run.gap # "open"

Complete == run.required \subseteq Supported /\ run.gap # "open"

Pending == IF run.required \subseteq Supported
           THEN IF run.gap = "open" THEN Supplements \ Tried ELSE {}
           ELSE run.required \ Tried

\* assess_tool_tasks: the steps are executed in order.
StepsDone   == IF config.taskPlan THEN Cardinality(Seen("tool")) ELSE 0
StepPending == config.taskPlan /\ StepsDone < Len(Steps)

\* compile_execution_plan: a lite workflow takes one required query and no tool.
TooComplex == Cardinality(run.required) > 1 \/ config.taskPlan \/ run.recommended = "tool"
Blocked    == config.complexity = "lite" /\ TooComplex
IsLite     == \/ config.complexity = "lite"
              \/ config.complexity = "escalating" /\ ~TooComplex

\* The convergence signals of compute_eligible_action_set.
Last        == run.history[Round]
AnswerReady == Round > 0 /\ Last.got # "none"
Repeats     == /\ Round > 1 /\ Last.kind = run.history[Round - 1].kind
               /\ Last.key = run.history[Round - 1].key
Found(i)    == run.history[i].got # "none"
Saturated   == Round > 2 /\ \A i \in {Round - 1, Round} : Found(i) => Found(Round - 2)

\* _eligible_actions_for_state, less the tools when none is in scope.
Eligible(scope) ==
    (CASE Gated /\ Complete -> {"ask", "refuse", "answer"}
       [] Gated /\ ~Complete /\ (Round >= MaxPlanRounds \/ Pending = {}) -> {"ask", "refuse"}
       [] Gated /\ ~Complete /\ Round < MaxPlanRounds /\ Pending # {} -> ActionKinds \ {"answer"}
       [] ~Gated /\ Round >= MaxPlanRounds -> {"refuse"}
       [] ~Gated /\ Round < MaxPlanRounds /\ AnswerReady -> {"answer"}
       [] ~Gated /\ Round < MaxPlanRounds /\ ~AnswerReady /\ (Repeats \/ Saturated) -> {"answer", "refuse"}
       [] OTHER -> ActionKinds)
    \ (IF scope = "none" THEN {"tool"} ELSE {})

Retrieve(q)  == [kind |-> "retrieve", key |-> q]
Duplicate(a) == /\ a.kind \in {"retrieve", "tool"}
                /\ \E i \in 1 .. Round : run.history[i].kind = a.kind /\ run.history[i].key = a.key

\* With a tool_task_plan: first the required queries, then the steps, then the
\* answer.
Planned(a) == /\ config.taskPlan /\ a.kind \notin {"refuse", "ask"}
              /\ ((Gated /\ ~Complete) \/ StepPending \/ a.kind = "tool")
TaskAction(scope) ==
    CASE Gated /\ ~Complete -> IF Round < MaxPlanRounds /\ Pending # {}
                               THEN {Retrieve(q) : q \in Pending} ELSE {Refuse}
      [] ~(Gated /\ ~Complete) /\ StepPending ->
           IF Round < MaxPlanRounds /\ Cardinality(Seen("tool")) < MaxToolCalls
              /\ scope = "read_only"
           THEN {[kind |-> "tool", key |-> Steps[StepsDone + 1]]} ELSE {Refuse}
      [] OTHER -> {Refuse}

\* A pending required query displaces an answer or any other retrieval.
Displaced(a, scope) == /\ Gated /\ Pending # {} /\ "retrieve" \in Eligible(scope)
                /\ \/ a.kind = "answer"
                   \/ a.kind = "retrieve" /\ a.key \notin Pending

\* constrain_action: outside the eligible set, answer or refuse.
InSet(a, scope) == IF a.kind \in Eligible(scope) THEN a
                   ELSE [kind |-> IF "answer" \in Eligible(scope) THEN "answer" ELSE "refuse"]

\* _constrain_next_action: the actions that may come of a proposal.
Constrained(a, scope) ==
    CASE Planned(a) -> TaskAction(scope)
      [] ~Planned(a) /\ Gated /\ a.kind \in {"refuse", "ask"} -> {a}
      [] ~Planned(a) /\ Displaced(a, scope) -> {Retrieve(q) : q \in Pending}
      [] OTHER -> IF \/ Gated /\ ~Complete /\ "retrieve" \notin Eligible(scope)
                     \/ Duplicate(InSet(a, scope))
                  THEN {Refuse} ELSE {InSet(a, scope)}
-----------------------------------------------------------------------------
(* Common parts of the actions. *)

Go(place) == run' = [run EXCEPT !.at = place]
Stop(outcome, place) == run' = [run EXCEPT !.at = place, !.outcome = outcome]

KeepTask   == UNCHANGED <<config, phase, asked, runs>>
KeepBudget == UNCHANGED budgetVars

\* Where a model call may be under way.
Calling == {"intent", "plan", "review", "draft", "grounding"}

\* BudgetExceeded leaves the loop: the question and the answer are forgotten.
Exceeded == run' = [run EXCEPT !.at = "commit", !.outcome = "refused",
                               !.question = FALSE]

\* What a compiled workflow does without asking the planner: _compiled_action
\* and the planner adapter.
HasCompiled == \/ run.recommended \in {"ask", "refuse"}
               \/ Blocked
               \/ IsLite /\ Gated
               \/ Seen("tool") # {}
Compiled ==
    CASE run.recommended \in {"ask", "refuse"} -> {[kind |-> run.recommended]}
      [] run.recommended \notin {"ask", "refuse"} /\ Blocked -> {Refuse}
      [] run.recommended \notin {"ask", "refuse"} /\ ~Blocked /\ IsLite /\ Gated /\ Pending # {} ->
           {Retrieve(q) : q \in Pending}
      [] OTHER -> {[kind |-> "answer"]}

Proposals == {Retrieve(q) : q \in Queries} \cup {[kind |-> "tool", key |-> t] : t \in Tools}
             \cup {[kind |-> k] : k \in {"answer", "ask", "refuse"}}

\* _run_loop: where the action leads.
Stage(kind) == CASE kind = "refuse"   -> "memory"
                 [] kind = "ask"      -> "ask"
                 [] kind = "answer"   -> "answer"
                 [] kind = "retrieve" -> "review"
                 [] kind = "tool"     -> "tool"

Take(a) == run' = [run EXCEPT !.at = Stage(a.kind), !.action = a, !.queried = FALSE,
                              !.retried = FALSE, !.repaired = FALSE, !.recovery = {},
                              !.outcome = IF a.kind = "refuse" THEN "refused" ELSE "none"]

\* _prepare_plan_state: the tools in scope of the admitted flow.
Scopes == {"none", "read_only", "approval"}

\* _apply_plan_interaction may find that nothing of a question is blocking.
PlanOf(a) == \E scope \in Scopes : \E b \in {a} \cup (IF a.kind = "ask" THEN {[kind |-> "answer"]} ELSE {}) :
               \E c \in Constrained(b, scope) : Take(c)

\* The provider answered the call.
Answers == CompleteReported \/ CompleteUnknown
-----------------------------------------------------------------------------
(* The Run. *)

\* start(): a Run of an active task; a user's answer or resume reactivated it.
Start ==
    /\ run.at = "idle" /\ phase # "complete" /\ runs < MaxRuns
    /\ RestoreUsage
    /\ run' = [Idle EXCEPT !.at = "start"]
    /\ phase' = "active" /\ runs' = runs + 1
    /\ UNCHANGED <<config, asked>>

\* Missing goal context, or constraints in conflict, are asked for at once.
Begin ==
    /\ run.at = "start" /\ Available
    /\ Go("intent") \/ Go("ask")
    /\ KeepTask /\ KeepBudget

\* A model call of the stage leaves.
CallModel ==
    /\ run.at \in Calling
    /\ run.at = "plan" => ~HasCompiled
    /\ \E n \in Reservations : ReserveModel(n)
    /\ UNCHANGED loopVars

\* The ledger refuses the stage's call, or finds that time or tokens ran out.  A
\* review swallows the refusal (ReviewFails).
BudgetStops ==
    /\ call = 0
    /\ \/ run.at \in Calling \ {"review"} /\ (run.at = "plan" => ~HasCompiled)
            /\ \E n \in Reservations : ~AdmitsModel(n)
       \/ run.at \in {"start", "plan", "memory", "end"} /\ ~Available
       \/ run.at = "admit" /\ run.outcome = "answered" /\ ~Available
       \/ run.at = "retrieve" /\ ~Admits("retrieval")
       \/ run.at = "tool" /\ Cardinality(Seen("tool")) < MaxToolCalls /\ ~Admits("tool")
    /\ Exceeded
    /\ KeepTask /\ KeepBudget

\* The intent does not parse: one repair call, then the Run fails with a trace.
IntentInvalid ==
    /\ run.at = "intent" /\ Answers
    /\ IF run.retried THEN Stop("failed", "end")
       ELSE run' = [run EXCEPT !.retried = TRUE]
    /\ KeepTask

\* _prepare_pre_loop_state: the required queries, those of the frozen goal among
\* them, and what is recommended.
ResolveIntent(required, gap, recommended) ==
    /\ run.at = "intent" /\ Answers
    /\ run' = [run EXCEPT !.at = "plan", !.required = required, !.gap = gap,
                          !.recommended = recommended]
    /\ KeepTask

\* _plan_next_action, compiled or proposed by the planner model.
PlanCompiled ==
    /\ run.at = "plan" /\ call = 0 /\ Available /\ HasCompiled
    /\ \E a \in Compiled : PlanOf(a)
    /\ KeepTask /\ KeepBudget

PlanProposed ==
    /\ run.at = "plan" /\ Answers
    /\ \E a \in Proposals : PlanOf(a)
    /\ KeepTask

\* _ask_clarification and decide_interaction: a question, if rounds are left, or
\* a pause.
Ask ==
    /\ run.at = "ask"
    /\ \/ /\ asked < MaxQuestions
          /\ run' = [run EXCEPT !.at = "end", !.outcome = "clarification", !.question = TRUE]
       \/ Stop("refused", "end")
    /\ KeepTask /\ KeepBudget

\* _review_denies: by the policy or the fast path alone, or by the reviewer.
Reviewed == Go("retrieve") \/ Stop("refused", "end")

ReviewByPolicy ==
    /\ run.at = "review" /\ call = 0
    /\ Reviewed
    /\ KeepTask /\ KeepBudget

ReviewByModel ==
    /\ run.at = "review" /\ Answers
    /\ Reviewed
    /\ KeepTask

\* Any exception of the review, BudgetExceeded included, denies the action.
ReviewFails ==
    /\ run.at = "review"
    /\ \/ call = 0 /\ (\E n \in Reservations : ~AdmitsModel(n)) /\ KeepBudget
       \/ CompleteUnknown
    /\ Stop("refused", "end")
    /\ KeepTask

\* One query per binding: before_query, then the query itself.
Query ==
    /\ run.at = "retrieve"
    /\ Consume("retrieval")
    /\ run' = [run EXCEPT !.queried = TRUE]
    /\ KeepTask

\* _observe_knowledge; a policy that denies the retrieval leaves it empty.
Observed(a, got) == Append(run.history, [kind |-> a.kind, key |-> a.key, got |-> got])

Observe(got, gap) ==
    /\ run.at = "retrieve"
    /\ got # "none" => run.queried
    /\ IF run.gap = "none" THEN gap = "none" ELSE gap # "none"
    /\ run' = [run EXCEPT !.at = "plan", !.history = Observed(run.action, got), !.gap = gap,
                          !.action = Refuse, !.queried = FALSE]
    /\ KeepTask /\ KeepBudget

\* A tool proposal: outside the scope, missing an input of the user, denied, or
\* left to an approver.
ToolDeclined ==
    /\ run.at = "tool"
    /\ \/ Stop("refused", "end")
       \/ Go("ask")
       \/ Stop("tool_denied", "end")
       \/ Stop("approval", "end")
    /\ KeepTask /\ KeepBudget

\* _observe_tool: beyond max_tool_calls it raises instead (RunLost).
CallTool ==
    /\ run.at = "tool" /\ Cardinality(Seen("tool")) < MaxToolCalls
    /\ Consume("tool")
    /\ Go("calling")
    /\ KeepTask

ToolReturns ==
    /\ run.at = "calling"
    /\ run' = [run EXCEPT !.at = "plan", !.history = Observed(run.action, "none"),
                          !.action = Refuse]
    /\ KeepTask /\ KeepBudget

\* GENERATE_FINAL_ANSWER: an incomplete Run refuses; a task plan reports its
\* steps; without evidence a tool's result is the answer, or there is none.
Finalize ==
    /\ run.at = "answer" /\ ~StepPending
    /\ \/ Gated /\ ~Complete /\ Stop("refused", "memory")
       \/ /\ Gated => Complete
          /\ \/ config.taskPlan /\ Stop("answered", "admit")
             \/ ~config.taskPlan /\ Stop("refused", "admit")  \* sources not good enough
             \/ ~config.taskPlan /\ HasEvidence /\ Go("draft")
             \/ /\ ~config.taskPlan /\ ~HasEvidence
                /\ Stop(IF Seen("tool") # {} THEN "answered" ELSE "refused", "admit")
    /\ KeepTask /\ KeepBudget

\* generate: the policy may refuse the call.
CallDenied ==
    /\ run.at \in {"draft", "grounding"} /\ call = 0
    /\ Stop("policy_denied", "admit")
    /\ KeepTask /\ KeepBudget

\* The draft overflows the context window: one smaller request per answer.
DraftOverflows ==
    /\ run.at = "draft" /\ ~run.retried /\ CompleteUnknown
    /\ run' = [run EXCEPT !.retried = TRUE]
    /\ KeepTask

\* A draft or a grounding review that fails is repaired once.
Rejected == IF run.repaired THEN Stop("failed", "admit")
            ELSE run' = [run EXCEPT !.at = "draft", !.repaired = TRUE]

\* An admitted draft names the requirements that lack evidence.
Admitted(recovery) == run' = [run EXCEPT !.at = "admit", !.outcome = "answered",
                                         !.recovery = recovery]

DraftWritten(recovery) ==
    /\ run.at = "draft" /\ Answers
    /\ \/ Admitted(recovery)
       \/ Go("grounding")                \* quoted: to be reviewed
       \/ Rejected
       \/ Stop("failed", "admit")        \* unsafe, or nothing to cite: never repaired
    /\ KeepTask

Grounded(recovery) ==
    /\ run.at = "grounding" /\ Answers
    /\ Admitted(recovery) \/ Rejected
    /\ KeepTask

\* Mutant of Recoverable: the recovery does not look at the plan rounds.
RecoverableAlways ==
    /\ run.outcome = "answered" /\ run.recovery # {} /\ run.recovery \subseteq Needs
    /\ run.recovery \ Tried # {} /\ ~config.taskPlan

\* An explicit gap of the answer is retrieved for, without the planner.
Recoverable ==
    /\ run.outcome = "answered" /\ run.recovery # {} /\ run.recovery \subseteq Needs
    /\ run.recovery \ Tried # {}
    /\ Round < MaxPlanRounds /\ ~config.taskPlan

Recover ==
    /\ run.at = "admit" /\ Recoverable
    /\ \E n \in run.recovery \ Tried : Take(Retrieve(n))
    /\ KeepTask /\ KeepBudget

\* _admit_final_answer: assurance, the goal's criteria and the policy.
AdmitFinalAnswer ==
    /\ run.at = "admit" /\ ~Recoverable
    /\ \/ run.outcome # "answered" /\ Go("memory")
       \/ /\ run.outcome = "answered" /\ Available
          /\ \/ Go("memory")
             \/ \E o \in {"refused", "policy_denied"} : Stop(o, "memory")
    /\ KeepTask /\ KeepBudget

\* _write_memory: skipped, denied, or committed while the budget lasts.
WriteMemory ==
    /\ run.at = "memory"
    /\ Go("end")
    /\ KeepTask /\ KeepBudget

\* The last ensure_available of start().
Finish ==
    /\ run.at = "end" /\ Available
    /\ Go("commit")
    /\ KeepTask /\ KeepBudget

\* The workflow_task_update and its commit.  Fields the intent deferred become a
\* question if a round is left, and no answer with them, or with a criterion of
\* the goal unsatisfied, completes the task.  Asking what the revision asked
\* before changes neither the questions nor the phase.
Commit(deferred, satisfied) ==
    /\ run.at = "commit"
    /\ Settle
    /\ run' = Idle
    /\ IF run.question \/ (run.outcome = "answered" /\ deferred /\ asked < MaxQuestions)
       THEN \/ asked' = asked + 1 /\ phase' = "waiting_for_input"
            \/ UNCHANGED <<asked, phase>>
       ELSE /\ phase' = IF run.outcome = "answered" /\ satisfied /\ ~deferred
                        THEN "complete" ELSE "paused"
            /\ UNCHANGED asked
    /\ UNCHANGED <<config, runs>>

\* Any other exception, a cancellation or the death of the executor: the Run
\* fails and its task is paused.
RunLost ==
    /\ run.at # "idle"
    /\ Lose
    /\ run' = Idle
    /\ phase' = "paused"
    /\ UNCHANGED <<config, asked, runs>>

ClockRunsOut == TimeRunsOut /\ UNCHANGED loopVars
-----------------------------------------------------------------------------
Next ==
    \/ Start \/ Begin \/ CallModel \/ BudgetStops
    \/ IntentInvalid
    \/ \E required \in SUBSET Queries, gap \in {"none", "open"},
          recommended \in {"retrieve", "tool", "ask", "refuse"} :
         ResolveIntent(required, gap, recommended)
    \/ PlanCompiled \/ PlanProposed \/ Ask
    \/ ReviewByPolicy \/ ReviewByModel \/ ReviewFails
    \/ Query
    \/ \E got \in {"none", "uncited", "cited"}, gap \in {"none", "open", "closed"} : Observe(got, gap)
    \/ ToolDeclined \/ CallTool \/ ToolReturns
    \/ Finalize \/ CallDenied \/ DraftOverflows
    \/ \E recovery \in SUBSET (Needs \cup {Other}) : DraftWritten(recovery) \/ Grounded(recovery)
    \/ Recover \/ AdmitFinalAnswer \/ WriteMemory \/ Finish
    \/ \E deferred, satisfied \in BOOLEAN : Commit(deferred, satisfied)
    \/ RunLost \/ ClockRunsOut

Spec == Init /\ [][Next]_vars
-----------------------------------------------------------------------------
\* An answer, from the moment it is synthesized until it is committed, rests on
\* evidence or a tool's result; every required query has cited evidence of its own
\* (an attempt is not coverage), no gap of a comparison is open, and every step of
\* a task plan was executed.
AnswerSupported ==
    run.outcome = "answered" =>
      /\ HasEvidence \/ Seen("tool") # {}
      /\ \A q \in run.required :
           \E i \in 1 .. Round : run.history[i].key = q /\ run.history[i].got = "cited"
      /\ Gated => run.gap # "open"
      /\ config.taskPlan => \A s \in DOMAIN Steps :
           \E i \in Seen("tool") : run.history[i].key = Steps[s]

\* The loop ends whatever models and reviewers say, the recovery of an answer's gap
\* included, which bypasses the planner's gate: no Run observes more often than its
\* plan rounds, calls more tools than it may, or retrieves the same query twice.
LoopBounded ==
    /\ Round <= MaxPlanRounds
    /\ Cardinality(Seen("tool")) <= MaxToolCalls
    /\ \A i, j \in Seen("retrieve") : run.history[i].key = run.history[j].key => i = j
=============================================================================
