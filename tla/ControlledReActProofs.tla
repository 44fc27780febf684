----------------------- MODULE ControlledReActProofs -----------------------
(***************************************************************************)
(* The orchestrator keeps the budget of its task: each of its steps is a   *)
(* step of ExecutionBudget, or leaves the budget alone.                    *)
(*                                                                         *)
(* The loop is bounded, because what is about to be observed was decided   *)
(* while a plan round was left, and for a query that was not tried yet.    *)
(* An answer is supported, because nothing the completion gate looks at    *)
(* changes between the gate and the commit of the answer.                  *)
(***************************************************************************)
EXTENDS ControlledReAct, ExecutionBudgetProofs, FiniteSetTheorems

\* A model call starts by its reservation, and ends by what it is charged.
LEMMA CallSteps == CallModel \/ Answers \/ CompleteUnknown => BudgetNext
  BY DEF CallModel, Answers, BudgetNext

\* The stages that ask a model.
LEMMA ModelStages ==
  ASSUME NEW required, NEW gap, NEW recommended, NEW recovery,
         \/ IntentInvalid \/ ResolveIntent(required, gap, recommended)
         \/ PlanProposed \/ ReviewByModel \/ DraftOverflows
         \/ DraftWritten(recovery) \/ Grounded(recovery)
  PROVE  BudgetNext
  BY CallSteps
  DEF IntentInvalid, ResolveIntent, PlanProposed, ReviewByModel, DraftOverflows, DraftWritten,
      Grounded

\* The stages that decide without one.
LEMMA FreeStages ==
  ASSUME NEW got, NEW gap,
         \/ Begin \/ BudgetStops \/ PlanCompiled \/ Ask \/ ReviewByPolicy \/ Observe(got, gap)
         \/ ToolDeclined \/ ToolReturns \/ Finalize \/ CallDenied \/ Recover
         \/ AdmitFinalAnswer \/ WriteMemory \/ Finish
  PROVE  UNCHANGED budgetVars
  BY DEF Begin, BudgetStops, PlanCompiled, Ask, ReviewByPolicy, Observe, ToolDeclined, ToolReturns,
         Finalize, CallDenied, Recover, AdmitFinalAnswer, WriteMemory, Finish, KeepBudget

\* Every step of the orchestrator is a step of its budget, or none.
LEMMA LoopStep == [Next]_vars => [BudgetNext]_budgetVars
  <1>. SUFFICES ASSUME [Next]_vars PROVE [BudgetNext]_budgetVars
    OBVIOUS
  <1>1. CASE Start \/ RunLost \/ ClockRunsOut
    BY <1>1 DEF Start, RunLost, ClockRunsOut, BudgetNext
  <1>2. CASE CallModel
    BY <1>2, CallSteps
  <1>3. CASE Query \/ CallTool
    BY <1>3 DEF Query, CallTool, BudgetNext
  <1>4. CASE ReviewFails
    BY <1>4, CallSteps DEF ReviewFails, KeepBudget
  <1>5. CASE \/ IntentInvalid \/ PlanProposed \/ ReviewByModel \/ DraftOverflows
    BY <1>5, ModelStages
  <1>6. CASE \E required \in SUBSET Queries, gap \in {"none", "open"},
                recommended \in {"retrieve", "tool", "ask", "refuse"} :
               ResolveIntent(required, gap, recommended)
    BY <1>6, ModelStages
  <1>7. CASE \E recovery \in SUBSET (Needs \cup {Other}) :
               DraftWritten(recovery) \/ Grounded(recovery)
    BY <1>7, ModelStages
  <1>8. CASE \E got \in {"none", "uncited", "cited"}, gap \in {"none", "open", "closed"} :
               Observe(got, gap)
    BY <1>8, FreeStages
  <1>9. CASE \/ Begin \/ BudgetStops \/ PlanCompiled \/ Ask \/ ReviewByPolicy
             \/ ToolDeclined \/ ToolReturns \/ Finalize \/ CallDenied \/ Recover
             \/ AdmitFinalAnswer \/ WriteMemory \/ Finish
    BY <1>9, FreeStages
  <1>10. CASE \E deferred, satisfied \in BOOLEAN : Commit(deferred, satisfied)
    BY <1>10 DEF Commit, BudgetNext
  <1>11. CASE UNCHANGED vars
    BY <1>11 DEF vars
  <1>. QED BY <1>1, <1>2, <1>3, <1>4, <1>5, <1>6, <1>7, <1>8, <1>9, <1>10, <1>11 DEF Next

\* The orchestrator implements the budget.
THEOREM LoopKeepsBudget == Spec => BudgetSpec
  <1>1. Init => BudgetInit
    BY DEF Init
  <1>. QED BY <1>1, LoopStep, PTL DEF Spec, BudgetSpec

\* The loop's calls and their cost stay within the task's budget, over all its Runs.
THEOREM LoopBudgetHolds == Spec => []BudgetHolds
  BY LoopKeepsBudget, TaskBudgetHolds, PTL
-----------------------------------------------------------------------------
(* The shape of a Run. *)

\* A question that was asked is one of the rounds left.
Shape == /\ config \in Config /\ run \in Run
         /\ phase \in {"active", "waiting_for_input", "paused", "complete"}
         /\ asked \in 0 .. MaxQuestions /\ runs \in 0 .. MaxRuns
         /\ run.question => asked < MaxQuestions

LEMMA ActionKindsTyped ==
  /\ \A q \in Queries \cup Needs : Retrieve(q) \in Action /\ Retrieve(q).kind = "retrieve"
                                    /\ Retrieve(q).key = q
  /\ \A k \in {"answer", "ask", "refuse"} : [kind |-> k] \in Action
  /\ Refuse \in Action /\ Refuse.kind = "refuse"
  BY SMT DEF Action, Retrieve, Refuse

LEMMA ActionKindOf == \A a \in Action : a.kind \in ActionKinds
  BY SMT DEF Action, ActionKinds

LEMMA IdleShape == Idle \in Run /\ [Idle EXCEPT !.at = "start"] \in Run
  <1>1. <<>> \in Seq(Observation)
    OBVIOUS
  <1>2. Refuse \in Action
    BY ActionKindsTyped
  <1>3. {"idle", "start"} \subseteq Places /\ "none" \in Outcomes
    BY DEF Places, Outcomes
  <1>4. Idle \in Run
    BY <1>1, <1>2, <1>3 DEF Idle, Run
  <1>5. [Idle EXCEPT !.at = "start"] \in Run
    BY <1>3, <1>4 DEF Run
  <1>. QED BY <1>4, <1>5
-----------------------------------------------------------------------------
(* What the plan decides. *)

LEMMA RoundsTyped == Shape => Round \in Nat /\ MaxPlanRounds \in Nat
  BY LoopAssumption DEF Shape, Run, Round

\* The eligible set allows an observation only while a plan round is left.
LEMMA EligibleRounds ==
  ASSUME Shape, NEW scope, "retrieve" \in Eligible(scope) \/ "tool" \in Eligible(scope)
  PROVE  Round < MaxPlanRounds
  BY RoundsTyped, SMT DEF Eligible, ActionKinds

LEMMA EligibleRetrieval ==
  ASSUME Shape, NEW scope, Gated, "retrieve" \in Eligible(scope)
  PROVE  ~Complete
  BY RoundsTyped, SMT DEF Eligible

LEMMA PendingNew == Pending \cap Tried = {}
  BY DEF Pending

LEMMA PendingTyped == Shape => Pending \subseteq Queries
  BY LoopAssumption DEF Pending, Shape, Run

\* What the plan's checks make of a proposal: an observation is one that a plan
\* round is left for, a query that was not tried, the next step of a task plan.
Sound(c) ==
  /\ c \in Action
  /\ c.kind \in {"retrieve", "tool"} => Round < MaxPlanRounds
  /\ c.kind = "retrieve" => c.key \notin Tried
  /\ config.taskPlan /\ c.kind = "tool" => c.key = Steps[StepsDone + 1]

LEMMA RefuseSound == Sound(Refuse)
  BY ActionKindsTyped DEF Sound

LEMMA PendingSound ==
  ASSUME Shape, Round < MaxPlanRounds, NEW q \in Pending
  PROVE  Sound(Retrieve(q))
  BY ActionKindsTyped, PendingNew, PendingTyped DEF Sound

LEMMA StepTyped ==
  ASSUME Shape, StepPending
  PROVE  [kind |-> "tool", key |-> Steps[StepsDone + 1]] \in Action
  <1>1. Steps \in Seq({Steps[i] : i \in DOMAIN Steps})
    BY LoopAssumption
  <1>2. StepsDone \in Nat
    <2>1. IsFiniteSet(Seen("tool"))
      <3>1. IsFiniteSet(1 .. Round)
        BY RoundsTyped, FS_Interval
      <3>. QED BY <3>1, FS_Subset DEF Seen
    <2>. QED BY <2>1, FS_CardinalityType DEF StepsDone
  <1>3. StepsDone + 1 \in DOMAIN Steps
    BY <1>1, <1>2, SMT DEF StepPending
  <1>. QED BY <1>3, SMT DEF Action

LEMMA TaskActionSound ==
  ASSUME Shape, NEW scope, NEW c \in TaskAction(scope)
  PROVE  Sound(c)
  <1>1. CASE c = Refuse
    BY <1>1, RefuseSound
  <1>2. CASE Round < MaxPlanRounds /\ c \in {Retrieve(q) : q \in Pending}
    BY <1>2, PendingSound
  <1>3. CASE /\ Round < MaxPlanRounds /\ StepPending
             /\ c = [kind |-> "tool", key |-> Steps[StepsDone + 1]]
    <2>1. c.kind = "tool" /\ c.key = Steps[StepsDone + 1]
      BY <1>3
    <2>. QED BY <1>3, <2>1, StepTyped DEF Sound
  <1>. QED BY <1>1, <1>2, <1>3 DEF TaskAction

\* A proposal that stays as it is.
LEMMA KeptSound ==
  ASSUME Shape, NEW scope, NEW a \in Action, ~Planned(a), a.kind \in Eligible(scope), ~Duplicate(a)
  PROVE  Sound(a)
  <1>1. a.kind \in {"retrieve", "tool"} => Round < MaxPlanRounds
    BY EligibleRounds
  <1>2. a.kind = "retrieve" => a.key \notin Tried
    BY DEF Duplicate, Tried, Seen
  <1>3. ~(config.taskPlan /\ a.kind = "tool")
    BY DEF Planned
  <1>. QED BY <1>1, <1>2, <1>3 DEF Sound

LEMMA TerminalSound == \A k \in {"answer", "ask", "refuse"} : Sound([kind |-> k])
  BY ActionKindsTyped DEF Sound

LEMMA ConstrainedSound ==
  ASSUME Shape, NEW scope, NEW a \in Action, NEW c \in Constrained(a, scope)
  PROVE  Sound(c)
  <1>1. CASE Planned(a)
    BY <1>1, TaskActionSound DEF Constrained
  <1>2. CASE ~Planned(a) /\ Gated /\ a.kind \in {"refuse", "ask"}
    <2>1. ~Displaced(a, scope)
      BY <1>2 DEF Displaced
    <2>2. c = a
      BY <1>2, <2>1 DEF Constrained
    <2>. QED BY <1>2, <2>2 DEF Sound
  <1>3. CASE ~Planned(a) /\ ~(Gated /\ a.kind \in {"refuse", "ask"}) /\ Displaced(a, scope)
    <2>1. c \in {Retrieve(q) : q \in Pending}
      BY <1>3 DEF Constrained
    <2>2. Round < MaxPlanRounds
      BY <1>3, EligibleRounds DEF Displaced
    <2>. QED BY <2>1, <2>2, PendingSound
  <1>4. CASE ~Planned(a) /\ ~(Gated /\ a.kind \in {"refuse", "ask"}) /\ ~Displaced(a, scope)
    <2>1. c = Refuse \/ (c = InSet(a, scope) /\ ~Duplicate(InSet(a, scope)))
      BY <1>4 DEF Constrained
    <2>2. CASE c = Refuse
      BY <2>2, RefuseSound
    <2>3. CASE c = InSet(a, scope) /\ ~Duplicate(c) /\ a.kind \in Eligible(scope)
      BY <1>4, <2>3, KeptSound DEF InSet
    <2>4. CASE c = InSet(a, scope) /\ a.kind \notin Eligible(scope)
      BY <2>4, TerminalSound DEF InSet
    <2>. QED BY <2>1, <2>2, <2>3, <2>4
  <1>. QED BY <1>1, <1>2, <1>3, <1>4

\* A step that decides takes a sound action.
LEMMA PlanSound ==
  ASSUME Shape, NEW a \in Action, PlanOf(a)
  PROVE  \E c \in Action : Sound(c) /\ Take(c)
  <1>1. PICK scope, b, c : /\ b \in {a} \cup (IF a.kind = "ask" THEN {[kind |-> "answer"]} ELSE {})
                           /\ c \in Constrained(b, scope) /\ Take(c)
    BY DEF PlanOf
  <1>2. b \in Action
    BY <1>1, ActionKindsTyped
  <1>3. Sound(c)
    BY <1>1, <1>2, ConstrainedSound
  <1>. QED BY <1>1, <1>3 DEF Sound

LEMMA CompiledTyped == Shape => Compiled \subseteq Action
  BY ActionKindsTyped, PendingTyped DEF Compiled

LEMMA ProposalsTyped == Proposals \subseteq Action
  BY ActionKindsTyped DEF Proposals, Action

\* The decisions of the loop: by the compiled plan, the planner or the recovery.
LEMMA DecisionSound ==
  ASSUME Shape, PlanCompiled \/ PlanProposed \/ Recover
  PROVE  \E c \in Action : Sound(c) /\ Take(c)
  <1>1. CASE PlanCompiled
    BY <1>1, CompiledTyped, PlanSound DEF PlanCompiled
  <1>2. CASE PlanProposed
    BY <1>2, ProposalsTyped, PlanSound DEF PlanProposed
  <1>3. CASE Recover
    <2>1. PICK n \in run.recovery \ Tried : Take(Retrieve(n))
      BY <1>3 DEF Recover
    <2>2. n \in Needs /\ Round < MaxPlanRounds
      BY <1>3 DEF Recover, Recoverable
    <2>3. Sound(Retrieve(n))
      BY <2>2, ActionKindsTyped DEF Sound
    <2>. QED BY <2>1, <2>3 DEF Sound
  <1>. QED BY <1>1, <1>2, <1>3
-----------------------------------------------------------------------------
(* Steps that stay in the Run: they keep what it observed and what it requires. *)

\* From the intent's result to the end of the loop.
Kept == /\ run' \in Run
        /\ run'.history = run.history /\ run'.required = run.required
        /\ run'.gap = run.gap /\ run'.action = run.action
        /\ run'.question => run.question \/ asked < MaxQuestions
        /\ config' = config

LEMMA GoKeeps ==
  ASSUME Shape, config' = config, NEW place \in Places, Go(place)
  PROVE  Kept /\ run'.at = place /\ run'.outcome = run.outcome
  BY DEF Shape, Go, Kept, Run

LEMMA StopKeeps ==
  ASSUME Shape, config' = config, NEW place \in Places, NEW o \in Outcomes, Stop(o, place)
  PROVE  Kept /\ run'.at = place /\ run'.outcome = o
  BY DEF Shape, Stop, Kept, Run

\* What the completion gate has seen of an answer under way.
Answerable ==
  \/ run.at \in {"draft", "grounding"}
  \/ /\ run.at = "answer" /\ ~StepPending /\ (Gated => Complete)
     /\ config.taskPlan \/ Seen("tool") # {}

\* Only the last places of a Run know an answer.
Ends == run.outcome = "answered" => run.at \in {"admit", "memory", "end", "commit"}

Done == Cardinality(Seen("tool"))

\* A step within the Run: where it may lead, and from where.
Move ==
  /\ Kept
  /\ run'.outcome = "answered" =>
       \/ run.outcome = "answered" /\ run'.at \in {"memory", "end", "commit"}
       \/ Answerable /\ run'.at = "admit"
  /\ run'.at = "retrieve" => run.at \in {"review", "retrieve"}
  /\ run'.at \notin {"review", "tool"}
  /\ run'.at = "calling" => run.at = "tool" /\ Done < MaxToolCalls
  /\ run'.at \in {"draft", "grounding"} =>
       \/ run.at \in {"draft", "grounding"}
       \/ run.at = "answer" /\ ~config.taskPlan /\ HasEvidence /\ (Gated => Complete)

\* A stage that ends the loop, or gives the turn to a stage without obligations.
LEMMA StopMoves ==
  ASSUME Shape, config' = config, NEW place \in Places, NEW o \in Outcomes, Stop(o, place),
         place \in {"admit", "memory", "end"}, o # "answered"
  PROVE  Move
  BY StopKeeps DEF Move

LEMMA GoMoves ==
  ASSUME Shape, Ends, config' = config, NEW place \in Places, Go(place),
         \/ place \in {"intent", "ask"} /\ run.at \in {"start", "tool"}
         \/ place \in {"memory", "end", "commit"}
         \/ place = "retrieve" /\ run.at = "review"
         \/ place = "grounding" /\ run.at = "draft"
         \/ place = "calling" /\ run.at = "tool" /\ Done < MaxToolCalls
         \/ /\ place = "draft" /\ run.at = "answer" /\ ~config.taskPlan
            /\ HasEvidence /\ (Gated => Complete)
  PROVE  Move
  BY GoKeeps DEF Move, Ends

LEMMA Names ==
  /\ Places = {"idle", "start", "intent", "plan", "ask", "review", "retrieve", "tool",
               "calling", "answer", "draft", "grounding", "admit", "memory", "end", "commit"}
  /\ Outcomes = {"none", "answered", "refused", "clarification", "approval",
                 "tool_denied", "policy_denied", "failed"}
  BY DEF Places, Outcomes

LEMMA AdmittedMoves ==
  ASSUME Shape, config' = config, NEW recovery \in SUBSET (Needs \cup {Other}),
         Admitted(recovery), run.at \in {"draft", "grounding"}
  PROVE  Move
  <1>1. "admit" \in Places /\ "answered" \in Outcomes
    BY Names
  <1>2. Kept /\ run'.at = "admit"
    BY <1>1 DEF Admitted, Kept, Shape, Run
  <1>. QED BY <1>2 DEF Move, Answerable

LEMMA RejectedMoves ==
  ASSUME Shape, Ends, config' = config, Rejected, run.at \in {"draft", "grounding"}
  PROVE  Move
  <1>1. CASE Stop("failed", "admit")
    BY <1>1, StopMoves, Names
  <1>2. CASE run' = [run EXCEPT !.at = "draft", !.repaired = TRUE]
    <2>1. Kept /\ run'.at = "draft" /\ run'.outcome = run.outcome
      BY <1>2, Names DEF Kept, Shape, Run
    <2>. QED BY <2>1 DEF Move, Ends
  <1>. QED BY <1>1, <1>2 DEF Rejected

\* The places before the answer.
LEMMA EarlyMoves ==
  ASSUME Shape, Ends,
         \/ Begin \/ IntentInvalid \/ Ask \/ ReviewByPolicy \/ ReviewByModel \/ ReviewFails
         \/ Query \/ ToolDeclined \/ CallTool
  PROVE  Move
  <1>. USE Names
  <1>1. CASE Begin
    BY <1>1, GoMoves DEF Begin, KeepTask
  <1>2. CASE IntentInvalid
    <2>1. CASE Stop("failed", "end")
      BY <1>2, <2>1, StopMoves DEF IntentInvalid, KeepTask
    <2>2. CASE run' = [run EXCEPT !.retried = TRUE]
      <3>1. Kept /\ run'.at = "intent" /\ run'.outcome = run.outcome /\ run.at = "intent"
        BY <1>2, <2>2 DEF IntentInvalid, KeepTask, Kept, Shape, Run
      <3>. QED BY <3>1 DEF Move, Ends
    <2>. QED BY <1>2, <2>1, <2>2 DEF IntentInvalid
  <1>3. CASE Ask
    <2>1. CASE Stop("refused", "end")
      BY <1>3, <2>1, StopMoves DEF Ask, KeepTask
    <2>2. CASE /\ asked < MaxQuestions
               /\ run' = [run EXCEPT !.at = "end", !.outcome = "clarification", !.question = TRUE]
      <3>1. Kept /\ run'.at = "end" /\ run'.outcome = "clarification"
        BY <1>3, <2>2 DEF Ask, KeepTask, Kept, Shape, Run
      <3>. QED BY <3>1 DEF Move
    <2>. QED BY <1>3, <2>1, <2>2 DEF Ask
  <1>4. CASE ReviewByPolicy \/ ReviewByModel
    <2>1. run.at = "review" /\ config' = config /\ (Go("retrieve") \/ Stop("refused", "end"))
      BY <1>4 DEF ReviewByPolicy, ReviewByModel, Reviewed, KeepTask
    <2>. QED BY <2>1, GoMoves, StopMoves
  <1>5. CASE ReviewFails
    BY <1>5, StopMoves DEF ReviewFails, KeepTask
  <1>6. CASE Query
    <2>1. Kept /\ run'.at = "retrieve" /\ run'.outcome = run.outcome /\ run.at = "retrieve"
      BY <1>6 DEF Query, KeepTask, Kept, Shape, Run
    <2>. QED BY <2>1 DEF Move, Ends
  <1>7. CASE ToolDeclined
    BY <1>7, GoMoves, StopMoves DEF ToolDeclined, KeepTask
  <1>8. CASE CallTool
    BY <1>8, GoMoves DEF CallTool, KeepTask, Done
  <1>. QED BY <1>1, <1>2, <1>3, <1>4, <1>5, <1>6, <1>7, <1>8

\* The answer, its repairs and the end of a Run.
LEMMA AnswerMoves ==
  ASSUME Shape, Ends, NEW recovery \in SUBSET (Needs \cup {Other}),
         \/ Finalize \/ CallDenied \/ DraftOverflows \/ DraftWritten(recovery)
         \/ Grounded(recovery) \/ AdmitFinalAnswer \/ WriteMemory \/ Finish \/ BudgetStops
  PROVE  Move
  <1>. USE Names
  <1>1. CASE Finalize
    <2>1. run.at = "answer" /\ ~StepPending /\ config' = config
      BY <1>1 DEF Finalize, KeepTask
    <2>2. CASE Stop("refused", "memory") \/ Stop("refused", "admit")
      BY <2>1, <2>2, StopMoves
    <2>3. CASE (Gated => Complete) /\ ~config.taskPlan /\ HasEvidence /\ Go("draft")
      BY <2>1, <2>3, GoMoves
    <2>4. CASE /\ Gated => Complete
               /\ config.taskPlan \/ Seen("tool") # {}
               /\ Stop("answered", "admit")
      <3>1. Kept /\ run'.at = "admit"
        BY <2>1, <2>4, StopKeeps
      <3>. QED BY <2>1, <2>4, <3>1 DEF Move, Answerable
    <2>. QED BY <1>1, <2>2, <2>3, <2>4 DEF Finalize
  <1>2. CASE CallDenied
    BY <1>2, StopMoves DEF CallDenied, KeepTask
  <1>3. CASE DraftOverflows
    <2>1. Kept /\ run'.at = "draft" /\ run'.outcome = run.outcome /\ run.at = "draft"
      BY <1>3 DEF DraftOverflows, KeepTask, Kept, Shape, Run
    <2>. QED BY <2>1 DEF Move, Ends
  <1>4. CASE DraftWritten(recovery)
    BY <1>4, AdmittedMoves, RejectedMoves, GoMoves, StopMoves DEF DraftWritten, KeepTask
  <1>5. CASE Grounded(recovery)
    BY <1>5, AdmittedMoves, RejectedMoves DEF Grounded, KeepTask
  <1>6. CASE AdmitFinalAnswer
    BY <1>6, GoMoves, StopMoves DEF AdmitFinalAnswer, KeepTask
  <1>7. CASE WriteMemory \/ Finish
    BY <1>7, GoMoves DEF WriteMemory, Finish, KeepTask
  <1>8. CASE BudgetStops
    <2>1. Kept /\ run'.at = "commit" /\ run'.outcome = "refused"
      BY <1>8 DEF BudgetStops, Exceeded, KeepTask, Kept, Shape, Run
    <2>. QED BY <2>1 DEF Move
  <1>. QED BY <1>1, <1>2, <1>3, <1>4, <1>5, <1>6, <1>7, <1>8
-----------------------------------------------------------------------------
(* The invariant. *)

\* What is about to be observed.
Observing ==
  /\ run.at \in {"review", "retrieve"} =>
       run.action.kind = "retrieve" /\ Round < MaxPlanRounds /\ run.action.key \notin Tried
  /\ run.at \in {"tool", "calling"} =>
       /\ run.action.kind = "tool" /\ Round < MaxPlanRounds
       /\ config.taskPlan => run.action.key = Steps[Done + 1]
  /\ run.at = "calling" => Done < MaxToolCalls

\* What an answer under way rests on.
Drafting == run.at \in {"draft", "grounding"} =>
              ~config.taskPlan /\ HasEvidence /\ (Gated => Complete)

\* The first Done steps of a task plan were executed.
InOrder == config.taskPlan =>
             \A s \in DOMAIN Steps : s <= Done =>
               \E i \in Seen("tool") : run.history[i].key = Steps[s]

LoopInv == /\ Shape /\ Ends /\ Observing /\ Drafting /\ InOrder
           /\ LoopBounded /\ AnswerSupported

LEMMA SeenFinite ==
  ASSUME Shape, NEW kind
  PROVE  IsFiniteSet(Seen(kind)) /\ Cardinality(Seen(kind)) \in Nat
  <1>1. IsFiniteSet(1 .. Round)
    BY RoundsTyped, FS_Interval
  <1>2. IsFiniteSet(Seen(kind))
    BY <1>1, FS_Subset DEF Seen
  <1>. QED BY <1>2, FS_CardinalityType

\* What the invariant says of a Run depends on these.
LEMMA SameHistory ==
  ASSUME run'.history = run.history
  PROVE  /\ Round' = Round /\ Tried' = Tried /\ HasEvidence' = HasEvidence
         /\ Supported' = Supported
         /\ Seen("tool")' = Seen("tool") /\ Seen("retrieve")' = Seen("retrieve")
         /\ Done' = Done
  <1>1. Round' = Round
    BY DEF Round
  <1>2. \A kind : Seen(kind)' = Seen(kind)
    BY <1>1 DEF Seen
  <1>. QED BY <1>1, <1>2 DEF Tried, HasEvidence, Supported, Done

\* An answer that the gate let pass is supported.
LEMMA AnswerableSupported ==
  ASSUME LoopInv, Answerable
  PROVE  /\ HasEvidence \/ Seen("tool") # {}
         /\ \A q \in run.required :
              \E i \in 1 .. Round : run.history[i].key = q /\ run.history[i].got = "cited"
         /\ Gated => run.gap # "open"
         /\ config.taskPlan => \A s \in DOMAIN Steps :
              \E i \in Seen("tool") : run.history[i].key = Steps[s]
  <1>1. Gated => Complete
    BY DEF LoopInv, Answerable, Drafting
  <1>2. run.required \subseteq Supported
    BY <1>1 DEF Gated, Complete
  <1>3. \A q \in Supported :
          \E i \in 1 .. Round : run.history[i].key = q /\ run.history[i].got = "cited"
    BY DEF Supported, Seen
  <1>4. Gated => run.gap # "open"
    BY <1>1 DEF Complete
  <1>5. config.taskPlan => Done \in Nat /\ Done >= Len(Steps)
    <2>1. SUFFICES ASSUME config.taskPlan PROVE Done \in Nat /\ Done >= Len(Steps)
      OBVIOUS
    <2>2. ~StepPending
      BY <2>1 DEF LoopInv, Answerable, Drafting
    <2>3. Done \in Nat /\ Len(Steps) \in Nat
      BY SeenFinite, LoopAssumption DEF LoopInv, Done
    <2>. QED BY <2>1, <2>2, <2>3, SMT DEF StepPending, StepsDone, Done
  <1>6. DOMAIN Steps = 1 .. Len(Steps) /\ Len(Steps) \in Nat /\ Len(Steps) > 0
    BY LoopAssumption
  <1>7. config.taskPlan => \A s \in DOMAIN Steps :
          \E i \in Seen("tool") : run.history[i].key = Steps[s]
    BY <1>5, <1>6, SMT DEF LoopInv, InOrder
  <1>8. HasEvidence \/ Seen("tool") # {}
    BY <1>6, <1>7 DEF LoopInv, Answerable, Drafting
  <1>. QED BY <1>2, <1>3, <1>4, <1>7, <1>8

\* The parts that depend on the history alone.
LEMMA SameBounds ==
  ASSUME LoopInv, run'.history = run.history, config' = config
  PROVE  LoopBounded' /\ InOrder'
  BY SameHistory DEF LoopInv, LoopBounded, InOrder

LEMMA MoveInv ==
  ASSUME LoopInv, Move, UNCHANGED <<phase, asked, runs>>
  PROVE  LoopInv'
  <1>. USE DEF LoopInv
  <1>1. /\ run'.history = run.history /\ run'.required = run.required /\ run'.gap = run.gap
        /\ run'.action = run.action /\ config' = config
    BY DEF Move, Kept
  <1>2. Shape'
    BY DEF Move, Kept, Shape
  <1>3. Ends'
    BY DEF Move, Ends
  <1>4. Observing'
    <2>1. run'.at = "retrieve" => run.at \in {"review", "retrieve"}
      BY DEF Move
    <2>2. run'.at = "calling" => run.at = "tool" /\ Done < MaxToolCalls
      BY DEF Move
    <2>3. run'.at \notin {"review", "tool"}
      BY DEF Move
    <2>. QED BY <1>1, <2>1, <2>2, <2>3, SameHistory DEF Observing
  <1>5. Gated' = Gated /\ Complete' = Complete
    BY <1>1, SameHistory DEF Gated, Complete
  <1>6. Drafting'
    BY <1>1, <1>5, SameHistory DEF Move, Drafting
  <1>7. LoopBounded' /\ InOrder'
    BY <1>1, SameBounds
  <1>8. AnswerSupported'
    <2>1. CASE run'.outcome # "answered"
      BY <2>1 DEF AnswerSupported
    <2>2. CASE run.outcome = "answered"
      BY <1>1, <1>5, <2>2, SameHistory DEF AnswerSupported
    <2>3. CASE Answerable
      BY <1>1, <1>5, <2>3, SameHistory, AnswerableSupported DEF AnswerSupported
    <2>. QED BY <2>1, <2>2, <2>3 DEF Move
  <1>. QED BY <1>2, <1>3, <1>4, <1>6, <1>7, <1>8

LEMMA TakeInv ==
  ASSUME LoopInv, NEW c \in Action, Sound(c), Take(c), UNCHANGED <<config, phase, asked, runs>>
  PROVE  LoopInv'
  <1>. USE DEF LoopInv
  <1>1. c.kind \in ActionKinds /\ Stage(c.kind) \in {"memory", "ask", "answer", "review", "tool"}
    BY ActionKindOf DEF ActionKinds, Stage
  <1>2. /\ Stage(c.kind) = "review" => c.kind = "retrieve"
        /\ Stage(c.kind) = "tool" => c.kind = "tool"
    BY <1>1 DEF ActionKinds, Stage
  <1>3. /\ run' \in Run /\ run'.at = Stage(c.kind) /\ run'.action = c
        /\ run'.history = run.history /\ run'.outcome # "answered"
        /\ run'.question = run.question
    <2>1. PICK o \in {"refused", "none"}, at \in {"memory", "ask", "answer", "review", "tool"} :
            /\ at = Stage(c.kind)
            /\ run' = [run EXCEPT !.at = at, !.action = c, !.queried = FALSE, !.retried = FALSE,
                                  !.repaired = FALSE, !.recovery = {}, !.outcome = o]
      BY <1>1 DEF Take
    <2>2. run \in Run /\ o \in Outcomes /\ at \in Places
      BY Names DEF Shape
    <2>3. run' \in Run
      BY <2>1, <2>2 DEF Run
    <2>. QED BY <2>1, <2>2, <2>3 DEF Run
  <1>4. Shape'
    BY <1>3 DEF Shape
  <1>5. Observing'
    <2>1. config.taskPlan => StepsDone = Done
      BY DEF StepsDone, Done
    <2>. QED BY <1>1, <1>2, <1>3, <2>1, SameHistory DEF Sound, Observing
  <1>6. Ends' /\ Drafting' /\ AnswerSupported'
    BY <1>1, <1>3 DEF Ends, Drafting, AnswerSupported
  <1>. QED BY <1>3, <1>4, <1>5, <1>6, SameBounds

\* A Run that starts or is over.
LEMMA IdleInv ==
  ASSUME Shape', run'.history = <<>>, run'.outcome = "none", run'.at \in {"idle", "start"}
  PROVE  LoopInv'
  <1>1. Round' = 0 /\ Seen("tool")' = {} /\ Seen("retrieve")' = {}
    BY DEF Round, Seen
  <1>2. Done' = 0
    BY <1>1, FS_EmptySet DEF Done
  <1>3. LoopBounded'
    BY <1>1, <1>2, LoopAssumption DEF LoopBounded, Done
  <1>4. InOrder'
    BY <1>2, LoopAssumption DEF InOrder
  <1>5. Ends' /\ Observing' /\ Drafting' /\ AnswerSupported'
    BY DEF Ends, Observing, Drafting, AnswerSupported
  <1>. QED BY <1>3, <1>4, <1>5 DEF LoopInv

LEMMA IntentInv ==
  ASSUME LoopInv, NEW required \in SUBSET Queries, NEW gap \in {"none", "open"},
         NEW recommended \in {"retrieve", "tool", "ask", "refuse"},
         ResolveIntent(required, gap, recommended)
  PROVE  LoopInv'
  <1>. USE DEF LoopInv
  <1>1. /\ run' \in Run /\ run'.at = "plan" /\ run'.history = run.history
        /\ run'.outcome = run.outcome /\ run'.question = run.question /\ run.at = "intent"
        /\ UNCHANGED <<config, phase, asked, runs>>
    BY Names DEF ResolveIntent, KeepTask, Shape, Run
  <1>2. Shape'
    BY <1>1 DEF Shape
  <1>3. Ends' /\ Observing' /\ Drafting' /\ AnswerSupported'
    BY <1>1 DEF Ends, Observing, Drafting, AnswerSupported
  <1>. QED BY <1>1, <1>2, <1>3, SameBounds

\* One more observation.
LEMMA OneMore ==
  ASSUME Shape, NEW obs \in Observation, run'.history = Append(run.history, obs)
  PROVE  /\ Round' = Round + 1
         /\ \A i \in 1 .. Round : run'.history[i] = run.history[i]
         /\ run'.history[Round + 1] = obs
         /\ \A kind : /\ Round + 1 \notin Seen(kind)
                      /\ obs.kind = kind => Seen(kind)' = Seen(kind) \cup {Round + 1}
                      /\ obs.kind # kind => Seen(kind)' = Seen(kind)
  <1>1. run.history \in Seq(Observation) /\ Round = Len(run.history) /\ Round \in Nat
    BY RoundsTyped DEF Shape, Run, Round
  <1>2. Round' = Round + 1
    BY <1>1 DEF Round
  <1>3. \A i \in 1 .. Round : run'.history[i] = run.history[i]
    BY <1>1
  <1>4. run'.history[Round + 1] = obs
    BY <1>1
  <1>5. \A i : i \in 1 .. Round' <=> i \in 1 .. Round \/ i = Round + 1
    BY <1>1, <1>2
  <1>6. Round + 1 \notin 1 .. Round
    BY <1>1
  <1>7. ASSUME NEW kind
        PROVE  /\ Round + 1 \notin Seen(kind)
               /\ obs.kind = kind => Seen(kind)' = Seen(kind) \cup {Round + 1}
               /\ obs.kind # kind => Seen(kind)' = Seen(kind)
    <2>1. \A i : i \in Seen(kind)' <=> i \in Seen(kind) \/ (i = Round + 1 /\ obs.kind = kind)
      BY <1>3, <1>4, <1>5, <1>6 DEF Seen
    <2>. QED BY <1>6, <2>1 DEF Seen
  <1>. QED BY <1>2, <1>3, <1>4, <1>7

\* A retrieval or a tool call is observed, and the loop plans again.
LEMMA ObservationInv ==
  ASSUME LoopInv, NEW obs \in Observation, run' \in Run, run'.history = Append(run.history, obs),
         run'.at = "plan", run'.outcome = run.outcome, run'.question = run.question,
         obs.kind = run.action.kind, obs.key = run.action.key,
         run.at \in {"retrieve", "calling"}, UNCHANGED <<config, phase, asked, runs>>
  PROVE  LoopInv'
  <1>. USE DEF LoopInv
  <1>1. Shape' /\ Ends' /\ Observing' /\ Drafting' /\ AnswerSupported'
    BY DEF Shape, Ends, Observing, Drafting, AnswerSupported
  <1>2. Round' <= MaxPlanRounds
    BY OneMore, RoundsTyped DEF Observing
  <1>3. Done \in Nat /\ IsFiniteSet(Seen("tool"))
    BY SeenFinite DEF Done
  <1>4. obs.kind = "tool" => Done' = Done + 1
    <2>1. Round + 1 \notin Seen("tool")
      BY OneMore
    <2>2. Cardinality(Seen("tool") \cup {Round + 1}) = Cardinality(Seen("tool")) + 1
      BY <1>3, <2>1, FS_AddElement
    <2>3. obs.kind = "tool" => Seen("tool")' = Seen("tool") \cup {Round + 1}
      BY OneMore
    <2>. QED BY <2>2, <2>3 DEF Done
  <1>5. obs.kind # "tool" => Done' = Done
    BY OneMore DEF Done
  <1>6. Done' <= MaxToolCalls
    <2>1. obs.kind = "tool" => Done < MaxToolCalls
      BY DEF Observing
    <2>. QED BY <1>3, <1>4, <1>5, <2>1, LoopAssumption DEF LoopBounded, Done
  <1>7. \A i, j \in Seen("retrieve")' : run'.history[i].key = run'.history[j].key => i = j
    <2>1. \A i \in Seen("retrieve") : run'.history[i] = run.history[i]
      BY OneMore DEF Seen
    <2>2. \A i, j \in Seen("retrieve") : run'.history[i].key = run'.history[j].key => i = j
      BY <2>1 DEF LoopBounded
    <2>3. CASE obs.kind # "retrieve"
      BY <2>2, <2>3, OneMore
    <2>4. CASE obs.kind = "retrieve"
      <3>1. obs.key \notin Tried
        BY <2>4 DEF Observing
      <3>2. \A i \in Seen("retrieve") : run'.history[i].key # obs.key
        BY <2>1, <3>1 DEF Tried
      <3>3. Seen("retrieve")' = Seen("retrieve") \cup {Round + 1} /\ run'.history[Round + 1] = obs
        BY <2>4, OneMore
      <3>. QED BY <2>2, <3>2, <3>3
    <2>. QED BY <2>3, <2>4
  <1>8. LoopBounded'
    BY <1>2, <1>6, <1>7 DEF LoopBounded, Done
  <1>9. InOrder'
    <2>1. SUFFICES ASSUME config.taskPlan, NEW s \in DOMAIN Steps, s <= Done'
                   PROVE  \E i \in Seen("tool")' : run'.history[i].key = Steps[s]
      BY DEF InOrder
    <2>2. s \in Nat
      BY LoopAssumption
    <2>3. CASE s <= Done
      <3>1. PICK i \in Seen("tool") : run.history[i].key = Steps[s]
        BY <2>1, <2>3 DEF InOrder
      <3>2. i \in Seen("tool")' /\ run'.history[i] = run.history[i]
        BY <3>1, OneMore DEF Seen
      <3>. QED BY <3>1, <3>2
    <2>4. CASE ~(s <= Done)
      <3>1. obs.kind = "tool" /\ s = Done + 1
        BY <1>3, <1>4, <1>5, <2>1, <2>2, <2>4
      <3>2. obs.key = Steps[s]
        BY <2>1, <3>1 DEF Observing
      <3>3. Seen("tool")' = Seen("tool") \cup {Round + 1} /\ run'.history[Round + 1] = obs
        BY <3>1, OneMore
      <3>. QED BY <3>2, <3>3
    <2>. QED BY <2>3, <2>4
  <1>. QED BY <1>1, <1>8, <1>9

\* A Run after an observation, whatever the types of its fields are.
LEMMA RecordUpdate ==
  ASSUME NEW P, NEW Q, NEW R, NEW G, NEW C, NEW H, NEW A, NEW O,
         NEW r \in [at : P, retried : BOOLEAN, required : Q, gap : G, recommended : C,
                    history : H, action : A, queried : BOOLEAN, repaired : BOOLEAN,
                    recovery : R, outcome : O, question : BOOLEAN],
         NEW p \in P, NEW h \in H, NEW a \in A, NEW g \in G
  PROVE  /\ [r EXCEPT !.at = p, !.history = h, !.action = a] \in
              [at : P, retried : BOOLEAN, required : Q, gap : G, recommended : C,
               history : H, action : A, queried : BOOLEAN, repaired : BOOLEAN,
               recovery : R, outcome : O, question : BOOLEAN]
         /\ [r EXCEPT !.at = p, !.history = h, !.gap = g, !.action = a, !.queried = FALSE] \in
              [at : P, retried : BOOLEAN, required : Q, gap : G, recommended : C,
               history : H, action : A, queried : BOOLEAN, repaired : BOOLEAN,
               recovery : R, outcome : O, question : BOOLEAN]
  OBVIOUS

LEMMA ObserveInv ==
  ASSUME LoopInv, NEW got \in {"none", "uncited", "cited"}, NEW gap \in {"none", "open", "closed"},
         Observe(got, gap) \/ (ToolReturns /\ got = "none" /\ gap = run.gap)
  PROVE  LoopInv'
  <1>. DEFINE a == run.action
              obs == [kind |-> a.kind, key |-> a.key, got |-> got]
  <1>1. /\ run.at \in {"retrieve", "calling"} /\ UNCHANGED <<config, phase, asked, runs>>
        /\ run' = [run EXCEPT !.at = "plan", !.history = Append(run.history, obs), !.gap = gap,
                             !.action = Refuse, !.queried = FALSE]
           \/ run' = [run EXCEPT !.at = "plan", !.history = Append(run.history, obs),
                                !.action = Refuse]
    BY DEF Observe, ToolReturns, Observed, KeepTask
  <1>2. run \in Run /\ a \in Action /\ a.kind \in {"retrieve", "tool"}
    BY <1>1 DEF LoopInv, Shape, Run, Observing
  <1>3. obs \in Observation
    <2>1. a.key \in Queries \cup Needs \cup Tools \cup {Steps[i] : i \in DOMAIN Steps}
      BY <1>2, SMT DEF Action
    <2>. QED BY <1>2, <2>1 DEF Observation
  <1>4. run.history \in Seq(Observation)
    BY <1>2 DEF Run
  <1>5. Append(run.history, obs) \in Seq(Observation)
    BY <1>3, <1>4
  <1>6. /\ run' \in Run /\ run'.history = Append(run.history, obs) /\ run'.at = "plan"
        /\ run'.outcome = run.outcome /\ run'.question = run.question
    <2>. DEFINE h == Append(run.history, obs)
    <2>1. /\ h \in Seq(Observation) /\ run \in Run
          /\ Refuse \in Action /\ "plan" \in Places
      BY <1>2, <1>5, ActionKindsTyped, Names
    <2>. HIDE DEF obs, h
    <2>2. [run EXCEPT !.at = "plan", !.history = h, !.action = Refuse] \in Run
      BY <2>1, RecordUpdate, Zenon DEF Run
    <2>3. [run EXCEPT !.at = "plan", !.history = h, !.gap = gap, !.action = Refuse,
                      !.queried = FALSE] \in Run
      BY <2>1, RecordUpdate, Zenon DEF Run
    <2>4. run' \in Run
      BY <1>1, <2>2, <2>3 DEF h
    <2>. QED BY <1>1, <2>1, <2>4 DEF h, Run
  <1>7. obs.kind = a.kind /\ obs.key = a.key
    OBVIOUS
  <1>. HIDE DEF obs
  <1>. QED BY <1>1, <1>3, <1>6, <1>7, ObservationInv

\* Start, commit and loss of a Run.
LEMMA RunInv ==
  ASSUME LoopInv, Start \/ RunLost \/ (\E deferred, satisfied \in BOOLEAN : Commit(deferred, satisfied))
  PROVE  LoopInv'
  <1>. USE LoopAssumption DEF LoopInv
  <1>1. /\ Idle.history = <<>> /\ Idle.outcome = "none" /\ Idle.at = "idle"
        /\ Idle.question = FALSE
        /\ [Idle EXCEPT !.at = "start"].at = "start"
        /\ [Idle EXCEPT !.at = "start"].history = <<>>
        /\ [Idle EXCEPT !.at = "start"].outcome = "none"
        /\ [Idle EXCEPT !.at = "start"].question = FALSE
    BY DEF Idle
  <1>2. CASE Start
    <2>1. Shape'
      BY <1>1, <1>2, IdleShape DEF Start, Shape
    <2>. QED BY <1>1, <1>2, <2>1, IdleInv DEF Start
  <1>3. CASE RunLost
    <2>1. Shape'
      BY <1>1, <1>3, IdleShape DEF RunLost, Shape
    <2>. QED BY <1>1, <1>3, <2>1, IdleInv DEF RunLost
  <1>4. CASE \E deferred, satisfied \in BOOLEAN : Commit(deferred, satisfied)
    <2>1. PICK deferred \in BOOLEAN, satisfied \in BOOLEAN : Commit(deferred, satisfied)
      BY <1>4
    <2>2. run' = Idle /\ UNCHANGED <<config, runs>>
      BY <2>1 DEF Commit
    <2>3. asked' \in 0 .. MaxQuestions
      <3>1. run.question \/ (run.outcome = "answered" /\ deferred /\ asked < MaxQuestions)
              => asked < MaxQuestions
        BY DEF Shape
      <3>2. asked' = asked \/ (asked' = asked + 1 /\ asked < MaxQuestions)
        BY <2>1, <3>1 DEF Commit
      <3>. QED BY <3>2 DEF Shape
    <2>4. phase' \in {"active", "waiting_for_input", "paused", "complete"}
      BY <2>1 DEF Commit, Shape
    <2>5. Shape'
      BY <1>1, <2>2, <2>3, <2>4, IdleShape DEF Shape
    <2>. QED BY <1>1, <2>2, <2>5, IdleInv
  <1>. QED BY <1>2, <1>3, <1>4

LEMMA InitLoop == Init => LoopInv
  <1>1. SUFFICES ASSUME Init PROVE LoopInv
    OBVIOUS
  <1>2. run = Idle /\ Idle.history = <<>> /\ Idle.outcome = "none" /\ Idle.at = "idle"
        /\ Idle.question = FALSE
    BY <1>1 DEF Init, Idle
  <1>3. Shape
    BY <1>1, <1>2, IdleShape, LoopAssumption DEF Init, Shape
  <1>4. Round = 0 /\ Seen("tool") = {} /\ Seen("retrieve") = {}
    BY <1>2 DEF Round, Seen
  <1>5. Done = 0
    BY <1>4, FS_EmptySet DEF Done
  <1>6. LoopBounded
    BY <1>4, <1>5, LoopAssumption DEF LoopBounded, Done
  <1>7. InOrder
    BY <1>5, LoopAssumption DEF InOrder
  <1>8. Ends /\ Observing /\ Drafting /\ AnswerSupported
    BY <1>2 DEF Ends, Observing, Drafting, AnswerSupported
  <1>. QED BY <1>3, <1>6, <1>7, <1>8 DEF LoopInv

LEMMA LoopNextInv == LoopInv /\ [Next]_vars => LoopInv'
  <1>. SUFFICES ASSUME LoopInv, [Next]_vars PROVE LoopInv'
    OBVIOUS
  <1>1. Shape /\ Ends
    BY DEF LoopInv
  <1>2. CASE \/ Begin \/ IntentInvalid \/ Ask \/ ReviewByPolicy \/ ReviewByModel \/ ReviewFails
             \/ Query \/ ToolDeclined \/ CallTool
    <2>1. UNCHANGED <<phase, asked, runs>>
      BY <1>2 DEF Begin, IntentInvalid, Ask, ReviewByPolicy, ReviewByModel, ReviewFails, Query,
                  ToolDeclined, CallTool, KeepTask
    <2>. QED BY <1>1, <1>2, <2>1, EarlyMoves, MoveInv
  <1>3. CASE \/ Finalize \/ CallDenied \/ DraftOverflows \/ AdmitFinalAnswer \/ WriteMemory
             \/ Finish \/ BudgetStops
    <2>1. UNCHANGED <<phase, asked, runs>>
      BY <1>3 DEF Finalize, CallDenied, DraftOverflows, AdmitFinalAnswer, WriteMemory, Finish,
                  BudgetStops, KeepTask
    <2>2. Move
      BY <1>1, <1>3, AnswerMoves
    <2>. QED BY <2>1, <2>2, MoveInv
  <1>4. CASE \E recovery \in SUBSET (Needs \cup {Other}) :
               DraftWritten(recovery) \/ Grounded(recovery)
    <2>1. UNCHANGED <<phase, asked, runs>>
      BY <1>4 DEF DraftWritten, Grounded, KeepTask
    <2>2. Move
      BY <1>1, <1>4, AnswerMoves
    <2>. QED BY <2>1, <2>2, MoveInv
  <1>5. CASE PlanCompiled \/ PlanProposed \/ Recover
    <2>1. UNCHANGED <<config, phase, asked, runs>>
      BY <1>5 DEF PlanCompiled, PlanProposed, Recover, KeepTask
    <2>2. PICK c \in Action : Sound(c) /\ Take(c)
      BY <1>1, <1>5, DecisionSound
    <2>. QED BY <2>1, <2>2, TakeInv
  <1>6. CASE \E required \in SUBSET Queries, gap \in {"none", "open"},
                recommended \in {"retrieve", "tool", "ask", "refuse"} :
               ResolveIntent(required, gap, recommended)
    BY <1>6, IntentInv
  <1>7. CASE \E got \in {"none", "uncited", "cited"}, gap \in {"none", "open", "closed"} :
               Observe(got, gap)
    BY <1>7, ObserveInv
  <1>8. CASE ToolReturns
    <2>1. run.gap \in {"none", "open", "closed"}
      BY <1>1 DEF Shape, Run
    <2>. QED BY <1>8, <2>1, ObserveInv
  <1>9. CASE Start \/ RunLost \/ (\E deferred, satisfied \in BOOLEAN : Commit(deferred, satisfied))
    BY <1>9, RunInv
  <1>10. CASE CallModel \/ ClockRunsOut \/ UNCHANGED vars
    <2>1. UNCHANGED loopVars
      BY <1>10 DEF CallModel, ClockRunsOut, vars
    <2>2. run'.history = run.history /\ Gated' = Gated /\ Complete' = Complete
          /\ UNCHANGED <<config, run, phase, asked, runs>>
      BY <2>1, SameHistory DEF loopVars, Gated, Complete
    <2>3. LoopBounded' /\ InOrder'
      BY <2>2, SameBounds
    <2>4. Shape' /\ Ends'
      BY <1>1, <2>2 DEF Shape, Ends
    <2>5. Observing' /\ Drafting' /\ AnswerSupported'
      BY <2>2, SameHistory DEF LoopInv, Observing, Drafting, AnswerSupported
    <2>. QED BY <2>3, <2>4, <2>5 DEF LoopInv
  <1>. QED BY <1>2, <1>3, <1>4, <1>5, <1>6, <1>7, <1>8, <1>9, <1>10 DEF Next

LEMMA LoopInvariant == Spec => []LoopInv
  BY InitLoop, LoopNextInv, PTL DEF Spec

\* Every part of the Run, its task and its budget keeps its shape; no stage asks
\* beyond the rounds of the interaction policy.
THEOREM LoopTypeCorrect == Spec => []LoopTypeOK
  <1>1. IInv /\ LoopInv => LoopTypeOK
    BY DEF IInv, LoopInv, Shape, LoopTypeOK
  <1>2. BudgetInit => IInv
    BY InitInv
  <1>3. IInv /\ [BudgetNext]_budgetVars => IInv'
    BY NextInv
  <1>. QED BY <1>1, <1>2, <1>3, LoopInvariant, LoopKeepsBudget, PTL DEF BudgetSpec

\* Whatever models and reviewers say, a Run observes at most once per plan round,
\* calls no more tools than it may and retrieves no query twice.
THEOREM LoopEnds == Spec => []LoopBounded
  <1>1. LoopInv => LoopBounded
    BY DEF LoopInv
  <1>. QED BY <1>1, LoopInvariant, PTL

\* Every answer rests on cited evidence for each required query, on closed gaps and
\* on all steps of a task plan, from its synthesis to its commit.
THEOREM AnswersSupported == Spec => []AnswerSupported
  <1>1. LoopInv => AnswerSupported
    BY DEF LoopInv
  <1>. QED BY <1>1, LoopInvariant, PTL
=============================================================================
