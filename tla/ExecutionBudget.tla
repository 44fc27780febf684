-------------------------- MODULE ExecutionBudget --------------------------
(***************************************************************************)
(* The execution budget of one workflow task: WorkflowBudgetLedger, which  *)
(* every model, retrieval and tool call of a Run passes, and the durable   *)
(* budget_usage of the task, which each Run's ledger starts from and adds  *)
(* to.                                                                     *)
(*                                                                         *)
(* One Run of a task is live at a time and each of its calls is            *)
(* synchronous, so at most one reservation is open.  A Run that does not   *)
(* commit leaves its consumption unknown (WorkflowTask: OneLiveRun,        *)
(* LostWorkStaysDebt).  unknown_model_calls, which nothing decides upon,   *)
(* and the size of a reservation's parts are left out.                     *)
(***************************************************************************)
EXTENDS Integers

CONSTANTS
    MaxCalls,      \* WorkflowBudget.max_model_calls, ...: a limit per kind
    MaxTokens,     \* WorkflowBudget.max_total_tokens
    Reservations,  \* what a model call may reserve: its input and output estimate
    MaxOverrun,    \* what a call may cost above its reservation: an estimate is no bound
    Unknown        \* None

Kinds == {"model", "retrieval", "tool"}

ASSUME BudgetAssumption ==
    /\ MaxCalls \in [Kinds -> Nat] /\ MaxTokens \in Nat /\ MaxOverrun \in Nat
    /\ Reservations \subseteq Nat \ {0}
    /\ Unknown \notin Int

VARIABLES
    usage,   \* the task's budget_usage
    ledger,  \* the ledger of the live Run
    call,    \* tokens reserved by the model call under way, 0 when there is none
    sent,    \* history: calls dispatched for the task, by kind
    spent    \* history: tokens its model calls cost; a call that reports nothing
             \* counts as its reservation

budgetVars == <<usage, ledger, call, sent, spent>>

Usage  == [calls : [Kinds -> Nat], tokens : Nat \cup {Unknown}, timeUp : BOOLEAN]
Ledger == [open : BOOLEAN, calls : [Kinds -> Nat], tokens : Nat, timeUp : BOOLEAN]

BudgetTypeOK ==
    /\ usage \in Usage /\ ledger \in Ledger
    /\ call \in Nat /\ spent \in Nat
    /\ sent \in [Kinds -> Nat]
-----------------------------------------------------------------------------
NoCalls == [k \in Kinds |-> 0]

BudgetInit ==
    /\ usage = [calls |-> NoCalls, tokens |-> 0, timeUp |-> FALSE]
    /\ ledger = [open |-> FALSE, calls |-> NoCalls, tokens |-> 0, timeUp |-> FALSE]
    /\ call = 0 /\ sent = NoCalls /\ spent = 0

\* ensure_available raises BudgetExceeded when this is false.
Available == ~ledger.timeUp /\ ledger.tokens < MaxTokens

\* A call of this kind passes the ledger; so does a model call of n tokens.
Admits(kind)   == Available /\ ledger.calls[kind] < MaxCalls[kind]
AdmitsModel(n) == Admits("model") /\ ledger.tokens + n <= MaxTokens

Dispatched(kind) == sent' = [sent EXCEPT ![kind] = @ + 1]

\* Mutant of RestoreUsage: a missing total counts as nothing.
RestoreUsageAfresh ==
    /\ ~ledger.open
    /\ ledger' = [open |-> TRUE, calls |-> usage.calls, timeUp |-> usage.timeUp,
                  tokens |-> IF usage.tokens = Unknown THEN 0 ELSE usage.tokens]
    /\ UNCHANGED <<usage, call, sent, spent>>

\* restore_usage at the start of a Run: unknown consumption fills the budget.
RestoreUsage ==
    /\ ~ledger.open
    /\ ledger' = [open |-> TRUE, calls |-> usage.calls, timeUp |-> usage.timeUp,
                  tokens |-> IF usage.tokens = Unknown THEN MaxTokens ELSE usage.tokens]
    /\ UNCHANGED <<usage, call, sent, spent>>

\* reserve_model, and the request that leaves right after it.
ReserveModel(n) ==
    /\ ledger.open /\ call = 0 /\ AdmitsModel(n)
    /\ ledger' = [ledger EXCEPT !.calls["model"] = @ + 1, !.tokens = @ + n]
    /\ call' = n
    /\ Dispatched("model")
    /\ UNCHANGED <<usage, spent>>

\* complete_model: a reported cost replaces the reservation; the reservation of
\* a call that failed or reported nothing stays charged.
Charge(used) ==
    /\ ledger.open /\ call > 0
    /\ ledger' = [ledger EXCEPT !.tokens = @ + used - call]
    /\ spent' = spent + used
    /\ call' = 0
    /\ UNCHANGED <<usage, sent>>

CompleteReported == \E used \in 1 .. call + MaxOverrun : Charge(used)
CompleteUnknown  == Charge(call)

\* consume_retrieval and consume_tool, and the call that follows.
Consume(kind) ==
    /\ ledger.open /\ call = 0 /\ Admits(kind)
    /\ ledger' = [ledger EXCEPT !.calls[kind] = @ + 1]
    /\ Dispatched(kind)
    /\ UNCHANGED <<usage, call, spent>>

\* elapsed_seconds reaches max_active_seconds.
TimeRunsOut ==
    /\ ledger.open /\ ~ledger.timeUp
    /\ ledger' = [ledger EXCEPT !.timeUp = TRUE]
    /\ UNCHANGED <<usage, call, sent, spent>>

\* The usage_delta of a finished Run, added to the task by apply_update.
Plus(before, now) == before + (IF now > before THEN now - before ELSE 0)

Settle ==
    /\ ledger.open /\ call = 0
    /\ usage' = [calls  |-> [k \in Kinds |-> Plus(usage.calls[k], ledger.calls[k])],
                 tokens |-> IF usage.tokens = Unknown THEN Unknown
                            ELSE Plus(usage.tokens, ledger.tokens),
                 timeUp |-> ledger.timeUp]
    /\ ledger' = [ledger EXCEPT !.open = FALSE]
    /\ UNCHANGED <<call, sent, spent>>

\* The Run fails or its executor dies, and record_failed_run marks the task; the
\* call under way is paid for all the same.
Lose ==
    /\ ledger.open
    /\ usage' = [usage EXCEPT !.tokens = Unknown]
    /\ ledger' = [ledger EXCEPT !.open = FALSE]
    /\ spent' = spent + call
    /\ call' = 0
    /\ UNCHANGED sent
-----------------------------------------------------------------------------
BudgetNext ==
    \/ RestoreUsage
    \/ \E n \in Reservations : ReserveModel(n)
    \/ CompleteReported \/ CompleteUnknown
    \/ \E kind \in {"retrieval", "tool"} : Consume(kind)
    \/ TimeRunsOut
    \/ Settle
    \/ Lose

BudgetSpec == BudgetInit /\ [][BudgetNext]_budgetVars
-----------------------------------------------------------------------------
\* However many Runs a task takes, and wherever they crash, its calls stay within
\* the limits of its budget, and so does what they cost, up to the overrun of the
\* one call that crosses the limit.
BudgetHolds ==
    /\ \A k \in Kinds : sent[k] <= MaxCalls[k]
    /\ spent <= MaxTokens + MaxOverrun
=============================================================================
