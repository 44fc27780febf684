---------------------------- MODULE RunLifecycle ----------------------------
(***************************************************************************)
(* What the run queue promises about one Run, whatever the executors, the  *)
(* reaper and the operators do: the Run follows the transition table of    *)
(* contracts/run_execution.py, and a governed result becomes visible       *)
(* exactly in the step in which the Run becomes SUCCEEDED.                 *)
(***************************************************************************)
EXTENDS RunStates

CONSTANT Runs

VARIABLES
    lifecycle,   \* lifecycle[r]: durable state of Run r, "absent" before admission
    visible      \* the Runs whose result_available is true

-----------------------------------------------------------------------------
Init ==
    /\ lifecycle = [r \in Runs |-> "absent"]
    /\ visible = {}

\* A Run is admitted.
Admit(r) ==
    /\ lifecycle[r] = "absent"
    /\ lifecycle' = [lifecycle EXCEPT ![r] = "queued"]
    /\ UNCHANGED visible

\* One transaction moves the Runs of S, each along the table (the reaper may
\* move several); the ones that become SUCCEEDED become visible with it.
Advance(S) ==
    /\ lifecycle' \in [Runs -> RunLifecycleState \cup {"absent"}]
    /\ \A r \in Runs : IF r \in S THEN CanTransition(lifecycle[r], lifecycle'[r])
                                  ELSE lifecycle'[r] = lifecycle[r]
    /\ visible' = visible \cup {r \in S : lifecycle'[r] = "succeeded"}

Next == (\E r \in Runs : Admit(r)) \/ (\E S \in SUBSET Runs : Advance(S))

vars == <<lifecycle, visible>>

Spec == Init /\ [][Next]_vars
=============================================================================
