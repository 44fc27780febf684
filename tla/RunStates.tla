----------------------------- MODULE RunStates -----------------------------
(***************************************************************************)
(* The durable Run states and the transition table of                      *)
(* contracts/run_execution.py, shared by the abstract life cycle and by    *)
(* the modules whose writes are guarded by the table                       *)
(* (assert_run_transition).                                                *)
(***************************************************************************)

ActiveStates == {"running", "finalizing", "cancel_requested"}
TerminalStates == {"succeeded", "failed", "timed_out", "cancelled"}
RunLifecycleState == {"queued"} \cup ActiveStates \cup TerminalStates

\* _ALLOWED_TRANSITIONS: the durable states that may follow a durable state.
AllowedTransitions ==
    [ s \in RunLifecycleState |->
        CASE s = "queued"           -> {"running", "cancelled"}
          [] s = "running"          -> {"finalizing", "cancel_requested", "failed", "timed_out"}
          [] s = "finalizing"       -> {"succeeded", "cancel_requested", "failed", "timed_out"}
          [] s = "cancel_requested" -> {"cancelled", "failed", "timed_out"}
          [] OTHER                  -> {} ]

CanTransition(s, t) == s \in RunLifecycleState /\ t \in AllowedTransitions[s]
=============================================================================
