--------------------------- MODULE MCWorkflowTask ---------------------------
(* Small instances of WorkflowTask for TLC. *)
EXTENDS WorkflowTask, TLC

CONSTANTS r0, r1, r2, r3, s1, s2, s3, f1, f2

MCSymmetry == Permutations(Runs \ {Initial}) \cup Permutations(Slots) \cup Permutations(Fields)
=============================================================================
