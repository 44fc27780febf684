------------------------ MODULE MCAgentConfiguration ------------------------
(* Small instances of AgentConfiguration for TLC. *)
EXTENDS AgentConfiguration, TLC

CONSTANTS c1, c2, d1, d2, v1, v2, x, y, k1

\* One contract names the shared connection, the other does not.
MCRefs == x :> {k1} @@ y :> {}

MCSymmetry == Permutations(Callers) \cup Permutations(Versions) \cup Permutations(Drafts)
=============================================================================
