------------------------- MODULE MCControlledReAct -------------------------
(***************************************************************************)
(* A small instance of ControlledReAct: two queries, one of which may also *)
(* close a comparison's gap, one requirement to recover for, a task plan   *)
(* of one step.                                                            *)
(***************************************************************************)
EXTENDS ControlledReAct

CONSTANTS q1, q2, n1, t1, s1

MCQueries  == {q1, q2}
MCMaxCalls == [k \in Kinds |-> CASE k = "model" -> 4 [] k = "retrieval" -> 2 [] k = "tool" -> 1]
MCSteps    == <<s1>>
=============================================================================
