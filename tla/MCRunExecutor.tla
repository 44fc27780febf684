---------------------------- MODULE MCRunExecutor ----------------------------
(* A small instance of RunExecutor for TLC. *)
EXTENDS RunExecutor

CONSTANTS o1, c1, a1, e1, e2

MCOneRequest == {[op |-> o1, key |-> 1, conv |-> NoConversation]}
=============================================================================
