----------------------------- MODULE MCRunQueue -----------------------------
(* Small instances of RunQueue for TLC. *)
EXTENDS RunQueue, TLC

CONSTANTS o1, o2, c1, a1, a2, a3, e1, e2

\* Two requests in one conversation, a standalone one of the same operator, and
\* another operator's.
MCFourRequests == {[op |-> o1, key |-> 1, conv |-> c1],
                   [op |-> o1, key |-> 2, conv |-> c1],
                   [op |-> o1, key |-> 3, conv |-> NoConversation],
                   [op |-> o2, key |-> 1, conv |-> NoConversation]}

\* Independent requests of one operator.
MCTwoRequests == {[op |-> o1, key |-> 1, conv |-> NoConversation],
                  [op |-> o1, key |-> 2, conv |-> NoConversation]}

MCSymmetry == Permutations(Attempts) \cup Permutations(Executors)
=============================================================================
