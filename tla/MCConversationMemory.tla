------------------------- MODULE MCConversationMemory -------------------------
(***************************************************************************)
(* Three turns of one conversation, with at most two troubles together.    *)
(* Every message of the user is compressed, so that a summary is replaced  *)
(* again and again.  Every other message has twice the length of one, and  *)
(* two such lengths may be shown.                                          *)
(***************************************************************************)
EXTENDS ConversationMemory, TLC

CONSTANTS t1, t2, t3

Symmetry == Permutations(Turn)

Message == 1 .. 2 * Cardinality(Turn)

WithinBudget == {M \in SUBSET Message : Cardinality(M) + Cardinality({m \in M : m % 2 = 0}) <= 2}

Cases == {{a, b} : a, b \in Trouble} \cup {{}}

=============================================================================
