-------------------------- MODULE MCConversationCreate --------------------------
(* Instances of ConversationCreate for TLC. *)
EXTENDS ConversationCreate, TLC

Symmetry == Permutations(Creators)

=============================================================================
