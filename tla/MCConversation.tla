----------------------------- MODULE MCConversation -----------------------------
(* Instances of Conversation for TLC. *)
EXTENDS Conversation, TLC

Symmetry == Permutations(Agents) \cup Permutations(Requests) \cup Permutations(ClientMsgIDs)

=============================================================================
