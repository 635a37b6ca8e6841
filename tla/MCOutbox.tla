------------------------------- MODULE MCOutbox -------------------------------
(* Instances of Outbox for TLC. *)
EXTENDS OutboxDelivery, TLC

Symmetry == Permutations(Dispatchers)

=============================================================================
