------------------------------ MODULE MCAccounts ------------------------------
(* Instances of module Accounts for TLC. *)
EXTENDS Accounts, TLC

\* One agent of one site; a second agent and a second site can be created.
OneAgent == "a1" :> [email |-> "e1", site |-> "s1"]

Symmetry == Permutations(Passwords \ WeakPasswords) \cup Permutations(Domains)

=============================================================================
