------------------------------ MODULE MCGateway ------------------------------
(* Instances of module Gateway for TLC. *)
EXTENDS Gateway, TLC

CONSTANTS a1, a2, a3, e1, e2, e3, s1, s2

\* Two agents of the conversation's site and one of another site.
TwoSites == a1 :> [email |-> e1, site |-> s1] @@ a2 :> [email |-> e2, site |-> s1]
              @@ a3 :> [email |-> e3, site |-> s2]

\* The two agents of one site are alike.
Symmetry == Permutations(Domains) \cup {a1 :> a2 @@ a2 :> a1 @@ e1 :> e2 @@ e2 :> e1}

\* Left out: what no step and no property of module Gateway reads; the widget
\* sessions are not read once the conversation exists.
View == <<agents, sites, tokens, ops, keys, revoked, conv, messages, req,
          created, greq, conns, IF created THEN {} ELSE sessions>>

=============================================================================
