------------------------------- MODULE MCRedis -------------------------------
(***************************************************************************)
(* What lives in Redis under keys that expire: the counters of the rate    *)
(* limiters and the creation lock.  They share nothing, so a behaviour     *)
(* runs one of them and leaves the other alone.  Two gateways, visitors    *)
(* checked under two keys; three CreateConversation calls.                 *)
(***************************************************************************)
EXTENDS RateLimiter, ConversationCreate, TLC

CONSTANTS h1, h2, l1, l2

VARIABLE running    \* the one that runs

MCCallers == {[scope |-> "visitor", ip |-> "ip", action |-> "open", site |-> Absent,
               conversation |-> 0, id |-> Absent]}

RedisInit == running \in {"limiter", "create"} /\ Init /\ CreateInit

RedisNext ==
    /\ UNCHANGED running
    /\ \/ running = "limiter" /\ Next /\ UNCHANGED createVars
       \/ running = "create" /\ CreateNext /\ UNCHANGED vars

RedisSpec == RedisInit /\ [][RedisNext]_<<running, vars, createVars>>

\* What does not run does not matter.
View == IF running = "limiter" THEN <<running, vars>> ELSE <<running, createVars>>

Symmetry == Permutations({h1, h2}) \cup Permutations({l1, l2}) \cup Permutations(Creators)
=============================================================================
