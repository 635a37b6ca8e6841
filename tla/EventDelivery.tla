----------------------------- MODULE EventDelivery -----------------------------
(***************************************************************************)
(* What the event outbox promises the rest of the system, without          *)
(* dispatchers, batches, attempts or clocks: an accepted event is          *)
(* delivered at least once before it counts as done, and every accepted    *)
(* event ends up done or, after an explicit decision, abandoned.  An       *)
(* abandoned event may be taken up again (dead letters can be replayed).   *)
(* Done is final as long as one instance does the work; a second one may   *)
(* overrule it late.                                                       *)
(***************************************************************************)
CONSTANT Events

VARIABLES
    alone,      \* no more than one instance has ever been started
    phase,      \* phase[e]: how far event e has come
    delivered   \* the events subscribers were sent at least once

vars == <<alone, phase, delivered>>

Init ==
    /\ alone = TRUE
    /\ phase = [e \in Events |-> "absent"]
    /\ delivered = {}

Accept(e) ==
    /\ phase[e] = "absent"
    /\ phase' = [phase EXCEPT ![e] = "queued"]
    /\ UNCHANGED <<alone, delivered>>

\* A late instance may deliver an event another one has given up.
Deliver(e) ==
    /\ phase[e] = "queued" \/ (~alone /\ phase[e] # "absent")
    /\ delivered' = delivered \cup {e}
    /\ UNCHANGED <<alone, phase>>

Finish(e) ==
    /\ phase[e] = "queued"
    /\ e \in delivered
    /\ phase' = [phase EXCEPT ![e] = "done"]
    /\ UNCHANGED <<alone, delivered>>

Abandon(e) ==
    /\ phase[e] = "queued"
    /\ phase' = [phase EXCEPT ![e] = "abandoned"]
    /\ UNCHANGED <<alone, delivered>>

Revive(S) ==
    /\ \A e \in S : phase[e] = "abandoned"
    /\ phase' = [e \in Events |-> IF e \in S THEN "queued" ELSE phase[e]]
    /\ UNCHANGED <<alone, delivered>>

\* What one instance has decided, another one that took longer decides again.
Overrule(e) ==
    /\ ~alone
    /\ phase[e] \in {"done", "abandoned"}
    /\ \E p \in {"queued", "done", "abandoned"} :
          /\ p = "done" => e \in delivered
          /\ phase' = [phase EXCEPT ![e] = p]
    /\ UNCHANGED <<alone, delivered>>

\* A second instance; at its start it may revive what was abandoned.
Join ==
    /\ alone
    /\ alone' = FALSE
    /\ \E S \in SUBSET {e \in Events : phase[e] = "abandoned"} :
          phase' = [e \in Events |-> IF e \in S THEN "queued" ELSE phase[e]]
    /\ UNCHANGED delivered

Next ==
    \/ Join
    \/ \E e \in Events : Accept(e) \/ Deliver(e) \/ Finish(e) \/ Abandon(e) \/ Overrule(e)
    \/ \E S \in SUBSET Events : Revive(S)

SafetySpec == Init /\ [][Next]_vars

Spec == SafetySpec /\ \A e \in Events : WF_vars(Finish(e) \/ Abandon(e))

=============================================================================
