----------------------------- MODULE OutboxDelivery -----------------------------
(***************************************************************************)
(* The outbox implements what module EventDelivery promises the rest of    *)
(* the system.  A published row can be overruled only by a dispatcher that *)
(* claimed it before another one did, so whether a second dispatcher has   *)
(* ever been started decides how much is promised.                         *)
(***************************************************************************)
EXTENDS Outbox

VARIABLE started    \* history: the dispatchers that have been started

deliveryVars == <<vars, started>>

DeliveryInit == Init /\ started = {}

DeliveryNext == Next /\ started' = started \cup {d \in Dispatchers : disp'[d].pc # "down"}

DeliverySpec == DeliveryInit /\ [][DeliveryNext]_deliveryVars /\ Fairness

PhaseFor(status) ==
    CASE status = "absent" -> "absent"
      [] status \in {"pending", "processing"} -> "queued"
      [] status = "published" -> "done"
      [] status = "dead" -> "abandoned"

DeliveryPhase == [e \in Events |-> PhaseFor(Status(e))]

Delivery == INSTANCE EventDelivery WITH phase <- DeliveryPhase, alone <- Cardinality(started) <= 1

\* The dispatchers of all instances implement EventDelivery: what is marked
\* published was delivered, nothing accepted is forgotten, and while there has
\* been only one dispatcher published rows stay published, crashes, failed
\* statements and replays of dead rows notwithstanding.
ImplementsDelivery == Delivery!Spec

=============================================================================
