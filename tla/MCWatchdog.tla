------------------------------ MODULE MCWatchdog ------------------------------
(* An instance of Watchdog: two containers, of which the second is the tunnel's twin. *)
EXTENDS Watchdog, TLC

CONSTANTS project, service

MCLabels == (1 :> {project}) @@ (2 :> {project, service})
=============================================================================
