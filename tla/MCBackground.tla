---------------------------- MODULE MCBackground ----------------------------
(***************************************************************************)
(* The programs that nobody calls: ai-service's consumers of events and    *)
(* the watchdog of the tunnel.  They share nothing, so a behaviour runs    *)
(* one of them and leaves the other alone.  Two instances of ai-service,   *)
(* two containers of which the second is the tunnel's twin.                *)
(***************************************************************************)
EXTENDS AutoReply, Watchdog, TLC

CONSTANTS ak1, ak2, ak3, ak4, uk1, uk2, project, service

VARIABLE active    \* the one that runs

MCAIKey == [m \in 1..MaxMessages |-> <<ak1, ak2, ak3, ak4>>[m]]
MCClientMsgIDs == {uk1, uk2} \cup {MCAIKey[m] : m \in 1..MaxMessages}

MCLabels == (1 :> {project}) @@ (2 :> {project, service})

BackgroundInit == active \in {"consumers", "watchdog"} /\ AutoReplyInit /\ WatchdogInit

BackgroundNext ==
    /\ UNCHANGED active
    /\ \/ active = "consumers" /\ AutoReplyNext /\ UNCHANGED watchdogVars
       \/ active = "watchdog" /\ WatchdogNext /\ UNCHANGED arVars

BackgroundSpec ==
    BackgroundInit /\ [][BackgroundNext]_<<active, arVars, watchdogVars>> /\ WatchdogFairness

\* What does not run does not matter.
View == IF active = "consumers" THEN <<active, arVars>> ELSE <<active, watchdogVars>>

\* Of the consumers only; nothing eventual is asked of them.
Symmetry == Permutations(Workers) \cup Permutations({uk1, uk2})
=============================================================================
