-------------------------------- MODULE Watchdog --------------------------------
(***************************************************************************)
(* cloudflared-watchdog: at every tick it looks at the tunnel from inside  *)
(* (cloudflared's metrics) and, when a public URL is configured, from      *)
(* outside, and has Docker restart the tunnel's container after enough bad *)
(* checks in a row, unless it has just done so.                            *)
(*                                                                         *)
(* The two looks, the search for the container and the restart are calls   *)
(* with their own timeouts: the tunnel, the origin behind it and the       *)
(* containers change in between, and ticks pass.  Time is counted in       *)
(* ticks, up to the cooldown.                                              *)
(***************************************************************************)
EXTENDS Naturals, FiniteSets

CONSTANTS
    Containers,     \* ids, as Docker sorts them
    Labels,         \* Labels[c]: the labels of container c
    FailThreshold,
    Cooldown,       \* restartCooldown, in check intervals
    MaxFaults,      \* bound on what goes wrong around the watchdog
    NoContainer

ASSUME WatchdogAssumption ==
    /\ Containers \subseteq Nat /\ Containers # {}
    /\ FailThreshold \in Nat \ {0}
    /\ Cooldown \in Nat \ {0}
    /\ MaxFaults \in Nat
    /\ NoContainer \notin Containers

VARIABLES
    config,     \* what loadConfig has read
    tunnel,     \* cloudflared's connections to the edge
    metrics,    \* the metrics endpoint answers
    origin,     \* the service behind the tunnel answers
    running,    \* the containers that run
    watch,      \* the check, and what is kept between checks
    tick,       \* a tick is waiting in the ticker's channel
    faults,     \* faults so far
    seen,       \* history: what was bad at some time during this check
    streak,     \* history: checks in a row during which all of it was bad
    quiet       \* history: ticks since Docker confirmed a restart

watchdogVars == <<config, tunnel, metrics, origin, running, watch, tick, faults, seen, streak, quiet>>

-----------------------------------------------------------------------------

AllLabels == UNION {Labels[c] : c \in Containers}

\* A container by its name, or else by its labels; public: there is a URL.
Config == [public : BOOLEAN, name : Containers \cup {NoContainer}, labels : SUBSET AllLabels]

\* Pairs without a key or a value are dropped; what is left must select something.
LoadConfig(c) == c.name # NoContainer \/ c.labels # {}

\* metricsBad, publicBad: the probes' results; since: ticks since lastRestart,
\* the cooldown when there was none.
Watch == [pc : {"idle", "metrics", "public", "judge", "resolve", "restart"},
          metricsBad : BOOLEAN, publicBad : BOOLEAN, failures : Nat,
          target : Containers \cup {NoContainer}, since : 0..Cooldown]

WatchdogTypeOK ==
    /\ config \in Config
    /\ tunnel \in {"up", "lost", "starting"}
    /\ metrics \in BOOLEAN /\ origin \in BOOLEAN
    /\ running \subseteq Containers
    /\ watch \in Watch /\ (watch.pc = "restart" => watch.target # NoContainer)
    /\ tick \in BOOLEAN
    /\ faults \in 0..MaxFaults
    /\ seen \subseteq {"inside", "outside", "connections"}
    /\ streak \in 0..FailThreshold /\ quiet \in 0..Cooldown

MatchesLabels(c) == config.labels \subseteq Labels[c]

\* main begins with a check; the containers named or labelled exist.
WatchdogInit ==
    /\ config \in {c \in Config : LoadConfig(c)}
    /\ \E c \in Containers : MatchesLabels(c)
    /\ tunnel = "up" /\ metrics = TRUE /\ origin = TRUE
    /\ \E c \in Containers : running = {c}
    /\ watch = [pc |-> "idle", metricsBad |-> FALSE, publicBad |-> FALSE, failures |-> 0,
                target |-> NoContainer, since |-> Cooldown]
    /\ tick = TRUE
    /\ faults = 0
    /\ seen = {} /\ streak = 0 /\ quiet = Cooldown

\* No connections, or nobody can say; no answer from outside, for whichever reason.
InsideBad == tunnel # "up" \/ ~metrics
OutsideBad == tunnel # "up" \/ ~origin

BadNow == (IF InsideBad THEN {"inside"} ELSE {}) \cup (IF OutsideBad THEN {"outside"} ELSE {})
            \cup (IF tunnel # "up" THEN {"connections"} ELSE {})

\* This check had reason to find fault; without a public URL the inside is all
\* there is to see.
BadCheck == "inside" \in seen /\ (config.public => "outside" \in seen)

Fault == faults < MaxFaults /\ faults' = faults + 1
Around == <<config, tunnel, metrics, origin, running, faults>>
Next1(n, bound) == IF n < bound THEN n + 1 ELSE n

-----------------------------------------------------------------------------
(* Around the watchdog *)

\* The connections go, or come back without help; an endpoint or the origin
\* stops answering or answers again; the last container that runs exits.
EnvironmentChanges ==
    /\ Fault
    /\ \/ tunnel' \in {"up", "lost"} \ {tunnel} /\ running # {} /\ UNCHANGED <<metrics, origin, running>>
       \/ metrics' = ~metrics /\ UNCHANGED <<tunnel, origin, running>>
       \/ origin' = ~origin /\ UNCHANGED <<tunnel, metrics, running>>
       \/ running # {} /\ running' = {} /\ tunnel' = "lost" /\ UNCHANGED <<metrics, origin>>
    /\ seen' = IF watch.pc = "idle" THEN seen ELSE seen \cup BadNow'
    /\ UNCHANGED <<config, watch, tick, streak, quiet>>

\* A container that was restarted connects.
TunnelStarts ==
    /\ tunnel = "starting"
    /\ tunnel' = "up"
    /\ UNCHANGED <<config, metrics, origin, running, watch, tick, faults, seen, streak, quiet>>

\* A tick that finds one waiting is dropped.
TimePasses ==
    /\ tick' = TRUE
    /\ watch' = [watch EXCEPT !.since = Next1(@, Cooldown)]
    /\ quiet' = Next1(quiet, Cooldown)
    /\ UNCHANGED <<Around, seen, streak>>

-----------------------------------------------------------------------------
(* One check *)

Move(pc) == watch' = [watch EXCEPT !.pc = pc]

StartCheck ==
    /\ watch.pc = "idle" /\ tick
    /\ tick' = FALSE
    /\ Move("metrics")
    /\ seen' = BadNow
    /\ UNCHANGED <<Around, streak, quiet>>

\* fetchHAConnections: an error, a missing value or too few connections.
FetchHAConnections ==
    /\ watch.pc = "metrics"
    /\ watch' = [watch EXCEPT !.metricsBad = InsideBad, !.publicBad = FALSE,
                              !.pc = IF config.public THEN "public" ELSE "judge"]
    /\ UNCHANGED <<Around, tick, seen, streak, quiet>>

FetchPublicHealth ==
    /\ watch.pc = "public"
    /\ watch' = [watch EXCEPT !.publicBad = OutsideBad, !.pc = "judge"]
    /\ UNCHANGED <<Around, tick, seen, streak, quiet>>

ShouldRestart == watch.metricsBad /\ (config.public => watch.publicBad)

CoolingDown == watch.since < Cooldown

\* Mutant of EnoughFailures: only the check that reaches the threshold acts.
ThresholdJustReached(n) == n = FailThreshold

EnoughFailures(n) == n >= FailThreshold

\* Mutant of Judge: a good check does not start the count anew.
JudgeNoReset ==
    /\ watch.pc = "judge"
    /\ streak' = IF BadCheck THEN Next1(streak, FailThreshold) ELSE 0
    /\ LET n == watch.failures + 1
       IN  IF ~ShouldRestart THEN Move("idle")
           ELSE watch' = [watch EXCEPT !.failures = Next1(@, FailThreshold + 1),
                             !.pc = IF EnoughFailures(n) /\ ~CoolingDown THEN "resolve" ELSE "idle"]
    /\ UNCHANGED <<Around, tick, seen, quiet>>

\* run after the probes.  Failures beyond the threshold are not told apart.
Judge ==
    /\ watch.pc = "judge"
    /\ streak' = IF BadCheck THEN Next1(streak, FailThreshold) ELSE 0
    /\ LET n == watch.failures + 1
       IN  watch' = IF ~ShouldRestart THEN [watch EXCEPT !.failures = 0, !.pc = "idle"]
                    ELSE [watch EXCEPT !.failures = Next1(@, FailThreshold + 1),
                             !.pc = IF EnoughFailures(n) /\ ~CoolingDown THEN "resolve" ELSE "idle"]
    /\ UNCHANGED <<Around, tick, seen, quiet>>

\* One that runs, if there is one, and of several the one with the first id.
Preferred(matches) ==
    LET candidates == IF matches \cap running # {} THEN matches \cap running ELSE matches
    IN  CHOOSE c \in candidates : \A d \in candidates : c <= d

ResolveContainerTarget ==
    /\ watch.pc = "resolve"
    /\ watch' = [watch EXCEPT !.pc = "restart",
                    !.target = IF config.name # NoContainer THEN config.name
                               ELSE Preferred({c \in Containers : MatchesLabels(c)})]
    /\ UNCHANGED <<Around, tick, seen, streak, quiet>>

\* Docker does not answer, or not in time, or refuses: the next check goes on counting.
DockerFails ==
    /\ watch.pc = "restart" \/ (watch.pc = "resolve" /\ config.name = NoContainer)
    /\ Fault
    /\ watch' = [watch EXCEPT !.pc = "idle", !.target = NoContainer]
    /\ UNCHANGED <<config, tunnel, metrics, origin, running, tick, seen, streak, quiet>>

Restarted == tunnel' = "starting" /\ running' = running \cup {watch.target}

RestartContainer ==
    /\ watch.pc = "restart"
    /\ Restarted
    /\ watch' = [watch EXCEPT !.pc = "idle", !.target = NoContainer, !.failures = 0, !.since = 0]
    /\ quiet' = 0
    /\ UNCHANGED <<config, metrics, origin, tick, faults, seen, streak>>

\* Stopping the container takes as long as the client waits for the answer: it
\* is restarted, and the watchdog counts on as if it were not.
RestartTimesOut ==
    /\ watch.pc = "restart"
    /\ Fault
    /\ Restarted
    /\ watch' = [watch EXCEPT !.pc = "idle", !.target = NoContainer]
    /\ UNCHANGED <<config, metrics, origin, tick, seen, streak, quiet>>

-----------------------------------------------------------------------------

Check ==
    \/ StartCheck \/ FetchHAConnections \/ FetchPublicHealth \/ Judge
    \/ ResolveContainerTarget \/ RestartContainer

WatchdogNext ==
    \/ Check \/ DockerFails \/ RestartTimesOut
    \/ EnvironmentChanges \/ TunnelStarts \/ TimePasses

\* The ticker ticks, every call has a timeout, Docker answers in the end, and a
\* container that was started connects.
WatchdogFairness ==
    WF_watchdogVars(TimePasses) /\ WF_watchdogVars(Check) /\ WF_watchdogVars(TunnelStarts)

WatchdogSpec == WatchdogInit /\ [][WatchdogNext]_watchdogVars /\ WatchdogFairness

-----------------------------------------------------------------------------
(* Properties *)

\* Docker is asked to restart the tunnel only when in each of the last
\* FailThreshold checks the inside was bad at some time and, with a public URL,
\* so was the outside (shouldRestart, run); and after a restart that Docker
\* confirmed, only when the cooldown is over, however many checks fail meanwhile.
\* It does not promise that the tunnel had failed: metrics that cannot be read
\* are a bad inside, so without a public URL, or with an origin that is down, a
\* tunnel that serves may be restarted.
RestartJustified == watch.pc = "restart" => streak = FailThreshold /\ quiet = Cooldown

\* What the README of the repository says of the watchdog: it restarts the tunnel
\* only when the public probe, where one is configured, failed and the active
\* connections were too few, here at some time of that check.  The code takes
\* metrics that cannot be read for too few connections (shouldRestart).
RestartAsDocumented ==
    watch.pc = "restart" => (config.public => watch.publicBad) /\ "connections" \in seen

\* A tunnel that was lost comes back, although restarts are refused, time out or
\* fall in the cooldown (run).
TunnelRecovers == tunnel = "lost" ~> tunnel = "up"

=============================================================================
