--------------------------- MODULE DynamicClient ---------------------------
(***************************************************************************)
(* How the services call each other: a process that needs a service finds  *)
(* an endpoint through the resolver's cache and etcd, keeps one gRPC        *)
(* connection to it that all its goroutines share, looks again from time   *)
(* to time, and after a call that found nobody replaces the connection and *)
(* tries once more.                                                        *)
(***************************************************************************)
EXTENDS Registry, Combinatorics

CONSTANTS
    MaxCallers,     \* bound: goroutines of the calling process that call the service
    None

VARIABLES
    kind,           \* which of the clients below the process uses
    cache,          \* Resolver.cache: the listed endpoints of the last read, or None
    rrState,        \* Resolver.rrState, modulo a common multiple of the lengths it is used with
    client,         \* the endpoint of the shared connection, or None before the process is up
    fresh,          \* lastResolvedAt is less than refreshInterval ago
    calls           \* what each goroutine is doing

clientVars == <<kind, cache, rrState, client, fresh, calls>>
vars == <<registryVars, clientVars>>

Callers == DOMAIN calls

ASSUME CallersAssumption == MaxCallers \in 1 .. MaxFaults + 1

----------------------------------------------------------------------------
(* The code has a copy of the client for each service that calls and each it calls.  They    *)
(* differ in one thing: on a retry gateway-service dials again though the endpoint is the    *)
(* same (redial).  Its HTTP proxies resolve every request anew and try it once (each).       *)

Client(redial, each) == [redial |-> redial, each |-> each]

GatewayChatClient == Client(TRUE, FALSE)
GatewayAuthClient == Client(TRUE, FALSE)
GatewayAdminClient == Client(TRUE, FALSE)
AIChatClient == Client(FALSE, FALSE)
AIAdminClient == Client(FALSE, FALSE)
RealtimeChatClient == Client(FALSE, FALSE)
RealtimeAuthClient == Client(FALSE, FALSE)
RealtimeAdminClient == Client(FALSE, FALSE)
AIStatusClient == Client(FALSE, TRUE)
ReverseProxy == Client(FALSE, TRUE)

Kinds == {GatewayChatClient, GatewayAuthClient, GatewayAdminClient, AIChatClient, AIAdminClient,
          RealtimeChatClient, RealtimeAuthClient, RealtimeAdminClient, AIStatusClient, ReverseProxy}

\* conn is the endpoint of the connection a call uses; closed, that the connection has been
\* replaced and closed since.
Call == [pc : {"idle", "refresh", "dial", "take", "invoke", "done"}, retry : BOOLEAN,
         conn : Instances \cup {None}, closed : BOOLEAN, target : Instances \cup {None}]

NoCall == [pc |-> "idle", retry |-> FALSE, conn |-> None, closed |-> FALSE, target |-> None]

ClientInit ==
    /\ kind \in Kinds
    /\ cache = None /\ rrState = 0
    /\ client = None
    /\ fresh = FALSE
    /\ calls = [c \in 1 .. faults + 1 |-> NoCall]

\* The bounds are shared: with each goroutine more there is one fault less.
Init == \E n \in 1 .. MaxCallers : RegistryInit(n - 1) /\ ClientInit

\* The types of both parts; a key hangs on a lease that has not ended.
DiscoveryTypeOK ==
    /\ RegistryTypeOK
    /\ kind \in Kinds
    /\ cache = None \/ cache \subseteq Instances
    /\ rrState \in 0 .. factorial[NumInstances] - 1
    /\ client \in Instances \cup {None}
    /\ fresh \in BOOLEAN
    /\ \E n \in 1 .. MaxCallers : calls \in [1 .. n -> Call]

Serving(i) == main[i] = "serving"

----------------------------------------------------------------------------
(* The resolver. *)

\* The endpoints it answers with: the cached ones, or a fresh read of etcd, which it caches,
\* also when there are none.
Endpoints == IF cache # None THEN cache ELSE Listed

\* pickEndpoint: the endpoints, sorted by key, in turn.
Pick(endpoints) ==
    CHOOSE e \in endpoints :
      Cardinality({f \in endpoints : f < e}) = rrState % Cardinality(endpoints)

Turn(endpoints) ==
    IF Cardinality(endpoints) = 1 THEN rrState ELSE (rrState + 1) % factorial[NumInstances]

\* Resolve gives t.
Resolves(t) ==
    /\ Endpoints # {}
    /\ t = Pick(Endpoints)
    /\ cache' = Endpoints
    /\ rrState' = Turn(Endpoints)

ResolveFails ==
    \/ Endpoints = {} /\ cache' = {} /\ NoFault /\ UNCHANGED rrState
    \/ cache = None /\ Fault /\ UNCHANGED <<cache, rrState>>

\* Mutant of CacheExpires: the entry that says there is no endpoint has no end.
CacheExpiresFound ==
    /\ cache \notin {None, {}}
    /\ cache' = None
    /\ UNCHANGED <<registryVars, kind, rrState, client, fresh, calls>>

CacheExpires ==
    /\ cache # None
    /\ cache' = None
    /\ UNCHANGED <<registryVars, kind, rrState, client, fresh, calls>>

\* refreshInterval has passed.
ClientAges ==
    /\ fresh
    /\ fresh' = FALSE
    /\ UNCHANGED <<registryVars, kind, cache, rrState, client, calls>>

----------------------------------------------------------------------------
(* The shared connection. *)

Step(c, r) == calls' = [calls EXCEPT ![c] = r]

\* The start of the process: ResolveWithRetry and NewDynamic; without an endpoint, or when
\* nobody answers there, it exits and is started again.
NewDynamic ==
    /\ client = None /\ ~kind.each
    /\ \/ /\ \E t \in Instances :
               /\ Resolves(t)
               /\ IF Serving(t) THEN client' = t /\ fresh' = TRUE ELSE UNCHANGED <<client, fresh>>
          /\ NoFault
       \/ ResolveFails /\ UNCHANGED <<client, fresh>>
    /\ UNCHANGED <<main, loop, lease, pending, alive, key, late, kind, calls>>

\* clientForCall reads the connection before it refreshes.
BeginCall(c) ==
    /\ client # None
    /\ calls[c].pc \in {"idle", "done"}
    /\ Step(c, [NoCall EXCEPT !.pc = "refresh", !.conn = client])
    /\ UNCHANGED <<registryVars, kind, cache, rrState, client, fresh>>

\* A refresh that fails: a first attempt falls back on the connection it had read, a retry
\* gives the error of the first attempt.
RefreshFails(c) ==
    Step(c, IF calls[c].retry THEN NoCall ELSE [calls[c] EXCEPT !.pc = "invoke", !.target = None])

\* The refresh is over; the call reads the connection again.
Takes(r) == [NoCall EXCEPT !.pc = "take", !.retry = r.retry]

\* reconnectMu is held from the start of a refresh to the end of its dial.
ReconnectMuFree == \A c \in Callers : calls[c].pc # "dial"

\* refresh up to the dial, under reconnectMu.
Refresh(c) ==
    LET r == calls[c] IN
    /\ r.pc = "refresh" /\ ReconnectMuFree
    /\ \/ /\ ~r.retry /\ fresh
          /\ Step(c, Takes(r))
          /\ NoFault
          /\ UNCHANGED <<cache, rrState, fresh>>
       \/ /\ r.retry \/ ~fresh
          /\ ResolveFails
          /\ RefreshFails(c)
          /\ UNCHANGED fresh
       \/ /\ r.retry \/ ~fresh
          /\ NoFault
          /\ \E t \in Instances :
               /\ Resolves(t)
               /\ IF client = t /\ ~(r.retry /\ kind.redial)
                  THEN fresh' = TRUE /\ Step(c, Takes(r))
                  ELSE UNCHANGED fresh /\ Step(c, [r EXCEPT !.pc = "dial", !.target = t])
    /\ UNCHANGED <<main, loop, lease, pending, alive, key, late, kind, client>>

\* The dial blocks until the endpoint answers, or times out; then the connections are swapped
\* and the previous one is closed, also under the calls that still use it.
Dial(c) ==
    LET r == calls[c] IN
    /\ r.pc = "dial"
    /\ \/ /\ Serving(r.target)
          /\ client' = r.target
          /\ fresh' = TRUE
          /\ calls' = [d \in Callers |->
                         IF d = c THEN Takes(r)
                         ELSE IF calls[d].conn = None THEN calls[d]
                         ELSE [calls[d] EXCEPT !.closed = TRUE]]
       \/ /\ ~Serving(r.target)
          /\ RefreshFails(c)
          /\ UNCHANGED <<client, fresh>>
    /\ UNCHANGED <<registryVars, kind, cache, rrState>>

TakeClient(c) ==
    /\ calls[c].pc = "take"
    /\ Step(c, [calls[c] EXCEPT !.pc = "invoke", !.conn = client])
    /\ UNCHANGED <<registryVars, kind, cache, rrState, client, fresh>>

\* Unavailable and DeadlineExceeded; a call on a closed connection ends with Canceled.
IsRetryable(c) == ~calls[c].closed /\ ~calls[c].retry

\* The service can be reached over the connection of the call.
Reaches(c) == ~calls[c].closed /\ Serving(calls[c].conn)

\* The service answers.
Answered(c) ==
    /\ calls[c].pc = "invoke" /\ Reaches(c)
    /\ Step(c, [NoCall EXCEPT !.pc = "done"])
    /\ UNCHANGED <<registryVars, kind, cache, rrState, client, fresh>>

\* One RPC, retried once on a new connection.
InvokeWithRetry(c) ==
    \/ Answered(c)
    \/ /\ calls[c].pc = "invoke"
       /\ IF Reaches(c) THEN Fault ELSE NoFault
       /\ Step(c, IF IsRetryable(c) THEN [NoCall EXCEPT !.pc = "refresh", !.retry = TRUE] ELSE NoCall)
       /\ UNCHANGED <<main, loop, lease, pending, alive, key, late, kind, cache, rrState, client, fresh>>

\* A request through the proxy, or to the knowledge base: no connection is kept and nothing is
\* tried again.
ServeHTTP(c) ==
    /\ kind.each
    /\ \/ \E t \in Instances :
            /\ Resolves(t)
            /\ Step(c, IF Serving(t) THEN [NoCall EXCEPT !.pc = "done"] ELSE NoCall)
            /\ NoFault
       \/ ResolveFails /\ Step(c, NoCall)
    /\ UNCHANGED <<main, loop, lease, pending, alive, key, late, kind, client, fresh>>

CallRuns(c) ==
    \/ ServeHTTP(c) \/ BeginCall(c) \/ Refresh(c) \/ Dial(c) \/ TakeClient(c) \/ InvokeWithRetry(c)

Next ==
    \/ RegistryNext /\ UNCHANGED clientVars
    \/ CacheExpires \/ ClientAges \/ NewDynamic
    \/ \E c \in Callers : CallRuns(c)

\* Processes run, etcd ends the leases nobody keeps, clocks advance and requests keep coming;
\* an instance need not be started again.  Strong fairness of an answer: a round trip is far
\* shorter than refreshInterval, so that not every connection is replaced under its calls.
Fairness ==
    /\ WF_vars(RegistryRuns /\ NoFault /\ UNCHANGED clientVars)
    /\ WF_vars(CacheExpires) /\ WF_vars(ClientAges) /\ WF_vars(NewDynamic)
    /\ WF_vars(\E c \in Callers : CallRuns(c))
    /\ SF_vars(\E c \in Callers : Answered(c))

Spec == Init /\ [][Next]_vars /\ Fairness

----------------------------------------------------------------------------
\* Once faults stop, etcd lists exactly the instances that serve, for good: a process that ended
\* in any way, or whose Close raced a re-registration, is gone from it, and one that lost its
\* lease is back (Registrar.Close, keepAliveLoop).
RegistryConverges == <>[](Listed = {i \in Instances : Serving(i)})

\* After any finite number of faults, restarts and fail-overs calls succeed again, as long as an
\* instance serves (refresh, invokeWithRetry, Resolver).
CallsRecover == <>[](\E i \in Instances : Serving(i)) => []<>(\E c \in Callers : calls[c].pc = "done")
=============================================================================
