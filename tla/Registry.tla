------------------------------ MODULE Registry ------------------------------
(***************************************************************************)
(* Service registration in etcd.  A service puts its endpoint under its    *)
(* own key with a lease before it is ready to serve; a goroutine keeps the *)
(* lease alive and registers again when it is lost; a clean shutdown stops *)
(* serving first, then removes the key.  A process that dies, or exits     *)
(* because a part of its start-up fails, leaves the key to its lease.      *)
(***************************************************************************)
EXTENDS Integers, FiniteSets, FiniteSetsExt, Sequences, SequencesExt

CONSTANTS
    NumInstances,   \* instances of one service, each with its own key
    NumLeases,      \* leases an instance can have at once
    MaxFaults       \* bound: failed calls, lost leases, kills and shutdowns

VARIABLES
    main,           \* where the main function of each instance is
    loop,           \* where its keep-alive goroutine is
    lease,          \* Registrar.leaseID
    pending,        \* the lease of a re-registration in progress
    alive,          \* etcd: the leases of each instance that have not ended
    key,            \* etcd: the lease the instance's key hangs on, 0 without a key
    late,           \* a Put etcd may still apply though its caller gave up, 0 if none
    faults

registryVars == <<main, loop, lease, pending, alive, key, late, faults>>

Instances == 1 .. NumInstances
Leases == 1 .. NumLeases

ASSUME RegistryAssumption == {NumInstances, NumLeases} \subseteq Nat \ {0} /\ MaxFaults \in Nat

----------------------------------------------------------------------------
(* What each main function does, in order: "register" puts the endpoint in etcd, "resolve"   *)
(* waits up to 30 s for the services it calls, "init" is everything else that can fail       *)
(* (configuration, MySQL, Redis), "listen" starts serving.  A failure ends the process.      *)

AuthMain == [plan |-> <<"register", "init", "listen">>, needs |-> {}]
AdminMain == [plan |-> <<"register", "init", "listen">>, needs |-> {}]
ChatMain == [plan |-> <<"register", "init", "listen">>, needs |-> {}]
RealtimeMain == [plan |-> <<"init", "resolve", "register", "listen">>,
                 needs |-> {"chat", "auth", "admin"}]
AIMain == [plan |-> <<"init", "resolve", "register", "init", "listen">>, needs |-> {"chat", "admin"}]
GatewayMain == [plan |-> <<"resolve", "init", "listen">>,
                needs |-> {"chat", "auth", "admin", "realtime", "ai"}]

Services == [chat |-> ChatMain, auth |-> AuthMain, admin |-> AdminMain,
             realtime |-> RealtimeMain, ai |-> AIMain, gateway |-> GatewayMain]

\* The services a service waits for before it can be found itself.
WaitsFor(s) ==
    LET At(step) == IF Contains(Services[s].plan, step) THEN SelectInSeq(Services[s].plan, LAMBDA x : x = step)
                    ELSE Len(Services[s].plan) + 1
    IN IF At("resolve") < At("register") THEN Services[s].needs ELSE {}

\* Nobody waits, directly or through others, for somebody who waits for it: the start order of
\* the six services has no cycle.
StartOrder == <<"chat", "auth", "admin", "realtime", "ai", "gateway">>
ASSUME StartupAcyclic ==
    \A i, j \in DOMAIN StartOrder : StartOrder[j] \in WaitsFor(StartOrder[i]) => j < i

----------------------------------------------------------------------------
MainSteps == {"down", "register", "init", "serving", "drain", "close"}
LoopSteps == {"none", "consume", "sleep", "put", "done"}

RegistryTypeOK ==
    /\ main \in [Instances -> MainSteps]
    /\ loop \in [Instances -> LoopSteps]
    /\ lease \in [Instances -> {0} \cup Leases]
    /\ pending \in [Instances -> {0} \cup Leases]
    /\ alive \in [Instances -> SUBSET Leases]
    /\ key \in [Instances -> {0} \cup Leases]
    /\ \A i \in Instances : key[i] \in alive[i] \cup {0}
    /\ late \in [Instances -> {0} \cup Leases]
    /\ faults \in 0 .. MaxFaults

RegistryInit(f) ==
    /\ main = [i \in Instances |-> "down"]
    /\ loop = [i \in Instances |-> "none"]
    /\ lease = [i \in Instances |-> 0]
    /\ pending = [i \in Instances |-> 0]
    /\ alive = [i \in Instances |-> {}]
    /\ key = [i \in Instances |-> 0]
    /\ late = [i \in Instances |-> 0]
    /\ faults = f

Fault == faults < MaxFaults /\ faults' = faults + 1
NoFault == UNCHANGED faults

MainGoes(i, step) == main' = [main EXCEPT ![i] = step]
LoopGoes(i, step) == loop' = [loop EXCEPT ![i] = step]

\* stopCtx is cancelled.
Stopping(i) == main[i] = "close"

\* etcd: a new lease, a Put with a lease, and the end of a lease, which takes the keys on it.
FreeLeases(i) == Leases \ (alive[i] \cup {lease[i], pending[i], late[i]})
NewLease(i) == Min(FreeLeases(i))
Grant(i) == FreeLeases(i) # {} /\ alive' = [alive EXCEPT ![i] = @ \cup {NewLease(i)}]
PutWithLease(i, l) == IF l \in alive[i] THEN [key EXCEPT ![i] = l] ELSE key
WithoutLease(i, l) == IF key[i] = l THEN [key EXCEPT ![i] = 0] ELSE key
LeaseEnds(i, l) ==
    /\ alive' = [alive EXCEPT ![i] = @ \ {l}]
    /\ key' = WithoutLease(i, l)

\* The process is gone; a Put it had sent may still arrive.
Exits(i) ==
    /\ MainGoes(i, "down")
    /\ LoopGoes(i, "none")
    /\ lease' = [lease EXCEPT ![i] = 0]
    /\ pending' = [pending EXCEPT ![i] = 0]
    /\ \E sent \in {0, late[i]} \cup (IF main[i] = "register" THEN {lease[i]} ELSE {})
                 \cup (IF loop[i] = "put" THEN {pending[i]} ELSE {}) :
         late' = [late EXCEPT ![i] = sent]

----------------------------------------------------------------------------
(* The main function. *)

\* The supervisor starts it again, once nothing of the last process is on its way; Register
\* takes a lease.
Start(i) ==
    /\ main[i] = "down" /\ late[i] = 0
    /\ Grant(i)
    /\ lease' = [lease EXCEPT ![i] = NewLease(i)]
    /\ MainGoes(i, "register")
    /\ UNCHANGED <<loop, pending, key, late, faults>>

\* The endpoint is put, and the keep-alive goroutine starts.
RegisterPut(i) ==
    /\ main[i] = "register"
    /\ \/ /\ key' = PutWithLease(i, lease[i]) /\ NoFault
          /\ MainGoes(i, "init") /\ LoopGoes(i, "consume")
          /\ UNCHANGED <<lease, pending, late>>
       \/ Fault /\ key' \in {key, PutWithLease(i, lease[i])} /\ Exits(i)
    /\ UNCHANGED alive

\* The rest of the start-up; logger.Fatal exits without running the deferred Close.
StartUp(i) ==
    /\ main[i] = "init"
    /\ \/ NoFault /\ MainGoes(i, "serving") /\ UNCHANGED <<loop, lease, pending, late>>
       \/ Fault /\ Exits(i)
    /\ UNCHANGED <<alive, key>>

\* A signal, or a server that fails: the servers stop, the key is still there.
Shutdown(i) ==
    /\ main[i] = "serving"
    /\ Fault
    /\ MainGoes(i, "drain")
    /\ UNCHANGED <<loop, lease, pending, alive, key, late>>

\* The servers have stopped; the deferred Close cancels the loop's context.
CloseBegins(i) ==
    /\ main[i] = "drain"
    /\ MainGoes(i, "close")
    /\ UNCHANGED <<loop, lease, pending, alive, key, late, faults>>

\* When the loop has ended, or after 1.2 s, Close deletes the key and revokes the lease; either
\* may fail.
CloseEnds(i) ==
    /\ main[i] = "close"
    /\ \/ NoFault /\ key' = [key EXCEPT ![i] = 0] /\ alive' = [alive EXCEPT ![i] = @ \ {lease[i]}]
       \/ Fault /\ LeaseEnds(i, lease[i])
       \/ Fault /\ key' \in {key, [key EXCEPT ![i] = 0]} /\ UNCHANGED alive
    /\ Exits(i)

\* The process is killed.
Kill(i) ==
    /\ main[i] # "down"
    /\ Fault
    /\ Exits(i)
    /\ UNCHANGED <<alive, key>>

----------------------------------------------------------------------------
(* The keep-alive goroutine. *)

\* The channel closes because the lease is gone.
ConsumeKeepAlive(i) ==
    /\ loop[i] = "consume" /\ ~Stopping(i)
    /\ lease[i] \notin alive[i]
    /\ LoopGoes(i, "sleep")
    /\ UNCHANGED <<main, lease, pending, alive, key, late, faults>>

\* reRegister takes a new lease; without one the loop sleeps again.
ReRegisterGrant(i) ==
    /\ loop[i] = "sleep" /\ ~Stopping(i)
    /\ Grant(i)
    /\ pending' = [pending EXCEPT ![i] = NewLease(i)]
    /\ LoopGoes(i, "put")
    /\ UNCHANGED <<main, lease, key, late, faults>>

\* Mutant of ReRegisterPut: the loop ends at the first failure.
ReRegisterPutOnce(i) ==
    /\ loop[i] = "put"
    /\ pending' = [pending EXCEPT ![i] = 0]
    /\ \/ /\ NoFault
          /\ key' = PutWithLease(i, pending[i])
          /\ lease' = [lease EXCEPT ![i] = pending[i]]
          /\ LoopGoes(i, "consume")
       \/ Fault /\ LoopGoes(i, "done") /\ UNCHANGED <<key, lease>>
    /\ UNCHANGED <<main, alive, late>>

\* reRegister puts the endpoint and keeps the new lease alive; leaseID names it only then.
ReRegisterPut(i) ==
    /\ loop[i] = "put"
    /\ pending' = [pending EXCEPT ![i] = 0]
    /\ \/ /\ NoFault
          /\ key' = PutWithLease(i, pending[i])
          /\ lease' = [lease EXCEPT ![i] = pending[i]]
          /\ LoopGoes(i, "consume")
       \/ /\ Fault
          /\ key' \in {key, PutWithLease(i, pending[i])}
          /\ LoopGoes(i, "sleep")
          /\ UNCHANGED lease
    /\ UNCHANGED <<main, alive, late>>

\* The context is cancelled; a Put in flight fails here but may still be applied.
LoopEnds(i) ==
    /\ Stopping(i)
    /\ loop[i] \in {"consume", "sleep", "put"}
    /\ \E sent \in {late[i]} \cup (IF loop[i] = "put" THEN {pending[i]} ELSE {}) :
         late' = [late EXCEPT ![i] = sent]
    /\ pending' = [pending EXCEPT ![i] = 0]
    /\ LoopGoes(i, "done")
    /\ UNCHANGED <<main, lease, alive, key, faults>>

----------------------------------------------------------------------------
(* etcd. *)

\* The leases somebody keeps, or has just been granted.
Kept(i) ==
    (IF main[i] = "register" \/ (loop[i] = "consume" /\ ~Stopping(i)) THEN {lease[i]} ELSE {})
    \cup (IF loop[i] = "put" THEN {pending[i]} ELSE {})

ExpireLease(i) ==
    /\ \E l \in alive[i] \ Kept(i) : LeaseEnds(i, l)
    /\ UNCHANGED <<main, loop, lease, pending, late, faults>>

\* etcd is out of reach for longer than the lease.
LoseLease(i) ==
    /\ loop[i] = "consume" /\ lease[i] \in alive[i]
    /\ Fault
    /\ LeaseEnds(i, lease[i])
    /\ UNCHANGED <<main, loop, lease, pending, late>>

\* A late Put arrives, or is lost.
LatePut(i) ==
    /\ late[i] # 0
    /\ key' \in {key, PutWithLease(i, late[i])}
    /\ late' = [late EXCEPT ![i] = 0]
    /\ UNCHANGED <<main, loop, lease, pending, alive, faults>>

----------------------------------------------------------------------------
MainRuns(i) == RegisterPut(i) \/ StartUp(i) \/ CloseBegins(i) \/ CloseEnds(i)
KeepAliveLoop(i) == ConsumeKeepAlive(i) \/ ReRegisterGrant(i) \/ ReRegisterPut(i) \/ LoopEnds(i)

RegistryRuns ==
    \E i \in Instances : MainRuns(i) \/ KeepAliveLoop(i) \/ ExpireLease(i) \/ LatePut(i)

RegistryNext ==
    \/ RegistryRuns
    \/ \E i \in Instances : Start(i) \/ Shutdown(i) \/ Kill(i) \/ LoseLease(i)

\* The endpoints Get returns for the service.
Listed == {i \in Instances : key[i] # 0}
=============================================================================
