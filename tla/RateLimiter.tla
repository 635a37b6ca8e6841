---------------------------- MODULE RateLimiter ----------------------------
(***************************************************************************)
(* The rate limiters of gateway-service.  A request is checked under       *)
(* several keys; a key is counted in Redis, shared by all gateways, for    *)
(* the current minute; when Redis fails, or has failed often enough to     *)
(* open the circuit, the gateway's own token bucket of the key decides.    *)
(*                                                                         *)
(* Time is counted in ticks, the time in which a bucket gains one token    *)
(* (a minute has PerMinute of them), from 1: 0 is Go's zero time.          *)
(***************************************************************************)
EXTENDS Naturals, FiniteSets, Sequences, Bags

CONSTANTS
    Limiters,       \* the limiter of one scope in each gateway process
    Handlers,       \* requests in progress
    Callers,        \* who asks: records of type Caller
    Absent,         \* an absent field
    PerMinute, Burst, Ttl, MaxEntries,     \* arguments of New; Ttl in ticks
    FailCount, OpenWindow,                 \* of the circuit; OpenWindow in ticks
    MaxTime,        \* bound: ticks
    MaxRequests     \* bound: requests

VARIABLES
    now,            \* the clock
    entries,        \* per limiter: the token buckets, by key
    lastCleanup,    \* per limiter
    circuit,        \* per limiter: failures and open_until
    counters,       \* Redis: a bag of <<minute, key>>
    requests,       \* the requests in progress
    arrived,        \* requests so far
    granted,        \* history: the bag of <<minute, key>> Redis let through
    local,          \* history: how many requests a limiter's bucket of a key let through by each tick
    failing         \* history, per limiter: Redis failures since its last success

vars == <<now, entries, lastCleanup, circuit, counters, requests, arrived, granted, local, failing>>

Caller == [scope : {"login", "visitor", "staff"}, ip : STRING, action : STRING,
           site : STRING \cup {Absent}, conversation : Nat, id : STRING \cup {Absent}]

ASSUME LimiterAssumption ==
    /\ PerMinute \in Nat \ {0} /\ Burst \in Nat \ {0} /\ MaxEntries \in Nat \ {0}
    /\ FailCount \in Nat \ {0} /\ OpenWindow \in Nat \ {0}
    /\ MaxTime \in Nat \ {0} /\ MaxRequests \in Nat
    /\ IsFiniteSet(Handlers)
    /\ Callers \subseteq Caller

\* A bucket idle for Ttl is full again, so forgetting it gives nothing away.  (The defaults:
\* 30 minutes at 60 to 240 tokens a minute, bursts of at most 80.)
ASSUME TtlRefills == Ttl \in Nat /\ Ttl >= Burst

----------------------------------------------------------------------------
(* The keys of a request, in the order in which they are checked. *)

BuildLoginKey(c) == <<<<"login", c.ip, c.id>>>>

BuildActorRateLimitKeys(c) ==
    <<<<"staff:ip", c.ip>>, <<"staff:ip_action", c.action, c.ip>>>>
    \o (IF c.id = Absent THEN <<>>
        ELSE <<<<"staff:id", c.id>>, <<"staff:id_action", c.action, c.id>>,
               <<"staff:id_ip", c.id, c.ip>>>>)

BuildVisitorRateLimitKeys(c) ==
    <<<<"visitor:ip", c.ip>>, <<"visitor:ip_action", c.action, c.ip>>>>
    \o (IF c.site = Absent THEN <<>>
        ELSE <<<<"visitor:site", c.site, c.ip>>, <<"visitor:site_action", c.action, c.site, c.ip>>>>)
    \o (IF c.id = Absent THEN <<>>
        ELSE <<<<"visitor:token", c.id>>, <<"visitor:token_action", c.action, c.id>>,
               <<"visitor:token_ip", c.id, c.ip>>>>)
    \o (IF c.conversation = 0 THEN <<>>
        ELSE <<<<"visitor:conversation", c.conversation>>,
               <<"visitor:conversation_action", c.action, c.conversation>>>>
             \o (IF c.id = Absent THEN <<>>
                 ELSE <<<<"visitor:conversation_token", c.conversation, c.id>>>>))

KeysOf(c) ==
    CASE c.scope = "login" -> BuildLoginKey(c)
      [] c.scope = "staff" -> BuildActorRateLimitKeys(c)
      [] c.scope = "visitor" -> BuildVisitorRateLimitKeys(c)

AllKeys == UNION {{KeysOf(c)[i] : i \in DOMAIN KeysOf(c)} : c \in Callers}

----------------------------------------------------------------------------
Copies(e, bag) == IF BagIn(e, bag) THEN bag[e] ELSE 0

Minute(t) == t \div PerMinute
DistributedLimit == PerMinute + Burst

Entry == [tokens : 0 .. Burst, at : Nat, lastSeen : Nat]
Circuit == [failures : 0 .. FailCount, open_until : Nat]
\* at: the time the handler read before it asked Redis, used again after the answer.
Request == [pc : {"idle", "circuit", "incr", "after", "local"}, limiter : Limiters \cup {Absent},
            keys : Seq(AllKeys), at : Nat, count : Nat]

Idle == [pc |-> "idle", limiter |-> Absent, keys |-> <<>>, at |-> 0, count |-> 0]

Init ==
    /\ now = 1
    /\ entries = [l \in Limiters |-> <<>>]
    /\ lastCleanup = [l \in Limiters |-> 0]
    /\ circuit = [l \in Limiters |-> [failures |-> 0, open_until |-> 0]]
    /\ counters = EmptyBag
    /\ requests = [h \in Handlers |-> Idle]
    /\ arrived = 0
    /\ granted = EmptyBag
    /\ local = [l \in Limiters |-> [k \in AllKeys |-> [t \in 0 .. MaxTime |-> 0]]]
    /\ failing = [l \in Limiters |-> 0]

\* Only the type of the state, and that the table of buckets respects its bound.
LimiterTypeOK ==
    /\ \A l \in Limiters : /\ DOMAIN entries[l] \subseteq AllKeys
                           /\ Cardinality(DOMAIN entries[l]) <= MaxEntries
                           /\ \A k \in DOMAIN entries[l] : entries[l][k] \in Entry
    /\ circuit \in [Limiters -> Circuit]
    /\ \A h \in Handlers : requests[h].pc \in {"idle", "circuit", "incr", "after", "local"}

----------------------------------------------------------------------------
\* A handler checks its request: the limiter of the gateway that got it, key after key.
ApplyRateLimit(h, l, c) ==
    /\ requests[h].pc = "idle"
    /\ arrived < MaxRequests
    /\ arrived' = arrived + 1
    /\ requests' = [requests EXCEPT ![h] =
         [pc |-> "circuit", limiter |-> l, keys |-> KeysOf(c), at |-> now, count |-> 0]]
    /\ UNCHANGED <<now, entries, lastCleanup, circuit, counters, granted, local, failing>>

\* Allow returned: on to the next key, or the request is let through or refused.
Continue(h, allowed) ==
    LET r == requests[h] IN
    requests' = [requests EXCEPT ![h] =
        IF allowed /\ Len(r.keys) > 1
        THEN [r EXCEPT !.pc = "circuit", !.keys = Tail(@), !.at = now, !.count = 0]
        ELSE Idle]

IsCircuitOpen(h) ==
    LET r == requests[h]
        until == circuit[r.limiter].open_until
        open == until # 0 /\ r.at < until
    IN /\ r.pc = "circuit"
       /\ requests' = [requests EXCEPT ![h].pc = IF open THEN "local" ELSE "incr"]
       /\ circuit' = IF open THEN circuit ELSE [circuit EXCEPT ![r.limiter].open_until = 0]
       /\ UNCHANGED <<now, entries, lastCleanup, counters, arrived, granted, local, failing>>

OnDistributedFailure(h) ==
    LET r == requests[h]
        c == circuit[r.limiter]
        opens == c.failures + 1 >= FailCount
    IN circuit' =
         IF c.open_until # 0 /\ r.at < c.open_until THEN circuit
         ELSE [circuit EXCEPT ![r.limiter] =
                 [failures |-> IF opens THEN 0 ELSE c.failures + 1,
                  open_until |-> IF opens THEN r.at + OpenWindow ELSE c.open_until]]

\* Mutant of OnDistributedSuccess: failures keep adding up across successes.
OnDistributedSuccessForgets(h) ==
    circuit' = [circuit EXCEPT ![requests[h].limiter].open_until = 0]

OnDistributedSuccess(h) ==
    circuit' = [circuit EXCEPT ![requests[h].limiter] = [failures |-> 0, open_until |-> 0]]

\* INCR and EXPIRE in one transaction; a failed call may have counted.
IncrWithTTL(h) ==
    LET r == requests[h]
        key == <<Minute(r.at), Head(r.keys)>>
        counted == counters (+) SetToBag({key})
    IN /\ r.pc = "incr"
       /\ \/ /\ counters' = counted
             /\ requests' = [requests EXCEPT ![h].pc = "after", ![h].count = Copies(key, counted)]
             /\ UNCHANGED <<circuit, failing>>
          \/ /\ counters' \in {counters, counted}
             /\ OnDistributedFailure(h)
             /\ failing' = [failing EXCEPT ![r.limiter] = @ + 1]
             /\ requests' = [requests EXCEPT ![h].pc = "local"]
       /\ UNCHANGED <<now, entries, lastCleanup, arrived, granted, local>>

WithinLimit(count) == count <= DistributedLimit

\* The answer of Redis decides, and closes the circuit.
AllowDistributed(h) ==
    LET r == requests[h]
        allowed == WithinLimit(r.count)
    IN /\ r.pc = "after"
       /\ OnDistributedSuccess(h)
       /\ failing' = [failing EXCEPT ![r.limiter] = 0]
       /\ granted' = IF allowed THEN granted (+) SetToBag({<<Minute(r.at), Head(r.keys)>>}) ELSE granted
       /\ Continue(h, allowed)
       /\ UNCHANGED <<now, entries, lastCleanup, counters, arrived, local>>

Expired(l) == {k \in DOMAIN entries[l] : entries[l][k].lastSeen + Ttl < now}

\* Once a minute, on the way: the table after the cleanup.
CleanupIfNeeded(l) ==
    IF lastCleanup[l] # 0 /\ now - lastCleanup[l] < PerMinute THEN entries[l]
    ELSE [k \in DOMAIN entries[l] \ Expired(l) |-> entries[l][k]]

HasRoom(table) == Cardinality(DOMAIN table) < MaxEntries

\* The bucket of the key now; a key that has none gets a full one.
Refilled(table, key) ==
    IF key \notin DOMAIN table THEN Burst
    ELSE LET t == table[key].tokens + (now - table[key].at) IN IF t < Burst THEN t ELSE Burst

\* Mutant of StoreEntry: the bucket of a new key is used but not kept.
StoreKnownOnly(table, key, e) == [k \in DOMAIN table |-> IF k = key THEN e ELSE table[k]]

StoreEntry(table, key, e) == [k \in DOMAIN table \cup {key} |-> IF k = key THEN e ELSE table[k]]

CountedNow(l, key) ==
    [local EXCEPT ![l][key] = [t \in 0 .. MaxTime |-> IF t < now THEN @[t] ELSE @[t] + 1]]

\* Under the limiter's mutex.  A full table lets an unknown key through, uncounted.
AllowLocal(h) ==
    LET r == requests[h]
        l == r.limiter
        key == Head(r.keys)
        table == CleanupIfNeeded(l)
        tokens == Refilled(table, key)
    IN /\ r.pc = "local"
       /\ lastCleanup' = IF lastCleanup[l] # 0 /\ now - lastCleanup[l] < PerMinute THEN lastCleanup
                         ELSE [lastCleanup EXCEPT ![l] = now]
       /\ \/ /\ key \notin DOMAIN table /\ ~HasRoom(table)
             /\ entries' = [entries EXCEPT ![l] = table]
             /\ Continue(h, TRUE)
             /\ UNCHANGED local
          \/ /\ key \in DOMAIN table \/ HasRoom(table)
             /\ entries' = [entries EXCEPT ![l] = StoreEntry(table, key,
                  [tokens |-> IF tokens > 0 THEN tokens - 1 ELSE 0, at |-> now, lastSeen |-> now])]
             /\ Continue(h, tokens > 0)
             /\ local' = IF tokens > 0 THEN CountedNow(l, key) ELSE local
       /\ UNCHANGED <<now, circuit, counters, arrived, granted, failing>>

Tick ==
    /\ now < MaxTime
    /\ now' = now + 1
    /\ UNCHANGED <<entries, lastCleanup, circuit, counters, requests, arrived, granted, local, failing>>

Next ==
    \/ Tick
    \/ \E h \in Handlers :
         \/ \E l \in Limiters, c \in Callers : ApplyRateLimit(h, l, c)
         \/ IsCircuitOpen(h) \/ IncrWithTTL(h) \/ AllowDistributed(h) \/ AllowLocal(h)

Spec == Init /\ [][Next]_vars

----------------------------------------------------------------------------
\* No key gets more than it may, although a request is checked on the way by whichever counter
\* works.  Through Redis: however many gateways count at once, and however calls fail, per-minute
\* + burst in one minute (allowDistributed).  Through a gateway's own bucket: in any stretch of
\* time the burst and what the stretch refills, also across a cleanup that forgets idle buckets
\* (allowLocal, cleanupIfNeeded), in a table that never grows past its bound.
RatesBounded ==
    /\ LimiterTypeOK
    /\ \A b \in BagToSet(granted) : Copies(b, granted) <= DistributedLimit
    /\ \A l \in Limiters, k \in AllKeys, t1, t2 \in 1 .. MaxTime :
          t1 <= t2 => local[l][k][t2] <= local[l][k][t1 - 1] + Burst + (t2 - t1)

\* The circuit is open only after FailCount failures with no success between them, and for no
\* longer than its window from now, though concurrent calls report out of order with the time
\* they started at (onDistributedFailure, onDistributedSuccess).
CircuitJustified ==
    \A l \in Limiters : circuit[l].open_until # 0 =>
        /\ failing[l] >= FailCount
        /\ circuit[l].open_until <= now + OpenWindow
=============================================================================
