------------------------------ MODULE EdgeProofs ------------------------------
(***************************************************************************)
(* The two parts at the edge of the system: the rate limiter every request *)
(* passes, and the watchdog of the tunnel the requests come through.  They *)
(* share no state; each has its own invariant and theorems.                *)
(*                                                                         *)
(* The limiter, for any number of gateways, requests and keys and for any  *)
(* rates, bursts, windows and bounds.  Three arguments, one for each       *)
(* property: a request that Redis will let through already counts against  *)
(* the minute it asked in; what a bucket has let through in a stretch of   *)
(* time and what it holds now never exceed the burst and the refill of the *)
(* stretch, also when the bucket is forgotten, since by then it is full;   *)
(* and the failures the circuit counts all happened since the last         *)
(* success.                                                                *)
(*                                                                         *)
(* The watchdog, for any set of containers, any threshold, cooldown and    *)
(* number of faults.  The probes see the tunnel at different times, and it *)
(* changes between them, so the invariant ties their results to what was   *)
(* bad at some time during the check, and the watchdog's own counters to   *)
(* the histories they stand for: since is the true age of the last restart *)
(* Docker confirmed, and there were at least as many bad checks in a row   *)
(* as failures counted.                                                    *)
(***************************************************************************)
EXTENDS RateLimiter, Watchdog, FiniteSetTheorems, SequenceTheorems, WellFoundedInduction, TLAPS

-----------------------------------------------------------------------------
(* The rate limiter: the invariant *)

\* A request in progress has a limiter and a key, and a time in the past.
RequestsTrue ==
    /\ requests \in [Handlers -> Request]
    /\ \A h \in Handlers : requests[h].pc # "idle" =>
          /\ requests[h].limiter \in Limiters
          /\ requests[h].keys # << >>
          /\ requests[h].at <= now

\* The failures that the circuit counts, or counted when it opened, happened
\* since the last success.
CircuitTrue ==
    /\ circuit \in [Limiters -> Circuit]
    /\ failing \in [Limiters -> Nat]
    /\ \A l \in Limiters : circuit[l].failures <= failing[l]
    /\ CircuitJustified

\* The requests whose answer from Redis lets them through under b.
Winning(b) ==
    {h \in Handlers : /\ requests[h].pc = "after"
                      /\ WithinLimit(requests[h].count)
                      /\ <<Minute(requests[h].at), Head(requests[h].keys)>> = b}

\* What was let through, and what will be, has been counted.
SharedTrue ==
    /\ IsABag(counters) /\ IsABag(granted)
    /\ \A b : /\ Copies(b, granted) + Cardinality(Winning(b)) <= Copies(b, counters)
              /\ Copies(b, granted) + Cardinality(Winning(b)) <= DistributedLimit

\* The buckets fit their table, and were last used when they were last filled.
BucketsTrue ==
    /\ DOMAIN entries = Limiters
    /\ lastCleanup \in [Limiters -> Nat]
    /\ \A l \in Limiters :
          /\ DOMAIN entries[l] \subseteq AllKeys
          /\ IsFiniteSet(DOMAIN entries[l])
          /\ Cardinality(DOMAIN entries[l]) <= MaxEntries
          /\ \A k \in DOMAIN entries[l] :
                /\ entries[l][k] \in Entry
                /\ entries[l][k].at = entries[l][k].lastSeen
                /\ entries[l][k].at <= now

\* In every stretch of time up to now, a bucket let through and still holds no
\* more than the burst and the refill; stretches that are over stay so.
BucketFair(l, k) ==
    /\ \A t \in now .. MaxTime : local[l][k][t] = local[l][k][now]
    /\ \A t \in 1 .. now :
          local[l][k][now] + Refilled(entries[l], k) <= local[l][k][t - 1] + Burst + (now - t)
    /\ \A t1, t2 \in 1 .. MaxTime : t1 <= t2 /\ t2 < now =>
          local[l][k][t2] <= local[l][k][t1 - 1] + Burst + (t2 - t1)

LocalTrue ==
    /\ local \in [Limiters -> [AllKeys -> [0 .. MaxTime -> Nat]]]
    /\ \A l \in Limiters, k \in AllKeys : BucketFair(l, k)

LimiterInv ==
    now \in 1 .. MaxTime /\ RequestsTrue /\ CircuitTrue /\ SharedTrue /\ BucketsTrue /\ LocalTrue

-----------------------------------------------------------------------------
(* Keys, bags and buckets *)

\* Two sequences of keys, one after the other.
LEMMA JoinKeys ==
  ASSUME NEW T, NEW s \in Seq(T), NEW u \in Seq(T), s # << >>
  PROVE  s \o u \in Seq(T) /\ s \o u # << >>
  BY ConcatProperties, EmptySeq

\* The keys of a request are keys, and there is at least one.
LEMMA KeysOfCaller ==
  ASSUME NEW c \in Callers
  PROVE  KeysOf(c) \in Seq(AllKeys) /\ KeysOf(c) # << >>
<1>0. c \in Caller
  BY LimiterAssumption
<1>1. \E T : KeysOf(c) \in Seq(T) /\ KeysOf(c) # << >>
  <2>1. CASE c.scope = "login"
    <3>1. KeysOf(c) = <<<<"login", c.ip, c.id>>>>
      BY <2>1 DEF KeysOf, BuildLoginKey
    <3>2. <<<<"login", c.ip, c.id>>>> \in Seq({<<"login", c.ip, c.id>>})
      OBVIOUS
    <3>3. <<<<"login", c.ip, c.id>>>> # << >>
      OBVIOUS
    <3> QED BY <3>1, <3>2, <3>3
  <2>2. CASE c.scope = "staff"
    <3> DEFINE k1 == <<"staff:ip", c.ip>>
               k2 == <<"staff:ip_action", c.action, c.ip>>
               k3 == <<"staff:id", c.id>>
               k4 == <<"staff:id_action", c.action, c.id>>
               k5 == <<"staff:id_ip", c.id, c.ip>>
               T == {k1, k2, k3, k4, k5}
               rest == IF c.id = Absent THEN << >> ELSE <<k3, k4, k5>>
    <3>1. KeysOf(c) = <<k1, k2>> \o rest
      BY <2>2 DEF KeysOf, BuildActorRateLimitKeys
    <3>2. <<k1, k2>> \in Seq(T) /\ <<k3, k4, k5>> \in Seq(T) /\ << >> \in Seq(T) /\ <<k1, k2>> # << >>
      <4> HIDE DEF k1, k2, k3, k4, k5
      <4> QED OBVIOUS
    <3> HIDE DEF k1, k2, k3, k4, k5, T
    <3>3. rest \in Seq(T)
      BY <3>2
    <3> HIDE DEF rest
    <3> QED BY <3>1, <3>2, <3>3, JoinKeys
  <2>3. CASE c.scope = "visitor"
    <3> DEFINE k1 == <<"visitor:ip", c.ip>>
               k2 == <<"visitor:ip_action", c.action, c.ip>>
               k3 == <<"visitor:site", c.site, c.ip>>
               k4 == <<"visitor:site_action", c.action, c.site, c.ip>>
               k5 == <<"visitor:token", c.id>>
               k6 == <<"visitor:token_action", c.action, c.id>>
               k7 == <<"visitor:token_ip", c.id, c.ip>>
               k8 == <<"visitor:conversation", c.conversation>>
               k9 == <<"visitor:conversation_action", c.action, c.conversation>>
               k10 == <<"visitor:conversation_token", c.conversation, c.id>>
               T == {k1, k2, k3, k4, k5, k6, k7, k8, k9, k10}
               site == IF c.site = Absent THEN << >> ELSE <<k3, k4>>
               token == IF c.id = Absent THEN << >> ELSE <<k5, k6, k7>>
               both == IF c.id = Absent THEN << >> ELSE <<k10>>
               conversation == IF c.conversation = 0 THEN << >> ELSE <<k8, k9>> \o both
    <3>1. KeysOf(c) = ((<<k1, k2>> \o site) \o token) \o conversation
      BY <2>3 DEF KeysOf, BuildVisitorRateLimitKeys
    <3>2. /\ <<k1, k2>> \in Seq(T) /\ <<k3, k4>> \in Seq(T) /\ <<k5, k6, k7>> \in Seq(T)
          /\ <<k8, k9>> \in Seq(T) /\ <<k10>> \in Seq(T) /\ << >> \in Seq(T)
          /\ <<k1, k2>> # << >> /\ <<k8, k9>> # << >>
      <4> HIDE DEF k1, k2, k3, k4, k5, k6, k7, k8, k9, k10
      <4> QED OBVIOUS
    <3> HIDE DEF k1, k2, k3, k4, k5, k6, k7, k8, k9, k10, T
    <3>3. site \in Seq(T) /\ token \in Seq(T) /\ both \in Seq(T)
      BY <3>2
    <3>4. <<k8, k9>> \o both \in Seq(T)
      BY <3>2, <3>3, JoinKeys
    <3>5. conversation \in Seq(T)
      BY <3>2, <3>4
    <3> HIDE DEF site, token, both, conversation
    <3>6. <<k1, k2>> \o site \in Seq(T) /\ <<k1, k2>> \o site # << >>
      BY <3>2, <3>3, JoinKeys
    <3>7. (<<k1, k2>> \o site) \o token \in Seq(T) /\ (<<k1, k2>> \o site) \o token # << >>
      BY <3>3, <3>6, JoinKeys
    <3> QED BY <3>1, <3>5, <3>7, JoinKeys
  <2> QED BY <1>0, <2>1, <2>2, <2>3 DEF Caller
<1>2. PICK T : KeysOf(c) \in Seq(T) /\ KeysOf(c) # << >>
  BY <1>1
<1>3. \A i \in DOMAIN KeysOf(c) : KeysOf(c)[i] \in AllKeys
  BY DEF AllKeys
<1>4. KeysOf(c) \in Seq(AllKeys)
  <2>1. Len(KeysOf(c)) \in Nat /\ KeysOf(c) \in [1 .. Len(KeysOf(c)) -> T]
    BY <1>2, LenProperties
  <2>2. KeysOf(c) \in [1 .. Len(KeysOf(c)) -> AllKeys]
    BY <1>3, <2>1
  <2> QED BY <2>1, <2>2, SeqDef
<1> QED BY <1>2, <1>4

\* The first key of a request, and the others.
LEMMA FirstKey ==
  ASSUME NEW s \in Seq(AllKeys), s # << >>
  PROVE  /\ Head(s) \in AllKeys
         /\ Len(s) > 1 => Tail(s) \in Seq(AllKeys) /\ Tail(s) # << >>
<1>1. Head(s) \in AllKeys /\ Tail(s) \in Seq(AllKeys) /\ Len(Tail(s)) = Len(s) - 1 /\ Len(s) \in Nat
  BY HeadTailProperties, LenProperties
<1>2. Len(s) > 1 => Len(Tail(s)) # 0
  BY <1>1
<1>3. Len(<< >>) = 0
  OBVIOUS
<1> QED BY <1>1, <1>2, <1>3

\* One more copy.
LEMMA CopiesAdded ==
  ASSUME NEW B, IsABag(B), NEW e
  PROVE  /\ IsABag(B (+) SetToBag({e}))
         /\ Copies(e, B (+) SetToBag({e})) = Copies(e, B) + 1
         /\ \A x : x # e => Copies(x, B (+) SetToBag({e})) = Copies(x, B)
         /\ \A x : Copies(x, B) \in Nat
<1> DEFINE C == B (+) SetToBag({e})
<1>1. /\ DOMAIN C = DOMAIN B \cup {e}
      /\ \A x \in DOMAIN C : C[x] = (IF x \in DOMAIN B THEN B[x] ELSE 0) + (IF x = e THEN 1 ELSE 0)
      /\ C = [x \in DOMAIN C |-> C[x]]
  BY DEF (+), SetToBag
<1>2. \A x \in DOMAIN B : B[x] \in Nat /\ B[x] > 0
  BY DEF IsABag
<1> HIDE DEF C
<1>3. \A x \in DOMAIN C : C[x] \in {n \in Nat : n > 0}
  BY <1>1, <1>2
<1>4. IsABag(C)
  BY <1>1, <1>3 DEF IsABag
<1>5. \A x : Copies(x, B) \in Nat
  BY <1>2 DEF Copies, BagIn, BagToSet
<1>6. Copies(e, C) = Copies(e, B) + 1
  BY <1>1, <1>2 DEF Copies, BagIn, BagToSet
<1>7. \A x : x # e => Copies(x, C) = Copies(x, B)
  BY <1>1, <1>2 DEF Copies, BagIn, BagToSet
<1> QED BY <1>4, <1>5, <1>6, <1>7 DEF C

\* What a bucket holds is between nothing and the burst.
LEMMA RefilledType ==
  ASSUME NEW l \in Limiters, NEW k, BucketsTrue, now \in 1 .. MaxTime
  PROVE  Refilled(entries[l], k) \in 0 .. Burst
<1>1. CASE k \in DOMAIN entries[l]
  <2>1. /\ entries[l][k].tokens \in 0 .. Burst /\ entries[l][k].at \in Nat /\ entries[l][k].at <= now
    BY <1>1 DEF BucketsTrue, Entry
  <2> QED BY <1>1, <2>1, LimiterAssumption DEF Refilled
<1>2. CASE k \notin DOMAIN entries[l]
  BY <1>2, LimiterAssumption DEF Refilled
<1> QED BY <1>1, <1>2

\* The cleanup forgets full buckets only.
LEMMA CleanupForgetsFull ==
  ASSUME LimiterInv, NEW l \in Limiters
  PROVE  /\ DOMAIN CleanupIfNeeded(l) \subseteq DOMAIN entries[l]
         /\ \A k \in DOMAIN CleanupIfNeeded(l) : CleanupIfNeeded(l)[k] = entries[l][k]
         /\ \A k : Refilled(CleanupIfNeeded(l), k) = Refilled(entries[l], k)
<1>1. /\ DOMAIN CleanupIfNeeded(l) \subseteq DOMAIN entries[l]
      /\ \A k \in DOMAIN CleanupIfNeeded(l) : CleanupIfNeeded(l)[k] = entries[l][k]
      /\ \A k \in DOMAIN entries[l] : k \notin DOMAIN CleanupIfNeeded(l) => k \in Expired(l)
  BY DEF CleanupIfNeeded
<1>2. ASSUME NEW k, k \in Expired(l) PROVE Refilled(entries[l], k) = Burst
  <2>1. k \in DOMAIN entries[l] /\ entries[l][k].lastSeen + Ttl < now
    BY <1>2 DEF Expired
  <2>2. /\ entries[l][k].tokens \in 0 .. Burst /\ entries[l][k].at \in Nat /\ entries[l][k].at <= now
        /\ entries[l][k].at = entries[l][k].lastSeen /\ now \in Nat
    BY <2>1 DEF LimiterInv, BucketsTrue, Entry
  <2> QED BY <2>1, <2>2, LimiterAssumption, TtlRefills DEF Refilled
<1>3. ASSUME NEW k PROVE Refilled(CleanupIfNeeded(l), k) = Refilled(entries[l], k)
  <2>1. CASE k \in DOMAIN CleanupIfNeeded(l)
    BY <1>1, <2>1 DEF Refilled
  <2>2. CASE k \notin DOMAIN CleanupIfNeeded(l) /\ k \in DOMAIN entries[l]
    BY <1>1, <1>2, <2>2 DEF Refilled
  <2>3. CASE k \notin DOMAIN CleanupIfNeeded(l) /\ k \notin DOMAIN entries[l]
    BY <2>3 DEF Refilled
  <2> QED BY <2>1, <2>2, <2>3
<1> QED BY <1>1, <1>3

-----------------------------------------------------------------------------
(* The requests *)

\* A step of one request.
LEMMA RequestMoves ==
  ASSUME LimiterInv, NEW h \in Handlers, NEW q \in Request, now' = now,
         q.pc # "idle" => q.limiter \in Limiters /\ q.keys # << >> /\ q.at <= now,
         requests' = [requests EXCEPT ![h] = q]
  PROVE  RequestsTrue'
<1>1. requests \in [Handlers -> Request]
  BY DEF LimiterInv, RequestsTrue
<1>2. requests' \in [Handlers -> Request] /\ requests'[h] = q
      /\ \A g \in Handlers : g # h => requests'[g] = requests[g]
  BY <1>1
<1>3. ASSUME NEW g \in Handlers, requests'[g].pc # "idle"
      PROVE  requests'[g].limiter \in Limiters /\ requests'[g].keys # << >> /\ requests'[g].at <= now'
  BY <1>2, <1>3 DEF LimiterInv, RequestsTrue
<1> QED BY <1>2, <1>3 DEF RequestsTrue

\* The fields of a request in progress.
LEMMA RequestFields ==
  ASSUME LimiterInv, NEW h \in Handlers, requests[h].pc # "idle"
  PROVE  /\ requests \in [Handlers -> Request]
         /\ requests[h] \in Request
         /\ requests[h].limiter \in Limiters
         /\ requests[h].keys \in Seq(AllKeys) /\ requests[h].keys # << >>
         /\ requests[h].at \in Nat /\ requests[h].at <= now
         /\ requests[h].count \in Nat
<1>1. requests \in [Handlers -> Request] /\ requests[h] \in Request
  BY DEF LimiterInv, RequestsTrue
<1>2. requests[h].keys \in Seq(AllKeys) /\ requests[h].at \in Nat /\ requests[h].count \in Nat
  BY <1>1 DEF Request
<1> QED BY <1>1, <1>2 DEF LimiterInv, RequestsTrue

\* A request without a limiter has the type of requests.
LEMMA IdleType == Idle \in Request /\ Idle.pc = "idle"
  BY EmptySeq DEF Idle, Request

\* The next key is checked, or the request ends.
LEMMA ContinueMoves ==
  ASSUME LimiterInv, NEW h \in Handlers, requests[h].pc # "idle", now' = now,
         NEW allowed \in BOOLEAN, Continue(h, allowed)
  PROVE  /\ RequestsTrue'
         /\ requests'[h].pc # "after"
         /\ \A g \in Handlers : g # h => requests'[g] = requests[g]
<1> DEFINE r == requests[h]
           next == [r EXCEPT !.pc = "circuit", !.keys = Tail(@), !.at = now, !.count = 0]
<1>0. /\ requests \in [Handlers -> Request] /\ r \in Request /\ r.limiter \in Limiters
      /\ r.keys \in Seq(AllKeys) /\ r.keys # << >> /\ now \in Nat
  BY RequestFields DEF LimiterInv
<1>1. CASE allowed /\ Len(r.keys) > 1
  <2>1. requests' = [requests EXCEPT ![h] = next]
    BY <1>1 DEF Continue
  <2>2. Tail(r.keys) \in Seq(AllKeys) /\ Tail(r.keys) # << >>
    BY <1>0, <1>1, FirstKey
  <2>3. next \in Request
    BY <1>0, <2>2 DEF Request
  <2>4. next.pc = "circuit" /\ next.limiter = r.limiter /\ next.keys = Tail(r.keys) /\ next.at = now
    BY <1>0 DEF Request
  <2>5. requests'[h] = next /\ \A g \in Handlers : g # h => requests'[g] = requests[g]
    BY <1>0, <2>1
  <2>6. RequestsTrue'
    <3> HIDE DEF next, r
    <3>1. PICK q : q = next
      OBVIOUS
    <3>2. now <= now
      BY <1>0
    <3> QED BY <1>0, <2>1, <2>2, <2>3, <2>4, <3>1, <3>2, RequestMoves
  <2> QED BY <2>4, <2>5, <2>6
<1>2. CASE ~(allowed /\ Len(r.keys) > 1)
  <2>1. requests' = [requests EXCEPT ![h] = Idle]
    BY <1>2 DEF Continue
  <2>2. requests'[h] = Idle /\ \A g \in Handlers : g # h => requests'[g] = requests[g]
    BY <1>0, <2>1
  <2>3. RequestsTrue'
    BY <2>1, IdleType, RequestMoves
  <2> QED BY <2>2, <2>3, IdleType
<1> QED BY <1>1, <1>2

\* Redis has decided nothing new when no request had, or gets, its answer.
LEMMA WinningSame ==
  ASSUME SharedTrue, NEW h \in Handlers, requests[h].pc # "after", requests'[h].pc # "after",
         \A g \in Handlers : g # h => requests'[g] = requests[g],
         UNCHANGED <<counters, granted>>
  PROVE  SharedTrue'
<1>1. ASSUME NEW b PROVE Winning(b)' = Winning(b)
  BY DEF Winning
<1> QED BY <1>1 DEF SharedTrue

\* The circuit, when no call of Redis ends.
LEMMA CircuitSame ==
  ASSUME CircuitTrue, UNCHANGED <<now, circuit, failing>>
  PROVE  CircuitTrue'
  BY DEF CircuitTrue, CircuitJustified

\* The buckets, when nobody asks them.
LEMMA BucketsSame ==
  ASSUME BucketsTrue, LocalTrue, UNCHANGED <<now, entries, lastCleanup, local>>
  PROVE  BucketsTrue' /\ LocalTrue'
  BY DEF BucketsTrue, LocalTrue, BucketFair, Refilled

-----------------------------------------------------------------------------
(* The steps *)

\* A request arrives.
LEMMA ApplyRateLimitInv ==
  ASSUME LimiterInv, NEW h \in Handlers, NEW l \in Limiters, NEW c \in Callers, ApplyRateLimit(h, l, c)
  PROVE  LimiterInv'
<1>0. PICK q : q = [pc |-> "circuit", limiter |-> l, keys |-> KeysOf(c), at |-> now, count |-> 0]
  OBVIOUS
<1>1. /\ UNCHANGED <<now, entries, lastCleanup, circuit, counters, granted, local, failing>>
      /\ requests[h].pc = "idle" /\ requests' = [requests EXCEPT ![h] = q]
  BY <1>0 DEF ApplyRateLimit
<1>2. KeysOf(c) \in Seq(AllKeys) /\ KeysOf(c) # << >>
  BY KeysOfCaller
<1>3. q \in Request /\ q.pc = "circuit" /\ q.limiter = l /\ q.keys = KeysOf(c) /\ q.at = now /\ now \in Nat
  BY <1>0, <1>2 DEF Request, LimiterInv
<1>4. RequestsTrue'
  <2>1. now <= now
    BY <1>3
  <2> QED BY <1>1, <1>2, <1>3, <2>1, RequestMoves
<1>5. requests'[h].pc # "after" /\ \A g \in Handlers : g # h => requests'[g] = requests[g]
  BY <1>1, <1>3 DEF LimiterInv, RequestsTrue
<1>6. SharedTrue'
  BY <1>1, <1>5, WinningSame DEF LimiterInv
<1>7. CircuitTrue' /\ BucketsTrue' /\ LocalTrue'
  BY <1>1, CircuitSame, BucketsSame DEF LimiterInv
<1> QED BY <1>1, <1>4, <1>6, <1>7 DEF LimiterInv

\* The circuit is looked at, and closed when its window is over.
LEMMA IsCircuitOpenInv ==
  ASSUME LimiterInv, NEW h \in Handlers, IsCircuitOpen(h)
  PROVE  LimiterInv'
<1> DEFINE l == requests[h].limiter
<1>0. /\ requests[h].pc = "circuit"
      /\ UNCHANGED <<now, entries, lastCleanup, counters, arrived, granted, local, failing>>
      /\ circuit' = circuit \/ circuit' = [circuit EXCEPT ![l].open_until = 0]
      /\ \E p \in {"local", "incr"} : requests' = [requests EXCEPT ![h].pc = p]
  BY DEF IsCircuitOpen
<1>1. /\ requests \in [Handlers -> Request] /\ requests[h] \in Request /\ l \in Limiters
      /\ requests[h].keys # << >> /\ requests[h].at <= now
  BY <1>0, RequestFields
<1>2. PICK p \in {"local", "incr"} : requests' = [requests EXCEPT ![h].pc = p]
  BY <1>0
<1>3. PICK q : q = [requests[h] EXCEPT !.pc = p]
  OBVIOUS
<1>4. requests' = [requests EXCEPT ![h] = q]
  BY <1>2, <1>3
<1>5. /\ q \in Request /\ q.pc = p /\ q.limiter = l /\ q.keys = requests[h].keys /\ q.at = requests[h].at
  BY <1>1, <1>3 DEF Request
<1>6. RequestsTrue'
  BY <1>0, <1>1, <1>4, <1>5, RequestMoves
<1>7. requests'[h].pc # "after" /\ \A g \in Handlers : g # h => requests'[g] = requests[g]
  BY <1>1, <1>4, <1>5
<1>8. SharedTrue'
  BY <1>0, <1>7, WinningSame DEF LimiterInv
<1>9. CircuitTrue'
  <2>1. circuit \in [Limiters -> Circuit] /\ circuit[l] \in Circuit
    BY <1>1 DEF LimiterInv, CircuitTrue
  <2>2. CASE circuit' = circuit
    BY <1>0, <2>2, CircuitSame DEF LimiterInv
  <2>3. CASE circuit' = [circuit EXCEPT ![l].open_until = 0]
    <3>1. /\ circuit'[l] = [circuit[l] EXCEPT !.open_until = 0]
          /\ \A m \in Limiters : m # l => circuit'[m] = circuit[m]
          /\ circuit' = [circuit EXCEPT ![l] = [circuit[l] EXCEPT !.open_until = 0]]
      BY <1>1, <2>1, <2>3
    <3>2. circuit'[l] \in Circuit /\ circuit'[l].failures = circuit[l].failures /\ circuit'[l].open_until = 0
      BY <2>1, <3>1 DEF Circuit
    <3>3. circuit' \in [Limiters -> Circuit]
      BY <2>1, <3>1, <3>2
    <3> QED BY <1>0, <3>1, <3>2, <3>3 DEF LimiterInv, CircuitTrue, CircuitJustified
  <2> QED BY <1>0, <2>2, <2>3
<1>10. BucketsTrue' /\ LocalTrue'
  BY <1>0, BucketsSame DEF LimiterInv
<1> QED BY <1>0, <1>6, <1>8, <1>9, <1>10 DEF LimiterInv

\* A failed call counts towards the circuit once, however late it is reported.
LEMMA FailureCounted ==
  ASSUME LimiterInv, NEW h \in Handlers, requests[h].pc = "incr", OnDistributedFailure(h),
         failing' = [failing EXCEPT ![requests[h].limiter] = @ + 1], now' = now
  PROVE  CircuitTrue'
<1> DEFINE l == requests[h].limiter
           c == circuit[l]
           at == requests[h].at
<1>0. /\ l \in Limiters /\ at \in Nat /\ at <= now /\ now \in Nat
      /\ circuit \in [Limiters -> Circuit] /\ c \in Circuit /\ failing \in [Limiters -> Nat]
      /\ c.failures \in Nat /\ c.failures <= failing[l] /\ c.open_until \in Nat
      /\ FailCount \in Nat \ {0} /\ OpenWindow \in Nat
  BY RequestFields, LimiterAssumption DEF LimiterInv, CircuitTrue, Circuit
<1>1. /\ failing' \in [Limiters -> Nat] /\ failing'[l] = failing[l] + 1
      /\ \A m \in Limiters : m # l => failing'[m] = failing[m]
  BY <1>0
<1>2. CASE c.open_until # 0 /\ at < c.open_until
  <2>1. circuit' = circuit
    BY <1>2 DEF OnDistributedFailure
  <2>2. \A m \in Limiters : failing[m] \in Nat /\ failing[m] <= failing'[m]
    BY <1>0, <1>1
  <2>3. \A m \in Limiters : circuit[m].failures \in Nat
    BY <1>0 DEF Circuit
  <2>4. \A m \in Limiters : circuit'[m].failures <= failing'[m]
    BY <1>1, <2>1, <2>2, <2>3 DEF LimiterInv, CircuitTrue
  <2>5. CircuitJustified'
    BY <1>0, <1>1, <2>1, <2>2 DEF LimiterInv, CircuitTrue, CircuitJustified
  <2> QED BY <1>0, <1>1, <2>1, <2>4, <2>5 DEF CircuitTrue
<1>3. CASE ~(c.open_until # 0 /\ at < c.open_until)
  <2> DEFINE opens == c.failures + 1 >= FailCount
  <2>1. PICK d : d = [failures |-> IF opens THEN 0 ELSE c.failures + 1,
                      open_until |-> IF opens THEN at + OpenWindow ELSE c.open_until]
    OBVIOUS
  <2>2. circuit' = [circuit EXCEPT ![l] = d]
    BY <1>3, <2>1 DEF OnDistributedFailure
  <2>3. d \in Circuit /\ d.failures = (IF opens THEN 0 ELSE c.failures + 1)
        /\ d.open_until = (IF opens THEN at + OpenWindow ELSE c.open_until)
    BY <1>0, <2>1 DEF Circuit
  <2>4. /\ circuit' \in [Limiters -> Circuit] /\ circuit'[l] = d
        /\ \A m \in Limiters : m # l => circuit'[m] = circuit[m]
    BY <1>0, <2>2, <2>3
  <2>5. d.failures <= failing[l] + 1
    BY <1>0, <2>3
  <2>6. \A m \in Limiters : circuit'[m].failures <= failing'[m]
    BY <1>1, <2>4, <2>5 DEF LimiterInv, CircuitTrue
  <2>7. d.open_until # 0 => failing[l] + 1 >= FailCount /\ d.open_until <= now + OpenWindow
    <3>1. CASE opens
      BY <1>0, <2>3, <3>1
    <3>2. CASE ~opens
      <4>1. d.open_until = c.open_until
        BY <2>3, <3>2
      <4>2. c.open_until # 0 => failing[l] >= FailCount /\ c.open_until <= now + OpenWindow
        BY <1>0 DEF LimiterInv, CircuitTrue, CircuitJustified
      <4> QED BY <1>0, <4>1, <4>2
    <3> QED BY <3>1, <3>2
  <2>8. CircuitJustified'
    BY <1>1, <2>4, <2>7 DEF LimiterInv, CircuitTrue, CircuitJustified
  <2> QED BY <1>1, <2>4, <2>6, <2>8 DEF CircuitTrue
<1> QED BY <1>2, <1>3

\* The winning requests are finitely many, and change one at a time.
LEMMA WinningFinite ==
  ASSUME NEW b
  PROVE  IsFiniteSet(Winning(b)) /\ Cardinality(Winning(b)) \in Nat
  BY FS_Subset, FS_CardinalityType, LimiterAssumption DEF Winning

\* A request is counted by Redis, which answers or fails.
LEMMA IncrWithTTLInv ==
  ASSUME LimiterInv, NEW h \in Handlers, IncrWithTTL(h)
  PROVE  LimiterInv'
<1> DEFINE r == requests[h]
           key == <<Minute(r.at), Head(r.keys)>>
           counted == counters (+) SetToBag({key})
<1>0. /\ requests[h].pc = "incr" /\ UNCHANGED <<now, entries, lastCleanup, arrived, granted, local>>
  BY DEF IncrWithTTL
<1>1. /\ requests \in [Handlers -> Request] /\ r \in Request /\ r.limiter \in Limiters
      /\ r.keys # << >> /\ r.at <= now
  BY <1>0, RequestFields
<1>2. BucketsTrue' /\ LocalTrue'
  BY <1>0, BucketsSame DEF LimiterInv
<1>3. /\ IsABag(counted) /\ Copies(key, counted) = Copies(key, counters) + 1
      /\ \A x : x # key => Copies(x, counted) = Copies(x, counters)
      /\ \A x : Copies(x, counters) \in Nat
  BY CopiesAdded DEF LimiterInv, SharedTrue
<1>4. \A x : Copies(x, granted) \in Nat
  BY CopiesAdded DEF LimiterInv, SharedTrue
<1>5. DistributedLimit \in Nat
  BY LimiterAssumption DEF DistributedLimit
<1>6. CASE /\ counters' = counted
           /\ requests' = [requests EXCEPT ![h].pc = "after", ![h].count = Copies(key, counted)]
           /\ UNCHANGED <<circuit, failing>>
  <2>1. PICK q : q = [r EXCEPT !.pc = "after", !.count = Copies(key, counted)]
    OBVIOUS
  <2>2. requests' = [requests EXCEPT ![h] = q]
    BY <1>1, <1>6, <2>1
  <2>3. Copies(key, counted) \in Nat
    BY <1>3
  <2>4. /\ q \in Request /\ q.pc = "after" /\ q.limiter = r.limiter /\ q.keys = r.keys /\ q.at = r.at
        /\ q.count = Copies(key, counted)
    BY <1>1, <2>1, <2>3 DEF Request
  <2>5. RequestsTrue'
    BY <1>0, <1>1, <2>2, <2>4, RequestMoves
  <2>6. CircuitTrue'
    BY <1>0, <1>6, CircuitSame DEF LimiterInv
  <2>7. requests'[h] = q /\ \A g \in Handlers : g # h => requests'[g] = requests[g]
    BY <1>1, <2>2
  <2>8. ASSUME NEW b
        PROVE  /\ Copies(b, granted) + Cardinality(Winning(b)') <= Copies(b, counted)
               /\ Copies(b, granted) + Cardinality(Winning(b)') <= DistributedLimit
    <3>0. /\ IsFiniteSet(Winning(b)) /\ Cardinality(Winning(b)) \in Nat
          /\ Copies(b, granted) \in Nat /\ Copies(b, counters) \in Nat
          /\ Copies(b, granted) + Cardinality(Winning(b)) <= Copies(b, counters)
          /\ Copies(b, granted) + Cardinality(Winning(b)) <= DistributedLimit
      BY <1>3, <1>4, WinningFinite DEF LimiterInv, SharedTrue
    <3>1. h \notin Winning(b)
      BY <1>0 DEF Winning
    <3>2. CASE b = key /\ WithinLimit(Copies(key, counted))
      <4>1. Winning(b)' = Winning(b) \cup {h}
        BY <2>4, <2>7, <3>1, <3>2 DEF Winning
      <4>2. Cardinality(Winning(b) \cup {h}) = Cardinality(Winning(b)) + 1
        BY <3>0, <3>1, FS_AddElement
      <4>3. Cardinality(Winning(b)') = Cardinality(Winning(b)) + 1
        BY <4>1, <4>2
      <4>4. Copies(b, counted) = Copies(b, counters) + 1 /\ Copies(b, counted) <= DistributedLimit
        BY <1>3, <3>2 DEF WithinLimit
      <4> HIDE DEF key, counted
      <4> QED BY <1>5, <3>0, <4>3, <4>4
    <3>3. CASE ~(b = key /\ WithinLimit(Copies(key, counted)))
      <4>1. Winning(b)' = Winning(b)
        <5>1. ~(WithinLimit(q.count) /\ <<Minute(q.at), Head(q.keys)>> = b)
          BY <2>4, <3>3
        <5> QED BY <2>7, <3>1, <5>1 DEF Winning, WithinLimit
      <4>2. Copies(b, counters) <= Copies(b, counted) /\ Copies(b, counted) \in Nat
        BY <1>3
      <4> HIDE DEF key, counted
      <4> QED BY <3>0, <4>1, <4>2
    <3> QED BY <3>2, <3>3
  <2>9. SharedTrue'
    <3>1. IsABag(counters') /\ IsABag(granted')
      BY <1>0, <1>3, <1>6 DEF LimiterInv, SharedTrue
    <3>2. counters' = counted /\ granted' = granted /\ DistributedLimit' = DistributedLimit
      BY <1>0, <1>6 DEF DistributedLimit
    <3> HIDE DEF counted
    <3> QED BY <2>8, <3>1, <3>2 DEF SharedTrue, Copies
  <2> QED BY <1>0, <1>2, <2>5, <2>6, <2>9 DEF LimiterInv
<1>7. CASE /\ counters' \in {counters, counted}
           /\ OnDistributedFailure(h)
           /\ failing' = [failing EXCEPT ![r.limiter] = @ + 1]
           /\ requests' = [requests EXCEPT ![h].pc = "local"]
  <2>1. PICK q : q = [r EXCEPT !.pc = "local"]
    OBVIOUS
  <2>2. requests' = [requests EXCEPT ![h] = q]
    BY <1>1, <1>7, <2>1
  <2>4. q \in Request /\ q.pc = "local" /\ q.limiter = r.limiter /\ q.keys = r.keys /\ q.at = r.at
    BY <1>1, <2>1 DEF Request
  <2>5. RequestsTrue'
    BY <1>0, <1>1, <2>2, <2>4, RequestMoves
  <2>6. CircuitTrue'
    BY <1>0, <1>7, FailureCounted
  <2>7. requests'[h] = q /\ \A g \in Handlers : g # h => requests'[g] = requests[g]
    BY <1>1, <2>2
  <2>8. ASSUME NEW b PROVE Winning(b)' = Winning(b)
    BY <1>0, <2>4, <2>7 DEF Winning
  <2>9. IsABag(counters') /\ \A b : Copies(b, counters) <= Copies(b, counters') /\ Copies(b, counters') \in Nat
    <3> HIDE DEF counted
    <3>1. IsABag(counters)
      BY DEF LimiterInv, SharedTrue
    <3>2. \A b : Copies(b, counters) <= Copies(b, counted) /\ Copies(b, counted) \in Nat
      BY <1>3
    <3>3. \A b : Copies(b, counters) <= Copies(b, counters)
      BY <1>3
    <3> QED BY <1>3, <1>7, <3>1, <3>2, <3>3
  <2>10. SharedTrue'
    <3>1. ASSUME NEW b
          PROVE  /\ Copies(b, granted) + Cardinality(Winning(b)) <= Copies(b, counters')
                 /\ Copies(b, granted) + Cardinality(Winning(b)) <= DistributedLimit
      <4>1. /\ Cardinality(Winning(b)) \in Nat /\ Copies(b, granted) \in Nat /\ Copies(b, counters) \in Nat
            /\ Copies(b, granted) + Cardinality(Winning(b)) <= Copies(b, counters)
            /\ Copies(b, granted) + Cardinality(Winning(b)) <= DistributedLimit
        BY <1>3, <1>4, WinningFinite DEF LimiterInv, SharedTrue
      <4>2. Copies(b, counters) <= Copies(b, counters') /\ Copies(b, counters') \in Nat
        BY <2>9
      <4> QED BY <4>1, <4>2
    <3>2. IsABag(granted') /\ granted' = granted
      BY <1>0 DEF LimiterInv, SharedTrue
    <3> QED BY <2>8, <2>9, <3>1, <3>2 DEF SharedTrue, Copies
  <2> QED BY <1>0, <1>2, <2>5, <2>6, <2>10 DEF LimiterInv
<1> QED BY <1>6, <1>7 DEF IncrWithTTL

\* The answer of Redis is used, and closes the circuit.
LEMMA AllowDistributedInv ==
  ASSUME LimiterInv, NEW h \in Handlers, AllowDistributed(h)
  PROVE  LimiterInv'
<1> DEFINE r == requests[h]
           key == <<Minute(r.at), Head(r.keys)>>
           more == granted (+) SetToBag({key})
<1>0. /\ r.pc = "after" /\ UNCHANGED <<now, entries, lastCleanup, counters, arrived, local>>
      /\ failing' = [failing EXCEPT ![r.limiter] = 0]
      /\ circuit' = [circuit EXCEPT ![r.limiter] = [failures |-> 0, open_until |-> 0]]
      /\ granted' = IF WithinLimit(r.count) THEN more ELSE granted
      /\ Continue(h, WithinLimit(r.count))
  BY DEF AllowDistributed, OnDistributedSuccess
<1>1. /\ requests \in [Handlers -> Request] /\ r.limiter \in Limiters /\ r.count \in Nat
  BY <1>0, RequestFields
<1>2. BucketsTrue' /\ LocalTrue'
  BY <1>0, BucketsSame DEF LimiterInv
<1>3. /\ RequestsTrue' /\ requests'[h].pc # "after"
      /\ \A g \in Handlers : g # h => requests'[g] = requests[g]
  <2>1. WithinLimit(r.count) \in BOOLEAN
    BY DEF WithinLimit
  <2>2. PICK allowed \in BOOLEAN : allowed = WithinLimit(r.count)
    BY <2>1
  <2>3. Continue(h, allowed)
    BY <1>0, <2>2
  <2> QED BY <1>0, <2>3, ContinueMoves
<1>4. CircuitTrue'
  <2>1. /\ circuit \in [Limiters -> Circuit] /\ failing \in [Limiters -> Nat]
    BY DEF LimiterInv, CircuitTrue
  <2>2. [failures |-> 0, open_until |-> 0] \in Circuit
    BY LimiterAssumption DEF Circuit
  <2>3. /\ circuit' \in [Limiters -> Circuit] /\ failing' \in [Limiters -> Nat]
        /\ circuit'[r.limiter].failures = 0 /\ circuit'[r.limiter].open_until = 0 /\ failing'[r.limiter] = 0
        /\ \A m \in Limiters : m # r.limiter => circuit'[m] = circuit[m] /\ failing'[m] = failing[m]
    BY <1>0, <1>1, <2>1, <2>2
  <2> HIDE DEF r
  <2> QED BY <1>0, <1>1, <2>3 DEF LimiterInv, CircuitTrue, CircuitJustified
<1>5. /\ IsABag(more) /\ Copies(key, more) = Copies(key, granted) + 1
      /\ \A x : x # key => Copies(x, more) = Copies(x, granted)
      /\ \A x : Copies(x, granted) \in Nat
  BY CopiesAdded DEF LimiterInv, SharedTrue
<1>6. \A x : Copies(x, counters) \in Nat
  BY CopiesAdded DEF LimiterInv, SharedTrue
<1>7. DistributedLimit \in Nat
  BY LimiterAssumption DEF DistributedLimit
<1>8. ASSUME NEW b
      PROVE  /\ Copies(b, granted') + Cardinality(Winning(b)') <= Copies(b, counters)
             /\ Copies(b, granted') + Cardinality(Winning(b)') <= DistributedLimit
  <2>0. /\ IsFiniteSet(Winning(b)) /\ Cardinality(Winning(b)) \in Nat
        /\ Copies(b, granted) \in Nat /\ Copies(b, counters) \in Nat
        /\ Copies(b, granted) + Cardinality(Winning(b)) <= Copies(b, counters)
        /\ Copies(b, granted) + Cardinality(Winning(b)) <= DistributedLimit
    BY <1>5, <1>6, WinningFinite DEF LimiterInv, SharedTrue
  <2>1. CASE b = key /\ WithinLimit(r.count)
    <3>1. h \in Winning(b)
      BY <1>0, <2>1 DEF Winning
    <3>2. Winning(b)' = Winning(b) \ {h}
      BY <1>3 DEF Winning
    <3>3. Cardinality(Winning(b) \ {h}) = Cardinality(Winning(b)) - 1
      BY <2>0, <3>1, FS_RemoveElement
    <3>4. Copies(b, granted') = Copies(b, granted) + 1
      BY <1>0, <1>5, <2>1
    <3>5. Cardinality(Winning(b)') = Cardinality(Winning(b)) - 1
      BY <3>2, <3>3
    <3> HIDE DEF key, more, r
    <3> QED BY <1>7, <2>0, <3>4, <3>5
  <2>2. CASE ~(b = key /\ WithinLimit(r.count))
    <3>1. h \notin Winning(b)
      BY <2>2 DEF Winning
    <3>2. Winning(b)' = Winning(b)
      BY <1>3, <3>1 DEF Winning
    <3>3. Copies(b, granted') = Copies(b, granted)
      BY <1>0, <1>5, <2>2
    <3> QED BY <2>0, <3>2, <3>3
  <2> QED BY <2>1, <2>2
<1>9. SharedTrue'
  <2>1. IsABag(counters') /\ IsABag(granted') /\ counters' = counters
    BY <1>0, <1>5 DEF LimiterInv, SharedTrue
  <2> QED BY <1>8, <2>1 DEF SharedTrue, Copies
<1> QED BY <1>0, <1>2, <1>3, <1>4, <1>9 DEF LimiterInv

\* A table of buckets in which one is changed, or added while there is room.
LEMMA StoreTrue ==
  ASSUME LimiterInv, NEW l \in Limiters, NEW key \in AllKeys, NEW e \in Entry,
         e.at = now, e.lastSeen = now, NEW table,
         DOMAIN table \subseteq DOMAIN entries[l],
         \A k \in DOMAIN table : table[k] = entries[l][k],
         key \in DOMAIN table \/ HasRoom(table)
  PROVE  LET new == StoreEntry(table, key, e)
         IN  /\ DOMAIN new \subseteq AllKeys /\ IsFiniteSet(DOMAIN new) /\ Cardinality(DOMAIN new) <= MaxEntries
             /\ \A k \in DOMAIN new : new[k] \in Entry /\ new[k].at = new[k].lastSeen /\ new[k].at <= now
             /\ Refilled(new, key) = IF e.tokens < Burst THEN e.tokens ELSE Burst
             /\ \A k : k # key => Refilled(new, k) = Refilled(table, k)
<1> DEFINE new == StoreEntry(table, key, e)
<1>0. /\ DOMAIN entries[l] \subseteq AllKeys /\ IsFiniteSet(DOMAIN entries[l])
      /\ Cardinality(DOMAIN entries[l]) <= MaxEntries /\ now \in Nat /\ MaxEntries \in Nat
  BY LimiterAssumption DEF LimiterInv, BucketsTrue
<1>1. /\ DOMAIN new = DOMAIN table \cup {key} /\ new[key] = e
      /\ \A k \in DOMAIN table : k # key => new[k] = table[k]
  BY DEF StoreEntry
<1>2. IsFiniteSet(DOMAIN table) /\ Cardinality(DOMAIN table) <= Cardinality(DOMAIN entries[l])
      /\ Cardinality(DOMAIN table) \in Nat /\ Cardinality(DOMAIN entries[l]) \in Nat
  BY <1>0, FS_Subset, FS_CardinalityType
<1>3. /\ IsFiniteSet(DOMAIN table \cup {key})
      /\ Cardinality(DOMAIN table \cup {key}) =
            IF key \in DOMAIN table THEN Cardinality(DOMAIN table) ELSE Cardinality(DOMAIN table) + 1
  BY <1>2, FS_AddElement
<1>4. Cardinality(DOMAIN table \cup {key}) <= MaxEntries
  BY <1>0, <1>2, <1>3 DEF HasRoom
<1> HIDE DEF new
<1>5. \A k \in DOMAIN new : new[k] \in Entry /\ new[k].at = new[k].lastSeen /\ new[k].at <= now
  BY <1>0, <1>1 DEF LimiterInv, BucketsTrue
<1>6. Refilled(new, key) = IF e.tokens < Burst THEN e.tokens ELSE Burst
  <2>1. e.tokens \in Nat
    BY DEF Entry
  <2>2. e.tokens + (now - e.at) = e.tokens
    BY <1>0, <2>1
  <2>3. key \in DOMAIN new /\ new[key] = e
    BY <1>1
  <2> QED BY <2>2, <2>3 DEF Refilled
<1>7. \A k : k # key => Refilled(new, k) = Refilled(table, k)
  BY <1>1 DEF Refilled
<1>8. /\ DOMAIN new \subseteq AllKeys /\ IsFiniteSet(DOMAIN new) /\ Cardinality(DOMAIN new) <= MaxEntries
  BY <1>0, <1>1, <1>3, <1>4
<1> QED BY <1>5, <1>6, <1>7, <1>8 DEF new

\* The bucket of one key is used and one of its tokens, if it has any, taken.
LEMMA LocalSpent ==
  ASSUME LimiterInv, NEW l \in Limiters, NEW key \in AllKeys, now' = now,
         NEW tokens, tokens = Refilled(entries[l], key),
         DOMAIN entries' = Limiters,
         \A m \in Limiters : m # l => entries'[m] = entries[m],
         Refilled(entries'[l], key) = (IF tokens > 0 THEN tokens - 1 ELSE 0),
         \A k \in AllKeys : k # key => Refilled(entries'[l], k) = Refilled(entries[l], k),
         local' = IF tokens > 0 THEN CountedNow(l, key) ELSE local
  PROVE  LocalTrue'
<1>0. /\ local \in [Limiters -> [AllKeys -> [0 .. MaxTime -> Nat]]]
      /\ now \in 1 .. MaxTime /\ MaxTime \in Nat /\ Burst \in Nat /\ tokens \in 0 .. Burst
  BY RefilledType, LimiterAssumption DEF LimiterInv, LocalTrue
<1>1. ASSUME NEW m \in Limiters, NEW k \in AllKeys, NEW t \in 0 .. MaxTime
      PROVE  local'[m][k][t] = IF m = l /\ k = key /\ tokens > 0 /\ t >= now
                               THEN local[m][k][t] + 1 ELSE local[m][k][t]
  <2>1. CASE tokens > 0
    <3>1. local' = [local EXCEPT ![l] = [local[l] EXCEPT ![key] =
                      [s \in 0 .. MaxTime |-> IF s < now THEN local[l][key][s] ELSE local[l][key][s] + 1]]]
      BY <2>1 DEF CountedNow
    <3>2. CASE m = l /\ k = key
      <4>1. local'[m][k] = [s \in 0 .. MaxTime |-> IF s < now THEN local[l][key][s] ELSE local[l][key][s] + 1]
        BY <1>0, <3>1, <3>2
      <4> QED BY <1>0, <2>1, <3>2, <4>1
    <3>3. CASE ~(m = l /\ k = key)
      <4>1. local[l] \in [AllKeys -> [0 .. MaxTime -> Nat]]
        BY <1>0
      <4>2. CASE m # l
        <5>1. local'[m] = local[m]
          BY <1>0, <3>1, <4>2
        <5> QED BY <4>2, <5>1
      <4>3. CASE m = l /\ k # key
        <5>1. local'[m][k] = local[m][k]
          BY <1>0, <3>1, <4>1, <4>3
        <5> QED BY <4>3, <5>1
      <4> QED BY <3>3, <4>2, <4>3
    <3> QED BY <3>2, <3>3
  <2>2. CASE ~(tokens > 0)
    BY <2>2
  <2> QED BY <2>1, <2>2
<1>2. local' \in [Limiters -> [AllKeys -> [0 .. MaxTime -> Nat]]]
  <2>1. CASE tokens > 0
    <3>1. PICK f : f = [s \in 0 .. MaxTime |-> IF s < now THEN local[l][key][s] ELSE local[l][key][s] + 1]
      OBVIOUS
    <3>2. f \in [0 .. MaxTime -> Nat]
      BY <1>0, <3>1
    <3>3. local' = [local EXCEPT ![l] = [local[l] EXCEPT ![key] = f]]
      BY <2>1, <3>1 DEF CountedNow
    <3>4. local[l] \in [AllKeys -> [0 .. MaxTime -> Nat]]
      BY <1>0
    <3>5. [local[l] EXCEPT ![key] = f] \in [AllKeys -> [0 .. MaxTime -> Nat]]
      BY <3>2, <3>4
    <3> QED BY <1>0, <3>3, <3>5
  <2>2. CASE ~(tokens > 0)
    BY <1>0, <2>2
  <2> QED BY <2>1, <2>2
<1>3. ASSUME NEW m \in Limiters, NEW k \in AllKeys
      PROVE  BucketFair(m, k)'
  <2>0. /\ \A t \in 0 .. MaxTime : local[m][k][t] \in Nat
        /\ \A t \in now .. MaxTime : local[m][k][t] = local[m][k][now]
        /\ \A t \in 1 .. now :
              local[m][k][now] + Refilled(entries[m], k) <= local[m][k][t - 1] + Burst + (now - t)
        /\ \A t1, t2 \in 1 .. MaxTime : t1 <= t2 /\ t2 < now =>
              local[m][k][t2] <= local[m][k][t1 - 1] + Burst + (t2 - t1)
        /\ Refilled(entries[m], k) \in 0 .. Burst
    <3>1. \A t \in 0 .. MaxTime : local[m][k][t] \in Nat
      BY <1>0
    <3>2. Refilled(entries[m], k) \in 0 .. Burst
      BY RefilledType DEF LimiterInv
    <3> QED BY <3>1, <3>2 DEF LimiterInv, LocalTrue, BucketFair
  <2>3. Refilled(entries[m], k)' = Refilled(entries'[m], k)
    BY DEF Refilled
  <2>1. CASE m = l /\ k = key /\ tokens > 0
    <3>1. /\ \A t \in now .. MaxTime : local'[m][k][t] = local[m][k][t] + 1
          /\ \A t \in 0 .. (now - 1) : local'[m][k][t] = local[m][k][t]
      <4>1. \A t \in now .. MaxTime : t \in 0 .. MaxTime /\ t >= now
        BY <1>0
      <4>2. \A t \in 0 .. (now - 1) : t \in 0 .. MaxTime /\ ~(t >= now)
        BY <1>0
      <4> QED BY <1>1, <2>1, <4>1, <4>2
    <3>2. Refilled(entries'[m], k) = Refilled(entries[m], k) - 1
      BY <2>1
    <3>3. now \in now .. MaxTime /\ (\A t \in 1 .. now : t - 1 \in 0 .. (now - 1))
          /\ (\A t \in 1 .. MaxTime : t < now => t \in 0 .. (now - 1) /\ t \in 1 .. now)
      BY <1>0
    <3>4. \A t \in now .. MaxTime : local'[m][k][t] = local'[m][k][now]
      BY <2>0, <3>1, <3>3
    <3>5. ASSUME NEW t \in 1 .. now
          PROVE  local'[m][k][now] + Refilled(entries'[m], k) <= local'[m][k][t - 1] + Burst + (now - t)
      <4>1. local'[m][k][now] = local[m][k][now] + 1 /\ local'[m][k][t - 1] = local[m][k][t - 1]
        BY <3>1, <3>3
      <4>2. /\ local[m][k][now] + Refilled(entries[m], k) <= local[m][k][t - 1] + Burst + (now - t)
            /\ local[m][k][now] \in Nat /\ local[m][k][t - 1] \in Nat
        BY <1>0, <2>0
      <4>3. Refilled(entries[m], k) \in Nat /\ now \in Nat /\ t \in Nat /\ Burst \in Nat
        BY <1>0, <2>0
      <4> QED BY <3>2, <4>1, <4>2, <4>3
    <3>6. ASSUME NEW t1 \in 1 .. MaxTime, NEW t2 \in 1 .. MaxTime, t1 <= t2, t2 < now
          PROVE  local'[m][k][t2] <= local'[m][k][t1 - 1] + Burst + (t2 - t1)
      <4>1. t1 - 1 \in 0 .. (now - 1) /\ t2 \in 0 .. (now - 1)
        BY <1>0, <3>6
      <4> QED BY <2>0, <3>1, <3>6, <4>1
    <3> QED BY <2>3, <3>4, <3>5, <3>6 DEF BucketFair
  <2>2. CASE ~(m = l /\ k = key /\ tokens > 0)
    <3>1. \A t \in 0 .. MaxTime : local'[m][k][t] = local[m][k][t]
      BY <1>1, <2>2
    <3>2. Refilled(entries'[m], k) = Refilled(entries[m], k)
      <4>1. CASE m # l
        BY <4>1 DEF Refilled
      <4>2. CASE m = l /\ k # key
        BY <4>2
      <4>3. CASE m = l /\ k = key
        BY <1>0, <2>2, <4>3
      <4> QED BY <4>1, <4>2, <4>3
    <3>3. /\ \A t \in now .. MaxTime : t \in 0 .. MaxTime
          /\ now \in 0 .. MaxTime
          /\ \A t \in 1 .. MaxTime : t - 1 \in 0 .. MaxTime /\ t \in 0 .. MaxTime
          /\ \A t \in 1 .. now : t - 1 \in 0 .. MaxTime
      BY <1>0
    <3> QED BY <2>0, <2>3, <3>1, <3>2, <3>3 DEF BucketFair
  <2> QED BY <2>1, <2>2
<1> QED BY <1>2, <1>3 DEF LocalTrue

\* The gateway's own bucket decides.
LEMMA AllowLocalInv ==
  ASSUME LimiterInv, NEW h \in Handlers, AllowLocal(h)
  PROVE  LimiterInv'
<1> DEFINE r == requests[h]
           l == r.limiter
           key == Head(r.keys)
           table == CleanupIfNeeded(l)
           tokens == Refilled(table, key)
           e == [tokens |-> IF tokens > 0 THEN tokens - 1 ELSE 0, at |-> now, lastSeen |-> now]
<1>0. /\ r.pc = "local" /\ UNCHANGED <<now, circuit, counters, arrived, granted, failing>>
      /\ lastCleanup' = lastCleanup \/ lastCleanup' = [lastCleanup EXCEPT ![l] = now]
      /\ \/ /\ entries' = [entries EXCEPT ![l] = table] /\ Continue(h, TRUE) /\ UNCHANGED local
         \/ /\ key \in DOMAIN table \/ HasRoom(table)
            /\ entries' = [entries EXCEPT ![l] = StoreEntry(table, key, e)]
            /\ Continue(h, tokens > 0)
            /\ local' = IF tokens > 0 THEN CountedNow(l, key) ELSE local
  BY DEF AllowLocal
<1>1. l \in Limiters /\ key \in AllKeys /\ now \in Nat
  <2>1. l \in Limiters /\ r.keys \in Seq(AllKeys) /\ r.keys # << >>
    BY <1>0, RequestFields
  <2> QED BY <2>1, FirstKey DEF LimiterInv
<1>2. CircuitTrue'
  BY <1>0, CircuitSame DEF LimiterInv
<1>3. /\ DOMAIN table \subseteq DOMAIN entries[l]
      /\ \A k \in DOMAIN table : table[k] = entries[l][k]
      /\ \A k : Refilled(table, k) = Refilled(entries[l], k)
  BY <1>1, CleanupForgetsFull
<1>4. lastCleanup' \in [Limiters -> Nat]
  BY <1>0, <1>1 DEF LimiterInv, BucketsTrue
<1>5. tokens \in 0 .. Burst /\ tokens = Refilled(entries[l], key) /\ Burst \in Nat
  <2>1. Refilled(entries[l], key) \in 0 .. Burst
    BY <1>1, RefilledType DEF LimiterInv
  <2> QED BY <1>3, <2>1, LimiterAssumption
<1>6. DOMAIN entries = Limiters
  BY DEF LimiterInv, BucketsTrue
<1>7. /\ RequestsTrue' /\ requests'[h].pc # "after"
      /\ \A g \in Handlers : g # h => requests'[g] = requests[g]
  <2>1. PICK allowed \in BOOLEAN : Continue(h, allowed)
    <3>1. CASE Continue(h, TRUE)
      BY <3>1
    <3>2. CASE Continue(h, tokens > 0)
      <4>1. (tokens > 0) \in BOOLEAN
        OBVIOUS
      <4> QED BY <3>2, <4>1
    <3> QED BY <1>0, <3>1, <3>2
  <2> QED BY <1>0, <2>1, ContinueMoves
<1>8. SharedTrue'
  BY <1>0, <1>7, WinningSame DEF LimiterInv
<1> HIDE DEF r, key, table, tokens, l
<1>9. CASE entries' = [entries EXCEPT ![l] = table] /\ UNCHANGED local
  <2>1. DOMAIN entries' = Limiters /\ entries'[l] = table /\ \A m \in Limiters : m # l => entries'[m] = entries[m]
    BY <1>1, <1>6, <1>9
  <2>2. /\ DOMAIN table \subseteq AllKeys /\ IsFiniteSet(DOMAIN table) /\ Cardinality(DOMAIN table) <= MaxEntries
    <3>1. /\ DOMAIN entries[l] \subseteq AllKeys /\ IsFiniteSet(DOMAIN entries[l])
          /\ Cardinality(DOMAIN entries[l]) <= MaxEntries /\ MaxEntries \in Nat
      BY <1>1, LimiterAssumption DEF LimiterInv, BucketsTrue
    <3>2. IsFiniteSet(DOMAIN table) /\ Cardinality(DOMAIN table) <= Cardinality(DOMAIN entries[l])
      BY <1>3, <3>1, FS_Subset
    <3>3. Cardinality(DOMAIN table) \in Nat /\ Cardinality(DOMAIN entries[l]) \in Nat
      BY <3>1, <3>2, FS_CardinalityType
    <3> QED BY <1>3, <3>1, <3>2, <3>3
  <2>3. \A k \in DOMAIN table : table[k] \in Entry /\ table[k].at = table[k].lastSeen /\ table[k].at <= now
    BY <1>1, <1>3 DEF LimiterInv, BucketsTrue
  <2>4. BucketsTrue'
    BY <1>0, <1>4, <2>1, <2>2, <2>3 DEF LimiterInv, BucketsTrue
  <2>5. ASSUME NEW m \in Limiters, NEW k \in AllKeys PROVE BucketFair(m, k)'
    <3>1. Refilled(entries'[m], k) = Refilled(entries[m], k)
      BY <1>3, <2>1
    <3>2. Refilled(entries[m], k)' = Refilled(entries'[m], k)
      BY <1>0 DEF Refilled
    <3>3. BucketFair(m, k) /\ local' = local /\ now' = now
      BY <1>0, <1>9 DEF LimiterInv, LocalTrue
    <3> QED BY <3>1, <3>2, <3>3 DEF BucketFair
  <2>7. LocalTrue'
    BY <1>9, <2>5 DEF LimiterInv, LocalTrue
  <2> QED BY <1>0, <1>2, <1>7, <1>8, <2>4, <2>7 DEF LimiterInv
<1>10. CASE /\ key \in DOMAIN table \/ HasRoom(table)
            /\ entries' = [entries EXCEPT ![l] = StoreEntry(table, key, e)]
            /\ local' = IF tokens > 0 THEN CountedNow(l, key) ELSE local
  <2>1. /\ e \in Entry /\ e.at = now /\ e.lastSeen = now
        /\ e.tokens = (IF tokens > 0 THEN tokens - 1 ELSE 0)
    BY <1>1, <1>5 DEF Entry
  <2> HIDE DEF e
  <2>2. PICK new : new = StoreEntry(table, key, e)
    OBVIOUS
  <2>3. /\ DOMAIN new \subseteq AllKeys /\ IsFiniteSet(DOMAIN new) /\ Cardinality(DOMAIN new) <= MaxEntries
        /\ \A k \in DOMAIN new : new[k] \in Entry /\ new[k].at = new[k].lastSeen /\ new[k].at <= now
        /\ Refilled(new, key) = IF e.tokens < Burst THEN e.tokens ELSE Burst
        /\ \A k : k # key => Refilled(new, k) = Refilled(table, k)
    BY <1>1, <1>3, <1>10, <2>1, <2>2, StoreTrue
  <2>4. DOMAIN entries' = Limiters /\ entries'[l] = new /\ \A m \in Limiters : m # l => entries'[m] = entries[m]
    BY <1>1, <1>6, <1>10, <2>2
  <2>5. BucketsTrue'
    BY <1>0, <1>4, <2>3, <2>4 DEF LimiterInv, BucketsTrue
  <2>6. Refilled(entries'[l], key) = IF tokens > 0 THEN tokens - 1 ELSE 0
    BY <1>5, <2>1, <2>3, <2>4
  <2>7. \A k \in AllKeys : k # key => Refilled(entries'[l], k) = Refilled(entries[l], k)
    BY <1>3, <2>3, <2>4
  <2>8. LocalTrue'
    <3>1. PICK rigid : rigid = <<l, key, tokens>>
      OBVIOUS
    <3>2. rigid[1] = l /\ rigid[2] = key /\ rigid[3] = tokens
      BY <3>1
    <3> QED BY <1>0, <1>1, <1>5, <1>10, <2>4, <2>6, <2>7, <3>2, LocalSpent
  <2> QED BY <1>0, <1>2, <1>7, <1>8, <2>5, <2>8 DEF LimiterInv
<1> QED BY <1>0, <1>9, <1>10

\* Time passes: every bucket gains at most one token.
LEMMA TickInv ==
  ASSUME LimiterInv, Tick
  PROVE  LimiterInv'
<1>0. /\ now < MaxTime /\ now' = now + 1 /\ now \in 1 .. MaxTime /\ MaxTime \in Nat /\ Burst \in Nat
      /\ UNCHANGED <<entries, lastCleanup, circuit, counters, requests, arrived, granted, local, failing>>
  BY LimiterAssumption DEF Tick, LimiterInv
<1>1. now' \in 1 .. MaxTime
  BY <1>0
<1>2. RequestsTrue'
  <2>1. requests' = requests /\ requests \in [Handlers -> Request]
    BY <1>0 DEF LimiterInv, RequestsTrue
  <2>2. \A h \in Handlers : requests[h].at \in Nat
    BY <2>1 DEF Request
  <2>3. \A h \in Handlers : requests[h].at <= now => requests[h].at <= now'
    BY <1>0, <2>2
  <2> QED BY <2>1, <2>3 DEF LimiterInv, RequestsTrue
<1>3. CircuitTrue'
  <2>1. \A l \in Limiters : circuit[l].open_until \in Nat
    BY DEF LimiterInv, CircuitTrue, Circuit
  <2>2. \A l \in Limiters : circuit[l].open_until <= now + OpenWindow => circuit[l].open_until <= now' + OpenWindow
    BY <1>0, <2>1, LimiterAssumption
  <2> QED BY <1>0, <2>2 DEF LimiterInv, CircuitTrue, CircuitJustified
<1>4. SharedTrue'
  <2>1. ASSUME NEW b PROVE Winning(b)' = Winning(b)
    BY <1>0 DEF Winning
  <2> QED BY <1>0, <2>1 DEF LimiterInv, SharedTrue
<1>5. BucketsTrue'
  <2>1. \A l \in Limiters : \A k \in DOMAIN entries[l] : entries[l][k].at \in Nat /\ entries[l][k].at <= now
    BY DEF LimiterInv, BucketsTrue, Entry
  <2>2. \A l \in Limiters : \A k \in DOMAIN entries[l] : entries[l][k].at <= now'
    BY <1>0, <2>1
  <2> QED BY <1>0, <2>2 DEF LimiterInv, BucketsTrue
<1>6. ASSUME NEW l \in Limiters, NEW k \in AllKeys PROVE BucketFair(l, k)'
  <2>0. /\ BucketFair(l, k) /\ \A t \in 0 .. MaxTime : local[l][k][t] \in Nat
    <3>1. BucketFair(l, k)
      BY DEF LimiterInv, LocalTrue
    <3>2. local \in [Limiters -> [AllKeys -> [0 .. MaxTime -> Nat]]]
      BY DEF LimiterInv, LocalTrue
    <3>3. local[l][k] \in [0 .. MaxTime -> Nat]
      BY <3>2
    <3> QED BY <3>1, <3>3
  <2>1. Refilled(entries[l], k) \in 0 .. Burst
    BY RefilledType DEF LimiterInv
  <2>2. /\ Refilled(entries[l], k)' \in 0 .. Burst
        /\ Refilled(entries[l], k)' <= Refilled(entries[l], k) + 1
    <3>1. CASE k \in DOMAIN entries[l]
      <4>1. /\ entries[l][k].tokens \in 0 .. Burst /\ entries[l][k].at \in Nat /\ entries[l][k].at <= now
        BY <3>1 DEF LimiterInv, BucketsTrue, Entry
      <4> QED BY <1>0, <3>1, <4>1 DEF Refilled
    <3>2. CASE k \notin DOMAIN entries[l]
      BY <1>0, <3>2 DEF Refilled
    <3> QED BY <3>1, <3>2
  <2>3. /\ local' = local /\ now + 1 \in now .. MaxTime /\ now \in 0 .. MaxTime
        /\ local[l][k][now + 1] = local[l][k][now] /\ local[l][k][now] \in Nat
    BY <1>0, <2>0 DEF BucketFair
  <2>4. ASSUME NEW t \in (now + 1) .. MaxTime PROVE local[l][k][t] = local[l][k][now + 1]
    <3>1. t \in now .. MaxTime
      BY <1>0
    <3> QED BY <2>0, <2>3, <3>1 DEF BucketFair
  <2>5. ASSUME NEW t \in 1 .. (now + 1)
        PROVE  local[l][k][now + 1] + Refilled(entries[l], k)' <= local[l][k][t - 1] + Burst + ((now + 1) - t)
    <3>0. now \in Nat /\ Refilled(entries[l], k) \in Nat /\ Refilled(entries[l], k)' \in Nat
          /\ Refilled(entries[l], k)' <= Burst /\ t \in Nat
      BY <1>0, <2>1, <2>2
    <3>1. CASE t = now + 1
      BY <1>0, <2>3, <3>0, <3>1
    <3>2. CASE t # now + 1
      <4>1. t \in 1 .. now /\ t - 1 \in 0 .. MaxTime
        BY <1>0, <3>2
      <4>2. local[l][k][now] + Refilled(entries[l], k) <= local[l][k][t - 1] + Burst + (now - t)
            /\ local[l][k][t - 1] \in Nat
        BY <2>0, <4>1 DEF BucketFair
      <4> QED BY <1>0, <2>2, <2>3, <3>0, <4>2
    <3> QED BY <3>1, <3>2
  <2>6. ASSUME NEW t1 \in 1 .. MaxTime, NEW t2 \in 1 .. MaxTime, t1 <= t2, t2 < now + 1
        PROVE  local[l][k][t2] <= local[l][k][t1 - 1] + Burst + (t2 - t1)
    <3>1. CASE t2 < now
      BY <2>0, <2>6, <3>1 DEF BucketFair
    <3>2. CASE ~(t2 < now)
      <4>1. t2 = now /\ t1 \in 1 .. now /\ t1 - 1 \in 0 .. MaxTime
        BY <1>0, <2>6, <3>2
      <4>2. local[l][k][now] + Refilled(entries[l], k) <= local[l][k][t1 - 1] + Burst + (now - t1)
            /\ local[l][k][t1 - 1] \in Nat
        BY <2>0, <4>1 DEF BucketFair
      <4>3. Refilled(entries[l], k) \in Nat /\ now \in Nat /\ t1 \in Nat
        BY <1>0, <2>1
      <4> QED BY <1>0, <2>3, <4>1, <4>2, <4>3
    <3> QED BY <3>1, <3>2
  <2> QED BY <1>0, <2>3, <2>4, <2>5, <2>6 DEF BucketFair
<1>7. LocalTrue'
  BY <1>0, <1>6 DEF LimiterInv, LocalTrue
<1> QED BY <1>1, <1>2, <1>3, <1>4, <1>5, <1>7 DEF LimiterInv

-----------------------------------------------------------------------------
(* The limiters *)

\* No request, no failure, nothing counted.
LEMMA LimiterInitInv == Init => LimiterInv
<1> SUFFICES ASSUME Init PROVE LimiterInv
  OBVIOUS
<1>0. now = 1 /\ now \in 1 .. MaxTime /\ MaxTime \in Nat /\ Burst \in Nat
  BY LimiterAssumption DEF Init
<1>1. RequestsTrue
  BY IdleType DEF Init, RequestsTrue
<1>2. CircuitTrue
  <2>1. [failures |-> 0, open_until |-> 0] \in Circuit
    BY LimiterAssumption DEF Circuit
  <2> QED BY <2>1 DEF Init, CircuitTrue, CircuitJustified
<1>3. SharedTrue
  <2>1. IsABag(EmptyBag) /\ \A b : Copies(b, EmptyBag) = 0
    BY DEF IsABag, EmptyBag, SetToBag, Copies, BagIn, BagToSet
  <2>2. ASSUME NEW b PROVE Winning(b) = {}
    BY DEF Winning, Init, Idle
  <2>3. Cardinality({}) = 0 /\ DistributedLimit \in Nat
    BY FS_EmptySet, LimiterAssumption DEF DistributedLimit
  <2>4. counters = EmptyBag /\ granted = EmptyBag
    BY DEF Init
  <2>5. ASSUME NEW b
        PROVE  /\ Copies(b, granted) + Cardinality(Winning(b)) <= Copies(b, counters)
               /\ Copies(b, granted) + Cardinality(Winning(b)) <= DistributedLimit
    <3>1. Copies(b, granted) = 0 /\ Copies(b, counters) = 0 /\ Cardinality(Winning(b)) = 0
      BY <2>1, <2>2, <2>3, <2>4
    <3> QED BY <2>3, <3>1
  <2> QED BY <2>1, <2>4, <2>5 DEF SharedTrue
<1>4. BucketsTrue
  <2>1. \A l \in Limiters : DOMAIN entries[l] = {}
    BY DEF Init
  <2>2. DOMAIN entries = Limiters /\ lastCleanup \in [Limiters -> Nat]
    BY DEF Init
  <2>3. IsFiniteSet({}) /\ Cardinality({}) <= MaxEntries
    BY FS_EmptySet, LimiterAssumption
  <2> QED BY <2>1, <2>2, <2>3 DEF BucketsTrue
<1>5. LocalTrue
  <2>1. local \in [Limiters -> [AllKeys -> [0 .. MaxTime -> Nat]]]
    BY DEF Init
  <2>2. ASSUME NEW l \in Limiters, NEW k \in AllKeys PROVE BucketFair(l, k)
    <3>1. \A t \in 0 .. MaxTime : local[l][k][t] = 0
      BY DEF Init
    <3>2. Refilled(entries[l], k) \in 0 .. Burst
      BY <1>0, <1>4, RefilledType
    <3>3. /\ \A t \in now .. MaxTime : t \in 0 .. MaxTime
          /\ 1 \in 0 .. MaxTime /\ 0 \in 0 .. MaxTime
      BY <1>0
    <3>4. \A t \in now .. MaxTime : local[l][k][t] = local[l][k][now]
      BY <1>0, <3>1, <3>3
    <3>5. ASSUME NEW t \in 1 .. now
          PROVE  local[l][k][now] + Refilled(entries[l], k) <= local[l][k][t - 1] + Burst + (now - t)
      <4>1. t = 1 /\ t - 1 = 0 /\ now - t = 0
        BY <1>0
      <4>2. local[l][k][now] = 0 /\ local[l][k][t - 1] = 0
        BY <1>0, <3>1, <3>3, <4>1
      <4> QED BY <1>0, <3>2, <4>1, <4>2
    <3>6. \A t1, t2 \in 1 .. MaxTime : ~(t1 <= t2 /\ t2 < now)
      BY <1>0
    <3> QED BY <3>4, <3>5, <3>6 DEF BucketFair
  <2> QED BY <2>1, <2>2 DEF LocalTrue
<1> QED BY <1>0, <1>1, <1>2, <1>3, <1>4, <1>5 DEF LimiterInv

\* Every step keeps the invariant.
LEMMA LimiterNextInv == LimiterInv /\ [Next]_vars => LimiterInv'
<1> SUFFICES ASSUME LimiterInv, [Next]_vars PROVE LimiterInv'
  OBVIOUS
<1>1. CASE Tick
  BY <1>1, TickInv
<1>2. ASSUME NEW h \in Handlers, NEW l \in Limiters, NEW c \in Callers, ApplyRateLimit(h, l, c)
      PROVE  LimiterInv'
  BY <1>2, ApplyRateLimitInv
<1>3. ASSUME NEW h \in Handlers, IsCircuitOpen(h) \/ IncrWithTTL(h) \/ AllowDistributed(h) \/ AllowLocal(h)
      PROVE  LimiterInv'
  BY <1>3, IsCircuitOpenInv, IncrWithTTLInv, AllowDistributedInv, AllowLocalInv
<1>4. CASE UNCHANGED vars
  <2>1. UNCHANGED <<now, entries, lastCleanup, circuit, counters, requests, granted, local, failing>>
    BY <1>4 DEF vars
  <2>2. CircuitTrue' /\ BucketsTrue' /\ LocalTrue'
    BY <2>1, CircuitSame, BucketsSame DEF LimiterInv
  <2>3. RequestsTrue'
    BY <2>1 DEF LimiterInv, RequestsTrue
  <2>4. ASSUME NEW b PROVE Winning(b)' = Winning(b)
    BY <2>1 DEF Winning
  <2>5. SharedTrue'
    BY <2>1, <2>4 DEF LimiterInv, SharedTrue
  <2> QED BY <2>1, <2>2, <2>3, <2>5 DEF LimiterInv
<1> QED BY <1>1, <1>2, <1>3, <1>4 DEF Next

\* The invariant holds in every state.
LEMMA LimiterInvariant == Spec => []LimiterInv
  BY LimiterInitInv, LimiterNextInv, PTL DEF Spec

\* The invariant bounds the rates.
LEMMA InvBoundsRates == LimiterInv => RatesBounded
<1> SUFFICES ASSUME LimiterInv PROVE RatesBounded
  OBVIOUS
<1>1. LimiterTypeOK
  <2>1. circuit \in [Limiters -> Circuit]
    BY DEF LimiterInv, CircuitTrue
  <2>2. \A h \in Handlers : requests[h].pc \in {"idle", "circuit", "incr", "after", "local"}
    BY DEF LimiterInv, RequestsTrue, Request
  <2> QED BY <2>1, <2>2 DEF LimiterTypeOK, LimiterInv, BucketsTrue
<1>2. ASSUME NEW b \in BagToSet(granted) PROVE Copies(b, granted) <= DistributedLimit
  <2>1. Cardinality(Winning(b)) \in Nat /\ Copies(b, granted) \in Nat /\ DistributedLimit \in Nat
    <3>1. Cardinality(Winning(b)) \in Nat
      BY WinningFinite
    <3>2. IsABag(granted)
      BY DEF LimiterInv, SharedTrue
    <3>3. Copies(b, granted) \in Nat
      BY <3>2, CopiesAdded
    <3>4. DistributedLimit \in Nat
      BY LimiterAssumption DEF DistributedLimit
    <3> QED BY <3>1, <3>3, <3>4
  <2>2. Copies(b, granted) + Cardinality(Winning(b)) <= DistributedLimit
    BY DEF LimiterInv, SharedTrue
  <2> QED BY <2>1, <2>2
<1>3. ASSUME NEW l \in Limiters, NEW k \in AllKeys, NEW t1 \in 1 .. MaxTime, NEW t2 \in 1 .. MaxTime, t1 <= t2
      PROVE  local[l][k][t2] <= local[l][k][t1 - 1] + Burst + (t2 - t1)
  <2>0. /\ BucketFair(l, k) /\ now \in 1 .. MaxTime /\ MaxTime \in Nat /\ Burst \in Nat
        /\ \A t \in 0 .. MaxTime : local[l][k][t] \in Nat
        /\ Refilled(entries[l], k) \in 0 .. Burst
    <3>1. BucketFair(l, k)
      BY DEF LimiterInv, LocalTrue
    <3>2. local \in [Limiters -> [AllKeys -> [0 .. MaxTime -> Nat]]]
      BY DEF LimiterInv, LocalTrue
    <3>3. local[l][k] \in [0 .. MaxTime -> Nat]
      BY <3>2
    <3>4. now \in 1 .. MaxTime /\ MaxTime \in Nat /\ Burst \in Nat
      BY LimiterAssumption DEF LimiterInv
    <3>5. Refilled(entries[l], k) \in 0 .. Burst
      BY RefilledType DEF LimiterInv
    <3> QED BY <3>1, <3>3, <3>4, <3>5
  <2>1. CASE t2 < now
    BY <1>3, <2>0, <2>1 DEF BucketFair
  <2>2. CASE now <= t2
    <3>1. t2 \in now .. MaxTime /\ t1 - 1 \in 0 .. MaxTime /\ now \in 0 .. MaxTime
      BY <2>0, <2>2
    <3>2. local[l][k][t2] = local[l][k][now] /\ local[l][k][now] \in Nat /\ local[l][k][t1 - 1] \in Nat
      BY <2>0, <3>1 DEF BucketFair
    <3>3. CASE t1 <= now
      <4>1. t1 \in 1 .. now
        BY <2>0, <3>3
      <4>2. local[l][k][now] + Refilled(entries[l], k) <= local[l][k][t1 - 1] + Burst + (now - t1)
        BY <2>0, <4>1 DEF BucketFair
      <4>3. Refilled(entries[l], k) \in Nat /\ now \in Nat /\ t1 \in Nat /\ t2 \in Nat
        BY <2>0
      <4> QED BY <2>0, <2>2, <3>2, <4>2, <4>3
    <3>4. CASE now < t1
      <4>1. t1 - 1 \in now .. MaxTime
        BY <2>0, <3>4
      <4>2. local[l][k][t1 - 1] = local[l][k][now]
        BY <2>0, <4>1 DEF BucketFair
      <4>3. t2 - t1 \in Nat
        BY <1>3
      <4> QED BY <2>0, <3>2, <4>2, <4>3
    <3> QED BY <2>0, <3>3, <3>4
  <2> QED BY <2>0, <2>1, <2>2
<1> QED BY <1>1, <1>2, <1>3 DEF RatesBounded

(* No key gets more than it may.  Through Redis, the limit of the minute,  *)
(* for any number of gateways and requests that count at the same time     *)
(* and any failures; through a gateway's own bucket, in any stretch of     *)
(* time, the burst and what the stretch refills, across cleanups.          *)
THEOREM LimiterSafe == Spec => []RatesBounded
  BY LimiterInvariant, InvBoundsRates, PTL

(* The circuit is open only after FailCount failures with no success       *)
(* between them, and for no longer than its window from now, however late  *)
(* and in whichever order concurrent calls report.                         *)
THEOREM CircuitSafe == Spec => []CircuitJustified
<1>1. LimiterInv => CircuitJustified
  BY DEF LimiterInv, CircuitTrue
<1> QED BY <1>1, LimiterInvariant, PTL

-----------------------------------------------------------------------------
(* The watchdog: the invariant *)

\* What is bad during a check is noticed by the history, and what the probes
\* report was bad.
ProbesTrue ==
    /\ watch.pc # "idle" => BadNow \subseteq seen
    /\ (watch.pc \in {"public", "judge"} /\ watch.metricsBad) => "inside" \in seen
    /\ (watch.pc = "judge" /\ config.public /\ watch.publicBad) => "outside" \in seen

\* The counters and what they stand for.
CountersTrue ==
    /\ watch.since = quiet
    /\ watch.failures <= streak \/ streak = FailThreshold
    /\ watch.pc \in {"resolve", "restart"} => streak = FailThreshold /\ quiet = Cooldown

\* There is a container to restart.
TargetExists == \E c \in Containers : MatchesLabels(c)

WatchdogInv == WatchdogTypeOK /\ ProbesTrue /\ CountersTrue /\ TargetExists

-----------------------------------------------------------------------------

\* Of several containers one has the first id.
LEMMA FirstContainer ==
  ASSUME NEW S \in SUBSET Containers, S # {}
  PROVE  \E c \in S : \A d \in S : c <= d
<1> DEFINE less == {p \in Nat \X Nat : p[1] < p[2]}
<1>0. S \subseteq Nat
  BY WatchdogAssumption
<1>1. IsWellFoundedOn(less, Nat)
  BY NatLessThanWellFounded DEF OpToRel
<1>2. PICK m \in S : \A k \in S : ~(<<k, m>> \in less)
  <2> HIDE DEF less
  <2> QED
    BY <1>0, <1>1, WFMin
<1>3. ASSUME NEW k \in S PROVE m <= k
  <2>1. <<k, m>> \in Nat \X Nat /\ <<k, m>>[1] = k /\ <<k, m>>[2] = m
    BY <1>0
  <2>2. ~(k < m)
    BY <1>2, <2>1
  <2> QED
    BY <1>0, <2>2
<1> QED
  BY <1>3

\* Preferred finds one of the containers that match.
LEMMA PreferredMatches ==
  ASSUME NEW matches \in SUBSET Containers, matches # {}
  PROVE  Preferred(matches) \in Containers
<1> DEFINE candidates == IF matches \cap running # {} THEN matches \cap running ELSE matches
<1>1. candidates \in SUBSET Containers /\ candidates # {}
  OBVIOUS
<1>2. \E c \in candidates : \A d \in candidates : c <= d
  BY <1>1, FirstContainer
<1>3. (CHOOSE c \in candidates : \A d \in candidates : c <= d) \in candidates
  BY <1>2
<1> QED
  BY <1>1, <1>3 DEF Preferred

\* Next1 counts up to its bound.
LEMMA Next1Type ==
  ASSUME NEW bound \in Nat, NEW n \in 0..bound
  PROVE  Next1(n, bound) \in 0..bound /\ (n < bound => Next1(n, bound) = n + 1)
         /\ (n = bound => Next1(n, bound) = bound) /\ n <= Next1(n, bound)
  BY DEF Next1

\* The fields of the watchdog's own state.
LEMMA WatchFields ==
  ASSUME NEW w \in Watch
  PROVE  /\ w.pc \in {"idle", "metrics", "public", "judge", "resolve", "restart"}
         /\ w.metricsBad \in BOOLEAN /\ w.publicBad \in BOOLEAN /\ w.failures \in Nat
         /\ w.target \in Containers \cup {NoContainer} /\ w.since \in 0..Cooldown
  BY DEF Watch

\* At the start.
LEMMA InitWatchdogInv == WatchdogInit => WatchdogInv
<1> SUFFICES ASSUME WatchdogInit PROVE WatchdogInv
  OBVIOUS
<1>1. WatchdogTypeOK
  BY WatchdogAssumption DEF WatchdogInit, WatchdogTypeOK, Watch
<1>2. ProbesTrue /\ CountersTrue /\ TargetExists
  BY WatchdogAssumption DEF WatchdogInit, ProbesTrue, CountersTrue, TargetExists
<1> QED
  BY <1>1, <1>2 DEF WatchdogInv

\* The world around the watchdog, and the clock.
LEMMA AroundSteps ==
  ASSUME WatchdogInv, EnvironmentChanges \/ TunnelStarts \/ TimePasses
  PROVE  WatchdogInv'
<1>1. CASE EnvironmentChanges
  <2>1. /\ UNCHANGED <<config, watch, tick, streak, quiet>> /\ faults' \in 0..MaxFaults
        /\ tunnel' \in {"up", "lost", "starting"} /\ metrics' \in BOOLEAN /\ origin' \in BOOLEAN
        /\ running' \subseteq Containers
    <3>1. UNCHANGED <<config, watch, tick, streak, quiet>>
      BY <1>1 DEF EnvironmentChanges
    <3>2. faults' \in 0..MaxFaults
      BY <1>1, WatchdogAssumption DEF EnvironmentChanges, Fault, WatchdogInv, WatchdogTypeOK
    <3>3. tunnel' \in {"up", "lost", "starting"} /\ running' \subseteq Containers
      BY <1>1 DEF EnvironmentChanges, WatchdogInv, WatchdogTypeOK
    <3>4. metrics' \in BOOLEAN
      BY <1>1 DEF EnvironmentChanges, WatchdogInv, WatchdogTypeOK
    <3>5. origin' \in BOOLEAN
      BY <1>1 DEF EnvironmentChanges, WatchdogInv, WatchdogTypeOK
    <3> QED
      BY <3>1, <3>2, <3>3, <3>4, <3>5
  <2>2. seen \subseteq seen' /\ seen' \subseteq {"inside", "outside", "connections"} /\ (watch.pc # "idle" => BadNow' \subseteq seen')
    BY <1>1 DEF EnvironmentChanges, BadNow, WatchdogInv, WatchdogTypeOK
  <2>3. WatchdogTypeOK'
    BY <2>1, <2>2 DEF WatchdogInv, WatchdogTypeOK
  <2> QED
    BY <2>1, <2>2, <2>3 DEF WatchdogInv, ProbesTrue, CountersTrue, TargetExists, MatchesLabels
<1>2. CASE TunnelStarts
  <2>1. BadNow' \subseteq BadNow
    BY <1>2 DEF TunnelStarts, BadNow, InsideBad, OutsideBad
  <2> QED
    BY <1>2, <2>1 DEF TunnelStarts, WatchdogInv, WatchdogTypeOK, ProbesTrue, CountersTrue, TargetExists, MatchesLabels
<1>3. CASE TimePasses
  <2>1. /\ watch \in Watch /\ quiet \in 0..Cooldown /\ watch.since = quiet /\ Cooldown \in Nat
    BY WatchdogAssumption DEF WatchdogInv, WatchdogTypeOK, CountersTrue
  <2>2. /\ quiet' = Next1(quiet, Cooldown) /\ quiet' \in 0..Cooldown /\ (quiet = Cooldown => quiet' = Cooldown)
    BY <1>3, <2>1, Next1Type DEF TimePasses
  <2>3. /\ watch' = [watch EXCEPT !.since = quiet'] /\ UNCHANGED <<Around, seen, streak>> /\ tick' = TRUE
    BY <1>3, <2>1, <2>2 DEF TimePasses
  <2>4. /\ watch' \in Watch /\ watch'.since = quiet' /\ watch'.pc = watch.pc /\ watch'.failures = watch.failures
        /\ watch'.metricsBad = watch.metricsBad /\ watch'.publicBad = watch.publicBad
        /\ watch'.target = watch.target
    BY <2>1, <2>2, <2>3 DEF Watch
  <2>5. WatchdogTypeOK'
    BY <2>2, <2>3, <2>4 DEF WatchdogInv, WatchdogTypeOK, Around
  <2>6. ProbesTrue' /\ TargetExists'
    BY <2>3, <2>4 DEF WatchdogInv, ProbesTrue, TargetExists, MatchesLabels, Around, BadNow, InsideBad, OutsideBad
  <2>7. CountersTrue'
    BY <2>2, <2>3, <2>4 DEF WatchdogInv, CountersTrue
  <2> QED
    BY <2>5, <2>6, <2>7 DEF WatchdogInv
<1> QED
  BY <1>1, <1>2, <1>3

\* The probes: what they find bad is bad at that moment, so it is in the history.
LEMMA ProbeSteps ==
  ASSUME WatchdogInv, StartCheck \/ FetchHAConnections \/ FetchPublicHealth
  PROVE  WatchdogInv'
<1>1. /\ UNCHANGED <<Around, streak, quiet>> /\ watch \in Watch
      /\ tick' \in BOOLEAN /\ seen' \subseteq {"inside", "outside", "connections"}
  BY DEF StartCheck, FetchHAConnections, FetchPublicHealth, BadNow, WatchdogInv, WatchdogTypeOK
<1>2. BadNow' = BadNow
  BY <1>1 DEF Around, BadNow, InsideBad, OutsideBad
<1>3. InsideBad \in BOOLEAN /\ OutsideBad \in BOOLEAN
      /\ (InsideBad => "inside" \in BadNow) /\ (OutsideBad => "outside" \in BadNow)
  BY DEF InsideBad, OutsideBad, BadNow
<1>4. PICK mb \in BOOLEAN, pb \in BOOLEAN, pc \in {"metrics", "public", "judge"} :
          watch' = [watch EXCEPT !.metricsBad = mb, !.publicBad = pb, !.pc = pc]
  <2>1. CASE StartCheck
    <3>1. watch' = [watch EXCEPT !.metricsBad = watch.metricsBad, !.publicBad = watch.publicBad, !.pc = "metrics"]
      BY <1>1, <2>1 DEF StartCheck, Move, Watch
    <3> QED
      BY <1>1, <3>1, WatchFields
  <2>2. CASE FetchHAConnections
    BY <1>3, <2>2 DEF FetchHAConnections
  <2>3. CASE FetchPublicHealth
    <3>1. watch' = [watch EXCEPT !.metricsBad = watch.metricsBad, !.publicBad = OutsideBad, !.pc = "judge"]
      BY <1>1, <2>3 DEF FetchPublicHealth, Watch
    <3> QED
      BY <1>1, <1>3, <3>1, WatchFields
  <2> QED
    BY <2>1, <2>2, <2>3
<1>5. /\ watch' \in Watch /\ watch'.pc = pc /\ watch'.failures = watch.failures /\ watch'.since = watch.since
      /\ watch'.metricsBad = mb /\ watch'.publicBad = pb /\ watch'.target = watch.target
  BY <1>1, <1>4 DEF Watch
<1>6. WatchdogTypeOK' /\ CountersTrue' /\ TargetExists'
  BY <1>1, <1>5 DEF WatchdogInv, WatchdogTypeOK, CountersTrue, TargetExists, MatchesLabels, Around
<1>7. ProbesTrue'
  <2>1. CASE StartCheck
    BY <1>1, <1>2, <2>1 DEF StartCheck, Move, ProbesTrue, Watch
  <2>2. CASE FetchHAConnections
    <3>1. watch'.metricsBad = InsideBad /\ watch'.publicBad = FALSE /\ watch.pc = "metrics" /\ seen' = seen
      BY <1>1, <2>2 DEF FetchHAConnections, Watch
    <3> QED
      BY <1>2, <1>3, <1>5, <3>1 DEF WatchdogInv, ProbesTrue
  <2>3. CASE FetchPublicHealth
    <3>1. /\ watch'.metricsBad = watch.metricsBad /\ watch'.publicBad = OutsideBad /\ watch.pc = "public"
          /\ seen' = seen
      BY <1>1, <2>3 DEF FetchPublicHealth, Watch
    <3> QED
      BY <1>2, <1>3, <1>5, <3>1 DEF WatchdogInv, ProbesTrue
  <2> QED
    BY <2>1, <2>2, <2>3
<1> QED
  BY <1>6, <1>7 DEF WatchdogInv

\* The verdict: a check that counts as a failure was a bad one.
LEMMA JudgeStep ==
  ASSUME WatchdogInv, Judge
  PROVE  WatchdogInv'
<1>1. /\ watch \in Watch /\ watch.pc = "judge" /\ UNCHANGED <<Around, tick, seen, quiet>>
      /\ streak \in 0..FailThreshold /\ quiet \in 0..Cooldown
      /\ streak' = IF BadCheck THEN Next1(streak, FailThreshold) ELSE 0
  BY DEF Judge, WatchdogInv, WatchdogTypeOK
<1>2. FailThreshold \in Nat \ {0} /\ Cooldown \in Nat \ {0} /\ watch.failures \in Nat
      /\ watch.since = quiet /\ config.public \in BOOLEAN
  BY <1>1, WatchdogAssumption, WatchFields DEF WatchdogInv, CountersTrue, WatchdogTypeOK, Config
<1>3. streak' \in 0..FailThreshold
  BY <1>1, <1>2, Next1Type
<1>4. ShouldRestart => BadCheck
  BY <1>1 DEF WatchdogInv, ProbesTrue, ShouldRestart, BadCheck
<1>5. PICK failures \in Nat, pc \in {"idle", "resolve"} :
          /\ watch' = [watch EXCEPT !.failures = failures, !.pc = pc]
          /\ ~ShouldRestart => failures = 0 /\ pc = "idle"
          /\ ShouldRestart => failures <= watch.failures + 1
          /\ pc = "resolve" => ShouldRestart /\ watch.failures + 1 >= FailThreshold /\ ~CoolingDown
  <2>1. Next1(watch.failures, FailThreshold + 1) \in Nat /\ Next1(watch.failures, FailThreshold + 1) <= watch.failures + 1
    BY <1>2 DEF Next1
  <2>2. CASE ~ShouldRestart
    BY <2>2 DEF Judge
  <2>3. CASE ShouldRestart
    BY <2>1, <2>3 DEF Judge, EnoughFailures
  <2> QED
    BY <2>2, <2>3
<1>6. /\ watch' \in Watch /\ watch'.pc = pc /\ watch'.failures = failures /\ watch'.since = watch.since
      /\ watch'.target = watch.target
  BY <1>1, <1>5 DEF Watch
<1>7. WatchdogTypeOK' /\ ProbesTrue' /\ TargetExists'
  BY <1>1, <1>3, <1>6 DEF WatchdogInv, WatchdogTypeOK, ProbesTrue, TargetExists, MatchesLabels, Around,
       BadNow, InsideBad, OutsideBad
<1>8. CountersTrue'
  <2>1. CASE ~ShouldRestart
    BY <1>1, <1>2, <1>3, <1>5, <1>6, <2>1 DEF CountersTrue
  <2>2. CASE ShouldRestart
    <3>1. streak' = Next1(streak, FailThreshold)
      BY <1>1, <1>4, <2>2
    <3>2. watch.failures <= streak \/ streak = FailThreshold
      BY DEF WatchdogInv, CountersTrue
    <3>3. failures <= streak' \/ streak' = FailThreshold
      BY <1>1, <1>2, <1>5, <2>2, <3>1, <3>2 DEF Next1
    <3>4. pc = "resolve" => streak' = FailThreshold
      BY <1>1, <1>2, <1>5, <2>2, <3>1, <3>2 DEF Next1
    <3>5. pc = "resolve" => quiet = Cooldown
      BY <1>1, <1>2, <1>5 DEF CoolingDown
    <3> QED
      BY <1>1, <1>2, <1>6, <3>3, <3>4, <3>5 DEF CountersTrue
  <2> QED
    BY <2>1, <2>2
<1> QED
  BY <1>7, <1>8 DEF WatchdogInv

\* Docker: the container is found, restarted or not, and the check ends.
LEMMA DockerSteps ==
  ASSUME WatchdogInv, ResolveContainerTarget \/ RestartContainer \/ DockerFails \/ RestartTimesOut
  PROVE  WatchdogInv'
<1>1. /\ watch \in Watch /\ config \in Config /\ UNCHANGED <<config, metrics, origin, tick, seen, streak>>
      /\ Cooldown \in Nat \ {0} /\ FailThreshold \in Nat \ {0} /\ NoContainer \notin Containers
      /\ watch.pc \in {"resolve", "restart"} /\ watch.failures \in Nat
      /\ quiet \in 0..Cooldown /\ watch.since = quiet
  BY WatchdogAssumption, WatchFields
  DEF WatchdogInv, WatchdogTypeOK, CountersTrue, ResolveContainerTarget, RestartContainer, DockerFails, RestartTimesOut, Around
<1>2. TargetExists'
  BY <1>1 DEF WatchdogInv, TargetExists, MatchesLabels
<1>3. CASE ResolveContainerTarget
  <2> DEFINE target == IF config.name # NoContainer THEN config.name
                       ELSE Preferred({c \in Containers : MatchesLabels(c)})
  <2>1. target \in Containers
    <3>1. Preferred({c \in Containers : MatchesLabels(c)}) \in Containers
      BY PreferredMatches DEF WatchdogInv, TargetExists
    <3>2. config.name \in Containers \cup {NoContainer}
      BY <1>1 DEF Config
    <3> QED
      BY <3>1, <3>2
  <2>2. watch' = [watch EXCEPT !.pc = "restart", !.target = target] /\ UNCHANGED <<Around, quiet>>
    BY <1>3 DEF ResolveContainerTarget
  <2> HIDE DEF target
  <2>3. /\ watch' \in Watch /\ watch'.pc = "restart" /\ watch'.failures = watch.failures
        /\ watch'.since = watch.since /\ watch'.target = target
    BY <1>1, <2>1, <2>2 DEF Watch
  <2>4. WatchdogTypeOK'
    BY <1>1, <2>1, <2>2, <2>3 DEF WatchdogInv, WatchdogTypeOK, Around
  <2>5. ProbesTrue' /\ CountersTrue'
    BY <1>1, <2>2, <2>3 DEF WatchdogInv, ProbesTrue, CountersTrue, Around, BadNow, InsideBad, OutsideBad
  <2> QED
    BY <1>2, <2>4, <2>5 DEF WatchdogInv
<1>4. CASE RestartContainer
  <2>1. /\ watch' = [watch EXCEPT !.pc = "idle", !.target = NoContainer, !.failures = 0, !.since = 0]
        /\ quiet' = 0 /\ faults' = faults /\ tunnel' = "starting" /\ running' = running \cup {watch.target}
        /\ watch.target \in Containers
    <3>1. watch.target # NoContainer
      BY <1>4 DEF RestartContainer, WatchdogInv, WatchdogTypeOK
    <3>2. watch.target \in Containers
      BY <1>1, <3>1, WatchFields
    <3> QED
      BY <1>4, <3>2 DEF RestartContainer, Restarted
  <2>2. /\ watch' \in Watch /\ watch'.pc = "idle" /\ watch'.failures = 0 /\ watch'.since = 0
    <3>1. watch \in Watch /\ 0 \in 0..Cooldown /\ 0 \in Nat
      BY <1>1
    <3> QED
      BY <2>1, <3>1 DEF Watch
  <2>3. WatchdogTypeOK'
    BY <1>1, <2>1, <2>2 DEF WatchdogInv, WatchdogTypeOK
  <2>4. ProbesTrue' /\ CountersTrue'
    BY <1>1, <2>1, <2>2 DEF WatchdogInv, WatchdogTypeOK, ProbesTrue, CountersTrue
  <2> QED
    BY <1>2, <2>3, <2>4 DEF WatchdogInv
<1>5. CASE DockerFails \/ RestartTimesOut
  <2>1. /\ watch' = [watch EXCEPT !.pc = "idle", !.target = NoContainer] /\ quiet' = quiet
        /\ faults' \in 0..MaxFaults /\ tunnel' \in {tunnel, "starting"}
    BY <1>5, WatchdogAssumption DEF DockerFails, RestartTimesOut, Restarted, Fault, WatchdogInv, WatchdogTypeOK
  <2>2. running' \subseteq Containers
    <3>1. CASE DockerFails
      BY <3>1 DEF DockerFails, WatchdogInv, WatchdogTypeOK
    <3>2. CASE RestartTimesOut
      <4>1. watch.target \in Containers
        BY <1>1, <3>2, WatchFields DEF RestartTimesOut, WatchdogInv, WatchdogTypeOK
      <4> QED
        BY <3>2, <4>1 DEF RestartTimesOut, Restarted, WatchdogInv, WatchdogTypeOK
    <3> QED
      BY <1>5, <3>1, <3>2
  <2>3. /\ watch' \in Watch /\ watch'.pc = "idle" /\ watch'.failures = watch.failures /\ watch'.since = watch.since
    BY <1>1, <2>1 DEF Watch
  <2>4. WatchdogTypeOK'
    BY <1>1, <2>1, <2>2, <2>3 DEF WatchdogInv, WatchdogTypeOK
  <2>5. ProbesTrue' /\ CountersTrue'
    BY <1>1, <2>1, <2>3 DEF WatchdogInv, ProbesTrue, CountersTrue
  <2> QED
    BY <1>2, <2>4, <2>5 DEF WatchdogInv
<1> QED
  BY <1>3, <1>4, <1>5

\* Every step keeps the invariant.
LEMMA NextWatchdogInv == WatchdogInv /\ [WatchdogNext]_watchdogVars => WatchdogInv'
<1> SUFFICES ASSUME WatchdogInv, [WatchdogNext]_watchdogVars PROVE WatchdogInv'
  OBVIOUS
<1>1. CASE UNCHANGED watchdogVars
  BY <1>1 DEF watchdogVars, WatchdogInv, WatchdogTypeOK, ProbesTrue, CountersTrue, TargetExists, MatchesLabels,
       BadNow, InsideBad, OutsideBad
<1>2. CASE WatchdogNext
  BY <1>2, AroundSteps, ProbeSteps, JudgeStep, DockerSteps DEF WatchdogNext, Check
<1> QED
  BY <1>1, <1>2

\* No restart without FailThreshold bad checks in a row and a cooldown that is
\* over (run, shouldRestart), however the tunnel changes between the probes.
THEOREM RestartsJustified == WatchdogSpec => []RestartJustified
<1>1. WatchdogInv => RestartJustified
  BY DEF WatchdogInv, CountersTrue, RestartJustified
<1> QED
  BY <1>1, InitWatchdogInv, NextWatchdogInv, PTL DEF WatchdogSpec

===============================================================================
