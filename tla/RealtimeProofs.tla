---------------------------- MODULE RealtimeProofs ----------------------------
(***************************************************************************)
(* No gap between replay and live events, for any number of connections    *)
(* and messages and any queue, page and replay sizes.                      *)
(*                                                                         *)
(* The invariant follows a connection through its request: while pages are *)
(* listed, everything wanted at or above the next page's bound has been    *)
(* found; while it is sent, everything wanted is still to be sent or is on *)
(* its way; and in the queue it is ahead of the replay.end.  All of that   *)
(* holds as long as the WriteLoop runs, which it does while the socket is  *)
(* open.                                                                   *)
(***************************************************************************)
EXTENDS Realtime, FiniteSetTheorems, SequenceTheorems, WellFoundedInduction, TLAPS

\* Frames and Replayed of a connection's record.
FramesOf(k) == k.received \cup ToSet(k.queue)
Wanted(k) == {m \in k.base : k.cursor # 0 /\ m > k.cursor /\ m >= k.next}

\* A request in the hub; its queue is filled and nobody has dropped anything.
Lifecycle(k) ==
    /\ k.pc = "new" => k = Fresh
    /\ k.socket => k.writer
    /\ k.pc \in {"list", "send", "read"} => k.registered

\* While pages are listed, nothing wanted from the last page's end on is left out.
Listed(k) ==
    k.pc = "list" =>
        /\ k.next = 0 /\ k.cursor # 0
        /\ Cardinality(k.missed) < MaxReplay
        /\ \A m \in k.missed : k.before # 0 /\ m >= k.before
        /\ \A m \in Wanted(k) : (k.before # 0 /\ m >= k.before) => m \in k.missed

\* Afterwards everything wanted is still to be sent, or is on its way.
OnItsWay(k) ==
    /\ (k.pc = "send" /\ k.writer) => \A m \in Wanted(k) : m \in k.missed \/ New(m) \in FramesOf(k)
    /\ (k.pc = "read" /\ k.writer) => \A m \in Wanted(k) : New(m) \in FramesOf(k)

\* The end comes after everything wanted.
EndLast(k) ==
    /\ k.pc \in {"new", "list", "send"} => End \notin FramesOf(k)
    /\ End \in k.received => \A m \in Wanted(k) : New(m) \in k.received
    /\ k.writer => \A n \in 1..Len(k.queue) : k.queue[n] = End =>
          \A m \in Wanted(k) : New(m) \in k.received \/ \E i \in 1..(n - 1) : k.queue[i] = New(m)

ConnectionInv(k) == Lifecycle(k) /\ Listed(k) /\ OnItsWay(k) /\ EndLast(k)

\* Live events reach a working connection from its registration on.
LiveInv ==
    \A c \in Connections :
        (conn[c].pc \in {"list", "send", "read"} /\ conn[c].chan /\ conn[c].writer) =>
            \A m \in consumed \ conn[c].base :
                New(m) \in Frames(c) \/ (bcast # None /\ bcast.msg = m /\ c \in bcast.todo)

\* A broadcast is only for connections that have been served.
TodoServed == bcast # None => \A c \in bcast.todo : conn[c].pc # "new"

RealtimeInv ==
    /\ TypeOK
    /\ TodoServed
    /\ \A c \in Connections : ConnectionInv(conn[c]) /\ conn[c].base \subseteq committed
    /\ LiveInv

-----------------------------------------------------------------------------
(* Sets of ids *)

\* A set of ids that is not empty has a least member.
LEMMA LeastExists ==
  ASSUME NEW S \in SUBSET Nat, S # {}
  PROVE  \E m \in S : \A k \in S : m <= k
<1> DEFINE less == {p \in Nat \X Nat : p[1] < p[2]}
<1>1. IsWellFoundedOn(less, Nat)
  BY NatLessThanWellFounded DEF OpToRel
<1>2. PICK m \in S : \A k \in S : ~(<<k, m>> \in less)
  <2> HIDE DEF less
  <2> QED
    BY <1>1, WFMin
<1>3. ASSUME NEW k \in S PROVE m <= k
  <2>1. <<k, m>> \in Nat \X Nat /\ <<k, m>>[1] = k /\ <<k, m>>[2] = m
    OBVIOUS
  <2>2. ~(k < m)
    BY <1>2, <2>1
  <2> QED
    BY <2>2
<1> QED
  BY <1>3

\* Oldest is that member.
LEMMA OldestIsLeast ==
  ASSUME NEW S \in SUBSET IDs, S # {}
  PROVE  Oldest(S) \in S /\ \A k \in S : Oldest(S) <= k
<1>1. S \in SUBSET Nat
  BY RealtimeAssumption DEF IDs
<1> QED
  BY <1>1, LeastExists DEF Oldest

\* Below a bound there is a greatest one, too.
LEMMA GreatestExists ==
  ASSUME NEW S \in SUBSET IDs, S # {}
  PROVE  \E m \in S : \A k \in S : k <= m
<1> DEFINE below == {MaxID - m : m \in S}
<1>0. MaxID \in Nat /\ \A m \in S : m \in Nat /\ m <= MaxID
  BY RealtimeAssumption DEF IDs
<1>1. below \in SUBSET Nat /\ below # {}
  <2>1. \A m \in S : MaxID - m \in Nat
    BY <1>0
  <2>2. \E m \in S : MaxID - m \in below
    OBVIOUS
  <2> QED
    BY <2>1, <2>2
<1>2. PICK d \in below : \A e \in below : d <= e
  BY <1>1, LeastExists
<1>3. PICK m \in S : d = MaxID - m
  BY <1>2
<1>4. \A k \in S : MaxID - k \in below
  OBVIOUS
<1>5. \A k \in S : MaxID - m <= MaxID - k
  BY <1>2, <1>3, <1>4
<1> QED
  BY <1>0, <1>5

\* Sets of ids are finite.
LEMMA IDsFinite ==
  ASSUME NEW S \in SUBSET IDs
  PROVE  IsFiniteSet(S) /\ Cardinality(S) \in Nat
<1>1. IsFiniteSet(IDs)
  BY FS_Interval, RealtimeAssumption DEF IDs
<1>2. IsFiniteSet(S)
  BY <1>1, FS_Subset
<1> QED
  BY <1>2, FS_CardinalityType

\* Newest(S, n) holds, with a member, every greater member of S.
LEMMA NewestUpwards ==
  ASSUME NEW S \in SUBSET IDs, NEW n \in Nat, NEW m \in Newest(S, n), NEW k \in S, m <= k
  PROVE  k \in Newest(S, n)
<1>0. m \in S /\ \A j \in S : j \in Nat
  BY RealtimeAssumption DEF Newest, IDs
<1>1. {j \in S : j > k} \subseteq {j \in S : j > m}
  BY <1>0
<1>2. Cardinality({j \in S : j > k}) <= Cardinality({j \in S : j > m})
  BY <1>1, FS_Subset, IDsFinite
<1>3. Cardinality({j \in S : j > k}) \in Nat /\ Cardinality({j \in S : j > m}) \in Nat
  BY IDsFinite
<1> QED
  BY <1>2, <1>3 DEF Newest

\* Newest(S, n) is all of S, or has at least n members.
LEMMA NewestEnough ==
  ASSUME NEW S \in SUBSET IDs, NEW n \in Nat
  PROVE  /\ Newest(S, n) \in SUBSET S
         /\ Newest(S, n) = S \/ Cardinality(Newest(S, n)) >= n
<1>1. Newest(S, n) \in SUBSET S
  BY DEF Newest
<1>2. ASSUME Newest(S, n) # S PROVE Cardinality(Newest(S, n)) >= n
  <2>1. S \ Newest(S, n) # {}
    BY <1>1, <1>2
  <2>2. PICK m \in S \ Newest(S, n) : \A k \in S \ Newest(S, n) : k <= m
    BY <2>1, GreatestExists
  <2> DEFINE above == {k \in S : k > m}
  <2>3. above \subseteq Newest(S, n)
    <3>1. \A j \in S : j \in Nat
      BY RealtimeAssumption DEF IDs
    <3> QED
      BY <2>2, <3>1
  <2>4. Cardinality(above) \in Nat /\ ~(Cardinality(above) < n)
    BY <2>2, IDsFinite DEF Newest
  <2>5. Cardinality(above) <= Cardinality(Newest(S, n))
    BY <2>3, <1>1, FS_Subset, IDsFinite
  <2>6. Cardinality(Newest(S, n)) \in Nat
    BY <1>1, IDsFinite
  <2> QED
    BY <2>4, <2>5, <2>6
<1> QED
  BY <1>1, <1>2

-----------------------------------------------------------------------------
(* Queues and connections *)

\* The frames, and that they are told apart.
LEMMA FrameTypes ==
  /\ End \in Frame /\ Answer \in Frame /\ Answer # End
  /\ \A m \in IDs : New(m) \in Frame /\ New(m) # End /\ New(m) # Answer
  BY RealtimeAssumption DEF End, Answer, New, Frame, IDs

\* Append adds a frame at the end of a queue.
LEMMA AppendQueue ==
  ASSUME NEW q \in Seq(Frame), NEW f \in Frame
  PROVE  /\ Append(q, f) \in Seq(Frame)
         /\ Len(Append(q, f)) = Len(q) + 1
         /\ \A n \in 1..Len(q) : Append(q, f)[n] = q[n]
         /\ Append(q, f)[Len(q) + 1] = f
         /\ ToSet(Append(q, f)) = ToSet(q) \cup {f}
<1>1. /\ Append(q, f) \in Seq(Frame) /\ Len(q) \in Nat
      /\ Len(Append(q, f)) = Len(q) + 1
      /\ \A n \in 1..Len(q) : Append(q, f)[n] = q[n]
      /\ Append(q, f)[Len(q) + 1] = f
  OBVIOUS
<1>2. DOMAIN q = 1..Len(q) /\ DOMAIN Append(q, f) = 1..(Len(q) + 1)
  BY <1>1, LenProperties
<1>3. ToSet(Append(q, f)) \subseteq ToSet(q) \cup {f}
  BY <1>1, <1>2 DEF ToSet
<1>4. ToSet(q) \cup {f} \subseteq ToSet(Append(q, f))
  BY <1>1, <1>2 DEF ToSet
<1> QED
  BY <1>1, <1>3, <1>4

\* Tail takes the first frame off a queue.
LEMMA TailQueue ==
  ASSUME NEW q \in Seq(Frame), q # << >>
  PROVE  /\ Tail(q) \in Seq(Frame) /\ Head(q) = q[1] /\ Head(q) \in Frame
         /\ Len(Tail(q)) = Len(q) - 1 /\ Len(q) \in Nat \ {0}
         /\ \A n \in 1..Len(Tail(q)) : Tail(q)[n] = q[n + 1]
         /\ ToSet(q) = {Head(q)} \cup ToSet(Tail(q))
<1>1. /\ Tail(q) \in Seq(Frame) /\ Head(q) = q[1] /\ Len(q) \in Nat \ {0}
      /\ Len(Tail(q)) = Len(q) - 1 /\ Head(q) \in Frame
      /\ \A n \in 1..Len(Tail(q)) : Tail(q)[n] = q[n + 1]
  OBVIOUS
<1>2. DOMAIN q = 1..Len(q) /\ DOMAIN Tail(q) = 1..Len(Tail(q))
  BY <1>1, LenProperties
<1>3. ToSet(q) \subseteq {Head(q)} \cup ToSet(Tail(q))
  <2> SUFFICES ASSUME NEW n \in 1..Len(q), n # 1
               PROVE  q[n] \in ToSet(Tail(q))
    BY <1>1, <1>2 DEF ToSet
  <2>1. n - 1 \in 1..Len(Tail(q)) /\ Tail(q)[n - 1] = q[n]
    BY <1>1
  <2> QED
    BY <2>1, <1>2 DEF ToSet
<1>4. {Head(q)} \cup ToSet(Tail(q)) \subseteq ToSet(q)
  BY <1>1, <1>2 DEF ToSet
<1> QED
  BY <1>1, <1>3, <1>4

\* The fields of a connection, and what an update of one of them leaves alone.
LEMMA Fields ==
  ASSUME NEW k \in Connection
  PROVE  /\ k.pc \in {"new", "list", "send", "read", "done"}
         /\ k.cursor \in 0..MaxID /\ k.before \in 0..MaxID /\ k.next \in 0..MaxID
         /\ k.missed \in SUBSET IDs /\ k.base \in SUBSET IDs
         /\ k.registered \in BOOLEAN /\ k.chan \in BOOLEAN /\ k.writer \in BOOLEAN
         /\ k.socket \in BOOLEAN
         /\ k.queue \in Seq(Frame) /\ k.received \in SUBSET Frame
  BY DEF Connection

\* A frame other than the end in the queue of a connection disturbs nothing.
LEMMA SentInv ==
  ASSUME NEW k \in Connection, ConnectionInv(k), k.pc # "new", NEW f \in Frame, f # End,
         NEW l, l = [k EXCEPT !.queue = Append(@, f)]
  PROVE  /\ l \in Connection /\ ConnectionInv(l)
         /\ FramesOf(l) = FramesOf(k) \cup {f}
<1>1. /\ l.pc = k.pc /\ l.cursor = k.cursor /\ l.before = k.before /\ l.next = k.next
      /\ l.missed = k.missed /\ l.base = k.base /\ l.registered = k.registered
      /\ l.chan = k.chan /\ l.writer = k.writer /\ l.socket = k.socket
      /\ l.received = k.received /\ l.queue = Append(k.queue, f)
  BY DEF Connection
<1>2. l \in Connection
  BY AppendQueue, Fields DEF Connection
<1>3. Wanted(l) = Wanted(k) /\ FramesOf(l) = FramesOf(k) \cup {f}
  BY <1>1, AppendQueue, Fields DEF Wanted, FramesOf
<1>4. Lifecycle(l) /\ Listed(l) /\ OnItsWay(l)
  BY <1>1, <1>3 DEF ConnectionInv, Lifecycle, Listed, OnItsWay
<1>5. EndLast(l)
  <2>1. /\ l.pc \in {"new", "list", "send"} => End \notin FramesOf(l)
        /\ End \in l.received => \A m \in Wanted(l) : New(m) \in l.received
    BY <1>1, <1>3 DEF ConnectionInv, EndLast
  <2>2. ASSUME l.writer, NEW n \in 1..Len(l.queue), l.queue[n] = End, NEW m \in Wanted(l)
        PROVE  New(m) \in l.received \/ \E i \in 1..(n - 1) : l.queue[i] = New(m)
    <3>1. /\ Len(k.queue) \in Nat /\ Len(l.queue) = Len(k.queue) + 1
          /\ l.queue[Len(k.queue) + 1] = f /\ \A i \in 1..Len(k.queue) : l.queue[i] = k.queue[i]
      BY <1>1, AppendQueue, Fields
    <3>2. n \in 1..Len(k.queue) /\ k.queue[n] = End
      BY <2>2, <3>1
    <3>3. New(m) \in k.received \/ \E i \in 1..(n - 1) : k.queue[i] = New(m)
      BY <2>2, <3>2, <1>1, <1>3 DEF ConnectionInv, EndLast
    <3>4. \A i \in 1..(n - 1) : l.queue[i] = k.queue[i]
      BY <3>1, <3>2
    <3> QED
      BY <3>3, <3>4, <1>1
  <2> QED
    BY <2>1, <2>2 DEF EndLast
<1> QED
  BY <1>2, <1>3, <1>4, <1>5 DEF ConnectionInv

\* A connection that only lets go of its socket, its channel or its request.
LEMMA ReleasedInv ==
  ASSUME NEW k \in Connection, ConnectionInv(k), k.pc # "new", NEW l \in Connection,
         /\ l.cursor = k.cursor /\ l.before = k.before /\ l.next = k.next
         /\ l.missed = k.missed /\ l.base = k.base
         /\ l.queue = k.queue /\ l.received = k.received /\ l.writer = k.writer,
         l.socket => k.socket,
         \/ l.pc = k.pc /\ l.registered = k.registered
         \/ l.pc = "done"
  PROVE  ConnectionInv(l) /\ FramesOf(l) = FramesOf(k)
<1>1. Wanted(l) = Wanted(k) /\ FramesOf(l) = FramesOf(k)
  BY DEF Wanted, FramesOf
<1>2. Lifecycle(l) /\ Listed(l) /\ OnItsWay(l)
  BY <1>1 DEF ConnectionInv, Lifecycle, Listed, OnItsWay
<1>3. EndLast(l)
  BY <1>1 DEF ConnectionInv, EndLast
<1> QED
  BY <1>1, <1>2, <1>3 DEF ConnectionInv

\* A WriteLoop that ends, with or without a frame that is lost.
LEMMA WriterEndsInv ==
  ASSUME NEW k \in Connection, ConnectionInv(k), k.pc # "new", NEW l \in Connection,
         /\ l.cursor = k.cursor /\ l.before = k.before /\ l.next = k.next /\ l.pc = k.pc
         /\ l.missed = k.missed /\ l.base = k.base /\ l.registered = k.registered
         /\ l.received = k.received /\ l.writer = FALSE /\ l.socket = FALSE,
         l.queue = k.queue \/ (k.queue # << >> /\ l.queue = Tail(k.queue))
  PROVE  ConnectionInv(l)
<1>1. Wanted(l) = Wanted(k) /\ FramesOf(l) \subseteq FramesOf(k)
  BY TailQueue, Fields DEF Wanted, FramesOf
<1>2. Lifecycle(l) /\ Listed(l) /\ OnItsWay(l)
  BY <1>1 DEF ConnectionInv, Lifecycle, Listed, OnItsWay
<1>3. EndLast(l)
  BY <1>1 DEF ConnectionInv, EndLast
<1> QED
  BY <1>2, <1>3 DEF ConnectionInv

\* The first frame of the queue reaches the browser; the end finds there what
\* was ahead of it.
LEMMA WrittenInv ==
  ASSUME NEW k \in Connection, ConnectionInv(k), k.pc # "new", k.writer, k.queue # << >>, NEW l,
         l = [k EXCEPT !.queue = Tail(@), !.received = @ \cup ({Head(k.queue)} \ {Answer})]
  PROVE  /\ l \in Connection /\ ConnectionInv(l)
         /\ \A m \in IDs : New(m) \in FramesOf(k) => New(m) \in FramesOf(l)
<1>1. /\ l.pc = k.pc /\ l.cursor = k.cursor /\ l.before = k.before /\ l.next = k.next
      /\ l.missed = k.missed /\ l.base = k.base /\ l.registered = k.registered
      /\ l.chan = k.chan /\ l.writer = k.writer /\ l.socket = k.socket
      /\ l.received = k.received \cup ({Head(k.queue)} \ {Answer}) /\ l.queue = Tail(k.queue)
  BY DEF Connection
<1>2. /\ Tail(k.queue) \in Seq(Frame) /\ Head(k.queue) = k.queue[1] /\ Head(k.queue) \in Frame
      /\ Len(k.queue) \in Nat \ {0} /\ Len(l.queue) = Len(k.queue) - 1
      /\ \A n \in 1..Len(l.queue) : l.queue[n] = k.queue[n + 1]
      /\ ToSet(k.queue) = {Head(k.queue)} \cup ToSet(l.queue)
  BY <1>1, TailQueue, Fields
<1>3. l \in Connection
  BY <1>2, Fields DEF Connection
<1>4. Wanted(l) = Wanted(k) /\ Wanted(k) \subseteq IDs
  BY <1>1, Fields DEF Wanted
<1>5. FramesOf(l) \subseteq FramesOf(k) /\ FramesOf(k) \subseteq FramesOf(l) \cup {Answer}
  BY <1>1, <1>2 DEF FramesOf
<1>6. \A m \in IDs : New(m) \in FramesOf(k) => New(m) \in FramesOf(l)
  BY <1>5, FrameTypes
<1>7. Lifecycle(l) /\ Listed(l) /\ OnItsWay(l)
  BY <1>1, <1>4, <1>6 DEF ConnectionInv, Lifecycle, Listed, OnItsWay
<1>8. EndLast(l)
  <2>1. l.pc \in {"new", "list", "send"} => End \notin FramesOf(l)
    BY <1>1, <1>5 DEF ConnectionInv, EndLast
  <2>2. ASSUME End \in l.received, NEW m \in Wanted(l) PROVE New(m) \in l.received
    <3>1. CASE End \in k.received
      BY <3>1, <1>1, <1>4 DEF ConnectionInv, EndLast
    <3>2. CASE End \notin k.received
      <4>1. k.queue[1] = End /\ 1 \in 1..Len(k.queue)
        BY <2>2, <3>2, <1>1, <1>2
      <4>2. New(m) \in k.received \/ \E i \in 1..(1 - 1) : k.queue[i] = New(m)
        BY <4>1, <1>4 DEF ConnectionInv, EndLast
      <4> QED
        BY <4>2, <1>1
    <3> QED
      BY <3>1, <3>2
  <2>3. ASSUME NEW n \in 1..Len(l.queue), l.queue[n] = End, NEW m \in Wanted(l)
        PROVE  New(m) \in l.received \/ \E i \in 1..(n - 1) : l.queue[i] = New(m)
    <3>1. n + 1 \in 1..Len(k.queue) /\ k.queue[n + 1] = End
      BY <2>3, <1>2
    <3>2. New(m) \in k.received \/ \E i \in 1..((n + 1) - 1) : k.queue[i] = New(m)
      BY <3>1, <1>4 DEF ConnectionInv, EndLast
    <3>3. CASE New(m) \in k.received
      BY <3>3, <1>1
    <3>4. ASSUME NEW i \in 1..((n + 1) - 1), k.queue[i] = New(m)
          PROVE  New(m) \in l.received \/ \E j \in 1..(n - 1) : l.queue[j] = New(m)
      <4>1. CASE i = 1
        BY <4>1, <3>4, <1>1, <1>2, <1>4, FrameTypes
      <4>2. CASE i # 1
        <5>1. i - 1 \in 1..(n - 1) /\ i - 1 \in 1..Len(l.queue)
          BY <4>2, <1>2
        <5>2. l.queue[i - 1] = New(m)
          BY <5>1, <3>4, <1>2
        <5> QED
          BY <5>1, <5>2
      <4> QED
        BY <4>1, <4>2
    <3> QED
      BY <3>2, <3>3, <3>4
  <2> QED
    BY <2>1, <2>2, <2>3 DEF EndLast
<1> QED
  BY <1>3, <1>6, <1>7, <1>8 DEF ConnectionInv

\* The connection after message m of the replay is sent.
AfterReplay(k, m) == [[k EXCEPT !.queue = Append(@, New(m))] EXCEPT !.missed = @ \ {m}]

\* What is sent is no longer to be sent.
LEMMA ReplayedInv ==
  ASSUME NEW k \in Connection, ConnectionInv(k), k.pc = "send", NEW m \in k.missed
  PROVE  /\ AfterReplay(k, m) \in Connection /\ ConnectionInv(AfterReplay(k, m))
         /\ FramesOf(k) \subseteq FramesOf(AfterReplay(k, m))
<1> DEFINE j == [k EXCEPT !.queue = Append(@, New(m))]
           l == AfterReplay(k, m)
<1>0. m \in IDs /\ New(m) \in Frame /\ New(m) # End
  BY Fields, FrameTypes
<1>1. j \in Connection /\ ConnectionInv(j) /\ FramesOf(j) = FramesOf(k) \cup {New(m)}
  BY <1>0, SentInv
<1>2. j.pc = "send"
  BY DEF Connection
<1>3. l = [j EXCEPT !.missed = @ \ {m}]
  BY DEF AfterReplay
<1> HIDE DEF j, l
<1>4. /\ l.pc = j.pc /\ l.cursor = j.cursor /\ l.before = j.before /\ l.next = j.next
      /\ l.missed = j.missed \ {m} /\ l.base = j.base /\ l.registered = j.registered
      /\ l.chan = j.chan /\ l.writer = j.writer /\ l.socket = j.socket
      /\ l.received = j.received /\ l.queue = j.queue
  BY <1>1, <1>3 DEF Connection
<1>5. l \in Connection
  BY <1>1, <1>3, Fields DEF Connection
<1>6. Wanted(l) = Wanted(j) /\ FramesOf(l) = FramesOf(j)
  BY <1>4 DEF Wanted, FramesOf
<1>7. Lifecycle(l) /\ Listed(l)
  BY <1>1, <1>2, <1>4 DEF ConnectionInv, Lifecycle, Listed
<1>8. OnItsWay(l)
  BY <1>1, <1>2, <1>4, <1>6 DEF ConnectionInv, OnItsWay
<1>9. EndLast(l)
  BY <1>1, <1>4, <1>6 DEF ConnectionInv, EndLast
<1> QED
  BY <1>1, <1>5, <1>6, <1>7, <1>8, <1>9 DEF ConnectionInv, l

\* When nothing is left to be sent, everything wanted is ahead of the end.
LEMMA EndedInv ==
  ASSUME NEW k \in Connection, ConnectionInv(k), k.pc = "send", k.missed = {}, NEW l,
         l = [[k EXCEPT !.queue = Append(@, End)] EXCEPT !.pc = "read"]
  PROVE  /\ l \in Connection /\ ConnectionInv(l)
         /\ FramesOf(k) \subseteq FramesOf(l)
<1>1. /\ l.pc = "read" /\ l.cursor = k.cursor /\ l.before = k.before /\ l.next = k.next
      /\ l.missed = k.missed /\ l.base = k.base /\ l.registered = k.registered
      /\ l.chan = k.chan /\ l.writer = k.writer /\ l.socket = k.socket
      /\ l.received = k.received /\ l.queue = Append(k.queue, End)
  BY DEF Connection
<1>2. l \in Connection
  BY AppendQueue, Fields, FrameTypes DEF Connection
<1>3. Wanted(l) = Wanted(k) /\ FramesOf(l) = FramesOf(k) \cup {End}
  BY <1>1, AppendQueue, Fields, FrameTypes DEF Wanted, FramesOf
<1>4. Lifecycle(l) /\ Listed(l) /\ OnItsWay(l)
  BY <1>1, <1>3 DEF ConnectionInv, Lifecycle, Listed, OnItsWay
<1>5. EndLast(l)
  <2>1. End \notin FramesOf(k)
    BY DEF ConnectionInv, EndLast
  <2>2. End \notin l.received
    BY <2>1, <1>1 DEF FramesOf
  <2>3. ASSUME l.writer, NEW n \in 1..Len(l.queue), l.queue[n] = End, NEW m \in Wanted(l)
        PROVE  New(m) \in l.received \/ \E i \in 1..(n - 1) : l.queue[i] = New(m)
    <3>1. /\ k.queue \in Seq(Frame) /\ Len(k.queue) \in Nat /\ Len(l.queue) = Len(k.queue) + 1
          /\ \A i \in 1..Len(k.queue) : l.queue[i] = k.queue[i]
          /\ DOMAIN k.queue = 1..Len(k.queue)
      BY <1>1, AppendQueue, Fields, FrameTypes, LenProperties
    <3>2. \A i \in 1..Len(k.queue) : k.queue[i] # End
      BY <2>1, <3>1 DEF FramesOf, ToSet
    <3>3. n = Len(k.queue) + 1
      BY <2>3, <3>1, <3>2
    <3>4. New(m) \in FramesOf(k)
      BY <2>3, <1>1, <1>3 DEF ConnectionInv, OnItsWay
    <3>5. New(m) \in k.received \/ \E i \in 1..Len(k.queue) : k.queue[i] = New(m)
      BY <3>1, <3>4 DEF FramesOf, ToSet
    <3> QED
      BY <3>1, <3>3, <3>5, <1>1
  <2> QED
    BY <1>1, <2>2, <2>3 DEF EndLast
<1> QED
  BY <1>2, <1>3, <1>4, <1>5 DEF ConnectionInv

-----------------------------------------------------------------------------
(* Pages *)

\* The connection after a page, of which newer is what is newer than the cursor.
AfterPage(k, page, newer, missed) ==
    [k EXCEPT !.missed = missed,
              !.next = IF Cardinality(missed) >= MaxReplay THEN Oldest(missed) ELSE 0,
              !.pc = IF Cardinality(missed) >= MaxReplay \/ newer # page \/ page = {} THEN "send" ELSE "list",
              !.before = IF page = {} THEN @ ELSE Oldest(page)]

\* One page: what it brings extends what was found without a gap, and the
\* paging ends only with everything that is wanted.
LEMMA ListedInv ==
  ASSUME NEW k \in Connection, ConnectionInv(k), k.pc = "list", committed \in SUBSET IDs,
         k.base \subseteq committed,
         NEW page, page = Page(k.before),
         NEW newer, newer = {m \in page : m > k.cursor},
         NEW missed, missed = k.missed \cup Newest(newer, MaxReplay - Cardinality(k.missed))
  PROVE  /\ AfterPage(k, page, newer, missed) \in Connection
         /\ ConnectionInv(AfterPage(k, page, newer, missed))
         /\ FramesOf(AfterPage(k, page, newer, missed)) = FramesOf(k)
<1> DEFINE S == {m \in committed : k.before = 0 \/ m < k.before}
           room == MaxReplay - Cardinality(k.missed)
           truncated == Cardinality(missed) >= MaxReplay
           l == AfterPage(k, page, newer, missed)
<1>0. l = [k EXCEPT !.missed = missed,
                    !.next = IF truncated THEN Oldest(missed) ELSE 0,
                    !.pc = IF truncated \/ newer # page \/ page = {} THEN "send" ELSE "list",
                    !.before = IF page = {} THEN @ ELSE Oldest(page)]
  BY DEF AfterPage
<1> HIDE DEF l
<1>1. /\ l.missed = missed /\ l.next = IF truncated THEN Oldest(missed) ELSE 0
      /\ l.pc = IF truncated \/ newer # page \/ page = {} THEN "send" ELSE "list"
      /\ l.before = IF page = {} THEN k.before ELSE Oldest(page)
      /\ l.cursor = k.cursor /\ l.base = k.base /\ l.registered = k.registered
      /\ l.chan = k.chan /\ l.writer = k.writer /\ l.socket = k.socket
      /\ l.received = k.received /\ l.queue = k.queue
  BY <1>0 DEF Connection
<1>2. /\ k.next = 0 /\ k.cursor # 0 /\ Cardinality(k.missed) < MaxReplay
      /\ \A m \in k.missed : k.before # 0 /\ m >= k.before
      /\ \A m \in Wanted(k) : (k.before # 0 /\ m >= k.before) => m \in k.missed
  BY DEF ConnectionInv, Listed
<1>3. S \in SUBSET IDs /\ page = Newest(S, PageSize) /\ PageSize \in Nat /\ PageSize > 0
  BY RealtimeAssumption DEF Page
<1>4. page \in SUBSET S /\ page \in SUBSET IDs /\ newer \in SUBSET page /\ newer \in SUBSET IDs
  BY <1>3 DEF Newest
<1>5. room \in Nat /\ room > 0 /\ k.missed \in SUBSET IDs
  BY <1>2, Fields, IDsFinite, RealtimeAssumption
<1>6. /\ Newest(newer, room) \in SUBSET newer /\ missed = k.missed \cup Newest(newer, room)
      /\ Newest(newer, room) = newer \/ Cardinality(Newest(newer, room)) >= room
  BY <1>4, <1>5, NewestEnough
<1>7. missed \in SUBSET IDs /\ IsFiniteSet(missed) /\ Cardinality(missed) \in Nat
  BY <1>4, <1>5, <1>6, IDsFinite
<1>8. IDs \subseteq Nat \ {0} /\ IDs \subseteq 0..MaxID /\ 0 \in 0..MaxID /\ MaxReplay \in Nat \ {0}
      /\ 0..MaxID \subseteq Nat
  BY RealtimeAssumption DEF IDs
<1>9. page # {} => Oldest(page) \in page /\ \A m \in page : Oldest(page) <= m
  BY <1>4, OldestIsLeast
<1>10. truncated => missed # {} /\ Oldest(missed) \in missed /\ \A m \in missed : Oldest(missed) <= m
  <2>1. ASSUME truncated PROVE missed # {}
    <3>1. Cardinality(missed) >= MaxReplay
      BY <2>1
    <3>2. Cardinality(missed) # 0
      BY <3>1, <1>7, <1>8
    <3> QED
      BY <3>2, FS_EmptySet
  <2> QED
    BY <2>1, <1>7, OldestIsLeast
<1>11. l \in Connection
  <2>1. l.next \in 0..MaxID /\ l.before \in 0..MaxID
    BY <1>1, <1>4, <1>7, <1>8, <1>9, <1>10, Fields
  <2>2. l.pc \in {"new", "list", "send", "read", "done"}
    BY <1>1
  <2>3. l = [pc |-> l.pc, cursor |-> l.cursor, before |-> l.before, missed |-> l.missed, next |-> l.next,
             registered |-> l.registered, queue |-> l.queue, chan |-> l.chan, writer |-> l.writer,
             socket |-> l.socket, received |-> l.received, base |-> l.base]
    BY <1>0 DEF Connection
  <2>4. /\ l.cursor \in 0..MaxID /\ l.base \in SUBSET IDs /\ l.missed \in SUBSET IDs
        /\ l.registered \in BOOLEAN /\ l.chan \in BOOLEAN /\ l.writer \in BOOLEAN /\ l.socket \in BOOLEAN
        /\ l.queue \in Seq(Frame) /\ l.received \in SUBSET Frame
    BY <1>1, <1>7, Fields
  <2> QED
    BY <2>1, <2>2, <2>3, <2>4 DEF Connection
<1>12. \A m \in Wanted(k) : m \in IDs /\ m \in k.base /\ m \in committed /\ m > k.cursor
  BY Fields DEF Wanted
<1>13. Wanted(l) \subseteq Wanted(k)
  <2>1. \A m \in k.base : m >= 0
    <3>1. k.base \in SUBSET IDs
      BY Fields
    <3> QED
      BY <3>1, RealtimeAssumption DEF IDs
  <2> QED
    BY <1>1, <1>2, <2>1 DEF Wanted
\* A wanted message that was not there before is on the page as soon as one below it is.
<1>14. ASSUME NEW m \in Wanted(k), m \notin k.missed, NEW p \in page, p <= m
       PROVE  m \in newer
  <2>1. m \in S
    <3>1. k.before \in Nat /\ m \in Nat
      BY <1>8, <1>12, Fields
    <3> QED
      BY <1>2, <1>12, <1>14, <3>1
  <2>2. m \in page
    BY <1>3, <1>14, <2>1, NewestUpwards
  <2> QED
    BY <1>12, <2>2
<1>15. ~truncated => newer \subseteq missed
  <2> SUFFICES ASSUME ~truncated, Newest(newer, room) # newer PROVE FALSE
    BY <1>6
  <2>1. Cardinality(Newest(newer, room)) >= room
    BY <1>6
  <2>2. k.missed \cap Newest(newer, room) = {}
    <3>1. ASSUME NEW m \in k.missed, m \in Newest(newer, room) PROVE FALSE
      <4>1. m \in S
        BY <3>1, <1>4, <1>6
      <4>2. m \in Nat /\ k.before \in Nat
        BY <1>5, <1>8, Fields
      <4> QED
        BY <4>1, <4>2, <1>2
    <3> QED
      BY <3>1
  <2>3. /\ IsFiniteSet(k.missed) /\ Cardinality(k.missed) \in Nat
        /\ IsFiniteSet(Newest(newer, room)) /\ Cardinality(Newest(newer, room)) \in Nat
    BY <1>4, <1>5, <1>6, IDsFinite
  <2>4. Cardinality(missed) = Cardinality(k.missed) + Cardinality(Newest(newer, room)) - Cardinality({})
    BY <1>6, <2>2, <2>3, FS_Union
  <2>5. Cardinality(missed) >= MaxReplay
    BY <2>1, <2>3, <2>4, FS_EmptySet, <1>8
  <2> QED
    BY <2>5
<1>16. Lifecycle(l)
  BY <1>1, <1>11 DEF ConnectionInv, Lifecycle
<1>17. Listed(l)
  <2> SUFFICES ASSUME l.pc = "list"
               PROVE  /\ l.next = 0 /\ l.cursor # 0
                      /\ Cardinality(l.missed) < MaxReplay
                      /\ \A m \in l.missed : l.before # 0 /\ m >= l.before
                      /\ \A m \in Wanted(l) : (l.before # 0 /\ m >= l.before) => m \in l.missed
    BY DEF Listed
  <2>1. ~truncated /\ newer = page /\ page # {} /\ l.before = Oldest(page)
    BY <1>1
  <2>2. l.next = 0 /\ l.cursor # 0 /\ Cardinality(l.missed) < MaxReplay
    BY <2>1, <1>1, <1>2, <1>7, <1>8
  <2>3. l.before \in S /\ l.before \in IDs /\ l.before # 0
    BY <2>1, <1>4, <1>8, <1>9
  <2>4. ASSUME NEW m \in l.missed PROVE m >= l.before
    <3>1. CASE m \in k.missed
      <4>1. m \in Nat /\ k.before \in Nat /\ l.before \in Nat
        BY <3>1, <2>3, <1>5, <1>8, Fields
      <4> QED
        BY <3>1, <4>1, <2>3, <1>2
    <3>2. CASE m \in page
      BY <3>2, <2>1, <1>4, <1>8, <1>9
    <3> QED
      BY <2>4, <3>1, <3>2, <1>1, <1>4, <1>6
  <2>5. ASSUME NEW m \in Wanted(l), m >= l.before PROVE m \in l.missed
    <3>1. m \in Wanted(k) /\ m \in Nat /\ l.before \in Nat
      BY <1>8, <1>12, <1>13, <2>3
    <3>2. m \in k.missed \/ m \in newer
      BY <1>9, <1>14, <2>1, <2>5, <3>1
    <3> QED
      BY <3>2, <2>1, <1>1, <1>15
  <2> QED
    BY <2>2, <2>3, <2>4, <2>5
<1>18. OnItsWay(l)
  <2>a. l.pc \in {"send", "list"} /\ l.missed = missed
    BY <1>1
  <2> SUFFICES ASSUME l.pc = "send", NEW m \in Wanted(l) PROVE m \in missed
    BY <2>a DEF OnItsWay
  <2>0. m \in Wanted(k) /\ m \in Nat /\ m \in committed /\ k.missed \subseteq missed
    BY <1>8, <1>12, <1>13
  <2>1. CASE truncated
    <3>1. Oldest(missed) <= m /\ Oldest(missed) \in missed /\ Oldest(missed) \in Nat
      BY <2>1, <1>1, <1>7, <1>8, <1>10, <2>0 DEF Wanted
    <3>2. CASE Oldest(missed) \in k.missed
      <4>1. k.before # 0 /\ m >= k.before
        BY <3>1, <3>2, <2>0, <1>2, <1>8, Fields
      <4> QED
        BY <4>1, <2>0, <1>2
    <3>3. CASE Oldest(missed) \in Newest(newer, room) /\ m \notin k.missed
      <4>1. Oldest(missed) \in page
        BY <3>3, <1>4, <1>6
      <4>2. m \in newer
        BY <3>1, <3>3, <4>1, <2>0, <1>14
      <4> QED
        BY <3>1, <3>3, <4>2, <1>4, <1>5, <1>6, NewestUpwards
    <3> QED
      BY <3>1, <3>2, <3>3, <2>0, <1>6
  <2>2. CASE ~truncated /\ page = {}
    <3>1. S = {}
      <4>1. Newest(S, PageSize) = S \/ Cardinality(Newest(S, PageSize)) >= PageSize
        BY <1>3, NewestEnough
      <4>2. Newest(S, PageSize) = {} /\ Cardinality({}) = 0
        BY <2>2, <1>3, FS_EmptySet
      <4> HIDE DEF S
      <4> QED
        BY <4>1, <4>2, <1>3
    <3>2. k.before # 0 /\ m >= k.before
      BY <3>1, <2>0, <1>8, Fields
    <3> QED
      BY <3>2, <2>0, <1>2
  <2>3. CASE ~truncated /\ newer # page
    <3>1. PICK p \in page : ~(p > k.cursor)
      BY <2>3
    <3>2. p <= m
      BY <3>1, <2>0, <1>4, <1>8, <1>12, Fields
    <3>3. m \in k.missed \/ m \in newer
      BY <3>2, <2>0, <1>14
    <3> QED
      BY <3>3, <2>0, <2>3, <1>15
  <2> QED
    BY <2>1, <2>2, <2>3, <1>1
<1>19. EndLast(l)
  <2>1. FramesOf(l) = FramesOf(k) /\ End \notin FramesOf(k)
    BY <1>1 DEF FramesOf, ConnectionInv, EndLast
  <2>2. End \notin l.received
    BY <2>1 DEF FramesOf
  <2>3. ASSUME NEW n \in 1..Len(l.queue), l.queue[n] = End PROVE FALSE
    <3>1. l.queue \in Seq(Frame) /\ n \in DOMAIN l.queue
      BY <1>1, <2>3, Fields, LenProperties
    <3> QED
      BY <2>1, <2>3, <3>1 DEF FramesOf, ToSet
  <2> QED
    BY <2>1, <2>2, <2>3 DEF EndLast
<1> QED
  BY <1>1, <1>11, <1>16, <1>17, <1>18, <1>19 DEF ConnectionInv, FramesOf, l

-----------------------------------------------------------------------------
(* The steps *)

\* A connection that works, and what it is owed of the events after its registration.
Working(k) == k.pc \in {"list", "send", "read"} /\ k.chan /\ k.writer

\* A step of one connection that keeps its own invariant keeps all of them, if
\* the connection drops no message while it works.
LEMMA OneConnection ==
  ASSUME RealtimeInv, NEW c \in Connections, NEW l \in Connection,
         conn' = [conn EXCEPT ![c] = l],
         UNCHANGED <<committed, consumed, again, bcast>>,
         ConnectionInv(l), l.pc # "new", Len(l.queue) <= QueueCap,
         l.base = conn[c].base,
         Working(l) => /\ Working(conn[c])
                       /\ \A m \in IDs : New(m) \in FramesOf(conn[c]) => New(m) \in FramesOf(l)
  PROVE  RealtimeInv'
<1>1. /\ conn \in [Connections -> Connection]
      /\ \A d \in Connections : conn'[d] = IF d = c THEN l ELSE conn[d]
      /\ consumed \subseteq IDs
  BY DEF RealtimeInv, TypeOK
<1>2. TypeOK'
  BY <1>1 DEF RealtimeInv, TypeOK
<1>3. TodoServed'
  BY <1>1 DEF RealtimeInv, TodoServed
<1>4. \A d \in Connections : ConnectionInv(conn'[d]) /\ conn'[d].base \subseteq committed'
  BY <1>1 DEF RealtimeInv
<1>5. LiveInv'
  <2> SUFFICES ASSUME NEW d \in Connections, Working(conn'[d]), NEW m \in consumed \ conn'[d].base
               PROVE  New(m) \in FramesOf(conn'[d]) \/ (bcast # None /\ bcast.msg = m /\ d \in bcast.todo)
    BY DEF LiveInv, Frames, FramesOf, Working
  <2>1. Working(conn[d]) /\ m \in consumed \ conn[d].base /\ m \in IDs
    BY <1>1
  <2>2. New(m) \in FramesOf(conn[d]) \/ (bcast # None /\ bcast.msg = m /\ d \in bcast.todo)
    BY <2>1 DEF RealtimeInv, LiveInv, Frames, FramesOf, Working
  <2> QED
    BY <1>1, <2>1, <2>2
<1> QED
  BY <1>2, <1>3, <1>4, <1>5 DEF RealtimeInv

\* Before anything is served.
LEMMA InitRealtimeInv == Init => RealtimeInv
<1> SUFFICES ASSUME Init PROVE RealtimeInv
  OBVIOUS
<1>0. << >> \in Seq(Frame) /\ Len(<< >>) = 0 /\ ToSet(<< >>) = {}
  BY DEF ToSet
<1>1. Fresh \in Connection
  BY <1>0, RealtimeAssumption DEF Fresh, Connection
<1>2. TypeOK
  BY <1>0, <1>1, RealtimeAssumption DEF Init, TypeOK, Fresh, IDs
<1>3. ConnectionInv(Fresh)
  BY <1>0 DEF Fresh, ConnectionInv, Lifecycle, Listed, OnItsWay, EndLast, FramesOf
<1>4. TodoServed /\ LiveInv
  BY DEF Init, TodoServed, LiveInv, Fresh
<1> QED
  BY <1>2, <1>3, <1>4 DEF Init, RealtimeInv, Fresh

\* chat-service, and the start and the end of a broadcast.
LEMMA EventSteps ==
  ASSUME RealtimeInv, (\E m \in IDs : Commit(m) \/ Broadcast(m)) \/ BroadcastDone
  PROVE  RealtimeInv'
<1>0. conn \in [Connections -> Connection] /\ conn' = conn /\ committed \subseteq committed'
  BY DEF RealtimeInv, TypeOK, Commit, Broadcast, BroadcastDone
<1>1. TypeOK'
  <2>1. ASSUME NEW m \in IDs, Commit(m) PROVE TypeOK'
    BY <2>1 DEF Commit, RealtimeInv, TypeOK
  <2>2. ASSUME NEW m \in IDs, Broadcast(m) PROVE TypeOK'
    <3>1. bcast' \in [msg : IDs, todo : SUBSET Connections]
      BY <2>2 DEF Broadcast
    <3>2. again' \in 0..MaxAgain
      BY <2>2, RealtimeAssumption DEF Broadcast, RealtimeInv, TypeOK
    <3> QED
      BY <2>2, <3>1, <3>2 DEF Broadcast, RealtimeInv, TypeOK
  <2>3. CASE BroadcastDone
    BY <2>3 DEF BroadcastDone, RealtimeInv, TypeOK
  <2> QED
    BY <2>1, <2>2, <2>3
<1>2. TodoServed'
  <2>1. ASSUME NEW m \in IDs, Broadcast(m) PROVE TodoServed'
    <3>1. \A c \in Connections : conn[c].registered => conn[c].pc # "new"
      BY <1>0 DEF RealtimeInv, ConnectionInv, Lifecycle, Fresh
    <3> QED
      BY <2>1, <3>1 DEF Broadcast, TodoServed
  <2> QED
    BY <2>1 DEF Commit, BroadcastDone, RealtimeInv, TodoServed
<1>3. \A d \in Connections : ConnectionInv(conn'[d]) /\ conn'[d].base \subseteq committed'
  BY <1>0 DEF RealtimeInv
<1>4. LiveInv'
  <2>1. ASSUME NEW m \in IDs, Broadcast(m) PROVE LiveInv'
    <3>1. bcast = None /\ bcast'.msg = m /\ bcast'.todo = {c \in Connections : conn[c].registered}
          /\ consumed' = consumed \cup {m} /\ bcast' # None
      <4>1. bcast' = [msg |-> m, todo |-> {c \in Connections : conn[c].registered}]
        BY <2>1 DEF Broadcast
      <4>2. bcast' # None
        BY <4>1, RealtimeAssumption DEF IDs
      <4> QED
        BY <2>1, <4>1, <4>2 DEF Broadcast
    <3>2. \A c \in Connections : conn[c].pc \in {"list", "send", "read"} => conn[c].registered
      BY DEF RealtimeInv, ConnectionInv, Lifecycle
    <3> QED
      BY <1>0, <3>1, <3>2 DEF RealtimeInv, LiveInv, Frames
  <2>2. ASSUME NEW m \in IDs, Commit(m) PROVE LiveInv'
    BY <2>2, <1>0 DEF Commit, RealtimeInv, LiveInv, Frames
  <2>3. CASE BroadcastDone
    BY <2>3, <1>0 DEF BroadcastDone, RealtimeInv, LiveInv, Frames
  <2> QED
    BY <2>1, <2>2, <2>3
<1> QED
  BY <1>1, <1>2, <1>3, <1>4 DEF RealtimeInv

\* An event goes into the queue of a client, or the client is closed.
LEMMA BroadcastStep ==
  ASSUME RealtimeInv, NEW c \in Connections, BroadcastTo(c)
  PROVE  RealtimeInv'
<1> DEFINE k == conn[c]
           l == IF CanSend(c) THEN Sent(c, New(bcast.msg)) ELSE Closed(c)
<1>1. /\ bcast # None /\ c \in bcast.todo
      /\ conn' = [conn EXCEPT ![c] = l]
      /\ bcast' = [bcast EXCEPT !.todo = @ \ {c}]
      /\ UNCHANGED <<committed, consumed, again>>
  BY DEF BroadcastTo
<1>2. /\ conn \in [Connections -> Connection] /\ k \in Connection /\ ConnectionInv(k)
      /\ bcast \in [msg : IDs, todo : SUBSET Connections] /\ bcast.msg \in IDs
      /\ k.pc # "new" /\ Len(k.queue) <= QueueCap
  BY <1>1 DEF RealtimeInv, TypeOK, TodoServed
<1>3. bcast'.msg = bcast.msg /\ bcast'.todo = bcast.todo \ {c} /\ bcast' \in [msg : IDs, todo : SUBSET Connections]
  BY <1>1, <1>2
<1>4. New(bcast.msg) \in Frame /\ New(bcast.msg) # End
  BY <1>2, FrameTypes
<1>5. /\ l \in Connection /\ ConnectionInv(l) /\ l.pc = k.pc /\ l.base = k.base
      /\ Len(l.queue) <= QueueCap /\ FramesOf(k) \subseteq FramesOf(l)
      /\ Working(l) => Working(k) /\ New(bcast.msg) \in FramesOf(l)
  <2>1. CASE CanSend(c)
    <3>1. l = [k EXCEPT !.queue = Append(@, New(bcast.msg))]
      BY <2>1 DEF Sent
    <3>2. l \in Connection /\ ConnectionInv(l) /\ FramesOf(l) = FramesOf(k) \cup {New(bcast.msg)}
      BY <1>2, <1>4, <3>1, SentInv
    <3>3. /\ l.pc = k.pc /\ l.base = k.base /\ l.chan = k.chan /\ l.writer = k.writer
          /\ l.queue = Append(k.queue, New(bcast.msg))
      BY <3>1, <1>2 DEF Connection
    <3>4. Len(k.queue) < QueueCap /\ Len(l.queue) = Len(k.queue) + 1 /\ Len(k.queue) \in Nat
      BY <2>1, <3>3, <1>2, <1>4, AppendQueue, Fields DEF CanSend
    <3>5. Len(l.queue) <= QueueCap
      BY <3>4, RealtimeAssumption
    <3> QED
      BY <3>2, <3>3, <3>5 DEF Working
  <2>2. CASE ~CanSend(c)
    <3>1. l = [k EXCEPT !.chan = FALSE]
      BY <2>2 DEF Closed
    <3>2. /\ l.cursor = k.cursor /\ l.before = k.before /\ l.next = k.next /\ l.pc = k.pc
          /\ l.missed = k.missed /\ l.base = k.base /\ l.registered = k.registered
          /\ l.queue = k.queue /\ l.received = k.received /\ l.writer = k.writer
          /\ l.socket = k.socket /\ l.chan = FALSE
      BY <3>1, <1>2 DEF Connection
    <3>3. l \in Connection
      BY <3>1, <1>2 DEF Connection
    <3>4. ConnectionInv(l) /\ FramesOf(l) = FramesOf(k)
      BY <3>2, <3>3, <1>2, ReleasedInv
    <3> QED
      BY <1>2, <3>2, <3>3, <3>4 DEF Working
  <2> QED
    BY <2>1, <2>2
<1> HIDE DEF l
<1>6. \A d \in Connections : conn'[d] = IF d = c THEN l ELSE conn[d]
  BY <1>1, <1>2
<1>7. TypeOK'
  BY <1>1, <1>2, <1>3, <1>5, <1>6 DEF RealtimeInv, TypeOK
<1>8. TodoServed'
  BY <1>1, <1>2, <1>3, <1>5, <1>6 DEF RealtimeInv, TodoServed
<1>9. \A d \in Connections : ConnectionInv(conn'[d]) /\ conn'[d].base \subseteq committed'
  BY <1>1, <1>5, <1>6 DEF RealtimeInv
<1>10. LiveInv'
  <2> SUFFICES ASSUME NEW d \in Connections, Working(conn'[d]), NEW m \in consumed \ conn'[d].base
               PROVE  New(m) \in FramesOf(conn'[d]) \/ (bcast' # None /\ bcast'.msg = m /\ d \in bcast'.todo)
    BY <1>1 DEF LiveInv, Frames, FramesOf, Working
  <2>1. Working(conn[d]) /\ m \in consumed \ conn[d].base
    BY <1>5, <1>6
  <2>2. New(m) \in FramesOf(conn[d]) \/ (bcast.msg = m /\ d \in bcast.todo)
    BY <2>1 DEF RealtimeInv, LiveInv, Frames, FramesOf, Working
  <2>3. bcast' # None
    BY <1>3, RealtimeAssumption DEF IDs
  <2> QED
    BY <1>3, <1>5, <1>6, <2>2, <2>3
<1> QED
  BY <1>7, <1>8, <1>9, <1>10 DEF RealtimeInv

\* A connection begins with everything committed as its base: nothing is owed yet.
LEMMA ServeStep ==
  ASSUME RealtimeInv, NEW c \in Connections, Serve(c)
  PROVE  RealtimeInv'
<1>1. PICK cursor \in committed \cup {0} :
          conn' = [conn EXCEPT ![c] =
                     [Fresh EXCEPT !.pc = IF cursor = 0 THEN "read" ELSE "list",
                                   !.cursor = cursor, !.registered = TRUE,
                                   !.writer = TRUE, !.socket = TRUE, !.base = committed]]
  BY DEF Serve
<1> DEFINE l == [Fresh EXCEPT !.pc = IF cursor = 0 THEN "read" ELSE "list",
                              !.cursor = cursor, !.registered = TRUE,
                              !.writer = TRUE, !.socket = TRUE, !.base = committed]
<1>2. /\ conn \in [Connections -> Connection] /\ committed \subseteq IDs
      /\ UNCHANGED <<committed, consumed, again, bcast>> /\ consumed \subseteq committed
  BY DEF Serve, RealtimeInv, TypeOK
<1>3. /\ l.pc = (IF cursor = 0 THEN "read" ELSE "list") /\ l.cursor = cursor /\ l.before = 0
      /\ l.missed = {} /\ l.next = 0 /\ l.registered = TRUE /\ l.queue = << >> /\ l.chan = TRUE
      /\ l.writer = TRUE /\ l.socket = TRUE /\ l.received = {} /\ l.base = committed
  BY DEF Fresh
<1>4. << >> \in Seq(Frame) /\ Len(<< >>) = 0 /\ ToSet(<< >>) = {} /\ cursor \in 0..MaxID /\ 0 \in 0..MaxID
  BY <1>2, RealtimeAssumption DEF ToSet, IDs
<1>5. l \in Connection
  BY <1>2, <1>4 DEF Fresh, Connection
<1>7. \A d \in Connections : conn'[d] = IF d = c THEN l ELSE conn[d]
  BY <1>1, <1>2
<1>8. conn' \in [Connections -> Connection]
  BY <1>1, <1>2, <1>5
<1> HIDE DEF l
<1>6. ConnectionInv(l)
  <2>1. cursor = 0 => Wanted(l) = {}
    BY <1>3 DEF Wanted
  <2>2. Cardinality(l.missed) < MaxReplay
    BY <1>3, FS_EmptySet, RealtimeAssumption
  <2>3. FramesOf(l) = {}
    BY <1>3, <1>4 DEF FramesOf
  <2>4. Lifecycle(l) /\ Listed(l) /\ OnItsWay(l)
    BY <1>3, <2>1, <2>2 DEF Lifecycle, Listed, OnItsWay
  <2>5. EndLast(l)
    BY <1>3, <1>4, <2>3 DEF EndLast
  <2> QED
    BY <2>4, <2>5 DEF ConnectionInv
<1>9. TypeOK'
  <2>1. Len(l.queue) <= QueueCap
    BY <1>3, <1>4, RealtimeAssumption
  <2> QED
    BY <1>2, <1>7, <1>8, <2>1 DEF RealtimeInv, TypeOK
<1>12. TodoServed'
  <2>1. bcast # None => bcast.todo \subseteq Connections
    BY DEF RealtimeInv, TypeOK
  <2> QED
    BY <1>2, <1>3, <1>7, <2>1 DEF RealtimeInv, TodoServed
<1>10. \A d \in Connections : ConnectionInv(conn'[d]) /\ conn'[d].base \subseteq committed'
  BY <1>2, <1>3, <1>6, <1>7 DEF RealtimeInv
<1>11. LiveInv'
  BY <1>2, <1>3, <1>7 DEF RealtimeInv, LiveInv, Frames
<1> QED
  BY <1>9, <1>12, <1>10, <1>11 DEF RealtimeInv

\* Replay, reading and writing.
LEMMA ConnectionSteps ==
  ASSUME RealtimeInv, NEW c \in Connections,
         Request(c) \/ WriteLoop(c) \/ HandleMessage(c) \/ PeerGone(c)
  PROVE  RealtimeInv'
<1> DEFINE k == conn[c]
<1>1. /\ conn \in [Connections -> Connection] /\ k \in Connection /\ ConnectionInv(k)
      /\ Len(k.queue) <= QueueCap /\ k.base \subseteq committed /\ committed \in SUBSET IDs
      /\ QueueCap \in Nat /\ Len(k.queue) \in Nat /\ k.queue \in Seq(Frame)
      /\ k = conn[c]
  BY Fields, RealtimeAssumption DEF RealtimeInv, TypeOK
<1> HIDE DEF k
<1>2. k.pc = "new" => ~k.writer /\ ~k.socket
  BY <1>1 DEF ConnectionInv, Lifecycle, Fresh
<1>3. CASE ListMissed(c)
  <2> DEFINE page == Page(k.before)
             newer == {m \in page : m > k.cursor}
             missed == k.missed \cup Newest(newer, MaxReplay - Cardinality(k.missed))
             l == AfterPage(k, page, newer, missed)
  <2>1. /\ k.pc = "list" /\ UNCHANGED <<committed, consumed, again, bcast>>
        /\ conn' = [conn EXCEPT ![c] = l]
    BY <1>1, <1>3 DEF ListMissed, AfterPage
  <2>2. /\ l.base = k.base /\ l.queue = k.queue /\ l.chan = k.chan /\ l.writer = k.writer
        /\ l.pc \in {"send", "list"}
    BY <1>1 DEF Connection, AfterPage
  <2>3. l \in Connection /\ ConnectionInv(l) /\ FramesOf(l) = FramesOf(k)
    <3>1. /\ page = Page(k.before) /\ newer = {m \in page : m > k.cursor}
          /\ missed = k.missed \cup Newest(newer, MaxReplay - Cardinality(k.missed))
      OBVIOUS
    <3>2. /\ k \in Connection /\ ConnectionInv(k) /\ k.pc = "list" /\ committed \in SUBSET IDs
          /\ k.base \subseteq committed
      BY <1>1, <2>1
    <3> HIDE DEF page, newer, missed
    <3> QED
      BY <3>1, <3>2, ListedInv
  <2> HIDE DEF l
  <2> QED
    BY <1>1, <2>1, <2>2, <2>3, OneConnection DEF Working
<1>4. CASE ReplayMessage(c)
  <2>1. PICK m \in k.missed : conn' = [conn EXCEPT ![c] = [Sent(c, New(m)) EXCEPT !.missed = @ \ {m}]]
    BY <1>1, <1>4 DEF ReplayMessage
  <2> DEFINE l == AfterReplay(k, m)
  <2>2. k.pc = "send" /\ CanSend(c) /\ UNCHANGED <<committed, consumed, again, bcast>> /\ conn' = [conn EXCEPT ![c] = l]
    BY <1>1, <1>4, <2>1 DEF ReplayMessage, Sent, AfterReplay
  <2>3. /\ l.base = k.base /\ l.queue = Append(k.queue, New(m)) /\ l.chan = k.chan /\ l.writer = k.writer
        /\ l.pc = k.pc
    BY <1>1 DEF Connection, AfterReplay
  <2>4. l \in Connection /\ ConnectionInv(l) /\ FramesOf(k) \subseteq FramesOf(l)
    <3>1. k \in Connection /\ ConnectionInv(k) /\ k.pc = "send"
      BY <1>1, <2>2
    <3> QED
      BY <3>1, ReplayedInv
  <2> HIDE DEF l
  <2>5. Len(l.queue) <= QueueCap
    <3>1. New(m) \in Frame
      BY <1>1, Fields, FrameTypes
    <3> QED
      BY <1>1, <2>2, <2>3, <3>1, AppendQueue DEF CanSend
  <2> QED
    BY <1>1, <2>2, <2>3, <2>4, <2>5, OneConnection DEF Working
<1>5. CASE ReplayEnd(c)
  <2> DEFINE l == [[k EXCEPT !.queue = Append(@, End)] EXCEPT !.pc = "read"]
  <2>1. /\ k.pc = "send" /\ k.missed = {} /\ CanSend(c) /\ UNCHANGED <<committed, consumed, again, bcast>>
        /\ conn' = [conn EXCEPT ![c] = l]
    BY <1>1, <1>5 DEF ReplayEnd, Sent
  <2>2. /\ l.base = k.base /\ l.queue = Append(k.queue, End) /\ l.chan = k.chan /\ l.writer = k.writer
        /\ l.pc = "read"
    BY <1>1 DEF Connection
  <2>5. l = [[k EXCEPT !.queue = Append(@, End)] EXCEPT !.pc = "read"]
    OBVIOUS
  <2> HIDE DEF l
  <2>3. l \in Connection /\ ConnectionInv(l) /\ FramesOf(k) \subseteq FramesOf(l)
    BY <1>1, <2>1, <2>5, EndedInv
  <2>4. Len(l.queue) <= QueueCap
    BY <1>1, <2>1, <2>2, AppendQueue, FrameTypes DEF CanSend
  <2> HIDE DEF l
  <2> QED
    BY <1>1, <2>1, <2>2, <2>3, <2>4, OneConnection DEF Working
<1>6. CASE HandleMessage(c)
  <2> DEFINE l == [k EXCEPT !.queue = Append(@, Answer)]
  <2>1. /\ k.pc = "read" /\ CanSend(c) /\ UNCHANGED <<committed, consumed, again, bcast>>
        /\ conn' = [conn EXCEPT ![c] = l]
    BY <1>1, <1>6 DEF HandleMessage, Sent
  <2>2. /\ l.base = k.base /\ l.queue = Append(k.queue, Answer) /\ l.chan = k.chan /\ l.writer = k.writer
        /\ l.pc = "read"
    BY <1>1, <2>1 DEF Connection
  <2>3. l \in Connection /\ ConnectionInv(l) /\ FramesOf(k) \subseteq FramesOf(l)
    <3>1. k \in Connection /\ ConnectionInv(k) /\ k.pc # "new" /\ Answer \in Frame /\ Answer # End
      BY <1>1, <2>1, FrameTypes
    <3> QED
      BY <3>1, SentInv
  <2>4. Len(l.queue) <= QueueCap
    BY <1>1, <2>1, <2>2, AppendQueue, FrameTypes DEF CanSend
  <2> HIDE DEF l
  <2> QED
    BY <1>1, <2>1, <2>2, <2>3, <2>4, OneConnection DEF Working
<1>7. CASE WriteFrame(c)
  <2> DEFINE l == [k EXCEPT !.queue = Tail(@), !.received = @ \cup ({Head(k.queue)} \ {Answer})]
  <2>1. /\ k.writer /\ k.queue # << >> /\ UNCHANGED <<committed, consumed, again, bcast>>
        /\ conn' = [conn EXCEPT ![c] = l]
    BY <1>1, <1>7 DEF WriteFrame
  <2>2. /\ l.base = k.base /\ l.queue = Tail(k.queue) /\ l.chan = k.chan /\ l.writer = k.writer
        /\ l.pc = k.pc /\ k.pc # "new"
    BY <1>1, <1>2, <2>1 DEF Connection
  <2>3. /\ l \in Connection /\ ConnectionInv(l)
        /\ \A m \in IDs : New(m) \in FramesOf(k) => New(m) \in FramesOf(l)
    <3>1. k \in Connection /\ ConnectionInv(k) /\ k.pc # "new" /\ k.writer /\ k.queue # << >>
      BY <1>1, <2>1, <2>2
    <3> QED
      BY <3>1, WrittenInv
  <2>4. Len(l.queue) <= QueueCap
    BY <1>1, <2>1, <2>2, TailQueue
  <2> HIDE DEF l
  <2> QED
    BY <1>1, <2>1, <2>2, <2>3, <2>4, OneConnection DEF Working
<1>8. CASE WriteFails(c) \/ PingFails(c) \/ WriteLoopEnds(c)
  <2> DEFINE l == conn'[c]
  <2>1. PICK q \in {k.queue, Tail(k.queue)} :
          /\ q = Tail(k.queue) => k.queue # << >> \/ q = k.queue
          /\ k.writer
          /\ UNCHANGED <<committed, consumed, again, bcast>>
          /\ conn' = [conn EXCEPT ![c] = [k EXCEPT !.queue = q, !.writer = FALSE, !.socket = FALSE]]
    <3>1. CASE WriteFails(c)
      <4>1. conn' = [conn EXCEPT ![c] = [k EXCEPT !.queue = Tail(k.queue), !.writer = FALSE, !.socket = FALSE]]
        BY <1>1, <3>1 DEF WriteFails, Connection
      <4> QED
        BY <1>1, <3>1, <4>1 DEF WriteFails
    <3>2. CASE PingFails(c) \/ WriteLoopEnds(c)
      <4>1. conn' = [conn EXCEPT ![c] = [k EXCEPT !.queue = k.queue, !.writer = FALSE, !.socket = FALSE]]
        <5>1. CASE PingFails(c)
          <6>1. conn' = [conn EXCEPT ![c] = [k EXCEPT !.writer = FALSE]] /\ k.socket = FALSE
            BY <1>1, <5>1, Fields DEF PingFails
          <6>2. [k EXCEPT !.writer = FALSE] = [k EXCEPT !.queue = k.queue, !.writer = FALSE, !.socket = FALSE]
            BY <1>1, <6>1 DEF Connection
          <6> QED
            BY <6>1, <6>2
        <5>2. CASE WriteLoopEnds(c)
          <6>1. conn' = [conn EXCEPT ![c] = [k EXCEPT !.writer = FALSE, !.socket = FALSE]]
            BY <1>1, <5>2 DEF WriteLoopEnds
          <6>2. [k EXCEPT !.writer = FALSE, !.socket = FALSE]
                  = [k EXCEPT !.queue = k.queue, !.writer = FALSE, !.socket = FALSE]
            BY <1>1 DEF Connection
          <6> QED
            BY <6>1, <6>2
        <5> QED
          BY <3>2, <5>1, <5>2
      <4> QED
        BY <1>1, <3>2, <4>1 DEF PingFails, WriteLoopEnds
    <3> QED
      BY <1>8, <3>1, <3>2
  <2>2. l = [k EXCEPT !.queue = q, !.writer = FALSE, !.socket = FALSE] /\ conn' = [conn EXCEPT ![c] = l]
    BY <1>1, <2>1
  <2>3. /\ l.cursor = k.cursor /\ l.before = k.before /\ l.next = k.next /\ l.pc = k.pc
        /\ l.missed = k.missed /\ l.base = k.base /\ l.registered = k.registered
        /\ l.received = k.received /\ l.writer = FALSE /\ l.socket = FALSE /\ l.queue = q
    BY <1>1, <2>2 DEF Connection
  <2>4. q = k.queue \/ (k.queue # << >> /\ q = Tail(k.queue))
    BY <2>1
  <2>5. q \in Seq(Frame) /\ Len(q) <= QueueCap
    <3>1. CASE q = k.queue
      BY <1>1, <3>1
    <3>2. CASE k.queue # << >> /\ q = Tail(k.queue)
      BY <1>1, <3>2, TailQueue
    <3> QED
      BY <2>4, <3>1, <3>2
  <2>6. l \in Connection
    BY <1>1, <2>2, <2>5 DEF Connection
  <2>7. ConnectionInv(l) /\ l.pc # "new"
    BY <1>1, <1>2, <2>1, <2>3, <2>4, <2>6, WriterEndsInv
  <2> HIDE DEF l
  <2> QED
    BY <1>1, <2>1, <2>2, <2>3, <2>5, <2>6, <2>7, OneConnection DEF Working
<1>9. CASE ReplayFails(c) \/ ReadLoopEnds(c) \/ PeerGone(c)
  <2> DEFINE l == conn'[c]
  <2>1. PICK chan \in BOOLEAN, socket \in BOOLEAN, registered \in BOOLEAN, pc \in {k.pc, "done"} :
          /\ chan => k.chan
          /\ socket => k.socket
          /\ pc = "done" \/ registered = k.registered
          /\ conn' = [conn EXCEPT ![c] = [k EXCEPT !.pc = pc, !.chan = chan, !.socket = socket,
                                                   !.registered = registered]]
    <3>1. CASE ReplayFails(c)
      <4>1. conn' = [conn EXCEPT ![c] = [k EXCEPT !.pc = "done", !.chan = FALSE, !.socket = FALSE,
                                                   !.registered = FALSE]]
        BY <1>1, <3>1 DEF ReplayFails, Closed, Connection
      <4> QED
        BY <4>1
    <3>2. CASE ReadLoopEnds(c)
      <4>1. conn' = [conn EXCEPT ![c] = [k EXCEPT !.pc = "done", !.chan = k.chan, !.socket = k.socket,
                                                   !.registered = FALSE]]
        BY <1>1, <3>2 DEF ReadLoopEnds, Connection
      <4> QED
        BY <1>1, <4>1, Fields
    <3>3. CASE PeerGone(c)
      <4>1. conn' = [conn EXCEPT ![c] = [k EXCEPT !.pc = k.pc, !.chan = k.chan, !.socket = FALSE,
                                                   !.registered = k.registered]]
        BY <1>1, <3>3 DEF PeerGone, Connection
      <4> QED
        BY <1>1, <4>1, Fields
    <3> QED
      BY <1>9, <3>1, <3>2, <3>3
  <2>2. /\ l = [k EXCEPT !.pc = pc, !.chan = chan, !.socket = socket, !.registered = registered]
        /\ conn' = [conn EXCEPT ![c] = l]
    BY <1>1, <2>1
  <2>3. /\ l.cursor = k.cursor /\ l.before = k.before /\ l.next = k.next
        /\ l.missed = k.missed /\ l.base = k.base /\ l.queue = k.queue /\ l.received = k.received
        /\ l.writer = k.writer /\ l.pc = pc /\ l.chan = chan /\ l.socket = socket /\ l.registered = registered
    BY <1>1, <2>2 DEF Connection
  <2>4. l \in Connection
    <3>1. pc \in {"new", "list", "send", "read", "done"}
      BY <1>1, Fields
    <3> HIDE DEF l
    <3> QED
      BY <1>1, <2>2, <3>1 DEF Connection
  <2>5. k.pc # "new" /\ UNCHANGED <<committed, consumed, again, bcast>>
    BY <1>1, <1>2, <1>9 DEF ReplayFails, ReadLoopEnds, PeerGone
  <2> HIDE DEF l
  <2>6. ConnectionInv(l) /\ FramesOf(l) = FramesOf(k)
    <3>1. \/ l.pc = k.pc /\ l.registered = k.registered
          \/ l.pc = "done"
      BY <2>1, <2>3
    <3> QED
      BY <1>1, <2>1, <2>3, <2>4, <2>5, <3>1, ReleasedInv
  <2> QED
    BY <1>1, <2>1, <2>2, <2>3, <2>4, <2>5, <2>6, OneConnection DEF Working
<1> QED
  BY <1>3, <1>4, <1>5, <1>6, <1>7, <1>8, <1>9 DEF Request, WriteLoop

\* Every step keeps the invariant.
LEMMA NextRealtimeInv == RealtimeInv /\ [Next]_vars => RealtimeInv'
<1> SUFFICES ASSUME RealtimeInv, [Next]_vars PROVE RealtimeInv'
  OBVIOUS
<1>1. CASE UNCHANGED vars
  BY <1>1 DEF vars, RealtimeInv, TypeOK, TodoServed, LiveInv, Frames
<1>2. CASE Next
  BY <1>2, EventSteps, BroadcastStep, ServeStep, ConnectionSteps DEF Next
<1> QED
  BY <1>1, <1>2

\* The invariant holds in every state.
LEMMA RealtimeInvariant == Spec => []RealtimeInv
<1> QED
  BY InitRealtimeInv, NextRealtimeInv, PTL DEF Spec

\* Every state of the hub is well typed, whatever the sizes (Handler.Serve,
\* Client, Hub.Broadcast); in particular no send queue outgrows its capacity.
THEOREM RealtimeTypes == Spec => []TypeOK
<1>1. RealtimeInv => TypeOK
  BY DEF RealtimeInv
<1> QED
  BY <1>1, RealtimeInvariant, PTL

\* What a browser holds when replay.end arrives is complete (replayMessages):
\* no page, no live event in between and no failure leaves a hole.
THEOREM ReplayWhole == Spec => []ReplayComplete
<1>1. RealtimeInv => ReplayComplete
  BY DEF RealtimeInv, ConnectionInv, EndLast, Wanted, Replayed, ReplayComplete
<1> QED
  BY <1>1, RealtimeInvariant, PTL

\* Registering before replaying leaves no window in which a message escapes
\* both (Serve, Hub.Broadcast).
THEOREM NoWindow == Spec => []NoWindowLost
<1>1. ASSUME RealtimeInv PROVE NoWindowLost
  <2> SUFFICES ASSUME NEW c \in Connections,
                      conn[c].pc = "read" /\ conn[c].chan /\ conn[c].socket
               PROVE  /\ \A m \in Replayed(c) : New(m) \in Frames(c)
                      /\ \A m \in consumed \ conn[c].base :
                            New(m) \in Frames(c) \/ (bcast # None /\ bcast.msg = m /\ c \in bcast.todo)
    BY DEF NoWindowLost
  <2>1. conn[c].writer
    BY <1>1 DEF RealtimeInv, ConnectionInv, Lifecycle
  <2>2. \A m \in Replayed(c) : New(m) \in Frames(c)
    BY <1>1, <2>1 DEF RealtimeInv, ConnectionInv, OnItsWay, Wanted, Replayed, FramesOf, Frames
  <2>3. \A m \in consumed \ conn[c].base :
          New(m) \in Frames(c) \/ (bcast # None /\ bcast.msg = m /\ c \in bcast.todo)
    BY <1>1, <2>1 DEF RealtimeInv, LiveInv
  <2> QED
    BY <2>2, <2>3
<1> QED
  BY <1>1, RealtimeInvariant, PTL
=============================================================================
