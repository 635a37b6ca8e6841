------------------------------ MODULE Realtime ------------------------------
(***************************************************************************)
(* realtime-service and the WebSocket connections of one conversation.     *)
(*                                                                         *)
(* A connection is served by three goroutines: the request (Register,      *)
(* replay of what the client missed, ReadLoop), its WriteLoop, and the     *)
(* Redis consumer shared by all, which broadcasts every event to a         *)
(* snapshot of the registered clients.  They meet in the send queue, which *)
(* nobody waits for: TrySend fails on a full queue, and on a closed one by *)
(* recovering from the panic.                                              *)
(*                                                                         *)
(* chat-service appears as the set of committed messages; ids are issued   *)
(* in order but commit in any order.  Events come any number of times, in  *)
(* any order (EventDelivery), or never: pub/sub keeps nothing for a        *)
(* consumer whose subscription is down and that waits to subscribe again.  *)
(* Events of other types go the same way and only take room in the queue.  *)
(***************************************************************************)
EXTENDS Naturals, Sequences, FiniteSets, SequencesExt

CONSTANTS
    Connections,    \* WebSocket connections, each used once
    MaxID,          \* message ids are 1..MaxID
    History,        \* messages 1..History are there when the service starts
    QueueCap,       \* capacity of Client.send (64)
    PageSize,       \* replayPageSize (100)
    MaxReplay,      \* maxReplayMessages (500)
    MaxAgain,       \* bound: events handled again
    None

ASSUME RealtimeAssumption ==
    /\ MaxID \in Nat
    /\ History \in 0..MaxID
    /\ QueueCap \in Nat \ {0}
    /\ PageSize \in Nat \ {0}
    /\ MaxReplay \in Nat \ {0}
    /\ MaxAgain \in Nat
    /\ None \notin [msg : 1..MaxID, todo : SUBSET Connections]

VARIABLES
    committed,      \* messages ListMessages returns
    consumed,       \* messages whose event the consumer has handled
    again,          \* events handled a second time
    bcast,          \* the Broadcast in progress: message, clients left
    conn            \* the connections

vars == <<committed, consumed, again, bcast, conn>>

IDs == 1..MaxID

\* What goes through a send queue: a message.new, the replay.end, or an answer
\* to the client's own frame (ack, nack, error).
Frame == [type : {"new", "end", "answer"}, id : 0..MaxID]
New(m) == [type |-> "new", id |-> m]
End == [type |-> "end", id |-> 0]
Answer == [type |-> "answer", id |-> 0]

Connection ==
    [pc         : {"new", "list", "send", "read", "done"},
     cursor     : 0..MaxID,         \* last_message_id of the request
     before     : 0..MaxID,         \* beforeID of the next page
     missed     : SUBSET IDs,       \* found and not yet sent
     next       : 0..MaxID,         \* next_before_id of a truncated replay
     registered : BOOLEAN,          \* in the hub
     queue      : Seq(Frame),
     chan       : BOOLEAN,          \* send is not closed
     writer     : BOOLEAN,          \* WriteLoop runs
     socket     : BOOLEAN,          \* the WebSocket is open
     received   : SUBSET Frame,     \* what reached the browser, answers left out
     base       : SUBSET IDs]       \* committed when the client was registered

Fresh ==
    [pc |-> "new", cursor |-> 0, before |-> 0, missed |-> {}, next |-> 0,
     registered |-> FALSE, queue |-> << >>, chan |-> TRUE, writer |-> FALSE,
     socket |-> FALSE, received |-> {}, base |-> {}]

TypeOK ==
    /\ committed \subseteq IDs
    /\ consumed \subseteq committed
    /\ again \in 0..MaxAgain
    /\ bcast \in [msg : IDs, todo : SUBSET Connections] \cup {None}
    /\ conn \in [Connections -> Connection]
    /\ \A c \in Connections : Len(conn[c].queue) <= QueueCap

Init ==
    /\ committed = 1..History
    /\ consumed = 1..History
    /\ again = 0
    /\ bcast = None
    /\ conn = [c \in Connections |-> Fresh]

-----------------------------------------------------------------------------
(* The send queue. *)

\* TrySend succeeds.
CanSend(c) == conn[c].chan /\ Len(conn[c].queue) < QueueCap

\* The connection after a successful TrySend.
Sent(c, f) == [conn[c] EXCEPT !.queue = Append(@, f)]

\* The connection after Close: no more frames come in, queued ones still go out.
Closed(c) == [conn[c] EXCEPT !.chan = FALSE]

-----------------------------------------------------------------------------
(* Chat-service and the consumer of its events. *)

Commit(m) ==
    /\ m \notin committed
    /\ committed' = committed \cup {m}
    /\ UNCHANGED <<consumed, again, bcast, conn>>

\* Broadcast copies the clients of the conversation under the hub's lock ...
Broadcast(m) ==
    /\ bcast = None
    /\ m \in committed
    /\ \/ m \notin consumed /\ again' = again
       \/ m \in consumed /\ again < MaxAgain /\ again' = again + 1
    /\ consumed' = consumed \cup {m}
    /\ bcast' = [msg |-> m, todo |-> {c \in Connections : conn[c].registered}]
    /\ UNCHANGED <<committed, conn>>

\* Mutant of BroadcastTo: an event that does not fit is dropped.
BroadcastDropping(c) ==
    /\ bcast # None
    /\ c \in bcast.todo
    /\ bcast' = [bcast EXCEPT !.todo = @ \ {c}]
    /\ conn' = [conn EXCEPT ![c] = IF CanSend(c) THEN Sent(c, New(bcast.msg)) ELSE @]
    /\ UNCHANGED <<committed, consumed, again>>

\* ... and then sends to one after the other, closing those that are full.
BroadcastTo(c) ==
    /\ bcast # None
    /\ c \in bcast.todo
    /\ bcast' = [bcast EXCEPT !.todo = @ \ {c}]
    /\ conn' = [conn EXCEPT ![c] = IF CanSend(c) THEN Sent(c, New(bcast.msg)) ELSE Closed(c)]
    /\ UNCHANGED <<committed, consumed, again>>

BroadcastDone ==
    /\ bcast # None
    /\ bcast.todo = {}
    /\ bcast' = None
    /\ UNCHANGED <<committed, consumed, again, conn>>

-----------------------------------------------------------------------------
(* The request: register, replay, then read. *)

\* Serve, once the request is admitted.  The client is in the hub and its
\* WriteLoop runs before anything is replayed; without a cursor nothing is.
Serve(c) ==
    /\ conn[c].pc = "new"
    /\ \E cursor \in committed \cup {0} :
          conn' = [conn EXCEPT ![c] =
                     [Fresh EXCEPT !.pc = IF cursor = 0 THEN "read" ELSE "list",
                                   !.cursor = cursor, !.registered = TRUE,
                                   !.writer = TRUE, !.socket = TRUE, !.base = committed]]
    /\ UNCHANGED <<committed, consumed, again, bcast>>

\* The n greatest members of a set of ids.
Newest(S, n) == {m \in S : Cardinality({k \in S : k > m}) < n}

\* The least of a set of ids that is not empty.
Oldest(S) == CHOOSE m \in S : \A k \in S : m <= k

\* ListMessages: ids in descending order, below before unless it is 0.
Page(before) == Newest({m \in committed : before = 0 \/ m < before}, PageSize)

\* One page of replayMessages: what is newer than the cursor, up to MaxReplay.
\* The paging ends with the page that reaches the cursor or the limit, or is empty.
ListMissed(c) ==
    /\ conn[c].pc = "list"
    /\ LET page      == Page(conn[c].before)
           newer     == {m \in page : m > conn[c].cursor}
           missed    == conn[c].missed \cup Newest(newer, MaxReplay - Cardinality(conn[c].missed))
           truncated == Cardinality(missed) >= MaxReplay
       IN  conn' = [conn EXCEPT ![c].missed = missed,
                                ![c].next = IF truncated THEN Oldest(missed) ELSE 0,
                                ![c].pc = IF truncated \/ newer # page \/ page = {} THEN "send" ELSE "list",
                                ![c].before = IF page = {} THEN @ ELSE Oldest(page)]
    /\ UNCHANGED <<committed, consumed, again, bcast>>

\* What was missed goes out in ascending order of ids.
ReplayMessage(c) ==
    /\ conn[c].pc = "send"
    /\ CanSend(c)
    /\ \E m \in conn[c].missed :
          /\ \A k \in conn[c].missed : m <= k
          /\ conn' = [conn EXCEPT ![c] = [Sent(c, New(m)) EXCEPT !.missed = @ \ {m}]]
    /\ UNCHANGED <<committed, consumed, again, bcast>>

\* Mutant of ReplayEnd: the end is announced while messages are still to come.
ReplayEndEarly(c) ==
    /\ conn[c].pc = "send"
    /\ CanSend(c)
    /\ conn' = [conn EXCEPT ![c] =
                  [Sent(c, End) EXCEPT !.pc = IF conn[c].missed = {} THEN "read" ELSE @]]
    /\ UNCHANGED <<committed, consumed, again, bcast>>

\* Then the end is announced, and the request goes on to read.
ReplayEnd(c) ==
    /\ conn[c].pc = "send"
    /\ conn[c].missed = {}
    /\ CanSend(c)
    /\ conn' = [conn EXCEPT ![c] = [Sent(c, End) EXCEPT !.pc = "read"]]
    /\ UNCHANGED <<committed, consumed, again, bcast>>

\* ListMessages fails, or the queue is full or closed: the request unregisters
\* the client, closes queue and socket, and returns.
ReplayFails(c) ==
    /\ \/ conn[c].pc = "list"
       \/ conn[c].pc = "send" /\ ~CanSend(c)
    /\ conn' = [conn EXCEPT ![c] =
                  [Closed(c) EXCEPT !.registered = FALSE, !.socket = FALSE, !.pc = "done"]]
    /\ UNCHANGED <<committed, consumed, again, bcast>>

\* ReadLoop handles a frame of the client and answers with an ack, a nack or an
\* error; an answer that does not fit is dropped, and the connection stays.
HandleMessage(c) ==
    /\ conn[c].pc = "read"
    /\ CanSend(c)
    /\ conn' = [conn EXCEPT ![c] = Sent(c, Answer)]
    /\ UNCHANGED <<committed, consumed, again, bcast>>

\* ReadMessage fails: ReadLoop returns through onClose.
ReadLoopEnds(c) ==
    /\ conn[c].pc = "read"
    /\ ~conn[c].socket
    /\ conn' = [conn EXCEPT ![c].pc = "done", ![c].registered = FALSE]
    /\ UNCHANGED <<committed, consumed, again, bcast>>

-----------------------------------------------------------------------------
(* WriteLoop. *)

\* The next frame reaches the browser.
WriteFrame(c) ==
    /\ conn[c].writer /\ conn[c].socket
    /\ conn[c].queue # << >>
    /\ conn' = [conn EXCEPT ![c].queue = Tail(@),
                            ![c].received = @ \cup ({Head(conn[c].queue)} \ {Answer})]
    /\ UNCHANGED <<committed, consumed, again, bcast>>

\* A write fails: the frame is gone, WriteLoop closes the socket and returns.
WriteFails(c) ==
    /\ conn[c].writer /\ ~conn[c].socket
    /\ conn[c].queue # << >>
    /\ conn' = [conn EXCEPT ![c].queue = Tail(@), ![c].writer = FALSE]
    /\ UNCHANGED <<committed, consumed, again, bcast>>

\* Mutant of PingFails: the result of the ping is ignored.
PingIgnored(c) ==
    /\ conn[c].writer /\ ~conn[c].socket
    /\ UNCHANGED vars

\* The ping of a WriteLoop that has nothing else to write fails.
PingFails(c) ==
    /\ conn[c].writer /\ ~conn[c].socket
    /\ conn' = [conn EXCEPT ![c].writer = FALSE]
    /\ UNCHANGED <<committed, consumed, again, bcast>>

\* The closed queue has run empty: a close frame goes out and the socket closes.
WriteLoopEnds(c) ==
    /\ conn[c].writer
    /\ ~conn[c].chan /\ conn[c].queue = << >>
    /\ conn' = [conn EXCEPT ![c].writer = FALSE, ![c].socket = FALSE]
    /\ UNCHANGED <<committed, consumed, again, bcast>>

\* The browser goes away, or no pong comes before the read deadline.
PeerGone(c) ==
    /\ conn[c].socket
    /\ conn' = [conn EXCEPT ![c].socket = FALSE]
    /\ UNCHANGED <<committed, consumed, again, bcast>>

-----------------------------------------------------------------------------

Request(c) ==
    ListMissed(c) \/ ReplayMessage(c) \/ ReplayEnd(c) \/ ReplayFails(c) \/ ReadLoopEnds(c)

WriteLoop(c) == WriteFrame(c) \/ WriteFails(c) \/ PingFails(c) \/ WriteLoopEnds(c)

Next ==
    \/ \E m \in IDs : Commit(m) \/ Broadcast(m)
    \/ BroadcastDone
    \/ \E c \in Connections :
          \/ BroadcastTo(c) \/ Serve(c) \/ HandleMessage(c) \/ PeerGone(c)
          \/ Request(c) \/ WriteLoop(c)

Spec == Init /\ [][Next]_vars

\* A request and a WriteLoop go on: calls and writes have deadlines, and the
\* ping ticker finds out about a dead socket.
FairSpec ==
    /\ Spec
    /\ \A c \in Connections : WF_vars(Request(c)) /\ WF_vars(WriteLoop(c))

-----------------------------------------------------------------------------

Frames(c) == conn[c].received \cup ToSet(conn[c].queue)

\* The messages of the time before the connection that its replay stands for.
Replayed(c) ==
    {m \in conn[c].base : conn[c].cursor # 0 /\ m > conn[c].cursor /\ m >= conn[c].next}

\* No window between replay and live events (Serve registers first, then
\* replays): a working connection that has got past its replay has, delivered or
\* in its queue, every message that the replay stands for and every message
\* committed since then whose event the consumer has handled.
NoWindowLost ==
    \A c \in Connections :
        (conn[c].pc = "read" /\ conn[c].chan /\ conn[c].socket) =>
            /\ \A m \in Replayed(c) : New(m) \in Frames(c)
            /\ \A m \in consumed \ conn[c].base :
                  \/ New(m) \in Frames(c)
                  \/ bcast # None /\ bcast.msg = m /\ c \in bcast.todo

\* A browser that has got replay.end has got everything before it: all messages
\* after its cursor or, if the replay was truncated, from next_before_id on,
\* whatever pages, live events, full queues and failures came in between.
ReplayComplete ==
    \A c \in Connections :
        End \in conn[c].received => \A m \in Replayed(c) : New(m) \in conn[c].received

\* Nothing leaks (Broadcast closes a full client, WriteLoop pings, ReadLoop has
\* a deadline): once its queue or socket is closed, a connection leaves the hub
\* and both its goroutines end.
EventuallyReleased ==
    \A c \in Connections :
        (conn[c].pc # "new" /\ (~conn[c].chan \/ ~conn[c].socket))
            ~> (conn[c].pc = "done" /\ ~conn[c].registered /\ ~conn[c].writer)

=============================================================================
