------------------------------ MODULE Conversation ------------------------------
(***************************************************************************)
(* One conversation of chat-service as MySQL holds it: its row in          *)
(* conversations, its rows in messages, and its rows in event_outboxes,    *)
(* with the operations of ChatService that change them.                    *)
(*                                                                         *)
(* Operations that go through ConversationRepository.Mutate lock the row   *)
(* (SELECT ... FOR UPDATE) before they look at it, so each is one step.    *)
(* CreateMessage does not: it reads the row without a lock, inserts the    *)
(* message later (the foreign key takes a shared lock on the row then) and *)
(* commits later still, so it is three steps and other operations run in   *)
(* between.  The event outbox is enabled (EVENT_OUTBOX_ENABLED, default),  *)
(* so every handler runs in one transaction.  A call that fails a check    *)
(* changes nothing and is not a step.                                      *)
(***************************************************************************)
EXTENDS Naturals, Sequences, FiniteSets

CONSTANTS
    Agents,         \* agent ids; admin ids share the number space
    Tokens,         \* visitor tokens callers may present
    VisitorToken,   \* the token this conversation was created with
    CallerTypes,    \* sender types that callers of CreateMessage use
    Requests,       \* concurrent CreateMessage calls
    ClientMsgIDs,   \* idempotency keys chosen by clients
    None,           \* SQL NULL
    MaxMessages     \* bound on the rows of messages

SenderTypes == {"visitor", "agent", "system", "ai"}

ASSUME ConstantsAssumption ==
    /\ VisitorToken \in Tokens
    /\ CallerTypes \subseteq SenderTypes
    /\ None \notin Agents \cup Tokens \cup SenderTypes
    /\ \A k \in ClientMsgIDs : k \notin Nat
    /\ MaxMessages \in Nat

VARIABLES
    conv,       \* the row of conversations
    messages,   \* the rows of messages; the auto-increment id is the index
    outbox,     \* the committed rows of event_outboxes, in order
    req,        \* the state of each CreateMessage call
    reply       \* what each CreateMessage call last returned

vars == <<conv, messages, outbox, req, reply>>

-----------------------------------------------------------------------------
(* Rows and calls *)

Actor == [id : Agents, role : {"agent", "admin"}]

ConversationRow ==
    [status : {"open", "closed"},
     assigned : Agents \cup {None},
     pendingTo : Agents \cup {None},
     pendingFrom : Agents \cup {None},
     closedBy : Agents \cup {None}]

\* sender_id of a row: the agent, or the visitor who presented the token.
Senders == Agents \cup Tokens \cup {None}

\* A system message's key is a nanosecond stamp, unique as its row's id is.
MessageRow ==
    [sender : SenderTypes,
     by : Senders,
     key : ClientMsgIDs \cup Nat,
     status : {"sent", "read"},
     tx : {"open", "committed", "rolledback"}]

Event ==
    [type : {"message.new", "message.status", "conversation.closed"},
     msg : Nat,                          \* message id, or up_to_message_id
     sender : SenderTypes \cup {None}]   \* sender_type of message.status

Call ==
    [phase : {"idle", "checked", "inserted"},
     sender : SenderTypes,
     by : Senders,
     key : ClientMsgIDs \cup {None},
     msg : Nat]

Reply == [kind : {"none", "ok", "duplicate", "error"}, key : ClientMsgIDs \cup {None}, msg : Nat]

Idle == [phase |-> "idle", sender |-> "visitor", by |-> None, key |-> None, msg |-> 0]

TypeOK ==
    /\ conv \in ConversationRow
    /\ messages \in Seq(MessageRow)
    /\ outbox \in Seq(Event)
    /\ req \in [Requests -> Call]
    /\ reply \in [Requests -> Reply]

Init ==
    /\ conv = [status |-> "open", assigned |-> None, pendingTo |-> None,
               pendingFrom |-> None, closedBy |-> None]
    /\ messages = << >>
    /\ outbox = << >>
    /\ req = [r \in Requests |-> Idle]
    /\ reply = [r \in Requests |-> [kind |-> "none", key |-> None, msg |-> 0]]

-----------------------------------------------------------------------------
(* Helpers *)

IsAdmin(a) == a.role = "admin"     \* admin and super_admin have the same rights

Committed(i) == messages[i].tx = "committed"

\* Ids whose row holds key k and is not rolled back.
HoldersOf(k) == {i \in DOMAIN messages : messages[i].key = k /\ messages[i].tx # "rolledback"}

\* SELECT ... FOR UPDATE waits for the shared locks of uncommitted inserts.
RowLockFree == \A r \in Requests : req[r].phase # "inserted"

\* Mutant of NewMessage: the row is stored with a status the readers do not know.
NewMessageDelivered(s, by, k, tx) ==
    [sender |-> s, by |-> by, key |-> k, status |-> "delivered", tx |-> tx]

NewMessage(s, by, k, tx) ==
    [sender |-> s, by |-> by, key |-> k, status |-> "sent", tx |-> tx]

MessageNew(i) == [type |-> "message.new", msg |-> i, sender |-> None]
MessageStatus(s, upTo) == [type |-> "message.status", msg |-> upTo, sender |-> s]
ConversationClosed == [type |-> "conversation.closed", msg |-> 0, sender |-> None]

\* The newest committed message that is not a system message, 0 if there is none.
LatestNonSystem ==
    LET ids == {i \in DOMAIN messages : Committed(i) /\ messages[i].sender # "system"}
    IN  IF ids = {} THEN 0 ELSE CHOOSE i \in ids : \A j \in ids : j <= i

\* publishSystemMessage: a row and its event, in the caller's transaction.
PublishSystemMessage ==
    /\ Len(messages) < MaxMessages
    /\ messages' = Append(messages, NewMessage("system", None, Len(messages) + 1, "committed"))
    /\ outbox' = Append(outbox, MessageNew(Len(messages) + 1))

-----------------------------------------------------------------------------
(* CreateMessage *)

\* What the unlocked read of the conversation row must show.
MayWrite(s, by) ==
    /\ conv.status = "open"
    /\ s = "visitor" => by = VisitorToken
    /\ s = "agent" => conv.assigned # None /\ conv.assigned = by

SendersOf(s) == CASE s = "visitor" -> Tokens
                  [] s = "agent" -> Agents
                  [] OTHER -> {None}

\* The checks pass and no visible row has the key: the call goes on to insert.
CheckMessage(r, s, by, k) ==
    /\ req[r].phase = "idle"
    /\ MayWrite(s, by)
    /\ \A i \in HoldersOf(k) : ~Committed(i)
    /\ req' = [req EXCEPT ![r] = [phase |-> "checked", sender |-> s, by |-> by, key |-> k, msg |-> 0]]
    /\ UNCHANGED <<conv, messages, outbox, reply>>

\* A visible row has the key: it is returned, nothing is written.
ReuseMessage(r, s, by, k) ==
    /\ req[r].phase = "idle"
    /\ MayWrite(s, by)
    /\ \E i \in HoldersOf(k) :
          /\ Committed(i)
          /\ reply' = [reply EXCEPT ![r] = [kind |-> "ok", key |-> k, msg |-> i]]
    /\ UNCHANGED <<conv, messages, outbox, req>>

\* Mutant of InsertMessage: the event is enqueued outside the transaction.
InsertAndAnnounce(r) ==
    /\ req[r].phase = "checked"
    /\ HoldersOf(req[r].key) = {}
    /\ Len(messages) < MaxMessages
    /\ messages' = Append(messages, NewMessage(req[r].sender, req[r].by, req[r].key, "open"))
    /\ req' = [req EXCEPT ![r].phase = "inserted", ![r].msg = Len(messages) + 1]
    /\ outbox' = Append(outbox, MessageNew(Len(messages) + 1))
    /\ UNCHANGED <<conv, reply>>

\* Mutant of InsertMessage: no unique index on the key.
InsertAnyKey(r) ==
    /\ req[r].phase = "checked"
    /\ Len(messages) < MaxMessages
    /\ messages' = Append(messages, NewMessage(req[r].sender, req[r].by, req[r].key, "open"))
    /\ req' = [req EXCEPT ![r].phase = "inserted", ![r].msg = Len(messages) + 1]
    /\ UNCHANGED <<conv, outbox, reply>>

\* Mutant of InsertMessage: the caller is answered before the commit.
InsertAndAnswer(r) ==
    /\ req[r].phase = "checked"
    /\ HoldersOf(req[r].key) = {}
    /\ Len(messages) < MaxMessages
    /\ messages' = Append(messages, NewMessage(req[r].sender, req[r].by, req[r].key, "open"))
    /\ req' = [req EXCEPT ![r].phase = "inserted", ![r].msg = Len(messages) + 1]
    /\ reply' = [reply EXCEPT ![r] = [kind |-> "ok", key |-> req[r].key, msg |-> Len(messages) + 1]]
    /\ UNCHANGED <<conv, outbox>>

\* INSERT: the unique index (conversation_id, client_msg_id) admits the key.
InsertMessage(r) ==
    /\ req[r].phase = "checked"
    /\ HoldersOf(req[r].key) = {}
    /\ Len(messages) < MaxMessages
    /\ messages' = Append(messages, NewMessage(req[r].sender, req[r].by, req[r].key, "open"))
    /\ req' = [req EXCEPT ![r].phase = "inserted", ![r].msg = Len(messages) + 1]
    /\ UNCHANGED <<conv, outbox, reply>>

\* INSERT: another call committed the key since this one's snapshot was taken.
\* The repeated SELECT reads the same snapshot (REPEATABLE READ), finds
\* nothing, and the duplicate-key error is returned.  While the other call is
\* uncommitted the INSERT waits, which is neither action.
DuplicateMessage(r) ==
    /\ req[r].phase = "checked"
    /\ \E i \in HoldersOf(req[r].key) : Committed(i)
    /\ reply' = [reply EXCEPT ![r] = [kind |-> "duplicate", key |-> req[r].key, msg |-> 0]]
    /\ req' = [req EXCEPT ![r] = Idle]
    /\ UNCHANGED <<conv, messages, outbox>>

\* The message.new event joins the transaction, which commits.
CommitRow(r) ==
    /\ req[r].phase = "inserted"
    /\ messages' = [messages EXCEPT ![req[r].msg].tx = "committed"]
    /\ outbox' = Append(outbox, MessageNew(req[r].msg))
    /\ req' = [req EXCEPT ![r] = Idle]
    /\ UNCHANGED conv

CommitMessage(r) ==
    /\ CommitRow(r)
    /\ reply' = [reply EXCEPT ![r] = [kind |-> "ok", key |-> req[r].key, msg |-> req[r].msg]]

\* The commit takes effect but its answer is lost: the caller gets an error.
CommitUnacknowledged(r) ==
    /\ CommitRow(r)
    /\ reply' = [reply EXCEPT ![r] = [kind |-> "error", key |-> req[r].key, msg |-> 0]]

\* A statement fails, the deadline passes or the process dies: rollback.
RollbackMessage(r) ==
    /\ req[r].phase # "idle"
    /\ messages' = IF req[r].phase = "inserted"
                   THEN [messages EXCEPT ![req[r].msg].tx = "rolledback"]
                   ELSE messages
    /\ reply' = [reply EXCEPT ![r] = [kind |-> "error", key |-> req[r].key, msg |-> 0]]
    /\ req' = [req EXCEPT ![r] = Idle]
    /\ UNCHANGED <<conv, outbox>>

-----------------------------------------------------------------------------
(* MarkMessagesRead *)

\* Mutant of Unread: id < ? in place of id <= ?.
UnreadBefore(s, upTo) ==
    {i \in DOMAIN messages :
        Committed(i) /\ messages[i].sender = s /\ i < upTo /\ messages[i].status = "sent"}

\* Rows of sender type s that the UPDATE reaches.
Unread(s, upTo) ==
    {i \in DOMAIN messages :
        Committed(i) /\ messages[i].sender = s /\ i <= upTo /\ messages[i].status = "sent"}

\* The rows a client can have been shown.
VisibleIDs == {i \in DOMAIN messages : Committed(i)}

\* last_read_message_id is any number above 0: a row that was shown or not, or
\* the last one, which is above every id that will ever be issued.
ReportableIDs == 1 .. MaxMessages + 1

\* Whoever reports, the other side's messages become read.
TargetsOf(actor) == IF actor = "visitor" THEN {"agent", "ai"} ELSE {"visitor"}

\* One event for a target sender type with at least one changed row.
StatusEvents(s, upTo) ==
    IF Unread(s, upTo) = {} THEN << >> ELSE <<MessageStatus(s, upTo)>>

MarkMessagesRead(actor, upTo) ==
    LET rows == UNION {Unread(s, upTo) : s \in TargetsOf(actor)}
    IN  /\ rows # {}
        \* the UPDATE waits for uncommitted rows it would have to lock
        /\ \A i \in DOMAIN messages :
              i <= upTo /\ messages[i].tx = "open" => messages[i].sender \notin TargetsOf(actor)
        /\ messages' = [i \in DOMAIN messages |->
                           IF i \in rows THEN [messages[i] EXCEPT !.status = "read"] ELSE messages[i]]
        /\ outbox' = IF actor = "visitor"
                     THEN (outbox \o StatusEvents("agent", upTo)) \o StatusEvents("ai", upTo)
                     ELSE outbox \o StatusEvents("visitor", upTo)
        /\ UNCHANGED <<conv, req, reply>>

-----------------------------------------------------------------------------
(* Operations on the locked conversation row *)

\* Mutant of ClaimConversation: refused only to the agent who has it already.
ClaimFromAnyone(agent) ==
    /\ RowLockFree
    /\ conv.status = "open"
    /\ conv.assigned # agent
    /\ conv' = [conv EXCEPT !.assigned = agent, !.pendingTo = None, !.pendingFrom = None]
    /\ UNCHANGED <<messages, outbox, req, reply>>

ClaimConversation(agent) ==
    /\ RowLockFree
    /\ conv.status = "open"
    /\ conv.assigned = None
    /\ conv' = [conv EXCEPT !.assigned = agent, !.pendingTo = None, !.pendingFrom = None]
    /\ UNCHANGED <<messages, outbox, req, reply>>

TransferConversation(a, to) ==
    /\ RowLockFree
    /\ conv.status = "open"
    /\ conv.assigned # None
    /\ IsAdmin(a) \/ conv.assigned = a.id
    /\ conv.assigned # to
    /\ conv.pendingTo = None
    /\ conv' = [conv EXCEPT !.pendingTo = to, !.pendingFrom = conv.assigned]
    /\ PublishSystemMessage
    /\ UNCHANGED <<req, reply>>

\* Mutant of MayAnswerTransfer: the status is not looked at.
MayAnswerTransferAnyStatus(a) ==
    /\ conv.pendingTo # None
    /\ IsAdmin(a) \/ conv.pendingTo = a.id

\* Confirm and Reject are open to the target agent and to administrators.
MayAnswerTransfer(a) ==
    /\ conv.status = "open"
    /\ conv.pendingTo # None
    /\ IsAdmin(a) \/ conv.pendingTo = a.id

\* Mutant of ConfirmTransferConversation: the pending fields are not cleared.
ConfirmKeepingPending(a) ==
    /\ RowLockFree
    /\ MayAnswerTransfer(a)
    /\ conv' = [conv EXCEPT !.assigned = conv.pendingTo]
    /\ PublishSystemMessage
    /\ UNCHANGED <<req, reply>>

ConfirmTransferConversation(a) ==
    /\ RowLockFree
    /\ MayAnswerTransfer(a)
    /\ conv' = [conv EXCEPT !.assigned = conv.pendingTo, !.pendingTo = None, !.pendingFrom = None]
    /\ PublishSystemMessage
    /\ UNCHANGED <<req, reply>>

RejectTransferConversation(a) ==
    /\ RowLockFree
    /\ MayAnswerTransfer(a)
    /\ conv' = [conv EXCEPT !.pendingTo = None, !.pendingFrom = None]
    /\ PublishSystemMessage
    /\ UNCHANGED <<req, reply>>

\* Mutant of CloseConversation: a closed conversation is closed again.
CloseAgain(a) ==
    /\ RowLockFree
    /\ IsAdmin(a) \/ conv.assigned = a.id
    /\ conv' = [conv EXCEPT !.status = "closed", !.closedBy = a.id,
                            !.pendingTo = None, !.pendingFrom = None]
    /\ outbox' = Append(outbox, ConversationClosed)
    /\ UNCHANGED <<messages, req, reply>>

CloseConversation(a) ==
    /\ RowLockFree
    /\ conv.status # "closed"
    /\ IsAdmin(a) \/ conv.assigned = a.id
    /\ conv' = [conv EXCEPT !.status = "closed", !.closedBy = a.id,
                            !.pendingTo = None, !.pendingFrom = None]
    /\ outbox' = Append(outbox, ConversationClosed)
    /\ UNCHANGED <<messages, req, reply>>

\* autoCloseConversationByTimeout and AutoCloseInactiveConversations; that
\* the deadline has passed is the business of module AutoClose.  A pending
\* transfer stays in the row.
AutoCloseConversation ==
    /\ RowLockFree
    /\ conv.status = "open"
    /\ LatestNonSystem # 0
    /\ messages[LatestNonSystem].sender = "agent"
    /\ conv' = [conv EXCEPT !.status = "closed", !.closedBy = conv.assigned]
    /\ outbox' = Append(outbox, ConversationClosed)
    /\ UNCHANGED <<messages, req, reply>>

-----------------------------------------------------------------------------

CreateMessage(r) ==
    \/ \E s \in CallerTypes, k \in ClientMsgIDs : \E by \in SendersOf(s) :
          CheckMessage(r, s, by, k) \/ ReuseMessage(r, s, by, k)
    \/ InsertMessage(r)
    \/ DuplicateMessage(r)
    \/ CommitMessage(r)
    \/ CommitUnacknowledged(r)
    \/ RollbackMessage(r)

Next ==
    \/ \E r \in Requests : CreateMessage(r)
    \/ \E actor \in {"visitor", "agent"}, upTo \in ReportableIDs : MarkMessagesRead(actor, upTo)
    \/ \E agent \in Agents : ClaimConversation(agent)
    \/ \E a \in Actor, to \in Agents : TransferConversation(a, to)
    \/ \E a \in Actor :
          \/ ConfirmTransferConversation(a)
          \/ RejectTransferConversation(a)
          \/ CloseConversation(a)
    \/ AutoCloseConversation

Spec == Init /\ [][Next]_vars

-----------------------------------------------------------------------------
(* Properties *)

\* An open conversation's transfer fields agree with its owner: a transfer is
\* pending from the agent who holds the conversation, to somebody else, and
\* the two fields are set and cleared together.
TransferConsistent ==
    /\ conv.pendingTo = None <=> conv.pendingFrom = None
    /\ conv.pendingTo # None =>
          /\ conv.assigned # None
          /\ conv.pendingFrom = conv.assigned
          /\ conv.pendingTo # conv.assigned

\* Outbox atomicity: a message has a message.new event exactly when its
\* transaction committed, and never two of them.
MessageAnnouncedOnce ==
    /\ \A j \in DOMAIN outbox : outbox[j].type = "message.new" => outbox[j].msg \in DOMAIN messages
    /\ \A i \in DOMAIN messages :
          Committed(i) <=> \E j \in DOMAIN outbox : outbox[j] = MessageNew(i)
    /\ \A j, k \in DOMAIN outbox :
          outbox[j].type = "message.new" /\ outbox[j] = outbox[k] => j = k

\* conversation.closed is sent once, and only by what closed the conversation,
\* however manual and automatic closing race.
ClosedAnnouncedOnce ==
    /\ conv.status = "closed" <=> \E j \in DOMAIN outbox : outbox[j].type = "conversation.closed"
    /\ \A j, k \in DOMAIN outbox :
          outbox[j].type = "conversation.closed" /\ outbox[k].type = "conversation.closed" => j = k

\* Range e, published as row j of the outbox, tells a client that message i,
\* of which it was told in an earlier row, has been read.
Announces(e, j, i) ==
    /\ e.type = "message.status"
    /\ e.sender = messages[i].sender
    /\ i <= e.msg
    /\ \E n \in DOMAIN outbox : n < j /\ outbox[n] = MessageNew(i)

\* The status column and the events tell the same story: a committed message
\* is read exactly when a range that covers it follows its message.new.  A
\* client that applies the events in the order of the outbox, each range to the
\* messages it knows, shows what the database holds, whatever ids are reported
\* and whatever calls are between insert and commit.  The order matters:
\* MarkMessagesRead takes ids that are not issued yet, and such a range also
\* covers messages that are stored as sent afterwards.
ReadIffAnnounced ==
    \A i \in DOMAIN messages :
        Committed(i) =>
            (messages[i].status = "read" <=> \E j \in DOMAIN outbox : Announces(outbox[j], j, i))

\* A retried client_msg_id never becomes a second message of the conversation.
UniqueClientMsgID ==
    \A i, j \in DOMAIN messages :
        Committed(i) /\ Committed(j) /\ messages[i].key = messages[j].key => i = j

\* A caller told "ok" for a key can rely on it: the message it was given is
\* committed, under that key, whatever happens to other calls afterwards.
AckedMessageDurable ==
    \A r \in Requests :
        reply[r].kind = "ok" =>
            /\ reply[r].msg \in DOMAIN messages
            /\ Committed(reply[r].msg)
            /\ messages[reply[r].msg].key = reply[r].key

\* Once closed, the conversation row never changes again: no late claim,
\* transfer answer or second close touches it, although an automatic close
\* leaves a pending transfer in the row.
ClosedFrozen == [][conv.status = "closed" => conv' = conv]_vars

\* The owner changes only by claiming an unowned conversation or by handing
\* over to the agent the owner's pending transfer names.
OwnerHandedOver ==
    [][conv'.assigned # conv.assigned =>
          \/ conv.assigned = None
          \/ conv.pendingFrom = conv.assigned /\ conv.pendingTo = conv'.assigned]_vars

=============================================================================
