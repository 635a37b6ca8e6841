--------------------------- MODULE ConversationProofs ---------------------------
(***************************************************************************)
(* Proofs about module Conversation, for any number of agents, callers,    *)
(* keys and messages: first types and the conversation row, then the rows  *)
(* of messages and event_outboxes, that is idempotency keys,               *)
(* acknowledgements, announcements and read receipts.                      *)
(***************************************************************************)
EXTENDS Conversation, TLAPS

(* The inductive core: types, and what a call of CreateMessage knows about *)
(* the row it has inserted but not committed.                              *)
CallsConsistent ==
    /\ \A r \in Requests : req[r].phase # "idle" => req[r].key \in ClientMsgIDs
    /\ \A r \in Requests : req[r].phase = "inserted" =>
          /\ req[r].msg \in DOMAIN messages
          /\ messages[req[r].msg].tx = "open"
          /\ messages[req[r].msg].key = req[r].key
    /\ \A q, r \in Requests :
          req[q].phase = "inserted" /\ req[r].phase = "inserted" /\ req[q].msg = req[r].msg => q = r

\* The rows of messages stay within their bound, so an id is one that can be
\* reported.
TypeInv == TypeOK /\ CallsConsistent /\ Len(messages) <= MaxMessages

(* The tables start empty. *)
LEMMA InitTypeInv == Init => TypeInv
  BY ConstantsAssumption
  DEF Init, TypeInv, TypeOK, CallsConsistent, ConversationRow, Call, Reply, Idle, Senders, SenderTypes

(* A message row written by the service is a row of the table. *)
LEMMA NewMessageType ==
  ASSUME NEW s \in SenderTypes, NEW by \in Senders, NEW k \in ClientMsgIDs \cup Nat,
         NEW tx \in {"open", "committed", "rolledback"}
  PROVE  NewMessage(s, by, k, tx) \in MessageRow
  BY DEF NewMessage, MessageRow

(* Changing a row's status or its transaction's state leaves it a row. *)
LEMMA MessageRowUpdates ==
  ASSUME NEW m \in MessageRow
  PROVE  /\ \A t \in {"open", "committed", "rolledback"} : [m EXCEPT !.tx = t] \in MessageRow
         /\ [m EXCEPT !.status = "read"] \in MessageRow
  BY DEF MessageRow

(* So does changing a conversation's columns, one operation at a time. *)
LEMMA ConversationRowUpdates ==
  ASSUME NEW c \in ConversationRow, NEW x \in Agents \cup {None}
  PROVE  /\ [c EXCEPT !.status = "closed", !.closedBy = x] \in ConversationRow
         /\ [c EXCEPT !.status = "closed", !.closedBy = x, !.pendingTo = None, !.pendingFrom = None]
               \in ConversationRow
  BY DEF ConversationRow

(* The events the service writes are rows of the outbox. *)
LEMMA EventTypes ==
  /\ \A i \in Nat : MessageNew(i) \in Event
  /\ \A s \in SenderTypes, i \in Nat : MessageStatus(s, i) \in Event
  /\ ConversationClosed \in Event
  BY DEF MessageNew, MessageStatus, ConversationClosed, Event

(* A system message is appended whole: its row and its event. *)
LEMMA PublishType ==
  ASSUME TypeOK, PublishSystemMessage
  PROVE  /\ messages' \in Seq(MessageRow)
         /\ outbox' \in Seq(Event)
  <1>1. NewMessage("system", None, Len(messages) + 1, "committed") \in MessageRow
    <2>1. Len(messages) + 1 \in Nat
      BY DEF TypeOK
    <2>2. "system" \in SenderTypes /\ None \in Senders
      BY DEF SenderTypes, Senders
    <2> QED BY <2>1, <2>2, NewMessageType
  <1>2. MessageNew(Len(messages) + 1) \in Event
    BY EventTypes DEF TypeOK
  <1> QED BY <1>1, <1>2 DEF PublishSystemMessage, TypeOK

(* Appending to messages disturbs no call. *)
LEMMA PublishCalls ==
  ASSUME TypeInv, PublishSystemMessage, UNCHANGED req
  PROVE  CallsConsistent'
  <1>1. /\ DOMAIN messages \subseteq DOMAIN messages'
        /\ \A i \in DOMAIN messages : messages'[i] = messages[i]
    BY DEF PublishSystemMessage, TypeInv, TypeOK
  <1> QED BY <1>1 DEF CallsConsistent, TypeInv

\* Inserts and system messages stop at the bound, the other steps add no row.
LEMMA LengthBounded ==
  ASSUME TypeInv, [Next]_vars
  PROVE  Len(messages') <= MaxMessages
<1> USE ConstantsAssumption DEF TypeInv, TypeOK
<1>1. ASSUME PublishSystemMessage PROVE Len(messages') <= MaxMessages
  BY <1>1 DEF PublishSystemMessage
<1>2. ASSUME NEW r \in Requests, InsertMessage(r) PROVE Len(messages') <= MaxMessages
  BY <1>2 DEF InsertMessage
<1>3. ASSUME NEW r \in Requests, CommitRow(r) \/ RollbackMessage(r) PROVE Len(messages') <= MaxMessages
  BY <1>3 DEF CommitRow, RollbackMessage
<1>4. ASSUME NEW actor, NEW upTo, MarkMessagesRead(actor, upTo) PROVE Len(messages') <= MaxMessages
  BY <1>4 DEF MarkMessagesRead
<1> QED
  BY <1>1, <1>2, <1>3, <1>4
  DEF Next, vars, CreateMessage, CheckMessage, ReuseMessage, DuplicateMessage, CommitMessage,
      CommitUnacknowledged, ClaimConversation, TransferConversation, ConfirmTransferConversation,
      RejectTransferConversation, CloseConversation, AutoCloseConversation

\* Every step keeps the types and the agreement of calls with their rows.
LEMMA NextTypeInv == TypeInv /\ [Next]_vars => TypeInv'
<1> SUFFICES ASSUME TypeInv, [Next]_vars PROVE TypeInv'
  OBVIOUS
<1> USE DEF TypeInv
<1>1. ASSUME NEW r \in Requests, NEW s \in CallerTypes, NEW k \in ClientMsgIDs,
             NEW by \in SendersOf(s), CheckMessage(r, s, by, k)
      PROVE  TypeOK' /\ CallsConsistent'
  <2>1. s \in SenderTypes /\ by \in Senders
    BY <1>1, ConstantsAssumption DEF SendersOf, Senders
  <2>2. TypeOK'
    BY <1>1, <2>1 DEF CheckMessage, TypeOK, Call
  <2>3. CallsConsistent'
    BY <1>1 DEF CheckMessage, TypeOK, CallsConsistent, Call
  <2> QED BY <2>2, <2>3
<1>2. ASSUME NEW r \in Requests, NEW s \in CallerTypes, NEW k \in ClientMsgIDs,
             NEW by \in SendersOf(s), ReuseMessage(r, s, by, k)
      PROVE  TypeOK' /\ CallsConsistent'
  BY <1>2 DEF ReuseMessage, HoldersOf, TypeOK, CallsConsistent, Reply
<1>3. ASSUME NEW r \in Requests, InsertMessage(r) PROVE TypeOK' /\ CallsConsistent'
  <2>1. NewMessage(req[r].sender, req[r].by, req[r].key, "open") \in MessageRow
    BY <1>3, NewMessageType DEF InsertMessage, TypeOK, Call, CallsConsistent
  <2>2. TypeOK'
    <3>1. [req[r] EXCEPT !.phase = "inserted", !.msg = Len(messages) + 1] \in Call
      <4>1. req[r] \in Call /\ Len(messages) + 1 \in Nat
        BY DEF TypeOK
      <4> QED BY <4>1 DEF Call
    <3>2. req' \in [Requests -> Call]
      BY <1>3, <3>1 DEF InsertMessage, TypeOK
    <3> QED BY <1>3, <2>1, <3>2 DEF InsertMessage, TypeOK
  <2>3. CallsConsistent'
    BY <1>3, <2>1 DEF InsertMessage, TypeOK, CallsConsistent, Call, NewMessage
  <2> QED BY <2>2, <2>3
<1>4. ASSUME NEW r \in Requests, DuplicateMessage(r) PROVE TypeOK' /\ CallsConsistent'
  <2>1. TypeOK'
    BY <1>4, ConstantsAssumption DEF DuplicateMessage, TypeOK, Call, Reply, Idle, Senders, SenderTypes
  <2>2. CallsConsistent'
    BY <1>4 DEF DuplicateMessage, TypeOK, CallsConsistent, Idle
  <2> QED BY <2>1, <2>2
<1>5. ASSUME NEW r \in Requests, CommitRow(r), NEW p \in Reply, reply' = [reply EXCEPT ![r] = p]
      PROVE  TypeOK' /\ CallsConsistent'
  <2>1. /\ messages' \in Seq(MessageRow)
        /\ outbox' \in Seq(Event)
    <3>1. MessageNew(req[r].msg) \in Event
      BY EventTypes DEF TypeOK, Call
    <3>2. /\ req[r].msg \in DOMAIN messages
          /\ [messages[req[r].msg] EXCEPT !.tx = "committed"] \in MessageRow
      <4>1. req[r].msg \in DOMAIN messages
        BY <1>5 DEF CommitRow, CallsConsistent
      <4>2. messages[req[r].msg] \in MessageRow
        BY <4>1 DEF TypeOK
      <4> QED BY <4>1, <4>2, MessageRowUpdates
    <3> QED BY <1>5, <3>1, <3>2 DEF CommitRow, TypeOK
  <2>2. TypeOK'
    BY <1>5, <2>1 DEF CommitRow, TypeOK, Call, Idle, Senders, SenderTypes
  <2>3. CallsConsistent'
    BY <1>5 DEF CommitRow, TypeOK, CallsConsistent, Idle, MessageRow
  <2> QED BY <2>2, <2>3
<1>6. ASSUME NEW r \in Requests, RollbackMessage(r) PROVE TypeOK' /\ CallsConsistent'
  <2>1. messages' \in Seq(MessageRow)
    <3>1. CASE req[r].phase = "inserted"
      <4>1. /\ req[r].msg \in DOMAIN messages
            /\ [messages[req[r].msg] EXCEPT !.tx = "rolledback"] \in MessageRow
        <5>1. req[r].msg \in DOMAIN messages
          BY <3>1 DEF CallsConsistent
        <5>2. messages[req[r].msg] \in MessageRow
          BY <5>1 DEF TypeOK
        <5> QED BY <5>1, <5>2, MessageRowUpdates
      <4> QED BY <1>6, <3>1, <4>1 DEF RollbackMessage, TypeOK
    <3>2. CASE req[r].phase # "inserted"
      BY <1>6, <3>2 DEF RollbackMessage, TypeOK
    <3> QED BY <3>1, <3>2
  <2>2. TypeOK'
    BY <1>6, <2>1 DEF RollbackMessage, TypeOK, Call, Reply, Idle, Senders, SenderTypes
  <2>3. CallsConsistent'
    BY <1>6 DEF RollbackMessage, TypeOK, CallsConsistent, Idle, MessageRow
  <2> QED BY <2>2, <2>3
<1>7. ASSUME NEW actor \in {"visitor", "agent"}, NEW upTo \in ReportableIDs, MarkMessagesRead(actor, upTo)
      PROVE  TypeOK' /\ CallsConsistent'
  <2>1. \A i \in DOMAIN messages : [messages[i] EXCEPT !.status = "read"] \in MessageRow
    <3>1. \A i \in DOMAIN messages : messages[i] \in MessageRow
      BY DEF TypeOK
    <3> QED BY <3>1, MessageRowUpdates
  <2>2. messages' \in Seq(MessageRow)
    BY <1>7, <2>1 DEF MarkMessagesRead, TypeOK
  <2>3. \A s \in SenderTypes : StatusEvents(s, upTo) \in Seq(Event)
    BY EventTypes, ConstantsAssumption DEF StatusEvents, ReportableIDs
  <2>4. outbox' \in Seq(Event)
    BY <1>7, <2>3 DEF MarkMessagesRead, TypeOK, SenderTypes
  <2>5. TypeOK'
    BY <1>7, <2>2, <2>4 DEF MarkMessagesRead, TypeOK
  <2>6. CallsConsistent'
    BY <1>7 DEF MarkMessagesRead, TypeOK, CallsConsistent, MessageRow
  <2> QED BY <2>5, <2>6
<1>8. ASSUME NEW agent \in Agents, ClaimConversation(agent) PROVE TypeOK' /\ CallsConsistent'
  BY <1>8 DEF ClaimConversation, TypeOK, CallsConsistent, ConversationRow
<1>9. ASSUME NEW a \in Actor, NEW to \in Agents, TransferConversation(a, to) PROVE TypeOK' /\ CallsConsistent'
  BY <1>9, PublishType, PublishCalls DEF TransferConversation, TypeOK, ConversationRow
<1>10. ASSUME NEW a \in Actor, ConfirmTransferConversation(a) PROVE TypeOK' /\ CallsConsistent'
  BY <1>10, PublishType, PublishCalls DEF ConfirmTransferConversation, TypeOK, ConversationRow
<1>11. ASSUME NEW a \in Actor, RejectTransferConversation(a) PROVE TypeOK' /\ CallsConsistent'
  BY <1>11, PublishType, PublishCalls DEF RejectTransferConversation, TypeOK, ConversationRow
<1>12. ASSUME NEW a \in Actor, CloseConversation(a) PROVE TypeOK' /\ CallsConsistent'
  <2>1. a.id \in Agents /\ conv' \in ConversationRow
    BY <1>12, ConversationRowUpdates DEF CloseConversation, TypeOK, Actor
  <2> QED BY <1>12, <2>1, EventTypes DEF CloseConversation, TypeOK, CallsConsistent
<1>13. CASE AutoCloseConversation
  <2>1. conv.assigned \in Agents \cup {None}
    BY DEF TypeOK, ConversationRow
  <2>2. conv' \in ConversationRow
    BY <1>13, <2>1, ConversationRowUpdates DEF AutoCloseConversation, TypeOK
  <2> QED BY <1>13, <2>2, EventTypes DEF AutoCloseConversation, TypeOK, CallsConsistent
<1>14. CASE UNCHANGED vars
  BY <1>14 DEF vars, TypeOK, CallsConsistent
<1>15. ASSUME NEW r \in Requests, CommitMessage(r) \/ CommitUnacknowledged(r) PROVE TypeOK' /\ CallsConsistent'
  <2>1. /\ [kind |-> "ok", key |-> req[r].key, msg |-> req[r].msg] \in Reply
        /\ [kind |-> "error", key |-> req[r].key, msg |-> 0] \in Reply
    BY DEF TypeOK, Call, Reply
  <2> QED BY <1>5, <1>15, <2>1 DEF CommitMessage, CommitUnacknowledged
<1>16. TypeOK' /\ CallsConsistent'
  BY <1>1, <1>2, <1>3, <1>4, <1>6, <1>7, <1>8, <1>9, <1>10, <1>11, <1>12, <1>13, <1>14, <1>15
  DEF Next, CreateMessage
<1>17. Len(messages') <= MaxMessages
  BY LengthBounded
<1> QED BY <1>16, <1>17

\* TypeInv is an invariant of the specification.
LEMMA TypeInvariant == Spec => []TypeInv
<1>1. TypeInv /\ [Next]_vars => TypeInv'
  BY NextTypeInv
<1> QED BY <1>1, InitTypeInv, PTL DEF Spec

(* The tables keep their types, for any number of agents, calls and rows.  *)
THEOREM TypeCorrect == Spec => []TypeOK
<1>1. TypeInv => TypeOK
  BY DEF TypeInv
<1> QED BY <1>1, TypeInvariant, PTL

-----------------------------------------------------------------------------
(* The conversation row *)

(* Only the operations on the locked row change it. *)
LEMMA ConvSteps ==
  ASSUME [Next]_vars
  PROVE  \/ conv' = conv
         \/ \E agent \in Agents : ClaimConversation(agent)
         \/ \E a \in Actor, to \in Agents : TransferConversation(a, to)
         \/ \E a \in Actor :
               \/ ConfirmTransferConversation(a)
               \/ RejectTransferConversation(a)
               \/ CloseConversation(a)
         \/ AutoCloseConversation
  BY DEF Next, vars, CreateMessage, CheckMessage, ReuseMessage, InsertMessage, DuplicateMessage,
         CommitMessage, CommitUnacknowledged, CommitRow, RollbackMessage, MarkMessagesRead

\* Every step keeps the transfer columns in agreement with the owner.
LEMMA NextTransferConsistent ==
  ASSUME TypeOK, TransferConsistent, [Next]_vars
  PROVE  TransferConsistent'
<1>0. /\ None \notin Agents
      /\ conv \in ConversationRow
  BY ConstantsAssumption DEF TypeOK
<1>1. CASE conv' = conv
  BY <1>1 DEF TransferConsistent
<1>2. ASSUME NEW agent \in Agents, ClaimConversation(agent) PROVE TransferConsistent'
  BY <1>0, <1>2 DEF ClaimConversation, TransferConsistent, ConversationRow
<1>3. ASSUME NEW a \in Actor, NEW to \in Agents, TransferConversation(a, to) PROVE TransferConsistent'
  BY <1>0, <1>3 DEF TransferConversation, TransferConsistent, ConversationRow
<1>4. ASSUME NEW a \in Actor, ConfirmTransferConversation(a) PROVE TransferConsistent'
  BY <1>0, <1>4 DEF ConfirmTransferConversation, TransferConsistent, ConversationRow
<1>5. ASSUME NEW a \in Actor, RejectTransferConversation(a) PROVE TransferConsistent'
  BY <1>0, <1>5 DEF RejectTransferConversation, TransferConsistent, ConversationRow
<1>6. ASSUME NEW a \in Actor, CloseConversation(a) PROVE TransferConsistent'
  BY <1>0, <1>6 DEF CloseConversation, TransferConsistent, ConversationRow
<1>7. CASE AutoCloseConversation
  BY <1>0, <1>7 DEF AutoCloseConversation, TransferConsistent, ConversationRow
<1> QED BY <1>1, <1>2, <1>3, <1>4, <1>5, <1>6, <1>7, ConvSteps

(* Claiming, transferring, answering a transfer and closing, manual or     *)
(* automatic, keep the transfer columns in step with the owner, whatever   *)
(* order they run in.                                                      *)
THEOREM TransferSafe == Spec => []TransferConsistent
<1>1. Init => TransferConsistent
  BY DEF Init, TransferConsistent
<1>2. TypeOK /\ TransferConsistent /\ [Next]_vars => TransferConsistent'
  BY NextTransferConsistent
<1> QED BY <1>1, <1>2, TypeCorrect, PTL DEF Spec

\* Every operation checks the status before it changes the row.
LEMMA NextClosedFrozen ==
  ASSUME TypeOK, [Next]_vars
  PROVE  conv.status = "closed" => conv' = conv
  BY ConvSteps DEF ClaimConversation, TransferConversation, ConfirmTransferConversation,
     RejectTransferConversation, MayAnswerTransfer, CloseConversation, AutoCloseConversation

(* No operation of chat-service changes the row of a closed conversation,  *)
(* although an automatic close leaves the pending transfer in it.          *)
THEOREM ClosedRowFrozen == Spec => ClosedFrozen
<1>1. TypeOK /\ [Next]_vars => [conv.status = "closed" => conv' = conv]_vars
  BY NextClosedFrozen
<1> QED BY <1>1, TypeCorrect, PTL DEF Spec, ClosedFrozen

\* The owner changes only in a claim or in a confirmed transfer.
LEMMA NextOwnerHandedOver ==
  ASSUME TypeOK, TransferConsistent, [Next]_vars
  PROVE  conv'.assigned # conv.assigned =>
             \/ conv.assigned = None
             \/ conv.pendingFrom = conv.assigned /\ conv.pendingTo = conv'.assigned
<1>0. conv \in ConversationRow
  BY DEF TypeOK
<1>1. CASE \E agent \in Agents : ClaimConversation(agent)
  BY <1>1 DEF ClaimConversation
<1>2. ASSUME NEW a \in Actor, NEW to \in Agents, TransferConversation(a, to)
      PROVE  conv'.assigned = conv.assigned
  BY <1>0, <1>2 DEF TransferConversation, ConversationRow
<1>3. ASSUME NEW a \in Actor, ConfirmTransferConversation(a)
      PROVE  conv.pendingFrom = conv.assigned /\ conv.pendingTo = conv'.assigned
  BY <1>0, <1>3 DEF ConfirmTransferConversation, MayAnswerTransfer, TransferConsistent, ConversationRow
<1>4. ASSUME NEW a \in Actor, RejectTransferConversation(a) \/ CloseConversation(a)
      PROVE  conv'.assigned = conv.assigned
  BY <1>0, <1>4 DEF RejectTransferConversation, CloseConversation, ConversationRow
<1>5. ASSUME AutoCloseConversation PROVE conv'.assigned = conv.assigned
  BY <1>0, <1>5 DEF AutoCloseConversation, ConversationRow
<1> QED BY <1>1, <1>2, <1>3, <1>4, <1>5, ConvSteps

(* Ownership moves only from nobody to the claimant, or along the pending  *)
(* transfer of the owner: TransferConsistent is what makes the pending     *)
(* transfer the owner's own.                                               *)
THEOREM OwnershipSafe == Spec => OwnerHandedOver
<1>1. TypeOK /\ TransferConsistent /\ [Next]_vars =>
        [conv'.assigned # conv.assigned =>
            \/ conv.assigned = None
            \/ conv.pendingFrom = conv.assigned /\ conv.pendingTo = conv'.assigned]_vars
  BY NextOwnerHandedOver
<1> QED BY <1>1, TypeCorrect, TransferSafe, PTL DEF Spec, OwnerHandedOver

-----------------------------------------------------------------------------
(* What a step does to the rows of messages *)

\* Rows stay, with key, sender and author; what is committed or rolled back stays so.
RowsKept ==
    \A i \in DOMAIN messages :
        /\ i \in DOMAIN messages'
        /\ messages'[i].key = messages[i].key
        /\ messages'[i].sender = messages[i].sender
        /\ messages'[i].by = messages[i].by
        /\ messages[i].tx # "open" => messages'[i].tx = messages[i].tx

\* A new row has the next id and the author of a call, or none; its key is its
\* own id or a key nobody holds.
RowsAdded ==
    \A i \in DOMAIN messages' \ DOMAIN messages :
        /\ i = Len(messages) + 1
        /\ messages'[i].status = "sent"
        /\ messages'[i].by = None \/ \E r \in Requests : messages'[i].by = req[r].by
        /\ \/ messages'[i].key = i
           \/ messages'[i].key \in ClientMsgIDs /\ HoldersOf(messages'[i].key) = {}

\* A system message adds one committed row with a fresh key.
LEMMA PublishRows ==
  ASSUME TypeInv, PublishSystemMessage
  PROVE  RowsKept /\ RowsAdded
  BY DEF PublishSystemMessage, RowsKept, RowsAdded, NewMessage, TypeInv, TypeOK

\* An insert adds one open row at the end.
LEMMA InsertRows ==
  ASSUME TypeInv, NEW r \in Requests, InsertMessage(r)
  PROVE  RowsKept /\ RowsAdded
<1>1. req[r].key \in ClientMsgIDs
  BY DEF InsertMessage, TypeInv, CallsConsistent
<1> QED BY <1>1 DEF InsertMessage, RowsKept, RowsAdded, NewMessage, TypeInv, TypeOK

\* A commit changes its call's own row from open to committed.
LEMMA CommitRows ==
  ASSUME TypeInv, NEW r \in Requests, CommitRow(r)
  PROVE  RowsKept /\ RowsAdded
<1>1. /\ req[r].msg \in DOMAIN messages
      /\ messages[req[r].msg].tx = "open"
  BY DEF CommitRow, TypeInv, CallsConsistent
<1>2. \A i \in DOMAIN messages : messages[i] \in MessageRow
  BY DEF TypeInv, TypeOK
<1> QED BY <1>1, <1>2 DEF CommitRow, RowsKept, RowsAdded, MessageRow

\* A rollback changes its call's own row from open to rolled back.
LEMMA RollbackRows ==
  ASSUME TypeInv, NEW r \in Requests, RollbackMessage(r)
  PROVE  RowsKept /\ RowsAdded
<1>1. req[r].phase = "inserted" =>
        /\ req[r].msg \in DOMAIN messages
        /\ messages[req[r].msg].tx = "open"
  BY DEF TypeInv, CallsConsistent
<1>2. \A i \in DOMAIN messages : messages[i] \in MessageRow
  BY DEF TypeInv, TypeOK
<1> QED BY <1>1, <1>2 DEF RollbackMessage, RowsKept, RowsAdded, MessageRow

\* A read report changes the status column only.
LEMMA MarkReadRows ==
  ASSUME TypeInv, NEW actor \in {"visitor", "agent"}, NEW upTo \in ReportableIDs,
         MarkMessagesRead(actor, upTo)
  PROVE  RowsKept /\ RowsAdded
<1>1. \A i \in DOMAIN messages : messages[i] \in MessageRow
  BY DEF TypeInv, TypeOK
<1> QED BY <1>1 DEF MarkMessagesRead, RowsKept, RowsAdded, MessageRow

\* Steps that leave messages alone keep every row.
LEMMA SameRows ==
  ASSUME messages' = messages
  PROVE  RowsKept /\ RowsAdded
  BY DEF RowsKept, RowsAdded

\* Every step keeps old rows and adds at most one at the end.
LEMMA RowSteps ==
  ASSUME TypeInv, [Next]_vars
  PROVE  RowsKept /\ RowsAdded
<1>1. ASSUME NEW r \in Requests, CreateMessage(r) PROVE RowsKept /\ RowsAdded
  BY <1>1, InsertRows, CommitRows, RollbackRows, SameRows
  DEF CreateMessage, CheckMessage, ReuseMessage, DuplicateMessage, CommitMessage, CommitUnacknowledged
<1>2. CASE \E actor \in {"visitor", "agent"}, upTo \in ReportableIDs : MarkMessagesRead(actor, upTo)
  BY <1>2, MarkReadRows
<1>3. CASE \E agent \in Agents : ClaimConversation(agent)
  BY <1>3, SameRows DEF ClaimConversation
<1>4. CASE \E a \in Actor, to \in Agents : TransferConversation(a, to)
  BY <1>4, PublishRows DEF TransferConversation
<1>5. ASSUME NEW a \in Actor,
             \/ ConfirmTransferConversation(a)
             \/ RejectTransferConversation(a)
             \/ CloseConversation(a)
      PROVE  RowsKept /\ RowsAdded
  BY <1>5, PublishRows, SameRows
  DEF ConfirmTransferConversation, RejectTransferConversation, CloseConversation
<1>6. CASE AutoCloseConversation
  BY <1>6, SameRows DEF AutoCloseConversation
<1>7. CASE UNCHANGED vars
  BY <1>7, SameRows DEF vars
<1> QED BY <1>1, <1>2, <1>3, <1>4, <1>5, <1>6, <1>7 DEF Next

-----------------------------------------------------------------------------
(* Idempotency keys *)

\* UniqueClientMsgID for every row that may still commit, and a system
\* message's key is its own id, so it cannot meet a client's.
KeysUnique ==
    /\ \A i, j \in DOMAIN messages :
          /\ messages[i].tx # "rolledback" /\ messages[j].tx # "rolledback"
          /\ messages[i].key = messages[j].key
          => i = j
    /\ \A i \in DOMAIN messages : messages[i].key \in Nat => messages[i].key = i

\* Every step keeps keys unique among rows that are open or committed.
LEMMA NextKeysUnique ==
  ASSUME TypeInv, KeysUnique, [Next]_vars
  PROVE  KeysUnique'
<1>1. RowsKept /\ RowsAdded
  BY RowSteps
<1>2. DOMAIN messages = 1..Len(messages) /\ Len(messages) \in Nat
  BY DEF TypeInv, TypeOK
<1>3. \A i \in DOMAIN messages' : messages'[i].key \in Nat => messages'[i].key = i
  BY <1>1, ConstantsAssumption DEF RowsKept, RowsAdded, KeysUnique
<1>4. ASSUME NEW i \in DOMAIN messages', NEW j \in DOMAIN messages',
             messages'[i].tx # "rolledback", messages'[j].tx # "rolledback",
             messages'[i].key = messages'[j].key
      PROVE  i = j
  <2>1. CASE i \in DOMAIN messages /\ j \in DOMAIN messages
    BY <1>1, <1>4, <2>1 DEF RowsKept, KeysUnique
  <2>2. CASE i \notin DOMAIN messages /\ j \notin DOMAIN messages
    BY <1>1, <2>2 DEF RowsAdded
  <2>3. ASSUME NEW m \in DOMAIN messages, NEW n \in DOMAIN messages' \ DOMAIN messages,
               messages'[m].tx # "rolledback",
               messages'[m].key = messages'[n].key
        PROVE  FALSE
    <3>1. messages[m].key = messages'[n].key /\ messages[m].tx # "rolledback"
      BY <1>1, <2>3 DEF RowsKept
    <3>2. CASE messages'[n].key = n
      <4>1. n = Len(messages) + 1
        BY <1>1 DEF RowsAdded
      <4>2. messages[m].key = m
        BY <1>2, <3>1, <3>2, <4>1 DEF KeysUnique
      <4> QED BY <1>2, <3>1, <3>2, <4>1, <4>2
    <3>3. CASE HoldersOf(messages'[n].key) = {}
      BY <3>1, <3>3 DEF HoldersOf
    <3> QED BY <1>1, <3>2, <3>3 DEF RowsAdded
  <2> QED BY <1>4, <2>1, <2>2, <2>3
<1> QED BY <1>3, <1>4 DEF KeysUnique

\* KeysUnique is an invariant of the specification.
LEMMA KeysUniqueInvariant == Spec => []KeysUnique
<1>1. Init => KeysUnique
  BY DEF Init, KeysUnique
<1>2. TypeInv /\ KeysUnique /\ [Next]_vars => KeysUnique'
  BY NextKeysUnique
<1> QED BY <1>1, <1>2, TypeInvariant, PTL DEF Spec

(* However many calls of CreateMessage race with the same client_msg_id,   *)
(* and whichever of them fail, at most one message with it is committed.   *)
THEOREM KeysSafe == Spec => []UniqueClientMsgID
<1>1. KeysUnique => UniqueClientMsgID
  BY DEF KeysUnique, UniqueClientMsgID, Committed
<1> QED BY <1>1, KeysUniqueInvariant, PTL

-----------------------------------------------------------------------------
(* Acknowledgements *)

\* A step changes answers only to errors, or to "ok" for a committed row.
LEMMA ReplySteps ==
  ASSUME TypeInv, [Next]_vars, NEW q \in Requests, reply'[q].kind = "ok"
  PROVE  \/ reply'[q] = reply[q]
         \/ /\ reply'[q].msg \in DOMAIN messages'
            /\ messages'[reply'[q].msg].tx = "committed"
            /\ messages'[reply'[q].msg].key = reply'[q].key
<1> DEFINE Goal == \/ reply'[q] = reply[q]
                   \/ /\ reply'[q].msg \in DOMAIN messages'
                      /\ messages'[reply'[q].msg].tx = "committed"
                      /\ messages'[reply'[q].msg].key = reply'[q].key
<1>0. reply \in [Requests -> Reply]
  BY DEF TypeInv, TypeOK
<1>1. ASSUME NEW r \in Requests, NEW s \in CallerTypes, NEW k \in ClientMsgIDs,
             NEW by \in SendersOf(s), ReuseMessage(r, s, by, k)
      PROVE  Goal
  BY <1>0, <1>1 DEF ReuseMessage, HoldersOf, Committed
<1>2. ASSUME NEW r \in Requests, CommitMessage(r) PROVE Goal
  <2>1. /\ req[r].msg \in DOMAIN messages
        /\ messages[req[r].msg].key = req[r].key
        /\ messages[req[r].msg] \in MessageRow
    BY <1>2 DEF CommitMessage, CommitRow, TypeInv, TypeOK, CallsConsistent
  <2>2. /\ req[r].msg \in DOMAIN messages'
        /\ messages'[req[r].msg].tx = "committed"
        /\ messages'[req[r].msg].key = req[r].key
    BY <1>2, <2>1 DEF CommitMessage, CommitRow, MessageRow
  <2> QED BY <1>0, <1>2, <2>2 DEF CommitMessage
<1>3. ASSUME NEW r \in Requests, DuplicateMessage(r) \/ CommitUnacknowledged(r) \/ RollbackMessage(r)
      PROVE  Goal
  BY <1>0, <1>3 DEF DuplicateMessage, CommitUnacknowledged, RollbackMessage
<1>4. ASSUME reply' = reply PROVE Goal
  BY <1>4
<1>5. ASSUME NEW r \in Requests, CreateMessage(r) PROVE Goal
  BY <1>1, <1>2, <1>3, <1>4, <1>5 DEF CreateMessage, CheckMessage, InsertMessage
<1> QED
  BY <1>4, <1>5
  DEF Next, vars, MarkMessagesRead, ClaimConversation, TransferConversation,
      ConfirmTransferConversation, RejectTransferConversation, CloseConversation, AutoCloseConversation

\* Every step keeps acknowledged messages committed.
LEMMA NextAckedMessageDurable ==
  ASSUME TypeInv, AckedMessageDurable, [Next]_vars
  PROVE  AckedMessageDurable'
<1>1. RowsKept
  BY RowSteps
<1> SUFFICES ASSUME NEW q \in Requests, reply'[q].kind = "ok"
             PROVE  /\ reply'[q].msg \in DOMAIN messages'
                    /\ messages'[reply'[q].msg].tx = "committed"
                    /\ messages'[reply'[q].msg].key = reply'[q].key
  BY DEF AckedMessageDurable, Committed
<1> QED BY <1>1, ReplySteps DEF AckedMessageDurable, Committed, RowsKept

(* A message CreateMessage has acknowledged is committed under the key it  *)
(* was sent with, and no later call or rollback takes it away.             *)
THEOREM AcknowledgedSafe == Spec => []AckedMessageDurable
<1>1. Init => AckedMessageDurable
  BY DEF Init, AckedMessageDurable
<1>2. TypeInv /\ AckedMessageDurable /\ [Next]_vars => AckedMessageDurable'
  BY NextAckedMessageDurable
<1> QED BY <1>1, <1>2, TypeInvariant, PTL DEF Spec

-----------------------------------------------------------------------------
(* Announcements *)

\* The outbox only grows, and none of the new rows has one of the types.
GrowsWithout(types) ==
    /\ Len(outbox) <= Len(outbox')
    /\ \A j \in DOMAIN outbox : j \in DOMAIN outbox' /\ outbox'[j] = outbox[j]
    /\ \A j \in DOMAIN outbox' \ DOMAIN outbox : outbox'[j].type \notin types

\* MarkMessagesRead adds message.status rows only.
LEMMA MarkReadOutbox ==
  ASSUME TypeInv, NEW actor \in {"visitor", "agent"}, NEW upTo \in ReportableIDs,
         MarkMessagesRead(actor, upTo)
  PROVE  GrowsWithout({"message.new", "conversation.closed"})
<1>1. \A s \in {"visitor", "agent", "ai"} :
        /\ StatusEvents(s, upTo) \in Seq(Event)
        /\ \A n \in DOMAIN StatusEvents(s, upTo) : StatusEvents(s, upTo)[n].type = "message.status"
  <2>1. upTo \in Nat
    BY ConstantsAssumption DEF ReportableIDs
  <2>2. \A s \in {"visitor", "agent", "ai"} :
           MessageStatus(s, upTo) \in Event /\ MessageStatus(s, upTo).type = "message.status"
    BY <2>1, EventTypes DEF SenderTypes, MessageStatus
  <2> QED BY <2>2 DEF StatusEvents
<1>2. outbox \in Seq(Event)
  BY DEF TypeInv, TypeOK
<1>3. CASE actor = "visitor"
  <2> DEFINE one == outbox \o StatusEvents("agent", upTo)
  <2>1. /\ one \in Seq(Event)
        /\ Len(outbox) <= Len(one)
        /\ \A j \in DOMAIN outbox : j \in DOMAIN one /\ one[j] = outbox[j]
        /\ \A j \in DOMAIN one \ DOMAIN outbox : one[j].type = "message.status"
    BY <1>1, <1>2
  <2>2. outbox' = one \o StatusEvents("ai", upTo)
    BY <1>3 DEF MarkMessagesRead
  <2> HIDE DEF one
  <2>3. /\ Len(one) <= Len(outbox')
        /\ \A j \in DOMAIN one : j \in DOMAIN outbox' /\ outbox'[j] = one[j]
        /\ \A j \in DOMAIN outbox' \ DOMAIN one : outbox'[j].type = "message.status"
        /\ Len(outbox') \in Nat
    BY <1>1, <2>1, <2>2
  <2> QED BY <1>2, <2>1, <2>3 DEF GrowsWithout
<1>4. CASE actor = "agent"
  <2>1. outbox' = outbox \o StatusEvents("visitor", upTo)
    BY <1>4 DEF MarkMessagesRead
  <2> QED BY <1>1, <1>2, <2>1 DEF GrowsWithout
<1> QED BY <1>3, <1>4

\* A step that adds no closing event and keeps the status.
LEMMA NothingClosed ==
  ASSUME TypeInv, ClosedAnnouncedOnce, conv'.status = conv.status,
         GrowsWithout({"conversation.closed"})
  PROVE  ClosedAnnouncedOnce'
  BY DEF ClosedAnnouncedOnce, GrowsWithout

\* A step that closes an open conversation and announces it.
LEMMA ClosedNow ==
  ASSUME TypeInv, ClosedAnnouncedOnce, conv.status # "closed", conv'.status = "closed",
         outbox' = Append(outbox, ConversationClosed)
  PROVE  ClosedAnnouncedOnce'
<1>1. \A j \in DOMAIN outbox : outbox[j].type # "conversation.closed"
  BY DEF ClosedAnnouncedOnce
<1>2. /\ DOMAIN outbox' = 1..Len(outbox) + 1
      /\ DOMAIN outbox = 1..Len(outbox) /\ Len(outbox) \in Nat
      /\ \A j \in DOMAIN outbox : outbox'[j] = outbox[j]
      /\ outbox'[Len(outbox) + 1] = ConversationClosed
  BY DEF TypeInv, TypeOK
<1>3. ConversationClosed.type = "conversation.closed"
  BY DEF ConversationClosed
<1> QED BY <1>1, <1>2, <1>3 DEF ClosedAnnouncedOnce

\* One more message.new event is no closing event.
LEMMA NewIsNotClosed ==
  ASSUME TypeInv, NEW n \in Nat, outbox' = Append(outbox, MessageNew(n))
  PROVE  GrowsWithout({"conversation.closed"})
  BY DEF GrowsWithout, MessageNew, TypeInv, TypeOK

\* Every step keeps the closing event in agreement with the status.
LEMMA NextClosedAnnouncedOnce ==
  ASSUME TypeInv, ClosedAnnouncedOnce, [Next]_vars
  PROVE  ClosedAnnouncedOnce'
<1>0. conv \in ConversationRow /\ Len(messages) + 1 \in Nat
  BY DEF TypeInv, TypeOK
<1>1. ASSUME UNCHANGED <<conv, outbox>> PROVE ClosedAnnouncedOnce'
  BY <1>1 DEF ClosedAnnouncedOnce
<1>2. ASSUME NEW r \in Requests, CommitRow(r) PROVE ClosedAnnouncedOnce'
  <2>1. req[r].msg \in Nat
    BY DEF TypeInv, TypeOK, Call
  <2> QED BY <1>2, <2>1, NewIsNotClosed, NothingClosed DEF CommitRow
<1>3. ASSUME NEW r \in Requests, CreateMessage(r) PROVE ClosedAnnouncedOnce'
  BY <1>1, <1>2, <1>3
  DEF CreateMessage, CheckMessage, ReuseMessage, InsertMessage, DuplicateMessage, CommitMessage,
      CommitUnacknowledged, RollbackMessage
<1>4. ASSUME NEW actor \in {"visitor", "agent"}, NEW upTo \in ReportableIDs, MarkMessagesRead(actor, upTo)
      PROVE  ClosedAnnouncedOnce'
  <2>1. GrowsWithout({"conversation.closed"})
    BY <1>4, MarkReadOutbox DEF GrowsWithout
  <2> QED BY <1>4, <2>1, NothingClosed DEF MarkMessagesRead
<1>5. ASSUME NEW agent \in Agents, ClaimConversation(agent) PROVE ClosedAnnouncedOnce'
  <2>1. conv'.status = conv.status
    BY <1>0, <1>5 DEF ClaimConversation, ConversationRow
  <2> QED BY <1>5, <2>1 DEF ClaimConversation, ClosedAnnouncedOnce
<1>6. ASSUME PublishSystemMessage, conv'.status = conv.status PROVE ClosedAnnouncedOnce'
  BY <1>0, <1>6, NewIsNotClosed, NothingClosed DEF PublishSystemMessage
<1>7. ASSUME NEW a \in Actor, NEW to \in Agents, TransferConversation(a, to) PROVE ClosedAnnouncedOnce'
  BY <1>0, <1>6, <1>7 DEF TransferConversation, ConversationRow
<1>8. ASSUME NEW a \in Actor, ConfirmTransferConversation(a) \/ RejectTransferConversation(a)
      PROVE  ClosedAnnouncedOnce'
  BY <1>0, <1>6, <1>8 DEF ConfirmTransferConversation, RejectTransferConversation, ConversationRow
<1>9. ASSUME NEW a \in Actor, CloseConversation(a) PROVE ClosedAnnouncedOnce'
  BY <1>0, <1>9, ClosedNow DEF CloseConversation, ConversationRow
<1>10. ASSUME AutoCloseConversation PROVE ClosedAnnouncedOnce'
  BY <1>0, <1>10, ClosedNow DEF AutoCloseConversation, ConversationRow
<1> QED BY <1>1, <1>3, <1>4, <1>5, <1>7, <1>8, <1>9, <1>10 DEF Next, vars

(* A conversation is closed exactly when one conversation.closed event has *)
(* been written, however manual closing and the timer race.                *)
THEOREM ClosingAnnounced == Spec => []ClosedAnnouncedOnce
<1>1. Init => ClosedAnnouncedOnce
  BY DEF Init, ClosedAnnouncedOnce
<1>2. TypeInv /\ ClosedAnnouncedOnce /\ [Next]_vars => ClosedAnnouncedOnce'
  BY NextClosedAnnouncedOnce
<1> QED BY <1>1, <1>2, TypeInvariant, PTL DEF Spec

-----------------------------------------------------------------------------

\* A step that commits no message and announces none.
LEMMA NothingCommitted ==
  ASSUME TypeInv, MessageAnnouncedOnce, RowsKept, VisibleIDs' = VisibleIDs,
         GrowsWithout({"message.new"})
  PROVE  MessageAnnouncedOnce'
<1>1. \A i \in DOMAIN messages' : messages'[i].tx = "committed" <=> i \in VisibleIDs
  BY DEF VisibleIDs, Committed
<1>2. \A i \in DOMAIN messages : Committed(i) <=> i \in VisibleIDs
  BY DEF VisibleIDs
<1>3. \A i : MessageNew(i).type = "message.new" /\ MessageNew(i).msg = i
  BY DEF MessageNew
<1>4. ASSUME NEW j \in DOMAIN outbox', outbox'[j].type = "message.new"
      PROVE  j \in DOMAIN outbox /\ outbox'[j] = outbox[j] /\ outbox[j].msg \in DOMAIN messages
  BY <1>4 DEF GrowsWithout, MessageAnnouncedOnce
<1>5. \A j \in DOMAIN outbox' : outbox'[j].type = "message.new" => outbox'[j].msg \in DOMAIN messages'
  BY <1>4 DEF RowsKept
<1>6. ASSUME NEW i \in DOMAIN messages'
      PROVE  messages'[i].tx = "committed" <=> \E j \in DOMAIN outbox' : outbox'[j] = MessageNew(i)
  <2>1. ASSUME messages'[i].tx = "committed"
        PROVE  \E j \in DOMAIN outbox' : outbox'[j] = MessageNew(i)
    <3>1. i \in DOMAIN messages /\ Committed(i)
      BY <1>1, <2>1 DEF VisibleIDs
    <3>2. PICK j \in DOMAIN outbox : outbox[j] = MessageNew(i)
      BY <3>1 DEF MessageAnnouncedOnce
    <3> QED BY <3>2 DEF GrowsWithout
  <2>2. ASSUME NEW j \in DOMAIN outbox', outbox'[j] = MessageNew(i)
        PROVE  messages'[i].tx = "committed"
    <3>1. j \in DOMAIN outbox /\ outbox[j] = MessageNew(i) /\ i \in DOMAIN messages
      BY <1>3, <1>4, <2>2
    <3>2. Committed(i)
      BY <3>1 DEF MessageAnnouncedOnce
    <3> QED BY <1>1, <1>2, <3>1, <3>2
  <2> QED BY <2>1, <2>2
<1>7. \A j, k \in DOMAIN outbox' :
        outbox'[j].type = "message.new" /\ outbox'[j] = outbox'[k] => j = k
  BY <1>4 DEF MessageAnnouncedOnce
<1> QED BY <1>5, <1>6, <1>7 DEF MessageAnnouncedOnce, Committed, MessageNew

\* A step that commits one message and announces it.
LEMMA OneCommitted ==
  ASSUME TypeInv, MessageAnnouncedOnce, RowsKept,
         NEW n \in DOMAIN messages', n \notin VisibleIDs, VisibleIDs' = VisibleIDs \cup {n},
         outbox' = Append(outbox, MessageNew(n))
  PROVE  MessageAnnouncedOnce'
<1>1. \A i \in DOMAIN messages' : messages'[i].tx = "committed" <=> i \in VisibleIDs \/ i = n
  BY DEF VisibleIDs, Committed
<1>2. \A i \in DOMAIN messages : Committed(i) <=> i \in VisibleIDs
  BY DEF VisibleIDs
<1>3. \A i : MessageNew(i).type = "message.new" /\ MessageNew(i).msg = i
  BY DEF MessageNew
<1>4. /\ DOMAIN outbox' = 1..Len(outbox) + 1
      /\ DOMAIN outbox = 1..Len(outbox) /\ Len(outbox) \in Nat
      /\ \A j \in DOMAIN outbox : outbox'[j] = outbox[j]
      /\ outbox'[Len(outbox) + 1] = MessageNew(n)
  BY DEF TypeInv, TypeOK
<1>5. \A j \in DOMAIN outbox : outbox[j] # MessageNew(n)
  BY <1>2, <1>3 DEF MessageAnnouncedOnce
<1>6. \A j \in DOMAIN outbox' : outbox'[j].type = "message.new" => outbox'[j].msg \in DOMAIN messages'
  BY <1>3, <1>4 DEF MessageAnnouncedOnce, RowsKept
<1>7. ASSUME NEW i \in DOMAIN messages'
      PROVE  messages'[i].tx = "committed" <=> \E j \in DOMAIN outbox' : outbox'[j] = MessageNew(i)
  <2>1. CASE i = n
    BY <1>1, <1>4, <2>1
  <2>2. CASE i # n
    <3>1. MessageNew(i) # MessageNew(n)
      BY <1>3, <2>2
    <3>2. (\E j \in DOMAIN outbox' : outbox'[j] = MessageNew(i)) <=>
             \E j \in DOMAIN outbox : outbox[j] = MessageNew(i)
      BY <1>4, <3>1
    <3>3. i \in VisibleIDs <=> \E j \in DOMAIN outbox : outbox[j] = MessageNew(i)
      BY <1>2, <1>3 DEF MessageAnnouncedOnce, VisibleIDs
    <3> QED BY <1>1, <2>2, <3>2, <3>3
  <2> QED BY <2>1, <2>2
<1>8. \A j, k \in DOMAIN outbox' :
        outbox'[j].type = "message.new" /\ outbox'[j] = outbox'[k] => j = k
  BY <1>4, <1>5 DEF MessageAnnouncedOnce
<1> QED BY <1>6, <1>7, <1>8 DEF MessageAnnouncedOnce, Committed, MessageNew

\* Every step keeps message.new events in agreement with committed rows.
LEMMA NextMessageAnnouncedOnce ==
  ASSUME TypeInv, MessageAnnouncedOnce, [Next]_vars
  PROVE  MessageAnnouncedOnce'
<1>0. RowsKept /\ RowsAdded
  BY RowSteps
<1>a. /\ DOMAIN messages = 1..Len(messages) /\ Len(messages) \in Nat
      /\ \A i \in DOMAIN messages : messages[i] \in MessageRow
  BY DEF TypeInv, TypeOK
<1>b. ASSUME outbox' = outbox PROVE GrowsWithout({"message.new"})
  BY <1>b DEF GrowsWithout, TypeInv, TypeOK
<1>1. ASSUME UNCHANGED <<messages, outbox>> PROVE MessageAnnouncedOnce'
  BY <1>1 DEF MessageAnnouncedOnce, Committed, MessageNew
<1>2. ASSUME NEW r \in Requests, InsertMessage(r) PROVE MessageAnnouncedOnce'
  <2>1. VisibleIDs' = VisibleIDs
    BY <1>2, <1>a DEF InsertMessage, VisibleIDs, Committed, NewMessage, TypeInv, TypeOK
  <2> QED BY <1>0, <1>2, <1>b, <2>1, NothingCommitted DEF InsertMessage
<1>3. ASSUME NEW r \in Requests, CommitRow(r) PROVE MessageAnnouncedOnce'
  <2>1. req[r].msg \in DOMAIN messages /\ messages[req[r].msg].tx = "open"
    BY <1>3 DEF CommitRow, TypeInv, CallsConsistent
  <2>2. req[r].msg \in DOMAIN messages' /\ req[r].msg \notin VisibleIDs
    BY <1>3, <2>1 DEF CommitRow, VisibleIDs, Committed
  <2>3. VisibleIDs' = VisibleIDs \cup {req[r].msg}
    BY <1>3, <1>a, <2>1 DEF CommitRow, VisibleIDs, Committed, MessageRow
  <2> QED BY <1>0, <1>3, <2>2, <2>3, OneCommitted DEF CommitRow
<1>4. ASSUME NEW r \in Requests, RollbackMessage(r) PROVE MessageAnnouncedOnce'
  <2>1. req[r].phase = "inserted" =>
           req[r].msg \in DOMAIN messages /\ messages[req[r].msg].tx = "open"
    BY DEF TypeInv, CallsConsistent
  <2>2. VisibleIDs' = VisibleIDs
    BY <1>4, <1>a, <2>1 DEF RollbackMessage, VisibleIDs, Committed, MessageRow
  <2> QED BY <1>0, <1>4, <1>b, <2>2, NothingCommitted DEF RollbackMessage
<1>5. ASSUME NEW r \in Requests, CreateMessage(r) PROVE MessageAnnouncedOnce'
  BY <1>1, <1>2, <1>3, <1>4, <1>5
  DEF CreateMessage, CheckMessage, ReuseMessage, DuplicateMessage, CommitMessage, CommitUnacknowledged
<1>6. ASSUME NEW actor \in {"visitor", "agent"}, NEW upTo \in ReportableIDs, MarkMessagesRead(actor, upTo)
      PROVE  MessageAnnouncedOnce'
  <2>1. VisibleIDs' = VisibleIDs
    BY <1>6, <1>a DEF MarkMessagesRead, VisibleIDs, Committed, MessageRow
  <2>2. GrowsWithout({"message.new"})
    BY <1>6, MarkReadOutbox DEF GrowsWithout
  <2> QED BY <1>0, <2>1, <2>2, NothingCommitted
<1>7. ASSUME PublishSystemMessage PROVE MessageAnnouncedOnce'
  <2> DEFINE n == Len(messages) + 1
  <2>1. /\ n \in DOMAIN messages' /\ n \notin VisibleIDs
        /\ VisibleIDs' = VisibleIDs \cup {n}
    BY <1>7, <1>a DEF PublishSystemMessage, VisibleIDs, Committed, NewMessage, TypeInv, TypeOK
  <2> QED BY <1>0, <1>7, <2>1, OneCommitted DEF PublishSystemMessage
<1>8. ASSUME outbox' = Append(outbox, ConversationClosed), messages' = messages
      PROVE  MessageAnnouncedOnce'
  <2>1. GrowsWithout({"message.new"})
    BY <1>8 DEF GrowsWithout, ConversationClosed, TypeInv, TypeOK
  <2>2. VisibleIDs' = VisibleIDs
    BY <1>8 DEF VisibleIDs, Committed
  <2> QED BY <1>0, <2>1, <2>2, NothingCommitted
<1> QED
  BY <1>1, <1>5, <1>6, <1>7, <1>8
  DEF Next, vars, ClaimConversation, TransferConversation, ConfirmTransferConversation,
      RejectTransferConversation, CloseConversation, AutoCloseConversation

(* The outbox and the messages table agree after every step: a message has *)
(* been announced, once, exactly when it is committed.                     *)
THEOREM MessagesAnnounced == Spec => []MessageAnnouncedOnce
<1>1. Init => MessageAnnouncedOnce
  BY DEF Init, MessageAnnouncedOnce
<1>2. TypeInv /\ MessageAnnouncedOnce /\ [Next]_vars => MessageAnnouncedOnce'
  BY NextMessageAnnouncedOnce
<1> QED BY <1>1, <1>2, TypeInvariant, PTL DEF Spec

-----------------------------------------------------------------------------
(* Read receipts *)

\* ReadIffAnnounced for every row: one that is not committed has no
\* message.new, so nothing announces it, and it has not been read either.
ReadsAnnounced ==
    \A i \in DOMAIN messages :
        messages[i].status = "read" <=> \E j \in DOMAIN outbox : Announces(outbox[j], j, i)

StatusKept == \A i \in DOMAIN messages : messages'[i].status = messages[i].status

\* New rows of the outbox come after the old ones, so what an old range follows
\* never changes.
LEMMA OldRangesKept ==
  ASSUME TypeInv, TypeInv', RowsKept, GrowsWithout({}), NEW i \in DOMAIN messages, NEW j \in DOMAIN outbox
  PROVE  Announces(outbox[j], j, i)' <=> Announces(outbox[j], j, i)
<1>1. /\ outbox \in Seq(Event) /\ outbox' \in Seq(Event) /\ Len(outbox) <= Len(outbox')
      /\ \A n \in DOMAIN outbox : n \in DOMAIN outbox' /\ outbox'[n] = outbox[n]
  BY DEF TypeInv, TypeOK, GrowsWithout
<1>2. \A n \in DOMAIN outbox' : n < j => n \in DOMAIN outbox
  BY <1>1
<1>3. messages'[i].sender = messages[i].sender
  BY DEF RowsKept
<1> QED BY <1>1, <1>2, <1>3 DEF Announces, MessageNew

\* A step that reads nothing and publishes no range.
LEMMA NothingRead ==
  ASSUME TypeInv, TypeInv', MessageAnnouncedOnce, ReadsAnnounced, RowsKept, RowsAdded, StatusKept,
         GrowsWithout({"message.status"})
  PROVE  ReadsAnnounced'
<1>1. GrowsWithout({})
  BY DEF GrowsWithout
<1>2. ASSUME NEW j \in DOMAIN outbox' \ DOMAIN outbox PROVE outbox'[j].type # "message.status"
  BY DEF GrowsWithout
<1>3. ASSUME NEW i \in DOMAIN messages
      PROVE  messages'[i].status = "read" <=> \E j \in DOMAIN outbox' : Announces(outbox[j], j, i)'
  <2>1. messages'[i].status = "read" <=> \E j \in DOMAIN outbox : Announces(outbox[j], j, i)
    BY DEF ReadsAnnounced, StatusKept
  <2>2. \A j \in DOMAIN outbox : j \in DOMAIN outbox' /\ (Announces(outbox[j], j, i)' <=> Announces(outbox[j], j, i))
    BY <1>1, OldRangesKept DEF GrowsWithout
  <2>3. \A j \in DOMAIN outbox' \ DOMAIN outbox : ~Announces(outbox[j], j, i)'
    BY <1>2 DEF Announces
  <2> QED BY <2>1, <2>2, <2>3
<1>4. ASSUME NEW i \in DOMAIN messages' \ DOMAIN messages
      PROVE  messages'[i].status # "read" /\ \A j \in DOMAIN outbox' : ~Announces(outbox[j], j, i)'
  <2>1. messages'[i].status = "sent"
    BY DEF RowsAdded
  <2>2. ASSUME NEW j \in DOMAIN outbox', Announces(outbox[j], j, i)' PROVE FALSE
    <3>1. j \in DOMAIN outbox
      BY <1>2, <2>2 DEF Announces
    <3>2. PICK n \in DOMAIN outbox' : n < j /\ outbox'[n] = MessageNew(i)
      BY <2>2 DEF Announces, MessageNew
    <3>3. n \in DOMAIN outbox /\ outbox[n] = MessageNew(i)
      <4>1. /\ outbox \in Seq(Event) /\ outbox' \in Seq(Event)
            /\ \A m \in DOMAIN outbox : outbox'[m] = outbox[m]
        BY DEF TypeInv, TypeOK, GrowsWithout
      <4> QED BY <3>1, <3>2, <4>1
    <3> QED BY <3>3 DEF MessageAnnouncedOnce, MessageNew
  <2> QED BY <2>1, <2>2
<1> QED BY <1>3, <1>4 DEF ReadsAnnounced

\* The events MarkMessagesRead adds: one range for each sender type of which
\* a row was read.
LEMMA MarkReadEvents ==
  ASSUME TypeInv, NEW actor \in {"visitor", "agent"}, NEW upTo \in ReportableIDs,
         MarkMessagesRead(actor, upTo)
  PROVE  /\ \A j \in DOMAIN outbox : j \in DOMAIN outbox' /\ outbox'[j] = outbox[j]
         /\ \A j \in DOMAIN outbox' \ DOMAIN outbox :
               \E s \in TargetsOf(actor) : Unread(s, upTo) # {} /\ outbox'[j] = MessageStatus(s, upTo)
         /\ \A s \in TargetsOf(actor) :
               Unread(s, upTo) # {} => \E j \in DOMAIN outbox' \ DOMAIN outbox : outbox'[j] = MessageStatus(s, upTo)
<1>1. \A s \in {"visitor", "agent", "ai"} :
        /\ StatusEvents(s, upTo) \in Seq(Event)
        /\ \A n \in DOMAIN StatusEvents(s, upTo) :
              Unread(s, upTo) # {} /\ StatusEvents(s, upTo)[n] = MessageStatus(s, upTo)
        /\ Unread(s, upTo) # {} =>
              1 \in DOMAIN StatusEvents(s, upTo) /\ StatusEvents(s, upTo)[1] = MessageStatus(s, upTo)
  <2>1. upTo \in Nat
    BY ConstantsAssumption DEF ReportableIDs
  <2>2. \A s \in {"visitor", "agent", "ai"} : MessageStatus(s, upTo) \in Event
    BY <2>1, EventTypes DEF SenderTypes
  <2> QED BY <2>2 DEF StatusEvents
<1>2. outbox \in Seq(Event)
  BY DEF TypeInv, TypeOK
<1>3. ASSUME NEW old \in Seq(Event), NEW s \in {"visitor", "agent", "ai"}
      PROVE  LET new == old \o StatusEvents(s, upTo)
             IN  /\ new \in Seq(Event)
                 /\ \A j \in DOMAIN old : j \in DOMAIN new /\ new[j] = old[j]
                 /\ \A j \in DOMAIN new \ DOMAIN old :
                       Unread(s, upTo) # {} /\ new[j] = MessageStatus(s, upTo)
                 /\ Unread(s, upTo) # {} => \E j \in DOMAIN new \ DOMAIN old : new[j] = MessageStatus(s, upTo)
  <2> DEFINE more == StatusEvents(s, upTo)
             new == old \o more
  <2>1. /\ more \in Seq(Event)
        /\ \A n \in DOMAIN more : Unread(s, upTo) # {} /\ more[n] = MessageStatus(s, upTo)
        /\ Unread(s, upTo) # {} => 1 \in DOMAIN more /\ more[1] = MessageStatus(s, upTo)
    BY <1>1
  <2> HIDE DEF more
  <2>2. /\ new \in Seq(Event)
        /\ \A j \in DOMAIN old : j \in DOMAIN new /\ new[j] = old[j]
        /\ \A j \in DOMAIN new \ DOMAIN old : \E n \in DOMAIN more : new[j] = more[n]
    BY <2>1
  <2>3. 1 \in DOMAIN more => Len(old) + 1 \in DOMAIN new \ DOMAIN old /\ new[Len(old) + 1] = more[1]
    BY <2>1
  <2> HIDE DEF new
  <2>4. /\ \A j \in DOMAIN new \ DOMAIN old : Unread(s, upTo) # {} /\ new[j] = MessageStatus(s, upTo)
        /\ Unread(s, upTo) # {} => \E j \in DOMAIN new \ DOMAIN old : new[j] = MessageStatus(s, upTo)
    BY <2>1, <2>2, <2>3
  <2> QED
    BY <2>2, <2>4 DEF new, more
<1>4. CASE actor = "visitor"
  <2> DEFINE one == outbox \o StatusEvents("agent", upTo)
  <2>1. /\ one \in Seq(Event)
        /\ \A j \in DOMAIN outbox : j \in DOMAIN one /\ one[j] = outbox[j]
        /\ \A j \in DOMAIN one \ DOMAIN outbox :
              Unread("agent", upTo) # {} /\ one[j] = MessageStatus("agent", upTo)
        /\ Unread("agent", upTo) # {} => \E j \in DOMAIN one \ DOMAIN outbox : one[j] = MessageStatus("agent", upTo)
    BY <1>2, <1>3
  <2>2. outbox' = one \o StatusEvents("ai", upTo)
    BY <1>4 DEF MarkMessagesRead
  <2> HIDE DEF one
  <2>3. /\ \A j \in DOMAIN one : j \in DOMAIN outbox' /\ outbox'[j] = one[j]
        /\ \A j \in DOMAIN outbox' \ DOMAIN one :
              Unread("ai", upTo) # {} /\ outbox'[j] = MessageStatus("ai", upTo)
        /\ Unread("ai", upTo) # {} => \E j \in DOMAIN outbox' \ DOMAIN one : outbox'[j] = MessageStatus("ai", upTo)
    BY <1>3, <2>1, <2>2
  <2>4. TargetsOf(actor) = {"agent", "ai"}
    BY <1>4 DEF TargetsOf
  <2>5. \A j \in DOMAIN outbox' \ DOMAIN outbox :
           \/ Unread("agent", upTo) # {} /\ outbox'[j] = MessageStatus("agent", upTo)
           \/ Unread("ai", upTo) # {} /\ outbox'[j] = MessageStatus("ai", upTo)
    BY <2>1, <2>3
  <2>6. Unread("agent", upTo) # {} => \E j \in DOMAIN outbox' \ DOMAIN outbox : outbox'[j] = MessageStatus("agent", upTo)
    BY <2>1, <2>3
  <2>7. \A j \in DOMAIN outbox : j \in DOMAIN outbox' /\ outbox'[j] = outbox[j]
    BY <2>1, <2>3
  <2>8. Unread("ai", upTo) # {} => \E j \in DOMAIN outbox' \ DOMAIN outbox : outbox'[j] = MessageStatus("ai", upTo)
    BY <2>1, <2>3
  <2> QED BY <2>4, <2>5, <2>6, <2>7, <2>8
<1>5. CASE actor = "agent"
  <2>1. outbox' = outbox \o StatusEvents("visitor", upTo) /\ TargetsOf(actor) = {"visitor"}
    BY <1>5 DEF MarkMessagesRead, TargetsOf
  <2>2. /\ \A j \in DOMAIN outbox : j \in DOMAIN outbox' /\ outbox'[j] = outbox[j]
        /\ \A j \in DOMAIN outbox' \ DOMAIN outbox :
              Unread("visitor", upTo) # {} /\ outbox'[j] = MessageStatus("visitor", upTo)
        /\ Unread("visitor", upTo) # {} => \E j \in DOMAIN outbox' \ DOMAIN outbox : outbox'[j] = MessageStatus("visitor", upTo)
    <3>1. LET new == outbox \o StatusEvents("visitor", upTo)
          IN  /\ \A j \in DOMAIN outbox : j \in DOMAIN new /\ new[j] = outbox[j]
              /\ \A j \in DOMAIN new \ DOMAIN outbox :
                    Unread("visitor", upTo) # {} /\ new[j] = MessageStatus("visitor", upTo)
              /\ Unread("visitor", upTo) # {} =>
                    \E j \in DOMAIN new \ DOMAIN outbox : new[j] = MessageStatus("visitor", upTo)
      BY <1>2, <1>3
    <3> QED BY <2>1, <3>1
  <2> QED BY <2>1, <2>2
<1> QED BY <1>4, <1>5

\* MarkMessagesRead reads exactly the rows it announces: those that have a
\* message.new, for they are the committed ones.
LEMMA MarkReadAnnounced ==
  ASSUME TypeInv, TypeInv', MessageAnnouncedOnce, ReadsAnnounced,
         NEW actor \in {"visitor", "agent"}, NEW upTo \in ReportableIDs, MarkMessagesRead(actor, upTo)
  PROVE  ReadsAnnounced'
<1> DEFINE rows == UNION {Unread(s, upTo) : s \in TargetsOf(actor)}
<1>1. messages' = [i \in DOMAIN messages |->
                      IF i \in rows THEN [messages[i] EXCEPT !.status = "read"] ELSE messages[i]]
  BY DEF MarkMessagesRead
<1>2. /\ \A j \in DOMAIN outbox : j \in DOMAIN outbox' /\ outbox'[j] = outbox[j]
      /\ \A j \in DOMAIN outbox' \ DOMAIN outbox :
            \E s \in TargetsOf(actor) : Unread(s, upTo) # {} /\ outbox'[j] = MessageStatus(s, upTo)
      /\ \A s \in TargetsOf(actor) :
            Unread(s, upTo) # {} => \E j \in DOMAIN outbox' \ DOMAIN outbox : outbox'[j] = MessageStatus(s, upTo)
  BY MarkReadEvents
<1>3. RowsKept
  BY MarkReadRows
<1>4. GrowsWithout({"message.new"}) /\ GrowsWithout({})
  BY MarkReadOutbox DEF GrowsWithout
<1>5. \A i \in DOMAIN messages :
         i \in rows <=> /\ Committed(i) /\ messages[i].sender \in TargetsOf(actor)
                        /\ i <= upTo /\ messages[i].status = "sent"
  BY DEF Unread
<1> HIDE DEF rows
<1>6. \A i \in DOMAIN messages : messages[i] \in MessageRow
  BY DEF TypeInv, TypeOK
<1>7. /\ DOMAIN messages' = DOMAIN messages
      /\ \A i \in DOMAIN messages :
            /\ messages'[i].sender = messages[i].sender
            /\ messages'[i].status = IF i \in rows THEN "read" ELSE messages[i].status
  BY <1>1, <1>6 DEF MessageRow
<1>8. \A s : MessageStatus(s, upTo).type = "message.status" /\ MessageStatus(s, upTo).msg = upTo
             /\ MessageStatus(s, upTo).sender = s
  BY DEF MessageStatus
<1>9. ASSUME NEW i \in DOMAIN messages
      PROVE  messages'[i].status = "read" <=> \E j \in DOMAIN outbox' : Announces(outbox[j], j, i)'
  <2>1. messages[i].status = "read" <=> \E j \in DOMAIN outbox : Announces(outbox[j], j, i)
    BY DEF ReadsAnnounced
  <2>2. \A j \in DOMAIN outbox : Announces(outbox[j], j, i)' <=> Announces(outbox[j], j, i)
    BY <1>3, <1>4, OldRangesKept
  <2>3. ASSUME NEW n \in DOMAIN outbox', outbox'[n] = MessageNew(i) PROVE Committed(i)
    <3>1. outbox'[n].type = "message.new"
      BY <2>3 DEF MessageNew
    <3>2. n \in DOMAIN outbox /\ outbox[n] = MessageNew(i)
      BY <1>4, <2>3, <3>1 DEF GrowsWithout
    <3> QED BY <3>2 DEF MessageAnnouncedOnce
  <2>4. CASE i \in rows
    <3>1. /\ Committed(i) /\ messages[i].sender \in TargetsOf(actor) /\ i <= upTo
          /\ i \in Unread(messages[i].sender, upTo)
          /\ messages[i].status # "read"
      BY <1>5, <2>4 DEF Unread
    <3>2. PICK j \in DOMAIN outbox' \ DOMAIN outbox : outbox'[j] = MessageStatus(messages[i].sender, upTo)
      BY <1>2, <3>1
    <3>3. PICK n \in DOMAIN outbox : outbox[n] = MessageNew(i)
      BY <3>1 DEF MessageAnnouncedOnce
    <3>4. n < j
      BY <3>2, <3>3 DEF TypeInv, TypeOK
    <3>5. n \in DOMAIN outbox' /\ outbox'[n] = MessageNew(i)
      BY <1>2, <3>3
    <3>6. Announces(outbox[j], j, i)'
      BY <1>7, <1>8, <3>1, <3>2, <3>4, <3>5 DEF Announces, MessageNew
    <3> QED BY <1>7, <2>4, <3>6
  <2>5. CASE i \notin rows
    <3>1. messages'[i].status = messages[i].status
      BY <1>7, <2>5
    <3>2. ASSUME NEW j \in DOMAIN outbox' \ DOMAIN outbox, Announces(outbox[j], j, i)'
          PROVE  messages[i].status = "read"
      <4>1. PICK s \in TargetsOf(actor) : outbox'[j] = MessageStatus(s, upTo)
        BY <1>2
      <4>2. messages[i].sender = s /\ i <= upTo
        BY <1>7, <1>8, <3>2, <4>1 DEF Announces
      <4>3. \E n \in DOMAIN outbox' : outbox'[n] = MessageNew(i)
        BY <3>2 DEF Announces, MessageNew
      <4>4. Committed(i)
        BY <2>3, <4>3
      <4> QED BY <1>5, <1>6, <2>5, <4>2, <4>4 DEF MessageRow
    <3> QED BY <1>2, <2>1, <2>2, <3>1, <3>2
  <2> QED BY <2>4, <2>5
<1> QED BY <1>7, <1>9 DEF ReadsAnnounced

\* One message.new or conversation.closed row is no range.
LEMMA OtherEventIsNoRange ==
  ASSUME TypeInv, NEW e, e.type # "message.status", outbox' = Append(outbox, e)
  PROVE  GrowsWithout({"message.status"})
  BY DEF GrowsWithout, TypeInv, TypeOK

\* Every step keeps the status column in agreement with the announced ranges.
LEMMA NextReadsAnnounced ==
  ASSUME TypeInv, TypeInv', MessageAnnouncedOnce, ReadsAnnounced, [Next]_vars
  PROVE  ReadsAnnounced'
<1>0. RowsKept /\ RowsAdded
  BY RowSteps
<1>1. \A i \in DOMAIN messages : messages[i] \in MessageRow
  BY DEF TypeInv, TypeOK
<1>2. \A i : MessageNew(i).type # "message.status" /\ ConversationClosed.type # "message.status"
  BY DEF MessageNew, ConversationClosed
<1>3. ASSUME outbox' = outbox, StatusKept PROVE ReadsAnnounced'
  <2>1. GrowsWithout({"message.status"})
    BY <1>3 DEF GrowsWithout, TypeInv, TypeOK
  <2> QED BY <1>0, <1>3, <2>1, NothingRead
<1>4. ASSUME messages' = messages PROVE StatusKept
  BY <1>4 DEF StatusKept
<1>5. ASSUME PublishSystemMessage PROVE ReadsAnnounced'
  <2>1. StatusKept
    BY <1>5 DEF PublishSystemMessage, StatusKept, TypeInv, TypeOK
  <2>2. GrowsWithout({"message.status"})
    BY <1>2, <1>5, OtherEventIsNoRange DEF PublishSystemMessage
  <2> QED BY <1>0, <2>1, <2>2, NothingRead
<1>6. ASSUME NEW r \in Requests, InsertMessage(r) PROVE ReadsAnnounced'
  <2>1. StatusKept
    BY <1>6 DEF InsertMessage, StatusKept, TypeInv, TypeOK
  <2> QED BY <1>3, <1>6, <2>1 DEF InsertMessage
<1>7. ASSUME NEW r \in Requests, CommitRow(r) PROVE ReadsAnnounced'
  <2>1. StatusKept
    BY <1>1, <1>7 DEF CommitRow, StatusKept, MessageRow
  <2>2. GrowsWithout({"message.status"})
    BY <1>2, <1>7, OtherEventIsNoRange DEF CommitRow
  <2> QED BY <1>0, <2>1, <2>2, NothingRead
<1>8. ASSUME NEW r \in Requests, RollbackMessage(r) PROVE ReadsAnnounced'
  <2>1. StatusKept
    BY <1>1, <1>8 DEF RollbackMessage, StatusKept, MessageRow
  <2> QED BY <1>3, <1>8, <2>1 DEF RollbackMessage
<1>9. ASSUME NEW r \in Requests, CreateMessage(r) PROVE ReadsAnnounced'
  BY <1>3, <1>4, <1>6, <1>7, <1>8, <1>9
  DEF CreateMessage, CheckMessage, ReuseMessage, DuplicateMessage, CommitMessage, CommitUnacknowledged
<1>10. ASSUME NEW a \in Actor, CloseConversation(a) PROVE ReadsAnnounced'
  <2>1. messages' = messages /\ outbox' = Append(outbox, ConversationClosed)
    BY <1>10 DEF CloseConversation
  <2>2. GrowsWithout({"message.status"})
    BY <1>2, <2>1, OtherEventIsNoRange
  <2> QED BY <1>0, <1>4, <2>1, <2>2, NothingRead
<1>11. CASE AutoCloseConversation
  <2>1. messages' = messages /\ outbox' = Append(outbox, ConversationClosed)
    BY <1>11 DEF AutoCloseConversation
  <2>2. GrowsWithout({"message.status"})
    BY <1>2, <2>1, OtherEventIsNoRange
  <2> QED BY <1>0, <1>4, <2>1, <2>2, NothingRead
<1>12. ASSUME NEW agent \in Agents, ClaimConversation(agent) PROVE ReadsAnnounced'
  BY <1>3, <1>4, <1>12 DEF ClaimConversation
<1>13. ASSUME NEW a \in Actor, NEW to \in Agents, TransferConversation(a, to) PROVE ReadsAnnounced'
  BY <1>5, <1>13 DEF TransferConversation
<1>14. ASSUME NEW a \in Actor, ConfirmTransferConversation(a) \/ RejectTransferConversation(a)
       PROVE  ReadsAnnounced'
  BY <1>5, <1>14 DEF ConfirmTransferConversation, RejectTransferConversation
<1>15. CASE UNCHANGED vars
  BY <1>3, <1>4, <1>15 DEF vars
<1> QED
  BY <1>9, <1>10, <1>11, <1>12, <1>13, <1>14, <1>15, MarkReadAnnounced DEF Next

(* A client that applies the events in the order of the outbox shows what  *)
(* the database holds, whichever ids are reported, issued or not, and      *)
(* whatever calls are between insert and commit when a range is reported.  *)
THEOREM ReadsSafe == Spec => []ReadIffAnnounced
<1>1. Init => ReadsAnnounced
  BY DEF Init, ReadsAnnounced
<1>2. TypeInv /\ TypeInv' /\ MessageAnnouncedOnce /\ ReadsAnnounced /\ [Next]_vars => ReadsAnnounced'
  BY NextReadsAnnounced
<1>3. ReadsAnnounced => ReadIffAnnounced
  BY DEF ReadsAnnounced, ReadIffAnnounced
<1> QED BY <1>1, <1>2, <1>3, TypeInvariant, MessagesAnnounced, PTL DEF Spec

=============================================================================
