--------------------------- MODULE CompositionProofs ---------------------------
(***************************************************************************)
(* The two compositions of module Conversation: with the timers of         *)
(* chat-service (AutoClose) and with the consumers of ai-service           *)
(* (AutoReply).  Each implements Conversation, so what is proved of that   *)
(* module holds in both; neither theorem mentions the other's variables.   *)
(*                                                                         *)
(* Automatic closing, for any number of callers, callbacks and messages,   *)
(* any interval and any bound on time, faults and crashes.  That no        *)
(* conversation is closed early rests on three facts about the rows: they  *)
(* are stamped in the order of their ids, none in the future, and a row of *)
(* an unfinished transaction is held by the call that inserted it, whose   *)
(* lock keeps the callback from deciding.                                  *)
(* A waiting conversation is never left without a timer: whatever removes  *)
(* one, a hook, a callback or a crash, is followed by a step that sets one *)
(* again, except for a visitor's hook that comes after a newer message.    *)
(*                                                                         *)
(* Automatic answers, for any number of consumers, other callers, messages *)
(* and faults.  The uniqueness of keys is what makes a second answer to a  *)
(* message impossible; the lock, which may be lost, is not used in the     *)
(* argument at all.                                                        *)
(***************************************************************************)
EXTENDS AutoClose, AutoReply, ConversationProofs, WellFoundedInduction

-----------------------------------------------------------------------------
(* Automatic closing: the invariant *)

\* Rows are stamped in the order of their ids, none later than now.
RowsTimed ==
    /\ \A i \in DOMAIN messages : created[i] <= now
    /\ \A i, j \in DOMAIN messages : i <= j => created[i] <= created[j]

\* A row of an unfinished transaction is held by the call that inserted it.
OpenRowsHeld ==
    \A i \in DOMAIN messages : messages[i].tx = "open" =>
        \E r \in Requests : req[r].phase = "inserted" /\ req[r].msg = i

HooksTrue == \A r \in Requests : hook[r] # 0 => hook[r] \in DOMAIN messages

AutoCloseInv == AutoCloseTypeOK /\ RowsTimed /\ HooksTrue /\ OpenRowsHeld

-----------------------------------------------------------------------------
(* Open rows *)

\* A call that ends takes its own row, and no other, out of its transaction.
LEMMA CallEndsOpenRows ==
  ASSUME TypeInv, OpenRowsHeld, NEW r \in Requests,
         req' = [req EXCEPT ![r] = Idle], DOMAIN messages' = DOMAIN messages,
         \A i \in DOMAIN messages :
            messages'[i].tx = "open" =>
               messages[i].tx = "open" /\ ~(req[r].phase = "inserted" /\ req[r].msg = i)
  PROVE  OpenRowsHeld'
<1> SUFFICES ASSUME NEW i \in DOMAIN messages, messages'[i].tx = "open"
             PROVE  \E q \in Requests : req'[q].phase = "inserted" /\ req'[q].msg = i
  BY DEF OpenRowsHeld
<1>1. PICK q \in Requests : req[q].phase = "inserted" /\ req[q].msg = i
  BY DEF OpenRowsHeld
<1>2. q # r
  BY <1>1
<1>3. req'[q] = req[q]
  BY <1>2 DEF TypeInv, TypeOK
<1> QED BY <1>1, <1>3

\* Every step of chat-service keeps its open rows held.
LEMMA NextOpenRowsHeld ==
  ASSUME TypeInv, OpenRowsHeld, [Next]_vars
  PROVE  OpenRowsHeld'
<1>0. /\ req \in [Requests -> Call] /\ messages \in Seq(MessageRow)
      /\ DOMAIN messages = 1..Len(messages) /\ Len(messages) \in Nat
      /\ \A i \in DOMAIN messages : messages[i] \in MessageRow
  BY DEF TypeInv, TypeOK
<1>1. ASSUME NEW r \in Requests, InsertMessage(r) PROVE OpenRowsHeld'
  <2>1. /\ DOMAIN messages' = DOMAIN messages \cup {Len(messages) + 1}
        /\ \A i \in DOMAIN messages : messages'[i] = messages[i]
    BY <1>0, <1>1 DEF InsertMessage
  <2>2. req'[r].phase = "inserted" /\ req'[r].msg = Len(messages) + 1
    BY <1>0, <1>1 DEF InsertMessage, Call
  <2>3. \A q \in Requests : req[q].phase = "inserted" => req'[q] = req[q]
    BY <1>0, <1>1 DEF InsertMessage
  <2> QED BY <2>1, <2>2, <2>3 DEF OpenRowsHeld
<1>2. ASSUME NEW r \in Requests, CommitRow(r) \/ RollbackMessage(r) PROVE OpenRowsHeld'
  <2>1. req' = [req EXCEPT ![r] = Idle] /\ DOMAIN messages' = DOMAIN messages
    BY <1>2 DEF CommitRow, RollbackMessage
  <2>2. ASSUME NEW i \in DOMAIN messages, messages'[i].tx = "open"
        PROVE  messages[i].tx = "open" /\ ~(req[r].phase = "inserted" /\ req[r].msg = i)
    <3>1. CASE req[r].phase = "inserted" /\ req[r].msg = i
      <4>1. \/ messages'[i] = [messages[i] EXCEPT !.tx = "committed"]
            \/ messages'[i] = [messages[i] EXCEPT !.tx = "rolledback"]
        BY <1>0, <1>2, <3>1 DEF CommitRow, RollbackMessage
      <4>2. messages[i] \in MessageRow
        BY <1>0
      <4> QED BY <2>2, <4>1, <4>2 DEF MessageRow
    <3>2. CASE ~(req[r].phase = "inserted" /\ req[r].msg = i)
      <4>1. messages'[i] = messages[i]
        BY <1>0, <1>2, <3>2 DEF CommitRow, RollbackMessage
      <4> QED BY <2>2, <3>2, <4>1
    <3> QED BY <3>1, <3>2
  <2> QED BY <2>1, <2>2, CallEndsOpenRows
<1>3. ASSUME NEW r \in Requests, DuplicateMessage(r) PROVE OpenRowsHeld'
  BY <1>3, CallEndsOpenRows DEF DuplicateMessage
<1>4. ASSUME NEW r \in Requests, NEW s, NEW by, NEW k,
             CheckMessage(r, s, by, k) \/ ReuseMessage(r, s, by, k)
      PROVE  OpenRowsHeld'
  <2>1. messages' = messages /\ \A q \in Requests : req[q].phase = "inserted" => req'[q] = req[q]
    BY <1>0, <1>4 DEF CheckMessage, ReuseMessage
  <2> QED BY <2>1 DEF OpenRowsHeld
<1>5. ASSUME NEW actor \in {"visitor", "agent"}, NEW upTo \in ReportableIDs, MarkMessagesRead(actor, upTo)
      PROVE  OpenRowsHeld'
  <2>1. req' = req /\ DOMAIN messages' = DOMAIN messages
        /\ \A i \in DOMAIN messages : \/ messages'[i] = messages[i]
                                      \/ messages'[i] = [messages[i] EXCEPT !.status = "read"]
    BY <1>5 DEF MarkMessagesRead
  <2>2. \A i \in DOMAIN messages : messages'[i].tx = messages[i].tx
    BY <1>0, <2>1 DEF MessageRow
  <2> QED BY <2>1, <2>2 DEF OpenRowsHeld
<1>6. CASE PublishSystemMessage /\ UNCHANGED req
  <2>1. /\ DOMAIN messages' = DOMAIN messages \cup {Len(messages) + 1}
        /\ \A i \in DOMAIN messages : messages'[i] = messages[i]
        /\ messages'[Len(messages) + 1].tx = "committed"
    BY <1>0, <1>6 DEF PublishSystemMessage, NewMessage
  <2> QED BY <1>6, <2>1 DEF OpenRowsHeld
<1>7. CASE UNCHANGED <<messages, req>>
  BY <1>7 DEF OpenRowsHeld
<1> QED
  BY <1>1, <1>2, <1>3, <1>4, <1>5, <1>6, <1>7
  DEF Next, CreateMessage, CommitMessage, CommitUnacknowledged, vars, ClaimConversation, TransferConversation,
      ConfirmTransferConversation, RejectTransferConversation, CloseConversation, AutoCloseConversation

-----------------------------------------------------------------------------
(* The latest message *)

\* A bounded set of ids that is not empty has a greatest member.
LEMMA GreatestID ==
  ASSUME NEW n \in Nat, NEW S \in SUBSET (1..n), S # {}
  PROVE  \E m \in S : \A k \in S : k <= m
<1> DEFINE less == {p \in Nat \X Nat : p[1] < p[2]}
<1> DEFINE depth == {n - m : m \in S}
<1>1. IsWellFoundedOn(less, Nat)
  BY NatLessThanWellFounded DEF OpToRel
<1>2. depth \subseteq Nat /\ depth # {}
  <2>1. \A m \in S : n - m \in Nat
    OBVIOUS
  <2>2. \E m \in S : n - m \in depth
    OBVIOUS
  <2> QED BY <2>1, <2>2
<1>3. PICK d \in depth : \A e \in depth : ~(<<e, d>> \in less)
  <2> HIDE DEF less, depth
  <2> QED BY <1>1, <1>2, WFMin
<1>4. PICK m \in S : d = n - m
  BY <1>3
<1>5. ASSUME NEW k \in S PROVE k <= m
  <2>1. n - k \in depth
    OBVIOUS
  <2>2. ~(<<n - k, n - m>> \in less)
    BY <1>3, <1>4, <2>1
  <2>3. <<n - k, n - m>> \in Nat \X Nat /\ <<n - k, n - m>>[1] = n - k /\ <<n - k, n - m>>[2] = n - m
    OBVIOUS
  <2>4. ~(n - k < n - m)
    BY <2>2, <2>3
  <2>5. k \in Int /\ m \in Int
    OBVIOUS
  <2> QED BY <2>4, <2>5
<1> QED BY <1>5

\* LatestNonSystem is the greatest id among the messages it looks at.
LEMMA LatestIsGreatest ==
  ASSUME TypeInv, LatestNonSystem # 0
  PROVE  /\ LatestNonSystem \in DOMAIN messages
         /\ \A i \in DOMAIN messages :
               Committed(i) /\ messages[i].sender # "system" => i <= LatestNonSystem
<1> DEFINE ids == {i \in DOMAIN messages : Committed(i) /\ messages[i].sender # "system"}
<1>1. LatestNonSystem = IF ids = {} THEN 0 ELSE CHOOSE i \in ids : \A j \in ids : j <= i
  BY DEF LatestNonSystem
<1>2. ids # {}
  BY <1>1
<1>3. ids \in SUBSET (1..Len(messages)) /\ Len(messages) \in Nat
  BY DEF TypeInv, TypeOK
<1>4. \E i \in ids : \A j \in ids : j <= i
  <2> HIDE DEF ids
  <2> QED BY <1>2, <1>3, GreatestID
<1>5. LatestNonSystem \in ids /\ \A j \in ids : j <= LatestNonSystem
  <2> HIDE DEF ids
  <2> QED BY <1>1, <1>2, <1>4
<1> QED BY <1>5

\* When the callback may decide, the messages that count are older than the
\* interval if the latest of them is.
LEMMA DueMeansOld ==
  ASSUME TypeInv, AutoCloseInv, RowLockFree, DueNow,
         NEW i \in DOMAIN messages, messages[i].sender # "system", messages[i].tx # "rolledback"
  PROVE  created[i] + AutoCloseAfter <= now
<1>1. messages[i].tx \in {"open", "committed", "rolledback"}
  <2>1. messages[i] \in MessageRow
    BY DEF TypeInv, TypeOK
  <2> QED BY <2>1 DEF MessageRow
<1>2. Committed(i)
  BY <1>1 DEF AutoCloseInv, OpenRowsHeld, RowLockFree, Committed
<1>3. LatestNonSystem # 0 /\ Deadline <= now
  BY DEF DueNow, LatestFromAgent
<1>4. LatestNonSystem \in DOMAIN messages /\ i <= LatestNonSystem
  BY <1>2, <1>3, LatestIsGreatest
<1>5. created[i] <= created[LatestNonSystem]
  BY <1>4 DEF AutoCloseInv, RowsTimed
<1>6. created[i] \in Nat /\ created[LatestNonSystem] \in Nat /\ AutoCloseAfter \in Nat /\ now \in Nat
  BY <1>4, AutoCloseAssumption DEF AutoCloseInv, AutoCloseTypeOK
<1> QED BY <1>3, <1>5, <1>6 DEF Deadline

-----------------------------------------------------------------------------
(* The rows of a step *)

\* What a step may do to the rows and the clock.
RowsStamped ==
    /\ [Next]_vars
    /\ StampNewRows \/ (created' = created /\ DOMAIN messages' = DOMAIN messages)
    /\ now' \in 0..MaxTime
    /\ now <= now'

\* New rows are stamped with the present time and come after the others.
LEMMA StampedRows ==
  ASSUME TypeInv, AutoCloseInv, RowsStamped
  PROVE  /\ TypeInv' /\ OpenRowsHeld' /\ RowsTimed'
         /\ created' \in [DOMAIN messages' -> 0..MaxTime]
         /\ DOMAIN messages \subseteq DOMAIN messages'
<1>0. /\ [Next]_vars /\ MaxTime \in Nat /\ now \in 0..MaxTime /\ now' \in 0..MaxTime /\ now <= now'
      /\ created \in [DOMAIN messages -> 0..MaxTime]
  BY AutoCloseAssumption DEF RowsStamped, AutoCloseInv, AutoCloseTypeOK
<1>1. TypeInv' /\ OpenRowsHeld' /\ RowsKept /\ RowsAdded
  BY <1>0, NextTypeInv, NextOpenRowsHeld, RowSteps DEF AutoCloseInv
<1>2. DOMAIN messages \subseteq DOMAIN messages'
  BY <1>1 DEF RowsKept
<1>3. created' = [i \in DOMAIN messages' |-> IF i \in DOMAIN messages THEN created[i] ELSE now]
  BY <1>0 DEF RowsStamped, StampNewRows
<1>4. created' \in [DOMAIN messages' -> 0..MaxTime]
  BY <1>0, <1>3
<1>5. \A i \in DOMAIN messages : i \in 1..Len(messages) /\ Len(messages) \in Nat
  BY DEF TypeInv, TypeOK
<1>6. \A i \in DOMAIN messages' \ DOMAIN messages : i = Len(messages) + 1
  BY <1>1 DEF RowsAdded
<1>7. \A i \in DOMAIN messages : created'[i] = created[i] /\ created[i] <= now /\ created[i] \in Nat
  BY <1>0, <1>2, <1>3 DEF AutoCloseInv, RowsTimed
<1>8. \A i \in DOMAIN messages' \ DOMAIN messages : created'[i] = now
  BY <1>3
<1>9. \A i \in DOMAIN messages' : created'[i] <= now'
  BY <1>0, <1>7, <1>8
<1>10. ASSUME NEW i \in DOMAIN messages', NEW j \in DOMAIN messages', i <= j
       PROVE  created'[i] <= created'[j]
  <2>1. CASE i \in DOMAIN messages /\ j \in DOMAIN messages
    BY <1>7, <1>10, <2>1 DEF AutoCloseInv, RowsTimed
  <2>2. CASE i \in DOMAIN messages /\ j \notin DOMAIN messages
    BY <1>7, <1>8, <2>2
  <2>3. CASE i \notin DOMAIN messages /\ j \in DOMAIN messages
    BY <1>5, <1>6, <1>10, <2>3
  <2>4. CASE i \notin DOMAIN messages /\ j \notin DOMAIN messages
    BY <1>0, <1>8, <2>4
  <2> QED BY <2>1, <2>2, <2>3, <2>4
<1> QED BY <1>1, <1>2, <1>4, <1>9, <1>10 DEF RowsTimed

\* The rest of the invariant is about the process's memory.
MemoryTrue ==
    /\ up \in BOOLEAN
    /\ timer \in Nat \cup {None}
    /\ hook \in [Requests -> Nat]
    /\ closing \in BOOLEAN
    /\ cb \in [Callbacks -> Callback]
    /\ faults \in 0..MaxFaults
    /\ crashes \in 0..MaxCrashes
    /\ overtaken \in BOOLEAN

HooksKept ==
    \A r \in Requests : hook'[r] \in {0, hook[r]} \/ hook'[r] \in DOMAIN messages

\* A step that is one of Conversation, or none, and keeps the memory well formed.
LEMMA StepKeepsInv ==
  ASSUME TypeInv, AutoCloseInv, RowsStamped, MemoryTrue', HooksKept
  PROVE  [Next]_vars /\ TypeInv' /\ AutoCloseInv'
<1>1. /\ TypeInv' /\ OpenRowsHeld' /\ RowsTimed'
      /\ created' \in [DOMAIN messages' -> 0..MaxTime]
      /\ DOMAIN messages \subseteq DOMAIN messages'
  BY StampedRows
<1>2. HooksTrue'
  BY <1>1 DEF HooksKept, HooksTrue, AutoCloseInv
<1>3. AutoCloseTypeOK'
  BY <1>1 DEF AutoCloseTypeOK, MemoryTrue, RowsStamped
<1> QED BY <1>1, <1>2, <1>3 DEF AutoCloseInv, RowsStamped

\* Steps that leave the memory alone.
LEMMA MemoryAlone ==
  ASSUME TypeInv, AutoCloseInv, [Next]_vars, UNCHANGED <<now, memory>>,
         StampNewRows \/ (created' = created /\ DOMAIN messages' = DOMAIN messages),
         up' \in BOOLEAN, faults' \in 0..MaxFaults, crashes' \in 0..MaxCrashes,
         overtaken' \in BOOLEAN
  PROVE  [Next]_vars /\ TypeInv' /\ AutoCloseInv'
<1>1. RowsStamped
  BY AutoCloseAssumption DEF RowsStamped, AutoCloseInv, AutoCloseTypeOK
<1>2. MemoryTrue' /\ HooksKept
  BY DEF AutoCloseInv, AutoCloseTypeOK, MemoryTrue, HooksKept, memory
<1> QED BY <1>1, <1>2, StepKeepsInv

\* Steps in the memory alone.
LEMMA MemoryOnly ==
  ASSUME TypeInv, AutoCloseInv, UNCHANGED <<vars, now, created>>, MemoryTrue', HooksKept
  PROVE  [Next]_vars /\ TypeInv' /\ AutoCloseInv'
<1>1. RowsStamped
  BY AutoCloseAssumption DEF RowsStamped, AutoCloseInv, AutoCloseTypeOK, vars
<1> QED BY <1>1, StepKeepsInv

-----------------------------------------------------------------------------
(* The steps *)

\* The counter of faults.
LEMMA FaultType ==
  ASSUME AutoCloseInv, Fault
  PROVE  faults' \in 0..MaxFaults
  BY AutoCloseAssumption DEF AutoCloseInv, AutoCloseTypeOK, Fault

\* A call of CreateMessage up to its commit, and the operations of agents
\* that do not close.
LEMMA ServeSteps ==
  ASSUME TypeInv, AutoCloseInv, (\E r \in Requests : BeforeCommit(r)) \/ Manage
  PROVE  [Next]_vars /\ TypeInv' /\ AutoCloseInv'
<1>1. /\ UNCHANGED <<now, up, memory, faults, crashes, overtaken>> /\ StampNewRows
  BY DEF BeforeCommit, Manage, Serve
<1>2. [Next]_vars
  BY DEF BeforeCommit, Manage, Serve, Next, CreateMessage
<1>3. up' \in BOOLEAN /\ faults' \in 0..MaxFaults /\ crashes' \in 0..MaxCrashes /\ overtaken' \in BOOLEAN
  BY <1>1 DEF AutoCloseInv, AutoCloseTypeOK
<1> QED BY <1>1, <1>2, <1>3, MemoryAlone

\* The commit, its hook to come or not, and the rollback by the server.
LEMMA CommitSteps ==
  ASSUME TypeInv, AutoCloseInv, NEW r \in Requests,
         CommitThenHook(r) \/ CommitWithoutHook(r) \/ ServerRollsBack(r)
  PROVE  [Next]_vars /\ TypeInv' /\ AutoCloseInv'
<1>1. [Next]_vars /\ created' = created /\ now' = now /\ up' = up /\ crashes' = crashes /\ overtaken' = overtaken
  BY DEF CommitThenHook, CommitWithoutHook, ServerRollsBack, Next, CreateMessage
<1>2. DOMAIN messages' = DOMAIN messages
  BY DEF CommitThenHook, CommitWithoutHook, ServerRollsBack,
         CommitMessage, CommitUnacknowledged, CommitRow, RollbackMessage
<1>3. CASE CommitThenHook(r)
  <2>1. req[r].msg \in DOMAIN messages /\ req[r].msg \in Nat
    BY <1>3 DEF CommitThenHook, CommitMessage, CommitRow, TypeInv, TypeOK, CallsConsistent
  <2>2. hook \in [Requests -> Nat] /\ hook' = [hook EXCEPT ![r] = req[r].msg]
    BY <1>3 DEF CommitThenHook, AutoCloseInv, AutoCloseTypeOK
  <2>3. HooksKept
    BY <2>1, <2>2 DEF HooksKept
  <2>4. MemoryTrue'
    BY <1>1, <1>3, <2>1, <2>2 DEF CommitThenHook, AutoCloseInv, AutoCloseTypeOK, MemoryTrue
  <2>5. RowsStamped
    BY <1>1, <1>2, AutoCloseAssumption DEF RowsStamped, AutoCloseInv, AutoCloseTypeOK
  <2> QED BY <2>3, <2>4, <2>5, StepKeepsInv
<1>4. CASE CommitWithoutHook(r) \/ ServerRollsBack(r)
  <2>1. UNCHANGED <<now, memory>> /\ faults' \in 0..MaxFaults
    BY <1>4, FaultType DEF CommitWithoutHook, ServerRollsBack, AutoCloseInv, AutoCloseTypeOK
  <2>2. up' \in BOOLEAN /\ crashes' \in 0..MaxCrashes /\ overtaken' \in BOOLEAN
    BY <1>1 DEF AutoCloseInv, AutoCloseTypeOK
  <2> QED BY <1>1, <1>2, <2>1, <2>2, MemoryAlone
<1> QED BY <1>3, <1>4

\* The hook after a commit sets the timer or drops it.
LEMMA HookStep ==
  ASSUME TypeInv, AutoCloseInv, NEW r \in Requests, OnMessageCreated(r)
  PROVE  [Next]_vars /\ TypeInv' /\ AutoCloseInv'
<1>1. UNCHANGED <<vars, now, created, up, closing, cb, faults, crashes>> /\ hook' = [hook EXCEPT ![r] = 0]
  BY DEF OnMessageCreated
<1>2. hook \in [Requests -> Nat] /\ hook[r] \in DOMAIN messages
  BY DEF OnMessageCreated, AutoCloseInv, AutoCloseTypeOK, HooksTrue
<1>3. created[hook[r]] + AutoCloseAfter \in Nat
  BY <1>2, AutoCloseAssumption DEF AutoCloseInv, AutoCloseTypeOK
<1>4. timer' \in Nat \cup {None}
  BY <1>3 DEF OnMessageCreated, HookTimer, AutoCloseInv, AutoCloseTypeOK
<1>5. MemoryTrue'
  <2>1. overtaken' \in BOOLEAN
    BY DEF OnMessageCreated, CancelsWaiting, LatestFromAgent, AutoCloseInv, AutoCloseTypeOK
  <2> QED BY <1>1, <1>2, <1>4, <2>1 DEF AutoCloseInv, AutoCloseTypeOK, MemoryTrue
<1>6. HooksKept
  BY <1>1, <1>2 DEF HooksKept
<1> QED BY <1>1, <1>5, <1>6, MemoryOnly

\* Closing by an agent, and the cancelling of the timer after it.
LEMMA CloseSteps ==
  ASSUME TypeInv, AutoCloseInv, (\E a \in Actor : Close(a)) \/ CancelAfterClose
  PROVE  [Next]_vars /\ TypeInv' /\ AutoCloseInv'
<1>1. CASE \E a \in Actor : Close(a)
  <2>1. [Next]_vars /\ UNCHANGED <<now, created, up, timer, hook, cb, faults, crashes, overtaken>> /\ closing' = TRUE
    BY <1>1 DEF Close, Next
  <2>2. messages' = messages
    BY <1>1 DEF Close, CloseConversation, vars
  <2>3. RowsStamped
    BY <2>1, <2>2, AutoCloseAssumption DEF RowsStamped, AutoCloseInv, AutoCloseTypeOK
  <2>4. MemoryTrue' /\ HooksKept
    BY <2>1 DEF AutoCloseInv, AutoCloseTypeOK, MemoryTrue, HooksKept
  <2> QED BY <2>3, <2>4, StepKeepsInv
<1>2. CASE CancelAfterClose
  <2>1. /\ UNCHANGED <<vars, now, created, up, hook, cb, faults, crashes, overtaken>>
        /\ closing' = FALSE /\ timer' = None
    BY <1>2 DEF CancelAfterClose
  <2>2. MemoryTrue' /\ HooksKept
    BY <2>1 DEF AutoCloseInv, AutoCloseTypeOK, MemoryTrue, HooksKept
  <2> QED BY <2>1, <2>2, MemoryOnly
<1> QED BY <1>1, <1>2

\* The records of a callback.
LEMMA CallbackTypes ==
  /\ Resting \in Callback
  /\ \A d \in Nat : [step |-> "schedule", at |-> d] \in Callback
  /\ \A k \in Callback : k.step = "schedule" => k.at \in Nat
  /\ \A k \in Callback : k.step # "schedule" =>
        [k EXCEPT !.step = "due"] \in Callback /\ [k EXCEPT !.step = "cancel"] \in Callback
  BY DEF Callback, Resting

\* The deadline of a conversation that waits for its visitor.
LEMMA DeadlineType ==
  ASSUME TypeInv, AutoCloseInv, LatestFromAgent
  PROVE  Deadline \in Nat
<1>1. LatestNonSystem \in DOMAIN messages
  BY LatestIsGreatest DEF LatestFromAgent
<1> QED BY <1>1, AutoCloseAssumption DEF Deadline, AutoCloseInv, AutoCloseTypeOK

\* A callback closes the conversation, and nothing else in the database.
LEMMA CallbackSteps ==
  ASSUME TypeInv, AutoCloseInv, NEW c \in Callbacks,
         FireTimer(c) \/ RunCallback(c) \/ AutoCloseFails(c)
  PROVE  [Next]_vars /\ TypeInv' /\ AutoCloseInv'
<1>0. cb \in [Callbacks -> Callback] /\ cb[c] \in Callback /\ timer \in Nat \cup {None}
  BY DEF AutoCloseInv, AutoCloseTypeOK
<1>1. UNCHANGED <<now, created, up, hook, closing, crashes, overtaken>> /\ faults' \in 0..MaxFaults
  BY FaultType DEF FireTimer, RunCallback, CloseIfDue, LookAgainLater, LeaveAlone, CallbackEnds, AutoCloseFails,
     AutoCloseInv, AutoCloseTypeOK
<1>2. [Next]_vars /\ messages' = messages
  BY DEF FireTimer, RunCallback, CloseIfDue, LookAgainLater, LeaveAlone, CallbackEnds, AutoCloseFails,
     AutoCloseConversation, Next, vars
<1>3. timer' \in Nat \cup {None}
  BY <1>0, CallbackTypes
  DEF FireTimer, RunCallback, CloseIfDue, LookAgainLater, LeaveAlone, CallbackEnds, AutoCloseFails
<1>4. cb' \in [Callbacks -> Callback]
  <2>1. CASE cb' = [cb EXCEPT ![c] = Resting]
    BY <1>0, <2>1, CallbackTypes
  <2>2. CASE FireTimer(c) \/ CloseIfDue(c)
    <3>1. cb[c].step # "schedule"
      BY <2>2 DEF FireTimer, CloseIfDue
    <3>2. [cb[c] EXCEPT !.step = "due"] \in Callback /\ [cb[c] EXCEPT !.step = "cancel"] \in Callback
      BY <1>0, <3>1, CallbackTypes
    <3>3. \/ cb' = [cb EXCEPT ![c] = [cb[c] EXCEPT !.step = "due"]]
          \/ cb' = [cb EXCEPT ![c] = [cb[c] EXCEPT !.step = "cancel"]]
      BY <1>0, <2>2 DEF FireTimer, CloseIfDue
    <3> QED BY <1>0, <3>2, <3>3
  <2>3. CASE LookAgainLater(c)
    <3>1. Deadline \in Nat /\ cb' = [cb EXCEPT ![c] = [step |-> "schedule", at |-> Deadline]]
      BY <2>3, DeadlineType DEF LookAgainLater
    <3>2. [step |-> "schedule", at |-> Deadline] \in Callback
      BY <3>1, CallbackTypes
    <3> QED BY <1>0, <3>1, <3>2
  <2> QED BY <2>1, <2>2, <2>3 DEF RunCallback, LeaveAlone, CallbackEnds, AutoCloseFails
<1>5. RowsStamped
  BY <1>1, <1>2, AutoCloseAssumption DEF RowsStamped, AutoCloseInv, AutoCloseTypeOK
<1>6. MemoryTrue' /\ HooksKept
  BY <1>1, <1>3, <1>4 DEF AutoCloseInv, AutoCloseTypeOK, MemoryTrue, HooksKept
<1> QED BY <1>5, <1>6, StepKeepsInv

\* The process dies, is started again, and time passes.
LEMMA ProcessSteps ==
  ASSUME TypeInv, AutoCloseInv, Crash \/ Restart \/ Tick
  PROVE  [Next]_vars /\ TypeInv' /\ AutoCloseInv'
<1>1. CASE Crash
  <2>1. UNCHANGED <<vars, now, created, faults, overtaken>> /\ up' = FALSE
    BY <1>1 DEF Crash
  <2>2. crashes' \in 0..MaxCrashes
    BY <1>1, AutoCloseAssumption DEF Crash, AutoCloseInv, AutoCloseTypeOK
  <2>3. /\ timer' = None /\ hook' = [r \in Requests |-> 0] /\ closing' = FALSE
        /\ cb' \in [Callbacks -> Callback]
    BY <1>1, CallbackTypes DEF Crash, EmptyMemory
  <2>4. MemoryTrue' /\ HooksKept
    BY <2>1, <2>2, <2>3 DEF AutoCloseInv, AutoCloseTypeOK, MemoryTrue, HooksKept
  <2> QED BY <2>1, <2>4, MemoryOnly
<1>2. CASE Restart
  <2>1. UNCHANGED <<now, created, hook, closing, cb, faults, crashes>> /\ up' = TRUE /\ overtaken' = FALSE
    BY <1>2 DEF Restart
  <2>2. [Next]_vars /\ messages' = messages
    BY <1>2 DEF Restart, AutoCloseConversation, Next, vars
  <2>3. timer' \in Nat \cup {None}
    BY <1>2, DeadlineType DEF Restart, AutoCloseInv, AutoCloseTypeOK
  <2>4. RowsStamped
    BY <2>1, <2>2, AutoCloseAssumption DEF RowsStamped, AutoCloseInv, AutoCloseTypeOK
  <2>5. MemoryTrue' /\ HooksKept
    BY <2>1, <2>3 DEF AutoCloseInv, AutoCloseTypeOK, MemoryTrue, HooksKept
  <2> QED BY <2>4, <2>5, StepKeepsInv
<1>3. CASE Tick
  <2>1. UNCHANGED <<vars, created, up, memory, faults, crashes, overtaken>>
    BY <1>3 DEF Tick
  <2>2. now' \in 0..MaxTime /\ now <= now'
    BY <1>3, AutoCloseAssumption DEF Tick, AutoCloseInv, AutoCloseTypeOK
  <2>3. RowsStamped
    BY <2>1, <2>2 DEF RowsStamped, vars
  <2>4. MemoryTrue' /\ HooksKept
    BY <2>1 DEF AutoCloseInv, AutoCloseTypeOK, MemoryTrue, HooksKept, memory
  <2> QED BY <2>3, <2>4, StepKeepsInv
<1> QED BY <1>1, <1>2, <1>3

-----------------------------------------------------------------------------
(* The composition *)

\* Nothing has happened yet.
LEMMA AutoCloseInitInv == AutoCloseInit => Init /\ TypeInv /\ AutoCloseInv
<1> SUFFICES ASSUME AutoCloseInit PROVE Init /\ TypeInv /\ AutoCloseInv
  OBVIOUS
<1>1. Init /\ TypeInv
  BY InitTypeInv DEF AutoCloseInit
<1>2. messages = << >> /\ DOMAIN messages = {}
  BY DEF AutoCloseInit, Init
<1>3. cb \in [Callbacks -> Callback]
  BY CallbackTypes DEF AutoCloseInit
<1>4. created \in [DOMAIN messages -> 0..MaxTime]
  BY <1>2 DEF AutoCloseInit
<1>5. AutoCloseTypeOK
  <2>1. up \in BOOLEAN /\ closing \in BOOLEAN /\ overtaken \in BOOLEAN /\ timer \in Nat \cup {None}
    BY DEF AutoCloseInit
  <2>2. now \in 0..MaxTime /\ faults \in 0..MaxFaults /\ crashes \in 0..MaxCrashes
    BY AutoCloseAssumption DEF AutoCloseInit
  <2>3. hook \in [Requests -> Nat]
    BY DEF AutoCloseInit
  <2> QED BY <1>3, <1>4, <2>1, <2>2, <2>3 DEF AutoCloseTypeOK
<1>6. RowsTimed /\ OpenRowsHeld
  BY <1>2 DEF RowsTimed, OpenRowsHeld
<1>7. HooksTrue
  BY DEF AutoCloseInit, HooksTrue
<1> QED BY <1>1, <1>5, <1>6, <1>7 DEF AutoCloseInv

\* Every step of the composition keeps the invariant, and is a step of chat-service.
LEMMA AutoCloseNextInv ==
  TypeInv /\ AutoCloseInv /\ [AutoCloseNext]_acVars => [Next]_vars /\ TypeInv' /\ AutoCloseInv'
<1> SUFFICES ASSUME TypeInv, AutoCloseInv, [AutoCloseNext]_acVars
             PROVE  [Next]_vars /\ TypeInv' /\ AutoCloseInv'
  OBVIOUS
<1>1. CASE UNCHANGED acVars
  <2>1. UNCHANGED <<vars, now, created, up, memory, faults, crashes, overtaken>>
    BY <1>1 DEF acVars
  <2>2. MemoryTrue' /\ HooksKept
    BY <2>1 DEF AutoCloseInv, AutoCloseTypeOK, MemoryTrue, HooksKept, memory
  <2> QED BY <2>1, <2>2, MemoryOnly
<1>2. CASE (\E r \in Requests : BeforeCommit(r)) \/ Manage
  BY <1>2, ServeSteps
<1>3. ASSUME NEW r \in Requests, CommitThenHook(r) \/ CommitWithoutHook(r) \/ ServerRollsBack(r)
      PROVE  [Next]_vars /\ TypeInv' /\ AutoCloseInv'
  BY <1>3, CommitSteps
<1>4. ASSUME NEW r \in Requests, OnMessageCreated(r)
      PROVE  [Next]_vars /\ TypeInv' /\ AutoCloseInv'
  BY <1>4, HookStep
<1>5. CASE (\E a \in Actor : Close(a)) \/ CancelAfterClose
  BY <1>5, CloseSteps
<1>6. ASSUME NEW c \in Callbacks, FireTimer(c) \/ RunCallback(c) \/ AutoCloseFails(c)
      PROVE  [Next]_vars /\ TypeInv' /\ AutoCloseInv'
  BY <1>6, CallbackSteps
<1>7. CASE Crash \/ Restart \/ Tick
  BY <1>7, ProcessSteps
<1> QED BY <1>1, <1>2, <1>3, <1>4, <1>5, <1>6, <1>7 DEF AutoCloseNext

\* The invariant holds in every state.
LEMMA AutoCloseInvariant == AutoCloseSpec => [](TypeInv /\ AutoCloseInv)
  BY AutoCloseInitInv, AutoCloseNextInv, PTL DEF AutoCloseSpec

(* The scheduler, its callbacks, crashes and restarts do nothing to the    *)
(* conversation that module Conversation does not allow.                   *)
THEOREM AutoCloseImplements == AutoCloseSpec => Spec
  BY AutoCloseInitInv, AutoCloseNextInv, AutoCloseInvariant, PTL DEF AutoCloseSpec, Spec

\* Only CloseIfDue and Restart close the conversation on their own, and both
\* look at the database first.
LEMMA AutomaticCloseDue ==
  ASSUME TypeInv, [AutoCloseNext]_acVars, conv.status = "open", conv'.status = "closed", ~closing'
  PROVE  RowLockFree /\ DueNow
<1>0. conv \in ConversationRow
  BY DEF TypeInv, TypeOK
<1>1. conv' # conv
  OBVIOUS
<1>2. CASE \E r \in Requests : \/ BeforeCommit(r) \/ CommitThenHook(r) \/ CommitWithoutHook(r)
                               \/ OnMessageCreated(r) \/ ServerRollsBack(r)
  BY <1>1, <1>2 DEF BeforeCommit, CommitThenHook, CommitWithoutHook, OnMessageCreated, ServerRollsBack, Serve,
     CheckMessage, ReuseMessage, InsertMessage, DuplicateMessage, CommitMessage, CommitUnacknowledged, CommitRow,
     RollbackMessage, vars
<1>3. CASE Manage
  BY <1>0, <1>3 DEF Manage, Serve, ClaimConversation, TransferConversation, ConfirmTransferConversation,
     RejectTransferConversation, ConversationRow
<1>4. CASE \E c \in Callbacks : FireTimer(c) \/ RunCallback(c) \/ AutoCloseFails(c)
  BY <1>1, <1>4 DEF FireTimer, RunCallback, CloseIfDue, LookAgainLater, LeaveAlone, CallbackEnds, AutoCloseFails,
     AutoCloseConversation, vars
<1>5. CASE (\E a \in Actor : Close(a)) \/ CancelAfterClose \/ Crash \/ Tick \/ UNCHANGED acVars
  BY <1>1, <1>5 DEF Close, CancelAfterClose, Crash, Tick, acVars, vars
<1>6. CASE Restart
  BY <1>1, <1>6 DEF Restart, AutoCloseConversation, vars
<1> QED BY <1>2, <1>3, <1>4, <1>5, <1>6 DEF AutoCloseNext

(* An automatic close leaves no message of a visitor, an agent or the      *)
(* machine, committed or still in its transaction, that is younger than    *)
(* the interval, however late the timer fires, in whichever order hooks    *)
(* and callbacks run, and whatever is written or crashes meanwhile.        *)
THEOREM NoConversationClosedEarly == AutoCloseSpec => NoEarlyAutoClose
<1>1. TypeInv /\ AutoCloseInv /\ [AutoCloseNext]_acVars =>
        [conv.status = "open" /\ conv'.status = "closed" /\ ~closing' =>
            \A i \in DOMAIN messages :
               messages[i].sender # "system" /\ messages[i].tx # "rolledback" =>
                  created[i] + AutoCloseAfter <= now]_acVars
  BY AutomaticCloseDue, DueMeansOld
<1> QED BY <1>1, AutoCloseInvariant, PTL DEF AutoCloseSpec, NoEarlyAutoClose

-----------------------------------------------------------------------------
(* A conversation that waits is timed *)

\* The messages that LatestNonSystem looks at.
Counted == {i \in DOMAIN messages : Committed(i) /\ messages[i].sender # "system"}

\* A hook is pending only between calls, and for a committed message.
HooksAfterCalls ==
    \A r \in Requests : hook[r] # 0 => req[r].phase = "idle" /\ messages[hook[r]].tx = "committed"

\* A later look is never planned beyond the deadline.
LooksTimely ==
    \A c \in Callbacks : cb[c].step = "schedule" => LatestNonSystem # 0 /\ cb[c].at <= Deadline

\* The timer is cancelled after a close only.
CancelsAfterClose ==
    closing \/ (\E c \in Callbacks : cb[c].step = "cancel") => conv.status = "closed"

\* A process that is down has no memory.
DeadForgets ==
    ~up => /\ ~closing
           /\ \A r \in Requests : hook[r] = 0
           /\ \A c \in Callbacks : cb[c] = Resting

\* Something will look at the conversation by its deadline.
Covered ==
    \/ timer # None /\ timer <= Deadline
    \/ \E c \in Callbacks : cb[c].step \in {"due", "schedule"}

WaitingCovered ==
    up /\ faults = 0 /\ ~overtaken /\ conv.status = "open" /\ LatestFromAgent
       /\ (\A r \in Requests : hook[r] # LatestNonSystem) => Covered

TimerInv ==
    HooksAfterCalls /\ LooksTimely /\ CancelsAfterClose /\ DeadForgets /\ WaitingCovered

\* LatestNonSystem depends on the set of messages that count, and on nothing else.
LEMMA LatestOfCounted ==
  /\ LatestNonSystem = IF Counted = {} THEN 0 ELSE CHOOSE i \in Counted : \A j \in Counted : j <= i
  /\ LatestNonSystem' = IF Counted' = {} THEN 0 ELSE CHOOSE i \in Counted' : \A j \in Counted' : j <= i
  BY DEF LatestNonSystem, Counted, Committed

\* The latest message is one of those that count.
LEMMA LatestCounts ==
  ASSUME TypeInv, LatestNonSystem # 0
  PROVE  LatestNonSystem \in Counted /\ LatestNonSystem \in DOMAIN messages
<1>1. Counted # {} /\ LatestNonSystem = CHOOSE i \in Counted : \A j \in Counted : j <= i
  BY LatestOfCounted
<1>2. Counted \in SUBSET (1..Len(messages)) /\ Len(messages) \in Nat
  BY DEF TypeInv, TypeOK, Counted
<1>3. \E i \in Counted : \A j \in Counted : j <= i
  BY <1>1, <1>2, GreatestID
<1> QED BY <1>1, <1>3, LatestIsGreatest

\* Time stamps stay.
StampsKept == \A i \in DOMAIN messages : created'[i] = created[i]

\* While the messages that count stay the same, so do the latest and its deadline.
LEMMA LatestKept ==
  ASSUME TypeInv, RowsKept, StampsKept, Counted' = Counted
  PROVE  /\ LatestNonSystem' = LatestNonSystem
         /\ LatestFromAgent' <=> LatestFromAgent
         /\ LatestNonSystem # 0 => Deadline' = Deadline
<1>1. LatestNonSystem' = LatestNonSystem
  BY LatestOfCounted
<1>2. LatestNonSystem # 0 => LatestNonSystem \in DOMAIN messages
  BY LatestIsGreatest
<1>3. LatestNonSystem # 0 =>
        /\ messages'[LatestNonSystem].sender = messages[LatestNonSystem].sender
        /\ created'[LatestNonSystem] = created[LatestNonSystem]
  BY <1>2 DEF RowsKept, StampsKept
<1>4. LatestFromAgent' <=> LatestFromAgent
  BY <1>1, <1>3 DEF LatestFromAgent
<1>5. LatestNonSystem # 0 => Deadline' = Deadline
  BY <1>1, <1>3 DEF Deadline
<1> QED BY <1>1, <1>4, <1>5

\* Only a commit changes which messages count.
LEMMA CountedKept ==
  ASSUME TypeInv, [Next]_vars, \A r \in Requests : ~CommitRow(r)
  PROVE  Counted' = Counted
<1>0. /\ req \in [Requests -> Call] /\ messages \in Seq(MessageRow)
      /\ DOMAIN messages = 1..Len(messages) /\ Len(messages) \in Nat
      /\ \A i \in DOMAIN messages : messages[i] \in MessageRow
  BY DEF TypeInv, TypeOK
<1>1. ASSUME NEW r \in Requests, InsertMessage(r) PROVE Counted' = Counted
  <2>1. /\ DOMAIN messages' = DOMAIN messages \cup {Len(messages) + 1}
        /\ \A i \in DOMAIN messages : messages'[i] = messages[i]
        /\ messages'[Len(messages) + 1].tx = "open"
    BY <1>0, <1>1 DEF InsertMessage, NewMessage
  <2> QED BY <2>1 DEF Counted, Committed
<1>2. ASSUME NEW r \in Requests, RollbackMessage(r) PROVE Counted' = Counted
  <2>1. CASE req[r].phase = "inserted"
    <3>1. req[r].msg \in DOMAIN messages /\ messages[req[r].msg].tx = "open"
      BY <2>1 DEF TypeInv, CallsConsistent
    <3>2. /\ DOMAIN messages' = DOMAIN messages
          /\ \A i \in DOMAIN messages : i # req[r].msg => messages'[i] = messages[i]
          /\ messages'[req[r].msg] = [messages[req[r].msg] EXCEPT !.tx = "rolledback"]
      BY <1>0, <1>2, <2>1, <3>1 DEF RollbackMessage
    <3>3. messages'[req[r].msg].tx = "rolledback"
      <4>1. messages[req[r].msg] \in MessageRow
        BY <1>0, <3>1
      <4> QED BY <3>2, <4>1 DEF MessageRow
    <3>4. \A i \in DOMAIN messages : (messages'[i].tx = "committed" /\ messages'[i].sender # "system")
                                     <=> (messages[i].tx = "committed" /\ messages[i].sender # "system")
      BY <3>1, <3>2, <3>3
    <3> QED BY <3>2, <3>4 DEF Counted, Committed
  <2>2. CASE req[r].phase # "inserted"
    BY <1>2, <2>2 DEF RollbackMessage, Counted, Committed
  <2> QED BY <2>1, <2>2
<1>3. ASSUME NEW actor \in {"visitor", "agent"}, NEW upTo \in ReportableIDs, MarkMessagesRead(actor, upTo)
      PROVE  Counted' = Counted
  <2>1. DOMAIN messages' = DOMAIN messages
        /\ \A i \in DOMAIN messages : \/ messages'[i] = messages[i]
                                      \/ messages'[i] = [messages[i] EXCEPT !.status = "read"]
    BY <1>3 DEF MarkMessagesRead
  <2>2. \A i \in DOMAIN messages : messages'[i].tx = messages[i].tx /\ messages'[i].sender = messages[i].sender
    BY <1>0, <2>1 DEF MessageRow
  <2> QED BY <2>1, <2>2 DEF Counted, Committed
<1>4. CASE PublishSystemMessage
  <2>1. /\ DOMAIN messages' = DOMAIN messages \cup {Len(messages) + 1}
        /\ \A i \in DOMAIN messages : messages'[i] = messages[i]
        /\ messages'[Len(messages) + 1].sender = "system"
    BY <1>0, <1>4 DEF PublishSystemMessage, NewMessage
  <2> QED BY <2>1 DEF Counted, Committed
<1>5. CASE messages' = messages
  BY <1>5 DEF Counted, Committed
<1>6. ASSUME NEW r \in Requests, NEW s, NEW by, NEW k,
             CheckMessage(r, s, by, k) \/ ReuseMessage(r, s, by, k) \/ DuplicateMessage(r)
      PROVE  Counted' = Counted
  <2>1. messages' = messages
    BY <1>6 DEF CheckMessage, ReuseMessage, DuplicateMessage
  <2> QED BY <1>5, <2>1
<1>7. \A r \in Requests : ~CommitMessage(r) /\ ~CommitUnacknowledged(r)
  BY DEF CommitMessage, CommitUnacknowledged
<1>8. CASE \/ \E agent \in Agents : ClaimConversation(agent)
           \/ \E a \in Actor, to \in Agents : TransferConversation(a, to)
           \/ \E a \in Actor : \/ ConfirmTransferConversation(a) \/ RejectTransferConversation(a)
                              \/ CloseConversation(a)
           \/ AutoCloseConversation
  <2>1. ASSUME NEW a, ClaimConversation(a) \/ CloseConversation(a)
        PROVE  messages' = messages
    BY <2>1 DEF ClaimConversation, CloseConversation
  <2>2. ASSUME NEW a, NEW to, \/ TransferConversation(a, to) \/ ConfirmTransferConversation(a)
                              \/ RejectTransferConversation(a)
        PROVE  PublishSystemMessage
    BY <2>2 DEF TransferConversation, ConfirmTransferConversation, RejectTransferConversation
  <2>3. AutoCloseConversation => messages' = messages
    BY DEF AutoCloseConversation
  <2> QED BY <1>4, <1>5, <1>8, <2>1, <2>2, <2>3
<1> QED BY <1>1, <1>2, <1>3, <1>5, <1>6, <1>7, <1>8 DEF Next, CreateMessage, vars

\* A commit adds its message to those that count, unless it is a system message.
LEMMA CommitCounted ==
  ASSUME TypeInv, NEW r \in Requests, CommitRow(r)
  PROVE  /\ req[r].msg \in DOMAIN messages
         /\ messages'[req[r].msg].sender = messages[req[r].msg].sender
         /\ Counted' = IF messages[req[r].msg].sender = "system" THEN Counted ELSE Counted \cup {req[r].msg}
<1>1. req[r].msg \in DOMAIN messages /\ messages[req[r].msg].tx = "open"
  BY DEF CommitRow, TypeInv, CallsConsistent
<1>2. messages[req[r].msg] \in MessageRow
  BY <1>1 DEF TypeInv, TypeOK
<1>3. /\ DOMAIN messages' = DOMAIN messages
      /\ \A i \in DOMAIN messages : i # req[r].msg => messages'[i] = messages[i]
      /\ messages'[req[r].msg] = [messages[req[r].msg] EXCEPT !.tx = "committed"]
  BY <1>1 DEF CommitRow, TypeInv, TypeOK
<1>4. /\ messages'[req[r].msg].tx = "committed"
      /\ messages'[req[r].msg].sender = messages[req[r].msg].sender
  BY <1>2, <1>3 DEF MessageRow
<1>5. \A i \in DOMAIN messages' : (messages'[i].tx = "committed" /\ messages'[i].sender # "system") <=>
         \/ messages[i].tx = "committed" /\ messages[i].sender # "system"
         \/ i = req[r].msg /\ messages[i].sender # "system"
  BY <1>1, <1>3, <1>4
<1>6. Counted \subseteq DOMAIN messages /\ Counted' \subseteq DOMAIN messages'
  BY DEF Counted
<1>7. \A i \in DOMAIN messages : i \in Counted <=> messages[i].tx = "committed" /\ messages[i].sender # "system"
  BY DEF Counted, Committed
<1>8. \A i \in DOMAIN messages' : i \in Counted' <=> messages'[i].tx = "committed" /\ messages'[i].sender # "system"
  BY DEF Counted, Committed
<1>9. \A i \in DOMAIN messages : i \in Counted' <=>
         i \in Counted \/ (i = req[r].msg /\ messages[i].sender # "system")
  BY <1>3, <1>5, <1>7, <1>8
<1> QED BY <1>1, <1>3, <1>4, <1>6, <1>9

\* A step keeps the time stamps of the rows.
LEMMA StampsStay ==
  ASSUME TypeInv, RowsKept, StampNewRows \/ created' = created
  PROVE  StampsKept
  BY DEF StampNewRows, StampsKept, RowsKept

\* The parts of TimerInv about the memory, for a step that neither commits a
\* message, nor changes the status of the conversation, nor touches the memory.
LEMMA MemoryTimed ==
  ASSUME TypeInv, TimerInv, RowsKept, StampsKept, Counted' = Counted,
         conv'.status = conv.status, UNCHANGED <<up, memory, faults, overtaken>>
  PROVE  LooksTimely' /\ CancelsAfterClose' /\ DeadForgets' /\ WaitingCovered'
<1>1. /\ LatestNonSystem' = LatestNonSystem
      /\ LatestFromAgent' <=> LatestFromAgent
      /\ LatestNonSystem # 0 => Deadline' = Deadline
  BY LatestKept
<1>2. timer' = timer /\ hook' = hook /\ closing' = closing /\ cb' = cb /\ up' = up /\ faults' = faults
  BY DEF memory
<1>3. LooksTimely'
  BY <1>1, <1>2 DEF TimerInv, LooksTimely
<1>4. CancelsAfterClose' /\ DeadForgets'
  BY <1>2 DEF TimerInv, CancelsAfterClose, DeadForgets
<1>5. LatestFromAgent => (Covered => Covered')
  BY <1>1, <1>2 DEF Covered, LatestFromAgent
<1>6. WaitingCovered'
  BY <1>1, <1>2, <1>5 DEF TimerInv, WaitingCovered
<1> QED BY <1>3, <1>4, <1>6

\* The hooks that wait, after a step that leaves their calls idle.
LEMMA HooksWait ==
  ASSUME AutoCloseInv, TimerInv, RowsKept,
         \A q \in Requests : hook'[q] # 0 => hook'[q] = hook[q] /\ req'[q].phase = "idle"
  PROVE  HooksAfterCalls'
<1>1. ASSUME NEW q \in Requests, hook'[q] # 0
      PROVE  messages'[hook'[q]].tx = "committed"
  <2>1. hook'[q] = hook[q] /\ hook[q] \in DOMAIN messages /\ messages[hook[q]].tx = "committed"
    BY <1>1 DEF AutoCloseInv, HooksTrue, TimerInv, HooksAfterCalls
  <2> QED BY <2>1 DEF RowsKept
<1> QED BY <1>1 DEF HooksAfterCalls

\* A call of CreateMessage up to its commit.
LEMMA BeforeCommitTimed ==
  ASSUME TypeInv, AutoCloseInv, TimerInv, NEW r \in Requests, BeforeCommit(r)
  PROVE  TimerInv'
<1>0. /\ req \in [Requests -> Call] /\ hook \in [Requests -> Nat]
      /\ DOMAIN messages = 1..Len(messages) /\ Len(messages) \in Nat
  BY DEF TypeInv, TypeOK, AutoCloseInv, AutoCloseTypeOK
<1>1. /\ UNCHANGED <<now, up, memory, faults, crashes, overtaken>> /\ StampNewRows /\ hook[r] = 0
  BY DEF BeforeCommit, Serve
<1>2. [Next]_vars
  BY DEF BeforeCommit, Serve, Next, CreateMessage
<1>3. \/ \E s, by, k : CheckMessage(r, s, by, k) \/ ReuseMessage(r, s, by, k)
      \/ InsertMessage(r) \/ DuplicateMessage(r) \/ RollbackMessage(r)
  BY DEF BeforeCommit, Serve
<1>4. /\ conv' = conv
      /\ \A q \in Requests : q # r => req'[q] = req[q]
      /\ \/ req'[r].phase # "inserted"
         \/ req'[r] = req[r]
         \/ req'[r].msg = Len(messages) + 1
  <2>1. ASSUME NEW s, NEW by, NEW k, CheckMessage(r, s, by, k)
        PROVE  conv' = conv /\ (\A q \in Requests : q # r => req'[q] = req[q]) /\ req'[r].phase # "inserted"
    BY <1>0, <2>1 DEF CheckMessage
  <2>2. ASSUME NEW s, NEW by, NEW k, ReuseMessage(r, s, by, k)
        PROVE  conv' = conv /\ req' = req
    BY <2>2 DEF ReuseMessage
  <2>3. CASE InsertMessage(r)
    BY <1>0, <2>3 DEF InsertMessage, Call
  <2>4. CASE DuplicateMessage(r) \/ RollbackMessage(r)
    BY <1>0, <2>4 DEF DuplicateMessage, RollbackMessage, Idle
  <2> QED BY <1>3, <2>1, <2>2, <2>3, <2>4
<1>5. \A q \in Requests : ~CommitRow(q)
  <2>1. SUFFICES ASSUME NEW q \in Requests, CommitRow(q) PROVE FALSE
    OBVIOUS
  <2>2. req[q].phase = "inserted" /\ req' = [req EXCEPT ![q] = Idle] /\ outbox' # outbox
    BY <2>1 DEF CommitRow, TypeInv, TypeOK, MessageNew
  <2>3. outbox' = outbox
    BY <1>3 DEF CheckMessage, ReuseMessage, InsertMessage, DuplicateMessage, RollbackMessage
  <2> QED BY <2>2, <2>3
<1>6. Counted' = Counted /\ RowsKept /\ StampsKept
  BY <1>1, <1>2, <1>5, CountedKept, RowSteps, StampsStay
<1>7. LooksTimely' /\ CancelsAfterClose' /\ DeadForgets' /\ WaitingCovered'
  BY <1>1, <1>4, <1>6, MemoryTimed
<1>8. HooksAfterCalls'
  <2>1. \A q \in Requests : hook'[q] # 0 => hook'[q] = hook[q] /\ req'[q].phase = "idle"
    BY <1>1, <1>4 DEF memory, TimerInv, HooksAfterCalls
  <2> QED BY <1>6, <2>1, HooksWait
<1> QED BY <1>7, <1>8 DEF TimerInv

\* The operations of agents that do not close.
LEMMA ManageTimed ==
  ASSUME TypeInv, AutoCloseInv, TimerInv, Manage
  PROVE  TimerInv'
<1>1. UNCHANGED <<now, up, memory, faults, crashes, overtaken>> /\ StampNewRows /\ [Next]_vars
  BY DEF Manage, Serve, Next
<1>2. /\ req' = req
      /\ conv'.status = conv.status
  <2>1. conv \in ConversationRow
    BY DEF TypeInv, TypeOK
  <2>2. ASSUME NEW a, NEW to, \/ ClaimConversation(a) \/ TransferConversation(a, to)
                              \/ ConfirmTransferConversation(a) \/ RejectTransferConversation(a)
        PROVE  req' = req /\ conv'.status = conv.status
    BY <2>1, <2>2 DEF ClaimConversation, TransferConversation, ConfirmTransferConversation,
       RejectTransferConversation, ConversationRow
  <2> QED BY <2>2 DEF Manage, Serve
<1>3. \A q \in Requests : ~CommitRow(q)
  <2>1. SUFFICES ASSUME NEW q \in Requests, CommitRow(q) PROVE FALSE
    OBVIOUS
  <2>2. req[q].phase = "inserted" /\ req'[q].phase = "idle"
    BY <2>1 DEF CommitRow, Idle, TypeInv, TypeOK
  <2> QED BY <1>2, <2>2
<1>4. Counted' = Counted /\ RowsKept /\ StampsKept
  BY <1>1, <1>3, CountedKept, RowSteps, StampsStay
<1>5. LooksTimely' /\ CancelsAfterClose' /\ DeadForgets' /\ WaitingCovered'
  BY <1>1, <1>2, <1>4, MemoryTimed
<1>6. \A q \in Requests : hook'[q] # 0 => hook'[q] = hook[q] /\ req'[q].phase = "idle"
  BY <1>1, <1>2 DEF memory, TimerInv, HooksAfterCalls
<1>7. HooksAfterCalls'
  BY <1>4, <1>6, HooksWait
<1> QED BY <1>5, <1>7 DEF TimerInv

\* The message that a commit adds becomes the latest, or the latest stays.
LEMMA CommittedOrLatest ==
  ASSUME TypeInv, TypeInv', NEW r \in Requests, CommitRow(r), messages[req[r].msg].sender # "system"
  PROVE  /\ LatestNonSystem' \in DOMAIN messages' /\ LatestNonSystem' # 0
         /\ LatestNonSystem # 0 => LatestNonSystem <= LatestNonSystem'
         /\ LatestNonSystem' = req[r].msg \/ LatestNonSystem' = LatestNonSystem
<1>1. req[r].msg \in DOMAIN messages /\ Counted' = Counted \cup {req[r].msg}
  BY CommitCounted
<1>2. DOMAIN messages = 1..Len(messages) /\ Len(messages) \in Nat /\ DOMAIN messages' = DOMAIN messages
  BY DEF TypeInv, TypeOK, CommitRow
<1>3. Counted \subseteq DOMAIN messages
  BY DEF Counted
<1>4. PICK m \in Counted' : \A j \in Counted' : j <= m
  <2>1. Counted' \in SUBSET (1..Len(messages)) /\ Counted' # {}
    BY <1>1, <1>2, <1>3
  <2> QED BY <1>2, <2>1, GreatestID
<1>5. LatestNonSystem' = CHOOSE i \in Counted' : \A j \in Counted' : j <= i
  BY <1>1, LatestOfCounted
<1>6. LatestNonSystem' \in Counted' /\ \A j \in Counted' : j <= LatestNonSystem'
  BY <1>4, <1>5
<1>7. LatestNonSystem' \in DOMAIN messages' /\ LatestNonSystem' # 0
  BY <1>1, <1>2, <1>3, <1>6
<1>8. LatestNonSystem # 0 => LatestNonSystem \in Counted
  BY LatestCounts
<1>9. LatestNonSystem # 0 => LatestNonSystem <= LatestNonSystem'
  BY <1>1, <1>6, <1>8
<1>10. ASSUME LatestNonSystem' # req[r].msg PROVE LatestNonSystem' = LatestNonSystem
  <2>1. LatestNonSystem' \in Counted
    BY <1>1, <1>6, <1>10
  <2>2. LatestNonSystem = CHOOSE i \in Counted : \A j \in Counted : j <= i
    BY <2>1, LatestOfCounted
  <2>3. \A j \in Counted : j <= LatestNonSystem'
    BY <1>1, <1>6
  <2>4. LatestNonSystem \in Counted /\ \A j \in Counted : j <= LatestNonSystem
    BY <2>1, <2>2, <2>3
  <2>5. LatestNonSystem' <= LatestNonSystem /\ LatestNonSystem <= LatestNonSystem'
    BY <2>1, <2>3, <2>4
  <2>6. LatestNonSystem \in Int /\ LatestNonSystem' \in Int
    BY <1>2, <1>3, <2>1, <2>4
  <2> QED BY <2>5, <2>6
<1> QED BY <1>7, <1>9, <1>10

\* A commit leaves a hook behind or counts as a fault, unless a newer message
\* has been committed before it; then the hooks and timers are those of that one.
LEMMA CommitTimed ==
  ASSUME TypeInv, AutoCloseInv, TimerInv, TypeInv', NEW r \in Requests,
         CommitThenHook(r) \/ CommitWithoutHook(r)
  PROVE  TimerInv'
<1>0. /\ req \in [Requests -> Call] /\ hook \in [Requests -> Nat]
      /\ DOMAIN messages = 1..Len(messages) /\ faults \in Nat
  BY DEF TypeInv, TypeOK, AutoCloseInv, AutoCloseTypeOK
<1>1. /\ CommitRow(r) /\ UNCHANGED <<now, created, up, timer, closing, cb, crashes, overtaken>> /\ up
      /\ conv' = conv /\ req' = [req EXCEPT ![r] = Idle] /\ req[r].phase = "inserted"
  BY DEF CommitThenHook, CommitWithoutHook, CommitMessage, CommitUnacknowledged, CommitRow, memory
<1>2. req'[r].phase = "idle" /\ \A q \in Requests : q # r => req'[q] = req[q]
  BY <1>0, <1>1 DEF Idle
<1>3. hook[r] = 0
  BY <1>1 DEF TimerInv, HooksAfterCalls
<1>4. /\ \A q \in Requests : q # r => hook'[q] = hook[q]
      /\ hook'[r] = IF CommitThenHook(r) THEN req[r].msg ELSE 0
  BY <1>0, <1>3 DEF CommitThenHook, CommitWithoutHook, memory
<1>5. CancelsAfterClose' /\ DeadForgets'
  BY <1>1 DEF TimerInv, CancelsAfterClose, DeadForgets
<1>6. /\ RowsKept /\ StampsKept
  <2>1. [Next]_vars
    BY DEF CommitThenHook, CommitWithoutHook, Next, CreateMessage
  <2>2. RowsKept
    BY <2>1, RowSteps
  <2> QED BY <1>1, <2>2, StampsStay
<1>7. /\ req[r].msg \in DOMAIN messages
      /\ messages'[req[r].msg].sender = messages[req[r].msg].sender
      /\ Counted' = IF messages[req[r].msg].sender = "system" THEN Counted ELSE Counted \cup {req[r].msg}
  BY <1>1, CommitCounted
<1>8. HooksAfterCalls'
  <2>1. messages'[req[r].msg].tx = "committed"
    <3>1. messages[req[r].msg] \in MessageRow
      BY <1>7 DEF TypeInv, TypeOK
    <3>2. messages'[req[r].msg] = [messages[req[r].msg] EXCEPT !.tx = "committed"]
      BY <1>1, <1>7 DEF CommitRow
    <3> QED BY <3>1, <3>2 DEF MessageRow
  <2>2. ASSUME NEW q \in Requests, q # r, hook'[q] # 0
        PROVE  req'[q].phase = "idle" /\ messages'[hook'[q]].tx = "committed"
    <3>1. hook[q] \in DOMAIN messages /\ messages[hook[q]].tx = "committed" /\ req[q].phase = "idle"
      BY <1>4, <2>2 DEF AutoCloseInv, HooksTrue, TimerInv, HooksAfterCalls
    <3> QED BY <1>2, <1>4, <1>6, <2>2, <3>1 DEF RowsKept
  <2> QED BY <1>2, <1>4, <2>1, <2>2 DEF HooksAfterCalls
<1>9. CASE messages[req[r].msg].sender = "system"
  <2>1. Counted' = Counted
    BY <1>7, <1>9
  <2>2. /\ LatestNonSystem' = LatestNonSystem
        /\ LatestFromAgent' <=> LatestFromAgent
        /\ LatestNonSystem # 0 => Deadline' = Deadline
    BY <1>6, <2>1, LatestKept
  <2>3. LooksTimely'
    BY <1>1, <2>2 DEF TimerInv, LooksTimely
  <2>4. LatestFromAgent => (Covered => Covered')
    BY <1>1, <2>2 DEF Covered, LatestFromAgent
  <2>5. LatestFromAgent /\ (\A q \in Requests : hook'[q] # LatestNonSystem')
          => \A q \in Requests : hook[q] # LatestNonSystem
    BY <1>3, <1>4, <2>2 DEF LatestFromAgent
  <2>6. faults' = 0 => faults = 0
    BY <1>0 DEF CommitThenHook, CommitWithoutHook, Fault
  <2>7. WaitingCovered'
    BY <1>1, <2>2, <2>4, <2>5, <2>6 DEF TimerInv, WaitingCovered
  <2> QED BY <1>5, <1>8, <2>3, <2>7 DEF TimerInv
<1>10. CASE messages[req[r].msg].sender # "system"
  <2>1. /\ LatestNonSystem' \in DOMAIN messages /\ LatestNonSystem' # 0
        /\ LatestNonSystem # 0 => LatestNonSystem <= LatestNonSystem'
        /\ LatestNonSystem' = req[r].msg \/ LatestNonSystem' = LatestNonSystem
    <3>1. DOMAIN messages' = DOMAIN messages
      BY <1>1 DEF CommitRow
    <3> QED BY <1>1, <1>10, <3>1, CommittedOrLatest
  <2>2. LooksTimely'
    <3>1. SUFFICES ASSUME NEW c \in Callbacks, cb[c].step = "schedule"
                   PROVE  cb[c].at <= Deadline'
      BY <1>1, <2>1 DEF LooksTimely
    <3>2. LatestNonSystem # 0 /\ cb[c].at <= Deadline
      BY <3>1 DEF TimerInv, LooksTimely
    <3>3. LatestNonSystem \in DOMAIN messages
      BY <3>2, LatestCounts
    <3>4. PICK n \in DOMAIN messages : n = LatestNonSystem'
      BY <2>1
    <3>5. created[LatestNonSystem] <= created[n]
      BY <1>0, <2>1, <3>2, <3>3, <3>4 DEF AutoCloseInv, RowsTimed
    <3>6. /\ created[LatestNonSystem] \in Nat /\ created[n] \in Nat /\ AutoCloseAfter \in Nat
      BY <3>3, <3>4, AutoCloseAssumption DEF AutoCloseInv, AutoCloseTypeOK
    <3>7. cb[c].at \in Nat
      BY <3>1, CallbackTypes DEF AutoCloseInv, AutoCloseTypeOK
    <3>8. Deadline' = created[n] + AutoCloseAfter
      BY <1>1, <3>4 DEF Deadline
    <3> QED BY <3>2, <3>5, <3>6, <3>7, <3>8 DEF Deadline
  <2>3. WaitingCovered'
    <3>1. SUFFICES ASSUME CommitThenHook(r), faults = 0, ~overtaken, conv.status = "open", LatestFromAgent',
                          \A q \in Requests : hook'[q] # LatestNonSystem'
                   PROVE  Covered'
      BY <1>0, <1>1 DEF CommitThenHook, CommitWithoutHook, Fault, WaitingCovered
    <3>2. LatestNonSystem' = LatestNonSystem /\ LatestNonSystem # 0
      BY <1>4, <2>1, <3>1
    <3>3. LatestNonSystem \in DOMAIN messages
      BY <3>2, LatestCounts
    <3>4. messages'[LatestNonSystem].sender = messages[LatestNonSystem].sender
      BY <1>6, <3>3 DEF RowsKept
    <3>5. LatestFromAgent /\ Deadline' = Deadline
      BY <1>1, <3>1, <3>2, <3>4 DEF LatestFromAgent, Deadline
    <3>6. \A q \in Requests : hook[q] # LatestNonSystem
      BY <1>3, <1>4, <3>1, <3>2
    <3>7. Covered
      BY <1>1, <3>1, <3>5, <3>6 DEF TimerInv, WaitingCovered
    <3> QED BY <1>1, <3>5, <3>7 DEF Covered
  <2> QED BY <1>5, <1>8, <2>2, <2>3 DEF TimerInv
<1> QED BY <1>9, <1>10

\* What a step in the memory alone leaves as it was.
LEMMA DatabaseAlone ==
  ASSUME TypeInv, UNCHANGED <<messages, created>>
  PROVE  /\ Counted' = Counted /\ RowsKept /\ StampsKept
         /\ LatestNonSystem' = LatestNonSystem
         /\ LatestFromAgent' <=> LatestFromAgent
         /\ Deadline' = Deadline
<1>1. Counted' = Counted /\ RowsKept /\ StampsKept
  BY DEF Counted, Committed, RowsKept, StampsKept
<1>2. LatestNonSystem' = LatestNonSystem /\ (LatestFromAgent' <=> LatestFromAgent)
  BY <1>1, LatestKept
<1> QED BY <1>1, <1>2 DEF Deadline

\* The hook of an agent's message sets a timer no later than the deadline; that
\* of a visitor's message drops it because the conversation does not wait for
\* its visitor, or overtakes the hook of a newer message.
LEMMA HookTimed ==
  ASSUME TypeInv, AutoCloseInv, TimerInv, NEW r \in Requests, OnMessageCreated(r)
  PROVE  TimerInv'
<1>0. hook \in [Requests -> Nat] /\ hook[r] \in DOMAIN messages /\ hook[r] # 0
  BY DEF OnMessageCreated, AutoCloseInv, AutoCloseTypeOK, HooksTrue
<1>1. /\ UNCHANGED <<vars, now, created, up, closing, cb, faults, crashes>>
      /\ up /\ hook' = [hook EXCEPT ![r] = 0] /\ timer' = HookTimer(hook[r])
      /\ overtaken' = CancelsWaiting(hook[r])
  BY DEF OnMessageCreated
<1>2. UNCHANGED <<conv, messages, req>>
  BY <1>1 DEF vars
<1>3. /\ Counted' = Counted /\ RowsKept /\ StampsKept /\ LatestNonSystem' = LatestNonSystem
      /\ (LatestFromAgent' <=> LatestFromAgent) /\ Deadline' = Deadline
  BY <1>1, <1>2, DatabaseAlone
<1>4. HooksAfterCalls'
  <2>1. \A q \in Requests : hook'[q] # 0 => hook'[q] = hook[q] /\ req'[q].phase = "idle"
    BY <1>0, <1>1, <1>2 DEF TimerInv, HooksAfterCalls
  <2> QED BY <1>3, <2>1, HooksWait
<1>5. LooksTimely'
  BY <1>1, <1>3 DEF TimerInv, LooksTimely
<1>6. CancelsAfterClose' /\ DeadForgets'
  BY <1>1, <1>2 DEF TimerInv, CancelsAfterClose, DeadForgets
<1>7. WaitingCovered'
  <2>1. SUFFICES ASSUME faults = 0, ~overtaken', conv.status = "open", LatestFromAgent,
                        \A q \in Requests : hook'[q] # LatestNonSystem
                 PROVE  Covered'
    BY <1>1, <1>2, <1>3 DEF WaitingCovered
  <2>2. LatestNonSystem # 0 /\ messages[LatestNonSystem].sender = "agent"
    BY <2>1 DEF LatestFromAgent
  <2>3. CASE messages[hook[r]].sender = "agent"
    <3>1. timer' = created[hook[r]] + AutoCloseAfter
      BY <1>1, <2>3 DEF HookTimer
    <3>2. hook[r] <= LatestNonSystem /\ LatestNonSystem \in DOMAIN messages
      <4>1. Committed(hook[r])
        BY <1>0 DEF TimerInv, HooksAfterCalls, Committed
      <4> QED BY <1>0, <2>2, <2>3, <4>1, LatestIsGreatest
    <3>3. created[hook[r]] <= created[LatestNonSystem]
      BY <1>0, <3>2 DEF AutoCloseInv, RowsTimed
    <3>4. created[hook[r]] \in Nat /\ created[LatestNonSystem] \in Nat /\ AutoCloseAfter \in Nat
      BY <1>0, <3>2, AutoCloseAssumption DEF AutoCloseInv, AutoCloseTypeOK
    <3>5. timer' \in Nat /\ timer' <= Deadline
      BY <3>1, <3>3, <3>4 DEF Deadline
    <3> QED BY <1>3, <3>5, AutoCloseAssumption DEF Covered
  <2>4. CASE messages[hook[r]].sender = "visitor"
    BY <1>1, <2>1, <2>4 DEF CancelsWaiting
  <2>5. CASE messages[hook[r]].sender \notin {"agent", "visitor"}
    <3>1. timer' = timer /\ overtaken' = overtaken
      BY <1>1, <2>5 DEF HookTimer, CancelsWaiting
    <3>2. \A q \in Requests : hook[q] # LatestNonSystem
      BY <1>0, <1>1, <2>1, <2>2, <2>5
    <3>3. Covered
      BY <1>1, <2>1, <3>1, <3>2 DEF TimerInv, WaitingCovered
    <3> QED BY <1>1, <1>3, <3>1, <3>3 DEF Covered
  <2> QED BY <2>3, <2>4, <2>5
<1> QED BY <1>4, <1>5, <1>6, <1>7 DEF TimerInv

\* An agent's close, and the cancelling of the timer after it.
LEMMA CloseTimed ==
  ASSUME TypeInv, AutoCloseInv, TimerInv, (\E a \in Actor : Close(a)) \/ CancelAfterClose
  PROVE  TimerInv'
<1>1. /\ UNCHANGED <<now, created, up, hook, cb, faults, crashes, overtaken>> /\ UNCHANGED <<messages, req>>
      /\ up /\ conv'.status = "closed"
  <2>1. ASSUME NEW a \in Actor, Close(a)
        PROVE  /\ UNCHANGED <<now, created, up, hook, cb, faults, crashes, overtaken>> /\ UNCHANGED <<messages, req>>
               /\ up /\ conv'.status = "closed"
    <3>1. conv \in ConversationRow
      BY DEF TypeInv, TypeOK
    <3>2. /\ UNCHANGED <<now, created, up, hook, cb, faults, crashes, overtaken>> /\ up
          /\ CloseConversation(a) \/ (conv.status = "closed" /\ UNCHANGED vars)
      BY <2>1 DEF Close
    <3>3. CASE CloseConversation(a)
      BY <3>1, <3>2, <3>3 DEF CloseConversation, ConversationRow
    <3>4. CASE conv.status = "closed" /\ UNCHANGED vars
      BY <3>2, <3>4 DEF vars
    <3> QED BY <3>2, <3>3, <3>4
  <2>2. CASE CancelAfterClose
    BY <2>2 DEF CancelAfterClose, vars, TimerInv, CancelsAfterClose
  <2> QED BY <2>1, <2>2
<1>2. /\ Counted' = Counted /\ RowsKept /\ StampsKept /\ LatestNonSystem' = LatestNonSystem /\ Deadline' = Deadline
  BY <1>1, DatabaseAlone
<1>4. \A q \in Requests : hook'[q] # 0 => hook'[q] = hook[q] /\ req'[q].phase = "idle"
  BY <1>1 DEF TimerInv, HooksAfterCalls
<1>5. HooksAfterCalls'
  BY <1>2, <1>4, HooksWait
<1>6. LooksTimely'
  BY <1>1, <1>2 DEF TimerInv, LooksTimely
<1>7. CancelsAfterClose' /\ DeadForgets' /\ WaitingCovered'
  BY <1>1 DEF CancelsAfterClose, DeadForgets, WaitingCovered
<1> QED BY <1>5, <1>6, <1>7 DEF TimerInv

\* A callback looks, plans a later look, or ends; each passes the duty on.
LEMMA CallbackTimed ==
  ASSUME TypeInv, AutoCloseInv, TimerInv, NEW c \in Callbacks,
         FireTimer(c) \/ RunCallback(c) \/ AutoCloseFails(c)
  PROVE  TimerInv'
<1>0. cb \in [Callbacks -> Callback] /\ cb[c] \in Callback /\ timer \in Nat \cup {None} /\ faults \in Nat
  BY DEF AutoCloseInv, AutoCloseTypeOK
<1>1. /\ UNCHANGED <<now, created, up, hook, closing, crashes, overtaken>> /\ UNCHANGED <<messages, req>> /\ up
  BY DEF FireTimer, RunCallback, CloseIfDue, LookAgainLater, LeaveAlone, CallbackEnds, AutoCloseFails,
     AutoCloseConversation, vars
<1>2. /\ Counted' = Counted /\ RowsKept /\ StampsKept /\ LatestNonSystem' = LatestNonSystem /\ Deadline' = Deadline
      /\ LatestFromAgent' <=> LatestFromAgent
  BY <1>1, DatabaseAlone
<1>4. \A q \in Requests : hook'[q] # 0 => hook'[q] = hook[q] /\ req'[q].phase = "idle"
  BY <1>1 DEF TimerInv, HooksAfterCalls
<1>5. HooksAfterCalls'
  BY <1>2, <1>4, HooksWait
<1>6. DeadForgets'
  BY <1>1 DEF DeadForgets
<1>7. \A d \in Callbacks : d # c => cb'[d] = cb[d]
  BY <1>0 DEF FireTimer, RunCallback, CloseIfDue, LookAgainLater, LeaveAlone, CallbackEnds, AutoCloseFails
<1>8. ASSUME \A d \in Callbacks : cb[d].step = "schedule" => LatestNonSystem # 0 /\ cb[d].at <= Deadline,
             cb'[c].step = "schedule" => LatestNonSystem # 0 /\ cb'[c].at <= Deadline
      PROVE  LooksTimely'
  BY <1>2, <1>7, <1>8 DEF LooksTimely
<1>9. CASE FireTimer(c)
  <2>1. UNCHANGED <<conv, faults>> /\ timer' = None /\ cb'[c].step = "due"
    BY <1>0, <1>9 DEF FireTimer, vars, Callback
  <2>2. LooksTimely' /\ CancelsAfterClose'
    BY <1>1, <1>7, <1>8, <2>1 DEF TimerInv, LooksTimely, CancelsAfterClose
  <2>3. Covered'
    BY <2>1 DEF Covered
  <2> QED BY <1>5, <1>6, <2>2, <2>3 DEF TimerInv, WaitingCovered
<1>10. CASE CloseIfDue(c)
  <2>1. conv'.status = "closed" /\ cb'[c].step = "cancel"
    <3>1. conv \in ConversationRow
      BY DEF TypeInv, TypeOK
    <3> QED BY <1>0, <1>10, <3>1 DEF CloseIfDue, AutoCloseConversation, ConversationRow, Callback
  <2>2. LooksTimely' /\ CancelsAfterClose' /\ WaitingCovered'
    BY <1>8, <2>1 DEF TimerInv, LooksTimely, CancelsAfterClose, WaitingCovered
  <2> QED BY <1>5, <1>6, <2>2 DEF TimerInv
<1>11. CASE LookAgainLater(c)
  <2>1. UNCHANGED <<conv, faults, timer>> /\ cb' = [cb EXCEPT ![c] = [step |-> "schedule", at |-> Deadline]]
        /\ LatestFromAgent
    BY <1>11 DEF LookAgainLater, vars
  <2>2. cb'[c].step = "schedule" /\ cb'[c].at = Deadline
    BY <1>0, <2>1
  <2>3. Deadline <= Deadline /\ LatestNonSystem # 0
    BY <2>1, DeadlineType DEF LatestFromAgent
  <2>4. LooksTimely' /\ CancelsAfterClose'
    BY <1>1, <1>7, <1>8, <2>1, <2>2, <2>3 DEF TimerInv, LooksTimely, CancelsAfterClose
  <2>5. Covered'
    BY <2>2 DEF Covered
  <2> QED BY <1>5, <1>6, <2>4, <2>5 DEF TimerInv, WaitingCovered
<1>12. CASE LeaveAlone(c) \/ AutoCloseFails(c)
  <2>1. UNCHANGED <<conv, timer>> /\ cb'[c].step = "idle"
    BY <1>0, <1>12 DEF LeaveAlone, AutoCloseFails, vars, Resting
  <2>2. LooksTimely' /\ CancelsAfterClose'
    BY <1>1, <1>7, <1>8, <2>1 DEF TimerInv, LooksTimely, CancelsAfterClose
  <2>3. WaitingCovered'
    <3>1. CASE LeaveAlone(c)
      BY <1>2, <2>1, <3>1 DEF LeaveAlone, WaitingCovered
    <3>2. CASE AutoCloseFails(c)
      BY <1>0, <3>2 DEF AutoCloseFails, Fault, WaitingCovered
    <3> QED BY <1>12, <3>1, <3>2
  <2> QED BY <1>5, <1>6, <2>2, <2>3 DEF TimerInv
<1>13. CASE CallbackEnds(c)
  <2>1. UNCHANGED <<conv, faults>> /\ cb'[c].step = "idle" /\ cb[c].step \in {"schedule", "cancel"}
        /\ timer' = IF cb[c].step = "schedule" THEN cb[c].at ELSE None
    BY <1>0, <1>13 DEF CallbackEnds, vars, Resting
  <2>2. LooksTimely' /\ CancelsAfterClose'
    BY <1>1, <1>7, <1>8, <2>1 DEF TimerInv, LooksTimely, CancelsAfterClose
  <2>3. CASE cb[c].step = "schedule"
    <3>1. timer' = cb[c].at /\ cb[c].at \in Nat /\ cb[c].at <= Deadline
      BY <1>0, <2>1, <2>3, CallbackTypes DEF TimerInv, LooksTimely
    <3>2. Covered'
      BY <1>2, <3>1, AutoCloseAssumption DEF Covered
    <3> QED BY <1>5, <1>6, <2>2, <3>2 DEF TimerInv, WaitingCovered
  <2>4. CASE cb[c].step = "cancel"
    <3>1. conv'.status = "closed"
      BY <2>1, <2>4 DEF TimerInv, CancelsAfterClose
    <3> QED BY <1>5, <1>6, <2>2, <3>1 DEF TimerInv, WaitingCovered
  <2> QED BY <2>1, <2>3, <2>4
<1> QED BY <1>9, <1>10, <1>11, <1>12, <1>13 DEF RunCallback

\* The process dies, is started again, and time passes.
LEMMA ProcessTimed ==
  ASSUME TypeInv, AutoCloseInv, TimerInv, Crash \/ Restart \/ Tick \/ UNCHANGED acVars
  PROVE  TimerInv'
<1>1. UNCHANGED <<messages, created, req, faults>>
  BY DEF Crash, Restart, Tick, acVars, AutoCloseConversation, vars
<1>2. /\ Counted' = Counted /\ RowsKept /\ StampsKept /\ LatestNonSystem' = LatestNonSystem /\ Deadline' = Deadline
      /\ LatestFromAgent' <=> LatestFromAgent
  BY <1>1, DatabaseAlone
<1>4. \A q \in Requests : hook'[q] # 0 => hook'[q] = hook[q]
  BY DEF Crash, EmptyMemory, Restart, Tick, acVars, memory
<1>5. HooksAfterCalls'
  <2>1. \A q \in Requests : hook'[q] # 0 => hook'[q] = hook[q] /\ req'[q].phase = "idle"
    BY <1>1, <1>4 DEF TimerInv, HooksAfterCalls
  <2> QED BY <1>2, <2>1, HooksWait
<1>6. CASE Crash
  <2>1. up' = FALSE /\ closing' = FALSE /\ hook' = [r \in Requests |-> 0] /\ cb' = [c \in Callbacks |-> Resting]
    BY <1>6 DEF Crash, EmptyMemory
  <2>2. LooksTimely' /\ CancelsAfterClose' /\ DeadForgets' /\ WaitingCovered'
    BY <2>1 DEF LooksTimely, CancelsAfterClose, DeadForgets, WaitingCovered, Resting
  <2> QED BY <1>5, <2>2 DEF TimerInv
<1>7. CASE Restart
  <2>1. /\ ~up /\ up' = TRUE /\ UNCHANGED <<hook, closing, cb>>
        /\ timer' = IF conv.status = "open" /\ LatestFromAgent /\ Deadline > now THEN Deadline ELSE timer
    BY <1>7 DEF Restart
  <2>2. ~closing' /\ \A c \in Callbacks : cb'[c] = Resting
    BY <2>1 DEF TimerInv, DeadForgets
  <2>3. LooksTimely' /\ CancelsAfterClose' /\ DeadForgets'
    BY <2>1, <2>2 DEF LooksTimely, CancelsAfterClose, DeadForgets, Resting
  <2>4. WaitingCovered'
    <3>1. SUFFICES ASSUME conv'.status = "open", LatestFromAgent
                   PROVE  Covered'
      BY <1>2 DEF WaitingCovered
    <3>2. conv.status = "open" /\ ~DueNow
      <4>1. conv \in ConversationRow
        BY DEF TypeInv, TypeOK
      <4> QED BY <1>7, <3>1, <4>1 DEF Restart, AutoCloseConversation, ConversationRow, vars
    <3>3. Deadline \in Nat /\ now \in Nat
      BY <3>1, DeadlineType DEF AutoCloseInv, AutoCloseTypeOK
    <3>4. timer' = Deadline
      BY <2>1, <3>1, <3>2, <3>3 DEF DueNow
    <3> QED BY <1>2, <3>3, <3>4, AutoCloseAssumption DEF Covered
  <2> QED BY <1>5, <2>3, <2>4 DEF TimerInv
<1>8. CASE Tick \/ UNCHANGED acVars
  <2>1. UNCHANGED <<up, memory, faults, overtaken>> /\ conv' = conv
    BY <1>8 DEF Tick, acVars, vars
  <2>2. LooksTimely' /\ CancelsAfterClose' /\ DeadForgets' /\ WaitingCovered'
    BY <1>2, <2>1, MemoryTimed
  <2> QED BY <1>5, <2>2 DEF TimerInv
<1> QED BY <1>6, <1>7, <1>8

\* The database ends the transaction of a call whose process died.
LEMMA ServerRollsBackTimed ==
  ASSUME TypeInv, AutoCloseInv, TimerInv, NEW r \in Requests, ServerRollsBack(r)
  PROVE  TimerInv'
<1>0. req \in [Requests -> Call]
  BY DEF TypeInv, TypeOK
<1>1. /\ ~up /\ RollbackMessage(r) /\ UNCHANGED <<now, created, up, memory, faults, crashes, overtaken>>
      /\ conv' = conv /\ outbox' = outbox /\ req' = [req EXCEPT ![r] = Idle]
  BY DEF ServerRollsBack, RollbackMessage
<1>2. [Next]_vars
  BY <1>1 DEF Next, CreateMessage
<1>3. \A q \in Requests : ~CommitRow(q)
  <2>1. SUFFICES ASSUME NEW q \in Requests, CommitRow(q) PROVE FALSE
    OBVIOUS
  <2>2. outbox' # outbox
    BY <2>1 DEF CommitRow, TypeInv, TypeOK, MessageNew
  <2> QED BY <1>1, <2>2
<1>4. Counted' = Counted /\ RowsKept /\ StampsKept
  BY <1>1, <1>2, <1>3, CountedKept, RowSteps, StampsStay
<1>5. LooksTimely' /\ CancelsAfterClose' /\ DeadForgets' /\ WaitingCovered'
  BY <1>1, <1>4, MemoryTimed
<1>6. HooksAfterCalls'
  BY <1>1 DEF memory, TimerInv, DeadForgets, HooksAfterCalls
<1> QED BY <1>5, <1>6 DEF TimerInv

(* An open conversation that waits for its visitor has a timer due no      *)
(* later than its deadline whenever nothing is in progress, no database    *)
(* call has failed and no visitor's hook has run after a newer message of  *)
(* an agent: for any number of callers whose transactions overlap and      *)
(* whose hooks run in any order, callbacks that are late or overlap,       *)
(* crashes and restarts, and closes and transfers at any moment.  A hook   *)
(* that runs too late is thus the only way, short of a failure, to leave   *)
(* such a conversation without its timer.                                  *)
THEOREM WaitingIsTimed == AutoCloseSpec => []TimerCoversWaiting
<1>1. AutoCloseInit => TimerInv
  <2> SUFFICES ASSUME AutoCloseInit PROVE TimerInv
    OBVIOUS
  <2>1. messages = << >> /\ req = [q \in Requests |-> Idle]
    BY DEF AutoCloseInit, Init
  <2>2. Counted = {}
    BY <2>1 DEF Counted
  <2>3. LatestNonSystem = 0
    BY <2>2, LatestOfCounted
  <2>4. HooksAfterCalls /\ WaitingCovered
    BY <2>3 DEF AutoCloseInit, HooksAfterCalls, WaitingCovered, LatestFromAgent
  <2>5. LooksTimely /\ CancelsAfterClose /\ DeadForgets
    BY DEF AutoCloseInit, LooksTimely, CancelsAfterClose, DeadForgets, Resting
  <2> QED BY <2>4, <2>5 DEF TimerInv
<1>2. TypeInv /\ AutoCloseInv /\ TypeInv' /\ TimerInv /\ [AutoCloseNext]_acVars => TimerInv'
  <2> SUFFICES ASSUME TypeInv, AutoCloseInv, TypeInv', TimerInv, [AutoCloseNext]_acVars
               PROVE  TimerInv'
    OBVIOUS
  <2>1. ASSUME NEW q \in Requests, BeforeCommit(q) \/ OnMessageCreated(q) \/ ServerRollsBack(q)
        PROVE  TimerInv'
    BY <2>1, BeforeCommitTimed, HookTimed, ServerRollsBackTimed
  <2>2. ASSUME NEW q \in Requests, CommitThenHook(q) \/ CommitWithoutHook(q)
        PROVE  TimerInv'
    BY <2>2, CommitTimed
  <2>3. CASE (\E a \in Actor : Close(a)) \/ CancelAfterClose
    BY <2>3, CloseTimed
  <2>4. CASE Manage
    BY <2>4, ManageTimed
  <2>5. ASSUME NEW c \in Callbacks, FireTimer(c) \/ RunCallback(c) \/ AutoCloseFails(c)
        PROVE  TimerInv'
    BY <2>5, CallbackTimed
  <2>6. CASE Crash \/ Restart \/ Tick \/ UNCHANGED acVars
    BY <2>6, ProcessTimed
  <2> QED BY <2>1, <2>2, <2>3, <2>4, <2>5, <2>6 DEF AutoCloseNext
<1>3. TimerInv => TimerCoversWaiting
  <2> SUFFICES ASSUME TimerInv, Quiescent, faults = 0, ~overtaken, conv.status = "open", LatestFromAgent
               PROVE  timer # None /\ timer <= Deadline
    BY DEF TimerCoversWaiting
  <2>1. LatestNonSystem # 0 /\ up /\ \A r \in Requests : hook[r] = 0
    BY DEF Quiescent, LatestFromAgent
  <2>2. Covered
    BY <2>1 DEF TimerInv, WaitingCovered
  <2> QED BY <2>2 DEF Covered, Quiescent
<1> QED BY <1>1, <1>2, <1>3, AutoCloseInvariant, PTL DEF AutoCloseSpec


-----------------------------------------------------------------------------
(* Automatic answers: the invariant *)

\* A consumer at work has a message of the visitor.
ConsumersTrue ==
    \A w \in Workers :
        \/ ai[w] = Waiting
        \/ /\ ai[w].pc # "wait"
           /\ ai[w].msg \in DOMAIN messages
           /\ messages[ai[w].msg].sender = "visitor"

\* A consumer's call of CreateMessage carries the key of its message, and
\* nobody else writes as "ai".
CallsTrue ==
    /\ \A w \in Workers : req[w].phase # "idle" =>
          /\ ai[w].pc = "sending"
          /\ req[w].sender = "ai"
          /\ req[w].key = AIKey[ai[w].msg]
    /\ \A r \in Requests \ Workers : req[r].phase # "idle" => req[r].sender # "ai"

\* An answer, committed or not, has the key of an earlier message of the visitor.
AnswersTrue ==
    \A i \in DOMAIN messages : messages[i].sender = "ai" =>
        \E m \in 1..MaxMessages :
           m < i /\ messages[i].key = AIKey[m] /\ messages[m].sender = "visitor"

AutoReplyInv ==
    /\ AutoReplyTypeOK
    /\ Len(messages) <= MaxMessages
    /\ ConsumersTrue
    /\ CallsTrue
    /\ AnswersTrue

\* What a step of the composition may do to the consumers and the rows.
ConsumersGoOn ==
    \A w \in Workers :
        \/ ai'[w] = Waiting
        \/ /\ ai'[w].pc # "wait"
           /\ \/ ai[w] # Waiting /\ ai'[w].msg = ai[w].msg
              \/ ai'[w].msg \in DOMAIN messages /\ messages[ai'[w].msg].sender = "visitor"

RowsFromInserts == DOMAIN messages' = DOMAIN messages \/ \E r \in Requests : InsertMessage(r)

\* The two kinds of consumer record, and the changes made to one.
LEMMA ConsumerFields ==
  /\ Waiting \in Consumer /\ Waiting.pc = "wait"
  /\ \A c \in Consumer : c.msg \in Nat
  /\ \A c \in Consumer, p \in {"conversation1", "config", "latest1", "conversation2", "latest2", "send", "sending"} :
        /\ [c EXCEPT !.pc = p] \in Consumer
        /\ [c EXCEPT !.pc = p].pc = p
        /\ [c EXCEPT !.pc = p].msg = c.msg
        /\ [c EXCEPT !.pc = p, !.retried = TRUE] \in Consumer
        /\ [c EXCEPT !.pc = p, !.retried = TRUE].pc = p
        /\ [c EXCEPT !.pc = p, !.retried = TRUE].msg = c.msg
  /\ \A m \in Nat : [pc |-> "conversation1", msg |-> m, retried |-> FALSE] \in Consumer
  BY DEF Waiting, Consumer

\* The message a consumer has is one of those the keys are made for.
LEMMA MessageOfConsumer ==
  ASSUME TypeInv, AutoReplyInv, NEW w \in Workers, ai[w].pc # "wait"
  PROVE  /\ ai[w].msg \in 1..MaxMessages /\ ai[w].msg \in DOMAIN messages
         /\ messages[ai[w].msg].sender = "visitor"
         /\ AIKey[ai[w].msg] \in ClientMsgIDs
<1>1. ai[w].msg \in DOMAIN messages /\ messages[ai[w].msg].sender = "visitor"
  BY DEF AutoReplyInv, ConsumersTrue, Waiting
<1>2. DOMAIN messages = 1..Len(messages) /\ Len(messages) \in Nat /\ Len(messages) <= MaxMessages
  BY DEF TypeInv, TypeOK, AutoReplyInv
<1>3. ai[w].msg \in 1..MaxMessages
  BY <1>1, <1>2, ConstantsAssumption
<1> QED BY <1>1, <1>3, AutoReplyAssumption

\* The answer a call of CreateMessage inserts answers a message of the visitor.
LEMMA InsertedAnswer ==
  ASSUME TypeInv, AutoReplyInv, NEW r \in Requests, InsertMessage(r), req[r].sender = "ai"
  PROVE  \E m \in DOMAIN messages :
            m \in 1..MaxMessages /\ req[r].key = AIKey[m] /\ messages[m].sender = "visitor"
<1>1. req[r].phase # "idle"
  BY DEF InsertMessage
<1>2. r \in Workers
  BY <1>1 DEF AutoReplyInv, CallsTrue
<1>3. ai[r].pc = "sending" /\ req[r].key = AIKey[ai[r].msg]
  BY <1>1, <1>2 DEF AutoReplyInv, CallsTrue
<1>4. ai[r].msg \in 1..MaxMessages /\ ai[r].msg \in DOMAIN messages /\ messages[ai[r].msg].sender = "visitor"
  BY <1>2, <1>3, MessageOfConsumer
<1> QED BY <1>3, <1>4

\* The rows keep their promise whatever the step.
LEMMA RowsPreserved ==
  ASSUME TypeInv, TypeInv', AutoReplyInv, [Next]_vars, RowsFromInserts
  PROVE  Len(messages') <= MaxMessages /\ AnswersTrue'
<1>1. RowsKept
  BY RowSteps
<1>2. /\ DOMAIN messages = 1..Len(messages) /\ Len(messages) \in Nat
      /\ DOMAIN messages' = 1..Len(messages') /\ Len(messages') \in Nat
      /\ Len(messages) <= MaxMessages /\ MaxMessages \in Nat
  BY ConstantsAssumption DEF TypeInv, TypeOK, AutoReplyInv
<1>3. ASSUME NEW i \in DOMAIN messages, messages'[i].sender = "ai"
      PROVE  \E m \in 1..MaxMessages :
                m < i /\ messages'[i].key = AIKey[m] /\ messages'[m].sender = "visitor"
  <2>1. messages[i].sender = "ai" /\ messages'[i].key = messages[i].key
    BY <1>1, <1>3 DEF RowsKept
  <2>2. PICK m \in 1..MaxMessages : m < i /\ messages[i].key = AIKey[m] /\ messages[m].sender = "visitor"
    BY <2>1 DEF AutoReplyInv, AnswersTrue
  <2>3. m \in DOMAIN messages
    <3>1. i \in 1..Len(messages) /\ m \in 1..MaxMessages /\ m < i
      BY <1>2, <2>2
    <3>2. m \in 1..Len(messages)
      BY <1>2, <3>1
    <3> QED BY <1>2, <3>2
  <2> QED BY <1>1, <2>1, <2>2, <2>3 DEF RowsKept
<1>4. CASE DOMAIN messages' = DOMAIN messages
  <2>1. Len(messages') <= Len(messages)
    <3>1. Len(messages') # 0 => Len(messages') \in 1..Len(messages)
      BY <1>2, <1>4
    <3> QED BY <1>2, <3>1
  <2> QED BY <1>2, <1>3, <1>4, <2>1 DEF AnswersTrue
<1>5. ASSUME NEW r \in Requests, InsertMessage(r)
      PROVE  Len(messages') <= MaxMessages /\ AnswersTrue'
  <2>1. /\ Len(messages) < MaxMessages
        /\ messages' = Append(messages, NewMessage(req[r].sender, req[r].by, req[r].key, "open"))
    BY <1>5 DEF InsertMessage
  <2>2. /\ Len(messages') = Len(messages) + 1
        /\ messages'[Len(messages) + 1] = NewMessage(req[r].sender, req[r].by, req[r].key, "open")
    BY <2>1 DEF TypeInv, TypeOK
  <2>3. ASSUME messages'[Len(messages) + 1].sender = "ai"
        PROVE  \E m \in 1..MaxMessages :
                  /\ m < Len(messages) + 1
                  /\ messages'[Len(messages) + 1].key = AIKey[m]
                  /\ messages'[m].sender = "visitor"
    <3>1. req[r].sender = "ai" /\ messages'[Len(messages) + 1].key = req[r].key
      BY <2>2, <2>3 DEF NewMessage
    <3>2. PICK m \in DOMAIN messages :
             m \in 1..MaxMessages /\ req[r].key = AIKey[m] /\ messages[m].sender = "visitor"
      BY <1>5, <3>1, InsertedAnswer
    <3>3. m < Len(messages) + 1
      BY <1>2
    <3>4. messages'[m].sender = "visitor"
      BY <1>1, <3>2 DEF RowsKept
    <3> QED BY <3>1, <3>2, <3>3, <3>4
  <2>4. \A i \in DOMAIN messages' : i \in DOMAIN messages \/ i = Len(messages) + 1
    BY <1>2, <2>2
  <2>5. Len(messages') <= MaxMessages
    BY <1>2, <2>1, <2>2
  <2> QED BY <1>3, <2>3, <2>4, <2>5 DEF AnswersTrue
<1> QED BY <1>4, <1>5 DEF RowsFromInserts

\* A step that keeps to the rules of calls and consumers keeps the invariant.
LEMMA StepPreserves ==
  ASSUME TypeInv, AutoReplyInv, [Next]_vars, RowsFromInserts, ConsumersGoOn, CallsTrue',
         ai' \in [Workers -> Consumer], lock' \subseteq DOMAIN messages, aiFaults' \in 0..MaxAIFaults
  PROVE  TypeInv' /\ AutoReplyInv'
<1>1. TypeInv'
  BY NextTypeInv
<1>2. RowsKept
  BY RowSteps
<1>3. Len(messages') <= MaxMessages /\ AnswersTrue'
  BY <1>1, RowsPreserved
<1>4. AutoReplyTypeOK'
  BY <1>2 DEF AutoReplyTypeOK, RowsKept
<1>5. ConsumersTrue'
  <2> SUFFICES ASSUME NEW w \in Workers, ai'[w] # Waiting
               PROVE  /\ ai'[w].pc # "wait"
                      /\ ai'[w].msg \in DOMAIN messages'
                      /\ messages'[ai'[w].msg].sender = "visitor"
    BY DEF ConsumersTrue
  <2>1. ai'[w].pc # "wait" /\ ai'[w].msg \in DOMAIN messages /\ messages[ai'[w].msg].sender = "visitor"
    BY DEF ConsumersGoOn, AutoReplyInv, ConsumersTrue
  <2> QED BY <1>2, <2>1 DEF RowsKept
<1> QED BY <1>1, <1>3, <1>4, <1>5 DEF AutoReplyInv

-----------------------------------------------------------------------------
(* The steps *)

\* Reads, waiting for events, and expiring locks leave the conversation alone.
LEMMA ReadingSteps ==
  ASSUME TypeInv, AutoReplyInv, NEW w \in Workers,
         \/ \E m \in DOMAIN messages : Receive(w, m)
         \/ CheckConversation(w) \/ CheckConfig(w) \/ CheckLatest(w)
         \/ ReadFails(w) \/ ListFails(w)
  PROVE  [Next]_vars /\ TypeInv' /\ AutoReplyInv'
<1>0. /\ ai \in [Workers -> Consumer] /\ lock \subseteq DOMAIN messages /\ aiFaults \in 0..MaxAIFaults
      /\ Workers \subseteq Requests
  BY AutoReplyAssumption DEF AutoReplyInv, AutoReplyTypeOK
<1>1. UNCHANGED vars
  BY DEF Receive, CheckConversation, CheckConfig, CheckLatest, ReadFails, ListFails
<1>2. messages' = messages /\ req' = req
  BY <1>1 DEF vars
<1>3. ai[w].pc # "sending" /\ \A v \in Workers : v # w => ai'[v] = ai[v]
  BY <1>0 DEF Receive, CheckConversation, CheckConfig, CheckLatest, ReadFails, ListFails,
              Goto, Done, Failed, Waiting
<1>4. lock' \subseteq DOMAIN messages /\ aiFaults' \in 0..MaxAIFaults
  <2>1. lock' \subseteq DOMAIN messages
    BY <1>0 DEF Receive, CheckConversation, CheckConfig, CheckLatest, ReadFails, ListFails, Done, Failed
  <2>2. AIFault => aiFaults' \in 0..MaxAIFaults
    BY <1>0, AutoReplyAssumption DEF AIFault
  <2> QED
    BY <1>0, <2>1, <2>2 DEF Receive, CheckConversation, CheckConfig, CheckLatest, ReadFails, ListFails
<1> DEFINE GoesOn == \/ ai'[w] = Waiting
                     \/ /\ ai'[w].pc # "wait"
                        /\ \/ ai[w] # Waiting /\ ai'[w].msg = ai[w].msg
                           \/ ai'[w].msg \in DOMAIN messages /\ messages[ai'[w].msg].sender = "visitor"
<1>5. ai' \in [Workers -> Consumer] /\ GoesOn
  <2>1. ASSUME NEW m \in DOMAIN messages, Receive(w, m) PROVE ai' \in [Workers -> Consumer] /\ GoesOn
    <3>1. ai' = [ai EXCEPT ![w] = [pc |-> "conversation1", msg |-> m, retried |-> FALSE]]
          /\ messages[m].sender = "visitor" /\ m \in Nat
      BY <2>1 DEF Receive, TypeInv, TypeOK
    <3>2. [pc |-> "conversation1", msg |-> m, retried |-> FALSE] \in Consumer
      BY <3>1, ConsumerFields
    <3>3. ai' \in [Workers -> Consumer] /\ ai'[w].pc = "conversation1" /\ ai'[w].msg = m
      BY <1>0, <3>1, <3>2
    <3> QED BY <3>1, <3>3
  <2>2. CASE ai' = [ai EXCEPT ![w] = Waiting]
    <3>1. Waiting \in Consumer
      BY ConsumerFields
    <3> QED BY <1>0, <2>2, <3>1
  <2>3. ASSUME NEW p \in {"conversation1", "config", "latest1", "conversation2", "latest2", "send", "sending"},
               Goto(w, p), ai[w].pc # "wait"
        PROVE  ai' \in [Workers -> Consumer] /\ GoesOn
    <3>1. ai'[w] = [ai[w] EXCEPT !.pc = p] /\ ai[w] \in Consumer /\ ai[w] # Waiting
      <4>1. Waiting.pc = "wait"
        BY ConsumerFields
      <4>2. ai[w] # Waiting
        BY <2>3, <4>1
      <4>3. ai[w] \in Consumer
        BY <1>0
      <4>4. ai'[w] = [ai[w] EXCEPT !.pc = p]
        BY <1>0, <2>3 DEF Goto
      <4> QED BY <4>2, <4>3, <4>4
    <3>2. ai'[w] \in Consumer /\ ai'[w].pc = p /\ ai'[w].msg = ai[w].msg
      <4> DEFINE c == [ai[w] EXCEPT !.pc = p]
      <4>0. ai[w] \in Consumer
        BY <3>1
      <4>1. c \in Consumer /\ c.pc = p /\ c.msg = ai[w].msg
        BY <4>0 DEF Consumer
      <4> HIDE DEF c
      <4>2. ai'[w] = c
        BY <3>1 DEF c
      <4> QED BY <4>1, <4>2
    <3>3. ai' \in [Workers -> Consumer]
      BY <1>0, <2>3, <3>1, <3>2 DEF Goto
    <3> QED BY <3>1, <3>2, <3>3
  <2> QED
    BY <2>1, <2>2, <2>3 DEF CheckConversation, CheckConfig, CheckLatest, ReadFails, ListFails, Done, Failed
<1>6. ConsumersGoOn
  BY <1>3, <1>5 DEF ConsumersGoOn, AutoReplyInv, ConsumersTrue
<1>7. CallsTrue'
  BY <1>2, <1>3 DEF AutoReplyInv, CallsTrue
<1>8. RowsFromInserts
  BY <1>2 DEF RowsFromInserts
<1> QED
  BY <1>1, <1>4, <1>5, <1>6, <1>7, <1>8, StepPreserves

\* Steps of the surroundings: locks expire, others write, agents claim and close.
LEMMA OtherSteps ==
  ASSUME TypeInv, AutoReplyInv, UNCHANGED ai, lock' \subseteq DOMAIN messages, UNCHANGED aiFaults,
         [Next]_vars, RowsFromInserts,
         \A w \in Workers : req'[w] = req[w],
         \A r \in Requests \ Workers : req'[r].phase # "idle" => req'[r].sender # "ai"
  PROVE  TypeInv' /\ AutoReplyInv'
<1>0. ai \in [Workers -> Consumer] /\ aiFaults \in 0..MaxAIFaults
  BY DEF AutoReplyInv, AutoReplyTypeOK
<1>1. ConsumersGoOn
  BY DEF ConsumersGoOn, AutoReplyInv, ConsumersTrue
<1>2. CallsTrue'
  BY DEF AutoReplyInv, CallsTrue
<1> QED BY <1>0, <1>1, <1>2, StepPreserves

\* A lock that nobody works under expires.
LEMMA LockExpiresStep ==
  ASSUME TypeInv, AutoReplyInv, NEW m \in lock, LockExpires(m)
  PROVE  [Next]_vars /\ TypeInv' /\ AutoReplyInv'
<1>1. UNCHANGED vars /\ messages' = messages /\ req' = req /\ UNCHANGED ai /\ UNCHANGED aiFaults
  BY DEF LockExpires, vars
<1>2. lock' \subseteq DOMAIN messages
  BY DEF LockExpires, AutoReplyInv, AutoReplyTypeOK
<1>3. RowsFromInserts
  BY <1>1 DEF RowsFromInserts
<1>4. \A r \in Requests \ Workers : req'[r].phase # "idle" => req'[r].sender # "ai"
  BY <1>1 DEF AutoReplyInv, CallsTrue
<1> QED BY <1>1, <1>2, <1>3, <1>4, OtherSteps

\* Visitors and agents write.
LEMMA WritingSteps ==
  ASSUME TypeInv, AutoReplyInv, NEW r \in Requests \ Workers,
         \/ \E s \in CallerTypes \ {"ai"}, k \in ClientMsgIDs \ AIKeys :
               \E by \in SendersOf(s) : SendMessage(r, s, by, k)
         \/ FinishMessage(r)
  PROVE  [Next]_vars /\ TypeInv' /\ AutoReplyInv'
<1>0. req \in [Requests -> Call] /\ Workers \subseteq Requests
  BY AutoReplyAssumption DEF TypeInv, TypeOK
<1>1. UNCHANGED ai /\ UNCHANGED aiFaults /\ lock' \subseteq DOMAIN messages
  BY DEF SendMessage, FinishMessage, AutoReplyInv, AutoReplyTypeOK
<1>2. CreateMessage(r)
  BY DEF SendMessage, FinishMessage, CreateMessage
<1>3. [Next]_vars
  BY <1>2 DEF Next
<1>4. RowsFromInserts
  <2>1. CASE InsertMessage(r)
    BY <2>1 DEF RowsFromInserts
  <2>2. CASE ~InsertMessage(r)
    <3>1. DOMAIN messages' = DOMAIN messages
      BY <2>2 DEF SendMessage, FinishMessage, CheckMessage, ReuseMessage, DuplicateMessage,
                  CommitMessage, CommitRow, RollbackMessage
    <3> QED BY <3>1 DEF RowsFromInserts
  <2> QED BY <2>1, <2>2
<1>5. \A q \in Requests : q # r => req'[q] = req[q]
  BY <1>0 DEF SendMessage, FinishMessage, CheckMessage, ReuseMessage, InsertMessage, DuplicateMessage,
              CommitMessage, CommitRow, RollbackMessage
<1>6. req'[r].phase # "idle" => req'[r].sender # "ai"
  <2>1. req[r] \in Call /\ (req[r].phase # "idle" => req[r].sender # "ai")
    BY <1>0 DEF AutoReplyInv, CallsTrue
  <2>2. CASE \E s \in CallerTypes \ {"ai"}, k \in ClientMsgIDs \ AIKeys :
                \E by \in SendersOf(s) : SendMessage(r, s, by, k)
    BY <1>0, <2>1, <2>2 DEF SendMessage, CheckMessage, ReuseMessage
  <2>3. CASE InsertMessage(r)
    <3>1. req'[r] = [req[r] EXCEPT !.phase = "inserted", !.msg = Len(messages) + 1]
      BY <1>0, <2>3 DEF InsertMessage
    <3>2. req'[r].sender = req[r].sender /\ req[r].phase # "idle"
      BY <2>1, <2>3, <3>1 DEF Call, InsertMessage
    <3> QED BY <2>1, <3>2
  <2>4. CASE DuplicateMessage(r) \/ CommitMessage(r) \/ RollbackMessage(r)
    BY <1>0, <2>4 DEF DuplicateMessage, CommitMessage, CommitRow, RollbackMessage, Idle
  <2> QED BY <2>2, <2>3, <2>4 DEF FinishMessage
<1>7. /\ \A w \in Workers : req'[w] = req[w]
      /\ \A q \in Requests \ Workers : req'[q].phase # "idle" => req'[q].sender # "ai"
  BY <1>0, <1>5, <1>6 DEF AutoReplyInv, CallsTrue
<1> QED BY <1>1, <1>3, <1>4, <1>7, OtherSteps

\* An agent claims or closes the conversation.
LEMMA ManageMeanwhileStep ==
  ASSUME TypeInv, AutoReplyInv, ManageMeanwhile
  PROVE  [Next]_vars /\ TypeInv' /\ AutoReplyInv'
<1>1. UNCHANGED ai /\ UNCHANGED aiFaults /\ lock' \subseteq DOMAIN messages
  BY DEF ManageMeanwhile, AutoReplyInv, AutoReplyTypeOK
<1>2. messages' = messages /\ req' = req /\ [Next]_vars
  BY DEF ManageMeanwhile, ClaimConversation, CloseConversation, Next
<1>3. RowsFromInserts
  BY <1>2 DEF RowsFromInserts
<1>4. \A r \in Requests \ Workers : req'[r].phase # "idle" => req'[r].sender # "ai"
  BY <1>2 DEF AutoReplyInv, CallsTrue
<1> QED BY <1>1, <1>2, <1>3, <1>4, OtherSteps

-----------------------------------------------------------------------------
(* The call of CreateMessage *)

\* A step of one consumer, which goes on to record c.
LEMMA ConsumerStep ==
  ASSUME TypeInv, AutoReplyInv, [Next]_vars, RowsFromInserts,
         NEW w \in Workers, NEW c \in Consumer,
         ai' = [ai EXCEPT ![w] = c],
         c = Waiting \/ (c.pc # "wait" /\ ai[w] # Waiting /\ c.msg = ai[w].msg),
         \A q \in Requests : q # w => req'[q] = req[q],
         req'[w].phase # "idle" =>
            c.pc = "sending" /\ req'[w].sender = "ai" /\ req'[w].key = AIKey[c.msg],
         lock' \subseteq DOMAIN messages, aiFaults' \in 0..MaxAIFaults
  PROVE  TypeInv' /\ AutoReplyInv'
<1>0. ai \in [Workers -> Consumer] /\ Workers \subseteq Requests
  BY AutoReplyAssumption DEF AutoReplyInv, AutoReplyTypeOK
<1>1. ai' \in [Workers -> Consumer] /\ ai'[w] = c /\ \A v \in Workers : v # w => ai'[v] = ai[v]
  BY <1>0
<1>2. ConsumersGoOn
  BY <1>1 DEF ConsumersGoOn, AutoReplyInv, ConsumersTrue
<1>3. CallsTrue'
  <2>1. ASSUME NEW v \in Workers, req'[v].phase # "idle"
        PROVE  ai'[v].pc = "sending" /\ req'[v].sender = "ai" /\ req'[v].key = AIKey[ai'[v].msg]
    <3>1. CASE v = w
      BY <1>1, <2>1, <3>1
    <3>2. CASE v # w
      BY <1>0, <1>1, <2>1, <3>2 DEF AutoReplyInv, CallsTrue
    <3> QED BY <3>1, <3>2
  <2>2. \A r \in Requests \ Workers : req'[r].phase # "idle" => req'[r].sender # "ai"
    BY DEF AutoReplyInv, CallsTrue
  <2> QED BY <2>1, <2>2 DEF CallsTrue
<1> QED BY <1>1, <1>2, <1>3, StepPreserves

\* The records a consumer goes on to, as the one change of ai.
LEMMA ConsumerMoves ==
  ASSUME AutoReplyInv, NEW w \in Workers,
         NEW p \in {"conversation1", "config", "latest1", "conversation2", "latest2", "send", "sending"}
  PROVE  /\ Goto(w, p) => ai' = [ai EXCEPT ![w] = [ai[w] EXCEPT !.pc = p]]
         /\ ai' = [ai EXCEPT ![w].pc = p, ![w].retried = TRUE] =>
               ai' = [ai EXCEPT ![w] = [ai[w] EXCEPT !.pc = p, !.retried = TRUE]]
<1>1. ai \in [Workers -> Consumer]
  BY DEF AutoReplyInv, AutoReplyTypeOK
<1>2. ai[w] \in Consumer
  BY <1>1
<1> QED BY <1>1, <1>2 DEF Goto, Consumer

\* A consumer at work is not waiting.
LEMMA AtWork ==
  ASSUME AutoReplyInv, NEW w \in Workers, ai[w].pc # "wait"
  PROVE  ai[w] # Waiting
  BY ConsumerFields

\* A consumer that is not sending has no call of CreateMessage under way.
LEMMA NotSending ==
  ASSUME AutoReplyInv, NEW w \in Workers, ai[w].pc # "sending"
  PROVE  req[w].phase = "idle"
  BY DEF AutoReplyInv, CallsTrue

\* The call is made: chat-service checks it, knows the message, or refuses.
LEMMA SendReplyStep ==
  ASSUME TypeInv, AutoReplyInv, NEW w \in Workers, SendReply(w)
  PROVE  [Next]_vars /\ TypeInv' /\ AutoReplyInv'
<1>0. /\ ai \in [Workers -> Consumer] /\ lock \subseteq DOMAIN messages
      /\ req \in [Requests -> Call] /\ w \in Requests
      /\ aiFaults' \in 0..MaxAIFaults /\ ai[w].pc = "send"
  BY AutoReplyAssumption DEF AutoReplyInv, AutoReplyTypeOK, TypeInv, TypeOK, SendReply
<1>1. lock' \subseteq DOMAIN messages
  BY <1>0 DEF SendReply, Done, Failed
<1>2. ReplyKey(w) \in ClientMsgIDs /\ ai[w] # Waiting /\ req[w].phase = "idle"
  BY <1>0, MessageOfConsumer, AtWork, NotSending DEF ReplyKey
<1>3. "ai" \in CallerTypes /\ None \in SendersOf("ai")
  BY AutoReplyAssumption DEF SendersOf
<1>4. CASE CheckMessage(w, "ai", None, ReplyKey(w)) /\ Goto(w, "sending") /\ UNCHANGED lock
  <2>1. [Next]_vars
    BY <1>0, <1>2, <1>3, <1>4 DEF Next, CreateMessage
  <2> DEFINE c == [ai[w] EXCEPT !.pc = "sending"]
  <2>2. c \in Consumer /\ c.pc = "sending" /\ c.msg = ai[w].msg /\ c.pc # "wait"
    BY <1>0, ConsumerFields
  <2>3. ai' = [ai EXCEPT ![w] = c]
    BY <1>4, ConsumerMoves
  <2>4. messages' = messages /\ \A q \in Requests : q # w => req'[q] = req[q]
    BY <1>0, <1>4 DEF CheckMessage
  <2>5. req'[w].sender = "ai" /\ req'[w].key = AIKey[c.msg]
    BY <1>0, <1>4, <2>2 DEF CheckMessage, ReplyKey
  <2>6. RowsFromInserts
    BY <2>4 DEF RowsFromInserts
  <2> HIDE DEF c
  <2>7. TypeInv' /\ AutoReplyInv'
    BY <1>0, <1>1, <1>2, <2>1, <2>2, <2>3, <2>4, <2>5, <2>6, ConsumerStep
  <2> QED BY <2>1, <2>7
<1>5. CASE ai' = [ai EXCEPT ![w] = Waiting] /\
           (ReuseMessage(w, "ai", None, ReplyKey(w)) \/ UNCHANGED vars)
  <2>1. [Next]_vars
    BY <1>0, <1>2, <1>3, <1>5 DEF Next, CreateMessage
  <2>2. messages' = messages /\ req' = req
    BY <1>5 DEF ReuseMessage, vars
  <2>3. RowsFromInserts
    BY <2>2 DEF RowsFromInserts
  <2>4. TypeInv' /\ AutoReplyInv'
    BY <1>0, <1>1, <1>2, <1>5, <2>1, <2>2, <2>3, ConsumerFields, ConsumerStep
  <2> QED BY <2>1, <2>4
<1> QED BY <1>4, <1>5 DEF SendReply, Done, Failed

\* A call of CreateMessage ends, and the consumer waits or calls again.
LEMMA CallEndsStep ==
  ASSUME TypeInv, AutoReplyInv, NEW w \in Workers, NEW c \in Consumer,
         \/ DuplicateMessage(w) \/ CommitMessage(w) \/ CommitUnacknowledged(w) \/ RollbackMessage(w),
         ai' = [ai EXCEPT ![w] = c],
         c = Waiting \/ (c.pc # "wait" /\ ai[w] # Waiting /\ c.msg = ai[w].msg),
         lock' \subseteq DOMAIN messages, aiFaults' \in 0..MaxAIFaults
  PROVE  [Next]_vars /\ TypeInv' /\ AutoReplyInv'
<1>0. req \in [Requests -> Call] /\ w \in Requests
  BY AutoReplyAssumption DEF TypeInv, TypeOK
<1>1. [Next]_vars
  BY <1>0 DEF Next, CreateMessage
<1>2. req' = [req EXCEPT ![w] = Idle] /\ DOMAIN messages' = DOMAIN messages
  BY DEF DuplicateMessage, CommitMessage, CommitUnacknowledged, CommitRow, RollbackMessage
<1>3. req'[w].phase = "idle" /\ \A q \in Requests : q # w => req'[q] = req[q]
  BY <1>0, <1>2 DEF Idle
<1>4. RowsFromInserts
  BY <1>2 DEF RowsFromInserts
<1>5. TypeInv' /\ AutoReplyInv'
  BY <1>1, <1>3, <1>4, ConsumerStep
<1> QED BY <1>1, <1>5

\* The row is written, committed, or found to be there already.
LEMMA ReplyEndsStep ==
  ASSUME TypeInv, AutoReplyInv, NEW w \in Workers, ReplyEnds(w)
  PROVE  [Next]_vars /\ TypeInv' /\ AutoReplyInv'
<1>0. /\ ai \in [Workers -> Consumer] /\ lock' \subseteq DOMAIN messages
      /\ req \in [Requests -> Call] /\ w \in Requests
      /\ aiFaults' \in 0..MaxAIFaults /\ ai[w].pc = "sending"
  BY AutoReplyAssumption DEF AutoReplyInv, AutoReplyTypeOK, TypeInv, TypeOK, ReplyEnds, Done
<1>1. CASE InsertMessage(w) /\ UNCHANGED <<ai, lock>>
  <2>1. [Next]_vars /\ RowsFromInserts
    BY <1>0, <1>1 DEF Next, CreateMessage, RowsFromInserts
  <2>2. ai[w] \in Consumer /\ ai' = [ai EXCEPT ![w] = ai[w]] /\ ai[w] # Waiting
    BY <1>0, <1>1, AtWork
  <2>3. req' = [req EXCEPT ![w] = [req[w] EXCEPT !.phase = "inserted", !.msg = Len(messages) + 1]]
    BY <1>0, <1>1 DEF InsertMessage
  <2>4. /\ \A q \in Requests : q # w => req'[q] = req[q]
        /\ req'[w] = [req[w] EXCEPT !.phase = "inserted", !.msg = Len(messages) + 1]
    BY <1>0, <2>3
  <2>5. req'[w].sender = req[w].sender /\ req'[w].key = req[w].key
    BY <1>0, <2>4 DEF Call
  <2>6. req[w].sender = "ai" /\ req[w].key = AIKey[ai[w].msg]
    BY <1>1 DEF AutoReplyInv, CallsTrue, InsertMessage
  <2>7. TypeInv' /\ AutoReplyInv'
    BY <1>0, <2>1, <2>2, <2>4, <2>5, <2>6, ConsumerStep
  <2> QED BY <2>1, <2>7
<1>2. CASE (CommitMessage(w) \/ DuplicateMessage(w)) /\ Done(w)
  BY <1>0, <1>2, ConsumerFields, CallEndsStep DEF Done
<1> QED BY <1>1, <1>2 DEF ReplyEnds

\* The call fails, with its effect or without.
LEMMA ReplyFailsStep ==
  ASSUME TypeInv, AutoReplyInv, NEW w \in Workers, ReplyFails(w)
  PROVE  [Next]_vars /\ TypeInv' /\ AutoReplyInv'
<1>0. /\ ai \in [Workers -> Consumer] /\ lock \subseteq DOMAIN messages /\ aiFaults \in 0..MaxAIFaults
      /\ ai[w].pc = "sending"
  BY DEF AutoReplyInv, AutoReplyTypeOK, ReplyFails
<1>1. lock' \subseteq DOMAIN messages
  BY <1>0 DEF ReplyFails, Failed
<1>2. aiFaults' \in 0..MaxAIFaults
  BY <1>0, AutoReplyAssumption DEF ReplyFails, AIFault
<1>3. ai[w] # Waiting /\ ai[w] \in Consumer
  BY <1>0, AtWork
<1>4. CommitUnacknowledged(w) \/ RollbackMessage(w)
  BY DEF ReplyFails
<1>5. CASE ai' = [ai EXCEPT ![w].pc = "send", ![w].retried = TRUE]
  <2> DEFINE c == [ai[w] EXCEPT !.pc = "send", !.retried = TRUE]
  <2>1. c \in Consumer /\ c.pc # "wait" /\ c.msg = ai[w].msg
    BY <1>3, ConsumerFields
  <2>2. ai' = [ai EXCEPT ![w] = c]
    BY <1>5, ConsumerMoves
  <2> HIDE DEF c
  <2> QED BY <1>1, <1>2, <1>3, <1>4, <2>1, <2>2, CallEndsStep
<1>6. CASE ai' = [ai EXCEPT ![w] = Waiting]
  BY <1>1, <1>2, <1>4, <1>6, ConsumerFields, CallEndsStep
<1> QED BY <1>5, <1>6 DEF ReplyFails, Failed

\* ai-service dies; chat-service rolls back what was not committed.
LEMMA CrashWorkerStep ==
  ASSUME TypeInv, AutoReplyInv, NEW w \in Workers, CrashWorker(w)
  PROVE  [Next]_vars /\ TypeInv' /\ AutoReplyInv'
<1>1. lock' \subseteq DOMAIN messages /\ ai' = [ai EXCEPT ![w] = Waiting] /\ Waiting \in Consumer
  BY ConsumerFields DEF AutoReplyInv, AutoReplyTypeOK, CrashWorker, Done
<1>2. aiFaults' \in 0..MaxAIFaults
  BY AutoReplyAssumption DEF AutoReplyInv, AutoReplyTypeOK, CrashWorker, AIFault
<1>3. CASE RollbackMessage(w)
  BY <1>1, <1>2, <1>3, CallEndsStep
<1>4. CASE UNCHANGED vars /\ req[w].phase = "idle"
  <2>1. messages' = messages /\ req' = req /\ [Next]_vars
    BY <1>4 DEF vars
  <2>2. RowsFromInserts
    BY <2>1 DEF RowsFromInserts
  <2>3. TypeInv' /\ AutoReplyInv'
    BY <1>1, <1>2, <1>4, <2>1, <2>2, ConsumerStep
  <2> QED BY <2>1, <2>3
<1> QED BY <1>3, <1>4 DEF CrashWorker

-----------------------------------------------------------------------------
(* The composition *)

\* The composition starts as Conversation does.
LEMMA AutoReplyInitInv == AutoReplyInit => Init /\ TypeInv /\ AutoReplyInv
<1> SUFFICES ASSUME AutoReplyInit PROVE Init /\ TypeInv /\ AutoReplyInv
  OBVIOUS
<1>1. Init /\ TypeInv
  BY InitTypeInv DEF AutoReplyInit
<1>2. messages = << >> /\ req = [r \in Requests |-> Idle]
  BY DEF AutoReplyInit, Init
<1>3. AutoReplyTypeOK
  <2>1. Waiting \in Consumer
    BY ConsumerFields
  <2>2. ai \in [Workers -> Consumer]
    BY <2>1 DEF AutoReplyInit
  <2>3. lock \subseteq DOMAIN messages /\ aiFaults \in 0..MaxAIFaults
    BY AutoReplyAssumption DEF AutoReplyInit
  <2> QED BY <2>2, <2>3 DEF AutoReplyTypeOK
<1>4. Len(messages) <= MaxMessages /\ AnswersTrue
  BY <1>2, ConstantsAssumption DEF AnswersTrue
<1>5. ConsumersTrue
  BY DEF AutoReplyInit, ConsumersTrue
<1>6. CallsTrue
  BY <1>2, AutoReplyAssumption DEF CallsTrue, Idle
<1> QED BY <1>1, <1>3, <1>4, <1>5, <1>6 DEF AutoReplyInv

\* Every step of the composition keeps the invariant and is a step of
\* Conversation or leaves it alone.
LEMMA AutoReplyNextInv ==
  TypeInv /\ AutoReplyInv /\ [AutoReplyNext]_arVars => [Next]_vars /\ TypeInv' /\ AutoReplyInv'
<1> SUFFICES ASSUME TypeInv, AutoReplyInv, [AutoReplyNext]_arVars
             PROVE  [Next]_vars /\ TypeInv' /\ AutoReplyInv'
  OBVIOUS
<1>1. CASE UNCHANGED arVars
  <2>1. [Next]_vars /\ messages' = messages /\ req' = req /\ ai' = ai /\ lock' = lock /\ aiFaults' = aiFaults
    BY <1>1 DEF arVars, vars
  <2>2. TypeInv'
    BY <2>1, NextTypeInv
  <2>3. AutoReplyInv'
    BY <2>1 DEF AutoReplyInv, AutoReplyTypeOK, ConsumersTrue, CallsTrue, AnswersTrue
  <2> QED BY <2>1, <2>2, <2>3
<1>2. ASSUME NEW w \in Workers, NEW m \in DOMAIN messages, Receive(w, m)
      PROVE  [Next]_vars /\ TypeInv' /\ AutoReplyInv'
  BY <1>2, ReadingSteps
<1>3. ASSUME NEW w \in Workers,
             \/ CheckConversation(w) \/ CheckConfig(w) \/ CheckLatest(w)
             \/ ReadFails(w) \/ ListFails(w)
      PROVE  [Next]_vars /\ TypeInv' /\ AutoReplyInv'
  BY <1>3, ReadingSteps
<1>4. ASSUME NEW w \in Workers, SendReply(w) \/ ReplyEnds(w) \/ ReplyFails(w) \/ CrashWorker(w)
      PROVE  [Next]_vars /\ TypeInv' /\ AutoReplyInv'
  BY <1>4, SendReplyStep, ReplyEndsStep, ReplyFailsStep, CrashWorkerStep
<1>5. ASSUME NEW m \in lock, LockExpires(m)
      PROVE  [Next]_vars /\ TypeInv' /\ AutoReplyInv'
  BY <1>5, LockExpiresStep
<1>6. ASSUME NEW r \in Requests \ Workers,
             \/ \E s \in CallerTypes \ {"ai"}, k \in ClientMsgIDs \ AIKeys :
                   \E by \in SendersOf(s) : SendMessage(r, s, by, k)
             \/ FinishMessage(r)
      PROVE  [Next]_vars /\ TypeInv' /\ AutoReplyInv'
  BY <1>6, WritingSteps
<1>7. CASE ManageMeanwhile
  BY <1>7, ManageMeanwhileStep
<1> QED BY <1>1, <1>2, <1>3, <1>4, <1>5, <1>6, <1>7 DEF AutoReplyNext

\* The invariant holds in every state.
LEMMA AutoReplyInvariant == AutoReplySpec => [](TypeInv /\ AutoReplyInv)
  BY AutoReplyInitInv, AutoReplyNextInv, PTL DEF AutoReplySpec

(* Whatever the consumers of ai-service do, with their locks, retries and  *)
(* crashes, is behaviour of chat-service that module Conversation allows:  *)
(* every theorem about conversations holds with them too.                  *)
THEOREM AutoReplyImplements == AutoReplySpec => Spec
  BY AutoReplyInitInv, AutoReplyNextInv, AutoReplyInvariant, PTL DEF AutoReplySpec, Spec

\* The key of an answer tells which message it answers.
LEMMA AnsweredIs ==
  ASSUME NEW i \in DOMAIN messages, NEW m \in 1..MaxMessages, messages[i].key = AIKey[m]
  PROVE  Answered(i) = m
  BY AutoReplyAssumption DEF Answered

(* Every automatic reply answers an earlier message of the visitor, and no *)
(* message gets two, however often its event is delivered, whichever       *)
(* instances handle it, and whatever became of earlier attempts.           *)
THEOREM RepliesSafe == AutoReplySpec => []OneReplyPerMessage
<1>1. AutoReplyInv /\ KeysUnique => OneReplyPerMessage
  <2> SUFFICES ASSUME AutoReplyInv, KeysUnique, NEW i \in Replies
               PROVE  /\ Answered(i) < i
                      /\ messages[Answered(i)].sender = "visitor"
                      /\ \A j \in Replies : Answered(i) = Answered(j) => i = j
    BY DEF OneReplyPerMessage
  <2>1. \A j \in Replies : \E m \in 1..MaxMessages :
           /\ m < j /\ messages[j].key = AIKey[m] /\ messages[m].sender = "visitor"
           /\ Answered(j) = m
    BY AnsweredIs DEF AutoReplyInv, AnswersTrue, Replies
  <2>2. \A j \in Replies : messages[j].key = AIKey[Answered(j)]
    BY <2>1
  <2>3. \A j \in Replies : messages[i].key = messages[j].key => i = j
    BY DEF KeysUnique, Replies, Committed
  <2> QED BY <2>1, <2>2, <2>3
<1> QED BY <1>1, AutoReplyInvariant, AutoReplyImplements, KeysUniqueInvariant, PTL

================================================================================
