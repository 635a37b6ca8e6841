------------------------------- MODULE AutoReply -------------------------------
(***************************************************************************)
(* Automatic answers: the conversation of module Conversation, together    *)
(* with the consumers of ai-service, one for each instance, which handle   *)
(* the message.new events of visitor messages one at a time.               *)
(*                                                                         *)
(* Redis pub/sub hands an event to any number of instances, and the outbox *)
(* may publish it again, so Receive may happen any number of times.  Every *)
(* call a consumer makes of chat-service is a step, and what it read is    *)
(* out of date by the next one.  A consumer's CreateMessage is the call of *)
(* that name in Conversation.                                              *)
(*                                                                         *)
(* Of the agents' operations the composition has claiming and closing: the *)
(* others need an assigned conversation, on which ai-service is silent.    *)
(***************************************************************************)
EXTENDS Conversation

CONSTANTS
    Workers,    \* consumers of ai-service; each is one of Requests
    AIKey,      \* buildAIClientMsgID: the key of the answer to each message
    MaxAIFaults \* bound on failed calls and crashes

AIKeys == {AIKey[m] : m \in 1..MaxMessages}

ASSUME AutoReplyAssumption ==
    /\ "ai" \in CallerTypes
    /\ Workers \subseteq Requests
    /\ AIKey \in [1..MaxMessages -> ClientMsgIDs]
    /\ \A m, n \in 1..MaxMessages : AIKey[m] = AIKey[n] => m = n
    /\ MaxAIFaults \in Nat

VARIABLES
    ai,         \* each consumer: where it is, and with which message
    lock,       \* messages whose reply lock (ai:reply:<conv>:<msg>) is set
    aiFaults    \* faults so far

arVars == <<vars, ai, lock, aiFaults>>

Waiting == [pc |-> "wait", msg |-> 0, retried |-> FALSE]

\* conversation1 .. latest1 are the reads of processVisitorMessage,
\* conversation2 and latest2 those of createReply.
Consumer ==
    [pc : {"wait", "conversation1", "config", "latest1", "conversation2", "latest2", "send", "sending"},
     msg : Nat,
     retried : BOOLEAN]     \* DynamicClient has used its one retry

AutoReplyTypeOK ==
    /\ ai \in [Workers -> Consumer]
    /\ lock \subseteq DOMAIN messages
    /\ aiFaults \in 0..MaxAIFaults

AutoReplyInit ==
    /\ Init
    /\ ai = [w \in Workers |-> Waiting]
    /\ lock = {}
    /\ aiFaults = 0

AIFault == aiFaults < MaxAIFaults /\ aiFaults' = aiFaults + 1

Goto(w, pc) == ai' = [ai EXCEPT ![w].pc = pc]

\* HandleEvent returns nil and the lock is kept, or an error and it is deleted.
Done(w) == ai' = [ai EXCEPT ![w] = Waiting] /\ UNCHANGED lock
Failed(w) == ai' = [ai EXCEPT ![w] = Waiting] /\ lock' = lock \ {ai[w].msg}

-----------------------------------------------------------------------------
(* HandleEvent *)

\* The outbox events that announce a message; the others are ignored.
ParseMessageCreatedEvent(j, m) == outbox[j] = MessageNew(m)

\* The message.new event of a visitor's message; SETNX gets the lock.  When
\* the lock is taken the event is dropped, which changes nothing.
Receive(w, m) ==
    /\ ai[w] = Waiting
    /\ \E j \in DOMAIN outbox : ParseMessageCreatedEvent(j, m)
    /\ messages[m].sender = "visitor"
    /\ m \notin lock
    /\ lock' = lock \cup {m}
    /\ ai' = [ai EXCEPT ![w] = [pc |-> "conversation1", msg |-> m, retried |-> FALSE]]
    /\ UNCHANGED <<vars, aiFaults>>

\* GetConversation: only an open conversation without an agent is answered.
Unattended == conv.status = "open" /\ conv.assigned = None

CheckConversation(w) ==
    /\ ai[w].pc \in {"conversation1", "conversation2"}
    /\ IF Unattended
       THEN /\ Goto(w, IF ai[w].pc = "conversation1" THEN "config" ELSE "latest2")
            /\ UNCHANGED lock
       ELSE Done(w)
    /\ UNCHANGED <<vars, aiFaults>>

\* GetSiteAIConfig: the site may have automatic answers switched on or off.
CheckConfig(w) ==
    /\ ai[w].pc = "config"
    /\ (Goto(w, "latest1") /\ UNCHANGED lock) \/ Done(w)
    /\ UNCHANGED <<vars, aiFaults>>

\* isLatestVisitorMessage: ListMessages with limit 1 returns the message.
IsLatest(m) == Committed(m) /\ \A i \in DOMAIN messages : Committed(i) => i <= m

\* Retrieval and generation of the text lie between latest1 and conversation2.
CheckLatest(w) ==
    /\ ai[w].pc \in {"latest1", "latest2"}
    /\ IF IsLatest(ai[w].msg)
       THEN /\ Goto(w, IF ai[w].pc = "latest1" THEN "conversation2" ELSE "send")
            /\ UNCHANGED lock
       ELSE Done(w)
    /\ UNCHANGED <<vars, aiFaults>>

\* GetConversation or GetSiteAIConfig fails.
ReadFails(w) ==
    /\ ai[w].pc \in {"conversation1", "config", "conversation2"}
    /\ AIFault
    /\ Failed(w)
    /\ UNCHANGED vars

\* ListMessages fails: taken for "not the latest message".
ListFails(w) ==
    /\ ai[w].pc \in {"latest1", "latest2"}
    /\ AIFault
    /\ Done(w)
    /\ UNCHANGED vars

-----------------------------------------------------------------------------
(* createReply: the call of CreateMessage *)

\* Mutant of ReplyKey: the key is built from the newest message's id, not the event's.
NewestKey(w) == AIKey[Len(messages)]

ReplyKey(w) == AIKey[ai[w].msg]

SendReply(w) ==
    /\ ai[w].pc = "send"
    /\ \/ CheckMessage(w, "ai", None, ReplyKey(w)) /\ Goto(w, "sending") /\ UNCHANGED lock
       \/ ReuseMessage(w, "ai", None, ReplyKey(w)) /\ Done(w)
       \/ conv.status = "closed" /\ Failed(w) /\ UNCHANGED vars
    /\ UNCHANGED aiFaults

\* Success, or AlreadyExists, which createReply takes for success.
ReplyEnds(w) ==
    /\ ai[w].pc = "sending"
    /\ \/ InsertMessage(w) /\ UNCHANGED <<ai, lock>>
       \/ (CommitMessage(w) \/ DuplicateMessage(w)) /\ Done(w)
    /\ UNCHANGED aiFaults

\* The call fails, with or without its effect.  DynamicClient calls once more
\* when the error was Unavailable or DeadlineExceeded.
ReplyFails(w) ==
    /\ ai[w].pc = "sending"
    /\ AIFault
    /\ CommitUnacknowledged(w) \/ RollbackMessage(w)
    /\ \/ /\ ~ai[w].retried
          /\ ai' = [ai EXCEPT ![w].pc = "send", ![w].retried = TRUE]
          /\ UNCHANGED lock
       \/ Failed(w)

-----------------------------------------------------------------------------
(* The surroundings *)

\* ai-service dies: its locks stay, its transaction is rolled back.
CrashWorker(w) ==
    /\ ai[w] # Waiting
    /\ AIFault
    /\ IF req[w].phase = "idle" THEN UNCHANGED vars ELSE RollbackMessage(w)
    /\ Done(w)

\* replyLockTTL (10 min) is far above processTimeout: only a lock that no
\* consumer works under expires.
LockExpires(m) ==
    /\ \A w \in Workers : ai[w].msg # m
    /\ lock' = lock \ {m}
    /\ UNCHANGED <<vars, ai, aiFaults>>

\* Other callers of CreateMessage are visitors and agents, and choose keys of
\* their own.
SendMessage(r, s, by, k) ==
    /\ CheckMessage(r, s, by, k) \/ ReuseMessage(r, s, by, k)
    /\ UNCHANGED <<ai, lock, aiFaults>>

FinishMessage(r) ==
    /\ InsertMessage(r) \/ DuplicateMessage(r) \/ CommitMessage(r) \/ RollbackMessage(r)
    /\ UNCHANGED <<ai, lock, aiFaults>>

ManageMeanwhile ==
    /\ \/ \E agent \in Agents : ClaimConversation(agent)
       \/ \E a \in Actor : CloseConversation(a)
    /\ UNCHANGED <<ai, lock, aiFaults>>

-----------------------------------------------------------------------------

AutoReplyNext ==
    \/ \E w \in Workers :
          \/ \E m \in DOMAIN messages : Receive(w, m)
          \/ CheckConversation(w) \/ CheckConfig(w) \/ CheckLatest(w)
          \/ ReadFails(w) \/ ListFails(w)
          \/ SendReply(w) \/ ReplyEnds(w) \/ ReplyFails(w)
          \/ CrashWorker(w)
    \/ \E m \in lock : LockExpires(m)
    \/ \E r \in Requests \ Workers :
          \/ \E s \in CallerTypes \ {"ai"}, k \in ClientMsgIDs \ AIKeys :
                \E by \in SendersOf(s) : SendMessage(r, s, by, k)
          \/ FinishMessage(r)
    \/ ManageMeanwhile

AutoReplySpec == AutoReplyInit /\ [][AutoReplyNext]_arVars

-----------------------------------------------------------------------------
(* Properties *)

Replies == {i \in DOMAIN messages : Committed(i) /\ messages[i].sender = "ai"}

\* The message a reply answers.
Answered(i) == CHOOSE m \in 1..MaxMessages : AIKey[m] = messages[i].key

\* Every automatic reply answers an earlier message of the visitor, and no
\* message gets two, however often its event is delivered, whichever
\* instances handle it, and whatever became of earlier attempts.
OneReplyPerMessage ==
    \A i \in Replies :
        /\ Answered(i) < i
        /\ messages[Answered(i)].sender = "visitor"
        /\ \A j \in Replies : Answered(i) = Answered(j) => i = j

=============================================================================
