--------------------------- MODULE ConversationCreate ---------------------------
(***************************************************************************)
(* CreateConversation of chat-service for one (site_id, visitor_token):    *)
(* a Redis lock with a time to live, a query for an open conversation, an  *)
(* insert if there is none.  No unique index backs the lock.               *)
(*                                                                         *)
(* Time is counted in ticks.  A call ends with its context, CallTimeout    *)
(* ticks after it began: the gateway sets that deadline                    *)
(* (GRPC_CALL_TIMEOUT_SEC, 8 s by default), and dbWithContext adds its own *)
(* query timeout only to contexts that have none.  The lock lives LockTTL  *)
(* ticks (conversationCreateLock, 5 s), so a slow call outlives its lock.  *)
(* An insert that the server was given before its call ended may still     *)
(* take effect afterwards.                                                 *)
(***************************************************************************)
EXTENDS Naturals, Sequences, FiniteSets

CONSTANTS
    Creators,           \* concurrent CreateConversation calls
    LockTTL,            \* conversationCreateLock
    CallTimeout,        \* deadline of a call
    MaxConversations,   \* bound on the rows, and on the count of overruns
    MaxLate,            \* bound on inserts under way whose call has ended
    None

ASSUME CreateAssumption ==
    /\ None \notin Creators
    /\ IsFiniteSet(Creators)
    /\ LockTTL \in Nat \ {0}
    /\ CallTimeout \in Nat \ {0}
    /\ MaxConversations \in Nat
    /\ MaxLate \in Nat

VARIABLES
    convs,  \* status of each conversation of this visitor, oldest first
    lock,   \* the Redis key: whose token it holds, and its age
    call,   \* the state of each call
    late,   \* inserts under way whose call has ended
    overruns    \* history: locks that expired under their call, and late inserts

createVars == <<convs, lock, call, late, overruns>>

Free == [holder |-> None, age |-> 0]
NoCall == [pc |-> "idle", age |-> 0]

TypeOK ==
    /\ convs \in Seq({"open", "closed"})
    /\ lock \in [holder : Creators \cup {None}, age : 0..LockTTL]
    /\ call \in [Creators -> [pc : {"idle", "lock", "read", "insert", "unlock"}, age : 0..CallTimeout]]
    /\ late \in 0..MaxLate
    /\ overruns \in 0..MaxConversations

CreateInit ==
    /\ convs = << >>
    /\ lock = Free
    /\ call = [p \in Creators |-> NoCall]
    /\ late = 0
    /\ overruns = 0

OpenConversations == {i \in DOMAIN convs : convs[i] = "open"}

Goto(p, pc) == call' = [call EXCEPT ![p].pc = pc]

\* The count stops where it bounds nothing any more.
CountOverrun == overruns' = IF overruns < MaxConversations THEN overruns + 1 ELSE overruns

\* What a call that ends at its insert leaves behind: nothing, or an insert
\* that the server goes on with.
LeaveInsert(p) ==
    late' \in {late} \cup {n \in {late + 1} : call[p].pc = "insert" /\ n <= MaxLate}

-----------------------------------------------------------------------------

Begin(p) ==
    /\ call[p].pc = "idle"
    /\ Goto(p, "lock")
    /\ UNCHANGED <<convs, lock, late, overruns>>

\* Mutant of Acquire: SET in place of SETNX.
AcquireAlways(p) ==
    /\ call[p].pc = "lock"
    /\ lock' = [holder |-> p, age |-> 0]
    /\ Goto(p, "read")
    /\ UNCHANGED <<convs, late, overruns>>

\* SETNX token ttl; while it fails the call sleeps and tries again.
Acquire(p) ==
    /\ call[p].pc = "lock"
    /\ lock.holder = None
    /\ lock' = [holder |-> p, age |-> 0]
    /\ Goto(p, "read")
    /\ UNCHANGED <<convs, late, overruns>>

\* The context ends, or Redis fails, before the call knows the lock is its own:
\* the key may have been set, and then stays until it expires.
GiveUpLocking(p) ==
    /\ call[p].pc = "lock"
    /\ call' = [call EXCEPT ![p] = NoCall]
    /\ \/ UNCHANGED lock
       \/ lock.holder = None /\ lock' = [holder |-> p, age |-> 0]
    /\ UNCHANGED <<convs, late, overruns>>

\* GetLatestOpenBySiteVisitor finds one (it is returned), or none.
ReadOpen(p) ==
    /\ call[p].pc = "read"
    /\ Goto(p, IF OpenConversations # {} THEN "unlock" ELSE "insert")
    /\ UNCHANGED <<convs, lock, late, overruns>>

InsertConversation(p) ==
    /\ call[p].pc = "insert"
    /\ Len(convs) < MaxConversations
    /\ convs' = Append(convs, "open")
    /\ Goto(p, "unlock")
    /\ UNCHANGED <<lock, late, overruns>>

\* A statement fails or the context ends: the deferred unlock still runs.
QueryFails(p) ==
    /\ call[p].pc \in {"read", "insert"}
    /\ Goto(p, "unlock")
    /\ LeaveInsert(p)
    /\ UNCHANGED <<convs, lock, overruns>>

\* The insert of a call that has ended takes effect.
LateInsert ==
    /\ late > 0
    /\ Len(convs) < MaxConversations
    /\ convs' = Append(convs, "open")
    /\ late' = late - 1
    /\ CountOverrun
    /\ UNCHANGED <<lock, call>>

\* Mutant of Unlock: DEL without comparing the token.
UnlockUnchecked(p) ==
    /\ call[p].pc = "unlock"
    /\ lock' = Free
    /\ call' = [call EXCEPT ![p] = NoCall]
    /\ UNCHANGED <<convs, late, overruns>>

\* releaseConversationLockScript: delete the key only if it holds our token.
Unlock(p) ==
    /\ call[p].pc = "unlock"
    /\ lock' = IF lock.holder = p THEN Free ELSE lock
    /\ call' = [call EXCEPT ![p] = NoCall]
    /\ UNCHANGED <<convs, late, overruns>>

\* The script cannot be run (logged), or the process dies at any point: the
\* key stays until it expires.
Abandon(p) ==
    /\ call[p].pc # "idle"
    /\ call' = [call EXCEPT ![p] = NoCall]
    /\ LeaveInsert(p)
    /\ UNCHANGED <<convs, lock, overruns>>

\* Redis drops the key, whatever its holder is about.
Expire ==
    /\ lock.holder # None
    /\ lock.age = LockTTL
    /\ lock' = Free
    /\ IF call[lock.holder].pc \in {"read", "insert"} THEN CountOverrun ELSE UNCHANGED overruns
    /\ UNCHANGED <<convs, call, late>>

\* An agent or the timer closes a conversation.
Close(i) ==
    /\ convs[i] = "open"
    /\ convs' = [convs EXCEPT ![i] = "closed"]
    /\ UNCHANGED <<lock, call, late, overruns>>

\* A call past its deadline, or a key past its life, does not wait.
CallsAge ==
    /\ \A p \in Creators : call[p].pc \in {"lock", "read", "insert"} => call[p].age < CallTimeout
    /\ lock.holder # None => lock.age < LockTTL
    /\ \/ lock.holder # None
       \/ \E p \in Creators : call[p].pc \in {"lock", "read", "insert"}
    /\ call' = [p \in Creators |->
                   IF call[p].pc \in {"lock", "read", "insert"}
                   THEN [call[p] EXCEPT !.age = @ + 1] ELSE call[p]]
    /\ lock' = IF lock.holder # None THEN [lock EXCEPT !.age = @ + 1] ELSE lock
    /\ UNCHANGED <<convs, late, overruns>>

CreateNext ==
    \/ \E p \in Creators :
          \/ Begin(p) \/ Acquire(p) \/ GiveUpLocking(p)
          \/ ReadOpen(p) \/ InsertConversation(p) \/ QueryFails(p)
          \/ Unlock(p) \/ Abandon(p)
    \/ LateInsert
    \/ Expire
    \/ \E i \in DOMAIN convs : Close(i)
    \/ CallsAge

CreateSpec == CreateInit /\ [][CreateNext]_createVars

-----------------------------------------------------------------------------
(* Properties *)

\* What docs/backend/conversation-state-machine.md promises of the lock: calls
\* that overlap never open two conversations for a visitor.  The code breaks
\* it, since the lock lives for less time than the call it protects.
AtMostOneOpen == Cardinality(OpenConversations) <= 1

\* Only two things make a second open conversation, one each time: a lock that
\* expires between its holder's query and insert, and an insert that takes
\* effect after its call has ended.  However else calls overlap, fail, lose
\* Redis's answers or die, the lock and the query keep a visitor to one.
DoubledByOverrun == Cardinality(OpenConversations) <= 1 + overruns

\* The lock leaves its holder only by the holder's own release or when its
\* time is up: a call that outlived its lock does not free a later holder's.
LockReleasedByHolder ==
    [][lock.holder # None /\ lock'.holder # lock.holder =>
          \/ lock.age = LockTTL
          \/ call[lock.holder].pc = "unlock" /\ call'[lock.holder].pc = "idle"]_createVars

=============================================================================
