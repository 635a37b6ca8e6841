------------------------------- MODULE AutoClose -------------------------------
(***************************************************************************)
(* Automatic closing: the conversation of module Conversation, together    *)
(* with the memory of the chat-service process that serves it, which holds *)
(* one timer for the conversation (autoCloseScheduler.timers).             *)
(*                                                                         *)
(* The timer is set and cancelled by hooks that run after the transaction  *)
(* of CreateMessage or CloseConversation has committed, in the goroutine   *)
(* of that call and in no particular order between calls.  A timer that    *)
(* fires removes its entry and then runs autoCloseConversationByTimeout,   *)
(* which decides again from the database.  A crash loses the timers; the   *)
(* next start rebuilds them from the database.                             *)
(* MarkMessagesRead changes nothing the scheduler looks at and is left     *)
(* out of the composition.                                                 *)
(***************************************************************************)
EXTENDS Conversation

CONSTANTS
    Callbacks,          \* timer callbacks that may run at the same time
    AutoCloseAfter,     \* AUTO_CLOSE_AFTER_SEC
    MaxTime,            \* bound on the clock
    MaxCrashes,         \* bound on crashes of the process
    MaxFaults           \* bound on lost commit answers and failed closes

ASSUME AutoCloseAssumption ==
    /\ AutoCloseAfter \in Nat \ {0}
    /\ None \notin Nat
    /\ MaxTime \in Nat
    /\ MaxCrashes \in Nat
    /\ MaxFaults \in Nat

VARIABLES
    now,        \* the clock
    created,    \* created_at of each row of messages
    up,         \* the process is running
    timer,      \* due time of the conversation's timer, or None
    hook,       \* message whose hook call r still has to run, or 0
    closing,    \* a CloseConversation call still has to cancel the timer
    cb,         \* timer callbacks in progress
    faults,     \* failed database calls so far
    crashes,    \* crashes so far
    overtaken   \* history: see OnMessageCreated

memory == <<timer, hook, closing, cb>>
acVars == <<vars, now, created, up, memory, faults, crashes, overtaken>>

Callback == [step : {"idle", "due", "cancel"}, at : {0}] \cup [step : {"schedule"}, at : Nat]
Resting == [step |-> "idle", at |-> 0]

AutoCloseTypeOK ==
    /\ now \in 0..MaxTime
    /\ created \in [DOMAIN messages -> 0..MaxTime]
    /\ up \in BOOLEAN
    /\ timer \in Nat \cup {None}
    /\ hook \in [Requests -> Nat]
    /\ closing \in BOOLEAN
    /\ cb \in [Callbacks -> Callback]
    /\ faults \in 0..MaxFaults
    /\ crashes \in 0..MaxCrashes
    /\ overtaken \in BOOLEAN

EmptyMemory ==
    /\ timer' = None
    /\ hook' = [r \in Requests |-> 0]
    /\ closing' = FALSE
    /\ cb' = [c \in Callbacks |-> Resting]

AutoCloseInit ==
    /\ Init
    /\ now = 0
    /\ created = << >>
    /\ up = TRUE
    /\ timer = None
    /\ hook = [r \in Requests |-> 0]
    /\ closing = FALSE
    /\ cb = [c \in Callbacks |-> Resting]
    /\ faults = 0
    /\ crashes = 0
    /\ overtaken = FALSE

-----------------------------------------------------------------------------

\* gorm stamps created_at when it inserts a row.
StampNewRows ==
    created' = [i \in DOMAIN messages' |-> IF i \in DOMAIN messages THEN created[i] ELSE now]

\* Rows are written early enough for their deadline to fall within MaxTime.
WithinTime == now + AutoCloseAfter <= MaxTime

Fault == faults < MaxFaults /\ faults' = faults + 1

\* An operation of Conversation that does not touch the process's memory.
Serve(step) ==
    /\ up
    /\ step
    /\ StampNewRows
    /\ UNCHANGED <<now, up, memory, faults, crashes, overtaken>>

LatestFromAgent == LatestNonSystem # 0 /\ messages[LatestNonSystem].sender = "agent"
Deadline == created[LatestNonSystem] + AutoCloseAfter

-----------------------------------------------------------------------------
(* CreateMessage and its hook *)

BeforeCommit(r) ==
    /\ hook[r] = 0
    /\ \/ Serve(\E s \in CallerTypes, k \in ClientMsgIDs : \E by \in SendersOf(s) :
                    CheckMessage(r, s, by, k) \/ ReuseMessage(r, s, by, k))
       \/ WithinTime /\ Serve(InsertMessage(r))
       \/ Serve(DuplicateMessage(r))
       \/ Serve(RollbackMessage(r))

CommitThenHook(r) ==
    /\ up
    /\ CommitMessage(r)
    /\ hook' = [hook EXCEPT ![r] = req[r].msg]
    /\ UNCHANGED <<now, created, up, timer, closing, cb, faults, crashes, overtaken>>

\* The commit's answer is lost: CreateMessage returns the error, no hook runs.
CommitWithoutHook(r) ==
    /\ up
    /\ Fault
    /\ CommitUnacknowledged(r)
    /\ UNCHANGED <<now, created, up, memory, crashes, overtaken>>

\* onMessageCreatedForAutoClose: Schedule replaces the timer, Cancel drops it.
HookTimer(m) ==
    CASE messages[m].sender = "agent" -> created[m] + AutoCloseAfter
      [] messages[m].sender = "visitor" -> None
      [] OTHER -> timer

\* A visitor's hook drops the timer after a newer message of an agent has been
\* committed, or has done so and no agent's hook has set a timer since.
CancelsWaiting(m) ==
    CASE messages[m].sender = "agent" -> FALSE
      [] messages[m].sender = "visitor" -> LatestFromAgent
      [] OTHER -> overtaken

OnMessageCreated(r) ==
    /\ up
    /\ hook[r] # 0
    /\ timer' = HookTimer(hook[r])
    /\ hook' = [hook EXCEPT ![r] = 0]
    /\ overtaken' = CancelsWaiting(hook[r])
    /\ UNCHANGED <<vars, now, created, up, closing, cb, faults, crashes>>

-----------------------------------------------------------------------------
(* Operations of agents *)

Close(a) ==
    /\ up
    /\ ~closing
    /\ \/ CloseConversation(a)
       \/ conv.status = "closed" /\ UNCHANGED vars     \* repeated: idempotent
    /\ closing' = TRUE
    /\ UNCHANGED <<now, created, up, timer, hook, cb, faults, crashes, overtaken>>

CancelAfterClose ==
    /\ up
    /\ closing
    /\ timer' = None
    /\ closing' = FALSE
    /\ UNCHANGED <<vars, now, created, up, hook, cb, faults, crashes, overtaken>>

Manage ==
    \/ \E agent \in Agents : Serve(ClaimConversation(agent))
    \/ WithinTime /\ \E a \in Actor, to \in Agents : Serve(TransferConversation(a, to))
    \/ WithinTime /\ \E a \in Actor : Serve(ConfirmTransferConversation(a))
    \/ WithinTime /\ \E a \in Actor : Serve(RejectTransferConversation(a))

-----------------------------------------------------------------------------
(* The timer *)

\* fire: the entry is removed, then onAutoCloseDue runs in its goroutine.
FireTimer(c) ==
    /\ up
    /\ timer # None
    /\ timer <= now
    /\ cb[c].step = "idle"
    /\ timer' = None
    /\ cb' = [cb EXCEPT ![c].step = "due"]
    /\ UNCHANGED <<vars, now, created, up, hook, closing, faults, crashes, overtaken>>

\* Mutant of DueNow: the callback trusts its timer and not the database.
DueWhenFired == LatestFromAgent

\* autoCloseConversationByTimeout, its transaction: close, ask for a later
\* look, or leave the conversation alone.
DueNow == LatestFromAgent /\ Deadline <= now

CloseIfDue(c) ==
    /\ up
    /\ cb[c].step = "due"
    /\ DueNow
    /\ AutoCloseConversation
    /\ cb' = [cb EXCEPT ![c].step = "cancel"]
    /\ UNCHANGED <<now, created, up, timer, hook, closing, faults, crashes, overtaken>>

LookAgainLater(c) ==
    /\ up
    /\ cb[c].step = "due"
    /\ RowLockFree
    /\ conv.status = "open" /\ LatestFromAgent /\ Deadline > now
    /\ cb' = [cb EXCEPT ![c] = [step |-> "schedule", at |-> Deadline]]
    /\ UNCHANGED <<vars, now, created, up, timer, hook, closing, faults, crashes, overtaken>>

LeaveAlone(c) ==
    /\ up
    /\ cb[c].step = "due"
    /\ RowLockFree
    /\ conv.status # "open" \/ ~LatestFromAgent
    /\ cb' = [cb EXCEPT ![c] = Resting]
    /\ UNCHANGED <<vars, now, created, up, timer, hook, closing, faults, crashes, overtaken>>

\* The transaction fails: onAutoCloseDue logs the error and gives up.
AutoCloseFails(c) ==
    /\ up
    /\ cb[c].step = "due"
    /\ Fault
    /\ cb' = [cb EXCEPT ![c] = Resting]
    /\ UNCHANGED <<vars, now, created, up, timer, hook, closing, crashes, overtaken>>

\* After the transaction: Schedule the later look, or Cancel after closing.
CallbackEnds(c) ==
    /\ up
    /\ cb[c].step \in {"schedule", "cancel"}
    /\ timer' = IF cb[c].step = "schedule" THEN cb[c].at ELSE None
    /\ cb' = [cb EXCEPT ![c] = Resting]
    /\ UNCHANGED <<vars, now, created, up, hook, closing, faults, crashes, overtaken>>

-----------------------------------------------------------------------------
(* Process crash and restart *)

Crash ==
    /\ up
    /\ crashes < MaxCrashes
    /\ crashes' = crashes + 1
    /\ up' = FALSE
    /\ EmptyMemory
    /\ UNCHANGED <<vars, now, created, faults, overtaken>>

\* MySQL ends the transactions of a dead client.
ServerRollsBack(r) ==
    /\ ~up
    /\ RollbackMessage(r)
    /\ UNCHANGED <<now, created, up, memory, faults, crashes, overtaken>>

\* Mutant of Restart: timers of conversations not yet due are not rebuilt.
RestartWithoutTimers ==
    /\ ~up
    /\ \A r \in Requests : req[r].phase = "idle"
    /\ up' = TRUE
    /\ overtaken' = FALSE
    /\ IF conv.status = "open" /\ DueNow
       THEN AutoCloseConversation
       ELSE UNCHANGED vars
    /\ UNCHANGED <<now, created, memory, faults, crashes>>

\* StartAutoCloseScheduler, before the process serves its first call.
Restart ==
    /\ ~up
    /\ \A r \in Requests : req[r].phase = "idle"
    /\ up' = TRUE
    /\ overtaken' = FALSE
    /\ IF conv.status = "open" /\ DueNow
       THEN AutoCloseConversation
       ELSE UNCHANGED vars
    /\ timer' = IF conv.status = "open" /\ LatestFromAgent /\ Deadline > now
                THEN Deadline ELSE timer
    /\ UNCHANGED <<now, created, hook, closing, cb, faults, crashes>>

Tick ==
    /\ now < MaxTime
    /\ now' = now + 1
    /\ UNCHANGED <<vars, created, up, memory, faults, crashes, overtaken>>

-----------------------------------------------------------------------------

RunCallback(c) == CloseIfDue(c) \/ LookAgainLater(c) \/ LeaveAlone(c) \/ CallbackEnds(c)

AutoCloseNext ==
    \/ \E r \in Requests :
          \/ BeforeCommit(r) \/ CommitThenHook(r) \/ CommitWithoutHook(r)
          \/ OnMessageCreated(r) \/ ServerRollsBack(r)
    \/ \E a \in Actor : Close(a)
    \/ CancelAfterClose
    \/ Manage
    \/ \E c \in Callbacks : FireTimer(c) \/ RunCallback(c) \/ AutoCloseFails(c)
    \/ Crash
    \/ Restart
    \/ Tick

AutoCloseSpec == AutoCloseInit /\ [][AutoCloseNext]_acVars

\* Time passes, goroutines run, transactions that have locks end, and the
\* process is restarted; users owe nothing.
AutoCloseFairness ==
    /\ WF_acVars(Tick)
    /\ WF_acVars(Restart)
    /\ WF_acVars(CancelAfterClose)
    /\ \A r \in Requests :
          WF_acVars(CommitThenHook(r)) /\ WF_acVars(OnMessageCreated(r)) /\ WF_acVars(ServerRollsBack(r))
    /\ \A c \in Callbacks : WF_acVars(FireTimer(c)) /\ SF_acVars(RunCallback(c))

AutoCloseFairSpec == AutoCloseSpec /\ AutoCloseFairness

-----------------------------------------------------------------------------
(* Properties *)

\* An automatic close leaves no message of a visitor, an agent or the machine,
\* committed or still in its transaction, that is younger than the interval,
\* however late the timer fires and whatever is written meanwhile.
NoEarlyAutoClose ==
    [][conv.status = "open" /\ conv'.status = "closed" /\ ~closing' =>
          \A i \in DOMAIN messages :
             messages[i].sender # "system" /\ messages[i].tx # "rolledback" =>
                created[i] + AutoCloseAfter <= now]_acVars

\* Nothing is in progress in the process.
Quiescent ==
    /\ up
    /\ ~closing
    /\ \A r \in Requests : hook[r] = 0
    /\ \A c \in Callbacks : cb[c].step = "idle"

\* Whenever no hook or callback is pending, an open conversation that waits
\* for its visitor has a timer, due no later than its deadline.  Two things
\* void this: a failed database call, which is only logged, and a visitor's
\* hook that runs after a newer message of an agent was committed (overtaken).
TimerCoversWaiting ==
    Quiescent /\ faults = 0 /\ ~overtaken /\ conv.status = "open" /\ LatestFromAgent =>
        timer # None /\ timer <= Deadline

\* A conversation whose last message is an agent's does not stay open for
\* ever: it is closed, unless somebody writes again, a database call fails or
\* a visitor's late hook drops the timer of the agent's message.
EventuallyAutoClosed ==
    (conv.status = "open" /\ LatestFromAgent)
        ~> (conv.status = "closed" \/ ~LatestFromAgent \/ faults > 0 \/ overtaken)

=============================================================================
