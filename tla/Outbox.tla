-------------------------------- MODULE Outbox --------------------------------
(***************************************************************************)
(* The event outbox of chat-service: rows of event_outboxes, written by    *)
(* the business transactions, and the OutboxDispatcher of every instance,  *)
(* which claims due rows, publishes them to Redis and marks the result.    *)
(*                                                                         *)
(* One statement or one Redis call is one step.  The Mark* updates select  *)
(* by id alone, so a slow dispatcher may overwrite what another one, which *)
(* took the row over after ProcessingTimeout, has written.                 *)
(* Attempts are counted up to MaxAttempts: the code only asks whether that *)
(* bound is reached.                                                       *)
(***************************************************************************)
EXTENDS Naturals, Sequences, FiniteSets

CONSTANTS
    Dispatchers,    \* instances of chat-service
    NumEvents,      \* rows are 1..NumEvents, ids in insertion order
    BatchSize,
    MaxAttempts,
    ReplayOnStart,  \* EVENT_OUTBOX_REPLAY_DEAD_ON_START
    ReplayBatch,    \* EVENT_OUTBOX_REPLAY_DEAD_BATCH
    MaxFaults,      \* bound on crashes and failed statements
    None

ASSUME OutboxAssumption ==
    /\ NumEvents \in Nat
    /\ BatchSize \in Nat \ {0}
    /\ MaxAttempts \in Nat \ {0}
    /\ ReplayOnStart \in BOOLEAN
    /\ ReplayBatch \in Nat \ {0}
    /\ MaxFaults \in Nat
    /\ None \notin {"published", "retry", "dead"}

VARIABLES
    row,        \* the rows of event_outboxes
    delivered,  \* ids that have reached the Redis channel
    disp,       \* each dispatcher's loop
    faults      \* faults so far

vars == <<row, delivered, disp, faults>>

Events == 1..NumEvents

Row ==
    [status : {"absent", "pending", "processing", "published", "dead"},
     attempts : 0..MaxAttempts,
     due : BOOLEAN,        \* next_retry_at is NULL or past
     stale : BOOLEAN]      \* processing_at is older than ProcessingTimeout

Item == [id : Events, attempts : 0..MaxAttempts]
Outcome == {None} \cup {"published", "retry", "dead"}

Dispatcher ==
    [pc : {"down", "wait", "requeue", "fetch", "publish"},
     batch : Seq(Item),    \* claimed items not yet handled, oldest first
     mark : Outcome,       \* what is to be written for the first of them
     wake : BOOLEAN]       \* a signal is waiting in wakeCh

TypeOK ==
    /\ row \in [Events -> Row]
    /\ delivered \subseteq Events
    /\ disp \in [Dispatchers -> Dispatcher]
    /\ faults \in 0..MaxFaults

Stopped == [pc |-> "down", batch |-> << >>, mark |-> None, wake |-> FALSE]

Init ==
    /\ row = [e \in Events |-> [status |-> "absent", attempts |-> 0, due |-> TRUE, stale |-> FALSE]]
    /\ delivered = {}
    /\ disp = [d \in Dispatchers |-> Stopped]
    /\ faults = 0

Status(e) == row[e].status

\* The first n of a set of ids in ascending order (ORDER BY id ASC LIMIT n).
Oldest(ids, n) == {e \in ids : Cardinality({f \in ids : f < e}) < n}

Fault == faults < MaxFaults /\ faults' = faults + 1

-----------------------------------------------------------------------------
(* Writers and the clock *)

\* A business transaction commits the next event; NotifyOutbox then reaches
\* some of the dispatchers (Redis pub/sub may lose the signal).
Enqueue(e) ==
    /\ Status(e) = "absent"
    /\ \A f \in Events : f < e => Status(f) # "absent"
    /\ row' = [row EXCEPT ![e].status = "pending"]
    /\ \E heard \in SUBSET {d \in Dispatchers : disp[d].pc # "down"} :
          disp' = [d \in Dispatchers |-> IF d \in heard THEN [disp[d] EXCEPT !.wake = TRUE] ELSE disp[d]]
    /\ UNCHANGED <<delivered, faults>>

\* next_retry_at passes.
RetryDue(e) ==
    /\ Status(e) = "pending" /\ ~row[e].due
    /\ row' = [row EXCEPT ![e].due = TRUE]
    /\ UNCHANGED <<delivered, disp, faults>>

\* processing_at + ProcessingTimeout passes.
ProcessingTimesOut(e) ==
    /\ Status(e) = "processing" /\ ~row[e].stale
    /\ row' = [row EXCEPT ![e].stale = TRUE]
    /\ UNCHANGED <<delivered, disp, faults>>

-----------------------------------------------------------------------------
(* Process start and end *)

\* Mutant of ReplayDead: every finished row is replayed.
ReplayFinished ==
    LET chosen == Oldest({e \in Events : Status(e) \in {"dead", "published"}}, ReplayBatch)
    IN  [e \in Events |-> IF e \in chosen
                          THEN [row[e] EXCEPT !.status = "pending", !.due = TRUE, !.stale = FALSE]
                          ELSE row[e]]

\* The rows ReplayDead makes pending again; their attempts stay.
ReplayDead ==
    LET chosen == Oldest({e \in Events : Status(e) = "dead"}, ReplayBatch)
    IN  [e \in Events |-> IF e \in chosen
                          THEN [row[e] EXCEPT !.status = "pending", !.due = TRUE, !.stale = FALSE]
                          ELSE row[e]]

\* main: optional ReplayDead, then Start, whose loop dispatches at once.
Start(d) ==
    /\ disp[d].pc = "down"
    /\ row' = IF ReplayOnStart THEN ReplayDead ELSE row
    /\ disp' = [disp EXCEPT ![d] = [Stopped EXCEPT !.pc = "requeue", !.wake = row' # row]]
    /\ UNCHANGED <<delivered, faults>>

Crash(d) ==
    /\ disp[d].pc # "down"
    /\ Fault
    /\ disp' = [disp EXCEPT ![d] = Stopped]
    /\ UNCHANGED <<row, delivered>>

-----------------------------------------------------------------------------
(* loop and dispatchOnce *)

Tick(d) ==
    /\ disp[d].pc = "wait"
    /\ disp' = [disp EXCEPT ![d].pc = "requeue"]
    /\ UNCHANGED <<row, delivered, faults>>

Wakeup(d) ==
    /\ disp[d].pc = "wait" /\ disp[d].wake
    /\ disp' = [disp EXCEPT ![d].pc = "requeue", ![d].wake = FALSE]
    /\ UNCHANGED <<row, delivered, faults>>

\* Mutant of IsStale: the WHERE clause names the wrong status.
PendingAndStale(e) == Status(e) = "pending" /\ row[e].stale

\* WHERE clause of RequeueStaleProcessing.
IsStale(e) == Status(e) = "processing" /\ row[e].stale

RequeueStaleProcessing(d) ==
    /\ disp[d].pc = "requeue"
    /\ disp' = [disp EXCEPT ![d].pc = "fetch"]
    /\ row' = [e \in Events |-> IF IsStale(e)
                                THEN [row[e] EXCEPT !.status = "pending", !.due = TRUE, !.stale = FALSE]
                                ELSE row[e]]
    /\ UNCHANGED <<delivered, faults>>

\* The statement fails: a warning is logged and the fetch is tried anyway.
RequeueFails(d) ==
    /\ disp[d].pc = "requeue"
    /\ Fault
    /\ disp' = [disp EXCEPT ![d].pc = "fetch"]
    /\ UNCHANGED <<row, delivered>>

CountAttempt(n) == IF n < MaxAttempts THEN n + 1 ELSE n

\* A set of ids as a sequence, in ascending order.
Ascending(ids) ==
    {s \in [1..Cardinality(ids) -> ids] : \A m, n \in DOMAIN s : m < n => s[m] < s[n]}

\* Items of the claimed ids, with the attempts as counted.
ItemsOf(s) == [n \in DOMAIN s |-> [id |-> s[n], attempts |-> CountAttempt(row[s[n]].attempts)]]

FetchPendingForUpdate(d) ==
    LET ids == Oldest({e \in Events : Status(e) = "pending" /\ row[e].due}, BatchSize)
    IN  /\ disp[d].pc = "fetch"
        /\ row' = [e \in Events |->
                      IF e \in ids
                      THEN [row[e] EXCEPT !.status = "processing", !.stale = FALSE,
                                          !.attempts = CountAttempt(@)]
                      ELSE row[e]]
        /\ \E s \in Ascending(ids) :
              disp' = [disp EXCEPT ![d].pc = IF ids = {} THEN "wait" ELSE "publish",
                                   ![d].batch = ItemsOf(s)]
        /\ UNCHANGED <<delivered, faults>>

FetchFails(d) ==
    /\ disp[d].pc = "fetch"
    /\ Fault
    /\ disp' = [disp EXCEPT ![d].pc = "wait"]
    /\ UNCHANGED <<row, delivered>>

Publishing(d) == disp[d].pc = "publish" /\ disp[d].batch # << >> /\ disp[d].mark = None

PublishSucceeds(d) ==
    /\ Publishing(d)
    /\ delivered' = delivered \cup {Head(disp[d].batch).id}
    /\ disp' = [disp EXCEPT ![d].mark = "published"]
    /\ UNCHANGED <<row, faults>>

\* Mutant of PublishFails: the row is marked published after the error, too.
PublishFailsUnnoticed(d) ==
    /\ Publishing(d)
    /\ disp' = [disp EXCEPT ![d].mark = "published"]
    /\ UNCHANGED <<row, delivered, faults>>

\* Mutant of PublishFails: the last attempt is not made.
PublishFailsEarly(d) ==
    /\ Publishing(d)
    /\ disp' = [disp EXCEPT ![d].mark =
                   IF Head(disp[d].batch).attempts + 1 >= MaxAttempts THEN "dead" ELSE "retry"]
    /\ UNCHANGED <<row, delivered, faults>>

\* An error from Redis; after a timeout the event may have arrived all the same.
PublishFails(d) ==
    /\ Publishing(d)
    /\ \E arrived \in BOOLEAN :
          delivered' = IF arrived THEN delivered \cup {Head(disp[d].batch).id} ELSE delivered
    /\ disp' = [disp EXCEPT ![d].mark =
                   IF Head(disp[d].batch).attempts >= MaxAttempts THEN "dead" ELSE "retry"]
    /\ UNCHANGED <<row, faults>>

\* MarkPublished, MarkForRetry, MarkDead: UPDATE ... WHERE id = ?
Marked(e, outcome) ==
    CASE outcome = "published" -> [row[e] EXCEPT !.status = "published", !.due = TRUE, !.stale = FALSE]
      [] outcome = "retry"     -> [row[e] EXCEPT !.status = "pending", !.due = FALSE, !.stale = FALSE]
      [] outcome = "dead"      -> [row[e] EXCEPT !.status = "dead", !.due = TRUE, !.stale = FALSE]

\* The first item is done with; after the last one the loop waits again.
NextItem(d) ==
    disp' = [disp EXCEPT ![d].batch = Tail(@), ![d].mark = None,
                         ![d].pc = IF Len(disp[d].batch) = 1 THEN "wait" ELSE "publish"]

Mark(d) ==
    /\ disp[d].mark # None
    /\ LET e == Head(disp[d].batch).id IN row' = [row EXCEPT ![e] = Marked(e, disp[d].mark)]
    /\ NextItem(d)
    /\ UNCHANGED <<delivered, faults>>

\* The update fails (also when Stop has cancelled the context): only logged.
MarkFails(d) ==
    /\ disp[d].mark # None
    /\ Fault
    /\ NextItem(d)
    /\ UNCHANGED <<row, delivered>>

-----------------------------------------------------------------------------

Dispatch(d) ==
    \/ RequeueStaleProcessing(d)
    \/ FetchPendingForUpdate(d)
    \/ PublishSucceeds(d)
    \/ PublishFails(d)
    \/ Mark(d)

Next ==
    \/ \E e \in Events : Enqueue(e) \/ RetryDue(e) \/ ProcessingTimesOut(e)
    \/ \E d \in Dispatchers :
          \/ Start(d) \/ Crash(d) \/ Tick(d) \/ Wakeup(d)
          \/ Dispatch(d)
          \/ RequeueFails(d) \/ FetchFails(d) \/ MarkFails(d)

Spec == Init /\ [][Next]_vars

\* The goroutine keeps running, the poll ticker keeps ticking (lost wake-ups
\* therefore do not matter), a crashed process is restarted, deadlines pass.
Fairness ==
    /\ \A d \in Dispatchers : WF_vars(Start(d)) /\ WF_vars(Tick(d)) /\ WF_vars(Dispatch(d))
    /\ \A e \in Events : WF_vars(RetryDue(e)) /\ WF_vars(ProcessingTimesOut(e))

-----------------------------------------------------------------------------
(* Properties *)

\* At-least-once: a row is marked published only if its event has reached the
\* channel, by whichever dispatcher, crash or take-over in between.
PublishedWasDelivered == \A e \in Events : Status(e) = "published" => e \in delivered

\* An event is given up only after MaxAttempts claims, counted across
\* dispatchers, crashes and replays.
DeadOnlyExhausted == \A e \in Events : Status(e) = "dead" => row[e].attempts = MaxAttempts

\* No event is stuck: whatever is enqueued is eventually published or dead for
\* good, though claims are abandoned by crashes and rows taken over.
EventuallySettled ==
    \A e \in Events : Status(e) # "absent" ~> [](Status(e) \in {"published", "dead"})

=============================================================================
