---------------------------- MODULE OutboxProofs ----------------------------
(***************************************************************************)
(* Safety of the outbox for any number of dispatchers, events, faults and  *)
(* attempts, and any batch size.                                           *)
(*                                                                         *)
(* A row is marked from what its dispatcher remembers, long after the row  *)
(* was claimed and perhaps after another dispatcher has claimed it again.  *)
(* The inductive invariant therefore says what the memory of a dispatcher  *)
(* still means: the attempts it remembers are at most the row's, and what  *)
(* it is about to mark published has been delivered.                       *)
(*                                                                         *)
(* The second half shows that every step of the outbox is one that the     *)
(* abstract specification EventDelivery allows, or none.                   *)
(***************************************************************************)
EXTENDS OutboxDelivery, FiniteSetTheorems, SequenceTheorems, TLAPS

\* The attempts a dispatcher remembers of a claimed row are not ahead of it.
BatchBehindRow ==
    \A d \in Dispatchers : \A n \in 1..Len(disp[d].batch) :
        disp[d].batch[n].attempts <= row[disp[d].batch[n].id].attempts

\* What is about to be written for the first item is justified.
MarkJustified ==
    \A d \in Dispatchers : disp[d].mark # None =>
        /\ disp[d].pc = "publish"
        /\ disp[d].batch # << >>
        /\ disp[d].mark = "published" => Head(disp[d].batch).id \in delivered
        /\ disp[d].mark = "dead" => Head(disp[d].batch).attempts = MaxAttempts

OutboxInv ==
    /\ TypeOK
    /\ PublishedWasDelivered
    /\ DeadOnlyExhausted
    /\ BatchBehindRow
    /\ MarkJustified

\* A step that finishes no row and counts no attempt.
RowsKept ==
    /\ row' \in [Events -> Row]
    /\ \A e \in Events : row'[e].attempts = row[e].attempts
    /\ \A e \in Events : row'[e].status \in {"published", "dead"} => row'[e].status = row[e].status

\* A step in which a dispatcher claims nothing and has nothing new to mark.
MemoryKept ==
    /\ disp' \in [Dispatchers -> Dispatcher]
    /\ \A d \in Dispatchers : disp'[d].batch = disp[d].batch \/ disp'[d].batch = << >>
    /\ \A d \in Dispatchers : disp'[d].mark # None =>
          /\ disp'[d].mark = disp[d].mark
          /\ disp'[d].batch = disp[d].batch
          /\ disp'[d].pc = disp[d].pc

-----------------------------------------------------------------------------

\* One more attempt, capped at MaxAttempts, is still a number of attempts.
LEMMA CountAttemptType ==
    ASSUME NEW n \in 0..MaxAttempts
    PROVE  CountAttempt(n) \in 0..MaxAttempts /\ n <= CountAttempt(n)
BY OutboxAssumption DEF CountAttempt

\* A dispatcher record with another phase, mark or wake-up flag is one still.
LEMMA DispatcherFields ==
    ASSUME NEW r \in Dispatcher
    PROVE  /\ r.pc \in {"down", "wait", "requeue", "fetch", "publish"}
           /\ r.batch \in Seq(Item) /\ r.mark \in Outcome /\ r.wake \in BOOLEAN
           /\ r = [pc |-> r.pc, batch |-> r.batch, mark |-> r.mark, wake |-> r.wake]
BY DEF Dispatcher

\* The claimed items are a sequence of items whose attempts are the new ones.
LEMMA ItemsOfType ==
    ASSUME row \in [Events -> Row], NEW ids \in SUBSET Events, NEW s \in Ascending(ids)
    PROVE  /\ ItemsOf(s) \in Seq(Item)
           /\ Len(ItemsOf(s)) = Cardinality(ids)
           /\ \A n \in 1..Len(ItemsOf(s)) :
                 /\ ItemsOf(s)[n].id \in ids
                 /\ ItemsOf(s)[n].attempts = CountAttempt(row[ItemsOf(s)[n].id].attempts)
<1>1. IsFiniteSet(ids) /\ Cardinality(ids) \in Nat
  <2>1. IsFiniteSet(Events)
    BY FS_Interval, OutboxAssumption DEF Events
  <2>2. IsFiniteSet(ids)
    BY <2>1, FS_Subset
  <2> QED
    BY <2>2, FS_CardinalityType
<1> DEFINE k == Cardinality(ids)
<1>2. s \in [1..k -> ids] /\ DOMAIN s = 1..k
  BY DEF Ascending
<1>3. \A n \in 1..k : s[n] \in Events /\ row[s[n]].attempts \in 0..MaxAttempts
  BY <1>2 DEF Row
<1>4. \A n \in 1..k : [id |-> s[n], attempts |-> CountAttempt(row[s[n]].attempts)] \in Item
  BY <1>3, CountAttemptType DEF Item
<1>5. ItemsOf(s) \in [1..k -> Item]
  BY <1>2, <1>4 DEF ItemsOf
<1>6. ItemsOf(s) \in Seq(Item) /\ Len(ItemsOf(s)) = k
  BY <1>1, <1>5
<1>7. \A n \in 1..k : ItemsOf(s)[n] = [id |-> s[n], attempts |-> CountAttempt(row[s[n]].attempts)]
  BY <1>2 DEF ItemsOf
<1> QED
  BY <1>2, <1>6, <1>7

\* Dropping the first item of a batch keeps the others in order.
LEMMA TailOfBatch ==
    ASSUME NEW b \in Seq(Item), b # << >>
    PROVE  /\ Head(b) \in Item /\ Head(b) = b[1] /\ Tail(b) \in Seq(Item)
           /\ 1 \in 1..Len(b)
           /\ \A n \in 1..Len(Tail(b)) : n + 1 \in 1..Len(b) /\ Tail(b)[n] = b[n + 1]
BY HeadTailProperties

-----------------------------------------------------------------------------

\* Init establishes the invariant.
LEMMA InitOutboxInv == Init => OutboxInv
<1> SUFFICES ASSUME Init PROVE OutboxInv
  OBVIOUS
<1>1. << >> \in Seq(Item) /\ Len(<< >>) = 0
  OBVIOUS
<1>2. Stopped \in Dispatcher /\ Stopped.batch = << >> /\ Stopped.mark = None
  BY <1>1 DEF Stopped, Dispatcher, Outcome
<1>3. TypeOK
  BY <1>2, OutboxAssumption DEF Init, TypeOK, Row
<1> QED
  BY <1>1, <1>2, <1>3 DEF Init, OutboxInv, TypeOK, PublishedWasDelivered, DeadOnlyExhausted, BatchBehindRow, MarkJustified, Status

\* Writers, the clock and the start of a process change rows only forwards and
\* keep what running dispatchers remember.
LEMMA RowStepOutboxInv ==
    ASSUME OutboxInv, RowsKept, MemoryKept, delivered' = delivered, faults' \in 0..MaxFaults
    PROVE  OutboxInv'
<1>1. TypeOK'
  BY DEF OutboxInv, TypeOK, RowsKept, MemoryKept
<1>2. PublishedWasDelivered' /\ DeadOnlyExhausted'
  BY DEF RowsKept, OutboxInv, PublishedWasDelivered, DeadOnlyExhausted, Status
<1>3. BatchBehindRow'
  <2> SUFFICES ASSUME NEW d \in Dispatchers, NEW n \in 1..Len(disp'[d].batch)
               PROVE  disp'[d].batch[n].attempts <= row'[disp'[d].batch[n].id].attempts
    BY DEF BatchBehindRow
  <2>1. CASE disp'[d].batch = << >>
    BY <2>1
  <2>2. CASE disp'[d].batch = disp[d].batch
    <3>1. disp[d] \in Dispatcher
      BY DEF OutboxInv, TypeOK
    <3>2. disp[d].batch[n] \in Item
      BY <2>2, <3>1, DispatcherFields
    <3> QED
      BY <2>2, <3>2 DEF OutboxInv, BatchBehindRow, Item, RowsKept
  <2> QED
    BY <2>1, <2>2 DEF MemoryKept
<1>4. MarkJustified'
  BY DEF OutboxInv, MarkJustified, MemoryKept
<1> QED
  BY <1>1, <1>2, <1>3, <1>4 DEF OutboxInv

\* Events are enqueued, retry times and claims pass.
LEMMA WriterSteps ==
    ASSUME OutboxInv, NEW e \in Events, Enqueue(e) \/ RetryDue(e) \/ ProcessingTimesOut(e)
    PROVE  OutboxInv'
<1>0. row \in [Events -> Row] /\ disp \in [Dispatchers -> Dispatcher] /\ faults \in 0..MaxFaults
  BY DEF OutboxInv, TypeOK
<1>1. CASE Enqueue(e)
  <2>1. PICK heard : disp' = [d \in Dispatchers |-> IF d \in heard THEN [disp[d] EXCEPT !.wake = TRUE] ELSE disp[d]]
    BY <1>1 DEF Enqueue
  <2>2. ASSUME NEW d \in Dispatchers
        PROVE  /\ disp'[d] \in Dispatcher /\ disp'[d].pc = disp[d].pc
               /\ disp'[d].batch = disp[d].batch /\ disp'[d].mark = disp[d].mark
    BY <1>0, <2>1 DEF Dispatcher
  <2>3. MemoryKept
    BY <2>1, <2>2 DEF MemoryKept
  <2>4. RowsKept
    BY <1>0, <1>1 DEF Enqueue, Row, RowsKept
  <2> QED
    BY <1>0, <1>1, <2>3, <2>4, RowStepOutboxInv DEF Enqueue
<1>2. CASE RetryDue(e) \/ ProcessingTimesOut(e)
  <2>1. RowsKept
    <3>1. CASE RetryDue(e)
      BY <1>0, <3>1 DEF RetryDue, Row, RowsKept
    <3>2. CASE ProcessingTimesOut(e)
      BY <1>0, <3>2 DEF ProcessingTimesOut, Row, RowsKept
    <3> QED
      BY <1>2, <3>1, <3>2
  <2>2. MemoryKept
    BY <1>0, <1>2 DEF RetryDue, ProcessingTimesOut, MemoryKept
  <2> QED
    BY <1>0, <1>2, <2>1, <2>2, RowStepOutboxInv DEF RetryDue, ProcessingTimesOut
<1> QED
  BY <1>1, <1>2

\* A process starts, with or without replay, or dies.
LEMMA ProcessSteps ==
    ASSUME OutboxInv, NEW d \in Dispatchers, Start(d) \/ Crash(d)
    PROVE  OutboxInv'
<1>0. row \in [Events -> Row] /\ disp \in [Dispatchers -> Dispatcher] /\ faults \in 0..MaxFaults
  BY DEF OutboxInv, TypeOK
<1>1. << >> \in Seq(Item) /\ None \in Outcome
  BY DEF Outcome
<1>2. CASE Start(d)
  <2>1. RowsKept
    BY <1>0, <1>2 DEF Start, ReplayDead, Row, RowsKept
  <2>2. PICK w \in BOOLEAN : disp' = [disp EXCEPT ![d] = [Stopped EXCEPT !.pc = "requeue", !.wake = w]]
    BY <1>2, Zenon DEF Start
  <2>3. \A v \in BOOLEAN : LET r == [Stopped EXCEPT !.pc = "requeue", !.wake = v]
                           IN  r \in Dispatcher /\ r.batch = << >> /\ r.mark = None
    BY <1>1 DEF Stopped, Dispatcher
  <2>4. MemoryKept
    BY <1>0, <2>2, <2>3 DEF MemoryKept
  <2>5. delivered' = delivered /\ faults' = faults
    BY <1>2 DEF Start
  <2> QED
    BY <1>0, <2>1, <2>4, <2>5, RowStepOutboxInv
<1>3. CASE Crash(d)
  <2>1. Stopped \in Dispatcher /\ Stopped.batch = << >> /\ Stopped.mark = None
    BY <1>1 DEF Stopped, Dispatcher
  <2>2. MemoryKept
    BY <1>0, <1>3, <2>1 DEF Crash, MemoryKept
  <2>3. RowsKept
    BY <1>0, <1>3 DEF Crash, RowsKept
  <2>4. delivered' = delivered /\ faults' \in 0..MaxFaults
    BY <1>0, <1>3, OutboxAssumption DEF Crash, Fault
  <2> QED
    BY <2>2, <2>3, <2>4, RowStepOutboxInv
<1> QED
  BY <1>2, <1>3

\* The loop wakes up, requeues stale claims, or fails to.
LEMMA LoopSteps ==
    ASSUME OutboxInv, NEW d \in Dispatchers,
           \/ Tick(d) \/ Wakeup(d) \/ RequeueStaleProcessing(d) \/ RequeueFails(d) \/ FetchFails(d)
    PROVE  OutboxInv'
<1>0. row \in [Events -> Row] /\ disp \in [Dispatchers -> Dispatcher] /\ faults \in 0..MaxFaults
  BY DEF OutboxInv, TypeOK
<1>1. disp[d].mark = None
  <2>1. disp[d].pc # "publish"
    BY DEF Tick, Wakeup, RequeueStaleProcessing, RequeueFails, FetchFails
  <2> QED
    BY <2>1 DEF OutboxInv, MarkJustified
<1>2. MemoryKept
  <2>1. CASE Wakeup(d)
    BY <1>0, <1>1, <2>1 DEF Wakeup, Dispatcher, MemoryKept
  <2>2. CASE disp' = [disp EXCEPT ![d].pc = "requeue"]
    BY <1>0, <1>1, <2>2 DEF Dispatcher, MemoryKept
  <2>3. CASE disp' = [disp EXCEPT ![d].pc = "fetch"]
    BY <1>0, <1>1, <2>3 DEF Dispatcher, MemoryKept
  <2>4. CASE disp' = [disp EXCEPT ![d].pc = "wait"]
    BY <1>0, <1>1, <2>4 DEF Dispatcher, MemoryKept
  <2> QED
    BY <2>1, <2>2, <2>3, <2>4 DEF Tick, RequeueStaleProcessing, RequeueFails, FetchFails
<1>3. RowsKept
  <2>1. CASE RequeueStaleProcessing(d)
    BY <1>0, <2>1 DEF RequeueStaleProcessing, Row, RowsKept
  <2>2. CASE row' = row
    BY <1>0, <2>2 DEF RowsKept
  <2> QED
    BY <2>1, <2>2 DEF Tick, Wakeup, RequeueFails, FetchFails
<1>4. delivered' = delivered
  BY DEF Tick, Wakeup, RequeueStaleProcessing, RequeueFails, FetchFails
<1>5. faults' \in 0..MaxFaults
  <2>1. CASE RequeueFails(d) \/ FetchFails(d)
    BY <1>0, <2>1, OutboxAssumption DEF RequeueFails, FetchFails, Fault
  <2>2. CASE faults' = faults
    BY <1>0, <2>2
  <2> QED
    BY <2>1, <2>2 DEF Tick, Wakeup, RequeueStaleProcessing
<1> QED
  BY <1>2, <1>3, <1>4, <1>5, RowStepOutboxInv

\* A claim raises the attempts of the rows it takes before it remembers them.
LEMMA FetchStep ==
    ASSUME OutboxInv, NEW d \in Dispatchers, FetchPendingForUpdate(d)
    PROVE  OutboxInv'
<1>0. row \in [Events -> Row] /\ disp \in [Dispatchers -> Dispatcher] /\ faults \in 0..MaxFaults
  BY DEF OutboxInv, TypeOK
<1> DEFINE ids == Oldest({e \in Events : Status(e) = "pending" /\ row[e].due}, BatchSize)
<1>1. ids \in SUBSET Events
  BY DEF Oldest
<1>2. PICK s \in Ascending(ids) :
          disp' = [disp EXCEPT ![d].pc = IF ids = {} THEN "wait" ELSE "publish", ![d].batch = ItemsOf(s)]
  BY DEF FetchPendingForUpdate
<1>3. row' = [e \in Events |-> IF e \in ids
                              THEN [row[e] EXCEPT !.status = "processing", !.stale = FALSE,
                                                  !.attempts = CountAttempt(@)]
                              ELSE row[e]]
  BY DEF FetchPendingForUpdate
<1> HIDE DEF ids
<1>4. /\ ItemsOf(s) \in Seq(Item)
      /\ \A n \in 1..Len(ItemsOf(s)) :
            /\ ItemsOf(s)[n].id \in ids
            /\ ItemsOf(s)[n].attempts = CountAttempt(row[ItemsOf(s)[n].id].attempts)
  BY <1>0, <1>1, ItemsOfType
<1>5. \A e \in Events : row[e].attempts \in 0..MaxAttempts /\ CountAttempt(row[e].attempts) \in 0..MaxAttempts
                       /\ row[e].attempts <= CountAttempt(row[e].attempts)
  BY <1>0, CountAttemptType DEF Row
<1>6. /\ row' \in [Events -> Row]
      /\ \A e \in Events : row'[e].attempts = IF e \in ids THEN CountAttempt(row[e].attempts) ELSE row[e].attempts
      /\ \A e \in Events : row'[e].status = IF e \in ids THEN "processing" ELSE row[e].status
  BY <1>0, <1>3, <1>5 DEF Row
<1>13. disp[d].mark = None
  BY DEF FetchPendingForUpdate, OutboxInv, MarkJustified
<1>7. /\ disp' \in [Dispatchers -> Dispatcher]
      /\ disp'[d].batch = ItemsOf(s) /\ disp'[d].mark = None
      /\ \A c \in Dispatchers : c # d => disp'[c] = disp[c]
  BY <1>0, <1>2, <1>4, <1>13 DEF Dispatcher
<1>8. delivered' = delivered /\ faults' = faults
  BY DEF FetchPendingForUpdate
<1>9. TypeOK'
  BY <1>0, <1>6, <1>7, <1>8 DEF TypeOK, OutboxInv
<1>10. PublishedWasDelivered' /\ DeadOnlyExhausted'
  BY <1>6, <1>8 DEF OutboxInv, PublishedWasDelivered, DeadOnlyExhausted, Status
<1>11. BatchBehindRow'
  <2> SUFFICES ASSUME NEW c \in Dispatchers, NEW n \in 1..Len(disp'[c].batch)
               PROVE  disp'[c].batch[n].attempts <= row'[disp'[c].batch[n].id].attempts
    BY DEF BatchBehindRow
  <2>1. CASE c = d
    <3>1. ItemsOf(s)[n].id \in Events /\ ItemsOf(s)[n].id \in ids
      BY <1>1, <1>4, <1>7, <2>1
    <3>2. ItemsOf(s)[n].attempts = CountAttempt(row[ItemsOf(s)[n].id].attempts)
      BY <1>4, <1>7, <2>1
    <3> QED
      BY <1>5, <1>6, <1>7, <2>1, <3>1, <3>2
  <2>2. CASE c # d
    <3>1. disp'[c] = disp[c] /\ disp[c] \in Dispatcher
      BY <1>0, <1>7, <2>2
    <3>2. disp[c].batch[n] \in Item
      BY <3>1, DispatcherFields
    <3>3. disp[c].batch[n].attempts <= row[disp[c].batch[n].id].attempts
      BY <3>1 DEF OutboxInv, BatchBehindRow
    <3>4. disp[c].batch[n].id \in Events /\ disp[c].batch[n].attempts \in 0..MaxAttempts
      BY <3>2 DEF Item
    <3> QED
      BY <1>5, <1>6, <3>1, <3>3, <3>4
  <2> QED
    BY <2>1, <2>2
<1>12. MarkJustified'
  BY <1>7, <1>8 DEF OutboxInv, MarkJustified
<1> QED
  BY <1>9, <1>10, <1>11, <1>12 DEF OutboxInv

\* After a publication its dispatcher may mark it published, or, after an
\* error, for retry or dead.
LEMMA PublishSteps ==
    ASSUME OutboxInv, NEW d \in Dispatchers, PublishSucceeds(d) \/ PublishFails(d)
    PROVE  OutboxInv'
<1>0. row \in [Events -> Row] /\ disp \in [Dispatchers -> Dispatcher]
  BY DEF OutboxInv, TypeOK
<1>1. Publishing(d) /\ row' = row /\ faults' = faults
  BY DEF PublishSucceeds, PublishFails
<1>2. disp[d].batch \in Seq(Item) /\ disp[d].batch # << >> /\ Head(disp[d].batch) \in Item
  BY <1>0, <1>1, DispatcherFields, TailOfBatch DEF Publishing
<1>3. Head(disp[d].batch).id \in Events /\ Head(disp[d].batch).attempts \in 0..MaxAttempts
  BY <1>2 DEF Item
<1>4. delivered \subseteq delivered' /\ delivered' \subseteq Events
  BY <1>3 DEF PublishSucceeds, PublishFails, OutboxInv, TypeOK
<1>5. PICK m \in {"published", "retry", "dead"} :
          /\ disp' = [disp EXCEPT ![d].mark = m]
          /\ m = "published" => Head(disp[d].batch).id \in delivered'
          /\ m = "dead" => Head(disp[d].batch).attempts = MaxAttempts
  <2>1. CASE PublishSucceeds(d)
    BY <2>1 DEF PublishSucceeds
  <2>2. CASE PublishFails(d)
    <3>1. disp' = [disp EXCEPT ![d].mark = IF Head(disp[d].batch).attempts >= MaxAttempts THEN "dead" ELSE "retry"]
      BY <2>2 DEF PublishFails
    <3>2. Head(disp[d].batch).attempts >= MaxAttempts => Head(disp[d].batch).attempts = MaxAttempts
      BY <1>3, OutboxAssumption
    <3> QED
      BY <3>1, <3>2
  <2> QED
    BY <2>1, <2>2
<1>6. /\ disp' \in [Dispatchers -> Dispatcher]
      /\ disp'[d].mark = m /\ disp'[d].pc = "publish" /\ disp'[d].batch = disp[d].batch
      /\ \A c \in Dispatchers : c # d => disp'[c] = disp[c]
  BY <1>0, <1>1, <1>5 DEF Dispatcher, Outcome, Publishing
<1>7. TypeOK'
  BY <1>1, <1>4, <1>6 DEF OutboxInv, TypeOK
<1>8. PublishedWasDelivered' /\ DeadOnlyExhausted'
  BY <1>1, <1>4 DEF OutboxInv, PublishedWasDelivered, DeadOnlyExhausted, Status
<1>9. BatchBehindRow'
  BY <1>1, <1>6 DEF OutboxInv, BatchBehindRow
<1>10. MarkJustified'
  BY <1>2, <1>4, <1>5, <1>6 DEF OutboxInv, MarkJustified
<1> QED
  BY <1>7, <1>8, <1>9, <1>10 DEF OutboxInv

\* Whether or not its update succeeds, the dispatcher goes on to its next item
\* and remembers of the others what it did before.
LEMMA NextItemMemory ==
    ASSUME OutboxInv, NEW d \in Dispatchers, disp[d].mark # None, NextItem(d),
           \A e \in Events : row'[e].attempts = row[e].attempts,
           delivered' = delivered
    PROVE  disp' \in [Dispatchers -> Dispatcher] /\ BatchBehindRow' /\ MarkJustified'
<1>0. disp \in [Dispatchers -> Dispatcher]
  BY DEF OutboxInv, TypeOK
<1>1. disp[d].batch \in Seq(Item) /\ disp[d].batch # << >>
  BY <1>0, DispatcherFields DEF OutboxInv, MarkJustified
<1>2. /\ Tail(disp[d].batch) \in Seq(Item)
      /\ \A n \in 1..Len(Tail(disp[d].batch)) :
            n + 1 \in 1..Len(disp[d].batch) /\ Tail(disp[d].batch)[n] = disp[d].batch[n + 1]
  BY <1>1, TailOfBatch
<1>3. /\ disp' \in [Dispatchers -> Dispatcher]
      /\ disp'[d].mark = None /\ disp'[d].batch = Tail(disp[d].batch)
      /\ \A c \in Dispatchers : c # d => disp'[c] = disp[c]
  BY <1>0, <1>2 DEF NextItem, Dispatcher, Outcome
<1>4. BatchBehindRow'
  <2> SUFFICES ASSUME NEW c \in Dispatchers, NEW n \in 1..Len(disp'[c].batch)
               PROVE  disp'[c].batch[n].attempts <= row'[disp'[c].batch[n].id].attempts
    BY DEF BatchBehindRow
  <2>1. PICK k \in 1..Len(disp[c].batch) : disp'[c].batch[n] = disp[c].batch[k]
    <3>1. CASE c = d
      BY <1>2, <1>3, <3>1
    <3>2. CASE c # d
      BY <1>3, <3>2
    <3> QED
      BY <3>1, <3>2
  <2>2. disp[c].batch[k] \in Item
    BY <1>0, DispatcherFields
  <2> QED
    BY <2>1, <2>2 DEF OutboxInv, BatchBehindRow, Item
<1>5. MarkJustified'
  BY <1>3 DEF OutboxInv, MarkJustified
<1> QED
  BY <1>3, <1>4, <1>5

\* A row is marked from what its dispatcher remembers.
LEMMA MarkSteps ==
    ASSUME OutboxInv, NEW d \in Dispatchers, Mark(d) \/ MarkFails(d)
    PROVE  OutboxInv'
<1>0. row \in [Events -> Row] /\ disp \in [Dispatchers -> Dispatcher] /\ faults \in 0..MaxFaults
  BY DEF OutboxInv, TypeOK
<1>1. disp[d].mark # None /\ NextItem(d) /\ delivered' = delivered
  BY DEF Mark, MarkFails
<1>2. disp[d].batch \in Seq(Item) /\ disp[d].batch # << >> /\ disp[d].mark \in {"published", "retry", "dead"}
  BY <1>0, <1>1, DispatcherFields DEF OutboxInv, MarkJustified, Outcome
<1> DEFINE h == Head(disp[d].batch)
<1>3. h \in Item /\ h = disp[d].batch[1] /\ 1 \in 1..Len(disp[d].batch)
  BY <1>2, TailOfBatch
<1>4. h.id \in Events /\ h.attempts \in 0..MaxAttempts /\ h.attempts <= row[h.id].attempts
  BY <1>3 DEF Item, OutboxInv, BatchBehindRow
<1>5. /\ disp[d].mark = "published" => h.id \in delivered
      /\ disp[d].mark = "dead" => h.attempts = MaxAttempts
  BY <1>1 DEF OutboxInv, MarkJustified
<1> HIDE DEF h
<1>6. CASE Mark(d)
  <2>1. row' = [row EXCEPT ![h.id] = Marked(h.id, disp[d].mark)] /\ faults' = faults
    BY <1>6 DEF Mark, h
  <2>2. /\ Marked(h.id, disp[d].mark) \in Row
        /\ Marked(h.id, disp[d].mark).attempts = row[h.id].attempts
        /\ Marked(h.id, disp[d].mark).status = "published" => disp[d].mark = "published"
        /\ Marked(h.id, disp[d].mark).status = "dead" => disp[d].mark = "dead"
    BY <1>0, <1>2, <1>4 DEF Marked, Row
  <2>3. row' \in [Events -> Row] /\ \A e \in Events : row'[e].attempts = row[e].attempts
    BY <1>0, <1>4, <2>1, <2>2
  <2>4. PublishedWasDelivered'
    BY <1>0, <1>1, <1>4, <1>5, <2>1, <2>2 DEF OutboxInv, PublishedWasDelivered, Status
  <2>5. row[h.id].attempts \in 0..MaxAttempts
    BY <1>0, <1>4 DEF Row
  <2>6. disp[d].mark = "dead" => row[h.id].attempts = MaxAttempts
    BY <1>4, <1>5, <2>5, OutboxAssumption
  <2>7. DeadOnlyExhausted'
    BY <1>0, <1>4, <2>1, <2>2, <2>6 DEF OutboxInv, DeadOnlyExhausted, Status
  <2>8. disp' \in [Dispatchers -> Dispatcher] /\ BatchBehindRow' /\ MarkJustified'
    BY <1>1, <2>3, NextItemMemory
  <2> QED
    BY <1>0, <1>1, <2>1, <2>3, <2>4, <2>7, <2>8 DEF OutboxInv, TypeOK
<1>7. CASE MarkFails(d)
  <2>1. row' = row /\ faults' \in 0..MaxFaults
    BY <1>0, <1>7, OutboxAssumption DEF MarkFails, Fault
  <2>2. disp' \in [Dispatchers -> Dispatcher] /\ BatchBehindRow' /\ MarkJustified'
    BY <1>1, <2>1, NextItemMemory
  <2> QED
    BY <1>1, <2>1, <2>2 DEF OutboxInv, TypeOK, PublishedWasDelivered, DeadOnlyExhausted, Status
<1> QED
  BY <1>6, <1>7

-----------------------------------------------------------------------------

\* Every step keeps the invariant.
LEMMA NextOutboxInv == OutboxInv /\ [Next]_vars => OutboxInv'
<1> SUFFICES ASSUME OutboxInv, [Next]_vars PROVE OutboxInv'
  OBVIOUS
<1>1. CASE UNCHANGED vars
  BY <1>1 DEF vars, OutboxInv, TypeOK, PublishedWasDelivered, DeadOnlyExhausted, BatchBehindRow, MarkJustified, Status
<1>2. ASSUME NEW e \in Events, Enqueue(e) \/ RetryDue(e) \/ ProcessingTimesOut(e)
      PROVE  OutboxInv'
  BY <1>2, WriterSteps
<1>3. ASSUME NEW d \in Dispatchers,
             \/ Start(d) \/ Crash(d) \/ Tick(d) \/ Wakeup(d) \/ Dispatch(d)
             \/ RequeueFails(d) \/ FetchFails(d) \/ MarkFails(d)
      PROVE  OutboxInv'
  BY <1>3, ProcessSteps, LoopSteps, FetchStep, PublishSteps, MarkSteps DEF Dispatch
<1> QED
  BY <1>1, <1>2, <1>3 DEF Next

\* The invariant holds for ever.
LEMMA OutboxInvariant == Spec => []OutboxInv
<1> QED
  BY InitOutboxInv, NextOutboxInv, PTL DEF Spec

\* At-least-once delivery: whatever dispatchers crash, are slow or overwrite
\* each other's rows, a row marked published was delivered.
THEOREM DeliverySafe == Spec => []PublishedWasDelivered
<1>1. OutboxInv => PublishedWasDelivered
  BY DEF OutboxInv
<1> QED
  BY <1>1, OutboxInvariant, PTL

\* No event is moved to the dead letters before MaxAttempts claims of its row.
THEOREM DeadLettersExhausted == Spec => []DeadOnlyExhausted
<1>1. OutboxInv => DeadOnlyExhausted
  BY DEF OutboxInv
<1> QED
  BY <1>1, OutboxInvariant, PTL

-----------------------------------------------------------------------------
(* The outbox implements EventDelivery.  What a dispatcher remembers of rows *)
(* it claimed still says how far their events can have come: as long as only *)
(* one dispatcher has been started, nobody else can have decided them.       *)

Alone == Cardinality(started) <= 1

Unsettled == {"pending", "processing"}

\* started is the set it is named for; a process that is down remembers nothing.
StartedTrue ==
    /\ started \subseteq Dispatchers
    /\ IsFiniteSet(started)
    /\ \A d \in Dispatchers : disp[d].pc # "down" => d \in started
    /\ \A d \in Dispatchers : disp[d].pc = "down" => disp[d].batch = << >>

\* Claimed rows exist, and are not settled by anybody else while there is
\* nobody else.
BatchAccepted ==
    \A d \in Dispatchers : \A n \in 1..Len(disp[d].batch) :
        /\ Status(disp[d].batch[n].id) # "absent"
        /\ Alone => Status(disp[d].batch[n].id) \in Unsettled

\* No row is claimed twice in one batch.
BatchDistinct ==
    \A d \in Dispatchers : \A m, n \in 1..Len(disp[d].batch) :
        disp[d].batch[m].id = disp[d].batch[n].id => m = n

DeliveryInv ==
    /\ OutboxInv
    /\ StartedTrue
    /\ BatchAccepted
    /\ BatchDistinct

\* A step that settles no row.
RowsForward ==
    \A e \in Events :
        /\ Status(e) # "absent" => Status(e)' # "absent"
        /\ Status(e) \in Unsettled => Status(e)' \in Unsettled

\* A step in which every batch is kept or forgotten, and forgotten by those
\* that go down.
BatchesKept ==
    \A d \in Dispatchers :
        /\ disp'[d].batch = disp[d].batch \/ disp'[d].batch = << >>
        /\ disp'[d].pc = "down" => disp'[d].batch = << >>

\* A step in which nobody starts.
NobodyStarts == \A d \in Dispatchers : disp'[d].pc # "down" => disp[d].pc # "down"

RecordStarted == started' = started \cup {d \in Dispatchers : disp'[d].pc # "down"}

\* What the phase of an event says about its row.
LEMMA PhaseFacts ==
    ASSUME NEW s \in {"absent", "pending", "processing", "published", "dead"}
    PROVE  /\ PhaseFor(s) = "absent" <=> s = "absent"
           /\ PhaseFor(s) = "queued" <=> s \in Unsettled
           /\ PhaseFor(s) = "done" <=> s = "published"
           /\ PhaseFor(s) = "abandoned" <=> s = "dead"
BY DEF PhaseFor, Unsettled

\* The status of a row is one of five.
LEMMA StatusRange ==
    ASSUME TypeOK, NEW e \in Events
    PROVE  Status(e) \in {"absent", "pending", "processing", "published", "dead"}
BY DEF TypeOK, Row, Status

\* If nobody starts, the history stays.
LEMMA StartedKept ==
    ASSUME StartedTrue, NobodyStarts, RecordStarted
    PROVE  started' = started
BY DEF StartedTrue, NobodyStarts, RecordStarted

\* A second instance is never forgotten.
LEMMA AloneBefore ==
    ASSUME StartedTrue, started \subseteq started', IsFiniteSet(started'), Alone'
    PROVE  Alone
<1>1. /\ Cardinality(started) <= Cardinality(started')
      /\ Cardinality(started) \in Nat /\ Cardinality(started') \in Nat
  BY FS_Subset, FS_CardinalityType DEF StartedTrue
<1> QED
  BY <1>1 DEF Alone

\* While only one dispatcher has been started, the others remember nothing.
LEMMA OthersIdle ==
    ASSUME StartedTrue, Alone, NEW c \in Dispatchers, NEW d \in Dispatchers,
           d \in started, c # d
    PROVE  disp[c].batch = << >>
<1>1. c \notin started
  <2> SUFFICES ASSUME c \in started PROVE FALSE
    OBVIOUS
  <2>1. IsFiniteSet({c}) /\ Cardinality({c}) = 1
    BY FS_Singleton
  <2>2. IsFiniteSet({c} \cup {d}) /\ Cardinality({c} \cup {d}) = 2
    BY <2>1, FS_AddElement
  <2>3. {c} \cup {d} \in SUBSET started
    OBVIOUS
  <2>4. Cardinality({c} \cup {d}) <= Cardinality(started) /\ Cardinality(started) \in Nat
    BY <2>3, FS_Subset, FS_CardinalityType DEF StartedTrue
  <2> QED
    BY <2>2, <2>4 DEF Alone
<1> QED
  BY <1>1 DEF StartedTrue

\* A step that settles nothing and claims nothing keeps what batches mean.
LEMMA QuietBatches ==
    ASSUME DeliveryInv, OutboxInv', RowsForward, BatchesKept, StartedTrue', started \subseteq started'
    PROVE  DeliveryInv'
<1>1. ASSUME NEW d \in Dispatchers, NEW n \in 1..Len(disp'[d].batch)
      PROVE  disp'[d].batch = disp[d].batch /\ disp[d].batch[n].id \in Events
  <2>1. disp'[d].batch = disp[d].batch
    BY DEF BatchesKept
  <2>2. disp[d] \in Dispatcher
    BY DEF DeliveryInv, OutboxInv, TypeOK
  <2>3. disp[d].batch[n] \in Item
    BY <2>1, <2>2, DispatcherFields
  <2> QED
    BY <2>1, <2>3 DEF Item
<1>2. Alone' => Alone
  BY AloneBefore DEF DeliveryInv, StartedTrue
<1>3. BatchAccepted'
  BY <1>1, <1>2 DEF DeliveryInv, BatchAccepted, RowsForward
<1>4. BatchDistinct'
  BY <1>1 DEF DeliveryInv, BatchDistinct
<1> QED
  BY <1>3, <1>4 DEF DeliveryInv

\* If no event changes its phase and nothing is delivered, nothing happens.
LEMMA QuietStep ==
    ASSUME started' = started, delivered' = delivered,
           \A e \in Events : PhaseFor(Status(e))' = PhaseFor(Status(e))
    PROVE  UNCHANGED Delivery!vars
<1>1. DeliveryPhase' = DeliveryPhase
  BY DEF DeliveryPhase
<1> QED
  BY <1>1 DEF Delivery!vars

\* The claimed items are of different rows.
LEMMA AscendingDistinct ==
    ASSUME row \in [Events -> Row], NEW ids \in SUBSET Events, NEW s \in Ascending(ids)
    PROVE  \A m, n \in 1..Len(ItemsOf(s)) : ItemsOf(s)[m].id = ItemsOf(s)[n].id => m = n
<1>1. Len(ItemsOf(s)) = Cardinality(ids)
  BY ItemsOfType
<1> DEFINE k == Cardinality(ids)
<1>2. s \in [1..k -> ids] /\ DOMAIN s = 1..k /\ \A m, n \in 1..k : m < n => s[m] < s[n]
  BY DEF Ascending
<1>3. \A n \in 1..k : ItemsOf(s)[n].id = s[n]
  BY <1>2 DEF ItemsOf
<1>4. k \in Nat
  <2>1. IsFiniteSet(Events)
    BY FS_Interval, OutboxAssumption DEF Events
  <2> QED
    BY <2>1, FS_Subset, FS_CardinalityType
<1>5. \A n \in 1..k : s[n] \in Nat
  <2>1. Events \subseteq Nat
    BY OutboxAssumption DEF Events
  <2>2. \A n \in 1..k : s[n] \in ids
    BY <1>2
  <2> QED
    BY <2>1, <2>2
<1> HIDE DEF k
<1>6. \A m, n \in 1..k : s[m] = s[n] => m = n
  BY <1>2, <1>4, <1>5
<1> QED
  BY <1>1, <1>3, <1>6 DEF k

\* Steps that settle nothing, claim nothing and start nobody.
LEMMA QuietInv ==
    ASSUME DeliveryInv, OutboxInv', RowsForward, BatchesKept, NobodyStarts, RecordStarted
    PROVE  DeliveryInv' /\ started' = started
<1>1. started' = started
  BY StartedKept DEF DeliveryInv
<1>2. StartedTrue'
  BY <1>1 DEF DeliveryInv, StartedTrue, NobodyStarts, BatchesKept
<1> QED
  BY <1>1, <1>2, QuietBatches

\* A committed event is accepted; passing deadlines change no phase.
LEMMA WritersDeliver ==
    ASSUME DeliveryInv, OutboxInv', NEW e \in Events, RecordStarted,
           Enqueue(e) \/ RetryDue(e) \/ ProcessingTimesOut(e)
    PROVE  DeliveryInv' /\ [Delivery!Next]_(Delivery!vars)
<1>0. row \in [Events -> Row] /\ disp \in [Dispatchers -> Dispatcher]
  BY DEF DeliveryInv, OutboxInv, TypeOK
<1>1. /\ delivered' = delivered
      /\ \A d \in Dispatchers : disp'[d].pc = disp[d].pc /\ disp'[d].batch = disp[d].batch
  <2>1. CASE Enqueue(e)
    <3>1. PICK heard : disp' = [d \in Dispatchers |-> IF d \in heard THEN [disp[d] EXCEPT !.wake = TRUE] ELSE disp[d]]
      BY <2>1 DEF Enqueue
    <3> QED
      BY <1>0, <2>1, <3>1 DEF Enqueue, Dispatcher
  <2>2. CASE RetryDue(e) \/ ProcessingTimesOut(e)
    BY <2>2 DEF RetryDue, ProcessingTimesOut
  <2> QED
    BY <2>1, <2>2
<1>2. BatchesKept /\ NobodyStarts
  BY <1>1 DEF BatchesKept, NobodyStarts, DeliveryInv, StartedTrue
<1>3. CASE Enqueue(e)
  <2>1. \A f \in Events : Status(f)' = IF f = e THEN "pending" ELSE Status(f)
    BY <1>0, <1>3 DEF Enqueue, Row, Status
  <2>2. RowsForward
    BY <2>1 DEF RowsForward, Unsettled
  <2>3. DeliveryInv' /\ started' = started
    BY <1>2, <2>2, QuietInv
  <2>4. PhaseFor("absent") = "absent" /\ PhaseFor("pending") = "queued"
    BY DEF PhaseFor
  <2>6. Status(e) = "absent"
    BY <1>3 DEF Enqueue
  <2>7. DeliveryPhase[e] = "absent"
    BY <2>4, <2>6 DEF DeliveryPhase
  <2>8. DeliveryPhase' = [DeliveryPhase EXCEPT ![e] = "queued"]
    BY <2>1, <2>4 DEF DeliveryPhase
  <2>5. Delivery!Accept(e)
    BY <1>1, <2>3, <2>7, <2>8 DEF Delivery!Accept
  <2> QED
    BY <2>3, <2>5 DEF Delivery!Next
<1>4. CASE RetryDue(e) \/ ProcessingTimesOut(e)
  <2>1. \A f \in Events : Status(f)' = Status(f)
    <3>1. CASE RetryDue(e)
      BY <1>0, <3>1 DEF RetryDue, Row, Status
    <3>2. CASE ProcessingTimesOut(e)
      BY <1>0, <3>2 DEF ProcessingTimesOut, Row, Status
    <3> QED
      BY <1>4, <3>1, <3>2
  <2>2. RowsForward
    BY <2>1 DEF RowsForward
  <2>3. DeliveryInv' /\ started' = started
    BY <1>2, <2>2, QuietInv
  <2> QED
    BY <1>1, <2>1, <2>3, QuietStep
<1> QED
  BY <1>3, <1>4

\* A process goes down, or its loop goes round, without a subscriber noticing.
LEMMA LoopDelivers ==
    ASSUME DeliveryInv, OutboxInv', NEW d \in Dispatchers, RecordStarted,
           \/ Crash(d) \/ Tick(d) \/ Wakeup(d)
           \/ RequeueStaleProcessing(d) \/ RequeueFails(d) \/ FetchFails(d)
    PROVE  DeliveryInv' /\ [Delivery!Next]_(Delivery!vars)
<1>0. row \in [Events -> Row] /\ disp \in [Dispatchers -> Dispatcher]
  BY DEF DeliveryInv, OutboxInv, TypeOK
<1>1. delivered' = delivered
  BY DEF Crash, Tick, Wakeup, RequeueStaleProcessing, RequeueFails, FetchFails
<1>2. BatchesKept /\ NobodyStarts
  <2>1. disp[d].pc # "down"
    BY DEF Crash, Tick, Wakeup, RequeueStaleProcessing, RequeueFails, FetchFails
  <2>2. \A c \in Dispatchers : c # d => disp'[c] = disp[c]
    BY <1>0 DEF Crash, Tick, Wakeup, RequeueStaleProcessing, RequeueFails, FetchFails
  <2>3. CASE Crash(d)
    <3>1. disp'[d] = Stopped
      BY <1>0, <2>3 DEF Crash
    <3> QED
      BY <2>1, <2>2, <3>1 DEF Stopped, BatchesKept, NobodyStarts, DeliveryInv, StartedTrue
  <2>4. CASE Wakeup(d)
    <3>1. disp'[d].pc = "requeue" /\ disp'[d].batch = disp[d].batch
      BY <1>0, <2>4 DEF Wakeup, Dispatcher
    <3> QED
      BY <2>1, <2>2, <3>1 DEF BatchesKept, NobodyStarts, DeliveryInv, StartedTrue
  <2>5. CASE \E pc \in {"requeue", "fetch", "wait"} : disp' = [disp EXCEPT ![d].pc = pc]
    <3>1. disp'[d].pc # "down" /\ disp'[d].batch = disp[d].batch
      BY <1>0, <2>5 DEF Dispatcher
    <3> QED
      BY <2>1, <2>2, <3>1 DEF BatchesKept, NobodyStarts, DeliveryInv, StartedTrue
  <2> QED
    BY <2>3, <2>4, <2>5 DEF Tick, RequeueStaleProcessing, RequeueFails, FetchFails
<1>3. \A e \in Events : \/ Status(e)' = Status(e)
                        \/ Status(e) = "processing" /\ Status(e)' = "pending"
  <2>1. CASE RequeueStaleProcessing(d)
    BY <1>0, <2>1 DEF RequeueStaleProcessing, IsStale, Row, Status
  <2>2. CASE row' = row
    BY <2>2 DEF Status
  <2> QED
    BY <2>1, <2>2 DEF Crash, Tick, Wakeup, RequeueFails, FetchFails
<1>4. RowsForward
  BY <1>3 DEF RowsForward, Unsettled
<1>5. DeliveryInv' /\ started' = started
  BY <1>2, <1>4, QuietInv
<1>6. \A e \in Events : PhaseFor(Status(e))' = PhaseFor(Status(e))
  BY <1>3 DEF PhaseFor
<1> QED
  BY <1>1, <1>5, <1>6, QuietStep

\* A process starts.  It may bring abandoned events back, and it may be the
\* second one.
LEMMA StartDelivers ==
    ASSUME DeliveryInv, OutboxInv', NEW d \in Dispatchers, RecordStarted, Start(d)
    PROVE  DeliveryInv' /\ [Delivery!Next]_(Delivery!vars)
<1>0. row \in [Events -> Row] /\ disp \in [Dispatchers -> Dispatcher] /\ TypeOK
  BY DEF DeliveryInv, OutboxInv, TypeOK
<1>1. delivered' = delivered
  BY DEF Start
<1>2. /\ disp'[d].pc = "requeue" /\ disp'[d].batch = << >>
      /\ \A c \in Dispatchers : c # d => disp'[c] = disp[c]
  BY <1>0 DEF Start, Stopped
<1>3. BatchesKept
  BY <1>2 DEF BatchesKept, DeliveryInv, StartedTrue
<1>4. started' = started \cup {d}
  BY <1>2 DEF RecordStarted, DeliveryInv, StartedTrue
<1>5. IsFiniteSet(started') /\ started \subseteq started'
  BY <1>4, FS_AddElement DEF DeliveryInv, StartedTrue
<1>6. StartedTrue'
  BY <1>2, <1>4, <1>5 DEF DeliveryInv, StartedTrue
<1>7. PICK S \in SUBSET {e \in Events : Status(e) = "dead"} :
          \A e \in Events : Status(e)' = IF e \in S THEN "pending" ELSE Status(e)
  <2>1. CASE ReplayOnStart
    <3> DEFINE chosen == Oldest({e \in Events : Status(e) = "dead"}, ReplayBatch)
    <3>1. chosen \in SUBSET {e \in Events : Status(e) = "dead"}
      BY DEF Oldest
    <3>2. row' = [e \in Events |-> IF e \in chosen
                          THEN [row[e] EXCEPT !.status = "pending", !.due = TRUE, !.stale = FALSE]
                          ELSE row[e]]
      BY <2>1 DEF Start, ReplayDead
    <3> HIDE DEF chosen
    <3>3. \A e \in Events : Status(e)' = IF e \in chosen THEN "pending" ELSE Status(e)
      BY <1>0, <3>2 DEF Row, Status
    <3> QED
      BY <3>1, <3>3
  <2>2. CASE ~ReplayOnStart
    <3>1. row' = row
      BY <2>2 DEF Start
    <3>2. \A e \in Events : Status(e)' = Status(e)
      BY <3>1 DEF Status
    <3> WITNESS {} \in SUBSET {e \in Events : Status(e) = "dead"}
    <3> QED
      BY <3>2
  <2> QED
    BY <2>1, <2>2
<1>8. RowsForward
  BY <1>7 DEF RowsForward, Unsettled
<1>9. DeliveryInv'
  BY <1>3, <1>5, <1>6, <1>8, QuietBatches
<1>10. /\ DeliveryPhase' = [e \in Events |-> IF e \in S THEN "queued" ELSE DeliveryPhase[e]]
       /\ \A e \in S : DeliveryPhase[e] = "abandoned"
  <2>1. PhaseFor("dead") = "abandoned" /\ PhaseFor("pending") = "queued"
    BY DEF PhaseFor
  <2> QED
    BY <1>7, <2>1 DEF DeliveryPhase
<1>11. Alone' => Alone
  BY <1>5, AloneBefore DEF DeliveryInv
<1>12. CASE Alone /\ ~Alone'
  <2>1. S \in SUBSET {e \in Events : DeliveryPhase[e] = "abandoned"}
    BY <1>10
  <2>2. Delivery!Join
    BY <1>1, <1>10, <1>12, <2>1 DEF Delivery!Join, Alone
  <2> QED
    BY <1>9, <2>2 DEF Delivery!Next
<1>13. CASE ~(Alone /\ ~Alone')
  <2>1. (Cardinality(started) <= 1)' = (Cardinality(started) <= 1)
    BY <1>11, <1>13 DEF Alone
  <2>2. Delivery!Revive(S)
    BY <1>1, <1>10, <2>1 DEF Delivery!Revive
  <2>3. S \in SUBSET Events
    OBVIOUS
  <2> QED
    BY <1>9, <2>2, <2>3 DEF Delivery!Next
<1> QED
  BY <1>12, <1>13

\* A claim takes pending rows, each once; their events stay queued.
LEMMA FetchDelivers ==
    ASSUME DeliveryInv, OutboxInv', NEW d \in Dispatchers, RecordStarted, FetchPendingForUpdate(d)
    PROVE  DeliveryInv' /\ [Delivery!Next]_(Delivery!vars)
<1>0. row \in [Events -> Row] /\ disp \in [Dispatchers -> Dispatcher]
  BY DEF DeliveryInv, OutboxInv, TypeOK
<1>1. delivered' = delivered
  BY DEF FetchPendingForUpdate
<1> DEFINE ids == Oldest({e \in Events : Status(e) = "pending" /\ row[e].due}, BatchSize)
<1>2. ids \in SUBSET Events /\ \A e \in ids : Status(e) = "pending"
  BY DEF Oldest
<1>3. PICK s \in Ascending(ids) :
          disp' = [disp EXCEPT ![d].pc = IF ids = {} THEN "wait" ELSE "publish", ![d].batch = ItemsOf(s)]
  BY DEF FetchPendingForUpdate
<1>4. row' = [e \in Events |-> IF e \in ids
                              THEN [row[e] EXCEPT !.status = "processing", !.stale = FALSE,
                                                  !.attempts = CountAttempt(@)]
                              ELSE row[e]]
  BY DEF FetchPendingForUpdate
<1> HIDE DEF ids
<1>5. \A e \in Events : Status(e)' = IF e \in ids THEN "processing" ELSE Status(e)
  BY <1>0, <1>4 DEF Row, Status
<1>6. /\ disp[d].pc = "fetch"
      /\ disp'[d].pc # "down" /\ disp'[d].batch = ItemsOf(s)
      /\ \A c \in Dispatchers : c # d => disp'[c] = disp[c]
  <2>1. disp[d].pc = "fetch"
    BY DEF FetchPendingForUpdate
  <2>2. disp[d] \in Dispatcher
    BY <1>0
  <2>3. disp'[d] = [disp[d] EXCEPT !.pc = IF ids = {} THEN "wait" ELSE "publish", !.batch = ItemsOf(s)]
    BY <1>0, <1>3
  <2>4. disp'[d].pc = IF ids = {} THEN "wait" ELSE "publish"
    BY <2>2, <2>3 DEF Dispatcher
  <2>5. disp'[d].batch = ItemsOf(s)
    BY <2>2, <2>3 DEF Dispatcher
  <2>6. \A c \in Dispatchers : c # d => disp'[c] = disp[c]
    BY <1>0, <1>3
  <2> QED
    BY <2>1, <2>4, <2>5, <2>6
<1>7. NobodyStarts
  BY <1>6 DEF NobodyStarts
<1>8. started' = started
  BY <1>7, StartedKept DEF DeliveryInv
<1>9. StartedTrue'
  BY <1>6, <1>8 DEF DeliveryInv, StartedTrue
<1>10. RowsForward
  BY <1>2, <1>5 DEF RowsForward, Unsettled
<1>11. \A n \in 1..Len(ItemsOf(s)) : ItemsOf(s)[n].id \in ids
  BY <1>0, <1>2, ItemsOfType
<1>12. \A m, n \in 1..Len(ItemsOf(s)) : ItemsOf(s)[m].id = ItemsOf(s)[n].id => m = n
  BY <1>0, <1>2, AscendingDistinct
<1>13. BatchAccepted'
  <2> SUFFICES ASSUME NEW c \in Dispatchers, NEW n \in 1..Len(disp'[c].batch)
               PROVE  /\ row'[disp'[c].batch[n].id].status # "absent"
                      /\ Alone' => row'[disp'[c].batch[n].id].status \in Unsettled
    BY DEF BatchAccepted, Status
  <2>1. CASE c = d
    <3>1. disp'[c].batch[n].id \in ids
      BY <1>6, <1>11, <2>1
    <3> QED
      BY <1>2, <1>5, <3>1 DEF Unsettled, Status
  <2>2. CASE c # d
    <3>1. disp'[c] = disp[c] /\ disp[c] \in Dispatcher
      BY <1>0, <1>6, <2>2
    <3>2. disp[c].batch[n] \in Item
      BY <3>1, DispatcherFields
    <3>6. disp[c].batch[n].id \in Events
      BY <3>2 DEF Item
    <3>3. Alone' => Alone
      BY <1>8 DEF Alone
    <3> DEFINE f == disp[c].batch[n].id
    <3>4. Status(f) # "absent" /\ (Alone => Status(f) \in Unsettled)
      BY <3>1 DEF DeliveryInv, BatchAccepted
    <3> HIDE DEF f
    <3>5. row'[f].status # "absent" /\ (Alone => row'[f].status \in Unsettled)
      BY <1>10, <3>6, <3>4 DEF RowsForward, Status, f
    <3> QED
      BY <3>1, <3>3, <3>5 DEF f
  <2> QED
    BY <2>1, <2>2
<1>14. BatchDistinct'
  BY <1>6, <1>12 DEF DeliveryInv, BatchDistinct
<1>15. \A e \in Events : PhaseFor(Status(e))' = PhaseFor(Status(e))
  <2>1. PhaseFor("pending") = "queued" /\ PhaseFor("processing") = "queued"
    BY DEF PhaseFor
  <2> QED
    BY <1>2, <1>5, <2>1
<1> QED
  BY <1>1, <1>8, <1>9, <1>13, <1>14, <1>15, QuietStep DEF DeliveryInv

\* An event is delivered while it is queued, unless a second instance has
\* settled it in the meantime.
LEMMA PublishDelivers ==
    ASSUME DeliveryInv, OutboxInv', NEW d \in Dispatchers, RecordStarted,
           PublishSucceeds(d) \/ PublishFails(d)
    PROVE  DeliveryInv' /\ [Delivery!Next]_(Delivery!vars)
<1>0. row \in [Events -> Row] /\ disp \in [Dispatchers -> Dispatcher] /\ TypeOK
  BY DEF DeliveryInv, OutboxInv, TypeOK
<1> DEFINE e == Head(disp[d].batch).id
<1>1. /\ disp[d].pc = "publish" /\ disp[d].batch # << >> /\ row' = row
      /\ delivered' = delivered \/ delivered' = delivered \cup {e}
  BY DEF PublishSucceeds, PublishFails, Publishing
<1>2. \E m \in Outcome : disp' = [disp EXCEPT ![d].mark = m]
  BY DEF PublishSucceeds, PublishFails, Outcome
<1>3. \A c \in Dispatchers : disp'[c].pc = disp[c].pc /\ disp'[c].batch = disp[c].batch
  BY <1>0, <1>2 DEF Dispatcher
<1>4. disp[d].batch \in Seq(Item)
  BY <1>0, DispatcherFields
<1>5. Head(disp[d].batch) \in Item /\ Head(disp[d].batch) = disp[d].batch[1] /\ 1 \in 1..Len(disp[d].batch)
  BY <1>1, <1>4, TailOfBatch
<1>6. e \in Events /\ Status(e) # "absent" /\ (Alone => Status(e) \in Unsettled)
  BY <1>5 DEF Item, DeliveryInv, BatchAccepted
<1> HIDE DEF e
<1>7. \A f \in Events : Status(f)' = Status(f)
  BY <1>1 DEF Status
<1>8. RowsForward /\ BatchesKept /\ NobodyStarts
  BY <1>3, <1>7 DEF RowsForward, BatchesKept, NobodyStarts, DeliveryInv, StartedTrue
<1>9. DeliveryInv' /\ started' = started
  BY <1>8, QuietInv
<1>10. CASE delivered' = delivered
  BY <1>7, <1>9, <1>10, QuietStep
<1>11. CASE delivered' = delivered \cup {e}
  <2>1. DeliveryPhase' = DeliveryPhase /\ DeliveryPhase[e] = PhaseFor(Status(e))
    BY <1>6, <1>7 DEF DeliveryPhase
  <2>2. DeliveryPhase[e] # "absent" /\ (Alone => DeliveryPhase[e] = "queued")
    BY <1>0, <1>6, <2>1, StatusRange, PhaseFacts
  <2>3. Delivery!Deliver(e)
    BY <1>9, <1>11, <2>1, <2>2 DEF Delivery!Deliver, Alone
  <2> QED
    BY <1>6, <1>9, <2>3 DEF Delivery!Next
<1> QED
  BY <1>1, <1>10, <1>11

\* After its first item a dispatcher remembers the others, and only those.
LEMMA RestOfBatch ==
    ASSUME DeliveryInv, OutboxInv', NEW d \in Dispatchers, RecordStarted, disp[d].mark # None, NextItem(d)
    PROVE  /\ d \in started /\ started' = started
           /\ StartedTrue' /\ BatchDistinct'
           /\ \A c \in Dispatchers : \A n \in 1..Len(disp'[c].batch) :
                 \E k \in 1..Len(disp[c].batch) :
                    /\ disp'[c].batch[n].id = disp[c].batch[k].id
                    /\ c = d => disp[c].batch[k].id # Head(disp[d].batch).id
<1>0. disp \in [Dispatchers -> Dispatcher]
  BY DEF DeliveryInv, OutboxInv, TypeOK
<1>1. disp[d].batch \in Seq(Item) /\ disp[d].batch # << >> /\ disp[d].pc = "publish"
  BY <1>0, DispatcherFields DEF DeliveryInv, OutboxInv, MarkJustified
<1>2. /\ Head(disp[d].batch) = disp[d].batch[1] /\ 1 \in 1..Len(disp[d].batch)
      /\ Tail(disp[d].batch) \in Seq(Item)
      /\ \A n \in 1..Len(Tail(disp[d].batch)) :
            n + 1 \in 1..Len(disp[d].batch) /\ Tail(disp[d].batch)[n] = disp[d].batch[n + 1]
  BY <1>1, TailOfBatch
<1>3. /\ disp'[d].batch = Tail(disp[d].batch) /\ disp'[d].pc # "down"
      /\ \A c \in Dispatchers : c # d => disp'[c] = disp[c]
  <2>1. disp[d] \in Dispatcher
    BY <1>0
  <2>2. disp'[d] = [disp[d] EXCEPT !.batch = Tail(@), !.mark = None,
                                   !.pc = IF Len(disp[d].batch) = 1 THEN "wait" ELSE "publish"]
    BY <1>0 DEF NextItem
  <2>3. disp'[d].batch = Tail(disp[d].batch)
    BY <2>1, <2>2 DEF Dispatcher
  <2>4. disp'[d].pc = IF Len(disp[d].batch) = 1 THEN "wait" ELSE "publish"
    BY <2>1, <2>2 DEF Dispatcher
  <2>5. \A c \in Dispatchers : c # d => disp'[c] = disp[c]
    BY <1>0 DEF NextItem
  <2>6. disp'[d].pc # "down"
    BY <2>4
  <2> QED
    BY <2>3, <2>5, <2>6, Zenon
<1>4. NobodyStarts /\ d \in started
  BY <1>1, <1>3 DEF NobodyStarts, DeliveryInv, StartedTrue
<1>5. started' = started
  BY <1>4, StartedKept DEF DeliveryInv
<1>6. StartedTrue'
  <2>1. StartedTrue
    BY DEF DeliveryInv
  <2>2. \A c \in Dispatchers : disp'[c].pc # "down" => c \in started
    BY <1>3, <1>4, <2>1 DEF StartedTrue
  <2>3. \A c \in Dispatchers : disp'[c].pc = "down" => disp'[c].batch = << >>
    BY <1>3, <2>1 DEF StartedTrue
  <2> QED
    BY <1>5, <2>1, <2>2, <2>3 DEF StartedTrue
<1>7. \A m, n \in 1..Len(disp[d].batch) : disp[d].batch[m].id = disp[d].batch[n].id => m = n
  BY DEF DeliveryInv, BatchDistinct
<1>8. Len(Tail(disp[d].batch)) \in Nat
  BY <1>2
<1>9. ASSUME NEW m \in 1..Len(Tail(disp[d].batch)), NEW n \in 1..Len(Tail(disp[d].batch)),
             Tail(disp[d].batch)[m].id = Tail(disp[d].batch)[n].id
      PROVE  m = n
  <2>1. m + 1 = n + 1
    BY <1>2, <1>7, <1>9
  <2> QED
    BY <1>8, <2>1
<1>10. BatchDistinct'
  BY <1>3, <1>9 DEF DeliveryInv, BatchDistinct
<1>11. ASSUME NEW c \in Dispatchers, NEW n \in 1..Len(disp'[c].batch)
       PROVE  \E k \in 1..Len(disp[c].batch) :
                    /\ disp'[c].batch[n].id = disp[c].batch[k].id
                    /\ c = d => disp[c].batch[k].id # Head(disp[d].batch).id
  <2>1. CASE c = d
    <3>1. n \in 1..Len(Tail(disp[d].batch))
      BY <1>3, <2>1
    <3>2. n + 1 # 1
      BY <1>8, <3>1
    <3>3. n + 1 \in 1..Len(disp[d].batch) /\ disp'[d].batch[n] = disp[d].batch[n + 1]
      BY <1>2, <1>3, <3>1
    <3>4. disp[d].batch[n + 1].id # disp[d].batch[1].id
      BY <1>2, <1>7, <3>2, <3>3
    <3> QED
      BY <1>2, <2>1, <3>3, <3>4
  <2>2. CASE c # d
    BY <1>3, <2>2
  <2> QED
    BY <2>1, <2>2
<1> QED
  BY <1>4, <1>5, <1>6, <1>10, <1>11

\* What is written for a row finishes or abandons its event, or lets it stay
\* queued; a row that another instance has settled is overruled.
LEMMA MarkDelivers ==
    ASSUME DeliveryInv, OutboxInv', NEW d \in Dispatchers, RecordStarted, Mark(d)
    PROVE  DeliveryInv' /\ [Delivery!Next]_(Delivery!vars)
<1>0. row \in [Events -> Row] /\ disp \in [Dispatchers -> Dispatcher] /\ TypeOK
  BY DEF DeliveryInv, OutboxInv, TypeOK
<1> DEFINE e == Head(disp[d].batch).id
<1>1. /\ disp[d].mark # None /\ NextItem(d) /\ delivered' = delivered
      /\ row' = [row EXCEPT ![e] = Marked(e, disp[d].mark)]
  BY DEF Mark
<1>2. /\ disp[d].batch \in Seq(Item) /\ disp[d].batch # << >>
      /\ disp[d].mark \in {"published", "retry", "dead"}
      /\ disp[d].mark = "published" => e \in delivered
  BY <1>0, <1>1, DispatcherFields DEF DeliveryInv, OutboxInv, MarkJustified, Outcome
<1>3. Head(disp[d].batch) \in Item /\ Head(disp[d].batch) = disp[d].batch[1] /\ 1 \in 1..Len(disp[d].batch)
  BY <1>2, TailOfBatch
<1>4. e \in Events /\ Status(e) # "absent" /\ (Alone => Status(e) \in Unsettled)
  BY <1>3 DEF Item, DeliveryInv, BatchAccepted
<1>5. /\ d \in started /\ started' = started
      /\ StartedTrue' /\ BatchDistinct'
      /\ \A c \in Dispatchers : \A n \in 1..Len(disp'[c].batch) :
            \E k \in 1..Len(disp[c].batch) :
               /\ disp'[c].batch[n].id = disp[c].batch[k].id
               /\ c = d => disp[c].batch[k].id # e
  BY <1>1, RestOfBatch
<1> HIDE DEF e
<1>6. PICK s \in {"published", "pending", "dead"} :
          /\ \A f \in Events : Status(f)' = IF f = e THEN s ELSE Status(f)
          /\ s = "published" => e \in delivered
  <2>1. Marked(e, disp[d].mark).status = CASE disp[d].mark = "published" -> "published"
                                           [] disp[d].mark = "retry" -> "pending"
                                           [] disp[d].mark = "dead" -> "dead"
    BY <1>0, <1>2, <1>4 DEF Marked, Row
  <2>2. \A f \in Events : Status(f)' = IF f = e THEN Marked(e, disp[d].mark).status ELSE Status(f)
    BY <1>0, <1>1, <1>4 DEF Status
  <2> QED
    BY <1>2, <2>1, <2>2
<1>7. BatchAccepted'
  <2> SUFFICES ASSUME NEW c \in Dispatchers, NEW n \in 1..Len(disp'[c].batch)
               PROVE  /\ row'[disp'[c].batch[n].id].status # "absent"
                      /\ Alone' => row'[disp'[c].batch[n].id].status \in Unsettled
    BY DEF BatchAccepted, Status
  <2>1. PICK k \in 1..Len(disp[c].batch) :
               /\ disp'[c].batch[n].id = disp[c].batch[k].id
               /\ c = d => disp[c].batch[k].id # e
    BY <1>5
  <2> DEFINE f == disp[c].batch[k].id
  <2>2. f \in Events
    <3>1. disp[c] \in Dispatcher
      BY <1>0
    <3>2. disp[c].batch[k] \in Item
      BY <3>1, DispatcherFields
    <3> QED
      BY <3>2 DEF Item
  <2>3. Status(f) # "absent" /\ (Alone => Status(f) \in Unsettled)
    BY DEF DeliveryInv, BatchAccepted
  <2>4. Alone => c = d
    <3> SUFFICES ASSUME Alone, c # d PROVE FALSE
      OBVIOUS
    <3>1. disp[c].batch = << >>
      BY <1>5, OthersIdle DEF DeliveryInv
    <3> QED
      BY <3>1
  <2>5. Alone => f # e
    BY <2>1, <2>4
  <2>6. disp'[c].batch[n].id = f /\ (Alone' => Alone)
    BY <1>5, <2>1 DEF Alone
  <2> HIDE DEF f
  <2>7. row'[f].status = IF f = e THEN s ELSE Status(f)
    BY <1>6, <2>2 DEF Status
  <2> QED
    BY <2>3, <2>5, <2>6, <2>7
<1>8. DeliveryInv'
  BY <1>5, <1>7 DEF DeliveryInv
<1>9. DeliveryPhase' = [DeliveryPhase EXCEPT ![e] = PhaseFor(s)] /\ DeliveryPhase[e] = PhaseFor(Status(e))
  BY <1>4, <1>6 DEF DeliveryPhase
<1>10. /\ PhaseFor("published") = "done" /\ PhaseFor("pending") = "queued" /\ PhaseFor("dead") = "abandoned"
       /\ PhaseFor("processing") = "queued"
  BY DEF PhaseFor
<1>11. CASE Status(e) \in Unsettled
  <2>1. DeliveryPhase[e] = "queued"
    BY <1>9, <1>10, <1>11 DEF Unsettled
  <2>2. CASE s = "published"
    <3>1. Delivery!Finish(e)
      BY <1>1, <1>5, <1>6, <1>9, <1>10, <2>1, <2>2 DEF Delivery!Finish
    <3> QED
      BY <1>4, <1>8, <3>1 DEF Delivery!Next
  <2>3. CASE s = "dead"
    <3>1. Delivery!Abandon(e)
      BY <1>1, <1>5, <1>9, <1>10, <2>1, <2>3 DEF Delivery!Abandon
    <3> QED
      BY <1>4, <1>8, <3>1 DEF Delivery!Next
  <2>4. CASE s = "pending"
    <3>1. \A f \in Events : PhaseFor(Status(f))' = PhaseFor(Status(f))
      BY <1>6, <1>10, <1>11, <2>4 DEF Unsettled
    <3> QED
      BY <1>1, <1>5, <1>8, <3>1, QuietStep
  <2> QED
    BY <2>2, <2>3, <2>4
<1>12. CASE Status(e) \notin Unsettled
  <2>1. ~Alone /\ Status(e) \in {"published", "dead"}
    BY <1>0, <1>4, <1>12, StatusRange DEF Unsettled
  <2>2. DeliveryPhase[e] \in {"done", "abandoned"}
    BY <1>9, <1>10, <2>1
  <2>3. PhaseFor(s) \in {"queued", "done", "abandoned"} /\ (PhaseFor(s) = "done" => e \in delivered)
    BY <1>6, <1>10
  <2>4. Delivery!Overrule(e)
    BY <1>1, <1>5, <1>9, <2>1, <2>2, <2>3 DEF Delivery!Overrule, Alone
  <2> QED
    BY <1>4, <1>8, <2>4 DEF Delivery!Next
<1> QED
  BY <1>11, <1>12

\* An update that fails leaves the row, and so the event, where it was.
LEMMA MarkFailsDelivers ==
    ASSUME DeliveryInv, OutboxInv', NEW d \in Dispatchers, RecordStarted, MarkFails(d)
    PROVE  DeliveryInv' /\ [Delivery!Next]_(Delivery!vars)
<1>1. disp[d].mark # None /\ NextItem(d) /\ delivered' = delivered /\ row' = row
  BY DEF MarkFails
<1>2. /\ started' = started /\ StartedTrue' /\ BatchDistinct'
      /\ \A c \in Dispatchers : \A n \in 1..Len(disp'[c].batch) :
            \E k \in 1..Len(disp[c].batch) : disp'[c].batch[n].id = disp[c].batch[k].id
  BY <1>1, RestOfBatch
<1>3. BatchAccepted'
  <2> SUFFICES ASSUME NEW c \in Dispatchers, NEW n \in 1..Len(disp'[c].batch)
               PROVE  /\ row'[disp'[c].batch[n].id].status # "absent"
                      /\ Alone' => row'[disp'[c].batch[n].id].status \in Unsettled
    BY DEF BatchAccepted, Status
  <2>1. PICK k \in 1..Len(disp[c].batch) : disp'[c].batch[n].id = disp[c].batch[k].id
    BY <1>2
  <2>2. /\ Status(disp[c].batch[k].id) # "absent"
        /\ Alone => Status(disp[c].batch[k].id) \in Unsettled
    BY DEF DeliveryInv, BatchAccepted
  <2> QED
    BY <1>1, <1>2, <2>1, <2>2 DEF Status, Alone
<1>4. \A f \in Events : PhaseFor(Status(f))' = PhaseFor(Status(f))
  BY <1>1 DEF Status
<1> QED
  BY <1>1, <1>2, <1>3, <1>4, QuietStep DEF DeliveryInv

-----------------------------------------------------------------------------

\* Nobody has started and no event is accepted.
LEMMA InitDelivers == DeliveryInit => DeliveryInv /\ Delivery!Init
<1> SUFFICES ASSUME DeliveryInit PROVE DeliveryInv /\ Delivery!Init
  OBVIOUS
<1>1. OutboxInv
  BY InitOutboxInv DEF DeliveryInit
<1>2. started = {} /\ IsFiniteSet(started) /\ Cardinality(started) = 0
  BY FS_EmptySet DEF DeliveryInit
<1>3. \A d \in Dispatchers : disp[d].pc = "down" /\ disp[d].batch = << >>
  BY DEF DeliveryInit, Init, Stopped
<1>4. DeliveryInv
  BY <1>1, <1>2, <1>3 DEF DeliveryInv, StartedTrue, BatchAccepted, BatchDistinct
<1>5. PhaseFor("absent") = "absent" /\ \A e \in Events : Status(e) = "absent"
  BY DEF PhaseFor, DeliveryInit, Init, Status
<1>6. DeliveryPhase = [e \in Events |-> "absent"] /\ delivered = {}
  BY <1>5 DEF DeliveryPhase, DeliveryInit, Init
<1> QED
  BY <1>2, <1>4, <1>6 DEF Delivery!Init

\* Every step of the outbox is one that EventDelivery allows, or none.
LEMMA NextDelivers ==
    DeliveryInv /\ [DeliveryNext]_deliveryVars => DeliveryInv' /\ [Delivery!Next]_(Delivery!vars)
<1> SUFFICES ASSUME DeliveryInv, [DeliveryNext]_deliveryVars
             PROVE  DeliveryInv' /\ [Delivery!Next]_(Delivery!vars)
  OBVIOUS
<1>1. OutboxInv'
  <2>1. [Next]_vars
    BY DEF DeliveryNext, deliveryVars
  <2> QED
    BY <2>1, NextOutboxInv DEF DeliveryInv
<1>2. CASE UNCHANGED deliveryVars
  <2>1. row' = row /\ disp' = disp /\ delivered' = delivered /\ started' = started
    BY <1>2 DEF deliveryVars, vars
  <2>2. DeliveryInv'
    BY <1>1, <2>1 DEF DeliveryInv, StartedTrue, BatchAccepted, BatchDistinct, Alone, Status
  <2>3. \A f \in Events : PhaseFor(Status(f))' = PhaseFor(Status(f))
    BY <2>1 DEF Status
  <2> QED
    BY <2>1, <2>2, <2>3, QuietStep
<1>3. CASE DeliveryNext
  <2>1. Next /\ RecordStarted
    BY <1>3 DEF DeliveryNext, RecordStarted
  <2>2. ASSUME NEW e \in Events, Enqueue(e) \/ RetryDue(e) \/ ProcessingTimesOut(e)
        PROVE  DeliveryInv' /\ [Delivery!Next]_(Delivery!vars)
    BY <1>1, <2>1, <2>2, WritersDeliver
  <2>3. ASSUME NEW d \in Dispatchers,
               \/ Start(d) \/ Crash(d) \/ Tick(d) \/ Wakeup(d) \/ Dispatch(d)
               \/ RequeueFails(d) \/ FetchFails(d) \/ MarkFails(d)
        PROVE  DeliveryInv' /\ [Delivery!Next]_(Delivery!vars)
    BY <1>1, <2>1, <2>3, StartDelivers, LoopDelivers, FetchDelivers, PublishDelivers,
       MarkDelivers, MarkFailsDelivers DEF Dispatch
  <2> QED
    BY <2>1, <2>2, <2>3 DEF Next
<1> QED
  BY <1>2, <1>3

\* The outbox implements EventDelivery, fairness apart: an accepted event is
\* delivered before it is done, it is never forgotten, and as long as one
\* instance does the work what is done stays done.
THEOREM OutboxImplements == DeliverySpec => Delivery!SafetySpec
<1> QED
  BY InitDelivers, NextDelivers, PTL DEF DeliverySpec, Delivery!SafetySpec

=============================================================================
