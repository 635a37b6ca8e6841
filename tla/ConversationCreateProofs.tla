----------------------- MODULE ConversationCreateProofs -----------------------
(***************************************************************************)
(* The creation lock for any number of callers, any life of the lock, any  *)
(* deadline of a call and any number of inserts that take effect late.     *)
(*                                                                         *)
(* A call between its query and its insert either holds the lock or has    *)
(* outlived it (Outlived).  The second kind appears only when a key        *)
(* expires under its call, so there are no more of them than overruns.     *)
(* Each may still add a conversation to those that are open, and so may    *)
(* the call that holds the lock if its query found none.  The sum of these *)
(* three never exceeds 1 + overruns: a step that adds to one of them takes *)
(* from another, or is an overrun.                                         *)
(***************************************************************************)
EXTENDS ConversationCreate, FiniteSetTheorems, TLAPS

Querying(p) == call[p].pc \in {"read", "insert"}

\* The calls that have outlived their lock.
Outlived == {p \in Creators : Querying(p) /\ lock.holder # p}

\* What the holder of the lock is about to insert.
HolderInserts == IF \E p \in Creators : lock.holder = p /\ call[p].pc = "insert" THEN 1 ELSE 0

\* Nothing is counted any more once the rows themselves are the bound.
OverrunsCover ==
    overruns < MaxConversations =>
        /\ Cardinality(Outlived) <= overruns
        /\ Cardinality(OpenConversations) + Cardinality(Outlived) + HolderInserts <= 1 + overruns

CreateInv == TypeOK /\ Len(convs) <= MaxConversations /\ OverrunsCover

-----------------------------------------------------------------------------

\* Every step keeps the types.
LEMMA NextTypeOK == TypeOK /\ [CreateNext]_createVars => TypeOK'
<1> SUFFICES ASSUME TypeOK, [CreateNext]_createVars PROVE TypeOK'
  OBVIOUS
<1>1. CASE UNCHANGED createVars
  BY <1>1 DEF createVars, TypeOK
<1>2. ASSUME NEW p \in Creators,
             \/ Begin(p) \/ Acquire(p) \/ GiveUpLocking(p)
             \/ ReadOpen(p) \/ InsertConversation(p) \/ QueryFails(p)
             \/ Unlock(p) \/ Abandon(p)
      PROVE  TypeOK'
  <2>1. CASE Begin(p)
    BY <2>1 DEF Begin, Goto, TypeOK
  <2>2. CASE Acquire(p)
    BY <2>2, CreateAssumption DEF Acquire, Goto, TypeOK
  <2>3. CASE GiveUpLocking(p)
    BY <2>3, CreateAssumption DEF GiveUpLocking, NoCall, TypeOK
  <2>4. CASE ReadOpen(p)
    BY <2>4 DEF ReadOpen, Goto, TypeOK
  <2>5. CASE InsertConversation(p)
    <3>1. convs' \in Seq({"open", "closed"})
      BY <2>5 DEF InsertConversation, TypeOK
    <3> QED
      BY <2>5, <3>1 DEF InsertConversation, Goto, TypeOK
  <2>6. CASE QueryFails(p)
    <3>1. late' \in 0..MaxLate
      BY <2>6, CreateAssumption DEF QueryFails, LeaveInsert, TypeOK
    <3> QED
      BY <2>6, <3>1 DEF QueryFails, Goto, TypeOK
  <2>7. CASE Unlock(p)
    BY <2>7, CreateAssumption DEF Unlock, NoCall, Free, TypeOK
  <2>8. CASE Abandon(p)
    <3>1. late' \in 0..MaxLate
      BY <2>8, CreateAssumption DEF Abandon, LeaveInsert, TypeOK
    <3> QED
      BY <2>8, <3>1, CreateAssumption DEF Abandon, NoCall, TypeOK
  <2> QED
    BY <1>2, <2>1, <2>2, <2>3, <2>4, <2>5, <2>6, <2>7, <2>8
<1>3. CASE Expire \/ LateInsert
  <2>1. overruns' \in 0..MaxConversations
    BY <1>3, CreateAssumption DEF Expire, LateInsert, CountOverrun, TypeOK
  <2>2. CASE Expire
    BY <2>1, <2>2, CreateAssumption DEF Expire, Free, TypeOK
  <2>3. CASE LateInsert
    <3>1. late' \in 0..MaxLate
      BY <2>3, CreateAssumption DEF LateInsert, TypeOK
    <3>2. convs' \in Seq({"open", "closed"})
      BY <2>3 DEF LateInsert, TypeOK
    <3> QED
      BY <2>1, <2>3, <3>1, <3>2 DEF LateInsert, TypeOK
  <2> QED
    BY <1>3, <2>2, <2>3
<1>4. ASSUME NEW i \in DOMAIN convs, Close(i) PROVE TypeOK'
  BY <1>4 DEF Close, TypeOK
<1>5. CASE CallsAge
  <2>1. ASSUME NEW p \in Creators PROVE call'[p] \in [pc : {"idle", "lock", "read", "insert", "unlock"}, age : 0..CallTimeout]
    BY <1>5, CreateAssumption DEF CallsAge, TypeOK
  <2>2. call' \in [Creators -> [pc : {"idle", "lock", "read", "insert", "unlock"}, age : 0..CallTimeout]]
    BY <1>5, <2>1 DEF CallsAge
  <2>3. lock' \in [holder : Creators \cup {None}, age : 0..LockTTL] /\ convs' = convs /\ late' = late /\ overruns' = overruns
    <3>1. lock \in [holder : Creators \cup {None}, age : 0..LockTTL] /\ convs' = convs
          /\ late' = late /\ overruns' = overruns
      BY <1>5 DEF CallsAge, TypeOK
    <3>2. CASE lock.holder = None
      BY <1>5, <3>1, <3>2 DEF CallsAge
    <3>3. CASE lock.holder # None
      <4>1. lock.age < LockTTL /\ lock' = [lock EXCEPT !.age = @ + 1]
        BY <1>5, <3>3 DEF CallsAge
      <4> QED
        BY <3>1, <4>1, CreateAssumption
    <3> QED
      BY <3>2, <3>3
  <2> QED
    BY <2>2, <2>3 DEF TypeOK
<1> QED
  BY <1>1, <1>2, <1>3, <1>4, <1>5 DEF CreateNext

\* The sets that are counted are finite, and the counts are numbers.
LEMMA Counts ==
  ASSUME TypeOK
  PROVE  /\ IsFiniteSet(OpenConversations) /\ Cardinality(OpenConversations) \in Nat
         /\ Cardinality(OpenConversations) <= Len(convs)
         /\ IsFiniteSet(Outlived) /\ Cardinality(Outlived) \in Nat
         /\ HolderInserts \in {0, 1}
         /\ overruns \in Nat
<1>1. Len(convs) \in Nat /\ OpenConversations \subseteq 1..Len(convs)
  BY DEF TypeOK, OpenConversations
<1>2. IsFiniteSet(1..Len(convs)) /\ Cardinality(1..Len(convs)) = Len(convs)
  BY <1>1, FS_Interval
<1>3. /\ IsFiniteSet(OpenConversations)
      /\ Cardinality(OpenConversations) <= Len(convs)
      /\ Cardinality(OpenConversations) \in Nat
  BY <1>1, <1>2, FS_Subset, FS_CardinalityType
<1>4. IsFiniteSet(Outlived) /\ Cardinality(Outlived) \in Nat
  BY CreateAssumption, FS_Subset, FS_CardinalityType DEF Outlived
<1> QED
  BY <1>3, <1>4, CreateAssumption DEF HolderInserts, TypeOK

\* A step that adds to none of the three keeps them covered.
LEMMA NothingAdded ==
  ASSUME TypeOK, TypeOK', OverrunsCover, overruns' = overruns,
         OpenConversations' \subseteq OpenConversations, Outlived' \subseteq Outlived,
         HolderInserts' <= HolderInserts
  PROVE  OverrunsCover'
<1> DEFINE o == Cardinality(OpenConversations)
           s == Cardinality(Outlived)
<1>1. /\ IsFiniteSet(OpenConversations) /\ o \in Nat /\ IsFiniteSet(Outlived) /\ s \in Nat
      /\ HolderInserts \in {0, 1} /\ overruns \in Nat
  BY Counts
<1>2. PICK O : O = OpenConversations'
  OBVIOUS
<1>3. PICK S : S = Outlived'
  OBVIOUS
<1>4. Cardinality(O) \in Nat /\ Cardinality(O) <= o
  BY <1>1, <1>2, FS_Subset, FS_CardinalityType
<1>5. Cardinality(S) \in Nat /\ Cardinality(S) <= s
  BY <1>1, <1>3, FS_Subset, FS_CardinalityType
<1>6. HolderInserts' \in {0, 1}
  BY DEF HolderInserts
<1>7. Cardinality(OpenConversations') = Cardinality(O) /\ Cardinality(Outlived') = Cardinality(S)
  BY <1>2, <1>3
<1> QED
  BY <1>1, <1>4, <1>5, <1>6, <1>7, CreateAssumption DEF OverrunsCover

\* Overruns are counted up to the bound.
LEMMA OverrunCounted ==
  ASSUME TypeOK, CountOverrun, overruns' < MaxConversations
  PROVE  overruns' = overruns + 1 /\ overruns < MaxConversations
  BY CreateAssumption DEF TypeOK, CountOverrun

\* A row that is inserted is open, and the others are as they were.
LEMMA RowInserted ==
  ASSUME TypeOK, convs' = Append(convs, "open")
  PROVE  Cardinality(OpenConversations') = Cardinality(OpenConversations) + 1
<1>1. OpenConversations' = OpenConversations \cup {Len(convs) + 1}
  BY DEF TypeOK, OpenConversations
<1>2. Len(convs) + 1 \notin OpenConversations
  BY DEF TypeOK, OpenConversations
<1>3. Cardinality(OpenConversations \cup {Len(convs) + 1}) = Cardinality(OpenConversations) + 1
  BY <1>2, Counts, FS_AddElement
<1> QED
  BY <1>1, <1>3

\* The query of a call that holds the lock found no open conversation, or ends
\* the call; that of another changes nothing for the rest.
LEMMA ReadOpenCovered ==
  ASSUME CreateInv, TypeOK', NEW p \in Creators, ReadOpen(p)
  PROVE  OverrunsCover'
<1>1. /\ lock' = lock /\ convs' = convs /\ overruns' = overruns /\ call[p].pc = "read"
      /\ call'[p].pc = IF OpenConversations # {} THEN "unlock" ELSE "insert"
      /\ \A q \in Creators : q # p => call'[q] = call[q]
  BY DEF ReadOpen, Goto, CreateInv, TypeOK
<1>2. OpenConversations' = OpenConversations
  BY <1>1 DEF OpenConversations
<1>3. Outlived' \subseteq Outlived
  BY <1>1 DEF Outlived, Querying
<1>4. CASE lock.holder = p /\ OpenConversations = {}
  <2>1. Outlived' = Outlived
    BY <1>1, <1>4 DEF Outlived, Querying
  <2>2. HolderInserts' \in {0, 1}
    BY DEF HolderInserts
  <2>3. Cardinality(OpenConversations') = 0 /\ Cardinality(Outlived') = Cardinality(Outlived)
    BY <1>2, <1>4, <2>1, FS_EmptySet
  <2>4. Cardinality(Outlived) \in Nat /\ overruns \in Nat
    BY Counts DEF CreateInv
  <2> QED
    BY <1>1, <2>2, <2>3, <2>4 DEF CreateInv, OverrunsCover
<1>5. CASE ~(lock.holder = p /\ OpenConversations = {})
  <2>1. HolderInserts' <= HolderInserts
    BY <1>1, <1>5 DEF HolderInserts
  <2> QED
    BY <1>1, <1>2, <1>3, <2>1, NothingAdded DEF CreateInv
<1> QED
  BY <1>4, <1>5

\* An insert uses up what was counted for its call.
LEMMA InsertCovered ==
  ASSUME CreateInv, TypeOK', NEW p \in Creators, InsertConversation(p)
  PROVE  OverrunsCover'
<1>1. /\ lock' = lock /\ convs' = Append(convs, "open") /\ overruns' = overruns
      /\ call[p].pc = "insert" /\ call'[p].pc = "unlock"
      /\ \A q \in Creators : q # p => call'[q] = call[q]
  BY DEF InsertConversation, Goto, CreateInv, TypeOK
<1>2. /\ Cardinality(OpenConversations) \in Nat /\ IsFiniteSet(Outlived) /\ Cardinality(Outlived) \in Nat
      /\ HolderInserts \in {0, 1} /\ overruns \in Nat
  BY Counts DEF CreateInv
<1>3. Cardinality(OpenConversations') = Cardinality(OpenConversations) + 1
  BY <1>1, RowInserted DEF CreateInv
<1>4. CASE lock.holder = p
  <2>1. Outlived' = Outlived
    BY <1>1, <1>4 DEF Outlived, Querying
  <2>2. HolderInserts = 1 /\ HolderInserts' = 0
    BY <1>1, <1>4 DEF HolderInserts
  <2>3. Cardinality(Outlived') = Cardinality(Outlived)
    BY <2>1
  <2> QED
    BY <1>1, <1>2, <1>3, <2>2, <2>3 DEF CreateInv, OverrunsCover
<1>5. CASE lock.holder # p
  <2>1. p \in Outlived /\ Outlived' = Outlived \ {p}
    BY <1>1, <1>5 DEF Outlived, Querying
  <2>2. Cardinality(Outlived \ {p}) = Cardinality(Outlived) - 1
    BY <1>2, <2>1, FS_RemoveElement
  <2>3. Cardinality(Outlived') = Cardinality(Outlived) - 1
    BY <2>1, <2>2
  <2>4. HolderInserts' = HolderInserts
    BY <1>1, <1>5 DEF HolderInserts
  <2> QED
    BY <1>1, <1>2, <1>3, <2>3, <2>4 DEF CreateInv, OverrunsCover
<1> QED
  BY <1>4, <1>5

\* A late insert is an overrun.
LEMMA LateInsertCovered ==
  ASSUME CreateInv, TypeOK', LateInsert
  PROVE  OverrunsCover'
<1>1. /\ lock' = lock /\ call' = call /\ convs' = Append(convs, "open") /\ CountOverrun
  BY DEF LateInsert
<1>2. Cardinality(OpenConversations') = Cardinality(OpenConversations) + 1
  BY <1>1, RowInserted DEF CreateInv
<1>3. Cardinality(Outlived') = Cardinality(Outlived) /\ HolderInserts' = HolderInserts
  BY <1>1 DEF Outlived, Querying, HolderInserts
<1>4. /\ Cardinality(OpenConversations) \in Nat /\ Cardinality(Outlived) \in Nat
      /\ HolderInserts \in {0, 1} /\ overruns \in Nat
  BY Counts DEF CreateInv
<1>5. overruns' < MaxConversations => overruns' = overruns + 1 /\ overruns < MaxConversations
  BY <1>1, OverrunCounted DEF CreateInv
<1> QED
  BY <1>2, <1>3, <1>4, <1>5 DEF CreateInv, OverrunsCover

\* A key that expires under its call is an overrun: the call has outlived it.
LEMMA ExpireCovered ==
  ASSUME CreateInv, TypeOK', Expire
  PROVE  OverrunsCover'
<1>1. /\ lock.holder \in Creators /\ lock'.holder = None /\ call' = call /\ convs' = convs
      /\ IF Querying(lock.holder) THEN CountOverrun ELSE overruns' = overruns
  BY DEF Expire, Free, Querying, CreateInv, TypeOK
<1>2. OpenConversations' = OpenConversations
  BY <1>1 DEF OpenConversations
<1>3. HolderInserts' = 0
  BY <1>1, CreateAssumption DEF HolderInserts
<1>4. /\ Cardinality(OpenConversations) \in Nat /\ IsFiniteSet(Outlived) /\ Cardinality(Outlived) \in Nat
      /\ HolderInserts \in {0, 1} /\ overruns \in Nat
  BY Counts DEF CreateInv
<1>5. CASE Querying(lock.holder)
  <2>1. lock.holder \notin Outlived /\ Outlived' = Outlived \cup {lock.holder}
    BY <1>1, <1>5, CreateAssumption DEF Outlived, Querying
  <2>2. Cardinality(Outlived \cup {lock.holder}) = Cardinality(Outlived) + 1
    BY <1>4, <2>1, FS_AddElement
  <2>3. Cardinality(Outlived') = Cardinality(Outlived) + 1
        /\ Cardinality(OpenConversations') = Cardinality(OpenConversations)
    BY <1>2, <2>1, <2>2
  <2>4. overruns' < MaxConversations => overruns' = overruns + 1 /\ overruns < MaxConversations
    BY <1>1, <1>5, OverrunCounted DEF CreateInv
  <2>5. ASSUME overruns < MaxConversations
        PROVE  Cardinality(OpenConversations) + Cardinality(Outlived) + 1 <= 2 + overruns
    BY <1>4, <2>5 DEF CreateInv, OverrunsCover
  <2>6. ASSUME overruns < MaxConversations PROVE Cardinality(Outlived) <= overruns
    BY <2>6 DEF CreateInv, OverrunsCover
  <2> QED
    BY <1>3, <1>4, <2>3, <2>4, <2>5, <2>6 DEF OverrunsCover
<1>6. CASE ~Querying(lock.holder)
  <2>1. Outlived' \subseteq Outlived
    BY <1>1, <1>6 DEF Outlived, Querying
  <2>2. HolderInserts' <= HolderInserts
    BY <1>3, <1>4
  <2> QED
    BY <1>1, <1>2, <1>6, <2>1, <2>2, NothingAdded DEF CreateInv
<1> QED
  BY <1>5, <1>6

\* The steps of one call that add nothing: it begins, takes the lock, gives up,
\* fails, releases or dies.
LEMMA CallCovered ==
  ASSUME CreateInv, TypeOK', NEW p \in Creators,
         Begin(p) \/ Acquire(p) \/ GiveUpLocking(p) \/ QueryFails(p) \/ Unlock(p) \/ Abandon(p)
  PROVE  OverrunsCover'
<1>1. convs' = convs /\ overruns' = overruns /\ \A q \in Creators : q # p => call'[q] = call[q]
  BY DEF Begin, Acquire, GiveUpLocking, QueryFails, Unlock, Abandon, Goto, CreateInv, TypeOK
<1>2. /\ call'[p].pc # "insert"
      /\ Querying(p)' => lock'.holder = p
      /\ \A q \in Creators : q # p => (lock'.holder = q <=> lock.holder = q)
  BY CreateAssumption
  DEF Begin, Acquire, GiveUpLocking, QueryFails, Unlock, Abandon, Goto, NoCall, Free, Querying, CreateInv, TypeOK
<1>3. OpenConversations' \subseteq OpenConversations
  BY <1>1 DEF OpenConversations
<1>4. Outlived' \subseteq Outlived
  BY <1>1, <1>2 DEF Outlived, Querying
<1>5. HolderInserts' <= HolderInserts
  BY <1>1, <1>2 DEF HolderInserts
<1> QED
  BY <1>1, <1>3, <1>4, <1>5, NothingAdded DEF CreateInv

\* A close, and time.
LEMMA RestCovered ==
  ASSUME CreateInv, TypeOK', (\E i \in DOMAIN convs : Close(i)) \/ CallsAge \/ UNCHANGED createVars
  PROVE  OverrunsCover'
<1>1. /\ overruns' = overruns
      /\ \A p \in Creators : call'[p].pc = call[p].pc
      /\ lock'.holder = lock.holder
  BY DEF Close, CallsAge, createVars, CreateInv, TypeOK
<1>2. OpenConversations' \subseteq OpenConversations
  BY DEF Close, CallsAge, createVars, OpenConversations, CreateInv, TypeOK
<1>3. Outlived' \subseteq Outlived /\ HolderInserts' <= HolderInserts
  BY <1>1 DEF Outlived, Querying, HolderInserts
<1> QED
  BY <1>1, <1>2, <1>3, NothingAdded DEF CreateInv

\* Every step keeps the invariant.
LEMMA NextCreateInv == CreateInv /\ [CreateNext]_createVars => CreateInv'
<1> SUFFICES ASSUME CreateInv, [CreateNext]_createVars PROVE CreateInv'
  OBVIOUS
<1>1. TypeOK'
  BY NextTypeOK DEF CreateInv
<1>2. Len(convs') <= MaxConversations
  BY CreateAssumption
  DEF CreateNext, createVars, Begin, Acquire, GiveUpLocking, ReadOpen, InsertConversation, QueryFails, Unlock, Abandon,
      LateInsert, Expire, Close, CallsAge, CreateInv, TypeOK
<1>3. OverrunsCover'
  BY <1>1, ReadOpenCovered, InsertCovered, LateInsertCovered, ExpireCovered, CallCovered, RestCovered DEF CreateNext
<1> QED
  BY <1>1, <1>2, <1>3 DEF CreateInv

\* Nothing has happened yet.
LEMMA InitCreateInv == CreateInit => CreateInv
<1> SUFFICES ASSUME CreateInit PROVE CreateInv
  OBVIOUS
<1>1. TypeOK
  BY CreateAssumption DEF CreateInit, TypeOK, Free, NoCall
<1>2. OpenConversations = {} /\ Outlived = {} /\ HolderInserts = 0
  BY DEF CreateInit, OpenConversations, Outlived, Querying, HolderInserts, NoCall
<1>3. Len(convs) = 0 /\ overruns = 0
  BY DEF CreateInit
<1> QED
  BY <1>1, <1>2, <1>3, CreateAssumption, FS_EmptySet DEF CreateInv, OverrunsCover

-----------------------------------------------------------------------------

\* A visitor has at most one open conversation more than there were locks that
\* expired under their calls and inserts that took effect late: for any number
\* of calls that race, fail or die, a lock that lives longer or shorter than
\* they do, lost answers of Redis, and closes at any moment.
THEOREM OpenConversationsBounded == CreateSpec => []DoubledByOverrun
<1>1. CreateInv => DoubledByOverrun
  <2> SUFFICES ASSUME CreateInv PROVE Cardinality(OpenConversations) <= 1 + overruns
    BY DEF DoubledByOverrun
  <2>1. /\ Cardinality(OpenConversations) \in Nat /\ Cardinality(OpenConversations) <= Len(convs)
        /\ Cardinality(Outlived) \in Nat /\ HolderInserts \in {0, 1} /\ overruns \in Nat /\ Len(convs) \in Nat
    BY Counts DEF CreateInv, TypeOK
  <2> QED
    BY <2>1, CreateAssumption DEF CreateInv, OverrunsCover
<1> QED
  BY <1>1, NextCreateInv, InitCreateInv, PTL DEF CreateSpec

\* Whether or not calls outlive it, a lock leaves its holder only by the
\* holder's own release or at the end of its time.
THEOREM LockHeldSafely == CreateSpec => LockReleasedByHolder
<1> DEFINE A == lock.holder # None /\ lock'.holder # lock.holder =>
                   \/ lock.age = LockTTL
                   \/ call[lock.holder].pc = "unlock" /\ call'[lock.holder].pc = "idle"
<1>1. CreateInit => TypeOK
  BY CreateAssumption DEF CreateInit, TypeOK, Free, NoCall
<1>2. TypeOK /\ [CreateNext]_createVars => [A]_createVars
  <2> SUFFICES ASSUME TypeOK, CreateNext, lock.holder # None, lock'.holder # lock.holder
               PROVE  \/ lock.age = LockTTL
                      \/ call[lock.holder].pc = "unlock" /\ call'[lock.holder].pc = "idle"
    BY DEF createVars
  <2>1. CASE Expire
    BY <2>1 DEF Expire
  <2>2. ASSUME NEW p \in Creators, Unlock(p)
        PROVE  call[lock.holder].pc = "unlock" /\ call'[lock.holder].pc = "idle"
    BY <2>2 DEF Unlock, Free, NoCall, TypeOK
  <2>3. CASE CallsAge
    BY <2>3 DEF CallsAge, TypeOK
  <2> QED
    BY <2>1, <2>2, <2>3 DEF CreateNext, Begin, Acquire, GiveUpLocking, ReadOpen, InsertConversation, QueryFails, Abandon,
               LateInsert, Close
<1> QED
  BY <1>1, <1>2, NextTypeOK, PTL DEF CreateSpec, LockReleasedByHolder

=============================================================================
