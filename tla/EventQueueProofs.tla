--------------------------- MODULE EventQueueProofs ---------------------------
(***************************************************************************)
(* Proofs about the durable queue of events: its types, that the numbers of *)
(* events that wait are their own, that the table keeps the order in which  *)
(* things happened, and that no event vanishes but for a reason, for all    *)
(* the jobs, limits, batch sizes and runs of a job.                         *)
(***************************************************************************)
EXTENDS EventQueue, FiniteSetTheorems, WellFoundedInduction, TLAPS

-------------------------------------------------------------------------------
(* Operators *)

\* A nonempty set of numbers has a least one.
LEMMA LeastNumber ==
    ASSUME NEW set \in SUBSET Nat, set # {}
    PROVE  \E n \in set : \A i \in set : n <= i
<1> DEFINE R == {ss \in Nat \X Nat : ss[1] < ss[2]}
<1>1. IsWellFoundedOn(R, Nat)
  BY NatLessThanWellFounded DEF OpToRel
<1>2. PICK n \in set : \A i \in set : ~(<<i, n>> \in R)
  BY <1>1, WFMin
<1>3. ASSUME NEW i \in set
      PROVE  n <= i
  <2>1. n \in Nat /\ i \in Nat
    OBVIOUS
  <2>2. ~(i < n)
    BY <1>2, <2>1
  <2> QED
    BY <2>1, <2>2
<1> QED
  BY <1>3

\* A nonempty set of numbers with a bound has a greatest one.
LEMMA GreatestNumber ==
    ASSUME NEW bound \in Nat, NEW set \in SUBSET (0..bound), set # {}
    PROVE  \E n \in set : \A i \in set : i <= n
<1> DEFINE gaps == {k \in Nat : \E n \in set : n + k = bound}
<1>1. gaps # {}
  <2>1. PICK n \in set : TRUE
    OBVIOUS
  <2>2. n \in Nat /\ n <= bound /\ bound - n \in Nat /\ n + (bound - n) = bound
    BY <2>1
  <2>3. bound - n \in gaps
    BY <2>2
  <2> QED
    BY <2>3
<1>2. PICK k \in gaps : \A i \in gaps : k <= i
  BY <1>1, LeastNumber
<1>3. PICK n \in set : n + k = bound
  BY <1>2
<1>4. ASSUME NEW i \in set
      PROVE  i <= n
  <2>1. i \in Nat /\ i <= bound /\ bound - i \in Nat /\ i + (bound - i) = bound
    OBVIOUS
  <2>2. bound - i \in gaps
    BY <2>1
  <2>3. k <= bound - i
    <3> HIDE DEF gaps
    <3> QED
      BY <1>2, <2>2
  <2>4. k \in Nat /\ n \in Nat
    BY <1>2
  <2> QED
    BY <1>3, <2>1, <2>3, <2>4
<1> QED
  BY <1>4

\* A set of events that is not empty has an oldest one.
LEMMA OldestFacts ==
    ASSUME NEW set \in SUBSET Event, set # {}, NEW n \in Nat \ {0}
    PROVE  Oldest(set, n) # {} /\ Oldest(set, n) \subseteq set
<1> DEFINE ids == {e.id : e \in set}
<1>1. ids \in SUBSET Nat /\ ids # {}
  BY EventConstants DEF Event
<1>2. PICK i \in ids : \A k \in ids : i <= k
  BY <1>1, LeastNumber
<1>3. PICK e \in set : e.id = i
  BY <1>2
<1>4. ASSUME NEW d \in set
      PROVE  ~(d.id < e.id)
  <2>1. d.id \in ids /\ e.id \in ids
    OBVIOUS
  <2> HIDE DEF ids
  <2>2. d.id \in Nat /\ e.id \in Nat
    BY <1>1, <2>1
  <2>3. e.id <= d.id
    BY <1>2, <1>3, <2>1
  <2> QED
    BY <2>2, <2>3
<1>5. {d \in set : d.id < e.id} = {}
  BY <1>4
<1>6. Cardinality({d \in set : d.id < e.id}) = 0
  BY <1>5, FS_EmptySet
<1>7. 0 < n
  OBVIOUS
<1>8. e \in Oldest(set, n)
  <2> HIDE DEF ids
  <2> QED
    BY <1>3, <1>6, <1>7 DEF Oldest
<1> QED
  BY <1>8 DEF Oldest

\* The events of a set have identities of their own.
OwnIds(set) == \A d, e \in set : d.id = e.id => d = e

\* The newest n are n at most.
LEMMA NewestFacts ==
    ASSUME NEW set \in SUBSET Event, IsFiniteSet(set), OwnIds(set), NEW n \in Nat \ {0}
    PROVE  Newest(set, n) \subseteq set /\ Cardinality(Newest(set, n)) <= n
<1> DEFINE few == Newest(set, n)
<1>1. few \subseteq set
  BY DEF Newest
<1>2. CASE few = {}
  BY <1>2, FS_EmptySet
<1>3. CASE few # {}
  <2> DEFINE ids == {e.id : e \in few}
  <2>1. ids \in SUBSET Nat /\ ids # {}
    BY <1>1, <1>3, EventConstants DEF Event
  <2>2. PICK i \in ids : \A k \in ids : i <= k
    BY <2>1, LeastNumber
  <2>3. PICK e \in few : e.id = i
    BY <2>2
  <2> DEFINE later == {d \in set : d.id > e.id}
  <2>4. few \ {e} \subseteq later
    <3> SUFFICES ASSUME NEW d \in few, d # e
                 PROVE  d.id > e.id
      BY <1>1
    <3>1. d.id # e.id /\ d.id \in Nat /\ e.id \in Nat
      BY <1>1, EventConstants DEF OwnIds, Event
    <3>2. e.id <= d.id
      BY <2>2, <2>3
    <3> QED
      BY <3>1, <3>2
  <2>5. Cardinality(later) < n
    BY <2>3 DEF Newest
  <2>6. IsFiniteSet(later) /\ IsFiniteSet(few) /\ later \in SUBSET set
    BY <1>1, FS_Subset
  <2> HIDE DEF few, later
  <2>7. Cardinality(few \ {e}) <= Cardinality(later) /\ Cardinality(later) \in Nat
    BY <2>4, <2>6, FS_Subset, FS_CardinalityType
  <2>8. Cardinality(few \ {e}) = Cardinality(few) - 1 /\ Cardinality(few) \in Nat
    BY <2>3, <2>6, FS_RemoveElement, FS_CardinalityType
  <2> QED
    BY <1>1, <2>5, <2>7, <2>8 DEF few
<1> QED
  BY <1>1, <1>2, <1>3

\* What Trim keeps.
LEMMA TrimFacts ==
    ASSUME NEW queue \in SUBSET Event, IsFiniteSet(queue), OwnIds(queue)
    PROVE  /\ Trim(queue) \subseteq queue
           /\ Cardinality(Trim(queue)) <= MaxPending
           /\ Cardinality(queue) <= MaxPending => Trim(queue) = queue
<1> DEFINE keep == {e \in queue : e.type # "log"}
<1>1. keep \in SUBSET Event /\ IsFiniteSet(keep) /\ OwnIds(keep)
  BY FS_Subset DEF OwnIds
<1>2. MaxPending \in Nat \ {0} /\ Cardinality(queue) \in Nat
  BY EventConstants, FS_CardinalityType
<1>3. Newest(keep, MaxPending) \subseteq keep /\ Cardinality(Newest(keep, MaxPending)) <= MaxPending
  BY <1>1, <1>2, NewestFacts
<1>4. Newest(queue, MaxPending) \subseteq queue /\ Cardinality(Newest(queue, MaxPending)) <= MaxPending
  BY <1>2, NewestFacts
<1>5. CASE Cardinality(queue) <= MaxPending
  BY <1>5 DEF Trim
<1>6. CASE ~(Cardinality(queue) <= MaxPending)
  <2>1. Trim(queue) \in {Newest(keep, MaxPending), Newest(queue, MaxPending)}
    BY <1>6 DEF Trim
  <2>2. keep \subseteq queue
    OBVIOUS
  <2> HIDE DEF keep
  <2> QED
    BY <1>3, <1>4, <1>6, <2>1, <2>2
<1> QED
  BY <1>5, <1>6

\* A request has events, of one job.
LEMMA BatchFacts ==
    ASSUME rest \subseteq Event, rest # {}
    PROVE  /\ Current \in Job
           /\ Batch \subseteq rest /\ Batch # {}
           /\ \A e \in Batch : e.job = Current
<1> DEFINE same == {e \in rest : OfJob(delivered, e.job) # {}}
           group == IF same # {} THEN same ELSE rest
<1>1. group \in SUBSET Event /\ group # {} /\ group \subseteq rest
  OBVIOUS
<1>2. Oldest(group, 1) # {} /\ Oldest(group, 1) \subseteq rest
  <2> HIDE DEF group
  <2> QED
    BY <1>1, OldestFacts
<1>3. PICK e \in rest : Current = e.job
  BY <1>2 DEF Current
<1>4. OfJob(rest, Current) # {} /\ OfJob(rest, Current) \in SUBSET Event
  BY <1>3 DEF OfJob
<1>5. Batch # {} /\ Batch \subseteq OfJob(rest, Current)
  BY <1>4, EventConstants, OldestFacts DEF Batch
<1> QED
  BY <1>3, <1>5 DEF OfJob, Event

-------------------------------------------------------------------------------
(* The invariant *)

\* the types, that the queue is finite, and that identities are not repeated
Typed ==
    /\ pending \in SUBSET Event /\ IsFiniteSet(pending)
    /\ Cardinality(pending) <= MaxPending
    /\ OwnIds(pending) /\ \A e \in pending : e.id <= emitted
    /\ next \in [Job -> Nat]
    /\ flushing \in BOOLEAN
    /\ rest \in SUBSET Event
    /\ delivered \in SUBSET Event /\ \A e \in delivered : e.id <= emitted
    /\ ignored \subseteq delivered /\ (~flushing => delivered = {})
    /\ table \in [Job -> SUBSET (Nat \X (1..MaxEmitted))]
    /\ late \in SUBSET Request
    /\ stage \in [Job -> {"new", "running", "over", "again"}]
    /\ row \in [Job -> {"open", "waiting", "completed", "closed"}]
    /\ begun \in [Job -> BOOLEAN]
    /\ emitted \in 0..MaxEmitted
    /\ stale \in [Job -> SUBSET (Nat \X (1..MaxEmitted))]

\* a request is about one job
OneJobEach ==
    \A request \in late :
        /\ request.events # {}
        /\ \A d, e \in request.events : d.job = e.job

\* event i of job j, with number n, can still be seen: it waits, it is sent or
\* is to be sent, or the gateway has it
In(set, j, n, i) == \E e \in set : e.job = j /\ e.seq = n /\ e.id = i
SeenElsewhere(j, n, i) ==
    \/ <<n, i>> \in table[j]
    \/ In(rest, j, n, i)
    \/ \E request \in late : In(request.events, j, n, i)
Seen(j, n, i) == In(pending, j, n, i) \/ SeenElsewhere(j, n, i)

\* no two of the events are one number of one job
OwnNumbers(set) == \A d, e \in set : d.job = e.job /\ d.seq = e.seq => d = e

\* the counters: a waiting event has a number of its own below its job's
\* counter, and no counter is ahead of the events emitted
CountersAhead ==
    /\ \A e \in pending : e.seq < next[e.job]
    /\ \A j \in Job : next[j] <= emitted
    /\ OwnNumbers(pending) /\ OwnNumbers(rest)

\* what the numbering of a job fell behind happened already, and waits no more
Behind ==
    /\ \A j \in Job : \A r \in stale[j] : r[2] <= emitted
    /\ \A e \in pending : <<e.seq, e.id>> \notin stale[e.job]

\* what can be seen of a job was numbered in the order it happened, and while
\* the job runs its counter is beyond all of it, but for what it fell behind
Numbered ==
    \A j \in Job, n \in Nat, i \in 1..MaxEmitted : Seen(j, n, i) =>
        /\ i <= emitted
        /\ stage[j] # "new"
        /\ Running(j) => n < next[j] \/ <<n, i>> \in stale[j]
        /\ \A m \in Nat, k \in 1..MaxEmitted : Seen(j, m, k) =>
              /\ i < k => n < m \/ <<n, i>> \in stale[j]
              /\ i = k => n = m

\* the gateway has what it answered for and still waits, unless the job had
\* ended, or the number was taken in a numbering of before
Answered ==
    \A e \in delivered \cap pending :
        \/ Stored(e)
        \/ e \in ignored
        \/ \E r \in table[e.job] : FellBehind(e, r)

QueueInv == Typed /\ OneJobEach /\ CountersAhead /\ Behind /\ Numbered /\ Answered

LEMMA TypedIsTypeOK == Typed => TypeOK
  BY DEF Typed, TypeOK

LEMMA QueueInit == Init => QueueInv
<1> SUFFICES ASSUME Init
             PROVE  QueueInv
  OBVIOUS
<1>1. Typed
  <2>1. IsFiniteSet(pending) /\ Cardinality(pending) <= MaxPending
    BY FS_EmptySet, EventConstants DEF Init
  <2>2. /\ next \in [Job -> Nat] /\ table \in [Job -> SUBSET (Nat \X (1..MaxEmitted))]
        /\ stage \in [Job -> {"new", "running", "over", "again"}]
        /\ row \in [Job -> {"open", "waiting", "completed", "closed"}]
        /\ begun \in [Job -> BOOLEAN] /\ stale \in [Job -> SUBSET (Nat \X (1..MaxEmitted))]
    BY DEF Init
  <2>3. emitted \in 0..MaxEmitted
    BY EventConstants DEF Init
  <2> QED
    BY <2>1, <2>2, <2>3 DEF Init, Typed, OwnIds
<1>2. OneJobEach /\ CountersAhead /\ Behind /\ Answered
  BY DEF Init, OneJobEach, CountersAhead, OwnNumbers, Behind, Answered
<1>3. Numbered
  BY DEF Init, Numbered, Seen, SeenElsewhere, In
<1> QED
  BY <1>1, <1>2, <1>3 DEF QueueInv

-------------------------------------------------------------------------------
(* The steps *)

\* The event that Push queues.
NewEvent(j, type) == [ job |-> j, seq |-> next[j], id |-> emitted + 1, type |-> type ]

\* A new event is queued, or dropped at once with older ones.
LEMMA PushFacts ==
    ASSUME Typed, NEW j \in Job, NEW type \in {"log", "phase"}, Push(j, type)
    PROVE  /\ NewEvent(j, type) \in Event /\ emitted' \in 0..MaxEmitted /\ emitted' = emitted + 1
           /\ pending' \subseteq pending \cup {NewEvent(j, type)}
           /\ IsFiniteSet(pending') /\ Cardinality(pending') <= MaxPending /\ OwnIds(pending')
           /\ Cardinality(pending) < MaxPending => pending \subseteq pending'
           /\ next' \in [Job -> Nat] /\ next' = [next EXCEPT ![j] = next[j] + 1]
<1> DEFINE e == NewEvent(j, type)
           queue == pending \cup {e}
<1>0. /\ emitted \in Nat /\ emitted < MaxEmitted /\ emitted' = emitted + 1 /\ MaxEmitted \in Nat
      /\ MaxPending \in Nat
  BY EventConstants DEF Typed, Push
<1>1. e \in Event
  BY <1>0 DEF Typed, Event, NewEvent
<1>2. \A d \in pending : d.id \in Nat /\ d.id < e.id /\ e.id = emitted + 1
  <2>1. \A d \in pending : d.id \in Nat /\ d.id <= emitted
    BY <1>0 DEF Typed, Event
  <2>2. e.id = emitted + 1
    BY DEF NewEvent
  <2> QED
    BY <1>0, <2>1, <2>2
<1>3. queue \in SUBSET Event /\ IsFiniteSet(queue)
  BY <1>1, FS_AddElement DEF Typed
<1>4. OwnIds(queue)
  <2> SUFFICES ASSUME NEW d \in queue, NEW f \in queue, d.id = f.id
               PROVE  d = f
    BY DEF OwnIds
  <2>1. CASE d \in pending /\ f \in pending
    BY <2>1 DEF Typed, OwnIds
  <2>2. CASE d = e \/ f = e
    <3> HIDE DEF e
    <3> QED
      BY <1>0, <1>2, <2>2
  <2> QED
    BY <2>1, <2>2
<1>5. pending' = Trim(queue)
  BY DEF Push, NewEvent
<1> HIDE DEF e
<1>6. /\ pending' \subseteq queue /\ Cardinality(pending') <= MaxPending
      /\ Cardinality(queue) <= MaxPending => pending' = queue
  <2> HIDE DEF queue
  <2> QED
    BY <1>3, <1>4, <1>5, TrimFacts
<1>7. IsFiniteSet(pending') /\ OwnIds(pending')
  BY <1>3, <1>4, <1>6, FS_Subset DEF OwnIds
<1>8. Cardinality(pending) < MaxPending => Cardinality(queue) <= MaxPending
  <2>1. e \notin pending
    BY <1>0, <1>2
  <2>2. Cardinality(queue) = Cardinality(pending) + 1 /\ Cardinality(pending) \in Nat
    BY <2>1, FS_AddElement, FS_CardinalityType DEF Typed
  <2> HIDE DEF queue
  <2> QED
    BY <1>0, <2>2
<1>9. next' \in [Job -> Nat] /\ next' = [next EXCEPT ![j] = next[j] + 1]
  BY DEF Push, Typed
<1> QED
  BY <1>0, <1>1, <1>6, <1>7, <1>8, <1>9 DEF e

\* After a restart a job's counter is beyond the events that wait.
LEMMA RenumberedFacts ==
    ASSUME Typed, CountersAhead
    PROVE  /\ Renumbered \in [Job -> Nat]
           /\ \A j \in Job : Renumbered[j] <= emitted
           /\ \A e \in pending : e.seq < Renumbered[e.job]
<1>0. emitted \in Nat /\ next \in [Job -> Nat]
  BY EventConstants DEF Typed
<1>1. ASSUME NEW j \in Job
      PROVE  /\ Renumbered[j] \in Nat /\ Renumbered[j] <= emitted
             /\ \A e \in OfJob(pending, j) : e.seq < Renumbered[j]
  <2> DEFINE used == {e.seq + 1 : e \in OfJob(pending, j)}
  <2>1. \A e \in OfJob(pending, j) : e.seq \in Nat /\ e.seq < emitted
    <3>1. \A e \in pending : e.seq \in Nat /\ e.job \in Job /\ e.seq < next[e.job]
      BY DEF Typed, CountersAhead, Event
    <3>2. next[j] \in Nat /\ next[j] <= emitted
      BY <1>0 DEF CountersAhead
    <3> QED
      BY <1>0, <3>1, <3>2 DEF OfJob
  <2>2. used \in SUBSET (0..emitted)
    BY <1>0, <2>1
  <2>3. Renumbered[j] = IF used = {} THEN 0 ELSE CHOOSE n \in used : \A k \in used : k <= n
    BY DEF Renumbered
  <2>4. \A e \in OfJob(pending, j) : e.seq + 1 \in used
    OBVIOUS
  <2> HIDE DEF used
  <2>5. CASE used = {}
    BY <1>0, <2>3, <2>4, <2>5
  <2>6. CASE used # {}
    <3>1. \E n \in used : \A k \in used : k <= n
      BY <1>0, <2>2, <2>6, GreatestNumber
    <3>2. Renumbered[j] \in used /\ \A k \in used : k <= Renumbered[j]
      BY <2>3, <2>6, <3>1
    <3>3. Renumbered[j] \in Nat /\ Renumbered[j] <= emitted
      <4>1. Renumbered[j] \in used
        BY <3>2
      <4>2. PICK n \in 0..emitted : n = Renumbered[j]
        BY <2>2, <4>1
      <4> QED
        BY <1>0, <4>2
    <3>4. ASSUME NEW e \in OfJob(pending, j)
          PROVE  e.seq < Renumbered[j]
      BY <2>1, <2>4, <3>2, <3>3
    <3> QED
      BY <3>3, <3>4
  <2> QED
    BY <2>5, <2>6
<1>2. Renumbered \in [Job -> Nat]
  BY <1>1 DEF Renumbered
<1>3. \A e \in pending : e \in OfJob(pending, e.job) /\ e.job \in Job
  BY DEF OfJob, Typed, Event
<1> QED
  BY <1>1, <1>2, <1>3

\* What is recorded of a request: nothing else comes to the table, and each of
\* its events finds its number taken then, by itself or by another.
LEMMA RecordedFacts ==
    ASSUME Typed, NEW j \in Job, NEW batch \in SUBSET Event
    PROVE  LET t == Recorded(j, batch)
           IN /\ t \in [Job -> SUBSET (Nat \X (1..MaxEmitted))]
              /\ \A k \in Job : table[k] \subseteq t[k] /\ (k # j => t[k] = table[k])
              /\ \A r \in t[j] : r \in table[j] \/ \E e \in batch : r = <<e.seq, e.id>>
              /\ (\A d, e \in batch : d.seq = e.seq => d = e)
                    => \A e \in batch : <<e.seq, e.id>> \in t[j]
                                          \/ \E r \in table[j] : r[1] = e.seq
<1> DEFINE new == {e \in batch :
                      /\ \A r \in table[j] : r[1] # e.seq
                      /\ \A d \in batch : d.seq = e.seq => d.id >= e.id}
           rows == {<<e.seq, e.id>> : e \in new}
           t == Recorded(j, batch)
<1>0. /\ table \in [Job -> SUBSET (Nat \X (1..MaxEmitted))]
      /\ \A e \in batch : e.seq \in Nat /\ e.id \in 1..MaxEmitted /\ e.id \in Nat
      /\ MaxEmitted \in Nat
  BY EventConstants DEF Typed, Event
<1>1. t = [table EXCEPT ![j] = table[j] \cup rows]
  BY DEF Recorded
<1>2. rows \in SUBSET (Nat \X (1..MaxEmitted))
  BY <1>0
<1>3. \A r \in rows : \E e \in batch : r = <<e.seq, e.id>>
  OBVIOUS
<1>4. ASSUME \A d, e \in batch : d.seq = e.seq => d = e, NEW e \in batch,
             \A r \in table[j] : r[1] # e.seq
      PROVE  <<e.seq, e.id>> \in rows
  <2>1. \A d \in batch : d.seq = e.seq => d.id >= e.id
    BY <1>0, <1>4
  <2> QED
    BY <1>4, <2>1
<1> HIDE DEF rows
<1>5. /\ t \in [Job -> SUBSET (Nat \X (1..MaxEmitted))]
      /\ t[j] = table[j] \cup rows /\ \A k \in Job : k # j => t[k] = table[k]
  BY <1>0, <1>1, <1>2
<1> HIDE DEF t
<1>6. /\ \A k \in Job : table[k] \subseteq t[k]
      /\ \A r \in t[j] : r \in table[j] \/ \E e \in batch : r = <<e.seq, e.id>>
  BY <1>3, <1>5
<1>7. (\A d, e \in batch : d.seq = e.seq => d = e)
         => \A e \in batch : <<e.seq, e.id>> \in t[j] \/ \E r \in table[j] : r[1] = e.seq
  BY <1>4, <1>5
<1> QED
  BY <1>5, <1>6, <1>7 DEF t

\* The requests are about events that can be seen.
LEMMA BatchSeen ==
    ASSUME Typed, OneJobEach
    PROVE  /\ rest # {} => \A e \in Batch : e.job = Current /\ SeenElsewhere(Current, e.seq, e.id)
           /\ \A request \in late : \A e \in request.events :
                 LET j == (CHOOSE d \in request.events : TRUE).job
                 IN  j \in Job /\ e.job = j /\ SeenElsewhere(j, e.seq, e.id)
<1>1. ASSUME rest # {}, NEW e \in Batch
      PROVE  e.job = Current /\ SeenElsewhere(Current, e.seq, e.id)
  <2>1. e \in rest /\ e.job = Current
    BY <1>1, BatchFacts DEF Typed
  <2> QED
    BY <2>1 DEF SeenElsewhere, In
<1>2. ASSUME NEW request \in late, NEW e \in request.events
      PROVE  LET j == (CHOOSE d \in request.events : TRUE).job
             IN  j \in Job /\ e.job = j /\ SeenElsewhere(j, e.seq, e.id)
  <2>1. (CHOOSE d \in request.events : TRUE) \in request.events
    OBVIOUS
  <2>2. (CHOOSE d \in request.events : TRUE).job = e.job
    BY <2>1 DEF OneJobEach
  <2>3. e.job \in Job
    BY DEF Typed, Request, Event
  <2> QED
    BY <2>2, <2>3 DEF SeenElsewhere, In
<1> QED
  BY <1>1, <1>2

\* The table loses nothing, and what comes to it could be seen before.
LEMMA TableFrom ==
    ASSUME QueueInv, Next
    PROVE  /\ table' \in [Job -> SUBSET (Nat \X (1..MaxEmitted))]
           /\ \A j \in Job : table[j] \subseteq table'[j]
           /\ \A j \in Job, n \in Nat, i \in 1..MaxEmitted :
                 <<n, i>> \in table'[j] => SeenElsewhere(j, n, i)
<1> DEFINE Goal ==
      /\ table' \in [Job -> SUBSET (Nat \X (1..MaxEmitted))]
      /\ \A j \in Job : table[j] \subseteq table'[j]
      /\ \A j \in Job, n \in Nat, i \in 1..MaxEmitted :
            <<n, i>> \in table'[j] => SeenElsewhere(j, n, i)
<1>0. Typed /\ OneJobEach
  BY DEF QueueInv
<1>1. CASE table' = table
  BY <1>0, <1>1 DEF Typed, SeenElsewhere
<1>2. ASSUME NEW k \in Job, NEW batch \in SUBSET Event,
             \A e \in batch : e.job = k /\ SeenElsewhere(k, e.seq, e.id),
             table' = Recorded(k, batch)
      PROVE  Goal
  <2>1. /\ table' \in [Job -> SUBSET (Nat \X (1..MaxEmitted))]
        /\ \A j \in Job : table[j] \subseteq table'[j] /\ (j # k => table'[j] = table[j])
        /\ \A r \in table'[k] : r \in table[k] \/ \E e \in batch : r = <<e.seq, e.id>>
    BY <1>0, <1>2, RecordedFacts
  <2>2. ASSUME NEW j \in Job, NEW n \in Nat, NEW i \in 1..MaxEmitted, <<n, i>> \in table'[j]
        PROVE  SeenElsewhere(j, n, i)
    <3>1. CASE <<n, i>> \in table[j]
      BY <3>1 DEF SeenElsewhere
    <3>2. CASE j = k /\ \E e \in batch : <<n, i>> = <<e.seq, e.id>>
      BY <1>2, <3>2
    <3> QED
      BY <2>1, <2>2, <3>1, <3>2
  <2> QED
    BY <2>1, <2>2
<1> HIDE DEF Goal
<1>3. ASSUME Sent \/ SendFails
      PROVE  table' = table \/ Goal
  <2>1. rest # {} /\ (table' = table \/ table' = Recorded(Current, Batch))
    BY <1>3 DEF Sent, SendFails, Arrives
  <2>2. Current \in Job /\ Batch \in SUBSET Event
    BY <1>0, <2>1, BatchFacts DEF Typed
  <2>3. \A e \in Batch : e.job = Current /\ SeenElsewhere(Current, e.seq, e.id)
    BY <1>0, <2>1, BatchSeen
  <2> QED
    BY <1>2, <2>1, <2>2, <2>3
<1>4. ASSUME NEW request \in late, LateArrival(request)
      PROVE  Goal
  <2>1. request.events # {} /\ request.events \in SUBSET Event
    BY <1>0 DEF OneJobEach, Typed, Request
  <2>2. PICK k \in Job : k = (CHOOSE e \in request.events : TRUE).job
    BY <1>0, <2>1, BatchSeen
  <2>3. \A e \in request.events : e.job = k /\ SeenElsewhere(k, e.seq, e.id)
    BY <1>0, <2>2, BatchSeen
  <2> QED
    BY <1>2, <1>4, <2>1, <2>2, <2>3 DEF LateArrival
<1>5. ASSUME NEW j \in Job, \/ StartJob(j) \/ RunAgain(j) \/ Forget(j) \/ GiveUp(j) \/ Approve(j)
                            \/ \E how \in {"completed", "closed"} : EndJob(j, how)
                            \/ \E type \in {"log", "phase"} : Emit(j, type)
      PROVE  table' = table
  BY <1>5 DEF StartJob, RunAgain, Forget, GiveUp, Approve, EndJob, Emit
<1>6. CASE StartFlush \/ EndFlush \/ Restart
  BY <1>1, <1>6 DEF StartFlush, EndFlush, Restart
<1>7. table' = table \/ Goal
  BY <1>1, <1>3, <1>4, <1>5, <1>6 DEF Next, OneRunEach, Goal
<1> QED
  BY <1>1, <1>7 DEF Goal

\* A numbering that goes on falls behind what the gateway has, or may get,
\* beyond it.
LEMMA GoesOnFacts ==
    ASSUME Typed, NEW j \in Job, NumbersGoOn(j)
    PROVE  /\ stale' \in [Job -> SUBSET (Nat \X (1..MaxEmitted))]
           /\ \A k \in Job : stale[k] \subseteq stale'[k] /\ (k # j => stale'[k] = stale[k])
           /\ \A n \in Nat, i \in 1..MaxEmitted :
                 SeenElsewhere(j, n, i) /\ n >= next[j] => <<n, i>> \in stale'[j]
           /\ \A r \in stale'[j] : \/ r \in stale[j]
                                   \/ r[1] >= next[j] /\ SeenElsewhere(j, r[1], r[2])
<1> DEFINE sent == rest \cup UNION {request.events : request \in late}
           known == table[j] \cup {<<e.seq, e.id>> : e \in OfJob(sent, j)}
           behind == {r \in known : r[1] >= next[j]}
<1>0. /\ stale \in [Job -> SUBSET (Nat \X (1..MaxEmitted))]
      /\ table[j] \in SUBSET (Nat \X (1..MaxEmitted))
  BY DEF Typed
<1>1. stale' = [stale EXCEPT ![j] = stale[j] \cup behind]
  BY DEF NumbersGoOn
<1>2. sent \in SUBSET Event
  BY DEF Typed, Request
<1>3. ASSUME NEW n \in Nat, NEW i \in 1..MaxEmitted, SeenElsewhere(j, n, i)
      PROVE  <<n, i>> \in known
  <2>1. ASSUME NEW e \in sent, e.job = j, e.seq = n, e.id = i
        PROVE  <<n, i>> \in known
    <3>1. e \in OfJob(sent, j)
      BY <2>1 DEF OfJob
    <3> HIDE DEF sent
    <3> QED
      BY <2>1, <3>1
  <2>2. ASSUME NEW request \in late, NEW e \in request.events
        PROVE  e \in sent
    OBVIOUS
  <2> QED
    BY <1>3, <2>1, <2>2 DEF SeenElsewhere, In
<1>4. ASSUME NEW r \in known
      PROVE  r \in Nat \X (1..MaxEmitted) /\ SeenElsewhere(j, r[1], r[2])
  <2>1. CASE r \in table[j]
    <3>1. r = <<r[1], r[2]>>
      BY <1>0, <2>1
    <3> QED
      BY <1>0, <2>1, <3>1 DEF SeenElsewhere
  <2>2. CASE r \in {<<e.seq, e.id>> : e \in OfJob(sent, j)}
    <3>1. PICK e \in sent : e.job = j /\ r = <<e.seq, e.id>>
      BY <2>2 DEF OfJob
    <3>2. r \in Nat \X (1..MaxEmitted)
      BY <1>2, <3>1 DEF Event
    <3>3. e.job = j /\ e.seq = r[1] /\ e.id = r[2]
      BY <3>1
    <3>4. \A set : e \in set => In(set, j, r[1], r[2])
      BY <3>3 DEF In
    <3>5. e \in rest \/ \E request \in late : e \in request.events
      BY <3>1
    <3>6. SeenElsewhere(j, r[1], r[2])
      BY <3>4, <3>5 DEF SeenElsewhere
    <3> QED
      BY <3>2, <3>6
  <2> QED
    BY <2>1, <2>2
<1> HIDE DEF known
<1>5. behind \in SUBSET (Nat \X (1..MaxEmitted))
  BY <1>4
<1>6. /\ \A n \in Nat, i \in 1..MaxEmitted :
            SeenElsewhere(j, n, i) /\ n >= next[j] => <<n, i>> \in behind
      /\ \A r \in behind : r[1] >= next[j] /\ SeenElsewhere(j, r[1], r[2])
  BY <1>3, <1>4
<1> HIDE DEF behind
<1>7. /\ stale' \in [Job -> SUBSET (Nat \X (1..MaxEmitted))]
      /\ stale'[j] = stale[j] \cup behind /\ \A k \in Job : k # j => stale'[k] = stale[k]
  BY <1>0, <1>1, <1>5
<1> QED
  BY <1>6, <1>7

\* What a numbering fell behind stays so; and a job's grows only when its
\* numbering goes on.
LEMMA StaleStep ==
    ASSUME QueueInv, Next
    PROVE  /\ stale' \in [Job -> SUBSET (Nat \X (1..MaxEmitted))]
           /\ \A j \in Job : stale[j] \subseteq stale'[j]
           /\ \A j \in Job : \A r \in stale'[j] :
                 \/ r \in stale[j]
                 \/ r[1] >= next[j] /\ SeenElsewhere(j, r[1], r[2])
<1>0. Typed /\ stale \in [Job -> SUBSET (Nat \X (1..MaxEmitted))]
  BY DEF QueueInv, Typed
<1>1. ASSUME NEW j \in Job, NumbersGoOn(j)
      PROVE  /\ stale' \in [Job -> SUBSET (Nat \X (1..MaxEmitted))]
             /\ \A k \in Job : stale[k] \subseteq stale'[k]
             /\ \A k \in Job : \A r \in stale'[k] :
                   \/ r \in stale[k]
                   \/ r[1] >= next[k] /\ SeenElsewhere(k, r[1], r[2])
  BY <1>0, <1>1, GoesOnFacts
<1>2. stale' = stale \/ \E j \in Job : NumbersGoOn(j)
  BY DEF Next, OneRunEach, StartJob, RunAgain, Emit, Forget, GiveUp, EndJob, Approve,
         StartFlush, Sent, SendFails, LateArrival, EndFlush, Restart
<1>3. CASE stale' = stale
  BY <1>0, <1>3
<1> QED
  BY <1>1, <1>2, <1>3

\* Steps that leave the queue alone.
LEMMA ElsewhereStep ==
    ASSUME QueueInv, NEW j \in Job,
           \/ StartJob(j) \/ RunAgain(j) \/ GiveUp(j)
           \/ \E how \in {"completed", "closed"} : EndJob(j, how)
    PROVE  /\ UNCHANGED queueVars /\ late' = late /\ emitted' = emitted /\ begun' = begun
           /\ stage' \in [Job -> {"new", "running", "over", "again"}]
           /\ row' \in [Job -> {"open", "waiting", "completed", "closed"}]
<1>1. CASE StartJob(j)
  BY <1>1 DEF StartJob, QueueInv, Typed
<1>2. CASE RunAgain(j)
  BY <1>2 DEF RunAgain, QueueInv, Typed
<1>3. CASE GiveUp(j)
  BY <1>3 DEF GiveUp, QueueInv, Typed
<1>4. CASE \E how \in {"completed", "closed"} : EndJob(j, how)
  BY <1>4 DEF EndJob, QueueInv, Typed
<1> QED
  BY <1>1, <1>2, <1>3, <1>4

\* Every step keeps the types.
LEMMA TypedStep ==
    ASSUME QueueInv, Next
    PROVE  Typed' /\ OneJobEach'
<1>0. Typed /\ OneJobEach /\ CountersAhead
  BY DEF QueueInv
<1>1. /\ table' \in [Job -> SUBSET (Nat \X (1..MaxEmitted))]
      /\ stale' \in [Job -> SUBSET (Nat \X (1..MaxEmitted))]
  BY TableFrom, StaleStep
<1>2. ASSUME NEW set \in SUBSET pending, pending' = set
      PROVE  IsFiniteSet(pending') /\ Cardinality(pending') <= MaxPending
  <2>1. IsFiniteSet(set) /\ Cardinality(set) <= Cardinality(pending)
        /\ Cardinality(set) \in Nat /\ Cardinality(pending) \in Nat
    BY <1>0, FS_Subset, FS_CardinalityType DEF Typed
  <2> QED
    BY <1>0, <1>2, <2>1, EventConstants DEF Typed
<1>3. ASSUME NEW j \in Job, \/ StartJob(j) \/ RunAgain(j) \/ GiveUp(j)
                            \/ \E how \in {"completed", "closed"} : EndJob(j, how)
      PROVE  Typed' /\ OneJobEach'
  <2>1. /\ UNCHANGED queueVars /\ late' = late /\ emitted' = emitted /\ begun' = begun
        /\ stage' \in [Job -> {"new", "running", "over", "again"}]
        /\ row' \in [Job -> {"open", "waiting", "completed", "closed"}]
    BY <1>3, ElsewhereStep
  <2> QED
    BY <1>0, <1>1, <2>1 DEF queueVars, Typed, OwnIds, OneJobEach
<1>4. ASSUME NEW j \in Job, NEW type \in {"log", "phase"}, Push(j, type),
             UNCHANGED <<late, stage, begun>>,
             row' \in [Job -> {"open", "waiting", "completed", "closed"}]
      PROVE  Typed' /\ OneJobEach'
  <2>1. /\ NewEvent(j, type) \in Event /\ emitted' \in 0..MaxEmitted /\ emitted' = emitted + 1
        /\ pending' \subseteq pending \cup {NewEvent(j, type)}
        /\ IsFiniteSet(pending') /\ Cardinality(pending') <= MaxPending /\ OwnIds(pending')
        /\ next' \in [Job -> Nat]
    BY <1>0, <1>4, PushFacts
  <2>2. /\ flushing' = flushing /\ rest' = rest /\ delivered' = delivered
        /\ ignored' = ignored /\ late' = late /\ stage' = stage /\ begun' = begun
    BY <1>4 DEF Push
  <2>3. \A e \in pending' \cup delivered' : e.id <= emitted'
    <3>1. NewEvent(j, type).id = emitted + 1
      BY DEF NewEvent
    <3>2. \A e \in pending \cup delivered : e.id \in Nat /\ e.id <= emitted
      BY <1>0, EventConstants DEF Typed, Event
    <3>3. emitted \in Nat
      BY <1>0, EventConstants DEF Typed
    <3> QED
      BY <2>1, <2>2, <3>1, <3>2, <3>3
  <2>4. pending' \in SUBSET Event
    BY <1>0, <2>1 DEF Typed
  <2>5. OwnIds(pending)'
    BY <2>1 DEF OwnIds
  <2> QED
    BY <1>0, <1>1, <1>4, <2>1, <2>2, <2>3, <2>4, <2>5 DEF Typed, OneJobEach
<1>5. ASSUME NEW j \in Job, NEW type \in {"log", "phase"}, Emit(j, type)
      PROVE  Typed' /\ OneJobEach'
  BY <1>0, <1>4, <1>5 DEF Emit, jobVars, Typed
<1>6. ASSUME NEW j \in Job, Approve(j)
      PROVE  Typed' /\ OneJobEach'
  <2>1. row' \in [Job -> {"open", "waiting", "completed", "closed"}]
    BY <1>0, <1>6 DEF Approve, Typed
  <2> QED
    BY <1>4, <1>6, <2>1 DEF Approve
<1>7. ASSUME NEW j \in Job, Forget(j)
      PROVE  Typed' /\ OneJobEach'
  <2>1. /\ flushing' = flushing /\ rest' = rest /\ delivered' = delivered /\ ignored' = ignored
        /\ late' = late /\ row' = row /\ begun' = begun /\ emitted' = emitted
        /\ pending' = pending \ OfJob(pending, j)
    BY <1>7 DEF Forget
  <2>2. stage' \in [Job -> {"new", "running", "over", "again"}] /\ next' \in [Job -> Nat]
    BY <1>0, <1>7 DEF Forget, Typed
  <2>3. IsFiniteSet(pending') /\ Cardinality(pending') <= MaxPending
    BY <1>2, <2>1
  <2> QED
    BY <1>0, <1>1, <2>1, <2>2, <2>3 DEF Typed, OwnIds, OneJobEach
<1>8. ASSUME StartFlush
      PROVE  Typed' /\ OneJobEach'
  <2>1. ignored = {}
    BY <1>0, <1>8 DEF StartFlush, Typed
  <2> QED
    BY <1>0, <1>1, <1>8, <2>1 DEF StartFlush, jobVars, Typed, OwnIds, OneJobEach
<1>9. ASSUME Sent \/ SendFails
      PROVE  Typed' /\ OneJobEach'
  <2>1. /\ flushing /\ Current \in Job
        /\ rest # {} /\ Batch \subseteq rest /\ Batch # {} /\ \A e \in Batch : e.job = Current
    BY <1>0, <1>9, BatchFacts DEF Sent, SendFails, Typed
  <2>2. /\ pending' = pending /\ next' = next /\ flushing' = flushing
        /\ stage' = stage /\ emitted' = emitted
    BY <1>9 DEF Sent, SendFails
  <2>3. /\ rest' \subseteq rest
        /\ delivered' \subseteq delivered \cup Batch /\ ignored' \subseteq delivered'
        /\ late' \subseteq late \cup {[events |-> Batch, starts |-> ~begun[Current]]}
    BY <1>0, <1>9 DEF Sent, SendFails, Typed
  <2>4. /\ row' \in [Job -> {"open", "waiting", "completed", "closed"}]
        /\ begun' \in [Job -> BOOLEAN]
    <3>1. (row' = row /\ begun' = begun) \/ Begins(Current)
      BY <1>9 DEF Sent, SendFails, Arrives
    <3> QED
      BY <1>0, <2>1, <3>1 DEF Begins, Typed
  <2>5. [events |-> Batch, starts |-> ~begun[Current]] \in Request
    BY <1>0, <2>1 DEF Typed, Request
  <2>6. OneJobEach'
    BY <1>0, <2>1, <2>3 DEF OneJobEach
  <2>7. \A e \in Batch : e.id <= emitted
    <3>1. \A e \in Batch : Seen(e.job, e.seq, e.id) /\ e \in Event
      BY <1>0, <2>1, BatchSeen DEF Seen, Typed
    <3> QED
      BY <3>1 DEF QueueInv, Numbered, Event
  <2>8. delivered' \in SUBSET Event /\ \A e \in delivered' : e.id <= emitted'
    BY <1>0, <2>1, <2>2, <2>3, <2>7 DEF Typed
  <2>9. late' \in SUBSET Request /\ rest' \in SUBSET Event
    BY <1>0, <2>3, <2>5 DEF Typed
  <2> QED
    BY <1>0, <1>1, <2>1, <2>2, <2>3, <2>4, <2>6, <2>8, <2>9 DEF Typed, OwnIds
<1>10. ASSUME NEW request \in late, LateArrival(request)
       PROVE  Typed' /\ OneJobEach'
  <2> DEFINE j == (CHOOSE e \in request.events : TRUE).job
  <2>1. j \in Job
    BY <1>0, BatchSeen DEF OneJobEach
  <2>2. (row' = row /\ begun' = begun) \/ Begins(j)
    BY <1>10 DEF LateArrival
  <2>3. /\ row' \in [Job -> {"open", "waiting", "completed", "closed"}]
        /\ begun' \in [Job -> BOOLEAN]
    <3> HIDE DEF j
    <3> QED
      BY <1>0, <2>1, <2>2 DEF Begins, Typed
  <2>4. UNCHANGED <<queueVars, stage, emitted, stale>> /\ late' \subseteq late
    BY <1>10 DEF LateArrival
  <2> QED
    BY <1>0, <1>1, <2>3, <2>4 DEF queueVars, Typed, OwnIds, OneJobEach
<1>11. ASSUME EndFlush
       PROVE  Typed' /\ OneJobEach'
  <2>1. IsFiniteSet(pending') /\ Cardinality(pending') <= MaxPending
    BY <1>2, <1>11 DEF EndFlush
  <2> QED
    BY <1>0, <1>1, <1>11, <2>1 DEF EndFlush, jobVars, Typed, OwnIds, OneJobEach
<1>12. ASSUME Restart
       PROVE  Typed' /\ OneJobEach'
  <2>1. next' \in [Job -> Nat]
    BY <1>0, <1>12, RenumberedFacts DEF Restart
  <2>2. stage' \in [Job -> {"new", "running", "over", "again"}]
    BY <1>0, <1>12 DEF Restart, Typed
  <2> QED
    BY <1>0, <1>1, <1>12, <2>1, <2>2 DEF Restart, Typed, OwnIds, OneJobEach
<1> QED
  BY <1>3, <1>5, <1>6, <1>7, <1>8, <1>9, <1>10, <1>11, <1>12 DEF Next, OneRunEach

\* What can be seen after a step could be seen before, or is the event that
\* has just been queued, by a running job or one whose numbering went on.
LEMMA SeenFrom ==
    ASSUME QueueInv, Next, NEW j \in Job, NEW n \in Nat, NEW i \in 1..MaxEmitted, Seen(j, n, i)'
    PROVE  \/ Seen(j, n, i)
           \/ /\ n = next[j] /\ i = emitted + 1
              /\ Running(j) \/ NumbersGoOn(j)
              /\ stage' = stage /\ stage[j] # "new"
              /\ \E type \in {"log", "phase"} : Push(j, type)
<1>0. Typed /\ OneJobEach
  BY DEF QueueInv
<1>1. CASE <<n, i>> \in table'[j]
  BY <1>1, TableFrom DEF Seen
<1>2. CASE In(pending', j, n, i)
  <2>1. \/ pending' \subseteq pending
        \/ \E k \in Job, type \in {"log", "phase"} :
              Push(k, type) /\ (Running(k) \/ NumbersGoOn(k)) /\ stage' = stage /\ stage[k] # "new"
    <3>1. CASE \E k \in Job, type \in {"log", "phase"} : Emit(k, type)
      BY <3>1 DEF Emit, Running, jobVars
    <3>2. CASE \E k \in Job : Approve(k)
      BY <3>2 DEF Approve
    <3> QED
      BY <3>1, <3>2 DEF Next, OneRunEach, StartJob, RunAgain, Forget, GiveUp, EndJob, StartFlush,
                Sent, SendFails, LateArrival, EndFlush, Restart, queueVars
  <2>2. CASE pending' \subseteq pending
    BY <1>2, <2>2 DEF In, Seen
  <2>3. ASSUME NEW k \in Job, NEW type \in {"log", "phase"}, Push(k, type),
               Running(k) \/ NumbersGoOn(k), stage' = stage, stage[k] # "new"
        PROVE  \/ Seen(j, n, i)
               \/ /\ n = next[j] /\ i = emitted + 1 /\ (Running(j) \/ NumbersGoOn(j))
                  /\ Push(j, type) /\ stage[j] # "new"
    <3>1. pending' \subseteq pending \cup {NewEvent(k, type)}
      BY <1>0, <2>3, PushFacts
    <3>2. PICK e \in pending' : e.job = j /\ e.seq = n /\ e.id = i
      BY <1>2 DEF In
    <3>3. CASE e \in pending
      BY <3>2, <3>3 DEF In, Seen
    <3>4. CASE e = NewEvent(k, type)
      <4>1. j = k /\ n = next[k] /\ i = emitted + 1
        BY <3>2, <3>4 DEF NewEvent
      <4> QED
        BY <2>3, <4>1
    <3> QED
      BY <3>1, <3>3, <3>4
  <2> QED
    BY <2>1, <2>2, <2>3
<1>3. CASE In(rest', j, n, i)
  <2>1. rest' \subseteq rest \/ rest' = pending
    BY DEF Next, OneRunEach, StartJob, RunAgain, Emit, Push, Forget, GiveUp, EndJob, Approve,
           StartFlush, Sent, SendFails, LateArrival, EndFlush, Restart, queueVars
  <2> QED
    BY <1>3, <2>1 DEF In, Seen, SeenElsewhere
<1>4. ASSUME NEW request \in late', In(request.events, j, n, i)
      PROVE  Seen(j, n, i)
  <2>1. request \in late \/ (rest # {} /\ request.events = Batch)
    <3>1. CASE SendFails
      <4>1. rest # {} /\ late' \subseteq late \cup {[events |-> Batch, starts |-> ~begun[Current]]}
        BY <3>1 DEF SendFails
      <4> QED
        BY <4>1
    <3>2. CASE ~SendFails
      <4>1. late' \subseteq late
        BY <3>2 DEF Next, OneRunEach, StartJob, RunAgain, Emit, Push, Forget, GiveUp, EndJob,
                    Approve, StartFlush, Sent, LateArrival, EndFlush, Restart, queueVars
      <4> QED
        BY <4>1
    <3> QED
      BY <3>1, <3>2
  <2>2. CASE rest # {} /\ request.events = Batch
    <3>1. Batch \subseteq rest
      BY <1>0, <2>2, BatchFacts DEF Typed
    <3> QED
      BY <1>4, <2>2, <3>1 DEF In, Seen, SeenElsewhere
  <2> QED
    BY <1>4, <2>1, <2>2 DEF Seen, SeenElsewhere
<1> QED
  BY <1>1, <1>2, <1>3, <1>4 DEF Seen, SeenElsewhere, In

\* The counters stay ahead, and no number of a job is there twice.
LEMMA CountersStep ==
    ASSUME QueueInv, Next
    PROVE  CountersAhead'
<1>0. /\ Typed /\ CountersAhead
      /\ next \in [Job -> Nat] /\ emitted \in Nat
      /\ \A e \in pending : e.job \in Job /\ e.seq \in Nat
  BY EventConstants DEF QueueInv, Typed, Event
<1>1. ASSUME NEW j \in Job, NEW type \in {"log", "phase"}, Push(j, type)
      PROVE  CountersAhead'
  <2>1. /\ pending' \subseteq pending \cup {NewEvent(j, type)} /\ rest' = rest
        /\ next' = [next EXCEPT ![j] = next[j] + 1] /\ emitted' = emitted + 1
    BY <1>0, <1>1, PushFacts DEF Push
  <2>2. NewEvent(j, type).job = j /\ NewEvent(j, type).seq = next[j]
    BY DEF NewEvent
  <2>3. \A e \in pending' : e.seq < next'[e.job]
    <3> SUFFICES ASSUME NEW e \in pending'
                 PROVE  e.seq < next'[e.job]
      OBVIOUS
    <3>1. CASE e \in pending
      <4>1. e.seq < next[e.job] /\ e.job \in Job /\ e.seq \in Nat
        BY <1>0, <3>1 DEF CountersAhead
      <4> QED
        BY <1>0, <2>1, <4>1
    <3>2. CASE e = NewEvent(j, type)
      BY <1>0, <2>1, <2>2, <3>2
    <3> QED
      BY <2>1, <3>1, <3>2
  <2>4. \A k \in Job : next'[k] <= emitted'
    BY <1>0, <2>1 DEF CountersAhead
  <2>5. \A e \in pending : ~(e.job = j /\ e.seq = next[j])
    BY <1>0 DEF CountersAhead
  <2>6. OwnNumbers(pending')
    BY <1>0, <2>1, <2>2, <2>5 DEF CountersAhead, OwnNumbers
  <2> QED
    BY <1>0, <2>1, <2>3, <2>4, <2>6 DEF CountersAhead
<1>2. ASSUME NEW j \in Job, Forget(j)
      PROVE  CountersAhead'
  <2>1. /\ pending' = pending \ OfJob(pending, j) /\ rest' = rest
        /\ next' = [next EXCEPT ![j] = 0] /\ emitted' = emitted
    BY <1>2 DEF Forget
  <2>2. \A e \in pending' : e \in pending /\ e.job # j
    BY <2>1 DEF OfJob
  <2> QED
    BY <1>0, <2>1, <2>2 DEF CountersAhead, OwnNumbers
<1>3. ASSUME Restart
      PROVE  CountersAhead'
  BY <1>0, <1>3, RenumberedFacts DEF Restart, CountersAhead, OwnNumbers
<1>4. \/ \E j \in Job, type \in {"log", "phase"} : Push(j, type)
      \/ \E j \in Job : Forget(j)
      \/ Restart
      \/ /\ pending' \subseteq pending /\ next' = next /\ emitted' = emitted
         /\ rest' \subseteq rest \/ rest' = pending
  BY DEF Next, OneRunEach, StartJob, RunAgain, GiveUp, EndJob, Emit, Approve, StartFlush, Sent,
         SendFails, LateArrival, EndFlush, queueVars
<1>5. CASE /\ pending' \subseteq pending /\ next' = next /\ emitted' = emitted
           /\ rest' \subseteq rest \/ rest' = pending
  BY <1>0, <1>5 DEF CountersAhead, OwnNumbers
<1> QED
  BY <1>1, <1>2, <1>3, <1>4, <1>5

\* What a numbering falls behind happened before it, and does not wait.
LEMMA BehindStep ==
    ASSUME QueueInv, Next
    PROVE  Behind'
<1>0. /\ Typed /\ CountersAhead /\ Behind /\ Numbered
      /\ next \in [Job -> Nat] /\ emitted \in Nat /\ emitted' \in Nat
      /\ \A e \in pending : e.job \in Job /\ e.seq \in Nat
      /\ stale \in [Job -> SUBSET (Nat \X (1..MaxEmitted))]
      /\ 1..MaxEmitted \subseteq Nat
  BY TypedStep, EventConstants DEF QueueInv, Typed, Event
<1>1. ASSUME NEW j \in Job, NEW r \in stale'[j]
      PROVE  /\ r[1] \in Nat /\ r[2] \in Nat /\ r[2] <= emitted
             /\ r \in stale[j] \/ r[1] >= next[j]
  <2>1. /\ r \in Nat \X (1..MaxEmitted)
        /\ \/ r \in stale[j]
           \/ r[1] >= next[j] /\ SeenElsewhere(j, r[1], r[2])
    <3>1. stale'[j] \in SUBSET (Nat \X (1..MaxEmitted))
      BY StaleStep
    <3> QED
      BY <1>1, <3>1, StaleStep
  <2>2. r[2] <= emitted
    BY <1>0, <2>1 DEF Behind, Numbered, Seen
  <2> QED
    BY <1>0, <2>1, <2>2
<1>2. emitted <= emitted'
  <2>1. emitted' = emitted \/ emitted' = emitted + 1
    BY DEF Next, OneRunEach, StartJob, RunAgain, GiveUp, EndJob, Emit, Push, Forget, Approve,
           StartFlush, Sent, SendFails, LateArrival, EndFlush, Restart
  <2> QED
    BY <1>0, <2>1
<1>3. \A j \in Job : \A r \in stale'[j] : r[2] <= emitted'
  BY <1>0, <1>1, <1>2
<1>4. ASSUME NEW e \in pending'
      PROVE  <<e.seq, e.id>> \notin stale'[e.job]
  <2>1. CASE e \in pending
    <3>1. e.seq < next[e.job] /\ <<e.seq, e.id>> \notin stale[e.job] /\ e.job \in Job
      BY <1>0, <2>1 DEF CountersAhead, Behind
    <3> QED
      BY <1>0, <1>1, <2>1, <3>1
  <2>2. CASE e \notin pending
    <3>1. PICK j \in Job, type \in {"log", "phase"} : Push(j, type)
      BY <2>2 DEF Next, OneRunEach, StartJob, RunAgain, GiveUp, EndJob, Emit, Forget, Approve,
                  StartFlush, Sent, SendFails, LateArrival, EndFlush, Restart, queueVars
    <3>2. e = NewEvent(j, type)
      BY <1>0, <2>2, <3>1, PushFacts
    <3>3. e.job = j /\ e.id = emitted + 1
      BY <3>2 DEF NewEvent
    <3> QED
      BY <1>0, <1>1, <3>3
  <2> QED
    BY <2>1, <2>2
<1> QED
  BY <1>3, <1>4 DEF Behind

\* A numbering that goes on is beyond what can be seen, or falls behind it.
LEMMA BeyondOrBehind ==
    ASSUME QueueInv, Next, NEW j \in Job, NEW n \in Nat, NEW i \in 1..MaxEmitted, Seen(j, n, i),
           Running(j) \/ NumbersGoOn(j)
    PROVE  n < next[j] \/ <<n, i>> \in stale'[j]
<1>0. Typed /\ CountersAhead /\ Numbered /\ next[j] \in Nat
  BY DEF QueueInv, Typed
<1>1. CASE Running(j)
  <2>1. n < next[j] \/ <<n, i>> \in stale[j]
    BY <1>0, <1>1 DEF Numbered
  <2>2. stale[j] \subseteq stale'[j]
    BY StaleStep
  <2> QED
    BY <2>1, <2>2
<1>2. CASE NumbersGoOn(j)
  <2>1. CASE In(pending, j, n, i)
    BY <1>0, <2>1 DEF In, CountersAhead
  <2>2. CASE SeenElsewhere(j, n, i)
    BY <1>0, <1>2, <2>2, GoesOnFacts
  <2> QED
    BY <2>1, <2>2 DEF Seen
<1> QED
  BY <1>1, <1>2

\* What can be seen of a job stays numbered in the order it happened.
LEMMA NumberedStep ==
    ASSUME QueueInv, Next
    PROVE  Numbered'
<1>0. /\ Typed /\ CountersAhead /\ Numbered
      /\ next \in [Job -> Nat] /\ emitted \in Nat
      /\ stage \in [Job -> {"new", "running", "over", "again"}]
      /\ 1..MaxEmitted \subseteq Nat
      /\ \A j \in Job : stale[j] \subseteq stale'[j]
  BY StaleStep, EventConstants DEF QueueInv, Typed
<1>1. ASSUME NEW j \in Job, NEW n \in Nat, NEW i \in 1..MaxEmitted, Seen(j, n, i)
      PROVE  /\ i <= emitted'
             /\ stage'[j] # "new"
             /\ Running(j)' => n < next'[j] \/ <<n, i>> \in stale'[j]
  <2>0. i <= emitted /\ stage[j] # "new" /\ (Running(j) => n < next[j] \/ <<n, i>> \in stale'[j])
    BY <1>0, <1>1 DEF Numbered
  <2>1. ASSUME NEW k \in Job, NEW type \in {"log", "phase"}, Push(k, type), stage' = stage
        PROVE  /\ i <= emitted' /\ stage'[j] # "new"
               /\ Running(j)' => n < next'[j] \/ <<n, i>> \in stale'[j]
    <3>1. /\ next' = [next EXCEPT ![k] = next[k] + 1] /\ emitted' = emitted + 1
          /\ stage' = stage
      BY <1>0, <2>1, PushFacts
    <3> QED
      BY <1>0, <2>0, <3>1 DEF Running
  <2>2. ASSUME NEW k \in Job, Forget(k) \/ GiveUp(k)
        PROVE  /\ i <= emitted' /\ stage'[j] # "new"
               /\ Running(j)' => n < next'[j] \/ <<n, i>> \in stale'[j]
    <3>1. /\ stage' = [stage EXCEPT ![k] = "over"] /\ emitted' = emitted
          /\ \A l \in Job : l # k => next'[l] = next[l]
      BY <1>0, <2>2 DEF Forget, GiveUp, queueVars
    <3> QED
      BY <1>0, <2>0, <3>1 DEF Running
  <2>3. ASSUME Restart
        PROVE  i <= emitted' /\ stage'[j] # "new" /\ ~Running(j)'
    BY <1>0, <2>0, <2>3 DEF Restart, Running
  <2>4. ASSUME NEW k \in Job, StartJob(k)
        PROVE  /\ i <= emitted' /\ stage'[j] # "new"
               /\ Running(j)' => n < next'[j] \/ <<n, i>> \in stale'[j]
    <3>1. /\ next' = next /\ emitted' = emitted /\ stage' = [stage EXCEPT ![k] = "running"]
          /\ j # k
      BY <2>0, <2>4 DEF StartJob, queueVars
    <3> QED
      BY <1>0, <2>0, <3>1 DEF Running
  <2>5. ASSUME NEW k \in Job, RunAgain(k)
        PROVE  /\ i <= emitted' /\ stage'[j] # "new"
               /\ Running(j)' => n < next'[j] \/ <<n, i>> \in stale'[j]
    <3>1. /\ next' = next /\ emitted' = emitted /\ stage' = [stage EXCEPT ![k] = "again"]
          /\ NumbersGoOn(k)
      BY <2>5 DEF RunAgain, queueVars
    <3>2. j = k => n < next[j] \/ <<n, i>> \in stale'[j]
      BY <1>1, <3>1, BeyondOrBehind
    <3> QED
      BY <1>0, <2>0, <3>1, <3>2 DEF Running
  <2>6. \/ \E k \in Job, type \in {"log", "phase"} : Push(k, type) /\ stage' = stage
        \/ \E k \in Job : Forget(k) \/ GiveUp(k) \/ StartJob(k) \/ RunAgain(k)
        \/ Restart
        \/ stage' = stage /\ next' = next /\ emitted' = emitted
    BY DEF Next, OneRunEach, Emit, Approve, EndJob, StartFlush, Sent, SendFails, LateArrival,
           EndFlush, queueVars, jobVars
  <2> QED
    BY <2>0, <2>1, <2>2, <2>3, <2>4, <2>5, <2>6 DEF Running
<1>2. ASSUME NEW j \in Job, NEW type \in {"log", "phase"}, Push(j, type)
      PROVE  emitted' = emitted + 1 /\ next'[j] = next[j] + 1
  BY <1>0, <1>2, PushFacts
<1>3. ASSUME NEW j \in Job, NEW n \in Nat, NEW i \in 1..MaxEmitted, Seen(j, n, i)'
      PROVE  /\ i <= emitted'
             /\ stage'[j] # "new"
             /\ Running(j)' => n < next'[j] \/ <<n, i>> \in stale'[j]
             /\ \A m \in Nat, k \in 1..MaxEmitted : Seen(j, m, k)' =>
                   /\ i < k => n < m \/ <<n, i>> \in stale'[j]
                   /\ i = k => n = m
  <2>1. \/ Seen(j, n, i)
        \/ /\ n = next[j] /\ i = emitted + 1
           /\ Running(j) \/ NumbersGoOn(j)
           /\ stage' = stage /\ stage[j] # "new"
           /\ \E type \in {"log", "phase"} : Push(j, type)
    BY <1>3, SeenFrom
  <2>2. /\ i <= emitted'
        /\ stage'[j] # "new"
        /\ Running(j)' => n < next'[j] \/ <<n, i>> \in stale'[j]
    <3>1. CASE Seen(j, n, i)
      BY <1>1, <3>1
    <3>2. CASE /\ n = next[j] /\ i = emitted + 1 /\ stage' = stage /\ stage[j] # "new"
               /\ \E type \in {"log", "phase"} : Push(j, type)
      <4>1. emitted' = emitted + 1 /\ next'[j] = next[j] + 1
        BY <1>2, <3>2
      <4> QED
        BY <1>0, <3>2, <4>1
    <3> QED
      BY <2>1, <3>1, <3>2
  <2>3. ASSUME NEW m \in Nat, NEW k \in 1..MaxEmitted, Seen(j, m, k)'
        PROVE  /\ i < k => n < m \/ <<n, i>> \in stale'[j]
               /\ i = k => n = m
    <3>1. \/ Seen(j, m, k)
          \/ m = next[j] /\ k = emitted + 1 /\ (Running(j) \/ NumbersGoOn(j))
      BY <2>3, SeenFrom
    <3>2. (Seen(j, n, i) => i <= emitted) /\ (Seen(j, m, k) => k <= emitted)
      BY <1>0 DEF Numbered
    <3>3. Seen(j, n, i) /\ Seen(j, m, k) =>
              /\ i < k => n < m \/ <<n, i>> \in stale'[j]
              /\ i = k => n = m
      BY <1>0 DEF Numbered
    <3>4. Seen(j, n, i) /\ (Running(j) \/ NumbersGoOn(j)) => n < next[j] \/ <<n, i>> \in stale'[j]
      BY BeyondOrBehind
    <3> QED
      BY <1>0, <2>1, <3>1, <3>2, <3>3, <3>4
  <2> QED
    BY <2>2, <2>3
<1> QED
  BY <1>3 DEF Numbered

\* What was answered for and waits is in the table from then on, or was not
\* taken, or its number was.
LEMMA AnsweredStep ==
    ASSUME QueueInv, Next
    PROVE  Answered'
<1> DEFINE Known(e) == \/ <<e.seq, e.id>> \in table'[e.job]
                       \/ e \in ignored'
                       \/ \E r \in table'[e.job] : r[1] = e.seq /\ r \in stale'[e.job]
<1> SUFFICES ASSUME NEW e \in delivered', e \in pending'
             PROVE  Known(e)
  BY DEF Answered, Stored, FellBehind
<1>0. /\ Typed /\ Numbered /\ OneJobEach /\ Answered /\ CountersAhead /\ Behind
      /\ emitted \in Nat /\ 1..MaxEmitted \subseteq Nat
      /\ \A j \in Job : table[j] \subseteq table'[j] /\ stale[j] \subseteq stale'[j]
      /\ \A j \in Job : table'[j] \in SUBSET (Nat \X (1..MaxEmitted))
  BY TableFrom, StaleStep, EventConstants DEF QueueInv, Typed
<1>1. \/ e \in delivered /\ ignored \subseteq ignored'
      \/ Sent /\ e \in Batch
  <2>1. CASE Sent
    BY <2>1 DEF Sent
  <2>2. CASE StartFlush \/ EndFlush \/ Restart
    BY <2>2 DEF StartFlush, EndFlush, Restart
  <2>3. CASE ~(Sent \/ StartFlush \/ EndFlush \/ Restart)
    BY <2>3 DEF Next, OneRunEach, StartJob, RunAgain, Emit, Push, Forget, GiveUp, EndJob, Approve,
                SendFails, LateArrival, queueVars
  <2> QED
    BY <2>1, <2>2, <2>3
<1>2. e \in Event /\ e.id <= emitted
  <2>1. CASE e \in delivered
    BY <1>0, <2>1 DEF Typed
  <2>2. CASE Sent /\ e \in Batch
    <3>1. Batch \subseteq rest
      BY <1>0, <2>2, BatchFacts DEF Sent, Typed
    <3>2. e \in Event /\ Seen(e.job, e.seq, e.id)
      BY <1>0, <2>2, <3>1 DEF Typed, Seen, SeenElsewhere, In
    <3> QED
      BY <1>0, <3>2 DEF Numbered, Event
  <2> QED
    BY <1>1, <2>1, <2>2
<1>3. e.job \in Job /\ e.seq \in Nat /\ e.id \in 1..MaxEmitted
  BY <1>2 DEF Event
<1>4. e \in pending
  <2>1. \/ pending' \subseteq pending
        \/ \E j \in Job, type \in {"log", "phase"} : Push(j, type)
    BY DEF Next, OneRunEach, StartJob, RunAgain, Emit, Forget, GiveUp, EndJob, Approve,
           StartFlush, Sent, SendFails, LateArrival, EndFlush, Restart, queueVars
  <2>2. ASSUME NEW j \in Job, NEW type \in {"log", "phase"}, Push(j, type)
        PROVE  e \in pending
    <3>1. pending' \subseteq pending \cup {NewEvent(j, type)}
      BY <1>0, <2>2, PushFacts
    <3>2. NewEvent(j, type).id = emitted + 1
      BY DEF NewEvent
    <3> QED
      BY <1>0, <1>2, <1>3, <3>1, <3>2
  <2> QED
    BY <2>1, <2>2
<1>5. CASE e \in delivered /\ ignored \subseteq ignored'
  <2>1. \/ <<e.seq, e.id>> \in table[e.job]
        \/ e \in ignored
        \/ \E r \in table[e.job] : r[1] = e.seq /\ r \in stale[e.job]
    BY <1>0, <1>4, <1>5 DEF Answered, Stored, FellBehind
  <2> QED
    BY <1>0, <1>3, <1>5, <2>1
<1>6. CASE Sent /\ e \in Batch
  <2>1. /\ Current \in Job /\ Batch \in SUBSET Event /\ Batch \subseteq rest /\ rest # {}
        /\ \A d \in Batch : d.job = Current
    BY <1>0, <1>6, BatchFacts DEF Sent, Typed
  <2>2. CASE Ended(Current)
    BY <1>6, <2>2 DEF Sent
  <2>3. CASE ~Ended(Current)
    <3>1. table' = Recorded(Current, Batch)
      BY <1>6, <2>3 DEF Sent, Arrives
    <3>2. \A c, d \in Batch : c.seq = d.seq => c = d
      BY <1>0, <2>1 DEF CountersAhead, OwnNumbers
    <3>3. <<e.seq, e.id>> \in table'[Current] \/ \E r \in table[Current] : r[1] = e.seq
      BY <1>0, <1>6, <2>1, <3>1, <3>2, RecordedFacts
    <3>4. ASSUME NEW r \in table[e.job], r[1] = e.seq
          PROVE  r = <<e.seq, e.id>> \/ r \in stale[e.job]
      <4>1. PICK n \in Nat, i \in 1..MaxEmitted : r = <<n, i>>
        BY <1>0, <1>3 DEF Typed
      <4>2. n = e.seq /\ Seen(e.job, n, i) /\ Seen(e.job, e.seq, e.id)
        BY <1>4, <3>4, <4>1 DEF Seen, SeenElsewhere, In
      <4>3. CASE i < e.id
        BY <1>0, <1>3, <4>1, <4>2, <4>3 DEF Numbered
      <4>4. CASE e.id < i
        <5>1. <<e.seq, e.id>> \in stale[e.job]
          BY <1>0, <1>3, <4>2, <4>4 DEF Numbered
        <5> QED
          BY <1>0, <1>4, <5>1 DEF Behind
      <4>5. CASE i = e.id
        BY <4>1, <4>2, <4>5
      <4> QED
        BY <1>0, <1>3, <4>3, <4>4, <4>5
    <3> QED
      BY <1>0, <1>3, <1>6, <2>1, <3>3, <3>4
  <2> QED
    BY <2>2, <2>3
<1> QED
  BY <1>1, <1>5, <1>6

LEMMA QueueStep == QueueInv /\ [Next]_vars => QueueInv'
<1> SUFFICES ASSUME QueueInv, [Next]_vars
             PROVE  QueueInv'
  OBVIOUS
<1>1. CASE Next
  BY <1>1, TypedStep, CountersStep, BehindStep, NumberedStep, AnsweredStep DEF QueueInv
<1>2. CASE UNCHANGED vars
  <2>1. /\ pending' = pending /\ next' = next /\ flushing' = flushing /\ rest' = rest
        /\ delivered' = delivered /\ ignored' = ignored /\ table' = table /\ late' = late
        /\ stage' = stage /\ row' = row /\ begun' = begun /\ emitted' = emitted /\ stale' = stale
    BY <1>2 DEF vars, queueVars, jobVars
  <2>2. Typed' /\ OneJobEach' /\ CountersAhead' /\ Behind'
    BY <2>1 DEF QueueInv, Typed, OwnIds, OneJobEach, CountersAhead, OwnNumbers, Behind
  <2>3. \A j \in Job, n \in Nat, i \in 1..MaxEmitted : Seen(j, n, i)' <=> Seen(j, n, i)
    BY <2>1 DEF Seen, SeenElsewhere, In
  <2>4. Numbered'
    BY <2>1, <2>3 DEF QueueInv, Numbered, Running
  <2>5. Answered'
    BY <2>1 DEF QueueInv, Answered, Stored, FellBehind
  <2> QED
    BY <2>2, <2>4, <2>5 DEF QueueInv
<1> QED
  BY <1>1, <1>2

-------------------------------------------------------------------------------
(* The theorems *)

\* The queue never holds more than its limit, whatever is pushed, sent or
\* restored, and everything in it, in a request or in the table is an event.
THEOREM QueueTypeCorrect == Spec => []TypeOK
<1>1. QueueInv => TypeOK
  BY TypedIsTypeOK DEF QueueInv
<1> QED
  BY <1>1, QueueInit, QueueStep, PTL DEF Spec

\* The number of an event that waits belongs to another event that the gateway
\* has only when the job was numbered afresh over that one: sending again is
\* safe otherwise, through restarts, repeated runs of a job, approved actions
\* and requests that arrive late.
THEOREM NumbersStayDistinct == Spec => []NumbersDistinct
<1>1. QueueInv => NumbersDistinct
  <2> SUFFICES ASSUME QueueInv, NEW e \in pending, NEW r \in table[e.job], r[1] = e.seq
               PROVE  r[2] = e.id \/ r \in stale[e.job]
    BY DEF NumbersDistinct, FellBehind
  <2>1. /\ e.job \in Job /\ e.seq \in Nat /\ e.id \in 1..MaxEmitted
        /\ table[e.job] \in SUBSET (Nat \X (1..MaxEmitted))
        /\ 1..MaxEmitted \subseteq Nat
    BY EventConstants DEF QueueInv, Typed, Event
  <2>2. PICK n \in Nat, i \in 1..MaxEmitted : r = <<n, i>>
    BY <2>1
  <2>3. Seen(e.job, n, i) /\ Seen(e.job, e.seq, e.id) /\ n = e.seq
    BY <2>2 DEF Seen, SeenElsewhere, In
  <2>4. i < e.id => r \in stale[e.job]
    BY <2>1, <2>2, <2>3 DEF QueueInv, Numbered
  <2>5. ~(e.id < i)
    <3>1. <<e.seq, e.id>> \notin stale[e.job]
      BY DEF QueueInv, Behind
    <3> QED
      BY <2>1, <2>3, <3>1 DEF QueueInv, Numbered
  <2> QED
    BY <2>1, <2>2, <2>4, <2>5
<1> QED
  BY <1>1, QueueInit, QueueStep, PTL DEF Spec

\* The table tells the events of a job in the order they happened, through
\* restarts, repeated requests and requests that arrive late, but for those its
\* numbering has fallen behind.
THEOREM TableTellsTheOrder == Spec => []OrderKept
<1>1. QueueInv => OrderKept
  <2> SUFFICES ASSUME QueueInv, NEW j \in Job, NEW r \in table[j], NEW s \in table[j], r[1] < s[1]
               PROVE  r[2] < s[2] \/ s \in stale[j]
    BY DEF OrderKept
  <2>1. table[j] \in SUBSET (Nat \X (1..MaxEmitted)) /\ 1..MaxEmitted \subseteq Nat
    BY EventConstants DEF QueueInv, Typed
  <2>2. PICK n \in Nat, i \in 1..MaxEmitted : r = <<n, i>>
    BY <2>1
  <2>3. PICK m \in Nat, k \in 1..MaxEmitted : s = <<m, k>>
    BY <2>1
  <2>4. Seen(j, n, i) /\ Seen(j, m, k) /\ n < m
    BY <2>2, <2>3 DEF Seen, SeenElsewhere
  <2>5. i # k
    <3>1. i = k => n = m
      BY <2>2, <2>3, <2>4 DEF QueueInv, Numbered
    <3> QED
      BY <2>2, <2>3, <2>4, <3>1
  <2>6. k < i => s \in stale[j]
    BY <2>3, <2>4 DEF QueueInv, Numbered
  <2> QED
    BY <2>1, <2>2, <2>3, <2>5, <2>6
<1> QED
  BY <1>1, QueueInit, QueueStep, PTL DEF Spec

\* An event leaves the queue only when the gateway has it, its job had ended
\* when it was answered, its job is forgotten, or the queue is full; or when the
\* gateway has another with its number, which its job fell behind.
THEOREM EventsDoNotVanish == Spec => NothingVanishes
<1> DEFINE Reason == \A e \in pending \ pending' :
          Excused(e) \/ \E r \in table[e.job] : FellBehind(e, r)
<1>1. QueueInv /\ [Next]_vars => [Reason]_vars
  <2> SUFFICES ASSUME QueueInv, Next, NEW e \in pending, e \notin pending'
               PROVE  Excused(e) \/ \E r \in table[e.job] : FellBehind(e, r)
    OBVIOUS
  <2>0. /\ Typed /\ stage \in [Job -> {"new", "running", "over", "again"}]
        /\ emitted \in Nat /\ MaxPending \in Nat
        /\ Cardinality(pending) \in Nat /\ Cardinality(pending) <= MaxPending
    BY EventConstants, FS_CardinalityType DEF QueueInv, Typed
  <2>1. ASSUME NEW j \in Job, NEW type \in {"log", "phase"}, Push(j, type)
        PROVE  Excused(e)
    <3>1. /\ Cardinality(pending) < MaxPending => pending \subseteq pending'
          /\ emitted' = emitted + 1
      BY <2>0, <2>1, PushFacts
    <3>2. Cardinality(pending) = MaxPending /\ emitted' # emitted
      BY <2>0, <3>1
    <3> QED
      BY <3>2 DEF Excused
  <2>2. ASSUME NEW j \in Job, Forget(j)
        PROVE  Excused(e)
    <3>1. e.job = j
      BY <2>2 DEF Forget, OfJob
    <3>2. Running(j) /\ stage'[j] = "over"
      BY <2>0, <2>2 DEF Forget
    <3> QED
      BY <3>1, <3>2 DEF Excused
  <2>3. CASE EndFlush
    BY <2>3 DEF EndFlush, QueueInv, Answered, Excused
  <2>4. \/ \E j \in Job, type \in {"log", "phase"} : Push(j, type)
        \/ \E j \in Job : Forget(j)
        \/ EndFlush
    BY DEF Next, OneRunEach, StartJob, RunAgain, GiveUp, EndJob, Emit, Approve, StartFlush, Sent,
           SendFails, LateArrival, Restart, queueVars
  <2> QED
    BY <2>1, <2>2, <2>3, <2>4
<1> QED
  BY <1>1, QueueInit, QueueStep, PTL DEF Spec, NothingVanishes
===============================================================================
