------------------------------ MODULE EventQueue ------------------------------
(***************************************************************************)
(* The local queue of job events (apps/agent/src/event-queue.ts) and the   *)
(* table it fills (appendEvents of the gateway).  Every change of the queue *)
(* is written to disk before anything else happens, so the queue in memory  *)
(* and the one on disk are one variable; the sequence numbers live only in  *)
(* memory and are worked out again from the queue after a restart.  The     *)
(* queue is a set: the identity of an event, which nobody in the program     *)
(* sees, says when it was queued.                                           *)
(*                                                                         *)
(* What becomes of the job's row is JobLifecycle's subject.  Here a row has *)
(* ended or not, and a job that never began, as far as its row tells, may   *)
(* be run again by its machine, whatever was recorded of it.                *)
(***************************************************************************)
EXTENDS Naturals, FiniteSets

CONSTANTS
    Job,
    MaxPending,   \* options.maxPending of the queue (2000 by default)
    BatchSize,    \* events a request carries (50 in the code)
    MaxEmitted,   \* bound: events emitted in all
    MaxLate       \* bound: requests given up at a time

ASSUME EventConstants ==
    /\ MaxPending \in Nat \ {0} /\ BatchSize \in Nat \ {0}
    /\ MaxEmitted \in Nat /\ MaxLate \in Nat

VARIABLES
    pending,    \* the queue
    next,       \* the next sequence number of each job (sequences + 1)
    flushing,   \* a flush is under way
    rest,       \* the events that flush has still to send
    delivered,  \* the events whose request was answered in that flush
    table,      \* job_events: <<sequence, id>> recorded for each job
    late,       \* requests the client gave up and the gateway still has
    stage,      \* of each job on this machine
    row,        \* of each job: open, waiting for an approved action, completed,
                \* or closed in another way
    begun,      \* of each job: its row has started_at
    emitted,    \* how many events there have been: their identities
    ignored,    \* history: those of delivered whose job had ended by then
    stale       \* history: of each job, <<sequence, id>> of the events the
                \* gateway has, or may yet get, that its numbering fell behind

queueVars == <<pending, next, flushing, rest, delivered, ignored>>
jobVars == <<stage, row, begun>>
vars == <<queueVars, table, late, jobVars, emitted, stale>>

Event == [job : Job, seq : Nat, id : 1..MaxEmitted, type : {"log", "phase"}]

\* the first n and the last n of a set of events, in the order of the queue
Oldest(set, n) == {e \in set : Cardinality({d \in set : d.id < e.id}) < n}
Newest(set, n) == {e \in set : Cardinality({d \in set : d.id > e.id}) < n}

OfJob(set, j) == {e \in set : e.job = j}

\* a request the gateway has read the row for; starts: it was not begun then
Request == [events : SUBSET Event, starts : BOOLEAN]

Running(j) == stage[j] \in {"running", "again"}
Ended(j) == row[j] \in {"completed", "closed"}

TypeOK ==
    /\ pending \subseteq Event /\ Cardinality(pending) <= MaxPending
    /\ next \in [Job -> Nat]
    /\ flushing \in BOOLEAN
    /\ rest \subseteq Event
    /\ delivered \subseteq Event /\ ignored \subseteq delivered
    /\ table \in [Job -> SUBSET (Nat \X (1..MaxEmitted))]
    /\ late \subseteq Request
    /\ stage \in [Job -> {"new", "running", "over", "again"}]
    /\ row \in [Job -> {"open", "waiting", "completed", "closed"}]
    /\ begun \in [Job -> BOOLEAN]
    /\ emitted \in 0..MaxEmitted
    /\ stale \in [Job -> SUBSET (Nat \X (1..MaxEmitted))]

Init ==
    /\ pending = {} /\ next = [j \in Job |-> 0]
    /\ flushing = FALSE /\ rest = {} /\ delivered = {} /\ ignored = {}
    /\ table = [j \in Job |-> {}] /\ late = {}
    /\ stage = [j \in Job |-> "new"] /\ row = [j \in Job |-> "open"]
    /\ begun = [j \in Job |-> FALSE]
    /\ emitted = 0
    /\ stale = [j \in Job |-> {}]

-------------------------------------------------------------------------------
(* The queue *)

\* fault for mutation runs: off by one
TrimLate(queue) ==
    IF Cardinality(queue) <= MaxPending + 1 THEN queue ELSE Newest(queue, MaxPending)

\* what is kept of a queue that has grown beyond its limit
Trim(queue) ==
    LET keep == {e \in queue : e.type # "log"} IN
    IF Cardinality(queue) <= MaxPending THEN queue
    ELSE Newest(IF 2 * Cardinality(keep) > MaxPending THEN keep ELSE queue, MaxPending)

Push(j, type) ==
    /\ emitted < MaxEmitted
    /\ emitted' = emitted + 1
    /\ pending' = Trim(pending \cup {[ job |-> j, seq |-> next[j],
                                        id |-> emitted + 1, type |-> type ]})
    /\ next' = [next EXCEPT ![j] = @ + 1]
    /\ UNCHANGED <<flushing, rest, delivered, ignored>>

\* faults for mutation runs: numbering starts again; it goes on from the oldest
\* event on disk
RenumberedAfresh == [j \in Job |-> 0]
RenumberedFromOldest ==
    [j \in Job |->
        LET first == Oldest(OfJob(pending, j), 1)
        IN  IF first = {} THEN 0 ELSE (CHOOSE e \in first : TRUE).seq + 1]

\* numbering goes on from the highest number found on disk
Renumbered ==
    [j \in Job |->
        LET used == {e.seq + 1 : e \in OfJob(pending, j)}
        IN  IF used = {} THEN 0 ELSE CHOOSE n \in used : \A k \in used : k <= n]

-------------------------------------------------------------------------------
(* Jobs *)

\* numbering of j goes on from next[j], whatever the gateway has beyond it
NumbersGoOn(j) ==
    LET sent == rest \cup UNION {request.events : request \in late}
        known == table[j] \cup {<<e.seq, e.id>> : e \in OfJob(sent, j)}
    IN  stale' = [stale EXCEPT ![j] = @ \cup {r \in known : r[1] >= next[j]}]

\* the agent executes one job at a time
Free == \A i \in Job : ~Running(i)

StartJob(j) ==
    /\ stage[j] = "new"
    /\ Free
    /\ stage' = [stage EXCEPT ![j] = "running"]
    /\ UNCHANGED <<queueVars, table, late, row, begun, emitted, stale>>

\* a claim whose row never began is handed out again when its lease is behind
RunAgain(j) ==
    /\ stage[j] = "over"
    /\ row[j] = "open" /\ ~begun[j]
    /\ Free
    /\ stage' = [stage EXCEPT ![j] = "again"]
    /\ NumbersGoOn(j)
    /\ UNCHANGED <<queueVars, table, late, row, begun, emitted>>

Emit(j, type) ==
    /\ Running(j)
    /\ Push(j, type)
    /\ UNCHANGED <<table, late, jobVars, stale>>

\* executeJob is through with the job: its events are discarded
Forget(j) ==
    /\ Running(j)
    /\ stage' = [stage EXCEPT ![j] = "over"]
    /\ pending' = pending \ OfJob(pending, j)
    /\ next' = [next EXCEPT ![j] = 0]
    /\ UNCHANGED <<flushing, rest, delivered, ignored, table, late, row, begun, emitted, stale>>

\* executeJob fails on the way, and leaves the queue as it is
GiveUp(j) ==
    /\ Running(j)
    /\ stage' = [stage EXCEPT ![j] = "over"]
    /\ UNCHANGED <<queueVars, table, late, row, begun, emitted, stale>>

\* the row reaches a terminal status: by a cancellation or the sweep, or by
\* the result of the run, or of the run before
EndJob(j, how) ==
    /\ stage[j] # "new"
    /\ ~Ended(j)
    /\ how = "completed" => stage[j] \in {"over", "again"}
    /\ row' = [row EXCEPT ![j] = how]
    /\ UNCHANGED <<queueVars, table, late, stage, begun, emitted, stale>>

\* an approved action moves the row to waiting_for_approval, and the agent
\* that carries it out reports it as an event of the job
Approve(j) ==
    /\ stage[j] \in {"over", "again"}
    /\ row[j] = "completed"
    /\ row' = [row EXCEPT ![j] = "waiting"]
    /\ Push(j, "phase")
    /\ NumbersGoOn(j)
    /\ UNCHANGED <<table, late, stage, begun>>

-------------------------------------------------------------------------------
(* Sending *)

StartFlush ==
    /\ ~flushing
    /\ pending # {}
    /\ flushing' = TRUE
    /\ rest' = pending
    /\ delivered' = {}
    /\ UNCHANGED <<pending, next, ignored, table, late, jobVars, emitted, stale>>

\* the job whose events go next: the events are grouped by job, in the order
\* the jobs appear in the queue, and a job is through before the next begins
Current ==
    LET same == {e \in rest : OfJob(delivered, e.job) # {}}
    IN  (CHOOSE e \in Oldest(IF same # {} THEN same ELSE rest, 1) : TRUE).job

\* the next request: events of one job
Batch == Oldest(OfJob(rest, Current), BatchSize)

\* insertIfAbsent on (job_id, sequence): the first event with a number stays
Recorded(j, batch) ==
    LET new == {e \in batch :
                    /\ \A r \in table[j] : r[1] # e.seq
                    /\ \A d \in batch : d.seq = e.seq => d.id >= e.id}
    IN  [table EXCEPT ![j] = @ \cup {<<e.seq, e.id>> : e \in new}]

\* the first event there is marks the beginning of the run
Begins(j) ==
    /\ begun' = [begun EXCEPT ![j] = TRUE]
    /\ row' = [row EXCEPT ![j] = "open"]

\* the gateway has the batch: a job that ended takes no more events
Arrives(j, batch) ==
    \/ Ended(j) /\ UNCHANGED <<table, row, begun>>
    \/ /\ ~Ended(j)
       /\ table' = Recorded(j, batch)
       /\ IF begun[j] THEN UNCHANGED <<row, begun>> ELSE Begins(j)

Sent ==
    /\ flushing /\ rest # {}
    /\ Arrives(Current, Batch)
    /\ delivered' = delivered \cup Batch
    /\ ignored' = IF Ended(Current) THEN ignored \cup Batch ELSE ignored
    /\ rest' = rest \ Batch
    /\ UNCHANGED <<pending, next, flushing, late, stage, emitted, stale>>

\* no answer comes back, or the gateway fails after the insertion: the flush
\* leaves this job for another time
SendFails ==
    /\ flushing /\ rest # {}
    /\ \/ Arrives(Current, Batch) /\ UNCHANGED late
       \/ /\ ~Ended(Current) /\ ~begun[Current]
          /\ table' = Recorded(Current, Batch)
          /\ UNCHANGED <<row, begun, late>>
       \/ /\ ~Ended(Current) /\ Cardinality(late) < MaxLate
          /\ late' = late \cup {[events |-> Batch, starts |-> ~begun[Current]]}
          /\ UNCHANGED <<table, row, begun>>
       \/ UNCHANGED <<table, row, begun, late>>
    /\ rest' = rest \ OfJob(rest, Current)
    /\ UNCHANGED <<pending, next, flushing, delivered, ignored, stage, emitted, stale>>

\* a request the client gave up is carried out after all, or its first half is
LateArrival(request) ==
    LET j == (CHOOSE e \in request.events : TRUE).job IN
    /\ late' = late \ {request}
    /\ table' = Recorded(j, request.events)
    /\ \/ request.starts /\ Begins(j)
       \/ UNCHANGED <<row, begun>>
    /\ UNCHANGED <<queueVars, stage, emitted, stale>>

\* fault for mutation runs: the queue is emptied, with what arrived meanwhile
EndFlushClears ==
    /\ flushing /\ rest = {}
    /\ flushing' = FALSE
    /\ pending' = {}
    /\ delivered' = {} /\ ignored' = {}
    /\ UNCHANGED <<next, rest, table, late, jobVars, emitted, stale>>

EndFlush ==
    /\ flushing /\ rest = {}
    /\ flushing' = FALSE
    /\ pending' = pending \ delivered
    /\ delivered' = {} /\ ignored' = {}
    /\ UNCHANGED <<next, rest, table, late, jobVars, emitted, stale>>

\* the agent dies and comes back; the job it ran is over
Restart ==
    /\ flushing' = FALSE /\ rest' = {} /\ delivered' = {} /\ ignored' = {}
    /\ next' = Renumbered
    /\ stage' = [j \in Job |-> IF Running(j) THEN "over" ELSE stage[j]]
    /\ UNCHANGED <<pending, table, late, row, begun, emitted, stale>>

OneRunEach ==
    \/ \E j \in Job :
        \/ StartJob(j)
        \/ \E type \in {"log", "phase"} : Emit(j, type)
        \/ Forget(j)
        \/ GiveUp(j)
        \/ \E how \in {"completed", "closed"} : EndJob(j, how)
    \/ StartFlush
    \/ Sent
    \/ SendFails
    \/ \E request \in late : LateArrival(request)
    \/ EndFlush
    \/ Restart

Next == OneRunEach \/ \E j \in Job : RunAgain(j) \/ Approve(j)

Spec == Init /\ [][Next]_vars

\* each job runs once, and users decide about its changes
DecidedSpec == Init /\ [][OneRunEach \/ \E j \in Job : Approve(j)]_vars

-------------------------------------------------------------------------------
(* Properties *)

Stored(e) == <<e.seq, e.id>> \in table[e.job]

\* the numbers of e and r say nothing of each other: r is of before
FellBehind(e, r) == r[1] = e.seq /\ r \in stale[e.job]

\* The number of an event that waits is not the number of another event the
\* gateway already has, which is what makes sending again safe; unless its job
\* was numbered afresh over that one, for a second run or an approved action.
NumbersDistinct ==
    \A e \in pending : \A r \in table[e.job] :
        r[1] = e.seq => r[2] = e.id \/ FellBehind(e, r)

\* The same without the exception: "la secuencia es monotona por trabajo, y el
\* gateway ignora duplicados por (job_id, sequence), asi que reenviar es seguro"
\* (event-queue.ts).
NumbersNeverRepeat ==
    \A e \in pending : \A r \in table[e.job] : r[1] = e.seq => r[2] = e.id

\* e leaves the queue for one of the reasons it may
Excused(e) ==
    \/ Stored(e)
    \/ e \in ignored
    \/ Running(e.job) /\ stage'[e.job] = "over"
    \/ Cardinality(pending) = MaxPending /\ emitted' # emitted

\* An event leaves the queue only when the gateway has it, its job had ended
\* when it was answered, its job is forgotten, or the queue is full; or, its job
\* numbered afresh, when the gateway has an event of before with its number.
NothingVanishes ==
    [][\A e \in pending \ pending' :
          Excused(e) \/ \E r \in table[e.job] : FellBehind(e, r)]_vars

\* The table tells the events of a job in the order they happened, through
\* restarts, repeated requests and requests that arrive late, but for those its
\* numbering has fallen behind.
OrderKept ==
    \A j \in Job : \A r, s \in table[j] :
        r[1] < s[1] => r[2] < s[2] \/ s \in stale[j]

\* A full queue gives up its log lines first: no phase is dropped while a log
\* line is kept.
PhasesOutliveLogs ==
    [][emitted' # emitted /\ (\E e \in pending \ pending' : e.type = "phase")
          => \A e \in pending' : e.type # "log"]_vars
===============================================================================
