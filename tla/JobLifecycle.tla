----------------------------- MODULE JobLifecycle -----------------------------
(***************************************************************************)
(* A job from its creation to its end: the gateway's handlers working on   *)
(* the jobs table, and the agents that claim, execute and report jobs.     *)
(*                                                                         *)
(* A handler of apps/gateway/src/handlers is not a transaction.  It reads   *)
(* the row, decides, and then writes it in one or two separate database     *)
(* requests.  A handler between its read and its last write is a member of  *)
(* calls, so any other statement may run in between.  The client that sent  *)
(* the request may meanwhile have given up on it.                           *)
(*                                                                         *)
(* Answers that change nothing (403, 409, a renewal refused) are not        *)
(* actions: the request may be sent again at any time.  The step of a       *)
(* commit, push or discard approval, which moves a completed job through    *)
(* waiting_for_approval, is not part of this module.                        *)
(***************************************************************************)
EXTENDS JobTable, Naturals, FiniteSets

CONSTANTS
    NoJob,        \* an agent that executes nothing
    KindsInUse,   \* the kinds of job that users submit
    Serialised,   \* TRUE: no statement runs between a handler's read and write
    MaxCalls,     \* bound: handlers between their read and their last write
    MaxFaults     \* bound: crashes, stops, lost answers and partitions

ASSUME NoJobAssumption == NoJob \notin Job
ASSUME KindsAssumption == KindsInUse \subseteq Kinds
ASSUME SerialisedAssumption == Serialised \in BOOLEAN
ASSUME BoundsAssumption == MaxCalls \in Nat /\ MaxFaults \in Nat

VARIABLES
    jobs,      \* the jobs table
    calls,     \* handlers between their read of the row and their last write
    mode,      \* of each agent process
    work,      \* the job each agent executes (activeJob), or NoJob
    closing,   \* agents whose run ended and that are delivering its result
    aborted,   \* agents whose AbortSignal is set
    outbox,    \* the results persisted in pending-outcomes.json
    evq,       \* the jobs with events persisted in pending-events.json
    faults     \* how many faults the environment has spent

agentVars == <<mode, work, closing, aborted, outbox, evq>>
vars == <<jobs, calls, mode, work, closing, aborted, outbox, evq, faults>>

(***************************************************************************)
(* A handler that has read job's row for machine by.  op is what it does    *)
(* next; say is what it decided from the row it read; client is what has    *)
(* become of the request that started it: still waited for, waited for by   *)
(* an agent that has put another result in its place, or given up.          *)
(***************************************************************************)
Call == { c \in [ op     : {"begin", "renew", "control", "outcome", "pick"},
                  job    : Job,
                  by     : Machine,
                  say    : Results \cup {"go", "cancel", "none"},
                  client : {"waiting", "replaced", "gone"} ] :
            c.op = "outcome" => c.say \in Results }

NewCall(op, j, m, say) ==
    [op |-> op, job |-> j, by |-> m, say |-> say, client |-> "waiting"]

TypeOK ==
    /\ jobs \in [Job -> Row]
    /\ calls \subseteq Call
    /\ mode \in [Machine -> {"up", "stopping", "down"}]
    /\ work \in [Machine -> Job \cup {NoJob}]
    /\ closing \subseteq Machine
    /\ aborted \subseteq Machine
    /\ outbox \in [Machine -> [Job -> Results \cup {"none"}]]
    /\ evq \in [Machine -> SUBSET Job]
    /\ faults \in Nat

Init ==
    /\ jobs = [j \in Job |-> Absent]
    /\ calls = {}
    /\ mode = [m \in Machine |-> "up"]
    /\ work = [m \in Machine |-> NoJob]
    /\ closing = {}
    /\ aborted = {}
    /\ outbox = [m \in Machine |-> [j \in Job |-> "none"]]
    /\ evq = [m \in Machine |-> {}]
    /\ faults = 0

-------------------------------------------------------------------------------
(* Helpers *)

\* the database is free for a statement that is not the pending handler's own
Alone == Serialised => calls = {}

Fault == faults < MaxFaults /\ faults' = faults + 1

Enter(call) ==
    /\ call \notin calls
    /\ Cardinality(calls) < MaxCalls
    /\ calls' = calls \cup {call}

SetRow(j, row) == jobs' = [jobs EXCEPT ![j] = row]

\* fault for mutation runs: the client acts on every answer
LetNoneGo(set, fate) == calls

\* the clients of these calls will not act on the answer any more
LetGo(set, fate) ==
    {IF c \in set THEN [c EXCEPT !.client = fate] ELSE c : c \in calls}

CallsOf(m) == {c \in calls : c.by = m /\ c.op # "pick"}

Busy(m, ops) == \E c \in CallsOf(m) : c.op \in ops /\ c.client # "gone"

-------------------------------------------------------------------------------
(* The users: Telegram commands and buttons, Studio *)

\* handleStudioJobCreate and createJobFromRequest insert the row
Submit(j, kind) ==
    /\ Alone
    /\ jobs[j] = Absent
    /\ \/ /\ kind \in {"studio", "conversation"}
          /\ \E m \in Machine :
                <<m, j>> \in CanRun /\ SetRow(j, NewRow(kind, "queued", m))
       \/ /\ kind = "telegram"
          /\ \E m \in Machine \cup {NoMachine} :
                /\ m # NoMachine => <<m, j>> \in CanRun
                /\ SetRow(j, NewRow(kind, "queued", m))
       \/ /\ kind = "choice"
          /\ SetRow(j, NewRow(kind, "waiting_for_machine", NoMachine))
    /\ UNCHANGED <<calls, faults, agentVars>>

\* /cancel and the first statement of Studio's cancel
RequestCancel(j) ==
    /\ Alone
    /\ Cancellable(jobs[j])
    /\ CancelAsked(jobs[j]) # jobs[j]
    /\ SetRow(j, CancelAsked(jobs[j]))
    /\ UNCHANGED <<calls, faults, agentVars>>

\* Studio's cancel goes on to close a conversation without waiting for the
\* agent; listing the jobs does the same for one an earlier request left open
CloseConversation(j) ==
    /\ Alone
    /\ ConversationOpen(jobs[j])
    /\ SetRow(j, ConversationCancelled(jobs[j]))
    /\ UNCHANGED <<calls, faults, agentVars>>

\* a machine button is pressed: the handler reads the status
PickRead(j, m) ==
    /\ Alone
    /\ jobs[j].status = "waiting_for_machine"
    /\ <<m, j>> \in CanRun
    /\ Enter(NewCall("pick", j, m, "none"))
    /\ UNCHANGED <<jobs, faults, agentVars>>

\* and then assigns the machine, whatever the row holds by now
PickWrite(c) ==
    /\ c.op = "pick"
    /\ SetRow(c.job, Picked(jobs[c.job], c.by))
    /\ calls' = calls \ {c}
    /\ UNCHANGED <<faults, agentVars>>

-------------------------------------------------------------------------------
(* The passage of time and the gateway's cron *)

\* a lease runs out.  While its owner executes the job that takes a partition,
\* because the control poll renews it every few seconds
Lapse(j) ==
    /\ jobs[j].lease = "live"
    /\ jobs[j].status \in Leased
    /\ SetRow(j, Expired(jobs[j]))
    /\ IF \E m \in Machine :
             jobs[j].owner = m /\ work[m] = j /\ mode[m] = "up" /\ m \notin aborted
       THEN Fault
       ELSE UNCHANGED faults
    /\ UNCHANGED <<calls, agentVars>>

\* the cron runs luxy_expire_leases over the whole table
Sweep ==
    /\ Alone
    /\ jobs' = [j \in Job |-> Swept(jobs[j])]
    /\ jobs' # jobs
    /\ UNCHANGED <<calls, faults, agentVars>>

-------------------------------------------------------------------------------
(* An agent takes a job and runs it *)

\* the poll of an idle agent reaches luxy_claim_job
TakesJob(m, j) ==
    /\ Alone
    /\ mode[m] = "up"
    /\ work[m] = NoJob
    /\ <<m, j>> \in CanRun
    /\ Claimable(jobs[j], m)
    /\ SetRow(j, Claimed(jobs[j], m))

Claim(m, j) ==
    /\ TakesJob(m, j)
    /\ work' = [work EXCEPT ![m] = j]
    /\ UNCHANGED <<calls, mode, closing, aborted, outbox, evq, faults>>

\* the row is claimed but the answer never reaches the agent
ClaimLost(m, j) ==
    /\ TakesJob(m, j)
    /\ Fault
    /\ UNCHANGED <<calls, agentVars>>

\* runJob emits an event and the queue writes it to disk
Emit(m) ==
    /\ mode[m] # "down"
    /\ work[m] # NoJob
    /\ m \notin closing
    /\ work[m] \notin evq[m]
    /\ evq' = [evq EXCEPT ![m] = @ \cup {work[m]}]
    /\ UNCHANGED <<jobs, calls, mode, work, closing, aborted, outbox, faults>>

\* the run ends and its result goes to disk, in place of an earlier one
Finish(m, result) ==
    LET j == work[m] IN
    /\ mode[m] # "down"
    /\ j # NoJob
    /\ m \notin closing
    /\ result = "cancelled" => m \in aborted
    /\ outbox' = [outbox EXCEPT ![m][j] = result]
    /\ calls' = LetGo({c \in CallsOf(m) : /\ c.op = "outcome" /\ c.job = j
                                          /\ c.client = "waiting"}, "replaced")
    /\ closing' = closing \cup {m}
    /\ UNCHANGED <<jobs, mode, work, aborted, evq, faults>>

\* executeJob returns from the flush of its result, delivered or not, and
\* forgets the job's events
Close(m) ==
    LET j == work[m] IN
    /\ mode[m] # "down"
    /\ m \in closing
    /\ ~\E c \in CallsOf(m) :
            c.op = "outcome" /\ c.job = j /\ c.client = "waiting"
    /\ work' = [work EXCEPT ![m] = NoJob]
    /\ closing' = closing \ {m}
    /\ aborted' = aborted \ {m}
    /\ evq' = [evq EXCEPT ![m] = @ \ {j}]
    /\ calls' = LetGo({c \in CallsOf(m) : c.op = "control"}, "gone")
    /\ UNCHANGED <<jobs, mode, outbox, faults>>

-------------------------------------------------------------------------------
(* POST /api/jobs/:jobId/events *)

\* the batch is off the queue; while the job is active there may be more,
\* emitted since the batch was cut or beyond the fifty a request carries
Delivered(m, j) ==
    \/ evq' = [evq EXCEPT ![m] = @ \ {j}]
    \/ work[m] = j /\ UNCHANGED evq

SendsEvents(m, j) ==
    /\ mode[m] # "down"
    /\ j \in evq[m]
    /\ ~Busy(m, {"begin", "renew"})
    /\ jobs[j].owner = m

\* a late batch is acknowledged and dropped
EventsIgnored(m, j) ==
    /\ Alone
    /\ SendsEvents(m, j)
    /\ jobs[j].status \in Terminal
    /\ evq' = [evq EXCEPT ![m] = @ \ {j}]
    /\ UNCHANGED <<jobs, calls, mode, work, closing, aborted, outbox, faults>>

\* fault for mutation runs: takes the events of a job that ended
EventsReadAlways(m, j) ==
    /\ Alone
    /\ SendsEvents(m, j)
    /\ Enter(NewCall(IF jobs[j].started THEN "renew" ELSE "begin", j, m, "none"))
    /\ UNCHANGED <<jobs, faults, agentVars>>

\* the handler reads the row and appends the events
EventsRead(m, j) ==
    /\ Alone
    /\ SendsEvents(m, j)
    /\ jobs[j].status \notin Terminal
    /\ Enter(NewCall(IF jobs[j].started THEN "renew" ELSE "begin", j, m, "none"))
    /\ UNCHANGED <<jobs, faults, agentVars>>

\* the row it read had not started: the first event marks the start
EventsBegin(c) ==
    /\ c.op = "begin"
    /\ SetRow(c.job, Begun(jobs[c.job]))
    /\ calls' = (calls \ {c}) \cup {[c EXCEPT !.op = "renew"]}
    /\ UNCHANGED <<faults, agentVars>>

\* the lease is renewed in a statement of its own, and the handler answers
EventsRenew(c) ==
    /\ c.op = "renew"
    /\ SetRow(c.job, Renewed(jobs[c.job], c.by))
    /\ calls' = calls \ {c}
    /\ IF c.client = "waiting" THEN Delivered(c.by, c.job) ELSE UNCHANGED evq
    /\ UNCHANGED <<mode, work, closing, aborted, outbox, faults>>

-------------------------------------------------------------------------------
(* GET /api/jobs/:jobId/control, the agent's poll for a cancellation *)

Heard(m, say) == IF say = "cancel" THEN aborted \cup {m} ELSE aborted

SendsControl(m, j) ==
    /\ mode[m] = "up"
    /\ work[m] = j
    /\ m \notin aborted
    /\ ~Busy(m, {"control"})
    /\ jobs[j].owner = m

Seen(row) == IF row.cancel THEN "cancel" ELSE "go"

ControlRead(m, j) ==
    /\ Alone
    /\ SendsControl(m, j)
    /\ jobs[j].status \in {"claimed", "running"}
    /\ Enter(NewCall("control", j, m, Seen(jobs[j])))
    /\ UNCHANGED <<jobs, faults, agentVars>>

\* a job that ended is not renewed, but a cancellation is still reported
ControlOfEnded(m, j) ==
    /\ Alone
    /\ SendsControl(m, j)
    /\ jobs[j].status \notin {"claimed", "running"}
    /\ aborted' = Heard(m, Seen(jobs[j]))
    /\ aborted' # aborted
    /\ UNCHANGED <<jobs, calls, mode, work, closing, outbox, evq, faults>>

ControlRenew(c) ==
    /\ c.op = "control"
    /\ SetRow(c.job, Renewed(jobs[c.job], c.by))
    /\ calls' = calls \ {c}
    /\ aborted' = IF c.client = "waiting" THEN Heard(c.by, c.say) ELSE aborted
    /\ UNCHANGED <<mode, work, closing, outbox, evq, faults>>

-------------------------------------------------------------------------------
(* POST /api/jobs/:jobId/complete, fail and cancelled *)

Acknowledged(m, j) == outbox' = [outbox EXCEPT ![m][j] = "none"]

\* OutcomeQueue.flush sends one result at a time
SendsOutcome(m, j) ==
    /\ mode[m] # "down"
    /\ outbox[m][j] # "none"
    /\ ~Busy(m, {"outcome"})

OutcomeRepeated(m, j) ==
    /\ Alone
    /\ SendsOutcome(m, j)
    /\ AnswerTo(jobs[j], m, outbox[m][j]) = "duplicate"
    /\ Acknowledged(m, j)
    /\ UNCHANGED <<jobs, calls, mode, work, closing, aborted, evq, faults>>

OutcomeRead(m, j) ==
    /\ Alone
    /\ SendsOutcome(m, j)
    /\ AnswerTo(jobs[j], m, outbox[m][j]) = "proceed"
    /\ Enter(NewCall("outcome", j, m, outbox[m][j]))
    /\ UNCHANGED <<jobs, faults, agentVars>>

OutcomeWrite(c) ==
    /\ c.op = "outcome"
    /\ SetRow(c.job, Closed(jobs[c.job], c.say))
    /\ calls' = calls \ {c}
    /\ IF c.client = "waiting" THEN Acknowledged(c.by, c.job) ELSE UNCHANGED outbox
    /\ UNCHANGED <<mode, work, closing, aborted, evq, faults>>

-------------------------------------------------------------------------------
(* Faults *)

\* the client's 30 seconds are up, or the answer is lost on the way
GiveUp(c) ==
    /\ c.client # "gone"
    /\ c.op # "pick"
    /\ calls' = LetGo({c}, "gone")
    /\ Fault
    /\ UNCHANGED <<jobs, agentVars>>

\* a statement fails and the handler answers with an error
HandlerFails(c) ==
    /\ calls' = calls \ {c}
    /\ Fault
    /\ UNCHANGED <<jobs, agentVars>>

\* the user stops the agent: the running job is aborted
Stop(m) ==
    /\ mode[m] = "up"
    /\ mode' = [mode EXCEPT ![m] = "stopping"]
    /\ aborted' = IF work[m] = NoJob THEN aborted ELSE aborted \cup {m}
    /\ Fault
    /\ UNCHANGED <<jobs, calls, work, closing, outbox, evq>>

\* the stop comes while a claim is in flight: there is no job to abort yet,
\* and the claimed job then runs in an agent that is stopping
StopWhileClaiming(m, j) ==
    /\ TakesJob(m, j)
    /\ work' = [work EXCEPT ![m] = j]
    /\ mode' = [mode EXCEPT ![m] = "stopping"]
    /\ Fault
    /\ UNCHANGED <<calls, closing, aborted, outbox, evq>>

\* the process is gone; what it had on disk stays
Halt(m) ==
    /\ mode' = [mode EXCEPT ![m] = "down"]
    /\ work' = [work EXCEPT ![m] = NoJob]
    /\ closing' = closing \ {m}
    /\ aborted' = aborted \ {m}
    /\ calls' = LetGo(CallsOf(m), "gone")
    /\ UNCHANGED <<jobs, outbox, evq>>

Exit(m) == mode[m] = "stopping" /\ work[m] = NoJob /\ Halt(m) /\ UNCHANGED faults

Crash(m) == mode[m] # "down" /\ Halt(m) /\ Fault

\* both queues are read back from disk
Restart(m) ==
    /\ mode[m] = "down"
    /\ mode' = [mode EXCEPT ![m] = "up"]
    /\ UNCHANGED <<jobs, calls, work, closing, aborted, outbox, evq, faults>>

-------------------------------------------------------------------------------
Users ==
    \E j \in Job :
        \/ \E kind \in KindsInUse : Submit(j, kind)
        \/ RequestCancel(j)
        \/ CloseConversation(j)
        \/ \E m \in Machine : PickRead(j, m)

Handler(c) ==
    \/ PickWrite(c)
    \/ EventsBegin(c)
    \/ EventsRenew(c)
    \/ ControlRenew(c)
    \/ OutcomeWrite(c)

Agent(m) ==
    \/ Emit(m)
    \/ \E result \in Results : Finish(m, result)
    \/ Close(m)
    \/ \E j \in Job :
        \/ Claim(m, j)
        \/ EventsIgnored(m, j)
        \/ EventsRead(m, j)
        \/ ControlRead(m, j)
        \/ ControlOfEnded(m, j)
        \/ OutcomeRepeated(m, j)
        \/ OutcomeRead(m, j)

Faulty ==
    \/ \E c \in calls : GiveUp(c) \/ HandlerFails(c)
    \/ \E m \in Machine :
        \/ Stop(m)
        \/ Crash(m)
        \/ \E j \in Job : ClaimLost(m, j) \/ StopWhileClaiming(m, j)

Next ==
    \/ Users
    \/ Sweep
    \/ \E j \in Job : Lapse(j)
    \/ \E c \in calls : Handler(c)
    \/ \E m \in Machine : Agent(m) \/ Exit(m) \/ Restart(m)
    \/ Faulty

Spec == Init /\ [][Next]_vars

-------------------------------------------------------------------------------
(* Properties *)

\* No two machines ever execute the same job: claiming pins the machine
\* (luxy_claim_job), and a job that goes back to the queue keeps it.
OneExecutor ==
    \A m1, m2 \in Machine : work[m1] = work[m2] /\ work[m1] # NoJob => m1 = m2

\* Who does a job is settled once and for good: the jobs table and the agents
\* together implement the assignment of jobs to machines.
Promise == INSTANCE JobAssignment WITH
    Nobody <- NoMachine,
    holder <- [j \in Job |-> jobs[j].target],
    begun <- {j \in Job : jobs[j].started},
    runs <- work

Assignment == Promise!Spec

\* A run is aborted only for a cancellation of the very job it executes, or
\* because its agent is stopping: a late control answer never hits another job.
AbortIsForThisJob ==
    \A m \in aborted :
        mode[m] = "stopping" \/ (work[m] # NoJob /\ jobs[work[m]].cancel)

\* An agent drops a persisted result only when the gateway had recorded that
\* very result, or the user had the job cancelled (OutcomeQueue.flush).
ResultKept ==
    [][\A m \in Machine, j \in Job :
          outbox[m][j] # "none" /\ outbox'[m][j] = "none" =>
              \/ jobs'[j].status = outbox[m][j]
              \/ jobs'[j].status = "cancelled" /\ jobs'[j].cancel]_vars

\* handlers of job j that are still to write over the row they read
Writers(j, ops) == {c \in calls : c.job = j /\ c.op \in ops}

\* An end is undone only by a handler that read the row before it ended: when
\* none is left to begin the job or to assign it, it does not live again, and
\* when none has a result to write either, it stays as it ended.  Only
\* interrupted, the sweep's guess, gives way to a result read over it
\* (terminalResponse).
TerminalIsFinal ==
    [][\A j \in Job :
          /\ jobs[j].status \in Terminal /\ Writers(j, {"begin", "pick"}) = {} =>
                jobs'[j].status \in Terminal /\ Writers(j, {"begin", "pick"})' = {}
          /\ jobs[j].status \in Results /\ Writers(j, {"begin", "pick", "outcome"}) = {} =>
                /\ jobs'[j].status = jobs[j].status
                /\ Writers(j, {"begin", "pick", "outcome"})' = {}]_vars

\* the sweep can reach the row: if a machine holds it, it has an owner and a
\* lease that can lapse (luxy_expire_leases skips rows whose lease is null)
Reachable(row) == row.status \in Leased => row.owner # NoMachine /\ row.lease # "none"

\* The sweep loses a job only to a late event: when a handler read the row of a
\* held job that ended, or went back to the queue, before it marked the start.
Recoverable ==
    [][\A j \in Job :
          /\ Reachable(jobs[j])
          /\ jobs[j].status \in Leased \/ Writers(j, {"begin"}) = {}
          => Reachable(jobs'[j])]_vars

\* A job that started is never handed out again (luxy_expire_leases).
StartedStaysOut ==
    [][\A j \in Job : jobs[j].started =>
          jobs'[j].owner = jobs[j].owner /\ jobs'[j].status \notin Waiting]_vars

\* What the events handler says of itself: a late event does not take a job
\* that ended back to running.
LateEventKeepsEnd ==
    [][\A j \in Job : jobs[j].status \in Terminal => jobs'[j].status # "running"]_vars

\* Every submitted job ends, unless its cancellation was requested.
JobsEnd ==
    \A j \in Job : jobs[j].status # "absent" ~>
                       (jobs[j].status \in Terminal \/ jobs[j].cancel)

\* Every requested cancellation ends the job.
CancelEndsJob == \A j \in Job : jobs[j].cancel ~> jobs[j].status \in Terminal

-------------------------------------------------------------------------------
(***************************************************************************)
(* Fairness.  The loops of an agent (poll, flush, control) run every few    *)
(* seconds and the cron every minute, so whatever stays possible happens;   *)
(* a request that finds the database busy now and then is sent again, so    *)
(* it gets through (strong fairness).  Runs have timeouts, leases run out   *)
(* when nobody renews them, and a stopped agent is started again.  Nothing  *)
(* is assumed of the users.                                                 *)
(***************************************************************************)
Forgotten(j) ==
    /\ Lapse(j)
    /\ ~\E m \in Machine : jobs[j].owner = m /\ work[m] = j /\ mode[m] = "up"

Fairness ==
    /\ WF_vars(\E c \in calls : Handler(c))
    /\ SF_vars(Sweep)
    /\ \A j \in Job : WF_vars(Forgotten(j))
    /\ \A m \in Machine :
        /\ WF_vars(\E result \in Results : Finish(m, result))
        /\ WF_vars(Close(m))
        /\ WF_vars(Exit(m))
        /\ WF_vars(Restart(m))
        /\ SF_vars(\E j \in Job : Claim(m, j))
        /\ \A j \in Job : SF_vars(OutcomeRepeated(m, j) \/ OutcomeRead(m, j))

FairSpec == Spec /\ Fairness
===============================================================================
