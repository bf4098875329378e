------------------------------- MODULE Approvals -------------------------------
(***************************************************************************)
(* What becomes of a job's changes once the job is completed: the user      *)
(* orders a commit, a push or a discard from Studio or Telegram, the        *)
(* gateway keeps the order as a row of approvals, and the agent that owns   *)
(* the worktree lists the approved orders, carries each out and reports.    *)
(*                                                                         *)
(* A handler writes the approvals row and the jobs row in separate          *)
(* database requests; a handler between two of them is a member of presses, *)
(* completions or results, and anything may run in between.  The gateway    *)
(* may die at any of those points.                                          *)
(*                                                                         *)
(* The agent keeps what it has carried out in memory only.                  *)
(***************************************************************************)
EXTENDS Naturals, Sequences, FiniteSets

CONSTANTS
    Job,         \* completed jobs whose changes are kept in a worktree
    StudioJob,   \* those created from Studio; the others come from Telegram
    Machine,     \* machines, each running one agent
    Owner,       \* claimed_by of each job
    Forbidden,   \* <<j, a>>: the project of j does not allow action a
    Offered,     \* <<j, a>>: the users have a button for action a on j
    PageSize,    \* how many approved orders the list query returns
    MaxPresses,  \* bound: times the users press a button
    MaxFaults    \* bound: crashes, lost handlers, lost answers, late results
                 \* and sweeps

Actions == {"commit", "push", "discard"}

ASSUME JobsAssumption == StudioJob \subseteq Job /\ Owner \in [Job -> Machine]
ASSUME ForbiddenAssumption == Forbidden \subseteq Job \X Actions
ASSUME OfferedAssumption ==
    /\ Offered \subseteq Job \X Actions
    /\ \A j \in StudioJob : <<j, "push">> \notin Offered
ASSUME PageAssumption == PageSize \in Nat \ {0}
ASSUME LimitsAssumption == MaxPresses \in Nat /\ MaxFaults \in Nat

VARIABLES
    orders,       \* the approvals table, in the order of requested_at
    status,       \* of each job's row
    decision,     \* metadata.studioDecision.state of each job's row
    presses,      \* handlers of a pressed button
    completions,  \* handlers of an agent's report on an order
    results,      \* handlers of a repeated report of the job's own result
    page,         \* the listed orders that each agent has not dealt with
    outcome,      \* approvalOutcomes of each agent
    consumed,     \* the consumed set of each agent
    worktree,     \* of each job: with changes, committed or removed
    past,         \* history: what has happened to each order
    faults        \* how many faults the environment has spent

rowVars == <<orders, status, decision>>
handlerVars == <<presses, completions, results>>
agentVars == <<page, outcome, consumed, worktree>>
vars == <<rowVars, handlerVars, agentVars, past, faults>>

Order == 1..MaxPresses   \* a press creates at most one order

OrderRow == [ job : Job, action : Actions,
              status : {"pending", "approved", "expired", "rejected"} ]

\* order is 0 until the handler has created its row
PressHandler ==
    [ step : {"create", "resolve", "note", "wait", "ended"}, job : Job,
      action : Actions, order : Order \cup {0} ]

\* sent tells one report from the repetition of it
CompletionHandler ==
    [ step : {"read", "note", "restore", "consume"}, order : Order,
      ok : BOOLEAN, client : {"waiting", "gone"}, sent : 0..MaxFaults ]

Decisions == {"none", "pending", "applied", "discarded", "failed"}

(***************************************************************************)
(* runs: how often git was asked to carry the order out; done: git did it;  *)
(* crashed: the agent died after that and before the row was settled;       *)
(* unlisted: a later list did not show the order, and its outcome went;     *)
(* raced: it was reported before its own press had finished, or a repeated  *)
(* result has rewritten the job's row.                                      *)
(***************************************************************************)
Past == [ runs : Nat, done : BOOLEAN, crashed : BOOLEAN,
          unlisted : BOOLEAN, raced : BOOLEAN ]

TypeOK ==
    /\ orders \in Seq(OrderRow) /\ Len(orders) <= MaxPresses
    /\ status \in [Job -> {"completed", "waiting_for_approval", "interrupted"}]
    /\ decision \in [Job -> Decisions]
    /\ presses \in Seq(PressHandler) /\ Len(presses) <= MaxPresses
    /\ completions \subseteq CompletionHandler
    /\ results \subseteq [job : Job, decision : Decisions]
    /\ page \in [Machine -> SUBSET Order]
    /\ outcome \in [Machine -> [Order -> {"none", "ok", "failed"}]]
    /\ consumed \in [Machine -> SUBSET Order]
    /\ worktree \in [Job -> {"dirty", "committed", "gone"}]
    /\ past \in [Order -> Past]
    /\ faults \in 0..MaxFaults

\* a report of a job's result that the agent repeated may still be in flight,
\* with the row it read before the job was completed
Init ==
    /\ orders = <<>>
    /\ status = [j \in Job |-> "completed"]
    /\ decision = [j \in Job |-> "none"]
    /\ presses = <<>>
    /\ completions = {}
    /\ results \in {{}} \cup {{[job |-> j, decision |-> "none"]} : j \in Job}
    /\ page = [m \in Machine |-> {}]
    /\ outcome = [m \in Machine |-> [o \in Order |-> "none"]]
    /\ consumed = [m \in Machine |-> {}]
    /\ worktree = [j \in Job |-> "dirty"]
    /\ past = [o \in Order |-> [ runs |-> 0, done |-> FALSE, crashed |-> FALSE,
                                 unlisted |-> FALSE, raced |-> FALSE ]]
    /\ faults = Cardinality(results) /\ faults <= MaxFaults

-------------------------------------------------------------------------------
(* Helpers *)

Fault == faults < MaxFaults /\ faults' = faults + 1

SetStatus(o, s) == orders' = [orders EXCEPT ![o].status = s]

Open(o) == orders[o].status = "approved"

Settled(o) == orders[o].status \in {"expired", "rejected"}

JobOf(o) == orders[o].job

Holder(o) == Owner[JobOf(o)]

Mine(m) == {o \in DOMAIN orders : Holder(o) = m}

-------------------------------------------------------------------------------
(* A pressed button: handleStudioJobAction, handleApprovalRequest and        *)
(* handlePushConfirm                                                         *)

Entered(j, a) ==
    /\ Len(presses) < MaxPresses
    /\ presses' = Append(presses,
                         [step |-> "create", job |-> j, action |-> a, order |-> 0])

Advance(p, step) == presses' = [presses EXCEPT ![p].step = step]

\* the row is ready and has no decision that stands
StudioAllows(j) ==
    /\ status[j] = "completed"
    /\ decision[j] \notin {"pending", "applied", "discarded"}

StudioPress(j, a) ==
    /\ j \in StudioJob
    /\ StudioAllows(j)
    /\ Entered(j, a)
    /\ UNCHANGED <<rowVars, completions, results, agentVars, past, faults>>

\* the Telegram buttons look only for the job; a push has been confirmed twice
TelegramPress(j, a) ==
    /\ j \notin StudioJob
    /\ Entered(j, a)
    /\ UNCHANGED <<rowVars, completions, results, agentVars, past, faults>>

\* createApproval
CreateOrder(p) ==
    LET h == presses[p] IN
    /\ h.step = "create"
    /\ orders' = Append(orders, [job |-> h.job, action |-> h.action, status |-> "pending"])
    /\ presses' = [presses EXCEPT ![p].step = "resolve", ![p].order = Len(orders')]
    /\ UNCHANGED <<status, decision, completions, results, agentVars, past, faults>>

\* resolveApproval: from here on the agent may list the order
ApproveOrder(p) ==
    LET h == presses[p] IN
    /\ h.step = "resolve"
    /\ SetStatus(h.order, "approved")
    /\ Advance(p, IF h.job \in StudioJob THEN "note" ELSE "wait")
    /\ UNCHANGED <<status, decision, completions, results, agentVars, past, faults>>

\* mergeJobMetadata
NoteDecision(p) ==
    LET h == presses[p] IN
    /\ h.step = "note"
    /\ decision' = [decision EXCEPT ![h.job] = "pending"]
    /\ Advance(p, "wait")
    /\ UNCHANGED <<orders, status, completions, results, agentVars, past, faults>>

\* updateJob
AwaitApproval(p) ==
    LET h == presses[p] IN
    /\ h.step = "wait"
    /\ status' = [status EXCEPT ![h.job] = "waiting_for_approval"]
    /\ Advance(p, "ended")
    /\ UNCHANGED <<orders, decision, completions, results, agentVars, past, faults>>

PressStep(p) ==
    CreateOrder(p) \/ ApproveOrder(p) \/ NoteDecision(p) \/ AwaitApproval(p)

-------------------------------------------------------------------------------
(* The agent: approvalLoop and executeApproval *)

\* the query: the approved orders of everybody, oldest first, up to a limit
Listed ==
    LET older(o) == {q \in DOMAIN orders : Open(q) /\ q < o}
    IN {o \in DOMAIN orders : Open(o) /\ Cardinality(older(o)) < PageSize}

\* listPendingApprovals; outcomes of orders not shown any more are forgotten
List(m) ==
    LET shown     == Listed \cap Mine(m)
        forgotten == {o \in Order \ shown : outcome[m][o] # "none"}
    IN /\ page[m] = {}
       /\ page' = [page EXCEPT ![m] = shown]
       /\ outcome' = [outcome EXCEPT ![m] = [o \in Order |->
                          IF o \in forgotten THEN "none" ELSE @[o]]]
       /\ past' = [o \in Order |->
                      IF o \in forgotten /\ Open(o) THEN [past[o] EXCEPT !.unlisted = TRUE]
                      ELSE past[o]]
       /\ UNCHANGED <<rowVars, handlerVars, consumed, worktree, faults>>

\* fault for mutation runs: a consumed order passes the gates again
DeniedByPolicy(m, o) == <<JobOf(o), orders[o].action>> \in Forbidden

\* checkApprovalGates
Denied(m, o) ==
    \/ <<JobOf(o), orders[o].action>> \in Forbidden
    \/ o \in consumed[m]

\* what git can do: a commit needs changes, and everything needs the worktree
Feasible(o) ==
    /\ worktree[JobOf(o)] # "gone"
    /\ orders[o].action = "commit" => worktree[JobOf(o)] = "dirty"

AfterGit(o) ==
    CASE orders[o].action = "commit"  -> "committed"
      [] orders[o].action = "push"    -> worktree[JobOf(o)]
      [] orders[o].action = "discard" -> "gone"

\* the loop takes the listed orders oldest first
Due(m, o) == o \in page[m] /\ \A q \in page[m] : o <= q

Remember(m, o, result) == outcome' = [outcome EXCEPT ![m][o] = result]

\* executeApproval stops at a gate
Refuse(m, o) ==
    /\ Due(m, o) /\ outcome[m][o] = "none"
    /\ Denied(m, o)
    /\ Remember(m, o, "failed")
    /\ UNCHANGED <<rowVars, handlerVars, page, consumed, worktree, past, faults>>

\* executeApproval asks git, which may fail even when the action is feasible
CarryOut(m, o) ==
    /\ Due(m, o) /\ outcome[m][o] = "none"
    /\ ~Denied(m, o)
    /\ \E ok \in {Feasible(o), FALSE} :
          /\ worktree' = IF ok THEN [worktree EXCEPT ![JobOf(o)] = AfterGit(o)]
                         ELSE worktree
          /\ past' = [past EXCEPT ![o].runs = @ + 1, ![o].done = @ \/ ok]
          /\ Remember(m, o, IF ok THEN "ok" ELSE "failed")
    /\ consumed' = [consumed EXCEPT ![m] = @ \cup {o}]
    /\ UNCHANGED <<rowVars, handlerVars, page, faults>>

Reporting(m) ==
    {c \in completions : Holder(c.order) = m /\ c.client = "waiting"}

\* completeApproval is called with the outcome that was kept
Report(m, o) ==
    /\ Due(m, o) /\ outcome[m][o] # "none"
    /\ Reporting(m) = {}
    /\ completions' = completions \cup
          {[ step |-> "read", order |-> o, ok |-> outcome[m][o] = "ok",
             client |-> "waiting", sent |-> faults ]}
    /\ UNCHANGED <<rowVars, presses, results, agentVars, past, faults>>

AgentStep(m) ==
    List(m) \/ \E o \in Order : Refuse(m, o) \/ CarryOut(m, o) \/ Report(m, o)

\* fault for mutation runs: forgets the outcome whether or not it was reported
ForgottenAfterFailure(m, o) == "none"

\* the outcome stays for the next list
KeptAfterFailure(m, o) == outcome[m][o]

\* the call fails and the next order follows; its handler goes on or dies too
GiveUp(m) ==
    \E c \in Reporting(m) :
       /\ Fault
       /\ completions' \in { completions \ {c},
                             (completions \ {c}) \cup {[c EXCEPT !.client = "gone"]} }
       /\ Remember(m, c.order, KeptAfterFailure(m, c.order))
       /\ page' = [page EXCEPT ![m] = @ \ {c.order}]
       /\ UNCHANGED <<rowVars, presses, results, consumed, worktree, past>>

\* the process dies with what it remembers, wherever it is, and starts again
Restart(m) ==
    /\ Fault
    /\ page' = [page EXCEPT ![m] = {}]
    /\ outcome' = [outcome EXCEPT ![m] = [o \in Order |-> "none"]]
    /\ consumed' = [consumed EXCEPT ![m] = {}]
    /\ completions' = {IF c \in Reporting(m) THEN [c EXCEPT !.client = "gone"] ELSE c :
                          c \in completions}
    /\ past' = [o \in Order |-> IF o \in consumed[m] /\ ~Settled(o)
                                THEN [past[o] EXCEPT !.crashed = TRUE] ELSE past[o]]
    /\ UNCHANGED <<rowVars, presses, results, worktree>>

-------------------------------------------------------------------------------
(* handleApprovalComplete *)

CompletionTo(c, step) ==
    completions' = (completions \ {c}) \cup {[c EXCEPT !.step = step]}

\* the last answer: an agent that still waits for it goes on
Answer(c) ==
    LET m == Holder(c.order) IN
    /\ completions' = completions \ {c}
    /\ IF c.client = "waiting"
       THEN /\ Remember(m, c.order, "none")
            /\ page' = [page EXCEPT ![m] = @ \ {c.order}]
       ELSE UNCHANGED <<outcome, page>>

\* getApproval: an order settled before is answered as a repetition
AnswerRepeated(c) ==
    /\ c.step = "read"
    /\ Settled(c.order)
    /\ Answer(c)
    /\ UNCHANGED <<rowVars, presses, results, consumed, worktree, past, faults>>

Unfinished(o) ==
    \E p \in DOMAIN presses : presses[p].order = o /\ presses[p].step # "ended"

AcceptReport(c) ==
    /\ c.step = "read"
    /\ Open(c.order)
    /\ CompletionTo(c, IF JobOf(c.order) \in StudioJob THEN "note" ELSE "restore")
    /\ past' = [past EXCEPT ![c.order].raced = @ \/ Unfinished(c.order)]
    /\ UNCHANGED <<rowVars, presses, results, agentVars, faults>>

\* fault for mutation runs: a discard is reported like a commit
VerdictAlike(o, ok) == IF ok THEN "applied" ELSE "failed"

\* fault for mutation runs: the words of the row instead of Studio's
VerdictAsRow(o, ok) == IF ok THEN "expired" ELSE "rejected"

\* what Studio is told of an order
Verdict(o, ok) ==
    IF ~ok THEN "failed"
    ELSE IF orders[o].action = "discard" THEN "discarded" ELSE "applied"

\* mergeJobMetadata
NoteVerdict(c) ==
    /\ c.step = "note"
    /\ decision' = [decision EXCEPT ![JobOf(c.order)] = Verdict(c.order, c.ok)]
    /\ CompletionTo(c, "restore")
    /\ UNCHANGED <<orders, status, presses, results, agentVars, past, faults>>

\* fault for mutation runs: gives the job back only if it still waits
RestoredIfWaiting(c) ==
    IF status[JobOf(c.order)] = "waiting_for_approval" THEN "completed"
    ELSE status[JobOf(c.order)]

\* updateJob writes this whatever the status is by now
Restored(c) == "completed"

RestoreJob(c) ==
    /\ c.step = "restore"
    /\ status' = [status EXCEPT ![JobOf(c.order)] = Restored(c)]
    /\ CompletionTo(c, "consume")
    /\ UNCHANGED <<orders, decision, presses, results, agentVars, past, faults>>

\* fault for mutation runs: looks for an order nobody has approved yet
ConsumedIfPending(o, ok) ==
    IF orders[o].status = "pending"
    THEN SetStatus(o, IF ok THEN "expired" ELSE "rejected")
    ELSE UNCHANGED orders

\* completeApproval settles the row unless another report has
Consumed(o, ok) ==
    IF Open(o) THEN SetStatus(o, IF ok THEN "expired" ELSE "rejected")
    ELSE UNCHANGED orders

Consume(c) ==
    /\ c.step = "consume"
    /\ Consumed(c.order, c.ok)
    /\ Answer(c)
    /\ UNCHANGED <<status, decision, presses, results, consumed, worktree, past, faults>>

CompletionStep(o) ==
    \E c \in completions :
       /\ c.order = o
       /\ \/ AnswerRepeated(c) \/ AcceptReport(c) \/ NoteVerdict(c)
          \/ RestoreJob(c)     \/ Consume(c)

-------------------------------------------------------------------------------
(* The events of an order, and the sweep *)

\* luxy_expire_leases.  The event that an executed order emits is flushed in the
\* background; if it finds the job waiting, for this order or for a later one,
\* it gives the row a lease that nothing renews and no report of an order takes
\* away; when it has run out is left open
Sweep(j) ==
    /\ Fault
    /\ status[j] = "waiting_for_approval"
    /\ \E o \in DOMAIN orders : JobOf(o) = j /\ past[o].runs > 0
    /\ status' = [status EXCEPT ![j] = "interrupted"]
    /\ UNCHANGED <<orders, decision, handlerVars, agentVars, past>>

-------------------------------------------------------------------------------
(* handleJobComplete, when the agent repeats a result it had delivered *)

\* the row says waiting_for_approval, or interrupted since the sweep: neither is
\* taken for a repetition
RepeatResult(j) ==
    /\ Fault
    /\ status[j] # "completed"
    /\ results' = results \cup {[job |-> j, decision |-> decision[j]]}
    /\ UNCHANGED <<rowVars, presses, completions, agentVars, past>>

\* the whole metadata goes back as it was read
WriteResult(r) ==
    /\ r \in results
    /\ results' = results \ {r}
    /\ status' = [status EXCEPT ![r.job] = "completed"]
    /\ decision' = [decision EXCEPT ![r.job] = r.decision]
    /\ past' = [o \in Order |->
                  IF o \in DOMAIN orders /\ JobOf(o) = r.job
                  THEN [past[o] EXCEPT !.raced = TRUE] ELSE past[o]]
    /\ UNCHANGED <<orders, presses, completions, agentVars, faults>>

\* the gateway dies in the middle of a press
LosePress(p) ==
    /\ Fault
    /\ presses[p].step # "ended"
    /\ Advance(p, "ended")
    /\ UNCHANGED <<rowVars, completions, results, agentVars, past>>

-------------------------------------------------------------------------------
Next ==
    \/ \E b \in Offered : StudioPress(b[1], b[2]) \/ TelegramPress(b[1], b[2])
    \/ \E p \in DOMAIN presses : PressStep(p) \/ LosePress(p)
    \/ \E m \in Machine : AgentStep(m) \/ GiveUp(m) \/ Restart(m)
    \/ \E o \in DOMAIN orders : CompletionStep(o)
    \/ \E j \in Job : RepeatResult(j) \/ Sweep(j)
    \/ \E r \in results : WriteResult(r)

(***************************************************************************)
(* A handler that is not lost runs to its end, and an agent that runs polls *)
(* every five seconds.  An agent that dies for good is not fair; the         *)
(* liveness property is about machines whose agent is started again.         *)
(***************************************************************************)
Fairness ==
    /\ WF_vars(\E p \in DOMAIN presses : PressStep(p))
    /\ WF_vars(\E o \in DOMAIN orders : CompletionStep(o))
    /\ \A m \in Machine : WF_vars(AgentStep(m))

Spec == Init /\ [][Next]_vars
FairSpec == Spec /\ Fairness

-------------------------------------------------------------------------------
(* Properties *)

\* An order is handed to git once ("una aprobacion vale UNA vez", the consumed
\* set of approvals.ts), whatever becomes of the report, of the list and of the
\* outcomes kept; only a process that dies before the row is settled forgets
\* it, and then a push may go out twice.
OnceUnlessCrashed ==
    \A o \in Order : past[o].runs > 1 => past[o].crashed

\* The row of an order ends with what git did: expired if the action was done,
\* rejected only if it was not.  Two things break the second half, and nothing
\* else: a crash of the agent, or a list so full that it hides an order whose
\* outcome was still to be reported (repository.ts asks for 20 rows of any
\* machine; agent.ts drops the outcomes it does not see).
VerdictIsTrue ==
    \A o \in DOMAIN orders :
       /\ orders[o].status = "expired" => past[o].done
       /\ orders[o].status = "rejected" /\ past[o].done
             => past[o].crashed \/ past[o].unlisted

\* A completed job that waits for an approval, that the sweep took for one whose
\* machine is gone, or whose decision is pending, has an approved order that the
\* agent will still see: the completion handler gives the job back, whatever it
\* has become, before it settles the row, so that dying in between is repaired by
\* the next report.  The exceptions are the orders that were raced.
NoJobLeftWaiting ==
    \A j \in Job :
       status[j] # "completed" \/ decision[j] = "pending" =>
          \E o \in DOMAIN orders : JobOf(o) = j /\ (Open(o) \/ past[o].raced)

\* What Studio shows of a job with one order is what was done with its
\* worktree, through lost and repeated reports.
StudioIsToldTheTruth ==
    \A o \in DOMAIN orders :
       ( /\ JobOf(o) \in StudioJob /\ Settled(o)
         /\ \A q \in DOMAIN orders : JobOf(q) = JobOf(o) => q = o
         /\ ~past[o].raced /\ ~past[o].crashed /\ ~past[o].unlisted )
       => decision[JobOf(o)] =
             CASE ~past[o].done                                      -> "failed"
               [] past[o].done /\ worktree[JobOf(o)] = "committed"   -> "applied"
               [] past[o].done /\ worktree[JobOf(o)] = "gone"        -> "discarded"

\* Every approved order is settled in the end, though calls fail, handlers die
\* and the agent restarts, also behind other orders in a list with a limit.
OrdersAreServed ==
    \A o \in Order :
       (o \in DOMAIN orders /\ Open(o)) ~> (o \in DOMAIN orders /\ Settled(o))
===============================================================================
