------------------------------- MODULE JobTable -------------------------------
(***************************************************************************)
(* The jobs table of the gateway: what one row holds and what each         *)
(* database statement does to it.  The statements are the functions of     *)
(* supabase/migrations (luxy_claim_job, luxy_renew_lease,                   *)
(* luxy_expire_leases, luxy_request_cancel) and the row updates of          *)
(* apps/gateway/src/repository.ts.  The module has no variables: each       *)
(* operator says when a statement matches a row and what the row becomes,   *)
(* and JobLifecycle decides who issues it and when.                         *)
(***************************************************************************)
CONSTANTS
    Job,         \* identifiers of jobs
    Machine,     \* registered machines, each running one agent
    NoMachine,   \* the SQL null of target_machine_id and claimed_by
    CanRun       \* <<m, j>>: m is enabled and offers j's provider and project

ASSUME NoMachineAssumption == NoMachine \notin Machine
ASSUME CanRunAssumption == CanRun \subseteq Machine \X Job

(***************************************************************************)
(* How a job came to exist: Studio pins the machine; a Telegram request is  *)
(* queued with or without one; or it waits for the user to choose.          *)
(***************************************************************************)
Kinds == {"studio", "conversation", "telegram", "choice"}

Results == {"completed", "failed", "cancelled"}
Terminal == Results \cup {"interrupted"}
Waiting == {"queued", "waiting_for_machine"}
Leased == {"claimed", "running", "waiting_for_approval"}
Status == {"absent"} \cup Waiting \cup Leased \cup Terminal

(***************************************************************************)
(* Only what the statements compare is kept.  A lease is a deadline: it is  *)
(* null, ahead of now(), or behind it.  "absent" is a row not inserted yet. *)
(***************************************************************************)
Row == [ kind    : Kinds \cup {"none"},
         status  : Status,
         target  : Machine \cup {NoMachine},
         owner   : Machine \cup {NoMachine},
         lease   : {"none", "live", "lapsed"},
         cancel  : BOOLEAN,
         started : BOOLEAN ]

NewRow(kind, status, target) ==
    [ kind |-> kind, status |-> status, target |-> target, owner |-> NoMachine,
      lease |-> "none", cancel |-> FALSE, started |-> FALSE ]

Absent == NewRow("none", "absent", NoMachine)

-------------------------------------------------------------------------------
(* luxy_claim_job *)

\* fault for mutation runs: forgets to ask whether the job started
AbandonedAnyhow(row) ==
    row.status \in {"claimed", "running"} /\ row.lease = "lapsed"

\* the machine died or never answered before it reported anything
AbandonedUnstarted(row) ==
    row.status = "claimed" /\ ~row.started /\ row.lease = "lapsed"

Claimable(row, m) ==
    /\ ~row.cancel
    /\ row.target \in {NoMachine, m}
    /\ row.status \in Waiting \/ AbandonedUnstarted(row)

\* fault for mutation runs: takes the job without pinning it
ClaimedUnpinned(row, m) ==
    [row EXCEPT !.status = "claimed", !.owner = m, !.lease = "live"]

Claimed(row, m) ==
    [row EXCEPT !.status = "claimed", !.owner = m, !.target = m, !.lease = "live"]

-------------------------------------------------------------------------------
(* luxy_renew_lease, luxy_expire_leases *)

Renewed(row, m) ==
    IF row.owner = m /\ row.status \in Leased
    THEN [row EXCEPT !.lease = "live"]
    ELSE row

\* now() has passed the row's deadline
Expired(row) == [row EXCEPT !.lease = "lapsed"]

Stalled(row) ==
    row.status \in Leased /\ row.started /\ row.lease = "lapsed"

\* faults for mutation runs: gives the pinned job to anybody; lets go of the
\* owner and leaves the status
RequeuedForAll(row) ==
    [row EXCEPT !.status = "queued", !.owner = NoMachine, !.lease = "none",
                !.target = NoMachine]
RequeuedInPlace(row) == [row EXCEPT !.owner = NoMachine, !.lease = "none"]

Requeued(row) ==
    [row EXCEPT !.status = "queued", !.owner = NoMachine, !.lease = "none"]

\* faults for mutation runs: leaves jobs that started alone; gives them a
\* status the enum does not have
SweptUnstarted(row) == IF AbandonedUnstarted(row) THEN Requeued(row) ELSE row
SweptExpired(row) ==
    IF Stalled(row) THEN [row EXCEPT !.status = "expired"] ELSE SweptUnstarted(row)

Swept(row) ==
    IF AbandonedUnstarted(row) THEN Requeued(row)
    ELSE IF Stalled(row) THEN [row EXCEPT !.status = "interrupted"]
    ELSE row

-------------------------------------------------------------------------------
(* luxy_request_cancel and finishConversationCancellation *)

Cancellable(row) == row.status \notin Terminal \cup {"absent"}

CancelAsked(row) ==
    [row EXCEPT !.cancel = TRUE,
                !.status = IF @ \in Waiting THEN "cancelled" ELSE @]

ConversationOpen(row) ==
    /\ row.kind = "conversation"
    /\ row.cancel
    /\ row.status \in Waiting \cup {"claimed", "running"}

ConversationCancelled(row) ==
    [row EXCEPT !.status = "cancelled", !.lease = "none"]

-------------------------------------------------------------------------------
(* updateJob, as the agent's handlers and the machine buttons use it *)

Begun(row) == [row EXCEPT !.status = "running", !.started = TRUE]

Closed(row, result) == [row EXCEPT !.status = result, !.lease = "none"]

Picked(row, m) == [row EXCEPT !.target = m, !.status = "queued"]

\* fault for mutation runs: takes any earlier result for a repetition
AnswerToAny(row, m, result) ==
    IF row.owner # m THEN "forbidden"
    ELSE IF row.status \in Results THEN "duplicate" ELSE "proceed"

(***************************************************************************)
(* What the complete, fail and cancelled handlers answer machine m that     *)
(* reports result, from the row they read.                                  *)
(***************************************************************************)
AnswerTo(row, m, result) ==
    IF row.owner # m THEN "forbidden"
    ELSE IF row.status = result \/ (row.status = "cancelled" /\ row.cancel)
         THEN "duplicate"
    ELSE IF row.status \in Results THEN "conflict"
    ELSE "proceed"
===============================================================================
