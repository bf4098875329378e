-------------------------- MODULE JobLifecycleProofs --------------------------
(***************************************************************************)
(* Proofs about JobLifecycle for any jobs, machines and bounds, and for     *)
(* handlers that interleave freely.  They cover every way of submitting a   *)
(* job except the machine buttons of Telegram: the unconditional write of   *)
(* PickWrite does break what is proved here (run job_pick_race).            *)
(***************************************************************************)
EXTENDS JobLifecycle, TLAPS

NoChoice == "choice" \notin KindsInUse

-------------------------------------------------------------------------------
(* The statements keep the shape of a row. *)

LEMMA RowsStayRows ==
    ASSUME NEW row \in Row
    PROVE  /\ Swept(row) \in Row
           /\ CancelAsked(row) \in Row
           /\ ConversationCancelled(row) \in Row
           /\ Begun(row) \in Row
           /\ Expired(row) \in Row
<1>1. Swept(row) \in Row
  BY DEF Row, Swept, Requeued, Status, Waiting, Terminal
<1>2. CancelAsked(row) \in Row
  BY DEF Row, CancelAsked, Status, Terminal, Results
<1>3. ConversationCancelled(row) \in Row
  BY DEF Row, ConversationCancelled, Status, Terminal, Results
<1>4. Begun(row) \in Row
  BY DEF Row, Begun, Status, Leased
<1>5. Expired(row) \in Row
  BY DEF Row, Expired
<1> QED
  BY <1>1, <1>2, <1>3, <1>4, <1>5

LEMMA MachineRowsStayRows ==
    ASSUME NEW row \in Row, NEW m \in Machine
    PROVE  /\ Claimed(row, m) \in Row
           /\ Renewed(row, m) \in Row
           /\ Picked(row, m) \in Row
<1>1. Claimed(row, m) \in Row
  BY DEF Row, Claimed, Status, Leased
<1>2. Renewed(row, m) \in Row
  BY DEF Row, Renewed
<1>3. Picked(row, m) \in Row
  BY DEF Row, Picked, Status, Waiting
<1> QED
  BY <1>1, <1>2, <1>3

LEMMA ClosedRowsAreRows ==
    ASSUME NEW row \in Row, NEW result \in Results
    PROVE  Closed(row, result) \in Row
  BY DEF Row, Closed, Status, Terminal

\* An inserted row is a row, and so is the absence of one.
LEMMA NewRowsAreRows ==
    /\ \A kind \in Kinds, status \in Status, t \in Machine \cup {NoMachine} :
          NewRow(kind, status, t) \in Row
    /\ Absent \in Row
  BY DEF Row, NewRow, Absent, Status

\* A statement that writes a row leaves a table of rows.
LEMMA TableOfRows ==
    ASSUME jobs \in [Job -> Row], NEW j \in Job, NEW row \in Row, SetRow(j, row)
    PROVE  jobs' \in [Job -> Row]
  BY DEF SetRow

\* Giving up on handlers leaves a set of handlers.
LEMMA LetGoCalls ==
    ASSUME calls \subseteq Call, NEW set, NEW fate \in {"replaced", "gone"}
    PROVE  LetGo(set, fate) \subseteq Call
  BY DEF LetGo, Call

-------------------------------------------------------------------------------
(* Type correctness *)

LEMMA TypeInit == Init => TypeOK
  BY NewRowsAreRows DEF Init, TypeOK

\* The users' actions and the passage of time write rows and enter handlers.
LEMMA TypeOfUsersAndTime ==
    ASSUME TypeOK, Users \/ Sweep \/ \E j \in Job : Lapse(j)
    PROVE  TypeOK'
<1> USE DEF TypeOK
<1>1. ASSUME NEW j \in Job, NEW kind \in KindsInUse, Submit(j, kind)
      PROVE  TypeOK'
  <2>1. kind \in Kinds
    BY KindsAssumption
  <2>2. PICK t \in Machine \cup {NoMachine}, status \in Status :
            SetRow(j, NewRow(kind, status, t))
    BY <1>1 DEF Submit, Status, Waiting
  <2>3. NewRow(kind, status, t) \in Row
    BY <2>1, NewRowsAreRows
  <2>4. jobs' \in [Job -> Row]
    BY <2>2, <2>3, TableOfRows
  <2> QED
    BY <1>1, <2>4 DEF Submit, agentVars
<1>2. ASSUME NEW j \in Job, RequestCancel(j)
      PROVE  TypeOK'
  <2>1. jobs' \in [Job -> Row]
    BY <1>2, RowsStayRows, TableOfRows DEF RequestCancel
  <2> QED
    BY <1>2, <2>1 DEF RequestCancel, agentVars
<1>3. ASSUME NEW j \in Job, CloseConversation(j)
      PROVE  TypeOK'
  <2>1. jobs' \in [Job -> Row]
    BY <1>3, RowsStayRows, TableOfRows DEF CloseConversation
  <2> QED
    BY <1>3, <2>1 DEF CloseConversation, agentVars
<1>4. ASSUME NEW j \in Job, NEW m \in Machine, PickRead(j, m)
      PROVE  TypeOK'
  BY <1>4 DEF PickRead, Enter, NewCall, Call, agentVars
<1>5. ASSUME Sweep
      PROVE  TypeOK'
  <2>1. \A j \in Job : Swept(jobs[j]) \in Row
    BY RowsStayRows
  <2> QED
    BY <1>5, <2>1 DEF Sweep, agentVars
<1>6. ASSUME NEW j \in Job, Lapse(j)
      PROVE  TypeOK'
  <2>1. jobs' \in [Job -> Row]
    BY <1>6, RowsStayRows, TableOfRows DEF Lapse
  <2> QED
    BY <1>6, <2>1 DEF Lapse, Fault, agentVars
<1> QED
  BY <1>1, <1>2, <1>3, <1>4, <1>5, <1>6 DEF Users

\* The second step of every handler.
LEMMA TypeOfHandlers ==
    ASSUME TypeOK, NEW c \in calls, Handler(c)
    PROVE  TypeOK'
<1> USE DEF TypeOK
<1>1. /\ c \in Call
      /\ c.job \in Job
      /\ c.by \in Machine
      /\ jobs[c.job] \in Row
      /\ c.op = "outcome" => c.say \in Results
  BY DEF Call
<1>2. calls \ {c} \subseteq Call
  OBVIOUS
<1>3. CASE PickWrite(c)
  <2>1. jobs' \in [Job -> Row]
    BY <1>1, <1>3, MachineRowsStayRows, TableOfRows DEF PickWrite
  <2> QED
    BY <1>3, <2>1 DEF PickWrite, agentVars
<1>4. CASE EventsBegin(c)
  <2>1. jobs' \in [Job -> Row]
    BY <1>1, <1>4, RowsStayRows, TableOfRows DEF EventsBegin
  <2>2. [c EXCEPT !.op = "renew"] \in Call
    BY <1>1 DEF Call
  <2>3. calls' \subseteq Call
    BY <1>4, <2>2 DEF EventsBegin
  <2> QED
    BY <1>4, <2>1, <2>3 DEF EventsBegin, agentVars
<1>5. CASE EventsRenew(c)
  <2>1. jobs' \in [Job -> Row]
    BY <1>1, <1>5, MachineRowsStayRows, TableOfRows DEF EventsRenew
  <2>2. evq' \in [Machine -> SUBSET Job]
    BY <1>1, <1>5 DEF EventsRenew, Delivered
  <2> QED
    BY <1>5, <2>1, <2>2 DEF EventsRenew
<1>6. CASE ControlRenew(c)
  <2>1. jobs' \in [Job -> Row]
    BY <1>1, <1>6, MachineRowsStayRows, TableOfRows DEF ControlRenew
  <2>2. aborted' \subseteq Machine
    BY <1>1, <1>6 DEF ControlRenew, Heard
  <2> QED
    BY <1>6, <2>1, <2>2 DEF ControlRenew
<1>7. CASE OutcomeWrite(c)
  <2>1. jobs' \in [Job -> Row]
    BY <1>1, <1>7, ClosedRowsAreRows, TableOfRows DEF OutcomeWrite
  <2>2. outbox' \in [Machine -> [Job -> Results \cup {"none"}]]
    <3>1. outbox \in [Machine -> [Job -> Results \cup {"none"}]]
      BY <1>1
    <3>2. \/ outbox' = outbox
          \/ outbox' = [outbox EXCEPT ![c.by][c.job] = "none"]
      BY <1>7 DEF OutcomeWrite, Acknowledged
    <3>3. PICK kept : kept = outbox[c.by]
      OBVIOUS
    <3>4. CASE outbox' = [outbox EXCEPT ![c.by] = [kept EXCEPT ![c.job] = "none"]]
      <4>1. kept \in [Job -> Results \cup {"none"}]
        BY <1>1, <3>1, <3>3
      <4>2. [kept EXCEPT ![c.job] = "none"] \in [Job -> Results \cup {"none"}]
        BY <4>1
      <4> QED
        BY <3>1, <3>4, <4>2
    <3> QED
      BY <3>1, <3>2, <3>3, <3>4
  <2> QED
    BY <1>7, <2>1, <2>2 DEF OutcomeWrite
<1> QED
  BY <1>3, <1>4, <1>5, <1>6, <1>7 DEF Handler

\* What the agents do by themselves.
LEMMA TypeOfAgents ==
    ASSUME TypeOK, NEW m \in Machine, Agent(m) \/ Exit(m) \/ Restart(m)
    PROVE  TypeOK'
<1> USE DEF TypeOK
<1>1. CASE Emit(m)
  <2>1. work[m] \in Job
    BY <1>1 DEF Emit
  <2> QED
    BY <1>1, <2>1 DEF Emit
<1>2. ASSUME NEW result \in Results, Finish(m, result)
      PROVE  TypeOK'
  <2>1. work[m] \in Job
    BY <1>2 DEF Finish
  <2>2. outbox' \in [Machine -> [Job -> Results \cup {"none"}]]
    BY <1>2, <2>1 DEF Finish
  <2>3. calls' \subseteq Call
    BY <1>2, LetGoCalls DEF Finish
  <2> QED
    BY <1>2, <2>2, <2>3 DEF Finish
<1>3. CASE Close(m)
  <2>1. calls' \subseteq Call
    BY <1>3, LetGoCalls DEF Close
  <2> QED
    BY <1>3, <2>1 DEF Close
<1>4. ASSUME NEW j \in Job, Claim(m, j)
      PROVE  TypeOK'
  <2>1. jobs' \in [Job -> Row]
    BY <1>4, MachineRowsStayRows, TableOfRows DEF Claim, TakesJob
  <2> QED
    BY <1>4, <2>1 DEF Claim
<1>5. ASSUME NEW j \in Job, EventsIgnored(m, j)
      PROVE  TypeOK'
  BY <1>5 DEF EventsIgnored
<1>6. ASSUME NEW j \in Job, EventsRead(m, j)
      PROVE  TypeOK'
  BY <1>6 DEF EventsRead, Enter, NewCall, Call, agentVars
<1>7. ASSUME NEW j \in Job, ControlRead(m, j)
      PROVE  TypeOK'
  BY <1>7 DEF ControlRead, Enter, NewCall, Call, Seen, agentVars
<1>8. ASSUME NEW j \in Job, ControlOfEnded(m, j)
      PROVE  TypeOK'
  BY <1>8 DEF ControlOfEnded, Heard
<1>9. ASSUME NEW j \in Job, OutcomeRepeated(m, j)
      PROVE  TypeOK'
  BY <1>9 DEF OutcomeRepeated, Acknowledged
<1>10. ASSUME NEW j \in Job, OutcomeRead(m, j)
       PROVE  TypeOK'
  <2>1. outbox[m][j] \in Results
    BY <1>10 DEF OutcomeRead, SendsOutcome
  <2> QED
    BY <1>10, <2>1 DEF OutcomeRead, Enter, NewCall, Call, agentVars
<1>11. CASE Exit(m)
  <2>1. calls' \subseteq Call
    BY <1>11, LetGoCalls DEF Exit, Halt
  <2> QED
    BY <1>11, <2>1 DEF Exit, Halt
<1>12. CASE Restart(m)
  BY <1>12 DEF Restart
<1> QED
  BY <1>1, <1>2, <1>3, <1>4, <1>5, <1>6, <1>7, <1>8, <1>9, <1>10, <1>11, <1>12
     DEF Agent

\* What goes wrong.
LEMMA TypeOfFaults ==
    ASSUME TypeOK, Faulty
    PROVE  TypeOK'
<1> USE DEF TypeOK
<1>1. ASSUME NEW c \in calls, GiveUp(c)
      PROVE  TypeOK'
  <2>1. calls' \subseteq Call
    BY <1>1, LetGoCalls DEF GiveUp
  <2>2. faults' \in Nat
    BY <1>1 DEF GiveUp, Fault
  <2>3. UNCHANGED <<jobs, mode, work, closing, aborted, outbox, evq>>
    BY <1>1 DEF GiveUp, agentVars
  <2> QED
    BY <2>1, <2>2, <2>3
<1>2. ASSUME NEW c \in calls, HandlerFails(c)
      PROVE  TypeOK'
  BY <1>2 DEF HandlerFails, Fault, agentVars
<1>3. ASSUME NEW m \in Machine, Stop(m)
      PROVE  TypeOK'
  BY <1>3 DEF Stop, Fault
<1>4. ASSUME NEW m \in Machine, Crash(m)
      PROVE  TypeOK'
  <2>1. calls' \subseteq Call
    BY <1>4, LetGoCalls DEF Crash, Halt
  <2> QED
    BY <1>4, <2>1 DEF Crash, Halt, Fault
<1>5. ASSUME NEW m \in Machine, NEW j \in Job,
             ClaimLost(m, j) \/ StopWhileClaiming(m, j)
      PROVE  TypeOK'
  <2>1. jobs' \in [Job -> Row]
    BY <1>5, MachineRowsStayRows, TableOfRows
       DEF ClaimLost, StopWhileClaiming, TakesJob
  <2> QED
    BY <1>5, <2>1 DEF ClaimLost, StopWhileClaiming, Fault, agentVars
<1> QED
  BY <1>1, <1>2, <1>3, <1>4, <1>5 DEF Faulty

\* The state always has its type: every statement writes a whole row, and every
\* handler and agent moves between the stages the code has.
THEOREM TypeCorrect == Spec => []TypeOK
<1>1. TypeOK /\ [Next]_vars => TypeOK'
  <2> SUFFICES ASSUME TypeOK, [Next]_vars
               PROVE  TypeOK'
    OBVIOUS
  <2>1. CASE Next
    BY <2>1, TypeOfUsersAndTime, TypeOfHandlers, TypeOfAgents, TypeOfFaults DEF Next
  <2>2. CASE UNCHANGED vars
    BY <2>2 DEF vars, TypeOK
  <2> QED
    BY <2>1, <2>2
<1> QED
  BY <1>1, TypeInit, PTL DEF Spec

-------------------------------------------------------------------------------
(***************************************************************************)
(* Who does a job.  OneExecutor is not inductive: it needs that whoever     *)
(* works on a job is the target of its row, which needs that the target of  *)
(* a row never moves to another machine and that its owner is its target,   *)
(* also for a handler that is about to start the job.                       *)
(***************************************************************************)
Settled(row) ==
    /\ row.status # "waiting_for_machine"
    /\ row.owner # NoMachine => row.owner = row.target
    /\ row.started => /\ row.target # NoMachine
                      /\ row.status \in {"running"} \cup Terminal

RowsSettled == \A j \in Job : Settled(jobs[j])

WorkersAreTargets == \A m \in Machine : work[m] # NoJob => jobs[work[m]].target = m

BeginnersAreTargets ==
    \A c \in calls : /\ c.op # "pick"
                     /\ c.op = "begin" => jobs[c.job].target = c.by

AssignmentInv == RowsSettled /\ WorkersAreTargets /\ BeginnersAreTargets

\* What a step may do to a row.
RowMoves(old, new) ==
    /\ Settled(new)
    /\ old.target # NoMachine => new.target = old.target
    /\ old.started => new.owner = old.owner /\ new.status \notin Waiting

\* A step the assignment does not notice.
RowStays(old, new) ==
    RowMoves(old, new) /\ new.target = old.target /\ new.started = old.started

LEMMA RowStaysItself ==
    ASSUME NEW row \in Row, Settled(row)
    PROVE  RowStays(row, row)
  BY DEF Settled, RowStays, RowMoves, Waiting, Terminal, Results

LEMMA RowsThatStay ==
    ASSUME NEW row \in Row, Settled(row)
    PROVE  /\ RowStays(row, Swept(row))
           /\ RowStays(row, CancelAsked(row))
           /\ RowStays(row, ConversationCancelled(row))
           /\ RowStays(row, Expired(row))
           /\ \A m \in Machine : RowStays(row, Renewed(row, m))
           /\ \A result \in Results : RowStays(row, Closed(row, result))
<1> USE DEF RowStays, RowMoves, Settled, Row, Waiting, Terminal, Results
<1>1. RowStays(row, Swept(row))
  BY DEF Swept, AbandonedUnstarted, Requeued, Stalled
<1>2. RowStays(row, CancelAsked(row))
  BY DEF CancelAsked
<1>3. RowStays(row, ConversationCancelled(row))
  BY DEF ConversationCancelled
<1>4. RowStays(row, Expired(row))
  BY DEF Expired
<1>5. \A m \in Machine : RowStays(row, Renewed(row, m))
  BY DEF Renewed
<1>6. \A result \in Results : RowStays(row, Closed(row, result))
  BY DEF Closed
<1> QED
  BY <1>1, <1>2, <1>3, <1>4, <1>5, <1>6

LEMMA ClaimedRowMoves ==
    ASSUME NEW row \in Row, Settled(row), NEW m \in Machine, Claimable(row, m)
    PROVE  /\ RowMoves(row, Claimed(row, m))
           /\ Claimed(row, m).target = m
           /\ Claimed(row, m).started = row.started
           /\ ~row.started
           /\ row.target \in {NoMachine, m}
  BY DEF Row, Settled, RowMoves, Claimable, AbandonedUnstarted, Claimed, Waiting,
         Terminal, Results

LEMMA BegunRowMoves ==
    ASSUME NEW row \in Row, Settled(row), row.target # NoMachine
    PROVE  /\ RowMoves(row, Begun(row))
           /\ Begun(row).target = row.target
           /\ Begun(row).started
  BY DEF Row, Settled, RowMoves, Begun, Waiting

\* Giving up on handlers changes nothing else about them.
LEMMA LetGoKeeps ==
    ASSUME calls \subseteq Call, NEW set, NEW fate, NEW c \in LetGo(set, fate)
    PROVE  \E d \in calls : c.op = d.op /\ c.job = d.job /\ c.by = d.by
  BY DEF LetGo, Call

\* A statement moves the row it writes and no other.
LEMMA OneRowMoves ==
    ASSUME TypeOK, RowsSettled, NEW j \in Job, NEW row, SetRow(j, row)
    PROVE  /\ jobs'[j] = row
           /\ \A i \in Job \ {j} : jobs'[i] = jobs[i]
           /\ RowMoves(jobs[j], row) =>
                 \A i \in Job : RowMoves(jobs[i], jobs'[i])
           /\ RowStays(jobs[j], row) =>
                 \A i \in Job : RowStays(jobs[i], jobs'[i])
<1>1. jobs'[j] = row /\ \A i \in Job \ {j} : jobs'[i] = jobs[i]
  BY DEF SetRow, TypeOK
<1>2. \A i \in Job \ {j} : RowStays(jobs[i], jobs'[i])
  BY <1>1, RowStaysItself DEF TypeOK, RowsSettled
<1>3. \A i \in Job \ {j} : RowMoves(jobs[i], jobs'[i])
  BY <1>2 DEF RowStays
<1> QED
  BY <1>1, <1>2, <1>3

(***************************************************************************)
(* What every step has to show: the invariant is kept, no row moves in a    *)
(* forbidden way, and the step is one of the assignment's or none of it.    *)
(***************************************************************************)
GoodStep ==
    /\ AssignmentInv'
    /\ \A j \in Job : RowMoves(jobs[j], jobs'[j])
    /\ [Promise!Next]_(Promise!vars)

\* A handler that may be added: no machine button, and bound to its machine.
Bound(c) == c.op # "pick" /\ (c.op = "begin" => jobs[c.job].target = c.by)

\* Rows that stay leave the assignment as it was.
LEMMA SameAssignment ==
    ASSUME \A j \in Job : RowStays(jobs[j], jobs'[j])
    PROVE  /\ [j \in Job |-> jobs'[j].target] = [j \in Job |-> jobs[j].target]
           /\ {j \in Job : jobs'[j].started} = {j \in Job : jobs[j].started}
  BY DEF RowStays

\* A step that neither binds, begins nor runs a job.
LEMMA QuietStep ==
    ASSUME TypeOK, TypeOK', AssignmentInv,
           \A j \in Job : RowStays(jobs[j], jobs'[j]),
           \A c \in calls' : Bound(c),
           work' = work \/ \E m \in Machine : work' = [work EXCEPT ![m] = NoJob]
    PROVE  GoodStep
<1>1. RowsSettled'
  BY DEF RowsSettled, RowStays, RowMoves
<1>2. WorkersAreTargets'
  <2> SUFFICES ASSUME NEW m \in Machine, work'[m] # NoJob
               PROVE  jobs'[work'[m]].target = m
    BY DEF WorkersAreTargets
  <2>1. work'[m] = work[m]
    BY DEF TypeOK
  <2>2. work[m] \in Job /\ jobs[work[m]].target = m
    BY <2>1 DEF TypeOK, AssignmentInv, WorkersAreTargets
  <2> QED
    BY <2>1, <2>2 DEF RowStays
<1>3. BeginnersAreTargets'
  <2> SUFFICES ASSUME NEW c \in calls'
               PROVE  c.op # "pick" /\ (c.op = "begin" => jobs'[c.job].target = c.by)
    BY DEF BeginnersAreTargets
  <2>1. c.job \in Job
    BY DEF TypeOK, Call
  <2> QED
    BY <2>1 DEF Bound, RowStays
<1>4. \A j \in Job : RowMoves(jobs[j], jobs'[j])
  BY DEF RowStays
<1>5. [Promise!Next]_(Promise!vars)
  <2>1. CASE work' = work
    BY <2>1, SameAssignment DEF Promise!vars
  <2>2. ASSUME NEW m \in Machine, work' = [work EXCEPT ![m] = NoJob]
        PROVE  Promise!Rest(m)
    BY <2>2, SameAssignment DEF Promise!Rest
  <2> QED
    BY <2>1, <2>2 DEF Promise!Next
<1> QED
  BY <1>1, <1>2, <1>3, <1>4, <1>5 DEF GoodStep, AssignmentInv

\* A machine takes a job: it runs it, or the answer is lost and it is only bound.
LEMMA TakingStep ==
    ASSUME TypeOK, AssignmentInv, NEW m \in Machine, NEW j \in Job,
           TakesJob(m, j), calls' = calls,
           work' = work \/ work' = [work EXCEPT ![m] = j]
    PROVE  GoodStep
<1> DEFINE old == jobs[j]
           new == Claimed(jobs[j], m)
<1>1. old \in Row /\ Settled(old) /\ Claimable(old, m) /\ SetRow(j, new)
  BY DEF TakesJob, TypeOK, AssignmentInv, RowsSettled
<1>2. /\ RowMoves(old, new)
      /\ new.target = m
      /\ new.started = old.started
      /\ ~old.started
      /\ old.target \in {NoMachine, m}
  BY <1>1, ClaimedRowMoves
<1>3. /\ jobs'[j] = new
      /\ \A i \in Job \ {j} : jobs'[i] = jobs[i]
      /\ \A i \in Job : RowMoves(jobs[i], jobs'[i])
  BY <1>1, <1>2, OneRowMoves DEF AssignmentInv
<1>4. RowsSettled'
  BY <1>3 DEF RowsSettled, RowMoves
<1>5. ASSUME NEW i \in Job, NEW n \in Machine, jobs[i].target = n
      PROVE  jobs'[i].target = n
  BY <1>3, <1>5, NoMachineAssumption DEF RowMoves
<1>6. WorkersAreTargets'
  <2> SUFFICES ASSUME NEW n \in Machine, work'[n] # NoJob
               PROVE  jobs'[work'[n]].target = n
    BY DEF WorkersAreTargets
  <2>1. CASE work'[n] = work[n]
    BY <2>1, <1>5 DEF TypeOK, AssignmentInv, WorkersAreTargets
  <2>2. CASE work'[n] # work[n]
    BY <2>2, <1>2, <1>3 DEF TypeOK
  <2> QED
    BY <2>1, <2>2
<1>7. BeginnersAreTargets'
  BY <1>5 DEF BeginnersAreTargets, AssignmentInv, TypeOK, Call
<1>8. Promise!Bind(j, m) \/ Promise!Run(m, j) \/ UNCHANGED Promise!vars
  <2>1. [i \in Job |-> jobs'[i].target]
            = [[i \in Job |-> jobs[i].target] EXCEPT ![j] = m]
    BY <1>2, <1>3
  <2>2. {i \in Job : jobs'[i].started} = {i \in Job : jobs[i].started}
    BY <1>2, <1>3
  <2>3. CASE work' = [work EXCEPT ![m] = j]
    BY <1>2, <2>1, <2>2, <2>3 DEF Promise!Run, TakesJob
  <2>4. CASE work' = work /\ old.target = NoMachine
    BY <2>1, <2>2, <2>4 DEF Promise!Bind
  <2>5. CASE work' = work /\ old.target = m
    <3>1. [i \in Job |-> jobs'[i].target] = [i \in Job |-> jobs[i].target]
      BY <1>2, <1>3, <2>5
    <3> QED
      BY <2>2, <2>5, <3>1 DEF Promise!vars
  <2> QED
    BY <1>2, <2>3, <2>4, <2>5
<1> QED
  BY <1>3, <1>4, <1>6, <1>7, <1>8 DEF GoodStep, AssignmentInv, Promise!Next

\* An insert binds the job when the user's request names a machine.
LEMMA SubmitStep ==
    ASSUME TypeOK, AssignmentInv, NoChoice,
           NEW j \in Job, NEW kind \in KindsInUse, Submit(j, kind)
    PROVE  GoodStep
<1>1. PICK t \in Machine \cup {NoMachine} :
        jobs[j] = Absent /\ SetRow(j, NewRow(kind, "queued", t))
  BY DEF Submit, NoChoice
<1> DEFINE new == NewRow(kind, "queued", t)
<1>2. calls' = calls /\ work' = work
  BY DEF Submit, agentVars
<1>3. /\ RowMoves(jobs[j], new)
      /\ new.target = t
      /\ ~new.started
      /\ ~jobs[j].started
      /\ jobs[j].target = NoMachine
  BY <1>1 DEF Absent, NewRow, RowMoves, Settled
<1>4. /\ jobs'[j] = new
      /\ \A i \in Job \ {j} : jobs'[i] = jobs[i]
      /\ \A i \in Job : RowMoves(jobs[i], jobs'[i])
  BY <1>1, <1>3, OneRowMoves DEF AssignmentInv
<1>5. ASSUME NEW i \in Job, NEW n \in Machine, jobs[i].target = n
      PROVE  jobs'[i].target = n
  BY <1>4, <1>5, NoMachineAssumption DEF RowMoves
<1>6. RowsSettled'
  BY <1>4 DEF RowsSettled, RowMoves
<1>7. WorkersAreTargets'
  BY <1>2, <1>5 DEF TypeOK, AssignmentInv, WorkersAreTargets
<1>8. BeginnersAreTargets'
  BY <1>2, <1>5 DEF BeginnersAreTargets, AssignmentInv, TypeOK, Call
<1>9. (\E m \in Machine : Promise!Bind(j, m)) \/ UNCHANGED Promise!vars
  <2>1. {i \in Job : jobs'[i].started} = {i \in Job : jobs[i].started}
    BY <1>3, <1>4
  <2>2. CASE t \in Machine
    <3>1. [i \in Job |-> jobs'[i].target]
              = [[i \in Job |-> jobs[i].target] EXCEPT ![j] = t]
      BY <1>3, <1>4
    <3> QED
      BY <1>2, <1>3, <2>1, <2>2, <3>1 DEF Promise!Bind
  <2>3. CASE t = NoMachine
    <3>1. [i \in Job |-> jobs'[i].target] = [i \in Job |-> jobs[i].target]
      BY <1>3, <1>4, <2>3
    <3> QED
      BY <1>2, <2>1, <3>1 DEF Promise!vars
  <2> QED
    BY <2>2, <2>3
<1> QED
  BY <1>4, <1>6, <1>7, <1>8, <1>9 DEF GoodStep, AssignmentInv, Promise!Next

\* The events handler records the start, whatever has become of the row since.
LEMMA BeginStep ==
    ASSUME TypeOK, AssignmentInv, NEW c \in calls, EventsBegin(c)
    PROVE  GoodStep
<1> DEFINE j == c.job
<1>1. /\ c \in Call
      /\ j \in Job
      /\ c.by \in Machine
      /\ jobs[j] \in Row
      /\ Settled(jobs[j])
      /\ jobs[j].target = c.by
      /\ jobs[j].target # NoMachine
  BY NoMachineAssumption
     DEF EventsBegin, TypeOK, Call, AssignmentInv, RowsSettled, BeginnersAreTargets
<1>2. /\ RowMoves(jobs[j], Begun(jobs[j]))
      /\ Begun(jobs[j]).target = jobs[j].target
      /\ Begun(jobs[j]).started
  BY <1>1, BegunRowMoves
<1>3. /\ jobs'[j] = Begun(jobs[j])
      /\ \A i \in Job \ {j} : jobs'[i] = jobs[i]
      /\ \A i \in Job : RowMoves(jobs[i], jobs'[i])
  BY <1>1, <1>2, OneRowMoves DEF EventsBegin, AssignmentInv
<1>4. work' = work /\ calls' = (calls \ {c}) \cup {[c EXCEPT !.op = "renew"]}
  BY DEF EventsBegin, agentVars
<1>5. \A i \in Job : jobs'[i].target = jobs[i].target
  BY <1>2, <1>3
<1>6. RowsSettled'
  BY <1>3 DEF RowsSettled, RowMoves
<1>7. WorkersAreTargets'
  BY <1>4, <1>5 DEF TypeOK, AssignmentInv, WorkersAreTargets
<1>8. BeginnersAreTargets'
  <2>1. [c EXCEPT !.op = "renew"].op = "renew"
    BY <1>1 DEF Call
  <2> QED
    BY <1>4, <1>5, <2>1 DEF BeginnersAreTargets, AssignmentInv, TypeOK, Call
<1>9. Promise!Begin(j)
  <2>1. [i \in Job |-> jobs'[i].target] = [i \in Job |-> jobs[i].target]
    BY <1>5
  <2>2. {i \in Job : jobs'[i].started} = {i \in Job : jobs[i].started} \cup {j}
    BY <1>1, <1>2, <1>3
  <2> QED
    BY <1>1, <1>4, <2>1, <2>2 DEF Promise!Begin
<1> QED
  BY <1>1, <1>3, <1>6, <1>7, <1>8, <1>9 DEF GoodStep, AssignmentInv, Promise!Next

\* The calls of a step that enters no handler or lets go of some stay bound.
LEMMA OldCallsBound ==
    ASSUME TypeOK, AssignmentInv
    PROVE  /\ \A c \in calls : Bound(c)
           /\ \A set : \A fate \in {"replaced", "gone"} :
                 \A c \in LetGo(set, fate) : Bound(c)
  BY LetGoKeeps DEF TypeOK, AssignmentInv, BeginnersAreTargets, Bound

\* Every other action of the users, and the passage of time.
LEMMA QuietUsersAndTime ==
    ASSUME TypeOK, TypeOK', AssignmentInv, NEW j \in Job,
           \/ RequestCancel(j)
           \/ CloseConversation(j)
           \/ Sweep
           \/ Lapse(j)
    PROVE  GoodStep
<1>1. jobs[j] \in Row /\ RowsSettled /\ Settled(jobs[j])
  BY DEF TypeOK, AssignmentInv, RowsSettled
<1>2. calls' = calls /\ work' = work
  BY DEF RequestCancel, CloseConversation, Sweep, Lapse, agentVars
<1>3. \A i \in Job : RowStays(jobs[i], jobs'[i])
  <2>1. CASE RequestCancel(j)
    BY <1>1, <2>1, RowsThatStay, OneRowMoves DEF RequestCancel
  <2>2. CASE CloseConversation(j)
    BY <1>1, <2>2, RowsThatStay, OneRowMoves DEF CloseConversation
  <2>3. CASE Sweep
    BY <1>1, <2>3, RowsThatStay DEF Sweep, TypeOK, RowsSettled
  <2>4. CASE Lapse(j)
    BY <1>1, <2>4, RowsThatStay, OneRowMoves DEF Lapse
  <2> QED
    BY <2>1, <2>2, <2>3, <2>4
<1> QED
  BY <1>2, <1>3, OldCallsBound, QuietStep

\* The last statement of a handler other than the start of a job.
LEMMA QuietHandlers ==
    ASSUME TypeOK, TypeOK', AssignmentInv, NEW c \in calls,
           EventsRenew(c) \/ ControlRenew(c) \/ OutcomeWrite(c)
    PROVE  GoodStep
<1>1. /\ c.job \in Job
      /\ c.by \in Machine
      /\ c.op = "outcome" => c.say \in Results
      /\ jobs[c.job] \in Row
      /\ RowsSettled
      /\ Settled(jobs[c.job])
  BY DEF TypeOK, Call, AssignmentInv, RowsSettled
<1>2. calls' = calls \ {c} /\ work' = work
  BY DEF EventsRenew, ControlRenew, OutcomeWrite
<1>3. \A i \in Job : RowStays(jobs[i], jobs'[i])
  <2>1. CASE EventsRenew(c)
    BY <1>1, <2>1, RowsThatStay, OneRowMoves DEF EventsRenew
  <2>2. CASE ControlRenew(c)
    BY <1>1, <2>2, RowsThatStay, OneRowMoves DEF ControlRenew
  <2>3. CASE OutcomeWrite(c)
    BY <1>1, <2>3, RowsThatStay, OneRowMoves DEF OutcomeWrite
  <2> QED
    BY <2>1, <2>2, <2>3
<1>4. \A d \in calls' : Bound(d)
  BY <1>2, OldCallsBound
<1> QED
  BY <1>2, <1>3, <1>4, QuietStep

\* Steps that leave the table alone: those of the agents, and most faults.
LEMMA SameTable ==
    ASSUME TypeOK, TypeOK', AssignmentInv, jobs' = jobs,
           \A c \in calls' : Bound(c),
           work' = work \/ \E m \in Machine : work' = [work EXCEPT ![m] = NoJob]
    PROVE  GoodStep
<1>1. \A j \in Job : RowStays(jobs[j], jobs'[j])
  BY RowStaysItself DEF TypeOK, AssignmentInv, RowsSettled
<1> QED
  BY <1>1, QuietStep

\* A handler entered for the owner of a row is bound to it.
LEMMA EnteredBound ==
    ASSUME TypeOK, AssignmentInv, NEW m \in Machine, NEW j \in Job, NEW op, NEW say,
           op # "pick", op = "begin" => jobs[j].owner = m,
           Enter(NewCall(op, j, m, say))
    PROVE  \A c \in calls' : Bound(c)
<1>1. Bound(NewCall(op, j, m, say))
  BY NoMachineAssumption DEF Bound, NewCall, AssignmentInv, RowsSettled, Settled
<1> QED
  BY <1>1, OldCallsBound DEF Enter

LEMMA AgentSteps ==
    ASSUME TypeOK, TypeOK', AssignmentInv, NEW m \in Machine,
           Agent(m) \/ Exit(m) \/ Restart(m)
    PROVE  GoodStep
<1>1. CASE Emit(m)
  BY <1>1, OldCallsBound, SameTable DEF Emit
<1>2. ASSUME NEW result \in Results, Finish(m, result)
      PROVE  GoodStep
  <2>1. \A c \in calls' : Bound(c)
    BY <1>2, OldCallsBound DEF Finish
  <2> QED
    BY <1>2, <2>1, SameTable DEF Finish
<1>3. CASE Close(m)
  <2>1. \A c \in calls' : Bound(c)
    BY <1>3, OldCallsBound DEF Close
  <2> QED
    BY <1>3, <2>1, SameTable DEF Close
<1>4. ASSUME NEW j \in Job, Claim(m, j)
      PROVE  GoodStep
  BY <1>4, TakingStep DEF Claim
<1>5. ASSUME NEW j \in Job, EventsIgnored(m, j)
      PROVE  GoodStep
  BY <1>5, OldCallsBound, SameTable DEF EventsIgnored
<1>6. ASSUME NEW j \in Job, EventsRead(m, j)
      PROVE  GoodStep
  <2>1. \A c \in calls' : Bound(c)
    <3>1. jobs[j].owner = m
      BY <1>6 DEF EventsRead, SendsEvents
    <3>2. CASE jobs[j].started
      BY <1>6, <3>2, EnteredBound DEF EventsRead
    <3>3. CASE ~jobs[j].started
      BY <1>6, <3>1, <3>3, EnteredBound DEF EventsRead
    <3> QED
      BY <3>2, <3>3
  <2> QED
    BY <1>6, <2>1, SameTable DEF EventsRead, agentVars
<1>7. ASSUME NEW j \in Job, ControlRead(m, j)
      PROVE  GoodStep
  <2>1. \A c \in calls' : Bound(c)
    BY <1>7, EnteredBound DEF ControlRead
  <2> QED
    BY <1>7, <2>1, SameTable DEF ControlRead, agentVars
<1>8. ASSUME NEW j \in Job, ControlOfEnded(m, j)
      PROVE  GoodStep
  BY <1>8, OldCallsBound, SameTable DEF ControlOfEnded
<1>9. ASSUME NEW j \in Job, OutcomeRepeated(m, j)
      PROVE  GoodStep
  BY <1>9, OldCallsBound, SameTable DEF OutcomeRepeated
<1>10. ASSUME NEW j \in Job, OutcomeRead(m, j)
       PROVE  GoodStep
  <2>1. \A c \in calls' : Bound(c)
    BY <1>10, EnteredBound DEF OutcomeRead
  <2> QED
    BY <1>10, <2>1, SameTable DEF OutcomeRead, agentVars
<1>11. CASE Exit(m)
  <2>1. \A c \in calls' : Bound(c)
    BY <1>11, OldCallsBound DEF Exit, Halt
  <2> QED
    BY <1>11, <2>1, SameTable DEF Exit, Halt
<1>12. CASE Restart(m)
  BY <1>12, OldCallsBound, SameTable DEF Restart
<1> QED
  BY <1>1, <1>2, <1>3, <1>4, <1>5, <1>6, <1>7, <1>8, <1>9, <1>10, <1>11, <1>12
     DEF Agent

LEMMA FaultSteps ==
    ASSUME TypeOK, TypeOK', AssignmentInv, Faulty
    PROVE  GoodStep
<1>1. ASSUME NEW c \in calls, GiveUp(c)
      PROVE  GoodStep
  <2>1. \A d \in calls' : Bound(d)
    BY <1>1, OldCallsBound DEF GiveUp
  <2> QED
    BY <1>1, <2>1, SameTable DEF GiveUp, agentVars
<1>2. ASSUME NEW c \in calls, HandlerFails(c)
      PROVE  GoodStep
  BY <1>2, OldCallsBound, SameTable DEF HandlerFails, agentVars
<1>3. ASSUME NEW m \in Machine, Stop(m)
      PROVE  GoodStep
  BY <1>3, OldCallsBound, SameTable DEF Stop
<1>4. ASSUME NEW m \in Machine, Crash(m)
      PROVE  GoodStep
  <2>1. \A d \in calls' : Bound(d)
    BY <1>4, OldCallsBound DEF Crash, Halt
  <2> QED
    BY <1>4, <2>1, SameTable DEF Crash, Halt
<1>5. ASSUME NEW m \in Machine, NEW j \in Job, ClaimLost(m, j)
      PROVE  GoodStep
  BY <1>5, TakingStep DEF ClaimLost, agentVars
<1>6. ASSUME NEW m \in Machine, NEW j \in Job, StopWhileClaiming(m, j)
      PROVE  GoodStep
  BY <1>6, TakingStep DEF StopWhileClaiming
<1> QED
  BY <1>1, <1>2, <1>3, <1>4, <1>5, <1>6 DEF Faulty

LEMMA EveryStepGood ==
    ASSUME NoChoice, TypeOK, TypeOK', AssignmentInv, [Next]_vars
    PROVE  GoodStep
<1>1. ASSUME NEW j \in Job, NEW kind \in KindsInUse, Submit(j, kind)
      PROVE  GoodStep
  BY <1>1, SubmitStep
<1>2. ASSUME NEW j \in Job, RequestCancel(j) \/ CloseConversation(j) \/ Lapse(j)
      PROVE  GoodStep
  BY <1>2, QuietUsersAndTime
<1>3. ASSUME NEW j \in Job, NEW m \in Machine, PickRead(j, m)
      PROVE  GoodStep
  BY <1>3 DEF PickRead, AssignmentInv, RowsSettled, Settled
<1>4. CASE Sweep
  <2>1. \A i \in Job : RowStays(jobs[i], jobs'[i])
    BY <1>4, RowsThatStay DEF Sweep, TypeOK, AssignmentInv, RowsSettled
  <2> QED
    BY <1>4, <2>1, OldCallsBound, QuietStep DEF Sweep, agentVars
<1>5. ASSUME NEW c \in calls, Handler(c)
      PROVE  GoodStep
  <2>1. ~PickWrite(c)
    BY DEF PickWrite, AssignmentInv, BeginnersAreTargets
  <2> QED
    BY <1>5, <2>1, BeginStep, QuietHandlers DEF Handler
<1>6. ASSUME NEW m \in Machine, Agent(m) \/ Exit(m) \/ Restart(m)
      PROVE  GoodStep
  BY <1>6, AgentSteps
<1>7. CASE Faulty
  BY <1>7, FaultSteps
<1>8. CASE UNCHANGED vars
  BY <1>8, OldCallsBound, SameTable DEF vars
<1> QED
  BY <1>1, <1>2, <1>3, <1>4, <1>5, <1>6, <1>7, <1>8 DEF Next, Users

LEMMA AssignmentInit == Init => AssignmentInv /\ Promise!Init
<1> SUFFICES ASSUME Init
             PROVE  AssignmentInv /\ Promise!Init
  OBVIOUS
<1>1. RowsSettled
  BY DEF Init, RowsSettled, Settled, Absent, NewRow
<1>2. WorkersAreTargets /\ BeginnersAreTargets
  BY DEF Init, WorkersAreTargets, BeginnersAreTargets
<1>3. Promise!Init
  BY DEF Init, Promise!Init, Absent, NewRow
<1> QED
  BY <1>1, <1>2, <1>3 DEF AssignmentInv

-------------------------------------------------------------------------------
(* The results *)

LEMMA AlwaysAssigned ==
    ASSUME NoChoice
    PROVE  Spec => [](TypeOK /\ AssignmentInv)
<1>1. TypeOK /\ TypeOK' /\ AssignmentInv /\ [Next]_vars => AssignmentInv'
  BY EveryStepGood DEF GoodStep
<1> QED
  BY <1>1, AssignmentInit, TypeCorrect, PTL DEF Spec

\* No two machines ever execute the same job, whatever the handlers interleave
\* with and whatever fails.
THEOREM NoTwoExecutors ==
    ASSUME NoChoice
    PROVE  Spec => []OneExecutor
<1>1. TypeOK /\ AssignmentInv => OneExecutor
  BY DEF TypeOK, AssignmentInv, WorkersAreTargets, OneExecutor
<1> QED
  BY <1>1, AlwaysAssigned, PTL

\* A job that started never goes back to the queue and never changes owner.
THEOREM StartedNeverRequeued ==
    ASSUME NoChoice
    PROVE  Spec => StartedStaysOut
<1>1. TypeOK /\ TypeOK' /\ AssignmentInv /\ [Next]_vars
        => [\A j \in Job : jobs[j].started =>
              jobs'[j].owner = jobs[j].owner /\ jobs'[j].status \notin Waiting]_vars
  BY EveryStepGood DEF GoodStep, RowMoves
<1> QED
  BY <1>1, AlwaysAssigned, PTL DEF Spec, StartedStaysOut

\* The table and the agents implement the assignment of jobs to machines.
THEOREM ImplementsAssignment ==
    ASSUME NoChoice
    PROVE  Spec => Assignment
<1>1. TypeOK /\ TypeOK' /\ AssignmentInv /\ [Next]_vars => [Promise!Next]_(Promise!vars)
  BY EveryStepGood DEF GoodStep
<1> QED
  BY <1>1, AssignmentInit, AlwaysAssigned, PTL DEF Spec, Assignment, Promise!Spec
===============================================================================
