---------------------------- MODULE JobResultProofs ----------------------------
(***************************************************************************)
(* Proofs about what an agent does with the answers it gets: it aborts only *)
(* the job whose cancellation was asked for, and it forgets a result only   *)
(* once the gateway has it.  The last part is about the table: which        *)
(* handlers alone can undo an end or put a row out of the sweep's reach.    *)
(* All of it holds for handlers that interleave freely and for every kind   *)
(* of job.                                                                  *)
(***************************************************************************)
EXTENDS JobLifecycleProofs

\* A handler that still has a waiting client is the one it was.
LEMMA LetGoLeavesWaiting ==
    ASSUME calls \subseteq Call, NEW set, NEW fate \in {"replaced", "gone"},
           NEW c \in LetGo(set, fate), c.client # fate
    PROVE  c \in calls /\ c \notin set
<1>1. PICK d \in calls : c = IF d \in set THEN [d EXCEPT !.client = fate] ELSE d
  BY DEF LetGo
<1>2. d \notin set
  <2> SUFFICES ASSUME d \in set
               PROVE  FALSE
    OBVIOUS
  <2> QED
    BY <1>1 DEF Call
<1> QED
  BY <1>1, <1>2

-------------------------------------------------------------------------------
(***************************************************************************)
(* Cancellations.  That an aborted run is one whose cancellation was asked  *)
(* for is not inductive: the answer that aborts it was decided from a row   *)
(* read earlier.  It needs that an agent waits for a control answer only    *)
(* about the job it still executes, and that a cancellation is never taken  *)
(* back.                                                                    *)
(***************************************************************************)
ControlHolds(c) ==
    c.op = "control" /\ c.client = "waiting" =>
        /\ work[c.by] = c.job
        /\ c.say = "cancel" => jobs[c.job].cancel

AbortInv == AbortIsForThisJob /\ \A c \in calls : ControlHolds(c)

CancelsStay == \A j \in Job : jobs[j].cancel => jobs'[j].cancel

LEMMA StatementsKeepCancel ==
    ASSUME NEW row \in Row, row.cancel
    PROVE  /\ Swept(row).cancel
           /\ CancelAsked(row).cancel
           /\ ConversationCancelled(row).cancel
           /\ Begun(row).cancel
           /\ Expired(row).cancel
           /\ row # Absent
           /\ \A m \in Machine : /\ Claimed(row, m).cancel
                                 /\ Renewed(row, m).cancel
                                 /\ Picked(row, m).cancel
           /\ \A result \in Results : Closed(row, result).cancel
<1>1. Swept(row).cancel
  BY DEF Row, Swept, Requeued
<1>2. \A m \in Machine : Renewed(row, m).cancel
  BY DEF Row, Renewed
<1>3. row # Absent
  BY DEF Absent, NewRow
<1> QED
  BY <1>1, <1>2, <1>3
     DEF Row, CancelAsked, ConversationCancelled, Begun, Expired, Claimed, Picked,
         Closed

\* A statement on one row keeps the cancellations when it keeps that row's.
LEMMA OneRowKeepsCancel ==
    ASSUME TypeOK, NEW j \in Job, NEW row, SetRow(j, row),
           jobs[j].cancel => row.cancel
    PROVE  CancelsStay
  BY DEF SetRow, TypeOK, CancelsStay

LEMMA CancelsAreNotTakenBack ==
    ASSUME TypeOK, [Next]_vars
    PROVE  CancelsStay
<1>1. \A j \in Job : jobs[j] \in Row
  BY DEF TypeOK
<1>2. jobs' = jobs => CancelsStay
  BY DEF CancelsStay
<1>3. ASSUME NEW j \in Job, NEW kind \in KindsInUse, Submit(j, kind)
      PROVE  CancelsStay
  <2>1. ~jobs[j].cancel
    BY <1>1, <1>3, StatementsKeepCancel DEF Submit
  <2> QED
    BY <1>3, <2>1, OneRowKeepsCancel DEF Submit
<1>4. ASSUME NEW j \in Job, RequestCancel(j) \/ CloseConversation(j) \/ Lapse(j)
      PROVE  CancelsStay
  BY <1>1, <1>4, StatementsKeepCancel, OneRowKeepsCancel
     DEF RequestCancel, CloseConversation, Lapse
<1>5. CASE Sweep
  BY <1>1, <1>5, StatementsKeepCancel DEF Sweep, CancelsStay
<1>6. ASSUME NEW c \in calls, Handler(c)
      PROVE  CancelsStay
  <2>1. c.job \in Job /\ c.by \in Machine /\ (c.op = "outcome" => c.say \in Results)
    BY DEF TypeOK, Call
  <2>2. CASE PickWrite(c)
    BY <1>1, <2>1, <2>2, StatementsKeepCancel, OneRowKeepsCancel DEF PickWrite
  <2>3. CASE EventsBegin(c)
    BY <1>1, <2>1, <2>3, StatementsKeepCancel, OneRowKeepsCancel DEF EventsBegin
  <2>4. CASE EventsRenew(c)
    BY <1>1, <2>1, <2>4, StatementsKeepCancel, OneRowKeepsCancel DEF EventsRenew
  <2>5. CASE ControlRenew(c)
    BY <1>1, <2>1, <2>5, StatementsKeepCancel, OneRowKeepsCancel DEF ControlRenew
  <2>6. CASE OutcomeWrite(c)
    BY <1>1, <2>1, <2>6, StatementsKeepCancel, OneRowKeepsCancel DEF OutcomeWrite
  <2> QED
    BY <1>6, <2>2, <2>3, <2>4, <2>5, <2>6 DEF Handler
<1>7. ASSUME NEW m \in Machine, NEW j \in Job, TakesJob(m, j)
      PROVE  CancelsStay
  BY <1>1, <1>7, StatementsKeepCancel, OneRowKeepsCancel DEF TakesJob
<1>8. ASSUME NEW m \in Machine, Agent(m) \/ Exit(m) \/ Restart(m)
      PROVE  CancelsStay
  BY <1>2, <1>7, <1>8
     DEF Agent, Emit, Finish, Close, Claim, EventsIgnored, EventsRead, ControlRead,
         ControlOfEnded, OutcomeRepeated, OutcomeRead, Exit, Halt, Restart
<1>9. CASE Faulty
  BY <1>2, <1>7, <1>9
     DEF Faulty, GiveUp, HandlerFails, Stop, Crash, Halt, ClaimLost, StopWhileClaiming
<1>10. ASSUME NEW j \in Job, NEW m \in Machine, PickRead(j, m)
       PROVE  CancelsStay
  BY <1>2, <1>10 DEF PickRead
<1>11. CASE UNCHANGED vars
  BY <1>2, <1>11 DEF vars
<1> QED
  BY <1>3, <1>4, <1>5, <1>6, <1>8, <1>9, <1>10, <1>11 DEF Next, Users

\* A step that lets every agent go on as it was and enters no control handler.
LEMMA AbortsUndisturbed ==
    ASSUME TypeOK, AbortInv, CancelsStay, UNCHANGED <<mode, work, aborted>>,
           \A c \in calls' : c.op = "control" /\ c.client = "waiting" => c \in calls
    PROVE  AbortInv'
<1>1. AbortIsForThisJob'
  BY DEF AbortInv, AbortIsForThisJob, CancelsStay, TypeOK
<1>2. \A c \in calls' : ControlHolds(c)'
  BY DEF AbortInv, ControlHolds, CancelsStay, TypeOK, Call
<1> QED
  BY <1>1, <1>2 DEF AbortInv

\* The agent is gone, or the run it did is over: nobody waits on its behalf.
LEMMA AbortsOfEndedRun ==
    ASSUME TypeOK, AbortInv, CancelsStay, NEW m \in Machine,
           work' = [work EXCEPT ![m] = NoJob],
           aborted' = aborted \ {m},
           mode' = mode \/ mode' = [mode EXCEPT ![m] = "down"],
           \A c \in calls' : c.op = "control" /\ c.client = "waiting" =>
               c \in calls /\ c.by # m
    PROVE  AbortInv'
<1>1. AbortIsForThisJob'
  BY DEF AbortInv, AbortIsForThisJob, CancelsStay, TypeOK
<1>2. \A c \in calls' : ControlHolds(c)'
  BY DEF AbortInv, ControlHolds, CancelsStay, TypeOK, Call
<1> QED
  BY <1>1, <1>2 DEF AbortInv

\* An idle agent takes a job: nothing it waits for is about another one.
LEMMA AbortsOfTakenJob ==
    ASSUME TypeOK, AbortInv, CancelsStay, NEW m \in Machine, NEW j \in Job,
           mode[m] = "up", work[m] = NoJob,
           work' = [work EXCEPT ![m] = j],
           UNCHANGED <<calls, aborted>>,
           mode' = mode \/ mode' = [mode EXCEPT ![m] = "stopping"]
    PROVE  AbortInv'
<1>1. m \notin aborted
  BY DEF AbortInv, AbortIsForThisJob
<1>2. \A c \in calls : c.op = "control" /\ c.client = "waiting" => c.by # m
  BY NoJobAssumption DEF AbortInv, ControlHolds, TypeOK, Call
<1>3. AbortIsForThisJob'
  BY <1>1 DEF AbortInv, AbortIsForThisJob, CancelsStay, TypeOK
<1>4. \A c \in calls' : ControlHolds(c)'
  BY <1>2 DEF AbortInv, ControlHolds, CancelsStay, TypeOK, Call
<1> QED
  BY <1>3, <1>4 DEF AbortInv

LEMMA AbortStep ==
    ASSUME TypeOK, AbortInv, [Next]_vars
    PROVE  AbortInv'
<1>1. CancelsStay
  BY CancelsAreNotTakenBack
<1>2. CASE Users \/ Sweep \/ \E j \in Job : Lapse(j)
  <2>1. UNCHANGED <<mode, work, aborted>>
    BY <1>2
       DEF Users, Submit, RequestCancel, CloseConversation, PickRead, Sweep, Lapse,
           agentVars
  <2>2. \A c \in calls' : c.op = "control" => c \in calls
    <3>1. ASSUME NEW j \in Job, NEW m \in Machine, PickRead(j, m)
          PROVE  \A c \in calls' : c.op = "control" => c \in calls
      BY <3>1 DEF PickRead, Enter, NewCall
    <3> QED
      BY <1>2, <3>1
         DEF Users, Submit, RequestCancel, CloseConversation, Sweep, Lapse
  <2> QED
    BY <1>1, <2>1, <2>2, AbortsUndisturbed
<1>3. ASSUME NEW c \in calls, ControlRenew(c)
      PROVE  AbortInv'
  <2>1. c.job \in Job /\ c.by \in Machine
    BY DEF TypeOK, Call
  <2>2. \A m \in aborted' : mode'[m] = "stopping" \/ (work'[m] # NoJob /\ jobs'[work'[m]].cancel)
    <3>1. ASSUME c.client = "waiting", c.say = "cancel"
          PROVE  work[c.by] = c.job /\ jobs'[c.job].cancel
      BY <1>1, <1>3, <2>1, <3>1 DEF ControlRenew, AbortInv, ControlHolds, CancelsStay
    <3>2. \A m \in aborted :
              mode'[m] = "stopping" \/ (work'[m] # NoJob /\ jobs'[work'[m]].cancel)
      BY <1>1, <1>3 DEF ControlRenew, AbortInv, AbortIsForThisJob, CancelsStay, TypeOK
    <3> QED
      BY <1>3, <2>1, <3>1, <3>2, NoJobAssumption DEF ControlRenew, Heard
  <2>3. \A d \in calls' : ControlHolds(d)'
    BY <1>1, <1>3 DEF ControlRenew, AbortInv, ControlHolds, CancelsStay, TypeOK, Call
  <2> QED
    BY <2>2, <2>3 DEF AbortInv, AbortIsForThisJob
<1>4. ASSUME NEW c \in calls, Handler(c), ~ControlRenew(c)
      PROVE  AbortInv'
  <2>1. c \in Call
    BY DEF TypeOK
  <2>2. \A d \in calls' : d.op = "control" => d \in calls
    <3>1. [c EXCEPT !.op = "renew"].op = "renew"
      BY <2>1 DEF Call
    <3> QED
      BY <1>4, <3>1 DEF Handler, PickWrite, EventsBegin, EventsRenew, OutcomeWrite
  <2>3. UNCHANGED <<mode, work, aborted>>
    BY <1>4
       DEF Handler, PickWrite, EventsBegin, EventsRenew, OutcomeWrite, agentVars
  <2> QED
    BY <1>1, <2>2, <2>3, AbortsUndisturbed
<1>5. ASSUME NEW m \in Machine, Agent(m) \/ Exit(m) \/ Restart(m)
      PROVE  AbortInv'
  <2>1. CASE Emit(m)
    BY <1>1, <2>1, AbortsUndisturbed DEF Emit
  <2>2. ASSUME NEW result \in Results, Finish(m, result)
        PROVE  AbortInv'
    <3>1. \A c \in calls' : c.client = "waiting" => c \in calls
      BY <2>2, LetGoLeavesWaiting DEF Finish, TypeOK
    <3> QED
      BY <1>1, <2>2, <3>1, AbortsUndisturbed DEF Finish
  <2>3. CASE Close(m)
    <3>1. \A c \in calls' : c.op = "control" /\ c.client = "waiting" =>
              c \in calls /\ c.by # m
      BY <2>3, LetGoLeavesWaiting DEF Close, TypeOK, CallsOf
    <3> QED
      BY <1>1, <2>3, <3>1, AbortsOfEndedRun DEF Close
  <2>4. ASSUME NEW j \in Job, Claim(m, j)
        PROVE  AbortInv'
    BY <1>1, <2>4, AbortsOfTakenJob DEF Claim, TakesJob
  <2>5. ASSUME NEW j \in Job, ControlRead(m, j)
        PROVE  AbortInv'
    <3>1. calls' = calls \cup {NewCall("control", j, m, Seen(jobs[j]))}
      BY <2>5 DEF ControlRead, Enter
    <3>2. UNCHANGED <<jobs, mode, work, aborted>>
      BY <2>5 DEF ControlRead, agentVars
    <3>3. ControlHolds(NewCall("control", j, m, Seen(jobs[j])))
      BY <2>5 DEF ControlRead, SendsControl, ControlHolds, NewCall, Seen
    <3>4. \A c \in calls' : ControlHolds(c)
      BY <3>1, <3>3 DEF AbortInv
    <3> QED
      BY <3>2, <3>4 DEF AbortInv, AbortIsForThisJob, ControlHolds
  <2>6. ASSUME NEW j \in Job, ControlOfEnded(m, j)
        PROVE  AbortInv'
    <3>1. work[m] = j /\ (m \in aborted' /\ m \notin aborted => jobs[j].cancel)
      BY <2>6 DEF ControlOfEnded, SendsControl, Heard, Seen
    <3>2. aborted' \subseteq aborted \cup {m}
      BY <2>6 DEF ControlOfEnded, Heard
    <3>3. UNCHANGED <<jobs, calls, mode, work>>
      BY <2>6 DEF ControlOfEnded
    <3> QED
      BY <3>1, <3>2, <3>3, NoJobAssumption
         DEF AbortInv, AbortIsForThisJob, ControlHolds
  <2>7. ASSUME NEW j \in Job,
               \/ EventsIgnored(m, j)
               \/ EventsRead(m, j)
               \/ OutcomeRepeated(m, j)
               \/ OutcomeRead(m, j)
        PROVE  AbortInv'
    BY <1>1, <2>7, AbortsUndisturbed
       DEF EventsIgnored, EventsRead, OutcomeRepeated, OutcomeRead, Enter, NewCall,
           agentVars
  <2>8. CASE Exit(m)
    <3>1. \A c \in calls' : c.op = "control" /\ c.client = "waiting" =>
              c \in calls /\ c.by # m
      BY <2>8, LetGoLeavesWaiting DEF Exit, Halt, TypeOK, CallsOf
    <3> QED
      BY <1>1, <2>8, <3>1, AbortsOfEndedRun DEF Exit, Halt
  <2>9. CASE Restart(m)
    BY <1>1, <2>9 DEF Restart, AbortInv, AbortIsForThisJob, ControlHolds, TypeOK
  <2> QED
    BY <1>5, <2>1, <2>2, <2>3, <2>4, <2>5, <2>6, <2>7, <2>8, <2>9 DEF Agent
<1>6. CASE Faulty
  <2>1. ASSUME NEW c \in calls, GiveUp(c) \/ HandlerFails(c)
        PROVE  AbortInv'
    <3>1. \A d \in calls' : d.client = "waiting" => d \in calls
      BY <2>1, LetGoLeavesWaiting DEF GiveUp, HandlerFails, TypeOK
    <3> QED
      BY <1>1, <2>1, <3>1, AbortsUndisturbed DEF GiveUp, HandlerFails, agentVars
  <2>2. ASSUME NEW m \in Machine, Stop(m)
        PROVE  AbortInv'
    BY <2>2 DEF Stop, AbortInv, AbortIsForThisJob, ControlHolds, TypeOK
  <2>3. ASSUME NEW m \in Machine, Crash(m)
        PROVE  AbortInv'
    <3>1. \A c \in calls' : c.op = "control" /\ c.client = "waiting" =>
              c \in calls /\ c.by # m
      BY <2>3, LetGoLeavesWaiting DEF Crash, Halt, TypeOK, CallsOf
    <3> QED
      BY <1>1, <2>3, <3>1, AbortsOfEndedRun DEF Crash, Halt
  <2>4. ASSUME NEW m \in Machine, NEW j \in Job, ClaimLost(m, j)
        PROVE  AbortInv'
    BY <1>1, <2>4, AbortsUndisturbed DEF ClaimLost, agentVars
  <2>5. ASSUME NEW m \in Machine, NEW j \in Job, StopWhileClaiming(m, j)
        PROVE  AbortInv'
    BY <1>1, <2>5, AbortsOfTakenJob DEF StopWhileClaiming, TakesJob
  <2> QED
    BY <1>6, <2>1, <2>2, <2>3, <2>4, <2>5 DEF Faulty
<1>7. CASE UNCHANGED vars
  BY <1>1, <1>7, AbortsUndisturbed DEF vars
<1> QED
  BY <1>2, <1>3, <1>4, <1>5, <1>6, <1>7 DEF Next

\* A run is aborted only for a cancellation of its own job or by the agent's stop
\* (startControlLoop): an answer that comes late never aborts the next job.
THEOREM AbortsTheRightJob == Spec => []AbortIsForThisJob
<1>1. Init => AbortInv
  BY DEF Init, AbortInv, AbortIsForThisJob
<1>2. TypeOK /\ AbortInv /\ [Next]_vars => AbortInv'
  BY AbortStep
<1>3. AbortInv => AbortIsForThisJob
  BY DEF AbortInv
<1> QED
  BY <1>1, <1>2, <1>3, TypeCorrect, PTL DEF Spec

-------------------------------------------------------------------------------
(***************************************************************************)
(* Results.  An answer that acknowledges a result was decided from the      *)
(* result the request carried, and the agent may have put another in its    *)
(* place.  ResultKept therefore needs that a request still waited for       *)
(* carries what the outbox holds; to keep that, that an agent sends one     *)
(* result at a time, replaced ones included.                                *)
(***************************************************************************)
CarriesOutbox(c) ==
    c.op = "outcome" /\ c.client = "waiting" => c.say = outbox[c.by][c.job]

OneResultAtATime ==
    \A c, d \in calls :
        /\ c.op = "outcome" /\ c.client # "gone"
        /\ d.op = "outcome" /\ d.client # "gone"
        /\ c.by = d.by
        => c = d

ResultInv == OneResultAtATime /\ \A c \in calls : CarriesOutbox(c)

\* A result leaves the outbox only for what the gateway has recorded.
ResultStep ==
    \A m \in Machine, j \in Job :
        outbox[m][j] # "none" /\ outbox'[m][j] = "none" =>
            \/ jobs'[j].status = outbox[m][j]
            \/ jobs'[j].status = "cancelled" /\ jobs'[j].cancel

\* A step that leaves the outboxes alone and enters no outcome handler.
LEMMA ResultsUndisturbed ==
    ASSUME TypeOK, ResultInv, outbox' = outbox,
           \A c \in calls' : c.op = "outcome" /\ c.client # "gone" => c \in calls
    PROVE  ResultInv' /\ ResultStep
<1>1. OneResultAtATime'
  BY DEF ResultInv, OneResultAtATime
<1>2. \A c \in calls' : CarriesOutbox(c)'
  BY DEF ResultInv, CarriesOutbox
<1>3. ResultStep
  BY DEF ResultStep
<1> QED
  BY <1>1, <1>2, <1>3 DEF ResultInv

\* A second result takes the place of the first, and the request with the first
\* no longer speaks for the outbox.
LEMMA FinishKeepsResults ==
    ASSUME TypeOK, ResultInv, NEW m \in Machine, NEW result \in Results,
           Finish(m, result)
    PROVE  ResultInv' /\ ResultStep
<1> DEFINE set == {c \in CallsOf(m) : /\ c.op = "outcome" /\ c.job = work[m]
                                      /\ c.client = "waiting"}
<1>1. /\ work[m] \in Job
      /\ calls' = LetGo(set, "replaced")
      /\ outbox' = [outbox EXCEPT ![m][work[m]] = result]
  BY DEF Finish, TypeOK
<1>2. \A c \in calls' : \E d \in calls :
          c = IF d \in set THEN [d EXCEPT !.client = "replaced"] ELSE d
  BY <1>1 DEF LetGo
<1>3. OneResultAtATime'
  <2> SUFFICES ASSUME NEW c \in calls', NEW d \in calls',
                      c.op = "outcome", c.client # "gone",
                      d.op = "outcome", d.client # "gone", c.by = d.by
               PROVE  c = d
    BY DEF OneResultAtATime
  <2>1. PICK c0 \in calls : c = IF c0 \in set THEN [c0 EXCEPT !.client = "replaced"] ELSE c0
    BY <1>2
  <2>2. PICK d0 \in calls : d = IF d0 \in set THEN [d0 EXCEPT !.client = "replaced"] ELSE d0
    BY <1>2
  <2>3. c0.op = "outcome" /\ c0.client # "gone" /\ c0.by = c.by
    BY <2>1 DEF TypeOK, Call
  <2>4. d0.op = "outcome" /\ d0.client # "gone" /\ d0.by = d.by
    BY <2>2 DEF TypeOK, Call
  <2>5. c0 = d0
    BY <2>3, <2>4 DEF ResultInv, OneResultAtATime
  <2> QED
    BY <2>1, <2>2, <2>5
<1>4. ASSUME NEW c \in calls'
      PROVE  CarriesOutbox(c)'
  <2> SUFFICES ASSUME c.op = "outcome", c.client = "waiting"
               PROVE  c.say = outbox'[c.by][c.job]
    BY DEF CarriesOutbox
  <2>1. c \in calls /\ c \notin set
    BY <1>1, LetGoLeavesWaiting DEF TypeOK
  <2>2. c.say = outbox[c.by][c.job] /\ c.by \in Machine /\ c.job \in Job
    BY <2>1 DEF ResultInv, CarriesOutbox, TypeOK, Call
  <2>3. ~(c.by = m /\ c.job = work[m])
    BY <2>1 DEF CallsOf
  <2> QED
    BY <1>1, <2>2, <2>3 DEF TypeOK
<1>5. ResultStep
  BY <1>1 DEF ResultStep, TypeOK, Results
<1> QED
  BY <1>3, <1>4, <1>5 DEF ResultInv

\* The gateway has the result already, or the cancellation stands.
LEMMA RepetitionKeepsResults ==
    ASSUME TypeOK, ResultInv, NEW m \in Machine, NEW j \in Job, OutcomeRepeated(m, j)
    PROVE  ResultInv' /\ ResultStep
<1>1. /\ calls' = calls
      /\ jobs' = jobs
      /\ outbox' = [outbox EXCEPT ![m][j] = "none"]
  BY DEF OutcomeRepeated, Acknowledged
<1>2. \A c \in calls : c.by = m /\ c.op = "outcome" => c.client = "gone"
  BY DEF OutcomeRepeated, SendsOutcome, Busy, CallsOf
<1>3. OneResultAtATime'
  BY <1>1 DEF ResultInv, OneResultAtATime
<1>4. \A c \in calls' : CarriesOutbox(c)'
  BY <1>1, <1>2 DEF ResultInv, CarriesOutbox, TypeOK, Call
<1>5. \/ jobs[j].status = outbox[m][j]
      \/ jobs[j].status = "cancelled" /\ jobs[j].cancel
  BY DEF OutcomeRepeated, AnswerTo
<1>6. ResultStep
  BY <1>1, <1>5 DEF ResultStep, TypeOK
<1> QED
  BY <1>3, <1>4, <1>6 DEF ResultInv

\* The handler writes the result its request carried.
LEMMA WriteKeepsResults ==
    ASSUME TypeOK, ResultInv, NEW c \in calls, OutcomeWrite(c)
    PROVE  ResultInv' /\ ResultStep
<1>1. /\ c.job \in Job
      /\ c.by \in Machine
      /\ c.op = "outcome"
      /\ calls' = calls \ {c}
      /\ jobs[c.job] \in Row
  BY DEF OutcomeWrite, TypeOK, Call
<1>2. jobs'[c.job].status = c.say
  BY <1>1 DEF OutcomeWrite, SetRow, Closed, TypeOK, Row
<1>3. CASE c.client = "waiting"
  <2>1. outbox' = [outbox EXCEPT ![c.by][c.job] = "none"]
    BY <1>3 DEF OutcomeWrite, Acknowledged
  <2>2. \A d \in calls' : d.op = "outcome" /\ d.client = "waiting" => d.by # c.by
    BY <1>1, <1>3 DEF ResultInv, OneResultAtATime
  <2>3. OneResultAtATime'
    BY <1>1 DEF ResultInv, OneResultAtATime
  <2>4. \A d \in calls' : CarriesOutbox(d)'
    BY <1>1, <2>1, <2>2 DEF ResultInv, CarriesOutbox, TypeOK, Call
  <2>5. c.say = outbox[c.by][c.job]
    BY <1>1, <1>3 DEF ResultInv, CarriesOutbox
  <2>6. ResultStep
    BY <1>1, <1>2, <2>1, <2>5 DEF ResultStep, TypeOK
  <2> QED
    BY <2>3, <2>4, <2>6 DEF ResultInv
<1>4. CASE c.client # "waiting"
  BY <1>1, <1>4, ResultsUndisturbed DEF OutcomeWrite
<1> QED
  BY <1>3, <1>4

\* An agent that sends a result was waiting for no answer about another.
LEMMA ReadKeepsResults ==
    ASSUME TypeOK, ResultInv, NEW m \in Machine, NEW j \in Job, OutcomeRead(m, j)
    PROVE  ResultInv' /\ ResultStep
<1> DEFINE new == NewCall("outcome", j, m, outbox[m][j])
<1>1. calls' = calls \cup {new} /\ outbox' = outbox
  BY DEF OutcomeRead, Enter, agentVars
<1>2. \A c \in calls : c.by = m /\ c.op = "outcome" => c.client = "gone"
  BY DEF OutcomeRead, SendsOutcome, Busy, CallsOf
<1>3. OneResultAtATime'
  BY <1>1, <1>2 DEF ResultInv, OneResultAtATime, NewCall
<1>4. \A c \in calls' : CarriesOutbox(c)'
  BY <1>1 DEF ResultInv, CarriesOutbox, NewCall
<1>5. ResultStep
  BY <1>1 DEF ResultStep
<1> QED
  BY <1>3, <1>4, <1>5 DEF ResultInv

LEMMA ResultsKeptStep ==
    ASSUME TypeOK, ResultInv, [Next]_vars
    PROVE  ResultInv' /\ ResultStep
<1>1. CASE Users \/ Sweep \/ \E j \in Job : Lapse(j)
  <2>1. outbox' = outbox
    BY <1>1
       DEF Users, Submit, RequestCancel, CloseConversation, PickRead, Sweep, Lapse,
           agentVars
  <2>2. \A c \in calls' : c.op = "outcome" => c \in calls
    <3>1. ASSUME NEW j \in Job, NEW m \in Machine, PickRead(j, m)
          PROVE  \A c \in calls' : c.op = "outcome" => c \in calls
      BY <3>1 DEF PickRead, Enter, NewCall
    <3> QED
      BY <1>1, <3>1
         DEF Users, Submit, RequestCancel, CloseConversation, Sweep, Lapse
  <2> QED
    BY <2>1, <2>2, ResultsUndisturbed
<1>2. ASSUME NEW c \in calls, Handler(c), ~OutcomeWrite(c)
      PROVE  ResultInv' /\ ResultStep
  <2>1. c \in Call
    BY DEF TypeOK
  <2>2. \A d \in calls' : d.op = "outcome" => d \in calls
    <3>1. [c EXCEPT !.op = "renew"].op = "renew"
      BY <2>1 DEF Call
    <3> QED
      BY <1>2, <3>1 DEF Handler, PickWrite, EventsBegin, EventsRenew, ControlRenew
  <2>3. outbox' = outbox
    BY <1>2
       DEF Handler, PickWrite, EventsBegin, EventsRenew, ControlRenew, agentVars
  <2> QED
    BY <2>2, <2>3, ResultsUndisturbed
<1>3. ASSUME NEW c \in calls, OutcomeWrite(c)
      PROVE  ResultInv' /\ ResultStep
  BY <1>3, WriteKeepsResults
<1>4. ASSUME NEW m \in Machine, Agent(m) \/ Exit(m) \/ Restart(m)
      PROVE  ResultInv' /\ ResultStep
  <2>1. ASSUME NEW result \in Results, Finish(m, result)
        PROVE  ResultInv' /\ ResultStep
    BY <2>1, FinishKeepsResults
  <2>2. CASE Close(m) \/ Exit(m)
    <3>1. \A c \in calls' : c.client # "gone" => c \in calls
      BY <2>2, LetGoLeavesWaiting DEF Close, Exit, Halt, TypeOK
    <3> QED
      BY <2>2, <3>1, ResultsUndisturbed DEF Close, Exit, Halt
  <2>3. ASSUME NEW j \in Job, EventsRead(m, j) \/ ControlRead(m, j)
        PROVE  ResultInv' /\ ResultStep
    <3>1. \A c \in calls' : c.op = "outcome" => c \in calls
      BY <2>3 DEF EventsRead, ControlRead, Enter, NewCall
    <3> QED
      BY <2>3, <3>1, ResultsUndisturbed DEF EventsRead, ControlRead, agentVars
  <2>4. ASSUME NEW j \in Job, Claim(m, j) \/ EventsIgnored(m, j) \/ ControlOfEnded(m, j)
        PROVE  ResultInv' /\ ResultStep
    BY <2>4, ResultsUndisturbed DEF Claim, EventsIgnored, ControlOfEnded
  <2>5. ASSUME NEW j \in Job, OutcomeRepeated(m, j) \/ OutcomeRead(m, j)
        PROVE  ResultInv' /\ ResultStep
    BY <2>5, RepetitionKeepsResults, ReadKeepsResults
  <2>6. CASE Emit(m) \/ Restart(m)
    BY <2>6, ResultsUndisturbed DEF Emit, Restart
  <2> QED
    BY <1>4, <2>1, <2>2, <2>3, <2>4, <2>5, <2>6 DEF Agent
<1>5. CASE Faulty
  <2>1. ASSUME NEW c \in calls, GiveUp(c) \/ HandlerFails(c)
        PROVE  ResultInv' /\ ResultStep
    <3>1. \A d \in calls' : d.client # "gone" => d \in calls
      BY <2>1, LetGoLeavesWaiting DEF GiveUp, HandlerFails, TypeOK
    <3> QED
      BY <2>1, <3>1, ResultsUndisturbed DEF GiveUp, HandlerFails, agentVars
  <2>2. ASSUME NEW m \in Machine, Crash(m)
        PROVE  ResultInv' /\ ResultStep
    <3>1. \A c \in calls' : c.client # "gone" => c \in calls
      BY <2>2, LetGoLeavesWaiting DEF Crash, Halt, TypeOK
    <3> QED
      BY <2>2, <3>1, ResultsUndisturbed DEF Crash, Halt
  <2>3. ASSUME NEW m \in Machine, NEW j \in Job,
               Stop(m) \/ ClaimLost(m, j) \/ StopWhileClaiming(m, j)
        PROVE  ResultInv' /\ ResultStep
    BY <2>3, ResultsUndisturbed DEF Stop, ClaimLost, StopWhileClaiming, agentVars
  <2>4. ASSUME NEW m \in Machine, Stop(m)
        PROVE  ResultInv' /\ ResultStep
    BY <2>4, ResultsUndisturbed DEF Stop
  <2> QED
    BY <1>5, <2>1, <2>2, <2>3, <2>4 DEF Faulty
<1>6. CASE UNCHANGED vars
  BY <1>6, ResultsUndisturbed DEF vars
<1> QED
  BY <1>1, <1>2, <1>3, <1>4, <1>5, <1>6 DEF Next

\* An agent drops a persisted result only when the gateway has recorded that very
\* result or the cancellation of the job (OutcomeQueue.flush), whatever crashed,
\* was replaced or was given up on in between.
THEOREM ResultsAreNotLost == Spec => ResultKept
<1>1. Init => ResultInv
  BY DEF Init, ResultInv, OneResultAtATime
<1>2. TypeOK /\ ResultInv /\ [Next]_vars => ResultInv'
  BY ResultsKeptStep
<1>3. TypeOK /\ ResultInv /\ [Next]_vars
        => [\A m \in Machine, j \in Job :
              outbox[m][j] # "none" /\ outbox'[m][j] = "none" =>
                  \/ jobs'[j].status = outbox[m][j]
                  \/ jobs'[j].status = "cancelled" /\ jobs'[j].cancel]_vars
  BY ResultsKeptStep DEF ResultStep
<1> QED
  BY <1>1, <1>2, <1>3, TypeCorrect, PTL DEF Spec, ResultKept

-------------------------------------------------------------------------------
(***************************************************************************)
(* What becomes of a row that ended, and of one that a machine holds, when  *)
(* handlers write over rows they read earlier.  The statements that ask the *)
(* row before they write it leave an end alone and leave a held row an      *)
(* owner and a lease.  The others are those of a handler that is still to   *)
(* write, and a row that ended gives no handler a reason to.                *)
(***************************************************************************)
EndStays(j) ==
    jobs[j].status \in Terminal /\ Writers(j, {"begin", "pick"}) = {} =>
        jobs'[j].status \in Terminal /\ Writers(j, {"begin", "pick"})' = {}

ResultStays(j) ==
    jobs[j].status \in Results /\ Writers(j, {"begin", "pick", "outcome"}) = {} =>
        /\ jobs'[j].status = jobs[j].status
        /\ Writers(j, {"begin", "pick", "outcome"})' = {}

ReachStays(j) ==
    /\ Reachable(jobs[j])
    /\ jobs[j].status \in Leased \/ Writers(j, {"begin"}) = {}
    => Reachable(jobs'[j])

RowsStand == \A j \in Job : EndStays(j) /\ ResultStays(j) /\ ReachStays(j)

\* what a statement that makes row of j's row has to show
Stands(j, row) ==
    /\ jobs[j].status \in Terminal /\ Writers(j, {"begin", "pick"}) = {} =>
          row.status \in Terminal
    /\ jobs[j].status \in Results /\ Writers(j, {"begin", "pick", "outcome"}) = {} =>
          row.status = jobs[j].status
    /\ Reachable(jobs[j]) /\ (jobs[j].status \in Leased \/ Writers(j, {"begin"}) = {}) =>
          Reachable(row)

\* every handler that is to write was one before the step
NoNewWriters ==
    \A c \in calls' : c.op \in {"begin", "pick", "outcome"} =>
        \E d \in calls : d.op = c.op /\ d.job = c.job

\* An end, asked by the statement that writes it, stays.
LEMMA EndedRow ==
    ASSUME NEW row \in Row, row.status \in Terminal
    PROVE  /\ row # Absent
           /\ ~Cancellable(row)
           /\ ~ConversationOpen(row)
           /\ Swept(row) = row
           /\ \A m \in Machine : Renewed(row, m) = row /\ ~Claimable(row, m)
<1> USE DEF Terminal, Results, Leased, Waiting
<1>1. row # Absent
  BY DEF Absent, NewRow
<1>2. ~Cancellable(row) /\ ~ConversationOpen(row)
  BY DEF Cancellable, ConversationOpen
<1>3. Swept(row) = row
  BY DEF Swept, AbandonedUnstarted, Stalled
<1>4. \A m \in Machine : Renewed(row, m) = row /\ ~Claimable(row, m)
  BY DEF Renewed, Claimable, AbandonedUnstarted
<1> QED
  BY <1>1, <1>2, <1>3, <1>4

\* A row the sweep can reach stays one, but for the mark of a late start.
LEMMA ReachableRow ==
    ASSUME NEW row \in Row, Reachable(row)
    PROVE  /\ Reachable(CancelAsked(row))
           /\ Reachable(ConversationCancelled(row))
           /\ Reachable(Expired(row))
           /\ Reachable(Swept(row))
           /\ row.status \in Leased => Reachable(Begun(row))
           /\ \A m \in Machine : /\ Reachable(Claimed(row, m))
                                 /\ Reachable(Renewed(row, m))
                                 /\ Reachable(Picked(row, m))
           /\ \A result \in Results : Reachable(Closed(row, result))
<1> USE DEF Row, Reachable, Leased, Waiting, Terminal, Results
<1>1. Reachable(CancelAsked(row)) /\ Reachable(ConversationCancelled(row))
  BY DEF CancelAsked, ConversationCancelled
<1>2. Reachable(Expired(row)) /\ Reachable(Swept(row))
  BY DEF Expired, Swept, AbandonedUnstarted, Stalled, Requeued
<1>3. row.status \in Leased => Reachable(Begun(row))
  BY DEF Begun
<1>4. \A m \in Machine : Reachable(Claimed(row, m)) /\ Reachable(Renewed(row, m))
  BY NoMachineAssumption DEF Claimed, Renewed
<1>5. \A m \in Machine : Reachable(Picked(row, m))
  BY DEF Picked
<1>6. \A result \in Results : Reachable(Closed(row, result))
  BY DEF Closed
<1> QED
  BY <1>1, <1>2, <1>3, <1>4, <1>5, <1>6

LEMMA NoWriterAppears ==
    ASSUME NoNewWriters, NEW j, NEW ops \in SUBSET {"begin", "pick", "outcome"},
           Writers(j, ops) = {}
    PROVE  Writers(j, ops)' = {}
  BY DEF NoNewWriters, Writers

\* Steps that leave the table alone and bring no writer.
LEMMA TableAlone ==
    ASSUME jobs' = jobs, NoNewWriters
    PROVE  RowsStand
  BY NoWriterAppears DEF RowsStand, EndStays, ResultStays, ReachStays

\* A statement on one row.
LEMMA OneRowStands ==
    ASSUME TypeOK, NEW j \in Job, NEW row, SetRow(j, row), Stands(j, row), NoNewWriters
    PROVE  RowsStand
<1>1. jobs'[j] = row /\ \A i \in Job \ {j} : jobs'[i] = jobs[i]
  BY DEF SetRow, TypeOK
<1>2. ASSUME NEW i \in Job
      PROVE  EndStays(i) /\ ResultStays(i)
  BY <1>1, NoWriterAppears DEF EndStays, ResultStays, Stands
<1>3. ASSUME NEW i \in Job
      PROVE  ReachStays(i)
  BY <1>1 DEF ReachStays, Stands
<1> QED
  BY <1>2, <1>3 DEF RowsStand

\* A handler enters that is not to write, or whose row has not ended.
LEMMA ReaderEnters ==
    ASSUME TypeOK, jobs' = jobs, NEW c, Enter(c), c.job \in Job,
           c.op \in {"begin", "pick"} => jobs[c.job].status \notin Terminal,
           c.op = "outcome" => jobs[c.job].status \notin Results
    PROVE  RowsStand
<1>1. \A d \in calls' : d \in calls \/ d = c
  BY DEF Enter
<1>2. ASSUME NEW j \in Job
      PROVE  EndStays(j) /\ ResultStays(j) /\ ReachStays(j)
  BY <1>1 DEF EndStays, ResultStays, ReachStays, Writers, Terminal
<1> QED
  BY <1>2 DEF RowsStand

\* Clients that are let go of leave their handlers what they were.
LEMMA NoWriterOfLetGo ==
    ASSUME TypeOK, NEW set, NEW fate, calls' = LetGo(set, fate)
    PROVE  NoNewWriters
  BY LetGoKeeps DEF NoNewWriters, TypeOK

LEMMA NoWriterOfFewer ==
    ASSUME calls' \subseteq calls
    PROVE  NoNewWriters
  BY DEF NoNewWriters

LEMMA UsersStand ==
    ASSUME TypeOK, Users
    PROVE  RowsStand
<1>1. \A j \in Job : jobs[j] \in Row
  BY DEF TypeOK
<1>2. ASSUME NEW j \in Job, NEW kind \in KindsInUse, Submit(j, kind)
      PROVE  RowsStand
  <2>1. PICK t \in Machine \cup {NoMachine}, status \in Waiting :
            SetRow(j, NewRow(kind, status, t))
    BY <1>2 DEF Submit, Waiting
  <2>2. Stands(j, NewRow(kind, status, t))
    BY <1>2 DEF Submit, Stands, NewRow, Absent, Reachable, Leased, Waiting, Terminal, Results
  <2> QED
    BY <1>2, <2>1, <2>2, OneRowStands, NoWriterOfFewer DEF Submit
<1>3. ASSUME NEW j \in Job, RequestCancel(j)
      PROVE  RowsStand
  <2>1. Stands(j, CancelAsked(jobs[j]))
    BY <1>1, <1>3, EndedRow, ReachableRow DEF RequestCancel, Stands, Terminal
  <2> QED
    BY <1>3, <2>1, OneRowStands, NoWriterOfFewer DEF RequestCancel
<1>4. ASSUME NEW j \in Job, CloseConversation(j)
      PROVE  RowsStand
  <2>1. Stands(j, ConversationCancelled(jobs[j]))
    BY <1>1, <1>4, EndedRow, ReachableRow DEF CloseConversation, Stands, Terminal
  <2> QED
    BY <1>4, <2>1, OneRowStands, NoWriterOfFewer DEF CloseConversation
<1>5. ASSUME NEW j \in Job, NEW m \in Machine, PickRead(j, m)
      PROVE  RowsStand
  BY <1>5, ReaderEnters DEF PickRead, NewCall, Terminal, Results
<1> QED
  BY <1>2, <1>3, <1>4, <1>5 DEF Users

LEMMA TimeStands ==
    ASSUME TypeOK, Sweep \/ \E j \in Job : Lapse(j)
    PROVE  RowsStand
<1>1. \A j \in Job : jobs[j] \in Row
  BY DEF TypeOK
<1>2. CASE Sweep
  <2>1. \A j \in Job : jobs'[j] = Swept(jobs[j])
    BY <1>2 DEF Sweep
  <2>2. NoNewWriters
    BY <1>2, NoWriterOfFewer DEF Sweep
  <2>3. \A j \in Job : EndStays(j) /\ ResultStays(j)
    BY <1>1, <2>1, <2>2, EndedRow, NoWriterAppears DEF EndStays, ResultStays, Terminal
  <2>4. \A j \in Job : ReachStays(j)
    BY <1>1, <2>1, ReachableRow DEF ReachStays
  <2> QED
    BY <2>3, <2>4 DEF RowsStand
<1>3. ASSUME NEW j \in Job, Lapse(j)
      PROVE  RowsStand
  <2>1. Stands(j, Expired(jobs[j]))
    BY <1>1, <1>3, ReachableRow DEF Lapse, Stands, Leased, Terminal, Results
  <2> QED
    BY <1>3, <2>1, OneRowStands, NoWriterOfFewer DEF Lapse
<1> QED
  BY <1>2, <1>3

LEMMA HandlersStand ==
    ASSUME TypeOK, NEW c \in calls, Handler(c)
    PROVE  RowsStand
<1>1. /\ c \in Call
      /\ c.job \in Job
      /\ c.by \in Machine
      /\ c.op = "outcome" => c.say \in Results
      /\ jobs[c.job] \in Row
  BY DEF TypeOK, Call
<1>2. \A ops : c.op \in ops => Writers(c.job, ops) # {}
  BY DEF Writers
<1>3. CASE PickWrite(c)
  <2>1. Stands(c.job, Picked(jobs[c.job], c.by))
    BY <1>1, <1>2, <1>3, ReachableRow DEF PickWrite, Stands
  <2> QED
    BY <1>1, <1>3, <2>1, OneRowStands, NoWriterOfFewer DEF PickWrite
<1>4. CASE EventsBegin(c)
  <2>1. Stands(c.job, Begun(jobs[c.job]))
    BY <1>1, <1>2, <1>4, ReachableRow DEF EventsBegin, Stands
  <2>2. [c EXCEPT !.op = "renew"].op = "renew"
    BY <1>1 DEF Call
  <2>3. NoNewWriters
    BY <1>4, <2>2 DEF EventsBegin, NoNewWriters
  <2> QED
    BY <1>1, <1>4, <2>1, <2>3, OneRowStands DEF EventsBegin
<1>5. CASE EventsRenew(c) \/ ControlRenew(c)
  <2>1. Stands(c.job, Renewed(jobs[c.job], c.by))
    BY <1>1, EndedRow, ReachableRow DEF Stands, Terminal
  <2> QED
    BY <1>1, <1>5, <2>1, OneRowStands, NoWriterOfFewer DEF EventsRenew, ControlRenew
<1>6. CASE OutcomeWrite(c)
  <2>1. Stands(c.job, Closed(jobs[c.job], c.say))
    BY <1>1, <1>2, <1>6, ReachableRow DEF OutcomeWrite, Stands, Closed, Row, Terminal
  <2> QED
    BY <1>1, <1>6, <2>1, OneRowStands, NoWriterOfFewer DEF OutcomeWrite
<1> QED
  BY <1>3, <1>4, <1>5, <1>6 DEF Handler

\* A claim is one statement: it asks the row and writes it.
LEMMA TakeStands ==
    ASSUME TypeOK, NEW m \in Machine, NEW j \in Job, TakesJob(m, j), calls' = calls
    PROVE  RowsStand
<1>1. jobs[j] \in Row
  BY DEF TypeOK
<1>2. Stands(j, Claimed(jobs[j], m))
  BY <1>1, EndedRow, ReachableRow DEF TakesJob, Stands, Terminal
<1> QED
  BY <1>2, OneRowStands, NoWriterOfFewer DEF TakesJob

LEMMA AgentsStand ==
    ASSUME TypeOK, NEW m \in Machine, Agent(m) \/ Exit(m) \/ Restart(m)
    PROVE  RowsStand
<1>1. ASSUME NEW j \in Job, Claim(m, j)
      PROVE  RowsStand
  BY <1>1, TakeStands DEF Claim
<1>2. ASSUME NEW j \in Job, EventsRead(m, j)
      PROVE  RowsStand
  BY <1>2, ReaderEnters DEF EventsRead, NewCall
<1>3. ASSUME NEW j \in Job, ControlRead(m, j)
      PROVE  RowsStand
  BY <1>3, ReaderEnters DEF ControlRead, NewCall
<1>4. ASSUME NEW j \in Job, OutcomeRead(m, j)
      PROVE  RowsStand
  BY <1>4, ReaderEnters DEF OutcomeRead, AnswerTo, NewCall
<1>5. ASSUME NEW result \in Results, Finish(m, result)
      PROVE  RowsStand
  BY <1>5, TableAlone, NoWriterOfLetGo DEF Finish
<1>6. CASE Close(m) \/ Exit(m)
  BY <1>6, TableAlone, NoWriterOfLetGo DEF Close, Exit, Halt
<1>7. CASE Emit(m) \/ Restart(m)
  BY <1>7, TableAlone, NoWriterOfFewer DEF Emit, Restart
<1>8. ASSUME NEW j \in Job,
             EventsIgnored(m, j) \/ ControlOfEnded(m, j) \/ OutcomeRepeated(m, j)
      PROVE  RowsStand
  BY <1>8, TableAlone, NoWriterOfFewer
     DEF EventsIgnored, ControlOfEnded, OutcomeRepeated
<1> QED
  BY <1>1, <1>2, <1>3, <1>4, <1>5, <1>6, <1>7, <1>8 DEF Agent

LEMMA FaultsStand ==
    ASSUME TypeOK, Faulty
    PROVE  RowsStand
<1>1. ASSUME NEW c \in calls, GiveUp(c)
      PROVE  RowsStand
  BY <1>1, TableAlone, NoWriterOfLetGo DEF GiveUp
<1>2. ASSUME NEW c \in calls, HandlerFails(c)
      PROVE  RowsStand
  BY <1>2, TableAlone, NoWriterOfFewer DEF HandlerFails
<1>3. ASSUME NEW m \in Machine, Stop(m)
      PROVE  RowsStand
  BY <1>3, TableAlone, NoWriterOfFewer DEF Stop
<1>4. ASSUME NEW m \in Machine, Crash(m)
      PROVE  RowsStand
  BY <1>4, TableAlone, NoWriterOfLetGo DEF Crash, Halt
<1>5. ASSUME NEW m \in Machine, NEW j \in Job, ClaimLost(m, j) \/ StopWhileClaiming(m, j)
      PROVE  RowsStand
  BY <1>5, TakeStands DEF ClaimLost, StopWhileClaiming, agentVars
<1> QED
  BY <1>1, <1>2, <1>3, <1>4, <1>5 DEF Faulty

LEMMA StandStep ==
    ASSUME TypeOK, [Next]_vars
    PROVE  RowsStand
<1>1. CASE UNCHANGED vars
  BY <1>1, TableAlone, NoWriterOfFewer DEF vars
<1> QED
  BY <1>1, UsersStand, TimeStands, HandlersStand, AgentsStand, FaultsStand DEF Next

\* However handlers interleave, an end is undone only by one that read the row
\* before it ended (job_late_event): when none is left, no other comes, a job that
\* ended does not live again and one with a result keeps it.
THEOREM EndsAreFinal == Spec => TerminalIsFinal
<1>1. TypeOK /\ [Next]_vars
        => [\A j \in Job :
              /\ jobs[j].status \in Terminal /\ Writers(j, {"begin", "pick"}) = {} =>
                    jobs'[j].status \in Terminal /\ Writers(j, {"begin", "pick"})' = {}
              /\ jobs[j].status \in Results /\ Writers(j, {"begin", "pick", "outcome"}) = {} =>
                    /\ jobs'[j].status = jobs[j].status
                    /\ Writers(j, {"begin", "pick", "outcome"})' = {}]_vars
  BY StandStep DEF RowsStand, EndStays, ResultStays
<1> QED
  BY <1>1, TypeCorrect, PTL DEF Spec, TerminalIsFinal

\* However handlers interleave, a row the sweep can reach stays within its reach,
\* unless a handler marks the start of a job that ended, or went back to the queue,
\* after the handler read it (luxy_expire_leases skips rows without a lease).
THEOREM LeasesCanLapse == Spec => Recoverable
<1>1. TypeOK /\ [Next]_vars
        => [\A j \in Job :
              /\ Reachable(jobs[j])
              /\ jobs[j].status \in Leased \/ Writers(j, {"begin"}) = {}
              => Reachable(jobs'[j])]_vars
  BY StandStep DEF RowsStand, ReachStays
<1> QED
  BY <1>1, TypeCorrect, PTL DEF Spec, Recoverable
===============================================================================
