----------------------------- MODULE JobAssignment -----------------------------
(***************************************************************************)
(* What the job queue promises about who does a job, whatever interleaves   *)
(* and whatever fails: a job is bound to one machine at most, for good;     *)
(* only that machine ever runs it; and once a run has been seen to begin,   *)
(* the job is not run again.  It may be run more than once before that,     *)
(* because a claim nobody followed up is handed out again.                  *)
(*                                                                         *)
(* JobLifecycle implements this specification (Assignment there).           *)
(***************************************************************************)
CONSTANTS Job, Machine, Nobody, NoJob

VARIABLES
    holder,   \* the machine each job is bound to, or Nobody
    begun,    \* the jobs a run of which has been recorded
    runs      \* the job each machine is running, or NoJob

vars == <<holder, begun, runs>>

Init ==
    /\ holder = [j \in Job |-> Nobody]
    /\ begun = {}
    /\ runs = [m \in Machine |-> NoJob]

Bind(j, m) ==
    /\ holder[j] = Nobody
    /\ holder' = [holder EXCEPT ![j] = m]
    /\ UNCHANGED <<begun, runs>>

Run(m, j) ==
    /\ runs[m] = NoJob
    /\ j \notin begun
    /\ holder[j] \in {Nobody, m}
    /\ holder' = [holder EXCEPT ![j] = m]
    /\ runs' = [runs EXCEPT ![m] = j]
    /\ UNCHANGED begun

Begin(j) ==
    /\ holder[j] # Nobody
    /\ begun' = begun \cup {j}
    /\ UNCHANGED <<holder, runs>>

Rest(m) ==
    /\ runs' = [runs EXCEPT ![m] = NoJob]
    /\ UNCHANGED <<holder, begun>>

Next ==
    \/ \E j \in Job, m \in Machine : Bind(j, m) \/ Run(m, j)
    \/ \E j \in Job : Begin(j)
    \/ \E m \in Machine : Rest(m)

Spec == Init /\ [][Next]_vars
===============================================================================
