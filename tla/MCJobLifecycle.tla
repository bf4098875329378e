---------------------------- MODULE MCJobLifecycle ----------------------------
(* Small instances of JobLifecycle for TLC. *)
EXTENDS JobLifecycle, TLC

EveryMachineRunsAll == Machine \X Job
Symmetric == Permutations(Machine)
SymmetricJobs == Permutations(Job)
===============================================================================
