\* Two conversations one agent takes in turn, handlers that interleave.
SPECIFICATION Spec
CONSTANTS
    Job = {j1, j2}
    Machine = {m1}
    NoMachine = NoMachine
    NoJob = NoJob
    KindsInUse = {"conversation"}
    Serialised = FALSE
    MaxCalls = 2
    MaxFaults = 0
    CanRun <- EveryMachineRunsAll
SYMMETRY SymmetricJobs
INVARIANTS AbortIsForThisJob
CHECK_DEADLOCK FALSE
