\* A cancellation of a claimed job whose machine never starts it.
SPECIFICATION FairSpec
CONSTANTS
    Job = {j1}
    Machine = {m1, m2}
    NoMachine = NoMachine
    NoJob = NoJob
    KindsInUse = {"telegram"}
    Serialised = TRUE
    MaxCalls = 1
    MaxFaults = 1
    CanRun <- EveryMachineRunsAll
PROPERTIES CancelEndsJob
CHECK_DEADLOCK FALSE
