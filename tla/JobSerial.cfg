\* One job of any kind, two machines, handlers that do not interleave.
SPECIFICATION FairSpec
CONSTANTS
    Job = {j1}
    Machine = {m1, m2}
    NoMachine = NoMachine
    NoJob = NoJob
    KindsInUse = {"conversation", "telegram", "choice"}
    Serialised = TRUE
    MaxCalls = 1
    MaxFaults = 2
    CanRun <- EveryMachineRunsAll
PROPERTIES JobsEnd
CHECK_DEADLOCK FALSE
