\* One job, two machines, handlers that interleave.
SPECIFICATION Spec
CONSTANTS
    Job = {j1}
    Machine = {m1, m2}
    NoMachine = NoMachine
    NoJob = NoJob
    KindsInUse = {"conversation", "telegram"}
    Serialised = FALSE
    MaxCalls = 3
    MaxFaults = 2
    CanRun <- EveryMachineRunsAll
SYMMETRY Symmetric
INVARIANTS TypeOK OneExecutor
PROPERTIES StartedStaysOut Assignment ResultKept TerminalIsFinal Recoverable
CHECK_DEADLOCK FALSE
