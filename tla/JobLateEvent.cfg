\* A late event against a cancelled conversation.
SPECIFICATION Spec
CONSTANTS
    Job = {j1}
    Machine = {m1, m2}
    NoMachine = NoMachine
    NoJob = NoJob
    KindsInUse = {"conversation"}
    Serialised = FALSE
    MaxCalls = 2
    MaxFaults = 0
    CanRun <- EveryMachineRunsAll
PROPERTIES LateEventKeepsEnd
CHECK_DEADLOCK FALSE
