\* A machine button pressed while another machine claims the job.
SPECIFICATION Spec
CONSTANTS
    Job = {j1}
    Machine = {m1, m2}
    NoMachine = NoMachine
    NoJob = NoJob
    KindsInUse = {"choice"}
    Serialised = FALSE
    MaxCalls = 2
    MaxFaults = 0
    CanRun <- EveryMachineRunsAll
PROPERTIES StartedStaysOut
CHECK_DEADLOCK FALSE
