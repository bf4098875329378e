\* One job and a queue of two.
SPECIFICATION Spec
CONSTANTS
    Job = {j1}
    MaxPending = 2
    BatchSize = 1
    MaxEmitted = 3
    MaxLate = 1
PROPERTIES PhasesOutliveLogs
CHECK_DEADLOCK FALSE
