\* One job whose changes the user decides about.
SPECIFICATION DecidedSpec
CONSTANTS
    Job = {j1}
    MaxPending = 2
    BatchSize = 1
    MaxEmitted = 3
    MaxLate = 1
INVARIANTS NumbersNeverRepeat
CHECK_DEADLOCK FALSE
