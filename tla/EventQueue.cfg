\* Two jobs, a queue of two, one event a request.
SPECIFICATION Spec
CONSTANTS
    Job = {j1, j2}
    MaxPending = 2
    BatchSize = 1
    MaxEmitted = 3
    MaxLate = 1
SYMMETRY Symmetric
INVARIANTS TypeOK NumbersDistinct OrderKept
PROPERTIES NothingVanishes
CHECK_DEADLOCK FALSE
