\* A Studio job and a Telegram job on one machine, two presses, a list that
\* shows one order at a time.
SPECIFICATION FairSpec
CONSTANTS
    m1 = m1
    js = js
    jt = jt
    Job = {js, jt}
    StudioJob = {js}
    Machine = {m1}
    Owner <- AllOnOne
    Forbidden = {}
    Offered <- SomeButtons
    PageSize = 1
    MaxPresses = 2
    MaxFaults = 1
INVARIANTS TypeOK OnceUnlessCrashed VerdictIsTrue NoJobLeftWaiting StudioIsToldTheTruth
PROPERTY OrdersAreServed
CHECK_DEADLOCK FALSE
