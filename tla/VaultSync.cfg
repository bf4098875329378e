\* Two computers that both write, four turns, one of which cannot travel.
SPECIFICATION FairSpec
CONSTANTS
    a = a
    b = b
    Device = {a, b}
    Creator = a
    Writer = {a, b}
    Deleter = {b}
    Unfit <- Stuck
    BatchSize = 2
    FetchChunk = 2
    MaxRounds = 2
    MaxTurns = 4
    MaxFaults = 1
INVARIANTS TypeOK OneStory UnansweredStaysHome FreezingTakesTwoWriters
PROPERTIES NothingLocalIsLost DeletedStaysDeleted Converges RowsStay
CHECK_DEADLOCK FALSE
