\* Two conversations, one of them in use, and three calls of the button.
SPECIFICATION FairSpec
CONSTANTS
    c1 = c1
    c2 = c2
    everything = everything
    panel = panel
    first = first
    second = second
    Conversation = {c1, c2}
    Chatting = {c1}
    Changing = {c1}
    Waiter = {c1, panel}
    Call = {everything, first, second}
    Wants <- OneOfEach
INVARIANTS TypeOK AloneMeansAlone
PROPERTIES PassDiesWithItsSession ServedByALaterPass GraceIsKept NobodyWaitsForEver ClosesInTheEnd
CHECK_DEADLOCK FALSE
