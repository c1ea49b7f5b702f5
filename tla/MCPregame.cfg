SPECIFICATION FairSpec
CONSTANTS
    Room = {r1, r2}
    None = None
    MaxFlows = 3
    MaxInbox = 1
    MayGiveUp = TRUE
INVARIANTS SeatKnown NothingLeftOver
PROPERTY AnswerComes
CHECK_DEADLOCK FALSE
