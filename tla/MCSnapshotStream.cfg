SPECIFICATION Spec
CONSTANTS
    Me = Me  Other = Other  None = None
    MoveTicks = 2  JumpTicks = 2  RestTicks = 1
    Patience = 1
    MaxCommands = 2  MaxInbox = 2
INVARIANTS QuietViewsCurrent EndSeen
CHECK_DEADLOCK FALSE
