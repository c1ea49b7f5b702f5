SPECIFICATION Spec
CONSTANTS
    White = White  Black = Black  None = None
    c1 = c1  c2 = c2  Cells = {c1, c2}  Outside = Outside
    Reasons = {refused, illegal}
    Boards <- MCBoards
    Mine = White
    AutoResign = 2  ErrorDisplay = 2
    MaxMessages = 3  MaxInbox = 1  MaxMouse = 2
PROPERTIES CountdownFollows RefusalIsShown CommandsLeave
CHECK_DEADLOCK FALSE
