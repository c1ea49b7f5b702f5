SPECIFICATION Spec
CONSTANTS
    wR = wR
    bR = bR
    bK = bK
    bP = bP
    NoPiece = NoPiece
    Piece <- LinePiece
    PieceColor <- LineColor
    InitKind <- LineKind
    InitCell <- LineCell
    Width = 4
    Height = 1
    Verdicts = {"w", "none"}
    TickMs = 2
    MsPerSquare = 4
    JumpMs = 8
    LongRestMs = 7
    ShortRestMs = 5
INVARIANTS
    TypeOK
    GridCellAgree
    MotionExcludesRest
    StateMatchesArbiter
    MarkerHasJump
PROPERTIES
    AirborneGuarded
    ArrivalSettlesSquare
    NoReturn
    GameOverIsFinal
    ImplementsCooldown
