SPECIFICATION Spec
CONSTANTS
    wR = wR
    bR = bR
    bK = bK
    bP = bP
    NoPiece = NoPiece
    Piece <- DuelPiece
    PieceColor <- DuelColor
    InitKind <- DuelKind
    InitCell <- DuelCell
    Width = 5
    Height = 2
    Verdicts = {"none"}
    TickMs = 4
    MsPerSquare = 4
    JumpMs = 8
    LongRestMs = 7
    ShortRestMs = 5
INVARIANT LoopNeverDies
