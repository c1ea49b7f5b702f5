CONSTANTS
    c1 = c1  c2 = c2  c3 = c3  c4 = c4
    ann = ann  bob = bob  cid = cid
    Conn = {c1, c2, c3, c4}
    User = {ann, bob, cid}
    Name <- MCName
    Rating <- MCRating
    Cancels = {c3}
    Ghosts = {c1}
    EloRange = 0
    WidenStep = 1
    Timeout = 1
    MaxLag = 0
SPECIFICATION FairSpec
INVARIANTS
    EntryBacked
    RoomOfTwo
    OneAnswerPerSearch
    MatchIsMutual
PROPERTY
    SearchEnds
CHECK_DEADLOCK FALSE
