CONSTANTS
    c1 = c1  c2 = c2
    ann = ann  bob = bob
    g1 = g1
    None = None
    Conn = {c1, c2}
    User = {ann, bob}
    Game = {g1}
    Winner <- MCWinner
    Loser <- MCLoser
    DefaultElo = 1200
    Gain <- MCGain
SPECIFICATION FairSpec
INVARIANTS
    OneAccount
PROPERTY
    CacheConverges
CHECK_DEADLOCK FALSE
