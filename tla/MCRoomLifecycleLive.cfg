SPECIFICATION FairSpec
CONSTANTS
    Conn = {c1, c2}
    Room = {r1}
    Session = {s1}
    User = {alice, bob}
    JoinNames = {alice, bob}
    Anonymous = Anonymous
    NoRoom = NoRoom
    NoSession = NoSession
    NoName = NoName
INVARIANT VoiceIsBound
PROPERTIES
    SlotsKept
    ArmedTimerSettles
