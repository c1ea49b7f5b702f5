SPECIFICATION Spec
CONSTANTS
    Conn = {c1}
    Room = {r1}
    Session = {s1, s2}
    User = {alice, bob, carol}
    JoinNames = {alice, bob, carol}
    Anonymous = Anonymous
    NoRoom = NoRoom
    NoSession = NoSession
    NoName = NoName
SYMMETRY Interchangeable
VIEW Reachable
INVARIANTS
    TypeOK
    ColorsDistinct
    RoomEntriesLive
    LiveRoomTicks
