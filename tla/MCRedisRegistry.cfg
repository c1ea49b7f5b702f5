CONSTANTS
    Conn = {c1, c2, c3}
    User = {ann}
    Room = {r1, r2}
    None = None
    MaxFaults = 2
SPECIFICATION Spec
SYMMETRY Symmetry
INVARIANTS
    MembersPointBack
    CheckedIsListed
    AudienceAgrees
PROPERTIES
    ImplementsRegistry
CHECK_DEADLOCK FALSE
