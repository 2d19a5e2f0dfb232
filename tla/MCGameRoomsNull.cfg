\* One client that leaves its room while it is disconnected.
CONSTANTS
    Sessions = {s1}
    Players = {p1}
    Rooms = {r1}
    Looks = {l1}
    FirstLook = l1
    Places = {}
    Nothing = Nothing
    NoSession = NoSession
    NoPlayer = NoPlayer
    NoRoom = NoRoom
    NoPush = NoPush
    MAX_PLAYERS = 2
    MaxJobs = 3
SPECIFICATION Spec
INVARIANTS LeaveHasARoom
CHECK_DEADLOCK FALSE
