\* One client and one room are enough for a player who stays behind.
CONSTANTS
    Sessions = {s1}
    Players = {p1}
    Rooms = {r1}
    Looks = {l1}
    FirstLook = l1
    Places = {}
    Nothing = Nothing
    NoSession = NoSession
    NoPlayer = NoPlayer
    NoRoom = NoRoom
    NoPush = NoPush
    MAX_PLAYERS = 2
    MaxJobs = 3
SPECIFICATION Spec
PROPERTIES GoneClientsLeave
CHECK_DEADLOCK FALSE
