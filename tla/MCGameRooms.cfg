\* Two clients, two players and two rooms for two: a client can log in again, enter
\* two rooms or one room twice; four jobs.
CONSTANTS
    Sessions = {s1, s2}
    Players = {p1, p2}
    Rooms = {r1, r2}
    Looks = {l1, l2}
    FirstLook = l1
    Places = {x1}
    Nothing = Nothing
    NoSession = NoSession
    NoPlayer = NoPlayer
    NoRoom = NoRoom
    NoPush = NoPush
    MAX_PLAYERS = 2
    MaxJobs = 4
SYMMETRY Symmetry
SPECIFICATION Spec
INVARIANTS TypeOK NeverOverfull RoomHasItsPlayer ClientsKnowTheRoom EmptyRoomAwaitsEntry
PROPERTIES PictureIsKept HitsLeaveSomeoneAlive
\* The system stops when every session is closed and the jobs are used up.
CHECK_DEADLOCK FALSE
