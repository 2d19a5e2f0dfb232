\* Two rooms and a list of one entry, so that the order of the rooms matters and a
\* list can be full; two jobs and one request, so that three lists are in
\* the making at once.  Three places, so that a game can end in a room that is not full.
\* What one client is sent does not depend on the others: there is one.
CONSTANTS
    Rooms = {1, 2}
    Clients = {c1}
    NoNumber = NoNumber
    MAX_PLAYERS = 3
    MaxEntries = 1
    MaxJobs = 2
    MaxRequests = 1
SPECIFICATION UpSpec
INVARIANTS TypeOK ListIsPlausible NewestIsTrue
\* The system stops when the jobs and requests are used up.
CHECK_DEADLOCK FALSE
