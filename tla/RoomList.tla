------------------------------- MODULE RoomList -------------------------------
(***************************************************************************)
(* The room list.  Every job that changes what a client can see of a room   *)
(* ends in BroadcastRoomList: it makes a list under RoomManager's READ_LOCK *)
(* and sends it to every session.  A client that logs in or asks gets one   *)
(* made on its own thread.  The list reads _playerCount and _isStarted of   *)
(* each room, which are atomic and which the room's jobs change meanwhile.  *)
(*                                                                          *)
(* A room runs one job at a time (JobQueue); which jobs are pushed is       *)
(* GameRooms' subject, and so is who is in the room.  Here a job is what it *)
(* does to the two atomics and to _rooms.  The sessions stay connected, and *)
(* names are left out.                                                      *)
(***************************************************************************)
EXTENDS Integers, FiniteSetsExt

CONSTANTS
    Rooms,                  \* bound: the roomIds, which order _rooms
    Clients,                \* the sessions in GameSessionManager
    NoNumber,               \* no count was read
    MAX_PLAYERS,            \* Room::MAX_PLAYERS
    MaxEntries,             \* the entries of SC_ROOM_LIST_PKT
    MaxJobs,                \* bound: the jobs that change a room
    MaxRequests             \* bound: the lists made for one client

ASSUME RoomsAssumption == Rooms \subseteq Nat
ASSUME ClientsAssumption == Clients \cap Rooms = {}
ASSUME SizesAssumption == {MAX_PLAYERS, MaxEntries} \subseteq Nat \ {0}
ASSUME BoundsAssumption == {MaxJobs, MaxRequests} \subseteq Nat

VARIABLES
    created,                \* the roomIds below _nextRoomId
    rooms,                  \* RoomManager::_rooms
    expected,               \* rooms whose creator's Enter has not run
    count,                  \* _playerCount
    started,                \* _isStarted
    at,                     \* where each maker of lists is
    todo,                   \* the rooms its loop has not passed
    half,                   \* the playerCount of the entry it is making
    entries,                \* the entries it has made
    to,                     \* the clients it has still to send to
    number,                 \* the lists are numbered in the order they were begun
    always, ever,           \* the rooms that were open all the time, or at some
                            \* time, since the list was begun
    newest,                 \* of the lists sent to each client, that begun last
    begun, jobs, requests   \* lists, jobs and requests so far

roomVars == <<created, rooms, expected, count, started>>
scanVars == <<todo, half, entries, to, number>>
vars == <<roomVars, scanVars, at, always, ever, newest, begun, jobs, requests>>

\* A list is made by the thread that runs a room's job, or that handles a
\* client's packet.
Makers == Rooms \cup Clients

IsFull(n) == n >= MAX_PLAYERS
Open(r)   == r \in rooms /\ ~IsFull(count[r]) /\ ~started[r]

Init ==
    /\ created = {} /\ rooms = {} /\ expected = {}
    /\ count = [r \in Rooms |-> 0]
    /\ started = [r \in Rooms |-> FALSE]
    /\ at = [m \in Makers |-> "idle"]
    /\ todo = [m \in Makers |-> {}]
    /\ half = [m \in Makers |-> NoNumber]
    /\ entries = [m \in Makers |-> {}]
    /\ to = [m \in Makers |-> {}]
    /\ number = [m \in Makers |-> 0]
    /\ always = [m \in Makers |-> {}]
    /\ ever = [m \in Makers |-> {}]
    /\ newest = [c \in Clients |-> [number |-> 0, entries |-> {}]]
    /\ begun = 0 /\ jobs = 0 /\ requests = 0

\* A loop of MakeRoomListPacket is under RoomManager's READ_LOCK.
Scanning(m) == at[m] \in {"scan", "test", "entry", "flag"}
WriteLocked == \A m \in Makers : ~Scanning(m)

\* What the lists in the making have seen, after a change of the rooms.
Observe ==
    /\ always' = [m \in Makers |-> IF Scanning(m) THEN {r \in always[m] : Open(r)'} ELSE always[m]]
    /\ ever' = [m \in Makers |-> IF Scanning(m) THEN ever[m] \cup {r \in Rooms : Open(r)'}
                                                ELSE ever[m]]

(***************************************************************************)
(* The rooms.                                                               *)
(***************************************************************************)

\* Handle_CS_CREATE_ROOM: CreateRoom takes the next id under WRITE_LOCK.
CreateRoom(r) ==
    /\ WriteLocked
    /\ r \notin created
    /\ \A q \in Rooms : q < r => q \in created
    /\ created' = created \cup {r}
    /\ rooms' = rooms \cup {r}
    /\ expected' = expected \cup {r}
    /\ UNCHANGED <<count, started, scanVars, at, newest, begun, jobs, requests>>
    /\ Observe

\* A job of r that goes on to where.
Job(r, where) ==
    /\ at[r] = "idle"
    /\ r \in created
    /\ jobs < MaxJobs
    /\ jobs' = jobs + 1
    /\ at' = [at EXCEPT ![r] = where]
    /\ UNCHANGED <<created, rooms, scanVars, newest, begun, requests>>

\* Slip: whether the room is full is not tested.
Enter_Untested(r) ==
    /\ Job(r, "list")
    /\ ~started[r]
    /\ count' = [count EXCEPT ![r] = count[r] + 1]
    /\ expected' \in {expected, expected \ {r}}
    /\ UNCHANGED started
    /\ Observe

Enter(r) ==
    /\ Job(r, "list")
    /\ ~IsFull(count[r]) /\ ~started[r]
    /\ count' = [count EXCEPT ![r] = count[r] + 1]
    /\ expected' \in {expected, expected \ {r}}
    /\ UNCHANGED started
    /\ Observe

\* Only the creator's Enter matters to anyone when it is refused.
EnterRefused(r) ==
    /\ at[r] = "idle"
    /\ r \in expected
    /\ IsFull(count[r]) \/ started[r]
    /\ expected' = expected \ {r}
    /\ UNCHANGED <<created, rooms, count, started, scanVars, at, always, ever, newest,
                   begun, jobs, requests>>

\* The room is empty at the latest when the count is 0: a player who entered
\* twice is counted twice and leaves once.
Leave(r) ==
    /\ count[r] > 0
    /\ \/ Job(r, "remove")
       \/ count[r] > 1 /\ Job(r, "list")
    /\ count' = [count EXCEPT ![r] = count[r] - 1]
    /\ UNCHANGED <<started, expected>>
    /\ Observe

\* Slip: after the removal there is no broadcast.
RemoveRoom_Unannounced(r) ==
    /\ at[r] = "remove"
    /\ WriteLocked
    /\ rooms' = rooms \ {r}
    /\ at' = [at EXCEPT ![r] = "idle"]
    /\ UNCHANGED <<created, expected, count, started, scanVars, newest, begun, jobs, requests>>
    /\ Observe

\* Under WRITE_LOCK.
RemoveRoom(r) ==
    /\ at[r] = "remove"
    /\ WriteLocked
    /\ rooms' = rooms \ {r}
    /\ at' = [at EXCEPT ![r] = "list"]
    /\ UNCHANGED <<created, expected, count, started, scanVars, newest, begun, jobs, requests>>
    /\ Observe

\* By the owner: a room that nobody entered has none, and one that is empty again
\* keeps its last one.
HandleStartGame(r) ==
    /\ Job(r, "list")
    /\ count[r] > 0 \/ r \notin rooms
    /\ started' = [started EXCEPT ![r] = TRUE]
    /\ UNCHANGED <<count, expected>>
    /\ Observe

\* Two players or more, at most one of them alive.
CheckGameEnd(r) ==
    /\ Job(r, "list")
    /\ count[r] > 1
    /\ started' = [started EXCEPT ![r] = FALSE]
    /\ UNCHANGED <<count, expected>>
    /\ Observe

\* Handle_CS_REQUEST_ROOM_LIST, and the end of Handle_CS_LOGIN.
RequestRoomList(c) ==
    /\ at[c] = "idle"
    /\ requests < MaxRequests
    /\ requests' = requests + 1
    /\ at' = [at EXCEPT ![c] = "list"]
    /\ UNCHANGED <<roomVars, scanVars, always, ever, newest, begun, jobs>>

(***************************************************************************)
(* MakeRoomListPacket: one step for each read of an atomic.                 *)
(***************************************************************************)

BeginList(m) ==
    /\ at[m] = "list"
    /\ at' = [at EXCEPT ![m] = "scan"]
    /\ todo' = [todo EXCEPT ![m] = rooms]
    /\ entries' = [entries EXCEPT ![m] = {}]
    /\ begun' = begun + 1
    /\ number' = [number EXCEPT ![m] = begun']
    /\ always' = [always EXCEPT ![m] = {r \in rooms : Open(r)}]
    /\ ever' = [ever EXCEPT ![m] = {r \in rooms : Open(r)}]
    /\ UNCHANGED <<roomVars, half, to, newest, jobs, requests>>

Current(m) == Min(todo[m])

ScanStep(m, from, where) ==
    /\ at[m] = from
    /\ at' = [at EXCEPT ![m] = where]
    /\ UNCHANGED <<roomVars, number, always, ever, newest, begun, jobs, requests>>

Pass(m) == todo' = [todo EXCEPT ![m] = todo[m] \ {Current(m)}]

More(m) == todo[m] # {} /\ Cardinality(entries[m]) < MaxEntries

\* room->IsFull() ...
TestFull(m) ==
    /\ More(m)
    /\ IF IsFull(count[Current(m)])
       THEN ScanStep(m, "scan", "scan") /\ Pass(m)
       ELSE ScanStep(m, "scan", "test") /\ UNCHANGED todo
    /\ UNCHANGED <<half, entries, to>>

\* Slip: a started room is passed, but ends the loop.
TestStarted_Breaks(m) ==
    /\ at[m] = "test"
    /\ IF started[Current(m)]
       THEN ScanStep(m, "test", "scan") /\ todo' = [todo EXCEPT ![m] = {}]
       ELSE ScanStep(m, "test", "entry") /\ UNCHANGED todo
    /\ UNCHANGED <<half, entries, to>>

\* ... || room->IsStarted()
TestStarted(m) ==
    /\ at[m] = "test"
    /\ IF started[Current(m)]
       THEN ScanStep(m, "test", "scan") /\ Pass(m)
       ELSE ScanStep(m, "test", "entry") /\ UNCHANGED todo
    /\ UNCHANGED <<half, entries, to>>

ReadCount(m) ==
    /\ ScanStep(m, "entry", "flag")
    /\ half' = [half EXCEPT ![m] = count[Current(m)]]
    /\ UNCHANGED <<todo, entries, to>>

ReadStarted(m) ==
    /\ at[m] = "flag"
    /\ ScanStep(m, "flag", "scan")
    /\ LET r == Current(m) IN
       entries' = [entries EXCEPT ![m] =
                      @ \cup {[room |-> r, count |-> half[m], started |-> started[r]]}]
    /\ half' = [half EXCEPT ![m] = NoNumber]
    /\ Pass(m)
    /\ UNCHANGED to

\* The lock is released; the list goes to every session, or to the client.
EndList(m) ==
    /\ ~More(m)
    /\ ScanStep(m, "scan", "send")
    /\ todo' = [todo EXCEPT ![m] = {}]
    /\ to' = [to EXCEPT ![m] = IF m \in Rooms THEN Clients ELSE {m}]
    /\ UNCHANGED <<half, entries>>

\* The last one drops the list.
Send(m, c) ==
    /\ at[m] = "send"
    /\ c \in to[m]
    /\ to' = [to EXCEPT ![m] = to[m] \ {c}]
    /\ newest' = IF number[m] > newest[c].number
                 THEN [newest EXCEPT ![c] = [number |-> number[m], entries |-> entries[m]]]
                 ELSE newest
    /\ IF to[m] # {c}
       THEN UNCHANGED <<at, entries, number, always, ever>>
       ELSE /\ at' = [at EXCEPT ![m] = "idle"]
            /\ number' = [number EXCEPT ![m] = 0]
            /\ entries' = [entries EXCEPT ![m] = {}]
            /\ always' = [always EXCEPT ![m] = {}]
            /\ ever' = [ever EXCEPT ![m] = {}]
    /\ UNCHANGED <<roomVars, todo, half, begun, jobs, requests>>

Next ==
    \/ \E r \in Rooms :
          \/ CreateRoom(r) \/ RemoveRoom(r)
          \/ Enter(r) \/ EnterRefused(r) \/ Leave(r) \/ HandleStartGame(r) \/ CheckGameEnd(r)
    \/ \E c \in Clients : RequestRoomList(c)
    \/ \E m \in Makers :
          \/ BeginList(m) \/ TestFull(m) \/ TestStarted(m) \/ ReadCount(m) \/ ReadStarted(m)
          \/ EndList(m)
          \/ \E c \in Clients : Send(m, c)

Spec == Init /\ [][Next]_vars

-------------------------------------------------------------------------------

Entries == [room : Rooms, count : 0..MAX_PLAYERS, started : BOOLEAN]

\* Every variable has its type.
TypeOK ==
    /\ rooms \subseteq created /\ created \subseteq Rooms
    /\ expected \subseteq created
    /\ count \in [Rooms -> 0..MAX_PLAYERS]
    /\ started \in [Rooms -> BOOLEAN]
    /\ at \in [Makers -> {"idle", "remove", "list", "scan", "test", "entry", "flag", "send"}]
    /\ todo \in [Makers -> SUBSET Rooms]
    /\ half \in [Makers -> 0..MAX_PLAYERS \cup {NoNumber}]
    /\ \A m \in Makers : entries[m] \subseteq Entries
    /\ to \in [Makers -> SUBSET Clients]
    /\ \A m \in Makers : number[m] \in 0..begun
    /\ \A m \in Makers : always[m] \subseteq ever[m] /\ ever[m] \subseteq Rooms
    /\ \A c \in Clients : newest[c].number \in 0..begun /\ newest[c].entries \subseteq Entries
    /\ jobs \in 0..MaxJobs /\ requests \in 0..MaxRequests

Listed(list) == {e.room : e \in list}

\* RoomManager.cpp:49, as far as it holds while rooms change under the loop:
\* a listed room was open at some time, a room that was open all the time is
\* listed unless the packet was full before it, and only a room that changed
\* meanwhile is shown full or started.
ListIsPlausible ==
    \A m \in Makers : at[m] = "send" =>
        /\ Listed(entries[m]) \subseteq ever[m]
        /\ \A r \in always[m] \ Listed(entries[m]) :
              Cardinality({q \in Listed(entries[m]) : q < r}) >= MaxEntries
        /\ \A e \in entries[m] : e.started \/ IsFull(e.count) => e.room \notin always[m]

Quiet == expected = {} /\ \A m \in Makers : at[m] = "idle"

\* The entries a list would have now.
Shown(r) == Open(r) /\ Cardinality({q \in Rooms : q < r /\ Open(q)}) < MaxEntries
Truth == {[room |-> r, count |-> count[r], started |-> started[r]] : r \in {r \in Rooms : Shown(r)}}

\* When nothing is under way, each client was sent the list as it is now, and
\* no list made later: every job announces what it changed, whatever lists of
\* other rooms and requests are in the making.  It need not be the list that
\* the client was sent last, for a list may be overtaken.
NewestIsTrue == Quiet => \A c \in Clients : newest[c].entries = Truth

===============================================================================
