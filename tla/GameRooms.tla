------------------------------- MODULE GameRooms -------------------------------
(***************************************************************************)
(* GameServer: who is in which room.  The packets of a session are handled  *)
(* one after the other (ClientPacketHandler), its end is handled by         *)
(* GameSession::OnDisconnected on any other thread, and everything a room   *)
(* does is a job in the room's own JobQueue.  JobQueue implements a mailbox *)
(* (JobQueueProofs), so a room is here its mail and the jobs that take it   *)
(* in order, each of them one step: of what a job writes, only player->room *)
(* and the room's entry in RoomManager are read by other threads.           *)
(*                                                                          *)
(* A handler reads player->room or RoomManager in one step and pushes its   *)
(* job in another.  References are never freed while they are in use, so a  *)
(* racing read of one finds the old or the new value.                       *)
(*                                                                          *)
(* How a player looks stands for what other clients are shown of it: its    *)
(* position, colour and mesh.  Left out: the jobs that relay a packet and   *)
(* change nothing that is ever read (animation, items held, thrown or       *)
(* picked up, chat), hit points above zero, and the room list (RoomList).   *)
(***************************************************************************)
EXTENDS Integers, Sequences, SequencesExt, FiniteSetsExt

CONSTANTS
    Sessions,               \* bound: the clients
    Players,                \* bound: the playerIds, one for each login
    Rooms,                  \* bound: the roomIds, one for each CS_CREATE_ROOM
    Looks,                  \* bound: how a player may look
    FirstLook,              \* the defaults of Player
    Places,                 \* bound: where items are dropped, 100 apart
    NoSession, NoPlayer, NoRoom, NoPush, Nothing,
    MAX_PLAYERS,            \* Room::MAX_PLAYERS
    MaxJobs                 \* bound: the jobs pushed in a behaviour

ASSUME NoneAssumption ==
    NoSession \notin Sessions /\ NoPlayer \notin Players /\ NoRoom \notin Rooms
ASSUME LooksAssumption == FirstLook \in Looks /\ Nothing \notin Looks
ASSUME BoundsAssumption == MAX_PLAYERS \in Nat \ {0} /\ MaxJobs \in Nat

VARIABLES
    conn,                   \* "open"; "closing" when _connected was exchanged for
                            \* FALSE; "leaving" inside OnDisconnected; "closed"
    receiving,              \* the session receives, or is in its last OnRecv loop
    player,                 \* GameSession::_player
    owner,                  \* Player::ownerSession; NoSession before the login
    room,                   \* Player::room
    alive,                  \* Player::alive
    look,                   \* Player::x, y, z, yaw, colorIndex, meshIndex
    created,                \* the roomIds below _nextRoomId
    rooms,                  \* RoomManager::_rooms
    members,                \* Room::_players
    count,                  \* _playerCount
    started,                \* _isStarted
    roomOwner,              \* _ownerId
    drops,                  \* _recentDropPositions
    told,                   \* what each client was shown of each player, per room
    mail,                   \* the room's job queue
    pushing,                \* a job that is about to be pushed, per actor
    jobs,                   \* the jobs pushed so far
    crashed                 \* a null RoomRef was dereferenced

roomVars == <<created, rooms, members, count, started, roomOwner, drops, told>>
playerVars == <<player, owner, room, alive, look>>
vars == <<conn, receiving, playerVars, roomVars, mail, pushing, jobs, crashed>>

\* The two threads that can be busy for one session.
Actors == Sessions \X {"recv", "close"}

Job == [kind : {"Enter", "Leave", "Start", "Damage", "Move", "ItemDrop"},
        player : Players, data : Looks \cup Places \cup {Nothing}]
Pushes == [room : Rooms, job : Job]

ASSUME NoPushAssumption == NoPush \notin Pushes

Init ==
    /\ conn = [s \in Sessions |-> "open"]
    /\ receiving = [s \in Sessions |-> TRUE]
    /\ player = [s \in Sessions |-> NoPlayer]
    /\ owner = [p \in Players |-> NoSession]
    /\ room = [p \in Players |-> NoRoom]
    /\ alive = [p \in Players |-> TRUE]
    /\ look = [p \in Players |-> FirstLook]
    /\ created = {}
    /\ rooms = {}
    /\ members = [r \in Rooms |-> {}]
    /\ count = [r \in Rooms |-> 0]
    /\ started = [r \in Rooms |-> FALSE]
    /\ roomOwner = [r \in Rooms |-> NoPlayer]
    /\ drops = [r \in Rooms |-> {}]
    /\ told = [r \in Rooms |-> [p \in Players |-> [q \in Players |-> Nothing]]]
    /\ mail = [r \in Rooms |-> <<>>]
    /\ pushing = [a \in Actors |-> NoPush]
    /\ jobs = 0
    /\ crashed = FALSE

\* The actor holds a reference to the room and the job it will push to it.
WillPush(a, r, kind, p, data) ==
    /\ jobs < MaxJobs
    /\ jobs' = jobs + 1
    /\ pushing' = [pushing EXCEPT
                      ![a] = [room |-> r, job |-> [kind |-> kind, player |-> p, data |-> data]]]

Push(a) ==
    /\ ~crashed
    /\ pushing[a] # NoPush
    /\ LET r == pushing[a].room IN
       mail' = [mail EXCEPT ![r] = Append(mail[r], pushing[a].job)]
    /\ pushing' = [pushing EXCEPT ![a] = NoPush]
    /\ UNCHANGED <<conn, receiving, playerVars, roomVars, jobs, crashed>>

(***************************************************************************)
(* ClientPacketHandler, on the thread that has the session's receive.  The  *)
(* loop goes on with what was received when the session is disconnected.    *)
(***************************************************************************)

Handles(s) == ~crashed /\ receiving[s] /\ pushing[<<s, "recv">>] = NoPush

\* RegisterRecv finds that the session is not connected.
EndRecv(s) ==
    /\ Handles(s)
    /\ conn[s] # "open"
    /\ receiving' = [receiving EXCEPT ![s] = FALSE]
    /\ UNCHANGED <<conn, playerVars, roomVars, mail, pushing, jobs, crashed>>

\* A new Player for every CS_LOGIN; the session forgets the one before.
Handle_CS_LOGIN(s, p) ==
    /\ Handles(s)
    /\ owner[p] = NoSession
    /\ owner' = [owner EXCEPT ![p] = s]
    /\ player' = [player EXCEPT ![s] = p]
    /\ UNCHANGED <<conn, receiving, room, alive, look, roomVars, mail, pushing, jobs, crashed>>

Handle_CS_ENTER_ROOM(s, r) ==
    /\ Handles(s)
    /\ player[s] # NoPlayer
    /\ r \in rooms
    /\ WillPush(<<s, "recv">>, r, "Enter", player[s], Nothing)
    /\ UNCHANGED <<conn, receiving, playerVars, roomVars, mail, crashed>>

\* CreateRoom registers the room; its creator enters it like anybody else.
Handle_CS_CREATE_ROOM(s, r) ==
    /\ Handles(s)
    /\ player[s] # NoPlayer
    /\ r \notin created
    /\ created' = created \cup {r}
    /\ rooms' = rooms \cup {r}
    /\ WillPush(<<s, "recv">>, r, "Enter", player[s], Nothing)
    /\ UNCHANGED <<conn, receiving, playerVars, members, count, started, roomOwner,
                   drops, told, mail, crashed>>

\* Slip: room == nullptr is not tested.
InRoom_Untested(s, kind, p, data) ==
    /\ Handles(s)
    /\ player[s] # NoPlayer
    /\ WillPush(<<s, "recv">>, room[player[s]], kind, p, data)
    /\ UNCHANGED <<conn, receiving, playerVars, roomVars, mail, crashed>>

\* The handlers that need player->room.  The job of CS_DAMAGE names the player
\* who is hit.  CS_CHAR_CUSTOMIZE is handled like CS_MOVE.
InRoom(s, kind, p, data) ==
    /\ Handles(s)
    /\ player[s] # NoPlayer
    /\ room[player[s]] # NoRoom
    /\ WillPush(<<s, "recv">>, room[player[s]], kind, p, data)
    /\ UNCHANGED <<conn, receiving, playerVars, roomVars, mail, crashed>>

Handle_CS_LEAVE_ROOM(s)   == InRoom(s, "Leave", player[s], Nothing)
Handle_CS_START_GAME(s)   == InRoom(s, "Start", player[s], Nothing)
Handle_CS_DAMAGE(s, p)    == owner[p] # NoSession /\ InRoom(s, "Damage", p, Nothing)
Handle_CS_MOVE(s, l)      == InRoom(s, "Move", player[s], l)
Handle_CS_ITEM_DROP(s, x) == InRoom(s, "ItemDrop", player[s], x)

(***************************************************************************)
(* The end of a session: Session::Disconnect, then OnDisconnected.          *)
(***************************************************************************)

Disconnect(s) ==
    /\ ~crashed
    /\ conn[s] = "open"
    /\ conn' = [conn EXCEPT ![s] = "closing"]
    /\ UNCHANGED <<receiving, playerVars, roomVars, mail, pushing, jobs, crashed>>

\* The condition is read first ...
OnDisconnected(s) ==
    /\ ~crashed
    /\ conn[s] = "closing"
    /\ LET inRoom == player[s] # NoPlayer /\ room[player[s]] # NoRoom IN
       conn' = [conn EXCEPT ![s] = IF inRoom THEN "leaving" ELSE "closed"]
    /\ UNCHANGED <<receiving, playerVars, roomVars, mail, pushing, jobs, crashed>>

\* ... and then player and room again, for the Leave job.
OnDisconnectedLeave(s) ==
    /\ ~crashed
    /\ conn[s] = "leaving"
    /\ IF room[player[s]] = NoRoom
       THEN crashed' = TRUE /\ UNCHANGED <<conn, pushing, jobs>>
       ELSE /\ conn' = [conn EXCEPT ![s] = "closed"]
            /\ WillPush(<<s, "close">>, room[player[s]], "Leave", player[s], Nothing)
            /\ UNCHANGED crashed
    /\ UNCHANGED <<receiving, playerVars, roomVars, mail>>

(***************************************************************************)
(* The jobs of a room.                                                      *)
(***************************************************************************)

Takes(r, kind, p, data) ==
    /\ ~crashed
    /\ mail[r] # <<>>
    /\ Head(mail[r]) = [kind |-> kind, player |-> p, data |-> data]
    /\ mail' = [mail EXCEPT ![r] = Tail(mail[r])]
    /\ UNCHANGED <<conn, receiving, player, owner, created, pushing, jobs, crashed>>

\* A snapshot of everybody in the room.
Snapshot(r) == [q \in Players |-> IF q \in members[r] THEN look[q] ELSE Nothing]

\* The others in the room are shown how p looks now.
Shown(r, p, l) ==
    [q \in Players |-> IF q \in members[r] \ {p} THEN [told[r][q] EXCEPT ![p] = l]
                                                ELSE told[r][q]]

\* Slip: the newcomer is not announced to the others.
ToldOfEntry_Unannounced(r, p) == [told[r] EXCEPT ![p] = Snapshot(r)]

\* SC_ENTER_GAME and a snapshot of everybody to p, SC_PLAYER_ENTER to the others.
ToldOfEntry(r, p) == [Shown(r, p, look[p]) EXCEPT ![p] = Snapshot(r)]

\* SC_PLAYER_LEAVE to those who stay; the client that leaves forgets the room.
ToldOfLeave(r, p) ==
    [Shown(r, p, Nothing) EXCEPT ![p] = [q \in Players |-> Nothing]]

LetIn(r, p) ==
    /\ alive' = [alive EXCEPT ![p] = TRUE]
    /\ roomOwner' = IF members[r] = {} THEN [roomOwner EXCEPT ![r] = p] ELSE roomOwner
    /\ told' = [told EXCEPT ![r] = ToldOfEntry(r, p)]
    /\ members' = [members EXCEPT ![r] = members[r] \cup {p}]
    /\ room' = [room EXCEPT ![p] = r]
    /\ count' = [count EXCEPT ![r] = count[r] + 1]
    /\ UNCHANGED <<rooms, started>>

IsFull(r) == count[r] >= MAX_PLAYERS

\* Slip: whether the room is full was tested when the job was pushed.
Enter_TestedBefore(r, p) ==
    /\ Takes(r, "Enter", p, Nothing)
    /\ IF started[r]
       THEN UNCHANGED <<room, alive, rooms, members, count, started, roomOwner, told>>
       ELSE LetIn(r, p)
    /\ UNCHANGED <<look, drops>>

Enter(r, p) ==
    /\ Takes(r, "Enter", p, Nothing)
    /\ IF IsFull(r) \/ started[r]
       THEN UNCHANGED <<room, alive, rooms, members, count, started, roomOwner, told>>
       ELSE LetIn(r, p)
    /\ UNCHANGED <<look, drops>>

\* Slips: player->room is not reset; the empty room stays in RoomManager.
LetOut_KeepsRoom(r, p) ==
    /\ members' = [members EXCEPT ![r] = members[r] \ {p}]
    /\ count' = [count EXCEPT ![r] = IF count[r] > 0 THEN count[r] - 1 ELSE 0]
    /\ told' = [told EXCEPT ![r] = ToldOfLeave(r, p)]
    /\ rooms' = IF members[r] = {p} THEN rooms \ {r} ELSE rooms
    /\ UNCHANGED room
LetOut_KeepsListed(r, p) ==
    /\ members' = [members EXCEPT ![r] = members[r] \ {p}]
    /\ room' = [room EXCEPT ![p] = NoRoom]
    /\ count' = [count EXCEPT ![r] = IF count[r] > 0 THEN count[r] - 1 ELSE 0]
    /\ told' = [told EXCEPT ![r] = ToldOfLeave(r, p)]
    /\ UNCHANGED rooms

LetOut(r, p) ==
    /\ members' = [members EXCEPT ![r] = members[r] \ {p}]
    /\ room' = [room EXCEPT ![p] = NoRoom]
    /\ count' = [count EXCEPT ![r] = IF count[r] > 0 THEN count[r] - 1 ELSE 0]
    /\ told' = [told EXCEPT ![r] = ToldOfLeave(r, p)]
    /\ rooms' = IF members[r] = {p} THEN rooms \ {r} ELSE rooms

Leave(r, p) ==
    /\ Takes(r, "Leave", p, Nothing)
    /\ IF p \in members[r]
       THEN LetOut(r, p)
       ELSE UNCHANGED <<room, members, count, told, rooms>>
    /\ UNCHANGED <<alive, look, started, roomOwner, drops>>

HandleStartGame(r, p) ==
    /\ Takes(r, "Start", p, Nothing)
    /\ started' = IF p = roomOwner[r] THEN [started EXCEPT ![r] = TRUE] ELSE started
    /\ UNCHANGED <<room, alive, look, rooms, members, count, roomOwner, drops, told>>

\* Slip: a draw is not an end.
CheckGameEnd_OneWinner(r, living) ==
    IF Cardinality(members[r]) >= 2 /\ Cardinality(members[r] \cap living) = 1
    THEN /\ started' = [started EXCEPT ![r] = FALSE]
         /\ drops' = [drops EXCEPT ![r] = {}]
         /\ alive' = [q \in Players |-> q \in living \cup members[r]]
    ELSE /\ alive' = [q \in Players |-> q \in living]
         /\ UNCHANGED <<started, drops>>

\* At most one of at least two players is alive: back to the waiting room.
CheckGameEnd(r, living) ==
    IF Cardinality(members[r]) >= 2 /\ Cardinality(members[r] \cap living) <= 1
    THEN /\ started' = [started EXCEPT ![r] = FALSE]
         /\ drops' = [drops EXCEPT ![r] = {}]
         /\ alive' = [q \in Players |-> q \in living \cup members[r]]
    ELSE /\ alive' = [q \in Players |-> q \in living]
         /\ UNCHANGED <<started, drops>>

\* A hit that takes the last hit points.
HandleDamage(r, p) ==
    /\ Takes(r, "Damage", p, Nothing)
    /\ IF p \in members[r] /\ alive[p]
       THEN CheckGameEnd(r, {q \in Players \ {p} : alive[q]})
       ELSE UNCHANGED <<alive, started, drops>>
    /\ UNCHANGED <<room, look, rooms, members, count, roomOwner, told>>

\* Slip: the packet is relayed and not kept.
HandleMove_NotKept(r, p, l) ==
    /\ Takes(r, "Move", p, l)
    /\ told' = IF p \in members[r] THEN [told EXCEPT ![r] = Shown(r, p, l)] ELSE told
    /\ UNCHANGED <<room, alive, look, rooms, members, count, started, roomOwner, drops>>

\* A client ignores what it is told of a player it does not know: the job may
\* run when p has left.
HandleMove(r, p, l) ==
    /\ Takes(r, "Move", p, l)
    /\ look' = [look EXCEPT ![p] = l]
    /\ told' = IF p \in members[r] THEN [told EXCEPT ![r] = Shown(r, p, l)] ELSE told
    /\ UNCHANGED <<room, alive, rooms, members, count, started, roomOwner, drops>>

\* What is dropped at a place where something was dropped is ignored.
HandleItemDrop(r, p, x) ==
    /\ Takes(r, "ItemDrop", p, x)
    /\ drops' = [drops EXCEPT ![r] = drops[r] \cup {x}]
    /\ UNCHANGED <<room, alive, look, rooms, members, count, started, roomOwner, told>>

RunJob(r) == \E p \in Players :
    \/ Enter(r, p) \/ Leave(r, p) \/ HandleStartGame(r, p) \/ HandleDamage(r, p)
    \/ \E l \in Looks : HandleMove(r, p, l)
    \/ \E x \in Places : HandleItemDrop(r, p, x)

HandlePacket(s) ==
    \/ \E p \in Players : Handle_CS_LOGIN(s, p) \/ Handle_CS_DAMAGE(s, p)
    \/ \E r \in Rooms : Handle_CS_ENTER_ROOM(s, r) \/ Handle_CS_CREATE_ROOM(s, r)
    \/ Handle_CS_LEAVE_ROOM(s) \/ Handle_CS_START_GAME(s)
    \/ \E l \in Looks : Handle_CS_MOVE(s, l)
    \/ \E x \in Places : Handle_CS_ITEM_DROP(s, x)

CloseSession(s) == OnDisconnected(s) \/ OnDisconnectedLeave(s)

Next ==
    \/ \E s \in Sessions :
          \/ HandlePacket(s) \/ EndRecv(s)
          \/ Disconnect(s) \/ CloseSession(s)
    \/ \E a \in Actors : Push(a)
    \/ \E r \in Rooms : RunJob(r)

\* Threads are run: what was received is worked off, a started OnDisconnected
\* ends, a job is pushed and, the queue not having lost it, executed.
Fairness ==
    /\ \A s \in Sessions : WF_vars(EndRecv(s)) /\ WF_vars(CloseSession(s))
    /\ \A a \in Actors : WF_vars(Push(a))
    /\ \A r \in Rooms : WF_vars(RunJob(r))

Spec == Init /\ [][Next]_vars /\ Fairness

-------------------------------------------------------------------------------

\* Every variable has its type.
TypeOK ==
    /\ conn \in [Sessions -> {"open", "closing", "leaving", "closed"}]
    /\ receiving \in [Sessions -> BOOLEAN]
    /\ player \in [Sessions -> Players \cup {NoPlayer}]
    /\ owner \in [Players -> Sessions \cup {NoSession}]
    /\ room \in [Players -> Rooms \cup {NoRoom}]
    /\ alive \in [Players -> BOOLEAN]
    /\ look \in [Players -> Looks]
    /\ rooms \subseteq created /\ created \subseteq Rooms
    /\ members \in [Rooms -> SUBSET Players]
    /\ count \in [Rooms -> Nat]
    /\ started \in [Rooms -> BOOLEAN]
    /\ roomOwner \in [Rooms -> Players \cup {NoPlayer}]
    /\ drops \in [Rooms -> SUBSET Places]
    /\ told \in [Rooms -> [Players -> [Players -> Looks \cup {Nothing}]]]
    /\ mail \in [Rooms -> Seq(Job)]
    /\ pushing \in [Actors -> Pushes \cup {NoPush}]
    /\ jobs \in 0..MaxJobs
    /\ crashed \in BOOLEAN

\* However many Enter jobs were on their way when the last place was taken, a
\* room holds at most MAX_PLAYERS, and the counter never says less than it holds.
NeverOverfull ==
    \A r \in Rooms : Cardinality(members[r]) <= count[r] /\ count[r] <= MAX_PLAYERS

\* A player's room is a room that has the player, although the jobs of two
\* rooms may write player->room at the same time.
RoomHasItsPlayer ==
    \A p \in Players : room[p] # NoRoom => p \in members[room[p]]

\* Every client in a room was told of exactly the players it shares it with,
\* whatever the order of entries and departures.
ClientsKnowTheRoom ==
    \A r \in Rooms : \A p \in members[r] :
        {q \in Players : told[r][p][q] # Nothing} \ {p} = members[r] \ {p}

\* An empty room that can still be found is one whose first player is on the
\* way: an abandoned room is never listed.
EmptyRoomAwaitsEntry ==
    \A r \in rooms : members[r] = {} =>
        \/ \E i \in 1..Len(mail[r]) : mail[r][i].kind = "Enter"
        \/ \E a \in Actors : /\ pushing[a] # NoPush
                             /\ pushing[a].room = r /\ pushing[a].job.kind = "Enter"

\* Two players or more, and nobody alive: no hit will ever end such a game.
WipedOut(r) == Cardinality(members[r]) >= 2 /\ \A p \in members[r] : ~alive[p]

\* A hit in a room never leaves it wiped out: only a departure, or a player
\* who is in two rooms at once, can.
HitsLeaveSomeoneAlive ==
    [][\A r \in Rooms : \A p \in Players : 
        HandleDamage(r, p) /\ ~WipedOut(r) => ~WipedOut(r)']_vars

\* Everyone who shares room r with p was shown how p looks.
Agree(r, p) ==
    p \in members[r] => \A q \in members[r] \ {p} : told[r][q][p] = look[p]

\* Whoever enters, moves or leaves, no client's picture of a player gets out of
\* date, but when a Move job of another room runs: the player is in two rooms, or
\* the job waited in one it has left, and HandleMove does not ask.
PictureIsKept ==
    [][\A r \in Rooms, p \in Players :
        Agree(r, p) => \/ Agree(r, p)'
                       \/ \E q \in Rooms \ {r}, l \in Looks : HandleMove(q, p, l)]_vars

\* GameSession.cpp:32, PLAN.md:166: a client that is gone leaves its room, and
\* the others are told.
GoneClientsLeave ==
    \A p \in Players, r \in Rooms :
        (owner[p] # NoSession /\ conn[owner[p]] = "closed" /\ p \in members[r])
            ~> (p \notin members[r] \/ crashed)

\* GameSession.cpp:32: what follows the test happens in a room.
LeaveHasARoom == ~crashed

===============================================================================
