# FuntasticBattle server: TLA+ models, checks and proofs

The repository is an IOCP game server for rooms of two to four players
(`src/FBServer`): a static library `ServerCore` (lock, job queue, sessions,
buffers, listener), the program `GameServer` (rooms, players, packet handlers),
a load generator `DummyClient`, and a header `Protocol` with the packets.  There
are no unit tests; `PLAN.md` and the comments in the code say what is intended.
This directory holds a model of the concurrent core of it, what TLC checks of
the model on small instances, and what TLAPS proves of it for all instances.

## 1. The system

One worker thread per processor (`GameServer.cpp`) calls `IocpCore::Dispatch` in a loop. The
kernel hands each completed operation (accept, receive, send, disconnect) to any
of them. Nothing else runs: a room has no thread and no timer.

    kernel -> IocpCore -> Listener::ProcessAccept -> Service, GameSessionManager.Add
                       -> Session::ProcessRecv -> PacketSession::OnRecv
                              -> ClientPacketHandler -> Room::Push (JobQueue)
                       -> Session::ProcessSend / ProcessDisconnect
                              -> GameSession::OnDisconnected -> Room::Push, Remove
    Room job (on the thread that pushed first) -> Session::Send, RoomManager,
                              GameSessionManager::BroadcastToAll

| component | state | operations | what is hard | what makes it correct |
|---|---|---|---|---|
| `JobQueue` | `_jobCount`, `_jobs` | `Push`, `Execute` | the executor is elected by an atomic counter next to a locked vector; jobs push to their own queue | one job at a time, in order, each once; none forgotten |
| `Lock` | `_lockFlag`, `_writeCount` | read and write, lock and unlock | spinning compare-exchanges, recursion, a plain store at the end, no upgrade | exclusion; the word counts the guards; an unlock in order does not crash |
| `DeadLockProfiler` (debug) | name ids, history, a stack per thread | `PushLock`, `PopLock`, `CheckCycle` | names are shared by all objects of a class; only the top of the stack is looked at; the search stops at whatever it has seen before, and prints by walking back through `_parent` | a cycle is found, and only a cycle, and it is the one printed; a deadlock is announced; no unlock crashes |
| `RecvBuffer`, `PacketSession` | the buffer, two positions | `OnWrite`, `OnRead`, `Clean`, `OnRecv` | TCP splits the stream anywhere; no wrap-around | no byte lost or moved wrongly; always room for the next receive |
| `Session` | `_connected`, `_sendQueue`, `_sendRegistered`, two events | `Send`, `RegisterSend`, `ProcessSend`, `RegisterRecv`, `ProcessRecv`, `Disconnect`, `ProcessDisconnect` | completions on any thread, immediate failures, disconnects from three sides | one owner of the send event, order, no lost wake-up, one `OnDisconnected` |
| `GameSessionManager` | `_sessions` under a `Lock` | `Add`, `Remove`, `BroadcastToAll` | `Send` under the read lock can call back into `Remove` | no iterator dangles; a closed session is removed |
| `Room`, `RoomManager`, `Player` | `_players`, `_playerCount`, `_isStarted`, `_ownerId`; `_rooms`; `player->room` | the jobs and handlers | decisions taken on one thread, acted on in a job later; `player->room` has no lock | capacity, membership, what clients are told, no room or player left behind |
| `ClientPacketHandler`, `GameSession` | `_player` | one handler per packet, `OnDisconnected` | packets still handled after the disconnect; `player->room` read twice | who is gone leaves; no null room |
| `RoomManager`'s list | `_rooms`, and the atomics of every room | `MakeRoomListPacket`, `BroadcastRoomList` | rooms change under the loop, lists of several threads overlap | a list is plausible; the newest one is right |
| `Listener`, `Service` | the accept events, the sessions | `RegisterAccept`, `ProcessAccept`, `AddSession`, `ReleaseSession` | immediate failures, on every path | no accept event is lost, every closed session is released |

`IocpCore`, `ThreadManager`, `CoreGlobal`, `RefCounting`, `SendBuffer`, `Protocol`,
`SocketUtils`, `NetAddress` and `DummyClient` carry no protocol of their own;
`PROJECT.json` gives the reason for each.

## 2. The modules

| module | models | composed with |
|---|---|---|
| `SerialMailbox` | abstract: mail is posted, one item runs at a time, in order, each once | |
| `JobQueue` | `JobQueue.cpp`, one step per atomic access | implements `SerialMailbox` |
| `RWLock` | `Lock.cpp`, guards of `Lock.h` | |
| `SessionManager` | `GameSessionManager.cpp`, and what `Session::Send`, the receives and `Session::Disconnect` make of it | extends `RWLock`: every lock step is one of its actions |
| `Listener` | `Listener.cpp` and `Service.cpp` | extends `SessionManager`: `ProcessAccept` starts its `Add`, and `OnDisconnected` ends in `ReleaseSession` |
| `DeadLockProfiler` | `DeadLockProfiler.cpp` around locks that are waited for | `MCDeadLockProfiler` names four locks |
| `RecvBuffer` | `RecvBuffer.cpp`, `PacketSession::OnRecv`, the receive half of `Session.cpp` | |
| `OrderedChannel` | abstract: buffers go out in the order they were given, and the end is told once | |
| `Session` | the rest of `Session.cpp`, for one session, accepted or connecting | implements `OrderedChannel` |
| `GameRooms` | `ClientPacketHandler.cpp`, `GameSession.cpp`, `Room.cpp`, `RoomManager.cpp` | each room's queue is a `SerialMailbox`; `MCGameRooms` adds symmetry |
| `RoomList` | `MakeRoomListPacket`, `BroadcastRoomList`, and what they read | `MCRoomList` begins with rooms that are in use |
| `JobQueueProofs`, `RecvBufferProofs`, `RWLockProofs`, `SessionProofs`, `ListenerProofs`, `GameRoomsProofs`, `RoomListProofs`, `DeadLockProfilerProofs` | theorems about the module in the name | `ListenerProofs` extends `RWLockProofs`, and is about `SessionManager` too |

Variables carry the names of the members they stand for, actions those of the
functions. A definition named `X_Something` under the comment "Slip" is `X` with
a plausible mistake; it is used by no specification. `PROJECT.json` pairs each
with the property it would violate, and maps the definitions to source lines.

### Steps

- A critical section that touches only what its lock protects is one step.
  `RWLock` justifies that where the lock is `Lock`; the profiler uses
  `std::mutex`.
- `JobQueue`: `fetch_add`, the append, the take, begin and end of a job and
  `fetch_sub` are steps of their own. A job pushing to its own queue
  (`NestedAdd`) happens in the code: a send that fails inside a room job may end
  in `OnDisconnected`, which pushes a `Leave` job to the same room.
- `RWLock`: a failed compare-exchange changes nothing, so a spin is the one
  exchange that succeeds. `WriteUnlock` counts down first and stores
  `EMPTY_FLAG` in a second step (`StoreEmpty`). Locks are used through guards
  only, so a thread releases in the reverse order. A `CRASH` ends all steps.
- `Session`: a session of the server starts with `_connected` set; one of a client
  starts with `ClientService::Start`, and `ProcessConnect` sets `_connected`
  without looking at whether ConnectEx failed (`failed.connect`: sends and receives
  then fail). The connect and the receives are a chain with one thread in it at a
  time, which is the actor `Receiver`; sends, send completions and the disconnect
  completion are handled by `Threads`.
- `Listener`: `AddSession` and `ReleaseSession` are one step each, for Service's lock
  protects nothing but its set. `stage` is where a thread is in `ProcessAccept`; it
  handles no other completion before it gives the event back.
- `RecvBuffer`: a byte is the offset it had in the peer's stream. A cell that
  was never written, or was the target of an overlapping `memcpy`, holds `Junk`,
  and a header read from junk may have any size.
- `GameRooms`: a handler reads in one step and pushes in another; a job is one
  step, because other threads see of its writes only `player->room` and the
  entry in `RoomManager`. A racing read of a reference returns the old or the
  new value: a reference is written in one step. Below that, two jobs that assign
  one `player->room` race in `TSharedPtr` itself (`RefCounting.h:57`), which no
  module models. `look` is what a player shows (its position and its costume), and
  `told` what each client was shown of each player, from `SC_ENTER_GAME`,
  `SC_PLAYER_ENTER`, `SC_PLAYER_LEAVE` and the relayed moves; `Nothing` is a
  player it does not see.
- `RoomList`: one step per read of an atomic inside `MakeRoomListPacket`, under the
  read lock of `RoomManager`; the writers of `_rooms` wait for it. A room is what
  a list reads of it. Lists are numbered in the order they were begun; `always` and
  `ever` are ghosts that keep which rooms were open all through the loop, or at
  some time in it.
- `DeadLockProfiler`: a call holds the profiler's mutex (`Unlocked`) and is one step,
  but for the search of `CheckCycle`: there each call of `Dfs`, each pass of its
  loop, each return and each line that the crash prints is a step, and other threads
  get the locks they wait for meanwhile. `path` is the stack of calls, `looked` what
  the loops have passed, `walk` the ids that were printed.

## 3. What the runs check

Passing runs:

| run | instance | shows |
|---|---|---|
| `job_queue` | 3 threads, 4 jobs | one executor (`SerialExecution`), an exact counter (`CountExact`), once abandoned always abandoned (`AbandonedForever`), every job run unless abandoned (`EveryJobRunsUnlessAbandoned`), and the refinement `ImplementsMailbox` |
| `rw_lock` | 3 threads, 3 guards each | `Exclusion`; `WordMatchesGuards`; `UnlockCrashesOnlyNested`; `FreeLockIsTaken` |
| `dead_lock_profiler` | 2 threads, 3 guards each, 4 locks of 3 names | `CycleIsFound`: the search crashes exactly when the history has a cycle, and prints one; `PopsItsOwn`; `DeadlockIsForeseen`: threads wait for each other unannounced only if all they wait for has one name |
| `listener` | 2 threads, 2 sessions, 2 accept events, 2 broadcasts, 1 retry | `EventHasOneOwner`, `ClosedIsOnItsWayOut`, `IterationUndisturbed`; `AcceptComesBack`: an accept is pending again, whatever fails; `UnconnectedIsReleased`: a session that is closed, or cannot be registered with the IOCP, leaves `GameSessionManager` and `Service`; both unless a broadcast waits for itself |
| `session` | 3 threads and the receiver, 3 sends | `SendEventHasOneOwner`, `SendsInOrder`, `ClosedIsNotified`, `QueuedIsSent`, and the refinement `ImplementsChannel` |
| `recv_buffer` | 30 cells, headers of 2, packets up to 3 | `RoomToRecv`, `StreamIntact` |
| `game_rooms` | 2 clients, 2 players, 2 rooms for two, 4 jobs | `NeverOverfull`, `RoomHasItsPlayer`, `ClientsKnowTheRoom`, `EmptyRoomAwaitsEntry`, `HitsLeaveSomeoneAlive`; `PictureIsKept`: only a Move job that waited in another room makes a client's picture of a player wrong |
| `room_list` | 2 rooms for three, 1 client, lists of one entry, 2 jobs, 1 request | `ListIsPlausible`: what a list may say although the rooms change under the loop; `NewestIsTrue`: when nothing is under way, the newest list a client was sent is right |

Each also checks a type invariant. Four runs end in a counterexample. Each checks
what a comment or `PLAN.md` says, and the code does otherwise:

| run | the counterexample |
|---|---|
| `job_queue_drained` | B has done its `fetch_add` and not yet its append. The executor takes A's job, runs it, finds the counter at 1 and stays, finds `_jobs` empty and leaves (`JobQueue.cpp:27`). B appends, but had `prevCount` 1. The counter never is 0 again, so no later push executes: the room has stopped. |
| `session_manager_cleanup` | in `BroadcastToAll` a send fails and `DisconnectEx` fails too, so `OnDisconnected` runs on the spot: `Remove` asks for the write lock while this thread holds the read lock. It waits for itself until `LOCK_TIMEOUT`. |
| `game_rooms_ghost` | the client goes while its `Enter` job waits. `OnDisconnected` sees no `player->room`, pushes no `Leave`, and `Enter` then puts the player into the room for good. |
| `game_rooms_null` | a `Leave` job runs between the test of `player->room` (`GameSession.cpp:33`) and its copy (line 36): the copy is null and is dereferenced. |

`UnlockCrashesOnlyNested` and `DeadlockIsForeseen` state limits of the code that
no present caller reaches: a write guard inside a read guard of the same writer,
and two locks of one class taken in two orders.

### Bounds, and why they are enough

- `JobQueue`: the race needs one executor and one pusher, the exact counter two
  pushers and an executor; a fourth job is pushed after anything three can do.
- `RWLock`, `MaxDepth`: three guards are a write, a read and a write in one
  thread, the deepest nesting that differs; two readers against a writer take
  three threads. The proofs have no bound on either.
- `DeadLockProfiler`: cycles of two and of three names, which two threads make of
  pairs asked for one after the other; three guards make a held lock that is not on
  top. Two of the locks share a name. Threads are symmetric. The proofs have no bound
  on any of these.
- `Listener` and `SessionManager`, `MaxBroadcasts`: a broadcast against another, an
  add and a removal; two sessions, so that a send can fail in the middle; two
  events, so that two threads accept at once. `MaxRetries` stands for AcceptEx
  failing now and then; one that fails for ever ends in a stack overflow, which
  the models leave out. The proofs have no bound on any of these.
- `Session`, `MaxSends`: one buffer with the kernel, one in the queue and one
  being pushed.
- `RoomList`: two rooms and lists of one entry make the order of the rooms and a full
  list matter; two jobs and a request put three lists in the making at once. Three
  places, so that a game can end in a room that is not full. `MCRoomList` begins
  with both rooms in any use, or with none. What a client is sent
  does not depend on the others, so there is one. The proofs have no bound on any of
  these.
- `RecvBuffer`: the sizes have the order of 4, 65535 and 65536, a packet at most as large
  as a segment; chunks of 1, 2, 5 and 27 split headers and packets and fill the
  buffer to where `Clean` has to move it; `MaxStream` lets it be moved twice.
  The proofs have no bound.
- `GameRooms`, `MaxJobs`: four jobs are, for example, two entries, a move between
  them and a departure, or two entries, a start and a hit. Two looks and one place
  are enough to tell changed from unchanged. `MAX_PLAYERS` is 2, so that a room is full with every
  player in it. Sessions, players and rooms are symmetric in the safety run.
  Hit points above zero have no effect on the rest, and are left out.

Lost packets, a restart of the process, or a damaged file
are no part of it: TCP delivers, and the server stores nothing.

### Fairness

- `JobQueue`, `Session`, `SessionManager`, `Listener`, `GameRooms`: a worker thread inside a
  function is run until it leaves (weak fairness per thread, or per actor and
  room in `GameRooms`). Nobody is obliged to send, push, enter, log in, connect
  or disconnect.
- The kernel completes a send and a `DisconnectEx` (Windows guarantees a
  completion for every pending overlapped operation). Nothing is asked of a
  connect or a receive, which may wait forever.
- `Listener`: the completion of a `DisconnectEx` is handled under strong fairness.
  Threads alternate between being idle and accepting, and the port hands
  completions out in the order they came, so that later accepts cannot keep an
  earlier completion waiting.
- `RWLock`: only that a thread about to store `EMPTY_FLAG` does so, and that some
  exchange succeeds when one can. No individual thread is promised the lock: a
  writer can be kept out by readers, and then crashes with `LOCK_TIMEOUT`.
- `SessionManager` and `Listener`: per thread, a spin for a free lock succeeds. Every critical
  section is short next to the 10 s of the timeout, so `LOCK_TIMEOUT` is enabled
  only while a thread waits for itself.
- `GameRooms` takes from `JobQueue` that a pushed job is run. Where the queue has
  been abandoned (`job_queue_drained`) that is not so; its liveness is therefore
  about rooms whose queue has not lost a push.

## 4. What is proved

All by TLAPS, without an axiom; the assumptions are those in the modules.

**`JobQueueProofs`**, for any finite set of threads (`ThreadsFinite`) and any
jobs: `TypeCorrect`, `Serial`, `NeverReentered`, `Counted`, `AbandonedStays`,
`AbandonedOnlyInTheGap` and `Refinement` (`Spec => ImplementsMailbox`). `IInv` adds to the type what each
location says of the thread's locals, and `ExecutorCounted`: as long as there
is an executor the counter is above zero. Election and exactness need each other.
One executor makes the counter a sum over one vector; and only the exact sum says
that an executor that brings the counter to zero leaves no push in progress. The
same two say where the queue is lost: a sole executor that meets an empty `_jobs` has a
counter above zero, so a push must be between its `fetch_add` and its append
(`TakeNothingAbandons`); every other step keeps an executor or leaves zero.

**`RWLockProofs`**, for any threads and any `MaxDepth`: `TypeCorrect`, `Excluded`,
`WordExact`, `CrashesOnlyNested`, `NoUpgrade`. Exclusion is not inductive: it
speaks of the guards, and the exchanges look at the word. `IInv` ties the two: it has
the counters equal to the numbers of guards
(`Counted`), a write guard as its thread's name in the word (`GuardNamesWriter`),
nobody beside the named thread (`WriterAlone`, which also holds between the last
count-down and the store), and `StoreReady`: what the store overwrites is already
zero. The lemmas `GuardAdded` and `GuardDropped` say what one guard does to the
cardinalities.

**`RecvBufferProofs`**, for all sizes with `0 < HeaderSize <= MaxPacket <=
BufferSize` and every split of the stream: `TypeCorrect`, `AlwaysRoom`, `Intact`,
`HeadersRead`. `IInv` is the type, `RoomToRecv` and `StreamIntact` together with
`NothingPending`. The core is `CleanKeepsBytes`: less than a packet is left, so
when `Clean` moves it nine segments are in front of it and `memcpy` cannot overlap.

**`SessionProofs`**, for any threads and any number of sends: `TypeCorrect`, `OneOwner`,
`InOrder`, `Watched`, `Once`, `EndIsUnderWay` and `Refinement`
(`Spec => ImplementsChannel`).
`SendEventHasOneOwner` is inductive with the type, but the order is not: it needs
that the event is empty when the owner fills it (`EventInUse`) and that the event
has one owner. `Watched` follows from two halves, of which neither is enough: the
queue of a connected session has the flag set (`QueuedIsRegistered`), and the flag
has an owner (`RegisteredHasOwner`). `OneCloser` is a token made by the exchange of
`_connected`; it goes from the thread in `Disconnect` to the kernel or straight to
`OnDisconnected`, so that the end is told once, and `Placed` says that the token of a
closed session is never lost (`EndIsUnderWay`). `Untouched` keeps all of it still
before the connect. The refinement takes the push for the giving, `WSASend` for the
handing on and `Clear` for the drop; moving the queue to the event is not seen.

**`ListenerProofs`**, for any threads, sessions, accept events, broadcasts and failures: `LTypeCorrect`, `EventsKept`,
`LoopsUndisturbed`, `ClosedGoes`, for the behaviours of `Listener`, each of whose
steps is a step of the manager or leaves it alone (`StepOfManager`). The invariant is
that of `RWLockProofs`, which holds because each step of the manager is a step of the
lock, together with `Orderly`: where a thread is in the manager says which guard it
holds and where it stands in the lock. So a thread in the loop of a broadcast has a
read guard, one that inserts or erases has the write guard, and the exclusion of the
lock does the rest. `Orderly` also shows that no unlock in the manager crashes.
`ClosedGoes` needs `AddedOnce`: a session is listed once, by the thread that
accepted it, before anybody can close it.

**`GameRoomsProofs`**, for any clients, players, rooms, looks, capacity and number of
jobs: `TypeCorrect`, `Capacity`, `Membership`, `ClientsInformed`,
`NoAbandonedRoom`, `SomeoneAlive`, `PicturesKept`, `MovesAsListed`. `Capacity` is
inductive with `MembersFinite`: an entry adds one to `_playerCount` and at most one member,
and only the departure of a member takes one away. `NoAbandonedRoom`
needs that a room is listed once, by the handler that also pushes its first
`Enter`, and that a room which is listed and empty is as its constructor made it
(`EmptyIsBlank`), so that this `Enter` will be let in. `ClosesOnce` says that an
`OnDisconnected` that pushes has a player and is the session's last act.
`MovesAsListed` ties the two models of a room: for what a list shows (`Listed`: whether
the room was created, whether it is in `_rooms`, `_playerCount`, `_isStarted`), each step
is one of the jobs of `RoomList`, whose guards the proof finds in the invariant: who stays behind
is counted, an owner is a member or the room is off the list, two members are two counts.
It says nothing of `expected`, which `RoomList` chooses freely, and `RoomList` creates rooms in
the order of their ids, which `GameRooms` does not tell apart.

**`RoomListProofs`**, for any rooms, clients, capacity, length of the list, jobs and
requests, from any use of the rooms (`UpSpec`; `FromTheStart`: `Spec => UpSpec`):
`TypeCorrect`, `Plausible`, `Newest`. A list is plausible because of what a loop knows
between two reads (`Between`): a room that was not full when it was tested, and is
found not started later, was open at some time between, since a started room lets nobody
in and so cannot fill before its game ends. `Progress` and `Made` keep the order of
the loop and one entry for each listed room, so that an open room is left out only when the list
is full of rooms before it. `Newest` needs that every change ends in a list begun after it:
`AllFaithful` says that once no room has a list yet to begin, the latest list still due
to a client, or else the newest it was sent, shows the rooms as they are.
`EmptyExpected` closes the case of a room that is listed before its creator enters.

**`DeadLockProfilerProofs`**, for any threads, locks, names and depth of the guards:
`TypeCorrect`, `Found`, `PopsOwn`, `Foreseen`, `SearchEnds`. The state of the search is tied to the
calls under way: an id is discovered when its call is on the path or has ended
(`Discovered`), the path is in the order of discovery and its pairs are in the
history (`PathIsChain`), what a loop has passed has ended or is the next call of the path
(`Passed`). So `Continue` passes over nothing that is on the path, an ended id has only
ended successors, and no cycle is among them (`FinishedAcyclic`): when the search has
ended all ids, the history has none. `FindCycle` has found a pair back into the path,
and `_parent` leads along the path to its beginning (`WalkOnPath`). `PopsOwn` needs
that a name keeps one id and that a stack is that of the guards (`StackMatches`).
`Foreseen` follows from neighbours on a stack being in the history (`StackIsHistory`),
which is what comparing with the top makes of it, and from the history that is not just being
searched having no cycle: among the ids from a blocked lock upward there is one that none
of the others follows (`OneNameOrCycle`); above it a stack has nothing else
(`NothingFollows`), so the threads that wait for it wait for each other under its name.
`SearchEnds` gives the search a variant: the ids discovered, the ids ended, the pairs
looked at and the ids printed grow with every step of it (`StepAddsWork`), and none of
them is counted twice (`WorkIsBounded`).

Only model-checked: all liveness (`EveryJobRunsUnlessAbandoned`, `FreeLockIsTaken`, `AcceptComesBack`,
`UnconnectedIsReleased`, `ClosedIsNotified`, `QueuedIsSent`), since neither fairness
nor `ENABLED` is in the prover's reach. What they rest on is proved, in that a state which
must be left has somebody whose step leaves it: `AbandonedOnlyInTheGap` for the first,
`ClosedGoes` for the listed sessions of `UnconnectedIsReleased`, `EndIsUnderWay` for `ClosedIsNotified`, `Watched` for
`QueuedIsSent`, and for `AcceptComesBack` `EventsKept`: an accept event is never lost.

## 5. What is not modelled

- The jobs that only relay a packet: `HandleItemState`, `HandleThrowBomb`,
  `HandleItemPickup`, `HandleChat` change no state; `HandleAnimState` writes a field that
  nobody reads. Their handlers have the form of `InRoom`.
- `CloseService` and `CloseSocket`: only destructors call them, of objects that live
  as long as the process. `_maxSessionCount` is never compared with
  `_sessionCount` (`Service::AddSession` counts, and `CreateSession` makes a session whatever the count is), so
  there is nothing to model of the limit of 100 in `GameServer.cpp`.
- `RefCounting`. `MakeShared` leaves one reference too many, so that without a race
  nothing is ever freed, no socket of a session that is gone is closed, and no model
  has a dangling object: `GameRooms` and `Session` rely on it. Two threads that
  assign one `TSharedPtr` at once are outside of the models.
- Which list a client keeps: lists may overtake each other between
  `MakeRoomListPacket` and the sends, so the last one to arrive need not be the
  newest. `NewestIsTrue` is about the newest.
- `SendBuffer`, `Protocol`, `SocketUtils`, `NetAddress`: a byte array written once,
  layouts, and calls of the operating system. `ThreadManager` and `CoreGlobal`: the
  start-up, which gives `RWLock` its thread ids.
- `DummyClient`, but for `ClientService::Start` and `Connect`: a load generator.
- Real time: `ACQUIRE_TIMEOUT_TICK` is a step, not a duration.
- Widths: the 16 bits of the reader count and of `_writeCount` are out of reach:
  there is one thread per processor, and nesting is two deep.
- A release build has no `DeadLockProfiler`; `RWLock` leaves it out.

## 6. What is left

1. One fault that several modules leave to each other: a job queue that was abandoned
   (`job_queue_drained`) under the rooms. `GameRooms` takes a queue that runs its
   jobs; with an abandoned one its safety properties hold all the same, for a job that
   never runs changes nothing.
2. A model of `TSharedPtr` fine enough for the racing assignments of `player->room`.
