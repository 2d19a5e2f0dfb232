----------------------------- MODULE RoomListProofs -----------------------------
(***************************************************************************)
(* Theorems about RoomList, begun with rooms in any use or with none, for   *)
(* any rooms, clients, capacity, length of the list, jobs and requests.     *)
(***************************************************************************)
EXTENDS MCRoomList, FiniteSetTheorems, WellFoundedInduction, TLAPS

MakerLocations == {"idle", "remove", "list", "scan", "test", "entry", "flag", "send"}

Types ==
    /\ rooms \subseteq created /\ created \subseteq Rooms
    /\ expected \subseteq created
    /\ count \in [Rooms -> 0..MAX_PLAYERS]
    /\ started \in [Rooms -> BOOLEAN]
    /\ at \in [Makers -> MakerLocations]
    /\ todo \in [Makers -> SUBSET Rooms]
    /\ half \in [Makers -> 0..MAX_PLAYERS \cup {NoNumber}]
    /\ entries \in [Makers -> SUBSET Entries]
    /\ to \in [Makers -> SUBSET Clients]
    /\ number \in [Makers -> Nat]
    /\ always \in [Makers -> SUBSET Rooms]
    /\ ever \in [Makers -> SUBSET Rooms]
    /\ newest \in [Clients -> [number : Nat, entries : SUBSET Entries]]
    /\ begun \in Nat
    /\ jobs \in 0..MaxJobs /\ requests \in 0..MaxRequests

\* Every list, made or in the making, has a number that was given out.
Numbered ==
    /\ \A m \in Makers : number[m] <= begun
    /\ \A c \in Clients : newest[c].number <= begun

\* A room that was not created is as its constructor will make it; a listed room
\* without players waits for its creator or is about to be removed.
Unborn == \A r \in Rooms \ created : count[r] = 0 /\ ~started[r]
EmptyExpected ==
    \A r \in rooms : count[r] = 0 => (r \in expected /\ ~started[r]) \/ at[r] = "remove"

(***************************************************************************)
(* What a loop of MakeRoomListPacket knows.                                 *)
(***************************************************************************)

\* The ghosts: all the time means until now, and what is open now was seen.
Ghosts(m) ==
    /\ always[m] \subseteq ever[m]
    /\ Scanning(m) => /\ \A r \in always[m] : Open(r)
                      /\ \A r \in Rooms : Open(r) => r \in ever[m]

\* It goes through the rooms in order, and an open one it has passed is listed.
Progress(m) ==
    Scanning(m) =>
        /\ todo[m] \subseteq rooms
        /\ \A p \in rooms \ todo[m], q \in todo[m] : p < q
        /\ Listed(entries[m]) \subseteq rooms \ todo[m]
        /\ always[m] \ Listed(entries[m]) \subseteq todo[m]

\* Between the reads of one room: a room that was started and not full cannot fill
\* before its game ends, and is open when it ends.
Between(m) ==
    /\ at[m] \in {"test", "entry", "flag"} =>
          todo[m] # {} /\ Cardinality(entries[m]) < MaxEntries
    /\ at[m] = "test" =>
          Current(m) \in ever[m] \/ (started[Current(m)] /\ ~IsFull(count[Current(m)]))
    /\ at[m] \in {"entry", "flag"} => Current(m) \in ever[m]
    /\ at[m] = "flag" => /\ half[m] \in 0..MAX_PLAYERS
                         /\ IsFull(half[m]) => Current(m) \notin always[m]

\* What it has made: one entry for each room it lists.
Made(m) ==
    /\ Listed(entries[m]) \subseteq ever[m]
    /\ \A e \in entries[m] : e.started \/ IsFull(e.count) => e.room \notin always[m]
    /\ IsFiniteSet(entries[m]) /\ IsFiniteSet(Listed(entries[m]))
    /\ Cardinality(Listed(entries[m])) = Cardinality(entries[m])
    /\ Cardinality(entries[m]) <= MaxEntries

\* It has left out an open room only because the packet was full before it.
LeftOut(m) ==
    at[m] = "send" => \A r \in always[m] \ Listed(entries[m]) :
        /\ Cardinality(entries[m]) >= MaxEntries
        /\ \A q \in Listed(entries[m]) : q < r

Loops == \A m \in Makers :
    Ghosts(m) /\ Progress(m) /\ Between(m) /\ Made(m) /\ LeftOut(m)

(***************************************************************************)
(* Who will be told what.                                                   *)
(***************************************************************************)

\* m will send c the list it makes.
Due(m, c) ==
    \/ Scanning(m) /\ m \in Rooms \cup {c}
    \/ at[m] = "send" /\ c \in to[m]

\* Nothing has changed that the list of m was made from.
Entry(r) == [room |-> r, count |-> count[r], started |-> started[r]]
Passed(m) == rooms \ todo[m]
Faithful(m) ==
    /\ Scanning(m) => entries[m] = {Entry(r) : r \in {r \in Passed(m) : Open(r)}}
    /\ at[m] = "test" => ~IsFull(count[Current(m)])
    /\ at[m] \in {"entry", "flag"} => Open(Current(m))
    /\ at[m] = "flag" => half[m] = count[Current(m)]
    /\ at[m] = "send" => entries[m] = Truth

\* No room has yet to announce what changed.
Settled ==
    /\ \A r \in Rooms : at[r] \notin {"list", "remove"}
    /\ \A r \in rooms : count[r] # 0

\* The latest list that c will be sent, or else the newest it was sent, is true.
LatestFaithful(c) ==
    /\ \A m \in Makers :
          /\ Due(m, c) /\ number[m] > newest[c].number
          /\ \A k \in Makers : Due(k, c) => number[k] <= number[m]
          => Faithful(m)
    /\ (\A m \in Makers : Due(m, c) => number[m] <= newest[c].number)
          => newest[c].entries = Truth
AllFaithful == Settled => \A c \in Clients : LatestFaithful(c)

IInv == Types /\ Numbered /\ Unborn /\ EmptyExpected /\ Loops /\ AllFaithful

-------------------------------------------------------------------------------

\* A set of naturals has a least element.
LEMMA MinIsLeast ==
    ASSUME NEW S \in SUBSET Nat, S # {}
    PROVE  Min(S) \in S /\ \A x \in S : Min(S) <= x
<1>1. OpToRel(<, Nat) = {ss \in Nat \X Nat : ss[1] < ss[2]}
  BY DEF OpToRel
<1>2. PICK x \in S : \A y \in S : ~ (<<y, x>> \in OpToRel(<, Nat))
  BY NatLessThanWellFounded, WFMin
<1>3. ASSUME NEW y \in S
      PROVE  x <= y
  <2>1. ~ (<<y, x>> \in {ss \in Nat \X Nat : ss[1] < ss[2]})
    BY <1>1, <1>2
  <2>2. ~ (y < x)
    BY <2>1
  <2> QED
    BY <2>2
<1> QED
  BY <1>3 DEF Min

\* The room that a loop is at is the least of those it has not passed.
LEMMA CurrentIsLeast ==
    ASSUME Types, NEW m \in Makers, todo[m] # {}
    PROVE  Current(m) \in todo[m] /\ \A q \in todo[m] : Current(m) <= q
<1>1. todo[m] \in SUBSET Nat
  BY RoomsAssumption DEF Types
<1> QED
  BY <1>1, MinIsLeast DEF Current

\* Rooms and clients are different makers.
LEMMA Apart ==
    /\ \A c \in Clients : c \notin Rooms /\ c \in Makers
    /\ \A r \in Rooms : r \notin Clients /\ r \in Makers
BY ClientsAssumption DEF Makers

(***************************************************************************)
(* The jobs of the rooms.                                                   *)
(***************************************************************************)

\* What the loops know survives a change of the rooms they observe, as long as a
\* started room does not become full.
LEMMA LoopsObserve ==
    ASSUME IInv, Observe, UNCHANGED scanVars,
           at' \in [Makers -> MakerLocations],
           \A m \in Makers : at[m] \in {"idle", "remove"} \/ at'[m] = at[m],
           \A m \in Makers : at[m] \in {"idle", "remove"} => at'[m] \in {"idle", "remove", "list"},
           (\E m \in Makers : Scanning(m)) => rooms' = rooms,
           \A r \in rooms : started[r] /\ ~IsFull(count[r])
                               => Open(r)' \/ (started'[r] /\ ~IsFull(count'[r]))
    PROVE  /\ Loops'
           /\ always' \in [Makers -> SUBSET Rooms]
           /\ ever' \in [Makers -> SUBSET Rooms]
<1> USE DEF IInv, Loops, scanVars
<1>1. /\ always' \in [Makers -> SUBSET Rooms]
      /\ ever' \in [Makers -> SUBSET Rooms]
  BY DEF Types, Observe
<1>2. ASSUME NEW m \in Makers
      PROVE  (Ghosts(m) /\ Progress(m) /\ Between(m) /\ Made(m) /\ LeftOut(m))'
  <2>1. /\ todo'[m] = todo[m] /\ entries'[m] = entries[m] /\ half'[m] = half[m]
        /\ Scanning(m)' <=> Scanning(m)
        /\ Scanning(m) \/ at[m] = "send" => at'[m] = at[m]
        /\ at'[m] = "send" => at[m] = "send"
        /\ Current(m)' = Current(m)
        /\ Listed(entries[m])' = Listed(entries[m])
    BY DEF Scanning, Types, Current
  <2>2. /\ always'[m] \subseteq always[m] /\ ever[m] \subseteq ever'[m]
        /\ ~Scanning(m) => always'[m] = always[m] /\ ever'[m] = ever[m]
        /\ Scanning(m) => /\ \A r \in always'[m] : Open(r)'
                          /\ \A r \in Rooms : Open(r)' => r \in ever'[m]
    BY DEF Observe
  <2>3. Ghosts(m)'
    BY <2>1, <2>2 DEF Ghosts
  <2>4. Progress(m)'
    BY <2>1, <2>2 DEF Progress
  <2>5. Between(m)'
    <3>1. at[m] = "test" =>
              Current(m) \in ever'[m] \/ (started'[Current(m)] /\ ~IsFull(count'[Current(m)]))
      <4> SUFFICES ASSUME at[m] = "test"
                   PROVE  Current(m) \in ever'[m]
                             \/ (started'[Current(m)] /\ ~IsFull(count'[Current(m)]))
        OBVIOUS
      <4>1. Scanning(m) /\ Current(m) \in rooms /\ Current(m) \in Rooms
        BY CurrentIsLeast DEF Scanning, Between, Progress, Types
      <4> QED
        BY <2>2, <4>1 DEF Between
    <3> QED
      BY <2>1, <2>2, <3>1 DEF Between, Scanning
  <2>6. Made(m)'
    BY <2>1, <2>2 DEF Made
  <2>7. LeftOut(m)'
    BY <2>1, <2>2 DEF LeftOut, Scanning
  <2> QED
    BY <2>3, <2>4, <2>5, <2>6, <2>7
<1> QED
  BY <1>1, <1>2

\* Handle_CS_CREATE_ROOM: no list is in the making, and the room waits for its
\* creator, whose entry will be announced.
LEMMA CreateRoomStep ==
    ASSUME IInv, NEW r \in Rooms, CreateRoom(r)
    PROVE  IInv'
<1> USE DEF IInv, CreateRoom
<1>1. /\ Loops'
      /\ always' \in [Makers -> SUBSET Rooms]
      /\ ever' \in [Makers -> SUBSET Rooms]
  <2>1. \A q \in rooms : started[q] /\ ~IsFull(count[q])
                            => Open(q)' \/ (started'[q] /\ ~IsFull(count'[q]))
    OBVIOUS
  <2> QED
    BY <2>1, LoopsObserve DEF WriteLocked, Types
<1>2. Types'
  BY <1>1 DEF Types, scanVars
<1>3. Numbered' /\ Unborn' /\ EmptyExpected'
  BY DEF Numbered, Unborn, EmptyExpected, Types, scanVars
<1>4. ~Settled'
  BY DEF Settled, Unborn
<1> QED
  BY <1>1, <1>2, <1>3, <1>4 DEF AllFaithful

\* The parts of a job that changes a room's atomics: the list it has yet to make,
\* or the removal, is what unsettles the clients.
LEMMA JobStep ==
    ASSUME IInv, NEW r \in Rooms, NEW where \in {"list", "remove"}, Job(r, where), Observe,
           NEW n \in 0..MAX_PLAYERS, count' = [count EXCEPT ![r] = n],
           NEW b \in BOOLEAN, started' = [started EXCEPT ![r] = b],
           expected' \in {expected, expected \ {r}},
           n = 0 => where = "remove" \/ r \notin rooms,
           started[r] /\ ~IsFull(count[r]) => ~IsFull(n)
    PROVE  IInv'
<1> USE Apart DEF IInv, Job
<1>1. /\ Loops'
      /\ always' \in [Makers -> SUBSET Rooms]
      /\ ever' \in [Makers -> SUBSET Rooms]
  <2>1. \A q \in rooms : started[q] /\ ~IsFull(count[q])
                            => Open(q)' \/ (started'[q] /\ ~IsFull(count'[q]))
    BY DEF Open, Types
  <2>2. /\ at' \in [Makers -> MakerLocations]
        /\ \A m \in Makers : at[m] \in {"idle", "remove"} \/ at'[m] = at[m]
        /\ \A m \in Makers : at[m] \in {"idle", "remove"} => at'[m] \in {"idle", "remove", "list"}
    BY DEF Types, MakerLocations
  <2> QED
    BY <2>1, <2>2, LoopsObserve
<1>2. Types'
  <2>1. jobs' \in 0..MaxJobs
    BY BoundsAssumption DEF Types
  <2>2. at' \in [Makers -> MakerLocations]
    BY DEF Types, MakerLocations
  <2> QED
    BY <1>1, <2>1, <2>2 DEF Types, scanVars
<1>3. Numbered'
  BY DEF Numbered, scanVars
<1>4. Unborn'
  BY DEF Unborn, Types
<1>5. EmptyExpected'
  BY DEF EmptyExpected, Types
<1>6. ~Settled'
  BY DEF Settled, Types
<1> QED
  BY <1>1, <1>2, <1>3, <1>4, <1>5, <1>6 DEF AllFaithful

\* Only a room that was not full and not started is entered.
LEMMA EnterStep ==
    ASSUME IInv, NEW r \in Rooms, Enter(r)
    PROVE  IInv'
<1> USE DEF Enter
<1>1. count[r] \in Nat /\ count[r] + 1 \in 0..MAX_PLAYERS
  BY SizesAssumption DEF IInv, Types, IsFull
<1>2. started' = [started EXCEPT ![r] = started[r]] /\ started[r] \in BOOLEAN
  BY DEF IInv, Types
<1>3. /\ Job(r, "list") /\ Observe
      /\ count' = [count EXCEPT ![r] = count[r] + 1]
      /\ expected' \in {expected, expected \ {r}}
      /\ ~started[r] /\ count[r] + 1 # 0
  BY <1>1
<1> QED
  BY <1>1, <1>2, <1>3, JobStep

\* The last player to leave brings the removal with him.
LEMMA LeaveStep ==
    ASSUME IInv, NEW r \in Rooms, Leave(r)
    PROVE  IInv'
<1> USE DEF Leave
<1>1. PICK where \in {"list", "remove"} : Job(r, where) /\ (count[r] = 1 => where = "remove")
  OBVIOUS
<1>2. /\ count[r] \in 1..MAX_PLAYERS /\ count[r] - 1 \in 0..MAX_PLAYERS
      /\ ~IsFull(count[r]) => ~IsFull(count[r] - 1)
  BY SizesAssumption DEF IInv, Types, IsFull
<1>3. started' = [started EXCEPT ![r] = started[r]] /\ started[r] \in BOOLEAN
  BY DEF IInv, Types
<1>4. count[r] - 1 = 0 => where = "remove"
  BY <1>1, <1>2
<1> QED
  BY <1>1, <1>2, <1>3, <1>4, JobStep

\* The start and the end of a game leave the count alone.
LEMMA GameStep ==
    ASSUME IInv, NEW r \in Rooms, HandleStartGame(r) \/ CheckGameEnd(r)
    PROVE  IInv'
<1> USE DEF HandleStartGame, CheckGameEnd
<1>1. PICK b \in BOOLEAN : started' = [started EXCEPT ![r] = b]
  OBVIOUS
<1>2. /\ count[r] \in 0..MAX_PLAYERS
      /\ count' = [count EXCEPT ![r] = count[r]]
  BY DEF IInv, Types
<1>3. count[r] = 0 => r \notin rooms
  BY <1>2, SizesAssumption
<1> QED
  BY <1>1, <1>2, <1>3, JobStep

\* Only a room without players is removed, and its job then makes a list.
LEMMA RemoveRoomStep ==
    ASSUME IInv, NEW r \in Rooms, RemoveRoom(r)
    PROVE  IInv'
<1> USE Apart DEF IInv, RemoveRoom
<1>1. /\ Loops'
      /\ always' \in [Makers -> SUBSET Rooms]
      /\ ever' \in [Makers -> SUBSET Rooms]
  <2>1. \A q \in rooms : started[q] /\ ~IsFull(count[q])
                            => Open(q)' \/ (started'[q] /\ ~IsFull(count'[q]))
    OBVIOUS
  <2>2. /\ at' \in [Makers -> MakerLocations]
        /\ \A m \in Makers : at[m] \in {"idle", "remove"} \/ at'[m] = at[m]
        /\ \A m \in Makers : at[m] \in {"idle", "remove"} => at'[m] \in {"idle", "remove", "list"}
    BY DEF Types, MakerLocations
  <2> QED
    BY <2>1, <2>2, LoopsObserve DEF WriteLocked
<1>2. Types'
  BY <1>1 DEF Types, scanVars, MakerLocations
<1>3. Numbered' /\ Unborn' /\ EmptyExpected'
  BY DEF Numbered, Unborn, EmptyExpected, Types, scanVars
<1>4. ~Settled'
  BY DEF Settled, Types
<1> QED
  BY <1>1, <1>2, <1>3, <1>4 DEF AllFaithful

(***************************************************************************)
(* Steps that no list sees.                                                 *)
(***************************************************************************)

\* The loops and what they are made from stay as they are.
LEMMA NothingSeen ==
    ASSUME IInv, UNCHANGED <<rooms, count, started, scanVars, always, ever, newest>>,
           at' \in [Makers -> MakerLocations],
           \A m \in Makers : at'[m] = at[m] \/ (m \in Clients /\ at[m] = "idle" /\ at'[m] = "list")
    PROVE  Loops' /\ AllFaithful'
<1> USE Apart DEF IInv, scanVars
<1>1. ASSUME NEW m \in Makers
      PROVE  (Ghosts(m) /\ Progress(m) /\ Between(m) /\ Made(m) /\ LeftOut(m))'
  <2>1. /\ Scanning(m)' <=> Scanning(m)
        /\ \A w \in {"test", "entry", "flag", "send"} : at'[m] = w <=> at[m] = w
    BY DEF Scanning
  <2> QED
    BY <2>1 DEF Loops, Ghosts, Progress, Between, Made, LeftOut, Open, Current
<1>2. ASSUME Settled', NEW c \in Clients
      PROVE  LatestFaithful(c)'
  <2>1. Settled
    BY <1>2 DEF Settled
  <2>2. \A m \in Makers : Due(m, c)' <=> Due(m, c)
    BY DEF Due, Scanning
  <2>3. /\ Truth' = Truth
        /\ \A r \in Rooms : Open(r)' <=> Open(r)
        /\ \A r \in Rooms : Entry(r)' = Entry(r)
        /\ \A m \in Makers : Current(m)' = Current(m) /\ Passed(m)' = Passed(m)
    BY DEF Truth, Shown, Open, Entry, Current, Passed
  <2>4. ASSUME NEW m \in Makers, Due(m, c), Faithful(m)
        PROVE  Faithful(m)'
    <3>1. at'[m] = at[m]
      BY <2>4 DEF Due, Scanning
    <3>2. Scanning(m) => entries'[m] = {Entry(r)' : r \in {r \in Passed(m)' : Open(r)'}}
      BY <2>3, <2>4 DEF Faithful, Open, Passed, Entry
    <3> QED
      BY <2>3, <2>4, <3>1, <3>2 DEF Faithful, Scanning, Open
  <2> QED
    BY <2>1, <2>2, <2>3, <2>4 DEF AllFaithful, LatestFaithful
<1> QED
  BY <1>1, <1>2 DEF Loops, AllFaithful

\* A room that is refused to its creator is full or started, hence not empty.
LEMMA EnterRefusedStep ==
    ASSUME IInv, NEW r \in Rooms, EnterRefused(r)
    PROVE  IInv'
<1> USE DEF IInv, EnterRefused
<1>1. Loops' /\ AllFaithful'
  BY NothingSeen DEF Types
<1>2. Types' /\ Numbered' /\ Unborn'
  BY DEF Types, Numbered, Unborn, scanVars
<1>3. EmptyExpected'
  BY SizesAssumption DEF EmptyExpected, IsFull
<1> QED
  BY <1>1, <1>2, <1>3

\* A request does no more than ask for a list.
LEMMA RequestStep ==
    ASSUME IInv, NEW c \in Clients, RequestRoomList(c)
    PROVE  IInv'
<1> USE Apart DEF IInv, RequestRoomList, roomVars
<1>1. at' \in [Makers -> MakerLocations]
  BY DEF Types, MakerLocations
<1>2. Loops' /\ AllFaithful'
  BY <1>1, NothingSeen DEF Types
<1>3. requests' \in 0..MaxRequests
  BY BoundsAssumption DEF Types
<1>4. Types' /\ Numbered' /\ Unborn'
  BY <1>1, <1>3 DEF Types, Numbered, Unborn, scanVars
<1>5. EmptyExpected'
  BY DEF EmptyExpected, Types
<1> QED
  BY <1>2, <1>4, <1>5

(***************************************************************************)
(* The loop of MakeRoomListPacket.                                          *)
(***************************************************************************)

ScanLocations == {"scan", "test", "entry", "flag"}

\* A step of a loop concerns its maker alone: whom it will send to stays the same,
\* and no other list becomes later or less true.
LEMMA LoopStep ==
    ASSUME IInv, NEW m \in Makers, NEW from \in ScanLocations,
           NEW where \in ScanLocations \cup {"send"}, ScanStep(m, from, where),
           todo' \in [Makers -> SUBSET Rooms],
           half' \in [Makers -> 0..MAX_PLAYERS \cup {NoNumber}],
           entries' \in [Makers -> SUBSET Entries],
           to' \in [Makers -> SUBSET Clients],
           \A k \in Makers \ {m} : /\ todo'[k] = todo[k] /\ half'[k] = half[k]
                                   /\ entries'[k] = entries[k] /\ to'[k] = to[k],
           Progress(m)', Between(m)', Made(m)', LeftOut(m)',
           Faithful(m) => Faithful(m)',
           where = "send" => \A c \in Clients : c \in to'[m] <=> m \in Rooms \cup {c}
    PROVE  IInv'
<1> USE Apart DEF IInv, ScanStep, roomVars
<1>1. Types' /\ Numbered' /\ Unborn'
  BY DEF Types, Numbered, Unborn, MakerLocations, ScanLocations
<1>2. /\ Scanning(m) /\ at'[m] = where
      /\ \A k \in Makers \ {m} : at'[k] = at[k]
  BY DEF Types, Scanning, ScanLocations
<1>3. EmptyExpected'
  BY <1>2 DEF EmptyExpected, Types, Scanning, Makers
<1>4. ASSUME NEW k \in Makers
      PROVE  (Ghosts(k) /\ Progress(k) /\ Between(k) /\ Made(k) /\ LeftOut(k))'
  <2>1. CASE k = m
    <3>1. Ghosts(m)'
      BY <1>2 DEF Loops, Ghosts, Open, Scanning
    <3> QED
      BY <2>1, <3>1
  <2>2. CASE k # m
    <3>1. /\ at'[k] = at[k] /\ todo'[k] = todo[k] /\ half'[k] = half[k]
          /\ entries'[k] = entries[k]
      BY <1>2, <2>2
    <3> QED
      BY <3>1 DEF Loops, Ghosts, Progress, Between, Made, LeftOut, Open, Current, Scanning
  <2> QED
    BY <2>1, <2>2
<1>5. ASSUME Settled', NEW c \in Clients
      PROVE  LatestFaithful(c)'
  <2>1. Settled
    BY <1>2, <1>5 DEF Settled, Scanning
  <2>2. \A k \in Makers : Due(k, c)' <=> Due(k, c)
    BY <1>2 DEF Due, Scanning, ScanLocations
  <2>3. /\ Truth' = Truth
        /\ \A r \in Rooms : Open(r)' <=> Open(r)
        /\ \A r \in Rooms : Entry(r)' = Entry(r)
        /\ \A k \in Makers \ {m} : Current(k)' = Current(k) /\ Passed(k)' = Passed(k)
    BY DEF Truth, Shown, Open, Entry, Current, Passed
  <2>4. ASSUME NEW k \in Makers, Faithful(k)
        PROVE  Faithful(k)'
    <3>1. CASE k = m
      BY <2>4, <3>1
    <3>2. CASE k # m
      <4>1. at'[k] = at[k] /\ entries'[k] = entries[k] /\ half'[k] = half[k]
        BY <1>2, <3>2
      <4>2. Scanning(k) => entries'[k] = {Entry(r)' : r \in {r \in Passed(k)' : Open(r)'}}
        BY <2>3, <2>4, <3>2, <4>1 DEF Faithful, Open, Entry
      <4> QED
        BY <2>3, <2>4, <3>2, <4>1, <4>2 DEF Faithful, Scanning, Open
    <3> QED
      BY <3>1, <3>2
  <2> QED
    BY <2>1, <2>2, <2>3, <2>4 DEF AllFaithful, LatestFaithful
<1> QED
  BY <1>1, <1>3, <1>4, <1>5 DEF Loops, AllFaithful

\* The rooms that are left come after the one that is passed.
LEMMA PassKeepsOrder ==
    ASSUME Types, NEW m \in Makers, todo[m] # {}, Scanning(m), Progress(m)
    PROVE  \A p \in rooms \ (todo[m] \ {Current(m)}), q \in todo[m] \ {Current(m)} : p < q
<1> SUFFICES ASSUME NEW p \in rooms \ (todo[m] \ {Current(m)}),
                    NEW q \in todo[m] \ {Current(m)}
             PROVE  p < q
  OBVIOUS
<1>1. p \in Nat /\ q \in Nat /\ q \in todo[m]
  BY RoomsAssumption DEF Types
<1>2. CASE p = Current(m)
  BY <1>1, <1>2, CurrentIsLeast
<1>3. CASE p # Current(m)
  BY <1>1, <1>3 DEF Progress
<1> QED
  BY <1>2, <1>3

\* A room that is full, or started, is passed.
LEMMA PassStep ==
    ASSUME IInv, NEW m \in Makers, NEW from \in {"scan", "test"}, ScanStep(m, from, "scan"),
           todo[m] # {}, ~Open(Current(m)), Pass(m), UNCHANGED <<half, entries, to>>
    PROVE  IInv'
<1> USE DEF IInv, ScanStep, Pass, roomVars
<1>1. /\ Current(m) \in todo[m] /\ Current(m) \in rooms /\ Current(m) \in Rooms
      /\ \A q \in todo[m] : Current(m) <= q
  BY CurrentIsLeast DEF Loops, Progress, Scanning, Types
<1>2. /\ todo'[m] = todo[m] \ {Current(m)} /\ at'[m] = "scan"
      /\ todo' \in [Makers -> SUBSET Rooms]
      /\ \A k \in Makers \ {m} : todo'[k] = todo[k]
  BY DEF Types
<1>3. Current(m) \notin always[m]
  BY DEF Loops, Ghosts, Scanning
<1>4. Progress(m)'
  <2>1. \A p \in rooms \ todo'[m], q \in todo'[m] : p < q
    BY <1>2, PassKeepsOrder DEF Loops, Scanning
  <2> QED
    BY <1>1, <1>2, <1>3, <2>1 DEF Loops, Progress, Scanning
<1>5. Between(m)' /\ Made(m)' /\ LeftOut(m)'
  BY <1>2 DEF Loops, Between, Made, LeftOut
<1>6. Faithful(m) => Faithful(m)'
  <2>1. {r \in Passed(m)' : Open(r)'} = {r \in Passed(m) : Open(r)}
    BY <1>1, <1>2 DEF Passed, Open, Types
  <2>2. {Entry(r) : r \in {r \in Passed(m) : Open(r)}}' = {Entry(r) : r \in {r \in Passed(m) : Open(r)}}
    BY <2>1 DEF Entry
  <2> QED
    BY <1>2, <2>2 DEF Faithful, Scanning
<1> QED
  BY <1>2, <1>4, <1>5, <1>6, LoopStep DEF Types, ScanLocations

\* room->IsFull() || room->IsStarted(): the room is not full, when it was read.
LEMMA TestFullStep ==
    ASSUME IInv, NEW m \in Makers, TestFull(m)
    PROVE  IInv'
<1> USE DEF TestFull
<1>1. CASE IsFull(count[Current(m)])
  BY <1>1, PassStep DEF Open, More
<1>2. CASE ~IsFull(count[Current(m)])
  <2> USE DEF IInv, ScanStep, roomVars
  <2>1. ScanStep(m, "scan", "test") /\ UNCHANGED <<todo, half, entries, to>>
    BY <1>2
  <2>2. at[m] = "scan" /\ at'[m] = "test" /\ Current(m)' = Current(m)
    BY <2>1 DEF Types, Current
  <2>3. Current(m) \in rooms /\ Current(m) \in Rooms
    BY <2>2, CurrentIsLeast DEF Loops, Progress, Scanning, Types, More
  <2>4. Between(m)'
    BY <1>2, <2>1, <2>2, <2>3 DEF Between, More, Loops, Ghosts, Scanning, Open
  <2>5. Progress(m)' /\ Made(m)' /\ LeftOut(m)'
    BY <2>1, <2>2 DEF Loops, Progress, Made, LeftOut, Scanning
  <2>6. Faithful(m) => Faithful(m)'
    BY <1>2, <2>1, <2>2 DEF Faithful, Scanning, Passed, Open, Entry
  <2> QED
    BY <2>1, <2>4, <2>5, <2>6, LoopStep DEF Types, ScanLocations
<1> QED
  BY <1>1, <1>2

\* It was not full then and is not started now, so it was open at some time between.
LEMMA TestStartedStep ==
    ASSUME IInv, NEW m \in Makers, TestStarted(m)
    PROVE  IInv'
<1> USE DEF TestStarted
<1>1. todo[m] # {} /\ Cardinality(entries[m]) < MaxEntries
  BY DEF IInv, Loops, Between
<1>2. CASE started[Current(m)]
  BY <1>1, <1>2, PassStep DEF Open
<1>3. CASE ~started[Current(m)]
  <2> USE DEF IInv, ScanStep, roomVars
  <2>1. ScanStep(m, "test", "entry") /\ UNCHANGED <<todo, half, entries, to>>
    BY <1>3
  <2>2. at[m] = "test" /\ at'[m] = "entry" /\ Current(m)' = Current(m)
    BY <2>1 DEF Types, Current
  <2>3. Current(m) \in rooms /\ Current(m) \in Rooms
    BY <1>1, <2>2, CurrentIsLeast DEF Loops, Progress, Scanning, Types
  <2>4. Between(m)'
    BY <1>1, <1>3, <2>1, <2>2 DEF Between, Loops
  <2>5. Progress(m)' /\ Made(m)' /\ LeftOut(m)'
    BY <2>1, <2>2 DEF Loops, Progress, Made, LeftOut, Scanning
  <2>6. Faithful(m) => Faithful(m)'
    BY <1>3, <2>1, <2>2, <2>3 DEF Faithful, Scanning, Passed, Open, Entry
  <2> QED
    BY <2>1, <2>4, <2>5, <2>6, LoopStep DEF Types, ScanLocations
<1> QED
  BY <1>2, <1>3

\* The count that is read may be one that the room has reached since it was tested.
LEMMA ReadCountStep ==
    ASSUME IInv, NEW m \in Makers, ReadCount(m)
    PROVE  IInv'
<1> USE DEF IInv, ReadCount, ScanStep, roomVars
<1>1. /\ at[m] = "entry" /\ at'[m] = "flag" /\ Current(m)' = Current(m)
      /\ todo[m] # {} /\ Cardinality(entries[m]) < MaxEntries
  BY DEF Types, Current, Loops, Between
<1>2. Current(m) \in rooms /\ Current(m) \in Rooms
  BY <1>1, CurrentIsLeast DEF Loops, Progress, Scanning, Types
<1>3. /\ count[Current(m)] \in 0..MAX_PLAYERS
      /\ half'[m] = count[Current(m)]
      /\ half' \in [Makers -> 0..MAX_PLAYERS \cup {NoNumber}]
  BY <1>2 DEF Types
<1>4. Between(m)'
  BY <1>1, <1>3 DEF Between, Loops, Ghosts, Scanning, Open
<1>5. Progress(m)' /\ Made(m)' /\ LeftOut(m)'
  BY <1>1 DEF Loops, Progress, Made, LeftOut, Scanning
<1>6. Faithful(m) => Faithful(m)'
  BY <1>1, <1>3 DEF Faithful, Scanning, Passed, Open, Entry
<1> QED
  BY <1>1, <1>3, <1>4, <1>5, <1>6, LoopStep DEF Types, ScanLocations

\* The entry is made: a room that it shows full or started was not open then.
LEMMA ReadStartedStep ==
    ASSUME IInv, NEW m \in Makers, ReadStarted(m)
    PROVE  IInv'
<1> USE DEF IInv, ReadStarted, ScanStep, Pass, roomVars
<1> DEFINE r == Current(m)
           e == [room |-> r, count |-> half[m], started |-> started[r]]
<1>1. /\ at[m] = "flag" /\ at'[m] = "scan" /\ Scanning(m)
      /\ todo[m] # {} /\ Cardinality(entries[m]) < MaxEntries
      /\ r \in ever[m] /\ half[m] \in 0..MAX_PLAYERS
      /\ IsFull(half[m]) => r \notin always[m]
  BY DEF Types, Loops, Between, Scanning
<1>2. r \in todo[m] /\ r \in rooms /\ r \in Rooms
  BY <1>1, CurrentIsLeast DEF Loops, Progress, Types
<1>3. /\ e \in Entries
      /\ entries' = [entries EXCEPT ![m] = entries[m] \cup {e}]
      /\ entries'[m] = entries[m] \cup {e}
      /\ entries' \in [Makers -> SUBSET Entries]
  BY <1>1, <1>2 DEF Types, Entries
<1>4. /\ todo'[m] = todo[m] \ {r}
      /\ todo' \in [Makers -> SUBSET Rooms]
      /\ half' \in [Makers -> 0..MAX_PLAYERS \cup {NoNumber}]
  BY DEF Types
<1>5. Listed(entries[m])' = Listed(entries[m]) \cup {r}
  BY <1>3 DEF Listed
<1>6. r \notin Listed(entries[m]) /\ e \notin entries[m]
  BY <1>1, <1>2 DEF Loops, Progress, Listed
<1>7. started[r] => r \notin always[m]
  BY <1>1 DEF Loops, Ghosts, Open
<1>8. Progress(m)'
  <2>1. \A p \in rooms \ todo'[m], q \in todo'[m] : p < q
    BY <1>1, <1>4, PassKeepsOrder DEF Loops
  <2> QED
    BY <1>1, <1>2, <1>4, <1>5, <2>1 DEF Loops, Progress
<1>9. Made(m)' /\ Between(m)' /\ LeftOut(m)'
  <2>1. /\ IsFiniteSet(entries[m]) /\ IsFiniteSet(Listed(entries[m]))
        /\ Cardinality(Listed(entries[m])) = Cardinality(entries[m])
    BY DEF Loops, Made
  <2>2. /\ IsFiniteSet(entries'[m]) /\ Cardinality(entries'[m]) = Cardinality(entries[m]) + 1
    <3> HIDE DEF e
    <3>1. /\ IsFiniteSet(entries[m] \cup {e})
          /\ Cardinality(entries[m] \cup {e}) = Cardinality(entries[m]) + 1
      BY ONLY <1>6, <2>1, FS_AddElement
    <3> QED
      BY ONLY <1>3, <3>1
  <2>3. /\ IsFiniteSet(Listed(entries[m])')
        /\ Cardinality(Listed(entries[m])') = Cardinality(Listed(entries[m])) + 1
    BY <1>5, <1>6, <2>1, FS_AddElement
  <2>4. Cardinality(entries[m]) \in Nat
    BY <2>1, FS_CardinalityType
  <2>5. Cardinality(entries'[m]) <= MaxEntries
    BY <1>1, <2>2, <2>4, SizesAssumption
  <2>6. \A d \in entries'[m] : d.started \/ IsFull(d.count) => d.room \notin always[m]
    BY <1>1, <1>3, <1>7 DEF Loops, Made
  <2> QED
    BY <1>1, <1>5, <2>1, <2>2, <2>3, <2>5, <2>6 DEF Made, Between, LeftOut, Loops
<1>10. Faithful(m) => Faithful(m)'
  <2> SUFFICES ASSUME Faithful(m)
               PROVE  Faithful(m)'
    OBVIOUS
  <2>1. Open(r) /\ e = Entry(r)
    BY <1>1 DEF Faithful, Entry
  <2>2. entries[m] = {Entry(q) : q \in {q \in Passed(m) : Open(q)}}
    BY <1>1 DEF Faithful
  <2>3. {q \in Passed(m)' : Open(q)} = {q \in Passed(m) : Open(q)} \cup {r}
    BY <1>2, <1>4, <2>1 DEF Passed
  <2>4. entries'[m] = {Entry(q) : q \in {q \in Passed(m)' : Open(q)}}
    BY <1>3, <2>1, <2>2, <2>3
  <2>5. {Entry(q)' : q \in {q \in Passed(m)' : Open(q)'}}
          = {Entry(q) : q \in {q \in Passed(m)' : Open(q)}}
    BY DEF Entry, Open
  <2> QED
    BY <1>1, <2>4, <2>5 DEF Faithful
<1> QED
  BY <1>1, <1>3, <1>4, <1>8, <1>9, <1>10, LoopStep DEF Types, ScanLocations

\* A loop that ends has listed what a list of the rooms as they are should list.
LEMMA ListedIsShown ==
    ASSUME Types, NEW m \in Makers, at[m] = "scan", ~More(m),
           Progress(m), Made(m), Faithful(m)
    PROVE  entries[m] = Truth
<1> DEFINE L == {r \in Passed(m) : Open(r)}
           Before(r) == {q \in Rooms : q < r /\ Open(q)}
<1>1. entries[m] = {Entry(r) : r \in L} /\ Listed(entries[m]) = L
  <2>1. entries[m] = {Entry(r) : r \in L}
    BY DEF Faithful, Scanning
  <2>2. \A r \in L : Entry(r).room = r
    BY DEF Entry
  <2>3. Listed(entries[m]) = {Entry(r).room : r \in L}
    BY <2>1 DEF Listed
  <2> QED
    BY <2>1, <2>2, <2>3
<1>2. /\ IsFiniteSet(L) /\ Cardinality(L) \in Nat /\ Cardinality(L) <= MaxEntries
      /\ Cardinality(L) = Cardinality(entries[m])
  BY <1>1, FS_CardinalityType DEF Made
<1>3. /\ MaxEntries \in Nat
      /\ L \subseteq Rooms
      /\ \A p \in rooms \ todo[m], q \in todo[m] : p < q
  BY SizesAssumption DEF Progress, Scanning, Types, Passed
<1>4. ASSUME NEW r \in L
      PROVE  Shown(r)
  <2>1. Before(r) \in SUBSET (L \ {r})
    <3> SUFFICES ASSUME NEW q \in Before(r)
                 PROVE  q \in L /\ q # r
      OBVIOUS
    <3>1. q \in Nat /\ r \in Nat /\ q < r /\ q \in rooms /\ Open(q) /\ r \in rooms \ todo[m]
      BY <1>3, RoomsAssumption DEF Passed, Open
    <3>2. q \notin todo[m]
      BY <1>3, <3>1
    <3> QED
      BY <3>1, <3>2 DEF Passed
  <2>2. IsFiniteSet(L \ {r}) /\ Cardinality(L \ {r}) = Cardinality(L) - 1
    BY <1>2, FS_RemoveElement
  <2>3. Cardinality(Before(r)) <= Cardinality(L \ {r}) /\ Cardinality(Before(r)) \in Nat
    BY <2>1, <2>2, FS_Subset, FS_CardinalityType
  <2>4. Cardinality(Before(r)) < MaxEntries
    BY <1>2, <1>3, <2>2, <2>3
  <2> QED
    BY <2>4 DEF Shown
<1>5. ASSUME NEW r \in Rooms \ L, Shown(r)
      PROVE  FALSE
  <2>1. r \in todo[m]
    BY <1>5 DEF Shown, Passed, Open
  <2>2. Cardinality(entries[m]) >= MaxEntries
    BY <1>2, <1>3, <2>1 DEF More
  <2>3. L \in SUBSET Before(r)
    BY <1>3, <2>1 DEF Passed
  <2>4. r \in Nat /\ Before(r) \in SUBSET (0..r) /\ IsFiniteSet(0..r)
    <3>1. r \in Nat
      BY RoomsAssumption
    <3>2. \A q \in Before(r) : q \in 0..r
      BY <3>1, RoomsAssumption
    <3>3. IsFiniteSet(0..r)
      BY <3>1, FS_Interval
    <3> QED
      BY <3>1, <3>2, <3>3
  <2>5. IsFiniteSet(Before(r))
    BY <2>4, FS_Subset
  <2>6. Cardinality(L) <= Cardinality(Before(r)) /\ Cardinality(Before(r)) \in Nat
    BY <2>3, <2>5, FS_Subset, FS_CardinalityType
  <2>7. Cardinality(Before(r)) < MaxEntries
    BY <1>5 DEF Shown
  <2> QED
    BY <1>2, <1>3, <2>2, <2>6, <2>7
<1>6. L = {r \in Rooms : Shown(r)}
  BY <1>3, <1>4, <1>5
<1> QED
  BY <1>1, <1>6 DEF Truth, Entry

\* What is not listed when the loop ends comes after what is.
LEMMA EndListStep ==
    ASSUME IInv, NEW m \in Makers, EndList(m)
    PROVE  IInv'
<1> USE Apart DEF IInv, EndList, ScanStep, roomVars
<1>1. /\ at[m] = "scan" /\ at'[m] = "send" /\ Scanning(m)
      /\ to' \in [Makers -> SUBSET Clients]
      /\ todo' \in [Makers -> SUBSET Rooms]
      /\ to'[m] = IF m \in Rooms THEN Clients ELSE {m}
  BY DEF Types, Scanning, Makers
<1>2. Progress(m)' /\ Between(m)' /\ Made(m)'
  BY <1>1 DEF Loops, Progress, Between, Made, Scanning
<1>3. LeftOut(m)'
  <2> SUFFICES ASSUME NEW r \in always[m] \ Listed(entries[m])
               PROVE  /\ Cardinality(entries[m]) >= MaxEntries
                      /\ \A q \in Listed(entries[m]) : q < r
    BY DEF LeftOut
  <2>1. r \in todo[m]
    BY <1>1 DEF Loops, Progress
  <2>2. Cardinality(entries[m]) \in Nat /\ MaxEntries \in Nat
    BY FS_CardinalityType, SizesAssumption DEF Loops, Made
  <2> QED
    BY <1>1, <2>1, <2>2 DEF Loops, Progress, More
<1>4. Faithful(m) => Faithful(m)'
  <2>1. Truth' = Truth
    BY DEF Truth, Shown, Open
  <2> QED
    BY <1>1, <2>1, ListedIsShown DEF Loops, Faithful, Scanning
<1>5. \A c \in Clients : c \in to'[m] <=> m \in Rooms \cup {c}
  BY <1>1 DEF Makers
<1> QED
  BY <1>1, <1>2, <1>3, <1>4, <1>5, LoopStep DEF Types, ScanLocations

(***************************************************************************)
(* The beginning of a list, and the sends.                                  *)
(***************************************************************************)

\* What a list of another maker says, and whom it is due to, has not changed.
LEMMA OthersFaithful ==
    ASSUME NEW m \in Makers, UNCHANGED roomVars,
           \A k \in Makers \ {m} : /\ at'[k] = at[k] /\ todo'[k] = todo[k]
                                   /\ half'[k] = half[k] /\ entries'[k] = entries[k]
                                   /\ to'[k] = to[k]
    PROVE  /\ \A k \in Makers \ {m} : Faithful(k) => Faithful(k)'
           /\ \A k \in Makers \ {m} : \A c \in Clients : Due(k, c)' <=> Due(k, c)
           /\ Truth' = Truth
<1> USE DEF roomVars
<1>1. Truth' = Truth
  BY DEF Truth, Shown, Open
<1>2. ASSUME NEW k \in Makers \ {m}, Faithful(k)
      PROVE  Faithful(k)'
  <2>1. Scanning(k) => entries'[k] = {Entry(r)' : r \in {r \in Passed(k)' : Open(r)'}}
    BY <1>2 DEF Faithful, Passed, Open, Entry
  <2> QED
    BY <1>1, <1>2, <2>1 DEF Faithful, Scanning, Open, Current
<1>3. \A k \in Makers \ {m} : \A c \in Clients : Due(k, c)' <=> Due(k, c)
  BY DEF Due, Scanning
<1> QED
  BY <1>1, <1>2, <1>3

\* A list that is begun is later than all others, and has nothing wrong in it yet.
LEMMA BeginListStep ==
    ASSUME IInv, NEW m \in Makers, BeginList(m)
    PROVE  IInv'
<1> USE Apart DEF IInv, BeginList, roomVars
<1>1. /\ at[m] = "list" /\ at'[m] = "scan" /\ Scanning(m)' /\ ~Scanning(m)
      /\ at' \in [Makers -> MakerLocations]
      /\ todo'[m] = rooms /\ entries'[m] = {} /\ number'[m] = begun + 1
      /\ always'[m] = {r \in rooms : Open(r)} /\ ever'[m] = {r \in rooms : Open(r)}
  BY DEF Types, Scanning, MakerLocations
<1>2. \A k \in Makers \ {m} : /\ at'[k] = at[k] /\ todo'[k] = todo[k]
                               /\ half'[k] = half[k] /\ entries'[k] = entries[k]
                               /\ to'[k] = to[k] /\ number'[k] = number[k]
                               /\ always'[k] = always[k] /\ ever'[k] = ever[k]
  BY DEF Types
<1>3. Types'
  <2>1. rooms \subseteq Rooms
    BY DEF Types
  <2> QED
    BY <1>1, <2>1 DEF Types
<1>4. Numbered' /\ Unborn'
  BY <1>1, <1>2 DEF Numbered, Unborn, Types
<1>5. EmptyExpected'
  BY <1>1, <1>2 DEF EmptyExpected, Types
<1>6. ASSUME NEW k \in Makers
      PROVE  (Ghosts(k) /\ Progress(k) /\ Between(k) /\ Made(k) /\ LeftOut(k))'
  <2>1. CASE k = m
    <3>1. Listed({}) = {} /\ IsFiniteSet({}) /\ Cardinality({}) = 0
      BY FS_EmptySet DEF Listed
    <3>2. Ghosts(m)'
      BY <1>1 DEF Ghosts, Open
    <3>3. Progress(m)'
      BY <1>1, <3>1 DEF Progress
    <3>4. Made(m)' /\ Between(m)' /\ LeftOut(m)'
      <4>1. entries'[m] = {} /\ Listed(entries[m])' = {} /\ 0 <= MaxEntries
        BY <1>1, <3>1, SizesAssumption DEF Listed
      <4> QED
        BY <1>1, <3>1, <4>1 DEF Made, Between, LeftOut
    <3> QED
      BY <2>1, <3>2, <3>3, <3>4
  <2>2. CASE k # m
    BY <1>2, <2>2 DEF Loops, Ghosts, Progress, Between, Made, LeftOut, Open, Current, Scanning
  <2> QED
    BY <2>1, <2>2
<1>7. ASSUME Settled', NEW c \in Clients
      PROVE  LatestFaithful(c)'
  <2>1. /\ \A k \in Makers \ {m} : Faithful(k) => Faithful(k)'
        /\ \A k \in Makers \ {m} : Due(k, c)' <=> Due(k, c)
        /\ Truth' = Truth
    BY <1>2, OthersFaithful
  <2>2. CASE m \in Rooms \cup {c}
    <3>1. Due(m, c)'
      BY <1>1, <2>2 DEF Due
    <3>2. /\ \A k \in Makers \ {m} : number'[k] < number'[m]
          /\ newest'[c].number < number'[m]
          /\ number'[m] \in Nat /\ newest'[c].number \in Nat
      BY <1>1, <1>2 DEF Numbered, Types
    <3>3. Faithful(m)'
      BY <1>1 DEF Faithful, Passed
    <3>4. ASSUME NEW k \in Makers, \A j \in Makers : Due(j, c)' => number'[j] <= number'[k]
          PROVE  k = m
      <4>1. number'[m] <= number'[k] /\ number'[k] \in Nat
        BY <1>3, <3>1, <3>4 DEF Types
      <4> QED
        BY <3>2, <4>1
    <3>5. ~ (number'[m] <= newest'[c].number)
      BY <3>2
    <3> QED
      BY <3>1, <3>3, <3>4, <3>5 DEF LatestFaithful
  <2>3. CASE m \notin Rooms \cup {c}
    <3>1. Settled
      BY <1>2, <1>7, <2>3 DEF Settled
    <3>2. ~Due(m, c) /\ ~Due(m, c)'
      BY <1>1, <2>3 DEF Due
    <3>3. LatestFaithful(c)
      BY <3>1 DEF AllFaithful
    <3> QED
      BY <1>2, <2>1, <3>2, <3>3 DEF LatestFaithful
  <2> QED
    BY <2>2, <2>3
<1> QED
  BY <1>3, <1>4, <1>5, <1>6, <1>7 DEF Loops, AllFaithful

\* A list that is sent either is the latest due, or the latest is still due, or was
\* sent before.
LEMMA SendStep ==
    ASSUME IInv, NEW m \in Makers, NEW c \in Clients, Send(m, c)
    PROVE  IInv'
<1> USE Apart DEF IInv, Send, roomVars
<1>1. \A k \in Makers \ {m} : /\ at'[k] = at[k] /\ todo'[k] = todo[k]
                               /\ half'[k] = half[k] /\ entries'[k] = entries[k]
                               /\ to'[k] = to[k] /\ number'[k] = number[k]
                               /\ always'[k] = always[k] /\ ever'[k] = ever[k]
  BY DEF Types
<1>2. /\ at[m] = "send" /\ c \in to[m] /\ to'[m] = to[m] \ {c}
      /\ \/ /\ to[m] # {c}
            /\ UNCHANGED <<at, entries, number, always, ever>>
         \/ /\ to[m] = {c}
            /\ at'[m] = "idle" /\ entries'[m] = {} /\ number'[m] = 0
            /\ always'[m] = {} /\ ever'[m] = {}
  BY DEF Types
<1>3. /\ number[m] > newest[c].number =>
             newest'[c] = [number |-> number[m], entries |-> entries[m]]
      /\ ~(number[m] > newest[c].number) => newest'[c] = newest[c]
      /\ \A d \in Clients \ {c} : newest'[d] = newest[d]
      /\ newest' \in [Clients -> [number : Nat, entries : SUBSET Entries]]
  BY DEF Types
<1>4. Types'
  <2>1. to' \in [Makers -> SUBSET Clients] /\ at' \in [Makers -> MakerLocations]
    BY DEF Types, MakerLocations
  <2>2. /\ entries' \in [Makers -> SUBSET Entries] /\ number' \in [Makers -> Nat]
        /\ always' \in [Makers -> SUBSET Rooms] /\ ever' \in [Makers -> SUBSET Rooms]
    <3>1. CASE to[m] # {c}
      BY <3>1 DEF Types
    <3>2. CASE to[m] = {c}
      <4>1. /\ entries' = [entries EXCEPT ![m] = {}] /\ number' = [number EXCEPT ![m] = 0]
            /\ always' = [always EXCEPT ![m] = {}] /\ ever' = [ever EXCEPT ![m] = {}]
        BY <3>2
      <4>2. /\ entries \in [Makers -> SUBSET Entries] /\ number \in [Makers -> Nat]
            /\ always \in [Makers -> SUBSET Rooms] /\ ever \in [Makers -> SUBSET Rooms]
        BY DEF Types
      <4>3. entries' \in [Makers -> SUBSET Entries]
        BY ONLY <4>1, <4>2
      <4>4. number' \in [Makers -> Nat]
        BY ONLY <4>1, <4>2
      <4>5. always' \in [Makers -> SUBSET Rooms] /\ ever' \in [Makers -> SUBSET Rooms]
        BY ONLY <4>1, <4>2
      <4> QED
        BY <4>3, <4>4, <4>5
    <3> QED
      BY <3>1, <3>2
  <2> QED
    BY <1>3, <2>1, <2>2 DEF Types
<1>5. Numbered' /\ Unborn'
  <2>1. \A k \in Makers : number'[k] <= begun
    BY <1>1, <1>2 DEF Numbered, Types
  <2>2. \A d \in Clients : newest'[d].number <= begun
    BY <1>3 DEF Numbered
  <2> QED
    BY <2>1, <2>2 DEF Numbered, Unborn
<1>6. EmptyExpected'
  BY <1>1, <1>2 DEF EmptyExpected, Types
<1>7. ASSUME NEW k \in Makers
      PROVE  (Ghosts(k) /\ Progress(k) /\ Between(k) /\ Made(k) /\ LeftOut(k))'
  <2>1. CASE k # m
    BY <1>1, <2>1 DEF Loops, Ghosts, Progress, Between, Made, LeftOut, Open, Current, Scanning
  <2>2. CASE k = m /\ to[m] # {c}
    BY <1>2, <2>2 DEF Loops, Ghosts, Progress, Between, Made, LeftOut, Open, Current, Scanning
  <2>3. CASE k = m /\ to[m] = {c}
    <3>1. Listed({}) = {} /\ IsFiniteSet({}) /\ Cardinality({}) = 0
      BY FS_EmptySet DEF Listed
    <3> QED
      <4>1. entries'[m] = {} /\ Listed(entries[m])' = {} /\ 0 <= MaxEntries
        BY <1>2, <2>3, <3>1, SizesAssumption DEF Listed
      <4>2. at'[m] = "idle" /\ always'[m] = {} /\ ever'[m] = {}
        BY <1>2, <2>3
      <4> QED
        BY <2>3, <3>1, <4>1, <4>2 DEF Ghosts, Progress, Between, Made, LeftOut, Scanning
  <2> QED
    BY <2>1, <2>2, <2>3
<1>8. ASSUME Settled', NEW d \in Clients
      PROVE  LatestFaithful(d)'
  <2>1. Settled /\ LatestFaithful(d)
    <3>1. Settled
      BY <1>1, <1>2, <1>8 DEF Settled
    <3> QED
      BY <3>1 DEF AllFaithful
  <2>2. /\ \A k \in Makers \ {m} : Faithful(k) => Faithful(k)'
        /\ \A k \in Makers \ {m} : Due(k, d)' <=> Due(k, d)
        /\ Truth' = Truth
    BY <1>1, OthersFaithful
  <2>3. CASE d # c
    <3>1. Due(m, d)' <=> Due(m, d)
      BY <1>2, <2>3 DEF Due, Scanning
    <3>2. Due(m, d) => number'[m] = number[m] /\ (Faithful(m) => Faithful(m)')
      BY <1>2, <2>2, <2>3 DEF Due, Scanning, Faithful
    <3> QED
      BY <1>1, <1>3, <2>1, <2>2, <2>3, <3>1, <3>2 DEF LatestFaithful
  <2>4. CASE d = c
    <3>1. Due(m, c) /\ ~Due(m, c)'
      BY <1>2 DEF Due, Scanning
    <3>2. /\ number \in [Makers -> Nat] /\ newest[c].number \in Nat
          /\ newest'[c].number \in Nat
      BY <1>3 DEF Types
    <3>3. newest[c].number <= newest'[c].number /\ number[m] <= newest'[c].number
      BY <1>3, <3>2
    <3>4. ASSUME NEW k \in Makers, Due(k, c)', number'[k] > newest'[c].number,
                 \A j \in Makers : Due(j, c)' => number'[j] <= number'[k]
          PROVE  Faithful(k)'
      <4>1. k # m /\ number'[k] = number[k]
        BY <1>1, <3>1, <3>4
      <4>2. number[k] > newest[c].number /\ number[m] <= number[k]
        BY <3>2, <3>3, <3>4, <4>1
      <4>3. \A j \in Makers : Due(j, c) => number[j] <= number[k]
        BY <1>1, <2>2, <2>4, <3>4, <4>1, <4>2
      <4> QED
        BY <2>1, <2>2, <2>4, <3>4, <4>1, <4>2, <4>3 DEF LatestFaithful
    <3>5. ASSUME \A k \in Makers : Due(k, c)' => number'[k] <= newest'[c].number
          PROVE  newest'[c].entries = Truth
      <4>1. \A k \in Makers : Due(k, c) => number[k] <= newest'[c].number
        BY <1>1, <2>2, <2>4, <3>3, <3>5
      <4>2. CASE number[m] > newest[c].number
        BY <1>2, <1>3, <2>1, <2>4, <3>1, <4>1, <4>2 DEF LatestFaithful, Faithful
      <4>3. CASE ~(number[m] > newest[c].number)
        BY <1>3, <2>1, <2>4, <4>1, <4>3 DEF LatestFaithful
      <4> QED
        BY <4>2, <4>3
    <3> QED
      BY <2>2, <2>4, <3>4, <3>5 DEF LatestFaithful
  <2> QED
    BY <2>3, <2>4
<1> QED
  BY <1>4, <1>5, <1>6, <1>7, <1>8 DEF Loops, AllFaithful

(***************************************************************************)
(* The invariant.                                                           *)
(***************************************************************************)

\* No step disturbs it.
LEMMA NextInv ==
    ASSUME IInv, [Next]_vars
    PROVE  IInv'
<1>1. CASE UNCHANGED vars
  <2> USE <1>1 DEF IInv, vars, roomVars, scanVars
  <2>1. Types' /\ Numbered' /\ Unborn' /\ EmptyExpected'
    BY DEF Types, Numbered, Unborn, EmptyExpected
  <2>2. Loops' /\ AllFaithful'
    BY NothingSeen DEF Types
  <2> QED
    BY <2>1, <2>2
<1>2. CASE Next
  <2> USE <1>2
  <2>1. ASSUME NEW r \in Rooms,
               \/ CreateRoom(r) \/ RemoveRoom(r) \/ Enter(r) \/ EnterRefused(r) \/ Leave(r)
               \/ HandleStartGame(r) \/ CheckGameEnd(r)
        PROVE  IInv'
    BY <2>1, CreateRoomStep, RemoveRoomStep, EnterStep, EnterRefusedStep, LeaveStep, GameStep
  <2>2. ASSUME NEW c \in Clients, RequestRoomList(c)
        PROVE  IInv'
    BY <2>2, RequestStep
  <2>3. ASSUME NEW m \in Makers,
               \/ BeginList(m) \/ TestFull(m) \/ TestStarted(m) \/ ReadCount(m)
               \/ ReadStarted(m) \/ EndList(m)
        PROVE  IInv'
    BY <2>3, BeginListStep, TestFullStep, TestStartedStep, ReadCountStep, ReadStartedStep,
       EndListStep
  <2>4. ASSUME NEW m \in Makers, NEW c \in Clients, Send(m, c)
        PROVE  IInv'
    BY <2>4, SendStep
  <2> QED
    BY <2>1, <2>2, <2>3, <2>4 DEF Next
<1> QED
  BY <1>1, <1>2

\* A server that is up and quiet has told its clients the truth.
LEMMA InitUp ==
    ASSUME UpInit
    PROVE  IInv
<1> USE SizesAssumption DEF UpInit
<1>1. Truth \subseteq Entries
  <2>1. \A r \in Rooms : [room |-> r, count |-> count[r], started |-> started[r]] \in Entries
    BY DEF Entries
  <2> QED
    BY <2>1 DEF Truth
<1>2. Types
  BY <1>1, BoundsAssumption DEF Types, MakerLocations
<1>3. Numbered
  BY DEF Numbered
<1>4. Unborn /\ EmptyExpected
  <2>1. \A r \in Rooms : count[r] \in 0..MAX_PLAYERS /\ started[r] \in BOOLEAN
    OBVIOUS
  <2> QED
    BY <2>1 DEF Unborn, EmptyExpected
<1>5. Loops
  <2>1. Listed({}) = {} /\ IsFiniteSet({}) /\ Cardinality({}) = 0
    BY FS_EmptySet DEF Listed
  <2>2. \A m \in Makers : /\ at[m] = "idle" /\ entries[m] = {} /\ Listed(entries[m]) = {}
                         /\ always[m] = {} /\ ever[m] = {}
    BY <2>1
  <2>3. 0 <= MaxEntries
    OBVIOUS
  <2>4. \A m \in Makers : Made(m)
    BY <2>1, <2>2, <2>3 DEF Made
  <2>5. \A m \in Makers : Ghosts(m) /\ Progress(m) /\ Between(m) /\ LeftOut(m)
    BY <2>2 DEF Ghosts, Progress, Between, LeftOut, Scanning
  <2> QED
    BY <2>4, <2>5 DEF Loops
<1>6. AllFaithful
  <2>1. \A m \in Makers : at[m] = "idle"
    OBVIOUS
  <2>2. \A c \in Clients : newest[c].entries = Truth
    OBVIOUS
  <2> QED
    BY <2>1, <2>2 DEF AllFaithful, LatestFaithful, Due, Scanning
<1> QED
  BY <1>2, <1>3, <1>4, <1>5, <1>6 DEF IInv

\* A server that has just begun is one that has no rooms.
LEMMA InitIsUp ==
    ASSUME Init
    PROVE  UpInit
<1> USE SizesAssumption DEF Init, UpInit
<1>1. \A r \in Rooms : ~Shown(r)
  BY DEF Shown, Open
<1>2. Truth = {}
  BY <1>1 DEF Truth
<1> QED
  BY <1>2

\* The invariant holds always, however the server was begun.
THEOREM Inductive == UpSpec => []IInv
<1>1. UpInit => IInv
  BY InitUp
<1>2. IInv /\ [Next]_vars => IInv'
  BY NextInv
<1> QED
  BY <1>1, <1>2, PTL DEF UpSpec

\* What is proved of a server in use holds for one from its start.
THEOREM FromTheStart == Spec => UpSpec
<1>1. Init => UpInit
  BY InitIsUp
<1> QED
  BY <1>1, PTL DEF Spec, UpSpec

\* Every variable has its type; the counts stay within MAX_PLAYERS (Room.h).
THEOREM TypeCorrect == UpSpec => []TypeOK
<1>1. IInv => TypeOK
  <2> SUFFICES ASSUME IInv
               PROVE  TypeOK
    OBVIOUS
  <2> USE DEF IInv
  <2>1. \A m \in Makers : number[m] \in 0..begun
    BY DEF Types, Numbered
  <2>2. \A c \in Clients : newest[c].number \in 0..begun /\ newest[c].entries \subseteq Entries
    BY DEF Types, Numbered
  <2>3. \A m \in Makers : always[m] \subseteq ever[m] /\ ever[m] \subseteq Rooms
    BY DEF Types, Loops, Ghosts
  <2> QED
    BY <2>1, <2>2, <2>3 DEF Types, TypeOK, MakerLocations
<1> QED
  BY <1>1, Inductive, PTL

\* A list lists no room that was not open while it was made, leaves out no room that
\* was open throughout unless the packet was full before it, and shows full or started
\* only what changed meanwhile (MakeRoomListPacket, RoomManager.cpp:37).
THEOREM Plausible == UpSpec => []ListIsPlausible
<1>1. IInv => ListIsPlausible
  <2> SUFFICES ASSUME IInv, NEW m \in Makers, at[m] = "send"
               PROVE  /\ Listed(entries[m]) \subseteq ever[m]
                      /\ \A r \in always[m] \ Listed(entries[m]) :
                            Cardinality({q \in Listed(entries[m]) : q < r}) >= MaxEntries
                      /\ \A e \in entries[m] :
                            e.started \/ IsFull(e.count) => e.room \notin always[m]
    BY DEF ListIsPlausible
  <2> USE DEF IInv, Loops
  <2>1. ASSUME NEW r \in always[m] \ Listed(entries[m])
        PROVE  Cardinality({q \in Listed(entries[m]) : q < r}) >= MaxEntries
    <3>1. {q \in Listed(entries[m]) : q < r} = Listed(entries[m])
      BY <2>1 DEF LeftOut
    <3>2. Cardinality(entries[m]) >= MaxEntries
      BY <2>1 DEF LeftOut
    <3> QED
      BY <3>1, <3>2 DEF Made
  <2> QED
    BY <2>1 DEF Made
<1> QED
  BY <1>1, Inductive, PTL

\* When nothing is under way, the newest list that each client was sent is the list as
\* it is now (BroadcastRoomList at the end of the jobs of Room.cpp).
THEOREM Newest == UpSpec => []NewestIsTrue
<1>1. IInv => NewestIsTrue
  <2> SUFFICES ASSUME IInv, Quiet, NEW c \in Clients
               PROVE  newest[c].entries = Truth
    BY DEF NewestIsTrue
  <2> USE DEF IInv, Quiet
  <2>1. Settled
    BY Apart DEF Settled, EmptyExpected, Types
  <2>2. \A m \in Makers : ~Due(m, c)
    BY DEF Due, Scanning
  <2> QED
    BY <2>1, <2>2 DEF AllFaithful, LatestFaithful
<1> QED
  BY <1>1, Inductive, PTL

===============================================================================
