---------------------------- MODULE GameRoomsProofs ----------------------------
(***************************************************************************)
(* Theorems about GameRooms for any clients, players, rooms, capacities and *)
(* numbers of jobs.                                                         *)
(***************************************************************************)
EXTENDS GameRooms, FiniteSetTheorems, SequenceTheorems, TLAPS

\* A job is pushed, and a room has one, only when the room was created; until
\* somebody enters, the room is as its constructor made it.
Blank(r) ==
    members[r] = {} /\ count[r] = 0 /\ ~started[r] /\ roomOwner[r] = NoPlayer
NotCreated ==
    \A r \in Rooms \ created :
        /\ Blank(r) /\ mail[r] = <<>>
        /\ \A a \in Actors : pushing[a] # NoPush => pushing[a].room # r

\* A listed room without a player is one that nobody has entered yet: CreateRoom
\* never lists a room again.
EmptyIsBlank == \A r \in rooms : members[r] = {} => Blank(r)

\* OnDisconnected runs once, has a player to take out, and pushes last.
ClosesOnce ==
    \A s \in Sessions :
        /\ conn[s] = "leaving" => player[s] # NoPlayer
        /\ pushing[<<s, "close">>] # NoPush => conn[s] = "closed"

MembersFinite == \A r \in Rooms : IsFiniteSet(members[r])

IInv ==
    /\ TypeOK
    /\ NotCreated
    /\ EmptyIsBlank
    /\ ClosesOnce
    /\ MembersFinite
    /\ NeverOverfull
    /\ RoomHasItsPlayer
    /\ ClientsKnowTheRoom
    /\ EmptyRoomAwaitsEntry

-------------------------------------------------------------------------------

Kinds == {"Enter", "Leave", "Start", "Damage", "Move", "ItemDrop"}
Data == Looks \cup Places \cup {Nothing}

\* What is inside the rooms, and player->room.
Inside ==
    MembersFinite /\ NeverOverfull /\ RoomHasItsPlayer /\ ClientsKnowTheRoom
InsideVars == <<members, count, started, roomOwner, told, room>>

\* It depends on nothing else: not on queues, looks, lists or sessions.
LEMMA InsideKept ==
    ASSUME Inside, UNCHANGED <<members, count, told, room>>
    PROVE  Inside'
BY DEF Inside, MembersFinite, NeverOverfull, RoomHasItsPlayer, ClientsKnowTheRoom

\* An entry that is on its way to r.
Coming(r) ==
    \/ \E i \in 1..Len(mail[r]) : mail[r][i].kind = "Enter"
    \/ \E a \in Actors : /\ pushing[a] # NoPush
                         /\ pushing[a].room = r /\ pushing[a].job.kind = "Enter"

\* The room of a player was created.
LEMMA RoomCreated ==
    ASSUME IInv, NEW p \in Players, room[p] # NoRoom
    PROVE  room[p] \in created
BY DEF IInv, TypeOK, RoomHasItsPlayer, NotCreated, Blank

\* A handler that does not push: it leaves the rooms and their jobs alone.
LEMMA QuietStep ==
    ASSUME IInv, NEW s \in Sessions,
           EndRecv(s) \/ Disconnect(s) \/ OnDisconnected(s)
             \/ \E p \in Players : Handle_CS_LOGIN(s, p)
    PROVE  IInv'
<1> USE DEF IInv
<1>1. UNCHANGED <<roomVars, room, alive, look, mail, pushing, jobs, crashed>>
  BY DEF EndRecv, Disconnect, OnDisconnected, Handle_CS_LOGIN, playerVars
<1>2. TypeOK' /\ ClosesOnce'
  <2>1. CASE EndRecv(s)
    BY <1>1, <2>1 DEF TypeOK, ClosesOnce, EndRecv, playerVars, roomVars
  <2>2. CASE Disconnect(s)
    <3>1. conn[s] = "open" /\ conn' = [conn EXCEPT ![s] = "closing"]
          /\ UNCHANGED <<receiving, playerVars>>
      BY <2>2 DEF Disconnect
    <3> QED
      BY <1>1, <3>1 DEF TypeOK, ClosesOnce, playerVars, roomVars
  <2>3. CASE OnDisconnected(s)
    <3>1. PICK c \in {"leaving", "closed"} :
            /\ conn' = [conn EXCEPT ![s] = c]
            /\ conn[s] = "closing" /\ (c = "leaving" => player[s] # NoPlayer)
      BY <2>3 DEF OnDisconnected
    <3>2. UNCHANGED <<receiving, playerVars>>
      BY <2>3 DEF OnDisconnected
    <3> QED
      BY <1>1, <3>1, <3>2 DEF TypeOK, ClosesOnce, playerVars, roomVars
  <2>4. ASSUME NEW p \in Players, Handle_CS_LOGIN(s, p)
        PROVE  TypeOK' /\ ClosesOnce'
    <3>1. /\ owner' = [owner EXCEPT ![p] = s] /\ player' = [player EXCEPT ![s] = p]
          /\ UNCHANGED <<conn, receiving>>
      BY <2>4 DEF Handle_CS_LOGIN
    <3> QED
      BY <1>1, <3>1, NoneAssumption DEF TypeOK, ClosesOnce, roomVars
  <2> QED
    BY <2>1, <2>2, <2>3, <2>4
<1>3. NotCreated' /\ EmptyIsBlank'
  BY <1>1 DEF NotCreated, EmptyIsBlank, Blank, roomVars
<1>5. Inside'
  BY <1>1, InsideKept DEF Inside, roomVars
<1>6. EmptyRoomAwaitsEntry'
  BY <1>1 DEF EmptyRoomAwaitsEntry, roomVars
<1> QED
  BY <1>2, <1>3, <1>5, <1>6 DEF Inside

\* A push that is announced is one that can be told from none.
LEMMA WillPushes ==
    ASSUME TypeOK, NEW a \in Actors, NEW r \in Rooms, NEW kind \in Kinds,
           NEW p \in Players, NEW d \in Data, WillPush(a, r, kind, p, d)
    PROVE  /\ pushing' \in [Actors -> Pushes \cup {NoPush}]
           /\ pushing'[a] # NoPush
           /\ pushing'[a].room = r /\ pushing'[a].job.kind = kind
           /\ \A b \in Actors \ {a} : pushing'[b] = pushing[b]
           /\ jobs' \in 0..MaxJobs
<1>1. [room |-> r, job |-> [kind |-> kind, player |-> p, data |-> d]] \in Pushes
  BY DEF Pushes, Job, Kinds, Data
<1>2. pushing' = [pushing EXCEPT
                    ![a] = [room |-> r, job |-> [kind |-> kind, player |-> p, data |-> d]]]
  BY DEF WillPush
<1>3. pushing'[a] = [room |-> r, job |-> [kind |-> kind, player |-> p, data |-> d]]
  BY <1>2 DEF TypeOK
<1>4. jobs' \in 0..MaxJobs
  BY BoundsAssumption DEF WillPush, TypeOK
<1>5. pushing' \in [Actors -> Pushes \cup {NoPush}]
  BY <1>1, <1>2 DEF TypeOK
<1>6. \A b \in Actors \ {a} : pushing'[b] = pushing[b]
  BY <1>2 DEF TypeOK
<1> QED
  BY <1>1, <1>3, <1>4, <1>5, <1>6, NoPushAssumption

\* A job is announced for a room that exists, by a handler or by OnDisconnected.
LEMMA AnnounceStep ==
    ASSUME IInv, NEW s \in Sessions, NEW side \in {"recv", "close"}, NEW r \in created,
           NEW kind \in Kinds, NEW p \in Players, NEW d \in Data,
           WillPush(<<s, side>>, r, kind, p, d), pushing[<<s, side>>] = NoPush,
           conn' = IF side = "close" THEN [conn EXCEPT ![s] = "closed"] ELSE conn,
           UNCHANGED <<receiving, playerVars, roomVars, mail, crashed>>
    PROVE  IInv'
<1> USE DEF IInv
<1>1. <<s, side>> \in Actors /\ r \in Rooms
  BY DEF Actors, TypeOK
<1>2. /\ pushing' \in [Actors -> Pushes \cup {NoPush}]
      /\ pushing'[<<s, side>>] # NoPush
      /\ pushing'[<<s, side>>].room = r /\ pushing'[<<s, side>>].job.kind = kind
      /\ \A b \in Actors \ {<<s, side>>} : pushing'[b] = pushing[b]
      /\ jobs' \in 0..MaxJobs
  BY <1>1, WillPushes
<1>3. TypeOK'
  BY <1>2 DEF TypeOK, playerVars, roomVars
<1>4. NotCreated' /\ EmptyIsBlank'
  BY <1>1, <1>2 DEF NotCreated, EmptyIsBlank, Blank, roomVars
<1>5. ClosesOnce'
  BY <1>1, <1>2 DEF ClosesOnce, TypeOK, playerVars, Actors
<1>6. Inside'
  BY InsideKept DEF Inside, roomVars, playerVars
<1>7. EmptyRoomAwaitsEntry'
  BY <1>1, <1>2 DEF EmptyRoomAwaitsEntry, roomVars
<1> QED
  BY <1>3, <1>4, <1>5, <1>6, <1>7 DEF Inside

\* The packets that lead to a job of the player's own room, and OnDisconnected.
LEMMA HandlerStep ==
    ASSUME IInv, NEW s \in Sessions,
           \/ HandlePacket(s) \/ OnDisconnectedLeave(s),
           ~ \E r \in Rooms : Handle_CS_CREATE_ROOM(s, r)
    PROVE  IInv'
<1> USE DEF IInv
<1>1. ASSUME NEW kind \in Kinds, NEW p \in Players, NEW d \in Data, InRoom(s, kind, p, d)
      PROVE  IInv'
  <2>1. player[s] \in Players /\ room[player[s]] # NoRoom
    BY <1>1 DEF InRoom, TypeOK
  <2>2. room[player[s]] \in created
    BY <2>1, RoomCreated
  <2> QED
    BY <1>1, <2>2, AnnounceStep DEF InRoom, Handles
<1>2. ASSUME NEW r \in Rooms, Handle_CS_ENTER_ROOM(s, r)
      PROVE  IInv'
  <2>1. player[s] \in Players /\ r \in created /\ "Enter" \in Kinds /\ Nothing \in Data
    BY <1>2 DEF Handle_CS_ENTER_ROOM, TypeOK, Kinds, Data
  <2> QED
    BY <1>2, <2>1, AnnounceStep DEF Handle_CS_ENTER_ROOM, Handles
<1>3. ASSUME OnDisconnectedLeave(s)
      PROVE  IInv'
  <2>1. player[s] \in Players /\ pushing[<<s, "close">>] = NoPush
    BY <1>3 DEF OnDisconnectedLeave, ClosesOnce, TypeOK
  <2>2. CASE room[player[s]] = NoRoom
    <3>1. UNCHANGED <<conn, receiving, playerVars, roomVars, mail, pushing, jobs>>
          /\ crashed' = TRUE
      BY <1>3, <2>2 DEF OnDisconnectedLeave
    <3>2. TypeOK' /\ ClosesOnce'
      BY <3>1 DEF TypeOK, ClosesOnce, playerVars, roomVars
    <3>3. NotCreated' /\ EmptyIsBlank' /\ EmptyRoomAwaitsEntry'
      BY <3>1 DEF NotCreated, EmptyIsBlank, Blank, EmptyRoomAwaitsEntry, roomVars
    <3>4. Inside'
      BY <3>1, InsideKept DEF Inside, roomVars, playerVars
    <3> QED
      BY <3>2, <3>3, <3>4 DEF Inside
  <2>3. CASE room[player[s]] # NoRoom
    <3>1. room[player[s]] \in created /\ "Leave" \in Kinds /\ Nothing \in Data
      BY <2>1, <2>3, RoomCreated DEF Kinds, Data
    <3>2. /\ WillPush(<<s, "close">>, room[player[s]], "Leave", player[s], Nothing)
          /\ conn' = [conn EXCEPT ![s] = "closed"]
          /\ UNCHANGED <<receiving, playerVars, roomVars, mail, crashed>>
      BY <1>3, <2>3 DEF OnDisconnectedLeave
    <3> QED
      BY <2>1, <3>1, <3>2, AnnounceStep
  <2> QED
    BY <2>2, <2>3
<1>4. ASSUME Handle_CS_LEAVE_ROOM(s) \/ Handle_CS_START_GAME(s)
      PROVE  IInv'
  <2>1. player[s] \in Players /\ Nothing \in Data /\ {"Leave", "Start"} \subseteq Kinds
    BY <1>4 DEF Handle_CS_LEAVE_ROOM, Handle_CS_START_GAME, InRoom, TypeOK, Data, Kinds
  <2> QED
    BY <1>1, <1>4, <2>1 DEF Handle_CS_LEAVE_ROOM, Handle_CS_START_GAME
<1>5. ASSUME NEW p \in Players, Handle_CS_DAMAGE(s, p)
      PROVE  IInv'
  BY <1>1, <1>5 DEF Handle_CS_DAMAGE, Kinds, Data
<1>6. ASSUME NEW l \in Looks, Handle_CS_MOVE(s, l)
      PROVE  IInv'
  <2>1. player[s] \in Players /\ l \in Data /\ "Move" \in Kinds
    BY <1>6 DEF Handle_CS_MOVE, InRoom, TypeOK, Data, Kinds
  <2> QED
    BY <1>1, <1>6, <2>1 DEF Handle_CS_MOVE
<1>7. ASSUME NEW x \in Places, Handle_CS_ITEM_DROP(s, x)
      PROVE  IInv'
  <2>1. player[s] \in Players /\ x \in Data /\ "ItemDrop" \in Kinds
    BY <1>7 DEF Handle_CS_ITEM_DROP, InRoom, TypeOK, Data, Kinds
  <2> QED
    BY <1>1, <1>7, <2>1 DEF Handle_CS_ITEM_DROP
<1> QED
  BY <1>2, <1>3, <1>4, <1>5, <1>6, <1>7, QuietStep DEF HandlePacket

\* A new room is blank, and its creator is on the way.
LEMMA CreateStep ==
    ASSUME IInv, NEW s \in Sessions, NEW r \in Rooms, Handle_CS_CREATE_ROOM(s, r)
    PROVE  IInv'
<1> USE DEF IInv
<1>1. /\ player[s] \in Players /\ r \notin created
      /\ created' = created \cup {r} /\ rooms' = rooms \cup {r}
      /\ WillPush(<<s, "recv">>, r, "Enter", player[s], Nothing)
      /\ pushing[<<s, "recv">>] = NoPush
      /\ UNCHANGED <<conn, receiving, playerVars, members, count, started, roomOwner,
                     drops, told, mail, crashed>>
  BY DEF Handle_CS_CREATE_ROOM, Handles, TypeOK
<1>2. <<s, "recv">> \in Actors /\ "Enter" \in Kinds /\ Nothing \in Data
  BY DEF Actors, Kinds, Data
<1>3. /\ pushing' \in [Actors -> Pushes \cup {NoPush}]
      /\ pushing'[<<s, "recv">>] # NoPush
      /\ pushing'[<<s, "recv">>].room = r /\ pushing'[<<s, "recv">>].job.kind = "Enter"
      /\ \A b \in Actors \ {<<s, "recv">>} : pushing'[b] = pushing[b]
      /\ jobs' \in 0..MaxJobs
  BY <1>1, <1>2, WillPushes
<1>4. TypeOK'
  BY <1>1, <1>3 DEF TypeOK, playerVars
<1>5. NotCreated' /\ EmptyIsBlank'
  BY <1>1, <1>2, <1>3 DEF NotCreated, EmptyIsBlank, Blank
<1>6. ClosesOnce'
  BY <1>1, <1>2, <1>3 DEF ClosesOnce, TypeOK, playerVars, Actors
<1>7. Inside'
  BY <1>1, InsideKept DEF Inside, playerVars
<1>8. EmptyRoomAwaitsEntry'
  BY <1>1, <1>2, <1>3 DEF EmptyRoomAwaitsEntry
<1> QED
  BY <1>4, <1>5, <1>6, <1>7, <1>8 DEF Inside

\* The push itself: what was coming is in the mail.
LEMMA PushStep ==
    ASSUME IInv, NEW a \in Actors, Push(a)
    PROVE  IInv'
<1> USE DEF IInv
<1> DEFINE r == pushing[a].room
           j == pushing[a].job
<1>1. /\ r \in Rooms /\ j \in Job /\ r \in created
      /\ mail' = [mail EXCEPT ![r] = Append(mail[r], j)]
      /\ pushing' = [pushing EXCEPT ![a] = NoPush]
      /\ UNCHANGED <<conn, receiving, playerVars, roomVars, jobs, crashed>>
  BY DEF Push, TypeOK, Pushes, NotCreated
<1>2. /\ Append(mail[r], j) \in Seq(Job)
      /\ Len(Append(mail[r], j)) = Len(mail[r]) + 1 /\ Len(mail[r]) \in Nat
      /\ Append(mail[r], j)[Len(mail[r]) + 1] = j
      /\ \A i \in 1..Len(mail[r]) : Append(mail[r], j)[i] = mail[r][i]
  BY <1>1, AppendProperties, LenProperties DEF TypeOK
<1>3. TypeOK'
  BY <1>1, <1>2 DEF TypeOK, playerVars, roomVars
<1>4. NotCreated' /\ EmptyIsBlank'
  BY <1>1 DEF NotCreated, EmptyIsBlank, Blank, roomVars, TypeOK
<1>5. ClosesOnce'
  BY <1>1 DEF ClosesOnce, TypeOK, playerVars, Actors
<1>6. Inside'
  BY <1>1, InsideKept DEF Inside, roomVars, playerVars
<1>7. EmptyRoomAwaitsEntry'
  <2> SUFFICES ASSUME NEW q \in rooms, members[q] = {}
               PROVE  Coming(q)'
    BY <1>1 DEF EmptyRoomAwaitsEntry, Coming, roomVars
  <2>1. Coming(q) /\ q \in Rooms
    BY DEF EmptyRoomAwaitsEntry, Coming, TypeOK
  <2>2. CASE \E i \in 1..Len(mail[q]) : mail[q][i].kind = "Enter"
    <3>1. PICK i \in 1..Len(mail[q]) : mail[q][i].kind = "Enter"
      BY <2>2
    <3>2. i \in 1..Len(mail'[q]) /\ mail'[q][i] = mail[q][i]
      BY <1>1, <1>2, <2>1 DEF TypeOK
    <3> QED
      BY <3>1, <3>2 DEF Coming
  <2>3. CASE \E b \in Actors : /\ pushing[b] # NoPush
                               /\ pushing[b].room = q /\ pushing[b].job.kind = "Enter"
    <3>1. PICK b \in Actors : /\ pushing[b] # NoPush
                              /\ pushing[b].room = q /\ pushing[b].job.kind = "Enter"
      BY <2>3
    <3>2. CASE b = a
      <4>1. Len(mail'[q]) = Len(mail[q]) + 1 /\ mail'[q][Len(mail[q]) + 1].kind = "Enter"
        BY <1>1, <1>2, <3>1, <3>2 DEF TypeOK
      <4> QED
        BY <1>2, <3>1, <3>2, <4>1 DEF Coming
    <3>3. CASE b # a
      BY <1>1, <3>1, <3>3 DEF Coming, TypeOK
    <3> QED
      BY <3>2, <3>3
  <2> QED
    BY <2>1, <2>2, <2>3 DEF Coming
<1> QED
  BY <1>3, <1>4, <1>5, <1>6, <1>7 DEF Inside

-------------------------------------------------------------------------------

\* What a job does to the mail: the room exists, and unless the job is an Enter,
\* who was coming still is.
LEMMA TakesMail ==
    ASSUME IInv, NEW r \in Rooms, NEW kind \in Kinds, NEW p \in Players, NEW d \in Data,
           Takes(r, kind, p, d)
    PROVE  /\ r \in created
           /\ mail' \in [Rooms -> Seq(Job)]
           /\ \A q \in Rooms \ {r} : mail'[q] = mail[q]
           /\ \A q \in Rooms \ {r} : Coming(q) => Coming(q)'
           /\ kind # "Enter" /\ Coming(r) => Coming(r)'
<1> USE DEF IInv
<1>1. /\ mail[r] \in Seq(Job) /\ mail[r] # <<>>
      /\ mail' = [mail EXCEPT ![r] = Tail(mail[r])] /\ pushing' = pushing
      /\ Head(mail[r]).kind = kind
  BY DEF Takes, TypeOK
<1>2. /\ Tail(mail[r]) \in Seq(Job) /\ Len(Tail(mail[r])) = Len(mail[r]) - 1
      /\ Len(mail[r]) \in Nat \ {0}
      /\ \A i \in 1..Len(Tail(mail[r])) : Tail(mail[r])[i] = mail[r][i + 1]
  BY <1>1, HeadTailProperties, EmptySeq
<1>3. r \in created
  BY <1>1 DEF NotCreated
<1>4. mail' \in [Rooms -> Seq(Job)] /\ \A q \in Rooms \ {r} : mail'[q] = mail[q]
  BY <1>1, <1>2 DEF TypeOK
<1>5. \A q \in Rooms \ {r} : Coming(q) => Coming(q)'
  BY <1>1, <1>4 DEF Coming
<1>6. ASSUME kind # "Enter", Coming(r)
      PROVE  Coming(r)'
  <2>1. CASE \E i \in 1..Len(mail[r]) : mail[r][i].kind = "Enter"
    <3>1. PICK i \in 1..Len(mail[r]) : mail[r][i].kind = "Enter"
      BY <2>1
    <3>2. i # 1
      BY <1>1, <1>6, <3>1
    <3>3. mail'[r] = Tail(mail[r])
      BY <1>1 DEF TypeOK
    <3>4. i - 1 \in 1..Len(mail'[r]) /\ mail'[r][i - 1].kind = "Enter"
      BY <1>2, <3>1, <3>2, <3>3
    <3> QED
      BY <3>4 DEF Coming
  <2>2. CASE ~ \E i \in 1..Len(mail[r]) : mail[r][i].kind = "Enter"
    BY <1>1, <1>6, <2>2 DEF Coming
  <2> QED
    BY <2>1, <2>2
<1> QED
  BY <1>3, <1>4, <1>5, <1>6

\* What of a job nobody else sees: the rooms it is not for, and the sessions.
LEMMA ElsewhereKept ==
    ASSUME IInv, NEW r \in created, UNCHANGED <<conn, player, created, pushing>>,
           \A q \in Rooms \ {r} : /\ members'[q] = members[q] /\ count'[q] = count[q]
                                  /\ started'[q] = started[q] /\ roomOwner'[q] = roomOwner[q]
                                  /\ mail'[q] = mail[q]
    PROVE  NotCreated' /\ ClosesOnce'
<1>1. NotCreated'
  BY DEF IInv, NotCreated, Blank
<1>2. ClosesOnce'
  BY DEF IInv, ClosesOnce
<1> QED
  BY <1>1, <1>2

\* Who is shown something of p, and what the picture is otherwise.
LEMMA ShownTo ==
    ASSUME TypeOK, NEW r \in Rooms, NEW p \in Players, NEW l \in Looks \cup {Nothing}
    PROVE  /\ Shown(r, p, l) \in [Players -> [Players -> Looks \cup {Nothing}]]
           /\ \A m \in members[r] \ {p} :
                 /\ Shown(r, p, l)[m][p] = l
                 /\ \A q \in Players \ {p} : Shown(r, p, l)[m][q] = told[r][m][q]
BY DEF Shown, TypeOK

\* An entry, as the others and the newcomer see it.
LEMMA ToldOfEntryIs ==
    ASSUME TypeOK, NEW r \in Rooms, NEW p \in Players
    PROVE  /\ ToldOfEntry(r, p) \in [Players -> [Players -> Looks \cup {Nothing}]]
           /\ ToldOfEntry(r, p)[p] = Snapshot(r)
           /\ \A m \in members[r] \ {p} :
                 /\ ToldOfEntry(r, p)[m][p] = look[p]
                 /\ \A q \in Players \ {p} : ToldOfEntry(r, p)[m][q] = told[r][m][q]
<1>1. look[p] \in Looks /\ Snapshot(r) \in [Players -> Looks \cup {Nothing}]
      /\ members[r] \subseteq Players
  BY DEF TypeOK, Snapshot
<1>2. /\ Shown(r, p, look[p]) \in [Players -> [Players -> Looks \cup {Nothing}]]
      /\ \A m \in members[r] \ {p} :
            /\ Shown(r, p, look[p])[m][p] = look[p]
            /\ \A q \in Players \ {p} : Shown(r, p, look[p])[m][q] = told[r][m][q]
  BY <1>1, ShownTo
<1> QED
  BY <1>1, <1>2 DEF ToldOfEntry

\* A departure, as those who stay see it.
LEMMA ToldOfLeaveIs ==
    ASSUME TypeOK, NEW r \in Rooms, NEW p \in Players
    PROVE  /\ ToldOfLeave(r, p) \in [Players -> [Players -> Looks \cup {Nothing}]]
           /\ \A m \in members[r] \ {p} :
                 /\ ToldOfLeave(r, p)[m][p] = Nothing
                 /\ \A q \in Players \ {p} : ToldOfLeave(r, p)[m][q] = told[r][m][q]
<1>1. /\ Shown(r, p, Nothing) \in [Players -> [Players -> Looks \cup {Nothing}]]
      /\ \A m \in members[r] \ {p} :
            /\ Shown(r, p, Nothing)[m][p] = Nothing
            /\ \A q \in Players \ {p} : Shown(r, p, Nothing)[m][q] = told[r][m][q]
  BY ShownTo
<1>2. members[r] \subseteq Players
  BY DEF TypeOK
<1> QED
  BY <1>1, <1>2 DEF ToldOfLeave

\* Enter, when the player is let in: the room was not full, so it is not overfull,
\* and everybody is told of everybody.
LEMMA LetInStep ==
    ASSUME IInv, NEW r \in Rooms, NEW p \in Players, Enter(r, p), ~IsFull(r), ~started[r]
    PROVE  IInv'
<1> USE DEF IInv
<1>1. /\ Takes(r, "Enter", p, Nothing) /\ LetIn(r, p) /\ UNCHANGED <<look, drops>>
      /\ UNCHANGED <<conn, receiving, player, owner, created, pushing, jobs, crashed>>
  BY DEF Enter, Takes
<1>2. /\ r \in created /\ mail' \in [Rooms -> Seq(Job)]
      /\ \A q \in Rooms \ {r} : mail'[q] = mail[q]
      /\ \A q \in Rooms \ {r} : Coming(q) => Coming(q)'
  BY <1>1, TakesMail DEF Kinds, Data
<1>3. /\ alive' = [alive EXCEPT ![p] = TRUE]
      /\ roomOwner' \in [Rooms -> Players \cup {NoPlayer}]
      /\ \A q \in Rooms \ {r} : roomOwner'[q] = roomOwner[q]
      /\ told' = [told EXCEPT ![r] = ToldOfEntry(r, p)]
      /\ members' = [members EXCEPT ![r] = members[r] \cup {p}]
      /\ room' = [room EXCEPT ![p] = r]
      /\ count' = [count EXCEPT ![r] = count[r] + 1]
      /\ rooms' = rooms /\ started' = started
  BY <1>1 DEF LetIn, TypeOK
<1>4. TypeOK'
  BY <1>1, <1>2, <1>3, ToldOfEntryIs DEF TypeOK
<1>5. NotCreated' /\ ClosesOnce'
  BY <1>1, <1>2, <1>3, ElsewhereKept DEF TypeOK
<1>6. EmptyIsBlank'
  BY <1>3 DEF EmptyIsBlank, Blank, TypeOK
<1>7. MembersFinite' /\ NeverOverfull'
  <2>1. /\ IsFiniteSet(members[r] \cup {p})
        /\ Cardinality(members[r] \cup {p}) <= Cardinality(members[r]) + 1
        /\ Cardinality(members[r]) \in Nat /\ Cardinality(members[r] \cup {p}) \in Nat
    <3>1. IsFiniteSet(members[r]) /\ Cardinality(members[r]) \in Nat
      BY FS_CardinalityType DEF MembersFinite
    <3>2. /\ IsFiniteSet(members[r] \cup {p})
          /\ \/ Cardinality(members[r] \cup {p}) = Cardinality(members[r])
             \/ Cardinality(members[r] \cup {p}) = Cardinality(members[r]) + 1
      BY <3>1, FS_AddElement
    <3> QED
      BY <3>1, <3>2
  <2>2. count[r] \in Nat /\ count[r] < MAX_PLAYERS /\ Cardinality(members[r]) <= count[r]
    BY BoundsAssumption DEF IsFull, NeverOverfull, TypeOK
  <2>3. /\ IsFiniteSet(members'[r])
        /\ Cardinality(members'[r]) <= count'[r] /\ count'[r] <= MAX_PLAYERS
    BY <1>3, <2>1, <2>2, BoundsAssumption DEF TypeOK
  <2> QED
    BY <1>3, <2>3 DEF MembersFinite, NeverOverfull, TypeOK
<1>8. RoomHasItsPlayer'
  BY <1>3 DEF RoomHasItsPlayer, TypeOK
<1>9. ClientsKnowTheRoom'
  <2> SUFFICES ASSUME NEW q \in Rooms, NEW m \in members'[q]
               PROVE  {u \in Players : told'[q][m][u] # Nothing} \ {m} = members'[q] \ {m}
    BY DEF ClientsKnowTheRoom
  <2>1. CASE q # r
    BY <1>3, <2>1 DEF ClientsKnowTheRoom, TypeOK
  <2>2. CASE q = r /\ m = p
    <3>1. told'[r][p] = Snapshot(r) /\ members'[r] = members[r] \cup {p}
      BY <1>3, ToldOfEntryIs DEF TypeOK
    <3>2. \A u \in Players : Snapshot(r)[u] # Nothing <=> u \in members[r]
      BY LooksAssumption DEF Snapshot, TypeOK
    <3> QED
      BY <2>2, <3>1, <3>2 DEF TypeOK
  <2>3. CASE q = r /\ m # p
    <3>1. m \in members[r] \ {p} /\ members'[r] = members[r] \cup {p}
      BY <1>3, <2>3 DEF TypeOK
    <3>2. /\ told'[r][m][p] = look[p] /\ look[p] # Nothing
          /\ \A u \in Players \ {p} : told'[r][m][u] = told[r][m][u]
      BY <1>3, <3>1, ToldOfEntryIs, LooksAssumption DEF TypeOK
    <3>3. {u \in Players : told[r][m][u] # Nothing} \ {m} = members[r] \ {m}
      BY <3>1 DEF ClientsKnowTheRoom
    <3> QED
      BY <2>3, <3>1, <3>2, <3>3
  <2> QED
    BY <2>1, <2>2, <2>3
<1>10. EmptyRoomAwaitsEntry'
  <2> SUFFICES ASSUME NEW q \in rooms, members'[q] = {}
               PROVE  Coming(q)'
    BY <1>3 DEF EmptyRoomAwaitsEntry, Coming
  <2>1. q \in Rooms \ {r} /\ members[q] = {}
    BY <1>3 DEF TypeOK
  <2>2. Coming(q)
    BY <2>1 DEF EmptyRoomAwaitsEntry, Coming
  <2> QED
    BY <1>2, <2>1, <2>2
<1> QED
  BY <1>4, <1>5, <1>6, <1>7, <1>8, <1>9, <1>10

\* Leave, of a player that is there: the others are told, and the last one takes
\* the room off the list.
LEMMA LetOutStep ==
    ASSUME IInv, NEW r \in Rooms, NEW p \in Players, Leave(r, p), p \in members[r]
    PROVE  IInv'
<1> USE DEF IInv
<1>1. /\ Takes(r, "Leave", p, Nothing) /\ LetOut(r, p)
      /\ UNCHANGED <<conn, receiving, player, owner, created, pushing, jobs, crashed>>
      /\ UNCHANGED <<alive, look, started, roomOwner, drops>>
  BY DEF Leave, Takes
<1>2. /\ r \in created /\ mail' \in [Rooms -> Seq(Job)]
      /\ \A q \in Rooms \ {r} : mail'[q] = mail[q]
      /\ \A q \in Rooms : Coming(q) => Coming(q)'
  BY <1>1, TakesMail DEF Kinds, Data
<1>3. /\ IsFiniteSet(members[r] \ {p})
      /\ Cardinality(members[r] \ {p}) = Cardinality(members[r]) - 1
      /\ Cardinality(members[r]) \in Nat /\ Cardinality(members[r] \ {p}) \in Nat
  BY FS_RemoveElement, FS_CardinalityType DEF MembersFinite
<1>4. count[r] \in Nat /\ count[r] > 0
  BY <1>3 DEF NeverOverfull, TypeOK
<1>5. /\ members' = [members EXCEPT ![r] = members[r] \ {p}]
      /\ room' = [room EXCEPT ![p] = NoRoom]
      /\ count' = [count EXCEPT ![r] = count[r] - 1]
      /\ told' = [told EXCEPT ![r] = ToldOfLeave(r, p)]
      /\ rooms' \subseteq rooms /\ (members[r] = {p} => r \notin rooms')
  BY <1>1, <1>4 DEF LetOut
<1>6. TypeOK'
  BY <1>1, <1>2, <1>4, <1>5, ToldOfLeaveIs DEF TypeOK
<1>7. NotCreated' /\ ClosesOnce'
  BY <1>1, <1>2, <1>5, ElsewhereKept DEF TypeOK
<1>8. EmptyIsBlank'
  BY <1>1, <1>5 DEF EmptyIsBlank, Blank, TypeOK
<1>9. MembersFinite' /\ NeverOverfull'
  <2>1. /\ IsFiniteSet(members'[r])
        /\ Cardinality(members'[r]) <= count'[r] /\ count'[r] <= MAX_PLAYERS
    BY <1>3, <1>4, <1>5, BoundsAssumption DEF TypeOK, NeverOverfull
  <2> QED
    BY <1>5, <2>1 DEF MembersFinite, NeverOverfull, TypeOK
<1>10. RoomHasItsPlayer'
  BY <1>5, NoneAssumption DEF RoomHasItsPlayer, TypeOK
<1>11. ClientsKnowTheRoom'
  <2> SUFFICES ASSUME NEW q \in Rooms, NEW m \in members'[q]
               PROVE  {u \in Players : told'[q][m][u] # Nothing} \ {m} = members'[q] \ {m}
    BY DEF ClientsKnowTheRoom
  <2>1. CASE q # r
    BY <1>5, <2>1 DEF ClientsKnowTheRoom, TypeOK
  <2>2. CASE q = r
    <3>1. m \in members[r] \ {p} /\ members'[r] = members[r] \ {p}
      BY <1>5, <2>2 DEF TypeOK
    <3>2. /\ told'[r][m][p] = Nothing
          /\ \A u \in Players \ {p} : told'[r][m][u] = told[r][m][u]
      BY <1>5, <3>1, ToldOfLeaveIs DEF TypeOK
    <3>3. {u \in Players : told[r][m][u] # Nothing} \ {m} = members[r] \ {m}
      BY <3>1 DEF ClientsKnowTheRoom
    <3> QED
      BY <2>2, <3>1, <3>2, <3>3
  <2> QED
    BY <2>1, <2>2
<1>12. EmptyRoomAwaitsEntry'
  <2> SUFFICES ASSUME NEW q \in rooms', members'[q] = {}
               PROVE  Coming(q)'
    BY DEF EmptyRoomAwaitsEntry, Coming
  <2>1. q \in rooms /\ q \in Rooms /\ members[q] = {}
    BY <1>5 DEF TypeOK
  <2>2. Coming(q)
    BY <2>1 DEF EmptyRoomAwaitsEntry, Coming
  <2> QED
    BY <1>2, <2>1, <2>2
<1> QED
  BY <1>6, <1>7, <1>8, <1>9, <1>10, <1>11, <1>12

\* A job after which the members, the counters and the list are what they were.
LEMMA MembersStay ==
    ASSUME IInv, NEW r \in Rooms, NEW kind \in Kinds, NEW p \in Players, NEW d \in Data,
           Takes(r, kind, p, d), UNCHANGED <<room, rooms, members, count, roomOwner>>,
           alive' \in [Players -> BOOLEAN], look' \in [Players -> Looks],
           drops' \in [Rooms -> SUBSET Places],
           started' \in [Rooms -> BOOLEAN],
           \A q \in Rooms : started'[q] # started[q] => q = r /\ (r \in rooms => members[r] # {}),
           kind = "Enter" /\ r \in rooms => members[r] # {},
           told' \in [Rooms -> [Players -> [Players -> Looks \cup {Nothing}]]],
           \A q \in Rooms : \A m, u \in members[q] :
              told'[q][m][u] = Nothing <=> told[q][m][u] = Nothing,
           \A q \in Rooms, m \in Players, u \in Players :
              u \notin members[q] => told'[q][m][u] = told[q][m][u]
    PROVE  IInv'
<1> USE DEF IInv
<1>1. /\ r \in created /\ mail' \in [Rooms -> Seq(Job)]
      /\ \A q \in Rooms \ {r} : mail'[q] = mail[q]
      /\ \A q \in Rooms \ {r} : Coming(q) => Coming(q)'
      /\ kind # "Enter" /\ Coming(r) => Coming(r)'
  BY TakesMail
<1>2. UNCHANGED <<conn, receiving, player, owner, created, pushing, jobs, crashed>>
  BY DEF Takes
<1>3. TypeOK'
  BY <1>1, <1>2 DEF TypeOK
<1>4. NotCreated' /\ ClosesOnce'
  BY <1>1, <1>2, ElsewhereKept
<1>5. EmptyIsBlank'
  BY DEF EmptyIsBlank, Blank, TypeOK
<1>6. MembersFinite' /\ NeverOverfull' /\ RoomHasItsPlayer'
  BY DEF MembersFinite, NeverOverfull, RoomHasItsPlayer
<1>7. ClientsKnowTheRoom'
  <2> SUFFICES ASSUME NEW q \in Rooms, NEW m \in members[q]
               PROVE  {u \in Players : told'[q][m][u] # Nothing} \ {m} = members[q] \ {m}
    BY DEF ClientsKnowTheRoom
  <2>1. {u \in Players : told[q][m][u] # Nothing} \ {m} = members[q] \ {m}
    BY DEF ClientsKnowTheRoom
  <2>2. \A u \in Players : told'[q][m][u] = Nothing <=> told[q][m][u] = Nothing
    BY DEF TypeOK
  <2> QED
    BY <2>1, <2>2
<1>8. EmptyRoomAwaitsEntry'
  <2> SUFFICES ASSUME NEW q \in rooms, members[q] = {}
               PROVE  Coming(q)'
    BY DEF EmptyRoomAwaitsEntry, Coming
  <2>1. q \in Rooms /\ Coming(q)
    BY DEF EmptyRoomAwaitsEntry, Coming, TypeOK
  <2> QED
    BY <1>1, <2>1
<1> QED
  BY <1>3, <1>4, <1>5, <1>6, <1>7, <1>8

\* An Enter that is refused: the room is full or has started, so somebody is in it
\* or it is not listed any more.
LEMMA RefusedStep ==
    ASSUME IInv, NEW r \in Rooms, NEW p \in Players, Enter(r, p), IsFull(r) \/ started[r]
    PROVE  IInv'
<1>1. /\ Takes(r, "Enter", p, Nothing)
      /\ UNCHANGED <<room, alive, rooms, members, count, started, roomOwner, told, look, drops>>
  BY DEF Enter
<1>2. r \in rooms => members[r] # {}
  BY BoundsAssumption DEF IInv, EmptyIsBlank, Blank, IsFull
<1>3. "Enter" \in Kinds /\ Nothing \in Data
  BY DEF Kinds, Data
<1> QED
  BY <1>1, <1>2, <1>3, MembersStay DEF IInv, TypeOK

\* A Leave of a player that is gone already.
LEMMA GoneStep ==
    ASSUME IInv, NEW r \in Rooms, NEW p \in Players, Leave(r, p), p \notin members[r]
    PROVE  IInv'
<1>1. /\ Takes(r, "Leave", p, Nothing)
      /\ UNCHANGED <<room, alive, rooms, members, count, started, roomOwner, told, look, drops>>
  BY DEF Leave
<1>2. "Leave" \in Kinds /\ Nothing \in Data
  BY DEF Kinds, Data
<1> QED
  BY <1>1, <1>2, MembersStay DEF IInv, TypeOK

\* Only the owner starts, and a room that nobody entered has none.
LEMMA StartStep ==
    ASSUME IInv, NEW r \in Rooms, NEW p \in Players, HandleStartGame(r, p)
    PROVE  IInv'
<1>1. /\ Takes(r, "Start", p, Nothing)
      /\ UNCHANGED <<room, alive, rooms, members, count, roomOwner, told, look, drops>>
      /\ started' = IF p = roomOwner[r] THEN [started EXCEPT ![r] = TRUE] ELSE started
  BY DEF HandleStartGame
<1>2. "Start" \in Kinds /\ Nothing \in Data
  BY DEF Kinds, Data
<1>3. \A q \in Rooms : started'[q] # started[q] => q = r /\ (r \in rooms => members[r] # {})
  BY <1>1, NoneAssumption DEF IInv, EmptyIsBlank, Blank, TypeOK
<1>4. started' \in [Rooms -> BOOLEAN]
  BY <1>1 DEF IInv, TypeOK
<1> QED
  BY <1>1, <1>2, <1>3, <1>4, MembersStay DEF IInv, TypeOK

\* A hit, and the end of a game: of a player that is in the room.
LEMMA DamageStep ==
    ASSUME IInv, NEW r \in Rooms, NEW p \in Players, HandleDamage(r, p)
    PROVE  IInv'
<1>1. /\ Takes(r, "Damage", p, Nothing)
      /\ UNCHANGED <<room, look, rooms, members, count, roomOwner, told>>
  BY DEF HandleDamage
<1>2. "Damage" \in Kinds /\ Nothing \in Data
  BY DEF Kinds, Data
<1>3. /\ alive' \in [Players -> BOOLEAN] /\ started' \in [Rooms -> BOOLEAN]
      /\ drops' \in [Rooms -> SUBSET Places]
      /\ \A q \in Rooms : started'[q] # started[q] => q = r /\ members[r] # {}
  <2>1. CASE p \in members[r] /\ alive[p]
    <3> DEFINE living == {q \in Players \ {p} : alive[q]}
    <3>1. CheckGameEnd(r, living)
      BY <2>1 DEF HandleDamage
    <3> HIDE DEF living
    <3>2. \E S : alive' = [q \in Players |-> q \in S]
      BY <3>1 DEF CheckGameEnd
    <3>3. alive' \in [Players -> BOOLEAN]
      BY <3>2
    <3>4. /\ started' \in {started, [started EXCEPT ![r] = FALSE]}
          /\ drops' \in {drops, [drops EXCEPT ![r] = {}]}
      BY <3>1 DEF CheckGameEnd
    <3> QED
      BY <2>1, <3>3, <3>4 DEF IInv, TypeOK
  <2>2. CASE ~(p \in members[r] /\ alive[p])
    BY <2>2 DEF HandleDamage, IInv, TypeOK
  <2> QED
    BY <2>1, <2>2
<1> QED
  BY <1>1, <1>2, <1>3, MembersStay DEF IInv, TypeOK

\* A move, which nobody new learns of.
LEMMA MoveStep ==
    ASSUME IInv, NEW r \in Rooms, NEW p \in Players, NEW l \in Looks, HandleMove(r, p, l)
    PROVE  IInv'
<1>1. /\ Takes(r, "Move", p, l)
      /\ UNCHANGED <<room, alive, rooms, members, count, started, roomOwner, drops>>
      /\ look' = [look EXCEPT ![p] = l]
  BY DEF HandleMove
<1>2. "Move" \in Kinds /\ l \in Data
  BY DEF Kinds, Data
<1>3. look' \in [Players -> Looks]
  BY <1>1 DEF IInv, TypeOK
<1>4. /\ told' \in [Rooms -> [Players -> [Players -> Looks \cup {Nothing}]]]
      /\ \A q \in Rooms : \A m, u \in members[q] :
           told'[q][m][u] = Nothing <=> told[q][m][u] = Nothing
      /\ \A q \in Rooms, m \in Players, u \in Players :
           u \notin members[q] => told'[q][m][u] = told[q][m][u]
  <2>1. CASE p \in members[r]
    <3>1. told' = [told EXCEPT ![r] = Shown(r, p, l)]
      BY <2>1 DEF HandleMove
    <3>2. /\ Shown(r, p, l) \in [Players -> [Players -> Looks \cup {Nothing}]]
          /\ \A m \in members[r] \ {p} :
                /\ Shown(r, p, l)[m][p] = l
                /\ \A q \in Players \ {p} : Shown(r, p, l)[m][q] = told[r][m][q]
          /\ \A m \in Players \ (members[r] \ {p}) : Shown(r, p, l)[m] = told[r][m]
      BY ShownTo DEF IInv, Shown
    <3>3. told' \in [Rooms -> [Players -> [Players -> Looks \cup {Nothing}]]]
      BY <3>1, <3>2 DEF IInv, TypeOK
    <3>4. l # Nothing /\ \A m \in members[r] \ {p} : told[r][m][p] # Nothing
      BY <2>1, LooksAssumption DEF IInv, ClientsKnowTheRoom, TypeOK
    <3>5. told'[r] = Shown(r, p, l) /\ \A q \in Rooms \ {r} : told'[q] = told[q]
      BY <3>1 DEF IInv, TypeOK
    <3>6. \A m, u \in members[r] : told'[r][m][u] = Nothing <=> told[r][m][u] = Nothing
      BY <3>2, <3>4, <3>5 DEF IInv, TypeOK
    <3>7. \A m, u \in Players : u \notin members[r] => told'[r][m][u] = told[r][m][u]
      BY <2>1, <3>2, <3>5
    <3>8. \A q \in Rooms : \A m, u \in members[q] :
            told'[q][m][u] = Nothing <=> told[q][m][u] = Nothing
      BY <3>5, <3>6
    <3>9. \A q \in Rooms, m \in Players, u \in Players :
            u \notin members[q] => told'[q][m][u] = told[q][m][u]
      <4> SUFFICES ASSUME NEW q \in Rooms, NEW m \in Players, NEW u \in Players,
                          u \notin members[q]
                   PROVE  told'[q][m][u] = told[q][m][u]
        OBVIOUS
      <4> QED
        BY <3>5, <3>7
    <3> QED
      BY <3>3, <3>8, <3>9
  <2>2. CASE p \notin members[r]
    BY <2>2 DEF HandleMove, IInv, TypeOK
  <2> QED
    BY <2>1, <2>2
<1> QED
  BY <1>1, <1>2, <1>3, <1>4, MembersStay DEF IInv, TypeOK

\* A drop, which only the room remembers.
LEMMA ItemDropStep ==
    ASSUME IInv, NEW r \in Rooms, NEW p \in Players, NEW x \in Places, HandleItemDrop(r, p, x)
    PROVE  IInv'
<1>1. /\ Takes(r, "ItemDrop", p, x)
      /\ UNCHANGED <<room, alive, look, rooms, members, count, started, roomOwner, told>>
      /\ drops' = [drops EXCEPT ![r] = drops[r] \cup {x}]
  BY DEF HandleItemDrop
<1>2. "ItemDrop" \in Kinds /\ x \in Data
  BY DEF Kinds, Data
<1>3. drops' \in [Rooms -> SUBSET Places]
  BY <1>1 DEF IInv, TypeOK
<1> QED
  BY <1>1, <1>2, <1>3, MembersStay DEF IInv, TypeOK

\* Every job preserves the invariant, and so does every step.
LEMMA JobStep ==
    ASSUME IInv, NEW r \in Rooms, RunJob(r)
    PROVE  IInv'
BY LetInStep, RefusedStep, LetOutStep, GoneStep, StartStep, DamageStep, MoveStep, ItemDropStep
DEF RunJob

\* The invariant is inductive.
LEMMA Inductive == IInv /\ [Next]_vars => IInv'
<1> SUFFICES ASSUME IInv, [Next]_vars
             PROVE  IInv'
  OBVIOUS
<1>1. ASSUME NEW s \in Sessions,
             HandlePacket(s) \/ EndRecv(s) \/ Disconnect(s) \/ CloseSession(s)
      PROVE  IInv'
  BY <1>1, QuietStep, HandlerStep, CreateStep DEF CloseSession
<1>2. ASSUME NEW a \in Actors, Push(a)
      PROVE  IInv'
  BY <1>2, PushStep
<1>3. ASSUME NEW r \in Rooms, RunJob(r)
      PROVE  IInv'
  BY <1>3, JobStep
<1>4. CASE UNCHANGED vars
  <2> USE <1>4 DEF vars, roomVars, playerVars, IInv
  <2>1. TypeOK' /\ ClosesOnce'
    BY DEF TypeOK, ClosesOnce
  <2>2. NotCreated' /\ EmptyIsBlank' /\ EmptyRoomAwaitsEntry'
    BY DEF NotCreated, EmptyIsBlank, Blank, EmptyRoomAwaitsEntry
  <2>3. Inside'
    BY InsideKept DEF Inside
  <2> QED
    BY <2>1, <2>2, <2>3 DEF Inside
<1> QED
  BY <1>1, <1>2, <1>3, <1>4 DEF Next

\* Nobody is in any room, and no room is listed.
LEMMA Initially == Init => IInv
<1> SUFFICES ASSUME Init
             PROVE  IInv
  OBVIOUS
<1> USE DEF Init
<1>1. TypeOK
  <2>1. /\ conn \in [Sessions -> {"open", "closing", "leaving", "closed"}]
        /\ receiving \in [Sessions -> BOOLEAN]
        /\ player \in [Sessions -> Players \cup {NoPlayer}]
        /\ owner \in [Players -> Sessions \cup {NoSession}]
        /\ room \in [Players -> Rooms \cup {NoRoom}]
        /\ alive \in [Players -> BOOLEAN] /\ look \in [Players -> Looks]
    BY LooksAssumption
  <2>2. /\ rooms \subseteq created /\ created \subseteq Rooms
        /\ members \in [Rooms -> SUBSET Players] /\ count \in [Rooms -> Nat]
        /\ started \in [Rooms -> BOOLEAN]
        /\ roomOwner \in [Rooms -> Players \cup {NoPlayer}]
        /\ drops \in [Rooms -> SUBSET Places]
        /\ told \in [Rooms -> [Players -> [Players -> Looks \cup {Nothing}]]]
    OBVIOUS
  <2>3. mail \in [Rooms -> Seq(Job)] /\ pushing \in [Actors -> Pushes \cup {NoPush}]
    BY EmptySeq
  <2>4. jobs \in 0..MaxJobs
    BY BoundsAssumption
  <2>5. crashed \in BOOLEAN
    OBVIOUS
  <2> QED
    BY <2>1, <2>2, <2>3, <2>4, <2>5 DEF TypeOK
<1>2. NotCreated /\ EmptyIsBlank /\ ClosesOnce /\ EmptyRoomAwaitsEntry
  <2>1. \A a \in Actors : pushing[a] = NoPush
    OBVIOUS
  <2>2. \A s \in Sessions : <<s, "close">> \in Actors
    BY DEF Actors
  <2>3. ClosesOnce
    BY <2>1, <2>2 DEF ClosesOnce
  <2> QED
    BY <2>1, <2>3 DEF NotCreated, EmptyIsBlank, Blank, EmptyRoomAwaitsEntry
<1>3. Inside
  BY FS_EmptySet, BoundsAssumption
  DEF Inside, MembersFinite, NeverOverfull, RoomHasItsPlayer, ClientsKnowTheRoom
<1> QED
  BY <1>1, <1>2, <1>3 DEF IInv, Inside

\* The invariant holds in every behaviour.
LEMMA Invariance == Spec => []IInv
BY Initially, Inductive, PTL DEF Spec

\* A hit leaves somebody alive, or brings everybody back to life.
LEMMA HitStep ==
    ASSUME IInv, NEW r \in Rooms, NEW p \in Players, HandleDamage(r, p), ~WipedOut(r)
    PROVE  ~WipedOut(r)'
<1> SUFFICES ASSUME WipedOut(r)'
             PROVE  FALSE
  OBVIOUS
<1>1. members' = members
  BY DEF HandleDamage
<1>2. Cardinality(members[r]) >= 2 /\ \A q \in members[r] : ~alive'[q]
  BY <1>1 DEF WipedOut
<1>3. IsFiniteSet(members[r]) /\ members[r] \subseteq Players
  BY DEF IInv, MembersFinite, TypeOK
<1>4. CASE p \in members[r] /\ alive[p]
  <2> DEFINE living == {q \in Players \ {p} : alive[q]}
  <2>1. CheckGameEnd(r, living)
    BY <1>4 DEF HandleDamage
  <2> HIDE DEF living
  <2>2. CASE Cardinality(members[r] \cap living) <= 1
    <3>1. alive' = [q \in Players |-> q \in living \cup members[r]]
      BY <1>2, <2>1, <2>2 DEF CheckGameEnd
    <3> QED
      BY <1>2, <1>3, <1>4, <3>1
  <2>3. CASE ~(Cardinality(members[r] \cap living) <= 1)
    <3>1. alive' = [q \in Players |-> q \in living]
      BY <2>1, <2>3 DEF CheckGameEnd
    <3>2. members[r] \cap living # {}
      BY <2>3, FS_EmptySet
    <3> QED
      BY <1>2, <1>3, <3>1, <3>2
  <2> QED
    BY <2>2, <2>3
<1>5. CASE ~(p \in members[r] /\ alive[p])
  BY <1>1, <1>2, <1>5 DEF HandleDamage, WipedOut
<1> QED
  BY <1>4, <1>5

\* A job of the room itself shows the others what it changes.
LEMMA OwnJobShows ==
    ASSUME IInv, NEW r \in Rooms, NEW p \in Players, Agree(r, p), RunJob(r)
    PROVE  Agree(r, p)'
<1> USE DEF IInv
<1>1. ASSUME NEW x \in Players, Enter(r, x)
      PROVE  Agree(r, p)'
  <2>1. CASE IsFull(r) \/ started[r]
    BY <1>1, <2>1 DEF Enter, Agree
  <2>2. CASE ~(IsFull(r) \/ started[r])
    <3>1. /\ members' = [members EXCEPT ![r] = members[r] \cup {x}] /\ look' = look
          /\ told' = [told EXCEPT ![r] = ToldOfEntry(r, x)]
      BY <1>1, <2>2 DEF Enter, LetIn
    <3>2. /\ members'[r] = members[r] \cup {x} /\ told'[r] = ToldOfEntry(r, x)
          /\ members[r] \subseteq Players
      BY <3>1 DEF TypeOK
    <3>3. ToldOfEntry(r, x)[x] = Snapshot(r)
      BY ToldOfEntryIs
    <3>4. \A m \in members[r] \ {x} :
             /\ ToldOfEntry(r, x)[m][x] = look[x]
             /\ \A u \in Players \ {x} : ToldOfEntry(r, x)[m][u] = told[r][m][u]
      BY ToldOfEntryIs
    <3>5. p \in members[r] => Snapshot(r)[p] = look[p]
      BY DEF Snapshot
    <3> QED
      BY <3>1, <3>2, <3>3, <3>4, <3>5 DEF Agree
  <2> QED
    BY <2>1, <2>2
<1>2. ASSUME NEW x \in Players, Leave(r, x)
      PROVE  Agree(r, p)'
  <2>1. CASE x \notin members[r]
    BY <1>2, <2>1 DEF Leave, Agree
  <2>2. CASE x \in members[r]
    <3>1. /\ members'[r] = members[r] \ {x} /\ look' = look
          /\ told'[r] = ToldOfLeave(r, x)
      BY <1>2, <2>2 DEF Leave, LetOut, TypeOK
    <3>2. \A m \in members[r] \ {x} : \A u \in Players \ {x} :
             ToldOfLeave(r, x)[m][u] = told[r][m][u]
      BY ToldOfLeaveIs
    <3> QED
      BY <3>1, <3>2 DEF Agree
  <2> QED
    BY <2>1, <2>2
<1>3. ASSUME NEW x \in Players, NEW l \in Looks, HandleMove(r, x, l)
      PROVE  Agree(r, p)'
  <2>1. members' = members /\ look' = [look EXCEPT ![x] = l]
    BY <1>3 DEF HandleMove
  <2>2. CASE x \in members[r]
    <3>1. told'[r] = Shown(r, x, l)
      BY <1>3, <2>2 DEF HandleMove, TypeOK
    <3>2. \A m \in members[r] \ {x} :
             /\ Shown(r, x, l)[m][x] = l
             /\ \A u \in Players \ {x} : Shown(r, x, l)[m][u] = told[r][m][u]
      BY ShownTo
    <3>3. Shown(r, x, l)[x] = told[r][x]
      BY DEF Shown
    <3> QED
      BY <2>1, <3>1, <3>2, <3>3 DEF Agree, TypeOK
  <2>3. CASE x \notin members[r]
    BY <1>3, <2>1, <2>3 DEF HandleMove, Agree, TypeOK
  <2> QED
    BY <2>2, <2>3
<1>4. ASSUME NEW x \in Players, HandleStartGame(r, x) \/ HandleDamage(r, x)
      PROVE  Agree(r, p)'
  BY <1>4 DEF HandleStartGame, HandleDamage, Agree
<1>5. ASSUME NEW x \in Players, NEW y \in Places, HandleItemDrop(r, x, y)
      PROVE  Agree(r, p)'
  BY <1>5 DEF HandleItemDrop, Agree
<1> QED
  BY <1>1, <1>2, <1>3, <1>4, <1>5 DEF RunJob

\* A job of another room shows them nothing, and only a move of the player makes
\* that matter.
LEMMA OtherJobHides ==
    ASSUME IInv, NEW r \in Rooms, NEW p \in Players, Agree(r, p),
           NEW q \in Rooms \ {r}, RunJob(q), ~ \E l \in Looks : HandleMove(q, p, l)
    PROVE  Agree(r, p)'
<1> USE DEF IInv
<1>1. look'[p] = look[p]
  BY DEF RunJob, Enter, Leave, HandleStartGame, HandleDamage, HandleMove, HandleItemDrop, TypeOK
<1>2. members'[r] = members[r]
  BY DEF RunJob, Enter, LetIn, Leave, LetOut, HandleStartGame, HandleDamage, HandleMove,
         HandleItemDrop, TypeOK
<1>3. told'[r] = told[r]
  BY DEF RunJob, Enter, LetIn, Leave, LetOut, HandleStartGame, HandleDamage, HandleMove,
         HandleItemDrop, TypeOK
<1> QED
  BY <1>1, <1>2, <1>3 DEF Agree

\* Outside of jobs nothing is shown, and nothing changes that could be.
LEMMA NoJobKeeps ==
    ASSUME NEW r \in Rooms, NEW p \in Players, Agree(r, p), UNCHANGED <<members, told, look>>
    PROVE  Agree(r, p)'
BY DEF Agree

-------------------------------------------------------------------------------

\* Every variable of the rooms, players and sessions keeps its type.
THEOREM TypeCorrect == Spec => []TypeOK
BY Invariance, PTL DEF IInv

\* However many Enter jobs are on their way when the last place is taken: no room
\* holds more players than it counts, or counts more than MAX_PLAYERS.
THEOREM Capacity == Spec => []NeverOverfull
BY Invariance, PTL DEF IInv

\* player->room, which the jobs of several rooms write, never names a room that
\* does not have the player.
THEOREM Membership == Spec => []RoomHasItsPlayer
BY Invariance, PTL DEF IInv

\* What SC_ENTER_GAME, SC_PLAYER_ENTER and SC_PLAYER_LEAVE told a client in a room
\* is who is in it.
THEOREM ClientsInformed == Spec => []ClientsKnowTheRoom
BY Invariance, PTL DEF IInv

\* RoomManager lists no room that everybody has left.
THEOREM NoAbandonedRoom == Spec => []EmptyRoomAwaitsEntry
BY Invariance, PTL DEF IInv

\* A hit never leaves a room of players who are all dead.
THEOREM SomeoneAlive == Spec => HitsLeaveSomeoneAlive
<1>1. IInv /\ [Next]_vars =>
        [\A r \in Rooms : \A p \in Players :
            HandleDamage(r, p) /\ ~WipedOut(r) => ~WipedOut(r)']_vars
  BY HitStep
<1> QED
  BY <1>1, Invariance, PTL DEF Spec, HitsLeaveSomeoneAlive

\* What the clients in a room were shown of a player stays what it is, whoever
\* enters, leaves or moves, but when a Move job of another room runs.
THEOREM PicturesKept == Spec => PictureIsKept
<1>1. IInv /\ [Next]_vars =>
        [\A r \in Rooms, p \in Players :
            Agree(r, p) => \/ Agree(r, p)'
                           \/ \E q \in Rooms \ {r}, l \in Looks : HandleMove(q, p, l)]_vars
  <2> SUFFICES ASSUME IInv, [Next]_vars, NEW r \in Rooms, NEW p \in Players, Agree(r, p),
                      ~ \E q \in Rooms \ {r}, l \in Looks : HandleMove(q, p, l)
               PROVE  Agree(r, p)'
    OBVIOUS
  <2>1. CASE \E q \in Rooms : RunJob(q)
    BY <2>1, OwnJobShows, OtherJobHides
  <2>2. CASE ~ \E q \in Rooms : RunJob(q)
    <3>1. UNCHANGED <<members, told, look>>
      BY <2>2 DEF Next, HandlePacket, EndRecv, Disconnect, CloseSession, OnDisconnected,
           OnDisconnectedLeave, Push, Handle_CS_LOGIN, Handle_CS_ENTER_ROOM,
           Handle_CS_CREATE_ROOM, Handle_CS_LEAVE_ROOM, Handle_CS_START_GAME,
           Handle_CS_DAMAGE, Handle_CS_MOVE, Handle_CS_ITEM_DROP, InRoom, playerVars,
           roomVars, vars
    <3> QED
      BY <3>1, NoJobKeeps
  <2> QED
    BY <2>1, <2>2
<1> QED
  BY <1>1, Invariance, PTL DEF Spec, PictureIsKept

-------------------------------------------------------------------------------

(***************************************************************************)
(* RoomList has jobs of its own, which are what a job does to the two       *)
(* atomics of a room and to _rooms.  Here are its actions again, without    *)
(* its makers of lists: every step of GameRooms is one of them or changes   *)
(* nothing that a list shows, so the jobs of RoomList are all that the      *)
(* lists can meet.  LetOut empties and unlists a room in one step; in       *)
(* RoomList a list can be made between the two.                             *)
(***************************************************************************)

\* What a list can show of room r, and whether it can be asked for.
Listed(r) == <<r \in created, r \in rooms, count[r], started[r]>>

IsCreated(r) == r \notin created /\ Listed(r)' = <<TRUE, TRUE, 0, FALSE>>
IsEntered(r) ==
    /\ r \in created /\ ~IsFull(r) /\ ~started[r]
    /\ Listed(r)' = <<TRUE, r \in rooms, count[r] + 1, FALSE>>
IsLeft(r) ==
    /\ r \in created /\ count[r] > 0
    /\ \/ Listed(r)' = <<TRUE, FALSE, count[r] - 1, started[r]>>
       \/ count[r] > 1 /\ Listed(r)' = <<TRUE, r \in rooms, count[r] - 1, started[r]>>
IsStarted(r) ==
    /\ r \in created /\ (count[r] > 0 \/ r \notin rooms)
    /\ Listed(r)' = <<TRUE, r \in rooms, count[r], TRUE>>
IsEnded(r) ==
    /\ r \in created /\ count[r] > 1
    /\ Listed(r)' = <<TRUE, r \in rooms, count[r], FALSE>>

\* One room at a time changes, as a job of RoomList changes it.
ListedStep ==
    \E r \in Rooms :
        /\ IsCreated(r) \/ IsEntered(r) \/ IsLeft(r) \/ IsStarted(r) \/ IsEnded(r)
        /\ \A q \in Rooms \ {r} : UNCHANGED Listed(q)
RoomsMoveAsListed ==
    [][ListedStep \/ \A r \in Rooms : UNCHANGED Listed(r)]_vars

\* A room was created, and nobody else's job ran in it, when a job of it runs.
LEMMA JobOfCreated ==
    ASSUME IInv, NEW r \in Rooms, RunJob(r)
    PROVE  /\ r \in created /\ created' = created
           /\ \A q \in Rooms \ {r} : UNCHANGED <<q \in rooms, count[q], started[q]>>
<1> USE DEF IInv
<1>1. r \in created /\ created' = created
  BY DEF RunJob, Enter, Leave, HandleStartGame, HandleDamage, HandleMove, HandleItemDrop,
         Takes, NotCreated
<1>2. ASSUME NEW p \in Players, Enter(r, p) \/ Leave(r, p)
      PROVE  \A q \in Rooms \ {r} : UNCHANGED <<q \in rooms, count[q], started[q]>>
  BY <1>2 DEF Enter, LetIn, Leave, LetOut, TypeOK
<1>3. ASSUME NEW p \in Players, HandleStartGame(r, p) \/ HandleDamage(r, p)
      PROVE  \A q \in Rooms \ {r} : UNCHANGED <<q \in rooms, count[q], started[q]>>
  BY <1>3 DEF HandleStartGame, HandleDamage, CheckGameEnd, TypeOK
<1>4. ASSUME UNCHANGED <<rooms, count, started>>
      PROVE  \A q \in Rooms \ {r} : UNCHANGED <<q \in rooms, count[q], started[q]>>
  BY <1>4
<1> QED
  BY <1>1, <1>2, <1>3, <1>4 DEF RunJob, HandleMove, HandleItemDrop

\* What a job changes of its room is what a job of RoomList changes.
LEMMA JobMovesAsListed ==
    ASSUME IInv, NEW r \in Rooms, RunJob(r)
    PROVE  \/ IsEntered(r) \/ IsLeft(r) \/ IsStarted(r) \/ IsEnded(r)
           \/ UNCHANGED Listed(r)
<1> USE DEF IInv
<1>1. /\ r \in created /\ r \in created' /\ count[r] \in Nat /\ started[r] \in BOOLEAN
      /\ IsFiniteSet(members[r]) /\ Cardinality(members[r]) \in Nat
      /\ Cardinality(members[r]) <= count[r]
  BY JobOfCreated, FS_CardinalityType DEF TypeOK, MembersFinite, NeverOverfull
<1>2. ASSUME NEW p \in Players, Enter(r, p)
      PROVE  IsEntered(r) \/ UNCHANGED Listed(r)
  <2>1. CASE IsFull(r) \/ started[r]
    BY <1>1, <1>2, <2>1 DEF Enter, Listed
  <2>2. CASE ~(IsFull(r) \/ started[r])
    <3>1. /\ count'[r] = count[r] + 1 /\ started'[r] = FALSE
          /\ rooms' = rooms
      BY <1>1, <1>2, <2>2 DEF Enter, LetIn, TypeOK
    <3> QED
      BY <1>1, <2>2, <3>1 DEF IsEntered, Listed
  <2> QED
    BY <2>1, <2>2
<1>3. ASSUME NEW p \in Players, Leave(r, p)
      PROVE  IsLeft(r) \/ UNCHANGED Listed(r)
  <2>1. CASE p \notin members[r]
    BY <1>1, <1>3, <2>1 DEF Leave, Listed
  <2>2. CASE p \in members[r]
    <3>1. Cardinality(members[r]) > 0
      BY <1>1, <2>2, FS_EmptySet
    <3>2. /\ count'[r] = count[r] - 1 /\ started'[r] = started[r]
          /\ rooms' = IF members[r] = {p} THEN rooms \ {r} ELSE rooms
      BY <1>1, <1>3, <2>2, <3>1 DEF Leave, LetOut, TypeOK
    <3>3. count[r] > 0
      BY <1>1, <3>1
    <3>4. CASE members[r] = {p}
      <4>1. (r \in created') = TRUE /\ (r \in rooms') = FALSE
        BY <1>1, <3>2, <3>4
      <4>2. Listed(r)' = <<TRUE, FALSE, count[r] - 1, started[r]>>
        BY <3>2, <4>1 DEF Listed
      <4> QED
        BY <1>1, <3>3, <4>2, Zenon DEF IsLeft
    <3>5. CASE members[r] # {p}
      <4>1. members[r] \ {p} # {}
        BY <2>2, <3>5
      <4>2. /\ IsFiniteSet(members[r] \ {p}) /\ Cardinality(members[r] \ {p}) \in Nat
            /\ Cardinality(members[r] \ {p}) = Cardinality(members[r]) - 1
        BY <1>1, <2>2, FS_RemoveElement, FS_CardinalityType
      <4>3. Cardinality(members[r] \ {p}) # 0
        BY <4>1, <4>2, FS_EmptySet
      <4>4. count[r] > 1
        BY <1>1, <4>2, <4>3
      <4>5. (r \in created') = TRUE /\ (r \in rooms') = (r \in rooms)
        BY <1>1, <3>2, <3>5
      <4>6. Listed(r)' = <<TRUE, r \in rooms, count[r] - 1, started[r]>>
        BY <3>2, <4>5 DEF Listed
      <4> QED
        BY <1>1, <3>3, <4>4, <4>6, Zenon DEF IsLeft
    <3> QED
      BY <3>4, <3>5
  <2> QED
    BY <2>1, <2>2
<1>4. ASSUME NEW p \in Players, HandleStartGame(r, p)
      PROVE  IsStarted(r) \/ UNCHANGED Listed(r)
  <2>1. CASE p # roomOwner[r]
    BY <1>1, <1>4, <2>1 DEF HandleStartGame, Listed
  <2>2. CASE p = roomOwner[r]
    <3>1. started'[r] = TRUE /\ rooms' = rooms /\ count' = count
      BY <1>4, <2>2 DEF HandleStartGame, TypeOK
    <3>2. count[r] > 0 \/ r \notin rooms
      BY <1>1, <2>2, NoneAssumption, FS_EmptySet DEF EmptyIsBlank, Blank
    <3> QED
      BY <1>1, <3>1, <3>2 DEF IsStarted, Listed
  <2> QED
    BY <2>1, <2>2
<1>5. ASSUME NEW p \in Players, HandleDamage(r, p)
      PROVE  IsEnded(r) \/ UNCHANGED Listed(r)
  <2>1. rooms' = rooms /\ count' = count
    BY <1>5 DEF HandleDamage
  <2>2. CASE started' = started
    BY <1>1, <2>1, <2>2 DEF Listed
  <2>3. CASE started' # started
    <3>1. started' = [started EXCEPT ![r] = FALSE] /\ Cardinality(members[r]) >= 2
      BY <1>5, <2>3 DEF HandleDamage, CheckGameEnd
    <3>2. started'[r] = FALSE /\ count[r] > 1
      BY <1>1, <3>1 DEF TypeOK
    <3> QED
      BY <1>1, <2>1, <3>2 DEF IsEnded, Listed
  <2> QED
    BY <2>2, <2>3
<1>6. ASSUME UNCHANGED <<rooms, count, started>>
      PROVE  UNCHANGED Listed(r)
  BY <1>1, <1>6 DEF Listed
<1> QED
  BY <1>2, <1>3, <1>4, <1>5, <1>6 DEF RunJob, HandleMove, HandleItemDrop

\* Outside of jobs only CreateRoom changes a list, by an entry for a blank room.
LEMMA OthersMoveAsListed ==
    ASSUME IInv, [Next]_vars, ~ \E r \in Rooms : RunJob(r)
    PROVE  ListedStep \/ \A r \in Rooms : UNCHANGED Listed(r)
<1> USE DEF IInv
<1>1. CASE \E s \in Sessions, r \in Rooms : Handle_CS_CREATE_ROOM(s, r)
  <2>1. PICK s \in Sessions, r \in Rooms : Handle_CS_CREATE_ROOM(s, r)
    BY <1>1
  <2>2. /\ r \notin created /\ created' = created \cup {r} /\ rooms' = rooms \cup {r}
        /\ UNCHANGED <<count, started>>
    BY <2>1 DEF Handle_CS_CREATE_ROOM
  <2>3. (r \in created') = TRUE /\ (r \in rooms') = TRUE
    BY <2>2
  <2>4. count'[r] = 0 /\ started'[r] = FALSE
    BY <2>2 DEF NotCreated, Blank, TypeOK
  <2>5. IsCreated(r)
    BY <2>2, <2>3, <2>4 DEF IsCreated, Listed
  <2>6. \A q \in Rooms \ {r} : UNCHANGED Listed(q)
    BY <2>2 DEF Listed
  <2> QED
    BY <2>5, <2>6 DEF ListedStep
<1>2. CASE ~ \E s \in Sessions, r \in Rooms : Handle_CS_CREATE_ROOM(s, r)
  <2>1. UNCHANGED <<created, rooms, count, started>>
    BY <1>2 DEF Next, HandlePacket, EndRecv, Disconnect, CloseSession, OnDisconnected,
         OnDisconnectedLeave, Push, Handle_CS_LOGIN, Handle_CS_ENTER_ROOM,
         Handle_CS_LEAVE_ROOM, Handle_CS_START_GAME, Handle_CS_DAMAGE, Handle_CS_MOVE,
         Handle_CS_ITEM_DROP, InRoom, playerVars, roomVars, vars
  <2> QED
    BY <2>1 DEF Listed
<1> QED
  BY <1>1, <1>2

\* Whatever packets, departures and jobs there are, the rooms that the lists show
\* change as in RoomList, one at a time: an entry makes them grow only below
\* MAX_PLAYERS and before the start, a room leaves the list with a departure that
\* may have been the last, nobody starts a listed room that counts nobody, and a
\* game ends only where two are counted.
THEOREM MovesAsListed == Spec => RoomsMoveAsListed
<1>1. IInv /\ [Next]_vars =>
        [ListedStep \/ \A r \in Rooms : UNCHANGED Listed(r)]_vars
  <2> SUFFICES ASSUME IInv, [Next]_vars
               PROVE  ListedStep \/ \A r \in Rooms : UNCHANGED Listed(r)
    OBVIOUS
  <2>1. ASSUME NEW r \in Rooms, RunJob(r)
        PROVE  ListedStep \/ \A q \in Rooms : UNCHANGED Listed(q)
    <3>1. \A q \in Rooms \ {r} : UNCHANGED Listed(q)
      BY <2>1, JobOfCreated DEF Listed
    <3> QED
      BY <2>1, <3>1, JobMovesAsListed DEF ListedStep
  <2> QED
    BY <2>1, OthersMoveAsListed
<1> QED
  BY <1>1, Invariance, PTL DEF Spec, RoomsMoveAsListed

===============================================================================
