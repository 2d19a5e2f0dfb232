--------------------------- MODULE RecvBufferProofs ---------------------------
(***************************************************************************)
(* Theorems about RecvBuffer for every buffer, header and packet size the   *)
(* assumption allows, and every way the stream can be split.                *)
(***************************************************************************)
EXTENDS RecvBuffer, TLAPS

\* Between two completions nothing is half counted.
NothingPending == pc # "parse" => processLen = 0

IInv == TypeOK /\ NothingPending /\ RoomToRecv /\ StreamIntact

-------------------------------------------------------------------------------

\* The assumption in the form the arithmetic needs.
LEMMA SizeFacts ==
    /\ BufferSize \in Nat /\ HeaderSize \in Nat /\ MaxPacket \in Nat
    /\ HeaderSize <= BufferSize /\ MaxPacket <= BufferSize /\ 0 < BufferSize
    /\ Capacity = BufferSize * 10 /\ Capacity \in Nat
    /\ \A n \in Chunks : n \in Nat /\ n > 0
BY SizesAssumption DEF Capacity, BUFFER_COUNT

\* What Clean does to a live region of less than a segment: its bytes keep
\* their order, and a segment is free behind them.  memcpy is only reached
\* when nine segments are in use, so its source is far behind its target.
LEMMA CleanKeepsBytes ==
    ASSUME TypeOK, NEW read \in Nat, readPos <= read, read <= writePos,
           writePos - read < BufferSize,
           NEW base \in Int,
           \A i \in read..(writePos - 1) : buffer[i] = base + (i - read),
           Clean(read)
    PROVE  /\ buffer' \in [Cells -> Int]
           /\ \E r \in 0..Capacity : \E w \in r..Capacity :
                 /\ readPos' = r /\ writePos' = w
                 /\ w - r = writePos - read
                 /\ Capacity - w >= BufferSize
                 /\ \A i \in r..(w - 1) : buffer'[i] = base + (i - r)
<1> USE SizeFacts
<1>1. /\ readPos \in Int /\ writePos \in Int /\ buffer \in [Cells -> Int]
      /\ 0 <= readPos /\ writePos <= Capacity
  BY DEF TypeOK
<1>2. CASE writePos - read = 0
  <2>1. readPos' = 0 /\ writePos' = 0 /\ buffer' = Forget(buffer, {})
    BY <1>2 DEF Clean, ReadAndClean
  <2>2. buffer' \in [Cells -> Int]
    BY <2>1 DEF Forget, Junk
  <2>3. 0 \in 0..Capacity /\ 0 \in 0..Capacity
    OBVIOUS
  <2> QED
    BY <1>1, <1>2, <2>1, <2>2, <2>3
<1>3. CASE writePos - read # 0 /\ FreeSize < BufferSize
  <2>1. readPos' = 0 /\ writePos' = writePos - read
        /\ buffer' = MoveToFront(read, writePos - read)
    BY <1>3 DEF Clean, ReadAndClean
  <2>2. writePos - read <= read
    BY <1>1, <1>3 DEF FreeSize
  <2>3. \A i \in Cells : i < writePos - read => read + i \in read..(writePos - 1)
    BY <1>1 DEF Cells
  <2>4. \A i \in 0..(writePos - read - 1) : i \in Cells /\ read + i \in Cells
    BY <1>1 DEF Cells
  <2>5. \A i \in 0..(writePos - read - 1) : buffer'[i] = buffer[read + i]
    BY <1>1, <2>1, <2>2, <2>4 DEF MoveToFront
  <2>6. buffer' \in [Cells -> Int]
    <3>1. \A i \in Cells : i < writePos - read => buffer[read + i] \in Int
      BY <1>1, <2>3 DEF Cells
    <3> QED
      BY <2>1, <3>1 DEF MoveToFront, Junk
  <2>7. \A i \in 0..(writePos - read - 1) : buffer'[i] = base + i
    BY <1>1, <2>5
  <2>8. 0 \in 0..Capacity /\ writePos - read \in 0..Capacity
        /\ Capacity - (writePos - read) >= BufferSize
    BY <1>1
  <2> QED
    BY <1>1, <2>1, <2>6, <2>7, <2>8
<1>4. CASE writePos - read # 0 /\ ~(FreeSize < BufferSize)
  <2>1. readPos' = read /\ writePos' = writePos
        /\ buffer' = Forget(buffer, read..(writePos - 1))
    BY <1>4 DEF Clean, ReadAndClean
  <2>2. buffer' \in [Cells -> Int]
    BY <1>1, <2>1 DEF Forget, Junk
  <2>3. \A i \in read..(writePos - 1) : i \in Cells /\ buffer'[i] = buffer[i]
    BY <1>1, <2>1 DEF Forget, Cells
  <2>4. read \in 0..Capacity /\ writePos \in read..Capacity
        /\ Capacity - writePos >= BufferSize
    BY <1>1, <1>4 DEF FreeSize
  <2> QED
    BY <1>1, <2>1, <2>2, <2>3, <2>4
<1> QED
  BY <1>2, <1>3, <1>4

\* Clean keeps the types whatever is left, also on the way out of a session
\* that is being disconnected.
LEMMA CleanType ==
    ASSUME TypeOK, NEW read \in Nat, readPos <= read, read <= writePos, Clean(read)
    PROVE  /\ buffer' \in [Cells -> Int]
           /\ \E r \in 0..Capacity : \E w \in r..Capacity : readPos' = r /\ writePos' = w
<1> USE SizeFacts
<1>1. /\ readPos \in Int /\ writePos \in Int /\ buffer \in [Cells -> Int]
      /\ 0 <= readPos /\ writePos <= Capacity
  BY DEF TypeOK
<1>2. \A i \in Cells : i < writePos - read /\ writePos - read <= read
                         => buffer[read + i] \in Int
  BY <1>1 DEF Cells
<1>3. MoveToFront(read, writePos - read) \in [Cells -> Int]
  BY <1>2 DEF MoveToFront, Junk
<1>4. \A live : Forget(buffer, live) \in [Cells -> Int]
  BY <1>1 DEF Forget, Junk
<1>5. buffer' \in [Cells -> Int]
  BY <1>3, <1>4 DEF Clean, ReadAndClean
<1>6. \/ readPos' = 0 /\ writePos' = 0
      \/ readPos' = 0 /\ writePos' = writePos - read
      \/ readPos' = read /\ writePos' = writePos
  BY DEF Clean, ReadAndClean
<1>7. /\ 0 \in 0..Capacity /\ read \in 0..Capacity
      /\ writePos - read \in 0..Capacity /\ writePos \in read..Capacity
  BY <1>1
<1> QED
  BY <1>5, <1>6, <1>7

\* A completion with bytes appends them to the live region.
LEMMA RecvBytesStep ==
    ASSUME IInv, NEW n \in Chunks, RecvBytes(n)
    PROVE  IInv'
<1> USE SizeFacts DEF IInv
<1>1. /\ pc = "recv" /\ processLen = 0 /\ n \in Nat /\ n > 0
      /\ n <= Capacity - writePos
      /\ readPos \in Int /\ writePos \in Int /\ received \in Nat /\ frameStart \in Nat
      /\ 0 <= readPos /\ readPos <= writePos /\ buffer \in [Cells -> Int]
  BY DEF RecvBytes, NothingPending, TypeOK, FreeSize
<1>2. /\ readPos' = readPos /\ writePos' = writePos + n /\ received' = received + n
      /\ processLen' = 0 /\ pc' = "parse"
      /\ frameStart' = frameStart /\ frame' = frame /\ connected' = connected
  BY DEF RecvBytes
<1>3. buffer' = [i \in Cells |-> IF i \in writePos..(writePos + n - 1)
                                 THEN received + (i - writePos) ELSE buffer[i]]
  BY DEF RecvBytes
<1>4. buffer' \in [Cells -> Int]
  BY <1>1, <1>3 DEF Cells
<1>5. TypeOK'
  BY <1>1, <1>2, <1>4 DEF TypeOK, DataSize
<1>6. received - frameStart = writePos - readPos
      /\ \A i \in readPos..(writePos - 1) : buffer[i] = frameStart + (i - readPos)
  BY <1>1 DEF StreamIntact, DataSize
<1>7. \A i \in readPos..(writePos + n - 1) : buffer'[i] = frameStart + (i - readPos)
  <2> SUFFICES ASSUME NEW i \in readPos..(writePos + n - 1)
               PROVE  buffer'[i] = frameStart + (i - readPos)
    OBVIOUS
  <2>1. i \in Cells
    BY <1>1 DEF Cells
  <2>2. CASE i < writePos
    BY <1>1, <1>3, <1>6, <2>1, <2>2
  <2>3. CASE i >= writePos
    <3>1. buffer'[i] = received + (i - writePos)
      BY <1>1, <1>3, <2>1, <2>3
    <3> QED
      BY <1>1, <1>6, <3>1
  <2> QED
    BY <1>1, <2>2, <2>3
<1>8. StreamIntact'
  BY <1>1, <1>2, <1>6, <1>7 DEF StreamIntact, DataSize
<1> QED
  BY <1>2, <1>5, <1>8 DEF NothingPending, RoomToRecv

\* Cutting a packet moves its end and the next packet's start together.
LEMMA OnRecvPacketStep ==
    ASSUME IInv, NEW size \in Sizes, OnRecvPacket(size)
    PROVE  IInv'
<1> USE SizeFacts DEF IInv, OnRecvPacket
<1>1. /\ size \in Nat /\ processLen \in Nat /\ frameStart \in Nat
      /\ readPos \in Int /\ writePos \in Int
      /\ processLen + size <= writePos - readPos
  BY DEF Sizes, TypeOK, DataSize, Remaining
<1>2. TypeOK'
  BY <1>1 DEF TypeOK, DataSize
<1>3. frameStart' - processLen' = frameStart - processLen
  BY <1>1
<1>4. StreamIntact'
  BY <1>3 DEF StreamIntact, DataSize
<1> QED
  BY <1>2, <1>4 DEF NothingPending, RoomToRecv

\* OnRecv waits only with less than one packet left, so Clean finds room.
LEMMA AwaitMoreStep ==
    ASSUME IInv, AwaitMore
    PROVE  IInv'
<1> USE SizeFacts DEF IInv
<1> DEFINE read == readPos + processLen
<1>1. /\ pc = "parse" /\ processLen \in Nat /\ readPos \in Nat /\ writePos \in Int
      /\ processLen <= writePos - readPos /\ frameStart \in Nat /\ received \in Nat
      /\ frame \in Sizes /\ connected \in BOOLEAN
  BY DEF AwaitMore, TypeOK, DataSize
<1>2. writePos - read < BufferSize
  BY <1>1, SizesAssumption DEF AwaitMore, Remaining, DataSize, HeaderAt, Sizes
<1>3. /\ Clean(read) /\ processLen' = 0 /\ connected' = connected
      /\ pc' \in {"recv", "stopped"}
      /\ received' = received /\ frameStart' = frameStart /\ frame' = frame
  BY <1>1 DEF AwaitMore, LeaveOnRecv, DataSize
<1>4. read \in Nat /\ readPos <= read /\ read <= writePos
  BY <1>1
<1>5. received - (frameStart - processLen) = writePos - readPos
      /\ \A i \in readPos..(writePos - 1) :
            buffer[i] = (frameStart - processLen) + (i - readPos)
  BY <1>1 DEF StreamIntact, DataSize
<1>6. \A i \in read..(writePos - 1) : buffer[i] = frameStart + (i - read)
  BY <1>1, <1>5
<1>7. buffer' \in [Cells -> Int]
  <2> HIDE DEF read
  <2>1. TypeOK /\ Clean(read) /\ frameStart \in Int
    BY <1>1, <1>3
  <2> QED
    BY ONLY <1>2, <1>4, <1>6, <2>1, CleanKeepsBytes
<1>8. PICK r \in 0..Capacity : \E w \in r..Capacity :
        /\ readPos' = r /\ writePos' = w
        /\ w - r = writePos - read
        /\ Capacity - w >= BufferSize
        /\ \A i \in r..(w - 1) : buffer'[i] = frameStart + (i - r)
  <2> HIDE DEF read
  <2>1. TypeOK /\ Clean(read) /\ frameStart \in Int
    BY <1>1, <1>3
  <2> QED
    BY ONLY <1>2, <1>4, <1>6, <2>1, CleanKeepsBytes
<1>9. PICK w \in r..Capacity :
        /\ readPos' = r /\ writePos' = w
        /\ w - r = writePos - read
        /\ Capacity - w >= BufferSize
        /\ \A i \in r..(w - 1) : buffer'[i] = frameStart + (i - r)
  BY <1>8
<1>10. r \in Int /\ w \in Int /\ 0 <= w - r /\ received - frameStart = w - r
  BY <1>1, <1>5, <1>9
<1>11. TypeOK'
  BY ONLY SizeFacts, <1>1, <1>3, <1>7, <1>9, <1>10 DEF TypeOK, DataSize
<1>12. StreamIntact'
  BY ONLY <1>1, <1>3, <1>9, <1>10 DEF StreamIntact, DataSize
<1>13. NothingPending' /\ RoomToRecv'
  BY ONLY <1>3, <1>9 DEF NothingPending, RoomToRecv, FreeSize
<1> QED
  BY <1>11, <1>12, <1>13

\* An invalid size stops the session; only the types matter from then on.
LEMMA InvalidSizeStep ==
    ASSUME IInv, InvalidSize
    PROVE  IInv'
<1> USE SizeFacts DEF IInv
<1>1. /\ processLen \in Nat /\ readPos \in Nat /\ writePos \in Int
      /\ processLen <= writePos - readPos
  BY DEF TypeOK, DataSize
<1>2. Clean(readPos + processLen) /\ processLen' = 0 /\ connected' = FALSE
      /\ pc' = "stopped"
      /\ received' = received /\ frameStart' = frameStart /\ frame' = frame
  BY DEF InvalidSize, Disconnect
<1> DEFINE read == readPos + processLen
<1>0. TypeOK /\ read \in Nat /\ readPos <= read /\ read <= writePos /\ Clean(read)
  BY <1>1, <1>2
<1> HIDE DEF read
<1>3. buffer' \in [Cells -> Int]
  BY ONLY <1>0, CleanType
<1>4. PICK r \in 0..Capacity : \E w \in r..Capacity : readPos' = r /\ writePos' = w
  BY ONLY <1>0, CleanType
<1>5. PICK w \in r..Capacity : readPos' = r /\ writePos' = w
  BY <1>4
<1>6. received \in Nat /\ frameStart \in Nat /\ frame \in Sizes
  BY DEF TypeOK
<1>7. TypeOK'
  <2>1. r \in Int /\ w \in Int /\ 0 <= w - r
    BY ONLY SizeFacts, <1>5
  <2>2. connected' \in BOOLEAN /\ pc' \in {"recv", "parse", "stopped"}
    BY ONLY <1>2
  <2>3. /\ processLen' = 0 /\ received' = received /\ frameStart' = frameStart
        /\ frame' = frame
    BY ONLY <1>2
  <2> QED
    BY ONLY <2>1, <2>2, <2>3, <1>3, <1>5, <1>6 DEF TypeOK, DataSize
<1> QED
  BY <1>2, <1>7 DEF NothingPending, RoomToRecv, StreamIntact

\* A disconnection moves no byte.
LEMMA DisconnectStep ==
    ASSUME IInv, DisconnectElsewhere \/ RecvNothing
    PROVE  IInv'
BY DEF IInv, DisconnectElsewhere, RecvNothing, Disconnect, TypeOK, NothingPending,
       RoomToRecv, StreamIntact, DataSize, FreeSize

\* IInv is inductive.
LEMMA NextStep == IInv /\ [Next]_vars => IInv'
<1> SUFFICES ASSUME IInv, [Next]_vars PROVE IInv'
  OBVIOUS
<1>1. CASE UNCHANGED vars
  BY <1>1 DEF IInv, vars, TypeOK, NothingPending, RoomToRecv, StreamIntact,
              DataSize, FreeSize
<1> QED
  BY <1>1, DisconnectStep, RecvBytesStep, OnRecvPacketStep, AwaitMoreStep,
     InvalidSizeStep DEF Next, Parse

\* An empty buffer and the start of the stream.
LEMMA InitStep == Init => IInv
BY SizeFacts DEF Init, IInv, TypeOK, NothingPending, RoomToRecv, StreamIntact,
                 DataSize, FreeSize, Sizes, Junk

\* The inductive invariant of the receive path.
THEOREM Invariance == Spec => []IInv
BY InitStep, NextStep, PTL DEF Spec

\* Types, and ReadPos <= WritePos <= Capacity: OnWrite and OnRead never fail.
THEOREM TypeCorrect == Spec => []TypeOK
<1>1. IInv => TypeOK
  BY DEF IInv
<1> QED
  BY <1>1, Invariance, PTL

\* A pending WSARecv always has a whole segment to write to.
THEOREM AlwaysRoom == Spec => []RoomToRecv
<1>1. IInv => RoomToRecv
  BY DEF IInv
<1> QED
  BY <1>1, Invariance, PTL

\* The live cells are the next bytes of the stream, in order.
THEOREM Intact == Spec => []StreamIntact
<1>1. IInv => StreamIntact
  BY DEF IInv
<1> QED
  BY <1>1, Invariance, PTL

\* Hence OnRecv reads the size the peer wrote, at every packet.
HeaderIsPeers ==
    pc = "parse" /\ Remaining >= HeaderSize => HeaderAt(readPos + processLen) = {frame}

\* PacketSession::OnRecv never cuts a packet at a wrong place.
THEOREM HeadersRead == Spec => []HeaderIsPeers
<1>1. IInv => HeaderIsPeers
  <2> SUFFICES ASSUME IInv, pc = "parse", Remaining >= HeaderSize
               PROVE  HeaderAt(readPos + processLen) = {frame}
    BY DEF HeaderIsPeers
  <2>1. /\ readPos \in Int /\ writePos \in Int /\ processLen \in Nat /\ frameStart \in Nat
        /\ readPos + processLen + HeaderSize <= writePos
    BY SizeFacts DEF IInv, TypeOK, Remaining, DataSize
  <2>2. \A i \in readPos..(writePos - 1) :
            buffer[i] = (frameStart - processLen) + (i - readPos)
    BY DEF IInv, StreamIntact
  <2>3. \A i \in 0..(HeaderSize - 1) :
            buffer[readPos + processLen + i] = frameStart + i
    BY SizeFacts, <2>1, <2>2
  <2> QED
    BY <2>3 DEF HeaderAt
<1> QED
  BY <1>1, Invariance, PTL

===============================================================================
