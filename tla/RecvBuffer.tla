------------------------------ MODULE RecvBuffer ------------------------------
(***************************************************************************)
(* The receive path of one session: Session::ProcessRecv and RegisterRecv,  *)
(* the RecvBuffer they fill and PacketSession::OnRecv, which cuts packets   *)
(* out of it.  TCP may split the stream anywhere, so one completion can     *)
(* bring a piece of a header, several packets, or the end of one and the    *)
(* start of another.                                                        *)
(*                                                                          *)
(* A byte is represented by its offset in the stream the peer sent: cell i  *)
(* of the buffer holds the offset of the byte stored there.  frameStart and *)
(* frame are what the peer meant: where the packet being parsed begins and  *)
(* the size its header states, chosen when the packet before it was cut.    *)
(* At most one WSARecv is pending, so one thread at a time is in this code. *)
(***************************************************************************)
EXTENDS Integers, FiniteSets

CONSTANTS
    BufferSize,             \* Session::BUFFER_SIZE, 65536
    HeaderSize,             \* sizeof(PacketHeader), 4
    MaxPacket,              \* the largest PacketHeader::size, 65535 (uint16)
    Chunks,                 \* the byte counts a completion can bring
    MaxStream               \* bound: the bytes the peer sends

ASSUME SizesAssumption ==
    /\ {BufferSize, HeaderSize, MaxPacket, MaxStream} \subseteq Nat
    /\ Chunks \subseteq Nat \ {0}
    /\ 0 < HeaderSize /\ HeaderSize <= MaxPacket /\ MaxPacket <= BufferSize

BUFFER_COUNT == 10
Capacity == BufferSize * BUFFER_COUNT
Junk == -1                  \* a byte nobody wrote, or that memcpy may have torn

VARIABLES
    buffer,                 \* _buffer: the stream offset of the byte in each cell
    readPos, writePos,      \* RecvBuffer::_readPos, _writePos
    received,               \* bytes the peer has delivered
    frameStart, frame,      \* the packet at the head of the stream and its size
    processLen,             \* OnRecv's local: bytes cut in this completion
    connected,              \* Session::_connected
    pc                      \* "recv": WSARecv pending; "parse": in OnRecv; "stopped"

vars == <<buffer, readPos, writePos, received, frameStart, frame, processLen,
          connected, pc>>

Sizes == 0..MaxPacket
Cells == 0..(Capacity - 1)

DataSize == writePos - readPos
FreeSize == Capacity - writePos

Init ==
    /\ buffer = [i \in Cells |-> Junk]
    /\ readPos = 0 /\ writePos = 0
    /\ received = 0
    /\ frameStart = 0 /\ frame \in Sizes
    /\ processLen = 0
    /\ connected = TRUE
    /\ pc = "recv"

\* Session::Disconnect, as far as this path reads it: RegisterRecv stops.
Disconnect == connected' = FALSE

\* Another thread disconnects the session; its pending WSARecv may still
\* complete with data.
DisconnectElsewhere ==
    /\ connected
    /\ Disconnect
    /\ UNCHANGED <<buffer, readPos, writePos, received, frameStart, frame,
                   processLen, pc>>

\* The completion has no bytes: the peer closed, or the socket failed.
RecvNothing ==
    /\ pc = "recv"
    /\ Disconnect
    /\ pc' = "stopped"
    /\ UNCHANGED <<buffer, readPos, writePos, received, frameStart, frame, processLen>>

\* n bytes arrive at WritePos, at most the FreeSize WSARecv was given; OnWrite
\* moves WritePos behind them.
RecvBytes(n) ==
    /\ pc = "recv"
    /\ n <= FreeSize
    /\ received + n <= MaxStream
    /\ buffer' = [i \in Cells |->
                     IF i \in writePos..(writePos + n - 1)
                     THEN received + (i - writePos) ELSE buffer[i]]
    /\ received' = received + n
    /\ writePos' = writePos + n
    /\ processLen' = 0
    /\ pc' = "parse"
    /\ UNCHANGED <<readPos, frameStart, frame, connected>>

(***************************************************************************)
(* PacketSession::OnRecv.                                                   *)
(***************************************************************************)

Remaining == DataSize - processLen

\* header.size as read at buffer[processLen]: the peer's if its bytes are
\* there, anything a uint16 holds otherwise.
HeaderAt(p) ==
    IF \A i \in 0..(HeaderSize - 1) : buffer[p + i] = frameStart + i
    THEN {frame} ELSE Sizes

\* Slip: a packet is cut as soon as its header is there.
OnRecvPacket_HeaderOnly(size) ==
    /\ pc = "parse"
    /\ Remaining >= HeaderSize
    /\ size \in HeaderAt(readPos + processLen)
    /\ size >= HeaderSize
    /\ processLen' = processLen + size
    /\ frameStart' = frameStart + size
    /\ frame' \in Sizes
    /\ UNCHANGED <<buffer, readPos, writePos, received, connected, pc>>

\* A whole packet with a sane size is there: OnRecvPacket gets it.
OnRecvPacket(size) ==
    /\ pc = "parse"
    /\ Remaining >= HeaderSize
    /\ size \in HeaderAt(readPos + processLen)
    /\ Remaining >= size
    /\ size >= HeaderSize
    /\ processLen' = processLen + size
    /\ frameStart' = frameStart + size
    /\ frame' \in Sizes
    /\ UNCHANGED <<buffer, readPos, writePos, received, connected, pc>>

(***************************************************************************)
(* Leaving OnRecv: OnRead(processLen), Clean, RegisterRecv.                 *)
(***************************************************************************)

\* The cells outside `live` are never read before they are written again.
Forget(b, live) == [i \in Cells |-> IF i \in live THEN b[i] ELSE Junk]

\* ::memcpy of n cells from `from` to the front; it is undefined when source
\* and target overlap.
MoveToFront(from, n) ==
    [i \in Cells |-> IF i < n /\ n <= from THEN buffer[from + i] ELSE Junk]

\* OnRead moves ReadPos to `read`; Clean then rewinds an empty buffer, and
\* moves what is left to the front when fewer than `minFree` cells are free
\* (not, as RecvBuffer.h:6-7 has it, when half of the buffer was read).
ReadAndClean(read, minFree) ==
    LET left == writePos - read IN
    IF left = 0
    THEN readPos' = 0 /\ writePos' = 0 /\ buffer' = Forget(buffer, {})
    ELSE IF FreeSize < minFree
    THEN readPos' = 0 /\ writePos' = left /\ buffer' = MoveToFront(read, left)
    ELSE /\ readPos' = read
         /\ buffer' = Forget(buffer, read..(writePos - 1))
         /\ UNCHANGED writePos

\* Slips: the buffer is moved only when it is full; it is moved as soon as
\* the reader has passed one cell.
Clean_WhenFull(read) == ReadAndClean(read, 1)
Clean_Always(read)   == ReadAndClean(read, Capacity)

Clean(read) == ReadAndClean(read, BufferSize)

\* OnRead refuses more bytes than there are, and the session is disconnected;
\* RegisterRecv returns at once when it no longer is connected.
LeaveOnRecv ==
    /\ IF processLen > DataSize
       THEN /\ connected' = FALSE
            /\ pc' = "stopped"
            /\ UNCHANGED <<buffer, readPos, writePos>>
       ELSE /\ UNCHANGED connected
            /\ pc' = IF connected THEN "recv" ELSE "stopped"
            /\ Clean(readPos + processLen)
    /\ processLen' = 0
    /\ UNCHANGED <<received, frameStart, frame>>

\* The header, or the packet it announces, is not complete: wait for more.
AwaitMore ==
    /\ pc = "parse"
    /\ \/ Remaining < HeaderSize
       \/ /\ Remaining >= HeaderSize
          /\ \E size \in HeaderAt(readPos + processLen) : Remaining < size
    /\ LeaveOnRecv

\* A size smaller than the header itself: disconnect and leave the loop.  The
\* buffer is still cleaned, but nothing reads it any more.
InvalidSize ==
    /\ pc = "parse"
    /\ Remaining >= HeaderSize
    /\ \E size \in HeaderAt(readPos + processLen) :
          Remaining >= size /\ size < HeaderSize
    /\ Clean(readPos + processLen)
    /\ Disconnect
    /\ pc' = "stopped"
    /\ processLen' = 0
    /\ UNCHANGED <<received, frameStart, frame>>

Parse == \/ \E size \in Sizes : OnRecvPacket(size)
         \/ AwaitMore
         \/ InvalidSize

Next ==
    \/ DisconnectElsewhere
    \/ RecvNothing
    \/ \E n \in Chunks : RecvBytes(n)
    \/ Parse

Spec == Init /\ [][Next]_vars

-------------------------------------------------------------------------------

\* Every variable has its type; the two positions stay inside the buffer.
TypeOK ==
    /\ buffer \in [Cells -> Int]
    /\ readPos \in 0..Capacity
    /\ writePos \in readPos..Capacity
    /\ received \in Nat
    /\ frameStart \in Nat
    /\ frame \in Sizes
    /\ processLen \in 0..DataSize
    /\ connected \in BOOLEAN
    /\ pc \in {"recv", "parse", "stopped"}

\* WSARecv is always given at least BufferSize cells.  With none free it would
\* complete with 0 bytes, which ProcessRecv takes for the peer's close.
RoomToRecv == pc = "recv" => FreeSize >= BufferSize

\* However the stream was split and the data moved, the cells between ReadPos
\* and WritePos hold the next bytes of the stream, in order, none missing, and
\* OnRecv reads each header where the peer put it.
StreamIntact ==
    pc # "stopped" =>
        LET readOffset == frameStart - processLen IN
        /\ received - readOffset = DataSize
        /\ \A i \in readPos..(writePos - 1) : buffer[i] = readOffset + (i - readPos)

===============================================================================
