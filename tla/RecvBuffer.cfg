\* A buffer of ten times three cells, headers of two, packets of up to three:
\* the same order of sizes as 4, 65535 and 65536, so a packet can fill all but
\* one cell of a segment.  A completion
\* brings a few bytes, or nearly fills the buffer.
CONSTANTS
    BufferSize = 3
    HeaderSize = 2
    MaxPacket = 3
    Chunks = {1, 2, 5, 27}
    MaxStream = 62
SPECIFICATION Spec
INVARIANTS TypeOK RoomToRecv StreamIntact
\* The peer's stream is bounded, and a stopped session does nothing more.
CHECK_DEADLOCK FALSE
