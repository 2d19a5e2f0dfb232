------------------------------ MODULE MCRoomList ------------------------------
(***************************************************************************)
(* RoomList begun with a server that has been up for a while and is quiet:  *)
(* the rooms exist, each with somebody in it, and the clients know them, so *)
(* that few jobs are enough; or with one that has no rooms yet.             *)
(***************************************************************************)
EXTENDS RoomList

UpInit ==
    /\ created \in {{}, Rooms}
    /\ rooms = created
    /\ count \in {f \in [Rooms -> 0..MAX_PLAYERS] : \A r \in Rooms : f[r] > 0 <=> r \in created}
    /\ started \in {f \in [Rooms -> BOOLEAN] : \A r \in Rooms : f[r] => r \in created}
    /\ expected = {}
    /\ at = [m \in Makers |-> "idle"]
    /\ todo = [m \in Makers |-> {}]
    /\ half = [m \in Makers |-> NoNumber]
    /\ entries = [m \in Makers |-> {}]
    /\ to = [m \in Makers |-> {}]
    /\ number = [m \in Makers |-> 0]
    /\ always = [m \in Makers |-> {}]
    /\ ever = [m \in Makers |-> {}]
    /\ newest = [c \in Clients |-> [number |-> 0, entries |-> Truth]]
    /\ begun = 0 /\ jobs = 0 /\ requests = 0

UpSpec == UpInit /\ [][Next]_vars

===============================================================================
