------------------------------ MODULE MCGameRooms ------------------------------
(***************************************************************************)
(* Model values for GameRooms, and the symmetry of the safety run: clients, *)
(* players and rooms are only compared.                                     *)
(***************************************************************************)
EXTENDS GameRooms, TLC

Symmetry == Permutations(Sessions) \cup Permutations(Players) \cup Permutations(Rooms)

===============================================================================
