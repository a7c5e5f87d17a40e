---------------------------- MODULE MCRoomStore ----------------------------
(***************************************************************************)
(* RoomStore for TLC: four participants for three seats, so that a join is  *)
(* refused and a seat is taken again, and two connections, so that one     *)
(* supersedes the other.                                                   *)
(***************************************************************************)
EXTENDS RoomStore, TLC

CONSTANTS host, guest1, guest2, guest3, conn1, conn2

MCParticipants == {host, guest1, guest2, guest3}

MCConnections == {conn1, conn2}

\* Guests are interchangeable, and so are connections.
MCSymmetry == Permutations({guest1, guest2, guest3}) \cup Permutations(MCConnections)

=============================================================================
