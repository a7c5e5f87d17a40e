---------------------------- MODULE MCRoomEvents ----------------------------
(***************************************************************************)
(* RoomEvents for TLC: the host, the viewer and one more guest.            *)
(***************************************************************************)
EXTENDS RoomEvents

CONSTANTS host, viewer, guest1

MCParticipants == {host, viewer, guest1}

MCConnections == {Conn}

=============================================================================
