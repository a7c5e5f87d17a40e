-------------------------- MODULE MCRoomWebSocket --------------------------
(***************************************************************************)
(* RoomWebSocket for TLC: a host and a guest.  Each run says how many      *)
(* connections either of them opens in its life.                           *)
(***************************************************************************)
EXTENDS RoomWebSocket, TLC

CONSTANTS host, guest, h1, h2, g1, g2

MCParticipants == {host, guest}

OneEach == {h1, g1}

HostTwice == {h1, h2}

HostTwiceGuestOnce == {h1, h2, g1}

MCOwner == [c \in Connections |-> IF c \in {g1, g2} THEN guest ELSE host]

GuestStays == Connections \cap {g1, g2}

=============================================================================
