--------------------------- MODULE RoomLifecycle ---------------------------
(***************************************************************************)
(* What a room promises its participants, with no keys, credentials,       *)
(* connections or clocks: a bounded set of seats one of which is the       *)
(* host's, an audience drawn from the seats, and a life that ends once.    *)
(***************************************************************************)
EXTENDS Naturals, FiniteSets

CONSTANTS Participants, Host, MaxParticipants

VARIABLES
    phase,      \* where the room is in its life
    seats,      \* the participants who belong to it
    audience    \* the participants it shows as online

lifecycleVars == <<phase, seats, audience>>

Alive == {"open", "hostAway"}

Init ==
    /\ phase = "open"
    /\ seats = {Host}
    /\ audience = {Host}

\* A newcomer is given a free seat and is shown online at once.
Admit(p) ==
    /\ phase \in Alive
    /\ p \notin seats
    /\ Cardinality(seats) < MaxParticipants
    /\ seats' = seats \cup {p}
    /\ audience' = audience \cup {p}
    /\ UNCHANGED phase

\* A guest may give its seat up; the host may not.
Release(p) ==
    /\ phase \in Alive
    /\ p \in seats \ {Host}
    /\ seats' = seats \ {p}
    /\ audience' = audience \ {p}
    /\ UNCHANGED phase

Arrive(p) ==
    /\ phase \in Alive
    /\ p \in seats
    /\ audience' = audience \cup {p}
    /\ UNCHANGED <<phase, seats>>

Depart(p) ==
    /\ audience' = audience \ {p}
    /\ UNCHANGED <<phase, seats>>

LoseHost ==
    /\ phase = "open"
    /\ phase' = "hostAway"
    /\ UNCHANGED <<seats, audience>>

RegainHost ==
    /\ phase = "hostAway"
    /\ phase' = "open"
    /\ UNCHANGED <<seats, audience>>

\* The room ends with everybody offline and keeps its seats as they were.
End ==
    /\ phase \in Alive
    /\ phase' \in {"closed", "expired"}
    /\ audience' = {}
    /\ UNCHANGED seats

Next ==
    \/ \E p \in Participants : Admit(p) \/ Release(p) \/ Arrive(p) \/ Depart(p)
    \/ LoseHost
    \/ RegainHost
    \/ End

Spec == Init /\ [][Next]_lifecycleVars

=============================================================================
