------------------------- MODULE RoomScriptsProofs -------------------------
(***************************************************************************)
(* What the scripts of the Redis store do to a stored room, for every set  *)
(* of participants and connections and every seat limit.                   *)
(*                                                                         *)
(* A lemma per kind of change (a seat taken, a seat given up, the room     *)
(* ended, the host lost or regained, a participant shown online or         *)
(* offline, a key lapsed) says that it keeps Consistent and that the       *)
(* version and finality properties hold across it.  A lemma per script     *)
(* says which of those changes it makes.                                   *)
(***************************************************************************)
EXTENDS RoomScripts, FiniteSetTheorems, TLAPS

-----------------------------------------------------------------------------
(***************************************************************************)
(* The changes a script can make, each as a relation between the state     *)
(* before and the record it leaves.                                        *)
(***************************************************************************)

SeatTaken(s, t, p) ==
    /\ s.status \in AvailableStatuses
    /\ p \in Participants \ s.members
    /\ ~(Cardinality(s.members) >= MaxParticipants)
    /\ t = [present |-> s.present, status |-> s.status, before |-> s.before,
            version |-> s.version + 1, members |-> s.members \cup {p},
            online |-> s.online \cup {p}, presence |-> s.presence]

SeatGivenUp(s, t, p) ==
    /\ s.status \in AvailableStatuses
    /\ p \in s.members \ {Host}
    /\ t = [present |-> s.present, status |-> s.status, before |-> s.before,
            version |-> s.version + 1, members |-> s.members \ {p},
            online |-> s.online \ {p},
            presence |-> [s.presence EXCEPT ![p] = None]]

Ended(s, t, status) ==
    /\ s.status \in AvailableStatuses
    /\ status \in TerminalStatuses
    /\ t = [present |-> s.present, status |-> status, before |-> None,
            version |-> s.version + 1, members |-> s.members, online |-> {},
            presence |-> [p \in Participants |->
                             IF p \in s.members THEN None ELSE s.presence[p]]]

HostLost(s, t) ==
    /\ s.status \in ActiveStatuses
    /\ t = [present |-> s.present, status |-> "HOST_DISCONNECTED",
            before |-> s.status, version |-> s.version + 1,
            members |-> s.members, online |-> s.online, presence |-> s.presence]

HostRegained(s, t) ==
    /\ s.status = "HOST_DISCONNECTED"
    /\ \E status \in ActiveStatuses :
          t = [present |-> s.present, status |-> status, before |-> None,
               version |-> s.version + 1, members |-> s.members,
               online |-> s.online, presence |-> s.presence]

ShownOnline(s, t, p, c) ==
    /\ s.status \in AvailableStatuses
    /\ p \in s.members
    /\ t = [present |-> s.present, status |-> s.status, before |-> s.before,
            version |-> IF p \in s.online THEN s.version ELSE s.version + 1,
            members |-> s.members, online |-> s.online \cup {p},
            presence |-> [s.presence EXCEPT ![p] = c]]

ShownOffline(s, t, p) ==
    /\ p \in s.members
    /\ t = [present |-> s.present, status |-> s.status, before |-> s.before,
            version |-> IF p \in s.online THEN s.version + 1 ELSE s.version,
            members |-> s.members, online |-> s.online \ {p},
            presence |-> [s.presence EXCEPT ![p] = None]]

RoomKeyGone(s, t) ==
    t = [present |-> FALSE, status |-> s.status, before |-> s.before,
         version |-> s.version, members |-> s.members, online |-> s.online,
         presence |-> s.presence]

PresenceKeyGone(s, t, p) ==
    t = [present |-> s.present, status |-> s.status, before |-> s.before,
         version |-> s.version, members |-> s.members, online |-> s.online,
         presence |-> [s.presence EXCEPT ![p] = None]]

\* The relation the version and finality properties ask of every step.
Follows(s, t) == VersionFollows(s, t) /\ EndIsFinal(s, t)

-----------------------------------------------------------------------------
(***************************************************************************)
(* Each change keeps Consistent and follows.                               *)
(***************************************************************************)

\* A room is active, without its host, or ended, and never two of these.
LEMMA StatusesDisjoint ==
    /\ AvailableStatuses \cap TerminalStatuses = {}
    /\ ActiveStatuses \subseteq AvailableStatuses \ {"HOST_DISCONNECTED"}
    /\ AvailableStatuses = ActiveStatuses \cup {"HOST_DISCONNECTED"}
    /\ RoomStatus = AvailableStatuses \cup TerminalStatuses
    /\ "HOST_DISCONNECTED" \notin TerminalStatuses
BY DEF AvailableStatuses, ActiveStatuses, TerminalStatuses, RoomStatus

\* The phase of each status.
LEMMA PhaseKnown ==
    ASSUME NEW status \in RoomStatus
    PROVE  /\ status \in ActiveStatuses <=> PhaseOf(status) = "open"
           /\ status = "HOST_DISCONNECTED" <=> PhaseOf(status) = "hostAway"
           /\ status = "CLOSED" <=> PhaseOf(status) = "closed"
           /\ status = "EXPIRED" <=> PhaseOf(status) = "expired"
BY DEF PhaseOf, RoomStatus, AvailableStatuses, ActiveStatuses, TerminalStatuses

\* A seat is taken only below the limit, so the limit holds afterwards.
LEMMA SeatTakenSafe ==
    ASSUME NEW s, Consistent(s), NEW t, NEW p, SeatTaken(s, t, p)
    PROVE  Consistent(t) /\ Follows(s, t)
<1> USE ScriptsAssumption
<1>1. s \in Store
  BY DEF Consistent
<1>2. IsFiniteSet(t.members) /\ Cardinality(t.members) = Cardinality(s.members) + 1
  BY FS_AddElement DEF Consistent, RosterOf, SeatTaken
<1>3. Cardinality(t.members) <= MaxParticipants
  BY <1>2, FS_CardinalityType DEF Consistent, RosterOf, SeatTaken
<1>4. t \in Store
  BY <1>1 DEF SeatTaken, Store
<1>5. Consistent(t)
  BY <1>2, <1>3, <1>4, StatusesDisjoint
     DEF Consistent, RosterOf, PresenceOf, EmptyWhenEnded, BeforeOf, SeatTaken
<1>6. Follows(s, t)
  BY <1>1, StatusesDisjoint
     DEF Follows, VersionFollows, EndIsFinal, Visible, SeatTaken, Store
<1> QED BY <1>5, <1>6

\* The host's seat is never given up, and a key goes with its seat.
LEMMA SeatGivenUpSafe ==
    ASSUME NEW s, Consistent(s), NEW t, NEW p, SeatGivenUp(s, t, p)
    PROVE  Consistent(t) /\ Follows(s, t)
<1> USE ScriptsAssumption
<1>1. s \in Store
  BY DEF Consistent
<1>2. IsFiniteSet(t.members) /\ Cardinality(t.members) = Cardinality(s.members) - 1
  BY FS_RemoveElement DEF Consistent, RosterOf, SeatGivenUp
<1>3. Cardinality(t.members) <= MaxParticipants
  BY <1>2, FS_CardinalityType DEF Consistent, RosterOf
<1>4. t \in Store
  BY <1>1 DEF SeatGivenUp, Store
<1>5. Consistent(t)
  BY <1>1, <1>2, <1>3, <1>4, StatusesDisjoint
     DEF Consistent, RosterOf, PresenceOf, EmptyWhenEnded, BeforeOf, SeatGivenUp, Store
<1>6. Follows(s, t)
  BY <1>1, StatusesDisjoint
     DEF Follows, VersionFollows, EndIsFinal, Visible, SeatGivenUp, Store
<1> QED BY <1>5, <1>6

\* A key was under an online participant, online participants have seats, and
\* the keys of everyone with a seat are deleted: none is left.
LEMMA EndedSafe ==
    ASSUME NEW s, Consistent(s), NEW t, NEW status, Ended(s, t, status)
    PROVE  Consistent(t) /\ Follows(s, t)
<1> USE ScriptsAssumption
<1>1. s \in Store
  BY DEF Consistent
<1>2. t \in Store
  BY <1>1, StatusesDisjoint DEF Ended, Store
<1>3. \A p \in Participants : t.presence[p] = None
  BY <1>1 DEF Consistent, PresenceOf, RosterOf, Ended
<1>4. Consistent(t)
  BY <1>1, <1>2, <1>3, StatusesDisjoint
     DEF Consistent, RosterOf, PresenceOf, EmptyWhenEnded, BeforeOf, Ended
<1>5. Follows(s, t)
  BY <1>1, StatusesDisjoint
     DEF Follows, VersionFollows, EndIsFinal, Visible, Ended, Store
<1> QED BY <1>4, <1>5

\* Losing the host keeps the room consistent.
LEMMA HostLostSafe ==
    ASSUME NEW s, Consistent(s), NEW t, HostLost(s, t)
    PROVE  Consistent(t) /\ Follows(s, t)
<1> USE ScriptsAssumption
<1>1. s \in Store
  BY DEF Consistent
<1>2. t \in Store
  BY <1>1, StatusesDisjoint DEF HostLost, Store
<1>3. Consistent(t)
  BY <1>2, StatusesDisjoint
     DEF Consistent, RosterOf, PresenceOf, EmptyWhenEnded, BeforeOf, HostLost
<1>4. Follows(s, t)
  BY <1>1, StatusesDisjoint
     DEF Follows, VersionFollows, EndIsFinal, Visible, HostLost, Store
<1> QED BY <1>3, <1>4

\* Regaining the host keeps the room consistent.
LEMMA HostRegainedSafe ==
    ASSUME NEW s, Consistent(s), NEW t, HostRegained(s, t)
    PROVE  Consistent(t) /\ Follows(s, t)
<1>1. s \in Store
  BY DEF Consistent
<1>2. t \in Store
  BY <1>1, StatusesDisjoint DEF HostRegained, Store
<1>3. Consistent(t)
  BY <1>2, StatusesDisjoint
     DEF Consistent, RosterOf, PresenceOf, EmptyWhenEnded, BeforeOf, HostRegained
<1>4. Follows(s, t)
  BY <1>1, StatusesDisjoint
     DEF Follows, VersionFollows, EndIsFinal, Visible, HostRegained, Store
<1> QED BY <1>3, <1>4

\* The version moves only when the participant was not already online.
LEMMA ShownOnlineSafe ==
    ASSUME NEW s, Consistent(s), NEW t, NEW p, NEW c \in Connections,
           ShownOnline(s, t, p, c)
    PROVE  Consistent(t) /\ Follows(s, t)
<1> USE ScriptsAssumption
<1>1. s \in Store
  BY DEF Consistent
<1>2. t \in Store
  BY <1>1 DEF ShownOnline, Store
<1>3. Consistent(t)
  BY <1>1, <1>2, StatusesDisjoint
     DEF Consistent, RosterOf, PresenceOf, EmptyWhenEnded, BeforeOf, ShownOnline, Store
<1>4. Follows(s, t)
  BY <1>1, StatusesDisjoint
     DEF Follows, VersionFollows, EndIsFinal, Visible, ShownOnline, Store
<1> QED BY <1>3, <1>4

\* In an ended room everyone is offline already, so nothing visible changes.
LEMMA ShownOfflineSafe ==
    ASSUME NEW s, Consistent(s), NEW t, NEW p, ShownOffline(s, t, p)
    PROVE  Consistent(t) /\ Follows(s, t)
<1> USE ScriptsAssumption
<1>1. s \in Store
  BY DEF Consistent
<1>2. t \in Store
  BY <1>1 DEF ShownOffline, Store
<1>3. Consistent(t)
  BY <1>1, <1>2
     DEF Consistent, RosterOf, PresenceOf, EmptyWhenEnded, BeforeOf, ShownOffline, Store
<1>4. Follows(s, t)
  BY <1>1 DEF Consistent, EmptyWhenEnded, Follows, VersionFollows, EndIsFinal,
              Visible, ShownOffline, Store
<1> QED BY <1>3, <1>4

\* A room key that lapses keeps the record consistent.
LEMMA RoomKeyGoneSafe ==
    ASSUME NEW s, Consistent(s), NEW t, RoomKeyGone(s, t)
    PROVE  Consistent(t) /\ Follows(s, t)
<1>1. t \in Store
  BY DEF Consistent, RoomKeyGone, Store
<1> QED BY <1>1 DEF Consistent, RosterOf, PresenceOf, EmptyWhenEnded, BeforeOf,
                    Follows, VersionFollows, EndIsFinal, Visible, RoomKeyGone

\* A presence key that lapses keeps the room consistent.
LEMMA PresenceKeyGoneSafe ==
    ASSUME NEW s, Consistent(s), NEW t, NEW p, PresenceKeyGone(s, t, p)
    PROVE  Consistent(t) /\ Follows(s, t)
<1>1. s \in Store
  BY DEF Consistent
<1>2. t \in Store
  BY <1>1 DEF PresenceKeyGone, Store
<1> QED BY <1>1, <1>2 DEF Consistent, RosterOf, PresenceOf, EmptyWhenEnded, BeforeOf,
                    Follows, VersionFollows, EndIsFinal, Visible, PresenceKeyGone, Store

-----------------------------------------------------------------------------
(***************************************************************************)
(* What each script does to a stored state.                                *)
(***************************************************************************)

\* join takes a seat or changes nothing.
LEMMA JoinShape ==
    ASSUME NEW s \in Store, NEW credential, NEW p \in Participants \ s.members,
           NEW late
    PROVE  LET t == JoinAfter(s, credential, p, late)
           IN  t = s \/ SeatTaken(s, t, p)
BY DEF JoinAfter, JoinOutcome, Available, SeatTaken, Store

\* leave gives a seat up or changes nothing.
LEMMA LeaveShape ==
    ASSUME NEW s \in Store, NEW p, NEW late
    PROVE  LET t == LeaveAfter(s, p, late)
           IN  t = s \/ SeatGivenUp(s, t, p)
BY DEF LeaveAfter, LeaveOutcome, Available, SeatGivenUp, Store

\* Ending a room that is available is the change Ended.
LEMMA TerminatedShape ==
    ASSUME NEW s \in Store, s.status \in AvailableStatuses,
           NEW status \in TerminalStatuses
    PROVE  Ended(s, Terminated(s, status), status)
<1> DEFINE keys == [p \in Participants |->
                       IF p \in s.members THEN None ELSE s.presence[p]]
<1>1. Terminated(s, status) =
        [s EXCEPT !.status = status, !.before = None, !.version = @ + 1,
                  !.online = {}, !.presence = keys]
  BY DEF Terminated
<1> HIDE DEF keys
<1>2. Terminated(s, status) =
        [present |-> s.present, status |-> status, before |-> None,
         version |-> s.version + 1, members |-> s.members, online |-> {},
         presence |-> keys]
  BY <1>1 DEF Store
<1> QED BY <1>2 DEF Ended, keys

\* closeByHost ends the room or changes nothing.
LEMMA CloseByHostShape ==
    ASSUME NEW s \in Store, NEW credential, NEW secretMatches, NEW late
    PROVE  LET t == CloseByHostAfter(s, credential, secretMatches, late)
           IN  t = s \/ Ended(s, t, "CLOSED")
<1>1. CASE CloseByHostOutcome(s, credential, secretMatches, late) = "CLOSED"
  <2>1. s.status \in AvailableStatuses
    BY <1>1 DEF CloseByHostOutcome, Store, RoomStatus, TerminalStatuses
  <2> QED BY <1>1, <2>1, TerminatedShape DEF CloseByHostAfter, TerminalStatuses
<1>2. CASE CloseByHostOutcome(s, credential, secretMatches, late) # "CLOSED"
  BY <1>2 DEF CloseByHostAfter
<1> QED BY <1>1, <1>2

\* expire ends the room or changes nothing.
LEMMA ExpireShape ==
    ASSUME NEW s \in Store, NEW late
    PROVE  LET t == ExpireAfter(s, late) IN t = s \/ Ended(s, t, "EXPIRED")
<1>1. CASE ExpireOutcome(s, late) = "EXPIRED"
  <2>1. s.status \in AvailableStatuses
    BY <1>1 DEF ExpireOutcome, Store, RoomStatus, TerminalStatuses
  <2> QED BY <1>1, <2>1, TerminatedShape DEF ExpireAfter, TerminalStatuses
<1>2. CASE ExpireOutcome(s, late) # "EXPIRED"
  BY <1>2 DEF ExpireAfter
<1> QED BY <1>1, <1>2

\* markHostDisconnected loses the host or changes nothing.
LEMMA MarkHostDisconnectedShape ==
    ASSUME NEW s \in Store
    PROVE  LET t == MarkHostDisconnectedAfter(s) IN t = s \/ HostLost(s, t)
BY DEF MarkHostDisconnectedAfter, MarkHostDisconnectedOutcome, HostLost, Store

\* recoverHost regains the host or changes nothing.
LEMMA RecoverHostShape ==
    ASSUME NEW s \in Store
    PROVE  LET t == RecoverHostAfter(s) IN t = s \/ HostRegained(s, t)
<1> DEFINE restored == IF s.before \in ActiveStatuses THEN s.before ELSE "CREATED"
<1>1. restored \in ActiveStatuses
  BY DEF ActiveStatuses
<1>2. CASE RecoverHostOutcome(s) = "CHANGED"
  <2>1. s.status = "HOST_DISCONNECTED"
    BY <1>2 DEF RecoverHostOutcome
  <2>2. RecoverHostAfter(s) =
          [present |-> s.present, status |-> restored, before |-> None,
           version |-> s.version + 1, members |-> s.members,
           online |-> s.online, presence |-> s.presence]
    BY <1>2 DEF RecoverHostAfter, Store
  <2> QED BY <1>1, <2>1, <2>2 DEF HostRegained
<1>3. CASE RecoverHostOutcome(s) # "CHANGED"
  BY <1>3 DEF RecoverHostAfter
<1> QED BY <1>2, <1>3

\* closeAbandoned ends the room or changes nothing.
LEMMA CloseAbandonedShape ==
    ASSUME NEW s \in Store
    PROVE  LET t == CloseAbandonedAfter(s) IN t = s \/ Ended(s, t, "CLOSED")
<1>1. CASE CloseAbandonedOutcome(s) = "CHANGED"
  <2>1. s.status \in AvailableStatuses
    BY <1>1 DEF CloseAbandonedOutcome, RecoverHostOutcome, AvailableStatuses
  <2> QED BY <1>1, <2>1, TerminatedShape DEF CloseAbandonedAfter, TerminalStatuses
<1>2. CASE CloseAbandonedOutcome(s) # "CHANGED"
  BY <1>2 DEF CloseAbandonedAfter
<1> QED BY <1>1, <1>2

\* connect shows its participant online or changes nothing.
LEMMA ConnectShape ==
    ASSUME NEW s \in Store, NEW p, NEW c, NEW late
    PROVE  LET t == ConnectAfter(s, p, c, late) IN t = s \/ ShownOnline(s, t, p, c)
BY DEF ConnectAfter, ConnectOutcome, MarkOnlineReply, Available, MarkedOnline,
       ShownOnline, Store

\* heartbeat shows its participant online or changes nothing.
LEMMA HeartbeatShape ==
    ASSUME NEW s \in Store, NEW p, NEW c, NEW late
    PROVE  LET t == HeartbeatAfter(s, p, c, late) IN t = s \/ ShownOnline(s, t, p, c)
BY DEF HeartbeatAfter, HeartbeatOutcome, MarkOnlineReply, Available, MarkedOnline,
       ShownOnline, Store

\* disconnect takes its participant off or changes nothing.
LEMMA DisconnectShape ==
    ASSUME NEW s \in Store, NEW p, NEW c
    PROVE  LET t == DisconnectAfter(s, p, c) IN t = s \/ ShownOffline(s, t, p)
BY DEF DisconnectAfter, DisconnectOutcome, ShownOffline, Store

\* The room key lapses with nothing else of the record.
LEMMA RoomKeyLapsedShape ==
    ASSUME NEW s \in Store
    PROVE  RoomKeyGone(s, RoomKeyLapsed(s))
<1>1. ASSUME NEW b
      PROVE  [s EXCEPT !.present = b] =
               [present |-> b, status |-> s.status, before |-> s.before,
                version |-> s.version, members |-> s.members,
                online |-> s.online, presence |-> s.presence]
  BY DEF Store
<1>2. [s EXCEPT !.present = FALSE] =
               [present |-> FALSE, status |-> s.status, before |-> s.before,
                version |-> s.version, members |-> s.members,
                online |-> s.online, presence |-> s.presence]
  BY <1>1, Zenon
<1> QED BY <1>2, Zenon DEF RoomKeyLapsed, RoomKeyGone

\* A presence key lapses with nothing else of the room.
LEMMA PresenceKeyLapsedShape ==
    ASSUME NEW s \in Store, NEW p
    PROVE  PresenceKeyGone(s, PresenceKeyLapsed(s, p), p)
BY DEF PresenceKeyLapsed, PresenceKeyGone, Store

\* A step on the store is a change that some lemma above covers, or none.
StoreChange(s, t) ==
    \/ t = s
    \/ \E p \in Participants \ s.members : SeatTaken(s, t, p)
    \/ \E p \in s.members : SeatGivenUp(s, t, p)
    \/ \E status \in TerminalStatuses : Ended(s, t, status)
    \/ HostLost(s, t)
    \/ HostRegained(s, t)
    \/ \E p \in s.members, c \in Connections : ShownOnline(s, t, p, c)
    \/ \E p \in s.members : ShownOffline(s, t, p)
    \/ RoomKeyGone(s, t)
    \/ \E p \in Participants : PresenceKeyGone(s, t, p)

\* Whatever change a script makes, the room stays consistent and follows the rules.
LEMMA ChangeSafe ==
    ASSUME NEW s, Consistent(s), NEW t, StoreChange(s, t)
    PROVE  Consistent(t) /\ Follows(s, t)
<1>1. CASE t = s
  BY <1>1 DEF Follows, VersionFollows, EndIsFinal
<1>2. ASSUME NEW p \in Participants \ s.members, SeatTaken(s, t, p)
      PROVE  Consistent(t) /\ Follows(s, t)
  BY <1>2, SeatTakenSafe
<1>3. ASSUME NEW p \in s.members, SeatGivenUp(s, t, p)
      PROVE  Consistent(t) /\ Follows(s, t)
  BY <1>3, SeatGivenUpSafe
<1>4. ASSUME NEW status \in TerminalStatuses, Ended(s, t, status)
      PROVE  Consistent(t) /\ Follows(s, t)
  BY <1>4, EndedSafe
<1>5. ASSUME NEW p \in s.members, NEW c \in Connections, ShownOnline(s, t, p, c)
      PROVE  Consistent(t) /\ Follows(s, t)
  BY <1>5, ShownOnlineSafe
<1>6. ASSUME NEW p \in s.members, ShownOffline(s, t, p)
      PROVE  Consistent(t) /\ Follows(s, t)
  BY <1>6, ShownOfflineSafe
<1>7. ASSUME NEW p \in Participants, PresenceKeyGone(s, t, p)
      PROVE  Consistent(t) /\ Follows(s, t)
  BY <1>7, PresenceKeyGoneSafe
<1> QED
  BY <1>1, <1>2, <1>3, <1>4, <1>5, <1>6, <1>7, HostLostSafe, HostRegainedSafe,
     RoomKeyGoneSafe DEF StoreChange

-----------------------------------------------------------------------------
(***************************************************************************)
(* What a caller knows of a change that shows nobody.                      *)
(***************************************************************************)

\* Nobody comes online and no connection is given a key.
Quieter(s, t) ==
    /\ t.online \subseteq s.online
    /\ \A p \in Participants : t.presence[p] \in {None, s.presence[p]}

\* Every change but a join, a connect and a heartbeat shows nobody.
LEMMA QuietChanges ==
    ASSUME NEW s \in Store, NEW t,
           \/ t = s \/ HostLost(s, t) \/ HostRegained(s, t) \/ RoomKeyGone(s, t)
           \/ \E p : SeatGivenUp(s, t, p) \/ ShownOffline(s, t, p) \/ PresenceKeyGone(s, t, p)
           \/ \E status : Ended(s, t, status)
    PROVE  Quieter(s, t)
BY DEF Store, Quieter, HostLost, HostRegained, RoomKeyGone, SeatGivenUp, ShownOffline,
       PresenceKeyGone, Ended

\* A room as it is created is consistent: its host has the first seat.
LEMMA NewRoomConsistent == Consistent(NewRoom)
<1> USE ScriptsAssumption
<1>1. NewRoom \in Store
  BY DEF NewRoom, Store, RoomStatus, AvailableStatuses, ActiveStatuses
<1>2. IsFiniteSet({Host}) /\ Cardinality({Host}) = 1
  BY FS_Singleton
<1>3. RosterOf(NewRoom)
  BY <1>2 DEF NewRoom, RosterOf
<1>4. PresenceOf(NewRoom) /\ EmptyWhenEnded(NewRoom) /\ BeforeOf(NewRoom)
  BY DEF NewRoom, PresenceOf, EmptyWhenEnded, BeforeOf, TerminalStatuses
<1> QED BY <1>1, <1>3, <1>4 DEF Consistent

=============================================================================
