-------------------------- MODULE RoomStoreProofs --------------------------
(***************************************************************************)
(* The room store keeps its invariants and implements RoomLifecycle for    *)
(* every set of participants and connections, every seat limit and every   *)
(* bound on the version.  RoomScriptsProofs says what each script does;    *)
(* the theorems put the scripts together.                                  *)
(***************************************************************************)
EXTENDS RoomStore, RoomScriptsProofs

-----------------------------------------------------------------------------
(***************************************************************************)
(* The inductive invariant.  Beyond Consistent it needs the fact that a    *)
(* seat belongs to an issued id: it makes the candidate of a join, which   *)
(* is not issued yet, a newcomer.                                          *)
(***************************************************************************)
IInv ==
    /\ Consistent(store)
    /\ issued \subseteq Participants
    /\ store.members \subseteq issued
    /\ due \in BOOLEAN

\* A new room is consistent.
LEMMA InitIInv == Init => IInv
<1> SUFFICES ASSUME Init PROVE IInv
  OBVIOUS
<1>1. NewRoom.members = {Host}
  BY DEF NewRoom
<1> QED BY <1>1, NewRoomConsistent, ScriptsAssumption DEF Init, IInv

\* Every step of Next changes the store in one of those ways, and a seat taken
\* in it is the seat of an id issued by it.
LEMMA NextChanges ==
    ASSUME IInv, [Next]_storeVars
    PROVE  /\ StoreChange(store, store')
           /\ issued' \subseteq Participants
           /\ store'.members \subseteq issued'
           /\ due' \in BOOLEAN
<1> USE DEF IInv
<1>0. store \in Store
  BY DEF Consistent
<1> DEFINE Goal == /\ StoreChange(store, store')
                   /\ issued' \subseteq Participants
                   /\ store'.members \subseteq issued'
                   /\ due' \in BOOLEAN
<1>1. ASSUME NEW credential, NEW p \in Participants, NEW late \in Lateness,
             Join(credential, p, late)
      PROVE  Goal
  <2>1. p \in Participants \ store.members
    BY <1>1 DEF Join
  <2>2. store' = store \/ SeatTaken(store, store', p)
    BY <1>0, <1>1, <2>1, JoinShape DEF Join
  <2>3. CASE JoinOutcome(store, credential, late) = "JOINED"
    <3>1. issued' = issued \cup {p} /\ due' = due
      BY <1>1, <2>3 DEF Join
    <3>2. store'.members \subseteq store.members \cup {p}
      BY <2>2 DEF SeatTaken
    <3> QED BY <2>1, <2>2, <3>1, <3>2 DEF StoreChange
  <2>4. CASE JoinOutcome(store, credential, late) # "JOINED"
    BY <1>1, <2>4 DEF Join, JoinAfter, StoreChange
  <2> QED BY <2>3, <2>4
<1>2. ASSUME NEW p \in Participants, NEW late \in Lateness, Leave(p, late)
      PROVE  Goal
  <2>1. store' = store \/ SeatGivenUp(store, store', p)
    BY <1>0, <1>2, LeaveShape DEF Leave
  <2>2. SeatGivenUp(store, store', p) => p \in store.members
    BY DEF SeatGivenUp
  <2> QED BY <1>2, <2>1, <2>2 DEF Leave, StoreChange, SeatGivenUp
<1>3. ASSUME NEW p \in Participants, NEW late \in Lateness, NEW secretMatches \in BOOLEAN,
             CloseByHost(p, secretMatches, late)
      PROVE  Goal
  BY <1>0, <1>3, CloseByHostShape DEF CloseByHost, StoreChange, Ended
<1>4. ASSUME NEW p \in Participants, NEW c \in Connections, NEW late \in Lateness,
             Connect(p, c, late) \/ Heartbeat(p, c, late)
      PROVE  Goal
  <2>1. store' = store \/ ShownOnline(store, store', p, c)
    BY <1>0, <1>4, ConnectShape, HeartbeatShape DEF Connect, Heartbeat
  <2>2. ShownOnline(store, store', p, c) => p \in store.members
    BY DEF ShownOnline
  <2> QED BY <1>4, <2>1, <2>2 DEF Connect, Heartbeat, StoreChange, ShownOnline
<1>5. ASSUME NEW late \in Lateness, Expire(late)
      PROVE  Goal
  BY <1>0, <1>5, ExpireShape DEF Expire, StoreChange, Ended
<1>6. CASE MarkHostDisconnected
  BY <1>0, <1>6, MarkHostDisconnectedShape DEF MarkHostDisconnected, StoreChange, HostLost
<1>7. CASE RecoverHost
  BY <1>0, <1>7, RecoverHostShape DEF RecoverHost, StoreChange, HostRegained
<1>8. CASE CloseAbandonedRoom
  BY <1>0, <1>8, CloseAbandonedShape DEF CloseAbandonedRoom, StoreChange, Ended
<1>9. ASSUME NEW p \in Participants, NEW c \in Connections, Disconnect(p, c)
      PROVE  Goal
  <2>1. store' = store \/ ShownOffline(store, store', p)
    BY <1>0, <1>9, DisconnectShape DEF Disconnect
  <2>2. ShownOffline(store, store', p) => p \in store.members
    BY DEF ShownOffline
  <2> QED BY <1>9, <2>1, <2>2 DEF Disconnect, StoreChange, ShownOffline
<1>10. CASE ReachExpiry
  BY <1>10 DEF ReachExpiry, StoreChange
<1>11. CASE LapseRoomKey
  <2>1. RoomKeyGone(store, store')
    BY <1>0, <1>11, RoomKeyLapsedShape DEF LapseRoomKey
  <2>2. store'.members = store.members
    BY <2>1 DEF RoomKeyGone
  <2>3. issued' = issued /\ due' = due
    BY <1>11 DEF LapseRoomKey
  <2>4. StoreChange(store, store')
    BY <2>1, Zenon DEF StoreChange
  <2> QED BY <2>2, <2>3, <2>4
<1>12. ASSUME NEW p \in Participants, LapsePresenceKey(p)
       PROVE  Goal
  <2>1. PresenceKeyGone(store, store', p)
    BY <1>0, <1>12, PresenceKeyLapsedShape DEF LapsePresenceKey
  <2>2. store'.members = store.members
    BY <2>1 DEF PresenceKeyGone
  <2>3. issued' = issued /\ due' = due
    BY <1>12 DEF LapsePresenceKey
  <2>4. StoreChange(store, store')
    BY <2>1, Zenon DEF StoreChange
  <2> QED BY <2>2, <2>3, <2>4
<1>13. CASE UNCHANGED storeVars
  BY <1>13 DEF storeVars, StoreChange
<1> QED
  BY <1>1, <1>2, <1>3, <1>4, <1>5, <1>6, <1>7, <1>8, <1>9, <1>10, <1>11, <1>12, <1>13
     DEF Next, Scripts

\* Every script keeps the room consistent and follows the rules.
LEMMA NextIInv == IInv /\ [Next]_storeVars => IInv' /\ Follows(store, store')
BY NextChanges, ChangeSafe DEF IInv

-----------------------------------------------------------------------------
(***************************************************************************)
(* The theorems.                                                           *)
(***************************************************************************)

\* IInv holds in every state.
LEMMA InvariantIInv == Spec => []IInv
BY InitIInv, NextIInv, PTL DEF Spec

\* The stored state keeps its type.
THEOREM TypeCorrect == Spec => []TypeOK
<1>1. IInv => TypeOK
  BY DEF IInv, Consistent, TypeOK
<1> QED BY <1>1, InvariantIInv, PTL

\* The host keeps its seat, the seat limit holds and only seated participants
\* are online, whatever the order of the scripts.
THEOREM RosterTheorem == Spec => []RosterConsistent
<1>1. IInv => RosterConsistent
  BY DEF IInv, Consistent, RosterConsistent
<1> QED BY <1>1, InvariantIInv, PTL

\* No presence key outlives the online flag it stands for.
THEOREM PresenceTheorem == Spec => []PresenceImpliesOnline
<1>1. IInv => PresenceImpliesOnline
  BY DEF IInv, Consistent, PresenceImpliesOnline
<1> QED BY <1>1, InvariantIInv, PTL

\* An ended room shows nobody online.
THEOREM TerminalTheorem == Spec => []TerminalIsEmpty
<1>1. IInv => TerminalIsEmpty
  BY DEF IInv, Consistent, TerminalIsEmpty
<1> QED BY <1>1, InvariantIInv, PTL

\* A status is remembered exactly while the host is away.
THEOREM BeforeTheorem == Spec => []BeforeOnlyWhileAway
<1>1. IInv => BeforeOnlyWhileAway
  BY DEF IInv, Consistent, BeforeOnlyWhileAway
<1> QED BY <1>1, InvariantIInv, PTL

\* The version moves by one with every visible change and with nothing else.
THEOREM VersionTheorem == Spec => VersionNamesState
<1>1. IInv /\ [Next]_storeVars => [VersionFollows(store, store')]_storeVars
  BY NextIInv DEF Follows
<1> QED BY <1>1, InvariantIInv, PTL DEF Spec, VersionNamesState

\* No script changes an ended room.
THEOREM FinalityTheorem == Spec => TerminalIsFinal
<1>1. IInv /\ [Next]_storeVars => [EndIsFinal(store, store')]_storeVars
  BY NextIInv DEF Follows
<1> QED BY <1>1, InvariantIInv, PTL DEF Spec, TerminalIsFinal

\* A new room starts the abstract life.
LEMMA InitLifecycle == Init => Lifecycle!Init
BY DEF Init, NewRoom, Lifecycle!Init, PhaseOf, ActiveStatuses

\* Where the room stands in its life, before and after a step.
LEMMA PhaseOfRoom ==
    ASSUME store \in Store, store' \in Store
    PROVE  /\ store.status \in AvailableStatuses => PhaseOf(store.status) \in Lifecycle!Alive
           /\ store.status \in ActiveStatuses => PhaseOf(store.status) = "open"
           /\ store.status = "HOST_DISCONNECTED" => PhaseOf(store.status) = "hostAway"
           /\ store'.status \in ActiveStatuses => PhaseOf(store'.status) = "open"
           /\ store'.status = "HOST_DISCONNECTED" => PhaseOf(store'.status) = "hostAway"
           /\ store'.status = "CLOSED" => PhaseOf(store'.status) = "closed"
           /\ store'.status = "EXPIRED" => PhaseOf(store'.status) = "expired"
BY PhaseKnown, StatusesDisjoint DEF Store, Lifecycle!Alive

\* The instance's Cardinality is the one used here.
LEMMA SameCardinality == \A S : Lifecycle!Cardinality(S) = Cardinality(S)
BY Zenon DEF Lifecycle!Cardinality, Cardinality

\* Each change of the store is a step of RoomLifecycle or none.
LEMMA StepLifecycle ==
    ASSUME IInv, IInv', StoreChange(store, store')
    PROVE  [Lifecycle!Next]_(Lifecycle!lifecycleVars)
<1>1. /\ store \in Store
      /\ store' \in Store
  BY DEF IInv, Consistent
<1> USE PhaseOfRoom, <1>1
<1>2. CASE store' = store
  BY <1>2 DEF Lifecycle!lifecycleVars
<1>3. ASSUME NEW p \in Participants \ store.members, SeatTaken(store, store', p)
      PROVE  Lifecycle!Next
  <2>1. Cardinality(store.members) < MaxParticipants
    BY <1>3, FS_CardinalityType, ScriptsAssumption
       DEF SeatTaken, IInv, Consistent, RosterOf
  <2>2. /\ store'.members = store.members \cup {p}
        /\ store'.online = store.online \cup {p}
        /\ store'.status = store.status
        /\ store.status \in AvailableStatuses
    BY <1>3 DEF SeatTaken
  <2>3. PhaseOf(store.status) \in Lifecycle!Alive /\ PhaseOf(store'.status) = PhaseOf(store.status)
    BY <2>2
  <2>4. p \notin store.members
    OBVIOUS
  <2>5. Lifecycle!Admit(p)
    BY <2>1, <2>2, <2>3, <2>4, SameCardinality DEF Lifecycle!Admit
  <2> QED BY <2>5 DEF Lifecycle!Next
<1>4. ASSUME NEW p \in store.members, SeatGivenUp(store, store', p)
      PROVE  Lifecycle!Next
  <2>1. p \in Participants
    BY DEF Store
  <2>2. Lifecycle!Release(p)
    BY <1>4 DEF SeatGivenUp, Lifecycle!Release
  <2> QED BY <2>1, <2>2 DEF Lifecycle!Next
<1>5. ASSUME NEW status \in TerminalStatuses, Ended(store, store', status)
      PROVE  Lifecycle!Next
  <2>1. Lifecycle!End
    BY <1>5 DEF Ended, Lifecycle!End, TerminalStatuses
  <2> QED BY <2>1 DEF Lifecycle!Next
<1>6. CASE HostLost(store, store')
  <2>1. Lifecycle!LoseHost
    BY <1>6 DEF HostLost, Lifecycle!LoseHost
  <2> QED BY <2>1 DEF Lifecycle!Next
<1>7. CASE HostRegained(store, store')
  <2>1. Lifecycle!RegainHost
    BY <1>7 DEF HostRegained, Lifecycle!RegainHost
  <2> QED BY <2>1 DEF Lifecycle!Next
<1>8. ASSUME NEW p \in store.members, NEW c \in Connections,
             ShownOnline(store, store', p, c)
      PROVE  Lifecycle!Next
  <2>1. p \in Participants
    BY DEF Store
  <2>2. Lifecycle!Arrive(p)
    BY <1>8 DEF ShownOnline, Lifecycle!Arrive
  <2> QED BY <2>1, <2>2 DEF Lifecycle!Next
<1>9. ASSUME NEW p \in store.members, ShownOffline(store, store', p)
      PROVE  Lifecycle!Next
  <2>1. p \in Participants
    BY DEF Store
  <2>2. Lifecycle!Depart(p)
    BY <1>9 DEF ShownOffline, Lifecycle!Depart
  <2> QED BY <2>1, <2>2 DEF Lifecycle!Next
<1>10. CASE RoomKeyGone(store, store') \/ \E p \in Participants : PresenceKeyGone(store, store', p)
  BY <1>10 DEF RoomKeyGone, PresenceKeyGone, Lifecycle!lifecycleVars
<1> QED
  BY <1>2, <1>3, <1>4, <1>5, <1>6, <1>7, <1>8, <1>9, <1>10 DEF StoreChange

\* The Redis scripts implement the abstract room: bounded seats, a host that
\* keeps its seat, and one end.
THEOREM Refinement == Spec => ImplementsLifecycle
<1>1. IInv /\ IInv' /\ [Next]_storeVars
        => [Lifecycle!Next]_(Lifecycle!lifecycleVars)
  BY NextChanges, StepLifecycle
<1> QED
  BY <1>1, InitLifecycle, InvariantIInv, PTL
     DEF Spec, ImplementsLifecycle, Lifecycle!Spec

=============================================================================
