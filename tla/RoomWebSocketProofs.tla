------------------------ MODULE RoomWebSocketProofs ------------------------
(***************************************************************************)
(* The handler keeps its promises for every set of participants and        *)
(* connections, every owner of a connection and any number of restarts.    *)
(*                                                                         *)
(* The argument is about where the callbacks of a connection can be while  *)
(* something still refers to it: a presence key, the room's set of         *)
(* sessions, the participant's entry, or the room that shows its owner     *)
(* online.                                                                 *)
(***************************************************************************)
EXTENDS RoomWebSocket, RoomScriptsProofs

-----------------------------------------------------------------------------
(***************************************************************************)
(* The inductive invariant                                                 *)
(***************************************************************************)

\* In the room's set of sessions: between register and unregister.
InSet == {"cancelTimer", "recover", "greet", "serving"}

\* Named by the participant's entry: until disconnect.
Mapped == InSet \cup {"unmap", "disconnect"}

\* Known to the store: between store.connect and store.disconnect.
Connected == Mapped \cup {"register"}

\* Still to tell the store that it is gone.
Working == Connected \cup {"connect"}

\* Has told the store that it is gone.
Gone == {"mark", "schedule", "done"}

\* A key is held by a connection of its participant that will give it back, or
\* that a restart has cut off.
KeyHeld ==
    \A p \in Participants :
        store.presence[p] # None =>
            /\ store.presence[p] \in Connections
            /\ Owner[store.presence[p]] = p
            /\ pc[store.presence[p]] \in Connected \cup {"lost"}

TablesLive ==
    \A c \in Connections :
        /\ c \in Registered => pc[c] \in InSet
        /\ current[Owner[c]] = c => pc[c] \in Mapped

\* Before the first restart no callback is cut off, and a participant that is
\* shown after one of its connections has gone has another one at work.
ShownHasWorker ==
    crashes = 0 =>
        /\ \A c \in Connections : pc[c] # "lost"
        /\ \A p \in store.online :
              (\E c \in Connections : Owner[c] = p /\ pc[c] \in Gone)
                => \E c \in Connections : Owner[c] = p /\ pc[c] \in Working

StoreInv == Consistent(store) /\ store.present

IInv == TypeOK /\ StoreInv /\ KeyHeld /\ TablesLive /\ ShownHasWorker

-----------------------------------------------------------------------------
(***************************************************************************)
(* What a step does to the store                                           *)
(***************************************************************************)

\* The script's state is stored as it is but for the version.
LEMMA StoredAs ==
    ASSUME NEW s, Consistent(s), Stored(s)
    PROVE  /\ Consistent(store')
           /\ store'.present = s.present
           /\ store'.status = s.status
           /\ store'.members = s.members
           /\ store'.online = s.online
           /\ store'.presence = s.presence
<1>1. s \in Store
  BY DEF Consistent
<1>2. store' = [present |-> s.present, status |-> s.status, before |-> s.before,
                version |-> 0, members |-> s.members, online |-> s.online,
                presence |-> s.presence]
  BY <1>1 DEF Stored, Store
<1>3. store' \in Store
  BY <1>1, <1>2 DEF Store
<1> QED
  BY <1>2, <1>3 DEF Consistent, RosterOf, PresenceOf, EmptyWhenEnded, BeforeOf

\* Once the room has ended, a step changes nothing that clients can see of it.
EndStays == store.status \in TerminalStatuses => Visible(store') = Visible(store)

\* The step is one of the abstract room's, or one it does not see.
LifeGoesOn == [Lifecycle!Next]_(Lifecycle!lifecycleVars)

Lawful == EndStays /\ LifeGoesOn

\* The instance's Cardinality is the one used here.
LEMMA SameCardinality == \A S : Lifecycle!Cardinality(S) = Cardinality(S)
BY Zenon DEF Lifecycle!Cardinality, Cardinality

\* A change that a script makes is a step of the abstract room when it is stored.
LEMMA StoredLives ==
    ASSUME Consistent(store), NEW s, StoreChange(store, s), Consistent(s), Stored(s)
    PROVE  LifeGoesOn
<1> DEFINE before == PhaseOf(store.status)
           after == PhaseOf(store'.status)
<1>1. /\ store \in Store
      /\ store'.status = s.status /\ store'.members = s.members /\ store'.online = s.online
      /\ s.status \in RoomStatus
  BY StoredAs DEF Consistent, Store
<1>2. /\ store.status \in AvailableStatuses => before \in Lifecycle!Alive
      /\ store.status \in ActiveStatuses => before = "open"
      /\ store.status = "HOST_DISCONNECTED" => before = "hostAway"
      /\ s.status \in ActiveStatuses => after = "open"
      /\ s.status = "HOST_DISCONNECTED" => after = "hostAway"
      /\ s.status \in TerminalStatuses => after \in {"closed", "expired"}
      /\ s.status = store.status => after = before
  BY <1>1, PhaseKnown, StatusesDisjoint DEF Store, Lifecycle!Alive, TerminalStatuses
<1> HIDE DEF before, after
<1>3. ASSUME s.status = store.status, s.members = store.members, s.online = store.online
      PROVE  LifeGoesOn
  BY <1>1, <1>2, <1>3 DEF LifeGoesOn, Lifecycle!lifecycleVars, before, after
<1>4. ASSUME NEW p \in Participants \ store.members, SeatTaken(store, s, p)
      PROVE  LifeGoesOn
  <2>1. Cardinality(store.members) < MaxParticipants
    BY <1>4, FS_CardinalityType, ScriptsAssumption DEF SeatTaken, Consistent, RosterOf
  <2>2. Lifecycle!Admit(p)
    BY <1>1, <1>2, <1>4, <2>1, SameCardinality DEF SeatTaken, Lifecycle!Admit, before, after
  <2> QED BY <2>2 DEF LifeGoesOn, Lifecycle!Next
<1>5. ASSUME NEW p \in store.members, SeatGivenUp(store, s, p)
      PROVE  LifeGoesOn
  <2>1. p \in Participants
    BY <1>1 DEF Store
  <2>2. Lifecycle!Release(p)
    BY <1>1, <1>2, <1>5 DEF SeatGivenUp, Lifecycle!Release, before, after
  <2> QED BY <2>1, <2>2 DEF LifeGoesOn, Lifecycle!Next
<1>6. ASSUME NEW status \in TerminalStatuses, Ended(store, s, status)
      PROVE  LifeGoesOn
  <2>1. Lifecycle!End
    BY <1>1, <1>2, <1>6 DEF Ended, Lifecycle!End, before, after
  <2> QED BY <2>1 DEF LifeGoesOn, Lifecycle!Next
<1>7. CASE HostLost(store, s)
  <2>1. Lifecycle!LoseHost
    BY <1>1, <1>2, <1>7 DEF HostLost, Lifecycle!LoseHost, before, after
  <2> QED BY <2>1 DEF LifeGoesOn, Lifecycle!Next
<1>8. CASE HostRegained(store, s)
  <2>1. Lifecycle!RegainHost
    BY <1>1, <1>2, <1>8 DEF HostRegained, Lifecycle!RegainHost, before, after
  <2> QED BY <2>1 DEF LifeGoesOn, Lifecycle!Next
<1>9. ASSUME NEW p \in store.members, NEW c \in Connections, ShownOnline(store, s, p, c)
      PROVE  LifeGoesOn
  <2>1. p \in Participants
    BY <1>1 DEF Store
  <2>2. Lifecycle!Arrive(p)
    BY <1>1, <1>2, <1>9 DEF ShownOnline, Lifecycle!Arrive, before, after
  <2> QED BY <2>1, <2>2 DEF LifeGoesOn, Lifecycle!Next
<1>10. ASSUME NEW p \in store.members, ShownOffline(store, s, p)
       PROVE  LifeGoesOn
  <2>1. p \in Participants
    BY <1>1 DEF Store
  <2>2. Lifecycle!Depart(p)
    BY <1>1, <1>2, <1>10 DEF ShownOffline, Lifecycle!Depart, before, after
  <2> QED BY <2>1, <2>2 DEF LifeGoesOn, Lifecycle!Next
<1>11. CASE \/ s = store \/ RoomKeyGone(store, s)
            \/ \E p \in Participants : PresenceKeyGone(store, s, p)
  BY <1>3, <1>11 DEF RoomKeyGone, PresenceKeyGone
<1> QED
  BY <1>4, <1>5, <1>6, <1>7, <1>8, <1>9, <1>10, <1>11 DEF StoreChange

\* What a script is allowed by the rules of RoomScripts is allowed to the step
\* that stores it.
LEMMA StoredFollows ==
    ASSUME Consistent(store), NEW s, StoreChange(store, s), Stored(s)
    PROVE  Lawful
BY StoredAs, StoredLives, ChangeSafe DEF Follows, EndIsFinal, Visible, EndStays, Lawful

\* A script that shows nobody keeps the store consistent and quiet.
LEMMA StoredQuietly ==
    ASSUME StoreInv, NEW s, s.present,
           \/ s = store \/ HostLost(store, s) \/ HostRegained(store, s)
           \/ \E p \in Participants :
                 SeatGivenUp(store, s, p) \/ ShownOffline(store, s, p) \/ PresenceKeyGone(store, s, p)
           \/ \E status \in TerminalStatuses : Ended(store, s, status),
           Stored(s)
    PROVE  StoreInv' /\ Quieter(store, store') /\ Lawful
<1>1. Consistent(s) /\ Follows(store, s)
  <2>1. CASE s = store
    BY <2>1 DEF StoreInv, Follows, VersionFollows, EndIsFinal
  <2>2. CASE s # store
    BY <2>2, SeatGivenUpSafe, ShownOfflineSafe, PresenceKeyGoneSafe, EndedSafe, HostLostSafe,
       HostRegainedSafe DEF StoreInv
  <2> QED BY <2>1, <2>2
<1>2. Quieter(store, s)
  BY QuietChanges DEF StoreInv, Consistent
<1>3. StoreChange(store, s)
  BY DEF StoreInv, Consistent, RosterOf, SeatGivenUp, ShownOffline, StoreChange
<1> QED BY <1>1, <1>2, <1>3, StoredAs, StoredFollows DEF StoreInv, Quieter

\* The owner of a connection comes online and the connection is given the key.
Shows(c) ==
    /\ store'.online = store.online \cup {Owner[c]}
    /\ store'.presence = [store.presence EXCEPT ![Owner[c]] = c]

\* A script that shows the owner of a connection keeps the store consistent.
LEMMA StoredShows ==
    ASSUME StoreInv, NEW c \in Connections, NEW s, ShownOnline(store, s, Owner[c], c), Stored(s)
    PROVE  StoreInv' /\ Shows(c) /\ Lawful
<1>1. Consistent(s) /\ Follows(store, s)
  BY ShownOnlineSafe DEF StoreInv
<1>2. s.present /\ s.online = store.online \cup {Owner[c]}
      /\ s.presence = [store.presence EXCEPT ![Owner[c]] = c]
  BY DEF ShownOnline, StoreInv
<1>3. StoreChange(store, s)
  BY DEF ShownOnline, StoreChange
<1> QED BY <1>1, <1>2, <1>3, StoredAs, StoredFollows DEF StoreInv, Shows

\* A step that leaves the store alone is lawful.
LEMMA StoreUnchanged ==
    ASSUME StoreInv, UNCHANGED store
    PROVE  StoreInv' /\ Quieter(store, store') /\ Lawful
BY DEF StoreInv, Quieter, Lawful, EndStays, LifeGoesOn, Lifecycle!lifecycleVars

\* A step shows nobody, or it is a join, or it shows the owner of a connection
\* that has just been accepted or is being served.
Effect ==
    \/ Quieter(store, store')
    \/ \E p \in Participants :
          /\ Join(p)
          /\ store'.online = store.online \cup {p}
          /\ store'.presence = store.presence
    \/ \E c \in Connections : (Connect(c) \/ Heartbeat(c)) /\ pc'[c] \in Connected /\ Shows(c)

\* Every step keeps the store consistent and lawful, and shows nobody it may not.
LEMMA StoreStep ==
    ASSUME IInv, [Next]_wsVars
    PROVE  StoreInv' /\ Effect /\ Lawful
<1> USE WebSocketAssumption
<1>0. StoreInv /\ store \in Store /\ store.present
  BY DEF IInv, StoreInv, Consistent
<1> DEFINE Goal == StoreInv' /\ Effect /\ Lawful
<1>1. ASSUME NEW p \in Participants, Join(p)
      PROVE  Goal
  <2> DEFINE s == JoinAfter(store, None, p, due)
  <2>1. s = store \/ SeatTaken(store, s, p)
    BY <1>0, <1>1, JoinShape DEF Join
  <2>2. Stored(s)
    BY <1>1 DEF Join
  <2> HIDE DEF s
  <2>3. CASE s = store
    BY <1>0, <2>2, <2>3, StoredQuietly DEF Effect
  <2>4. CASE SeatTaken(store, s, p)
    <3>1. Consistent(s) /\ Follows(store, s)
      BY <1>0, <2>4, SeatTakenSafe DEF StoreInv
    <3>2. s.present /\ s.online = store.online \cup {p} /\ s.presence = store.presence
      BY <1>0, <2>4 DEF SeatTaken
    <3>3. StoreChange(store, s)
      BY <2>4 DEF SeatTaken, StoreChange
    <3> QED BY <1>0, <1>1, <2>2, <3>1, <3>2, <3>3, StoredAs, StoredFollows DEF StoreInv, Effect
  <2> QED BY <2>1, <2>3, <2>4
<1>2. ASSUME NEW p \in Participants, Leave(p)
      PROVE  Goal
  <2> DEFINE s == LeaveAfter(store, p, due)
  <2>1. s = store \/ SeatGivenUp(store, s, p)
    BY <1>0, LeaveShape
  <2>2. Stored(s)
    BY <1>2 DEF Leave
  <2> HIDE DEF s
  <2>3. s.present
    BY <1>0, <2>1 DEF SeatGivenUp
  <2> QED BY <1>0, <2>1, <2>2, <2>3, StoredQuietly DEF Effect
<1>3. CASE CloseByHost
  <2> DEFINE s == CloseByHostAfter(store, Host, TRUE, due)
  <2>1. s = store \/ Ended(store, s, "CLOSED")
    BY <1>0, CloseByHostShape
  <2>2. Stored(s)
    BY <1>3 DEF CloseByHost
  <2> HIDE DEF s
  <2>3. s.present
    BY <1>0, <2>1 DEF Ended
  <2> QED BY <1>0, <2>1, <2>2, <2>3, StoredQuietly DEF Effect, TerminalStatuses
<1>4. ASSUME NEW c \in Connections, Connect(c)
      PROVE  Goal
  <2> DEFINE s == ConnectAfter(store, Owner[c], c, due)
  <2>1. Stored(s)
    BY <1>4 DEF Connect
  <2>2. CASE ConnectOutcome(store, Owner[c], due) \in {"ONLINE", "UNCHANGED"}
    <3>1. ShownOnline(store, s, Owner[c], c)
      BY <1>0, <2>2 DEF ConnectAfter, ConnectOutcome, MarkOnlineReply, Available, MarkedOnline,
                        ShownOnline, Store
    <3>2. pc'[c] \in Connected
      BY <1>4, <2>2 DEF Connect, Go, Connected, IInv, TypeOK
    <3> QED BY <1>0, <1>4, <2>1, <3>1, <3>2, StoredShows DEF Effect
  <2>3. CASE ConnectOutcome(store, Owner[c], due) \notin {"ONLINE", "UNCHANGED"}
    <3>1. s = store
      BY <2>3 DEF ConnectAfter
    <3> QED BY <1>0, <2>1, <3>1, StoredQuietly DEF Effect
  <2> QED BY <2>2, <2>3
<1>5. ASSUME NEW c \in Connections, Heartbeat(c)
      PROVE  Goal
  <2> DEFINE s == HeartbeatAfter(store, Owner[c], c, due)
  <2>1. Stored(s)
    BY <1>5 DEF Heartbeat
  <2>2. s = store \/ ShownOnline(store, s, Owner[c], c)
    BY <1>0, HeartbeatShape
  <2> HIDE DEF s
  <2>3. pc'[c] \in Connected
    BY <1>5 DEF Heartbeat, Connected, Mapped, InSet
  <2> QED BY <1>0, <1>5, <2>1, <2>2, <2>3, StoredShows, StoredQuietly DEF Effect
<1>6. ASSUME NEW c \in Connections, RecoverHost(c)
      PROVE  Goal
  <2> DEFINE s == RecoverHostAfter(store)
  <2>1. s = store \/ HostRegained(store, s)
    BY <1>0, RecoverHostShape
  <2>2. Stored(s)
    BY <1>6 DEF RecoverHost
  <2> HIDE DEF s
  <2>3. s.present
    BY <1>0, <2>1 DEF HostRegained
  <2> QED BY <1>0, <2>1, <2>2, <2>3, StoredQuietly DEF Effect
<1>7. ASSUME NEW c \in Connections, Disconnect(c)
      PROVE  Goal
  <2> DEFINE s == DisconnectAfter(store, Owner[c], c)
  <2>1. s = store \/ ShownOffline(store, s, Owner[c])
    BY <1>0, DisconnectShape
  <2>2. Stored(s)
    BY <1>7 DEF Disconnect, TellStore
  <2> HIDE DEF s
  <2>3. s.present
    BY <1>0, <2>1 DEF ShownOffline
  <2>4. Owner[c] \in Participants
    OBVIOUS
  <2> QED BY <1>0, <2>1, <2>2, <2>3, <2>4, StoredQuietly DEF Effect
<1>8. ASSUME NEW c \in Connections, MarkHostDisconnected(c)
      PROVE  Goal
  <2> DEFINE s == MarkHostDisconnectedAfter(store)
  <2>1. s = store \/ HostLost(store, s)
    BY <1>0, MarkHostDisconnectedShape
  <2>2. Stored(s)
    BY <1>8 DEF MarkHostDisconnected
  <2> HIDE DEF s
  <2>3. s.present
    BY <1>0, <2>1 DEF HostLost
  <2> QED BY <1>0, <2>1, <2>2, <2>3, StoredQuietly DEF Effect
<1>9. ASSUME NEW t \in Connections, CloseAbandonedRoom(t)
      PROVE  Goal
  <2> DEFINE s == CloseAbandonedAfter(store)
  <2>1. s = store \/ Ended(store, s, "CLOSED")
    BY <1>0, CloseAbandonedShape
  <2>2. Stored(s)
    BY <1>9 DEF CloseAbandonedRoom
  <2> HIDE DEF s
  <2>3. s.present
    BY <1>0, <2>1 DEF Ended
  <2> QED BY <1>0, <2>1, <2>2, <2>3, StoredQuietly DEF Effect, TerminalStatuses
<1>10. CASE ExpireRoom
  <2> DEFINE s == ExpireAfter(store, TRUE)
  <2>1. s = store \/ Ended(store, s, "EXPIRED")
    BY <1>0, ExpireShape
  <2>2. Stored(s)
    BY <1>10 DEF ExpireRoom
  <2> HIDE DEF s
  <2>3. s.present
    BY <1>0, <2>1 DEF Ended
  <2> QED BY <1>0, <2>1, <2>2, <2>3, StoredQuietly DEF Effect, TerminalStatuses
<1>11. ASSUME NEW p \in Participants, LapsePresenceKey(p)
       PROVE  Goal
  <2> DEFINE s == PresenceKeyLapsed(store, p)
  <2>1. PresenceKeyGone(store, s, p)
    BY <1>0, PresenceKeyLapsedShape
  <2>2. Stored(s)
    BY <1>11 DEF LapsePresenceKey
  <2> HIDE DEF s
  <2>3. s.present
    BY <1>0, <2>1 DEF PresenceKeyGone
  <2> QED BY <1>0, <2>1, <2>2, <2>3, StoredQuietly DEF Effect
<1>12. CASE UNCHANGED store
  BY <1>0, <1>12, StoreUnchanged DEF Effect
<1>13. UNCHANGED store
         \/ (\E p \in Participants : Join(p) \/ Leave(p) \/ LapsePresenceKey(p))
         \/ CloseByHost \/ ExpireRoom \/ (\E t \in Connections : CloseAbandonedRoom(t))
         \/ \E c \in Connections : Connect(c) \/ Heartbeat(c) \/ RecoverHost(c) \/ Disconnect(c)
                                   \/ MarkHostDisconnected(c)
  BY DEF Next, Callback, Task, Publish, wsVars, Handshake, Register, CancelTimer, Greet, Chat,
         Drop, Unregister, Unmap, ScheduleHostReconnect, StartGraceTask, ForgetGraceTask,
         StartExpiryTask, PublishRoomClosed, PublishParticipantLeft, ReachExpiry, Crash
<1> QED
  BY <1>1, <1>2, <1>3, <1>4, <1>5, <1>6, <1>7, <1>8, <1>9, <1>10, <1>11, <1>12, <1>13

-----------------------------------------------------------------------------
(***************************************************************************)
(* What a step does to the callbacks and the tables                        *)
(***************************************************************************)

\* The state keeps its types; the store's is part of StoreInv.
LEMMA TypeStep ==
    ASSUME IInv, [Next]_wsVars
    PROVE  TypeOK'
<1> USE ScriptsAssumption, WebSocketAssumption
<1>0. store' \in Store
  BY StoreStep DEF StoreInv, Consistent
<1> USE <1>0 DEF IInv, TypeOK, tables, timers, outside, Go, Steps, Establishing, Closing,
                 CancelHostReconnect
<1>1. ASSUME NEW c \in Connections, Handshake(c) \/ Chat(c) \/ Drop(c) \/ Heartbeat(c)
      PROVE  TypeOK'
  BY <1>1 DEF Handshake, Chat, Drop, Heartbeat
<1>2. ASSUME NEW c \in Connections, Connect(c)
      PROVE  TypeOK'
  BY <1>2 DEF Connect
<1>3. ASSUME NEW c \in Connections, Register(c)
      PROVE  TypeOK'
  <2>1. sessions' \in [id : Connections, members : SUBSET Connections]
    BY <1>3 DEF Register
  <2> QED BY <1>3, <2>1 DEF Register
<1>4. ASSUME NEW c \in Connections, CancelTimer(c) \/ RecoverHost(c) \/ Greet(c)
      PROVE  TypeOK'
  BY <1>4 DEF CancelTimer, RecoverHost, Greet
<1>5. ASSUME NEW c \in Connections, Unregister(c)
      PROVE  TypeOK'
  <2>1. sessions' \in [id : Connections, members : SUBSET Connections] \cup {None}
    BY <1>5 DEF Unregister
  <2>2. emptied' \in [Connections -> Connections \cup {None}]
    BY <1>5 DEF Unregister
  <2> QED BY <1>5, <2>1, <2>2 DEF Unregister
<1>6. ASSUME NEW c \in Connections, Unmap(c)
      PROVE  TypeOK'
  BY <1>6 DEF Unmap
<1>7. ASSUME NEW c \in Connections, Disconnect(c)
      PROVE  TypeOK'
  BY <1>7 DEF Disconnect, RemoveEntry
<1>8. ASSUME NEW c \in Connections, MarkHostDisconnected(c) \/ ScheduleHostReconnect(c)
      PROVE  TypeOK'
  BY <1>8 DEF MarkHostDisconnected, ScheduleHostReconnect
<1>9. ASSUME NEW t \in Connections, StartGraceTask(t) \/ ForgetGraceTask(t) \/ CloseAbandonedRoom(t)
      PROVE  TypeOK'
  BY <1>9 DEF StartGraceTask, ForgetGraceTask, CloseAbandonedRoom, Running
<1>10. CASE StartExpiryTask \/ ExpireRoom
  <2>1. CASE StartExpiryTask
    <3>1. worker' \in [task : Connections \cup {"expiry"}, step : {"started", "closing"}]
      BY <2>1 DEF StartExpiryTask
    <3> QED BY <2>1, <3>1 DEF StartExpiryTask
  <2>2. CASE ExpireRoom
    BY <2>2 DEF ExpireRoom
  <2> QED BY <1>10, <2>1, <2>2
<1>11. CASE PublishRoomClosed \/ \E p \in Participants : PublishParticipantLeft(p)
  BY <1>11 DEF PublishRoomClosed, PublishParticipantLeft, CloseSessions
<1>12. ASSUME NEW p \in Participants, Join(p) \/ Leave(p) \/ LapsePresenceKey(p)
       PROVE  TypeOK'
  BY <1>12 DEF Join, Leave, LapsePresenceKey
<1>13. CASE CloseByHost \/ ReachExpiry
  BY <1>13 DEF CloseByHost, ReachExpiry
<1>14. CASE Crash
  <2>1. pc' \in [Connections -> Steps]
    BY <1>14 DEF Crash
  <2>2. /\ emptied' \in [Connections -> Connections \cup {None}]
        /\ current' \in [Participants -> Connections \cup {None}]
    BY <1>14 DEF Crash
  <2>3. /\ open' \subseteq Connections /\ returning' \subseteq Connections
        /\ grace' \subseteq Connections /\ pending' \subseteq Participants \cup {"room.closed"}
        /\ sessions' = None /\ graceTask' = None /\ worker' = None /\ expiryTask' \in BOOLEAN
    BY <1>14 DEF Crash
  <2>4. due' \in BOOLEAN /\ crashes' \in Nat
    BY <1>14 DEF Crash
  <2> QED BY <2>1, <2>2, <2>3, <2>4
<1>15. CASE UNCHANGED wsVars
  BY <1>15 DEF wsVars
<1> QED
  BY <1>1, <1>2, <1>3, <1>4, <1>5, <1>6, <1>7, <1>8, <1>9, <1>10, <1>11, <1>12, <1>13, <1>14,
     <1>15 DEF Next, Callback, Task, Publish

\* Callbacks go on, but none of them tells the store that its connection is
\* gone and no process stops.
Onward ==
    /\ crashes' = crashes
    /\ \A c \in Connections :
          /\ pc[c] \in Connected \cup {"lost"} => pc'[c] \in Connected \cup {"lost"}
          /\ pc[c] \in Working => pc'[c] \in Working
          /\ pc'[c] \in Gone => pc[c] \in Gone
          /\ pc'[c] = "lost" => pc[c] = "lost"

\* Every step but a close callback's disconnect and a restart moves the callbacks onward.
LEMMA OnwardStep ==
    ASSUME IInv, [Next]_wsVars
    PROVE  Onward \/ Crash \/ \E c \in Connections : Disconnect(c)
<1> USE DEF IInv, TypeOK, outside, tables, timers, Go, Connected, Working, Gone, Mapped, InSet,
            Onward
<1>1. ASSUME NEW c \in Connections,
             \/ Handshake(c) \/ Connect(c) \/ Register(c) \/ CancelTimer(c) \/ RecoverHost(c)
             \/ Greet(c) \/ Heartbeat(c) \/ Chat(c) \/ Drop(c)
      PROVE  Onward
  BY <1>1 DEF Handshake, Connect, Register, CancelTimer, RecoverHost, Greet, Heartbeat, Chat,
              Drop
<1>2. ASSUME NEW c \in Connections, Unregister(c) \/ Unmap(c)
      PROVE  Onward
  BY <1>2 DEF Unregister, Unmap
<1>3. ASSUME NEW c \in Connections, MarkHostDisconnected(c) \/ ScheduleHostReconnect(c)
      PROVE  Onward
  BY <1>3 DEF MarkHostDisconnected, ScheduleHostReconnect
<1>4. CASE Task \/ Publish
  BY <1>4 DEF Task, Publish, StartGraceTask, ForgetGraceTask, CloseAbandonedRoom,
              StartExpiryTask, ExpireRoom, PublishRoomClosed, PublishParticipantLeft
<1>5. CASE (\E p \in Participants : Join(p) \/ Leave(p) \/ LapsePresenceKey(p)) \/ CloseByHost
             \/ ReachExpiry
  BY <1>5 DEF Join, Leave, LapsePresenceKey, CloseByHost, ReachExpiry
<1>6. CASE UNCHANGED wsVars
  BY <1>6 DEF wsVars
<1> QED
  BY <1>1, <1>2, <1>3, <1>4, <1>5, <1>6 DEF Next, Callback

\* Only the open callback enters a connection into the tables, the close
\* callback takes it out of the set before it leaves "serving" and out of the
\* entry before it has finished.
LEMMA TablesStep ==
    ASSUME IInv, [Next]_wsVars
    PROVE  TablesLive'
<1> USE ScriptsAssumption, WebSocketAssumption
        DEF IInv, TypeOK, TablesLive, Registered, Go, Mapped, InSet
<1>1. ASSUME NEW c \in Connections, Register(c)
      PROVE  TablesLive'
  <2>1. \A d \in Connections : d \in Registered' => d = c \/ d \in Registered
    BY <1>1 DEF Register
  <2>2. pc'[c] \in InSet
    BY <1>1 DEF Register
  <2>3. \A d \in Connections : d # c => pc'[d] = pc[d]
    BY <1>1 DEF Register
  <2>4. \A d \in Connections : current'[Owner[d]] = d => d = c \/ current[Owner[d]] = d
    BY <1>1 DEF Register
  <2> QED BY <2>1, <2>2, <2>3, <2>4
<1>2. ASSUME NEW c \in Connections, Unregister(c)
      PROVE  TablesLive'
  <2>1. \A d \in Connections : d \in Registered' => d # c /\ d \in Registered
    BY <1>2 DEF Unregister
  <2>2. pc'[c] \in Mapped
    BY <1>2 DEF Unregister
  <2>3. \A d \in Connections : d # c => pc'[d] = pc[d]
    BY <1>2 DEF Unregister
  <2>4. current' = current
    BY <1>2 DEF Unregister
  <2> QED BY <2>1, <2>2, <2>3, <2>4
<1>3. ASSUME NEW c \in Connections, Unmap(c)
      PROVE  TablesLive'
  <2>1. \A d \in Connections : d \in Registered' => d \in Registered
    BY <1>3 DEF Unmap
  <2> QED BY <1>3, <2>1 DEF Unmap
<1>4. ASSUME NEW c \in Connections, Disconnect(c)
      PROVE  TablesLive'
  <2>1. current'[Owner[c]] # c
    BY <1>4 DEF Disconnect, RemoveEntry
  <2>2. \A d \in Connections : current'[Owner[d]] = d => current[Owner[d]] = d
    BY <1>4 DEF Disconnect, RemoveEntry
  <2>3. \A d \in Connections : d # c => pc'[d] = pc[d]
    BY <1>4 DEF Disconnect
  <2>4. pc[c] = "disconnect" /\ Registered' = Registered
    BY <1>4 DEF Disconnect
  <2> QED BY <2>1, <2>2, <2>3, <2>4
<1>5. CASE Crash
  BY <1>5 DEF Crash
<1>6. ASSUME NEW c \in Connections,
             \/ Handshake(c) \/ Connect(c) \/ CancelTimer(c) \/ RecoverHost(c) \/ Greet(c)
             \/ Heartbeat(c) \/ Chat(c) \/ Drop(c)
             \/ MarkHostDisconnected(c) \/ ScheduleHostReconnect(c)
      PROVE  TablesLive'
  BY <1>6 DEF Handshake, Connect, CancelTimer, RecoverHost, Greet, Heartbeat, Chat, Drop,
              MarkHostDisconnected, ScheduleHostReconnect, tables
<1>7. CASE Task \/ Publish
  BY <1>7 DEF Task, Publish, StartGraceTask, ForgetGraceTask, CloseAbandonedRoom,
              StartExpiryTask, ExpireRoom, PublishRoomClosed, PublishParticipantLeft, tables
<1>8. CASE (\E p \in Participants : Join(p) \/ Leave(p) \/ LapsePresenceKey(p)) \/ CloseByHost
             \/ ReachExpiry
  BY <1>8 DEF Join, Leave, LapsePresenceKey, CloseByHost, ReachExpiry, tables
<1>9. CASE UNCHANGED wsVars
  BY <1>9 DEF wsVars
<1> QED
  BY <1>1, <1>2, <1>3, <1>4, <1>5, <1>6, <1>7, <1>8, <1>9 DEF Next, Callback

-----------------------------------------------------------------------------
(***************************************************************************)
(* Who is shown and who holds a key                                        *)
(***************************************************************************)

\* The close callback gives back the key its connection holds and takes its
\* participant off, unless another connection holds the key: then that one is
\* at work, as no restart has cut it off.
LEMMA DisconnectPresence ==
    ASSUME IInv, NEW c \in Connections, Disconnect(c), StoreInv', Quieter(store, store')
    PROVE  KeyHeld' /\ ShownHasWorker'
<1> USE ScriptsAssumption, WebSocketAssumption DEF IInv, TypeOK, Go
<1> DEFINE p == Owner[c]
           s == DisconnectAfter(store, p, c)
<1>1. p \in Participants /\ store \in Store /\ store.present
  BY DEF StoreInv, Consistent
<1>2. /\ pc[c] = "disconnect" /\ pc'[c] \in {"mark", "done"}
      /\ \A d \in Connections \ {c} : pc'[d] = pc[d]
      /\ crashes' = crashes
  BY DEF Disconnect, outside
<1>3. store'.presence = s.presence /\ store'.online = s.online
  BY <1>1, DisconnectShape, ShownOfflineSafe, StoredAs DEF Disconnect, TellStore, StoreInv
<1>4. CASE store.presence[p] \in {None, c}
  <2>1. store'.presence[p] = None /\ p \notin store'.online
    <3>1. CASE p \in store.members
      BY <1>1, <1>3, <1>4, <3>1 DEF DisconnectAfter, DisconnectOutcome, Store
    <3>2. CASE p \notin store.members
      <4>1. p \notin store.online /\ store.presence[p] = None
        BY <1>1, <3>2 DEF StoreInv, Consistent, RosterOf, PresenceOf
      <4> QED BY <1>1, <4>1 DEF Quieter
    <3> QED BY <3>1, <3>2
  <2>2. \A q \in Participants : store'.presence[q] # None
            => store'.presence[q] = store.presence[q] /\ store.presence[q] # c
    BY <2>1 DEF Quieter, KeyHeld
  <2>3. KeyHeld'
    BY <1>2, <2>2 DEF KeyHeld, Connected, Mapped, InSet
  <2>4. ASSUME crashes' = 0
        PROVE  \A d \in Connections : pc'[d] # "lost"
    BY <1>2, <2>4 DEF ShownHasWorker
  <2>5. ASSUME crashes' = 0, NEW q \in store'.online, NEW d \in Connections, Owner[d] = q,
               pc'[d] \in Gone
        PROVE  \E e \in Connections : Owner[e] = q /\ pc'[e] \in Working
    <3>1. q # p /\ q \in store.online /\ d # c
      BY <2>1, <2>5 DEF Quieter
    <3>2. PICK e \in Connections : Owner[e] = q /\ pc[e] \in Working
      BY <1>2, <2>5, <3>1 DEF ShownHasWorker
    <3> QED BY <1>2, <3>1, <3>2
  <2> QED BY <2>3, <2>4, <2>5 DEF ShownHasWorker
<1>5. CASE store.presence[p] \notin {None, c}
  <2> DEFINE h == store.presence[p]
  <2>1. h \in Connections /\ Owner[h] = p /\ pc[h] \in Connected \cup {"lost"} /\ h # c
    BY <1>1, <1>5 DEF KeyHeld
  <2>2. store'.presence = store.presence /\ store'.online = store.online
    BY <1>3, <1>5 DEF DisconnectAfter, DisconnectOutcome
  <2>3. \A q \in Participants : store.presence[q] = c => q = p
    BY <1>2 DEF KeyHeld
  <2>4. KeyHeld'
    BY <1>2, <1>5, <2>2, <2>3 DEF KeyHeld
  <2>5. ASSUME crashes' = 0
        PROVE  \A d \in Connections : pc'[d] # "lost"
    BY <1>2, <2>5 DEF ShownHasWorker
  <2>6. ASSUME crashes' = 0
        PROVE  pc'[h] \in Working
    BY <1>2, <2>1, <2>6 DEF ShownHasWorker, Working
  <2>7. ASSUME crashes' = 0, NEW q \in store'.online, NEW d \in Connections, Owner[d] = q,
               pc'[d] \in Gone
        PROVE  \E e \in Connections : Owner[e] = q /\ pc'[e] \in Working
    <3>1. CASE q = p
      BY <2>1, <2>6, <2>7, <3>1
    <3>2. CASE q # p
      <4>1. PICK e \in Connections : Owner[e] = q /\ pc[e] \in Working
        BY <1>2, <2>2, <2>7, <3>2 DEF ShownHasWorker
      <4> QED BY <1>2, <3>2, <4>1
    <3> QED BY <3>1, <3>2
  <2> QED BY <2>4, <2>5, <2>7 DEF ShownHasWorker
<1> QED BY <1>4, <1>5

\* Every step keeps what is known of keys and of those who are shown.
LEMMA PresenceStep ==
    ASSUME IInv, [Next]_wsVars
    PROVE  KeyHeld' /\ ShownHasWorker'
<1> USE ScriptsAssumption, WebSocketAssumption
<1>1. StoreInv' /\ Effect
  BY StoreStep
<1>2. ASSUME NEW c \in Connections, Disconnect(c)
      PROVE  KeyHeld' /\ ShownHasWorker'
  <2>1. Quieter(store, store')
    BY <1>1, <1>2 DEF Effect, Disconnect, Join, Connect, Heartbeat, IInv, TypeOK, Go
  <2> QED BY <1>1, <1>2, <2>1, DisconnectPresence
<1>3. CASE Crash
  <2>1. store' = store /\ crashes' # 0
    BY <1>3 DEF Crash, IInv, TypeOK
  <2>2. \A c \in Connections : pc[c] \in Connected \cup {"lost"} => pc'[c] = "lost"
    BY <1>3 DEF Crash, Connected, Mapped, InSet
  <2> QED BY <2>1, <2>2 DEF IInv, KeyHeld, ShownHasWorker
<1>4. CASE Onward
  <2>1. CASE Quieter(store, store')
    BY <1>4, <2>1 DEF Onward, Quieter, IInv, KeyHeld, ShownHasWorker
  <2>2. ASSUME NEW p \in Participants, Join(p), store'.online = store.online \cup {p},
               store'.presence = store.presence
        PROVE  KeyHeld' /\ ShownHasWorker'
    <3>1. \A c \in Connections : Owner[c] = p => pc'[c] \notin Gone
      BY <2>2 DEF Join, Gone
    <3> QED BY <1>4, <2>2, <3>1 DEF Onward, IInv, KeyHeld, ShownHasWorker
  <2>3. ASSUME NEW c \in Connections, pc'[c] \in Connected, Shows(c)
        PROVE  KeyHeld' /\ ShownHasWorker'
    <3>1. \A p \in Participants : store'.presence[p] =
             IF p = Owner[c] THEN c ELSE store.presence[p]
      BY <2>3 DEF Shows, IInv, TypeOK, Store
    <3>2. KeyHeld'
      BY <1>4, <2>3, <3>1 DEF Onward, IInv, KeyHeld
    <3>3. ShownHasWorker'
      BY <1>4, <2>3 DEF Onward, IInv, ShownHasWorker, Shows, Working
    <3> QED BY <3>2, <3>3
  <2> QED BY <1>1, <2>1, <2>2, <2>3 DEF Effect
<1> QED BY <1>2, <1>3, <1>4, OnwardStep

-----------------------------------------------------------------------------
(***************************************************************************)
(* The theorems                                                            *)
(***************************************************************************)

\* The handler starts with its invariant.
LEMMA InitIInv == Init => IInv
<1> SUFFICES ASSUME Init PROVE IInv
  OBVIOUS
<1> USE ScriptsAssumption, WebSocketAssumption DEF Init
<1>1. StoreInv
  BY NewRoomConsistent DEF StoreInv, NewRoom
<1>2. \A p \in Participants : store.presence[p] = None
  BY DEF NewRoom
<1>3. TypeOK
  BY <1>1 DEF TypeOK, StoreInv, Consistent, Steps
<1>4. KeyHeld /\ TablesLive /\ ShownHasWorker
  BY <1>2, <1>3 DEF KeyHeld, TablesLive, ShownHasWorker, Registered, TypeOK, Gone
<1> QED BY <1>1, <1>3, <1>4 DEF IInv

\* IInv holds in every state.
LEMMA InvariantIInv == Spec => []IInv
<1>1. IInv /\ [Next]_wsVars => IInv'
  BY StoreStep, TypeStep, TablesStep, PresenceStep DEF IInv
<1> QED BY <1>1, InitIInv, PTL DEF Spec

\* The handler's tables, its timers and the store keep their types.
THEOREM TypeCorrect == Spec => []TypeOK
BY InvariantIInv, PTL DEF IInv

\* The handler never uses the scripts in a way that leaves an inconsistent
\* room, restarts between two of its steps included: seats, the limit, who is
\* online, keys and the remembered status agree.
THEOREM StoreTheorem == Spec => []Consistent(store)
<1>1. IInv => Consistent(store)
  BY DEF IInv, StoreInv
<1> QED BY <1>1, InvariantIInv, PTL

\* No key is left to a connection whose close callback has finished.
THEOREM StalePresenceTheorem == Spec => []NoStalePresence
<1>1. IInv => NoStalePresence
  BY DEF IInv, KeyHeld, NoStalePresence, Connected, Mapped, InSet
<1> QED BY <1>1, InvariantIInv, PTL

\* Nobody is shown online by connections that have all finished, as long as no
\* restart has cut a connection off.
THEOREM GhostTheorem == Spec => [](crashes = 0 => NoGhost)
<1>1. IInv => (crashes = 0 => NoGhost)
  <2> SUFFICES ASSUME IInv, crashes = 0, NEW p \in store.online,
                      NEW d \in Connections, Owner[d] = p, pc[d] = "done"
               PROVE  \E c \in Connections : Owner[c] = p /\ pc[c] \notin {"unused", "done", "lost"}
    BY DEF NoGhost
  <2>1. PICK c \in Connections : Owner[c] = p /\ pc[c] \in Working
    BY DEF IInv, ShownHasWorker, Gone
  <2> QED BY <2>1 DEF Working, Connected, Mapped, InSet
<1> QED BY <1>1, InvariantIInv, PTL

\* The tables keep nothing of a connection whose callbacks have finished.
THEOREM LeakTheorem == Spec => []NoLeakedSession
<1>1. IInv => NoLeakedSession
  BY DEF IInv, TablesLive, NoLeakedSession, Mapped, InSet
<1> QED BY <1>1, InvariantIInv, PTL

\* No callback, task or request that was under way when the room ended changes
\* its status, its participants or who is shown online.
THEOREM EndTheorem == Spec => [][EndStays]_wsVars
<1>1. IInv /\ [Next]_wsVars => [EndStays]_wsVars
  BY StoreStep DEF Lawful
<1> QED BY <1>1, InvariantIInv, PTL DEF Spec

\* A new room starts the abstract life.
LEMMA InitLifecycle == Init => Lifecycle!Init
BY DEF Init, NewRoom, Lifecycle!Init, PhaseOf, ActiveStatuses

\* The handler, its tasks and the REST requests implement the abstract room,
\* however they interleave and however often the process is restarted.
THEOREM LifecycleTheorem == Spec => ImplementsLifecycle
<1>1. IInv /\ [Next]_wsVars => [Lifecycle!Next]_(Lifecycle!lifecycleVars)
  BY StoreStep DEF Lawful, LifeGoesOn
<1> QED
  BY <1>1, InitLifecycle, InvariantIInv, PTL DEF Spec, ImplementsLifecycle, Lifecycle!Spec

=============================================================================
