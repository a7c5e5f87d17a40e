-------------------------- MODULE RoomEventsProofs --------------------------
(***************************************************************************)
(* What a client is told of a room is exact, for every set of participants *)
(* and connections, every seat limit and every bound on the version.       *)
(*                                                                         *)
(* The argument is about events: each one describes the step from the room *)
(* before its version to the room at its version, whatever the client      *)
(* already knows of the latter, and stays true while it is under way since *)
(* the history of a room only grows.                                       *)
(***************************************************************************)
EXTENDS RoomEvents, RoomScriptsProofs

-----------------------------------------------------------------------------
(***************************************************************************)
(* The inductive invariant                                                 *)
(***************************************************************************)

\* Two rooms that a client cannot tell apart but for the host's presence.
Agree(a, b) ==
    /\ a.status = b.status
    /\ a.members = b.members
    /\ a.online \ {Host} = b.online \ {Host}

StatusEvents == {"room.closed", "host.disconnected", "host.reconnected"}

\* Applied to the room a, or once more to b, the event e gives b; only
\* room.closed ends a room.
Describes(e, a, b) ==
    /\ b.status = IF e.type \in StatusEvents THEN e.status ELSE a.status
    /\ b.members = MembersAfter(a, e) /\ b.members = MembersAfter(b, e)
    /\ b.online \ {Host} = OnlineAfter(a, e) \ {Host}
    /\ b.online \ {Host} = OnlineAfter(b, e) \ {Host}
    /\ e.type # "room.closed" => b.status \notin TerminalStatuses

\* The event describes a step of the history l.
Told(l, e) ==
    /\ e \in Events
    /\ e.version \in 1 .. (Len(l) - 1)
    /\ Describes(e, l[e.version], l[e.version + 1])

AllTold(l, q) == q \in Seq(Events) /\ \A i \in 1 .. Len(q) : Told(l, q[i])

StoreInv ==
    /\ Consistent(store)
    /\ store.present
    /\ \A p \in Participants : store.presence[p] \in {None, Conn}

LogInv ==
    /\ log \in Seq(Snapshots)
    /\ Len(log) = store.version + 1
    /\ log[store.version + 1] = Snapshot(store)
    /\ \A i \in 1 .. store.version : log[i].status \notin TerminalStatuses

EventsInv ==
    /\ \A q \in outbox : q # <<>> /\ AllTold(log, q)
    /\ arriving # None => AllTold(log, arriving.owes)
    /\ leaving \in Nat \cup {None}

\* The client has seen no version the room has not had; a session that is not
\* open yet is owed a room that it had and that was not ended, and a client that
\* shows the end shows the room as the store has it.
ClientInv ==
    /\ link \in {"off", "connected", "registered", "open"}
    /\ greeting \in Snapshots \cup {None}
    /\ view \in Snapshots /\ view.version <= store.version
    /\ contiguous \in BOOLEAN
    /\ link \in {"connected", "registered"} =>
          /\ greeting \in Snapshots /\ greeting.version <= store.version
          /\ greeting = log[greeting.version + 1]
          /\ greeting.status \notin TerminalStatuses
    /\ view.status \in TerminalStatuses =>
          view.version = store.version /\ view.status = store.status /\ view.online = {}

IInv == StoreInv /\ LogInv /\ EventsInv /\ ClientInv /\ ContiguousViewIsExact

-----------------------------------------------------------------------------
(***************************************************************************)
(* Events describe what the scripts do                                     *)
(***************************************************************************)

\* A snapshot has its type.
LEMMA SnapshotType ==
    ASSUME NEW s \in Store
    PROVE  Snapshot(s) \in Snapshots
BY DEF Store, Snapshot, Snapshots

\* An event has its type.
LEMMA EventType ==
    ASSUME NEW s \in Store, NEW type \in EventTypes, NEW who \in Participants \cup {None}
    PROVE  Event(type, s, who) \in Events
BY DEF Store, Event, Events

\* The event of a join says what the join changed.
LEMMA JoinedDescribes ==
    ASSUME NEW s \in Store, NEW t, NEW p, SeatTaken(s, t, p)
    PROVE  Describes(Event("participant.joined", t, p), Snapshot(s), Snapshot(t))
BY StatusesDisjoint
DEF SeatTaken, Describes, Event, Snapshot, MembersAfter, OnlineAfter, StatusEvents

\* The event of a leave says what the leave changed.
LEMMA LeftDescribes ==
    ASSUME NEW s \in Store, NEW t, NEW p, SeatGivenUp(s, t, p)
    PROVE  Describes(Event("participant.left", t, p), Snapshot(s), Snapshot(t))
BY StatusesDisjoint
DEF SeatGivenUp, Describes, Event, Snapshot, MembersAfter, OnlineAfter, StatusEvents

\* The event of an ending says what the ending changed.
LEMMA ClosedDescribes ==
    ASSUME NEW s \in Store, NEW t, NEW status, Ended(s, t, status)
    PROVE  Describes(Event("room.closed", t, None), Snapshot(s), Snapshot(t))
BY DEF Ended, Describes, Event, Snapshot, MembersAfter, OnlineAfter, StatusEvents

\* The event of a lost host says what the loss changed.
LEMMA LostDescribes ==
    ASSUME NEW s \in Store, NEW t, HostLost(s, t)
    PROVE  Describes(Event("host.disconnected", t, Host), Snapshot(s), Snapshot(t))
BY StatusesDisjoint
DEF HostLost, Describes, Event, Snapshot, MembersAfter, OnlineAfter, StatusEvents

\* The event of a host that is back says what its return changed.
LEMMA RegainedDescribes ==
    ASSUME NEW s \in Store, NEW t, HostRegained(s, t)
    PROVE  Describes(Event("host.reconnected", t, Host), Snapshot(s), Snapshot(t))
BY StatusesDisjoint
DEF HostRegained, Describes, Event, Snapshot, MembersAfter, OnlineAfter, StatusEvents

\* The event of a change of presence says what it changed.
LEMMA OnlineDescribes ==
    ASSUME NEW s \in Store, NEW t, NEW p, NEW c, ShownOnline(s, t, p, c)
    PROVE  Describes(Presence(t, p), Snapshot(s), Snapshot(t))
BY StatusesDisjoint
DEF ShownOnline, Describes, Presence, Event, Snapshot, MembersAfter, OnlineAfter, StatusEvents

\* Nobody is taken off in an ended room, where nobody is shown.
LEMMA OfflineDescribes ==
    ASSUME NEW s, Consistent(s), NEW t, NEW p, ShownOffline(s, t, p), p \in s.online
    PROVE  Describes(Presence(t, p), Snapshot(s), Snapshot(t))
<1>1. s.status \notin TerminalStatuses
  BY DEF Consistent, EmptyWhenEnded
<1>2. /\ t.status = s.status /\ t.members = s.members
      /\ t.online = s.online \ {p} /\ t.version = s.version + 1
  BY DEF ShownOffline
<1>3. Presence(t, p) = Event("participant.offline", t, p)
  BY <1>2 DEF Presence
<1> QED
  BY <1>1, <1>2, <1>3 DEF Describes, Event, Snapshot, MembersAfter, OnlineAfter, StatusEvents

\* The event does not depend on what the client makes of the host's presence.
LEMMA SameAfter ==
    ASSUME NEW a, NEW b, Agree(a, b), NEW e
    PROVE  /\ MembersAfter(a, e) = MembersAfter(b, e)
           /\ OnlineAfter(a, e) \ {Host} = OnlineAfter(b, e) \ {Host}
BY DEF Agree, MembersAfter, OnlineAfter

\* A client that agrees with the room before or at the version of an event
\* agrees with the room at that version afterwards.
LEMMA ApplyAgrees ==
    ASSUME NEW e, NEW a, NEW b, Describes(e, a, b), NEW room, Agree(room, a) \/ Agree(room, b),
           ~(e.version < room.version)
    PROVE  Agree(Apply(room, e), b) /\ Apply(room, e).version = e.version
<1>1. /\ Apply(room, e).version = e.version
      /\ Apply(room, e).status = IF e.type \in StatusEvents THEN e.status ELSE room.status
      /\ Apply(room, e).members = MembersAfter(room, e)
      /\ Apply(room, e).online = OnlineAfter(room, e)
  BY DEF Apply, StatusEvents
<1>2. CASE Agree(room, a)
  <2>1. /\ MembersAfter(room, e) = MembersAfter(a, e)
        /\ OnlineAfter(room, e) \ {Host} = OnlineAfter(a, e) \ {Host}
    BY <1>2, SameAfter
  <2> QED BY <1>1, <1>2, <2>1 DEF Agree, Describes
<1>3. CASE Agree(room, b)
  <2>1. /\ MembersAfter(room, e) = MembersAfter(b, e)
        /\ OnlineAfter(room, e) \ {Host} = OnlineAfter(b, e) \ {Host}
    BY <1>3, SameAfter
  <2> QED BY <1>1, <1>3, <2>1 DEF Agree, Describes
<1> QED BY <1>2, <1>3

-----------------------------------------------------------------------------
(***************************************************************************)
(* The history grows, and what was told of it stays told                   *)
(***************************************************************************)

Continues(l, m) ==
    /\ Len(l) <= Len(m)
    /\ \A i \in 1 .. Len(l) : m[i] = l[i]

\* An event that was true of the history stays so when the history grows.
LEMMA ToldStays ==
    ASSUME NEW l \in Seq(Snapshots), NEW m \in Seq(Snapshots), Continues(l, m),
           NEW e, Told(l, e)
    PROVE  Told(m, e)
<1>1. e.version \in 1 .. (Len(m) - 1)
  BY DEF Told, Continues
<1>2. m[e.version] = l[e.version] /\ m[e.version + 1] = l[e.version + 1]
  BY DEF Told, Continues
<1> QED BY <1>1, <1>2 DEF Told

\* So do all the events of a queue.
LEMMA AllToldStays ==
    ASSUME NEW l \in Seq(Snapshots), NEW m \in Seq(Snapshots), Continues(l, m),
           NEW q, AllTold(l, q)
    PROVE  AllTold(m, q)
BY ToldStays DEF AllTold

\* A queue of one event.
LEMMA AllToldOne ==
    ASSUME NEW l, NEW e, Told(l, e)
    PROVE  AllTold(l, <<e>>) /\ <<e>> # <<>>
BY DEF AllTold, Told

\* The empty queue.
LEMMA AllToldNone ==
    ASSUME NEW l
    PROVE  AllTold(l, <<>>)
BY DEF AllTold

\* A queue made of two.
LEMMA AllToldBoth ==
    ASSUME NEW l, NEW q, AllTold(l, q), NEW r, AllTold(l, r)
    PROVE  AllTold(l, q \o r)
BY DEF AllTold

\* What is left of a queue when its first event has been read.
LEMMA AllToldTail ==
    ASSUME NEW l, NEW q, AllTold(l, q), q # <<>>
    PROVE  Told(l, Head(q)) /\ AllTold(l, Tail(q))
BY DEF AllTold

\* A script moves the history on by the room it leaves, or not at all.
LEMMA RunStep ==
    ASSUME StoreInv, LogInv, NEW s, Consistent(s), Follows(store, s), Run(s)
    PROVE  /\ store' = s
           /\ LogInv' /\ Continues(log, log')
           /\ store.version <= s.version
           /\ s.version > store.version =>
                 /\ s.version = store.version + 1
                 /\ log'[s.version] = Snapshot(store)
                 /\ log'[s.version + 1] = Snapshot(s)
<1>1. /\ store \in Store /\ s \in Store
      /\ store.version \in Nat /\ s.version \in Nat
  BY DEF StoreInv, Consistent, Store
<1>2. store' = s
  BY DEF Run
<1>3. CASE s.version > store.version
  <2>1. log' = Append(log, Snapshot(s)) /\ Snapshot(s) \in Snapshots
    BY <1>1, <1>3, SnapshotType DEF Run
  <2>2. s.version = store.version + 1
    BY <1>1, <1>3 DEF Follows, VersionFollows
  <2>3. /\ log' \in Seq(Snapshots) /\ Len(log') = Len(log) + 1
        /\ \A i \in 1 .. Len(log) : log'[i] = log[i]
        /\ log'[Len(log) + 1] = Snapshot(s)
    BY <2>1 DEF LogInv
  <2>4. store.status \notin TerminalStatuses
    BY <1>1, <1>3 DEF Follows, EndIsFinal
  <2>5. \A i \in 1 .. s.version : log'[i].status \notin TerminalStatuses
    <3>1. log[store.version + 1].status = store.status
      BY DEF LogInv, Snapshot
    <3> QED BY <1>1, <2>2, <2>3, <2>4, <3>1 DEF LogInv
  <2> QED BY <1>1, <1>2, <2>2, <2>3, <2>5 DEF LogInv, Continues
<1>4. CASE ~(s.version > store.version)
  <2>1. log' = log
    BY <1>4 DEF Run
  <2>2. s.version = store.version /\ Visible(s) = Visible(store)
    BY <1>1, <1>4 DEF Follows, VersionFollows
  <2>3. Snapshot(s) = Snapshot(store)
    BY <2>2 DEF Snapshot, Visible
  <2> QED BY <1>1, <1>2, <2>1, <2>2, <2>3 DEF LogInv, Continues
<1> QED BY <1>3, <1>4

\* The event about a script describes the step of the history it has made.
LEMMA NewEventTold ==
    ASSUME StoreInv, LogInv, NEW s, Consistent(s), Follows(store, s), Run(s),
           NEW e, e \in Events, e.version = s.version,
           s.version > store.version => Describes(e, Snapshot(store), Snapshot(s))
    PROVE  /\ AllTold(log', IfChanged(s, e))
           /\ s.version > store.version => AllTold(log', <<e>>)
<1>0. store.version \in Nat /\ s.version \in Nat
  BY DEF StoreInv, Consistent, Store
<1>1. CASE s.version > store.version
  <2>1. /\ s.version = store.version + 1 /\ Len(log') = s.version + 1
        /\ log'[s.version] = Snapshot(store) /\ log'[s.version + 1] = Snapshot(s)
    BY <1>1, RunStep DEF LogInv
  <2>2. Told(log', e)
    BY <1>0, <1>1, <2>1 DEF Told
  <2> QED BY <1>1, <2>2, AllToldOne DEF IfChanged
<1>2. CASE ~(s.version > store.version)
  BY <1>2, AllToldNone DEF IfChanged
<1> QED BY <1>1, <1>2

\* A thread adds its events to those under way, which the history still bears out.
LEMMA OwesStep ==
    ASSUME LogInv, LogInv', Continues(log, log'), EventsInv,
           NEW events, AllTold(log', events), Owes(events)
    PROVE  \A q \in outbox' : q # <<>> /\ AllTold(log', q)
BY AllToldStays DEF LogInv, EventsInv, Owes

\* An event on its way stays true when the history grows.
LEMMA ArrivingStays ==
    ASSUME LogInv, LogInv', Continues(log, log'), EventsInv, arriving # None
    PROVE  AllTold(log', arriving.owes)
BY AllToldStays DEF LogInv, EventsInv

\* A client that receives nothing keeps what it has, whatever the scripts do.
LEMMA ClientStays ==
    ASSUME IInv, StoreInv', LogInv', Continues(log, log'), UNCHANGED client
    PROVE  ClientInv' /\ ContiguousViewIsExact'
<1>1. /\ link' = link /\ greeting' = greeting /\ view' = view /\ contiguous' = contiguous
  BY DEF client
<1>2. \A v \in Nat : v <= store.version =>
         v <= store'.version /\ log'[v + 1] = log[v + 1]
  BY DEF IInv, LogInv, Continues, StoreInv, Consistent, Store
<1>3. view.version \in Nat /\ (greeting \in Snapshots => greeting.version \in Nat)
  BY DEF IInv, ClientInv, Snapshots
<1>6. store.status \in TerminalStatuses =>
         store'.version = store.version /\ store'.status = store.status
  <2>1. /\ store.version \in Nat /\ store'.version \in Nat
        /\ store.version + 1 <= store'.version + 1
        /\ log'[store.version + 1] = log[store.version + 1]
    BY DEF IInv, StoreInv, LogInv, Consistent, Store, Continues
  <2>2. log[store.version + 1].status = store.status
    BY DEF IInv, LogInv, Snapshot
  <2>3. log'[store'.version + 1].status = store'.status
    BY DEF LogInv, Snapshot
  <2>4. store.status \in TerminalStatuses => ~(store.version + 1 <= store'.version)
    BY <2>1, <2>2 DEF LogInv
  <2> QED BY <2>1, <2>2, <2>3, <2>4
<1>4. ClientInv'
  BY <1>1, <1>2, <1>3, <1>6 DEF IInv, ClientInv
<1>5. ContiguousViewIsExact'
  BY <1>1, <1>2, <1>3 DEF IInv, ClientInv, ContiguousViewIsExact
<1> QED BY <1>4, <1>5

-----------------------------------------------------------------------------
(***************************************************************************)
(* Steps                                                                   *)
(***************************************************************************)

\* What a script that the others' threads run establishes, whatever they owe.
LEMMA ScriptStep ==
    ASSUME IInv, NEW s, s.present,
           \A p \in Participants : s.presence[p] \in {None, Conn},
           Consistent(s), Follows(store, s), Run(s), UNCHANGED client
    PROVE  /\ StoreInv' /\ LogInv' /\ ClientInv' /\ ContiguousViewIsExact'
           /\ Continues(log, log')
<1>1. store' = s /\ LogInv' /\ Continues(log, log')
  BY RunStep DEF IInv
<1>2. StoreInv'
  BY <1>1 DEF StoreInv
<1> QED BY <1>1, <1>2, ClientStays

\* The same with one event, sent only if the script has changed the room.
LEMMA OneEventStep ==
    ASSUME IInv, NEW s, s.present,
           \A p \in Participants : s.presence[p] \in {None, Conn},
           Consistent(s), Follows(store, s), Run(s), UNCHANGED client,
           NEW e, e \in Events, e.version = s.version,
           s.version > store.version => Describes(e, Snapshot(store), Snapshot(s)),
           Owes(IfChanged(s, e)), UNCHANGED arriving, leaving' \in Nat \cup {None}
    PROVE  IInv'
<1>1. /\ StoreInv' /\ LogInv' /\ ClientInv' /\ ContiguousViewIsExact'
      /\ Continues(log, log')
  BY ScriptStep
<1>2. AllTold(log', IfChanged(s, e))
  BY NewEventTold DEF IInv
<1>3. \A q \in outbox' : q # <<>> /\ AllTold(log', q)
  BY <1>1, <1>2, OwesStep DEF IInv
<1>4. arriving' # None => AllTold(log', arriving'.owes)
  BY <1>1, ArrivingStays DEF IInv
<1> QED BY <1>1, <1>3, <1>4 DEF IInv, EventsInv

\* A room that has not changed follows itself.
LEMMA SameFollows ==
    ASSUME NEW s
    PROVE  Follows(s, s)
BY DEF Follows, VersionFollows, EndIsFinal

\* Room, history and client start with the invariant.
LEMMA InitIInv == Init => IInv
<1> SUFFICES ASSUME Init PROVE IInv
  OBVIOUS
<1> USE ScriptsAssumption, EventsAssumption
<1> DEFINE n == NewRoom
<1>1. /\ Consistent(n) /\ n \in Store /\ n.present /\ n.version = 0
      /\ n.members = {Host} /\ n.status = "CREATED"
      /\ \A p \in Participants : n.presence[p] = None
  BY NewRoomConsistent DEF NewRoom, Consistent
<1>2. store = JoinAfter(n, None, Viewer, FALSE)
  BY DEF Init
<1>15. log = <<Snapshot(n), Snapshot(store)>>
  BY DEF Init
<1>16. /\ outbox = {} /\ leaving = None /\ arriving = None
       /\ link = "off" /\ greeting = None /\ view = Snapshot(store)
  BY DEF Init
<1>17. contiguous \in BOOLEAN
  BY DEF Init
<1> HIDE DEF n
<1>3. JoinOutcome(n, None, FALSE) = "JOINED"
  <2>1. Cardinality(n.members) = 1
    BY <1>1, FS_Singleton
  <2> QED BY <1>1, <2>1 DEF JoinOutcome, Available, AvailableStatuses, ActiveStatuses
<1>4. SeatTaken(n, store, Viewer)
  <2>1. store = [n EXCEPT !.members = @ \cup {Viewer}, !.online = @ \cup {Viewer},
                         !.version = @ + 1]
    BY <1>2, <1>3 DEF JoinAfter
  <2>2. store.version = 1
    BY <1>1, <2>1 DEF Store
  <2>3. store = n \/ SeatTaken(n, store, Viewer)
    BY <1>1, <1>2, JoinShape
  <2> QED BY <1>1, <2>2, <2>3
<1>5. Consistent(store) /\ store \in Store
  BY <1>1, <1>4, SeatTakenSafe DEF Consistent
<1>6. /\ store.version = 1 /\ store.present /\ store.status = "CREATED"
      /\ store.presence = n.presence
  BY <1>1, <1>4 DEF SeatTaken
<1>7. Snapshot(n) \in Snapshots /\ Snapshot(store) \in Snapshots
  BY <1>1, <1>5, SnapshotType
<1>14. /\ log \in Seq(Snapshots) /\ Len(log) = 2 /\ log[2] = Snapshot(store)
       /\ log[1].status \notin TerminalStatuses
  BY <1>1, <1>7, <1>15 DEF Snapshot, TerminalStatuses
<1>8. StoreInv
  BY <1>1, <1>5, <1>6 DEF StoreInv
<1>9. LogInv
  BY <1>6, <1>14 DEF LogInv
<1>10. EventsInv
  BY <1>16 DEF EventsInv
<1>11. view.version = 1 /\ view.status = "CREATED"
  BY <1>6, <1>16 DEF Snapshot
<1>12. ClientInv
  <2>1. view.status \notin TerminalStatuses /\ link \notin {"connected", "registered"}
    BY <1>11, <1>16 DEF TerminalStatuses
  <2> QED BY <1>6, <1>7, <1>11, <1>16, <1>17, <2>1 DEF ClientInv
<1>13. ContiguousViewIsExact
  BY <1>11, <1>14, <1>16 DEF ContiguousViewIsExact
<1> QED BY <1>8, <1>9, <1>10, <1>12, <1>13 DEF IInv

\* One step per action that runs a script for the others.
LEMMA OthersStep ==
    ASSUME IInv, NEW p \in Participants, Join(p) \/ Leave(p) \/ Arrive(p) \/ Depart(p)
    PROVE  IInv'
<1> USE ScriptsAssumption, EventsAssumption
<1>0. /\ Consistent(store) /\ store \in Store /\ store.present
      /\ \A q \in Participants : store.presence[q] \in {None, Conn}
      /\ leaving \in Nat \cup {None}
      /\ Follows(store, store)
  BY SameFollows DEF IInv, StoreInv, Consistent, EventsInv
<1>1. CASE Join(p)
  <2> DEFINE s == JoinAfter(store, None, p, FALSE)
             e == Event("participant.joined", s, p)
  <2>1. /\ Run(s) /\ Owes(IfChanged(s, e)) /\ UNCHANGED client
        /\ UNCHANGED arriving /\ UNCHANGED leaving
    BY <1>1 DEF Join, hostThreads
  <2>2. p \notin store.members
    <3>1. store.version + 1 \in DOMAIN log /\ log[store.version + 1].members = store.members
      BY <1>0 DEF IInv, LogInv, Snapshot, Store
    <3> QED BY <1>1, <3>1 DEF Join
  <2>3. s = store \/ SeatTaken(store, s, p)
    BY <1>0, <2>2, JoinShape
  <2>4. e = Event("participant.joined", s, p)
    OBVIOUS
  <2> HIDE DEF s, e
  <2>5. Consistent(s) /\ s \in Store /\ Follows(store, s)
    BY <1>0, <2>3, SeatTakenSafe DEF Consistent
  <2>6. s.present /\ s.presence = store.presence
    BY <1>0, <2>3 DEF SeatTaken
  <2>7. e \in Events /\ e.version = s.version
    BY <2>4, <2>5, EventType DEF EventTypes, Event
  <2>8. s.version > store.version => Describes(e, Snapshot(store), Snapshot(s))
    BY <1>0, <2>3, <2>4, JoinedDescribes DEF Store
  <2> QED BY <1>0, <2>1, <2>5, <2>6, <2>7, <2>8, OneEventStep
<1>2. CASE Leave(p)
  <2> DEFINE s == LeaveAfter(store, p, FALSE)
             e == Event("participant.left", s, p)
  <2>1. /\ Run(s) /\ Owes(IfChanged(s, e)) /\ UNCHANGED client
        /\ UNCHANGED arriving /\ UNCHANGED leaving
    BY <1>2 DEF Leave, hostThreads
  <2>3. s = store \/ SeatGivenUp(store, s, p)
    BY <1>0, LeaveShape
  <2>4. e = Event("participant.left", s, p)
    OBVIOUS
  <2> HIDE DEF s, e
  <2>5. Consistent(s) /\ s \in Store /\ Follows(store, s)
    BY <1>0, <2>3, SeatGivenUpSafe DEF Consistent
  <2>6. s.present /\ \A q \in Participants : s.presence[q] \in {None, Conn}
    BY <1>0, <2>3 DEF SeatGivenUp, Store
  <2>7. e \in Events /\ e.version = s.version
    BY <2>4, <2>5, EventType DEF EventTypes, Event
  <2>8. s.version > store.version => Describes(e, Snapshot(store), Snapshot(s))
    BY <1>0, <2>3, <2>4, LeftDescribes DEF Store
  <2> QED BY <1>0, <2>1, <2>5, <2>6, <2>7, <2>8, OneEventStep
<1>3. CASE Arrive(p)
  <2> DEFINE s == ConnectAfter(store, p, Conn, FALSE)
             e == Presence(s, p)
  <2>1. /\ Run(s) /\ Owes(IfChanged(s, e)) /\ UNCHANGED client
        /\ UNCHANGED arriving /\ UNCHANGED leaving
    BY <1>3 DEF Arrive, hostThreads
  <2>3. s = store \/ ShownOnline(store, s, p, Conn)
    BY <1>0, ConnectShape
  <2>4. e = Presence(s, p)
    OBVIOUS
  <2> HIDE DEF s, e
  <2>5. Consistent(s) /\ s \in Store /\ Follows(store, s)
    BY <1>0, <2>3, ShownOnlineSafe DEF Consistent
  <2>6. s.present /\ \A q \in Participants : s.presence[q] \in {None, Conn}
    BY <1>0, <2>3 DEF ShownOnline, Store
  <2>7. e \in Events /\ e.version = s.version
    BY <2>4, <2>5, EventType DEF EventTypes, Presence, Event
  <2>8. s.version > store.version => Describes(e, Snapshot(store), Snapshot(s))
    BY <1>0, <2>3, <2>4, OnlineDescribes DEF Store
  <2> QED BY <1>0, <2>1, <2>5, <2>6, <2>7, <2>8, OneEventStep
<1>4. CASE Depart(p)
  <2> DEFINE s == DisconnectAfter(store, p, Conn)
             e == Presence(s, p)
  <2>1. /\ Run(s) /\ Owes(IfChanged(s, e)) /\ UNCHANGED client
        /\ UNCHANGED arriving /\ UNCHANGED leaving
    BY <1>4 DEF Depart, hostThreads
  <2>3. s = store \/ ShownOffline(store, s, p)
    BY <1>0, DisconnectShape
  <2>4. e = Presence(s, p)
    OBVIOUS
  <2> HIDE DEF s, e
  <2>5. Consistent(s) /\ s \in Store /\ Follows(store, s)
    BY <1>0, <2>3, ShownOfflineSafe DEF Consistent
  <2>6. s.present /\ \A q \in Participants : s.presence[q] \in {None, Conn}
    BY <1>0, <2>3 DEF ShownOffline, Store
  <2>7. e \in Events /\ e.version = s.version
    BY <2>4, <2>5, EventType DEF EventTypes, Presence, Event
  <2>8. s.version > store.version => ShownOffline(store, s, p) /\ p \in store.online
    BY <1>0, <2>3 DEF ShownOffline, Store
  <2>9. s.version > store.version => Describes(e, Snapshot(store), Snapshot(s))
    BY <1>0, <2>4, <2>8, OfflineDescribes
  <2> QED BY <1>0, <2>1, <2>5, <2>6, <2>7, <2>9, OneEventStep
<1> QED BY <1>1, <1>2, <1>3, <1>4

\* The room ends.
LEMMA EndStep ==
    ASSUME IInv, End
    PROVE  IInv'
<1> USE ScriptsAssumption, EventsAssumption
<1>0. /\ Consistent(store) /\ store \in Store /\ store.present
      /\ \A q \in Participants : store.presence[q] \in {None, Conn}
      /\ leaving \in Nat \cup {None}
      /\ Follows(store, store)
  BY SameFollows DEF IInv, StoreInv, Consistent, EventsInv
<1>1. PICK s \in {CloseByHostAfter(store, Host, TRUE, FALSE), ExpireAfter(store, TRUE),
                  CloseAbandonedAfter(store)} :
         Run(s) /\ Owes(IfChanged(s, Event("room.closed", s, None)))
  BY DEF End
<1>2. UNCHANGED client /\ UNCHANGED arriving /\ UNCHANGED leaving
  BY DEF End, hostThreads
<1>3. s = store \/ \E status \in TerminalStatuses : Ended(store, s, status)
  <2>1. CASE s = CloseByHostAfter(store, Host, TRUE, FALSE)
    <3>1. s = store \/ Ended(store, s, "CLOSED")
      BY <1>0, <2>1, CloseByHostShape
    <3> QED BY <3>1 DEF TerminalStatuses
  <2>2. CASE s = ExpireAfter(store, TRUE)
    <3>1. s = store \/ Ended(store, s, "EXPIRED")
      BY <1>0, <2>2, ExpireShape
    <3> QED BY <3>1 DEF TerminalStatuses
  <2>3. CASE s = CloseAbandonedAfter(store)
    <3>1. s = store \/ Ended(store, s, "CLOSED")
      BY <1>0, <2>3, CloseAbandonedShape
    <3> QED BY <3>1 DEF TerminalStatuses
  <2> QED BY <1>1, <2>1, <2>2, <2>3
<1> DEFINE e == Event("room.closed", s, None)
<1>4. e = Event("room.closed", s, None)
  OBVIOUS
<1> HIDE DEF e
<1>5. Consistent(s) /\ s \in Store /\ Follows(store, s)
  BY <1>0, <1>3, EndedSafe DEF Consistent
<1>6. s.present /\ \A q \in Participants : s.presence[q] \in {None, Conn}
  BY <1>0, <1>3 DEF Ended, Store
<1>7. e \in Events /\ e.version = s.version
  BY <1>4, <1>5, EventType DEF EventTypes, Event
<1>8. s.version > store.version => Describes(e, Snapshot(store), Snapshot(s))
  BY <1>0, <1>3, <1>4, ClosedDescribes DEF Store
<1> QED BY <1>0, <1>1, <1>2, <1>4, <1>5, <1>6, <1>7, <1>8, OneEventStep

\* The host's close callback announces its absence before the room is marked.
LEMMA HostDepartStep ==
    ASSUME IInv, HostDepart
    PROVE  IInv'
<1> USE ScriptsAssumption, EventsAssumption
<1>0. /\ Consistent(store) /\ store \in Store /\ store.present
      /\ \A q \in Participants : store.presence[q] \in {None, Conn}
      /\ leaving \in Nat \cup {None}
      /\ Host \in store.online /\ Host \in store.members
  BY DEF IInv, StoreInv, Consistent, EventsInv, HostDepart, RosterOf
<1> DEFINE s == DisconnectAfter(store, Host, Conn)
           e == Presence(s, Host)
<1>1. /\ Run(s) /\ Owes(<<e>>) /\ UNCHANGED client
      /\ UNCHANGED arriving /\ leaving' = s.version
  BY DEF HostDepart
<1>2. ShownOffline(store, s, Host)
  BY <1>0 DEF DisconnectAfter, DisconnectOutcome, ShownOffline, Store
<1>3. e = Presence(s, Host)
  OBVIOUS
<1> HIDE DEF s, e
<1>4. Consistent(s) /\ s \in Store /\ Follows(store, s) /\ s.version \in Nat
  BY <1>0, <1>2, ShownOfflineSafe DEF Consistent, Store
<1>5. s.present /\ s.version > store.version
      /\ \A q \in Participants : s.presence[q] \in {None, Conn}
  BY <1>0, <1>2 DEF ShownOffline, Store
<1>6. e \in Events /\ e.version = s.version
  BY <1>3, <1>4, EventType DEF EventTypes, Presence, Event
<1>7. Describes(e, Snapshot(store), Snapshot(s))
  BY <1>0, <1>2, <1>3, OfflineDescribes
<1>8. /\ StoreInv' /\ LogInv' /\ ClientInv' /\ ContiguousViewIsExact'
      /\ Continues(log, log')
  BY <1>1, <1>4, <1>5, ScriptStep
<1>9. AllTold(log', <<e>>)
  BY <1>1, <1>4, <1>5, <1>6, <1>7, NewEventTold DEF IInv
<1>10. \A q \in outbox' : q # <<>> /\ AllTold(log', q)
  BY <1>1, <1>8, <1>9, OwesStep DEF IInv
<1>11. arriving' # None => AllTold(log', arriving'.owes)
  BY <1>1, <1>8, ArrivingStays DEF IInv
<1> QED BY <1>1, <1>4, <1>8, <1>10, <1>11 DEF IInv, EventsInv

\* Marking the host away keeps the invariant.
LEMMA MarkHostDisconnectedStep ==
    ASSUME IInv, MarkHostDisconnected
    PROVE  IInv'
<1> USE ScriptsAssumption, EventsAssumption
<1>0. /\ Consistent(store) /\ store \in Store /\ store.present
      /\ \A q \in Participants : store.presence[q] \in {None, Conn}
      /\ Follows(store, store)
  BY SameFollows DEF IInv, StoreInv, Consistent
<1> DEFINE s == MarkHostDisconnectedAfter(store)
           e == Event("host.disconnected", s, Host)
<1>1. /\ Run(s) /\ Owes(IfChanged(s, e)) /\ UNCHANGED client
      /\ UNCHANGED arriving /\ leaving' \in Nat \cup {None}
  BY DEF MarkHostDisconnected
<1>2. s = store \/ HostLost(store, s)
  BY <1>0, MarkHostDisconnectedShape
<1>3. e = Event("host.disconnected", s, Host)
  OBVIOUS
<1> HIDE DEF s, e
<1>4. Consistent(s) /\ s \in Store /\ Follows(store, s)
  BY <1>0, <1>2, HostLostSafe DEF Consistent
<1>5. s.present /\ s.presence = store.presence
  BY <1>0, <1>2 DEF HostLost
<1>6. e \in Events /\ e.version = s.version
  BY <1>3, <1>4, EventType DEF EventTypes, Event
<1>7. s.version > store.version => Describes(e, Snapshot(store), Snapshot(s))
  BY <1>0, <1>2, <1>3, LostDescribes DEF Store
<1> QED BY <1>0, <1>1, <1>4, <1>5, <1>6, <1>7, OneEventStep

\* The host's open callback sends the event of its first script, or keeps it
\* until the second one has run.
LEMMA HostArriveStep ==
    ASSUME IInv, HostArrive
    PROVE  IInv'
<1> USE ScriptsAssumption, EventsAssumption
<1>0. /\ Consistent(store) /\ store \in Store /\ store.present
      /\ \A q \in Participants : store.presence[q] \in {None, Conn}
      /\ leaving \in Nat \cup {None}
      /\ Follows(store, store)
  BY SameFollows DEF IInv, StoreInv, Consistent, EventsInv
<1> DEFINE s == ConnectAfter(store, Host, Conn, FALSE)
           e == Presence(s, Host)
<1>1. /\ Run(s) /\ UNCHANGED client /\ UNCHANGED leaving
      /\ \/ arriving' = [owes |-> IfChanged(s, e)] /\ UNCHANGED outbox
         \/ UNCHANGED arriving /\ Owes(IfChanged(s, e))
  BY DEF HostArrive
<1>2. s = store \/ ShownOnline(store, s, Host, Conn)
  BY <1>0, ConnectShape
<1>3. e = Presence(s, Host)
  OBVIOUS
<1> HIDE DEF s, e
<1>4. Consistent(s) /\ s \in Store /\ Follows(store, s)
  BY <1>0, <1>2, ShownOnlineSafe DEF Consistent
<1>5. s.present /\ \A q \in Participants : s.presence[q] \in {None, Conn}
  BY <1>0, <1>2 DEF ShownOnline, Store
<1>6. e \in Events /\ e.version = s.version
  BY <1>3, <1>4, EventType DEF EventTypes, Presence, Event
<1>7. s.version > store.version => Describes(e, Snapshot(store), Snapshot(s))
  BY <1>0, <1>2, <1>3, OnlineDescribes DEF Store
<1>8. CASE UNCHANGED arriving /\ Owes(IfChanged(s, e))
  BY <1>0, <1>1, <1>4, <1>5, <1>6, <1>7, <1>8, OneEventStep
<1>9. CASE arriving' = [owes |-> IfChanged(s, e)] /\ UNCHANGED outbox
  <2>1. /\ StoreInv' /\ LogInv' /\ ClientInv' /\ ContiguousViewIsExact'
        /\ Continues(log, log')
    BY <1>1, <1>4, <1>5, ScriptStep
  <2>2. AllTold(log', IfChanged(s, e))
    BY <1>1, <1>4, <1>6, <1>7, NewEventTold DEF IInv
  <2>3. \A q \in outbox' : q # <<>> /\ AllTold(log', q)
    BY <1>9, <2>1, AllToldStays DEF IInv, EventsInv, LogInv
  <2>4. arriving'.owes = IfChanged(s, e)
    BY <1>9
  <2>5. EventsInv'
    BY <1>0, <1>1, <2>2, <2>3, <2>4 DEF EventsInv
  <2> QED BY <2>1, <2>5 DEF IInv
<1> QED BY <1>1, <1>8, <1>9

\* Recovering the host keeps the invariant.
LEMMA RecoverHostStep ==
    ASSUME IInv, RecoverHost
    PROVE  IInv'
<1> USE ScriptsAssumption, EventsAssumption
<1>0. /\ Consistent(store) /\ store \in Store /\ store.present
      /\ \A q \in Participants : store.presence[q] \in {None, Conn}
      /\ leaving \in Nat \cup {None}
      /\ Follows(store, store)
  BY SameFollows DEF IInv, StoreInv, Consistent, EventsInv
<1> DEFINE s == RecoverHostAfter(store)
           e == Event("host.reconnected", s, Host)
<1>1. /\ Run(s) /\ Owes(arriving.owes \o IfChanged(s, e)) /\ UNCHANGED client
      /\ UNCHANGED leaving /\ arriving # None /\ arriving' = None
  BY DEF RecoverHost
<1>2. s = store \/ HostRegained(store, s)
  BY <1>0, RecoverHostShape
<1>3. e = Event("host.reconnected", s, Host)
  OBVIOUS
<1> HIDE DEF s, e
<1>4. Consistent(s) /\ s \in Store /\ Follows(store, s)
  BY <1>0, <1>2, HostRegainedSafe DEF Consistent
<1>5. s.present /\ s.presence = store.presence
  BY <1>0, <1>2 DEF HostRegained
<1>6. e \in Events /\ e.version = s.version
  BY <1>3, <1>4, EventType DEF EventTypes, Event
<1>7. s.version > store.version => Describes(e, Snapshot(store), Snapshot(s))
  BY <1>0, <1>2, <1>3, RegainedDescribes DEF Store
<1>8. /\ StoreInv' /\ LogInv' /\ ClientInv' /\ ContiguousViewIsExact'
      /\ Continues(log, log')
  BY <1>0, <1>1, <1>4, <1>5, ScriptStep
<1>9. AllTold(log', IfChanged(s, e))
  BY <1>1, <1>4, <1>6, <1>7, NewEventTold DEF IInv
<1>10. AllTold(log', arriving.owes)
  BY <1>1, <1>8, ArrivingStays DEF IInv
<1>11. AllTold(log', arriving.owes \o IfChanged(s, e))
  BY <1>9, <1>10, AllToldBoth
<1>12. \A q \in outbox' : q # <<>> /\ AllTold(log', q)
  BY <1>1, <1>8, <1>11, OwesStep DEF IInv
<1> QED BY <1>0, <1>1, <1>8, <1>12 DEF IInv, EventsInv

\* The viewer's session is owed the room its connect left.
LEMMA ViewerConnectStep ==
    ASSUME IInv, ViewerConnect
    PROVE  IInv'
<1> USE ScriptsAssumption, EventsAssumption
<1>0. /\ Consistent(store) /\ store \in Store /\ store.present
      /\ \A q \in Participants : store.presence[q] \in {None, Conn}
      /\ Follows(store, store) /\ store.status \in AvailableStatuses
  BY SameFollows DEF IInv, StoreInv, Consistent, ViewerConnect, Available
<1> DEFINE s == ConnectAfter(store, Viewer, Conn, FALSE)
<1>1. /\ Run(s) /\ link' = "connected" /\ greeting' = Snapshot(s)
      /\ outbox' = outbox /\ arriving' = arriving /\ leaving' = leaving
      /\ view' = view /\ contiguous' = contiguous /\ view.status \notin TerminalStatuses
  BY DEF ViewerConnect, hostThreads
<1>2. s = store \/ ShownOnline(store, s, Viewer, Conn)
  BY <1>0, ConnectShape
<1> HIDE DEF s
<1>3. Consistent(s) /\ s \in Store /\ Follows(store, s)
  BY <1>0, <1>2, ShownOnlineSafe DEF Consistent
<1>4. s.present /\ s.status = store.status /\ \A q \in Participants : s.presence[q] \in {None, Conn}
  BY <1>0, <1>2 DEF ShownOnline, Store
<1>5. store' = s /\ LogInv' /\ Continues(log, log') /\ store.version <= s.version
  BY <1>1, <1>3, RunStep DEF IInv
<1>6. StoreInv'
  BY <1>3, <1>4, <1>5 DEF StoreInv
<1>7. EventsInv'
  BY <1>1, <1>5, AllToldStays DEF IInv, EventsInv, LogInv
<1>8. /\ greeting' \in Snapshots /\ greeting'.version = s.version /\ greeting'.status = s.status
      /\ greeting' = log'[s.version + 1]
  BY <1>1, <1>3, <1>5, SnapshotType DEF LogInv, Snapshot
<1>9. ClientInv'
  <2>1. view.version \in Nat /\ store.version \in Nat /\ s.version \in Nat
    BY <1>0, <1>3 DEF IInv, ClientInv, Snapshots, Store
  <2> QED BY <1>0, <1>1, <1>4, <1>5, <1>8, <2>1, StatusesDisjoint DEF IInv, ClientInv
<1>10. ContiguousViewIsExact'
  <2>1. log'[view.version + 1] = log[view.version + 1]
    BY <1>0, <1>5 DEF IInv, ClientInv, LogInv, Continues, Snapshots, Store
  <2> QED BY <1>1, <2>1 DEF IInv, ContiguousViewIsExact
<1> QED BY <1>5, <1>6, <1>7, <1>9, <1>10 DEF IInv

\* The session's own steps: it registers, is greeted with the room it is owed,
\* and goes.
LEMMA SessionStep ==
    ASSUME IInv, ViewerRegister \/ ViewerGreet \/ ViewerDrop
    PROVE  IInv'
<1>1. StoreInv' /\ LogInv' /\ EventsInv'
  BY DEF IInv, ViewerRegister, ViewerGreet, ViewerDrop, StoreInv, LogInv, EventsInv, hostThreads
<1>2. contiguous' \in BOOLEAN
  BY DEF IInv, ClientInv, ViewerRegister, ViewerGreet, ViewerDrop
<1>3. CASE ViewerRegister
  <2>1. /\ link = "connected" /\ link' = "registered"
        /\ store' = store /\ log' = log /\ greeting' = greeting
        /\ view' = view /\ contiguous' = contiguous
    BY <1>3 DEF ViewerRegister
  <2>2. ClientInv'
    BY <1>2, <2>1 DEF IInv, ClientInv
  <2>3. ContiguousViewIsExact'
    BY <2>1 DEF IInv, ContiguousViewIsExact
  <2> QED BY <1>1, <2>2, <2>3 DEF IInv
<1>4. CASE ViewerGreet
  <2>1. /\ link = "registered" /\ link' = "open" /\ view' = greeting /\ greeting' = None
        /\ store' = store /\ log' = log
    BY <1>4 DEF ViewerGreet
  <2>2. /\ greeting \in Snapshots /\ greeting.version <= store.version
        /\ greeting = log[greeting.version + 1]
        /\ greeting.status \notin TerminalStatuses
    BY <2>1 DEF IInv, ClientInv
  <2>3. ClientInv'
    BY <1>2, <2>1, <2>2 DEF ClientInv
  <2>4. ContiguousViewIsExact'
    BY <2>1, <2>2 DEF ContiguousViewIsExact
  <2> QED BY <1>1, <2>3, <2>4 DEF IInv
<1>5. CASE ViewerDrop
  <2>1. /\ link' = "off" /\ greeting' = None
        /\ store' = store /\ log' = log /\ view' = view /\ contiguous' = contiguous
    BY <1>5 DEF ViewerDrop
  <2>2. ClientInv'
    BY <1>2, <2>1 DEF IInv, ClientInv
  <2>3. ContiguousViewIsExact'
    BY <2>1 DEF IInv, ContiguousViewIsExact
  <2> QED BY <1>1, <2>2, <2>3 DEF IInv
<1> QED BY <1>3, <1>4, <1>5

\* What an event does to the room a client shows: it names a participant, and
\* only the end of the room ends it.
LEMMA ApplyType ==
    ASSUME NEW l \in Seq(Snapshots), NEW e, Told(l, e), NEW room \in Snapshots,
           room.status \notin TerminalStatuses
    PROVE  /\ Apply(room, e) \in Snapshots
           /\ Apply(room, e).version < Len(l) \/ Apply(room, e).version = room.version
           /\ Apply(room, e).status \in TerminalStatuses =>
                 /\ Apply(room, e) = [version |-> e.version, status |-> e.status,
                                      members |-> room.members, online |-> {}]
                 /\ l[e.version + 1].status = e.status
<1>1. /\ e \in Events /\ e.version \in Nat
      /\ l[e.version] \in Snapshots /\ l[e.version + 1] \in Snapshots
      /\ Describes(e, l[e.version], l[e.version + 1])
  BY DEF Told, Events
<1>2. CASE e.version < room.version
  BY <1>2 DEF Apply
<1>3. CASE ~(e.version < room.version)
  <2>1. Apply(room, e) =
          [version |-> e.version,
           status  |-> IF e.type \in StatusEvents THEN e.status ELSE room.status,
           members |-> MembersAfter(room, e), online |-> OnlineAfter(room, e)]
    BY <1>3 DEF Apply, StatusEvents
  <2>2. e.type = "participant.joined" => e.who \in Participants
    BY <1>1 DEF Describes, MembersAfter, Snapshots
  <2>3. MembersAfter(room, e) \in SUBSET Participants
    BY <2>2 DEF MembersAfter, Snapshots
  <2>4. OnlineAfter(room, e) \in SUBSET Participants
    BY <2>2 DEF OnlineAfter, Snapshots
  <2>5. Apply(room, e) \in Snapshots
    BY <1>1, <2>1, <2>3, <2>4 DEF Snapshots, Events
  <2>6. Apply(room, e).version < Len(l)
    BY <2>1 DEF Told
  <2>7. Apply(room, e).status \in TerminalStatuses => e.type = "room.closed"
    BY <1>1, <2>1 DEF Describes
  <2>8. e.type = "room.closed" => e.type \in StatusEvents /\ MembersAfter(room, e) = room.members
                                  /\ OnlineAfter(room, e) = {}
    BY DEF StatusEvents, MembersAfter, OnlineAfter
  <2>9. e.type = "room.closed" => l[e.version + 1].status = e.status
    BY <1>1, <2>8 DEF Describes
  <2> QED BY <2>1, <2>5, <2>6, <2>7, <2>8, <2>9
<1> QED BY <1>2, <1>3

\* No event changes an ended room: an older one is skipped, and the one at its
\* version is the one that ended it.
LEMMA EndedUnmoved ==
    ASSUME IInv, NEW e, Told(log, e), view.status \in TerminalStatuses
    PROVE  Apply(view, e) = view
<1>1. /\ view \in Snapshots /\ view.version = store.version
      /\ view.status = store.status /\ view.online = {}
      /\ store.version \in Nat /\ Len(log) = store.version + 1
  BY DEF IInv, ClientInv, LogInv, StoreInv, Consistent, Store
<1>2. CASE e.version < view.version
  BY <1>2 DEF Apply
<1>3. CASE ~(e.version < view.version)
  <2>1. e.version = store.version
    BY <1>1, <1>3 DEF Told
  <2>2. log[e.version + 1].status = store.status
    BY <2>1 DEF IInv, LogInv, Snapshot
  <2>3. Describes(e, log[e.version], log[e.version + 1])
    BY DEF Told
  <2>4. e.type = "room.closed" /\ e.status = store.status
    BY <1>1, <2>2, <2>3 DEF Describes, StatusEvents
  <2>5. MembersAfter(view, e) = view.members /\ OnlineAfter(view, e) = {}
    BY <2>4 DEF MembersAfter, OnlineAfter
  <2>6. Apply(view, e) = [version |-> view.version, status |-> view.status,
                          members |-> view.members, online |-> view.online]
    BY <1>1, <1>3, <2>1, <2>4, <2>5 DEF Apply
  <2> QED BY <1>1, <2>6 DEF Snapshots
<1> QED BY <1>2, <1>3

\* A message reaches the session, or finds none.
LEMMA SendStep ==
    ASSUME IInv, NEW q \in outbox, Send(q)
    PROVE  IInv'
<1> DEFINE e == Head(q)
<1>0. Told(log, e) /\ AllTold(log, Tail(q))
  BY AllToldTail DEF IInv, EventsInv
<1>1. /\ store' = store /\ log' = log /\ arriving' = arriving /\ leaving' = leaving
      /\ greeting' = greeting /\ outbox' = (outbox \ {q}) \cup ({Tail(q)} \ {<<>>})
      /\ link' = link
  BY DEF Send, hostThreads
<1>2. \/ view' = view /\ contiguous' = contiguous
      \/ /\ link \in {"registered", "open"} /\ view' = Apply(view, e)
         /\ contiguous' = (contiguous /\ e.version <= view.version + 1)
  BY DEF Send
<1> HIDE DEF e
<1>3. StoreInv' /\ LogInv'
  BY <1>1 DEF IInv, StoreInv, LogInv
<1>4. EventsInv'
  BY <1>0, <1>1 DEF IInv, EventsInv
<1>5. CASE view' = view /\ (contiguous' = contiguous \/ contiguous' = (contiguous /\ e.version <= view.version + 1))
  <2>1. ClientInv'
    BY <1>1, <1>5 DEF IInv, ClientInv
  <2>2. ContiguousViewIsExact'
    BY <1>1, <1>5 DEF IInv, ContiguousViewIsExact
  <2> QED BY <1>3, <1>4, <2>1, <2>2 DEF IInv
<1>6. CASE /\ link \in {"registered", "open"} /\ view' = Apply(view, e)
           /\ contiguous' = (contiguous /\ e.version <= view.version + 1)
           /\ view.status \notin TerminalStatuses
  <2>0. /\ view \in Snapshots /\ view.version \in Nat /\ view.version <= store.version
        /\ log \in Seq(Snapshots) /\ Len(log) = store.version + 1 /\ store.version \in Nat
        /\ e.version \in 1 .. store.version
    BY <1>0, <1>6 DEF IInv, ClientInv, LogInv, StoreInv, Consistent, Store, Snapshots, Told
  <2>1. /\ view' \in Snapshots
        /\ view'.version < Len(log) \/ view'.version = view.version
        /\ view'.status \in TerminalStatuses =>
              /\ view' = [version |-> e.version, status |-> e.status,
                          members |-> view.members, online |-> {}]
              /\ log[e.version + 1].status = e.status
    BY <1>0, <1>6, <2>0, ApplyType
  <2>2. view'.version <= store.version
    BY <2>0, <2>1 DEF Snapshots
  <2>3. view'.status \in TerminalStatuses =>
           view'.version = store.version /\ view'.status = store.status /\ view'.online = {}
    <3>1. SUFFICES ASSUME view'.status \in TerminalStatuses
                   PROVE  view'.version = store.version /\ view'.status = store.status
                          /\ view'.online = {}
      OBVIOUS
    <3>2. /\ view'.version = e.version /\ view'.status = e.status /\ view'.online = {}
          /\ log[e.version + 1].status = e.status
      BY <2>1, <3>1
    <3>3. ~(e.version + 1 \in 1 .. store.version)
      BY <3>1, <3>2 DEF IInv, LogInv
    <3>4. e.version = store.version
      BY <2>0, <3>3
    <3>5. log[store.version + 1].status = store.status
      BY DEF IInv, LogInv, Snapshot
    <3> QED BY <3>2, <3>4, <3>5
  <2>8. contiguous' \in BOOLEAN
    BY <1>6 DEF IInv, ClientInv
  <2>4. ClientInv'
    BY <1>1, <2>1, <2>2, <2>3, <2>8 DEF IInv, ClientInv
  <2>5. ASSUME contiguous, e.version <= view.version + 1
        PROVE  Agree(view', log[view'.version + 1])
    <3>1. Agree(view, log[view.version + 1])
      BY <2>5 DEF IInv, ContiguousViewIsExact, Agree
    <3>2. CASE e.version < view.version
      BY <1>6, <3>1, <3>2 DEF Apply
    <3>3. CASE e.version = view.version \/ e.version = view.version + 1
      <4>1. Agree(view, log[e.version]) \/ Agree(view, log[e.version + 1])
        BY <3>1, <3>3
      <4>2. Describes(e, log[e.version], log[e.version + 1])
        BY <1>0 DEF Told
      <4>3. ~(e.version < view.version)
        BY <2>0, <3>3
      <4>4. Agree(Apply(view, e), log[e.version + 1]) /\ Apply(view, e).version = e.version
        BY <4>1, <4>2, <4>3, ApplyAgrees
      <4> QED BY <1>6, <4>4
    <3> QED BY <2>0, <2>5, <3>2, <3>3
  <2>6. contiguous' => contiguous /\ e.version <= view.version + 1
    BY <1>6
  <2>7. ContiguousViewIsExact'
    BY <1>1, <2>5, <2>6 DEF ContiguousViewIsExact, Agree
  <2> QED BY <1>3, <1>4, <2>4, <2>7 DEF IInv
<1>7. CASE /\ link \in {"registered", "open"} /\ view' = Apply(view, e)
           /\ contiguous' = (contiguous /\ e.version <= view.version + 1)
           /\ view.status \in TerminalStatuses
  BY <1>0, <1>5, <1>7, EndedUnmoved
<1> QED BY <1>2, <1>5, <1>6, <1>7

\* A step that changes nothing keeps the invariant.
LEMMA StutterStep ==
    ASSUME IInv, UNCHANGED eventVars
    PROVE  IInv'
<1>1. /\ store' = store /\ log' = log /\ outbox' = outbox /\ leaving' = leaving
      /\ arriving' = arriving /\ link' = link /\ greeting' = greeting
      /\ view' = view /\ contiguous' = contiguous
  BY DEF eventVars
<1>2. ClientInv' /\ EventsInv'
  BY <1>1 DEF IInv, ClientInv, EventsInv
<1> QED BY <1>1, <1>2 DEF IInv, StoreInv, LogInv, ContiguousViewIsExact

\* IInv holds in every state.
LEMMA InvariantIInv == Spec => []IInv
<1>1. IInv /\ [Next]_eventVars => IInv'
  BY OthersStep, EndStep, HostDepartStep, MarkHostDisconnectedStep, HostArriveStep,
     RecoverHostStep, ViewerConnectStep, SessionStep, SendStep, StutterStep DEF Next
<1> QED BY <1>1, InitIInv, PTL DEF Spec

-----------------------------------------------------------------------------
(***************************************************************************)
(* Theorems                                                                *)
(***************************************************************************)

\* Whatever runs in whatever order, the store, the history, the messages under
\* way and the client's room have the shapes the code gives them.
THEOREM TypeCorrect == Spec => []TypeOK
<1>1. IInv => TypeOK
  BY DEF IInv, StoreInv, LogInv, EventsInv, ClientInv, Consistent, AllTold, TypeOK
<1> QED BY <1>1, InvariantIInv, PTL

\* A client that missed no version since its last snapshot shows the room as it
\* was at that version (applyRoomServerEvent against the backend's scripts).
THEOREM ExactViewTheorem == Spec => []ContiguousViewIsExact
<1>1. IInv => ContiguousViewIsExact
  BY DEF IInv
<1> QED BY <1>1, InvariantIInv, PTL

\* A client that shows the room as ended is moved by no event, whichever threads
\* still have one to send: only the snapshot its session is owed may replace it.
THEOREM EndedTheorem == Spec => EndedViewStays
<1>1. IInv /\ [Next]_eventVars =>
         [view.status \in TerminalStatuses => view' \in {view, greeting}]_eventVars
  <2> SUFFICES ASSUME IInv, Next, view.status \in TerminalStatuses
               PROVE  view' = view \/ view' = greeting
    BY DEF eventVars
  <2>1. ASSUME NEW p \in Participants, Join(p) \/ Leave(p) \/ Arrive(p) \/ Depart(p)
        PROVE  view' = view
    BY <2>1 DEF Join, Leave, Arrive, Depart, client
  <2>2. CASE End \/ HostDepart \/ MarkHostDisconnected \/ HostArrive \/ RecoverHost
    BY <2>2 DEF End, HostDepart, MarkHostDisconnected, HostArrive, RecoverHost, client
  <2>3. CASE ViewerConnect \/ ViewerRegister \/ ViewerDrop
    BY <2>3 DEF ViewerConnect, ViewerRegister, ViewerDrop
  <2>4. CASE ViewerGreet
    BY <2>4 DEF ViewerGreet
  <2>5. ASSUME NEW q \in outbox, Send(q)
        PROVE  view' = view
    <3>1. Told(log, Head(q))
      BY AllToldTail DEF IInv, EventsInv
    <3>2. Apply(view, Head(q)) = view
      BY <3>1, EndedUnmoved
    <3> QED BY <2>5, <3>2 DEF Send
  <2> QED BY <2>1, <2>2, <2>3, <2>4, <2>5 DEF Next
<1> QED BY <1>1, InvariantIInv, PTL DEF Spec, EndedViewStays

=============================================================================
