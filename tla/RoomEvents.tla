----------------------------- MODULE RoomEvents -----------------------------
(***************************************************************************)
(* What one client, the viewer's, is told of a room.  A backend thread     *)
(* runs a script and later, with no lock held in between, sends the event  *)
(* that describes the change to the registered sessions; the client folds  *)
(* the messages it receives into its RoomSnapshot (applyRoomServerEvent).  *)
(* Sends to one session are serialised, so the viewer sees one sequence of *)
(* messages, in the order in which the threads come to send.               *)
(*                                                                         *)
(* The viewer is a guest that has joined.  One connection id per           *)
(* participant is enough here; RoomWebSocket is about several.  A call     *)
(* that finds the room past its expiry changes nothing and is left out.    *)
(***************************************************************************)
EXTENDS RoomScripts, Sequences

CONSTANTS
    Viewer,      \* the guest whose client is modelled
    Conn,        \* the connection id
    MaxVersion   \* bound on the operations that change the room

ASSUME EventsAssumption ==
    /\ Viewer \in Participants \ {Host}
    /\ Conn \in Connections
    /\ MaxParticipants > 1   \* a seat for the viewer
    /\ MaxVersion \in Nat

VARIABLES
    store,      \* Redis
    log,        \* log[v + 1] is what the room looked like at version v
    outbox,     \* per thread with events to send, those events in order
    leaving,    \* the host's close callback: None, or the version of its event
    arriving,   \* the host's open callback: None, or the events it owes
    link,       \* how far the viewer's session is
    greeting,   \* the room that session's store.connect returned
    view,       \* the client's RoomSnapshot
    contiguous  \* no version was skipped since the last snapshot

eventVars == <<store, log, outbox, leaving, arriving, link, greeting, view, contiguous>>

client == <<link, greeting, view, contiguous>>
hostThreads == <<leaving, arriving>>

-----------------------------------------------------------------------------
(***************************************************************************)
(* Snapshots and events                                                    *)
(***************************************************************************)

\* RoomSnapshot: what of the stored room is shown.
Snapshot(s) == [status |-> s.status, members |-> s.members, online |-> s.online,
                version |-> s.version]

\* An event carries the version of the state its script left.
Event(type, s, who) == [type |-> type, version |-> s.version, who |-> who, status |-> s.status]

Presence(s, p) ==
    Event(IF p \in s.online THEN "participant.online" ELSE "participant.offline", s, p)

MembersAfter(room, e) ==
    CASE e.type = "participant.joined" -> room.members \cup {e.who}
      [] e.type = "participant.left"   -> room.members \ {e.who}
      [] OTHER -> room.members

OnlineAfter_ClosedKeepsOnline(room, e) ==
    CASE e.type = "participant.joined" -> room.online \cup {e.who}
      [] e.type \in {"participant.online", "host.reconnected"} ->
            room.online \cup ({e.who} \cap room.members)
      [] e.type = "room.closed" -> room.online
      [] OTHER -> room.online \ {e.who}

\* The events on presence change the flag of a participant the client knows.
OnlineAfter(room, e) ==
    CASE e.type = "participant.joined" -> room.online \cup {e.who}
      [] e.type \in {"participant.online", "host.reconnected"} ->
            room.online \cup ({e.who} \cap room.members)
      [] e.type = "room.closed" -> {}
      [] OTHER -> room.online \ {e.who}

Apply_AnyVersion(room, e) ==
    [version |-> e.version,
     status  |-> IF e.type \in {"room.closed", "host.disconnected", "host.reconnected"}
                 THEN e.status
                 ELSE room.status,
     members |-> MembersAfter(room, e),
     online  |-> OnlineAfter(room, e)]

\* applyRoomServerEvent for everything but room.snapshot.
Apply(room, e) ==
    IF e.version < room.version THEN room
    ELSE [version |-> e.version,
          status  |-> IF e.type \in {"room.closed", "host.disconnected", "host.reconnected"}
                      THEN e.status
                      ELSE room.status,
          members |-> MembersAfter(room, e),
          online  |-> OnlineAfter(room, e)]

-----------------------------------------------------------------------------
\* The viewer has just joined and holds the snapshot the join returned.
Init ==
    /\ store = JoinAfter(NewRoom, None, Viewer, FALSE)
    /\ log = <<Snapshot(NewRoom), Snapshot(store)>>
    /\ outbox = {}
    /\ leaving = None
    /\ arriving = None
    /\ link = "off"
    /\ greeting = None
    /\ view = Snapshot(store)
    /\ contiguous = TRUE

\* A script leaves s.
Run(s) ==
    /\ store.version < MaxVersion
    /\ store' = s
    /\ log' = IF s.version > store.version THEN Append(log, Snapshot(s)) ELSE log

\* The thread has these events to send, one after the other.
Owes(events) == outbox' = IF events = <<>> THEN outbox ELSE outbox \cup {events}

IfChanged(s, e) == IF s.version > store.version THEN <<e>> ELSE <<>>

-----------------------------------------------------------------------------
(***************************************************************************)
(* REST requests and tasks: a script, then one event.                      *)
(***************************************************************************)

\* Join replies are not modelled for callers that have a seat already.
Join(p) ==
    LET s == JoinAfter(store, None, p, FALSE)
    IN  /\ \A i \in DOMAIN log : p \notin log[i].members
        /\ Run(s)
        /\ Owes(IfChanged(s, Event("participant.joined", s, p)))
        /\ UNCHANGED <<hostThreads, client>>

Leave(p) ==
    LET s == LeaveAfter(store, p, FALSE)
    IN  /\ p # Viewer
        /\ Run(s)
        /\ Owes(IfChanged(s, Event("participant.left", s, p)))
        /\ UNCHANGED <<hostThreads, client>>

End ==
    /\ \E s \in {CloseByHostAfter(store, Host, TRUE, FALSE), ExpireAfter(store, TRUE),
                 CloseAbandonedAfter(store)} :
          /\ Run(s)
          /\ Owes(IfChanged(s, Event("room.closed", s, None)))
    /\ UNCHANGED <<hostThreads, client>>

-----------------------------------------------------------------------------
(***************************************************************************)
(* Connections of the others, and heartbeats of anybody.                   *)
(***************************************************************************)

\* A guest's connect, or a heartbeat that finds its sender shown as offline.
Arrive(p) ==
    LET s == ConnectAfter(store, p, Conn, FALSE)
    IN  /\ p # Host
        /\ p = Viewer => link = "open"
        /\ Run(s)
        /\ Owes(IfChanged(s, Presence(s, p)))
        /\ UNCHANGED <<hostThreads, client>>

\* A guest's last connection closes, or an earlier connection of it after the
\* presence key has lapsed.
Depart(p) ==
    LET s == DisconnectAfter(store, p, Conn)
    IN  /\ p # Host
        /\ Run(s)
        /\ Owes(IfChanged(s, Presence(s, p)))
        /\ UNCHANGED <<hostThreads, client>>

\* The host's close callback sends participant.offline before it considers the
\* room, and host.disconnected after it has marked it.
HostDepart ==
    LET s == DisconnectAfter(store, Host, Conn)
    IN  /\ leaving = None
        /\ Host \in store.online
        /\ Run(s)
        /\ Owes(<<Presence(s, Host)>>)
        /\ leaving' = s.version
        /\ UNCHANGED <<arriving, client>>

MarkHostDisconnected ==
    LET s == MarkHostDisconnectedAfter(store)
    IN  /\ leaving # None
        /\ \A q \in outbox : Head(q).version # leaving
        /\ Run(s)
        /\ Owes(IfChanged(s, Event("host.disconnected", s, Host)))
        /\ leaving' = None
        /\ UNCHANGED <<arriving, client>>

\* The host's open callback runs both scripts before it sends anything.
HostArrive ==
    LET s == ConnectAfter(store, Host, Conn, FALSE)
        online == IfChanged(s, Presence(s, Host))
    IN  /\ arriving = None
        /\ Available(store, FALSE)
        /\ Run(s)
        /\ IF store.status = "HOST_DISCONNECTED"
           THEN arriving' = [owes |-> online] /\ UNCHANGED outbox
           ELSE UNCHANGED arriving /\ Owes(online)
        /\ UNCHANGED <<leaving, client>>

RecoverHost ==
    LET s == RecoverHostAfter(store)
    IN  /\ arriving # None
        /\ Run(s)
        /\ Owes(arriving.owes \o IfChanged(s, Event("host.reconnected", s, Host)))
        /\ arriving' = None
        /\ UNCHANGED <<leaving, client>>

-----------------------------------------------------------------------------
(***************************************************************************)
(* The viewer's session: connect, register, snapshot.                      *)
(***************************************************************************)

\* The viewer's own arrival is announced to the others only.
ViewerConnect ==
    LET s == ConnectAfter(store, Viewer, Conn, FALSE)
    IN  /\ link = "off"
        /\ view.status \notin TerminalStatuses
        /\ Available(store, FALSE)
        /\ Run(s)
        /\ link' = "connected"
        /\ greeting' = Snapshot(s)
        /\ UNCHANGED <<outbox, hostThreads, view, contiguous>>

\* From here on broadcasts reach the session.
ViewerRegister ==
    /\ link = "connected"
    /\ link' = "registered"
    /\ UNCHANGED <<store, log, outbox, hostThreads, greeting, view, contiguous>>

\* The client takes every snapshot as it comes.
ViewerGreet ==
    /\ link = "registered"
    /\ link' = "open"
    /\ view' = greeting
    /\ greeting' = None
    /\ contiguous' = TRUE
    /\ UNCHANGED <<store, log, outbox, hostThreads>>

\* The session ends: the client or the network drops it, or the server closes
\* it, as publishRoomClosed does next after it has sent room.closed.
ViewerDrop ==
    /\ link # "off"
    /\ link' = "off"
    /\ greeting' = None
    /\ UNCHANGED <<store, log, outbox, hostThreads, view, contiguous>>

\* room.closed does not yet end the session that receives it: the close that
\* follows is a ViewerDrop, and the open callback may be greeting in between.
Send(q) ==
    LET e == Head(q)
    IN  /\ outbox' = (outbox \ {q}) \cup ({Tail(q)} \ {<<>>})
        /\ IF link \in {"registered", "open"}
           THEN /\ view' = Apply(view, e)
                /\ contiguous' = (contiguous /\ e.version <= view.version + 1)
           ELSE UNCHANGED <<view, contiguous>>
        /\ UNCHANGED <<store, log, hostThreads, link, greeting>>

Next ==
    \/ \E p \in Participants : Join(p) \/ Leave(p) \/ Arrive(p) \/ Depart(p)
    \/ End
    \/ HostDepart
    \/ MarkHostDisconnected
    \/ HostArrive
    \/ RecoverHost
    \/ ViewerConnect
    \/ ViewerRegister
    \/ ViewerGreet
    \/ ViewerDrop
    \/ \E q \in outbox : Send(q)

Spec == Init /\ [][Next]_eventVars

-----------------------------------------------------------------------------
(***************************************************************************)
(* Properties                                                              *)
(***************************************************************************)

Snapshots == [status : RoomStatus, members : SUBSET Participants,
              online : SUBSET Participants, version : Nat]

EventTypes == {"participant.joined", "participant.left", "participant.online",
               "participant.offline", "room.closed", "host.disconnected",
               "host.reconnected"}

Events == [type : EventTypes, version : Nat, who : Participants \cup {None},
           status : RoomStatus]

TypeOK ==
    /\ store \in Store
    /\ log \in Seq(Snapshots)
    /\ \A q \in outbox : q \in Seq(Events) /\ q # <<>>
    /\ leaving \in Nat \cup {None}
    /\ arriving # None => arriving.owes \in Seq(Events)
    /\ link \in {"off", "connected", "registered", "open"}
    /\ greeting \in Snapshots \cup {None}
    /\ view \in Snapshots
    /\ contiguous \in BOOLEAN

\* The events say everything: a client that missed no version since its last
\* snapshot shows the room as it was at the version it shows, whichever scripts,
\* recoveries and endings made the versions.  Only whether the host is online is
\* not told exactly: host.disconnected and host.reconnected imply it.
ContiguousViewIsExact ==
    LET then == log[view.version + 1]
    IN  contiguous => /\ view.status = then.status
                      /\ view.members = then.members
                      /\ view.online \ {Host} = then.online \ {Host}

\* Once a client shows the room as ended, no event still under way in any thread
\* changes what it shows, in whatever order they are sent.  Only the snapshot its
\* session was still owed when the end overtook it can (room-events.ts:180).
EndedViewStays ==
    [][ view.status \in TerminalStatuses => view' \in {view, greeting} ]_eventVars

=============================================================================
