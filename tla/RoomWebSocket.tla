--------------------------- MODULE RoomWebSocket ---------------------------
(***************************************************************************)
(* RoomWebSocketHandler, the REST services that publish through it and its *)
(* scheduled tasks, for one room in one backend process, over the scripts  *)
(* of RoomScripts.                                                         *)
(*                                                                         *)
(* The handler keeps its own tables beside the store: the sessions of the  *)
(* room, the current connection of each participant, the pending expiry    *)
(* task and the pending host-reconnect task.  No lock covers a table and   *)
(* the store together.  Each action below is one access to shared state; a *)
(* callback is a chain of them under pc[c], so callbacks of different      *)
(* connections, REST requests and tasks interleave between any two.  The   *)
(* container runs the callbacks of one session one after the other.        *)
(*                                                                         *)
(* Messages to clients are left out but for their effects here: a send may *)
(* fail and end the callback, and room.closed and participant.left close   *)
(* the sessions they reach.  roomVersion is left out as well, as no script *)
(* reads it: RoomStore is about it.                                        *)
(***************************************************************************)
EXTENDS RoomScripts

CONSTANTS
    Owner,          \* [Connections -> Participants]: who opens the connection
    Steady,         \* connections their client never drops
    SendsMayFail,   \* whether sendMessage may throw IOException
    KeysLapse,      \* whether a presence key may reach its TTL
    MaxCrashes      \* bound on process restarts

ASSUME WebSocketAssumption ==
    /\ Owner \in [Connections -> Participants]
    /\ Steady \subseteq Connections
    /\ SendsMayFail \in BOOLEAN
    /\ KeysLapse \in BOOLEAN
    /\ MaxCrashes \in Nat

VARIABLES
    store,      \* Redis
    due,        \* expiresAt has passed
    open,       \* the connections whose socket is open
    pc,         \* where the callbacks of a connection are
    returning,  \* connections whose store.connect returned HOST_DISCONNECTED
    sessions,   \* sessionsByRoom: None, or the room's set with its identity
    emptied,    \* the identity of the set an unregister found empty
    current,    \* connectionsByParticipant
    grace,      \* connections whose host-reconnect task waits for its deadline
    graceTask,  \* hostReconnectTasksByRoom: whose task it holds, or None
    expiryTask, \* whether expiryTasksByRoom holds a task
    worker,     \* the task on the single scheduler thread and how far it is
    pending,    \* REST and task threads about to publish
    crashes     \* process restarts so far

wsVars == <<store, due, open, pc, returning, sessions, emptied, current, grace,
            graceTask, expiryTask, worker, pending, crashes>>

tables == <<sessions, emptied, current>>
timers == <<grace, graceTask, expiryTask, worker>>
outside == <<due, pending, crashes>>

\* afterConnectionEstablished runs from "connect" to "serving";
\* afterConnectionClosed runs from "serving" to "done".
Establishing == {"connect", "register", "cancelTimer", "recover", "greet"}
Closing == {"unmap", "disconnect", "mark", "schedule"}
Steps == {"unused"} \cup Establishing \cup {"serving"} \cup Closing \cup {"done", "lost"}

Init ==
    /\ store = NewRoom
    /\ due = FALSE
    /\ open = {}
    /\ pc = [c \in Connections |-> "unused"]
    /\ returning = {}
    /\ sessions = None
    /\ emptied = [c \in Connections |-> None]
    /\ current = [p \in Participants |-> None]
    /\ grace = {}
    /\ graceTask = None
    /\ expiryTask = FALSE
    /\ worker = None
    /\ pending = {}
    /\ crashes = 0

IsHost(c) == Owner[c] = Host

\* A script ran and left the room and its presence keys as in s.
Stored(s) == store' = [s EXCEPT !.version = 0]

Go(c, step) == pc' = [pc EXCEPT ![c] = step]

Registered == IF sessions = None THEN {} ELSE sessions.members

\* A broadcast stops with an IOException at the first session that fails.
SendFails == SendsMayFail /\ Registered # {}

-----------------------------------------------------------------------------
(***************************************************************************)
(* REST requests, from any thread at any time.                             *)
(***************************************************************************)

Join(p) ==
    /\ p \notin store.members
    /\ \A c \in Connections : Owner[c] = p => pc[c] = "unused"
    /\ JoinOutcome(store, None, due) = "JOINED"
    /\ Stored(JoinAfter(store, None, p, due))
    /\ UNCHANGED <<due, open, pc, returning, tables, timers, pending, crashes>>

Leave(p) ==
    /\ LeaveOutcome(store, p, due) = "LEFT"
    /\ Stored(LeaveAfter(store, p, due))
    /\ pending' = pending \cup {p}
    /\ UNCHANGED <<due, open, pc, returning, tables, timers, crashes>>

CloseByHost ==
    /\ CloseByHostOutcome(store, Host, TRUE, due) = "CLOSED"
    /\ Stored(CloseByHostAfter(store, Host, TRUE, due))
    /\ pending' = pending \cup {"room.closed"}
    /\ UNCHANGED <<due, open, pc, returning, tables, timers, crashes>>

-----------------------------------------------------------------------------
(***************************************************************************)
(* afterConnectionEstablished                                              *)
(***************************************************************************)

\* The handshake interceptor lets a participant of an available room through.
Handshake(c) ==
    /\ pc[c] = "unused"
    /\ AuthenticateOutcome(store, Owner[c], due) = "AUTHENTICATED"
    /\ open' = open \cup {c}
    /\ Go(c, "connect")
    /\ UNCHANGED <<store, returning, tables, timers, outside>>

Connect(c) ==
    /\ pc[c] = "connect"
    /\ Stored(ConnectAfter(store, Owner[c], c, due))
    /\ IF ConnectOutcome(store, Owner[c], due) \in {"ONLINE", "UNCHANGED"}
       THEN /\ Go(c, "register")
            /\ returning' = IF IsHost(c) /\ store.status = "HOST_DISCONNECTED"
                            THEN returning \cup {c}
                            ELSE returning
            /\ UNCHANGED open
       ELSE /\ Go(c, "serving")
            /\ open' = open \ {c}
            /\ UNCHANGED returning
    /\ UNCHANGED <<tables, timers, outside>>

\* The session joins the room's set, creating the set if the room has none,
\* and takes the participant's entry over from a previous connection, whose
\* socket is closed.
Register(c) ==
    /\ pc[c] = "register"
    /\ sessions' = IF sessions = None THEN [id |-> c, members |-> {c}]
                   ELSE [sessions EXCEPT !.members = @ \cup {c}]
    /\ current' = [current EXCEPT ![Owner[c]] = c]
    /\ open' = open \ {current[Owner[c]]}
    /\ Go(c, IF IsHost(c) THEN "cancelTimer" ELSE "greet")
    /\ UNCHANGED <<store, returning, emptied, timers, outside>>

\* cancel(false) stops a task that has not started; a running one goes on.
CancelHostReconnect ==
    /\ graceTask' = None
    /\ grace' = grace \ {graceTask}

\* Whether the host is back is decided by the status store.connect returned.
CancelTimer(c) ==
    /\ pc[c] = "cancelTimer"
    /\ CancelHostReconnect
    /\ Go(c, IF c \in returning THEN "recover" ELSE "greet")
    /\ returning' = returning \ {c}
    /\ UNCHANGED <<store, open, tables, expiryTask, worker, outside>>

RecoverHost(c) ==
    /\ pc[c] = "recover"
    /\ Stored(RecoverHostAfter(store))
    /\ Go(c, "greet")
    /\ UNCHANGED <<open, returning, tables, timers, outside>>

\* The snapshot is sent, the expiry task scheduled unless there is one, and
\* the presence change broadcast.  A failed send closes the session.
Greet(c) ==
    /\ pc[c] = "greet"
    /\ Go(c, "serving")
    /\ \/ /\ expiryTask' = TRUE
          /\ UNCHANGED open
       \/ /\ SendFails
          /\ expiryTask' \in {expiryTask, TRUE}
          /\ open' = open \ {c}
    /\ UNCHANGED <<store, returning, tables, grace, graceTask, worker, outside>>

-----------------------------------------------------------------------------
(***************************************************************************)
(* A serving connection                                                    *)
(***************************************************************************)

Heartbeat(c) ==
    /\ pc[c] = "serving"
    /\ c \in open
    /\ Stored(HeartbeatAfter(store, Owner[c], c, due))
    /\ \/ /\ HeartbeatOutcome(store, Owner[c], c, due) \in {"ONLINE", "UNCHANGED"}
          /\ UNCHANGED open
       \/ /\ \/ HeartbeatOutcome(store, Owner[c], c, due) \notin {"ONLINE", "UNCHANGED"}
             \/ HeartbeatOutcome(store, Owner[c], c, due) = "ONLINE" /\ SendFails
          /\ open' = open \ {c}
    /\ UNCHANGED <<pc, returning, tables, timers, outside>>

\* A chat message is relayed after a look at the stored room, which must still
\* be available to its author.
Chat(c) ==
    /\ pc[c] = "serving"
    /\ c \in open
    /\ AuthenticateOutcome(store, Owner[c], due) # "AUTHENTICATED"
    /\ open' = open \ {c}
    /\ UNCHANGED <<store, pc, returning, tables, timers, outside>>

\* The client goes away: tab closed, page reloaded, network lost.
Drop(c) ==
    /\ c \in open \ Steady
    /\ open' = open \ {c}
    /\ UNCHANGED <<store, pc, returning, tables, timers, outside>>

-----------------------------------------------------------------------------
(***************************************************************************)
(* afterConnectionClosed                                                   *)
(***************************************************************************)

\* unregister takes the session out of the room's set and tests the set for
\* emptiness; removing the set from the map is a later access.
Unregister(c) ==
    /\ pc[c] = "serving"
    /\ c \notin open
    /\ sessions' = IF sessions = None THEN None
                   ELSE [sessions EXCEPT !.members = @ \ {c}]
    /\ IF sessions # None /\ Registered \subseteq {c}
       THEN /\ Go(c, "unmap")
            /\ emptied' = [emptied EXCEPT ![c] = sessions.id]
       ELSE /\ Go(c, "disconnect")
            /\ UNCHANGED emptied
    /\ UNCHANGED <<store, open, returning, current, timers, outside>>

\* The set goes if the map still holds it, whatever it contains by now (sets
\* are told apart by identity here; two are equal only when both are empty),
\* and the room's host-reconnect task is cancelled.
Unmap(c) ==
    /\ pc[c] = "unmap"
    /\ sessions' = IF sessions # None /\ sessions.id = emptied[c] THEN None ELSE sessions
    /\ emptied' = [emptied EXCEPT ![c] = None]
    /\ CancelHostReconnect
    /\ Go(c, "disconnect")
    /\ UNCHANGED <<store, open, returning, current, expiryTask, worker, outside>>

TellStore_OnlyCurrent(c) ==
    IF current[Owner[c]] = c THEN Stored(DisconnectAfter(store, Owner[c], c))
    ELSE UNCHANGED store

RemoveEntry_IfServed(c) ==
    current' = [current EXCEPT ![Owner[c]] = IF @ = c /\ sessions # None THEN None ELSE @]

\* The participant's entry goes if it is still this connection's.
RemoveEntry(c) ==
    current' = [current EXCEPT ![Owner[c]] = IF @ = c THEN None ELSE @]

\* The store is told of every closed connection and decides itself whether it
\* was the participant's latest.
TellStore(c) == Stored(DisconnectAfter(store, Owner[c], c))

\* The presence change is broadcast before the host's absence is considered.
Disconnect(c) ==
    LET hostLost == IsHost(c) /\ DisconnectOutcome(store, Host, c) = "OFFLINE"
    IN  /\ pc[c] = "disconnect"
        /\ RemoveEntry(c)
        /\ TellStore(c)
        /\ \/ Go(c, IF hostLost THEN "mark" ELSE "done")
           \/ SendFails /\ Go(c, "done")
        /\ UNCHANGED <<open, returning, sessions, emptied, timers, outside>>

MarkHostDisconnected(c) ==
    /\ pc[c] = "mark"
    /\ Stored(MarkHostDisconnectedAfter(store))
    /\ \/ Go(c, IF MarkHostDisconnectedOutcome(store) = "CHANGED" THEN "schedule" ELSE "done")
       \/ SendFails /\ Go(c, "done")
    /\ UNCHANGED <<open, returning, tables, timers, outside>>

\* The new task takes the place of the one in the map, which is cancelled
\* unless it has started.
ScheduleHostReconnect(c) ==
    /\ pc[c] = "schedule"
    /\ grace' = (grace \ {graceTask}) \cup {c}
    /\ graceTask' = c
    /\ Go(c, "done")
    /\ UNCHANGED <<store, open, returning, tables, expiryTask, worker, outside>>

-----------------------------------------------------------------------------
(***************************************************************************)
(* Scheduled tasks; the scheduler has one thread.                          *)
(***************************************************************************)

Running(t, step) == worker = [task |-> t, step |-> step]

StartGraceTask(t) ==
    /\ worker = None
    /\ t \in grace
    /\ grace' = grace \ {t}
    /\ worker' = [task |-> t, step |-> "started"]
    /\ UNCHANGED <<store, open, pc, returning, tables, graceTask, expiryTask, outside>>

\* closeAbandonedRoom begins by removing whatever task the map holds.
ForgetGraceTask(t) ==
    /\ Running(t, "started")
    /\ graceTask' = None
    /\ worker' = [worker EXCEPT !.step = "closing"]
    /\ UNCHANGED <<store, open, pc, returning, tables, grace, expiryTask, outside>>

CloseAbandonedRoom(t) ==
    /\ Running(t, "closing")
    /\ Stored(CloseAbandonedAfter(store))
    /\ pending' = IF CloseAbandonedOutcome(store) = "CHANGED"
                  THEN pending \cup {"room.closed"}
                  ELSE pending
    /\ worker' = None
    /\ UNCHANGED <<due, open, pc, returning, tables, grace, graceTask, expiryTask, crashes>>

StartExpiryTask ==
    /\ worker = None
    /\ expiryTask
    /\ due
    /\ expiryTask' = FALSE
    /\ worker' = [task |-> "expiry", step |-> "closing"]
    /\ UNCHANGED <<store, open, pc, returning, tables, grace, graceTask, outside>>

ExpireRoom ==
    /\ Running("expiry", "closing")
    /\ Stored(ExpireAfter(store, TRUE))
    /\ pending' = IF ExpireOutcome(store, TRUE) = "EXPIRED"
                  THEN pending \cup {"room.closed"}
                  ELSE pending
    /\ worker' = None
    /\ UNCHANGED <<due, open, pc, returning, tables, grace, graceTask, expiryTask, crashes>>

-----------------------------------------------------------------------------
(***************************************************************************)
(* Publications: the thread whose script ended the room or removed a       *)
(* participant then closes the registered sessions concerned, until one of *)
(* them fails.                                                             *)
(***************************************************************************)

CloseSessions(concerned) ==
    \/ open' = open \ concerned
    \/ /\ SendFails
       /\ \E reached \in SUBSET concerned : open' = open \ reached

PublishRoomClosed ==
    /\ "room.closed" \in pending
    /\ pending' = pending \ {"room.closed"}
    /\ expiryTask' = FALSE
    /\ CancelHostReconnect
    /\ CloseSessions(Registered)
    /\ UNCHANGED <<store, due, pc, returning, tables, worker, crashes>>

PublishParticipantLeft(p) ==
    /\ p \in pending
    /\ pending' = pending \ {p}
    /\ CloseSessions({c \in Registered : Owner[c] = p})
    /\ UNCHANGED <<store, due, pc, returning, tables, timers, crashes>>

-----------------------------------------------------------------------------
(***************************************************************************)
(* Time and failure                                                        *)
(***************************************************************************)

ReachExpiry ==
    /\ ~due
    /\ due' = TRUE
    /\ UNCHANGED <<store, open, pc, returning, tables, timers, pending, crashes>>

LapsePresenceKey(p) ==
    /\ KeysLapse
    /\ store.presence[p] # None
    /\ Stored(PresenceKeyLapsed(store, p))
    /\ UNCHANGED <<open, pc, returning, tables, timers, outside>>

\* A restart loses sockets, tables and tasks and every callback half way; no
\* close callback runs.  Redis keeps the room.
Crash ==
    /\ crashes < MaxCrashes
    /\ crashes' = crashes + 1
    /\ open' = {}
    /\ pc' = [c \in Connections |-> IF pc[c] = "unused" THEN "unused" ELSE "lost"]
    /\ sessions' = None
    /\ emptied' = [c \in Connections |-> None]
    /\ current' = [p \in Participants |-> None]
    /\ grace' = {}
    /\ graceTask' = None
    /\ expiryTask' = FALSE
    /\ worker' = None
    /\ pending' = {}
    /\ returning' = {}
    /\ UNCHANGED <<store, due>>

-----------------------------------------------------------------------------
\* What the threads of a connection do of their own accord.
Callback(c) ==
    \/ Connect(c)
    \/ Register(c)
    \/ CancelTimer(c)
    \/ RecoverHost(c)
    \/ Greet(c)
    \/ Unregister(c)
    \/ Unmap(c)
    \/ Disconnect(c)
    \/ MarkHostDisconnected(c)
    \/ ScheduleHostReconnect(c)

Task ==
    \/ \E t \in Connections : StartGraceTask(t) \/ ForgetGraceTask(t) \/ CloseAbandonedRoom(t)
    \/ StartExpiryTask
    \/ ExpireRoom

Publish ==
    \/ PublishRoomClosed
    \/ \E p \in Participants : PublishParticipantLeft(p)

Next ==
    \/ \E c \in Connections : Handshake(c) \/ Callback(c) \/ Heartbeat(c) \/ Chat(c) \/ Drop(c)
    \/ \E p \in Participants : Join(p) \/ Leave(p) \/ LapsePresenceKey(p)
    \/ CloseByHost
    \/ Task
    \/ Publish
    \/ ReachExpiry
    \/ Crash

Spec == Init /\ [][Next]_wsVars

\* Threads that have started run on, the scheduler runs due tasks, and a client
\* with an open socket keeps sending heartbeats (a silent one is closed by the
\* container's idle timeout, which equals the presence TTL).
Fairness ==
    /\ \A c \in Connections : WF_wsVars(Callback(c)) /\ WF_wsVars(Heartbeat(c))
    /\ WF_wsVars(Task)
    /\ WF_wsVars(Publish)

FairSpec == Spec /\ Fairness

-----------------------------------------------------------------------------
(***************************************************************************)
(* Properties                                                              *)
(***************************************************************************)

TypeOK ==
    /\ store \in Store
    /\ due \in BOOLEAN
    /\ open \subseteq Connections
    /\ pc \in [Connections -> Steps]
    /\ returning \subseteq Connections
    /\ sessions \in [id : Connections, members : SUBSET Connections] \cup {None}
    /\ emptied \in [Connections -> Connections \cup {None}]
    /\ current \in [Participants -> Connections \cup {None}]
    /\ grace \subseteq Connections
    /\ graceTask \in Connections \cup {None}
    /\ expiryTask \in BOOLEAN
    /\ worker \in [task : Connections \cup {"expiry"}, step : {"started", "closing"}] \cup {None}
    /\ pending \subseteq Participants \cup {"room.closed"}
    /\ crashes \in Nat

\* The presence key of a participant is never left to a connection whose close
\* callback has finished: it would make every later heartbeat of the same
\* participant "stale" until the key's TTL.
NoStalePresence ==
    \A p \in Participants :
        store.presence[p] # None => pc[store.presence[p]] # "done"

\* Once the callbacks of all of a participant's connections have finished, the
\* room no longer shows the participant online, however connects, disconnects,
\* heartbeats and key expiries were ordered.
NoGhost ==
    \A p \in store.online :
        (\E c \in Connections : Owner[c] = p /\ pc[c] = "done")
          => \E c \in Connections : Owner[c] = p /\ pc[c] \notin {"unused", "done", "lost"}

\* The handler's tables keep nothing of a connection whose callbacks have
\* finished: neither a set that was found empty and is unmapped while another
\* connection registers in it, nor an entry that a newer connection of the same
\* participant takes over during the close, leaves a closed session behind to be
\* sent to.
NoLeakedSession ==
    \A c \in Connections :
        pc[c] = "done" => c \notin Registered /\ current[Owner[c]] # c

\* A connection that has no business in the room any more.
Unwelcome(c) == Owner[c] \notin store.members \/ store.status \in TerminalStatuses

\* A socket of an ended room, or of a participant without a seat, does not stay
\* open: if the publication misses it, its next heartbeat is refused.
UnwelcomeSocketsClose ==
    \A c \in Connections : (c \in open /\ Unwelcome(c)) ~> c \notin open

\* A participant whose connection the handler accepted and nothing replaced.
Served(p) ==
    \E c \in Connections : Owner[c] = p /\ pc[c] = "serving" /\ c \in open /\ current[p] = c

\* Whoever is being served is shown as online, at the latest after its next
\* heartbeat, even if its key lapsed and an older connection's close took it off.
ServedBecomesVisible ==
    \A p \in Participants : Served(p) ~> (p \in store.online \/ ~Served(p))

\* The host is away, none of its connections is in progress, and a guest is
\* being served.
Abandoned ==
    /\ store.status = "HOST_DISCONNECTED"
    /\ \A c \in Connections : IsHost(c) => pc[c] \in {"unused", "done", "lost"}
    /\ \E c \in Connections : c \in open /\ pc[c] = "serving"

\* Guests are not left waiting for a host that does not come back: the room
\* does not stay abandoned for ever.  (WT-402: the room is closed with
\* HOST_TIMEOUT when the grace period ends.)
AbandonmentEnds == []<>~Abandoned

Lifecycle == INSTANCE RoomLifecycle
    WITH phase <- PhaseOf(store.status), seats <- store.members, audience <- store.online

\* However callbacks, tasks and requests of the handler interleave, what they
\* make of the stored room is a life of RoomLifecycle: no request that read the
\* room before a change and acts after it revives the room, ends it twice,
\* takes a seat above the limit or shows somebody without a seat.
ImplementsLifecycle == Lifecycle!Spec

=============================================================================
