----------------------------- MODULE RoomSocket -----------------------------
(***************************************************************************)
(* The WebSocket of one browser tab: the part of useRoomSession that opens *)
(* the socket, reconnects it with a limited number of attempts, and takes  *)
(* it down when the user leaves or closes the room.  REST requests are in  *)
(* flight while socket events arrive, and what the socket tells may clear  *)
(* pendingAction before the answer is there, so that several are at once.  *)
(* A request may fail although the server has done what it asked, and the  *)
(* network may fail at any time.                                           *)
(*                                                                         *)
(* React state and the refs that mirror it are one here.  Callbacks of a   *)
(* socket that is no longer socketRef.current return at once, so only the  *)
(* current one is modelled.  A definition X_Fault is a faulty variant of X  *)
(* that no module uses.                                                    *)
(***************************************************************************)
EXTENDS Naturals, FiniteSetsExt

CONSTANTS
    MaxAttempts,   \* MAX_ROOM_RECONNECT_ATTEMPTS
    MaxRequests    \* bound on the REST requests in flight at once

ASSUME SocketAssumption == MaxAttempts \in Nat /\ MaxRequests \in Nat \ {0}

VARIABLES
    room,       \* what the tab shows: no room, a live one, an ended one
    role,       \* the participant's role in it
    conn,       \* connectionStatus
    sock,       \* the socket of socketRef
    timer,      \* whether a reconnect is scheduled
    attempts,   \* socketReconnectAttemptRef
    heartbeat,  \* whether the heartbeat interval runs
    pending,    \* pendingAction
    requests,   \* how many REST requests of each kind are in flight
    alive,      \* that room is available on the server
    seat        \* the server has the participant in it

socketVars == <<room, role, conn, sock, timer, attempts, heartbeat, pending,
                requests, alive, seat>>

line == <<conn, sock, timer, attempts, heartbeat>>
server == <<alive, seat>>

Enters == {"create", "join", "restore"}

Actions == Enters \cup {"leave", "close"}

\* A leave or close is on its way to the room of the tab ("room"), or to one the
\* tab has entered another after ("former"); then its answer is on its way back.
\* What the server has done for the others, only the answer tells.
Request(what) == [what |-> what, at |-> IF what \in Enters THEN "back" ELSE "room"]

Requests ==
    [what : Enters, at : {"back"}] \cup [what : Actions \ Enters, at : {"room", "former", "back"}]

Init ==
    /\ room = "none"
    /\ role = "none"
    /\ conn = "idle"
    /\ sock = "none"
    /\ timer = "none"
    /\ attempts = 0
    /\ heartbeat = "off"
    /\ pending = "none"
    /\ requests = [r \in Requests |-> 0]
    /\ alive = TRUE
    /\ seat = FALSE

-----------------------------------------------------------------------------
(***************************************************************************)
(* disconnectSocket, scheduleRoomReconnect and connectRoomEvents           *)
(***************************************************************************)

DisconnectSocket_KeepsTimer(status, reset, next) ==
    /\ attempts' = IF reset THEN 0 ELSE attempts
    /\ sock' = next
    /\ heartbeat' = "off"
    /\ conn' = status
    /\ UNCHANGED timer

\* The socket and all that belongs to it go; next is what takes its place.
DisconnectSocket(status, reset, next) ==
    /\ timer' = "none"
    /\ attempts' = IF reset THEN 0 ELSE attempts
    /\ sock' = next
    /\ heartbeat' = "off"
    /\ conn' = status

ScheduleRoomReconnect_CountsNothing ==
    /\ sock' = "none"
    /\ heartbeat' = "off"
    /\ timer' = "set"
    /\ conn' = "reconnecting"
    /\ UNCHANGED attempts

\* The socket is down; try again later unless the attempts are used up.
ScheduleRoomReconnect ==
    /\ sock' = "none"
    /\ heartbeat' = "off"
    /\ IF attempts >= MaxAttempts
       THEN /\ timer' = "none"
            /\ conn' = "error"
            /\ UNCHANGED attempts
       ELSE /\ timer' = "set"
            /\ conn' = "reconnecting"
            /\ attempts' = attempts + 1

ConnectRoomEvents(status, reset) == DisconnectSocket(status, reset, "opening")

-----------------------------------------------------------------------------
(***************************************************************************)
(* Socket callbacks                                                        *)
(***************************************************************************)

OnOpen ==
    /\ sock = "opening"
    /\ alive /\ seat
    /\ sock' = "open"
    /\ attempts' = 0
    /\ timer' = "none"
    /\ heartbeat' = "on"
    /\ conn' = "open"
    /\ UNCHANGED <<room, role, pending, requests, server>>

\* Why the socket may close, by close code: the handshake was refused or the
\* network failed (1006); the room ended, the participant left, or another tab
\* took over (1000); the server refused the connection (1008).
CloseCodes ==
    {1006} \cup (IF sock = "open" THEN {1000} ELSE {})
           \cup (IF sock = "open" /\ ~(alive /\ seat) THEN {1008} ELSE {})

Intentional(code) ==
    code = 1000 \/ pending \in {"close", "leave"} \/ room = "ended"

PendingAfterClose_LeaveOnly == IF pending = "leave" THEN "none" ELSE pending

\* The action is no longer pending, although its request may still be.
PendingAfterClose == IF pending \in {"close", "leave"} THEN "none" ELSE pending

OnClose(code) ==
    /\ sock # "none"
    /\ code \in CloseCodes
    /\ IF Intentional(code)
       THEN /\ sock' = "none"
            /\ heartbeat' = "off"
            /\ conn' = "closed"
            /\ pending' = PendingAfterClose
            /\ room' = IF pending = "close" THEN "ended" ELSE room
            /\ UNCHANGED <<timer, attempts>>
       ELSE /\ ScheduleRoomReconnect
            /\ UNCHANGED <<pending, room>>
    /\ UNCHANGED <<role, requests, server>>

\* The room.closed event; the close of the socket follows.
OnRoomClosed ==
    /\ sock = "open"
    /\ ~alive
    /\ room = "live"
    /\ room' = "ended"
    /\ conn' = "closed"
    /\ pending' = "none"
    /\ UNCHANGED <<role, sock, timer, attempts, heartbeat, requests, server>>

\* The room.snapshot the session was owed, which room.closed has overtaken.
OnLateSnapshot ==
    /\ sock = "open"
    /\ ~alive
    /\ room = "ended"
    /\ room' = "live"
    /\ UNCHANGED <<role, line, pending, requests, server>>

-----------------------------------------------------------------------------
(***************************************************************************)
(* Timer, browser and user                                                 *)
(***************************************************************************)

OnReconnectTimer ==
    /\ timer = "set"
    /\ IF room = "live"
       THEN ConnectRoomEvents("reconnecting", FALSE)
       ELSE /\ timer' = "none"
            /\ conn' = IF room = "none" THEN "idle" ELSE "closed"
            /\ UNCHANGED <<sock, attempts, heartbeat>>
    /\ UNCHANGED <<room, role, pending, requests, server>>

OnOffline ==
    /\ room = "live"
    /\ sock # "none"
    /\ ScheduleRoomReconnect
    /\ UNCHANGED <<room, role, pending, requests, server>>

\* The button of the banner that an exhausted reconnect, or an event that could
\* not be read, leaves on screen.
RetryRoomConnection ==
    /\ conn \in {"error", "open", "closed"}
    /\ room = "live"
    /\ ConnectRoomEvents("reconnecting", TRUE)
    /\ UNCHANGED <<room, role, pending, requests, server>>

\* No action looks at what is in flight; buttons do at pendingAction.
Ask(what) ==
    /\ MapThenSumSet(LAMBDA r : requests[r], Requests) < MaxRequests
    /\ requests' = [requests EXCEPT ![Request(what)] = @ + 1]
    /\ pending' = what
    /\ UNCHANGED <<room, role, line, server>>

\* create, join or restore, possibly of the room of before
AskEnter(what) == Ask(what)

AskLeave ==
    /\ room # "none"
    /\ Ask("leave")

AskClose ==
    /\ room # "none"
    /\ Ask("close")

-----------------------------------------------------------------------------
(***************************************************************************)
(* The server and the answers of its REST API                              *)
(***************************************************************************)

\* A leave or close of a former room is served by that room, which may be the
\* one the tab has entered again.
Serve(r) ==
    /\ requests[r] > 0 /\ r.at # "back"
    /\ requests' = [requests EXCEPT ![r] = @ - 1, ![[r EXCEPT !.at = "back"]] = @ + 1]
    /\ \/ r.at = "former" /\ UNCHANGED server
       \/ r.what = "leave" /\ alive
          /\ seat' = FALSE /\ UNCHANGED alive
       \/ r.what = "close" /\ alive
          /\ alive' = FALSE /\ UNCHANGED seat
    /\ UNCHANGED <<room, role, line, pending>>

Answered(r) ==
    /\ requests[r] > 0
    /\ requests' = [requests EXCEPT ![r] = @ - 1]

\* What is on its way to the room of the tab will get to a former one.
Overtaken(r) ==
    CASE r.at = "room"   -> 0
      [] r.at = "former" -> requests[r] + requests[[r EXCEPT !.at = "room"]]
      [] r.at = "back"   -> requests[r]

\* Who one is in a room entered that way, as far as the tab knows
RolesOf(what) ==
    CASE what = "create" -> {"HOST"} [] what = "join" -> {"GUEST"}
      [] OTHER -> {"HOST", "GUEST"}

\* The tab turns to the room the answer tells of, which may have ended since.
EnterSucceeds(r) ==
    /\ r.what \in Enters /\ requests[r] > 0
    /\ requests' = [q \in Requests |-> IF q = r THEN requests[r] - 1 ELSE Overtaken(q)]
    /\ room' = "live"
    /\ role' \in RolesOf(r.what)
    /\ pending' = "none"
    /\ alive' \in BOOLEAN
    /\ seat' = TRUE
    /\ ConnectRoomEvents("connecting", TRUE)

\* Takes down whatever the tab shows by now.
LeaveSucceeds(r) ==
    /\ r = [what |-> "leave", at |-> "back"]
    /\ Answered(r)
    /\ DisconnectSocket("idle", TRUE, "none")
    /\ room' = "none"
    /\ role' = "none"
    /\ pending' = "none"
    /\ UNCHANGED server

\* pendingAction stays until the socket tells that the room has closed.
CloseSucceeds(r) ==
    /\ r = [what |-> "close", at |-> "back"]
    /\ Answered(r)
    /\ UNCHANGED <<room, role, line, pending, server>>

\* The request failed, or its answer was lost.
RequestFails(r) ==
    /\ Answered(r)
    /\ pending' = "none"
    /\ UNCHANGED <<room, role, line, server>>

\* The page leaves the invite route while its room is being restored: the
\* request is aborted and nothing comes of it, not even for pendingAction.
RestoreAborted(r) ==
    /\ r.what = "restore"
    /\ Answered(r)
    /\ UNCHANGED <<room, role, line, pending, server>>

\* Another participant, the grace task or the expiry task ends the room.
RoomEnds ==
    /\ alive
    /\ alive' = FALSE
    /\ UNCHANGED <<room, role, line, pending, requests, seat>>

Next ==
    \/ OnOpen
    \/ \E code \in {1000, 1006, 1008} : OnClose(code)
    \/ OnRoomClosed
    \/ OnLateSnapshot
    \/ OnReconnectTimer
    \/ OnOffline
    \/ RetryRoomConnection
    \/ \E what \in Enters : AskEnter(what)
    \/ AskLeave
    \/ AskClose
    \/ \E r \in Requests :
          \/ Serve(r)
          \/ EnterSucceeds(r)
          \/ LeaveSucceeds(r)
          \/ CloseSucceeds(r)
          \/ RequestFails(r)
          \/ RestoreAborted(r)
    \/ RoomEnds

Spec == Init /\ [][Next]_socketVars

SocketEvent == OnOpen \/ (\E code \in {1000, 1006, 1008} : OnClose(code))

AnswerToClose == \E r \in Requests : r.what = "close" /\ (CloseSucceeds(r) \/ RequestFails(r))

\* A socket that is opening opens or fails, one the server has no use for is
\* closed, timers fire, and a request to close the room is answered or fails.
Fairness ==
    /\ WF_socketVars(sock = "opening" /\ SocketEvent)
    /\ WF_socketVars(~(alive /\ seat) /\ SocketEvent)
    /\ WF_socketVars(OnReconnectTimer)
    /\ WF_socketVars(AnswerToClose)

-----------------------------------------------------------------------------
(***************************************************************************)
(* Properties                                                              *)
(***************************************************************************)

TypeOK ==
    /\ room \in {"none", "live", "ended"}
    /\ role \in {"none", "HOST", "GUEST"}
    /\ conn \in {"idle", "connecting", "open", "reconnecting", "closed", "error"}
    /\ sock \in {"none", "opening", "open"}
    /\ timer \in {"none", "set"}
    /\ attempts \in 0 .. MaxAttempts
    /\ heartbeat \in {"off", "on"}
    /\ pending \in {"none"} \cup Actions
    /\ requests \in [Requests -> Nat]
    /\ alive \in BOOLEAN
    /\ seat \in BOOLEAN

\* The tab never has a socket and a scheduled reconnect at once, however leaves,
\* offline events, retries and timers follow each other: the timer would replace
\* a socket that works.
OneLine == timer = "set" => sock = "none"

\* Heartbeats are sent through the current open socket and never without one.
HeartbeatWithSocket == heartbeat = "on" <=> sock = "open"

\* A tab that shows "reconnecting" gets out of it: it opens, ends or gives up
\* after the last attempt.  (WT-406: no endless reconnecting.)
ReconnectingEnds == conn = "reconnecting" ~> conn # "reconnecting"

\* A host that closes its room is not left waiting for it while the tab has a
\* line or is about to try one: pendingAction, which the answer leaves alone,
\* ends with what the socket tells, or the reconnects are given up and say so.
PendingCloseEnds ==
    (pending = "close" /\ (sock # "none" \/ timer = "set"))
        ~> (pending # "close" \/ conn = "error")

=============================================================================
