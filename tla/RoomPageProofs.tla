---------------------------- MODULE RoomPageProofs ----------------------------
(***************************************************************************)
(* Proofs about the socket of a tab (RoomSocket) and the page around it    *)
(* (RoomPage), for every number of reconnect attempts and of requests in   *)
(* flight.                                                                 *)
(*                                                                         *)
(* The two invariants of the line, together with the types, are inductive: *)
(* a step that starts a timer takes the socket down, a step that starts a  *)
(* socket clears the timer, and the heartbeat follows the socket.  Every   *)
(* step of the page is one of the socket or leaves it alone, so the page   *)
(* keeps them.                                                             *)
(***************************************************************************)
EXTENDS RoomPage, TLAPS

-----------------------------------------------------------------------------
(***************************************************************************)
(* The socket                                                              *)
(***************************************************************************)

Inv == TypeOK /\ OneLine /\ HeartbeatWithSocket

\* What every action on the line establishes, whatever was there before.
LEMMA DisconnectSocketLine ==
    ASSUME TypeOK,
           NEW status \in {"idle", "connecting", "open", "reconnecting", "closed", "error"},
           NEW reset \in BOOLEAN,
           NEW next \in {"none", "opening"},
           DisconnectSocket(status, reset, next)
    PROVE  /\ timer' = "none" /\ heartbeat' = "off"
           /\ sock' = next /\ conn' = status
           /\ attempts' \in 0 .. MaxAttempts
BY SocketAssumption DEF DisconnectSocket, TypeOK

\* A scheduled reconnect never takes more than the allowed attempts.
LEMMA ScheduleRoomReconnectLine ==
    ASSUME TypeOK, ScheduleRoomReconnect
    PROVE  /\ timer' \in {"none", "set"} /\ heartbeat' = "off"
           /\ sock' = "none" /\ conn' \in {"reconnecting", "error"}
           /\ attempts' \in 0 .. MaxAttempts
BY SocketAssumption DEF ScheduleRoomReconnect, TypeOK

\* A request that is asked, or an answer that is dealt with, is counted.
LEMMA RequestTypes ==
    ASSUME TypeOK
    PROVE  /\ \A r \in Requests : Answered(r) => requests' \in [Requests -> Nat]
           /\ \A what \in Actions : Ask(what) => requests' \in [Requests -> Nat]
<1>1. requests \in [Requests -> Nat]
    BY DEF TypeOK
<1>2. ASSUME NEW r \in Requests, Answered(r)
      PROVE  requests' \in [Requests -> Nat]
    <2>1. requests[r] \in Nat /\ requests[r] > 0
        BY <1>1, <1>2 DEF Answered
    <2>2. requests[r] - 1 \in Nat
        BY <2>1
    <2> QED
        BY <1>1, <1>2, <2>2 DEF Answered
<1>3. ASSUME NEW what \in Actions, Ask(what)
      PROVE  requests' \in [Requests -> Nat]
    <2>1. requests' = [requests EXCEPT ![Request(what)] = @ + 1]
        BY <1>3 DEF Ask
    <2>2. \A r \in Requests : requests[r] + 1 \in Nat
        BY <1>1
    <2> QED
        BY <1>1, <2>1, <2>2
<1> QED
    BY <1>2, <1>3

\* A request of a former room is served by it.
LEMMA OvertakenTypes ==
    ASSUME TypeOK, NEW q \in Requests
    PROVE  Overtaken(q) \in Nat
<1>1. requests \in [Requests -> Nat]
    BY DEF TypeOK
<1>2. q.at \in {"room", "former", "back"}
    BY DEF Requests
<1>3. CASE q.at = "former"
    <2>1. [q EXCEPT !.at = "room"] \in Requests
        BY <1>3 DEF Requests
    <2> QED
        BY <1>1, <1>3, <2>1 DEF Overtaken
<1> QED
    BY <1>1, <1>2, <1>3 DEF Overtaken

\* Nothing runs in a tab that has just been opened.
LEMMA InitInv == Init => Inv
<1> SUFFICES ASSUME Init
             PROVE  Inv
    OBVIOUS
<1>1. attempts \in 0 .. MaxAttempts
    BY SocketAssumption DEF Init
<1>2. TypeOK
    BY <1>1 DEF Init, TypeOK
<1>3. OneLine /\ HeartbeatWithSocket
    BY DEF Init, OneLine, HeartbeatWithSocket
<1> QED
    BY <1>2, <1>3 DEF Inv

\* Every step of the tab and of its surroundings preserves Inv.
LEMMA StepInv == Inv /\ [Next]_socketVars => Inv'
<1> SUFFICES ASSUME Inv, [Next]_socketVars
             PROVE  Inv'
    OBVIOUS
<1> USE SocketAssumption DEF Inv
<1>1. CASE OnOpen
    BY <1>1 DEF OnOpen, server, TypeOK, OneLine, HeartbeatWithSocket
<1>2. ASSUME NEW code \in {1000, 1006, 1008}, OnClose(code)
      PROVE  Inv'
    <2>1. CASE Intentional(code)
        BY <1>2, <2>1 DEF OnClose, PendingAfterClose, server, TypeOK, OneLine, HeartbeatWithSocket
    <2>2. CASE ~Intentional(code)
        <3>1. ScheduleRoomReconnect
            BY <1>2, <2>2 DEF OnClose
        <3> QED
            BY <1>2, <2>2, <3>1, ScheduleRoomReconnectLine
            DEF OnClose, server, TypeOK, OneLine, HeartbeatWithSocket
    <2> QED
        BY <2>1, <2>2
<1>3. CASE OnRoomClosed \/ OnLateSnapshot
    BY <1>3 DEF OnRoomClosed, OnLateSnapshot, line, server, TypeOK, OneLine, HeartbeatWithSocket
<1>4. CASE OnReconnectTimer
    <2>1. CASE room = "live"
        <3>1. DisconnectSocket("reconnecting", FALSE, "opening")
            BY <1>4, <2>1 DEF OnReconnectTimer, ConnectRoomEvents
        <3> QED
            BY <1>4, <3>1, DisconnectSocketLine
            DEF OnReconnectTimer, server, TypeOK, OneLine, HeartbeatWithSocket
    <2>2. CASE room # "live"
        BY <1>4, <2>2
        DEF OnReconnectTimer, server, TypeOK, OneLine, HeartbeatWithSocket
    <2> QED
        BY <2>1, <2>2
<1>5. CASE OnOffline
    BY <1>5, ScheduleRoomReconnectLine
    DEF OnOffline, server, TypeOK, OneLine, HeartbeatWithSocket
<1>6. CASE RetryRoomConnection
    <2>1. DisconnectSocket("reconnecting", TRUE, "opening")
        BY <1>6 DEF RetryRoomConnection, ConnectRoomEvents
    <2> QED
        BY <1>6, <2>1, DisconnectSocketLine
        DEF RetryRoomConnection, server, TypeOK, OneLine, HeartbeatWithSocket
<1>7. ASSUME NEW what \in Actions, Ask(what)
      PROVE  Inv'
    <2>1. requests' \in [Requests -> Nat]
        BY <1>7, RequestTypes
    <2> QED
        BY <1>7, <2>1 DEF Ask, line, server, TypeOK, OneLine, HeartbeatWithSocket
<1>8. CASE (\E what \in Enters : AskEnter(what)) \/ AskLeave \/ AskClose
    BY <1>7, <1>8 DEF AskEnter, AskLeave, AskClose, Actions
<1>9. CASE RoomEnds
    BY <1>9 DEF RoomEnds, line, TypeOK, OneLine, HeartbeatWithSocket
<1>14. ASSUME NEW r \in Requests, Serve(r)
       PROVE  Inv'
    <2>1. requests' \in [Requests -> Nat]
        <3>1. requests \in [Requests -> Nat] /\ requests[r] > 0
            BY <1>14 DEF Serve, TypeOK
        <3>2. \A q \in Requests : requests[q] + 1 \in Nat
            BY <3>1
        <3>3. requests[r] - 1 \in Nat
            BY <3>1
        <3>4. r # [r EXCEPT !.at = "back"]
            BY <1>14 DEF Serve, Requests
        <3>5. requests' = [requests EXCEPT ![r] = @ - 1, ![[r EXCEPT !.at = "back"]] = @ + 1]
            BY <1>14 DEF Serve
        <3> QED
            BY <3>1, <3>2, <3>3, <3>4, <3>5
    <2>2. alive' \in BOOLEAN /\ seat' \in BOOLEAN
        BY <1>14 DEF Serve, server, TypeOK
    <2> QED
        BY <1>14, <2>1, <2>2 DEF Serve, line, TypeOK, OneLine, HeartbeatWithSocket
<1>10. ASSUME NEW r \in Requests, EnterSucceeds(r)
       PROVE  Inv'
    <2>1. DisconnectSocket("connecting", TRUE, "opening")
        BY <1>10 DEF EnterSucceeds, ConnectRoomEvents
    <2>2. requests' \in [Requests -> Nat]
        <3>1. requests[r] - 1 \in Nat
            BY <1>10 DEF EnterSucceeds, TypeOK
        <3>2. requests' = [q \in Requests |-> IF q = r THEN requests[r] - 1 ELSE Overtaken(q)]
            BY <1>10 DEF EnterSucceeds
        <3> QED
            BY <3>1, <3>2, OvertakenTypes
    <2>3. role' \in {"none", "HOST", "GUEST"}
        BY <1>10 DEF EnterSucceeds, RolesOf
    <2> QED
        BY <1>10, <2>1, <2>2, <2>3, DisconnectSocketLine
        DEF EnterSucceeds, TypeOK, OneLine, HeartbeatWithSocket
<1>11. ASSUME NEW r \in Requests, LeaveSucceeds(r)
       PROVE  Inv'
    <2>1. requests' \in [Requests -> Nat]
        BY <1>11, RequestTypes DEF LeaveSucceeds
    <2> QED
        BY <1>11, <2>1, DisconnectSocketLine
        DEF LeaveSucceeds, server, TypeOK, OneLine, HeartbeatWithSocket
<1>12. ASSUME NEW r \in Requests, CloseSucceeds(r) \/ RequestFails(r) \/ RestoreAborted(r)
       PROVE  Inv'
    <2>1. requests' \in [Requests -> Nat]
        BY <1>12, RequestTypes DEF CloseSucceeds, RequestFails, RestoreAborted
    <2> QED
        BY <1>12, <2>1
        DEF CloseSucceeds, RequestFails, RestoreAborted, line, server, TypeOK, OneLine,
            HeartbeatWithSocket
<1>13. CASE UNCHANGED socketVars
    BY <1>13 DEF socketVars, TypeOK, OneLine, HeartbeatWithSocket
<1> QED
    BY <1>1, <1>2, <1>3, <1>4, <1>5, <1>6, <1>8, <1>9, <1>10, <1>11, <1>12, <1>13, <1>14
    DEF Next

\* The three invariants hold in every reachable state.
LEMMA InvHolds == Spec => []Inv
BY InitInv, StepInv, PTL DEF Spec

\* The state has its types; in particular a line is never retried more often
\* than scheduleRoomReconnect allows.
THEOREM TypeCorrect == Spec => []TypeOK
BY InvHolds, PTL DEF Inv

\* A scheduled reconnect never replaces a socket that is there.
THEOREM OneLineTheorem == Spec => []OneLine
BY InvHolds, PTL DEF Inv

\* Heartbeats go through the open socket and stop with it.
THEOREM HeartbeatTheorem == Spec => []HeartbeatWithSocket
BY InvHolds, PTL DEF Inv

-----------------------------------------------------------------------------
(***************************************************************************)
(* The page                                                                *)
(***************************************************************************)

\* What the page does to the socket is what RoomSocket says.
LEMMA PageStepIsSocketStep == [PageNext]_roomPageVars => [Next]_socketVars
<1> SUFFICES ASSUME [PageNext]_roomPageVars
             PROVE  [Next]_socketVars
    OBVIOUS
<1>2. CASE SubmitForm("create") \/ SubmitForm("join") \/ RestoreRoute
    BY <1>2 DEF SubmitForm, RestoreRoute, Enters, Next
<1>3. CASE TurnPhone \/ LeaveButton \/ CloseButton
    BY <1>3 DEF TurnPhone, LeaveButton, CloseButton, Next
<1>4. CASE RetryRoomAction
    BY <1>4 DEF RetryRoomAction, Next
<1>5. CASE RetryLine
    BY <1>5 DEF RetryLine, Next
<1>6. CASE (\E r \in Requests : Entered(r) \/ Left(r) \/ Closed(r) \/ Failed(r)) \/ Surroundings
    <2>1. ASSUME NEW r \in Requests, Entered(r) \/ Left(r) \/ Closed(r) \/ Failed(r)
          PROVE  Next
        <3>1. EnterSucceeds(r) \/ LeaveSucceeds(r) \/ CloseSucceeds(r) \/ RequestFails(r)
            BY <2>1 DEF Entered, Left, Closed, Failed
        <3> QED
            BY <3>1 DEF Next
    <2>2. CASE Surroundings
        BY <2>2 DEF Surroundings, Next
    <2> QED
        BY <1>6, <2>1, <2>2
<1>7. CASE LineChanges \/ RoomClosed \/ LateSnapshot
    BY <1>7 DEF LineChanges, LineEvent, RoomClosed, LateSnapshot, Next
<1>8. CASE SubmitBadForm \/ RetryMedia \/ Dismiss \/ ReceiveProblem
           \/ ReceiveUnreadable \/ MediaFails \/ MediaConnected
    BY <1>8 DEF SubmitBadForm, RetryMedia, Dismiss, ReceiveProblem, ReceiveUnreadable,
       MediaFails, MediaConnected
<1>9. CASE OpenSheet \/ CloseSheet \/ CodeMade \/ CodeFails
    BY <1>9 DEF OpenSheet, CloseSheet, CodeMade, CodeFails, SheetStep
<1>10. CASE UNCHANGED roomPageVars
    BY <1>10 DEF roomPageVars
<1> QED
    BY <1>2, <1>3, <1>4, <1>5, <1>6, <1>7, <1>8, <1>9, <1>10 DEF PageNext

\* The page refines the socket, and inherits what was proved of it.
THEOREM PageIsSocket == PageSpec => Spec
<1>1. PageInit => Init
    BY DEF PageInit
<1> QED
    BY <1>1, PageStepIsSocketStep, PTL DEF PageSpec, Spec

Kinds == {"none"} \cup ActionKinds \cup SocketKinds \cup MediaKinds

Sheets == [open : BOOLEAN, code : {"none", "current", "former"}, making : BOOLEAN,
           failed : BOOLEAN]

\* The variables of the page.
PageTypes ==
    /\ visit \in {"home", "invite", "handoff", "restoring"}
    /\ last \in {"none"} \cup Actions
    /\ secret \in BOOLEAN
    /\ banner \in Kinds
    /\ sheet \in Sheets

\* The banners that are put up.
LEMMA BannerTypes ==
    {"none", "again", "refused", "lost", "over", "media", "mediaOver"} \subseteq Kinds
BY DEF Kinds, ActionKinds, SocketKinds, MediaKinds

\* The sheet is moved by its own buttons and code, and when the invitation is
\* another one.
LEMMA SheetTypes ==
    ASSUME PageTypes
    PROVE  /\ \A to \in {"another", "none"} : Readdressed(sheet, to) \in Sheets
           /\ ClosedSheet \in Sheets
BY DEF PageTypes, Readdressed, ClosedSheet, Sheets

\* Every step of the page keeps the types of its variables.
LEMMA StepPageTypes == PageTypes /\ [PageNext]_roomPageVars => PageTypes'
<1> SUFFICES ASSUME PageTypes, [PageNext]_roomPageVars
             PROVE  PageTypes'
    OBVIOUS
<1>2. CASE SubmitForm("create") \/ SubmitForm("join") \/ RestoreRoute \/ LeaveButton
    BY <1>2, BannerTypes DEF SubmitForm, RestoreRoute, LeaveButton, Began, PageTypes, Actions, Enters
<1>3. CASE CloseButton \/ RetryRoomAction
    BY <1>3, BannerTypes DEF CloseButton, RetryRoomAction, Began, PageTypes, Actions
<1>4. CASE SubmitBadForm \/ RetryLine \/ RetryMedia \/ Dismiss \/ MediaFails
           \/ ReceiveUnreadable \/ ReceiveProblem
    BY <1>4, BannerTypes
    DEF SubmitBadForm, RetryLine, RetryMedia, Dismiss, MediaFails, ReceiveUnreadable,
        ReceiveProblem, PageTypes, MediaKinds
<1>5. CASE TurnPhone \/ MediaConnected \/ LineChanges \/ RoomClosed \/ LateSnapshot
    BY <1>5, BannerTypes
    DEF TurnPhone, MediaConnected, LineChanges, RoomClosed, LateSnapshot, Without, pageVars,
        PageTypes
<1>6. ASSUME NEW r \in Requests, Entered(r) \/ Left(r)
      PROVE  PageTypes'
    <2>1. secret' \in BOOLEAN
        BY <1>6 DEF Entered, Left
    <2> QED
        BY <1>6, <2>1, BannerTypes, SheetTypes DEF Entered, Left, PageTypes
<1>7. ASSUME NEW r \in Requests, Closed(r) \/ Failed(r)
      PROVE  PageTypes'
    BY <1>7, BannerTypes DEF Closed, Failed, pageVars, PageTypes
<1>8. CASE OpenSheet \/ CloseSheet \/ CodeMade \/ CodeFails
    BY <1>8, SheetTypes
    DEF OpenSheet, CloseSheet, CodeMade, CodeFails, SheetStep, ClosedSheet, Sheets, PageTypes
<1>9. CASE Surroundings \/ UNCHANGED roomPageVars
    BY <1>9 DEF Surroundings, roomPageVars, pageVars, PageTypes
<1> QED
    BY <1>2, <1>3, <1>4, <1>5, <1>6, <1>7, <1>8, <1>9 DEF PageNext

\* The variables of the page and of its socket have their types.
THEOREM PageTypeCorrect == PageSpec => []PageTypeOK
<1>1. PageInit => PageTypes
    <2> SUFFICES ASSUME PageInit
                 PROVE  PageTypes
        OBVIOUS
    <2>1. ClosedSheet \in Sheets
        BY DEF ClosedSheet, Sheets
    <2>2. "none" \in Kinds
        BY BannerTypes
    <2> QED
        BY <2>1, <2>2 DEF PageInit, PageTypes
<1>2. TypeOK /\ PageTypes => PageTypeOK
    BY DEF PageTypes, PageTypeOK, Kinds, Sheets
<1> QED
    BY <1>1, <1>2, StepPageTypes, PageIsSocket, TypeCorrect, PTL DEF PageSpec

\* Nothing that is done on the page gives it two lines.
THEOREM PageOneLineTheorem == PageSpec => []OneLine
BY PageIsSocket, OneLineTheorem, PTL

=============================================================================
