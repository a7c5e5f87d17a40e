------------------------------ MODULE RoomPage ------------------------------
(***************************************************************************)
(* HomePage around the socket of RoomSocket: the forms and buttons that    *)
(* start requests, the banner that tells of an error and offers to try     *)
(* again, and the sheet that shares an invitation with its QR code, which  *)
(* is made asynchronously.                                                 *)
(*                                                                         *)
(* A step of RoomSocket is taken with what it does to the page.  Events of *)
(* a socket also clear or set the banner; one banner is shown for the      *)
(* room's actions, its socket and LiveKit, and the latest wins.  The chat, *)
(* what a field contains and how things are worded are left out.           *)
(***************************************************************************)
EXTENDS RoomSocket

VARIABLES
    visit,    \* whether the page was opened on an invite route and restored it
    last,     \* lastRoomActionRef
    secret,   \* whether the tab has the host's secret
    banner,   \* userError: its kind
    sheet     \* the share sheet

pageVars == <<visit, last, secret, banner, sheet>>
roomPageVars == <<socketVars, pageVars>>

\* A banner's area, and whether it offers to try again, are told by its kind.
ActionKinds == {"again", "refused"}
SocketKinds == {"lost", "over"}
MediaKinds == {"media", "mediaOver"}

\* clearUserErrorFor
Without(kinds) == IF banner \in kinds THEN "none" ELSE banner

\* code tells whose invitation the QR code on the sheet is.
ClosedSheet == [open |-> FALSE, code |-> "none", making |-> FALSE, failed |-> FALSE]

PageInit ==
    /\ Init
    /\ visit \in {"home", "invite", "handoff"}
    /\ last = "none"
    /\ secret = FALSE
    /\ banner = "none"
    /\ sheet = ClosedSheet

-----------------------------------------------------------------------------
(***************************************************************************)
(* Forms and buttons; a button whose action is pending is disabled.        *)
(***************************************************************************)

Began(what) ==
    /\ last' = what
    /\ banner' = "none"

FormsShown == visit = "home" /\ room \in {"none", "ended"} /\ pending = "none"

\* A name of blanks or an id that is none: nothing is asked.
SubmitBadForm ==
    /\ FormsShown
    /\ banner' = "refused"
    /\ UNCHANGED <<socketVars, visit, last, secret, sheet>>

SubmitForm(what) ==
    /\ FormsShown
    /\ AskEnter(what)
    /\ Began(what)
    /\ UNCHANGED <<visit, secret, sheet>>

\* The effect that restores the room of the route, when the page is mounted or,
\* on a phone, as soon as the window is wide enough for more than the handoff.
RestoreRoute ==
    /\ visit \in {"invite", "handoff"}
    /\ AskEnter("restore")
    /\ Began("restore")
    /\ visit' = "restoring"
    /\ UNCHANGED <<secret, sheet>>

\* The window gets narrow: the hook loses the route, and the effect's cleanup
\* aborts the request.  restoredRouteRoomIdRef prevents another one.
TurnPhone ==
    /\ visit = "restoring"
    /\ \E r \in Requests : RestoreAborted(r)
    /\ visit' = "home"
    /\ UNCHANGED <<last, secret, banner, sheet>>

LeaveButton ==
    /\ room = "live" /\ role = "GUEST" /\ pending = "none"
    /\ AskLeave
    /\ Began("leave")
    /\ UNCHANGED <<visit, secret, sheet>>

CloseButton ==
    /\ room = "live" /\ role = "HOST" /\ pending = "none"
    /\ IF secret
       THEN AskClose /\ Began("close")
       ELSE banner' = "refused" /\ UNCHANGED <<socketVars, last>>
    /\ UNCHANGED <<visit, secret, sheet>>

\* The banner's buttons are not disabled while an action is pending.  What is
\* tried again is the latest action, whichever failure the banner tells of.
RetryRoomAction ==
    /\ banner = "again"
    /\ \/ last \in Enters /\ AskEnter(last) /\ Began(last)
       \/ last = "leave" /\ AskLeave /\ Began(last)
       \/ last = "close" /\ secret /\ AskClose /\ Began(last)
       \/ /\ last = "close" /\ (~secret \/ room = "none")
          /\ banner' = "refused" /\ UNCHANGED <<socketVars, last>>
    /\ UNCHANGED <<visit, secret, sheet>>

RetryLine ==
    /\ banner = "lost"
    /\ \/ /\ RetryRoomConnection
          /\ banner' = "none"
       \/ /\ room # "live"
          /\ banner' = "over"
          /\ UNCHANGED socketVars
    /\ UNCHANGED <<visit, last, secret, sheet>>

RetryMedia ==
    /\ banner = "media" /\ room = "live"
    /\ banner' = "none"
    /\ UNCHANGED <<socketVars, visit, last, secret, sheet>>

Dismiss ==
    /\ banner # "none"
    /\ banner' = "none"
    /\ UNCHANGED <<socketVars, visit, last, secret, sheet>>

-----------------------------------------------------------------------------
(***************************************************************************)
(* Answers                                                                 *)
(***************************************************************************)

Readdressed_GivesUp(s, to) ==
    [s EXCEPT !.code = IF @ = "none" THEN "none" ELSE "former", !.making = FALSE]

\* The invitation changes: the effect makes a code of the new one if the sheet
\* is open, and gives up the code it was making.
Readdressed(s, to) ==
    [s EXCEPT !.code = IF @ = "none" THEN "none" ELSE "former",
              !.making = s.open /\ to # "none"]

\* A host that restores its room has the secret if the session storage has it.
Entered(r) ==
    /\ EnterSucceeds(r)
    /\ banner' = "none"
    /\ secret' \in CASE r.what = "create" -> {TRUE}
                     [] r.what = "restore" /\ role' = "HOST" -> BOOLEAN
                     [] OTHER -> {FALSE}
    /\ visit' = "home"
    /\ sheet' = Readdressed(sheet, "another")
    /\ UNCHANGED last

\* The state of the hook is as in the beginning, the page keeps its own.
Left(r) ==
    /\ LeaveSucceeds(r)
    /\ banner' = "none"
    /\ secret' = FALSE
    /\ sheet' = Readdressed(sheet, "none")
    /\ UNCHANGED <<visit, last>>

Closed(r) ==
    /\ CloseSucceeds(r)
    /\ UNCHANGED pageVars

\* An invite route without a session is no error.
Failed(r) ==
    /\ RequestFails(r)
    /\ \/ banner' \in {"again", "refused"}
       \/ r.what = "restore" /\ banner' = "none"
    /\ visit' = IF visit = "restoring" THEN "home" ELSE visit
    /\ UNCHANGED <<last, secret, sheet>>

Surroundings ==
    /\ RoomEnds \/ \E r \in Requests : Serve(r)
    /\ UNCHANGED pageVars

-----------------------------------------------------------------------------
(***************************************************************************)
(* Events of the socket and of LiveKit                                     *)
(***************************************************************************)

LineEvent ==
    \/ OnOpen
    \/ \E code \in {1000, 1006, 1008} : OnClose(code)
    \/ OnReconnectTimer
    \/ OnOffline

\* A reconnect that is scheduled, tried or successful clears what was said of
\* the socket, and one that gives up says so.
LineChanges ==
    /\ LineEvent
    /\ banner' = IF conn' = "error" THEN "lost"
                 ELSE IF conn' \in {"open", "reconnecting"} THEN Without(SocketKinds)
                 ELSE banner
    /\ UNCHANGED <<visit, last, secret, sheet>>

RoomClosed ==
    /\ OnRoomClosed
    /\ banner' = "none"
    /\ UNCHANGED <<visit, last, secret, sheet>>

LateSnapshot ==
    /\ OnLateSnapshot
    /\ UNCHANGED pageVars

\* An error event.  Those this backend sends are about the chat and are shown
\* there; the client takes any other for a failure of the latest action.
ReceiveProblem ==
    /\ sock = "open"
    /\ banner' \in {banner, "again", "refused"}
    /\ UNCHANGED <<socketVars, visit, last, secret, sheet>>

ReceiveUnreadable ==
    /\ sock = "open"
    /\ banner' = "lost"
    /\ UNCHANGED <<socketVars, visit, last, secret, sheet>>

MediaFails ==
    /\ room = "live"
    /\ banner' \in MediaKinds
    /\ UNCHANGED <<socketVars, visit, last, secret, sheet>>

MediaConnected ==
    /\ room = "live"
    /\ banner' = Without(MediaKinds)
    /\ UNCHANGED <<socketVars, visit, last, secret, sheet>>

-----------------------------------------------------------------------------
(***************************************************************************)
(* The share sheet                                                         *)
(***************************************************************************)

SheetStep(next) ==
    /\ room # "none"
    /\ sheet' = next
    /\ UNCHANGED <<socketVars, visit, last, secret, banner>>

\* The button drops the code that is shown; the effect makes one if the sheet
\* was closed.
OpenSheet ==
    SheetStep([ClosedSheet EXCEPT !.open = TRUE, !.making = ~sheet.open \/ sheet.making])

CloseSheet ==
    /\ sheet.open
    /\ SheetStep([sheet EXCEPT !.open = FALSE, !.making = FALSE])

CodeMade ==
    /\ sheet.making
    /\ SheetStep([sheet EXCEPT !.code = "current", !.making = FALSE])

CodeFails ==
    /\ sheet.making
    /\ SheetStep([sheet EXCEPT !.failed = TRUE, !.making = FALSE])

-----------------------------------------------------------------------------
PageNext ==
    \/ SubmitBadForm
    \/ SubmitForm("create")
    \/ SubmitForm("join")
    \/ RestoreRoute
    \/ TurnPhone
    \/ LeaveButton
    \/ CloseButton
    \/ RetryRoomAction
    \/ RetryLine
    \/ RetryMedia
    \/ Dismiss
    \/ \E r \in Requests :
          \/ Entered(r)
          \/ Left(r)
          \/ Closed(r)
          \/ Failed(r)
    \/ Surroundings
    \/ LineChanges
    \/ RoomClosed
    \/ LateSnapshot
    \/ ReceiveProblem
    \/ ReceiveUnreadable
    \/ MediaFails
    \/ MediaConnected
    \/ OpenSheet
    \/ CloseSheet
    \/ CodeMade
    \/ CodeFails

PageSpec == PageInit /\ [][PageNext]_roomPageVars

\* That of the socket; and a code that is being made is made, or is not.
FairPageSpec ==
    /\ PageSpec
    /\ Fairness
    /\ WF_roomPageVars(CodeMade \/ CodeFails)

-----------------------------------------------------------------------------
(***************************************************************************)
(* Properties                                                              *)
(***************************************************************************)

\* The types of the variables.
PageTypeOK ==
    /\ TypeOK
    /\ visit \in {"home", "invite", "handoff", "restoring"}
    /\ last \in {"none"} \cup Actions
    /\ secret \in BOOLEAN
    /\ banner \in {"none"} \cup ActionKinds \cup SocketKinds \cup MediaKinds
    /\ sheet \in [open : BOOLEAN, code : {"none", "current", "former"}, making : BOOLEAN,
                  failed : BOOLEAN]

\* A QR code of a former room does not stay on the open sheet: the effect makes
\* the one of this room, unless that fails.
FormerCodeFades ==
    (sheet.open /\ room # "none" /\ sheet.code = "former")
        ~> (~sheet.open \/ room = "none" \/ sheet.code # "former" \/ sheet.failed)

=============================================================================
