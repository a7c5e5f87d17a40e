--------------------------- MODULE FilePublication ---------------------------
(***************************************************************************)
(* The host's tab as a source of film: the LiveKit connection of           *)
(* useRoomSession, the file the host has selected, and its publication.    *)
(* Connecting, checking a file and publishing it are asynchronous; each    *)
(* takes a request id from a counter and gives up if the counter has moved *)
(* on when it ends.                                                        *)
(*                                                                         *)
(* A counter is modelled by what the code compares it with: the latest     *)
(* request, or None once the counter has moved without one.  Requests are  *)
(* picked from finite sets of names and a name may be used again when      *)
(* nothing refers to it.  React state and the refs that mirror it are one. *)
(* X_Fault is a faulty variant of X that no module uses.                   *)
(***************************************************************************)
EXTENDS Absent, Naturals

CONSTANTS
    Dials,     \* connectLiveKit calls
    Files,     \* selectFile calls, and the files they find
    Calls,     \* publishFileToLiveKit calls, and the publications they make
    Reports    \* how often the room may report that its connection is lost

ASSUME PublicationAssumption ==
    /\ None \notin Dials \cup Files \cup Calls
    /\ Reports \subseteq {1, 2}

VARIABLES
    tab,        \* state and refs of the hook
    dialing,    \* connectLiveKit calls under way
    rooms,      \* LiveKit rooms this tab is connected to
    checking,   \* selectFile calls under way
    calls,      \* publications under way or made
    tracks      \* tracks the LiveKit rooms have of this tab

publicationVars == <<tab, dialing, rooms, checking, calls, tracks>>

Busy == {"publishing", "restarting"}

NoCall == [stage |-> "idle", room |-> None, file |-> None]

Init ==
    /\ tab = [link |-> "idle", attempt |-> None, connection |-> None,
              check |-> None, file |-> None, request |-> None,
              publication |-> None, status |-> "idle", recovery |-> "off"]
    /\ dialing = {}
    /\ rooms = {}
    /\ checking = {}
    /\ calls = [c \in Calls |-> NoCall]
    /\ tracks = {}

-----------------------------------------------------------------------------
(***************************************************************************)
(* Stopping a publication: its tracks are unpublished and its source reset *)
(***************************************************************************)

CallsWithout(c) == [x \in Calls |-> IF x = c THEN NoCall ELSE calls[x]]

TracksWithout(c) == {k \in tracks : k.call # c}

StopCurrentFilePublication ==
    /\ calls' = CallsWithout(tab.publication)
    /\ tracks' = TracksWithout(tab.publication)

\* The tab after the stop button.
Stopped_KeepsRequest ==
    [tab EXCEPT !.recovery = "off", !.publication = None, !.status = "idle"]

Stopped ==
    [tab EXCEPT !.recovery = "off", !.request = None, !.publication = None,
                !.status = "idle"]

StopFilePublication ==
    /\ tab.status \in Busy \cup {"live"}
    /\ StopCurrentFilePublication
    /\ tab' = Stopped
    /\ UNCHANGED <<dialing, rooms, checking>>

-----------------------------------------------------------------------------
(***************************************************************************)
(* The LiveKit connection                                                  *)
(***************************************************************************)

FreeDials == {d \in Dials \ (dialing \cup rooms) :
                  /\ d # tab.connection
                  /\ \A c \in Calls : calls[c].room # d}

\* create, join, restore and retryLiveKitConnection, while there is no
\* connection and none under way.
ConnectLiveKit ==
    /\ tab.link \in {"idle", "disconnected", "error"}
    /\ \E d \in FreeDials :
          /\ tab' = [tab EXCEPT !.link = "connecting", !.attempt = d,
                                !.connection = None, !.publication = None]
          /\ dialing' = dialing \cup {d}
    /\ rooms' = rooms \ {tab.connection}
    /\ StopCurrentFilePublication
    /\ UNCHANGED <<checking>>

DialSucceeds_StaleToo(d) ==
    /\ d \in dialing
    /\ dialing' = dialing \ {d}
    /\ rooms' = rooms \cup {d}
    /\ tab' = IF d = tab.attempt
              THEN [tab EXCEPT !.link = "connected", !.connection = d] ELSE tab
    /\ UNCHANGED <<checking, calls, tracks>>

\* Token and connection are there; a connection nobody waits for is closed.
DialSucceeds(d) ==
    /\ d \in dialing
    /\ dialing' = dialing \ {d}
    /\ IF d = tab.attempt
       THEN /\ tab' = [tab EXCEPT !.link = "connected", !.connection = d]
            /\ rooms' = rooms \cup {d}
       ELSE UNCHANGED <<tab, rooms>>
    /\ UNCHANGED <<checking, calls, tracks>>

\* hostPublicationRecoveryRequestedRef: there is a film to publish again.
Wanted(t) == IF t.publication # None THEN "on" ELSE "off"

\* onStatusChange("disconnected")
OnDisconnected(t) ==
    [t EXCEPT !.link = "disconnected", !.recovery = Wanted(t),
              !.request = None, !.publication = None, !.status = "idle"]

\* connectLiveKitRoom listens to ConnectionStateChanged and to Disconnected;
\* livekit-client emits both when a connection is lost.
Reported(t, n) == IF n = 2 THEN OnDisconnected(OnDisconnected(t)) ELSE OnDisconnected(t)

\* No token, or no connection: the room then reports that it is disconnected.
DialFails(d) ==
    /\ d \in dialing
    /\ dialing' = dialing \ {d}
    /\ IF d = tab.attempt
       THEN \E t \in {tab} \cup {Reported(tab, n) : n \in Reports} :
               /\ tab' = [t EXCEPT !.link = "error"]
               /\ StopCurrentFilePublication
       ELSE UNCHANGED <<tab, calls, tracks>>
    /\ UNCHANGED <<rooms, checking>>

LoseConnection(n) ==
    /\ tab.link \in {"connected", "reconnecting"}
    /\ tab' = Reported(tab, n)
    /\ rooms' = rooms \ {tab.connection}
    /\ calls' = CallsWithout(tab.publication)
    /\ tracks' = {k \in tracks : k.room # tab.connection}
    /\ UNCHANGED <<dialing, checking>>

Reconnecting ==
    /\ tab.link = "connected"
    /\ tab' = [tab EXCEPT !.link = "reconnecting"]
    /\ UNCHANGED <<dialing, rooms, checking, calls, tracks>>

Reconnected ==
    /\ tab.link = "reconnecting"
    /\ tab' = [tab EXCEPT !.link = "connected"]
    /\ UNCHANGED <<dialing, rooms, checking, calls, tracks>>

\* leave, close, room.closed and unmount: clearFileState and disconnectLiveKit
LeaveRoom(next) ==
    /\ tab.link # "idle"
    /\ tab' = [link |-> next, attempt |-> None, connection |-> None,
               check |-> None, file |-> None, request |-> None,
               publication |-> None, status |-> "idle", recovery |-> "off"]
    /\ rooms' = rooms \ {tab.connection}
    /\ calls' = CallsWithout(tab.publication)
    /\ tracks' = {k \in tracks : k.room # tab.connection}
    /\ UNCHANGED <<dialing, checking>>

-----------------------------------------------------------------------------
(***************************************************************************)
(* Selecting a file                                                        *)
(***************************************************************************)

FreeFiles == {f \in Files \ checking :
                  /\ f \notin {tab.file, tab.check}
                  /\ \A c \in Calls : calls[c].file # f}

\* The tab that has begun to check f.
Selecting_KeepsRequest(f) ==
    [tab EXCEPT !.recovery = "off", !.check = f, !.publication = None,
                !.status = "idle", !.file = None]

Selecting(f) ==
    [tab EXCEPT !.recovery = "off", !.check = f, !.request = None,
                !.publication = None, !.status = "idle", !.file = None]

SelectFile(f) ==
    /\ tab.link # "idle"
    /\ f \in FreeFiles
    /\ tab' = Selecting(f)
    /\ checking' = checking \cup {f}
    /\ StopCurrentFilePublication
    /\ UNCHANGED <<dialing, rooms>>

\* diagnoseFile has accepted the file, or refused it.
FileChecked(f) ==
    /\ f \in checking
    /\ checking' = checking \ {f}
    /\ IF f = tab.check
       THEN \E found \in {f, None} :
               tab' = [tab EXCEPT !.file = found, !.status = "idle"]
       ELSE UNCHANGED tab
    /\ UNCHANGED <<dialing, rooms, calls, tracks>>

-----------------------------------------------------------------------------
(***************************************************************************)
(* Publishing it                                                           *)
(***************************************************************************)

Ready == tab.file # None /\ tab.connection # None /\ tab.link = "connected"

PublishFile(status) ==
    \/ /\ ~Ready
       /\ tab' = [tab EXCEPT !.status = "error"]
       /\ UNCHANGED <<calls, tracks>>
    \/ /\ Ready
       /\ \E c \in Calls :
             /\ calls[c] = NoCall
             /\ tab' = [tab EXCEPT !.recovery = "off", !.request = c,
                                   !.publication = None, !.status = status]
             /\ calls' = [CallsWithout(tab.publication) EXCEPT ![c] =
                            [stage |-> "preparing", room |-> tab.connection,
                             file |-> tab.file]]
       /\ tracks' = TracksWithout(tab.publication)

\* The publish button
Publish ==
    /\ tab.file # None /\ tab.link = "connected" /\ tab.status \notin Busy
    /\ PublishFile("publishing")
    /\ UNCHANGED <<dialing, rooms, checking>>

\* The restart button, also the one of a guest's recovery request
RestartFilePublication ==
    /\ tab.publication # None
    /\ PublishFile("restarting")
    /\ UNCHANGED <<dialing, rooms, checking>>

\* The effect that publishes again when LiveKit is back
RecoverPublication ==
    /\ tab.recovery = "on" /\ tab.link = "connected"
    /\ IF tab.status \in Busy \cup {"live"}
       THEN /\ tab' = [tab EXCEPT !.recovery = "off"]
            /\ UNCHANGED <<calls, tracks>>
       ELSE IF tab.file = None
            THEN /\ tab' = [tab EXCEPT !.recovery = "off", !.status = "error"]
                 /\ UNCHANGED <<calls, tracks>>
            ELSE PublishFile("publishing")
    /\ UNCHANGED <<dialing, rooms, checking>>

\* publishFileToLiveKit: the source plays and its tracks are captured, ...
Prepared(c) ==
    /\ calls[c].stage = "preparing"
    /\ calls' = [calls EXCEPT ![c].stage = "video"]
    /\ UNCHANGED <<tab, dialing, rooms, checking, tracks>>

Published(c, kind) == [room |-> calls[c].room, call |-> c, kind |-> kind]

\* The call c has returned and published contains its last track.
Finish_KeepsStale(c, published) ==
    IF tab.request = c
    THEN /\ tab' = [tab EXCEPT !.publication = c, !.status = "live"]
         /\ calls' = [calls EXCEPT ![c].stage = "live"]
         /\ tracks' = published
    ELSE /\ calls' = CallsWithout(c)
         /\ tracks' = published
         /\ UNCHANGED tab

Finish(c, published) ==
    IF tab.request = c
    THEN /\ tab' = [tab EXCEPT !.publication = c, !.status = "live"]
         /\ calls' = [calls EXCEPT ![c].stage = "live"]
         /\ tracks' = published
    ELSE /\ calls' = CallsWithout(c)
         /\ tracks' = {k \in published : k.call # c}
         /\ UNCHANGED tab

\* ... the video track is published, ...
VideoPublished(c) ==
    /\ calls[c].stage = "video"
    /\ calls[c].room \in rooms
    /\ LET published == tracks \cup {Published(c, "video")}
       IN  \/ /\ calls' = [calls EXCEPT ![c].stage = "audio"]
              /\ tracks' = published
              /\ UNCHANGED tab
           \/ Finish(c, published)
    /\ UNCHANGED <<dialing, rooms, checking>>

\* ... and then the audio track, if there is one.
AudioPublished(c) ==
    /\ calls[c].stage = "audio"
    /\ calls[c].room \in rooms
    /\ Finish(c, tracks \cup {Published(c, "audio")})
    /\ UNCHANGED <<dialing, rooms, checking>>

CallFails_Silent(c) ==
    /\ calls[c].stage \in {"preparing", "video", "audio"}
    /\ calls' = CallsWithout(c)
    /\ tracks' = TracksWithout(c)
    /\ UNCHANGED <<tab, dialing, rooms, checking>>

\* No metadata, no video track, playback blocked, or a track not published:
\* cleanupPartialPublication, and an error on screen if the call is the latest.
CallFails(c) ==
    /\ calls[c].stage \in {"preparing", "video", "audio"}
    /\ calls' = CallsWithout(c)
    /\ tracks' = TracksWithout(c)
    /\ tab' = IF tab.request = c
              THEN [tab EXCEPT !.publication = None, !.status = "error"] ELSE tab
    /\ UNCHANGED <<dialing, rooms, checking>>

-----------------------------------------------------------------------------
DialEnds(d) == DialSucceeds(d) \/ DialFails(d)
CallProgress(c) == Prepared(c) \/ VideoPublished(c) \/ AudioPublished(c) \/ CallFails(c)

Next ==
    \/ StopFilePublication
    \/ ConnectLiveKit
    \/ \E d \in Dials : DialEnds(d)
    \/ \E n \in Reports : LoseConnection(n)
    \/ Reconnecting
    \/ Reconnected
    \/ \E next \in {"idle", "disconnected"} : LeaveRoom(next)
    \/ \E f \in Files : SelectFile(f) \/ FileChecked(f)
    \/ Publish
    \/ RestartFilePublication
    \/ RecoverPublication
    \/ \E c \in Calls : CallProgress(c)

Spec == Init /\ [][Next]_publicationVars

FairSpec ==
    /\ Spec
    /\ WF_publicationVars(RecoverPublication)
    /\ \A d \in Dials : WF_publicationVars(DialEnds(d))
    /\ \A c \in Calls : WF_publicationVars(CallProgress(c))

-----------------------------------------------------------------------------
(***************************************************************************)
(* Properties                                                              *)
(***************************************************************************)

TabStates ==
    [link : {"idle", "connecting", "connected", "reconnecting", "disconnected", "error"},
     attempt : Dials \cup {None}, connection : Dials \cup {None},
     check : Files \cup {None}, file : Files \cup {None},
     request : Calls \cup {None}, publication : Calls \cup {None},
     status : Busy \cup {"idle", "live", "error"}, recovery : {"off", "on"}]

CallStates ==
    {NoCall} \cup [stage : {"preparing", "video", "audio", "live"},
                   room : Dials, file : Files]

\* The types of the variables; what is not in use refers to nothing.
TypeOK ==
    /\ tab \in TabStates
    /\ dialing \subseteq Dials
    /\ rooms \subseteq Dials
    /\ checking \subseteq Files
    /\ calls \in [Calls -> CallStates]
    /\ tracks \subseteq [room : Dials, call : Calls, kind : {"video", "audio"}]

\* The tab is in no LiveKit room but the one of its connection, although
\* connecting goes on after the host has left: an answer that comes late is
\* hung up (connectLiveKit, after connectLiveKitRoom).
OneConnection == rooms \subseteq {tab.connection}

\* Guests are offered no track that belongs neither to the host's publication
\* nor to one on its way: whatever is stopped, replaced or cut off while it is
\* being published takes its tracks back (publishFile, stopFilePublication,
\* cleanupPartialPublication).
NoOrphanTracks ==
    \A k \in tracks :
        /\ k.room \in rooms
        /\ calls[k.call].stage # "idle"
        /\ calls[k.call].stage = "live" => tab.publication = k.call

\* The card says "live" only while there is a publication, in the room the tab
\* is connected to, with its video track.
LiveIsPublished ==
    tab.status = "live" =>
        /\ tab.publication # None
        /\ calls[tab.publication].room = tab.connection
        /\ Published(tab.publication, "video") \in tracks

\* What is published is the file the card shows, even if another one has been
\* selected while it was being published (selectFile moves the request id).
PublishedIsSelected ==
    tab.publication # None => calls[tab.publication].file = tab.file

\* A publication appears only while the card says that one is on its way:
\* never after the host has stopped it, left or lost the connection.
NothingUnasked ==
    [][tab'.publication \notin {None, tab.publication} => tab.status \in Busy]_publicationVars

\* The card does not say "publishing" for ever: a call that is not overtaken
\* ends in a publication or in an error.
PublishingEnds == (tab.status \in Busy) ~> (tab.status \notin Busy)
=============================================================================
