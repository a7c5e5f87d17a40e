------------------------------- MODULE Screening -------------------------------
(***************************************************************************)
(* A film on its way to a guest: the host's element and its playback state *)
(* publisher, the data messages and tracks LiveKit carries, and the        *)
(* guest's remote playback controller, state receiver and video element.   *)
(* Messages of a participant arrive in order; tracks come and go on their  *)
(* own.                                                                    *)
(*                                                                         *)
(* A revision is modelled by what the receiver compares it with.  Within a *)
(* publication revisions grow with the messages, so the receiver ignores   *)
(* the first ones of a publication, as many as the latest revision it has  *)
(* heard of an earlier one, and none later.  DOM events are dispatched     *)
(* with the change they are about.  Screen is the guest's element, which   *)
(* React may take away and give back.                                      *)
(***************************************************************************)
EXTENDS Absent, Naturals, Sequences

CONSTANTS
    Shows,       \* publications of the host; a name may be used again
    Kinds,       \* kinds of tracks, among them "video"
    MaxEarlier,  \* bound: the latest revision of an earlier publication
    MaxFlight    \* bound: data messages under way

ASSUME ScreeningAssumption ==
    /\ None \notin Shows
    /\ "video" \in Kinds
    /\ MaxEarlier \in Nat \ {0} /\ MaxFlight \in Nat

VARIABLES
    host,     \* the host's publication and the state of its film
    flight,   \* messages of the publishers under way to the guest
    offered,  \* movie tracks the LiveKit room has
    guest,    \* the guest's receiver and controller
    screen    \* the guest's video element

screeningVars == <<host, flight, offered, guest, screen>>

Tracks == [show : Shows, kind : Kinds]

NoTracks == [k \in Kinds |-> None]

Idle == [status |-> "idle", error |-> "no"]

Away ==
    [link |-> "off", earlier |-> 0, heard |-> "no", view |-> Idle, remote |-> "idle",
     received |-> {}, track |-> NoTracks, from |-> "nobody", left |-> "no"]

NewScreen == [there |-> "yes", state |-> "paused", source |-> None, plays |-> {}]

ScreeningInit ==
    /\ host = [show |-> None, film |-> "paused"]
    /\ flight = <<>>
    /\ offered = {}
    /\ guest = Away
    /\ screen = NewScreen

-----------------------------------------------------------------------------
(***************************************************************************)
(* The element.  A new source pauses it and aborts plays that wait; so     *)
(* does pause.  play() is answered later.                                  *)
(***************************************************************************)

Aborted(plays) == [by : {p.by : p \in plays}, is : {"aborted"}]

Paused(s) == [s EXCEPT !.state = "paused", !.plays = Aborted(@)]

Played(s, by) == [s EXCEPT !.state = "playing", !.plays = @ \cup {[by |-> by, is |-> "waiting"]}]

Sourced(s, show) == [Paused(s) EXCEPT !.source = show]

\* attachVideo and detach
Attached(s, show) ==
    IF s.there = "no" \/ show = None THEN s ELSE Played(Sourced(s, show), "track")

Detached(s, show) ==
    IF s.there = "no" \/ show = None \/ s.source # show THEN s ELSE Sourced(s, None)

\* applyPlaybackState
Applied(s, status) ==
    IF s.there = "no" THEN s
    ELSE IF status = "playing" THEN Played(s, "state") ELSE Paused(s)

-----------------------------------------------------------------------------
(***************************************************************************)
(* The host                                                                *)
(***************************************************************************)

\* publishData: whoever is connected gets the message.
Sent(message) == IF guest.link = "on" THEN Append(flight, message) ELSE flight

HasRoom == Len(flight) < MaxFlight

Report == [first |-> "no", status |-> host.film]

\* A publication is made, playing or, restarted from a checkpoint, paused; an
\* earlier one has been stopped before.
PublishFilm(show) ==
    /\ host.show = None /\ HasRoom
    /\ show \notin {t.show : t \in offered \cup guest.received}
    /\ show \notin {guest.track[k] : k \in Kinds}
    /\ \E film \in {"playing", "paused"}, kinds \in {K \in SUBSET Kinds : "video" \in K} :
          /\ host' = [show |-> show, film |-> film]
          /\ offered' = offered \cup [show : {show}, kind : kinds]
          /\ flight' = Sent([first |-> "yes", status |-> film])
    /\ UNCHANGED <<guest, screen>>

\* hostPlay, hostPause, and the end of the film: the element's events are
\* announced.
ChangeFilm ==
    /\ host.show # None /\ HasRoom
    /\ \E film \in {"playing", "paused", "ended"} \ {host.film} :
          /\ film = "ended" => host.film = "playing"
          /\ host' = [host EXCEPT !.film = film]
          /\ flight' = Sent([first |-> "no", status |-> film])
    /\ UNCHANGED <<offered, guest, screen>>

Heartbeat_WhilePlaying ==
    /\ host.show # None /\ HasRoom
    /\ host.film = "playing"
    /\ flight' = Sent(Report)
    /\ UNCHANGED <<host, offered, guest, screen>>

\* The publisher's interval, and the events that change nothing a guest shows
\* (metadata, seeked).
Heartbeat ==
    /\ host.show # None /\ HasRoom
    /\ flight' = Sent(Report)
    /\ UNCHANGED <<host, offered, guest, screen>>

\* stopCurrentFilePublication while the room is connected
StopFilm ==
    /\ host.show # None /\ HasRoom
    /\ flight' = Sent([first |-> "no", status |-> "idle"])
    /\ host' = [host EXCEPT !.show = None]
    /\ offered' = {t \in offered : t.show # host.show}
    /\ UNCHANGED <<guest, screen>>

\* The host's connection is lost: "stop" reaches nobody, LiveKit takes the
\* tracks away and tells the guest.
LoseHost ==
    /\ host.show # None
    /\ host' = [host EXCEPT !.show = None]
    /\ offered' = {}
    /\ guest' = IF guest.link = "on" THEN [guest EXCEPT !.left = "yes"] ELSE guest
    /\ UNCHANGED <<flight, screen>>

-----------------------------------------------------------------------------
(***************************************************************************)
(* The guest's connection                                                  *)
(***************************************************************************)

\* connectLiveKit has a connection: both controllers start without tracks or
\* messages and are given the element.
ConnectGuest ==
    /\ guest.link = "off"
    /\ guest' = [Away EXCEPT !.link = "on", !.remote = "waiting"]
    /\ UNCHANGED <<host, flight, offered, screen>>

\* Plays of controllers that are disconnected concern nobody.
Orphaned_KeepsHandlers(s) == s

Orphaned(s) == [s EXCEPT !.plays = {[p EXCEPT !.by = "nobody"] : p \in @}]

\* Its loss and disconnectLiveKit
DisconnectGuest ==
    /\ guest.link = "on"
    /\ guest' = Away
    /\ screen' = Orphaned(Detached(screen, guest.track["video"]))
    /\ flight' = <<>>
    /\ UNCHANGED <<host, offered>>

\* emitState of the controller: the status its tracks ask for.
Shown(g) ==
    IF \E k \in Kinds : g.track[k] # None THEN "receiving"
    ELSE IF g.remote \in {"idle", "waiting"} THEN "waiting" ELSE "lost"

Emitted(g) == [g EXCEPT !.remote = Shown(g)]

\* setRemotePlaybackElements, when the player is mounted or unmounted
SetElements(there) ==
    /\ screen.there # there
    /\ screen' =
         IF there = "no"
         THEN [Paused(Detached(screen, guest.track["video"])) EXCEPT !.there = "no"]
         ELSE LET fresh == Attached([NewScreen EXCEPT !.plays = screen.plays],
                                    guest.track["video"])
              IN  IF guest.heard = "yes" THEN Applied(fresh, guest.view.status) ELSE fresh
    /\ guest' = IF guest.link = "on" THEN Emitted(guest) ELSE guest
    /\ UNCHANGED <<host, flight, offered>>

-----------------------------------------------------------------------------
(***************************************************************************)
(* Tracks                                                                  *)
(***************************************************************************)

TrackSubscribed(t) ==
    /\ guest.link = "on" /\ guest.left = "no"
    /\ t \in offered \ guest.received
    /\ LET g == [guest EXCEPT !.received = @ \cup {t}, !.track[t.kind] = t.show]
       IN  guest' = [g EXCEPT !.remote = "receiving", !.from = "host"]
    /\ screen' = IF t.kind = "video"
                 THEN Attached(Detached(screen, guest.track["video"]), t.show) ELSE screen
    /\ UNCHANGED <<host, flight, offered>>

TrackUnsubscribed_AnyTrack(t) ==
    /\ t \in guest.received \ offered
    /\ LET g == [guest EXCEPT !.received = @ \ {t}, !.track[t.kind] = None]
       IN  guest' = Emitted(g)
    /\ screen' = IF t.kind = "video" THEN Detached(screen, guest.track["video"]) ELSE screen
    /\ UNCHANGED <<host, flight, offered>>

TrackUnsubscribed(t) ==
    /\ t \in guest.received \ offered
    /\ LET g == [guest EXCEPT !.received = @ \ {t},
                              !.track[t.kind] = IF @ = t.show THEN None ELSE @]
       IN  guest' = Emitted(g)
    /\ screen' = IF t.kind = "video" THEN Detached(screen, t.show) ELSE screen
    /\ UNCHANGED <<host, flight, offered>>

\* participantDisconnected of the host
HostDisconnected ==
    /\ guest.left = "yes"
    /\ LET g == [guest EXCEPT !.left = "no", !.received = {}]
       IN  guest' = IF guest.from = "nobody" THEN g
                    ELSE [g EXCEPT !.remote = "lost", !.from = "nobody", !.track = NoTracks]
    /\ screen' = Detached(screen, guest.track["video"])
    /\ UNCHANGED <<host, flight, offered>>

-----------------------------------------------------------------------------
(***************************************************************************)
(* Playback states                                                         *)
(***************************************************************************)

\* The latest revision, counted from the message's publication.
Earlier(message) ==
    IF message.first = "no" THEN {guest.earlier}
    ELSE IF guest.heard = "no" THEN {0} ELSE 1 .. MaxEarlier

\* handleDataReceived
ReceiveState ==
    /\ flight # <<>>
    /\ flight' = Tail(flight)
    /\ LET message == Head(flight)
       IN  \E n \in Earlier(message) :
              IF n > 0
              THEN /\ guest' = [guest EXCEPT !.earlier = n - 1]
                   /\ UNCHANGED screen
              ELSE /\ guest' = [guest EXCEPT !.earlier = 0, !.heard = "yes",
                                             !.view = [Idle EXCEPT !.status = message.status]]
                   /\ screen' = Applied(screen, message.status)
    /\ UNCHANGED <<host, offered>>

\* emitState with the error of a play that was refused.  A controller that has
\* been disconnected emits nothing.
Refused(by) ==
    CASE by = "state" -> [guest EXCEPT !.view = [status |-> "playing", error |-> "yes"]]
      [] by = "track" -> [guest EXCEPT !.remote = "error"]
      [] by = "nobody" -> guest

Without(p) == [screen EXCEPT !.plays = @ \ {p}]

PlayBegins(p) ==
    /\ p.is = "waiting" /\ screen.source # None
    /\ screen' = Without(p)
    /\ UNCHANGED <<host, flight, offered, guest>>

\* The browser does not allow it, or it was aborted.
PlayRefused(p) ==
    /\ screen' = IF p.is = "waiting" THEN [Without(p) EXCEPT !.state = "paused"] ELSE Without(p)
    /\ guest' = Refused(p.by)
    /\ UNCHANGED <<host, flight, offered>>

\* The answer to a play of the sound, which attachAudio or the button that calls
\* resumeRemotePlaybackAudio began: the tracks may have gone since.
ResumeAudio ==
    /\ guest.remote \notin {"idle", "waiting"}
    /\ guest' \in {Emitted(guest), [guest EXCEPT !.remote = "error"]}
    /\ UNCHANGED <<host, flight, offered, screen>>

-----------------------------------------------------------------------------
ScreeningNext ==
    \/ \E show \in Shows : PublishFilm(show)
    \/ ChangeFilm
    \/ Heartbeat
    \/ StopFilm
    \/ LoseHost
    \/ ConnectGuest
    \/ DisconnectGuest
    \/ \E there \in {"yes", "no"} : SetElements(there)
    \/ \E t \in Tracks : TrackSubscribed(t) \/ TrackUnsubscribed(t)
    \/ HostDisconnected
    \/ ReceiveState
    \/ \E p \in screen.plays : PlayBegins(p) \/ PlayRefused(p)
    \/ ResumeAudio

ScreeningSpec == ScreeningInit /\ [][ScreeningNext]_screeningVars

\* The host's interval ticks, LiveKit delivers messages and tracks.
FairScreeningSpec ==
    /\ ScreeningSpec
    /\ WF_screeningVars(Heartbeat)
    /\ WF_screeningVars(ReceiveState)
    /\ WF_screeningVars(HostDisconnected)
    /\ \A t \in Tracks : WF_screeningVars(TrackSubscribed(t) \/ TrackUnsubscribed(t))

-----------------------------------------------------------------------------
(***************************************************************************)
(* Properties                                                              *)
(***************************************************************************)

\* The types of the variables.
ScreeningTypes ==
    /\ host \in [show : Shows \cup {None}, film : {"playing", "paused", "ended"}]
    /\ flight \in Seq([first : {"yes", "no"}, status : {"playing", "paused", "ended", "idle"}])
    /\ offered \subseteq Tracks
    /\ guest \in [link : {"on", "off"}, earlier : 0 .. MaxEarlier, heard : {"yes", "no"},
                  view : [status : {"playing", "paused", "ended", "idle"}, error : {"yes", "no"}],
                  remote : {"idle", "waiting", "receiving", "lost", "error"},
                  received : SUBSET Tracks, track : [Kinds -> Shows \cup {None}],
                  from : {"nobody", "host"}, left : {"yes", "no"}]
    /\ screen \in [there : {"yes", "no"}, state : {"playing", "paused"},
                   source : Shows \cup {None},
                   plays : SUBSET [by : {"state", "track", "nobody"}, is : {"waiting", "aborted"}]]

OfferedShow(k) ==
    IF \E t \in offered : t.kind = k
    THEN (CHOOSE t \in offered : t.kind = k).show ELSE None

\* Once LiveKit has told the guest of every track, the controller holds exactly
\* the host's current ones, the element has the current video track, and the
\* card does not say that the film is lost, or received, when it is not: in
\* whatever order old tracks went and new ones came while the element was
\* taken away and given back (handleTrackSubscribed, handleTrackUnsubscribed).
ShowsOfferedFilm ==
    guest.link = "on" /\ guest.left = "no" /\ guest.received = offered =>
        /\ \A k \in Kinds : guest.track[k] = OfferedShow(k)
        /\ screen.there = "yes" => screen.source = OfferedShow("video")
        /\ offered = {} => guest.remote \in {"waiting", "lost", "error"}
        /\ offered # {} => guest.remote \in {"receiving", "error"}

\* A tab that is not connected shows nothing of the film, whatever plays of its
\* former connection are refused later (emitState after disconnect).
SilentWhenAway ==
    guest.link = "off" =>
        guest.view = Idle /\ guest.remote = "idle" /\ screen.source = None

Steady(film) ==
    host.show # None /\ host.film = film /\ guest.link = "on" /\ screen.there = "yes"

Follows(film) ==
    IF film = "playing"
    THEN \/ screen.state = "playing" /\ screen.source = host.show /\ guest.view.status = film
         \/ "yes" = guest.view.error \/ guest.remote = "error"
    ELSE /\ screen.state = "paused"
         /\ guest.view.status = film \/ guest.view.error = "yes"

\* A guest follows the host in the end: when the film stays as it is and the
\* guest stays, its element plays exactly if the film does (or the card shows
\* an error), although revisions start again with every publication, tracks
\* that come late start the element and refused plays put an old state back
\* (docs/WT-306_PLAYBACK_STATE_SYNC.md:18-24).
FollowsInTheEnd ==
    \A film \in {"playing", "paused", "ended"} : <>[]Steady(film) => <>[]Follows(film)
=============================================================================
