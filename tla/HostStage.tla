----------------------------- MODULE HostStage -----------------------------
(***************************************************************************)
(* The host's player around the publication of FilePublication: the        *)
(* preview of what is published, the play button, and the seek bar with    *)
(* createHostSeekController, which writes one position at a time to the    *)
(* source and keeps only the newest of those asked for meanwhile.          *)
(*                                                                         *)
(* A step of FilePublication is taken with what it does to the player.     *)
(* The page is rendered later, and its effects run then.  Whether the film *)
(* plays, pauses or has ended is left out: it may be played at any time.   *)
(***************************************************************************)
EXTENDS FilePublication

CONSTANT Targets   \* positions the host seeks to

ASSUME StageAssumption == None \notin Targets

VARIABLES
    shown,     \* the publication status of the last rendering
    preview,   \* the publication whose stream the preview has
    asked,     \* the publication a play of which is pending
    source,    \* its video element and the seek controller
    bar,       \* seekBarValue
    wanted     \* the position asked for last

stage == <<shown, preview, asked, source, bar, wanted>>
stageVars == <<publicationVars, stage>>

\* showWatchSurface: the preview element is mounted.
Mounted(status) == status \in Busy \cup {"live"}

\* at: currentTime, None if it is none of Targets; moving: the element seeks;
\* event: "seeked" is to be fired; flying: seekInFlight, with its timer; told:
\* activeSeekComplete is set; queued: queuedSeek.
NewSource == [at |-> None, moving |-> FALSE, event |-> FALSE, flying |-> FALSE,
              told |-> FALSE, queued |-> None]

StageInit ==
    /\ Init
    /\ shown = "idle"
    /\ preview = None
    /\ asked = None
    /\ source = NewSource
    /\ bar = None
    /\ wanted = None

-----------------------------------------------------------------------------
(***************************************************************************)
(* The publication comes and goes                                          *)
(***************************************************************************)

\* publishFile, when the publication is made
Begun ==
    /\ preview' = IF Mounted(shown) THEN tab'.publication ELSE preview
    /\ UNCHANGED shown

\* stopCurrentFilePublication.  To reset the source settles its pending plays,
\* maybe as done: hostPlay then gives the stream that is gone to the preview,
\* before or after the page is rendered.
Cut ==
    \/ preview' = None /\ UNCHANGED shown
    \/ /\ asked # None /\ Mounted(tab'.status)
       /\ preview' = asked
       /\ shown' \in {shown, tab'.status}

Follow ==
    IF tab'.publication # tab.publication
    THEN /\ IF tab'.publication = None THEN Cut ELSE Begun
         /\ asked' = None
         /\ source' = NewSource
         /\ wanted' = None
         /\ UNCHANGED bar
    ELSE /\ preview' = IF tab.publication = None /\ tab'.status # tab.status
                       THEN None ELSE preview
         /\ UNCHANGED <<shown, asked, source, bar, wanted>>

Rendered_OnceMounted ==
    /\ shown # tab.status
    /\ shown' = tab.status
    /\ preview' = IF Mounted(tab.status) THEN preview ELSE None
    /\ UNCHANGED <<publicationVars, asked, source, bar, wanted>>

\* setHostPreviewElement with the element, or with none when it is not mounted
SetHostPreviewElement(status) == IF Mounted(status) THEN tab.publication ELSE None

\* The effect runs with every status: it takes the element off and sets it anew.
Rendered ==
    /\ shown # tab.status
    /\ shown' = tab.status
    /\ preview' = SetHostPreviewElement(tab.status)
    /\ UNCHANGED <<publicationVars, asked, source, bar, wanted>>

-----------------------------------------------------------------------------
(***************************************************************************)
(* Playing                                                                 *)
(***************************************************************************)

HostPlay ==
    /\ shown = "live" /\ tab.publication # None
    /\ asked' = tab.publication
    /\ UNCHANGED <<publicationVars, shown, preview, source, bar, wanted>>

PlayAnswered ==
    /\ asked # None
    /\ asked' = None
    /\ \/ preview' = IF Mounted(shown) THEN asked ELSE preview
       \/ UNCHANGED preview
    /\ UNCHANGED <<publicationVars, shown, source, bar, wanted>>

\* The film plays on from the position it was moved to.
FilmAdvances ==
    /\ tab.publication # None /\ ~source.moving /\ ~source.event
    /\ source' = [source EXCEPT !.at = None]
    /\ wanted' = None
    /\ UNCHANGED <<publicationVars, shown, preview, asked, bar>>

-----------------------------------------------------------------------------
(***************************************************************************)
(* Seeking                                                                 *)
(***************************************************************************)

Free(s) == ~s.flying /\ ~s.moving

\* flush finds that the source is there already: the seek is complete.
ThereAlready(s) == s.queued # None /\ Free(s) /\ s.at = s.queued

\* flush
Flushed(s) ==
    IF s.queued = None \/ ~Free(s) THEN s
    ELSE IF ThereAlready(s) THEN [s EXCEPT !.queued = None, !.told = FALSE]
    ELSE [s EXCEPT !.at = s.queued, !.moving = TRUE, !.flying = TRUE, !.told = TRUE,
                   !.queued = None]

\* onComplete sets the bar free.
Controls(s, released) ==
    /\ source' = Flushed(s)
    /\ bar' = IF released \/ ThereAlready(s) THEN None ELSE bar
    /\ UNCHANGED <<publicationVars, shown, preview, asked>>

Drag(t) ==
    /\ shown = "live"
    /\ bar' = t
    /\ UNCHANGED <<publicationVars, shown, preview, asked, source, wanted>>

PointerCancel ==
    /\ shown = "live" /\ bar # None
    /\ bar' = None
    /\ UNCHANGED <<publicationVars, shown, preview, asked, source, wanted>>

\* A pointer or a key is released: the bar's value, or the time it shows.
CommitHostSeek(t) ==
    /\ shown = "live"
    /\ bar \in {None, t}
    /\ IF tab.publication = None
       THEN UNCHANGED stageVars
       ELSE wanted' = t /\ Controls([source EXCEPT !.queued = t], FALSE)

SeekEnds ==
    /\ source.moving
    /\ source' = [source EXCEPT !.moving = FALSE, !.event = TRUE]
    /\ UNCHANGED <<publicationVars, shown, preview, asked, bar, wanted>>

Landed == [source EXCEPT !.event = FALSE, !.flying = FALSE, !.told = FALSE]

HandleSeeked_ReleasesAnyway ==
    /\ source.event
    /\ Controls(Landed, source.told)
    /\ UNCHANGED wanted

HandleSeeked ==
    /\ source.event
    /\ Controls(Landed, source.told /\ source.queued = None)
    /\ UNCHANGED wanted

\* After 1.5 s the controller waits no longer, and completes nothing.
SeekTimesOut ==
    /\ source.flying
    /\ Controls([source EXCEPT !.flying = FALSE, !.told = FALSE], FALSE)
    /\ UNCHANGED wanted

-----------------------------------------------------------------------------
PublicationSteps ==
    \/ StopFilePublication
    \/ ConnectLiveKit
    \/ \E d \in Dials : DialEnds(d)
    \/ \E n \in Reports : LoseConnection(n)
    \/ Reconnecting
    \/ Reconnected
    \/ \E next \in {"idle", "disconnected"} : LeaveRoom(next)
    \/ \E f \in Files : SelectFile(f) \/ FileChecked(f)
    \/ Publish
    \/ RestartFilePublication
    \/ RecoverPublication
    \/ \E c \in Calls : CallProgress(c)

StageNext ==
    \/ PublicationSteps /\ Follow
    \/ Rendered
    \/ HostPlay
    \/ PlayAnswered
    \/ FilmAdvances
    \/ \E t \in Targets : Drag(t) \/ CommitHostSeek(t)
    \/ PointerCancel
    \/ SeekEnds
    \/ HandleSeeked
    \/ SeekTimesOut

StageSpec == StageInit /\ [][StageNext]_stageVars

\* As in FilePublication
FairStageSpec ==
    /\ StageSpec
    /\ WF_stageVars(RecoverPublication /\ Follow)
    /\ \A d \in Dials : WF_stageVars(DialEnds(d) /\ Follow)
    /\ \A c \in Calls : WF_stageVars(CallProgress(c) /\ Follow)

-----------------------------------------------------------------------------
(***************************************************************************)
(* Properties                                                              *)
(***************************************************************************)

\* The types of the variables.
StageTypeOK ==
    /\ TypeOK
    /\ shown \in Busy \cup {"idle", "live", "error"}
    /\ preview \in Calls \cup {None}
    /\ asked \in Calls \cup {None}
    /\ source \in [at : Targets \cup {None}, moving : BOOLEAN, event : BOOLEAN,
                   flying : BOOLEAN, told : BOOLEAN, queued : Targets \cup {None}]
    /\ bar \in Targets \cup {None}
    /\ wanted \in Targets \cup {None}

\* Once the page shows a live publication its preview has that publication's
\* stream, whichever of rendering, publishing, stopping and a pending play of
\* an earlier publication came first (attachHostPreview, setHostPreviewElement).
PreviewIsPublication ==
    shown = "live" /\ tab.status = "live" => preview = tab.publication

\* The controller sets the seek bar free only when the source is at the position
\* asked for last: the end of a seek that another one has overtaken does not
\* make the bar jump back.  (The host may give up dragging by itself.)
BarFollowsNewestSeek ==
    [][bar # None /\ bar' = None => (wanted' # None /\ source'.at = wanted') \/ PointerCancel]_stageVars

=============================================================================
