------------------------------ MODULE LiveKitCall ------------------------------
(***************************************************************************)
(* A tab's LiveKit connection as voice chat and quality indicators see it: *)
(* connectLiveKit starts the controllers of both, disconnectLiveKit and a  *)
(* lost connection end them, and everything asked of the browser or of     *)
(* LiveKit before may still be answered afterwards.  RoomSocket and        *)
(* FilePublication have how the connection comes about.                    *)
(***************************************************************************)
EXTENDS VoiceChat, QualityIndicators

VARIABLE link  \* "on" while liveKitStatus is connected

callVars == <<voiceVars, monitor, link>>

Init == VoiceInit /\ QualityInit /\ link = "off"

\* connectLiveKit has a connection.
ConnectCall ==
    /\ link = "off"
    /\ VoiceBegins /\ QualityBegins
    /\ link' = "on"

\* disconnectLiveKit, or the connection is lost
EndCall ==
    /\ link = "on"
    /\ VoiceEnds /\ QualityEnds
    /\ link' = "off"

VoiceStep ==
    /\ \/ VoiceAnswers
       \/ link = "on" /\ (VoiceClicks \/ EarsStep)
       \/ OthersSpeak
    /\ UNCHANGED <<monitor, link>>

MonitorStep == QualityStep /\ UNCHANGED <<voiceVars, link>>

Next ==
    \/ ConnectCall
    \/ EndCall
    \/ VoiceStep
    \/ MonitorStep

Spec == Init /\ [][Next]_callVars

\* What was published or asked of the network is answered in the end; the
\* browser's question whether the microphone may be used need not be.
FairSpec ==
    /\ Spec
    /\ \A c \in Attempts : WF_callVars(
          /\ attempts[c].stage = "publishing"
          /\ (VoicePublished(c) \/ StartFails(c))
          /\ UNCHANGED <<monitor, link>>)

-----------------------------------------------------------------------------
(***************************************************************************)
(* Properties                                                              *)
(***************************************************************************)

\* The types of the variables.
TypeOK == VoiceTypeOK /\ QualityTypeOK /\ link \in {"on", "off"}

\* No microphone is forgotten: one that is open is the tab's publication or is
\* being published, and only the publication of the present connection is on the
\* air, although stops, retries and lost connections overtake the answers
\* (voiceRequestIdRef).
NoForgottenMicrophone ==
    /\ \A c \in mics.open : c = voice.publication \/ attempts[c].stage = "publishing"
    /\ mics.onair = {voice.publication} \ {None}
    /\ link = "off" => voice.publication = None
    /\ voice.publication \in {None, voice.request}

\* A tab without a connection hears nobody and shows no quality and no error,
\* whatever is answered late: the plays of voice elements that are refused after
\* the connection has gone, among them those the disconnect itself aborts, and the
\* polls (the disconnected flags of both controllers).
NothingAfterTheCall ==
    link = "off" => ears = Deaf /\ monitor.shown = "idle" /\ monitor.on = "no"

\* When no poll is under way the card is not rosier than LiveKit's last word on
\* any participant, however polls overlap: each looks at the qualities when it
\* is answered and one follows every change (handleConnectionQualityChanged).
QualityNotRosy ==
    monitor.on = "yes" /\ monitor.polls = 0 /\ monitor.failed = "no" =>
        \A p \in People :
           monitor.known[p] \in {"lost", "poor"} => monitor.shown \in {"lost", monitor.known[p]}

\* Once its microphone is open, a start does not stay "requesting": it becomes
\* the publication, an error or nobody's concern.
RequestingEnds ==
    \A c \in Attempts :
        (attempts[c].stage = "publishing" /\ voice.request = c)
            ~> (voice.request # c \/ voice.status # "requesting")
=============================================================================
