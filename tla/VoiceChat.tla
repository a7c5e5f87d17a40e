------------------------------- MODULE VoiceChat -------------------------------
(***************************************************************************)
(* Voice in one tab: the microphone it publishes to its LiveKit room, with *)
(* the request id that makes late answers harmless, and the hidden audio   *)
(* elements for the voices of others.                                      *)
(*                                                                         *)
(* An attempt is a click on the start button and the microphone track it   *)
(* leads to.  Opening the device, publishing, muting and unmuting are      *)
(* answered later; anything may happen in between.  The LiveKit connection *)
(* is that of LiveKitCall.                                                 *)
(***************************************************************************)
EXTENDS Absent, Naturals, FiniteSets

CONSTANTS
    Attempts,  \* clicks on the start button; a name may be used again
    Others,    \* other participants, each with one voice track at most
    Plays      \* bound: plays of voice elements under way; a name may be used again

ASSUME VoiceAssumption == None \notin Attempts

VARIABLES
    voice,     \* card, publication and request id of the tab
    attempts,  \* what each attempt waits for
    mics,      \* attempts whose microphone is open, and onair those published
    voices,    \* voice tracks the LiveKit room has
    ears,      \* the remote voice controller
    plays      \* plays not answered: of its elements here, of a former one's late

voiceVars == <<voice, attempts, mics, voices, ears, plays>>

NoAttempt == [stage |-> "none", room |-> "here", toggle |-> "no"]

Silence == [open |-> {}, onair |-> {}]

Deaf == [received |-> {}, elements |-> {}, left |-> {}, error |-> "no"]

VoiceInit ==
    /\ voice = [status |-> "idle", publication |-> None, request |-> None]
    /\ attempts = [c \in Attempts |-> NoAttempt]
    /\ mics = Silence
    /\ voices = {}
    /\ ears = Deaf
    /\ plays = [here |-> {}, late |-> {}]

-----------------------------------------------------------------------------
(***************************************************************************)
(* The microphone                                                          *)
(***************************************************************************)

\* stopVoicePublication, and stop of a track that was not published
Closed(c) == [open |-> mics.open \ {c}, onair |-> mics.onair \ {c}]

Free(c) == attempts[c] = NoAttempt /\ c \notin mics.open /\ c # voice.request

\* startVoiceChat, from the start or the retry button
StartVoice(c) ==
    /\ voice.status \in {"idle", "error"}
    /\ voice.publication = None
    /\ Free(c)
    /\ voice' = [voice EXCEPT !.status = "requesting", !.request = c]
    /\ attempts' = [attempts EXCEPT ![c].stage = "asking"]
    /\ UNCHANGED <<mics, voices, ears, plays>>

\* createLocalAudioTrack has the device.
MicrophoneOpens(c) ==
    /\ attempts[c].stage = "asking"
    /\ attempts' = [attempts EXCEPT ![c].stage = "publishing"]
    /\ mics' = [mics EXCEPT !.open = @ \cup {c}]
    /\ UNCHANGED <<voice, voices, ears, plays>>

StartFails_Silent(c) ==
    /\ attempts[c].stage # "none"
    /\ attempts' = [attempts EXCEPT ![c] = NoAttempt]
    /\ mics' = Closed(c)
    /\ UNCHANGED <<voice, voices, ears, plays>>

\* No secure context, no permission, no device, or publishTrack fails.
StartFails(c) ==
    /\ attempts[c].stage # "none"
    /\ attempts' = [attempts EXCEPT ![c] = NoAttempt]
    /\ mics' = Closed(c)
    /\ voice' = IF voice.request = c THEN [voice EXCEPT !.status = "error"] ELSE voice
    /\ UNCHANGED <<voices, ears, plays>>

VoicePublished_KeepsStale(c) ==
    /\ attempts[c].stage = "publishing" /\ attempts[c].room = "here"
    /\ attempts' = [attempts EXCEPT ![c] = NoAttempt]
    /\ IF voice.request = c
       THEN voice' = [voice EXCEPT !.status = "live", !.publication = c]
       ELSE UNCHANGED voice
    /\ mics' = [mics EXCEPT !.onair = @ \cup {c}]
    /\ UNCHANGED <<voices, ears, plays>>

\* publishTrack has answered; what nobody waits for is stopped.
VoicePublished(c) ==
    /\ attempts[c].stage = "publishing" /\ attempts[c].room = "here"
    /\ attempts' = [attempts EXCEPT ![c] = NoAttempt]
    /\ IF voice.request = c
       THEN /\ voice' = [voice EXCEPT !.status = "live", !.publication = c]
            /\ mics' = [mics EXCEPT !.onair = @ \cup {c}]
       ELSE /\ mics' = Closed(c)
            /\ UNCHANGED voice
    /\ UNCHANGED <<voices, ears, plays>>

\* muteVoiceChat and unmuteVoiceChat
Toggle(c, toggle) ==
    /\ voice.publication = c
    /\ attempts[c].toggle = "no"
    /\ voice.status = IF toggle = "mute" THEN "live" ELSE "muted"
    /\ attempts' = [attempts EXCEPT ![c].toggle = toggle]
    /\ UNCHANGED <<voice, mics, voices, ears, plays>>

\* The card follows the answer even when the publication has gone meanwhile.
ToggleSettles(c) ==
    /\ attempts[c].toggle # "no"
    /\ attempts' = [attempts EXCEPT ![c].toggle = "no"]
    /\ LET asked == IF attempts[c].toggle = "mute" THEN "muted" ELSE "live"
       IN  \E status \in {asked, "error"} : voice' = [voice EXCEPT !.status = status]
    /\ UNCHANGED <<mics, voices, ears, plays>>

Quiet == [voice EXCEPT !.status = "idle", !.publication = None, !.request = None]

\* stopVoiceChat
StopVoice ==
    /\ voice.status \in {"live", "muted", "requesting"}
    /\ voice' = Quiet
    /\ mics' = Closed(voice.publication)
    /\ UNCHANGED <<attempts, voices, ears, plays>>

-----------------------------------------------------------------------------
(***************************************************************************)
(* The voices of others                                                    *)
(***************************************************************************)

\* Another participant starts or stops to speak, or leaves the LiveKit room.
OthersSpeak ==
    /\ \E speaking \in SUBSET Others : voices' = speaking
    /\ UNCHANGED <<voice, attempts, mics, ears, plays>>

OtherLeaves(o) ==
    /\ o \in ears.received
    /\ voices' = voices \ {o}
    /\ ears' = [ears EXCEPT !.left = @ \cup {o}]
    /\ UNCHANGED <<voice, attempts, mics, plays>>

FreePlays == Plays \ (plays.here \cup plays.late)

\* attachVoiceTrack; the play of the new element is answered later.
VoiceSubscribed(o) ==
    /\ o \in voices \ (ears.received \cup ears.left)
    /\ \E play \in FreePlays : plays' = [plays EXCEPT !.here = @ \cup {play}]
    /\ ears' = [ears EXCEPT !.received = @ \cup {o}, !.elements = @ \cup {o}, !.error = "no"]
    /\ UNCHANGED <<voice, attempts, mics, voices>>

Settled(play) == [here |-> plays.here \ {play}, late |-> plays.late \ {play}]

PlayBegins(play) ==
    /\ play \in plays.here \cup plays.late
    /\ plays' = Settled(play)
    /\ UNCHANGED <<voice, attempts, mics, voices, ears>>

PlayRefused_Always(play) ==
    /\ play \in plays.here \cup plays.late
    /\ plays' = Settled(play)
    /\ ears' = [ears EXCEPT !.error = "yes"]
    /\ UNCHANGED <<voice, attempts, mics, voices>>

\* Autoplay is not allowed, or the element has been removed meanwhile; emitState
\* says nothing once the controller is disconnected.
PlayRefused(play) ==
    /\ play \in plays.here \cup plays.late
    /\ plays' = Settled(play)
    /\ ears' = IF play \in plays.here THEN [ears EXCEPT !.error = "yes"] ELSE ears
    /\ UNCHANGED <<voice, attempts, mics, voices>>

VoiceUnsubscribed(o) ==
    /\ o \in ears.received \ voices
    /\ ears' = [ears EXCEPT !.received = @ \ {o}, !.elements = @ \ {o}, !.error = "no"]
    /\ UNCHANGED <<voice, attempts, mics, voices, plays>>

\* participantDisconnected
SpeakerDisconnected(o) ==
    /\ o \in ears.left
    /\ ears' = [received |-> ears.received \ {o}, elements |-> ears.elements \ {o},
                left |-> ears.left \ {o}, error |-> "no"]
    /\ UNCHANGED <<voice, attempts, mics, voices, plays>>

-----------------------------------------------------------------------------
(***************************************************************************)
(* The connection                                                          *)
(***************************************************************************)

\* connectLiveKit: the tracks that have come before the controller are played.
VoiceBegins ==
    /\ \E there \in SUBSET voices, started \in SUBSET FreePlays :
          /\ Cardinality(started) = Cardinality(there)
          /\ ears' = [Deaf EXCEPT !.received = there, !.elements = there]
          /\ plays' = [plays EXCEPT !.here = started]
    /\ UNCHANGED <<voice, attempts, mics, voices>>

\* disconnectLiveKit, and onStatusChange when the connection is lost
VoiceEnds ==
    /\ voice' = Quiet
    /\ attempts' = [c \in Attempts |->
                      IF attempts[c].stage = "none" THEN attempts[c]
                      ELSE [attempts[c] EXCEPT !.room = "gone"]]
    /\ mics' = [Closed(voice.publication) EXCEPT !.onair = {}]
    /\ ears' = Deaf
    /\ plays' = [here |-> {}, late |-> plays.late \cup plays.here]
    /\ UNCHANGED voices

VoiceAnswers ==
    \/ \E c \in Attempts : MicrophoneOpens(c) \/ StartFails(c) \/ VoicePublished(c)
    \/ \E c \in Attempts : ToggleSettles(c)
    \/ StopVoice
    \/ \E play \in Plays : PlayBegins(play) \/ PlayRefused(play)

VoiceClicks ==
    \E c \in Attempts : StartVoice(c) \/ \E toggle \in {"mute", "unmute"} : Toggle(c, toggle)

EarsStep ==
    \/ \E o \in Others : OtherLeaves(o) \/ VoiceSubscribed(o)
    \/ \E o \in Others : VoiceUnsubscribed(o) \/ SpeakerDisconnected(o)

VoiceTypeOK ==
    /\ voice \in [status : {"idle", "requesting", "live", "muted", "error"},
                  publication : Attempts \cup {None}, request : Attempts \cup {None}]
    /\ attempts \in [Attempts -> [stage : {"none", "asking", "publishing"},
                                  room : {"here", "gone"}, toggle : {"no", "mute", "unmute"}]]
    /\ mics \in [open : SUBSET Attempts, onair : SUBSET Attempts]
    /\ voices \subseteq Others
    /\ ears \in [received : SUBSET Others, elements : SUBSET Others, left : SUBSET Others,
                 error : {"no", "yes"}]
    /\ plays \in [here : SUBSET Plays, late : SUBSET Plays]
=============================================================================
