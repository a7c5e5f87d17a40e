----------------------------- MODULE LiveKitProofs -----------------------------
(***************************************************************************)
(* Voice and quality of a tab over its LiveKit connections (LiveKitCall),  *)
(* for every number of attempts, of others, of polls and every statistics, *)
(* and the restarts that guests ask for over them (MediaRecovery), for     *)
(* every number of guests and of ids.                                      *)
(*                                                                         *)
(* Voice: an attempt that waits for an answer is never the publication,    *)
(* and one of an earlier connection is known as such; that makes every     *)
(* late answer harmless.                                                   *)
(*                                                                         *)
(* Restarts: the argument follows an id.  While its request is being sent  *)
(* over a connection that is there, is under way to the host or on the     *)
(* host's alert, it is in one of these places only and nobody has told its *)
(* guest anything about it; it is told of only when the host takes it off  *)
(* its alert.                                                              *)
(***************************************************************************)
EXTENDS LiveKitCall, MediaRecovery, TLAPS


-----------------------------------------------------------------------------
(***************************************************************************)
(* Voice and quality: the inductive invariant                              *)
(***************************************************************************)

\* What is published waits for nothing.
PublicationSettled ==
    voice.publication # None => attempts[voice.publication].stage = "none"

\* Without a connection there is no poll and no play of a controller that listens.
NothingPending == link = "off" => monitor.polls = 0 /\ plays.here = {}

\* Without a connection nothing is asked for, and what still waits was asked of
\* a connection that has gone.
NothingHere ==
    /\ link = "off" =>
        /\ voice.request = None
        /\ \A c \in Attempts : attempts[c].stage # "none" => attempts[c].room = "gone"
    /\ NothingPending

PollsBounded == monitor.polls + monitor.late <= MaxPolls

IInv ==
    /\ TypeOK
    /\ PublicationSettled
    /\ NothingHere
    /\ PollsBounded
    /\ NoForgottenMicrophone
    /\ NothingAfterTheCall
    /\ QualityNotRosy

-----------------------------------------------------------------------------
(***************************************************************************)
(* Quality                                                                 *)
(***************************************************************************)

Known == Qualities \cup {"none"}

\* Every quality has a weight that can be compared.
LEMMA WeightType ==
    ASSUME NEW quality \in Known
    PROVE  Weight(quality) \in {-1, 0, 1, 2, 4, 5}
BY DEF Known, Qualities, Weight

\* Of several weights there is a largest.
LEMMA MaxOfWeights ==
    ASSUME NEW W \in SUBSET {-1, 0, 1, 2, 4, 5}, W # {}
    PROVE  Max(W) \in W /\ \A w \in W : Max(W) >= w
<1>1. \E m \in W : \A w \in W : m >= w
  <2>1. CASE 5 \in W
    BY <2>1
  <2>2. CASE 5 \notin W /\ 4 \in W
    BY <2>2
  <2>3. CASE 5 \notin W /\ 4 \notin W /\ 2 \in W
    BY <2>3
  <2>4. CASE 5 \notin W /\ 4 \notin W /\ 2 \notin W /\ 1 \in W
    BY <2>4
  <2>5. CASE 5 \notin W /\ 4 \notin W /\ 2 \notin W /\ 1 \notin W /\ 0 \in W
    BY <2>5
  <2>6. CASE 5 \notin W /\ 4 \notin W /\ 2 \notin W /\ 1 \notin W /\ 0 \notin W
    <3>1. \A w \in W : w = -1
      BY <2>6
    <3>2. PICK w \in W : TRUE
      OBVIOUS
    <3>3. \A v \in W : w >= v
      BY <3>1, <3>2
    <3> QED BY <3>2, <3>3
  <2> QED BY <2>1, <2>2, <2>3, <2>4, <2>5, <2>6
<1> QED BY <1>1 DEF Max

\* worstConnectionQuality is one of the qualities known and none is worse.
LEMMA WorstIsWorst ==
    ASSUME NEW known \in [People -> Known], NEW p \in People
    PROVE  Worst(known) \in Known /\ Weight(Worst(known)) >= Weight(known[p])
<1> DEFINE W == {Weight(known[q]) : q \in People}
<1>1. W \in SUBSET {-1, 0, 1, 2, 4, 5} /\ W # {}
  BY WeightType
<1>2. Max(W) \in W /\ \A w \in W : Max(W) >= w
  BY <1>1, MaxOfWeights
<1>3. \E quality \in Known : Weight(quality) = Max(W)
  BY <1>2
<1>4. Worst(known) \in Known /\ Weight(Worst(known)) = Max(W)
  BY <1>3 DEF Worst, Known
<1>5. Weight(known[p]) \in W
  OBVIOUS
<1> QED BY <1>2, <1>4, <1>5

\* What a poll finds is a quality.
LEMMA AssessType ==
    ASSUME NEW known, NEW measured, NEW loss, NEW jitter, NEW rtt
    PROVE  Assess(Worst(known), measured, loss, jitter, rtt) \in Statuses
BY DEF Assess, Statuses

\* assessQuality says what LiveKit says when that is bad.
LEMMA AssessNotRosy ==
    ASSUME NEW known \in [People -> Known], NEW p \in People, known[p] \in {"lost", "poor"},
           NEW measured, NEW loss, NEW jitter, NEW rtt
    PROVE  Assess(Worst(known), measured, loss, jitter, rtt) \in {"lost", known[p]}
<1>1. Worst(known) \in Known /\ Weight(Worst(known)) >= Weight(known[p])
  BY WorstIsWorst
<1>2. Worst(known) \in {"lost", known[p]}
  BY <1>1 DEF Weight, Known, Qualities
<1> QED BY <1>2 DEF Assess

MonitorType ==
    [on : {"no", "yes"}, known : [People -> Known], polls : 0 .. MaxPolls,
     late : 0 .. MaxPolls, shown : Statuses, failed : {"no", "yes"}]

\* The part of the invariant that is about the monitor while the link is on.
QualityInv ==
    /\ monitor \in MonitorType
    /\ PollsBounded
    /\ QualityNotRosy

\* A step of the indicator keeps its invariant and does not turn it on or off.
LEMMA QualityStepKeeps ==
    ASSUME QualityInv, QualityStep
    PROVE  /\ QualityInv'
           /\ monitor'.on = monitor.on
           /\ monitor.on = "no" /\ monitor.polls = 0 =>
                 monitor'.polls = 0 /\ monitor'.shown = monitor.shown
<1> USE QualityAssumption
<1>1. /\ monitor \in MonitorType
      /\ monitor.polls + monitor.late <= MaxPolls
  BY DEF QualityInv, PollsBounded
<1>2. CASE PollQuality
  <2>1. /\ monitor' = [monitor EXCEPT !.polls = @ + 1]
        /\ monitor.on = "yes" /\ monitor.polls + monitor.late < MaxPolls
    BY <1>2 DEF PollQuality, CanPoll
  <2>2. /\ monitor' \in MonitorType /\ monitor'.polls = monitor.polls + 1
        /\ monitor'.late = monitor.late /\ monitor'.on = monitor.on
    BY <1>1, <2>1 DEF MonitorType
  <2>3. PollsBounded'
    BY <1>1, <2>1, <2>2 DEF PollsBounded, MonitorType
  <2>4. monitor'.polls # 0
    BY <1>1, <2>2 DEF MonitorType
  <2>5. QualityNotRosy'
    BY <2>4 DEF QualityNotRosy
  <2> QED BY <1>1, <2>1, <2>2, <2>3, <2>5 DEF QualityInv
<1>3. ASSUME NEW p \in People, NEW quality \in {"good", "lost"},
             ConnectionQualityChanged(p, quality)
      PROVE  /\ QualityInv' /\ monitor'.on = monitor.on /\ monitor.on = "yes"
  <2>1. /\ monitor' = [monitor EXCEPT !.known[p] = quality, !.polls = @ + 1]
        /\ monitor.on = "yes" /\ monitor.polls + monitor.late < MaxPolls
    BY <1>3 DEF ConnectionQualityChanged, CanPoll
  <2> DEFINE known == [monitor.known EXCEPT ![p] = quality]
  <2>2. /\ monitor' \in MonitorType /\ monitor'.polls = monitor.polls + 1
        /\ monitor'.late = monitor.late /\ monitor'.on = monitor.on
    <3>1. known \in [People -> Known]
      BY <1>1 DEF MonitorType, Known, Qualities
    <3>2. monitor' = [monitor EXCEPT !.known = known, !.polls = monitor.polls + 1]
      BY <1>1, <2>1 DEF MonitorType
    <3>3. monitor.polls + 1 \in 0 .. MaxPolls
      BY <1>1, <2>1 DEF MonitorType
    <3> HIDE DEF known
    <3> QED BY <1>1, <3>1, <3>2, <3>3 DEF MonitorType
  <2>3. PollsBounded'
    BY <1>1, <2>1, <2>2 DEF PollsBounded, MonitorType
  <2>4. monitor'.polls # 0
    BY <1>1, <2>2 DEF MonitorType
  <2>5. QualityNotRosy'
    BY <2>4 DEF QualityNotRosy
  <2> QED BY <1>1, <2>1, <2>2, <2>3, <2>5 DEF QualityInv
<1>4. ASSUME NEW status \in Statuses, NEW failed \in {"no", "yes"}, monitor.polls > 0,
             Show(status, failed),
             failed = "no" => \A p \in People : monitor.known[p] \in {"lost", "poor"} =>
                                 status \in {"lost", monitor.known[p]}
      PROVE  QualityInv' /\ monitor'.on = monitor.on
  <2>1. /\ monitor' = [monitor EXCEPT !.polls = @ - 1, !.shown = status, !.failed = failed]
    BY <1>4 DEF Show
  <2>2. /\ monitor' \in MonitorType /\ monitor'.polls = monitor.polls - 1
        /\ monitor'.late = monitor.late /\ monitor'.on = monitor.on
        /\ monitor'.known = monitor.known /\ monitor'.shown = status /\ monitor'.failed = failed
    <3>1. monitor.polls - 1 \in 0 .. MaxPolls
      BY <1>1, <1>4 DEF MonitorType
    <3> QED BY <1>1, <2>1, <3>1 DEF MonitorType
  <2>4. PollsBounded'
    BY <1>1, <2>2 DEF PollsBounded, MonitorType
  <2>5. QualityNotRosy'
    BY <1>4, <2>2 DEF QualityNotRosy
  <2> QED BY <2>2, <2>4, <2>5 DEF QualityInv
<1>5. CASE PollAnswered
  <2>1. PICK measured \in BOOLEAN, loss \in PacketLosses \cup {0}, delay \in Delays \cup {0} :
           Show(Assess(Worst(monitor.known), measured, loss, delay, 5 * delay), "no")
    BY <1>5 DEF PollAnswered
  <2> DEFINE status == Assess(Worst(monitor.known), measured, loss, delay, 5 * delay)
  <2>2. status \in Statuses
    BY AssessType
  <2>3. \A p \in People : monitor.known[p] \in {"lost", "poor"} =>
           status \in {"lost", monitor.known[p]}
    BY <1>1, AssessNotRosy DEF MonitorType
  <2>4. Show(status, "no") /\ monitor.polls > 0
    BY <1>5, <2>1 DEF PollAnswered
  <2> HIDE DEF status
  <2> QED BY <1>4, <2>2, <2>3, <2>4
<1>6. CASE PollFails
  <2>1. Show("warning", "yes") /\ monitor.polls > 0 /\ "warning" \in Statuses
    BY <1>6 DEF PollFails, Statuses
  <2> QED BY <1>4, <2>1
<1>7. CASE LatePollAnswered
  <2>1. /\ monitor' = [monitor EXCEPT !.late = @ - 1] /\ monitor.late > 0
    BY <1>7 DEF LatePollAnswered
  <2>2. /\ monitor' \in MonitorType /\ monitor'.polls = monitor.polls
        /\ monitor'.late = monitor.late - 1 /\ monitor'.on = monitor.on
        /\ monitor'.known = monitor.known /\ monitor'.shown = monitor.shown
        /\ monitor'.failed = monitor.failed
    BY <1>1, <2>1 DEF MonitorType
  <2>3. PollsBounded'
    BY <1>1, <2>2 DEF PollsBounded, MonitorType
  <2>4. QualityNotRosy'
    BY <2>2 DEF QualityInv, QualityNotRosy
  <2> QED BY <1>1, <2>1, <2>2, <2>3, <2>4 DEF QualityInv
<1>8. PollAnswered \/ PollFails => monitor.polls > 0
  BY DEF PollAnswered, PollFails
<1> QED
  BY <1>1, <1>2, <1>3, <1>5, <1>6, <1>7, <1>8 DEF QualityStep, PollQuality, LatePollAnswered

-----------------------------------------------------------------------------
(***************************************************************************)
(* The microphone                                                          *)
(***************************************************************************)

\* The part of the invariant that is about the microphone.
MicrophoneInv ==
    /\ VoiceTypeOK
    /\ PublicationSettled
    /\ NoForgottenMicrophone
    /\ link = "off" =>
          /\ voice.request = None
          /\ \A c \in Attempts : attempts[c].stage # "none" => attempts[c].room = "gone"

AttemptType ==
    [stage : {"none", "asking", "publishing"}, room : {"here", "gone"},
     toggle : {"no", "mute", "unmute"}]

\* The record of an attempt that is not made.
LEMMA NoAttemptType ==
    /\ NoAttempt \in AttemptType
    /\ NoAttempt.stage = "none" /\ NoAttempt.room = "here" /\ NoAttempt.toggle = "no"
BY DEF NoAttempt, AttemptType

\* A step that leaves the voices of others alone keeps what the rest keeps.
LEMMA MicrophoneChange ==
    ASSUME MicrophoneInv,
           voice' \in [status : {"idle", "requesting", "live", "muted", "error"},
                       publication : Attempts \cup {None}, request : Attempts \cup {None}],
           attempts' \in [Attempts -> AttemptType],
           mics' \in [open : SUBSET Attempts, onair : SUBSET Attempts],
           UNCHANGED <<voices, ears, plays, link>>,
           voice'.publication # None => attempts'[voice'.publication].stage = "none",
           \A c \in mics'.open : c = voice'.publication \/ attempts'[c].stage = "publishing",
           mics'.onair = {voice'.publication} \ {None},
           voice'.publication \in {None, voice'.request},
           link = "off" =>
              /\ voice'.request = None
              /\ \A c \in Attempts : attempts'[c].stage # "none" => attempts'[c].room = "gone"
    PROVE  MicrophoneInv'
<1>1. VoiceTypeOK'
  BY DEF MicrophoneInv, VoiceTypeOK, AttemptType
<1>2. link = "off" => voice'.publication = None
  OBVIOUS
<1>3. link' = link
  OBVIOUS
<1>4. PublicationSettled'
  BY DEF PublicationSettled
<1>5. NoForgottenMicrophone'
  BY <1>2, <1>3 DEF NoForgottenMicrophone
<1> QED BY <1>1, <1>3, <1>4, <1>5 DEF MicrophoneInv

\* The types of voice, and where an open microphone may be.
LEMMA MicrophoneFacts ==
    ASSUME MicrophoneInv
    PROVE  /\ voice \in [status : {"idle", "requesting", "live", "muted", "error"},
                         publication : Attempts \cup {None}, request : Attempts \cup {None}]
           /\ attempts \in [Attempts -> AttemptType]
           /\ mics \in [open : SUBSET Attempts, onair : SUBSET Attempts]
           /\ voice.publication # None => attempts[voice.publication].stage = "none"
           /\ \A c \in mics.open : c = voice.publication \/ attempts[c].stage = "publishing"
           /\ mics.onair = {voice.publication} \ {None}
           /\ voice.publication \in {None, voice.request}
           /\ link = "off" =>
                /\ voice.request = None
                /\ \A c \in Attempts : attempts[c].stage # "none" => attempts[c].room = "gone"
BY DEF MicrophoneInv, VoiceTypeOK, PublicationSettled, NoForgottenMicrophone, AttemptType

\* Pressing the voice button keeps the invariant.
LEMMA StartVoiceStep ==
    ASSUME MicrophoneInv, NEW c \in Attempts, StartVoice(c), UNCHANGED link, link = "on"
    PROVE  MicrophoneInv'
<1>1. /\ voice.publication = None /\ attempts[c] = NoAttempt /\ c \notin mics.open
      /\ voice' = [voice EXCEPT !.status = "requesting", !.request = c]
      /\ attempts' = [attempts EXCEPT ![c].stage = "asking"]
      /\ mics' = mics /\ UNCHANGED <<voices, ears, plays>>
  BY DEF StartVoice, Free
<1>2. attempts' \in [Attempts -> AttemptType]
      /\ \A d \in Attempts : d # c => attempts'[d] = attempts[d]
  BY <1>1, MicrophoneFacts DEF AttemptType
<1>3. /\ voice' \in [status : {"idle", "requesting", "live", "muted", "error"},
                     publication : Attempts \cup {None}, request : Attempts \cup {None}]
      /\ voice'.publication = None
  BY <1>1, MicrophoneFacts
<1>4. \A d \in mics'.open : d = voice'.publication \/ attempts'[d].stage = "publishing"
  BY <1>1, <1>2, <1>3, MicrophoneFacts
<1> QED
  BY <1>1, <1>2, <1>3, <1>4, MicrophoneFacts, MicrophoneChange

\* A microphone that opens, late or not, keeps the invariant.
LEMMA MicrophoneOpensStep ==
    ASSUME MicrophoneInv, NEW c \in Attempts, MicrophoneOpens(c), UNCHANGED link
    PROVE  MicrophoneInv'
<1>1. /\ attempts[c].stage = "asking" /\ voice' = voice
      /\ attempts' = [attempts EXCEPT ![c].stage = "publishing"]
      /\ mics' = [mics EXCEPT !.open = @ \cup {c}] /\ UNCHANGED <<voices, ears, plays>>
  BY DEF MicrophoneOpens
<1>2. /\ attempts' \in [Attempts -> AttemptType]
      /\ attempts'[c].stage = "publishing" /\ attempts'[c].room = attempts[c].room
      /\ \A d \in Attempts : d # c => attempts'[d] = attempts[d]
  BY <1>1, MicrophoneFacts DEF AttemptType
<1>3. /\ mics' \in [open : SUBSET Attempts, onair : SUBSET Attempts]
      /\ mics'.open = mics.open \cup {c} /\ mics'.onair = mics.onair
  BY <1>1, MicrophoneFacts
<1>4. voice.publication # c
  BY <1>1, MicrophoneFacts, VoiceAssumption
<1>5. voice'.publication # None => attempts'[voice'.publication].stage = "none"
  BY <1>1, <1>2, <1>4, MicrophoneFacts
<1>6. \A d \in mics'.open : d = voice'.publication \/ attempts'[d].stage = "publishing"
  BY <1>1, <1>2, <1>3, MicrophoneFacts
<1>7. link = "off" =>
        /\ voice'.request = None
        /\ \A d \in Attempts : attempts'[d].stage # "none" => attempts'[d].room = "gone"
  BY <1>1, <1>2, MicrophoneFacts
<1> QED
  BY <1>1, <1>2, <1>3, <1>5, <1>6, <1>7, MicrophoneFacts, MicrophoneChange

\* An attempt that was waiting ends: its microphone is closed, which is not the
\* one that is published.
LEMMA AttemptEnds ==
    ASSUME MicrophoneInv, NEW c \in Attempts, attempts[c].stage # "none",
           attempts' = [attempts EXCEPT ![c] = NoAttempt]
    PROVE  /\ attempts' \in [Attempts -> AttemptType] /\ attempts'[c] = NoAttempt
           /\ \A d \in Attempts : d # c => attempts'[d] = attempts[d]
           /\ voice.publication # c
           /\ \A d \in Attempts : attempts[d].stage = "none" => attempts'[d].stage = "none"
           /\ link = "off" => \A d \in Attempts : attempts'[d].stage # "none"
                                                     => attempts'[d].room = "gone"
           /\ Closed(c) \in [open : SUBSET Attempts, onair : SUBSET Attempts]
           /\ Closed(c).open = mics.open \ {c} /\ Closed(c).onair = mics.onair
<1>1. /\ attempts' \in [Attempts -> AttemptType] /\ attempts'[c] = NoAttempt
      /\ \A d \in Attempts : d # c => attempts'[d] = attempts[d]
  BY MicrophoneFacts, NoAttemptType
<1>2. voice.publication # c
  BY MicrophoneFacts, VoiceAssumption
<1>3. /\ Closed(c) \in [open : SUBSET Attempts, onair : SUBSET Attempts]
      /\ Closed(c).open = mics.open \ {c} /\ Closed(c).onair = mics.onair
  BY <1>2, MicrophoneFacts DEF Closed
<1>4. \A d \in Attempts : attempts[d].stage = "none" => attempts'[d].stage = "none"
  BY <1>1
<1>5. link = "off" => \A d \in Attempts : attempts'[d].stage # "none" => attempts'[d].room = "gone"
  BY <1>1, MicrophoneFacts, NoAttemptType
<1> QED BY <1>1, <1>2, <1>3, <1>4, <1>5

\* A start that fails keeps the invariant.
LEMMA StartFailsStep ==
    ASSUME MicrophoneInv, NEW c \in Attempts, StartFails(c), UNCHANGED link
    PROVE  MicrophoneInv'
<1>1. /\ attempts[c].stage # "none" /\ attempts' = [attempts EXCEPT ![c] = NoAttempt]
      /\ mics' = Closed(c) /\ UNCHANGED <<voices, ears, plays>>
      /\ voice' = [voice EXCEPT !.status = "error"] \/ voice' = voice
  BY DEF StartFails
<1>2. /\ voice' \in [status : {"idle", "requesting", "live", "muted", "error"},
                     publication : Attempts \cup {None}, request : Attempts \cup {None}]
      /\ voice'.publication = voice.publication /\ voice'.request = voice.request
  BY <1>1, MicrophoneFacts
<1>3. \A d \in mics'.open : d = voice'.publication \/ attempts'[d].stage = "publishing"
  <2>1. /\ mics'.open = mics.open \ {c}
        /\ \A d \in Attempts : d # c => attempts'[d] = attempts[d]
    BY <1>1, AttemptEnds
  <2>2. /\ \A d \in mics.open : d = voice.publication \/ attempts[d].stage = "publishing"
        /\ mics.open \subseteq Attempts
    BY MicrophoneFacts
  <2> QED BY <1>2, <2>1, <2>2
<1>4. voice'.publication # None => attempts'[voice'.publication].stage = "none"
  BY <1>1, <1>2, AttemptEnds, MicrophoneFacts
<1>5. /\ attempts' \in [Attempts -> AttemptType]
      /\ mics' \in [open : SUBSET Attempts, onair : SUBSET Attempts]
      /\ mics'.onair = {voice'.publication} \ {None}
      /\ voice'.publication \in {None, voice'.request}
  BY <1>1, <1>2, AttemptEnds, MicrophoneFacts
<1>6. link = "off" =>
        /\ voice'.request = None
        /\ \A d \in Attempts : attempts'[d].stage # "none" => attempts'[d].room = "gone"
  BY <1>1, <1>2, AttemptEnds, MicrophoneFacts
<1> QED
  BY <1>1, <1>2, <1>3, <1>4, <1>5, <1>6, MicrophoneChange

\* publishTrack's answer makes the attempt the publication, the only one, or
\* closes what nobody waits for.
LEMMA VoicePublishedStep ==
    ASSUME MicrophoneInv, NEW c \in Attempts, VoicePublished(c), UNCHANGED link
    PROVE  MicrophoneInv'
<1>1. /\ attempts[c].stage = "publishing" /\ attempts[c].room = "here"
      /\ attempts' = [attempts EXCEPT ![c] = NoAttempt] /\ UNCHANGED <<voices, ears, plays>>
      /\ IF voice.request = c
         THEN /\ voice' = [voice EXCEPT !.status = "live", !.publication = c]
              /\ mics' = [mics EXCEPT !.onair = @ \cup {c}]
         ELSE mics' = Closed(c) /\ voice' = voice
  BY DEF VoicePublished
<1>2. /\ attempts' \in [Attempts -> AttemptType] /\ attempts'[c].stage = "none"
      /\ \A d \in Attempts : d # c => attempts'[d] = attempts[d]
      /\ voice.publication # c
      /\ \A d \in Attempts : attempts[d].stage = "none" => attempts'[d].stage = "none"
      /\ link = "off" => \A d \in Attempts : attempts'[d].stage # "none"
                                                => attempts'[d].room = "gone"
  BY <1>1, AttemptEnds, NoAttemptType
<1>3. link # "off"
  BY <1>1, MicrophoneFacts
<1>4. CASE voice.request = c
  <2>1. voice.publication = None
    BY <1>2, <1>4, MicrophoneFacts
  <2>2. /\ voice' \in [status : {"idle", "requesting", "live", "muted", "error"},
                       publication : Attempts \cup {None}, request : Attempts \cup {None}]
        /\ voice'.publication = c /\ voice'.request = c
    BY <1>1, <1>4, MicrophoneFacts
  <2>3. /\ mics' \in [open : SUBSET Attempts, onair : SUBSET Attempts]
        /\ mics'.open = mics.open /\ mics'.onair = {c}
    BY <1>1, <1>4, <2>1, MicrophoneFacts
  <2>4. \A d \in mics'.open : d = voice'.publication \/ attempts'[d].stage = "publishing"
    BY <1>2, <2>1, <2>2, <2>3, MicrophoneFacts, VoiceAssumption
  <2>5. mics'.onair = {voice'.publication} \ {None}
    BY <2>2, <2>3, VoiceAssumption
  <2> QED BY <1>1, <1>2, <1>3, <2>2, <2>3, <2>4, <2>5, MicrophoneChange
<1>5. CASE voice.request # c
  <2>1. /\ voice' = voice /\ mics'.open = mics.open \ {c} /\ mics'.onair = mics.onair
        /\ mics' \in [open : SUBSET Attempts, onair : SUBSET Attempts]
    <3>1. voice' = voice /\ mics' = Closed(c)
      BY <1>1, <1>5
    <3>2. attempts[c].stage # "none" /\ attempts' = [attempts EXCEPT ![c] = NoAttempt]
      BY <1>1
    <3> QED BY <3>1, <3>2, AttemptEnds
  <2>2. \A d \in mics'.open : d = voice'.publication \/ attempts'[d].stage = "publishing"
    BY <1>2, <2>1, MicrophoneFacts
  <2>3. voice'.publication # None => attempts'[voice'.publication].stage = "none"
    BY <1>2, <2>1, MicrophoneFacts
  <2> QED BY <1>1, <1>2, <1>3, <2>1, <2>2, <2>3, MicrophoneFacts, MicrophoneChange
<1> QED BY <1>4, <1>5

\* Muting moves no microphone.
LEMMA ToggleStep ==
    ASSUME MicrophoneInv, NEW c \in Attempts, UNCHANGED link,
           (\E toggle \in {"mute", "unmute"} : Toggle(c, toggle)) \/ ToggleSettles(c)
    PROVE  MicrophoneInv'
<1>1. /\ mics' = mics /\ UNCHANGED <<voices, ears, plays>>
      /\ \E toggle \in {"no", "mute", "unmute"} : attempts' = [attempts EXCEPT ![c].toggle = toggle]
      /\ \E status \in {"idle", "requesting", "live", "muted", "error"} :
            voice' = [voice EXCEPT !.status = status]
  <2>1. CASE ToggleSettles(c)
    BY <2>1 DEF ToggleSettles
  <2>2. ASSUME NEW toggle \in {"mute", "unmute"}, Toggle(c, toggle)
        PROVE  /\ mics' = mics /\ UNCHANGED <<voices, ears, plays>> /\ voice' = voice
               /\ attempts' = [attempts EXCEPT ![c].toggle = toggle]
    BY <2>2 DEF Toggle
  <2>3. voice.status \in {"idle", "requesting", "live", "muted", "error"}
        /\ voice = [voice EXCEPT !.status = voice.status]
    BY MicrophoneFacts
  <2> QED BY <2>1, <2>2, <2>3
<1>2. /\ voice' \in [status : {"idle", "requesting", "live", "muted", "error"},
                     publication : Attempts \cup {None}, request : Attempts \cup {None}]
      /\ voice'.publication = voice.publication /\ voice'.request = voice.request
  <2>1. PICK status \in {"idle", "requesting", "live", "muted", "error"} :
           voice' = [voice EXCEPT !.status = status]
    BY <1>1
  <2> QED BY <2>1, MicrophoneFacts
<1>3. /\ attempts' \in [Attempts -> AttemptType]
      /\ \A d \in Attempts : attempts'[d].stage = attempts[d].stage
                             /\ attempts'[d].room = attempts[d].room
  <2>1. PICK toggle \in {"no", "mute", "unmute"} : attempts' = [attempts EXCEPT ![c].toggle = toggle]
    BY <1>1
  <2> QED BY <2>1, MicrophoneFacts DEF AttemptType
<1>4. /\ voice'.publication # None => attempts'[voice'.publication].stage = "none"
      /\ \A d \in mics'.open : d = voice'.publication \/ attempts'[d].stage = "publishing"
  BY <1>1, <1>2, <1>3, MicrophoneFacts
<1>5. link = "off" =>
        /\ voice'.request = None
        /\ \A d \in Attempts : attempts'[d].stage # "none" => attempts'[d].room = "gone"
  BY <1>2, <1>3, MicrophoneFacts
<1> QED BY <1>1, <1>2, <1>3, <1>4, <1>5, MicrophoneFacts, MicrophoneChange

\* What is published, and nothing else, is closed.
LEMMA ClosedPublication ==
    ASSUME MicrophoneInv
    PROVE  /\ Quiet \in [status : {"idle", "requesting", "live", "muted", "error"},
                         publication : Attempts \cup {None}, request : Attempts \cup {None}]
           /\ Quiet.publication = None /\ Quiet.request = None
           /\ Closed(voice.publication) \in [open : SUBSET Attempts, onair : SUBSET Attempts]
           /\ Closed(voice.publication).onair = {}
           /\ \A c \in Closed(voice.publication).open : attempts[c].stage = "publishing"
BY MicrophoneFacts DEF Quiet, Closed

\* Stopping voice keeps the invariant.
LEMMA StopVoiceStep ==
    ASSUME MicrophoneInv, StopVoice, UNCHANGED link
    PROVE  MicrophoneInv'
<1>1. /\ voice' = Quiet /\ mics' = Closed(voice.publication)
      /\ attempts' = attempts /\ UNCHANGED <<voices, ears, plays>>
  BY DEF StopVoice
<1> QED BY <1>1, ClosedPublication, MicrophoneFacts, MicrophoneChange

-----------------------------------------------------------------------------
(***************************************************************************)
(* The call                                                                *)
(***************************************************************************)

\* The invariant in its parts.
LEMMA Parts ==
    IInv <=> /\ MicrophoneInv
             /\ QualityInv
             /\ NothingAfterTheCall
             /\ NothingPending
             /\ link \in {"on", "off"}
<1>1. QualityTypeOK <=> monitor \in MonitorType
  BY DEF QualityTypeOK, MonitorType, Known
<1> QED BY <1>1 DEF IInv, TypeOK, MicrophoneInv, QualityInv, NothingHere

\* The invariant of the next state from its parts.
LEMMA PartsNext ==
    ASSUME MicrophoneInv', QualityInv', NothingAfterTheCall',
           NothingPending',
           link' \in {"on", "off"}
    PROVE  IInv'
<1>1. QualityTypeOK'
  BY DEF QualityInv, QualityTypeOK, MonitorType, Known
<1> QED BY <1>1 DEF IInv, TypeOK, MicrophoneInv, QualityInv, NothingHere

\* The call starts with its invariant.
LEMMA InitIInv == Init => IInv
<1> SUFFICES ASSUME Init PROVE IInv
  OBVIOUS
<1> USE QualityAssumption
<1>1. /\ voice = [status |-> "idle", publication |-> None, request |-> None]
      /\ attempts = [c \in Attempts |-> NoAttempt]
      /\ mics = Silence /\ voices = {} /\ ears = Deaf /\ link = "off"
      /\ plays = [here |-> {}, late |-> {}]
      /\ monitor = [on |-> "no", known |-> NoQuality, polls |-> 0, late |-> 0,
                    shown |-> "idle", failed |-> "no"]
  BY DEF Init, VoiceInit, QualityInit
<1>2. VoiceTypeOK
  BY <1>1 DEF VoiceTypeOK, NoAttempt, Silence, Deaf
<1>3. MicrophoneInv
  BY <1>1, <1>2 DEF MicrophoneInv, PublicationSettled, NoForgottenMicrophone, NoAttempt, Silence
<1>4. NoQuality \in [People -> Known]
  BY DEF NoQuality, Known
<1>5. monitor \in MonitorType
  BY <1>1, <1>4 DEF MonitorType, Statuses
<1>6. PollsBounded /\ QualityNotRosy
  BY <1>1 DEF PollsBounded, QualityNotRosy
<1>7. NothingAfterTheCall /\ NothingPending
  BY <1>1 DEF NothingAfterTheCall, NothingPending
<1> QED BY <1>1, <1>3, <1>5, <1>6, <1>7, Parts DEF QualityInv

\* Connecting keeps the invariant.
LEMMA ConnectCallStep ==
    ASSUME IInv, ConnectCall
    PROVE  IInv'
<1> USE QualityAssumption
<1>1. /\ link = "off" /\ link' = "on" /\ voice' = voice /\ attempts' = attempts
      /\ mics' = mics /\ voices' = voices
      /\ monitor.polls = 0 /\ monitor.polls + monitor.late < MaxPolls
      /\ \E there \in SUBSET voices, started \in SUBSET FreePlays :
            /\ ears' = [Deaf EXCEPT !.received = there, !.elements = there]
            /\ plays' = [plays EXCEPT !.here = started]
      /\ \E known \in [People -> {"none", "good"}] :
            monitor' = [monitor EXCEPT !.on = "yes", !.known = known, !.polls = 1]
  BY Parts DEF ConnectCall, VoiceBegins, QualityBegins, CanPoll, NothingPending
<1>2. PICK there \in SUBSET voices, started \in SUBSET FreePlays :
         /\ ears' = [Deaf EXCEPT !.received = there, !.elements = there]
         /\ plays' = [plays EXCEPT !.here = started]
  BY <1>1
<1>3. PICK known \in [People -> {"none", "good"}] :
         monitor' = [monitor EXCEPT !.on = "yes", !.known = known, !.polls = 1]
  BY <1>1
<1>4. VoiceTypeOK'
  BY <1>1, <1>2, Parts DEF MicrophoneInv, VoiceTypeOK, Deaf, FreePlays
<1>5. MicrophoneInv'
  BY <1>1, <1>4, Parts DEF MicrophoneInv, PublicationSettled, NoForgottenMicrophone
<1>6. known \in [People -> Known]
  BY DEF Known, Qualities
<1>7. monitor \in MonitorType
  BY Parts DEF QualityInv
<1>8. /\ monitor' \in MonitorType /\ monitor'.polls = 1 /\ monitor'.late = monitor.late
  <2>1. 1 \in 0 .. MaxPolls
    OBVIOUS
  <2> QED BY <1>3, <1>6, <1>7, <2>1 DEF MonitorType
<1>9. PollsBounded'
  BY <1>1, <1>7, <1>8 DEF PollsBounded, MonitorType
<1>10. QualityNotRosy'
  BY <1>8 DEF QualityNotRosy
<1>11. QualityInv'
  BY <1>1, <1>8, <1>9, <1>10, Parts DEF QualityInv
<1> QED BY <1>1, <1>5, <1>11, PartsNext DEF NothingAfterTheCall, NothingPending

\* Losing or leaving the call keeps the invariant.
LEMMA EndCallStep ==
    ASSUME IInv, EndCall
    PROVE  IInv'
<1>1. /\ link' = "off" /\ voice' = Quiet /\ ears' = Deaf /\ voices' = voices
      /\ plays' = [here |-> {}, late |-> plays.late \cup plays.here]
      /\ attempts' = [c \in Attempts |->
                        IF attempts[c].stage = "none" THEN attempts[c]
                        ELSE [attempts[c] EXCEPT !.room = "gone"]]
      /\ mics' = [Closed(voice.publication) EXCEPT !.onair = {}]
      /\ monitor' = [monitor EXCEPT !.on = "no", !.polls = 0, !.late = @ + monitor.polls,
                                    !.known = NoQuality, !.shown = "idle", !.failed = "no"]
  BY DEF EndCall, VoiceEnds, QualityEnds
<1>3. MicrophoneInv
  BY Parts
<1>4. /\ attempts' \in [Attempts -> AttemptType]
      /\ \A c \in Attempts : /\ attempts'[c].stage = attempts[c].stage
                             /\ attempts'[c].stage # "none" => attempts'[c].room = "gone"
  BY <1>1, <1>3, MicrophoneFacts DEF AttemptType
<1>5. /\ mics' \in [open : SUBSET Attempts, onair : SUBSET Attempts]
      /\ mics'.onair = {} /\ mics'.open = Closed(voice.publication).open
  BY <1>1, <1>3, ClosedPublication
<1>6. \A c \in mics'.open : attempts'[c].stage = "publishing"
  BY <1>3, <1>4, <1>5, ClosedPublication
<1>7. /\ voice' \in [status : {"idle", "requesting", "live", "muted", "error"},
                     publication : Attempts \cup {None}, request : Attempts \cup {None}]
      /\ voice'.publication = None /\ voice'.request = None
  BY <1>1, <1>3, ClosedPublication
<1>8. ears' \in [received : SUBSET Others, elements : SUBSET Others, left : SUBSET Others,
                 error : {"no", "yes"}]
      /\ voices' \subseteq Others
      /\ plays' \in [here : SUBSET Plays, late : SUBSET Plays]
  BY <1>1, <1>3 DEF Deaf, MicrophoneInv, VoiceTypeOK
<1>9. VoiceTypeOK'
  BY <1>4, <1>5, <1>7, <1>8 DEF VoiceTypeOK, AttemptType
<1>10. MicrophoneInv'
  BY <1>4, <1>5, <1>6, <1>7, <1>9 DEF MicrophoneInv, PublicationSettled, NoForgottenMicrophone
<1>11. NoQuality \in [People -> Known]
  BY DEF NoQuality, Known
<1>12. monitor \in MonitorType /\ monitor.late + monitor.polls \in 0 .. MaxPolls
  BY Parts, QualityAssumption DEF QualityInv, PollsBounded, MonitorType
<1>13. /\ monitor' \in MonitorType /\ monitor'.on = "no" /\ monitor'.polls = 0
       /\ monitor'.late = monitor.late + monitor.polls /\ monitor'.shown = "idle"
  <2>1. monitor' = [monitor EXCEPT !.on = "no", !.polls = 0, !.late = @ + monitor.polls,
                                   !.known = NoQuality, !.shown = "idle", !.failed = "no"]
    BY <1>1
  <2>2. 0 \in 0 .. MaxPolls /\ "idle" \in Statuses
    BY QualityAssumption DEF Statuses
  <2> QED BY <1>11, <1>12, <2>1, <2>2 DEF MonitorType
<1>14. PollsBounded' /\ QualityNotRosy'
  BY <1>12, <1>13 DEF PollsBounded, QualityNotRosy, MonitorType
<1>15. QualityInv'
  BY <1>13, <1>14 DEF QualityInv
<1>16. NothingAfterTheCall' /\ NothingPending'
  BY <1>1, <1>13 DEF NothingAfterTheCall, NothingPending
<1> QED BY <1>1, <1>10, <1>13, <1>15, <1>16, PartsNext

\* Every step of voice keeps the invariant.
LEMMA VoiceStepIInv ==
    ASSUME IInv, VoiceStep
    PROVE  IInv'
<1>1. UNCHANGED <<monitor, link>>
  BY DEF VoiceStep
<1>2. MicrophoneInv
  BY Parts
<1> DEFINE Same == voice' = voice /\ attempts' = attempts /\ mics' = mics
           Heard == /\ voices \subseteq Others
                    /\ ears \in [received : SUBSET Others, elements : SUBSET Others,
                                 left : SUBSET Others, error : {"no", "yes"}]
                    /\ plays \in [here : SUBSET Plays, late : SUBSET Plays]
           Still == link = "off" => ears' = ears /\ plays'.here = {}
<1>3. Heard /\ (link = "off" => plays.here = {})
  BY <1>2, Parts DEF MicrophoneInv, VoiceTypeOK, NothingPending
<1>4. ASSUME Same, Heard'
      PROVE  MicrophoneInv'
  <2>1. VoiceTypeOK'
    BY <1>2, <1>4 DEF MicrophoneInv, VoiceTypeOK
  <2> QED BY <1>1, <1>2, <1>4, <2>1
          DEF MicrophoneInv, PublicationSettled, NoForgottenMicrophone
<1>5. MicrophoneInv' /\ Still
  <2>1. CASE \/ \E c \in Attempts : MicrophoneOpens(c) \/ StartFails(c) \/ VoicePublished(c)
             \/ \E c \in Attempts : ToggleSettles(c)
             \/ StopVoice
    <3>1. UNCHANGED <<ears, plays>>
      BY <2>1 DEF MicrophoneOpens, StartFails, VoicePublished, ToggleSettles, StopVoice
    <3> QED BY <1>1, <1>2, <1>3, <2>1, <3>1, MicrophoneOpensStep, StartFailsStep,
               VoicePublishedStep, ToggleStep, StopVoiceStep
  <2>2. CASE link = "on" /\ VoiceClicks
    BY <1>1, <1>2, <2>2, StartVoiceStep, ToggleStep DEF VoiceClicks
  <2>3. ASSUME NEW play \in Plays, PlayBegins(play) \/ PlayRefused(play)
        PROVE  MicrophoneInv' /\ Still
    <3>1. /\ Same /\ voices' = voices /\ plays' = Settled(play)
          /\ ears' \in {ears, [ears EXCEPT !.error = "yes"]}
          /\ play \notin plays.here => ears' = ears
      BY <2>3 DEF PlayBegins, PlayRefused
    <3>2. Heard'
      BY <1>3, <3>1 DEF Settled
    <3>3. Still
      BY <1>3, <3>1 DEF Settled
    <3> QED BY <1>4, <3>1, <3>2, <3>3
  <2>4. CASE OthersSpeak
    <3>1. Same /\ Heard' /\ ears' = ears /\ plays' = plays
      BY <1>3, <2>4 DEF OthersSpeak
    <3> QED BY <1>3, <1>4, <3>1
  <2>5. ASSUME link = "on", NEW o \in Others,
               \/ OtherLeaves(o) \/ VoiceSubscribed(o)
               \/ VoiceUnsubscribed(o) \/ SpeakerDisconnected(o)
        PROVE  MicrophoneInv' /\ Still
    <3>1. Same
      BY <2>5 DEF OtherLeaves, VoiceSubscribed, VoiceUnsubscribed, SpeakerDisconnected
    <3>2. CASE OtherLeaves(o)
      BY <1>3, <1>4, <2>5, <3>1, <3>2 DEF OtherLeaves
    <3>3. CASE VoiceSubscribed(o)
      <4>1. PICK play \in FreePlays : plays' = [plays EXCEPT !.here = @ \cup {play}]
        BY <3>3 DEF VoiceSubscribed
      <4>2. /\ ears' = [ears EXCEPT !.received = @ \cup {o}, !.elements = @ \cup {o},
                                    !.error = "no"]
            /\ voices' = voices
        BY <3>3 DEF VoiceSubscribed
      <4>3. Heard'
        BY <1>3, <4>1, <4>2 DEF FreePlays
      <4> QED BY <1>4, <2>5, <3>1, <4>3
    <3>4. CASE VoiceUnsubscribed(o)
      BY <1>3, <1>4, <2>5, <3>1, <3>4 DEF VoiceUnsubscribed
    <3>5. CASE SpeakerDisconnected(o)
      BY <1>3, <1>4, <2>5, <3>1, <3>5 DEF SpeakerDisconnected
    <3> QED BY <2>5, <3>2, <3>3, <3>4, <3>5
  <2> QED BY <2>1, <2>2, <2>3, <2>4, <2>5 DEF VoiceStep, VoiceAnswers, EarsStep
<1>6. QualityInv' /\ NothingAfterTheCall' /\ NothingPending'
  BY <1>1, <1>5, Parts
  DEF QualityInv, PollsBounded, QualityNotRosy, NothingAfterTheCall, NothingPending
<1> QED BY <1>1, <1>5, <1>6, PartsNext, Parts

\* Every step of the quality monitor keeps the invariant.
LEMMA MonitorStepIInv ==
    ASSUME IInv, MonitorStep
    PROVE  IInv'
<1>1. /\ voice' = voice /\ attempts' = attempts /\ mics' = mics /\ voices' = voices
      /\ ears' = ears /\ plays' = plays /\ link' = link
  BY DEF MonitorStep, voiceVars
<1>2. MicrophoneInv'
  BY <1>1, Parts DEF MicrophoneInv, VoiceTypeOK, PublicationSettled, NoForgottenMicrophone
<1>3. /\ QualityInv' /\ monitor'.on = monitor.on
      /\ monitor.on = "no" /\ monitor.polls = 0 =>
            monitor'.polls = 0 /\ monitor'.shown = monitor.shown
  BY QualityStepKeeps, Parts DEF MonitorStep
<1>4. NothingAfterTheCall' /\ NothingPending'
  BY <1>1, <1>3, Parts DEF NothingAfterTheCall, NothingPending
<1> QED BY <1>1, <1>2, <1>3, <1>4, PartsNext, Parts

\* A step that changes nothing keeps the invariant.
LEMMA StutterIInv ==
    ASSUME IInv, UNCHANGED callVars
    PROVE  IInv'
<1>1. /\ voice' = voice /\ attempts' = attempts /\ mics' = mics /\ voices' = voices
      /\ ears' = ears /\ plays' = plays /\ monitor' = monitor /\ link' = link
  BY DEF callVars, voiceVars
<1>2. MicrophoneInv'
  BY <1>1, Parts DEF MicrophoneInv, VoiceTypeOK, PublicationSettled, NoForgottenMicrophone
<1>3. QualityInv'
  BY <1>1, Parts DEF QualityInv, PollsBounded, QualityNotRosy
<1>4. NothingAfterTheCall' /\ NothingPending' /\ link' \in {"on", "off"}
  BY <1>1, Parts DEF NothingAfterTheCall, NothingPending
<1> QED BY <1>2, <1>3, <1>4, PartsNext

\* IInv holds in every state of a call.
LEMMA InvariantIInv == Spec => []IInv
<1>1. IInv /\ [Next]_callVars => IInv'
  BY ConnectCallStep, EndCallStep, VoiceStepIInv, MonitorStepIInv, StutterIInv DEF Next
<1> QED BY <1>1, InitIInv, PTL DEF Spec

-----------------------------------------------------------------------------
(***************************************************************************)
(* Theorems                                                                *)
(***************************************************************************)

\* Card, attempts, microphones, elements and monitor keep their shapes, and no
\* more polls are under way than the bound allows.
THEOREM TypeCorrect == Spec => []TypeOK
<1>1. IInv => TypeOK
  BY DEF IInv
<1> QED BY <1>1, InvariantIInv, PTL

\* Whatever overtakes the answers to startVoiceChat, a microphone that is open is
\* published or about to be, and only the publication is on the air.
THEOREM MicrophoneTheorem == Spec => []NoForgottenMicrophone
<1>1. IInv => NoForgottenMicrophone
  BY DEF IInv
<1> QED BY <1>1, InvariantIInv, PTL

\* After disconnectLiveKit or a lost connection no late answer, to a poll or to
\* the play of a voice element, makes the tab hear anybody or show a quality or
\* an error.
THEOREM AfterTheCallTheorem == Spec => []NothingAfterTheCall
<1>1. IInv => NothingAfterTheCall
  BY DEF IInv
<1> QED BY <1>1, InvariantIInv, PTL

\* With no poll under way the card is not rosier than what LiveKit last said of
\* any participant (assessQuality, handleConnectionQualityChanged).
THEOREM QualityTheorem == Spec => []QualityNotRosy
<1>1. IInv => QualityNotRosy
  BY DEF IInv
<1> QED BY <1>1, InvariantIInv, PTL


-----------------------------------------------------------------------------
(***************************************************************************)
(* Restarts: the inductive invariant                                       *)
(***************************************************************************)

Asking == [by : Guests, id : Requests]

Answers == [id : Requests, status : {"started", "succeeded", "failed"}]

Ids(q) == {q[i].id : i \in 1 .. Len(q)}

\* A request names both its guest and its id, or neither.
RequestsInv ==
    /\ host.alert \in Asking \cup {NoRequest}
    /\ host.restart \in Asking \cup {NoRequest}

Sends(g) == guests[g].sends

\* No guest has been told or is being told of the request, and no restart that
\* is under way will be told of under its name.
Untold(id) ==
    /\ id \in Requests
    /\ \A g \in Guests : guests[g].about # id /\ id \notin Ids(answers[g])
    /\ host.restart.id # id

SendingInv ==
    \A g \in Guests : \A s \in Sends(g) :
        /\ Untold(s.id)
        /\ s.id # host.alert.id
        /\ \A r \in asked : r.id # s.id
        /\ \A h \in Guests : \A t \in Sends(h) : t.id = s.id => h = g /\ t = s

AskedInv ==
    \A r \in asked :
        /\ Untold(r.id)
        /\ r.id # host.alert.id
        /\ \A q \in asked : q.id = r.id => q = r

AlertInv == host.alert.by # None => Untold(host.alert.id)

RecoveryInv == RecoveryTypes /\ RequestsInv /\ SendingInv /\ AskedInv /\ AlertInv /\ StatusOfLatest

HostType ==
    [link : {"off", "on", "reconnecting"}, film : {"none", "publishing", "live"},
     restart : [by : Guests \cup {None}, id : Requests \cup {None}],
     alert : [by : Guests \cup {None}, id : Requests \cup {None}],
     cooling : SUBSET Guests]

SendType == [id : Requests, previous : Requests \cup {None}]

GuestType ==
    [link : {"off", "on"},
     status : {"idle", "sending", "sent", "error", "unanswered"},
     timer : {"off", "on"},
     shown : {"idle", "started", "succeeded", "failed", "timed_out"},
     about : Requests \cup {None}, latest : Requests \cup {None},
     sends : SUBSET SendType, late : SUBSET Requests, cooling : {"no", "yes"}]

\* The types of a recovery, one variable at a time.
LEMMA Types ==
    RecoveryTypes <=> /\ host \in HostType
               /\ guests \in [Guests -> GuestType]
               /\ asked \subseteq Asking
               /\ answers \in [Guests -> Seq(Answers)]
BY DEF RecoveryTypes, HostType, GuestType, SendType, Asking, Answers

\* The types after a step.
LEMMA TypesNext ==
    ASSUME host' \in HostType, guests' \in [Guests -> GuestType], asked' \subseteq Asking,
           answers' \in [Guests -> Seq(Answers)]
    PROVE  RecoveryTypes'
BY DEF RecoveryTypes, HostType, GuestType, SendType, Asking, Answers

-----------------------------------------------------------------------------
(***************************************************************************)
(* Queues of answers                                                       *)
(***************************************************************************)

\* What is left of a queue names no request that the queue did not.
LEMMA TailIds ==
    ASSUME NEW q \in Seq(Answers), q # <<>>
    PROVE  /\ Tail(q) \in Seq(Answers) /\ Head(q) \in Answers
           /\ Head(q).id \in Ids(q) /\ Ids(Tail(q)) \subseteq Ids(q)
BY DEF Ids

\* A longer queue names one more request.
LEMMA AppendIds ==
    ASSUME NEW q \in Seq(Answers), NEW a \in Answers
    PROVE  /\ Append(q, a) \in Seq(Answers)
           /\ Ids(Append(q, a)) \subseteq Ids(q) \cup {a.id}
<1>1. /\ Append(q, a) \in Seq(Answers) /\ Len(Append(q, a)) = Len(q) + 1
      /\ \A i \in 1 .. Len(q) : Append(q, a)[i] = q[i]
      /\ Append(q, a)[Len(q) + 1] = a
  OBVIOUS
<1>2. ASSUME NEW i \in 1 .. Len(Append(q, a))
      PROVE  Append(q, a)[i].id \in Ids(q) \cup {a.id}
  <2>1. CASE i \in 1 .. Len(q)
    BY <1>1, <2>1 DEF Ids
  <2>2. CASE i = Len(q) + 1
    BY <1>1, <2>2
  <2> QED BY <1>1, <2>1, <2>2
<1> QED BY <1>1, <1>2 DEF Ids

\* An answer, sent or lost, names no request but its own.
LEMMA AnsweredIds ==
    ASSUME RecoveryTypes, NEW request \in Asking \cup {NoRequest},
           NEW status \in {"started", "succeeded", "failed"},
           answers' \in Answered(request, status)
    PROVE  /\ answers' \in [Guests -> Seq(Answers)]
           /\ \A g \in Guests : Ids(answers'[g]) \subseteq Ids(answers[g]) \cup {request.id}
<1> DEFINE a == [id |-> request.id, status |-> status]
<1>1. \/ answers' = answers
      \/ request.by # None /\ answers' = [answers EXCEPT ![request.by] = Append(@, a)]
  BY DEF Answered
<1>2. answers \in [Guests -> Seq(Answers)]
  BY Types
<1>3. CASE answers' = answers
  BY <1>2, <1>3
<1>4. CASE request.by # None /\ answers' = [answers EXCEPT ![request.by] = Append(@, a)]
  <2>1. request \in Asking
    BY <1>4 DEF NoRequest
  <2>2. a \in Answers /\ a.id = request.id /\ request.by \in Guests
    BY <2>1 DEF Asking, Answers
  <2> HIDE DEF a
  <2>3. /\ Append(answers[request.by], a) \in Seq(Answers)
        /\ Ids(Append(answers[request.by], a)) \subseteq Ids(answers[request.by]) \cup {request.id}
    BY <1>2, <2>2, AppendIds
  <2>4. \A g \in Guests : answers'[g] = IF g = request.by THEN Append(answers[request.by], a)
                                        ELSE answers[g]
    BY <1>2, <1>4, <2>2
  <2>5. answers' \in [Guests -> Seq(Answers)]
    BY <1>2, <1>4, <2>2, <2>3
  <2> QED BY <2>3, <2>4, <2>5
<1> QED BY <1>1, <1>3, <1>4

-----------------------------------------------------------------------------
(***************************************************************************)
(* Steps of a guest and of the host                                        *)
(***************************************************************************)

\* A step tells of one request at most; the others stay untold.
LEMMA UntoldStays ==
    ASSUME NEW id, Untold(id), NEW told, told # id,
           \A g \in Guests : guests'[g].about \in {guests[g].about, None} \cup Ids(answers[g]),
           \A g \in Guests : Ids(answers'[g]) \subseteq Ids(answers[g]) \cup {told},
           host'.restart.id \in {host.restart.id, told, None}
    PROVE  Untold(id)'
BY RecoveryAssumption DEF Untold

\* A guest that sends nothing more, or sends a fresh request; what it has sent may
\* have gone to the host.
LEMMA GuestChange ==
    ASSUME RecoveryInv, NEW g \in Guests, NEW now \in GuestType,
           guests' = [guests EXCEPT ![g] = now], UNCHANGED host,
           answers' \in [Guests -> Seq(Answers)],
           \A h \in Guests : Ids(answers'[h]) \subseteq Ids(answers[h]),
           now.about \in {guests[g].about, None} \cup Ids(answers[g]),
           now.shown # "idle" => now.about = now.latest,
           \A s \in now.sends \ Sends(g) :
              /\ FreeRequest(s.id) /\ now.about # s.id
              /\ \A t \in now.sends : t.id = s.id => t = s,
           asked' \subseteq Asking,
           \A r \in asked' \ asked :
              \E s \in Sends(g) \ now.sends : r = [by |-> g, id |-> s.id]
    PROVE  RecoveryInv'
<1>1. /\ host \in HostType /\ guests \in [Guests -> GuestType] /\ asked \subseteq Asking
      /\ answers \in [Guests -> Seq(Answers)] /\ host' = host
  BY Types DEF RecoveryInv
<1>2. /\ guests' \in [Guests -> GuestType] /\ guests'[g] = now
      /\ \A h \in Guests : h # g => guests'[h] = guests[h]
  BY <1>1
<1>3. RecoveryTypes' /\ RequestsInv'
  <2>1. RecoveryTypes'
    BY <1>1, <1>2, TypesNext
  <2> QED BY <1>1, <2>1 DEF RecoveryInv, RequestsInv
<1>4. ASSUME NEW id, Untold(id)
      PROVE  Untold(id)'
  <2>1. \A h \in Guests : guests'[h].about \in {guests[h].about, None} \cup Ids(answers[h])
    BY <1>2
  <2>2. id # None
    BY <1>4, RecoveryAssumption DEF Untold
  <2> QED BY <1>1, <1>4, <2>1, <2>2, UntoldStays
<1>5. \A h \in Guests : Sends(h) \subseteq SendType
  BY <1>1 DEF GuestType, Sends
<1>6. \A h \in Guests : h # g => Sends(h)' = Sends(h)
  BY <1>2 DEF Sends
<1>7. Sends(g)' = now.sends /\ now.sends \subseteq SendType
  BY <1>2 DEF Sends, GuestType
<1>8. ASSUME NEW h \in Guests, NEW s \in Sends(h)
      PROVE  /\ Untold(s.id) /\ s.id # host.alert.id /\ \A r \in asked : r.id # s.id
             /\ \A k \in Guests : \A t \in Sends(k) : t.id = s.id => k = h /\ t = s
  BY DEF RecoveryInv, SendingInv
<1>9. ASSUME NEW r \in asked' \ asked
      PROVE  \E s \in Sends(g) \ now.sends : r.id = s.id /\ r.by = g
  OBVIOUS
<1>10. ASSUME NEW s \in now.sends \ Sends(g)
       PROVE  /\ Untold(s.id) /\ s.id # host.alert.id /\ \A r \in asked : r.id # s.id
              /\ \A h \in Guests : \A t \in Sends(h) : t.id # s.id
  <2>1. /\ \A h \in Guests : /\ s.id # guests[h].about
                             /\ \A t \in Sends(h) : t.id # s.id
                             /\ \A i \in DOMAIN answers[h] : answers[h][i].id # s.id
        /\ host.restart.id # s.id /\ s.id # host.alert.id
        /\ \A r \in asked : r.id # s.id
    BY <1>10 DEF FreeRequest, Named, Sends
  <2>2. \A h \in Guests : s.id \notin Ids(answers[h])
    BY <1>1, <2>1 DEF Ids
  <2>3. s.id \in Requests
    BY <1>7, <1>10 DEF SendType
  <2> QED BY <2>1, <2>2, <2>3 DEF Untold
<1>11. AskedInv'
  <2>1. ASSUME NEW r \in asked'
        PROVE  /\ Untold(r.id)' /\ r.id # host.alert.id
               /\ \A q \in asked' : q.id = r.id => q = r
    <3>1. CASE r \in asked
      <4>1. /\ Untold(r.id) /\ r.id # host.alert.id
            /\ \A q \in asked : q.id = r.id => q = r
        BY <3>1 DEF RecoveryInv, AskedInv
      <4>2. \A q \in asked' \ asked : q.id # r.id
        BY <1>8, <1>9, <3>1
      <4> QED BY <1>4, <4>1, <4>2
    <3>2. CASE r \notin asked
      <4>1. PICK s \in Sends(g) \ now.sends : r = [by |-> g, id |-> s.id]
        BY <3>2
      <4>2. \A q \in asked : q.id # r.id
        BY <1>8, <4>1
      <4>3. ASSUME NEW q \in asked' \ asked, q.id = r.id
            PROVE  q = r
        <5>1. PICK t \in Sends(g) \ now.sends : q = [by |-> g, id |-> t.id]
          BY <4>3
        <5> QED BY <4>1, <4>3, <5>1
      <4> QED BY <1>4, <1>8, <4>1, <4>2, <4>3
    <3> QED BY <3>1, <3>2
  <2> QED BY <1>1, <2>1 DEF AskedInv
<1>12. AlertInv'
  BY <1>1, <1>4 DEF RecoveryInv, AlertInv
<1>13. StatusOfLatest'
  BY <1>2 DEF RecoveryInv, StatusOfLatest
<1>14. SendingInv'
  <2>1. ASSUME NEW h \in Guests, NEW s \in Sends(h)'
        PROVE  /\ Untold(s.id) /\ s.id # host.alert.id
               /\ \A r \in asked : r.id # s.id
    BY <1>6, <1>7, <1>8, <1>10, <2>1
  <2>2. ASSUME NEW h \in Guests, NEW s \in Sends(h)', NEW r \in asked' \ asked
        PROVE  r.id # s.id
    <3>1. PICK t \in Sends(g) \ now.sends : r.id = t.id
      BY <1>9
    <3>2. CASE h = g /\ s \notin Sends(g)
      BY <1>7, <1>10, <3>1, <3>2
    <3>3. CASE s \in Sends(h)
      BY <1>7, <1>8, <2>2, <3>1, <3>3
    <3> QED BY <1>6, <2>2, <3>2, <3>3
  <2>3. ASSUME NEW h \in Guests, NEW s \in Sends(h)', NEW k \in Guests, NEW t \in Sends(k)',
               t.id = s.id
        PROVE  k = h /\ t = s
    <3>1. CASE h = g /\ s \notin Sends(g)
      BY <1>6, <1>7, <1>10, <2>3, <3>1
    <3>2. CASE k = g /\ t \notin Sends(g)
      BY <1>6, <1>7, <1>10, <2>3, <3>2
    <3>3. CASE s \in Sends(h) /\ t \in Sends(k)
      BY <1>8, <2>3, <3>3
    <3> QED BY <1>6, <2>3, <3>1, <3>2, <3>3
  <2> QED BY <1>1, <1>4, <2>1, <2>2, <2>3 DEF SendingInv
<1> QED BY <1>3, <1>11, <1>12, <1>13, <1>14 DEF RecoveryInv

\* The host tells of one request at most: of the one on its alert as it takes it
\* off, or of the one it restarts for.
LEMMA HostChange ==
    ASSUME RecoveryInv, NEW told,
           guests' = guests, asked' \subseteq asked, host' \in HostType, RequestsInv',
           answers' \in [Guests -> Seq(Answers)],
           \A g \in Guests : Ids(answers'[g]) \subseteq Ids(answers[g]) \cup {told},
           host'.restart.id \in {host.restart.id, told, None},
           \/ told \in {None, host.restart.id}
           \/ told = host.alert.id /\ host'.alert = NoRequest,
           host'.alert \in {host.alert, NoRequest} \cup (asked \ asked')
    PROVE  RecoveryInv'
<1>1. /\ host \in HostType /\ guests \in [Guests -> GuestType] /\ asked \subseteq Asking
      /\ answers \in [Guests -> Seq(Answers)]
  BY Types DEF RecoveryInv
<1>2. RecoveryTypes'
  BY <1>1, TypesNext
<1>3. StatusOfLatest'
  BY DEF RecoveryInv, StatusOfLatest
<1>4. ASSUME NEW id, Untold(id), told # id
      PROVE  Untold(id)'
  BY <1>4, UntoldStays
<1>5. ASSUME NEW id, Untold(id), id # host.alert.id
      PROVE  Untold(id)'
  BY <1>4, <1>5, RecoveryAssumption DEF Untold
<1>6. NoRequest.id = None /\ NoRequest.by = None
  BY DEF NoRequest
<1>7. ASSUME NEW id, Untold(id), id # host.alert.id, \A r \in asked \ asked' : r.id # id
      PROVE  id # host'.alert.id
  BY <1>6, <1>7, RecoveryAssumption DEF Untold
<1>8. AskedInv'
  <2> SUFFICES ASSUME NEW r \in asked'
               PROVE  Untold(r.id)' /\ r.id # host'.alert.id
                      /\ \A q \in asked' : q.id = r.id => q = r
    BY DEF AskedInv
  <2>1. /\ Untold(r.id) /\ r.id # host.alert.id
        /\ \A q \in asked : q.id = r.id => q = r
    BY DEF RecoveryInv, AskedInv
  <2>2. r.id # host'.alert.id
    BY <1>7, <2>1
  <2> QED BY <1>5, <2>1, <2>2
<1>9. SendingInv'
  <2> SUFFICES ASSUME NEW g \in Guests, NEW s \in Sends(g)
               PROVE  /\ Untold(s.id)'
                      /\ s.id # host'.alert.id
                      /\ \A r \in asked' : r.id # s.id
                      /\ \A h \in Guests : \A t \in Sends(h) : t.id = s.id => h = g /\ t = s
    BY DEF SendingInv, Sends
  <2>1. /\ Untold(s.id) /\ s.id # host.alert.id
        /\ \A r \in asked : r.id # s.id
        /\ \A h \in Guests : \A t \in Sends(h) : t.id = s.id => h = g /\ t = s
    BY DEF RecoveryInv, SendingInv
  <2>2. s.id # host'.alert.id
    BY <1>7, <2>1
  <2> QED BY <1>5, <2>1, <2>2
<1>10. AlertInv'
  <2> SUFFICES ASSUME host'.alert.by # None PROVE Untold(host.alert.id)'
    BY DEF AlertInv
  <2>1. CASE host'.alert \in asked \ asked'
    BY <1>5, <2>1 DEF RecoveryInv, AskedInv
  <2>2. CASE host'.alert = host.alert
    <3>1. Untold(host.alert.id)
      BY <2>2 DEF RecoveryInv, AlertInv
    <3>2. told # host.alert.id
      BY <1>6, <2>2, <3>1, RecoveryAssumption DEF Untold
    <3> QED BY <1>4, <2>2, <3>1, <3>2
  <2> QED BY <1>6, <2>1, <2>2
<1> QED BY <1>2, <1>3, <1>8, <1>9, <1>10 DEF RecoveryInv

\* A recovery starts with its invariant.
LEMMA RecoveryInitially == RecoveryInit => RecoveryInv
<1> SUFFICES ASSUME RecoveryInit PROVE RecoveryInv
  OBVIOUS
<1>1. /\ host = HostAway /\ guests = [g \in Guests |-> GuestAway]
      /\ asked = {} /\ answers = [g \in Guests |-> <<>>]
  BY DEF RecoveryInit
<1>2. RecoveryTypes
  BY <1>1 DEF RecoveryTypes, HostAway, GuestAway, NoRequest
<1> QED
  BY <1>1, <1>2 DEF RecoveryInv, RequestsInv, SendingInv, Sends, AskedInv, AlertInv,
     StatusOfLatest, HostAway, GuestAway, NoRequest

\* A new status leaves the rest of the card and the controller alone.
LEMMA CardedType ==
    ASSUME NEW guest \in GuestType,
           NEW status \in {"idle", "sending", "sent", "error", "unanswered"}
    PROVE  /\ Carded(guest, status) \in GuestType
           /\ Carded(guest, status).shown = guest.shown
           /\ Carded(guest, status).about = guest.about
           /\ Carded(guest, status).latest = guest.latest
           /\ Carded(guest, status).sends = guest.sends
           /\ Carded(guest, status).late = guest.late
BY DEF Carded, GuestType

\* What the types and the invariant say of one guest.
LEMMA GuestFacts ==
    ASSUME RecoveryInv, NEW g \in Guests
    PROVE  /\ guests \in [Guests -> GuestType] /\ guests[g] \in GuestType
           /\ asked \subseteq Asking /\ answers \in [Guests -> Seq(Answers)]
           /\ guests[g].shown # "idle" => guests[g].about = guests[g].latest
           /\ Sends(g) = guests[g].sends /\ Sends(g) \subseteq SendType
           /\ \A s \in Sends(g) : Untold(s.id) /\ guests[g].about # s.id
<1>1. guests \in [Guests -> GuestType] /\ guests[g] \in GuestType
  BY Types DEF RecoveryInv
<1> QED BY <1>1, Types DEF RecoveryInv, StatusOfLatest, SendingInv, Sends, GuestType, Untold

\* The guest asks for a restart.
LEMMA RequestRecoveryStep ==
    ASSUME RecoveryInv, NEW g \in Guests, NEW id \in Requests, RequestRecovery(g, id)
    PROVE  RecoveryInv'
<1> DEFINE fresh(status) == [Carded(guests[g], status) EXCEPT !.shown = "idle", !.about = None]
           s == [id |-> id, previous |-> guests[g].latest]
<1>1. host' = host /\ asked' = asked /\ answers' = answers
  BY DEF RequestRecovery
<1>2. ASSUME NEW status \in {"sending", "error"}
      PROVE  /\ fresh(status) \in GuestType /\ fresh(status).sends = Sends(g)
             /\ fresh(status).shown = "idle" /\ fresh(status).about = None
  <2> DEFINE card == Carded(guests[g], status)
  <2>1. card \in GuestType /\ card.sends = guests[g].sends
    BY GuestFacts, CardedType
  <2> HIDE DEF card
  <2>2. [card EXCEPT !.shown = "idle", !.about = None] \in GuestType
    BY <2>1 DEF GuestType
  <2> QED BY <2>1, <2>2, GuestFacts DEF GuestType, card
<1>3. CASE guests[g].cooling = "yes"
  <2>1. guests' = [guests EXCEPT ![g] = fresh("error")]
    BY <1>3 DEF RequestRecovery
  <2> HIDE DEF fresh
  <2> QED BY <1>1, <1>2, <2>1, GuestFacts, GuestChange
<1>4. CASE guests[g].cooling # "yes"
  <2> DEFINE now == [fresh("sending") EXCEPT !.latest = id, !.sends = @ \cup {s}]
  <2>1. guests' = [guests EXCEPT ![g] = now] /\ FreeRequest(id)
    BY <1>4 DEF RequestRecovery
  <2>2. s \in SendType /\ s.id = id
    BY GuestFacts DEF SendType, GuestType
  <2> HIDE DEF fresh, s
  <2>3. /\ now \in GuestType /\ now.sends = Sends(g) \cup {s}
        /\ now.shown = "idle" /\ now.about = None
    BY <1>2, <2>2, GuestFacts DEF GuestType
  <2>4. \A t \in Sends(g) : t.id # id
    BY <2>1, GuestFacts DEF FreeRequest, Named
  <2> HIDE DEF now
  <2>5. \A u \in now.sends \ Sends(g) :
           /\ FreeRequest(u.id) /\ now.about # u.id
           /\ \A t \in now.sends : t.id = u.id => t = u
    BY <2>1, <2>2, <2>3, <2>4, RecoveryAssumption
  <2> QED BY <1>1, <2>1, <2>3, <2>5, GuestFacts, GuestChange
<1> QED BY <1>3, <1>4

\* publishData is answered, by a controller that is there or by one that has gone.
LEMMA SendAnsweredStep ==
    ASSUME RecoveryInv, NEW g \in Guests,
           \/ \E s \in guests[g].sends : RequestSent(g, s) \/ RequestNotSent(g, s)
           \/ \E id \in Requests : LateAnswer(g, id)
    PROVE  RecoveryInv'
<1>1. host' = host /\ answers' = answers
  BY DEF RequestSent, RequestNotSent, LateAnswer
<1>2. ASSUME NEW s \in guests[g].sends, RequestSent(g, s)
      PROVE  RecoveryInv'
  <2> DEFINE card == Carded(guests[g], "sent")
             now == [card EXCEPT !.cooling = "yes", !.sends = @ \ {s}]
             new == [by |-> g, id |-> s.id]
  <2>1. guests' = [guests EXCEPT ![g] = now] /\ asked' \in {asked, asked \cup {new}}
    BY <1>2 DEF RequestSent
  <2>2. /\ card \in GuestType /\ card.shown = guests[g].shown /\ card.about = guests[g].about
        /\ card.latest = guests[g].latest /\ card.sends = guests[g].sends
    BY GuestFacts, CardedType
  <2>3. new \in Asking
    BY GuestFacts DEF Asking, SendType
  <2> HIDE DEF card
  <2>4. /\ now \in GuestType /\ now.shown = guests[g].shown /\ now.about = guests[g].about
        /\ now.latest = guests[g].latest /\ now.sends = Sends(g) \ {s}
    BY <2>2, GuestFacts DEF GuestType
  <2> HIDE DEF now
  <2> QED BY <1>1, <2>1, <2>3, <2>4, GuestFacts, GuestChange
<1>3. ASSUME NEW s \in guests[g].sends, RequestNotSent(g, s)
      PROVE  RecoveryInv'
  <2> DEFINE card == Carded(guests[g], "error")
             now == [card EXCEPT !.sends = @ \ {s}, !.latest = IF @ = s.id THEN s.previous ELSE @]
  <2>1. guests' = [guests EXCEPT ![g] = now] /\ asked' = asked
    BY <1>3 DEF RequestNotSent
  <2>2. /\ card \in GuestType /\ card.shown = guests[g].shown /\ card.about = guests[g].about
        /\ card.latest = guests[g].latest /\ card.sends = guests[g].sends
    BY GuestFacts, CardedType
  <2>3. s.previous \in Requests \cup {None}
    BY GuestFacts DEF SendType
  <2> HIDE DEF card
  <2>4. /\ now \in GuestType /\ now.shown = guests[g].shown /\ now.about = guests[g].about
        /\ now.latest = (IF guests[g].latest = s.id THEN s.previous ELSE guests[g].latest)
        /\ now.sends = Sends(g) \ {s}
    BY <2>2, <2>3, GuestFacts DEF GuestType
  <2> HIDE DEF now
  <2>5. now.shown # "idle" => now.about = now.latest
    BY <2>4, GuestFacts
  <2> QED BY <1>1, <2>1, <2>4, <2>5, GuestFacts, GuestChange
<1>4. ASSUME NEW id \in Requests, LateAnswer(g, id)
      PROVE  RecoveryInv'
  <2>1. PICK status \in {"sent", "error"} :
           guests' = [guests EXCEPT ![g] =
             [Carded(guests[g], status) EXCEPT !.late = @ \ {id}]]
    BY <1>4 DEF LateAnswer
  <2> DEFINE card == Carded(guests[g], status)
             now == [card EXCEPT !.late = @ \ {id}]
  <2>2. /\ card \in GuestType /\ card.shown = guests[g].shown /\ card.about = guests[g].about
        /\ card.latest = guests[g].latest /\ card.sends = guests[g].sends
    BY GuestFacts, CardedType
  <2>3. guests' = [guests EXCEPT ![g] = now] /\ asked' = asked
    BY <1>4, <2>1 DEF LateAnswer
  <2> HIDE DEF card
  <2>4. /\ now \in GuestType /\ now.shown = guests[g].shown /\ now.about = guests[g].about
        /\ now.latest = guests[g].latest /\ now.sends = Sends(g)
    BY <2>2, GuestFacts DEF GuestType
  <2> HIDE DEF now
  <2> QED BY <1>1, <2>3, <2>4, GuestFacts, GuestChange
<1> QED BY <1>2, <1>3, <1>4

\* The guest's timers end, it cools down or connects.
LEMMA GuestTimersStep ==
    ASSUME RecoveryInv, NEW g \in Guests,
           GuestCools(g) \/ Unanswered(g) \/ HostStatusExpires(g) \/ ConnectGuest(g)
    PROVE  RecoveryInv'
<1>1. host' = host /\ asked' = asked /\ answers' = answers
  BY DEF GuestCools, Unanswered, HostStatusExpires, ConnectGuest
<1> DEFINE Kept(now) ==
         /\ now \in GuestType
         /\ guests' = [guests EXCEPT ![g] = now]
         /\ now.sends = Sends(g) /\ now.latest = guests[g].latest
         /\ now.about \in {guests[g].about, None}
         /\ now.shown # "idle" => guests[g].shown # "idle" /\ now.about = guests[g].about
<1>2. ASSUME NEW now, Kept(now)
      PROVE  RecoveryInv'
  BY <1>1, <1>2, GuestFacts, GuestChange
<1>3. \E now : Kept(now)
  <2>1. CASE GuestCools(g)
    <3> DEFINE now == [guests[g] EXCEPT !.cooling = "no"]
    <3>1. guests' = [guests EXCEPT ![g] = now]
      BY <2>1, GuestFacts DEF GuestCools, GuestType
    <3>2. Kept(now)
      BY <3>1, GuestFacts DEF GuestType
    <3> QED BY <3>2
  <2>2. CASE Unanswered(g)
    <3> DEFINE now == [guests[g] EXCEPT !.timer = "off",
                         !.status = IF guests[g].shown = "idle" THEN "unanswered" ELSE "sent"]
    <3>1. guests' = [guests EXCEPT ![g] = now]
      BY <2>2, GuestFacts DEF Unanswered, GuestType
    <3>2. Kept(now)
      BY <3>1, GuestFacts DEF GuestType
    <3> QED BY <3>2
  <2>3. CASE HostStatusExpires(g) /\ guests[g].shown = "started"
    <3> DEFINE now == [guests[g] EXCEPT !.shown = "timed_out"]
    <3>1. guests' = [guests EXCEPT ![g] = now]
      BY <2>3, GuestFacts DEF HostStatusExpires, GuestType
    <3>2. Kept(now)
      BY <2>3, <3>1, GuestFacts DEF GuestType
    <3> QED BY <3>2
  <2>4. CASE HostStatusExpires(g) /\ guests[g].shown # "started"
    <3> DEFINE now == [guests[g] EXCEPT !.shown = "idle", !.about = None]
    <3>1. guests' = [guests EXCEPT ![g] = now]
      BY <2>4, GuestFacts DEF HostStatusExpires, GuestType
    <3>2. Kept(now)
      BY <3>1, GuestFacts DEF GuestType
    <3> QED BY <3>2
  <2>5. CASE ConnectGuest(g)
    <3> DEFINE now == [guests[g] EXCEPT !.link = "on"]
    <3>1. guests' = [guests EXCEPT ![g] = now]
      BY <2>5, GuestFacts DEF ConnectGuest, GuestType
    <3>2. Kept(now)
      BY <3>1, GuestFacts DEF GuestType
    <3> QED BY <3>2
  <2> QED BY <2>1, <2>2, <2>3, <2>4, <2>5
<1> QED BY <1>2, <1>3

\* The guest hears of its last request, and of no other.
LEMMA ReceiveAnswerStep ==
    ASSUME RecoveryInv, NEW g \in Guests, ReceiveAnswer(g)
    PROVE  RecoveryInv'
<1> DEFINE a == Head(answers[g])
           card == Carded(guests[g], "idle")
           now == [card EXCEPT !.shown = a.status, !.about = a.id]
<1>1. /\ host' = host /\ asked' = asked /\ answers[g] # <<>>
      /\ answers' = [answers EXCEPT ![g] = Tail(@)]
      /\ guests' = IF a.id # guests[g].latest THEN guests ELSE [guests EXCEPT ![g] = now]
  BY DEF ReceiveAnswer
<1>2. /\ Tail(answers[g]) \in Seq(Answers) /\ a \in Answers
      /\ a.id \in Ids(answers[g]) /\ Ids(Tail(answers[g])) \subseteq Ids(answers[g])
  BY <1>1, GuestFacts, TailIds
<1>3. /\ card \in GuestType /\ card.latest = guests[g].latest /\ card.sends = guests[g].sends
  BY GuestFacts, CardedType
<1> HIDE DEF a, card
<1>4. /\ answers' \in [Guests -> Seq(Answers)]
      /\ \A h \in Guests : Ids(answers'[h]) \subseteq Ids(answers[h])
  <2>1. \A h \in Guests : answers'[h] = IF h = g THEN Tail(answers[g]) ELSE answers[h]
    BY <1>1, GuestFacts
  <2> QED BY <1>1, <1>2, <2>1, GuestFacts
<1>5. CASE a.id # guests[g].latest
  <2>1. guests' = [guests EXCEPT ![g] = guests[g]]
    BY <1>1, <1>5, GuestFacts
  <2> QED BY <1>1, <1>4, <2>1, GuestFacts, GuestChange
<1>6. CASE a.id = guests[g].latest
  <2>1. /\ now \in GuestType /\ now.about = a.id /\ now.latest = guests[g].latest
        /\ now.sends = Sends(g)
    BY <1>2, <1>3, GuestFacts DEF GuestType, Answers
  <2> HIDE DEF now
  <2> QED BY <1>1, <1>2, <1>4, <1>6, <2>1, GuestFacts, GuestChange
<1> QED BY <1>5, <1>6

\* A guest that goes keeps the invariant; what it was sending may have gone.
LEMMA LoseGuestStep ==
    ASSUME RecoveryInv, NEW g \in Guests, LoseGuest(g)
    PROVE  RecoveryInv'
<1> DEFINE lost == {s.id : s \in guests[g].sends}
           now == [GuestAway EXCEPT !.late = guests[g].late \cup lost]
<1>1. /\ host' = host /\ guests' = [guests EXCEPT ![g] = now]
      /\ answers' = [answers EXCEPT ![g] = <<>>]
      /\ \A r \in asked' : r \in asked \/ \E id \in lost : r = [by |-> g, id |-> id]
  BY DEF LoseGuest
<1>2. guests[g].late \subseteq Requests /\ lost \subseteq Requests
  BY GuestFacts DEF SendType, GuestType
<1>3. \A r \in asked' : r \in asked \/ \E s \in Sends(g) : r = [by |-> g, id |-> s.id]
  BY <1>1, GuestFacts
<1> HIDE DEF lost
<1>4. /\ now \in GuestType /\ now.about = None /\ now.shown = "idle" /\ now.sends = {}
  BY <1>2 DEF GuestAway, GuestType
<1> HIDE DEF now
<1>5. Ids(<<>>) = {}
  BY DEF Ids
<1>6. /\ answers' \in [Guests -> Seq(Answers)]
      /\ \A h \in Guests : Ids(answers'[h]) \subseteq Ids(answers[h])
  <2>1. \A h \in Guests : answers'[h] = IF h = g THEN <<>> ELSE answers[h]
    BY <1>1, GuestFacts
  <2> QED BY <1>1, <1>5, <2>1, GuestFacts
<1>7. asked' \subseteq Asking
  BY <1>3, GuestFacts DEF Asking, SendType
<1>8. now.about \in {guests[g].about, None} \cup Ids(answers[g])
  BY <1>4
<1>9. \A r \in asked' \ asked : \E s \in Sends(g) \ now.sends : r = [by |-> g, id |-> s.id]
  BY <1>3, <1>4
<1>10. \A s \in now.sends \ Sends(g) :
         /\ FreeRequest(s.id) /\ now.about # s.id
         /\ \A t \in now.sends : t.id = s.id => t = s
  BY <1>4
<1> QED BY <1>1, <1>4, <1>6, <1>7, <1>8, <1>9, <1>10, GuestChange

\* A request comes onto the alert, or is passed over in the host's cooldown.
LEMMA ReceiveRequestStep ==
    ASSUME RecoveryInv, NEW r \in asked, ReceiveRequest(r)
    PROVE  RecoveryInv'
<1>1. /\ host \in HostType /\ asked \subseteq Asking /\ r \in Asking
      /\ answers \in [Guests -> Seq(Answers)]
  BY Types DEF RecoveryInv
<1>2. /\ guests' = guests /\ answers' = answers /\ asked' = asked \ {r}
      /\ host' = IF r.by \in host.cooling THEN host
                 ELSE [host EXCEPT !.alert = r, !.cooling = @ \cup {r.by}]
  BY DEF ReceiveRequest
<1>3. /\ host' \in HostType /\ host'.restart = host.restart
      /\ host'.alert = host.alert \/ host'.alert = r
  BY <1>1, <1>2 DEF HostType, Asking
<1>4. RequestsInv' /\ host'.alert \in {host.alert} \cup (asked \ asked')
  BY <1>1, <1>2, <1>3 DEF RecoveryInv, RequestsInv
<1> QED BY <1>1, <1>2, <1>3, <1>4, HostChange

\* The alert goes as the host tells of the restart, which may then be under way.
LEMMA RestartFilmStep ==
    ASSUME RecoveryInv, RestartFilm
    PROVE  RecoveryInv'
<1>1. /\ host \in HostType /\ host.alert \in Asking \cup {NoRequest} /\ RecoveryTypes
      /\ host.restart \in Asking \cup {NoRequest}
  BY Types DEF RecoveryInv, RequestsInv
<1>2. /\ guests' = guests /\ asked' = asked /\ answers' \in Answered(host.alert, "started")
      /\ LET seen == [host EXCEPT !.alert = NoRequest]
         IN  host' = IF host.link = "on"
                     THEN [seen EXCEPT !.film = "publishing", !.restart = host.alert] ELSE seen
  BY DEF RestartFilm
<1>3. /\ answers' \in [Guests -> Seq(Answers)]
      /\ \A g \in Guests : Ids(answers'[g]) \subseteq Ids(answers[g]) \cup {host.alert.id}
  BY <1>1, <1>2, AnsweredIds
<1>4. /\ host' \in HostType /\ host'.alert = NoRequest
      /\ host'.restart \in {host.restart, host.alert}
  BY <1>1, <1>2 DEF HostType, NoRequest
<1>5. RequestsInv'
  BY <1>1, <1>4 DEF RequestsInv
<1> QED BY <1>2, <1>3, <1>4, <1>5, HostChange

\* The restart ends and the host tells how.
LEMMA RestartEndsStep ==
    ASSUME RecoveryInv, Published \/ PublishFails
    PROVE  RecoveryInv'
<1>1. /\ host \in HostType /\ host.restart \in Asking \cup {NoRequest} /\ RecoveryTypes
      /\ host.alert \in Asking \cup {NoRequest}
  BY Types DEF RecoveryInv, RequestsInv
<1>2. /\ guests' = guests /\ asked' = asked
      /\ \E status \in {"succeeded", "failed"} : answers' \in Answered(host.restart, status)
      /\ \E film \in {"live", "none"} :
            host' = [host EXCEPT !.film = film, !.restart = NoRequest]
  BY DEF Published, PublishFails
<1>3. /\ answers' \in [Guests -> Seq(Answers)]
      /\ \A g \in Guests : Ids(answers'[g]) \subseteq Ids(answers[g]) \cup {host.restart.id}
  BY <1>1, <1>2, AnsweredIds
<1>4. /\ host' \in HostType /\ host'.alert = host.alert
      /\ host'.restart = NoRequest /\ host'.restart.id = None
  <2>1. PICK film \in {"live", "none"} : host' = [host EXCEPT !.film = film, !.restart = NoRequest]
    BY <1>2
  <2> QED BY <1>1, <2>1 DEF HostType, NoRequest
<1>5. RequestsInv'
  BY <1>1, <1>4 DEF RequestsInv
<1> QED BY <1>2, <1>3, <1>4, <1>5, HostChange

\* Nothing is told: the film is published from its button or stopped, the host
\* comes, reconnects or goes.
LEMMA HostStepIInv ==
    ASSUME RecoveryInv,
           \/ \E g \in Guests : HostCools(g)
           \/ PublishFilm \/ StopFilm \/ ConnectHost \/ HostReconnects \/ LoseHost
           \/ UNCHANGED recoveryVars
    PROVE  RecoveryInv'
<1>1. /\ host \in HostType /\ host.restart \in Asking \cup {NoRequest}
      /\ host.alert \in Asking \cup {NoRequest}
      /\ answers \in [Guests -> Seq(Answers)]
  BY Types DEF RecoveryInv, RequestsInv
<1>2. guests' = guests /\ answers' = answers /\ asked' \subseteq asked
  BY DEF HostCools, PublishFilm, StopFilm, ConnectHost, HostReconnects, LoseHost,
     recoveryVars
<1>3. /\ host' \in HostType /\ host'.alert \in {host.alert, NoRequest}
      /\ host'.restart \in {host.restart, NoRequest}
  <2>1. ASSUME NEW g \in Guests, HostCools(g)
        PROVE  /\ host' \in HostType /\ host'.alert = host.alert /\ host'.restart = host.restart
    BY <1>1, <2>1 DEF HostType, HostCools
  <2>2. CASE PublishFilm
    BY <1>1, <2>2 DEF HostType, PublishFilm, NoRequest
  <2>3. CASE StopFilm
    BY <1>1, <2>3 DEF HostType, StopFilm, NoRequest
  <2>4. CASE HostReconnects
    BY <1>1, <2>4 DEF HostType, HostReconnects
  <2>5. CASE ConnectHost \/ LoseHost
    BY <1>1, <2>5 DEF HostType, ConnectHost, LoseHost, HostAway, NoRequest
  <2>6. CASE UNCHANGED recoveryVars
    BY <1>1, <2>6 DEF recoveryVars
  <2> QED BY <2>1, <2>2, <2>3, <2>4, <2>5, <2>6
<1>4. host'.restart.id \in {host.restart.id, None}
  BY <1>3 DEF NoRequest
<1>5. RequestsInv'
  BY <1>1, <1>3 DEF RequestsInv
<1> QED BY <1>1, <1>2, <1>3, <1>4, <1>5, HostChange

\* RecoveryInv holds in every state.
LEMMA RecoveryInvariant == RecoverySpec => []RecoveryInv
<1>1. RecoveryInv /\ [RecoveryNext]_recoveryVars => RecoveryInv'
  <2> SUFFICES ASSUME RecoveryInv, [RecoveryNext]_recoveryVars PROVE RecoveryInv'
    OBVIOUS
  <2>1. ASSUME NEW g \in Guests, GuestStep(g)
        PROVE  RecoveryInv'
    BY <2>1, RequestRecoveryStep, SendAnsweredStep, GuestTimersStep, ReceiveAnswerStep,
       LoseGuestStep DEF GuestStep
  <2>2. CASE HostStep
    BY <2>2, ReceiveRequestStep, RestartFilmStep, RestartEndsStep, HostStepIInv DEF HostStep
  <2>3. CASE UNCHANGED recoveryVars
    BY <2>3, HostStepIInv
  <2> QED BY <2>1, <2>2, <2>3 DEF RecoveryNext
<1> QED BY <1>1, RecoveryInitially, PTL DEF RecoverySpec

-----------------------------------------------------------------------------
(***************************************************************************)
(* Theorems                                                                *)
(***************************************************************************)

\* The controllers, the alert and the messages under way keep their shapes.
THEOREM RecoveryTypeCorrect == RecoverySpec => []RecoveryTypes
<1>1. RecoveryInv => RecoveryTypes
  BY DEF RecoveryInv
<1> QED BY <1>1, RecoveryInvariant, PTL

\* A guest reads of its last request only (latestRequestId in the guest's
\* controller), also when a later one failed and gave it back its place.
THEOREM StatusTheorem == RecoverySpec => []StatusOfLatest
<1>1. RecoveryInv => StatusOfLatest
  BY DEF RecoveryInv
<1> QED BY <1>1, RecoveryInvariant, PTL

\* A request on the host's alert has not been answered and no restart under way
\* will answer it (restartFilePublication takes the alert away as it answers).
THEOREM AlertTheorem == RecoverySpec => []OpenAlertIsUnanswered
<1>1. RecoveryInv => OpenAlertIsUnanswered
  <2> SUFFICES ASSUME RecoveryInv, host.alert.by # None PROVE OpenAlertIsUnanswered
    BY DEF OpenAlertIsUnanswered
  <2>1. /\ \A g \in Guests : guests[g].about # host.alert.id
                             /\ host.alert.id \notin Ids(answers[g])
        /\ host.restart.id # host.alert.id
    BY DEF RecoveryInv, AlertInv, Untold
  <2>2. answers \in [Guests -> Seq(Answers)]
    BY Types DEF RecoveryInv
  <2>3. ASSUME NEW g \in Guests, NEW i \in DOMAIN answers[g]
        PROVE  answers[g][i].id # host.alert.id
    BY <2>1, <2>2 DEF Ids
  <2> QED BY <2>1, <2>3 DEF OpenAlertIsUnanswered
<1> QED BY <1>1, RecoveryInvariant, PTL

=============================================================================
