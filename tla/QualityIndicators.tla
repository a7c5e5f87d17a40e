--------------------------- MODULE QualityIndicators ---------------------------
(***************************************************************************)
(* The quality card of one tab: a controller that polls RTC statistics     *)
(* every two seconds and after every report of LiveKit, so that polls      *)
(* overlap.                                                                *)
(*                                                                         *)
(* A poll takes its statistics while it waits and assesses them, together  *)
(* with the connection qualities known by then, when it is answered.  A    *)
(* late poll is one of a controller that has been disconnected.            *)
(***************************************************************************)
EXTENDS Integers, FiniteSetsExt

CONSTANTS
    People,       \* participants of the call, this one included
    PacketLosses, \* percentages a poll may find
    Delays,       \* jitters in milliseconds; the round trip is five times as long
    MaxPolls      \* bound: polls under way, late ones included

ASSUME QualityAssumption ==
    /\ PacketLosses \subseteq Nat /\ Delays \subseteq Nat
    /\ MaxPolls \in Nat \ {0}

VARIABLE monitor  \* the controller and the card

Qualities == {"unknown", "excellent", "good", "poor", "lost"}

Statuses == {"idle", "checking", "good", "warning", "poor", "lost"}

NoQuality == [p \in People |-> "none"]

QualityInit == monitor = [on |-> "no", known |-> NoQuality, polls |-> 0, late |-> 0,
                          shown |-> "idle", failed |-> "no"]

-----------------------------------------------------------------------------

Weight(quality) ==
    CASE quality = "lost" -> 5
      [] quality = "poor" -> 4
      [] quality = "good" -> 2
      [] quality = "excellent" -> 1
      [] quality = "unknown" -> 0
      [] quality = "none" -> -1

\* worstConnectionQuality
Worst(known) ==
    LET weight == Max({Weight(known[p]) : p \in People})
    IN  CHOOSE quality \in Qualities \cup {"none"} : Weight(quality) = weight

\* assessQuality; aggregateStats has folded the statistics of all tracks.
Assess(quality, measured, loss, jitter, rtt) ==
    IF quality \in {"lost", "poor"} THEN quality
    ELSE IF loss >= 5 \/ jitter >= 90 \/ rtt >= 450 THEN "poor"
    ELSE IF loss >= 1 \/ jitter >= 40 \/ rtt >= 200 THEN "warning"
    ELSE IF quality = "none" /\ ~measured THEN "checking"
    ELSE "good"

Show(status, failed) ==
    monitor' = [monitor EXCEPT !.polls = @ - 1, !.shown = status, !.failed = failed]

-----------------------------------------------------------------------------

CanPoll == monitor.polls + monitor.late < MaxPolls

\* createQualityIndicatorController: qualities that LiveKit knows already.
QualityBegins ==
    /\ CanPoll
    /\ \E known \in [People -> {"none", "good"}] :
          monitor' = [monitor EXCEPT !.on = "yes", !.known = known, !.polls = 1]

\* The interval
PollQuality ==
    /\ monitor.on = "yes" /\ CanPoll
    /\ monitor' = [monitor EXCEPT !.polls = @ + 1]

ConnectionQualityChanged_WaitsForPoll(p, quality) ==
    /\ monitor.on = "yes" /\ CanPoll
    /\ monitor' = [monitor EXCEPT !.known[p] = quality]

\* handleConnectionQualityChanged
ConnectionQualityChanged(p, quality) ==
    /\ monitor.on = "yes" /\ CanPoll
    /\ monitor' = [monitor EXCEPT !.known[p] = quality, !.polls = @ + 1]

\* A poll has its statistics; what was not measured counts as zero.
PollAnswered ==
    /\ monitor.polls > 0
    /\ \E measured \in BOOLEAN, loss \in PacketLosses \cup {0}, delay \in Delays \cup {0} :
          /\ loss + delay > 0 => measured
          /\ Show(Assess(Worst(monitor.known), measured, loss, delay, 5 * delay), "no")

PollFails ==
    /\ monitor.polls > 0
    /\ Show("warning", "yes")

LatePollAnswered_Shows ==
    /\ monitor.late > 0
    /\ \E loss \in PacketLosses, delay \in Delays :
          monitor' = [monitor EXCEPT !.late = @ - 1,
                         !.shown = Assess(Worst(monitor.known), TRUE, loss, delay, 5 * delay)]

\* Answers and failures after disconnect change nothing.
LatePollAnswered ==
    /\ monitor.late > 0
    /\ monitor' = [monitor EXCEPT !.late = @ - 1]

\* disconnectQualityIndicators
QualityEnds ==
    monitor' = [monitor EXCEPT !.on = "no", !.polls = 0, !.late = @ + monitor.polls,
                               !.known = NoQuality, !.shown = "idle", !.failed = "no"]

QualityStep ==
    \/ PollQuality
    \/ \E p \in People, quality \in {"good", "lost"} : ConnectionQualityChanged(p, quality)
    \/ PollAnswered
    \/ PollFails
    \/ LatePollAnswered

QualityTypeOK ==
    monitor \in [on : {"no", "yes"}, known : [People -> Qualities \cup {"none"}],
                 polls : 0 .. MaxPolls, late : 0 .. MaxPolls, shown : Statuses,
                 failed : {"no", "yes"}]
=============================================================================
