----------------------------- MODULE MediaRecovery -----------------------------
(***************************************************************************)
(* A guest whose video hangs asks the host for help, the host restarts the *)
(* publication of its film and tells the guest how that goes: data         *)
(* messages with the id of the guest's request, two cooldowns, the timers  *)
(* of the guest's card and the host's alert, of which there is one.        *)
(*                                                                         *)
(* Names of requests are used again when nothing refers to them.           *)
(* publishData is answered before the host's answer is there, unless the   *)
(* connection is lost before: then whether the request has gone and how    *)
(* the call is answered, at any later time, are LiveKit's choices.         *)
(* Cooldowns and timers end at any time.  FilePublication has publishing   *)
(* in full.                                                                *)
(***************************************************************************)
EXTENDS Absent, Naturals, Sequences

CONSTANTS
    Guests,
    Requests,   \* ids of requests
    MaxAnswers  \* bound: answers under way to a guest

ASSUME RecoveryAssumption == None \notin Guests \cup Requests /\ MaxAnswers \in Nat \ {0}

VARIABLES
    host,    \* the host's connection, publication and alert
    guests,  \* the guests' controllers and cards
    asked,   \* requests under way to the host
    answers  \* statuses under way to each guest

recoveryVars == <<host, guests, asked, answers>>

NoRequest == [by |-> None, id |-> None]

HostAway ==
    [link |-> "off", film |-> "none", restart |-> NoRequest, alert |-> NoRequest, cooling |-> {}]

GuestAway ==
    [link |-> "off", status |-> "idle", timer |-> "off", shown |-> "idle", about |-> None,
     latest |-> None, sends |-> {}, late |-> {}, cooling |-> "no"]

RecoveryInit ==
    /\ host = HostAway
    /\ guests = [g \in Guests |-> GuestAway]
    /\ asked = {}
    /\ answers = [g \in Guests |-> <<>>]

-----------------------------------------------------------------------------
(***************************************************************************)
(* The guest                                                               *)
(***************************************************************************)

Named(g) ==
    {guests[g].about, guests[g].latest} \cup guests[g].late
        \cup {s.id : s \in guests[g].sends} \cup {s.previous : s \in guests[g].sends}
        \cup {answers[g][i].id : i \in DOMAIN answers[g]}

FreeRequest(id) ==
    /\ id \notin {r.id : r \in asked} \cup {host.alert.id, host.restart.id}
    /\ \A g \in Guests : id \notin Named(g)

\* The card's timer runs from the moment the status becomes "sent".
Carded(guest, status) ==
    [guest EXCEPT !.status = status,
                  !.timer = IF status # "sent" THEN "off"
                            ELSE IF guest.status = "sent" THEN @ ELSE "on"]

\* requestMediaRecovery
RequestRecovery(g, id) ==
    LET fresh(status) == [Carded(guests[g], status) EXCEPT !.shown = "idle", !.about = None]
    IN  /\ guests[g].link = "on" /\ guests[g].status \notin {"sending", "sent"}
        /\ IF guests[g].cooling = "yes"
           THEN guests' = [guests EXCEPT ![g] = fresh("error")]
           ELSE /\ FreeRequest(id)
                /\ guests' = [guests EXCEPT ![g] =
                     [fresh("sending") EXCEPT !.latest = id,
                        !.sends = @ \cup {[id |-> id, previous |-> guests[g].latest]}]]
        /\ UNCHANGED <<host, asked, answers>>

\* publishData is answered: the request goes to a host that is connected.
RequestSent(g, s) ==
    /\ s \in guests[g].sends
    /\ guests' = [guests EXCEPT ![g] =
         [Carded(guests[g], "sent") EXCEPT !.cooling = "yes", !.sends = @ \ {s}]]
    /\ asked' = IF host.link = "off" THEN asked ELSE asked \cup {[by |-> g, id |-> s.id]}
    /\ UNCHANGED <<host, answers>>

\* publishData fails: if its request is still the latest, an answer to the one
\* before is welcome again.
RequestNotSent(g, s) ==
    /\ s \in guests[g].sends
    /\ guests' = [guests EXCEPT ![g] =
         [Carded(guests[g], "error") EXCEPT !.sends = @ \ {s},
            !.latest = IF @ = s.id THEN s.previous ELSE @]]
    /\ UNCHANGED <<host, asked, answers>>

\* The answer to a controller that has been disconnected: the card takes it for
\* its own.
LateAnswer(g, id) ==
    /\ id \in guests[g].late
    /\ \E status \in {"sent", "error"} :
          guests' = [guests EXCEPT ![g] =
            [Carded(guests[g], status) EXCEPT !.late = @ \ {id}]]
    /\ UNCHANGED <<host, asked, answers>>

GuestCools(g) ==
    /\ guests[g].cooling = "yes"
    /\ guests' = [guests EXCEPT ![g].cooling = "no"]
    /\ UNCHANGED <<host, asked, answers>>

ReceiveAnswer_AnyRequest(g) ==
    /\ answers[g] # <<>>
    /\ answers' = [answers EXCEPT ![g] = Tail(@)]
    /\ guests' = [guests EXCEPT ![g] =
         [Carded(guests[g], "idle") EXCEPT !.shown = Head(answers[g]).status,
                                           !.about = Head(answers[g]).id]]
    /\ UNCHANGED <<host, asked>>

\* handleDataReceived and onRecoveryStatus of a guest
ReceiveAnswer(g) ==
    /\ answers[g] # <<>>
    /\ answers' = [answers EXCEPT ![g] = Tail(@)]
    /\ LET answer == Head(answers[g])
       IN  guests' = IF answer.id # guests[g].latest THEN guests
                     ELSE [guests EXCEPT ![g] =
                            [Carded(guests[g], "idle") EXCEPT !.shown = answer.status,
                                                              !.about = answer.id]]
    /\ UNCHANGED <<host, asked>>

\* The timer of "sent" runs once, also when it finds a status of the host.
Unanswered(g) ==
    /\ guests[g].timer = "on"
    /\ guests' = [guests EXCEPT ![g] =
         [@ EXCEPT !.timer = "off",
                   !.status = IF guests[g].shown = "idle" THEN "unanswered" ELSE "sent"]]
    /\ UNCHANGED <<host, asked, answers>>

HostStatusExpires_StartedOnly(g) ==
    /\ guests[g].shown = "started"
    /\ guests' = [guests EXCEPT ![g].shown = "timed_out"]
    /\ UNCHANGED <<host, asked, answers>>

\* The timer of mediaRecoveryHostStatus, set anew for every status
HostStatusExpires(g) ==
    /\ guests[g].shown # "idle"
    /\ guests' = IF guests[g].shown = "started"
                 THEN [guests EXCEPT ![g].shown = "timed_out"]
                 ELSE [guests EXCEPT ![g].shown = "idle", ![g].about = None]
    /\ UNCHANGED <<host, asked, answers>>

ConnectGuest(g) ==
    /\ guests[g].link = "off"
    /\ guests' = [guests EXCEPT ![g].link = "on"]
    /\ UNCHANGED <<host, asked, answers>>

\* disconnectMediaRecoverySignals, when the connection is lost or left.  What is
\* being sent is answered later; it may have gone.
LoseGuest(g) ==
    LET lost == {s.id : s \in guests[g].sends}
    IN  /\ guests[g].link = "on"
        /\ guests' = [guests EXCEPT ![g] = [GuestAway EXCEPT !.late = guests[g].late \cup lost]]
        /\ answers' = [answers EXCEPT ![g] = <<>>]
        /\ IF host.link = "off" THEN UNCHANGED asked
           ELSE \E gone \in SUBSET lost :
                   asked' = asked \cup {[by |-> g, id |-> id] : id \in gone}
        /\ UNCHANGED host

-----------------------------------------------------------------------------
(***************************************************************************)
(* The host                                                                *)
(***************************************************************************)

\* sendRecoveryStatus: nobody waits for it, and it may be lost.
Answered(request, status) ==
    IF request.by = None \/ \E g \in Guests : g = request.by /\ guests[g].link = "off"
    THEN {answers}
    ELSE {answers, [answers EXCEPT ![request.by] =
                      Append(@, [id |-> request.id, status |-> status])]}

HasRoom(request) ==
    \A g \in Guests : g = request.by => Len(answers[g]) < MaxAnswers

\* handleDataReceived of the host: its one alert is that of the last request.
ReceiveRequest(r) ==
    /\ r \in asked /\ host.link # "off"
    /\ asked' = asked \ {r}
    /\ host' = IF r.by \in host.cooling THEN host
               ELSE [host EXCEPT !.alert = r, !.cooling = @ \cup {r.by}]
    /\ UNCHANGED <<guests, answers>>

HostCools(g) ==
    /\ g \in host.cooling
    /\ host' = [host EXCEPT !.cooling = @ \ {g}]
    /\ UNCHANGED <<guests, asked, answers>>

RestartFilm_KeepsAlert ==
    /\ host.film = "live" /\ HasRoom(host.alert)
    /\ answers' \in Answered(host.alert, "started")
    /\ IF host.link = "on"
       THEN host' = [host EXCEPT !.film = "publishing", !.restart = host.alert]
       ELSE UNCHANGED host
    /\ UNCHANGED <<guests, asked>>

\* restartFilePublication, from the alert or the restart button.  While LiveKit
\* reconnects publishFile returns early and nothing more is answered.
RestartFilm ==
    /\ host.film = "live" /\ HasRoom(host.alert)
    /\ answers' \in Answered(host.alert, "started")
    /\ LET seen == [host EXCEPT !.alert = NoRequest]
       IN  host' = IF host.link = "on"
                   THEN [seen EXCEPT !.film = "publishing", !.restart = host.alert] ELSE seen
    /\ UNCHANGED <<guests, asked>>

\* publishFile from its button
PublishFilm ==
    /\ host.link = "on" /\ host.film = "none"
    /\ host' = [host EXCEPT !.film = "publishing", !.restart = NoRequest]
    /\ UNCHANGED <<guests, asked, answers>>

\* publishFileToLiveKit is answered.
Published ==
    /\ host.film = "publishing" /\ HasRoom(host.restart)
    /\ answers' \in Answered(host.restart, "succeeded")
    /\ host' = [host EXCEPT !.film = "live", !.restart = NoRequest]
    /\ UNCHANGED <<guests, asked>>

PublishFails ==
    /\ host.film = "publishing" /\ HasRoom(host.restart)
    /\ answers' \in Answered(host.restart, "failed")
    /\ host' = [host EXCEPT !.film = "none", !.restart = NoRequest]
    /\ UNCHANGED <<guests, asked>>

\* stopFilePublication: a restart it overtakes is never answered.
StopFilm ==
    /\ host.film # "none"
    /\ host' = [host EXCEPT !.film = "none", !.restart = NoRequest]
    /\ UNCHANGED <<guests, asked, answers>>

ConnectHost ==
    /\ host.link = "off"
    /\ host' = [HostAway EXCEPT !.link = "on"]
    /\ UNCHANGED <<guests, asked, answers>>

\* LiveKit reconnects by itself.
HostReconnects ==
    /\ host.link # "off"
    /\ host' = [host EXCEPT !.link = IF @ = "on" THEN "reconnecting" ELSE "on"]
    /\ UNCHANGED <<guests, asked, answers>>

LoseHost ==
    /\ host.link # "off"
    /\ host' = HostAway
    /\ asked' = {}
    /\ UNCHANGED <<guests, answers>>

-----------------------------------------------------------------------------
GuestStep(g) ==
    \/ \E id \in Requests : RequestRecovery(g, id) \/ LateAnswer(g, id)
    \/ \E s \in guests[g].sends : RequestSent(g, s) \/ RequestNotSent(g, s)
    \/ GuestCools(g)
    \/ ReceiveAnswer(g) \/ Unanswered(g) \/ HostStatusExpires(g)
    \/ ConnectGuest(g) \/ LoseGuest(g)

HostStep ==
    \/ \E r \in asked : ReceiveRequest(r)
    \/ \E g \in Guests : HostCools(g)
    \/ RestartFilm \/ PublishFilm \/ Published \/ PublishFails \/ StopFilm
    \/ ConnectHost \/ HostReconnects \/ LoseHost

RecoveryNext ==
    \/ \E g \in Guests : GuestStep(g)
    \/ HostStep

RecoverySpec == RecoveryInit /\ [][RecoveryNext]_recoveryVars

\* A guest's publishData is answered and its timers fire.
FairRecoverySpec ==
    /\ RecoverySpec
    /\ \A g \in Guests :
          /\ WF_recoveryVars(\E s \in guests[g].sends : RequestSent(g, s) \/ RequestNotSent(g, s))
          /\ WF_recoveryVars(Unanswered(g))
          /\ WF_recoveryVars(HostStatusExpires(g))

-----------------------------------------------------------------------------
(***************************************************************************)
(* Properties                                                              *)
(***************************************************************************)

\* The types of the variables.
RecoveryTypes ==
    /\ host \in [link : {"off", "on", "reconnecting"}, film : {"none", "publishing", "live"},
                 restart : [by : Guests \cup {None}, id : Requests \cup {None}],
                 alert : [by : Guests \cup {None}, id : Requests \cup {None}],
                 cooling : SUBSET Guests]
    /\ guests \in [Guests ->
                    [link : {"off", "on"},
                     status : {"idle", "sending", "sent", "error", "unanswered"},
                     timer : {"off", "on"},
                     shown : {"idle", "started", "succeeded", "failed", "timed_out"},
                     about : Requests \cup {None}, latest : Requests \cup {None},
                     sends : SUBSET [id : Requests, previous : Requests \cup {None}],
                     late : SUBSET Requests, cooling : {"no", "yes"}]]
    /\ asked \subseteq [by : Guests, id : Requests]
    /\ answers \in [Guests ->
                     Seq([id : Requests, status : {"started", "succeeded", "failed"}])]

\* What a guest reads about a restart is about its last request, also when that
\* request overtook an older one, failed and gave it back its place
\* (docs/WT-632_RECOVERY_REQUEST_CORRELATION.md:10-17).
StatusOfLatest ==
    \A g \in Guests : guests[g].shown # "idle" => guests[g].about = guests[g].latest

\* While the alert of a request is open, its guest has been told nothing and will
\* be told nothing about it, also when a restart for another guest is under way.
OpenAlertIsUnanswered ==
    host.alert.by # None =>
        /\ host.alert.id \notin {a.id : a \in UNION {{answers[g][i] : i \in DOMAIN answers[g]} : g \in Guests}}
        /\ host.alert.id \notin {guests[g].about : g \in Guests}
        /\ host.alert.id # host.restart.id

\* The button is disabled, and either publishData or the timer of "sent" is due,
\* which will find no status of the host.
Waiting(guest) ==
    guest.status = "sending" \/ (guest.timer = "on" /\ guest.shown = "idle")

\* A guest is not left waiting: its button is given back and whatever it reads
\* about a restart, its start, success, failure or timeout, goes away in the end,
\* even when the host never answers, is gone or breaks off the restart, and
\* although the answer to a request of a lost connection may come at any time
\* (docs/WT-633_RECOVERY_RESPONSE_TIMEOUT.md, docs/WT-634_RECOVERY_RESULT_TIMEOUT.md).
GuestIsReleased ==
    \A g \in Guests :
        /\ Waiting(guests[g]) ~> guests[g].status \notin {"sending", "sent"}
        /\ guests[g].shown # "idle" ~> guests[g].shown = "idle"
=============================================================================
