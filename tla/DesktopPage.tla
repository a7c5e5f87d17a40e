------------------------------- MODULE DesktopPage -------------------------------
(***************************************************************************)
(* What people see of the desktop application: the host's window with its  *)
(* indicator of the supervisor's status, and guests' browsers whose page,  *)
(* requests and room line all go through the gateway to a backend that may *)
(* be dying.  Each page asks for the state of the service (React Query,    *)
(* external) and sends feedback; DesktopShell's steps run underneath.      *)
(***************************************************************************)
EXTENDS DesktopShell, Sequences

CONSTANTS
    Pages,    \* the guests whose browser shows the page
    Queries   \* what a page asks of the service

ASSUME PageAssumption == Pages \subseteq Guests /\ Queries \subseteq {"health", "version"}

VARIABLES
    window,   \* what the window shows; the indicator and its messages
    pages,     \* per guest: the page, its queries and its feedback form
    calls     \* per guest and kind: where a request or the room line is

pageVars == <<desktopVars, window, pages, calls>>

CallKinds == Queries \cup {"feedback", "room"}
Alone == UNCHANGED desktopVars

\* A page that is not there, or gone.
NoPage == [open |-> "no", form |-> "idle",
           query |-> [q \in Queries |-> [data |-> "no", error |-> "no", fetch |-> "idle"]]]
NoCalls == [k \in CallKinds |-> "none"]

PageInit ==
    /\ Init
    /\ window = [shows |-> "starting", asks |-> "no", mail |-> <<>>, shown |-> None]
    /\ pages = [p \in Pages |-> NoPage]
    /\ calls = [p \in Pages |-> NoCalls]

-----------------------------------------------------------------------------
(***************************************************************************)
(* The shell's steps, and what they do to windows and requests             *)
(***************************************************************************)

\* setStatus sends to the window; only a mounted indicator listens.  start
\* returns or throws, and the window goes to the page or back to a message.
Noticed ==
    LET heard == IF window.shows = "page" /\ status' # status
                 THEN [window EXCEPT !.mail = Append(@, status')] ELSE window
    IN  CASE starter' = "done" /\ starter # "done" -> [heard EXCEPT !.shows = "loading"]
          [] starter' \in {"refused", "failed"} /\ starter' # starter ->
                [heard EXCEPT !.shows = "error"]
          [] OTHER -> heard

\* A connection that is destroyed takes its requests along.
CutOff ==
    [p \in Pages |->
       IF p \in gateway'.sockets THEN calls[p]
       ELSE [k \in CallKinds |-> IF calls[p][k] = "none" THEN "none" ELSE "bad"]]

Shell(A) ==
    /\ A
    /\ window' = Noticed
    /\ calls' = CutOff
    /\ UNCHANGED pages

-----------------------------------------------------------------------------
(***************************************************************************)
(* The host's window                                                       *)
(***************************************************************************)

WindowLoads_OnlyListens ==
    /\ Open /\ window.shows = "loading"
    /\ window' = [window EXCEPT !.shows = IF gateway.open = "yes" THEN "page" ELSE "error"]
    /\ UNCHANGED <<pages, calls>> /\ Alone

\* loadURL, once the host runs: the indicator mounts, asks and subscribes.  When
\* the gateway has closed meanwhile, an error page is shown.
WindowLoads ==
    /\ Open /\ window.shows = "loading"
    /\ window' = IF gateway.open = "yes"
                 THEN [window EXCEPT !.shows = "page", !.asks = "yes"]
                 ELSE [window EXCEPT !.shows = "error"]
    /\ UNCHANGED <<pages, calls>> /\ Alone

\* ipcMain answers with the status of now.
StatusAnswered ==
    /\ Open /\ window.asks = "yes"
    /\ window' = [window EXCEPT !.asks = "no", !.mail = Append(@, status)]
    /\ UNCHANGED <<pages, calls>> /\ Alone

IndicatorUpdates ==
    /\ Open /\ window.mail # <<>>
    /\ window' = [window EXCEPT !.shown = Head(window.mail), !.mail = Tail(@)]
    /\ UNCHANGED <<pages, calls>> /\ Alone

-----------------------------------------------------------------------------
(***************************************************************************)
(* The gateway                                                             *)
(***************************************************************************)

BackendAlive == children.is["backend"] \in {"up", "terminating"}

\* What handleRequest answers itself, and what it passes on.
Assets == {"index", "script"}
HandleRequest(path, html) ==
    CASE path = "gateway health" -> "up"
      [] path = "api" -> "proxied"
      [] path \in Assets -> path
      [] path = "room route" /\ html -> "index"
      [] OTHER -> "not found"

\* Requests of p: over its connection, over a new one, or refused.
Requested(p, kinds) ==
    /\ calls' = [calls EXCEPT ![p] = [k \in CallKinds |->
                    IF k \notin kinds THEN @[k]
                    ELSE IF gateway.open = "yes" THEN "backend" ELSE "bad"]]
    /\ gateway' = IF gateway.open = "yes" THEN [gateway EXCEPT !.sockets = @ \cup {p}]
                  ELSE gateway
    /\ UNCHANGED <<app, status, starter, stopper, children>>

\* A backend that lives: proxyHttp passes on the head of its answer and pipes the
\* rest after it; proxyUpgrade opens a tunnel.
BackendBegins(p, k) ==
    /\ calls[p][k] = "backend" /\ k # "room" /\ BackendAlive
    /\ calls' = [calls EXCEPT ![p][k] = "head"]
    /\ UNCHANGED <<window, pages>> /\ Alone

BackendAnswers(p, k) ==
    /\ calls[p][k] = (IF k = "room" THEN "backend" ELSE "head") /\ BackendAlive
    /\ \E answer \in {IF k = "room" THEN "open" ELSE "ok", "bad"} :
          calls' = [calls EXCEPT ![p][k] = answer]
    /\ UNCHANGED <<window, pages>> /\ Alone

UpstreamFails_TunnelsOnly(p, k) ==
    /\ ~BackendAlive
    /\ k = "room" /\ calls[p][k] \in {"backend", "open"}
    /\ calls' = [calls EXCEPT ![p][k] = "bad"]
    /\ UNCHANGED <<window, pages>> /\ Alone

\* The backend cannot be reached or has gone: 502, and a tunnel is destroyed.  An
\* answer whose head was passed on is left as it is, neither ended nor destroyed.
UpstreamFails(p, k) ==
    /\ ~BackendAlive
    /\ calls[p][k] \in {"backend", "open"}
    /\ calls' = [calls EXCEPT ![p][k] = "bad"]
    /\ UNCHANGED <<window, pages>> /\ Alone

-----------------------------------------------------------------------------
(***************************************************************************)
(* A guest's page                                                          *)
(***************************************************************************)

There(p) == pages[p].open = "yes"

Fetching == [data |-> "no", error |-> "no", fetch |-> "first"]

\* The page is loaded from the link or the address; it asks for the service.
OpenPage(p) ==
    /\ gateway.open = "yes" /\ ~There(p)
    /\ \E path \in {"index", "room route"} : HandleRequest(path, TRUE) = "index"
    /\ pages' = [pages EXCEPT ![p] = [NoPage EXCEPT !.open = "yes",
                                       !.query = [q \in Queries |-> Fetching]]]
    /\ Requested(p, Queries)
    /\ UNCHANGED window

ClosePage(p) ==
    /\ There(p)
    /\ pages' = [pages EXCEPT ![p] = NoPage]
    /\ calls' = [calls EXCEPT ![p] = NoCalls]
    /\ gateway' = [gateway EXCEPT !.sockets = @ \ {p}]
    /\ UNCHANGED <<window, app, status, starter, stopper, children>>

\* useSystemStatus: isPending, isError
Pending(p) == \E q \in Queries : pages[p].query[q].data = "no" /\ pages[p].query[q].error = "no"
                                 /\ There(p)

\* refetch, which replaces a fetch that is under way and keeps the old data.
Refetch(p) ==
    /\ There(p) /\ ~Pending(p)
    /\ pages' = [pages EXCEPT ![p].query = [q \in Queries |->
                   [pages[p].query[q] EXCEPT !.fetch = "first",
                       !.error = IF pages[p].query[q].data = "no" THEN "no" ELSE @]]]
    /\ Requested(p, Queries)
    /\ UNCHANGED window

\* A query's answer; a failure is tried once more.
QueryAnswered(p, q) ==
    /\ calls[p][q] \in {"ok", "bad"}
    /\ IF calls[p][q] = "bad" /\ pages[p].query[q].fetch = "first"
       THEN /\ pages' = [pages EXCEPT ![p].query[q].fetch = "second"]
            /\ Requested(p, {q})
       ELSE /\ pages' = [pages EXCEPT ![p].query[q] =
                   IF calls[p][q] = "ok" THEN [data |-> "yes", error |-> "no", fetch |-> "idle"]
                   ELSE [@ EXCEPT !.error = "yes", !.fetch = "idle"]]
            /\ calls' = [calls EXCEPT ![p][q] = "none"]
            /\ Alone
    /\ UNCHANGED window

\* handleSubmitFeedback; the button is disabled while a report is sent.
SubmitFeedback(p) ==
    /\ There(p) /\ pages[p].form # "sending"
    /\ pages' = [pages EXCEPT ![p].form = "sending"]
    /\ Requested(p, {"feedback"})
    /\ UNCHANGED window

FeedbackAnswered(p) ==
    /\ calls[p]["feedback"] \in {"ok", "bad"}
    /\ pages' = [pages EXCEPT ![p].form = IF calls[p]["feedback"] = "ok" THEN "sent" ELSE "error"]
    /\ calls' = [calls EXCEPT ![p]["feedback"] = "none"]
    /\ UNCHANGED window /\ Alone

\* The room session opens its line (again) whenever it has none, and closes it.
OpenLine(p) ==
    /\ There(p) /\ calls[p]["room"] = "none"
    /\ Requested(p, {"room"})
    /\ UNCHANGED <<window, pages>>

LineEnds(p) ==
    /\ There(p) /\ calls[p]["room"] \in {"open", "bad"}
    /\ calls' = [calls EXCEPT ![p]["room"] = "none"]
    /\ UNCHANGED <<window, pages>> /\ Alone

-----------------------------------------------------------------------------
Relays(p) ==
    \E k \in CallKinds : BackendBegins(p, k) \/ BackendAnswers(p, k) \/ UpstreamFails(p, k)

Answered(p) == FeedbackAnswered(p) \/ \E q \in Queries : QueryAnswered(p, q)

PageNext ==
    \/ Shell(Next)
    \/ WindowLoads \/ StatusAnswered \/ IndicatorUpdates
    \/ \E p \in Pages :
          \/ OpenPage(p) \/ ClosePage(p) \/ Refetch(p) \/ SubmitFeedback(p)
          \/ OpenLine(p) \/ LineEnds(p)
          \/ Relays(p) \/ Answered(p)

PageSpec == PageInit /\ [][PageNext]_pageVars

\* As DesktopShell's FairSpec; and a backend that lives answers every request, a
\* gateway reports one that does not, and browsers take what arrives.
FairPageSpec ==
    /\ PageSpec
    /\ WF_pageVars(Shell(Launch \/ RefuseToLaunch))
    /\ WF_pageVars(Shell(BackendReady \/ LiveKitReady \/ GatewayListens \/ StartFails))
    /\ WF_pageVars(Shell(CleanedUp))
    /\ \A c \in Children : WF_pageVars(Shell(KillTimesOut(c)))
    /\ WF_pageVars(Shell(GatewayClosed))
    /\ WF_pageVars(Shell(Exit))
    /\ \A p \in Pages, k \in CallKinds :
          WF_pageVars(BackendBegins(p, k) \/ BackendAnswers(p, k) \/ UpstreamFails(p, k))
    /\ \A p \in Pages : WF_pageVars(FeedbackAnswered(p))
    /\ \A p \in Pages, q \in Queries : WF_pageVars(QueryAnswered(p, q))

-----------------------------------------------------------------------------
(***************************************************************************)
(* Properties                                                              *)
(***************************************************************************)

\* The indicator in the window is right as soon as every message has arrived,
\* although the status changes while the page loads, mounts and asks.
IndicatorIsCurrent ==
    Open /\ window.shows = "page" /\ window.asks = "no" /\ window.mail = <<>> =>
        window.shown = status

\* The backend died when the head of its answer had been passed on.
HalfAnswered(p, k) == calls[p][k] = "head" /\ ~BackendAlive

\* Nobody waits for a backend that died before it began to answer: a report that
\* is being sent is answered and a panel that is checking settles, each unless its
\* answer stopped half way, and a room line ends, so that the room session can
\* notice.
NobodyWaitsForTheDead ==
    \A p \in Pages :
       /\ pages[p].form = "sending" ~> pages[p].form # "sending" \/ HalfAnswered(p, "feedback")
       /\ Pending(p) ~> ~Pending(p) \/ \E q \in Queries : HalfAnswered(p, q)
       /\ calls[p]["room"] = "open" /\ ~BackendAlive ~> calls[p]["room"] # "open"
=============================================================================
