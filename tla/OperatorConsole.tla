----------------------------- MODULE OperatorConsole -----------------------------
(***************************************************************************)
(* The operator's page for feedback reports and the service behind it: a   *)
(* list, the details of one report, triage and export, each a request that *)
(* may be served and answered late, fail, or be aborted by the next one of *)
(* its kind, by a new token or by leaving the page.  Nothing comes of an   *)
(* aborted request, except that a triage may still be served.  Another     *)
(* operator works on the same reports, and their retention ends at any     *)
(* time.                                                                   *)
(*                                                                         *)
(* A report is its triage status, and all but "NEW" are one.  Filters only *)
(* hide rows and are left out.                                             *)
(***************************************************************************)
EXTENDS Absent, Naturals, FiniteSets

CONSTANTS
    Reports,
    Tokens,      \* what the operator may enter
    AdminToken,  \* what the service accepts
    MaxRequests  \* bound: requests under way, aborted triages included

ASSUME OperatorAssumption ==
    /\ AdminToken \in Tokens /\ None \notin Tokens \cup Reports
    /\ MaxRequests \in Nat \ {0}

VARIABLES
    page,      \* the state of OperatorDashboardPage
    requests,  \* its requests, current or aborted
    stored     \* triage status of each report that the store has

operatorVars == <<page, requests, stored>>

Statuses == {"NEW", "TRIAGED"}

NoReports == [r \in Reports |-> "none"]

NoDetail == [report |-> None, status |-> "none", by |-> None]

NewPage(token) ==
    [token |-> token, rows |-> NoReports, rowsBy |-> None, load |-> "idle",
     selected |-> None, detail |-> NoDetail, detailStatus |-> "idle",
     action |-> None, exporting |-> "no"]

ConsoleInit ==
    /\ page = NewPage(None)
    /\ requests = {}
    /\ stored = NoReports

-----------------------------------------------------------------------------
(***************************************************************************)
(* Requests                                                                *)
(***************************************************************************)

\* selected is what the page had selected when the request was made.
Request(kind, report) ==
    [kind |-> kind, token |-> page.token, report |-> report,
     selected |-> page.selected, is |-> "current",
     answer |-> [is |-> "none", rows |-> NoReports]]

\* An aborted request is gone, a triage that was not answered may be served yet.
Aborted(kinds) ==
    {q \in requests : q.kind \notin kinds}
        \cup {[q EXCEPT !.is = "aborted", !.selected = None] :
                q \in {p \in requests : "triage" \in kinds /\ p.kind = "triage"
                                       /\ p.answer.is = "none"}}

\* A request aborts the one of its kind before it.
Sent(q) ==
    /\ Cardinality(requests) < MaxRequests
    /\ requests' = Aborted({q.kind}) \cup {q}

Kinds == {"list", "detail", "triage", "export"}

Current(kind) == {q \in requests : q.kind = kind /\ q.is = "current"}

-----------------------------------------------------------------------------
(***************************************************************************)
(* The operator                                                            *)
(***************************************************************************)

SubmitToken_KeepsDetail(token) ==
    /\ Cardinality(requests) < MaxRequests
    /\ LET fresh == NewPage(token)
           list == [Request("list", None) EXCEPT !.token = token, !.selected = None]
       IN  IF token = None
           THEN page' = fresh /\ requests' = Aborted(Kinds \ {"detail"})
           ELSE /\ page' = [fresh EXCEPT !.load = "loading"]
                /\ requests' = Aborted(Kinds \ {"detail"}) \cup {list}
    /\ UNCHANGED stored

SubmitToken_KeepsAction(token) ==
    /\ Cardinality(requests) < MaxRequests
    /\ LET fresh == [NewPage(token) EXCEPT !.action = page.action]
           list == [Request("list", None) EXCEPT !.token = token, !.selected = None]
       IN  IF token = None
           THEN page' = fresh /\ requests' = Aborted(Kinds)
           ELSE /\ page' = [fresh EXCEPT !.load = "loading"]
                /\ requests' = Aborted(Kinds) \cup {list}
    /\ UNCHANGED stored

\* handleTokenSubmit, and handleTokenReset without a token
SubmitToken(token) ==
    /\ Cardinality(requests) < MaxRequests
    /\ LET fresh == NewPage(token)
           list == [Request("list", None) EXCEPT !.token = token, !.selected = None]
       IN  IF token = None
           THEN page' = fresh /\ requests' = Aborted(Kinds)
           ELSE /\ page' = [fresh EXCEPT !.load = "loading"]
                /\ requests' = Aborted(Kinds) \cup {list}
    /\ UNCHANGED stored

\* The page is left and entered again with the token it has stored.
Reenter ==
    /\ page' = NewPage(page.token)
    /\ requests' = Aborted(Kinds)
    /\ UNCHANGED stored

\* loadReports from its button
Refresh ==
    /\ page.token # None /\ page.load # "loading"
    /\ Sent(Request("list", None))
    /\ page' = [page EXCEPT !.load = "loading"]
    /\ UNCHANGED stored

\* handleOpenReport, from a row
OpenReport(r) ==
    /\ page.token # None /\ page.rows[r] # "none"
    /\ Sent(Request("detail", r))
    /\ page' = [page EXCEPT !.selected = r, !.detail = NoDetail, !.detailStatus = "loading"]
    /\ UNCHANGED stored

\* handleTriage, from a row or from the details
Triage(r) ==
    /\ page.token # None /\ page.action = None
    /\ page.rows[r] # "none" \/ page.detail.report = r
    /\ Sent(Request("triage", r))
    /\ page' = [page EXCEPT !.action = r]
    /\ UNCHANGED stored

\* handleExport
Export ==
    /\ page.token # None /\ page.exporting = "no"
    /\ Sent(Request("export", None))
    /\ page' = [page EXCEPT !.exporting = "yes"]
    /\ UNCHANGED stored

-----------------------------------------------------------------------------
(***************************************************************************)
(* The service                                                             *)
(***************************************************************************)

Answer(q, saved) ==
    [r \in Reports |-> IF q.kind = "list" \/ q.report = r THEN saved[r] ELSE "none"]

\* FeedbackController, FeedbackService and the store: 403, 404 or what is there.
\* The answer to what has been done may be lost all the same.
Serve(q) ==
    /\ q.answer.is = "none"
    /\ LET found == q.token = AdminToken
                      /\ (q.kind \in {"detail", "triage"} => stored[q.report] # "none")
           saved == IF found /\ q.kind = "triage" THEN [stored EXCEPT ![q.report] = "TRIAGED"]
                    ELSE stored
       IN  /\ stored' = saved
           /\ \E is \in IF found THEN {"ok", "failed"} ELSE {"failed"} :
                 requests' = (requests \ {q}) \cup
                    {[q EXCEPT !.answer =
                        [is |-> is, rows |-> IF is = "ok" THEN Answer(q, saved) ELSE NoReports]]}
    /\ UNCHANGED page

\* The request does not get there.
Fail(q) ==
    /\ q.answer.is = "none"
    /\ requests' = (requests \ {q}) \cup {[q EXCEPT !.answer.is = "failed"]}
    /\ UNCHANGED <<page, stored>>

\* save of a new report, by a participant
SaveReport(r) ==
    /\ stored[r] = "none"
    /\ stored' = [stored EXCEPT ![r] = "NEW"]
    /\ UNCHANGED <<page, requests>>

\* triage by another operator
OtherTriages(r) ==
    /\ stored[r] # "none"
    /\ stored' = [stored EXCEPT ![r] = "TRIAGED"]
    /\ UNCHANGED <<page, requests>>

RetentionEnds(r) ==
    /\ stored[r] # "none"
    /\ stored' = [stored EXCEPT ![r] = "none"]
    /\ UNCHANGED <<page, requests>>

-----------------------------------------------------------------------------
(***************************************************************************)
(* Answers                                                                 *)
(***************************************************************************)

\* An answer is taken from the requests; that to an aborted one is ignored.
Taken(q, kind) ==
    /\ q.kind = kind /\ q.answer.is # "none" /\ q.is = "current"
    /\ requests' = requests \ {q}
    /\ UNCHANGED stored

Ignore(q) ==
    /\ q.answer.is # "none" /\ q.is = "aborted"
    /\ requests' = requests \ {q}
    /\ UNCHANGED <<page, stored>>

ListAnswered(q) ==
    /\ Taken(q, "list")
    /\ page' = IF q.answer.is = "failed" THEN [page EXCEPT !.load = "error"]
               ELSE [page EXCEPT !.rows = q.answer.rows, !.rowsBy = q.token, !.load = "ready"]

Detail(q) == [report |-> q.report, status |-> q.answer.rows[q.report], by |-> q.token]

DetailAnswered(q) ==
    /\ Taken(q, "detail")
    /\ page' = IF q.answer.is = "failed" THEN [page EXCEPT !.detailStatus = "error"]
               ELSE [page EXCEPT !.detail = Detail(q), !.detailStatus = "ready"]

\* What was selected at the click decides whether the details are replaced.
TriageAnswered(q) ==
    /\ Taken(q, "triage")
    /\ LET done == [page EXCEPT !.action = None]
           r == q.report
           listed == IF page.rows[r] = "none" THEN done
                     ELSE [done EXCEPT !.rows[r] = q.answer.rows[r]]
       IN  page' = IF q.answer.is = "failed" THEN done
                   ELSE IF q.selected # r THEN listed
                   ELSE [listed EXCEPT !.detail = Detail(q), !.detailStatus = "ready"]

ExportAnswered(q) ==
    /\ Taken(q, "export")
    /\ page' = [page EXCEPT !.exporting = "no"]

-----------------------------------------------------------------------------
ConsoleNext ==
    \/ \E token \in Tokens \cup {None} : SubmitToken(token)
    \/ Reenter \/ Refresh \/ Export
    \/ \E r \in Reports : OpenReport(r) \/ Triage(r)
    \/ \E q \in requests : Serve(q) \/ Fail(q) \/ Ignore(q)
    \/ \E q \in requests : ListAnswered(q) \/ DetailAnswered(q)
    \/ \E q \in requests : TriageAnswered(q) \/ ExportAnswered(q)
    \/ \E r \in Reports : SaveReport(r) \/ OtherTriages(r) \/ RetentionEnds(r)

ConsoleSpec == ConsoleInit /\ [][ConsoleNext]_operatorVars

-----------------------------------------------------------------------------
(***************************************************************************)
(* Properties                                                              *)
(***************************************************************************)

\* The types of the variables.
ConsoleTypes ==
    /\ page \in [token : Tokens \cup {None}, rows : [Reports -> Statuses \cup {"none"}],
                 rowsBy : Tokens \cup {None}, load : {"idle", "loading", "ready", "error"},
                 selected : Reports \cup {None},
                 detail : [report : Reports \cup {None}, status : Statuses \cup {"none"},
                           by : Tokens \cup {None}],
                 detailStatus : {"idle", "loading", "ready", "error"},
                 action : Reports \cup {None}, exporting : {"no", "yes"}]
    /\ \A q \in requests : q.kind \in Kinds /\ q.is \in {"current", "aborted"}
    /\ stored \in [Reports -> Statuses \cup {"none"}]

\* What the page shows was answered to the token it has: nothing that was asked
\* with another one appears after the token is replaced or reset
\* (docs/WT-609_OPERATOR_DASHBOARD.md).
ShownBelongsToToken ==
    /\ page.rowsBy \in {None, page.token}
    /\ page.detail.by \in {None, page.token}

\* A page that is busy waits for an answer that will end it: whatever aborts a
\* request, no button stays disabled for one that nobody answers any more.
BusyMeansPending ==
    /\ page.load = "loading" <=> Current("list") # {}
    /\ page.detailStatus = "loading" => Current("detail") # {}
    /\ {q.report : q \in Current("triage")} = {page.action} \ {None}
    /\ page.exporting = "yes" <=> Current("export") # {}
=============================================================================
