-------------------------- MODULE DesktopConsoleProofs --------------------------
(***************************************************************************)
(* Theorems about the two programs beside the room page: the desktop       *)
(* application (DesktopShell, DesktopPage), for any number of guests and   *)
(* pages, and the operator's page (OperatorConsole), for any number of     *)
(* reports, tokens and requests under way.                                 *)
(*                                                                         *)
(* The application: a child that is up is known to the supervisor, and one *)
(* that was told to stop is waited for by whoever told it; so a stop that  *)
(* has waited leaves nothing.                                              *)
(*                                                                         *)
(* The operator's page: of each kind at most one request is current, and   *)
(* it was made with the page's token; so the only answer that is taken is  *)
(* the one the page waits for.                                             *)
(***************************************************************************)
EXTENDS DesktopPage, OperatorConsole, TLAPS

-----------------------------------------------------------------------------
(***************************************************************************)
(* The desktop application: the inductive invariant                        *)
(***************************************************************************)

\* A child that is up is known to the supervisor; one that was told to stop is
\* known no more, but somebody waits for its end.
ChildrenKnown ==
    \A c \in Children :
       /\ children.is[c] = "up" => c \in children.tracked
       /\ c \in children.tracked => children.is[c] \in {"up", "dead"}
       /\ children.is[c] = "terminating" => c \in children.failing \cup children.quitting

\* Before the launch there are no children; the catch of start leaves none that
\* the supervisor knows and is the only one to wait in failing; the status is
\* that of a stopped supervisor only before the launch and after the exit.
StartKnown ==
    /\ starter \in {"checking", "refused"} =>
          /\ children.tracked = {} /\ children.quitting = {}
          /\ \A c \in Children : children.is[c] = "none"
    /\ starter \in {"cleanup", "failed"} => children.tracked = {}
    /\ starter # "cleanup" => children.failing = {}
    /\ Open /\ status = "stopped" => starter \in {"checking", "refused"}

\* A quit begins the stop.  One that is not hasty came when the start was settled,
\* so no child is spawned after its stop has told them all to end; and it is over
\* when they have.
StopKnown ==
    /\ Open => (stopper = "none" <=> app.quit = "no")
    /\ app.quit = "no" => Open
    /\ stopper # "children" => children.quitting = {}
    /\ app.quit = "asked" => starter \in {"refused", "done", "failed"}
    /\ app.quit = "asked" /\ stopper = "children" =>
          \A c \in Children : children.is[c] # "up"
    /\ app.quit = "asked" /\ ~Open => stopper = "children" /\ children.quitting = {}

\* The gateway ends with the application.
GatewayEnds == ~Open => gateway.open = "no" /\ gateway.sockets = {}

ShellInv == TypeOK /\ ChildrenKnown /\ StartKnown /\ StopKnown /\ GatewayEnds

\* Nothing runs before the launch.
LEMMA ShellInitially == Init => ShellInv
BY DEF Init, ShellInv, TypeOK, ChildrenKnown, StartKnown, StopKnown, GatewayEnds, Open, Children

\* What the invariant is for.
LEMMA ShellInvSuffices == ShellInv => NothingLeftRunning /\ FailedStartLeavesNothing
BY DEF ShellInv, TypeOK, ChildrenKnown, StartKnown, StopKnown, Open,
       NothingLeftRunning, FailedStartLeavesNothing

-----------------------------------------------------------------------------
(***************************************************************************)
(* The desktop application: its steps                                      *)
(***************************************************************************)

\* A child that is spawned is known.
LEMMA SpawnStep == ShellInv /\ (Launch \/ BackendReady) => ShellInv'
<1> SUFFICES ASSUME ShellInv, Launch \/ BackendReady PROVE ShellInv'
  OBVIOUS
<1> USE DEF ShellInv, Children
<1>1. PICK c \in Children : children' = Spawned(c)
  BY DEF Launch, BackendReady
<1>2. /\ Open /\ UNCHANGED <<app, stopper, gateway>>
      /\ starter \in {"checking", "backend"} /\ starter' \in {"backend", "livekit"}
      /\ status' \in {"starting-backend", "starting-livekit"}
  BY DEF Launch, BackendReady
<1>3. /\ children'.is = [children.is EXCEPT ![c] = "up"]
      /\ children'.tracked = children.tracked \cup {c}
      /\ children'.failing = children.failing /\ children'.quitting = children.quitting
  BY <1>1 DEF Spawned, TypeOK
<1>4. TypeOK'
  BY <1>1, <1>2 DEF TypeOK, Spawned
<1>5. ChildrenKnown'
  BY <1>3 DEF ChildrenKnown, TypeOK
<1>6. StartKnown' /\ StopKnown' /\ GatewayEnds'
  BY <1>2, <1>3 DEF StartKnown, StopKnown, GatewayEnds, Open
<1> QED BY <1>4, <1>5, <1>6

\* The other steps of a start touch no child.
LEMMA StartStep ==
  ShellInv /\ (RefuseToLaunch \/ LiveKitReady \/ GatewayListens \/ CleanedUp) => ShellInv'
<1> SUFFICES ASSUME ShellInv, RefuseToLaunch \/ LiveKitReady \/ GatewayListens \/ CleanedUp
             PROVE  ShellInv'
  OBVIOUS
<1>1. children' = children /\ app' = app /\ stopper' = stopper /\ Open /\ Open'
  BY DEF RefuseToLaunch, LiveKitReady, GatewayListens, CleanedUp, Open
<1>2. TypeOK' /\ ChildrenKnown' /\ StopKnown' /\ GatewayEnds'
  BY <1>1 DEF ShellInv, TypeOK, ChildrenKnown, StopKnown, GatewayEnds,
              RefuseToLaunch, LiveKitReady, GatewayListens, CleanedUp
<1>3. StartKnown'
  BY <1>1 DEF ShellInv, TypeOK, StartKnown, RefuseToLaunch, LiveKitReady, GatewayListens, CleanedUp
<1> QED BY <1>2, <1>3 DEF ShellInv

\* The state of the children when c, or nobody, has died.
Losses(c) == {children, Died(c)}

\* A child that dies is neither up nor waited for, whoever hears of it first.
LEMMA DiedShape ==
  ASSUME ShellInv, NEW c \in Children, NEW was \in Losses(c)
  PROVE  /\ was \in [is : [Children -> {"none", "up", "terminating", "dead"}],
                     tracked : SUBSET Children, failing : SUBSET Children,
                     quitting : SUBSET Children]
         /\ was.tracked = children.tracked
         /\ was.failing \subseteq children.failing
         /\ was.quitting \subseteq children.quitting
         /\ \A d \in Children : was.is[d] \in {children.is[d], "dead"}
         /\ \A d \in Children :
               /\ was.is[d] = "up" => d \in was.tracked
               /\ d \in was.tracked => was.is[d] \in {"up", "dead"}
               /\ was.is[d] = "terminating" => d \in was.failing \cup was.quitting
<1>1. CASE was = children
  BY <1>1 DEF ShellInv, TypeOK, ChildrenKnown
<1>2. CASE was = Died(c)
  <2>1. /\ was.is = [children.is EXCEPT ![c] = "dead"] /\ was.tracked = children.tracked
        /\ was.failing = children.failing \ {c} /\ was.quitting = children.quitting \ {c}
        /\ was = [is |-> was.is, tracked |-> was.tracked, failing |-> was.failing,
                  quitting |-> was.quitting]
    BY <1>2 DEF ShellInv, TypeOK, Died
  <2>2. \A d \in Children : was.is[d] = IF d = c THEN "dead" ELSE children.is[d]
    BY <2>1 DEF ShellInv, TypeOK
  <2>3. /\ was.is \in [Children -> {"none", "up", "terminating", "dead"}]
        /\ was.tracked \subseteq Children /\ was.failing \subseteq Children
        /\ was.quitting \subseteq Children
    BY <2>1 DEF ShellInv, TypeOK
  <2>4. was \in [is : [Children -> {"none", "up", "terminating", "dead"}],
                tracked : SUBSET Children, failing : SUBSET Children, quitting : SUBSET Children]
    BY <2>1, <2>3
  <2> QED BY <2>1, <2>2, <2>4 DEF ShellInv, ChildrenKnown
<1> QED BY <1>1, <1>2 DEF Losses

\* The catch of start tells every child that it knows to stop, and waits for it.
LEMMA CleanupStep ==
  ASSUME ShellInv, NEW c \in Children, NEW was \in Losses(c), Cleanup(was),
         Open, starter \in {"backend", "livekit", "gateway"}, UNCHANGED <<app, stopper, gateway>>
  PROVE  ShellInv'
<1> DEFINE stopped == {d \in was.tracked : was.is[d] # "dead"}
           is == [d \in Children |-> IF d \in stopped THEN "terminating" ELSE was.is[d]]
<1>1. /\ status' = "stopping" /\ starter' = "cleanup"
      /\ children' = [was EXCEPT !.failing = stopped, !.tracked = {}, !.is = is]
  BY DEF ShellInv, StartKnown, Cleanup
<1>2. /\ children'.tracked = {} /\ children'.failing = stopped
      /\ children'.quitting = was.quitting /\ children'.is = is
  BY <1>1, DiedShape
<1>3. \A d \in Children : is[d] # "up"
  BY DiedShape
<1>4. TypeOK'
  <2>1. stopped \subseteq Children /\ is \in [Children -> {"none", "up", "terminating", "dead"}]
    BY DiedShape
  <2>2. children' \in [is : [Children -> {"none", "up", "terminating", "dead"}],
                      tracked : SUBSET Children, failing : SUBSET Children,
                      quitting : SUBSET Children]
    <3>1. children' = [is |-> is, tracked |-> {}, failing |-> stopped, quitting |-> was.quitting]
      BY <1>1, DiedShape
    <3>2. was.quitting \subseteq Children
      BY DiedShape
    <3> HIDE DEF stopped, is
    <3> QED BY <2>1, <3>1, <3>2
  <2> QED BY <1>1, <2>2 DEF ShellInv, TypeOK
<1>5. ChildrenKnown'
  <2>1. was.failing = {}
    BY DiedShape DEF ShellInv, StartKnown
  <2>2. \A d \in Children : is[d] = "terminating" => d \in stopped \cup was.quitting
    BY <2>1, DiedShape
  <2> QED BY <1>2, <1>3, <2>2 DEF ChildrenKnown
<1>6. StartKnown' /\ StopKnown' /\ GatewayEnds'
  BY <1>1, <1>2, <1>3, DiedShape DEF ShellInv, StartKnown, StopKnown, GatewayEnds, Open
<1> QED BY <1>4, <1>5, <1>6 DEF ShellInv

\* A start that fails cleans up.
LEMMA StartFailsStep == ShellInv /\ StartFails => ShellInv'
<1>1. children \in Losses("backend") /\ "backend" \in Children
  BY DEF Losses, Children
<1> QED BY <1>1, CleanupStep DEF StartFails

\* A child that ends while no start waits for it.
LEMMA DiesStep ==
  ASSUME ShellInv, NEW c \in Children, Open, children' = Died(c), starter' = starter,
         starter \notin {"checking", "refused"}, status' \in {status, "error"},
         UNCHANGED <<app, stopper, gateway>>
  PROVE  ShellInv'
<1>1. children' \in Losses(c)
  BY DEF Losses
<1>2. TypeOK'
  BY <1>1, DiedShape DEF ShellInv, TypeOK
<1>3. ChildrenKnown'
  BY <1>1, DiedShape DEF ChildrenKnown
<1>4. StartKnown'
  BY <1>1, DiedShape DEF ShellInv, StartKnown, Open
<1>5. StopKnown' /\ GatewayEnds'
  BY <1>1, DiedShape DEF ShellInv, StopKnown, GatewayEnds, Open
<1> QED BY <1>2, <1>3, <1>4, <1>5 DEF ShellInv

\* A child that ends, by itself or when the kill timer has fired.
LEMMA ChildEndsStep ==
  ASSUME ShellInv, NEW c \in Children, ChildDies(c) \/ KillTimesOut(c)
  PROVE  ShellInv'
<1>1. /\ Open /\ starter \notin {"checking", "refused"} /\ Died(c) \in Losses(c)
      /\ UNCHANGED <<app, stopper, gateway>>
  BY DEF ShellInv, StartKnown, ChildDies, KillTimesOut, Losses
<1>2. CASE starter = c
  <2>1. Cleanup(Died(c))
    BY <1>2 DEF ChildDies, KillTimesOut
  <2> QED BY <1>1, <1>2, <2>1, CleanupStep DEF Children
<1>3. CASE starter # c
  <2>1. /\ children' = Died(c) /\ starter' = starter /\ status' \in {status, "error"}
    BY <1>3 DEF ChildDies, KillTimesOut
  <2> QED BY <1>1, <2>1, DiesStep
<1> QED BY <1>2, <1>3

\* Guests come and go while the application is there.
LEMMA GuestStep ==
  ASSUME ShellInv, NEW g \in Guests, GuestConnects(g) \/ GuestLeaves(g)
  PROVE  ShellInv'
BY DEF ShellInv, TypeOK, ChildrenKnown, StartKnown, StopKnown, GatewayEnds, Open,
       GuestConnects, GuestLeaves

\* The stop of a quit tells all children it knows to end, and knows them no more.
LEMMA StopChildrenShape ==
  ASSUME ShellInv, children.quitting = {}, children' = StopChildren
  PROVE  /\ children' \in [is : [Children -> {"none", "up", "terminating", "dead"}],
                          tracked : SUBSET Children, failing : SUBSET Children,
                          quitting : SUBSET Children]
         /\ ChildrenKnown'
         /\ children'.tracked = {} /\ children'.failing = children.failing
         /\ \A c \in Children : children'.is[c] # "up"
         /\ children.tracked = {} => children'.quitting = {} /\ children'.is = children.is
<1>1. /\ Alive \subseteq Children /\ \A c \in Children : children.is[c] = "up" => c \in Alive
  BY DEF ShellInv, TypeOK, ChildrenKnown, Alive
<1>2. /\ Terminated \in [Children -> {"none", "up", "terminating", "dead"}]
      /\ \A c \in Children : Terminated[c] = IF c \in Alive THEN "terminating" ELSE children.is[c]
  BY <1>1 DEF ShellInv, TypeOK, Terminated
<1>3. children' = [is |-> Terminated, tracked |-> {}, failing |-> children.failing,
                   quitting |-> Alive]
  BY DEF ShellInv, TypeOK, StopChildren
<1>4. ChildrenKnown'
  BY <1>1, <1>2, <1>3 DEF ShellInv, ChildrenKnown
<1>5. children.tracked = {} => Alive = {} /\ Terminated = children.is
  BY <1>2 DEF ShellInv, TypeOK, Alive
<1>6. children' \in [is : [Children -> {"none", "up", "terminating", "dead"}],
                    tracked : SUBSET Children, failing : SUBSET Children,
                    quitting : SUBSET Children]
  BY <1>1, <1>2, <1>3 DEF ShellInv, TypeOK
<1> QED BY <1>1, <1>2, <1>3, <1>4, <1>5, <1>6

\* A quit: at once the supervisor stops the children, or closes the gateway first.
LEMMA QuitStep == ShellInv /\ Quit => ShellInv'
<1> SUFFICES ASSUME ShellInv, Quit PROVE ShellInv'
  OBVIOUS
<1>1. /\ Open /\ Open' /\ app.quit = "no" /\ app'.quit = Haste /\ starter' = starter
      /\ stopper = "none" /\ children.quitting = {}
      /\ app' \in [phase : {"open", "gone"}, quit : {"no", "asked", "hasty"}]
  BY DEF ShellInv, TypeOK, StopKnown, Open, Quit, Haste
<1>2. CASE status = "stopped"
  <2>1. stopper' = "children" /\ UNCHANGED <<status, children, gateway>>
    BY <1>2 DEF Quit
  <2> QED BY <1>1, <1>2, <2>1 DEF ShellInv, TypeOK, ChildrenKnown, StartKnown, StopKnown,
                                  GatewayEnds, Haste, Open
<1>3. CASE status # "stopped" /\ gateway.open = "yes"
  <2>1. /\ stopper' = "gateway" /\ status' = "stopping" /\ children' = children
        /\ gateway' = [open |-> "closing", sockets |-> {}]
    BY <1>3 DEF Quit
  <2> QED BY <1>1, <2>1 DEF ShellInv, TypeOK, ChildrenKnown, StartKnown, StopKnown,
                            GatewayEnds, Haste, Open
<1>4. CASE status # "stopped" /\ gateway.open # "yes"
  <2>1. /\ stopper' = "children" /\ status' = "stopping" /\ children' = StopChildren
        /\ gateway' = gateway
    BY <1>4 DEF Quit
  <2>2. TypeOK' /\ ChildrenKnown'
    BY <1>1, <2>1, StopChildrenShape DEF ShellInv, TypeOK
  <2>3. StartKnown' /\ StopKnown' /\ GatewayEnds'
    BY <1>1, <2>1, StopChildrenShape DEF ShellInv, StartKnown, StopKnown, GatewayEnds, Haste, Open
  <2> QED BY <2>2, <2>3 DEF ShellInv
<1> QED BY <1>2, <1>3, <1>4

\* The gateway has closed: now the children.
LEMMA GatewayClosedStep == ShellInv /\ GatewayClosed => ShellInv'
<1> SUFFICES ASSUME ShellInv, GatewayClosed PROVE ShellInv'
  OBVIOUS
<1>1. /\ Open /\ stopper = "gateway" /\ children.quitting = {} /\ stopper' = "children"
      /\ children' = StopChildren /\ gateway' = [gateway EXCEPT !.open = "no"]
      /\ UNCHANGED <<app, status, starter>>
  BY DEF ShellInv, StopKnown, GatewayClosed
<1>2. TypeOK' /\ ChildrenKnown'
  BY <1>1, StopChildrenShape DEF ShellInv, TypeOK
<1>3. StartKnown' /\ StopKnown' /\ GatewayEnds'
  BY <1>1, StopChildrenShape DEF ShellInv, StartKnown, StopKnown, GatewayEnds, Open
<1> QED BY <1>2, <1>3 DEF ShellInv

\* The application goes when its stop is done, or in haste.
LEMMA ExitStep == ShellInv /\ (Exit \/ ExitInHaste) => ShellInv'
<1> SUFFICES ASSUME ShellInv, Exit \/ ExitInHaste PROVE ShellInv'
  OBVIOUS
<1>1. TypeOK'
  <2>1. app' \in [phase : {"open", "gone"}, quit : {"no", "asked", "hasty"}]
    BY DEF ShellInv, TypeOK, Exit, ExitInHaste, Exited
  <2>2. gateway' \in [open : {"yes", "closing", "no"}, sockets : SUBSET Guests]
    BY DEF Exit, ExitInHaste
  <2>3. status' \in {status, "stopped"} /\ UNCHANGED <<starter, stopper, children>>
    BY DEF Exit, ExitInHaste
  <2> QED BY <2>1, <2>2, <2>3 DEF ShellInv, TypeOK
<1>2. ~Open' /\ gateway' = [open |-> "no", sockets |-> {}]
  BY DEF ShellInv, TypeOK, Exit, ExitInHaste, Exited, Open
<1>3. StartKnown' /\ StopKnown'
  BY <1>2 DEF ShellInv, TypeOK, StartKnown, StopKnown, Exit, ExitInHaste, Exited, Open
<1>4. GatewayEnds' /\ ChildrenKnown'
  BY <1>2 DEF ShellInv, GatewayEnds, ChildrenKnown, Exit, ExitInHaste
<1> QED BY <1>1, <1>3, <1>4 DEF ShellInv

\* Every step keeps the invariant.
LEMMA ShellStep == ShellInv /\ [Next]_desktopVars => ShellInv'
<1> SUFFICES ASSUME ShellInv, [Next]_desktopVars PROVE ShellInv'
  OBVIOUS
<1>1. CASE UNCHANGED desktopVars
  BY <1>1 DEF desktopVars, ShellInv, TypeOK, ChildrenKnown, StartKnown, StopKnown, GatewayEnds, Open
<1>2. CASE Launch \/ BackendReady
  BY <1>2, SpawnStep
<1>3. CASE RefuseToLaunch \/ LiveKitReady \/ GatewayListens \/ CleanedUp
  BY <1>3, StartStep
<1>4. CASE StartFails
  BY <1>4, StartFailsStep
<1>5. CASE \E c \in Children : ChildDies(c) \/ KillTimesOut(c)
  BY <1>5, ChildEndsStep
<1>6. CASE \E g \in Guests : GuestConnects(g) \/ GuestLeaves(g)
  BY <1>6, GuestStep
<1>7. CASE Quit \/ GatewayClosed
  BY <1>7, QuitStep, GatewayClosedStep
<1>8. CASE Exit \/ ExitInHaste
  BY <1>8, ExitStep
<1> QED BY <1>1, <1>2, <1>3, <1>4, <1>5, <1>6, <1>7, <1>8 DEF Next

\* ShellInv holds in every state of the shell.
LEMMA ShellInvariant == Spec => []ShellInv
<1> QED BY ShellInitially, ShellStep, PTL DEF Spec

\* The application, its supervisor, its children and its gateway have their types.
THEOREM ShellTypeCorrect == Spec => []TypeOK
<1>1. ShellInv => TypeOK
  BY DEF ShellInv
<1> QED BY <1>1, ShellInvariant, PTL

\* A quit that was waited for leaves no process, however the start, the deaths of
\* children and the kill timers met it (DesktopSupervisor.stop, before-quit).
THEOREM NothingLeftTheorem == Spec => []NothingLeftRunning
<1> QED BY ShellInvariant, ShellInvSuffices, PTL

\* A start that failed has stopped what it had started (the catch of start).
THEOREM FailedStartTheorem == Spec => []FailedStartLeavesNothing
<1> QED BY ShellInvariant, ShellInvSuffices, PTL

-----------------------------------------------------------------------------
(***************************************************************************)
(* The window and the pages: their steps are steps of the application      *)
(***************************************************************************)

\* Requests of a page keep the gateway's connections; they are a guest's doing.
LEMMA RequestedIsShell ==
  ASSUME ShellInv, NEW p \in Pages, NEW K, Requested(p, K)
  PROVE  [Next]_desktopVars
<1>1. CASE gateway.open = "yes"
  <2>1. GuestConnects(p) /\ p \in Guests
    BY <1>1, PageAssumption DEF Requested, GuestConnects, ShellInv, GatewayEnds
  <2> QED BY <2>1 DEF Next
<1>2. CASE gateway.open # "yes"
  BY <1>2 DEF Requested, desktopVars
<1> QED BY <1>1, <1>2

\* A page that is closed takes its connection along, if it has one.
LEMMA ClosePageIsShell ==
  ASSUME ShellInv, NEW p \in Pages, ClosePage(p)
  PROVE  [Next]_desktopVars
<1>1. CASE p \in gateway.sockets
  <2>1. GuestLeaves(p) /\ p \in Guests
    BY <1>1, PageAssumption DEF ClosePage, GuestLeaves, ShellInv, GatewayEnds
  <2> QED BY <2>1 DEF Next
<1>2. CASE p \notin gateway.sockets
  <2>1. gateway' = gateway
    BY <1>2 DEF ClosePage, ShellInv, TypeOK
  <2> QED BY <2>1 DEF ClosePage, desktopVars
<1> QED BY <1>1, <1>2

\* What the window and the pages do is a step of the application or leaves it alone.
LEMMA PageStepIsShell == ShellInv /\ [PageNext]_pageVars => [Next]_desktopVars
<1> SUFFICES ASSUME ShellInv, [PageNext]_pageVars PROVE [Next]_desktopVars
  OBVIOUS
<1>1. CASE UNCHANGED pageVars
  BY <1>1 DEF pageVars, desktopVars
<1>2. CASE Shell(Next)
  BY <1>2 DEF Shell
<1>3. CASE WindowLoads \/ StatusAnswered \/ IndicatorUpdates
  BY <1>3 DEF WindowLoads, StatusAnswered, IndicatorUpdates, Alone
<1>4. ASSUME NEW p \in Pages, OpenPage(p) \/ Refetch(p) \/ SubmitFeedback(p) \/ OpenLine(p)
      PROVE  [Next]_desktopVars
  <2>1. \E K : Requested(p, K)
    BY <1>4 DEF OpenPage, Refetch, SubmitFeedback, OpenLine
  <2> QED BY <2>1, RequestedIsShell
<1>5. ASSUME NEW p \in Pages, ClosePage(p) PROVE [Next]_desktopVars
  BY <1>5, ClosePageIsShell
<1>6. ASSUME NEW p \in Pages, LineEnds(p) \/ Relays(p) \/ FeedbackAnswered(p)
      PROVE  [Next]_desktopVars
  BY <1>6 DEF LineEnds, Relays, BackendBegins, BackendAnswers, UpstreamFails, FeedbackAnswered,
              Alone
<1>7. ASSUME NEW p \in Pages, NEW q \in Queries, QueryAnswered(p, q)
      PROVE  [Next]_desktopVars
  <2>1. Requested(p, {q}) \/ Alone
    BY <1>7 DEF QueryAnswered
  <2> QED BY <2>1, RequestedIsShell DEF Alone
<1> QED BY <1>1, <1>2, <1>3, <1>4, <1>5, <1>6, <1>7 DEF PageNext, Answered

\* The invariant of the application holds for what people see of it.
LEMMA PageShellInvariant == PageSpec => []ShellInv
<1>1. PageInit => ShellInv
  BY ShellInitially DEF PageInit
<1>2. ShellInv /\ [PageNext]_pageVars => ShellInv'
  BY PageStepIsShell, ShellStep
<1> QED BY <1>1, <1>2, PTL DEF PageSpec

\* Every behaviour of the window and the pages is one of the application: they add
\* nothing to it (preload.ts, gateway.ts).
THEOREM PageIsShell == PageSpec => Spec
<1>1. PageInit => Init
  BY DEF PageInit
<1> QED BY <1>1, PageShellInvariant, PageStepIsShell, PTL DEF PageSpec, Spec

\* So no page or window keeps a process alive.
THEOREM PageKeepsShell == PageSpec => [](NothingLeftRunning /\ FailedStartLeavesNothing)
<1> QED BY PageShellInvariant, ShellInvSuffices, PTL

-----------------------------------------------------------------------------
(***************************************************************************)
(* The indicator in the window                                             *)
(***************************************************************************)

SupervisorStatus == {"stopped", "starting-backend", "starting-livekit", "starting-gateway",
                     "running", "error", "stopping"}

WindowTypes ==
    window \in [shows : {"starting", "loading", "page", "error"}, asks : {"yes", "no"},
                mail : Seq(SupervisorStatus), shown : SupervisorStatus \cup {None}]

\* Once the answer to its question is on the way, the last word that the indicator
\* has or will have is the status.
Told ==
    window.shows = "page" /\ window.asks = "no" =>
        IF window.mail = <<>> THEN window.shown = status
        ELSE window.mail[Len(window.mail)] = status

IndicatorInv == ShellInv /\ WindowTypes /\ Told

\* At first the window shows no page.
LEMMA IndicatorInitially == PageInit => IndicatorInv
BY ShellInitially DEF PageInit, IndicatorInv, WindowTypes, Told

\* A status that is sent to the window is its last word.
LEMMA MailShape ==
  ASSUME WindowTypes, NEW s \in SupervisorStatus
  PROVE  /\ Append(window.mail, s) \in Seq(SupervisorStatus)
         /\ Append(window.mail, s) # <<>>
         /\ Append(window.mail, s)[Len(Append(window.mail, s))] = s
BY DEF WindowTypes

\* Taking the first message leaves the last one, or was the last one.
LEMMA HeadTailShape ==
  ASSUME NEW S, NEW m \in Seq(S), m # <<>>
  PROVE  /\ Head(m) \in S /\ Tail(m) \in Seq(S)
         /\ IF Tail(m) = <<>> THEN Head(m) = m[Len(m)]
            ELSE Tail(m)[Len(Tail(m))] = m[Len(m)]
<1>1. /\ Len(m) \in Nat \ {0} /\ Head(m) = m[1] /\ Tail(m) \in Seq(S)
      /\ Len(Tail(m)) = Len(m) - 1
      /\ \A i \in 1 .. Len(m) - 1 : Tail(m)[i] = m[i + 1]
  OBVIOUS
<1>2. CASE Tail(m) = <<>>
  <2>1. Len(<<>>) = 0
    OBVIOUS
  <2>2. Len(Tail(m)) = 0
    BY <1>2, <2>1, Zenon
  <2>3. Len(m) - 1 = 0
    BY <1>1, <2>2, Zenon
  <2>4. \A n \in Nat : n - 1 = 0 => n = 1
    OBVIOUS
  <2>5. Len(m) = 1
    BY <1>1, <2>3, <2>4, Zenon
  <2> QED BY <1>1, <1>2, <2>5
<1>3. CASE Tail(m) # <<>>
  <2>1. Len(m) - 1 \in 1 .. Len(m) - 1
    BY <1>1, <1>3
  <2>2. Tail(m)[Len(m) - 1] = m[(Len(m) - 1) + 1]
    BY <1>1, <2>1
  <2> QED BY <1>1, <1>3, <2>2
<1> QED BY <1>1, <1>2, <1>3

\* A step of the application that changes the status sends it.
LEMMA NoticedStep ==
  ASSUME IndicatorInv, Shell(Next)
  PROVE  WindowTypes' /\ Told'
<1> DEFINE heard == IF window.shows = "page" /\ status' # status
                    THEN [window EXCEPT !.mail = Append(@, status')] ELSE window
<1>1. status' \in SupervisorStatus
  BY ShellStep DEF IndicatorInv, Shell, ShellInv, TypeOK, SupervisorStatus
<1>2. /\ heard \in [shows : {"starting", "loading", "page", "error"}, asks : {"yes", "no"},
                    mail : Seq(SupervisorStatus), shown : SupervisorStatus \cup {None}]
      /\ heard.shows = window.shows
      /\ heard.shows = "page" /\ heard.asks = "no" =>
            IF heard.mail = <<>> THEN heard.shown = status'
            ELSE heard.mail[Len(heard.mail)] = status'
  <2>1. CASE window.shows = "page" /\ status' # status
    BY <1>1, <2>1, MailShape DEF IndicatorInv, WindowTypes
  <2>2. CASE ~(window.shows = "page" /\ status' # status)
    BY <2>2 DEF IndicatorInv, WindowTypes, Told
  <2> QED BY <2>1, <2>2
<1>3. \/ window' = heard
      \/ window' = [heard EXCEPT !.shows = "loading"]
      \/ window' = [heard EXCEPT !.shows = "error"]
  BY DEF Shell, Noticed
<1> HIDE DEF heard
<1> QED BY <1>2, <1>3 DEF WindowTypes, Told

\* The window's own steps: its question is answered with the status of that moment.
LEMMA WindowStep ==
  ASSUME IndicatorInv, WindowLoads \/ StatusAnswered \/ IndicatorUpdates
  PROVE  WindowTypes' /\ Told'
<1> USE DEF IndicatorInv
<1>1. status' = status /\ status \in SupervisorStatus
  BY DEF WindowLoads, StatusAnswered, IndicatorUpdates, Alone, desktopVars, ShellInv, TypeOK,
         SupervisorStatus
<1>2. CASE WindowLoads
  BY <1>2 DEF WindowLoads, WindowTypes, Told
<1>3. CASE StatusAnswered
  BY <1>1, <1>3, MailShape DEF StatusAnswered, WindowTypes, Told
<1>4. CASE IndicatorUpdates
  <2>1. /\ window.mail \in Seq(SupervisorStatus) /\ window.mail # <<>>
        /\ window' = [window EXCEPT !.shown = Head(window.mail), !.mail = Tail(@)]
    BY <1>4 DEF IndicatorUpdates, WindowTypes
  <2>2. WindowTypes'
    BY <2>1, HeadTailShape DEF WindowTypes
  <2>3. /\ window'.shows = window.shows /\ window'.asks = window.asks
        /\ window'.mail = Tail(window.mail) /\ window'.shown = Head(window.mail)
    BY <2>1 DEF WindowTypes
  <2> QED BY <1>1, <2>1, <2>2, <2>3, HeadTailShape DEF Told
<1> QED BY <1>2, <1>3, <1>4

\* The pages of guests do not touch the window.
LEMMA PagesStep ==
  ASSUME IndicatorInv, window' = window, status' = status
  PROVE  WindowTypes' /\ Told'
BY DEF IndicatorInv, WindowTypes, Told

\* Every step keeps the invariant.
LEMMA IndicatorStep == IndicatorInv /\ [PageNext]_pageVars => IndicatorInv'
<1> SUFFICES ASSUME IndicatorInv, [PageNext]_pageVars PROVE WindowTypes' /\ Told'
  BY PageStepIsShell, ShellStep DEF IndicatorInv
<1>1. CASE UNCHANGED pageVars
  BY <1>1, PagesStep DEF pageVars, desktopVars
<1>2. CASE Shell(Next)
  BY <1>2, NoticedStep
<1>3. CASE WindowLoads \/ StatusAnswered \/ IndicatorUpdates
  BY <1>3, WindowStep
<1>4. ASSUME NEW p \in Pages, \/ OpenPage(p) \/ ClosePage(p) \/ Refetch(p) \/ SubmitFeedback(p)
                               \/ OpenLine(p) \/ LineEnds(p) \/ Relays(p) \/ Answered(p)
      PROVE  window' = window /\ status' = status
  BY <1>4 DEF OpenPage, ClosePage, Refetch, SubmitFeedback, OpenLine, LineEnds, Relays, Answered,
              BackendBegins, BackendAnswers, UpstreamFails, FeedbackAnswered, QueryAnswered, Requested,
              Alone, desktopVars
<1> QED BY <1>1, <1>2, <1>3, <1>4, PagesStep DEF PageNext

\* The indicator is right as soon as every message has arrived, whatever the status
\* did while the page was loaded, mounted and asking (DesktopRuntimeStatus).
THEOREM IndicatorTheorem == PageSpec => []IndicatorIsCurrent
<1>1. IndicatorInv => IndicatorIsCurrent
  BY DEF IndicatorInv, Told, IndicatorIsCurrent
<1> QED BY <1>1, IndicatorInitially, IndicatorStep, PTL DEF PageSpec

-----------------------------------------------------------------------------
(***************************************************************************)
(* The operator's page: the inductive invariant                            *)
(***************************************************************************)

AskedOf == [kind : Kinds, token : Tokens \cup {None}, report : Reports \cup {None},
            selected : Reports \cup {None}, is : {"current", "aborted"},
            answer : [is : {"none", "ok", "failed"},
                      rows : [Reports -> Statuses \cup {"none"}]]]

\* A request for one report names it.
Named(Q) == \A q \in Q : q.kind \in {"detail", "triage"} => q.report \in Reports

\* What is current was asked with the token the page has.
AskedWithToken ==
    \A q \in requests : q.is = "current" => q.token = page.token /\ page.token # None

OnePerKind ==
    \A q, r \in requests :
        q.is = "current" /\ r.is = "current" /\ q.kind = r.kind => q = r

RequestsOK ==
    /\ requests \subseteq AskedOf
    /\ Named(requests)
    /\ AskedWithToken
    /\ OnePerKind

ConsoleInv == ConsoleTypes /\ RequestsOK /\ ShownBelongsToToken /\ BusyMeansPending

\* At first the page is empty and nothing is asked.
LEMMA ConsoleInitially == ConsoleInit => ConsoleInv
<1> SUFFICES ASSUME ConsoleInit PROVE ConsoleInv
  OBVIOUS
<1>1. ConsoleTypes
  BY DEF ConsoleInit, ConsoleTypes, NewPage, NoReports, NoDetail
<1>2. RequestsOK
  BY DEF ConsoleInit, RequestsOK, Named, AskedWithToken, OnePerKind
<1>3. ShownBelongsToToken /\ BusyMeansPending
  BY DEF ConsoleInit, ShownBelongsToToken, BusyMeansPending, NewPage, NoDetail, Current
<1> QED BY <1>1, <1>2, <1>3 DEF ConsoleInv

\* What is left of the requests when those of some kinds are aborted.
LEMMA AbortedShape ==
  ASSUME RequestsOK, NEW K
  PROVE  /\ Aborted(K) \subseteq AskedOf
         /\ Named(Aborted(K))
         /\ \A q \in Aborted(K) : q.is = "current" => q \in requests /\ q.kind \notin K
         /\ \A q \in requests : q.kind \notin K => q \in Aborted(K)
<1> DEFINE Withdrawn(p) == [p EXCEPT !.is = "aborted", !.selected = None]
<1>1. \A p \in requests :
         /\ Withdrawn(p) \in AskedOf /\ Withdrawn(p).is = "aborted"
         /\ Withdrawn(p).kind = p.kind /\ Withdrawn(p).report = p.report
  BY DEF RequestsOK, AskedOf
<1>2. \A q \in Aborted(K) : \/ q \in requests /\ q.kind \notin K
                            \/ \E p \in requests : q = Withdrawn(p)
  BY DEF Aborted
<1>3. \A q \in requests : q.kind \notin K => q \in Aborted(K)
  BY DEF Aborted
<1> HIDE DEF Withdrawn
<1> QED BY <1>1, <1>2, <1>3 DEF RequestsOK, Named

\* A request that is sent is the current one of its kind, and no other kind is
\* touched.
LEMMA SentShape ==
  ASSUME RequestsOK, NEW q \in AskedOf, Sent(q), Named({q}), page'.token = page.token,
         q.is = "current", q.token = page.token, page.token # None
  PROVE  /\ RequestsOK'
         /\ \A k \in Kinds : Current(k)' = IF k = q.kind THEN {q} ELSE Current(k)
<1>1. requests' = Aborted({q.kind}) \cup {q}
  BY DEF Sent
<1>2. RequestsOK'
  BY <1>1, AbortedShape DEF RequestsOK, Named, AskedWithToken, OnePerKind
<1>3. ASSUME NEW k \in Kinds PROVE Current(k)' = IF k = q.kind THEN {q} ELSE Current(k)
  BY <1>1, AbortedShape DEF Current
<1> QED BY <1>2, <1>3

\* An answer that is taken ends the only request of its kind.
LEMMA TakenShape ==
  ASSUME RequestsOK, NEW q \in requests, NEW k \in Kinds, Taken(q, k), page'.token = page.token
  PROVE  /\ RequestsOK'
         /\ q \in Current(k) /\ Current(k) = {q} /\ Current(k)' = {}
         /\ \A j \in Kinds \ {k} : Current(j)' = Current(j)
<1>1. requests' = requests \ {q} /\ q.kind = k /\ q.is = "current"
  BY DEF Taken
<1>2. RequestsOK'
  BY <1>1 DEF RequestsOK, Named, AskedWithToken, OnePerKind
<1>3. Current(k) = {q} /\ Current(k)' = {}
  BY <1>1 DEF RequestsOK, OnePerKind, Current
<1>4. \A j \in Kinds \ {k} : Current(j)' = Current(j)
  BY <1>1 DEF Current
<1> QED BY <1>2, <1>3, <1>4

-----------------------------------------------------------------------------
(***************************************************************************)
(* The operator's page: the operator's steps                               *)
(***************************************************************************)

\* A request the page can make.
LEMMA RequestShape ==
  ASSUME ConsoleTypes, NEW kind \in Kinds, NEW r \in Reports \cup {None}
  PROVE  /\ Request(kind, r) \in AskedOf
         /\ Request(kind, r).kind = kind /\ Request(kind, r).report = r
         /\ Request(kind, r).is = "current" /\ Request(kind, r).token = page.token
BY DEF ConsoleTypes, Request, AskedOf, NoReports

\* A new token, or none, begins with an empty page and nothing but its list.
LEMMA SubmitTokenStep ==
  ASSUME ConsoleInv, NEW token \in Tokens \cup {None}, SubmitToken(token)
  PROVE  ConsoleInv'
<1> DEFINE list == [Request("list", None) EXCEPT !.token = token, !.selected = None]
<1>1. /\ list \in AskedOf /\ list.kind = "list" /\ list.token = token
      /\ list.is = "current"
  BY DEF Request, AskedOf, ConsoleInv, ConsoleTypes, NoReports, Kinds
<1>2. /\ page'.token = token /\ page'.rowsBy = None /\ page'.detail.by = None
      /\ page'.detailStatus = "idle" /\ page'.action = None /\ page'.exporting = "no"
      /\ page'.load = IF token = None THEN "idle" ELSE "loading"
  BY DEF SubmitToken, NewPage, NoDetail
<1>3. ConsoleTypes' 
  <2>1. page' \in {NewPage(token), [NewPage(token) EXCEPT !.load = "loading"]}
    BY DEF SubmitToken
  <2>2. requests' \subseteq AskedOf
    BY <1>1, AbortedShape DEF SubmitToken, ConsoleInv, RequestsOK
  <2> QED BY <2>1, <2>2 DEF ConsoleInv, ConsoleTypes, NewPage, NoReports, NoDetail,
                            AskedOf, SubmitToken
<1>4. requests' = Aborted(Kinds) \cup (IF token = None THEN {} ELSE {list})
  BY DEF SubmitToken
<1> HIDE DEF list
<1>5. \A q \in requests' : q.is = "current" => q = list /\ token # None
  BY <1>1, <1>4, AbortedShape DEF ConsoleInv, RequestsOK, AskedOf
<1>6. RequestsOK'
  <2>1. requests' \subseteq AskedOf /\ Named(requests')
    BY <1>1, <1>4, AbortedShape DEF ConsoleInv, RequestsOK, Named
  <2> QED BY <1>1, <1>2, <1>5, <2>1 DEF RequestsOK, AskedWithToken, OnePerKind
<1>7. /\ Current("list")' = IF token = None THEN {} ELSE {list}
      /\ \A k \in Kinds \ {"list"} : Current(k)' = {}
  BY <1>1, <1>4, <1>5 DEF Current, Kinds
<1>8. ShownBelongsToToken' /\ BusyMeansPending'
  BY <1>2, <1>7 DEF ShownBelongsToToken, BusyMeansPending, Kinds
<1> QED BY <1>3, <1>6, <1>8 DEF ConsoleInv

\* The page that is entered again is empty, and nothing is asked for it yet.
LEMMA ReenterStep == ConsoleInv /\ Reenter => ConsoleInv'
<1> SUFFICES ASSUME ConsoleInv, Reenter PROVE ConsoleInv'
  OBVIOUS
<1>1. /\ page' = NewPage(page.token) /\ requests' = Aborted(Kinds) /\ stored' = stored
  BY DEF Reenter
<1>2. \A q \in requests' : q.is # "current"
  BY <1>1, AbortedShape DEF ConsoleInv, RequestsOK, AskedOf
<1>3. RequestsOK'
  BY <1>1, <1>2, AbortedShape DEF ConsoleInv, RequestsOK, AskedWithToken, OnePerKind
<1>4. ConsoleTypes'
  BY <1>1, <1>3 DEF ConsoleInv, RequestsOK, ConsoleTypes, AskedOf, NewPage, NoReports, NoDetail
<1>5. ShownBelongsToToken' /\ BusyMeansPending'
  BY <1>1, <1>2 DEF ShownBelongsToToken, BusyMeansPending, NewPage, NoDetail, Current
<1> QED BY <1>3, <1>4, <1>5 DEF ConsoleInv

\* Refresh, OpenReport, Triage and Export: the flag and the request come together.
LEMMA AskStep ==
  ASSUME ConsoleInv, \/ Refresh \/ Export
                     \/ \E r \in Reports : OpenReport(r) \/ Triage(r)
  PROVE  ConsoleInv'
<1> USE DEF ConsoleInv
<1>1. CASE Refresh
  <2> DEFINE q == Request("list", None)
  <2>1. Sent(q) /\ page.token # None /\ page' = [page EXCEPT !.load = "loading"]
    BY <1>1 DEF Refresh
  <2>2. /\ q \in AskedOf /\ q.kind = "list" /\ q.is = "current" /\ q.token = page.token
    BY RequestShape DEF Kinds
  <2> HIDE DEF q
  <2>3. ConsoleTypes' /\ page'.token = page.token
    <3>1. requests' \subseteq AskedOf
      BY <2>1, <2>2, AbortedShape DEF Sent
    <3> QED BY <1>1, <2>1, <3>1 DEF Refresh, ConsoleTypes, AskedOf
  <2>4. /\ RequestsOK' /\ Current("list")' = {q}
        /\ \A k \in Kinds \ {"list"} : Current(k)' = Current(k)
    BY <2>1, <2>2, <2>3, SentShape DEF Named, Kinds
  <2>5. ShownBelongsToToken' /\ BusyMeansPending'
    BY <2>1, <2>4 DEF ShownBelongsToToken, BusyMeansPending, Kinds, ConsoleTypes
  <2> QED BY <2>3, <2>4, <2>5
<1>2. CASE Export
  <2> DEFINE q == Request("export", None)
  <2>1. Sent(q) /\ page.token # None /\ page' = [page EXCEPT !.exporting = "yes"]
    BY <1>2 DEF Export
  <2>2. /\ q \in AskedOf /\ q.kind = "export" /\ q.is = "current" /\ q.token = page.token
    BY RequestShape DEF Kinds
  <2> HIDE DEF q
  <2>3. ConsoleTypes' /\ page'.token = page.token
    <3>1. requests' \subseteq AskedOf
      BY <2>1, <2>2, AbortedShape DEF Sent
    <3> QED BY <1>2, <2>1, <3>1 DEF Export, ConsoleTypes, AskedOf
  <2>4. /\ RequestsOK' /\ Current("export")' = {q}
        /\ \A k \in Kinds \ {"export"} : Current(k)' = Current(k)
    BY <2>1, <2>2, <2>3, SentShape DEF Named, Kinds
  <2>5. ShownBelongsToToken' /\ BusyMeansPending'
    BY <2>1, <2>4 DEF ShownBelongsToToken, BusyMeansPending, Kinds, ConsoleTypes
  <2> QED BY <2>3, <2>4, <2>5
<1>3. ASSUME NEW r \in Reports, OpenReport(r) PROVE ConsoleInv'
  <2> DEFINE q == Request("detail", r)
  <2>1. /\ Sent(q) /\ page.token # None
        /\ page' = [page EXCEPT !.selected = r, !.detail = NoDetail, !.detailStatus = "loading"]
    BY <1>3 DEF OpenReport
  <2>2. /\ q \in AskedOf /\ q.kind = "detail" /\ q.is = "current" /\ q.token = page.token
        /\ q.report = r
    BY RequestShape DEF Kinds
  <2> HIDE DEF q
  <2>3. ConsoleTypes' /\ page'.token = page.token
    <3>1. requests' \subseteq AskedOf
      BY <2>1, <2>2, AbortedShape DEF Sent
    <3>2. NoDetail \in [report : Reports \cup {None}, status : Statuses \cup {"none"},
                        by : Tokens \cup {None}]
      BY DEF NoDetail
    <3>3. stored' = stored
      BY <1>3 DEF OpenReport
    <3> QED BY <2>1, <3>1, <3>2, <3>3 DEF ConsoleTypes, AskedOf
  <2>4. /\ RequestsOK' /\ Current("detail")' = {q}
        /\ \A k \in Kinds \ {"detail"} : Current(k)' = Current(k)
    BY <2>1, <2>2, <2>3, SentShape DEF Named, Kinds
  <2>5. ShownBelongsToToken' /\ BusyMeansPending'
    BY <2>1, <2>4 DEF ShownBelongsToToken, BusyMeansPending, Kinds, ConsoleTypes, NoDetail
  <2> QED BY <2>3, <2>4, <2>5
<1>4. ASSUME NEW r \in Reports, Triage(r) PROVE ConsoleInv'
  <2> DEFINE q == Request("triage", r)
  <2>1. Sent(q) /\ page.token # None /\ page' = [page EXCEPT !.action = r]
    BY <1>4 DEF Triage
  <2>2. /\ q \in AskedOf /\ q.kind = "triage" /\ q.is = "current" /\ q.token = page.token
        /\ q.report = r
    BY RequestShape DEF Kinds
  <2> HIDE DEF q
  <2>3. ConsoleTypes' /\ page'.token = page.token
    <3>1. requests' \subseteq AskedOf
      BY <2>1, <2>2, AbortedShape DEF Sent
    <3> QED BY <1>4, <2>1, <3>1 DEF Triage, ConsoleTypes, AskedOf
  <2>4. /\ RequestsOK' /\ Current("triage")' = {q}
        /\ \A k \in Kinds \ {"triage"} : Current(k)' = Current(k)
    BY <2>1, <2>2, <2>3, SentShape DEF Named, Kinds
  <2>5. {p.report : p \in Current("triage")'} = {page'.action} \ {None}
    BY <2>1, <2>2, <2>4, OperatorAssumption DEF ConsoleTypes
  <2>6. ShownBelongsToToken' /\ BusyMeansPending'
    BY <2>1, <2>4, <2>5 DEF ShownBelongsToToken, BusyMeansPending, Kinds, ConsoleTypes
  <2> QED BY <2>3, <2>4, <2>6
<1> QED BY <1>1, <1>2, <1>3, <1>4

-----------------------------------------------------------------------------
(***************************************************************************)
(* The operator's page: the service's steps and the answers                *)
(***************************************************************************)

\* A request that is served or fails stays what it was.
LEMMA AnswerGivenStep ==
  ASSUME ConsoleInv, NEW q \in requests, Serve(q) \/ Fail(q)
  PROVE  ConsoleInv'
<1> USE DEF ConsoleInv
<1>1. PICK a \in [is : {"none", "ok", "failed"}, rows : [Reports -> Statuses \cup {"none"}]] :
         requests' = (requests \ {q}) \cup {[q EXCEPT !.answer = a]}
  <2>1. CASE Serve(q)
    <3>1. PICK saved, is :
             /\ saved \in {stored, [stored EXCEPT ![q.report] = "TRIAGED"]}
             /\ is \in {"ok", "failed"}
             /\ requests' = (requests \ {q}) \cup
                  {[q EXCEPT !.answer =
                      [is |-> is, rows |-> IF is = "ok" THEN Answer(q, saved) ELSE NoReports]]}
      <4> DEFINE found == /\ q.token = AdminToken
                          /\ q.kind \in {"detail", "triage"} => stored[q.report] # "none"
                 after == IF found /\ q.kind = "triage"
                          THEN [stored EXCEPT ![q.report] = "TRIAGED"] ELSE stored
      <4>1. PICK is \in {"ok", "failed"} :
               requests' = (requests \ {q}) \cup
                  {[q EXCEPT !.answer =
                      [is |-> is, rows |-> IF is = "ok" THEN Answer(q, after) ELSE NoReports]]}
        BY <2>1 DEF Serve
      <4>2. after \in {stored, [stored EXCEPT ![q.report] = "TRIAGED"]}
        OBVIOUS
      <4> HIDE DEF after
      <4> QED BY <4>1, <4>2
    <3>2. saved \in [Reports -> Statuses \cup {"none"}]
      BY <3>1 DEF ConsoleTypes, Statuses
    <3>3. (IF is = "ok" THEN Answer(q, saved) ELSE NoReports)
             \in [Reports -> Statuses \cup {"none"}]
      BY <3>2 DEF Answer, NoReports
    <3> QED BY <3>1, <3>3
  <2>2. CASE Fail(q)
    <3>1. q \in AskedOf
      BY DEF RequestsOK
    <3>2. [q EXCEPT !.answer.is = "failed"] = [q EXCEPT !.answer = [@ EXCEPT !.is = "failed"]]
      BY <3>1 DEF AskedOf
    <3>3. [q.answer EXCEPT !.is = "failed"]
             \in [is : {"none", "ok", "failed"}, rows : [Reports -> Statuses \cup {"none"}]]
      BY <3>1 DEF AskedOf
    <3> QED BY <2>2, <3>1, <3>2, <3>3 DEF Fail, AskedOf
  <2> QED BY <2>1, <2>2
<1> DEFINE s == [q EXCEPT !.answer = a]
<1>2. /\ s \in AskedOf /\ s.kind = q.kind /\ s.token = q.token /\ s.report = q.report
      /\ s.is = q.is
  BY DEF RequestsOK, AskedOf
<1>3. page' = page /\ stored' \in [Reports -> Statuses \cup {"none"}]
  <2>1. CASE Serve(q)
    BY <2>1 DEF Serve, ConsoleTypes, Statuses
  <2>2. CASE Fail(q)
    BY <2>2 DEF Fail, ConsoleTypes
  <2> QED BY <2>1, <2>2
<1>4. requests' = (requests \ {q}) \cup {s}
  BY <1>1
<1> HIDE DEF s
<1>5. RequestsOK'
  BY <1>2, <1>3, <1>4 DEF RequestsOK, Named, AskedWithToken, OnePerKind
<1>6. ConsoleTypes'
  BY <1>3, <1>5 DEF RequestsOK, ConsoleTypes, AskedOf
<1>7. \A k \in Kinds : Current(k)' =
         IF q \in Current(k) THEN (Current(k) \ {q}) \cup {s} ELSE Current(k)
  BY <1>2, <1>4 DEF Current
<1>8. BusyMeansPending'
  <2>1. \A k \in Kinds : Current(k)' # {} <=> Current(k) # {}
    BY <1>7
  <2>2. {p.report : p \in Current("triage")'} = {p.report : p \in Current("triage")}
    BY <1>2, <1>7 DEF Kinds
  <2> QED BY <1>3, <2>1, <2>2 DEF BusyMeansPending, Kinds
<1> QED BY <1>3, <1>5, <1>6, <1>8 DEF ShownBelongsToToken

\* The answer to an aborted request changes nothing.
LEMMA IgnoreStep ==
  ASSUME ConsoleInv, NEW q \in requests, Ignore(q)
  PROVE  ConsoleInv'
<1>1. requests' = requests \ {q} /\ q.is # "current" /\ page' = page /\ stored' = stored
  BY DEF Ignore
<1>2. RequestsOK' /\ ConsoleTypes'
  BY <1>1 DEF ConsoleInv, RequestsOK, Named, AskedWithToken, OnePerKind, ConsoleTypes
<1>3. \A k \in Kinds : Current(k)' = Current(k)
  BY <1>1 DEF Current
<1> QED BY <1>1, <1>2, <1>3 DEF ConsoleInv, ShownBelongsToToken, BusyMeansPending, Kinds

\* The list that is shown is the one asked for last, with the page's token.
LEMMA ListAnsweredStep ==
  ASSUME ConsoleInv, NEW q \in requests, ListAnswered(q)
  PROVE  ConsoleInv'
<1> USE DEF ConsoleInv
<1>1. Taken(q, "list") /\ q \in AskedOf /\ q.token = page.token
  BY DEF ListAnswered, Taken, RequestsOK, AskedWithToken
<1>2. /\ page'.token = page.token /\ page'.detail = page.detail
      /\ page'.detailStatus = page.detailStatus /\ page'.action = page.action
      /\ page'.exporting = page.exporting /\ page'.load # "loading"
      /\ page'.rowsBy \in {page.rowsBy, page.token}
  BY <1>1 DEF ListAnswered, ConsoleTypes
<1>3. RequestsOK' /\ Current("list")' = {} /\ \A k \in Kinds \ {"list"} : Current(k)' = Current(k)
  BY <1>1, <1>2, TakenShape DEF Kinds
<1>4. ConsoleTypes'
  <2>1. requests' \subseteq requests /\ stored' = stored
    BY <1>1 DEF Taken
  <2> QED BY <1>1, <2>1 DEF ListAnswered, ConsoleTypes, AskedOf
<1>5. ShownBelongsToToken' /\ BusyMeansPending'
  BY <1>2, <1>3 DEF ShownBelongsToToken, BusyMeansPending, Kinds
<1> QED BY <1>3, <1>4, <1>5

\* The same for details.
LEMMA DetailAnsweredStep ==
  ASSUME ConsoleInv, NEW q \in requests, DetailAnswered(q)
  PROVE  ConsoleInv'
<1> USE DEF ConsoleInv
<1>1. /\ Taken(q, "detail") /\ q \in AskedOf /\ q.token = page.token
      /\ q.report \in Reports
  BY DEF DetailAnswered, Taken, RequestsOK, AskedWithToken, Named
<1>2. /\ page'.token = page.token /\ page'.rowsBy = page.rowsBy
      /\ page'.detailStatus # "loading" /\ page'.action = page.action
      /\ page'.exporting = page.exporting /\ page'.load = page.load
      /\ page'.detail.by \in {page.detail.by, page.token}
  BY <1>1 DEF DetailAnswered, Detail, ConsoleTypes
<1>3. RequestsOK' /\ \A k \in Kinds \ {"detail"} : Current(k)' = Current(k)
  BY <1>1, <1>2, TakenShape DEF Kinds
<1>4. ConsoleTypes'
  <2>1. requests' \subseteq requests /\ stored' = stored
    BY <1>1 DEF Taken
  <2>2. Detail(q) \in [report : Reports \cup {None}, status : Statuses \cup {"none"},
                       by : Tokens \cup {None}]
    BY <1>1 DEF Detail, AskedOf
  <2>3. page' \in {[page EXCEPT !.detailStatus = "error"],
                  [page EXCEPT !.detail = Detail(q), !.detailStatus = "ready"]}
    BY DEF DetailAnswered
  <2> QED BY <2>1, <2>2, <2>3 DEF ConsoleTypes
<1>5. ShownBelongsToToken' /\ BusyMeansPending'
  BY <1>2, <1>3 DEF ShownBelongsToToken, BusyMeansPending, Kinds
<1> QED BY <1>3, <1>4, <1>5

\* A triage that is answered was the only one; it may replace the details.
LEMMA TriageAnsweredStep ==
  ASSUME ConsoleInv, NEW q \in requests, TriageAnswered(q)
  PROVE  ConsoleInv'
<1> USE DEF ConsoleInv
<1>1. /\ Taken(q, "triage") /\ q \in AskedOf /\ q.token = page.token
      /\ q.report \in Reports
  BY DEF TriageAnswered, Taken, RequestsOK, AskedWithToken, Named
<1>2. Detail(q) \in [report : Reports \cup {None}, status : Statuses \cup {"none"},
                     by : Tokens \cup {None}]
      /\ Detail(q).by = page.token
  BY <1>1 DEF Detail, AskedOf
<1>3. PICK rows \in [Reports -> Statuses \cup {"none"}], detail \in {page.detail, Detail(q)},
           detailStatus \in {page.detailStatus, "ready"} :
         page' = [page EXCEPT !.action = None, !.rows = rows, !.detail = detail,
                              !.detailStatus = detailStatus]
  <2> DEFINE changed == [page.rows EXCEPT ![q.report] = q.answer.rows[q.report]]
             rows == IF q.answer.is = "failed" \/ page.rows[q.report] = "none"
                     THEN page.rows ELSE changed
             replaced == q.answer.is # "failed" /\ q.selected = q.report
             detail == IF replaced THEN Detail(q) ELSE page.detail
             detailStatus == IF replaced THEN "ready" ELSE page.detailStatus
  <2>1. rows \in [Reports -> Statuses \cup {"none"}]
    BY <1>1 DEF AskedOf, ConsoleTypes
  <2>2. page' = [page EXCEPT !.action = None, !.rows = rows, !.detail = detail,
                             !.detailStatus = detailStatus]
    BY <1>1 DEF TriageAnswered, ConsoleTypes
  <2> HIDE DEF rows
  <2> QED BY <2>1, <2>2
<1>4. /\ page'.token = page.token /\ page'.rowsBy = page.rowsBy /\ page'.load = page.load
      /\ page'.detailStatus \in {page.detailStatus, "ready"} /\ page'.action = None
      /\ page'.exporting = page.exporting /\ page'.detail.by \in {page.detail.by, page.token}
  BY <1>2, <1>3 DEF ConsoleTypes
<1>5. /\ RequestsOK' /\ Current("triage")' = {}
      /\ \A k \in Kinds \ {"triage"} : Current(k)' = Current(k)
  BY <1>1, <1>4, TakenShape DEF Kinds
<1>6. ConsoleTypes'
  <2>1. requests' \subseteq requests /\ stored' = stored
    BY <1>1 DEF Taken
  <2> QED BY <1>2, <1>3, <2>1 DEF ConsoleTypes
<1>7. {p.report : p \in Current("triage")'} = {page'.action} \ {None}
  BY <1>4, <1>5
<1>8. ShownBelongsToToken' /\ BusyMeansPending'
  BY <1>4, <1>5, <1>7 DEF ShownBelongsToToken, BusyMeansPending, Kinds
<1> QED BY <1>5, <1>6, <1>8

\* An export that is answered was the only one.
LEMMA ExportAnsweredStep ==
  ASSUME ConsoleInv, NEW q \in requests, ExportAnswered(q)
  PROVE  ConsoleInv'
<1> USE DEF ConsoleInv
<1>1. Taken(q, "export") /\ page' = [page EXCEPT !.exporting = "no"]
  BY DEF ExportAnswered
<1>2. page'.token = page.token
  BY <1>1 DEF ConsoleTypes
<1>3. /\ RequestsOK' /\ Current("export")' = {}
      /\ \A k \in Kinds \ {"export"} : Current(k)' = Current(k)
  BY <1>1, <1>2, TakenShape DEF Kinds
<1>4. ConsoleTypes'
  BY <1>1 DEF Taken, ConsoleTypes
<1>5. ShownBelongsToToken' /\ BusyMeansPending'
  BY <1>1, <1>3 DEF ShownBelongsToToken, BusyMeansPending, Kinds, ConsoleTypes
<1> QED BY <1>3, <1>4, <1>5

\* What others do to the reports does not concern the page.
LEMMA StoreStep ==
  ASSUME ConsoleInv, NEW r \in Reports, SaveReport(r) \/ OtherTriages(r) \/ RetentionEnds(r)
  PROVE  ConsoleInv'
<1>1. page' = page /\ requests' = requests
  BY DEF SaveReport, OtherTriages, RetentionEnds
<1>2. stored' \in [Reports -> Statuses \cup {"none"}]
  BY DEF ConsoleInv, ConsoleTypes, SaveReport, OtherTriages, RetentionEnds, Statuses
<1> QED BY <1>1, <1>2 DEF ConsoleInv, ConsoleTypes, RequestsOK, AskedWithToken, OnePerKind,
                          ShownBelongsToToken, BusyMeansPending, Current

\* Every step keeps the invariant.
LEMMA ConsoleStep == ConsoleInv /\ [ConsoleNext]_operatorVars => ConsoleInv'
<1> SUFFICES ASSUME ConsoleInv, [ConsoleNext]_operatorVars PROVE ConsoleInv'
  OBVIOUS
<1>1. CASE UNCHANGED operatorVars
  BY <1>1 DEF operatorVars, ConsoleInv, ConsoleTypes, RequestsOK, AskedWithToken, OnePerKind,
              ShownBelongsToToken, BusyMeansPending, Current
<1>2. CASE \E token \in Tokens \cup {None} : SubmitToken(token)
  BY <1>2, SubmitTokenStep
<1>3. CASE Reenter
  BY <1>3, ReenterStep
<1>4. CASE Refresh \/ Export \/ \E r \in Reports : OpenReport(r) \/ Triage(r)
  BY <1>4, AskStep
<1>5. CASE \E q \in requests : Serve(q) \/ Fail(q) \/ Ignore(q)
  BY <1>5, AnswerGivenStep, IgnoreStep
<1>6. CASE \E q \in requests : ListAnswered(q) \/ DetailAnswered(q)
  BY <1>6, ListAnsweredStep, DetailAnsweredStep
<1>7. CASE \E q \in requests : TriageAnswered(q) \/ ExportAnswered(q)
  BY <1>7, TriageAnsweredStep, ExportAnsweredStep
<1>8. CASE \E r \in Reports : SaveReport(r) \/ OtherTriages(r) \/ RetentionEnds(r)
  BY <1>8, StoreStep
<1> QED BY <1>1, <1>2, <1>3, <1>4, <1>5, <1>6, <1>7, <1>8 DEF ConsoleNext

\* ConsoleInv holds in every state of the console.
LEMMA ConsoleInvariant == ConsoleSpec => []ConsoleInv
<1> QED BY ConsoleInitially, ConsoleStep, PTL DEF ConsoleSpec

\* The page, its requests and the stored reports have their types.
THEOREM ConsoleTypeCorrect == ConsoleSpec => []ConsoleTypes
<1>1. ConsoleInv => ConsoleTypes
  BY DEF ConsoleInv
<1> QED BY <1>1, ConsoleInvariant, PTL

\* Whatever is answered late, the page shows only what was answered to the token
\* it has (handleTokenSubmit, handleTokenReset, loadReports, handleOpenReport).
THEOREM TokenTheorem == ConsoleSpec => []ShownBelongsToToken
<1>1. ConsoleInv => ShownBelongsToToken
  BY DEF ConsoleInv
<1> QED BY <1>1, ConsoleInvariant, PTL

\* No button stays disabled and no panel loading for a request that nobody
\* answers any more.
THEOREM BusyTheorem == ConsoleSpec => []BusyMeansPending
<1>1. ConsoleInv => BusyMeansPending
  BY DEF ConsoleInv
<1> QED BY <1>1, ConsoleInvariant, PTL

=============================================================================
