------------------------------ MODULE DesktopShell ------------------------------
(***************************************************************************)
(* The desktop application of a host: from launch to exit, with the        *)
(* backend and the LiveKit server it spawns, the gateway guests connect to *)
(* and the two ways its supervisor stops them, after a start that failed   *)
(* and when the application quits.  The two may overlap with each other    *)
(* and with a start under way; children die when they like.                *)
(*                                                                         *)
(* Electron and the processes are external.  The gateway is part of the    *)
(* application and ends with it, its children are not.                     *)
(***************************************************************************)
EXTENDS Absent

CONSTANT Guests  \* browsers with a connection to the gateway

VARIABLES
    app,       \* window and exit of the application
    status,    \* the supervisor's status
    starter,   \* where start has got to
    stopper,   \* where the stop of before-quit has got to
    children,  \* the processes, and those each stop waits for
    gateway    \* whether it listens, and its connections

desktopVars == <<app, status, starter, stopper, children, gateway>>

Children == {"backend", "livekit"}

Init ==
    /\ app = [phase |-> "open", quit |-> "no"]
    /\ status = "stopped"
    /\ starter = "checking"
    /\ stopper = "none"
    /\ children = [is |-> [c \in Children |-> "none"], tracked |-> {},
                   failing |-> {}, quitting |-> {}]
    /\ gateway = [open |-> "no", sockets |-> {}]

Open == app.phase = "open"

-----------------------------------------------------------------------------
(***************************************************************************)
(* Children                                                                *)
(***************************************************************************)

\* spawnBackend, spawnLiveKit and trackChild
Spawned(c) == [children EXCEPT !.is[c] = "up", !.tracked = @ \cup {c}]

\* stopChild for all that are tracked: SIGTERM, unless they are dead.
Alive == {c \in children.tracked : children.is[c] # "dead"}

Terminated ==
    [c \in Children |-> IF c \in Alive THEN "terminating" ELSE children.is[c]]

\* The exit handlers: of trackChild first, then stopChild's.
Died(c) ==
    [children EXCEPT !.is[c] = "dead", !.failing = @ \ {c}, !.quitting = @ \ {c}]

-----------------------------------------------------------------------------
(***************************************************************************)
(* Start                                                                   *)
(***************************************************************************)

\* whenReady: address, resources and secrets are there, start has begun.
Launch ==
    /\ Open /\ starter = "checking" /\ stopper = "none"
    /\ status' = "starting-backend"
    /\ children' = Spawned("backend")
    /\ starter' = "backend"
    /\ UNCHANGED <<app, stopper, gateway>>

\* Something is missing (resolveLanAddress finds none or more than one address,
\* a binary is not there): the startup page says so.
RefuseToLaunch ==
    /\ Open /\ starter = "checking"
    /\ starter' = "refused"
    /\ UNCHANGED <<app, status, stopper, children, gateway>>

\* The health check is answered.  The child may have been told to stop.
BackendReady ==
    /\ Open /\ starter = "backend"
    /\ status' = "starting-livekit"
    /\ children' = Spawned("livekit")
    /\ starter' = "livekit"
    /\ UNCHANGED <<app, stopper, gateway>>

LiveKitReady ==
    /\ Open /\ starter = "livekit"
    /\ status' = "starting-gateway"
    /\ starter' = "gateway"
    /\ UNCHANGED <<app, stopper, children, gateway>>

GatewayListens ==
    /\ Open /\ starter = "gateway"
    /\ gateway' = [gateway EXCEPT !.open = "yes"]
    /\ status' = "running"
    /\ starter' = "done"
    /\ UNCHANGED <<app, stopper, children>>

Cleanup_LastOnly(was) ==
    IF status = "stopped" THEN starter' = "failed" /\ status' = "error" /\ children' = was
    ELSE /\ status' = "stopping"
         /\ starter' = "cleanup"
         /\ LET stage == starter
                stopped == {stage} \cap {c \in was.tracked : was.is[c] # "dead"}
            IN  children' = [was EXCEPT !.failing = stopped, !.tracked = {},
                                !.is = [c \in Children |->
                                          IF c \in stopped THEN "terminating" ELSE was.is[c]]]

\* The catch of start: stop, which has no gateway to close here and does nothing
\* when another stop has finished.
Cleanup(was) ==
    IF status = "stopped" THEN starter' = "failed" /\ status' = "error" /\ children' = was
    ELSE /\ status' = "stopping"
         /\ starter' = "cleanup"
         /\ LET stopped == {c \in was.tracked : was.is[c] # "dead"}
            IN  children' = [was EXCEPT !.failing = stopped, !.tracked = {},
                                !.is = [c \in Children |->
                                          IF c \in stopped THEN "terminating" ELSE was.is[c]]]

\* waitForHealthy gives up, or the port is taken.
StartFails ==
    /\ Open /\ starter \in {"backend", "livekit", "gateway"}
    /\ Cleanup(children)
    /\ UNCHANGED <<app, stopper, gateway>>

CleanedUp ==
    /\ Open /\ starter = "cleanup" /\ children.failing = {}
    /\ status' = "error"
    /\ starter' = "failed"
    /\ UNCHANGED <<app, stopper, children, gateway>>

\* A child ends or could not be spawned; a start that waits for it fails.
ChildDies(c) ==
    /\ Open /\ children.is[c] \in {"up", "terminating"}
    /\ IF starter = c THEN Cleanup(Died(c))
       ELSE /\ children' = Died(c)
            /\ status' = IF status \in {"stopping", "stopped"} THEN status ELSE "error"
            /\ UNCHANGED starter
    /\ UNCHANGED <<app, stopper, gateway>>

\* The timer of stopChild: SIGKILL, which ends the child.
KillTimesOut(c) ==
    /\ c \in children.failing \cup children.quitting
    /\ ChildDies(c)

-----------------------------------------------------------------------------
(***************************************************************************)
(* Guests                                                                  *)
(***************************************************************************)

GuestConnects(g) ==
    /\ Open /\ gateway.open = "yes"
    /\ gateway' = [gateway EXCEPT !.sockets = @ \cup {g}]
    /\ UNCHANGED <<app, status, starter, stopper, children>>

GuestLeaves(g) ==
    /\ Open /\ g \in gateway.sockets
    /\ gateway' = [gateway EXCEPT !.sockets = @ \ {g}]
    /\ UNCHANGED <<app, status, starter, stopper, children>>

-----------------------------------------------------------------------------
(***************************************************************************)
(* Quitting                                                                *)
(***************************************************************************)

\* A quit is hasty when the start is not settled, or when it comes twice.
Haste == IF starter \in {"refused", "done", "failed"} THEN "asked" ELSE "hasty"

StopChildren ==
    [children EXCEPT !.is = Terminated, !.quitting = Alive, !.tracked = {}]

Quit_KeepsConnections ==
    /\ Open /\ app.quit = "no"
    /\ app' = [app EXCEPT !.quit = Haste]
    /\ IF status = "stopped"
       THEN stopper' = "children" /\ UNCHANGED <<status, children, gateway>>
       ELSE /\ status' = "stopping"
            /\ IF gateway.open = "yes"
               THEN /\ gateway' = [gateway EXCEPT !.open = "closing"]
                    /\ stopper' = "gateway"
                    /\ UNCHANGED children
               ELSE /\ children' = StopChildren
                    /\ stopper' = "children"
                    /\ UNCHANGED gateway
    /\ UNCHANGED starter

Quit_ErrorIsStopped ==
    /\ Open /\ app.quit = "no"
    /\ app' = [app EXCEPT !.quit = Haste]
    /\ IF status \in {"stopped", "error"}
       THEN stopper' = "children" /\ UNCHANGED <<status, children, gateway>>
       ELSE /\ status' = "stopping"
            /\ IF gateway.open = "yes"
               THEN /\ gateway' = [open |-> "closing", sockets |-> {}]
                    /\ stopper' = "gateway"
                    /\ UNCHANGED children
               ELSE /\ children' = StopChildren
                    /\ stopper' = "children"
                    /\ UNCHANGED gateway
    /\ UNCHANGED starter

\* before-quit, the first time: stop.  closeServer destroys the connections.
Quit ==
    /\ Open /\ app.quit = "no"
    /\ app' = [app EXCEPT !.quit = Haste]
    /\ IF status = "stopped"
       THEN stopper' = "children" /\ UNCHANGED <<status, children, gateway>>
       ELSE /\ status' = "stopping"
            /\ IF gateway.open = "yes"
               THEN /\ gateway' = [open |-> "closing", sockets |-> {}]
                    /\ stopper' = "gateway"
                    /\ UNCHANGED children
               ELSE /\ children' = StopChildren
                    /\ stopper' = "children"
                    /\ UNCHANGED gateway
    /\ UNCHANGED starter

\* The server has closed when its last connection has.
GatewayClosed ==
    /\ Open /\ stopper = "gateway" /\ gateway.sockets = {}
    /\ gateway' = [gateway EXCEPT !.open = "no"]
    /\ children' = StopChildren
    /\ stopper' = "children"
    /\ UNCHANGED <<app, status, starter>>

Exited == [app EXCEPT !.phase = "gone"]

\* stop is done: the application quits.
Exit ==
    /\ Open /\ stopper = "children" /\ children.quitting = {}
    /\ status' = "stopped"
    /\ app' = Exited
    /\ gateway' = [open |-> "no", sockets |-> {}]
    /\ UNCHANGED <<starter, stopper, children>>

\* The second quit is not held up.  Nor is the one after the window is closed:
\* the status cannot be sent to a window that is destroyed, so stop fails.
ExitInHaste ==
    /\ Open
    /\ app' = [Exited EXCEPT !.quit = "hasty"]
    /\ gateway' = [open |-> "no", sockets |-> {}]
    /\ UNCHANGED <<status, starter, stopper, children>>

-----------------------------------------------------------------------------
Next ==
    \/ Launch \/ RefuseToLaunch
    \/ BackendReady \/ LiveKitReady \/ GatewayListens
    \/ StartFails \/ CleanedUp
    \/ \E c \in Children : ChildDies(c) \/ KillTimesOut(c)
    \/ \E g \in Guests : GuestConnects(g) \/ GuestLeaves(g)
    \/ Quit \/ GatewayClosed \/ Exit \/ ExitInHaste

Spec == Init /\ [][Next]_desktopVars

\* The health checks give up after a minute, a server without connections
\* closes, and the kill timer fires.  Nothing else need happen.
FairSpec ==
    /\ Spec
    /\ WF_desktopVars(Launch \/ RefuseToLaunch)
    /\ WF_desktopVars(BackendReady \/ LiveKitReady \/ GatewayListens \/ StartFails)
    /\ WF_desktopVars(CleanedUp)
    /\ \A c \in Children : WF_desktopVars(KillTimesOut(c))
    /\ WF_desktopVars(GatewayClosed)
    /\ WF_desktopVars(Exit)

-----------------------------------------------------------------------------
(***************************************************************************)
(* Properties                                                              *)
(***************************************************************************)

\* The types of the variables.
TypeOK ==
    /\ app \in [phase : {"open", "gone"}, quit : {"no", "asked", "hasty"}]
    /\ status \in {"stopped", "starting-backend", "starting-livekit", "starting-gateway",
                   "running", "error", "stopping"}
    /\ starter \in {"checking", "refused", "backend", "livekit", "gateway", "cleanup",
                    "done", "failed"}
    /\ stopper \in {"none", "gateway", "children"}
    /\ children \in [is : [Children -> {"none", "up", "terminating", "dead"}],
                     tracked : SUBSET Children, failing : SUBSET Children,
                     quitting : SUBSET Children]
    /\ gateway \in [open : {"yes", "closing", "no"}, sockets : SUBSET Guests]

\* After a quit that was waited for, of an application whose start was settled,
\* no process is left (docs/WT-649_ELECTRON_HOST_PROOF.md:26), although a child
\* may ignore SIGTERM, and although the status may be an error.
NothingLeftRunning ==
    app.phase = "gone" /\ app.quit = "asked" =>
        \A c \in Children : children.is[c] \in {"none", "dead"}

\* A start that failed leaves nothing behind, whichever step failed; while a quit
\* overtakes it, what is left has been told to stop.
FailedStartLeavesNothing ==
    starter = "failed" =>
        \A c \in Children :
           /\ children.is[c] # "up"
           /\ app.quit = "no" => children.is[c] # "terminating"

\* A start settles and a quit ends, whatever children and guests do: a child that
\* never answers, one that ignores SIGTERM, a guest that stays connected.
StartAndQuitEnd ==
    /\ starter = "backend" ~> starter \in {"done", "failed"} \/ app.phase = "gone"
    /\ app.quit # "no" ~> app.phase = "gone"
=============================================================================
