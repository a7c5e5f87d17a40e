----------------------------- MODULE RoomStore -----------------------------
(***************************************************************************)
(* One room in Redis under every caller at once: REST requests, WebSocket  *)
(* handler threads and scheduler tasks of any number of backend instances. *)
(* A caller reads the clock, then runs a script; other scripts run in      *)
(* between, so a script may run with an instant from before expiresAt      *)
(* although expiresAt has passed.                                          *)
(***************************************************************************)
EXTENDS RoomScripts

CONSTANT MaxVersion   \* bound on the operations that change the room

ASSUME MaxVersionAssumption == MaxVersion \in Nat

VARIABLES
    store,    \* the room key and the presence keys
    issued,   \* participant ids already handed out by SecureValueGenerator
    due       \* expiresAt has passed

storeVars == <<store, issued, due>>

\* The instants a caller may have read.
Lateness == {FALSE, due}

Init ==
    /\ store = NewRoom
    /\ issued = {Host}
    /\ due = FALSE

\* A join draws a fresh participant id and credential before it knows whether
\* the script will use them; the credential in the request cookie, if any, is
\* some earlier participant's.
Join(credential, candidate, late) ==
    /\ candidate \notin issued
    /\ store' = JoinAfter(store, credential, candidate, late)
    /\ issued' = IF JoinOutcome(store, credential, late) = "JOINED"
                 THEN issued \cup {candidate}
                 ELSE issued
    /\ UNCHANGED due

Leave(credential, late) ==
    /\ store' = LeaveAfter(store, credential, late)
    /\ UNCHANGED <<issued, due>>

CloseByHost(credential, secretMatches, late) ==
    /\ store' = CloseByHostAfter(store, credential, secretMatches, late)
    /\ UNCHANGED <<issued, due>>

Expire(late) ==
    /\ store' = ExpireAfter(store, late)
    /\ UNCHANGED <<issued, due>>

MarkHostDisconnected ==
    /\ store' = MarkHostDisconnectedAfter(store)
    /\ UNCHANGED <<issued, due>>

RecoverHost ==
    /\ store' = RecoverHostAfter(store)
    /\ UNCHANGED <<issued, due>>

CloseAbandonedRoom ==
    /\ store' = CloseAbandonedAfter(store)
    /\ UNCHANGED <<issued, due>>

Connect(p, c, late) ==
    /\ store' = ConnectAfter(store, p, c, late)
    /\ UNCHANGED <<issued, due>>

Heartbeat(p, c, late) ==
    /\ store' = HeartbeatAfter(store, p, c, late)
    /\ UNCHANGED <<issued, due>>

Disconnect(p, c) ==
    /\ store' = DisconnectAfter(store, p, c)
    /\ UNCHANGED <<issued, due>>

ReachExpiry ==
    /\ due' = TRUE
    /\ UNCHANGED <<store, issued>>

LapseRoomKey ==
    /\ due
    /\ store' = RoomKeyLapsed(store)
    /\ UNCHANGED <<issued, due>>

LapsePresenceKey(p) ==
    /\ store' = PresenceKeyLapsed(store, p)
    /\ UNCHANGED <<issued, due>>

Scripts ==
    \/ \E late \in Lateness, p \in Participants :
          \/ \E credential \in issued \cup {None} : Join(credential, p, late)
          \/ Leave(p, late)
          \/ \E secretMatches \in BOOLEAN : CloseByHost(p, secretMatches, late)
          \/ \E c \in Connections : Connect(p, c, late) \/ Heartbeat(p, c, late)
    \/ \E late \in Lateness : Expire(late)
    \/ MarkHostDisconnected
    \/ RecoverHost
    \/ CloseAbandonedRoom
    \/ \E p \in Participants, c \in Connections : Disconnect(p, c)

Next ==
    \/ store.version < MaxVersion /\ Scripts
    \/ ReachExpiry
    \/ LapseRoomKey
    \/ \E p \in Participants : LapsePresenceKey(p)

Spec == Init /\ [][Next]_storeVars

-----------------------------------------------------------------------------
(***************************************************************************)
(* Properties                                                              *)
(***************************************************************************)

TypeOK ==
    /\ store \in Store
    /\ issued \subseteq Participants
    /\ due \in BOOLEAN

\* However joins, leaves and closes interleave, the host keeps its seat, the
\* seat limit of the join script holds, and nobody is online without a seat.
RosterConsistent == RosterOf(store)

\* A presence key is only ever found under a participant shown as online, so no
\* order of connect, heartbeat, disconnect, leave and close leaves behind a key
\* that would make a later, legitimate disconnect "stale".
PresenceImpliesOnline == PresenceOf(store)

\* An ended room shows nobody online, whoever was half way through joining or
\* connecting when it ended.
TerminalIsEmpty == EmptyWhenEnded(store)

\* The remembered status is there exactly while the host is away: recoverHost
\* can always restore it, and no closing path leaves it behind.
BeforeOnlyWhileAway == BeforeOf(store)

\* roomVersion identifies what clients see: an operation that changes it moves
\* the version by exactly one, and no operation moves the version without a
\* change.  Clients order and drop events by this number.
VersionNamesState == [][VersionFollows(store, store')]_storeVars

\* No late join, connect, recovery, timer or second close changes a closed or
\* expired room.
TerminalIsFinal == [][EndIsFinal(store, store')]_storeVars

Lifecycle == INSTANCE RoomLifecycle
    WITH phase <- PhaseOf(store.status), seats <- store.members, audience <- store.online

\* The scripts, in any order and with any clock, keep the promise of
\* RoomLifecycle.
ImplementsLifecycle == Lifecycle!Spec

=============================================================================
