---------------------------- MODULE RoomScripts ----------------------------
(***************************************************************************)
(* The atomic operations of the Redis room store, for one room.            *)
(*                                                                         *)
(* RedisRoomJoinStore, RedisRoomLifecycleStore and RedisRoomRealtimeStore  *)
(* run one Lua script per operation, and Redis runs a script without       *)
(* interleaving, so an operation is a function from the stored state to an *)
(* outcome and a new stored state.  Each script is given here as the pair  *)
(*   XOutcome(s, ...)  the reply the script returns, and                   *)
(*   XAfter(s, ...)    the state it leaves,                                *)
(* for RoomStore, which calls them in any order, and for RoomWebSocket,    *)
(* whose handler threads call them one at a time.                          *)
(*                                                                         *)
(* Abstractions.  A participant stands for its id and for the hash of its  *)
(* session credential, which are generated together and never change.  The *)
(* participant list is a set: no script depends on its order.  The clock   *)
(* is the argument "late": whether the instant the caller passes is at or  *)
(* past room.expiresAt.                                                    *)
(*                                                                         *)
(* A definition X_Fault is a definition X with a bug one could write; none  *)
(* of the modules uses it: it shows which property would notice the bug.   *)
(***************************************************************************)
EXTENDS Absent, Naturals, FiniteSets

CONSTANTS
    Participants,     \* every participant id that may ever be issued
    Host,             \* the participant created with the room
    Connections,      \* WebSocket connection ids
    MaxParticipants   \* RoomJoinService.MAX_PARTICIPANTS

ActiveStatuses == {"CREATED", "WAITING_FOR_HOST", "READY", "PLAYING", "PAUSED"}

AvailableStatuses == ActiveStatuses \cup {"HOST_DISCONNECTED"}

TerminalStatuses == {"CLOSED", "EXPIRED"}

RoomStatus == AvailableStatuses \cup TerminalStatuses

\* Where a status stands in the life of RoomLifecycle.
PhaseOf(status) ==
    CASE status \in ActiveStatuses -> "open"
      [] status = "HOST_DISCONNECTED" -> "hostAway"
      [] status = "CLOSED" -> "closed"
      [] status = "EXPIRED" -> "expired"

ASSUME ScriptsAssumption ==
    /\ Host \in Participants
    /\ None \notin Connections \cup Participants \cup ActiveStatuses
    /\ MaxParticipants \in Nat \ {0}

(***************************************************************************)
(* The state of one room: the room key (StoredRoom) and the presence keys. *)
(***************************************************************************)
Store == [present  : BOOLEAN,                        \* the room key exists
          status   : RoomStatus,
          before   : ActiveStatuses \cup {None},     \* statusBeforeHostDisconnect
          version  : Nat,                            \* roomVersion
          members  : SUBSET Participants,            \* participants
          online   : SUBSET Participants,            \* those with online = true
          presence : [Participants -> Connections \cup {None}]]

\* RoomCreationService stores the host as the only participant, online before
\* it opens any WebSocket, at version 0.
NewRoom == [present  |-> TRUE,
            status   |-> "CREATED",
            before   |-> None,
            version  |-> 0,
            members  |-> {Host},
            online   |-> {Host},
            presence |-> [p \in Participants |-> None]]

Available(s, late) == s.present /\ ~late /\ s.status \in AvailableStatuses

-----------------------------------------------------------------------------
(***************************************************************************)
(* RedisRoomJoinStore                                                      *)
(***************************************************************************)

JoinOutcome_OneTooMany(s, credential, late) ==
    IF ~Available(s, late) THEN "ROOM_UNAVAILABLE"
    ELSE IF credential \in s.members THEN "REPLAYED"
    ELSE IF Cardinality(s.members) > MaxParticipants THEN "ROOM_FULL"
    ELSE "JOINED"

\* A full room is refused only after the caller's own credential was looked
\* up, so a member of a full room still gets its seat back.
JoinOutcome(s, credential, late) ==
    IF ~Available(s, late) THEN "ROOM_UNAVAILABLE"
    ELSE IF credential \in s.members THEN "REPLAYED"
    ELSE IF Cardinality(s.members) >= MaxParticipants THEN "ROOM_FULL"
    ELSE "JOINED"

JoinAfter(s, credential, candidate, late) ==
    IF JoinOutcome(s, credential, late) = "JOINED"
    THEN [s EXCEPT !.members = @ \cup {candidate},
                   !.online  = @ \cup {candidate},
                   !.version = @ + 1]
    ELSE s

-----------------------------------------------------------------------------
(***************************************************************************)
(* RedisRoomLifecycleStore                                                 *)
(***************************************************************************)

\* What the three closing scripts have in common: final status, everyone
\* offline, the presence keys of the participants deleted.
Terminated(s, status) ==
    [s EXCEPT !.status   = status,
              !.before   = None,
              !.version  = @ + 1,
              !.online   = {},
              !.presence = [p \in Participants |->
                               IF p \in s.members THEN None ELSE s.presence[p]]]

CloseByHostOutcome(s, credential, secretMatches, late) ==
    IF ~s.present THEN "ROOM_UNAVAILABLE"
    ELSE IF credential # Host \/ Host \notin s.members \/ ~secretMatches
         THEN "ACCESS_DENIED"
    ELSE IF s.status = "CLOSED" THEN "ALREADY_CLOSED"
    ELSE IF s.status = "EXPIRED" \/ late THEN "ROOM_UNAVAILABLE"
    ELSE "CLOSED"

CloseByHostAfter(s, credential, secretMatches, late) ==
    IF CloseByHostOutcome(s, credential, secretMatches, late) = "CLOSED"
    THEN Terminated(s, "CLOSED")
    ELSE s

ExpireOutcome(s, late) ==
    IF ~s.present THEN "ROOM_UNAVAILABLE"
    ELSE IF s.status = "CLOSED" THEN "ALREADY_CLOSED"
    ELSE IF s.status = "EXPIRED" THEN "ALREADY_EXPIRED"
    ELSE IF ~late THEN "NOT_EXPIRED"
    ELSE "EXPIRED"

ExpireAfter(s, late) ==
    IF ExpireOutcome(s, late) = "EXPIRED" THEN Terminated(s, "EXPIRED") ELSE s

LeaveOutcome(s, credential, late) ==
    IF ~Available(s, late) THEN "ROOM_UNAVAILABLE"
    ELSE IF credential \notin s.members THEN "AUTHENTICATION_REQUIRED"
    ELSE IF credential = Host THEN "HOST_CANNOT_LEAVE"
    ELSE "LEFT"

LeaveAfter(s, credential, late) ==
    IF LeaveOutcome(s, credential, late) = "LEFT"
    THEN [s EXCEPT !.members  = @ \ {credential},
                   !.online   = @ \ {credential},
                   !.version  = @ + 1,
                   !.presence = [@ EXCEPT ![credential] = None]]
    ELSE s

\* Looks at the status only: neither the clock nor whether the host is online.
MarkHostDisconnectedOutcome(s) ==
    IF ~s.present THEN "ROOM_UNAVAILABLE"
    ELSE IF s.status \in ActiveStatuses THEN "CHANGED"
    ELSE "UNCHANGED"

MarkHostDisconnectedAfter(s) ==
    IF MarkHostDisconnectedOutcome(s) = "CHANGED"
    THEN [s EXCEPT !.before  = s.status,
                   !.status  = "HOST_DISCONNECTED",
                   !.version = @ + 1]
    ELSE s

RecoverHostOutcome(s) ==
    IF ~s.present THEN "ROOM_UNAVAILABLE"
    ELSE IF s.status = "HOST_DISCONNECTED" THEN "CHANGED"
    ELSE "UNCHANGED"

RecoverHostAfter(s) ==
    IF RecoverHostOutcome(s) = "CHANGED"
    THEN [s EXCEPT !.status  = IF s.before \in ActiveStatuses THEN s.before
                               ELSE "CREATED",
                   !.before  = None,
                   !.version = @ + 1]
    ELSE s

CloseAbandonedOutcome_NotClosedYet(s) ==
    IF ~s.present THEN "ROOM_UNAVAILABLE"
    ELSE IF s.status # "CLOSED" THEN "CHANGED"
    ELSE "UNCHANGED"

CloseAbandonedOutcome_IfDeserted(s) ==
    IF s.online # {} THEN "UNCHANGED" ELSE RecoverHostOutcome(s)

CloseAbandonedOutcome(s) == RecoverHostOutcome(s)

CloseAbandonedAfter(s) ==
    IF CloseAbandonedOutcome(s) = "CHANGED" THEN Terminated(s, "CLOSED") ELSE s

-----------------------------------------------------------------------------
(***************************************************************************)
(* RedisRoomRealtimeStore.  p is the participant the handshake             *)
(* authenticated and c the id the handler drew for the connection.         *)
(***************************************************************************)

\* The checks connect and heartbeat share.
MarkOnlineReply(s, p, late) ==
    IF ~Available(s, late) THEN "ROOM_UNAVAILABLE"
    ELSE IF p \notin s.members THEN "AUTHENTICATION_REQUIRED"
    ELSE "ACCEPTED"

MarkedOnline_AlwaysNewVersion(s, p, c) ==
    [s EXCEPT !.presence = [@ EXCEPT ![p] = c],
              !.online   = @ \cup {p},
              !.version  = @ + 1]

MarkedOnline(s, p, c) ==
    [s EXCEPT !.presence = [@ EXCEPT ![p] = c],
              !.online   = @ \cup {p},
              !.version  = IF p \in s.online THEN @ ELSE @ + 1]

ConnectOutcome(s, p, late) ==
    IF MarkOnlineReply(s, p, late) # "ACCEPTED" THEN MarkOnlineReply(s, p, late)
    ELSE IF p \in s.online THEN "UNCHANGED"
    ELSE "ONLINE"

\* A connect takes the presence key over, whoever holds it.
ConnectAfter(s, p, c, late) ==
    IF ConnectOutcome(s, p, late) \in {"ONLINE", "UNCHANGED"}
    THEN MarkedOnline(s, p, c)
    ELSE s

HeartbeatOutcome_KeyOnly(s, p, c, late) ==
    IF s.presence[p] \notin {None, c} THEN "STALE_CONNECTION"
    ELSE "UNCHANGED"

\* A heartbeat renews the key, takes it when it has lapsed, and is refused
\* when another connection holds it.
HeartbeatOutcome(s, p, c, late) ==
    IF MarkOnlineReply(s, p, late) # "ACCEPTED" THEN MarkOnlineReply(s, p, late)
    ELSE IF s.presence[p] \notin {None, c} THEN "STALE_CONNECTION"
    ELSE IF p \in s.online THEN "UNCHANGED"
    ELSE "ONLINE"

HeartbeatAfter_RenewsKeyOnly(s, p, c, late) ==
    IF HeartbeatOutcome(s, p, c, late) \in {"ONLINE", "UNCHANGED"}
    THEN [s EXCEPT !.presence = [@ EXCEPT ![p] = c]]
    ELSE s

HeartbeatAfter(s, p, c, late) ==
    IF HeartbeatOutcome(s, p, c, late) \in {"ONLINE", "UNCHANGED"}
    THEN MarkedOnline(s, p, c)
    ELSE s

\* Checks the key before the room, and neither the status nor the clock.
DisconnectOutcome(s, p, c) ==
    IF s.presence[p] \notin {None, c} THEN "STALE_CONNECTION"
    ELSE IF ~s.present THEN "ROOM_UNAVAILABLE"
    ELSE IF p \notin s.members THEN "AUTHENTICATION_REQUIRED"
    ELSE IF p \in s.online THEN "OFFLINE"
    ELSE "UNCHANGED"

DisconnectAfter_KeepsKey(s, p, c) ==
    IF DisconnectOutcome(s, p, c) \in {"OFFLINE", "UNCHANGED"}
    THEN [s EXCEPT !.online   = @ \ {p},
                   !.version  = IF p \in s.online THEN @ + 1 ELSE @]
    ELSE s

DisconnectAfter(s, p, c) ==
    IF DisconnectOutcome(s, p, c) \in {"OFFLINE", "UNCHANGED"}
    THEN [s EXCEPT !.presence = [@ EXCEPT ![p] = None],
                   !.online   = @ \ {p},
                   !.version  = IF p \in s.online THEN @ + 1 ELSE @]
    ELSE s

\* authenticateAndLoad: a read; the handshake, restore and chat use it.
AuthenticateOutcome(s, credential, late) ==
    IF ~Available(s, late) THEN "ROOM_UNAVAILABLE"
    ELSE IF credential \in s.members THEN "AUTHENTICATED"
    ELSE "AUTHENTICATION_REQUIRED"

-----------------------------------------------------------------------------
(***************************************************************************)
(* Redis itself: keys end with their TTL.                                  *)
(***************************************************************************)

\* The room key lives for ttl + cleanupGrace, so it outlives expiresAt.
RoomKeyLapsed(s) == [s EXCEPT !.present = FALSE]

\* A presence key lives for presenceTtl after the last connect or heartbeat.
PresenceKeyLapsed(s, p) == [s EXCEPT !.presence = [@ EXCEPT ![p] = None]]

-----------------------------------------------------------------------------
(***************************************************************************)
(* What the scripts keep true of a stored state, named part by part.       *)
(***************************************************************************)

\* The host has its seat, the limit holds, and who is online has a seat.
RosterOf(s) ==
    /\ Host \in s.members
    /\ IsFiniteSet(s.members)
    /\ Cardinality(s.members) <= MaxParticipants
    /\ s.online \subseteq s.members

\* Presence keys are found only under participants shown as online.
PresenceOf(s) == \A p \in Participants : s.presence[p] # None => p \in s.online

\* An ended room shows nobody online.
EmptyWhenEnded(s) == s.status \in TerminalStatuses => s.online = {}

\* A status is remembered exactly while the host is away.
BeforeOf(s) == s.before # None <=> s.status = "HOST_DISCONNECTED"

Consistent(s) ==
    /\ s \in Store
    /\ RosterOf(s)
    /\ PresenceOf(s)
    /\ EmptyWhenEnded(s)
    /\ BeforeOf(s)

\* What a client can see of the room.
Visible(s) == <<s.status, s.members, s.online>>

\* Between s and t the version moved by one if a client can see a difference,
\* and not at all otherwise.
VersionFollows(s, t) ==
    IF Visible(t) = Visible(s) THEN t.version = s.version
    ELSE t.version = s.version + 1

\* An ended room no longer changes.
EndIsFinal(s, t) ==
    s.status \in TerminalStatuses => Visible(t) = Visible(s) /\ t.version = s.version

=============================================================================
