# Watch Together in TLA+

These modules model the parts of Watch Together whose correctness depends on the
order of things: the room kept in Redis, the WebSocket handler of the backend with
its timers, the events that keep the browsers' copies of the room up to date, a browser tab
with its socket, its page, its LiveKit call and its film, the operator's console, and the
desktop application that runs all of it on a host's computer. TLC checks them on small
instances; TLAPS proves, for every value of the constants, the safety properties of the store, the
handler, the events, the tab's socket, page, film and call, and the media recovery.

## 1. The system

| Part | State | Operations | Talks to |
|---|---|---|---|
| **Redis room store** (`RedisRoom*Store.java`) | room JSON with `roomVersion`, one presence key per participant with a TTL | one Lua script each: save, join, leave, closeByHost, expire, markHostDisconnected, recoverHost, closeAbandonedRoom, connect, heartbeat, disconnect | called by every backend thread |
| **WebSocket handler** (`RoomWebSocketHandler.java`) | in memory: sessions of a room, current connection per participant, expiry task, host-reconnect task, chat windows | afterConnectionEstablished, handleTextMessage (heartbeat, chat), afterConnectionClosed, three publications, two scheduled tasks | store; sends events to browsers |
| **REST services** (`Room*Service.java`) | none | create, join, restore, leave, close, LiveKit token | store, then a publication of the handler |
| **client reducer** (`room-events.ts`) | `RoomSnapshot` of one tab | applyRoomServerEvent | fed by the socket |
| **room session hook** (`use-room-session.ts`) | room, status, socket, reconnect timer and attempts, heartbeat, pending action; LiveKit, file, voice and playback state | create, join, restore, leave, close, retry; socket callbacks; media operations | REST, socket, LiveKit |
| **media helpers** (`playback-state.ts`, `host-seek-controller.ts`, `media-recovery-signal.ts`, `file-publication.ts`, `voice-chat.ts`, `remote-playback.ts`) | revisions, a queued seek, cooldowns, tracks | publish, receive, seek, recover | LiveKit data messages and tracks |
| **in-memory store** (`InMemoryRoomStore.java`) | rooms, presence, idempotency keys behind one lock | the same as the Redis store | local profile, tests |
| **page** (`HomePage.tsx`) | forms, one error banner, chat, share sheet with QR code, seek bar, feedback form, system panel | buttons and effects | the hook, REST |
| **operator console** (`OperatorDashboardPage.tsx`) | token, rows, selected report, busy flags, an AbortController per kind of request | token, refresh, open, triage, export | feedback REST API |
| **rate limits, feedback, telemetry** | counters, reports with an index | tryAcquire; submit, list, triage; record | REST |
| **desktop shell** (`desktop/src/main`) | supervisor status, sidecar processes, gateway with its connections, window | launch, start, stop, quit, proxy | backend, LiveKit, guests' browsers |

What is hard here:

- **No lock covers the store and the handler's tables.** A connect runs a script, then
  registers, then cancels a timer, then recovers the room, then sends the snapshot; a close
  unregisters, then runs a script, then marks the room, then schedules. Callbacks of
  different connections, REST threads and the scheduler interleave between any two.
- **Events are sent after the scripts they describe**, in any order; the client orders by
  `roomVersion` and drops what comes late.
- **Timers race with returns**: the grace period of a lost host, the expiry of the room, the TTL
  of presence keys, the reconnect backoff of the browser.
- **Everything in the handler is lost on a restart**, while Redis keeps the room.
- **A REST answer may be lost** although the server did what was asked, while the socket drops.
- **Connecting to LiveKit, checking a file and publishing it overlap** with one another and with
  stopping, leaving and losing the connection; a request id decides what a late answer may do.
  Voice, statistics, seeks, plays, QR codes and the operator's requests have the same trouble.
- **Messages and tracks of one film overtake one another**: revisions start again with every
  publication while tracks of the old one are still being taken back.
- **Two stops and a start of the desktop supervisor overlap**, while processes die or ignore signals.

What makes each part correct:

- store: the host's seat and the seat limit; presence only of members shown online; the version
  names the state; an ended room stays ended;
- handler: nobody shown online for ever without a connection; no presence key and no entry of the tables
  left to a finished connection; a room whose host stays away ends; a host that is back is spared
  (section 3 has when it is not); sockets without business close;
- events: a client that missed nothing shows exactly the room; no event brings an ended room back on screen;
  a client that is up to date agrees with the server when all is quiet (again, not always);
- tab: one line at a time, no heartbeat without a socket, no endless reconnecting; a pending close ends
  while the tab has a line; no code of a former room stays on the sheet; a retry repeats what failed
  (not always);
- film: guests are offered the host's current publication and nothing else, a publication on its way
  ends, the preview and the seek bar are right; guests follow the film and are silent when away;
- call: no microphone is forgotten, nothing of a former call appears, the card is not rosier than the
  network; a guest that asks for recovery reads about its own request and is released;
- console: what is shown belongs to the token, a busy page has an answer to come;
- desktop: no process is left, starting and quitting end, nobody waits for a backend that died before it
  answered.

`PROJECT.json` lists the components with their status and the hazards line by line.

## 2. Modules

| Module | Models | Kind |
|---|---|---|
| `Absent` | the value `None`, for what a variable may be without | constant level |
| `RoomScripts` | every Lua script as an outcome operator and a next-value operator on the record of one room; the consistency of that record | constant level |
| `RoomLifecycle` | what a room promises: seats, audience, one end | abstract specification |
| `RoomStore` | the scripts called in any order, by anyone, with clocks read earlier | state machine; implements `RoomLifecycle` |
| `MCRoomStore` | instance for TLC | |
| `RoomScriptsProofs` | what each script may do to a room, and that this keeps a room consistent | lemmas |
| `RoomStoreProofs` | theorems about `RoomStore` | proofs |
| `RoomWebSocket` | the handler, REST publications and tasks over `RoomScripts`, one action per access to shared state | state machine; implements `RoomLifecycle` |
| `MCRoomWebSocket` | instances for TLC | |
| `RoomWebSocketProofs` | theorems about `RoomWebSocket` | proofs |
| `RoomEvents` | scripts, the events they are announced with, and one client's reducer | state machine |
| `MCRoomEvents` | instances for TLC | |
| `RoomEventsProofs` | theorems about `RoomEvents` | proofs |
| `RoomSocket` | the socket, reconnect timer, heartbeat and REST requests of one tab | state machine |
| `RoomPage` | forms, banner and share sheet around `RoomSocket` | state machine; extends it |
| `RoomPageProofs` | theorems about both | proofs |
| `FilePublication` | the LiveKit connection, the selected file and its publication in the host's tab | state machine |
| `HostStage` | the host's preview, play button and seek bar around `FilePublication` | state machine; extends it |
| `Screening` | the host's playback state and tracks on their way to a guest's player | state machine |
| `FilmProofs` | theorems about the stage and the screening | proofs |
| `VoiceChat`, `QualityIndicators` | the microphone and the voices of others; polls of the network's quality | steps of `LiveKitCall` |
| `LiveKitCall` | both under one LiveKit connection that comes and goes | state machine; composes them |
| `MediaRecovery` | guests that ask the host to restart the film | state machine |
| `LiveKitProofs` | theorems about the call and the recovery | proofs |
| `OperatorConsole` | the operator's page and the feedback service | state machine |
| `DesktopShell` | the desktop application: supervisor, sidecars, gateway connections, quitting | state machine |
| `DesktopPage` | the host's window and the guests' pages and requests around `DesktopShell` | state machine; extends it |
| `DesktopConsoleProofs` | theorems about the desktop and the console | proofs |

A definition named `X_Fault` is a faulty variant of `X`. No module uses it; it is what `X` would be
with a plausible bug, and shows that the property listed with it in `PROJECT.json` depends on
`X` being right.

### RoomScripts and RoomStore

A room is a record: `status`, `before` (`statusBeforeHostDisconnect`), `members`, `online`, `version`
(`roomVersion`), `presence` (the connection id in each participant's presence key, or `None`)
and `present` (whether the room key exists). Redis runs a script atomically, so `JoinOutcome` and
`JoinAfter` and their like are functions of that record, branch by branch as the Lua text has
them. The credential of a participant is identified with the participant; ids are fresh. Time
is a flag: `due` says that `expiresAt` has passed. A caller reads the clock before its script runs,
so a script gets any `late \in {FALSE, due}`. Room and presence keys may lapse.

### RoomWebSocket

`pc[c]` walks a connection through its two callbacks:
`connect -> register -> cancelTimer -> recover -> greet -> serving` and
`unmap -> disconnect -> mark -> schedule -> done`. The names are those of the calls in
`afterConnectionEstablished`, `unregister` and `handleHostDisconnect`. `sessions` is the set
object in `sessionsByRoom` with an identity, because `unregister` removes the set it found
empty only if it is still that object. `grace` holds tasks that wait for their deadline,
`graceTask` the one in `hostReconnectTasksByRoom`; `worker` is what the single scheduler thread
runs. REST requests are one script followed, in a later step, by their publication (`pending`).
A send may throw (`SendsMayFail`) and end the callback at that point, as the `IOException` does.
`Crash` forgets everything but Redis. Texts of messages, chat windows and metrics are left out.

### RoomEvents

A backend thread runs a script and leaves the events it owes in `outbox`; `Send` delivers the next event
of any thread, since only sends to one session are serialised. The host's two callbacks run a second
script (mark, recover) in between. The viewer's session is `connected` (store.connect has run),
`registered` (broadcasts reach it), `open` (the snapshot, read at connect, has been sent).
`publishRoomClosed` sends `room.closed` and closes the session later (`ViewerDrop`); until then the open
callback may still send the snapshot it read before. `Apply` is `applyRoomServerEvent`. `log` remembers
the room at each version, and `contiguous` whether the client has missed a version since its last
snapshot: these two are only observed.

### RoomSocket

`conn`, `sock`, `timer`, `attempts`, `heartbeat`, `pending` are the refs and state of the same names in
`useRoomSession`. Callbacks of a socket that is no longer `socketRef.current` return at once, so only
the current one is there. `onerror` is always followed by `onclose`, which decides, and is part of it. A
REST request is asked and answered (or not) in separate steps, and a leave or a close is served (or not) in
between; of the others, the answer tells what the server has done. No action looks at what
is in flight: the buttons look at `pendingAction`, which a socket that closes, or `room.closed`, clears
while the request goes on. `requests` therefore counts what is in flight of each kind and stage, up to
`MaxRequests` at once; a leave or close asked before the tab has entered another room is on its way to a
`former` one, and its answer is taken all the same. `OnLateSnapshot` is the snapshot that `room.closed`
has overtaken.

### FilePublication

`tab` holds the state and refs of `useRoomSession` that concern LiveKit and the film; `link` is
`liveKitStatus`, `connection` is `liveKitConnectionRef`, `publication` is `filePublicationRef`,
`recovery` is `hostPublicationRecoveryRequestedRef`. `attempt`, `check` and `request` are the three
request counters. The code only compares a counter with an id taken from it, so a counter is
modelled by the request that still holds its value, or `None` after it has moved on. Ids are
then names from a finite set that are used again once nothing refers to them.
A `connectLiveKit` call under way is in `dialing`, a `selectFile` call in `checking`; a publication in
`calls` goes `preparing -> video -> audio -> live`, where the steps are the awaits of
`publishFileToLiveKit`, and carries the room and file it was called with. `rooms` and `tracks` are
what LiveKit has of this tab. `Reports` says how many of the two events of `connectLiveKitRoom` a lost
connection comes with. `connectLiveKit` is called by create, join, restore and
`retryLiveKitConnection`, in any state without a connection; the page itself offers the last only
after an error. `Publish` and `StopFilePublication` have the conditions of the page's buttons.

### RoomPage and HostStage

Both take every step of the module they extend together with what it does to the page, and add the
page's own actions. In `RoomPage`, `last` is `lastRoomActionRef`, `banner` is the kind of `userError`
(its area, and whether it offers to try again), and the sheet's code is of this room or a former one. In
`HostStage` the page is rendered (`shown`) after the state has changed and its effects run then;
`preview` is the publication whose stream the preview element has, `source` the element of the
publication with the seek controller: `flying` is `seekInFlight`, `queued` is `queuedSeek`, `told` says
that `activeSeekComplete` is set. `wanted` is only observed. Stopping resets the source element, which
settles its pending plays; `Cut` has both orders of what follows. Whether the film plays, pauses or has
ended is not in `HostStage` (it is in `Screening`), so a play may be asked for at any time a publication
is shown.

### Screening

The host's publisher sends a message with every change and with every tick of its heartbeat,
each with the next revision; the receiver drops what is not newer than the latest. Revisions
themselves are unbounded, so a message carries only whether it is its publication's first, and
`guest.earlier` is how many messages of the present publication will be dropped, for the revisions an
earlier one has reached: any number up to `MaxEarlier`. Data messages keep their order, tracks come
and go on their own, also those of publications long over. `screen` is the guest's video element;
`plays` are promises of `play()` that are pending, with who waits for each and whether it has been
aborted by a new source or a pause.

### VoiceChat, QualityIndicators and LiveKitCall

An attempt to speak goes `asking` (the browser's question) -> `publishing` -> done, its id compared with
`voiceRequestIdRef` when it is answered. `mics.open` are the devices in use and `mics.onair` what
LiveKit has. `ears` is `createRemoteVoiceController`. A poll of statistics is counted while it waits and
assessed, with the connection qualities known by then, when it is answered; polls of a controller that
has been disconnected are answered too (`late`). `plays` are promises of `play()` for the voices of
others that are pending: each is answered later, by which time its track may be gone or the call over
(`late`); a refusal is shown only by a controller that is still there. `LiveKitCall` starts and ends
both with the connection, as `connectLiveKit` and `disconnectLiveKit` do.

### MediaRecovery

A guest's request has an id; `latest` is `latestRequestId`, `previous` the one a failed send gives back.
`sends` are calls of `publishData` under way, `late` those whose connection was lost meanwhile: they are
answered at any later time, as LiveKit chooses, and the card takes the answer for its own
(`use-room-session.ts:489-501`). The host has one alert and one restart under way. Cooldowns and timers
end at any time. Assumed of LiveKit: on a connection that holds `publishData` resolves before the host's
answer arrives. Answers may be lost, and requests to a host that is away.

### OperatorConsole

A request is asked, served and answered in separate steps; the one that replaces it, a new token and
leaving abort it. An aborted triage may be served all the same. Another operator triages reports,
people submit some, and retention removes them.

### DesktopShell and DesktopPage

`starter` and `stopper` say where `start` and the `stop` of `before-quit` have got to; the catch of
`start` runs a `stop` of its own. `children` has the processes, those in the supervisor's list, and
those each of the two stops waits for. A child may die at any time, or ignore SIGTERM until the timer
sends SIGKILL. A child that is killed counts as gone at once, although `stopChild` looks at `exitCode`
only and waits for its kill timer when a signal ended the child: such a stop takes longer than in the
model, and ends all the same. Whether the address of the network can be told and the files are there is
a choice of `Launch`. `app.quit` is "hasty" when a quit was not waited for: a second one, one during a
start, or one after the window was closed. `DesktopPage` adds `webContents.send` as an ordered `mail` to
the window, the requests of a guest's page through `handleRequest`, `proxyHttp` and `proxyUpgrade`,
where the head of an answer and its body arrive separately and the backend may die in between, and the
page's own use of them (React Query with one retry, the feedback form, the room's line).

## 3. Runs

| Run | Question | Bounds |
|---|---|---|
| `room_store` | Are the seats kept, does a version name one state, and do the scripts implement `RoomLifecycle`? | 4 participants for 3 seats, 2 connections, 10 versions; guests and connections symmetric |
| `websocket_interleavings` | Do the interleavings of callbacks, publications and tasks keep presence in order, and the tables free of what is over? | 2 connections of the host and 1 of a guest; sends may fail, keys lapse |
| `websocket_restart` | Do the sockets of an ended room close, and does whoever is served become visible, also over a restart? | 2 connections of the host, 1 restart, failures and lapses; fair |
| `websocket_guests_wait` | Does a room abandoned by its host end, if neither reconnects and the guest's socket holds? Does the socket of a guest that has left close? | 1 connection each, keys lapse; fair |
| `room_events_exact` | Does a client that missed nothing show exactly the room, and does no event bring an ended one back? | host, viewer, one more guest, 6 versions |
| `room_socket` (`RoomPage`) | One line, no endless reconnecting, an end of a pending close, a code of this room? | 2 attempts instead of 10, 2 requests in flight; fair |
| `file_publication` (`HostStage`) | Do guests get the host's current film and nothing else, are preview and seek bar right, and does publishing end? | 2 connections, 2 files, 2 publications at a time, 2 positions; fair |
| `screening` | Has the guest the current tracks, is it silent when away, does it follow the film in the end? | 2 publications, video and audio, 1 earlier revision, 1 message under way; fair |
| `call` | No forgotten microphone, nothing after the call, no rosy card, no endless "requesting"? | 2 attempts, 1 other voice with 1 pending play, 2 people, 2 polls; fair |
| `recovery` | Does a guest read only about its latest request, is an open alert unanswered, is a guest released? | 1 guest, 3 request ids, 2 answers under way; fair |
| `operator_console` | Does what is shown belong to the token, and has a busy page an answer to come? | 2 reports, 2 tokens, 2 requests under way |
| `desktop` (`DesktopPage`) | Is nothing left running, do start and quit end, is the indicator right, does nobody wait for a backend that died before it answered? | 1 guest with 1 page and 1 of the 2 queries; fair |

Why the bounds suffice: three seats with four participants make a join fail at the limit and succeed
after a leave. Ten versions are more than any sequence of steps one of the properties relates: away,
back, away, end with joins and leaves between them. Two connections of one participant are what every
test on connection ids tells apart (mine or another one), and a third of another participant decides
whether the room is deserted. Six versions let a member join, leave and the host go, come back and the
room end, while events of each are still under way. Two attempts give a first and a last one. Names of
connections, files, publications, attempts and requests bound what is under way at one time, not how
often anything is done: they are used again as soon as nothing refers to them, and two of each are a
current and an outdated one, which is all that request ids tell apart. Two people give a call someone
who is fine and someone who is not; two polls, one that overtakes another. One earlier revision makes a
message be dropped, and every message more is dropped alike. One query stands for both of
`useSystemStatus`, which do not meet before the panel reads them; two guests of the gateway do not meet
either. Two requests in flight are a forgotten one and the one begun beside it. Guests that ask for
recovery meet at the host, which has one alert and one restart; three requests of one guest are on the
alert, in the restart and on their way there at once, as those of several would be. The proofs are about
any number of guests.

### Where the code and its documents differ

Met while modelling. The models have the behaviour of the code, and the properties are stated so that
they say what it does keep; the following is what it does not.

The room:

- **The host's blink.** The close callback of an old connection runs `disconnect`, the host
  connects again and reads a room that is not yet marked, the old callback marks it and schedules
  the task, and the task closes the room under a host that is connected
  (`docs/WT-402_HOST_RECONNECT.md:18`).
- **The guest's blink.** The last local session of a room cancels the host-reconnect task, also when a
  guest is only reconnecting: the room stays `HOST_DISCONNECTED` until it expires
  (`docs/WT-402_HOST_RECONNECT.md:9`). It happens even if the guest's new connection never drops, when
  the old one's callback is slow, and two connections of the host can do the same without any guest.
  `websocket_guests_wait` is therefore limited to one connection of either.
- **The dropped event.** Two threads send their events in the other order than their versions; the
  client drops the lower one, and with it the participant it was about, until the next
  snapshot (`docs/WT-208_FRONTEND_ROOM_EVENTS.md:39,42`). A broadcast may also reach a session before its
  snapshot, which may then be older than what the client has (`contracts/README.md:63-64`).
- **The ended room that comes back.** `publishRoomClosed` sends `room.closed` and then closes the
  session (`RoomWebSocketHandler.java:570-571`); in between the open callback of a new session may send
  the snapshot it read before (`:118`), and the client takes every snapshot (`room-events.ts:180`). The
  close that follows has code 1000 and leaves it so: the tab shows a live room without a line.
  `EndedViewStays` therefore allows this snapshot, and no event.
- A session may register into the set that `unregister` has just found empty and removes from the map:
  it is served but no publication finds it (`docs/WT-205_ROOM_CLOSE_EXPIRY.md:67`); its next heartbeat
  is refused, which `UnwelcomeSocketsClose` covers.
- Two connections of one participant may reach the store in one order and the table in the other, and
  the one the store holds as current is closed (`docs/WT-204_PRESENCE_HEARTBEAT.md:14`).
- The grace task of a host whose session was the last one is scheduled after it has been cancelled
  (comment in `RoomWebSocketHandler.java:479-481`).

The tab:

- **The forgotten film.** A lost LiveKit connection is reported as a changed state and as a
  disconnect; the second report finds the publication gone and clears the request to recover it
  (`docs/WT-406_FRONTEND_WEBSOCKET_RECONNECT.md:20`). A failed attempt to connect again clears it too.
- **The publication without a stop button.** A guest's alert or the restart button during LiveKit's
  own reconnecting makes `publishFile` refuse and set the card to an error, while the publication goes
  on; the stop button is enabled only for `publishing`, `restarting` and `live`
  (`docs/WT-304_LIVEKIT_FILE_PUBLISH.md:19`).
- **"Try again" repeats another action.** `onclose` (`use-room-session.ts:1561-1564`) and `room.closed`
  (`:2180`) clear `pendingAction` while the close or leave is in flight, and the forms are enabled
  again. When it fails late (`:1872-1882`), its banner appears after a create or join has begun, and its
  button repeats `lastRoomActionRef`, which is the newer action (`:1885-1908`); it is not disabled while
  an action is pending either. A late success is worse: a leave tears down the room entered since, a
  close disconnects LiveKit and clears the file of the new room (`:1818-1827`, `:1863-1871`).
- An `error` event with a code that is not the chat's puts up a banner that offers the last action again
  (`use-room-session.ts:2114-2126`). This backend sends none.
- The host's socket drops while its close request is in flight; the tab marks the room closed, the
  request fails, and the room goes on (`use-room-session.ts:1565`). A close that succeeds while the tab
  has no line and tries none leaves `pendingAction` at "close" for ever: `PendingCloseEnds` is about a
  tab that has one.
- An aborted restore leaves `pendingAction` at "restore", and `restoredRouteRoomIdRef` keeps the same route
  from being restored again.
- The button that reconnects goes away with its banner: dismissed, or replaced by another area's, it
  leaves a connection in `error` that nothing on the page can retry.
- A chat message over a socket that is dying is lost with its draft.
- A QR code that cannot be made leaves a former room's code on the sheet (`HomePage.tsx:485-489`); a
  click on the share trigger while the sheet is open drops the code, and no effect makes it again.
- After a seek that timed out, `onComplete` is never called and the bar stays at its draft
  (`docs/WT-627_STAGE_CONTROLS_AND_STABLE_SEEK.md:17-24`); the end of a seek during a new drag resets the
  bar under the finger; after the film has ended, seeking back leaves the play button disabled
  (`HomePage.tsx:1046`).
- `attachHostPreview` unmutes the preview (`use-room-session.ts:523`) while the page shows it muted.
- A failed mute leaves the card in `error` with a publication on the air, and only the start button, which
  does nothing then; answers to mute and unmute ignore the request id
  (`use-room-session.ts:1321-1365`). `connectLiveKit` does not reset the voice card.
- The quality controller never forgets a participant who has left, so a lost one spoils the card for the
  rest of the call.
- A late answer to a request of a lost connection sets the guest's card to "sent" although the new
  connection has asked for nothing. If the status "started" of an earlier request is read then, the
  timer of ten seconds finds it, is not armed again (`use-room-session.ts:1989-2002`), and the button
  may stay disabled until the host answers or the connection changes; `GuestIsReleased` is about waiting
  without such a status.
- An alert that is overwritten by another guest's, or a restart that is overtaken, is never answered; the
  host's cooldown drops a request of a guest who has reconnected. Both end by the guest's timer.

The console and the desktop:

- `handleTriage` decides whether to replace the detail by the report selected when it was called
  (`OperatorDashboardPage.tsx:392`); a list asked for earlier may overwrite a newer row
  (`docs/WT-609_OPERATOR_DASHBOARD.md:25-26`); triage has no version, so the later of two operators wins.
- Feedback sent again after a lost answer is recorded twice, and text typed meanwhile is lost.
- Closing the window destroys it, the supervisor's listener then sends to it and throws inside `stop`
  (`main.mjs:26-28,75`), and the children stay (`docs/WT-647_DESKTOP_HOST_ARCHITECTURE.md:137`). So may a second
  quit during a stop, or a quit while LiveKit is being started. `NothingLeftRunning` is about a quit
  that none of this happens to.
- **The half answer.** The gateway pipes the head of an answer and then its body (`gateway.mjs:91-98`).
  When the backend dies after the head, the error handler (`:99`) does not run and nothing ends the
  guest's response; its `fetch` has no timeout and waits as long as the gateway lives.
  `NobodyWaitsForTheDead` is about requests whose answer had not begun.
- The backend's death while LiveKit starts is overwritten by "running"; a page that cannot be loaded after
  a successful start shows the start error while the host runs; the system panel does not ask again by
  itself, so "ready" can outlive the backend.

### Fairness

`RoomWebSocket!FairSpec`: container threads run the callbacks they have started (weak fairness on
`Callback(c)`), the scheduler thread runs its tasks (`Task`), REST threads publish what
they have stored (`Publish`), and a browser that is connected sends heartbeats (`Heartbeat(c)`,
an interval of the client). Nothing is assumed of users, of the network, of the
clock or of key expiry: joins, leaves, closes, drops and lapses may happen or not.
`Steady` names connections that their client never drops; only `websocket_guests_wait` has one.

`RoomPage!FairPageSpec`: a socket that is opening opens or fails; a socket of an ended room or of a
participant without a seat is closed (by the publication or the refused heartbeat, which
`UnwelcomeSocketsClose` shows of the handler); reconnect timers fire; a request to close the room is
answered or fails (`RoomSocket!Fairness`); and a QR code that is being made is made or fails. A socket
that works may work for ever, and so may every other request.

`HostStage!FairStageSpec`: an attempt to connect ends, a publication under way goes on or fails
(metadata and seeking have timeouts, the other promises are the browser's and LiveKit's and are
settled when the room is gone), and React runs the effect that publishes again. Users and the network do
as they like.

`FairScreeningSpec`: the host's interval ticks and LiveKit delivers messages, tracks and the
departure of the host. `FollowsInTheEnd` is about a film that stays as it is and a guest that stays, so it
needs nothing of users.

`LiveKitCall!FairSpec`: LiveKit answers a publication; the browser's question for the microphone may
stay open for ever. `FairRecoverySpec` (of `MediaRecovery`): a send on a connection that holds resolves
or rejects, and the guest's two timers fire. Nothing is assumed of the host, nor of answers that are
late.

`DesktopPage!FairPageSpec`: `waitForHealthy` and `stopChild` have timeouts, so starts and kills go on; a
backend that lives answers a request, and the socket to one that died before it answered fails; answers
reach the page. The window's loading, its messages and every click are not fair, and children may live
for ever.

Deadlock is not checked where the system may stop: a handler whose connections are all over, a
tab in which the user does nothing more, an application that has quit.

## 4. Proofs

Everything here holds for all values of the constants under the assumptions the modules name. Each part
rests on one inductive invariant (`IInv`, or one named after its part), which TLC has checked on the
instances of section 3 before it was proved: at most some two million states each. A theorem
`TypeCorrect` or `...TypeCorrect` says that the variables keep their types. Every invariant and every
action property the runs check is a theorem, and so are both refinements of `RoomLifecycle`. A proof
module may cover two modules that share no variables, as `FilmProofs` does the host's stage and the
guest's player.

| Proofs | Theorems on properties of section 3 | Others |
|---|---|---|
| `RoomStoreProofs` | `RosterConsistent`, `VersionNamesState`, `ImplementsLifecycle` | presence, the empty and final end, `before` |
| `RoomWebSocketProofs` | `NoStalePresence`, `NoGhost` (until a restart), `NoLeakedSession` | the refinement of `RoomLifecycle`; the store stays consistent; an ended room is not changed |
| `RoomEventsProofs` | `ContiguousViewIsExact`, `EndedViewStays` | |
| `RoomPageProofs` | `OneLine` | `HeartbeatWithSocket`; the page implements the socket |
| `FilmProofs` | `OneConnection`, `NoOrphanTracks`, `PublishedIsSelected`, `NothingUnasked`, `PreviewIsPublication`, `BarFollowsNewestSeek`; `ShowsOfferedFilm`, `SilentWhenAway` | `LiveIsPublished`; the stage implements the publication |
| `LiveKitProofs` | `NoForgottenMicrophone`, `NothingAfterTheCall`, `QualityNotRosy`; `StatusOfLatest`, `OpenAlertIsUnanswered` | |
| `DesktopConsoleProofs` | `NothingLeftRunning`, `FailedStartLeavesNothing`, `IndicatorIsCurrent`; `ShownBelongsToToken`, `BusyMeansPending` | the window's page implements the shell |

**RoomScriptsProofs** is what the three modules above the scripts share. *Shape* lemmas say what a
script may do to the record of a room (`SeatTaken`, `Ended`, `HostLost`, ...); *Safe* lemmas say that
such a change keeps `Consistent` (the record's type, the roster, presence, the empty end and `before`)
and follows the rules of versions and ends.

**RoomStoreProofs** (any participants, connections, seat limit and number of versions). `Consistent`
is not inductive by itself: a join must not bring in somebody who has a seat, and this follows from
ids being fresh. `IInv` therefore adds `store.members \subseteq issued`. One step lemma puts an action of
`RoomStore` together from the Shape and Safe lemmas. `VersionTheorem` and `FinalityTheorem` are action
properties; `Refinement` shows every script to be a step of `RoomLifecycle` or a stutter.

The assumptions are those of `RoomScripts` and `RoomStore`: the host is a participant, `None` is neither
a participant nor a connection, the seat limit is a positive natural number. Participants need
not be finite; the members are.

**RoomWebSocketProofs** (any connections with any owners, any number of restarts). The properties are
about connections that have finished; what makes them inductive is where the callbacks of a connection
can be while something still refers to it. `KeyHeld`: a presence key names a connection of its
participant that is between `connect` and `disconnect`, or that a restart has cut off. `TablesLive`: a
connection is in the set of sessions only between `register` and `unregister`, and is the current one of
its participant only until `unmap` has run. `ShownHasWorker`: a participant that is shown online
although one of its connections has gone has another one at work. This needs the comparison of
connection ids in the disconnect script: an old connection that finds the key of a newer one leaves the
participant online, and `KeyHeld` says that the newer one is alive. The last part is about `crashes =
0`, and so is `GhostTheorem`. With a restart TLC shows that it fails: the restart cuts off a connection
of the host, the room's time runs out before the next one has reached the store, which refuses it, and
the host stays shown with nobody left to take it back. The theorems about keys, tables and the store
hold over restarts. `EndTheorem` is about the stored room: whatever callback, task or publication is
still under way when a room ends, it changes neither its status nor its members nor who is shown online.
`LifecycleTheorem` is the refinement: the step lemma says of every step of the handler that what it
stores is a change one script may make, and `StoredLives` that each such change is a step of
`RoomLifecycle` or invisible to it. The seat limit needs the roster of `Consistent`, since the script
compares the members it finds, not those the caller has seen.

**RoomEventsProofs** (any participants, connections and seat limit; versions up to any bound). An event
is under way while the room moves on, so it cannot be compared with the store. `EventsInv` compares it
with the history instead: each `Describes` the step from the room before its version to the room at its
version, applied once or on top of the latter. The history only grows, so this stays true however long
an event is delayed. `ClientInv` says that a session not yet open is owed a room the history has, which
had not ended. With both, `Apply` on an exact view gives an exact view. The host's own presence is left
out, as in the property: `host.disconnected` and `host.reconnected` only imply it. For `EndedViewStays`,
a view that shows the room ended is at the last version there is, so that an event still under way is
older, and skipped, or is the very one that ended the room. Assumed beyond `RoomScripts`: the viewer is
not the host and more than one seat (the code has four), so that the viewer can have one.

**RoomPageProofs** (any number of attempts and of requests in flight). `Inv == TypeOK /\ OneLine /\
HeartbeatWithSocket` of `RoomSocket` is inductive: the two lemmas on `disconnectSocket` and
`scheduleRoomReconnect` say what either leaves behind, and every action on the line is one of them or
keeps it. `PageIsSocket` shows that every step of the page is one of the socket or leaves it alone, so
the page has whatever is proved of the socket; its own types are inductive by themselves.

**FilmProofs, the stage** (any connections, files, publications, positions and reports). The properties
of `FilePublication` are about tracks, the card and the file, the code about request ids; `Inv` says
what the ids stand for. `Linked`: without a connection there is no room, no request and no publication.
`Dialed`: an attempt that still counts is the only line. `Checked`: while the latest file is being
checked nothing is selected or published. `Latest`: the publication is the latest request and the only
live call. `Fresh`: the latest request works for the connection and the file on screen, and the card
says that it is on its way. `Tracked`: tracks are in the room and belong to a call. None of them is
inductive alone: `NoOrphanTracks` needs `Latest`, `PublishedIsSelected` needs `Fresh`, which needs
`Checked` for the moment at which a file is accepted and `Linked` and `Dialed` for the moment at which
the connection is replaced. One lemma for each action shows that it keeps `Inv`, and `NothingUnasked`
follows from `Fresh`. The stage inherits all of it (`StageIsPublication`). On top, `StageInv` says that
a pending play is of the publication, that a seek in flight or waiting has an end to come, and that the
position that waits, or else the one in flight, is the one asked for last: `BarFollowsNewestSeek`
follows. Assumed: `None` is neither a request nor a position, and a loss is reported once or twice.

**FilmProofs, the screening** (any publications and kinds of tracks, any number of revisions dropped and
messages under way). Neither property is inductive: both look at moments, a guest that has been told of
every track or one that is away, and what they say of these moments has been prepared by all steps
before. `OfferedIsShown`: only tracks of the publication are offered. `TracksAreReceived`: the
controller holds tracks it has been told of, and among the tracks it was told of, those that are still
offered win over older ones of their kind, which is where the test of `handleTrackUnsubscribed` on the
track it is called with is needed. `SourceIsTrack`: the element, whenever it is there, has the
controller's video. `CardFollowsTracks`: the card speaks of a film exactly when there is a track.
`NothingWhileAway`: no pending play belongs to a guest that has left, so that none which is refused
later brings its card back. Assumed: video is a kind of track, and at least one message may be dropped.

**LiveKitProofs, the call** (any attempts, voices, people, statistics and bound on polls).
`PublicationSettled`: a publication waits for nothing, so no late answer of a start can be about it.
`NothingHere`: without a connection nothing is asked for, and what still waits, a poll or a play, was
asked of a connection that is known to be gone; a play refused then finds no controller to show it.
Quality has its own half: the lemmas on `Worst` and `Assess` say that the worst quality known survives
whatever a poll measured, so the last poll to be answered leaves a card that is not rosier, and
`PollsBounded` counts those still to come. Assumed: `None` is not an attempt, statistics are natural
numbers, and a poll may be under way.

**LiveKitProofs, the recovery** (any guests and ids, any number of answers under way). The argument
follows an id. While its request is being sent (`SendingInv`), is on its way (`AskedInv`) or is on the
host's alert (`AlertInv`), it is in that place only, and it is `Untold`: no guest has been told or is
being told about it, and no restart under way will answer under its name. The ids of late answers stay
taken, so none of them comes back under another request. The host takes it off the alert before it tells
of it. `StatusOfLatest` is inductive together with this: while a request is being sent nothing is shown,
so an id that a failed send gives back cannot be contradicted by the card.

**DesktopConsoleProofs, the desktop** (any guests, pages and queries). What makes "nothing is left"
inductive is who answers for a child. `ChildrenKnown`: one that is up is in the supervisor's list; one
that was told to stop is in the list no more, but one of the two stops, of the quit or of the failed
start, waits for it. `StartKnown`: when the catch of `start` begins to wait it has emptied the list, and
it is the only one to wait there. `StopKnown`: a quit that was waited for came when the start was
settled, so nothing is spawned after its stop has told the children to end, and it is over when they
have. `PageIsShell` shows that the window and the guests' pages only add to the shell, which therefore
keeps its promises under them. `IndicatorInv` adds `Told`: from the moment the indicator's question is
answered, the last message on its way to it, or else what it shows, is the status. Messages are taken in
order, so the last one settles it.

**DesktopConsoleProofs, the console** (any reports, tokens and number of requests under way).
`OnePerKind` and `AskedWithToken`: of lists, details, triages and exports at most one request each is
current, and it was made with the token in the form; an aborted one is never taken. With the two
properties, which need each other and these two, this is inductive: an answer that is taken is the one
the page waits for, and belongs to its token. Assumed: `None` is neither a token nor a report, and the
administrator's token is a token.

`TypeOK` of these modules, `PresenceImpliesOnline`, `TerminalIsEmpty`, `BeforeOnlyWhileAway`,
`TerminalIsFinal`, `HeartbeatWithSocket`, `LiveIsPublished` and `EndStays` are proved and need no run.
The types of `Screening`, `OperatorConsole` and `DesktopShell` are theorems too, and no run lists them,
as the runs are kept for the hazards.

Attempts to prove have corrected the models. `Applied` of `Screening` was a CASE with guards that
overlap: TLC takes the first that holds, but TLA+ leaves the choice open, and nothing could be proved of
it; it now has the order of the conditions in the code. The rest were invariants that were not
inductive, and are described above.

Only model-checked: every property that says that something ends: `UnwelcomeSocketsClose`,
`ServedBecomesVisible`, `AbandonmentEnds`, `ReconnectingEnds`, `PendingCloseEnds`, `FormerCodeFades`,
`PublishingEnds`, `FollowsInTheEnd`, `RequestingEnds`, `GuestIsReleased`, `StartAndQuitEnd` and
`NobodyWaitsForTheDead`. Liveness under fairness needs ENABLED, which the proof system does not have.

## 5. What is not modelled, and the plan

Left out of the modelled parts: parsing and validation of messages, chat texts and their windows,
error formats, metrics, several backend instances in `RoomWebSocket` (sessions and tasks are per
process; `RoomStore` allows any number of callers), and real time (`due`, timers that fire
at any moment). That a restart loses timers is documented as a limit (`docs/WT-402_HOST_RECONNECT.md:55`,
`docs/WT-508_BETA_DEPLOYMENT.md:143`), so `AbandonmentEnds` is checked without one.

In the tab: chat messages, sound, fullscreen and the hiding of the stage's controls (whose pointer flag
stays set if the surface goes under the pointer), the checks of `file-diagnostics.ts` (only their
outcome is in `FilePublication`), wording, and `network-stats.ts`, which nothing uses. In the desktop:
secrets, environment variables, contents of served files.

Planned, in this order:

1. `RoomMemoryStore`: the store of the local profile, step by step against `RoomScripts`.
2. `RoomCreation`: idempotency keys, collisions of generated ids, replay of the answer.
3. `RateLimits` (REST windows and chat windows) and the calls to Redis behind the feedback store.

Not planned: rendering of pages and components, telemetry (counters nothing reads back), LiveKit
tokens (a signed function of the stored room), REST errors and configuration, scripts,
infrastructure and the media proof of concept, which are not part of the running system.
