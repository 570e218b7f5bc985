# Unkvoid in TLA+

Unkvoid is a desktop app for screen sharing and voice. A Rust client (`native/`) talks to a
media server (`sfu/`, Node and mediasoup) and to a Laravel site (`web/`). People meet in rooms
of the SFU; the media of a room is encrypted end to end with MLS, whose messages the SFU puts in
one order without reading them.

This directory models the parts in which several machines, or several tasks of one, have to
agree: who is in a room, in what order its encryption changes and what each client makes of it,
where the media of a room lives, who is told about whom, and what the app's own tasks leave behind
when they overtake each other. The paths below are those of the repository.

| module | what it is |
|---|---|
| `CommitOrder` | what the relay promises MLS, with no peers, sockets or messages in it |
| `E2eeRelay` | one room of the SFU: who is in it, the E2EE session id, the relay of MLS messages, for any clients |
| `E2eeCall` | the clients around that relay: roster, group, committer, staged Commit, recovery |
| `E2eeCallProofs` | the theorems about `E2eeRelay`, and about the clients and the relay together |
| `E2eeSettledProofs` | the theorems about the clients while no socket is lost and no request fails: what they come to, and that nobody who stays is taken out |
| `E2eeHeirProofs` | the theorems about whom the group is left with, while no socket is lost, no request fails and nobody is kicked |
| `SfuRoom` | the registry of rooms, the sockets, and joins that wait while a room is created |
| `SfuRoomProofs` | the theorems about `SfuRoom` |
| `SfuProducers` | what one peer sends to the SFU: transports, producers, server mute, permissions |
| `SfuRouters` | one room over several media workers: who is on which router, expansion, dead workers |
| `Presence` | who is present in a channel, and what every listener was told of it |
| `SfuMediaProofs` | the theorems about those three |
| `VoiceMirror` | the webhooks and the accesses Laravel opens and closes from them |
| `SessionTokens` | the pair of tokens of an account: in the app, on its disk and at the site |
| `SiteProofs` | the theorems about those two; and that the parts of `MCParts` go on side by side as each does alone |
| `ClientSession` | the app's session in a room: dialling, joining, resuming, leaving, and the seat the SFU keeps |
| `VoiceCalls` | the calls of the desktop app: clicks, attempts to join, microphone, mute and deafen |
| `ClientMedia` | what a client watches: consumers opened, closed, hidden and opened again |
| `ScreenShare` | the screen a client sends, with its guard, its ladder of qualities and its resend |
| `ClientProofs` | the theorems about those four |
| `PacketRecovery` | lost and reordered packets of a received stream |
| `BitrateGovernor` | the bit rate of what is sent, following the loss |
| `KeyframeGate` | the key frames given to those who ask |
| `MediaKeys` | the counters that seal frames and the windows that open them, over the epochs of the group |
| `EngineProofs` | the theorems about those four |
| `MCE2eeRelay`, `MCE2eeCall`, `MCSfuRoom` | the instances of the first three for TLC, with their `.cfg` files |
| `MCE2eeCallFour` | four clients for `E2eeCall` |
| `MCParts` | one instance of each of the other thirteen, explored in one run |

Run a model with `tlc -config MCSfuRoom.cfg MCSfuRoom.tla`, a proof with
`tlapm SfuRoomProofs.tla`. `PROJECT.json` lists the runs, the lines each definition models,
the mutants, the findings and the hazards.

## Inventory

### Rooms, peers and sockets of the SFU (`sfu/src/app.ts`, `Services/RoomRegistry.ts`, `Services/Room.ts`, `Services/Peer.ts`, `Http/Controller/{Join,Leave,Peer,Room}Controller.ts`)

State: the registry's `rooms` and `creating` (promises of rooms whose first router is being
created); for each room its `peers` and the `evictions` timers; for each peer its socket, resume
key and `orphanedAt`; for each socket a session that names its room and peer.

Operations: connect, join (fresh, resumed or in place of another peer), leave, remove one who is
reconnecting, kick and move (signed HTTP from Laravel), close of a socket, end of the grace
period, death of a media worker, release of an empty room.

Hard: the join awaits the creation of the room, so everything it tested before is stale; several
joins go on from one promise; a resume moves a peer between sockets while the old socket may be
half open; every way out has to leave the registry, the timers and Laravel in step.

Correct when: every peer in a room has something that will take it out (the close of its socket,
or a timer); an account is in one room once; people with one code are in one room; a room with
nobody in it is closed; Laravel is told of every way out. Modelled in `SfuRoom`.

### E2EE relay of a room (`Room.ts` from `relayE2eeJoin` to `broadcastE2ee`, and `addPeer`)

State: `e2eeSessionId`, and per MLS group the current epoch and a digest of the last accepted
Commit. Operations: KeyPackage, Commit, Welcome; each join may mint a new session.

Hard: two Commits for one epoch; an answer lost and asked again; a Welcome that arrives after
the next Commit; peers whose requests are still handled while their socket is closing; the
session and the epochs that must be renewed together.

Correct when: the Commits of a group form one chain, whoever sends what; what a client still has
to receive is in the order of that chain. Modelled in `E2eeRelay`, against `CommitOrder`.

### E2EE clients (`native/shared/core/src/{e2ee_call,e2ee_group,room,session}.rs`)

State: the roster (and who in it is reconnecting), the MLS group, whose KeyPackage was seen, the
staged Commit, the early Commits kept while a Welcome is awaited, the call's state.

Operations: enter, each event of the room, each request and its answer, the loss of the socket,
resume, and the start of a new identity.

Hard: no client sees the room, only the events it got; the committer is elected by each one
alone; the handler awaits the relay in the middle of a decision; a request may fail although the
relay took it; a client may come back after the room made another session.

Correct when: people in one epoch of one group hold the same group; nobody is ahead of the
relay; nobody present is taken out; once it settles everyone in the room is in one group and has keys.
Modelled in `E2eeCall`.

### Client session (`session.rs`, `client.rs`, `reconnect.rs`, `resume.rs`)

State: resume key, `left`, the socket of the moment, attempts; at the SFU the seat of the account
and the socket it is on. Operations: join, supervise, forward, reconnect with backoff, leave.
Hard: the socket's two ends learn of its end separately; a request may be answered after it was
given up; two devices of an account replace each other; `leave` runs beside `supervise`.
Correct when a session that believes itself in the room has the seat, and who left does not come
back. Modelled in `ClientSession`; the roster in `E2eeCall`.

### Media routing of the SFU (`Room.pickRouter` to `plainTransport`, `Peer`, `Http/Controller/{Producer,Consumer,Transport}Controller.ts`)

State: routers of a room, the router of each peer, transports, producers, consumers, pipes,
`can`, `serverMuted`. Hard: nearly every handler awaits the worker between a test and its use.
Correct when no open producer is out of reach of a mute, a revocation or the end of its peer; an
answered mute holds; nobody stays in a room without a router; a room has one router on a worker.
Modelled in `SfuProducers` and `SfuRouters`.

### Channel subscriptions and presence (`Services/{Subscriptions,Authorizer,Broadcaster}.ts`, `SubscriptionController.ts`, `native/shared/core/src/realtime.rs`)

State: subscribers by channel and by socket, the identity of each session; in the app the list of
a channel. Hard: a subscribe waits up to three seconds for Laravel, a person has several sockets.
Correct when nobody is present without an open socket, and whoever listens was told every change
since the list it was sent. Modelled in `Presence`.

### Webhooks and the voice mirror (`Services/Webhook.ts`, `SfuController.php`, `ChannelAccess.php`, `GuestAccess.php`)

State: the posts on their way, the rows of accesses. Hard: a post is lost, overtaken, or late;
times are whole seconds. Correct when a late `left` never closes a newer access. Modelled in
`VoiceMirror`; whom the webhooks sent put in a room, in `SfuRoom`.

### Media part of the client room (`room.rs`, `sharing.rs`, `watching.rs`)

State: who is watched, closed and away, the consumer of each, what is being opened; the screen on
air, its producer, its quality. Hard: every click is a task that waits for the SFU while events
and other clicks go on; the guard takes the broadcast out of its place to redo it. Correct when a
screen that is watched has one consumer, and whoever stopped sharing sends nothing. Modelled in
`ClientMedia` and `ScreenShare`.

### Calls of the desktop app (`native/apps/unkvoid/src/voice.rs`, `stage.rs`)

State: seat, status, room, call, device, mute and deafen. Hard: attempts to join overtake each
other, each lock is taken for itself. Correct when the bar tells the truth: connecting only while
an attempt is on its way, and seated only in the room of the seat. Modelled in `VoiceCalls`.

### Decisions of the media engine (`native/shared/media/src/{recovery,governor,e2ee}.rs`, `KeyframeGate` of `sharing.rs`)

Mostly sequential code whose long runs tests hardly reach: sequence numbers that begin again, holes that
are given up, counts that survive a holdoff. The media keys are shared by the event loop, the
clicks and the media threads: correct when no counter of an epoch seals two frames and a receiver
opens each frame of its window once. Modelled in `PacketRecovery`, `BitrateGovernor`,
`KeyframeGate` and `MediaKeys`.

### Tokens (`native/shared/core/src/api.rs`, `app.rs`, `backend.rs`, `web/app/Services/Auth/AppTokens.php`)

State: the access and the refresh token in `Api`, the pair on the disk, the lock `renewing`; at the
site the tokens it takes. A request refused with the access token renews the pair, which spends the
refresh token, and goes once more; sign in, sign out and the start of the app write the same pair.

Hard: requests are refused together; the answer that brings a pair may be lost, or find another
person signed in; the app may stop between the two writes. Correct when nobody is signed out of a
session that is good, and nobody signed in who signed out. Modelled in `SessionTokens`.

### The rest

Capture, clips, storage: the operating system, frames written in order, files. The remaining media
engine: codecs, packet formats, pacing. HTTP client, desktop application and web application beside
the above: user interface, requests and a relational database. Kernel, requests and signatures of
the SFU: stateless; each modelled handler starts where its request is valid. Infrastructure:
configuration.

## How the modules correspond to the code

### E2eeRelay

A peer is an entry of `room.peers` that lives once, since peer ids are random: a client that
joins again is another peer. `status` tells where it is, `closing` being a peer that was taken
out while its socket still carries requests. `wire` is who has a working socket, `inbox` what is
on its way to each client. `SocketLost` may lose any end of it; `OrphanPeer` is the later moment
in which the SFU notices. `groups`, `opened` and `session` are `e2eeGroups` and `e2eeSessionId`
(a counter stands for the random id). `accepted` and the field `life` of the events are history
variables for the properties; no guard reads them.

The handlers of the relay have no await, so each is one action. Any peer may send anything: what
is proved here does not depend on the clients. `Told` chooses which other events the inboxes
keep; the relay's own runs keep none, `E2eeCall` keeps them all.

The limit of groups per room is `OpenGroup`. The rate limit `admitE2ee` needs no action here: a
refused request changes nothing in the relay, and no request has to happen. What a refusal does to
the client is `AnswerFails` of `E2eeCall`; the window of 10 s is not counted, any request may be refused.

### E2eeCall

Extends `E2eeRelay` and replaces the free senders by the clients. Each client is one event loop:
it takes an event off its queue, runs the handler to its first await, and `task` says what it
awaits; nothing else is taken meanwhile. `Handle...` are the arms of `handle_e2ee_event` and of
`Room::run`; `AskToJoin`, `SendCommit`, `HearAnswer` and `SendWelcome` are the requests; the
relay's answer travels apart from its events, as in the code. A request ends in an error, although
the relay may have handled it, with its socket (`RequestFails`) or while the socket lives
(`AnswerFails`: ten seconds without an answer, or the 429 of `admitE2ee`). `FailsE2ee` is what any
error does: a staged Commit is discarded and the encryption of that client has failed.

MLS is external. A group state is the sequence of Commits that led to it, each with the ratchet
tree it made; a Commit applies to the very state it was made in and to no other; a newcomer
takes the leftmost blank leaf. `presence`, `is_committer` and the removal of ghosts are
translated from `e2ee_call.rs` over that tree and the client's roster.

`Befalls` are people and the network: enter, lose a socket, get no good answer, come back, leave, be
kicked, be evicted. A client whose resume fails starts from nothing; here it is another peer. A client may
start a new identity at most `MaxStarts` times. `MaxEpoch` and `MaxInbox` bound only the free
senders of `E2eeRelay` and are not used here.

### SfuRoom

The SFU is one event loop. The one await on the join's path is that of `JoinController` on
`findOrCreate`. `ready` is the microtask queue: while it is not empty nothing but `Continue`
happens. A join whose room is there goes on at once; joins that wait for the room's first router
go on one after the other when `RouterReady` has it, or all fail (`RouterFails`). Everything
else is an event: `Ask`, `SocketCloses`, `SocketClosed` (the later close event), `Leave`,
`RemoveOrphan`, `KickUser` for any set of rooms, `GraceEnds`, `WorkerDies` for any set of people
of registered rooms (which people are on which worker is media routing).

A `Join` is one request a client will send; it also names the peer it creates and the Room object
it founds, which no code names: two Room objects of one code are two values of `where`. A join
may present a resume key that the same device got in that code (`Keys`), and asks to resume or
not. The conditions under which a key resumes, replaces or is ignored are those of `addPeer`.
The peers leaving together (a previous peer, the account's others, a kick, a dead worker) leave
in one action, as they do in one synchronous handler.

`Impatient` says whether a client may send a second join while the first is unanswered. It does
when its first request times out after ten seconds. The runs and the theorem about everybody's
way out say which they assume.

Left out: who hears what, media, the connection rate, the respawn of workers (`SfuRouters`).

### SfuProducers and SfuRouters

One peer of the SFU, since peers' producers do not touch each other. A handler of the event loop
runs to its next await of the media worker; `step` says which request stands at which await. The
worker answers pauses and resumes in the order they were sent (`pending`), and `calls` are the
server mutes that walk the producers one by one. `hears` is what the room was told of a producer.

`SfuRouters` is one room and the workers. A step is what runs between two waits for a worker,
with the microtasks it leaves: everyone who waited for one expansion goes on in `RouterBorn`.
`running` is what the workers have open, `routers` what the room knows of it. Which free worker is
the least loaded depends on other rooms, so any may be taken.

### Presence and VoiceMirror

`Presence` is one channel of a server. `wire` is what the SFU sent to a socket and its app has not
applied; the answer to a subscription is told by the task that asked (`TellHere`) and events by
another (`Relay`), as in `realtime.rs`. `promised` is a history variable: the list a socket would
have, had it applied everything sent to it.

`VoiceMirror` is one account and one channel. `posts` are the webhooks on their way, each in its
own request and each with the second in which it was sent; `accesses` are the rows. The field
`order` of a row and `n` of a post number the webhooks in the order of their sending and are read
by properties only.

### ClientSession

Each device of an account has a `stage` (where `supervise`, `forward` and `reconnect` stand) and
beside it a `leave` in progress. `heard` and `served` are the sockets whose client end and whose
server end is open: a socket nobody uses any more stays in both, since its reader task goes on.
`place` is the seat the SFU keeps for the account. A join is one action at the server, since the
room is there; what happens while it is created is `SfuRoom`.

### VoiceCalls, ClientMedia and ScreenShare

Each click and each event is an action, each task is one action per await; locks are taken for
themselves as in the code. In `VoiceCalls` an attempt to join has a number, and so has its room.
In `ClientMedia`, `opening` is the marks of `Opening`, `fresh` are the screens
nobody has seen yet, and `work` is what each task does. `consume` is a step per lock: the test of
`is_watching` (`Consume`), the mark (`Marks`), the look at `closed` (`Reads`), the start (`Starts`);
elsewhere what a task does between two waits is one step. History variables are `evicted`, the
screens the person ever closed, `cut`, those closed in full screen, and `doubled`, those marked when
another task had begun to watch them. In `ScreenShare`, `screen` is the place of
the broadcast, empty while a task has taken it out; `tasks` holds what each has in its hands. A step
is one lock, so `redo_screen` is four: it takes the broadcast (`Grabs`), looks whether the person
still shares (`LooksBack`), puts it back or stops it (`Puts`), and `change_quality` then writes the
recipe (`ChangesRecipe`); the refusal of a second `share` is two (`Tests`, `Probes`). `stray` is a history variable: the person stopped between the look and
the putting back of what is on air.

### PacketRecovery, BitrateGovernor and KeyframeGate

Pure state machines: one action is one call of the function. Clocks are choices (`Due` gives up a
hole or not) or ticks (`KeyframeGate`). `extended` is modelled by what it does, with the cycle of
the wire numbers a constant. The network is bounded on two sides: a packet arrives at most `Late`
behind the newest that was sent, and at most `Ahead` of the newest that arrived, which is to say that
at most `Ahead - 1` in a row are lost. With the code's cycle of 65536 and jump of 3000 that may be some
29,700; two numbers half a cycle apart mean nothing to any receiver. `owed` in `KeyframeGate` and `sinceFall` in `BitrateGovernor` are
history variables.

### MediaKeys

One source, its sender and one who watches it. `nextCounter` holds the counter of the `MediaSender`
of each epoch; the session and the transport share the sender (an `Arc`), so both only name an
epoch. `FrameOpens` is `receiver_for`, `prepare`, the authentication and `commit` in one step,
since a thread holds the window's lock throughout; a refused frame changes nothing. A sealed frame
may arrive at any time, again, or never. `askedWith` is the receiver `consume` holds while it
waits for the SFU. Ticks stand for the three seconds. The number in a frame (`id`) tells frames
apart for the properties; the keys themselves, the tags and the bytes are left out. Whoever begins
a new identity publishes another producer, which is another instance.

### SessionTokens

A pair is a number. `asker` is where each request stands: sent with a token, refused, renewing,
granted or denied by the site, or sent `again`; `turn` is the lock. `Over` is what an outcome means
for the screen: `start` opens the account or forgets the pair with whatever error. The hooks of
`keep_session` are part of the action that calls them. A token may end at any moment. `TakesFailure`
is an answer to `renew` that is no pair, a 5xx or 429 too; `HearsNothing` none at all, whether or
not the site had made the pair. `neverHeard` and `expired` are history variables. A pair from Google
without its refresh token, and `land` writing the token a second time, are left out.

### MCParts

The thirteen parts share no variable, so their product would only multiply states. `part` is chosen
at the start; that part takes every step it can, and the others stay in one of their initial
states. Every behaviour of every part within its bounds is explored, and each property speaks of
one part only.

## Runs

All runs are exhaustive for their bounds.

| run | instance | what it checks |
|---|---|---|
| `relay` | 3 peers, two of one account, 2 payloads, 2 groups of which the room holds 1, epochs 0 to 1, 2 sessions, inboxes of 2 | `WelcomeFollowsCommit`, `MlsInOrder`, `LostReplyIsIdempotent`, and `DecidesInOrder`: the relay implements `CommitOrder`, so that an epoch of a group has one Commit |
| `call_members` | 3 clients; 1 leaves or is kicked and 1 request fails beside it; or 1 socket is lost, and an identity may begin anew | `CallTypeOK`, `OneGroupInTheRoom`, `HeirTakesGhostsOut`, `InStepWithRelay`, `EarlyCommitsAreStale`, `Agreement`, `NobodyAhead`, `NobodyWhoStayedRemoved` |
| `call_fair` | 3 clients, nobody goes | `EveryoneGetsKeys` |
| `room_life` | 3 sockets on 2 devices, one join each, 2 codes, an account and a guest | `EveryPeerCanLeave`, `OneSessionPerAccount`, `EmptyRoomIsClosed`, `NoStaleOccupant`, `RoomsEnd` |
| `parts` | the thirteen parts below, one after the other | `PartsTypeOK` and the properties below |

What `parts` checks of each part, with its instance:

| part | instance | properties |
|---|---|---|
| `SfuProducers` | 2 microphones with keys of their own, a screen; 2 requests, 2 mutes | `LiveIsListed`: what the worker sends on is in the peer's map, so that every mute or revocation reaches it. `LeaverHoldsNothing`. `AnsweredMuteHolds`: after an answered mute no microphone is open |
| `SfuRouters` | 4 people, 3 workers of which 2 at first, a router full with 2, 2 expansions | `OneRouterPerWorker`. `NobodyIsStranded`: whoever is in the room has a router that lives, or waits for one, or may ask |
| `Presence` | 3 sockets of 2 accounts | `GoneHoldsNothing`. `ListenersAreTold`: list and changes sent add up to who is present |
| `VoiceMirror` | 3 posts, 4 seconds | `LateLeftSparesNewer` |
| `ClientSession` | 2 devices, 3 sockets, 2 troubles, 2 attempts | `SessionIsSeated`: who believes itself in the room has the seat on that socket |
| `VoiceCalls` | 2 channels, 2 attempts, 1 other event | `ConnectingHasATask`, `SeatedIsConnected` |
| `ScreenShare` | 1 change; three of 2 clicks, 1 act of the guard, 1 fault | `StoppedSharesNothing` |
| `ClientMedia` | 2 screens of which one stays, 2 clicks, 2 consumers | `OneConsumerEach`, `WatchedIsServed` |
| `PacketRecovery` | 6 packets, 2 held, numbers that begin again after 20 | `ReleasedInOrder`, `HolesAreWaitedFor` |
| `BitrateGovernor` | the code's counts, a ceiling of 100 | `StepsAreTheLastResort` |
| `KeyframeGate` | the code's ratios of spacings | `NoAskIsLost` |
| `MediaKeys` | a window of 2, epochs 0 to 2, 4 frames, a late window of 1 tick | `NoncesAreFresh`, `WindowIsExact` |
| `SessionTokens` | 2 requests together, 2 pairs, the app stops twice | `NobodyIsThrownOut`: a renewal is denied to who is signed in only for a token that ended, or was spent for an answer that was lost |

Seven runs show the code doing something else than its comments or documents say:

| run | property | what happens |
|---|---|---|
| `call_returned` | `NoLiveMemberRemoved` | a client joins while the creator is reconnecting, never learns that it is back, and takes it out of the group |
| `call_devices` | `InStepWithRelay` | the account's second device replaces the only person in the room; the session id stays and the new group starts at epoch 0 behind the relay |
| `call_ghost` | `GroupIsTheRoom` | two of four leave: who takes over as the committer, with the first one's leaf, heard of the second while it waited for its Welcome, and leaves that leaf in the group |
| `room_split` | `OneRoomPerCode` | two joins wait, the first one's socket closes, its continuation closes the room, the second enters the closed room |
| `room_twice` | `EveryPeerCanLeave` | a join asked again after a timeout enters twice; the first peer is never taken out |
| `key_late` | `KeyIsTheGroups` | a Commit is applied while a consume waits for its answer; the watch starts with the key of the epoch before and opens nothing |
| `session_left` | `LeftStaysLeft` | `leave` while the session dials: the new socket resumes the seat and is never closed |

### Bounds and why they are enough

*Relay.* The hazards of the relay need two competing senders and a third peer that receives;
two sessions, to see a group forgotten and opened again; two epochs, so that an answer may be
late, lost and repeated. `MCTwoOrNoChoice` keeps the product finite: while one of the three peers
has not come, the other two choose freely among payloads and groups; once all three have, they
keep to one payload, one group and the first session, with two messages on their way at most. No action reads
another peer's inbox except through the bound `MaxInbox`, so longer backlogs with three peers only
combine what two messages show. The theorems hold for all values.

*Clients.* With three clients a committer, a newcomer and one who leaves or is kicked are three
different people, and any two may race. One loss of a socket is enough to separate what a client
knows from what the room knows, and one failed request to separate what the relay took from what its
author believes; what `call_ghost` shows takes a fourth client, and the other divergences found no
more than that. `MCOneTrouble` takes one exit or one kick, with one failed request before or after it, or
one lost socket; or a lost socket and a second identity (378,000 states). A lost socket with a failed
request was searched for all of the run's properties without an error (730,000 states). Other larger
instances, without failed requests, were searched for `CallTypeOK`, `Agreement`, `NobodyAhead` and `EarlyCommitsAreStale` without an
error: one drop with one exit (1.4 million states) and one drop with one kick (3.1 million), both
complete; two drops, and four clients of whom one leaves, to 4.5 and 2.7 million states, not
complete. `MaxGroups = 4` is the code's value; fewer sessions than that occur, so the error of a
full room is reached only by `relay`.

*Parts.* Each part has as many actors as its worst interleaving needs: two requests and two mutes
that overlap; a device that takes the seat of another; two sockets of one person and a listener;
a room that outgrows two routers while four people come and a worker dies. Time is in units: the
second (`VoiceMirror`, four of them, since a post may be two late), the window of measurements,
the tick. Sizes that only scale are small and the theorems hold for all of them: a replay window
of 2 already has a first, an advanced and a forgotten bit, and 4 frames over 3 epochs a second
rotation inside the first one's window. The wire numbers begin again after 20, with a jump of 4
and 2 packets held, which keeps the code's order (jump larger than what is held, much smaller than
half of the cycle). Two pairs are enough for a renewal that overtakes a sign-out and a sign-in;
three with one stop of the app (259,000 states) were searched without an error. The whole run has
1.2 million states, a third of them of `ClientMedia`; the producers begin unmuted, and of two channels or
screens that are alike `MCInOrder` takes one first. The guard of `ScreenShare` acts once in the run.
`MCFewMeet` leaves one of the two screens on air, and lets three of two clicks, an act of the guard and a
fault meet; the run without it (2.1 million states) found no error.

Larger instances of the app's tasks: four sockets and three troubles of `ClientSession` (4.2 million
states) without an error. Three clicks of `ClientMedia` refuted an earlier form of `WatchedIsServed`: see
*Why some properties speak of less*. Its invariants, and those of `ScreenShare`, are proved for all values.

*Why some properties speak of less.* `NoLiveMemberRemoved` and `InStepWithRelay` fail
with a lost socket or a second device (the findings), and `NextMemberTakesOver`, which no run
checks, with an exit (below). The passing run states what does hold: `NobodyWhoStayedRemoved` that nobody
is taken out as long as no socket was lost, whatever requests fail, and the others that no order of
entering, leaving and being kicked breaks them.

A request that fails is why `OneGroupInTheRoom`, `HeirTakesGhostsOut`, `InStepWithRelay` and
`AuthorApplies` speak of `Unbroken` rooms alone, those without a lost socket and without a failed request.
The client discards the Commit on any error (`room.rs:628-631`) and does not ask for it again. If the relay
had accepted it, and its answer came too late or was lost with the socket, the author stays in the epoch
before while the others go on, with nobody's socket lost; if the relay had refused it for the rate
(`Room.ts:784-796`), a ghost it was to take out stays. In both its encryption is marked failed; it lags
until a Commit of somebody else makes it start again, and there is no repeated Commit for the relay's
digest to recognise. What holds of failed requests
too, and is checked and proved with them, is that nobody goes ahead (`NobodyAhead`) and no two states of
one epoch arise (`Agreement`): the author that gave up lags, it does not branch.

That the group ends up with nobody in it but the people in the room, `GroupIsTheRoom`, holds for three
clients and fails for four (`call_ghost`). A newcomer takes the leftmost blank leaf, and so may
become the committer by the Commit that lets it in; what it was told before its Welcome it did not
act on. `OneGroupInTheRoom` is the half that always holds. `HeirTakesGhostsOut` is the half that holds
of ghosts: a committer who founded the group, or was put in by someone who has left, had its Welcome
before the news of that one's leaving, and takes them all out. Both exclude
kicks where they speak of ghosts, because what a kicked client had sent before is still relayed and
may be given a leaf after its `peerLeft`. Both were checked with four clients of whom two leave:
complete for the order of entering of `call_ghost` (817,760 states), and to 8.9 million states when
people only enter one after the other, without an error.

`Agreement` speaks of every group while no socket was lost; after that, of the room's session from
its first Commit on. Somebody founds the group and loses its socket; another enters and waits for a
Welcome; the SFU notices the loss, and the second one's other device takes its place: it finds nobody
connected and founds the group again, in the session that goes on since the first is still awaited.
Two people then hold two groups in epoch 0, until the relay takes a Commit of one of them. (With
three people TLC finds this in six steps.) In a session the room has left behind nobody decides any
more, and nothing is promised.

`WatchedIsServed` excludes `cut`, what was closed in full screen. `close_watched` (`room.rs:959-983`)
first awaits `apply_view`, which gives the other screens back, and only then takes the consumer; a
person who closes the screen and watches it again meanwhile is left with a screen that is watched
and has no consumer, until it is closed and watched once more.

*Rooms.* Three joins let two wait for a room while a third comes later, or one be replaced by two
others. Two sockets of one device give resume keys across rooms; two codes give an account in
two rooms. Each socket carries one join; `room_twice` gives one socket two.

Deadlock is not checked: a room may really come to a stop, with everyone gone or everything said.

### Fairness

`call_fair` assumes weak fairness of what each client and the SFU do by themselves (`Runs`): an
event loop that has an event takes it, a request is answered. Rust's tasks and Node's loop do
that. Nothing people or the network do (`Befalls`) is fair.

`room_life` assumes that microtasks run, that a room being created gets its router or an error
(one of the two, not either of choice), that timers fire, and that a socket that is closing is
closed (`ws` destroys it after 30 seconds). Clients need do nothing: `RoomsEnd` speaks of sockets
that did close.

## Proofs

Every safety invariant and action property of the runs that pass is proved for all values of the
constants; *What is only model-checked* names the hypotheses and what is left. Each inductive invariant was checked with TLC before it was proved.

### E2eeCallProofs

*The relay.* For any finite set of peers and any groups, payloads and bounds. `MemoryAgrees` is `RelayInv`. The inductive invariant
`IInv` is `TypeOK`, `RelayInv`, `OneCommitPerEpoch`, `NoEpochSkipped`, `WelcomeFollowsCommit` and
`MlsInOrder`. `RelayInv` is what makes it inductive: the Commits of the current session are exactly the epochs each group has
closed (`HistoryAgrees`), the last of them is the one remembered (`LastIsRemembered`), and
nothing on its way is ahead of the relay (`InboxSettled`). Without `HistoryAgrees` a Commit
accepted for the current epoch might clash with one accepted before; without `InboxSettled` a new
Commit might be sent behind a later one. From it: `TypeCorrect`, `NoSplit`
(`OneCommitPerEpoch`), `UnbrokenChain` (`NoEpochSkipped`), `WelcomesAuthorized`
(`WelcomeFollowsCommit`), `DeliveryInOrder` (`MlsInOrder`), `LostReply`
(`LostReplyIsIdempotent`), and `ImplementsCommitOrder`: every step of the relay decides the next
epoch of one group once, or nothing. The steps are proved for any Commit and any Welcome of a
client (`AnyCommit`, `AnyWelcome`, `StepKeeps`, `StepDecidesInOrder`), not only for those of the
free senders, so that they hold of the real clients too.

*The clients.* For any number of peers, accounts, sessions, lost sockets, exits, kicks and identities. The theorems
have one hypothesis, `MlsIsPayload`: KeyPackages and group states are among the payloads the relay
takes. It only ties the constant `Payload` of the relay to the clients; the relay never looks into
one, and the instance for TLC takes exactly those.

`CallInv` is the relay's `IInv`, which every step of a client keeps since it is one of the relay's
handlers or leaves the relay alone, and what each client holds. A log of two or more Commits is the
payload of a Commit the relay accepted (`Supported`); so is the staged Commit of a client that was
told it won; a client that waits for an answer has a Commit one longer than its log; only a client
without a tree keeps early Commits; an event `e2eeCommit` on its way is of an accepted Commit
(`Announced`); a peer said to have left has left. `CallTypeCorrect` (`CallTypeOK`), `NoneAhead`
(`NobodyAhead`) and `ClientsDecideInOrder`, the refinement of `CommitOrder` by the relay with its
clients, follow from it.

`GroupsAgree` (`Agreement`): two logs of one length in the room's session are payloads accepted for
one epoch, and `OneCommitPerEpoch` makes them one. That leaves the logs of length one, the groups
somebody founded alone, about which the relay knows nothing. There `NothingLost` is needed, an
invariant of its own, with or without failed requests: until a socket is lost everyone has one session, of two people in the room one
sees the other, and who founded a group and is alone in it is seen by all the others, who founded none.

`EarlyIsStale` (`EarlyCommitsAreStale`): `EarlyBehind` says that an early Commit is of an epoch the
relay has closed and that nothing older is still on its way to its client, which a new Welcome keeps
because the relay takes it for the last closed epoch only.

### E2eeSettledProofs

`InStepWithRelay`, `AuthorApplies`, `NobodyWhoStayedRemoved` and `OneGroupInTheRoom`, for any number
of peers, exits, kicks and identities. Beside `MlsIsPayload` they assume `OneDevice`, that no account has a second device.
The first has to: `call_devices` is its counterexample. They speak of a room without a lost socket and
without a failed request (`Unbroken`), as the properties do; `NobodyRemoved` says it of the step itself, a
little less than `NobodyWhoStayedRemoved`, which TLC checks with failed requests too.

`Staged`: what a client waits to hear of was made from the very state it holds. `Chained`: of two
Commits of the room's session, one epoch after the other, the second was made in the state the first
made. `OneFounder`: at most one client holds the group it founded and has applied nothing, and the first Commit was
made from what it holds. `KeptUp` is the heart: a Commit of the room's session that a client in the
group has to apply is in its inbox, or is the one of its own it is told to confirm; and of a client
that waits for a Welcome, every Commit after the Welcome in its inbox is there too. No Commit is
missed, the next one continues what the client holds, and so nobody has to start again: the branch
of `handle_commit` that makes a new identity is dead in an `Unbroken` room. Once nothing is on its
way nothing is left to apply (`CalmHasAll`), and the relay's epoch is everybody's. A client whose
socket is closing is owed only what was sent before, which is `Due`. `SettledInv` was checked with
TLC on the instance of `call_members` (201,514 states) before it was proved.

`NobodyWhoStayedRemoved` (`NobodyRemoved`) rests on what a client's roster shows. A committer removes
the leaf of a peer it knows and does not see, so nobody may be known before being seen. The SFU
tells the room of a newcomer when it comes in, and the newcomer sends its KeyPackage after that:
`Meets` says that a client whose inbox names someone not in its roster, by a KeyPackage or by the
members of a Commit or Welcome, finds the `peerJoined` before it, and that whoever is named by a leaf
it holds, by a leaf it stages or by a KeyPackage it noted is in the roster. `Spares`: what a client
stages takes out nobody who is in the room, even when people come and go while it waits. They need
`Aware` (of two in the room each sees the other or is about to hear of it), `Once` (nobody in the
room has started again, by `SettledInv`, so that a person has one identity) and `Enrolled` (whatever
anybody holds, stages or is told names only identities of those who came in). `StayInv` is all five
while the room is `Unbroken`; the theorem `StayInvariant` proves it on top of `SettledInv`. It was
checked with TLC for three clients of whom one leaves and one is kicked (352,150 states).

`EveryoneInOneGroup` (`OneGroupInTheRoom`): everybody who has a group has applied all the Commits of
its session once nothing is on its way, but only who is in that group counts in `CalmHasAll`. So
`PlacedInv`: the Commits of the room's session keep the leaves of those in the room (`LeavesKept`, from
`Spares`), and whoever has a group has its leaf in what it holds and in all it has still to apply
(`Placed`). `PlacedInvariant` proves it on top of `StayInvariant`; two logs of the room's session and
of one epoch are one, as in `GroupsAgree`.

### E2eeHeirProofs

`HeirTakesGhostsOut` (`GhostsTakenOut`), under the hypotheses of the module before, for any number of
peers and exits. It speaks of an `Unbroken` room without a kick, as the property does. A client
takes ghosts out when it is told of one who left, so the question is whether whoever decides in the end was told
after it was put in. `HeirInv` says, of everybody in the room:

- `CalmRoom`, `Identified`: it sees itself, and hears of nobody but newcomers and people who leave;
  an identity is that of a person who came in, and a KeyPackage says whose it is.
- `AllGrown`: in every log, accepted, held or staged, it keeps the one leaf it got (`Rooted`), and all
  leaves are of people who came in. Without it the smallest leaf of a room might be another from one
  Commit to the next.
- `Parted`: of everybody it sees, or has something from in its inbox, who is not in the room, a
  `peerLeft` is on its way behind all that one sent. This is where kicks have to be left out.
- `Stages`: what it stages is a Commit of whoever has the smallest leaf in the room (`Led`), with
  nobody but those it lets in and those who were there; whom it is about to let in is in the room, or
  is known to have left by a `peerLeft` still to be handled.
- `LeadersHeard`: the Commits on their way to it are of whoever had the smallest leaf, and the
  Welcomes of whoever put it in.
- `Heir`, the heart: when its own leaf was put in by nobody else in the room, it still has to hear
  of someone who left; or somebody in the room has a smaller leaf; or it stages a group of those in
  the room alone; or it holds one.

`Heir` is not inductive without the others. A client that joins by a Welcome whose author has left is
owed that one's `peerLeft` (`LeadersHeard`, `Parted`). One that applies somebody else's Commit is
outranked by its author, before and after (`LedOutranks`), and stays so until the author leaves, of
which it is told. One that handles the last `peerLeft` and is outranked by nobody decides, and its
Commit takes out all whom it does not see, who are all that left (`Parted`). Once nothing is on its way only the last
case is left. `HeirInvariant` proves it on top of `PlacedInvariant`; it was checked with TLC for three
clients of whom two leave (37,246 states).

### SfuRoomProofs

For any joins, sockets, devices, codes and users. `RoomInv` is `TypeOK`,
`OneSessionPerAccount` and `NoStaleOccupant` with four facts that make it inductive. `Known`:
who has a place has asked for it. `Queued`: a join waits in one place, once, and has not entered.
`Unfounded`: a request that waits for its room has founded no room yet, so that `RouterReady`
never gives two rooms one name. `Occupied`: a registered room has someone in it, or someone about
to go on into it, the form of `EmptyRoomIsClosed` that holds in the middle of the microtasks too.
The theorems `TypeCorrect`, `OneSession`, `NoEmptyRoom` and `WebhooksFollow` follow.

`NobodyStaysForEver` (`EveryPeerCanLeave`) assumes `~ Impatient`, and has to: `room_twice` is the
counterexample without it. Its invariant adds `Answered`: a socket with a join that waits has no
peer yet and no other join that waits. `RoomInv` was checked with `Impatient = TRUE` too.

### SfuMediaProofs

*Producers.* For any requests, keys, sources, permissions and number of mutes. `ProducersInv` says that the
worker and the peer have the same transports, that one who left has none, and that a producer is
live only where its handler got past the worker; from it `LiveListed` and `LeaverEmpty`.

`MuteHolds` (`AnsweredMuteHolds`) needs more, because mutes overlap and the worker answers later.
`MutedInv` adds `MuteInv`: while the mark is set, for each open microphone the last thing that was
or will be said of it is silence. Either it is paused and nothing pending resumes it, or the last
command in the queue pauses it, or a mute is still on its way to it. The commands keep the order
of their sending, which is what `CommandsInv` is for.

*Routers.* For any people, workers, threshold and number of expansions. `RoutersInv` adds to the two
properties that one router is being created at most, on a worker that has none (`OneExpansion`),
and that a released room is empty for good. That a router with the fewest people exists is the
well-foundedness of the naturals, cited from the library. From it `OneOnEach` and `NoneStranded`.

*Presence.* For any finite set of sockets. The invariant is the two properties with their types.
`CountsMean` is the step: the first socket of a person in a channel is the one after which the
count is one, and the last the one after which it is zero, so an announcement is made exactly when
the set of present accounts changes. From it `GoneIsForgotten` and `ListenersKnow`.

### SiteProofs

*Accesses.* For any number of posts and seconds. `MirrorInv` says that the order of the webhooks and their
seconds agree as far as seconds can tell, among posts and between posts and rows. `LateLeftSpares`
(`LateLeftSparesNewer`, an action property) follows: a `left` that closes a row was sent in a later
second than the row's join, and so after it.

*Tokens.* For any requests, pairs and stops of the app. `TokensInv`: only who has the turn renews
(`OneRenews`); a refresh token that is held or saved is one the site takes, or ended, or was spent
for a pair that waits to be taken or was lost, and nobody signed out of it (`HeldIsGood`); so is the
one a renewal asks with, as long as its account is signed in (`AskedIsGood`); a granted pair is new
(`GrantedIsGood`). `RenewedInTurn` (`NobodyIsThrownOut`) follows where the site denies.

*The parts together.* `MCParts` puts the thirteen parts side by side. `PartsAreTheParts`: a behaviour of
theirs is a behaviour of each, so every theorem about one of them holds there. `PartsTypesHold` is
`PartsTypeOK`, from one theorem for each part (`ProducersTypesHold`, `PresenceTypesHold`,
`RoutersTypesHold`, `ShareTypesHold`, `MediaTypesHold`, `VoiceTypesHold`, `SessionTypesHold`,
`GovernorTypes`, `GateTypesHold`, `MediaKeysTypesHold`, `RecoveryTypesHold`, `TokensTypesHold`,
`MirrorTypesHold`). Most say more than types: one access of an account is open at most, and it is the
row written last (`OnlyTheLastIsOpen`); a session gives up at its last refusal and not before (`Tries`),
and asks with the key of a seat there was; no packet is asked for too often (`AsksBounded`). They are
proved on top of the invariants of the parts.

### ClientProofs

For any clicks, events, faults, screens, channels, devices, sockets and troubles. Each part has tasks
that let go of what they tested before they use it; its invariant says who will put that right.

*The screen that is sent.* `ShareInv`: a capture that is up while nobody shares is some task's to
note or to take down, or is `stray` (`UpIsSettled`), and a task that is to share has a quality to share.
`StoppedIsStopped` is `StoppedSharesNothing`. Neither says anything of what was put back after a stop that
came between the look and the putting back, until somebody takes it: `WhoStoppedSendsNothing`, below, is
refuted there.

*What is watched.* `MediaInv`: a mark in `opening` is of one task (`Sole`); a screen never closed and
never `doubled` has one open consumer, none until it is asked for (`OneOpen`); a consumer is noted or in the hands of
one task, never both (`TaskHolds`); what is watched has its consumer noted or about to be
(`TaskServes`); what
is on air and was never closed is watched, or in an event, or in somebody's list (`Reached`); and a
producer's id never comes back (`NeverBack`), without which an event about an old screen would speak
of a new one. From it `OneEach` (`OneConsumerEach`) and `Serving` (`WatchedIsServed`).

*The calls.* `VoiceInv`: the seat is the one of the last attempt (`SeatOfTheLast`), an attempt that
was let in is in its room or has a last word to hear (`HeardOrThere`), and the call that was reached is
the last attempt's or ends by a last word (`LastIsHeld`). Each task leaves when it finds that it is not the last any
more, which is why it is enough to speak of the last. From it `ConnectingIsOnItsWay`
(`ConnectingHasATask`) and `SeatedIsThere` (`SeatedIsConnected`).

*The session.* `SessionInv`: a socket is of one device (`SocketsAreOwned`); a socket of the server that
has a peer has the seat, and the peer of the seat is its socket's (`SeatIsHeld`); whoever was let in,
and did not leave, has a peer and its key (`EntrantsHavePeers`). `SessionSitsWhereItBelieves` is
`SessionIsSeated`.

### EngineProofs

*Bit rate and key frames.* `GovernorInv`, for any ceiling, holdoff and counts of windows: the types, `CountsMeanIt` (a count
of starved windows is positive only at the floor, of roomy ones only at the ceiling) and
`HoldoffCovers` (the holdoff lasts as long as the last fall is recent). `StepsLast`
(`StepsAreTheLastResort`) and `FallsApart` follow. `GateInv`, for any spacings and bursts: an ask
that is owed waits in the gate, with a timer no longer than the longest spacing. `AsksAreKept` is
`NoAskIsLost`.

*Media keys.* For any window, number of epochs and frames. `SealInv`: no sender is of a later epoch than the
group, and each sealed frame is behind the counter of its epoch; from it `FreshNonces`
(`NoncesAreFresh`). `WatchInv`: the bits of a receiver are exactly the opened frames of its epoch
counted from the highest, and the previous receiver is of an earlier epoch than the current one;
from both `ExactWindow` (`WindowIsExact`). Distinct counters are needed there: with two frames of
one counter a bit would speak of both.

*Packets.* For any cycle, jump, buffer and count of packets, as long as the network stays within
`Late < Jump` and `2 * (Jump + Ahead) < Cycle`. `Unrolled` is about `extended` alone: it brings back
the packet's own number when that is less than half a cycle from the one expected. `RecoveryInv`
says that one offset, a multiple of the cycle, leads from the packets, released and held, to their
extended numbers (`NumbersFollow`), so that the order of those is the order of sending; a stream that
begins again takes another offset and lets go of what was held. `DecodedInOrder` (`ReleasedInOrder`)
and `NothingHeldForever` (`HolesAreWaitedFor`) are parts of it.

### What is only model-checked

`InStepWithRelay`, `AuthorApplies`, `NobodyWhoStayedRemoved`, `OneGroupInTheRoom` and
`HeirTakesGhostsOut` when an account has a second device: the first is false then (`call_devices`),
and the proofs of all five use that a newcomer replaces nobody. The third was checked with TLC for two
devices of one account and one of another (203,756 states).
`RoomsEnd` and `EveryoneGetsKeys` are liveness: fairness and
`ENABLED` are out of the prover's reach. What a recursive definition computes for every input
would need induction over data, which is out of reach too; the models that are proved use none.

## What the models leave out

- Content, keys and time. A random id is a fresh name, a digest is the payload it is of, a timer
  may fire at any moment after it is set.
- `E2eeRelay` and `SfuRoom` describe the same peers from two sides and are not composed:
  `E2eeRelay` has one room with sockets that lose messages, `SfuRoom` many rooms without messages.
- Webhooks in `SfuRoom` are taken in the order in which they are sent; `VoiceMirror` loses and
  reorders them.
- Pipes between the routers of a room, the layers a consumer prefers, the rate limit `tooMany`
  (the window of `admitE2ee` is not counted: its refusals are `AnswerFails`), the camera (it follows the screen's code), guest accesses.
- The bytes: RTP, SRTP, protected frames, the ciphers. The limit of 64 early Commits, which a few
  clients cannot reach (`EarlyCommitsAreStale` shows that none of those kept is ever used).

## Seen and not covered by a run

These statements are in the modules, next to the model that refutes them with TLC; no run of the
project checks them. Each quotes what a comment says and the code does not quite do.

| property | said | seen |
|---|---|---|
| `ChosenIsWithinReach` (`ScreenShare`) | `sharing.rs:1259` "Um degrau acima, até a qualidade que a pessoa escolheu" | a refresh after a step down (`sharing.rs:1231`) makes the lower quality the chosen one; a change that came to nothing is still written as the chosen one (`room.rs:1176`) |
| `OldKeyHasItsTime` (`MediaKeys`) | `e2ee.rs:309` "grants the old receiver one short delivery window" | a second rotation within it takes the rest away |
| `DeafenedIsMuted` (`VoiceCalls`) | `voice.rs:616` "Ensurdecer cala o que chega e o microfone junto" | whoever deafens while the call begins finds no device to mute yet; the microphone opens afterwards |
| `NoHiddenCall` (`VoiceCalls`) | `voice.rs:330-331` "este se despede" | leaving while the call is being built finds no call to hang up; its room stays with the person in it |
| `ClosedIsNotSent` (`ClientMedia`) | `room.rs:958` "Para de receber uma transmissão" | closing while the consumer is being resumed finds none noted to close; the SFU goes on sending |
| `NoOrphan` (`ClientMedia`) | `room.rs:834-836` "Outra tarefa já está abrindo este: o segundo consumer ficaria órfão" | `is_watching` is tested at `room.rs:807` and the mark taken at `837`; a task that began to watch in between has dropped its mark, and a second consumer is made that nothing closes. `OneConsumerEach` leaves those screens (`doubled`) out |
| `WhoStoppedSendsNothing` (`ScreenShare`) | `room.rs:1190-1192` "Se a pessoa parou de transmitir no meio, a transmissão refeita para aqui em vez de voltar ao ar" | `shared` is read at `room.rs:1201` and the broadcast put back at `1203-1206`, under another lock; who stops in between has a screen up that nobody shares, and `share` refuses until they stop again. `StoppedSharesNothing` leaves that (`stray`) out |
| `SeenRuns` (`ClientMedia`) | `room.rs:1040` "Pausa no servidor o vídeo que deixou de estar à vista" | a screen that leaves the sight (`apply_view`, `room.rs:1042`) before its consumer is noted is marked away and goes on running |
| `OnlineIsPresence` (`Presence`) | `realtime.rs:67-68` | an event applied by one task before the other applied the list is undone by it |
| `AuthorApplies` (`E2eeCall`), with `Quiet` for `Calm` | `Room.ts:667` "retaining a digest makes a lost reply idempotent" | an accepted Commit whose answer times out on a living socket, or is lost with one, is discarded and never sent again (`room.rs:628-631`); its author stays behind |
| `NextMemberTakesOver` (`E2eeCall`) | `CONTRATO.md:137-138` "ao sair o comitador, o próximo membro ativo o substitui" | a member that is not the committer drops a KeyPackage (`room.rs:512`); when the committer leaves before it handled one, the next member removes that one's leaf only, and who asked waits for ever |
| `MutedIsSilent` (`SfuProducers`) | `Room.ts:347` "pausado enquanto durar" | a mute that fails at a producer that is gone leaves the mark set and the microphones after it open; `AnsweredMuteHolds` speaks of mutes that were answered |
| `NothingUnpermitted` (`SfuProducers`) | the test `sfu/check.mjs:557` "fecha o producer que o token novo não cobre" | a producer whose handler waits while the permission is revoked is made afterwards |
| `ClosedRoomHasNoRouter` (`SfuRouters`) | `Room.ts:152-160` | an expansion that ends after the room closed leaves its router in the worker |
| `PairGoesOn` (`SessionTokens`) | `api.rs:233` "o par continua valendo para quando ela voltar" | the site may have spent the refresh token for the answer that was lost; the next renewal ends the session |
| `SignedOutStaysOut` (`SessionTokens`) | `api.rs:174` "esquece os tokens agora" | a renewal under way puts its pair in memory and on the disk after the sign-out, or over another account's |
| `OpeningKeeps` (`SessionTokens`) | `api.rs:233` "Sem rede não é sessão acabada", `backend.rs:487` "o token guardado não vale mais" | whatever `me` fails from when the app opens, the saved pair is removed |

Other orders of events that were met while reading and have no property: several who wait for one
expansion overfill the fresh router; a socket given up by an attempt stays open; a ping that times
out while the word that another device took the seat is unread; a `left` in the same second as its
join, which closes nothing until the purge; the first samples of a microphone between its start
and the mute it should be born with; `identify` as another account, which leaves the former one
present; a `connect` of a plain transport that fails (`Room.ts:604`), as with a key no app sends, which
leaves the transport open in nobody's map; a second click while the microphone is opened again
(`voice.rs:539-570`), which opens it twice; `fail_e2ee`, which leaves the senders of the transport in use, though `room.rs:443` says
"fecha as chaves velhas"; in `backend.rs`, `go_live` and `sign_out`, which may overtake
each other; `follow` (`backend.rs:1231`), which notes nothing while no `Realtime` is live; a
`Realtime` closed while its relay dials, which comes back (`realtime.rs:179`); any answer to `renew`
without a pair, also of a site that is being updated, which ends the session (`api.rs:223`).

## Plan

The order is that of what matters most to people in a call.

1. Done: `CommitOrder`, `E2eeRelay`, `E2eeCall`, `SfuRoom`; proofs of the relay and of the rooms.
2. Done: the SFU's media (`SfuProducers`, `SfuRouters`), `Presence`, `VoiceMirror`, with proofs.
3. Done: the app's tasks (`ClientSession`, `VoiceCalls`, `ClientMedia`, `ScreenShare`)
   and its tokens (`SessionTokens`, with a proof).
4. Done: the engine's decisions (`PacketRecovery`, `BitrateGovernor`, `KeyframeGate`, `MediaKeys`),
   with proofs.
5. Done, proofs: the clients with the relay (`E2eeCallProofs`), the app's tasks (`ClientProofs`), the
   packets, what the clients come to, that nobody who stays is removed and that everyone ends up in one
   group (`E2eeSettledProofs`), that an heir takes the ghosts out (`E2eeHeirProofs`), the types of every
   part (`PartsTypesHold`).
6. Left, models: pipes between routers; rate limits; the reconnection of `realtime.rs` with
   `go_live` and `sign_out` of the app; `E2eeRelay` composed with `ClientSession`; the ring of
   the clips' replay.
