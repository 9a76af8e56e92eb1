# Verification of screen-sharing

A desktop application for sharing screens in one fixed room. One participant is
the **host**: it runs the signaling server and the SFU. The others are **peers**.
Everybody dials a hosted **relay**, which forwards opaque frames between each
peer and the host. When the host leaves on purpose it names a successor, which
claims the room at the relay; the other peers re-handshake with it over the
sockets they already have.

This directory holds TLA+ models of that system, TLC configurations that check
them on small instances, and proofs for TLAPS.

## Inventory

| component (source) | state it keeps | operations | interacts with | hard behaviour |
|---|---|---|---|---|
| relay registry (`server/src/relay.ts`) | `#rooms` (host, peers by connection id, `nextConnId`, `handoffDeadline`), `#attached`, `#rate` | `onHello`, `onMessage` (KICK, HANDOFF, data), `onClose`, `sweep` | every socket; told of by host and peer links | closes and messages that arrive after the room changed hands or was created again; the grace window; limits |
| relay front end (`server/src/index.ts`) | `greeted`, `alive` per socket | message, close, idle and sweep timers | registry | a close comes whenever the network says so |
| relay links (`src/main/net/relay-link.ts`) | virtual transports by connection id, `#pendingPeers`, `#handoffAlreadyClaimed` | `open`, `openWithRetry`, `handoff`, `close` | registry, server, client | frames that arrive before somebody listens; a timed-out open that succeeded |
| transport, connection, frame codec (`src/main/net/`) | phase, early binary frames, inbox, sequence counters | `sendHandshake`, `upgrade`, `send`, `close` | handshake, server, client | frames of the next phase arriving early, of an old session arriving late |
| handshake (`src/main/signaling/handshake.ts`) | position in the CPace exchange | host and peer side | connection | mismatch, timeout, close at every step |
| signaling server, roster (`src/main/signaling/server.ts`, `roster.ts`) | roster, links, handshakes in flight, `#closing` | accept, admit, broadcast, `onPeerGone`, `transferHost`, `close`, `crash` | connections, heartbeat, media plane | awaits between a check and its use; a close between two steps |
| signaling client (`src/main/signaling/client.ts`) | mirror of the roster and of the streams | `connect`, `close`, `detach` | connection, room session | a mirror built from a snapshot and deltas |
| heartbeat (`heartbeat.ts`) | outstanding nonce, `missed` | `start`, `tick`, `onPong`, `stop` | server and client links | late answers racing the next tick |
| handshake rate limiter (`rate-limit.ts`) | attempts and back-off by address | `take`, `clear` | server | boundaries of the window, back-off growth |
| room session (`src/main/app/room-session.ts`) | phase, links, server, client, `#transferring`, `#leaving` | `enter`, `host`, `join`, `leave`, promote, re-home | everything above | user actions between awaits; handoffs in the middle of one |
| IPC adapter (`src/main/app/ipc.ts`) | the current session | `enter`, `leave`, media | room session | an old session's events after a new one began |
| succession (`src/main/election/succession.ts`) | none | `successionOrder` | server | must be the same total order everywhere |
| SFU router, media plane, governor (`src/main/sfu/`) | publications, subscriptions, bitrate rungs | publish, subscribe, unsubscribe, peer gone, sample, tick | server, renderer | peers leaving in the middle of a negotiation |
| renderer media client (`src/renderer/src/rtc.ts`) | peer connections by stream | publish, view, answer | IPC | answers for streams closed meanwhile |
| address discovery, user interface, shell, scripts | - | pure functions and I/O | - | left out, see below |

What makes them correct: a room never loses its peers or its end to a race
(relay); a connection is a secure channel whatever arrives early or late on it
(connection); the roster holds the peers that are really there and every mirror
converges to it (signaling); a silent peer is noticed and an answering one is
not dropped (heartbeat); a handoff ends with one host and every survivor either
in its room or told that it ended (session); subscriptions only forward streams
that are still published (SFU); and what a user shares or watches is what the
SFU forwards, across handoffs (renderer).

## Modules

| module | models | state |
|---|---|---|
| `RoomOwnership` | what the relay promises about a room: who owns it, when it changes hands, who is in it | owner, offered, members, unused |
| `Relay` | the registry behind its front end | `life`, `attached`, `host`, `peers`, `nextConnId`, `handoffDeadline` |
| `RelayRate` | `#allow` and the bucket half of `sweep` | `rate`, and what was granted |
| `Signaling` | the signaling server, the roster and the clients' mirrors, over one ordered connection each | the server's fields, the stage of each connection, both queues, the clients |
| `SecureChannel` | what a control connection promises: only ends with the same secret seal, and an end takes a prefix of what the other one sealed | trusted, open, sealed, taken |
| `Connection` | both `Connection` objects, the handshake and the join over them, the two transports and the wire between them | each end's step, keys, early frames and inbox, the wire |
| `Session` | `RoomSession` of every user, its relay links, the part of server and client that a handoff runs through, and the relay's room | a session per user, the room, sockets, HELLOs and queues |
| `RtcClient` | the renderer's media client, what the session carries for it, and the SFU it talks to, through handoffs | the refs of `useMedia`, PCs, awaited negotiations, queues, the SFU |
| `Heartbeat` | both ends of one connection, their timers and the wire between them | the fields of `Heartbeat`, timers, the wire |
| `RateLimit` | the handshake limiter and the server that calls it | `#buckets` |
| `MediaPlane` | the SFU router, the governor and the glue to the signaling server | publications, PCs, `#subscriptions`, the governor's streams, directives |
| `SlidingWindow` | the stamps that both rate limiters filter by their age | - |
| `RelayProofs`, `SignalingProofs`, `MediaPlaneProofs`, `HeartbeatProofs`, `SessionProofs`, `ConnectionProofs` | theorems about the module of that name | - |
| `LimiterProofs` | theorems about `RelayRate` and `RateLimit` | - |
| `SequenceLemmas` | induction over numbers and sequences, for the proof modules | - |
| `MC*` | instances for TLC | - |

How they fit: `Connection` assumes of the relay what `RoomOwnership` promises
(frames of a peer and a host in order, one close), and shows the channel that
`Signaling` and `Session` assume of a connection. `Session` takes the handshake
as the four messages that decide its outcome and adds the relay's room and the
handoff; `Signaling` takes one host and looks closely at the roster. `Heartbeat`
justifies that an end that is gone is noticed, which the other modules assume.
`MediaPlane` is the SFU with several viewers; `RtcClient` is one member's
renderer against it.

An operator whose name has a suffix (`HandshakeFails_KeepsSlot`) is a mutant: the
definition that follows it, with a plausible bug. Put in its place it makes TLC
find the property it is listed for violated.

### Relay

`life` is the WebSocket of a socket (`new`, `open`, `closing`: the relay began
to close it, `closed`: its close event was handled). `attached`, `host`,
`peers`, `nextConnId` and `handoffDeadline` are the fields of the same name;
a room that is not in `#rooms` has `host = NoSocket`. Node runs one handler at a
time, so each handler is one atomic action: `HostHello` (create, claim or
reject), `PeerHello`, `Handoff`, `Kick`, `DataFromHost`, `DataFromPeer`,
`Close`, `NonBinary`, `Sweep`; `Tick` is the clock. What a socket in `closing`
sent before it saw the relay's close is still read (`Readable`), which is what
makes late messages possible. So is a first HELLO behind a text frame or a bad
hello: the room then gets a host or a peer that is closing already (`ws`), and
that is sent nothing any more.

`announced`, `incarnation` and `frame` are history: what PEER_UP and PEER_DOWN
told each host, how often a room id was created, and the data frame the last
step put on a wire. A host only kicks or writes to connection ids that it was
told of, because the host link does nothing else (`Believes`). `MaxTime` bounds
the clock and with it how often a host may renew its HANDOFF.

The rate limiter's verdict is an input of the two HELLO actions; `RelayRate`
models the limiter itself. It keeps stamps as ages, not instants: beyond
`rateWindowMs` the code cannot tell two ages apart, so the model needs no bound
on time.

### Signaling

Each member of `Peers` connects at most once, so it stands for the connection,
the `peerId` and the client. `stage` is where the host's handler of it stands:

| stage | the code is |
|---|---|
| `handshake` | in `runHostHandshake`, holding one of `MAX_CONCURRENT_HANDSHAKES` |
| `confirmed` | about to wake in `#handleConnection` after `pake_confirm` |
| `join` | in `waitForBody(conn, 'join')` |
| `admitting` | about to wake in `#admit` after `join` |
| `admitted` | in `#links`, or gone from it again |
| `over` | refused, failed or timed out |

An awaited message resumes its handler in a microtask, and everything the socket
delivers in the same read comes before it: hence `confirmed` and `admitting`,
in which a close or more messages may arrive. Timers, users and the probes'
callbacks are macrotasks and wait until no continuation is due (`Settled`). The
connection holds messages nobody has asked for (`toHost` keeps them); a close it
reports at once (`HearCloseEarly` while the handler is about to wake).

`phase` is `open`, `transferring` (during the grace of `transferHost`), `handed`
or `closed`. The client goes through `hello`, `joining`, `joined` (about to wake
with `joined` in hand), `in`; then `lost` (its heartbeat gave the host up; the
connection stays open), `moved` (it detached to re-home, and cares for nothing but
a close any more) or `out`. `Vanish` is a
process or a network that fails: what it sent last may be lost, and the relay
may or may not notice. `early` is history: the connections whose close fell
between `join` and the moment `#admit` installs its listener.

### Connection

`step` is the message an end awaits (`hello`, `pake_peer`, `pake_confirm`,
`join` at the host; `hello_ack`, `pake_host`, `joined` at the peer), or
`serving`, `failed`, `over`. `due` says that the message is there and the code
behind the await has not run yet: whatever the socket delivers meanwhile goes to
the inbox, and a close is heard by nobody (`missed`, history). `early` is
`#pendingBinary`, `inbox` the messages without a listener; `Flush` and `Upgrade`
replay them in order.

CPace is symbolic: a share is a generator and the scalars applied to it, a MAC is
what it was computed from, and the two ends agree exactly when all of it is equal.
Whether the password, the target, the hardening and the epoch agree is drawn in
the initial state (`agree`). A sealed frame carries its counter; a frame of an
earlier session (`stray`) does not open. A `resumed` connection runs over the
socket of the session before, so that frames of the superseded host may arrive in
the middle of its handshake. `MaxSends` and `MaxStrays` bound the messages.

`Shut` says that an end, or the relay, has closed the way between them.
`Severed` is what the relay does to it: the peer hears a close after what had got
through. When the peer's socket died (`Cut`) the host is told. When it is the host
that closes the room (`HostLeaves`), `server.close()` ends the connections of the
members itself; a connection still in the handshake is nobody's, its host end goes
on over a link that is closed, and its timer ends it.

### Session

`ses[u]` is `RoomSession` of user u: `phase`, and in `task` what it awaits: an
answer to HELLO (`open`), the next attempt (`backoff`), a handshake (`hello`,
`join`), HOST_CLAIMED (`claim`), or the two waits of a host that hands over
(`handing`, `grace`). `as` is the role it plays or is trying, `link` its current
socket, `key` the host session whose keys its client has, `epoch` and `minEpoch`
the fields of that name, `ready` the state of `#handoffAlreadyClaimed` and
`onHandoffReady`, `roster` and `greeting` the server's links and handshakes.
Sockets are `<<u, k>>`, the k-th that user u opened: a re-homing member keeps its
socket, a promoted heir opens a new one.

What a client writes the relay handles at once, but for a HELLO, which waits in
`hellos`; what the relay writes waits in a queue for each socket (`down`), so that
`HOST_CLAIMED`, `host_transfer`, closes and answers of the old and the new host
cross each other. `room` is the relay's room as `Relay` has it, with the grace of
a handoff as `no`, `grace` or `overdue`. Rate limits and the limit on participants
are left to `Relay` and `Signaling`.

`Listens(p)` is a session whose current link is p and whose client reads it;
`InRoom(p)` and `GaveUp(p)` split it by whether the session is in the room, or its
heartbeat gave the host up. While a survivor waits for HOST_CLAIMED the connection
to the old host is still on the link, and closes it when a frame of another session
comes (`HearStray`).

### RtcClient

`rtc` holds the refs and the state of `useMedia`: the publication (`localId`,
`connected`), `subs` (a PC, a placeholder or nothing for each stream), `wanted`,
the snapshot that was last rendered. A `publish()` or an answer under way is a
`task`; `AnswerGoesOn` and `PublishGoesOn` end it, without looking at what changed
meanwhile, as the code does. `HearUpdate` is a snapshot with its effects in the
order React runs them. `HandOff` and `Rehomed` are what the session does to the
renderer between two hosts. `asked` is history: how often a stream was asked for.

Left out: a member that is the host itself (its messages take no wire), entering
and leaving rooms, directives and statistics, and PCs that fail without a reason.

### Heartbeat

The two ends are `host` and `peer`; each has its own `Heartbeat` with a timer of
any phase, and both answer pings whatever their own state. Time advances only
when no timer is due and no message is `MaxDelay` old, so a message takes any
time up to `MaxDelay`, and a tick and a pong may fall on the same instant in
either order. Nonces are told apart modulo `Nonces`, more than can be on their
way at once. `FallSilent` is an end that stops without a close.

### RateLimit

A hit is kept as its age and a block as the time left of it, as in `RelayRate`.
`Take`, `Succeed` (`clear`) and `Fail` are the three places where the server
meets the limiter. `KeyOf` is the address the limiter sees of a client; in the run
two clients share one, as all do over the relay, and one has its own.
`overflowCount` saturates at `MaxOverflow`, where the back-off has reached its
cap already (`OverflowAssumption`).  The filter of both limiters is `Recent` of
`SlidingWindow`.

### MediaPlane

`publish` and `subscribe` look a stream up, await the negotiation of a peer
connection and go on: `Publish`/`PublishEnds` and `Subscribe`/`Subscribed` are
two actions each, and everything else may come between them. A PC is external
(werift): it is `negotiating`, `open`, `failed` or `closed`, and `PcEnds` is its
state listener, which may run late (a `closed` PC reports its end after another
one has taken its place). Stream ids are drawn at random by the publisher, so a
stream is published at most once.

`governor` is the state of a stream there: rung (`level`), `paused`, the streak
of good windows, the last sample of each viewer, and whether the owner's CPU
limits it. Samples are good or lossy: the thresholds of loss are left out.
`directive` is the last quality directive the owner was sent. `late` and
`overtaken` are history: negotiations that ended when their peer or the SFU was
gone, and PCs that another one replaced in `#subscriptions`.

## Runs

| run | question | bounds |
|---|---|---|
| `relay` | do the limits hold, and do slots, hosts, announcements and frames stay consistent? | 5 sockets: a host, a successor and three peers for two places, or a room torn down and created again; 2 room ids for one room; a grace of one tick, so that claim and sweep meet at the deadline |
| `relay_live` | does every handler implement `RoomOwnership`, does a handoff end, are peers freed from a departed host? | 3 sockets over two rooms at a time, a grace of two ticks |
| `relay_rate` | is the window a window, does throttling end, are buckets forgotten? | 2 addresses, caps 1 and 2, a window of three ticks |
| `heartbeat` | is a living end never declared dead, and a silent one in time? | interval 3, delay up to 1 (a round trip stays below the interval), 3 misses as in the code |
| `rate_limit` | does the burst hold for an address, do blocks double and end? | 3 clients, two of them behind one key, burst 2, a window longer than the longest block |
| `signaling` | do limits, roster, slots and mirrors agree, whatever interleaves? | 3 guests for 2 free places and 2 handshake slots: one is always one too many; no requests and no probe |
| `signaling_live` | do slots come back and departed peers leave the roster? | 2 guests with one nickname, one slot, the probe on, one request |
| `media_plane` | do publications, subscriptions, PCs and the governor agree, and does quality recover? | 3 participants of whom two publish, 2 PCs, two rungs, two recovery windows |
| `connection` | is a connection a secure channel, does nothing that arrived stay behind, does every handshake end, is an end that is gone noticed? | every combination of right and wrong password, room, hardening and epoch, fresh or over a kept socket; 1 early frame fits, up to 2 frames of the old session come; 3 data messages from each end |
| `session` | is every host the relay's host, does a claim always get through, do epochs never fall back, does everybody end up together or out? | 4 users in five casts (see `MCSession`), two of whom leave; 5 sockets for each user; one handshake at a time; one ping, stall or cut |
| `rtc` | do ghost streams end, is a sharer on the air, do renderer and SFU agree on what is watched? | Me and one other, 4 streams each, 4 PCs, 2 clicks, one change by others, one handoff |
| `rtc_watch` | (violated) does a viewer go on watching over a handoff without a click? | one stream watched at first, no clicks; two changes by others, one handoff |

Symmetry is used in the safety runs only (`relay`, `signaling`): no action names
a socket or a guest, and in `signaling` the guests' nicknames all differ. The
limits and windows of the code are larger than those of the runs; what matters
is that each is reached and overrun by one contender. `MaxConnId`, `MaxTime`,
`MaxRequests`, `Nonces`, `MaxOverflow`, the number of `Pcs`, and in the last three
modules `MaxSends`, `MaxStrays`, `MaxDials`, `MaxOdd`, `Leavers`, `MaxClicks`,
`MaxTurns`, `MaxHandoffs` and `MaxStreams` are the only bounds that are not
parameters of the code. Enough of each is given for what it is about to happen
twice or against itself: five sockets let a user join, be refused, host, be
superseded and promote itself; four streams let a renderer publish before and
after a handoff with a stop and a restart between; two frames overrun the one
early frame that is kept. What the `session` bounds leave out is more than one
disturbance of the network in one run, on top of leaving and handing over.

The runs of `connection`, `session`, `rtc`, `signaling` and `media_plane` do not
check for deadlock: when everybody is out, or everything settled, there is nothing
left to do. The `relay`, `relay_rate`, `heartbeat` and `rate_limit` runs do.

### What the code does not keep

`rtc_watch` shows it: after a handoff the snapshot with the new epoch runs two
effects in the order they are written. The first asks for the streams of wanted
owners that are there again (`rtc.ts:245`), the second resets every subscription,
the fresh placeholder included (`rtc.ts:266`). The next snapshot asks again; when
the offer to the first request comes before the refusal of the second, the
refusal's `media_error` closes the PC that was being set up, and nothing asks
again until a further snapshot comes: until somebody joins, leaves, starts or stops.
`docs/DESIGN.md:724` says that the renderer
re-subscribes by itself, without a click. `AskedOnceAgrees` holds of every stream
that is asked for once.

Seen while modelling, without a run of their own; where a property is true only
because it excepts such a case, it is named.

At the relay:

* `onClose` frees a slot by connection id without looking at which socket holds it:
  a peer of a torn-down room whose close arrives after the room was created again
  frees the new peer's slot (`relay.ts:186`). `OpenPeersKeepSlots` and
  `AttributedRightOnce` speak of room ids that are created at most once.
* In the same way a peer frame that arrives after the room was created again
  reaches the new host under the new peer's id (`relay.ts:158`).
* HANDOFF checks that the sender is the current host, KICK and data from a host
  do not: a superseded host still drops peers (`relay.ts:121`).

Between host and peers:

* A close in the same read as `join` is heard by nobody: `#admit` installs its
  listener after an await and does not look at `conn.closed` (`server.ts:381`). When
  the heartbeat gives the peer up, `Connection.close` returns early, and the entry
  stays in the roster for ever. `DepartedLeaveOrMissed`, `RosterIsConnected` and
  `GoneIsNoticed` except closes that were missed.
* A pong that takes longer than one interval answers no outstanding ping, so an
  end that answers every ping late is declared dead (`heartbeat.ts:67`).
* Over the relay every peer has the address `'relay'` for the limiter
  (`relay-link.ts:386`), so one peer's attempts refuse the next one's first.
  `rate-limit.ts:2` and `DESIGN.md:439` speak of a limit per IP. No property says
  more than that the refused are admitted in the end (`RefusalEnds`).
* The detection takes up to one interval more than the 6 s of `heartbeat.ts:8` and
  `DESIGN.md:728`, since an end may fall silent just after it answered.
  `DetectedInTime` allows for these `MaxMissed + 1` intervals, so it does not notice
  a heartbeat that gives up one interval early; `NoFalseDeath` notices it only where
  somebody answers.
* `#fail` emits `error` before it closes; without a listener that throws, and the
  connection stays open (`connection.ts:192`); its timer or heartbeat ends it.
* A ping of the old session, or the old host's answer to one, spoils the handshake
  of the re-homing: a frame that does not open makes `upgrade` throw.
  `DESIGN.md:806` and `server.ts:178` say that the old host stays quiet, but during
  its grace it goes on answering (`server.ts:445`).

In a handoff:

* A handshake that was running ends in an admission to a host that is leaving and
  never says so (`server.ts:343`).
* With more than three survivors the new host refuses the fourth handshake, and a
  survivor has one attempt (`server.ts:309`): it is out, and does not linger.
* `open()` that timed out leaves its socket: a late READY gives the room a host that
  nobody reads (`relay-link.ts:153`). `NobodyLingers` excepts the peers in it. A peer
  socket that was left in this way is not excepted: the host throws it out.
* A member whose heartbeat gave the host up (`host-lost`, `room-session.ts:496`) has
  left for its user, but its client stays connected and answers the host's pings:
  the host lists it, with its nickname and its place, until the user leaves or tries
  again. `EventuallyTogether` and `NobodyLingers` except such a member (`GaveUp`).
* A member whose session ended (`host-lost`) still reads `host_transfer`, and as the
  heir promotes itself (`room-session.ts:521`).
* The callback of an earlier re-homing swallows a HOST_CLAIMED that comes early in
  the next one; `ClaimsAreHeard` speaks of a link's first re-homing.
* A re-homing that fails leaves its link open, and `leave()` in the middle of it
  leaves it too (`room-session.ts:611`), until the host or the sweep ends it.

Media:

* `publish` and `subscribe` of the SFU go on after their await without looking
  whether the peer or the SFU is still there (`router.ts:136`, `router.ts:228`):
  `NothingIsOrphaned` excepts such a negotiation. A second subscription overtakes
  the first in the map: `PcsAccountedFor` and `AskedOnceAgrees` except a stream that
  was asked for twice.
* Watching, stopping and watching again quickly, or stopping in the middle of a
  negotiation, leaves a stream running, or a tile frozen; the `catch` of
  `subscribe_offer` deletes an entry that has been replaced meanwhile.
* The audio sender gets the video track when a share with sound is paused and
  resumed (`rtc.ts:163`).
* Leaving a room while sharing keeps the publication's refs: the next change of
  epoch publishes again.
* A viewer's last sample counts until it leaves the room, also after it stopped
  watching (`governor.ts:120`), and the owner of a stream that nobody has watched
  yet is not told to stop (`router.ts:137`).

## Fairness

* `FairSpec` (relay): `Sweep` and `Tick` are weakly fair: an interval timer keeps
  firing and time passes. A closing handshake that the relay began ends, because
  the `ws` library destroys the connection of a silent client. Nothing is assumed
  of clients: they may never send, never claim, and never close.
* `FairRateSpec`, `FairRateLimitSpec`: time passes (and the relay's sweep runs).
  The host's sweep is not assumed: the limiter must let a client in without it.
* `FairSignalingSpec`: sockets are read and continuations run; the timers of a
  handshake, of the wait for `join` and of `connect()` fire; the heartbeat of
  either side notices an end that is gone (`Heartbeat` checks that it does).
  Nothing is assumed of users, nor of a peer that is there.
* `FairConnectionSpec`: the wire delivers, continuations run, and the timer of every
  wait and the heartbeat of an end whose pings nobody answers fire.
* `FairSessionSpec`: something that goes on by itself happens as long as anything
  can: a message that waits is read, a timer fires, the relay answers a HELLO or
  sweeps. Nothing is assumed of users, who may never enter or leave, nor that the
  network loses anything or stops doing so; the bound on disturbances ends them.
* `FairRtcSpec`: in the same way, promises settle, messages arrive, PCs whose other
  side is closed fail, a handoff comes to its end. Nothing is assumed of clicks.
* `FairMediaSpec`: negotiations end, because gathering is bounded by a timer, and
  the governor's interval timer fires. Nothing is assumed of viewers.

## Proofs

### Relay

From `RelayAssumption` alone (finite sets of sockets and room ids, natural
limits, a positive grace period):

* `TypeCorrect`, and with it the inductive invariant `RelayInv` (`Consistent`).
  `SlotsAttached` and `HostViewAgrees` are not inductive by themselves: that a
  slot's socket is attached there survives a close only because a socket is
  attached at most once (`attached` is a function), that a host's view stays
  right only because the host is attached until it closes (`HostsAttached`), and
  that ids are not shared needs `IdsIssuedOnce`, which holds of a room id's first
  life only.
* `SlotsAreAttached`, `RoomsAreNotHeadless`, `HostViewsAgree`, `PeersKeepSlots`,
  `AttributionHolds`: the invariants of the run `relay`. `LimitsHold`: the limits of
  the configuration, which no run checks any more because it is proved.
* `RelayImplementsOwnership`: the refinement that `relay_live` checks.

### Signaling

From `SignalingAssumption` alone (finitely many peers, positive limits), for any
nicknames: `SignalingTyped`, `SlotsAreCounted`, `RosterStaysWellFormed`,
`RosterStaysConnected` and `MirrorsStayTrue`. The first four come from one inductive
invariant `SignalingInv` (`InvariantHolds`). What it adds to the properties:

* `SlotsHeld`: the slots in use are the connections in `handshake` or
  `confirmed`, also after the server closed; a step of the host's end gives back
  exactly the slot it leaves (`HostStepSlots`).
* `RosterOrdered`: `nextJoinSeq` is ahead of every entry, which is why a new entry
  has a place of its own.
* `LinksAdmitted`: only an admitted peer has a link, so that `#admit`, which runs
  after two awaits, never meets an entry of its own.
* `ClosedOrMissed`: a connection that closed is over or admitted, or its close
  was missed. Without it a closed connection could be admitted unnoticed and
  `RosterIsConnected` would not survive the step.

`MirrorsStayTrue` is about the roster, the queue and the mirror at once: the queue
of a client folded over its mirror (`Foreseen`) is the snapshot of the host. Its
invariant is `MirrorInv`, on top of `SignalingInv`:

* `Listed`: the snapshot has every entry of the roster once, by `joinSeq`. A sorted
  listing is unique (`SortLists`: the place of an entry is the number of those that
  are not behind it), so the snapshot of a roster and the sorted copy of a client
  are equal as soon as they list the same entries.
* `Greeted`: the host is with a connection no further than its client. Only for
  that reason has a client that waits for `hello_ack` no link, and nothing to
  follow when it goes on.
* `Queued`: what travels to a client is a sequence. Of a client that detached
  nothing is claimed.

A step of a client takes the next message into its mirror, which does not change the
fold (`ForeseenTaken`). A step of the host sends nothing that concerns the roster
(`HostKeepsRoster`), or it sends to everybody who follows the one delta that leads
from the old snapshot to the new one: `AddedFollows`, `RemovedFollows` and
`ChangedFollows` prove this of `Apply`, the filter, map, concat and sort of the
client, for the three kinds of `roster_update`. (The run `signaling` has no probe and
meets the first two only; for the third the proof stands alone.) The client that was just admitted
starts from the snapshot, which drops what was in its queue before. The proofs are
by the steps of the recursions (`ForeseenOneMore`, `KeptLists`); sort, filter and
fold are written in the model in a form that allows it (`ByJoinSeq`, `Kept`,
`Foreseen`).

### MediaPlane

From `MediaAssumption` alone: `MediaTyped`, `NothingStaysOrphaned`,
`PcsStayAccountedFor`, `DemandIsFollowed` and `ReportersStayPresent`, all from one
inductive invariant `MediaInv` (`MediaInvariant`). What it adds to the properties:

* `PcsHaveKeys`: a PC in use belongs to a viewer and a stream. An end that is
  reported late is looked up by that key, and may find another PC there.
* `DemandedWentLive`: only a stream that went live is ever paused or resumed.
  One that is published later starts with no directive to contradict, which is
  what `DemandFollowed` needs of `Published`.
* `NoForeignReports`: reports are kept of linked peers only, on every stream and
  not only on those that are live.

The step that takes most of the argument is `PeerGone`: it ends the streams of the
peer and drops its subscriptions in one loop, and the proof goes through a lemma
for each half (`StreamsEndStep`, `DropKeeps`).

### Heartbeat

From `HeartbeatAssumption` and `ShortRoundTrip` (a round trip is shorter than the
interval: with the code's 2 s interval, a delay below one second each way):
`NobodyIsBuriedAlive` (`NoFalseDeath`), `TheGoneAreNoticed` (`DetectedInTime`) and
`HeartbeatTyped`, for every interval, delay and number of misses, and from one
inductive invariant `HeartbeatInv`. It follows the single ping a running heartbeat
has on its way:

* `OneRound`: every ping of a running end, and every answer to it, carries the
  current nonce and is exactly as old as the round, or at most `MaxDelay` younger.
  With a short round trip nothing can be left when the timer fires (`NoneLeft`),
  which is also why stale nonces never meet a fresh one.
* `AnswersCome`: as long as the other end is there, an outstanding ping has itself
  or its answer on the wire. At the timer there is neither, so an outstanding ping
  means that the other end is gone: a miss is never counted against a living end.
* `MissesCount`: how long the other end can have been gone, by what is outstanding
  and how often it was missed; each round adds one interval and one miss.
* `BeforeStart` and `JoinedComesFirst`: the client starts once, and before it
  starts nothing on the wire is its own.

`ShortRoundTrip` is needed: without it an end that answers every ping late is
declared dead, which the code does.

### Connection

From `ConnectionAssumption` alone, however many early frames are kept and however
many messages and strays there are: `ConnectionRefines` (`ImplementsChannel`) and
`NothingHeldBack` (`NothingIsHeldBack`), both from one inductive invariant
`ConnectionInv` (`ConnectionHolds`). It follows the numbers of the sealed frames of
one direction through every place where a frame can be:

* `Runs(q, a, b)`: what is sealed in q has the numbers from a up to b, in order.
* `Orderly`: what an end took are the numbers from 0 on, its inbox goes on from
  there, nothing in the inbox has a listener, and what it awaits can have been said.
* `Toward`: `#pendingBinary` goes on where the inbox ends and the wire where
  `#pendingBinary` ends, up to the last number the other end used. What is missing
  at the end was cut off by a close, or is the `join` of a peer that came when
  `#pendingBinary` of the host was full of strays, and then the host never takes
  anything.
* `Settled` and `Said`: an end has keys only if target, hardening and password
  agree, has sealed and taken nothing before, and the text messages under way are
  those the handshake got to. That the host has keys only after the peer's
  confirmation is what makes the host's first frame arrive at an end that waits.

`Moves` says once what a step of one end does to the other; each action has one
lemma (`ReceiveGoes`, `HostConfirmsGoes` and so on) that meets its hypotheses. The
actions that sever the connection have one in common (`SeveredGoes`). The
deliveries of a replay are an induction over the queue (`ReplayOrderly`), for which
the lemma `Reaching` of `SequenceLemmas` stands in: a set that holds 0 and goes on to
the next number up to n holds n, by the pigeonhole theorem of finite sets.

### Session

From `SessionAssumption` alone, for any users, casts, sockets and disturbances.

`OneBelievesToHost` (`HostsAreReal`) from the inductive invariant `HostInv`. A
session decides that it hosts when it reads READY, long after the relay wrote it;
what bridges the time is:

* `ReadyMeant`: while a READY waits in the queue of a socket that its session is
  opening as host, the room is held by that socket and not in handoff, or a close
  waits behind it. So whatever makes the relay forget a host (a sweep, a cut, a
  claim by the heir) writes a close to it, is its own doing, or meets a room in
  handoff, and a room in handoff belongs to a session that has left `hosting`.
* `HellosMeant`: a HELLO on its way from the current socket asks for what its
  session wants, so that the READY of a peer cannot be taken for a host's. The
  READY to an attempt that was given up (`openWithRetry` had timed out) finds the
  session at a later socket: `Undialled` says that a socket is used once.
* `HostsHold`: the property itself, without the sessions' point of view.

`NobodyGoesBack` (`EpochNeverBack`) from `EpochInv`, which relates what is sealed
to who sealed it:

* `Truthful`: a frame sealed with a host's keys tells that host's epoch, in
  `joined`, or the next one, in `host_transfer`. It stays true while frames cross a
  handoff because a host keeps link and epoch for ever (`Steady`, `Settled`): who
  was superseded, or left, does not host again with the same keys.
* `Keyed`: a client's keys are some host's, and a member has that host's epoch.
* `Dated`: what a session waits for (`minEpoch`) is never earlier than what it had.
  With `Truthful` a survivor waits for exactly one more than its own epoch, so that
  the epoch check of `joined` is what keeps it from an older host, and nothing less
  would: a room that dies in the handoff is opened anew in any epoch.

`NobodyWaitsInVain` (`ClaimsAreHeard`) from `ClaimInv`, on top of both. The survivor
waits because its host told it to; what it waits for, the relay writes when somebody
claims the room, to the peers of that moment; and the property looks at neither of
them but at the queue of the survivor. What connects the three:

* `AskedHear`, the strengthening proper: whoever has `host_transfer` in its queue, or
  waits, is a peer of a room in handoff, or has HOST_CLAIMED in its queue, from the
  moment the host writes it. It is about sockets that have heard of no claim
  (`Fresh`): a link that lives through a second handoff has `ready` set to `again`,
  and the property is false of it.
* `HostKnows`: whoever knows a peer that was told of no claim is the room's host: a
  peer is told of in PEER_UP, to the host of that moment, and every claim is told to
  all peers. So a superseded host whose roster still has such a peer does not exist.
* `Handing`: by then the room of a host that hands over is in handoff, or another's
  (`Leave` and `HandOver` are two steps, and anything may come between them).
* `Ordered`: nobody hears of, or writes to, a socket whose HELLO is not answered, so
  that a new socket meets none of the above. `First` and `Spoken` say the same of
  what a socket hears first, and of who is admitted.

`ClaimKept` says once what sessions, room and queues may do (`Follows`, `Shrinks`,
`Queues`); every action but the answer to a HELLO meets it, and that one has a lemma
of its own (`AnswerClaims`). `SessionAssumption` says that who is in the room at first
has no HELLO on its way; without it the relay could answer a socket twice.

### Rate limiters

From `RateAssumption`, and from `RateLimitAssumption` with `OverflowAssumption`
(beyond `MaxOverflow` every backoff is the longest one), for every limit, window and
backoff: `RelayLimitHolds` (`NoWindowExceeds`), `BurstNeverExceeded` (`BurstHolds`),
`BackoffsDouble` (`BackoffGrows`), and the type invariants `RelayRateTypes` and
`LimiterTypes`. Neither limit is inductive: the history that it speaks of
loses a stamp the moment the stamp expires, while a bucket keeps it until the next
request filters it out, and a sweep may drop the bucket in between. What bridges the
two:

* `Remembered`, `GrantsRemembered`: the history is what is recent in the bucket.
* `RecentAfterTick`: it makes no difference to what is recent next whether expired
  stamps were dropped before time passed. `RecentOfRecent` and `RecentOfExpired` say
  the same of a request and of a sweep.
* `NextBlockDoubles`: a key that was blocked still has its bucket, and the next block
  will be twice as long as the last. The count and the last block only change
  together, and at the bound both stand still (`BackoffDoubles`).

The filter and the powers of two are recursive functions; that they exist and what
they do to one more entry comes from `SequenceLemmas` (`Iterates`,
`SequenceInduction`).

### Only model-checked

Everything temporal under fairness, which TLAPS cannot prove: `HandoffResolves`,
`PeersNotStranded`, `ThrottleLifts`, `BucketsForgotten`, `RefusalEnds`,
`SlotsFree`, `DepartedLeaveOrMissed`, `QualityRecovers`, `HandshakeSettles`,
`GoneIsNoticed`, `EventuallyTogether`, `NobodyLingers`, `NoGhostStreams`, `OnAir`,
`AskedOnceAgrees`.

Every invariant that a run checks is proved as well.

The type invariants of `Relay`, `Signaling`, `MediaPlane`, `Heartbeat` and the rate
limiters are proved (`TypeCorrect`, `SignalingTyped`, `MediaTyped`,
`HeartbeatTyped`, `RelayRateTypes`, `LimiterTypes`), so no run spends time on them;
those of the other modules (`SessionTypeOK` and so on) document their state and are
not checked by a run.

## Not modelled

* Wire codecs, the layout and size limit of frames, the schemas of messages and the
  cryptographic primitives are pure functions over bytes, with tests of their own.
  CPace is symbolic in `Connection`; the strength of a primitive is assumed.
* STUN, reachability and local addresses are best-effort I/O that no protocol state
  depends on.
* The React components and the Electron shell hold no protocol state: they render
  snapshots and pass calls through. The calls themselves (`enterRoom`, `leaveRoom`,
  `sendMedia`) are the inputs of `Session` and `RtcClient`. Several sessions of one
  user, one after the other, are not: an idle snapshot of the session that was left
  may reach the renderer after the next one began (`ipc.ts:108`).
* `parked/` is a prototype that is not built; `nextSuccessor` and `ws-source.ts` are
  used by it only.
* The host's own renderer, directives as the renderer applies them, and statistics
  as it measures them.
