------------------------------- MODULE Relay -------------------------------
(***************************************************************************)
(* The room registry of the signaling relay (server/src/relay.ts) behind   *)
(* its WebSocket front end (server/src/index.ts).                          *)
(*                                                                         *)
(* A socket is one WebSocket connection: it is used once, says HELLO once, *)
(* and is closed once.  A room is owned by one host socket and maps        *)
(* connection ids to peer sockets.  Node runs one handler at a time, so    *)
(* every handler is one atomic action; what interleaves is the order in    *)
(* which the sockets' messages, their close events, the sweep timer and    *)
(* the clock arrive.                                                       *)
(*                                                                         *)
(* Data abstracted: payloads, the host token (issued, never verified),     *)
(* PING/PONG, and the verdict of the per-address rate limiter, which is an *)
(* input here and is modelled by RelayRate.                                *)
(***************************************************************************)
EXTENDS Integers, FiniteSets

CONSTANTS
    Sockets,            \* WebSocket connections, each used once
    RoomIds,            \* room identifiers a client may ask for
    NoSocket,           \* the absence of a socket
    MaxRooms,           \* limits.maxRooms
    MaxPeersPerRoom,    \* limits.maxPeersPerRoom
    HandoffGrace,       \* HANDOFF_GRACE_MS, in ticks
    MaxConnId,          \* bound: connection ids a room hands out in its life
    MaxTime             \* bound: the last instant the clock reaches

ASSUME RelayAssumption ==
    /\ NoSocket \notin Sockets
    /\ IsFiniteSet(Sockets)
    /\ IsFiniteSet(RoomIds)
    /\ MaxRooms \in Nat
    /\ MaxPeersPerRoom \in Nat
    /\ HandoffGrace \in Nat \ {0}
    /\ MaxConnId \in Nat
    /\ MaxTime \in Nat

ConnIds == 1..MaxConnId
NoDeadline == -1        \* handoffDeadline: undefined

VARIABLES
    life,               \* the WebSocket of each socket
    attached,           \* #attached: what a socket was admitted as
    host,               \* room.host; NoSocket when #rooms has no such room
    peers,              \* room.peers
    nextConnId,         \* room.nextConnId
    handoffDeadline,    \* room.handoffDeadline
    now,                \* Date.now()
    announced,          \* history: what PEER_UP/PEER_DOWN told a host socket
    incarnation,        \* history: how often the room was created
    frame               \* the data frame the last step put on a wire

roomVars == <<host, peers, nextConnId, handoffDeadline, incarnation>>
vars == <<life, attached, roomVars, now, announced, frame>>

-----------------------------------------------------------------------------

Detached == [role |-> "none"]
AsHost(r) == [role |-> "host", roomId |-> r]
AsPeer(r, c) == [role |-> "peer", roomId |-> r, connId |-> c]

NoFrame == [dir |-> "none"]
ToHost(p, c, r) == [dir |-> "toHost", from |-> p, to |-> host[r], roomId |-> r, connId |-> c]
ToPeer(h, c, r) == [dir |-> "toPeer", from |-> h, to |-> peers[r][c], roomId |-> r, connId |-> c]

NoPeers == [c \in ConnIds |-> NoSocket]

Exists(r) == host[r] # NoSocket
Rooms == {r \in RoomIds : Exists(r)}
Slots(r) == {c \in ConnIds : peers[r][c] # NoSocket}
Pending(r) == handoffDeadline[r] # NoDeadline
Claimable(r) == Pending(r) /\ now < handoffDeadline[r]

\* Mutants of Expired: the comparison swapped; a lingering host keeps its room.
Expired_Early == {r \in RoomIds : Pending(r) /\ now < handoffDeadline[r]}
Expired_Lingering ==
    {r \in RoomIds : Pending(r) /\ now >= handoffDeadline[r] /\ life[host[r]] = "closed"}

Expired == {r \in RoomIds : Pending(r) /\ now >= handoffDeadline[r]}

\* Messages a client sent before it saw the relay's close are still read.
Readable(s) == life[s] \in {"open", "closing"}

\* PEER_UP and PEER_DOWN; socket.send is a no-op unless the WebSocket is open.
AnnounceUp(h, c, s) ==
    announced' = IF life[h] = "open"
                 THEN [announced EXCEPT ![h] = @ \cup {<<c, s>>}]
                 ELSE announced

AnnounceDown(h, c) ==
    announced' = IF life[h] = "open"
                 THEN [announced EXCEPT ![h] = {pair \in @ : pair[1] # c}]
                 ELSE announced

-----------------------------------------------------------------------------

TypeOK ==
    /\ life \in [Sockets -> {"new", "open", "closing", "closed"}]
    /\ attached \in [Sockets -> [role : {"none"}]
                                  \cup [role : {"host"}, roomId : RoomIds]
                                  \cup [role : {"peer"}, roomId : RoomIds, connId : ConnIds]]
    /\ host \in [RoomIds -> Sockets \cup {NoSocket}]
    /\ peers \in [RoomIds -> [ConnIds -> Sockets \cup {NoSocket}]]
    /\ nextConnId \in [RoomIds -> 1..(MaxConnId + 1)]
    /\ handoffDeadline \in [RoomIds -> Nat \cup {NoDeadline}]
    /\ now \in 0..MaxTime
    /\ announced \in [Sockets -> SUBSET (ConnIds \X Sockets)]
    /\ incarnation \in [RoomIds -> Nat]
    /\ frame \in [dir : {"none"}]
                 \cup [dir : {"toHost", "toPeer"}, from : Sockets, to : Sockets,
                       roomId : RoomIds, connId : ConnIds]

Init ==
    /\ life = [s \in Sockets |-> "new"]
    /\ attached = [s \in Sockets |-> Detached]
    /\ host = [r \in RoomIds |-> NoSocket]
    /\ peers = [r \in RoomIds |-> NoPeers]
    /\ nextConnId = [r \in RoomIds |-> 1]
    /\ handoffDeadline = [r \in RoomIds |-> NoDeadline]
    /\ now = 0
    /\ announced = [s \in Sockets |-> {}]
    /\ incarnation = [r \in RoomIds |-> 0]
    /\ frame = NoFrame

-----------------------------------------------------------------------------
(* HELLO: the first message of a socket the relay takes.  ws is the        *)
(* WebSocket then: open, or closing when a text frame or a bad hello came  *)
(* before (index.ts), which the relay closes it for without counting it as *)
(* greeted.                                                                *)

\* #kick(socket, reason): REJECT, then close; the socket is never attached.
Reject(s) ==
    /\ life' = [life EXCEPT ![s] = "closing"]
    /\ frame' = NoFrame
    /\ UNCHANGED <<attached, roomVars, now, announced>>

ProtoMismatch(s) ==
    /\ life[s] = "new"
    /\ Reject(s)

\* Mutants of ClaimHandoff: peers not announced; peers dropped; not attached.
ClaimHandoff_Silent(s, r, ws) ==
    /\ host' = [host EXCEPT ![r] = s]
    /\ handoffDeadline' = [handoffDeadline EXCEPT ![r] = NoDeadline]
    /\ attached' = [attached EXCEPT ![s] = AsHost(r)]
    /\ life' = [life EXCEPT ![s] = ws]
    /\ frame' = NoFrame
    /\ UNCHANGED <<peers, nextConnId, incarnation, now, announced>>

ClaimHandoff_Empties(s, r, ws) ==
    /\ host' = [host EXCEPT ![r] = s]
    /\ peers' = [peers EXCEPT ![r] = NoPeers]
    /\ handoffDeadline' = [handoffDeadline EXCEPT ![r] = NoDeadline]
    /\ attached' = [attached EXCEPT ![s] = AsHost(r)]
    /\ life' = [life EXCEPT ![s] = ws]
    /\ frame' = NoFrame
    /\ UNCHANGED <<nextConnId, incarnation, now, announced>>

ClaimHandoff_Unattached(s, r, ws) ==
    /\ host' = [host EXCEPT ![r] = s]
    /\ handoffDeadline' = [handoffDeadline EXCEPT ![r] = NoDeadline]
    /\ life' = [life EXCEPT ![s] = ws]
    /\ announced' = IF ws = "open"
                    THEN [announced EXCEPT ![s] = {<<c, peers[r][c]>> : c \in Slots(r)}]
                    ELSE announced
    /\ frame' = NoFrame
    /\ UNCHANGED <<attached, peers, nextConnId, incarnation, now>>

\* The successor takes the room: it is told of every peer still connected.
ClaimHandoff(s, r, ws) ==
    /\ host' = [host EXCEPT ![r] = s]
    /\ handoffDeadline' = [handoffDeadline EXCEPT ![r] = NoDeadline]
    /\ attached' = [attached EXCEPT ![s] = AsHost(r)]
    /\ life' = [life EXCEPT ![s] = ws]
    /\ announced' = IF ws = "open"
                    THEN [announced EXCEPT ![s] = {<<c, peers[r][c]>> : c \in Slots(r)}]
                    ELSE announced
    /\ frame' = NoFrame
    /\ UNCHANGED <<peers, nextConnId, incarnation, now>>

CreateRoom(s, r, ws) ==
    /\ host' = [host EXCEPT ![r] = s]
    /\ peers' = [peers EXCEPT ![r] = NoPeers]
    /\ nextConnId' = [nextConnId EXCEPT ![r] = 1]
    /\ handoffDeadline' = [handoffDeadline EXCEPT ![r] = NoDeadline]
    /\ incarnation' = [incarnation EXCEPT ![r] = @ + 1]
    /\ attached' = [attached EXCEPT ![s] = AsHost(r)]
    /\ life' = [life EXCEPT ![s] = ws]
    /\ frame' = NoFrame
    /\ UNCHANGED <<now, announced>>

\* allowed: what #allow(ip, 'creates') answers.
HostHello(s, r, allowed, ws) ==
    /\ life[s] = "new"
    /\ \/ Claimable(r) /\ ClaimHandoff(s, r, ws)
       \/ /\ ~Claimable(r)
          /\ Cardinality(Rooms) < MaxRooms /\ allowed /\ ~Exists(r)
          /\ CreateRoom(s, r, ws)
       \/ /\ ~Claimable(r)
          /\ Cardinality(Rooms) >= MaxRooms \/ ~allowed \/ Exists(r)
          /\ Reject(s)

\* Mutant of Admit: the id is the number of peers plus one, so ids recur.
Admit_ReusesIds(s, r, ws) ==
    LET c == Cardinality(Slots(r)) + 1 IN
    /\ c \in ConnIds
    /\ peers' = [peers EXCEPT ![r][c] = s]
    /\ attached' = [attached EXCEPT ![s] = AsPeer(r, c)]
    /\ life' = [life EXCEPT ![s] = ws]
    /\ AnnounceUp(host[r], c, s)
    /\ frame' = NoFrame
    /\ UNCHANGED <<host, nextConnId, handoffDeadline, incarnation, now>>

\* The room exists, has space and the limiter agrees: the peer gets the next
\* connection id and the room's host, departing or not, gets PEER_UP.
Admit(s, r, ws) ==
    LET c == nextConnId[r] IN
    /\ c \in ConnIds                       \* bound
    /\ nextConnId' = [nextConnId EXCEPT ![r] = c + 1]
    /\ peers' = [peers EXCEPT ![r][c] = s]
    /\ attached' = [attached EXCEPT ![s] = AsPeer(r, c)]
    /\ life' = [life EXCEPT ![s] = ws]
    /\ AnnounceUp(host[r], c, s)
    /\ frame' = NoFrame
    /\ UNCHANGED <<host, handoffDeadline, incarnation, now>>

\* allowed: what #allow(ip, 'joins') answers.
PeerHello(s, r, allowed, ws) ==
    /\ life[s] = "new"
    /\ \/ /\ Exists(r) /\ Cardinality(Slots(r)) < MaxPeersPerRoom /\ allowed
          /\ Admit(s, r, ws)
       \/ /\ ~Exists(r) \/ Cardinality(Slots(r)) >= MaxPeersPerRoom \/ ~allowed
          /\ Reject(s)

-----------------------------------------------------------------------------
(* Later messages.  A socket that is not attached, or whose room is gone,  *)
(* is ignored.                                                             *)

\* HANDOFF counts only when it comes from the room's current host.
Handoff(s, r) ==
    /\ Readable(s) /\ attached[s] = AsHost(r)
    /\ host[r] = s
    /\ now + HandoffGrace <= MaxTime       \* bound
    /\ handoffDeadline' = [handoffDeadline EXCEPT ![r] = now + HandoffGrace]
    /\ frame' = NoFrame
    /\ UNCHANGED <<life, attached, host, peers, nextConnId, incarnation, now, announced>>

\* A host drops, or writes to, connections it was told of and believes up.
Believes(s, c) == c \in {pair[1] : pair \in announced[s]}

\* Mutant of Kick: the peer is forgotten but not closed.
Kick_LeavesOpen(s, r, c) ==
    /\ Readable(s) /\ attached[s] = AsHost(r) /\ Believes(s, c)
    /\ Exists(r) /\ c \in Slots(r)
    /\ peers' = [peers EXCEPT ![r][c] = NoSocket]
    /\ frame' = NoFrame
    /\ UNCHANGED <<life, attached, host, nextConnId, handoffDeadline, incarnation, now, announced>>

Kick(s, r, c) ==
    /\ Readable(s) /\ attached[s] = AsHost(r) /\ Believes(s, c)
    /\ Exists(r) /\ c \in Slots(r)
    /\ peers' = [peers EXCEPT ![r][c] = NoSocket]
    /\ life' = [life EXCEPT ![peers[r][c]] = "closing"]
    /\ frame' = NoFrame
    /\ UNCHANGED <<attached, host, nextConnId, handoffDeadline, incarnation, now, announced>>

DataFromHost(s, r, c) ==
    /\ Readable(s) /\ attached[s] = AsHost(r) /\ Believes(s, c)
    /\ Exists(r) /\ c \in Slots(r)
    /\ frame' = IF life[peers[r][c]] = "open" THEN ToPeer(s, c, r) ELSE NoFrame
    /\ UNCHANGED <<life, attached, roomVars, now, announced>>

\* While a handoff is pending, what peers send is dropped.
DataFromPeer(s, r, c) ==
    /\ Readable(s) /\ attached[s] = AsPeer(r, c)
    /\ Exists(r)
    /\ frame' = IF ~Pending(r) /\ life[host[r]] = "open" THEN ToHost(s, c, r) ELSE NoFrame
    /\ UNCHANGED <<life, attached, roomVars, now, announced>>

-----------------------------------------------------------------------------
(* Closing.                                                                *)

\* The sockets of the rooms in R are told HOST_GONE and closed.
Evicted(R) == {s \in Sockets : \E r \in R, c \in ConnIds : peers[r][c] = s}

\* #teardownRoom for each room in R; gone is the socket whose close caused it.
Teardown(R, gone) ==
    /\ host' = [r \in RoomIds |-> IF r \in R THEN NoSocket ELSE host[r]]
    /\ peers' = [r \in RoomIds |-> IF r \in R THEN NoPeers ELSE peers[r]]
    /\ nextConnId' = [r \in RoomIds |-> IF r \in R THEN 1 ELSE nextConnId[r]]
    /\ handoffDeadline' = [r \in RoomIds |-> IF r \in R THEN NoDeadline ELSE handoffDeadline[r]]
    /\ life' = [s \in Sockets |-> IF s \in gone THEN "closed"
                                  ELSE IF s \in Evicted(R) THEN "closing"
                                  ELSE life[s]]
    /\ UNCHANGED incarnation

\* The room's host is gone without a handoff: the room goes with it.
CloseHost(s, r) ==
    /\ host[r] = s
    /\ ~Pending(r)
    /\ Teardown({r}, {s})
    /\ announced' = [announced EXCEPT ![s] = {}]

\* Mutant of ClosePeer: during a handoff the room "and its peers" are left alone.
ClosePeer_NotWhilePending(s, r, c) ==
    /\ Exists(r)
    /\ peers' = IF Pending(r) THEN peers ELSE [peers EXCEPT ![r][c] = NoSocket]
    /\ life' = [life EXCEPT ![s] = "closed"]
    /\ AnnounceDown(host[r], c)
    /\ UNCHANGED <<host, nextConnId, handoffDeadline, incarnation>>

\* A peer is gone: its slot is freed and the room's host gets PEER_DOWN.
ClosePeer(s, r, c) ==
    /\ Exists(r)
    /\ peers' = [peers EXCEPT ![r][c] = NoSocket]
    /\ life' = [life EXCEPT ![s] = "closed"]
    /\ AnnounceDown(host[r], c)
    /\ UNCHANGED <<host, nextConnId, handoffDeadline, incarnation>>

\* Nobody is told: a socket never admitted, a room already gone, a host that
\* was superseded, or one whose handoff is pending.
CloseQuietly(s) ==
    /\ \/ attached[s] = Detached
       \/ \E r \in RoomIds : attached[s] = AsHost(r) /\ (host[r] # s \/ Pending(r))
       \/ \E r \in RoomIds, c \in ConnIds : attached[s] = AsPeer(r, c) /\ ~Exists(r)
    /\ life' = [life EXCEPT ![s] = "closed"]
    /\ announced' = [announced EXCEPT ![s] = {}]
    /\ UNCHANGED roomVars

\* The 'close' event: the client left, crashed, went silent past the idle
\* timeout, or finished the closing handshake the relay began.
Close(s) ==
    /\ Readable(s)
    /\ \/ \E r \in RoomIds : attached[s] = AsHost(r) /\ CloseHost(s, r)
       \/ \E r \in RoomIds, c \in ConnIds : attached[s] = AsPeer(r, c) /\ ClosePeer(s, r, c)
       \/ CloseQuietly(s)
    /\ attached' = [attached EXCEPT ![s] = Detached]
    /\ frame' = NoFrame
    /\ UNCHANGED now

\* A text frame makes the relay close the socket it came from.
NonBinary(s) ==
    /\ life[s] = "open"
    /\ life' = [life EXCEPT ![s] = "closing"]
    /\ frame' = NoFrame
    /\ UNCHANGED <<attached, roomVars, now, announced>>

-----------------------------------------------------------------------------

\* The timer: rooms nobody claimed in time are torn down.
Sweep ==
    /\ Teardown(Expired, {})
    /\ frame' = NoFrame
    /\ UNCHANGED <<attached, now, announced>>

Tick ==
    /\ now < MaxTime                       \* bound
    /\ now' = now + 1
    /\ frame' = NoFrame
    /\ UNCHANGED <<life, attached, roomVars, announced>>

Hello(s) ==
    \/ ProtoMismatch(s)
    \/ \E r \in RoomIds, allowed \in BOOLEAN, ws \in {"open", "closing"} :
          HostHello(s, r, allowed, ws) \/ PeerHello(s, r, allowed, ws)

Message(s) ==
    \/ \E r \in RoomIds : Handoff(s, r)
    \/ \E r \in RoomIds, c \in ConnIds : Kick(s, r, c)
    \/ \E r \in RoomIds, c \in ConnIds : DataFromHost(s, r, c)
    \/ \E r \in RoomIds, c \in ConnIds : DataFromPeer(s, r, c)
    \/ NonBinary(s)

Next ==
    \/ \E s \in Sockets : Hello(s) \/ Message(s) \/ Close(s)
    \/ Sweep
    \/ Tick

Spec == Init /\ [][Next]_vars

(***************************************************************************)
(* The sweep timer keeps firing, time passes, and a closing handshake ends *)
(* (the ws library destroys the connection when the other side is silent). *)
(***************************************************************************)
Fairness ==
    /\ WF_vars(Sweep)
    /\ WF_vars(Tick)
    /\ \A s \in Sockets : WF_vars(life[s] = "closing" /\ Close(s))

FairSpec == Spec /\ Fairness
-----------------------------------------------------------------------------
(* Safety.                                                                 *)

\* A taken slot holds a socket that was admitted under exactly this id and is
\* not yet closed: whatever empties the slot, the socket's own close finds it.
SlotsAttached ==
    \A r \in RoomIds : \A c \in Slots(r) :
        /\ Exists(r)
        /\ c < nextConnId[r]
        /\ Readable(peers[r][c])
        /\ attached[peers[r][c]] = AsPeer(r, c)

\* No room is left without someone whose disappearance ends it: either its host
\* is attached as its host, so that its close tears the room down, or a
\* handoff deadline is set, so that the sweep does (onClose, sweep).
NoHeadlessRoom ==
    \A r \in RoomIds : Exists(r) /\ ~Pending(r) =>
        Readable(host[r]) /\ attached[host[r]] = AsHost(r)

\* What the current host of a room was told agrees with the room, through
\* claims, kicks and closes: every taken slot was announced to it, for the same
\* socket; and whatever it believes up that has no slot any more is a socket
\* whose close has yet to arrive and will be reported (PEER_DOWN).
HostViewAgrees ==
    \A r \in RoomIds : Exists(r) /\ life[host[r]] = "open" =>
        /\ \A c \in Slots(r) : <<c, peers[r][c]>> \in announced[host[r]]
        /\ \A c \in ConnIds, s \in Sockets :
               <<c, s>> \in announced[host[r]] => attached[s] = AsPeer(r, c)

\* A peer whose socket is open keeps its place in its room: it is only ever
\* removed by a handler that also closes it (kick, teardown, its own close).
KeepsSlot(s, r, c) == life[s] = "open" /\ attached[s] = AsPeer(r, c) => peers[r][c] = s

\* That much holds of every room id that was created at most once; onClose, which looks
\* the slot up by room and connection id, takes it for granted of every room.
OpenPeersKeepSlots ==
    \A s \in Sockets, r \in RoomIds, c \in ConnIds :
        incarnation[r] <= 1 => KeepsSlot(s, r, c)

\* Bytes handed to a host under a connection id were written by the peer that
\* the host was told has that id, never by another one.
AttributedRight ==
    frame.dir = "toHost" =>
        \A p \in Sockets : <<frame.connId, p>> \in announced[frame.to] => p = frame.from

\* That holds of room ids created at most once...
AttributedRightOnce ==
    frame.dir = "toHost" /\ incarnation[frame.roomId] <= 1 => AttributedRight

\* No limit of the configuration is exceeded: not by a claim, which skips the
\* checks, nor by slots freed and taken again.
WithinLimits ==
    /\ Cardinality(Rooms) <= MaxRooms
    /\ \A r \in RoomIds : Cardinality(Slots(r)) <= MaxPeersPerRoom

-----------------------------------------------------------------------------
(* The inductive invariant behind the safety properties: what has to be    *)
(* known of attachments, hosts and ids for the handlers to keep them.      *)

\* Only a socket that is open or closing is attached; one that has not said
\* HELLO yet was told nothing.
AttachedReadable ==
    \A s \in Sockets :
        /\ attached[s] # Detached => Readable(s)
        /\ life[s] = "new" => announced[s] = {}

\* A room's host is attached to it until its socket closes, and a host that
\* has closed has a handoff pending.
HostsAttached ==
    \A r \in RoomIds :
        IF Exists(r)
        THEN /\ life[host[r]] # "new"
             /\ life[host[r]] # "closed" => attached[host[r]] = AsHost(r)
             /\ life[host[r]] = "closed" => Pending(r)
        ELSE ~Pending(r)

\* In a room id's first life a connection id stands for one socket, and only
\* ids below nextConnId are in use.
IdsIssuedOnce ==
    \A r \in RoomIds :
        /\ Exists(r) => incarnation[r] > 0
        /\ \A s \in Sockets, c \in ConnIds :
               attached[s] = AsPeer(r, c) =>
                   /\ incarnation[r] > 0
                   /\ incarnation[r] = 1 /\ Exists(r) => c < nextConnId[r]
                   /\ incarnation[r] = 1 =>
                          \A t \in Sockets : attached[t] = AsPeer(r, c) => t = s

RelayInv ==
    /\ TypeOK
    /\ AttachedReadable
    /\ HostsAttached
    /\ SlotsAttached
    /\ HostViewAgrees
    /\ IdsIssuedOnce
    /\ OpenPeersKeepSlots

-----------------------------------------------------------------------------
(* The promise of RoomOwnership, kept.                                     *)

Ownership ==
    INSTANCE RoomOwnership WITH
        owner <- host,
        offered <- [r \in RoomIds |-> Pending(r)],
        members <- [r \in RoomIds |-> {peers[r][c] : c \in Slots(r)}],
        unused <- {s \in Sockets : life[s] = "new"}

\* The relay's handlers implement RoomOwnership: a room changes hands only by
\* a claim while its host has handed it off, its peers stay through the claim,
\* and they go together when it ends.
ImplementsOwnership == Ownership!OwnershipSpec

-----------------------------------------------------------------------------
(* Liveness.                                                               *)

\* A handoff is not pending for ever: the room is claimed or torn down.
HandoffResolves ==
    \A r \in RoomIds : Pending(r) ~> ~Pending(r)

\* A peer is not left for ever in a room whose host is gone: a new host claims
\* the room, or the peer's socket is closed.
Stranded(s) ==
    /\ life[s] = "open"
    /\ \E r \in RoomIds, c \in ConnIds :
          peers[r][c] = s /\ Exists(r) /\ life[host[r]] = "closed"

PeersNotStranded == \A s \in Sockets : Stranded(s) ~> ~Stranded(s)
=============================================================================
