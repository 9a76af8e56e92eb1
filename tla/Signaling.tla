----------------------------- MODULE Signaling -----------------------------
(***************************************************************************)
(* The signaling server of a host (src/main/signaling/server.ts and        *)
(* roster.ts) and the clients of its peers (client.ts), over one ordered   *)
(* connection each.                                                        *)
(*                                                                         *)
(* Each member of Peers connects at most once, so it stands for the        *)
(* connection, its peerId and its client.  The handshake is folded into    *)
(* hello, hello_ack and pake_confirm.                                      *)
(*                                                                         *)
(* An awaited message wakes its handler in a later microtask, and what     *)
(* arrived in the same read of the socket is delivered first: "confirmed"  *)
(* and "admitting" are the stages of a connection in between.  Timers and  *)
(* users wait until no connection is there (Settled).  Messages that       *)
(* arrive meanwhile are held (the connection's inbox), a close is not.     *)
(***************************************************************************)
EXTENDS Integers, SequencesExt

CONSTANTS
    Host,               \* the peerId of the host
    Peers,              \* who may connect
    NicknameOf,         \* nicknames in lower case
    MaxParticipants,    \* roomParams.maxParticipants
    MaxHandshakes,      \* MAX_CONCURRENT_HANDSHAKES
    VerifyInbound,      \* opts.verifyInbound
    MaxRequests         \* bound: the pings and media requests of all clients

ASSUME SignalingAssumption ==
    /\ IsFiniteSet(Peers) /\ Host \notin Peers
    /\ DOMAIN NicknameOf = Peers \cup {Host}
    /\ MaxParticipants \in Nat \ {0}
    /\ MaxHandshakes \in Nat \ {0}
    /\ VerifyInbound \in BOOLEAN
    /\ MaxRequests \in Nat

VARIABLES
    phase,              \* #closing, and how the server closed
    stage,              \* where the host's handler of each connection stands
    hClosed,            \* the connections the host knows to be closed
    roster,             \* #roster
    nextJoinSeq,        \* #nextJoinSeq
    links,              \* #links
    beating,            \* the links whose heartbeat runs
    activeHandshakes,   \* #activeHandshakes
    probing,            \* the links whose inbound port is being probed
    replying,           \* the media requests being handled
    toHost, toPeer,     \* what travels on each connection
    client,             \* the state of each client
    mirror,             \* its #roster
    requests,           \* how many requests the clients sent
    early               \* history: closed while the handler was about to wake

server == <<phase, stage, hClosed, roster, nextJoinSeq, links, beating,
            activeHandshakes, probing, replying>>
clients == <<client, mirror, requests>>
signalingVars == <<server, toHost, toPeer, clients, early>>

Entry(p, seq, verified) == [peer |-> p, joinSeq |-> seq, inboundVerified |-> verified]
Members(entries) == {e.peer : e \in entries}

\* sort((a, b) => a.joinSeq - b.joinSeq), which is stable: the place an entry gets, and
\* every entry in its place (a function, because TLC evaluates its argument once).
PlaceOf(entries, i) ==
    Cardinality({j \in DOMAIN entries :
                    \/ entries[j].joinSeq < entries[i].joinSeq
                    \/ entries[j].joinSeq = entries[i].joinSeq /\ j <= i})
ByJoinSeq(entries) ==
    LET sorted[q \in {entries}] ==
            [k \in DOMAIN q |-> q[CHOOSE i \in DOMAIN q : PlaceOf(q, i) = k]]
    IN  sorted[entries]

Snapshot(entries) == ByJoinSeq(SetToSeq(entries))

Msg(type) == [type |-> type]
RosterUpdate(added, removed, changed) ==
    [type |-> "roster_update", added |-> added, removed |-> removed, changed |-> changed]

Stages == {"idle", "handshake", "confirmed", "join", "admitting", "admitted", "over"}
ClientStates == {"idle", "hello", "joining", "joined", "in", "lost", "moved", "out"}
Up == phase \in {"open", "transferring"}

\* No continuation is due: macrotasks other than reads of a socket may run.
Settled ==
    \A c \in Peers :
        /\ stage[c] \notin {"confirmed", "admitting"}
        /\ c \in hClosed /\ stage[c] \in {"join", "admitted"} => toHost[c] = <<>>

SignalingTypeOK ==
    /\ phase \in {"open", "transferring", "handed", "closed"}
    /\ stage \in [Peers -> Stages]
    /\ hClosed \subseteq Peers
    /\ roster \subseteq [peer : Peers \cup {Host}, joinSeq : Nat, inboundVerified : BOOLEAN]
    /\ nextJoinSeq \in Nat
    /\ links \subseteq Peers /\ beating \subseteq Peers
    /\ activeHandshakes \in Nat
    /\ probing \subseteq Peers /\ replying \subseteq Peers
    /\ client \in [Peers -> ClientStates]
    /\ requests \in 0..MaxRequests
    /\ early \subseteq Peers

SignalingInit ==
    /\ phase = "open"
    /\ stage = [c \in Peers |-> "idle"]
    /\ hClosed = {}
    /\ roster = {Entry(Host, 0, TRUE)}
    /\ nextJoinSeq = 1
    /\ links = {} /\ beating = {}
    /\ activeHandshakes = 0
    /\ probing = {} /\ replying = {}
    /\ toHost = [c \in Peers |-> <<>>]
    /\ toPeer = [c \in Peers |-> <<>>]
    /\ client = [c \in Peers |-> "idle"]
    /\ mirror = [c \in Peers |-> <<>>]
    /\ requests = 0
    /\ early = {}

-----------------------------------------------------------------------------

(* The host's end of a connection.                                         *)

\* A client that is gone hears nothing, one that detached cares for a close only.
Heeds(c, m) == client[c] # "out" /\ (client[c] = "moved" => m.type = "close")

\* conn.send to each of S: nothing once the connection is closed.  queues is toPeer
\* with what the handler sent before.
Post(queues, S, m) ==
    [c \in Peers |-> IF c \in S \ hClosed /\ Heeds(c, m)
                     THEN Append(queues[c], m) ELSE queues[c]]

\* conn.close(): what is on its way to the host is lost.
HangUp(c, queues) ==
    /\ hClosed' = hClosed \cup {c}
    /\ toHost' = [toHost EXCEPT ![c] = <<>>]
    /\ toPeer' = Post(queues, {c}, Msg("close"))

Goto(c, s) == stage' = [stage EXCEPT ![c] = s]
HostReads(c, type) == Up /\ toHost[c] # <<>> /\ Head(toHost[c]).type = type
Consume(c) == toHost' = [toHost EXCEPT ![c] = Tail(@)]

\* Mutant of PeerGone: the link goes, the roster keeps the entry.
PeerGone_KeepsEntry(c) ==
    /\ links' = links \ {c}
    /\ beating' = beating \ {c}
    /\ UNCHANGED roster

\* #onPeerGone, without its broadcast.
PeerGone(c) ==
    IF phase = "open"
    THEN /\ links' = links \ {c}
         /\ beating' = beating \ {c}
         /\ roster' = {e \in roster : e.peer # c}
    ELSE UNCHANGED <<links, beating, roster>>

\* The broadcast of #onPeerGone, to the links that remain.
AnnounceGone(c, queues) ==
    IF phase = "open"
    THEN Post(queues, links \ {c}, RosterUpdate({}, {c}, {}))
    ELSE queues

\* conn.close() of an admitted peer: its close listener runs at once.
DropLink(c) ==
    /\ HangUp(c, AnnounceGone(c, toPeer))
    /\ PeerGone(c)

-----------------------------------------------------------------------------

(* #handleConnection and #admit.                                           *)

Refuse(c) ==
    /\ Goto(c, "over")
    /\ HangUp(c, Post(toPeer, {c}, Msg("handshake_reject")))
    /\ UNCHANGED activeHandshakes

\* The rate limiter (module RateLimit) may refuse any attempt.
Accept(c) ==
    /\ stage[c] = "idle" /\ HostReads(c, "hello")
    /\ \/ Refuse(c)
       \/ /\ phase = "open" /\ activeHandshakes < MaxHandshakes
          /\ Goto(c, "handshake")
          /\ activeHandshakes' = activeHandshakes + 1
          /\ Consume(c)
          /\ toPeer' = Post(toPeer, {c}, Msg("hello_ack"))
          /\ UNCHANGED hClosed
    /\ UNCHANGED <<phase, roster, nextJoinSeq, links, beating, probing, replying,
                   clients, early>>

\* pake_confirm resolves the wait of the handshake ...
HandshakeRead(c) ==
    /\ stage[c] = "handshake" /\ HostReads(c, "pake_confirm")
    /\ Goto(c, "confirmed")
    /\ Consume(c)
    /\ UNCHANGED <<phase, hClosed, roster, nextJoinSeq, links, beating, activeHandshakes,
                   probing, replying, toPeer, clients, early>>

\* ... and its handler wakes: the keys are installed, #admit waits for join.
Upgrade(c) ==
    /\ Up /\ stage[c] = "confirmed"
    /\ Goto(c, "join")
    /\ activeHandshakes' = activeHandshakes - 1
    /\ UNCHANGED <<phase, hClosed, roster, nextJoinSeq, links, beating, probing, replying,
                   toHost, toPeer, clients, early>>

\* Mutant of HandshakeFails: only a completed handshake gives its place back.
HandshakeFails_KeepsSlot(c) ==
    /\ Up /\ Settled /\ stage[c] = "handshake"
    /\ Goto(c, "over")
    /\ HangUp(c, toPeer)
    /\ UNCHANGED <<phase, roster, nextJoinSeq, links, beating, activeHandshakes, probing,
                   replying, clients, early>>

\* A step of the handshake timed out or did not verify.
HandshakeFails(c) ==
    /\ Up /\ Settled /\ stage[c] = "handshake"
    /\ Goto(c, "over")
    /\ activeHandshakes' = activeHandshakes - 1
    /\ HangUp(c, toPeer)
    /\ UNCHANGED <<phase, roster, nextJoinSeq, links, beating, probing, replying, clients,
                   early>>

JoinRead(c) ==
    /\ stage[c] = "join" /\ HostReads(c, "join")
    /\ Goto(c, "admitting")
    /\ Consume(c)
    /\ UNCHANGED <<phase, hClosed, roster, nextJoinSeq, links, beating, activeHandshakes,
                   probing, replying, toPeer, clients, early>>

\* JOIN_TIMEOUT_MS passed.
JoinFails(c) ==
    /\ Up /\ Settled /\ stage[c] = "join"
    /\ Goto(c, "over")
    /\ HangUp(c, toPeer)
    /\ UNCHANGED <<phase, roster, nextJoinSeq, links, beating, activeHandshakes, probing,
                   replying, clients, early>>

\* Mutant of Admissible: the host is forgotten in the count.
Admissible_CountsLinks(c) ==
    /\ Cardinality(links) < MaxParticipants
    /\ \A e \in roster : NicknameOf[e.peer] # NicknameOf[c]

\* roster.size() and roster.hasNickname().
Admissible(c) ==
    /\ Cardinality(roster) < MaxParticipants
    /\ \A e \in roster : NicknameOf[e.peer] # NicknameOf[c]

\* Mutant of AdmitJoin: the snapshot is taken before the entry is added.
AdmitJoin_OldSnapshot(c) ==
    LET entry == Entry(c, nextJoinSeq, FALSE) IN
    /\ Goto(c, "admitted")
    /\ roster' = roster \cup {entry}
    /\ toPeer' = Post(Post(toPeer, {c}, [type |-> "joined", roster |-> Snapshot(roster)]),
                      links, RosterUpdate({entry}, {}, {}))

\* The rest of #admit: the entry and the link, joined to the new peer,
\* roster_update to the others.
AdmitJoin(c) ==
    LET entry == Entry(c, nextJoinSeq, FALSE) IN
    /\ Goto(c, "admitted")
    /\ roster' = roster \cup {entry}
    /\ toPeer' = Post(Post(toPeer, {c}, [type |-> "joined", roster |-> Snapshot(roster')]),
                      links, RosterUpdate({entry}, {}, {}))

\* #admit wakes.  It looks at the roster as it is now, but neither at #closing nor
\* at whether the connection is still open.
Admit(c) ==
    /\ Up /\ stage[c] = "admitting"
    /\ \/ /\ ~Admissible(c)
          /\ Goto(c, "over")
          /\ HangUp(c, Post(toPeer, {c}, Msg("rejected")))
          /\ UNCHANGED <<roster, nextJoinSeq, links, beating, probing>>
       \/ /\ Admissible(c)
          /\ AdmitJoin(c)
          /\ nextJoinSeq' = nextJoinSeq + 1
          /\ links' = links \cup {c}
          /\ beating' = beating \cup {c}
          /\ probing' = IF VerifyInbound THEN probing \cup {c} ELSE probing
          /\ UNCHANGED <<hClosed, toHost>>
    /\ UNCHANGED <<phase, activeHandshakes, replying, clients, early>>

-----------------------------------------------------------------------------

(* The host with an admitted peer.                                         *)

\* A ping is answered at once, a media request after an await.
Request(c) ==
    /\ stage[c] = "admitted" /\ c \in links
    /\ \/ HostReads(c, "ping") /\ toPeer' = Post(toPeer, {c}, Msg("pong")) /\ UNCHANGED replying
       \/ HostReads(c, "media") /\ replying' = replying \cup {c} /\ UNCHANGED toPeer
    /\ Consume(c)
    /\ UNCHANGED <<phase, stage, hClosed, roster, nextJoinSeq, links, beating,
                   activeHandshakes, probing, clients, early>>

\* #handleMedia goes on: the link may be gone meanwhile.
MediaReply(c) ==
    /\ c \in replying
    /\ replying' = replying \ {c}
    /\ toPeer' = IF c \in links THEN Post(toPeer, {c}, Msg("media")) ELSE toPeer
    /\ UNCHANGED <<phase, stage, hClosed, roster, nextJoinSeq, links, beating,
                   activeHandshakes, probing, toHost, clients, early>>

\* The peer said bye; the connection may be closed already.
Bye(c) ==
    /\ stage[c] = "admitted" /\ c \in links /\ HostReads(c, "bye")
    /\ \/ c \notin hClosed /\ DropLink(c)
       \/ c \in hClosed /\ Consume(c) /\ UNCHANGED <<hClosed, toPeer, links, beating, roster>>
    /\ UNCHANGED <<phase, stage, nextJoinSeq, activeHandshakes, probing, replying, clients,
                   early>>

\* Mutant of HeartbeatDead: the heartbeat stops, the connection stays.
HeartbeatDead_OnlyStops(c) ==
    /\ Up /\ Settled /\ c \in beating
    /\ beating' = beating \ {c}
    /\ UNCHANGED <<phase, stage, hClosed, roster, nextJoinSeq, links, activeHandshakes,
                   probing, replying, toHost, toPeer, clients, early>>

\* The heartbeat of the link declares the peer dead (module Heartbeat).
HeartbeatDead(c) ==
    /\ Up /\ Settled /\ c \in beating
    /\ \/ c \notin hClosed /\ DropLink(c)
       \/ /\ c \in hClosed
          /\ beating' = beating \ {c}
          /\ UNCHANGED <<hClosed, toHost, toPeer, links, roster>>
    /\ UNCHANGED <<phase, stage, nextJoinSeq, activeHandshakes, probing, replying, clients,
                   early>>

\* #probeInbound goes on, if the link is still there.
ProbeDone(c) ==
    /\ Settled /\ c \in probing
    /\ probing' = probing \ {c}
    /\ \/ c \notin links /\ UNCHANGED <<roster, toPeer>>
       \/ /\ c \in links
          /\ \E reachable \in BOOLEAN :
                /\ roster' = {IF e.peer = c THEN [e EXCEPT !.inboundVerified = reachable] ELSE e :
                                 e \in roster}
                /\ toPeer' = Post(toPeer, links, RosterUpdate({}, {}, {e \in roster' : e.peer = c}))
    /\ UNCHANGED <<phase, stage, hClosed, nextJoinSeq, links, beating, activeHandshakes,
                   replying, toHost, clients, early>>

\* The connection closes, and its close listener runs: that of the handshake, of
\* the wait for join, or of the admitted peer.
HearClose(c) ==
    /\ stage[c] \notin {"confirmed", "admitting"} /\ HostReads(c, "close")
    /\ hClosed' = hClosed \cup {c}
    /\ Consume(c)
    /\ \/ /\ stage[c] = "admitted"
          /\ PeerGone(c)
          /\ toPeer' = AnnounceGone(c, toPeer)
          /\ UNCHANGED <<stage, activeHandshakes>>
       \/ /\ stage[c] # "admitted"
          /\ Goto(c, "over")
          /\ activeHandshakes' = IF stage[c] = "handshake" THEN activeHandshakes - 1
                                 ELSE activeHandshakes
          /\ UNCHANGED <<links, beating, roster, toPeer>>
    /\ UNCHANGED <<phase, nextJoinSeq, probing, replying, clients, early>>

\* The close arrives in the same read as the message that wakes the handler:
\* nobody listens.
HearCloseEarly(c) ==
    /\ Up /\ stage[c] \in {"confirmed", "admitting"}
    /\ toHost[c] # <<>> /\ Last(toHost[c]).type = "close"
    /\ hClosed' = hClosed \cup {c}
    /\ toHost' = [toHost EXCEPT ![c] = Front(@)]
    /\ early' = early \cup {c}
    /\ UNCHANGED <<phase, stage, roster, nextJoinSeq, links, beating, activeHandshakes,
                   probing, replying, toPeer, clients>>

-----------------------------------------------------------------------------

(* The end of the server.                                                  *)

\* successionOrder: verified peers first, then by joinSeq, which is unique.
Before(a, b) ==
    \/ a.inboundVerified /\ ~b.inboundVerified
    \/ a.inboundVerified = b.inboundVerified /\ a.joinSeq < b.joinSeq

Successor ==
    CHOOSE c \in Peers :
        \E e \in roster : /\ e.peer = c
                          /\ \A f \in roster : f.peer \in {c, Host} \/ Before(e, f)

\* transferHost(), as RoomSession calls it: with somebody to take over.
TransferHost ==
    /\ phase = "open" /\ Settled
    /\ Cardinality(roster) > 1
    /\ phase' = "transferring"
    /\ toPeer' = Post(toPeer, links, [type |-> "host_transfer", successor |-> Successor])
    /\ beating' = {}
    /\ UNCHANGED <<stage, hClosed, roster, nextJoinSeq, links, activeHandshakes, probing,
                   replying, toHost, clients, early>>

\* The grace is over: #closeForHandoff().  The relay holds the room.
CloseForHandoff ==
    /\ phase = "transferring" /\ Settled
    /\ phase' = "handed"
    /\ links' = {} /\ beating' = {}
    /\ UNCHANGED <<stage, hClosed, roster, nextJoinSeq, activeHandshakes, probing, replying,
                   toHost, toPeer, clients, early>>

Connected == {c \in Peers : client[c] # "idle"}

\* close() with bye, crash() without: either way the source closes and takes
\* every connection along.
Shut(queues) ==
    /\ phase = "open" /\ Settled
    /\ phase' = "closed"
    /\ links' = {} /\ beating' = {}
    /\ hClosed' = Peers
    /\ toPeer' = Post(queues, Connected, Msg("close"))
    /\ UNCHANGED <<stage, roster, nextJoinSeq, activeHandshakes, probing, replying, toHost,
                   clients, early>>

CloseServer == Shut(Post(toPeer, links, Msg("bye")))
Crash == Shut(toPeer)

-----------------------------------------------------------------------------

(* The clients.                                                            *)

ClientReads(c, type) == toPeer[c] # <<>> /\ Head(toPeer[c]).type = type
Take(c) == toPeer' = [toPeer EXCEPT ![c] = Tail(@)]
Become(c, s) == client' = [client EXCEPT ![c] = s]
Sends(c, messages) ==
    toHost' = IF c \in hClosed THEN toHost ELSE [toHost EXCEPT ![c] = @ \o messages]
Gone(c) == Become(c, "out") /\ toPeer' = [toPeer EXCEPT ![c] = <<>>]

\* connect(): the transport is open, the first message is sent.
Dial(c) ==
    /\ Up /\ client[c] = "idle"
    /\ Become(c, "hello")
    /\ Sends(c, <<Msg("hello")>>)
    /\ UNCHANGED <<server, toPeer, mirror, requests, early>>

\* The rest of the handshake, and join right behind.
Join(c) ==
    /\ client[c] = "hello" /\ ClientReads(c, "hello_ack")
    /\ Become(c, "joining")
    /\ Take(c)
    /\ Sends(c, <<Msg("pake_confirm"), Msg("join")>>)
    /\ UNCHANGED <<server, mirror, requests, early>>

Joined(c) ==
    /\ client[c] = "joining" /\ ClientReads(c, "joined")
    /\ Become(c, "joined")
    /\ mirror' = [mirror EXCEPT ![c] = Head(toPeer[c]).roster]
    /\ Take(c)
    /\ UNCHANGED <<server, toHost, requests, early>>

\* connect() wakes: the listeners are set and the heartbeat starts.
Settle(c) ==
    /\ client[c] = "joined"
    /\ Become(c, "in")
    /\ UNCHANGED <<server, toHost, toPeer, mirror, requests, early>>

\* connect() rejects: refused, or the connection closed before joined.
ConnectFails(c) ==
    /\ \/ client[c] \in {"hello", "joining"}
          /\ (ClientReads(c, "handshake_reject") \/ ClientReads(c, "close"))
       \/ client[c] = "joining" /\ (ClientReads(c, "rejected") \/ ClientReads(c, "bye"))
    /\ Gone(c)
    /\ UNCHANGED <<server, toHost, mirror, requests, early>>

\* A wait of connect() timed out.  The connection stays open, unread.
ConnectTimesOut(c) ==
    /\ client[c] \in {"hello", "joining"}
    /\ Gone(c)
    /\ UNCHANGED <<server, toHost, mirror, requests, early>>

Live(c) == client[c] \in {"in", "lost"}

\* The roster of a client after roster_update: filter, map, concat, sort.
Kept(entries, removed) ==
    LET kept[n \in 0..Len(entries)] ==
            IF n = 0 THEN <<>>
            ELSE IF entries[n].peer \in removed THEN kept[n - 1]
            ELSE Append(kept[n - 1], entries[n])
    IN  kept[Len(entries)]

Changed(entries, changed) ==
    [i \in DOMAIN entries |->
        IF entries[i].peer \in Members(changed)
        THEN CHOOSE e \in changed : e.peer = entries[i].peer ELSE entries[i]]

Apply(entries, u) ==
    ByJoinSeq(Changed(Kept(entries, u.removed), u.changed) \o SetToSeq(u.added))

OnRosterUpdate(c) ==
    /\ Live(c) /\ ClientReads(c, "roster_update")
    /\ mirror' = [mirror EXCEPT ![c] = Apply(@, Head(toPeer[c]))]
    /\ Take(c)
    /\ UNCHANGED <<server, toHost, client, requests, early>>

OnReply(c) ==
    /\ Live(c) /\ (ClientReads(c, "pong") \/ ClientReads(c, "media"))
    /\ Take(c)
    /\ UNCHANGED <<server, toHost, clients, early>>

\* host-transfer: the successor closes its connection with bye, the others keep
\* theirs and detach.
OnHostTransfer(c) ==
    /\ Live(c) /\ ClientReads(c, "host_transfer")
    /\ \/ /\ Head(toPeer[c]).successor = c
          /\ Gone(c)
          /\ Sends(c, <<Msg("bye"), Msg("close")>>)
       \/ /\ Head(toPeer[c]).successor # c
          /\ Become(c, "moved")
          /\ toPeer' = [toPeer EXCEPT ![c] = SelectSeq(@, LAMBDA m : m.type = "close")]
          /\ UNCHANGED toHost
    /\ UNCHANGED <<server, mirror, requests, early>>

\* bye, or the connection closed: the session is left.
OnClose(c) ==
    /\ \/ Live(c) /\ (ClientReads(c, "bye") \/ ClientReads(c, "close"))
       \/ client[c] = "moved" /\ ClientReads(c, "close")
    /\ Gone(c)
    /\ UNCHANGED <<server, toHost, mirror, requests, early>>

\* The close arrives together with joined: connect() does not hear it.
MissClose(c) ==
    /\ client[c] = "joined"
    /\ toPeer[c] # <<>> /\ Last(toPeer[c]).type = "close"
    /\ toPeer' = [toPeer EXCEPT ![c] = Front(@)]
    /\ UNCHANGED <<server, toHost, clients, early>>

\* The client's heartbeat gives the host up; the connection stays as it is.
HostLost(c) ==
    /\ client[c] = "in"
    /\ Become(c, "lost")
    /\ UNCHANGED <<server, toHost, toPeer, mirror, requests, early>>

\* The heartbeat pings, or the renderer asks for media.
Ask(c) ==
    /\ Live(c) /\ requests < MaxRequests
    /\ requests' = requests + 1
    /\ \E type \in {"ping", "media"} : Sends(c, <<Msg(type)>>)
    /\ UNCHANGED <<server, toPeer, client, mirror, early>>

\* close(): bye, if there are keys, and the connection is closed.
Leave(c) ==
    /\ client[c] \in {"hello", "joining", "in", "lost"}
    /\ Sends(c, IF client[c] = "hello" THEN <<Msg("close")>> ELSE <<Msg("bye"), Msg("close")>>)
    /\ Gone(c)
    /\ UNCHANGED <<server, mirror, requests, early>>

\* The process or the network of the peer is gone: what it sent last may be lost,
\* and the relay may or may not notice.
Vanish(c) ==
    /\ client[c] \notin {"idle", "out"}
    /\ Gone(c)
    /\ \E n \in 0..Len(toHost[c]), seen \in BOOLEAN :
          toHost' = IF c \in hClosed THEN toHost
                    ELSE [toHost EXCEPT ![c] =
                             SubSeq(@, 1, n) \o (IF seen THEN <<Msg("close")>> ELSE <<>>)]
    /\ UNCHANGED <<server, mirror, requests, early>>

-----------------------------------------------------------------------------

HostStep(c) ==
    \/ Accept(c) \/ HandshakeRead(c) \/ Upgrade(c) \/ HandshakeFails(c)
    \/ JoinRead(c) \/ JoinFails(c) \/ Admit(c)
    \/ Request(c) \/ MediaReply(c) \/ Bye(c) \/ HeartbeatDead(c) \/ ProbeDone(c)
    \/ HearClose(c) \/ HearCloseEarly(c)

ClientReceives(c) ==
    \/ Join(c) \/ Joined(c) \/ Settle(c) \/ ConnectFails(c)
    \/ OnRosterUpdate(c) \/ OnReply(c) \/ OnHostTransfer(c) \/ OnClose(c)

ClientStep(c) ==
    \/ ClientReceives(c) \/ Dial(c) \/ ConnectTimesOut(c) \/ MissClose(c)
    \/ HostLost(c) \/ Ask(c) \/ Leave(c) \/ Vanish(c)

SignalingNext ==
    \/ \E c \in Peers : HostStep(c) \/ ClientStep(c)
    \/ TransferHost \/ CloseForHandoff \/ CloseServer \/ Crash

SignalingSpec == SignalingInit /\ [][SignalingNext]_signalingVars

\* Sockets are read and continuations run; the timers of a handshake, of the wait
\* for join and of connect() fire; the heartbeat of either side notices an end that
\* is gone.  Nothing is assumed of users, nor of a peer that answers.
FairSignalingSpec ==
    /\ SignalingSpec
    /\ \A c \in Peers :
          /\ WF_signalingVars(Accept(c) \/ HandshakeRead(c) \/ Upgrade(c) \/ JoinRead(c)
                              \/ Admit(c) \/ Request(c) \/ Bye(c) \/ HearClose(c))
          /\ WF_signalingVars(HandshakeFails(c))
          /\ WF_signalingVars(JoinFails(c))
          /\ WF_signalingVars(HeartbeatDead(c) /\ client[c] = "out")
          /\ WF_signalingVars(ClientReceives(c))
          /\ WF_signalingVars(ConnectTimesOut(c))
          /\ WF_signalingVars(HostLost(c) /\ c \in hClosed)

-----------------------------------------------------------------------------

\* The room is never over its limit, no two participants share a nickname or a
\* place in the order, whatever admissions, departures and probes interleave.
RosterWellFormed ==
    /\ Cardinality(roster) <= MaxParticipants
    /\ \A e, f \in roster :
          e # f => /\ NicknameOf[e.peer] # NicknameOf[f.peer]
                   /\ e.joinSeq # f.joinSeq

\* While the server is open, the roster is the host and its links, and a link's
\* connection is open, except one that closed while #admit was about to wake.
RosterIsConnected ==
    phase = "open" => /\ Members(roster) = links \cup {Host}
                      /\ links \cap hClosed \subseteq early

\* activeHandshakes counts the handshakes that run, on every way out of one, and
\* stays within MAX_CONCURRENT_HANDSHAKES.
SlotsCounted ==
    Up => /\ activeHandshakes = Cardinality({c \in Peers : stage[c] \in {"handshake", "confirmed"}})
          /\ activeHandshakes <= MaxHandshakes

\* What a client makes of the snapshot and the deltas that are on their way to it
\* is the roster of the host, entry by entry and in order.
Pending(view, m) ==
    IF m.type = "joined" THEN m.roster
    ELSE IF m.type = "roster_update" THEN Apply(view, m) ELSE view

Foreseen(view, queue) ==
    LET seen[n \in 0..Len(queue)] ==
            IF n = 0 THEN view ELSE Pending(seen[n - 1], queue[n])
    IN  seen[Len(queue)]

MirrorsConverge ==
    \A c \in links \ hClosed :
        client[c] \in {"joining", "joined", "in", "lost"}
        => Foreseen(mirror[c], toPeer[c]) = Snapshot(roster)

\* The handshake slots are never used up for good, whatever the peers in them do.
SlotsFree == activeHandshakes = MaxHandshakes ~> activeHandshakes < MaxHandshakes \/ ~Up

\* "Heartbeat detects a peer that stopped responding": a peer that is gone leaves the
\* roster for good, unless its close came while #admit was about to wake (early).
DepartedLeaveOrMissed ==
    \A c \in Peers :
        client[c] = "out" ~> [](c \notin Members(roster) \/ phase # "open" \/ c \in early)
=============================================================================
