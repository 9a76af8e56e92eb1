------------------------------ MODULE Session ------------------------------
(***************************************************************************)
(* The members of the one room: RoomSession (src/main/app/room-session.ts) *)
(* of every user, entering, hosting, handing the room over, taking it over *)
(* or following whoever took it, and leaving; with the links it opens      *)
(* (net/relay-link.ts), the successor it names (election/succession.ts),   *)
(* the part of SignalingServer and SignalingClient that a handoff runs     *)
(* through, and the relay as far as it keeps the room.                     *)
(*                                                                         *)
(* A user dials the relay several times: <<u, k>> is u's k-th socket.      *)
(* What a client writes the relay handles at once, but for a HELLO, which  *)
(* takes its time; what the relay writes waits in a queue per socket.  A   *)
(* CPace handshake is four messages: hello, ack (all the host says until   *)
(* the keys are there), join (the confirmation and the request), joined.   *)
(***************************************************************************)
EXTENDS Integers, SequencesExt, FiniteSetsExt

CONSTANTS
    Users,
    MaxDials,           \* bound: sockets of a user
    Leavers,            \* bound: the users who ever leave of their own will
    MaxHandshakes,      \* MAX_CONCURRENT_HANDSHAKES
    MaxOdd,             \* bound: pings, stalls and cuts, together
    Starts              \* the casts to begin with: who is in the room, in the order they
                        \* came (the first hosts, in some epoch), who may still come, and
                        \* how much of MaxOdd is spent

ASSUME SessionAssumption ==
    /\ MaxDials \in Nat \ {0} /\ MaxHandshakes \in Nat \ {0} /\ MaxOdd \in Nat
    /\ \A cast \in Starts : /\ cast.inside \in Seq(Users) /\ cast.outside \cup cast.late \subseteq Users
                            /\ ToSet(cast.inside) \cap cast.late = {}
                            /\ cast.epoch \in Nat /\ cast.spent \in 0..MaxOdd

VARIABLES
    ses,                \* RoomSession of each user
    room,               \* the relay's room: who hosts it, its peers, is it being handed over?
    alive,              \* sockets neither side has closed, as the client sees it
    hellos,             \* HELLOs on their way
    down,               \* what the relay wrote to each socket
    odd                 \* how many of MaxOdd there were

sessionVars == <<ses, room, alive, hellos, down, odd>>

Nobody == <<>>
Sockets == Users \X (1..MaxDials)
Owner(s) == s[1]
MaxEnterAttempts == 3

NoRoom == [host |-> Nobody, peers |-> <<>>, handoff |-> "no"]

Idle == [phase |-> "idle", task |-> "none", as |-> "peer", tries |-> 0, dial |-> 0,
         link |-> Nobody, key |-> Nobody, epoch |-> 0, minEpoch |-> 0,
         transferring |-> FALSE, leaving |-> FALSE, ready |-> "none",
         closing |-> FALSE, roster |-> <<>>, greeting |-> {}, spoiled |-> {}]

\* Tasks: open (a HELLO is to be answered), backoff (openWithRetry waits), hello and join
\* (a handshake), claim (#rehome waits for HOST_CLAIMED), handing and grace (transferHost).
Phases == {"idle", "connecting", "in-room", "hosting", "left"}
Tasks == {"none", "open", "backoff", "hello", "join", "claim", "handing", "grace"}

\* Types: a session is in one phase and waits for at most one thing; sockets are sockets.
SessionTypeOK ==
    /\ ses \in [Users -> [phase : Phases, task : Tasks, as : {"peer", "host"},
                          tries : 0..MaxEnterAttempts, dial : 0..MaxDials,
                          link : Sockets \cup {Nobody}, key : Sockets \cup {Nobody}, epoch : Nat, minEpoch : Nat,
                          transferring : BOOLEAN, leaving : BOOLEAN,
                          ready : {"none", "early", "asked", "again"}, closing : BOOLEAN,
                          roster : Seq(Sockets), greeting : SUBSET Sockets,
                          spoiled : SUBSET Sockets]]
    /\ room.host \in Sockets \cup {Nobody} /\ room.peers \in Seq(Sockets)
    /\ room.handoff \in {"no", "grace", "overdue"}
    /\ alive \subseteq Sockets /\ DOMAIN down = Sockets
    /\ hellos \subseteq (Sockets \X {"peer", "host"})
    /\ odd \in 0..MaxOdd

SessionInit == \E cast \in Starts :
    LET there == ToSet(cast.inside)
        first == IF there = {} THEN Nobody ELSE <<cast.inside[1], 1>>
        guests == [i \in 1..Len(cast.inside) - 1 |-> <<cast.inside[i + 1], 1>>]
    IN
    /\ ses = [u \in Users |->
                IF <<u, 1>> = first
                THEN [Idle EXCEPT !.phase = "hosting", !.as = "host", !.tries = 2, !.dial = 1,
                                  !.link = first, !.roster = guests,
                                  !.epoch = cast.epoch, !.minEpoch = cast.epoch]
                ELSE IF u \in there
                THEN [Idle EXCEPT !.phase = "in-room", !.tries = 1, !.dial = 1,
                                  !.link = <<u, 1>>, !.key = first,
                                  !.epoch = cast.epoch, !.minEpoch = cast.epoch]
                ELSE IF u \in cast.late
                THEN [Idle EXCEPT !.phase = "connecting", !.task = "open", !.as = "host",
                                  !.tries = 2, !.dial = 1]
                ELSE IF u \in cast.outside THEN Idle
                ELSE [Idle EXCEPT !.phase = "left", !.leaving = TRUE]]
    /\ room = [NoRoom EXCEPT !.host = first, !.peers = guests]
    /\ alive = {<<u, 1>> : u \in there \cup cast.late}
    /\ hellos = {<<<<u, 1>>, "host">> : u \in cast.late}
    /\ down = [s \in Sockets |-> <<>>] /\ odd = cast.spent

-----------------------------------------------------------------------------

(* The relay.  A letter is a socket and the frames for it; letters are     *)
(* functions, and nothing is written to a socket that is closed.           *)

None == [s \in {} |-> <<>>]
To(s, f) == [to \in {s} |-> <<f>>]
Both(first, other) ==
    [s \in DOMAIN first \cup DOMAIN other |-> IF s \in DOMAIN first THEN first[s] ELSE other[s]]
Written(queues, open, letters) ==
    [s \in DOMAIN queues |->
        IF s \in open /\ s \in DOMAIN letters THEN queues[s] \o letters[s] ELSE queues[s]]

\* What a frame says, of whom; the host whose session sealed it; an epoch or a successor.
Frame(t, from, key, epoch, heir) == [t |-> t, from |-> from, key |-> key, epoch |-> epoch, heir |-> heir]
Say(t) == Frame(t, Nobody, Nobody, 0, Nobody)
Of(t, s) == Frame(t, s, Nobody, 0, Nobody)
Close == Say("close")

Peers == ToSet(room.peers)

\* delete() of an entry, which is there at most once.
Deleted(entries, e) ==
    IF e \in ToSet(entries) THEN RemoveAt(entries, CHOOSE i \in DOMAIN entries : entries[i] = e) ELSE entries

\* onMessage of a peer: the host gets it, unless the room is being handed over.
ToHost(s, m, key) ==
    IF s \in Peers /\ room.handoff = "no" THEN To(room.host, Frame(m, s, key, 0, Nobody)) ELSE None

\* onMessage of a host, be it superseded.
ToPeer(s, m, h, epoch) == IF s \in Peers THEN To(s, Frame(m, h, h, epoch, Nobody)) ELSE None

\* onClose: the room without s, and what the relay says about it.
Without(s) ==
    IF s = room.host /\ room.handoff = "no" THEN NoRoom
    ELSE [room EXCEPT !.peers = Deleted(@, s)]

Told(s) ==
    IF s = room.host /\ room.handoff = "no" THEN [p \in Peers |-> <<Close>>]
    ELSE IF s \in Peers THEN To(room.host, Of("peer_down", s))
    ELSE None

\* u goes on as c; it writes letters, and closes its socket shut (Nobody: none).
Goes(u, c, queues, letters, shut) ==
    /\ ses' = [ses EXCEPT ![u] = c]
    /\ IF shut \in alive
       THEN /\ alive' = alive \ {shut}
            /\ room' = Without(shut)
            /\ down' = Written([Written(queues, alive, letters) EXCEPT ![shut] = <<>>], alive \ {shut}, Told(shut))
       ELSE /\ down' = Written(queues, alive, letters)
            /\ UNCHANGED <<alive, room>>

\* The host throws s out.
Kicks(u, c, queues, s) ==
    /\ ses' = [ses EXCEPT ![u] = [c EXCEPT !.greeting = @ \ {s}, !.spoiled = @ \ {s},
                                           !.roster = Deleted(@, s)]]
    /\ room' = [room EXCEPT !.peers = Deleted(@, s)]
    /\ down' = Written(queues, alive, IF s \in Peers THEN To(s, Close) ELSE None)
    /\ UNCHANGED alive

\* u opens its next socket, as peer or host.
Dials(u, c, queues, shut) ==
    LET s == <<u, c.dial + 1>>  closes == shut \in alive IN
    /\ c.dial < MaxDials
    /\ ses' = [ses EXCEPT ![u] = [c EXCEPT !.dial = @ + 1, !.task = "open"]]
    /\ alive' = (alive \ {shut}) \cup {s}
    /\ hellos' = hellos \cup {<<s, c.as>>}
    /\ room' = IF closes THEN Without(shut) ELSE room
    /\ down' = LET base == IF closes THEN [queues EXCEPT ![shut] = <<>>] ELSE queues IN
               Written(base, alive \ {shut}, IF closes THEN Told(shut) ELSE None)

\* The host said it would go, and the grace is not over.
Claimable_Always == room # NoRoom
Claimable == room.handoff = "grace"

\* A HELLO arrives at the relay: #hostHello, #claimHandoff, #peerHello.
RelayHello(s, as) ==
    /\ <<s, as>> \in hellos
    /\ hellos' = hellos \ {<<s, as>>}
    /\ \/ /\ as = "host" /\ Claimable
          /\ room' = [room EXCEPT !.host = s, !.handoff = "no"]
          /\ down' = Written(down, alive,
                        [p \in Peers \cup {s} |->
                            IF p = s
                            THEN <<Say("ready")>> \o [i \in DOMAIN room.peers |->
                                     Of("peer_up", room.peers[i])]
                            ELSE <<Say("host_claimed")>>])
       \/ /\ as = "host" /\ ~Claimable /\ room = NoRoom
          /\ room' = [NoRoom EXCEPT !.host = s]
          /\ down' = Written(down, alive, To(s, Say("ready")))
       \/ /\ as = "host" /\ ~Claimable /\ room # NoRoom
          /\ down' = Written(down, alive, To(s, Say("room_exists")))
          /\ UNCHANGED room
       \/ /\ as = "peer" /\ room = NoRoom
          /\ down' = Written(down, alive, To(s, Say("no_such_room")))
          /\ UNCHANGED room
       \/ /\ as = "peer" /\ room # NoRoom
          /\ room' = [room EXCEPT !.peers = Append(@, s)]
          /\ down' = Written(down, alive, Both(To(s, Say("ready")), To(room.host, Of("peer_up", s))))
    /\ UNCHANGED <<ses, alive, odd>>

\* The grace of a handoff is over; the sweep then ends the room.
Overdue ==
    /\ room.handoff = "grace"
    /\ room' = [room EXCEPT !.handoff = "overdue"]
    /\ UNCHANGED <<ses, alive, hellos, down, odd>>

Sweep ==
    /\ room.handoff = "overdue"
    /\ room' = NoRoom
    /\ down' = Written(down, alive, [p \in Peers |-> <<Close>>])
    /\ UNCHANGED <<ses, alive, hellos, odd>>

-----------------------------------------------------------------------------

(* A session by itself.                                                    *)

Left(c) == [c EXCEPT !.phase = "left", !.task = "none", !.transferring = FALSE, !.key = Nobody]

\* ipc.ts: an enter() that failed is discarded, and the session left.
Discarded(c) == [Left(c) EXCEPT !.leaving = TRUE]

\* The client's wait for a frame fails: #rehome ends the session and keeps the socket;
\* enter() fails, and the socket is closed.
Fails(u, c, queues) ==
    IF c.leaving THEN Goes(u, [c EXCEPT !.task = "none"], queues, None, Nobody)
    ELSE IF c.transferring THEN Goes(u, Left(c), queues, None, Nobody)
    ELSE Goes(u, Discarded(c), queues, None, c.link)

\* client.connect(): a fresh Connection over the link, and hello.
Greets(u, c, queues) ==
    Goes(u, [c EXCEPT !.task = "hello", !.key = Nobody, !.spoiled = {}], queues,
         ToHost(c.link, "hello", Nobody), Nobody)

Current(u) == <<u, ses[u].dial>>

\* A client that listens: also when its session has given the host up.
Member(c) == c.as = "peer" /\ c.task = "none" /\ c.key # Nobody /\ ~c.leaving
Hosts(c) == c.as = "host" /\ c.link \in alive

\* enter(): the first attempt is a join.
Enter(u) ==
    /\ ses[u].phase = "idle"
    /\ Dials(u, [ses[u] EXCEPT !.phase = "connecting", !.tries = 1], down, Nobody)
    /\ UNCHANGED odd

\* openWithRetry gives up on a socket: READY may come later, and finds nobody waiting.
OpenTimesOut(u) ==
    /\ ses[u].task = "open" /\ odd < MaxOdd
    /\ odd' = odd + 1
    /\ Goes(u, [ses[u] EXCEPT !.task = "backoff"], down, None, Nobody)
    /\ UNCHANGED hellos

Redial(u) ==
    /\ ses[u].task = "backoff"
    /\ Dials(u, ses[u], down, Nobody)
    /\ UNCHANGED odd

-----------------------------------------------------------------------------

(* What u reads from its socket s.                                         *)

Arrives(s, t) == s \in alive /\ down[s] # <<>> /\ Head(down[s]).t = t
Rest(s) == [down EXCEPT ![s] = Tail(@)]

\* READY: a host serves at once, a peer begins its handshake; who left closes the link.
HearReady(s) ==
    LET u == Owner(s)  c == ses[u]
        awaited == c.task = "open" /\ s = Current(u)
    IN
    /\ Arrives(s, "ready")
    /\ IF ~awaited THEN Goes(u, c, Rest(s), None, Nobody)
       ELSE IF c.leaving THEN Goes(u, [c EXCEPT !.task = "none"], Rest(s), None, s)
       ELSE IF c.as = "peer" THEN Greets(u, [c EXCEPT !.link = s, !.ready = "none"], Rest(s))
       ELSE Goes(u, [c EXCEPT !.task = "none", !.phase = "hosting", !.link = s, !.transferring = FALSE,
                              !.epoch = c.minEpoch], Rest(s), None, Nobody)
    /\ UNCHANGED <<hellos, odd>>

\* REJECT: enter() turns round, at most three times; a promotion fails.
HearReject(s) ==
    LET u == Owner(s)  c == ses[u]
        awaited == c.task = "open" /\ s = Current(u)
        turned == [c EXCEPT !.as = IF @ = "peer" THEN "host" ELSE "peer", !.tries = @ + 1]
    IN
    /\ Arrives(s, "no_such_room") \/ Arrives(s, "room_exists")
    /\ IF ~awaited \/ c.leaving
       THEN Goes(u, [c EXCEPT !.task = IF awaited THEN "none" ELSE @], Rest(s), None, s) /\ UNCHANGED hellos
       ELSE IF c.transferring THEN Goes(u, Left(c), Rest(s), None, s) /\ UNCHANGED hellos
       ELSE IF c.tries < MaxEnterAttempts THEN Dials(u, turned, Rest(s), s)
       ELSE Goes(u, Discarded(c), Rest(s), None, s) /\ UNCHANGED hellos
    /\ UNCHANGED odd

\* The socket is closed.  A host's links go with it; a superseded or leaving one is silent.
HearClose(s) ==
    LET u == Owner(s)  c == ses[u]
        awaited == c.task = "open" /\ s = Current(u)
    IN
    /\ Arrives(s, "close")
    /\ IF awaited THEN Goes(u, [c EXCEPT !.task = "backoff"], Rest(s), None, s)
       ELSE IF s # c.link THEN Goes(u, c, Rest(s), None, s)
       ELSE IF c.as = "host"
       THEN Goes(u, [(IF c.closing THEN c ELSE [c EXCEPT !.phase = "left"])
                        EXCEPT !.roster = <<>>, !.greeting = {}, !.spoiled = {}], Rest(s), None, s)
       ELSE IF c.task \in {"hello", "join"} THEN
            Goes(u, IF c.leaving THEN [c EXCEPT !.task = "none"]
                    ELSE IF c.transferring THEN Left(c) ELSE Discarded(c), Rest(s), None, s)
       ELSE IF c.task = "claim" /\ c.leaving THEN Goes(u, [c EXCEPT !.task = "none"], Rest(s), None, s)
       ELSE Goes(u, Left(c), Rest(s), None, s)
    /\ UNCHANGED <<hellos, odd>>

\* hello_ack up to pake_host: a frame that is not of this session makes upgrade throw.
HearAck(s) ==
    LET u == Owner(s)  c == ses[u]  f == Head(down[s]) IN
    /\ Arrives(s, "ack") /\ s = c.link /\ c.task = "hello"
    /\ IF c.spoiled # {} THEN Fails(u, c, Rest(s))
       ELSE Goes(u, [c EXCEPT !.task = "join", !.key = f.key], Rest(s), ToHost(s, "join", f.key), Nobody)
    /\ UNCHANGED <<hellos, odd>>

\* The host is one of an earlier epoch than the handoff announced.
Stale_Never(c, f) == FALSE
Stale(c, f) == f.epoch < c.minEpoch

\* joined: the host of an earlier epoch is not followed.
HearJoined(s) ==
    LET u == Owner(s)  c == ses[u]  f == Head(down[s]) IN
    /\ Arrives(s, "joined") /\ s = c.link /\ c.task = "join" /\ f.key = c.key
    /\ IF Stale(c, f)
       THEN Goes(u, IF c.transferring THEN Left(c) ELSE Discarded(c), Rest(s), None, s)
       ELSE Goes(u, [c EXCEPT !.task = "none", !.phase = "in-room", !.transferring = FALSE,
                              !.epoch = f.epoch], Rest(s), None, Nobody)
    /\ UNCHANGED <<hellos, odd>>

\* #rehome, once the room has been claimed: one handshake, over the same socket.
HearClaimed(s) ==
    LET u == Owner(s)  c == ses[u] IN
    /\ Arrives(s, "host_claimed")
    /\ IF s # c.link \/ c.as = "host" THEN Goes(u, c, Rest(s), None, Nobody)
       ELSE IF c.task = "claim"
       THEN IF c.leaving THEN Goes(u, [c EXCEPT !.task = "none"], Rest(s), None, Nobody)
            ELSE Greets(u, c, Rest(s))
       ELSE Goes(u, [c EXCEPT !.ready = IF @ = "none" THEN "early" ELSE @], Rest(s), None, Nobody)
    /\ UNCHANGED <<hellos, odd>>

\* HOST_CLAIMED was here before host_transfer was.
ClaimedEarly_Forgotten(c) == FALSE
ClaimedEarly(c) == c.ready = "early"

\* #onHostTransfer: the heir promotes itself, the others wait for it to claim the room.
HearTransfer(s) ==
    LET u == Owner(s)  c == ses[u]  f == Head(down[s])
        told == [c EXCEPT !.transferring = TRUE, !.minEpoch = f.epoch,
                          !.ready = IF @ \in {"none", "early"} THEN "asked" ELSE "again"]
    IN
    /\ Arrives(s, "transfer") /\ s = c.link /\ Member(c) /\ f.key = c.key
    /\ IF f.heir = s
       THEN Dials(u, [told EXCEPT !.as = "host", !.link = Nobody, !.key = Nobody], Rest(s), s)
       ELSE IF ClaimedEarly(c)
       THEN Greets(u, told, Rest(s)) /\ UNCHANGED hellos
       ELSE Goes(u, [told EXCEPT !.task = "claim"], Rest(s), None, Nobody)
            /\ UNCHANGED hellos
    /\ UNCHANGED odd

\* What is sealed for another session: it spoils a handshake that has no keys yet, is lost
\* to one that has, and makes a client that listens close its link, and say nothing; so it
\* does while #rehome waits, because detach() leaves the old connection on the link.
\* A pong, and what comes to a link that nobody reads, is dropped.
HearStray(s) ==
    LET u == Owner(s)  c == ses[u]  f == Head(down[s]) IN
    /\ s \in alive /\ down[s] # <<>> /\ f.t \in {"ack", "joined", "transfer", "pong"}
    /\ \/ /\ s # c.link \/ (c.task = "none" /\ ~Member(c)) \/ (c.task = "claim" /\ f.key = c.key)
             \/ (c.task = "join" /\ f.key # c.key) \/ (f.t = "pong" /\ f.key = c.key)
          /\ Goes(u, c, Rest(s), None, Nobody)
       \/ /\ s = c.link /\ c.task = "hello" /\ f.t # "ack"
          /\ Goes(u, [c EXCEPT !.spoiled = {s}], Rest(s), None, Nobody)
       \/ /\ s = c.link /\ (Member(c) \/ c.task = "claim") /\ f.key # c.key
          /\ Goes(u, c, Rest(s), None, s)
    /\ UNCHANGED <<hellos, odd>>

-----------------------------------------------------------------------------

(* The host's server.                                                      *)

\* #handleConnection: a server that is closing, or busy, turns the peer away.  The link of a
\* peer takes no notice.
HearPeerUp(s) ==
    LET u == Owner(s)  c == ses[u]  p == Head(down[s]).from IN
    /\ Arrives(s, "peer_up")
    /\ IF s # c.link \/ c.as = "peer" THEN Goes(u, c, Rest(s), None, Nobody)
       ELSE IF c.closing \/ Cardinality(c.greeting) >= MaxHandshakes THEN Kicks(u, c, Rest(s), p)
       ELSE Goes(u, [c EXCEPT !.greeting = @ \cup {p}], Rest(s), None, Nobody)
    /\ UNCHANGED <<hellos, odd>>

HearPeerDown(s) ==
    LET u == Owner(s)  c == ses[u]  p == Head(down[s]).from IN
    /\ Arrives(s, "peer_down")
    /\ Goes(u, [c EXCEPT !.greeting = @ \ {p}, !.spoiled = @ \ {p},
                         !.roster = IF c.closing THEN @ ELSE Deleted(@, p)],
            Rest(s), None, Nobody)
    /\ UNCHANGED <<hellos, odd>>

HearHello(s) ==
    LET u == Owner(s)  c == ses[u]  p == Head(down[s]).from IN
    /\ Arrives(s, "hello")
    /\ Goes(u, c, Rest(s), IF s = c.link /\ p \in c.greeting THEN ToPeer(p, "ack", s, 0) ELSE None, Nobody)
    /\ UNCHANGED <<hellos, odd>>

\* #admit looks neither at what the server is doing meanwhile nor at whom it leaves.
HearJoin(s) ==
    LET u == Owner(s)  c == ses[u]  p == Head(down[s]).from IN
    /\ Arrives(s, "join")
    /\ IF s # c.link \/ p \notin c.greeting THEN Goes(u, c, Rest(s), None, Nobody)
       ELSE IF p \in c.spoiled THEN Kicks(u, c, Rest(s), p)
       ELSE Goes(u, [c EXCEPT !.greeting = @ \ {p}, !.roster = Append(@, p)], Rest(s),
                 ToPeer(p, "joined", s, c.epoch), Nobody)
    /\ UNCHANGED <<hellos, odd>>

HearPing(s) ==
    LET u == Owner(s)  c == ses[u]  f == Head(down[s]) IN
    /\ Arrives(s, "ping")
    /\ IF s = c.link /\ f.from \in c.greeting
       THEN Goes(u, [c EXCEPT !.spoiled = @ \cup {f.from}], Rest(s), None, Nobody)
       ELSE Goes(u, c, Rest(s), IF s = c.link /\ f.from \in ToSet(c.roster) /\ f.key = s
                                THEN ToPeer(f.from, "pong", s, 0) ELSE None, Nobody)
    /\ UNCHANGED <<hellos, odd>>

\* The timers of a handshake, and the heartbeat of a peer that does not answer.
HostGivesUp_Never(u, p) == FALSE /\ UNCHANGED sessionVars
HostGivesUp(u, p) ==
    /\ Hosts(ses[u]) /\ p \in ses[u].greeting
    /\ Kicks(u, ses[u], down, p)
    /\ UNCHANGED <<hellos, odd>>

\* p's client listens with the keys of h's session: it answers pings.
Answers_Always(p, h) == TRUE
Answers(p, h) ==
    LET c == ses[Owner(p)] IN p \in alive /\ c.link = p /\ c.key = h /\ (Member(c) \/ c.task \in {"join", "claim"})

HostDropsDead(u, p) ==
    LET c == ses[u] IN
    /\ Hosts(c) /\ ~c.closing /\ p \in ToSet(c.roster) /\ ~Answers(p, c.link)
    /\ Kicks(u, c, down, p)
    /\ UNCHANGED <<hellos, odd>>

-----------------------------------------------------------------------------

(* Leaving.                                                                *)

\* leave().  A client closes its link, a host that is alone the room; a host with guests
\* hands it over.  What is being opened or waited for notices later.
Leave(u) ==
    LET c == ses[u]
        gone == [c EXCEPT !.leaving = TRUE, !.phase = "left"]
        client == c.as = "peer" /\ c.link # Nobody /\ (c.task \in {"hello", "join"} \/ (c.task = "none" /\ c.key # Nobody))
    IN
    /\ u \in Leavers /\ c.phase # "idle" /\ ~c.leaving
    /\ IF client THEN Goes(u, [gone EXCEPT !.task = "none"], down, None, c.link)
       ELSE IF c.as = "host" /\ c.link # Nobody /\ c.roster # <<>>
       THEN /\ ses' = [ses EXCEPT ![u] = [gone EXCEPT !.task = "handing", !.closing = TRUE]]
            /\ room' = IF room.host = c.link THEN [room EXCEPT !.handoff = "grace"] ELSE room
            /\ UNCHANGED <<alive, down>>
       ELSE IF c.as = "host" /\ c.link # Nobody
       THEN Goes(u, [gone EXCEPT !.closing = TRUE, !.greeting = {}, !.spoiled = {}], down, None, c.link)
       ELSE Goes(u, gone, down, None, Nobody)
    /\ UNCHANGED <<hellos, odd>>

\* transferHost: successionOrder of the roster, and the broadcast.
Heir(roster) == roster[1]

HandOver(u) ==
    LET c == ses[u] IN
    /\ c.task = "handing"
    /\ Goes(u, [c EXCEPT !.task = "grace"], down,
            [p \in ToSet(c.roster) \cap Peers |->
                <<Frame("transfer", c.link, c.link, c.epoch + 1, Heir(c.roster))>>], Nobody)
    /\ UNCHANGED <<hellos, odd>>

\* #closeForHandoff.
GraceEnds(u) ==
    LET c == ses[u] IN
    /\ c.task = "grace"
    /\ Goes(u, [c EXCEPT !.task = "none", !.roster = <<>>, !.greeting = {}, !.spoiled = {}], down, None, c.link)
    /\ UNCHANGED <<hellos, odd>>

-----------------------------------------------------------------------------

(* Timers, and the network.                                                *)

\* REHOME_MAX_WAIT_MS.
RehomeGivesUp(u) ==
    LET c == ses[u] IN
    /\ c.task = "claim"
    /\ Goes(u, IF c.leaving THEN [c EXCEPT !.task = "none"] ELSE Left(c), down, None, Nobody)
    /\ UNCHANGED <<hellos, odd>>

ConnectTimesOut(u) ==
    /\ ses[u].task \in {"hello", "join"}
    /\ Fails(u, ses[u], down)
    /\ UNCHANGED <<hellos, odd>>

\* The heartbeat of a client gets no answer: the session ends, its link stays.
Unheard(c) ==
    \/ c.link \notin alive
    \/ /\ down[c.link] = <<>>
       /\ \A h \in Users : ~(Hosts(ses[h]) /\ ses[h].link = c.key /\ c.link \in ToSet(ses[h].roster))

HostLost(u) ==
    LET c == ses[u] IN
    /\ Member(c) /\ c.phase = "in-room" /\ Unheard(c)
    /\ Goes(u, [c EXCEPT !.phase = "left"], down, None, Nobody)
    /\ UNCHANGED <<hellos, odd>>

\* The same when the answers are only late.
HostDoubted(u) ==
    LET c == ses[u] IN
    /\ Member(c) /\ c.phase = "in-room" /\ ~Unheard(c) /\ odd < MaxOdd
    /\ odd' = odd + 1
    /\ Goes(u, [c EXCEPT !.phase = "left"], down, None, Nobody)
    /\ UNCHANGED hellos

Ping(u) ==
    LET c == ses[u] IN
    /\ Member(c) /\ c.phase = "in-room" /\ c.link \in alive /\ odd < MaxOdd
    /\ odd' = odd + 1
    /\ Goes(u, c, down, ToHost(c.link, "ping", c.key), Nobody)
    /\ UNCHANGED hellos

\* A socket is lost: the relay hears of it, and so does the client.
Cut(s) ==
    /\ s \in alive /\ s \in Peers \cup {room.host} /\ odd < MaxOdd
    /\ odd' = odd + 1
    /\ room' = Without(s)
    /\ down' = Written(down, alive, Both(To(s, Close), Told(s)))
    /\ UNCHANGED <<ses, alive, hellos>>

-----------------------------------------------------------------------------

Hear(s) ==
    \/ HearReady(s) \/ HearReject(s) \/ HearClose(s) \/ HearAck(s) \/ HearJoined(s) \/ HearClaimed(s)
    \/ HearTransfer(s) \/ HearStray(s) \/ HearPeerUp(s) \/ HearPeerDown(s) \/ HearHello(s)
    \/ HearJoin(s) \/ HearPing(s)

Ticks(u) ==
    \/ Redial(u) \/ HandOver(u) \/ GraceEnds(u) \/ RehomeGivesUp(u) \/ ConnectTimesOut(u) \/ HostLost(u)
    \/ \E p \in Sockets : HostGivesUp(u, p) \/ HostDropsDead(u, p)

\* What goes on by itself.
Progress ==
    \/ \E s \in alive : Hear(s)
    \/ \E u \in Users : Ticks(u)
    \/ \E hello \in hellos : RelayHello(hello[1], hello[2])
    \/ Overdue \/ Sweep

SessionNext ==
    \/ Progress
    \/ \E u \in Users : Enter(u) \/ OpenTimesOut(u) \/ HostDoubted(u) \/ Ping(u) \/ Leave(u)
    \/ \E s \in alive : Cut(s)

SessionSpec == SessionInit /\ [][SessionNext]_sessionVars

FairSessionSpec == SessionSpec /\ WF_sessionVars(Progress)

-----------------------------------------------------------------------------

\* Two actors never both believe they are the host the relay sends peers to: a session in
\* phase hosting whose link stands is the room's host, and no handoff of it is under way
\* (#promote and enter() set the phase after READY, while others claim, leave and return).
HostsAreReal ==
    \A u \in Users : LET c == ses[u] IN
        (c.phase = "hosting" /\ c.link \in alive /\ Close \notin ToSet(down[c.link]))
            => room.host = c.link /\ room.handoff = "no"

\* Nobody goes back to a host of an earlier epoch: over all the handoffs a user lives
\* through, and when the room dies and is opened anew meanwhile (expectedMinEpoch).
EpochNeverBack == [][\A u \in Users : ses'[u].epoch >= ses[u].epoch]_sessionVars

\* A survivor that waits for HOST_CLAIMED, in the first re-homing of its link, never waits
\* in vain: nobody has claimed the room yet, or the news is still on its way.  The relay
\* may tell it before host_transfer does (#handoffAlreadyClaimed, waitForHandoffReady).
ClaimsAreHeard ==
    \A u \in Users : LET c == ses[u] IN
        (c.task = "claim" /\ c.ready = "asked" /\ c.link \in alive /\ down[c.link] = <<>>)
            => room.handoff # "no" /\ c.link \in Peers

\* A session listens on its link p: it is in the room, or its heartbeat gave the host up.
Listens(p) == ses[Owner(p)].link = p /\ Member(ses[Owner(p)])
InRoom(p) == Listens(p) /\ ses[Owner(p)].phase = "in-room"
GaveUp(p) == Listens(p) /\ ses[Owner(p)].phase = "left"

\* Who is in the room is in the roster of a host, in its epoch; who hosts is the host the
\* relay knows, of members that are in the room; and nobody is under way.
Together ==
    /\ \A u \in Users : ses[u].phase = "in-room" =>
          \E h \in Users : /\ ses[h].phase = "hosting" /\ ses[u].link \in ToSet(ses[h].roster)
                           /\ ses[u].epoch = ses[h].epoch
    /\ \A h \in Users : ses[h].phase = "hosting" =>
          /\ room.host = ses[h].link
          /\ \A p \in ToSet(ses[h].roster) : InRoom(p) \/ GaveUp(p)
    /\ \A u \in Users : ses[u].phase # "connecting" /\ (ses[u].transferring => ses[u].leaving)

\* When the disturbances have stopped (users leaving, stalls, cuts), the sessions come to
\* agree on who is in the room with whom: no survivor is stuck between two hosts, no host
\* keeps a member that has gone, and everybody who was entering is in, or out.  Excepted
\* is a member whose heartbeat gave the host up (host-lost): its session has ended, but its
\* client goes on answering the host's pings, and the host keeps it until its user leaves.
EventuallyTogether == <>[]Together

\* No socket stays in the relay's room unless it is the link of a session that is in the
\* room: what a session gave up (leave() during #rehome, a handoff that failed, a handshake
\* that was interrupted, a socket whose open() timed out) is thrown out by the host in the
\* end.  Two are excepted: the link of a session that gave the host up, as above; and, when
\* the host is itself a socket nobody reads (its open() had timed out), everybody: nobody
\* throws anybody out there.
NobodyLingers ==
    <>[](\A p \in Peers : InRoom(p) \/ GaveUp(p) \/ ses[Owner(room.host)].link # room.host)
=============================================================================
