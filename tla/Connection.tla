----------------------------- MODULE Connection -----------------------------
(***************************************************************************)
(* One control connection, from the moment the host hears of the peer to   *)
(* its end: both Connection objects (src/main/net/connection.ts), the      *)
(* handshake that runs over them (signaling/handshake.ts), the join that   *)
(* follows (server.ts, client.ts), and the two transports                  *)
(* (net/relay-link.ts) with the relay between them as one ordered wire in  *)
(* each direction.                                                         *)
(*                                                                         *)
(* A message that is awaited resolves a promise, and the code behind the   *)
(* await runs in a microtask: between the two the socket may deliver more  *)
(* (due).  CPace is modelled symbolically, and AES-GCM by what it decides: *)
(* a frame opens only in its own session.                                  *)
(***************************************************************************)
EXTENDS Integers, SequencesExt

CONSTANTS
    MaxEarly,           \* how many binary frames #pendingBinary takes
    MaxSends,           \* bound: data messages of an end that serves
    MaxStrays           \* bound: frames of an earlier session, to either end

ASSUME ConnectionAssumption == MaxEarly \in Nat /\ MaxSends \in Nat /\ MaxStrays \in Nat

VARIABLES
    agree,              \* what the two ends agree on
    resumed,            \* the peer's socket is kept from before a handoff
    end,                \* both Connection objects, and what runs over them
    wire,               \* what is on its way to each end
    strays,             \* how often the superseded host wrote to the peer
    missed              \* history: ends that were told of a close and did not listen

connectionVars == <<agree, resumed, end, wire, strays, missed>>

Ends == {"host", "peer"}
Other(e) == IF e = "host" THEN "peer" ELSE "host"

\* The host takes the connection on; the versions and the room are the same; the host's
\* Argon2 parameters are strong enough; the password is the same; the epoch is not stale.
Facts == {"welcome", "target", "hardening", "password", "epoch"}

TextSteps == {"hello", "pake_peer", "pake_confirm", "hello_ack", "pake_host"}
SealedSteps == {"join", "joined"}
Awaiting == TextSteps \cup SealedSteps
Steps == Awaiting \cup {"serving", "failed", "over"}

Text(type) == [kind |-> "text", type |-> type, n |-> 0]
Sealed(type, n) == [kind |-> "sealed", type |-> type, n |-> n]
Stray == [kind |-> "stray", type |-> "data", n |-> 0]
Gone == [kind |-> "gone", type |-> "close", n |-> 0]

Frames == {Text(t) : t \in TextSteps \cup {"handshake_reject"}} \cup {Stray, Gone}
          \cup {Sealed(t, n) : t \in SealedSteps \cup {"rejected", "data"}, n \in 0..MaxSends}

ConnectionTypeOK ==
    /\ agree \subseteq Facts /\ resumed \in BOOLEAN
    /\ end \in [Ends -> [step : Steps, due : BOOLEAN, secure : BOOLEAN, closed : BOOLEAN,
                         early : Seq(Frames), inbox : Seq(Frames), got : Seq(0..MaxSends),
                         sent : 0..MaxSends + 1]]
    /\ wire \in [Ends -> Seq(Frames)]
    /\ strays \in 0..MaxStrays
    /\ missed \subseteq Ends

Fresh(step) == [step |-> step, due |-> FALSE, secure |-> FALSE, closed |-> FALSE,
                early |-> <<>>, inbox |-> <<>>, got |-> <<>>, sent |-> 0]

\* The peer has said hello.  A host that is closing, has too many handshakes or limits
\* the rate rejects at once.  Frames of the peer's earlier session come first.
ConnectionInit ==
    /\ agree \in SUBSET Facts
    /\ resumed \in BOOLEAN
    /\ \/ /\ "welcome" \in agree
          /\ end = [host |-> Fresh("hello"), peer |-> Fresh("hello_ack")]
          /\ \E k \in 0..MaxStrays :
                /\ k > 0 => resumed
                /\ wire = [host |-> [i \in 1..k |-> Stray] \o <<Text("hello")>>, peer |-> <<>>]
       \/ /\ "welcome" \notin agree
          /\ end = [host |-> [Fresh("failed") EXCEPT !.closed = TRUE], peer |-> Fresh("hello_ack")]
          /\ wire = [host |-> <<>>, peer |-> <<Text("handshake_reject"), Gone>>]
    /\ strays = 0 /\ missed = {}

-----------------------------------------------------------------------------

(* What happens inside a Connection c, up to the next time it waits.       *)

Listens(c, kind) ==
    IF kind = "text" THEN c.step \in TextSteps /\ ~c.due
    ELSE c.step \in {"serving", "over"} \/ (c.step \in SealedSteps /\ ~c.due)

\* The host drops a connection it gives up.  So does a peer that was joining, because
\* its session is left; a survivor of a handoff keeps the socket.
Failed(c, e) == [c EXCEPT !.step = "failed", !.due = FALSE, !.closed = c.closed \/ e = "host" \/ ~resumed]

\* A message reaches its listener.
Emit(c, e, f) ==
    LET took == IF f.kind = "sealed" THEN [c EXCEPT !.got = Append(@, f.n)] ELSE c IN
    IF c.step \in {"serving", "over"} THEN took
    ELSE IF f.type = c.step THEN [took EXCEPT !.due = TRUE]
    ELSE IF c.step = "joined" /\ f.type # "rejected" THEN took
    ELSE Failed(took, e)

\* #deliver.
Delivered(c, e, f) ==
    IF Listens(c, f.kind) THEN Emit(c, e, f) ELSE [c EXCEPT !.inbox = Append(@, f)]

\* #fail: without a listener emit throws, and nothing is closed.
Faulted(c, e) ==
    IF c.closed THEN c
    ELSE IF Listens(c, "text") THEN [Failed(c, e) EXCEPT !.closed = TRUE]
    ELSE IF e = "peer" /\ c.step \in {"serving", "over"} THEN [c EXCEPT !.closed = TRUE]
    ELSE c

\* #onMessage once there are keys: the frame must be of this session.
Opens(f) == f.kind = "sealed"

Received(c, e, f) ==
    IF c.secure
    THEN IF Opens(f) THEN Delivered(c, e, f) ELSE Faulted(c, e)
    ELSE IF f.kind = "text" THEN Delivered(c, e, f)
    ELSE IF Len(c.early) < MaxEarly THEN [c EXCEPT !.early = Append(@, f)]
    ELSE Faulted(c, e)

\* The frames are delivered, one after the other.
DeliveredAll(c, e, frames) ==
    LET after[i \in 0..Len(frames)] == IF i = 0 THEN c ELSE Delivered(after[i - 1], e, frames[i])
    IN after[Len(frames)]

\* Mutant of Flush: a new listener hears only what comes from now on.
Flush_Never(c, e) == c

\* A listener was added: #flush hands out what nobody had asked for.
Flush(c, e) == DeliveredAll([c EXCEPT !.inbox = <<>>], e, c.inbox)

\* upgrade: replays what came early; a frame that does not open makes it throw.
Upgrade(c, e) ==
    LET keyed == [c EXCEPT !.secure = TRUE, !.early = <<>>] IN
    IF \A i \in DOMAIN c.early : Opens(c.early[i]) THEN DeliveredAll(keyed, e, c.early) ELSE Failed(keyed, e)

\* The code behind an await goes on to wait for the next message, or to serve.
Await(c, e, step) == Flush([c EXCEPT !.step = step, !.due = FALSE], e)

-----------------------------------------------------------------------------

\* An end or the relay has closed the way between the ends: nothing goes over it any more.
Shut == \E e \in Ends : end[e].closed \/ \E i \in DOMAIN wire[e] : wire[e][i] = Gone

\* End e goes from end[e] to d, after it sent frames.  Nothing is sent over what is
\* closed.  The host link forgets a connection that the host closed.
Becomes(e, d, frames) ==
    LET o == Other(e)
        out == IF Shut THEN <<>> ELSE IF d.closed THEN Append(frames, Gone) ELSE frames
    IN
    /\ end' = [end EXCEPT ![e] = d]
    /\ wire' = [wire EXCEPT ![o] = @ \o out, ![e] = IF e = "host" /\ d.closed THEN <<>> ELSE @]

\* A data or handshake frame arrives.
Receive(e) ==
    LET d == Received(end[e], e, Head(wire[e]))
        o == Other(e)
        tells == d.closed /\ ~Shut
    IN
    /\ wire[e] # <<>> /\ Head(wire[e]) # Gone
    /\ end' = [end EXCEPT ![e] = d]
    /\ wire' = [wire EXCEPT ![e] = IF e = "host" /\ d.closed THEN <<>> ELSE Tail(@),
                            ![o] = IF tells THEN Append(@, Gone) ELSE @]
    /\ UNCHANGED <<agree, resumed, strays, missed>>

\* The transport was closed from outside.  A peer link that closed itself says nothing.
HearClose(e) ==
    LET c == end[e] IN
    /\ wire[e] # <<>> /\ Head(wire[e]) = Gone
    /\ wire' = [wire EXCEPT ![e] = Tail(@)]
    /\ end' = [end EXCEPT ![e].closed = TRUE,
                          ![e].step = IF c.closed \/ c.due THEN @
                                      ELSE IF @ \in Awaiting THEN "failed"
                                      ELSE IF @ = "serving" THEN "over" ELSE @]
    /\ missed' = IF c.due THEN missed \cup {e} ELSE missed
    /\ UNCHANGED <<agree, resumed, strays>>

\* Mutant of TimeOut: the host waits for the join as long as it takes.
TimeOut_ButJoin(e) ==
    /\ end[e].step \in Awaiting \ {"join"} /\ ~end[e].due
    /\ Becomes(e, Failed(end[e], e), <<>>)
    /\ UNCHANGED <<agree, resumed, strays, missed>>

\* The timer of a wait.
TimeOut(e) ==
    /\ end[e].step \in Awaiting /\ ~end[e].due
    /\ Becomes(e, Failed(end[e], e), <<>>)
    /\ UNCHANGED <<agree, resumed, strays, missed>>

-----------------------------------------------------------------------------

(* CPace, with perfect cryptography: a share is a generator times a scalar *)
(* (named after the end that drew it), a MAC is what it was made of.       *)

\* The password key; the room and the session id are the same, or hello would have failed.
PasswordKey(e) == IF "password" \in agree THEN "same" ELSE e
Generator(e) == <<"generator", PasswordKey(e)>>
Share(e) == [base |-> Generator(e), scalars |-> {e}]
SharedSecret(e) == [Share(Other(e)) EXCEPT !.scalars = @ \cup {e}]
Isk(e) == <<SharedSecret(e), Share("peer"), Share("host")>>
Mac(e, tag) == <<Isk(e), tag>>

\* verifyPeer and hostConfirmed: the MAC of the other end is the one e expects.
Confirmed(e) == Mac(e, Other(e)) = Mac(Other(e), Other(e))

-----------------------------------------------------------------------------

(* What each side does when the message it awaited is there.               *)

\* hello: versions and room are compared.
HostAnswersHello ==
    LET c == end["host"] IN
    /\ c.due /\ c.step = "hello"
    /\ IF "target" \in agree
       THEN Becomes("host", Await(c, "host", "pake_peer"), <<Text("hello_ack")>>)
       ELSE Becomes("host", Failed(c, "host"), <<Text("handshake_reject")>>)
    /\ UNCHANGED <<agree, resumed, strays, missed>>

HostAnswersPake ==
    LET c == end["host"] IN
    /\ c.due /\ c.step = "pake_peer"
    /\ Becomes("host", Await(c, "host", "pake_confirm"), <<Text("pake_host")>>)
    /\ UNCHANGED <<agree, resumed, strays, missed>>

\* Mutant of HostConfirms: the peer's confirmation is not verified.
HostConfirms_Trusting ==
    LET c == end["host"]  up == Upgrade(c, "host") IN
    /\ c.due /\ c.step = "pake_confirm"
    /\ Becomes("host", IF up.step = "failed" THEN up ELSE Await(up, "host", "join"), <<>>)
    /\ UNCHANGED <<agree, resumed, strays, missed>>

\* pake_confirm: verifyPeer, then the session keys.
HostConfirms ==
    LET c == end["host"]  up == Upgrade(c, "host") IN
    /\ c.due /\ c.step = "pake_confirm"
    /\ Becomes("host", IF ~Confirmed("host") THEN Failed(c, "host")
                       ELSE IF up.step = "failed" THEN up ELSE Await(up, "host", "join"), <<>>)
    /\ UNCHANGED <<agree, resumed, strays, missed>>

\* #admit: joined, or rejected because the room is full or the name is taken.
HostAdmits ==
    LET c == end["host"]  said == [c EXCEPT !.sent = @ + 1] IN
    /\ c.due /\ c.step = "join"
    /\ \/ Becomes("host", Await(said, "host", "serving"), <<Sealed("joined", c.sent)>>)
       \/ Becomes("host", [Failed(said, "host") EXCEPT !.step = "over"], <<Sealed("rejected", c.sent)>>)
    /\ UNCHANGED <<agree, resumed, strays, missed>>

\* hello_ack: weak password hardening is refused without an answer.
PeerAnswersAck ==
    LET c == end["peer"] IN
    /\ c.due /\ c.step = "hello_ack"
    /\ IF "hardening" \in agree
       THEN Becomes("peer", Await(c, "peer", "pake_host"), <<Text("pake_peer")>>)
       ELSE Becomes("peer", Failed(c, "peer"), <<>>)
    /\ UNCHANGED <<agree, resumed, strays, missed>>

\* pake_host: the peer always confirms; with the right password it has keys, and joins.
PeerConfirms ==
    LET c == end["peer"]  up == Upgrade(c, "peer")
        said == [up EXCEPT !.sent = @ + 1]
    IN
    /\ c.due /\ c.step = "pake_host"
    /\ IF ~Confirmed("peer") THEN Becomes("peer", Failed(c, "peer"), <<Text("pake_confirm")>>)
       ELSE IF up.step = "failed" THEN Becomes("peer", up, <<Text("pake_confirm")>>)
       ELSE Becomes("peer", Await(said, "peer", "joined"),
                    <<Text("pake_confirm"), Sealed("join", up.sent)>>)
    /\ UNCHANGED <<agree, resumed, strays, missed>>

\* joined: a host of an earlier epoch is not followed.
PeerJoined ==
    LET c == end["peer"] IN
    /\ c.due /\ c.step = "joined"
    /\ Becomes("peer", IF "epoch" \in agree THEN Await(c, "peer", "serving")
                       ELSE [Failed(c, "peer") EXCEPT !.closed = TRUE], <<>>)
    /\ UNCHANGED <<agree, resumed, strays, missed>>

-----------------------------------------------------------------------------

(* Both sides serve.                                                       *)

SendData(e) ==
    LET c == end[e] IN
    /\ c.step = "serving" /\ ~c.due
    /\ c.sent <= MaxSends
    /\ Becomes(e, [c EXCEPT !.sent = @ + 1], <<Sealed("data", c.sent)>>)
    /\ UNCHANGED <<agree, resumed, strays, missed>>

\* Mutant of HeartbeatDies: the host pings nobody.
HeartbeatDies_PeerOnly(e) ==
    LET c == end[e]  o == end[Other(e)] IN
    /\ e = "peer" /\ c.step = "serving"
    /\ c.closed \/ o.closed \/ o.step \in {"failed", "over"}
    /\ Becomes(e, [c EXCEPT !.step = "over"], <<>>)
    /\ UNCHANGED <<agree, resumed, strays, missed>>

\* The heartbeat of an end whose pings nobody answers any more.  The host closes (which
\* is nothing, if it was told of a close before); the peer's session ends, and its
\* connection stays.
HeartbeatDies(e) ==
    LET c == end[e]  o == end[Other(e)] IN
    /\ c.step = "serving"
    /\ c.closed \/ o.closed \/ o.step \in {"failed", "over"}
    /\ \/ /\ e = "host" /\ ~c.closed
          /\ Becomes(e, [c EXCEPT !.closed = TRUE, !.step = "over"], <<>>)
       \/ /\ e = "peer"
          /\ Becomes(e, [c EXCEPT !.step = "over"], <<>>)
    /\ UNCHANGED <<agree, resumed, strays, missed>>

\* leave() of the peer, in the middle of the handshake or later.
PeerLeaves ==
    LET c == end["peer"] IN
    /\ ~c.closed /\ c.step \notin {"failed", "over"}
    /\ Becomes("peer", [c EXCEPT !.closed = TRUE, !.step = IF @ = "serving" THEN "over" ELSE @], <<>>)
    /\ UNCHANGED <<agree, resumed, strays, missed>>

\* The relay closes the peer's socket: what was on its way is lost from some point on.
\* told is what the host's link hears of it.
Severed(told) ==
    \E j \in 0..Len(wire["host"]), k \in 0..Len(wire["peer"]) :
        wire' = [host |-> SubSeq(wire["host"], 1, j) \o told,
                 peer |-> Append(SubSeq(wire["peer"], 1, k), Gone)]

\* The host closes the room, or a member's connection.  With the room go the connections
\* still in the handshake, which nobody closes: the host end goes on over a link that is
\* closed, and hears no more than what was on its way.
HostLeaves ==
    LET c == end["host"] IN
    /\ ~c.closed
    /\ \/ /\ c.step = "serving"
          /\ Becomes("host", [c EXCEPT !.closed = TRUE, !.step = "over"], <<>>)
       \/ /\ c.step \in Awaiting /\ ~Shut
          /\ Severed(<<>>) /\ UNCHANGED end
    /\ UNCHANGED <<agree, resumed, strays, missed>>

-----------------------------------------------------------------------------

(* The network.                                                            *)

\* The superseded host still answers what it was asked, during its grace.
OldHostWrites ==
    /\ resumed /\ strays < MaxStrays
    /\ ~end["peer"].closed /\ \A i \in DOMAIN wire["peer"] : wire["peer"][i] # Gone
    /\ strays' = strays + 1
    /\ wire' = [wire EXCEPT !["peer"] = Append(@, Stray)]
    /\ UNCHANGED <<agree, resumed, end, missed>>

\* The peer's socket dies, and the host is told.
Cut ==
    /\ ~Shut
    /\ Severed(<<Gone>>)
    /\ UNCHANGED <<agree, resumed, end, strays, missed>>

-----------------------------------------------------------------------------

Resume ==
    \/ HostAnswersHello \/ HostAnswersPake \/ HostConfirms \/ HostAdmits
    \/ PeerAnswersAck \/ PeerConfirms \/ PeerJoined

ConnectionNext ==
    \/ \E e \in Ends : Receive(e) \/ HearClose(e) \/ TimeOut(e) \/ SendData(e) \/ HeartbeatDies(e)
    \/ Resume \/ PeerLeaves \/ HostLeaves \/ OldHostWrites \/ Cut

ConnectionSpec == ConnectionInit /\ [][ConnectionNext]_connectionVars

\* The wire delivers, continuations run, timers fire.
FairConnectionSpec ==
    /\ ConnectionSpec
    /\ WF_connectionVars(Resume)
    /\ \A e \in Ends :
          WF_connectionVars(Receive(e) \/ HearClose(e)) /\ WF_connectionVars(TimeOut(e))
          /\ WF_connectionVars(HeartbeatDies(e))

-----------------------------------------------------------------------------

Counters(k) == [i \in 1..k |-> i - 1]

Channel == INSTANCE SecureChannel WITH
    trusted <- {"target", "hardening", "password"} \subseteq agree,
    open <- {e \in Ends : end[e].secure},
    sealed <- [e \in Ends |-> Counters(end[e].sent)],
    taken <- [e \in Ends |-> end[e].got]

\* The connection is the secure channel its users take it for.
ImplementsChannel == Channel!ChannelSpec

\* Nothing that arrived is held back from an end that could take it: neither a frame
\* that was early for the keys nor one that was early for its listener.
NothingIsHeldBack ==
    \A e \in Ends : LET c == end[e] IN
        /\ c.secure => c.early = <<>>
        /\ \A i \in DOMAIN c.inbox : ~Listens(c, c.inbox[i].kind)

\* Every handshake comes to an end, on both sides.
HandshakeSettles == \A e \in Ends : <>(end[e].step \notin Awaiting)

\* When one end has given up, closed or failed, the other one does not serve for ever,
\* unless the close came while it was between two waits.
GoneIsNoticed ==
    \A e \in Ends :
        (end[e].closed \/ end[e].step \in {"failed", "over"})
            ~> (end[Other(e)].step \in {"failed", "over"} \/ Other(e) \in missed)
=============================================================================
