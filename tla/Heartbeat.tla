----------------------------- MODULE Heartbeat -----------------------------
(***************************************************************************)
(* The heartbeats of the two ends of one control connection                *)
(* (src/main/signaling/heartbeat.ts), with the owners that drive them: the *)
(* server's link of a peer (server.ts) and the peer's client (client.ts).  *)
(*                                                                         *)
(* Time is relative: a timer holds the time left until it fires, a message *)
(* the time it has travelled.  The wire keeps order, delivers within       *)
(* MaxDelay, and loses only what is on its way to an end that is gone.     *)
(* Nonces are drawn at random in the code; here they are taken in turn     *)
(* from a set that is larger than the number of pings that can be alive.   *)
(***************************************************************************)
EXTENDS Integers, Sequences

CONSTANTS
    Interval,       \* HEARTBEAT_INTERVAL_MS, in ticks of the clock
    MaxMissed,      \* HEARTBEAT_MAX_MISSED
    MaxDelay,       \* the longest a message travels
    Nonces          \* bound: nonces 1..Nonces are told apart

ASSUME HeartbeatAssumption ==
    /\ Interval \in Nat \ {0}
    /\ MaxMissed \in Nat \ {0}
    /\ MaxDelay \in Nat
    /\ Nonces \in Nat /\ Nonces > MaxMissed

Ends == {"host", "peer"}
Other(e) == IF e = "host" THEN "peer" ELSE "host"
Null == 0           \* #outstanding: null
NoTimer == -1       \* heartbeatTimer: undefined

VARIABLES
    started,        \* #started
    outstanding,    \* #outstanding
    missed,         \* #missed
    dead,           \* #dead
    timer,          \* heartbeatTimer: the time until it fires
    gone,           \* the end is silent for good, or its connection is closed
    wire,           \* what travels to each end
    nonce,          \* the last nonce each end drew
    silentFor       \* history: how long each end has been gone

ends == <<started, outstanding, missed, dead, timer>>
heartbeatVars == <<ends, gone, wire, nonce, silentFor>>

Horizon == (MaxMissed + 1) * Interval
Message(type, n) == [type |-> type, nonce |-> n, age |-> 0]

\* What is sent to an end that is gone is lost.
Sent(to, m, queues) == IF gone[to] THEN queues ELSE [queues EXCEPT ![to] = Append(@, m)]

HeartbeatTypeOK ==
    /\ started \in [Ends -> BOOLEAN]
    /\ outstanding \in [Ends -> Null..Nonces]
    /\ missed \in [Ends -> 0..MaxMissed]
    /\ dead \in [Ends -> BOOLEAN]
    /\ timer \in [Ends -> NoTimer..Interval]
    /\ gone \in [Ends -> BOOLEAN]
    /\ wire \in [Ends -> Seq([type : {"joined", "ping", "pong", "close"},
                              nonce : Null..Nonces, age : 0..MaxDelay])]
    /\ nonce \in [Ends -> 0..Nonces]
    /\ silentFor \in [Ends -> 0..Horizon]

\* The server sent `joined` and called start() on its link, the first ping
\* right behind; the client starts when it reads `joined`.
HeartbeatInit ==
    /\ started = [e \in Ends |-> e = "host"]
    /\ nonce = [e \in Ends |-> IF e = "host" THEN 1 ELSE 0]
    /\ outstanding = [e \in Ends |-> IF e = "host" THEN 1 ELSE Null]
    /\ missed = [e \in Ends |-> 0]
    /\ dead = [e \in Ends |-> FALSE]
    /\ timer = [e \in Ends |-> IF e = "host" THEN Interval ELSE NoTimer]
    /\ gone = [e \in Ends |-> FALSE]
    /\ wire = [e \in Ends |-> IF e = "host" THEN <<>>
                              ELSE <<Message("joined", Null), Message("ping", 1)>>]
    /\ silentFor = [e \in Ends |-> 0]

-----------------------------------------------------------------------------

\* The part of tick() that sends a ping: a new nonce replaces the outstanding
\* one, answered or not.  queues is wire without what was just read.
Ping(e, queues) ==
    LET n == (nonce[e] % Nonces) + 1 IN
    /\ nonce' = [nonce EXCEPT ![e] = n]
    /\ outstanding' = [outstanding EXCEPT ![e] = n]
    /\ wire' = Sent(Other(e), Message("ping", n), queues)
    /\ timer' = [timer EXCEPT ![e] = Interval]

\* The end's connection closes, and with it its heartbeat; the other end hears
\* of it if it can.
CloseEnd(e) ==
    /\ started' = [started EXCEPT ![e] = FALSE]
    /\ timer' = [timer EXCEPT ![e] = NoTimer]
    /\ gone' = [gone EXCEPT ![e] = TRUE]
    /\ wire' = [Sent(Other(e), Message("close", Null), wire) EXCEPT ![e] = <<>>]

\* onDead: the server closes the peer's connection; the client stops its timer
\* and tells its owner, but its connection stays open and goes on answering.
Die(e) ==
    /\ dead' = [dead EXCEPT ![e] = TRUE]
    /\ \/ e = "host" /\ CloseEnd(e)
       \/ /\ e = "peer"
          /\ started' = [started EXCEPT ![e] = FALSE]
          /\ timer' = [timer EXCEPT ![e] = NoTimer]
          /\ UNCHANGED <<gone, wire>>
    /\ UNCHANGED <<outstanding, nonce, silentFor>>

\* Mutant of Tick: > instead of >=.
Tick_OneLate(e) ==
    /\ timer[e] = 0
    /\ \/ /\ outstanding[e] # Null
          /\ missed' = [missed EXCEPT ![e] = @ + 1]
          /\ \/ missed[e] + 1 > MaxMissed /\ Die(e)
             \/ /\ missed[e] + 1 <= MaxMissed
                /\ Ping(e, wire)
                /\ UNCHANGED <<started, dead, gone, silentFor>>
       \/ /\ outstanding[e] = Null
          /\ Ping(e, wire)
          /\ UNCHANGED <<started, missed, dead, gone, silentFor>>

\* The interval timer calls tick().
Tick(e) ==
    /\ timer[e] = 0
    /\ \/ /\ outstanding[e] # Null
          /\ missed' = [missed EXCEPT ![e] = @ + 1]
          /\ \/ missed[e] + 1 >= MaxMissed /\ Die(e)
             \/ /\ missed[e] + 1 < MaxMissed
                /\ Ping(e, wire)
                /\ UNCHANGED <<started, dead, gone, silentFor>>
       \/ /\ outstanding[e] = Null
          /\ Ping(e, wire)
          /\ UNCHANGED <<started, missed, dead, gone, silentFor>>

-----------------------------------------------------------------------------

Rest(e) == [wire EXCEPT ![e] = Tail(@)]
Reads(e, type) == ~gone[e] /\ wire[e] # <<>> /\ Head(wire[e]).type = type

\* start(), which sends the first ping at once.
Start(e) ==
    /\ Reads(e, "joined")
    /\ started' = [started EXCEPT ![e] = TRUE]
    /\ Ping(e, Rest(e))
    /\ UNCHANGED <<missed, dead, gone, silentFor>>

\* Mutant of Answer: an end answers only while its own heartbeat runs.
Answer_OnlyStarted(e) ==
    /\ Reads(e, "ping")
    /\ wire' = IF started[e] THEN Sent(Other(e), Message("pong", Head(wire[e]).nonce), Rest(e))
               ELSE Rest(e)
    /\ UNCHANGED <<ends, gone, nonce, silentFor>>

\* Both sides answer a ping at once, dead or stopped heartbeat or not.
Answer(e) ==
    /\ Reads(e, "ping")
    /\ wire' = Sent(Other(e), Message("pong", Head(wire[e]).nonce), Rest(e))
    /\ UNCHANGED <<ends, gone, nonce, silentFor>>

\* onPong: only the answer to the outstanding ping counts.
OnPong(e) ==
    /\ Reads(e, "pong")
    /\ LET n == Head(wire[e]).nonce
           counts == ~dead[e] /\ outstanding[e] = n
       IN
       /\ outstanding' = [outstanding EXCEPT ![e] = IF counts THEN Null ELSE @]
       /\ missed' = [missed EXCEPT ![e] = IF counts THEN 0 ELSE @]
    /\ wire' = Rest(e)
    /\ UNCHANGED <<started, dead, timer, gone, nonce, silentFor>>

\* The connection was closed by the other end; both owners stop their timer.
HearClose(e) ==
    /\ Reads(e, "close")
    /\ started' = [started EXCEPT ![e] = FALSE]
    /\ timer' = [timer EXCEPT ![e] = NoTimer]
    /\ gone' = [gone EXCEPT ![e] = TRUE]
    /\ wire' = [wire EXCEPT ![e] = <<>>]
    /\ UNCHANGED <<outstanding, missed, dead, nonce, silentFor>>

\* stop() with the connection left open: detach() of a client that re-homes,
\* transferHost() of a host that hands off.
Detach(e) ==
    /\ ~gone[e] /\ started[e]
    /\ started' = [started EXCEPT ![e] = FALSE]
    /\ timer' = [timer EXCEPT ![e] = NoTimer]
    /\ UNCHANGED <<outstanding, missed, dead, gone, wire, nonce, silentFor>>

\* close(): stop(), then the connection is closed.
Leave(e) ==
    /\ ~gone[e]
    /\ CloseEnd(e)
    /\ UNCHANGED <<outstanding, missed, dead, nonce, silentFor>>

\* The process or its network is gone without a word.
FallSilent(e) ==
    /\ ~gone[e]
    /\ gone' = [gone EXCEPT ![e] = TRUE]
    /\ timer' = [timer EXCEPT ![e] = NoTimer]
    /\ wire' = [wire EXCEPT ![e] = <<>>]
    /\ UNCHANGED <<started, outstanding, missed, dead, nonce, silentFor>>

\* Time passes, not beyond a timer that is due or a message that must arrive.
Advance ==
    /\ \A e \in Ends : timer[e] # 0 /\ \A i \in DOMAIN wire[e] : wire[e][i].age < MaxDelay
    /\ timer' = [e \in Ends |-> IF timer[e] = NoTimer THEN NoTimer ELSE timer[e] - 1]
    /\ wire' = [e \in Ends |-> [i \in DOMAIN wire[e] |-> [wire[e][i] EXCEPT !.age = @ + 1]]]
    /\ silentFor' = [e \in Ends |-> IF gone[e] /\ silentFor[e] < Horizon
                                    THEN silentFor[e] + 1 ELSE silentFor[e]]
    /\ UNCHANGED <<started, outstanding, missed, dead, gone, nonce>>

HeartbeatNext ==
    \/ \E e \in Ends :
          \/ Tick(e) \/ Start(e) \/ Answer(e) \/ OnPong(e) \/ HearClose(e)
          \/ Detach(e) \/ Leave(e) \/ FallSilent(e)
    \/ Advance

HeartbeatSpec == HeartbeatInit /\ [][HeartbeatNext]_heartbeatVars

-----------------------------------------------------------------------------

\* With a round trip shorter than the interval, nobody is declared dead who is
\* still there: whatever the phase of the two timers, and when a tick and a pong
\* fall on the same instant.
NoFalseDeath == \A e \in Ends : dead[e] => gone[Other(e)]

\* An end that is gone is noticed within maxMissed + 1 intervals, by an end whose
\* heartbeat runs.
DetectedInTime ==
    \A e \in Ends :
        started[e] /\ ~gone[e] /\ gone[Other(e)] => silentFor[Other(e)] < Horizon \/ timer[e] = 0
=============================================================================
