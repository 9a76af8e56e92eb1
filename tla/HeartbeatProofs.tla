-------------------------- MODULE HeartbeatProofs --------------------------
(***************************************************************************)
(* With a round trip shorter than the interval nobody who is there is      *)
(* declared dead, and whoever is gone is noticed in time: for every        *)
(* interval, number of misses and delay.                                   *)
(*                                                                         *)
(* The argument is about the one ping a running heartbeat has on its way.  *)
(* It and its answer are never older than the timer's current round, so    *)
(* none is left when the timer fires; an unanswered ping at that moment    *)
(* means that the other end is gone, and every round from then on is a     *)
(* miss.                                                                   *)
(***************************************************************************)
EXTENDS Heartbeat, TLAPS

ShortRoundTrip == 2 * MaxDelay < Interval

Packet == [type : {"joined", "ping", "pong", "close"}, nonce : Null..Nonces, age : 0..MaxDelay]

Running(e) == timer[e] # NoTimer
Since(e) == Interval - timer[e]         \* since its last ping
Of(q, type) == {m \in {q[i] : i \in 1..Len(q)} : m.type = type}
Travelling(e, type) == Of(wire[e], type)

\* An end that never started has asked nothing and nothing answers it.
BeforeStart(e) ==
    nonce[e] = 0 =>
        /\ ~started[e] /\ ~dead[e] /\ outstanding[e] = Null /\ missed[e] = 0
        /\ Travelling(Other(e), "ping") = {} /\ Travelling(e, "pong") = {}

\* `joined` comes once, first, and to a client that has not started.
JoinedComesFirst(e) ==
    \A i \in 1..Len(wire[e]) : wire[e][i].type = "joined" =>
        i = 1 /\ nonce[e] = 0 /\ silentFor[Other(e)] <= wire[e][i].age

\* A timer runs exactly while the heartbeat does, and then it is sound.
TimersRun(e) ==
    /\ started[e] /\ ~gone[e] => Running(e)
    /\ Running(e) =>
          /\ started[e] /\ ~gone[e] /\ ~dead[e]
          /\ nonce[e] # 0 /\ missed[e] < MaxMissed
          /\ outstanding[e] \in {Null, nonce[e]}
          /\ outstanding[e] = Null => missed[e] = 0

\* A running end has one ping on its way, or its answer, and both belong to the
\* round its timer is in.
OneRound(e) ==
    Running(e) =>
        /\ \A m \in Travelling(Other(e), "ping") : m.nonce = nonce[e] /\ m.age = Since(e)
        /\ \A m \in Travelling(e, "pong") :
              m.nonce = nonce[e] /\ m.age <= Since(e) /\ Since(e) <= m.age + MaxDelay

\* What a running end waits for is on its way, as long as the other is there.
AnswersCome(e) ==
    Running(e) /\ ~gone[Other(e)] /\ outstanding[e] # Null =>
        Travelling(Other(e), "ping") # {} \/ Travelling(e, "pong") # {}

\* Only an end that is gone is silent, and what it answered it answered before.
SilenceIsGone(e) ==
    /\ ~gone[e] => silentFor[e] = 0
    /\ \A m \in Travelling(Other(e), "pong") : silentFor[e] <= m.age

\* How long the other end may have been gone by what is outstanding.
MissesCount(e) ==
    Running(e) =>
        IF outstanding[e] = Null THEN silentFor[Other(e)] <= Since(e)
        ELSE silentFor[Other(e)] <= Since(e) + (missed[e] + 1) * Interval

EndOK(e) ==
    /\ dead[e] => gone[Other(e)]
    /\ BeforeStart(e) /\ JoinedComesFirst(e) /\ TimersRun(e) /\ OneRound(e)
    /\ AnswersCome(e) /\ SilenceIsGone(e) /\ MissesCount(e)

HeartbeatInv == HeartbeatTypeOK /\ \A e \in Ends : EndOK(e)

-----------------------------------------------------------------------------
\* Queues.

LEMMA OtherEnd ==
    ASSUME NEW e \in Ends
    PROVE  /\ Other(e) \in Ends /\ Other(e) # e /\ Other(Other(e)) = e
           /\ Ends = {e, Other(e)}
BY DEF Ends, Other

LEMMA OfEmpty == ASSUME NEW t PROVE Of(<<>>, t) = {}
BY DEF Of

LEMMA OfAppend ==
    ASSUME NEW q \in Seq(Packet), NEW m \in Packet, NEW t
    PROVE  Of(Append(q, m), t) = IF m.type = t THEN Of(q, t) \cup {m} ELSE Of(q, t)
<1>2. /\ Len(Append(q, m)) = Len(q) + 1 /\ Len(q) \in Nat
      /\ \A i \in 1..Len(q) : Append(q, m)[i] = q[i]
      /\ Append(q, m)[Len(q) + 1] = m
  OBVIOUS
<1>3. \A i \in 1..Len(q) + 1 : i \in 1..Len(q) \/ i = Len(q) + 1  BY <1>2
<1>4. {Append(q, m)[i] : i \in 1..Len(Append(q, m))} = {q[i] : i \in 1..Len(q)} \cup {m}
  <2>1. ASSUME NEW i \in 1..Len(q) + 1
        PROVE  Append(q, m)[i] \in {q[j] : j \in 1..Len(q)} \cup {m}
    BY <1>2, <1>3, <2>1
  <2>2. ASSUME NEW i \in 1..Len(q)
        PROVE  q[i] \in {Append(q, m)[j] : j \in 1..Len(q) + 1}
    BY <1>2, <2>2
  <2>3. m \in {Append(q, m)[j] : j \in 1..Len(q) + 1}
    BY <1>2
  <2> QED  BY <1>2, <2>1, <2>2, <2>3
<1> QED  BY <1>4 DEF Of

LEMMA OfTail ==
    ASSUME NEW q \in Seq(Packet), q # <<>>, NEW t
    PROVE  /\ Tail(q) \in Seq(Packet) /\ Head(q) \in Packet
           /\ Of(Tail(q), t) \subseteq Of(q, t)
           /\ Of(q, t) \subseteq Of(Tail(q), t) \cup {Head(q)}
           /\ Head(q).type = t => Head(q) \in Of(q, t)
           /\ Head(q).type # t => Of(Tail(q), t) = Of(q, t)
<1>1. /\ Tail(q) \in Seq(Packet) /\ Len(Tail(q)) = Len(q) - 1
      /\ Len(q) \in Nat /\ Len(q) > 0 /\ Head(q) = q[1] /\ Head(q) \in Packet
      /\ \A i \in 1..Len(q) - 1 : Tail(q)[i] = q[i + 1]
  OBVIOUS
<1>2. ASSUME NEW m \in Of(Tail(q), t) PROVE m \in Of(q, t)
  <2>1. PICK i \in 1..Len(q) - 1 : m = Tail(q)[i] /\ m.type = t  BY <1>1 DEF Of
  <2>2. i + 1 \in 1..Len(q) /\ m = q[i + 1]  BY <1>1, <2>1
  <2> QED  BY <2>1, <2>2 DEF Of
<1>3. ASSUME NEW m \in Of(q, t) PROVE m \in Of(Tail(q), t) \cup {Head(q)}
  <2>1. PICK i \in 1..Len(q) : m = q[i] /\ m.type = t  BY DEF Of
  <2>2. CASE i = 1  BY <1>1, <2>1, <2>2
  <2>3. CASE i # 1
    <3>1. i - 1 \in 1..Len(q) - 1 /\ m = Tail(q)[i - 1]  BY <1>1, <2>1, <2>3
    <3> QED  BY <1>1, <2>1, <3>1 DEF Of
  <2> QED  BY <2>2, <2>3
<1>4. Head(q).type = t => Head(q) \in Of(q, t)
  <2>1. 1 \in 1..Len(q)  BY <1>1
  <2> QED  BY <1>1, <2>1 DEF Of
<1>5. \A m \in Of(q, t) : m.type = t  BY DEF Of
<1> QED  BY <1>1, <1>2, <1>3, <1>4, <1>5

Aged(q) == [i \in DOMAIN q |-> [q[i] EXCEPT !.age = @ + 1]]

LEMMA OfAged ==
    ASSUME NEW q \in Seq(Packet), \A i \in DOMAIN q : q[i].age < MaxDelay, MaxDelay \in Nat, NEW t
    PROVE  /\ Aged(q) \in Seq(Packet) /\ Len(Aged(q)) = Len(q)
           /\ \A i \in 1..Len(q) : /\ Aged(q)[i].type = q[i].type
                                   /\ Aged(q)[i].age = q[i].age + 1
           /\ \A n \in Of(Aged(q), t) : \E m \in Of(q, t) : n.nonce = m.nonce /\ n.age = m.age + 1
           /\ Of(q, t) # {} => Of(Aged(q), t) # {}
<1>1. Len(q) \in Nat /\ DOMAIN q = 1..Len(q) /\ \A i \in 1..Len(q) : q[i] \in Packet
  OBVIOUS
<1>2. ASSUME NEW i \in 1..Len(q)
      PROVE  /\ Aged(q)[i] \in Packet
             /\ Aged(q)[i].type = q[i].type /\ Aged(q)[i].nonce = q[i].nonce
             /\ Aged(q)[i].age = q[i].age + 1
  <2>1. q[i] \in Packet /\ q[i].age < MaxDelay  BY <1>1, <1>2
  <2>2. Aged(q)[i] = [q[i] EXCEPT !.age = @ + 1]  BY <1>1, <1>2 DEF Aged
  <2>3. q[i].age + 1 \in 0..MaxDelay  BY <2>1 DEF Packet
  <2> QED  BY <2>1, <2>2, <2>3 DEF Packet
<1>3. Aged(q) \in Seq(Packet) /\ Len(Aged(q)) = Len(q)
  <2>1. Aged(q) \in [1..Len(q) -> Packet]  BY <1>1, <1>2 DEF Aged
  <2> QED  BY <1>1, <2>1
<1>4. ASSUME NEW n \in Of(Aged(q), t)
      PROVE  \E m \in Of(q, t) : n.nonce = m.nonce /\ n.age = m.age + 1
  <2>1. PICK i \in 1..Len(q) : n = Aged(q)[i] /\ n.type = t  BY <1>3 DEF Of
  <2>2. q[i] \in Of(q, t)  BY <1>2, <2>1 DEF Of
  <2> QED  BY <1>2, <2>1, <2>2
<1>5. ASSUME NEW m \in Of(q, t) PROVE Of(Aged(q), t) # {}
  <2>1. PICK i \in 1..Len(q) : m = q[i] /\ m.type = t  BY DEF Of
  <2>2. Aged(q)[i] \in Of(Aged(q), t)  BY <1>2, <1>3, <2>1 DEF Of
  <2> QED  BY <2>2
<1> QED  BY <1>2, <1>3, <1>4, <1>5

-----------------------------------------------------------------------------
\* What one step does to the queues.

LEMMA PacketsMade ==
    ASSUME HeartbeatAssumption, NEW n \in Null..Nonces, NEW t \in {"joined", "ping", "pong", "close"}
    PROVE  /\ Message(t, n) \in Packet
           /\ Message(t, n).type = t /\ Message(t, n).nonce = n /\ Message(t, n).age = 0
<1>1. 0 \in 0..MaxDelay  BY DEF HeartbeatAssumption
<1> QED  BY <1>1 DEF Message, Packet

LEMMA SentSafely ==
    ASSUME NEW queues \in [Ends -> Seq(Packet)], NEW to \in Ends, NEW m \in Packet
    PROVE  /\ Sent(to, m, queues) \in [Ends -> Seq(Packet)]
           /\ Sent(to, m, queues)[Other(to)] = queues[Other(to)]
           /\ gone[to] => Sent(to, m, queues) = queues
           /\ ~gone[to] => Sent(to, m, queues)[to] = Append(queues[to], m)
<1>1. Append(queues[to], m) \in Seq(Packet)  OBVIOUS
<1> QED  BY <1>1, OtherEnd DEF Sent

\* A message that is not `joined` may join the end of any queue.
LEMMA JoinedStaysFirst ==
    ASSUME NEW q \in Seq(Packet), NEW m \in Packet, m.type # "joined",
           NEW i \in 1..Len(Append(q, m)), Append(q, m)[i].type = "joined"
    PROVE  i \in 1..Len(q) /\ q[i] = Append(q, m)[i]
<1>1. /\ Len(Append(q, m)) = Len(q) + 1 /\ Len(q) \in Nat
      /\ \A j \in 1..Len(q) : Append(q, m)[j] = q[j]
      /\ Append(q, m)[Len(q) + 1] = m
  OBVIOUS
<1>2. i # Len(q) + 1  BY <1>1
<1> QED  BY <1>1, <1>2

LEMMA TypeFacts ==
    ASSUME HeartbeatTypeOK, NEW e \in Ends
    PROVE  /\ wire \in [Ends -> Seq(Packet)] /\ wire[e] \in Seq(Packet)
           /\ started[e] \in BOOLEAN /\ dead[e] \in BOOLEAN /\ gone[e] \in BOOLEAN
           /\ outstanding[e] \in Null..Nonces /\ nonce[e] \in 0..Nonces
           /\ missed[e] \in 0..MaxMissed /\ timer[e] \in NoTimer..Interval
           /\ silentFor[e] \in 0..Horizon
BY DEF HeartbeatTypeOK, Packet

LEMMA Initially ==
    ASSUME HeartbeatAssumption, ShortRoundTrip, HeartbeatInit
    PROVE  HeartbeatInv
<1> DEFINE hello == <<Message("joined", Null), Message("ping", 1)>>
<1>0. /\ Interval \in Nat /\ Interval > 0 /\ MaxMissed \in Nat /\ MaxMissed > 0 /\ MaxDelay \in Nat
      /\ Nonces \in Nat /\ 1 \in Null..Nonces /\ 0 \in Null..Nonces
      /\ Horizon \in Nat
  <2>1. (MaxMissed + 1) * Interval \in Nat  BY DEF HeartbeatAssumption
  <2> QED  BY <2>1 DEF HeartbeatAssumption, Null, Horizon
<1>1. /\ Message("joined", Null) \in Packet /\ Message("ping", 1) \in Packet
      /\ Message("joined", Null).type = "joined" /\ Message("joined", Null).age = 0
      /\ Message("ping", 1).type = "ping" /\ Message("ping", 1).nonce = 1 /\ Message("ping", 1).age = 0
  BY <1>0, PacketsMade DEF Null
<1> HIDE DEF hello
<1>2. /\ hello \in Seq(Packet) /\ Len(hello) = 2
      /\ hello[1] = Message("joined", Null) /\ hello[2] = Message("ping", 1)
  BY <1>1 DEF hello
<1>3. wire["peer"] = hello /\ wire["host"] = <<>>  BY DEF HeartbeatInit, Ends, hello
<1>4. HeartbeatTypeOK
  <2>1. wire \in [Ends -> Seq(Packet)]
    BY <1>2 DEF HeartbeatInit, Ends, hello
  <2> QED  BY <1>0, <2>1 DEF HeartbeatTypeOK, HeartbeatInit, Ends, Packet, Null, NoTimer
<1>5. Of(hello, "pong") = {} /\ \A m \in Of(hello, "ping") : m.nonce = 1 /\ m.age = 0
  <2>1. \A i \in 1..Len(hello) : i = 1 \/ i = 2  BY <1>2
  <2> QED  BY <1>1, <1>2, <2>1 DEF Of
<1>6. Of(hello, "ping") # {}
  <2>1. 2 \in 1..Len(hello)  BY <1>2
  <2> QED  BY <1>1, <1>2, <2>1 DEF Of
<1>7. \A t : Of(<<>>, t) = {}  BY OfEmpty
<1>8. /\ ~dead["host"] /\ ~dead["peer"] /\ started["host"] /\ ~started["peer"]
      /\ nonce["host"] = 1 /\ nonce["peer"] = 0 /\ outstanding["host"] = 1 /\ outstanding["peer"] = Null
      /\ missed["host"] = 0 /\ missed["peer"] = 0 /\ timer["host"] = Interval /\ timer["peer"] = NoTimer
      /\ ~gone["host"] /\ ~gone["peer"] /\ silentFor["host"] = 0 /\ silentFor["peer"] = 0
  BY DEF HeartbeatInit, Ends
<1>9. Other("host") = "peer" /\ Other("peer") = "host"  BY DEF Other
<1>10. EndOK("host")
  <2>1. BeforeStart("host") /\ TimersRun("host")
    BY <1>0, <1>8 DEF BeforeStart, TimersRun, Running, Null, NoTimer
  <2>2. JoinedComesFirst("host")  BY <1>3 DEF JoinedComesFirst
  <2>3. OneRound("host") /\ AnswersCome("host")
    BY <1>0, <1>3, <1>5, <1>6, <1>7, <1>8, <1>9 DEF OneRound, AnswersCome, Travelling, Since
  <2>4. SilenceIsGone("host")
    BY <1>3, <1>5, <1>8, <1>9 DEF SilenceIsGone, Travelling
  <2>5. MissesCount("host")  BY <1>0, <1>8, <1>9 DEF MissesCount, Since
  <2> QED  BY <1>8, <2>1, <2>2, <2>3, <2>4, <2>5 DEF EndOK
<1>11. EndOK("peer")
  <2>1. BeforeStart("peer")
    BY <1>3, <1>5, <1>7, <1>8, <1>9 DEF BeforeStart, Travelling
  <2>2. JoinedComesFirst("peer")
    <3>1. ASSUME NEW i \in 1..Len(wire["peer"]), wire["peer"][i].type = "joined"
          PROVE  i = 1 /\ wire["peer"][i].age = 0
      <4>1. i = 1 \/ i = 2
        <5>1. i \in 1..2  BY <1>2, <1>3, <3>1
        <5> QED  BY <5>1
      <4>2. hello[1].age = 0 /\ hello[2].type = "ping"  BY <1>1, <1>2
      <4> QED  BY <1>3, <3>1, <4>1, <4>2
    <3> QED  BY <1>8, <1>9, <3>1 DEF JoinedComesFirst
  <2>3. /\ TimersRun("peer") /\ OneRound("peer") /\ AnswersCome("peer") /\ MissesCount("peer")
    BY <1>8 DEF TimersRun, OneRound, AnswersCome, MissesCount, Running
  <2>4. SilenceIsGone("peer")
    BY <1>3, <1>7, <1>8, <1>9 DEF SilenceIsGone, Travelling
  <2> QED  BY <1>8, <2>1, <2>2, <2>3, <2>4 DEF EndOK
<1> QED  BY <1>4, <1>10, <1>11 DEF HeartbeatInv, Ends

-----------------------------------------------------------------------------
\* When the timer fires nothing of the round is on its way, and an unanswered
\* ping has found nobody.
LEMMA NoneLeft ==
    ASSUME HeartbeatAssumption, ShortRoundTrip, HeartbeatInv, NEW e \in Ends, timer[e] = 0
    PROVE  /\ Travelling(Other(e), "ping") = {} /\ Travelling(e, "pong") = {}
           /\ outstanding[e] # Null => gone[Other(e)]
           /\ started[e] /\ ~gone[e] /\ ~dead[e] /\ nonce[e] # 0 /\ missed[e] < MaxMissed
           /\ outstanding[e] = Null => missed[e] = 0 /\ silentFor[Other(e)] <= Interval
           /\ outstanding[e] # Null => silentFor[Other(e)] <= Interval + (missed[e] + 1) * Interval
<1>1. EndOK(e) /\ Running(e) /\ Since(e) = Interval
  BY DEF HeartbeatInv, Running, Since, NoTimer, HeartbeatAssumption
<1>2. MaxDelay \in Nat /\ Interval \in Nat /\ 2 * MaxDelay < Interval
  BY DEF HeartbeatAssumption, ShortRoundTrip
<1>3. ASSUME NEW q \in Seq(Packet), NEW m \in Of(q, "ping") \cup Of(q, "pong")
      PROVE  m.age \in 0..MaxDelay
  <2>1. PICK i \in 1..Len(q) : m = q[i]  BY <1>3 DEF Of
  <2>2. q[i] \in Packet  BY <2>1
  <2> QED  BY <2>1, <2>2 DEF Packet
<1>4. Other(e) \in Ends /\ wire[e] \in Seq(Packet) /\ wire[Other(e)] \in Seq(Packet)
  BY OtherEnd, TypeFacts DEF HeartbeatInv
<1>5. Travelling(Other(e), "ping") = {}
  <2>1. ASSUME NEW m \in Travelling(Other(e), "ping") PROVE FALSE
    <3>1. m.age = Interval  BY <1>1, <2>1 DEF EndOK, OneRound
    <3>2. m.age \in 0..MaxDelay  BY <1>3, <1>4, <2>1 DEF Travelling
    <3> QED  BY <1>2, <3>1, <3>2
  <2> QED  BY <2>1
<1>6. Travelling(e, "pong") = {}
  <2>1. ASSUME NEW m \in Travelling(e, "pong") PROVE FALSE
    <3>1. Interval <= m.age + MaxDelay  BY <1>1, <2>1 DEF EndOK, OneRound
    <3>2. m.age \in 0..MaxDelay  BY <1>3, <1>4, <2>1 DEF Travelling
    <3> QED  BY <1>2, <3>1, <3>2
  <2> QED  BY <2>1
<1> QED  BY <1>1, <1>5, <1>6 DEF EndOK, AnswersCome, TimersRun, MissesCount

\* A new round: the ping is alone on its way.
LEMMA NewRound ==
    ASSUME HeartbeatAssumption, ShortRoundTrip, HeartbeatInv, NEW e \in Ends,
           NEW queues \in [Ends -> Seq(Packet)],
           Of(queues[Other(e)], "ping") = {}, Of(queues[e], "pong") = {},
           Of(queues[e], "ping") = Travelling(e, "ping"),
           Of(queues[Other(e)], "pong") = Travelling(Other(e), "pong"),
           \A i \in 1..Len(queues[e]) : queues[e][i].type # "joined",
           queues[Other(e)] = wire[Other(e)],
           ~gone[e], ~dead[e], Ping(e, queues),
           started' \in [Ends -> BOOLEAN], started'[e], started'[Other(e)] = started[Other(e)],
           missed' \in [Ends -> 0..MaxMissed], missed'[Other(e)] = missed[Other(e)],
           missed'[e] < MaxMissed,
           silentFor[Other(e)] <= (missed'[e] + 1) * Interval,
           UNCHANGED <<dead, gone, silentFor>>
    PROVE  HeartbeatInv'
<1> DEFINE o == Other(e)
           n == (nonce[e] % Nonces) + 1
           p == Message("ping", n)
<1>0. /\ o \in Ends /\ o # e /\ Other(o) = e /\ Other(e) = o /\ Ends = {e, o}
      /\ HeartbeatTypeOK /\ EndOK(e) /\ EndOK(o)
  BY OtherEnd DEF HeartbeatInv
<1>1. /\ Interval \in Nat /\ Interval > 0 /\ MaxDelay \in Nat /\ MaxMissed \in Nat
      /\ Nonces \in Nat /\ Nonces > 0
  BY DEF HeartbeatAssumption
<1>2. n \in 1..Nonces /\ n \in Null..Nonces /\ n # Null
  <2>1. nonce[e] \in Nat  BY <1>0, <1>1, TypeFacts
  <2>2. nonce[e] % Nonces \in 0..Nonces - 1  BY <1>1, <2>1
  <2> QED  BY <1>1, <2>2 DEF Null
<1>3. p \in Packet /\ p.type = "ping" /\ p.nonce = n /\ p.age = 0
  BY <1>2, PacketsMade
<1> HIDE DEF n, p
<1>4. /\ nonce' = [nonce EXCEPT ![e] = n] /\ outstanding' = [outstanding EXCEPT ![e] = n]
      /\ timer' = [timer EXCEPT ![e] = Interval] /\ wire' = Sent(o, p, queues)
  BY DEF Ping, n, p
<1> HIDE DEF o
<1>5. /\ nonce'[e] = n /\ outstanding'[e] = n /\ timer'[e] = Interval
      /\ nonce'[o] = nonce[o] /\ outstanding'[o] = outstanding[o] /\ timer'[o] = timer[o]
  BY <1>0, <1>4 DEF HeartbeatTypeOK
<1>6. /\ wire' \in [Ends -> Seq(Packet)] /\ wire'[e] = queues[e]
      /\ gone[o] => wire'[o] = queues[o]
      /\ ~gone[o] => wire'[o] = Append(queues[o], p)
  <2>1. wire' \in [Ends -> Seq(Packet)]  BY <1>0, <1>3, <1>4, SentSafely
  <2>0. o \in Ends /\ p \in Packet  BY <1>0, <1>3
  <2>2. Sent(o, p, queues)[Other(o)] = queues[Other(o)]  BY <2>0, SentSafely
  <2>3. gone[o] => Sent(o, p, queues) = queues  BY DEF Sent
  <2>4. ~gone[o] => Sent(o, p, queues)[o] = Append(queues[o], p)  BY <2>0, SentSafely
  <2> QED  BY <1>0, <1>4, <2>1, <2>2, <2>3, <2>4
<1>7. /\ Of(wire'[o], "ping") \subseteq {p} /\ (~gone[o] => Of(wire'[o], "ping") = {p})
      /\ Of(wire'[o], "pong") = Travelling(o, "pong")
      /\ Of(wire'[e], "ping") = Travelling(e, "ping") /\ Of(wire'[e], "pong") = {}
  <2>1. /\ Of(queues[o], "ping") = {} /\ Of(queues[o], "pong") = Travelling(o, "pong")
        /\ queues[o] \in Seq(Packet)
    BY <1>0
  <2>2. ~gone[o] => /\ Of(wire'[o], "ping") = {p}
                    /\ Of(wire'[o], "pong") = Travelling(o, "pong")
    <3>1. queues[o] \in Seq(Packet) /\ p \in Packet /\ p.type = "ping" /\ p.type # "pong"
      BY <1>3, <2>1
    <3>2. Of(Append(queues[o], p), "ping") = Of(queues[o], "ping") \cup {p}
      BY <3>1, OfAppend
    <3>3. Of(Append(queues[o], p), "pong") = Of(queues[o], "pong")
      BY <3>1, OfAppend
    <3> QED  BY <1>6, <2>1, <3>2, <3>3
  <2>3. gone[o] => Of(wire'[o], "ping") = {} /\ Of(wire'[o], "pong") = Travelling(o, "pong")
    BY <1>6, <2>1
  <2> QED  BY <1>6, <2>2, <2>3
<1>8. HeartbeatTypeOK'
  <2>1. n \in 0..Nonces /\ Interval \in NoTimer..Interval  BY <1>1, <1>2 DEF NoTimer
  <2>2. nonce \in [Ends -> 0..Nonces] /\ outstanding \in [Ends -> Null..Nonces]
        /\ timer \in [Ends -> NoTimer..Interval]
    BY <1>0 DEF HeartbeatTypeOK
  <2>3. /\ nonce' \in [Ends -> 0..Nonces] /\ outstanding' \in [Ends -> Null..Nonces]
        /\ timer' \in [Ends -> NoTimer..Interval]
    BY <1>2, <1>4, <2>1, <2>2
  <2> QED  BY <1>0, <1>6, <2>3 DEF HeartbeatTypeOK, Packet
<1>9. EndOK(e)'
  <2>1. BeforeStart(e)'  BY <1>2, <1>5 DEF BeforeStart, Null
  <2>2. JoinedComesFirst(e)'  BY <1>6 DEF JoinedComesFirst
  <2>3. TimersRun(e)'
    BY <1>0, <1>1, <1>2, <1>5 DEF TimersRun, Running, NoTimer, Null
  <2>4. OneRound(e)'
    BY <1>0, <1>1, <1>3, <1>5, <1>7 DEF OneRound, Travelling, Since
  <2>5. AnswersCome(e)'  BY <1>0, <1>7 DEF AnswersCome, Travelling
  <2>6. SilenceIsGone(e)'
    BY <1>0, <1>7 DEF EndOK, SilenceIsGone, Travelling
  <2>7. MissesCount(e)'
    <3>1. silentFor'[o] <= (missed'[e] + 1) * Interval /\ Since(e)' = 0
      BY <1>0, <1>1, <1>5 DEF Since
    <3>2. silentFor'[o] \in Int /\ (missed'[e] + 1) * Interval \in Int
      <4>1. silentFor[o] \in 0..Horizon /\ missed'[e] \in Int  BY <1>0, <1>1, TypeFacts
      <4> QED  BY <1>1, <4>1
    <3> QED  BY <1>0, <1>2, <1>5, <3>1, <3>2 DEF MissesCount
  <2> QED  BY <1>0, <2>1, <2>2, <2>3, <2>4, <2>5, <2>6, <2>7 DEF EndOK
<1>10. EndOK(o)'
  <2>1. BeforeStart(o)'
    BY <1>0, <1>5, <1>7 DEF EndOK, BeforeStart, Travelling
  <2>2. JoinedComesFirst(o)'
    <3>1. ASSUME NEW i \in 1..Len(wire'[o]), wire'[o][i].type = "joined"
          PROVE  i \in 1..Len(wire[o]) /\ wire[o][i] = wire'[o][i]
      <4>1. CASE gone[o]  BY <1>0, <1>6, <3>1, <4>1
      <4>2. CASE ~gone[o]
        <5>1. queues[o] \in Seq(Packet) /\ queues[o] = wire[o]  BY <1>0
        <5>2. i \in 1..Len(queues[o]) /\ queues[o][i] = Append(queues[o], p)[i]
          <6>1. wire'[o] = Append(queues[o], p) /\ p \in Packet /\ p.type # "joined"
            BY <1>3, <1>6, <4>2
          <6> QED  BY <3>1, <5>1, <6>1, JoinedStaysFirst
        <5> QED  BY <1>6, <4>2, <5>1, <5>2
      <4> QED  BY <4>1, <4>2
    <3> QED  BY <1>0, <1>5, <3>1 DEF EndOK, JoinedComesFirst
  <2>3. TimersRun(o)'
    BY <1>0, <1>5 DEF EndOK, TimersRun, Running
  <2>4. OneRound(o)' /\ AnswersCome(o)'
    BY <1>0, <1>5, <1>7 DEF EndOK, OneRound, AnswersCome, Travelling, Since, Running
  <2>5. SilenceIsGone(o)'
    BY <1>0, <1>7 DEF EndOK, SilenceIsGone, Travelling
  <2>6. MissesCount(o)'
    BY <1>0, <1>5 DEF EndOK, MissesCount, Since, Running
  <2> QED  BY <1>0, <2>1, <2>2, <2>3, <2>4, <2>5, <2>6 DEF EndOK
<1> QED  BY <1>0, <1>8, <1>9, <1>10 DEF HeartbeatInv

\* The heartbeat of an end stops, and perhaps the end is gone with it.
LEMMA Stopping ==
    ASSUME HeartbeatAssumption, HeartbeatInv, NEW e \in Ends,
           timer' = [timer EXCEPT ![e] = NoTimer],
           UNCHANGED <<outstanding, nonce, silentFor>>,
           missed' \in [Ends -> 0..MaxMissed], missed'[Other(e)] = missed[Other(e)],
           nonce[e] = 0 => missed'[e] = missed[e],
           dead' \in [Ends -> BOOLEAN], dead'[Other(e)] = dead[Other(e)],
           dead'[e] => dead[e] \/ (gone[Other(e)] /\ nonce[e] # 0),
           started' \in [Ends -> BOOLEAN], started'[Other(e)] = started[Other(e)],
           started'[e] => started[e] /\ gone'[e],
           gone' \in [Ends -> BOOLEAN], gone'[Other(e)] = gone[Other(e)], ~gone[e],
           wire' \in [Ends -> Seq(Packet)],
           gone'[e] => wire'[e] = <<>>, ~gone'[e] => wire'[e] = wire[e],
           wire'[Other(e)] = wire[Other(e)]
              \/ wire'[Other(e)] = Append(wire[Other(e)], Message("close", Null))
    PROVE  HeartbeatInv'
<1> DEFINE o == Other(e)
<1>0. /\ o \in Ends /\ o # e /\ Other(o) = e /\ Other(e) = o /\ Ends = {e, o}
      /\ HeartbeatTypeOK /\ EndOK(e) /\ EndOK(o)
      /\ wire[o] \in Seq(Packet) /\ wire[e] \in Seq(Packet)
  BY OtherEnd, TypeFacts DEF HeartbeatInv
<1>a. /\ started'[o] = started[o] /\ dead'[o] = dead[o] /\ gone'[o] = gone[o]
      /\ missed'[o] = missed[o] /\ nonce'[o] = nonce[o] /\ outstanding'[o] = outstanding[o]
      /\ wire'[o] = wire[o] \/ wire'[o] = Append(wire[o], Message("close", Null))
      /\ dead'[e] => dead[e] \/ (gone[o] /\ nonce[e] # 0)
  OBVIOUS
<1> HIDE DEF o
<1>1. timer'[e] = NoTimer /\ timer'[o] = timer[o]  BY <1>0 DEF HeartbeatTypeOK
<1>2. /\ Message("close", Null) \in Packet /\ Message("close", Null).type = "close"
      /\ Null \in Null..Nonces
  <2>1. Null \in Null..Nonces  BY DEF HeartbeatAssumption, Null
  <2> QED  BY <2>1, PacketsMade
<1>3. HeartbeatTypeOK'
  <2>1. timer' \in [Ends -> NoTimer..Interval]
    BY <1>0 DEF HeartbeatTypeOK, HeartbeatAssumption, NoTimer
  <2> QED  BY <1>0, <2>1 DEF HeartbeatTypeOK, Packet
<1>4. /\ Of(wire'[o], "ping") = Travelling(o, "ping")
      /\ Of(wire'[o], "pong") = Travelling(o, "pong")
  <2>1. CASE wire'[o] = wire[o]  BY <2>1 DEF Travelling
  <2>2. CASE wire'[o] = Append(wire[o], Message("close", Null))
    <3>1. Of(Append(wire[o], Message("close", Null)), "ping") = Of(wire[o], "ping")
      BY <1>0, <1>2, OfAppend
    <3>2. Of(Append(wire[o], Message("close", Null)), "pong") = Of(wire[o], "pong")
      BY <1>0, <1>2, OfAppend
    <3> QED  BY <2>2, <3>1, <3>2 DEF Travelling
  <2> QED  BY <1>a, <2>1, <2>2
<1>5. /\ Of(wire'[e], "ping") \subseteq Travelling(e, "ping")
      /\ Of(wire'[e], "pong") \subseteq Travelling(e, "pong")
      /\ ~gone'[e] => Of(wire'[e], "ping") = Travelling(e, "ping")
  BY OfEmpty DEF Travelling
<1>6. ASSUME NEW i \in 1..Len(wire'[o]), wire'[o][i].type = "joined"
      PROVE  i \in 1..Len(wire[o]) /\ wire[o][i] = wire'[o][i]
  <2>1. CASE wire'[o] = wire[o]  BY <1>6, <2>1
  <2>2. CASE wire'[o] = Append(wire[o], Message("close", Null))
    BY <1>0, <1>2, <1>6, <2>2, JoinedStaysFirst
  <2> QED  BY <1>a, <2>1, <2>2
<1>7. EndOK(e)'
  <2>1. BeforeStart(e)'
    BY <1>0, <1>4, <1>5 DEF EndOK, BeforeStart, Travelling
  <2>2. JoinedComesFirst(e)'
    <3>1. CASE gone'[e]
      <4>1. Len(wire'[e]) = 0  BY <3>1
      <4> QED  BY <4>1 DEF JoinedComesFirst
    <3>2. CASE ~gone'[e]  BY <1>0, <3>2 DEF EndOK, JoinedComesFirst
    <3> QED  BY <3>1, <3>2
  <2>3. TimersRun(e)' /\ OneRound(e)' /\ AnswersCome(e)' /\ MissesCount(e)'
    BY <1>1 DEF TimersRun, OneRound, AnswersCome, MissesCount, Running
  <2>4. SilenceIsGone(e)'
    BY <1>0, <1>4 DEF EndOK, SilenceIsGone, Travelling
  <2>5. dead'[e] => gone'[o]  BY <1>0, <1>a DEF EndOK
  <2> QED  BY <1>0, <2>1, <2>2, <2>3, <2>4, <2>5 DEF EndOK
<1>8. EndOK(o)'
  <2>1. BeforeStart(o)'
    BY <1>0, <1>a, <1>4, <1>5 DEF EndOK, BeforeStart, Travelling
  <2>2. JoinedComesFirst(o)'
    BY <1>0, <1>a, <1>6 DEF EndOK, JoinedComesFirst
  <2>3. TimersRun(o)'  BY <1>0, <1>a, <1>1 DEF EndOK, TimersRun, Running
  <2>4. OneRound(o)'
    BY <1>0, <1>a, <1>1, <1>4, <1>5 DEF EndOK, OneRound, Travelling, Since, Running
  <2>5. AnswersCome(o)'
    BY <1>0, <1>a, <1>1, <1>4, <1>5 DEF EndOK, AnswersCome, Travelling, Running
  <2>6. SilenceIsGone(o)'
    BY <1>0, <1>a, <1>5 DEF EndOK, SilenceIsGone, Travelling
  <2>7. MissesCount(o)'
    BY <1>0, <1>a, <1>1 DEF EndOK, MissesCount, Since, Running
  <2>8. dead'[o] => gone'[e]  BY <1>0, <1>a DEF EndOK
  <2> QED  BY <1>0, <2>1, <2>2, <2>3, <2>4, <2>5, <2>6, <2>7, <2>8 DEF EndOK
<1> QED  BY <1>0, <1>3, <1>7, <1>8 DEF HeartbeatInv

-----------------------------------------------------------------------------
\* Each action.

LEMMA ClosesSafely ==
    ASSUME HeartbeatAssumption, wire \in [Ends -> Seq(Packet)], NEW e \in Ends, NEW w,
           w = [Sent(Other(e), Message("close", Null), wire) EXCEPT ![e] = <<>>]
    PROVE  /\ w \in [Ends -> Seq(Packet)] /\ w[e] = <<>>
           /\ w[Other(e)] = wire[Other(e)]
                 \/ w[Other(e)] = Append(wire[Other(e)], Message("close", Null))
<1>1. Other(e) \in Ends /\ Other(e) # e  BY OtherEnd
<1>2. Message("close", Null) \in Packet
  <2>1. Null \in Null..Nonces  BY DEF HeartbeatAssumption, Null
  <2> QED  BY <2>1, PacketsMade
<1> DEFINE sent == Sent(Other(e), Message("close", Null), wire)
<1>3. sent \in [Ends -> Seq(Packet)]  BY <1>1, <1>2, SentSafely
<1>4. sent[Other(e)] = wire[Other(e)] \/ sent[Other(e)] = Append(wire[Other(e)], Message("close", Null))
  BY <1>1 DEF Sent
<1> HIDE DEF sent
<1>5. w = [sent EXCEPT ![e] = <<>>]  BY DEF sent
<1>6. <<>> \in Seq(Packet)  OBVIOUS
<1> QED  BY <1>1, <1>3, <1>4, <1>5, <1>6

LEMMA TickKeeps ==
    ASSUME HeartbeatAssumption, ShortRoundTrip, HeartbeatInv, NEW e \in Ends, Tick(e)
    PROVE  HeartbeatInv'
<1> DEFINE o == Other(e)
<1>0. /\ o \in Ends /\ o # e /\ Other(o) = e /\ Ends = {e, o} /\ HeartbeatTypeOK /\ EndOK(e)
      /\ MaxMissed \in Nat /\ Interval \in Nat
  BY OtherEnd DEF HeartbeatInv, HeartbeatAssumption
<1>1. /\ Travelling(o, "ping") = {} /\ Travelling(e, "pong") = {}
      /\ outstanding[e] # Null => gone[o]
      /\ started[e] /\ ~gone[e] /\ ~dead[e] /\ nonce[e] # 0 /\ missed[e] < MaxMissed
      /\ outstanding[e] = Null => missed[e] = 0 /\ silentFor[o] <= Interval
      /\ outstanding[e] # Null => silentFor[o] <= Interval + (missed[e] + 1) * Interval
  BY NoneLeft DEF Tick
<1>2. /\ wire \in [Ends -> Seq(Packet)] /\ missed[e] \in Nat /\ missed \in [Ends -> 0..MaxMissed]
      /\ \A i \in 1..Len(wire[e]) : wire[e][i].type # "joined"
  <2>1. wire \in [Ends -> Seq(Packet)] /\ missed[e] \in 0..MaxMissed  BY <1>0, TypeFacts
  <2>2. missed \in [Ends -> 0..MaxMissed]  BY <1>0 DEF HeartbeatTypeOK
  <2>3. \A i \in 1..Len(wire[e]) : wire[e][i].type # "joined"
    BY <1>0, <1>1 DEF EndOK, JoinedComesFirst
  <2> QED  BY <1>0, <2>1, <2>2, <2>3
<1>3. CASE outstanding[e] # Null /\ missed[e] + 1 >= MaxMissed
  <2>1. /\ missed' = [missed EXCEPT ![e] = @ + 1] /\ Die(e)
    BY <1>3, <1>2, <1>0 DEF Tick
  <2>2. missed' \in [Ends -> 0..MaxMissed] /\ missed'[o] = missed[o]
    BY <1>0, <1>1, <1>2, <2>1
  <2>3. /\ dead' = [dead EXCEPT ![e] = TRUE] /\ started' = [started EXCEPT ![e] = FALSE]
        /\ timer' = [timer EXCEPT ![e] = NoTimer]
        /\ UNCHANGED <<outstanding, nonce, silentFor>>
    BY <2>1 DEF Die, CloseEnd
  <2>4. /\ dead' \in [Ends -> BOOLEAN] /\ dead'[o] = dead[o]
        /\ started' \in [Ends -> BOOLEAN] /\ started'[o] = started[o] /\ ~started'[e]
    BY <1>0, <2>3 DEF HeartbeatTypeOK
  <2>5. CASE e = "host"
    <3>1. /\ gone' = [gone EXCEPT ![e] = TRUE]
          /\ wire' = [Sent(o, Message("close", Null), wire) EXCEPT ![e] = <<>>]
      BY <1>0, <2>1, <2>5 DEF Die, CloseEnd
    <3>2. gone' \in [Ends -> BOOLEAN] /\ gone'[o] = gone[o] /\ gone'[e]
      BY <1>0, <3>1 DEF HeartbeatTypeOK
    <3>3. /\ wire' \in [Ends -> Seq(Packet)] /\ wire'[e] = <<>>
          /\ wire'[o] = wire[o] \/ wire'[o] = Append(wire[o], Message("close", Null))
      BY <1>0, <1>2, <3>1, ClosesSafely
    <3> QED  BY <1>0, <1>1, <1>3, <2>2, <2>3, <2>4, <3>2, <3>3, Stopping
  <2>6. CASE e = "peer"
    <3>1. UNCHANGED <<gone, wire>>  BY <2>1, <2>6 DEF Die
    <3>2. gone' \in [Ends -> BOOLEAN] /\ gone'[o] = gone[o] /\ ~gone'[e] /\ wire' = wire
      BY <1>0, <1>1, <3>1 DEF HeartbeatTypeOK
    <3> QED  BY <1>0, <1>1, <1>3, <1>2, <2>2, <2>3, <2>4, <3>2, Stopping
  <2> QED  BY <2>5, <2>6 DEF Ends
<1>4. CASE outstanding[e] # Null /\ missed[e] + 1 < MaxMissed
  <2>1. /\ missed' = [missed EXCEPT ![e] = @ + 1] /\ Ping(e, wire)
        /\ UNCHANGED <<started, dead, gone, silentFor>>
    BY <1>4, <1>2, <1>0 DEF Tick
  <2>2. /\ missed' \in [Ends -> 0..MaxMissed] /\ missed'[o] = missed[o]
        /\ missed'[e] = missed[e] + 1 /\ missed'[e] < MaxMissed
    BY <1>0, <1>1, <1>2, <1>4, <2>1
  <2>3. silentFor[o] <= (missed'[e] + 1) * Interval
    <3>1. (missed[e] + 2) * Interval = Interval + (missed[e] + 1) * Interval
      BY <1>0, <1>2
    <3>2. missed'[e] + 1 = missed[e] + 2  BY <1>2, <2>2
    <3> QED  BY <1>1, <1>4, <3>1, <3>2
  <2>4. started' \in [Ends -> BOOLEAN] /\ started'[e] /\ started'[o] = started[o]
    BY <1>0, <1>1, <2>1 DEF HeartbeatTypeOK
  <2> QED  BY <1>0, <1>1, <1>2, <2>1, <2>2, <2>3, <2>4, NewRound DEF Travelling
<1>5. CASE outstanding[e] = Null
  <2>1. Ping(e, wire) /\ UNCHANGED <<started, missed, dead, gone, silentFor>>
    BY <1>5 DEF Tick
  <2>2. silentFor[o] <= (missed'[e] + 1) * Interval
    <3>1. missed'[e] = 0  BY <1>1, <1>5, <2>1
    <3> QED  BY <1>0, <1>1, <1>5, <3>1
  <2>3. started' \in [Ends -> BOOLEAN] /\ started'[e] /\ started'[o] = started[o]
    BY <1>0, <1>1, <2>1 DEF HeartbeatTypeOK
  <2> QED  BY <1>0, <1>1, <1>2, <2>1, <2>2, <2>3, NewRound DEF Travelling
<1> QED  BY <1>0, <1>2, <1>3, <1>4, <1>5

LEMMA DetachKeeps ==
    ASSUME HeartbeatAssumption, HeartbeatInv, NEW e \in Ends, Detach(e)
    PROVE  HeartbeatInv'
<1>0. Other(e) \in Ends /\ Other(e) # e /\ HeartbeatTypeOK  BY OtherEnd DEF HeartbeatInv
<1>1. /\ started' \in [Ends -> BOOLEAN] /\ started'[Other(e)] = started[Other(e)] /\ ~started'[e]
  BY <1>0 DEF Detach, HeartbeatTypeOK
<1>2. /\ gone' \in [Ends -> BOOLEAN] /\ ~gone[e] /\ ~gone'[e] /\ gone' = gone
      /\ dead' \in [Ends -> BOOLEAN] /\ missed' \in [Ends -> 0..MaxMissed]
      /\ wire' \in [Ends -> Seq(Packet)] /\ wire' = wire /\ dead' = dead /\ missed' = missed
  BY <1>0, TypeFacts DEF Detach, HeartbeatTypeOK
<1> QED  BY <1>1, <1>2, Stopping DEF Detach

LEMMA LeaveKeeps ==
    ASSUME HeartbeatAssumption, HeartbeatInv, NEW e \in Ends, Leave(e) \/ HearClose(e) \/ FallSilent(e)
    PROVE  HeartbeatInv'
<1>0. Other(e) \in Ends /\ Other(e) # e /\ HeartbeatTypeOK /\ wire \in [Ends -> Seq(Packet)]
  BY OtherEnd, TypeFacts DEF HeartbeatInv
<1>1. /\ timer' = [timer EXCEPT ![e] = NoTimer] /\ gone' = [gone EXCEPT ![e] = TRUE] /\ ~gone[e]
      /\ UNCHANGED <<outstanding, missed, dead, nonce, silentFor>>
      /\ started' = [started EXCEPT ![e] = FALSE] \/ started' = started
  BY DEF Leave, CloseEnd, HearClose, FallSilent, Reads
<1>2. /\ gone' \in [Ends -> BOOLEAN] /\ gone'[e] /\ gone'[Other(e)] = gone[Other(e)]
      /\ started' \in [Ends -> BOOLEAN] /\ started'[Other(e)] = started[Other(e)]
      /\ started'[e] => started[e]
  BY <1>0, <1>1 DEF HeartbeatTypeOK
<1>3. /\ wire' \in [Ends -> Seq(Packet)] /\ wire'[e] = <<>>
      /\ wire'[Other(e)] = wire[Other(e)]
            \/ wire'[Other(e)] = Append(wire[Other(e)], Message("close", Null))
  <2>1. CASE wire' = [wire EXCEPT ![e] = <<>>]  BY <1>0, <2>1
  <2>2. CASE wire' = [Sent(Other(e), Message("close", Null), wire) EXCEPT ![e] = <<>>]
    BY <1>0, <2>2, ClosesSafely
  <2> QED  BY <2>1, <2>2 DEF Leave, CloseEnd, HearClose, FallSilent
<1>4. dead' \in [Ends -> BOOLEAN] /\ missed' \in [Ends -> 0..MaxMissed] /\ dead' = dead /\ missed' = missed
  BY <1>0, <1>1 DEF HeartbeatTypeOK
<1> QED  BY <1>1, <1>2, <1>3, <1>4, Stopping

\* Reading the head of e's queue: what is left of it.
LEMMA ReadFacts ==
    ASSUME HeartbeatInv, NEW e \in Ends, ~gone[e], wire[e] # <<>>
    PROVE  /\ Rest(e) \in [Ends -> Seq(Packet)] /\ Rest(e)[e] = Tail(wire[e])
           /\ Rest(e)[Other(e)] = wire[Other(e)]
           /\ Head(wire[e]) \in Packet
           /\ \A i \in 1..Len(Rest(e)[e]) : Rest(e)[e][i].type # "joined"
           /\ Head(wire[e]).type = "joined" =>
                 nonce[e] = 0 /\ silentFor[Other(e)] <= Head(wire[e]).age
<1>1. /\ Other(e) \in Ends /\ Other(e) # e /\ EndOK(e) /\ wire \in [Ends -> Seq(Packet)]
      /\ wire[e] \in Seq(Packet)
  BY OtherEnd, TypeFacts DEF HeartbeatInv
<1>2. Tail(wire[e]) \in Seq(Packet) /\ Head(wire[e]) \in Packet  BY <1>1
<1>3. /\ Rest(e) \in [Ends -> Seq(Packet)] /\ Rest(e)[e] = Tail(wire[e])
      /\ Rest(e)[Other(e)] = wire[Other(e)]
  BY <1>1, <1>2 DEF Rest
<1>4. ASSUME NEW i \in 1..Len(Tail(wire[e])) PROVE Tail(wire[e])[i].type # "joined"
  <2>1. i + 1 \in 1..Len(wire[e]) /\ i + 1 # 1 /\ Tail(wire[e])[i] = wire[e][i + 1]
    BY <1>1, <1>4
  <2> QED  BY <1>1, <2>1 DEF EndOK, JoinedComesFirst
<1>5. 1 \in 1..Len(wire[e]) /\ Head(wire[e]) = wire[e][1]  BY <1>1
<1>6. Head(wire[e]).type = "joined" => nonce[e] = 0 /\ silentFor[Other(e)] <= Head(wire[e]).age
  BY <1>1, <1>5 DEF EndOK, JoinedComesFirst
<1> QED  BY <1>2, <1>3, <1>4, <1>6

LEMMA StartKeeps ==
    ASSUME HeartbeatAssumption, ShortRoundTrip, HeartbeatInv, NEW e \in Ends, Start(e)
    PROVE  HeartbeatInv'
<1>0. /\ Other(e) \in Ends /\ Other(e) # e /\ HeartbeatTypeOK /\ EndOK(e)
      /\ MaxMissed \in Nat /\ MaxMissed > 0 /\ Interval \in Nat /\ MaxDelay \in Nat
      /\ wire[e] \in Seq(Packet)
  BY OtherEnd, TypeFacts DEF HeartbeatInv, HeartbeatAssumption
<1>1. ~gone[e] /\ wire[e] # <<>> /\ Head(wire[e]).type = "joined"  BY DEF Start, Reads
<1>2. /\ Rest(e) \in [Ends -> Seq(Packet)] /\ Rest(e)[e] = Tail(wire[e])
      /\ Rest(e)[Other(e)] = wire[Other(e)]
      /\ \A i \in 1..Len(Rest(e)[e]) : Rest(e)[e][i].type # "joined"
      /\ nonce[e] = 0 /\ silentFor[Other(e)] <= Head(wire[e]).age
      /\ Head(wire[e]).age \in 0..MaxDelay
  BY <1>1, ReadFacts DEF Packet
<1>3. /\ ~dead[e] /\ missed[e] = 0
      /\ Travelling(Other(e), "ping") = {} /\ Travelling(e, "pong") = {}
  BY <1>0, <1>2 DEF EndOK, BeforeStart
<1>4. /\ Of(Rest(e)[e], "ping") = Travelling(e, "ping")
      /\ Of(Rest(e)[e], "pong") = Travelling(e, "pong")
  <2>1. Of(Tail(wire[e]), "ping") = Of(wire[e], "ping")  BY <1>0, <1>1, OfTail
  <2>2. Of(Tail(wire[e]), "pong") = Of(wire[e], "pong")  BY <1>0, <1>1, OfTail
  <2> QED  BY <1>2, <2>1, <2>2 DEF Travelling
<1>5. /\ Ping(e, Rest(e)) /\ UNCHANGED <<missed, dead, gone, silentFor>>
      /\ started' = [started EXCEPT ![e] = TRUE]
  BY DEF Start
<1>6. started' \in [Ends -> BOOLEAN] /\ started'[e] /\ started'[Other(e)] = started[Other(e)]
  BY <1>0, <1>5 DEF HeartbeatTypeOK
<1>7. missed' \in [Ends -> 0..MaxMissed] /\ missed' = missed  BY <1>0, <1>5 DEF HeartbeatTypeOK
<1>8. silentFor[Other(e)] <= (missed'[e] + 1) * Interval
  <2>1. silentFor[Other(e)] \in 0..Horizon  BY <1>0, TypeFacts
  <2>2. (missed'[e] + 1) * Interval = Interval  BY <1>0, <1>3, <1>7
  <2>3. Horizon \in Int  BY <1>0 DEF Horizon
  <2> QED  BY <1>0, <1>2, <2>1, <2>2, <2>3 DEF ShortRoundTrip
<1> QED  BY <1>0, <1>1, <1>2, <1>3, <1>4, <1>5, <1>6, <1>7, <1>8, NewRound DEF Travelling

LEMMA AnswerKeeps ==
    ASSUME HeartbeatAssumption, ShortRoundTrip, HeartbeatInv, NEW e \in Ends, Answer(e)
    PROVE  HeartbeatInv'
<1> DEFINE o == Other(e)
           ping == Head(wire[e])
           p == Message("pong", ping.nonce)
<1>0. /\ o \in Ends /\ o # e /\ Other(o) = e /\ Other(e) = o /\ Ends = {e, o}
      /\ HeartbeatTypeOK /\ EndOK(e) /\ EndOK(o)
      /\ wire[e] \in Seq(Packet) /\ wire[o] \in Seq(Packet)
      /\ Interval \in Nat /\ MaxDelay \in Nat
  BY OtherEnd, TypeFacts DEF HeartbeatInv, HeartbeatAssumption
<1>1. /\ ~gone[e] /\ wire[e] # <<>> /\ ping.type = "ping"
      /\ wire' = Sent(o, p, Rest(e))
      /\ UNCHANGED <<ends, gone, nonce, silentFor>>
  BY DEF Answer, Reads
<1>2. /\ Rest(e) \in [Ends -> Seq(Packet)] /\ Rest(e)[e] = Tail(wire[e])
      /\ Rest(e)[o] = wire[o] /\ ping \in Packet
      /\ \A i \in 1..Len(Rest(e)[e]) : Rest(e)[e][i].type # "joined"
  BY <1>1, ReadFacts
<1>3. p \in Packet /\ p.type = "pong" /\ p.nonce = ping.nonce /\ p.age = 0
  <2>1. ping.nonce \in Null..Nonces  BY <1>2 DEF Packet
  <2> QED  BY <2>1, PacketsMade
<1>4. /\ ping \in Travelling(e, "ping")
      /\ Of(Tail(wire[e]), "ping") \subseteq Travelling(e, "ping")
      /\ Of(Tail(wire[e]), "pong") = Travelling(e, "pong")
  <2>1. Of(Tail(wire[e]), "pong") = Of(wire[e], "pong")  BY <1>0, <1>1, OfTail
  <2>2. ping \in Of(wire[e], "ping")  BY <1>0, <1>1, OfTail
  <2>3. Of(Tail(wire[e]), "ping") \subseteq Of(wire[e], "ping")  BY <1>0, <1>1, OfTail
  <2> QED  BY <2>1, <2>2, <2>3 DEF Travelling
<1> HIDE DEF o, ping, p
<1>5. /\ wire' \in [Ends -> Seq(Packet)] /\ wire'[e] = Tail(wire[e])
      /\ gone[o] => wire'[o] = wire[o]
      /\ ~gone[o] => wire'[o] = Append(wire[o], p)
  <2>0. o \in Ends /\ p \in Packet /\ Rest(e) \in [Ends -> Seq(Packet)]  BY <1>0, <1>2, <1>3
  <2>1. Sent(o, p, Rest(e)) \in [Ends -> Seq(Packet)]  BY <2>0, SentSafely
  <2>2. Sent(o, p, Rest(e))[Other(o)] = Rest(e)[Other(o)]  BY <2>0, SentSafely
  <2>3. gone[o] => Sent(o, p, Rest(e)) = Rest(e)  BY DEF Sent
  <2>4. ~gone[o] => Sent(o, p, Rest(e))[o] = Append(Rest(e)[o], p)  BY <2>0, SentSafely
  <2> QED  BY <1>0, <1>1, <1>2, <2>1, <2>2, <2>3, <2>4
<1>6. /\ Of(wire'[o], "ping") = Travelling(o, "ping")
      /\ Of(wire'[o], "pong") \subseteq Travelling(o, "pong") \cup {p}
      /\ Travelling(o, "pong") \subseteq Of(wire'[o], "pong")
      /\ ~gone[o] => p \in Of(wire'[o], "pong")
  <2>1. Of(Append(wire[o], p), "pong") = Of(wire[o], "pong") \cup {p}  BY <1>0, <1>3, OfAppend
  <2>2. Of(Append(wire[o], p), "ping") = Of(wire[o], "ping")  BY <1>0, <1>3, OfAppend
  <2> QED  BY <1>5, <2>1, <2>2 DEF Travelling
<1>7. HeartbeatTypeOK'
  BY <1>0, <1>1, <1>5 DEF HeartbeatTypeOK, ends, Packet
<1>8. /\ UNCHANGED <<started, outstanding, missed, dead, timer, gone, nonce, silentFor>>
  BY <1>1 DEF ends
<1>9. EndOK(e)'
  <2>1. BeforeStart(e)'
    BY <1>0, <1>4, <1>5, <1>6, <1>8 DEF EndOK, BeforeStart, Travelling
  <2>2. JoinedComesFirst(e)'  BY <1>2, <1>5 DEF JoinedComesFirst
  <2>3. TimersRun(e)'  BY <1>0, <1>8 DEF EndOK, TimersRun, Running
  <2>4. OneRound(e)'
    BY <1>0, <1>4, <1>5, <1>6, <1>8 DEF EndOK, OneRound, Travelling, Since, Running
  <2>5. AnswersCome(e)'
    BY <1>0, <1>4, <1>5, <1>6, <1>8 DEF EndOK, AnswersCome, Travelling, Running
  <2>6. SilenceIsGone(e)'
    <3>1. silentFor[e] = 0  BY <1>0, <1>1 DEF EndOK, SilenceIsGone
    <3>2. ASSUME NEW m \in Of(wire'[o], "pong") PROVE silentFor[e] <= m.age
      <4>1. m \in Travelling(o, "pong") \/ m = p  BY <1>6, <3>2
      <4>2. CASE m \in Travelling(o, "pong")  BY <1>0, <4>2 DEF EndOK, SilenceIsGone
      <4>3. CASE m = p  BY <1>3, <3>1, <4>3
      <4> QED  BY <4>1, <4>2, <4>3
    <3> QED  BY <1>0, <1>8, <3>1, <3>2 DEF SilenceIsGone, Travelling
  <2>7. MissesCount(e)'  BY <1>0, <1>8 DEF EndOK, MissesCount, Since, Running
  <2>8. dead'[e] => gone'[o]  BY <1>0, <1>8 DEF EndOK
  <2> QED  BY <1>0, <2>1, <2>2, <2>3, <2>4, <2>5, <2>6, <2>7, <2>8 DEF EndOK
<1>10. EndOK(o)'
  <2>1. BeforeStart(o)'  BY <1>0, <1>4, <1>8 DEF EndOK, BeforeStart
  <2>2. JoinedComesFirst(o)'
    <3>1. ASSUME NEW i \in 1..Len(wire'[o]), wire'[o][i].type = "joined"
          PROVE  i \in 1..Len(wire[o]) /\ wire[o][i] = wire'[o][i]
      <4>1. CASE gone[o]  BY <1>5, <3>1, <4>1
      <4>2. CASE ~gone[o]
        <5>1. wire'[o] = Append(wire[o], p) /\ p.type # "joined"  BY <1>3, <1>5, <4>2
        <5> QED  BY <1>0, <1>3, <3>1, <5>1, JoinedStaysFirst
      <4> QED  BY <4>1, <4>2
    <3> QED  BY <1>0, <1>8, <3>1 DEF EndOK, JoinedComesFirst
  <2>3. TimersRun(o)'  BY <1>0, <1>8 DEF EndOK, TimersRun, Running
  <2>4. OneRound(o)'
    <3>1. SUFFICES ASSUME Running(o)
                   PROVE  /\ \A m \in Of(wire'[e], "ping") : m.nonce = nonce[o] /\ m.age = Since(o)
                          /\ \A m \in Of(wire'[o], "pong") :
                                m.nonce = nonce[o] /\ m.age <= Since(o) /\ Since(o) <= m.age + MaxDelay
      BY <1>0, <1>8 DEF OneRound, Travelling, Since, Running
    <3>2. /\ \A m \in Travelling(e, "ping") : m.nonce = nonce[o] /\ m.age = Since(o)
          /\ \A m \in Travelling(o, "pong") :
                m.nonce = nonce[o] /\ m.age <= Since(o) /\ Since(o) <= m.age + MaxDelay
      BY <1>0, <3>1 DEF EndOK, OneRound
    <3>3. p.nonce = nonce[o] /\ p.age <= Since(o) /\ Since(o) <= p.age + MaxDelay
      <4>1. ping.nonce = nonce[o] /\ ping.age = Since(o) /\ ping.age \in 0..MaxDelay
        BY <1>2, <1>4, <3>2 DEF Packet
      <4> QED  BY <1>0, <1>3, <4>1
    <3> QED  BY <1>4, <1>5, <1>6, <3>2, <3>3
  <2>5. AnswersCome(o)'
    BY <1>0, <1>6, <1>8 DEF EndOK, AnswersCome, TimersRun, Travelling, Running
  <2>6. SilenceIsGone(o)'
    BY <1>0, <1>4, <1>5, <1>8 DEF EndOK, SilenceIsGone, Travelling
  <2>7. MissesCount(o)'  BY <1>0, <1>8 DEF EndOK, MissesCount, Since, Running
  <2>8. dead'[o] => gone'[e]  BY <1>0, <1>8 DEF EndOK
  <2> QED  BY <1>0, <2>1, <2>2, <2>3, <2>4, <2>5, <2>6, <2>7, <2>8 DEF EndOK
<1> QED  BY <1>0, <1>7, <1>9, <1>10 DEF HeartbeatInv

LEMMA OnPongKeeps ==
    ASSUME HeartbeatAssumption, ShortRoundTrip, HeartbeatInv, NEW e \in Ends, OnPong(e)
    PROVE  HeartbeatInv'
<1> DEFINE o == Other(e)
           pong == Head(wire[e])
<1>0. /\ o \in Ends /\ o # e /\ Other(o) = e /\ Other(e) = o /\ Ends = {e, o}
      /\ HeartbeatTypeOK /\ EndOK(e) /\ EndOK(o)
      /\ wire[e] \in Seq(Packet) /\ wire[o] \in Seq(Packet)
      /\ Interval \in Nat /\ MaxDelay \in Nat /\ MaxMissed \in Nat /\ Nonces \in Nat
  BY OtherEnd, TypeFacts DEF HeartbeatInv, HeartbeatAssumption
<1>1. /\ ~gone[e] /\ wire[e] # <<>> /\ pong.type = "pong"
      /\ wire' = Rest(e)
      /\ UNCHANGED <<started, dead, timer, gone, nonce, silentFor>>
  BY DEF OnPong, Reads
<1>2. /\ Rest(e) \in [Ends -> Seq(Packet)] /\ Rest(e)[e] = Tail(wire[e])
      /\ Rest(e)[o] = wire[o] /\ pong \in Packet
      /\ \A i \in 1..Len(Rest(e)[e]) : Rest(e)[e][i].type # "joined"
  BY <1>1, ReadFacts
<1>3. /\ pong \in Travelling(e, "pong")
      /\ Of(wire'[e], "pong") \subseteq Travelling(e, "pong")
      /\ Of(wire'[e], "ping") = Travelling(e, "ping")
      /\ wire'[o] = wire[o]
  <2>1. Of(Tail(wire[e]), "ping") = Of(wire[e], "ping")  BY <1>0, <1>1, OfTail
  <2>2. pong \in Of(wire[e], "pong")  BY <1>0, <1>1, OfTail
  <2>3. Of(Tail(wire[e]), "pong") \subseteq Of(wire[e], "pong")  BY <1>0, <1>1, OfTail
  <2> QED  BY <1>1, <1>2, <2>1, <2>2, <2>3 DEF Travelling
\* The answer counts, or nothing changes but the queue.
<1>4. /\ outstanding' \in [Ends -> Null..Nonces] /\ missed' \in [Ends -> 0..MaxMissed]
      /\ outstanding'[o] = outstanding[o] /\ missed'[o] = missed[o]
      /\ \/ outstanding'[e] = Null /\ missed'[e] = 0
         \/ /\ outstanding'[e] = outstanding[e] /\ missed'[e] = missed[e]
            /\ dead[e] \/ outstanding[e] # pong.nonce
  <2>1. /\ outstanding \in [Ends -> Null..Nonces] /\ missed \in [Ends -> 0..MaxMissed]
        /\ Null \in Null..Nonces /\ 0 \in 0..MaxMissed
    BY <1>0 DEF HeartbeatTypeOK, Null
  <2>2. CASE ~dead[e] /\ outstanding[e] = pong.nonce
    <3>1. outstanding' = [outstanding EXCEPT ![e] = Null] /\ missed' = [missed EXCEPT ![e] = 0]
      BY <2>2 DEF OnPong
    <3> QED  BY <1>0, <2>1, <3>1
  <2>3. CASE dead[e] \/ outstanding[e] # pong.nonce
    <3>1. /\ outstanding' = [outstanding EXCEPT ![e] = outstanding[e]]
          /\ missed' = [missed EXCEPT ![e] = missed[e]]
      BY <2>3 DEF OnPong
    <3> QED  BY <1>0, <2>1, <2>3, <3>1
  <2> QED  BY <2>2, <2>3
<1> HIDE DEF o, pong
<1>5. HeartbeatTypeOK'
  BY <1>0, <1>1, <1>2, <1>4 DEF HeartbeatTypeOK, Packet
<1>6. EndOK(e)'
  <2>1. nonce[e] # 0  BY <1>0, <1>3 DEF EndOK, BeforeStart
  <2>2. BeforeStart(e)'  BY <1>1, <2>1 DEF BeforeStart
  <2>3. JoinedComesFirst(e)'  BY <1>1, <1>2 DEF JoinedComesFirst
  \* A running end that reads an answer awaits nothing afterwards.
  <2>4. Running(e) => outstanding'[e] = Null /\ missed'[e] = 0
    <3>1. Running(e) => /\ ~dead[e] /\ pong.nonce = nonce[e]
                        /\ outstanding[e] \in {Null, nonce[e]}
                        /\ outstanding[e] = Null => missed[e] = 0
      BY <1>0, <1>3 DEF EndOK, TimersRun, OneRound
    <3> QED  BY <1>4, <3>1
  <2>5. TimersRun(e)'
    BY <1>0, <1>1, <2>4 DEF EndOK, TimersRun, Running
  <2>6. OneRound(e)'
    BY <1>0, <1>1, <1>3 DEF EndOK, OneRound, Travelling, Since, Running
  <2>7. AnswersCome(e)'  BY <1>1, <2>4 DEF AnswersCome, Running
  <2>8. SilenceIsGone(e)'
    BY <1>0, <1>1, <1>3 DEF EndOK, SilenceIsGone, Travelling
  <2>9. MissesCount(e)'
    <3>1. Running(e) => silentFor[o] <= Since(e)
      <4>1. silentFor[o] <= pong.age  BY <1>0, <1>3 DEF EndOK, SilenceIsGone
      <4>2. Running(e) => pong.age <= Since(e)  BY <1>0, <1>3 DEF EndOK, OneRound
      <4>3. silentFor[o] \in Int /\ Since(e) \in Int /\ pong.age \in Int
        <5>1. Horizon \in Int  BY <1>0 DEF Horizon
        <5>2. silentFor[o] \in 0..Horizon /\ timer[e] \in NoTimer..Interval  BY <1>0, TypeFacts
        <5> QED  BY <1>0, <1>2, <5>1, <5>2 DEF Since, Packet, NoTimer
      <4> QED  BY <4>1, <4>2, <4>3
    <3> QED  BY <1>0, <1>1, <2>4, <3>1 DEF MissesCount, Since, Running
  <2>10. dead'[e] => gone'[o]  BY <1>0, <1>1 DEF EndOK
  <2> QED  BY <1>0, <2>2, <2>3, <2>5, <2>6, <2>7, <2>8, <2>9, <2>10 DEF EndOK
<1>7. EndOK(o)'
  <2>1. BeforeStart(o)'
    BY <1>0, <1>1, <1>3, <1>4 DEF EndOK, BeforeStart, Travelling
  <2>2. JoinedComesFirst(o)'
    BY <1>0, <1>1, <1>3 DEF EndOK, JoinedComesFirst
  <2>3. TimersRun(o)'  BY <1>0, <1>1, <1>4 DEF EndOK, TimersRun, Running
  <2>4. OneRound(o)'
    BY <1>0, <1>1, <1>3 DEF EndOK, OneRound, Travelling, Since, Running
  <2>5. AnswersCome(o)'
    BY <1>0, <1>1, <1>3, <1>4 DEF EndOK, AnswersCome, Travelling, Running
  <2>6. SilenceIsGone(o)'
    BY <1>0, <1>1, <1>3 DEF EndOK, SilenceIsGone, Travelling
  <2>7. MissesCount(o)'
    BY <1>0, <1>1, <1>4 DEF EndOK, MissesCount, Since, Running
  <2>8. dead'[o] => gone'[e]  BY <1>0, <1>1 DEF EndOK
  <2> QED  BY <1>0, <2>1, <2>2, <2>3, <2>4, <2>5, <2>6, <2>7, <2>8 DEF EndOK
<1> QED  BY <1>0, <1>5, <1>6, <1>7 DEF HeartbeatInv

LEMMA AdvanceKeeps ==
    ASSUME HeartbeatAssumption, ShortRoundTrip, HeartbeatInv, Advance
    PROVE  HeartbeatInv'
<1>0. /\ HeartbeatTypeOK /\ wire \in [Ends -> Seq(Packet)]
      /\ Interval \in Nat /\ MaxDelay \in Nat /\ MaxMissed \in Nat /\ Horizon \in Nat
  <2>1. (MaxMissed + 1) * Interval \in Nat  BY DEF HeartbeatAssumption
  <2>2. "host" \in Ends  BY DEF Ends
  <2> QED  BY <2>1, <2>2, TypeFacts DEF HeartbeatInv, HeartbeatAssumption, Horizon
<1>1. UNCHANGED <<started, outstanding, missed, dead, gone, nonce>>  BY DEF Advance
<1>2. \A e \in Ends : wire'[e] = Aged(wire[e])  BY DEF Advance, Aged
<1>3. ASSUME NEW e \in Ends
      PROVE  /\ timer'[e] \in NoTimer..Interval
             /\ Running(e)' <=> Running(e)
             /\ Running(e) => Since(e)' = Since(e) + 1 /\ Since(e) \in Nat
  <2>1. timer[e] \in NoTimer..Interval /\ timer[e] # 0  BY <1>0, <1>3, TypeFacts DEF Advance
  <2>2. timer'[e] = IF timer[e] = NoTimer THEN NoTimer ELSE timer[e] - 1  BY <1>3 DEF Advance
  <2> QED  BY <1>0, <2>1, <2>2 DEF Running, Since, NoTimer
<1>4. ASSUME NEW e \in Ends
      PROVE  /\ silentFor'[e] \in 0..Horizon /\ silentFor[e] \in 0..Horizon
             /\ silentFor'[e] <= silentFor[e] + 1
             /\ ~gone[e] => silentFor'[e] = silentFor[e]
  <2>1. silentFor[e] \in 0..Horizon  BY <1>0, <1>4, TypeFacts
  <2>2. silentFor'[e] = IF gone[e] /\ silentFor[e] < Horizon THEN silentFor[e] + 1 ELSE silentFor[e]
    BY <1>4 DEF Advance
  <2> QED  BY <1>0, <2>1, <2>2
<1>5. ASSUME NEW e \in Ends, NEW t
      PROVE  /\ wire'[e] \in Seq(Packet) /\ Len(wire'[e]) = Len(wire[e])
             /\ \A i \in 1..Len(wire[e]) :
                   /\ wire[e][i] \in Packet /\ wire'[e][i].type = wire[e][i].type
                   /\ wire'[e][i].age = wire[e][i].age + 1
             /\ \A n \in Travelling(e, t)' :
                   \E m \in Travelling(e, t) : n.nonce = m.nonce /\ n.age = m.age + 1
             /\ Travelling(e, t) # {} => Travelling(e, t)' # {}
  <2>1. wire[e] \in Seq(Packet) /\ \A i \in DOMAIN wire[e] : wire[e][i].age < MaxDelay
    BY <1>0, <1>5 DEF Advance
  <2>2. \A i \in 1..Len(wire[e]) : wire[e][i] \in Packet  BY <2>1
  <2>3. Aged(wire[e]) \in Seq(Packet) /\ Len(Aged(wire[e])) = Len(wire[e])
    BY <1>0, <2>1, OfAged
  <2>4. \A i \in 1..Len(wire[e]) : /\ Aged(wire[e])[i].type = wire[e][i].type
                                   /\ Aged(wire[e])[i].age = wire[e][i].age + 1
    BY <1>0, <2>1, OfAged
  <2>5. /\ \A n \in Of(Aged(wire[e]), t) :
              \E m \in Of(wire[e], t) : n.nonce = m.nonce /\ n.age = m.age + 1
        /\ Of(wire[e], t) # {} => Of(Aged(wire[e]), t) # {}
    BY <1>0, <2>1, OfAged
  <2>6. wire'[e] = Aged(wire[e])  BY <1>2, <1>5
  <2> QED  BY <2>2, <2>3, <2>4, <2>5, <2>6 DEF Travelling
<1>6. ASSUME NEW e \in Ends, NEW t, NEW m \in Travelling(e, t) PROVE m \in Packet
  <2>1. PICK i \in 1..Len(wire[e]) : m = wire[e][i]  BY <1>6 DEF Travelling, Of
  <2> QED  BY <1>5, <1>6, <2>1
<1>7. HeartbeatTypeOK'
  <2>1. timer' \in [Ends -> NoTimer..Interval] /\ silentFor' \in [Ends -> 0..Horizon]
    BY <1>3, <1>4 DEF Advance
  <2>2. wire' \in [Ends -> Seq(Packet)]
    <3>1. wire' = [e \in Ends |-> Aged(wire[e])]  BY DEF Advance, Aged
    <3>2. \A e \in Ends : Aged(wire[e]) \in Seq(Packet)  BY <1>2, <1>5
    <3> QED  BY <3>1, <3>2
  <2> QED  BY <1>0, <1>1, <2>1, <2>2 DEF HeartbeatTypeOK, Packet
<1>8. ASSUME NEW e \in Ends PROVE EndOK(e)'
  <2>0. Other(e) \in Ends /\ EndOK(e)  BY <1>8, OtherEnd DEF HeartbeatInv
  <2>1. BeforeStart(e)'
    <3>1. Travelling(Other(e), "ping") = {} => Travelling(Other(e), "ping")' = {}  BY <1>5, <2>0
    <3>2. Travelling(e, "pong") = {} => Travelling(e, "pong")' = {}  BY <1>5, <1>8
    <3> QED  BY <1>1, <2>0, <3>1, <3>2 DEF EndOK, BeforeStart
  <2>2. JoinedComesFirst(e)'
    <3>1. SUFFICES ASSUME NEW i \in 1..Len(wire'[e]), wire'[e][i].type = "joined"
                   PROVE  i = 1 /\ nonce'[e] = 0 /\ silentFor'[Other(e)] <= wire'[e][i].age
      BY DEF JoinedComesFirst
    <3>2. /\ i \in 1..Len(wire[e]) /\ wire[e][i].type = "joined" /\ wire[e][i] \in Packet
          /\ wire'[e][i].age = wire[e][i].age + 1
      BY <1>5, <1>8, <3>1
    <3>3. i = 1 /\ nonce[e] = 0 /\ silentFor[Other(e)] <= wire[e][i].age
      BY <2>0, <3>2 DEF EndOK, JoinedComesFirst
    <3>4. wire[e][i].age \in 0..MaxDelay  BY <3>2 DEF Packet
    <3> QED  BY <1>0, <1>1, <1>4, <2>0, <3>2, <3>3, <3>4
  <2>3. TimersRun(e)'  BY <1>1, <1>3, <1>8, <2>0 DEF EndOK, TimersRun
  <2>4. OneRound(e)'
    <3>1. SUFFICES ASSUME Running(e)
                   PROVE  /\ \A n \in Travelling(Other(e), "ping")' :
                                n.nonce = nonce[e] /\ n.age = Since(e) + 1
                          /\ \A n \in Travelling(e, "pong")' :
                                /\ n.nonce = nonce[e] /\ n.age <= Since(e) + 1
                                /\ Since(e) + 1 <= n.age + MaxDelay
      BY <1>1, <1>3, <1>8 DEF OneRound
    <3>2. Since(e) \in Nat  BY <1>3, <1>8, <3>1
    <3>3. ASSUME NEW n \in Travelling(Other(e), "ping")'
          PROVE  n.nonce = nonce[e] /\ n.age = Since(e) + 1
      <4>1. PICK m \in Travelling(Other(e), "ping") : n.nonce = m.nonce /\ n.age = m.age + 1
        BY <1>5, <2>0, <3>3
      <4> QED  BY <2>0, <3>1, <4>1 DEF EndOK, OneRound
    <3>4. ASSUME NEW n \in Travelling(e, "pong")'
          PROVE  /\ n.nonce = nonce[e] /\ n.age <= Since(e) + 1
                 /\ Since(e) + 1 <= n.age + MaxDelay
      <4>1. PICK m \in Travelling(e, "pong") : n.nonce = m.nonce /\ n.age = m.age + 1
        BY <1>5, <1>8, <3>4
      <4>2. m.nonce = nonce[e] /\ m.age <= Since(e) /\ Since(e) <= m.age + MaxDelay
        BY <2>0, <3>1, <4>1 DEF EndOK, OneRound
      <4>3. m.age \in 0..MaxDelay  BY <1>6, <1>8, <4>1 DEF Packet
      <4> QED  BY <1>0, <3>2, <4>1, <4>2, <4>3
    <3> QED  BY <3>3, <3>4
  <2>5. AnswersCome(e)'
    <3>1. Travelling(Other(e), "ping") # {} => Travelling(Other(e), "ping")' # {}  BY <1>5, <2>0
    <3>2. Travelling(e, "pong") # {} => Travelling(e, "pong")' # {}  BY <1>5, <1>8
    <3> QED  BY <1>1, <1>3, <1>8, <2>0, <3>1, <3>2 DEF EndOK, AnswersCome
  <2>6. SilenceIsGone(e)'
    <3>1. ~gone'[e] => silentFor'[e] = 0  BY <1>1, <1>4, <1>8, <2>0 DEF EndOK, SilenceIsGone
    <3>2. ASSUME NEW n \in Travelling(Other(e), "pong")' PROVE silentFor'[e] <= n.age
      <4>1. PICK m \in Travelling(Other(e), "pong") : n.age = m.age + 1  BY <1>5, <2>0, <3>2
      <4>2. silentFor[e] <= m.age  BY <2>0, <4>1 DEF EndOK, SilenceIsGone
      <4>3. m.age \in 0..MaxDelay  BY <1>6, <2>0, <4>1 DEF Packet
      <4> QED  BY <1>0, <1>4, <1>8, <4>1, <4>2, <4>3
    <3> QED  BY <3>1, <3>2 DEF SilenceIsGone
  <2>7. MissesCount(e)'
    <3>1. SUFFICES ASSUME Running(e)
                   PROVE  IF outstanding[e] = Null THEN silentFor'[Other(e)] <= Since(e) + 1
                          ELSE silentFor'[Other(e)] <= Since(e) + 1 + (missed[e] + 1) * Interval
      BY <1>1, <1>3, <1>8 DEF MissesCount
    <3>2. IF outstanding[e] = Null THEN silentFor[Other(e)] <= Since(e)
          ELSE silentFor[Other(e)] <= Since(e) + (missed[e] + 1) * Interval
      BY <2>0, <3>1 DEF EndOK, MissesCount
    <3>3. Since(e) \in Nat  BY <1>3, <1>8, <3>1
    <3>4. (missed[e] + 1) * Interval \in Nat
      <4>1. missed[e] \in Nat  BY <1>0, <1>8, TypeFacts
      <4> QED  BY <1>0, <4>1
    <3> QED  BY <1>0, <1>4, <2>0, <3>2, <3>3, <3>4
  <2>8. dead'[e] => gone'[Other(e)]  BY <1>1, <2>0 DEF EndOK
  <2> QED  BY <2>1, <2>2, <2>3, <2>4, <2>5, <2>6, <2>7, <2>8 DEF EndOK
<1> QED  BY <1>7, <1>8 DEF HeartbeatInv

-----------------------------------------------------------------------------
\* The results.

LEMMA StutterKeeps ==
    ASSUME HeartbeatInv, UNCHANGED heartbeatVars
    PROVE  HeartbeatInv'
<1>1. UNCHANGED <<started, outstanding, missed, dead, timer, gone, wire, nonce, silentFor>>
  BY DEF heartbeatVars, ends
<1>2. HeartbeatTypeOK'  BY <1>1 DEF HeartbeatInv, HeartbeatTypeOK
<1>3. ASSUME NEW e \in Ends PROVE EndOK(e)'
  <2>1. EndOK(e)  BY <1>3 DEF HeartbeatInv
  <2>2. (BeforeStart(e) /\ JoinedComesFirst(e) /\ TimersRun(e))'
    BY <1>1, <2>1 DEF EndOK, BeforeStart, JoinedComesFirst, TimersRun, Running, Travelling
  <2>3. (OneRound(e) /\ AnswersCome(e) /\ SilenceIsGone(e) /\ MissesCount(e))'
    BY <1>1, <2>1 DEF EndOK, OneRound, AnswersCome, SilenceIsGone, MissesCount, Running, Since, Travelling
  <2> QED  BY <1>1, <2>1, <2>2, <2>3 DEF EndOK
<1> QED  BY <1>2, <1>3 DEF HeartbeatInv

LEMMA InvariantHolds ==
    ASSUME HeartbeatAssumption, ShortRoundTrip
    PROVE  HeartbeatSpec => []HeartbeatInv
<1>1. HeartbeatInit => HeartbeatInv  BY Initially
<1>2. HeartbeatInv /\ [HeartbeatNext]_heartbeatVars => HeartbeatInv'
  <2>1. SUFFICES ASSUME HeartbeatInv, [HeartbeatNext]_heartbeatVars PROVE HeartbeatInv'
    OBVIOUS
  <2>2. ASSUME NEW e \in Ends, Tick(e) PROVE HeartbeatInv'  BY <2>1, <2>2, TickKeeps
  <2>3. ASSUME NEW e \in Ends, Start(e) PROVE HeartbeatInv'  BY <2>1, <2>3, StartKeeps
  <2>4. ASSUME NEW e \in Ends, Answer(e) PROVE HeartbeatInv'  BY <2>1, <2>4, AnswerKeeps
  <2>5. ASSUME NEW e \in Ends, OnPong(e) PROVE HeartbeatInv'  BY <2>1, <2>5, OnPongKeeps
  <2>6. ASSUME NEW e \in Ends, Leave(e) \/ HearClose(e) \/ FallSilent(e) PROVE HeartbeatInv'
    BY <2>1, <2>6, LeaveKeeps
  <2>7. ASSUME NEW e \in Ends, Detach(e) PROVE HeartbeatInv'  BY <2>1, <2>7, DetachKeeps
  <2>8. CASE Advance  BY <2>1, <2>8, AdvanceKeeps
  <2>9. CASE UNCHANGED heartbeatVars  BY <2>1, <2>9, StutterKeeps
  <2> QED  BY <2>1, <2>2, <2>3, <2>4, <2>5, <2>6, <2>7, <2>8, <2>9 DEF HeartbeatNext
<1> QED  BY <1>1, <1>2, PTL DEF HeartbeatSpec

\* Both ends, their timers and what is on the wire keep their types; in particular
\* no message is older than MaxDelay and no count goes beyond MaxMissed.
THEOREM HeartbeatTyped ==
    ASSUME ShortRoundTrip
    PROVE  HeartbeatSpec => []HeartbeatTypeOK
<1>1. HeartbeatInv => HeartbeatTypeOK  BY DEF HeartbeatInv
<1>2. HeartbeatSpec => []HeartbeatInv  BY HeartbeatAssumption, InvariantHolds
<1> QED  BY <1>1, <1>2, PTL

\* Two ends that answer within an interval never declare each other dead: for
\* any interval, any number of misses and any delay below half an interval.
THEOREM NobodyIsBuriedAlive ==
    ASSUME ShortRoundTrip
    PROVE  HeartbeatSpec => []NoFalseDeath
<1>1. HeartbeatInv => NoFalseDeath  BY DEF HeartbeatInv, EndOK, NoFalseDeath
<1>2. HeartbeatSpec => []HeartbeatInv  BY HeartbeatAssumption, InvariantHolds
<1> QED  BY <1>1, <1>2, PTL

\* An end that is gone has been silent for less than MaxMissed + 1 intervals, or
\* for exactly as long and the timer that buries it is due.
THEOREM TheGoneAreNoticed ==
    ASSUME ShortRoundTrip
    PROVE  HeartbeatSpec => []DetectedInTime
<1>1. ASSUME HeartbeatInv, NEW e \in Ends, started[e], ~gone[e], timer[e] # 0
      PROVE  silentFor[Other(e)] < Horizon
  <2>0. /\ Interval \in Nat /\ Interval > 0 /\ MaxMissed \in Nat /\ MaxMissed > 0
        /\ Other(e) \in Ends /\ EndOK(e) /\ HeartbeatTypeOK
    BY <1>1, HeartbeatAssumption, OtherEnd DEF HeartbeatAssumption, HeartbeatInv
  <2>1. Running(e) /\ missed[e] < MaxMissed  BY <1>1, <2>0 DEF EndOK, TimersRun
  <2>2. missed[e] \in Nat /\ Since(e) \in Nat /\ Since(e) < Interval
    <3>1. missed[e] \in 0..MaxMissed /\ timer[e] \in NoTimer..Interval
      BY <1>1, <2>0, TypeFacts
    <3> QED  BY <1>1, <2>0, <2>1, <3>1 DEF Running, Since, NoTimer
  <2>3. (missed[e] + 1) * Interval <= MaxMissed * Interval
    <3>1. PICK k \in Nat : MaxMissed = missed[e] + 1 + k
      <4>1. MaxMissed - (missed[e] + 1) \in Nat  BY <2>0, <2>1, <2>2
      <4> QED  BY <2>0, <2>2, <4>1
    <3>2. MaxMissed * Interval = (missed[e] + 1) * Interval + k * Interval  BY <2>0, <2>2, <3>1
    <3>3. k * Interval \in Nat /\ (missed[e] + 1) * Interval \in Nat  BY <2>0, <2>2
    <3> QED  BY <3>2, <3>3
  <2>4. Horizon = MaxMissed * Interval + Interval /\ MaxMissed * Interval \in Nat
    BY <2>0 DEF Horizon
  <2>5. silentFor[Other(e)] \in 0..Horizon  BY <2>0, TypeFacts
  <2>6. silentFor[Other(e)] <= Since(e) \/ silentFor[Other(e)] <= Since(e) + (missed[e] + 1) * Interval
    BY <2>0, <2>1 DEF EndOK, MissesCount
  <2>7. (missed[e] + 1) * Interval \in Nat  BY <2>0, <2>2
  <2> QED  BY <2>0, <2>2, <2>3, <2>4, <2>5, <2>6, <2>7
<1>2. HeartbeatInv => DetectedInTime  BY <1>1 DEF DetectedInTime
<1>3. HeartbeatSpec => []HeartbeatInv  BY HeartbeatAssumption, InvariantHolds
<1> QED  BY <1>2, <1>3, PTL
=============================================================================
