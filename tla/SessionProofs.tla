--------------------------- MODULE SessionProofs ---------------------------
(***************************************************************************)
(* Proofs about Session, for every set of users, every cast to begin with  *)
(* and every bound.                                                        *)
(***************************************************************************)
EXTENDS Session, TLAPS

\* The record of a session has all its fields.
Fields == {"phase", "task", "as", "tries", "dial", "link", "key", "epoch", "minEpoch",
           "transferring", "leaving", "ready", "closing", "roster", "greeting", "spoiled"}
IsSession(c) == DOMAIN c = Fields

\* A queue is a sequence of something.
IsQueue(q) == q \in Seq(ToSet(q))
Mail(queues) == DOMAIN queues = Sockets /\ \A s \in Sockets : IsQueue(queues[s])
Letters(letters) == \A s \in DOMAIN letters : IsQueue(letters[s])

Rings(q) == \E f \in ToSet(q) : f.t = "ready"
Closed(q) == Close \in ToSet(q)

\* What a session says of itself: its link is a socket of its own, and a host is not under way.
OwnLink(u, c) == c.link = Nobody \/ (c.link \in Sockets /\ Owner(c.link) = u /\ c.link[2] <= c.dial)

WellKept(u, c) ==
    /\ IsSession(c) /\ c.dial \in 0..MaxDials /\ c.as \in {"peer", "host"} /\ OwnLink(u, c)
    /\ c.phase = "hosting" => c.as = "host" /\ c.task = "none"

Sessions == DOMAIN ses = Users /\ \A u \in Users : WellKept(u, ses[u])

Network ==
    /\ alive \subseteq Sockets
    /\ Mail(down)
    /\ DOMAIN room = {"host", "peers", "handoff"} /\ IsQueue(room.peers)
    /\ hellos \subseteq Sockets \X {"peer", "host"}

\* A socket that was never dialled says nothing and hears nothing.
Dialled(s) == s[2] <= ses[Owner(s)].dial
Undialled ==
    /\ \A h \in hellos : Dialled(h[1])
    /\ \A s \in Sockets : Rings(down[s]) => Dialled(s)

\* The session waits for its socket s to open, as a host.
Awaits(s) == ses[Owner(s)].task = "open" /\ s = Current(Owner(s))
HellosMeant == \A h \in hellos : Awaits(h[1]) => h[2] = ses[Owner(h[1])].as

\* The room is the host's whose socket this is, and stays.
Holds(s) == room.host = s /\ room.handoff = "no"
Stands(s) == s \in alive /\ ~Closed(down[s])

ReadyMeant ==
    \A s \in Sockets : (Awaits(s) /\ ses[Owner(s)].as = "host" /\ Stands(s) /\ Rings(down[s])) => Holds(s)

HostsHold == \A u \in Users : (ses[u].phase = "hosting" /\ Stands(ses[u].link)) => Holds(ses[u].link)

HostInv == Sessions /\ Network /\ Undialled /\ HellosMeant /\ ReadyMeant /\ HostsHold

(***************************************************************************)
(* Queues.                                                                 *)
(***************************************************************************)

\* A sequence of anything is a queue.
LEMMA Sequence ==
    ASSUME NEW S, NEW q \in Seq(S)
    PROVE  IsQueue(q)
<1>1. \A i \in DOMAIN q : q[i] \in ToSet(q)
  BY DEF ToSet
<1> QED
  BY <1>1 DEF IsQueue

\* One frame is a queue, and none is.
LEMMA OneFrame ==
    ASSUME NEW f
    PROVE  IsQueue(<<f>>) /\ ToSet(<<f>>) = {f} /\ IsQueue(<<>>) /\ ToSet(<<>>) = {}
  BY DEF IsQueue, ToSet

\* What is written after a queue makes a longer one.
LEMMA Joined ==
    ASSUME NEW p, NEW q, IsQueue(p), IsQueue(q)
    PROVE  IsQueue(p \o q) /\ ToSet(p \o q) = ToSet(p) \cup ToSet(q)
<1> DEFINE S == ToSet(p) \cup ToSet(q)
           r == p \o q
<1>1. p \in Seq(S) /\ q \in Seq(S)
  BY DEF IsQueue, ToSet
<1>2. r \in Seq(S) /\ Len(r) = Len(p) + Len(q)
  BY <1>1
<1>3. \A i \in 1..Len(p) : r[i] = p[i]
  BY <1>1
<1>4. \A i \in 1..Len(q) : r[i + Len(p)] = q[i]
  BY <1>1
<1>5. /\ DOMAIN p = 1..Len(p) /\ DOMAIN q = 1..Len(q) /\ DOMAIN r = 1..(Len(p) + Len(q))
      /\ Len(p) \in Nat /\ Len(q) \in Nat
  BY <1>1, <1>2
<1>6. IsQueue(r)
  BY <1>2, Sequence
<1> HIDE DEF r, S
<1>7. ToSet(r) = ToSet(p) \cup ToSet(q)
  <2>1. ASSUME NEW i \in DOMAIN r PROVE r[i] \in ToSet(p) \cup ToSet(q)
    <3>1. CASE i \in DOMAIN p
      BY <3>1, <1>3, <1>5 DEF ToSet
    <3>2. CASE i \notin DOMAIN p
      <4>1. i - Len(p) \in 1..Len(q) /\ i = (i - Len(p)) + Len(p)
        BY <3>2, <1>5
      <4>2. r[i] = q[i - Len(p)]
        BY <4>1, <1>4
      <4> QED
        BY <4>1, <4>2, <1>5 DEF ToSet
    <3> QED
      BY <3>1, <3>2
  <2>2. ASSUME NEW i \in DOMAIN p PROVE p[i] \in ToSet(r)
    <3>1. i \in DOMAIN r /\ r[i] = p[i]
      BY <1>3, <1>5
    <3> QED
      BY <3>1 DEF ToSet
  <2>3. ASSUME NEW i \in DOMAIN q PROVE q[i] \in ToSet(r)
    <3>1. i + Len(p) \in DOMAIN r /\ r[i + Len(p)] = q[i]
      BY <1>4, <1>5
    <3> QED
      BY <3>1 DEF ToSet
  <2> QED
    BY <2>1, <2>2, <2>3 DEF ToSet
<1> QED
  BY <1>6, <1>7 DEF r

\* Reading a queue.
LEMMA Read ==
    ASSUME NEW q, IsQueue(q), q # <<>>
    PROVE  /\ IsQueue(Tail(q))
           /\ ToSet(q) = {Head(q)} \cup ToSet(Tail(q))
<1> DEFINE S == ToSet(q)
           r == Tail(q)
<1>1. q \in Seq(S)
  BY DEF IsQueue
<1>2. Len(q) \in Nat /\ Len(q) > 0 /\ DOMAIN q = 1..Len(q)
  BY <1>1
<1>3. r \in Seq(S) /\ Len(r) = Len(q) - 1
  BY <1>1, <1>2
<1>4. DOMAIN r = 1..(Len(q) - 1) /\ \A i \in 1..(Len(q) - 1) : r[i] = q[i + 1]
  BY <1>1, <1>2, <1>3
<1>5. Head(q) = q[1]
  BY <1>1, <1>2
<1>6. IsQueue(r)
  BY <1>3, Sequence
<1> HIDE DEF S, r
<1>7. \A i \in 1..Len(q) : i = 1 \/ i - 1 \in 1..(Len(q) - 1)
  BY <1>2
<1>8. ToSet(q) = {Head(q)} \cup ToSet(r)
  <2>1. ASSUME NEW i \in DOMAIN q PROVE q[i] = Head(q) \/ q[i] \in ToSet(r)
    <3>1. CASE i = 1
      BY <3>1, <1>5
    <3>2. CASE i # 1
      <4>1. i - 1 \in DOMAIN r /\ r[i - 1] = q[i]
        BY <3>2, <1>2, <1>4, <1>7
      <4> QED
        BY <4>1 DEF ToSet
    <3> QED
      BY <3>1, <3>2
  <2>2. ASSUME NEW i \in DOMAIN r PROVE r[i] \in ToSet(q)
    <3>1. i + 1 \in DOMAIN q /\ r[i] = q[i + 1]
      BY <1>2, <1>4
    <3> QED
      BY <3>1 DEF ToSet
  <2>3. Head(q) \in ToSet(q)
    BY <1>2, <1>5 DEF ToSet
  <2> QED
    BY <2>1, <2>2, <2>3 DEF ToSet
<1> QED
  BY <1>6, <1>8 DEF r

\* Deleting an entry leaves a sequence of what was there.
LEMMA Deletes ==
    ASSUME NEW q, NEW e, IsQueue(q)
    PROVE  IsQueue(Deleted(q, e)) /\ ToSet(Deleted(q, e)) \subseteq ToSet(q)
<1>1. CASE e \notin ToSet(q)
  BY <1>1 DEF Deleted
<1>2. CASE e \in ToSet(q)
  <2> DEFINE i == CHOOSE j \in DOMAIN q : q[j] = e
             r == SubSeq(q, 1, i - 1) \o SubSeq(q, i + 1, Len(q))
  <2>1. i \in DOMAIN q
    BY <1>2 DEF ToSet
  <2>2. i \in 1..Len(q) /\ Len(q) \in Nat
    BY <2>1 DEF IsQueue
  <2> HIDE DEF i
  <2>3. SubSeq(q, 1, i - 1) \in Seq(ToSet(q)) /\ SubSeq(q, i + 1, Len(q)) \in Seq(ToSet(q))
    BY <2>2 DEF IsQueue
  <2>4. r \in Seq(ToSet(q))
    BY <2>3
  <2>5. Deleted(q, e) = r
    BY <1>2 DEF Deleted, RemoveAt, i
  <2> HIDE DEF r
  <2>6. ToSet(r) \subseteq ToSet(q)
    BY <2>4 DEF ToSet
  <2> QED
    BY <2>4, <2>5, <2>6, Sequence
<1> QED
  BY <1>1, <1>2

\* A newcomer at the end makes a sequence.
LEMMA Appends ==
    ASSUME NEW q, NEW e, IsQueue(q)
    PROVE  IsQueue(Append(q, e))
<1>1. Append(q, e) \in Seq(ToSet(q) \cup {e})
  BY DEF IsQueue
<1> QED
  BY <1>1, Sequence

(***************************************************************************)
(* Writing and reading.                                                    *)
(***************************************************************************)

\* What is written comes after what was there, at open sockets only.
LEMMA Writes ==
    ASSUME NEW queues, NEW open, NEW letters, Mail(queues), Letters(letters)
    PROVE  LET w == Written(queues, open, letters) IN
           /\ Mail(w)
           /\ \A s \in Sockets :
                 ToSet(w[s]) = IF s \in open /\ s \in DOMAIN letters
                               THEN ToSet(queues[s]) \cup ToSet(letters[s]) ELSE ToSet(queues[s])
<1> DEFINE w == Written(queues, open, letters)
<1>1. /\ DOMAIN w = Sockets
      /\ \A s \in Sockets : w[s] = IF s \in open /\ s \in DOMAIN letters
                                   THEN queues[s] \o letters[s] ELSE queues[s]
  BY DEF Written, Mail
<1> HIDE DEF w
<1>2. ASSUME NEW s \in Sockets, s \in open, s \in DOMAIN letters
      PROVE  IsQueue(w[s]) /\ ToSet(w[s]) = ToSet(queues[s]) \cup ToSet(letters[s])
  BY <1>1, <1>2, Joined DEF Mail, Letters
<1> QED
  BY <1>1, <1>2 DEF Mail, w

\* Reading a socket takes one frame from its queue.
LEMMA Reads ==
    ASSUME Mail(down), NEW s \in Sockets, down[s] # <<>>
    PROVE  /\ Mail(Rest(s))
           /\ \A r \in Sockets : ToSet(Rest(s)[r]) \subseteq ToSet(down[r])
           /\ \A r \in Sockets \ {s} : Rest(s)[r] = down[r]
           /\ ToSet(down[s]) = {Head(down[s])} \cup ToSet(Rest(s)[s])
  BY Read DEF Mail, Rest

\* Letters for one socket, or for several.
LEMMA Single ==
    ASSUME NEW s, NEW f
    PROVE  DOMAIN To(s, f) = {s} /\ To(s, f)[s] = <<f>> /\ Letters(To(s, f)) /\ DOMAIN None = {} /\ Letters(None)
  BY OneFrame DEF To, None, Letters

(***************************************************************************)
(* What keeps the invariant, whichever action it is.                       *)
(***************************************************************************)

\* Sockets have an owner and a number, and Nobody is none of them.
LEMMA SocketsAre ==
    /\ \A s \in Sockets : Owner(s) \in Users /\ s[2] \in 1..MaxDials /\ s = <<Owner(s), s[2]>>
    /\ Nobody \notin Sockets
    /\ \A u \in Users, k \in 1..MaxDials : <<u, k>> \in Sockets /\ Owner(<<u, k>>) = u /\ <<u, k>>[2] = k
    /\ MaxDials \in Nat
  BY SessionAssumption DEF Sockets, Owner, Nobody, SessionAssumption

\* Nobody begins to wait or to host unless it may, READY is written to who asked for it
\* and has the room, and a room is lost only by who no longer counts on it.
LEMMA Kept ==
    ASSUME HostInv, Sessions', Network',
           \A v \in Users : ses'[v].dial >= ses[v].dial,
           \A v \in Users : ses'[v].task = "open" =>
              \/ ses'[v].dial > ses[v].dial
              \/ ses[v].task = "open" /\ ses'[v].as = ses[v].as,
           \A v \in Users : (ses'[v].phase = "hosting" /\ Stands(ses[v].link)') =>
              \/ ses[v].phase = "hosting" /\ ses'[v].link = ses[v].link
              \/ Holds(ses[v].link)',
           \A h \in hellos' : \/ h \in hellos
                              \/ Dialled(h[1])' /\ (Awaits(h[1])' => h[2] = ses'[Owner(h[1])].as),
           \A s \in Sockets : Rings(down'[s]) =>
              \/ Rings(down[s])
              \/ Dialled(s)' /\ ((Awaits(s)' /\ ses'[Owner(s)].as = "host") => Holds(s)'),
           \A s \in Sockets : Stands(s)' => Stands(s) \/ ~Dialled(s),
           \A s \in Sockets : (Stands(s)' /\ Holds(s)) =>
              Holds(s)' \/ (ses'[Owner(s)].phase # "hosting" /\ ses'[Owner(s)].task # "open")
    PROVE  HostInv'
<1> USE SocketsAre
<1>1. \A v \in Users : ses[v].dial \in Nat /\ ses'[v].dial \in Nat
  BY DEF HostInv, Sessions, WellKept
<1>2. \A s \in Sockets : Dialled(s) => Dialled(s)'
  BY <1>1 DEF Dialled
<1>3. \A s \in Sockets : (Dialled(s) /\ s = Current(Owner(s))') => ses'[Owner(s)].dial = ses[Owner(s)].dial
  BY <1>1 DEF Dialled, Current
<1>4. \A s \in Sockets : (Dialled(s) /\ Awaits(s)') => Awaits(s) /\ ses'[Owner(s)].as = ses[Owner(s)].as
  BY <1>1, <1>3 DEF Awaits, Current
<1>5. Undialled'
  BY <1>2 DEF HostInv, Undialled, Network
<1>6. HellosMeant'
  BY <1>4 DEF HostInv, HellosMeant, Undialled, Network
<1>7. ReadyMeant'
  <2> SUFFICES ASSUME NEW s \in Sockets, Awaits(s)', ses'[Owner(s)].as = "host", Stands(s)', Rings(down'[s])
               PROVE  Holds(s)'
    BY DEF ReadyMeant
  <2>1. CASE Rings(down[s])
    <3>1. Dialled(s)
      BY <2>1 DEF HostInv, Undialled
    <3>2. Awaits(s) /\ ses[Owner(s)].as = "host" /\ Stands(s)
      BY <3>1, <1>4
    <3>3. Holds(s)
      BY <3>2, <2>1 DEF HostInv, ReadyMeant
    <3>4. ses'[Owner(s)].task = "open"
      BY DEF Awaits
    <3> QED
      BY <3>3, <3>4
  <2> QED
    BY <2>1
<1>8. HostsHold'
  <2> SUFFICES ASSUME NEW v \in Users, (ses[v].phase = "hosting")', Stands(ses[v].link)'
               PROVE  Holds(ses[v].link)'
    BY DEF HostsHold
  <2>1. PICK s : s = ses'[v].link
    OBVIOUS
  <2>2. s \in Sockets /\ Stands(s)'
    BY <2>1 DEF Stands, Network
  <2>3. Owner(s) = v
    BY <2>1, <2>2 DEF Sessions, WellKept, OwnLink
  <2>4. CASE ses[v].phase = "hosting" /\ s = ses[v].link
    <3>1. Dialled(s)
      BY <2>2, <2>3, <2>4 DEF HostInv, Sessions, WellKept, OwnLink, Dialled
    <3>2. Stands(s)
      BY <3>1, <2>2
    <3>3. Holds(s)
      BY <3>2, <2>4 DEF HostInv, HostsHold
    <3>4. Holds(s)'
      BY <3>3, <2>2, <2>3
    <3> QED
      BY <3>4, <2>1 DEF Holds
  <2> QED
    BY <2>1, <2>4
<1> QED
  BY <1>5, <1>6, <1>7, <1>8 DEF HostInv

(***************************************************************************)
(* The operators the actions are built from.                               *)
(***************************************************************************)

\* Letters without a READY, and queues of which something was read.
Calm(letters) == Letters(letters) /\ \A s \in DOMAIN letters : ~Rings(letters[s])

Heard(queues, shut) ==
    /\ Mail(queues)
    /\ \A s \in Sockets : ToSet(queues[s]) \subseteq ToSet(down[s])
    /\ \A s \in Sockets \ {shut} : Closed(down[s]) => Closed(queues[s])

\* What the relay and the actors say to one socket is a letter.
LEMMA OneLetter ==
    ASSUME NEW s, NEW f, f.t # "ready"
    PROVE  Calm(To(s, f))
<1>1. DOMAIN To(s, f) = {s} /\ To(s, f)[s] = <<f>> /\ Letters(To(s, f))
  BY Single
<1>2. ToSet(<<f>>) = {f}
  BY OneFrame
<1>3. ~Rings(<<f>>)
  BY <1>2 DEF Rings
<1> QED
  BY <1>1, <1>3 DEF Calm

LEMMA NoLetter == Calm(None)
  BY Single DEF Calm

LEMMA Frames ==
    /\ \A t, from, key, epoch, heir : Frame(t, from, key, epoch, heir).t = t
    /\ \A t : Say(t).t = t
    /\ \A t, s : Of(t, s).t = t
    /\ Close.t = "close"
  BY DEF Frame, Say, Of, Close

LEMMA ToHostCalm ==
    ASSUME NEW s, NEW m, NEW key, m # "ready"
    PROVE  Calm(ToHost(s, m, key))
  BY OneLetter, NoLetter, Frames DEF ToHost

LEMMA ToPeerCalm ==
    ASSUME NEW s, NEW m, NEW h, NEW epoch, m # "ready"
    PROVE  Calm(ToPeer(s, m, h, epoch))
  BY OneLetter, NoLetter, Frames DEF ToPeer

\* What the relay says when a socket closes, or a room ends.
LEMMA Goodbyes == Calm([p \in Peers |-> <<Close>>])
  BY OneFrame, Frames DEF Calm, Letters, Rings

LEMMA ToldCalm ==
    ASSUME NEW s
    PROVE  Calm(Told(s))
  BY Goodbyes, OneLetter, NoLetter, Frames DEF Told

\* When a socket closes, the room of any other host stays as it is.
LEMMA RoomWithout ==
    ASSUME Network, NEW s
    PROVE  /\ DOMAIN Without(s) = {"host", "peers", "handoff"} /\ IsQueue(Without(s).peers)
           /\ \A r : (r # s /\ Holds(r)) => Without(s).host = r /\ Without(s).handoff = "no"
  BY OneFrame, Deletes DEF Without, NoRoom, Network, Holds

\* Calm letters ring nobody, and leave what is closed closed.
LEMMA CalmWrites ==
    ASSUME NEW queues, NEW open, NEW letters, Mail(queues), Calm(letters)
    PROVE  LET w == Written(queues, open, letters) IN
           /\ Mail(w)
           /\ \A s \in Sockets : Rings(w[s]) => Rings(queues[s])
           /\ \A s \in Sockets : Closed(queues[s]) => Closed(w[s])
<1> DEFINE w == Written(queues, open, letters)
<1>1. /\ Mail(w)
      /\ \A s \in Sockets :
            ToSet(w[s]) = IF s \in open /\ s \in DOMAIN letters
                          THEN ToSet(queues[s]) \cup ToSet(letters[s]) ELSE ToSet(queues[s])
  BY Writes DEF Calm
<1> HIDE DEF w
<1>2. \A s \in Sockets : Rings(w[s]) => Rings(queues[s])
  BY <1>1 DEF Rings, Calm
<1>3. \A s \in Sockets : Closed(queues[s]) => Closed(w[s])
  BY <1>1 DEF Closed
<1> QED
  BY <1>1, <1>2, <1>3 DEF w

\* A session that goes on keeps the invariant, unless it begins to wait or to host.
LEMMA GoesKeeps ==
    ASSUME HostInv, NEW u \in Users, NEW c, NEW queues, NEW letters, NEW shut,
           Goes(u, c, queues, letters, shut), UNCHANGED hellos,
           WellKept(u, c), c.dial = ses[u].dial,
           c.task = "open" => ses[u].task = "open" /\ c.as = ses[u].as,
           c.phase = "hosting" =>
              \/ ses[u].phase = "hosting" /\ c.link = ses[u].link
              \/ Closed(queues[c.link]) \/ Holds(c.link),
           Heard(queues, shut), Calm(letters)
    PROVE  HostInv'
<1> DEFINE w == Written(queues, alive, letters)
           v == [w EXCEPT ![shut] = <<>>]
           x == Written(v, alive \ {shut}, Told(shut))
<1>1. DOMAIN ses' = Users /\ ses'[u] = c /\ \A o \in Users \ {u} : ses'[o] = ses[o]
  BY DEF Goes, HostInv, Sessions
<1>2. Sessions'
  BY <1>1 DEF HostInv, Sessions
<1>3. /\ Mail(w)
      /\ \A s \in Sockets : Rings(w[s]) => Rings(down[s])
      /\ \A s \in Sockets : Closed(queues[s]) => Closed(w[s])
  <2>1. Mail(queues) /\ \A s \in Sockets : Rings(queues[s]) => Rings(down[s])
    BY DEF Heard, Rings
  <2> QED
    BY <2>1, CalmWrites
<1> HIDE DEF w
<1>4. /\ Mail(down')
      /\ \A s \in Sockets : Rings(down'[s]) => Rings(down[s])
      /\ \A s \in Sockets \ {shut} : Closed(queues[s]) => Closed(down'[s])
  <2>1. CASE shut \in alive
    <3>1. DOMAIN v = DOMAIN w /\ \A s \in DOMAIN w : v[s] = IF s = shut THEN <<>> ELSE w[s]
      OBVIOUS
    <3> HIDE DEF v
    <3>2. Mail(v) /\ \A s \in Sockets : Rings(v[s]) => Rings(w[s])
      BY <3>1, <1>3, OneFrame DEF Mail, Rings
    <3>3. /\ Mail(x)
          /\ \A s \in Sockets : Rings(x[s]) => Rings(v[s])
          /\ \A s \in Sockets : Closed(v[s]) => Closed(x[s])
      BY <3>2, CalmWrites, ToldCalm
    <3>4. down' = x
      BY <2>1 DEF Goes, v, w
    <3> HIDE DEF x
    <3> QED
      BY <3>1, <3>2, <3>3, <3>4, <1>3 DEF Mail
  <2>2. CASE shut \notin alive
    BY <2>2, <1>3 DEF Goes, w
  <2> QED
    BY <2>1, <2>2
<1>5. alive' = alive \ {shut}
  BY DEF Goes
<1>6. /\ DOMAIN room' = {"host", "peers", "handoff"} /\ IsQueue(room'.peers)
      /\ \A s : (s # shut /\ Holds(s)) => Holds(s)'
  <2>1. Network
    BY DEF HostInv
  <2>2. CASE shut \in alive
    BY <2>1, <2>2, RoomWithout DEF Goes, Holds
  <2>3. CASE shut \notin alive
    BY <2>1, <2>3 DEF Goes, Network, Holds
  <2> QED
    BY <2>2, <2>3
<1>7. Network'
  BY <1>4, <1>5, <1>6 DEF HostInv, Network
<1>8. \A s \in Sockets : Stands(s)' => s # shut /\ Stands(s) /\ ~Closed(queues[s])
  BY <1>4, <1>5 DEF Stands, Heard
<1>9. \A o \in Users : ses[o].dial \in Nat /\ ses'[o].dial = ses[o].dial
  BY <1>1 DEF HostInv, Sessions, WellKept
<1>10. \A o \in Users : (ses'[o].phase = "hosting" /\ Stands(ses[o].link)') =>
          \/ ses[o].phase = "hosting" /\ ses'[o].link = ses[o].link
          \/ Holds(ses[o].link)'
  <2> SUFFICES ASSUME NEW o \in Users, o = u, ses'[o].phase = "hosting", Stands(ses[o].link)',
                      ~(ses[o].phase = "hosting" /\ ses'[o].link = ses[o].link)
               PROVE  Holds(ses[o].link)'
    BY <1>1
  <2>1. Stands(c.link)'
    BY <1>1 DEF Stands
  <2>2. c.link \in Sockets /\ c.link # shut /\ ~Closed(queues[c.link])
    BY <2>1, <1>7, <1>8 DEF Network, Stands
  <2>3. Holds(c.link)
    BY <2>2, <1>1
  <2>4. Holds(c.link)'
    BY <2>2, <2>3, <1>6
  <2> QED
    BY <2>4, <1>1 DEF Holds
<1>11. \A s \in Sockets : (Stands(s)' /\ Holds(s)) => Holds(s)'
  BY <1>6, <1>8
<1>12. \A o \in Users : ses'[o].task = "open" => ses[o].task = "open" /\ ses'[o].as = ses[o].as
  BY <1>1
<1> QED
  BY <1>2, <1>4, <1>7, <1>8, <1>9, <1>10, <1>11, <1>12, Kept

\* Nothing read, or a frame read: only who closes a socket misses its close.
LEMMA NothingRead ==
    ASSUME HostInv, NEW shut
    PROVE  Heard(down, shut)
  BY DEF HostInv, Network, Heard

LEMMA FrameRead ==
    ASSUME HostInv, NEW s \in Sockets, NEW shut, down[s] # <<>>, Head(down[s]).t # "close" \/ shut = s
    PROVE  Heard(Rest(s), shut) /\ Head(down[s]) \in ToSet(down[s])
<1>1. /\ Mail(Rest(s))
      /\ \A r \in Sockets : ToSet(Rest(s)[r]) \subseteq ToSet(down[r])
      /\ \A r \in Sockets \ {s} : Rest(s)[r] = down[r]
      /\ ToSet(down[s]) = {Head(down[s])} \cup ToSet(Rest(s)[s])
  BY Reads DEF HostInv, Network
<1>2. \A r \in Sockets \ {shut} : Closed(down[r]) => Closed(Rest(s)[r])
  BY <1>1, Frames DEF Closed
<1> QED
  BY <1>1, <1>2 DEF Heard

\* A host that throws a peer out keeps the invariant.
LEMMA KicksKeeps ==
    ASSUME HostInv, NEW u \in Users, NEW queues, NEW s, Kicks(u, ses[u], queues, s), UNCHANGED hellos,
           Heard(queues, Nobody)
    PROVE  HostInv'
<1> DEFINE letters == IF s \in Peers THEN To(s, Close) ELSE None
<1>1. /\ DOMAIN ses' = Users /\ \A o \in Users \ {u} : ses'[o] = ses[o]
      /\ WellKept(u, ses'[u]) /\ ses'[u].dial = ses[u].dial /\ ses'[u].task = ses[u].task
      /\ ses'[u].as = ses[u].as /\ ses'[u].phase = ses[u].phase /\ ses'[u].link = ses[u].link
  BY DEF Kicks, HostInv, Sessions, WellKept, IsSession, Fields, OwnLink
<1>2. Sessions'
  BY <1>1 DEF HostInv, Sessions
<1>3. Calm(letters)
  BY OneLetter, NoLetter, Frames
<1>4. down' = Written(queues, alive, letters)
  BY DEF Kicks
<1>5. /\ Mail(down')
      /\ \A r \in Sockets : Rings(down'[r]) => Rings(queues[r])
      /\ \A r \in Sockets : Closed(queues[r]) => Closed(down'[r])
  <2> HIDE DEF letters
  <2> QED
    BY <1>3, <1>4, CalmWrites DEF Heard
<1>6. /\ \A r \in Sockets : Rings(down'[r]) => Rings(down[r])
      /\ \A r \in Sockets : Closed(down[r]) => Closed(down'[r])
  BY <1>5, SocketsAre DEF Heard, Rings
<1>7. DOMAIN room' = {"host", "peers", "handoff"} /\ IsQueue(room'.peers)
  BY Deletes DEF Kicks, HostInv, Network
<1>8. \A r : Holds(r) => Holds(r)'
  BY DEF Kicks, HostInv, Network, Holds
<1>9. Network' /\ alive' = alive
  BY <1>5, <1>7 DEF Kicks, HostInv, Network
<1>10. \A r \in Sockets : Stands(r)' => Stands(r)
  BY <1>6, <1>9 DEF Stands
<1>11. \A o \in Users : ses[o].dial \in Nat
  BY DEF HostInv, Sessions, WellKept
<1>12. \A o \in Users : /\ ses'[o].dial = ses[o].dial /\ ses'[o].task = ses[o].task /\ ses'[o].as = ses[o].as
                        /\ ses'[o].phase = ses[o].phase /\ ses'[o].link = ses[o].link
  BY <1>1
<1> QED
  BY <1>2, <1>6, <1>8, <1>9, <1>10, <1>11, <1>12, Kept

\* A session that opens a new socket keeps the invariant: nothing was said to it before.
LEMMA DialsKeeps ==
    ASSUME HostInv, NEW u \in Users, NEW c, NEW queues, NEW shut, Dials(u, c, queues, shut),
           WellKept(u, c), c.dial = ses[u].dial, c.phase # "hosting",
           shut \in alive => Owner(shut) = u /\ Dialled(shut),
           Heard(queues, shut)
    PROVE  HostInv'
<1> USE SocketsAre
<1> DEFINE n == c.dial + 1
           new == <<u, n>>
           base == [queues EXCEPT ![shut] = <<>>]
<1>1. c.dial \in 0..MaxDials /\ n \in 1..MaxDials /\ c.as \in {"peer", "host"}
  BY DEF Dials, WellKept
<1>2. new \in Sockets /\ Owner(new) = u /\ new[2] = n /\ ~Dialled(new)
  BY <1>1 DEF Dialled
<1>3. /\ DOMAIN ses' = Users /\ \A o \in Users \ {u} : ses'[o] = ses[o]
      /\ WellKept(u, ses'[u]) /\ ses'[u].dial = n /\ ses'[u].task = "open"
      /\ ses'[u].as = c.as /\ ses'[u].phase # "hosting"
  BY <1>1 DEF Dials, HostInv, Sessions, WellKept, IsSession, Fields, OwnLink
<1>4. Sessions'
  BY <1>3 DEF HostInv, Sessions
<1>5. /\ Mail(down')
      /\ \A r \in Sockets : Rings(down'[r]) => Rings(down[r])
      /\ \A r \in Sockets \ {shut} : Closed(down[r]) => Closed(down'[r])
  <2>1. CASE shut \in alive
    <3>1. DOMAIN base = DOMAIN queues /\ \A r \in DOMAIN queues : base[r] = IF r = shut THEN <<>> ELSE queues[r]
      OBVIOUS
    <3> HIDE DEF base
    <3>2. Mail(base) /\ \A r \in Sockets : Rings(base[r]) => Rings(down[r])
      BY <3>1, OneFrame DEF Mail, Rings, Heard
    <3>3. down' = Written(base, alive \ {shut}, Told(shut))
      BY <2>1 DEF Dials, base
    <3>4. /\ Mail(down')
          /\ \A r \in Sockets : Rings(down'[r]) => Rings(base[r])
          /\ \A r \in Sockets : Closed(base[r]) => Closed(down'[r])
      BY <3>2, <3>3, CalmWrites, ToldCalm
    <3> QED
      BY <3>1, <3>2, <3>4 DEF Heard, Mail
  <2>2. CASE shut \notin alive
    <3>1. down' = Written(queues, alive \ {shut}, None)
      BY <2>2 DEF Dials
    <3>2. /\ Mail(down')
          /\ \A r \in Sockets : Rings(down'[r]) => Rings(queues[r])
          /\ \A r \in Sockets : Closed(queues[r]) => Closed(down'[r])
      BY <3>1, CalmWrites, NoLetter DEF Heard
    <3> QED
      BY <3>2 DEF Heard, Rings
  <2> QED
    BY <2>1, <2>2
<1>6. alive' = (alive \ {shut}) \cup {new} /\ hellos' = hellos \cup {<<new, c.as>>}
  BY DEF Dials
<1>7. /\ DOMAIN room' = {"host", "peers", "handoff"} /\ IsQueue(room'.peers)
      /\ \A r : (r # shut /\ Holds(r)) => Holds(r)'
      /\ shut \notin alive => room' = room
  <2>1. Network
    BY DEF HostInv
  <2>2. CASE shut \in alive
    BY <2>1, <2>2, RoomWithout DEF Dials, Holds
  <2>3. CASE shut \notin alive
    BY <2>1, <2>3 DEF Dials, Network, Holds
  <2> QED
    BY <2>2, <2>3
<1>8. Network'
  <2>1. hellos' \subseteq Sockets \X {"peer", "host"}
    BY <1>1, <1>2, <1>6 DEF HostInv, Network
  <2>2. alive' \subseteq Sockets
    BY <1>2, <1>6 DEF HostInv, Network
  <2> QED
    BY <2>1, <2>2, <1>5, <1>7 DEF Network
<1>9. \A r \in Sockets : Stands(r)' => Stands(r) \/ ~Dialled(r)
  BY <1>2, <1>5, <1>6 DEF Stands
<1>10. \A r \in Sockets : (Stands(r)' /\ Holds(r)) => Holds(r)'
  <2>1. ASSUME shut \in alive PROVE shut # new
    BY <2>1, <1>2
  <2> QED
    BY <2>1, <1>6, <1>7 DEF Stands, Holds
<1>11. \A o \in Users : ses[o].dial \in Nat
  BY DEF HostInv, Sessions, WellKept
<1>12. \A o \in Users : ses'[o].dial >= ses[o].dial
  BY <1>1, <1>3, <1>11
<1>13. \A o \in Users : ses'[o].task = "open" =>
          ses'[o].dial > ses[o].dial \/ (ses[o].task = "open" /\ ses'[o].as = ses[o].as)
  BY <1>1, <1>3, <1>11
<1>14. \A o \in Users : ses'[o].phase = "hosting" => ses[o].phase = "hosting" /\ ses'[o].link = ses[o].link
  BY <1>3
<1>15. \A h \in hellos' : h \in hellos \/ (Dialled(h[1])' /\ h[2] = ses'[Owner(h[1])].as)
  BY <1>1, <1>2, <1>3, <1>6 DEF Dialled
<1> QED
  BY <1>4, <1>5, <1>8, <1>9, <1>10, <1>12, <1>13, <1>14, <1>15, Kept

(***************************************************************************)
(* The relay's own actions.                                                *)
(***************************************************************************)

\* No session moves: only rooms and letters do.
LEMMA RelayKeeps ==
    ASSUME HostInv, UNCHANGED ses, hellos' \subseteq hellos, alive' = alive, Network',
           \A s \in Sockets : Rings(down'[s]) =>
              \/ Rings(down[s])
              \/ Dialled(s) /\ ((Awaits(s) /\ ses[Owner(s)].as = "host") => Holds(s)'),
           \A s \in Sockets : Closed(down[s]) => Closed(down'[s]),
           \A s \in Sockets : (Stands(s)' /\ Holds(s)) => Holds(s)'
    PROVE  HostInv'
<1>1. Sessions'
  BY DEF HostInv, Sessions
<1>2. \A s \in Sockets : Stands(s)' => Stands(s)
  BY DEF Stands
<1>3. \A o \in Users : ses[o].dial \in Nat
  BY DEF HostInv, Sessions, WellKept
<1>4. \A s : Dialled(s)' = Dialled(s) /\ Awaits(s)' = Awaits(s)
  BY DEF Dialled, Awaits, Current
<1> QED
  BY <1>1, <1>2, <1>3, <1>4, Kept

\* A HELLO is answered with READY only to who has the room then, or is a peer.
LEMMA HelloKeeps ==
    ASSUME HostInv, NEW s, NEW as, RelayHello(s, as)
    PROVE  HostInv'
<1> USE SocketsAre
<1> DEFINE ups == [i \in DOMAIN room.peers |-> Of("peer_up", room.peers[i])]
           claimed == <<Say("ready")>> \o ups
<1>1. s \in Sockets /\ as \in {"peer", "host"} /\ Dialled(s) /\ (Awaits(s) => as = ses[Owner(s)].as)
  BY DEF RelayHello, HostInv, Network, Undialled, HellosMeant
<1>2. hellos' \subseteq hellos /\ alive' = alive /\ UNCHANGED ses
  BY DEF RelayHello
<1>3. Network
  BY DEF HostInv
<1>4. IsQueue(claimed)
  <2>1. room.peers \in Seq(ToSet(room.peers))
    BY <1>3 DEF Network, IsQueue
  <2>2. ups \in Seq({ups[i] : i \in DOMAIN room.peers})
    BY <2>1
  <2> HIDE DEF ups
  <2>3. IsQueue(ups)
    BY <2>2, Sequence
  <2> QED
    BY <2>3, Joined, OneFrame
<1> HIDE DEF claimed
<1>5. ASSUME NEW letters, Letters(letters), down' = Written(down, alive, letters),
             \A r \in DOMAIN letters : r # s => ~Rings(letters[r])
      PROVE  /\ Mail(down')
             /\ \A r \in Sockets : Closed(down[r]) => Closed(down'[r])
             /\ \A r \in Sockets : Rings(down'[r]) => Rings(down[r]) \/ r = s
             /\ ~Rings(down'[s]) \/ Rings(down[s]) \/ (s \in DOMAIN letters /\ Rings(letters[s]))
  <2>1. /\ Mail(down')
        /\ \A r \in Sockets :
              ToSet(down'[r]) = IF r \in alive /\ r \in DOMAIN letters
                                THEN ToSet(down[r]) \cup ToSet(letters[r]) ELSE ToSet(down[r])
    BY <1>3, <1>5, Writes DEF Network
  <2> QED
    BY <2>1, <1>1, <1>5 DEF Closed, Rings
<1>6. CASE as = "host" /\ Claimable /\ UNCHANGED <<ses, alive, odd>>
           /\ room' = [room EXCEPT !.host = s, !.handoff = "no"]
           /\ down' = Written(down, alive,
                         [p \in Peers \cup {s} |-> IF p = s THEN claimed ELSE <<Say("host_claimed")>>])
  <2> DEFINE letters == [p \in Peers \cup {s} |-> IF p = s THEN claimed ELSE <<Say("host_claimed")>>]
  <2>0. IsQueue(<<Say("host_claimed")>>) /\ ~Rings(<<Say("host_claimed")>>)
    BY OneFrame, Frames DEF Rings
  <2>1. Letters(letters) /\ \A r \in DOMAIN letters : r # s => ~Rings(letters[r])
    BY <2>0, <1>4 DEF Letters
  <2> HIDE DEF letters
  <2>2. down' = Written(down, alive, letters)
    BY <1>6 DEF letters
  <2>3. /\ Mail(down')
        /\ \A r \in Sockets : Closed(down[r]) => Closed(down'[r])
        /\ \A r \in Sockets : Rings(down'[r]) => Rings(down[r]) \/ r = s
    BY <2>1, <2>2, <1>5
  <2>4. Network'
    BY <2>3, <1>2, <1>3, <1>6 DEF Network
  <2>5. Holds(s)'
    BY <1>3, <1>6 DEF Holds, Network
  <2>6. \A r : ~Holds(r)
    BY <1>6 DEF Claimable, Holds
  <2> QED
    BY <2>3, <2>4, <2>5, <2>6, <1>1, <1>2, RelayKeeps
<1>7. CASE as = "host" /\ room = NoRoom /\ room' = [NoRoom EXCEPT !.host = s]
           /\ down' = Written(down, alive, To(s, Say("ready")))
  <2>1. Letters(To(s, Say("ready"))) /\ DOMAIN To(s, Say("ready")) = {s}
    BY Single
  <2>2. /\ Mail(down')
        /\ \A r \in Sockets : Closed(down[r]) => Closed(down'[r])
        /\ \A r \in Sockets : Rings(down'[r]) => Rings(down[r]) \/ r = s
    BY <2>1, <1>5, <1>7
  <2>3. DOMAIN room' = {"host", "peers", "handoff"} /\ IsQueue(room'.peers) /\ Holds(s)'
    BY <1>7, OneFrame DEF NoRoom, Holds
  <2>4. Network'
    BY <2>2, <2>3, <1>2, <1>3 DEF Network
  <2>5. \A r \in Sockets : ~Holds(r)
    BY <1>7 DEF NoRoom, Holds
  <2> QED
    BY <2>2, <2>3, <2>4, <2>5, <1>1, <1>2, RelayKeeps
<1>8. ASSUME NEW t, t # "ready", down' = Written(down, alive, To(s, Say(t))), UNCHANGED room
      PROVE  HostInv'
  <2>1. Calm(To(s, Say(t)))
    BY <1>8, OneLetter, Frames
  <2>2. /\ Mail(down')
        /\ \A r \in Sockets : Closed(down[r]) => Closed(down'[r])
        /\ \A r \in Sockets : Rings(down'[r]) => Rings(down[r])
    BY <2>1, <1>3, <1>8, CalmWrites DEF Network
  <2>3. Network'
    BY <2>2, <1>2, <1>3, <1>8 DEF Network
  <2>4. \A r : Holds(r) => Holds(r)'
    BY <1>8 DEF Holds
  <2> QED
    BY <2>2, <2>3, <2>4, <1>2, RelayKeeps
<1>9. CASE as = "peer" /\ room' = [room EXCEPT !.peers = Append(@, s)]
           /\ down' = Written(down, alive, Both(To(s, Say("ready")), To(room.host, Of("peer_up", s))))
  <2> DEFINE letters == Both(To(s, Say("ready")), To(room.host, Of("peer_up", s)))
  <2>1. /\ DOMAIN To(s, Say("ready")) = {s} /\ To(s, Say("ready"))[s] = <<Say("ready")>>
        /\ DOMAIN To(room.host, Of("peer_up", s)) = {room.host}
        /\ To(room.host, Of("peer_up", s))[room.host] = <<Of("peer_up", s)>>
    BY Single
  <2>2. DOMAIN letters = {s, room.host} /\ letters[s] = <<Say("ready")>>
        /\ (room.host # s => letters[room.host] = <<Of("peer_up", s)>>)
    BY <2>1 DEF Both
  <2>3. ~Rings(<<Of("peer_up", s)>>)
    BY OneFrame, Frames DEF Rings
  <2> HIDE DEF letters
  <2>4. Letters(letters) /\ \A r \in DOMAIN letters : r # s => ~Rings(letters[r])
    BY <2>2, <2>3, OneFrame DEF Letters
  <2>5. down' = Written(down, alive, letters)
    BY <1>9 DEF letters
  <2>6. /\ Mail(down')
        /\ \A r \in Sockets : Closed(down[r]) => Closed(down'[r])
        /\ \A r \in Sockets : Rings(down'[r]) => Rings(down[r]) \/ r = s
    BY <2>4, <2>5, <1>5
  <2>7. DOMAIN room' = {"host", "peers", "handoff"} /\ IsQueue(room'.peers)
    BY <1>3, <1>9, Appends DEF Network
  <2>8. \A r : Holds(r) => Holds(r)'
    BY <1>3, <1>9 DEF Network, Holds
  <2>9. Network'
    BY <2>6, <2>7, <1>2, <1>3 DEF Network
  <2>10. Awaits(s) => ses[Owner(s)].as # "host"
    BY <1>1, <1>9
  <2> QED
    BY <2>6, <2>8, <2>9, <2>10, <1>1, <1>2, RelayKeeps
<1> QED
  BY <1>6, <1>7, <1>8, <1>9 DEF RelayHello, claimed

\* The end of a grace: the room in handoff was nobody's to count on.
LEMMA OverdueKeeps ==
    ASSUME HostInv, Overdue
    PROVE  HostInv'
<1>1. \A r : ~Holds(r)
  BY DEF Overdue, Holds
<1>2. Network'
  BY DEF Overdue, HostInv, Network
<1> QED
  BY <1>1, <1>2, RelayKeeps DEF Overdue

LEMMA SweepKeeps ==
    ASSUME HostInv, Sweep
    PROVE  HostInv'
<1>1. \A r : ~Holds(r)
  BY DEF Sweep, Holds
<1>2. /\ Mail(down')
      /\ \A r \in Sockets : Rings(down'[r]) => Rings(down[r])
      /\ \A r \in Sockets : Closed(down[r]) => Closed(down'[r])
  BY Goodbyes, CalmWrites DEF Sweep, HostInv, Network
<1>3. Network'
  BY <1>2, OneFrame DEF Sweep, HostInv, Network, NoRoom
<1> QED
  BY <1>1, <1>2, <1>3, RelayKeeps DEF Sweep

\* A host whose socket is lost is told so before its room is gone.
LEMMA CutKeeps ==
    ASSUME HostInv, NEW s \in alive, Cut(s)
    PROVE  HostInv'
<1> DEFINE letters == Both(To(s, Close), Told(s))
<1>1. Network /\ s \in Sockets
  BY DEF HostInv, Network
<1>2. DOMAIN To(s, Close) = {s} /\ To(s, Close)[s] = <<Close>> /\ Calm(Told(s))
  BY Single, ToldCalm
<1>3. IsQueue(<<Close>>) /\ ToSet(<<Close>>) = {Close} /\ ~Rings(<<Close>>)
  BY OneFrame, Frames DEF Rings
<1>4. /\ DOMAIN letters = {s} \cup DOMAIN Told(s) /\ letters[s] = <<Close>>
      /\ \A r \in DOMAIN Told(s) : r # s => letters[r] = Told(s)[r]
  BY <1>2 DEF Both
<1> HIDE DEF letters
<1>5. Calm(letters)
  BY <1>2, <1>3, <1>4 DEF Calm, Letters
<1>6. down' = Written(down, alive, letters)
  BY DEF Cut, letters
<1>7. /\ Mail(down')
      /\ \A r \in Sockets : Rings(down'[r]) => Rings(down[r])
      /\ \A r \in Sockets : Closed(down[r]) => Closed(down'[r])
  BY <1>1, <1>5, <1>6, CalmWrites DEF Network
<1>8. Closed(down'[s])
  <2>1. ToSet(down'[s]) = ToSet(down[s]) \cup ToSet(letters[s])
    BY <1>1, <1>4, <1>5, <1>6, Writes DEF Network, Calm
  <2> QED
    BY <2>1, <1>3, <1>4 DEF Closed
<1>9. /\ DOMAIN room' = {"host", "peers", "handoff"} /\ IsQueue(room'.peers)
      /\ \A r : (r # s /\ Holds(r)) => Holds(r)'
  BY <1>1, RoomWithout DEF Cut, Holds
<1>10. Network'
  BY <1>7, <1>9 DEF Cut, HostInv, Network
<1>11. \A r \in Sockets : (Stands(r)' /\ Holds(r)) => Holds(r)'
  BY <1>8, <1>9 DEF Stands
<1> QED
  BY <1>7, <1>10, <1>11, RelayKeeps DEF Cut

(***************************************************************************)
(* What the sessions do.                                                   *)
(***************************************************************************)

\* A session that goes on as c neither begins to wait nor to host.
Tame(u, c) ==
    /\ WellKept(u, c) /\ c.dial = ses[u].dial
    /\ c.task = "open" => ses[u].task = "open" /\ c.as = ses[u].as
    /\ c.phase = "hosting" => ses[u].phase = "hosting" /\ c.link = ses[u].link

LEMMA TameKeeps ==
    ASSUME HostInv, NEW u \in Users, NEW c, NEW queues, NEW letters, NEW shut,
           Goes(u, c, queues, letters, shut), UNCHANGED hellos,
           Tame(u, c), Heard(queues, shut), Calm(letters)
    PROVE  HostInv'
  BY GoesKeeps DEF Tame

\* Who changes nothing of this is tame; and who stops waiting, or leaves.
LEMMA Tames ==
    ASSUME HostInv, NEW u \in Users
    PROVE  /\ WellKept(u, ses[u]) /\ Tame(u, ses[u])
           /\ Tame(u, Left(ses[u])) /\ Tame(u, Discarded(ses[u]))
           /\ Tame(u, [ses[u] EXCEPT !.task = "none"])
           /\ Tame(u, [ses[u] EXCEPT !.phase = "left"])
<1>1. WellKept(u, ses[u])
  BY DEF HostInv, Sessions
<1>2. Tame(u, ses[u])
  BY <1>1 DEF Tame
<1>3. Tame(u, Left(ses[u])) /\ Tame(u, Discarded(ses[u]))
  BY <1>1 DEF Tame, WellKept, Left, Discarded, IsSession, Fields, OwnLink
<1>4. Tame(u, [ses[u] EXCEPT !.task = "none"]) /\ Tame(u, [ses[u] EXCEPT !.phase = "left"])
  BY <1>1 DEF Tame, WellKept, IsSession, Fields, OwnLink
<1> QED
  BY <1>1, <1>2, <1>3, <1>4

\* A wait that fails.
LEMMA FailsKeeps ==
    ASSUME HostInv, NEW u \in Users, NEW queues, Fails(u, ses[u], queues), UNCHANGED hellos,
           \A shut : Heard(queues, shut)
    PROVE  HostInv'
  BY Tames, TameKeeps, NoLetter DEF Fails

\* A handshake that begins over the link there is.
LEMMA GreetsKeeps ==
    ASSUME HostInv, NEW u \in Users, NEW c, NEW queues, Greets(u, c, queues), UNCHANGED hellos,
           WellKept(u, c), c.dial = ses[u].dial, c.phase # "hosting",
           \A shut : Heard(queues, shut)
    PROVE  HostInv'
<1>1. Tame(u, [c EXCEPT !.task = "hello", !.key = Nobody, !.spoiled = {}])
  BY DEF Tame, WellKept, IsSession, Fields, OwnLink
<1>2. Calm(ToHost(c.link, "hello", Nobody))
  BY ToHostCalm
<1> QED
  BY <1>1, <1>2, TameKeeps DEF Greets

\* What a frame that arrives gives to start from.
LEMMA Arrival ==
    ASSUME HostInv, NEW s \in alive, NEW t, Arrives(s, t)
    PROVE  /\ s \in Sockets /\ Owner(s) \in Users /\ Heard(Rest(s), s)
           /\ WellKept(Owner(s), ses[Owner(s)]) /\ Tame(Owner(s), ses[Owner(s)])
           /\ t # "close" => \A shut : Heard(Rest(s), shut)
<1>1. s \in Sockets /\ Owner(s) \in Users
  BY SocketsAre DEF HostInv, Network
<1>2. Heard(Rest(s), s) /\ (t # "close" => \A shut : Heard(Rest(s), shut))
  BY <1>1, FrameRead DEF Arrives
<1> QED
  BY <1>1, <1>2, Tames

LEMMA ReadyKeeps ==
    ASSUME HostInv, NEW s \in alive, HearReady(s)
    PROVE  HostInv'
<1> DEFINE u == Owner(s)
           c == ses[u]
           awaited == c.task = "open" /\ s = Current(u)
<1>1. /\ s \in Sockets /\ u \in Users /\ WellKept(u, c) /\ Tame(u, c)
      /\ \A shut : Heard(Rest(s), shut)
  BY Arrival DEF HearReady
<1>2. UNCHANGED hellos
  BY DEF HearReady
<1>3. CASE ~awaited
  <2>1. Goes(u, c, Rest(s), None, Nobody)
    BY <1>3 DEF HearReady
  <2> QED
    BY <2>1, <1>1, <1>2, TameKeeps, NoLetter
<1>4. CASE awaited /\ c.leaving
  <2>1. Goes(u, [c EXCEPT !.task = "none"], Rest(s), None, s)
    BY <1>4 DEF HearReady
  <2> QED
    BY <2>1, <1>1, <1>2, Tames, TameKeeps, NoLetter
<1>5. CASE awaited /\ ~c.leaving /\ c.as = "peer"
  <2> DEFINE d == [c EXCEPT !.link = s, !.ready = "none"]
  <2>1. Greets(u, d, Rest(s))
    BY <1>5 DEF HearReady
  <2>2. WellKept(u, d) /\ d.dial = c.dial /\ d.phase # "hosting"
    BY <1>1, <1>5, SocketsAre DEF WellKept, IsSession, Fields, OwnLink, Current
  <2> HIDE DEF d
  <2> QED
    BY <2>1, <2>2, <1>1, <1>2, GreetsKeeps
<1>6. CASE awaited /\ ~c.leaving /\ c.as # "peer"
  <2> DEFINE d == [c EXCEPT !.task = "none", !.phase = "hosting", !.link = s, !.transferring = FALSE,
                            !.epoch = c.minEpoch]
  <2>1. Goes(u, d, Rest(s), None, Nobody)
    BY <1>6 DEF HearReady
  <2>2. c.as = "host"
    BY <1>1, <1>6 DEF WellKept
  <2>3. WellKept(u, d) /\ d.dial = c.dial /\ d.task = "none" /\ d.link = s
    BY <1>1, <1>6, <2>2, SocketsAre DEF WellKept, IsSession, Fields, OwnLink, Current
  <2>4. Closed(Rest(s)[s]) \/ Holds(s)
    <3>1. /\ Head(down[s]).t = "ready"
          /\ Heard(Rest(s), Nobody) /\ Head(down[s]) \in ToSet(down[s])
      BY <1>1, FrameRead DEF HearReady, Arrives
    <3>2. Rings(down[s])
      BY <3>1 DEF Rings
    <3>3. Closed(down[s]) => Closed(Rest(s)[s])
      BY <3>1, <1>1, SocketsAre DEF Heard
    <3>4. Awaits(s)
      BY <1>6 DEF Awaits
    <3> QED
      BY <3>2, <3>3, <3>4, <2>2, <1>1 DEF HostInv, ReadyMeant, Stands
  <2> HIDE DEF d
  <2> QED
    BY <2>1, <2>3, <2>4, <1>1, <1>2, GoesKeeps, NoLetter
<1> QED
  BY <1>3, <1>4, <1>5, <1>6

LEMMA RejectKeeps ==
    ASSUME HostInv, NEW s \in alive, HearReject(s)
    PROVE  HostInv'
<1> USE SocketsAre
<1> DEFINE u == Owner(s)
           c == ses[u]
           awaited == c.task = "open" /\ s = Current(u)
<1>1. /\ s \in Sockets /\ u \in Users /\ WellKept(u, c) /\ Tame(u, c)
      /\ \A shut : Heard(Rest(s), shut)
  BY Arrival DEF HearReject
<1>2. CASE ~awaited \/ c.leaving
  <2>1. /\ Goes(u, [c EXCEPT !.task = IF awaited THEN "none" ELSE @], Rest(s), None, s)
        /\ UNCHANGED hellos
    BY <1>2 DEF HearReject
  <2>2. Tame(u, [c EXCEPT !.task = IF awaited THEN "none" ELSE @])
    BY <1>1 DEF Tame, WellKept, IsSession, Fields, OwnLink
  <2> QED
    BY <2>1, <2>2, <1>1, TameKeeps, NoLetter
<1>3. CASE awaited /\ ~c.leaving /\ c.transferring
  BY <1>1, <1>3, Tames, TameKeeps, NoLetter DEF HearReject
<1>4. CASE awaited /\ ~c.leaving /\ ~c.transferring /\ c.tries < MaxEnterAttempts
  <2> DEFINE d == [c EXCEPT !.as = IF @ = "peer" THEN "host" ELSE "peer", !.tries = @ + 1]
  <2>1. Dials(u, d, Rest(s), s)
    BY <1>4 DEF HearReject
  <2>2. c.phase # "hosting"
    BY <1>1, <1>4 DEF WellKept
  <2>3. WellKept(u, d) /\ d.dial = c.dial /\ d.phase # "hosting"
    BY <1>1, <2>2 DEF WellKept, IsSession, Fields, OwnLink
  <2>4. c.dial \in 0..MaxDials /\ s[2] = c.dial
    BY <1>1, <1>4 DEF WellKept, Current
  <2>5. Dialled(s)
    BY <2>4 DEF Dialled
  <2> HIDE DEF d
  <2> QED
    BY <2>1, <2>3, <2>5, <1>1, DialsKeeps
<1>5. CASE awaited /\ ~c.leaving /\ ~c.transferring /\ ~(c.tries < MaxEnterAttempts)
  BY <1>1, <1>5, Tames, TameKeeps, NoLetter DEF HearReject
<1> QED
  BY <1>2, <1>3, <1>4, <1>5

LEMMA CloseKeeps ==
    ASSUME HostInv, NEW s \in alive, HearClose(s)
    PROVE  HostInv'
<1> DEFINE u == Owner(s)
           c == ses[u]
           gone == [(IF c.closing THEN c ELSE [c EXCEPT !.phase = "left"])
                       EXCEPT !.roster = <<>>, !.greeting = {}, !.spoiled = {}]
           back == [c EXCEPT !.task = "backoff"]
<1>1. /\ s \in Sockets /\ u \in Users /\ WellKept(u, c) /\ Tame(u, c) /\ Heard(Rest(s), s)
  BY Arrival DEF HearClose
<1>2. UNCHANGED hellos
  BY DEF HearClose
<1>3. Tame(u, gone)
  BY <1>1 DEF Tame, WellKept, IsSession, Fields, OwnLink
<1>4. c.task = "open" => Tame(u, back)
  BY <1>1 DEF Tame, WellKept, IsSession, Fields, OwnLink
<1>5. Tame(u, Left(c)) /\ Tame(u, Discarded(c)) /\ Tame(u, [c EXCEPT !.task = "none"])
  BY <1>1, Tames
<1>6. PICK d : Goes(u, d, Rest(s), None, s) /\ Tame(u, d)
  <2> HIDE DEF gone, back
  <2> QED
    BY <1>1, <1>3, <1>4, <1>5 DEF HearClose, gone, back
<1> QED
  BY <1>1, <1>2, <1>6, TameKeeps, NoLetter

LEMMA AckKeeps ==
    ASSUME HostInv, NEW s \in alive, HearAck(s)
    PROVE  HostInv'
<1> DEFINE u == Owner(s)
           c == ses[u]
           d == [c EXCEPT !.task = "join", !.key = Head(down[s]).key]
<1>1. /\ s \in Sockets /\ u \in Users /\ WellKept(u, c) /\ Tame(u, c)
      /\ \A shut : Heard(Rest(s), shut)
  BY Arrival DEF HearAck
<1>2. c.task = "hello" => Tame(u, d)
  BY <1>1 DEF Tame, WellKept, IsSession, Fields, OwnLink
<1>3. Calm(ToHost(s, "join", Head(down[s]).key))
  BY ToHostCalm
<1> HIDE DEF d
<1>4. UNCHANGED hellos /\ c.task = "hello"
      /\ (Fails(u, c, Rest(s)) \/ Goes(u, d, Rest(s), ToHost(s, "join", Head(down[s]).key), Nobody))
  BY DEF HearAck, d
<1> QED
  BY <1>1, <1>2, <1>3, <1>4, FailsKeeps, TameKeeps

LEMMA JoinedKeeps ==
    ASSUME HostInv, NEW s \in alive, HearJoined(s)
    PROVE  HostInv'
<1> DEFINE u == Owner(s)
           c == ses[u]
           d == [c EXCEPT !.task = "none", !.phase = "in-room", !.transferring = FALSE,
                          !.epoch = Head(down[s]).epoch]
<1>1. /\ s \in Sockets /\ u \in Users /\ WellKept(u, c) /\ Tame(u, c)
      /\ \A shut : Heard(Rest(s), shut)
  BY Arrival DEF HearJoined
<1>2. Tame(u, d)
  BY <1>1 DEF Tame, WellKept, IsSession, Fields, OwnLink
<1> HIDE DEF d
<1>3. UNCHANGED hellos
      /\ \/ Goes(u, Left(c), Rest(s), None, s)
         \/ Goes(u, Discarded(c), Rest(s), None, s)
         \/ Goes(u, d, Rest(s), None, Nobody)
  BY DEF HearJoined, d
<1> QED
  BY <1>1, <1>2, <1>3, Tames, TameKeeps, NoLetter

LEMMA ClaimedKeeps ==
    ASSUME HostInv, NEW s \in alive, HearClaimed(s)
    PROVE  HostInv'
<1> DEFINE u == Owner(s)
           c == ses[u]
           d == [c EXCEPT !.ready = IF @ = "none" THEN "early" ELSE @]
<1>1. /\ s \in Sockets /\ u \in Users /\ WellKept(u, c) /\ Tame(u, c)
      /\ \A shut : Heard(Rest(s), shut)
  BY Arrival DEF HearClaimed
<1>2. Tame(u, d)
  BY <1>1 DEF Tame, WellKept, IsSession, Fields, OwnLink
<1> HIDE DEF d
<1>3. UNCHANGED hellos
      /\ \/ Goes(u, c, Rest(s), None, Nobody)
         \/ Goes(u, [c EXCEPT !.task = "none"], Rest(s), None, Nobody)
         \/ c.task = "claim" /\ Greets(u, c, Rest(s))
         \/ Goes(u, d, Rest(s), None, Nobody)
  BY DEF HearClaimed, d
<1>4. c.task = "claim" => c.phase # "hosting"
  BY <1>1 DEF WellKept
<1> QED
  BY <1>1, <1>2, <1>3, <1>4, Tames, TameKeeps, GreetsKeeps, NoLetter

LEMMA TransferKeeps ==
    ASSUME HostInv, NEW s \in alive, HearTransfer(s)
    PROVE  HostInv'
<1> USE SocketsAre
<1> DEFINE u == Owner(s)
           c == ses[u]
           told == [c EXCEPT !.transferring = TRUE, !.minEpoch = Head(down[s]).epoch,
                             !.ready = IF @ \in {"none", "early"} THEN "asked" ELSE "again"]
           heir == [told EXCEPT !.as = "host", !.link = Nobody, !.key = Nobody]
           waits == [told EXCEPT !.task = "claim"]
<1>1. /\ s \in Sockets /\ u \in Users /\ WellKept(u, c) /\ Tame(u, c)
      /\ \A shut : Heard(Rest(s), shut)
  BY Arrival DEF HearTransfer
<1>2. s = c.link /\ c.as = "peer" /\ c.phase # "hosting"
  BY <1>1 DEF HearTransfer, Member, WellKept
<1>3. Dialled(s)
  BY <1>1, <1>2 DEF WellKept, OwnLink, Dialled
<1>4. WellKept(u, told) /\ told.dial = c.dial /\ told.phase # "hosting"
  BY <1>1, <1>2 DEF WellKept, IsSession, Fields, OwnLink
<1>5. WellKept(u, heir) /\ heir.dial = c.dial /\ heir.phase # "hosting"
  BY <1>1, <1>2 DEF WellKept, IsSession, Fields, OwnLink
<1>6. Tame(u, waits)
  BY <1>1, <1>2 DEF Tame, WellKept, IsSession, Fields, OwnLink
<1> HIDE DEF told, heir, waits
<1>7. \/ Dials(u, heir, Rest(s), s)
      \/ Greets(u, told, Rest(s)) /\ UNCHANGED hellos
      \/ Goes(u, waits, Rest(s), None, Nobody) /\ UNCHANGED hellos
  BY DEF HearTransfer, told, heir, waits
<1>8. CASE Dials(u, heir, Rest(s), s)
  BY <1>1, <1>3, <1>5, <1>8, DialsKeeps
<1>9. CASE Greets(u, told, Rest(s)) /\ UNCHANGED hellos
  BY <1>1, <1>4, <1>9, GreetsKeeps
<1>10. CASE Goes(u, waits, Rest(s), None, Nobody) /\ UNCHANGED hellos
  BY <1>1, <1>6, <1>10, TameKeeps, NoLetter
<1> QED
  BY <1>7, <1>8, <1>9, <1>10

LEMMA StrayKeeps ==
    ASSUME HostInv, NEW s \in alive, HearStray(s)
    PROVE  HostInv'
<1> DEFINE u == Owner(s)
           c == ses[u]
           d == [c EXCEPT !.spoiled = {s}]
<1>1. Arrives(s, Head(down[s]).t) /\ Head(down[s]).t # "close"
  BY DEF HearStray, Arrives
<1>2. /\ s \in Sockets /\ u \in Users /\ WellKept(u, c) /\ Tame(u, c)
      /\ \A shut : Heard(Rest(s), shut)
  BY <1>1, Arrival
<1>3. Tame(u, d)
  BY <1>2 DEF Tame, WellKept, IsSession, Fields, OwnLink
<1> HIDE DEF d
<1>4. UNCHANGED hellos
      /\ \/ Goes(u, c, Rest(s), None, Nobody)
         \/ Goes(u, d, Rest(s), None, Nobody)
         \/ Goes(u, c, Rest(s), None, s)
  BY DEF HearStray, d
<1> QED
  BY <1>2, <1>3, <1>4, TameKeeps, NoLetter

LEMMA PeerUpKeeps ==
    ASSUME HostInv, NEW s \in alive, HearPeerUp(s)
    PROVE  HostInv'
<1> DEFINE u == Owner(s)
           c == ses[u]
           p == Head(down[s]).from
           d == [c EXCEPT !.greeting = @ \cup {p}]
<1>1. /\ s \in Sockets /\ u \in Users /\ WellKept(u, c) /\ Tame(u, c)
      /\ \A shut : Heard(Rest(s), shut)
  BY Arrival DEF HearPeerUp
<1>2. Tame(u, d)
  BY <1>1 DEF Tame, WellKept, IsSession, Fields, OwnLink
<1> HIDE DEF d
<1>3. UNCHANGED hellos
      /\ \/ Goes(u, c, Rest(s), None, Nobody)
         \/ Kicks(u, c, Rest(s), p)
         \/ Goes(u, d, Rest(s), None, Nobody)
  BY DEF HearPeerUp, d
<1> QED
  BY <1>1, <1>2, <1>3, TameKeeps, KicksKeeps, NoLetter

LEMMA PeerDownKeeps ==
    ASSUME HostInv, NEW s \in alive, HearPeerDown(s)
    PROVE  HostInv'
<1> DEFINE u == Owner(s)
           c == ses[u]
           p == Head(down[s]).from
           d == [c EXCEPT !.greeting = @ \ {p}, !.spoiled = @ \ {p},
                          !.roster = IF c.closing THEN @ ELSE Deleted(@, p)]
<1>1. /\ s \in Sockets /\ u \in Users /\ WellKept(u, c) /\ Tame(u, c)
      /\ \A shut : Heard(Rest(s), shut)
  BY Arrival DEF HearPeerDown
<1>2. Tame(u, d)
  BY <1>1 DEF Tame, WellKept, IsSession, Fields, OwnLink
<1> HIDE DEF d
<1>3. UNCHANGED hellos /\ Goes(u, d, Rest(s), None, Nobody)
  BY DEF HearPeerDown, d
<1> QED
  BY <1>1, <1>2, <1>3, TameKeeps, NoLetter

LEMMA HelloFrameKeeps ==
    ASSUME HostInv, NEW s \in alive, HearHello(s)
    PROVE  HostInv'
<1> DEFINE u == Owner(s)
           p == Head(down[s]).from
           letters == IF s = ses[u].link /\ p \in ses[u].greeting THEN ToPeer(p, "ack", s, 0) ELSE None
<1>1. /\ s \in Sockets /\ u \in Users /\ Tame(u, ses[u]) /\ \A shut : Heard(Rest(s), shut)
  BY Arrival DEF HearHello
<1>2. Calm(letters)
  BY ToPeerCalm, NoLetter
<1>3. UNCHANGED hellos /\ Goes(u, ses[u], Rest(s), letters, Nobody)
  BY DEF HearHello
<1> HIDE DEF letters
<1> QED
  BY <1>1, <1>2, <1>3, TameKeeps

LEMMA JoinKeeps ==
    ASSUME HostInv, NEW s \in alive, HearJoin(s)
    PROVE  HostInv'
<1> DEFINE u == Owner(s)
           c == ses[u]
           p == Head(down[s]).from
           d == [c EXCEPT !.greeting = @ \ {p}, !.roster = Append(@, p)]
<1>1. /\ s \in Sockets /\ u \in Users /\ WellKept(u, c) /\ Tame(u, c)
      /\ \A shut : Heard(Rest(s), shut)
  BY Arrival DEF HearJoin
<1>2. Tame(u, d)
  BY <1>1 DEF Tame, WellKept, IsSession, Fields, OwnLink
<1>3. Calm(ToPeer(p, "joined", s, c.epoch))
  BY ToPeerCalm
<1> HIDE DEF d
<1>4. UNCHANGED hellos
      /\ \/ Goes(u, c, Rest(s), None, Nobody)
         \/ Kicks(u, c, Rest(s), p)
         \/ Goes(u, d, Rest(s), ToPeer(p, "joined", s, c.epoch), Nobody)
  BY DEF HearJoin, d
<1> QED
  BY <1>1, <1>2, <1>3, <1>4, TameKeeps, KicksKeeps, NoLetter

LEMMA PingFrameKeeps ==
    ASSUME HostInv, NEW s \in alive, HearPing(s)
    PROVE  HostInv'
<1> DEFINE u == Owner(s)
           c == ses[u]
           f == Head(down[s])
           d == [c EXCEPT !.spoiled = @ \cup {f.from}]
           letters == IF s = c.link /\ f.from \in ToSet(c.roster) /\ f.key = s
                      THEN ToPeer(f.from, "pong", s, 0) ELSE None
<1>1. /\ s \in Sockets /\ u \in Users /\ WellKept(u, c) /\ Tame(u, c)
      /\ \A shut : Heard(Rest(s), shut)
  BY Arrival DEF HearPing
<1>2. Tame(u, d)
  BY <1>1 DEF Tame, WellKept, IsSession, Fields, OwnLink
<1>3. Calm(letters)
  BY ToPeerCalm, NoLetter
<1>4. UNCHANGED hellos
      /\ (Goes(u, d, Rest(s), None, Nobody) \/ Goes(u, c, Rest(s), letters, Nobody))
  BY DEF HearPing
<1> HIDE DEF d, letters
<1> QED
  BY <1>1, <1>2, <1>3, <1>4, TameKeeps, NoLetter

LEMMA HearKeeps ==
    ASSUME HostInv, NEW s \in alive, Hear(s)
    PROVE  HostInv'
  BY ReadyKeeps, RejectKeeps, CloseKeeps, AckKeeps, JoinedKeeps, ClaimedKeeps, TransferKeeps,
     StrayKeeps, PeerUpKeeps, PeerDownKeeps, HelloFrameKeeps, JoinKeeps, PingFrameKeeps
  DEF Hear

LEMMA EnterKeeps ==
    ASSUME HostInv, NEW u \in Users, Enter(u) \/ Redial(u)
    PROVE  HostInv'
<1> DEFINE d == [ses[u] EXCEPT !.phase = "connecting", !.tries = 1]
<1>1. WellKept(u, ses[u]) /\ Nobody \notin alive /\ Heard(down, Nobody)
  BY Tames, NothingRead, SocketsAre DEF HostInv, Network
<1>2. CASE Enter(u)
  <2>1. WellKept(u, d) /\ d.dial = ses[u].dial /\ d.phase # "hosting"
    BY <1>1, <1>2 DEF Enter, WellKept, IsSession, Fields, OwnLink
  <2>2. Dials(u, d, down, Nobody)
    BY <1>2 DEF Enter
  <2> HIDE DEF d
  <2> QED
    BY <2>1, <2>2, <1>1, DialsKeeps
<1>3. CASE Redial(u)
  <2>1. ses[u].phase # "hosting" /\ Dials(u, ses[u], down, Nobody)
    BY <1>1, <1>3 DEF Redial, WellKept
  <2> QED
    BY <2>1, <1>1, DialsKeeps
<1> QED
  BY <1>2, <1>3

LEMMA TicksKeeps ==
    ASSUME HostInv, NEW u \in Users, Ticks(u)
    PROVE  HostInv'
<1> DEFINE c == ses[u]
           handed == [c EXCEPT !.task = "grace"]
           over == [c EXCEPT !.task = "none", !.roster = <<>>, !.greeting = {}, !.spoiled = {}]
<1>1. /\ WellKept(u, c) /\ \A shut : Heard(down, shut)
      /\ Tame(u, c) /\ Tame(u, Left(c)) /\ Tame(u, [c EXCEPT !.task = "none"])
      /\ Tame(u, [c EXCEPT !.phase = "left"])
  BY Tames, NothingRead
<1>2. CASE Redial(u)
  BY <1>2, EnterKeeps
<1>3. CASE HandOver(u)
  <2> DEFINE f == Frame("transfer", c.link, c.link, c.epoch + 1, Heir(c.roster))
             letters == [p \in ToSet(c.roster) \cap Peers |-> <<f>>]
  <2>1. Tame(u, handed)
    BY <1>1, <1>3 DEF HandOver, Tame, WellKept, IsSession, Fields, OwnLink
  <2>2. IsQueue(<<f>>) /\ ~Rings(<<f>>)
    BY OneFrame, Frames DEF Rings
  <2>3. Goes(u, handed, down, letters, Nobody) /\ UNCHANGED hellos
    BY <1>3 DEF HandOver
  <2> HIDE DEF f
  <2>4. Calm(letters)
    BY <2>2 DEF Calm, Letters
  <2> HIDE DEF handed, letters
  <2> QED
    BY <2>1, <2>3, <2>4, <1>1, TameKeeps
<1>4. CASE GraceEnds(u)
  <2>1. Tame(u, over)
    BY <1>1, <1>4 DEF GraceEnds, Tame, WellKept, IsSession, Fields, OwnLink
  <2>2. Goes(u, over, down, None, c.link) /\ UNCHANGED hellos
    BY <1>4 DEF GraceEnds
  <2> HIDE DEF over
  <2> QED
    BY <2>1, <2>2, <1>1, TameKeeps, NoLetter
<1>5. CASE RehomeGivesUp(u)
  BY <1>1, <1>5, TameKeeps, NoLetter DEF RehomeGivesUp
<1>6. CASE ConnectTimesOut(u)
  BY <1>1, <1>6, FailsKeeps DEF ConnectTimesOut
<1>7. CASE HostLost(u)
  BY <1>1, <1>7, TameKeeps, NoLetter DEF HostLost
<1>8. CASE \E p \in Sockets : HostGivesUp(u, p) \/ HostDropsDead(u, p)
  BY <1>1, <1>8, KicksKeeps DEF HostGivesUp, HostDropsDead
<1> QED
  BY <1>2, <1>3, <1>4, <1>5, <1>6, <1>7, <1>8 DEF Ticks

LEMMA OddKeeps ==
    ASSUME HostInv, NEW u \in Users, OpenTimesOut(u) \/ HostDoubted(u) \/ Ping(u)
    PROVE  HostInv'
<1> DEFINE c == ses[u]
           back == [c EXCEPT !.task = "backoff"]
<1>1. /\ WellKept(u, c) /\ \A shut : Heard(down, shut)
      /\ Tame(u, c) /\ Tame(u, [c EXCEPT !.phase = "left"])
  BY Tames, NothingRead
<1>2. CASE OpenTimesOut(u)
  <2>1. Tame(u, back)
    BY <1>1, <1>2 DEF OpenTimesOut, Tame, WellKept, IsSession, Fields, OwnLink
  <2>2. Goes(u, back, down, None, Nobody) /\ UNCHANGED hellos
    BY <1>2 DEF OpenTimesOut
  <2> HIDE DEF back
  <2> QED
    BY <2>1, <2>2, <1>1, TameKeeps, NoLetter
<1>3. CASE HostDoubted(u)
  BY <1>1, <1>3, TameKeeps, NoLetter DEF HostDoubted
<1>4. CASE Ping(u)
  <2>1. Goes(u, c, down, ToHost(c.link, "ping", c.key), Nobody) /\ UNCHANGED hellos
    BY <1>4 DEF Ping
  <2> QED
    BY <2>1, <1>1, ToHostCalm, TameKeeps
<1> QED
  BY <1>2, <1>3, <1>4

\* Who hands the room over no longer counts on it.
LEMMA LeaveKeeps ==
    ASSUME HostInv, NEW u \in Users, Leave(u)
    PROVE  HostInv'
<1> DEFINE c == ses[u]
           gone == [c EXCEPT !.leaving = TRUE, !.phase = "left"]
           quiet == [gone EXCEPT !.task = "none"]
           handing == [gone EXCEPT !.task = "handing", !.closing = TRUE]
           alone == [gone EXCEPT !.closing = TRUE, !.greeting = {}, !.spoiled = {}]
<1>1. WellKept(u, c) /\ \A shut : Heard(down, shut)
  BY Tames, NothingRead
<1>2. Tame(u, gone)
  BY <1>1 DEF Tame, WellKept, IsSession, Fields, OwnLink
<1>3. Tame(u, quiet)
  BY <1>1 DEF Tame, WellKept, IsSession, Fields, OwnLink
<1>4. Tame(u, alone)
  BY <1>1 DEF Tame, WellKept, IsSession, Fields, OwnLink
<1>5. /\ WellKept(u, handing) /\ handing.dial = c.dial /\ handing.as = c.as /\ handing.link = c.link
      /\ handing.phase = "left" /\ handing.task = "handing"
  BY <1>1 DEF WellKept, IsSession, Fields, OwnLink
<1> HIDE DEF gone, quiet, alone
<1>6. UNCHANGED hellos
      /\ \/ Goes(u, quiet, down, None, c.link)
         \/ /\ c.as = "host" /\ c.link # Nobody
            /\ ses' = [ses EXCEPT ![u] = handing]
            /\ room' = IF room.host = c.link THEN [room EXCEPT !.handoff = "grace"] ELSE room
            /\ UNCHANGED <<alive, down>>
         \/ Goes(u, alone, down, None, c.link)
         \/ Goes(u, gone, down, None, Nobody)
  BY DEF Leave, gone, quiet, alone
<1>7. CASE /\ c.as = "host" /\ c.link # Nobody
           /\ ses' = [ses EXCEPT ![u] = handing]
           /\ room' = IF room.host = c.link THEN [room EXCEPT !.handoff = "grace"] ELSE room
           /\ UNCHANGED <<alive, down>>
  <2> HIDE DEF handing
  <2>1. DOMAIN ses' = Users /\ ses'[u] = handing /\ \A o \in Users \ {u} : ses'[o] = ses[o]
    BY <1>7 DEF HostInv, Sessions
  <2>2. Sessions'
    BY <2>1, <1>5 DEF HostInv, Sessions
  <2>3. c.link \in Sockets /\ Owner(c.link) = u
    BY <1>1, <1>7 DEF WellKept, OwnLink
  <2>4. Network'
    BY <1>6, <1>7 DEF HostInv, Network
  <2>5. \A s \in Sockets : Holds(s) => Holds(s)' \/ s = c.link
    BY <1>7 DEF Holds
  <2>6. \A s \in Sockets : Stands(s)' => Stands(s)
    BY <1>7 DEF Stands
  <2>7. \A o \in Users : ses[o].dial \in Nat /\ ses'[o].dial = ses[o].dial
    BY <2>1, <1>5 DEF HostInv, Sessions, WellKept
  <2>8. \A o \in Users : /\ ses'[o].task = "open" => ses[o].task = "open" /\ ses'[o].as = ses[o].as
                         /\ ses'[o].phase = "hosting" => ses[o].phase = "hosting" /\ ses'[o].link = ses[o].link
    BY <2>1, <1>5
  <2>9. \A s \in Sockets : Holds(s) =>
           Holds(s)' \/ (ses'[Owner(s)].phase # "hosting" /\ ses'[Owner(s)].task # "open")
    BY <2>1, <2>3, <2>5, <1>5
  <2> QED
    BY <2>2, <2>4, <2>6, <2>7, <2>8, <2>9, <1>6, <1>7, Kept
<1> QED
  BY <1>1, <1>2, <1>3, <1>4, <1>6, <1>7, TameKeeps, NoLetter

(***************************************************************************)
(* The theorem.                                                            *)
(***************************************************************************)

LEMMA HostInit == SessionInit => HostInv
<1> USE SocketsAre
<1> SUFFICES ASSUME SessionInit PROVE HostInv
  OBVIOUS
<1>1. PICK cast \in Starts :
        LET there == ToSet(cast.inside)
            first == IF there = {} THEN Nobody ELSE <<cast.inside[1], 1>>
            guests == [i \in 1..Len(cast.inside) - 1 |-> <<cast.inside[i + 1], 1>>]
        IN
        /\ ses = [u \in Users |->
                    IF <<u, 1>> = first
                    THEN [Idle EXCEPT !.phase = "hosting", !.as = "host", !.tries = 2, !.dial = 1,
                                      !.link = first, !.roster = guests,
                                      !.epoch = cast.epoch, !.minEpoch = cast.epoch]
                    ELSE IF u \in there
                    THEN [Idle EXCEPT !.phase = "in-room", !.tries = 1, !.dial = 1,
                                      !.link = <<u, 1>>, !.key = first,
                                      !.epoch = cast.epoch, !.minEpoch = cast.epoch]
                    ELSE IF u \in cast.late
                    THEN [Idle EXCEPT !.phase = "connecting", !.task = "open", !.as = "host",
                                      !.tries = 2, !.dial = 1]
                    ELSE IF u \in cast.outside THEN Idle
                    ELSE [Idle EXCEPT !.phase = "left", !.leaving = TRUE]]
        /\ room = [NoRoom EXCEPT !.host = first, !.peers = guests]
        /\ alive = {<<u, 1>> : u \in there \cup cast.late}
        /\ hellos = {<<<<u, 1>>, "host">> : u \in cast.late}
        /\ down = [s \in Sockets |-> <<>>] /\ odd = cast.spent
  BY DEF SessionInit
<1> DEFINE there == ToSet(cast.inside)
           first == IF there = {} THEN Nobody ELSE <<cast.inside[1], 1>>
           guests == [i \in 1..Len(cast.inside) - 1 |-> <<cast.inside[i + 1], 1>>]
<1>2. cast.inside \in Seq(Users) /\ there \subseteq Users /\ cast.late \subseteq Users /\ 1 \in 1..MaxDials
  BY SessionAssumption DEF SessionAssumption, ToSet
<1>3. IsQueue(guests)
  <2>1. PICK n : n = Len(cast.inside) - 1
    OBVIOUS
  <2>2. n \in Nat \/ n = -1
    BY <2>1, <1>2
  <2>3. guests = [i \in 1..n |-> <<cast.inside[i + 1], 1>>]
    BY <2>1
  <2>4. 1..(-1) = 1..0
    OBVIOUS
  <2>5. PICK m \in Nat : 1..n = 1..m
    BY <2>2, <2>4
  <2>6. \A i \in 1..m : i + 1 \in 1..Len(cast.inside) /\ cast.inside[i + 1] \in Users
    <3>1. CASE n \in Nat
      BY <3>1, <2>1, <2>5, <1>2
    <3>2. CASE n = -1
      BY <3>2, <2>5
    <3> QED
      BY <3>1, <3>2, <2>2
  <2>7. [i \in 1..m |-> <<cast.inside[i + 1], 1>>] \in Seq(Users \X {1})
    BY <2>6
  <2>8. guests \in Seq(Users \X {1})
    BY <2>3, <2>5, <2>7
  <2> HIDE DEF guests
  <2> QED
    BY <2>8, Sequence
<1>4. \A u \in Users : <<u, 1>> \in Sockets /\ Owner(<<u, 1>>) = u /\ <<u, 1>>[2] = 1
  BY <1>2
<1>5. first = Nobody \/ \E u \in Users : first = <<u, 1>>
  <2>1. CASE there # {}
    <3>1. PICK i \in DOMAIN cast.inside : TRUE
      BY <2>1 DEF ToSet
    <3>2. Len(cast.inside) \in Nat /\ DOMAIN cast.inside = 1..Len(cast.inside)
      BY <1>2
    <3>3. 1 \in DOMAIN cast.inside
      BY <3>1, <3>2
    <3>4. cast.inside[1] \in Users
      BY <3>3, <1>2
    <3> QED
      BY <3>4, <2>1
  <2> QED
    BY <2>1
<1> HIDE DEF guests, first
<1>6. ASSUME NEW u \in Users
      PROVE  /\ WellKept(u, ses[u]) /\ (u \in there \cup cast.late => ses[u].dial = 1)
             /\ (ses[u].phase = "hosting" => ses[u].link = first)
             /\ (ses[u].task = "open" => u \in cast.late /\ ses[u].as = "host")
  <2> DEFINE c == ses[u]
             host == [Idle EXCEPT !.phase = "hosting", !.as = "host", !.tries = 2, !.dial = 1,
                                  !.link = first, !.roster = guests,
                                  !.epoch = cast.epoch, !.minEpoch = cast.epoch]
             guest == [Idle EXCEPT !.phase = "in-room", !.tries = 1, !.dial = 1,
                                   !.link = <<u, 1>>, !.key = first,
                                   !.epoch = cast.epoch, !.minEpoch = cast.epoch]
             late == [Idle EXCEPT !.phase = "connecting", !.task = "open", !.as = "host",
                                  !.tries = 2, !.dial = 1]
             gone == [Idle EXCEPT !.phase = "left", !.leaving = TRUE]
  <2>0. <<u, 1>> \in Sockets /\ Owner(<<u, 1>>) = u /\ <<u, 1>>[2] = 1 /\ 0 \in 0..MaxDials /\ 1 \in 0..MaxDials
    BY <1>2, <1>4
  <2>1. CASE <<u, 1>> = first
    <3>1. c = host
      BY <1>1, <2>1 DEF first, guests
    <3>2. /\ DOMAIN host = Fields /\ host.dial = 1 /\ host.as = "host" /\ host.link = first
          /\ host.task = "none" /\ host.phase = "hosting"
      BY DEF Idle, Fields
    <3> HIDE DEF host
    <3> QED
      BY <3>1, <3>2, <2>0, <2>1 DEF WellKept, IsSession, OwnLink
  <2>2. CASE <<u, 1>> # first /\ u \in there
    <3>1. c = guest
      BY <1>1, <2>2 DEF first, guests
    <3>2. /\ DOMAIN guest = Fields /\ guest.dial = 1 /\ guest.as = "peer" /\ guest.link = <<u, 1>>
          /\ guest.task = "none" /\ guest.phase = "in-room"
      BY DEF Idle, Fields
    <3> HIDE DEF guest
    <3> QED
      BY <3>1, <3>2, <2>0 DEF WellKept, IsSession, OwnLink
  <2>3. CASE <<u, 1>> # first /\ u \notin there /\ u \in cast.late
    <3>1. c = late
      BY <1>1, <2>3 DEF first, guests
    <3>2. /\ DOMAIN late = Fields /\ late.dial = 1 /\ late.as = "host" /\ late.link = Nobody
          /\ late.task = "open" /\ late.phase = "connecting"
      BY DEF Idle, Fields
    <3> HIDE DEF late
    <3> QED
      BY <3>1, <3>2, <2>0, <2>3 DEF WellKept, IsSession, OwnLink
  <2>4. CASE <<u, 1>> # first /\ u \notin there /\ u \notin cast.late
    <3>1. c = Idle \/ c = gone
      BY <1>1, <2>4 DEF first, guests
    <3>2. /\ DOMAIN gone = Fields /\ gone.dial = 0 /\ gone.as = "peer" /\ gone.link = Nobody
          /\ gone.task = "none" /\ gone.phase = "left"
      BY DEF Idle, Fields
    <3>3. /\ DOMAIN Idle = Fields /\ Idle.dial = 0 /\ Idle.as = "peer" /\ Idle.link = Nobody
          /\ Idle.task = "none" /\ Idle.phase = "idle"
      BY DEF Idle, Fields
    <3> HIDE DEF gone
    <3> QED
      BY <3>1, <3>2, <3>3, <2>0, <2>4 DEF WellKept, IsSession, OwnLink
  <2> QED
    BY <2>1, <2>2, <2>3, <2>4
<1>7. Sessions
  BY <1>1, <1>6 DEF Sessions
<1>8. room.host = first /\ room.handoff = "no" /\ room.peers = guests
      /\ DOMAIN room = {"host", "peers", "handoff"}
  BY <1>1 DEF NoRoom, guests, first
<1>9. \A s \in Sockets : down[s] = <<>> /\ ~Rings(down[s]) /\ IsQueue(down[s])
  BY <1>1, OneFrame DEF Rings
<1> HIDE DEF there
<1>10. Network
  <2>1. alive \subseteq Sockets
    BY <1>1, <1>2, <1>4 DEF there
  <2>3. hellos \subseteq Sockets \X {"peer", "host"}
    <3>1. hellos = {<<<<u, 1>>, "host">> : u \in cast.late}
      BY <1>1
    <3>2. \A u \in cast.late : <<u, 1>> \in Sockets
      BY <1>2, <1>4
    <3> QED
      BY <3>1, <3>2
  <2>2. Mail(down)
    BY <1>1, <1>9 DEF Mail
  <2> QED
    BY <2>1, <2>2, <2>3, <1>3, <1>8 DEF Network
<1>11. Undialled /\ HellosMeant
  <2>1. ASSUME NEW h \in hellos PROVE Dialled(h[1]) /\ (Awaits(h[1]) => h[2] = ses[Owner(h[1])].as)
    <3>1. PICK u \in cast.late : h = <<<<u, 1>>, "host">>
      BY <1>1
    <3>2. u \in Users /\ h[1] = <<u, 1>> /\ h[2] = "host"
      BY <3>1, <1>2
    <3>3. ses[u].dial = 1 /\ (ses[u].task = "open" => ses[u].as = "host")
      BY <3>1, <3>2, <1>6
    <3> QED
      BY <3>2, <3>3, <1>4 DEF Dialled, Awaits
  <2> QED
    BY <2>1, <1>9 DEF Undialled, HellosMeant
<1>12. ReadyMeant
  BY <1>9 DEF ReadyMeant
<1>13. HostsHold
  BY <1>6, <1>8 DEF HostsHold, Holds
<1> QED
  BY <1>7, <1>10, <1>11, <1>12, <1>13 DEF HostInv

LEMMA HostStep == HostInv /\ [SessionNext]_sessionVars => HostInv'
<1> SUFFICES ASSUME HostInv, [SessionNext]_sessionVars PROVE HostInv'
  OBVIOUS
<1>1. CASE UNCHANGED sessionVars
  <2>1. Sessions' /\ Network' /\ Undialled' /\ HellosMeant'
    BY <1>1 DEF HostInv, sessionVars, Sessions, Network, Undialled, Dialled, HellosMeant, Awaits, Current
  <2>2. ReadyMeant' /\ HostsHold'
    BY <1>1 DEF HostInv, sessionVars, ReadyMeant, HostsHold, Awaits, Current, Stands, Holds
  <2> QED
    BY <2>1, <2>2 DEF HostInv
<1>2. CASE Progress
  BY <1>2, HearKeeps, TicksKeeps, HelloKeeps, OverdueKeeps, SweepKeeps DEF Progress
<1>3. CASE \E u \in Users : Enter(u) \/ OpenTimesOut(u) \/ HostDoubted(u) \/ Ping(u) \/ Leave(u)
  BY <1>3, EnterKeeps, OddKeeps, LeaveKeeps
<1>4. CASE \E s \in alive : Cut(s)
  BY <1>4, CutKeeps
<1> QED
  BY <1>1, <1>2, <1>3, <1>4 DEF SessionNext

\* Two actors never both believe they are the host: of all the sessions in phase hosting
\* whose link stands, every one is the host of the relay's room, so there is one at most;
\* and no handoff of that room is under way.
THEOREM OneBelievesToHost == SessionSpec => []HostsAreReal
<1>1. HostInv => HostsAreReal
  <2> SUFFICES ASSUME HostInv, NEW u \in Users, ses[u].phase = "hosting", ses[u].link \in alive,
                      Close \notin ToSet(down[ses[u].link])
               PROVE  room.host = ses[u].link /\ room.handoff = "no"
    BY DEF HostsAreReal
  <2> QED
    BY DEF HostInv, HostsHold, Stands, Closed, Holds
<1> QED
  BY <1>1, HostInit, HostStep, PTL DEF SessionSpec

-----------------------------------------------------------------------------
(* Epochs: nobody goes back to a host of an earlier epoch.                 *)

\* A socket that its session hosts on; it does so for ever, in one epoch.
IsHost(h) == h \in Sockets /\ ses[Owner(h)].as = "host" /\ ses[Owner(h)].link = h
EpochOf(h) == ses[Owner(h)].epoch

\* A session by itself: what it waits for is no earlier than what it had; it hosts on the
\* link it has, or has none; only a host shakes hands with newcomers.
Waits(c) == c.phase = "idle" \/ c.task \in {"open", "backoff", "hello", "join", "claim"}
Settled(c) == c.as = "host" /\ c.link # Nobody

Dated(c) ==
    /\ c.epoch \in Nat /\ c.minEpoch \in Nat
    /\ Waits(c) => c.epoch <= c.minEpoch
    /\ c.phase = "idle" \/ c.task \in {"open", "backoff"} => c.link = Nobody
    /\ c.phase = "idle" => c.task = "none"
    /\ c.task \in {"handing", "grace"} => Settled(c)
    /\ Settled(c) => c.task \in {"none", "handing", "grace"}
    /\ c.greeting # {} => Settled(c)

\* A frame tells the truth about the host whose session sealed it.
Truthful(f) ==
    /\ f.key # Nobody => IsHost(f.key)
    /\ f.t \in {"ack", "joined", "transfer"} => f.key # Nobody
    /\ f.t = "joined" => f.epoch = EpochOf(f.key)
    /\ f.t = "transfer" => f.epoch = EpochOf(f.key) + 1

\* A member has the keys of a host, and its epoch.
Keyed(c) ==
    /\ c.key # Nobody => IsHost(c.key)
    /\ Member(c) => c.epoch = EpochOf(c.key)

EpochInv ==
    /\ \A u \in Users : Dated(ses[u]) /\ Keyed(ses[u])
    /\ \A s \in Sockets : \A f \in ToSet(down[s]) : Truthful(f)

\* How a session may go on, seen from where it was.
Steady(u, c) ==
    /\ Dated(c) /\ c.epoch >= ses[u].epoch
    /\ Settled(ses[u]) => /\ c.as = "host" /\ c.link = ses[u].link
                          /\ c.epoch = ses[u].epoch
    /\ c.key = Nobody \/ c.key = ses[u].key \/ IsHost(c.key)
    /\ Member(c) => \/ Member(ses[u]) /\ c.key = ses[u].key /\ c.epoch = ses[u].epoch
                    \/ IsHost(c.key) /\ c.epoch = EpochOf(c.key)

\* What is written is true.
Meant(letters) == \A s \in DOMAIN letters : \A f \in ToSet(letters[s]) : Truthful(f)

(***************************************************************************)
(* What keeps the invariant, whichever action it is.                       *)
(***************************************************************************)

\* Sessions that go on steadily and frames that are true keep all true that was said.
LEMMA EpochKept ==
    ASSUME HostInv, EpochInv,
           \A v \in Users : Steady(v, ses'[v]),
           \A s \in Sockets : \A f \in ToSet(down'[s]) : f \in ToSet(down[s]) \/ Truthful(f)
    PROVE  EpochInv' /\ \A v \in Users : ses'[v].epoch >= ses[v].epoch
<1> USE SocketsAre
<1>1. \A h : IsHost(h) => IsHost(h)' /\ EpochOf(h)' = EpochOf(h)
  BY DEF IsHost, EpochOf, Steady, Settled
<1>2. \A f : Truthful(f) => Truthful(f)'
  BY <1>1 DEF Truthful
<1>3. \A s \in Sockets : \A f \in ToSet(down'[s]) : Truthful(f)'
  BY <1>2 DEF EpochInv
<1>4. \A v \in Users : Dated(ses'[v]) /\ ses'[v].epoch >= ses[v].epoch
  BY DEF Steady
<1>5. ASSUME NEW v \in Users PROVE Keyed(ses[v])'
  <2>1. ses'[v].key # Nobody => IsHost(ses'[v].key)
    BY DEF EpochInv, Keyed, Steady
  <2>2. Member(ses'[v]) => IsHost(ses'[v].key) /\ ses'[v].epoch = EpochOf(ses'[v].key)
    BY <2>1 DEF EpochInv, Keyed, Steady, Member
  <2>3. PICK h : h = ses'[v].key
    OBVIOUS
  <2>4. h # Nobody => IsHost(h)'
    BY <2>1, <2>3, <1>1
  <2>5. Member(ses'[v]) => ses'[v].epoch = EpochOf(h)'
    BY <2>2, <2>3, <1>1
  <2> QED
    BY <2>3, <2>4, <2>5 DEF Keyed, Member, IsHost, EpochOf
<1> QED
  BY <1>3, <1>4, <1>5 DEF EpochInv, Dated, Settled

\* Who stays as it is, is steady.
LEMMA Stays ==
    ASSUME EpochInv, NEW u \in Users
    PROVE  Steady(u, ses[u]) /\ Dated(ses[u]) /\ Keyed(ses[u])
  BY DEF EpochInv, Steady, Dated, Keyed, Settled, Member

LEMMA Says ==
    ASSUME NEW s, NEW f, Truthful(f)
    PROVE  Meant(To(s, f)) /\ Meant(None)
<1>1. DOMAIN To(s, f) = {s} /\ To(s, f)[s] = <<f>> /\ ToSet(<<f>>) = {f} /\ DOMAIN None = {}
  BY Single, OneFrame
<1> QED
  BY <1>1 DEF Meant

\* Frames that name no session, and say nothing of epochs.
LEMMA Plain ==
    /\ \A t : t \notin {"ack", "joined", "transfer"} => Truthful(Say(t))
    /\ \A t, s : t \notin {"ack", "joined", "transfer"} => Truthful(Of(t, s))
    /\ Truthful(Close)
  BY DEF Truthful, Say, Of, Close, Frame

LEMMA SilenceMeant == Letters(None) /\ Meant(None)
  BY Single DEF Meant

LEMMA GoodbyesMeant == Meant([p \in Peers |-> <<Close>>])
  BY OneFrame, Plain DEF Meant

LEMMA ToldMeant ==
    ASSUME NEW s
    PROVE  Meant(Told(s))
  BY GoodbyesMeant, SilenceMeant, Says, Plain DEF Told

LEMMA ToHostMeant ==
    ASSUME NEW s, NEW m, NEW key, m \notin {"ack", "joined", "transfer"}, key = Nobody \/ IsHost(key)
    PROVE  Meant(ToHost(s, m, key))
<1>1. Truthful(Frame(m, s, key, 0, Nobody))
  BY DEF Truthful, Frame
<1> QED
  BY <1>1, Says, SilenceMeant DEF ToHost

LEMMA ToPeerMeant ==
    ASSUME NEW s, NEW m, NEW h, NEW epoch, m # "transfer", IsHost(h),
           m = "joined" => epoch = EpochOf(h)
    PROVE  Meant(ToPeer(s, m, h, epoch))
<1>1. h # Nobody
  BY SocketsAre DEF IsHost
<1>2. Truthful(Frame(m, h, h, epoch, Nobody))
  BY <1>1 DEF Truthful, Frame
<1> QED
  BY <1>2, Says, SilenceMeant DEF ToPeer

\* What is in a queue after writing was there, or is true.
LEMMA MeantWrites ==
    ASSUME NEW queues, NEW open, NEW letters, Mail(queues), Letters(letters), Meant(letters),
           \A s \in Sockets : \A f \in ToSet(queues[s]) : f \in ToSet(down[s]) \/ Truthful(f)
    PROVE  LET w == Written(queues, open, letters) IN
           \A s \in Sockets : \A f \in ToSet(w[s]) : f \in ToSet(down[s]) \/ Truthful(f)
<1> DEFINE w == Written(queues, open, letters)
<1>1. \A s \in Sockets :
         ToSet(w[s]) = IF s \in open /\ s \in DOMAIN letters
                       THEN ToSet(queues[s]) \cup ToSet(letters[s]) ELSE ToSet(queues[s])
  BY Writes
<1> HIDE DEF w
<1>2. \A s \in Sockets : \A f \in ToSet(w[s]) : f \in ToSet(down[s]) \/ Truthful(f)
  BY <1>1 DEF Meant
<1> QED
  BY <1>2 DEF w

(***************************************************************************)
(* The operators the actions are built from.                               *)
(***************************************************************************)

\* The invariant holds after, and nobody went back.
Forward == EpochInv' /\ \A v \in Users : ses'[v].epoch >= ses[v].epoch

LEMMA GoesForward ==
    ASSUME HostInv, EpochInv, NEW u \in Users, NEW c, NEW queues, NEW letters, NEW shut,
           Goes(u, c, queues, letters, shut), Steady(u, c),
           Heard(queues, shut), Letters(letters), Meant(letters)
    PROVE  Forward
<1> DEFINE w == Written(queues, alive, letters)
           v == [w EXCEPT ![shut] = <<>>]
<1>1. \A o \in Users : Steady(o, ses'[o])
  BY Stays DEF Goes, HostInv, Sessions
<1>2. Mail(w) /\ \A s \in Sockets : \A f \in ToSet(w[s]) : f \in ToSet(down[s]) \/ Truthful(f)
  BY Writes, MeantWrites DEF Heard
<1> HIDE DEF w
<1>3. \A s \in Sockets : \A f \in ToSet(down'[s]) : f \in ToSet(down[s]) \/ Truthful(f)
  <2>1. CASE shut \in alive
    <3>1. DOMAIN v = DOMAIN w /\ \A s \in DOMAIN w : v[s] = IF s = shut THEN <<>> ELSE w[s]
      OBVIOUS
    <3> HIDE DEF v
    <3>2. Mail(v) /\ \A s \in Sockets : \A f \in ToSet(v[s]) : f \in ToSet(down[s]) \/ Truthful(f)
      BY <3>1, <1>2, OneFrame DEF Mail
    <3>3. Letters(Told(shut)) /\ Meant(Told(shut))
      BY ToldCalm, ToldMeant DEF Calm
    <3>4. down' = Written(v, alive \ {shut}, Told(shut))
      BY <2>1 DEF Goes, v, w
    <3> QED
      BY <3>2, <3>3, <3>4, MeantWrites
  <2>2. CASE shut \notin alive
    BY <2>2, <1>2 DEF Goes, w
  <2> QED
    BY <2>1, <2>2
<1> QED
  BY <1>1, <1>3, EpochKept DEF Forward

LEMMA KicksForward ==
    ASSUME HostInv, EpochInv, NEW u \in Users, NEW queues, NEW s,
           Kicks(u, ses[u], queues, s), Heard(queues, Nobody)
    PROVE  Forward
<1> DEFINE letters == IF s \in Peers THEN To(s, Close) ELSE None
<1>1. /\ DOMAIN ses' = Users /\ \A o \in Users \ {u} : ses'[o] = ses[o]
      /\ ses'[u].task = ses[u].task /\ ses'[u].as = ses[u].as /\ ses'[u].phase = ses[u].phase
      /\ ses'[u].link = ses[u].link /\ ses'[u].key = ses[u].key /\ ses'[u].epoch = ses[u].epoch
      /\ ses'[u].minEpoch = ses[u].minEpoch /\ ses'[u].leaving = ses[u].leaving
      /\ ses'[u].greeting \subseteq ses[u].greeting
  BY DEF Kicks, HostInv, Sessions, WellKept, IsSession, Fields
<1>2. Steady(u, ses'[u])
  BY <1>1, Stays DEF Steady, Dated, Waits, Settled, Member
<1>3. \A o \in Users : Steady(o, ses'[o])
  BY <1>1, <1>2, Stays
<1>4. Letters(letters) /\ Meant(letters)
  BY Single, Says, SilenceMeant, Plain
<1>5. down' = Written(queues, alive, letters)
  BY DEF Kicks
<1> HIDE DEF letters
<1>6. \A r \in Sockets : \A f \in ToSet(down'[r]) : f \in ToSet(down[r]) \/ Truthful(f)
  BY <1>4, <1>5, MeantWrites DEF Heard
<1> QED
  BY <1>3, <1>6, EpochKept DEF Forward

LEMMA DialsForward ==
    ASSUME HostInv, EpochInv, NEW u \in Users, NEW c, NEW queues, NEW shut,
           Dials(u, c, queues, shut), Steady(u, [c EXCEPT !.dial = @ + 1, !.task = "open"]),
           Heard(queues, shut)
    PROVE  Forward
<1> DEFINE base == [queues EXCEPT ![shut] = <<>>]
<1>1. \A o \in Users : Steady(o, ses'[o])
  BY Stays DEF Dials, HostInv, Sessions
<1>2. \A s \in Sockets : \A f \in ToSet(down'[s]) : f \in ToSet(down[s]) \/ Truthful(f)
  <2>1. CASE shut \in alive
    <3>1. DOMAIN base = DOMAIN queues /\ \A r \in DOMAIN queues : base[r] = IF r = shut THEN <<>> ELSE queues[r]
      OBVIOUS
    <3> HIDE DEF base
    <3>2. Mail(base) /\ \A s \in Sockets : \A f \in ToSet(base[s]) : f \in ToSet(down[s]) \/ Truthful(f)
      BY <3>1, OneFrame DEF Mail, Heard
    <3>3. Letters(Told(shut)) /\ Meant(Told(shut))
      BY ToldCalm, ToldMeant DEF Calm
    <3>4. down' = Written(base, alive \ {shut}, Told(shut))
      BY <2>1 DEF Dials, base
    <3> QED
      BY <3>2, <3>3, <3>4, MeantWrites
  <2>2. CASE shut \notin alive
    <3>1. down' = Written(queues, alive \ {shut}, None)
      BY <2>2 DEF Dials
    <3>2. Letters(None) /\ Meant(None)
      BY Single, SilenceMeant
    <3> QED
      BY <3>1, <3>2, MeantWrites DEF Heard
  <2> QED
    BY <2>1, <2>2
<1> QED
  BY <1>1, <1>2, EpochKept DEF Forward

(***************************************************************************)
(* What the sessions do.                                                   *)
(***************************************************************************)

\* Who leaves, or stops waiting because it has left, is steady.
LEMMA Steadies ==
    ASSUME HostInv, EpochInv, NEW u \in Users
    PROVE  /\ IsSession(ses[u]) /\ Dated(ses[u]) /\ Keyed(ses[u]) /\ Steady(u, ses[u])
           /\ Steady(u, Left(ses[u])) /\ Steady(u, Discarded(ses[u]))
           /\ ses[u].leaving => Steady(u, [ses[u] EXCEPT !.task = "none"])
           /\ Steady(u, [ses[u] EXCEPT !.phase = "left"])
<1> DEFINE c == ses[u]
<1>1. IsSession(c) /\ Dated(c) /\ Keyed(c) /\ Steady(u, c)
  BY Stays DEF HostInv, Sessions, WellKept
<1>2. Steady(u, Left(c))
  BY <1>1 DEF Steady, Left, IsSession, Fields, Dated, Waits, Settled, Member
<1>3. Steady(u, Discarded(c))
  BY <1>1 DEF Steady, Left, Discarded, IsSession, Fields, Dated, Waits, Settled, Member
<1>4. ASSUME c.leaving PROVE Steady(u, [c EXCEPT !.task = "none"])
  BY <1>1, <1>4 DEF Steady, IsSession, Fields, Dated, Waits, Settled, Member
<1>5. Steady(u, [c EXCEPT !.phase = "left"])
  BY <1>1 DEF Steady, IsSession, Fields, Dated, Waits, Settled, Member
<1> QED
  BY <1>1, <1>2, <1>3, <1>4, <1>5

LEMMA FailsForward ==
    ASSUME HostInv, EpochInv, NEW u \in Users, NEW queues, Fails(u, ses[u], queues),
           \A shut : Heard(queues, shut)
    PROVE  Forward
  BY Steadies, GoesForward, SilenceMeant DEF Fails

\* A frame that arrives is true.
LEMMA TrueArrival ==
    ASSUME HostInv, EpochInv, NEW s \in alive, NEW t, Arrives(s, t)
    PROVE  /\ s \in Sockets /\ Owner(s) \in Users /\ Heard(Rest(s), s)
           /\ IsSession(ses[Owner(s)]) /\ Dated(ses[Owner(s)]) /\ Keyed(ses[Owner(s)])
           /\ Steady(Owner(s), ses[Owner(s)])
           /\ Truthful(Head(down[s]))
           /\ t # "close" => \A shut : Heard(Rest(s), shut)
<1>1. s \in Sockets /\ Owner(s) \in Users /\ Heard(Rest(s), s)
      /\ (t # "close" => \A shut : Heard(Rest(s), shut))
  BY Arrival
<1>2. Head(down[s]) \in ToSet(down[s])
  BY <1>1, Read DEF Arrives, HostInv, Network, Mail
<1> QED
  BY <1>1, <1>2, Steadies DEF EpochInv

\* A handshake is begun by who has a link, and is no host.
LEMMA GreetsForward ==
    ASSUME HostInv, EpochInv, NEW u \in Users, NEW c, NEW queues, Greets(u, c, queues),
           IsSession(c), c.epoch \in Nat, c.minEpoch \in Nat, c.epoch <= c.minEpoch,
           c.epoch = ses[u].epoch, c.as = "peer", ~Settled(ses[u]), c.greeting = {}, c.phase # "idle",
           \A shut : Heard(queues, shut)
    PROVE  Forward
<1>1. Steady(u, [c EXCEPT !.task = "hello", !.key = Nobody, !.spoiled = {}])
  BY DEF Steady, IsSession, Fields, Dated, Waits, Settled, Member
<1>2. Calm(ToHost(c.link, "hello", Nobody)) /\ Meant(ToHost(c.link, "hello", Nobody))
  BY ToHostCalm, ToHostMeant
<1> QED
  BY <1>1, <1>2, GoesForward DEF Greets, Calm

LEMMA ReadyForward ==
    ASSUME HostInv, EpochInv, NEW s \in alive, HearReady(s)
    PROVE  Forward
<1> DEFINE u == Owner(s)
           c == ses[u]
           awaited == c.task = "open" /\ s = Current(u)
           d == [c EXCEPT !.link = s, !.ready = "none"]
           host == [c EXCEPT !.task = "none", !.phase = "hosting", !.link = s, !.transferring = FALSE,
                             !.epoch = c.minEpoch]
<1>1. /\ s \in Sockets /\ u \in Users /\ IsSession(c) /\ Dated(c) /\ Steady(u, c)
      /\ \A shut : Heard(Rest(s), shut)
  BY TrueArrival DEF HearReady
<1>2. c.as \in {"peer", "host"} /\ (awaited => c.link = Nobody /\ c.epoch <= c.minEpoch)
  BY <1>1, Tames DEF Dated, Waits, WellKept
<1>3. CASE ~awaited
  <2>1. Goes(u, c, Rest(s), None, Nobody)
    BY <1>3 DEF HearReady
  <2> QED
    BY <2>1, <1>1, GoesForward, SilenceMeant
<1>4. CASE awaited /\ c.leaving
  <2>1. Goes(u, [c EXCEPT !.task = "none"], Rest(s), None, s)
    BY <1>4 DEF HearReady
  <2> QED
    BY <2>1, <1>1, <1>4, Steadies, GoesForward, SilenceMeant
<1>5. CASE awaited /\ ~c.leaving /\ c.as = "peer"
  <2>1. Greets(u, d, Rest(s))
    BY <1>5 DEF HearReady
  <2>2. /\ IsSession(d) /\ d.epoch = c.epoch /\ d.minEpoch = c.minEpoch /\ d.as = "peer"
        /\ d.greeting = {} /\ d.phase = c.phase
    BY <1>1, <1>5 DEF IsSession, Fields, Dated, Settled
  <2>3. c.phase # "idle"
    BY <1>5, <1>1 DEF Dated
  <2> HIDE DEF d
  <2> QED
    BY <2>1, <2>2, <2>3, <1>1, <1>2, <1>5, GreetsForward DEF Dated, Settled
<1>6. CASE awaited /\ ~c.leaving /\ c.as = "host"
  <2>1. Goes(u, host, Rest(s), None, Nobody)
    BY <1>6 DEF HearReady
  <2>2. s # Nobody
    BY <1>1, SocketsAre
  <2>3. Steady(u, host)
    BY <2>2, <1>1, <1>2, <1>6 DEF Steady, IsSession, Fields, Dated, Waits, Settled, Member
  <2> HIDE DEF host
  <2> QED
    BY <2>1, <2>3, <1>1, GoesForward, SilenceMeant
<1> QED
  BY <1>2, <1>3, <1>4, <1>5, <1>6

LEMMA RejectForward ==
    ASSUME HostInv, EpochInv, NEW s \in alive, HearReject(s)
    PROVE  Forward
<1> DEFINE u == Owner(s)
           c == ses[u]
           awaited == c.task = "open" /\ s = Current(u)
           idle == [c EXCEPT !.task = IF awaited THEN "none" ELSE @]
           turned == [c EXCEPT !.as = IF @ = "peer" THEN "host" ELSE "peer", !.tries = @ + 1]
<1>1. /\ s \in Sockets /\ u \in Users /\ IsSession(c) /\ Dated(c) /\ Steady(u, c)
      /\ \A shut : Heard(Rest(s), shut)
  BY TrueArrival DEF HearReject
<1>2. CASE ~awaited \/ c.leaving
  <2>1. Goes(u, idle, Rest(s), None, s)
    BY <1>2 DEF HearReject
  <2>2. Steady(u, idle)
    BY <1>1, <1>2 DEF Steady, IsSession, Fields, Dated, Waits, Settled, Member
  <2> HIDE DEF idle
  <2> QED
    BY <2>1, <2>2, <1>1, GoesForward, SilenceMeant
<1>3. CASE awaited /\ ~c.leaving /\ c.transferring
  <2>1. Goes(u, Left(c), Rest(s), None, s)
    BY <1>3 DEF HearReject
  <2> QED
    BY <2>1, <1>1, Steadies, GoesForward, SilenceMeant
<1>4. CASE awaited /\ ~c.leaving /\ ~c.transferring /\ c.tries < MaxEnterAttempts
  <2>1. Dials(u, turned, Rest(s), s)
    BY <1>4 DEF HearReject
  <2>2. Steady(u, [turned EXCEPT !.dial = @ + 1, !.task = "open"])
    BY <1>1, <1>4 DEF Steady, IsSession, Fields, Dated, Waits, Settled, Member
  <2> HIDE DEF turned
  <2> QED
    BY <2>1, <2>2, <1>1, DialsForward
<1>5. CASE awaited /\ ~c.leaving /\ ~c.transferring /\ ~(c.tries < MaxEnterAttempts)
  <2>1. Goes(u, Discarded(c), Rest(s), None, s)
    BY <1>5 DEF HearReject
  <2> QED
    BY <2>1, <1>1, Steadies, GoesForward, SilenceMeant
<1> QED
  BY <1>2, <1>3, <1>4, <1>5

LEMMA CloseForward ==
    ASSUME HostInv, EpochInv, NEW s \in alive, HearClose(s)
    PROVE  Forward
<1> DEFINE u == Owner(s)
           c == ses[u]
           gone == [(IF c.closing THEN c ELSE [c EXCEPT !.phase = "left"])
                       EXCEPT !.roster = <<>>, !.greeting = {}, !.spoiled = {}]
           back == [c EXCEPT !.task = "backoff"]
           quiet == [c EXCEPT !.task = "none"]
<1>1. /\ s \in Sockets /\ u \in Users /\ IsSession(c) /\ Dated(c) /\ Steady(u, c) /\ Heard(Rest(s), s)
      /\ Steady(u, Left(c)) /\ Steady(u, Discarded(c)) /\ (c.leaving => Steady(u, quiet))
  BY TrueArrival, Steadies DEF HearClose
<1>2. Steady(u, gone)
  BY <1>1 DEF Steady, IsSession, Fields, Dated, Waits, Settled, Member
<1>3. c.task = "open" => Steady(u, back)
  BY <1>1 DEF Steady, IsSession, Fields, Dated, Waits, Settled, Member
<1> HIDE DEF gone, back, quiet
<1>4. PICK d : Goes(u, d, Rest(s), None, s) /\ Steady(u, d)
  BY <1>1, <1>2, <1>3 DEF HearClose, gone, back, quiet
<1> QED
  BY <1>1, <1>4, GoesForward, SilenceMeant

LEMMA AckForward ==
    ASSUME HostInv, EpochInv, NEW s \in alive, HearAck(s)
    PROVE  Forward
<1> DEFINE u == Owner(s)
           c == ses[u]
           f == Head(down[s])
           d == [c EXCEPT !.task = "join", !.key = f.key]
<1>1. /\ s \in Sockets /\ u \in Users /\ IsSession(c) /\ Dated(c) /\ Steady(u, c)
      /\ Truthful(f) /\ f.t = "ack" /\ \A shut : Heard(Rest(s), shut)
  BY TrueArrival DEF HearAck, Arrives
<1>2. IsHost(f.key)
  BY <1>1 DEF Truthful
<1>3. c.task = "hello" => Steady(u, d)
  BY <1>1, <1>2 DEF Steady, IsSession, Fields, Dated, Waits, Settled, Member
<1>4. Letters(ToHost(s, "join", f.key)) /\ Meant(ToHost(s, "join", f.key))
  BY <1>2, ToHostCalm, ToHostMeant DEF Calm
<1> HIDE DEF d
<1>5. /\ c.task = "hello"
      /\ (Fails(u, c, Rest(s)) \/ Goes(u, d, Rest(s), ToHost(s, "join", f.key), Nobody))
  BY DEF HearAck, d
<1> QED
  BY <1>1, <1>3, <1>4, <1>5, FailsForward, GoesForward

\* The host that is joined is of no earlier epoch than the session waits for.
LEMMA JoinedForward ==
    ASSUME HostInv, EpochInv, NEW s \in alive, HearJoined(s)
    PROVE  Forward
<1> DEFINE u == Owner(s)
           c == ses[u]
           f == Head(down[s])
           d == [c EXCEPT !.task = "none", !.phase = "in-room", !.transferring = FALSE,
                          !.epoch = f.epoch]
<1>1. /\ s \in Sockets /\ u \in Users /\ IsSession(c) /\ Dated(c) /\ Keyed(c) /\ Steady(u, c)
      /\ Truthful(f) /\ f.t = "joined" /\ \A shut : Heard(Rest(s), shut)
      /\ Steady(u, Left(c)) /\ Steady(u, Discarded(c))
  BY TrueArrival, Steadies DEF HearJoined, Arrives
<1>2. f.key = c.key /\ s = c.link /\ c.task = "join"
  BY DEF HearJoined
<1>3. IsHost(f.key) /\ f.epoch = EpochOf(f.key)
  BY <1>1 DEF Truthful
<1>4. f.epoch \in Nat
  BY <1>3, SocketsAre DEF IsHost, EpochOf, EpochInv, Dated
<1>5. ~Stale(c, f) => Steady(u, d)
  <2> SUFFICES ASSUME ~Stale(c, f) PROVE Steady(u, d)
    OBVIOUS
  <2>1. f.epoch >= c.epoch
    BY <1>1, <1>2, <1>4 DEF Stale, Dated, Waits
  <2>2. s # Nobody /\ ~Settled(c) /\ c.phase # "idle" /\ c.greeting = {}
    BY <1>1, <1>2, SocketsAre DEF Dated, Settled
  <2>3. /\ d.epoch = f.epoch /\ d.minEpoch = c.minEpoch /\ d.task = "none" /\ d.phase = "in-room"
        /\ d.as = c.as /\ d.link = c.link /\ d.key = c.key /\ d.greeting = c.greeting
    BY <1>1 DEF IsSession, Fields
  <2> HIDE DEF d
  <2> QED
    BY <2>1, <2>2, <2>3, <1>1, <1>2, <1>3, <1>4 DEF Steady, Dated, Waits, Settled
<1> HIDE DEF d
<1>6. \/ Goes(u, Left(c), Rest(s), None, s)
      \/ Goes(u, Discarded(c), Rest(s), None, s)
      \/ ~Stale(c, f) /\ Goes(u, d, Rest(s), None, Nobody)
  BY DEF HearJoined, d
<1> QED
  BY <1>1, <1>5, <1>6, GoesForward, SilenceMeant

LEMMA ClaimedForward ==
    ASSUME HostInv, EpochInv, NEW s \in alive, HearClaimed(s)
    PROVE  Forward
<1> DEFINE u == Owner(s)
           c == ses[u]
           d == [c EXCEPT !.ready = IF @ = "none" THEN "early" ELSE @]
           quiet == [c EXCEPT !.task = "none"]
<1>1. /\ s \in Sockets /\ u \in Users /\ IsSession(c) /\ Dated(c) /\ Steady(u, c)
      /\ \A shut : Heard(Rest(s), shut)
  BY TrueArrival DEF HearClaimed
<1>0. (c.leaving => Steady(u, quiet)) /\ c.as \in {"peer", "host"}
  BY <1>1, Steadies, Tames DEF WellKept
<1>2. Steady(u, d)
  BY <1>1 DEF Steady, IsSession, Fields, Dated, Waits, Settled, Member
<1> HIDE DEF d, quiet
<1>3. \/ Goes(u, c, Rest(s), None, Nobody)
      \/ c.leaving /\ Goes(u, quiet, Rest(s), None, Nobody)
      \/ c.task = "claim" /\ c.as # "host" /\ s = c.link /\ Greets(u, c, Rest(s))
      \/ Goes(u, d, Rest(s), None, Nobody)
  BY DEF HearClaimed, d, quiet
<1>4. CASE c.task = "claim" /\ c.as # "host" /\ s = c.link /\ Greets(u, c, Rest(s))
  <2>1. /\ c.as = "peer" /\ c.epoch <= c.minEpoch /\ c.phase # "idle" /\ c.greeting = {} /\ ~Settled(c)
        /\ c.epoch \in Nat /\ c.minEpoch \in Nat
    BY <1>0, <1>1, <1>4, SocketsAre DEF Dated, Waits, Settled
  <2> QED
    BY <2>1, <1>1, <1>4, GreetsForward
<1> QED
  BY <1>0, <1>1, <1>2, <1>3, <1>4, GoesForward, SilenceMeant

\* What a member is told to wait for is the epoch after its host's, which is its own.
LEMMA TransferForward ==
    ASSUME HostInv, EpochInv, NEW s \in alive, HearTransfer(s)
    PROVE  Forward
<1> DEFINE u == Owner(s)
           c == ses[u]
           f == Head(down[s])
           told == [c EXCEPT !.transferring = TRUE, !.minEpoch = f.epoch,
                             !.ready = IF @ \in {"none", "early"} THEN "asked" ELSE "again"]
           heir == [told EXCEPT !.as = "host", !.link = Nobody, !.key = Nobody]
           waits == [told EXCEPT !.task = "claim"]
<1>1. /\ s \in Sockets /\ u \in Users /\ IsSession(c) /\ Dated(c) /\ Keyed(c) /\ Steady(u, c)
      /\ Truthful(f) /\ f.t = "transfer" /\ \A shut : Heard(Rest(s), shut)
  BY TrueArrival DEF HearTransfer, Arrives
<1>2. s = c.link /\ c.as = "peer" /\ Member(c) /\ f.key = c.key /\ c.task = "none"
  BY DEF HearTransfer, Member
<1>3. c.epoch \in Nat /\ f.epoch = c.epoch + 1 /\ f.epoch \in Nat
  BY <1>1, <1>2 DEF Truthful, Keyed, Dated
<1>4. s # Nobody /\ c.phase # "idle" /\ c.greeting = {} /\ ~Settled(c)
  BY <1>1, <1>2, SocketsAre DEF Dated, Settled
<1>5. /\ IsSession(told) /\ told.epoch = c.epoch /\ told.minEpoch = f.epoch /\ told.as = "peer"
      /\ told.greeting = {} /\ told.phase = c.phase /\ told.key = c.key /\ told.link = c.link
      /\ told.task = "none"
  BY <1>1, <1>2, <1>4 DEF IsSession, Fields
<1> HIDE DEF told
<1>6. Steady(u, [heir EXCEPT !.dial = @ + 1, !.task = "open"])
  BY <1>1, <1>3, <1>4, <1>5 DEF Steady, IsSession, Fields, Dated, Waits, Settled, Member
<1>7. Steady(u, waits)
  BY <1>1, <1>3, <1>4, <1>5 DEF Steady, IsSession, Fields, Dated, Waits, Settled, Member
<1> HIDE DEF heir, waits
<1>8. \/ Dials(u, heir, Rest(s), s)
      \/ Greets(u, told, Rest(s))
      \/ Goes(u, waits, Rest(s), None, Nobody)
  BY DEF HearTransfer, told, heir, waits
<1>9. CASE Dials(u, heir, Rest(s), s)
  BY <1>1, <1>6, <1>9, DialsForward
<1>10. CASE Greets(u, told, Rest(s))
  <2>1. told.epoch \in Nat /\ told.minEpoch \in Nat /\ told.epoch <= told.minEpoch /\ told.phase # "idle"
    BY <1>3, <1>4, <1>5
  <2> QED
    BY <2>1, <1>1, <1>4, <1>5, <1>10, GreetsForward
<1>11. CASE Goes(u, waits, Rest(s), None, Nobody)
  BY <1>1, <1>7, <1>11, GoesForward, SilenceMeant
<1> QED
  BY <1>8, <1>9, <1>10, <1>11

LEMMA StrayForward ==
    ASSUME HostInv, EpochInv, NEW s \in alive, HearStray(s)
    PROVE  Forward
<1> DEFINE u == Owner(s)
           c == ses[u]
           d == [c EXCEPT !.spoiled = {s}]
<1>1. Arrives(s, Head(down[s]).t) /\ Head(down[s]).t # "close"
  BY DEF HearStray, Arrives
<1>2. /\ s \in Sockets /\ u \in Users /\ IsSession(c) /\ Dated(c) /\ Steady(u, c)
      /\ \A shut : Heard(Rest(s), shut)
  BY <1>1, TrueArrival
<1>3. Steady(u, d)
  BY <1>2 DEF Steady, IsSession, Fields, Dated, Waits, Settled, Member
<1> HIDE DEF d
<1>4. \/ Goes(u, c, Rest(s), None, Nobody)
      \/ Goes(u, d, Rest(s), None, Nobody)
      \/ Goes(u, c, Rest(s), None, s)
  BY DEF HearStray, d
<1> QED
  BY <1>2, <1>3, <1>4, GoesForward, SilenceMeant

LEMMA PeerUpForward ==
    ASSUME HostInv, EpochInv, NEW s \in alive, HearPeerUp(s)
    PROVE  Forward
<1> DEFINE u == Owner(s)
           c == ses[u]
           p == Head(down[s]).from
           d == [c EXCEPT !.greeting = @ \cup {p}]
<1>1. /\ s \in Sockets /\ u \in Users /\ IsSession(c) /\ Dated(c) /\ Steady(u, c)
      /\ \A shut : Heard(Rest(s), shut)
  BY TrueArrival DEF HearPeerUp
<1>2. c.as \in {"peer", "host"} /\ s # Nobody
  BY <1>1, Tames, SocketsAre DEF WellKept
<1>3. (s = c.link /\ c.as # "peer") => Steady(u, d)
  BY <1>1, <1>2 DEF Steady, IsSession, Fields, Dated, Waits, Settled, Member
<1> HIDE DEF d
<1>4. \/ Goes(u, c, Rest(s), None, Nobody)
      \/ Kicks(u, c, Rest(s), p)
      \/ s = c.link /\ c.as # "peer" /\ Goes(u, d, Rest(s), None, Nobody)
  BY DEF HearPeerUp, d
<1> QED
  BY <1>1, <1>3, <1>4, GoesForward, KicksForward, SilenceMeant

LEMMA PeerDownForward ==
    ASSUME HostInv, EpochInv, NEW s \in alive, HearPeerDown(s)
    PROVE  Forward
<1> DEFINE u == Owner(s)
           c == ses[u]
           p == Head(down[s]).from
           d == [c EXCEPT !.greeting = @ \ {p}, !.spoiled = @ \ {p},
                          !.roster = IF c.closing THEN @ ELSE Deleted(@, p)]
<1>1. /\ s \in Sockets /\ u \in Users /\ IsSession(c) /\ Dated(c) /\ Steady(u, c)
      /\ \A shut : Heard(Rest(s), shut)
  BY TrueArrival DEF HearPeerDown
<1>2. /\ d.task = c.task /\ d.as = c.as /\ d.phase = c.phase /\ d.link = c.link /\ d.key = c.key
      /\ d.epoch = c.epoch /\ d.minEpoch = c.minEpoch /\ d.leaving = c.leaving
      /\ d.greeting \subseteq c.greeting
  BY <1>1 DEF IsSession, Fields
<1>3. Goes(u, d, Rest(s), None, Nobody)
  BY DEF HearPeerDown
<1> HIDE DEF d
<1>4. Steady(u, d)
  BY <1>1, <1>2 DEF Steady, Dated, Waits, Settled, Member
<1> QED
  BY <1>1, <1>3, <1>4, GoesForward, SilenceMeant

\* Who shakes hands hosts on the link the frame came by.
LEMMA Greeter ==
    ASSUME HostInv, EpochInv, NEW s \in Sockets, s = ses[Owner(s)].link, ses[Owner(s)].greeting # {}
    PROVE  IsHost(s) /\ ses[Owner(s)].epoch = EpochOf(s)
  BY SocketsAre DEF EpochInv, Dated, Settled, IsHost, EpochOf

LEMMA HelloFrameForward ==
    ASSUME HostInv, EpochInv, NEW s \in alive, HearHello(s)
    PROVE  Forward
<1> DEFINE u == Owner(s)
           p == Head(down[s]).from
           letters == IF s = ses[u].link /\ p \in ses[u].greeting THEN ToPeer(p, "ack", s, 0) ELSE None
<1>1. /\ s \in Sockets /\ u \in Users /\ Steady(u, ses[u]) /\ \A shut : Heard(Rest(s), shut)
  BY TrueArrival DEF HearHello
<1>2. Letters(letters) /\ Meant(letters)
  <2>1. CASE s = ses[u].link /\ p \in ses[u].greeting
    <3>1. IsHost(s)
      BY <1>1, <2>1, Greeter
    <3>2. Calm(ToPeer(p, "ack", s, 0)) /\ Meant(ToPeer(p, "ack", s, 0))
      BY <3>1, ToPeerCalm, ToPeerMeant
    <3> QED
      BY <2>1, <3>2 DEF Calm
  <2>2. CASE ~(s = ses[u].link /\ p \in ses[u].greeting)
    BY <2>2, SilenceMeant
  <2> QED
    BY <2>1, <2>2
<1>3. Goes(u, ses[u], Rest(s), letters, Nobody)
  BY DEF HearHello
<1> HIDE DEF letters
<1> QED
  BY <1>1, <1>2, <1>3, GoesForward

LEMMA JoinForward ==
    ASSUME HostInv, EpochInv, NEW s \in alive, HearJoin(s)
    PROVE  Forward
<1> DEFINE u == Owner(s)
           c == ses[u]
           p == Head(down[s]).from
           d == [c EXCEPT !.greeting = @ \ {p}, !.roster = Append(@, p)]
           answer == ToPeer(p, "joined", s, c.epoch)
<1>1. /\ s \in Sockets /\ u \in Users /\ IsSession(c) /\ Dated(c) /\ Steady(u, c)
      /\ \A shut : Heard(Rest(s), shut)
  BY TrueArrival DEF HearJoin
<1>2. /\ d.task = c.task /\ d.as = c.as /\ d.phase = c.phase /\ d.link = c.link /\ d.key = c.key
      /\ d.epoch = c.epoch /\ d.minEpoch = c.minEpoch /\ d.leaving = c.leaving
      /\ d.greeting \subseteq c.greeting
  BY <1>1 DEF IsSession, Fields
<1>3. \/ Goes(u, c, Rest(s), None, Nobody)
      \/ Kicks(u, c, Rest(s), p)
      \/ s = c.link /\ p \in c.greeting /\ Goes(u, d, Rest(s), answer, Nobody)
  BY DEF HearJoin
<1> HIDE DEF d
<1>4. Steady(u, d)
  BY <1>1, <1>2 DEF Steady, Dated, Waits, Settled, Member
<1>5. (s = c.link /\ p \in c.greeting) => Letters(answer) /\ Meant(answer)
  <2> SUFFICES ASSUME s = c.link, p \in c.greeting PROVE Letters(answer) /\ Meant(answer)
    OBVIOUS
  <2>1. IsHost(s) /\ c.epoch = EpochOf(s)
    BY <1>1, Greeter
  <2> QED
    BY <2>1, ToPeerCalm, ToPeerMeant DEF Calm
<1> HIDE DEF answer
<1> QED
  BY <1>1, <1>3, <1>4, <1>5, GoesForward, KicksForward, SilenceMeant

LEMMA PingFrameForward ==
    ASSUME HostInv, EpochInv, NEW s \in alive, HearPing(s)
    PROVE  Forward
<1> DEFINE u == Owner(s)
           c == ses[u]
           f == Head(down[s])
           d == [c EXCEPT !.spoiled = @ \cup {f.from}]
           letters == IF s = c.link /\ f.from \in ToSet(c.roster) /\ f.key = s
                      THEN ToPeer(f.from, "pong", s, 0) ELSE None
<1>1. /\ s \in Sockets /\ u \in Users /\ IsSession(c) /\ Dated(c) /\ Steady(u, c)
      /\ Truthful(f) /\ \A shut : Heard(Rest(s), shut)
  BY TrueArrival DEF HearPing
<1>2. Steady(u, d)
  BY <1>1 DEF Steady, IsSession, Fields, Dated, Waits, Settled, Member
<1>3. Letters(letters) /\ Meant(letters)
  <2>1. CASE s = c.link /\ f.from \in ToSet(c.roster) /\ f.key = s
    <3>1. IsHost(s)
      BY <1>1, <2>1, SocketsAre DEF Truthful
    <3>2. Calm(ToPeer(f.from, "pong", s, 0)) /\ Meant(ToPeer(f.from, "pong", s, 0))
      BY <3>1, ToPeerCalm, ToPeerMeant
    <3> QED
      BY <2>1, <3>2 DEF Calm
  <2>2. CASE ~(s = c.link /\ f.from \in ToSet(c.roster) /\ f.key = s)
    BY <2>2, SilenceMeant
  <2> QED
    BY <2>1, <2>2
<1>4. Goes(u, d, Rest(s), None, Nobody) \/ Goes(u, c, Rest(s), letters, Nobody)
  BY DEF HearPing
<1> HIDE DEF d, letters
<1> QED
  BY <1>1, <1>2, <1>3, <1>4, GoesForward, SilenceMeant

LEMMA HearForward ==
    ASSUME HostInv, EpochInv, NEW s \in alive, Hear(s)
    PROVE  Forward
  BY ReadyForward, RejectForward, CloseForward, AckForward, JoinedForward, ClaimedForward,
     TransferForward, StrayForward, PeerUpForward, PeerDownForward, HelloFrameForward, JoinForward,
     PingFrameForward
  DEF Hear

LEMMA EnterForward ==
    ASSUME HostInv, EpochInv, NEW u \in Users, Enter(u) \/ Redial(u)
    PROVE  Forward
<1> DEFINE c == ses[u]
           d == [c EXCEPT !.phase = "connecting", !.tries = 1]
<1>1. IsSession(c) /\ Dated(c) /\ Steady(u, c) /\ Heard(down, Nobody)
  BY Steadies, NothingRead
<1>2. CASE Enter(u)
  <2>1. Steady(u, [d EXCEPT !.dial = @ + 1, !.task = "open"])
    BY <1>1, <1>2 DEF Enter, Steady, IsSession, Fields, Dated, Waits, Settled, Member
  <2>2. Dials(u, d, down, Nobody)
    BY <1>2 DEF Enter
  <2> HIDE DEF d
  <2> QED
    BY <2>1, <2>2, <1>1, DialsForward
<1>3. CASE Redial(u)
  <2>1. Steady(u, [c EXCEPT !.dial = @ + 1, !.task = "open"])
    BY <1>1, <1>3 DEF Redial, Steady, IsSession, Fields, Dated, Waits, Settled, Member
  <2>2. Dials(u, c, down, Nobody)
    BY <1>3 DEF Redial
  <2> QED
    BY <2>1, <2>2, <1>1, DialsForward
<1> QED
  BY <1>2, <1>3

LEMMA TicksForward ==
    ASSUME HostInv, EpochInv, NEW u \in Users, Ticks(u)
    PROVE  Forward
<1> DEFINE c == ses[u]
           handed == [c EXCEPT !.task = "grace"]
           over == [c EXCEPT !.task = "none", !.roster = <<>>, !.greeting = {}, !.spoiled = {}]
<1>1. /\ IsSession(c) /\ Dated(c) /\ \A shut : Heard(down, shut)
      /\ Steady(u, c) /\ Steady(u, Left(c)) /\ (c.leaving => Steady(u, [c EXCEPT !.task = "none"]))
      /\ Steady(u, [c EXCEPT !.phase = "left"])
  BY Steadies, NothingRead
<1>2. CASE Redial(u)
  BY <1>2, EnterForward
<1>3. CASE HandOver(u)
  <2> DEFINE f == Frame("transfer", c.link, c.link, c.epoch + 1, Heir(c.roster))
             letters == [p \in ToSet(c.roster) \cap Peers |-> <<f>>]
  <2>1. Steady(u, handed)
    BY <1>1, <1>3 DEF HandOver, Steady, IsSession, Fields, Dated, Waits, Settled, Member
  <2>2. c.as = "host" /\ c.link # Nobody
    BY <1>1, <1>3 DEF HandOver, Dated, Settled
  <2>3. c.link \in Sockets /\ Owner(c.link) = u
    BY <2>2 DEF HostInv, Sessions, WellKept, OwnLink
  <2>4. IsHost(c.link) /\ EpochOf(c.link) = c.epoch
    BY <2>2, <2>3 DEF IsHost, EpochOf
  <2>5. Truthful(f)
    BY <2>2, <2>4 DEF Truthful, Frame
  <2>6. Goes(u, handed, down, letters, Nobody)
    BY <1>3 DEF HandOver
  <2> HIDE DEF f
  <2>7. Letters(letters) /\ Meant(letters)
    BY <2>5, OneFrame DEF Letters, Meant
  <2> HIDE DEF handed, letters
  <2> QED
    BY <2>1, <2>6, <2>7, <1>1, GoesForward
<1>4. CASE GraceEnds(u)
  <2>1. Steady(u, over)
    BY <1>1, <1>4 DEF GraceEnds, Steady, IsSession, Fields, Dated, Waits, Settled, Member
  <2>2. Goes(u, over, down, None, c.link)
    BY <1>4 DEF GraceEnds
  <2> HIDE DEF over
  <2> QED
    BY <2>1, <2>2, <1>1, GoesForward, SilenceMeant
<1>5. CASE RehomeGivesUp(u)
  BY <1>1, <1>5, GoesForward, SilenceMeant DEF RehomeGivesUp
<1>6. CASE ConnectTimesOut(u)
  BY <1>1, <1>6, FailsForward DEF ConnectTimesOut
<1>7. CASE HostLost(u)
  BY <1>1, <1>7, GoesForward, SilenceMeant DEF HostLost
<1>8. CASE \E p \in Sockets : HostGivesUp(u, p) \/ HostDropsDead(u, p)
  BY <1>1, <1>8, KicksForward DEF HostGivesUp, HostDropsDead
<1> QED
  BY <1>2, <1>3, <1>4, <1>5, <1>6, <1>7, <1>8 DEF Ticks

LEMMA OddForward ==
    ASSUME HostInv, EpochInv, NEW u \in Users, OpenTimesOut(u) \/ HostDoubted(u) \/ Ping(u)
    PROVE  Forward
<1> DEFINE c == ses[u]
           back == [c EXCEPT !.task = "backoff"]
<1>1. /\ IsSession(c) /\ Dated(c) /\ Keyed(c) /\ \A shut : Heard(down, shut)
      /\ Steady(u, c) /\ Steady(u, [c EXCEPT !.phase = "left"])
  BY Steadies, NothingRead
<1>2. CASE OpenTimesOut(u)
  <2>1. Steady(u, back)
    BY <1>1, <1>2 DEF OpenTimesOut, Steady, IsSession, Fields, Dated, Waits, Settled, Member
  <2>2. Goes(u, back, down, None, Nobody)
    BY <1>2 DEF OpenTimesOut
  <2> HIDE DEF back
  <2> QED
    BY <2>1, <2>2, <1>1, GoesForward, SilenceMeant
<1>3. CASE HostDoubted(u)
  BY <1>1, <1>3, GoesForward, SilenceMeant DEF HostDoubted
<1>4. CASE Ping(u)
  <2>1. Goes(u, c, down, ToHost(c.link, "ping", c.key), Nobody)
    BY <1>4 DEF Ping
  <2>2. c.key = Nobody \/ IsHost(c.key)
    BY <1>1 DEF Keyed
  <2>3. Calm(ToHost(c.link, "ping", c.key)) /\ Meant(ToHost(c.link, "ping", c.key))
    BY <2>2, ToHostCalm, ToHostMeant
  <2> QED
    BY <2>1, <2>3, <1>1, GoesForward DEF Calm
<1> QED
  BY <1>2, <1>3, <1>4

LEMMA LeaveForward ==
    ASSUME HostInv, EpochInv, NEW u \in Users, Leave(u)
    PROVE  Forward
<1> DEFINE c == ses[u]
           gone == [c EXCEPT !.leaving = TRUE, !.phase = "left"]
           quiet == [gone EXCEPT !.task = "none"]
           handing == [gone EXCEPT !.task = "handing", !.closing = TRUE]
           alone == [gone EXCEPT !.closing = TRUE, !.greeting = {}, !.spoiled = {}]
<1>1. IsSession(c) /\ Dated(c) /\ Steady(u, c) /\ (\A shut : Heard(down, shut)) /\ c.phase # "idle"
  BY Steadies, NothingRead DEF Leave
<1>2. Steady(u, gone) /\ Steady(u, quiet) /\ Steady(u, alone)
  <2>1. Steady(u, gone)
    BY <1>1 DEF Steady, IsSession, Fields, Dated, Waits, Settled, Member
  <2>2. Steady(u, quiet)
    BY <1>1 DEF Steady, IsSession, Fields, Dated, Waits, Settled, Member
  <2>3. Steady(u, alone)
    BY <1>1 DEF Steady, IsSession, Fields, Dated, Waits, Settled, Member
  <2> QED
    BY <2>1, <2>2, <2>3
<1>3. (c.as = "host" /\ c.link # Nobody) => Steady(u, handing)
  BY <1>1 DEF Steady, IsSession, Fields, Dated, Waits, Settled, Member
<1> HIDE DEF gone, quiet, handing, alone
<1>4. \/ Goes(u, quiet, down, None, c.link)
      \/ /\ c.as = "host" /\ c.link # Nobody
         /\ ses' = [ses EXCEPT ![u] = handing]
         /\ down' = down
      \/ Goes(u, alone, down, None, c.link)
      \/ Goes(u, gone, down, None, Nobody)
  BY DEF Leave, gone, quiet, handing, alone
<1>5. CASE /\ c.as = "host" /\ c.link # Nobody
           /\ ses' = [ses EXCEPT ![u] = handing]
           /\ down' = down
  <2>1. \A o \in Users : Steady(o, ses'[o])
    BY <1>3, <1>5, Stays DEF HostInv, Sessions
  <2> QED
    BY <2>1, <1>5, EpochKept DEF Forward
<1> QED
  BY <1>1, <1>2, <1>4, <1>5, GoesForward, SilenceMeant

(***************************************************************************)
(* What the relay does by itself.                                          *)
(***************************************************************************)

\* The sessions are as they were, and what the relay writes names none of them.
LEMMA RelayForward ==
    ASSUME HostInv, EpochInv, ses' = ses, NEW open, NEW letters, Letters(letters), Meant(letters),
           down' = Written(down, open, letters)
    PROVE  Forward
<1>1. \A o \in Users : Steady(o, ses'[o])
  BY Stays
<1>2. Mail(down)
  BY DEF HostInv, Network
<1>3. \A s \in Sockets : \A f \in ToSet(down'[s]) : f \in ToSet(down[s]) \/ Truthful(f)
  BY <1>2, MeantWrites
<1> QED
  BY <1>1, <1>3, EpochKept DEF Forward

LEMMA SweepForward ==
    ASSUME HostInv, EpochInv, Overdue \/ Sweep
    PROVE  Forward
<1>1. CASE Overdue
  <2>1. \A o \in Users : Steady(o, ses'[o])
    BY <1>1, Stays DEF Overdue
  <2> QED
    BY <2>1, <1>1, EpochKept DEF Forward, Overdue
<1>2. CASE Sweep
  BY <1>2, RelayForward, Goodbyes, GoodbyesMeant DEF Sweep, Calm
<1> QED
  BY <1>1, <1>2

\* Of two sets of letters, each one is one of the first or of the other.
LEMMA BothMeant ==
    ASSUME NEW first, NEW other, Letters(first), Meant(first), Letters(other), Meant(other)
    PROVE  Letters(Both(first, other)) /\ Meant(Both(first, other))
<1> DEFINE b == Both(first, other)
<1>1. \A s \in DOMAIN b : \/ s \in DOMAIN first /\ b[s] = first[s]
                          \/ s \in DOMAIN other /\ b[s] = other[s]
  BY DEF Both
<1> HIDE DEF b
<1>2. Letters(b) /\ Meant(b)
  BY <1>1 DEF Letters, Meant
<1> QED
  BY <1>2 DEF b

LEMMA CutForward ==
    ASSUME HostInv, EpochInv, NEW s \in alive, Cut(s)
    PROVE  Forward
<1>1. Letters(To(s, Close)) /\ Meant(To(s, Close)) /\ Letters(Told(s)) /\ Meant(Told(s))
  BY Single, Says, Plain, ToldCalm, ToldMeant DEF Calm
<1>2. Letters(Both(To(s, Close), Told(s))) /\ Meant(Both(To(s, Close), Told(s)))
  BY <1>1, BothMeant
<1> QED
  BY <1>2, RelayForward DEF Cut

LEMMA RelayHelloForward ==
    ASSUME HostInv, EpochInv, NEW s, NEW as, RelayHello(s, as)
    PROVE  Forward
<1> DEFINE ups == [i \in DOMAIN room.peers |-> Of("peer_up", room.peers[i])]
           news == [p \in Peers \cup {s} |-> IF p = s THEN <<Say("ready")>> \o ups
                                             ELSE <<Say("host_claimed")>>]
<1>1. IsQueue(ups) /\ \A f \in ToSet(ups) : Truthful(f)
  <2>1. room.peers \in Seq(ToSet(room.peers))
    BY DEF HostInv, Network, IsQueue
  <2>2. ups \in Seq({ups[i] : i \in DOMAIN room.peers})
    BY <2>1
  <2>3. \A f \in ToSet(ups) : Truthful(f)
    BY Plain DEF ToSet
  <2> HIDE DEF ups
  <2> QED
    BY <2>2, <2>3, Sequence
<1> HIDE DEF ups
<1>2. Letters(news) /\ Meant(news)
  <2>1. IsQueue(<<Say("ready")>> \o ups) /\ \A f \in ToSet(<<Say("ready")>> \o ups) : Truthful(f)
    BY <1>1, OneFrame, Joined, Plain
  <2>2. IsQueue(<<Say("host_claimed")>>) /\ \A f \in ToSet(<<Say("host_claimed")>>) : Truthful(f)
    BY OneFrame, Plain
  <2> QED
    BY <2>1, <2>2 DEF Letters, Meant
<1>3. /\ Letters(To(s, Say("ready"))) /\ Meant(To(s, Say("ready")))
      /\ Letters(To(s, Say("room_exists"))) /\ Meant(To(s, Say("room_exists")))
      /\ Letters(To(s, Say("no_such_room"))) /\ Meant(To(s, Say("no_such_room")))
      /\ Letters(To(room.host, Of("peer_up", s))) /\ Meant(To(room.host, Of("peer_up", s)))
  BY Single, Says, Plain
<1>4. LET both == Both(To(s, Say("ready")), To(room.host, Of("peer_up", s))) IN
      Letters(both) /\ Meant(both)
  BY <1>3, BothMeant
<1> HIDE DEF news
<1>5. \E letters : Letters(letters) /\ Meant(letters) /\ down' = Written(down, alive, letters)
  BY <1>2, <1>3, <1>4 DEF RelayHello, news, ups
<1> QED
  BY <1>5, RelayForward DEF RelayHello

(***************************************************************************)
(* The theorem.                                                            *)
(***************************************************************************)

\* Whoever is in the room at first has the keys of who hosts it, in one epoch.
LEMMA EpochInit == SessionInit => EpochInv
<1> USE SocketsAre
<1> SUFFICES ASSUME SessionInit PROVE EpochInv
  OBVIOUS
<1>1. PICK cast \in Starts :
        LET there == ToSet(cast.inside)
            first == IF there = {} THEN Nobody ELSE <<cast.inside[1], 1>>
            guests == [i \in 1..Len(cast.inside) - 1 |-> <<cast.inside[i + 1], 1>>]
        IN
        /\ ses = [u \in Users |->
                    IF <<u, 1>> = first
                    THEN [Idle EXCEPT !.phase = "hosting", !.as = "host", !.tries = 2, !.dial = 1,
                                      !.link = first, !.roster = guests,
                                      !.epoch = cast.epoch, !.minEpoch = cast.epoch]
                    ELSE IF u \in there
                    THEN [Idle EXCEPT !.phase = "in-room", !.tries = 1, !.dial = 1,
                                      !.link = <<u, 1>>, !.key = first,
                                      !.epoch = cast.epoch, !.minEpoch = cast.epoch]
                    ELSE IF u \in cast.late
                    THEN [Idle EXCEPT !.phase = "connecting", !.task = "open", !.as = "host",
                                      !.tries = 2, !.dial = 1]
                    ELSE IF u \in cast.outside THEN Idle
                    ELSE [Idle EXCEPT !.phase = "left", !.leaving = TRUE]]
        /\ down = [s \in Sockets |-> <<>>]
  BY DEF SessionInit
<1> DEFINE there == ToSet(cast.inside)
           first == IF there = {} THEN Nobody ELSE <<cast.inside[1], 1>>
           guests == [i \in 1..Len(cast.inside) - 1 |-> <<cast.inside[i + 1], 1>>]
<1>2. cast.inside \in Seq(Users) /\ cast.epoch \in Nat /\ 1 \in 1..MaxDials
  BY SessionAssumption DEF SessionAssumption
<1>3. there # {} => \E h \in Users : first = <<h, 1>>
  <2> SUFFICES ASSUME there # {} PROVE \E h \in Users : first = <<h, 1>>
    OBVIOUS
  <2>1. PICK i \in DOMAIN cast.inside : TRUE
    BY DEF ToSet
  <2>2. Len(cast.inside) \in Nat /\ DOMAIN cast.inside = 1..Len(cast.inside)
    BY <1>2
  <2>3. 1 \in DOMAIN cast.inside
    BY <2>1, <2>2
  <2>4. cast.inside[1] \in Users
    BY <2>3, <1>2
  <2> QED
    BY <2>4
<1> HIDE DEF there, first, guests
<1> DEFINE host == [Idle EXCEPT !.phase = "hosting", !.as = "host", !.tries = 2, !.dial = 1,
                                !.link = first, !.roster = guests,
                                !.epoch = cast.epoch, !.minEpoch = cast.epoch]
           guest(u) == [Idle EXCEPT !.phase = "in-room", !.tries = 1, !.dial = 1,
                                    !.link = <<u, 1>>, !.key = first,
                                    !.epoch = cast.epoch, !.minEpoch = cast.epoch]
           late == [Idle EXCEPT !.phase = "connecting", !.task = "open", !.as = "host",
                                !.tries = 2, !.dial = 1]
           gone == [Idle EXCEPT !.phase = "left", !.leaving = TRUE]
<1>4. ASSUME NEW u \in Users
      PROVE  ses[u] = IF <<u, 1>> = first THEN host
                      ELSE IF u \in there THEN guest(u)
                      ELSE IF u \in cast.late THEN late
                      ELSE IF u \in cast.outside THEN Idle ELSE gone
  BY <1>1 DEF first, guests, there
<1>5. /\ host.phase = "hosting" /\ host.task = "none" /\ host.as = "host" /\ host.link = first
      /\ host.key = Nobody /\ host.greeting = {} /\ host.epoch = cast.epoch /\ host.minEpoch = cast.epoch
  BY DEF Idle
<1>6. ASSUME NEW u
      PROVE  /\ guest(u).phase = "in-room" /\ guest(u).task = "none" /\ guest(u).as = "peer"
             /\ guest(u).key = first /\ guest(u).greeting = {} /\ guest(u).epoch = cast.epoch
             /\ guest(u).minEpoch = cast.epoch
  BY DEF Idle
<1>7. ASSUME NEW c \in {late, Idle, gone}
      PROVE  /\ c.phase \in {"connecting", "idle", "left"} /\ c.task \in {"none", "open"}
             /\ c.link = Nobody /\ c.key = Nobody /\ c.greeting = {} /\ c.epoch = 0 /\ c.minEpoch = 0
             /\ (c.phase = "idle" => c.task = "none")
  <2>1. CASE c = late
    BY <2>1 DEF Idle
  <2>2. CASE c = Idle
    BY <2>2 DEF Idle
  <2>3. CASE c = gone
    BY <2>3 DEF Idle
  <2> QED
    BY <1>7, <2>1, <2>2, <2>3
<1> HIDE DEF host, guest, late, gone
<1>8. there # {} => IsHost(first) /\ EpochOf(first) = cast.epoch
  <2> SUFFICES ASSUME there # {} PROVE IsHost(first) /\ EpochOf(first) = cast.epoch
    OBVIOUS
  <2>1. PICK h \in Users : first = <<h, 1>>
    BY <1>3
  <2>2. first \in Sockets /\ Owner(first) = h
    BY <2>1, <1>2
  <2>3. ses[h] = host
    BY <2>1, <1>4
  <2> QED
    BY <2>2, <2>3, <1>5 DEF IsHost, EpochOf
<1>9. ASSUME NEW u \in Users PROVE Dated(ses[u]) /\ Keyed(ses[u])
  <2>1. CASE <<u, 1>> = first
    <3>1. ses[u] = host
      BY <2>1, <1>4
    <3>2. first # Nobody
      BY <2>1 DEF Nobody
    <3> QED
      BY <3>1, <3>2, <1>2, <1>5 DEF Dated, Keyed, Waits, Settled, Member
  <2>2. CASE <<u, 1>> # first /\ u \in there
    <3>1. ses[u] = guest(u) /\ IsHost(first) /\ EpochOf(first) = cast.epoch
      BY <2>2, <1>4, <1>8
    <3> QED
      BY <3>1, <1>2, <1>6 DEF Dated, Keyed, Waits, Settled, Member
  <2>3. CASE <<u, 1>> # first /\ u \notin there
    <3>1. ses[u] \in {late, Idle, gone}
      BY <2>3, <1>4
    <3> QED
      BY <3>1, <1>7 DEF Dated, Keyed, Waits, Settled, Member
  <2> QED
    BY <2>1, <2>2, <2>3
<1>10. \A s \in Sockets : ToSet(down[s]) = {}
  BY <1>1, OneFrame
<1> QED
  BY <1>9, <1>10 DEF EpochInv

LEMMA EpochStep == HostInv /\ EpochInv /\ [SessionNext]_sessionVars => Forward
<1> SUFFICES ASSUME HostInv, EpochInv, [SessionNext]_sessionVars PROVE Forward
  OBVIOUS
<1>1. CASE UNCHANGED sessionVars
  <2>1. ses' = ses /\ down' = down
    BY <1>1 DEF sessionVars
  <2>2. \A o \in Users : Steady(o, ses'[o])
    BY <2>1, Stays
  <2> QED
    BY <2>1, <2>2, EpochKept DEF Forward
<1>2. CASE Progress
  BY <1>2, HearForward, TicksForward, RelayHelloForward, SweepForward DEF Progress
<1>3. CASE \E u \in Users : Enter(u) \/ OpenTimesOut(u) \/ HostDoubted(u) \/ Ping(u) \/ Leave(u)
  BY <1>3, EnterForward, OddForward, LeaveForward
<1>4. CASE \E s \in alive : Cut(s)
  BY <1>4, CutForward
<1> QED
  BY <1>1, <1>2, <1>3, <1>4 DEF SessionNext

\* Nobody goes back to a host of an earlier epoch, over however many handoffs: what a
\* survivor waits for is the epoch after its host's, the host it joins seals its own epoch,
\* and a host stays in the one it began in.
THEOREM NobodyGoesBack == SessionSpec => EpochNeverBack
<1>1. HostInv /\ EpochInv /\ [SessionNext]_sessionVars => EpochInv'
  BY EpochStep DEF Forward
<1>2. HostInv /\ EpochInv /\ [SessionNext]_sessionVars =>
         [\A u \in Users : ses'[u].epoch >= ses[u].epoch]_sessionVars
  BY EpochStep DEF Forward
<1> QED
  BY <1>1, <1>2, HostInit, HostStep, EpochInit, PTL DEF SessionSpec, EpochNeverBack

-----------------------------------------------------------------------------
(* Claims: who waits to hear that the room has been claimed hears of it.   *)

\* What is in a queue, of the frames that matter here.
Claimed(q) == \E f \in ToSet(q) : f.t = "host_claimed"
Transfers(q) == \E f \in ToSet(q) : f.t = "transfer"

\* The relay has answered the HELLO of s; before that nobody has heard of s.
Spent(s) == Dialled(s) /\ \A h \in hellos : h[1] # s

HasLink(s) == ses[Owner(s)].link = s

\* h's host has p among its peers, or will hear of it.
Knows(h, p) ==
    \/ \E f \in ToSet(down[h]) : f.t = "peer_up" /\ f.from = p
    \/ HasLink(h) /\ p \in ses[Owner(h)].greeting \cup ToSet(ses[Owner(h)].roster)

Touched(s) == down[s] # <<>> \/ s \in Peers \/ room.host = s \/ HasLink(s) \/ \E h \in Sockets : Knows(h, s)

\* p is the link of its session, or was.
Spoke(p) == Dialled(p) /\ (HasLink(p) \/ p \notin alive)

\* The link of a peer that has heard of no claim yet; a socket that has been told of none.
Fresh(s) == HasLink(s) /\ ses[Owner(s)].as = "peer" /\ ses[Owner(s)].ready = "none"
Untold(p) == p \in alive /\ ~Claimed(down[p]) /\ (Rings(down[p]) \/ Fresh(p))

\* A survivor that waits for its first claim, or is about to.
Pending(s) == HasLink(s) /\ ses[Owner(s)].task = "claim" /\ ses[Owner(s)].ready = "asked"
Asked(s) == s \in alive /\ ~Closed(down[s]) /\ ((Fresh(s) /\ Transfers(down[s])) \/ Pending(s))
Handed(s) == room.handoff # "no" /\ s \in Peers

Orderly(c) ==
    /\ IsQueue(c.roster) /\ (ToSet(c.roster) # {} => Settled(c))
    /\ c.task = "claim" => c.as = "peer" /\ c.ready # "none"

\* READY is the first a socket hears, and it hears it once.
First(queues) == \A s \in Sockets : queues[s] # <<>> => ~Rings(Tail(queues[s]))

HelloOnce == \A h, k \in hellos : h[1] = k[1] => h = k
Ordered == \A s \in Sockets : Touched(s) => Spent(s)

Spoken ==
    /\ \A h, p \in Sockets : (\E f \in ToSet(down[h]) : f.t = "join" /\ f.from = p) => Spoke(p)
    /\ \A u \in Users, p \in Sockets : p \in ToSet(ses[u].roster) => Spoke(p)
    /\ \A s \in Sockets : Transfers(down[s]) => Spoke(s)

\* Whoever knows a peer that was told of no claim is the host it joined.
HostKnows == \A h, p \in Sockets : (Knows(h, p) /\ p \in Peers /\ Untold(p)) => room.host = h

\* Until it is told of the claim, who was told of the handoff is in a room that is handed over.
AskedHear == \A s \in Sockets : Asked(s) => Handed(s) \/ Claimed(down[s])

\* A host hands over a room that is not its own any more, or is in handoff.
Handing == \A u \in Users : (ses[u].task = "handing" /\ room.host = ses[u].link) => room.handoff # "no"

ClaimInv ==
    /\ \A u \in Users : Orderly(ses[u])
    /\ HelloOnce /\ Ordered /\ First(down) /\ Spoken /\ HostKnows /\ AskedHear /\ Handing

(***************************************************************************)
(* What keeps the invariant, whichever action it is, but for the answer to *)
(* a HELLO.                                                                *)
(***************************************************************************)

\* What may be written to s.
Fit(s, f) ==
    /\ Spent(s) /\ f.t \notin {"ready", "peer_up"}
    /\ f.t = "join" => (f.from \in Sockets => Spoke(f.from))
    /\ f.t = "transfer" => Spoke(s) /\ (Untold(s) => Handed(s))

\* A claim is not heeded by who has heard of one, or does not wait for any.
Deaf(s) == ~Fresh(s) /\ ~Pending(s)

\* How a session may go on.
Follows(v) ==
    LET c == ses[v]  d == ses'[v] IN
    /\ Orderly(d)
    /\ \/ d.link = c.link /\ d.as = c.as /\ (d.ready = "none" => c.ready = "none")
          /\ \A p \in Sockets : p \in d.greeting \cup ToSet(d.roster) =>
                \/ p \in c.greeting \cup ToSet(c.roster)
                \/ \E f \in ToSet(down[c.link]) : f.t = "peer_up" /\ f.from = p
       \/ d.link = Nobody /\ c.link \notin alive'
       \/ c.link = Nobody /\ d.link \in Sockets /\ Rings(down[d.link]) /\ d.as = c.as
          /\ d.greeting = {} /\ ToSet(d.roster) = {}
    /\ (d.task = "claim" /\ d.ready = "asked" /\ d.link # Nobody) =>
          /\ d.link = c.link
          /\ \/ c.task = "claim" /\ c.ready = "asked"
             \/ c.as = "peer" /\ c.ready = "none" /\ Transfers(down[c.link])
    /\ d.task = "handing" => \/ c.task = "handing" /\ d.link = c.link
                             \/ ~(room'.host = d.link /\ room'.handoff = "no")
    /\ \A p \in Sockets : p \in ToSet(d.roster) => p \in ToSet(c.roster) \/ Spoke(p)

\* How the room may change: who is put out of it is told so.
Shrinks ==
    /\ \/ /\ room'.host = room.host /\ Peers' \subseteq Peers
          /\ room'.handoff = "no" => room.handoff = "no"
       \/ room'.host = Nobody /\ Peers' = {}
    /\ \A s \in Sockets : (s \in alive' /\ s \in Peers /\ s \notin Peers') => Closed(down'[s])

\* How the queues may.
Heeds(queues) == \A s \in Sockets : Claimed(down[s]) => Claimed(queues[s]) \/ (~Rings(down[s]) /\ Deaf(s)')

Queues ==
    /\ \A s \in Sockets : \A f \in ToSet(down'[s]) : f \in ToSet(down[s]) \/ Fit(s, f)
    /\ \A s \in Sockets : s \in alive' => /\ Closed(down[s]) => Closed(down'[s])
                                          /\ Claimed(down[s]) => Claimed(down'[s]) \/ (~Rings(down[s]) /\ Deaf(s)')
    /\ First(down')

\* A queue that is not empty has a first frame, which is in it.
LEMMA HeadIn ==
    ASSUME NEW q, IsQueue(q)
    PROVE  q # <<>> <=> ToSet(q) # {}
<1>1. q # <<>> => Head(q) \in ToSet(q)
  BY Read
<1> QED
  BY <1>1, OneFrame

\* A socket whose HELLO was answered stays so.
LEMMA SpentStays ==
    ASSUME HostInv, HostInv',
           \A v \in Users : ses'[v].dial >= ses[v].dial,
           \A h \in hellos' : h \in hellos \/ ~Dialled(h[1])
    PROVE  \A s \in Sockets : /\ Dialled(s) => Dialled(s)'
                              /\ Spent(s) => Spent(s)'
<1> USE SocketsAre
<1>1. \A v \in Users : ses[v].dial \in Nat /\ ses'[v].dial \in Nat
  BY DEF HostInv, Sessions, WellKept
<1> SUFFICES ASSUME NEW s \in Sockets
             PROVE  (Dialled(s) => Dialled(s)') /\ (Spent(s) => Spent(s)')
  OBVIOUS
<1>3. Dialled(s) => Dialled(s)'
  BY <1>1 DEF Dialled
<1>4. Spent(s) => Spent(s)'
  BY <1>3 DEF Spent
<1> QED
  BY <1>3, <1>4

\* Whatever the sessions and the relay do in this way, nobody comes to wait in vain.
LEMMA ClaimKept ==
    ASSUME HostInv, EpochInv, ClaimInv, HostInv', EpochInv',
           \A v \in Users : ses'[v].dial >= ses[v].dial,
           \A s \in Sockets : s \in alive' => s \in alive \/ ~Dialled(s),
           \A h \in hellos' : h \in hellos \/ ~Dialled(h[1]), HelloOnce',
           \A v \in Users : Follows(v), Shrinks, Queues
    PROVE  ClaimInv'
<1> USE SocketsAre
<1>1. /\ \A s \in Sockets : (Dialled(s) => Dialled(s)') /\ (Spent(s) => Spent(s)')
      /\ \A s \in Sockets : Touched(s) => Spent(s) /\ Dialled(s)
  BY SpentStays DEF ClaimInv, Ordered, Spent
<1>2. \A v \in Users : Orderly(ses'[v])
  BY DEF Follows
<1>3. /\ \A s \in Sockets : \A f : f \in ToSet(down'[s]) => f \in ToSet(down[s]) \/ Fit(s, f)
      /\ \A s \in Sockets : Rings(down'[s]) => Rings(down[s])
      /\ \A s \in Sockets : down[s] # <<>> <=> ToSet(down[s]) # {}
      /\ \A s \in Sockets : down'[s] # <<>> <=> ToSet(down'[s]) # {}
  <2>1. \A s \in Sockets : \A f : f \in ToSet(down'[s]) => f \in ToSet(down[s]) \/ Fit(s, f)
    BY DEF Queues
  <2>2. \A s \in Sockets : Rings(down'[s]) => Rings(down[s])
    BY <2>1 DEF Rings, Fit
  <2>3. \A s \in Sockets : IsQueue(down[s]) /\ IsQueue(down'[s])
    BY DEF HostInv, Network, Mail
  <2> QED
    BY <2>1, <2>2, <2>3, HeadIn
<1>4. \A s \in Sockets : Rings(down[s]) => Spent(s)
  BY <1>1, <1>3 DEF Touched, Rings
\* The link of a session stays, or is gone with its socket, or is a new one that is told READY.
<1>5. ASSUME NEW s \in Sockets, HasLink(s)'
      PROVE  \/ /\ HasLink(s) /\ ses'[Owner(s)].as = ses[Owner(s)].as
                /\ ses'[Owner(s)].ready = "none" => ses[Owner(s)].ready = "none"
                /\ \A p \in Sockets : p \in ses'[Owner(s)].greeting \cup ToSet(ses'[Owner(s)].roster)
                                         => Knows(s, p)
             \/ /\ ~HasLink(s) /\ Rings(down[s]) /\ ses[Owner(s)].link = Nobody
                /\ ses'[Owner(s)].greeting = {} /\ ToSet(ses'[Owner(s)].roster) = {}
  <2>1. Owner(s) \in Users /\ s # Nobody
    OBVIOUS
  <2>2. ses'[Owner(s)].link = s
    BY <1>5 DEF HasLink
  <2>3. Follows(Owner(s))
    BY <2>1
  <2> QED
    BY <2>1, <2>2, <2>3 DEF Follows, HasLink, Knows
<1>6. ASSUME NEW s \in Sockets, HasLink(s) PROVE HasLink(s)' \/ s \notin alive'
  <2>1. Owner(s) \in Users /\ s # Nobody /\ ses[Owner(s)].link = s
    BY <1>6 DEF HasLink
  <2> QED
    BY <2>1 DEF Follows, HasLink
<1>7. \A p \in Sockets : Spoke(p) => Spoke(p)'
  BY <1>1, <1>6 DEF Spoke
<1>8. ASSUME NEW h \in Sockets, NEW p \in Sockets, Knows(h, p)' PROVE Knows(h, p)
  <2>1. CASE \E f \in ToSet(down'[h]) : f.t = "peer_up" /\ f.from = p
    BY <2>1, <1>3 DEF Knows, Fit
  <2>2. CASE HasLink(h)' /\ p \in ses'[Owner(h)].greeting \cup ToSet(ses'[Owner(h)].roster)
    BY <2>2, <1>5
  <2> QED
    BY <1>8, <2>1, <2>2 DEF Knows
<1>9. Ordered'
  <2> SUFFICES ASSUME NEW s \in Sockets, Touched(s)' PROVE Spent(s)
    BY <1>1 DEF Ordered
  <2>1. CASE down'[s] # <<>>
    BY <2>1, <1>1, <1>3 DEF Touched, Fit
  <2>2. CASE s \in Peers' \/ room'.host = s
    BY <2>2, <1>1 DEF Shrinks, Touched
  <2>3. CASE HasLink(s)'
    BY <2>3, <1>1, <1>4, <1>5 DEF Touched
  <2>4. CASE \E h \in Sockets : Knows(h, s)'
    BY <2>4, <1>1, <1>8 DEF Touched
  <2> QED
    BY <2>1, <2>2, <2>3, <2>4 DEF Touched
<1>10. Spoken'
  <2>1. ASSUME NEW h \in Sockets, NEW p \in Sockets, NEW f \in ToSet(down'[h]), f.t = "join", f.from = p
        PROVE  Spoke(p)
    BY <2>1, <1>3 DEF ClaimInv, Spoken, Fit
  <2>2. ASSUME NEW v \in Users, NEW p \in Sockets, p \in ToSet(ses'[v].roster)
        PROVE  Spoke(p)
    BY <2>2 DEF Follows, ClaimInv, Spoken
  <2>3. ASSUME NEW s \in Sockets, Transfers(down'[s]) PROVE Spoke(s)
    BY <2>3, <1>3 DEF ClaimInv, Spoken, Fit, Transfers
  <2> QED
    BY <2>1, <2>2, <2>3, <1>7 DEF Spoken
\* Who has been told of no claim had been told of none.
<1>11. ASSUME NEW s \in Sockets, Fresh(s)' PROVE Fresh(s) \/ (Rings(down[s]) /\ ses[Owner(s)].link = Nobody)
  BY <1>11, <1>5 DEF Fresh, HasLink
<1>12. ASSUME NEW s \in Sockets, s \in alive', Dialled(s), Claimed(down[s]), ~Claimed(down'[s])
       PROVE  ~Untold(s)' /\ ~Asked(s)'
  <2>1. ~Rings(down[s]) /\ ~Fresh(s)' /\ ~Pending(s)'
    BY <1>12 DEF Queues, Deaf
  <2> QED
    BY <2>1, <1>3 DEF Untold, Asked
<1>13. ASSUME NEW s \in Sockets, Untold(s)', Dialled(s) PROVE Untold(s)
  <2>1. s \in alive /\ s \in alive' /\ ~Claimed(down'[s])
    BY <1>13 DEF Untold
  <2>2. ~Claimed(down[s])
    BY <2>1, <1>12, <1>13
  <2>3. Rings(down[s]) \/ Fresh(s)
    BY <1>3, <1>11, <1>13 DEF Untold
  <2> QED
    BY <2>1, <2>2, <2>3 DEF Untold
<1>14. HostKnows'
  <2> SUFFICES ASSUME NEW h \in Sockets, NEW p \in Sockets, Knows(h, p)', p \in Peers', Untold(p)'
               PROVE  room'.host = h
    BY DEF HostKnows
  <2>1. p \in Peers /\ room'.host = room.host
    BY DEF Shrinks
  <2>2. Knows(h, p) /\ Dialled(p)
    BY <2>1, <1>1, <1>8 DEF Touched
  <2>3. Untold(p)
    BY <2>2, <1>13
  <2> QED
    BY <2>1, <2>2, <2>3 DEF ClaimInv, HostKnows
<1>15. AskedHear'
  <2> SUFFICES ASSUME NEW s \in Sockets, Asked(s)', ~Claimed(down'[s]) PROVE Handed(s)'
    BY DEF AskedHear
  <2>1. s \in alive' /\ ~Closed(down'[s]) /\ (Fresh(s)' \/ Pending(s)')
    BY DEF Asked
  <2>2. HasLink(s)' /\ Dialled(s)
    <3>1. HasLink(s)'
      BY <2>1 DEF Fresh, Pending
    <3> QED
      BY <3>1, <1>1, <1>4, <1>5 DEF Touched, Spent
  <2>3. s \in alive /\ ~Closed(down[s]) /\ ~Claimed(down[s])
    BY <2>1, <2>2, <1>12 DEF Queues
  <2>4. Handed(s)
    <3>1. ASSUME Asked(s) PROVE Handed(s)
      BY <3>1, <2>3 DEF ClaimInv, AskedHear
    <3>2. CASE Fresh(s)' /\ Transfers(down'[s])
      <4>1. Spoke(s) /\ (Transfers(down[s]) \/ (Untold(s) => Handed(s)))
        BY <3>2, <1>3 DEF ClaimInv, Spoken, Transfers, Fit
      <4>2. Fresh(s)
        BY <3>2, <4>1, <2>3, <1>11 DEF Spoke, HasLink
      <4> QED
        BY <4>1, <4>2, <3>1, <2>3 DEF Asked, Untold
    <3>3. CASE Pending(s)'
      <4>1. ses'[Owner(s)].link = s /\ ses'[Owner(s)].task = "claim" /\ ses'[Owner(s)].ready = "asked"
            /\ Owner(s) \in Users /\ s # Nobody
        BY <3>3 DEF Pending, HasLink
      <4>2. \/ Pending(s)
            \/ Fresh(s) /\ Transfers(down[s])
        BY <4>1 DEF Follows, Pending, Fresh, HasLink
      <4> QED
        BY <4>2, <3>1, <2>3 DEF Asked
    <3> QED
      BY <3>2, <3>3 DEF Asked
  <2> QED
    BY <2>1, <2>4 DEF Shrinks, Handed
<1>16. Handing'
  <2> SUFFICES ASSUME NEW v \in Users, ses'[v].task = "handing", room'.host = ses'[v].link, room'.handoff = "no"
               PROVE  FALSE
    BY DEF Handing
  <2>1. ses[v].task = "handing" /\ ses'[v].link = ses[v].link
    BY DEF Follows
  <2>2. ses'[v].link # Nobody
    BY DEF EpochInv, Dated, Settled
  <2>3. room.host = ses[v].link /\ room.handoff = "no"
    BY <2>1, <2>2 DEF Shrinks
  <2> QED
    BY <2>1, <2>3 DEF ClaimInv, Handing
<1> QED
  BY <1>2, <1>9, <1>10, <1>14, <1>15, <1>16 DEF ClaimInv, Queues

(***************************************************************************)
(* Writing and reading.                                                    *)
(***************************************************************************)

\* The rest of a queue that was written to.
LEMMA TailJoined ==
    ASSUME NEW q, NEW l, IsQueue(q), IsQueue(l), ~Rings(l),
           q # <<>> => ~Rings(Tail(q)), q \o l # <<>>
    PROVE  ~Rings(Tail(q \o l))
<1> DEFINE S == ToSet(q) \cup ToSet(l)
           r == q \o l
<1>1. q \in Seq(S) /\ l \in Seq(S)
  BY DEF IsQueue, ToSet
<1>2. r \in Seq(S) /\ Len(r) = Len(q) + Len(l) /\ Len(q) \in Nat /\ Len(l) \in Nat
  BY <1>1
<1>3. /\ \A i \in 1..Len(q) : r[i] = q[i]
      /\ \A i \in 1..Len(l) : r[i + Len(q)] = l[i]
  BY <1>1
<1>4. Len(r) > 0
  BY <1>2
<1>5. /\ Len(Tail(r)) = Len(r) - 1 /\ DOMAIN Tail(r) = 1..(Len(r) - 1)
      /\ \A i \in 1..(Len(r) - 1) : Tail(r)[i] = r[i + 1]
  BY <1>2, <1>4
<1>6. q # <<>> => /\ DOMAIN Tail(q) = 1..(Len(q) - 1)
                  /\ \A i \in 1..(Len(q) - 1) : Tail(q)[i] = q[i + 1]
  BY <1>1
<1>7. q = <<>> <=> Len(q) = 0
  BY <1>1
<1>8. DOMAIN l = 1..Len(l)
  BY <1>1
<1> HIDE DEF r, S
<1> SUFFICES ASSUME NEW i \in DOMAIN Tail(r), Tail(r)[i].t = "ready"
             PROVE  FALSE
  BY DEF Rings, ToSet, r
<1>9. i \in 1..(Len(r) - 1) /\ r[i + 1].t = "ready"
  BY <1>5
<1>10. CASE i + 1 <= Len(q)
  <2>1. i \in 1..(Len(q) - 1) /\ i + 1 \in 1..Len(q) /\ q # <<>>
    BY <1>2, <1>7, <1>9, <1>10
  <2>2. Tail(q)[i] = r[i + 1] /\ i \in DOMAIN Tail(q)
    BY <2>1, <1>3, <1>6
  <2> QED
    BY <2>1, <2>2, <1>9 DEF Rings, ToSet
<1>11. CASE ~(i + 1 <= Len(q))
  <2>1. (i + 1) - Len(q) \in 1..Len(l) /\ ((i + 1) - Len(q)) + Len(q) = i + 1
    BY <1>2, <1>9, <1>11
  <2>2. l[(i + 1) - Len(q)] = r[i + 1]
    BY <2>1, <1>3
  <2> QED
    BY <2>1, <2>2, <1>8, <1>9 DEF Rings, ToSet
<1> QED
  BY <1>10, <1>11

\* Letters that fit where they go.
Posts(letters) == Letters(letters) /\ \A s \in DOMAIN letters : s \in Sockets => \A f \in ToSet(letters[s]) : Fit(s, f)

Kin(queues) == \A s \in Sockets : \A f \in ToSet(queues[s]) : f \in ToSet(down[s]) \/ Fit(s, f)

\* Writing letters that fit keeps the queues in order, and loses nothing of what is in them.
LEMMA PostWrites ==
    ASSUME NEW queues, NEW open, NEW letters, Mail(queues), First(queues), Kin(queues), Posts(letters)
    PROVE  LET w == Written(queues, open, letters) IN
           /\ Mail(w) /\ First(w) /\ Kin(w)
           /\ \A s \in Sockets : (Claimed(queues[s]) => Claimed(w[s])) /\ (Closed(queues[s]) => Closed(w[s]))
<1> DEFINE w == Written(queues, open, letters)
<1>1. /\ Mail(w)
      /\ \A s \in Sockets : ToSet(w[s]) = IF s \in open /\ s \in DOMAIN letters
                                          THEN ToSet(queues[s]) \cup ToSet(letters[s]) ELSE ToSet(queues[s])
  BY Writes DEF Posts
<1>2. \A s \in Sockets : w[s] = IF s \in open /\ s \in DOMAIN letters THEN queues[s] \o letters[s] ELSE queues[s]
  BY DEF Written, Mail
<1> HIDE DEF w
<1>3. Kin(w)
  BY <1>1 DEF Kin, Posts
<1>4. First(w)
  <2> SUFFICES ASSUME NEW s \in Sockets, w[s] # <<>> PROVE ~Rings(Tail(w[s]))
    BY DEF First
  <2>1. CASE s \in open /\ s \in DOMAIN letters
    <3>1. IsQueue(queues[s]) /\ IsQueue(letters[s]) /\ ~Rings(letters[s])
      BY <2>1 DEF Mail, Posts, Letters, Rings, Fit
    <3>2. queues[s] # <<>> => ~Rings(Tail(queues[s]))
      BY DEF First
    <3> QED
      BY <2>1, <1>2, <3>1, <3>2, TailJoined
  <2>2. CASE ~(s \in open /\ s \in DOMAIN letters)
    BY <2>2, <1>2 DEF First
  <2> QED
    BY <2>1, <2>2
<1>5. \A s \in Sockets : (Claimed(queues[s]) => Claimed(w[s])) /\ (Closed(queues[s]) => Closed(w[s]))
  BY <1>1 DEF Claimed, Closed
<1> QED
  BY <1>1, <1>3, <1>4, <1>5 DEF w

\* The queue of a socket that closes is emptied.
LEMMA Emptied ==
    ASSUME NEW queues, NEW shut, Mail(queues), First(queues), Kin(queues)
    PROVE  LET v == [queues EXCEPT ![shut] = <<>>] IN
           /\ Mail(v) /\ First(v) /\ Kin(v)
           /\ \A s \in Sockets \ {shut} : v[s] = queues[s]
<1> DEFINE v == [queues EXCEPT ![shut] = <<>>]
<1>1. DOMAIN v = DOMAIN queues /\ \A s \in DOMAIN queues : v[s] = IF s = shut THEN <<>> ELSE queues[s]
  OBVIOUS
<1> HIDE DEF v
<1>2. Mail(v) /\ First(v) /\ Kin(v) /\ \A s \in Sockets \ {shut} : v[s] = queues[s]
  BY <1>1, OneFrame DEF Mail, First, Kin
<1> QED
  BY <1>2 DEF v

\* To whom the relay writes: it has answered them all.
LEMMA Known ==
    ASSUME ClaimInv
    PROVE  /\ \A s \in Sockets : s \in Peers \/ room.host = s \/ HasLink(s) \/ down[s] # <<>> => Spent(s) /\ Dialled(s)
           /\ \A h, p \in Sockets : Knows(h, p) => Spent(p) /\ Dialled(p)
  BY DEF ClaimInv, Ordered, Touched, Spent

\* One letter.
LEMMA PostsOne ==
    ASSUME NEW s, NEW f, s \in Sockets => Fit(s, f)
    PROVE  Posts(To(s, f)) /\ Posts(None)
<1>1. DOMAIN To(s, f) = {s} /\ To(s, f)[s] = <<f>> /\ ToSet(<<f>>) = {f} /\ DOMAIN None = {}
      /\ Letters(To(s, f)) /\ Letters(None)
  BY Single, OneFrame
<1> QED
  BY <1>1 DEF Posts

\* No letter.
LEMMA PostsNone == Posts(None)
  BY Single DEF Posts

\* Frames that anybody may be sent, once its HELLO is answered.
LEMMA Mild ==
    ASSUME NEW s, Spent(s)
    PROVE  /\ \A t, from, key, epoch, heir : t \notin {"ready", "peer_up", "join", "transfer"} =>
                 Fit(s, Frame(t, from, key, epoch, heir))
           /\ Fit(s, Close)
  BY DEF Fit, Frame, Close, Say

\* What the relay says to the peers of a room that ends.
LEMMA GoodbyesPosts ==
    ASSUME ClaimInv
    PROVE  Posts([p \in Peers |-> <<Close>>])
  BY OneFrame, Known, Mild DEF Posts, Letters

\* What it says of a socket that closes.
LEMMA ToldPosts ==
    ASSUME ClaimInv, NEW s
    PROVE  Posts(Told(s))
<1>1. room.host \in Sockets => Fit(room.host, Of("peer_down", s))
  BY Known, Mild DEF Of
<1> QED
  BY <1>1, GoodbyesPosts, PostsOne, PostsNone DEF Told

\* What a peer says to its host; only a link asks to join.
LEMMA ToHostPosts ==
    ASSUME ClaimInv, NEW s, NEW m, NEW key, m \notin {"ready", "peer_up", "transfer"},
           m = "join" => (s \in Sockets => Spoke(s))
    PROVE  Posts(ToHost(s, m, key))
<1>1. room.host \in Sockets => Fit(room.host, Frame(m, s, key, 0, Nobody))
  BY Known DEF Fit, Frame
<1> QED
  BY <1>1, PostsOne, PostsNone DEF ToHost

\* What a host says to one peer.
LEMMA ToPeerPosts ==
    ASSUME ClaimInv, NEW s, NEW m, NEW h, NEW epoch, m \notin {"ready", "peer_up", "join", "transfer"}
    PROVE  Posts(ToPeer(s, m, h, epoch))
<1>1. (s \in Peers /\ s \in Sockets) => Fit(s, Frame(m, h, h, epoch, Nobody))
  BY Known, Mild
<1> QED
  BY <1>1, PostsOne, PostsNone DEF ToPeer

\* The end of a sequence.
LEMMA Ends ==
    ASSUME NEW S, NEW q \in Seq(S), NEW i \in 1..Len(q)
    PROVE  LET b == SubSeq(q, i + 1, Len(q)) IN
           b \in Seq(S) /\ Len(b) = Len(q) - i /\ \A j \in 1..(Len(q) - i) : b[j] = q[i + j]
<1> DEFINE b == SubSeq(q, i + 1, Len(q))
<1>1. PICK n \in Nat : n = Len(q)
  OBVIOUS
<1>2. i \in 1..n /\ i \in Nat
  BY <1>1
<1>3. b \in Seq(S)
  BY <1>2
<1>4. Len(b) = n - i
  BY <1>1, <1>2
<1>5. ASSUME NEW j \in 1..(n - i) PROVE b[j] = q[i + j]
  <2>1. j \in Nat /\ (i + 1) + j - 1 = i + j /\ j \in 1..(n - (i + 1) + 1)
    BY <1>2
  <2>2. b[j] = q[(i + 1) + j - 1]
    BY <2>1, <1>1, <1>2
  <2> QED
    BY <2>1, <2>2
<1> QED
  BY <1>1, <1>3, <1>4, <1>5

\* Deleting an entry leaves the others.
LEMMA DeletesOne ==
    ASSUME NEW q, NEW e, IsQueue(q)
    PROVE  ToSet(q) \ {e} \subseteq ToSet(Deleted(q, e))
<1>1. CASE e \notin ToSet(q)
  BY <1>1 DEF Deleted
<1>2. CASE e \in ToSet(q)
  <2> DEFINE i == CHOOSE j \in DOMAIN q : q[j] = e
             a == SubSeq(q, 1, i - 1)
             b == SubSeq(q, i + 1, Len(q))
             r == a \o b
  <2>1. i \in DOMAIN q /\ q[i] = e
    BY <1>2 DEF ToSet
  <2>2. i \in 1..Len(q) /\ Len(q) \in Nat /\ DOMAIN q = 1..Len(q)
    BY <2>1 DEF IsQueue
  <2> HIDE DEF i
  <2>3. q \in Seq(ToSet(q))
    BY DEF IsQueue
  <2>4. /\ a \in Seq(ToSet(q)) /\ Len(a) = i - 1 /\ \A j \in 1..(i - 1) : a[j] = q[j]
    BY <2>2, <2>3
  <2>5. /\ b \in Seq(ToSet(q)) /\ Len(b) = Len(q) - i /\ \A j \in 1..(Len(q) - i) : b[j] = q[i + j]
    BY <2>2, <2>3, Ends
  <2>6. Deleted(q, e) = r
    BY <1>2 DEF Deleted, RemoveAt, i
  <2> HIDE DEF a, b
  <2>7. ToSet(r) = ToSet(a) \cup ToSet(b)
    BY <2>4, <2>5, Sequence, Joined
  <2> HIDE DEF r
  <2>8. ASSUME NEW j \in DOMAIN q, q[j] # e PROVE q[j] \in ToSet(a) \cup ToSet(b)
    <3>1. CASE j < i
      <4>1. j \in 1..(i - 1) /\ j \in DOMAIN a
        BY <3>1, <2>2, <2>4
      <4> QED
        BY <4>1, <2>4 DEF ToSet
    <3>2. CASE j > i
      <4>1. j - i \in 1..(Len(q) - i) /\ j - i \in DOMAIN b /\ i + (j - i) = j
        BY <3>2, <2>2, <2>5
      <4>2. b[j - i] = q[j]
        BY <4>1, <2>5
      <4> QED
        BY <4>1, <4>2 DEF ToSet
    <3> QED
      BY <3>1, <3>2, <2>1, <2>2, <2>8
  <2> QED
    BY <2>6, <2>7, <2>8 DEF ToSet
<1> QED
  BY <1>1, <1>2

\* A room without s: its peers, or all of them when it is s's room, are told.
LEMMA WithoutShrinks ==
    ASSUME HostInv, NEW s, room' = Without(s), s \notin alive' \/ (s \in Sockets => Closed(down'[s])),
           \A p \in Sockets : (p \in DOMAIN Told(s) /\ p \in alive' /\ Told(s)[p] = <<Close>>) => Closed(down'[p])
    PROVE  Shrinks
<1>1. DOMAIN room = {"host", "peers", "handoff"} /\ IsQueue(room.peers)
  BY DEF HostInv, Network
<1>2. CASE s = room.host /\ room.handoff = "no"
  <2>1. room' = NoRoom
    BY <1>2 DEF Without
  <2>2. room'.host = Nobody /\ Peers' = {}
    <3>1. ToSet(<<>>) = {}
      BY OneFrame
    <3>2. room'.host = Nobody /\ room'.peers = <<>>
      BY <2>1 DEF NoRoom
    <3> QED
      BY <3>1, <3>2 DEF Peers
  <2>3. Told(s) = [p \in Peers |-> <<Close>>]
    BY <1>2 DEF Told
  <2>4. \A p \in Sockets : (p \in alive' /\ p \in Peers) => Closed(down'[p])
    BY <2>3
  <2> QED
    BY <2>2, <2>4 DEF Shrinks
<1>3. CASE ~(s = room.host /\ room.handoff = "no")
  <2>1. room' = [room EXCEPT !.peers = Deleted(@, s)]
    BY <1>3 DEF Without
  <2>2. room'.host = room.host /\ room'.handoff = room.handoff /\ room'.peers = Deleted(room.peers, s)
    BY <2>1, <1>1
  <2>3. Peers' \subseteq Peers /\ Peers \ {s} \subseteq Peers'
    BY <2>2, <1>1, Deletes, DeletesOne DEF Peers
  <2> QED
    BY <2>2, <2>3 DEF Shrinks
<1> QED
  BY <1>2, <1>3

\* A session that goes on with what it has read, writes what fits and closes a socket.
LEMMA GoesClaims ==
    ASSUME HostInv, EpochInv, ClaimInv, HostInv', EpochInv', NEW u \in Users, NEW c, NEW queues, NEW letters, NEW shut,
           Goes(u, c, queues, letters, shut), UNCHANGED hellos, c.dial = ses[u].dial, Follows(u),
           Heard(queues, shut), First(queues), Heeds(queues), Posts(letters)
    PROVE  ClaimInv'
<1> DEFINE w == Written(queues, alive, letters)
           v == [w EXCEPT ![shut] = <<>>]
           x == Written(v, alive \ {shut}, Told(shut))
<1>1. DOMAIN ses' = Users /\ ses'[u] = c /\ \A o \in Users \ {u} : ses'[o] = ses[o]
  BY DEF Goes, HostInv, Sessions
<1>2. \A o \in Users : Follows(o)
  BY <1>1 DEF Follows, ClaimInv
<1>3. alive' = alive \ {shut}
  BY DEF Goes
<1>4. /\ Mail(w) /\ First(w) /\ Kin(w)
      /\ \A s \in Sockets : (Claimed(queues[s]) => Claimed(w[s])) /\ (Closed(queues[s]) => Closed(w[s]))
  BY PostWrites DEF Heard, Kin
<1> HIDE DEF w
<1>5. /\ First(down') /\ Kin(down')
      /\ \A s \in Sockets \ {shut} : (Claimed(queues[s]) => Claimed(down'[s])) /\ (Closed(queues[s]) => Closed(down'[s]))
      /\ Shrinks
  <2>1. CASE shut \in alive
    <3>1. /\ Mail(v) /\ First(v) /\ Kin(v)
          /\ \A s \in Sockets \ {shut} : v[s] = w[s]
      BY <1>4, Emptied
    <3> HIDE DEF v
    <3>2. /\ First(x) /\ Kin(x)
          /\ \A s \in Sockets : (Claimed(v[s]) => Claimed(x[s])) /\ (Closed(v[s]) => Closed(x[s]))
      BY <3>1, ToldPosts, PostWrites
    <3>3. \A s \in Sockets : ToSet(x[s]) = IF s \in alive \ {shut} /\ s \in DOMAIN Told(shut)
                                THEN ToSet(v[s]) \cup ToSet(Told(shut)[s]) ELSE ToSet(v[s])
      BY <3>1, ToldPosts, Writes DEF Posts
    <3>4. down' = x /\ room' = Without(shut)
      BY <2>1 DEF Goes, v, w
    <3> HIDE DEF x
    <3>5. \A p \in Sockets : (p \in DOMAIN Told(shut) /\ p \in alive' /\ Told(shut)[p] = <<Close>>) => Closed(down'[p])
      <4>1. ToSet(<<Close>>) = {Close}
        BY OneFrame
      <4> QED
        BY <3>3, <3>4, <4>1, <1>3 DEF Closed
    <3>6. Shrinks
      BY <3>4, <3>5, <1>3, WithoutShrinks
    <3> QED
      BY <3>1, <3>2, <3>4, <3>6, <1>4
  <2>2. CASE shut \notin alive
    <3>1. down' = w /\ room' = room
      BY <2>2 DEF Goes, w
    <3> QED
      BY <3>1, <1>4 DEF Shrinks, Peers
  <2> QED
    BY <2>1, <2>2
<1>6. Queues
  BY <1>3, <1>5 DEF Queues, Kin, Heard, Heeds
<1>7. \A o \in Users : ses[o].dial \in Nat /\ ses'[o].dial = ses[o].dial
  BY <1>1 DEF HostInv, Sessions, WellKept
<1>8. HelloOnce'
  BY DEF ClaimInv, HelloOnce
<1> QED
  BY <1>2, <1>3, <1>5, <1>6, <1>7, <1>8, ClaimKept

\* A session that goes on as d has no other link, and neither asks nor meets anybody anew.
Tranquil(u, d) ==
    /\ d.dial = ses[u].dial
    /\ d.link = ses[u].link /\ d.as = ses[u].as /\ d.ready = ses[u].ready
    /\ d.task = ses[u].task \/ d.task \notin {"claim", "handing"}
    /\ d.greeting \subseteq ses[u].greeting
    /\ IsQueue(d.roster) /\ ToSet(d.roster) \subseteq ToSet(ses[u].roster)

\* Such a session follows.
LEMMA TranquilFollows ==
    ASSUME ClaimInv, NEW u \in Users, Tranquil(u, ses'[u])
    PROVE  Follows(u)
<1>1. Orderly(ses[u])
  BY DEF ClaimInv
<1>2. Orderly(ses'[u])
  BY <1>1 DEF Orderly, Tranquil, Settled
<1> QED
  BY <1>2 DEF Follows, Tranquil

\* So go on who leaves, who stops waiting, and who forgets a peer.
LEMMA Tranquils ==
    ASSUME HostInv, ClaimInv, NEW u \in Users
    PROVE  /\ Tranquil(u, ses[u]) /\ Tranquil(u, Left(ses[u])) /\ Tranquil(u, Discarded(ses[u]))
           /\ Tranquil(u, [ses[u] EXCEPT !.task = "none"])
           /\ Tranquil(u, [ses[u] EXCEPT !.phase = "left"])
<1>1. IsSession(ses[u]) /\ IsQueue(ses[u].roster)
  BY DEF HostInv, Sessions, WellKept, ClaimInv, Orderly
<1> QED
  BY <1>1 DEF Tranquil, Left, Discarded, IsSession, Fields

\* A step that is tranquil.
LEMMA TranquilClaims ==
    ASSUME HostInv, EpochInv, ClaimInv, HostInv', EpochInv', NEW u \in Users, NEW c, NEW queues, NEW letters, NEW shut,
           Goes(u, c, queues, letters, shut), UNCHANGED hellos, Tranquil(u, c),
           Heard(queues, shut), First(queues), Heeds(queues), Posts(letters)
    PROVE  ClaimInv'
<1>1. ses'[u] = c
  BY DEF Goes, HostInv, Sessions
<1>2. Follows(u)
  BY <1>1, TranquilFollows
<1> QED
  BY <1>2, GoesClaims DEF Tranquil

\* A host that throws a peer out tells it so.
LEMMA KicksClaims ==
    ASSUME HostInv, EpochInv, ClaimInv, HostInv', EpochInv', NEW u \in Users, NEW queues, NEW s,
           Kicks(u, ses[u], queues, s), UNCHANGED hellos,
           Heard(queues, Nobody), First(queues), Heeds(queues)
    PROVE  ClaimInv'
<1> DEFINE letters == IF s \in Peers THEN To(s, Close) ELSE None
<1>1. IsSession(ses[u]) /\ IsQueue(ses[u].roster) /\ DOMAIN ses = Users
  BY DEF HostInv, Sessions, WellKept, ClaimInv, Orderly
<1>2. /\ \A o \in Users \ {u} : ses'[o] = ses[o]
      /\ ses'[u].dial = ses[u].dial /\ Tranquil(u, ses'[u])
  BY <1>1, Deletes DEF Kicks, Tranquil, IsSession, Fields
<1>3. \A o \in Users : Follows(o)
  BY <1>2, TranquilFollows DEF Follows, ClaimInv
<1>4. Posts(letters)
  <2>1. (s \in Peers /\ s \in Sockets) => Fit(s, Close)
    BY Known, Mild
  <2> QED
    BY <2>1, PostsOne, PostsNone
<1>5. down' = Written(queues, alive, letters)
  BY DEF Kicks
<1>6. /\ First(down') /\ Kin(down')
      /\ \A r \in Sockets : (Claimed(queues[r]) => Claimed(down'[r])) /\ (Closed(queues[r]) => Closed(down'[r]))
      /\ \A r \in Sockets : (r \in alive /\ r \in DOMAIN letters) => ToSet(letters[r]) \subseteq ToSet(down'[r])
  <2> HIDE DEF letters
  <2>1. Mail(queues) /\ Kin(queues)
    BY DEF Heard, Kin
  <2>2. /\ First(down') /\ Kin(down')
        /\ \A r \in Sockets : (Claimed(queues[r]) => Claimed(down'[r])) /\ (Closed(queues[r]) => Closed(down'[r]))
    BY <2>1, <1>4, <1>5, PostWrites
  <2>3. \A r \in Sockets : ToSet(down'[r]) = IF r \in alive /\ r \in DOMAIN letters
                                THEN ToSet(queues[r]) \cup ToSet(letters[r]) ELSE ToSet(queues[r])
    BY <2>1, <1>4, <1>5, Writes DEF Posts
  <2> QED
    BY <2>2, <2>3
<1>7. Shrinks
  <2>1. /\ room'.host = room.host /\ room'.handoff = room.handoff /\ room'.peers = Deleted(room.peers, s)
        /\ IsQueue(room.peers) /\ alive' = alive
    BY DEF Kicks, HostInv, Network
  <2>2. Peers' \subseteq Peers /\ Peers \ {s} \subseteq Peers'
    BY <2>1, Deletes, DeletesOne DEF Peers
  <2>3. (s \in alive /\ s \in Sockets /\ s \in Peers) => Closed(down'[s])
    <3>1. s \in Peers => s \in DOMAIN letters /\ letters[s] = <<Close>>
      BY Single
    <3>2. ToSet(<<Close>>) = {Close}
      BY OneFrame
    <3> QED
      BY <3>1, <3>2, <1>6 DEF Closed
  <2> QED
    BY <2>1, <2>2, <2>3 DEF Shrinks
<1>8. alive' = alive /\ Queues
  BY <1>6, SocketsAre DEF Kicks, Queues, Kin, Heard, Heeds
<1>9. \A o \in Users : ses[o].dial \in Nat /\ ses'[o].dial = ses[o].dial
  BY <1>2 DEF HostInv, Sessions, WellKept
<1>10. HelloOnce'
  BY DEF ClaimInv, HelloOnce
<1> QED
  BY <1>3, <1>7, <1>8, <1>9, <1>10, ClaimKept

\* A session that opens a socket has no link by then.
LEMMA DialsClaims ==
    ASSUME HostInv, EpochInv, ClaimInv, HostInv', EpochInv', NEW u \in Users, NEW c, NEW queues, NEW shut,
           Dials(u, c, queues, shut), c.dial = ses[u].dial, IsSession(c),
           c.link = Nobody, ses[u].link = Nobody \/ ses[u].link = shut,
           IsQueue(c.roster), ToSet(c.roster) = {},
           shut = Nobody \/ (shut \in alive /\ Dialled(shut)),
           Heard(queues, shut), First(queues), Heeds(queues)
    PROVE  ClaimInv'
<1> USE SocketsAre
<1> DEFINE n == c.dial + 1
           new == <<u, n>>
           base == [queues EXCEPT ![shut] = <<>>]
<1>1. c.dial \in 0..MaxDials /\ n \in 1..MaxDials
  BY DEF Dials, HostInv, Sessions, WellKept
<1>2. new \in Sockets /\ ~Dialled(new) /\ new # shut
  BY <1>1 DEF Dialled
<1>3. /\ DOMAIN ses = Users /\ \A o \in Users \ {u} : ses'[o] = ses[o]
      /\ ses'[u].dial = n /\ ses'[u].task = "open" /\ ses'[u].link = Nobody /\ ses'[u].roster = c.roster
  BY DEF Dials, HostInv, Sessions, IsSession, Fields
<1>4. alive' = (alive \ {shut}) \cup {new} /\ hellos' = hellos \cup {<<new, c.as>>} /\ Nobody \notin alive
  BY DEF Dials, HostInv, Network
<1>5. \A o \in Users : Follows(o)
  <2>1. Follows(u)
    BY <1>2, <1>3, <1>4 DEF Follows, Orderly
  <2> QED
    BY <1>3, <2>1 DEF Follows, ClaimInv
<1>6. Mail(queues) /\ Kin(queues)
  BY DEF Heard, Kin
<1>7. /\ First(down') /\ Kin(down') /\ Shrinks
      /\ \A s \in Sockets \ {shut} : (Claimed(queues[s]) => Claimed(down'[s])) /\ (Closed(queues[s]) => Closed(down'[s]))
  <2>1. CASE shut \in alive
    <3>1. /\ Mail(base) /\ First(base) /\ Kin(base)
          /\ \A s \in Sockets \ {shut} : base[s] = queues[s]
      BY <1>6, Emptied
    <3>2. down' = Written(base, alive \ {shut}, Told(shut)) /\ room' = Without(shut)
      BY <2>1 DEF Dials
    <3> HIDE DEF base
    <3>3. /\ First(down') /\ Kin(down')
          /\ \A s \in Sockets : (Claimed(base[s]) => Claimed(down'[s])) /\ (Closed(base[s]) => Closed(down'[s]))
      BY <3>1, <3>2, ToldPosts, PostWrites
    <3>4. \A s \in Sockets : ToSet(down'[s]) = IF s \in alive \ {shut} /\ s \in DOMAIN Told(shut)
                                THEN ToSet(base[s]) \cup ToSet(Told(shut)[s]) ELSE ToSet(base[s])
      BY <3>1, <3>2, ToldPosts, Writes DEF Posts
    <3>5. DOMAIN Told(shut) \subseteq Peers \cup {room.host}
      <4>1. /\ DOMAIN To(room.host, Of("peer_down", shut)) = {room.host} /\ DOMAIN None = {}
        BY Single
      <4> QED
        BY <4>1 DEF Told
    <3>6. new \notin DOMAIN Told(shut)
      BY <3>5, <1>2, Known
    <3>7. \A p \in Sockets : (p \in DOMAIN Told(shut) /\ p \in alive' /\ Told(shut)[p] = <<Close>>) => Closed(down'[p])
      <4>1. ToSet(<<Close>>) = {Close}
        BY OneFrame
      <4> QED
        BY <3>4, <3>6, <4>1, <1>4 DEF Closed
    <3>8. Shrinks
      BY <3>2, <3>7, <1>2, <1>4, WithoutShrinks
    <3> QED
      BY <3>1, <3>3, <3>8
  <2>2. CASE shut \notin alive
    <3>1. down' = Written(queues, alive \ {shut}, None) /\ room' = room
      BY <2>2 DEF Dials
    <3>2. Shrinks
      BY <3>1 DEF Shrinks, Peers
    <3> QED
      BY <3>1, <3>2, <1>6, PostsNone, PostWrites
  <2> QED
    BY <2>1, <2>2
<1>8. Queues
  BY <1>2, <1>4, <1>7 DEF Queues, Kin, Heard, Heeds
<1>9. \A o \in Users : ses'[o].dial >= ses[o].dial
  <2>1. \A o \in Users : ses[o].dial \in Nat
    BY DEF HostInv, Sessions, WellKept
  <2> QED
    BY <2>1, <1>1, <1>3
<1>10. HelloOnce'
  <2>1. \A h \in hellos : h[1] # new
    BY <1>2 DEF HostInv, Undialled
  <2> QED
    BY <2>1, <1>4 DEF ClaimInv, HelloOnce
<1>11. \A h \in hellos' : h \in hellos \/ ~Dialled(h[1])
  BY <1>2, <1>4
<1>12. \A s \in Sockets : s \in alive' => s \in alive \/ ~Dialled(s)
  BY <1>2, <1>4
<1> QED
  BY <1>5, <1>7, <1>8, <1>9, <1>10, <1>11, <1>12, ClaimKept

(***************************************************************************)
(* What the sessions do.                                                   *)
(***************************************************************************)

\* Nothing read, or a frame read: only who hears of a claim misses one.
LEMMA NothingHeard ==
    ASSUME HostInv, ClaimInv
    PROVE  /\ \A shut : Heard(down, shut)
           /\ First(down) /\ Heeds(down)
  BY NothingRead DEF ClaimInv, Heeds

\* A frame is read, the first of its queue; what is left is in order.
LEMMA ClaimArrival ==
    ASSUME HostInv, EpochInv, ClaimInv, NEW s \in alive, NEW t, Arrives(s, t)
    PROVE  /\ s \in Sockets /\ Owner(s) \in Users /\ IsSession(ses[Owner(s)])
           /\ Dated(ses[Owner(s)]) /\ Orderly(ses[Owner(s)])
           /\ Tranquil(Owner(s), ses[Owner(s)])
           /\ Head(down[s]) \in ToSet(down[s]) /\ Head(down[s]).t = t
           /\ Heard(Rest(s), s) /\ First(Rest(s))
           /\ t # "close" => \A shut : Heard(Rest(s), shut)
           /\ t # "host_claimed" \/ Deaf(s)' => Heeds(Rest(s))
<1>1. /\ s \in Sockets /\ Owner(s) \in Users /\ Heard(Rest(s), s) /\ IsSession(ses[Owner(s)])
      /\ Dated(ses[Owner(s)]) /\ (t # "close" => \A shut : Heard(Rest(s), shut))
  BY TrueArrival
<1>2. Orderly(ses[Owner(s)]) /\ Tranquil(Owner(s), ses[Owner(s)])
  BY <1>1, Tranquils DEF ClaimInv
<1>3. down[s] # <<>> /\ Head(down[s]).t = t /\ Mail(down)
  BY DEF Arrives, HostInv, Network
<1>4. /\ \A r \in Sockets \ {s} : Rest(s)[r] = down[r]
      /\ ToSet(down[s]) = {Head(down[s])} \cup ToSet(Rest(s)[s])
      /\ Rest(s)[s] = Tail(down[s])
  BY <1>1, <1>3, Reads DEF Rest, Mail
<1>5. ~Rings(Tail(down[s]))
  BY <1>1, <1>3 DEF ClaimInv, First
<1>6. First(Rest(s))
  <2>1. IsQueue(Tail(down[s]))
    BY <1>1, <1>3, Read DEF Mail
  <2>2. Tail(down[s]) # <<>> => ~Rings(Tail(Tail(down[s])))
    BY <2>1, <1>5, Read DEF Rings
  <2> QED
    BY <2>2, <1>4 DEF First, ClaimInv
<1>7. ASSUME t # "host_claimed" \/ Deaf(s)' PROVE Heeds(Rest(s))
  <2>1. Claimed(down[s]) => Claimed(Rest(s)[s]) \/ (t = "host_claimed" /\ ~Rings(down[s]))
    BY <1>3, <1>4, <1>5 DEF Claimed, Rings
  <2>2. \A r \in Sockets \ {s} : Claimed(down[r]) => Claimed(Rest(s)[r])
    BY <1>4
  <2> QED
    BY <2>1, <2>2, <1>7 DEF Heeds
<1> QED
  BY <1>1, <1>2, <1>3, <1>4, <1>6, <1>7

\* Afterwards u is as it goes on.
LEMMA GoneOn ==
    ASSUME HostInv, NEW u \in Users, NEW c, NEW queues, NEW letters, NEW shut, Goes(u, c, queues, letters, shut)
    PROVE  ses'[u] = c /\ alive' = alive \ {shut}
  BY DEF Goes, HostInv, Sessions

\* A wait that fails ends the session or its link, and asks nothing.
LEMMA FailsClaims ==
    ASSUME HostInv, EpochInv, ClaimInv, HostInv', EpochInv', NEW u \in Users, NEW queues,
           Fails(u, ses[u], queues), UNCHANGED hellos,
           \A shut : Heard(queues, shut), First(queues), Heeds(queues)
    PROVE  ClaimInv'
  BY Tranquils, TranquilClaims, PostsNone DEF Fails

\* A session has a link when it hears READY, and is told of claims from then on.
LEMMA ReadyClaims ==
    ASSUME HostInv, EpochInv, ClaimInv, HostInv', EpochInv', NEW s \in alive, HearReady(s)
    PROVE  ClaimInv'
<1> DEFINE u == Owner(s)
           c == ses[u]
           awaited == c.task = "open" /\ s = Current(u)
           joins == [[c EXCEPT !.link = s, !.ready = "none"] EXCEPT !.task = "hello", !.key = Nobody, !.spoiled = {}]
           hosts == [c EXCEPT !.task = "none", !.phase = "hosting", !.link = s, !.transferring = FALSE,
                              !.epoch = c.minEpoch]
<1>1. /\ s \in Sockets /\ u \in Users /\ IsSession(c) /\ Dated(c) /\ Orderly(c) /\ Tranquil(u, c)
      /\ \A shut : Heard(Rest(s), shut)
      /\ First(Rest(s)) /\ Heeds(Rest(s)) /\ Rings(down[s])
  BY ClaimArrival DEF HearReady, Rings
<1>2. UNCHANGED hellos
  BY DEF HearReady
<1>3. CASE ~awaited
  <2>1. Goes(u, c, Rest(s), None, Nobody)
    BY <1>3 DEF HearReady
  <2> QED
    BY <2>1, <1>1, <1>2, TranquilClaims, PostsNone
<1>4. CASE awaited /\ c.leaving
  <2>1. Goes(u, [c EXCEPT !.task = "none"], Rest(s), None, s)
    BY <1>4 DEF HearReady
  <2> QED
    BY <2>1, <1>1, <1>2, Tranquils, TranquilClaims, PostsNone
<1>5. CASE awaited /\ ~c.leaving
  <2>1. c.link = Nobody /\ c.greeting = {} /\ ToSet(c.roster) = {} /\ IsQueue(c.roster)
    BY <1>1, <1>5 DEF Dated, Orderly, Settled
  <2>2. PICK d, letters : d \in {joins, hosts} /\ Goes(u, d, Rest(s), letters, Nobody) /\ Posts(letters)
    <3>1. CASE c.as = "peer"
      <4>1. Goes(u, joins, Rest(s), ToHost([c EXCEPT !.link = s, !.ready = "none"].link, "hello", Nobody), Nobody)
        BY <3>1, <1>5 DEF HearReady, Greets
      <4>2. Posts(ToHost([c EXCEPT !.link = s, !.ready = "none"].link, "hello", Nobody))
        BY ToHostPosts
      <4> HIDE DEF joins, hosts
      <4> QED
        BY <4>1, <4>2
    <3>2. CASE c.as # "peer"
      <4>1. Goes(u, hosts, Rest(s), None, Nobody)
        BY <3>2, <1>5 DEF HearReady
      <4> HIDE DEF joins, hosts
      <4> QED
        BY <4>1, PostsNone
    <3> QED
      BY <3>1, <3>2
  <2>3. /\ d.dial = c.dial /\ d.link = s /\ d.as = c.as /\ d.greeting = {} /\ d.roster = c.roster
        /\ d.task \in {"none", "hello"}
    BY <2>1, <2>2, <1>1 DEF IsSession, Fields
  <2>4. ses'[u] = d
    BY <2>2, <1>1, GoneOn
  <2>5. Follows(u)
    BY <2>1, <2>3, <2>4, <1>1 DEF Follows, Orderly
  <2> QED
    BY <2>2, <2>3, <2>5, <1>1, <1>2, GoesClaims
<1> QED
  BY <1>3, <1>4, <1>5

\* Who is turned away has had no link; it dials anew, or closes.
LEMMA RejectClaims ==
    ASSUME HostInv, EpochInv, ClaimInv, HostInv', EpochInv', NEW s \in alive, HearReject(s)
    PROVE  ClaimInv'
<1> DEFINE u == Owner(s)
           c == ses[u]
           awaited == c.task = "open" /\ s = Current(u)
           idle == [c EXCEPT !.task = IF awaited THEN "none" ELSE @]
           turned == [c EXCEPT !.as = IF @ = "peer" THEN "host" ELSE "peer", !.tries = @ + 1]
<1>1. /\ s \in Sockets /\ u \in Users /\ IsSession(c) /\ Dated(c) /\ Orderly(c) /\ Tranquil(u, c)
      /\ \A shut : Heard(Rest(s), shut)
      /\ First(Rest(s)) /\ Heeds(Rest(s))
  BY ClaimArrival DEF HearReject
<1>2. CASE ~awaited \/ c.leaving
  <2>1. Goes(u, idle, Rest(s), None, s) /\ UNCHANGED hellos
    BY <1>2 DEF HearReject
  <2>2. Tranquil(u, idle)
    BY <1>1 DEF Tranquil, IsSession, Fields
  <2> HIDE DEF idle
  <2> QED
    BY <2>1, <2>2, <1>1, TranquilClaims, PostsNone
<1>3. CASE awaited /\ ~c.leaving /\ c.tries < MaxEnterAttempts /\ ~c.transferring
  <2>1. Dials(u, turned, Rest(s), s)
    BY <1>3 DEF HearReject
  <2>2. c.link = Nobody /\ ToSet(c.roster) = {} /\ IsQueue(c.roster)
    BY <1>1, <1>3 DEF Dated, Orderly, Settled
  <2>3. turned.dial = c.dial /\ IsSession(turned) /\ turned.link = c.link /\ turned.roster = c.roster
    BY <1>1 DEF IsSession, Fields
  <2>4. c.dial \in 0..MaxDials /\ s[2] = c.dial
    BY <1>1, <1>3 DEF HostInv, Sessions, WellKept, Current
  <2>5. Dialled(s)
    BY <2>4 DEF Dialled
  <2> HIDE DEF turned
  <2> QED
    BY <2>1, <2>2, <2>3, <2>5, <1>1, DialsClaims
<1>4. CASE awaited /\ ~c.leaving /\ ~(c.tries < MaxEnterAttempts /\ ~c.transferring)
  <2>1. UNCHANGED hellos /\ (Goes(u, Left(c), Rest(s), None, s) \/ Goes(u, Discarded(c), Rest(s), None, s))
    BY <1>4 DEF HearReject
  <2> QED
    BY <2>1, <1>1, Tranquils, TranquilClaims, PostsNone
<1> QED
  BY <1>2, <1>3, <1>4

\* Who hears of the end closes its socket, and asks nothing.
LEMMA CloseClaims ==
    ASSUME HostInv, EpochInv, ClaimInv, HostInv', EpochInv', NEW s \in alive, HearClose(s)
    PROVE  ClaimInv'
<1> DEFINE u == Owner(s)
           c == ses[u]
           gone == [(IF c.closing THEN c ELSE [c EXCEPT !.phase = "left"])
                       EXCEPT !.roster = <<>>, !.greeting = {}, !.spoiled = {}]
           back == [c EXCEPT !.task = "backoff"]
           quiet == [c EXCEPT !.task = "none"]
<1>1. /\ s \in Sockets /\ u \in Users /\ IsSession(c) /\ Tranquil(u, c)
      /\ Heard(Rest(s), s) /\ First(Rest(s)) /\ Heeds(Rest(s))
  BY ClaimArrival DEF HearClose
<1>2. /\ Tranquil(u, Left(c)) /\ Tranquil(u, Discarded(c)) /\ Tranquil(u, quiet) /\ UNCHANGED hellos
  BY <1>1, Tranquils DEF HearClose
<1>3. Tranquil(u, back)
  BY <1>1 DEF Tranquil, IsSession, Fields
<1>4. Tranquil(u, gone)
  <2>1. IsQueue(<<>>) /\ ToSet(<<>>) = {}
    BY OneFrame
  <2> QED
    BY <2>1, <1>1 DEF Tranquil, IsSession, Fields
<1> HIDE DEF gone, back, quiet
<1>5. PICK d : Goes(u, d, Rest(s), None, s) /\ Tranquil(u, d)
  BY <1>1, <1>2, <1>3, <1>4 DEF HearClose, gone, back, quiet
<1> QED
  BY <1>1, <1>2, <1>5, TranquilClaims, PostsNone

\* Who speaks to the host over its link is heard with that link's name.
LEMMA LinkSpoke ==
    ASSUME HostInv, NEW u \in Users
    PROVE  ses[u].link \in Sockets => Spoke(ses[u].link)
  BY SocketsAre DEF HostInv, Sessions, WellKept, OwnLink, Spoke, Dialled, HasLink

\* A link asks to join: whoever is admitted later has been a link.
LEMMA AckClaims ==
    ASSUME HostInv, EpochInv, ClaimInv, HostInv', EpochInv', NEW s \in alive, HearAck(s)
    PROVE  ClaimInv'
<1> DEFINE u == Owner(s)
           c == ses[u]
           f == Head(down[s])
           d == [c EXCEPT !.task = "join", !.key = f.key]
<1>1. /\ s \in Sockets /\ u \in Users /\ IsSession(c) /\ Tranquil(u, c)
      /\ \A shut : Heard(Rest(s), shut)
      /\ First(Rest(s)) /\ Heeds(Rest(s))
  BY ClaimArrival DEF HearAck
<1>2. Tranquil(u, d)
  BY <1>1 DEF Tranquil, IsSession, Fields
<1>3. s = c.link /\ Posts(ToHost(s, "join", f.key))
  <2>1. s = c.link
    BY DEF HearAck
  <2> QED
    BY <2>1, <1>1, LinkSpoke, ToHostPosts
<1> HIDE DEF d
<1>4. /\ UNCHANGED hellos
      /\ (Fails(u, c, Rest(s)) \/ Goes(u, d, Rest(s), ToHost(s, "join", f.key), Nobody))
  BY DEF HearAck, d
<1> QED
  BY <1>1, <1>2, <1>3, <1>4, FailsClaims, TranquilClaims

\* A member stops waiting, or leaves.
LEMMA JoinedClaims ==
    ASSUME HostInv, EpochInv, ClaimInv, HostInv', EpochInv', NEW s \in alive, HearJoined(s)
    PROVE  ClaimInv'
<1> DEFINE u == Owner(s)
           c == ses[u]
           d == [c EXCEPT !.task = "none", !.phase = "in-room", !.transferring = FALSE,
                          !.epoch = Head(down[s]).epoch]
<1>1. /\ s \in Sockets /\ u \in Users /\ IsSession(c) /\ Tranquil(u, c)
      /\ \A shut : Heard(Rest(s), shut)
      /\ First(Rest(s)) /\ Heeds(Rest(s))
  BY ClaimArrival DEF HearJoined
<1>2. Tranquil(u, d)
  BY <1>1 DEF Tranquil, IsSession, Fields
<1> HIDE DEF d
<1>3. /\ UNCHANGED hellos
      /\ \/ Goes(u, Left(c), Rest(s), None, s)
         \/ Goes(u, Discarded(c), Rest(s), None, s)
         \/ Goes(u, d, Rest(s), None, Nobody)
  BY DEF HearJoined, d
<1> QED
  BY <1>1, <1>2, <1>3, Tranquils, TranquilClaims, PostsNone

\* Who hears of a claim either waited for it, and waits no more, or will know of it.
LEMMA ClaimedClaims ==
    ASSUME HostInv, EpochInv, ClaimInv, HostInv', EpochInv', NEW s \in alive, HearClaimed(s)
    PROVE  ClaimInv'
<1> DEFINE u == Owner(s)
           c == ses[u]
           knows == [c EXCEPT !.ready = IF @ = "none" THEN "early" ELSE @]
           quiet == [c EXCEPT !.task = "none"]
           joins == [c EXCEPT !.task = "hello", !.key = Nobody, !.spoiled = {}]
<1>1. /\ s \in Sockets /\ u \in Users /\ IsSession(c) /\ Tranquil(u, c) /\ Orderly(c)
      /\ \A shut : Heard(Rest(s), shut)
      /\ First(Rest(s)) /\ (Deaf(s)' => Heeds(Rest(s)))
  BY ClaimArrival DEF HearClaimed
<1>2. /\ UNCHANGED hellos
      /\ \/ Goes(u, c, Rest(s), None, Nobody) /\ (s # c.link \/ c.as = "host")
         \/ Goes(u, quiet, Rest(s), None, Nobody) /\ c.task = "claim"
         \/ Goes(u, joins, Rest(s), ToHost(c.link, "hello", Nobody), Nobody) /\ c.task = "claim"
         \/ Goes(u, knows, Rest(s), None, Nobody) /\ c.task # "claim"
  BY DEF HearClaimed, Greets
<1>3. Tranquil(u, quiet) /\ Tranquil(u, joins)
  BY <1>1 DEF Tranquil, IsSession, Fields
<1>4. /\ quiet.task = "none" /\ quiet.ready = c.ready /\ joins.task = "hello" /\ joins.ready = c.ready
      /\ knows.task = c.task /\ knows.ready # "none" /\ knows.dial = c.dial /\ knows.link = c.link
      /\ knows.as = c.as /\ knows.greeting = c.greeting /\ knows.roster = c.roster
  BY <1>1 DEF IsSession, Fields
<1>5. Posts(ToHost(c.link, "hello", Nobody))
  BY ToHostPosts
<1> HIDE DEF quiet, joins, knows
<1>6. CASE Goes(u, c, Rest(s), None, Nobody) /\ (s # c.link \/ c.as = "host")
  <2>1. ses'[u] = c
    BY <1>1, <1>6, GoneOn
  <2>2. Deaf(s)'
    BY <2>1, <1>1, <1>6 DEF Deaf, Fresh, Pending, HasLink, Orderly
  <2> QED
    BY <2>2, <1>1, <1>2, <1>6, TranquilClaims, PostsNone
<1>7. ASSUME NEW d \in {quiet, joins}, NEW letters, Posts(letters),
             Goes(u, d, Rest(s), letters, Nobody), c.task = "claim"
      PROVE  ClaimInv'
  <2>1. ses'[u] = d
    BY <1>1, <1>7, GoneOn
  <2>2. d.task # "claim" /\ d.ready # "none"
    BY <1>1, <1>4, <1>7 DEF Orderly
  <2>3. Deaf(s)'
    BY <2>1, <2>2 DEF Deaf, Fresh, Pending
  <2> QED
    BY <2>3, <1>1, <1>2, <1>3, <1>7, TranquilClaims
<1>8. CASE Goes(u, knows, Rest(s), None, Nobody) /\ c.task # "claim"
  <2>1. ses'[u] = knows
    BY <1>1, <1>8, GoneOn
  <2>2. Deaf(s)'
    BY <2>1, <1>4, <1>8 DEF Deaf, Fresh, Pending
  <2>3. Follows(u)
    BY <2>1, <1>1, <1>4, <1>8 DEF Follows, Orderly, Settled
  <2> QED
    BY <2>2, <2>3, <1>1, <1>2, <1>4, <1>8, GoesClaims, PostsNone
<1> QED
  BY <1>2, <1>5, <1>6, <1>7, <1>8, PostsNone

\* A survivor begins to wait only when it has not heard of a claim before.
LEMMA TransferClaims ==
    ASSUME HostInv, EpochInv, ClaimInv, HostInv', EpochInv', NEW s \in alive, HearTransfer(s)
    PROVE  ClaimInv'
<1> DEFINE u == Owner(s)
           c == ses[u]
           told == [c EXCEPT !.transferring = TRUE, !.minEpoch = Head(down[s]).epoch,
                             !.ready = IF @ \in {"none", "early"} THEN "asked" ELSE "again"]
           heir == [told EXCEPT !.as = "host", !.link = Nobody, !.key = Nobody]
           joins == [told EXCEPT !.task = "hello", !.key = Nobody, !.spoiled = {}]
           waits == [told EXCEPT !.task = "claim"]
<1>1. /\ s \in Sockets /\ u \in Users /\ IsSession(c) /\ Tranquil(u, c) /\ Orderly(c)
      /\ \A shut : Heard(Rest(s), shut)
      /\ First(Rest(s)) /\ Heeds(Rest(s)) /\ Transfers(down[s])
  BY ClaimArrival DEF HearTransfer, Transfers
<1>2. s = c.link /\ c.as = "peer" /\ ToSet(c.roster) = {} /\ IsQueue(c.roster)
  BY <1>1 DEF HearTransfer, Member, Orderly, Settled
<1>3. Dialled(s)
  BY <1>1, <1>2, LinkSpoke DEF Spoke
<1>4. /\ heir.dial = c.dial /\ IsSession(heir) /\ heir.link = Nobody /\ heir.roster = c.roster
      /\ \A d \in {joins, waits} : /\ d.dial = c.dial /\ d.link = c.link /\ d.as = c.as /\ d.greeting = c.greeting
                                   /\ d.roster = c.roster /\ d.ready # "none" /\ d.task # "handing"
      /\ joins.task = "hello" /\ waits.task = "claim"
      /\ c.ready \in {"none", "early"} \/ waits.ready # "asked"
  BY <1>1 DEF IsSession, Fields
<1>5. told.link = c.link
  BY <1>1 DEF IsSession, Fields
<1> HIDE DEF told, heir, joins, waits
<1>6. \/ Dials(u, heir, Rest(s), s)
      \/ Goes(u, joins, Rest(s), ToHost(c.link, "hello", Nobody), Nobody) /\ UNCHANGED hellos
      \/ Goes(u, waits, Rest(s), None, Nobody) /\ UNCHANGED hellos /\ c.ready # "early"
  <2>1. \/ Dials(u, heir, Rest(s), s)
        \/ Goes(u, joins, Rest(s), ToHost(told.link, "hello", Nobody), Nobody) /\ UNCHANGED hellos
        \/ Goes(u, waits, Rest(s), None, Nobody) /\ UNCHANGED hellos /\ c.ready # "early"
    BY DEF HearTransfer, Greets, ClaimedEarly, told, heir, joins, waits
  <2> QED
    BY <2>1, <1>5
<1>7. CASE Dials(u, heir, Rest(s), s)
  BY <1>1, <1>2, <1>3, <1>4, <1>7, DialsClaims
<1>8. ASSUME NEW d \in {joins, waits}, NEW letters, Posts(letters),
             Goes(u, d, Rest(s), letters, Nobody), UNCHANGED hellos, d = waits => c.ready # "early"
      PROVE  ClaimInv'
  <2>1. ses'[u] = d
    BY <1>1, <1>8, GoneOn
  <2>2. (d.task = "claim" /\ d.ready = "asked") => c.ready = "none"
    BY <1>4, <1>8
  <2>3. Follows(u)
    BY <2>1, <2>2, <1>1, <1>2, <1>4, <1>8 DEF Follows, Orderly
  <2> QED
    BY <2>3, <1>1, <1>4, <1>8, GoesClaims
<1>9. Posts(ToHost(c.link, "hello", Nobody))
  BY ToHostPosts
<1>10. CASE Goes(u, joins, Rest(s), ToHost(c.link, "hello", Nobody), Nobody) /\ UNCHANGED hellos
  <2>1. CASE joins = waits
    BY <2>1, <1>4
  <2>2. CASE joins # waits
    BY <2>2, <1>8, <1>9, <1>10
  <2> QED
    BY <2>1, <2>2
<1> QED
  BY <1>6, <1>7, <1>8, <1>10, PostsNone

\* A stray frame changes no link, and closes at most its own socket.
LEMMA StrayClaims ==
    ASSUME HostInv, EpochInv, ClaimInv, HostInv', EpochInv', NEW s \in alive, HearStray(s)
    PROVE  ClaimInv'
<1> DEFINE u == Owner(s)
           c == ses[u]
           d == [c EXCEPT !.spoiled = {s}]
<1>1. Arrives(s, Head(down[s]).t) /\ Head(down[s]).t \notin {"close", "host_claimed"}
  BY DEF HearStray, Arrives
<1>2. /\ s \in Sockets /\ u \in Users /\ IsSession(c) /\ Tranquil(u, c)
      /\ \A shut : Heard(Rest(s), shut)
      /\ First(Rest(s)) /\ Heeds(Rest(s))
  BY <1>1, ClaimArrival
<1>3. Tranquil(u, d)
  BY <1>2 DEF Tranquil, IsSession, Fields
<1> HIDE DEF d
<1>4. UNCHANGED hellos
      /\ \/ Goes(u, c, Rest(s), None, Nobody)
         \/ Goes(u, d, Rest(s), None, Nobody)
         \/ Goes(u, c, Rest(s), None, s)
  BY DEF HearStray, d
<1> QED
  BY <1>2, <1>3, <1>4, TranquilClaims, PostsNone

\* A newcomer at the end is all that is new.
LEMMA AppendsOne ==
    ASSUME NEW q, NEW e, IsQueue(q)
    PROVE  IsQueue(Append(q, e)) /\ ToSet(Append(q, e)) = ToSet(q) \cup {e}
<1> DEFINE r == Append(q, e)
<1>1. q \in Seq(ToSet(q)) /\ Len(q) \in Nat /\ DOMAIN q = 1..Len(q)
  BY DEF IsQueue
<1>2. /\ DOMAIN r = 1..(Len(q) + 1) /\ r[Len(q) + 1] = e
      /\ \A i \in 1..Len(q) : r[i] = q[i]
  BY <1>1
<1> HIDE DEF r
<1>3. \A i \in DOMAIN r : i \in DOMAIN q \/ i = Len(q) + 1
  BY <1>1, <1>2
<1>4. ToSet(r) = ToSet(q) \cup {e}
  BY <1>1, <1>2, <1>3 DEF ToSet
<1> QED
  BY <1>4, Appends DEF r

\* The host greets whom the relay told it of, or throws it out.
LEMMA PeerUpClaims ==
    ASSUME HostInv, EpochInv, ClaimInv, HostInv', EpochInv', NEW s \in alive, HearPeerUp(s)
    PROVE  ClaimInv'
<1> DEFINE u == Owner(s)
           c == ses[u]
           p == Head(down[s]).from
           d == [c EXCEPT !.greeting = @ \cup {p}]
<1>1. /\ s \in Sockets /\ u \in Users /\ IsSession(c) /\ Tranquil(u, c) /\ Orderly(c)
      /\ Head(down[s]) \in ToSet(down[s]) /\ Head(down[s]).t = "peer_up"
      /\ \A shut : Heard(Rest(s), shut)
      /\ First(Rest(s)) /\ Heeds(Rest(s))
  BY ClaimArrival DEF HearPeerUp
<1>2. /\ d.dial = c.dial /\ d.link = c.link /\ d.as = c.as /\ d.ready = c.ready /\ d.task = c.task
      /\ d.roster = c.roster /\ d.greeting = c.greeting \cup {p}
  BY <1>1 DEF IsSession, Fields
<1> HIDE DEF d
<1>3. UNCHANGED hellos
      /\ \/ Goes(u, c, Rest(s), None, Nobody)
         \/ Kicks(u, c, Rest(s), p)
         \/ Goes(u, d, Rest(s), None, Nobody) /\ s = c.link
  BY DEF HearPeerUp, d
<1>4. CASE Goes(u, d, Rest(s), None, Nobody) /\ s = c.link
  <2>1. ses'[u] = d
    BY <1>1, <1>4, GoneOn
  <2>2. Follows(u)
    BY <2>1, <1>1, <1>2, <1>4 DEF Follows, Orderly, Settled
  <2> QED
    BY <2>2, <1>1, <1>2, <1>3, <1>4, GoesClaims, PostsNone
<1> QED
  BY <1>1, <1>3, <1>4, TranquilClaims, KicksClaims, PostsNone

\* A peer that is gone is forgotten.
LEMMA PeerDownClaims ==
    ASSUME HostInv, EpochInv, ClaimInv, HostInv', EpochInv', NEW s \in alive, HearPeerDown(s)
    PROVE  ClaimInv'
<1> DEFINE u == Owner(s)
           c == ses[u]
           p == Head(down[s]).from
           d == [c EXCEPT !.greeting = @ \ {p}, !.spoiled = @ \ {p},
                          !.roster = IF c.closing THEN @ ELSE Deleted(@, p)]
<1>1. /\ s \in Sockets /\ u \in Users /\ IsSession(c) /\ Orderly(c)
      /\ \A shut : Heard(Rest(s), shut)
      /\ First(Rest(s)) /\ Heeds(Rest(s))
  BY ClaimArrival DEF HearPeerDown
<1>2. Tranquil(u, d)
  BY <1>1, Deletes DEF Tranquil, IsSession, Fields, Orderly
<1> HIDE DEF d
<1>3. UNCHANGED hellos /\ Goes(u, d, Rest(s), None, Nobody)
  BY DEF HearPeerDown, d
<1> QED
  BY <1>1, <1>2, <1>3, TranquilClaims, PostsNone

\* A greeting is answered; nothing else changes.
LEMMA HelloFrameClaims ==
    ASSUME HostInv, EpochInv, ClaimInv, HostInv', EpochInv', NEW s \in alive, HearHello(s)
    PROVE  ClaimInv'
<1> DEFINE u == Owner(s)
           p == Head(down[s]).from
           letters == IF s = ses[u].link /\ p \in ses[u].greeting THEN ToPeer(p, "ack", s, 0) ELSE None
<1>1. /\ s \in Sockets /\ u \in Users /\ Tranquil(u, ses[u])
      /\ \A shut : Heard(Rest(s), shut)
      /\ First(Rest(s)) /\ Heeds(Rest(s))
  BY ClaimArrival DEF HearHello
<1>2. Posts(letters)
  BY ToPeerPosts, PostsNone
<1>3. UNCHANGED hellos /\ Goes(u, ses[u], Rest(s), letters, Nobody)
  BY DEF HearHello
<1> HIDE DEF letters
<1> QED
  BY <1>1, <1>2, <1>3, TranquilClaims

\* Who is admitted has spoken over its link.
LEMMA JoinClaims ==
    ASSUME HostInv, EpochInv, ClaimInv, HostInv', EpochInv', NEW s \in alive, HearJoin(s)
    PROVE  ClaimInv'
<1> DEFINE u == Owner(s)
           c == ses[u]
           f == Head(down[s])
           p == f.from
           d == [c EXCEPT !.greeting = @ \ {p}, !.roster = Append(@, p)]
<1>1. /\ s \in Sockets /\ u \in Users /\ IsSession(c) /\ Tranquil(u, c) /\ Orderly(c) /\ Dated(c)
      /\ f \in ToSet(down[s]) /\ f.t = "join"
      /\ \A shut : Heard(Rest(s), shut)
      /\ First(Rest(s)) /\ Heeds(Rest(s))
  BY ClaimArrival DEF HearJoin
<1>2. /\ d.dial = c.dial /\ d.link = c.link /\ d.as = c.as /\ d.ready = c.ready /\ d.task = c.task
      /\ d.greeting \subseteq c.greeting /\ d.roster = Append(c.roster, p)
  BY <1>1 DEF IsSession, Fields
<1>3. Posts(ToPeer(p, "joined", s, c.epoch))
  BY ToPeerPosts
<1>4. p \in Sockets => Spoke(p)
  BY <1>1 DEF ClaimInv, Spoken
<1>5. IsQueue(d.roster) /\ ToSet(d.roster) = ToSet(c.roster) \cup {p}
  BY <1>1, <1>2, AppendsOne DEF Orderly
<1> HIDE DEF d
<1>6. UNCHANGED hellos
      /\ \/ Goes(u, c, Rest(s), None, Nobody)
         \/ Kicks(u, c, Rest(s), p)
         \/ Goes(u, d, Rest(s), ToPeer(p, "joined", s, c.epoch), Nobody) /\ p \in c.greeting
  BY DEF HearJoin, d
<1>7. CASE Goes(u, d, Rest(s), ToPeer(p, "joined", s, c.epoch), Nobody) /\ p \in c.greeting
  <2>1. ses'[u] = d
    BY <1>1, <1>7, GoneOn
  <2>2. Settled(c)
    BY <1>1, <1>7 DEF Dated
  <2>3. Orderly(d)
    BY <2>2, <1>1, <1>2, <1>5 DEF Orderly, Settled
  <2>4. Follows(u)
    BY <2>1, <2>3, <1>2, <1>4, <1>5, <1>7 DEF Follows, Orderly
  <2> QED
    BY <2>4, <1>1, <1>2, <1>3, <1>6, <1>7, GoesClaims
<1> QED
  BY <1>1, <1>6, <1>7, TranquilClaims, KicksClaims, PostsNone

\* A ping spoils a handshake, or is answered.
LEMMA PingFrameClaims ==
    ASSUME HostInv, EpochInv, ClaimInv, HostInv', EpochInv', NEW s \in alive, HearPing(s)
    PROVE  ClaimInv'
<1> DEFINE u == Owner(s)
           c == ses[u]
           f == Head(down[s])
           d == [c EXCEPT !.spoiled = @ \cup {f.from}]
           letters == IF s = c.link /\ f.from \in ToSet(c.roster) /\ f.key = s
                      THEN ToPeer(f.from, "pong", s, 0) ELSE None
<1>1. /\ s \in Sockets /\ u \in Users /\ IsSession(c) /\ Tranquil(u, c)
      /\ \A shut : Heard(Rest(s), shut)
      /\ First(Rest(s)) /\ Heeds(Rest(s))
  BY ClaimArrival DEF HearPing
<1>2. Tranquil(u, d)
  BY <1>1 DEF Tranquil, IsSession, Fields
<1>3. Posts(letters)
  BY ToPeerPosts, PostsNone
<1>4. UNCHANGED hellos
      /\ (Goes(u, d, Rest(s), None, Nobody) \/ Goes(u, c, Rest(s), letters, Nobody))
  BY DEF HearPing
<1> HIDE DEF d, letters
<1> QED
  BY <1>1, <1>2, <1>3, <1>4, TranquilClaims, PostsNone

\* Whatever a socket hears.
LEMMA HearClaims ==
    ASSUME HostInv, EpochInv, ClaimInv, HostInv', EpochInv', NEW s \in alive, Hear(s)
    PROVE  ClaimInv'
  BY ReadyClaims, RejectClaims, CloseClaims, AckClaims, JoinedClaims, ClaimedClaims, TransferClaims,
     StrayClaims, PeerUpClaims, PeerDownClaims, HelloFrameClaims, JoinClaims, PingFrameClaims
  DEF Hear

\* The first socket of a session.
LEMMA EnterClaims ==
    ASSUME HostInv, EpochInv, ClaimInv, HostInv', EpochInv', NEW u \in Users, Enter(u) \/ Redial(u)
    PROVE  ClaimInv'
<1> DEFINE c == ses[u]
           d == [c EXCEPT !.phase = "connecting", !.tries = 1]
<1>1. IsSession(c) /\ Orderly(c) /\ Heard(down, Nobody) /\ First(down) /\ Heeds(down)
  BY NothingHeard DEF HostInv, Sessions, WellKept, ClaimInv
<1>2. c.link = Nobody /\ IsQueue(c.roster) /\ ToSet(c.roster) = {}
  BY <1>1 DEF Enter, Redial, EpochInv, Dated, Orderly, Settled
<1>3. d.dial = c.dial /\ IsSession(d) /\ d.link = c.link /\ d.roster = c.roster
  BY <1>1 DEF IsSession, Fields
<1> HIDE DEF d
<1>4. Dials(u, d, down, Nobody) \/ Dials(u, c, down, Nobody)
  BY DEF Enter, Redial, d
<1> QED
  BY <1>1, <1>2, <1>3, <1>4, DialsClaims

\* What goes on by itself; the host that hands over tells its members, whom it knows.
LEMMA TicksClaims ==
    ASSUME HostInv, EpochInv, ClaimInv, HostInv', EpochInv', NEW u \in Users, Ticks(u)
    PROVE  ClaimInv'
<1> DEFINE c == ses[u]
           handed == [c EXCEPT !.task = "grace"]
           over == [c EXCEPT !.task = "none", !.roster = <<>>, !.greeting = {}, !.spoiled = {}]
<1>1. /\ IsSession(c) /\ Tranquil(u, c) /\ Tranquil(u, Left(c)) /\ Tranquil(u, [c EXCEPT !.task = "none"])
      /\ Tranquil(u, [c EXCEPT !.phase = "left"])
      /\ (\A shut : Heard(down, shut)) /\ First(down) /\ Heeds(down)
  BY Tranquils, NothingHeard DEF HostInv, Sessions, WellKept
<1>2. CASE Redial(u)
  BY <1>2, EnterClaims
<1>3. CASE HandOver(u)
  <2> DEFINE f == Frame("transfer", c.link, c.link, c.epoch + 1, Heir(c.roster))
             letters == [p \in ToSet(c.roster) \cap Peers |-> <<f>>]
  <2>1. Tranquil(u, handed)
    BY <1>1 DEF Tranquil, IsSession, Fields
  <2>2. Goes(u, handed, down, letters, Nobody) /\ UNCHANGED hellos
    BY <1>3 DEF HandOver
  <2>3. c.link \in Sockets /\ Owner(c.link) = u /\ HasLink(c.link)
    BY <1>3 DEF HandOver, EpochInv, Dated, Settled, HostInv, Sessions, WellKept, OwnLink, HasLink
  <2>4. f.t = "transfer"
    BY Frames
  <2> HIDE DEF f
  <2>5. ASSUME NEW p \in Sockets, p \in ToSet(c.roster), p \in Peers PROVE Fit(p, f)
    <3>1. Spent(p) /\ Spoke(p)
      BY <2>5, Known DEF ClaimInv, Spoken
    <3>2. Knows(c.link, p)
      BY <2>3, <2>5 DEF Knows
    <3>3. Untold(p) => room.host = c.link
      BY <2>3, <2>5, <3>2 DEF ClaimInv, HostKnows
    <3>4. room.host = c.link => room.handoff # "no"
      BY <1>3 DEF HandOver, ClaimInv, Handing
    <3> QED
      BY <2>4, <2>5, <3>1, <3>3, <3>4 DEF Fit, Handed
  <2>6. Posts(letters)
    BY <2>5, OneFrame DEF Posts, Letters
  <2> HIDE DEF handed, letters
  <2> QED
    BY <2>1, <2>2, <2>6, <1>1, TranquilClaims
<1>4. CASE GraceEnds(u)
  <2>1. IsQueue(<<>>) /\ ToSet(<<>>) = {}
    BY OneFrame
  <2>2. Tranquil(u, over)
    BY <2>1, <1>1 DEF Tranquil, IsSession, Fields
  <2>3. Goes(u, over, down, None, c.link) /\ UNCHANGED hellos
    BY <1>4 DEF GraceEnds
  <2> HIDE DEF over
  <2> QED
    BY <2>2, <2>3, <1>1, TranquilClaims, PostsNone
<1>5. CASE RehomeGivesUp(u)
  BY <1>1, <1>5, TranquilClaims, PostsNone DEF RehomeGivesUp
<1>6. CASE ConnectTimesOut(u)
  BY <1>1, <1>6, FailsClaims DEF ConnectTimesOut
<1>7. CASE HostLost(u)
  BY <1>1, <1>7, TranquilClaims, PostsNone DEF HostLost
<1>8. CASE \E p \in Sockets : HostGivesUp(u, p) \/ HostDropsDead(u, p)
  BY <1>1, <1>8, KicksClaims DEF HostGivesUp, HostDropsDead
<1> QED
  BY <1>2, <1>3, <1>4, <1>5, <1>6, <1>7, <1>8 DEF Ticks

\* Stalls and pings.
LEMMA OddClaims ==
    ASSUME HostInv, EpochInv, ClaimInv, HostInv', EpochInv', NEW u \in Users,
           OpenTimesOut(u) \/ HostDoubted(u) \/ Ping(u)
    PROVE  ClaimInv'
<1> DEFINE c == ses[u]
           back == [c EXCEPT !.task = "backoff"]
<1>1. /\ IsSession(c) /\ Tranquil(u, c) /\ Tranquil(u, [c EXCEPT !.phase = "left"])
      /\ Heard(down, Nobody) /\ First(down) /\ Heeds(down)
  BY Tranquils, NothingHeard DEF HostInv, Sessions, WellKept
<1>2. Tranquil(u, back) /\ Posts(ToHost(c.link, "ping", c.key))
  BY <1>1, ToHostPosts DEF Tranquil, IsSession, Fields
<1> HIDE DEF back
<1>3. UNCHANGED hellos
      /\ \/ Goes(u, back, down, None, Nobody)
         \/ Goes(u, [c EXCEPT !.phase = "left"], down, None, Nobody)
         \/ Goes(u, c, down, ToHost(c.link, "ping", c.key), Nobody)
  BY DEF OpenTimesOut, HostDoubted, Ping, back
<1> QED
  BY <1>1, <1>2, <1>3, TranquilClaims, PostsNone

\* A host with guests that leaves has put its room in handoff before it says so.
LEMMA LeaveClaims ==
    ASSUME HostInv, EpochInv, ClaimInv, HostInv', EpochInv', NEW u \in Users, Leave(u)
    PROVE  ClaimInv'
<1> DEFINE c == ses[u]
           gone == [c EXCEPT !.leaving = TRUE, !.phase = "left"]
           quiet == [gone EXCEPT !.task = "none"]
           handing == [gone EXCEPT !.task = "handing", !.closing = TRUE]
           alone == [gone EXCEPT !.closing = TRUE, !.greeting = {}, !.spoiled = {}]
<1>1. /\ IsSession(c) /\ WellKept(u, c) /\ Tranquil(u, c) /\ Orderly(c)
      /\ \A shut : Heard(down, shut)
      /\ First(down) /\ Heeds(down)
  BY Tranquils, NothingHeard DEF HostInv, Sessions, WellKept, ClaimInv
<1>2. Tranquil(u, gone) /\ Tranquil(u, quiet) /\ Tranquil(u, alone)
  BY <1>1 DEF Tranquil, IsSession, Fields
<1>3. /\ handing.dial = c.dial /\ handing.as = c.as /\ handing.link = c.link /\ handing.ready = c.ready
      /\ handing.task = "handing" /\ handing.roster = c.roster /\ handing.greeting = c.greeting
  BY <1>1 DEF IsSession, Fields
<1> HIDE DEF gone, quiet, alone
<1>4. UNCHANGED hellos
      /\ \/ Goes(u, quiet, down, None, c.link)
         \/ /\ c.as = "host" /\ c.link # Nobody
            /\ ses' = [ses EXCEPT ![u] = handing]
            /\ room' = IF room.host = c.link THEN [room EXCEPT !.handoff = "grace"] ELSE room
            /\ UNCHANGED <<alive, down>>
         \/ Goes(u, alone, down, None, c.link)
         \/ Goes(u, gone, down, None, Nobody)
  BY DEF Leave, gone, quiet, alone
<1>5. CASE /\ c.as = "host" /\ c.link # Nobody
           /\ ses' = [ses EXCEPT ![u] = handing]
           /\ room' = IF room.host = c.link THEN [room EXCEPT !.handoff = "grace"] ELSE room
           /\ UNCHANGED <<alive, down>>
  <2> HIDE DEF handing
  <2>1. ses'[u] = handing /\ \A o \in Users \ {u} : ses'[o] = ses[o]
    BY <1>5 DEF HostInv, Sessions
  <2>2. /\ room'.host = room.host /\ room'.peers = room.peers
        /\ room'.handoff = IF room.host = c.link THEN "grace" ELSE room.handoff
    BY <1>5 DEF HostInv, Network
  <2>3. Follows(u)
    BY <2>1, <2>2, <1>1, <1>3, <1>5 DEF Follows, Orderly, Settled
  <2>4. \A o \in Users : Follows(o)
    BY <2>1, <2>3 DEF Follows, ClaimInv
  <2>5. Shrinks
    BY <2>2 DEF Shrinks, Peers
  <2>6. Queues
    BY <1>5, <1>1 DEF Queues
  <2>7. \A o \in Users : ses[o].dial \in Nat /\ ses'[o].dial = ses[o].dial
    BY <2>1, <1>3 DEF HostInv, Sessions, WellKept
  <2>8. HelloOnce'
    BY <1>4 DEF ClaimInv, HelloOnce
  <2> QED
    BY <2>4, <2>5, <2>6, <2>7, <2>8, <1>4, <1>5, ClaimKept
<1> QED
  BY <1>1, <1>2, <1>4, <1>5, TranquilClaims, PostsNone

(***************************************************************************)
(* What the relay does by itself.                                          *)
(***************************************************************************)

\* The sessions are as they were, and what the relay writes fits.
LEMMA RelayClaims ==
    ASSUME HostInv, EpochInv, ClaimInv, HostInv', EpochInv', NEW letters, Posts(letters),
           down' = Written(down, alive, letters), UNCHANGED <<ses, alive, hellos>>, Shrinks
    PROVE  ClaimInv'
<1>1. \A o \in Users : Follows(o) /\ ses[o].dial \in Nat
  BY DEF Follows, ClaimInv, HostInv, Sessions, WellKept
<1>2. Mail(down) /\ First(down) /\ Kin(down)
  BY DEF HostInv, Network, ClaimInv, Kin
<1>3. /\ First(down') /\ Kin(down')
      /\ \A s \in Sockets : (Claimed(down[s]) => Claimed(down'[s])) /\ (Closed(down[s]) => Closed(down'[s]))
  BY <1>2, PostWrites
<1>4. Queues
  BY <1>3 DEF Queues, Kin
<1>5. HelloOnce'
  BY DEF ClaimInv, HelloOnce
<1> QED
  BY <1>1, <1>4, <1>5, ClaimKept

\* The end of a grace, and of a room in handoff: its peers are told.
LEMMA SweepClaims ==
    ASSUME HostInv, EpochInv, ClaimInv, HostInv', EpochInv', Overdue \/ Sweep
    PROVE  ClaimInv'
<1>1. CASE Overdue
  <2>1. \A o \in Users : Follows(o) /\ ses[o].dial \in Nat /\ ses'[o].dial = ses[o].dial
    BY <1>1 DEF Overdue, Follows, ClaimInv, HostInv, Sessions, WellKept
  <2>2. room'.host = room.host /\ room'.peers = room.peers /\ room'.handoff = "overdue"
    BY <1>1 DEF Overdue, HostInv, Network
  <2>3. Shrinks
    BY <2>2 DEF Shrinks, Peers
  <2>4. Queues
    BY <1>1 DEF Overdue, Queues, ClaimInv
  <2>5. HelloOnce' /\ alive' = alive /\ hellos' = hellos
    BY <1>1 DEF Overdue, ClaimInv, HelloOnce
  <2> QED
    BY <2>1, <2>3, <2>4, <2>5, ClaimKept
<1>2. CASE Sweep
  <2> DEFINE letters == [p \in Peers |-> <<Close>>]
  <2>1. Posts(letters) /\ Letters(letters)
    BY GoodbyesPosts DEF Posts
  <2>2. \A p \in Peers : p \in DOMAIN letters /\ Close \in ToSet(letters[p])
    BY OneFrame
  <2>3. down' = Written(down, alive, letters) /\ UNCHANGED <<ses, alive, hellos>> /\ room' = NoRoom
    BY <1>2 DEF Sweep
  <2> HIDE DEF letters
  <2>4. \A r \in Sockets : ToSet(down'[r]) = IF r \in alive /\ r \in DOMAIN letters
                              THEN ToSet(down[r]) \cup ToSet(letters[r]) ELSE ToSet(down[r])
    BY <2>1, <2>3, Writes DEF HostInv, Network
  <2>5. room'.host = Nobody /\ room'.peers = <<>>
    BY <2>3 DEF NoRoom
  <2>6. Peers' = {}
    BY <2>5, OneFrame DEF Peers
  <2>7. Shrinks
    BY <2>2, <2>3, <2>4, <2>5, <2>6 DEF Shrinks, Closed
  <2> QED
    BY <2>1, <2>3, <2>7, RelayClaims
<1> QED
  BY <1>1, <1>2

\* A socket that is lost: its client is told, and so is the host, or everybody.
LEMMA CutClaims ==
    ASSUME HostInv, EpochInv, ClaimInv, HostInv', EpochInv', NEW s \in alive, Cut(s)
    PROVE  ClaimInv'
<1> DEFINE letters == Both(To(s, Close), Told(s))
<1>1. Network /\ s \in Sockets /\ ToSet(<<Close>>) = {Close}
  BY OneFrame DEF HostInv, Network
<1>2. DOMAIN To(s, Close) = {s} /\ To(s, Close)[s] = <<Close>>
  BY Single
<1>3. /\ DOMAIN letters = {s} \cup DOMAIN Told(s) /\ letters[s] = <<Close>>
      /\ \A r \in DOMAIN Told(s) : r # s => letters[r] = Told(s)[r]
  BY <1>2 DEF Both
<1>4. s \in Peers \/ room.host = s
  BY DEF Cut
<1>5. Posts(To(s, Close)) /\ Posts(Told(s))
  <2>1. Fit(s, Close)
    BY <1>1, <1>4, Known, Mild
  <2> QED
    BY <2>1, PostsOne, ToldPosts
<1> HIDE DEF letters
<1>6. \A r \in DOMAIN letters : \/ r \in DOMAIN Told(s) /\ letters[r] = Told(s)[r]
                                \/ r \in DOMAIN To(s, Close) /\ letters[r] = To(s, Close)[r]
  BY <1>2, <1>3
<1>7. Posts(letters)
  BY <1>5, <1>6 DEF Posts, Letters
<1>8. down' = Written(down, alive, letters) /\ room' = Without(s) /\ UNCHANGED <<ses, alive, hellos>>
  BY DEF Cut, letters
<1>9. \A r \in Sockets : ToSet(down'[r]) = IF r \in alive /\ r \in DOMAIN letters
                            THEN ToSet(down[r]) \cup ToSet(letters[r]) ELSE ToSet(down[r])
  BY <1>1, <1>7, <1>8, Writes DEF Network, Posts
<1>10. Closed(down'[s])
  BY <1>1, <1>3, <1>9 DEF Closed
<1>11. \A p \in Sockets : (p \in DOMAIN Told(s) /\ p \in alive' /\ Told(s)[p] = <<Close>>) => Closed(down'[p])
  BY <1>1, <1>3, <1>8, <1>9 DEF Closed
<1>12. Shrinks
  BY <1>8, <1>10, <1>11, WithoutShrinks
<1> QED
  BY <1>7, <1>8, <1>12, RelayClaims

\* What the relay may say to a HELLO of s, and to whom.
Answer(s, letters) ==
    /\ Letters(letters)
    /\ \A r \in DOMAIN letters : r \in Sockets =>
          /\ r \in Peers \cup {room.host, s}
          /\ \A f \in ToSet(letters[r]) :
                /\ f.t \notin {"join", "transfer"} /\ (r # s => f.t # "ready")
                /\ f.t = "peer_up" => room'.host = r /\ f.from \in Peers \cup {s}
    /\ s \in DOMAIN letters => letters[s] # <<>> /\ ~Rings(Tail(letters[s]))

\* The answer to a HELLO: READY comes first, who claims the room is told of its peers and
\* they of the claim, and who hosts it is told of a new one.  Nobody knew the socket before.
LEMMA AnswerClaims ==
    ASSUME HostInv, EpochInv, ClaimInv, NEW s, NEW as, <<s, as>> \in hellos, hellos' = hellos \ {<<s, as>>},
           UNCHANGED <<ses, alive>>, NEW letters, Answer(s, letters), down' = Written(down, alive, letters),
           Peers' \subseteq Peers \cup {s},
           \/ room'.host = room.host /\ Peers \subseteq Peers' /\ room'.handoff = room.handoff
           \/ room'.host = s /\ \A p \in Peers : (p \in Sockets /\ p \in alive) => Claimed(down'[p])
    PROVE  ClaimInv'
<1> USE SocketsAre
<1>1. /\ s \in Sockets /\ Dialled(s) /\ ~Spent(s) /\ ~Touched(s) /\ Mail(down)
      /\ \A h \in hellos' : h[1] # s
  BY DEF HostInv, Network, Undialled, Spent, ClaimInv, Ordered, HelloOnce
<1>0. Letters(letters)
  BY DEF Answer
<1>2. /\ Mail(down')
      /\ \A r \in Sockets : ToSet(down'[r]) = IF r \in alive /\ r \in DOMAIN letters
                               THEN ToSet(down[r]) \cup ToSet(letters[r]) ELSE ToSet(down[r])
  BY <1>0, <1>1, Writes
<1>3. \A r \in Sockets : down'[r] = IF r \in alive /\ r \in DOMAIN letters THEN down[r] \o letters[r] ELSE down[r]
  BY <1>1 DEF Written, Mail
<1>4. /\ \A r : Dialled(r)' = Dialled(r) /\ HasLink(r)' = HasLink(r)
      /\ \A r : Spent(r) => Spent(r)'
      /\ Spent(s)'
      /\ \A r : Spoke(r)' = Spoke(r) /\ Fresh(r)' = Fresh(r) /\ Pending(r)' = Pending(r)
  BY <1>1 DEF Dialled, HasLink, Spent, Spoke, Fresh, Pending
<1>5. ASSUME NEW h \in Sockets, NEW p \in Sockets, Knows(h, p)'
      PROVE  Knows(h, p) \/ (room'.host = h /\ p \in Peers \cup {s})
  <2>1. CASE \E f \in ToSet(down'[h]) : f.t = "peer_up" /\ f.from = p
    BY <2>1, <1>2 DEF Knows, Answer
  <2>2. CASE HasLink(h)' /\ p \in ses'[Owner(h)].greeting \cup ToSet(ses'[Owner(h)].roster)
    BY <2>2, <1>4 DEF Knows
  <2> QED
    BY <1>5, <2>1, <2>2 DEF Knows
<1>6. Ordered'
  <2> SUFFICES ASSUME NEW r \in Sockets, Touched(r)', r # s PROVE Spent(r)
    BY <1>4 DEF Ordered
  <2>1. CASE down'[r] # <<>>
    <3>1. down[r] # <<>> \/ r \in Peers \/ room.host = r
      BY <2>1, <1>3 DEF Answer
    <3> QED
      BY <3>1 DEF ClaimInv, Ordered, Touched
  <2>2. CASE r \in Peers' \/ room'.host = r
    BY <2>2 DEF ClaimInv, Ordered, Touched
  <2>3. CASE HasLink(r)'
    BY <2>3, <1>4 DEF ClaimInv, Ordered, Touched
  <2>4. CASE \E h \in Sockets : Knows(h, r)'
    BY <2>4, <1>5 DEF ClaimInv, Ordered, Touched
  <2> QED
    BY <2>1, <2>2, <2>3, <2>4 DEF Touched
<1>7. First(down')
  <2> SUFFICES ASSUME NEW r \in Sockets, down'[r] # <<>>, r \in alive, r \in DOMAIN letters
               PROVE  ~Rings(Tail(down'[r]))
    BY <1>3 DEF First, ClaimInv
  <2>1. down'[r] = down[r] \o letters[r] /\ IsQueue(down[r]) /\ IsQueue(letters[r])
    BY <1>1, <1>0, <1>1, <1>3 DEF Mail, Letters
  <2>2. CASE r = s
    <3>1. down[r] = <<>> /\ letters[r] \in Seq(ToSet(letters[r]))
      BY <2>1, <2>2, <1>1 DEF Touched, IsQueue
    <3>2. down'[r] = letters[r]
      BY <3>1, <2>1
    <3> QED
      BY <3>2, <2>2 DEF Answer
  <2>3. CASE r # s
    <3>1. ~Rings(letters[r])
      BY <2>3 DEF Rings, Answer
    <3>2. down[r] # <<>> => ~Rings(Tail(down[r]))
      BY DEF ClaimInv, First
    <3> QED
      BY <2>1, <3>1, <3>2, TailJoined
  <2> QED
    BY <2>2, <2>3
<1>8. Spoken'
  <2>1. \A r \in Sockets : \A f \in ToSet(down'[r]) : f \in ToSet(down[r]) \/ f.t \notin {"join", "transfer"}
    BY <1>2 DEF Answer
  <2> QED
    BY <2>1, <1>4 DEF ClaimInv, Spoken, Transfers
<1>9. \A r \in Sockets : /\ Claimed(down[r]) => Claimed(down'[r])
                         /\ Closed(down[r]) => Closed(down'[r])
                         /\ (r # s /\ Rings(down'[r])) => Rings(down[r])
                         /\ Transfers(down'[r]) => Transfers(down[r])
  BY <1>2 DEF Claimed, Closed, Rings, Transfers, Answer
<1>10. HostKnows'
  <2> SUFFICES ASSUME NEW h \in Sockets, NEW p \in Sockets, Knows(h, p), p \in Peers', Untold(p)'
               PROVE  room'.host = h
    BY <1>5 DEF HostKnows
  <2>1. p # s
    BY <1>1 DEF Touched
  <2>2. p \in alive /\ p \in Peers /\ ~Claimed(down'[p])
    BY <2>1 DEF Untold
  <2>3. Untold(p)
    BY <2>1, <2>2, <1>4, <1>9 DEF Untold
  <2> QED
    BY <2>2, <2>3 DEF ClaimInv, HostKnows
<1>11. AskedHear'
  <2> SUFFICES ASSUME NEW r \in Sockets, Asked(r)', ~Claimed(down'[r]) PROVE Handed(r)'
    BY DEF AskedHear
  <2>1. Asked(r) /\ r \in alive
    BY <1>4, <1>9 DEF Asked
  <2>2. Handed(r)
    BY <2>1, <1>9 DEF ClaimInv, AskedHear
  <2> QED
    BY <2>1, <2>2 DEF Handed
<1>12. Handing'
  <2> SUFFICES ASSUME NEW v \in Users, ses[v].task = "handing", room'.host = ses[v].link PROVE room'.handoff # "no"
    BY DEF Handing
  <2>1. ses[v].link \in Sockets /\ Owner(ses[v].link) = v
    BY DEF EpochInv, Dated, Settled, HostInv, Sessions, WellKept, OwnLink
  <2>2. ses[v].link # s
    BY <2>1, <1>1 DEF Touched, HasLink
  <2> QED
    BY <2>2 DEF ClaimInv, Handing
<1> QED
  BY <1>6, <1>7, <1>8, <1>10, <1>11, <1>12 DEF ClaimInv, HelloOnce

\* What is left of a queue, its first frame apart.
LEMMA TailOf ==
    ASSUME NEW x, NEW q, IsQueue(q)
    PROVE  <<x>> \o q # <<>> /\ ToSet(Tail(<<x>> \o q)) = ToSet(q)
<1> DEFINE S == {x} \cup ToSet(q)
           r == <<x>> \o q
<1>1. q \in Seq(S) /\ <<x>> \in Seq(S) /\ Len(q) \in Nat /\ DOMAIN q = 1..Len(q)
  BY DEF IsQueue
<1>2. r \in Seq(S) /\ Len(r) = 1 + Len(q) /\ \A i \in 1..Len(q) : r[1 + i] = q[i]
  BY <1>1
<1> HIDE DEF r, S
<1>3. r # <<>> /\ DOMAIN Tail(r) = 1..Len(q) /\ \A i \in 1..Len(q) : Tail(r)[i] = r[i + 1]
  BY <1>1, <1>2
<1>4. \A i \in 1..Len(q) : Tail(r)[i] = q[i]
  BY <1>1, <1>2, <1>3
<1>5. ToSet(Tail(r)) = ToSet(q)
  BY <1>1, <1>3, <1>4 DEF ToSet
<1> QED
  BY <1>3, <1>5 DEF r

\* Each way a HELLO is answered.
LEMMA RelayHelloClaims ==
    ASSUME HostInv, EpochInv, ClaimInv, NEW s, NEW as, RelayHello(s, as)
    PROVE  ClaimInv'
<1> DEFINE ups == [i \in DOMAIN room.peers |-> Of("peer_up", room.peers[i])]
           claimed == <<Say("ready")>> \o ups
<1>1. /\ <<s, as>> \in hellos /\ hellos' = hellos \ {<<s, as>>} /\ UNCHANGED <<ses, alive>>
      /\ s \in Sockets /\ DOMAIN room = {"host", "peers", "handoff"} /\ IsQueue(room.peers) /\ Mail(down)
  BY DEF RelayHello, HostInv, Network
<1>2. /\ IsQueue(claimed) /\ claimed # <<>> /\ ~Rings(Tail(claimed))
      /\ \A f \in ToSet(claimed) : f = Say("ready") \/ (f.t = "peer_up" /\ f.from \in Peers)
  <2>1. room.peers \in Seq(ToSet(room.peers))
    BY <1>1 DEF IsQueue
  <2>2. ups \in Seq({ups[i] : i \in DOMAIN room.peers})
    BY <2>1
  <2>3. \A f \in ToSet(ups) : f.t = "peer_up" /\ f.from \in Peers
    <3>1. \A e : Of("peer_up", e).t = "peer_up" /\ Of("peer_up", e).from = e
      BY DEF Of, Frame
    <3>2. DOMAIN ups = DOMAIN room.peers /\ \A i \in DOMAIN room.peers : ups[i] = Of("peer_up", room.peers[i])
      OBVIOUS
    <3> HIDE DEF ups
    <3> QED
      BY <3>1, <3>2 DEF ToSet, Peers
  <2> HIDE DEF ups
  <2>4. IsQueue(ups) /\ IsQueue(<<Say("ready")>>) /\ ToSet(<<Say("ready")>>) = {Say("ready")}
    BY <2>2, Sequence, OneFrame
  <2>5. IsQueue(claimed) /\ ToSet(claimed) = {Say("ready")} \cup ToSet(ups)
    BY <2>4, Joined
  <2>6. claimed # <<>> /\ ToSet(Tail(claimed)) = ToSet(ups)
    BY <2>4, TailOf
  <2> HIDE DEF claimed
  <2> QED
    BY <2>3, <2>5, <2>6 DEF Rings
<1> HIDE DEF claimed
<1>3. ASSUME NEW f
      PROVE  /\ IsQueue(<<f>>) /\ ToSet(<<f>>) = {f} /\ <<f>> # <<>> /\ ~Rings(Tail(<<f>>))
             /\ DOMAIN To(s, f) = {s} /\ To(s, f)[s] = <<f>> /\ Letters(To(s, f))
  <2>1. Tail(<<f>>) = <<>>
    OBVIOUS
  <2> QED
    BY <2>1, OneFrame, Single DEF Rings
<1>4. /\ \A t : Say(t).t = t
      /\ \A t, r : Of(t, r).t = t /\ Of(t, r).from = r
  BY DEF Say, Of, Frame
<1>9. ASSUME NEW t, t \notin {"peer_up", "join", "transfer"} PROVE Answer(s, To(s, Say(t)))
  <2> DEFINE l == To(s, Say(t))
             f == Say(t)
  <2>1. DOMAIN l = {s} /\ l[s] = <<f>> /\ Letters(l) /\ f.t = t
    BY <1>3, <1>4
  <2>2. ToSet(<<f>>) = {f} /\ <<f>> # <<>> /\ ~Rings(Tail(<<f>>))
    BY <1>3
  <2> HIDE DEF l, f
  <2>3. Answer(s, l)
    BY <2>1, <2>2, <1>9 DEF Answer
  <2> QED
    BY <2>3 DEF l
\* The host of a room in handoff is another one now.
<1>5. CASE /\ as = "host" /\ Claimable
           /\ room' = [room EXCEPT !.host = s, !.handoff = "no"]
           /\ down' = Written(down, alive,
                         [p \in Peers \cup {s} |-> IF p = s THEN claimed ELSE <<Say("host_claimed")>>])
  <2> DEFINE letters == [p \in Peers \cup {s} |-> IF p = s THEN claimed ELSE <<Say("host_claimed")>>]
  <2>1. /\ DOMAIN letters = Peers \cup {s} /\ letters[s] = claimed
        /\ \A p \in Peers : p # s => letters[p] = <<Say("host_claimed")>>
    OBVIOUS
  <2>2. down' = Written(down, alive, letters)
    BY <1>5
  <2> HIDE DEF letters
  <2>3. room'.host = s /\ room'.peers = room.peers
    BY <1>1, <1>5
  <2>4. Letters(letters)
    BY <2>1, <1>2, <1>3 DEF Letters
  <2>5. Answer(s, letters)
    <3> DEFINE f == Say("host_claimed")
               g == Say("ready")
    <3>1. ToSet(<<f>>) = {f} /\ f.t = "host_claimed" /\ g.t = "ready"
      BY <1>3, <1>4
    <3>2. \A p \in Peers : p # s => letters[p] = <<f>>
      BY <2>1
    <3>3. \A e \in ToSet(claimed) : e = g \/ (e.t = "peer_up" /\ e.from \in Peers)
      BY <1>2
    <3> HIDE DEF f, g
    <3> QED
      BY <3>1, <3>2, <3>3, <2>1, <2>3, <2>4, <1>2 DEF Answer
  <2>6. \A r \in Sockets : ToSet(down'[r]) = IF r \in alive /\ r \in DOMAIN letters
                              THEN ToSet(down[r]) \cup ToSet(letters[r]) ELSE ToSet(down[r])
    BY <2>2, <2>4, <1>1, Writes
  <2>7. s \notin Peers
    BY <1>1, Known DEF Spent
  <2>8. \A p \in Peers : (p \in Sockets /\ p \in alive) => Claimed(down'[p])
    BY <2>1, <2>6, <2>7, <1>3, <1>4 DEF Claimed
  <2>9. Peers' = Peers
    BY <2>3 DEF Peers
  <2> QED
    BY <2>2, <2>3, <2>5, <2>8, <2>9, <1>1, AnswerClaims
\* There was no room: there is one now, of nobody else.
<1>6. CASE /\ room = NoRoom /\ room' = [NoRoom EXCEPT !.host = s]
           /\ down' = Written(down, alive, To(s, Say("ready")))
  <2>1. Answer(s, To(s, Say("ready")))
    BY <1>9
  <2>2. room'.host = s /\ room'.peers = <<>> /\ room.peers = <<>>
    BY <1>6 DEF NoRoom
  <2>3. Peers = {} /\ Peers' = {}
    BY <2>2, OneFrame DEF Peers
  <2> QED
    BY <2>1, <2>2, <2>3, <1>1, <1>6, AnswerClaims
\* A refusal.
<1>7. ASSUME NEW t \in {"room_exists", "no_such_room"}, down' = Written(down, alive, To(s, Say(t))), UNCHANGED room
      PROVE  ClaimInv'
  <2>1. Answer(s, To(s, Say(t)))
    BY <1>7, <1>9
  <2>2. Peers' = Peers
    BY <1>7 DEF Peers
  <2> QED
    BY <2>1, <2>2, <1>1, <1>7, AnswerClaims
\* A peer: the host is told of it.
<1>8. CASE /\ room' = [room EXCEPT !.peers = Append(@, s)]
           /\ down' = Written(down, alive, Both(To(s, Say("ready")), To(room.host, Of("peer_up", s))))
  <2> DEFINE letters == Both(To(s, Say("ready")), To(room.host, Of("peer_up", s)))
  <2>1. /\ DOMAIN To(room.host, Of("peer_up", s)) = {room.host}
        /\ To(room.host, Of("peer_up", s))[room.host] = <<Of("peer_up", s)>>
    BY Single
  <2>2. /\ DOMAIN letters = {s, room.host} /\ letters[s] = <<Say("ready")>>
        /\ (room.host # s => letters[room.host] = <<Of("peer_up", s)>>)
    BY <2>1, <1>3 DEF Both
  <2>3. down' = Written(down, alive, letters)
    BY <1>8
  <2> HIDE DEF letters
  <2>4. room'.host = room.host /\ room'.handoff = room.handoff /\ room'.peers = Append(room.peers, s)
    BY <1>1, <1>8
  <2>5. Letters(letters)
    BY <2>2, <1>3 DEF Letters
  <2>6. Answer(s, letters)
    <3> DEFINE f == Of("peer_up", s)
               g == Say("ready")
    <3>1. /\ ToSet(<<f>>) = {f} /\ f.t = "peer_up" /\ f.from = s
          /\ ToSet(<<g>>) = {g} /\ g.t = "ready" /\ <<g>> # <<>> /\ ~Rings(Tail(<<g>>))
      BY <1>3, <1>4
    <3>2. /\ DOMAIN letters = {s, room.host} /\ letters[s] = <<g>>
          /\ (room.host # s => letters[room.host] = <<f>>)
      BY <2>2
    <3> HIDE DEF f, g
    <3> QED
      BY <3>1, <3>2, <2>4, <2>5 DEF Answer
  <2>7. Peers' = Peers \cup {s}
    BY <2>4, <1>1, AppendsOne DEF Peers
  <2> QED
    BY <2>3, <2>4, <2>6, <2>7, <1>1, AnswerClaims
<1> QED
  BY <1>5, <1>6, <1>7, <1>8 DEF RelayHello, claimed, ups

(***************************************************************************)
(* The theorem.                                                            *)
(***************************************************************************)

\* At first everybody listens on its only socket, and only the host knows the others.
LEMMA ClaimInit == SessionInit => ClaimInv
<1> USE SocketsAre
<1> SUFFICES ASSUME SessionInit PROVE ClaimInv
  OBVIOUS
<1>1. PICK cast \in Starts :
        LET there == ToSet(cast.inside)
            first == IF there = {} THEN Nobody ELSE <<cast.inside[1], 1>>
            guests == [i \in 1..Len(cast.inside) - 1 |-> <<cast.inside[i + 1], 1>>]
        IN
        /\ ses = [u \in Users |->
                    IF <<u, 1>> = first
                    THEN [Idle EXCEPT !.phase = "hosting", !.as = "host", !.tries = 2, !.dial = 1,
                                      !.link = first, !.roster = guests,
                                      !.epoch = cast.epoch, !.minEpoch = cast.epoch]
                    ELSE IF u \in there
                    THEN [Idle EXCEPT !.phase = "in-room", !.tries = 1, !.dial = 1,
                                      !.link = <<u, 1>>, !.key = first,
                                      !.epoch = cast.epoch, !.minEpoch = cast.epoch]
                    ELSE IF u \in cast.late
                    THEN [Idle EXCEPT !.phase = "connecting", !.task = "open", !.as = "host",
                                      !.tries = 2, !.dial = 1]
                    ELSE IF u \in cast.outside THEN Idle
                    ELSE [Idle EXCEPT !.phase = "left", !.leaving = TRUE]]
        /\ room = [NoRoom EXCEPT !.host = first, !.peers = guests]
        /\ hellos = {<<<<u, 1>>, "host">> : u \in cast.late}
        /\ down = [s \in Sockets |-> <<>>]
  BY DEF SessionInit
<1> DEFINE there == ToSet(cast.inside)
           first == IF there = {} THEN Nobody ELSE <<cast.inside[1], 1>>
           guests == [i \in 1..Len(cast.inside) - 1 |-> <<cast.inside[i + 1], 1>>]
<1>2. /\ cast.inside \in Seq(Users) /\ there \subseteq Users /\ 1 \in 1..MaxDials
      /\ there \cap cast.late = {}
  BY SessionAssumption DEF SessionAssumption, ToSet
<1>3. \A s \in ToSet(guests) : \E v \in there : s = <<v, 1>>
  <2> SUFFICES ASSUME NEW i \in DOMAIN guests PROVE \E v \in there : guests[i] = <<v, 1>>
    BY DEF ToSet
  <2>1. Len(cast.inside) \in Nat /\ DOMAIN cast.inside = 1..Len(cast.inside) /\ i \in 1..(Len(cast.inside) - 1)
    BY <1>2
  <2>2. i + 1 \in DOMAIN cast.inside /\ guests[i] = <<cast.inside[i + 1], 1>>
    BY <2>1
  <2> QED
    BY <2>2 DEF ToSet
<1>4. first = Nobody \/ \E v \in there : first = <<v, 1>>
  <2>1. CASE there # {}
    <3>1. PICK i \in DOMAIN cast.inside : TRUE
      BY <2>1 DEF ToSet
    <3>2. Len(cast.inside) \in Nat /\ DOMAIN cast.inside = 1..Len(cast.inside)
      BY <1>2
    <3>3. 1 \in DOMAIN cast.inside
      BY <3>1, <3>2
    <3> QED
      BY <3>3, <2>1 DEF ToSet
  <2> QED
    BY <2>1
<1>5. room.host = first /\ room.peers = guests /\ room.handoff = "no" /\ IsQueue(guests)
  <2>1. room.host = first /\ room.peers = guests /\ room.handoff = "no"
    BY <1>1 DEF NoRoom
  <2> HIDE DEF guests, first
  <2> QED
    BY <2>1, HostInit DEF HostInv, Network
<1> HIDE DEF there, first, guests
<1> DEFINE host == [Idle EXCEPT !.phase = "hosting", !.as = "host", !.tries = 2, !.dial = 1,
                                !.link = first, !.roster = guests,
                                !.epoch = cast.epoch, !.minEpoch = cast.epoch]
           guest(u) == [Idle EXCEPT !.phase = "in-room", !.tries = 1, !.dial = 1,
                                    !.link = <<u, 1>>, !.key = first,
                                    !.epoch = cast.epoch, !.minEpoch = cast.epoch]
           late == [Idle EXCEPT !.phase = "connecting", !.task = "open", !.as = "host",
                                !.tries = 2, !.dial = 1]
           gone == [Idle EXCEPT !.phase = "left", !.leaving = TRUE]
<1>6. ASSUME NEW u \in Users
      PROVE  ses[u] = IF <<u, 1>> = first THEN host
                      ELSE IF u \in there THEN guest(u)
                      ELSE IF u \in cast.late THEN late
                      ELSE IF u \in cast.outside THEN Idle ELSE gone
  BY <1>1 DEF first, guests, there
<1>7. /\ host.task = "none" /\ host.as = "host" /\ host.link = first /\ host.dial = 1
      /\ host.greeting = {} /\ host.roster = guests
  BY DEF Idle
<1>8. ASSUME NEW u
      PROVE  /\ guest(u).task = "none" /\ guest(u).link = <<u, 1>> /\ guest(u).dial = 1
             /\ guest(u).greeting = {} /\ guest(u).roster = <<>>
  BY DEF Idle
<1>9. ASSUME NEW c \in {late, Idle, gone}
      PROVE  c.task \in {"none", "open"} /\ c.link = Nobody /\ c.greeting = {} /\ c.roster = <<>>
  <2>1. CASE c = late
    BY <2>1 DEF Idle
  <2>2. CASE c = Idle
    BY <2>2 DEF Idle
  <2>3. CASE c = gone
    BY <2>3 DEF Idle
  <2> QED
    BY <1>9, <2>1, <2>2, <2>3
<1> HIDE DEF host, guest, late, gone
<1>10. IsQueue(<<>>) /\ ToSet(<<>>) = {}
  BY OneFrame
\* Each session: it is at its only socket, or at none; who has a roster is the host.
<1>11. ASSUME NEW u \in Users
       PROVE  /\ ses[u].task \in {"none", "open"} /\ ses[u].greeting = {} /\ IsQueue(ses[u].roster)
              /\ ses[u].link = Nobody \/ (ses[u].link = <<u, 1>> /\ u \in there)
              /\ u \in there => ses[u].link = <<u, 1>> /\ ses[u].dial = 1
              /\ ToSet(ses[u].roster) # {} => /\ ses[u].as = "host" /\ ses[u].link = first /\ first # Nobody
                                              /\ ses[u].roster = guests
  <2>1. CASE <<u, 1>> = first
    <3>1. ses[u] = host
      BY <2>1, <1>6
    <3>2. first # Nobody
      BY <2>1 DEF Nobody
    <3>3. u \in there
      <4>1. PICK v \in there : first = <<v, 1>>
        BY <3>2, <1>4
      <4> QED
        BY <4>1, <2>1
    <3> QED
      BY <3>1, <3>2, <3>3, <2>1, <1>5, <1>7
  <2>2. CASE <<u, 1>> # first /\ u \in there
    <3>1. ses[u] = guest(u)
      BY <2>2, <1>6
    <3> QED
      BY <3>1, <2>2, <1>8, <1>10
  <2>3. CASE <<u, 1>> # first /\ u \notin there
    <3>1. ses[u] \in {late, Idle, gone}
      BY <2>3, <1>6
    <3> QED
      BY <3>1, <2>3, <1>9, <1>10
  <2> QED
    BY <2>1, <2>2, <2>3
<1>12. \A u \in Users : Orderly(ses[u])
  BY <1>11 DEF Orderly, Settled
<1>13. \A s \in Sockets : down[s] = <<>> /\ ToSet(down[s]) = {}
  BY <1>1, <1>10
<1>14. \A v \in there : v \in Users /\ <<v, 1>> \in Sockets /\ Owner(<<v, 1>>) = v
  BY <1>2 DEF Owner, Sockets
<1>15. \A h \in hellos : \E w \in cast.late : h = <<<<w, 1>>, "host">>
  <2>1. hellos = {<<<<w, 1>>, "host">> : w \in cast.late}
    BY <1>1
  <2> QED
    BY <2>1
<1>16. /\ \A h \in hellos : h[1] \in {<<w, 1>> : w \in cast.late}
       /\ \A h, k \in hellos : h[1] = k[1] => h = k
  BY <1>15
<1>17. ASSUME NEW v \in there PROVE Spent(<<v, 1>>) /\ Spoke(<<v, 1>>)
  <2>1. Dialled(<<v, 1>>) /\ HasLink(<<v, 1>>)
    BY <1>11, <1>14 DEF Dialled, HasLink
  <2>2. \A h \in hellos : h[1] # <<v, 1>>
    BY <1>2, <1>16
  <2> QED
    BY <2>1, <2>2 DEF Spent, Spoke
<1>18. ASSUME NEW h \in Sockets, NEW p \in Sockets, Knows(h, p) PROVE h = first /\ p \in ToSet(guests)
  <2>1. HasLink(h) /\ p \in ToSet(ses[Owner(h)].roster)
    BY <1>11, <1>13, <1>18 DEF Knows
  <2> QED
    BY <2>1, <1>11 DEF HasLink
<1>19. Ordered
  <2> SUFFICES ASSUME NEW s \in Sockets, Touched(s) PROVE \E v \in there : s = <<v, 1>>
    BY <1>17 DEF Ordered
  <2>1. CASE s \in Peers \/ room.host = s
    BY <2>1, <1>3, <1>4, <1>5 DEF Peers
  <2>2. CASE HasLink(s)
    BY <2>2, <1>11 DEF HasLink
  <2>3. CASE \E h \in Sockets : Knows(h, s)
    BY <2>3, <1>3, <1>18
  <2> QED
    BY <2>1, <2>2, <2>3, <1>13 DEF Touched
<1>20. Spoken
  <2>1. ASSUME NEW u \in Users, NEW p \in ToSet(ses[u].roster) PROVE Spoke(p)
    BY <2>1, <1>3, <1>11, <1>17
  <2> QED
    BY <2>1, <1>13 DEF Spoken, Transfers
<1>21. HostKnows
  BY <1>5, <1>18 DEF HostKnows
<1>22. AskedHear /\ Handing /\ First(down) /\ HelloOnce
  <2>1. \A s \in Sockets : ~Transfers(down[s]) /\ ~Pending(s)
    BY <1>11, <1>13 DEF Transfers, Pending
  <2>2. AskedHear
    BY <2>1 DEF AskedHear, Asked
  <2>3. Handing
    BY <1>11 DEF Handing
  <2>4. First(down) /\ HelloOnce
    BY <1>13, <1>16 DEF First, HelloOnce
  <2> QED
    BY <2>2, <2>3, <2>4
<1> QED
  BY <1>12, <1>19, <1>20, <1>21, <1>22 DEF ClaimInv

\* Every step keeps it.
LEMMA ClaimStep == HostInv /\ EpochInv /\ ClaimInv /\ [SessionNext]_sessionVars => ClaimInv'
<1> SUFFICES ASSUME HostInv, EpochInv, ClaimInv, [SessionNext]_sessionVars PROVE ClaimInv'
  OBVIOUS
<1>1. HostInv' /\ EpochInv'
  BY HostStep, EpochStep DEF Forward
<1>2. CASE UNCHANGED sessionVars
  <2>1. \A o \in Users : Follows(o) /\ ses[o].dial \in Nat /\ ses'[o].dial = ses[o].dial
    BY <1>2 DEF sessionVars, Follows, ClaimInv, HostInv, Sessions, WellKept
  <2>2. Shrinks /\ Queues /\ HelloOnce'
    BY <1>2 DEF sessionVars, Shrinks, Peers, Queues, ClaimInv, HelloOnce
  <2>3. alive' = alive /\ hellos' = hellos
    BY <1>2 DEF sessionVars
  <2> QED
    BY <2>1, <2>2, <2>3, <1>1, ClaimKept
<1>3. CASE Progress
  BY <1>1, <1>3, HearClaims, TicksClaims, RelayHelloClaims, SweepClaims DEF Progress
<1>4. CASE \E u \in Users : Enter(u) \/ OpenTimesOut(u) \/ HostDoubted(u) \/ Ping(u) \/ Leave(u)
  BY <1>1, <1>4, EnterClaims, OddClaims, LeaveClaims
<1>5. CASE \E s \in alive : Cut(s)
  BY <1>1, <1>5, CutClaims
<1> QED
  BY <1>2, <1>3, <1>4, <1>5 DEF SessionNext

\* A survivor that waits for the claim of its room is in a room that is still handed over, or
\* has the news ahead of it: the relay tells of a claim whoever is a peer then, and nobody
\* but the host it joined, of a room that it put in handoff first, tells it to wait.
THEOREM NobodyWaitsInVain == SessionSpec => []ClaimsAreHeard
<1>1. HostInv /\ EpochInv /\ ClaimInv => ClaimsAreHeard
  <2> SUFFICES ASSUME HostInv, EpochInv, ClaimInv, NEW u \in Users,
                      ses[u].task = "claim", ses[u].ready = "asked", ses[u].link \in alive,
                      down[ses[u].link] = <<>>
               PROVE  room.handoff # "no" /\ ses[u].link \in Peers
    BY DEF ClaimsAreHeard
  <2> DEFINE s == ses[u].link
  <2>1. s \in Sockets /\ Owner(s) = u
    BY SocketsAre DEF HostInv, Sessions, WellKept, OwnLink, Network
  <2>2. Pending(s)
    BY <2>1 DEF Pending, HasLink
  <2>3. ~Closed(down[s]) /\ ~Claimed(down[s])
    BY OneFrame DEF Closed, Claimed
  <2>4. Asked(s)
    BY <2>2, <2>3 DEF Asked
  <2>5. Handed(s)
    BY <2>1, <2>3, <2>4 DEF ClaimInv, AskedHear
  <2> QED
    BY <2>5 DEF Handed
<1>2. HostInv /\ EpochInv /\ [SessionNext]_sessionVars => EpochInv'
  BY EpochStep DEF Forward
<1> QED
  BY <1>1, <1>2, HostInit, HostStep, EpochInit, ClaimInit, ClaimStep, PTL DEF SessionSpec
=============================================================================
