---------------------------- MODULE RelayProofs ----------------------------
(***************************************************************************)
(* Proofs about Relay: its invariants hold for every set of sockets and    *)
(* rooms, every limit and every grace period.                              *)
(***************************************************************************)
EXTENDS Relay, FiniteSetTheorems, TLAPS

(***************************************************************************)
(* The shape of the two actions that every other one is built from.        *)
(***************************************************************************)

\* Rejecting a HELLO keeps every variable within its type.
LEMMA RejectTyped ==
    ASSUME TypeOK, NEW s \in Sockets, Reject(s)
    PROVE  TypeOK'
  BY DEF TypeOK, Reject, roomVars, NoFrame

\* Tearing rooms down keeps the rooms and the sockets within their types.
LEMMA TeardownTyped ==
    ASSUME TypeOK, NEW R \in SUBSET RoomIds, NEW gone, Teardown(R, gone)
    PROVE  /\ life' \in [Sockets -> {"new", "open", "closing", "closed"}]
           /\ host' \in [RoomIds -> Sockets \cup {NoSocket}]
           /\ peers' \in [RoomIds -> [ConnIds -> Sockets \cup {NoSocket}]]
           /\ nextConnId' \in [RoomIds -> 1..(MaxConnId + 1)]
           /\ handoffDeadline' \in [RoomIds -> Nat \cup {NoDeadline}]
           /\ incarnation' \in [RoomIds -> Nat]
  BY RelayAssumption DEF TypeOK, Teardown, NoPeers, NoDeadline, ConnIds

\* Every variable keeps its type: in particular no connection id, deadline or
\* announcement ever leaves its range.
LEMMA InitTyped == Init => TypeOK
  BY RelayAssumption DEF Init, TypeOK, Detached, NoPeers, NoDeadline, NoFrame, ConnIds

LEMMA NextTyped ==
    ASSUME TypeOK, [Next]_vars
    PROVE  TypeOK'
<1> USE RelayAssumption
<1>1. ASSUME NEW s \in Sockets, ProtoMismatch(s) PROVE TypeOK'
  BY <1>1, RejectTyped DEF ProtoMismatch
<1>2. ASSUME NEW s \in Sockets, NEW r \in RoomIds, NEW allowed \in BOOLEAN,
             NEW ws \in {"open", "closing"}, HostHello(s, r, allowed, ws)
      PROVE  TypeOK'
  <2>1. CASE ClaimHandoff(s, r, ws)
    BY <2>1 DEF TypeOK, ClaimHandoff, AsHost, NoDeadline, NoFrame, Slots
  <2>2. CASE CreateRoom(s, r, ws)
    BY <2>2 DEF TypeOK, CreateRoom, AsHost, NoDeadline, NoFrame, NoPeers, ConnIds
  <2>3. CASE Reject(s)
    BY <2>3, RejectTyped
  <2>4. QED BY <1>2, <2>1, <2>2, <2>3 DEF HostHello
<1>3. ASSUME NEW s \in Sockets, NEW r \in RoomIds, NEW allowed \in BOOLEAN,
             NEW ws \in {"open", "closing"}, PeerHello(s, r, allowed, ws)
      PROVE  TypeOK'
  <2>1. CASE Admit(s, r, ws) /\ Exists(r)
    <3>1. nextConnId[r] \in ConnIds
      BY <2>1 DEF Admit
    <3>2. host[r] \in Sockets
      BY <2>1 DEF TypeOK, Exists
    <3>3. announced' \in [Sockets -> SUBSET (ConnIds \X Sockets)]
      <4>1. announced[host[r]] \cup {<<nextConnId[r], s>>} \in SUBSET (ConnIds \X Sockets)
        BY <3>1, <3>2 DEF TypeOK
      <4>2. QED BY <2>1, <3>2, <4>1 DEF TypeOK, Admit, AnnounceUp
    <3>4. nextConnId' \in [RoomIds -> 1..(MaxConnId + 1)]
      BY <2>1, <3>1 DEF TypeOK, Admit, ConnIds
    <3>5. AsPeer(r, nextConnId[r]) \in [role : {"peer"}, roomId : RoomIds, connId : ConnIds]
      BY <3>1 DEF AsPeer
    <3>6. QED
      BY <2>1, <3>1, <3>3, <3>4, <3>5 DEF TypeOK, Admit, NoFrame
  <2>2. CASE Reject(s)
    BY <2>2, RejectTyped
  <2>3. QED BY <1>3, <2>1, <2>2 DEF PeerHello
<1>4. ASSUME NEW s \in Sockets, NEW r \in RoomIds, Handoff(s, r) PROVE TypeOK'
  BY <1>4 DEF TypeOK, Handoff, NoDeadline, NoFrame
<1>5. ASSUME NEW s \in Sockets, NEW r \in RoomIds, NEW c \in ConnIds, Kick(s, r, c)
      PROVE  TypeOK'
  BY <1>5 DEF TypeOK, Kick, NoFrame
<1>6. ASSUME NEW s \in Sockets, NEW r \in RoomIds, NEW c \in ConnIds, DataFromHost(s, r, c)
      PROVE  TypeOK'
  BY <1>6 DEF TypeOK, DataFromHost, roomVars, NoFrame, ToPeer, Slots
<1>7. ASSUME NEW s \in Sockets, NEW r \in RoomIds, NEW c \in ConnIds, DataFromPeer(s, r, c)
      PROVE  TypeOK'
  BY <1>7 DEF TypeOK, DataFromPeer, roomVars, NoFrame, ToHost, Exists
<1>8. ASSUME NEW s \in Sockets, NonBinary(s) PROVE TypeOK'
  BY <1>8 DEF TypeOK, NonBinary, roomVars, NoFrame
<1>9. ASSUME NEW s \in Sockets, Close(s) PROVE TypeOK'
  <2>1. attached' \in [Sockets -> [role : {"none"}]
                                    \cup [role : {"host"}, roomId : RoomIds]
                                    \cup [role : {"peer"}, roomId : RoomIds, connId : ConnIds]]
        /\ frame' = NoFrame /\ now' = now
    BY <1>9 DEF TypeOK, Close, Detached
  <2>2. CASE \E r \in RoomIds : CloseHost(s, r)
    <3>1. PICK r \in RoomIds : CloseHost(s, r) BY <2>2
    <3>2. Teardown({r}, {s}) BY <3>1 DEF CloseHost
    <3>3. announced' \in [Sockets -> SUBSET (ConnIds \X Sockets)]
      BY <3>1 DEF TypeOK, CloseHost
    <3>4. QED BY <2>1, <3>2, <3>3, TeardownTyped DEF TypeOK, NoFrame
  <2>3. CASE \E r \in RoomIds, c \in ConnIds : ClosePeer(s, r, c)
    <3>1. PICK r \in RoomIds, c \in ConnIds : ClosePeer(s, r, c) BY <2>3
    <3>2. announced' \in [Sockets -> SUBSET (ConnIds \X Sockets)]
      BY <3>1 DEF TypeOK, ClosePeer, AnnounceDown, Exists
    <3>3. QED BY <2>1, <3>1, <3>2 DEF TypeOK, ClosePeer, NoFrame
  <2>4. CASE CloseQuietly(s)
    BY <2>1, <2>4 DEF TypeOK, CloseQuietly, roomVars, NoFrame
  <2>5. QED BY <1>9, <2>2, <2>3, <2>4 DEF Close
<1>10. ASSUME Sweep PROVE TypeOK'
  <2>1. Teardown(Expired, {}) /\ Expired \in SUBSET RoomIds
    BY <1>10 DEF Sweep, Expired
  <2>2. QED BY <1>10, <2>1, TeardownTyped DEF TypeOK, Sweep, NoFrame
<1>11. ASSUME Tick PROVE TypeOK'
  BY <1>11 DEF TypeOK, Tick, roomVars, NoFrame
<1>12. ASSUME UNCHANGED vars PROVE TypeOK'
  BY <1>12 DEF TypeOK, vars, roomVars
<1>13. QED
  BY <1>1, <1>2, <1>3, <1>4, <1>5, <1>6, <1>7, <1>8, <1>9, <1>10, <1>11, <1>12
     DEF Next, Hello, Message

THEOREM TypeCorrect == Spec => []TypeOK
<1>1. QED BY InitTyped, NextTyped, PTL DEF Spec
-----------------------------------------------------------------------------
(* The inductive invariant.                                                *)

\* What a socket is attached as determines its role, its room and its id.
LEMMA Attachments ==
    /\ \A r \in RoomIds : AsHost(r) # Detached
    /\ \A r \in RoomIds, c \in ConnIds : AsPeer(r, c) # Detached
    /\ \A r, q \in RoomIds, c \in ConnIds : AsHost(r) # AsPeer(q, c)
    /\ \A r, q \in RoomIds : AsHost(r) = AsHost(q) => r = q
    /\ \A r, q \in RoomIds, c, d \in ConnIds : AsPeer(r, c) = AsPeer(q, d) => r = q /\ c = d
<1>1. \A r \in RoomIds : AsHost(r).role = "host"
  BY DEF AsHost
<1>2. \A r \in RoomIds, c \in ConnIds : AsPeer(r, c).role = "peer"
  BY DEF AsPeer
<1>3. Detached.role = "none"
  BY DEF Detached
<1>4. \A r, q \in RoomIds : AsHost(r) = AsHost(q) => r = q
  BY DEF AsHost
<1>5. \A r, q \in RoomIds, c, d \in ConnIds : AsPeer(r, c) = AsPeer(q, d) => r = q /\ c = d
  BY DEF AsPeer
<1>6. QED BY <1>1, <1>2, <1>3, <1>4, <1>5

\* No room, no attachment, no announcement: the initial state is consistent.
LEMMA InitConsistent == Init => RelayInv
  BY InitTyped, Attachments, RelayAssumption
     DEF Init, RelayInv, AttachedReadable, HostsAttached, SlotsAttached, HostViewAgrees,
         IdsIssuedOnce, OpenPeersKeepSlots, KeepsSlot, Slots, Exists, Pending, NoPeers

\* A step that leaves sockets, rooms and announcements alone changes nothing.
LEMMA QuietStep ==
    ASSUME RelayInv, TypeOK', UNCHANGED <<life, attached, roomVars, announced>>
    PROVE  RelayInv'
  BY DEF roomVars, RelayInv, AttachedReadable, HostsAttached, SlotsAttached, HostViewAgrees,
         IdsIssuedOnce, OpenPeersKeepSlots, KeepsSlot, Slots, Exists, Pending, Readable

\* A rejected socket was never attached to anything.
LEMMA RejectStep ==
    ASSUME RelayInv, TypeOK', NEW s \in Sockets, life[s] = "new", Reject(s)
    PROVE  RelayInv'
<1> USE DEF Reject, roomVars, RelayInv, TypeOK
<1>1. AttachedReadable' BY DEF AttachedReadable, Readable
<1>2. HostsAttached' BY RelayAssumption DEF HostsAttached, Exists, Pending
<1>3. SlotsAttached' BY RelayAssumption DEF SlotsAttached, Slots, Exists, Readable
<1>4. HostViewAgrees' BY RelayAssumption DEF HostViewAgrees, HostsAttached, Slots, Exists
<1>5. IdsIssuedOnce' BY DEF IdsIssuedOnce, Exists
<1>6. OpenPeersKeepSlots' BY DEF OpenPeersKeepSlots, KeepsSlot
<1>7. QED BY <1>1, <1>2, <1>3, <1>4, <1>5, <1>6

\* The successor's view of the room is exactly its slots.
LEMMA ClaimStep ==
    ASSUME RelayInv, TypeOK', NEW s \in Sockets, NEW r \in RoomIds, NEW ws \in {"open", "closing"},
           life[s] = "new", Claimable(r), ClaimHandoff(s, r, ws)
    PROVE  RelayInv'
<1> USE RelayAssumption, Attachments DEF ClaimHandoff, RelayInv, TypeOK, Claimable
<1>0. Exists(r) /\ attached[s] = Detached
  BY DEF HostsAttached, AttachedReadable, Readable
<1>1. AttachedReadable' BY DEF AttachedReadable, Readable
<1>2. HostsAttached' BY <1>0 DEF HostsAttached, Exists, Pending
<1>3. SlotsAttached' BY <1>0 DEF SlotsAttached, Slots, Exists, Readable
<1>4. HostViewAgrees' BY <1>0 DEF HostViewAgrees, HostsAttached, SlotsAttached, Slots, Exists
<1>5. IdsIssuedOnce' BY <1>0 DEF IdsIssuedOnce, Exists
<1>6. OpenPeersKeepSlots' BY <1>0 DEF OpenPeersKeepSlots, KeepsSlot
<1>7. QED BY <1>1, <1>2, <1>3, <1>4, <1>5, <1>6

LEMMA CreateStep ==
    ASSUME RelayInv, TypeOK', NEW s \in Sockets, NEW r \in RoomIds, NEW ws \in {"open", "closing"},
           life[s] = "new", ~Exists(r), CreateRoom(s, r, ws)
    PROVE  RelayInv'
<1> USE RelayAssumption, Attachments DEF CreateRoom, RelayInv, TypeOK
<1>0. attached[s] = Detached /\ announced[s] = {}
  BY DEF AttachedReadable, Readable
<1>1. AttachedReadable' BY DEF AttachedReadable, Readable
<1>2. HostsAttached' BY <1>0 DEF HostsAttached, Exists, Pending
<1>3. SlotsAttached' BY <1>0 DEF SlotsAttached, Slots, Exists, Readable, NoPeers
<1>4. HostViewAgrees' BY <1>0 DEF HostViewAgrees, HostsAttached, Slots, Exists, NoPeers
<1>5. IdsIssuedOnce' BY <1>0 DEF IdsIssuedOnce, Exists
<1>6. OpenPeersKeepSlots' BY <1>0 DEF OpenPeersKeepSlots, KeepsSlot, IdsIssuedOnce
<1>7. QED BY <1>1, <1>2, <1>3, <1>4, <1>5, <1>6
\* The next connection id is in nobody's hands.
LEMMA AdmitStep ==
    ASSUME RelayInv, TypeOK', NEW s \in Sockets, NEW r \in RoomIds, NEW ws \in {"open", "closing"},
           life[s] = "new", Exists(r), Admit(s, r, ws)
    PROVE  RelayInv'
<1> USE RelayAssumption, Attachments DEF Admit, RelayInv, TypeOK
<1> DEFINE c == nextConnId[r]
<1>0. /\ attached[s] = Detached /\ announced[s] = {}
      /\ c \in ConnIds /\ c \in Nat
      /\ host[r] \in Sockets /\ host[r] # s
      /\ peers[r][c] = NoSocket
  <2>1. c \in ConnIds /\ c \in Nat BY DEF ConnIds
  <2>2. c \notin Slots(r) BY <2>1 DEF SlotsAttached
  <2>3. QED BY <2>1, <2>2 DEF AttachedReadable, Readable, HostsAttached, Exists, Slots
<1> HIDE DEF c
<1>u. /\ life' = [life EXCEPT ![s] = ws]
      /\ attached' = [attached EXCEPT ![s] = AsPeer(r, c)]
      /\ peers' = [peers EXCEPT ![r][c] = s]
      /\ nextConnId' = [nextConnId EXCEPT ![r] = c + 1]
      /\ c = nextConnId[r]
      /\ UNCHANGED <<host, handoffDeadline, incarnation>>
      /\ announced' = IF life[host[r]] = "open"
                      THEN [announced EXCEPT ![host[r]] = @ \cup {<<c, s>>}]
                      ELSE announced
  BY DEF c, AnnounceUp
<1>1. AttachedReadable' BY <1>0, <1>u DEF AttachedReadable, Readable
<1>2. HostsAttached' BY <1>0, <1>u DEF HostsAttached, Exists, Pending
<1>3. SlotsAttached'
  <2> SUFFICES ASSUME NEW q \in RoomIds, NEW d \in Slots(q)'
               PROVE  /\ Exists(q)'
                      /\ d < nextConnId'[q]
                      /\ Readable(peers[q][d])'
                      /\ attached'[peers'[q][d]] = AsPeer(q, d)
    BY DEF SlotsAttached
  <2>1. CASE q = r /\ d = c
    BY <1>0, <1>u, <2>1 DEF Exists, Readable
  <2>2. CASE ~(q = r /\ d = c)
    <3>1. d \in Slots(q) /\ peers'[q][d] = peers[q][d]
      BY <1>0, <1>u, <2>2 DEF Slots
    <3>2. peers[q][d] # s /\ peers[q][d] \in Sockets
      BY <1>0, <3>1 DEF SlotsAttached, Slots
    <3>3. d \in Nat /\ nextConnId[q] \in Nat /\ nextConnId[q] <= nextConnId'[q]
      BY <1>0, <1>u DEF Slots, ConnIds
    <3>4. QED BY <1>0, <1>u, <3>1, <3>2, <3>3 DEF SlotsAttached, Exists, Readable
  <2>3. QED BY <2>1, <2>2
<1>4. HostViewAgrees'
  <2> SUFFICES ASSUME NEW q \in RoomIds, Exists(q)', (life[host[q]] = "open")'
               PROVE  /\ \A d \in Slots(q)' : <<d, peers'[q][d]>> \in announced'[host'[q]]
                      /\ \A d \in ConnIds, t \in Sockets :
                            <<d, t>> \in announced'[host'[q]] => attached'[t] = AsPeer(q, d)
    BY DEF HostViewAgrees
  <2>1. /\ Exists(q) /\ host'[q] = host[q] /\ host[q] \in Sockets
        /\ host[q] # s /\ life[host[q]] = "open" /\ attached[host[q]] = AsHost(q)
    BY <1>0, <1>u DEF HostsAttached, Exists
  <2>2. CASE q = r
    BY <1>0, <1>u, <2>1, <2>2 DEF HostViewAgrees, Slots
  <2>3. CASE q # r
    <3>1. host[q] # host[r] BY <1>0, <2>1, <2>3 DEF HostsAttached, Exists
    <3>2. QED BY <1>0, <1>u, <2>1, <2>3, <3>1 DEF HostViewAgrees, Slots
  <2>4. QED BY <2>2, <2>3
<1>5. IdsIssuedOnce' BY <1>0, <1>u DEF IdsIssuedOnce, Exists, ConnIds
<1>6. OpenPeersKeepSlots'
  BY <1>0, <1>u DEF OpenPeersKeepSlots, KeepsSlot, IdsIssuedOnce
<1>7. QED BY <1>1, <1>2, <1>3, <1>4, <1>5, <1>6

LEMMA HandoffStep ==
    ASSUME RelayInv, TypeOK', NEW s \in Sockets, NEW r \in RoomIds, Handoff(s, r)
    PROVE  RelayInv'
<1> USE RelayAssumption DEF Handoff, RelayInv, TypeOK
<1>1. AttachedReadable' BY DEF AttachedReadable, Readable
<1>2. HostsAttached' BY DEF HostsAttached, Exists, Pending, NoDeadline
<1>3. SlotsAttached' BY DEF SlotsAttached, Slots, Exists, Readable
<1>4. HostViewAgrees' BY DEF HostViewAgrees, Slots, Exists
<1>5. IdsIssuedOnce' BY DEF IdsIssuedOnce, Exists
<1>6. OpenPeersKeepSlots' BY DEF OpenPeersKeepSlots, KeepsSlot
<1>7. QED BY <1>1, <1>2, <1>3, <1>4, <1>5, <1>6

\* Whoever kicks, the kicked socket is closed in the same step.
LEMMA KickStep ==
    ASSUME RelayInv, TypeOK', NEW s \in Sockets, NEW r \in RoomIds, NEW c \in ConnIds,
           Kick(s, r, c)
    PROVE  RelayInv'
<1> USE RelayAssumption, Attachments DEF Kick, RelayInv, TypeOK
<1>0. /\ peers[r][c] \in Sockets /\ Readable(peers[r][c])
      /\ attached[peers[r][c]] = AsPeer(r, c)
  BY DEF SlotsAttached, Slots
<1>1. AttachedReadable' BY <1>0 DEF AttachedReadable, Readable
<1>2. HostsAttached'
  <2>1. \A q \in RoomIds : Exists(q) => host[q] # peers[r][c]
    BY <1>0 DEF HostsAttached, Exists, Readable
  <2>2. \A q \in RoomIds : Exists(q) => host[q] \in Sockets /\ life'[host[q]] = life[host[q]]
    BY <2>1, <1>0 DEF Exists
  <2>3. QED BY <2>2 DEF HostsAttached, Exists, Pending
<1>3. SlotsAttached' BY <1>0 DEF SlotsAttached, Slots, Exists, Readable
<1>4. HostViewAgrees' BY <1>0 DEF HostViewAgrees, HostsAttached, Slots, Exists
<1>5. IdsIssuedOnce' BY DEF IdsIssuedOnce, Exists
<1>6. OpenPeersKeepSlots'
  BY <1>0 DEF OpenPeersKeepSlots, KeepsSlot, IdsIssuedOnce
<1>7. QED BY <1>1, <1>2, <1>3, <1>4, <1>5, <1>6

LEMMA NonBinaryStep ==
    ASSUME RelayInv, TypeOK', NEW s \in Sockets, NonBinary(s)
    PROVE  RelayInv'
<1> USE RelayAssumption DEF NonBinary, roomVars, RelayInv, TypeOK
<1>1. AttachedReadable' BY DEF AttachedReadable, Readable
<1>2. HostsAttached' BY DEF HostsAttached, Exists, Pending
<1>3. SlotsAttached' BY DEF SlotsAttached, Slots, Exists, Readable
<1>4. HostViewAgrees' BY DEF HostViewAgrees, Slots, Exists
<1>5. IdsIssuedOnce' BY DEF IdsIssuedOnce, Exists
<1>6. OpenPeersKeepSlots' BY DEF OpenPeersKeepSlots, KeepsSlot
<1>7. QED BY <1>1, <1>2, <1>3, <1>4, <1>5, <1>6
\* A torn-down room leaves no slot, and its peers are no longer open.  gone is
\* empty (sweep) or the host whose close ends the room.
LEMMA TeardownStep ==
    ASSUME RelayInv, TypeOK', NEW R \in SUBSET RoomIds, NEW gone \in SUBSET Sockets,
           Teardown(R, gone),
           \A s \in gone : \E r \in R : attached[s] = AsHost(r) /\ host[r] = s,
           attached' = [s \in Sockets |-> IF s \in gone THEN Detached ELSE attached[s]],
           announced' = [s \in Sockets |-> IF s \in gone THEN {} ELSE announced[s]]
    PROVE  RelayInv'
<1> USE RelayAssumption, Attachments DEF Teardown, RelayInv, TypeOK
<1>0. \A s \in Evicted(R) : \E r \in R, c \in ConnIds :
          attached[s] = AsPeer(r, c) /\ Readable(s) /\ peers[r][c] = s
  <2> SUFFICES ASSUME NEW s \in Evicted(R)
               PROVE  \E r \in R, c \in ConnIds :
                          attached[s] = AsPeer(r, c) /\ Readable(s) /\ peers[r][c] = s
    OBVIOUS
  <2>1. PICK r \in R, c \in ConnIds : s \in Sockets /\ peers[r][c] = s
    BY DEF Evicted
  <2>2. r \in RoomIds /\ c \in Slots(r)
    BY <2>1 DEF Slots
  <2>3. attached[s] = AsPeer(r, c) /\ Readable(s)
    BY <2>1, <2>2 DEF SlotsAttached
  <2>4. QED BY <2>1, <2>3
<1>1. AttachedReadable'
  <2> SUFFICES ASSUME NEW s \in Sockets
               PROVE  /\ attached'[s] # Detached => Readable(s)'
                      /\ life'[s] = "new" => announced'[s] = {}
    BY DEF AttachedReadable
  <2>1. attached[s] # Detached => Readable(s)
    BY DEF AttachedReadable
  <2>2. life[s] = "new" => announced[s] = {}
    BY DEF AttachedReadable
  <2>3. CASE s \in gone
    BY <2>3
  <2>4. CASE s \notin gone /\ s \in Evicted(R)
    BY <2>4 DEF Readable
  <2>5. CASE s \notin gone /\ s \notin Evicted(R)
    BY <2>1, <2>2, <2>5 DEF Readable
  <2>6. QED BY <2>3, <2>4, <2>5
<1>2. HostsAttached'
  <2> SUFFICES ASSUME NEW q \in RoomIds
               PROVE  IF Exists(q)'
                      THEN /\ life'[host'[q]] # "new"
                           /\ life'[host'[q]] # "closed" => attached'[host'[q]] = AsHost(q)
                           /\ life'[host'[q]] = "closed" => Pending(q)'
                      ELSE ~Pending(q)'
    BY DEF HostsAttached
  <2>1. CASE q \in R
    BY <2>1 DEF Exists, Pending
  <2>2. CASE q \notin R /\ ~Exists(q)
    BY <2>2 DEF Exists, Pending, HostsAttached
  <2>3. CASE q \notin R /\ Exists(q)
    <3>1. host'[q] = host[q] /\ host[q] \in Sockets /\ Pending(q)' = Pending(q) /\ Exists(q)'
      BY <2>3 DEF Exists, Pending
    <3>2. life[host[q]] # "closed" => attached[host[q]] = AsHost(q)
      BY <2>3 DEF HostsAttached
    <3>3. host[q] \notin Evicted(R)
      <4>1. SUFFICES ASSUME host[q] \in Evicted(R) PROVE FALSE
        OBVIOUS
      <4>2. PICK r \in R, c \in ConnIds : attached[host[q]] = AsPeer(r, c) /\ Readable(host[q])
        BY <1>0, <4>1
      <4>3. attached[host[q]] = AsHost(q)
        BY <3>2, <4>2 DEF Readable
      <4>4. r \in RoomIds
        OBVIOUS
      <4>5. \A x \in RoomIds : AsHost(q) # AsPeer(x, c)
        BY Attachments
      <4>6. QED BY ONLY <4>2, <4>3, <4>4, <4>5
    <3>4. host[q] \notin gone
      <4>1. SUFFICES ASSUME host[q] \in gone PROVE FALSE
        OBVIOUS
      <4>2. PICK r \in R : attached[host[q]] = AsHost(r)
        BY <4>1
      <4>3. life[host[q]] # "closed"
        BY <3>1, <4>2 DEF AttachedReadable, Readable
      <4>4. QED BY <2>3, <3>2, <4>2, <4>3
    <3>5. life'[host[q]] = life[host[q]] /\ attached'[host[q]] = attached[host[q]]
      BY <3>1, <3>3, <3>4
    <3>6. QED BY <2>3, <3>1, <3>5 DEF HostsAttached
  <2>4. QED BY <2>1, <2>2, <2>3
<1>3. SlotsAttached'
  <2> SUFFICES ASSUME NEW q \in RoomIds, NEW d \in Slots(q)'
               PROVE  /\ Exists(q)'
                      /\ d < nextConnId'[q]
                      /\ Readable(peers[q][d])'
                      /\ attached'[peers'[q][d]] = AsPeer(q, d)
    BY DEF SlotsAttached
  <2>1. q \notin R /\ d \in Slots(q) /\ peers'[q] = peers[q]
    BY DEF Slots, NoPeers
  <2>2. /\ Exists(q) /\ d < nextConnId[q] /\ Readable(peers[q][d])
        /\ attached[peers[q][d]] = AsPeer(q, d) /\ peers[q][d] \in Sockets
    BY <2>1 DEF SlotsAttached, Slots
  <2>3. peers[q][d] \notin gone
    BY <2>2 DEF Slots
  <2>4. QED BY <2>1, <2>2, <2>3 DEF Exists, Readable
<1>4. HostViewAgrees'
  <2> SUFFICES ASSUME NEW q \in RoomIds, Exists(q)', (life[host[q]] = "open")'
               PROVE  /\ \A d \in Slots(q)' : <<d, peers'[q][d]>> \in announced'[host'[q]]
                      /\ \A d \in ConnIds, t \in Sockets :
                            <<d, t>> \in announced'[host'[q]] => attached'[t] = AsPeer(q, d)
    BY DEF HostViewAgrees
  <2>1. /\ q \notin R /\ Exists(q) /\ host'[q] = host[q] /\ host[q] \in Sockets
        /\ host[q] \notin gone /\ life[host[q]] = "open"
        /\ announced'[host'[q]] = announced[host[q]]
    BY DEF Exists
  <2>2. \A d \in Slots(q)' : d \in Slots(q) /\ peers'[q][d] = peers[q][d]
    BY <2>1 DEF Slots
  <2>3. \A d \in ConnIds, t \in Sockets : attached[t] = AsPeer(q, d) => attached'[t] = AsPeer(q, d)
    OBVIOUS
  <2>4. QED BY <2>1, <2>2, <2>3 DEF HostViewAgrees
<1>5. IdsIssuedOnce'
  BY DEF IdsIssuedOnce, Exists
<1>6. OpenPeersKeepSlots'
  <2> SUFFICES ASSUME NEW t \in Sockets, NEW q \in RoomIds, NEW d \in ConnIds,
                      incarnation'[q] <= 1, life'[t] = "open", attached'[t] = AsPeer(q, d)
               PROVE  peers'[q][d] = t
    BY DEF OpenPeersKeepSlots, KeepsSlot
  <2>1. life[t] = "open" /\ attached[t] = AsPeer(q, d) /\ incarnation[q] <= 1 /\ t \notin Evicted(R)
    OBVIOUS
  <2>2. peers[q][d] = t
    BY <2>1 DEF OpenPeersKeepSlots, KeepsSlot
  <2>3. QED BY <2>1, <2>2 DEF Evicted
<1>7. QED BY <1>1, <1>2, <1>3, <1>4, <1>5, <1>6
LEMMA CloseHostStep ==
    ASSUME RelayInv, TypeOK', NEW s \in Sockets, NEW r \in RoomIds,
           attached[s] = AsHost(r), CloseHost(s, r), Close(s)
    PROVE  RelayInv'
<1>1. Teardown({r}, {s}) /\ {r} \in SUBSET RoomIds /\ {s} \in SUBSET Sockets
  BY DEF CloseHost
<1>2. \A t \in {s} : \E q \in {r} : attached[t] = AsHost(q) /\ host[q] = t
  BY DEF CloseHost
<1>3. attached' = [t \in Sockets |-> IF t \in {s} THEN Detached ELSE attached[t]]
  BY DEF Close, RelayInv, TypeOK
<1>4. announced' = [t \in Sockets |-> IF t \in {s} THEN {} ELSE announced[t]]
  BY DEF CloseHost, RelayInv, TypeOK
<1>5. QED BY ONLY RelayInv, TypeOK', <1>1, <1>2, <1>3, <1>4, TeardownStep

LEMMA SweepStep ==
    ASSUME RelayInv, TypeOK', Sweep
    PROVE  RelayInv'
<1>1. Teardown(Expired, {}) /\ Expired \in SUBSET RoomIds /\ {} \in SUBSET Sockets
  BY DEF Sweep, Expired
<1>2. \A t \in {} : \E q \in Expired : attached[t] = AsHost(q) /\ host[q] = t
  OBVIOUS
<1>3. attached' = [t \in Sockets |-> IF t \in {} THEN Detached ELSE attached[t]]
  BY DEF Sweep, RelayInv, TypeOK
<1>4. announced' = [t \in Sockets |-> IF t \in {} THEN {} ELSE announced[t]]
  BY DEF Sweep, RelayInv, TypeOK
<1>5. QED BY ONLY RelayInv, TypeOK', <1>1, <1>2, <1>3, <1>4, TeardownStep

\* PEER_DOWN reaches whoever is host when the peer's close arrives.  In a
\* second incarnation the slot freed may be another socket's; then that
\* socket keeps its attachment, and its own close will be reported again.
LEMMA ClosePeerStep ==
    ASSUME RelayInv, TypeOK', NEW s \in Sockets, NEW r \in RoomIds, NEW c \in ConnIds,
           Readable(s), attached[s] = AsPeer(r, c), ClosePeer(s, r, c),
           attached' = [attached EXCEPT ![s] = Detached]
    PROVE  RelayInv'
<1> USE RelayAssumption, Attachments DEF ClosePeer, AnnounceDown, RelayInv, TypeOK
<1>0. /\ Exists(r) /\ host[r] \in Sockets
      /\ \A q \in RoomIds : Exists(q) => host[q] # s
  BY DEF HostsAttached, Exists, Readable
<1>1. AttachedReadable' BY DEF AttachedReadable, Readable
<1>2. HostsAttached' BY <1>0 DEF HostsAttached, Exists, Pending
<1>3. SlotsAttached'
  <2> SUFFICES ASSUME NEW q \in RoomIds, NEW d \in Slots(q)'
               PROVE  /\ Exists(q)'
                      /\ d < nextConnId'[q]
                      /\ Readable(peers[q][d])'
                      /\ attached'[peers'[q][d]] = AsPeer(q, d)
    BY DEF SlotsAttached
  <2>1. d \in Slots(q) /\ peers'[q][d] = peers[q][d] /\ ~(q = r /\ d = c)
    BY DEF Slots
  <2>2. peers[q][d] \in Sockets /\ attached[peers[q][d]] = AsPeer(q, d)
    BY <2>1 DEF SlotsAttached, Slots
  <2>3. peers[q][d] # s
    BY <2>1, <2>2 DEF Slots
  <2>4. QED BY <2>1, <2>2, <2>3 DEF SlotsAttached, Exists, Readable
<1>4. HostViewAgrees'
  <2> SUFFICES ASSUME NEW q \in RoomIds, Exists(q)', (life[host[q]] = "open")'
               PROVE  /\ \A d \in Slots(q)' : <<d, peers'[q][d]>> \in announced'[host'[q]]
                      /\ \A d \in ConnIds, t \in Sockets :
                            <<d, t>> \in announced'[host'[q]] => attached'[t] = AsPeer(q, d)
    BY DEF HostViewAgrees
  <2>1. /\ Exists(q) /\ host'[q] = host[q] /\ host[q] \in Sockets /\ host[q] # s
        /\ life[host[q]] = "open" /\ attached[host[q]] = AsHost(q)
    BY <1>0 DEF HostsAttached, Exists
  <2>2. CASE q = r
    <3>1. announced'[host[r]] = {pair \in announced[host[r]] : pair[1] # c}
      BY <1>0, <2>1, <2>2
    <3>2. \A d \in Slots(r)' : d \in Slots(r) /\ peers'[r][d] = peers[r][d] /\ d # c
      BY DEF Slots
    <3>3. ASSUME NEW d \in Slots(r)'
          PROVE  <<d, peers'[r][d]>> \in announced'[host'[r]]
      BY <2>1, <2>2, <3>1, <3>2 DEF HostViewAgrees
    <3>4. ASSUME NEW d \in ConnIds, NEW t \in Sockets, <<d, t>> \in announced'[host'[r]]
          PROVE  attached'[t] = AsPeer(r, d)
      <4>1. <<d, t>> \in announced[host[r]] /\ d # c
        BY <2>1, <2>2, <3>1, <3>4
      <4>2. attached[t] = AsPeer(r, d)
        BY <2>1, <2>2, <4>1 DEF HostViewAgrees
      <4>3. QED BY <4>1, <4>2
    <3>5. QED BY <2>2, <3>3, <3>4
  <2>3. CASE q # r
    <3>1. host[q] # host[r] BY <1>0, <2>1, <2>3 DEF HostsAttached, Exists
    <3>2. announced'[host[q]] = announced[host[q]]
      BY <1>0, <2>1, <3>1
    <3>3. \A d \in Slots(q)' : d \in Slots(q) /\ peers'[q][d] = peers[q][d]
      BY <2>3 DEF Slots
    <3>4. QED BY <2>1, <2>3, <3>2, <3>3 DEF HostViewAgrees
  <2>4. QED BY <2>2, <2>3
<1>5. IdsIssuedOnce' BY DEF IdsIssuedOnce, Exists
<1>6. OpenPeersKeepSlots' BY DEF OpenPeersKeepSlots, KeepsSlot, IdsIssuedOnce
<1>7. QED BY <1>1, <1>2, <1>3, <1>4, <1>5, <1>6

LEMMA CloseQuietlyStep ==
    ASSUME RelayInv, TypeOK', NEW s \in Sockets, Readable(s), CloseQuietly(s),
           attached' = [attached EXCEPT ![s] = Detached]
    PROVE  RelayInv'
<1> USE RelayAssumption, Attachments DEF CloseQuietly, roomVars, RelayInv, TypeOK
<1>0. \A q \in RoomIds : \A d \in Slots(q) : peers[q][d] # s
  BY DEF SlotsAttached, Slots
<1>1. AttachedReadable' BY DEF AttachedReadable, Readable
<1>2. HostsAttached'
  <2>1. \A q \in RoomIds : Exists(q) /\ host[q] = s => Pending(q)
    BY DEF HostsAttached, Exists, Readable
  <2>2. QED BY <2>1 DEF HostsAttached, Exists, Pending
<1>3. SlotsAttached' BY <1>0 DEF SlotsAttached, Slots, Exists, Readable
<1>4. HostViewAgrees'
  <2> SUFFICES ASSUME NEW q \in RoomIds, Exists(q)', (life[host[q]] = "open")'
               PROVE  /\ \A d \in Slots(q)' : <<d, peers'[q][d]>> \in announced'[host'[q]]
                      /\ \A d \in ConnIds, t \in Sockets :
                            <<d, t>> \in announced'[host'[q]] => attached'[t] = AsPeer(q, d)
    BY DEF HostViewAgrees
  <2>1. /\ Exists(q) /\ host'[q] = host[q] /\ host[q] \in Sockets /\ host[q] # s
        /\ life[host[q]] = "open" /\ announced'[host[q]] = announced[host[q]]
    BY DEF Exists
  <2>2. \A d \in ConnIds : attached[s] # AsPeer(q, d)
    BY <2>1
  <2>3. QED BY <2>1, <2>2 DEF HostViewAgrees, Slots
<1>5. IdsIssuedOnce' BY DEF IdsIssuedOnce, Exists
<1>6. OpenPeersKeepSlots' BY DEF OpenPeersKeepSlots, KeepsSlot
<1>7. QED BY <1>1, <1>2, <1>3, <1>4, <1>5, <1>6
LEMMA NextConsistent ==
    ASSUME RelayInv, [Next]_vars
    PROVE  RelayInv'
<1>0. TypeOK'
  BY NextTyped DEF RelayInv
<1>1. ASSUME NEW s \in Sockets, Hello(s) PROVE RelayInv'
  <2>1. CASE ProtoMismatch(s)
    BY <1>0, <2>1, RejectStep DEF ProtoMismatch
  <2>2. CASE \E r \in RoomIds, allowed \in BOOLEAN, ws \in {"open", "closing"} :
             HostHello(s, r, allowed, ws)
    BY <1>0, <2>2, ClaimStep, CreateStep, RejectStep DEF HostHello
  <2>3. CASE \E r \in RoomIds, allowed \in BOOLEAN, ws \in {"open", "closing"} :
             PeerHello(s, r, allowed, ws)
    BY <1>0, <2>3, AdmitStep, RejectStep DEF PeerHello
  <2>4. QED BY <1>1, <2>1, <2>2, <2>3 DEF Hello
<1>2. ASSUME NEW s \in Sockets, Message(s) PROVE RelayInv'
  <2>1. CASE \E r \in RoomIds : Handoff(s, r)
    BY <1>0, <2>1, HandoffStep
  <2>2. CASE \E r \in RoomIds, c \in ConnIds : Kick(s, r, c)
    BY <1>0, <2>2, KickStep
  <2>3. CASE \E r \in RoomIds, c \in ConnIds : DataFromHost(s, r, c)
    BY <1>0, <2>3, QuietStep DEF DataFromHost
  <2>4. CASE \E r \in RoomIds, c \in ConnIds : DataFromPeer(s, r, c)
    BY <1>0, <2>4, QuietStep DEF DataFromPeer
  <2>5. CASE NonBinary(s)
    BY <1>0, <2>5, NonBinaryStep
  <2>6. QED BY <1>2, <2>1, <2>2, <2>3, <2>4, <2>5 DEF Message
<1>3. ASSUME NEW s \in Sockets, Close(s) PROVE RelayInv'
  <2>1. Readable(s) /\ attached' = [attached EXCEPT ![s] = Detached]
    BY <1>3 DEF Close
  <2>2. CASE \E r \in RoomIds : attached[s] = AsHost(r) /\ CloseHost(s, r)
    BY <1>0, <1>3, <2>2, CloseHostStep
  <2>3. CASE \E r \in RoomIds, c \in ConnIds : attached[s] = AsPeer(r, c) /\ ClosePeer(s, r, c)
    BY <1>0, <2>1, <2>3, ClosePeerStep
  <2>4. CASE CloseQuietly(s)
    BY <1>0, <2>1, <2>4, CloseQuietlyStep
  <2>5. QED BY <1>3, <2>2, <2>3, <2>4 DEF Close
<1>4. CASE Sweep
  BY <1>0, <1>4, SweepStep
<1>5. CASE Tick
  BY <1>0, <1>5, QuietStep DEF Tick
<1>6. CASE UNCHANGED vars
  BY <1>0, <1>6, QuietStep DEF vars
<1>7. QED BY <1>1, <1>2, <1>3, <1>4, <1>5, <1>6 DEF Next

\* The relay's registry is consistent in every reachable state.
THEOREM Consistent == Spec => []RelayInv
<1>1. QED BY InitConsistent, NextConsistent, PTL DEF Spec

\* A taken slot holds a socket whose own close will free it.
THEOREM SlotsAreAttached == Spec => []SlotsAttached
<1>1. RelayInv => SlotsAttached BY DEF RelayInv
<1>2. QED BY <1>1, Consistent, PTL

\* A room always has a host whose close ends it, or a deadline that does.
THEOREM RoomsAreNotHeadless == Spec => []NoHeadlessRoom
<1>1. RelayInv => NoHeadlessRoom
  <2> SUFFICES ASSUME RelayInv, NEW r \in RoomIds, Exists(r), ~Pending(r)
               PROVE  Readable(host[r]) /\ attached[host[r]] = AsHost(r)
    BY DEF NoHeadlessRoom
  <2>1. host[r] \in Sockets BY DEF RelayInv, TypeOK, Exists
  <2>2. QED BY <2>1 DEF RelayInv, TypeOK, HostsAttached, Readable
<1>2. QED BY <1>1, Consistent, PTL

\* The current host's view of its room agrees with the relay's.
THEOREM HostViewsAgree == Spec => []HostViewAgrees
<1>1. RelayInv => HostViewAgrees BY DEF RelayInv
<1>2. QED BY <1>1, Consistent, PTL

\* While a room id is in its first life, an open peer keeps its slot.
THEOREM PeersKeepSlots == Spec => []OpenPeersKeepSlots
<1>1. RelayInv => OpenPeersKeepSlots BY DEF RelayInv
<1>2. QED BY <1>1, Consistent, PTL

-----------------------------------------------------------------------------
(* Data frames.                                                            *)

\* Every handler but the two that forward data leaves no frame behind.
LEMMA OnlyDataFrames ==
    ASSUME Next
    PROVE  \/ frame' = NoFrame
           \/ \E s \in Sockets, r \in RoomIds, c \in ConnIds : DataFromHost(s, r, c)
           \/ \E s \in Sockets, r \in RoomIds, c \in ConnIds : DataFromPeer(s, r, c)
  BY DEF Next, Hello, Message, ProtoMismatch, HostHello, PeerHello, Reject, ClaimHandoff,
         CreateRoom, Admit, Handoff, Kick, NonBinary, Close, Sweep, Tick

\* In a room id's first life a host never takes one peer's bytes for another's.
THEOREM AttributionHolds == Spec => []AttributedRightOnce
<1>1. Init => AttributedRightOnce
  BY DEF Init, AttributedRightOnce, NoFrame
<1>2. ASSUME RelayInv, AttributedRightOnce, [Next]_vars PROVE AttributedRightOnce'
  <2>1. CASE frame' = NoFrame
    BY <2>1 DEF AttributedRightOnce, NoFrame
  <2>2. ASSUME NEW s \in Sockets, NEW r \in RoomIds, NEW c \in ConnIds, DataFromHost(s, r, c)
        PROVE  AttributedRightOnce'
    <3>1. frame'.dir # "toHost"
      BY <2>2 DEF DataFromHost, ToPeer, NoFrame
    <3>2. QED BY <3>1 DEF AttributedRightOnce
  <2>3. ASSUME NEW s \in Sockets, NEW r \in RoomIds, NEW c \in ConnIds, DataFromPeer(s, r, c)
        PROVE  AttributedRightOnce'
    <3>1. CASE frame' = ToHost(s, c, r) /\ life[host[r]] = "open"
      <4>1. /\ frame'.from = s /\ frame'.to = host[r] /\ frame'.connId = c /\ frame'.roomId = r
            /\ attached[s] = AsPeer(r, c) /\ Exists(r) /\ life[host[r]] = "open"
            /\ UNCHANGED <<announced, incarnation, attached>>
        BY <2>3, <3>1 DEF DataFromPeer, ToHost, roomVars
      <4>2. SUFFICES ASSUME incarnation[r] <= 1, NEW p \in Sockets, <<c, p>> \in announced[host[r]]
                     PROVE  p = s
        BY <4>1 DEF AttributedRightOnce, AttributedRight
      <4>3. attached[p] = AsPeer(r, c)
        BY <1>2, <4>1, <4>2 DEF RelayInv, HostViewAgrees
      <4>4. incarnation[r] = 1
        BY <1>2, <4>1, <4>2 DEF RelayInv, IdsIssuedOnce, TypeOK
      <4>5. QED BY <1>2, <4>1, <4>3, <4>4 DEF RelayInv, IdsIssuedOnce
    <3>2. CASE frame' = NoFrame
      BY <3>2 DEF AttributedRightOnce, NoFrame
    <3>3. QED BY <2>3, <3>1, <3>2 DEF DataFromPeer
  <2>4. CASE UNCHANGED vars
    BY <1>2, <2>4 DEF vars, roomVars, AttributedRightOnce, AttributedRight
  <2>5. QED BY <1>2, <2>1, <2>2, <2>3, <2>4, OnlyDataFrames
<1>3. QED BY <1>1, <1>2, Consistent, PTL DEF Spec

-----------------------------------------------------------------------------
(* Refinement.                                                             *)

\* The set of sockets that are a room's peers, as RoomOwnership sees it.
Members(r) == {peers[r][c] : c \in Slots(r)}
Unused == {s \in Sockets : life[s] = "new"}

LEMMA InitRefines == Init => Ownership!OwnershipInit
<1> SUFFICES ASSUME Init PROVE Ownership!OwnershipInit
  OBVIOUS
<1>1. \A r \in RoomIds : Slots(r) = {} /\ ~Pending(r)
  BY DEF Init, Slots, NoPeers, Pending
<1>2. {s \in Sockets : life[s] = "new"} = Sockets
  BY DEF Init
<1>3. [r \in RoomIds |-> {peers[r][c] : c \in Slots(r)}] = [r \in RoomIds |-> {}]
  BY <1>1
<1>4. [r \in RoomIds |-> Pending(r)] = [r \in RoomIds |-> FALSE]
  <2>1. \A r \in RoomIds : Pending(r) = FALSE
    BY <1>1
  <2>2. QED BY <2>1
<1>5. host = [r \in RoomIds |-> NoSocket]
  BY DEF Init
<1>6. QED BY <1>2, <1>3, <1>4, <1>5 DEF Ownership!OwnershipInit

\* A step that touches neither rooms nor unused sockets is a stutter.
LEMMA RoomStutter ==
    ASSUME UNCHANGED <<host, peers, handoffDeadline>>, UNCHANGED Unused
    PROVE  UNCHANGED Ownership!ownershipVars
  BY DEF Ownership!ownershipVars, Pending, Slots, Unused

\* A socket that says HELLO is used up, whatever the answer.
LEMMA HelloUses ==
    ASSUME RelayInv, NEW s \in Sockets, life[s] = "new",
           NEW state \in {"open", "closing"}, life' = [life EXCEPT ![s] = state]
    PROVE  s \in Unused /\ Unused' = Unused \ {s}
  BY DEF Unused, RelayInv, TypeOK

LEMMA RejectRefines ==
    ASSUME RelayInv, NEW s \in Sockets, life[s] = "new", Reject(s)
    PROVE  Ownership!Arrive(s)
<1>1. s \in Unused /\ Unused' = Unused \ {s}
  BY HelloUses DEF Reject
<1>2. QED BY <1>1 DEF Reject, roomVars, Ownership!Arrive, Pending, Slots, Unused

\* The members a claim finds are the members it leaves.
LEMMA ClaimRefines ==
    ASSUME RelayInv, NEW s \in Sockets, NEW r \in RoomIds, NEW ws \in {"open", "closing"},
           life[s] = "new", Claimable(r), ClaimHandoff(s, r, ws)
    PROVE  Ownership!Arrive(s)
<1>1. s \in Unused /\ Unused' = Unused \ {s}
  BY HelloUses DEF ClaimHandoff
<1>2. Ownership!Claim(r, s)
  <2>1. Pending(r) /\ host' = [host EXCEPT ![r] = s] /\ peers' = peers
    BY DEF ClaimHandoff, Claimable
  <2>2. ~Pending(r)' /\ \A q \in RoomIds : q # r => Pending(q)' = Pending(q)
    BY DEF ClaimHandoff, Pending, RelayInv, TypeOK
  <2>3. [q \in RoomIds |-> Pending(q)]' = [[q \in RoomIds |-> Pending(q)] EXCEPT ![r] = FALSE]
    BY <2>2 DEF Pending
  <2>4. [q \in RoomIds |-> {peers[q][c] : c \in Slots(q)}]' = [q \in RoomIds |-> {peers[q][c] : c \in Slots(q)}]
    BY <2>1 DEF Slots
  <2>5. QED BY <2>1, <2>3, <2>4 DEF Ownership!Claim
<1>3. QED BY <1>1, <1>2 DEF Ownership!Arrive, Unused

LEMMA CreateRefines ==
    ASSUME RelayInv, NEW s \in Sockets, NEW r \in RoomIds, NEW ws \in {"open", "closing"},
           life[s] = "new", ~Exists(r), CreateRoom(s, r, ws)
    PROVE  Ownership!Arrive(s)
<1>1. s \in Unused /\ Unused' = Unused \ {s}
  BY HelloUses DEF CreateRoom
<1>2. peers' = [peers EXCEPT ![r] = NoPeers] /\ Slots(r) = {} /\ Slots(r)' = {}
  BY DEF CreateRoom, RelayInv, TypeOK, SlotsAttached, Slots, NoPeers
<1>3. [q \in RoomIds |-> Members(q)]' = [q \in RoomIds |-> Members(q)]
  BY <1>2 DEF Members, Slots, RelayInv, TypeOK
<1>4. Ownership!Open(r, s)
  BY <1>3 DEF Ownership!Open, CreateRoom, Exists, Pending, RelayInv, TypeOK, HostsAttached, Members
<1>5. QED BY <1>1, <1>4 DEF Ownership!Arrive, Unused

LEMMA AdmitRefines ==
    ASSUME RelayInv, NEW s \in Sockets, NEW r \in RoomIds, NEW ws \in {"open", "closing"},
           life[s] = "new", Exists(r), Admit(s, r, ws)
    PROVE  Ownership!Arrive(s)
<1>1. s \in Unused /\ Unused' = Unused \ {s}
  BY HelloUses DEF Admit
<1>2. nextConnId[r] \in ConnIds /\ nextConnId[r] \notin Slots(r)
  BY DEF Admit, RelayInv, TypeOK, SlotsAttached, ConnIds
<1>3. peers' = [peers EXCEPT ![r][nextConnId[r]] = s] /\ host' = host /\ handoffDeadline' = handoffDeadline
  BY DEF Admit
<1>4. Members(r)' = Members(r) \cup {s}
  BY <1>2, <1>3, RelayAssumption DEF Members, Slots, RelayInv, TypeOK
<1>5. \A q \in RoomIds : q # r => Members(q)' = Members(q)
  BY <1>2, <1>3 DEF Members, Slots, RelayInv, TypeOK
<1>6. Ownership!Join(r, s)
  BY <1>3, <1>4, <1>5 DEF Ownership!Join, Exists, Pending, Members
<1>7. QED BY <1>1, <1>6 DEF Ownership!Arrive, Unused
LEMMA HandoffRefines ==
    ASSUME RelayInv, NEW s \in Sockets, NEW r \in RoomIds, Handoff(s, r)
    PROVE  Ownership!Offer(r)
<1>1. Exists(r) /\ host' = host /\ peers' = peers /\ life' = life
  BY RelayAssumption DEF Handoff, Exists
<1>2. Pending(r)' /\ \A q \in RoomIds : q # r => Pending(q)' = Pending(q)
  BY RelayAssumption DEF Handoff, Pending, NoDeadline, RelayInv, TypeOK
<1>3. [q \in RoomIds |-> Pending(q)]' = [[q \in RoomIds |-> Pending(q)] EXCEPT ![r] = TRUE]
  BY <1>2 DEF Pending
<1>4. [q \in RoomIds |-> Members(q)]' = [q \in RoomIds |-> Members(q)]
  BY <1>1 DEF Members, Slots
<1>5. Unused' = Unused
  BY <1>1 DEF Unused
<1>6. QED BY <1>1, <1>3, <1>4, <1>5 DEF Ownership!Offer, Exists, Members, Unused

\* Emptying one slot removes one member: no socket has two slots.
LEMMA SlotFreed ==
    ASSUME RelayInv, NEW r \in RoomIds, NEW c \in Slots(r), NEW p \in Sockets,
           peers[r][c] = p, peers' = [peers EXCEPT ![r][c] = NoSocket],
           UNCHANGED <<host, handoffDeadline>>, UNCHANGED Unused
    PROVE  Ownership!Leave(r, p)
<1>1. peers[r][c] \in Members(r)
  BY DEF Members
<1>2. \A d \in Slots(r) : d # c => peers[r][d] # peers[r][c]
  <2> SUFFICES ASSUME NEW d \in Slots(r), d # c, peers[r][d] = peers[r][c]
               PROVE  FALSE
    OBVIOUS
  <2>1. AsPeer(r, c) = AsPeer(r, d)
    BY DEF RelayInv, SlotsAttached
  <2>2. c \in ConnIds /\ d \in ConnIds
    BY DEF Slots
  <2>3. QED BY <2>1, <2>2, Attachments
<1>3. Slots(r)' = Slots(r) \ {c} /\ \A d \in Slots(r)' : peers'[r][d] = peers[r][d]
  BY DEF Slots, RelayInv, TypeOK
<1>4. Members(r)' = Members(r) \ {peers[r][c]}
  BY <1>2, <1>3 DEF Members
<1>5. \A q \in RoomIds : q # r => Members(q)' = Members(q)
  BY DEF Members, Slots, RelayInv, TypeOK
<1>6. [q \in RoomIds |-> Members(q)]'
        = [[q \in RoomIds |-> Members(q)] EXCEPT ![r] = Members(r) \ {p}]
  BY <1>4, <1>5
<1>7. [q \in RoomIds |-> Pending(q)]' = [q \in RoomIds |-> Pending(q)]
  BY DEF Pending
<1>8. QED BY <1>1, <1>6, <1>7 DEF Ownership!Leave, Members, Unused

LEMMA KickRefines ==
    ASSUME RelayInv, NEW s \in Sockets, NEW r \in RoomIds, NEW c \in ConnIds, Kick(s, r, c)
    PROVE  Ownership!OwnershipNext
<1>1. life[peers[r][c]] # "new" /\ c \in Slots(r)
  BY DEF Kick, RelayInv, SlotsAttached, Readable
<1>2. UNCHANGED Unused
  BY <1>1 DEF Kick, Unused, RelayInv, TypeOK
<1>3. PICK p \in Sockets : peers[r][c] = p
  BY <1>1 DEF Slots, RelayInv, TypeOK
<1>4. Ownership!Leave(r, p)
  BY <1>1, <1>2, <1>3, SlotFreed DEF Kick
<1>5. QED BY <1>4 DEF Ownership!OwnershipNext

LEMMA ClosePeerRefines ==
    ASSUME RelayInv, NEW s \in Sockets, NEW r \in RoomIds, NEW c \in ConnIds,
           Readable(s), ClosePeer(s, r, c)
    PROVE  Ownership!OwnershipNext \/ UNCHANGED Ownership!ownershipVars
<1>1. UNCHANGED Unused
  BY DEF ClosePeer, Unused, Readable, RelayInv, TypeOK
<1>2. CASE c \in Slots(r)
  <2>1. PICK p \in Sockets : peers[r][c] = p
    BY <1>2 DEF Slots, RelayInv, TypeOK
  <2>2. Ownership!Leave(r, p)
    BY <1>1, <1>2, <2>1, SlotFreed DEF ClosePeer
  <2>3. QED BY <2>2 DEF Ownership!OwnershipNext
<1>3. CASE c \notin Slots(r)
  <2>1. peers' = peers
    BY <1>3 DEF ClosePeer, Slots, RelayInv, TypeOK
  <2>2. QED BY <1>1, <2>1, RoomStutter DEF ClosePeer
<1>4. QED BY <1>2, <1>3

\* Rooms end together only when they were all offered.
LEMMA TeardownRefines ==
    ASSUME RelayInv, NEW R \in SUBSET RoomIds, NEW gone, Teardown(R, gone),
           R # {}, \A r \in R : Exists(r),
           (\A r \in R : Pending(r)) \/ (\E r \in R : R = {r}),
           \A s \in gone : life[s] # "new"
    PROVE  Ownership!End(R)
<1>1. UNCHANGED Unused
  <2>1. \A s \in Evicted(R) : life[s] # "new"
    BY RelayAssumption DEF Evicted, RelayInv, SlotsAttached, Slots, Readable, TypeOK
  <2>2. \A s \in Sockets : life'[s] = "new" <=> life[s] = "new"
    BY <2>1 DEF Teardown
  <2>3. QED BY <2>2 DEF Unused
<1>2. \A r \in RoomIds : /\ Pending(r)' <=> Pending(r) /\ r \notin R
                         /\ Members(r)' = IF r \in R THEN {} ELSE Members(r)
  <2> SUFFICES ASSUME NEW r \in RoomIds
               PROVE  /\ Pending(r)' <=> Pending(r) /\ r \notin R
                      /\ Members(r)' = IF r \in R THEN {} ELSE Members(r)
    OBVIOUS
  <2>1. CASE r \in R
    BY <2>1 DEF Teardown, Pending, Members, Slots, NoPeers
  <2>2. CASE r \notin R
    BY <2>2 DEF Teardown, Pending, Members, Slots
  <2>3. QED BY <2>1, <2>2
<1>3. [r \in RoomIds |-> Pending(r)]' = [r \in RoomIds |-> [q \in RoomIds |-> Pending(q)][r] /\ r \notin R]
  BY <1>2 DEF Pending
<1>4. [r \in RoomIds |-> Members(r)]'
        = [r \in RoomIds |-> IF r \in R THEN {} ELSE [q \in RoomIds |-> Members(q)][r]]
  BY <1>2
<1>5. host' = [r \in RoomIds |-> IF r \in R THEN NoSocket ELSE host[r]]
  BY DEF Teardown
<1>6. QED
  BY <1>1, <1>3, <1>4, <1>5 DEF Ownership!End, Exists, Members, Unused
LEMMA CloseRefines ==
    ASSUME RelayInv, NEW s \in Sockets, Close(s)
    PROVE  [Ownership!OwnershipNext]_Ownership!ownershipVars
<1>1. Readable(s)
  BY DEF Close
<1>2. ASSUME NEW r \in RoomIds, CloseHost(s, r)
      PROVE  Ownership!End({r})
  <2>1. Teardown({r}, {s}) /\ Exists(r) /\ life[s] # "new"
    BY <1>1, <1>2, RelayAssumption DEF CloseHost, Exists, Readable
  <2>2. {r} # {} /\ {r} \in SUBSET RoomIds /\ \E q \in {r} : {r} = {q}
    OBVIOUS
  <2>3. QED BY <2>1, <2>2, TeardownRefines
<1>3. ASSUME NEW r \in RoomIds, NEW c \in ConnIds, ClosePeer(s, r, c)
      PROVE  Ownership!OwnershipNext \/ UNCHANGED Ownership!ownershipVars
  BY <1>1, <1>3, ClosePeerRefines
<1>4. CASE CloseQuietly(s)
  <2>1. UNCHANGED Unused
    BY <1>1, <1>4 DEF CloseQuietly, Unused, Readable, RelayInv, TypeOK
  <2>2. UNCHANGED Ownership!ownershipVars
    BY <1>4, <2>1, RoomStutter DEF CloseQuietly, roomVars
  <2>3. QED BY <2>2
<1>5. CASE \E r \in RoomIds : CloseHost(s, r)
  BY <1>2, <1>5 DEF Ownership!OwnershipNext
<1>6. CASE \E r \in RoomIds, c \in ConnIds : ClosePeer(s, r, c)
  BY <1>3, <1>6
<1>7. QED BY <1>4, <1>5, <1>6 DEF Close

LEMMA SweepRefines ==
    ASSUME RelayInv, Sweep
    PROVE  [Ownership!OwnershipNext]_Ownership!ownershipVars
<1>1. PICK R \in SUBSET RoomIds : R = Expired
  BY DEF Expired
<1>2. Teardown(R, {}) /\ \A r \in R : Pending(r)
  BY <1>1 DEF Sweep, Expired
<1>3. \A r \in R : Exists(r)
  BY <1>2 DEF RelayInv, HostsAttached
<1>4. CASE R # {}
  <2>1. \A s \in {} : life[s] # "new"
    OBVIOUS
  <2>2. Ownership!End(R)
    BY <1>2, <1>3, <1>4, <2>1, TeardownRefines
  <2>3. QED BY <2>2 DEF Ownership!OwnershipNext
<1>5. CASE R = {}
  <2>1. life' = life /\ host' = host /\ peers' = peers /\ handoffDeadline' = handoffDeadline
    BY <1>2, <1>5 DEF Teardown, Evicted, RelayInv, TypeOK
  <2>2. QED BY <2>1, RoomStutter DEF Unused
<1>6. QED BY <1>4, <1>5

LEMMA NextRefines ==
    ASSUME RelayInv, [Next]_vars
    PROVE  [Ownership!OwnershipNext]_Ownership!ownershipVars
<1>1. ASSUME NEW s \in Sockets, Hello(s) PROVE Ownership!OwnershipNext
  <2>1. Ownership!Arrive(s)
    BY <1>1, RejectRefines, ClaimRefines, CreateRefines, AdmitRefines
       DEF Hello, ProtoMismatch, HostHello, PeerHello
  <2>2. QED BY <2>1 DEF Ownership!OwnershipNext
<1>2. ASSUME NEW s \in Sockets, Message(s)
      PROVE  [Ownership!OwnershipNext]_Ownership!ownershipVars
  <2>1. CASE \E r \in RoomIds : Handoff(s, r)
    BY <2>1, HandoffRefines DEF Ownership!OwnershipNext
  <2>2. CASE \E r \in RoomIds, c \in ConnIds : Kick(s, r, c)
    BY <2>2, KickRefines
  <2>3. CASE \E r \in RoomIds, c \in ConnIds : DataFromHost(s, r, c) \/ DataFromPeer(s, r, c)
    <3>1. UNCHANGED <<life, host, peers, handoffDeadline>>
      BY <2>3 DEF DataFromHost, DataFromPeer, roomVars
    <3>2. QED BY <3>1, RoomStutter DEF Unused
  <2>4. CASE NonBinary(s)
    <3>1. UNCHANGED Unused
      BY <2>4 DEF NonBinary, Unused, RelayInv, TypeOK
    <3>2. QED BY <2>4, <3>1, RoomStutter DEF NonBinary, roomVars
  <2>5. QED BY <1>2, <2>1, <2>2, <2>3, <2>4 DEF Message
<1>3. CASE Tick \/ UNCHANGED vars
  <2>1. UNCHANGED <<life, host, peers, handoffDeadline>>
    BY <1>3 DEF Tick, vars, roomVars
  <2>2. QED BY <2>1, RoomStutter DEF Unused
<1>4. QED BY <1>1, <1>2, <1>3, CloseRefines, SweepRefines DEF Next

\* Whatever the sockets do, a room changes hands only through a handoff, keeps
\* its peers through it, and takes them along when it ends.
THEOREM RelayImplementsOwnership == Spec => ImplementsOwnership
<1>1. [](RelayInv) /\ [][Next]_vars => [][Ownership!OwnershipNext]_Ownership!ownershipVars
  BY NextRefines, PTL
<1>2. QED
  BY <1>1, InitRefines, Consistent, PTL DEF Spec, ImplementsOwnership, Ownership!OwnershipSpec
-----------------------------------------------------------------------------
(* Limits.                                                                 *)

\* The rooms and the slots are finite sets.
LEMMA Finite ==
    /\ IsFiniteSet(Rooms) /\ Cardinality(Rooms) \in Nat
    /\ \A r \in RoomIds : IsFiniteSet(Slots(r)) /\ Cardinality(Slots(r)) \in Nat
<1>1. IsFiniteSet(ConnIds)
  BY RelayAssumption, FS_Interval DEF ConnIds
<1>2. Rooms \subseteq RoomIds /\ \A r \in RoomIds : Slots(r) \subseteq ConnIds
  BY DEF Rooms, Slots
<1>3. IsFiniteSet(Rooms) /\ \A r \in RoomIds : IsFiniteSet(Slots(r))
  BY <1>1, <1>2, RelayAssumption, FS_Subset
<1>4. QED BY <1>3, FS_CardinalityType

\* Limits survive a step that adds no room and no slot.
LEMMA FewerStays ==
    ASSUME WithinLimits, Rooms' \subseteq Rooms,
           \A r \in RoomIds : Slots(r)' \subseteq Slots(r)
    PROVE  WithinLimits'
<1>1. Cardinality(Rooms)' <= Cardinality(Rooms) /\ Cardinality(Rooms)' \in Nat
  <2>1. PICK S : S = Rooms' OBVIOUS
  <2>2. Cardinality(S) <= Cardinality(Rooms) /\ Cardinality(S) \in Nat
    BY <2>1, Finite, FS_Subset, FS_CardinalityType
  <2>3. QED BY <2>1, <2>2
<1>2. ASSUME NEW r \in RoomIds
      PROVE  Cardinality(Slots(r))' <= Cardinality(Slots(r)) /\ Cardinality(Slots(r))' \in Nat
  <2>1. PICK S : S = Slots(r)' OBVIOUS
  <2>2. Cardinality(S) <= Cardinality(Slots(r)) /\ Cardinality(S) \in Nat
    BY <2>1, Finite, FS_Subset, FS_CardinalityType
  <2>3. QED BY <2>1, <2>2
<1>3. QED BY <1>1, <1>2, Finite, RelayAssumption DEF WithinLimits

LEMMA CreateWithin ==
    ASSUME RelayInv, WithinLimits, NEW s \in Sockets, NEW r \in RoomIds, NEW ws,
           Cardinality(Rooms) < MaxRooms, ~Exists(r), CreateRoom(s, r, ws)
    PROVE  WithinLimits'
<1>1. Rooms' = Rooms \cup {r} /\ r \notin Rooms
  BY RelayAssumption DEF CreateRoom, Rooms, Exists, RelayInv, TypeOK
<1>2. Cardinality(Rooms \cup {r}) = Cardinality(Rooms) + 1
  BY <1>1, Finite, FS_AddElement
<1>3. \A q \in RoomIds : Slots(q)' \subseteq Slots(q)
  BY DEF CreateRoom, Slots, NoPeers, RelayInv, TypeOK
<1>4. WithinLimits' <=> /\ Cardinality(Rooms)' <= MaxRooms
                        /\ \A q \in RoomIds : Cardinality(Slots(q))' <= MaxPeersPerRoom
  BY DEF WithinLimits
<1>5. Cardinality(Rooms)' <= MaxRooms
  BY <1>1, <1>2, Finite, RelayAssumption
<1>6. ASSUME NEW q \in RoomIds PROVE Cardinality(Slots(q))' <= MaxPeersPerRoom
  <2>1. PICK S : S = Slots(q)' OBVIOUS
  <2>2. Cardinality(S) <= Cardinality(Slots(q)) /\ Cardinality(S) \in Nat
    BY <1>3, <2>1, Finite, FS_Subset, FS_CardinalityType
  <2>3. QED BY <2>1, <2>2, Finite, RelayAssumption DEF WithinLimits
<1>7. QED BY <1>4, <1>5, <1>6

LEMMA AdmitWithin ==
    ASSUME RelayInv, WithinLimits, NEW s \in Sockets, NEW r \in RoomIds, NEW ws,
           Cardinality(Slots(r)) < MaxPeersPerRoom, Admit(s, r, ws)
    PROVE  WithinLimits'
<1>1. PICK c \in ConnIds : c = nextConnId[r]
  BY DEF Admit
<1>2. Slots(r)' = Slots(r) \cup {c} /\ \A q \in RoomIds : q # r => Slots(q)' = Slots(q)
  BY <1>1, RelayAssumption DEF Admit, Slots, RelayInv, TypeOK
<1>3. c \notin Slots(r)
  BY <1>1 DEF RelayInv, SlotsAttached, ConnIds
<1>4. Cardinality(Slots(r) \cup {c}) = Cardinality(Slots(r)) + 1
  BY <1>3, Finite, FS_AddElement
<1>5. Rooms' = Rooms
  BY DEF Admit, Rooms, Exists
<1>6. Cardinality(Slots(r))' <= MaxPeersPerRoom
  BY <1>2, <1>4, Finite, RelayAssumption
<1>7. QED BY <1>2, <1>5, <1>6 DEF WithinLimits

\* The relay's limits on rooms and on peers per room are never exceeded.
THEOREM LimitsHold == Spec => []WithinLimits
<1>1. Init => WithinLimits
  <2> SUFFICES ASSUME Init PROVE WithinLimits
    OBVIOUS
  <2>1. Rooms = {} /\ \A r \in RoomIds : Slots(r) = {}
    BY DEF Init, Rooms, Exists, Slots, NoPeers
  <2>2. QED BY <2>1, FS_EmptySet, RelayAssumption DEF WithinLimits
<1>2. ASSUME RelayInv, WithinLimits, [Next]_vars PROVE WithinLimits'
  <2>1. ASSUME NEW s \in Sockets, Hello(s) PROVE WithinLimits'
    <3>1. CASE \E r \in RoomIds, ws \in {"open", "closing"} :
             Claimable(r) /\ ClaimHandoff(s, r, ws)
      <4>1. PICK r \in RoomIds, ws \in {"open", "closing"} :
                 Claimable(r) /\ ClaimHandoff(s, r, ws)
        BY <3>1
      <4>2. Exists(r)
        BY <1>2, <4>1 DEF Claimable, RelayInv, HostsAttached
      <4>3. Rooms' \subseteq Rooms /\ \A q \in RoomIds : Slots(q)' \subseteq Slots(q)
        BY <1>2, <4>1, <4>2 DEF ClaimHandoff, Rooms, Exists, Slots, RelayInv, TypeOK
      <4>4. QED BY <1>2, <4>3, FewerStays
    <3>2. CASE Reject(s)
      <4>1. Rooms' \subseteq Rooms /\ \A q \in RoomIds : Slots(q)' \subseteq Slots(q)
        BY <3>2 DEF Reject, roomVars, Rooms, Exists, Slots
      <4>2. QED BY <1>2, <4>1, FewerStays
    <3>3. QED
      BY <1>2, <2>1, <3>1, <3>2, CreateWithin, AdmitWithin
         DEF Hello, ProtoMismatch, HostHello, PeerHello
  <2>2. ASSUME NEW s \in Sockets, Message(s) PROVE WithinLimits'
    <3>1. host' = host /\ \A q \in RoomIds : Slots(q)' \subseteq Slots(q)
      BY <1>2, <2>2
         DEF Message, Handoff, Kick, DataFromHost, DataFromPeer, NonBinary, roomVars, Slots,
             RelayInv, TypeOK
    <3>2. Rooms' \subseteq Rooms
      BY <3>1 DEF Rooms, Exists
    <3>3. QED BY <1>2, <3>1, <3>2, FewerStays
  <2>3. ASSUME NEW s \in Sockets, Close(s) PROVE WithinLimits'
    <3>1. Rooms' \subseteq Rooms /\ \A q \in RoomIds : Slots(q)' \subseteq Slots(q)
      <4>1. CASE \E r \in RoomIds : CloseHost(s, r)
        BY <4>1 DEF CloseHost, Teardown, Rooms, Exists, Slots, NoPeers
      <4>2. CASE \E r \in RoomIds, c \in ConnIds : ClosePeer(s, r, c)
        BY <1>2, <4>2 DEF ClosePeer, Rooms, Exists, Slots, RelayInv, TypeOK
      <4>3. CASE CloseQuietly(s)
        BY <4>3 DEF CloseQuietly, roomVars, Rooms, Exists, Slots
      <4>4. QED BY <2>3, <4>1, <4>2, <4>3 DEF Close
    <3>2. QED BY <1>2, <3>1, FewerStays
  <2>4. CASE Sweep
    <3>1. Rooms' \subseteq Rooms /\ \A q \in RoomIds : Slots(q)' \subseteq Slots(q)
      BY <2>4 DEF Sweep, Teardown, Rooms, Exists, Slots, NoPeers
    <3>2. QED BY <1>2, <3>1, FewerStays
  <2>5. CASE Tick \/ UNCHANGED vars
    <3>1. Rooms' \subseteq Rooms /\ \A q \in RoomIds : Slots(q)' \subseteq Slots(q)
      BY <2>5 DEF Tick, vars, roomVars, Rooms, Exists, Slots
    <3>2. QED BY <1>2, <3>1, FewerStays
  <2>6. QED BY <1>2, <2>1, <2>2, <2>3, <2>4, <2>5 DEF Next
<1>3. QED BY <1>1, <1>2, Consistent, PTL DEF Spec
=============================================================================
