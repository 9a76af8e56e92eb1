-------------------------- MODULE SignalingProofs --------------------------
(***************************************************************************)
(* Proofs about Signaling: its roster, its handshake slots and the mirrors *)
(* of its clients are right for every set of peers, every nickname and     *)
(* every limit.                                                            *)
(***************************************************************************)
EXTENDS Signaling, SequenceLemmas

(***************************************************************************)
(* The inductive invariant.                                                *)
(***************************************************************************)

InHandshake == {c \in Peers : stage[c] \in {"handshake", "confirmed"}}

\* Unlike SlotsCounted, whatever the phase.
SlotsHeld ==
    /\ activeHandshakes = Cardinality(InHandshake)
    /\ activeHandshakes <= MaxHandshakes

\* RosterWellFormed, and nextJoinSeq is ahead of the roster.
RosterOrdered ==
    /\ IsFiniteSet(roster)
    /\ RosterWellFormed
    /\ \A e \in roster : e.joinSeq < nextJoinSeq

\* Only an admitted peer has a link, and only a link has a heartbeat.
LinksAdmitted ==
    /\ \A c \in links : stage[c] = "admitted"
    /\ beating \subseteq links

\* A connection that closed is over, or admitted, or its close was missed.
ClosedOrMissed ==
    Up => \A c \in hClosed : stage[c] \in {"admitted", "over"} \/ c \in early

SignalingInv ==
    /\ SignalingTypeOK
    /\ SlotsHeld
    /\ RosterOrdered
    /\ LinksAdmitted
    /\ ClosedOrMissed
    /\ RosterIsConnected

\* The invariant holds of a server that was just started.
LEMMA InitHolds == SignalingInit => SignalingInv
<1> SUFFICES ASSUME SignalingInit PROVE SignalingInv
  OBVIOUS
<1> USE SignalingAssumption
<1>1. SignalingTypeOK
  BY DEF SignalingInit, SignalingTypeOK, Entry, Stages, ClientStates
<1>2. SlotsHeld
  <2>1. InHandshake = {}
    BY DEF SignalingInit, InHandshake
  <2>2. QED BY <2>1, FS_EmptySet DEF SignalingInit, SlotsHeld
<1>3. RosterOrdered
  <2>1. IsFiniteSet(roster) /\ Cardinality(roster) = 1
    BY FS_Singleton DEF SignalingInit
  <2>2. \A e \in roster : e.joinSeq = 0
    BY DEF SignalingInit, Entry
  <2>3. \A e, f \in roster : e = f
    BY DEF SignalingInit
  <2>4. nextJoinSeq = 1
    BY DEF SignalingInit
  <2>5. QED BY <2>1, <2>2, <2>3, <2>4 DEF RosterOrdered, RosterWellFormed
<1>4. LinksAdmitted /\ ClosedOrMissed
  BY DEF SignalingInit, LinksAdmitted, ClosedOrMissed
<1>5. RosterIsConnected
  BY DEF SignalingInit, RosterIsConnected, Members, Entry
<1>6. QED BY <1>1, <1>2, <1>3, <1>4, <1>5 DEF SignalingInv

(***************************************************************************)
(* The clients.                                                            *)
(***************************************************************************)

\* A client changes nothing of the server, and keeps its own state typed.
LEMMA ClientStepFrame ==
    ASSUME SignalingTypeOK, NEW c \in Peers, ClientStep(c)
    PROVE  /\ UNCHANGED <<server, early>>
           /\ client' \in [Peers -> ClientStates]
           /\ requests' \in 0..MaxRequests
<1> USE SignalingAssumption DEF SignalingTypeOK, ClientStates, Become, Gone, clients
<1>1. CASE Join(c) \/ Joined(c) \/ Settle(c)
  BY <1>1 DEF Join, Joined, Settle
<1>2. CASE ConnectFails(c) \/ OnRosterUpdate(c) \/ OnReply(c)
  BY <1>2 DEF ConnectFails, OnRosterUpdate, OnReply
<1>3. CASE OnHostTransfer(c) \/ OnClose(c) \/ MissClose(c)
  BY <1>3 DEF OnHostTransfer, OnClose, MissClose
<1>4. CASE Dial(c) \/ ConnectTimesOut(c) \/ HostLost(c)
  BY <1>4 DEF Dial, ConnectTimesOut, HostLost
<1>5. CASE Ask(c)
  <2>1. requests + 1 \in 0..MaxRequests
    BY <1>5 DEF Ask
  <2>2. QED BY <1>5, <2>1 DEF Ask
<1>6. CASE Leave(c) \/ Vanish(c)
  BY <1>6 DEF Leave, Vanish
<1>7. QED
  BY <1>1, <1>2, <1>3, <1>4, <1>5, <1>6, ClientStep(c) DEF ClientStep, ClientReceives

\* What the server's variables alone decide is decided as before.
LEMMA ServerUnchanged ==
    ASSUME SignalingInv, UNCHANGED <<server, early>>,
           client' \in [Peers -> ClientStates], requests' \in 0..MaxRequests
    PROVE  SignalingInv'
<1> USE DEF server
<1>1. SignalingTypeOK'
  BY DEF SignalingInv, SignalingTypeOK
<1>2. SlotsHeld' /\ LinksAdmitted'
  BY DEF SignalingInv, SlotsHeld, InHandshake, LinksAdmitted
<1>3. RosterOrdered'
  BY DEF SignalingInv, RosterOrdered, RosterWellFormed
<1>4. ClosedOrMissed' /\ RosterIsConnected'
  BY DEF SignalingInv, ClosedOrMissed, Up, RosterIsConnected, Members
<1>5. QED BY <1>1, <1>2, <1>3, <1>4 DEF SignalingInv

(***************************************************************************)
(* The handshake slots.                                                    *)
(***************************************************************************)

\* Who is in a handshake, after one connection moved to a stage.
LEMMA MovedInHandshake ==
    ASSUME SignalingTypeOK, NEW c \in Peers, NEW s, Goto(c, s)
    PROVE  InHandshake' = IF s \in {"handshake", "confirmed"} THEN InHandshake \cup {c}
                          ELSE InHandshake \ {c}
  BY DEF SignalingTypeOK, Goto, InHandshake

\* Every step of the host's end gives back exactly the slot it leaves.
LEMMA HostStepSlots ==
    ASSUME SignalingInv, NEW c \in Peers, HostStep(c)
    PROVE  SlotsHeld' /\ activeHandshakes' \in Nat
<1> USE SignalingAssumption
<1> DEFINE unmoved == stage' = stage /\ activeHandshakes' = activeHandshakes
<1>1. IsFiniteSet(InHandshake) /\ Cardinality(InHandshake) \in Nat
  BY FS_Subset, FS_CardinalityType DEF InHandshake
<1>2. SlotsHeld /\ SignalingTypeOK /\ activeHandshakes \in Nat
  BY DEF SignalingInv, SignalingTypeOK
<1>3. ASSUME unmoved PROVE SlotsHeld' /\ activeHandshakes' \in Nat
  BY <1>2, <1>3 DEF SlotsHeld, InHandshake
<1>4. ASSUME NEW s, Goto(c, s), InHandshake' = InHandshake, activeHandshakes' = activeHandshakes
      PROVE  SlotsHeld' /\ activeHandshakes' \in Nat
  BY <1>2, <1>4 DEF SlotsHeld
<1>5. ASSUME NEW s, Goto(c, s), s \notin {"handshake", "confirmed"},
             stage[c] \in {"handshake", "confirmed"},
             activeHandshakes' = activeHandshakes - 1
      PROVE  SlotsHeld' /\ activeHandshakes' \in Nat
  <2>1. InHandshake' = InHandshake \ {c} /\ c \in InHandshake
    BY <1>2, <1>5, MovedInHandshake DEF InHandshake
  <2>2. Cardinality(InHandshake') = Cardinality(InHandshake) - 1
    BY <1>1, <2>1, FS_RemoveElement
  <2>3. Cardinality(InHandshake') \in Nat
    BY <1>1, <2>1, FS_RemoveElement, FS_CardinalityType
  <2>4. QED BY <1>1, <1>2, <1>5, <2>2, <2>3 DEF SlotsHeld
<1>6. ASSUME NEW s, Goto(c, s), s \notin {"handshake", "confirmed"},
             stage[c] \notin {"handshake", "confirmed"},
             activeHandshakes' = activeHandshakes
      PROVE  SlotsHeld' /\ activeHandshakes' \in Nat
  BY <1>2, <1>4, <1>6, MovedInHandshake DEF InHandshake
<1>7. CASE Accept(c)
  <2>1. CASE Refuse(c)
    BY <1>6, <1>7, <2>1 DEF Accept, Refuse
  <2>2. CASE ~Refuse(c)
    <3>1. /\ Goto(c, "handshake") /\ activeHandshakes' = activeHandshakes + 1
          /\ activeHandshakes < MaxHandshakes
      BY <1>7, <2>2 DEF Accept
    <3>2. InHandshake' = InHandshake \cup {c} /\ c \notin InHandshake
      BY <1>2, <1>7, <3>1, MovedInHandshake DEF Accept, InHandshake
    <3>3. Cardinality(InHandshake') = Cardinality(InHandshake) + 1
      BY <1>1, <3>2, FS_AddElement
    <3>4. QED BY <1>2, <3>1, <3>3 DEF SlotsHeld
  <2>3. QED BY <2>1, <2>2
<1>8. CASE HandshakeRead(c)
  <2>1. InHandshake' = InHandshake
    BY <1>2, <1>8, MovedInHandshake DEF HandshakeRead, InHandshake
  <2>2. QED BY <1>4, <1>8, <2>1 DEF HandshakeRead
<1>9. CASE Upgrade(c)
  BY <1>5, <1>9 DEF Upgrade
<1>10. CASE HandshakeFails(c)
  BY <1>5, <1>10 DEF HandshakeFails
<1>11. CASE JoinRead(c) \/ JoinFails(c) \/ Admit(c)
  BY <1>6, <1>11 DEF JoinRead, JoinFails, Admit, AdmitJoin
<1>12. CASE HearClose(c)
  <2>1. CASE stage[c] = "admitted"
    BY <1>3, <1>12, <2>1 DEF HearClose
  <2>2. CASE stage[c] = "handshake"
    BY <1>5, <1>12, <2>2 DEF HearClose
  <2>3. CASE stage[c] \notin {"admitted", "handshake"}
    BY <1>6, <1>12, <2>3 DEF HearClose
  <2>4. QED BY <2>1, <2>2, <2>3
<1>13. CASE Request(c) \/ MediaReply(c) \/ Bye(c) \/ HeartbeatDead(c) \/ ProbeDone(c)
            \/ HearCloseEarly(c)
  BY <1>3, <1>13 DEF Request, MediaReply, Bye, HeartbeatDead, ProbeDone, HearCloseEarly
<1>14. QED
  BY <1>7, <1>8, <1>9, <1>10, <1>11, <1>12, <1>13, HostStep(c) DEF HostStep

(***************************************************************************)
(* Types, links and closes.                                                *)
(***************************************************************************)

\* The steps of the host's end keep its variables typed.
LEMMA HostStepTyped ==
    ASSUME SignalingInv, NEW c \in Peers, HostStep(c)
    PROVE  SignalingTypeOK'
<1> USE SignalingAssumption DEF Goto, Stages, HangUp, clients
<1>1. SignalingTypeOK
  BY DEF SignalingInv
<1>2. activeHandshakes' \in Nat
  BY HostStepSlots
<1>3. ASSUME NEW d \in Peers
      PROVE  Entry(d, nextJoinSeq, FALSE)
                \in [peer : Peers \cup {Host}, joinSeq : Nat, inboundVerified : BOOLEAN]
  BY <1>1 DEF SignalingTypeOK, Entry
<1>4. CASE Accept(c) \/ HandshakeRead(c) \/ Upgrade(c) \/ HandshakeFails(c)
  BY <1>1, <1>2, <1>4 DEF SignalingTypeOK, Accept, Refuse, HandshakeRead, Upgrade, HandshakeFails
<1>5. CASE JoinRead(c) \/ JoinFails(c) \/ MediaReply(c) \/ HearCloseEarly(c)
  BY <1>1, <1>2, <1>5 DEF SignalingTypeOK, JoinRead, JoinFails, MediaReply, HearCloseEarly
<1>6. CASE Admit(c)
  <2>1. CASE ~Admissible(c)
    BY <1>1, <1>2, <1>6, <2>1 DEF SignalingTypeOK, Admit
  <2>2. CASE Admissible(c)
    <3>1. /\ roster' = roster \cup {Entry(c, nextJoinSeq, FALSE)}
          /\ stage' = [stage EXCEPT ![c] = "admitted"]
          /\ nextJoinSeq' = nextJoinSeq + 1
          /\ links' = links \cup {c} /\ beating' = beating \cup {c}
          /\ probing' \in {probing, probing \cup {c}}
          /\ UNCHANGED <<phase, hClosed, replying, client, requests, early>>
      BY <1>6, <2>2 DEF Admit, AdmitJoin
    <3>2. roster' \subseteq [peer : Peers \cup {Host}, joinSeq : Nat, inboundVerified : BOOLEAN]
      BY <1>1, <1>3, <3>1 DEF SignalingTypeOK
    <3>3. /\ links' \subseteq Peers /\ beating' \subseteq Peers /\ probing' \subseteq Peers
          /\ nextJoinSeq' \in Nat
          /\ stage' \in [Peers -> Stages]
      BY <1>1, <3>1 DEF SignalingTypeOK
    <3>4. QED BY <1>1, <1>2, <3>1, <3>2, <3>3 DEF SignalingTypeOK
  <2>3. QED BY <2>1, <2>2
<1>7. CASE Request(c)
  BY <1>1, <1>2, <1>7 DEF SignalingTypeOK, Request
<1>8. CASE Bye(c) \/ HeartbeatDead(c)
  BY <1>1, <1>2, <1>8 DEF SignalingTypeOK, Bye, HeartbeatDead, DropLink, PeerGone
<1>9. CASE ProbeDone(c)
  <2>1. ASSUME NEW reachable \in BOOLEAN, NEW e \in roster
        PROVE  (IF e.peer = c THEN [e EXCEPT !.inboundVerified = reachable] ELSE e)
                  \in [peer : Peers \cup {Host}, joinSeq : Nat, inboundVerified : BOOLEAN]
    BY <1>1 DEF SignalingTypeOK
  <2>2. roster' \subseteq [peer : Peers \cup {Host}, joinSeq : Nat, inboundVerified : BOOLEAN]
    <3>1. CASE c \notin links
      BY <1>1, <1>9, <3>1 DEF SignalingTypeOK, ProbeDone
    <3>2. CASE c \in links
      <4>1. PICK reachable \in BOOLEAN :
               roster' = {IF e.peer = c THEN [e EXCEPT !.inboundVerified = reachable] ELSE e :
                             e \in roster}
        BY <1>9, <3>2 DEF ProbeDone
      <4> DEFINE probed(e) ==
                   IF e.peer = c THEN [e EXCEPT !.inboundVerified = reachable] ELSE e
      <4>2. \A e \in roster :
               probed(e) \in [peer : Peers \cup {Host}, joinSeq : Nat, inboundVerified : BOOLEAN]
        BY <2>1
      <4>3. roster' = {probed(e) : e \in roster}
        BY <4>1
      <4> HIDE DEF probed
      <4>4. QED BY <4>2, <4>3
    <3>3. QED BY <3>1, <3>2
  <2>3. /\ probing' = probing \ {c}
        /\ UNCHANGED <<phase, stage, hClosed, nextJoinSeq, links, beating, replying, client,
                       requests, early>>
    BY <1>9 DEF ProbeDone
  <2>4. QED BY <1>1, <1>2, <2>2, <2>3 DEF SignalingTypeOK
<1>10. CASE HearClose(c)
  BY <1>1, <1>2, <1>10 DEF SignalingTypeOK, HearClose, PeerGone
<1>11. QED
  BY <1>4, <1>5, <1>6, <1>7, <1>8, <1>9, <1>10, HostStep(c) DEF HostStep

\* Links belong to admitted peers, heartbeats to links.
LEMMA HostStepLinks ==
    ASSUME SignalingInv, NEW c \in Peers, HostStep(c)
    PROVE  LinksAdmitted'
<1> USE DEF Goto, LinksAdmitted
<1>1. SignalingTypeOK /\ LinksAdmitted
  BY DEF SignalingInv
<1>2. CASE Accept(c) \/ HandshakeRead(c) \/ Upgrade(c) \/ HandshakeFails(c) \/ JoinRead(c)
           \/ JoinFails(c)
  <2>1. stage[c] # "admitted" /\ (\E s \in Stages : Goto(c, s)) /\ UNCHANGED <<links, beating>>
    BY <1>2 DEF Accept, Refuse, HandshakeRead, Upgrade, HandshakeFails, JoinRead, JoinFails, Stages
  <2>2. QED BY <1>1, <2>1 DEF SignalingTypeOK
<1>3. CASE Admit(c)
  <2>1. CASE ~Admissible(c)
    BY <1>1, <1>3, <2>1 DEF SignalingTypeOK, Admit
  <2>2. CASE Admissible(c)
    BY <1>1, <1>3, <2>2 DEF SignalingTypeOK, Admit, AdmitJoin
  <2>3. QED BY <2>1, <2>2
<1>4. CASE Bye(c) \/ HeartbeatDead(c)
  BY <1>1, <1>4 DEF Bye, HeartbeatDead, DropLink, PeerGone
<1>5. CASE HearClose(c)
  BY <1>1, <1>5 DEF SignalingTypeOK, HearClose, PeerGone
<1>6. CASE Request(c) \/ MediaReply(c) \/ ProbeDone(c) \/ HearCloseEarly(c)
  BY <1>1, <1>6 DEF Request, MediaReply, ProbeDone, HearCloseEarly
<1>7. QED
  BY <1>2, <1>3, <1>4, <1>5, <1>6, HostStep(c) DEF HostStep

\* A close that nobody heard is remembered in early.
LEMMA HostStepCloses ==
    ASSUME SignalingInv, NEW c \in Peers, HostStep(c)
    PROVE  ClosedOrMissed'
<1> USE DEF Goto, ClosedOrMissed, Up
<1>1. SignalingTypeOK /\ LinksAdmitted /\ ClosedOrMissed
  BY DEF SignalingInv
<1>2. ASSUME NEW s \in Stages, Goto(c, s), hClosed' = hClosed, early' = early, phase' = phase,
             stage[c] \notin {"admitted", "over"}
      PROVE  ClosedOrMissed'
  BY <1>1, <1>2 DEF SignalingTypeOK
<1>3. ASSUME NEW s \in {"admitted", "over"}, Goto(c, s), hClosed' \in {hClosed, hClosed \cup {c}},
             early' = early, phase' = phase
      PROVE  ClosedOrMissed'
  BY <1>1, <1>3 DEF SignalingTypeOK
<1>4. ASSUME UNCHANGED <<stage, early, phase>>, hClosed' \in {hClosed, hClosed \cup {c}},
             stage[c] = "admitted" \/ hClosed' = hClosed
      PROVE  ClosedOrMissed'
  BY <1>1, <1>4
<1>5. CASE Accept(c)
  <2>1. CASE Refuse(c)
    BY <1>3, <1>5, <2>1 DEF Accept, Refuse, HangUp
  <2>2. CASE ~Refuse(c)
    BY <1>2, <1>5, <2>2 DEF Accept, Stages
  <2>3. QED BY <2>1, <2>2
<1>6. CASE HandshakeRead(c) \/ Upgrade(c) \/ JoinRead(c)
  BY <1>2, <1>6 DEF HandshakeRead, Upgrade, JoinRead, Stages
<1>7. CASE HandshakeFails(c) \/ JoinFails(c)
  BY <1>3, <1>7 DEF HandshakeFails, JoinFails, HangUp
<1>8. CASE Admit(c)
  BY <1>3, <1>8 DEF Admit, AdmitJoin, HangUp
<1>9. CASE Request(c) \/ MediaReply(c) \/ ProbeDone(c)
  BY <1>4, <1>9 DEF Request, MediaReply, ProbeDone
<1>10. CASE Bye(c) \/ HeartbeatDead(c)
  BY <1>1, <1>4, <1>10 DEF Bye, HeartbeatDead, DropLink, HangUp, LinksAdmitted
<1>11. CASE HearClose(c)
  <2>1. CASE stage[c] = "admitted"
    BY <1>4, <1>11, <2>1 DEF HearClose
  <2>2. CASE stage[c] # "admitted"
    BY <1>3, <1>11, <2>2 DEF HearClose
  <2>3. QED BY <2>1, <2>2
<1>12. CASE HearCloseEarly(c)
  BY <1>1, <1>12 DEF HearCloseEarly
<1>13. QED
  BY <1>5, <1>6, <1>7, <1>8, <1>9, <1>10, <1>11, <1>12, HostStep(c) DEF HostStep

(***************************************************************************)
(* The roster.                                                             *)
(***************************************************************************)

\* The result of a probe replaces entries one for one, peer and place kept.
LEMMA ProbeKeepsEntries ==
    ASSUME SignalingInv, NEW c \in Peers, ProbeDone(c)
    PROVE  /\ IsFiniteSet(roster') /\ Cardinality(roster') <= Cardinality(roster)
           /\ \A e \in roster' : \E a \in roster : e.peer = a.peer /\ e.joinSeq = a.joinSeq
           /\ \A e, f \in roster' : e # f =>
                 \E a, b \in roster : /\ a # b
                                      /\ e.peer = a.peer /\ e.joinSeq = a.joinSeq
                                      /\ f.peer = b.peer /\ f.joinSeq = b.joinSeq
           /\ Members(roster') = Members(roster)
<1>1. SignalingTypeOK /\ IsFiniteSet(roster)
  BY DEF SignalingInv, RosterOrdered
<1>2. CASE roster' = roster
  <2>1. Cardinality(roster) \in Nat
    BY <1>1, FS_CardinalityType
  <2>2. QED BY <1>1, <1>2, <2>1 DEF Members
<1>3. CASE roster' # roster
  <2>1. PICK reachable \in BOOLEAN :
           roster' = {IF e.peer = c THEN [e EXCEPT !.inboundVerified = reachable] ELSE e :
                         e \in roster}
    BY <1>3 DEF ProbeDone
  <2> DEFINE probed(e) == IF e.peer = c THEN [e EXCEPT !.inboundVerified = reachable] ELSE e
             f == [e \in roster |-> probed(e)]
  <2>2. \A e \in roster : probed(e).peer = e.peer /\ probed(e).joinSeq = e.joinSeq
    BY <1>1 DEF SignalingTypeOK
  <2>3. roster' = {probed(e) : e \in roster}
    BY <2>1
  <2> HIDE DEF probed
  <2>4. f \in Surjection(roster, roster')
    BY <2>3 DEF Surjection
  <2>5. IsFiniteSet(roster') /\ Cardinality(roster') <= Cardinality(roster)
    BY <1>1, <2>4, FS_Surjection
  <2>6. \A e \in roster' : \E a \in roster : e = probed(a)
    BY <2>3
  <2>7. \A e \in roster' : \E a \in roster : e.peer = a.peer /\ e.joinSeq = a.joinSeq
    BY <2>2, <2>6
  <2>8. ASSUME NEW e \in roster', NEW g \in roster', e # g
        PROVE  \E a, b \in roster : /\ a # b
                                    /\ e.peer = a.peer /\ e.joinSeq = a.joinSeq
                                    /\ g.peer = b.peer /\ g.joinSeq = b.joinSeq
    <3>1. PICK a \in roster : e = probed(a)
      BY <2>6
    <3>2. PICK b \in roster : g = probed(b)
      BY <2>6
    <3>3. a # b
      BY <2>8, <3>1, <3>2
    <3>4. QED BY <2>2, <3>1, <3>2, <3>3
  <2>9. Members(roster') = Members(roster)
    BY <2>2, <2>3, <2>7 DEF Members
  <2>10. QED BY <2>5, <2>7, <2>8, <2>9
<1>4. QED BY <1>2, <1>3

\* Entries that leave disturb nothing.
LEMMA FewerEntries ==
    ASSUME RosterOrdered, nextJoinSeq' = nextJoinSeq, roster' \subseteq roster,
           SignalingTypeOK
    PROVE  RosterOrdered'
<1> USE SignalingAssumption
<1>1. /\ IsFiniteSet(roster') /\ Cardinality(roster') <= Cardinality(roster)
      /\ Cardinality(roster) \in Nat /\ Cardinality(roster') \in Nat
  BY FS_Subset, FS_CardinalityType DEF RosterOrdered
<1>2. QED BY <1>1 DEF RosterOrdered, RosterWellFormed, SignalingTypeOK

\* Every step of the host's end keeps the roster within its limit, and nicknames
\* and places unique.
LEMMA HostStepOrdered ==
    ASSUME SignalingInv, NEW c \in Peers, HostStep(c)
    PROVE  RosterOrdered'
<1> USE SignalingAssumption
<1>1. SignalingTypeOK /\ RosterOrdered
  BY DEF SignalingInv
<1>2. /\ IsFiniteSet(roster) /\ Cardinality(roster) \in Nat
      /\ Cardinality(roster) <= MaxParticipants
      /\ \A e \in roster : e.joinSeq \in Nat /\ e.joinSeq < nextJoinSeq
      /\ nextJoinSeq \in Nat
      /\ \A e, f \in roster :
            e # f => NicknameOf[e.peer] # NicknameOf[f.peer] /\ e.joinSeq # f.joinSeq
  BY <1>1, FS_CardinalityType DEF SignalingTypeOK, RosterOrdered, RosterWellFormed
<1>3. CASE Admit(c)
  <2>1. CASE ~Admissible(c)
    BY <1>1, <1>3, <2>1, FewerEntries DEF Admit
  <2>2. CASE Admissible(c)
    <3> DEFINE entry == Entry(c, nextJoinSeq, FALSE)
    <3>1. roster' = roster \cup {entry} /\ nextJoinSeq' = nextJoinSeq + 1
      BY <1>3, <2>2 DEF Admit, AdmitJoin
    <3>2. entry.peer = c /\ entry.joinSeq = nextJoinSeq
      BY DEF Entry
    <3>3. Cardinality(roster) < MaxParticipants /\ \A e \in roster : NicknameOf[e.peer] # NicknameOf[c]
      BY <2>2 DEF Admissible
    <3> HIDE DEF entry
    <3>4. IsFiniteSet(roster') /\ Cardinality(roster') <= MaxParticipants
      <4>1. /\ IsFiniteSet(roster \cup {entry})
            /\ Cardinality(roster \cup {entry})
                  \in {Cardinality(roster), Cardinality(roster) + 1}
        BY <1>2, FS_AddElement
      <4>2. QED BY <1>2, <3>1, <3>3, <4>1
    <3>5. \A e \in roster' : e.joinSeq < nextJoinSeq'
      BY <1>2, <3>1, <3>2
    <3>6. ASSUME NEW e \in roster', NEW f \in roster', e # f
          PROVE  NicknameOf[e.peer] # NicknameOf[f.peer] /\ e.joinSeq # f.joinSeq
      BY <1>2, <3>1, <3>2, <3>3, <3>6
    <3>7. QED BY <3>4, <3>5, <3>6 DEF RosterOrdered, RosterWellFormed
  <2>3. QED BY <2>1, <2>2
<1>4. CASE ProbeDone(c)
  <2>1. nextJoinSeq' = nextJoinSeq
    BY <1>4 DEF ProbeDone
  <2>2. IsFiniteSet(roster') /\ Cardinality(roster') <= MaxParticipants
    <3>1. IsFiniteSet(roster') /\ Cardinality(roster') <= Cardinality(roster)
      BY <1>4, ProbeKeepsEntries
    <3>2. Cardinality(roster') \in Nat
      BY <3>1, FS_CardinalityType
    <3>3. QED BY <1>2, <3>1, <3>2
  <2>3. \A e \in roster' : e.joinSeq < nextJoinSeq
    BY <1>2, <1>4, ProbeKeepsEntries
  <2>4. ASSUME NEW e \in roster', NEW f \in roster', e # f
        PROVE  NicknameOf[e.peer] # NicknameOf[f.peer] /\ e.joinSeq # f.joinSeq
    <3>1. PICK a \in roster, b \in roster :
             /\ a # b
             /\ e.peer = a.peer /\ e.joinSeq = a.joinSeq
             /\ f.peer = b.peer /\ f.joinSeq = b.joinSeq
      BY <1>4, <2>4, ProbeKeepsEntries
    <3>2. QED BY <1>2, <3>1
  <2>5. QED BY <2>1, <2>2, <2>3, <2>4 DEF RosterOrdered, RosterWellFormed
<1>5. CASE Bye(c) \/ HeartbeatDead(c) \/ HearClose(c)
  <2>1. roster' \subseteq roster /\ nextJoinSeq' = nextJoinSeq
    BY <1>5 DEF Bye, HeartbeatDead, HearClose, DropLink, PeerGone
  <2>2. QED BY <1>1, <2>1, FewerEntries
<1>6. CASE Accept(c) \/ HandshakeRead(c) \/ Upgrade(c) \/ HandshakeFails(c) \/ JoinRead(c)
           \/ JoinFails(c) \/ Request(c) \/ MediaReply(c) \/ HearCloseEarly(c)
  <2>1. roster' = roster /\ nextJoinSeq' = nextJoinSeq
    BY <1>6 DEF Accept, HandshakeRead, Upgrade, HandshakeFails, JoinRead, JoinFails, Request,
                MediaReply, HearCloseEarly
  <2>2. QED BY <1>1, <2>1, FewerEntries
<1>7. QED
  BY <1>3, <1>4, <1>5, <1>6, HostStep(c) DEF HostStep


\* While the server is open, every step of the host's end keeps the roster equal
\* to the host and its links.
LEMMA HostStepConnected ==
    ASSUME SignalingInv, NEW c \in Peers, HostStep(c)
    PROVE  RosterIsConnected'
<1> USE SignalingAssumption DEF Goto, RosterIsConnected
<1>1. /\ SignalingTypeOK /\ LinksAdmitted /\ ClosedOrMissed /\ RosterIsConnected
      /\ links \subseteq Peers /\ Host \notin Peers /\ phase' = phase
  BY DEF SignalingInv, SignalingTypeOK, HostStep, Accept, HandshakeRead, Upgrade,
         HandshakeFails, JoinRead, JoinFails, Admit, Request, MediaReply, Bye, HeartbeatDead,
         ProbeDone, HearClose, HearCloseEarly
<1> SUFFICES ASSUME phase = "open"
             PROVE  Members(roster)' = links' \cup {Host} /\ links' \cap hClosed' \subseteq early'
  BY <1>1
<1>2. Members(roster) = links \cup {Host} /\ links \cap hClosed \subseteq early
  BY <1>1
<1>3. ASSUME stage[c] # "admitted", UNCHANGED <<roster, links, early>>,
             hClosed' \in {hClosed, hClosed \cup {c}}
      PROVE  Members(roster)' = links' \cup {Host} /\ links' \cap hClosed' \subseteq early'
  <2>1. c \notin links
    BY <1>1, <1>3 DEF LinksAdmitted
  <2>2. QED BY <1>2, <1>3, <2>1 DEF Members
<1>4. ASSUME c \in Peers, roster' = {e \in roster : e.peer # c}, links' = links \ {c},
             early' = early, hClosed' \in {hClosed, hClosed \cup {c}}
      PROVE  Members(roster)' = links' \cup {Host} /\ links' \cap hClosed' \subseteq early'
  <2>1. Members(roster') = Members(roster) \ {c}
    BY <1>4 DEF Members
  <2>2. QED BY <1>1, <1>2, <1>4, <2>1
<1>5. CASE Accept(c) \/ HandshakeRead(c) \/ Upgrade(c) \/ HandshakeFails(c) \/ JoinRead(c)
           \/ JoinFails(c)
  <2>1. /\ stage[c] # "admitted" /\ UNCHANGED <<roster, links, early>>
        /\ hClosed' \in {hClosed, hClosed \cup {c}}
    BY <1>5 DEF Accept, Refuse, HandshakeRead, Upgrade, HandshakeFails, JoinRead, JoinFails, HangUp
  <2>2. QED BY <1>3, <2>1
<1>6. CASE Admit(c)
  <2>1. CASE ~Admissible(c)
    <3>1. /\ stage[c] # "admitted" /\ UNCHANGED <<roster, links, early>>
          /\ hClosed' \in {hClosed, hClosed \cup {c}}
      BY <1>6, <2>1 DEF Admit, HangUp
    <3>2. QED BY <1>3, <3>1
  <2>2. CASE Admissible(c)
    <3> DEFINE entry == Entry(c, nextJoinSeq, FALSE)
    <3>1. /\ roster' = roster \cup {entry} /\ links' = links \cup {c}
          /\ hClosed' = hClosed /\ early' = early /\ stage[c] = "admitting"
      BY <1>6, <2>2 DEF Admit, AdmitJoin
    <3>2. Members(roster') = Members(roster) \cup {c}
      <4>1. entry.peer = c
        BY DEF Entry
      <4> HIDE DEF entry
      <4>2. QED BY <3>1, <4>1 DEF Members
    <3>3. c \in hClosed => c \in early
      BY <1>1, <3>1 DEF ClosedOrMissed, Up
    <3>4. QED BY <1>2, <3>1, <3>2, <3>3
  <2>3. QED BY <2>1, <2>2
<1>7. CASE ProbeDone(c)
  <2>1. Members(roster') = Members(roster)
    BY <1>7, ProbeKeepsEntries
  <2>2. QED BY <1>2, <1>7, <2>1 DEF ProbeDone
<1>8. CASE Bye(c) \/ HeartbeatDead(c)
  <2>1. CASE c \notin hClosed
    <3>1. /\ roster' = {e \in roster : e.peer # c} /\ links' = links \ {c} /\ early' = early
          /\ hClosed' = hClosed \cup {c}
      BY <1>8, <2>1 DEF Bye, HeartbeatDead, DropLink, PeerGone, HangUp
    <3>2. QED BY <1>4, <3>1
  <2>2. CASE c \in hClosed
    <3>1. UNCHANGED <<roster, links, early, hClosed>>
      BY <1>8, <2>2 DEF Bye, HeartbeatDead
    <3>2. QED BY <1>2, <3>1 DEF Members
  <2>3. QED BY <2>1, <2>2
<1>9. CASE HearClose(c)
  <2>1. CASE stage[c] = "admitted"
    BY <1>4, <1>9, <2>1 DEF HearClose, PeerGone
  <2>2. CASE stage[c] # "admitted"
    BY <1>3, <1>9, <2>2 DEF HearClose
  <2>3. QED BY <2>1, <2>2
<1>10. CASE Request(c) \/ MediaReply(c)
  <2>1. UNCHANGED <<roster, links, early, hClosed>>
    BY <1>10 DEF Request, MediaReply
  <2>2. QED BY <1>2, <2>1 DEF Members
<1>11. CASE HearCloseEarly(c)
  <2>1. /\ UNCHANGED <<roster, links>> /\ early' = early \cup {c}
        /\ hClosed' = hClosed \cup {c}
    BY <1>11 DEF HearCloseEarly
  <2>2. QED BY <1>2, <2>1 DEF Members
<1>12. QED
  BY <1>5, <1>6, <1>7, <1>8, <1>9, <1>10, <1>11, HostStep(c) DEF HostStep

(***************************************************************************)
(* The end of the server, and every step together.                         *)
(***************************************************************************)

\* Ending the server, in any of its ways, keeps the invariant.
LEMMA EndStep ==
    ASSUME SignalingInv, TransferHost \/ CloseForHandoff \/ CloseServer \/ Crash
    PROVE  SignalingInv'
<1> USE SignalingAssumption DEF clients
<1>1. /\ SignalingTypeOK /\ SlotsHeld /\ RosterOrdered /\ LinksAdmitted /\ ClosedOrMissed
      /\ RosterIsConnected
  BY DEF SignalingInv
<1>2. /\ UNCHANGED <<stage, roster, nextJoinSeq, activeHandshakes, probing, replying, client,
                     requests, early>>
      /\ phase' \in {"transferring", "handed", "closed"}
      /\ links' \in {links, {}} /\ beating' = {}
      /\ \/ hClosed' = hClosed /\ phase \in {"open", "transferring"}
         \/ hClosed' = Peers /\ phase' = "closed"
  BY DEF TransferHost, CloseForHandoff, CloseServer, Crash, Shut
<1>3. SignalingTypeOK'
  BY <1>1, <1>2 DEF SignalingTypeOK
<1>4. SlotsHeld' /\ LinksAdmitted' /\ RosterIsConnected'
  BY <1>1, <1>2 DEF SlotsHeld, InHandshake, LinksAdmitted, RosterIsConnected
<1>5. RosterOrdered'
  BY <1>1, <1>2, FewerEntries
<1>6. ClosedOrMissed'
  BY <1>1, <1>2 DEF ClosedOrMissed, Up
<1>7. QED BY <1>3, <1>4, <1>5, <1>6 DEF SignalingInv

\* Every step keeps the invariant.
LEMMA SignalingStep ==
    ASSUME SignalingInv, [SignalingNext]_signalingVars
    PROVE  SignalingInv'
<1>1. ASSUME NEW c \in Peers, HostStep(c) PROVE SignalingInv'
  <2>1. SlotsHeld'
    BY <1>1, HostStepSlots
  <2>2. SignalingTypeOK' /\ RosterOrdered' /\ LinksAdmitted'
    BY <1>1, HostStepTyped, HostStepOrdered, HostStepLinks
  <2>3. ClosedOrMissed' /\ RosterIsConnected'
    BY <1>1, HostStepCloses, HostStepConnected
  <2>4. QED BY <2>1, <2>2, <2>3 DEF SignalingInv
<1>2. ASSUME NEW c \in Peers, ClientStep(c) PROVE SignalingInv'
  <2>1. /\ UNCHANGED <<server, early>>
        /\ client' \in [Peers -> ClientStates] /\ requests' \in 0..MaxRequests
    BY <1>2, ClientStepFrame DEF SignalingInv
  <2>2. QED BY <2>1, ServerUnchanged
<1>3. CASE UNCHANGED signalingVars
  <2>1. /\ UNCHANGED <<server, early>>
        /\ client' \in [Peers -> ClientStates] /\ requests' \in 0..MaxRequests
    BY <1>3 DEF signalingVars, clients, SignalingInv, SignalingTypeOK
  <2>2. QED BY <2>1, ServerUnchanged
<1>4. QED BY <1>1, <1>2, <1>3, EndStep DEF SignalingNext

(***************************************************************************)
(* The theorems.                                                           *)
(***************************************************************************)

\* The inductive invariant holds throughout.
THEOREM InvariantHolds == SignalingSpec => []SignalingInv
  BY InitHolds, SignalingStep, PTL DEF SignalingSpec

\* Every variable of the server keeps its type; in particular #activeHandshakes
\* never becomes negative, on whichever way a handshake ends.
THEOREM SignalingTyped == SignalingSpec => []SignalingTypeOK
<1>1. SignalingInv => SignalingTypeOK
  BY DEF SignalingInv
<1>2. QED BY <1>1, InvariantHolds, PTL

\* #activeHandshakes is the number of handshakes that run, and within its limit.
THEOREM SlotsAreCounted == SignalingSpec => []SlotsCounted
<1>1. SignalingInv => SlotsCounted
  BY DEF SignalingInv, SlotsHeld, SlotsCounted, InHandshake
<1>2. QED BY <1>1, InvariantHolds, PTL

\* The room never exceeds maxParticipants, nor do two of its participants share a
\* nickname or a joinSeq.
THEOREM RosterStaysWellFormed == SignalingSpec => []RosterWellFormed
<1>1. SignalingInv => RosterWellFormed
  BY DEF SignalingInv, RosterOrdered
<1>2. QED BY <1>1, InvariantHolds, PTL

\* While the server is open its roster is the host and its links, and a link whose
\* connection is closed is one whose close came while #admit was about to wake.
THEOREM RosterStaysConnected == SignalingSpec => []RosterIsConnected
<1>1. SignalingInv => RosterIsConnected
  BY DEF SignalingInv
<1>2. QED BY <1>1, InvariantHolds, PTL

(***************************************************************************)
(* Snapshots.  A roster lists its entries by joinSeq, whatever the order they*)
(* are sorted from.                                                        *)
(***************************************************************************)

\* The entries of a roster, each once, by joinSeq.
Listing(q, entries) ==
    /\ q \in Seq(entries)
    /\ ToSet(q) = entries
    /\ \A i, j \in DOMAIN q : i < j => q[i].joinSeq < q[j].joinSeq

\* joinSeq is a number.
Numbered(entries) == \A e \in entries : e.joinSeq \in Nat

\* A listing gives each entry one place.
LEMMA ListingCounts ==
    ASSUME NEW R, Numbered(R), NEW L, Listing(L, R)
    PROVE  /\ IsFiniteSet(R) /\ Cardinality(R) = Len(L)
           /\ L \in [1..Len(L) -> R]
           /\ \A i, j \in 1..Len(L) : L[i] = L[j] => i = j
           /\ \A e \in R : \E i \in 1..Len(L) : L[i] = e
           /\ \A i, j \in 1..Len(L) : L[i].joinSeq <= L[j].joinSeq <=> i <= j
<1>1. Len(L) \in Nat /\ DOMAIN L = 1..Len(L) /\ L \in [1..Len(L) -> R]
  BY DEF Listing
<1>2. \A i \in 1..Len(L) : L[i] \in R /\ L[i].joinSeq \in Nat
  BY <1>1 DEF Numbered
<1>3. \A i, j \in 1..Len(L) : i < j => L[i].joinSeq < L[j].joinSeq
  BY <1>1 DEF Listing
<1>4. \A i, j \in 1..Len(L) : L[i].joinSeq <= L[j].joinSeq <=> i <= j
  <2>1. TAKE i, j \in 1..Len(L)
  <2>2. i \in Nat /\ j \in Nat /\ L[i].joinSeq \in Nat /\ L[j].joinSeq \in Nat
    BY <1>1, <1>2
  <2>3. (i < j => L[i].joinSeq < L[j].joinSeq) /\ (j < i => L[j].joinSeq < L[i].joinSeq)
    BY <1>3
  <2>4. i = j => L[i].joinSeq = L[j].joinSeq
    OBVIOUS
  <2> QED
    BY <2>2, <2>3, <2>4
<1>5. \A i, j \in 1..Len(L) : L[i] = L[j] => i = j
  <2>1. TAKE i, j \in 1..Len(L)
  <2>2. HAVE L[i] = L[j]
  <2>3. i \in Nat /\ j \in Nat /\ L[i].joinSeq \in Nat
    BY <1>1, <1>2
  <2>4. L[i].joinSeq <= L[j].joinSeq /\ L[j].joinSeq <= L[i].joinSeq
    BY <2>2, <2>3
  <2>5. i <= j /\ j <= i
    BY <1>4, <2>4
  <2> QED
    BY <2>3, <2>5
<1>6. \A e \in R : \E i \in 1..Len(L) : L[i] = e
  BY <1>1 DEF Listing, ToSet
<1>7. L \in Bijection(1..Len(L), R)
  BY <1>1, <1>5, <1>6 DEF Bijection, Injection, Surjection, IsInjective
<1>8. IsFiniteSet(1..Len(L)) /\ Cardinality(1..Len(L)) = Len(L)
  BY <1>1, FS_Interval
<1>9. ExistsBijection(1..Len(L), R)
  BY <1>7 DEF ExistsBijection
<1>10. IsFiniteSet(R) /\ Cardinality(R) = Len(L)
  BY <1>8, <1>9, FS_Bijection
<1> QED
  BY <1>1, <1>4, <1>5, <1>6, <1>10

\* sort gives the listing, whatever the order of the entries was.
LEMMA SortLists ==
    ASSUME NEW R, Numbered(R), NEW L, Listing(L, R),
           NEW q \in [1..Len(L) -> R], \A i, j \in 1..Len(L) : q[i] = q[j] => i = j
    PROVE  ByJoinSeq(q) = L
<1> DEFINE n == Len(L)
           at == [i \in 1..n |-> CHOOSE k \in 1..n : L[k] = q[i]]
<1>1. n \in Nat /\ IsFiniteSet(R) /\ Cardinality(R) = n /\ L \in [1..n -> R]
  BY ListingCounts DEF Listing
<1>2. \A i \in 1..n : at[i] \in 1..n /\ L[at[i]] = q[i]
  BY ListingCounts
<1> HIDE DEF at, n
<1>3. \A i, j \in 1..n : at[i] = at[j] => i = j
  BY <1>2 DEF n
<1>4. IsFiniteSet(1..n) /\ Cardinality(1..n) = n
  BY <1>1, FS_Interval
<1>5. \A k \in 1..n : \E i \in 1..n : at[i] = k
  <2>1. at \in [1..n -> 1..n]
    BY <1>2 DEF at
  <2>2. at \in Injection(1..n, 1..n)
    BY <1>3, <2>1 DEF Injection, IsInjective
  <2>3. at \in Surjection(1..n, 1..n)
    BY <1>4, <2>2, FS_Injection
  <2> QED
    BY <2>3 DEF Surjection
<1>6. \A i \in 1..n : PlaceOf(q, i) = at[i]
  <2>1. TAKE i \in 1..n
  <2>2. DOMAIN q = 1..n
    BY DEF n
  <2> DEFINE below == {j \in 1..n : \/ q[j].joinSeq < q[i].joinSeq
                                    \/ q[j].joinSeq = q[i].joinSeq /\ j <= i}
  <2>3. \A j \in 1..n : j \in below <=> at[j] <= at[i]
    <3>1. TAKE j \in 1..n
    <3>2. L[at[j]].joinSeq <= L[at[i]].joinSeq <=> at[j] <= at[i]
      BY <1>2, ListingCounts DEF n
    <3>3. L[at[i]].joinSeq <= L[at[j]].joinSeq <=> at[i] <= at[j]
      BY <1>2, ListingCounts DEF n
    <3>4. q[j].joinSeq \in Nat /\ q[i].joinSeq \in Nat
      BY DEF Numbered, n
    <3>5. q[j].joinSeq <= q[i].joinSeq <=> at[j] <= at[i]
      BY <1>2, <3>2
    <3>6. q[i].joinSeq <= q[j].joinSeq <=> at[i] <= at[j]
      BY <1>2, <3>3
    <3>7. i \in Nat /\ j \in Nat /\ at[i] \in Nat /\ at[j] \in Nat
      BY <1>1, <1>2
    <3>8. q[j].joinSeq = q[i].joinSeq => j = i
      BY <1>3, <3>4, <3>5, <3>6, <3>7
    <3>9. j \in below <=> q[j].joinSeq <= q[i].joinSeq
      BY <3>4, <3>7, <3>8
    <3> QED
      BY <3>5, <3>9
  <2>4. below \subseteq 1..n /\ IsFiniteSet(below)
    BY <1>4, FS_Subset
  <2> HIDE DEF below
  <2> DEFINE g == [j \in below |-> at[j]]
  <2>5. at[i] \in 1..n /\ at[i] \in Nat
    BY <1>1, <1>2
  <2>6. g \in [below -> 1..at[i]]
    <3>1. ASSUME NEW j \in below PROVE at[j] \in 1..at[i]
      <4>1. j \in 1..n /\ at[j] \in 1..n /\ at[j] <= at[i]
        BY <1>2, <2>3, <2>4
      <4> QED
        BY <1>1, <2>5, <4>1
    <3> QED
      BY <3>1
  <2>7. \A j, k \in below : g[j] = g[k] => j = k
    BY <1>3, <2>4
  <2>8. \A k \in 1..at[i] : \E j \in below : g[j] = k
    <3>1. TAKE k \in 1..at[i]
    <3>2. k \in 1..n /\ k <= at[i]
      BY <1>1, <2>5
    <3>3. PICK j \in 1..n : at[j] = k
      BY <1>5, <3>2
    <3>4. j \in below
      BY <2>3, <3>2, <3>3
    <3> QED
      BY <3>3, <3>4
  <2>9. g \in Bijection(below, 1..at[i])
    <3> HIDE DEF g
    <3> QED
      BY <2>6, <2>7, <2>8 DEF Bijection, Injection, Surjection, IsInjective
  <2>10. Cardinality(1..at[i]) = Cardinality(below)
    BY <2>4, <2>9, FS_Bijection DEF ExistsBijection
  <2>11. Cardinality(1..at[i]) = at[i]
    <3>1. \A m \in Nat : Cardinality(1..m) = m
      <4> HIDE DEF g
      <4> QED
        BY FS_Interval
    <3> QED
      BY <2>5, <3>1
  <2>12. PlaceOf(q, i) = Cardinality(below)
    BY <2>2 DEF PlaceOf, below
  <2> QED
    BY <2>10, <2>11, <2>12
<1>7. \A k \in 1..n : q[CHOOSE i \in 1..n : PlaceOf(q, i) = k] = L[k]
  <2>1. TAKE k \in 1..n
  <2>2. \E i \in 1..n : PlaceOf(q, i) = k
    BY <1>5, <1>6
  <2> DEFINE i == CHOOSE i \in 1..n : PlaceOf(q, i) = k
  <2>3. i \in 1..n /\ PlaceOf(q, i) = k
    BY <2>2
  <2> HIDE DEF i
  <2>4. q[i] = L[k]
    BY <1>2, <1>6, <2>3
  <2> QED
    BY <2>4 DEF i
<1>8. ByJoinSeq(q) = [k \in 1..n |-> L[k]]
  <2>1. DOMAIN q = 1..n
    BY DEF n
  <2>2. q \in {q}
    OBVIOUS
  <2>3. ByJoinSeq(q) = [k \in DOMAIN q |-> q[CHOOSE i \in DOMAIN q : PlaceOf(q, i) = k]]
    BY <2>2, Zenon DEF ByJoinSeq
  <2> QED
    BY <1>7, <2>1, <2>3
<1> QED
  BY <1>1, <1>8

\* sort leaves a listing as it is.
LEMMA SortedStays ==
    ASSUME NEW R, Numbered(R), NEW L, Listing(L, R)
    PROVE  ByJoinSeq(L) = L
  BY ListingCounts, SortLists

\* The snapshot is the listing.
LEMMA SnapshotLists ==
    ASSUME NEW R, Numbered(R), NEW L, Listing(L, R)
    PROVE  Snapshot(R) = L
<1>1. L \in [1..Cardinality(R) -> R] /\ IsInjective(L)
  BY ListingCounts DEF IsInjective
<1>2. SetToSeq(R) \in [1..Cardinality(R) -> R] /\ IsInjective(SetToSeq(R))
  BY <1>1 DEF SetToSeq
<1>3. SetToSeq(R) \in [1..Len(L) -> R]
  BY <1>2, ListingCounts
<1>4. \A i, j \in 1..Len(L) : SetToSeq(R)[i] = SetToSeq(R)[j] => i = j
  BY <1>2, <1>3 DEF IsInjective
<1> QED
  BY <1>3, <1>4, SortLists DEF Snapshot

(***************************************************************************)
(* What is on its way to a client, message by message.                     *)
(***************************************************************************)

\* The recursion of Foreseen, up to a message.
Foreseeing(f, last, view, queue) ==
    f = [n \in 0..last |-> IF n = 0 THEN view ELSE Pending(f[n - 1], queue[n])]

\* What is foreseen is reached message by message.
LEMMA Foresees ==
    ASSUME NEW view, NEW V, NEW queue \in Seq(V)
    PROVE  \E f : /\ f[0] = view
                  /\ \A i \in 0..(Len(queue) - 1) : f[i + 1] = Pending(f[i], queue[i + 1])
                  /\ Foreseen(view, queue) = f[Len(queue)]
<1> DEFINE n == Len(queue)
           S == {k \in 0..n : \E f : Foreseeing(f, k, view, queue)}
<1>1. n \in Nat
  OBVIOUS
<1> HIDE DEF n
<1>2. 0 \in S
  <2> DEFINE f == [i \in 0..0 |-> view]
  <2>1. ASSUME NEW i \in 0..0 PROVE f[i] = IF i = 0 THEN view ELSE Pending(f[i - 1], queue[i])
    OBVIOUS
  <2>2. Foreseeing(f, 0, view, queue)
    BY <2>1 DEF Foreseeing
  <2>3. 0 \in 0..n
    BY <1>1
  <2> HIDE DEF f
  <2> QED
    BY <2>2, <2>3
<1>3. ASSUME NEW k \in 0..(n - 1), k \in S PROVE k + 1 \in S
  <2>5. PICK f : Foreseeing(f, k, view, queue)
    BY <1>3
  <2>1. f = [i \in 0..k |-> IF i = 0 THEN view ELSE Pending(f[i - 1], queue[i])]
    BY <2>5 DEF Foreseeing
  <2> DEFINE g == [i \in 0..(k + 1) |-> IF i <= k THEN f[i] ELSE Pending(f[k], queue[k + 1])]
  <2>2. ASSUME NEW i \in 0..(k + 1)
        PROVE  g[i] = IF i = 0 THEN view ELSE Pending(g[i - 1], queue[i])
    <3>1. CASE i = 0
      <4>1. f[0] = view
        BY <1>1, <2>1
      <4> QED
        BY <1>1, <3>1, <4>1
    <3>2. CASE i # 0 /\ i <= k
      <4>1. f[i] = Pending(f[i - 1], queue[i])
        BY <1>1, <2>1, <3>2
      <4>2. g[i] = f[i] /\ g[i - 1] = f[i - 1]
        BY <1>1, <3>2
      <4> QED
        BY <3>2, <4>1, <4>2
    <3>3. CASE i = k + 1
      <4>1. g[i] = Pending(f[k], queue[k + 1]) /\ g[i - 1] = f[k] /\ i # 0
        BY <1>1, <3>3
      <4> QED
        BY <3>3, <4>1
    <3> QED
      BY <1>1, <3>1, <3>2, <3>3
  <2>3. Foreseeing(g, k + 1, view, queue)
    BY <2>2 DEF Foreseeing
  <2>4. k + 1 \in 0..n
    BY <1>1
  <2> HIDE DEF g
  <2> QED
    BY <2>3, <2>4
<1>4. n \in S
  <2> HIDE DEF S
  <2> QED
    BY <1>1, <1>2, <1>3, Reaching
<1>5. \E f : Foreseeing(f, n, view, queue)
  BY <1>4
<1> DEFINE seen == CHOOSE f : Foreseeing(f, n, view, queue)
<1>6. Foreseeing(seen, n, view, queue)
  BY <1>5
<1>7. Foreseen(view, queue) = seen[n]
  BY DEF Foreseen, Foreseeing, n
<1> HIDE DEF seen
<1>8. seen[0] = view
  BY <1>1, <1>6 DEF Foreseeing, n
<1>9. ASSUME NEW i \in 0..(n - 1) PROVE seen[i + 1] = Pending(seen[i], queue[i + 1])
  <2>1. i + 1 \in 0..n /\ i + 1 # 0 /\ (i + 1) - 1 = i
    BY <1>1
  <2> QED
    BY <1>6, <2>1 DEF Foreseeing, n
<1> QED
  BY <1>7, <1>8, <1>9 DEF n

\* Nothing more is foreseen of an empty queue.
LEMMA ForeseenNone == ASSUME NEW view PROVE Foreseen(view, <<>>) = view
<1>1. <<>> \in Seq({}) /\ Len(<<>>) = 0
  OBVIOUS
<1>2. \A V, q : q \in Seq(V) /\ Len(q) = 0 => Foreseen(view, q) = view
  <2>1. TAKE V, q
  <2>2. HAVE q \in Seq(V) /\ Len(q) = 0
  <2>3. PICK f : /\ f[0] = view
                 /\ \A i \in 0..(Len(q) - 1) : f[i + 1] = Pending(f[i], q[i + 1])
                 /\ Foreseen(view, q) = f[Len(q)]
    BY <2>2, Foresees
  <2> QED
    BY <2>2, <2>3
<1> QED
  BY <1>1, <1>2

\* One more message is taken last.
LEMMA ForeseenOneMore ==
    ASSUME NEW view, NEW V, NEW queue \in Seq(V), NEW m
    PROVE  Foreseen(view, Append(queue, m)) = Pending(Foreseen(view, queue), m)
<1> DEFINE more == Append(queue, m)
           n == Len(queue)
<1>1. n \in Nat /\ Len(more) = n + 1 /\ more[n + 1] = m /\ \A i \in 1..n : more[i] = queue[i]
  OBVIOUS
<1>2. more \in Seq(V \cup {m})
  <2>1. queue \in Seq(V \cup {m}) /\ m \in V \cup {m}
    OBVIOUS
  <2> QED
    BY <2>1
<1> HIDE DEF more, n
<1>3. PICK f : /\ f[0] = view /\ Foreseen(view, queue) = f[n]
               /\ \A i \in 0..(n - 1) : f[i + 1] = Pending(f[i], queue[i + 1])
  BY Foresees DEF n
<1>4. PICK g : /\ g[0] = view /\ Foreseen(view, more) = g[n + 1]
               /\ \A i \in 0..((n + 1) - 1) : g[i + 1] = Pending(g[i], more[i + 1])
  <2>1. PICK g : /\ g[0] = view /\ Foreseen(view, more) = g[Len(more)]
                 /\ \A i \in 0..(Len(more) - 1) : g[i + 1] = Pending(g[i], more[i + 1])
    BY <1>2, Foresees
  <2> QED
    BY <1>1, <2>1
<1> DEFINE S == {i \in 0..n : g[i] = f[i]}
<1>5. 0 \in S
  BY <1>1, <1>3, <1>4
<1>6. ASSUME NEW i \in 0..(n - 1), i \in S PROVE i + 1 \in S
  <2>1. i + 1 \in 1..n /\ i + 1 \in 0..n /\ i \in 0..((n + 1) - 1) /\ g[i] = f[i]
    BY <1>1, <1>6
  <2>2. g[i + 1] = Pending(g[i], more[i + 1]) /\ f[i + 1] = Pending(f[i], queue[i + 1])
    BY <1>3, <1>4, <2>1
  <2>3. more[i + 1] = queue[i + 1]
    BY <1>1, <2>1
  <2>4. g[i + 1] = f[i + 1]
    BY <2>1, <2>2, <2>3
  <2> QED
    BY <2>1, <2>4
<1>7. n \in S
  <2> HIDE DEF S
  <2> QED
    BY <1>1, <1>5, <1>6, Reaching
<1>8. g[n] = f[n]
  BY <1>7
<1>9. n \in 0..((n + 1) - 1)
  BY <1>1
<1>10. g[n + 1] = Pending(g[n], more[n + 1])
  BY <1>4, <1>9
<1> QED
  BY <1>1, <1>3, <1>4, <1>8, <1>10 DEF more

\* A message that is taken from the queue is as good as foreseen.
LEMMA ForeseenTaken ==
    ASSUME NEW view, NEW V, NEW queue \in Seq(V), queue # <<>>
    PROVE  Foreseen(view, queue) = Foreseen(Pending(view, Head(queue)), Tail(queue))
<1> DEFINE rest == Tail(queue)
           n == Len(rest)
           first == Pending(view, Head(queue))
<1>1. /\ n \in Nat /\ Len(queue) = n + 1 /\ rest \in Seq(V) /\ Head(queue) = queue[1]
      /\ \A i \in 1..n : rest[i] = queue[i + 1]
  OBVIOUS
<1> HIDE DEF rest, n
<1>2. PICK f : /\ f[0] = view /\ Foreseen(view, queue) = f[n + 1]
               /\ \A i \in 0..((n + 1) - 1) : f[i + 1] = Pending(f[i], queue[i + 1])
  <2>1. PICK f : /\ f[0] = view /\ Foreseen(view, queue) = f[Len(queue)]
                 /\ \A i \in 0..(Len(queue) - 1) : f[i + 1] = Pending(f[i], queue[i + 1])
    BY Foresees
  <2> QED
    BY <1>1, <2>1
<1>3. PICK g : /\ g[0] = first /\ Foreseen(first, rest) = g[n]
               /\ \A i \in 0..(n - 1) : g[i + 1] = Pending(g[i], rest[i + 1])
  <2>1. rest \in Seq(V)
    BY <1>1
  <2> HIDE DEF first
  <2>2. PICK g : /\ g[0] = first /\ Foreseen(first, rest) = g[Len(rest)]
                 /\ \A i \in 0..(Len(rest) - 1) : g[i + 1] = Pending(g[i], rest[i + 1])
    BY <2>1, Foresees
  <2> QED
    BY <2>2 DEF n
<1> DEFINE S == {i \in 0..n : f[i + 1] = g[i]}
<1>4. 0 \in S
  <2>1. f[0 + 1] = Pending(f[0], queue[0 + 1])
    <3>1. 0 \in 0..((n + 1) - 1)
      BY <1>1
    <3> QED
      BY <1>2, <3>1
  <2>2. f[0 + 1] = g[0]
    BY <1>1, <1>2, <1>3, <2>1
  <2> QED
    BY <1>1, <2>2
<1>5. ASSUME NEW i \in 0..(n - 1), i \in S PROVE i + 1 \in S
  <2>1. i + 1 \in 1..n /\ i + 1 \in 0..n /\ i + 1 \in 0..((n + 1) - 1) /\ f[i + 1] = g[i]
    BY <1>1, <1>5
  <2>2. f[i + 1 + 1] = Pending(f[i + 1], queue[i + 1 + 1]) /\ g[i + 1] = Pending(g[i], rest[i + 1])
    BY <1>2, <1>3, <2>1
  <2>3. rest[i + 1] = queue[i + 1 + 1]
    BY <1>1, <2>1
  <2>4. f[i + 1 + 1] = g[i + 1]
    BY <2>1, <2>2, <2>3
  <2> QED
    BY <2>1, <2>4
<1>6. n \in S
  <2> HIDE DEF S
  <2> QED
    BY <1>1, <1>4, <1>5, Reaching
<1>7. f[n + 1] = g[n]
  BY <1>6
<1> QED
  BY <1>2, <1>3, <1>7 DEF rest

(***************************************************************************)
(* What a roster_update makes of a snapshot: the snapshot of the new roster.*)
(***************************************************************************)

\* The filter of a listing lists what it keeps.
LEMMA KeptLists ==
    ASSUME NEW R, Numbered(R), NEW L, Listing(L, R), NEW removed
    PROVE  Listing(Kept(L, removed), {e \in R : e.peer \notin removed})
<1> DEFINE n == Len(L)
           stays == {e \in R : e.peer \notin removed}
           Filters(f) ==
               f = [i \in 0..n |-> IF i = 0 THEN <<>>
                                   ELSE IF L[i].peer \in removed THEN f[i - 1]
                                   ELSE Append(f[i - 1], L[i])]
           step == [p \in (1..n) \X Seq(R) |->
                       IF L[p[1]].peer \in removed THEN p[2] ELSE Append(p[2], L[p[1]])]
<1>1. n \in Nat /\ DOMAIN L = 1..n /\ <<>> \in Seq(R) /\ L \in [1..n -> R]
  BY DEF Listing
<1>2. step \in [(1..n) \X Seq(R) -> Seq(R)]
  <2> HIDE DEF n
  <2>1. \A i \in 1..n : L[i] \in R
    BY <1>1
  <2> QED
    BY <2>1
<1>3. PICK f0 \in [0..n -> Seq(R)] : Iteration(f0, n, <<>>, step)
  <2> HIDE DEF step, n
  <2> QED
    BY <1>1, <1>2, Iterates
<1>4. Filters(f0)
  <2>1. ASSUME NEW i \in 0..n
        PROVE  f0[i] = IF i = 0 THEN <<>>
                       ELSE IF L[i].peer \in removed THEN f0[i - 1] ELSE Append(f0[i - 1], L[i])
    <3>1. f0[i] = IF i = 0 THEN <<>> ELSE step[<<i, f0[i - 1]>>]
      <4> HIDE DEF step, n
      <4> QED
        BY <1>3 DEF Iteration
    <3>2. i # 0 => <<i, f0[i - 1]>> \in (1..n) \X Seq(R)
      <4> HIDE DEF step, n
      <4> QED
        BY <1>1
    <3> QED
      BY <3>1, <3>2
  <2>2. f0 = [i \in 0..n |-> f0[i]]
    OBVIOUS
  <2> HIDE DEF n
  <2> QED
    BY <2>1, <2>2
<1> DEFINE f == CHOOSE g : Filters(g)
<1>5. Filters(f)
  BY <1>4
<1>6. Kept(L, removed) = f[n]
  BY DEF Kept
<1> HIDE DEF f, n
<1>7. f[0] = <<>>
  BY <1>1, <1>5
<1>8. ASSUME NEW i \in 0..(n - 1)
      PROVE  f[i + 1] = IF L[i + 1].peer \in removed THEN f[i] ELSE Append(f[i], L[i + 1])
  <2>1. i + 1 \in 0..n /\ i + 1 # 0 /\ (i + 1) - 1 = i
    BY <1>1
  <2> QED
    BY <1>5, <2>1
<1> HIDE DEF Filters, step
<1> DEFINE Good(i) ==
               /\ f[i] \in Seq(stays)
               /\ \A j \in 1..i : L[j].peer \notin removed => \E k \in DOMAIN f[i] : f[i][k] = L[j]
               /\ \A k \in DOMAIN f[i] : \E j \in 1..i : f[i][k] = L[j]
               /\ \A j, k \in DOMAIN f[i] : j < k => f[i][j].joinSeq < f[i][k].joinSeq
           S == {i \in 0..n : Good(i)}
<1>9. 0 \in S
  <2>1. Good(0)
    BY <1>7
  <2> QED
    BY <1>1, <2>1
<1>10. ASSUME NEW i \in 0..(n - 1), i \in S PROVE i + 1 \in S
  <2>1. i + 1 \in 1..n /\ i + 1 \in 0..n /\ L[i + 1] \in R /\ i \in Nat /\ Good(i)
        /\ (\A j \in 1..(i + 1) : j \in 1..i \/ j = i + 1)
        /\ \A j \in 1..i : j \in 1..(i + 1) /\ j \in 1..n /\ j < i + 1
    BY <1>1, <1>10
  <2>2. Good(i + 1)
    <3> DEFINE s == f[i]
               t == f[i + 1]
    <3>1. s \in Seq(stays)
      BY <2>1
    <3>2. \A j \in 1..i : L[j].peer \notin removed => \E k \in DOMAIN s : s[k] = L[j]
      BY <2>1
    <3>3. \A k \in DOMAIN s : \E j \in 1..i : s[k] = L[j]
      BY <2>1
    <3>4. \A j, k \in DOMAIN s : j < k => s[j].joinSeq < s[k].joinSeq
      BY <2>1
    <3>5. t = IF L[i + 1].peer \in removed THEN s ELSE Append(s, L[i + 1])
      BY <1>8
    <3> HIDE DEF s, t, Good
    <3>6. CASE L[i + 1].peer \in removed
      <4>1. t = s
        BY <3>5, <3>6
      <4>2. \A j \in 1..(i + 1) : L[j].peer \notin removed => \E k \in DOMAIN s : s[k] = L[j]
        BY <2>1, <3>2, <3>6
      <4>3. \A k \in DOMAIN s : \E j \in 1..(i + 1) : s[k] = L[j]
        BY <2>1, <3>3
      <4> QED
        BY <4>1, <4>2, <4>3, <3>1, <3>4 DEF Good, t
    <3>7. CASE L[i + 1].peer \notin removed
      <4> DEFINE x == L[i + 1]
      <4>1. t = Append(s, x) /\ x \in stays
        BY <2>1, <3>5, <3>7
      <4> HIDE DEF x, stays
      <4>2. /\ t \in Seq(stays) /\ Len(s) \in Nat /\ DOMAIN s = 1..Len(s)
            /\ DOMAIN t = 1..(Len(s) + 1) /\ t[Len(s) + 1] = x
            /\ \A k \in DOMAIN s : t[k] = s[k] /\ k \in DOMAIN t
            /\ \A k \in DOMAIN t : k \in DOMAIN s \/ k = Len(s) + 1
            /\ Len(s) + 1 \in DOMAIN t
        BY <3>1, <4>1
      <4>3. \A j \in 1..(i + 1) : L[j].peer \notin removed => \E k \in DOMAIN t : t[k] = L[j]
        <5>1. TAKE j \in 1..(i + 1)
        <5>2. HAVE L[j].peer \notin removed
        <5>3. CASE j = i + 1
          BY <4>2, <5>3 DEF x
        <5>4. CASE j \in 1..i
          <6>1. PICK k \in DOMAIN s : s[k] = L[j]
            BY <3>2, <5>2, <5>4
          <6> QED
            BY <4>2, <6>1
        <5> QED
          BY <2>1, <5>3, <5>4
      <4>4. \A k \in DOMAIN t : \E j \in 1..(i + 1) : t[k] = L[j]
        <5>1. TAKE k \in DOMAIN t
        <5>2. CASE k = Len(s) + 1
          <6>1. t[k] = L[i + 1] /\ i + 1 \in 1..(i + 1)
            BY <2>1, <4>2, <5>2 DEF x
          <6> QED
            BY <6>1
        <5>3. CASE k \in DOMAIN s
          <6>1. PICK j \in 1..i : s[k] = L[j]
            BY <3>3, <5>3
          <6> QED
            BY <2>1, <4>2, <5>3, <6>1
        <5> QED
          BY <4>2, <5>2, <5>3
      <4>5. \A k \in DOMAIN s : s[k].joinSeq < x.joinSeq
        <5>1. TAKE k \in DOMAIN s
        <5>2. PICK j \in 1..i : s[k] = L[j]
          BY <3>3
        <5>3. j \in DOMAIN L /\ i + 1 \in DOMAIN L /\ j < i + 1
          BY <1>1, <2>1
        <5> QED
          BY <5>2, <5>3 DEF Listing, x
      <4>6. \A j, k \in DOMAIN t : j < k => t[j].joinSeq < t[k].joinSeq
        <5>1. TAKE j, k \in DOMAIN t
        <5>2. HAVE j < k
        <5>3. j \in DOMAIN s
          BY <4>2, <5>2
        <5>4. CASE k = Len(s) + 1
          BY <4>2, <4>5, <5>3, <5>4
        <5>5. CASE k \in DOMAIN s
          BY <4>2, <3>4, <5>2, <5>3, <5>5
        <5> QED
          BY <4>2, <5>4, <5>5
      <4> QED
        BY <4>2, <4>3, <4>4, <4>6 DEF Good, t
    <3> QED
      BY <3>6, <3>7
  <2> HIDE DEF Good
  <2> QED
    BY <2>1, <2>2
<1>11. Good(n)
  <2>1. n \in S
    <3> HIDE DEF S
    <3> QED
      BY <1>1, <1>9, <1>10, Reaching
  <2> HIDE DEF Good
  <2> QED
    BY <2>1
<1>12. f[n] \in Seq(stays) /\ \A j, k \in DOMAIN f[n] : j < k => f[n][j].joinSeq < f[n][k].joinSeq
  BY <1>11
<1>13. ToSet(f[n]) = stays
  <2>1. ToSet(f[n]) \subseteq stays
    <3>1. \A k \in DOMAIN f[n] : f[n][k] \in stays
      BY <1>12
    <3> QED
      BY <3>1 DEF ToSet
  <2>2. ASSUME NEW e \in stays PROVE e \in ToSet(f[n])
    <3>1. PICK j \in 1..n : L[j] = e
      BY ListingCounts DEF n
    <3>2. PICK k \in DOMAIN f[n] : f[n][k] = L[j]
      BY <1>11, <3>1, <2>2
    <3> QED
      BY <3>1, <3>2 DEF ToSet
  <2> QED
    BY <2>1, <2>2
<1> QED
  BY <1>6, <1>12, <1>13 DEF Listing

\* The snapshot of a roster has every entry once, by joinSeq.
Listed(entries) == Numbered(entries) /\ Listing(Snapshot(entries), entries)

\* Nothing is removed.
LEMMA KeptAll ==
    ASSUME NEW R, Numbered(R), NEW L, Listing(L, R)
    PROVE  Kept(L, {}) = L
<1>1. {e \in R : e.peer \notin {}} = R
  OBVIOUS
<1>2. Listing(Kept(L, {}), R)
  BY <1>1, KeptLists
<1> QED
  BY <1>2, SnapshotLists

\* Nothing is changed.
LEMMA ChangedNone == ASSUME NEW V, NEW q \in Seq(V) PROVE Changed(q, {}) = q
<1>1. \A i \in DOMAIN q : q[i].peer \notin Members({})
  BY DEF Members
<1>2. Changed(q, {}) = [i \in DOMAIN q |-> q[i]]
  BY <1>1 DEF Changed
<1> QED
  BY <1>2

\* Nothing is added.
LEMMA SeqOfNone == SetToSeq({}) = <<>>
<1>1. Cardinality({}) = 0
  BY FS_EmptySet
<1>2. \A f : f \in [1..0 -> {}] => f = <<>>
  OBVIOUS
<1>3. <<>> \in [1..0 -> {}] /\ IsInjective(<<>>)
  BY DEF IsInjective
<1> QED
  BY <1>1, <1>2, <1>3 DEF SetToSeq

\* One entry is added.
LEMMA SeqOfOne == ASSUME NEW x PROVE SetToSeq({x}) = <<x>>
<1>1. Cardinality({x}) = 1
  BY FS_Singleton
<1>2. \A f : f \in [1..1 -> {x}] => f = <<x>>
  OBVIOUS
<1>3. <<x>> \in [1..1 -> {x}] /\ IsInjective(<<x>>)
  BY DEF IsInjective
<1> QED
  BY <1>1, <1>2, <1>3 DEF SetToSeq

\* A client that hears of a new entry, behind all others, has the new roster.
LEMMA AddedFollows ==
    ASSUME NEW R, Listed(R), NEW x, x.joinSeq \in Nat, \A e \in R : e.joinSeq < x.joinSeq
    PROVE  /\ Listed(R \cup {x})
           /\ Apply(Snapshot(R), RosterUpdate({x}, {}, {})) = Snapshot(R \cup {x})
<1> DEFINE L == Snapshot(R)
           M == Append(L, x)
<1>1. Listing(L, R) /\ Numbered(R) /\ Numbered(R \cup {x})
  BY DEF Listed, Numbered
<1> HIDE DEF L
<1>2. /\ L \in Seq(R) /\ Len(L) \in Nat /\ DOMAIN L = 1..Len(L)
      /\ ToSet(L) = R
      /\ \A i \in DOMAIN L : L[i] \in R
      /\ \A i, j \in DOMAIN L : i < j => L[i].joinSeq < L[j].joinSeq
  BY <1>1 DEF Listing
<1>3. /\ M \in Seq(R \cup {x}) /\ DOMAIN M = 1..(Len(L) + 1) /\ M[Len(L) + 1] = x
      /\ \A i \in DOMAIN L : M[i] = L[i] /\ i \in DOMAIN M
      /\ \A i \in DOMAIN M : i \in DOMAIN L \/ i = Len(L) + 1
      /\ Len(L) + 1 \in DOMAIN M
  <2>1. L \in Seq(R \cup {x}) /\ x \in R \cup {x}
    BY <1>2
  <2> QED
    BY <2>1, <1>2
<1> HIDE DEF M
<1>4. ToSet(M) = R \cup {x}
  <2>1. \A i \in DOMAIN M : M[i] \in R \cup {x}
    BY <1>2, <1>3
  <2>2. \A e \in R : \E i \in DOMAIN M : M[i] = e
    <3>1. \A e \in R : \E i \in DOMAIN L : L[i] = e
      BY <1>2 DEF ToSet
    <3> QED
      BY <1>3, <3>1
  <2> QED
    BY <1>3, <2>1, <2>2 DEF ToSet
<1>5. \A i, j \in DOMAIN M : i < j => M[i].joinSeq < M[j].joinSeq
  <2>1. TAKE i, j \in DOMAIN M
  <2>2. HAVE i < j
  <2>3. i \in DOMAIN L
    BY <1>2, <1>3, <2>2
  <2>4. CASE j = Len(L) + 1
    BY <1>2, <1>3, <2>3, <2>4
  <2>5. CASE j \in DOMAIN L
    BY <1>2, <1>3, <2>2, <2>3, <2>5
  <2> QED
    BY <1>3, <2>4, <2>5
<1>6. Listing(M, R \cup {x})
  BY <1>3, <1>4, <1>5 DEF Listing
<1>7. Snapshot(R \cup {x}) = M /\ ByJoinSeq(M) = M
  BY <1>1, <1>6, SnapshotLists, SortedStays
<1>8. Apply(L, RosterUpdate({x}, {}, {})) = ByJoinSeq(M)
  <2>1. Apply(L, RosterUpdate({x}, {}, {})) = ByJoinSeq(Changed(Kept(L, {}), {}) \o SetToSeq({x}))
    BY DEF Apply, RosterUpdate
  <2>2. Changed(Kept(L, {}), {}) = L
    BY <1>1, <1>2, KeptAll, ChangedNone
  <2>3. L \o <<x>> = M
    BY <1>2 DEF M
  <2> QED
    BY <2>1, <2>2, <2>3, SeqOfOne
<1> QED
  BY <1>1, <1>6, <1>7, <1>8 DEF Listed, L

\* A client that hears of an entry that is gone has the new roster.
LEMMA RemovedFollows ==
    ASSUME NEW R, Listed(R), NEW c
    PROVE  /\ Listed({e \in R : e.peer # c})
           /\ Apply(Snapshot(R), RosterUpdate({}, {c}, {})) = Snapshot({e \in R : e.peer # c})
<1> DEFINE L == Snapshot(R)
           M == Kept(L, {c})
           rest == {e \in R : e.peer # c}
<1>1. Listing(L, R) /\ Numbered(R) /\ Numbered(rest)
  BY DEF Listed, Numbered
<1> HIDE DEF L
<1>2. Listing(M, rest)
  <2>1. Listing(M, {e \in R : e.peer \notin {c}})
    BY <1>1, KeptLists
  <2>2. {e \in R : e.peer \notin {c}} = rest
    OBVIOUS
  <2> QED
    BY <2>1, <2>2
<1> HIDE DEF M, rest
<1>3. Snapshot(rest) = M /\ ByJoinSeq(M) = M
  BY <1>1, <1>2, SnapshotLists, SortedStays
<1>4. M \in Seq(rest)
  BY <1>2 DEF Listing
<1>5. Apply(L, RosterUpdate({}, {c}, {})) = ByJoinSeq(M)
  <2>1. Apply(L, RosterUpdate({}, {c}, {})) = ByJoinSeq(Changed(M, {}) \o SetToSeq({}))
    BY DEF Apply, RosterUpdate, M
  <2>2. M \o <<>> = M
    BY <1>4
  <2> QED
    BY <1>4, <2>1, <2>2, ChangedNone, SeqOfNone
<1> QED
  BY <1>1, <1>2, <1>3, <1>5 DEF Listed, L, rest

\* An entry whose flag changed.
Verified(e, c, flag) == IF e.peer = c THEN [e EXCEPT !.inboundVerified = flag] ELSE e

\* The roster after #probeInbound.
After(entries, c, flag) == {Verified(e, c, flag) : e \in entries}

\* Entries are records, and there is one for a peer.
Recorded(entries) ==
    \A e \in entries : e = [peer |-> e.peer, joinSeq |-> e.joinSeq,
                            inboundVerified |-> e.inboundVerified]
OnePerPeer(entries) == \A e, f \in entries : e.peer = f.peer => e = f

\* A client that hears of the flag of an entry has the new roster.
LEMMA ChangedFollows ==
    ASSUME NEW R, Recorded(R), Listed(R), OnePerPeer(R), NEW c, NEW flag
    PROVE  /\ Listed(After(R, c, flag))
           /\ Apply(Snapshot(R), RosterUpdate({}, {}, {e \in After(R, c, flag) : e.peer = c}))
              = Snapshot(After(R, c, flag))
<1> DEFINE new == After(R, c, flag)
           L == Snapshot(R)
           changed == {e \in new : e.peer = c}
           M == Changed(L, changed)
           Now(e) == Verified(e, c, flag)
<1>1. Listing(L, R) /\ Numbered(R)
  BY DEF Listed
<1>2. \A e \in R : Now(e).peer = e.peer /\ Now(e).joinSeq = e.joinSeq /\ Now(e) \in new
  <2>1. TAKE e \in R
  <2>2. e = [peer |-> e.peer, joinSeq |-> e.joinSeq, inboundVerified |-> e.inboundVerified]
    BY DEF Recorded
  <2>3. Now(e).peer = e.peer /\ Now(e).joinSeq = e.joinSeq
    <3> DEFINE p == e.peer
               s == e.joinSeq
               v == e.inboundVerified
    <3>1. e = [peer |-> p, joinSeq |-> s, inboundVerified |-> v]
      BY <2>2
    <3> HIDE DEF p, s, v
    <3>2. [e EXCEPT !.inboundVerified = flag] = [peer |-> p, joinSeq |-> s, inboundVerified |-> flag]
      BY <3>1
    <3> QED
      BY <3>1, <3>2 DEF Verified
  <2>4. Now(e) \in new
    BY DEF After
  <2> QED
    BY <2>3, <2>4
<1>3. \A f \in new : \E e \in R : f = Now(e)
  BY DEF After
<1>4. Numbered(new)
  BY <1>1, <1>2, <1>3 DEF Numbered
<1> HIDE DEF L, Now, new
<1>5. /\ L \in Seq(R) /\ Len(L) \in Nat /\ DOMAIN L = 1..Len(L)
      /\ ToSet(L) = R
      /\ \A i \in DOMAIN L : L[i] \in R
      /\ \A i, j \in DOMAIN L : i < j => L[i].joinSeq < L[j].joinSeq
  BY <1>1 DEF Listing
<1>6. \A i \in DOMAIN L :
          (IF L[i].peer \in Members(changed) THEN CHOOSE e \in changed : e.peer = L[i].peer ELSE L[i])
          = Now(L[i])
  <2>1. TAKE i \in DOMAIN L
  <2>2. L[i] \in R
    BY <1>5
  <2>3. CASE L[i].peer = c
    <3>1. Now(L[i]) \in changed /\ Now(L[i]).peer = L[i].peer
      BY <1>2, <2>2, <2>3
    <3>2. L[i].peer \in Members(changed)
      BY <3>1 DEF Members
    <3>3. ASSUME NEW e \in changed, e.peer = L[i].peer PROVE e = Now(L[i])
      <4>1. PICK f \in R : e = Now(f)
        BY <1>3, <3>3
      <4>2. f.peer = L[i].peer
        BY <1>2, <3>3, <4>1
      <4>3. f = L[i]
        BY <2>2, <4>2 DEF OnePerPeer
      <4> QED
        BY <4>1, <4>3
    <3> HIDE DEF changed
    <3> QED
      BY <3>1, <3>2, <3>3
  <2>4. CASE L[i].peer # c
    <3>1. L[i].peer \notin Members(changed)
      BY <2>4 DEF Members
    <3>2. Now(L[i]) = L[i]
      BY <2>4 DEF Now, Verified
    <3> QED
      BY <3>1, <3>2
  <2> QED
    BY <2>3, <2>4
<1>7. M = [i \in DOMAIN L |-> Now(L[i])]
  BY <1>6 DEF Changed
<1> HIDE DEF M
<1>8. \A i \in DOMAIN L : Now(L[i]) \in new
  BY <1>2, <1>5
<1>9. M \in Seq(new) /\ DOMAIN M = DOMAIN L /\ \A i \in DOMAIN L : M[i] = Now(L[i])
  BY <1>5, <1>7, <1>8
<1>10. ToSet(M) = new
  <2>1. \A i \in DOMAIN M : M[i] \in new
    BY <1>8, <1>9
  <2>2. ASSUME NEW f \in new PROVE \E i \in DOMAIN M : M[i] = f
    <3>1. PICK e \in R : f = Now(e)
      BY <1>3
    <3>2. PICK i \in DOMAIN L : L[i] = e
      BY <1>5 DEF ToSet
    <3> QED
      BY <1>9, <3>1, <3>2
  <2> QED
    BY <2>1, <2>2 DEF ToSet
<1>11. \A i, j \in DOMAIN M : i < j => M[i].joinSeq < M[j].joinSeq
  <2>1. \A i \in DOMAIN L : M[i].joinSeq = L[i].joinSeq
    <3>1. TAKE i \in DOMAIN L
    <3>2. L[i] \in R
      BY <1>5
    <3>3. Now(L[i]).joinSeq = L[i].joinSeq
      BY <1>2, <3>2
    <3> QED
      BY <1>9, <3>3
  <2> QED
    BY <2>1, <1>5, <1>9
<1>12. Listing(M, new)
  BY <1>9, <1>10, <1>11 DEF Listing
<1>13. Snapshot(new) = M /\ ByJoinSeq(M) = M
  BY <1>4, <1>12, SnapshotLists, SortedStays
<1>14. Apply(L, RosterUpdate({}, {}, changed)) = ByJoinSeq(M)
  <2>1. Apply(L, RosterUpdate({}, {}, changed)) = ByJoinSeq(Changed(Kept(L, {}), changed) \o SetToSeq({}))
    BY DEF Apply, RosterUpdate
  <2>2. Kept(L, {}) = L
    BY <1>1, KeptAll
  <2>3. M \o <<>> = M
    BY <1>9
  <2> QED
    BY <2>1, <2>2, <2>3, SeqOfNone DEF M
<1> QED
  BY <1>4, <1>12, <1>13, <1>14 DEF Listed, L, new

(***************************************************************************)
(* The mirrors: the inductive invariant, beside SignalingInv.              *)
(***************************************************************************)

\* A queue of messages, whatever they are; one in which the handshake is not completed.
Plain(q) == q \in Seq(ToSet(q))
Unconfirmed(q) == Plain(q) /\ \A i \in DOMAIN q : q[i].type # "pake_confirm"

\* A client that has a link, and follows the roster.
Following(c) == c \in links \ hClosed /\ client[c] \in {"joining", "joined", "in", "lost"}

\* A client that detached keeps the closes of its queue only.
Queued(c) == client[c] # "moved" => Plain(toPeer[c])

\* The host cannot be further than the client went.
Greeted(c) ==
    client[c] \in {"idle", "hello"}
    => stage[c] \in {"idle", "handshake", "over"} /\ Unconfirmed(toHost[c])

\* MirrorsConverge, for one client.
Mirrored(c) == Following(c) => Foreseen(mirror[c], toPeer[c]) = Snapshot(roster)

\* The snapshot is right, the queues are queues, and what each client has and gets is the
\* snapshot.
MirrorInv ==
    /\ Listed(roster)
    /\ DOMAIN toPeer = Peers /\ DOMAIN toHost = Peers /\ DOMAIN mirror = Peers
    /\ \A c \in Peers : Queued(c) /\ Greeted(c) /\ Mirrored(c)

\* A sequence over any set is a queue.
LEMMA SeqPlain ==
    /\ Plain(<<>>)
    /\ \A V, q : q \in Seq(V) => Plain(q)
<1>1. \A V, q : q \in Seq(V) => Plain(q)
  <2>1. TAKE V, q
  <2>2. HAVE q \in Seq(V)
  <2>3. \A i \in 1..Len(q) : q[i] \in ToSet(q)
    BY <2>2 DEF ToSet
  <2> QED
    BY <2>2, <2>3 DEF Plain
<1>2. <<>> \in Seq({})
  OBVIOUS
<1> QED
  BY <1>1, <1>2

\* What is sent on, taken from or cut off a queue leaves a queue.
LEMMA PlainQueues ==
    ASSUME NEW q, Plain(q)
    PROVE  /\ \A m : Plain(Append(q, m))
           /\ \A m, n : Plain(q \o <<m>>) /\ Plain(q \o <<m, n>>)
           /\ q # <<>> => Plain(Tail(q)) /\ Plain(Front(q))
<1> DEFINE V == ToSet(q)
<1>1. q \in Seq(V)
  BY DEF Plain
<1> HIDE DEF V
<1>2. ASSUME NEW m PROVE Append(q, m) \in Seq(V \cup {m}) /\ q \o <<m>> \in Seq(V \cup {m})
  <2>1. q \in Seq(V \cup {m}) /\ <<m>> \in Seq(V \cup {m}) /\ m \in V \cup {m}
    BY <1>1
  <2> QED
    BY <2>1
<1>3. ASSUME NEW m, NEW n PROVE q \o <<m, n>> \in Seq(V \cup {m, n})
  <2>1. q \in Seq(V \cup {m, n}) /\ <<m, n>> \in Seq(V \cup {m, n})
    BY <1>1
  <2> QED
    BY <2>1
<1>4. q # <<>> => Tail(q) \in Seq(V) /\ Front(q) \in Seq(V)
  BY <1>1 DEF Front
<1> QED
  BY <1>2, <1>3, <1>4, SeqPlain

\* A hello, and a message less, leave the handshake as far as it was.
LEMMA UnconfirmedQueues ==
    ASSUME NEW q, Unconfirmed(q)
    PROVE  /\ Unconfirmed(<<>>)
           /\ Unconfirmed(q \o <<Msg("hello")>>)
           /\ q # <<>> => Unconfirmed(Tail(q)) /\ Head(q).type # "pake_confirm"
<1>1. Unconfirmed(<<>>)
  BY SeqPlain DEF Unconfirmed
<1>2. Plain(q) /\ q \in Seq(ToSet(q))
  BY DEF Unconfirmed, Plain
<1>3. Unconfirmed(q \o <<Msg("hello")>>)
  <2> DEFINE r == q \o <<Msg("hello")>>
  <2>1. Plain(r)
    BY <1>2, PlainQueues
  <2>2. ASSUME NEW i \in DOMAIN r PROVE r[i].type # "pake_confirm"
    <3>1. (i \in DOMAIN q /\ r[i] = q[i]) \/ r[i] = Msg("hello")
      BY <1>2
    <3>2. Msg("hello").type # "pake_confirm"
      BY DEF Msg
    <3> HIDE DEF r
    <3> QED
      BY <3>1, <3>2 DEF Unconfirmed
  <2> QED
    BY <2>1, <2>2 DEF Unconfirmed
<1>4. ASSUME q # <<>> PROVE Unconfirmed(Tail(q)) /\ Head(q).type # "pake_confirm"
  <2>1. /\ Plain(Tail(q)) /\ 1 \in DOMAIN q /\ Head(q) = q[1]
        /\ \A i \in DOMAIN Tail(q) : i + 1 \in DOMAIN q /\ Tail(q)[i] = q[i + 1]
    BY <1>2, <1>4, PlainQueues
  <2> QED
    BY <2>1 DEF Unconfirmed
<1> QED
  BY <1>1, <1>3, <1>4

\* What is sent last is foreseen last; only joined and roster_update count.
LEMMA ForeseenSent ==
    ASSUME NEW view, NEW q, Plain(q), NEW m
    PROVE  Foreseen(view, Append(q, m)) = Pending(Foreseen(view, q), m)
<1>1. q \in Seq(ToSet(q))
  BY DEF Plain
<1> QED
  BY <1>1, ForeseenOneMore

\* The next message is taken into the mirror.
LEMMA ForeseenRead ==
    ASSUME NEW view, NEW q, Plain(q), q # <<>>
    PROVE  Foreseen(view, q) = Foreseen(Pending(view, Head(q)), Tail(q))
<1>1. q \in Seq(ToSet(q))
  BY DEF Plain
<1> QED
  BY <1>1, ForeseenTaken

\* A close at the end says nothing of the roster.
LEMMA ForeseenFront ==
    ASSUME NEW view, NEW q, Plain(q), q # <<>>, Last(q).type = "close"
    PROVE  Foreseen(view, Front(q)) = Foreseen(view, q)
<1>1. q \in Seq(ToSet(q)) /\ Plain(Front(q))
  BY PlainQueues DEF Plain
<1>2. q = Append(Front(q), Last(q))
  BY <1>1 DEF Front, Last
<1>3. Foreseen(view, q) = Pending(Foreseen(view, Front(q)), Last(q))
  <2> DEFINE r == Front(q)
             m == Last(q)
  <2>1. Foreseen(view, Append(r, m)) = Pending(Foreseen(view, r), m)
    <3> HIDE DEF r, m
    <3> QED
      BY <1>1, ForeseenSent DEF r
  <2> QED
    BY <1>2, <2>1
<1> QED
  BY <1>3 DEF Pending

(***************************************************************************)
(* The mirrors and the steps of a client.                                  *)
(***************************************************************************)

\* Nobody but c is touched by a step of the client of c.
LEMMA ClientStepOthers ==
    ASSUME SignalingTypeOK, MirrorInv, NEW c \in Peers, ClientStep(c)
    PROVE  /\ DOMAIN toPeer' = Peers /\ DOMAIN toHost' = Peers /\ DOMAIN mirror' = Peers
           /\ \A d \in Peers \ {c} : /\ client'[d] = client[d] /\ mirror'[d] = mirror[d]
                                     /\ toPeer'[d] = toPeer[d] /\ toHost'[d] = toHost[d]
<1> USE DEF Become, Take, Sends, Gone, clients, MirrorInv, SignalingTypeOK
<1>1. CASE Join(c) \/ Joined(c) \/ Settle(c)
  BY <1>1 DEF Join, Joined, Settle, server
<1>2. CASE ConnectFails(c) \/ OnRosterUpdate(c) \/ OnReply(c)
  BY <1>2 DEF ConnectFails, OnRosterUpdate, OnReply, server
<1>3. CASE OnHostTransfer(c)
  BY <1>3 DEF OnHostTransfer
<1>4. CASE OnClose(c) \/ MissClose(c) \/ ConnectTimesOut(c) \/ HostLost(c)
  BY <1>4 DEF OnClose, MissClose, ConnectTimesOut, HostLost
<1>5. CASE Dial(c) \/ Ask(c)
  BY <1>5 DEF Dial, Ask
<1>6. CASE Leave(c)
  BY <1>6 DEF Leave
<1>7. CASE Vanish(c)
  BY <1>7 DEF Vanish
<1>8. QED
  BY <1>1, <1>2, <1>3, <1>4, <1>5, <1>6, <1>7, ClientStep(c) DEF ClientStep, ClientReceives

\* A client that is out or detached follows nothing.
LEMMA ClientLeaves ==
    ASSUME SignalingTypeOK, NEW c \in Peers,
           (client'[c] = "out" /\ toPeer'[c] = <<>>) \/ client'[c] = "moved"
    PROVE  Queued(c)' /\ Greeted(c)' /\ Mirrored(c)'
  BY SeqPlain DEF Queued, Greeted, Mirrored, Following

\* A client takes the next message into its mirror.
LEMMA ClientTakes ==
    ASSUME SignalingTypeOK, MirrorInv, NEW c \in Peers, UNCHANGED server,
           client[c] \in {"joining", "joined", "in", "lost"},
           client'[c] \in {"joining", "joined", "in", "lost"},
           toPeer[c] # <<>>, toPeer'[c] = Tail(toPeer[c]),
           mirror'[c] = Pending(mirror[c], Head(toPeer[c]))
    PROVE  Queued(c)' /\ Greeted(c)' /\ Mirrored(c)'
<1>1. Plain(toPeer[c]) /\ Mirrored(c)
  BY DEF MirrorInv, Queued
<1>2. Queued(c)' /\ Greeted(c)'
  BY <1>1, PlainQueues DEF Queued, Greeted
<1>3. Foreseen(mirror'[c], toPeer'[c]) = Foreseen(mirror[c], toPeer[c])
  BY <1>1, ForeseenRead
<1>4. Mirrored(c)'
  BY <1>1, <1>3 DEF Mirrored, Following, server
<1> QED
  BY <1>2, <1>4

\* A step of a client takes from its queue what it puts into its mirror.
LEMMA ClientStepMirrors ==
    ASSUME SignalingTypeOK, LinksAdmitted, MirrorInv, NEW c \in Peers, ClientStep(c)
    PROVE  Queued(c)' /\ Greeted(c)' /\ Mirrored(c)'
<1> USE DEF Become
<1>1. /\ Queued(c) /\ Greeted(c) /\ Mirrored(c)
      /\ DOMAIN toPeer = Peers /\ DOMAIN toHost = Peers /\ DOMAIN mirror = Peers
      /\ DOMAIN client = Peers
  BY DEF MirrorInv, SignalingTypeOK
<1>2. UNCHANGED server
  BY ClientStepFrame
<1>3. ASSUME Become(c, "out"), toPeer' = [toPeer EXCEPT ![c] = <<>>]
      PROVE  Queued(c)' /\ Greeted(c)' /\ Mirrored(c)'
  BY <1>1, <1>3, ClientLeaves
<1>4. CASE Dial(c)
  <2>1. /\ client[c] = "idle" /\ client'[c] = "hello" /\ toPeer' = toPeer
        /\ toHost'[c] = toHost[c] \/ toHost'[c] = toHost[c] \o <<Msg("hello")>>
    BY <1>1, <1>4 DEF Dial, Sends
  <2>2. Queued(c)' /\ Mirrored(c)'
    BY <1>1, <2>1 DEF Queued, Mirrored, Following
  <2>3. stage'[c] \in {"idle", "handshake", "over"} /\ Unconfirmed(toHost[c])
    BY <1>1, <1>2, <2>1 DEF Greeted, server
  <2>4. Greeted(c)'
    BY <2>1, <2>3, UnconfirmedQueues DEF Greeted
  <2> QED
    BY <2>2, <2>4
<1>5. CASE Join(c)
  <2>1. /\ client[c] = "hello" /\ client'[c] = "joining"
        /\ toPeer[c] # <<>> /\ toPeer'[c] = Tail(toPeer[c])
    BY <1>1, <1>5 DEF Join, Take, ClientReads
  <2>2. Queued(c)' /\ Greeted(c)'
    BY <1>1, <2>1, PlainQueues DEF Queued, Greeted
  <2>3. c \notin links'
    BY <1>1, <1>2, <2>1 DEF Greeted, LinksAdmitted, server
  <2> QED
    BY <2>2, <2>3 DEF Mirrored, Following
<1>6. CASE Joined(c)
  <2>1. /\ client[c] = "joining" /\ client'[c] = "joined"
        /\ toPeer[c] # <<>> /\ toPeer'[c] = Tail(toPeer[c])
        /\ mirror'[c] = Head(toPeer[c]).roster /\ Head(toPeer[c]).type = "joined"
    BY <1>1, <1>6 DEF Joined, Take, ClientReads
  <2>2. mirror'[c] = Pending(mirror[c], Head(toPeer[c]))
    BY <2>1 DEF Pending
  <2> QED
    BY <1>2, <2>1, <2>2, ClientTakes
<1>7. CASE OnRosterUpdate(c)
  <2>1. /\ client[c] \in {"in", "lost"} /\ client' = client
        /\ toPeer[c] # <<>> /\ toPeer'[c] = Tail(toPeer[c])
        /\ mirror'[c] = Apply(mirror[c], Head(toPeer[c])) /\ Head(toPeer[c]).type = "roster_update"
    BY <1>1, <1>7 DEF OnRosterUpdate, Take, ClientReads, Live
  <2>2. mirror'[c] = Pending(mirror[c], Head(toPeer[c]))
    BY <2>1 DEF Pending
  <2> QED
    BY <1>2, <2>1, <2>2, ClientTakes
<1>8. CASE OnReply(c)
  <2>1. /\ client[c] \in {"in", "lost"} /\ client' = client /\ mirror' = mirror
        /\ toPeer[c] # <<>> /\ toPeer'[c] = Tail(toPeer[c])
        /\ Head(toPeer[c]).type \in {"pong", "media"}
    BY <1>1, <1>8 DEF OnReply, Take, ClientReads, Live, clients
  <2>2. mirror'[c] = Pending(mirror[c], Head(toPeer[c]))
    BY <2>1 DEF Pending
  <2> QED
    BY <1>2, <2>1, <2>2, ClientTakes
<1>9. CASE Settle(c) \/ HostLost(c) \/ Ask(c)
  <2>1. /\ client[c] \in {"joined", "in", "lost"} /\ client'[c] \in {"joined", "in", "lost"}
        /\ UNCHANGED <<toPeer, mirror>>
    BY <1>1, <1>9 DEF Settle, HostLost, Ask, Live
  <2> QED
    BY <1>1, <1>2, <2>1 DEF Queued, Greeted, Mirrored, Following, server
<1>10. CASE MissClose(c)
  <2>1. /\ client[c] = "joined" /\ client' = client /\ mirror' = mirror
        /\ toPeer[c] # <<>> /\ toPeer'[c] = Front(toPeer[c]) /\ Last(toPeer[c]).type = "close"
    BY <1>1, <1>10 DEF MissClose, clients
  <2>2. Plain(toPeer[c]) /\ Plain(toPeer'[c])
    BY <1>1, <2>1, PlainQueues DEF Queued
  <2>3. Foreseen(mirror'[c], toPeer'[c]) = Foreseen(mirror[c], toPeer[c])
    BY <2>1, <2>2, ForeseenFront
  <2> QED
    BY <1>1, <1>2, <2>1, <2>2, <2>3 DEF Queued, Greeted, Mirrored, Following, server
<1>11. CASE ConnectFails(c) \/ ConnectTimesOut(c) \/ OnClose(c) \/ Leave(c) \/ Vanish(c)
  BY <1>3, <1>11 DEF ConnectFails, ConnectTimesOut, OnClose, Leave, Vanish, Gone
<1>12. CASE OnHostTransfer(c)
  <2>1. CASE Head(toPeer[c]).successor = c
    BY <1>3, <1>12, <2>1 DEF OnHostTransfer, Gone
  <2>2. CASE Head(toPeer[c]).successor # c
    <3>1. client'[c] = "moved"
      BY <1>1, <1>12, <2>2 DEF OnHostTransfer
    <3> QED
      BY <3>1, ClientLeaves
  <2> QED
    BY <2>1, <2>2
<1> QED
  BY <1>4, <1>5, <1>6, <1>7, <1>8, <1>9, <1>10, <1>11, <1>12, ClientStep(c)
  DEF ClientStep, ClientReceives

\* A step of a client keeps the invariant.
LEMMA ClientMirrors ==
    ASSUME SignalingTypeOK, LinksAdmitted, MirrorInv, NEW c \in Peers, ClientStep(c)
    PROVE  MirrorInv'
<1>1. UNCHANGED server
  BY ClientStepFrame
<1>2. /\ DOMAIN toPeer' = Peers /\ DOMAIN toHost' = Peers /\ DOMAIN mirror' = Peers
      /\ \A d \in Peers \ {c} : /\ client'[d] = client[d] /\ mirror'[d] = mirror[d]
                                /\ toPeer'[d] = toPeer[d] /\ toHost'[d] = toHost[d]
  BY ClientStepOthers
<1>3. Listed(roster')
  BY <1>1 DEF MirrorInv, server
<1>4. ASSUME NEW d \in Peers, d # c PROVE Queued(d)' /\ Greeted(d)' /\ Mirrored(d)'
  <2>1. Queued(d) /\ Greeted(d) /\ Mirrored(d)
    BY DEF MirrorInv
  <2> QED
    BY <1>1, <1>2, <1>4, <2>1 DEF Queued, Greeted, Mirrored, Following, server
<1>5. Queued(c)' /\ Greeted(c)' /\ Mirrored(c)'
  BY ClientStepMirrors
<1> QED
  BY <1>2, <1>3, <1>4, <1>5 DEF MirrorInv, Listed

(***************************************************************************)
(* The mirrors and the steps of the host.                                  *)
(***************************************************************************)

\* Queues of messages to the peers.
Queues(queues) ==
    DOMAIN queues = Peers /\ \A c \in Peers : client[c] # "moved" => Plain(queues[c])

\* Post sends to those who are connected and heed it.
LEMMA PostQueues ==
    ASSUME NEW queues, Queues(queues), NEW S, NEW m
    PROVE  /\ Queues(Post(queues, S, m))
           /\ \A c \in Peers : Post(queues, S, m)[c] =
                 IF c \in S \ hClosed /\ Heeds(c, m) THEN Append(queues[c], m) ELSE queues[c]
<1>1. \A c \in Peers : Post(queues, S, m)[c] =
          IF c \in S \ hClosed /\ Heeds(c, m) THEN Append(queues[c], m) ELSE queues[c]
  BY DEF Post
<1>2. DOMAIN Post(queues, S, m) = Peers
  BY DEF Post
<1>3. ASSUME NEW c \in Peers, client[c] # "moved" PROVE Plain(Post(queues, S, m)[c])
  <2>1. Plain(queues[c])
    BY <1>3 DEF Queues
  <2> QED
    BY <1>1, <2>1, PlainQueues
<1> QED
  BY <1>1, <1>2, <1>3 DEF Queues

\* The mirror of a client that follows: nothing is sent to it, or something that tells it
\* what became of the roster.
LEMMA HostSends ==
    ASSUME SignalingTypeOK, MirrorInv, UNCHANGED clients,
           Listed(roster'), Queues(toPeer'), DOMAIN toHost' = Peers, \A d \in Peers : Greeted(d)',
           \A d \in Peers : Following(d)' =>
               \/ toPeer'[d] = toPeer[d] /\ Following(d) /\ Snapshot(roster') = Snapshot(roster)
               \/ \E m : /\ toPeer'[d] = Append(toPeer[d], m)
                         /\ \/ m.type = "joined" /\ m.roster = Snapshot(roster')
                            \/ Following(d) /\ Pending(Snapshot(roster), m) = Snapshot(roster')
    PROVE  MirrorInv'
<1>1. client' = client /\ mirror' = mirror
  BY DEF clients
<1>2. ASSUME NEW d \in Peers PROVE Queued(d)'
  BY <1>1 DEF Queues, Queued
<1>3. ASSUME NEW d \in Peers PROVE Mirrored(d)'
  <2>1. SUFFICES ASSUME Following(d)' PROVE Foreseen(mirror[d], toPeer'[d]) = Snapshot(roster')
    BY <1>1 DEF Mirrored
  <2>2. Mirrored(d) /\ Queued(d)
    BY DEF MirrorInv
  <2>3. Plain(toPeer[d])
    BY <1>1, <2>1, <2>2 DEF Queued, Following
  <2>4. CASE toPeer'[d] = toPeer[d] /\ Following(d) /\ Snapshot(roster') = Snapshot(roster)
    BY <2>2, <2>4 DEF Mirrored
  <2>5. ASSUME NEW m, toPeer'[d] = Append(toPeer[d], m),
               \/ m.type = "joined" /\ m.roster = Snapshot(roster')
               \/ Following(d) /\ Pending(Snapshot(roster), m) = Snapshot(roster')
        PROVE  Foreseen(mirror[d], toPeer'[d]) = Snapshot(roster')
    <3>1. Foreseen(mirror[d], toPeer'[d]) = Pending(Foreseen(mirror[d], toPeer[d]), m)
      BY <2>3, <2>5, ForeseenSent
    <3>2. CASE m.type = "joined" /\ m.roster = Snapshot(roster')
      BY <3>1, <3>2 DEF Pending
    <3>3. CASE Following(d) /\ Pending(Snapshot(roster), m) = Snapshot(roster')
      BY <2>2, <3>1, <3>3 DEF Mirrored
    <3> QED
      BY <2>5, <3>2, <3>3
  <2> QED
    BY <2>1, <2>4, <2>5
<1>4. DOMAIN mirror' = Peers /\ DOMAIN toPeer' = Peers
  BY <1>1 DEF MirrorInv, Queues
<1> QED
  BY <1>2, <1>3, <1>4 DEF MirrorInv, Listed

\* The host takes no client further than it went.
LEMMA HostStepGreets ==
    ASSUME SignalingTypeOK, MirrorInv, NEW c \in Peers, HostStep(c)
    PROVE  DOMAIN toHost' = Peers /\ \A d \in Peers : Greeted(d)'
<1> USE DEF Goto, HangUp, Consume, HostReads
<1>1. /\ DOMAIN toHost = Peers /\ DOMAIN stage = Peers /\ \A d \in Peers : Greeted(d)
  BY DEF MirrorInv, SignalingTypeOK
<1>2. client' = client
  BY DEF HostStep, Accept, HandshakeRead, Upgrade, HandshakeFails, JoinRead, JoinFails, Admit,
         Request, MediaReply, Bye, HeartbeatDead, ProbeDone, HearClose, HearCloseEarly, clients
<1>3. ASSUME DOMAIN toHost' = Peers, \A d \in Peers \ {c} : toHost'[d] = toHost[d],
             \A d \in Peers \ {c} : stage'[d] = stage[d],
             client[c] \in {"idle", "hello"} =>
                /\ stage'[c] \in {stage[c], "handshake", "over"}
                /\ \/ toHost'[c] \in {<<>>, toHost[c]}
                   \/ toHost[c] # <<>> /\ toHost'[c] = Tail(toHost[c])
      PROVE  DOMAIN toHost' = Peers /\ \A d \in Peers : Greeted(d)'
  <2>1. ASSUME NEW d \in Peers \ {c} PROVE Greeted(d)'
    BY <1>1, <1>2, <1>3, <2>1 DEF Greeted
  <2>2. Greeted(c)'
    BY <1>1, <1>2, <1>3, UnconfirmedQueues DEF Greeted
  <2> QED
    BY <1>3, <2>1, <2>2
<1>4. CASE Accept(c)
  BY <1>1, <1>3, <1>4 DEF Accept, Refuse
<1>5. CASE HandshakeRead(c)
  <2>1. client[c] \notin {"idle", "hello"}
    BY <1>1, <1>5, UnconfirmedQueues DEF HandshakeRead, Greeted
  <2> QED
    BY <1>1, <1>3, <1>5, <2>1 DEF HandshakeRead
<1>6. CASE Upgrade(c) \/ JoinRead(c) \/ Admit(c)
  <2>1. client[c] \notin {"idle", "hello"}
    BY <1>1, <1>6 DEF Upgrade, JoinRead, Admit, Greeted
  <2> QED
    BY <1>1, <1>3, <1>6, <2>1 DEF Upgrade, JoinRead, Admit, AdmitJoin
<1>7. CASE HandshakeFails(c) \/ JoinFails(c)
  BY <1>1, <1>3, <1>7 DEF HandshakeFails, JoinFails
<1>8. CASE Request(c) \/ MediaReply(c) \/ ProbeDone(c)
  BY <1>1, <1>3, <1>8 DEF Request, MediaReply, ProbeDone
<1>9. CASE Bye(c) \/ HeartbeatDead(c)
  BY <1>1, <1>3, <1>9 DEF Bye, HeartbeatDead, DropLink
<1>10. CASE HearClose(c)
  BY <1>1, <1>3, <1>10 DEF HearClose
<1>11. CASE HearCloseEarly(c)
  <2>1. client[c] \notin {"idle", "hello"}
    BY <1>1, <1>11 DEF HearCloseEarly, Greeted
  <2> QED
    BY <1>1, <1>3, <1>11, <2>1 DEF HearCloseEarly
<1> QED
  BY <1>4, <1>5, <1>6, <1>7, <1>8, <1>9, <1>10, <1>11, HostStep(c) DEF HostStep

\* A step that says nothing of the roster, because nothing became of it.
LEMMA HostKeepsRoster ==
    ASSUME SignalingTypeOK, MirrorInv, UNCHANGED <<roster, clients>>,
           DOMAIN toHost' = Peers, \A d \in Peers : Greeted(d)',
           Queues(toPeer'), links' \subseteq links, hClosed \subseteq hClosed',
           \A d \in links' \ hClosed' :
               \/ toPeer'[d] = toPeer[d]
               \/ \E m : toPeer'[d] = Append(toPeer[d], m) /\ m.type \notin {"joined", "roster_update"}
    PROVE  MirrorInv'
<1>1. Listed(roster') /\ Snapshot(roster') = Snapshot(roster) /\ client' = client
  BY DEF MirrorInv, clients
<1>2. ASSUME NEW d \in Peers, Following(d)'
      PROVE  Following(d) /\ d \in links' \ hClosed'
  BY <1>1, <1>2 DEF Following
<1>3. ASSUME NEW d \in Peers, Following(d)'
      PROVE  \/ toPeer'[d] = toPeer[d] /\ Following(d) /\ Snapshot(roster') = Snapshot(roster)
             \/ \E m : /\ toPeer'[d] = Append(toPeer[d], m)
                       /\ \/ m.type = "joined" /\ m.roster = Snapshot(roster')
                          \/ Following(d) /\ Pending(Snapshot(roster), m) = Snapshot(roster')
  <2>1. Following(d) /\ d \in links' \ hClosed'
    BY <1>2, <1>3
  <2>2. CASE toPeer'[d] = toPeer[d]
    BY <1>1, <2>1, <2>2
  <2>3. ASSUME NEW m, toPeer'[d] = Append(toPeer[d], m), m.type \notin {"joined", "roster_update"}
        PROVE  Pending(Snapshot(roster), m) = Snapshot(roster')
    BY <1>1, <2>3 DEF Pending
  <2> QED
    BY <2>1, <2>2, <2>3
<1> QED
  BY <1>1, <1>3, HostSends

\* A message that does not concern the roster leaves every queue as it was or one longer.
LEMMA PostQuiet ==
    ASSUME MirrorInv, NEW S, NEW m, m.type \notin {"joined", "roster_update"}
    PROVE  /\ Queues(Post(toPeer, S, m))
           /\ \A d \in Peers :
                 \/ Post(toPeer, S, m)[d] = toPeer[d]
                 \/ \E n : Post(toPeer, S, m)[d] = Append(toPeer[d], n)
                           /\ n.type \notin {"joined", "roster_update"}
<1>1. Queues(toPeer)
  BY DEF Queues, MirrorInv, Queued
<1>2. Queues(Post(toPeer, S, m))
  BY <1>1, PostQueues
<1>3. ASSUME NEW d \in Peers
      PROVE  Post(toPeer, S, m)[d] = toPeer[d] \/ Post(toPeer, S, m)[d] = Append(toPeer[d], m)
  BY <1>1, PostQueues
<1> QED
  BY <1>2, <1>3

\* The host hangs up: nobody else gets anything.
LEMMA HangsUp ==
    ASSUME NEW c \in Peers, NEW queues, Queues(queues), HangUp(c, queues)
    PROVE  /\ Queues(toPeer') /\ hClosed' = hClosed \cup {c}
           /\ \A d \in Peers \ {c} : toPeer'[d] = queues[d]
  BY PostQueues DEF HangUp

\* A peer is gone: those that remain are told.
LEMMA GoneMirrors ==
    ASSUME SignalingTypeOK, MirrorInv, NEW c \in Peers, PeerGone(c), UNCHANGED clients,
           DOMAIN toHost' = Peers, \A d \in Peers : Greeted(d)',
           Queues(toPeer'), hClosed' = hClosed \cup {c},
           \A d \in Peers \ {c} : toPeer'[d] = AnnounceGone(c, toPeer)[d]
    PROVE  MirrorInv'
<1>1. client' = client /\ Queues(toPeer)
  BY DEF clients, Queues, MirrorInv, Queued
<1>2. CASE phase # "open"
  <2>1. UNCHANGED <<links, roster>> /\ \A d \in Peers \ {c} : toPeer'[d] = toPeer[d]
    BY <1>2 DEF PeerGone, AnnounceGone
  <2>2. \A d \in links' \ hClosed' : toPeer'[d] = toPeer[d]
    BY <2>1 DEF SignalingTypeOK
  <2> QED
    BY <2>1, <2>2, HostKeepsRoster
<1>3. CASE phase = "open"
  <2> DEFINE update == RosterUpdate({}, {c}, {})
  <2>1. links' = links \ {c} /\ roster' = {e \in roster : e.peer # c}
    BY <1>3 DEF PeerGone
  <2>2. Listed(roster') /\ Apply(Snapshot(roster), update) = Snapshot(roster')
    BY <2>1, RemovedFollows DEF MirrorInv
  <2>3. update.type = "roster_update"
    BY DEF RosterUpdate
  <2> HIDE DEF update
  <2>4. Pending(Snapshot(roster), update) = Snapshot(roster')
    BY <2>2, <2>3 DEF Pending
  <2>5. ASSUME NEW d \in Peers, Following(d)'
        PROVE  Following(d) /\ toPeer'[d] = Append(toPeer[d], update)
    <3>1. /\ d \in links \ {c} /\ d \notin hClosed /\ d # c
          /\ client[d] \in {"joining", "joined", "in", "lost"}
      BY <1>1, <2>1, <2>5 DEF Following
    <3>2. Heeds(d, update)
      BY <3>1 DEF Heeds
    <3>3. AnnounceGone(c, toPeer) = Post(toPeer, links \ {c}, update)
      BY <1>3 DEF AnnounceGone, update
    <3>4. Post(toPeer, links \ {c}, update)[d] = Append(toPeer[d], update)
      BY <1>1, <3>1, <3>2, PostQueues
    <3>5. toPeer'[d] = Append(toPeer[d], update)
      BY <3>1, <3>3, <3>4
    <3> QED
      BY <3>1, <3>5 DEF Following
  <2> QED
    BY <2>2, <2>4, <2>5, HostSends
<1> QED
  BY <1>2, <1>3

\* A peer is admitted: it gets the roster, the others what changed.
LEMMA AdmitMirrors ==
    ASSUME SignalingTypeOK, LinksAdmitted, RosterOrdered, MirrorInv,
           NEW c \in Peers, stage[c] = "admitting", AdmitJoin(c), UNCHANGED <<hClosed, clients>>,
           links' = links \cup {c},
           DOMAIN toHost' = Peers, \A d \in Peers : Greeted(d)'
    PROVE  MirrorInv'
<1> DEFINE entry == Entry(c, nextJoinSeq, FALSE)
           welcome == [type |-> "joined", roster |-> Snapshot(roster')]
           update == RosterUpdate({entry}, {}, {})
<1>1. client' = client /\ Queues(toPeer) /\ c \notin links
  BY DEF clients, Queues, MirrorInv, Queued, LinksAdmitted
<1>2. /\ roster' = roster \cup {entry}
      /\ toPeer' = Post(Post(toPeer, {c}, welcome), links, update)
  BY DEF AdmitJoin
<1>3. entry.joinSeq \in Nat /\ \A e \in roster : e.joinSeq < entry.joinSeq
  BY DEF Entry, SignalingTypeOK, RosterOrdered
<1>4. /\ update.type = "roster_update"
      /\ welcome.type = "joined" /\ welcome.roster = Snapshot(roster')
  BY DEF RosterUpdate
<1> HIDE DEF entry
<1>5. Listed(roster') /\ Apply(Snapshot(roster), update) = Snapshot(roster')
  BY <1>2, <1>3, AddedFollows DEF MirrorInv
<1> HIDE DEF update, welcome
<1>6. Pending(Snapshot(roster), update) = Snapshot(roster')
  BY <1>4, <1>5 DEF Pending
<1>7. /\ Queues(Post(toPeer, {c}, welcome)) /\ Queues(toPeer')
      /\ \A d \in Peers :
            /\ Post(toPeer, {c}, welcome)[d] =
                  IF d \in {c} \ hClosed /\ Heeds(d, welcome) THEN Append(toPeer[d], welcome)
                  ELSE toPeer[d]
            /\ toPeer'[d] =
                  IF d \in links \ hClosed /\ Heeds(d, update)
                  THEN Append(Post(toPeer, {c}, welcome)[d], update)
                  ELSE Post(toPeer, {c}, welcome)[d]
  <2>1. Queues(Post(toPeer, {c}, welcome))
    BY <1>1, PostQueues
  <2>2. Queues(toPeer')
    BY <1>2, <2>1, PostQueues
  <2>3. \A d \in Peers : toPeer'[d] =
            IF d \in links \ hClosed /\ Heeds(d, update)
            THEN Append(Post(toPeer, {c}, welcome)[d], update)
            ELSE Post(toPeer, {c}, welcome)[d]
    BY <1>2, <2>1, PostQueues
  <2>4. \A d \in Peers : Post(toPeer, {c}, welcome)[d] =
            IF d \in {c} \ hClosed /\ Heeds(d, welcome) THEN Append(toPeer[d], welcome)
            ELSE toPeer[d]
    BY <1>1, PostQueues
  <2> QED
    BY <2>1, <2>2, <2>3, <2>4
<1>8. ASSUME NEW d \in Peers, Following(d)'
      PROVE  \/ d = c /\ toPeer'[d] = Append(toPeer[d], welcome)
             \/ Following(d) /\ toPeer'[d] = Append(toPeer[d], update)
  <2>1. /\ d \in links \cup {c} /\ d \notin hClosed
        /\ client[d] \in {"joining", "joined", "in", "lost"}
    BY <1>1, <1>8 DEF Following
  <2>2. Heeds(d, update) /\ Heeds(d, welcome)
    BY <2>1 DEF Heeds
  <2>3. CASE d = c
    BY <1>1, <1>7, <2>1, <2>2, <2>3
  <2>4. CASE d # c
    BY <1>7, <2>1, <2>2, <2>4 DEF Following
  <2> QED
    BY <2>3, <2>4
<1>9. ASSUME NEW d \in Peers, Following(d)'
      PROVE  \E m : /\ toPeer'[d] = Append(toPeer[d], m)
                    /\ \/ m.type = "joined" /\ m.roster = Snapshot(roster')
                       \/ Following(d) /\ Pending(Snapshot(roster), m) = Snapshot(roster')
  BY <1>4, <1>6, <1>8, <1>9
<1> QED
  BY <1>5, <1>7, <1>9, HostSends

\* A peer was probed: all are told.
LEMMA ProbeMirrors ==
    ASSUME SignalingTypeOK, RosterOrdered, MirrorInv, NEW c \in Peers, ProbeDone(c), c \in links,
           DOMAIN toHost' = Peers, \A d \in Peers : Greeted(d)'
    PROVE  MirrorInv'
<1>1. UNCHANGED <<clients, links, hClosed>> /\ client' = client /\ Queues(toPeer)
  BY DEF ProbeDone, clients, Queues, MirrorInv, Queued
<1> DEFINE changed == {e \in roster' : e.peer = c}
           update == RosterUpdate({}, {}, changed)
<1>2. PICK reachable \in BOOLEAN :
          roster' = {IF e.peer = c THEN [e EXCEPT !.inboundVerified = reachable] ELSE e : e \in roster}
  BY DEF ProbeDone
<1>3. toPeer' = Post(toPeer, links, update)
  BY DEF ProbeDone
<1>4. roster' = {Verified(e, c, reachable) : e \in roster}
  BY <1>2 DEF Verified
<1>5. \A e, f \in roster : e.peer = f.peer => e = f
  BY DEF RosterOrdered, RosterWellFormed
<1>6. roster \subseteq [peer : Peers \cup {Host}, joinSeq : Nat, inboundVerified : BOOLEAN]
  BY DEF SignalingTypeOK
<1>7. Listed(roster') /\ Apply(Snapshot(roster), update) = Snapshot(roster')
  <2>1. Listed(roster)
    BY DEF MirrorInv
  <2>2. Recorded(roster) /\ OnePerPeer(roster)
    BY <1>5, <1>6 DEF Recorded, OnePerPeer
  <2>3. roster' = After(roster, c, reachable)
    BY <1>4 DEF After
  <2> QED
    BY <2>1, <2>2, <2>3, ChangedFollows
<1>8. update.type = "roster_update"
  BY DEF RosterUpdate
<1> HIDE DEF update, changed
<1>9. Pending(Snapshot(roster), update) = Snapshot(roster')
  BY <1>7, <1>8 DEF Pending
<1>10. Queues(toPeer')
  BY <1>1, <1>3, PostQueues
<1>11. ASSUME NEW d \in Peers, Following(d)'
       PROVE  Following(d) /\ toPeer'[d] = Append(toPeer[d], update)
  <2>1. d \in links \ hClosed /\ client[d] \in {"joining", "joined", "in", "lost"}
    BY <1>1, <1>11 DEF Following
  <2>2. Heeds(d, update)
    BY <2>1 DEF Heeds
  <2>3. Post(toPeer, links, update)[d] = Append(toPeer[d], update)
    BY <1>1, <2>1, <2>2, PostQueues
  <2> QED
    BY <1>3, <2>1, <2>3 DEF Following
<1> QED
  BY <1>1, <1>7, <1>9, <1>10, <1>11, HostSends

\* A step of the host keeps the invariant.
LEMMA HostMirrors ==
    ASSUME SignalingInv, MirrorInv, NEW c \in Peers, HostStep(c)
    PROVE  MirrorInv'
<1>1. SignalingTypeOK /\ LinksAdmitted /\ RosterOrdered /\ links \subseteq Peers
  BY DEF SignalingInv, SignalingTypeOK
<1>2. DOMAIN toHost' = Peers /\ \A d \in Peers : Greeted(d)'
  BY <1>1, HostStepGreets
<1>3. Queues(toPeer)
  BY DEF Queues, MirrorInv, Queued
<1>4. ASSUME UNCHANGED <<roster, clients, links, hClosed, toPeer>> PROVE MirrorInv'
  BY <1>1, <1>2, <1>3, <1>4, HostKeepsRoster
<1>5. ASSUME UNCHANGED <<roster, clients, links, hClosed>>,
             NEW S, NEW m, m.type \notin {"joined", "roster_update"}, toPeer' = Post(toPeer, S, m)
      PROVE  MirrorInv'
  <2>1. Queues(toPeer')
    BY <1>5, PostQuiet
  <2>2. \A d \in links' \ hClosed' :
            \/ toPeer'[d] = toPeer[d]
            \/ \E n : toPeer'[d] = Append(toPeer[d], n) /\ n.type \notin {"joined", "roster_update"}
    BY <1>1, <1>5, PostQuiet
  <2> QED
    BY <1>1, <1>2, <1>5, <2>1, <2>2, HostKeepsRoster
<1>6. ASSUME UNCHANGED <<roster, clients, links>>, NEW queues, Queues(queues), HangUp(c, queues),
             \A d \in Peers \ {c} : queues[d] = toPeer[d]
      PROVE  MirrorInv'
  <2>1. Queues(toPeer') /\ hClosed' = hClosed \cup {c} /\ \A d \in Peers \ {c} : toPeer'[d] = toPeer[d]
    BY <1>6, HangsUp
  <2>2. \A d \in links' \ hClosed' : toPeer'[d] = toPeer[d]
    BY <1>1, <1>6, <2>1
  <2> QED
    BY <1>1, <1>2, <1>6, <2>1, <2>2, HostKeepsRoster
<1>7. ASSUME UNCHANGED <<roster, clients, links, toPeer>>, hClosed' = hClosed \cup {c}
      PROVE  MirrorInv'
  BY <1>1, <1>2, <1>3, <1>7, HostKeepsRoster
<1>8. ASSUME NEW m PROVE Queues(Post(toPeer, {c}, m)) /\ \A d \in Peers \ {c} : Post(toPeer, {c}, m)[d] = toPeer[d]
  BY <1>3, PostQueues
<1>9. CASE Accept(c)
  <2>1. UNCHANGED <<roster, clients, links>>
    BY <1>9 DEF Accept
  <2>2. CASE Refuse(c)
    BY <1>6, <1>8, <2>1, <2>2 DEF Refuse
  <2>3. CASE ~Refuse(c)
    <3>1. hClosed' = hClosed /\ toPeer' = Post(toPeer, {c}, Msg("hello_ack"))
      BY <1>9, <2>3 DEF Accept
    <3>2. Msg("hello_ack").type = "hello_ack"
      BY DEF Msg
    <3> QED
      BY <1>5, <2>1, <3>1, <3>2
  <2> QED
    BY <2>2, <2>3
<1>10. CASE HandshakeRead(c) \/ Upgrade(c) \/ JoinRead(c)
  BY <1>4, <1>10 DEF HandshakeRead, Upgrade, JoinRead
<1>11. CASE HandshakeFails(c) \/ JoinFails(c)
  <2>1. UNCHANGED <<roster, clients, links>> /\ HangUp(c, toPeer)
    BY <1>11 DEF HandshakeFails, JoinFails
  <2> QED
    BY <1>3, <1>6, <2>1
<1>12. CASE Admit(c)
  <2>1. UNCHANGED clients /\ stage[c] = "admitting"
    BY <1>12 DEF Admit
  <2>2. CASE ~Admissible(c)
    <3>1. UNCHANGED <<roster, links>> /\ HangUp(c, Post(toPeer, {c}, Msg("rejected")))
      BY <1>12, <2>2 DEF Admit
    <3> QED
      BY <1>6, <1>8, <2>1, <3>1
  <2>3. CASE Admissible(c)
    <3>1. AdmitJoin(c) /\ links' = links \cup {c} /\ hClosed' = hClosed
      BY <1>12, <2>3 DEF Admit
    <3> QED
      BY <1>1, <1>2, <2>1, <3>1, AdmitMirrors
  <2> QED
    BY <2>2, <2>3
<1>13. CASE Request(c)
  <2>1. /\ UNCHANGED <<roster, clients, links, hClosed>>
        /\ toPeer' = toPeer \/ toPeer' = Post(toPeer, {c}, Msg("pong"))
    BY <1>13 DEF Request
  <2>2. Msg("pong").type = "pong"
    BY DEF Msg
  <2> QED
    BY <1>4, <1>5, <2>1, <2>2
<1>14. CASE MediaReply(c)
  <2>1. /\ UNCHANGED <<roster, clients, links, hClosed>>
        /\ toPeer' = toPeer \/ toPeer' = Post(toPeer, {c}, Msg("media"))
    BY <1>14 DEF MediaReply
  <2>2. Msg("media").type = "media"
    BY DEF Msg
  <2> QED
    BY <1>4, <1>5, <2>1, <2>2
<1>15. ASSUME DropLink(c), UNCHANGED clients PROVE MirrorInv'
  <2>1. Queues(AnnounceGone(c, toPeer))
    BY <1>3, PostQueues DEF AnnounceGone
  <2>2. /\ Queues(toPeer') /\ hClosed' = hClosed \cup {c}
        /\ \A d \in Peers \ {c} : toPeer'[d] = AnnounceGone(c, toPeer)[d]
    BY <1>15, <2>1, HangsUp DEF DropLink
  <2> QED
    BY <1>1, <1>2, <1>15, <2>2, GoneMirrors DEF DropLink
<1>16. CASE Bye(c) \/ HeartbeatDead(c)
  <2>1. UNCHANGED clients
    BY <1>16 DEF Bye, HeartbeatDead
  <2>2. DropLink(c) \/ UNCHANGED <<roster, links, hClosed, toPeer>>
    BY <1>16 DEF Bye, HeartbeatDead
  <2> QED
    BY <1>4, <1>15, <2>1, <2>2
<1>17. CASE ProbeDone(c)
  <2>1. CASE c \in links
    BY <1>1, <1>2, <1>17, <2>1, ProbeMirrors
  <2>2. CASE c \notin links
    BY <1>4, <1>17, <2>2 DEF ProbeDone
  <2> QED
    BY <2>1, <2>2
<1>18. CASE HearClose(c)
  <2>1. UNCHANGED clients /\ hClosed' = hClosed \cup {c}
    BY <1>18 DEF HearClose
  <2>2. CASE stage[c] = "admitted"
    <3>1. PeerGone(c) /\ toPeer' = AnnounceGone(c, toPeer)
      BY <1>18, <2>2 DEF HearClose
    <3>2. Queues(AnnounceGone(c, toPeer))
      BY <1>3, PostQueues DEF AnnounceGone
    <3> QED
      BY <1>1, <1>2, <2>1, <3>1, <3>2, GoneMirrors
  <2>3. CASE stage[c] # "admitted"
    BY <1>7, <1>18, <2>1, <2>3 DEF HearClose
  <2> QED
    BY <2>2, <2>3
<1>19. CASE HearCloseEarly(c)
  BY <1>7, <1>19 DEF HearCloseEarly
<1> QED
  BY <1>9, <1>10, <1>11, <1>12, <1>13, <1>14, <1>16, <1>17, <1>18, <1>19, HostStep(c) DEF HostStep

\* The server ends: who is told, is told of nothing else.
LEMMA EndMirrors ==
    ASSUME SignalingTypeOK, MirrorInv, TransferHost \/ CloseForHandoff \/ CloseServer \/ Crash
    PROVE  MirrorInv'
<1>1. /\ UNCHANGED <<stage, roster, toHost, clients>> /\ client' = client
      /\ links \subseteq Peers
  BY DEF TransferHost, CloseForHandoff, CloseServer, Crash, Shut, clients, SignalingTypeOK
<1>2. Queues(toPeer)
  BY DEF Queues, MirrorInv, Queued
<1>3. DOMAIN toHost' = Peers /\ \A d \in Peers : Greeted(d)'
  <2>1. DOMAIN toHost = Peers /\ \A d \in Peers : Greeted(d)
    BY DEF MirrorInv
  <2> QED
    BY <1>1, <2>1 DEF Greeted
<1>4. CASE TransferHost
  <2> DEFINE m == [type |-> "host_transfer", successor |-> Successor]
  <2>1. m.type = "host_transfer" /\ toPeer' = Post(toPeer, links, m) /\ UNCHANGED <<links, hClosed>>
    BY <1>4 DEF TransferHost
  <2> HIDE DEF m
  <2>2. Queues(toPeer') /\ \A d \in links' \ hClosed' :
            \/ toPeer'[d] = toPeer[d]
            \/ \E n : toPeer'[d] = Append(toPeer[d], n) /\ n.type \notin {"joined", "roster_update"}
    BY <1>1, <2>1, PostQuiet
  <2> QED
    BY <1>1, <1>3, <2>1, <2>2, HostKeepsRoster
<1>5. CASE CloseForHandoff
  <2>1. links' = {} /\ UNCHANGED <<hClosed, toPeer>>
    BY <1>5 DEF CloseForHandoff
  <2> QED
    BY <1>1, <1>2, <1>3, <2>1, HostKeepsRoster
<1>6. CASE CloseServer \/ Crash
  <2>1. PICK queues : Queues(queues) /\ Shut(queues)
    BY <1>2, <1>6, PostQueues DEF CloseServer, Crash
  <2>2. links' = {} /\ hClosed' = Peers /\ toPeer' = Post(queues, Connected, Msg("close"))
    BY <2>1 DEF Shut
  <2>3. Queues(Post(queues, Connected, Msg("close")))
    BY <2>1, PostQueues
  <2>4. Queues(toPeer') /\ hClosed \subseteq hClosed'
    BY <2>2, <2>3 DEF SignalingTypeOK
  <2> QED
    BY <1>1, <1>3, <2>2, <2>4, HostKeepsRoster
<1> QED
  BY <1>4, <1>5, <1>6

\* The roster of a server that was just started lists its host.
LEMMA InitMirrors == SignalingInit => MirrorInv
<1> SUFFICES ASSUME SignalingInit PROVE MirrorInv
  OBVIOUS
<1> DEFINE host == Entry(Host, 0, TRUE)
<1>1. roster = {host} /\ host.joinSeq = 0
  BY DEF SignalingInit, Entry
<1> HIDE DEF host
<1>2. Numbered({host})
  BY <1>1 DEF Numbered
<1>3. Listing(<<host>>, {host})
  BY DEF Listing, ToSet
<1>4. Listed(roster)
  BY <1>1, <1>2, <1>3, SnapshotLists DEF Listed
<1>5. ASSUME NEW c \in Peers PROVE Queued(c) /\ Greeted(c) /\ Mirrored(c)
  <2>1. Unconfirmed(<<>>) /\ Plain(<<>>)
    BY SeqPlain DEF Unconfirmed
  <2> QED
    BY <2>1 DEF SignalingInit, Queued, Greeted, Mirrored, Following
<1>6. DOMAIN toPeer = Peers /\ DOMAIN toHost = Peers /\ DOMAIN mirror = Peers
  BY DEF SignalingInit
<1> QED
  BY <1>4, <1>5, <1>6 DEF MirrorInv

\* Every step keeps the invariant.
LEMMA MirrorStep ==
    ASSUME SignalingInv, MirrorInv, [SignalingNext]_signalingVars
    PROVE  MirrorInv'
<1>1. SignalingTypeOK /\ LinksAdmitted
  BY DEF SignalingInv
<1>2. CASE UNCHANGED signalingVars
  <2>1. /\ UNCHANGED <<stage, hClosed, roster, links, toHost, toPeer, client, mirror>>
    BY <1>2 DEF signalingVars, server, clients
  <2>2. ASSUME NEW c \in Peers PROVE Queued(c)' /\ Greeted(c)' /\ Mirrored(c)'
    <3>1. Queued(c) /\ Greeted(c) /\ Mirrored(c)
      BY DEF MirrorInv
    <3> QED
      BY <2>1, <3>1 DEF Queued, Greeted, Mirrored, Following
  <2>3. Listed(roster')
    BY <2>1 DEF MirrorInv
  <2> QED
    BY <2>1, <2>2, <2>3 DEF MirrorInv, Listed
<1> QED
  BY <1>1, <1>2, HostMirrors, ClientMirrors, EndMirrors DEF SignalingNext

\* The snapshot and the deltas on their way to a client always make, entry by entry and
\* in order, the roster of the host.
THEOREM MirrorsStayTrue == SignalingSpec => []MirrorsConverge
<1>1. MirrorInv /\ SignalingInv => MirrorsConverge
  <2>1. SUFFICES ASSUME MirrorInv, SignalingInv PROVE MirrorsConverge
    OBVIOUS
  <2>2. links \subseteq Peers
    BY <2>1 DEF SignalingInv, SignalingTypeOK
  <2> QED
    BY <2>1, <2>2 DEF MirrorsConverge, MirrorInv, Mirrored, Following
<1>2. SignalingInit => SignalingInv /\ MirrorInv
  BY InitHolds, InitMirrors
<1>3. SignalingInv /\ MirrorInv /\ [SignalingNext]_signalingVars => SignalingInv' /\ MirrorInv'
  BY SignalingStep, MirrorStep
<1> QED
  BY <1>1, <1>2, <1>3, PTL DEF SignalingSpec
=============================================================================
