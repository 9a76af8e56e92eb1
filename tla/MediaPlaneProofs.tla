-------------------------- MODULE MediaPlaneProofs --------------------------
(***************************************************************************)
(* Theorems about MediaPlane, for every value of its constants.            *)
(*                                                                         *)
(* The invariant is about the router's maps first: which PCs are in use,   *)
(* and by whom.  What the governor keeps follows the counts of viewers.    *)
(***************************************************************************)
EXTENDS MediaPlane, TLAPS

\* A PC in use was made for some viewer and stream, so its key can be looked up.
PcsHaveKeys == \A i \in Pcs : pcState[i] # "none" => pcOf[i] \in Keys

\* Demand is only ever counted of a stream that went live.
DemandedWentLive == \A s \in demanded : publication[s] \in {"live", "ended"}

\* Whoever the governor keeps a report of is linked, on every stream.
NoForeignReports == \A s \in Streams : Reported(governor[s]) \subseteq linked

MediaInv ==
    /\ MediaTypeOK
    /\ PcsHaveKeys
    /\ NothingIsOrphaned
    /\ PcsAccountedFor
    /\ DemandedWentLive
    /\ DemandFollowed
    /\ NoForeignReports

\* What the governor keeps of one stream.
Stream == [level : 0..MaxLevel, paused : BOOLEAN, streak : 0..RecoveryWindows,
           subs : [Peers -> Samples], busy : BOOLEAN]

-----------------------------------------------------------------------------
(* The governor's streams.                                                 *)

LEMMA FreshStream ==
    Fresh \in Stream /\ Reported(Fresh) = {}
  BY MediaAssumption DEF Fresh, Stream, Samples, Reported

LEMMA PausedStream ==
    ASSUME NEW g \in Stream, NEW b \in BOOLEAN
    PROVE  /\ [g EXCEPT !.paused = b] \in Stream
           /\ [g EXCEPT !.paused = b].paused = b
           /\ [g EXCEPT !.paused = b].level = g.level
           /\ [g EXCEPT !.paused = b].subs = g.subs
  BY DEF Stream

LEMMA SampledStream ==
    ASSUME NEW g \in Stream, NEW p \in Peers, NEW q \in Samples
    PROVE  /\ [g EXCEPT !.subs[p] = q] \in Stream
           /\ [g EXCEPT !.subs[p] = q].paused = g.paused
           /\ [g EXCEPT !.subs[p] = q].level = g.level
           /\ Reported([g EXCEPT !.subs[p] = q]) \subseteq Reported(g) \cup {p}
           /\ q = "none" => Reported([g EXCEPT !.subs[p] = q]) = Reported(g) \ {p}
<1> DEFINE h == [g EXCEPT !.subs[p] = q]
<1>1. /\ h \in Stream /\ h.paused = g.paused /\ h.level = g.level
      /\ h.subs = [g.subs EXCEPT ![p] = q]
  BY DEF Stream
<1>2. g.subs \in [Peers -> Samples]
  BY DEF Stream
<1>3. QED BY <1>1, <1>2 DEF Reported

\* evaluate leaves a paused stream alone, and moves no sample.
LEMMA EvaluatedStream ==
    ASSUME NEW g \in Stream
    PROVE  /\ Evaluated(g) \in Stream
           /\ Evaluated(g).paused = g.paused
           /\ Evaluated(g).subs = g.subs
           /\ g.paused => Evaluated(g).level = g.level
<1> USE MediaAssumption
<1>1. CASE g.paused \/ Reported(g) = {}
  BY <1>1 DEF Evaluated
<1>2. CASE ~(g.paused \/ Reported(g) = {}) /\ Unhealthy(g)
  <2>1. PICK l : l = IF g.level < MaxLevel THEN g.level + 1 ELSE g.level
    OBVIOUS
  <2>2. Evaluated(g) = [g EXCEPT !.level = l, !.streak = 0]
    BY <1>2, <2>1 DEF Evaluated
  <2>3. l \in 0..MaxLevel /\ 0 \in 0..RecoveryWindows
    BY <2>1 DEF Stream
  <2>4. /\ Evaluated(g) \in Stream
        /\ Evaluated(g).paused = g.paused /\ Evaluated(g).subs = g.subs
    BY <2>2, <2>3 DEF Stream
  <2>5. QED BY <1>2, <2>4
<1>3. CASE ~(g.paused \/ Reported(g) = {}) /\ ~Unhealthy(g)
  <2>1. CASE g.streak + 1 >= RecoveryWindows /\ g.level > 0
    <3>1. Evaluated(g) = [g EXCEPT !.level = g.level - 1, !.streak = 0]
      BY <1>3, <2>1 DEF Evaluated
    <3>2. g.level - 1 \in 0..MaxLevel /\ 0 \in 0..RecoveryWindows
      BY <2>1 DEF Stream
    <3>3. /\ Evaluated(g) \in Stream
          /\ Evaluated(g).paused = g.paused /\ Evaluated(g).subs = g.subs
      BY <3>1, <3>2 DEF Stream
    <3>4. QED BY <1>3, <3>3
  <2>2. CASE ~(g.streak + 1 >= RecoveryWindows /\ g.level > 0)
    <3>1. PICK k : k = IF g.streak < RecoveryWindows THEN g.streak + 1 ELSE g.streak
      OBVIOUS
    <3>2. Evaluated(g) = [g EXCEPT !.streak = k]
      BY <1>3, <2>2, <3>1 DEF Evaluated
    <3>3. k \in 0..RecoveryWindows
      BY <3>1 DEF Stream
    <3>4. QED BY <1>3, <3>2, <3>3 DEF Stream
  <2>3. QED BY <2>1, <2>2
<1>4. QED BY <1>1, <1>2, <1>3

-----------------------------------------------------------------------------

LEMMA InitHolds == MediaInit => MediaInv
<1> SUFFICES ASSUME MediaInit PROVE MediaInv
  OBVIOUS
<1> USE MediaAssumption DEF MediaInit
<1>1. MediaTypeOK
  BY FreshStream DEF MediaTypeOK, Stream, Keys, Untold
<1>2. PcsHaveKeys /\ DemandedWentLive /\ DemandFollowed
  BY DEF PcsHaveKeys, DemandedWentLive, DemandFollowed
<1>3. NothingIsOrphaned
  BY DEF NothingIsOrphaned, Live
<1>4. PcsAccountedFor
  BY DEF PcsAccountedFor
<1>5. NoForeignReports
  BY FreshStream DEF NoForeignReports
<1>6. QED BY <1>1, <1>2, <1>3, <1>4, <1>5 DEF MediaInv

-----------------------------------------------------------------------------
(* What several operations do to the governor.                             *)

\* demand-changed, as a function of what the governor kept.
Recount(gov, S, subs) ==
    [s \in Streams |->
        IF s \in S THEN [gov[s] EXCEPT !.paused = Viewers(subs, s) = {}] ELSE gov[s]]

LEMMA RecountedStreams ==
    ASSUME NEW gov \in [Streams -> Stream], NEW S, NEW subs, NEW s \in Streams
    PROVE  /\ Recount(gov, S, subs)[s] \in Stream
           /\ Recount(gov, S, subs)[s].level = gov[s].level
           /\ Recount(gov, S, subs)[s].subs = gov[s].subs
           /\ s \in S => Recount(gov, S, subs)[s].paused = (Viewers(subs, s) = {})
           /\ s \notin S => Recount(gov, S, subs)[s] = gov[s]
<1> DEFINE b == Viewers(subs, s) = {}
<1>1. b \in BOOLEAN /\ gov[s] \in Stream
  OBVIOUS
<1>2. CASE s \in S
  <2>1. Recount(gov, S, subs)[s] = [gov[s] EXCEPT !.paused = b]
    BY <1>2 DEF Recount
  <2> HIDE DEF b
  <2>2. /\ [gov[s] EXCEPT !.paused = b] \in Stream
        /\ [gov[s] EXCEPT !.paused = b].paused = b
        /\ [gov[s] EXCEPT !.paused = b].level = gov[s].level
        /\ [gov[s] EXCEPT !.paused = b].subs = gov[s].subs
    BY <1>1, PausedStream
  <2>3. QED BY <1>2, <2>1, <2>2 DEF b
<1>3. CASE s \notin S
  BY <1>1, <1>3 DEF Recount
<1>4. QED BY <1>2, <1>3

\* The owners of S are told, of streams that are live; of the others neither viewers
\* nor rung nor pause changed, unless they ended.
LEMMA DemandKeeps ==
    ASSUME MediaInv, NEW gov \in [Streams -> Stream], NEW S \in SUBSET Streams,
           governor' = Recount(gov, S, subscription'),
           directive' = [s \in Streams |->
                            IF s \notin S THEN directive[s]
                            ELSE IF Viewers(subscription', s) = {} THEN Stop ELSE gov[s].level],
           demanded' = demanded \cup S,
           \A s \in S : publication'[s] = "live",
           \A s \in demanded : /\ publication'[s] \in {"live", "ended"}
                               /\ publication'[s] = "live" => publication[s] = "live",
           \A s \in Streams \ S : publication'[s] = "live" =>
               /\ Viewers(subscription', s) = Viewers(subscription, s)
               /\ gov[s].level = governor[s].level /\ gov[s].paused = governor[s].paused,
           \A s \in Streams : Reported(gov[s]) \subseteq linked'
    PROVE  /\ governor' \in [Streams -> Stream]
           /\ directive' \in [Streams -> {Untold, Stop} \cup (0..MaxLevel)]
           /\ demanded' \subseteq Streams
           /\ DemandedWentLive' /\ DemandFollowed' /\ NoForeignReports'
<1>1. governor \in [Streams -> Stream] /\ demanded \subseteq Streams
      /\ directive \in [Streams -> {Untold, Stop} \cup (0..MaxLevel)]
  BY DEF MediaInv, MediaTypeOK, Stream
<1>2. \A s \in Streams : /\ governor'[s] \in Stream
                         /\ governor'[s].level = gov[s].level
                         /\ governor'[s].subs = gov[s].subs
                         /\ s \in S => governor'[s].paused = (Viewers(subscription', s) = {})
                         /\ s \notin S => governor'[s] = gov[s]
  BY RecountedStreams
<1>3. governor' \in [Streams -> Stream]
  BY <1>2 DEF Recount
<1>4. \A s \in Streams : gov[s].level \in 0..MaxLevel
  BY DEF Stream
<1>5. directive' \in [Streams -> {Untold, Stop} \cup (0..MaxLevel)]
  BY <1>1, <1>4
<1>6. DemandedWentLive'
  BY DEF DemandedWentLive
<1>7. NoForeignReports'
  BY <1>2 DEF NoForeignReports, Reported
<1>8. DemandFollowed'
  <2> SUFFICES ASSUME NEW s \in demanded', Live(s)'
               PROVE  IF Viewers(subscription', s) = {}
                      THEN directive'[s] = Stop /\ governor'[s].paused
                      ELSE directive'[s] = governor'[s].level /\ ~governor'[s].paused
    BY DEF DemandFollowed
  <2>1. s \in Streams /\ publication'[s] = "live"
    BY <1>1 DEF Live
  <2>2. CASE s \in S
    BY <1>2, <2>1, <2>2
  <2>3. CASE s \notin S
    <3>1. s \in demanded /\ Live(s)
      BY <2>1, <2>3 DEF Live
    <3>2. IF Viewers(subscription, s) = {}
          THEN directive[s] = Stop /\ governor[s].paused
          ELSE directive[s] = governor[s].level /\ ~governor[s].paused
      BY <3>1 DEF MediaInv, DemandFollowed
    <3>3. directive'[s] = directive[s] /\ governor'[s] = gov[s]
      BY <1>2, <2>1, <2>3
    <3>4. /\ Viewers(subscription', s) = Viewers(subscription, s)
          /\ gov[s].level = governor[s].level /\ gov[s].paused = governor[s].paused
      BY <2>1, <2>3
    <3>5. QED BY <3>2, <3>3, <3>4
  <2>4. QED BY <2>2, <2>3
<1>9. QED BY <1>1, <1>3, <1>5, <1>6, <1>7, <1>8

-----------------------------------------------------------------------------
(* What several operations do to the router.                               *)

\* States that a PC's listener may have changed before K is dropped: of a PC that
\* is closed already, or of one whose own key is dropped.
MayDrop(K, states) ==
    \A i \in Pcs :
        \/ states[i] = pcState[i]
        \/ states[i] = "over" /\ pcState[i] = "closed"
        \/ states[i] = "failed" /\ pcState[i] = "open" /\ pcOf[i] \in K

PcStates == {"none", "negotiating", "open", "failed", "closed", "over"}

LEMMA DropKeeps ==
    ASSUME MediaInv, NEW K \in SUBSET Keys, NEW states \in [Pcs -> PcStates],
           MayDrop(K, states),
           subscription' = [k \in Keys |-> IF k \in K THEN NoPc ELSE subscription[k]],
           pcState' = [i \in Pcs |-> IF \E k \in K : subscription[k] = i
                                     THEN "closed" ELSE states[i]],
           pcOf' = pcOf, overtaken' = overtaken
    PROVE  /\ subscription' \in [Keys -> Pcs \cup {NoPc}]
           /\ pcState' \in [Pcs -> PcStates]
           /\ PcsHaveKeys' /\ PcsAccountedFor'
<1> USE MediaAssumption
<1>1. /\ subscription \in [Keys -> Pcs \cup {NoPc}] /\ pcOf \in [Pcs -> Keys \cup {NoPc}]
      /\ pcState \in [Pcs -> PcStates]
  BY DEF MediaInv, MediaTypeOK, PcStates
<1>2. /\ \A k \in Keys : subscription[k] # NoPc =>
             pcOf[subscription[k]] = k /\ pcState[subscription[k]] = "open"
      /\ \A i \in Pcs : pcState[i] \in {"open", "failed"} =>
             subscription[pcOf[i]] = i \/ i \in overtaken
  BY DEF MediaInv, PcsAccountedFor
<1>3. \A i \in Pcs : pcState[i] # "none" => pcOf[i] \in Keys
  BY DEF MediaInv, PcsHaveKeys
<1>4. subscription' \in [Keys -> Pcs \cup {NoPc}]
  BY <1>1
<1>5. pcState' \in [Pcs -> PcStates]
  BY DEF PcStates
<1>6. PcsHaveKeys'
  <2> SUFFICES ASSUME NEW i \in Pcs, pcState'[i] # "none" PROVE pcOf[i] \in Keys
    BY DEF PcsHaveKeys
  <2>1. CASE \E k \in K : subscription[k] = i
    <3>1. PICK k \in K : subscription[k] = i
      BY <2>1
    <3>2. QED BY <1>2, <3>1
  <2>2. CASE ~ \E k \in K : subscription[k] = i
    <3>1. states[i] # "none"
      BY <2>2
    <3>2. pcState[i] # "none"
      BY <3>1 DEF MayDrop
    <3>3. QED BY <1>3, <3>2
  <2>3. QED BY <2>1, <2>2
<1>7. ASSUME NEW k \in Keys, subscription'[k] # NoPc
      PROVE  pcOf[subscription'[k]] = k /\ pcState'[subscription'[k]] = "open"
  <2>1. k \notin K /\ subscription'[k] = subscription[k]
    BY <1>7
  <2>2. subscription[k] \in Pcs /\ pcOf[subscription[k]] = k /\ pcState[subscription[k]] = "open"
    BY <1>1, <1>2, <1>7, <2>1
  <2>3. ~ \E l \in K : subscription[l] = subscription[k]
    BY <1>2, <2>1, <2>2
  <2>4. states[subscription[k]] = "open"
    BY <2>1, <2>2 DEF MayDrop
  <2>5. QED BY <2>1, <2>2, <2>3, <2>4
<1>8. ASSUME NEW i \in Pcs, pcState'[i] \in {"open", "failed"}
      PROVE  subscription'[pcOf[i]] = i \/ i \in overtaken
  <2>1. ~ (\E k \in K : subscription[k] = i) /\ pcState'[i] = states[i]
    BY <1>8
  <2>2. pcState[i] \in {"open", "failed"}
    BY <1>8, <2>1 DEF MayDrop
  <2>3. pcOf[i] \in Keys /\ (subscription[pcOf[i]] = i \/ i \in overtaken)
    BY <1>2, <1>3, <2>2
  <2>4. QED BY <2>1, <2>3
<1>9. PcsAccountedFor'
  BY <1>7, <1>8 DEF PcsAccountedFor
<1>10. QED BY <1>4, <1>5, <1>6, <1>9

-----------------------------------------------------------------------------
(* The steps.                                                              *)

\* The negotiations: nothing of the governor, nor of the subscriptions, changes.
LEMMA NegotiationStep ==
    ASSUME MediaInv,
           \/ \E s \in Streams : Publish(s) \/ PublishEnds(s)
           \/ \E p \in Peers, s \in Streams, i \in Pcs : Subscribe(p, s, i)
           \/ \E i \in Pcs : SubscribeFails(i)
    PROVE  MediaInv'
<1> USE MediaAssumption
<1> USE DEF governorVars
<1>1. ASSUME NEW s \in Streams, Publish(s) \/ PublishEnds(s) PROVE MediaInv'
  <2>1. /\ UNCHANGED <<linked, closed, pcOf, pcState, subscription, governor, directive, demanded,
                       overtaken>>
        /\ late \subseteq late' /\ late' \subseteq late \cup {s}
        /\ publication' \in [Streams -> {"idle", "negotiating", "live", "ended"}]
        /\ \A t \in Streams : t # s => publication'[t] = publication[t]
        /\ publication[s] \in {"idle", "negotiating"} /\ publication'[s] # "idle"
        /\ publication'[s] = "live" => s \in late' \/ (~closed /\ OwnerOf[s] \in linked)
    BY <1>1 DEF Publish, PublishEnds, MediaInv, MediaTypeOK
  <2>2. s \notin demanded
    BY <2>1 DEF MediaInv, DemandedWentLive
  <2>3. MediaTypeOK' /\ PcsHaveKeys'
    BY <2>1 DEF MediaInv, MediaTypeOK, PcsHaveKeys
  <2>4. NothingIsOrphaned'
    BY <2>1 DEF MediaInv, NothingIsOrphaned, Live, Keys
  <2>5. PcsAccountedFor' /\ NoForeignReports'
    BY <2>1 DEF MediaInv, PcsAccountedFor, NoForeignReports
  <2>6. DemandedWentLive' /\ DemandFollowed'
    BY <2>1, <2>2 DEF MediaInv, MediaTypeOK, DemandedWentLive, DemandFollowed, Live
  <2>7. QED BY <2>3, <2>4, <2>5, <2>6 DEF MediaInv
<1>2. ASSUME NEW i \in Pcs,
             SubscribeFails(i) \/ \E p \in Peers, s \in Streams : Subscribe(p, s, i)
      PROVE  MediaInv'
  <2>1. /\ UNCHANGED <<linked, closed, publication, subscription, governor, directive, demanded,
                       late, overtaken>>
        /\ pcOf' \in [Pcs -> Keys \cup {NoPc}]
        /\ pcState' \in [Pcs -> {"none", "negotiating", "open", "failed", "closed", "over"}]
        /\ \A j \in Pcs : j # i => pcOf'[j] = pcOf[j] /\ pcState'[j] = pcState[j]
        /\ pcState[i] \in {"none", "negotiating"} /\ pcState'[i] \in {"negotiating", "over"}
        /\ pcOf'[i] \in Keys
    <3> USE DEF MediaInv, MediaTypeOK
    <3>1. CASE SubscribeFails(i)
      BY <3>1 DEF SubscribeFails, PcsHaveKeys
    <3>2. ASSUME NEW p \in Peers, NEW s \in Streams, Subscribe(p, s, i)
          PROVE  /\ <<p, s>> \in Keys
                 /\ pcOf' = [pcOf EXCEPT ![i] = <<p, s>>]
                 /\ pcState[i] = "none" /\ pcState' = [pcState EXCEPT ![i] = "negotiating"]
                 /\ UNCHANGED <<linked, closed, publication, subscription, governorVars, late,
                                overtaken>>
      BY <3>2 DEF Subscribe, Keys
    <3>3. CASE \E p \in Peers, s \in Streams : Subscribe(p, s, i)
      <4>1. PICK p \in Peers, s \in Streams : Subscribe(p, s, i)
        BY <3>3
      <4>2. PICK k \in Keys :
                 /\ pcOf' = [pcOf EXCEPT ![i] = k]
                 /\ pcState[i] = "none" /\ pcState' = [pcState EXCEPT ![i] = "negotiating"]
                 /\ UNCHANGED <<linked, closed, publication, subscription, governorVars, late,
                                overtaken>>
        BY <3>2, <4>1
      <4>3. QED BY <4>2
    <3>4. QED BY <1>2, <3>1, <3>3
  <2>2. MediaTypeOK' /\ PcsHaveKeys'
    BY <2>1 DEF MediaInv, MediaTypeOK, PcsHaveKeys
  <2>3. NothingIsOrphaned'
    BY <2>1 DEF MediaInv, NothingIsOrphaned, Live
  <2>4. PcsAccountedFor'
    BY <2>1 DEF MediaInv, MediaTypeOK, PcsAccountedFor
  <2>5. NoForeignReports' /\ DemandedWentLive' /\ DemandFollowed'
    BY <2>1 DEF MediaInv, NoForeignReports, DemandedWentLive, DemandFollowed, Live
  <2>6. QED BY <2>2, <2>3, <2>4, <2>5 DEF MediaInv
<1>3. QED BY <1>1, <1>2

\* What a viewer or an owner reports touches the samples of one live stream.
LEMMA ReportStep ==
    ASSUME MediaInv,
           \/ \E p \in Peers, s \in Streams : ViewerReports(p, s)
           \/ \E s \in Streams : OwnerReports(s)
    PROVE  MediaInv'
<1>1. governor \in [Streams -> Stream]
  BY DEF MediaInv, MediaTypeOK, Stream
<1>2. PICK s \in Streams :
         /\ UNCHANGED <<routerVars, directive, demanded, late, overtaken>>
         /\ governor' \in [Streams -> Stream]
         /\ \A t \in Streams : t # s => governor'[t] = governor[t]
         /\ governor'[s].level = governor[s].level /\ governor'[s].paused = governor[s].paused
         /\ Reported(governor'[s]) \subseteq Reported(governor[s]) \cup linked
  <2>1. ASSUME NEW p \in Peers, NEW s \in Streams, ViewerReports(p, s)
        PROVE  /\ UNCHANGED <<routerVars, directive, demanded, late, overtaken>>
               /\ governor' \in [Streams -> Stream]
               /\ \A t \in Streams : t # s => governor'[t] = governor[t]
               /\ governor'[s].level = governor[s].level
               /\ governor'[s].paused = governor[s].paused
               /\ Reported(governor'[s]) \subseteq Reported(governor[s]) \cup linked
    <3>1. PICK q \in {"good", "lossy"} : governor' = [governor EXCEPT ![s].subs[p] = q]
      BY <2>1 DEF ViewerReports
    <3>2. governor' = [governor EXCEPT ![s] = [governor[s] EXCEPT !.subs[p] = q]]
      BY <1>1, <3>1
    <3>3. q \in Samples /\ p \in linked /\ governor[s] \in Stream
      BY <1>1, <2>1 DEF Samples, ViewerReports
    <3>4. /\ governor' \in [Streams -> Stream]
          /\ \A t \in Streams : t # s => governor'[t] = governor[t]
          /\ governor'[s] = [governor[s] EXCEPT !.subs[p] = q]
      BY <1>1, <3>2, <3>3, SampledStream
    <3>5. QED BY <2>1, <3>3, <3>4, SampledStream DEF ViewerReports
  <2>2. ASSUME NEW s \in Streams, OwnerReports(s)
        PROVE  /\ UNCHANGED <<routerVars, directive, demanded, late, overtaken>>
               /\ governor' \in [Streams -> Stream]
               /\ \A t \in Streams : t # s => governor'[t] = governor[t]
               /\ governor'[s].level = governor[s].level
               /\ governor'[s].paused = governor[s].paused
               /\ Reported(governor'[s]) \subseteq Reported(governor[s]) \cup linked
    <3>1. PICK b \in BOOLEAN : governor' = [governor EXCEPT ![s].busy = b]
      BY <2>2 DEF OwnerReports
    <3>2. /\ governor' \in [Streams -> Stream]
          /\ \A t \in Streams : t # s => governor'[t] = governor[t]
          /\ governor'[s].level = governor[s].level /\ governor'[s].paused = governor[s].paused
          /\ governor'[s].subs = governor[s].subs
      BY <1>1, <3>1 DEF Stream
    <3>3. QED BY <2>2, <3>2 DEF OwnerReports, Reported
  <2>3. QED BY <2>1, <2>2
<1>3. \A t \in Streams : /\ governor'[t].level = governor[t].level
                         /\ governor'[t].paused = governor[t].paused
  BY <1>2
<1> USE DEF routerVars
<1>4. MediaTypeOK' /\ PcsHaveKeys'
  BY <1>2 DEF MediaInv, MediaTypeOK, PcsHaveKeys, Stream
<1>5. NothingIsOrphaned' /\ PcsAccountedFor' /\ DemandedWentLive'
  BY <1>2 DEF MediaInv, NothingIsOrphaned, PcsAccountedFor, DemandedWentLive, Live
<1>6. DemandFollowed'
  BY <1>2, <1>3 DEF MediaInv, MediaTypeOK, DemandFollowed, Live
<1>7. NoForeignReports'
  BY <1>2 DEF MediaInv, NoForeignReports
<1>8. QED BY <1>4, <1>5, <1>6, <1>7 DEF MediaInv

\* A subscription ends, if it is still there, and the viewers that remain are counted.
LEMMA DropOneStep ==
    ASSUME MediaInv, NEW k \in Keys, NEW states \in [Pcs -> PcStates],
           MayDrop({k}, states), DropOne(k, states),
           UNCHANGED <<linked, closed, publication, pcOf, late, overtaken>>
    PROVE  MediaInv'
<1> DEFINE S == {s \in Streams : s = k[2] /\ Live(s) /\ subscription[k] # NoPc}
<1>1. governor \in [Streams -> Stream]
  BY DEF MediaInv, MediaTypeOK, Stream
<1>2. /\ subscription' = [l \in Keys |-> IF l \in {k} THEN NoPc ELSE subscription[l]]
      /\ pcState' = [i \in Pcs |-> IF \E l \in {k} : subscription[l] = i
                                   THEN "closed" ELSE states[i]]
  BY DEF DropOne, Drop
<1>3. /\ subscription' \in [Keys -> Pcs \cup {NoPc}] /\ pcState' \in [Pcs -> PcStates]
      /\ PcsHaveKeys' /\ PcsAccountedFor'
  BY <1>2, DropKeeps
<1>4. /\ governor' = Recount(governor, S, subscription')
      /\ directive' = [s \in Streams |->
                          IF s \notin S THEN directive[s]
                          ELSE IF Viewers(subscription', s) = {} THEN Stop ELSE governor[s].level]
      /\ demanded' = demanded \cup S
  BY DEF DropOne, Demand, Recount
<1>5. \A s \in S : publication'[s] = "live"
  BY DEF Live
<1>6. \A s \in demanded : /\ publication'[s] \in {"live", "ended"}
                          /\ publication'[s] = "live" => publication[s] = "live"
  BY DEF MediaInv, DemandedWentLive
<1>7. ASSUME NEW s \in Streams \ S, publication'[s] = "live"
      PROVE  Viewers(subscription', s) = Viewers(subscription, s)
  <2>1. ASSUME NEW p \in Peers PROVE (subscription'[<<p, s>>] # NoPc) <=> (subscription[<<p, s>>] # NoPc)
    <3>1. <<p, s>> \in Keys /\ <<p, s>>[2] = s
      BY DEF Keys
    <3>2. CASE <<p, s>> = k
      BY <1>2, <1>7, <3>1, <3>2 DEF Live
    <3>3. CASE <<p, s>> # k
      BY <1>2, <3>1, <3>3
    <3>4. QED BY <3>2, <3>3
  <2>2. QED BY <2>1 DEF Viewers
<1>8. \A s \in Streams : Reported(governor[s]) \subseteq linked'
  BY DEF MediaInv, NoForeignReports
<1>9. /\ governor' \in [Streams -> Stream]
      /\ directive' \in [Streams -> {Untold, Stop} \cup (0..MaxLevel)]
      /\ demanded' \subseteq Streams
      /\ DemandedWentLive' /\ DemandFollowed' /\ NoForeignReports'
  <2> S \in SUBSET Streams
    OBVIOUS
  <2> HIDE DEF S
  <2>1. QED BY <1>1, <1>4, <1>5, <1>6, <1>7, <1>8, DemandKeeps
<1>10. MediaTypeOK'
  BY <1>3, <1>9 DEF MediaInv, MediaTypeOK, Stream, PcStates
<1>11. NothingIsOrphaned'
  BY <1>2 DEF MediaInv, NothingIsOrphaned, Live
<1>12. QED BY <1>3, <1>9, <1>10, <1>11 DEF MediaInv

LEMMA UnsubscribeStep ==
    ASSUME MediaInv,
           \/ \E p \in Peers, s \in Streams : Unsubscribe(p, s)
           \/ \E i \in Pcs : PcEnds(i)
    PROVE  MediaInv'
<1>1. pcState \in [Pcs -> PcStates]
  BY DEF MediaInv, MediaTypeOK, PcStates
<1>2. ASSUME NEW p \in Peers, NEW s \in Streams, Unsubscribe(p, s) PROVE MediaInv'
  <2>1. <<p, s>> \in Keys /\ MayDrop({<<p, s>>}, pcState)
    BY DEF Keys, MayDrop
  <2>2. QED BY <1>1, <1>2, <2>1, DropOneStep DEF Unsubscribe
<1>3. ASSUME NEW i \in Pcs, PcEnds(i) PROVE MediaInv'
  <2>1. pcOf[i] \in Keys
    BY <1>3 DEF PcEnds, MediaInv, PcsHaveKeys
  <2>2. PICK states \in [Pcs -> PcStates] :
             /\ MayDrop({pcOf[i]}, states) /\ DropOne(pcOf[i], states)
             /\ UNCHANGED <<linked, closed, publication, pcOf, late, overtaken>>
    <3>1. CASE pcState[i] = "open" /\ DropOne(pcOf[i], [pcState EXCEPT ![i] = "failed"])
      <4>1. [pcState EXCEPT ![i] = "failed"] \in [Pcs -> PcStates]
            /\ MayDrop({pcOf[i]}, [pcState EXCEPT ![i] = "failed"])
        BY <1>1, <3>1 DEF MayDrop, PcStates
      <4>2. QED BY <1>3, <3>1, <4>1 DEF PcEnds
    <3>2. CASE pcState[i] = "closed" /\ DropOne(pcOf[i], [pcState EXCEPT ![i] = "over"])
      <4>1. [pcState EXCEPT ![i] = "over"] \in [Pcs -> PcStates]
            /\ MayDrop({pcOf[i]}, [pcState EXCEPT ![i] = "over"])
        BY <1>1, <3>2 DEF MayDrop, PcStates
      <4>2. QED BY <1>3, <3>2, <4>1 DEF PcEnds
    <3>3. QED BY <1>3, <3>1, <3>2 DEF PcEnds
  <2>3. QED BY <2>1, <2>2, DropOneStep
<1>4. QED BY <1>2, <1>3

\* Streams end together with their subscriptions, and the governor forgets them; of
\* the others the subscriptions of the peers that leave are dropped and counted.
LEMMA StreamsEndStep ==
    ASSUME MediaInv, NEW K \in SUBSET Keys, NEW ended \in SUBSET Streams,
           NEW S \in SUBSET Streams, NEW gov \in [Streams -> Stream],
           Drop(K, pcState),
           UNCHANGED <<pcOf, late, overtaken>>,
           linked' \subseteq linked, closed' \in BOOLEAN,
           publication' = [s \in Streams |-> IF s \in ended THEN "ended" ELSE publication[s]],
           governor' = Recount(gov, S, subscription'),
           directive' = [s \in Streams |->
                            IF s \notin S THEN directive[s]
                            ELSE IF Viewers(subscription', s) = {} THEN Stop ELSE gov[s].level],
           demanded' = demanded \cup S,
           \A s \in S : publication[s] = "live" /\ s \notin ended,
           \A s \in Streams \ S : publication'[s] = "live" =>
               /\ \A p \in Peers : <<p, s>> \in K => subscription[<<p, s>>] = NoPc
               /\ gov[s].level = governor[s].level /\ gov[s].paused = governor[s].paused,
           \A s \in Streams : Reported(gov[s]) \subseteq linked',
           \* Nothing is left of those that are gone.
           \A s \in Streams : publication'[s] = "live" =>
               s \in late \/ (~closed' /\ OwnerOf[s] \in linked'),
           \A k \in Keys \ K : subscription[k] # NoPc =>
               subscription[k] \in late \/ (~closed' /\ k[2] \notin ended /\ k[1] \in linked')
    PROVE  MediaInv'
<1>1. /\ subscription' = [l \in Keys |-> IF l \in K THEN NoPc ELSE subscription[l]]
      /\ pcState' = [i \in Pcs |-> IF \E l \in K : subscription[l] = i
                                   THEN "closed" ELSE pcState[i]]
  BY DEF Drop
<1>2. /\ subscription' \in [Keys -> Pcs \cup {NoPc}] /\ pcState' \in [Pcs -> PcStates]
      /\ PcsHaveKeys' /\ PcsAccountedFor'
  <2>1. pcState \in [Pcs -> PcStates] /\ MayDrop(K, pcState)
    BY DEF MediaInv, MediaTypeOK, PcStates, MayDrop
  <2>2. QED BY <1>1, <2>1, DropKeeps
<1>3. \A s \in S : publication'[s] = "live"
  OBVIOUS
<1>4. \A s \in demanded : /\ publication'[s] \in {"live", "ended"}
                          /\ publication'[s] = "live" => publication[s] = "live"
  BY DEF MediaInv, MediaTypeOK, DemandedWentLive
<1>5. ASSUME NEW s \in Streams \ S, publication'[s] = "live"
      PROVE  Viewers(subscription', s) = Viewers(subscription, s)
  <2>1. ASSUME NEW p \in Peers PROVE subscription'[<<p, s>>] = subscription[<<p, s>>]
    BY <1>1, <1>5 DEF Keys
  <2>2. QED BY <2>1 DEF Viewers
<1>6. /\ governor' \in [Streams -> Stream]
      /\ directive' \in [Streams -> {Untold, Stop} \cup (0..MaxLevel)]
      /\ demanded' \subseteq Streams
      /\ DemandedWentLive' /\ DemandFollowed' /\ NoForeignReports'
  <2>1. \A s \in Streams \ S : publication'[s] = "live" =>
            /\ Viewers(subscription', s) = Viewers(subscription, s)
            /\ gov[s].level = governor[s].level /\ gov[s].paused = governor[s].paused
    BY <1>5
  <2>2. QED BY <1>3, <1>4, <2>1, DemandKeeps
<1>7. MediaTypeOK'
  BY <1>2, <1>6 DEF MediaInv, MediaTypeOK, Stream, PcStates
<1>8. NothingIsOrphaned'
  <2>1. \A k \in Keys : subscription'[k] # NoPc =>
            k \notin K /\ subscription'[k] = subscription[k]
    BY <1>1
  <2>2. \A k \in Keys : subscription[k] # NoPc => subscription[k] \in late \/ Live(k[2])
    BY DEF MediaInv, NothingIsOrphaned
  <2>3. \A k \in Keys : k[2] \in Streams
    BY DEF Keys
  <2>4. QED BY <2>1, <2>2, <2>3 DEF NothingIsOrphaned, Live
<1>9. QED BY <1>2, <1>6, <1>7, <1>8 DEF MediaInv

LEMMA ForgottenStreams ==
    ASSUME NEW gov \in [Streams -> Stream], NEW S
    PROVE  /\ Forget(gov, S) \in [Streams -> Stream]
           /\ \A s \in Streams : /\ s \in S => Forget(gov, S)[s] = Fresh
                                 /\ s \notin S => Forget(gov, S)[s] = gov[s]
  BY FreshStream DEF Forget

\* Counting nobody changes nothing.
LEMMA RecountNone ==
    ASSUME NEW gov \in [Streams -> Stream], NEW subs
    PROVE  Recount(gov, {}, subs) = gov
  BY DEF Recount

LEMMA UnpublishStep ==
    ASSUME MediaInv, NEW s \in Streams, Unpublish(s)
    PROVE  MediaInv'
<1> DEFINE K == {k \in Keys : k[2] = s}
<1> DEFINE gov == Forget(governor, {s})
<1>1. governor \in [Streams -> Stream] /\ directive = [t \in Streams |-> directive[t]]
  BY DEF MediaInv, MediaTypeOK, Stream
<1>2. gov \in [Streams -> Stream] /\ gov[s] = Fresh /\ \A t \in Streams : t # s => gov[t] = governor[t]
  BY <1>1, ForgottenStreams
<1>3. /\ Live(s) /\ governor' = gov /\ Drop(K, pcState)
      /\ UNCHANGED <<linked, closed, pcOf, directive, demanded, late, overtaken>>
      /\ publication' = [publication EXCEPT ![s] = "ended"]
  BY DEF Unpublish, EndStream
<1>4. K \in SUBSET Keys /\ \A k \in Keys : k \notin K => k[2] # s
  OBVIOUS
<1>5. \A p \in Peers, t \in Streams : <<p, t>> \in K => t = s
  OBVIOUS
<1> HIDE DEF K, gov
<1>6. publication' = [t \in Streams |-> IF t \in {s} THEN "ended" ELSE publication[t]]
  BY <1>3 DEF MediaInv, MediaTypeOK
<1>7. governor' = Recount(gov, {}, subscription')
  BY <1>2, <1>3, RecountNone
<1>8. directive' = [t \in Streams |->
                       IF t \notin {} THEN directive[t]
                       ELSE IF Viewers(subscription', t) = {} THEN Stop ELSE gov[t].level]
  BY <1>1, <1>3
<1>9. \A t \in Streams : Reported(gov[t]) \subseteq linked'
  BY <1>2, <1>3, FreshStream DEF MediaInv, NoForeignReports
<1>10. \A t \in Streams : publication'[t] = "live" =>
           t # s /\ (t \in late \/ (~closed' /\ OwnerOf[t] \in linked'))
  BY <1>3, <1>6 DEF MediaInv, NothingIsOrphaned, Live
<1>11. \A k \in Keys \ K : subscription[k] # NoPc =>
           subscription[k] \in late \/ (~closed' /\ k[2] \notin {s} /\ k[1] \in linked')
  BY <1>3, <1>4 DEF MediaInv, NothingIsOrphaned
<1>12. closed' \in BOOLEAN
  BY <1>3 DEF MediaInv, MediaTypeOK
<1>13. PICK E \in SUBSET Streams, S \in SUBSET Streams : E = {s} /\ S = {}
  OBVIOUS
<1>14. /\ \A t \in Streams \ S : publication'[t] = "live" =>
              /\ \A p \in Peers : <<p, t>> \in K => subscription[<<p, t>>] = NoPc
              /\ gov[t].level = governor[t].level /\ gov[t].paused = governor[t].paused
       /\ \A t \in S : publication[t] = "live" /\ t \notin E
       /\ demanded' = demanded \cup S
  BY <1>2, <1>3, <1>5, <1>10, <1>13
<1>15. QED
  BY <1>2, <1>3, <1>4, <1>6, <1>7, <1>8, <1>9, <1>10, <1>11, <1>12, <1>13, <1>14, StreamsEndStep

LEMMA CloseStep ==
    ASSUME MediaInv, Close
    PROVE  MediaInv'
<1> DEFINE ended == {s \in Streams : Live(s)}
<1> DEFINE gov == [s \in Streams |-> Fresh]
<1>1. directive = [t \in Streams |-> directive[t]]
  BY DEF MediaInv, MediaTypeOK
<1>2. gov \in [Streams -> Stream] /\ \A s \in Streams : Reported(gov[s]) = {}
  BY FreshStream
<1>3. /\ closed' = TRUE /\ linked' = {} /\ Drop(Keys, pcState)
      /\ UNCHANGED <<pcOf, directive, demanded, late, overtaken>>
      /\ publication' = [s \in Streams |-> IF s \in ended THEN "ended" ELSE publication[s]]
      /\ governor' = gov
  BY DEF Close
<1>4. \A s \in Streams : publication'[s] # "live"
  BY <1>3 DEF Live
<1> HIDE DEF ended, gov
<1>5. PICK K \in SUBSET Keys, S \in SUBSET Streams, E \in SUBSET Streams :
         K = Keys /\ S = {} /\ E = ended
  BY DEF ended
<1>6. /\ governor' = Recount(gov, S, subscription')
      /\ directive' = [t \in Streams |->
                          IF t \notin S THEN directive[t]
                          ELSE IF Viewers(subscription', t) = {} THEN Stop ELSE gov[t].level]
      /\ demanded' = demanded \cup S
  BY <1>1, <1>2, <1>3, <1>5, RecountNone
<1>7. /\ Drop(K, pcState) /\ closed' \in BOOLEAN /\ linked' \subseteq linked
      /\ UNCHANGED <<pcOf, late, overtaken>>
      /\ publication' = [s \in Streams |-> IF s \in E THEN "ended" ELSE publication[s]]
      /\ \A s \in S : publication[s] = "live" /\ s \notin E
      /\ \A s \in Streams : Reported(gov[s]) \subseteq linked'
  BY <1>2, <1>3, <1>5
<1>8. /\ \A s \in Streams \ S : publication'[s] = "live" =>
             /\ \A p \in Peers : <<p, s>> \in K => subscription[<<p, s>>] = NoPc
             /\ gov[s].level = governor[s].level /\ gov[s].paused = governor[s].paused
      /\ \A s \in Streams : publication'[s] = "live" =>
             s \in late \/ (~closed' /\ OwnerOf[s] \in linked')
      /\ \A k \in Keys \ K : subscription[k] # NoPc =>
             subscription[k] \in late \/ (~closed' /\ k[2] \notin E /\ k[1] \in linked')
  BY <1>4, <1>5
<1>9. QED
  BY <1>2, <1>6, <1>7, <1>8, StreamsEndStep

LEMMA PeerGoneStep ==
    ASSUME MediaInv, NEW p \in Peers, PeerGone(p)
    PROVE  MediaInv'
<1> DEFINE ended == {s \in Streams : Live(s) /\ OwnerOf[s] = p}
<1> DEFINE S == {s \in Streams : Live(s) /\ subscription[<<p, s>>] # NoPc} \ ended
<1> DEFINE dropped == [s \in Streams |-> [governor[s] EXCEPT !.subs[p] = "none"]]
<1> DEFINE gov == Forget(dropped, ended)
<1> DEFINE K == {k \in Keys : k[1] = p \/ k[2] \in ended}
<1>1. \A s \in Streams : governor[s] \in Stream
  BY DEF MediaInv, MediaTypeOK, Stream
<1>2. ASSUME NEW s \in Streams
      PROVE  /\ dropped[s] \in Stream
             /\ dropped[s].level = governor[s].level /\ dropped[s].paused = governor[s].paused
             /\ Reported(dropped[s]) = Reported(governor[s]) \ {p}
  <2>1. dropped[s] = [governor[s] EXCEPT !.subs[p] = "none"] /\ "none" \in Samples
    BY DEF Samples
  <2> HIDE DEF dropped
  <2>2. governor[s] \in Stream
    BY <1>1
  <2>3. /\ [governor[s] EXCEPT !.subs[p] = "none"] \in Stream
        /\ [governor[s] EXCEPT !.subs[p] = "none"].paused = governor[s].paused
        /\ [governor[s] EXCEPT !.subs[p] = "none"].level = governor[s].level
        /\ Reported([governor[s] EXCEPT !.subs[p] = "none"]) = Reported(governor[s]) \ {p}
    BY <2>1, <2>2, SampledStream
  <2>4. QED BY <2>1, <2>3
<1>3. /\ gov \in [Streams -> Stream]
      /\ \A s \in Streams : /\ s \in ended => gov[s] = Fresh
                            /\ s \notin ended => gov[s] = dropped[s]
  <2>1. dropped \in [Streams -> Stream]
    BY <1>2
  <2> HIDE DEF dropped, ended
  <2>2. QED BY <2>1, ForgottenStreams
<1>4. /\ p \in linked /\ linked' = linked \ {p} /\ Drop(K, pcState)
      /\ UNCHANGED <<closed, pcOf, late, overtaken>>
      /\ publication' = [s \in Streams |-> IF s \in ended THEN "ended" ELSE publication[s]]
  BY DEF PeerGone
<1>5. /\ governor' = Recount(gov, S, subscription')
      /\ directive' = [s \in Streams |->
                          IF s \notin S THEN directive[s]
                          ELSE IF Viewers(subscription', s) = {} THEN Stop ELSE gov[s].level]
      /\ demanded' = demanded \cup S
  BY DEF PeerGone, Demand, Recount
<1>6. ended \in SUBSET Streams /\ S \in SUBSET Streams /\ K \in SUBSET Keys
  OBVIOUS
<1>7. \A s \in S : publication[s] = "live" /\ s \notin ended
  BY DEF Live
<1>8. ASSUME NEW s \in Streams \ S, publication'[s] = "live"
      PROVE  /\ s \notin ended
             /\ \A q \in Peers : <<q, s>> \in K => subscription[<<q, s>>] = NoPc
  BY <1>4, <1>8 DEF Live
<1>9. \A s \in Streams \ S : publication'[s] = "live" =>
          /\ \A q \in Peers : <<q, s>> \in K => subscription[<<q, s>>] = NoPc
          /\ gov[s].level = governor[s].level /\ gov[s].paused = governor[s].paused
  BY <1>2, <1>3, <1>8
<1>10. \A s \in Streams : Reported(gov[s]) \subseteq linked'
  BY <1>2, <1>3, <1>4, FreshStream DEF MediaInv, NoForeignReports
<1>11. \A s \in Streams : publication'[s] = "live" =>
           s \in late \/ (~closed' /\ OwnerOf[s] \in linked')
  BY <1>4 DEF MediaInv, NothingIsOrphaned, Live
<1>12. \A k \in Keys \ K : subscription[k] # NoPc =>
           subscription[k] \in late \/ (~closed' /\ k[2] \notin ended /\ k[1] \in linked')
  BY <1>4 DEF MediaInv, NothingIsOrphaned
<1>13. closed' \in BOOLEAN /\ linked' \subseteq linked
  BY <1>4 DEF MediaInv, MediaTypeOK
<1> HIDE DEF ended, S, dropped, gov, K
<1>14. QED
  BY <1>3, <1>4, <1>5, <1>6, <1>7, <1>9, <1>10, <1>11, <1>12, <1>13, StreamsEndStep

\* A negotiation ends: its PC takes the place of whatever the map holds.
LEMMA SubscribedStep ==
    ASSUME MediaInv, NEW i \in Pcs, Subscribed(i)
    PROVE  MediaInv'
<1> USE MediaAssumption
<1>1. /\ governor \in [Streams -> Stream]
      /\ subscription \in [Keys -> Pcs \cup {NoPc}] /\ pcOf \in [Pcs -> Keys \cup {NoPc}]
      /\ pcState \in [Pcs -> PcStates]
  BY DEF MediaInv, MediaTypeOK, Stream, PcStates
<1>2. PICK p \in Peers, s \in Streams : pcOf[i] = <<p, s>>
  BY DEF Subscribed, MediaInv, PcsHaveKeys, Keys
<1> DEFINE k == <<p, s>>
<1> DEFINE S == {s} \cap {t \in Streams : Live(t)}
<1>3. k \in Keys /\ k = pcOf[i] /\ k[1] = p /\ k[2] = s
  BY <1>2 DEF Keys
<1>4. /\ pcState[i] = "negotiating"
      /\ pcState' = [pcState EXCEPT ![i] = "open"]
      /\ subscription' = [subscription EXCEPT ![k] = i]
      /\ overtaken' = overtaken \cup ({subscription[k]} \ {NoPc})
      /\ late' = IF closed \/ p \notin linked \/ ~Live(s) THEN late \cup {i} ELSE late
      /\ UNCHANGED <<linked, closed, publication, pcOf>>
  BY <1>2 DEF Subscribed
<1>5. /\ governor' = Recount(governor, S, subscription')
      /\ directive' = [t \in Streams |->
                          IF t \notin S THEN directive[t]
                          ELSE IF Viewers(subscription', t) = {} THEN Stop ELSE governor[t].level]
      /\ demanded' = demanded \cup S
  BY <1>2 DEF Subscribed, Demand, Recount
<1> HIDE DEF k
<1>6. subscription' \in [Keys -> Pcs \cup {NoPc}] /\ PcsHaveKeys'
  BY <1>1, <1>3, <1>4 DEF MediaInv, PcsHaveKeys
<1>7. PcsAccountedFor'
  <2>1. /\ \A l \in Keys : subscription[l] # NoPc =>
               pcOf[subscription[l]] = l /\ pcState[subscription[l]] = "open"
        /\ \A j \in Pcs : pcState[j] \in {"open", "failed"} =>
               subscription[pcOf[j]] = j \/ j \in overtaken
        /\ \A j \in Pcs : pcState[j] # "none" => pcOf[j] \in Keys
    BY DEF MediaInv, PcsAccountedFor, PcsHaveKeys
  <2>2. ASSUME NEW l \in Keys, subscription'[l] # NoPc
        PROVE  pcOf[subscription'[l]] = l /\ pcState'[subscription'[l]] = "open"
    BY <1>1, <1>3, <1>4, <2>1, <2>2
  <2>3. ASSUME NEW j \in Pcs, pcState'[j] \in {"open", "failed"}
        PROVE  subscription'[pcOf[j]] = j \/ j \in overtaken'
    BY <1>1, <1>3, <1>4, <2>1, <2>3
  <2>4. QED BY <1>4, <2>2, <2>3 DEF PcsAccountedFor
<1>8. NothingIsOrphaned'
  <2>1. ASSUME NEW l \in Keys, subscription'[l] # NoPc
        PROVE  subscription'[l] \in late' \/ (~closed' /\ Live(l[2])' /\ l[1] \in linked')
    <3>1. CASE l = k
      BY <1>1, <1>3, <1>4, <3>1 DEF Live
    <3>2. CASE l # k
      BY <1>1, <1>4, <2>1, <3>2 DEF MediaInv, NothingIsOrphaned, Live
    <3>3. QED BY <3>1, <3>2
  <2>2. \A t \in Streams : Live(t)' => t \in late' \/ (~closed' /\ OwnerOf[t] \in linked')
    BY <1>4 DEF MediaInv, NothingIsOrphaned, Live
  <2>3. QED BY <2>1, <2>2 DEF NothingIsOrphaned
<1>9. ASSUME NEW t \in Streams \ S, publication'[t] = "live"
      PROVE  Viewers(subscription', t) = Viewers(subscription, t)
  <2>1. t # s
    BY <1>4, <1>9 DEF Live
  <2>2. ASSUME NEW q \in Peers PROVE subscription'[<<q, t>>] = subscription[<<q, t>>]
    BY <1>1, <1>4, <2>1 DEF Keys, k
  <2>3. QED BY <2>2 DEF Viewers
<1>10. /\ \A t \in S : publication'[t] = "live"
       /\ \A t \in demanded : /\ publication'[t] \in {"live", "ended"}
                              /\ publication'[t] = "live" => publication[t] = "live"
       /\ \A t \in Streams : Reported(governor[t]) \subseteq linked'
  BY <1>4 DEF MediaInv, DemandedWentLive, NoForeignReports, Live
<1>11. /\ governor' \in [Streams -> Stream]
       /\ directive' \in [Streams -> {Untold, Stop} \cup (0..MaxLevel)]
       /\ demanded' \subseteq Streams
       /\ DemandedWentLive' /\ DemandFollowed' /\ NoForeignReports'
  <2>1. S \in SUBSET Streams
    OBVIOUS
  <2> HIDE DEF S
  <2>2. QED BY <1>1, <1>5, <1>9, <1>10, <2>1, DemandKeeps
<1>12. MediaTypeOK'
  <2>1. /\ late' \subseteq Pcs \cup Streams /\ overtaken' \subseteq Pcs
        /\ pcState' \in [Pcs -> PcStates]
    BY <1>1, <1>3, <1>4 DEF MediaInv, MediaTypeOK, PcStates
  <2>2. QED BY <1>4, <1>6, <1>11, <2>1 DEF MediaInv, MediaTypeOK, Stream, PcStates
<1>13. QED BY <1>6, <1>7, <1>8, <1>11, <1>12 DEF MediaInv

\* The timer: a stream that is not paused and whose rung changed has its owner told.
LEMMA EvaluateStep ==
    ASSUME MediaInv, Evaluate
    PROVE  MediaInv'
<1> USE DEF routerVars
<1> DEFINE next == [s \in Streams |-> IF Live(s) THEN Evaluated(governor[s]) ELSE governor[s]]
<1>1. /\ governor \in [Streams -> Stream]
      /\ directive \in [Streams -> {Untold, Stop} \cup (0..MaxLevel)]
  BY DEF MediaInv, MediaTypeOK, Stream
<1>2. ASSUME NEW s \in Streams
      PROVE  /\ next[s] \in Stream
             /\ next[s].paused = governor[s].paused /\ next[s].subs = governor[s].subs
             /\ governor[s].paused => next[s].level = governor[s].level
  BY <1>1, EvaluatedStream
<1>3. /\ governor' = next
      /\ directive' = [s \in Streams |-> IF next[s].level # governor[s].level
                                         THEN next[s].level ELSE directive[s]]
      /\ UNCHANGED <<linked, closed, publication, pcOf, pcState, subscription, demanded, late,
                     overtaken>>
  BY DEF Evaluate
<1>4. next \in [Streams -> Stream]
  BY <1>2
<1> HIDE DEF next
<1>5. directive' \in [Streams -> {Untold, Stop} \cup (0..MaxLevel)]
  <2>1. \A s \in Streams : next[s].level \in 0..MaxLevel
    BY <1>4 DEF Stream
  <2>2. QED BY <1>1, <1>3, <2>1
<1>6. MediaTypeOK' /\ PcsHaveKeys'
  BY <1>3, <1>4, <1>5 DEF MediaInv, MediaTypeOK, PcsHaveKeys, Stream
<1>7. NothingIsOrphaned' /\ PcsAccountedFor' /\ DemandedWentLive'
  BY <1>3 DEF MediaInv, NothingIsOrphaned, PcsAccountedFor, DemandedWentLive, Live
<1>8. NoForeignReports'
  BY <1>2, <1>3 DEF MediaInv, NoForeignReports, Reported
<1>9. DemandFollowed'
  <2> SUFFICES ASSUME NEW s \in demanded, Live(s)
               PROVE  IF Viewers(subscription, s) = {}
                      THEN directive'[s] = Stop /\ governor'[s].paused
                      ELSE directive'[s] = governor'[s].level /\ ~governor'[s].paused
    BY <1>3 DEF DemandFollowed, Live
  <2>1. s \in Streams
    BY DEF MediaInv, MediaTypeOK
  <2>2. IF Viewers(subscription, s) = {}
        THEN directive[s] = Stop /\ governor[s].paused
        ELSE directive[s] = governor[s].level /\ ~governor[s].paused
    BY DEF MediaInv, DemandFollowed
  <2>3. QED BY <1>2, <1>3, <2>1, <2>2
<1>10. QED BY <1>6, <1>7, <1>8, <1>9 DEF MediaInv

LEMMA MediaStep ==
    ASSUME MediaInv, [MediaNext]_mediaVars
    PROVE  MediaInv'
<1>1. CASE UNCHANGED mediaVars
  BY <1>1 DEF mediaVars, routerVars, governorVars, MediaInv, MediaTypeOK, PcsHaveKeys,
              NothingIsOrphaned, PcsAccountedFor, DemandedWentLive, DemandFollowed,
              NoForeignReports, Live
<1>2. CASE MediaNext
  <2>1. CASE \/ \E s \in Streams : Publish(s) \/ PublishEnds(s)
             \/ \E p \in Peers, s \in Streams, i \in Pcs : Subscribe(p, s, i)
             \/ \E i \in Pcs : SubscribeFails(i)
    BY <2>1, NegotiationStep
  <2>2. CASE \/ \E p \in Peers, s \in Streams : ViewerReports(p, s)
             \/ \E s \in Streams : OwnerReports(s)
    BY <2>2, ReportStep
  <2>3. CASE \/ \E p \in Peers, s \in Streams : Unsubscribe(p, s)
             \/ \E i \in Pcs : PcEnds(i)
    BY <2>3, UnsubscribeStep
  <2>4. CASE \E s \in Streams : Unpublish(s)
    BY <2>4, UnpublishStep
  <2>5. CASE \E i \in Pcs : Subscribed(i)
    BY <2>5, SubscribedStep
  <2>6. CASE \E p \in Peers : PeerGone(p)
    BY <2>6, PeerGoneStep
  <2>7. CASE Close \/ Evaluate
    BY <2>7, CloseStep, EvaluateStep
  <2>8. QED BY <1>2, <2>1, <2>2, <2>3, <2>4, <2>5, <2>6, <2>7 DEF MediaNext
<1>3. QED BY <1>1, <1>2

-----------------------------------------------------------------------------
(* The theorems.                                                           *)

\* The inductive invariant holds throughout.
THEOREM MediaInvariant == MediaSpec => []MediaInv
<1>1. QED BY InitHolds, MediaStep, PTL DEF MediaSpec

\* Every reachable state of the media plane is well typed.
THEOREM MediaTyped == MediaSpec => []MediaTypeOK
<1>1. MediaInv => MediaTypeOK
  BY DEF MediaInv
<1>2. QED BY <1>1, MediaInvariant, PTL

\* No stream outlives its owner, and no subscription its stream or its viewer, but by
\* a negotiation that was under way when they went (removePeer, unpublish, close).
THEOREM NothingStaysOrphaned == MediaSpec => []NothingIsOrphaned
<1>1. MediaInv => NothingIsOrphaned
  BY DEF MediaInv
<1>2. QED BY <1>1, MediaInvariant, PTL

\* A PC that forwards can be closed through #subscriptions, unless it was overtaken.
THEOREM PcsStayAccountedFor == MediaSpec => []PcsAccountedFor
<1>1. MediaInv => PcsAccountedFor
  BY DEF MediaInv
<1>2. QED BY <1>1, MediaInvariant, PTL

\* The owner was last told what the viewers that are there call for.
THEOREM DemandIsFollowed == MediaSpec => []DemandFollowed
<1>1. MediaInv => DemandFollowed
  BY DEF MediaInv
<1>2. QED BY <1>1, MediaInvariant, PTL

\* The governor keeps no report of a peer that left.
THEOREM ReportersStayPresent == MediaSpec => []ReportersPresent
<1>1. MediaInv => ReportersPresent
  BY DEF MediaInv, NoForeignReports, ReportersPresent
<1>2. QED BY <1>1, MediaInvariant, PTL
=============================================================================
