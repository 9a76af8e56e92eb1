----------------------------- MODULE MediaPlane -----------------------------
(***************************************************************************)
(* The media plane of a host: the SFU router (src/main/sfu/router.ts), the *)
(* bitrate governor (governor.ts) and the glue between them and the        *)
(* signaling server (media-plane.ts).                                      *)
(*                                                                         *)
(* publish and subscribe look the stream up, await the negotiation of a    *)
(* peer connection (a PC), and go on with what they looked up: each is two *)
(* actions, and everything else may happen in between.  Of a PC only its   *)
(* life is kept.  Stream ids are fresh (rtc.ts draws them at random), so a *)
(* member of Streams is published at most once, by its owner.              *)
(***************************************************************************)
EXTENDS Integers, FiniteSets

CONSTANTS
    Host,               \* the host's own renderer, which never goes away
    Peers,              \* every participant, Host included
    Streams,
    OwnerOf,            \* ownerPeerId
    Pcs,                \* bound: the PCs of subscriptions
    NoPc,
    MaxLevel,           \* QUALITY_LADDER.length - 1
    RecoveryWindows     \* #recoveryWindows

ASSUME MediaAssumption ==
    /\ Host \in Peers
    /\ OwnerOf \in [Streams -> Peers]
    /\ IsFiniteSet(Pcs) /\ NoPc \notin Pcs
    /\ MaxLevel \in Nat \ {0}
    /\ RecoveryWindows \in Nat \ {0}

VARIABLES
    linked,             \* the peers whose media messages are taken
    closed,             \* #closed
    publication,        \* the life of each stream; "live" in #publishers
    pcOf,               \* whose subscription a PC was made for
    pcState,
    subscription,       \* #subscriptions: the PC of a viewer and a stream
    governor,           \* #streams, for the live ones
    directive,          \* the quality_directive the owner was sent last
    demanded,           \* history: live streams with a demand-changed
    late,               \* history: negotiations that ended when all was over
    overtaken           \* history: PCs replaced in #subscriptions

routerVars == <<linked, closed, publication, pcOf, pcState, subscription>>
governorVars == <<governor, directive, demanded>>
mediaVars == <<routerVars, governorVars, late, overtaken>>

Keys == Peers \X Streams
Samples == {"none", "good", "lossy"}
Stop == -1              \* maxKbps 0
Untold == -2            \* no quality_directive yet: full quality

Fresh == [level |-> 0, paused |-> FALSE, streak |-> 0,
          subs |-> [p \in Peers |-> "none"], busy |-> FALSE]

Live(s) == publication[s] = "live"
Viewers(subs, s) == {p \in Peers : subs[<<p, s>>] # NoPc}

MediaTypeOK ==
    /\ linked \subseteq Peers /\ closed \in BOOLEAN
    /\ publication \in [Streams -> {"idle", "negotiating", "live", "ended"}]
    /\ pcOf \in [Pcs -> Keys \cup {NoPc}]
    /\ pcState \in [Pcs -> {"none", "negotiating", "open", "failed", "closed", "over"}]
    /\ subscription \in [Keys -> Pcs \cup {NoPc}]
    /\ governor \in [Streams -> [level : 0..MaxLevel, paused : BOOLEAN,
                                 streak : 0..RecoveryWindows,
                                 subs : [Peers -> Samples], busy : BOOLEAN]]
    /\ directive \in [Streams -> {Untold, Stop} \cup (0..MaxLevel)]
    /\ demanded \subseteq Streams
    /\ late \subseteq Pcs \cup Streams /\ overtaken \subseteq Pcs

MediaInit ==
    /\ linked = Peers /\ closed = FALSE
    /\ publication = [s \in Streams |-> "idle"]
    /\ pcOf = [i \in Pcs |-> NoPc]
    /\ pcState = [i \in Pcs |-> "none"]
    /\ subscription = [k \in Keys |-> NoPc]
    /\ governor = [s \in Streams |-> Fresh]
    /\ directive = [s \in Streams |-> Untold]
    /\ demanded = {} /\ late = {} /\ overtaken = {}

-----------------------------------------------------------------------------

(* What several operations do.                                             *)

\* Mutant of Drop: the PCs are left open.
Drop_LeavesPcs(K, states) ==
    /\ subscription' = [k \in Keys |-> IF k \in K THEN NoPc ELSE subscription[k]]
    /\ pcState' = states

\* #dropSubscription of every key of K: out of the map, disposed of and closed.
Drop(K, states) ==
    /\ subscription' = [k \in Keys |-> IF k \in K THEN NoPc ELSE subscription[k]]
    /\ pcState' = [i \in Pcs |-> IF \E k \in K : subscription[k] = i THEN "closed" ELSE states[i]]

\* demand-changed of the streams S: stop the owner, or resume it where it was.
Demand(gov, S, subs) ==
    /\ governor' = [s \in Streams |->
                       IF s \in S THEN [gov[s] EXCEPT !.paused = Viewers(subs, s) = {}] ELSE gov[s]]
    /\ directive' = [s \in Streams |->
                       IF s \notin S THEN directive[s]
                       ELSE IF Viewers(subs, s) = {} THEN Stop ELSE gov[s].level]
    /\ demanded' = demanded \cup S

\* stream-ended of the streams S: the governor forgets them.
Forget(gov, S) == [s \in Streams |-> IF s \in S THEN Fresh ELSE gov[s]]

-----------------------------------------------------------------------------

(* Publishing.                                                             *)

\* publish: checked, and the negotiation begins.
Publish(s) ==
    /\ OwnerOf[s] \in linked /\ ~closed
    /\ publication[s] = "idle"
    /\ publication' = [publication EXCEPT ![s] = "negotiating"]
    /\ UNCHANGED <<linked, closed, pcOf, pcState, subscription, governorVars, late, overtaken>>

\* The negotiation ended, well or not.  Nobody looks whether the owner, or the SFU,
\* is still there.
PublishEnds(s) ==
    /\ publication[s] = "negotiating"
    /\ \/ /\ publication' = [publication EXCEPT ![s] = "live"]
          /\ late' = IF closed \/ OwnerOf[s] \notin linked THEN late \cup {s} ELSE late
       \/ /\ publication' = [publication EXCEPT ![s] = "ended"]
          /\ UNCHANGED late
    /\ UNCHANGED <<linked, closed, pcOf, pcState, subscription, governorVars, overtaken>>

\* unpublish: its subscriptions go with it.
EndStream(s) ==
    /\ Live(s)
    /\ publication' = [publication EXCEPT ![s] = "ended"]
    /\ Drop({k \in Keys : k[2] = s}, pcState)
    /\ governor' = Forget(governor, {s})

\* The owner stops sharing, or the publisher's PC fails.
Unpublish(s) ==
    /\ EndStream(s)
    /\ UNCHANGED <<linked, closed, pcOf, directive, demanded, late, overtaken>>

-----------------------------------------------------------------------------

(* Subscribing.                                                            *)

\* subscribe: checked, and the negotiation begins with the publisher's tracks tapped.
\* An unsubscribe meanwhile finds nothing, so a viewer may ask again.
Subscribe(p, s, i) ==
    /\ p \in linked /\ ~closed /\ Live(s) /\ p # OwnerOf[s]
    /\ subscription[<<p, s>>] = NoPc
    /\ pcState[i] = "none"
    /\ pcState' = [pcState EXCEPT ![i] = "negotiating"]
    /\ pcOf' = [pcOf EXCEPT ![i] = <<p, s>>]
    /\ UNCHANGED <<linked, closed, publication, subscription, governorVars, late, overtaken>>

\* The offer is ready.  The subscription is added to whatever the map holds now; the
\* governor knows nothing of a stream that ended.
Subscribed(i) ==
    LET p == pcOf[i][1]  s == pcOf[i][2] IN
    /\ pcState[i] = "negotiating"
    /\ pcState' = [pcState EXCEPT ![i] = "open"]
    /\ subscription' = [subscription EXCEPT ![<<p, s>>] = i]
    /\ overtaken' = overtaken \cup ({subscription[<<p, s>>]} \ {NoPc})
    /\ late' = IF closed \/ p \notin linked \/ ~Live(s) THEN late \cup {i} ELSE late
    /\ Demand(governor, {s} \cap {t \in Streams : Live(t)}, subscription')
    /\ UNCHANGED <<linked, closed, publication, pcOf>>

\* The negotiation failed.
SubscribeFails(i) ==
    /\ pcState[i] = "negotiating"
    /\ pcState' = [pcState EXCEPT ![i] = "over"]
    /\ UNCHANGED <<linked, closed, publication, pcOf, subscription, governorVars, late, overtaken>>

\* Mutant of DropOne: nobody counts the viewers again.
DropOne_NoDemand(k, states) ==
    /\ Drop({k}, states)
    /\ UNCHANGED governorVars

\* The effect of unsubscribe.  The governor keeps the viewer's last sample.
DropOne(k, states) ==
    /\ Drop({k}, states)
    /\ Demand(governor, {s \in Streams : s = k[2] /\ Live(s) /\ subscription[k] # NoPc}, subscription')

Unsubscribe(p, s) ==
    /\ p \in linked
    /\ DropOne(<<p, s>>, pcState)
    /\ UNCHANGED <<linked, closed, publication, pcOf, late, overtaken>>

\* The PC of a subscription fails, or reports late that it was closed.  The handler
\* unsubscribes its viewer, whichever PC serves that viewer now.
PcEnds(i) ==
    /\ \/ pcState[i] = "open" /\ DropOne(pcOf[i], [pcState EXCEPT ![i] = "failed"])
       \/ pcState[i] = "closed" /\ DropOne(pcOf[i], [pcState EXCEPT ![i] = "over"])
    /\ UNCHANGED <<linked, closed, publication, pcOf, late, overtaken>>

-----------------------------------------------------------------------------

(* Peers that go, and the end.                                             *)

\* Mutants of PeerGone: the governor keeps what the peer reported; the streams it
\* published stay.
PeerGone_KeepsSamples(p) ==
    LET ended == {s \in Streams : Live(s) /\ OwnerOf[s] = p}
        watched == {s \in Streams : Live(s) /\ subscription[<<p, s>>] # NoPc} \ ended
    IN
    /\ p \in linked \ {Host}
    /\ linked' = linked \ {p}
    /\ publication' = [s \in Streams |-> IF s \in ended THEN "ended" ELSE publication[s]]
    /\ Drop({k \in Keys : k[1] = p \/ k[2] \in ended}, pcState)
    /\ Demand(Forget(governor, ended), watched, subscription')
    /\ UNCHANGED <<closed, pcOf, late, overtaken>>

PeerGone_KeepsStreams(p) ==
    LET watched == {s \in Streams : Live(s) /\ subscription[<<p, s>>] # NoPc} IN
    /\ p \in linked \ {Host}
    /\ linked' = linked \ {p}
    /\ Drop({k \in Keys : k[1] = p}, pcState)
    /\ Demand([s \in Streams |-> [governor[s] EXCEPT !.subs[p] = "none"]], watched, subscription')
    /\ UNCHANGED <<closed, publication, pcOf, late, overtaken>>

\* onPeerGone: dropSubscriber, and removePeer with the streams the peer published
\* and the subscriptions it held.
PeerGone(p) ==
    LET ended == {s \in Streams : Live(s) /\ OwnerOf[s] = p}
        watched == {s \in Streams : Live(s) /\ subscription[<<p, s>>] # NoPc} \ ended
        dropped == [s \in Streams |-> [governor[s] EXCEPT !.subs[p] = "none"]]
    IN
    /\ p \in linked \ {Host}
    /\ linked' = linked \ {p}
    /\ publication' = [s \in Streams |-> IF s \in ended THEN "ended" ELSE publication[s]]
    /\ Drop({k \in Keys : k[1] = p \/ k[2] \in ended}, pcState)
    /\ Demand(Forget(dropped, ended), watched, subscription')
    /\ UNCHANGED <<closed, pcOf, late, overtaken>>

\* close, together with the signaling server: its timer is stopped, so what the
\* governor still holds is of no consequence.
Close ==
    /\ ~closed
    /\ closed' = TRUE
    /\ linked' = {}
    /\ publication' = [s \in Streams |-> IF Live(s) THEN "ended" ELSE publication[s]]
    /\ Drop(Keys, pcState)
    /\ governor' = [s \in Streams |-> Fresh]
    /\ UNCHANGED <<pcOf, directive, demanded, late, overtaken>>

-----------------------------------------------------------------------------

(* The governor.                                                           *)

\* stats_report of a viewer that asked for the stream at some time.  While its own PC
\* is a placeholder it has no losses.
ViewerReports(p, s) ==
    /\ p \in linked /\ Live(s)
    /\ \E i \in Pcs, q \in {"good", "lossy"} :
          /\ pcOf[i] = <<p, s>>
          /\ q = "lossy" => pcState[i] \in {"open", "failed", "closed"}
          /\ governor' = [governor EXCEPT ![s].subs[p] = q]
    /\ UNCHANGED <<routerVars, directive, demanded, late, overtaken>>

\* stats_report of the owner: its encoder is, or is not, limited by the CPU.
OwnerReports(s) ==
    /\ OwnerOf[s] \in linked /\ Live(s)
    /\ governor' = [governor EXCEPT ![s].busy = ~@]
    /\ UNCHANGED <<routerVars, directive, demanded, late, overtaken>>

Reported(g) == {p \in Peers : g.subs[p] # "none"}
Unhealthy(g) == g.busy \/ \E p \in Peers : g.subs[p] = "lossy"

\* Mutant of Evaluated: a stream that is well starts counting anew one window too early.
Evaluated_Recounts(g) ==
    IF g.paused \/ Reported(g) = {} THEN g
    ELSE IF Unhealthy(g)
    THEN [g EXCEPT !.level = IF @ < MaxLevel THEN @ + 1 ELSE @, !.streak = 0]
    ELSE IF g.streak + 1 > RecoveryWindows /\ g.level > 0
    THEN [g EXCEPT !.level = @ - 1, !.streak = 0]
    ELSE [g EXCEPT !.streak = IF @ + 1 < RecoveryWindows THEN @ + 1 ELSE 0]

\* evaluate, for one stream: one rung down in a bad window, one up after
\* RecoveryWindows good ones.  The streak only matters up to there.
Evaluated(g) ==
    IF g.paused \/ Reported(g) = {} THEN g
    ELSE IF Unhealthy(g)
    THEN [g EXCEPT !.level = IF @ < MaxLevel THEN @ + 1 ELSE @, !.streak = 0]
    ELSE IF g.streak + 1 >= RecoveryWindows /\ g.level > 0
    THEN [g EXCEPT !.level = @ - 1, !.streak = 0]
    ELSE [g EXCEPT !.streak = IF @ < RecoveryWindows THEN @ + 1 ELSE @]

\* The timer: every stream is evaluated, and owners are told of new rungs.
Evaluate ==
    LET next == [s \in Streams |-> IF Live(s) THEN Evaluated(governor[s]) ELSE governor[s]] IN
    /\ ~closed
    /\ governor' = next
    /\ directive' = [s \in Streams |->
                        IF next[s].level # governor[s].level THEN next[s].level ELSE directive[s]]
    /\ UNCHANGED <<routerVars, demanded, late, overtaken>>

-----------------------------------------------------------------------------

MediaNext ==
    \/ \E s \in Streams : Publish(s) \/ PublishEnds(s) \/ Unpublish(s) \/ OwnerReports(s)
    \/ \E p \in Peers, s \in Streams :
          \/ \E i \in Pcs : Subscribe(p, s, i)
          \/ Unsubscribe(p, s) \/ ViewerReports(p, s)
    \/ \E i \in Pcs : Subscribed(i) \/ SubscribeFails(i) \/ PcEnds(i)
    \/ \E p \in Peers : PeerGone(p)
    \/ Close \/ Evaluate

MediaSpec == MediaInit /\ [][MediaNext]_mediaVars

\* Negotiations end (gathering is bounded by a timer), and the governor's timer fires.
FairMediaSpec ==
    /\ MediaSpec
    /\ \A s \in Streams : WF_mediaVars(PublishEnds(s))
    /\ \A i \in Pcs : WF_mediaVars(Subscribed(i) \/ SubscribeFails(i))
    /\ WF_mediaVars(Evaluate)

-----------------------------------------------------------------------------

\* Nothing is published or watched that is over: a live stream has its owner, a
\* subscription its stream and its viewer, unless a negotiation was under way when
\* they went.
NothingIsOrphaned ==
    /\ \A s \in Streams : Live(s) => s \in late \/ (~closed /\ OwnerOf[s] \in linked)
    /\ \A k \in Keys :
          subscription[k] # NoPc =>
              subscription[k] \in late \/ (~closed /\ Live(k[2]) /\ k[1] \in linked)

\* A PC that forwards a stream is the one in #subscriptions, so that it can be closed,
\* unless another negotiation of the same viewer overtook it.
PcsAccountedFor ==
    /\ \A k \in Keys : subscription[k] # NoPc =>
          pcOf[subscription[k]] = k /\ pcState[subscription[k]] = "open"
    /\ \A i \in Pcs : pcState[i] \in {"open", "failed"} =>
          subscription[pcOf[i]] = i \/ i \in overtaken

\* Once the viewers of a live stream were counted, its owner was last told what they
\* call for: stop without viewers, else the rung the governor stands on.
DemandFollowed ==
    \A s \in demanded : Live(s) =>
        IF Viewers(subscription, s) = {}
        THEN directive[s] = Stop /\ governor[s].paused
        ELSE directive[s] = governor[s].level /\ ~governor[s].paused

\* The governor never decides on what a peer reported that is not there any more.
ReportersPresent ==
    \A s \in Streams : Live(s) => Reported(governor[s]) \subseteq linked

\* A stream that is watched, and well in the eyes of all who ever reported on it,
\* climbs back to full quality.
Well(s) ==
    Live(s) /\ ~governor[s].paused /\ Reported(governor[s]) # {} /\ ~Unhealthy(governor[s])

QualityRecovers == \A s \in Streams : []<>(~Well(s) \/ closed) \/ <>[](governor[s].level = 0)

=============================================================================
