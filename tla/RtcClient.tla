------------------------------ MODULE RtcClient ------------------------------
(***************************************************************************)
(* The renderer of one member that is not the host (renderer/src/rtc.ts),  *)
(* the session of its main process as far as it carries what the renderer  *)
(* says and hears (app/ipc.ts, app/room-session.ts), and the SFU of the    *)
(* host it talks to (main/sfu/router.ts, media-plane.ts), through handoffs *)
(* from one host to the next.                                              *)
(*                                                                         *)
(* publish and the answer to a subscribe_offer await their way through a   *)
(* negotiation and look at nothing afterwards: what was begun is a task,   *)
(* and its end an action of its own.  A PC the renderer closed meanwhile   *)
(* makes a task end in silence, fail, or go on as if nothing had happened, *)
(* according to the await it was in.  The SFU awaits its side in the same  *)
(* way.  The PC the renderer makes for an offer has the number of the PC   *)
(* that offered; stream ids are drawn and never drawn again.               *)
(***************************************************************************)
EXTENDS Integers, SequencesExt, FiniteSetsExt

CONSTANTS
    Me,
    Owners,             \* the others, who share or do not
    MaxStreams,         \* bound: streams of each
    MaxPcs,             \* bound: subscription PCs at a time
    MaxClicks,          \* bound: clicks of Me
    MaxTurns,           \* bound: streams the others start or stop, and other updates
    MaxHandoffs,        \* bound
    Starts              \* what there is to begin with: epoch, sharing, shared, watched

ASSUME RtcAssumption ==
    /\ Me \notin Owners /\ MaxStreams \in Nat \ {0} /\ MaxPcs \in Nat \ {0}
    /\ MaxClicks \in Nat /\ MaxTurns \in Nat /\ MaxHandoffs \in Nat
    /\ \A s \in Starts : s.watched \subseteq s.shared /\ s.shared \subseteq Owners /\ s.epoch \in Nat

VARIABLES
    rtc,                \* the refs and the state of useMedia
    openPcs,            \* the subscription PCs the renderer has not closed
    tasks,              \* publish() and answers that are awaiting something
    drawn,              \* how many streams each began
    session,            \* is it in the room (or between two hosts)?  in which epoch?
    up, down,           \* to the SFU, and to the renderer
    sfu,                \* of the present host
    spent,              \* of the bounds
    asked               \* history: how often each stream was asked for (at most 2)

rtcVars == <<rtc, openPcs, tasks, drawn, session, up, down, sfu, spent, asked>>

Streams == (Owners \cup {Me}) \X (1..MaxStreams)
OwnerOf(s) == s[1]
Nothing == <<>>
Pcs == 1..MaxPcs
Absent == 0
Placeholder == -1

NoSubs == [s \in Streams |-> Absent]
EmptySfu == [pubs |-> {}, offering |-> {}, asking |-> {}, sub |-> NoSubs,
             of |-> [i \in Pcs |-> Nothing], answer |-> [i \in Pcs |-> 0]]

\* Types: the renderer keeps at most a PC, or a placeholder, of a stream; the SFU a PC.
RtcTypeOK ==
    /\ rtc \in [localId : Streams \cup {Nothing}, connected : Streams \cup {Nothing},
                sharing : BOOLEAN, subs : [Streams -> {Absent, Placeholder} \cup Pcs],
                wanted : SUBSET Owners, streams : SUBSET Streams, epoch : Nat]
    /\ openPcs \subseteq Pcs
    /\ tasks \subseteq [kind : {"publish", "answer"}, stream : Streams, pc : 0..MaxPcs]
    /\ drawn \in [Owners \cup {Me} -> 0..MaxStreams]
    /\ session \in [inside : BOOLEAN, epoch : Nat]
    /\ sfu \in [pubs : SUBSET Streams, offering : SUBSET Streams, asking : SUBSET (Streams \X Pcs),
                sub : [Streams -> {Absent} \cup Pcs],
                of : [Pcs -> Streams \cup {Nothing}], answer : [Pcs -> 0..MaxPcs]]
    /\ spent \in [clicks : 0..MaxClicks, turns : 0..MaxTurns, handoffs : 0..MaxHandoffs]
    /\ asked \in [Streams -> 0..2]

RtcInit == \E start \in Starts :
    LET first == {<<o, 1>> : o \in start.shared}
        mine == IF start.sharing THEN {<<Me, 1>>} ELSE {}
        watched == {s \in first : OwnerOf(s) \in start.watched}
        pc == CHOOSE f \in [watched -> Pcs] : \A s, t \in watched : f[s] = f[t] => s = t
        subs == [s \in Streams |-> IF s \in watched THEN pc[s] ELSE Absent]
        my == IF start.sharing THEN <<Me, 1>> ELSE Nothing
    IN
    /\ rtc = [localId |-> my, connected |-> my, sharing |-> start.sharing, subs |-> subs,
              wanted |-> start.watched, streams |-> first \cup mine, epoch |-> start.epoch]
    /\ openPcs = {pc[s] : s \in watched}
    /\ tasks = {}
    /\ drawn = [u \in Owners \cup {Me} |-> IF <<u, 1>> \in first \cup mine THEN 1 ELSE 0]
    /\ session = [inside |-> TRUE, epoch |-> start.epoch]
    /\ up = <<>> /\ down = <<>>
    /\ LET served(i) == {s \in watched : pc[s] = i} IN
       sfu = [EmptySfu EXCEPT !.pubs = first \cup mine, !.sub = subs,
                 !.of = [i \in Pcs |-> IF served(i) = {} THEN Nothing ELSE CHOOSE s \in served(i) : TRUE],
                 !.answer = [i \in Pcs |-> IF served(i) = {} THEN 0 ELSE i]]
    /\ spent = [clicks |-> 0, turns |-> 0, handoffs |-> 0]
    /\ asked = [s \in Streams |-> IF s \in watched THEN 1 ELSE 0]

-----------------------------------------------------------------------------

(* Messages.  A session between two hosts has no client to send with.      *)

Body(t, s, pc) == [t |-> t, stream |-> s, pc |-> pc]
Sent(bodies) == IF session.inside THEN up \o bodies ELSE up
Update(epoch, streams) == [t |-> "update", epoch |-> epoch, streams |-> streams]

\* stream_state or roster_update: the mirror changes, and the renderer is sent a snapshot.
Announced(streams) == IF session.inside THEN <<Update(session.epoch, streams)>> ELSE <<>>

-----------------------------------------------------------------------------

(* The renderer: what its user does.                                       *)

Clicks == spent.clicks < MaxClicks /\ spent' = [spent EXCEPT !.clicks = @ + 1]

\* publish, from a renderer that publishes nothing.
Share ==
    /\ Clicks /\ ~rtc.sharing
    /\ LET id == <<Me, drawn[Me] + 1>> IN
       /\ rtc' = [rtc EXCEPT !.localId = id, !.sharing = TRUE]
       /\ tasks' = tasks \cup {[kind |-> "publish", stream |-> id, pc |-> 0]}
    /\ drawn' = [drawn EXCEPT ![Me] = @ + 1]
    /\ UNCHANGED <<openPcs, session, up, down, sfu, asked>>

\* unpublish.
StopSharing ==
    /\ Clicks /\ rtc.sharing
    /\ rtc' = [rtc EXCEPT !.localId = Nothing, !.connected = Nothing, !.sharing = FALSE]
    /\ up' = Sent(IF rtc.localId = Nothing THEN <<>> ELSE <<Body("unpublish", rtc.localId, 0)>>)
    /\ UNCHANGED <<openPcs, tasks, drawn, session, down, sfu, asked>>

Asked(S) == [s \in Streams |-> IF s \in S /\ asked[s] < 2 THEN asked[s] + 1 ELSE asked[s]]

\* subscribe, and startSub: a placeholder until the offer is there.
Watch(s) ==
    /\ Clicks /\ s \in rtc.streams /\ OwnerOf(s) # Me /\ rtc.subs[s] = Absent
    /\ rtc' = [rtc EXCEPT !.wanted = @ \cup {OwnerOf(s)}, !.subs[s] = Placeholder]
    /\ up' = Sent(<<Body("subscribe", s, 0)>>)
    /\ asked' = Asked({s})
    /\ UNCHANGED <<openPcs, tasks, drawn, session, down, sfu>>

\* unsubscribe, and teardownSub.
StopWatching(s) ==
    /\ Clicks /\ s \in rtc.streams /\ rtc.subs[s] # Absent
    /\ rtc' = [rtc EXCEPT !.wanted = @ \ {OwnerOf(s)}, !.subs[s] = Absent]
    /\ openPcs' = openPcs \ {rtc.subs[s]}
    /\ up' = Sent(<<Body("unsubscribe", s, 0)>>)
    /\ UNCHANGED <<tasks, drawn, session, down, sfu, asked>>

-----------------------------------------------------------------------------

(* The renderer: what it awaited.                                          *)

\* The rest of publish: the offer is sent, or the closed PC ended it.
PublishGoesOn(id) ==
    LET task == [kind |-> "publish", stream |-> id, pc |-> 0] IN
    /\ task \in tasks
    /\ tasks' = tasks \ {task}
    /\ \/ up' = Sent(<<Body("publish_offer", id, 0)>>)
       \/ rtc.localId # id /\ UNCHANGED up
    /\ UNCHANGED <<rtc, openPcs, drawn, session, down, sfu, spent, asked>>

\* The rest of the answer to an offer.  What fails takes the stream's entry with it.
AnswerGoesOn(s, i) ==
    LET task == [kind |-> "answer", stream |-> s, pc |-> i] IN
    /\ task \in tasks
    /\ tasks' = tasks \ {task}
    /\ \/ /\ up' = Sent(<<Body("subscribe_answer", s, i)>>)
          /\ UNCHANGED rtc
       \/ /\ i \notin openPcs
          /\ rtc' = [rtc EXCEPT !.subs[s] = Absent]
          /\ UNCHANGED up
       \/ i \notin openPcs /\ UNCHANGED <<rtc, up>>
    /\ UNCHANGED <<openPcs, drawn, session, down, sfu, spent, asked>>

-----------------------------------------------------------------------------

(* The renderer: what it is told.                                          *)

Told(t) == down # <<>> /\ Head(down).t = t /\ down' = Tail(down)

\* Which publication an answer is for.
AnswersMine_Any(s) == rtc.localId # Nothing
AnswersMine(s) == rtc.localId = s

HearPublishAnswer ==
    /\ Told("publish_answer")
    /\ rtc' = IF AnswersMine(Head(down).stream) /\ rtc.connected = Nothing
              THEN [rtc EXCEPT !.connected = Head(down).stream] ELSE rtc
    /\ UNCHANGED <<openPcs, tasks, drawn, session, up, sfu, spent, asked>>

\* Whatever the renderer thinks of the stream, it answers; a PC it had is closed.
HearOffer ==
    LET s == Head(down).stream  i == Head(down).pc IN
    /\ Told("subscribe_offer")
    /\ rtc' = [rtc EXCEPT !.subs[s] = i]
    /\ openPcs' = (openPcs \ {rtc.subs[s]}) \cup {i}
    /\ tasks' = tasks \cup {[kind |-> "answer", stream |-> s, pc |-> i]}
    /\ UNCHANGED <<drawn, session, up, sfu, spent, asked>>

\* media_error drops what there is of the stream.
HearError_OnlyMine ==
    /\ Told("media_error")
    /\ UNCHANGED <<rtc, openPcs, tasks, drawn, session, up, sfu, spent, asked>>
HearError ==
    LET s == Head(down).stream IN
    /\ Told("media_error")
    /\ rtc' = [rtc EXCEPT !.subs[s] = Absent]
    /\ openPcs' = openPcs \ {rtc.subs[s]}
    /\ UNCHANGED <<tasks, drawn, session, up, sfu, spent, asked>>

\* A snapshot is rendered, and the effects run in their order.  First the reconciliation:
\* what is gone is dropped, and wanted owners are followed to their streams.  Then, when
\* the epoch is another, everything is dropped, and what was shared is published anew.
HearUpdate ==
    LET f == Head(down)
        kept == [s \in Streams |-> IF s \in f.streams THEN rtc.subs[s] ELSE Absent]
        missed == {s \in f.streams : /\ OwnerOf(s) \in rtc.wanted
                                     /\ \A t \in Streams : kept[t] # Absent => OwnerOf(t) # OwnerOf(s)}
        changed == f.epoch # rtc.epoch
        subs == [s \in Streams |-> IF changed THEN Absent
                                   ELSE IF s \in missed THEN Placeholder ELSE kept[s]]
        again == changed /\ rtc.sharing
        id == <<Me, drawn[Me] + 1>>
    IN
    /\ Told("update")
    /\ rtc' = [rtc EXCEPT !.subs = subs, !.streams = f.streams, !.epoch = f.epoch,
                          !.localId = IF again THEN id ELSE IF changed THEN Nothing ELSE @,
                          !.connected = IF changed THEN Nothing ELSE @]
    /\ openPcs' = openPcs \ {rtc.subs[s] : s \in {t \in Streams : rtc.subs[t] # subs[t]}}
    /\ tasks' = IF again THEN tasks \cup {[kind |-> "publish", stream |-> id, pc |-> 0]} ELSE tasks
    /\ drawn' = IF again THEN [drawn EXCEPT ![Me] = @ + 1] ELSE drawn
    /\ up' = Sent(SetToSeq({Body("subscribe", s, 0) : s \in missed}))
    /\ asked' = Asked(missed)
    /\ UNCHANGED <<session, sfu, spent>>

-----------------------------------------------------------------------------

(* The SFU.                                                                *)

Reply(bodies) == down' = down \o bodies
Handle(t) == up # <<>> /\ Head(up).t = t /\ up' = Tail(up)

\* The SFU without the subscription of Me to s, and its PC.
Dropped(s) ==
    IF sfu.sub[s] = Absent THEN sfu
    ELSE [sfu EXCEPT !.sub[s] = Absent, !.of[sfu.sub[s]] = Nothing, !.answer[sfu.sub[s]] = 0]

\* unpublish, by whomever.
Ends(s) ==
    /\ sfu' = [Dropped(s) EXCEPT !.pubs = @ \ {s}]
    /\ Reply(IF s \in sfu.pubs THEN Announced(sfu.pubs \ {s}) ELSE <<>>)

HandlePublish ==
    /\ Handle("publish_offer")
    /\ sfu' = [sfu EXCEPT !.offering = @ \cup {Head(up).stream}]
    /\ UNCHANGED <<rtc, openPcs, tasks, drawn, session, down, spent, asked>>

\* The rest of publish: nobody looks whether it is still wanted.
Published(s) ==
    /\ s \in sfu.offering
    /\ sfu' = [sfu EXCEPT !.offering = @ \ {s}, !.pubs = @ \cup {s}]
    /\ Reply(Announced(sfu.pubs \cup {s}) \o (IF session.inside THEN <<Body("publish_answer", s, 0)>> ELSE <<>>))
    /\ UNCHANGED <<rtc, openPcs, tasks, drawn, session, up, spent, asked>>

HandleUnpublish ==
    /\ Handle("unpublish")
    /\ Ends(Head(up).stream)
    /\ UNCHANGED <<rtc, openPcs, tasks, drawn, session, spent, asked>>

\* A PC the renderer's side of which is closed fails in the end: the stream is unpublished.
PublicationFails_Ignored(s) == FALSE /\ UNCHANGED rtcVars
PublicationFails(s) ==
    /\ s \in sfu.pubs /\ OwnerOf(s) = Me /\ s # rtc.localId
    /\ Ends(s)
    /\ UNCHANGED <<rtc, openPcs, tasks, drawn, session, up, spent, asked>>

Used == {i \in Pcs : sfu.of[i] # Nothing} \cup {a[2] : a \in sfu.asking} \cup openPcs
           \cup {t.pc : t \in tasks} \cup {b.pc : b \in ToSet(up)}
           \cup {b.pc : b \in {b \in ToSet(down) : b.t # "update"}}

\* subscribe: refused, or begun.
HandleSubscribe ==
    LET s == Head(up).stream IN
    /\ Handle("subscribe")
    /\ IF s \notin sfu.pubs \/ sfu.sub[s] # Absent
       THEN Reply(<<Body("media_error", s, 0)>>) /\ UNCHANGED sfu
       ELSE /\ Pcs \ Used # {}
            /\ sfu' = [sfu EXCEPT !.asking = @ \cup {<<s, Min(Pcs \ Used)>>}]
            /\ UNCHANGED down
    /\ UNCHANGED <<rtc, openPcs, tasks, drawn, session, spent, asked>>

\* The rest of subscribe: a PC that got there first is forgotten, but stays.
Subscribed(s, i) ==
    /\ <<s, i>> \in sfu.asking
    /\ sfu' = [sfu EXCEPT !.asking = @ \ {<<s, i>>}, !.sub[s] = i, !.of[i] = s]
    /\ Reply(<<Body("subscribe_offer", s, i)>>)
    /\ UNCHANGED <<rtc, openPcs, tasks, drawn, session, up, spent, asked>>

HandleUnsubscribe ==
    /\ Handle("unsubscribe")
    /\ sfu' = Dropped(Head(up).stream)
    /\ UNCHANGED <<rtc, openPcs, tasks, drawn, session, down, spent, asked>>

\* completeSubscribe: of whichever PC serves the viewer now, once.
HandleAnswer ==
    LET s == Head(up).stream  i == sfu.sub[s] IN
    /\ Handle("subscribe_answer")
    /\ IF i = Absent \/ (i # Absent /\ sfu.answer[i] # 0)
       THEN Reply(<<Body("media_error", s, 0)>>) /\ UNCHANGED sfu
       ELSE sfu' = [sfu EXCEPT !.answer[i] = Head(up).pc] /\ UNCHANGED down
    /\ UNCHANGED <<rtc, openPcs, tasks, drawn, session, spent, asked>>

\* A PC whose other side is closed, or was never its own, fails; one that was never
\* answered does not.  The viewer is unsubscribed, whichever PC serves it now.
SubscriptionFails(i) ==
    /\ sfu.answer[i] # 0 /\ ~(sfu.answer[i] = i /\ i \in openPcs)
    /\ LET s == sfu.of[i]  rest == Dropped(s) IN
       sfu' = [rest EXCEPT !.of[i] = Nothing, !.answer[i] = 0]
    /\ UNCHANGED <<rtc, openPcs, tasks, drawn, session, up, down, spent, asked>>

-----------------------------------------------------------------------------

(* The others, and the host.                                               *)

Turn == spent.turns < MaxTurns /\ spent' = [spent EXCEPT !.turns = @ + 1]

OtherShares(o) ==
    LET s == <<o, drawn[o] + 1>> IN
    /\ Turn /\ drawn[o] < MaxStreams /\ \A t \in sfu.pubs : OwnerOf(t) # o
    /\ drawn' = [drawn EXCEPT ![o] = @ + 1]
    /\ sfu' = [sfu EXCEPT !.pubs = @ \cup {s}]
    /\ Reply(Announced(sfu.pubs \cup {s}))
    /\ UNCHANGED <<rtc, openPcs, tasks, session, up, asked>>

OtherStops(s) ==
    /\ Turn /\ s \in sfu.pubs /\ OwnerOf(s) # Me
    /\ Ends(s)
    /\ UNCHANGED <<rtc, openPcs, tasks, drawn, session, up, asked>>

\* roster_update: somebody comes or goes.
RosterChanges ==
    /\ Turn /\ session.inside
    /\ Reply(Announced(sfu.pubs))
    /\ UNCHANGED <<rtc, openPcs, tasks, drawn, session, up, sfu, asked>>

\* The host hands the room over: what is on its way to it is lost, and part of what is on
\* its way back.  A session between two hosts has neither streams nor an epoch to show.
HandOff ==
    /\ session.inside /\ spent.handoffs < MaxHandoffs
    /\ spent' = [spent EXCEPT !.handoffs = @ + 1]
    /\ session' = [inside |-> FALSE, epoch |-> session.epoch + 1]
    /\ sfu' = EmptySfu /\ up' = <<>>
    /\ \E n \in 0..Len(down) : down' = Append(SubSeq(down, 1, n), Update(0, {}))
    /\ UNCHANGED <<rtc, openPcs, tasks, drawn, asked>>

\* #rehome: joined, with the streams there are by then.
Rehomed ==
    /\ ~session.inside
    /\ session' = [session EXCEPT !.inside = TRUE]
    /\ Reply(<<Update(session.epoch, sfu.pubs)>>)
    /\ UNCHANGED <<rtc, openPcs, tasks, drawn, up, sfu, spent, asked>>

-----------------------------------------------------------------------------

RtcProgress ==
    \/ \E t \in tasks : PublishGoesOn(t.stream) \/ AnswerGoesOn(t.stream, t.pc)
    \/ HearPublishAnswer \/ HearOffer \/ HearError \/ HearUpdate
    \/ HandlePublish \/ HandleUnpublish \/ HandleSubscribe \/ HandleUnsubscribe \/ HandleAnswer
    \/ \E s \in Streams : Published(s) \/ PublicationFails(s)
    \/ \E a \in sfu.asking : Subscribed(a[1], a[2])
    \/ \E i \in Pcs : SubscriptionFails(i)
    \/ Rehomed

RtcNext ==
    \/ RtcProgress
    \/ Share \/ StopSharing
    \/ \E s \in Streams : Watch(s) \/ StopWatching(s) \/ OtherStops(s)
    \/ \E o \in Owners : OtherShares(o)
    \/ RosterChanges \/ HandOff

RtcSpec == RtcInit /\ [][RtcNext]_rtcVars

\* Promises settle, messages arrive, dead PCs are noticed, a handoff comes to its end.
FairRtcSpec == RtcSpec /\ WF_rtcVars(RtcProgress)

-----------------------------------------------------------------------------

\* A stream that its owner no longer shares does not stay in the room, though publish goes
\* on after unpublish, and after a handoff, and offers it all the same.
NoGhostStreams == <>[](\A s \in sfu.pubs : OwnerOf(s) = Me => s = rtc.localId)

\* Who shares is on the air in the end, at whichever host: the SFU has the publication the
\* renderer thinks it has, and the renderer's PC got the answer to its own offer.
OnAir == <>[](rtc.sharing => rtc.localId \in sfu.pubs /\ rtc.connected = rtc.localId)

\* A stream that was asked for once ends in agreement: the renderer shows it, over the very
\* PC the SFU serves it with, or neither has anything of it.  No tile says for ever that it
\* is connecting, whatever was stopped, ended, lost or handed over meanwhile.
AskedOnceAgrees ==
    <>[](\A s \in Streams : (asked[s] = 1 /\ (s \in sfu.pubs \/ rtc.subs[s] # Absent)) =>
            /\ rtc.subs[s] = sfu.sub[s]
            /\ rtc.subs[s] # Absent => sfu.answer[rtc.subs[s]] = rtc.subs[s])

\* Who watches somebody goes on watching, over handoffs, without a click.
WatchesOn ==
    <>[](\A s \in sfu.pubs : OwnerOf(s) \in rtc.wanted =>
            /\ rtc.subs[s] \in Pcs /\ rtc.subs[s] = sfu.sub[s]
            /\ sfu.answer[sfu.sub[s]] = sfu.sub[s])
=============================================================================
