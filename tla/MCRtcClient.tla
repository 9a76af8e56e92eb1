---------------------------- MODULE MCRtcClient ----------------------------
(* Me and one other, o; who shares and watches to begin with.              *)
EXTENDS RtcClient

CONSTANT o

Start(epoch, sharing, shared, watched) ==
    [epoch |-> epoch, sharing |-> sharing, shared |-> shared, watched |-> watched]

MCStarts == {Start(0, FALSE, {o}, {}), Start(0, TRUE, {}, {}), Start(1, TRUE, {o}, {o})}
Watching == {Start(0, FALSE, {o}, {o})}
=============================================================================
