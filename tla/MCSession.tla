----------------------------- MODULE MCSession -----------------------------
(***************************************************************************)
(* Four users, and the ways they come to meet: two enter an empty room at  *)
(* once; a third comes while a host and its guest part; a host leaves two  *)
(* survivors, or three (the new host takes one handshake at a time); and   *)
(* one whose HELLO as host reaches the relay late, when a room that was    *)
(* handed over before is there all the same, and perhaps between hosts.    *)
(***************************************************************************)
EXTENDS Session

CONSTANTS ann, bob, cat, dan

MCUsers == {ann, bob, cat, dan}
MCLeavers == {ann, bob}

Cast(inside, outside, late, spent) ==
    [inside |-> inside, outside |-> outside, late |-> late, spent |-> spent,
     epoch |-> IF late = {} THEN 0 ELSE 1]

MCStarts == {Cast(<<>>, {ann, bob}, {}, 0), Cast(<<ann, bob>>, {cat}, {}, 1), Cast(<<ann, bob, cat>>, {}, {}, 0),
             Cast(<<ann, bob, cat, dan>>, {}, {}, 1), Cast(<<ann, bob, cat>>, {}, {dan}, 1)}
=============================================================================
