--------------------------- MODULE SecureChannel ---------------------------
(***************************************************************************)
(* What a control connection promises to its two ends, whatever the relay, *)
(* the timers and the handover of the room do to it: nothing is sealed     *)
(* unless both ends know the same secret, and what an end takes is what    *)
(* the other end sealed for this very session, in order, once, without a   *)
(* gap.                                                                    *)
(***************************************************************************)
EXTENDS Integers, SequencesExt

CONSTANT Ends, Other(_)

VARIABLES
    trusted,            \* both ends were given the same secret for the same room
    open,               \* the ends that hold session keys
    sealed,             \* what each end sealed
    taken               \* what each end took of the other

channelVars == <<trusted, open, sealed, taken>>

ChannelInit ==
    /\ trusted \in BOOLEAN
    /\ open = {}
    /\ sealed = [e \in Ends |-> <<>>]
    /\ taken = [e \in Ends |-> <<>>]

\* An end opens, seals and takes, several messages at a time if it likes.
ChannelNext ==
    /\ UNCHANGED trusted
    /\ open \subseteq open'
    /\ open' # {} => trusted
    /\ \A e \in Ends :
          /\ IsPrefix(sealed[e], sealed'[e])
          /\ sealed'[e] # sealed[e] => e \in open'
          /\ IsPrefix(taken[e], taken'[e])
          /\ IsPrefix(taken'[e], sealed'[Other(e)])

ChannelSpec == ChannelInit /\ [][ChannelNext]_channelVars
=============================================================================
