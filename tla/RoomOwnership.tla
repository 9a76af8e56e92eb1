--------------------------- MODULE RoomOwnership ---------------------------
(***************************************************************************)
(* What the relay promises about a room, without connection ids, clocks,   *)
(* limits or messages: a room has one owner; it changes owner only while   *)
(* its owner has put it up for a handoff, and its members stay through     *)
(* that; it ends when its owner disappears without a handoff or when the   *)
(* handoff is not taken; and a socket plays one part in one room, once.    *)
(* Relay implements this (server/src/relay.ts, the header comment, HANDOFF *)
(* and claimHandoff).                                                      *)
(***************************************************************************)
EXTENDS Naturals

CONSTANTS Sockets, RoomIds, NoSocket

VARIABLES
    owner,      \* the socket that owns each room
    offered,    \* is the room waiting for a successor to claim it?
    members,    \* the sockets that are in each room as peers
    unused      \* the sockets that have not played a part yet

ownershipVars == <<owner, offered, members, unused>>

OwnershipTypeOK ==
    /\ owner \in [RoomIds -> Sockets \cup {NoSocket}]
    /\ offered \in [RoomIds -> BOOLEAN]
    /\ members \in [RoomIds -> SUBSET Sockets]
    /\ unused \in SUBSET Sockets

OwnershipInit ==
    /\ owner = [r \in RoomIds |-> NoSocket]
    /\ offered = [r \in RoomIds |-> FALSE]
    /\ members = [r \in RoomIds |-> {}]
    /\ unused = Sockets

Open(r, s) ==
    /\ owner[r] = NoSocket
    /\ owner' = [owner EXCEPT ![r] = s]
    /\ UNCHANGED <<offered, members>>

Join(r, s) ==
    /\ owner[r] # NoSocket
    /\ members' = [members EXCEPT ![r] = @ \cup {s}]
    /\ UNCHANGED <<owner, offered>>

Claim(r, s) ==
    /\ offered[r]
    /\ owner' = [owner EXCEPT ![r] = s]
    /\ offered' = [offered EXCEPT ![r] = FALSE]
    /\ UNCHANGED members

\* A socket that plays a part, or is turned away, is used up.
Arrive(s) ==
    /\ s \in unused
    /\ unused' = unused \ {s}
    /\ \/ \E r \in RoomIds : Open(r, s) \/ Join(r, s) \/ Claim(r, s)
       \/ UNCHANGED <<owner, offered, members>>

Offer(r) ==
    /\ owner[r] # NoSocket
    /\ offered' = [offered EXCEPT ![r] = TRUE]
    /\ UNCHANGED <<owner, members, unused>>

Leave(r, s) ==
    /\ s \in members[r]
    /\ members' = [members EXCEPT ![r] = @ \ {s}]
    /\ UNCHANGED <<owner, offered, unused>>

\* Rooms end together when one sweep finds several handoffs untaken; a room
\* that was not offered ends alone, with its owner.
End(R) ==
    /\ R # {}
    /\ \A r \in R : owner[r] # NoSocket
    /\ (\A r \in R : offered[r]) \/ (\E r \in R : R = {r})
    /\ owner' = [r \in RoomIds |-> IF r \in R THEN NoSocket ELSE owner[r]]
    /\ offered' = [r \in RoomIds |-> offered[r] /\ r \notin R]
    /\ members' = [r \in RoomIds |-> IF r \in R THEN {} ELSE members[r]]
    /\ UNCHANGED unused

OwnershipNext ==
    \/ \E s \in Sockets : Arrive(s)
    \/ \E r \in RoomIds : Offer(r)
    \/ \E r \in RoomIds, s \in Sockets : Leave(r, s)
    \/ \E R \in SUBSET RoomIds : End(R)

OwnershipSpec == OwnershipInit /\ [][OwnershipNext]_ownershipVars
=============================================================================
