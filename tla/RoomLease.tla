----------------------------- MODULE RoomLease -----------------------------
(***************************************************************************)
(* What the relay's registry promises the peers: a room is a lease.  It is *)
(* claimed only while nobody owns it, it is owned by one peer at a time, a *)
(* peer owns at most one room, and the peer that leaves gives back         *)
(* everything it owned in the same step.  No connection, no request, no    *)
(* password: module Relay shows how close_node and handle_init_request     *)
(* implement it.                                                           *)
(***************************************************************************)
CONSTANTS
    Peers,  \* the peers that may lease a room
    Rooms,  \* the names of the rooms
    None    \* no owner

VARIABLES
    owner,   \* owner[r]: the peer that hosts room r, or None
    present  \* the peers connected to the relay

leaseVars == <<owner, present>>

Owned(p) == {r \in Rooms : owner[r] = p}

Init ==
    /\ owner = [r \in Rooms |-> None]
    /\ present = {}

Enter(p) ==
    /\ p \notin present
    /\ present' = present \cup {p}
    /\ UNCHANGED owner

Claim(p, r) ==
    /\ p \in present
    /\ owner[r] = None
    /\ Owned(p) = {}
    /\ owner' = [owner EXCEPT ![r] = p]
    /\ UNCHANGED present

Leave(p) ==
    /\ p \in present
    /\ present' = present \ {p}
    /\ owner' = [r \in Rooms |-> IF owner[r] = p THEN None ELSE owner[r]]

Next ==
    \E p \in Peers :
        \/ Enter(p)
        \/ Leave(p)
        \/ \E r \in Rooms : Claim(p, r)

Spec == Init /\ [][Next]_leaseVars

\* Every leased room has a present owner: what a peer that asks the registry
\* for a room relies on when it dials the answer.
OwnerPresent == \A r \in Rooms : owner[r] # None => owner[r] \in present
=============================================================================
