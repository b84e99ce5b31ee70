------------------------------- MODULE Relay -------------------------------
(***************************************************************************)
(* The room registry of the relay server, relay/src/relay.rs: a single     *)
(* event loop that keeps two maps, `rooms' and `hosts', and changes them   *)
(* when a peer asks for a room (handle_init_request) and when one of the   *)
(* peer's connections closes (close_node).                                 *)
(*                                                                         *)
(* A peer is a PeerId.  A client process keeps its key pair for its whole  *)
(* life, so the connections of a reconnecting or room-changing client      *)
(* share one PeerId and may overlap at the relay: the old one is still     *)
(* open there while the new one already asks for a room.  The peers that   *)
(* may overlap are a parameter; the others wait until the relay has seen   *)
(* their last connection close.                                            *)
(***************************************************************************)
CONSTANTS
    Peers,         \* the PeerIds of the clients
    Rooms,         \* the names of the rooms
    Passwords,     \* the passwords a client can present
    Conns,         \* the slots for simultaneous connections of one peer
    Overlapping,   \* the peers whose connections to the relay may overlap
    HashOutcomes,  \* TRUE: hashing a password can succeed; FALSE: it can fail
    None           \* no room, no host, no connection

\* What a connection is opened for, what `rooms' stores under a room's name,
\* and what the relay answers.
Request == [room : Rooms, password : Passwords]
RoomEntry == [peer : Peers, password : Passwords, hashed : BOOLEAN]
InitResponse == [status : {"Ok", "Err"}, host : Peers \cup {None}]

ASSUME RelayAssumption ==
    /\ Overlapping \subseteq Peers
    /\ HashOutcomes \subseteq BOOLEAN /\ HashOutcomes # {}
    /\ None \notin Peers \cup Rooms \cup Request \cup RoomEntry \cup InitResponse

VARIABLES
    rooms,   \* rooms[r]: host and password of room r, or None
    hosts,   \* hosts[p]: the room peer p is the host of, or None
    links,   \* links[p][c]: what connection c of peer p was opened for, or None
    answers  \* answers[p][c]: the last response sent on it, or None

registry == <<rooms, hosts>>
relayVars == <<rooms, hosts, links, answers>>

TypeOK ==
    /\ rooms \in [Rooms -> RoomEntry \cup {None}]
    /\ hosts \in [Peers -> Rooms \cup {None}]
    /\ links \in [Peers -> [Conns -> Request \cup {None}]]
    /\ answers \in [Peers -> [Conns -> InitResponse \cup {None}]]

----------------------------------------------------------------------------
(* Helpers *)

\* The peers that wait for the end of one connection before the next.
Disciplined == Peers \ Overlapping

Connected(p) == \E c \in Conns : links[p][c] # None

\* PasswordHash::verify: the fallback of a failed hash stores the password
\* itself, which is no valid hash, so nothing verifies against it.
Verify(entry, password) == entry.hashed /\ entry.password = password

Ok(host) == [status |-> "Ok", host |-> host]
Err == [status |-> "Err", host |-> None]

----------------------------------------------------------------------------
(* Actions *)

Init ==
    /\ rooms = [r \in Rooms |-> None]
    /\ hosts = [p \in Peers |-> None]
    /\ links = [p \in Peers |-> [c \in Conns |-> None]]
    /\ answers = [p \in Peers |-> [c \in Conns |-> None]]

\* A client opens a connection to enter a room.
Connect(p, c, req) ==
    /\ links[p][c] = None
    /\ p \in Overlapping \/ ~Connected(p)
    /\ links' = [links EXCEPT ![p][c] = req]
    /\ UNCHANGED <<registry, answers>>

\* The room exists: name its host to whoever knows the password, except to
\* the host itself.
AnswerRoom(p, c) ==
    LET entry == rooms[links[p][c].room] IN
    /\ entry # None
    /\ answers' = [answers EXCEPT ![p][c] =
           IF ~Verify(entry, links[p][c].password) THEN Err
           ELSE Ok(IF entry.peer # p THEN entry.peer ELSE None)]
    /\ UNCHANGED registry

\* A slip, to show what TypeOK says: the request itself is stored in `rooms'.
CreateRoomStoringRequest(p, c) ==
    LET req == links[p][c] IN
    /\ rooms[req.room] = None
    /\ hosts' = [hosts EXCEPT ![p] = req.room]
    /\ rooms' = [rooms EXCEPT ![req.room] = req]
    /\ answers' = [answers EXCEPT ![p][c] = Ok(None)]

\* A slip, to show what SoleHost says: the room is inserted whether or not it
\* exists.
CreateRoomUnchecked(p, c) ==
    LET req == links[p][c] IN
    /\ hosts' = [hosts EXCEPT ![p] = req.room]
    /\ rooms' = [rooms EXCEPT ![req.room] =
           [peer |-> p, password |-> req.password, hashed |-> TRUE]]
    /\ answers' = [answers EXCEPT ![p][c] = Ok(None)]

\* The room does not exist: the requester becomes its host.
CreateRoom(p, c) ==
    LET req == links[p][c] IN
    /\ rooms[req.room] = None
    /\ hosts' = [hosts EXCEPT ![p] = req.room]
    /\ \E hashed \in HashOutcomes :
           rooms' = [rooms EXCEPT ![req.room] =
               [peer |-> p, password |-> req.password, hashed |-> hashed]]
    /\ answers' = [answers EXCEPT ![p][c] = Ok(None)]

\* handle_init_request.  A client asks again on the same connection whenever
\* the relay identifies itself again.
HandleInitRequest(p, c) ==
    /\ links[p][c] # None
    /\ AnswerRoom(p, c) \/ CreateRoom(p, c)
    /\ UNCHANGED links

\* Two slips, to show what HostsOwnRoom and ImplementsLease say: one of the
\* two maps is not cleaned.
CloseNodeKeepingHost(p) ==
    /\ rooms' = [r \in Rooms |-> IF r = hosts[p] THEN None ELSE rooms[r]]
    /\ UNCHANGED hosts

CloseNodeKeepingRoom(p) ==
    /\ hosts' = [hosts EXCEPT ![p] = None]
    /\ UNCHANGED rooms

\* close_node: forgets the room the peer is registered for, if any.
CloseNode(p) ==
    /\ rooms' = [r \in Rooms |-> IF r = hosts[p] THEN None ELSE rooms[r]]
    /\ hosts' = [hosts EXCEPT ![p] = None]

\* A slip, to show what RoomsLive says: a closed connection is ignored.
ConnectionClosedIgnored(p, c) ==
    /\ links[p][c] # None
    /\ links' = [links EXCEPT ![p][c] = None]
    /\ answers' = [answers EXCEPT ![p][c] = None]
    /\ UNCHANGED registry

\* SwarmEvent::ConnectionClosed, for any connection of the peer: whether
\* another one is still open does not matter to the code.
ConnectionClosed(p, c) ==
    /\ links[p][c] # None
    /\ links' = [links EXCEPT ![p][c] = None]
    /\ answers' = [answers EXCEPT ![p][c] = None]
    /\ CloseNode(p)

Next ==
    \E p \in Peers, c \in Conns :
        \/ \E req \in Request : Connect(p, c, req)
        \/ HandleInitRequest(p, c)
        \/ ConnectionClosed(p, c)

Spec == Init /\ [][Next]_relayVars

----------------------------------------------------------------------------
(* Properties *)

\* The two maps agree in the direction close_node relies on: the room a peer
\* is registered for exists and is that peer's.  Without it close_node would
\* delete somebody else's room.
HostsOwnRoom ==
    \A p \in Peers : hosts[p] # None =>
        rooms[hosts[p]] # None /\ rooms[hosts[p]].peer = p

\* The other direction: a room whose host never overlaps its connections is
\* in `hosts' too, and the host is connected for that very room.  This is
\* what handle_init_request takes for granted when it names the host.
RoomsLive ==
    \A r \in Rooms :
        (rooms[r] # None /\ rooms[r].peer \in Disciplined) =>
            /\ hosts[rooms[r].peer] = r
            /\ \E c \in Conns :
                   /\ links[rooms[r].peer][c] # None
                   /\ links[rooms[r].peer][c].room = r

\* A peer that was told it is the host (Ok, no host named) and is still
\* connected is the registered host of the room it asked for, so two such
\* peers never host the same room at once.
SoleHost ==
    \A p \in Disciplined, c \in Conns :
        (links[p][c] # None /\ answers[p][c] = Ok(None)) =>
            /\ rooms[links[p][c].room] # None
            /\ rooms[links[p][c].room].peer = p

\* The peers that never overlap lease their rooms as module RoomLease says,
\* whatever the others do.
LeaseOwner ==
    [r \in Rooms |->
        IF rooms[r] # None /\ rooms[r].peer \in Disciplined
        THEN rooms[r].peer ELSE None]
LeasePresent == {p \in Disciplined : Connected(p)}

Lease == INSTANCE RoomLease WITH
    Peers <- Disciplined, owner <- LeaseOwner, present <- LeasePresent

ImplementsLease == Lease!Spec
=============================================================================
