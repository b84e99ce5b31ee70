---------------------------- MODULE RelayProofs ----------------------------
(***************************************************************************)
(* The registry's invariants for any sets of peers, rooms, passwords and   *)
(* connections, and the lease it grants to the peers that never overlap    *)
(* their connections.                                                      *)
(***************************************************************************)
EXTENDS Relay, TLAPS

\* A peer that does not overlap has at most one open connection.
OneLink ==
    \A p \in Disciplined : \A c, d \in Conns :
        (links[p][c] # None /\ links[p][d] # None) => c = d

\* An answer belongs to an open connection.
AnswersOnOpenLinks ==
    \A p \in Peers, c \in Conns : links[p][c] = None => answers[p][c] = None

\* The inductive invariant: RoomsLive needs OneLink when a host registers a
\* room (it cannot be the host of another one), SoleHost needs
\* AnswersOnOpenLinks when a slot is used again, and both need HostsOwnRoom
\* when some other peer's registration is deleted.
IInv ==
    /\ TypeOK
    /\ HostsOwnRoom
    /\ OneLink
    /\ AnswersOnOpenLinks
    /\ RoomsLive
    /\ SoleHost

----------------------------------------------------------------------------

\* An entry, a request, a response, a room or a peer is never None.
LEMMA NoneIsNothing ==
    /\ \A x \in RoomEntry : x # None
    /\ \A x \in Request : x # None
    /\ \A x \in InitResponse : x # None
    /\ \A x \in Rooms : x # None
    /\ \A x \in Peers : x # None
BY RelayAssumption

\* The answers the relay sends are responses.
LEMMA ResponseTypes ==
    /\ \A h \in Peers \cup {None} : Ok(h) \in InitResponse
    /\ Err \in InitResponse
BY DEF Ok, Err, InitResponse

\* Only Ok(None) tells a peer that it is the host.
LEMMA ResponsesDiffer ==
    /\ Err # Ok(None)
    /\ \A h : Ok(h) = Ok(None) => h = None
BY DEF Ok, Err

LEMMA InitIInv == Init => IInv
<1> SUFFICES ASSUME Init PROVE IInv
  OBVIOUS
<1>1. TypeOK
  BY DEF Init, TypeOK
<1>2. HostsOwnRoom
  BY DEF Init, HostsOwnRoom
<1>3. OneLink /\ AnswersOnOpenLinks
  BY DEF Init, OneLink, AnswersOnOpenLinks, Disciplined
<1>4. RoomsLive /\ SoleHost
  BY DEF Init, RoomsLive, SoleHost, Disciplined
<1> QED
  BY <1>1, <1>2, <1>3, <1>4 DEF IInv

\* Opening a connection changes no room, and the new slot has no answer yet.
LEMMA ConnectKeepsIInv ==
    ASSUME IInv, NEW p \in Peers, NEW c \in Conns, NEW req \in Request,
           Connect(p, c, req)
    PROVE  IInv'
<1> USE NoneIsNothing DEF IInv, TypeOK, Connect, registry, Disciplined
<1>1. TypeOK'
  OBVIOUS
<1>2. HostsOwnRoom'
  BY DEF HostsOwnRoom
<1>3. OneLink'
  BY DEF OneLink, Connected
<1>4. AnswersOnOpenLinks'
  BY DEF AnswersOnOpenLinks
<1>5. RoomsLive'
  BY DEF RoomsLive
<1>6. SoleHost'
  <2> SUFFICES ASSUME NEW q \in Disciplined, NEW d \in Conns,
                      links'[q][d] # None, answers'[q][d] = Ok(None)
               PROVE  /\ rooms'[links'[q][d].room] # None
                      /\ rooms'[links'[q][d].room].peer = q
    BY DEF SoleHost
  <2>1. Ok(None) # None
    BY ResponseTypes
  <2>2. links[q][d] # None
    BY <2>1 DEF AnswersOnOpenLinks
  <2>3. links'[q][d] = links[q][d]
    BY <2>2
  <2> QED
    BY <2>2, <2>3 DEF SoleHost
<1> QED
  BY <1>1, <1>2, <1>3, <1>4, <1>5, <1>6

\* An answer about an existing room changes no map; it makes its receiver
\* believe to be the host only if it is.
LEMMA AnswerRoomKeepsIInv ==
    ASSUME IInv, NEW p \in Peers, NEW c \in Conns,
           links[p][c] # None, AnswerRoom(p, c), UNCHANGED links
    PROVE  IInv'
<1> USE NoneIsNothing DEF IInv, registry, Disciplined
<1> DEFINE r == links[p][c].room
           reply == IF ~Verify(rooms[r], links[p][c].password) THEN Err
                    ELSE Ok(IF rooms[r].peer # p THEN rooms[r].peer ELSE None)
<1>1. /\ rooms[r] # None
      /\ answers' = [answers EXCEPT ![p][c] = reply]
      /\ UNCHANGED <<rooms, hosts, links>>
  BY DEF AnswerRoom
<1>2. r \in Rooms /\ rooms[r] \in RoomEntry
  BY <1>1 DEF TypeOK, Request
<1>3. rooms[r].peer \in Peers
  BY <1>2 DEF RoomEntry
<1>4. reply \in InitResponse
  BY <1>3, ResponseTypes
<1>5. reply = Ok(None) => rooms[r].peer = p
  BY <1>3, ResponsesDiffer
<1> HIDE DEF reply
<1>6. TypeOK'
  BY <1>1, <1>4 DEF TypeOK
<1>7. HostsOwnRoom' /\ OneLink' /\ RoomsLive'
  BY <1>1 DEF HostsOwnRoom, OneLink, RoomsLive
<1>8. AnswersOnOpenLinks'
  BY <1>1 DEF AnswersOnOpenLinks, TypeOK
<1>9. SoleHost'
  BY <1>1, <1>5 DEF SoleHost, TypeOK
<1> QED
  BY <1>6, <1>7, <1>8, <1>9

\* A new room is its creator's only room if the creator does not overlap.
LEMMA CreateRoomKeepsIInv ==
    ASSUME IInv, NEW p \in Peers, NEW c \in Conns,
           links[p][c] # None, CreateRoom(p, c), UNCHANGED links
    PROVE  IInv'
<1> USE NoneIsNothing DEF IInv, Disciplined
<1> DEFINE req == links[p][c]
           r == req.room
<1>1. PICK hashed \in HashOutcomes :
          /\ rooms[r] = None
          /\ hosts' = [hosts EXCEPT ![p] = r]
          /\ rooms' = [rooms EXCEPT ![r] =
                [peer |-> p, password |-> req.password, hashed |-> hashed]]
          /\ answers' = [answers EXCEPT ![p][c] = Ok(None)]
          /\ links' = links
  BY DEF CreateRoom
<1> DEFINE entry == [peer |-> p, password |-> req.password, hashed |-> hashed]
<1>2. req \in Request /\ r \in Rooms /\ req.password \in Passwords
  BY DEF TypeOK, Request
<1>3. entry \in RoomEntry /\ entry.peer = p /\ entry # None
  BY <1>2, RelayAssumption DEF RoomEntry
<1>4. rooms' = [rooms EXCEPT ![r] = entry]
  BY <1>1
<1>5. Ok(None) \in InitResponse
  BY ResponseTypes
<1> HIDE DEF entry
<1>6. TypeOK'
  BY <1>1, <1>2, <1>3, <1>4, <1>5 DEF TypeOK
<1>7. HostsOwnRoom'
  <2> SUFFICES ASSUME NEW q \in Peers, hosts'[q] # None
               PROVE  rooms'[hosts'[q]] # None /\ rooms'[hosts'[q]].peer = q
    BY DEF HostsOwnRoom
  <2>1. CASE q = p
    BY <2>1, <1>1, <1>2, <1>3, <1>4 DEF TypeOK
  <2>2. CASE q # p
    <3>1. hosts'[q] = hosts[q] /\ hosts[q] \in Rooms
      BY <2>2, <1>1 DEF TypeOK
    <3>2. hosts[q] # r
      BY <3>1, <1>1 DEF HostsOwnRoom
    <3> QED
      BY <3>1, <3>2, <1>4 DEF HostsOwnRoom, TypeOK
  <2> QED
    BY <2>1, <2>2
<1>8. OneLink' /\ AnswersOnOpenLinks'
  BY <1>1 DEF OneLink, AnswersOnOpenLinks, TypeOK
<1>9. RoomsLive'
  <2> SUFFICES ASSUME NEW s \in Rooms, rooms'[s] # None,
                      rooms'[s].peer \in Disciplined
               PROVE  /\ hosts'[rooms'[s].peer] = s
                      /\ \E d \in Conns :
                             /\ links'[rooms'[s].peer][d] # None
                             /\ links'[rooms'[s].peer][d].room = s
    BY DEF RoomsLive
  <2>1. CASE s = r
    BY <2>1, <1>1, <1>2, <1>3, <1>4 DEF TypeOK
  <2>2. CASE s # r
    <3>1. rooms'[s] = rooms[s]
      BY <2>2, <1>4 DEF TypeOK
    <3>2. rooms[s] \in RoomEntry /\ rooms[s].peer \in Peers
      BY <3>1 DEF TypeOK, RoomEntry
    <3>3. PICK d \in Conns : /\ links[rooms[s].peer][d] # None
                             /\ links[rooms[s].peer][d].room = s
      BY <3>1 DEF RoomsLive
    <3>4. rooms[s].peer # p
      BY <3>1, <3>3, <2>2 DEF OneLink
    <3>5. hosts'[rooms[s].peer] = s
      BY <3>1, <3>2, <3>4, <1>1 DEF RoomsLive, TypeOK
    <3> QED
      BY <3>1, <3>3, <3>5, <1>1
  <2> QED
    BY <2>1, <2>2
<1>10. SoleHost'
  <2> SUFFICES ASSUME NEW q \in Disciplined, NEW d \in Conns,
                      links'[q][d] # None, answers'[q][d] = Ok(None)
               PROVE  /\ rooms'[links'[q][d].room] # None
                      /\ rooms'[links'[q][d].room].peer = q
    BY DEF SoleHost
  <2>1. CASE q = p /\ d = c
    BY <2>1, <1>1, <1>2, <1>3, <1>4 DEF TypeOK
  <2>2. CASE ~(q = p /\ d = c)
    <3>1. answers[q][d] = Ok(None) /\ links[q][d] # None
      BY <2>2, <1>1 DEF TypeOK
    <3>2. /\ rooms[links[q][d].room] # None
          /\ rooms[links[q][d].room].peer = q
      BY <3>1 DEF SoleHost
    <3>3. links[q][d].room \in Rooms /\ links[q][d].room # r
      BY <3>1, <3>2, <1>1 DEF TypeOK, Request
    <3> QED
      BY <3>2, <3>3, <1>1, <1>4 DEF TypeOK
  <2> QED
    BY <2>1, <2>2
<1> QED
  BY <1>6, <1>7, <1>8, <1>9, <1>10

\* close_node deletes a room of the peer itself and of nobody else; a peer
\* that does not overlap has no open connection left.
LEMMA ConnectionClosedKeepsIInv ==
    ASSUME IInv, NEW p \in Peers, NEW c \in Conns, ConnectionClosed(p, c)
    PROVE  IInv'
<1> USE NoneIsNothing DEF IInv, Disciplined
<1>1. /\ links[p][c] # None
      /\ links' = [links EXCEPT ![p][c] = None]
      /\ answers' = [answers EXCEPT ![p][c] = None]
      /\ rooms' = [r \in Rooms |-> IF r = hosts[p] THEN None ELSE rooms[r]]
      /\ hosts' = [hosts EXCEPT ![p] = None]
  BY DEF ConnectionClosed, CloseNode
<1>2. TypeOK'
  BY <1>1 DEF TypeOK
<1>3. HostsOwnRoom'
  <2> SUFFICES ASSUME NEW q \in Peers, hosts'[q] # None
               PROVE  rooms'[hosts'[q]] # None /\ rooms'[hosts'[q]].peer = q
    BY DEF HostsOwnRoom
  <2>1. q # p /\ hosts'[q] = hosts[q] /\ hosts[q] \in Rooms
    BY <1>1 DEF TypeOK
  <2>2. hosts[q] # hosts[p]
    BY <2>1 DEF HostsOwnRoom
  <2> QED
    BY <2>1, <2>2, <1>1 DEF HostsOwnRoom
<1>4. OneLink' /\ AnswersOnOpenLinks'
  BY <1>1 DEF OneLink, AnswersOnOpenLinks, TypeOK
<1>5. RoomsLive'
  <2> SUFFICES ASSUME NEW s \in Rooms, rooms'[s] # None,
                      rooms'[s].peer \in Disciplined
               PROVE  /\ hosts'[rooms'[s].peer] = s
                      /\ \E d \in Conns :
                             /\ links'[rooms'[s].peer][d] # None
                             /\ links'[rooms'[s].peer][d].room = s
    BY DEF RoomsLive
  <2>1. s # hosts[p] /\ rooms'[s] = rooms[s]
    BY <1>1
  <2>2. rooms[s].peer \in Peers
    BY <2>1 DEF TypeOK, RoomEntry
  <2>3. rooms[s].peer # p
    BY <2>1 DEF RoomsLive
  <2> QED
    BY <2>1, <2>2, <2>3, <1>1 DEF RoomsLive, TypeOK
<1>6. SoleHost'
  <2> SUFFICES ASSUME NEW q \in Disciplined, NEW d \in Conns,
                      links'[q][d] # None, answers'[q][d] = Ok(None)
               PROVE  /\ rooms'[links'[q][d].room] # None
                      /\ rooms'[links'[q][d].room].peer = q
    BY DEF SoleHost
  <2>1. q # p
    BY <1>1 DEF OneLink, TypeOK
  <2>2. /\ links'[q][d] = links[q][d]
        /\ answers[q][d] = Ok(None)
    BY <2>1, <1>1 DEF TypeOK
  <2>3. /\ rooms[links[q][d].room] # None
        /\ rooms[links[q][d].room].peer = q
        /\ links[q][d].room \in Rooms
    BY <2>2 DEF SoleHost, TypeOK, Request
  <2>4. links[q][d].room # hosts[p]
    BY <2>1, <2>3 DEF HostsOwnRoom
  <2> QED
    BY <2>2, <2>3, <2>4, <1>1
<1> QED
  BY <1>2, <1>3, <1>4, <1>5, <1>6

LEMMA NextKeepsIInv == IInv /\ [Next]_relayVars => IInv'
<1> SUFFICES ASSUME IInv, [Next]_relayVars PROVE IInv'
  OBVIOUS
<1>1. CASE UNCHANGED relayVars
  BY <1>1 DEF relayVars, IInv, TypeOK, HostsOwnRoom, OneLink,
              AnswersOnOpenLinks, RoomsLive, SoleHost
<1>2. CASE Next
  <2>1. PICK p \in Peers, c \in Conns :
            \/ \E req \in Request : Connect(p, c, req)
            \/ HandleInitRequest(p, c)
            \/ ConnectionClosed(p, c)
    BY <1>2 DEF Next
  <2>2. CASE \E req \in Request : Connect(p, c, req)
    BY <2>2, ConnectKeepsIInv
  <2>3. CASE HandleInitRequest(p, c)
    BY <2>3, AnswerRoomKeepsIInv, CreateRoomKeepsIInv DEF HandleInitRequest
  <2>4. CASE ConnectionClosed(p, c)
    BY <2>4, ConnectionClosedKeepsIInv
  <2> QED
    BY <2>1, <2>2, <2>3, <2>4
<1> QED
  BY <1>1, <1>2

LEMMA InductiveInvariant == Spec => []IInv
BY InitIInv, NextKeepsIInv, PTL DEF Spec

----------------------------------------------------------------------------

\* The two maps of relay.rs hold what their types say.
THEOREM TypeCorrect == Spec => []TypeOK
<1>1. IInv => TypeOK
  BY DEF IInv
<1> QED
  BY <1>1, InductiveInvariant, PTL

\* close_node never deletes a room that belongs to another peer.
THEOREM RegisteredHostsOwnTheirRoom == Spec => []HostsOwnRoom
<1>1. IInv => HostsOwnRoom
  BY DEF IInv
<1> QED
  BY <1>1, InductiveInvariant, PTL

\* The host named for a room is connected for that room and registered in
\* both maps, if it never overlaps its connections.
THEOREM RegisteredRoomsAreLive == Spec => []RoomsLive
<1>1. IInv => RoomsLive
  BY DEF IInv
<1> QED
  BY <1>1, InductiveInvariant, PTL

\* A peer that was made the host of a room stays its registered host while it
\* is connected, if it never overlaps its connections.
THEOREM HostsAreExclusive == Spec => []SoleHost
<1>1. IInv => SoleHost
  BY DEF IInv
<1> QED
  BY <1>1, InductiveInvariant, PTL

----------------------------------------------------------------------------
(* The lease.  For the peers that never overlap their connections Connect  *)
(* is Enter, CreateRoom is Claim, ConnectionClosed with its close_node is  *)
(* Leave, and everything the overlapping peers do is invisible.            *)

\* A room that the lease shows as owned is registered for that peer.
LEMMA LeaseOwnerValue ==
    ASSUME TypeOK, NEW r \in Rooms
    PROVE  /\ LeaseOwner[r] # None => /\ rooms[r] # None
                                      /\ LeaseOwner[r] = rooms[r].peer
                                      /\ rooms[r].peer \in Disciplined
           /\ (rooms[r] # None /\ rooms[r].peer \in Disciplined)
                => LeaseOwner[r] = rooms[r].peer
BY DEF LeaseOwner

LEMMA InitRefines == Init => Lease!Init
<1> SUFFICES ASSUME Init PROVE Lease!Init
  OBVIOUS
<1>1. LeaseOwner = [r \in Rooms |-> None]
  BY DEF Init, LeaseOwner
<1>2. LeasePresent = {}
  BY DEF Init, LeasePresent, Connected, Disciplined
<1> QED
  BY <1>1, <1>2 DEF Lease!Init

LEMMA ConnectRefines ==
    ASSUME IInv, NEW p \in Peers, NEW c \in Conns, NEW req \in Request,
           Connect(p, c, req)
    PROVE  [Lease!Next]_<<LeaseOwner, LeasePresent>>
<1> USE NoneIsNothing
<1>1. LeaseOwner' = LeaseOwner
  BY DEF Connect, registry, LeaseOwner
<1>2. \A q \in Peers \ {p} : Connected(q)' <=> Connected(q)
  BY DEF Connect, Connected, IInv, TypeOK
<1>3. CASE p \in Disciplined
  <2>1. p \notin LeasePresent
    BY <1>3 DEF Connect, LeasePresent, Disciplined
  <2>2. Connected(p)'
    BY DEF Connect, Connected, IInv, TypeOK
  <2>3. LeasePresent' = LeasePresent \cup {p}
    BY <1>2, <1>3, <2>2 DEF LeasePresent, Disciplined
  <2> QED
    BY <1>1, <1>3, <2>1, <2>3 DEF Lease!Next, Lease!Enter
<1>4. CASE p \notin Disciplined
  <2>1. LeasePresent' = LeasePresent
    BY <1>2, <1>4 DEF LeasePresent, Disciplined
  <2> QED
    BY <1>1, <2>1
<1> QED
  BY <1>3, <1>4

LEMMA InitRequestRefines ==
    ASSUME IInv, NEW p \in Peers, NEW c \in Conns, HandleInitRequest(p, c)
    PROVE  [Lease!Next]_<<LeaseOwner, LeasePresent>>
<1> USE NoneIsNothing
<1>1. LeasePresent' = LeasePresent /\ links[p][c] # None
  BY DEF HandleInitRequest, LeasePresent, Connected
<1>2. CASE AnswerRoom(p, c)
  <2>1. LeaseOwner' = LeaseOwner
    BY <1>2 DEF AnswerRoom, registry, LeaseOwner
  <2> QED
    BY <1>1, <2>1
<1>3. CASE CreateRoom(p, c)
  <2> DEFINE r == links[p][c].room
  <2>1. PICK entry \in RoomEntry :
            /\ rooms[r] = None
            /\ rooms' = [rooms EXCEPT ![r] = entry]
            /\ entry.peer = p
    <3>1. PICK hashed \in HashOutcomes :
              rooms' = [rooms EXCEPT ![r] = [peer |-> p,
                  password |-> links[p][c].password, hashed |-> hashed]]
      BY <1>3 DEF CreateRoom
    <3>2. [peer |-> p, password |-> links[p][c].password, hashed |-> hashed]
            \in RoomEntry
      BY <1>1, RelayAssumption DEF IInv, TypeOK, Request, RoomEntry
    <3> QED
      BY <1>3, <3>1, <3>2 DEF CreateRoom
  <2>2. r \in Rooms
    BY <1>1 DEF IInv, TypeOK, Request
  <2>3. LeaseOwner' =
          [LeaseOwner EXCEPT ![r] = IF p \in Disciplined THEN p ELSE None]
    BY <2>1, <2>2 DEF LeaseOwner, IInv, TypeOK
  <2>4. LeaseOwner[r] = None
    BY <2>1, <2>2 DEF LeaseOwner
  <2>5. CASE p \in Disciplined
    <3>1. p \in LeasePresent
      BY <1>1, <2>5 DEF LeasePresent, Connected
    <3>2. Lease!Owned(p) = {}
      <4> SUFFICES ASSUME NEW s \in Rooms, LeaseOwner[s] = p PROVE FALSE
        BY DEF Lease!Owned
      <4>1. rooms[s] # None /\ rooms[s].peer = p
        BY LeaseOwnerValue DEF IInv
      <4>2. PICK d \in Conns : links[p][d] # None /\ links[p][d].room = s
        BY <4>1, <2>5 DEF IInv, RoomsLive
      <4>3. d = c
        BY <4>2, <1>1, <2>5 DEF IInv, OneLink
      <4> QED
        BY <4>1, <4>2, <4>3, <2>1
    <3>3. Lease!Claim(p, r)
      BY <1>1, <2>3, <2>4, <2>5, <3>1, <3>2 DEF Lease!Claim
    <3> QED
      BY <2>2, <2>5, <3>3 DEF Lease!Next
  <2>6. CASE p \notin Disciplined
    <3>1. LeaseOwner' = LeaseOwner
      BY <2>2, <2>3, <2>4, <2>6 DEF LeaseOwner
    <3> QED
      BY <1>1, <3>1
  <2> QED
    BY <2>5, <2>6
<1> QED
  BY <1>2, <1>3 DEF HandleInitRequest

LEMMA ConnectionClosedRefines ==
    ASSUME IInv, NEW p \in Peers, NEW c \in Conns, ConnectionClosed(p, c)
    PROVE  [Lease!Next]_<<LeaseOwner, LeasePresent>>
<1> USE NoneIsNothing
<1>1. \A q \in Peers \ {p} : Connected(q)' <=> Connected(q)
  BY DEF ConnectionClosed, Connected, IInv, TypeOK
<1>2. \A r \in Rooms : rooms'[r] = IF r = hosts[p] THEN None ELSE rooms[r]
  BY DEF ConnectionClosed, CloseNode
<1>3. \A r \in Rooms : r = hosts[p] => rooms[r] # None /\ rooms[r].peer = p
  BY DEF IInv, HostsOwnRoom
<1>4. CASE p \in Disciplined
  <2>1. p \in LeasePresent
    BY <1>4 DEF ConnectionClosed, LeasePresent, Connected
  <2>2. ~Connected(p)'
    BY <1>4 DEF ConnectionClosed, Connected, IInv, TypeOK, OneLink
  <2>3. LeasePresent' = LeasePresent \ {p}
    BY <1>1, <1>4, <2>2 DEF LeasePresent, Disciplined
  <2>4. \A r \in Rooms : LeaseOwner[r] = p => hosts[p] = r
    BY <1>4, LeaseOwnerValue DEF IInv, RoomsLive
  <2>5. \A r \in Rooms :
            LeaseOwner'[r] = IF LeaseOwner[r] = p THEN None ELSE LeaseOwner[r]
    BY <1>2, <1>3, <1>4, <2>4 DEF LeaseOwner
  <2>6. LeaseOwner' = [r \in Rooms |->
            IF LeaseOwner[r] = p THEN None ELSE LeaseOwner[r]]
    BY <2>5 DEF LeaseOwner
  <2> QED
    BY <1>4, <2>1, <2>3, <2>6 DEF Lease!Next, Lease!Leave
<1>5. CASE p \notin Disciplined
  <2>1. LeasePresent' = LeasePresent
    BY <1>1, <1>5 DEF LeasePresent, Disciplined
  <2>2. LeaseOwner' = LeaseOwner
    BY <1>2, <1>3, <1>5 DEF LeaseOwner
  <2> QED
    BY <2>1, <2>2
<1> QED
  BY <1>4, <1>5

LEMMA NextRefines ==
    IInv /\ [Next]_relayVars => [Lease!Next]_<<LeaseOwner, LeasePresent>>
<1> SUFFICES ASSUME IInv, [Next]_relayVars
             PROVE  [Lease!Next]_<<LeaseOwner, LeasePresent>>
  OBVIOUS
<1>1. CASE UNCHANGED relayVars
  BY <1>1 DEF relayVars, LeaseOwner, LeasePresent, Connected
<1>2. CASE Next
  BY <1>2, ConnectRefines, InitRequestRefines, ConnectionClosedRefines
     DEF Next
<1> QED
  BY <1>1, <1>2

\* For the peers that never overlap their connections the relay's registry is
\* a lease: claimed only while free, held by one connected peer, given back
\* by close_node when the peer leaves.
THEOREM RelayImplementsLease == Spec => ImplementsLease
<1>1. Init => Lease!Init
  BY InitRefines
<1>2. IInv /\ [Next]_relayVars => [Lease!Next]_(Lease!leaseVars)
  BY NextRefines DEF Lease!leaseVars
<1> QED
  BY <1>1, <1>2, InductiveInvariant, PTL DEF Spec, ImplementsLease, Lease!Spec
=============================================================================
