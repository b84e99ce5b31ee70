--------------------------- MODULE SessionProofs ---------------------------
(***************************************************************************)
(* A registered host is found by whoever asks for its room, for any peers, *)
(* rooms, connections, moves and faults.  What the relay contributes is    *)
(* taken from RelayProofs: every step of Session is a step of Relay or     *)
(* leaves the relay alone, so Relay's inductive invariant carries over.    *)
(***************************************************************************)
EXTENDS Session, TLAPS

RegistryProofs == INSTANCE RelayProofs WITH
    Passwords <- {Password}, HashOutcomes <- {TRUE}

\* What Session says beside Relay's types.
SessionTypes ==
    /\ want \in [Peers -> Rooms \cup {None}]
    /\ session \in [Peers -> Session]
    /\ moves \in 0..MaxMoves /\ faults \in 0..MaxFaults

\* While its connection is open a client is where it asked to be, and who is
\* a host was answered that nobody else is.
AnswersHold ==
    \A p \in Peers : Linked(p) =>
        /\ links[p][session[p].conn].room = session[p].room
        /\ session[p].state = "Host" =>
               answers[p][session[p].conn] = Registry!Ok(None)

\* The inductive invariant.
IInv == SessionTypes /\ RegistryProofs!IInv /\ AnswersHold

----------------------------------------------------------------------------
(* What Relay contributes *)

\* The relay is used as RelayProofs assumes.
LEMMA RegistryAssumption ==
    /\ Overlapping \subseteq Peers
    /\ {TRUE} \subseteq BOOLEAN /\ {TRUE} # {}
    /\ None \notin Peers \cup Rooms \cup RegistryProofs!Request
                   \cup RegistryProofs!RoomEntry \cup RegistryProofs!InitResponse
BY SessionAssumption
DEF Registry!Request, Registry!RoomEntry, Registry!InitResponse,
    RegistryProofs!Request, RegistryProofs!RoomEntry, RegistryProofs!InitResponse

LEMMA RegistryStep ==
    RegistryProofs!IInv /\ [RegistryProofs!Next]_relayVars => RegistryProofs!IInv'
BY RegistryAssumption, RegistryProofs!NextKeepsIInv
DEF RegistryProofs!relayVars, relayVars

LEMMA RegistryTypes == RegistryProofs!IInv => Registry!TypeOK
BY DEF RegistryProofs!IInv, RegistryProofs!TypeOK, Registry!TypeOK,
       RegistryProofs!Request, RegistryProofs!RoomEntry, RegistryProofs!InitResponse,
       Registry!Request, Registry!RoomEntry, Registry!InitResponse

\* The steps of the relay that Session takes.
LEMMA ConnectIsAStep ==
    ASSUME NEW p \in Peers, NEW c \in Conns, NEW r \in Rooms,
           Registry!Connect(p, c, [room |-> r, password |-> Password])
    PROVE  RegistryProofs!Next
<1> DEFINE req == [room |-> r, password |-> Password]
<1>1. req \in RegistryProofs!Request
  BY DEF RegistryProofs!Request
<1>2. RegistryProofs!Connect(p, c, req)
  BY DEF Registry!Connect, RegistryProofs!Connect, Registry!Connected,
         RegistryProofs!Connected, Registry!registry, RegistryProofs!registry
<1> QED
  BY <1>1, <1>2 DEF RegistryProofs!Next

LEMMA RequestIsAStep ==
    ASSUME NEW p \in Peers, NEW c \in Conns, Registry!HandleInitRequest(p, c)
    PROVE  RegistryProofs!Next
<1>1. RegistryProofs!HandleInitRequest(p, c)
  BY DEF Registry!HandleInitRequest, Registry!AnswerRoom, Registry!CreateRoom,
         Registry!Verify, Registry!Ok, Registry!Err, Registry!registry,
         RegistryProofs!HandleInitRequest, RegistryProofs!AnswerRoom,
         RegistryProofs!CreateRoom, RegistryProofs!Verify, RegistryProofs!Ok,
         RegistryProofs!Err, RegistryProofs!registry
<1> QED
  BY <1>1 DEF RegistryProofs!Next

LEMMA CloseIsAStep ==
    ASSUME NEW p \in Peers, NEW c \in Conns, Registry!ConnectionClosed(p, c)
    PROVE  RegistryProofs!Next
<1>1. RegistryProofs!ConnectionClosed(p, c)
  BY DEF Registry!ConnectionClosed, Registry!CloseNode,
         RegistryProofs!ConnectionClosed, RegistryProofs!CloseNode
<1> QED
  BY <1>1 DEF RegistryProofs!Next

----------------------------------------------------------------------------
(* The end of a session *)

\* What ends leaves the peer without a session, and of the others only their
\* state changes, from Client to Lost.
LEMMA EndedTypes ==
    ASSUME NEW p \in Peers, session \in [Peers -> Session]
    PROVE  /\ Ended(p) \in [Peers -> Session]
           /\ \A q \in Peers :
                  \/ Ended(p)[q] = Disconnected
                  \/ Ended(p)[q] = session[q]
                  \/ Ended(p)[q] = [session[q] EXCEPT !.state = "Lost"]
<1>1. Disconnected \in Session
  BY SessionAssumption DEF Disconnected, Session, State
<1>2. ASSUME NEW q \in Peers, session[q].state = "Client"
      PROVE  [session[q] EXCEPT !.state = "Lost"] \in Session
  BY <1>2 DEF Session, State
<1> QED
  BY <1>1, <1>2 DEF Ended

LEMMA EndKeepsIInv ==
    ASSUME IInv, NEW p \in Peers, session' = Ended(p), UNCHANGED relayVars,
           want' \in [Peers -> Rooms \cup {None}],
           moves' \in 0..MaxMoves, faults' \in 0..MaxFaults
    PROVE  IInv'
<1>1. SessionTypes'
  BY EndedTypes DEF IInv, SessionTypes
<1>2. RegistryProofs!IInv'
  BY RegistryStep DEF IInv
<1>3. AnswersHold'
  <2> SUFFICES ASSUME NEW q \in Peers, Linked(q)'
               PROVE  /\ links[q][Ended(p)[q].conn].room = Ended(p)[q].room
                      /\ Ended(p)[q].state = "Host" =>
                             answers[q][Ended(p)[q].conn] = Registry!Ok(None)
    BY DEF AnswersHold, relayVars, Registry!Ok
  <2>1. Ended(p)[q].conn # None /\ links[q][Ended(p)[q].conn] # None
    BY DEF Linked, relayVars
  <2>2. Ended(p)[q] # Disconnected
    BY <2>1 DEF Disconnected
  <2>3. \/ Ended(p)[q] = session[q]
        \/ Ended(p)[q] = [session[q] EXCEPT !.state = "Lost"]
    BY <2>2, EndedTypes DEF IInv, SessionTypes
  <2>4. /\ Ended(p)[q].conn = session[q].conn
        /\ Ended(p)[q].room = session[q].room
        /\ Ended(p)[q].state = "Host" => session[q].state = "Host"
    BY <2>3 DEF IInv, SessionTypes, Session
  <2>5. Linked(q)
    BY <2>1, <2>4 DEF Linked
  <2> QED
    BY <2>4, <2>5 DEF IInv, AnswersHold
<1> QED
  BY <1>1, <1>2, <1>3 DEF IInv

----------------------------------------------------------------------------
(* The other steps *)

\* A peer's session goes on over the connection it has: its type is right, and
\* if it is a host now, it was one or was answered that nobody else is.
LEMMA GoOnKeepsIInv ==
    ASSUME IInv, NEW p \in Peers, NEW s \in Session,
           s.conn = session[p].conn, s.room = session[p].room,
           s.state = "Host" =>
               session[p].state = "Host" \/ answers[p][s.conn] = Registry!Ok(None),
           session' = [session EXCEPT ![p] = s],
           UNCHANGED <<relayVars, want, moves>>, faults' \in 0..MaxFaults
    PROVE  IInv'
<1>1. SessionTypes'
  BY DEF IInv, SessionTypes
<1>2. RegistryProofs!IInv'
  BY RegistryStep DEF IInv
<1>3. AnswersHold'
  BY DEF IInv, SessionTypes, AnswersHold, Linked, relayVars, Registry!Ok
<1> QED
  BY <1>1, <1>2, <1>3 DEF IInv

\* A step of the relay that leaves the sessions alone: a first answer on a
\* connection, or a connection that closes.
LEMMA RelayKeepsIInv ==
    ASSUME IInv, RegistryProofs!Next, UNCHANGED <<want, session, moves>>,
           faults' \in 0..MaxFaults, AnswersHold'
    PROVE  IInv'
BY RegistryStep DEF IInv, SessionTypes

LEMMA DialKeepsIInv ==
    ASSUME IInv, NEW p \in Peers, NEW c \in Conns, Dial(p, c)
    PROVE  IInv'
<1> DEFINE r == want[p]
           s == [Disconnected EXCEPT !.state = "Connecting", !.conn = c, !.room = r]
<1>1. r \in Rooms
  BY DEF Dial, IInv, SessionTypes
<1>2. s \in Session
  BY <1>1, SessionAssumption DEF Disconnected, Session, State
<1>3. SessionTypes'
  BY <1>2 DEF Dial, IInv, SessionTypes
<1>4. RegistryProofs!IInv'
  BY <1>1, ConnectIsAStep, RegistryStep DEF Dial, IInv
<1>5. AnswersHold'
  <2>1. /\ session' = [session EXCEPT ![p] = s]
        /\ links' = [links EXCEPT ![p][c] = [room |-> r, password |-> Password]]
        /\ answers' = answers
    BY DEF Dial, Registry!Connect
  <2>2. /\ session \in [Peers -> Session]
        /\ links \in [Peers -> [Conns -> Registry!Request \cup {None}]]
    BY RegistryTypes DEF IInv, SessionTypes, Registry!TypeOK
  <2>3. s.conn = c /\ s.room = r /\ s.state = "Connecting"
    BY DEF Disconnected
  <2> HIDE DEF s, r
  <2>4. ASSUME NEW q \in Peers, q # p
        PROVE  session'[q] = session[q] /\ links'[q] = links[q]
    BY <2>1, <2>2, <2>4
  <2>5. session'[p] = s /\ links'[p][c].room = r
    BY <2>1, <2>2
  <2> QED
    BY <2>1, <2>3, <2>4, <2>5 DEF IInv, AnswersHold, Linked, Registry!Ok
<1> QED
  BY <1>3, <1>4, <1>5 DEF IInv

LEMMA RequestKeepsIInv ==
    ASSUME IInv, NEW p \in Peers, NEW c \in Conns, HandleInitRequest(p, c)
    PROVE  IInv'
<1>1. RegistryProofs!Next
  BY RequestIsAStep DEF HandleInitRequest
<1>2. /\ answers[p][c] = None /\ links' = links /\ session' = session
      /\ \E a : answers' = [answers EXCEPT ![p][c] = a]
  BY DEF HandleInitRequest, Registry!HandleInitRequest, Registry!AnswerRoom,
         Registry!CreateRoom
<1>3. answers \in [Peers -> [Conns -> Registry!InitResponse \cup {None}]]
  BY RegistryTypes DEF IInv, Registry!TypeOK
<1>4. Registry!Ok(None) # None
  BY SessionAssumption DEF Registry!Ok, Registry!InitResponse
<1>5. AnswersHold'
  BY <1>2, <1>3, <1>4 DEF IInv, AnswersHold, Linked, Registry!Ok
<1> QED
  BY <1>1, <1>5, RelayKeepsIInv DEF HandleInitRequest, IInv, SessionTypes

LEMMA CloseKeepsIInv ==
    ASSUME IInv, NEW p \in Peers, NEW c \in Conns,
           Registry!ConnectionClosed(p, c), UNCHANGED <<want, session, moves>>,
           faults' \in 0..MaxFaults
    PROVE  IInv'
<1>1. /\ links' = [links EXCEPT ![p][c] = None]
      /\ answers' = [answers EXCEPT ![p][c] = None]
      /\ session' = session
  BY DEF Registry!ConnectionClosed
<1>2. /\ links \in [Peers -> [Conns -> Registry!Request \cup {None}]]
      /\ answers \in [Peers -> [Conns -> Registry!InitResponse \cup {None}]]
  BY RegistryTypes DEF IInv, Registry!TypeOK
<1>3. AnswersHold'
  BY <1>1, <1>2 DEF IInv, AnswersHold, Linked, Registry!Ok
<1> QED
  BY <1>3, CloseIsAStep, RelayKeepsIInv

----------------------------------------------------------------------------
(* The invariant is inductive *)

LEMMA InitIInv == Init => IInv
<1> SUFFICES ASSUME Init PROVE IInv
  OBVIOUS
<1>1. SessionTypes
  <2>1. Disconnected \in Session
    BY SessionAssumption DEF Disconnected, Session, State
  <2> QED
    BY <2>1, SessionAssumption DEF Init, SessionTypes
<1>2. RegistryProofs!IInv
  BY RegistryAssumption, RegistryProofs!InitIInv
  DEF Init, Registry!Init, RegistryProofs!Init
<1>3. AnswersHold
  BY DEF Init, AnswersHold, Linked, Disconnected
<1> QED
  BY <1>1, <1>2, <1>3 DEF IInv

LEMMA NextKeepsIInv == IInv /\ [Next]_sessionVars => IInv'
<1> SUFFICES ASSUME IInv, [Next]_sessionVars PROVE IInv'
  OBVIOUS
<1> USE DEF IInv, SessionTypes
<1>1. CASE UNCHANGED sessionVars
  <2>1. RegistryProofs!IInv'
    BY <1>1, RegistryStep DEF sessionVars, relayVars
  <2>2. AnswersHold'
    BY <1>1 DEF sessionVars, AnswersHold, Linked, Registry!Ok
  <2> QED
    BY <1>1, <2>1, <2>2 DEF sessionVars
<1>2. ASSUME NEW p \in Peers, NEW r \in Rooms, ChangeRoom(p, r)
      PROVE  IInv'
  BY <1>2, EndKeepsIInv, SessionAssumption DEF ChangeRoom, Move
<1>3. ASSUME NEW p \in Peers, Quit(p)
      PROVE  IInv'
  BY <1>3, EndKeepsIInv, SessionAssumption DEF Quit, Move
<1>4. ASSUME NEW p \in Peers, TimesOut(p) \/ DialFails(p) \/ LoseHost(p) \/ LoseRelay(p)
      PROVE  IInv'
  BY <1>4, EndKeepsIInv DEF TimesOut, DialFails, LoseHost, LoseRelay
<1>5. ASSUME NEW p \in Peers, BreakForClient(p)
      PROVE  IInv'
  BY <1>5, EndKeepsIInv, SessionAssumption DEF BreakForClient, Fault
<1>6. ASSUME NEW p \in Peers, BecomeHost(p)
      PROVE  IInv'
  <2> DEFINE s == [session[p] EXCEPT !.state = "Host"]
  <2>1. s \in Session /\ s.conn = session[p].conn /\ s.room = session[p].room
    BY <1>6, SessionAssumption DEF BecomeHost, Session, State
  <2>2. session' = [session EXCEPT ![p] = s]
    BY <1>6 DEF BecomeHost
  <2>3. answers[p][s.conn] = Registry!Ok(None)
    BY <1>6, <2>1 DEF BecomeHost
  <2> QED
    BY <1>6, <2>1, <2>2, <2>3, GoOnKeepsIInv DEF BecomeHost
<1>7. ASSUME NEW p \in Peers, LearnHost(p)
      PROVE  IInv'
  <2>1. PICK h \in Peers :
            session' = [session EXCEPT ![p].state = "Dialing", ![p].host = h]
    BY <1>7 DEF LearnHost
  <2> DEFINE s == [session[p] EXCEPT !.state = "Dialing", !.host = h]
  <2>2. /\ s \in Session /\ s.conn = session[p].conn /\ s.room = session[p].room
        /\ s.state # "Host"
    BY <1>7, SessionAssumption DEF LearnHost, Session, State
  <2>3. session' = [session EXCEPT ![p] = s]
    BY <2>1
  <2> QED
    BY <1>7, <2>2, <2>3, GoOnKeepsIInv DEF LearnHost
<1>8. ASSUME NEW p \in Peers, MeetHost(p)
      PROVE  IInv'
  <2> DEFINE s == [session[p] EXCEPT !.state = "Client"]
  <2>1. /\ s \in Session /\ s.conn = session[p].conn /\ s.room = session[p].room
        /\ s.state # "Host"
    BY <1>8 DEF MeetHost, Session, State
  <2>2. session' = [session EXCEPT ![p] = s]
    BY <1>8 DEF MeetHost
  <2> QED
    BY <1>8, <2>1, <2>2, GoOnKeepsIInv DEF MeetHost
<1>9. ASSUME NEW p \in Peers, BreakForPeers(p)
      PROVE  IInv'
  <2> DEFINE s == [session[p] EXCEPT !.state = "Lost"]
  <2>1. /\ s \in Session /\ s.conn = session[p].conn /\ s.room = session[p].room
        /\ s.state # "Host"
    BY <1>9 DEF BreakForPeers, Session, State
  <2>2. session' = [session EXCEPT ![p] = s] /\ faults' \in 0..MaxFaults
    BY <1>9, SessionAssumption DEF BreakForPeers, Fault
  <2> QED
    BY <1>9, <2>1, <2>2, GoOnKeepsIInv DEF BreakForPeers
<1>10. ASSUME NEW p \in Peers, BreakForRelay(p)
       PROVE  IInv'
  <2>1. session[p].conn \in Conns
    BY <1>10 DEF BreakForRelay, Session
  <2>2. faults' \in 0..MaxFaults
    BY <1>10, SessionAssumption DEF BreakForRelay, Fault
  <2> QED
    BY <1>10, <2>1, <2>2, CloseKeepsIInv DEF BreakForRelay
<1>11. ASSUME NEW p \in Peers, NEW c \in Conns, CloseDropped(p, c)
       PROVE  IInv'
  BY <1>11, CloseKeepsIInv DEF CloseDropped
<1> QED
  BY <1>1, <1>2, <1>3, <1>4, <1>5, <1>6, <1>7, <1>8, <1>9, <1>10, <1>11,
     DialKeepsIInv, RequestKeepsIInv DEF Next

LEMMA InductiveInvariant == Spec => []IInv
BY InitIInv, NextKeepsIInv, PTL DEF Spec

----------------------------------------------------------------------------

\* A session and the relay's registry keep their types: a client has a
\* connection unless it is disconnected, and a host to talk to if it is none.
THEOREM TypeCorrect == Spec => []TypeOK
<1>1. IInv => TypeOK
  BY RegistryTypes DEF IInv, SessionTypes, TypeOK
<1> QED
  BY <1>1, InductiveInvariant, PTL

\* Whoever became a host by establish_conection, and did not overlap its
\* connections, is the one handle_init_request names for the room.
THEOREM HostsAreFound == Spec => []HostRegistered
<1>1. ASSUME IInv, NEW p \in Peers \ Overlapping,
             session[p].state = "Host", Linked(p)
      PROVE  /\ rooms[session[p].room] # None
             /\ rooms[session[p].room].peer = p
  <2>1. session[p].conn \in Conns
    BY <1>1 DEF IInv, SessionTypes, Session, Linked
  <2>2. /\ links[p][session[p].conn] # None
        /\ links[p][session[p].conn].room = session[p].room
        /\ answers[p][session[p].conn] = Registry!Ok(None)
    BY <1>1 DEF IInv, AnswersHold, Linked
  <2>3. RegistryProofs!SoleHost
    BY <1>1 DEF IInv, RegistryProofs!IInv
  <2> QED
    BY <2>1, <2>2, <2>3
    DEF RegistryProofs!SoleHost, RegistryProofs!Disciplined, RegistryProofs!Ok,
        Registry!Ok
<1>2. IInv => HostRegistered
  BY <1>1 DEF HostRegistered
<1> QED
  BY <1>2, InductiveInvariant, PTL
=============================================================================
