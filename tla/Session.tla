------------------------------ MODULE Session ------------------------------
(***************************************************************************)
(* How a user gets into a room and stays there: the life cycle of a        *)
(* client's connection (client/communicator/src/lib.rs, p2p/mod.rs) and    *)
(* the end of a session as host and client see it (p2p/host.rs, client.rs),*)
(* composed with the relay's registry, module Relay.                       *)
(*                                                                         *)
(* A client dials the relay, asks for the room and becomes its host, or    *)
(* dials the host the relay names.  Whatever ends the session or the       *)
(* attempt, it tries again, and a user who changes rooms drops both.  What *)
(* a client drops is gone for itself at once; the relay sees its           *)
(* connection close some time later.                                       *)
(*                                                                         *)
(* All use one password, and a connection asks for its room once (Relay    *)
(* has the rest).  Waiting two seconds before an attempt is a step like    *)
(* any other.                                                              *)
(***************************************************************************)
EXTENDS Naturals

CONSTANTS
    Peers,        \* the PeerIds of the clients
    Rooms,        \* the names of the rooms
    Password,     \* the password of all rooms
    Conns,        \* the slots for simultaneous connections to the relay
    Overlapping,  \* the peers that do not wait for the relay to see a
                  \* connection closed before they open the next
    MaxMoves,     \* bound: users that enter, change or leave rooms
    MaxFaults,    \* bound: connections that break
    None          \* no room, no host, no connection

VARIABLES
    rooms, hosts,    \* the registry, as in Relay
    links, answers,  \* the connections to the relay, as in Relay
    want,            \* want[p]: the room of p's endpoint, or None
    session,         \* session[p]: Connection and Handler of p, see below
    moves,           \* counts against MaxMoves
    faults           \* counts against MaxFaults

relayVars == <<rooms, hosts, links, answers>>
sessionVars == <<rooms, hosts, links, answers, want, session, moves, faults>>

Registry == INSTANCE Relay WITH
    Passwords <- {Password}, HashOutcomes <- {TRUE}

ASSUME SessionAssumption ==
    /\ MaxMoves \in Nat /\ MaxFaults \in Nat
    /\ Overlapping \subseteq Peers
    /\ None \notin Peers \cup Rooms \cup Conns
    /\ None \notin Registry!Request \cup Registry!RoomEntry \cup Registry!InitResponse

\* Disconnected; Connecting: a connection to the relay is open or opening;
\* Host, Dialing, Client: the handler runs, as client without or with a
\* connection to the host; Lost: a client whose host is gone, unnoticed.
State == {"Disconnected", "Connecting", "Host", "Dialing", "Client", "Lost"}
Session ==
    {s \in [state : State, conn : Conns \cup {None}, room : Rooms \cup {None},
            host : Peers \cup {None}] :
        /\ s.state = "Disconnected" <=> s.conn = None
        /\ s.state \in {"Dialing", "Client", "Lost"} <=> s.host # None}

Disconnected ==
    [state |-> "Disconnected", conn |-> None, room |-> None, host |-> None]

TypeOK ==
    /\ Registry!TypeOK
    /\ want \in [Peers -> Rooms \cup {None}]
    /\ session \in [Peers -> Session]
    /\ moves \in 0..MaxMoves /\ faults \in 0..MaxFaults

----------------------------------------------------------------------------
(* Helpers *)

Linked(p) == session[p].conn # None /\ links[p][session[p].conn] # None

\* A slip, to show what TypeOK says: the connection to the relay is kept.
EndedStillConnected(p) ==
    [session EXCEPT ![p] = [Disconnected EXCEPT !.conn = session[p].conn]]

\* The session or the attempt of p ends: its swarm is dropped, and with it
\* the connections of those it hosts.
Ended(p) ==
    [q \in Peers |->
        CASE q = p -> Disconnected
          [] q # p /\ session[q].state = "Client" /\ session[q].host = p ->
                 [session[q] EXCEPT !.state = "Lost"]
          [] OTHER -> session[q]]

----------------------------------------------------------------------------
(* Users *)

Move == moves < MaxMoves /\ moves' = moves + 1

\* RoomChange::handle (or auto_connect, or SettingsChange): communicator.connect
\* drops whatever there is, a running attempt included, and starts over, also
\* for the room the user is in.
ChangeRoom(p, r) ==
    /\ Move
    /\ want' = [want EXCEPT ![p] = r]
    /\ session' = Ended(p)
    /\ UNCHANGED <<relayVars, faults>>

Quit(p) ==
    /\ Move
    /\ want[p] # None
    /\ want' = [want EXCEPT ![p] = None]
    /\ session' = Ended(p)
    /\ UNCHANGED <<relayVars, faults>>

----------------------------------------------------------------------------
(* Connecting *)

\* Disconnected::reconnect, Connecting::new, identify_relay up to the request.
Dial(p, c) ==
    /\ want[p] # None
    /\ session[p].state = "Disconnected"
    /\ Registry!Connect(p, c, [room |-> want[p], password |-> Password])
    /\ session' = [session EXCEPT ![p] =
           [Disconnected EXCEPT !.state = "Connecting", !.conn = c, !.room = want[p]]]
    /\ UNCHANGED <<want, moves, faults>>

\* The relay answers, also on a connection that its client has given up.
HandleInitRequest(p, c) ==
    /\ answers[p][c] = None
    /\ Registry!HandleInitRequest(p, c)
    /\ UNCHANGED <<want, session, moves, faults>>

\* A slip, to show what HostRegistered says: the host that is named is ignored.
BecomeHostAnyway(p) ==
    /\ session[p].state = "Connecting" /\ Linked(p)
    /\ answers[p][session[p].conn] # None
    /\ session' = [session EXCEPT ![p].state = "Host"]
    /\ UNCHANGED <<relayVars, want, moves, faults>>

\* establish_conection with the answer: no host is named.
BecomeHost(p) ==
    /\ session[p].state = "Connecting" /\ Linked(p)
    /\ answers[p][session[p].conn] = Registry!Ok(None)
    /\ session' = [session EXCEPT ![p].state = "Host"]
    /\ UNCHANGED <<relayVars, want, moves, faults>>

\* establish_conection with the answer: the host is dialled through the relay.
LearnHost(p) ==
    /\ session[p].state = "Connecting" /\ Linked(p)
    /\ \E h \in Peers :
           /\ answers[p][session[p].conn] = Registry!Ok(h)
           /\ session' = [session EXCEPT ![p].state = "Dialing", ![p].host = h]
    /\ UNCHANGED <<relayVars, want, moves, faults>>

\* Connecting::poll with an error: the attempt ran into its timeout.
TimesOut(p) ==
    /\ session[p].state = "Connecting" /\ ~Linked(p)
    /\ session' = Ended(p)
    /\ UNCHANGED <<relayVars, want, moves, faults>>

\* Whether the peer with the PeerId of h can be reached through the relay: it
\* listens there as the host of some room.
Reachable(h) == session[h].state = "Host" /\ Linked(h)

\* ConnectionEstablished::handle_swarm_event of the client.
MeetHost(p) ==
    /\ session[p].state = "Dialing" /\ Linked(p)
    /\ Reachable(session[p].host)
    /\ session' = [session EXCEPT ![p].state = "Client"]
    /\ UNCHANGED <<relayVars, want, moves, faults>>

\* OutgoingConnectionError::handle_swarm_event of the client.
DialFails(p) ==
    /\ session[p].state = "Dialing"
    /\ ~Linked(p) \/ ~Reachable(session[p].host)
    /\ session' = Ended(p)
    /\ UNCHANGED <<relayVars, want, moves, faults>>

----------------------------------------------------------------------------
(* The end of a session *)

\* A slip, to show what Together says: the client does not notice.
LoseHostUnnoticed(p) ==
    /\ session[p].state = "Lost"
    /\ session' = session
    /\ UNCHANGED <<relayVars, want, moves, faults>>

\* ConnectionClosed::handle_swarm_event of the client.
LoseHost(p) ==
    /\ session[p].state = "Lost"
    /\ session' = Ended(p)
    /\ UNCHANGED <<relayVars, want, moves, faults>>

\* ConnectionClosed::handle_swarm_event of the host: without the relay nobody
\* finds the host any more, and it starts over.
LoseRelay(p) ==
    /\ session[p].state = "Host" /\ ~Linked(p)
    /\ session' = Ended(p)
    /\ UNCHANGED <<relayVars, want, moves, faults>>

----------------------------------------------------------------------------
(* The network *)

Fault == faults < MaxFaults /\ faults' = faults + 1

\* A connection to the relay breaks, and the client sees it first.
BreakForClient(p) ==
    /\ Fault
    /\ session[p].state \in {"Connecting", "Host"}
    /\ session' = Ended(p)
    /\ UNCHANGED <<relayVars, want, moves>>

\* The same, and the relay sees it first.
BreakForRelay(p) ==
    /\ Fault
    /\ session[p].state # "Disconnected"
    /\ Registry!ConnectionClosed(p, session[p].conn)
    /\ UNCHANGED <<want, session, moves>>

\* The connection between a client and its host breaks.
BreakForPeers(p) ==
    /\ Fault
    /\ session[p].state = "Client"
    /\ session' = [session EXCEPT ![p].state = "Lost"]
    /\ UNCHANGED <<relayVars, want, moves>>

\* The relay sees a connection closed that the client has dropped.
CloseDropped(p, c) ==
    /\ session[p].conn # c
    /\ Registry!ConnectionClosed(p, c)
    /\ UNCHANGED <<want, session, moves, faults>>

----------------------------------------------------------------------------

Init ==
    /\ Registry!Init
    /\ want = [p \in Peers |-> None]
    /\ session = [p \in Peers |-> Disconnected]
    /\ moves = 0 /\ faults = 0

Next ==
    \E p \in Peers :
        \/ \E r \in Rooms : ChangeRoom(p, r)
        \/ Quit(p)
        \/ \E c \in Conns :
               \/ Dial(p, c)
               \/ HandleInitRequest(p, c)
               \/ CloseDropped(p, c)
        \/ BecomeHost(p)
        \/ LearnHost(p)
        \/ TimesOut(p)
        \/ MeetHost(p)
        \/ DialFails(p)
        \/ LoseHost(p)
        \/ LoseRelay(p)
        \/ BreakForClient(p)
        \/ BreakForRelay(p)
        \/ BreakForPeers(p)

\* The communicator never stops trying, attempts have a timeout, libp2p tells
\* either end of a closed connection (ping, idle timeout of ten seconds), and
\* the relay serves what arrives.  Users and faults owe nothing.
Fairness ==
    \A p \in Peers :
        /\ WF_sessionVars(\E c \in Conns : Dial(p, c))
        /\ \A c \in Conns :
               /\ WF_sessionVars(HandleInitRequest(p, c))
               /\ WF_sessionVars(CloseDropped(p, c))
        /\ WF_sessionVars(BecomeHost(p))
        /\ WF_sessionVars(LearnHost(p))
        /\ WF_sessionVars(TimesOut(p))
        /\ WF_sessionVars(MeetHost(p))
        /\ WF_sessionVars(DialFails(p))
        /\ WF_sessionVars(LoseHost(p))
        /\ WF_sessionVars(LoseRelay(p))

Spec == Init /\ [][Next]_sessionVars /\ Fairness

----------------------------------------------------------------------------
(* Properties *)

\* A host that waited for its earlier connections to close and is still
\* connected to the relay is the one the relay names for its room: whoever comes
\* finds the session that is there and opens no second one.
HostRegistered ==
    \A p \in Peers \ Overlapping :
        (session[p].state = "Host" /\ Linked(p)) =>
            /\ rooms[session[p].room] # None
            /\ rooms[session[p].room].peer = p

\* When users stay where they are and connections hold, all who want to be in
\* a room are in one session of it: one hosts, and the others are its clients.
Together ==
    <>[](\A r \in Rooms :
            LET members == {p \in Peers : want[p] = r} IN
            members # {} =>
                \E h \in members :
                    /\ session[h].state = "Host" /\ session[h].room = r
                    /\ \A p \in members \ {h} :
                           /\ session[p].state = "Client" /\ session[p].host = h)

\* "host is available": whoever the relay named for a room hosts that room when
\* the client meets it, and goes on to; a client is in the session of its room.
\* The code breaks this one: see README, What the modelling found.
RightRoom ==
    \A p \in Peers :
        session[p].state = "Client" =>
            session[session[p].host].room = session[p].room
=============================================================================
