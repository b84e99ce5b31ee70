------------------------------ MODULE Seeking -------------------------------
(***************************************************************************)
(* Keeping the peers of a room at one place of the video: seeks and speed  *)
(* changes of users, the host's heartbeats and what clients do to catch up *)
(* (client/core/src: heartbeat.rs, communicator.rs, player/mod.rs and      *)
(* wrapper.rs), the sessions that carry them (communicator/src/p2p) and    *)
(* the wrapper around mpv (player/mpv/src).                                *)
(*                                                                         *)
(* Positions are counted in a frame that moves as the host plays, so that  *)
(* only differences between peers show: who plays at the speed of the host *)
(* keeps its place, a catching up peer moves by 1 with every Tick, the     *)
(* interval of the heartbeats, and a position in a message falls back by 1 *)
(* while it is on its way.                                                 *)
(*                                                                         *)
(* One video, that all peers have and whose ends are far away.  How pauses *)
(* spread is in module Playback; here the room pauses as one.              *)
(***************************************************************************)
EXTENDS Integers, Sequences

CONSTANTS
    Host,
    Clients,
    Places,       \* where users seek to
    Speeds,       \* speeds users choose
    Normal,       \* the speed of before
    MinDelay,     \* MINIMUM_DELAY
    MaxDelay,     \* MAXIMUM_DELAY
    MaxLag,       \* bound: heartbeat intervals a message may take
    MaxActs,      \* bound: what users do, and pings
    MaxAdrift     \* bound: heartbeat intervals at a speed of a client's user

ASSUME SeekingAssumption ==
    /\ Host \notin Clients
    /\ Places \subseteq Int /\ Speeds \subseteq Int /\ Normal \in Int
    /\ MinDelay \in Nat /\ MaxDelay \in Nat /\ MinDelay < MaxDelay
    /\ MaxLag \in Nat /\ MaxActs \in Nat /\ MaxAdrift \in Nat

Peers == Clients \cup {Host}

VARIABLES
    mpv,        \* mpv[p]: mpv and the wrapper's status
    hostSpeed,  \* hostSpeed[p]: host_speed of MediaPlayerWrapper
    events,     \* events[p]: positions that reconcile queued for the room
    session,    \* session[c]: what the session of c keeps
    inbox,      \* inbox[a][q]: broadcasts of a on their way to q
    toCore,     \* toCore[p]: from the session of p to its core
    due,        \* peers whose core has a heartbeat to send
    paused,     \* the room is paused
    acts,       \* counts against MaxActs
    lead,       \* history: the speed of the room is the host's user's choice
    adrift      \* counts against MaxAdrift

seekingVars ==
    <<mpv, hostSpeed, events, session, inbox, toCore, due, paused, acts, lead,
      adrift>>

\* at, speed: mpv's properties; seeking, told: MpvStatus, the speed as the
\* wrapper set it or was told; seeks: SEEK events to come; user (history): seeks
\* of the user the room has not been told of.
Mpv ==
    [at : Int, speed : Int, seeking : BOOLEAN, told : Int, seeks : Nat,
     user : Nat]

\* is_seeking; video_status.position, if the video has not moved on since; and
\* half of the round trip.
Session ==
    [seeking : BOOLEAN, moved : BOOLEAN, last : Int, delay : 0 .. MaxLag]

Seek(x) == [type |-> "Seek", pos |-> x, age |-> 0]
VideoStatus(x) == [type |-> "VideoStatus", pos |-> x, age |-> 0]
PlaybackSpeed(s) == [type |-> "PlaybackSpeed", pos |-> s, age |-> 0]

Message ==
    [type : {"Seek", "VideoStatus", "PlaybackSpeed"}, pos : Int,
     age : 0 .. MaxLag]

TypeOK ==
    /\ mpv \in [Peers -> Mpv]
    /\ hostSpeed \in [Peers -> Speeds \cup {Normal}]
    /\ \A p \in Peers : events[p] \in Seq(Message) /\ toCore[p] \in Seq(Message)
    /\ session \in [Clients -> Session]
    /\ \A a, q \in Peers : inbox[a][q] \in Seq(Message)
    /\ due \subseteq Peers /\ paused \in BOOLEAN /\ acts \in 0 .. MaxActs
    /\ lead \in BOOLEAN /\ adrift \in 0 .. MaxAdrift

-----------------------------------------------------------------------------
(* The wrapper around mpv, with m its part of the state.                   *)

Act == acts < MaxActs /\ acts' = acts + 1

SetPositionAgain(m, x) ==
    [m EXCEPT !.at = x, !.seeking = TRUE, !.seeks = @ + 1]

\* set_position: not while one is under way.
SetPosition(m, x) ==
    IF m.seeking THEN m
    ELSE [m EXCEPT !.at = x, !.seeking = TRUE, !.seeks = @ + 1]

SetSpeed(m, s) == [m EXCEPT !.speed = s, !.told = s]

\* MediaPlayerWrapper::set_speed: what the player was off the old speed of the
\* host is kept, on the other side.
RoomSpeed(m, host, s) == SetSpeed(m, s + (host - m.speed))

HostSpeedOff(m, host, s) == s + (host - m.speed)
HostSpeedOld(m, host, s) == host
HostSpeed(m, host, s) == s

Near(x, y, delay) == x <= y + delay /\ x >= y - delay

\* continuous_speed_change, for a peer at x while the host is at y.
CatchUp(x, y, host) == IF y < x THEN host - 1 ELSE host + 1

\* reconcile with a host at y: far ahead it goes back, else it changes its speed.
Reconciled(m, host, y) ==
    CASE Near(m.at, y, MinDelay) ->
             IF m.speed # host THEN SetSpeed(m, host) ELSE m
      [] m.at >= y + MaxDelay -> SetPosition(m, y)
      [] m.at > y + MinDelay \/ (m.at < y - MinDelay /\ m.at > y - MaxDelay) ->
             SetSpeed(m, CatchUp(m.at, y, host))
      [] OTHER -> m

\* Far behind it asks the room to come back to it.
PushedBack(m, y) ==
    IF m.at <= y - MaxDelay THEN <<Seek(m.at)>> ELSE <<>>

-----------------------------------------------------------------------------
(* Messages.                                                               *)

Broadcast(a, msg, to) ==
    inbox' = [inbox EXCEPT ![a] = [q \in Peers |->
        IF q \in to \ {a} THEN Append(@[q], msg) ELSE @[q]]]

\* The core of p tells the room.
Tell(p, msg) == Broadcast(p, msg, Peers)

\* What a client's session makes of what another peer sends: what it keeps, and
\* what it passes to its core.
SeekSession(s, msg) ==
    IF msg.type = "Seek" THEN [s EXCEPT !.seeking = TRUE] ELSE s

\* The host was at the position when it sent; with the delay it is there now.
Passed(s, msg) ==
    IF msg.type # "VideoStatus" THEN <<msg>>
    ELSE IF s.seeking THEN <<>>
    ELSE <<[msg EXCEPT !.pos = @ + IF paused THEN 0 ELSE s.delay]>>

\* A peer's session takes a broadcast off its inbox; the host's passes all on.
SessionReceive(a, q) ==
    /\ inbox[a][q] # <<>>
    /\ LET msg == Head(inbox[a][q]) IN
        IF q = Host
        THEN /\ toCore' = [toCore EXCEPT ![q] = Append(@, msg)]
             /\ UNCHANGED session
        ELSE /\ toCore' = [toCore EXCEPT ![q] = @ \o Passed(session[q], msg)]
             /\ session' = [session EXCEPT ![q] = SeekSession(@, msg)]
    /\ inbox' = [inbox EXCEPT ![a][q] = Tail(@)]
    /\ UNCHANGED <<mpv, hostSpeed, events, due, paused, acts, lead, adrift>>

\* The core's handlers: SeekMsg, PlaybackSpeedMsg and VideoStatusMsg.
CoreReceive(p) ==
    /\ toCore[p] # <<>>
    /\ LET msg == Head(toCore[p])
           m == mpv[p] IN
        CASE msg.type = "Seek" ->
               /\ mpv' = [mpv EXCEPT ![p] = SetPosition(m, msg.pos)]
               /\ UNCHANGED <<hostSpeed, events>>
          [] msg.type = "PlaybackSpeed" ->
               /\ mpv' = [mpv EXCEPT ![p] = RoomSpeed(m, hostSpeed[p], msg.pos)]
               /\ hostSpeed' = [hostSpeed EXCEPT ![p] = HostSpeed(m, @, msg.pos)]
               /\ UNCHANGED events
          [] OTHER ->
               /\ mpv' = [mpv EXCEPT ![p] = Reconciled(m, hostSpeed[p], msg.pos)]
               /\ events' = [events EXCEPT ![p] = @ \o PushedBack(m, msg.pos)]
               /\ UNCHANGED hostSpeed
    /\ toCore' = [toCore EXCEPT ![p] = Tail(@)]
    /\ UNCHANGED <<session, inbox, due, paused, acts, lead, adrift>>

\* Heartbeat: the host's goes to all clients.  A client's session only looks at
\* the position: once that has changed, a seek is over.
ReportedOnly(s, x) == [s EXCEPT !.last = x, !.moved = FALSE]

Reported(s, x) ==
    IF s.moved \/ s.last # x
    THEN [s EXCEPT !.seeking = FALSE, !.last = x, !.moved = FALSE] ELSE s

Heartbeat(p) ==
    /\ p \in due
    /\ due' = due \ {p}
    /\ IF p = Host
       THEN Broadcast(p, VideoStatus(mpv[p].at), Clients) /\ UNCHANGED session
       ELSE /\ session' = [session EXCEPT ![p] = Reported(@, mpv[p].at)]
            /\ UNCHANGED inbox
    /\ UNCHANGED <<mpv, hostSpeed, events, toCore, paused, acts, lead, adrift>>

\* A ping tells the session of a client how far the host is (counted as an act).
Ping(c, d) ==
    /\ Act
    /\ session' = [session EXCEPT ![c].delay = d]
    /\ UNCHANGED <<mpv, hostSpeed, events, inbox, toCore, due, paused,
                   lead, adrift>>

-----------------------------------------------------------------------------
(* Events of the player.                                                   *)

\* What reconcile has queued is handled before what mpv says.
QueuedEvent(p) ==
    /\ events[p] # <<>>
    /\ Tell(p, Seek(Head(events[p]).pos))
    /\ events' = [events EXCEPT ![p] = Tail(@)]
    /\ UNCHANGED <<mpv, hostSpeed, session, toCore, due, paused, acts,
                   lead, adrift>>

\* MpvSeek: the first one after set_position is ours.
SeekEvent(p) ==
    /\ events[p] = <<>> /\ mpv[p].seeks > 0
    /\ mpv' = [mpv EXCEPT ![p].seeks = @ - 1, ![p].seeking = FALSE,
                ![p].user = IF mpv[p].seeking \/ @ = 0 THEN @ ELSE @ - 1]
    /\ IF mpv[p].seeking THEN UNCHANGED inbox ELSE Tell(p, Seek(mpv[p].at))
    /\ UNCHANGED <<hostSpeed, events, session, toCore, due, paused, acts,
                   lead, adrift>>

\* No client's change of speed is on its way to others, or to the host's core.
NoChangeUnderWay ==
    /\ \A c \in Clients, q \in Peers : \A i \in DOMAIN inbox[c][q] :
          inbox[c][q][i].type # "PlaybackSpeed"
    /\ \A i \in DOMAIN toCore[Host] : toCore[Host][i].type # "PlaybackSpeed"

\* process_speed: a change the wrapper did not make.
SpeedEvent(p) ==
    /\ events[p] = <<>> /\ mpv[p].told # mpv[p].speed
    /\ mpv' = [mpv EXCEPT ![p].told = mpv[p].speed]
    /\ Tell(p, PlaybackSpeed(mpv[p].speed))
    /\ lead' = (p = Host /\ (lead \/ NoChangeUnderWay))
    /\ UNCHANGED <<hostSpeed, events, session, toCore, due, paused, acts, adrift>>

\* Users.
UserSeek(p, x) ==
    /\ Act
    /\ mpv' = [mpv EXCEPT ![p].at = x, ![p].seeks = @ + 1, ![p].user = @ + 1]
    /\ UNCHANGED <<hostSpeed, events, session, inbox, toCore, due, paused,
                   lead, adrift>>

UserSpeed(p, s) ==
    /\ Act
    /\ mpv' = [mpv EXCEPT ![p].speed = s]
    /\ UNCHANGED <<hostSpeed, events, session, inbox, toCore, due, paused,
                   lead, adrift>>

UserPause ==
    /\ Act
    /\ paused' = ~paused
    /\ UNCHANGED <<mpv, hostSpeed, events, session, inbox, toCore, due,
                   lead, adrift>>

\* Time passes once all that takes at most MaxLag has happened.
Drift(p) ==
    IF mpv[p].speed > mpv[Host].speed THEN 1
    ELSE IF mpv[p].speed < mpv[Host].speed THEN -1 ELSE 0

Aged(queue) ==
    [i \in DOMAIN queue |-> [queue[i] EXCEPT !.age = @ + 1,
        !.pos = IF queue[i].type = "PlaybackSpeed" \/ paused THEN @ ELSE @ - 1]]

Young(queue) == \A i \in DOMAIN queue : queue[i].age < MaxLag

Tick ==
    /\ due = {}
    /\ IF lead THEN UNCHANGED adrift
       ELSE adrift < MaxAdrift /\ adrift' = adrift + 1
    /\ \A p \in Peers :
         /\ events[p] = <<>> /\ Young(toCore[p])
         /\ mpv[p].seeks = 0 /\ mpv[p].told = mpv[p].speed
         /\ \A q \in Peers : Young(inbox[p][q])
    /\ due' = Peers
    /\ inbox' = [a \in Peers |-> [q \in Peers |-> Aged(inbox[a][q])]]
    /\ toCore' = [p \in Peers |-> Aged(toCore[p])]
    /\ IF paused THEN UNCHANGED <<mpv, session>>
       ELSE /\ mpv' = [p \in Peers |-> [mpv[p] EXCEPT !.at = @ + Drift(p)]]
            /\ session' = [c \in Clients |-> [session[c] EXCEPT !.moved = TRUE]]
    /\ UNCHANGED <<hostSpeed, events, paused, acts, lead>>

-----------------------------------------------------------------------------

Init ==
    /\ mpv = [p \in Peers |-> [at |-> 0, speed |-> Normal, seeking |-> FALSE,
                told |-> Normal, seeks |-> 0, user |-> 0]]
    /\ hostSpeed = [p \in Peers |-> Normal]
    /\ events = [p \in Peers |-> <<>>]
    /\ session = [c \in Clients |-> [seeking |-> FALSE, moved |-> FALSE,
                    last |-> 0, delay |-> 0]]
    /\ inbox = [a \in Peers |-> [q \in Peers |-> <<>>]]
    /\ toCore = [p \in Peers |-> <<>>]
    /\ due = {} /\ paused = FALSE /\ acts = 0
    /\ lead = TRUE /\ adrift = 0

User(p) ==
    \/ \E x \in Places : UserSeek(p, x)
    \/ \E s \in Speeds : UserSpeed(p, s)

Program(p) ==
    \/ \E a \in Peers : SessionReceive(a, p)
    \/ CoreReceive(p) \/ Heartbeat(p)
    \/ QueuedEvent(p) \/ SeekEvent(p) \/ SpeedEvent(p)

Next ==
    \/ \E p \in Peers : User(p) \/ Program(p)
    \/ \E c \in Clients, d \in 0 .. MaxLag : Ping(c, d)
    \/ UserPause \/ Tick

\* Queues are worked off and time passes; users and pings need not happen.
Fairness ==
    /\ \A p \in Peers : WF_seekingVars(Program(p))
    /\ WF_seekingVars(Tick)

Spec == Init /\ [][Next]_seekingVars /\ Fairness

-----------------------------------------------------------------------------
(* Properties.                                                             *)

\* However seeks of users and of the program overlap, no SEEK event of mpv is
\* taken for a user's that is not: one that would be announced has a user's seek
\* to account for.  (What reconcile queues for the room, PushedBack, is announced
\* besides: a seek that no user made, wrapper.rs:60-62.)
NoSeekEcho ==
    \A p \in Peers :
        mpv[p].seeks - (IF mpv[p].seeking THEN 1 ELSE 0) <= mpv[p].user

\* Once nobody seeks any more, a client is where the host is up to what speed
\* changes even out, as long as the room plays at a speed of the host's user: a
\* client whose own user changed it keeps the old one as the host's, and falls
\* behind or runs ahead.
Follows ==
    <>[](paused \/ ~lead \/ \A c \in Clients :
            Near(mpv[c].at, mpv[Host].at, MinDelay + 2 * MaxLag))

\* No change of speed is on its way.
Calm ==
    /\ \A p \in Peers : mpv[p].told = mpv[p].speed
    /\ \A p, q \in Peers : \A i \in DOMAIN inbox[p][q] :
          inbox[p][q][i].type # "PlaybackSpeed"
    /\ \A p \in Peers : \A i \in DOMAIN toCore[p] :
          toCore[p][i].type # "PlaybackSpeed"

\* What clients keep as the speed of the host is the host's (wrapper.rs:26), from
\* when the host's user changes it with no client's change under way until a
\* client's user does, whoever changed it before and however the changes reached
\* them; in between peers may differ in whose change they heard last.
HostSpeedKept ==
    lead /\ Calm => \A c \in Clients : hostSpeed[c] = mpv[Host].speed
=============================================================================
