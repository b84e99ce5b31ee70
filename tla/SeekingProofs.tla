---------------------------- MODULE SeekingProofs ---------------------------
(***************************************************************************)
(* Proofs about module Seeking, for any number of clients, any places and  *)
(* speeds, any delays and any lag of messages: types, that seeks do not    *)
(* echo, and that clients keep the host's speed once the host's user has   *)
(* set it, until a client's user does.                                     *)
(*                                                                         *)
(* That seeks do not echo is nearly inductive by itself, player by player  *)
(* (Sound).  The speed needs a look at the messages: what a client will    *)
(* take the host's speed for, once it has all that is on its way to it, is *)
(* what the host told last (Informed), as long as the host's user leads    *)
(* and so no client's change is on its way to pass it (Quiet).  The host   *)
(* may take the lead back at any time; that nothing but speeds and seeks   *)
(* comes from clients (Sides) is kept whoever leads.                       *)
(***************************************************************************)
EXTENDS Seeking, TLAPS

-----------------------------------------------------------------------------
(* The inductive invariant.                                                *)

\* A message as peers send it: a speed is one that a user chose.
Sent == {msg \in Message : msg.type = "PlaybackSpeed" => msg.pos \in Speeds}

\* A player the wrapper has not heard of a change of speed from has one of the
\* user's; an event of a seek that is to come is the wrapper's or accounted for.
Sound(m) ==
    /\ m \in Mpv
    /\ m.told # m.speed => m.speed \in Speeds
    /\ m.seeks - (IF m.seeking THEN 1 ELSE 0) <= m.user

Players ==
    /\ mpv = [p \in Peers |-> mpv[p]]
    /\ \A p \in Peers : Sound(mpv[p])

HostSpeeds == hostSpeed \in [Peers -> Speeds \cup {Normal}]

Queues == toCore \in [Peers -> Seq(Sent)] /\ events \in [Peers -> Seq(Sent)]

Inboxes == inbox \in [Peers -> [Peers -> Seq(Sent)]]

Rest ==
    /\ session \in [Clients -> Session]
    /\ due \subseteq Peers /\ paused \in BOOLEAN /\ acts \in 0 .. MaxActs
    /\ lead \in BOOLEAN /\ adrift \in 0 .. MaxAdrift

IInv == Players /\ HostSpeeds /\ Queues /\ Inboxes /\ Rest

-----------------------------------------------------------------------------
(* The same for the speed.                                                 *)

SeeksOnly(queue) == \A i \in DOMAIN queue : queue[i].type = "Seek"

NoSpeed(queue) == \A i \in DOMAIN queue : queue[i].type # "PlaybackSpeed"

NoStatus(queue) == \A i \in DOMAIN queue : queue[i].type # "VideoStatus"

\* The last speed in a queue.
LastSpeed(queue, s) ==
    \E i \in DOMAIN queue :
        /\ queue[i].type = "PlaybackSpeed" /\ queue[i].pos = s
        /\ \A j \in DOMAIN queue : j > i => queue[j].type # "PlaybackSpeed"

\* Once a client has all that is on its way to it, it keeps the speed that the
\* host's wrapper told last.
Informed(c) ==
    \/ LastSpeed(inbox[Host][c], mpv[Host].told)
    \/ NoSpeed(inbox[Host][c]) /\ LastSpeed(toCore[c], mpv[Host].told)
    \/ /\ NoSpeed(inbox[Host][c]) /\ NoSpeed(toCore[c])
       /\ hostSpeed[c] = mpv[Host].told

\* No client's change of speed is on its way to others, or to the host's core.
Quiet ==
    /\ \A a, q \in Peers : a \in Clients \/ q = Host => SeeksOnly(inbox[a][q])
    /\ SeeksOnly(toCore[Host])

HostLeads == Quiet /\ \A c \in Clients : Informed(c)

\* Only the host tells where it is, and nobody tells the host.
Sides ==
    /\ \A a, q \in Peers : a \in Clients \/ q = Host => NoStatus(inbox[a][q])
    /\ inbox[Host][Host] = <<>>
    /\ NoStatus(toCore[Host])

LeadInv == Sides /\ (lead => HostLeads)

-----------------------------------------------------------------------------
(* Messages and queues.                                                    *)

\* What the program sends is a message that peers may send.
LEMMA SeekSent == \A x \in Int : Seek(x) \in Sent /\ Seek(x).type = "Seek"
BY SeekingAssumption DEF Seek, Sent, Message

LEMMA VideoStatusSent ==
  \A x \in Int : VideoStatus(x) \in Sent /\ VideoStatus(x).type = "VideoStatus"
BY SeekingAssumption DEF VideoStatus, Sent, Message

LEMMA PlaybackSpeedSent ==
  \A s \in Speeds : /\ PlaybackSpeed(s) \in Sent
                    /\ PlaybackSpeed(s).type = "PlaybackSpeed"
                    /\ PlaybackSpeed(s).pos = s
BY SeekingAssumption DEF PlaybackSpeed, Sent, Message

LEMMA SentFields ==
  \A msg \in Sent : /\ msg \in Message /\ msg.pos \in Int
                    /\ msg.type = "PlaybackSpeed" => msg.pos \in Speeds
BY DEF Sent, Message

LEMMA QueueEnds ==
  \A queue \in Seq(Sent) :
     /\ \A msg \in Sent : Append(queue, msg) \in Seq(Sent)
     /\ queue # <<>> => Head(queue) \in Sent /\ Tail(queue) \in Seq(Sent)
OBVIOUS

\* What a session passes on is nothing, or one message like the one it got.
LEMMA PassedOne ==
  ASSUME NEW s \in Session, NEW msg \in Sent, paused \in BOOLEAN,
         NEW queue \in Seq(Sent)
  PROVE  \/ queue \o Passed(s, msg) = queue /\ msg.type = "VideoStatus"
         \/ \E new \in Sent :
              /\ queue \o Passed(s, msg) = Append(queue, new)
              /\ new.type = msg.type
              /\ msg.type # "VideoStatus" => new = msg
<1>1. CASE msg.type # "VideoStatus"
  <2>1. Passed(s, msg) = <<msg>>
    BY <1>1 DEF Passed
  <2>2. queue \o <<msg>> = Append(queue, msg)
    OBVIOUS
  <2> QED
    BY <2>1, <2>2
<1>2. CASE msg.type = "VideoStatus" /\ s.seeking
  <2>1. Passed(s, msg) = <<>>
    BY <1>2 DEF Passed
  <2>2. queue \o <<>> = queue
    OBVIOUS
  <2> QED
    BY <1>2, <2>1, <2>2
<1>3. CASE msg.type = "VideoStatus" /\ ~ s.seeking
  <2> DEFINE d == IF paused THEN 0 ELSE s.delay
             new == [msg EXCEPT !.pos = @ + d]
  <2>1. d \in Int
    BY SeekingAssumption DEF Session
  <2>2. msg \in Message /\ msg.pos \in Int
    BY SentFields
  <2>3. Passed(s, msg) = <<new>>
    BY <1>3 DEF Passed
  <2> HIDE DEF d
  <2>4. new \in Message /\ new.type = msg.type
    BY <2>1, <2>2 DEF Message
  <2>5. new \in Sent
    BY <2>4, <1>3 DEF Sent
  <2> HIDE DEF new
  <2>6. queue \o <<new>> = Append(queue, new)
    BY <2>5
  <2> QED
    BY <1>3, <2>3, <2>4, <2>5, <2>6
<1> QED
  BY <1>1, <1>2, <1>3

\* Messages that are young enough stay messages as time passes.
LEMMA AgedSent ==
  ASSUME NEW queue \in Seq(Sent), Young(queue), paused \in BOOLEAN
  PROVE  /\ Aged(queue) \in Seq(Sent)
         /\ DOMAIN Aged(queue) = DOMAIN queue
         /\ \A i \in DOMAIN queue :
              /\ Aged(queue)[i].type = queue[i].type
              /\ queue[i].type = "PlaybackSpeed"
                   => Aged(queue)[i].pos = queue[i].pos
<1> DEFINE d(i) == IF queue[i].type = "PlaybackSpeed" \/ paused THEN 0 ELSE 1
           new(i) == [queue[i] EXCEPT !.age = @ + 1,
                        !.pos = IF queue[i].type = "PlaybackSpeed" \/ paused
                                THEN @ ELSE @ - 1]
<1>1. ASSUME NEW i \in DOMAIN queue
      PROVE  /\ new(i) \in Sent /\ new(i).type = queue[i].type
             /\ queue[i].type = "PlaybackSpeed" => new(i).pos = queue[i].pos
  <2> DEFINE msg == queue[i]
  <2>1. msg \in Sent
    OBVIOUS
  <2>2. msg \in Message /\ msg.pos \in Int /\ msg.age \in 0 .. MaxLag
    BY <2>1, SentFields DEF Message
  <2>3. msg.age + 1 \in 0 .. MaxLag
    BY <2>2, SeekingAssumption DEF Young
  <2> DEFINE pos == IF msg.type = "PlaybackSpeed" \/ paused
                    THEN msg.pos ELSE msg.pos - 1
  <2>4. pos \in Int /\ (msg.type = "PlaybackSpeed" => pos = msg.pos)
    BY <2>2
  <2>5. new(i) = [msg EXCEPT !.age = msg.age + 1, !.pos = pos]
    <3>1. CASE msg.type = "PlaybackSpeed" \/ paused
      BY <2>2, <3>1 DEF Message
    <3>2. CASE ~ (msg.type = "PlaybackSpeed" \/ paused)
      BY <2>2, <3>2 DEF Message
    <3> QED
      BY <3>1, <3>2
  <2> HIDE DEF pos, new
  <2>6. new(i) \in Message /\ new(i).type = msg.type /\ new(i).pos = pos
    BY <2>2, <2>3, <2>4, <2>5 DEF Message
  <2>7. new(i).type = "PlaybackSpeed" => new(i).pos \in Speeds
    BY <2>1, <2>4, <2>6 DEF Sent
  <2> QED
    BY <2>4, <2>6, <2>7 DEF Sent
<1>2. Aged(queue) = [i \in DOMAIN queue |-> new(i)]
  BY DEF Aged
<1> HIDE DEF new
<1>3. Aged(queue) \in Seq(Sent)
  <2>1. Len(queue) \in Nat /\ DOMAIN queue = 1 .. Len(queue)
    OBVIOUS
  <2> QED
    BY <1>1, <1>2, <2>1
<1> QED
  BY <1>1, <1>2, <1>3

\* A broadcast reaches who it is for and leaves the other inboxes alone.
LEMMA BroadcastReaches ==
  ASSUME Inboxes, NEW a \in Peers, NEW msg, NEW to, Broadcast(a, msg, to)
  PROVE  /\ \A b, q \in Peers :
              inbox'[b][q] = IF b = a /\ q \in to \ {a}
                             THEN Append(inbox[b][q], msg) ELSE inbox[b][q]
         /\ msg \in Sent => Inboxes'
<1>1. inbox \in [Peers -> [Peers -> Seq(Sent)]]
  BY DEF Inboxes
<1> DEFINE row == [q \in Peers |-> IF q \in to \ {a} THEN Append(inbox[a][q], msg)
                                   ELSE inbox[a][q]]
<1>2. inbox' = [inbox EXCEPT ![a] = row]
  BY DEF Broadcast
<1>3. msg \in Sent => row \in [Peers -> Seq(Sent)]
  BY <1>1, QueueEnds
<1>4. \A b, q \in Peers :
        inbox'[b][q] = IF b = a /\ q \in to \ {a}
                       THEN Append(inbox[b][q], msg) ELSE inbox[b][q]
  BY <1>1, <1>2
<1> HIDE DEF row
<1> QED
  BY <1>1, <1>2, <1>3, <1>4 DEF Inboxes

-----------------------------------------------------------------------------
(* Players.                                                                *)

LEMMA SetPositionSound ==
  ASSUME NEW m, Sound(m), NEW x \in Int
  PROVE  /\ Sound(SetPosition(m, x))
         /\ SetPosition(m, x).told = m.told /\ SetPosition(m, x).speed = m.speed
<1>1. m \in Mpv
  BY DEF Sound
<1>2. CASE m.seeking
  BY <1>2 DEF SetPosition
<1>3. CASE ~ m.seeking
  <2> DEFINE new == [m EXCEPT !.at = x, !.seeking = TRUE, !.seeks = @ + 1]
  <2>1. SetPosition(m, x) = new
    BY <1>3 DEF SetPosition
  <2>2. m.seeks \in Nat /\ m.user \in Nat /\ m.seeks <= m.user
    BY <1>1, <1>3 DEF Mpv, Sound
  <2> DEFINE seeks == m.seeks + 1
  <2>3. seeks \in Nat
    BY <2>2
  <2>4. new = [m EXCEPT !.at = x, !.seeking = TRUE, !.seeks = seeks]
    BY <1>1 DEF Mpv
  <2> HIDE DEF new, seeks
  <2>5. new \in Mpv
    BY <1>1, <2>3, <2>4 DEF Mpv
  <2>6. /\ new.seeks = seeks /\ new.user = m.user
        /\ new.told = m.told /\ new.speed = m.speed
    BY <1>1, <2>4 DEF Mpv
  <2>7. new.seeking
    BY <1>1, <2>4 DEF Mpv
  <2>8. Sound(new)
    BY <2>2, <2>5, <2>6, <2>7 DEF Sound, seeks
  <2> QED
    BY <2>1, <2>6, <2>8
<1> QED
  BY <1>2, <1>3

LEMMA SetSpeedSound ==
  ASSUME NEW m, Sound(m), NEW s \in Int
  PROVE  Sound(SetSpeed(m, s))
BY DEF Sound, Mpv, SetSpeed

\* What a handler leaves of a player.
LEMMA ReconciledSound ==
  ASSUME NEW m, Sound(m), NEW host \in Int, NEW y \in Int
  PROVE  Sound(Reconciled(m, host, y))
<1>1. \/ Reconciled(m, host, y) = SetSpeed(m, host)
      \/ Reconciled(m, host, y) = m
      \/ Reconciled(m, host, y) = SetPosition(m, y)
      \/ Reconciled(m, host, y) = SetSpeed(m, CatchUp(m.at, y, host))
  BY DEF Reconciled
<1>2. CatchUp(m.at, y, host) \in Int
  BY DEF CatchUp
<1>3. Sound(SetSpeed(m, host)) /\ Sound(SetSpeed(m, CatchUp(m.at, y, host)))
  BY <1>2, SetSpeedSound
<1>4. Sound(SetPosition(m, y))
  BY SetPositionSound
<1> QED
  BY <1>1, <1>3, <1>4

LEMMA RoomSpeedSound ==
  ASSUME NEW m, Sound(m), NEW host \in Int, NEW s \in Int
  PROVE  Sound(RoomSpeed(m, host, s))
<1>1. s + (host - m.speed) \in Int
  BY DEF Sound, Mpv
<1> QED
  BY <1>1, SetSpeedSound DEF RoomSpeed

\* What reconcile queues is at most one seek.
LEMMA PushedBackOne ==
  ASSUME NEW m, Sound(m), NEW y \in Int, NEW queue \in Seq(Sent)
  PROVE  queue \o PushedBack(m, y) \in Seq(Sent)
<1>1. Seek(m.at) \in Sent
  BY SeekSent DEF Sound, Mpv
<1>2. PushedBack(m, y) \in Seq(Sent)
  BY <1>1 DEF PushedBack
<1> QED
  BY <1>2

LEMMA PlayerUpdate ==
  ASSUME Players, NEW p \in Peers, NEW m, Sound(m),
         mpv' = [mpv EXCEPT ![p] = m]
  PROVE  Players' /\ \A q \in Peers : mpv'[q] = IF q = p THEN m ELSE mpv[q]
BY DEF Players, Sound

\* A user's seek changes three fields of a player at once.
LEMMA ThreeFields ==
  ASSUME Players, NEW p \in Peers, NEW x
  PROVE  [mpv EXCEPT ![p].at = x, ![p].seeks = @ + 1, ![p].user = @ + 1]
         = [mpv EXCEPT ![p] = [mpv[p] EXCEPT !.at = x, !.seeks = mpv[p].seeks + 1,
                                             !.user = mpv[p].user + 1]]
<1> DEFINE m == mpv[p]
<1>1. m \in Mpv
  BY DEF Players, Sound
<1> HIDE DEF m
<1>2. [m EXCEPT !.at = x, !.seeks = @ + 1, !.user = @ + 1]
      = [m EXCEPT !.at = x, !.seeks = m.seeks + 1, !.user = m.user + 1]
  BY <1>1 DEF Mpv
<1>3. [mpv EXCEPT ![p].at = x, ![p].seeks = @ + 1, ![p].user = @ + 1]
      = [mpv EXCEPT ![p] = [m EXCEPT !.at = x, !.seeks = @ + 1, !.user = @ + 1]]
  BY DEF Players, m
<1> QED
  BY <1>2, <1>3 DEF m

LEMMA HostSpeedNumber ==
  ASSUME HostSpeeds, NEW p \in Peers
  PROVE  hostSpeed[p] \in Int
BY SeekingAssumption DEF HostSpeeds

-----------------------------------------------------------------------------
(* Types and seeks: one lemma for each action.                             *)

LEMMA HostIsPeer == Host \in Peers /\ Clients \subseteq Peers /\ Host \notin Clients
BY SeekingAssumption DEF Peers

\* Taking a message off an inbox.
LEMMA InboxTaken ==
  ASSUME Inboxes, NEW a \in Peers, NEW q \in Peers, inbox[a][q] # <<>>,
         inbox' = [inbox EXCEPT ![a][q] = Tail(@)]
  PROVE  /\ Inboxes'
         /\ \A b, r \in Peers :
              inbox'[b][r] = IF b = a /\ r = q THEN Tail(inbox[b][r])
                             ELSE inbox[b][r]
<1>1. inbox \in [Peers -> [Peers -> Seq(Sent)]]
  BY DEF Inboxes
<1>2. Tail(inbox[a][q]) \in Seq(Sent)
  BY <1>1, QueueEnds
<1> QED
  BY <1>1, <1>2 DEF Inboxes

\* What a session does with a message: its queue to the core grows by one, by
\* none when it drops where the host is.
LEMMA SessionReceiveKeeps ==
  ASSUME IInv, NEW a \in Peers, NEW q \in Peers, SessionReceive(a, q)
  PROVE  IInv'
<1> DEFINE msg == Head(inbox[a][q])
<1>1. inbox[a][q] \in Seq(Sent) /\ msg \in Sent
  BY QueueEnds DEF IInv, Inboxes, SessionReceive
<1>2. Inboxes'
  BY InboxTaken DEF IInv, SessionReceive
<1>3. toCore \in [Peers -> Seq(Sent)] /\ toCore[q] \in Seq(Sent)
  BY DEF IInv, Queues
<1>4. CASE q = Host
  <2>1. toCore' = [toCore EXCEPT ![q] = Append(@, msg)] /\ session' = session
    BY <1>4 DEF SessionReceive
  <2>2. Append(toCore[q], msg) \in Seq(Sent)
    BY <1>1, <1>3, QueueEnds
  <2>3. Queues'
    BY <1>3, <2>1, <2>2 DEF IInv, Queues, SessionReceive
  <2> QED
    BY <1>2, <2>1, <2>3
    DEF IInv, Players, HostSpeeds, Rest, SessionReceive
<1>5. CASE q # Host
  <2>1. q \in Clients /\ session \in [Clients -> Session] /\ paused \in BOOLEAN
    BY <1>5 DEF Peers, IInv, Rest
  <2>2. /\ toCore' = [toCore EXCEPT ![q] = @ \o Passed(session[q], msg)]
        /\ session' = [session EXCEPT ![q] = SeekSession(@, msg)]
    BY <1>5 DEF SessionReceive
  <2>3. session[q] \in Session
    BY <2>1
  <2>4. toCore[q] \o Passed(session[q], msg) \in Seq(Sent)
    <3> HIDE DEF msg
    <3>1. \/ toCore[q] \o Passed(session[q], msg) = toCore[q]
          \/ \E new \in Sent :
               toCore[q] \o Passed(session[q], msg) = Append(toCore[q], new)
      BY <1>1, <1>3, <2>1, <2>3, PassedOne
    <3> QED
      BY <1>3, <3>1, QueueEnds
  <2>5. SeekSession(session[q], msg) \in Session
    BY <2>3 DEF SeekSession, Session
  <2>6. Queues'
    BY <1>3, <2>2, <2>4 DEF IInv, Queues, SessionReceive
  <2>7. session' \in [Clients -> Session]
    BY <2>1, <2>2, <2>5
  <2> QED
    BY <1>2, <2>6, <2>7
    DEF IInv, Players, HostSpeeds, Rest, SessionReceive
<1> QED
  BY <1>4, <1>5

LEMMA CoreReceiveKeeps ==
  ASSUME IInv, NEW p \in Peers, CoreReceive(p)
  PROVE  IInv'
<1> DEFINE msg == Head(toCore[p])
           m == mpv[p]
<1>1. /\ toCore \in [Peers -> Seq(Sent)] /\ toCore[p] \in Seq(Sent)
      /\ events \in [Peers -> Seq(Sent)] /\ events[p] \in Seq(Sent)
  BY DEF IInv, Queues
<1>2. msg \in Sent /\ Tail(toCore[p]) \in Seq(Sent)
  BY <1>1, QueueEnds DEF CoreReceive
<1>3. msg.pos \in Int /\ (msg.type = "PlaybackSpeed" => msg.pos \in Speeds)
  BY <1>2, SentFields
<1>4. Sound(m) /\ hostSpeed[p] \in Int
  BY HostSpeedNumber DEF IInv, Players
<1>5. /\ toCore' = [toCore EXCEPT ![p] = Tail(@)]
      /\ UNCHANGED <<session, inbox, due, paused, acts, lead, adrift>>
  BY DEF CoreReceive
<1>6. toCore' \in [Peers -> Seq(Sent)]
  BY <1>1, <1>2, <1>5
<1>7. Inboxes' /\ Rest'
  BY <1>5 DEF IInv, Inboxes, Rest
<1>8. CASE msg.type = "Seek"
  <2> DEFINE new == SetPosition(m, msg.pos)
  <2>1. mpv' = [mpv EXCEPT ![p] = new] /\ UNCHANGED <<hostSpeed, events>>
    BY <1>8 DEF CoreReceive
  <2>2. Sound(new)
    BY <1>3, <1>4, SetPositionSound
  <2>3. Players'
    <3> HIDE DEF new
    <3> QED
      BY <2>1, <2>2, PlayerUpdate DEF IInv
  <2> QED
    BY <1>6, <1>7, <2>1, <2>3 DEF IInv, HostSpeeds, Queues
<1>9. CASE msg.type = "PlaybackSpeed"
  <2> DEFINE new == RoomSpeed(m, hostSpeed[p], msg.pos)
  <2>1. /\ mpv' = [mpv EXCEPT ![p] = new]
        /\ hostSpeed' = [hostSpeed EXCEPT ![p] = msg.pos]
        /\ UNCHANGED events
    BY <1>9 DEF CoreReceive, HostSpeed
  <2>2. Sound(new)
    BY <1>3, <1>4, RoomSpeedSound
  <2>3. Players'
    <3> HIDE DEF new
    <3> QED
      BY <2>1, <2>2, PlayerUpdate DEF IInv
  <2>4. HostSpeeds'
    BY <1>3, <1>9, <2>1 DEF IInv, HostSpeeds
  <2> QED
    BY <1>6, <1>7, <2>1, <2>3, <2>4 DEF IInv, Queues
<1>10. CASE msg.type # "Seek" /\ msg.type # "PlaybackSpeed"
  <2> DEFINE new == Reconciled(m, hostSpeed[p], msg.pos)
             queue == events[p] \o PushedBack(m, msg.pos)
  <2>1. /\ mpv' = [mpv EXCEPT ![p] = new]
        /\ events' = [events EXCEPT ![p] = queue]
        /\ UNCHANGED hostSpeed
    BY <1>10 DEF CoreReceive
  <2>2. Sound(new)
    BY <1>3, <1>4, ReconciledSound
  <2>3. Players'
    <3> HIDE DEF new
    <3> QED
      BY <2>1, <2>2, PlayerUpdate DEF IInv
  <2>4. queue \in Seq(Sent)
    BY <1>1, <1>3, <1>4, PushedBackOne
  <2>5. Queues'
    <3> HIDE DEF queue
    <3> QED
      BY <1>1, <1>6, <2>1, <2>4 DEF Queues
  <2> QED
    BY <1>7, <2>1, <2>3, <2>5 DEF IInv, HostSpeeds
<1> QED
  BY <1>8, <1>9, <1>10

LEMMA HeartbeatKeeps ==
  ASSUME IInv, NEW p \in Peers, Heartbeat(p)
  PROVE  IInv'
<1>1. /\ due' = due \ {p}
      /\ UNCHANGED <<mpv, hostSpeed, events, toCore, paused, acts, lead, adrift>>
  BY DEF Heartbeat
<1>2. Players' /\ HostSpeeds' /\ Queues'
  BY <1>1 DEF IInv, Players, HostSpeeds, Queues
<1>3. mpv[p].at \in Int
  BY DEF IInv, Players, Sound, Mpv
<1>4. CASE p = Host
  <2>1. /\ Broadcast(p, VideoStatus(mpv[p].at), Clients)
        /\ session' = session
    BY <1>4 DEF Heartbeat
  <2>2. VideoStatus(mpv[p].at) \in Sent
    BY <1>3, VideoStatusSent
  <2>3. Inboxes'
    BY <2>1, <2>2, BroadcastReaches DEF IInv
  <2> QED
    BY <1>1, <1>2, <2>1, <2>3 DEF IInv, Rest
<1>5. CASE p # Host
  <2>1. /\ session' = [session EXCEPT ![p] = Reported(@, mpv[p].at)]
        /\ inbox' = inbox
    BY <1>5 DEF Heartbeat
  <2>2. p \in Clients /\ session \in [Clients -> Session]
    BY <1>5 DEF Peers, IInv, Rest
  <2>3. Reported(session[p], mpv[p].at) \in Session
    BY <1>3, <2>2 DEF Reported, Session
  <2>4. session' \in [Clients -> Session]
    BY <2>1, <2>2, <2>3
  <2> QED
    BY <1>1, <1>2, <2>1, <2>4 DEF IInv, Rest, Inboxes
<1> QED
  BY <1>4, <1>5

LEMMA PingKeeps ==
  ASSUME IInv, NEW c \in Clients, NEW d \in 0 .. MaxLag, Ping(c, d)
  PROVE  IInv'
<1>1. session' = [session EXCEPT ![c] = [session[c] EXCEPT !.delay = d]]
  BY DEF Ping, IInv, Rest
<1>2. session \in [Clients -> Session] /\ session[c] \in Session
  BY DEF IInv, Rest
<1>3. [session[c] EXCEPT !.delay = d] \in Session
  BY <1>2 DEF Session
<1>4. session' \in [Clients -> Session]
  BY <1>1, <1>2, <1>3
<1>5. acts' \in 0 .. MaxActs
  BY SeekingAssumption DEF Ping, Act, IInv, Rest
<1>6. UNCHANGED <<mpv, hostSpeed, events, inbox, toCore, due, paused, lead, adrift>>
  BY DEF Ping
<1> QED
  BY <1>4, <1>5, <1>6 DEF IInv, Players, HostSpeeds, Queues, Inboxes, Rest

LEMMA QueuedEventKeeps ==
  ASSUME IInv, NEW p \in Peers, QueuedEvent(p)
  PROVE  IInv'
<1>1. events \in [Peers -> Seq(Sent)] /\ events[p] \in Seq(Sent)
  BY DEF IInv, Queues
<1>2. Head(events[p]) \in Sent /\ Tail(events[p]) \in Seq(Sent)
  BY <1>1, QueueEnds DEF QueuedEvent
<1>3. Seek(Head(events[p]).pos) \in Sent
  BY <1>2, SentFields, SeekSent
<1>4. /\ Broadcast(p, Seek(Head(events[p]).pos), Peers)
      /\ events' = [events EXCEPT ![p] = Tail(@)]
      /\ UNCHANGED <<mpv, hostSpeed, session, toCore, due, paused, acts, lead, adrift>>
  BY DEF QueuedEvent, Tell
<1>5. Inboxes'
  BY <1>3, <1>4, BroadcastReaches DEF IInv
<1>6. Queues'
  BY <1>1, <1>2, <1>4 DEF IInv, Queues
<1> QED
  BY <1>4, <1>5, <1>6 DEF IInv, Players, HostSpeeds, Rest

\* The wrapper takes the event for its own, or has the user's to account for it.
LEMMA SeekEventKeeps ==
  ASSUME IInv, NEW p \in Peers, SeekEvent(p)
  PROVE  /\ IInv'
         /\ \A q \in Peers :
              mpv'[q].told = mpv[q].told /\ mpv'[q].speed = mpv[q].speed
<1> DEFINE m == mpv[p]
           user == IF m.seeking \/ m.user = 0 THEN m.user ELSE m.user - 1
           new == [m EXCEPT !.seeks = m.seeks - 1, !.seeking = FALSE, !.user = user]
<1>1. Sound(m) /\ m \in Mpv
  BY DEF IInv, Players, Sound
<1>2. /\ m.seeks \in Nat \ {0} /\ m.user \in Nat /\ m.at \in Int
      /\ user \in Nat /\ m.seeks - 1 \in Nat /\ m.seeks - 1 <= user
  BY <1>1 DEF SeekEvent, Mpv, Sound
<1>3. mpv' = [mpv EXCEPT ![p] = new]
  <2>1. CASE m.seeking \/ m.user = 0
    BY <2>1, <1>1 DEF SeekEvent, IInv, Players, Mpv
  <2>2. CASE ~ (m.seeking \/ m.user = 0)
    BY <2>2, <1>1 DEF SeekEvent, IInv, Players, Mpv
  <2> QED
    BY <2>1, <2>2
<1> HIDE DEF user
<1>4. /\ new \in Mpv /\ new.told = m.told /\ new.speed = m.speed
      /\ new.seeks = m.seeks - 1 /\ new.user = user
  BY <1>1, <1>2 DEF Mpv
<1>5. ~ new.seeking
  BY <1>1 DEF Mpv
<1> HIDE DEF new
<1>6. Sound(new)
  BY <1>1, <1>2, <1>4, <1>5 DEF Sound
<1>7. Players' /\ \A q \in Peers : mpv'[q] = IF q = p THEN new ELSE mpv[q]
  BY <1>3, <1>6, PlayerUpdate DEF IInv
<1>8. Inboxes'
  <2>1. CASE m.seeking
    BY <2>1 DEF SeekEvent, IInv, Inboxes
  <2>2. CASE ~ m.seeking
    <3>1. Broadcast(p, Seek(m.at), Peers)
      BY <2>2 DEF SeekEvent, Tell
    <3> QED
      BY <1>2, <3>1, SeekSent, BroadcastReaches DEF IInv
  <2> QED
    BY <2>1, <2>2
<1>9. UNCHANGED <<hostSpeed, events, session, toCore, due, paused, acts, lead, adrift>>
  BY DEF SeekEvent
<1>10. IInv'
  BY <1>7, <1>8, <1>9 DEF IInv, HostSpeeds, Queues, Rest
<1> QED
  BY <1>4, <1>7, <1>10

\* Only a speed that a user chose is told.
LEMMA SpeedEventKeeps ==
  ASSUME IInv, NEW p \in Peers, SpeedEvent(p)
  PROVE  /\ IInv'
         /\ \A q \in Peers : /\ mpv'[q].speed = mpv[q].speed
                             /\ mpv'[q].told = IF q = p THEN mpv[q].speed
                                               ELSE mpv[q].told
         /\ mpv[p].speed \in Speeds
         /\ Broadcast(p, PlaybackSpeed(mpv[p].speed), Peers)
<1> DEFINE m == mpv[p]
           new == [m EXCEPT !.told = m.speed]
<1>1. Sound(m) /\ m \in Mpv
  BY DEF IInv, Players, Sound
<1>2. m.speed \in Speeds
  BY <1>1 DEF Sound, SpeedEvent
<1>3. mpv' = [mpv EXCEPT ![p] = new]
  BY DEF SpeedEvent, IInv, Players
<1>4. /\ new \in Mpv /\ new.told = m.speed /\ new.speed = m.speed
      /\ new.seeks = m.seeks /\ new.user = m.user /\ new.seeking = m.seeking
  BY <1>1 DEF Mpv
<1> HIDE DEF new
<1>5. Sound(new)
  BY <1>1, <1>4 DEF Sound
<1>6. Players' /\ \A q \in Peers : mpv'[q] = IF q = p THEN new ELSE mpv[q]
  BY <1>3, <1>5, PlayerUpdate DEF IInv
<1>7. Broadcast(p, PlaybackSpeed(mpv[p].speed), Peers)
  BY DEF SpeedEvent, Tell
<1>8. Inboxes'
  BY <1>2, <1>7, PlaybackSpeedSent, BroadcastReaches DEF IInv
<1>9. /\ UNCHANGED <<hostSpeed, events, session, toCore, due, paused, acts, adrift>>
      /\ lead' \in BOOLEAN
  BY DEF SpeedEvent
<1>10. IInv'
  BY <1>6, <1>8, <1>9 DEF IInv, HostSpeeds, Queues, Rest
<1> QED
  BY <1>2, <1>4, <1>6, <1>7, <1>10

LEMMA UserSeekKeeps ==
  ASSUME IInv, NEW p \in Peers, NEW x \in Places, UserSeek(p, x)
  PROVE  /\ IInv'
         /\ \A q \in Peers :
              mpv'[q].told = mpv[q].told /\ mpv'[q].speed = mpv[q].speed
<1> DEFINE m == mpv[p]
           seeks == m.seeks + 1
           user == m.user + 1
           new == [m EXCEPT !.at = x, !.seeks = seeks, !.user = user]
<1>1. Sound(m) /\ m \in Mpv /\ x \in Int
  BY SeekingAssumption DEF IInv, Players, Sound
<1>2. m.seeks \in Nat /\ m.user \in Nat /\ seeks \in Nat /\ user \in Nat
  BY <1>1 DEF Mpv
<1>3. mpv' = [mpv EXCEPT ![p] = new]
  <2>1. mpv' = [mpv EXCEPT ![p].at = x, ![p].seeks = @ + 1, ![p].user = @ + 1]
    BY DEF UserSeek
  <2> QED
    BY <2>1, ThreeFields DEF IInv
<1>4. /\ new \in Mpv /\ new.told = m.told /\ new.speed = m.speed
      /\ new.seeks = m.seeks + 1 /\ new.user = m.user + 1
      /\ new.seeking = m.seeking
  <2> HIDE DEF m, seeks, user
  <2>1. new \in Mpv
    BY <1>1, <1>2 DEF Mpv
  <2>2. /\ new.told = m.told /\ new.speed = m.speed
        /\ new.seeks = seeks /\ new.user = user
    BY <1>1 DEF Mpv
  <2>3. new.seeking = m.seeking
    BY <1>1 DEF Mpv
  <2> QED
    BY <2>1, <2>2, <2>3 DEF seeks, user
<1> HIDE DEF new
<1>5. Sound(new)
  BY <1>1, <1>2, <1>4 DEF Sound
<1>6. Players' /\ \A q \in Peers : mpv'[q] = IF q = p THEN new ELSE mpv[q]
  BY <1>3, <1>5, PlayerUpdate DEF IInv
<1>7. /\ acts' \in 0 .. MaxActs
      /\ UNCHANGED <<hostSpeed, events, session, inbox, toCore, due, paused, lead, adrift>>
  BY SeekingAssumption DEF UserSeek, Act, IInv, Rest
<1>8. IInv'
  BY <1>6, <1>7 DEF IInv, HostSpeeds, Queues, Inboxes, Rest
<1> QED
  BY <1>4, <1>6, <1>8

LEMMA UserSpeedKeeps ==
  ASSUME IInv, NEW p \in Peers, NEW s \in Speeds, UserSpeed(p, s)
  PROVE  /\ IInv'
         /\ \A q \in Peers : /\ mpv'[q].told = mpv[q].told
                             /\ q # p => mpv'[q] = mpv[q]
<1> DEFINE m == mpv[p]
           new == [m EXCEPT !.speed = s]
<1>1. Sound(m) /\ m \in Mpv /\ s \in Int
  BY SeekingAssumption DEF IInv, Players, Sound
<1>2. mpv' = [mpv EXCEPT ![p] = new]
  BY DEF UserSpeed, IInv, Players
<1>3. /\ new \in Mpv /\ new.told = m.told /\ new.speed = s
      /\ new.seeks = m.seeks /\ new.user = m.user /\ new.seeking = m.seeking
  BY <1>1 DEF Mpv
<1> HIDE DEF new
<1>4. Sound(new)
  BY <1>1, <1>3 DEF Sound
<1>5. Players' /\ \A q \in Peers : mpv'[q] = IF q = p THEN new ELSE mpv[q]
  BY <1>2, <1>4, PlayerUpdate DEF IInv
<1>6. /\ acts' \in 0 .. MaxActs
      /\ UNCHANGED <<hostSpeed, events, session, inbox, toCore, due, paused, lead, adrift>>
  BY SeekingAssumption DEF UserSpeed, Act, IInv, Rest
<1>7. IInv'
  BY <1>5, <1>6 DEF IInv, HostSpeeds, Queues, Inboxes, Rest
<1> QED
  BY <1>3, <1>5, <1>6, <1>7

LEMMA UserPauseKeeps == IInv /\ UserPause => IInv'
BY SeekingAssumption
DEF UserPause, Act, IInv, Players, HostSpeeds, Queues, Inboxes, Rest

\* Time passes: players move, messages age.
LEMMA TickKeeps ==
  ASSUME IInv, Tick
  PROVE  /\ IInv'
         /\ \A q \in Peers :
              mpv'[q].told = mpv[q].told /\ mpv'[q].speed = mpv[q].speed
<1>1. paused \in BOOLEAN
  BY DEF IInv, Rest
<1>2. /\ \A p \in Peers : Young(toCore[p]) /\ \A q \in Peers : Young(inbox[p][q])
      /\ inbox' = [a \in Peers |-> [q \in Peers |-> Aged(inbox[a][q])]]
      /\ toCore' = [p \in Peers |-> Aged(toCore[p])]
      /\ due' = Peers
      /\ UNCHANGED <<hostSpeed, events, paused, acts, lead>>
      /\ adrift' = adrift \/ (adrift < MaxAdrift /\ adrift' = adrift + 1)
  BY DEF Tick
<1>3. Inboxes'
  BY <1>1, <1>2, AgedSent DEF IInv, Inboxes
<1>4. Queues'
  BY <1>1, <1>2, AgedSent DEF IInv, Queues
<1>5. /\ HostSpeeds' /\ due' \subseteq Peers /\ paused' \in BOOLEAN
      /\ acts' \in 0 .. MaxActs /\ lead' \in BOOLEAN /\ adrift' \in 0 .. MaxAdrift
  BY <1>2, SeekingAssumption DEF IInv, HostSpeeds, Rest
<1>6. CASE paused
  <2>1. UNCHANGED <<mpv, session>>
    BY <1>6 DEF Tick
  <2> QED
    BY <1>3, <1>4, <1>5, <2>1 DEF IInv, Players, Rest
<1>7. CASE ~ paused
  <2> DEFINE new(p) == [mpv[p] EXCEPT !.at = mpv[p].at + Drift(p)]
  <2>1. /\ mpv' = [p \in Peers |-> new(p)]
        /\ session' = [c \in Clients |-> [session[c] EXCEPT !.moved = TRUE]]
    BY <1>7 DEF Tick
  <2>2. ASSUME NEW p \in Peers
        PROVE  /\ Sound(new(p)) /\ new(p).told = mpv[p].told
               /\ new(p).speed = mpv[p].speed
    <3> DEFINE m == mpv[p]
               at == m.at + Drift(p)
               k == [m EXCEPT !.at = at]
    <3>1. Sound(m) /\ m \in Mpv
      BY DEF IInv, Players, Sound
    <3>2. at \in Int
      BY <3>1 DEF Drift, Mpv
    <3> HIDE DEF at
    <3>3. /\ k \in Mpv /\ k.told = m.told /\ k.speed = m.speed
          /\ k.seeks = m.seeks /\ k.user = m.user /\ k.seeking = m.seeking
      BY <3>1, <3>2 DEF Mpv
    <3> HIDE DEF k
    <3>4. Sound(k)
      BY <3>1, <3>3 DEF Sound
    <3> QED
      BY <3>3, <3>4 DEF k, at
  <2>3. session' \in [Clients -> Session]
    BY <2>1 DEF IInv, Rest, Session
  <2> HIDE DEF new
  <2>4. Players' /\ \A p \in Peers : mpv'[p] = new(p)
    BY <2>1, <2>2 DEF Players
  <2> QED
    BY <1>3, <1>4, <1>5, <2>2, <2>3, <2>4 DEF IInv, Rest
<1> QED
  BY <1>6, <1>7

LEMMA Initially == Init => IInv
<1>1. SUFFICES ASSUME Init PROVE IInv
  OBVIOUS
<1>2. Players
  <2> DEFINE m == [at |-> 0, speed |-> Normal, seeking |-> FALSE,
                   told |-> Normal, seeks |-> 0, user |-> 0]
  <2>1. Sound(m)
    BY SeekingAssumption DEF Sound, Mpv
  <2> HIDE DEF m
  <2>2. mpv = [p \in Peers |-> m]
    BY <1>1 DEF Init, m
  <2> QED
    BY <2>1, <2>2 DEF Players
<1>3. HostSpeeds /\ Queues /\ Inboxes
  BY <1>1 DEF Init, HostSpeeds, Queues, Inboxes
<1>4. Rest
  <2> DEFINE k == [seeking |-> FALSE, moved |-> FALSE, last |-> 0, delay |-> 0]
  <2>1. k \in Session /\ 0 \in 0 .. MaxActs
    BY SeekingAssumption DEF Session
  <2>2. session = [c \in Clients |-> k] /\ due = {} /\ paused = FALSE /\ acts = 0
    BY <1>1 DEF Init
  <2>3. lead = TRUE /\ adrift = 0 /\ 0 \in 0 .. MaxAdrift
    BY <1>1, SeekingAssumption DEF Init
  <2> HIDE DEF k
  <2> QED
    BY <2>1, <2>2, <2>3 DEF Rest
<1> QED
  BY <1>2, <1>3, <1>4 DEF IInv

LEMMA Inductive == IInv /\ [Next]_seekingVars => IInv'
<1>1. SUFFICES ASSUME IInv, [Next]_seekingVars
               PROVE  IInv'
  OBVIOUS
<1>2. ASSUME NEW p \in Peers, User(p)
      PROVE  IInv'
  BY <1>1, <1>2, UserSeekKeeps, UserSpeedKeeps DEF User
<1>3. ASSUME NEW p \in Peers, Program(p)
      PROVE  IInv'
  BY <1>1, <1>3, SessionReceiveKeeps, CoreReceiveKeeps, HeartbeatKeeps,
     QueuedEventKeeps, SeekEventKeeps, SpeedEventKeeps DEF Program
<1>4. ASSUME NEW c \in Clients, NEW d \in 0 .. MaxLag, Ping(c, d)
      PROVE  IInv'
  BY <1>1, <1>4, PingKeeps
<1>5. CASE UNCHANGED seekingVars
  BY <1>1, <1>5
  DEF seekingVars, IInv, Players, HostSpeeds, Queues, Inboxes, Rest
<1> QED
  BY <1>1, <1>2, <1>3, <1>4, <1>5, UserPauseKeeps, TickKeeps DEF Next

\* Players, what the wrappers keep, queues and messages are as IInv says,
\* whatever users, heartbeats and delays do.
THEOREM Invariance == Spec => []IInv
<1> QED
  BY Initially, Inductive, PTL DEF Spec

\* The peers' state keeps its types: the host's speed as a peer has it is one
\* that a user chose or the speed of before, and messages are not too old.
THEOREM TypeCorrect == Spec => []TypeOK
<1>1. Seq(Sent) \subseteq Seq(Message)
  BY DEF Sent
<1>2. ASSUME IInv PROVE TypeOK
  <2>1. mpv \in [Peers -> Mpv]
    BY <1>2 DEF IInv, Players, Sound
  <2> QED
    BY <1>1, <1>2, <2>1
    DEF IInv, HostSpeeds, Queues, Inboxes, Rest, TypeOK
<1> QED
  BY <1>2, Invariance, PTL

\* However seeks of users and of the program overlap, a SEEK event of mpv that
\* would be announced to the room as the user's has a user's seek to account for.
THEOREM SeeksDoNotEcho == Spec => []NoSeekEcho
<1>1. IInv => NoSeekEcho
  BY DEF IInv, Players, Sound, NoSeekEcho
<1> QED
  BY <1>1, Invariance, PTL

-----------------------------------------------------------------------------
(* The speed: queues.                                                      *)

LEMMA SeeksAreNoSpeed ==
  ASSUME NEW queue, SeeksOnly(queue)
  PROVE  NoSpeed(queue) /\ \A s : ~ LastSpeed(queue, s)
BY DEF SeeksOnly, NoSpeed, LastSpeed

LEMMA SpeedAppended ==
  ASSUME NEW queue \in Seq(Sent), NEW msg \in Sent, msg.type = "PlaybackSpeed"
  PROVE  LastSpeed(Append(queue, msg), msg.pos)
<1> DEFINE new == Append(queue, msg)
           n == Len(queue) + 1
<1>1. Len(queue) \in Nat /\ DOMAIN new = 1 .. n /\ new[n] = msg
  OBVIOUS
<1>2. n \in DOMAIN new /\ \A j \in DOMAIN new : ~ (j > n)
  BY <1>1
<1> HIDE DEF new, n
<1> QED
  BY <1>1, <1>2 DEF LastSpeed, new

LEMMA OtherAppended ==
  ASSUME NEW queue \in Seq(Sent), NEW msg \in Sent, msg.type # "PlaybackSpeed"
  PROVE  /\ NoSpeed(queue) => NoSpeed(Append(queue, msg))
         /\ \A s : LastSpeed(queue, s) => LastSpeed(Append(queue, msg), s)
<1> DEFINE new == Append(queue, msg)
           n == Len(queue) + 1
<1>1. /\ Len(queue) \in Nat /\ DOMAIN queue = 1 .. Len(queue)
      /\ DOMAIN new = 1 .. n /\ new[n] = msg
      /\ \A i \in DOMAIN queue : new[i] = queue[i]
  OBVIOUS
<1>2. \A i \in DOMAIN new : i = n \/ i \in DOMAIN queue
  BY <1>1
<1>3. \A i \in DOMAIN queue : i \in DOMAIN new
  BY <1>1
<1> HIDE DEF new, n
<1>4. NoSpeed(queue) => NoSpeed(new)
  BY <1>1, <1>2 DEF NoSpeed
<1>5. ASSUME NEW s, LastSpeed(queue, s)
      PROVE  LastSpeed(new, s)
  <2>1. PICK i \in DOMAIN queue :
          /\ queue[i].type = "PlaybackSpeed" /\ queue[i].pos = s
          /\ \A j \in DOMAIN queue : j > i => queue[j].type # "PlaybackSpeed"
    BY <1>5 DEF LastSpeed
  <2>2. /\ i \in DOMAIN new /\ new[i] = queue[i]
        /\ \A j \in DOMAIN new : j > i => new[j].type # "PlaybackSpeed"
    BY <1>1, <1>2, <1>3, <2>1
  <2> QED
    BY <2>1, <2>2 DEF LastSpeed
<1> QED
  BY <1>4, <1>5 DEF new

LEMMA SeekAppended ==
  ASSUME NEW queue \in Seq(Sent), NEW msg \in Sent, msg.type = "Seek",
         SeeksOnly(queue)
  PROVE  SeeksOnly(Append(queue, msg))
BY DEF SeeksOnly

\* Taking the head: the last speed is further behind, or it was the head.
LEMMA HeadTaken ==
  ASSUME NEW queue \in Seq(Sent), queue # <<>>
  PROVE  /\ NoSpeed(queue) =>
              Head(queue).type # "PlaybackSpeed" /\ NoSpeed(Tail(queue))
         /\ SeeksOnly(queue) =>
              Head(queue).type = "Seek" /\ SeeksOnly(Tail(queue))
         /\ \A s : LastSpeed(queue, s) =>
              \/ LastSpeed(Tail(queue), s)
              \/ /\ Head(queue).type = "PlaybackSpeed" /\ Head(queue).pos = s
                 /\ NoSpeed(Tail(queue))
<1> DEFINE rest == Tail(queue)
<1>1. /\ Len(queue) \in Nat \ {0} /\ DOMAIN queue = 1 .. Len(queue)
      /\ DOMAIN rest = 1 .. (Len(queue) - 1)
      /\ \A i \in DOMAIN rest : rest[i] = queue[i + 1]
      /\ Head(queue) = queue[1]
  OBVIOUS
<1>2. 1 \in DOMAIN queue /\ \A i \in DOMAIN rest : i + 1 \in DOMAIN queue
  BY <1>1
<1> HIDE DEF rest
<1>3. NoSpeed(queue) => Head(queue).type # "PlaybackSpeed" /\ NoSpeed(rest)
  BY <1>1, <1>2 DEF NoSpeed
<1>4. SeeksOnly(queue) => Head(queue).type = "Seek" /\ SeeksOnly(rest)
  BY <1>1, <1>2 DEF SeeksOnly
<1>5. ASSUME NEW s, LastSpeed(queue, s)
      PROVE  \/ LastSpeed(rest, s)
             \/ /\ Head(queue).type = "PlaybackSpeed" /\ Head(queue).pos = s
                /\ NoSpeed(rest)
  <2>1. PICK i \in DOMAIN queue :
          /\ queue[i].type = "PlaybackSpeed" /\ queue[i].pos = s
          /\ \A j \in DOMAIN queue : j > i => queue[j].type # "PlaybackSpeed"
    BY <1>5 DEF LastSpeed
  <2>2. CASE i = 1
    <3>1. \A j \in DOMAIN rest : j + 1 > 1
      BY <1>1
    <3>2. NoSpeed(rest)
      BY <1>1, <1>2, <2>1, <2>2, <3>1 DEF NoSpeed
    <3> QED
      BY <1>1, <2>1, <2>2, <3>2
  <2>3. CASE i # 1
    <3>1. PICK k \in DOMAIN rest : i = k + 1
      <4>1. i - 1 \in DOMAIN rest /\ i = (i - 1) + 1
        BY <1>1, <2>3
      <4> QED
        BY <4>1
    <3>2. \A j \in DOMAIN rest : j > k => j + 1 > i
      BY <1>1, <3>1
    <3>3. /\ rest[k].type = "PlaybackSpeed" /\ rest[k].pos = s
          /\ \A j \in DOMAIN rest : j > k => rest[j].type # "PlaybackSpeed"
      BY <1>1, <1>2, <2>1, <3>1, <3>2
    <3> QED
      BY <3>3 DEF LastSpeed
  <2> QED
    BY <2>2, <2>3
<1> QED
  BY <1>3, <1>4, <1>5 DEF rest

LEMMA AgedSpeeds ==
  ASSUME NEW queue \in Seq(Sent), Young(queue), paused \in BOOLEAN
  PROVE  /\ NoSpeed(queue) => NoSpeed(Aged(queue))
         /\ SeeksOnly(queue) => SeeksOnly(Aged(queue))
         /\ NoStatus(queue) => NoStatus(Aged(queue))
         /\ \A s : LastSpeed(queue, s) => LastSpeed(Aged(queue), s)
<1>1. /\ DOMAIN Aged(queue) = DOMAIN queue
      /\ \A i \in DOMAIN queue :
           /\ Aged(queue)[i].type = queue[i].type
           /\ queue[i].type = "PlaybackSpeed"
                => Aged(queue)[i].pos = queue[i].pos
  BY AgedSent
<1> QED
  BY <1>1 DEF NoSpeed, SeeksOnly, NoStatus, LastSpeed

-----------------------------------------------------------------------------
(* The speed: one lemma for each kind of step.                             *)

\* No wrapper tells of a speed in this step.
SameSpeeds == \A q \in Peers : mpv'[q].told = mpv[q].told

\* Peers may send one another what is not about the speed.
LEMMA TalkLeads ==
  ASSUME IInv, HostLeads, SameSpeeds, UNCHANGED <<hostSpeed, toCore>>,
         NEW msg \in Sent, msg.type # "PlaybackSpeed",
         \A a, q \in Peers :
            \/ inbox'[a][q] = inbox[a][q]
            \/ /\ inbox'[a][q] = Append(inbox[a][q], msg)
               /\ a \in Clients \/ q = Host => msg.type = "Seek"
  PROVE  HostLeads'
<1>1. \A a, q \in Peers : inbox[a][q] \in Seq(Sent)
  BY DEF IInv, Inboxes
<1>2. Quiet'
  <2>1. ASSUME NEW a \in Peers, NEW q \in Peers, a \in Clients \/ q = Host
        PROVE  SeeksOnly(inbox'[a][q])
    BY <1>1, <2>1, SeekAppended DEF HostLeads, Quiet
  <2>2. SeeksOnly(toCore'[Host])
    BY DEF HostLeads, Quiet
  <2> QED
    BY <2>1, <2>2 DEF Quiet
<1>3. ASSUME NEW c \in Clients
      PROVE  Informed(c)'
  <2>1. c \in Peers /\ Host \in Peers
    BY HostIsPeer
  <2>2. Informed(c) /\ mpv'[Host].told = mpv[Host].told
    BY <2>1 DEF HostLeads, SameSpeeds
  <2>3. /\ NoSpeed(inbox[Host][c]) => NoSpeed(inbox'[Host][c])
        /\ \A s : LastSpeed(inbox[Host][c], s) => LastSpeed(inbox'[Host][c], s)
    BY <1>1, <2>1, OtherAppended
  <2> QED
    BY <2>2, <2>3 DEF Informed
<1> QED
  BY <1>2, <1>3 DEF HostLeads

LEMMA StillLeads ==
  ASSUME IInv, HostLeads, SameSpeeds, UNCHANGED <<hostSpeed, toCore, inbox>>
  PROVE  HostLeads'
<1>1. Seek(0) \in Sent /\ Seek(0).type # "PlaybackSpeed"
  BY SeekSent
<1>2. \A a, q \in Peers : inbox'[a][q] = inbox[a][q]
  OBVIOUS
<1> QED
  BY <1>1, <1>2, TalkLeads

LEMMA HeartbeatLeads ==
  ASSUME IInv, HostLeads, NEW p \in Peers, Heartbeat(p)
  PROVE  HostLeads'
<1>1. UNCHANGED <<mpv, hostSpeed, toCore>>
  BY DEF Heartbeat
<1>2. SameSpeeds
  BY <1>1 DEF SameSpeeds
<1>3. CASE p = Host
  <2> DEFINE msg == VideoStatus(mpv[p].at)
  <2>1. Broadcast(p, msg, Clients)
    BY <1>3 DEF Heartbeat
  <2>2. mpv[p].at \in Int
    BY DEF IInv, Players, Sound, Mpv
  <2>3. msg \in Sent /\ msg.type # "PlaybackSpeed"
    BY <2>2, VideoStatusSent
  <2> HIDE DEF msg
  <2>4. \A b, q \in Peers :
          inbox'[b][q] = IF b = p /\ q \in Clients \ {p}
                         THEN Append(inbox[b][q], msg) ELSE inbox[b][q]
    BY <2>1, BroadcastReaches DEF IInv
  <2>5. \A b, q \in Peers :
          \/ inbox'[b][q] = inbox[b][q]
          \/ /\ inbox'[b][q] = Append(inbox[b][q], msg)
             /\ b \in Clients \/ q = Host => msg.type = "Seek"
    BY <1>3, <2>4, HostIsPeer
  <2> QED
    BY <1>1, <1>2, <2>3, <2>5, TalkLeads
<1>4. CASE p # Host
  <2>1. inbox' = inbox
    BY <1>4 DEF Heartbeat
  <2> QED
    BY <1>1, <1>2, <2>1, StillLeads
<1> QED
  BY <1>3, <1>4

\* A seek may go to all.
LEMMA SeekTalkLeads ==
  ASSUME IInv, HostLeads, SameSpeeds, UNCHANGED <<hostSpeed, toCore>>,
         NEW p \in Peers, NEW x \in Int, Tell(p, Seek(x))
  PROVE  HostLeads'
<1> DEFINE msg == Seek(x)
<1>1. msg \in Sent /\ msg.type = "Seek"
  BY SeekSent
<1>2. Broadcast(p, msg, Peers)
  BY DEF Tell
<1> HIDE DEF msg
<1>3. \A b, q \in Peers :
        inbox'[b][q] = IF b = p /\ q \in Peers \ {p}
                       THEN Append(inbox[b][q], msg) ELSE inbox[b][q]
  BY <1>2, BroadcastReaches DEF IInv
<1> QED
  BY <1>1, <1>3, TalkLeads

LEMMA QueuedEventLeads ==
  ASSUME IInv, HostLeads, NEW p \in Peers, QueuedEvent(p)
  PROVE  HostLeads'
<1>1. events[p] \in Seq(Sent) /\ events[p] # <<>>
  BY DEF IInv, Queues, QueuedEvent
<1>2. Head(events[p]).pos \in Int
  BY <1>1, QueueEnds, SentFields
<1>3. UNCHANGED <<mpv, hostSpeed, toCore>> /\ Tell(p, Seek(Head(events[p]).pos))
  BY DEF QueuedEvent
<1>4. SameSpeeds
  BY <1>3 DEF SameSpeeds
<1> QED
  BY <1>2, <1>3, <1>4, SeekTalkLeads

LEMMA SeekEventLeads ==
  ASSUME IInv, HostLeads, NEW p \in Peers, SeekEvent(p)
  PROVE  HostLeads'
<1>1. SameSpeeds
  BY SeekEventKeeps DEF SameSpeeds
<1>2. UNCHANGED <<hostSpeed, toCore>>
  BY DEF SeekEvent
<1>3. CASE mpv[p].seeking
  BY <1>1, <1>2, <1>3, StillLeads DEF SeekEvent
<1>4. CASE ~ mpv[p].seeking
  <2>1. Tell(p, Seek(mpv[p].at))
    BY <1>4 DEF SeekEvent
  <2>2. mpv[p].at \in Int
    BY DEF IInv, Players, Sound, Mpv
  <2> QED
    BY <1>1, <1>2, <2>1, <2>2, SeekTalkLeads
<1> QED
  BY <1>3, <1>4

\* What the host's wrapper tells goes to every client, behind all it has told
\* before; the host's user leads from then on, if nothing can pass it.
LEMMA SpeedEventLeads ==
  ASSUME IInv, LeadInv, NEW p \in Peers, SpeedEvent(p), lead'
  PROVE  HostLeads'
<1>1. /\ p = Host
      /\ Quiet
  <2>1. p = Host /\ (lead \/ NoChangeUnderWay)
    BY DEF SpeedEvent
  <2>2. CASE lead
    BY <2>1, <2>2 DEF LeadInv, HostLeads
  <2>3. CASE NoChangeUnderWay
    <3>1. \A queue \in Seq(Sent) : NoStatus(queue) /\ NoSpeed(queue) => SeeksOnly(queue)
      BY DEF NoStatus, NoSpeed, SeeksOnly, Sent, Message
    <3>2. /\ \A a, q \in Peers : inbox[a][q] \in Seq(Sent)
          /\ toCore[Host] \in Seq(Sent)
      BY HostIsPeer DEF IInv, Inboxes, Queues
    <3>3. NoSpeed(toCore[Host]) /\ \A c \in Clients, q \in Peers : NoSpeed(inbox[c][q])
      BY <2>3 DEF NoChangeUnderWay, NoSpeed
    <3>4. SeeksOnly(inbox[Host][Host])
      BY DEF LeadInv, Sides, SeeksOnly
    <3>5. ASSUME NEW a \in Peers, NEW q \in Peers, a \in Clients \/ q = Host
          PROVE  SeeksOnly(inbox[a][q])
      <4>1. CASE a \in Clients
        BY <3>1, <3>2, <3>3, <4>1 DEF LeadInv, Sides
      <4>2. CASE a \notin Clients
        BY <3>4, <3>5, <4>2 DEF Peers
      <4> QED
        BY <4>1, <4>2
    <3>6. SeeksOnly(toCore[Host])
      BY <3>1, <3>2, <3>3 DEF LeadInv, Sides
    <3> QED
      BY <2>1, <3>5, <3>6 DEF Quiet
  <2> QED
    BY <2>1, <2>2, <2>3
<1>2. /\ \A q \in Peers : /\ mpv'[q].speed = mpv[q].speed
                          /\ mpv'[q].told = IF q = p THEN mpv[q].speed
                                            ELSE mpv[q].told
      /\ mpv[p].speed \in Speeds
      /\ Broadcast(p, PlaybackSpeed(mpv[p].speed), Peers)
      /\ toCore' = toCore
  BY SpeedEventKeeps DEF SpeedEvent
<1> DEFINE msg == PlaybackSpeed(mpv[p].speed)
<1>3. msg \in Sent /\ msg.type = "PlaybackSpeed" /\ msg.pos = mpv[p].speed
  BY <1>2, PlaybackSpeedSent
<1> HIDE DEF msg
<1>4. \A b, q \in Peers :
        inbox'[b][q] = IF b = p /\ q \in Peers \ {p}
                       THEN Append(inbox[b][q], msg) ELSE inbox[b][q]
  BY <1>2, BroadcastReaches DEF IInv, msg
<1>5. Quiet'
  <2>1. \A a, q \in Peers : a \in Clients \/ q = Host => SeeksOnly(inbox'[a][q])
    BY <1>1, <1>4, HostIsPeer DEF Quiet
  <2> QED
    BY <1>1, <1>2, <2>1 DEF Quiet
<1>6. ASSUME NEW c \in Clients
      PROVE  Informed(c)'
  <2>1. c \in Peers /\ c # Host /\ Host \in Peers
    BY HostIsPeer
  <2>2. inbox'[Host][c] = Append(inbox[Host][c], msg)
    BY <1>1, <1>4, <2>1
  <2>3. inbox[Host][c] \in Seq(Sent)
    BY <2>1 DEF IInv, Inboxes
  <2>4. LastSpeed(inbox'[Host][c], msg.pos)
    BY <1>3, <2>2, <2>3, SpeedAppended
  <2>5. mpv'[Host].told = msg.pos
    BY <1>1, <1>2, <1>3, <2>1
  <2> QED
    BY <2>4, <2>5 DEF Informed
<1> QED
  BY <1>5, <1>6 DEF HostLeads

\* A user's change is not told yet.
LEMMA UserSpeedLeads ==
  ASSUME IInv, HostLeads, NEW p \in Peers, NEW s \in Speeds, UserSpeed(p, s)
  PROVE  HostLeads'
<1>1. SameSpeeds
  BY UserSpeedKeeps DEF SameSpeeds
<1> QED
  BY <1>1, StillLeads DEF UserSpeed

\* A session hands a speed of the host on behind what it handed on before.
LEMMA SessionReceiveLeads ==
  ASSUME IInv, HostLeads, NEW a \in Peers, NEW q \in Peers, SessionReceive(a, q)
  PROVE  HostLeads'
<1> DEFINE msg == Head(inbox[a][q])
           rest == Tail(inbox[a][q])
           told == mpv[Host].told
<1>1. /\ inbox[a][q] \in Seq(Sent) /\ inbox[a][q] # <<>> /\ msg \in Sent
      /\ UNCHANGED <<mpv, hostSpeed>> /\ Host \in Peers
  BY QueueEnds, HostIsPeer DEF IInv, Inboxes, SessionReceive
<1>2. \A b, r \in Peers : inbox'[b][r] = IF b = a /\ r = q THEN rest
                                         ELSE inbox[b][r]
  <2>1. inbox' = [inbox EXCEPT ![a][q] = Tail(@)] /\ Inboxes
    BY DEF IInv, SessionReceive
  <2>2. \A b, r \in Peers :
          inbox'[b][r] = IF b = a /\ r = q THEN Tail(inbox[b][r])
                         ELSE inbox[b][r]
    BY <1>1, <2>1, InboxTaken
  <2> QED
    BY <2>2
<1>3. toCore \in [Peers -> Seq(Sent)]
  BY DEF IInv, Queues
<1>4. \A b, r \in Peers : b \in Clients \/ r = Host => SeeksOnly(inbox'[b][r])
  BY <1>1, <1>2, HeadTaken DEF HostLeads, Quiet
<1>5. a \in Clients \/ q = Host => msg.type = "Seek"
  BY <1>1, HeadTaken DEF HostLeads, Quiet
<1>6. CASE q = Host
  <2>1. toCore' = [toCore EXCEPT ![q] = Append(@, msg)]
    BY <1>6 DEF SessionReceive
  <2> HIDE DEF msg, rest
  <2>2. SeeksOnly(toCore'[Host])
    BY <1>1, <1>3, <1>5, <1>6, <2>1, SeekAppended DEF HostLeads, Quiet
  <2>3. Quiet'
    BY <1>1, <1>4, <2>2 DEF HostLeads, Quiet
  <2>4. ASSUME NEW c \in Clients
        PROVE  Informed(c)'
    <3>1. c \in Peers /\ c # q
      BY <1>6, HostIsPeer
    <3>2. inbox'[Host][c] = inbox[Host][c] /\ toCore'[c] = toCore[c]
      BY <1>1, <1>2, <1>3, <2>1, <3>1
    <3> QED
      BY <1>1, <3>2 DEF HostLeads, Informed
  <2> QED
    BY <2>3, <2>4 DEF HostLeads
<1>7. CASE q # Host
  <2>1. /\ q \in Clients /\ session[q] \in Session /\ paused \in BOOLEAN
        /\ toCore[q] \in Seq(Sent)
    BY <1>3, <1>7 DEF Peers, IInv, Rest
  <2>2. toCore' = [toCore EXCEPT ![q] = @ \o Passed(session[q], msg)]
    BY <1>7 DEF SessionReceive
  <2>3. \/ toCore'[q] = toCore[q] /\ msg.type = "VideoStatus"
        \/ \E new \in Sent :
             /\ toCore'[q] = Append(toCore[q], new)
             /\ new.type = msg.type
             /\ msg.type # "VideoStatus" => new = msg
    <3>1. toCore'[q] = toCore[q] \o Passed(session[q], msg)
      BY <1>3, <2>2
    <3> DEFINE queue == toCore[q]
    <3> HIDE DEF msg, queue
    <3>2. queue \in Seq(Sent) /\ session[q] \in Session /\ msg \in Sent
      BY <1>1, <2>1 DEF queue
    <3>3. \/ queue \o Passed(session[q], msg) = queue /\ msg.type = "VideoStatus"
          \/ \E new \in Sent :
               /\ queue \o Passed(session[q], msg) = Append(queue, new)
               /\ new.type = msg.type
               /\ msg.type # "VideoStatus" => new = msg
      BY <2>1, <3>2, PassedOne
    <3> QED
      BY <3>1, <3>3 DEF queue
  <2>4. \A r \in Peers : r # q => toCore'[r] = toCore[r]
    BY <1>3, <2>2
  <2> HIDE DEF rest
  <2>5. Quiet'
    BY <1>1, <1>4, <1>7, <2>4 DEF HostLeads, Quiet
  <2>6. CASE msg.type = "PlaybackSpeed"
    <3>1. a = Host
      BY <1>5, <2>6 DEF Peers
    <3>2. toCore'[q] = Append(toCore[q], msg)
      BY <2>3, <2>6
    <3>3. LastSpeed(toCore'[q], msg.pos)
      BY <1>1, <2>1, <2>6, <3>2, SpeedAppended
    <3>4. LastSpeed(inbox[Host][q], told)
      BY <1>1, <2>1, <2>6, <3>1, HeadTaken DEF HostLeads, Informed
    <3>5. inbox'[Host][q] = rest
      BY <1>2, <3>1
    <3>6. LastSpeed(rest, told) \/ (NoSpeed(rest) /\ msg.pos = told)
      BY <1>1, <3>1, <3>4, HeadTaken DEF rest
    <3>7. Informed(q)'
      BY <1>1, <3>3, <3>5, <3>6 DEF Informed
    <3>8. ASSUME NEW c \in Clients, c # q
          PROVE  Informed(c)'
      <4>1. inbox'[Host][c] = inbox[Host][c] /\ toCore'[c] = toCore[c]
        BY <1>1, <1>2, <2>4, <3>8, HostIsPeer
      <4> QED
        BY <1>1, <4>1 DEF HostLeads, Informed
    <3> QED
      BY <2>5, <3>7, <3>8 DEF HostLeads
  <2>7. CASE msg.type # "PlaybackSpeed"
    <3>1. /\ NoSpeed(toCore[q]) => NoSpeed(toCore'[q])
          /\ \A s : LastSpeed(toCore[q], s) => LastSpeed(toCore'[q], s)
      BY <2>1, <2>3, <2>7, OtherAppended
    <3>2. /\ NoSpeed(inbox[Host][q]) => NoSpeed(inbox'[Host][q])
          /\ \A s : LastSpeed(inbox[Host][q], s) => LastSpeed(inbox'[Host][q], s)
      <4>1. CASE a = Host
        BY <1>1, <1>2, <2>7, <4>1, HeadTaken DEF rest
      <4>2. CASE a # Host
        BY <1>1, <1>2, <4>2
      <4> QED
        BY <4>1, <4>2
    <3>3. Informed(q)'
      BY <1>1, <2>1, <3>1, <3>2 DEF HostLeads, Informed
    <3>4. ASSUME NEW c \in Clients, c # q
          PROVE  Informed(c)'
      <4>1. inbox'[Host][c] = inbox[Host][c] /\ toCore'[c] = toCore[c]
        BY <1>1, <1>2, <2>4, <3>4, HostIsPeer
      <4> QED
        BY <1>1, <4>1 DEF HostLeads, Informed
    <3> QED
      BY <2>5, <3>3, <3>4 DEF HostLeads
  <2> QED
    BY <2>6, <2>7
<1> QED
  BY <1>6, <1>7

\* A core takes the speed, and its wrapper sets it, so that nothing is told.
LEMMA CoreReceiveLeads ==
  ASSUME IInv, HostLeads, NEW p \in Peers, CoreReceive(p)
  PROVE  HostLeads'
<1> DEFINE msg == Head(toCore[p])
           rest == Tail(toCore[p])
           m == mpv[p]
<1>1. /\ toCore \in [Peers -> Seq(Sent)] /\ toCore[p] \in Seq(Sent)
      /\ toCore[p] # <<>> /\ msg \in Sent
      /\ toCore' = [toCore EXCEPT ![p] = rest] /\ inbox' = inbox
  BY QueueEnds DEF IInv, Queues, CoreReceive
<1>2. msg.pos \in Int /\ Sound(m) /\ hostSpeed[p] \in Int /\ Host \in Peers
  BY <1>1, SentFields, HostSpeedNumber, HostIsPeer DEF IInv, Players
<1>3. p = Host => msg.type = "Seek" /\ SeeksOnly(rest)
  BY <1>1, HeadTaken DEF HostLeads, Quiet
<1>4. SeeksOnly(toCore'[Host])
  BY <1>1, <1>2, <1>3 DEF HostLeads, Quiet
<1>5. mpv \in [Peers -> Mpv] /\ HostSpeeds
  BY DEF IInv, Players, Sound
<1>6. /\ mpv'[Host].told = mpv[Host].told
      /\ \A q \in Peers : q # p => mpv'[q] = mpv[q] /\ hostSpeed'[q] = hostSpeed[q]
      /\ hostSpeed'[p] = IF msg.type = "PlaybackSpeed" THEN msg.pos
                         ELSE hostSpeed[p]
  <2>1. CASE msg.type = "Seek"
    <3> DEFINE new == SetPosition(m, msg.pos)
    <3>1. mpv' = [mpv EXCEPT ![p] = new] /\ hostSpeed' = hostSpeed
      BY <2>1 DEF CoreReceive
    <3>2. new.told = m.told /\ new.speed = m.speed
      BY <1>2, SetPositionSound
    <3> HIDE DEF new
    <3>3. \A q \in Peers : mpv'[q] = IF q = p THEN new ELSE mpv[q]
      BY <1>5, <3>1
    <3> QED
      BY <1>2, <2>1, <3>1, <3>2, <3>3
  <2>2. CASE msg.type = "PlaybackSpeed"
    <3> DEFINE new == RoomSpeed(m, hostSpeed[p], msg.pos)
    <3>1. /\ mpv' = [mpv EXCEPT ![p] = new]
          /\ hostSpeed' = [hostSpeed EXCEPT ![p] = msg.pos]
      BY <2>2 DEF CoreReceive, HostSpeed
    <3> HIDE DEF new, msg
    <3>3. \A q \in Peers : mpv'[q] = IF q = p THEN new ELSE mpv[q]
      BY <1>5, <3>1
    <3>4. \A q \in Peers : hostSpeed'[q] = IF q = p THEN msg.pos ELSE hostSpeed[q]
      BY <1>5, <3>1 DEF HostSpeeds
    <3>5. p # Host
      BY <1>3, <2>2
    <3> QED
      BY <1>2, <2>2, <3>3, <3>4, <3>5
  <2>3. CASE msg.type # "Seek" /\ msg.type # "PlaybackSpeed"
    <3> DEFINE new == Reconciled(m, hostSpeed[p], msg.pos)
    <3>1. mpv' = [mpv EXCEPT ![p] = new] /\ hostSpeed' = hostSpeed
      BY <2>3 DEF CoreReceive
    <3> HIDE DEF new
    <3>2. \A q \in Peers : mpv'[q] = IF q = p THEN new ELSE mpv[q]
      BY <1>5, <3>1
    <3>3. p # Host
      BY <1>3, <2>3
    <3> QED
      BY <1>2, <2>3, <3>1, <3>2, <3>3
  <2> QED
    BY <2>1, <2>2, <2>3
<1>7. Quiet'
  BY <1>1, <1>4 DEF HostLeads, Quiet
<1>8. ASSUME NEW c \in Clients
      PROVE  Informed(c)'
  <2>1. c \in Peers /\ Informed(c)
    BY HostIsPeer DEF HostLeads
  <2>2. CASE c # p
    <3>1. toCore'[c] = toCore[c] /\ hostSpeed'[c] = hostSpeed[c]
      BY <1>1, <1>6, <2>1, <2>2
    <3> QED
      BY <1>1, <1>6, <2>1, <3>1 DEF Informed
  <2>3. CASE c = p
    <3>1. toCore'[c] = rest
      BY <1>1, <2>3
    <3>2. /\ NoSpeed(toCore[c]) => msg.type # "PlaybackSpeed" /\ NoSpeed(rest)
          /\ \A s : LastSpeed(toCore[c], s) =>
               \/ LastSpeed(rest, s)
               \/ /\ msg.type = "PlaybackSpeed" /\ msg.pos = s
                  /\ NoSpeed(rest)
      BY <1>1, <2>3, HeadTaken
    <3>3. hostSpeed'[c] = IF msg.type = "PlaybackSpeed" THEN msg.pos
                          ELSE hostSpeed[c]
      BY <1>6, <2>3
    <3> HIDE DEF msg, rest
    <3> QED
      BY <1>1, <1>6, <2>1, <3>1, <3>2, <3>3 DEF Informed
  <2> QED
    BY <2>2, <2>3
<1> QED
  BY <1>7, <1>8 DEF HostLeads

LEMMA TickLeads ==
  ASSUME IInv, HostLeads, Tick
  PROVE  HostLeads'
<1>1. /\ \A q \in Peers :
           mpv'[q].told = mpv[q].told /\ mpv'[q].speed = mpv[q].speed
      /\ paused \in BOOLEAN /\ Host \in Peers /\ Clients \subseteq Peers
  BY TickKeeps, HostIsPeer DEF IInv, Rest
<1>2. /\ \A p \in Peers : Young(toCore[p]) /\ \A q \in Peers : Young(inbox[p][q])
      /\ inbox' = [a \in Peers |-> [q \in Peers |-> Aged(inbox[a][q])]]
      /\ toCore' = [p \in Peers |-> Aged(toCore[p])]
      /\ hostSpeed' = hostSpeed
  BY DEF Tick
<1>3. /\ \A p \in Peers : toCore[p] \in Seq(Sent)
      /\ \A a, q \in Peers : inbox[a][q] \in Seq(Sent)
  BY DEF IInv, Queues, Inboxes
<1>4. Quiet'
  <2>1. ASSUME NEW a \in Peers, NEW q \in Peers, a \in Clients \/ q = Host
        PROVE  SeeksOnly(inbox'[a][q])
    BY <1>1, <1>2, <1>3, <2>1, AgedSpeeds DEF HostLeads, Quiet
  <2>2. SeeksOnly(toCore'[Host])
    BY <1>1, <1>2, <1>3, AgedSpeeds DEF HostLeads, Quiet
  <2> QED
    BY <2>1, <2>2 DEF Quiet
<1>5. ASSUME NEW c \in Clients
      PROVE  Informed(c)'
  <2>1. c \in Peers
    BY <1>1
  <2>2. inbox'[Host][c] = Aged(inbox[Host][c]) /\ toCore'[c] = Aged(toCore[c])
    BY <1>1, <1>2, <2>1
  <2>3. /\ NoSpeed(inbox[Host][c]) => NoSpeed(inbox'[Host][c])
        /\ \A s : LastSpeed(inbox[Host][c], s) => LastSpeed(inbox'[Host][c], s)
    BY <1>1, <1>2, <1>3, <2>1, <2>2, AgedSpeeds
  <2>4. /\ NoSpeed(toCore[c]) => NoSpeed(toCore'[c])
        /\ \A s : LastSpeed(toCore[c], s) => LastSpeed(toCore'[c], s)
    BY <1>1, <1>2, <1>3, <2>1, <2>2, AgedSpeeds
  <2> QED
    BY <1>1, <1>2, <2>3, <2>4 DEF HostLeads, Informed
<1> QED
  BY <1>4, <1>5 DEF HostLeads

-----------------------------------------------------------------------------
(* The speed: who tells where the host is.                                 *)

LEMMA StatusAppended ==
  ASSUME NEW queue \in Seq(Sent), NEW msg \in Sent, msg.type # "VideoStatus",
         NoStatus(queue)
  PROVE  NoStatus(Append(queue, msg))
BY DEF NoStatus

LEMMA StatusTaken ==
  ASSUME NEW queue \in Seq(Sent), queue # <<>>, NoStatus(queue)
  PROVE  Head(queue).type # "VideoStatus" /\ NoStatus(Tail(queue))
<1>1. /\ Len(queue) \in Nat \ {0} /\ DOMAIN queue = 1 .. Len(queue)
      /\ DOMAIN Tail(queue) = 1 .. (Len(queue) - 1)
      /\ \A i \in DOMAIN Tail(queue) : Tail(queue)[i] = queue[i + 1]
      /\ Head(queue) = queue[1]
  OBVIOUS
<1>2. 1 \in DOMAIN queue /\ \A i \in DOMAIN Tail(queue) : i + 1 \in DOMAIN queue
  BY <1>1
<1> QED
  BY <1>1, <1>2 DEF NoStatus

\* A broadcast of anything else, or of the host to clients.
LEMMA BroadcastSides ==
  ASSUME IInv, Sides, toCore' = toCore, NEW a \in Peers, NEW msg \in Sent, NEW to,
         Broadcast(a, msg, to),
         msg.type # "VideoStatus" \/ (a = Host /\ to = Clients)
  PROVE  Sides'
<1>1. \A b, q \in Peers :
        inbox'[b][q] = IF b = a /\ q \in to \ {a}
                       THEN Append(inbox[b][q], msg) ELSE inbox[b][q]
  BY BroadcastReaches DEF IInv
<1>2. Host \in Peers /\ Host \notin Clients /\ Clients \subseteq Peers
  BY HostIsPeer
<1>3. ASSUME NEW b \in Peers, NEW q \in Peers, b \in Clients \/ q = Host
      PROVE  NoStatus(inbox'[b][q])
  <2>1. inbox[b][q] \in Seq(Sent) /\ NoStatus(inbox[b][q])
    BY <1>3 DEF IInv, Inboxes, Sides
  <2>2. CASE inbox'[b][q] = inbox[b][q]
    BY <2>1, <2>2
  <2>3. CASE inbox'[b][q] # inbox[b][q]
    <3>1. b = a /\ q \in to \ {a} /\ inbox'[b][q] = Append(inbox[b][q], msg)
      BY <1>1, <2>3
    <3>2. msg.type # "VideoStatus"
      BY <1>2, <1>3, <3>1
    <3> QED
      BY <2>1, <3>1, <3>2, StatusAppended
  <2> QED
    BY <2>2, <2>3
<1>4. inbox'[Host][Host] = inbox[Host][Host]
  BY <1>1, <1>2
<1> QED
  BY <1>3, <1>4 DEF Sides

LEMMA SessionReceiveSides ==
  ASSUME IInv, Sides, NEW a \in Peers, NEW q \in Peers, SessionReceive(a, q)
  PROVE  Sides'
<1>1. /\ inbox[a][q] \in Seq(Sent) /\ inbox[a][q] # <<>>
      /\ inbox' = [inbox EXCEPT ![a][q] = Tail(@)]
      /\ Head(inbox[a][q]) \in Sent /\ toCore \in [Peers -> Seq(Sent)]
  BY QueueEnds DEF IInv, Inboxes, Queues, SessionReceive
<1>2. \A b, r \in Peers :
        inbox'[b][r] = IF b = a /\ r = q THEN Tail(inbox[b][r]) ELSE inbox[b][r]
  BY <1>1, InboxTaken DEF IInv
<1>3. Host \in Peers
  BY HostIsPeer
<1>4. \A b, r \in Peers : b \in Clients \/ r = Host => NoStatus(inbox'[b][r])
  BY <1>1, <1>2, StatusTaken DEF Sides
<1>5. inbox'[Host][Host] = <<>>
  BY <1>1, <1>2, <1>3 DEF Sides
<1>6. NoStatus(toCore'[Host])
  <2>1. CASE q = Host
    <3>1. Head(inbox[a][q]).type # "VideoStatus"
      BY <1>1, <2>1, StatusTaken DEF Sides
    <3>2. toCore'[Host] = Append(toCore[Host], Head(inbox[a][q]))
      BY <1>1, <1>3, <2>1 DEF SessionReceive
    <3> QED
      BY <1>1, <1>3, <3>1, <3>2, StatusAppended DEF Sides
  <2>2. CASE q # Host
    <3>1. toCore'[Host] = toCore[Host]
      BY <1>1, <1>3, <2>2 DEF SessionReceive
    <3> QED
      BY <3>1 DEF Sides
  <2> QED
    BY <2>1, <2>2
<1> QED
  BY <1>4, <1>5, <1>6 DEF Sides

LEMMA CoreReceiveSides ==
  ASSUME IInv, Sides, NEW p \in Peers, CoreReceive(p)
  PROVE  Sides'
<1>1. /\ toCore \in [Peers -> Seq(Sent)] /\ toCore[p] # <<>> /\ inbox' = inbox
      /\ toCore' = [toCore EXCEPT ![p] = Tail(@)] /\ Host \in Peers
  BY HostIsPeer DEF IInv, Queues, CoreReceive
<1>2. NoStatus(toCore'[Host])
  <2>1. CASE p = Host
    <3>1. toCore'[Host] = Tail(toCore[Host])
      BY <1>1, <2>1
    <3> QED
      BY <1>1, <2>1, <3>1, StatusTaken DEF Sides
  <2>2. CASE p # Host
    BY <1>1, <2>2 DEF Sides
  <2> QED
    BY <2>1, <2>2
<1> QED
  BY <1>1, <1>2 DEF Sides

LEMMA TickSides ==
  ASSUME IInv, Sides, Tick
  PROVE  Sides'
<1>1. /\ \A p \in Peers : Young(toCore[p]) /\ \A q \in Peers : Young(inbox[p][q])
      /\ inbox' = [a \in Peers |-> [q \in Peers |-> Aged(inbox[a][q])]]
      /\ toCore' = [p \in Peers |-> Aged(toCore[p])]
  BY DEF Tick
<1>2. /\ \A p \in Peers : toCore[p] \in Seq(Sent)
      /\ \A a, q \in Peers : inbox[a][q] \in Seq(Sent)
      /\ paused \in BOOLEAN /\ Host \in Peers
  BY HostIsPeer DEF IInv, Queues, Inboxes, Rest
<1>3. \A a, q \in Peers : a \in Clients \/ q = Host => NoStatus(inbox'[a][q])
  BY <1>1, <1>2, AgedSpeeds DEF Sides
<1>4. NoStatus(toCore'[Host])
  BY <1>1, <1>2, AgedSpeeds DEF Sides
<1>5. inbox'[Host][Host] = <<>>
  <2>1. inbox'[Host][Host] = Aged(<<>>)
    BY <1>1, <1>2 DEF Sides
  <2> QED
    BY <2>1 DEF Aged
<1> QED
  BY <1>3, <1>4, <1>5 DEF Sides

\* The steps in which a peer tells the others something, if it does.
LEMMA TellingSides ==
  ASSUME IInv, Sides, NEW p \in Peers,
         Heartbeat(p) \/ QueuedEvent(p) \/ SeekEvent(p) \/ SpeedEvent(p)
  PROVE  Sides'
<1>1. mpv[p].at \in Int
  BY DEF IInv, Players, Sound, Mpv
<1>2. \A x \in Int : Seek(x) \in Sent /\ Seek(x).type # "VideoStatus"
  BY SeekSent
<1>3. CASE Heartbeat(p)
  <2>1. CASE p = Host
    BY <1>1, <1>3, <2>1, VideoStatusSent, BroadcastSides DEF Heartbeat
  <2>2. CASE p # Host
    BY <1>3, <2>2 DEF Heartbeat, Sides
  <2> QED
    BY <2>1, <2>2
<1>4. CASE QueuedEvent(p)
  <2>1. Head(events[p]).pos \in Int
    BY <1>4, QueueEnds, SentFields DEF IInv, Queues, QueuedEvent
  <2> QED
    BY <1>2, <1>4, <2>1, BroadcastSides DEF QueuedEvent, Tell
<1>5. CASE SeekEvent(p)
  <2>1. CASE mpv[p].seeking
    BY <1>5, <2>1 DEF SeekEvent, Sides
  <2>2. CASE ~ mpv[p].seeking
    BY <1>1, <1>2, <1>5, <2>2, BroadcastSides DEF SeekEvent, Tell
  <2> QED
    BY <2>1, <2>2
<1>6. CASE SpeedEvent(p)
  <2>1. mpv[p].speed \in Speeds /\ Broadcast(p, PlaybackSpeed(mpv[p].speed), Peers)
    BY <1>6, SpeedEventKeeps
  <2> DEFINE msg == PlaybackSpeed(mpv[p].speed)
  <2>2. msg \in Sent /\ msg.type # "VideoStatus" /\ toCore' = toCore
    BY <1>6, <2>1, PlaybackSpeedSent DEF SpeedEvent
  <2> HIDE DEF msg
  <2>3. Broadcast(p, msg, Peers)
    BY <2>1 DEF msg
  <2> QED
    BY <2>2, <2>3, BroadcastSides
<1> QED
  BY <1>3, <1>4, <1>5, <1>6

-----------------------------------------------------------------------------
(* The speed: the theorem.                                                 *)

LEMMA LeadsInitially == Init => LeadInv
<1>1. SUFFICES ASSUME Init PROVE LeadInv
  OBVIOUS
<1>2. Quiet
  BY <1>1, HostIsPeer DEF Init, Quiet, SeeksOnly
<1>3. \A c \in Clients : Informed(c)
  BY <1>1, HostIsPeer DEF Init, Informed, NoSpeed
<1>4. Sides
  BY <1>1, HostIsPeer DEF Init, Sides, NoStatus
<1> QED
  BY <1>2, <1>3, <1>4 DEF HostLeads, LeadInv

LEMMA LeadsInductive == IInv /\ LeadInv /\ [Next]_seekingVars => LeadInv'
<1>1. SUFFICES ASSUME IInv, LeadInv, [Next]_seekingVars
               PROVE  LeadInv'
  OBVIOUS
<1>2. Sides /\ (lead => HostLeads)
  BY <1>1 DEF LeadInv
<1>3. ASSUME NEW p \in Peers, User(p)
      PROVE  LeadInv'
  <2>1. lead' = lead /\ UNCHANGED <<inbox, toCore, hostSpeed>>
    BY <1>3 DEF User, UserSeek, UserSpeed
  <2>2. Sides'
    BY <1>2, <2>1 DEF Sides
  <2>3. ASSUME lead, NEW x \in Places, UserSeek(p, x)
        PROVE  HostLeads'
    <3>1. SameSpeeds
      BY <1>1, <2>3, UserSeekKeeps DEF SameSpeeds
    <3> QED
      BY <1>1, <1>2, <2>1, <2>3, <3>1, StillLeads
  <2> QED
    BY <1>1, <1>2, <1>3, <2>1, <2>2, <2>3, UserSpeedLeads DEF User, LeadInv
<1>4. ASSUME NEW p \in Peers, Program(p)
      PROVE  LeadInv'
  <2>1. Sides'
    BY <1>1, <1>2, <1>4, SessionReceiveSides, CoreReceiveSides, TellingSides DEF Program
  <2>2. ASSUME SpeedEvent(p), lead'
        PROVE  HostLeads'
    BY <1>1, <2>2, SpeedEventLeads
  <2>3. ASSUME ~ SpeedEvent(p), lead'
        PROVE  HostLeads'
    <3>1. lead
      BY <1>4, <2>3
      DEF Program, SessionReceive, CoreReceive, Heartbeat, QueuedEvent, SeekEvent
    <3> QED
      BY <1>1, <1>2, <1>4, <2>3, <3>1, SessionReceiveLeads, CoreReceiveLeads,
         HeartbeatLeads, QueuedEventLeads, SeekEventLeads DEF Program
  <2> QED
    BY <2>1, <2>2, <2>3 DEF LeadInv
<1>5. CASE mpv' = mpv /\ UNCHANGED <<hostSpeed, toCore, inbox, lead>>
  <2>1. SameSpeeds
    BY <1>5 DEF SameSpeeds
  <2>2. Sides'
    BY <1>2, <1>5 DEF Sides
  <2> QED
    BY <1>1, <1>2, <1>5, <2>1, <2>2, StillLeads DEF LeadInv
<1>6. (\E c \in Clients, d \in 0 .. MaxLag : Ping(c, d)) \/ UserPause
        \/ UNCHANGED seekingVars
      => mpv' = mpv /\ UNCHANGED <<hostSpeed, toCore, inbox, lead>>
  BY DEF Ping, UserPause, seekingVars
<1>7. CASE Tick
  <2>1. lead' = lead
    BY <1>7 DEF Tick
  <2> QED
    BY <1>1, <1>2, <1>7, <2>1, TickLeads, TickSides DEF LeadInv
<1> QED
  BY <1>1, <1>3, <1>4, <1>5, <1>6, <1>7 DEF Next

\* Once the host's user has changed the speed with no client's change on its way,
\* every client ends up with the host's as the speed of the host, until a client's
\* user changes it: whoever changed it before, and however speeds, seeks,
\* heartbeats and what clients do to catch up interleave.
THEOREM HostSpeedIsKept == Spec => []HostSpeedKept
<1>1. ASSUME IInv, LeadInv, lead, Calm, NEW c \in Clients
      PROVE  hostSpeed[c] = mpv[Host].speed
  <2>1. c \in Peers /\ Host \in Peers /\ HostLeads
    BY <1>1, HostIsPeer DEF LeadInv
  <2>2. /\ NoSpeed(inbox[Host][c]) /\ NoSpeed(toCore[c])
        /\ mpv[Host].told = mpv[Host].speed
    BY <1>1, <2>1 DEF Calm, NoSpeed
  <2> QED
    BY <1>1, <2>1, <2>2 DEF HostLeads, Informed, LastSpeed, NoSpeed
<1>2. IInv /\ LeadInv => HostSpeedKept
  BY <1>1 DEF HostSpeedKept
<1>3. IInv /\ LeadInv /\ [Next]_seekingVars => LeadInv'
  BY LeadsInductive
<1> QED
  BY <1>2, <1>3, LeadsInitially, Invariance, PTL DEF Spec

=============================================================================
