--------------------------- MODULE PlaybackProofs ---------------------------
(***************************************************************************)
(* The wrapper keeps track of mpv and echoes nothing, for any clients and  *)
(* any number of acts.  What a peer's status and its mpv have to do with   *)
(* each other concerns no other peer, so the invariant is a relation on    *)
(* one status, one mpv and the history variable, and there is one lemma    *)
(* for each of the wrapper's commands.                                     *)
(***************************************************************************)
EXTENDS Playback, TLAPS

\* StatusTracksMpv and NoEcho for one peer, made inductive: mpv opens and
\* reports only what the status has, and a difference between the two that mpv
\* has not reported is there for a reason the history variable knows.
Sound(pl, m, t) ==
    /\ pl.load # "NotLoaded" => pl.file
    /\ (m.restart \/ m.video # "none") => pl.file
    /\ (pl.load = "Loaded" /\ ~m.changed /\ ~m.restart) => pl.paused = m.pause
    /\ (pl.file /\ pl.paused # m.pause) => t
    /\ (~pl.file /\ m.changed) => t

AllSound == \A p \in Peers : Sound(player[p], mpv[p], touched[p])

PeerTypes ==
    /\ player \in [Peers -> PlayerStatus]
    /\ mpv \in [Peers -> Mpv]
    /\ touched \in [Peers -> BOOLEAN]

\* The rest of TypeOK.
RoomTypes ==
    /\ ready \in [Peers -> BOOLEAN]
    /\ users \in [Peers -> BOOLEAN]
    /\ requests \in [Clients -> [BOOLEAN -> Nat]]
    /\ toComm \in Seq(RoomMessage \cup Beat \cup {Status(b) : b \in BOOLEAN})
    /\ toCore \in Seq(RoomMessage)
    /\ inbox \in [Peers -> [Peers -> Seq(RoomMessage \cup Beat)]]
    /\ acts \in 0..MaxActs

\* The inductive invariant.
IInv == RoomTypes /\ PeerTypes /\ AllSound

----------------------------------------------------------------------------
(* The wrapper's commands *)

\* start sets status and mpv, or the status only while there is no video.
LEMMA StartedIsSound ==
    ASSUME NEW pl \in PlayerStatus, NEW m \in Mpv, NEW t \in BOOLEAN,
           Sound(pl, m, t)
    PROVE  /\ StartedPlayer(pl) \in PlayerStatus /\ StartedMpv(pl, m) \in Mpv
           /\ Sound(StartedPlayer(pl), StartedMpv(pl, m), t)
  BY DEF Sound, PlayerStatus, Mpv, StartedPlayer, StartedMpv, SetPause

\* So does pause.
LEMMA PausedIsSound ==
    ASSUME NEW pl \in PlayerStatus, NEW m \in Mpv, NEW t \in BOOLEAN,
           Sound(pl, m, t)
    PROVE  /\ PausedPlayer(pl) \in PlayerStatus /\ PausedMpv(pl, m) \in Mpv
           /\ Sound(PausedPlayer(pl), PausedMpv(pl, m), t)
  BY DEF Sound, PlayerStatus, Mpv, PausedPlayer, PausedMpv, SetPause

\* load_video touches: the status is paused and mpv may not be.
LEMMA LoadedIsSound ==
    ASSUME NEW pl \in PlayerStatus, NEW m \in Mpv, NEW t \in BOOLEAN,
           Sound(pl, m, t)
    PROVE  /\ LoadedPlayer(pl) \in PlayerStatus /\ LoadedMpv(m) \in Mpv
           /\ Sound(LoadedPlayer(pl), LoadedMpv(m), TRUE)
  BY DEF Sound, PlayerStatus, Mpv, LoadedPlayer, LoadedMpv

\* unload_video leaves the pause alone.
LEMMA UnloadedIsSound ==
    ASSUME NEW pl \in PlayerStatus, NEW m \in Mpv, NEW t \in BOOLEAN,
           Sound(pl, m, t)
    PROVE  /\ UnloadedPlayer(pl) \in PlayerStatus /\ UnloadedMpv(m) \in Mpv
           /\ Sound(UnloadedPlayer(pl), UnloadedMpv(m), t)
  BY DEF Sound, PlayerStatus, Mpv, UnloadedPlayer, UnloadedMpv

----------------------------------------------------------------------------
(* One peer at a time *)

\* A step that changes at most one peer's player, soundly.
Changes(p, pl, m, b) ==
    /\ pl \in PlayerStatus /\ m \in Mpv /\ b \in BOOLEAN
    /\ Sound(pl, m, b)
    /\ player' = [player EXCEPT ![p] = pl]
    /\ mpv' = [mpv EXCEPT ![p] = m]
    /\ touched' = [touched EXCEPT ![p] = b]

LEMMA ChangesKeepsSound ==
    ASSUME PeerTypes, AllSound, NEW p \in Peers, NEW pl, NEW m, NEW b,
           Changes(p, pl, m, b)
    PROVE  PeerTypes' /\ AllSound'
  BY DEF PeerTypes, AllSound, Changes

LEMMA HandleKeepsSound ==
    ASSUME PeerTypes, AllSound, NEW p \in Peers,
           NEW m \in RoomMessage \cup Beat, Handle(p, m)
    PROVE  PeerTypes' /\ AllSound'
<1> DEFINE pl == player[p]
           mp == mpv[p]
           t == touched[p]
<1>1. pl \in PlayerStatus /\ mp \in Mpv /\ t \in BOOLEAN /\ Sound(pl, mp, t)
  BY DEF PeerTypes, AllSound
<1>2. CASE m.type = "Pause"
  <2>1. Changes(p, PausedPlayer(pl), PausedMpv(pl, mp), t)
    BY <1>1, <1>2, PausedIsSound DEF Changes, Handle, PeerTypes
  <2> QED
    BY <2>1, ChangesKeepsSound
<1>3. CASE m.type = "Start"
  <2>1. Changes(p, StartedPlayer(pl), StartedMpv(pl, mp), t)
    BY <1>1, <1>3, StartedIsSound DEF Changes, Handle, PeerTypes
  <2> QED
    BY <2>1, ChangesKeepsSound
<1>4. CASE m.type = "Select"
  <2>1. Changes(p, LoadedPlayer(pl), LoadedMpv(mp), TRUE)
    BY <1>1, <1>4, LoadedIsSound DEF Changes, Handle, PeerTypes
  <2> QED
    BY <2>1, ChangesKeepsSound
<1>5. CASE m.type = "VideoStatus"
  <2>1. FollowHost(p, m) /\ UNCHANGED touched
    BY <1>5 DEF Handle, PeerTypes
  <2>2. CASE ~m.video
    <3>1. Changes(p, UnloadedPlayer(pl), UnloadedMpv(mp), t)
      BY <1>1, <2>1, <2>2, UnloadedIsSound DEF Changes, FollowHost, PeerTypes
    <3> QED
      BY <3>1, ChangesKeepsSound
  <2>3. CASE m.video /\ pl.file /\ mp.pause /\ ~m.paused
    <3>1. Changes(p, StartedPlayer(pl), StartedMpv(pl, mp), t)
      BY <1>1, <2>1, <2>3, StartedIsSound DEF Changes, FollowHost, PeerTypes
    <3> QED
      BY <3>1, ChangesKeepsSound
  <2>4. CASE m.video /\ pl.file /\ ~mp.pause /\ m.paused
    <3>1. Changes(p, PausedPlayer(pl), PausedMpv(pl, mp), t)
      BY <1>1, <2>1, <2>4, PausedIsSound DEF Changes, FollowHost, PeerTypes
    <3> QED
      BY <3>1, ChangesKeepsSound
  <2>5. CASE UNCHANGED <<player, mpv>>
    BY <2>1, <2>5 DEF PeerTypes, AllSound
  <2> QED
    BY <2>1, <2>2, <2>3, <2>4, <2>5 DEF FollowHost
<1> QED
  BY <1>2, <1>3, <1>4, <1>5
     DEF RoomMessage, Beat, Pause, Start, Select, VideoStatus

\* The actions that touch a player, the handling of messages aside.
PlayerStep(p) ==
    \/ UserPause(p) \/ UserSelect(p) \/ UpdateComplete(p)
    \/ Open(p) \/ CacheRunsOut(p) \/ CacheFills(p)
    \/ ProcessPause(p) \/ ProcessPausedForCache(p) \/ ProcessFileLoaded(p)

LEMMA PlayerStepKeepsSound ==
    ASSUME PeerTypes, AllSound, NEW p \in Peers, PlayerStep(p)
    PROVE  PeerTypes' /\ AllSound'
<1> DEFINE pl == player[p]
           m == mpv[p]
           t == touched[p]
<1>1. pl \in PlayerStatus /\ m \in Mpv /\ t \in BOOLEAN /\ Sound(pl, m, t)
  BY DEF PeerTypes, AllSound
<1>2. CASE UserPause(p)
  <2>1. Changes(p, pl, SetPause(m, ~m.pause), TRUE)
    BY <1>1, <1>2 DEF Changes, UserPause, PeerTypes, Sound, SetPause, Mpv
  <2> QED
    BY <2>1, ChangesKeepsSound
<1>3. CASE UserSelect(p)
  <2>1. Changes(p, LoadedPlayer(pl), LoadedMpv(m), TRUE)
    BY <1>1, <1>3, LoadedIsSound DEF Changes, UserSelect, PeerTypes
  <2> QED
    BY <2>1, ChangesKeepsSound
<1>4. CASE UpdateComplete(p)
  <2>1. CASE pl.file
    <3>1. Changes(p, [pl EXCEPT !.load = "Loading"], LoadedMpv(m), t)
      BY <1>1, <1>4, <2>1
         DEF Changes, UpdateComplete, PeerTypes, Sound, LoadedMpv, PlayerStatus, Mpv
    <3> QED
      BY <3>1, ChangesKeepsSound
  <2>2. CASE ~pl.file
    <3>1. Changes(p, pl, UnloadedMpv(m), t)
      BY <1>1, <1>4, <2>2
         DEF Changes, UpdateComplete, PeerTypes, Sound, UnloadedMpv, PlayerStatus, Mpv
    <3> QED
      BY <3>1, ChangesKeepsSound
  <2> QED
    BY <2>1, <2>2
<1>5. CASE Open(p)
  <2>1. Changes(p, pl, [m EXCEPT !.video = "open", !.restart = TRUE], t)
    BY <1>1, <1>5 DEF Changes, Open, PeerTypes, Sound, Mpv
  <2> QED
    BY <2>1, ChangesKeepsSound
<1>6. CASE CacheRunsOut(p)
  <2>1. Changes(p, pl, [m EXCEPT !.starved = TRUE, !.report = TRUE], t)
    BY <1>1, <1>6 DEF Changes, CacheRunsOut, PeerTypes, Sound, Mpv
  <2> QED
    BY <2>1, ChangesKeepsSound
<1>7. CASE CacheFills(p)
  <2>1. Changes(p, pl, [m EXCEPT !.starved = FALSE, !.report = FALSE], t)
    BY <1>1, <1>7 DEF Changes, CacheFills, PeerTypes, Sound, Mpv
  <2> QED
    BY <2>1, ChangesKeepsSound
<1>8. CASE ProcessPause(p)
  <2>1. Changes(p, [pl EXCEPT !.paused = m.pause], [m EXCEPT !.changed = FALSE], FALSE)
    BY <1>1, <1>8 DEF Changes, ProcessPause, PeerTypes, Sound, PlayerStatus, Mpv
  <2> QED
    BY <2>1, ChangesKeepsSound
<1>9. CASE ProcessPausedForCache(p)
  <2>1. Changes(p, PausedPlayer(pl), [PausedMpv(pl, m) EXCEPT !.report = FALSE], t)
    <3>1. PausedMpv(pl, m) \in Mpv /\ PausedPlayer(pl) \in PlayerStatus
          /\ Sound(PausedPlayer(pl), PausedMpv(pl, m), t)
      BY <1>1, PausedIsSound
    <3> HIDE DEF pl, m
    <3>2. /\ [PausedMpv(pl, m) EXCEPT !.report = FALSE] \in Mpv
          /\ Sound(PausedPlayer(pl), [PausedMpv(pl, m) EXCEPT !.report = FALSE], t)
      BY <3>1 DEF Sound, Mpv
    <3> QED
      BY <1>1, <1>9, <3>1, <3>2 DEF Changes, ProcessPausedForCache, PeerTypes, pl, m
  <2> QED
    BY <2>1, ChangesKeepsSound
<1>10. CASE ProcessFileLoaded(p)
  <2> DEFINE m1 == IF pl.paused THEN PausedMpv(pl, m) ELSE StartedMpv(pl, m)
  <2>1. Changes(p, [pl EXCEPT !.load = "Loaded"], [m1 EXCEPT !.restart = FALSE], t)
    BY <1>1, <1>10
       DEF Changes, ProcessFileLoaded, PeerTypes, Sound, PlayerStatus, Mpv,
           PausedMpv, StartedMpv, SetPause
  <2> QED
    BY <2>1, ChangesKeepsSound
<1> QED
  BY <1>2, <1>3, <1>4, <1>5, <1>6, <1>7, <1>8, <1>9, <1>10 DEF PlayerStep

----------------------------------------------------------------------------
(* Messages *)

LEMMA SendKeepsTypes ==
    ASSUME RoomTypes, NEW p \in Peers,
           NEW ss \in Seq({Status(b) : b \in BOOLEAN}), NEW ms \in Seq(RoomMessage),
           Send(p, ss, ms)
    PROVE  /\ requests' \in [Clients -> [BOOLEAN -> Nat]]
           /\ toComm' \in Seq(RoomMessage \cup Beat \cup {Status(b) : b \in BOOLEAN})
           /\ inbox' \in [Peers -> [Peers -> Seq(RoomMessage \cup Beat)]]
<1> DEFINE All == RoomMessage \cup Beat \cup {Status(b) : b \in BOOLEAN}
           Room == RoomMessage \cup Beat
           row == [b \in BOOLEAN |->
                      requests[p][b] + IF ss = <<Status(b)>> THEN 1 ELSE 0]
           boxes == [q \in Peers |-> IF q = p THEN inbox[p][q] ELSE inbox[p][q] \o ms]
<1>1. CASE p = Host
  <2>1. ss \in Seq(All) /\ ms \in Seq(All) /\ toComm \in Seq(All)
    BY DEF RoomTypes
  <2> HIDE DEF All
  <2>2. toComm \o ss \o ms \in Seq(All)
    BY <2>1
  <2>3. toComm' = toComm \o ss \o ms /\ UNCHANGED <<requests, inbox>>
    BY <1>1 DEF Send
  <2>4. toComm' \in Seq(All)
    BY <2>2, <2>3
  <2> QED
    BY <2>3, <2>4 DEF RoomTypes, All
<1>2. CASE p # Host
  <2>1. requests' = [requests EXCEPT ![p] = row]
        /\ inbox' = [inbox EXCEPT ![p] = boxes] /\ UNCHANGED toComm
    BY <1>2 DEF Send
  <2>2. p \in Clients
    BY <1>2 DEF Peers
  <2>3. row \in [BOOLEAN -> Nat]
    <3>1. \A b \in BOOLEAN : requests[p][b] \in Nat
      BY <2>2 DEF RoomTypes
    <3> QED
      BY <3>1
  <2>4. boxes \in [Peers -> Seq(Room)]
    <3>1. ms \in Seq(Room)
      OBVIOUS
    <3>2. \A q \in Peers : inbox[p][q] \in Seq(Room)
      BY DEF RoomTypes
    <3> HIDE DEF Room
    <3>3. \A q \in Peers : inbox[p][q] \o ms \in Seq(Room)
      BY <3>1, <3>2
    <3> QED
      BY <3>2, <3>3
  <2> HIDE DEF row, boxes
  <2>5. requests' \in [Clients -> [BOOLEAN -> Nat]]
    BY <2>1, <2>3 DEF RoomTypes
  <2>6. inbox' \in [Peers -> [Peers -> Seq(Room)]]
    BY <2>1, <2>4 DEF RoomTypes
  <2> QED
    BY <2>1, <2>5, <2>6 DEF RoomTypes
<1> QED
  BY <1>1, <1>2

LEMMA BroadcastType ==
    ASSUME NEW in \in [Peers -> [Peers -> Seq(RoomMessage \cup Beat)]],
           NEW a \in Peers, NEW m \in RoomMessage \cup Beat
    PROVE  Broadcast(a, in, m) \in [Peers -> [Peers -> Seq(RoomMessage \cup Beat)]]
<1>1. \A q \in Peers : Append(in[a][q], m) \in Seq(RoomMessage \cup Beat)
  OBVIOUS
<1> QED
  BY <1>1 DEF Broadcast

LEMMA StartIfAllReadyKeepsTypes ==
    ASSUME RoomTypes, NEW ms \in Seq(RoomMessage),
           NEW in \in [Peers -> [Peers -> Seq(RoomMessage \cup Beat)]],
           StartIfAllReady(ms, in)
    PROVE  /\ toCore' \in Seq(RoomMessage)
           /\ inbox' \in [Peers -> [Peers -> Seq(RoomMessage \cup Beat)]]
<1>1. Start \in RoomMessage
  BY DEF RoomMessage
<1>2. <<Start>> \in Seq(RoomMessage) /\ <<>> \in Seq(RoomMessage)
  BY <1>1
<1>3. toCore \o ms \in Seq(RoomMessage)
  BY DEF RoomTypes
<1>4. toCore \o ms \o <<Start>> \in Seq(RoomMessage)
      /\ toCore \o ms \o <<>> \in Seq(RoomMessage)
  BY <1>2, <1>3
<1>5. Broadcast(Host, in, Start) \in [Peers -> [Peers -> Seq(RoomMessage \cup Beat)]]
  BY <1>1, BroadcastType DEF Peers
<1> QED
  BY <1>4, <1>5 DEF StartIfAllReady

\* What arrives and what is queued has a type, and taking it leaves the rest.
LEMMA InboxTypes ==
    ASSUME RoomTypes, NEW a \in Peers, NEW q \in Peers, inbox[a][q] # <<>>
    PROVE  /\ Head(inbox[a][q]) \in RoomMessage \cup Beat
           /\ [inbox EXCEPT ![a][q] = Tail(@)]
                  \in [Peers -> [Peers -> Seq(RoomMessage \cup Beat)]]
<1>1. inbox[a][q] \in Seq(RoomMessage \cup Beat)
  BY DEF RoomTypes
<1>2. /\ Head(inbox[a][q]) \in RoomMessage \cup Beat
      /\ Tail(inbox[a][q]) \in Seq(RoomMessage \cup Beat)
  BY <1>1
<1> QED
  BY <1>2 DEF RoomTypes

LEMMA HandleCoreMessageKeepsTypes ==
    ASSUME RoomTypes, HandleCoreMessage
    PROVE  RoomTypes'
<1> DEFINE m == Head(toComm)
<1>1. m \in RoomMessage \cup Beat \cup {Status(b) : b \in BOOLEAN}
      /\ Tail(toComm) \in Seq(RoomMessage \cup Beat \cup {Status(b) : b \in BOOLEAN})
  BY DEF HandleCoreMessage, RoomTypes
<1>2. <<>> \in Seq(RoomMessage)
  OBVIOUS
<1>3. CASE m.type = "Status"
  <2>1. m.ready \in BOOLEAN
    BY <1>1, <1>3 DEF RoomMessage, Beat, Status, Pause, Start, Select, VideoStatus
  <2>2. /\ users' = [users EXCEPT ![Host] = m.ready]
        /\ StartIfAllReady(<<>>, inbox)
    BY <1>3 DEF HandleCoreMessage
  <2> QED
    BY <1>1, <1>2, <2>1, <2>2, StartIfAllReadyKeepsTypes
       DEF RoomTypes, HandleCoreMessage
<1>4. CASE m.type = "Select"
  <2>1. m \in RoomMessage
    BY <1>1, <1>4 DEF RoomMessage, Beat, Status, Pause, Start, Select, VideoStatus
  <2>2. /\ UNCHANGED users
        /\ StartIfAllReady(<<>>, Broadcast(Host, inbox, m))
    BY <1>4 DEF HandleCoreMessage
  <2>3. Broadcast(Host, inbox, m) \in [Peers -> [Peers -> Seq(RoomMessage \cup Beat)]]
    BY <2>1, BroadcastType DEF RoomTypes, Peers
  <2> QED
    BY <1>1, <1>2, <2>2, <2>3, StartIfAllReadyKeepsTypes
       DEF RoomTypes, HandleCoreMessage
<1>5. CASE m.type \in {"Pause", "Start", "VideoStatus"}
  <2>1. m \in RoomMessage \cup Beat
    BY <1>1, <1>5 DEF Status
  <2>2. inbox' = Broadcast(Host, inbox, m) /\ UNCHANGED <<users, toCore>>
    BY <1>5 DEF HandleCoreMessage
  <2>3. Broadcast(Host, inbox, m) \in [Peers -> [Peers -> Seq(RoomMessage \cup Beat)]]
    BY <2>1, BroadcastType DEF RoomTypes, Peers
  <2> QED
    BY <1>1, <2>2, <2>3 DEF RoomTypes, HandleCoreMessage
<1> QED
  BY <1>3, <1>4, <1>5 DEF HandleCoreMessage

LEMMA HandleBroadcastKeepsTypes ==
    ASSUME RoomTypes, NEW c \in Clients, HandleBroadcast(c)
    PROVE  RoomTypes'
<1> DEFINE m == Head(inbox[c][Host])
           rest == [inbox EXCEPT ![c][Host] = Tail(@)]
<1>1. m \in RoomMessage \cup Beat
      /\ rest \in [Peers -> [Peers -> Seq(RoomMessage \cup Beat)]]
  BY InboxTypes DEF HandleBroadcast, Peers
<1>2. CASE m.type = "Select"
  <2>1. <<m>> \in Seq(RoomMessage)
    BY <1>1, <1>2 DEF Beat, VideoStatus
  <2>2. StartIfAllReady(<<m>>, rest) /\ UNCHANGED users
    BY <1>2 DEF HandleBroadcast
  <2> HIDE DEF m, rest
  <2> QED
    BY <1>1, <2>1, <2>2, StartIfAllReadyKeepsTypes DEF RoomTypes, HandleBroadcast
<1>3. CASE m.type \in {"Pause", "Start"}
  <2>1. m \in RoomMessage
    BY <1>1, <1>3 DEF Beat, VideoStatus
  <2>2. toCore' = Append(toCore, m) /\ inbox' = rest /\ UNCHANGED users
    BY <1>3 DEF HandleBroadcast
  <2> HIDE DEF m, rest
  <2>3. toCore' \in Seq(RoomMessage)
    BY <2>1, <2>2 DEF RoomTypes
  <2> QED
    BY <1>1, <2>2, <2>3 DEF RoomTypes, HandleBroadcast
<1> QED
  BY <1>2, <1>3 DEF HandleBroadcast

LEMMA HandleStatusRequestKeepsTypes ==
    ASSUME RoomTypes, NEW c \in Clients, NEW b \in BOOLEAN, HandleStatusRequest(c, b)
    PROVE  RoomTypes'
<1>1. <<>> \in Seq(RoomMessage)
  OBVIOUS
<1>2. StartIfAllReady(<<>>, inbox)
  BY DEF HandleStatusRequest
<1>3. toCore' \in Seq(RoomMessage)
      /\ inbox' \in [Peers -> [Peers -> Seq(RoomMessage \cup Beat)]]
  BY <1>1, <1>2, StartIfAllReadyKeepsTypes DEF RoomTypes
<1>4. requests' \in [Clients -> [BOOLEAN -> Nat]]
  <2>1. requests[c][b] \in Nat /\ requests[c][b] > 0
    BY DEF HandleStatusRequest, RoomTypes
  <2>2. requests[c][b] - 1 \in Nat
    BY <2>1
  <2> QED
    BY <2>2 DEF HandleStatusRequest, RoomTypes
<1> QED
  BY <1>3, <1>4 DEF RoomTypes, HandleStatusRequest

\* The steps of one peer other than a client's receiving.
LEMMA PeerStepKeepsTypes ==
    ASSUME RoomTypes, PeerTypes, NEW p \in Peers, PlayerStep(p) \/ UserReady(p)
    PROVE  RoomTypes'
<1>1. /\ Status(TRUE) \in {Status(b) : b \in BOOLEAN}
      /\ Status(FALSE) \in {Status(b) : b \in BOOLEAN}
      /\ Pause \in RoomMessage /\ Start \in RoomMessage /\ Select \in RoomMessage
  BY DEF RoomMessage
<1>2. acts + 1 \in 0..MaxActs \/ ~Act
  BY PlaybackAssumption DEF Act, RoomTypes
<1>3. CASE UserPause(p)
  BY <1>2, <1>3 DEF UserPause, RoomTypes, Act
<1>4. CASE UserReady(p)
  <2>1. ready' \in [Peers -> BOOLEAN] /\ ready'[p] \in BOOLEAN
    BY <1>4 DEF UserReady, RoomTypes
  <2>2. <<Status(ready'[p])>> \in Seq({Status(b) : b \in BOOLEAN})
        /\ <<>> \in Seq(RoomMessage)
    BY <2>1
  <2>3. Send(p, <<Status(ready'[p])>>, <<>>)
    BY <1>4 DEF UserReady
  <2> QED
    BY <1>2, <1>4, <2>1, <2>2, <2>3, SendKeepsTypes DEF UserReady, RoomTypes, Act
<1>5. CASE UserSelect(p)
  <2>1. <<>> \in Seq({Status(b) : b \in BOOLEAN}) /\ <<Select>> \in Seq(RoomMessage)
    BY <1>1
  <2>2. Send(p, <<>>, <<Select>>)
    BY <1>5 DEF UserSelect
  <2> QED
    BY <1>2, <1>5, <2>1, <2>2, SendKeepsTypes DEF UserSelect, RoomTypes, Act
<1>6. CASE UpdateComplete(p)
  BY <1>2, <1>6 DEF UpdateComplete, RoomTypes, Act
<1>7. CASE Open(p) \/ CacheFills(p) \/ ProcessFileLoaded(p)
  BY <1>7 DEF Open, CacheFills, ProcessFileLoaded, RoomTypes
<1>8. CASE CacheRunsOut(p)
  BY <1>2, <1>8 DEF CacheRunsOut, RoomTypes, Act
<1>9. CASE ProcessPause(p)
  <2>1. CASE player[p].paused = mpv[p].pause
    <3>1. UNCHANGED <<ready, requests, toComm, inbox>>
      BY <1>9, <2>1 DEF ProcessPause
    <3> QED
      BY <1>9, <3>1 DEF ProcessPause, RoomTypes
  <2>2. CASE player[p].paused # mpv[p].pause
    <3> DEFINE said == IF mpv[p].pause THEN Pause ELSE Start
    <3>1. /\ ready' = [ready EXCEPT ![p] = ~mpv[p].pause]
          /\ Send(p, <<Status(ready'[p])>>, <<said>>)
      BY <1>9, <2>2 DEF ProcessPause
    <3>2. mpv[p].pause \in BOOLEAN
      BY DEF PeerTypes, Mpv
    <3>3. ready' \in [Peers -> BOOLEAN] /\ ready'[p] \in BOOLEAN
      BY <3>1, <3>2 DEF RoomTypes
    <3>4. <<Status(ready'[p])>> \in Seq({Status(b) : b \in BOOLEAN})
          /\ <<said>> \in Seq(RoomMessage)
      BY <1>1, <3>3
    <3> HIDE DEF said
    <3> QED
      BY <1>9, <3>1, <3>3, <3>4, SendKeepsTypes DEF ProcessPause, RoomTypes
  <2> QED
    BY <2>1, <2>2
<1>10. CASE ProcessPausedForCache(p)
  <2>1. ready[p] \in BOOLEAN
    BY DEF RoomTypes
  <2>2. <<Status(ready[p])>> \in Seq({Status(b) : b \in BOOLEAN})
        /\ <<Pause>> \in Seq(RoomMessage)
    BY <1>1, <2>1
  <2>3. Send(p, <<Status(ready[p])>>, <<Pause>>)
    BY <1>10 DEF ProcessPausedForCache
  <2> QED
    BY <1>10, <2>2, <2>3, SendKeepsTypes DEF ProcessPausedForCache, RoomTypes
<1> QED
  BY <1>3, <1>4, <1>5, <1>6, <1>7, <1>8, <1>9, <1>10 DEF PlayerStep

LEMMA HeartbeatKeepsTypes ==
    ASSUME RoomTypes, PeerTypes, Heartbeat
    PROVE  RoomTypes'
<1> DEFINE v == player[Host].file
           b == v => mpv[Host].pause
           beat == VideoStatus(v, b)
<1>1. v \in BOOLEAN
  BY DEF PeerTypes, PlayerStatus, Peers
<1>2. b \in BOOLEAN
  OBVIOUS
<1> HIDE DEF v, b
<1>3. beat \in Beat
  BY <1>1, <1>2 DEF Beat
<1> USE DEF v, b
<1>4. toComm' = Append(toComm, beat)
  BY DEF Heartbeat
<1> HIDE DEF beat
<1>5. toComm' \in Seq(RoomMessage \cup Beat \cup {Status(x) : x \in BOOLEAN})
  BY <1>4, <1>3 DEF RoomTypes
<1> QED
  BY <1>5 DEF Heartbeat, RoomTypes

----------------------------------------------------------------------------
(* The invariant is inductive *)

LEMMA InitIInv == Init => IInv
<1> SUFFICES ASSUME Init PROVE IInv
  OBVIOUS
<1>1. RoomTypes
  <2>1. PICK b \in BOOLEAN : ready = [p \in Peers |-> b]
    BY DEF Init
  <2>2. ready \in [Peers -> BOOLEAN] /\ users = ready
    BY <2>1 DEF Init
  <2>3. /\ toComm = <<>> /\ toCore = <<>> /\ acts = 0
        /\ requests = [c \in Clients |-> [x \in BOOLEAN |-> 0]]
        /\ inbox = [a \in Peers |-> [q \in Peers |-> <<>>]]
    BY DEF Init
  <2>4. 0 \in 0..MaxActs
    BY PlaybackAssumption
  <2> QED
    BY <2>2, <2>3, <2>4 DEF RoomTypes
<1>2. PICK file \in BOOLEAN :
          /\ player = [p \in Peers |->
                 [file |-> file, paused |-> TRUE,
                  load |-> IF file THEN "Loaded" ELSE "NotLoaded"]]
          /\ mpv = [p \in Peers |->
                 [pause |-> TRUE, changed |-> FALSE,
                  video |-> IF file THEN "open" ELSE "none",
                  restart |-> FALSE, starved |-> FALSE, report |-> FALSE]]
          /\ touched = [p \in Peers |-> FALSE]
  BY DEF Init
<1>3. PeerTypes /\ AllSound
  BY <1>2 DEF PeerTypes, AllSound, Sound, PlayerStatus, Mpv
<1> QED
  BY <1>1, <1>3 DEF IInv

LEMMA NextKeepsIInv == IInv /\ [Next]_playbackVars => IInv'
<1> SUFFICES ASSUME RoomTypes, PeerTypes, AllSound, [Next]_playbackVars
             PROVE  RoomTypes' /\ PeerTypes' /\ AllSound'
  BY DEF IInv
<1>1. CASE UNCHANGED playbackVars
  BY <1>1 DEF playbackVars, RoomTypes, PeerTypes, AllSound
<1>2. CASE Heartbeat
  BY <1>2, HeartbeatKeepsTypes DEF Heartbeat, PeerTypes, AllSound
<1>3. CASE HostCoreReceive
  <2>1. Head(toCore) \in RoomMessage /\ Tail(toCore) \in Seq(RoomMessage)
    BY <1>3 DEF HostCoreReceive, RoomTypes
  <2>2. Handle(Host, Head(toCore))
    BY <1>3 DEF HostCoreReceive
  <2>3. PeerTypes' /\ AllSound'
    BY <2>1, <2>2, HandleKeepsSound DEF Peers
  <2> QED
    BY <1>3, <2>1, <2>2, <2>3 DEF HostCoreReceive, Handle, RoomTypes
<1>4. CASE HandleCoreMessage
  BY <1>4, HandleCoreMessageKeepsTypes DEF HandleCoreMessage, PeerTypes, AllSound
<1>5. ASSUME NEW p \in Peers, PlayerStep(p)
      PROVE  RoomTypes' /\ PeerTypes' /\ AllSound'
  BY <1>5, PeerStepKeepsTypes, PlayerStepKeepsSound
<1>6. ASSUME NEW p \in Peers, UserReady(p)
      PROVE  RoomTypes' /\ PeerTypes' /\ AllSound'
  BY <1>6, PeerStepKeepsTypes DEF UserReady, PeerTypes, AllSound
<1>7. ASSUME NEW c \in Clients, NEW a \in Peers, ClientReceive(a, c)
      PROVE  RoomTypes' /\ PeerTypes' /\ AllSound'
  <2>1. c \in Peers
    BY DEF Peers
  <2>2. /\ Head(inbox[a][c]) \in RoomMessage \cup Beat
        /\ [inbox EXCEPT ![a][c] = Tail(@)]
               \in [Peers -> [Peers -> Seq(RoomMessage \cup Beat)]]
    BY <1>7, <2>1, InboxTypes DEF ClientReceive
  <2>3. Handle(c, Head(inbox[a][c]))
    BY <1>7 DEF ClientReceive
  <2>4. PeerTypes' /\ AllSound'
    BY <2>1, <2>2, <2>3, HandleKeepsSound
  <2> QED
    BY <1>7, <2>2, <2>3, <2>4 DEF ClientReceive, Handle, RoomTypes
<1>8. ASSUME NEW c \in Clients, NEW b \in BOOLEAN, HandleStatusRequest(c, b)
      PROVE  RoomTypes' /\ PeerTypes' /\ AllSound'
  BY <1>8, HandleStatusRequestKeepsTypes DEF HandleStatusRequest, PeerTypes, AllSound
<1>9. ASSUME NEW c \in Clients, HandleBroadcast(c)
      PROVE  RoomTypes' /\ PeerTypes' /\ AllSound'
  BY <1>9, HandleBroadcastKeepsTypes DEF HandleBroadcast, PeerTypes, AllSound
<1> QED
  BY <1>1, <1>2, <1>3, <1>4, <1>5, <1>6, <1>7, <1>8, <1>9 DEF Next, PlayerStep

LEMMA InductiveInvariant == Spec => []IInv
<1> QED
  BY InitIInv, NextKeepsIInv, PTL DEF Spec

----------------------------------------------------------------------------
(* Results *)

\* Every variable keeps its type, however many peers and acts; in particular a
\* video is loading or loaded only if one is set.
THEOREM TypeCorrect == Spec => []TypeOK
<1>1. IInv => TypeOK
  BY DEF IInv, RoomTypes, PeerTypes, AllSound, Sound, TypeOK
<1> QED
  BY <1>1, InductiveInvariant, PTL

\* The wrapper's status and a loaded video agree on the pause once mpv has
\* reported.
THEOREM StatusIsTrue == Spec => []StatusTracksMpv
<1>1. IInv => StatusTracksMpv
  BY DEF IInv, AllSound, Sound, PeerTypes, PlayerStatus, Mpv, StatusTracksMpv
<1> QED
  BY <1>1, InductiveInvariant, PTL

\* What came from the room is not announced to the room again.
THEOREM NothingEchoes == Spec => []NoEcho
<1>1. IInv => NoEcho
  BY DEF IInv, AllSound, Sound, PeerTypes, PlayerStatus, Mpv, NoEcho
<1> QED
  BY <1>1, InductiveInvariant, PTL
=============================================================================
