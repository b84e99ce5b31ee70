------------------------------ MODULE Playback ------------------------------
(***************************************************************************)
(* Pause, start and load of one video on all peers: the core's handlers of *)
(* player events, room messages and heartbeats (client/core/src), the mpv  *)
(* wrapper with the status it keeps of mpv (client/player/mpv/src), and    *)
(* what the host's session adds, the Start when all users are ready.       *)
(*                                                                         *)
(* mpv runs beside the core.  A command changes mpv's properties at once;  *)
(* mpv reports the change later, with the value the property then has, and *)
(* the wrapper tells a change of its own from one of the user by comparing *)
(* with its status.  mpv opens a file in the background.                   *)
(*                                                                         *)
(* All peers are in the room and have sent their status (module Roster has *)
(* the rest), all have the file, and there is one video: positions, seeks  *)
(* and the way from one video to the next are not here.  Of the heartbeats *)
(* only the host's matter, a client's goes no further than its session.    *)
(***************************************************************************)
EXTENDS Naturals, Sequences

CONSTANTS
    Host,     \* the peer that hosts the room
    Clients,  \* the other peers
    MaxActs   \* bound: what users do, and caches that run out

Peers == {Host} \cup Clients

Pause == [type |-> "Pause"]
Start == [type |-> "Start"]
Select == [type |-> "Select"]
Status(ready) == [type |-> "Status", ready |-> ready]
VideoStatus(video, paused) ==
    [type |-> "VideoStatus", video |-> video, paused |-> paused]

RoomMessage == {Pause, Start, Select}
Beat == {VideoStatus(v, b) : v \in BOOLEAN, b \in BOOLEAN}

ASSUME PlaybackAssumption == Host \notin Clients /\ MaxActs \in Nat

VARIABLES
    ready,     \* ready[p]: whether the user of p is ready
    player,    \* player[p]: MpvStatus, what the wrapper believes of mpv
    mpv,       \* mpv[p]: mpv and the events it has not reported yet
    users,     \* users[p]: readiness of p, as the host session knows it
    requests,  \* requests[c]: how many statuses of c are on their way
    toComm,    \* from the host's core to its session
    toCore,    \* from the host session to its core
    inbox,     \* inbox[a][q]: broadcasts of a on their way to q
    touched,   \* history: the user changed the pause or a video was loaded
               \* since mpv last reported the pause
    acts       \* counts against MaxActs

playbackVars ==
    <<ready, player, mpv, users, requests, toComm, toCore, inbox, touched,
      acts>>

\* file: a video is set; load: its file_load_status.
PlayerStatus ==
    [file : BOOLEAN, paused : BOOLEAN, load : {"NotLoaded", "Loading", "Loaded"}]

\* pause: the property; changed, restart, report: a change of it, the end of a
\* loading and a paused-for-cache wait to be reported; starved: paused-for-cache.
Mpv ==
    [pause : BOOLEAN, changed : BOOLEAN, video : {"none", "opening", "open"},
     restart : BOOLEAN, starved : BOOLEAN, report : BOOLEAN]

TypeOK ==
    /\ ready \in [Peers -> BOOLEAN]
    /\ player \in [Peers -> PlayerStatus]
    /\ \A p \in Peers : player[p].load # "NotLoaded" => player[p].file
    /\ mpv \in [Peers -> Mpv]
    /\ users \in [Peers -> BOOLEAN]
    /\ requests \in [Clients -> [BOOLEAN -> Nat]]
    /\ toComm \in Seq(RoomMessage \cup Beat \cup {Status(b) : b \in BOOLEAN})
    /\ toCore \in Seq(RoomMessage)
    /\ inbox \in [Peers -> [Peers -> Seq(RoomMessage \cup Beat)]]
    /\ touched \in [Peers -> BOOLEAN]
    /\ acts \in 0..MaxActs

----------------------------------------------------------------------------
(* The wrapper's commands, on its status pl and on mpv m *)

SetPause(m, b) == [m EXCEPT !.pause = b, !.changed = @ \/ m.pause # b]

\* A slip, to show what NoEcho says: start does not note in the status what it
\* does to mpv.
StartedPlayerUnnoted(pl) == pl

\* start and pause: without a file mpv is left alone.
StartedPlayer(pl) == [pl EXCEPT !.paused = FALSE]
StartedMpv(pl, m) == IF pl.file THEN SetPause(m, FALSE) ELSE m
PausedPlayer(pl) == [pl EXCEPT !.paused = TRUE]
PausedMpv(pl, m) == IF pl.file THEN SetPause(m, TRUE) ELSE m

\* A slip, to show what TypeOK says: the status does not keep the video.
LoadedPlayerFileless(pl) == [pl EXCEPT !.paused = TRUE, !.load = "Loading"]

\* load_video: pauses in the status only; mpv follows when the file is loaded.
LoadedPlayer(pl) == [file |-> TRUE, paused |-> TRUE, load |-> "Loading"]
LoadedMpv(m) ==
    [m EXCEPT !.video = "opening", !.starved = FALSE, !.report = FALSE]

\* unload_video: the status keeps the video.
UnloadedPlayer(pl) == [pl EXCEPT !.load = "NotLoaded"]
UnloadedMpv(m) ==
    [m EXCEPT !.video = "none", !.starved = FALSE, !.report = FALSE]

----------------------------------------------------------------------------
(* Messages *)

Broadcast(a, in, m) ==
    [in EXCEPT ![a] = [q \in Peers |-> IF q = a THEN @[q] ELSE Append(@[q], m)]]

\* The core of p sends a status, ss, and then messages ms to all: a client's
\* session passes them on at once, the host's has a queue.
Send(p, ss, ms) ==
    IF p = Host
    THEN toComm' = toComm \o ss \o ms /\ UNCHANGED <<requests, inbox>>
    ELSE /\ requests' = [requests EXCEPT ![p] = [b \in BOOLEAN |->
                @[b] + IF ss = <<Status(b)>> THEN 1 ELSE 0]]
         /\ inbox' = [inbox EXCEPT ![p] =
                [q \in Peers |-> IF q = p THEN @[q] ELSE @[q] \o ms]]
         /\ UNCHANGED toComm

Act == acts < MaxActs /\ acts' = acts + 1

----------------------------------------------------------------------------
(* Users *)

\* The user presses pause in mpv's window.
UserPause(p) ==
    /\ Act
    /\ mpv' = [mpv EXCEPT ![p] = SetPause(@, ~@.pause)]
    /\ touched' = [touched EXCEPT ![p] = TRUE]
    /\ UNCHANGED <<ready, player, users, requests, toComm, toCore, inbox>>

\* UserChange::handle, for the readiness.
UserReady(p) ==
    /\ Act
    /\ ready' = [ready EXCEPT ![p] = ~@]
    /\ Send(p, <<Status(ready'[p])>>, <<>>)
    /\ UNCHANGED <<player, mpv, users, toCore, touched>>

\* VideoChange::handle.
UserSelect(p) ==
    /\ Act
    /\ player' = [player EXCEPT ![p] = LoadedPlayer(@)]
    /\ mpv' = [mpv EXCEPT ![p] = LoadedMpv(@)]
    /\ Send(p, <<>>, <<Select>>)
    /\ touched' = [touched EXCEPT ![p] = TRUE]
    /\ UNCHANGED <<ready, users, toCore>>

\* UpdateComplete::handle, after the user had the file database updated:
\* maybe_reload_video.
UpdateComplete(p) ==
    /\ Act
    /\ player[p].load = "NotLoaded"
    /\ IF player[p].file
       THEN /\ player' = [player EXCEPT ![p].load = "Loading"]
            /\ mpv' = [mpv EXCEPT ![p] = LoadedMpv(@)]
       ELSE /\ mpv' = [mpv EXCEPT ![p] = UnloadedMpv(@)]
            /\ UNCHANGED player
    /\ UNCHANGED <<ready, users, requests, toComm, toCore, inbox, touched>>

----------------------------------------------------------------------------
(* mpv *)

Open(p) ==
    /\ mpv[p].video = "opening"
    /\ mpv' = [mpv EXCEPT ![p].video = "open", ![p].restart = TRUE]
    /\ UNCHANGED <<ready, player, users, requests, toComm, toCore, inbox,
                   touched, acts>>

CacheRunsOut(p) ==
    /\ Act
    /\ mpv[p].video = "open" /\ ~mpv[p].pause /\ ~mpv[p].starved
    /\ mpv' = [mpv EXCEPT ![p].starved = TRUE, ![p].report = TRUE]
    /\ UNCHANGED <<ready, player, users, requests, toComm, toCore, inbox, touched>>

CacheFills(p) ==
    /\ mpv[p].starved
    /\ mpv' = [mpv EXCEPT ![p].starved = FALSE, ![p].report = FALSE]
    /\ UNCHANGED <<ready, player, users, requests, toComm, toCore, inbox,
                   touched, acts>>

----------------------------------------------------------------------------
(* The core: player events *)

\* process_pause, then PlayerPause::handle or PlayerStart::handle.  A change
\* that the status has already is one of the wrapper's own.
ProcessPause(p) ==
    /\ mpv[p].changed
    /\ mpv' = [mpv EXCEPT ![p].changed = FALSE]
    /\ player' = [player EXCEPT ![p].paused = mpv[p].pause]
    /\ touched' = [touched EXCEPT ![p] = FALSE]
    /\ \/ /\ player[p].paused = mpv[p].pause
          /\ UNCHANGED <<ready, requests, toComm, inbox>>
       \/ /\ player[p].paused # mpv[p].pause
          /\ ready' = [ready EXCEPT ![p] = ~mpv[p].pause]
          /\ Send(p, <<Status(ready'[p])>>,
                  <<IF mpv[p].pause THEN Pause ELSE Start>>)
    /\ UNCHANGED <<users, toCore, acts>>

\* process_paused_for_cache, then PlayerCachePause::handle.
ProcessPausedForCache(p) ==
    /\ mpv[p].report
    /\ player' = [player EXCEPT ![p] = PausedPlayer(@)]
    /\ mpv' = [mpv EXCEPT ![p] = [PausedMpv(player[p], @) EXCEPT !.report = FALSE]]
    /\ Send(p, <<Status(ready[p])>>, <<Pause>>)
    /\ UNCHANGED <<ready, users, toCore, touched, acts>>

\* A slip, to show what StatusTracksMpv says: mpv does not follow the status.
ProcessFileLoadedUnpaused(p) ==
    /\ mpv[p].restart
    /\ mpv' = [mpv EXCEPT ![p].restart = FALSE]
    /\ player' = [player EXCEPT ![p].load = "Loaded"]
    /\ UNCHANGED <<ready, users, requests, toComm, toCore, inbox, touched, acts>>

\* MpvFileLoaded::process.
ProcessFileLoaded(p) ==
    /\ mpv[p].restart
    /\ player' = [player EXCEPT ![p].load = "Loaded"]
    /\ mpv' = [mpv EXCEPT ![p] =
           [IF player[p].paused THEN PausedMpv(player[p], @)
            ELSE StartedMpv(player[p], @) EXCEPT !.restart = FALSE]]
    /\ UNCHANGED <<ready, users, requests, toComm, toCore, inbox, touched, acts>>

\* Heartbeat::handle on the host.  The next one waits until the last one is
\* consumed everywhere.
Heartbeat ==
    /\ \A i \in DOMAIN toComm : toComm[i] \notin Beat
    /\ \A c \in Clients : \A i \in DOMAIN inbox[Host][c] : inbox[Host][c][i] \notin Beat
    /\ toComm' = Append(toComm,
           VideoStatus(player[Host].file, player[Host].file => mpv[Host].pause))
    /\ UNCHANGED <<ready, player, mpv, users, requests, toCore, inbox, touched, acts>>

----------------------------------------------------------------------------
(* The core: messages of the room *)

\* A slip, to show what PausesAgree says: the host's status only ever starts.
FollowHostStarts(p, m) ==
    CASE ~m.video ->
           /\ player' = [player EXCEPT ![p] = UnloadedPlayer(@)]
           /\ mpv' = [mpv EXCEPT ![p] = UnloadedMpv(@)]
      [] m.video /\ player[p].file /\ mpv[p].pause /\ ~m.paused ->
           /\ player' = [player EXCEPT ![p] = StartedPlayer(@)]
           /\ mpv' = [mpv EXCEPT ![p] = StartedMpv(player[p], @)]
      [] OTHER -> UNCHANGED <<player, mpv>>

\* VideoStatusMsg::handle.  The pause is read from mpv, not from the status.
FollowHost(p, m) ==
    CASE ~m.video ->
           /\ player' = [player EXCEPT ![p] = UnloadedPlayer(@)]
           /\ mpv' = [mpv EXCEPT ![p] = UnloadedMpv(@)]
      [] m.video /\ player[p].file /\ mpv[p].pause /\ ~m.paused ->
           /\ player' = [player EXCEPT ![p] = StartedPlayer(@)]
           /\ mpv' = [mpv EXCEPT ![p] = StartedMpv(player[p], @)]
      [] m.video /\ player[p].file /\ ~mpv[p].pause /\ m.paused ->
           /\ player' = [player EXCEPT ![p] = PausedPlayer(@)]
           /\ mpv' = [mpv EXCEPT ![p] = PausedMpv(player[p], @)]
      [] OTHER -> UNCHANGED <<player, mpv>>

\* PauseMsg::handle, StartMsg::handle, SelectMsg::handle, VideoStatusMsg::handle.
Handle(p, m) ==
    /\ CASE m.type = "Pause" ->
              /\ player' = [player EXCEPT ![p] = PausedPlayer(@)]
              /\ mpv' = [mpv EXCEPT ![p] = PausedMpv(player[p], @)]
         [] m.type = "Start" ->
              /\ player' = [player EXCEPT ![p] = StartedPlayer(@)]
              /\ mpv' = [mpv EXCEPT ![p] = StartedMpv(player[p], @)]
         [] m.type = "Select" ->
              /\ player' = [player EXCEPT ![p] = LoadedPlayer(@)]
              /\ mpv' = [mpv EXCEPT ![p] = LoadedMpv(@)]
         [] m.type = "VideoStatus" -> FollowHost(p, m)
    /\ touched' = [touched EXCEPT ![p] = @ \/ m.type = "Select"]
    /\ UNCHANGED <<ready, users, requests, toComm, acts>>

HostCoreReceive ==
    /\ toCore # <<>>
    /\ Handle(Host, Head(toCore))
    /\ toCore' = Tail(toCore)
    /\ UNCHANGED inbox

ClientReceive(a, c) ==
    /\ c \in Clients /\ inbox[a][c] # <<>>
    /\ Handle(c, Head(inbox[a][c]))
    /\ inbox' = [inbox EXCEPT ![a][c] = Tail(@)]
    /\ UNCHANGED toCore

----------------------------------------------------------------------------
(* The host session *)

\* handle_all_users_ready, after ms went to the core and in to the room.
StartIfAllReady(ms, in) ==
    LET all == \A p \in Peers : users'[p] IN
    /\ toCore' = toCore \o ms \o (IF all THEN <<Start>> ELSE <<>>)
    /\ inbox' = IF all THEN Broadcast(Host, in, Start) ELSE in

\* run, handle_core_message.
HandleCoreMessage ==
    /\ toComm # <<>>
    /\ toComm' = Tail(toComm)
    /\ LET m == Head(toComm) IN
           \/ /\ m.type = "Status"
              /\ users' = [users EXCEPT ![Host] = m.ready]
              /\ StartIfAllReady(<<>>, inbox)
           \/ /\ m.type = "Select"
              /\ UNCHANGED users
              /\ StartIfAllReady(<<>>, Broadcast(Host, inbox, m))
           \/ /\ m.type \in {"Pause", "Start", "VideoStatus"}
              /\ inbox' = Broadcast(Host, inbox, m)
              /\ UNCHANGED <<users, toCore>>
    /\ UNCHANGED <<ready, player, mpv, requests, touched, acts>>

\* UserStatusMsg::handle_swarm_request; requests may overtake each other.
HandleStatusRequest(c, b) ==
    /\ requests[c][b] > 0
    /\ requests' = [requests EXCEPT ![c][b] = @ - 1]
    /\ users' = [users EXCEPT ![c] = b]
    /\ StartIfAllReady(<<>>, inbox)
    /\ UNCHANGED <<ready, player, mpv, toComm, touched, acts>>

\* SelectMsg and PassthroughMsg ::handle_swarm_broadcast.
HandleBroadcast(c) ==
    /\ inbox[c][Host] # <<>>
    /\ LET m == Head(inbox[c][Host])
           rest == [inbox EXCEPT ![c][Host] = Tail(@)] IN
           \/ /\ m.type = "Select"
              /\ UNCHANGED users
              /\ StartIfAllReady(<<m>>, rest)
           \/ /\ m.type \in {"Pause", "Start"}
              /\ toCore' = Append(toCore, m)
              /\ inbox' = rest
              /\ UNCHANGED users
    /\ UNCHANGED <<ready, player, mpv, requests, toComm, touched, acts>>

----------------------------------------------------------------------------

\* Everybody sent the status, all are ready or none is, and nothing happened
\* lately: nobody watches anything yet, or all have the video and it is paused.
Init ==
    /\ \E b \in BOOLEAN : ready = [p \in Peers |-> b]
    /\ \E file \in BOOLEAN :
           /\ player = [p \in Peers |->
                  [file |-> file, paused |-> TRUE,
                   load |-> IF file THEN "Loaded" ELSE "NotLoaded"]]
           /\ mpv = [p \in Peers |->
                  [pause |-> TRUE, changed |-> FALSE,
                   video |-> IF file THEN "open" ELSE "none",
                   restart |-> FALSE, starved |-> FALSE, report |-> FALSE]]
    /\ users = ready
    /\ requests = [c \in Clients |-> [b \in BOOLEAN |-> 0]]
    /\ toComm = <<>> /\ toCore = <<>>
    /\ inbox = [a \in Peers |-> [q \in Peers |-> <<>>]]
    /\ touched = [p \in Peers |-> FALSE]
    /\ acts = 0

Next ==
    \/ Heartbeat
    \/ HostCoreReceive
    \/ HandleCoreMessage
    \/ \E p \in Peers :
           \/ UserPause(p)
           \/ UserReady(p)
           \/ UserSelect(p)
           \/ UpdateComplete(p)
           \/ Open(p)
           \/ CacheRunsOut(p)
           \/ CacheFills(p)
           \/ ProcessPause(p)
           \/ ProcessPausedForCache(p)
           \/ ProcessFileLoaded(p)
    \/ \E c \in Clients :
           \/ \E a \in Peers : ClientReceive(a, c)
           \/ \E b \in BOOLEAN : HandleStatusRequest(c, b)
           \/ HandleBroadcast(c)

\* The event loops of core and session serve every source that has something
\* (tokio::select! picks at random), heartbeats never stop, libp2p delivers
\* while connections hold, and mpv opens what it was given.  Users owe nothing,
\* and neither do caches.
Fairness ==
    /\ WF_playbackVars(Heartbeat)
    /\ WF_playbackVars(HostCoreReceive)
    /\ WF_playbackVars(HandleCoreMessage)
    /\ \A p \in Peers :
           /\ WF_playbackVars(Open(p))
           /\ WF_playbackVars(ProcessPause(p))
           /\ WF_playbackVars(ProcessPausedForCache(p))
           /\ WF_playbackVars(ProcessFileLoaded(p))
    /\ \A c \in Clients :
           /\ \A a \in Peers : WF_playbackVars(ClientReceive(a, c))
           /\ \A b \in BOOLEAN : WF_playbackVars(HandleStatusRequest(c, b))
           /\ WF_playbackVars(HandleBroadcast(c))

Spec == Init /\ [][Next]_playbackVars /\ Fairness

----------------------------------------------------------------------------
(* Properties *)

\* The status keeps track of mpv: as soon as mpv's reports of a change and of a
\* loaded file are handled, a loaded video plays or pauses as the status says,
\* whatever users, room messages, heartbeats and the cache did meanwhile.
StatusTracksMpv ==
    \A p \in Peers :
        (player[p].load = "Loaded" /\ ~mpv[p].changed /\ ~mpv[p].restart)
            => player[p].paused = mpv[p].pause

\* No echo: what mpv reports about a pause or a start that came from the room
\* is never announced to the room as the user's own, unless a video was loaded
\* in between: load_video forgets in the status that mpv was just started.
NoEcho ==
    \A p \in Peers :
        (mpv[p].changed /\ player[p].paused # mpv[p].pause) => touched[p]

\* When users leave their players alone, every peer that has a video ends up
\* paused or playing as the host is, however their actions crossed.
PausesAgree ==
    <>[](\A c \in Clients :
            (player[Host].file /\ player[c].file) => mpv[c].pause = mpv[Host].pause)

\* "Video synchronization between multiple clients of mpv": when users leave
\* their players alone, whoever has a video set has it loaded.
\* The code breaks this one: see README, What the modelling found.
VideosLoad ==
    <>[](\A p \in Peers : player[p].file => player[p].load = "Loaded")
=============================================================================
