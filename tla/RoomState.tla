----------------------------- MODULE RoomState -----------------------------
(***************************************************************************)
(* What the room watches: the playlist and the selected video, as the host *)
(* session keeps them (`playlist' and `select' of client/communicator/src/ *)
(* p2p/host.rs) and as the core of every peer does (PlaylistHandler,       *)
(* client/core/src/playlist/handler.rs).                                   *)
(*                                                                         *)
(* A playlist takes one way: a client asks the host, the host broadcasts.  *)
(* A selection takes another: whoever selects broadcasts it to all.  Every *)
(* core applies its own changes before it sends them.  Between the core    *)
(* and the session of the host there is a queue in either direction;       *)
(* between two peers the broadcasts of one author stay in order, requests  *)
(* do not.                                                                 *)
(*                                                                         *)
(* The module covers one session of the host.  The readiness that the      *)
(* host looks at again after every selection is in module Roster.          *)
(***************************************************************************)
EXTENDS Playlists, FiniteSets

CONSTANTS
    Host,         \* the peer that hosts the room
    Clients,      \* the other peers
    RoomLists,    \* the playlists that occur, sequences of videos
    SavedLists,   \* those the host may have saved for the room
    MaxRequests,  \* bound: requests of one client on their way
    MaxChanges,   \* bound: changes by users and players
    MaxJoins      \* bound: connections to the host

Peers == {Host} \cup Clients
Selection == Videos \cup {None}
Message ==
    [type : {"Playlist"}, playlist : RoomLists]
        \cup [type : {"Select"}, video : Selection]
Core == [playlist : RoomLists \cup {<<>>}, playing : Nat]

ASSUME RoomStateAssumption ==
    /\ Host \notin Clients
    /\ RoomLists \subseteq Seq(Videos) /\ SavedLists \subseteq RoomLists
    /\ MaxRequests \in Nat /\ MaxChanges \in Nat /\ MaxJoins \in Nat

VARIABLES
    core,        \* core[p]: the PlaylistHandler of p, playing = 0 for None
    session,     \* playlist and selection of the host session
    toComm,      \* from the host's core to its session
    toCore,      \* from the host session to its core
    connected,   \* the clients the host session is connected to
    subscribed,  \* those that receive and send broadcasts
    welcome,     \* welcome[c]: initial state on its way to client c
    requests,    \* requests[c]: playlists of client c on their way to the host
    inbox,       \* inbox[a][q]: broadcasts of a on their way to q
    missed,      \* history: clients that a playlist passed by
    changes,     \* counts against MaxChanges
    joins        \* counts against MaxJoins

network == <<connected, subscribed, welcome, requests, inbox, missed, joins>>
roomVars == <<core, session, toComm, toCore, network, changes>>

RoomTypeOK ==
    /\ core \in [Peers -> Core]
    /\ session \in [playlist : RoomLists, select : Selection]
    /\ toComm \in Seq(Message) /\ toCore \in Seq(Message)
    /\ subscribed \subseteq connected /\ connected \subseteq Clients
    /\ welcome \in [Clients -> SUBSET Message]
    /\ requests \in [Clients -> SUBSET RoomLists]
    /\ inbox \in [Peers -> [Peers -> Seq(Message)]]
    /\ missed \subseteq connected
    /\ changes \in 0..MaxChanges /\ joins \in 0..MaxJoins

----------------------------------------------------------------------------
(* PlaylistHandler *)

PlaylistMsg(pl) == [type |-> "Playlist", playlist |-> pl]
SelectMsg(v) == [type |-> "Select", video |-> v]

\* get_current_video: the index may lie past the end.
Current(k) ==
    IF k.playing \in DOMAIN k.playlist THEN k.playlist[k.playing] ELSE None

\* select_playing: a video that is not in the playlist changes nothing.
SelectPlaying(k, v) ==
    IF v \in Range(k.playlist) THEN [k EXCEPT !.playing = Position(k.playlist, v)]
    ELSE k

\* replace: the index follows the current video; if there is none it stays.
Replace(k, pl) ==
    [playlist |-> pl,
     playing |-> IF Current(k) = None THEN k.playing ELSE Position(pl, Current(k))]

AdvanceToNext(k) == [k EXCEPT !.playing = IF @ = 0 THEN 0 ELSE @ + 1]

\* PlaylistMsg::handle and SelectMsg::handle.
Handled(k, m) ==
    CASE m.type = "Playlist" -> Replace(k, m.playlist)
      [] m.type = "Select" /\ m.video = None -> [k EXCEPT !.playing = 0]
      [] m.type = "Select" /\ m.video # None -> SelectPlaying(k, m.video)

----------------------------------------------------------------------------
(* select_next *)

\* One round of the loop over the old playlist: pos videos of the new one came
\* before the selected one so far.  The loop stops at the selected video or with
\* the last video of the new playlist; kept says that the selected video was met
\* in the new one.
\* A slip first, to show what SelectFollows says: no step back from the end.
ScanRoundPastEnd(new, current, acc, v) ==
    CASE acc.done -> acc
      [] ~acc.done /\ new[acc.pos + 1] = current ->
             [acc EXCEPT !.done = TRUE, !.kept = TRUE]
      [] ~acc.done /\ new[acc.pos + 1] # current /\ v = current ->
             [acc EXCEPT !.done = TRUE]
      [] OTHER ->
             IF new[acc.pos + 1] # v THEN acc
             ELSE [acc EXCEPT !.pos = @ + 1, !.done = acc.pos + 1 = Len(new)]

ScanRound(new, current, acc, v) ==
    CASE acc.done -> acc
      [] ~acc.done /\ new[acc.pos + 1] = current ->
             [acc EXCEPT !.done = TRUE, !.kept = TRUE]
      [] ~acc.done /\ new[acc.pos + 1] # current /\ v = current ->
             [acc EXCEPT !.done = TRUE]
      [] OTHER ->
             IF new[acc.pos + 1] # v THEN acc
             ELSE IF acc.pos + 1 = Len(new) THEN [acc EXCEPT !.done = TRUE]
             ELSE [acc EXCEPT !.pos = @ + 1]

Scan(new, current, old) ==
    FoldLeft(LAMBDA acc, v : ScanRound(new, current, acc, v),
             [pos |-> 0, done |-> FALSE, kept |-> FALSE],
             IF current = None \/ new = <<>> THEN <<>> ELSE old)

\* The video to select in place of the current one, if any: only if the new
\* playlist is shorter and the loop did not meet the current one in it.
\* Without a selection it is the first video.
SelectNext(st, new) ==
    LET scan == Scan(new, st.select, st.playlist) IN
    IF Len(new) >= Len(st.playlist) \/ scan.kept THEN {}
    ELSE {new[i] : i \in {scan.pos + 1} \cap DOMAIN new}

\* What handle_new_playlist selects, as messages, and what the session keeps
\* after the playlist was taken over.
NextSelects(new) == SetToSeq({SelectMsg(v) : v \in SelectNext(session, new)})
NextSession(new) ==
    [playlist |-> new,
     select |-> IF SelectNext(session, new) = {} THEN session.select
                ELSE CHOOSE v \in SelectNext(session, new) : TRUE]

----------------------------------------------------------------------------
(* Broadcasts *)

\* Who hears the broadcasts of a.  Without anybody listening a broadcast is
\* dropped without an error (try_broadcast).
Audience(a) ==
    IF a = Host THEN subscribed
    ELSE IF a \in subscribed THEN (subscribed \cup {Host}) \ {a}
    ELSE {}

Broadcast(a, ms) ==
    inbox' = [inbox EXCEPT ![a] =
                 [q \in Peers |-> IF q \in Audience(a) THEN @[q] \o ms ELSE @[q]]]

\* A playlist passes by the clients that do not listen yet or that will get
\* the older one of their welcome after it.
HasPlaylist(ms) == \E m \in ms : m.type = "Playlist"
PassedBy == {c \in connected : c \notin subscribed \/ HasPlaylist(welcome[c])}

Change == changes < MaxChanges /\ changes' = changes + 1

----------------------------------------------------------------------------
(* The cores: users and players *)

\* PlaylistChange::handle: videos were added, removed or moved, or a saved
\* playlist was loaded in place of the room's.
SendPlaylist(p, pl) ==
    \/ /\ p = Host
       /\ toComm' = Append(toComm, PlaylistMsg(pl))
       /\ UNCHANGED requests
    \/ /\ p \in connected
       /\ pl \notin requests[p] /\ Cardinality(requests[p]) < MaxRequests
       /\ requests' = [requests EXCEPT ![p] = @ \cup {pl}]
       /\ UNCHANGED toComm

PlaylistChange(p, pl) ==
    /\ Change
    /\ pl # core[p].playlist
    /\ core' = [core EXCEPT ![p] = Replace(@, pl)]
    /\ SendPlaylist(p, pl)
    /\ UNCHANGED <<session, toCore, connected, subscribed, welcome, inbox, missed, joins>>

\* A core sends a selection: the host's to its session, a client's to all.
SendSelect(p, v) ==
    /\ \/ p = Host /\ toComm' = Append(toComm, SelectMsg(v)) /\ UNCHANGED inbox
       \/ p \in connected /\ Broadcast(p, <<SelectMsg(v)>>) /\ UNCHANGED toComm
    /\ UNCHANGED <<session, toCore, connected, subscribed, welcome, requests, missed, joins>>

\* VideoChange::handle.
VideoChange(p, v) ==
    /\ Change
    /\ v \in Range(core[p].playlist)
    /\ core' = [core EXCEPT ![p] = SelectPlaying(@, v)]
    /\ SendSelect(p, v)

\* PlayerFileEnd::handle, for the end of the current video.
FileEnd(p) ==
    /\ Change
    /\ Current(core[p]) # None
    /\ core' = [core EXCEPT ![p] = AdvanceToNext(@)]
    /\ SendSelect(p, Current(core'[p]))

\* The communicator hands a message to the core.
HostCoreReceive ==
    /\ toCore # <<>>
    /\ core' = [core EXCEPT ![Host] = Handled(@, Head(toCore))]
    /\ toCore' = Tail(toCore)
    /\ UNCHANGED <<session, toComm, network, changes>>

ClientReceive(a, c) ==
    /\ c \in Clients /\ inbox[a][c] # <<>>
    /\ core' = [core EXCEPT ![c] = Handled(@, Head(inbox[a][c]))]
    /\ inbox' = [inbox EXCEPT ![a][c] = Tail(@)]
    /\ UNCHANGED <<session, toComm, toCore, connected, subscribed, welcome,
                   requests, missed, joins, changes>>

ReceiveWelcome(c, m) ==
    /\ m \in welcome[c]
    /\ core' = [core EXCEPT ![c] = Handled(@, m)]
    /\ welcome' = [welcome EXCEPT ![c] = @ \ {m}]
    /\ UNCHANGED <<session, toComm, toCore, connected, subscribed, requests,
                   inbox, missed, joins, changes>>

----------------------------------------------------------------------------
(* The host session *)

\* PlaylistMsg::handle_core_message: selects first, and tells the core nothing
\* but the selection.
HandleCorePlaylist(pl) ==
    /\ toCore' = toCore \o NextSelects(pl)
    /\ Broadcast(Host, Append(NextSelects(pl), PlaylistMsg(pl)))
    /\ session' = NextSession(pl)
    /\ missed' = missed \cup PassedBy

\* SelectMsg::handle_core_message.
HandleCoreSelect(v) ==
    /\ session' = [session EXCEPT !.select = v]
    /\ Broadcast(Host, <<SelectMsg(v)>>)
    /\ UNCHANGED <<toCore, missed>>

HandleCoreMessage ==
    /\ toComm # <<>>
    /\ LET m == Head(toComm) IN
           \/ m.type = "Playlist" /\ HandleCorePlaylist(m.playlist)
           \/ m.type = "Select" /\ HandleCoreSelect(m.video)
    /\ toComm' = Tail(toComm)
    /\ UNCHANGED <<core, connected, subscribed, welcome, requests, joins, changes>>

\* A slip, to show what ClientsConverge says: the sender is left out.
HandlePlaylistRequestNoEcho(c, pl) ==
    /\ pl \in requests[c]
    /\ requests' = [requests EXCEPT ![c] = @ \ {pl}]
    /\ toCore' = toCore \o <<PlaylistMsg(pl)>> \o NextSelects(pl)
    /\ inbox' = [inbox EXCEPT ![Host] =
           [q \in Peers |-> IF q \in subscribed \ {c}
                            THEN @[q] \o <<PlaylistMsg(pl)>> \o NextSelects(pl)
                            ELSE @[q]]]
    /\ session' = NextSession(pl)
    /\ missed' = missed \cup PassedBy
    /\ UNCHANGED <<core, toComm, connected, subscribed, welcome, joins, changes>>

\* PlaylistMsg::handle_swarm_request: the core and the room, the sender
\* included, get the playlist; then the selection follows.
HandlePlaylistRequest(c, pl) ==
    /\ pl \in requests[c]
    /\ requests' = [requests EXCEPT ![c] = @ \ {pl}]
    /\ toCore' = toCore \o <<PlaylistMsg(pl)>> \o NextSelects(pl)
    /\ Broadcast(Host, <<PlaylistMsg(pl)>> \o NextSelects(pl))
    /\ session' = NextSession(pl)
    /\ missed' = missed \cup PassedBy
    /\ UNCHANGED <<core, toComm, connected, subscribed, welcome, joins, changes>>

\* SelectMsg::handle_swarm_broadcast; the only broadcasts of clients here.
HandleBroadcast(c) ==
    /\ inbox[c][Host] # <<>>
    /\ LET m == Head(inbox[c][Host]) IN
           /\ session' = [session EXCEPT !.select = m.video]
           /\ toCore' = Append(toCore, m)
    /\ inbox' = [inbox EXCEPT ![c][Host] = Tail(@)]
    /\ UNCHANGED <<core, toComm, connected, subscribed, welcome, requests,
                   missed, joins, changes>>

\* ConnectionEstablished and send_init_status: two requests that may overtake
\* each other.
ConnectionEstablished(c) ==
    /\ c \in Clients \ connected
    /\ joins < MaxJoins /\ joins' = joins + 1
    /\ connected' = connected \cup {c}
    /\ welcome' = [welcome EXCEPT ![c] =
           {PlaylistMsg(session.playlist), SelectMsg(session.select)}]
    /\ UNCHANGED <<core, session, toComm, toCore, subscribed, requests, inbox,
                   missed, changes>>

----------------------------------------------------------------------------
(* The network *)

\* Client and host learn of each other's subscription to the room's topic.
Subscribe(c) ==
    /\ c \in connected \ subscribed
    /\ subscribed' = subscribed \cup {c}
    /\ UNCHANGED <<core, session, toComm, toCore, connected, welcome, requests,
                   inbox, missed, joins, changes>>

\* A request times out or goes down with its connection.
LoseRequest(c, pl) ==
    /\ pl \in requests[c]
    /\ requests' = [requests EXCEPT ![c] = @ \ {pl}]
    /\ missed' = missed \cup {c}
    /\ UNCHANGED <<core, session, toComm, toCore, connected, subscribed, welcome,
                   inbox, joins, changes>>

\* A slip, to show what RoomTypeOK says: the subscription outlives the connection.
ConnectionClosedStillSubscribed(c) ==
    /\ c \in connected
    /\ connected' = connected \ {c}
    /\ missed' = missed \ {c}
    /\ welcome' = [welcome EXCEPT ![c] = {}]
    /\ requests' = [requests EXCEPT ![c] = {}]
    /\ inbox' = [a \in Peers |-> [q \in Peers |->
                    IF a = c \/ q = c THEN <<>> ELSE inbox[a][q]]]
    /\ UNCHANGED <<core, session, toComm, toCore, subscribed, joins, changes>>

\* The last connection to a client closes, with all that was on its way.
ConnectionClosed(c) ==
    /\ c \in connected
    /\ connected' = connected \ {c}
    /\ subscribed' = subscribed \ {c}
    /\ missed' = missed \ {c}
    /\ welcome' = [welcome EXCEPT ![c] = {}]
    /\ requests' = [requests EXCEPT ![c] = {}]
    /\ inbox' = [a \in Peers |-> [q \in Peers |->
                    IF a = c \/ q = c THEN <<>> ELSE inbox[a][q]]]
    /\ UNCHANGED <<core, session, toComm, toCore, joins, changes>>

----------------------------------------------------------------------------

\* A fresh session of the host: it starts from the saved playlist.  Its core
\* hears of that playlist and of the saved selection first; the first message
\* is handled together with the news that the connection is up.
RoomInit ==
    /\ \E pl \in SavedLists : \E v \in Range(pl) \cup {None} :
           /\ core = [p \in Peers |->
                  [playlist |-> IF p = Host THEN pl ELSE <<>>, playing |-> 0]]
           /\ session = [playlist |-> pl, select |-> v]
           /\ toCore = <<SelectMsg(v)>>
    /\ toComm = <<>>
    /\ connected = {} /\ subscribed = {} /\ missed = {}
    /\ welcome = [c \in Clients |-> {}]
    /\ requests = [c \in Clients |-> {}]
    /\ inbox = [a \in Peers |-> [q \in Peers |-> <<>>]]
    /\ changes = 0 /\ joins = 0

RoomNext ==
    \/ HostCoreReceive
    \/ HandleCoreMessage
    \/ \E p \in Peers :
           \/ \E pl \in RoomLists : PlaylistChange(p, pl)
           \/ \E v \in Videos : VideoChange(p, v)
           \/ FileEnd(p)
    \/ \E c \in Clients :
           \/ \E a \in Peers : ClientReceive(a, c)
           \/ \E m \in Message : ReceiveWelcome(c, m)
           \/ HandleBroadcast(c)
           \/ ConnectionEstablished(c)
           \/ Subscribe(c)
           \/ ConnectionClosed(c)
           \/ \E pl \in RoomLists :
                  \/ HandlePlaylistRequest(c, pl)
                  \/ LoseRequest(c, pl)

RoomSpec == RoomInit /\ [][RoomNext]_roomVars

----------------------------------------------------------------------------
(* Properties *)

\* Nothing that concerns the playlist is on its way between the host and c.
Quiet(c) ==
    /\ ~HasPlaylist(welcome[c])
    /\ requests[c] = {}
    /\ ~HasPlaylist(Range(inbox[Host][c]))

\* Whoever edits when, a client that no playlist passed by ends up with the
\* host session's playlist as soon as nothing is on its way between the two.
ClientsConverge ==
    \A c \in connected \ missed :
        Quiet(c) => core[c].playlist = session.playlist

\* The same for the host's own core: a room shows one playlist.
\* The code breaks this one: see README, What the modelling found.
HostConverges ==
    (toComm = <<>> /\ toCore = <<>>) => core[Host].playlist = session.playlist

\* Videos are removed and nothing else: new is what remains of old.
Remains(new, old) ==
    new # old /\ IsInjective(old)
        /\ new = Kept(old, Range(new))

\* Where the selection goes when videos are removed, the selected one among
\* them: to the next one left, or to the last.
Successor(new, old, v) ==
    LET later == {w \in Range(new) : Position(old, w) > Position(old, v)} IN
    IF v \in Range(new) THEN v
    ELSE IF later = {} THEN Last(new)
    ELSE CHOOSE w \in later : \A u \in later : Position(old, w) <= Position(old, u)

\* When a playlist reaches the host that only lacks some of the videos, the
\* host goes on with the selected video or, if that is gone, with its
\* successor, wherever in the list the gaps are.
SelectFollows ==
    [][ (Remains(session'.playlist, session.playlist)
            /\ session'.playlist # <<>>
            /\ session.select \in Range(session.playlist))
        => session'.select =
               Successor(session'.playlist, session.playlist, session.select)
      ]_roomVars

\* "No need to select if current video is still in playlist": whatever a user
\* did to the playlist, the host does not leave a video that is still in it.
\* The code breaks this one: see README, What the modelling found.
SelectKept ==
    [][ (session'.playlist # session.playlist
            /\ session.select \in Range(session'.playlist))
        => session'.select = session.select ]_roomVars
=============================================================================
