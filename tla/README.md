# niketsu in TLA+

niketsu lets several people watch a video together: each runs an mpv player, and
a client process beside it sends what its user does to the others and applies what
the others did. There is no central server for that. The peers form a session of
their own (libp2p: request/response streams and gossipsub broadcasts), in which the
peer that was in the room first is the *host*; a small relay server only tells
newcomers who that is.

This directory holds TLA+ models of that protocol and of the components behind it,
the TLC configurations that check them on small instances, and proofs that TLAPS
checks for every value of the constants. Paths below are relative to the
repository; `client/core` and the like name its crates.

## Inventory

| Component | Keeps | Does | What makes it correct |
|---|---|---|---|
| Relay (`relay/src/relay.rs`) | `rooms`: room to host and password hash; `hosts`: peer to room | answers or creates a room on an init request, forgets it when a connection of its host closes | the two maps agree; a room has one host, and it is connected |
| Connection life cycle (`client/communicator/src/lib.rs`, `p2p/mod.rs`) | `Connection`: Connecting, Connected, Disconnected | dials the relay, identifies, asks for the room, becomes host or dials the host; 5 s timeout, retries every 2 s | everybody who wants to ends up in one session per room |
| Host session (`p2p/host.rs`) | `users`, `status_list`, `playlist`, `select` | lists users, forces free names, starts when all are ready, distributes playlists, moves the selection | the list is exact, names are unique, Start only when all are ready, one playlist and one selection in the room |
| Client session (`p2p/client.rs`) | `host`, `relay`, `is_seeking`, `delay` | statuses and playlists go to the host as requests, the rest to all as broadcasts; forwards broadcasts to the core | order is kept; a video status counts only if it is the host's |
| File sharing (`p2p/file_share.rs`, `client/core/src/video_provider.rs`, `video_server.rs`) | provider and consumer, open requests | announces a file, asks for one, sends chunks | a chunk answers the request it was asked for; a request ends |
| Core (`client/core/src`) | playlist, player, readiness, database, server | one event loop over UI, player, room, database, file server and a 500 ms heartbeat | what the room does is applied and not echoed; what the user does is announced |
| mpv wrapper (`client/player/mpv`) | `MpvStatus`, what it believes of mpv | commands to mpv, events from mpv | status and mpv agree once mpv has reported |
| Video server (`client/player/video_server`) | chunk cache, one wake-up | serves a shared file over HTTP to mpv | every range is served or fails within the retries |
| File database (`client/core/src/file_database`) | the file store, an update under way | crawls directories | one update at a time, a result that is complete |
| Playlist (`client/core/src/playlist`) | the list and the playing index | edits, selection | the index follows the video |
| UIs (`client/ui/ratatui`, `client/ui/iced`, `client/core/src/ui.rs`) | shared observed values | render; send UI events to the core | no change is lost between UI and core |

How they interact: the UI and mpv send *events* to the core, which handles one at a
time, changes its state, commands mpv and sends *messages* to its communicator. In a
client they leave as requests to the host or as broadcasts. In the host they enter a
queue to the host session, which handles one queue entry or one network event at a
time and answers through a second queue. libp2p's gossip keeps the order of one
author's broadcasts; requests use a stream each and may overtake one another.

What is hard: the core applies its own change at once and announces it afterwards,
so two users who act at the same time see their changes in different orders; the
state a newcomer gets crosses what is broadcast meanwhile; mpv reports a change of
its properties later and to the one who caused it as well; connections of a
reconnecting client (same key pair, same PeerId) overlap at the relay; requests and
answers are lost without a retry. `PROJECT.json` lists these hazards line by line,
with the property that watches over each, or the reason why none does.

## Modules

| Module | Models | Checked by | Proofs |
|---|---|---|---|
| `RoomLease` | what the registry promises: a room is leased by one present peer | refinement target | |
| `Relay` | `relay/src/relay.rs` | `MCRelay` | `RelayProofs` |
| `Roster` | users, names and readiness in `host.rs` and the cores | `MCRoster` | `RosterProofs` |
| `RoomState` | playlist and selection in `host.rs`, `client.rs` and the cores | `MCRoomState` | `PlaylistProofs` |
| `Playback` | pause, start, load, heartbeat in core, mpv wrapper and sessions | `MCPlayback` | `PlaybackProofs` |
| `Session` | the life cycle of connections and sessions, with an instance of `Relay` | `MCSession` | `SessionProofs` |
| `Seeking` | positions, seeks, speed and catching up, in cores, sessions and mpv wrapper | `MCSeeking` | `SeekingProofs` |
| `Share` | offering, finding and asking for a file, in cores and handlers | `MCShare` | `FileProofs` |
| `Stream` | the local video server: chunk cache, ranges, waiting and retries | `MCStream` | `FileProofs` |
| `Database` | the file database: updates, crawlers, progress | `MCDatabase` | `FileProofs` |
| `Desk` | what interface and core share: cells, notification, events, messages | `MCDesk` | `DeskProofs` |
| `Playlists` | the operations on a playlist | by `RoomState` and the next ones | `PlaylistProofs` |
| `Cells` | the cells of playlist and files that an interface shares with its core | by the next ones | `PlaylistProofs` |
| `Terminal` | the terminal user interface, over `Cells` | `MCScreens` | `PlaylistProofs` |
| `Window` | the graphical user interface, over `Cells` | `MCScreens` | `PlaylistProofs` |
| `Screens` | composes the two: the program runs one of them | `MCScreens` | `PlaylistProofs` |

### Relay and RoomLease

`rooms` and `hosts` are the two maps; `links` are the connections the relay's swarm
has open, each with the room it was opened for; `answers` what was sent on it.
`Connect` is a client that dials the relay, `HandleInitRequest` the whole of
`handle_init_request` (`AnswerRoom`, `CreateRoom`), `ConnectionClosed` calls
`CloseNode`. A password is a model value; `HashOutcomes` lets the hashing fail, in
which case the stored string verifies against nothing (`PasswordHash`). An init
request may be handled again on a connection, as identify makes clients repeat it.
`OutgoingConnectionError` (lines 158-163) is left out: the relay never dials.

A client keeps one key pair for the life of the process (`p2p/mod.rs:36`), so a
client that reconnects or changes rooms can have two connections under one PeerId.
Peers in `Overlapping` do; the others (`Disciplined`) wait until the relay saw the
old connection close. The registry's guarantees hold for the disciplined peers
whatever the overlapping ones do; what an overlapping one leaves behind is shown in
`Session`. `RoomLease` is the abstract view, `ImplementsLease` the refinement
with `owner` read off `rooms` and `present` off `links`.

### Roster

`core[p]` is the name and readiness in the peer's core, `requests` its statuses on
their way to the host, `users` and `list` the host session's map and ordered set
(ordered by name alone: `client/core/src/user.rs`), `renames` the forced names on
their way back, `started` whether the last event made the host broadcast Start.
`HandleStatus` has the three cases of `handle_status`; `HandleHostStatus` is the
host's own status, which is not checked for duplicates; `ConnectionEstablished` and
`ConnectionClosed` add and remove users; `LoseStatus` and `LoseRename` are requests
that fail because their connection closed while another one stays.

The code is right only as long as peers keep a *discipline* nobody enforces: no
second status while the first or a forced name is under way, no name that is in use.
`disturbed` records who broke it, or whose request was lost; the properties hold for
the undisturbed peers (Agreement) or while nobody is disturbed (RosterExact,
StartOnlyWhenReady). Without it names are not unique (see What the modelling found).

### RoomState

`core[p]` is the `PlaylistHandler` of every peer, `session` the host session's
`playlist` and `select`, `toComm` and `toCore` the two queues between the host's core
and session, `requests`, `inbox` and `welcome` the network. UI events and the end of
a file change a core and announce it (`PlaylistChange`, `VideoChange`, `FileEnd`);
`SelectNext` is the loop of `select_next`; `HandlePlaylistRequest` contains the echo
to the room and to the host's core, and the selection that may follow;
`ConnectionEstablished` sends the welcome (`send_init_status`) and `Subscribe` is the
gossip subscription, which comes later. A broadcast reaches those who are subscribed
(`Audience`); `try_broadcast` treats "no peers subscribed" as success. `missed` is the
set of clients for whom a playlist was broadcast after the connection and before the
subscription, or crossed the welcome. Names begin with `Room`, or are turned around,
where Screens or its parts have the same, since `PlaylistProofs` extends both.

### Playback

For one video and peers that are all in the room: `ready[p]`, the wrapper's status
`player[p]`, mpv itself with what it has not reported yet (`mpv[p]`), the host's
`users`, the same queues and inboxes, and the requests with statuses. mpv is not part
of the repository; it is modelled from how `client/player/mpv` uses it: setting the
pause property takes effect at once and is reported once per change, with the value
the property has when the report is made; a file opens in the background and ends in
a playback-restart report; an empty cache raises paused-for-cache. `ProcessPause`,
`ProcessPausedForCache` and `ProcessFileLoaded` combine the processing in
`event.rs` with the core's handler of the resulting event, which follow each other in
one turn of the loop. `FollowHost` is the handler of the host's heartbeat.

Left out: positions, seeks, speed and `is_seeking` (`Seeking`), more than one video,
joins and leaves (`Roster`, `RoomState`), the heartbeats of clients (the other
sessions ignore them). One heartbeat is under way at
a time: it is sent every 500 ms and one that follows repeats it.

### Session

`Registry` is an instance of `Relay` on the same four variables: the steps of the
relay and of its connections are Relay's actions, and Session adds what the client
does before and after. `want[p]` is the room of the user's endpoint, `session[p]`
stands for the `Connection` of the communicator and the handler behind it:
Disconnected; Connecting (`Connecting::new`, `identify_relay`); Host; Dialing, a
client handler whose `dial` to the host has not come through; Client; Lost, a client
whose host is gone and who has not been told. `BecomeHost` and `LearnHost` are the
two ends of `establish_conection`, `MeetHost`, `DialFails`, `LoseHost` and `LoseRelay`
the handlers of libp2p's connection events, which end the handler's loop when host or
relay are gone (`core_receiver.close()`). `Ended` drops a session: for the client it
is gone at once, its own clients are Lost, and the relay sees the connection close
later (`CloseDropped`). That covers an attempt that timed out or was replaced by
`connect`: its task is detached, not aborted, and its request may still be handled.
A host is found by PeerId alone, through its reservation at the relay (`Reachable`).

The client waits two seconds after a failure, none after a change of rooms, and never
for the relay. `Overlapping` tells the two worlds apart: outside it, a peer dials only
after the relay saw its last connection closed. Nothing in the code enforces that, and
`session_split` shows what happens otherwise.

`ChangeRoom` is every `connect` of the core, also for the room the user is in: a room
entered again, auto-connect at the start, another relay in the settings.

Left out: the password (one for all; `Relay` has wrong ones), a repeated init request
on one connection (`Relay`), an attempt that times out although its connection is
open (the same as one that breaks, `BreakForClient`), direct connections beside the
relayed one, and that a host becomes reachable some time after it was registered.

### Seeking

One video on all peers; `mpv[p]` is the player with the wrapper's status, `hostSpeed[p]`
what `MediaPlayerWrapper` keeps as the speed of the host, `session[c]` the client
session's `is_seeking`, last position and delay. Positions are counted in a frame that
moves with the host's player, so that only differences show: `Tick`, the interval of
the heartbeats, moves the peers that catch up by one, and lets a position in a message
fall back by one. `CoreReceive` has the handlers of Seek, PlaybackSpeed and VideoStatus
(`Reconciled`, `PushedBack`, `RoomSpeed` are `reconcile` and `set_speed`),
`SessionReceive` what a client's session passes on, `SeekEvent` and `SpeedEvent` what
mpv reports and the core announces. The room pauses as one here; `Playback` has how.
Any user may change the speed. `lead`, a history variable, tells when the room's speed is
the host's user's choice: from a change of the host's user that no client's change
crosses until a client's user makes one. A client whose own user did drifts away from the
host without end; `MaxAdrift` bounds for how many heartbeats that is followed.

### Share and Stream

`Share` is the way of a file between two peers. `core[p]` is what the core plays,
provides and serves, `role[p]` the handler's `file_share` (provider, consumer or none)
and `toShare`, `toCore` the queues between the two: every message of either side is
handled some time later. `records` are kademlia's provider records, `published` those
there ever were, as a query may find an old one; `exchange` are the requests whose
sender waits. `SelectVideo`, `FileShareChange`, `AskForFile` are the user's, `FileReady`
and `ChunkRead` the opened file's, `ShareReceive` has one disjunct per message of the
core, and `AcceptRequest`, `HandleResponse`, `OutboundFailure` are the handler's
request-response events. How selections get to all peers is `RoomState`'s; here
`SelectArrives` is one of another peer, before which the handler drops its role, and
`SelectPasses` one that reaches the core without that: the welcome's and the one a host
makes in `select_next`. `FileEnd` is the end of the playlist's current video, which the
core selects the next one after; `OtherFileEnd` that of another video, after which it only
stops its server. `ended` is history: a file ended since the provider was announced.
Left out: that a peer which reconnects gets a new handler, without a role, while its core
goes on providing.

`Stream` is the video server that plays a shared file to mpv. A connection (`conn[c]`)
looks into the cache (`Miss`), waits (`Park`) or is woken, times out and asks again, or
goes on to the next chunk (`ObtainChunk`); between the look and the wait others take
their steps. `Answer` is the provider with its clamp at the end of the file,
`InsertChunk`, `Evict` and `StopServer` the server's handle. Ranges are in u64 of
`Width` bits. Its own names begin with `Stream` where Share has the same, since `FileProofs`
extends both, and those of `Database` with `Database`.

### Database

One crawler for each media path and directory below it, with the entries it has still
to read and the crawlers it has to join; `update`, `progress`, `stopped` and `store` are
the fields of `FileDatabase`, `shown` what the interface was told. `UserStarts`,
`ChangePaths` and `StopUpdate` are the operations, `TellProgress`, `TellStopped` and
`TellComplete` the outcomes of `FileDatabase::event` with the core's handlers. Entries
fail (`EntryFails`) and directories cannot be read (`Unreadable`).

### Desk

Interface and core run on threads of their own and share `Observed` cells without a
lock. What either does is a program of steps (`prog`): a set is Store, Mark, Wake; an
`on_change` is Look, and Clear and Load if the cell was marked. Any step of the other
side may come between two. `permit` is tokio's `Notify`, which keeps one notification.
The terminal makes a round over all cells per notification, the graphical interface
turns it into a message and looks at some of them (`Round`). `events` are the UI events;
the core handles one at a time, and also what comes from room, player and log.

### Playlists, Cells, Terminal, Window and Screens

`Playlists` has the operations of `client/core/src/playlist/mod.rs` on sequences
(`RoomState` uses them too), `Cells` the playlist's cell that both interfaces edit and the
file store they search; `Screens` runs one interface over them. In `Terminal` a key
means what mode, overlay and focus (`app`) make it mean; the playlist widget's state
(`list`) is the list it shows, cursor, extent and length, and a clipboard. The edits
that panic when a position is beyond the end do so in the model (`Panics`). In `Window`
events turn into messages with the state the window was drawn from (`Publish`), and a
batch of messages is handled before further events (`Handle`), ModelChanged first.
`Redraw` is what drawing does to the terminal's state: ratatui's list takes a cursor that
is beyond the list it draws back to the last entry, or away if there is none. `Window` is
a release build: where the code subtracts 1 from the length of an empty list it wraps, and
the result is not used (see What the modelling found).

Left out: what is drawn; the texts of forms but for whether the port is a number; the
cursors of result and recent lists (any slice may be chosen); what goes to the core and
changes no list (`Desk` has the events).

## Runs

| Run | Shows | Bounds |
|---|---|---|
| `relay` | types, HostsOwnRoom, RoomsLive, SoleHost, refinement of RoomLease | 3 peers (1 overlapping), 2 rooms, 2 passwords, 2 connections per peer |
| `roster` | types, RosterExact, StartOnlyWhenReady, Agreement | host and 2 clients, 3 names, 1 status per peer in flight, 1 disturbed peer |
| `room` | types, ClientsConverge, SelectFollows | host and 2 clients, 3 playlists of 3 videos, 2 changes, 2 joins, 1 request under way |
| `playback` | types, StatusTracksMpv, NoEcho, PausesAgree (liveness) | host and 1 client, 2 acts |
| `session` | types, HostRegistered, Together (liveness) | 3 peers, 1 room, 5 moves of users, 2 broken connections, no overlap |
| `session_split` (violated) | Together fails when connections overlap | 2 peers, 1 room, 2 connections each, 2 moves, 1 fault |
| `seeking` | types, NoSeekEcho, HostSpeedKept, Follows (liveness) | host and 1 client, 3 places, 2 speeds, lag of 1, 2 acts, 5 heartbeats adrift |
| `share` | types, AdvertisedIsServed, SharedIsAdvertised, FilesAnswered (liveness) | 2 peers, 2 videos, 5 acts, 3 requests, 1 fault |
| `stream` | types, ChunksInFile, LengthKept, Ends (liveness) | 2 connections, file of 4 in chunks of 2, 2 cached, 1 retry, 2 opens |
| `database` | types, UpdatesArrive (liveness) | 3 directories (1 unreadable), 2 nested paths, 2 names, 2 operations, 1 failure |
| `desk` | types, Shown, InStep, MessagesKept | 2 names, rooms, relays, videos; buffer of 2; 3 acts |
| `screens` | types with the modes' shape, SelectionFits, DropLands | 3 videos, 2 playlists of the room, 2 stores, 2 queries, 2 acts, batches of 2 |

What the properties of the later runs say, beyond the module's types:

* NoSeekEcho: no seek event of mpv is announced that has no seek of a user to account for
  it. Follows: a client ends near the host while the room plays at a speed of the host's
  user. HostSpeedKept: at such a speed and with no change of it under way, a client keeps
  the host's true speed.
* AdvertisedIsServed: an offer can be found, and the core provides what the handler
  offers once neither has unread messages. SharedIsAdvertised: what a user shares is
  offered until a file ends in that user's player. FilesAnswered: an accepted file request is answered or fails.
* ChunksInFile: the cache never holds bytes beyond the file, nor empty chunks, whatever
  was asked, cut and entered again. LengthKept: a range is as long as its header said.
  Ends: no connection waits for ever.
* UpdatesArrive: every update ends, is shown, and, if nothing failed, has a file for
  every name that can be reached.
* Shown: with nothing left to do, the interface shows what the cells hold, wherever a
  set fell into a round. InStep: cells and core agree, and the connection is the one
  configured. MessagesKept: the wrapped buffer holds the last messages in order.
* SelectionFits: a selection made with arrows and x is in the list, whatever was pasted,
  cut or taken over, as long as no jump carried it and the list did not get shorter
  (`loose`); the terminal panics in those cases only. DropLands: a dragged video lands
  in the gap that was shown, and nothing else moves. The terminal's part of TypeOK says
  that mode, overlay and focus are never in a shape in which every key is swallowed.

Why the bounds are enough for the questions asked. Relay: the interesting conflicts
are two peers over one room with a third in the way, and two connections of one peer
over two rooms; the proofs remove the bounds. Roster: the conflicts are between two
users over one name while a third name is free to be forced; the proofs remove the
bounds here too. RoomState: a playlist of a client crosses one of the host or of the
other client, with a join before, between or after; every divergence we met while
writing the model needed two changes. For select_next, three videos give every
combination of removals before, at and behind the selected one. Playback: two acts
are the smallest number that can cross, and cover user against user, user against
cache and load against pause; three acts exceed what a run can enumerate with
liveness. Session: three peers are a host, one who succeeds it and one who is named
the wrong one of the two; three moves bring everybody in, the other two and two
faults end sessions and attempts at any point. With no overlap the rooms do not touch
each other, so that one is enough (`RoomsLive`, proved for any number of them).

Seeking: two acts are a seek that crosses a seek, or a change of speed during one; places
four apart are beyond MaxDelay, so that all four cases of `reconcile` occur, and the lag
lets every message be overtaken by a heartbeat; adrift for five heartbeats a client is
further from the host than MaxDelay and calls the room back. Share: one video both have and one only
one has; five acts let one peer share, the other select, ask, and the first go on to
the other file while the request is answered; three requests are a file request and two
chunks, or two file requests of which one is stale. Stream: a suffix begins inside the
first chunk, so that chunks are cut and overlap; two connections and a cache of two are
enough to evict what the other waits for. Database: nested paths give two crawlers over
one directory, the unreadable one an error beside siblings, and equal names a choice.
Desk: three acts wrap the buffer and put a change of the user, one of the room and a
third into one round. Screens: three videos are the least list in which cursor, extent
and paste differ; acts count changes of the list, which is what costs, and keys that
change none are not bounded. A batch holds messages of one widget, and events go to the
widget on top.

Deadlock is checked in `Relay`, `Roster` and `Playback`; the others come to rest when
their bounds on acts, changes, moves and faults are used up, or when the program ends. Symmetry is used in safety
runs over interchangeable peers, names, rooms and passwords only. `missed`,
`disturbed`, `started`, `touched`, `said`, `crossed`, `loose`, `scanned`, `faulty`, the
`ended` of Share and the `user` and `lead` of Seeking are history: no guard reads them but
the bounds on `disturbed` and, by `adrift`, on `lead`.

Fairness is assumed where a run checks liveness. In `Playback`: weak fairness of
every handler of core and session (their loops are `tokio::select!` over all
sources, which picks at random among those that are ready), of the heartbeat (an
interval timer of 500 ms), of the delivery of what is under way (libp2p, while the
connection holds) and of mpv opening and reporting. Users and caches owe nothing;
PausesAgree therefore speaks of the time after they stopped acting. In `Session`:
weak fairness of dialling (the communicator retries every 2 s without end), of the
relay's and the clients' handlers (event loops again), of timeouts (5 s) and of the
news that a connection is closed (libp2p reports it to either end, after a failed
ping or an idle timeout of ten seconds at the latest). Users who move and
connections that break owe nothing; Together speaks of the time after.

In `Seeking` the same holds of handlers, heartbeats and delivery, and time passes
(`Tick`); pings need not happen. In `Share` both tasks take what is queued, files open
and an open connection delivers; kademlia owes nothing. In `Stream` every task is polled
and timers run out, but no provider need answer. In `Database` the runtime runs every
crawler and the core's loop polls the database; that a finished task is polled in time
needs rounds of the loop shorter than the 100 ms after which `event` prefers progress.
`Desk` and `Screens` state safety only.

Each property has a mutant: a variant of one action or helper, defined in front of it
and marked as a slip, under which the property fails.

## What the modelling found

By `session_split`: the relay forgets the room of a host that reconnected, when the
host's old connection is closed at last, and lets the next user open a second session.

The following were seen with TLC while the models were written; the properties that
show them, where there are any, are in the modules and marked as broken by the code.

* Relay and Session (`RightRoom`, with two rooms and overlapping connections): the relay
  keeps the room a host left, if the host's connections overlapped while it changed
  rooms, and sends newcomers to that host, whatever room it hosts now.
* Roster (`UniqueNames` without the discipline): names are kept apart only when a user
  joins (`host.rs:578`); the host itself and established users are not checked.
* RoomState (`SelectKept`): `select_next` leaves a video that is still in the playlist
  if the new playlist is ordered differently and shorter (the comment at `host.rs:625`
  says otherwise). `HostConverges`: the host's own change waits in its queue while the
  session handles a client's, and host and room keep different playlists.
* Playback (`VideosLoad`): a heartbeat sent before a selection arrived unloads the
  selected video (`client/core/src/communicator.rs:153`), and none loads it again.
* Seeking (HostSpeedKept and Follows without `lead`): when a client's user changes the
  speed, the room takes it over, but the client itself keeps the old one as the speed of
  the host (`client/core/src/player/mod.rs:158-167`, `wrapper.rs:25`) and slows back to
  it with the next heartbeats. It then falls behind, and as soon as it is MAXIMUM_DELAY
  behind it calls the whole room back to its place (`wrapper.rs:60-62`), over and over.
  Those calls are announced as seeks of its user, who made none.
* Stream (LengthKept with `ClosedRanges`): a range that ends inside a chunk is answered
  with the whole chunk, more than its header says. A suffix longer than the file
  underflows (`video_server/src/lib.rs:294`). `ChunkSeen`: a chunk inserted between the
  look into the cache and the wait wakes nobody (118-124), so that after the last retry
  the player gets an error although the chunk is there.
* Share (SharedIsAdvertised without `ended`): when a file ends in the player of a peer that
  shares, the core sends a Select (`client/core/src/player/mod.rs:202-209`), the handler
  drops its role and its record (`client.rs:333`, `host.rs:302`), and nobody can find the
  file any more; the core and the interface still say that it is shared, until the user
  turns sharing off and on again or the room selects another video.
* Share: after a lost file request the consumer keeps `is_requesting` and asks no other
  provider until it is made anew (`file_share.rs:167`); an error that answers an old
  request ends a provider as well (318).
* Terminal (the cases `loose` stands for): the edits panic when cursor or extent are
  beyond the end of the list (`playlist/mod.rs:225-238`): x, then End or PageDown, then
  d (jumps leave the extent, `nav.rs:54-68`); d twice at the end before the change was
  taken over; a list others made shorter; an empty one after Enter and Down; a paste of
  videos that are in the list. Enter in the settings panics when the port is no number.
* Window: SearchFinished takes a search of a later Input in the same batch and the
  results of the last query never come (`file_search/message.rs:147`); a selected video
  keeps its old index when the list is replaced (`playlist/mod.rs:528`); the widget's
  copy overwrites what others changed meanwhile, a removed video included. In a build that
  checks for overflow, Delete while the only video is held down, and the arrow up in a
  search without results, panic (`playlist/mod.rs:85`, `file_search/mod.rs:206`).

Seen while reading, without a model of it: a player that pauses for its cache sends its
unchanged readiness along, and the host answers every status that leaves all users ready
with a Start for everybody (`client/core/src/player/mod.rs:101`, `host.rs:592`); a video
loaded just after mpv was started can make the wrapper report that start as the user's
own (`client/player/mpv/src/lib.rs:426`).

## Proofs

TLAPS checks the following for all values of the constants that satisfy the named
assumptions of the modules (`RelayAssumption`, `RosterAssumption`, `RoomStateAssumption`,
`PlaybackAssumption`, `SessionAssumption`, `SeekingAssumption`, `ShareAssumption`,
`StreamAssumption`, `DatabaseAssumption`, `DeskAssumption`, `PlaylistsAssumption`,
`CellsAssumption`, `TerminalAssumption`, `WindowAssumption`): the markers are not values,
the host is not a client, bounds are natural numbers, buffers and chunks are not empty,
the file is shorter than u64 can count, there are finitely many directories, playlists
are sequences of videos, and some query, the empty one, finds every file. Each module
states an inductive invariant `IInv` (`FileProofs` three, `ShareInv`, `StreamInv` and
`DatabaseInv`, and `PlaylistProofs` two, `RoomInv` and `ScreensInv`, of systems that share
no variable), proves that the initial states have it and that every action keeps it, one lemma for each, and takes the
properties from it. TLC checked each invariant on the instance of the run first.

* `RelayProofs`: `TypeCorrect`, `RegisteredHostsOwnTheirRoom`,
  `RegisteredRoomsAreLive`, `HostsAreExclusive`. The invariant adds
  to the four properties that a disciplined peer has at most one connection
  (`OneLink`) and that answers exist on open connections only
  (`AnswersOnOpenLinks`). Without `OneLink`, close_node could remove the room of a
  connection that is still open; without HostsOwnRoom, somebody else's.
  `RelayImplementsLease` is the refinement, action by action: opening the first
  connection enters, creating a room claims, closing the last connection leaves, all
  else stutters.
* `RosterProofs`: `TypeCorrect`, `ListIsExact`, `StartIsEarned`, `PeersAgree`. `IInv`
  says of an undisturbed peer what may be under way (`InTouch`), of which Agreement is
  the case that nothing is; and, while nobody is disturbed, that the list is exact,
  names are unique and no status in flight that the host will take unchecked bears a
  name in use (`DirectNamesFree`, `InFlightNamesDiffer`).
* `PlaylistProofs`, Room: `RoomTypeCorrect`, `ClientsDoConverge`, `SelectionFollows`.
  ClientsConverge speaks of the case that nothing is on its way. `Heard` says what is,
  when something is: the last playlist among the host's broadcasts to the client is the
  session's; without one the welcome's is (`WelcomeRight`, and then no broadcast of a
  playlist may be ahead of it); without either a request of the client is under way, which
  the host will echo, or the client has the playlist already. That clients broadcast
  selections only (`ClientsSelect`) and that a closed connection leaves nothing behind
  (`Absent`) is needed beside it. Of `select_next` this needs only that it selects at most
  one video. SelectionFollows is about the loop itself, for playlists of any length: the
  number of old videos up to a place that are left in the new playlist (`Counts`) is where
  the loop's index stands when it gets to that place (`ScanEnds`), and the video there is
  the one the property names (`SuccessorIs`).
* `PlaylistProofs`, Screens: `ScreensTypeCorrect`, `SelectionAlwaysFits`, `DropsLand`. The
  types say that no mode, overlay and focus meet in which every key is swallowed (`AppOK`).
  For SelectionFits the terminal's widget must never show more videos than it counts
  (`ListOK`), and, unless `loose`, count no more than the playlist has (`Fits`): between an
  edit and the moment the widget takes it over these are three different lengths. `Drop`
  says of a move that waits in a batch which list and gap it was made from; that it then
  lands there is `Lands`, by cases of the gap before, at and behind the dragged video.
* `PlaybackProofs`: `TypeCorrect`, `StatusIsTrue`, `NothingEchoes`. `IInv` relates, for
  each peer, the wrapper's status to mpv and to the reports that are to come
  (`Sound`): they differ only if somebody touched the player since (a user at mpv's
  window, or a load), and for a loaded video only while mpv has a report to make.
  Neither property is inductive alone: what holds of a loaded video rests on what
  held while it was opening, and that on which files mpv can still report about.
* `SessionProofs`: `TypeCorrect`, `HostsAreFound`. Every step of Session is a step of
  Relay or leaves the relay's variables alone, so the inductive invariant of
  `RelayProofs` (taken through INSTANCE, its assumption discharged from
  `SessionAssumption`) is kept; `AnswersHold` adds that a host whose connection is open
  still has the answer that made it the host, for the room it hosts. HostRegistered
  is then SoleHost, read at the host's own connection.
* `SeekingProofs`: `TypeCorrect`, `SeeksDoNotEcho`, `HostSpeedIsKept`. For the first two
  `IInv` counts, for each player, the seeks mpv has not reported against those the
  wrapper expects (`Sound`). The last one needs a second invariant (`HostLeads`, while
  `lead`): the last speed on the way to a client, first in its core's queue, then in the
  host's broadcasts, is the host's, and no client's change is on its way to anybody but
  clients' cores, where it is ahead of the host's. No user is kept from changing the speed.
* `FileProofs`, Share: `ShareTypeCorrect`, `OffersAreServed`, `SharesAreOffered`.
  AdvertisedIsServed and SharedIsAdvertised speak of queues that are read; the invariant
  says what a handler will offer once it has read its queue (`Offers`): the video of the
  last message that gives it a role, or, without one, what it offers already. `Served`
  and `Offered` relate that to what the core provides at every moment. A selection on its
  way to the core is the exception (`HasSelect`): the handler has dropped its role, and
  the core will announce anew. So is the end of a file, after which it does not (`ended`). That a peer with all videos asks for none (`Asking`,
  `Abstains`) is needed beside it, as an error that answers a request drops any role.
* `FileProofs`, Stream: `StreamTypeCorrect`, `ChunksStayInFile`, `HeaderIsTrue`,
  `HeaderIsCovered`. `StreamInv` places requests, answers, cached chunks and connections
  in the file, for any ranges: empty, reversed, beyond the end. `HeaderIsTrue` says
  LengthKept of ranges that run to the end of the file and start in it, or at its end,
  which is what players ask for; it is false of those that end inside a chunk.
  `HeaderIsCovered` is what holds of every range that is not empty: the player never gets
  less than the header said.
* `FileProofs`, Database: `DatabaseTypeCorrect`, `StoreHasNoStranger`. The types say that
  no more crawlers finish than were queued; for that `Balanced` counts those that are
  reading or joining, which have counted themselves once (the proof is why the directories
  are finite, and why an update that is stopped must take its crawlers with it: one left
  behind would count in the next one's progress). `Traced` follows what is found: each
  crawler, task and store has only files of directories below the paths of its own update.
  No assumption is made on the subdirectories: real ones form a tree, but the proof
  needs nothing of them.
* `DeskProofs`: `TypeCorrect`, `MessagesStayKept`, `ChangesShown`, `CoreInStep`. `IInv`
  says of every cell that a change the interface has not taken over is covered: by the
  cell's mark together with something that will make the interface look (the
  notification, a queued ModelChanged, the rest of the round or of the setter's program),
  or by the load the interface is about to do (`AllCovered`); of every cell whose core
  or setter is at work, which event or step will make them agree (`Right`); and of the
  ring that slot by slot it holds the last messages (`RingKept`). A model of this grain
  has no coarser invariant: Mark, Wake, Clear and Load are steps of their own, and the
  conjuncts say where in its program each thread may be.

The operations on playlists are folds of the community modules, and a fold is a CHOOSE of
a function defined by means of itself. `FoldExists` shows, by descent along the strict
subsets of a finite set (`WFMin`), that there is such a function; one lemma for each fold
then says what a step of it does (`KeptSteps` and the like), and the rest is induction
over positions, stated of a set of numbers (`Reaches`) and not of an operator, so that
nothing is needed which the provers cannot instantiate.

Only model-checked: the liveness properties (PausesAgree, Together, Follows,
FilesAnswered, Ends, UpdatesArrive), as liveness under fairness, and ENABLED, are out of
TLAPS's reach. LengthKept is proved for the ranges `HeaderIsTrue` names; it is false beyond.

## Plan

Done: all modules above, and the proofs listed.

Left: several videos on several peers together with mpv's queue of end-of-file events: is
a video ever skipped, and do all peers end up on the same one?

## Not modelled

The relay's command line and configuration; parsing and saving of settings and playlist
files; rendering, layout and the texts of both interfaces; logging; the mpv bindings
(generated), subtitles and audio tracks; the scores of the fuzzy search; discovery, hole
punching and encryption, which are libp2p's. What a core does while it is not connected,
beyond what it sends when it is again, is left out as well.
