-------------------------------- MODULE Desk --------------------------------
(***************************************************************************)
(* The shared state of a peer's user interface and its core                *)
(* (client/core/src: ui.rs, util/, lib.rs).  The two run in parallel: the  *)
(* core's tasks on the runtime, the interface on a thread of its own.      *)
(* They share cells (Observed: a value, a flag that says it changed, one   *)
(* notification for all of them), which both read and write without locks, *)
(* and a queue of events from the interface to the core.                   *)
(*                                                                         *)
(* What a thread does is a program of steps, and the other thread may go   *)
(* between any two: a set stores, marks and wakes, an on_change looks,     *)
(* clears and loads.  The cells that only the core writes (user list, file *)
(* database, its progress, sharing) are one here.                          *)
(***************************************************************************)
EXTENDS Naturals, Sequences

CONSTANTS
    Names, Playlists, Videos, Lists,
    Relays, Rooms,
    None,
    Config,     \* the configuration the program starts with
    Capacity,   \* messages kept (1000)
    MaxActs     \* bound: what the user, room, player and log do

ASSUME DeskAssumption ==
    /\ None \notin Videos \cup Playlists \cup Lists
    /\ Config \in [name : Names, relay : Relays, room : Rooms, auto : BOOLEAN]
    /\ Capacity \in Nat \ {0} /\ MaxActs \in Nat

VARIABLES
    cell,      \* the values both sides share
    changed,   \* the cells marked as changed
    permit,    \* Notify: one notification is stored
    inbox,     \* graphical: ModelChanged messages not handled yet
    front,     \* the interface the program was started with
    screen,    \* what the interface has taken over from the cells
    prog,      \* prog[t]: what thread t still has to do
    events,    \* from the interface to the core
    core,      \* CoreModel and the communicator's endpoint
    said,      \* history: messages put into the buffer so far
    crossed,   \* history: cells that both sides changed at once
    acts       \* counts against MaxActs

deskVars == <<cell, changed, permit, inbox, front, screen, prog, events, core,
              said, crossed, acts>>

-----------------------------------------------------------------------------
(* Values.                                                                 *)

Cells == {"running", "playlist", "messages", "list", "user", "video"}
Status == [name : Names, ready : BOOLEAN]

\* A message is its rank among all; each act or its answer says one at most.
Message == 1 .. 2 * MaxActs

\* RingBuffer: the slots, where the oldest message is and how many there are.
Ring == [buffer : [0 .. Capacity - 1 -> Message \cup {0}],
         head : 0 .. Capacity - 1, len : 0 .. Capacity]

RingPushPastEnd(r, m) ==
    [buffer |-> [r.buffer EXCEPT ![(r.head + r.len) % Capacity] = m],
     head |-> IF r.len >= Capacity THEN (r.head + 1) % Capacity ELSE r.head,
     len |-> r.len + 1]

RingPushHeadKept(r, m) ==
    [buffer |-> [r.buffer EXCEPT ![(r.head + r.len) % Capacity] = m],
     head |-> r.head,
     len |-> IF r.len = Capacity THEN r.len ELSE r.len + 1]

RingPush(r, m) ==
    [buffer |-> [r.buffer EXCEPT ![(r.head + r.len) % Capacity] = m],
     head |-> IF r.len = Capacity THEN (r.head + 1) % Capacity ELSE r.head,
     len |-> IF r.len = Capacity THEN r.len ELSE r.len + 1]

RingIter(r) == [i \in 1 .. r.len |-> r.buffer[(r.head + i - 1) % Capacity]]

CellType(c) ==
    CASE c = "running" -> BOOLEAN
      [] c = "playlist" -> Playlists \cup {None}
      [] c = "messages" -> Ring
      [] c = "list" -> Lists \cup {None}
      [] c = "user" -> Status
      [] c = "video" -> Videos \cup {None}

Endpoint == Relays \X Rooms

CoreState ==
    [name : Names, ready : BOOLEAN, playlist : Playlists \cup {None},
     video : Videos \cup {None}, list : Lists \cup {None}, relay : Relays,
     room : Rooms, endpoint : Endpoint \cup {None}, running : BOOLEAN]

\* UserInterfaceEvent: what changes a cell the core has a copy of, what moves
\* the connection, and what is answered with a message at most.
Event ==
    [type : {"UserChange"}, user : Status]
      \cup [type : {"PlaylistChange"}, value : Playlists]
      \cup [type : {"VideoChange"}, value : Videos]
      \cup [type : {"RoomChange"}, room : Rooms]
      \cup [type : {"SettingsChange"}, relay : Relays]
      \cup [type : {"UserMessage", "Request"}]

Init ==
    /\ cell = [running |-> TRUE, playlist |-> None, list |-> None,
               user |-> [name |-> Config.name, ready |-> FALSE],
               video |-> None,
               messages |-> [buffer |-> [i \in 0 .. Capacity - 1 |-> 0],
                             head |-> 0, len |-> 0]]
    /\ changed = {} /\ permit = FALSE /\ inbox = 0
    /\ front \in {"terminal", "graphical"}
    /\ screen = cell
    /\ prog = [t \in {"ui", "core"} |-> <<>>]
    /\ events = <<>>
    /\ core = [name |-> Config.name, ready |-> FALSE, playlist |-> None,
               video |-> None, list |-> None, relay |-> Config.relay,
               room |-> Config.room, running |-> TRUE,
               endpoint |-> IF Config.auto THEN <<Config.relay, Config.room>>
                            ELSE None]
    /\ said = 0 /\ crossed = {} /\ acts = 0

-----------------------------------------------------------------------------
(* Programs.                                                               *)

Store(c, v) == [op |-> "store", cell |-> c, value |-> v]
Push == [op |-> "push"]
Mark(c) == [op |-> "mark", cell |-> c]
Wake == [op |-> "wake"]
Send(e) == [op |-> "send", event |-> e]
Look(c) == [op |-> "look", cell |-> c]
Clear(c) == [op |-> "clear", cell |-> c]
Load(c) == [op |-> "load", cell |-> c]

SetCellMarkedFirst(c, v) == <<Mark(c), Wake, Store(c, v)>>
SetCell(c, v) == <<Store(c, v), Mark(c), Wake>>
Say == <<Push, Mark("messages"), Wake>>

\* What the interface does about a notification: the terminal looks at every
\* cell (handle_notify), the graphical one at some, and reads the others as it
\* draws (update_from_inner_model, ModelChanged, view).
Draw == IF front = "graphical" THEN <<Load("user"), Load("video")>> ELSE <<>>

Round ==
    IF front = "terminal"
    THEN <<Look("running"), Look("playlist"), Look("messages"), Look("list"),
           Look("user"), Look("video")>>
    ELSE <<Look("list"), Look("playlist"), Look("messages"), Load("running")>>
           \o Draw

\* One step of thread t.
Step(t) ==
    /\ prog[t] # <<>>
    /\ LET s == Head(prog[t])
           rest == Tail(prog[t])
       IN /\ prog' = [prog EXCEPT ![t] =
                        IF s.op = "look" /\ s.cell \in changed
                        THEN <<Clear(s.cell), Load(s.cell)>> \o rest ELSE rest]
          /\ cell' = CASE s.op = "store" -> [cell EXCEPT ![s.cell] = s.value]
                       [] s.op = "push" ->
                            [cell EXCEPT !.messages = RingPush(@, said + 1)]
                       [] OTHER -> cell
          /\ said' = IF s.op = "push" THEN said + 1 ELSE said
          /\ changed' = CASE s.op = "mark" -> changed \cup {s.cell}
                          [] s.op = "clear" -> changed \ {s.cell}
                          [] OTHER -> changed
          /\ permit' = (permit \/ s.op = "wake")
          /\ events' = IF s.op = "send" THEN Append(events, s.event) ELSE events
          /\ screen' = IF s.op = "load"
                       THEN [screen EXCEPT ![s.cell] = cell[s.cell]] ELSE screen
    /\ UNCHANGED <<inbox, front, core, crossed, acts>>

\* The cells an event is about, and those a thread is about to change.
EventCell(e) ==
    CASE e.type = "UserChange" -> "user"
      [] e.type = "PlaylistChange" -> "playlist"
      [] e.type = "VideoChange" -> "video"
      [] OTHER -> "none"

Stored(p) == {p[i].cell : i \in {j \in DOMAIN p : p[j].op = "store"}}

UiChanges ==
    Stored(prog["ui"])
      \cup {EventCell(prog["ui"][i].event) :
              i \in {j \in DOMAIN prog["ui"] : prog["ui"][j].op = "send"}}
      \cup {EventCell(events[i]) : i \in DOMAIN events}

-----------------------------------------------------------------------------
(* The interface.                                                          *)

UiIdle == prog["ui"] = <<>> /\ screen.running

\* The user does something.
UserDoes(p) ==
    /\ UiIdle /\ acts < MaxActs /\ acts' = acts + 1
    /\ prog' = [prog EXCEPT !["ui"] = p \o Draw]
    /\ crossed' = crossed \cup (Stored(p) \cap Stored(prog["core"]))
    /\ UNCHANGED <<cell, changed, permit, inbox, front, screen, events, core,
                   said>>

ChangeUser(user) ==
    UserDoes(SetCell("user", user)
               \o <<Send([type |-> "UserChange", user |-> user])>>)

\* user_ready_toggle and change_username read the cell and write it back.
UserReadyToggle == ChangeUser([cell.user EXCEPT !.ready = ~ @])
ChangeUsername(n) == ChangeUser([cell.user EXCEPT !.name = n])

ChangePlaylist(v) ==
    UserDoes(SetCell("playlist", v)
               \o <<Send([type |-> "PlaylistChange", value |-> v])>>)

ChangeVideo(v) ==
    UserDoes(SetCell("video", v)
               \o <<Send([type |-> "VideoChange", value |-> v])>>)

SendMessage == UserDoes(Say \o <<Send([type |-> "UserMessage"])>>)

ChangeRoom(r) == UserDoes(<<Send([type |-> "RoomChange", room |-> r])>>)

ChangeSettings(r) ==
    UserDoes(<<Send([type |-> "SettingsChange", relay |-> r])>>)

\* change_db_paths, start_db_update, stop_db_update, video_share_toggle,
\* video_file_request.
Ask == UserDoes(<<Send([type |-> "Request"])>>)

\* notify.notified(): the terminal's loop goes on with the round, the
\* subscription of the graphical interface puts a message into its queue.
Notified ==
    /\ permit /\ permit' = FALSE
    /\ \/ /\ front = "terminal" /\ UiIdle
          /\ prog' = [prog EXCEPT !["ui"] = Round]
          /\ UNCHANGED inbox
       \/ /\ front = "graphical"
          /\ inbox' = inbox + 1
          /\ UNCHANGED prog
    /\ UNCHANGED <<cell, changed, front, screen, events, core, said, crossed,
                   acts>>

ModelChanged ==
    /\ inbox > 0 /\ UiIdle
    /\ inbox' = inbox - 1
    /\ prog' = [prog EXCEPT !["ui"] = Round]
    /\ UNCHANGED <<cell, changed, permit, front, screen, events, core, said,
                   crossed, acts>>

-----------------------------------------------------------------------------
(* The core: one event at a time, each handled to its end.                 *)

CoreIdle == prog["core"] = <<>> /\ core.running

\* The core's own state becomes c; p is what it does to the cells.
CoreDoes(c, p) ==
    /\ core' = c
    /\ prog' = [prog EXCEPT !["core"] = p]
    /\ UNCHANGED <<cell, changed, permit, inbox, front, screen, said>>

Connect(c) == [c EXCEPT !.endpoint = <<c.relay, c.room>>]

UserChange(e) ==
    CoreDoes([core EXCEPT !.name = e.user.name, !.ready = e.user.ready], <<>>)

PlaylistChange(e) == CoreDoes([core EXCEPT !.playlist = e.value], <<>>)

VideoChangeNotRepeated(e) ==
    CoreDoes([core EXCEPT !.video = e.value], <<>>)

\* The selection goes back to the interface, the playlist does not.
VideoChange(e) ==
    CoreDoes([core EXCEPT !.video = e.value], SetCell("video", e.value))

RoomChange(e) == CoreDoes(Connect([core EXCEPT !.room = e.room]), <<>>)

SettingsChange(e) ==
    CoreDoes(IF e.relay # core.relay /\ core.endpoint # None
             THEN Connect([core EXCEPT !.relay = e.relay])
             ELSE [core EXCEPT !.relay = e.relay], <<>>)

HandleUi ==
    /\ CoreIdle /\ events # <<>>
    /\ events' = Tail(events)
    /\ LET e == Head(events)
       IN \/ e.type = "UserChange" /\ UserChange(e)
          \/ e.type = "PlaylistChange" /\ PlaylistChange(e)
          \/ e.type = "VideoChange" /\ VideoChange(e)
          \/ e.type = "RoomChange" /\ RoomChange(e)
          \/ e.type = "SettingsChange" /\ SettingsChange(e)
          \/ e.type = "UserMessage" /\ CoreDoes(core, <<>>)
          \/ e.type = "Request" /\ \E p \in {<<>>, Say} : CoreDoes(core, p)
    /\ UNCHANGED <<crossed, acts>>

\* Something from room, player or log; what it writes may cross what the user
\* does, which the core has not heard of yet.
CoreHandles(c, p) ==
    /\ CoreIdle /\ acts < MaxActs /\ acts' = acts + 1
    /\ crossed' = crossed \cup (Stored(p) \cap UiChanges)
    /\ CoreDoes(c, p)
    /\ UNCHANGED events

PlaylistMsg(v) ==
    CoreHandles([core EXCEPT !.playlist = v], SetCell("playlist", v) \o Say)

SelectMsg(v) ==
    CoreHandles([core EXCEPT !.video = v], SetCell("video", v) \o Say)

\* A forced name; username_change reads the cell and writes it back.
UserStatusMsg(n) ==
    CoreHandles([core EXCEPT !.name = n],
                SetCell("user", [cell.user EXCEPT !.name = n]) \o Say)

UserStatusListMsg(l) ==
    CoreHandles([core EXCEPT !.list = l], SetCell("list", l))

\* Chat, server messages, the connection's state, pause, start, seek and speed
\* of others, and the program's own log.
MessageOnly == CoreHandles(core, Say)

\* PlayerPause and PlayerStart.
PlayerReady(ready) ==
    CoreHandles([core EXCEPT !.ready = ready],
                SetCell("user", [name |-> core.name, ready |-> ready]))

PlayerExit ==
    CoreHandles([core EXCEPT !.running = FALSE], SetCell("running", FALSE))

-----------------------------------------------------------------------------
User ==
    \/ UserReadyToggle \/ SendMessage \/ Ask
    \/ \E n \in Names : ChangeUsername(n)
    \/ \E v \in Playlists : ChangePlaylist(v)
    \/ \E v \in Videos : ChangeVideo(v)
    \/ \E r \in Rooms : ChangeRoom(r)
    \/ \E r \in Relays : ChangeSettings(r)

Receive ==
    \/ MessageOnly \/ PlayerExit
    \/ \E v \in Playlists : PlaylistMsg(v)
    \/ \E v \in Videos \cup {None} : SelectMsg(v)
    \/ \E n \in Names : UserStatusMsg(n)
    \/ \E l \in Lists : UserStatusListMsg(l)
    \/ \E ready \in BOOLEAN : PlayerReady(ready)

Next ==
    \/ User \/ Notified \/ ModelChanged
    \/ HandleUi \/ Receive
    \/ \E t \in {"ui", "core"} : Step(t)

Spec == Init /\ [][Next]_deskVars

-----------------------------------------------------------------------------
(* Properties.                                                             *)

TypeOK ==
    /\ \A c \in Cells : cell[c] \in CellType(c) /\ screen[c] \in CellType(c)
    /\ DOMAIN cell = Cells /\ DOMAIN screen = Cells
    /\ changed \subseteq Cells /\ permit \in BOOLEAN /\ inbox \in Nat
    /\ front \in {"terminal", "graphical"}
    /\ \A i \in DOMAIN events : events[i] \in Event
    /\ core \in CoreState
    /\ crossed \subseteq Cells
    /\ said \in 0 .. 2 * MaxActs /\ acts \in 0 .. MaxActs

\* Nothing is under way between the threads.
Quiet ==
    /\ \A t \in {"ui", "core"} : prog[t] = <<>>
    /\ ~ permit /\ inbox = 0 /\ events = <<>>

\* No change is missed: when both threads have nothing left to do the interface
\* shows what is in the cells, wherever a set, with its one notification for
\* all cells, fell into a round (observed.rs:27-39).
Shown == Quiet /\ screen.running => screen = cell

\* What the cells hold is what the core has, however the user's changes and the
\* room's passed each other: the selection always, because its handler repeats
\* it (ui.rs:113), playlist and user unless both sides changed them at once.
\* And the core is connected, if at all, to what its configuration says, room
\* and relay having changed in any order (ui.rs:141, 398).
InStep ==
    /\ Quiet /\ core.running =>
         /\ cell.video = core.video
         /\ cell.list = core.list
         /\ "playlist" \notin crossed => cell.playlist = core.playlist
         /\ "user" \notin crossed =>
              cell.user = [name |-> core.name, ready |-> core.ready]
    /\ core.endpoint # None => core.endpoint = <<core.relay, core.room>>

\* The chat holds the last messages in the order they were put in, whichever
\* thread did, with none lost, repeated or out of place once the buffer wraps
\* (ring_buffer.rs:36, observed.rs:41).
MessagesKept ==
    LET n == IF said < Capacity THEN said ELSE Capacity
    IN RingIter(cell.messages) = [i \in 1 .. n |-> said - n + i]
=============================================================================
