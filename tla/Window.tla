------------------------------- MODULE Window -------------------------------
(***************************************************************************)
(* The graphical user interface (client/ui/iced/src: view.rs, message.rs,  *)
(* widget/): what the widgets publish on the events of a window, and what  *)
(* the messages do to the widgets' state.                                  *)
(*                                                                         *)
(* Events are turned into messages with the state the window was drawn     *)
(* from.  The messages of a few events are then handled one by one, before *)
(* any further event, and the one that tells of changed cells comes first. *)
(* What goes to the core without a change of the playlist (ready, share,   *)
(* chat, database, a video selected by double click) is module Desk's.     *)
(***************************************************************************)
EXTENDS Cells

CONSTANT MaxBatch   \* bound: messages that events add to one batch, all of
                    \* them one widget's

ASSUME WindowAssumption == MaxBatch \in Nat

VARIABLES
    win,       \* PlaylistWidgetState: own copy of the list, selected, interaction
    find,      \* FileSearchWidgetState
    form,      \* SettingsWidgetState: shown, and whether edited since saved
    queue,     \* messages published and not yet handled
    handling   \* a batch is being handled

winVars == <<win, find, form, queue, handling>>

-----------------------------------------------------------------------------
Selected == [index : Nat, video : Videos] \cup {None}
Interactions == {"None", "Pressing", "Released", "PressingExternal"}
Win == [list : Seq(Videos), sel : Selected, act : Interactions]

\* job: the search under way and whether it has come to its end.
Finding ==
    [query : Queries, job : [found : Seq(Videos), done : BOOLEAN] \cup {None},
     results : Seq(Videos), cursor : Nat, active : BOOLEAN, clicked : BOOLEAN]

\* The last three are history: the list the user dropped the video in, the index
\* it was remembered at, and the gap that was shown as the place it goes to.
Move(v, pos, seen, from, gap) ==
    [type |-> "Move", video |-> v, pos |-> pos,
     seen |-> seen, from |-> from, gap |-> gap]

\* A video from elsewhere goes in front.
MoveIn(v) == Move(v, 0, None, None, None)

Interaction(s, a) == [type |-> "Interaction", sel |-> s, act |-> a]
Plain(t) == [type |-> t]

Widget(msg) ==
    IF msg.type \in {"Move", "Delete", "Interaction", "DoubleClick"} THEN "playlist"
    ELSE IF msg.type \in {"Activate", "Abort", "Reset", "Edit", "ApplyClose", "SaveClose"}
    THEN "settings" ELSE "search"

Told == {i \in DOMAIN queue : queue[i].type # "ModelChanged"}
At(t, i) == [type |-> t, index |-> i]

-----------------------------------------------------------------------------
(* closest_index.                                                          *)

\* The gap g lies before the video at g; the last one behind all of them.  The
\* place to move to is counted without the selected video.
RelativeUnadjusted(g) == g

Relative(g) ==
    IF win.sel # None /\ win.sel.index < g THEN g - 1
    ELSE Least(g, Before(Len(win.list)))

\* No place if the gap is above or below the selected video.
BesideSelected(g) ==
    /\ win.act = "Pressing" /\ win.sel # None
    /\ \/ Before(g) < Len(win.list) /\ win.list[Before(g) + 1] = win.sel.video
       \/ g < Len(win.list) /\ win.list[g + 1] = win.sel.video

\* Nor without videos.  There the code takes 1 from a length of 0: a release
\* build, which is what is modelled, goes around and then finds no place; a build
\* that checks for overflow panics.
Gaps == IF win.list = <<>> THEN {}
        ELSE {g \in 0 .. Len(win.list) : ~ BesideSelected(g)}

-----------------------------------------------------------------------------
(* Events.                                                                 *)

Publish(msgs) ==
    /\ ~ handling /\ Cardinality(Told) + Len(msgs) <= MaxBatch
    /\ \A i \in Told : Widget(queue[i]) = Widget(msgs[1])
    /\ queue' = queue \o msgs
    /\ UNCHANGED <<win, find, form, handling, cellVars>>

Press(i) ==
    LET file == [index |-> i, video |-> win.list[i + 1]]
        down == Interaction(file, "Pressing")
    IN IF win.act = "Released" /\ win.sel = file
       THEN \/ Publish(<<down>>)
            \/ Publish(<<down, Plain("DoubleClick")>>)
       ELSE Publish(<<down>>)

\* The button is released over some gap, or a file is dropped on the window.
Release(file) ==
    CASE win.act = "PressingExternal" ->
           file # None /\ Publish(<<MoveIn(file)>>)
      [] win.act = "Pressing" ->
           LET over == Interaction(win.sel, "Released")
           IN \/ /\ win.sel # None
                 /\ \E g \in Gaps :
                      Publish(<<Move(win.sel.video, Relative(g),
                                     win.list, win.sel.index, g), over>>)
              \/ Publish(<<over>>)
      [] win.act = "Released" -> Publish(<<Interaction(win.sel, "None")>>)
      [] win.act = "None" -> FALSE

PlaylistEvent ==
    \/ \E i \in 0 .. Before(Len(win.list)) : win.list # <<>> /\ Press(i)
    \/ \E file \in Videos \cup {None} : Release(file)
    \/ win.sel # None /\ Publish(<<[type |-> "Delete", video |-> win.sel.video]>>)
    \/ \E v \in Videos : Publish(<<MoveIn(v)>>)
    \/ /\ win.act # "PressingExternal"
       /\ Publish(<<Interaction(win.sel, "PressingExternal")>>)
    \/ Publish(<<Interaction(win.sel, "None")>>)

\* Without results the index is 0.  For the arrow up the code takes 1 from the
\* number of results before it looks, with the same two outcomes.
Wrapped(i) == IF find.results = <<>> THEN 0 ELSE i % Len(find.results)

SearchEvent ==
    \/ ~ find.active /\ Publish(<<Plain("OpenFind")>>)
    \/ /\ find.active
       /\ \/ Publish(<<Plain("CloseFind")>>)
          \/ /\ acts < MaxActs
             /\ \E q \in Queries : Publish(<<[type |-> "Input", query |-> q]>>)
          \/ \E i \in DOMAIN find.results : Publish(<<At("Click", i - 1)>>)
          \/ Publish(<<At("Select", Wrapped(find.cursor + 1))>>)
          \/ Publish(<<At("Select", Wrapped(find.cursor + Before(Len(find.results))))>>)
          \/ Publish(<<Plain("Insert")>>)
          \/ /\ find.job # None /\ find.job.done
             /\ Publish(<<Plain("SearchFinished")>>)

FormEvent ==
    IF form.active
    THEN \E t \in {"Abort", "Reset", "Edit", "ApplyClose", "SaveClose"} :
           Publish(<<Plain(t)>>)
    ELSE Publish(<<Plain("Activate")>>)

\* The cells were changed: ModelChanged is in front of what the events publish.
Changed ==
    /\ fresh /\ ~ handling /\ Plain("ModelChanged") \notin Range(queue)
    /\ queue' = <<Plain("ModelChanged")>> \o queue
    /\ UNCHANGED <<win, find, form, handling, cellVars>>

-----------------------------------------------------------------------------
(* Messages.                                                               *)

\* replace_playlist: a selected video that is still there keeps its old index.
ReplacePlaylist(p) ==
    IF win.sel # None /\ ~ Contains(p, win.sel.video)
    THEN [list |-> p, sel |-> None, act |-> "None"]
    ELSE [win EXCEPT !.list = p]

HandleModelChanged ==
    /\ win' = IF fresh THEN ReplacePlaylist(playlist) ELSE win
    /\ fresh' = FALSE
    /\ UNCHANGED <<find, form, playlist, store, acts>>

\* Move and Delete change the widget's copy, and that becomes the playlist.
Rearrange(p) ==
    /\ win' = [win EXCEPT !.list = p]
    /\ ChangePlaylist(p)
    /\ UNCHANGED <<find, form, store>>

HandlePlaylist(msg) ==
    \/ msg.type = "Move" /\ Rearrange(MoveVideo(win.list, msg.video, msg.pos))
    \/ msg.type = "Delete" /\ Rearrange(RemoveByVideo(win.list, msg.video))
    \/ /\ msg.type = "Interaction"
       /\ win' = [win EXCEPT !.sel = msg.sel, !.act = msg.act]
       /\ UNCHANGED <<find, form, cellVars>>
    \/ msg.type = "DoubleClick" /\ UNCHANGED <<win, find, form, cellVars>>

Job(q) == [found |-> Search(store, q), done |-> FALSE]

\* SearchFinished: the job is gone whether or not it has come to its end.
Finish(f) ==
    IF f.job = None \/ ~ f.job.done THEN [f EXCEPT !.job = None]
    ELSE LET n == Len(f.job.found)
         IN [f EXCEPT !.job = None, !.results = f.job.found,
                      !.cursor = IF n = 0 THEN 0 ELSE @ % n]

Select(i) == [find EXCEPT !.clicked = TRUE, !.cursor = i]

\* Insert: what is under the cursor goes to the end of the cell's playlist.
InsertFound ==
    IF find.cursor < Len(find.results)
    THEN ChangePlaylist(Push(playlist, find.results[find.cursor + 1]))
    ELSE UNCHANGED <<playlist, fresh, acts>>

Finds(f) == find' = f /\ UNCHANGED <<win, form, cellVars>>

HandleFind(msg) ==
    \/ msg.type = "OpenFind" /\ Finds([find EXCEPT !.active = TRUE, !.job = Job(find.query)])
    \/ msg.type = "CloseFind" /\ Finds([find EXCEPT !.active = FALSE])
    \/ /\ msg.type = "Input" /\ Act
       /\ find' = [find EXCEPT !.query = msg.query, !.job = Job(msg.query)]
       /\ UNCHANGED <<win, form, playlist, fresh, store>>
    \/ msg.type = "Select" /\ Finds(Select(msg.index))
    \/ msg.type = "SearchFinished" /\ Finds(Finish(find))
    \/ /\ msg.type = "Insert" /\ InsertFound
       /\ UNCHANGED <<win, find, form, store>>

\* Click: the first selects, a second one soon after inserts.
HandleClick(msg) ==
    /\ msg.type = "Click"
    /\ IF find.cursor # msg.index \/ ~ find.clicked
       THEN Finds(Select(msg.index))
       ELSE /\ find' = [find EXCEPT !.clicked = FALSE]
            /\ InsertFound \/ UNCHANGED <<playlist, fresh, acts>>
            /\ UNCHANGED <<win, form, store>>

\* Abort keeps what was typed; Reset loads the file's.
HandleForm(msg) ==
    /\ \/ msg.type = "Activate" /\ form' = [form EXCEPT !.active = TRUE]
       \/ msg.type \in {"Abort", "ApplyClose"} /\ form' = [form EXCEPT !.active = FALSE]
       \/ msg.type = "Reset" /\ form' = [form EXCEPT !.edited = FALSE]
       \/ msg.type = "Edit" /\ form' = [form EXCEPT !.edited = TRUE]
       \/ msg.type = "SaveClose" /\ form' = [active |-> FALSE, edited |-> FALSE]
    /\ UNCHANGED <<win, find, cellVars>>

Handle ==
    /\ queue # <<>>
    /\ queue' = Tail(queue) /\ handling' = (Tail(queue) # <<>>)
    /\ LET msg == Head(queue)
       IN \/ msg.type = "ModelChanged" /\ HandleModelChanged
          \/ HandlePlaylist(msg) \/ HandleFind(msg)
          \/ HandleClick(msg) \/ HandleForm(msg)

-----------------------------------------------------------------------------
(* The search's task, the room and the database.                           *)

JobEnds ==
    /\ find.job # None /\ ~ find.job.done
    /\ find' = [find EXCEPT !.job.done = TRUE]
    /\ UNCHANGED <<win, form, queue, handling, cellVars>>

\* The core goes on while a batch is handled.
CoreReplaces(p) == ChangePlaylist(p) /\ UNCHANGED <<store, winVars>>
StoreReplaced(s) == Act /\ store' = s /\ UNCHANGED <<playlist, fresh, winVars>>

WinInit ==
    /\ win = [list |-> <<>>, sel |-> None, act |-> "None"]
    /\ \E q \in Queries : Matches[q] = Videos
         /\ find = [query |-> q, job |-> None, results |-> <<>>, cursor |-> 0,
                    active |-> FALSE, clicked |-> FALSE]
    /\ \E a \in BOOLEAN : form = [active |-> a, edited |-> FALSE]
    /\ queue = <<>> /\ handling = FALSE

\* Bound: events are for the widget on top, the settings or the search (a press
\* beside it closes the search), and the search opens while nothing is dragged.
WinNext ==
    \/ ~ form.active /\ ~ find.active /\ PlaylistEvent
    \/ ~ form.active /\ win.act = "None" /\ SearchEvent
    \/ FormEvent \/ Changed
    \/ Handle \/ JobEnds
    \/ \E p \in Lists : CoreReplaces(p)
    \/ \E s \in Stores : StoreReplaced(s)

-----------------------------------------------------------------------------
(* Properties.                                                             *)

WinTypeOK ==
    /\ win \in Win /\ find \in Finding /\ form \in [active : BOOLEAN, edited : BOOLEAN]
    /\ handling \in BOOLEAN /\ Len(queue) <= MaxBatch + 1

Without(p, v) == Kept(p, Videos \ {v})

\* The list msg is about is still the one the user saw, without duplicates,
\* and the video was where the widget remembered it.
AsSeen(msg) ==
    /\ msg.type = "Move" /\ msg.gap # None
    /\ msg.seen = win.list /\ IsInjective(msg.seen)
    /\ msg.from < Len(msg.seen) /\ msg.seen[msg.from + 1] = msg.video

\* A video that is dragged goes where the line was shown: after everything that
\* stood above that gap, before everything below, and nothing else moves; that
\* is what the room gets.
DropLands ==
    [][LET msg == Head(queue)
       IN queue # <<>> /\ queue' = Tail(queue) /\ AsSeen(msg) =>
           /\ win'.list = Without(SubSeq(msg.seen, 1, msg.gap), msg.video)
                            \o <<msg.video>>
                            \o Without(SubSeq(msg.seen, msg.gap + 1, Len(msg.seen)), msg.video)
           /\ playlist' = win'.list]_<<winVars, cellVars>>
=============================================================================
