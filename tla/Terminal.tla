------------------------------ MODULE Terminal ------------------------------
(***************************************************************************)
(* The terminal user interface (client/ui/ratatui/src: view.rs, handler/,  *)
(* widget/): one loop that takes a key, the end of a search or a notice    *)
(* that a shared cell changed, and handles it to its end.                  *)
(*                                                                         *)
(* A key means what mode, overlay and focus make it mean.  The cursors of  *)
(* search results and recent files are left out: what is chosen there is   *)
(* any slice of the list.  So are the texts of forms, but whether the port *)
(* is a number, and what goes to the core without a change of a list.      *)
(***************************************************************************)
EXTENDS Cells

CONSTANTS
    Saved,   \* the playlists stored on disk
    Page     \* how far PageUp and PageDown jump (5)

VARIABLES
    app,       \* mode, previous mode, overlay, focus, highlights
    list,      \* the playlist widget
    search,    \* the two search widgets and their current searches
    portOk,    \* the settings' port field holds a number
    up,        \* "running", "left" or "crashed"
    loose      \* history: the selection was made for another list, see below

termVars == <<app, list, search, portOk, up, loose>>

-----------------------------------------------------------------------------
Widgets == {"Chat", "ChatInput", "Users", "Playlist", "Recently"}
Modes == {"Normal", "Inspecting", "Overlay"}

Overlays ==
    {"Login", "Settings", "BrowserSearch", "PlaylistSearch", "Option",
     "MediaDir", "PlaylistBrowser", "VideoName", "Help", "Command"}

App ==
    [mode : Modes, prev : Modes \cup {None}, overlay : Overlays \cup {None},
     focus : Widgets, lit : [Widgets -> {"Unselected", "Hovered", "Selected"}]]

ASSUME TerminalAssumption ==
    /\ Saved \subseteq Seq(Videos) /\ Page \in Nat
    /\ None \notin Nat \cup Modes \cup Overlays

\* ListNavigationState: cursor, how far the selection goes beyond it, and how
\* long the list is taken to be.
Nav == [sel : Nat \cup {None}, upper : Nat, len : Nat]

List == [shown : Seq(Videos), nav : Nav, clip : Seq(Videos) \cup {None}]

\* found: what the current search will come up with, None without one.
Searches ==
    [query : Queries, found : Seq(Videos) \cup {None},
     result : Seq(Videos) \cup {None}]

EmptySearch(q) == [query |-> q, found |-> None, result |-> None]

\* The query of an empty field, which every entry matches.
Everything == CHOOSE q \in Queries : Matches[q] = Videos

-----------------------------------------------------------------------------
(* Modes, overlays and focus.                                              *)

SetMode(a, m) == [a EXCEPT !.prev = a.mode, !.mode = m]
Open(a, o) == [SetMode(a, "Overlay") EXCEPT !.overlay = o]

\* The options menu goes on to another overlay without a change of mode.
SwitchThroughMode(a, o) == Open(a, o)
Switch(a, o) == [a EXCEPT !.overlay = o]

ResetOverlay(a) ==
    [a EXCEPT !.overlay = None, !.mode = IF a.prev = None THEN "Normal" ELSE a.prev]

Transition(a, to) ==
    [a EXCEPT !.focus = to,
              !.lit = [@ EXCEPT ![a.focus] = "Unselected", ![to] = "Hovered"]]

EnterWidget(a) ==
    [SetMode(a, "Inspecting") EXCEPT !.lit[a.focus] = "Selected"]

LeaveWidget(a) == [SetMode(a, "Normal") EXCEPT !.lit[a.focus] = "Hovered"]

\* Where the arrows, Tab and BackTab lead from a widget.
Around ==
    [Chat |-> {"Users", "ChatInput", "Playlist"}, ChatInput |-> {"Chat", "Playlist"},
     Users |-> {"Chat", "Recently"}, Playlist |-> {"Recently", "Chat"},
     Recently |-> {"Playlist", "Users"}]

Key == up = "running"
Inside(w) == Key /\ app.mode = "Inspecting" /\ app.focus = w
On(o) == Key /\ app.mode = "Overlay" /\ app.overlay = o

\* Nothing but modes, overlays and focus changes.
Shows(a) ==
    app' = a /\ UNCHANGED <<list, search, portOk, up, loose, cellVars>>

Quit ==
    /\ Key /\ app.mode = "Normal"
    /\ up' = "left"
    /\ UNCHANGED <<app, list, search, portOk, loose, cellVars>>

Navigate ==
    /\ Key /\ app.mode = "Normal"
    /\ \/ \E o \in {"Command", "Option", "Help"} : Shows(Open(app, o))
       \/ Shows(EnterWidget(app))
       \/ \E w \in Around[app.focus] : Shows(Transition(app, w))

\* In a widget: Tab and BackTab lead into those beside it, Esc out of it, and
\* the menus open from all but the input of chat messages.
Leave(w, beside) ==
    /\ Inside(w)
    /\ \/ \E v \in beside : Shows(EnterWidget(Transition(app, v)))
       \/ Shows(LeaveWidget(app))

Menus(w) ==
    /\ Inside(w)
    /\ \E o \in {"Command", "Option", "Help"} : Shows(Open(app, o))

InChatInput == Leave("ChatInput", {"Chat", "Playlist"})
InChat == Leave("Chat", {"Users", "Playlist"}) \/ Menus("Chat")
InUsers == Leave("Users", {"Recently", "Chat"}) \/ Menus("Users")
InPlaylist == Leave("Playlist", {"Chat", "Recently"}) \/ Menus("Playlist")
InRecently == Leave("Recently", {"Playlist", "Users"}) \/ Menus("Recently")

Inspect == InChatInput \/ InChat \/ InUsers \/ InPlaylist \/ InRecently

\* The menu: ready, sharing, file request and database close it, as does a key
\* it does not know.
Options ==
    /\ On("Option")
    /\ \/ \E o \in {"Help", "Login", "Settings", "MediaDir", "PlaylistBrowser"} :
            Shows(Switch(app, o))
       \/ Shows(ResetOverlay(app))

\* Overlays that are left with nothing of this module changed: login sends room
\* and name and saves them, media directories their paths.
CloseLogin == On("Login") /\ Shows(ResetOverlay(app))
CloseMediaDir == On("MediaDir") /\ Shows(ResetOverlay(app))
CloseVideoName == On("VideoName") /\ Shows(ResetOverlay(app))
CloseHelp == On("Help") /\ Shows(ResetOverlay(app))

CloseForm == CloseLogin \/ CloseMediaDir \/ CloseVideoName \/ CloseHelp

Panics == up' = "crashed" /\ UNCHANGED <<app, list, search, portOk, loose, cellVars>>

\* The settings: what is typed need not be a number; Ctrl-d resets the form;
\* Enter closes and collects the form, Esc only closes.
Settings ==
    /\ On("Settings")
    /\ \/ /\ portOk' \in BOOLEAN /\ Act
          /\ UNCHANGED <<app, list, search, up, loose, playlist, fresh, store>>
       \/ Shows(ResetOverlay(app))
       \/ ~ portOk /\ Panics

-----------------------------------------------------------------------------
(* Cursors.                                                                *)

Next1(n) ==
    [n EXCEPT !.upper = 0,
              !.sel = CASE @ = None -> 0 [] @ = 0 -> Before(n.len) [] OTHER -> @ - 1]

Previous(n) ==
    [n EXCEPT !.upper = 0,
              !.sel = IF @ = None THEN 0
                      ELSE IF @ >= Before(n.len) THEN 0 ELSE @ + 1]

JumpNext(n) ==
    [n EXCEPT !.sel = IF @ = None THEN None ELSE IF @ <= Page THEN 0 ELSE @ - Page]

JumpPrevious(n) ==
    [n EXCEPT !.sel = IF @ = None THEN None ELSE Least(@ + Page, Before(n.len))]

JumpStart(n) == [n EXCEPT !.sel = 0]
JumpEnd(n) == [n EXCEPT !.sel = Before(n.len)]

IncreaseSelectionOffsetToLen(n) ==
    IF n.sel # None /\ n.upper + n.sel < n.len
    THEN [n EXCEPT !.upper = @ + 1] ELSE n

IncreaseSelectionOffset(n) ==
    IF n.sel # None /\ n.upper + n.sel < Before(n.len)
    THEN [n EXCEPT !.upper = @ + 1] ELSE n

IncreaseSelectionOffsetBy(n, k) ==
    IF n.sel # None /\ n.upper + n.sel + k < n.len
    THEN [n EXCEPT !.upper = @ + k] ELSE n

\* The history variable: what the selection is made with is the list as it is
\* now and has something in it.
Sound == playlist # <<>> /\ list.nav.len <= Len(playlist)

Moves(n, l) ==
    /\ list' = [list EXCEPT !.nav = n]
    /\ loose' = l
    /\ UNCHANGED <<app, search, portOk, up, cellVars>>

Extended == list.nav.upper > 0

PlaylistCursor ==
    /\ Inside("Playlist")
    /\ \/ Moves(Next1(list.nav), loose \/ ~ Sound)
       \/ Moves(Previous(list.nav), ~ Sound)
       \/ Moves(JumpNext(list.nav), loose)
       \/ Moves(JumpPrevious(list.nav), loose \/ Extended)
       \/ Moves(JumpStart(list.nav), loose \/ ~ Sound)
       \/ Moves(JumpEnd(list.nav), loose \/ ~ Sound \/ Extended)
       \/ Moves(IncreaseSelectionOffset(list.nav), loose)

\* jump_to_video, jump_to_playing_video.
JumpTo(v) ==
    IF Contains(list.shown, v)
    THEN [list EXCEPT !.nav.sel = Find(list.shown, v)] ELSE list

JumpToPlaying ==
    /\ Inside("Playlist")
    /\ \E v \in Videos : Moves(JumpTo(v).nav, loose \/ Extended \/ ~ Sound)

-----------------------------------------------------------------------------
(* What the user makes of the playlist.                                    *)

Edit(p) ==
    /\ ChangePlaylist(p)
    /\ loose' = (loose \/ Len(p) < Len(playlist))
    /\ UNCHANGED store

\* remove_by_video changes nothing when the video is not there.
EditIf(p) ==
    IF p = playlist THEN UNCHANGED <<cellVars, loose>> ELSE Edit(p)

Lower == list.nav.sel
Upper == list.nav.sel + list.nav.upper
InList == Upper < Len(playlist)

\* yank_clipboard: the selected videos of the list that is shown.
Yanked == [list EXCEPT !.clip = GetRange(list.shown, Lower, Upper)]

\* After the cursor, at the start without one.
Behind == IF list.nav.sel = None THEN 0 ELSE list.nav.sel + 1

Yank ==
    /\ Inside("Playlist") /\ list.nav.sel # None
    /\ list' = Yanked
    /\ UNCHANGED <<app, search, portOk, up, loose, cellVars>>

Cut ==
    /\ Inside("Playlist") /\ list.nav.sel # None
    /\ \/ /\ InList
          /\ Edit(RemoveRange(playlist, Lower, Upper))
          /\ list' = [Yanked EXCEPT !.nav.upper = 0]
          /\ UNCHANGED <<app, search, portOk, up>>
       \/ ~ InList /\ Panics

ReverseSelection ==
    /\ Inside("Playlist") /\ list.nav.sel # None
    /\ \/ /\ InList
          /\ Edit(ReverseRange(playlist, Lower, Upper))
          /\ list' = Yanked
          /\ UNCHANGED <<app, search, portOk, up>>
       \/ ~ InList /\ Panics

\* append_at, increase_list_len, and the pasted videos become the selection.
Pasted ==
    LET k == Len(list.clip)
        n == [list.nav EXCEPT !.len = Len(list.shown) + k]
    IN [list EXCEPT !.nav = IncreaseSelectionOffsetBy(Previous(n), Before(k))]

Paste ==
    /\ Inside("Playlist") /\ list.clip # None
    /\ \/ /\ Behind <= Len(playlist)
          /\ ChangePlaylist(AppendAt(playlist, Behind, list.clip))
          /\ list' = Pasted
          /\ loose' = (loose \/ list.clip = <<>>
                         \/ Len(playlist') < Len(list.shown) + Len(list.clip))
          /\ UNCHANGED <<app, search, portOk, up, store>>
       \/ Behind > Len(playlist) /\ Panics

\* Ctrl-v: a name from the system's clipboard.
InsertName ==
    /\ Inside("Playlist")
    /\ \E v \in Videos :
         Edit(Insert(playlist, Least(Behind, Len(playlist)), v))
    /\ UNCHANGED <<app, list, search, portOk, up>>

\* f shows the video's name.
ShowName ==
    /\ Inside("Playlist")
    /\ list.nav.sel # None /\ list.nav.sel < Len(list.shown)
    /\ Shows(Open(app, "VideoName"))

InsertBehind(vs) ==
    Edit(InsertRange(playlist, Least(Behind, Len(playlist)), vs))

\* Enter among the recent files, which are files of the store.
InsertRecent ==
    /\ Inside("Recently")
    /\ \E r \in Slices(store) : InsertBehind(r)
    /\ UNCHANGED <<app, list, search, portOk, up>>

\* parse_commands: those that change the playlist, and the others.
Command ==
    /\ On("Command")
    /\ app' = ResetOverlay(app)
    /\ \/ \E v \in Videos : EditIf(RemoveByVideo(playlist, v))
       \/ \E v \in Videos, i \in 0 .. Len(playlist) : Edit(MoveVideo(playlist, v, i))
       \/ \E v \in Videos : Edit(Insert(playlist, 0, v))
       \/ UNCHANGED <<cellVars, loose>>
    /\ UNCHANGED <<list, search, portOk, up>>

\* The playlist browser's list may not hold what is selected.
PlaylistBrowser ==
    /\ On("PlaylistBrowser")
    /\ app' = ResetOverlay(app)
    /\ \/ \E p \in Saved : Edit(p)
       \/ UNCHANGED <<cellVars, loose>>
    /\ UNCHANGED <<list, search, portOk, up>>

-----------------------------------------------------------------------------
(* Searches.                                                               *)

\* search_browser, search_playlist: a search that is under way is dropped.
StartSearch(w, entries, q) ==
    search' = [search EXCEPT ![w].query = q, ![w].found = Search(entries, q)]

Entries(w) == IF w = "BrowserSearch" THEN store ELSE list.shown

OpenSearch(w) ==
    /\ \/ w = "BrowserSearch" /\ On("Option") /\ app' = Switch(app, w)
       \/ w = "PlaylistSearch" /\ Inside("Playlist") /\ app' = Open(app, w)
    /\ StartSearch(w, Entries(w), Everything)
    /\ UNCHANGED <<list, portOk, up, loose, cellVars>>

TypeQuery(w) ==
    /\ On(w) /\ Act
    /\ \E q \in Queries : StartSearch(w, Entries(w), q)
    /\ UNCHANGED <<app, list, portOk, up, loose, playlist, fresh, store>>

SearchEnds(w) ==
    /\ Key /\ search[w].found # None
    /\ search' = [search EXCEPT ![w].result = search[w].found, ![w].found = None]
    /\ UNCHANGED <<app, list, portOk, up, loose, cellVars>>

\* get_selected: nothing without a result or with an empty one.
Chosen(w) == IF search[w].result = None THEN {} ELSE Slices(search[w].result)

CloseSearch(w) ==
    /\ app' = ResetOverlay(app)
    /\ search' = [search EXCEPT ![w] = EmptySearch(Everything)]

LeaveSearch(w) ==
    /\ On(w) /\ CloseSearch(w)
    /\ UNCHANGED <<list, portOk, up, loose, cellVars>>

TakeFiles ==
    /\ On("BrowserSearch") /\ CloseSearch("BrowserSearch")
    /\ \E r \in Chosen("BrowserSearch") : InsertBehind(r)
    /\ UNCHANGED <<list, portOk, up>>

RemoveAll(p, vs) == FoldLeft(RemoveByVideo, p, vs)

\* move_range: the videos that were found are taken out and put in behind the
\* playlist's cursor.
MoveFound ==
    /\ On("PlaylistSearch") /\ CloseSearch("PlaylistSearch")
    /\ \E r \in Chosen("PlaylistSearch") :
         LET rest == RemoveAll(playlist, r)
         IN Edit(InsertRange(rest, Least(Behind, Len(rest)), r))
    /\ UNCHANGED <<list, portOk, up>>

RemoveFound ==
    /\ On("PlaylistSearch") /\ CloseSearch("PlaylistSearch")
    /\ \E r \in Chosen("PlaylistSearch") : EditIf(RemoveAll(playlist, r))
    /\ UNCHANGED <<list, portOk, up>>

JumpToFound ==
    /\ On("PlaylistSearch") /\ CloseSearch("PlaylistSearch")
    /\ \E r \in Chosen("PlaylistSearch") : list' = JumpTo(r[1])
    /\ loose' = (loose \/ Extended \/ ~ Sound)
    /\ UNCHANGED <<portOk, up, cellVars>>

-----------------------------------------------------------------------------
(* The cells.                                                              *)

\* handle_notify: the widgets take over what changed, and the file search is
\* made again.  The cursor stays where it is until the list is drawn.
TakeOver(l) ==
    LET n == l.nav
        first == IF n.sel = None /\ playlist # <<>> THEN 0 ELSE n.sel
    IN [l EXCEPT !.shown = playlist,
                 !.nav = [n EXCEPT !.len = Len(playlist), !.sel = first]]

Notify ==
    /\ Key /\ fresh
    /\ fresh' = FALSE
    /\ list' = TakeOver(list)
    /\ UNCHANGED <<app, search, portOk, up, loose, playlist, store, acts>>

\* On a tick after something happened: the list that is drawn takes a cursor
\* behind its last entry back there, and away if it has none; what is selected
\* beyond the cursor is not its business.
Redraw ==
    /\ Key /\ list.nav.sel # None /\ Len(list.shown) <= list.nav.sel
    /\ list' = [list EXCEPT !.nav.sel = IF list.shown = <<>> THEN None
                                        ELSE Before(Len(list.shown))]
    /\ UNCHANGED <<app, search, portOk, up, loose, cellVars>>

NotifyStore(s) ==
    /\ Key /\ Act
    /\ store' = s
    /\ StartSearch("BrowserSearch", s, search["BrowserSearch"].query)
    /\ UNCHANGED <<app, list, portOk, up, loose, playlist, fresh>>

RoomPlaylist(p) ==
    /\ Key
    /\ Edit(p)
    /\ UNCHANGED <<app, list, search, portOk, up>>

-----------------------------------------------------------------------------
TermInit ==
    /\ app = [mode |-> "Normal", prev |-> None, overlay |-> None,
              focus |-> "Playlist",
              lit |-> [w \in Widgets |-> IF w = "Playlist" THEN "Hovered"
                                         ELSE "Unselected"]]
    /\ list = [shown |-> <<>>, clip |-> None,
               nav |-> [sel |-> None, upper |-> 0, len |-> 0]]
    /\ search = [w \in {"BrowserSearch", "PlaylistSearch"} |-> EmptySearch(Everything)]
    /\ portOk = TRUE /\ up = "running" /\ loose = FALSE

Searching ==
    \/ \E w \in DOMAIN search :
         OpenSearch(w) \/ TypeQuery(w) \/ SearchEnds(w) \/ LeaveSearch(w)
    \/ TakeFiles \/ MoveFound \/ RemoveFound \/ JumpToFound

Editing ==
    \/ Yank \/ Cut \/ ReverseSelection \/ Paste \/ InsertName \/ InsertRecent
    \/ Command \/ PlaylistBrowser

TermNext ==
    \/ Quit \/ Navigate \/ Inspect \/ Options \/ CloseForm \/ Settings
    \/ PlaylistCursor \/ JumpToPlaying \/ ShowName
    \/ Editing \/ Searching
    \/ Notify \/ Redraw
    \/ \E s \in Stores : NotifyStore(s)
    \/ \E p \in Lists : RoomPlaylist(p)

-----------------------------------------------------------------------------
(* Properties.                                                             *)

\* An overlay is open exactly in the mode that gives it the keys, the mode to
\* come back to is never that one, and the focused widget alone is lit.  In any
\* other shape the terminal would swallow every key.
TermTypeOK ==
    /\ app \in App
    /\ app.mode = "Overlay" <=> app.overlay # None
    /\ app.mode = "Overlay" => app.prev \in {"Normal", "Inspecting"}
    /\ \A w \in Widgets : app.lit[w] # "Unselected" <=> w = app.focus
    /\ list \in List
    /\ search \in [{"BrowserSearch", "PlaylistSearch"} -> Searches]
    /\ portOk \in BOOLEAN /\ up \in {"running", "left", "crashed"}
    /\ loose \in BOOLEAN

\* What is selected with the arrows and x is in the playlist, whatever was
\* pasted, cut or taken over since, as long as the list did not get shorter, no
\* jump carried the selection along and the list was not empty; and cut,
\* reverse and paste panic in those cases only (and Enter in the settings when
\* the port is no number).
SelectionFits ==
    /\ ~ loose /\ list.nav.sel # None =>
         list.nav.sel + list.nav.upper < Len(playlist)
    /\ up = "crashed" => loose \/ ~ portOk
=============================================================================
