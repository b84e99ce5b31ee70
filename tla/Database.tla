------------------------------ MODULE Database ------------------------------
(***************************************************************************)
(* The database of the files a peer has (client/core/src/file_database/).  *)
(* An update is a task that crawls the media paths: one crawler per path,  *)
(* which reads its directory entry by entry, spawns a crawler for every    *)
(* subdirectory it meets and joins them when it has read all; what a       *)
(* crawler found goes to the one that joins it.  The core's event loop     *)
(* polls the task and tells the user interface of its progress.  The user  *)
(* starts and stops updates and changes the paths meanwhile.               *)
(*                                                                         *)
(* Paths may contain one another and files may have equal names; the store *)
(* keeps one file of a name.  Directories do not change during an update.  *)
(***************************************************************************)
EXTENDS Naturals, FiniteSets

CONSTANTS
    Dirs,
    Paths,       \* directories a user may choose as media paths
    Names,       \* names of files
    Sub,         \* Sub[d]: the subdirectories of d
    Files,       \* Files[d]: the names of the files in d
    Unreadable,  \* directories read_dir fails on
    MaxOperations, \* bound: what the user does
    MaxFailures    \* bound: entries that cannot be read

ASSUME DatabaseAssumption ==
    /\ IsFiniteSet(Dirs)
    /\ Sub \in [Dirs -> SUBSET Dirs] /\ Files \in [Dirs -> SUBSET Names]
    /\ Paths \subseteq Dirs /\ Unreadable \subseteq Dirs
    /\ MaxOperations \in Nat /\ MaxFailures \in Nat

VARIABLES
    paths,     \* paths
    update,    \* update: whether there is a task, the crawlers it still has
               \* to join, what it found, and whether progress was told
    crawler,   \* crawler[<<p, d>>]: the crawler of d below path p
    progress,  \* UpdateProgressTracker
    stopped,   \* an update was stopped and the loop has not told so
    store,     \* FileStore: one file <<directory, name>> for each name
    shown,     \* what the interface was told: the store, and ratio 1.0
    scanned,   \* history: the paths the store was made from
    faulty,    \* history: something could not be read for the store
    operations, failures

dbVars == <<paths, update, crawler, progress, stopped, store, shown, scanned,
            faulty, operations, failures>>

-----------------------------------------------------------------------------
File == Dirs \X Names
Task == Paths \X Dirs

Entry == [kind : {"dir"}, dir : Dirs] \cup [kind : {"file"}, name : Names]

Entries(d) == [kind : {"dir"}, dir : Sub[d]] \cup [kind : {"file"}, name : Files[d]]

\* left: entries to read; kids: crawlers to join.
Crawler ==
    [stage : {"none", "spawned", "reading", "joining", "ok", "err"},
     left : SUBSET Entry, kids : SUBSET Dirs, found : SUBSET File]

NoCrawler == [stage |-> "none", left |-> {}, kids |-> {}, found |-> {}]
Spawned == [NoCrawler EXCEPT !.stage = "spawned"]

NoUpdate == [on |-> FALSE, told |-> FALSE, roots |-> {}, of |-> {},
             found |-> {}, faulty |-> FALSE]

Update ==
    [on : BOOLEAN, told : BOOLEAN, roots : SUBSET Paths, of : SUBSET Paths,
     found : SUBSET File, faulty : BOOLEAN]

NoProgress == [queued |-> 0, finished |-> 0]
PercentIsFull == progress.finished >= progress.queued

\* FromIterator for FileStore: of the files of a name one is kept, the one
\* that came first; crawlers end in any order.
Stores(found) ==
    {s \in SUBSET found :
        /\ {f[2] : f \in s} = {f[2] : f \in found}
        /\ \A f, g \in s : f[2] = g[2] => f = g}

\* find_file: a binary search in the store, which is sorted by name.
FindFile(s, n) == {f \in s : f[2] = n}

DatabaseTypeOK ==
    /\ paths \subseteq Paths
    /\ update \in Update
    /\ crawler \in [Task -> Crawler]
    /\ progress \in [queued : Nat, finished : Nat]
    /\ progress.finished <= progress.queued
    /\ stopped \in BOOLEAN /\ ~ (stopped /\ update.on)
    /\ store \subseteq File
    /\ \A n \in Names : Cardinality(FindFile(store, n)) <= 1
    /\ shown \in [full : BOOLEAN, store : SUBSET File]
    /\ scanned \subseteq Paths /\ faulty \in BOOLEAN
    /\ operations \in 0 .. MaxOperations /\ failures \in 0 .. MaxFailures

-----------------------------------------------------------------------------
(* Starting and stopping.                                                  *)

\* start_update: nothing happens while there is a task.  The counters go on
\* from the update before.
Started(p) ==
    [update |-> [NoUpdate EXCEPT !.on = TRUE, !.roots = p, !.of = p],
     crawler |-> [t \in Task |-> IF t[1] \in p /\ t[2] = t[1] THEN Spawned
                                 ELSE NoCrawler]]

StartUpdateStillStopped(p) ==
    IF update.on THEN UNCHANGED <<update, crawler, stopped>>
    ELSE /\ update' = Started(p).update
         /\ crawler' = Started(p).crawler
         /\ UNCHANGED stopped

StartUpdate(p) ==
    IF update.on THEN UNCHANGED <<update, crawler, stopped>>
    ELSE /\ update' = Started(p).update
         /\ crawler' = Started(p).crawler
         /\ stopped' = FALSE

Operate == operations < MaxOperations /\ operations' = operations + 1

UserStarts ==
    /\ Operate
    /\ StartUpdate(paths)
    /\ UNCHANGED <<paths, progress, store, shown, scanned, faulty, failures>>

\* ChangePaths: clear_paths, add_path for each, start_update.
ChangePaths(p) ==
    /\ Operate
    /\ paths' = p
    /\ StartUpdate(p)
    /\ UNCHANGED <<progress, store, shown, scanned, faulty, failures>>

\* stop_update: the crawlers are aborted with the task.
StopUpdate ==
    /\ Operate
    /\ IF update.on
       THEN /\ update' = NoUpdate
            /\ crawler' = [t \in Task |-> NoCrawler]
            /\ progress' = NoProgress
            /\ stopped' = TRUE
       ELSE UNCHANGED <<update, crawler, progress, stopped>>
    /\ UNCHANGED <<paths, store, shown, scanned, faulty, failures>>

-----------------------------------------------------------------------------
(* Crawlers.                                                               *)

Crawl(t, c) == crawler' = [crawler EXCEPT ![t] = c]

\* complete, up to read_dir.  The permit of the semaphore is never awaited: it
\* holds nobody up.
ReadDir(t) ==
    /\ crawler[t].stage = "spawned"
    /\ progress' = [progress EXCEPT !.queued = @ + 1]
    /\ Crawl(t, IF t[2] \in Unreadable THEN [crawler[t] EXCEPT !.stage = "err"]
                ELSE [crawler[t] EXCEPT !.stage = "reading",
                                        !.left = Entries(t[2])])
    /\ UNCHANGED <<paths, update, stopped, store, shown, scanned, faulty, operations,
                   failures>>

\* handle_entry: a subdirectory gets a crawler, a file is inserted.
HandleEntry(t, e) ==
    /\ crawler[t].stage = "reading" /\ e \in crawler[t].left
    /\ LET c == [crawler[t] EXCEPT !.left = @ \ {e}]
       IN \/ /\ e.kind = "dir"
             /\ crawler' = [crawler EXCEPT
                  ![t] = [c EXCEPT !.kids = @ \cup {e.dir}],
                  ![<<t[1], e.dir>>] = Spawned]
          \/ /\ e.kind = "file"
             /\ Crawl(t, [c EXCEPT !.found = @ \cup {<<t[2], e.name>>}])
    /\ UNCHANGED <<paths, update, progress, stopped, store, shown, scanned,
                   faulty, operations, failures>>

\* An entry of no known type is left out (all), or next_entry fails, which
\* ends the reading.
EntryFails(t, all) ==
    /\ failures < MaxFailures /\ failures' = failures + 1
    /\ crawler[t].stage = "reading"
    /\ \E e \in crawler[t].left :
         Crawl(t, [crawler[t] EXCEPT !.left = IF all THEN {} ELSE @ \ {e}])
    /\ update' = [update EXCEPT !.faulty = TRUE]
    /\ UNCHANGED <<paths, progress, stopped, store, shown, scanned, faulty,
                   operations>>

\* Everything is read: finish_subdirs.
FinishSubdirs(t) ==
    /\ crawler[t].stage = "reading" /\ crawler[t].left = {}
    /\ Crawl(t, [crawler[t] EXCEPT !.stage = "joining"])
    /\ UNCHANGED <<paths, update, progress, stopped, store, shown, scanned,
                   faulty, operations, failures>>

JoinNextPropagates(t, d) ==
    /\ crawler[t].stage = "joining" /\ d \in crawler[t].kids
    /\ LET kid == crawler[<<t[1], d>>]
       IN /\ kid.stage \in {"ok", "err"}
          /\ crawler' = [crawler EXCEPT
               ![t] = IF kid.stage = "err" THEN [NoCrawler EXCEPT !.stage = "err"]
                      ELSE [@ EXCEPT !.kids = @ \ {d}, !.found = @ \cup kid.found],
               ![<<t[1], d>>] = NoCrawler]
    /\ UNCHANGED <<paths, update, progress, stopped, store, shown, scanned,
                   faulty, operations, failures>>

\* join_next: what a subdirectory's crawler found, or nothing if it failed.
JoinNext(t, d) ==
    /\ crawler[t].stage = "joining" /\ d \in crawler[t].kids
    /\ LET kid == crawler[<<t[1], d>>]
           c == [crawler[t] EXCEPT !.kids = @ \ {d}, !.found = @ \cup kid.found]
       IN /\ kid.stage \in {"ok", "err"}
          /\ crawler' = [crawler EXCEPT ![t] = c, ![<<t[1], d>>] = NoCrawler]
    /\ UNCHANGED <<paths, update, progress, stopped, store, shown, scanned,
                   faulty, operations, failures>>

\* The end of complete.
Finish(t) ==
    /\ crawler[t].stage = "joining" /\ crawler[t].kids = {}
    /\ progress' = [progress EXCEPT !.finished = @ + 1]
    /\ Crawl(t, [crawler[t] EXCEPT !.stage = "ok"])
    /\ UNCHANGED <<paths, update, stopped, store, shown, scanned, faulty, operations,
                   failures>>

\* update_all joins the crawler of a path.
JoinPath(p) ==
    /\ p \in update.roots /\ crawler[<<p, p>>].stage \in {"ok", "err"}
    /\ update' = [update EXCEPT !.roots = @ \ {p},
                                !.found = @ \cup crawler[<<p, p>>].found]
    /\ Crawl(<<p, p>>, NoCrawler)
    /\ UNCHANGED <<paths, progress, stopped, store, shown, scanned, faulty,
                   operations, failures>>

-----------------------------------------------------------------------------
(* The core's loop: FileDatabase::event and the handlers of what it gives. *)

\* UpdateProgress: at once after a start, then every 100 ms.
TellProgress ==
    /\ ~ stopped /\ update.on
    /\ update' = [update EXCEPT !.told = TRUE]
    /\ shown' = [shown EXCEPT !.full = PercentIsFull]
    /\ UNCHANGED <<paths, crawler, progress, stopped, store, scanned, faulty,
                   operations, failures>>

\* UpdateComplete of an update that was stopped: the store is the old one.
TellStopped ==
    /\ stopped /\ stopped' = FALSE
    /\ shown' = [full |-> TRUE, store |-> store]
    /\ UNCHANGED <<paths, update, crawler, progress, store, scanned, faulty,
                   operations, failures>>

\* The task is polled between two reports of progress, and has ended.
TellComplete ==
    /\ ~ stopped /\ update.on /\ update.told /\ update.roots = {}
    /\ store' \in Stores(update.found)
    /\ shown' = [full |-> TRUE, store |-> store']
    /\ scanned' = update.of /\ faulty' = update.faulty
    /\ update' = NoUpdate
    /\ UNCHANGED <<paths, crawler, progress, stopped, operations, failures>>

-----------------------------------------------------------------------------
\* FileDatabase::new starts an update at once; default, for
\* --skip-database-refresh, has no paths.
DatabaseInit ==
    /\ \/ \E p \in SUBSET Paths :
            /\ paths = p
            /\ update = Started(p).update /\ crawler = Started(p).crawler
       \/ /\ paths = {} /\ update = NoUpdate
          /\ crawler = [t \in Task |-> NoCrawler]
    /\ progress = NoProgress /\ stopped = FALSE
    /\ store = {} /\ shown = [full |-> FALSE, store |-> {}]
    /\ scanned = {} /\ faulty = FALSE /\ operations = 0 /\ failures = 0

CrawlerStep(t) ==
    \/ ReadDir(t) \/ FinishSubdirs(t) \/ Finish(t)
    \/ \E e \in crawler[t].left : HandleEntry(t, e)
    \/ \E d \in crawler[t].kids : JoinNext(t, d)

Operation ==
    \/ UserStarts \/ StopUpdate
    \/ \E p \in SUBSET Paths : ChangePaths(p)

DatabaseNext ==
    \/ Operation
    \/ \E t \in Task :
         CrawlerStep(t) \/ (\E all \in BOOLEAN : EntryFails(t, all))
    \/ \E p \in Paths : JoinPath(p)
    \/ TellProgress \/ TellStopped \/ TellComplete

\* The runtime runs every task, and the core's loop polls the database.  That
\* a task that has ended is polled in time needs rounds of the loop shorter
\* than the 100 ms after which event prefers to report progress.
DatabaseFairness ==
    /\ \A t \in Task : WF_dbVars(CrawlerStep(t))
    /\ \A p \in Paths : WF_dbVars(JoinPath(p))
    /\ WF_dbVars(TellProgress /\ ~ update.told)
    /\ WF_dbVars(TellStopped) /\ WF_dbVars(TellComplete)

DatabaseSpec == DatabaseInit /\ [][DatabaseNext]_dbVars /\ DatabaseFairness

-----------------------------------------------------------------------------
(* Properties.                                                             *)

\* The directories an update over paths p can get at.
Reached(p) ==
    LET at[n \in 0 .. Cardinality(Dirs)] ==
          IF n = 0 THEN p \ Unreadable
          ELSE at[n - 1] \cup (UNION {Sub[d] : d \in at[n - 1]} \ Unreadable)
    IN at[Cardinality(Dirs)]

\* An update that is under way comes to an end, stopped or not, whatever could
\* not be read: the interface is told so and shows the store, and the store
\* has a file for every name in a directory that can be reached from the paths
\* the update began with, and no other (updater.rs:65, mod.rs:245, 269).
UpdatesArrive ==
    update.on ~>
        /\ ~ update.on /\ ~ stopped
        /\ shown = [full |-> TRUE, store |-> store]
        /\ faulty \/ {f[2] : f \in store} = UNION {Files[d] : d \in Reached(scanned)}
=============================================================================
