------------------------------- MODULE Stream -------------------------------
(***************************************************************************)
(* The local video server of a peer that watches somebody else's file      *)
(* (client/player/video_server/src/lib.rs): the player connects to it and  *)
(* asks for a range of bytes; the server fetches chunk after chunk from    *)
(* the provider, through a cache all connections share.                    *)
(*                                                                         *)
(* Connections, insertions and the core are tasks of a runtime with        *)
(* several threads: between the look into the cache and the wait for a     *)
(* notification other tasks take steps.  Module Share has the way of a     *)
(* request to the provider; here it is asked, answered late or never, and  *)
(* cut off when the provider stops.  Bytes are counted in small units, and *)
(* a chunk is known by the positions it holds.                             *)
(***************************************************************************)
EXTENDS Integers, FiniteSets, FiniteSetsExt, Functions

CONSTANTS
    Conns,     \* connections of the player
    Ranges,    \* what it asks for: the ranges of its HTTP requests
    FileSize,  \* size of the file, as the provider told it
    ChunkSize, \* CHUNK_SIZE
    Capacity,  \* CACHE_ENTRIES
    MaxRetry,  \* MAX_RETRY
    Width,     \* bits of u64
    MaxOpens,  \* bound: connections opened, in all
    NoBound    \* a range without a start, or without an end

\* 2^Width is a number: said for the provers, which know no powers.
ASSUME StreamAssumption ==
    /\ FileSize \in Nat \ {0} /\ ChunkSize \in Nat \ {0}
    /\ Capacity \in Nat \ {0} /\ MaxRetry \in Nat /\ MaxOpens \in Nat
    /\ Width \in Nat /\ 2^Width \in Nat /\ FileSize < 2^Width
    /\ Ranges # {}
    /\ Ranges \subseteq [start : Nat \cup {NoBound}, end : Nat \cup {NoBound}]

VARIABLES
    conn,      \* conn[c]: a connection and how far it is
    cache,     \* what is cached: the length of the chunk at each position
    wanted,    \* requests on their way to the provider
    answers,   \* chunks on their way from the provider, or being inserted
    online,    \* whether the server still runs
    opens      \* counts against MaxOpens

streamVars == <<conn, cache, wanted, answers, online, opens>>

-----------------------------------------------------------------------------
(* Ranges, in u64: what an HTTP range means for a file of this size.       *)

U64 == 2^Width

RangeStart(r) ==
    IF r.start = NoBound /\ r.end # NoBound THEN (FileSize - r.end) % U64
    ELSE IF r.start = NoBound THEN 0 ELSE r.start

RangeEnd(r) ==
    IF r.end = NoBound \/ (r.start = NoBound /\ r.end # NoBound) THEN FileSize - 1
    ELSE Min({r.end, FileSize - 1})

RangeLength(r) == (RangeEnd(r) - RangeStart(r) + 1) % U64

-----------------------------------------------------------------------------
(* Types.                                                                  *)

Busy == {"wait", "missed", "parked"}

\* A connection: the range it serves, the position it is at, how often it has
\* waited for the chunk there.  "wait" is about to look into the cache,
\* "missed" has looked in vain, "parked" waits for a notification.
Connection ==
    [state : Busy \cup {"closed", "done", "failed"},
     range : Ranges, pos : Nat, tries : 0 .. MaxRetry]

Request == [start : Nat, length : Nat \ {0}]

StreamTypeOK ==
    /\ conn \in [Conns -> Connection]
    /\ DOMAIN cache \subseteq Nat
    /\ \A s \in DOMAIN cache : cache[s] \in Nat
    /\ wanted \subseteq Request
    /\ answers \subseteq Request
    /\ online \in BOOLEAN
    /\ opens \in 0 .. MaxOpens

-----------------------------------------------------------------------------
(* The cache.                                                              *)

Holds(store, s, pos) == s \in DOMAIN store /\ pos \in s .. (s + store[s] - 1)

Put(store, s, length) ==
    [x \in DOMAIN store \cup {s} |-> IF x = s THEN length ELSE store[x]]

\* VideoCache::refresh_chunk: a chunk that contains the position, without
\* beginning there, is entered again from the position on.
Refreshed(store, pos) ==
    IF pos \in DOMAIN store THEN {store}
    ELSE {Put(store, pos, s + store[s] - pos) :
            s \in {x \in DOMAIN store : Holds(store, x, pos)}}

\* VideoCache::request_chunk, the event of the server's handle and the core's
\* ChunkRequest: nothing when the range is through or the position is cached;
\* else the core asks for start..=start + length, one byte more than the
\* server wants.
WantedChunk(pos, end) ==
    LET last == Min({end, pos + ChunkSize})
        length == last - pos + 1
    IN [start |-> pos, length |-> length + 1]

RequestChunk(store, pos, end) ==
    IF pos > end THEN cache' = store /\ UNCHANGED wanted
    ELSE IF Refreshed(store, pos) # {}
         THEN cache' \in Refreshed(store, pos) /\ UNCHANGED wanted
         ELSE /\ cache' = store
              /\ wanted' = wanted \cup {WantedChunk(pos, end)}

\* Sending a request fails when the handle, which holds the receiver, is gone.
CanRequest(pos, end) == pos > end \/ Refreshed(cache, pos) # {} \/ online

-----------------------------------------------------------------------------
(* A connection: process_request, handle_sending, obtain_chunk.            *)

\* The player connects and sends its range.  The connection asks for the first
\* chunk before it answers.
Open(c, r) ==
    /\ online /\ opens < MaxOpens
    /\ conn[c].state \notin Busy
    /\ LET pos == RangeStart(r) end == RangeEnd(r) IN
        /\ RequestChunk(cache, pos, end)
        /\ conn' = [conn EXCEPT ![c] =
             [state |-> IF pos <= end THEN "wait" ELSE "done", range |-> r,
              pos |-> pos, tries |-> 0]]
    /\ opens' = opens + 1
    /\ UNCHANGED <<answers, online>>

\* Where the range goes on once the chunk at a position is written.
BehindFull(pos) == pos + ChunkSize

Behind(pos) == pos + cache[pos]

\* The chunk is cached: go on behind it, ask for the next one, write.  The
\* player may have closed the connection.
ObtainChunk(c) ==
    /\ conn[c].state = "wait"
    /\ conn[c].pos \in DOMAIN cache
    /\ LET pos == Behind(conn[c].pos)
           end == RangeEnd(conn[c].range)
       IN IF CanRequest(pos, end)
          THEN /\ RequestChunk(cache, pos, end)
               /\ \E next \in {IF pos <= end THEN "wait" ELSE "done", "closed"} :
                    conn' = [conn EXCEPT ![c].state = next, ![c].pos = pos,
                                         ![c].tries = 0]
          ELSE /\ conn' = [conn EXCEPT ![c].state = "failed"]
               /\ UNCHANGED <<cache, wanted>>
    /\ UNCHANGED <<answers, online, opens>>

\* wait_for_chunk looks into the cache, in vain ...
Miss(c) ==
    /\ conn[c].state = "wait"
    /\ conn[c].pos \notin DOMAIN cache
    /\ conn' = [conn EXCEPT ![c].state = "missed"]
    /\ UNCHANGED <<cache, wanted, answers, online, opens>>

\* ... and then waits for the next notification.
Park(c) ==
    /\ conn[c].state = "missed"
    /\ conn' = [conn EXCEPT ![c].state = "parked"]
    /\ UNCHANGED <<cache, wanted, answers, online, opens>>

\* The retries of obtain_chunk, and their counter.
MayRetryOnceMore(tries) == tries <= MaxRetry

MayRetry(tries) == tries < MaxRetry

NextTrySame(tries) == tries

NextTry(tries) == tries + 1

\* The wait has taken TIMEOUT: ask again, or give up after MAX_RETRY times, or
\* when the server is gone.
Timeout(c) ==
    /\ conn[c].state \in {"missed", "parked"}
    /\ LET pos == conn[c].pos end == RangeEnd(conn[c].range) IN
       IF online /\ MayRetry(conn[c].tries)
       THEN /\ RequestChunk(cache, pos, end)
            /\ conn' = [conn EXCEPT ![c].state = "wait", ![c].tries = NextTry(@)]
       ELSE /\ conn' = [conn EXCEPT ![c].state = "failed"]
            /\ UNCHANGED <<cache, wanted>>
    /\ UNCHANGED <<answers, online, opens>>

-----------------------------------------------------------------------------
(* The provider, and what comes back from it.                              *)

ProvidedPadded(req) == Min({ChunkSize, req.length})

\* What the provider reads for a request: CHUNK_SIZE at most, and not past the
\* end of the file (FileServer::handle_request).
Provided(req) ==
    Max({0, Min({ChunkSize, req.length, FileSize - req.start})})

Answer(req) ==
    /\ online /\ req \in wanted
    /\ wanted' = wanted \ {req}
    /\ answers' = answers \cup {[start |-> req.start, length |-> Provided(req)]}
    /\ UNCHANGED <<conn, cache, online, opens>>

\* A request or its answer is lost.
Lose(req) ==
    /\ req \in wanted
    /\ wanted' = wanted \ {req}
    /\ UNCHANGED <<conn, cache, answers, online, opens>>

\* ChunkResponseMsg, VideoServer::insert_chunk: a task enters the chunk and
\* wakes whoever is waiting at that moment.
InsertChunk(a) ==
    /\ online /\ a \in answers
    /\ answers' = answers \ {a}
    /\ cache' = Put(cache, a.start, a.length)
    /\ conn' = [c \in Conns |->
         IF conn[c].state = "parked" THEN [conn[c] EXCEPT !.state = "wait"]
         ELSE conn[c]]
    /\ UNCHANGED <<wanted, online, opens>>

\* The cache drops an entry when there are too many: any one.
Evict(s) ==
    /\ Cardinality(DOMAIN cache) > Capacity
    /\ s \in DOMAIN cache
    /\ cache' = Restrict(cache, DOMAIN cache \ {s})
    /\ UNCHANGED <<conn, wanted, answers, online, opens>>

\* The provider stopped, the file ended, or another file was answered: the
\* handle is dropped.  Connections keep the cache.
StopServer ==
    /\ online
    /\ online' = FALSE /\ wanted' = {} /\ answers' = {}
    /\ UNCHANGED <<conn, cache, opens>>

-----------------------------------------------------------------------------

StreamInit ==
    /\ conn = [c \in Conns |->
         [state |-> "closed", range |-> CHOOSE r \in Ranges : TRUE,
          pos |-> 0, tries |-> 0]]
    /\ cache = [s \in {} |-> 0]
    /\ wanted = {} /\ answers = {}
    /\ online = TRUE
    /\ opens = 0

Step(c) == ObtainChunk(c) \/ Miss(c) \/ Park(c) \/ Timeout(c)

StreamNext ==
    \/ \E c \in Conns : Step(c) \/ (\E r \in Ranges : Open(c, r))
    \/ \E req \in wanted : Answer(req) \/ Lose(req)
    \/ \E a \in answers : InsertChunk(a)
    \/ \E s \in DOMAIN cache : Evict(s)
    \/ StopServer

\* The runtime polls every task, and timers run out.  Nobody promises that a
\* provider answers.
StreamFairness ==
    \A c \in Conns :
        /\ WF_streamVars(ObtainChunk(c)) /\ WF_streamVars(Miss(c))
        /\ WF_streamVars(Timeout(c))

StreamSpec == StreamInit /\ [][StreamNext]_streamVars /\ StreamFairness

-----------------------------------------------------------------------------
(* Properties.                                                             *)

\* What a connection has written to the player: everything up to its position.
Written(c) == conn[c].pos - RangeStart(conn[c].range)

\* Chunks hold bytes of the file and nothing else, whichever range they were
\* asked for, cut or entered again for: the player would get garbage, or an
\* empty chunk would keep a connection writing for ever.
ChunksInFile ==
    /\ \A s \in DOMAIN cache : cache[s] > 0 /\ s + cache[s] <= FileSize
    /\ \A a \in answers : a.length > 0 /\ a.start + a.length <= FileSize

\* A connection that is through has written as many bytes as its header said
\* (Content-Length, lib.rs:269), whatever lengths the chunks came in.
LengthKept ==
    \A c \in Conns : conn[c].state = "done" =>
        Written(c) = RangeLength(conn[c].range)

\* A connection gives up only if the chunk it waits for is not there
\* ("wait for a chunk starting at <start> to arrive in the cache", lib.rs:117).
\* The code breaks this one: see README, What the modelling found.
ChunkSeen ==
    [][\A c \in Conns :
         conn[c].state \in Busy /\ conn'[c].state = "failed" /\ online
           => conn[c].pos \notin DOMAIN cache]_streamVars

\* Every connection ends, although answers may be lost, late or evicted and
\* notifications missed: the player is told, and does not wait for ever.
Ends ==
    \A c \in Conns : conn[c].state \in Busy ~> conn[c].state \notin Busy
=============================================================================
