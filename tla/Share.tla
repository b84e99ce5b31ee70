------------------------------- MODULE Share --------------------------------
(***************************************************************************)
(* Sharing a file inside a room: who provides one, how another peer finds  *)
(* and asks for it, and how both ends stop.  A core knows its video        *)
(* provider and its video server (client/core/src: ui.rs, communicator.rs, *)
(* video_provider.rs, video_server.rs); the handler of the peer's swarm is *)
(* provider, consumer or neither (communicator/src/p2p/file_share.rs).     *)
(* The two run as tasks of their own and talk through two queues, so that  *)
(* each works on what the other said a while ago.                          *)
(*                                                                         *)
(* Selections reach each peer in any order (module RoomState has the way   *)
(* they take); what the chunks hold is in module Stream.                   *)
(***************************************************************************)
EXTENDS Naturals, Sequences, FiniteSets

CONSTANTS
    Peers,
    Videos,
    Store,        \* Store[p]: the videos in the file database of p
    AutoSharers,  \* peers with auto_share set
    None,
    MaxActs,      \* bound: what users, the room and the player do
    MaxIds,       \* bound: requests, in all
    MaxFaults     \* bound: requests the network fails or lets time out

ASSUME ShareAssumption ==
    /\ Store \in [Peers -> SUBSET Videos]
    /\ AutoSharers \subseteq Peers
    /\ None \notin Videos /\ None \notin Peers
    /\ MaxActs \in Nat /\ MaxIds \in Nat /\ MaxFaults \in Nat

VARIABLES
    core,       \* core[p]: what the core of p plays, provides and serves
    role,       \* role[p]: file_share of p's handler
    records,    \* kademlia's provider records, at the peers that made them
    published,  \* those ever made: copies of them may be found for a while
    queries,    \* get_providers queries that have not finished
    exchange,   \* requests whose sender waits for an answer
    toShare,    \* toShare[p]: from the core of p to its handler
    toCore,     \* toCore[p]: and back
    ids,        \* requests made so far
    acts,       \* counts against MaxActs
    faults      \* counts against MaxFaults

shareVars == <<core, role, records, published, queries, exchange, toShare,
               toCore, ids, acts, faults>>

-----------------------------------------------------------------------------
(* Messages and roles.                                                     *)

Video == Videos \cup {None}
Id == 1 .. MaxIds

\* Between core and handler, either way.
VideoShare(v) == [type |-> "VideoShare", video |-> v]
FileRequest(id, v) == [type |-> "FileRequest", id |-> id, video |-> v]
FileResponse(id, v) == [type |-> "FileResponse", id |-> id, video |-> v]
ChunkRequest(id, v) == [type |-> "ChunkRequest", id |-> id, video |-> v]
ChunkResponse(id, v) == [type |-> "ChunkResponse", id |-> id, video |-> v]
VideoProviderStopped == [type |-> "VideoProviderStopped"]
Select(v) == [type |-> "Select", video |-> v]

Message ==
    [type : {"VideoShare", "Select"}, video : Video]
      \cup [type : {"FileRequest", "FileResponse", "ChunkRequest", "ChunkResponse"},
            id : Id, video : Video]
      \cup {VideoProviderStopped}

\* playing: mpv's status.file; provider, sized: the file handle, and whether
\* its size is known; reads: chunks it is to read; server: the file of the
\* video server.  ended is history, and no guard reads it: a file has ended
\* since the provider was announced.
CoreState ==
    [playing : Video, provider : Video, sized : BOOLEAN, reads : SUBSET Id,
     server : Video, ended : BOOLEAN]

NoRole == [kind |-> "none"]

\* video: what it provides; files, chunks: requests whose channels it holds.
Provider(v) == [kind |-> "provider", video |-> v, files |-> {}, chunks |-> {}]

\* query, video: its file request; chunks: its chunk requests; from: the peer
\* it asked; known: the providers found (request_providers).
Consumer(id, v, known) ==
    [kind |-> "consumer", query |-> id, video |-> v, chunks |-> {},
     from |-> None, known |-> known, requesting |-> FALSE]

RoleState ==
    {NoRole}
      \cup [kind : {"provider"}, video : Videos, files : SUBSET Id,
            chunks : SUBSET Id]
      \cup [kind : {"consumer"}, query : Id, video : Videos,
            chunks : SUBSET Id, from : Peers \cup {None},
            known : SUBSET Peers, requesting : BOOLEAN]

\* A request on its way ("sent"), with the one asked ("accepted"), or its
\* answer ("ok", "err").
Exchange ==
    [id : Id, kind : {"file", "chunk"}, video : Video, from : Peers, to : Peers,
     stage : {"sent", "accepted", "ok", "err"}]

TypeOK ==
    /\ core \in [Peers -> CoreState]
    /\ \A p \in Peers : role[p] \in RoleState
    /\ records \subseteq Peers \X Videos
    /\ published \subseteq Peers \X Videos
    /\ queries \subseteq Peers \X Id \X Videos
    /\ exchange \subseteq Exchange
    /\ \A p \in Peers : \A i \in DOMAIN toShare[p] : toShare[p][i] \in Message
    /\ \A p \in Peers : \A i \in DOMAIN toCore[p] : toCore[p][i] \in Message
    /\ ids \in 0 .. MaxIds /\ acts \in 0 .. MaxActs /\ faults \in 0 .. MaxFaults

-----------------------------------------------------------------------------
(* The core: what users, the room and the player do.                       *)

Act == acts < MaxActs /\ acts' = acts + 1

Send(p, msgs) == toShare' = [toShare EXCEPT ![p] = @ \o msgs]

\* VideoProvider::start_providing and stop_providing: the handle of before is
\* dropped, with what it was to read.
Providing(c, v) ==
    [c EXCEPT !.provider = v, !.sized = FALSE, !.reads = {}, !.ended = FALSE]

\* VideoChange and SelectMsg: a peer that shares and has the next video too
\* goes on with that, if configured so; all others stop.
SharedNext(p, v) ==
    IF p \in AutoSharers /\ core[p].provider # None /\ v \in Store[p]
    THEN v ELSE None

AnnounceStart(v) == IF v = None THEN <<>> ELSE <<VideoShare(v)>>

Announce(v) == <<VideoShare(v)>>

OpenedSilently(v) == <<>>

\* What FileReady says of the file that is open now.
Opened(v) == Announce(v)

\* A selection in the core: mpv's status keeps the file if there is no next.
Selected(p, v) ==
    [Providing(core[p], SharedNext(p, v)) EXCEPT
        !.playing = IF v = None THEN @ ELSE v]

\* VideoChange: the user selects a video.  What is shared from now on is
\* announced before the selection, which makes the handler forget it again
\* until the file is open (FileReady).
SelectVideo(p, v) ==
    /\ Act
    /\ core' = [core EXCEPT ![p] = Selected(p, v)]
    /\ Send(p, Announce(SharedNext(p, v)) \o <<Select(v)>>)
    /\ UNCHANGED <<role, records, published, queries, exchange, toCore, ids,
                   faults>>

\* PlayerFileEnd: the server stops, the next video of the playlist is loaded, or
\* none, and selected for the room, which makes the handler forget its role.
\* What this peer provides stays, and is not announced again.
FileEnd(p, v) ==
    /\ Act
    /\ core[p].playing # None
    /\ core' = [core EXCEPT ![p] =
         [@ EXCEPT !.playing = v, !.server = None, !.ended = core[p].sized]]
    /\ Send(p, <<Select(v)>>)
    /\ UNCHANGED <<role, records, published, queries, exchange, toCore, ids,
                   faults>>

\* The file that ended is not the playlist's current video: nothing follows it.
OtherFileEnd(p) ==
    /\ Act
    /\ core[p].playing # None
    /\ core' = [core EXCEPT ![p].playing = None, ![p].server = None]
    /\ UNCHANGED <<role, records, published, queries, exchange, toShare, toCore,
                   ids, faults>>

\* FileShareChange: the user turns sharing off, or on if the video that plays
\* is in the database.
FileShareChange(p) ==
    /\ Act
    /\ IF core[p].provider # None
       THEN /\ core' = [core EXCEPT ![p] = Providing(@, None)]
            /\ Send(p, Announce(None))
       ELSE /\ core[p].playing \in Store[p]
            /\ core' = [core EXCEPT ![p] = Providing(@, core[p].playing)]
            /\ UNCHANGED toShare
    /\ UNCHANGED <<role, records, published, queries, exchange, toCore, ids,
                   faults>>

\* FileRequest: the user asks for the video that plays and is not here.
AskForFile(p) ==
    /\ Act /\ ids < MaxIds
    /\ core[p].playing \in Videos \ Store[p]
    /\ ids' = ids + 1
    /\ Send(p, <<FileRequest(ids + 1, core[p].playing)>>)
    /\ UNCHANGED <<core, role, records, published, queries, exchange, toCore,
                   faults>>

\* FileReady: the file is open, its size known; the handler is told.
FileReady(p) ==
    /\ core[p].provider # None /\ ~core[p].sized
    /\ core' = [core EXCEPT ![p].sized = TRUE]
    /\ Send(p, Opened(core[p].provider))
    /\ UNCHANGED <<role, records, published, queries, exchange, toCore, ids,
                   acts, faults>>

\* ChunkResponse of the provider: FileServer has opened the file and read.
ChunkRead(p, id) ==
    /\ core[p].sized /\ id \in core[p].reads
    /\ core' = [core EXCEPT ![p].reads = @ \ {id}]
    /\ Send(p, <<ChunkResponse(id, core[p].provider)>>)
    /\ UNCHANGED <<role, records, published, queries, exchange, toCore, ids,
                   acts, faults>>

\* The video server wants a chunk (video_server.rs, ChunkRequest).
ServerChunk(p) ==
    /\ core[p].server # None
    /\ ids < MaxIds
    /\ ids' = ids + 1
    /\ Send(p, <<ChunkRequest(ids + 1, core[p].server)>>)
    /\ UNCHANGED <<core, role, records, published, queries, exchange, toCore,
                   acts, faults>>

\* The core's handlers of what comes from its handler.  FileRequestMsg: a file
\* that is shared, the one asked for, and open.
Offer(c, v) == IF c.provider = v /\ c.sized THEN v ELSE None

ResponsesIfShared(c, msg) ==
    IF c.provider # msg.video THEN <<>>
    ELSE <<FileResponse(msg.id, Offer(c, msg.video))>>

Responses(c, msg) == <<FileResponse(msg.id, Offer(c, msg.video))>>

\* ChunkRequestMsg (only of the file that is provided), ChunkResponseMsg,
\* FileResponseMsg (the server starts), VideoProviderStopped and SelectMsg.
Handled(p, c, msg) ==
    CASE msg.type = "ChunkRequest" /\ c.provider = msg.video ->
             [c EXCEPT !.reads = @ \cup {msg.id}]
      [] msg.type = "FileResponse" -> [c EXCEPT !.server = msg.video]
      [] msg.type = "VideoProviderStopped" -> [c EXCEPT !.server = None]
      [] msg.type = "Select" -> Selected(p, msg.video)
      [] OTHER -> c

CoreReceive(p) ==
    /\ toCore[p] # <<>>
    /\ LET msg == Head(toCore[p]) IN
        /\ core' = [core EXCEPT ![p] = Handled(p, @, msg)]
        /\ Send(p, CASE msg.type = "FileRequest" -> Responses(core[p], msg)
                     [] msg.type = "Select" -> Announce(SharedNext(p, msg.video))
                     [] OTHER -> <<>>)
    /\ toCore' = [toCore EXCEPT ![p] = Tail(@)]
    /\ UNCHANGED <<role, records, published, queries, exchange, ids, acts,
                   faults>>

-----------------------------------------------------------------------------
(* The handler: messages of the core.                                      *)

Tell(p, msg) == toCore' = [toCore EXCEPT ![p] = Append(@, msg)]

Ask(kind, id, v, p, q) ==
    [id |-> id, kind |-> kind, video |-> v, from |-> p, to |-> q,
     stage |-> "sent"]

At(id, stage, p) ==
    {m \in exchange : m.id = id /\ m.stage = stage /\ m.to = p}

\* An answer on the channel of a request, if the sender still waits.
AnswerWith(p, id, stage) ==
    exchange' = (exchange \ At(id, "accepted", p))
        \cup {[m EXCEPT !.stage = stage] : m \in At(id, "accepted", p)}

\* reset_requests_responses: a provider takes its record back.
Withdrawn(p) ==
    IF role[p].kind = "provider" THEN records \ {<<p, role[p].video>>}
    ELSE records

RecordedNone(p, v) == Withdrawn(p) \cup {<<p, v>>}

\* VideoShareMsg: reset, then provide.
Recorded(p, v) == Withdrawn(p) \cup {<<p, w>> : w \in {v} \ {None}}

ShareVideo(p, v) ==
    /\ role' = [role EXCEPT ![p] = IF v = None THEN NoRole ELSE Provider(v)]
    /\ records' = Recorded(p, v)
    /\ published' = published \cup records'
    /\ UNCHANGED <<queries, exchange, toCore>>

\* FileRequestMsg: a new consumer, which keeps the providers found before.
ShareFileRequest(p, id, v) ==
    /\ role' = [role EXCEPT ![p] =
         Consumer(id, v, IF @.kind = "consumer" THEN @.known ELSE {})]
    /\ records' = Withdrawn(p)
    /\ queries' = queries \cup {<<p, id, v>>}
    /\ UNCHANGED <<published, exchange, toCore>>

\* ChunkRequestMsg: without a consumer the core is told to stop its server.
ShareChunkRequest(p, id, v) ==
    /\ CASE role[p].kind # "consumer" ->
               Tell(p, VideoProviderStopped) /\ UNCHANGED <<role, exchange>>
         [] role[p].kind = "consumer" /\ role[p].from = None ->
               UNCHANGED <<role, exchange, toCore>>
         [] OTHER ->
               /\ role' = [role EXCEPT ![p].chunks = @ \cup {id}]
               /\ exchange' = exchange \cup {Ask("chunk", id, v, p, role[p].from)}
               /\ UNCHANGED toCore
    /\ UNCHANGED <<records, published, queries>>

\* FileResponseMsg and ChunkResponseMsg: the answer goes out on the channel the
\* request came by, if it is still held.  A response without file is an error.
ShareFileResponse(p, id, v) ==
    /\ IF role[p].kind = "provider" /\ id \in role[p].files
       THEN /\ role' = [role EXCEPT ![p].files = @ \ {id}]
            /\ AnswerWith(p, id, IF v = None THEN "err" ELSE "ok")
       ELSE UNCHANGED <<role, exchange>>
    /\ UNCHANGED <<records, published, queries, toCore>>

ShareChunkResponse(p, id) ==
    /\ IF role[p].kind = "provider" /\ id \in role[p].chunks
       THEN /\ role' = [role EXCEPT ![p].chunks = @ \ {id}]
            /\ AnswerWith(p, id, "ok")
       ELSE UNCHANGED <<role, exchange>>
    /\ UNCHANGED <<records, published, queries, toCore>>

\* The selection of the user goes out to the room, and the handler starts anew.
ShareSelect(p) ==
    /\ role' = [role EXCEPT ![p] = NoRole]
    /\ records' = Withdrawn(p)
    /\ UNCHANGED <<published, queries, exchange, toCore>>

ShareReceive(p) ==
    /\ toShare[p] # <<>>
    /\ LET msg == Head(toShare[p]) IN
        \/ msg.type = "VideoShare" /\ ShareVideo(p, msg.video)
        \/ msg.type = "Select" /\ ShareSelect(p)
        \/ msg.type = "FileRequest" /\ ShareFileRequest(p, msg.id, msg.video)
        \/ msg.type = "ChunkRequest" /\ ShareChunkRequest(p, msg.id, msg.video)
        \/ msg.type = "FileResponse" /\ ShareFileResponse(p, msg.id, msg.video)
        \/ msg.type = "ChunkResponse" /\ ShareChunkResponse(p, msg.id)
    /\ toShare' = [toShare EXCEPT ![p] = Tail(@)]
    /\ UNCHANGED <<core, ids, acts, faults>>

-----------------------------------------------------------------------------
(* The handler: the room, kademlia and the requests of other peers.        *)

\* Another peer's selection arrives: the handler starts anew, then the core.
SelectArrives(p, v) ==
    /\ Act
    /\ role' = [role EXCEPT ![p] = NoRole]
    /\ records' = Withdrawn(p)
    /\ Tell(p, Select(v))
    /\ UNCHANGED <<core, published, queries, exchange, toShare, ids, faults>>

\* A selection that goes to the core alone: the one in the host's welcome, and
\* the one a host makes when the selected video is taken off the playlist.
SelectPasses(p, v) ==
    /\ Act
    /\ Tell(p, Select(v))
    /\ UNCHANGED <<core, role, records, published, queries, exchange, toShare,
                   ids, faults>>

\* FileShareConsumer::request_file: once, and only for the consumer's own query.
RequestFile(p, id, known) ==
    LET c == [role[p] EXCEPT !.known = known] IN
    IF c.requesting \/ c.query # id \/ known = {}
    THEN role' = [role EXCEPT ![p] = c] /\ UNCHANGED exchange
    ELSE \E q \in known :
           /\ role' = [role EXCEPT ![p] =
                [c EXCEPT !.from = q, !.requesting = TRUE]]
           /\ exchange' = exchange \cup {Ask("file", id, c.video, p, q)}

\* FoundProviders: some of those that provided the file at some time.
FoundProviders(q, found) ==
    /\ found # {}
    /\ IF role[q[1]].kind = "consumer" THEN RequestFile(q[1], q[2], found)
       ELSE UNCHANGED <<role, exchange>>
    /\ UNCHANGED <<core, records, published, queries, toShare, toCore, ids, acts,
                   faults>>

\* FinishedWithNoAdditionalRecord: the providers known already are asked.
QueryFinished(q) ==
    /\ queries' = queries \ {q}
    /\ IF role[q[1]].kind = "consumer"
       THEN RequestFile(q[1], q[2], role[q[1]].known)
       ELSE UNCHANGED <<role, exchange>>
    /\ UNCHANGED <<core, records, published, toShare, toCore, ids, acts, faults>>

\* A request arrives: its channel is kept and the core asked, or the answer is
\* an error.
AcceptRequest(m) ==
    /\ m.stage = "sent"
    /\ IF role[m.to].kind = "provider"
       THEN /\ role' = IF m.kind = "file"
                       THEN [role EXCEPT ![m.to].files = @ \cup {m.id}]
                       ELSE [role EXCEPT ![m.to].chunks = @ \cup {m.id}]
            /\ exchange' = (exchange \ {m}) \cup {[m EXCEPT !.stage = "accepted"]}
            /\ Tell(m.to, IF m.kind = "file" THEN FileRequest(m.id, m.video)
                          ELSE ChunkRequest(m.id, m.video))
       ELSE /\ exchange' = (exchange \ {m}) \cup {[m EXCEPT !.stage = "err"]}
            /\ UNCHANGED <<role, toCore>>
    /\ UNCHANGED <<core, records, published, queries, toShare, ids, acts, faults>>

\* An answer arrives.  An error ends whatever the peer does in sharing, as
\* consumer or as provider; any other answer goes to the core.
HandleResponse(m) ==
    /\ m.stage \in {"ok", "err"}
    /\ exchange' = exchange \ {m}
    /\ IF m.stage = "err"
       THEN /\ role' = [role EXCEPT ![m.from] = NoRole]
            /\ Tell(m.from, VideoProviderStopped)
       ELSE /\ Tell(m.from, IF m.kind = "file" THEN FileResponse(m.id, m.video)
                            ELSE ChunkResponse(m.id, m.video))
            /\ UNCHANGED role
    /\ UNCHANGED <<core, records, published, queries, toShare, ids, acts, faults>>

\* OutboundFailure: only a failed request for a chunk of this consumer ends it.
OutboundFailure(m) ==
    /\ exchange' = exchange \ {m}
    /\ IF role[m.from].kind = "consumer" /\ m.id \in role[m.from].chunks
       THEN /\ role' = [role EXCEPT ![m.from] = NoRole]
            /\ Tell(m.from, VideoProviderStopped)
       ELSE UNCHANGED <<role, toCore>>
    /\ UNCHANGED <<core, records, published, queries, toShare, ids, acts>>

\* The one asked has dropped the channel with its role ...
ChannelDropped(m) ==
    /\ m.stage = "accepted"
    /\ ~ (/\ role[m.to].kind = "provider"
          /\ m.id \in role[m.to].files \cup role[m.to].chunks)
    /\ OutboundFailure(m)
    /\ UNCHANGED faults

\* ... or the request fails on its way or times out.
RequestFails(m) ==
    /\ faults < MaxFaults /\ faults' = faults + 1
    /\ OutboundFailure(m)

-----------------------------------------------------------------------------

Init ==
    /\ core = [p \in Peers |-> [playing |-> None, provider |-> None,
                 sized |-> FALSE, reads |-> {}, server |-> None, ended |-> FALSE]]
    /\ role = [p \in Peers |-> NoRole]
    /\ records = {} /\ published = {} /\ queries = {} /\ exchange = {}
    /\ toShare = [p \in Peers |-> <<>>]
    /\ toCore = [p \in Peers |-> <<>>]
    /\ ids = 0 /\ acts = 0 /\ faults = 0

User(p) ==
    \/ \E v \in Videos : SelectVideo(p, v)
    \/ \E v \in Video :
         SelectArrives(p, v) \/ SelectPasses(p, v) \/ FileEnd(p, v)
    \/ OtherFileEnd(p) \/ FileShareChange(p) \/ AskForFile(p) \/ ServerChunk(p)

Network ==
    \/ \E q \in queries :
         \/ QueryFinished(q)
         \/ \E found \in SUBSET {p \in Peers : <<p, q[3]>> \in published} :
              FoundProviders(q, found)
    \/ \E m \in exchange :
         \/ AcceptRequest(m) \/ HandleResponse(m)
         \/ ChannelDropped(m) \/ RequestFails(m)

Next ==
    \/ \E p \in Peers :
         \/ User(p) \/ FileReady(p) \/ CoreReceive(p) \/ ShareReceive(p)
         \/ \E id \in core[p].reads : ChunkRead(p, id)
    \/ Network

\* Both tasks take what is queued for them, files open, and an open connection
\* delivers.  Nothing is promised of users, of kademlia or of faults.
Fairness ==
    /\ \A p \in Peers :
         /\ WF_shareVars(CoreReceive(p)) /\ WF_shareVars(ShareReceive(p))
         /\ WF_shareVars(FileReady(p))
    /\ WF_shareVars(\E m \in exchange :
          AcceptRequest(m) \/ HandleResponse(m) \/ ChannelDropped(m))

Spec == Init /\ [][Next]_shareVars /\ Fairness

-----------------------------------------------------------------------------
(* Properties.                                                             *)

\* Nothing from the core is on its way to the handler, and no selection on its
\* way back.
Settled(p) ==
    /\ toShare[p] = <<>>
    /\ \A i \in DOMAIN toCore[p] : toCore[p][i].type # "Select"

\* What a handler offers to the room can be found, also after the same video was
\* announced twice (automatic sharing and FileReady) or replaced by another; and
\* the core provides it, whatever stopped or replaced the provider: requests
\* would be accepted and never answered.
AdvertisedIsServed ==
    \A p \in Peers : role[p].kind = "provider" =>
        /\ <<p, role[p].video>> \in records
        /\ Settled(p) => core[p].provider = role[p].video

\* What the user shares is offered to the room from when the file is open until a
\* file ends in this peer's player: the end is selected for the room, the handler
\* forgets what it offers, and the core goes on providing what nobody can find
\* (player/mod.rs:202-209), until it provides anew.  Nor is it so for a peer that
\* also asks for files: an error that answers an old request ends the provider
\* as well (file_share.rs:318).
SharedIsAdvertised ==
    \A p \in Peers :
        (/\ Settled(p) /\ core[p].provider # None /\ core[p].sized
         /\ ~ core[p].ended /\ Store[p] = Videos)
          => role[p].kind = "provider" /\ role[p].video = core[p].provider

\* A request for a file that a provider accepted is answered or its sender is
\* told that it failed: the core answers each, with the file or without, and a
\* provider that goes drops its channels.
FilesAnswered ==
    \A id \in Id :
        (\E m \in exchange : m.id = id /\ m.kind = "file" /\ m.stage = "accepted")
          ~> ~ (\E m \in exchange :
                 m.id = id /\ m.kind = "file" /\ m.stage = "accepted")
=============================================================================
