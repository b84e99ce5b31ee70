----------------------------- MODULE FileProofs -----------------------------
(***************************************************************************)
(* Proofs about shared files: module Share, who offers a file, module      *)
(* Stream, the video server that plays one, and module Database, the files *)
(* a peer has.                                                             *)
(*                                                                         *)
(* Share, for any peers, videos and databases.  Core and handler of a peer *)
(* talk through queues, so the argument is about what the handler will     *)
(* have become once it has read its queue: it offers a video if the last   *)
(* message that gives it a role says so, or if there is none and it offers *)
(* that video already (Offers).  Every step of the core puts behind the    *)
(* queue what agrees with what it provides from then on, and a step of the *)
(* handler takes what it becomes from the front: what will be offered is   *)
(* provided (Served), and what is shared will be offered (Offered), unless *)
(* a selection is on its way to the core, which will announce again.       *)
(*                                                                         *)
(* Stream, for every number of connections, every size of file, chunk and  *)
(* cache and whatever ranges the player asks for.  The argument follows a  *)
(* chunk around.  A request begins inside the file, because a connection   *)
(* asks only for positions up to the end of its range, which is inside it  *)
(* (Asked); so the provider has a byte to read, and does not read past the *)
(* end (Answered); so a chunk in the cache is not empty and ends in the    *)
(* file, and so does what refresh_chunk cuts off it (Cached); so a         *)
(* connection that goes on behind a chunk has gone on, and no further than *)
(* the file goes (Placed).                                                 *)
(*                                                                         *)
(* Database, for every finite set of directories, whatever their           *)
(* subdirectories are.  A crawler that is reading or joining has counted   *)
(* itself as queued and not yet as finished (Balanced), so no more finish  *)
(* than were queued.  What a crawler reads and found is in a directory     *)
(* below the paths the update began with, and so is what is joined from it *)
(* (Belongs, Traced); a stopped update takes its crawlers with it.         *)
(***************************************************************************)
EXTENDS Share, Stream, Database, SequenceTheorems, FiniteSetTheorems, TLAPS

-----------------------------------------------------------------------------
(* Share: the inductive invariant.                                         *)

Typed ==
    /\ core \in [Peers -> CoreState]
    /\ role \in [Peers -> RoleState]
    /\ records \subseteq Peers \X Videos
    /\ published \subseteq Peers \X Videos
    /\ queries \subseteq Peers \X Id \X Videos
    /\ exchange \subseteq Exchange
    /\ toShare \in [Peers -> Seq(Message)] /\ toCore \in [Peers -> Seq(Message)]
    /\ ids \in 0 .. MaxIds /\ acts \in 0 .. MaxActs /\ faults \in 0 .. MaxFaults

\* The messages that give the handler another role.
Decides(m) == m.type \in {"VideoShare", "Select", "FileRequest"}

\* With role r and this queue before it a handler ends up offering v.
Offers(queue, r, v) ==
    \/ \E i \in DOMAIN queue :
         /\ queue[i].type = "VideoShare" /\ queue[i].video = v
         /\ \A j \in DOMAIN queue : j > i => ~ Decides(queue[j])
    \/ /\ \A i \in DOMAIN queue : ~ Decides(queue[i])
       /\ r.kind = "provider" /\ r.video = v

\* What it will offer is what the core provides ...
Served(p) ==
    \A v \in Videos : Offers(toShare[p], role[p], v) => core[p].provider = v

HasSelect(queue) == \E i \in DOMAIN queue : queue[i].type = "Select"

\* ... and what the core shares will be offered, unless a selection stops it or
\* a file has ended since.
Offered(p) ==
    (/\ Store[p] = Videos /\ core[p].provider # None /\ core[p].sized
     /\ ~ core[p].ended /\ ~ HasSelect(toCore[p]))
        => Offers(toShare[p], role[p], core[p].provider)

\* An offer is recorded.
Found(p) == role[p].kind = "provider" => <<p, role[p].video>> \in records

\* A peer asks for videos only, and for none if it has all.
Asking(p, queue) ==
    \A i \in DOMAIN queue :
        queue[i].type = "FileRequest" =>
            queue[i].video \in Videos /\ Store[p] # Videos

Abstains(p) ==
    Store[p] = Videos =>
        role[p].kind # "consumer" /\ \A m \in exchange : m.from # p

Good(p) ==
    /\ Asking(p, toShare[p]) /\ Abstains(p)
    /\ Found(p) /\ Served(p) /\ Offered(p)

ShareInv == Typed /\ \A p \in Peers : Good(p)

-----------------------------------------------------------------------------
(* Share: messages and queues.                                             *)

LEMMA MessageMade ==
  /\ \A v \in Video : /\ VideoShare(v) \in Message /\ VideoShare(v).type = "VideoShare"
                      /\ VideoShare(v).video = v
                      /\ Select(v) \in Message /\ Select(v).type = "Select"
                      /\ Select(v).video = v
  /\ VideoProviderStopped \in Message
  /\ VideoProviderStopped.type = "VideoProviderStopped"
  /\ \A i \in Id, v \in Video :
        /\ FileRequest(i, v) \in Message /\ FileRequest(i, v).type = "FileRequest"
        /\ FileRequest(i, v).id = i /\ FileRequest(i, v).video = v
        /\ FileResponse(i, v) \in Message /\ FileResponse(i, v).type = "FileResponse"
        /\ ChunkRequest(i, v) \in Message /\ ChunkRequest(i, v).type = "ChunkRequest"
        /\ ChunkResponse(i, v) \in Message /\ ChunkResponse(i, v).type = "ChunkResponse"
BY DEF Message, VideoShare, Select, VideoProviderStopped, FileRequest, FileResponse,
       ChunkRequest, ChunkResponse

\* What a message holds.
LEMMA MessageParts ==
  ASSUME NEW m \in Message
  PROVE  /\ m.type # "VideoProviderStopped" => m.video \in Video
         /\ m.type \in {"FileRequest", "FileResponse", "ChunkRequest", "ChunkResponse"}
              => m.id \in Id
         /\ m.type \in {"VideoShare", "Select", "VideoProviderStopped", "FileRequest",
                        "FileResponse", "ChunkRequest", "ChunkResponse"}
BY DEF Message, VideoProviderStopped

\* One message behind a queue.
LEMMA OneBehind ==
  ASSUME NEW queue \in Seq(Message), NEW m \in Message
  PROVE  /\ queue \o <<m>> \in Seq(Message)
         /\ \A r, v : Offers(queue \o <<m>>, r, v) <=>
              IF m.type = "VideoShare" THEN m.video = v
              ELSE ~ Decides(m) /\ Offers(queue, r, v)
         /\ \A p : Asking(p, queue \o <<m>>) <=>
              /\ Asking(p, queue)
              /\ m.type = "FileRequest" => m.video \in Videos /\ Store[p] # Videos
         /\ HasSelect(queue \o <<m>>) <=> HasSelect(queue) \/ m.type = "Select"
<1> DEFINE new == queue \o <<m>>
           n == Len(queue)
<1>1. /\ n \in Nat /\ DOMAIN queue = 1 .. n /\ DOMAIN new = 1 .. (n + 1)
      /\ new \in Seq(Message) /\ new[n + 1] = m
      /\ \A i \in 1 .. n : new[i] = queue[i]
  OBVIOUS
<1> HIDE DEF new, n
<1>2. /\ n + 1 \in DOMAIN new /\ \A i \in DOMAIN new : i \in DOMAIN queue \/ i = n + 1
      /\ \A i \in DOMAIN queue : i \in DOMAIN new /\ new[i] = queue[i] /\ n + 1 > i
      /\ \A i \in DOMAIN new : ~ (i > n + 1)
  BY <1>1
<1>3. \A p : Asking(p, new) <=>
        /\ Asking(p, queue)
        /\ m.type = "FileRequest" => m.video \in Videos /\ Store[p] # Videos
  BY <1>1, <1>2 DEF Asking
<1>4. HasSelect(new) <=> HasSelect(queue) \/ m.type = "Select"
  BY <1>1, <1>2 DEF HasSelect
<1>5. ASSUME NEW r, NEW v, m.type = "VideoShare"
      PROVE  Offers(new, r, v) <=> m.video = v
  <2>1. Decides(m)
    BY <1>5 DEF Decides
  <2>2. ASSUME m.video = v
        PROVE  Offers(new, r, v)
    BY <1>1, <1>2, <1>5, <2>2 DEF Offers
  <2>3. ASSUME Offers(new, r, v)
        PROVE  m.video = v
    BY <1>1, <1>2, <2>1, <2>3 DEF Offers
  <2> QED
    BY <2>2, <2>3
<1>6. ASSUME NEW r, NEW v, m.type # "VideoShare", Decides(m)
      PROVE  ~ Offers(new, r, v)
  BY <1>1, <1>2, <1>6 DEF Offers
<1>7. ASSUME NEW r, NEW v, ~ Decides(m)
      PROVE  Offers(new, r, v) <=> Offers(queue, r, v)
  <2>1. m.type # "VideoShare"
    BY <1>7 DEF Decides
  <2>2. ASSUME Offers(new, r, v)
        PROVE  Offers(queue, r, v)
    BY <1>1, <1>2, <2>1, <2>2 DEF Offers
  <2>3. ASSUME Offers(queue, r, v)
        PROVE  Offers(new, r, v)
    BY <1>1, <1>2, <1>7, <2>3 DEF Offers
  <2> QED
    BY <2>2, <2>3
<1>8. ~ Decides(m) => m.type # "VideoShare"
  BY DEF Decides
<1> QED
  BY <1>1, <1>3, <1>4, <1>5, <1>6, <1>7, <1>8 DEF new

\* A handler that takes the first message and takes the role it says.
LEMMA FirstTaken ==
  ASSUME NEW queue \in Seq(Message), queue # <<>>, NEW r, NEW s,
         ~ Decides(Head(queue)) =>
             s.kind = r.kind /\ (r.kind = "provider" => s.video = r.video),
         Head(queue).type = "VideoShare" =>
             \A v \in Videos : s.kind = "provider" /\ s.video = v
                                 <=> Head(queue).video = v,
         Head(queue).type \in {"Select", "FileRequest"} => s.kind # "provider"
  PROVE  /\ Head(queue) \in Message /\ Tail(queue) \in Seq(Message)
         /\ \A v \in Videos : Offers(Tail(queue), s, v) <=> Offers(queue, r, v)
         /\ \A p : Asking(p, queue) =>
              /\ Asking(p, Tail(queue))
              /\ Head(queue).type = "FileRequest" =>
                   Head(queue).video \in Videos /\ Store[p] # Videos
         /\ HasSelect(queue) => HasSelect(Tail(queue)) \/ Head(queue).type = "Select"
<1> DEFINE rest == Tail(queue)
           h == Head(queue)
<1>1. /\ Len(queue) \in Nat \ {0} /\ DOMAIN queue = 1 .. Len(queue)
      /\ DOMAIN rest = 1 .. (Len(queue) - 1)
      /\ \A i \in DOMAIN rest : rest[i] = queue[i + 1]
      /\ h = queue[1] /\ h \in Message /\ rest \in Seq(Message)
  OBVIOUS
<1> HIDE DEF rest
<1>2. /\ 1 \in DOMAIN queue /\ \A i \in DOMAIN rest : i + 1 \in DOMAIN queue
      /\ \A i \in DOMAIN queue : i = 1 \/ (i - 1 \in DOMAIN rest /\ queue[i] = rest[i - 1])
  <2>1. ASSUME NEW i \in DOMAIN queue, i # 1
        PROVE  i - 1 \in DOMAIN rest /\ queue[i] = rest[i - 1]
    <3>1. i - 1 \in DOMAIN rest /\ (i - 1) + 1 = i
      BY <1>1, <2>1
    <3>2. rest[i - 1] = queue[(i - 1) + 1]
      BY <1>1, <3>1
    <3> QED
      BY <3>1, <3>2
  <2>2. 1 \in DOMAIN queue /\ \A i \in DOMAIN rest : i + 1 \in DOMAIN queue
    BY <1>1
  <2> QED
    BY <2>1, <2>2
<1>3. \A p : Asking(p, queue) =>
         /\ Asking(p, rest)
         /\ h.type = "FileRequest" => h.video \in Videos /\ Store[p] # Videos
  BY <1>1, <1>2 DEF Asking
<1>4. HasSelect(queue) => HasSelect(rest) \/ h.type = "Select"
  BY <1>1, <1>2 DEF HasSelect
<1>5. ASSUME NEW v \in Videos, Offers(rest, s, v)
      PROVE  Offers(queue, r, v)
  <2>1. CASE \E i \in DOMAIN rest :
               /\ rest[i].type = "VideoShare" /\ rest[i].video = v
               /\ \A j \in DOMAIN rest : j > i => ~ Decides(rest[j])
    <3>1. PICK i \in DOMAIN rest :
            /\ rest[i].type = "VideoShare" /\ rest[i].video = v
            /\ \A j \in DOMAIN rest : j > i => ~ Decides(rest[j])
      BY <2>1
    <3>2. \A j \in DOMAIN queue : j > i + 1 => j # 1 /\ j - 1 > i
      BY <1>1, <3>1
    <3>3. \A j \in DOMAIN queue : j > i + 1 => ~ Decides(queue[j])
      BY <1>2, <3>1, <3>2
    <3> QED
      BY <1>1, <1>2, <3>1, <3>3 DEF Offers
  <2>2. CASE /\ \A i \in DOMAIN rest : ~ Decides(rest[i])
             /\ s.kind = "provider" /\ s.video = v
    <3>1. \A j \in DOMAIN queue : j # 1 => ~ Decides(queue[j])
      BY <1>2, <2>2
    <3>2. CASE h.type = "VideoShare"
      <4>1. queue[1].type = "VideoShare" /\ queue[1].video = v
        BY <1>1, <2>2, <3>2
      <4>2. \A j \in DOMAIN queue : j > 1 => j # 1
        BY <1>1
      <4> QED
        BY <1>2, <3>1, <4>1, <4>2 DEF Offers
    <3>3. CASE ~ Decides(h)
      BY <1>1, <2>2, <3>1, <3>3 DEF Offers
    <3> QED
      BY <2>2, <3>2, <3>3 DEF Decides
  <2> QED
    BY <1>5, <2>1, <2>2 DEF Offers
<1>6. ASSUME NEW v \in Videos, Offers(queue, r, v)
      PROVE  Offers(rest, s, v)
  <2>1. CASE \E i \in DOMAIN queue :
               /\ queue[i].type = "VideoShare" /\ queue[i].video = v
               /\ \A j \in DOMAIN queue : j > i => ~ Decides(queue[j])
    <3>1. PICK i \in DOMAIN queue :
            /\ queue[i].type = "VideoShare" /\ queue[i].video = v
            /\ \A j \in DOMAIN queue : j > i => ~ Decides(queue[j])
      BY <2>1
    <3>2. CASE i = 1
      <4>1. \A j \in DOMAIN rest : j + 1 > 1
        BY <1>1
      <4>2. \A j \in DOMAIN rest : ~ Decides(rest[j])
        BY <1>1, <1>2, <3>1, <3>2, <4>1
      <4>3. s.kind = "provider" /\ s.video = v
        BY <1>1, <3>1, <3>2
      <4> QED
        BY <4>2, <4>3 DEF Offers
    <3>3. CASE i # 1
      <4>1. i - 1 \in DOMAIN rest /\ rest[i - 1] = queue[i]
        BY <1>2, <3>3
      <4>2. \A j \in DOMAIN rest : j > i - 1 => j + 1 > i
        BY <1>1, <3>1
      <4>3. \A j \in DOMAIN rest : j > i - 1 => ~ Decides(rest[j])
        BY <1>1, <1>2, <3>1, <4>2
      <4> QED
        BY <3>1, <4>1, <4>3 DEF Offers
    <3> QED
      BY <3>2, <3>3
  <2>2. CASE /\ \A i \in DOMAIN queue : ~ Decides(queue[i])
             /\ r.kind = "provider" /\ r.video = v
    <3>1. \A j \in DOMAIN rest : ~ Decides(rest[j])
      BY <1>1, <1>2, <2>2
    <3>2. s.kind = "provider" /\ s.video = v
      BY <1>1, <1>2, <2>2
    <3> QED
      BY <3>1, <3>2 DEF Offers
  <2> QED
    BY <1>6, <2>1, <2>2 DEF Offers
<1> QED
  BY <1>1, <1>3, <1>4, <1>5, <1>6 DEF rest

\* Two messages behind a queue, a selection last.
LEMMA TwoBehind ==
  ASSUME NEW queue \in Seq(Message), NEW a \in Message, NEW b \in Message,
         a.type = "VideoShare", b.type = "Select"
  PROVE  /\ queue \o (<<a>> \o <<b>>) \in Seq(Message)
         /\ \A r, v : ~ Offers(queue \o (<<a>> \o <<b>>), r, v)
         /\ \A p : Asking(p, queue) => Asking(p, queue \o (<<a>> \o <<b>>))
<1> DEFINE one == queue \o <<a>>
<1>1. queue \o (<<a>> \o <<b>>) = one \o <<b>>
  BY ConcatAssociative
<1>2. one \in Seq(Message) /\ \A p : Asking(p, queue) => Asking(p, one)
  BY OneBehind
<1> HIDE DEF one
<1>3. Decides(b)
  BY DEF Decides
<1>4. /\ one \o <<b>> \in Seq(Message)
      /\ \A r, v : ~ Offers(one \o <<b>>, r, v)
      /\ \A p : Asking(p, one) => Asking(p, one \o <<b>>)
  BY <1>2, <1>3, OneBehind
<1> QED
  BY <1>1, <1>2, <1>4

-----------------------------------------------------------------------------
(* Share: what the core provides, roles and requests.                      *)

LEMMA ProvidingTyped ==
  ASSUME NEW c \in CoreState, NEW v \in Video
  PROVE  /\ Providing(c, v) \in CoreState
         /\ Providing(c, v).provider = v /\ ~ Providing(c, v).sized
BY DEF Providing, CoreState

LEMMA SelectedTyped ==
  ASSUME Typed, NEW p \in Peers, NEW v \in Video
  PROVE  /\ SharedNext(p, v) \in Video /\ Selected(p, v) \in CoreState
         /\ Selected(p, v).provider = SharedNext(p, v) /\ ~ Selected(p, v).sized
<1> DEFINE c == Providing(core[p], SharedNext(p, v))
           w == IF v = None THEN c.playing ELSE v
<1>1. SharedNext(p, v) \in Video
  BY DEF SharedNext, Video
<1>2. c \in CoreState /\ c.provider = SharedNext(p, v) /\ ~ c.sized
  BY <1>1, ProvidingTyped DEF Typed
<1>3. Selected(p, v) = [c EXCEPT !.playing = w]
  BY DEF Selected
<1> HIDE DEF c
<1>4. w \in Video
  BY <1>2 DEF CoreState
<1> HIDE DEF w
<1> QED
  BY <1>1, <1>2, <1>3, <1>4 DEF CoreState

ProviderRole == [kind : {"provider"}, video : Videos, files : SUBSET Id,
                 chunks : SUBSET Id]
ConsumerRole == [kind : {"consumer"}, query : Id, video : Videos,
                 chunks : SUBSET Id, from : Peers \cup {None},
                 known : SUBSET Peers, requesting : BOOLEAN]

LEMMA RoleKinds ==
  /\ NoRole \in RoleState /\ NoRole.kind = "none"
  /\ ProviderRole \subseteq RoleState /\ ConsumerRole \subseteq RoleState
  /\ \A r \in RoleState : /\ r.kind = "provider" => r \in ProviderRole
                          /\ r.kind = "consumer" => r \in ConsumerRole
                          /\ r.kind \in {"none", "provider", "consumer"}
BY DEF RoleState, NoRole, ProviderRole, ConsumerRole

LEMMA RolesMade ==
  /\ \A v \in Videos : /\ Provider(v) \in ProviderRole
                       /\ Provider(v).kind = "provider" /\ Provider(v).video = v
  /\ \A i \in Id, v \in Videos, known \in SUBSET Peers :
        Consumer(i, v, known) \in ConsumerRole /\ Consumer(i, v, known).kind = "consumer"
<1>1. ASSUME NEW v \in Videos
      PROVE  /\ Provider(v) \in ProviderRole
             /\ Provider(v).kind = "provider" /\ Provider(v).video = v
  BY DEF Provider, ProviderRole
<1>2. ASSUME NEW i \in Id, NEW v \in Videos, NEW known \in SUBSET Peers
      PROVE  Consumer(i, v, known) \in ConsumerRole
             /\ Consumer(i, v, known).kind = "consumer"
  BY DEF Consumer, ConsumerRole
<1> QED
  BY <1>1, <1>2

LEMMA AskMade ==
  ASSUME NEW kind \in {"file", "chunk"}, NEW i \in Id, NEW v \in Video,
         NEW p \in Peers, NEW q \in Peers
  PROVE  Ask(kind, i, v, p, q) \in Exchange /\ Ask(kind, i, v, p, q).from = p
BY DEF Ask, Exchange

\* An answer changes the stage of requests only.
LEMMA StageChanged ==
  ASSUME NEW m \in Exchange, NEW stage \in {"sent", "accepted", "ok", "err"}
  PROVE  /\ [m EXCEPT !.stage = stage] \in Exchange
         /\ [m EXCEPT !.stage = stage].from = m.from
BY DEF Exchange

LEMMA AnswerTyped ==
  ASSUME Typed, NEW p, NEW id, NEW stage \in {"ok", "err"}, AnswerWith(p, id, stage)
  PROVE  /\ exchange' \subseteq Exchange
         /\ \A m \in exchange' : \E n \in exchange : n.from = m.from
<1> DEFINE old == At(id, "accepted", p)
           new == {[m EXCEPT !.stage = stage] : m \in old}
<1>1. old \subseteq exchange /\ exchange \subseteq Exchange
  BY DEF At, Typed
<1>2. exchange' = (exchange \ old) \cup new
  BY DEF AnswerWith
<1> HIDE DEF old
<1>3. ASSUME NEW m \in new
      PROVE  m \in Exchange /\ \E n \in exchange : n.from = m.from
  <2>1. PICK n \in old : m = [n EXCEPT !.stage = stage]
    OBVIOUS
  <2>2. [n EXCEPT !.stage = stage] \in Exchange /\ [n EXCEPT !.stage = stage].from = n.from
    BY <1>1, StageChanged
  <2> QED
    BY <1>1, <2>1, <2>2
<1> HIDE DEF new
<1> QED
  BY <1>1, <1>2, <1>3

-----------------------------------------------------------------------------
(* Share: steps, seen from one peer.                                       *)

\* A step that leaves what the peer provides and will offer.
LEMMA StaysGood ==
  ASSUME Typed, NEW q \in Peers, Good(q),
         core'[q].provider = core[q].provider, core'[q].sized = core[q].sized,
         core'[q].ended = core[q].ended,
         role'[q].kind = role[q].kind,
         role[q].kind = "provider" => role'[q].video = role[q].video,
         Asking(q, toShare[q]) => Asking(q, toShare'[q]),
         \A v \in Videos : Offers(toShare'[q], role'[q], v)
                             <=> Offers(toShare[q], role[q], v),
         HasSelect(toCore[q]) => HasSelect(toCore'[q]),
         role[q].kind = "provider" /\ <<q, role[q].video>> \in records
            => <<q, role[q].video>> \in records',
         Store[q] # Videos \/ \A m \in exchange' : m.from = q =>
                                 \E n \in exchange : n.from = q
  PROVE  Good(q)'
<1>1. Asking(q, toShare[q])'
  BY DEF Good, Asking
<1>2. Abstains(q)'
  BY DEF Good, Abstains
<1>3. Found(q)'
  BY DEF Good, Found
<1>4. Served(q)'
  BY DEF Good, Served
<1>5. Offered(q)'
  BY DEF Good, Offered, Typed, CoreState, Video
<1> QED
  BY <1>1, <1>2, <1>3, <1>4, <1>5 DEF Good

\* A peer the step does not touch.
LEMMA Untouched ==
  ASSUME Typed, NEW q \in Peers, Good(q),
         core'[q] = core[q], role'[q] = role[q], toShare'[q] = toShare[q],
         toCore'[q] = toCore[q],
         \A v \in Videos : <<q, v>> \in records => <<q, v>> \in records',
         \A m \in exchange' : m.from = q => \E n \in exchange : n.from = q
  PROVE  Good(q)'
<1>1. role[q].kind = "provider" => role[q].video \in Videos
  BY RoleKinds DEF Typed, ProviderRole
<1> QED
  BY <1>1, StaysGood

\* A peer whose handler forgets its role.
LEMMA RoleDropped ==
  ASSUME Typed, NEW q \in Peers, Good(q),
         core'[q] = core[q], role'[q] = NoRole, toShare'[q] = toShare[q],
         Store[q] # Videos \/ HasSelect(toCore'[q]),
         \A m \in exchange' : m.from = q => \E n \in exchange : n.from = q
  PROVE  Good(q)'
<1>1. role'[q].kind = "none"
  BY RoleKinds
<1>2. Asking(q, toShare[q])'
  BY DEF Good, Asking
<1>3. Abstains(q)' /\ Found(q)'
  BY <1>1 DEF Good, Abstains, Found
<1>4. Served(q)'
  BY <1>1 DEF Good, Served, Offers
<1>5. Offered(q)'
  BY DEF Offered
<1> QED
  BY <1>2, <1>3, <1>4, <1>5 DEF Good

-----------------------------------------------------------------------------
(* Share: the core's steps.                                                *)

LEMMA SelectVideoKeeps ==
  ASSUME ShareInv, NEW p \in Peers, NEW v \in Videos, SelectVideo(p, v)
  PROVE  ShareInv'
<1> DEFINE a == VideoShare(SharedNext(p, v))
           b == Select(v)
           c == Selected(p, v)
<1>1. Typed /\ v \in Video
  BY DEF ShareInv, Video
<1>2. /\ c \in CoreState /\ ~ c.sized
      /\ a \in Message /\ a.type = "VideoShare" /\ b \in Message /\ b.type = "Select"
  BY <1>1, SelectedTyped, MessageMade
<1>3. toShare' = [toShare EXCEPT ![p] = @ \o (<<a>> \o <<b>>)]
  BY DEF SelectVideo, Send, Announce
<1>4. /\ core' = [core EXCEPT ![p] = c] /\ acts' \in 0 .. MaxActs
      /\ UNCHANGED <<role, records, published, queries, exchange, toCore, ids, faults>>
  BY <1>1, ShareAssumption DEF SelectVideo, Act, Typed
<1> HIDE DEF a, b, c
<1>5. /\ toShare[p] \o (<<a>> \o <<b>>) \in Seq(Message)
      /\ \A r, w : ~ Offers(toShare[p] \o (<<a>> \o <<b>>), r, w)
      /\ Asking(p, toShare[p]) => Asking(p, toShare[p] \o (<<a>> \o <<b>>))
  <2>1. toShare[p] \in Seq(Message)
    BY <1>1 DEF Typed
  <2> QED
    BY <1>2, <2>1, TwoBehind
<1>6. /\ toShare' \in [Peers -> Seq(Message)] /\ core' \in [Peers -> CoreState]
      /\ toShare'[p] = toShare[p] \o (<<a>> \o <<b>>) /\ core'[p] = c
      /\ \A q \in Peers \ {p} : toShare'[q] = toShare[q] /\ core'[q] = core[q]
  BY <1>1, <1>2, <1>3, <1>4, <1>5 DEF Typed
<1>7. Typed'
  BY <1>1, <1>4, <1>6 DEF Typed
<1>8. Good(p)'
  <2>1. Good(p)
    BY DEF ShareInv
  <2>2. Asking(p, toShare[p])'
    BY <1>5, <1>6, <2>1 DEF Good, Asking
  <2>3. Abstains(p)' /\ Found(p)'
    BY <1>4, <2>1 DEF Good, Abstains, Found
  <2>4. Served(p)' /\ Offered(p)'
    BY <1>2, <1>5, <1>6 DEF Served, Offered
  <2> QED
    BY <2>2, <2>3, <2>4 DEF Good
<1>9. ASSUME NEW q \in Peers, q # p
      PROVE  Good(q)'
  BY <1>1, <1>4, <1>6, <1>9, Untouched DEF ShareInv
<1> QED
  BY <1>7, <1>8, <1>9 DEF ShareInv

\* The end of a file: what is provided from then on is not announced again.
LEMMA FileEndKeeps ==
  ASSUME ShareInv, NEW p \in Peers, NEW v \in Video, FileEnd(p, v)
  PROVE  ShareInv'
<1> DEFINE c == [core[p] EXCEPT !.playing = v, !.server = None, !.ended = core[p].sized]
           m == Select(v)
<1>1. Typed /\ Good(p) /\ core[p] \in CoreState
  BY DEF ShareInv, Typed
<1>2. /\ c \in CoreState /\ c.sized = core[p].sized /\ c.ended = core[p].sized
      /\ m \in Message /\ m.type = "Select" /\ Decides(m)
  <2>1. None \in Video
    BY DEF Video
  <2>2. c \in CoreState /\ c.sized = core[p].sized /\ c.ended = core[p].sized
    BY <1>1, <2>1 DEF CoreState
  <2> QED
    BY <2>2, MessageMade DEF Decides
<1>3. /\ core' = [core EXCEPT ![p] = c] /\ toShare' = [toShare EXCEPT ![p] = @ \o <<m>>]
      /\ acts' \in 0 .. MaxActs
      /\ UNCHANGED <<role, records, published, queries, exchange, toCore, ids, faults>>
  BY <1>1, ShareAssumption DEF FileEnd, Send, Act, Typed
<1> HIDE DEF c, m
<1>4. /\ toShare[p] \o <<m>> \in Seq(Message)
      /\ \A r, w : ~ Offers(toShare[p] \o <<m>>, r, w)
      /\ Asking(p, toShare[p]) => Asking(p, toShare[p] \o <<m>>)
  <2>1. toShare[p] \in Seq(Message)
    BY <1>1 DEF Typed
  <2> QED
    BY <1>2, <2>1, OneBehind
<1>5. /\ toShare' \in [Peers -> Seq(Message)] /\ core' \in [Peers -> CoreState]
      /\ toShare'[p] = toShare[p] \o <<m>> /\ core'[p] = c
      /\ \A q \in Peers \ {p} : toShare'[q] = toShare[q] /\ core'[q] = core[q]
  BY <1>1, <1>2, <1>3, <1>4 DEF Typed
<1>6. Typed'
  BY <1>1, <1>3, <1>5 DEF Typed
<1>7. Good(p)'
  <2>1. Asking(p, toShare[p])'
    BY <1>1, <1>4, <1>5 DEF Good, Asking
  <2>2. Abstains(p)' /\ Found(p)'
    BY <1>1, <1>3 DEF Good, Abstains, Found
  <2>3. Served(p)' /\ Offered(p)'
    BY <1>2, <1>4, <1>5 DEF Served, Offered
  <2> QED
    BY <2>1, <2>2, <2>3 DEF Good
<1>8. ASSUME NEW q \in Peers, q # p
      PROVE  Good(q)'
  BY <1>1, <1>3, <1>5, <1>8, Untouched DEF ShareInv
<1> QED
  BY <1>6, <1>7, <1>8 DEF ShareInv

\* A step that changes what plays or is served only.
LEMMA OtherFileEndKeeps ==
  ASSUME ShareInv, NEW p \in Peers, OtherFileEnd(p)
  PROVE  ShareInv'
<1>1. Typed
  BY DEF ShareInv
<1> DEFINE c == [core[p] EXCEPT !.playing = None, !.server = None]
<1>2. /\ c \in CoreState /\ c.provider = core[p].provider /\ c.sized = core[p].sized
      /\ c.ended = core[p].ended
  BY <1>1 DEF CoreState, Typed, Video
<1>3. /\ core' = [core EXCEPT ![p] = c]
      /\ UNCHANGED <<role, records, published, queries, exchange, toShare, toCore, ids,
                     faults>>
  BY DEF OtherFileEnd
<1>4. acts' \in 0 .. MaxActs
  BY <1>1, ShareAssumption DEF OtherFileEnd, Act, Typed
<1> HIDE DEF c
<1>5. /\ core' \in [Peers -> CoreState]
      /\ \A q \in Peers : /\ core'[q].provider = core[q].provider
                          /\ core'[q].sized = core[q].sized
                          /\ core'[q].ended = core[q].ended
  BY <1>1, <1>2, <1>3 DEF Typed
<1>6. Typed'
  BY <1>1, <1>3, <1>4, <1>5 DEF Typed
<1>7. ASSUME NEW q \in Peers
      PROVE  Good(q)'
  BY <1>1, <1>3, <1>5, StaysGood DEF ShareInv
<1> QED
  BY <1>6, <1>7 DEF ShareInv

LEMMA FileShareChangeKeeps ==
  ASSUME ShareInv, NEW p \in Peers, FileShareChange(p)
  PROVE  ShareInv'
<1>1. Typed
  BY DEF ShareInv
<1>2. /\ acts' \in 0 .. MaxActs
      /\ UNCHANGED <<role, records, published, queries, exchange, toCore, ids, faults>>
  BY <1>1, ShareAssumption DEF FileShareChange, Act, Typed
<1>3. Good(p)
  BY DEF ShareInv
<1>4. CASE core[p].provider # None
  <2> DEFINE c == Providing(core[p], None)
             m == VideoShare(None)
  <2>1. /\ c \in CoreState /\ c.provider = None
        /\ m \in Message /\ m.type = "VideoShare" /\ m.video = None
    BY <1>1, ProvidingTyped, MessageMade DEF Typed, Video
  <2>2. core' = [core EXCEPT ![p] = c] /\ toShare' = [toShare EXCEPT ![p] = @ \o <<m>>]
    BY <1>4 DEF FileShareChange, Send, Announce
  <2> HIDE DEF c, m
  <2>3. /\ toShare[p] \o <<m>> \in Seq(Message)
        /\ \A r, v : Offers(toShare[p] \o <<m>>, r, v) <=> v = None
        /\ Asking(p, toShare[p]) => Asking(p, toShare[p] \o <<m>>)
    <3>1. toShare[p] \in Seq(Message)
      BY <1>1 DEF Typed
    <3> QED
      BY <2>1, <3>1, OneBehind
  <2>4. /\ toShare' \in [Peers -> Seq(Message)] /\ core' \in [Peers -> CoreState]
        /\ toShare'[p] = toShare[p] \o <<m>> /\ core'[p] = c
        /\ \A q \in Peers \ {p} : toShare'[q] = toShare[q] /\ core'[q] = core[q]
    BY <1>1, <2>1, <2>2, <2>3 DEF Typed
  <2>5. Typed'
    BY <1>1, <1>2, <2>4 DEF Typed
  <2>6. Good(p)'
    <3>1. Asking(p, toShare[p])'
      BY <1>3, <2>3, <2>4 DEF Good, Asking
    <3>2. Abstains(p)' /\ Found(p)'
      BY <1>2, <1>3 DEF Good, Abstains, Found
    <3>3. Served(p)'
      BY <2>3, <2>4, ShareAssumption DEF Served
    <3>4. Offered(p)'
      BY <2>1, <2>4 DEF Offered
    <3> QED
      BY <3>1, <3>2, <3>3, <3>4 DEF Good
  <2>7. ASSUME NEW q \in Peers, q # p
        PROVE  Good(q)'
    BY <1>1, <1>2, <2>4, <2>7, Untouched DEF ShareInv
  <2> QED
    BY <2>5, <2>6, <2>7 DEF ShareInv
<1>5. CASE core[p].provider = None
  <2> DEFINE c == Providing(core[p], core[p].playing)
  <2>1. c \in CoreState /\ ~ c.sized
    BY <1>1, ProvidingTyped DEF Typed, CoreState
  <2>2. core' = [core EXCEPT ![p] = c] /\ toShare' = toShare
    BY <1>5 DEF FileShareChange
  <2> HIDE DEF c
  <2>3. /\ core' \in [Peers -> CoreState] /\ core'[p] = c
        /\ \A q \in Peers \ {p} : core'[q] = core[q]
    BY <1>1, <2>1, <2>2 DEF Typed
  <2>4. Typed'
    BY <1>1, <1>2, <2>2, <2>3 DEF Typed
  <2>5. Good(p)'
    <3>1. \A v \in Videos : ~ Offers(toShare[p], role[p], v)
      BY <1>3, <1>5, ShareAssumption DEF Good, Served
    <3> QED
      BY <1>2, <1>3, <2>1, <2>2, <2>3, <3>1
      DEF Good, Asking, Abstains, Found, Served, Offered
  <2>6. ASSUME NEW q \in Peers, q # p
        PROVE  Good(q)'
    BY <1>1, <1>2, <2>2, <2>3, <2>6, Untouched DEF ShareInv
  <2> QED
    BY <2>4, <2>5, <2>6 DEF ShareInv
<1> QED
  BY <1>4, <1>5

LEMMA AskForFileKeeps ==
  ASSUME ShareInv, NEW p \in Peers, AskForFile(p)
  PROVE  ShareInv'
<1> DEFINE m == FileRequest(ids + 1, core[p].playing)
<1>1. Typed /\ Good(p)
  BY DEF ShareInv
<1>2. /\ core[p].playing \in Videos /\ core[p].playing \in Video /\ Store[p] # Videos
      /\ ids + 1 \in Id
  BY <1>1, ShareAssumption DEF AskForFile, Typed, Video, Id
<1>3. m \in Message /\ m.type = "FileRequest" /\ m.video \in Videos /\ Decides(m)
  BY <1>2, MessageMade DEF Decides
<1>4. /\ toShare' = [toShare EXCEPT ![p] = @ \o <<m>>]
      /\ ids' \in 0 .. MaxIds /\ acts' \in 0 .. MaxActs
      /\ UNCHANGED <<core, role, records, published, queries, exchange, toCore, faults>>
  BY <1>1, ShareAssumption DEF AskForFile, Act, Send, Typed
<1> HIDE DEF m
<1>5. /\ toShare[p] \o <<m>> \in Seq(Message)
      /\ \A r, v : ~ Offers(toShare[p] \o <<m>>, r, v)
      /\ Asking(p, toShare[p]) => Asking(p, toShare[p] \o <<m>>)
  <2>1. toShare[p] \in Seq(Message)
    BY <1>1 DEF Typed
  <2> QED
    BY <1>2, <1>3, <2>1, OneBehind
<1>6. /\ toShare' \in [Peers -> Seq(Message)] /\ toShare'[p] = toShare[p] \o <<m>>
      /\ \A q \in Peers \ {p} : toShare'[q] = toShare[q]
  BY <1>1, <1>4, <1>5 DEF Typed
<1>7. Typed'
  BY <1>1, <1>4, <1>6 DEF Typed
<1>8. Good(p)'
  BY <1>1, <1>2, <1>4, <1>5, <1>6
  DEF Good, Asking, Abstains, Found, Served, Offered
<1>9. ASSUME NEW q \in Peers, q # p
      PROVE  Good(q)'
  BY <1>1, <1>4, <1>6, <1>9, Untouched DEF ShareInv
<1> QED
  BY <1>7, <1>8, <1>9 DEF ShareInv

LEMMA FileReadyKeeps ==
  ASSUME ShareInv, NEW p \in Peers, FileReady(p)
  PROVE  ShareInv'
<1> DEFINE c == [core[p] EXCEPT !.sized = TRUE]
           m == VideoShare(core[p].provider)
<1>1. Typed /\ Good(p)
  BY DEF ShareInv
<1>2. /\ c \in CoreState /\ c.provider = core[p].provider
      /\ m \in Message /\ m.type = "VideoShare" /\ m.video = core[p].provider
  <2>1. core[p] \in CoreState
    BY <1>1 DEF Typed
  <2>2. core[p].provider \in Video /\ c \in CoreState /\ c.provider = core[p].provider
    BY <2>1 DEF CoreState
  <2> QED
    BY <2>2, MessageMade
<1>3. /\ toShare' = [toShare EXCEPT ![p] = @ \o <<m>>] /\ core' = [core EXCEPT ![p] = c]
      /\ UNCHANGED <<role, records, published, queries, exchange, toCore, ids, acts, faults>>
  BY DEF FileReady, Send, Opened, Announce
<1> HIDE DEF c, m
<1>4. /\ toShare[p] \o <<m>> \in Seq(Message)
      /\ \A r, v : Offers(toShare[p] \o <<m>>, r, v) <=> v = core[p].provider
      /\ Asking(p, toShare[p]) => Asking(p, toShare[p] \o <<m>>)
  <2>1. toShare[p] \in Seq(Message)
    BY <1>1 DEF Typed
  <2> QED
    BY <1>2, <2>1, OneBehind
<1>5. /\ toShare' \in [Peers -> Seq(Message)] /\ core' \in [Peers -> CoreState]
      /\ toShare'[p] = toShare[p] \o <<m>> /\ core'[p] = c
      /\ \A q \in Peers \ {p} : toShare'[q] = toShare[q] /\ core'[q] = core[q]
  BY <1>1, <1>2, <1>3, <1>4 DEF Typed
<1>6. Typed'
  BY <1>1, <1>3, <1>5 DEF Typed
<1>7. Good(p)'
  BY <1>1, <1>2, <1>3, <1>4, <1>5
  DEF Good, Asking, Abstains, Found, Served, Offered
<1>8. ASSUME NEW q \in Peers, q # p
      PROVE  Good(q)'
  BY <1>1, <1>3, <1>5, <1>8, Untouched DEF ShareInv
<1> QED
  BY <1>6, <1>7, <1>8 DEF ShareInv

\* A core that says something to its handler that leaves its role.
LEMMA CoreSays ==
  ASSUME ShareInv, NEW p \in Peers, NEW m \in Message, ~ Decides(m),
         toShare' = [toShare EXCEPT ![p] = @ \o <<m>>],
         core' \in [Peers -> CoreState],
         \A q \in Peers : /\ core'[q].provider = core[q].provider
                          /\ core'[q].sized = core[q].sized
                          /\ core'[q].ended = core[q].ended,
         toCore' \in [Peers -> Seq(Message)],
         \A q \in Peers : HasSelect(toCore[q]) => HasSelect(toCore'[q]),
         ids' \in 0 .. MaxIds,
         UNCHANGED <<role, records, published, queries, exchange, acts, faults>>
  PROVE  ShareInv'
<1>1. Typed
  BY DEF ShareInv
<1>2. m.type # "FileRequest" /\ m.type # "VideoShare"
  BY DEF Decides
<1>3. /\ toShare[p] \o <<m>> \in Seq(Message)
      /\ \A r, v : Offers(toShare[p] \o <<m>>, r, v) <=> Offers(toShare[p], r, v)
      /\ Asking(p, toShare[p]) => Asking(p, toShare[p] \o <<m>>)
  <2>1. toShare[p] \in Seq(Message)
    BY <1>1 DEF Typed
  <2> QED
    BY <1>2, <2>1, OneBehind
<1>4. /\ toShare' \in [Peers -> Seq(Message)] /\ toShare'[p] = toShare[p] \o <<m>>
      /\ \A q \in Peers \ {p} : toShare'[q] = toShare[q]
  BY <1>1, <1>3 DEF Typed
<1>5. Typed'
  BY <1>1, <1>4 DEF Typed
<1>6. ASSUME NEW q \in Peers
      PROVE  Good(q)'
  <2>1. \A v \in Videos : Offers(toShare'[q], role'[q], v)
                            <=> Offers(toShare[q], role[q], v)
    BY <1>3, <1>4
  <2>2. Asking(q, toShare[q]) => Asking(q, toShare'[q])
    BY <1>3, <1>4
  <2> QED
    BY <1>1, <2>1, <2>2, StaysGood DEF ShareInv
<1> QED
  BY <1>5, <1>6 DEF ShareInv

LEMMA ChunkReadKeeps ==
  ASSUME ShareInv, NEW p \in Peers, NEW id \in core[p].reads, ChunkRead(p, id)
  PROVE  ShareInv'
<1> DEFINE c == [core[p] EXCEPT !.reads = @ \ {id}]
           m == ChunkResponse(id, core[p].provider)
<1>1. Typed /\ core[p] \in CoreState
  BY DEF ShareInv, Typed
<1>2. /\ c \in CoreState /\ c.provider = core[p].provider /\ c.sized = core[p].sized
      /\ c.ended = core[p].ended /\ id \in Id /\ core[p].provider \in Video
  BY <1>1 DEF CoreState
<1>3. m \in Message /\ ~ Decides(m)
  BY <1>2, MessageMade DEF Decides
<1>4. /\ core' = [core EXCEPT ![p] = c] /\ toShare' = [toShare EXCEPT ![p] = @ \o <<m>>]
      /\ UNCHANGED <<role, records, published, queries, exchange, toCore, ids, acts, faults>>
  BY DEF ChunkRead, Send
<1> HIDE DEF c, m
<1>5. /\ core' \in [Peers -> CoreState]
      /\ \A q \in Peers : /\ core'[q].provider = core[q].provider
                          /\ core'[q].sized = core[q].sized
                          /\ core'[q].ended = core[q].ended
  BY <1>1, <1>2, <1>4 DEF Typed
<1> QED
  BY <1>1, <1>3, <1>4, <1>5, CoreSays DEF Typed

LEMMA ServerChunkKeeps ==
  ASSUME ShareInv, NEW p \in Peers, ServerChunk(p)
  PROVE  ShareInv'
<1> DEFINE m == ChunkRequest(ids + 1, core[p].server)
<1>1. Typed /\ core[p] \in CoreState
  BY DEF ShareInv, Typed
<1>2. ids + 1 \in Id /\ ids + 1 \in 0 .. MaxIds /\ core[p].server \in Video
  BY <1>1, ShareAssumption DEF ServerChunk, Typed, CoreState, Id
<1>3. m \in Message /\ ~ Decides(m)
  BY <1>2, MessageMade DEF Decides
<1>4. /\ toShare' = [toShare EXCEPT ![p] = @ \o <<m>>] /\ ids' = ids + 1
      /\ UNCHANGED <<core, role, records, published, queries, exchange, toCore, acts, faults>>
  BY DEF ServerChunk, Send
<1> HIDE DEF m
<1> QED
  BY <1>1, <1>2, <1>3, <1>4, CoreSays DEF Typed

\* The core takes a message from its handler.
LEMMA TakenByCore ==
  ASSUME Typed, NEW p \in Peers, toCore[p] # <<>>,
         toCore' = [toCore EXCEPT ![p] = Tail(@)]
  PROVE  /\ Head(toCore[p]) \in Message /\ toCore' \in [Peers -> Seq(Message)]
         /\ \A q \in Peers : HasSelect(toCore[q]) =>
              \/ HasSelect(toCore'[q])
              \/ q = p /\ Head(toCore[p]).type = "Select"
         /\ \A q \in Peers \ {p} : toCore'[q] = toCore[q]
<1> DEFINE queue == toCore[p]
           rest == Tail(queue)
<1>1. queue \in Seq(Message) /\ queue # <<>>
  BY DEF Typed
<1> HIDE DEF queue
<1>2. /\ Len(queue) \in Nat \ {0} /\ DOMAIN queue = 1 .. Len(queue)
      /\ DOMAIN rest = 1 .. (Len(queue) - 1)
      /\ \A i \in DOMAIN rest : rest[i] = queue[i + 1]
      /\ Head(queue) = queue[1] /\ Head(queue) \in Message /\ rest \in Seq(Message)
  BY <1>1
<1> HIDE DEF rest
<1>3. HasSelect(queue) => HasSelect(rest) \/ Head(queue).type = "Select"
  <2> SUFFICES ASSUME NEW i \in DOMAIN queue, queue[i].type = "Select", i # 1
               PROVE  HasSelect(rest)
    BY <1>2 DEF HasSelect
  <2>1. i - 1 \in DOMAIN rest /\ (i - 1) + 1 = i
    BY <1>2
  <2>2. rest[i - 1] = queue[i]
    BY <1>2, <2>1
  <2> QED
    BY <2>1, <2>2 DEF HasSelect
<1>4. /\ toCore' \in [Peers -> Seq(Message)] /\ toCore'[p] = rest
      /\ \A q \in Peers \ {p} : toCore'[q] = toCore[q]
  BY <1>2 DEF Typed, queue, rest
<1> QED
  BY <1>2, <1>3, <1>4 DEF queue

LEMMA CoreReceiveKeeps ==
  ASSUME ShareInv, NEW p \in Peers, CoreReceive(p)
  PROVE  ShareInv'
<1> DEFINE m == Head(toCore[p])
           c == Handled(p, core[p], m)
           said == CASE m.type = "FileRequest" -> Responses(core[p], m)
                     [] m.type = "Select" -> Announce(SharedNext(p, m.video))
                     [] OTHER -> <<>>
<1>1. Typed /\ core[p] \in CoreState
  BY DEF ShareInv, Typed
<1>2. /\ m \in Message /\ toCore' \in [Peers -> Seq(Message)]
      /\ \A q \in Peers : HasSelect(toCore[q]) =>
            HasSelect(toCore'[q]) \/ (q = p /\ m.type = "Select")
      /\ \A q \in Peers \ {p} : toCore'[q] = toCore[q]
  BY <1>1, TakenByCore DEF CoreReceive
<1>3. /\ core' = [core EXCEPT ![p] = c] /\ toShare' = [toShare EXCEPT ![p] = @ \o said]
      /\ UNCHANGED <<role, records, published, queries, exchange, ids, acts, faults>>
  BY DEF CoreReceive, Send
<1>4. /\ m.type # "VideoProviderStopped" => m.video \in Video
      /\ m.type \in {"FileRequest", "ChunkRequest"} => m.id \in Id
  BY <1>2, MessageParts
<1> HIDE DEF m
<1>5. CASE m.type # "Select"
  <2>1. /\ c \in CoreState /\ c.provider = core[p].provider
        /\ c.sized = core[p].sized /\ c.ended = core[p].ended
    <3>1. CASE m.type = "ChunkRequest" /\ core[p].provider = m.video
      <4>1. c = [core[p] EXCEPT !.reads = @ \cup {m.id}]
        BY <3>1 DEF Handled
      <4> QED
        BY <1>1, <1>4, <3>1, <4>1 DEF CoreState
    <3>2. CASE m.type = "FileResponse"
      <4>1. c = [core[p] EXCEPT !.server = m.video]
        BY <3>2 DEF Handled
      <4> QED
        BY <1>1, <1>4, <3>2, <4>1 DEF CoreState
    <3>3. CASE m.type = "VideoProviderStopped"
      <4>1. c = [core[p] EXCEPT !.server = None]
        BY <3>3 DEF Handled
      <4> QED
        BY <1>1, <4>1 DEF CoreState, Video
    <3>4. CASE /\ ~ (m.type = "ChunkRequest" /\ core[p].provider = m.video)
               /\ m.type \notin {"FileResponse", "VideoProviderStopped"}
      BY <1>1, <1>5, <3>4 DEF Handled
    <3> QED
      BY <3>1, <3>2, <3>3, <3>4
  <2> HIDE DEF c
  <2>2. /\ core' \in [Peers -> CoreState]
        /\ \A q \in Peers : /\ core'[q].provider = core[q].provider
                            /\ core'[q].sized = core[q].sized
                            /\ core'[q].ended = core[q].ended
    BY <1>1, <1>3, <2>1 DEF Typed
  <2>3. \A q \in Peers : HasSelect(toCore[q]) => HasSelect(toCore'[q])
    BY <1>2, <1>5
  <2>4. CASE m.type = "FileRequest"
    <3> DEFINE answer == FileResponse(m.id, Offer(core[p], m.video))
    <3>1. answer \in Message /\ ~ Decides(answer)
      <4>1. Offer(core[p], m.video) \in Video
        BY <1>4, <2>4 DEF Offer, Video
      <4> QED
        BY <1>4, <2>4, <4>1, MessageMade DEF Decides
    <3>2. said = <<answer>>
      BY <2>4 DEF Responses
    <3> HIDE DEF answer, said
    <3> QED
      BY <1>1, <1>2, <1>3, <2>2, <2>3, <3>1, <3>2, CoreSays DEF Typed
  <2>5. CASE m.type # "FileRequest"
    <3>1. said = <<>>
      BY <1>5, <2>5
    <3> HIDE DEF said
    <3>2. \A q \in Peers : toShare'[q] = toShare[q]
      BY <1>1, <1>3, <3>1 DEF Typed
    <3>3. toShare' \in [Peers -> Seq(Message)]
      BY <1>1, <1>3, <3>1 DEF Typed
    <3>4. Typed'
      BY <1>1, <1>2, <1>3, <2>2, <3>3 DEF Typed
    <3>5. ASSUME NEW q \in Peers
          PROVE  Good(q)'
      BY <1>1, <1>3, <2>2, <2>3, <3>2, StaysGood DEF ShareInv
    <3> QED
      BY <3>4, <3>5 DEF ShareInv
  <2> QED
    BY <2>4, <2>5
<1>6. CASE m.type = "Select"
  <2> DEFINE v == SharedNext(p, m.video)
             a == VideoShare(v)
  <2>1. c = Selected(p, m.video) /\ said = <<a>>
    BY <1>6 DEF Handled, Announce
  <2>2. v \in Video /\ c \in CoreState /\ c.provider = v /\ ~ c.sized
    BY <1>1, <1>4, <1>6, <2>1, SelectedTyped
  <2>3. a \in Message /\ a.type = "VideoShare" /\ a.video = v
    BY <2>2, MessageMade
  <2> HIDE DEF a, c, said, v
  <2>4. /\ toShare[p] \o <<a>> \in Seq(Message)
        /\ \A r, w : Offers(toShare[p] \o <<a>>, r, w) <=> w = v
        /\ Asking(p, toShare[p]) => Asking(p, toShare[p] \o <<a>>)
    <3>1. toShare[p] \in Seq(Message)
      BY <1>1 DEF Typed
    <3> QED
      BY <2>3, <3>1, OneBehind
  <2>5. /\ toShare' \in [Peers -> Seq(Message)] /\ core' \in [Peers -> CoreState]
        /\ toShare'[p] = toShare[p] \o <<a>> /\ core'[p] = c
        /\ \A q \in Peers \ {p} : toShare'[q] = toShare[q] /\ core'[q] = core[q]
    BY <1>1, <1>3, <2>1, <2>2, <2>4 DEF Typed
  <2>6. Typed'
    BY <1>1, <1>2, <1>3, <2>5 DEF Typed
  <2>7. Good(p)'
    <3>1. Good(p)
      BY DEF ShareInv
    <3>2. Asking(p, toShare[p])'
      BY <2>4, <2>5, <3>1 DEF Good, Asking
    <3>3. Abstains(p)' /\ Found(p)'
      BY <1>3, <3>1 DEF Good, Abstains, Found
    <3>4. Served(p)' /\ Offered(p)'
      BY <2>2, <2>4, <2>5 DEF Served, Offered
    <3> QED
      BY <3>2, <3>3, <3>4 DEF Good
  <2>8. ASSUME NEW q \in Peers, q # p
        PROVE  Good(q)'
    BY <1>1, <1>2, <1>3, <2>5, <2>8, Untouched DEF ShareInv
  <2> QED
    BY <2>6, <2>7, <2>8 DEF ShareInv
<1> QED
  BY <1>5, <1>6

LEMMA SelectArrivesKeeps ==
  ASSUME ShareInv, NEW p \in Peers, NEW v \in Video, SelectArrives(p, v)
  PROVE  ShareInv'
<1> DEFINE m == Select(v)
<1>1. Typed
  BY DEF ShareInv
<1>2. m \in Message /\ m.type = "Select"
  BY MessageMade
<1>3. /\ role' = [role EXCEPT ![p] = NoRole] /\ records' = Withdrawn(p)
      /\ toCore' = [toCore EXCEPT ![p] = Append(@, m)] /\ acts' \in 0 .. MaxActs
      /\ UNCHANGED <<core, published, queries, exchange, toShare, ids, faults>>
  BY <1>1, ShareAssumption DEF SelectArrives, Act, Tell, Typed
<1> HIDE DEF m
<1>4. /\ role' \in [Peers -> RoleState] /\ role'[p] = NoRole
      /\ \A q \in Peers \ {p} : role'[q] = role[q]
  BY <1>1, <1>3, RoleKinds DEF Typed
<1>5. /\ toCore' \in [Peers -> Seq(Message)] /\ toCore'[p] = Append(toCore[p], m)
      /\ \A q \in Peers \ {p} : toCore'[q] = toCore[q]
  BY <1>1, <1>2, <1>3 DEF Typed
<1>6. HasSelect(toCore'[p])
  <2>1. toCore[p] \in Seq(Message)
    BY <1>1 DEF Typed
  <2>2. /\ Len(toCore[p]) + 1 \in DOMAIN Append(toCore[p], m)
        /\ Append(toCore[p], m)[Len(toCore[p]) + 1] = m
    BY <1>2, <2>1
  <2> QED
    BY <1>2, <1>5, <2>2 DEF HasSelect
<1>7. /\ records' \subseteq records
      /\ \A q \in Peers \ {p}, w \in Videos : <<q, w>> \in records => <<q, w>> \in records'
  BY <1>3 DEF Withdrawn
<1>8. Typed'
  BY <1>1, <1>3, <1>4, <1>5, <1>7 DEF Typed
<1>9. Good(p)'
  BY <1>1, <1>3, <1>4, <1>6, RoleDropped DEF ShareInv
<1>10. ASSUME NEW q \in Peers, q # p
       PROVE  Good(q)'
  BY <1>1, <1>3, <1>4, <1>5, <1>7, <1>10, Untouched DEF ShareInv
<1> QED
  BY <1>8, <1>9, <1>10 DEF ShareInv

\* The core is told something.
LEMMA Told ==
  ASSUME Typed, NEW p \in Peers, NEW m \in Message,
         toCore' = [toCore EXCEPT ![p] = Append(@, m)]
  PROVE  /\ toCore' \in [Peers -> Seq(Message)]
         /\ \A q \in Peers : HasSelect(toCore[q]) => HasSelect(toCore'[q])
         /\ \A q \in Peers \ {p} : toCore'[q] = toCore[q]
<1>1. toCore[p] \in Seq(Message)
  BY DEF Typed
<1>2. /\ Append(toCore[p], m) \in Seq(Message)
      /\ \A i \in DOMAIN toCore[p] : /\ i \in DOMAIN Append(toCore[p], m)
                                     /\ Append(toCore[p], m)[i] = toCore[p][i]
  BY <1>1
<1>3. HasSelect(toCore[p]) => HasSelect(Append(toCore[p], m))
  BY <1>2 DEF HasSelect
<1>4. /\ toCore' \in [Peers -> Seq(Message)] /\ toCore'[p] = Append(toCore[p], m)
      /\ \A q \in Peers \ {p} : toCore'[q] = toCore[q]
  BY <1>2 DEF Typed
<1> QED
  BY <1>3, <1>4

LEMMA SelectPassesKeeps ==
  ASSUME ShareInv, NEW p \in Peers, NEW v \in Video, SelectPasses(p, v)
  PROVE  ShareInv'
<1>1. Typed /\ Select(v) \in Message
  BY MessageMade DEF ShareInv
<1>2. /\ toCore' = [toCore EXCEPT ![p] = Append(@, Select(v))] /\ acts' \in 0 .. MaxActs
      /\ UNCHANGED <<core, role, records, published, queries, exchange, toShare, ids, faults>>
  BY <1>1, ShareAssumption DEF SelectPasses, Act, Tell, Typed
<1>3. /\ toCore' \in [Peers -> Seq(Message)]
      /\ \A q \in Peers : HasSelect(toCore[q]) => HasSelect(toCore'[q])
  BY <1>1, <1>2, Told
<1>4. Typed'
  BY <1>1, <1>2, <1>3 DEF Typed
<1>5. ASSUME NEW q \in Peers
      PROVE  Good(q)'
  BY <1>1, <1>2, <1>3, StaysGood DEF ShareInv
<1> QED
  BY <1>4, <1>5 DEF ShareInv

-----------------------------------------------------------------------------
(* Share: the handler's steps.                                             *)

\* The handler takes a message of its core and the role it says.
LEMMA TakenByHandler ==
  ASSUME ShareInv, NEW p \in Peers, toShare[p] # <<>>,
         toShare' = [toShare EXCEPT ![p] = Tail(@)],
         role' \in [Peers -> RoleState], \A q \in Peers \ {p} : role'[q] = role[q],
         ~ Decides(Head(toShare[p])) =>
             /\ role'[p].kind = role[p].kind
             /\ role[p].kind = "provider" => role'[p].video = role[p].video,
         Head(toShare[p]).type = "VideoShare" =>
             \A v \in Videos : role'[p].kind = "provider" /\ role'[p].video = v
                                 <=> Head(toShare[p]).video = v,
         Head(toShare[p]).type \in {"Select", "FileRequest"} =>
             role'[p].kind # "provider",
         Store[p] = Videos => role'[p].kind # "consumer",
         records' \subseteq Peers \X Videos, published' \subseteq Peers \X Videos,
         queries' \subseteq Peers \X Id \X Videos, exchange' \subseteq Exchange,
         \A q \in Peers \ {p}, v \in Videos : <<q, v>> \in records => <<q, v>> \in records',
         role'[p].kind = "provider" => <<p, role'[p].video>> \in records',
         \A m \in exchange' : \/ \E n \in exchange : n.from = m.from
                              \/ m.from = p /\ Store[p] # Videos,
         toCore' \in [Peers -> Seq(Message)],
         HasSelect(toCore[p]) => HasSelect(toCore'[p]),
         \A q \in Peers \ {p} : toCore'[q] = toCore[q],
         UNCHANGED <<core, ids, acts, faults>>
  PROVE  ShareInv'
<1>1. Typed /\ Good(p) /\ toShare[p] \in Seq(Message)
  BY DEF ShareInv, Typed
<1>2. /\ Tail(toShare[p]) \in Seq(Message)
      /\ \A v \in Videos : Offers(Tail(toShare[p]), role'[p], v)
                             <=> Offers(toShare[p], role[p], v)
      /\ Asking(p, toShare[p]) => Asking(p, Tail(toShare[p]))
  BY <1>1, FirstTaken
<1>3. /\ toShare' \in [Peers -> Seq(Message)] /\ toShare'[p] = Tail(toShare[p])
      /\ \A q \in Peers \ {p} : toShare'[q] = toShare[q]
  BY <1>1, <1>2 DEF Typed
<1>4. Typed'
  BY <1>1, <1>3 DEF Typed
<1>5. Good(p)'
  <2>1. Asking(p, toShare[p])'
    BY <1>1, <1>2, <1>3 DEF Good, Asking
  <2>2. Abstains(p)'
    BY <1>1 DEF Good, Abstains
  <2>3. Found(p)'
    BY DEF Found
  <2>4. Served(p)'
    BY <1>1, <1>2, <1>3 DEF Good, Served
  <2>5. Offered(p)'
    <3>1. core[p].provider # None => core[p].provider \in Videos
      BY <1>1 DEF Typed, CoreState, Video
    <3> QED
      BY <1>1, <1>2, <1>3, <3>1 DEF Good, Offered
  <2> QED
    BY <2>1, <2>2, <2>3, <2>4, <2>5 DEF Good
<1>6. ASSUME NEW q \in Peers, q # p
      PROVE  Good(q)'
  <2>1. /\ core'[q] = core[q] /\ role'[q] = role[q] /\ toShare'[q] = toShare[q]
        /\ toCore'[q] = toCore[q]
        /\ \A v \in Videos : <<q, v>> \in records => <<q, v>> \in records'
    BY <1>3, <1>6
  <2>2. \A m \in exchange' : m.from = q => \E n \in exchange : n.from = q
    BY <1>6
  <2> QED
    BY <1>1, <1>6, <2>1, <2>2, Untouched DEF ShareInv
<1> QED
  BY <1>4, <1>5, <1>6 DEF ShareInv

LEMMA WithdrawnKeeps ==
  ASSUME Typed, NEW p \in Peers
  PROVE  /\ Withdrawn(p) \subseteq Peers \X Videos
         /\ \A q \in Peers \ {p}, v \in Videos :
              <<q, v>> \in records => <<q, v>> \in Withdrawn(p)
BY DEF Withdrawn, Typed

LEMMA ShareReceiveKeeps ==
  ASSUME ShareInv, NEW p \in Peers, ShareReceive(p)
  PROVE  ShareInv'
<1> DEFINE m == Head(toShare[p])
<1>1. Typed /\ Good(p) /\ toShare[p] \in Seq(Message) /\ toShare[p] # <<>>
  BY DEF ShareInv, Typed, ShareReceive
<1>2. /\ toShare' = [toShare EXCEPT ![p] = Tail(@)]
      /\ UNCHANGED <<core, ids, acts, faults>>
  BY DEF ShareReceive
<1>3. m \in Message
  BY <1>1
<1>4. /\ m.type # "VideoProviderStopped" => m.video \in Video
      /\ m.type \in {"FileRequest", "FileResponse", "ChunkRequest", "ChunkResponse"}
           => m.id \in Id
  BY <1>3, MessageParts
<1>5. \/ m.type = "VideoShare" /\ ShareVideo(p, m.video)
      \/ m.type = "Select" /\ ShareSelect(p)
      \/ m.type = "FileRequest" /\ ShareFileRequest(p, m.id, m.video)
      \/ m.type = "ChunkRequest" /\ ShareChunkRequest(p, m.id, m.video)
      \/ m.type = "FileResponse" /\ ShareFileResponse(p, m.id, m.video)
      \/ m.type = "ChunkResponse" /\ ShareChunkResponse(p, m.id)
  BY DEF ShareReceive
<1>6. m.type = "FileRequest" => m.video \in Videos /\ Store[p] # Videos
  <2>1. m = toShare[p][1] /\ 1 \in DOMAIN toShare[p]
    BY <1>1
  <2> QED
    BY <1>1, <2>1 DEF Good, Asking
<1>7. /\ role[p] \in RoleState
      /\ role[p].kind = "provider" => <<p, role[p].video>> \in records
  BY <1>1 DEF Typed, Good, Found
<1> HIDE DEF m
<1>8. CASE m.type = "VideoShare" /\ ShareVideo(p, m.video)
  <2> DEFINE r == IF m.video = None THEN NoRole ELSE Provider(m.video)
  <2>1. /\ r \in RoleState /\ r.kind # "consumer"
        /\ r.kind = "provider" => m.video \in Videos /\ r.video = m.video
        /\ \A v \in Videos : r.kind = "provider" /\ r.video = v <=> m.video = v
    BY <1>4, <1>8, RoleKinds, RolesMade, ShareAssumption DEF Video
  <2>2. /\ role' = [role EXCEPT ![p] = r] /\ records' = Recorded(p, m.video)
        /\ published' = published \cup records' /\ UNCHANGED <<queries, exchange, toCore>>
    BY <1>8 DEF ShareVideo
  <2> HIDE DEF r
  <2>3. /\ role' \in [Peers -> RoleState] /\ role'[p] = r
        /\ \A q \in Peers \ {p} : role'[q] = role[q]
    BY <1>1, <2>1, <2>2 DEF Typed
  <2>4. /\ records' \subseteq Peers \X Videos /\ published' \subseteq Peers \X Videos
        /\ r.kind = "provider" => <<p, r.video>> \in records'
        /\ \A q \in Peers \ {p}, v \in Videos : <<q, v>> \in records => <<q, v>> \in records'
    <3>1. records' = Withdrawn(p) \cup {<<p, w>> : w \in {m.video} \ {None}}
      BY <2>2 DEF Recorded
    <3>2. {<<p, w>> : w \in {m.video} \ {None}} \subseteq Peers \X Videos
      BY <1>4, <1>8 DEF Video
    <3>3. records' \subseteq Peers \X Videos
      BY <1>1, <3>1, <3>2, WithdrawnKeeps
    <3>4. published' \subseteq Peers \X Videos
      BY <1>1, <2>2, <3>3 DEF Typed
    <3>5. r.kind = "provider" => <<p, r.video>> \in records'
      BY <2>1, <3>1, ShareAssumption
    <3>6. \A q \in Peers \ {p}, v \in Videos : <<q, v>> \in records => <<q, v>> \in records'
      BY <1>1, <3>1, WithdrawnKeeps
    <3> QED
      BY <3>3, <3>4, <3>5, <3>6
  <2>5. Decides(m)
    BY <1>8 DEF Decides
  <2>6. /\ queries' \subseteq Peers \X Id \X Videos /\ exchange' \subseteq Exchange
        /\ toCore' \in [Peers -> Seq(Message)]
        /\ \A n \in exchange' : n \in exchange
    BY <1>1, <2>2 DEF Typed
  <2> QED
    BY <1>1, <1>2, <1>8, <2>1, <2>2, <2>3, <2>4, <2>5, <2>6, TakenByHandler DEF m
<1>9. CASE m.type = "Select" /\ ShareSelect(p)
  <2>1. /\ role' = [role EXCEPT ![p] = NoRole] /\ records' = Withdrawn(p)
        /\ UNCHANGED <<published, queries, exchange, toCore>>
    BY <1>9 DEF ShareSelect
  <2>2. /\ role' \in [Peers -> RoleState] /\ role'[p].kind = "none"
        /\ \A q \in Peers \ {p} : role'[q] = role[q]
    BY <1>1, <2>1, RoleKinds DEF Typed
  <2>3. /\ records' \subseteq Peers \X Videos
        /\ \A q \in Peers \ {p}, v \in Videos : <<q, v>> \in records => <<q, v>> \in records'
    BY <1>1, <2>1, WithdrawnKeeps
  <2>4. Decides(m)
    BY <1>9 DEF Decides
  <2>5. /\ queries' \subseteq Peers \X Id \X Videos /\ exchange' \subseteq Exchange
        /\ published' \subseteq Peers \X Videos /\ toCore' \in [Peers -> Seq(Message)]
        /\ \A n \in exchange' : n \in exchange
    BY <1>1, <2>1 DEF Typed
  <2> QED
    BY <1>1, <1>2, <1>9, <2>1, <2>2, <2>3, <2>4, <2>5, TakenByHandler DEF m
<1>10. CASE m.type = "FileRequest" /\ ShareFileRequest(p, m.id, m.video)
  <2> DEFINE known == IF role[p].kind = "consumer" THEN role[p].known ELSE {}
             r == Consumer(m.id, m.video, known)
  <2>1. r \in RoleState /\ r.kind = "consumer"
    <3>1. known \in SUBSET Peers
      BY <1>7, RoleKinds DEF ConsumerRole
    <3> HIDE DEF known
    <3> QED
      BY <1>4, <1>6, <1>10, <3>1, RoleKinds, RolesMade
  <2>2. /\ role' = [role EXCEPT ![p] = r] /\ records' = Withdrawn(p)
        /\ queries' = queries \cup {<<p, m.id, m.video>>}
        /\ UNCHANGED <<published, exchange, toCore>>
    BY <1>1, <1>10 DEF ShareFileRequest, Typed
  <2> HIDE DEF r
  <2>3. /\ role' \in [Peers -> RoleState] /\ role'[p] = r
        /\ \A q \in Peers \ {p} : role'[q] = role[q]
    BY <1>1, <2>1, <2>2 DEF Typed
  <2>4. /\ records' \subseteq Peers \X Videos
        /\ \A q \in Peers \ {p}, v \in Videos : <<q, v>> \in records => <<q, v>> \in records'
    BY <1>1, <2>2, WithdrawnKeeps
  <2>5. Decides(m) /\ Store[p] # Videos
    BY <1>6, <1>10 DEF Decides
  <2>6. /\ queries' \subseteq Peers \X Id \X Videos /\ exchange' \subseteq Exchange
        /\ published' \subseteq Peers \X Videos /\ toCore' \in [Peers -> Seq(Message)]
        /\ \A n \in exchange' : n \in exchange
    BY <1>1, <1>4, <1>6, <1>10, <2>2 DEF Typed
  <2> QED
    BY <1>1, <1>2, <1>10, <2>1, <2>2, <2>3, <2>4, <2>5, <2>6, TakenByHandler DEF m
<1>11. CASE m.type = "ChunkRequest" /\ ShareChunkRequest(p, m.id, m.video)
  <2>1. /\ UNCHANGED <<records, published, queries>> /\ ~ Decides(m) /\ m.id \in Id
        /\ m.video \in Video
    BY <1>4, <1>11 DEF ShareChunkRequest, Decides
  <2>2. CASE role[p].kind # "consumer"
    <3>1. toCore' = [toCore EXCEPT ![p] = Append(@, VideoProviderStopped)]
          /\ UNCHANGED <<role, exchange>>
      BY <1>11, <2>2 DEF ShareChunkRequest, Tell
    <3>2. /\ toCore' \in [Peers -> Seq(Message)]
          /\ HasSelect(toCore[p]) => HasSelect(toCore'[p])
          /\ \A q \in Peers \ {p} : toCore'[q] = toCore[q]
      BY <1>1, <3>1, MessageMade, Told
    <3>3. /\ role \in [Peers -> RoleState] /\ records \subseteq Peers \X Videos
          /\ published \subseteq Peers \X Videos /\ queries \subseteq Peers \X Id \X Videos
          /\ exchange \subseteq Exchange
      BY <1>1 DEF Typed
    <3> QED
      BY <1>1, <1>2, <1>7, <1>11, <2>1, <2>2, <3>1, <3>2, <3>3, TakenByHandler DEF m
  <2>3. CASE role[p].kind = "consumer" /\ role[p].from = None
    <3>1. UNCHANGED <<role, exchange, toCore>>
      BY <1>11, <2>3 DEF ShareChunkRequest
    <3>2. /\ role \in [Peers -> RoleState] /\ records \subseteq Peers \X Videos
          /\ published \subseteq Peers \X Videos /\ queries \subseteq Peers \X Id \X Videos
          /\ exchange \subseteq Exchange /\ toCore \in [Peers -> Seq(Message)]
          /\ Store[p] = Videos => role[p].kind # "consumer"
      BY <1>1 DEF Typed, Good, Abstains
    <3> QED
      BY <1>1, <1>2, <1>7, <1>11, <2>1, <2>3, <3>1, <3>2, TakenByHandler DEF m
  <2>4. CASE role[p].kind = "consumer" /\ role[p].from # None
    <3> DEFINE r == [role[p] EXCEPT !.chunks = @ \cup {m.id}]
               ask == Ask("chunk", m.id, m.video, p, role[p].from)
    <3>1. /\ role' = [role EXCEPT ![p] = r] /\ exchange' = exchange \cup {ask}
          /\ toCore' = toCore
      BY <1>1, <1>11, <2>4 DEF ShareChunkRequest, Typed
    <3>2. r \in RoleState /\ r.kind = "consumer" /\ ask \in Exchange /\ ask.from = p
      <4>1. role[p] \in ConsumerRole
        BY <1>7, <2>4, RoleKinds
      <4>2. r \in ConsumerRole /\ r.kind = "consumer" /\ role[p].from \in Peers
        BY <2>1, <2>4, <4>1 DEF ConsumerRole
      <4> QED
        BY <2>1, <4>2, RoleKinds, AskMade
    <3> HIDE DEF r, ask
    <3>3. /\ role' \in [Peers -> RoleState] /\ role'[p] = r
          /\ \A q \in Peers \ {p} : role'[q] = role[q]
      BY <1>1, <3>1, <3>2 DEF Typed
    <3>4. /\ records \subseteq Peers \X Videos
          /\ published \subseteq Peers \X Videos /\ queries \subseteq Peers \X Id \X Videos
          /\ exchange' \subseteq Exchange /\ toCore \in [Peers -> Seq(Message)]
          /\ Store[p] # Videos
      BY <1>1, <2>4, <3>1, <3>2 DEF Typed, Good, Abstains
    <3>5. \A n \in exchange' : n \in exchange \/ n.from = p
      BY <3>1, <3>2
    <3> QED
      BY <1>1, <1>2, <1>11, <2>1, <2>4, <3>1, <3>2, <3>3, <3>4, <3>5, TakenByHandler
      DEF m
  <2> QED
    BY <2>2, <2>3, <2>4
<1>12. CASE \/ m.type = "FileResponse" /\ ShareFileResponse(p, m.id, m.video)
            \/ m.type = "ChunkResponse" /\ ShareChunkResponse(p, m.id)
  <2>1. /\ UNCHANGED <<records, published, queries, toCore>> /\ ~ Decides(m)
        /\ m.id \in Id
    BY <1>4, <1>12 DEF ShareFileResponse, ShareChunkResponse, Decides
  <2>2. /\ records \subseteq Peers \X Videos
        /\ published \subseteq Peers \X Videos /\ queries \subseteq Peers \X Id \X Videos
        /\ exchange \subseteq Exchange /\ toCore \in [Peers -> Seq(Message)]
        /\ role \in [Peers -> RoleState]
        /\ Store[p] = Videos => role[p].kind # "consumer"
    BY <1>1 DEF Typed, Good, Abstains
  <2>3. CASE UNCHANGED <<role, exchange>>
    BY <1>1, <1>2, <1>7, <1>12, <2>1, <2>2, <2>3, TakenByHandler DEF m
  <2>4. CASE ~ UNCHANGED <<role, exchange>>
    <3>1. PICK stage \in {"ok", "err"} : AnswerWith(p, m.id, stage)
      BY <1>12, <2>4 DEF ShareFileResponse, ShareChunkResponse
    <3>2. PICK r \in RoleState :
            /\ role' = [role EXCEPT ![p] = r] /\ role[p].kind = "provider"
            /\ r.kind = "provider" /\ r.video = role[p].video
      <4>1. role[p].kind = "provider" /\ role[p] \in ProviderRole
        BY <1>7, <1>12, <2>4, RoleKinds DEF ShareFileResponse, ShareChunkResponse
      <4> DEFINE f == [role[p] EXCEPT !.files = @ \ {m.id}]
                 k == [role[p] EXCEPT !.chunks = @ \ {m.id}]
      <4>2. /\ f \in ProviderRole /\ f.kind = "provider" /\ f.video = role[p].video
            /\ k \in ProviderRole /\ k.kind = "provider" /\ k.video = role[p].video
        BY <4>1 DEF ProviderRole
      <4>3. role' = [role EXCEPT ![p] = f] \/ role' = [role EXCEPT ![p] = k]
        BY <1>1, <1>12, <2>4 DEF ShareFileResponse, ShareChunkResponse, Typed
      <4> HIDE DEF f, k
      <4> QED
        BY <4>1, <4>2, <4>3, RoleKinds
    <3>3. /\ role' \in [Peers -> RoleState] /\ role'[p] = r
          /\ \A q \in Peers \ {p} : role'[q] = role[q]
      BY <1>1, <3>2 DEF Typed
    <3>4. /\ exchange' \subseteq Exchange
          /\ \A n \in exchange' : \E k \in exchange : k.from = n.from
      BY <1>1, <3>1, AnswerTyped
    <3> QED
      BY <1>1, <1>2, <1>7, <1>12, <2>1, <2>2, <3>2, <3>3, <3>4, TakenByHandler DEF m
  <2> QED
    BY <2>3, <2>4
<1> QED
  BY <1>5, <1>8, <1>9, <1>10, <1>11, <1>12

\* A step of the network that leaves all roles what they are.
LEMMA RolesStay ==
  ASSUME ShareInv, NEW p \in Peers,
         role' \in [Peers -> RoleState], \A q \in Peers \ {p} : role'[q] = role[q],
         role'[p].kind = role[p].kind,
         role[p].kind = "provider" => role'[p].video = role[p].video,
         exchange' \subseteq Exchange, queries' \subseteq queries,
         \A m \in exchange' : \/ \E n \in exchange : n.from = m.from
                              \/ m.from = p /\ Store[p] # Videos,
         toCore' \in [Peers -> Seq(Message)],
         \A q \in Peers : HasSelect(toCore[q]) => HasSelect(toCore'[q]),
         faults' \in 0 .. MaxFaults,
         UNCHANGED <<core, records, published, toShare, ids, acts>>
  PROVE  ShareInv'
<1>1. Typed
  BY DEF ShareInv
<1>2. Typed'
  BY <1>1 DEF Typed
<1>3. ASSUME NEW q \in Peers
      PROVE  Good(q)'
  <2>1. /\ role'[q].kind = role[q].kind
        /\ role[q].kind = "provider" => role'[q].video = role[q].video
    OBVIOUS
  <2>2. \A v \in Videos : Offers(toShare[q], role'[q], v)
                            <=> Offers(toShare[q], role[q], v)
    BY <2>1 DEF Offers
  <2>3. Store[q] # Videos \/ \A m \in exchange' : m.from = q =>
                                \E n \in exchange : n.from = q
    OBVIOUS
  <2>4. Good(q)
    BY DEF ShareInv
  <2> QED
    BY <1>1, <2>1, <2>2, <2>3, <2>4, StaysGood
<1> QED
  BY <1>2, <1>3 DEF ShareInv

\* A step of the network that ends what a peer does, which asks for files.
LEMMA RoleEnds ==
  ASSUME ShareInv, NEW m \in exchange,
         role' = [role EXCEPT ![m.from] = NoRole],
         Tell(m.from, VideoProviderStopped),
         exchange' = exchange \ {m}, faults' \in 0 .. MaxFaults,
         UNCHANGED <<core, records, published, queries, toShare, ids, acts>>
  PROVE  ShareInv'
<1> DEFINE p == m.from
<1>1. Typed /\ p \in Peers
  BY DEF ShareInv, Typed, Exchange
<1>2. Good(p) /\ Store[p] # Videos
  BY <1>1 DEF ShareInv, Good, Abstains
<1>3. /\ toCore' \in [Peers -> Seq(Message)]
      /\ \A q \in Peers \ {p} : toCore'[q] = toCore[q]
  BY <1>1, MessageMade, Told DEF Tell
<1>4. /\ role' \in [Peers -> RoleState] /\ role'[p] = NoRole
      /\ \A q \in Peers \ {p} : role'[q] = role[q]
  BY <1>1, RoleKinds DEF Typed
<1> HIDE DEF p
<1>5. \A n \in exchange' : n \in exchange
  OBVIOUS
<1>6. Typed'
  BY <1>1, <1>3, <1>4, <1>5 DEF Typed
<1>7. Good(p)'
  BY <1>1, <1>2, <1>4, <1>5, RoleDropped
<1>8. ASSUME NEW q \in Peers, q # p
      PROVE  Good(q)'
  BY <1>1, <1>3, <1>4, <1>5, <1>8, Untouched DEF ShareInv
<1> QED
  BY <1>6, <1>7, <1>8 DEF ShareInv

\* The consumer's request for the file.
LEMMA RequestFileKeeps ==
  ASSUME ShareInv, NEW p \in Peers, NEW id \in Id, NEW known \in SUBSET Peers,
         role[p].kind = "consumer", RequestFile(p, id, known), queries' \subseteq queries,
         UNCHANGED <<core, records, published, toShare, toCore, ids, acts, faults>>
  PROVE  ShareInv'
<1> DEFINE c == [role[p] EXCEPT !.known = known]
<1>1. Typed /\ Good(p) /\ Store[p] # Videos
  BY DEF ShareInv, Good, Abstains
<1>2. role[p] \in ConsumerRole
  BY <1>1, RoleKinds DEF Typed
<1>3. c \in ConsumerRole /\ c.kind = "consumer" /\ c.video \in Videos
  BY <1>2 DEF ConsumerRole
<1>4. /\ toCore \in [Peers -> Seq(Message)] /\ faults \in 0 .. MaxFaults
      /\ exchange \subseteq Exchange
  BY <1>1 DEF Typed
<1>5. CASE role' = [role EXCEPT ![p] = c] /\ UNCHANGED exchange
  <2> HIDE DEF c
  <2>1. /\ role' \in [Peers -> RoleState] /\ role'[p] = c
        /\ \A q \in Peers \ {p} : role'[q] = role[q]
    BY <1>1, <1>3, <1>5, RoleKinds DEF Typed
  <2> QED
    BY <1>3, <1>4, <1>5, <2>1, RolesStay
<1>6. CASE \E q \in known :
             /\ role' = [role EXCEPT ![p] = [c EXCEPT !.from = q, !.requesting = TRUE]]
             /\ exchange' = exchange \cup {Ask("file", id, c.video, p, q)}
  <2>1. PICK q \in known :
          /\ role' = [role EXCEPT ![p] = [c EXCEPT !.from = q, !.requesting = TRUE]]
          /\ exchange' = exchange \cup {Ask("file", id, c.video, p, q)}
    BY <1>6
  <2> DEFINE r == [c EXCEPT !.from = q, !.requesting = TRUE]
             ask == Ask("file", id, c.video, p, q)
  <2> HIDE DEF c
  <2>2. r \in ConsumerRole /\ r.kind = "consumer"
    BY <1>3 DEF ConsumerRole
  <2>3. ask \in Exchange /\ ask.from = p
    BY <1>3, AskMade DEF Video
  <2>4. role' = [role EXCEPT ![p] = r] /\ exchange' = exchange \cup {ask}
    BY <2>1
  <2> HIDE DEF r, ask
  <2>5. /\ role' \in [Peers -> RoleState] /\ role'[p] = r
        /\ \A o \in Peers \ {p} : role'[o] = role[o]
    BY <1>1, <2>2, <2>4, RoleKinds DEF Typed
  <2>6. /\ exchange' \subseteq Exchange
        /\ \A m \in exchange' : m \in exchange \/ m.from = p
    BY <1>4, <2>3, <2>4
  <2> QED
    BY <1>1, <1>4, <2>2, <2>5, <2>6, RolesStay
<1> QED
  BY <1>5, <1>6 DEF RequestFile

LEMMA QueriesKeep ==
  ASSUME ShareInv, NEW q \in queries,
         \/ QueryFinished(q)
         \/ \E found \in SUBSET {p \in Peers : <<p, q[3]>> \in published} :
              FoundProviders(q, found)
  PROVE  ShareInv'
<1>1. Typed /\ q[1] \in Peers /\ q[2] \in Id
  BY DEF ShareInv, Typed
<1>2. /\ role \in [Peers -> RoleState] /\ toCore \in [Peers -> Seq(Message)]
      /\ faults \in 0 .. MaxFaults /\ exchange \subseteq Exchange
  BY <1>1 DEF Typed
<1>3. CASE QueryFinished(q)
  <2>1. /\ queries' \subseteq queries
        /\ UNCHANGED <<core, records, published, toShare, toCore, ids, acts, faults>>
    BY <1>3 DEF QueryFinished
  <2>2. CASE role[q[1]].kind = "consumer"
    <3>1. role[q[1]] \in ConsumerRole
      BY <1>1, <1>2, <2>2, RoleKinds
    <3>2. role[q[1]].known \in SUBSET Peers
      BY <3>1 DEF ConsumerRole
    <3>3. RequestFile(q[1], q[2], role[q[1]].known)
      BY <1>3, <2>2 DEF QueryFinished
    <3> QED
      BY <1>1, <2>1, <2>2, <3>2, <3>3, RequestFileKeeps
  <2>3. CASE role[q[1]].kind # "consumer"
    <3>1. UNCHANGED <<role, exchange>>
      BY <1>3, <2>3 DEF QueryFinished
    <3> QED
      BY <1>1, <1>2, <2>1, <3>1, RolesStay
  <2> QED
    BY <2>2, <2>3
<1>4. CASE \E found \in SUBSET {p \in Peers : <<p, q[3]>> \in published} :
             FoundProviders(q, found)
  <2>1. PICK found \in SUBSET Peers : FoundProviders(q, found)
    BY <1>4
  <2>2. UNCHANGED <<core, records, published, queries, toShare, toCore, ids, acts, faults>>
    BY <2>1 DEF FoundProviders
  <2>3. CASE role[q[1]].kind = "consumer"
    <3>1. RequestFile(q[1], q[2], found)
      BY <2>1, <2>3 DEF FoundProviders
    <3> QED
      BY <1>1, <2>2, <2>3, <3>1, RequestFileKeeps
  <2>4. CASE role[q[1]].kind # "consumer"
    <3>1. UNCHANGED <<role, exchange>>
      BY <2>1, <2>4 DEF FoundProviders
    <3> QED
      BY <1>1, <1>2, <2>2, <3>1, RolesStay
  <2> QED
    BY <2>3, <2>4
<1> QED
  BY <1>3, <1>4

LEMMA AcceptRequestKeeps ==
  ASSUME ShareInv, NEW m \in exchange, AcceptRequest(m)
  PROVE  ShareInv'
<1> DEFINE p == m.to
           k == [m EXCEPT !.stage = "accepted"]
           e == [m EXCEPT !.stage = "err"]
<1>1. Typed /\ m \in Exchange
  BY DEF ShareInv, Typed
<1>2. p \in Peers /\ m.id \in Id /\ m.video \in Video /\ m.kind \in {"file", "chunk"}
  BY <1>1 DEF Exchange
<1>3. k \in Exchange /\ k.from = m.from /\ e \in Exchange /\ e.from = m.from
  BY <1>1, StageChanged
<1>4. UNCHANGED <<core, records, published, queries, toShare, ids, acts, faults>>
  BY DEF AcceptRequest
<1>5. /\ role \in [Peers -> RoleState] /\ toCore \in [Peers -> Seq(Message)]
      /\ faults \in 0 .. MaxFaults /\ exchange \subseteq Exchange
  BY <1>1 DEF Typed
<1>6. CASE role[p].kind = "provider"
  <2> DEFINE f == [role[p] EXCEPT !.files = @ \cup {m.id}]
             h == [role[p] EXCEPT !.chunks = @ \cup {m.id}]
             r == IF m.kind = "file" THEN f ELSE h
             said == IF m.kind = "file" THEN FileRequest(m.id, m.video)
                     ELSE ChunkRequest(m.id, m.video)
  <2>1. role[p] \in ProviderRole
    BY <1>2, <1>5, <1>6, RoleKinds
  <2>2. /\ f \in ProviderRole /\ f.kind = "provider" /\ f.video = role[p].video
        /\ h \in ProviderRole /\ h.kind = "provider" /\ h.video = role[p].video
    BY <1>2, <2>1 DEF ProviderRole
  <2>3. role' = [role EXCEPT ![p] = r]
    BY <1>2, <1>5, <1>6 DEF AcceptRequest
  <2>4. exchange' = (exchange \ {m}) \cup {k}
    BY <1>6 DEF AcceptRequest
  <2>5. toCore' = [toCore EXCEPT ![p] = Append(@, said)] /\ said \in Message
    BY <1>2, <1>6, MessageMade DEF AcceptRequest, Tell
  <2> HIDE DEF f, h, k, said, p
  <2>6. r \in RoleState /\ r.kind = "provider" /\ r.video = role[p].video
    BY <2>2, RoleKinds
  <2> HIDE DEF r
  <2>7. /\ role' \in [Peers -> RoleState] /\ role'[p] = r
        /\ \A q \in Peers \ {p} : role'[q] = role[q]
    BY <1>2, <1>5, <2>3, <2>6
  <2>8. /\ toCore' \in [Peers -> Seq(Message)]
        /\ \A q \in Peers : HasSelect(toCore[q]) => HasSelect(toCore'[q])
    BY <1>1, <1>2, <2>5, Told
  <2>9. /\ exchange' \subseteq Exchange
        /\ \A n \in exchange' : \E o \in exchange : o.from = n.from
    BY <1>3, <1>5, <2>4
  <2> QED
    BY <1>2, <1>4, <1>5, <1>6, <2>6, <2>7, <2>8, <2>9, RolesStay
<1>7. CASE role[p].kind # "provider"
  <2>1. exchange' = (exchange \ {m}) \cup {e} /\ UNCHANGED <<role, toCore>>
    BY <1>7 DEF AcceptRequest
  <2> HIDE DEF e
  <2>2. /\ exchange' \subseteq Exchange
        /\ \A n \in exchange' : \E o \in exchange : o.from = n.from
    BY <1>3, <1>5, <2>1
  <2> QED
    BY <1>2, <1>4, <1>5, <2>1, <2>2, RolesStay
<1> QED
  BY <1>6, <1>7

LEMMA HandleResponseKeeps ==
  ASSUME ShareInv, NEW m \in exchange, HandleResponse(m)
  PROVE  ShareInv'
<1> DEFINE said == IF m.kind = "file" THEN FileResponse(m.id, m.video)
                   ELSE ChunkResponse(m.id, m.video)
<1>1. Typed /\ m \in Exchange
  BY DEF ShareInv, Typed
<1>2. m.from \in Peers /\ m.id \in Id /\ m.video \in Video
  BY <1>1 DEF Exchange
<1>3. /\ role \in [Peers -> RoleState] /\ faults \in 0 .. MaxFaults
      /\ exchange \subseteq Exchange
  BY <1>1 DEF Typed
<1>4. /\ exchange' = exchange \ {m}
      /\ UNCHANGED <<core, records, published, queries, toShare, ids, acts, faults>>
  BY DEF HandleResponse
<1>5. CASE m.stage = "err"
  BY <1>3, <1>4, <1>5, RoleEnds DEF HandleResponse
<1>6. CASE m.stage # "err"
  <2>1. /\ toCore' = [toCore EXCEPT ![m.from] = Append(@, said)] /\ said \in Message
        /\ UNCHANGED role
    BY <1>2, <1>6, MessageMade DEF HandleResponse, Tell
  <2> HIDE DEF said
  <2>2. /\ toCore' \in [Peers -> Seq(Message)]
        /\ \A q \in Peers : HasSelect(toCore[q]) => HasSelect(toCore'[q])
    BY <1>1, <1>2, <2>1, Told
  <2> QED
    BY <1>2, <1>3, <1>4, <2>1, <2>2, RolesStay
<1> QED
  BY <1>5, <1>6

LEMMA OutboundFailureKeeps ==
  ASSUME ShareInv, NEW m \in exchange, OutboundFailure(m), faults' \in 0 .. MaxFaults
  PROVE  ShareInv'
<1>1. Typed /\ m \in Exchange
  BY DEF ShareInv, Typed
<1>2. m.from \in Peers
  BY <1>1 DEF Exchange
<1>3. /\ role \in [Peers -> RoleState] /\ toCore \in [Peers -> Seq(Message)]
      /\ exchange \subseteq Exchange
  BY <1>1 DEF Typed
<1>4. /\ exchange' = exchange \ {m}
      /\ UNCHANGED <<core, records, published, queries, toShare, ids, acts>>
  BY DEF OutboundFailure
<1>5. CASE role[m.from].kind = "consumer" /\ m.id \in role[m.from].chunks
  BY <1>4, <1>5, RoleEnds DEF OutboundFailure
<1>6. CASE ~ (role[m.from].kind = "consumer" /\ m.id \in role[m.from].chunks)
  <2>1. UNCHANGED <<role, toCore>>
    BY <1>6 DEF OutboundFailure
  <2> QED
    BY <1>2, <1>3, <1>4, <2>1, RolesStay
<1> QED
  BY <1>5, <1>6

-----------------------------------------------------------------------------
(* Share: the theorems.                                                    *)

LEMMA ShareInitially == Init => ShareInv
<1> SUFFICES ASSUME Init
             PROVE  ShareInv
  OBVIOUS
<1>1. Typed
  <2> DEFINE c == [playing |-> None, provider |-> None, sized |-> FALSE, reads |-> {},
                   server |-> None, ended |-> FALSE]
  <2>1. c \in CoreState
    BY DEF CoreState, Video
  <2>2. core = [p \in Peers |-> c] /\ role = [p \in Peers |-> NoRole]
    BY DEF Init
  <2> HIDE DEF c
  <2>3. core \in [Peers -> CoreState] /\ role \in [Peers -> RoleState]
    BY <2>1, <2>2, RoleKinds
  <2>4. toShare \in [Peers -> Seq(Message)] /\ toCore \in [Peers -> Seq(Message)]
    BY DEF Init
  <2>5. /\ records = {} /\ published = {} /\ queries = {} /\ exchange = {}
        /\ ids = 0 /\ acts = 0 /\ faults = 0
    BY DEF Init
  <2>6. ids \in 0 .. MaxIds /\ acts \in 0 .. MaxActs /\ faults \in 0 .. MaxFaults
    BY <2>5, ShareAssumption
  <2> QED
    BY <2>3, <2>4, <2>5, <2>6 DEF Typed
<1>2. ASSUME NEW p \in Peers
      PROVE  Good(p)
  <2>1. /\ toShare[p] = <<>> /\ core[p].provider = None /\ role[p].kind = "none"
        /\ exchange = {}
    BY RoleKinds DEF Init
  <2>2. DOMAIN toShare[p] = {}
    BY <2>1
  <2>3. Asking(p, toShare[p]) /\ Abstains(p)
    BY <2>1, <2>2 DEF Asking, Abstains
  <2>4. Found(p) /\ Served(p) /\ Offered(p)
    BY <2>1, <2>2 DEF Found, Served, Offered, Offers
  <2> QED
    BY <2>3, <2>4 DEF Good
<1> QED
  BY <1>1, <1>2 DEF ShareInv

LEMMA ShareInductive == ShareInv /\ [Next]_shareVars => ShareInv'
<1> SUFFICES ASSUME ShareInv, [Next]_shareVars
             PROVE  ShareInv'
  OBVIOUS
<1>1. Typed
  BY DEF ShareInv
<1>2. ASSUME NEW p \in Peers, User(p)
      PROVE  ShareInv'
  BY <1>2, SelectVideoKeeps, SelectArrivesKeeps, SelectPassesKeeps, FileEndKeeps,
     OtherFileEndKeeps, FileShareChangeKeeps, AskForFileKeeps, ServerChunkKeeps DEF User
<1>3. ASSUME NEW p \in Peers,
             FileReady(p) \/ CoreReceive(p) \/ ShareReceive(p)
               \/ \E id \in core[p].reads : ChunkRead(p, id)
      PROVE  ShareInv'
  BY <1>3, FileReadyKeeps, CoreReceiveKeeps, ShareReceiveKeeps, ChunkReadKeeps
<1>4. ASSUME Network
      PROVE  ShareInv'
  <2>1. CASE \E q \in queries :
               \/ QueryFinished(q)
               \/ \E found \in SUBSET {p \in Peers : <<p, q[3]>> \in published} :
                    FoundProviders(q, found)
    BY <2>1, QueriesKeep
  <2>2. ASSUME NEW m \in exchange, AcceptRequest(m) \/ HandleResponse(m)
        PROVE  ShareInv'
    BY <2>2, AcceptRequestKeeps, HandleResponseKeeps
  <2>3. ASSUME NEW m \in exchange, ChannelDropped(m) \/ RequestFails(m)
        PROVE  ShareInv'
    <3>1. OutboundFailure(m) /\ faults' \in 0 .. MaxFaults
      BY <1>1, <2>3, ShareAssumption DEF ChannelDropped, RequestFails, Typed
    <3> QED
      BY <3>1, OutboundFailureKeeps
  <2> QED
    BY <1>4, <2>1, <2>2, <2>3 DEF Network
<1>5. CASE UNCHANGED shareVars
  <2>1. Typed'
    BY <1>1, <1>5 DEF Typed, shareVars
  <2>2. ASSUME NEW p \in Peers
        PROVE  Good(p)'
    BY <1>1, <1>5, Untouched DEF ShareInv, shareVars
  <2> QED
    BY <2>1, <2>2 DEF ShareInv
<1> QED
  BY <1>2, <1>3, <1>4, <1>5 DEF Next

\* The invariant holds for any peers, videos and databases, any number of steps
\* and faults.
THEOREM ShareInvariance == Spec => []ShareInv
<1>1. Spec => Init /\ [][Next]_shareVars
  BY PTL DEF Spec
<1> QED
  BY <1>1, ShareInitially, ShareInductive, PTL

\* What is stored and queued is what the code's types allow.
THEOREM ShareTypeCorrect == Spec => []TypeOK
<1>1. ShareInv => TypeOK
  <2> SUFFICES ASSUME ShareInv
               PROVE  TypeOK
    OBVIOUS
  <2>1. Typed
    BY DEF ShareInv
  <2>2. ASSUME NEW p \in Peers
        PROVE  /\ role[p] \in RoleState
               /\ \A i \in DOMAIN toShare[p] : toShare[p][i] \in Message
               /\ \A i \in DOMAIN toCore[p] : toCore[p][i] \in Message
    BY <2>1 DEF Typed
  <2> QED
    BY <2>1, <2>2 DEF Typed, TypeOK
<1> QED
  BY <1>1, ShareInvariance, PTL

\* What a handler offers to the room can be found, and its core provides it once
\* the two have heard all the other said.
THEOREM OffersAreServed == Spec => []AdvertisedIsServed
<1>1. ShareInv => AdvertisedIsServed
  <2> SUFFICES ASSUME ShareInv, NEW p \in Peers, role[p].kind = "provider"
               PROVE  /\ <<p, role[p].video>> \in records
                      /\ Settled(p) => core[p].provider = role[p].video
    BY DEF AdvertisedIsServed
  <2>1. Typed /\ Found(p) /\ Served(p)
    BY DEF ShareInv, Good
  <2>2. role[p].video \in Videos
    BY <2>1, RoleKinds DEF Typed, ProviderRole
  <2>3. ASSUME toShare[p] = <<>>
        PROVE  core[p].provider = role[p].video
    <3>1. Offers(toShare[p], role[p], role[p].video)
      BY <2>3 DEF Offers
    <3> QED
      BY <2>1, <2>2, <3>1 DEF Served
  <2> QED
    BY <2>1, <2>3 DEF Found, Settled
<1> QED
  BY <1>1, ShareInvariance, PTL

\* A peer that has all videos offers what it shares, once the file is open and
\* the core and its handler have heard all the other said, until a file ends.
THEOREM SharesAreOffered == Spec => []SharedIsAdvertised
<1>1. ShareInv => SharedIsAdvertised
  <2> SUFFICES ASSUME ShareInv, NEW p \in Peers,
                      Settled(p), core[p].provider # None, core[p].sized,
                      ~ core[p].ended, Store[p] = Videos
               PROVE  role[p].kind = "provider" /\ role[p].video = core[p].provider
    BY DEF SharedIsAdvertised
  <2>1. Offered(p) /\ ~ HasSelect(toCore[p]) /\ toShare[p] = <<>>
    BY DEF ShareInv, Good, Settled, HasSelect
  <2>2. Offers(toShare[p], role[p], core[p].provider)
    BY <2>1 DEF Offered
  <2>3. DOMAIN toShare[p] = {}
    BY <2>1
  <2> QED
    BY <2>2, <2>3 DEF Offers
<1> QED
  BY <1>1, ShareInvariance, PTL

-----------------------------------------------------------------------------
(* Stream: the inductive invariant.                                        *)

\* A chunk of the file: not empty, and nothing behind the end.
Chunk(start, length) ==
    start \in Nat /\ length \in Nat \ {0} /\ start + length <= FileSize

\* What the cache holds.
Stored(kept) == \A s \in DOMAIN kept : Chunk(s, kept[s])

Cached == Stored(cache)

\* Chunks that are still to be entered.
Answered == \A a \in answers : a \in Request /\ Chunk(a.start, a.length)

\* Requests on their way.
Asks(reqs) == \A req \in reqs : req \in Request /\ req.start < FileSize

Asked == Asks(wanted)

\* A connection is where its range begins or somewhere in the file, and
\* through only behind the end of its range.
InPlace(k) ==
    /\ k \in Connection
    /\ k.pos = RangeStart(k.range) \/ k.pos <= FileSize
    /\ k.state = "done" => k.pos > RangeEnd(k.range)

Placed ==
    /\ conn = [c \in Conns |-> conn[c]]
    /\ \A c \in Conns : InPlace(conn[c])

Counted == online \in BOOLEAN /\ opens \in 0 .. MaxOpens

StreamInv == Cached /\ Answered /\ Asked /\ Placed /\ Counted

-----------------------------------------------------------------------------
(* Stream: the operators of the model.                                     *)

LEMMA MinOfTwo == \A a, b \in Int : Min({a, b}) = IF a <= b THEN a ELSE b
<1>1. SUFFICES ASSUME NEW a \in Int, NEW b \in Int
               PROVE  Min({a, b}) = IF a <= b THEN a ELSE b
  OBVIOUS
<1> QED
  BY DEF Min

LEMMA MinOfThree ==
  \A a, b, d \in Int :
     LET m == Min({a, b, d}) IN m \in {a, b, d} /\ m <= a /\ m <= b /\ m <= d
<1>1. SUFFICES ASSUME NEW a \in Int, NEW b \in Int, NEW d \in Int
               PROVE  LET m == Min({a, b, d})
                      IN m \in {a, b, d} /\ m <= a /\ m <= b /\ m <= d
  OBVIOUS
<1>2. \E m \in {a, b, d} : \A y \in {a, b, d} : m <= y
  OBVIOUS
<1> QED
  BY <1>2 DEF Min

LEMMA MaxOfTwo == \A a, b \in Int : Max({a, b}) = IF a >= b THEN a ELSE b
<1>1. SUFFICES ASSUME NEW a \in Int, NEW b \in Int
               PROVE  Max({a, b}) = IF a >= b THEN a ELSE b
  OBVIOUS
<1> QED
  BY DEF Max

LEMMA Reduced ==
  /\ U64 \in Nat \ {0} /\ FileSize < U64
  /\ \A n \in Int : n % U64 \in Nat
  /\ \A n \in Nat : n < U64 => n % U64 = n
<1>1. U64 \in Nat \ {0} /\ FileSize < U64
  BY StreamAssumption DEF U64
<1> QED
  BY <1>1

\* A range lies in the file where it ends; where it begins is up to the player.
LEMMA RangeTyped ==
  \A r \in Ranges : RangeStart(r) \in Nat /\ RangeEnd(r) \in Int
                    /\ RangeEnd(r) < FileSize
<1>1. SUFFICES ASSUME NEW r \in Ranges
               PROVE  RangeStart(r) \in Nat /\ RangeEnd(r) \in Int
                      /\ RangeEnd(r) < FileSize
  OBVIOUS
<1>2. /\ r.start \in Nat \cup {NoBound} /\ r.end \in Nat \cup {NoBound}
      /\ FileSize \in Nat \ {0}
  BY StreamAssumption
<1>3. RangeStart(r) \in Nat
  <2>1. CASE r.start = NoBound /\ r.end # NoBound
    BY <1>2, <2>1, Reduced DEF RangeStart
  <2>2. CASE ~ (r.start = NoBound /\ r.end # NoBound)
    BY <1>2, <2>2 DEF RangeStart
  <2> QED
    BY <2>1, <2>2
<1>4. RangeEnd(r) \in Int /\ RangeEnd(r) < FileSize
  <2>1. CASE r.end = NoBound \/ (r.start = NoBound /\ r.end # NoBound)
    BY <1>2, <2>1 DEF RangeEnd
  <2>2. CASE ~ (r.end = NoBound \/ (r.start = NoBound /\ r.end # NoBound))
    <3>1. RangeEnd(r) = Min({r.end, FileSize - 1}) /\ r.end \in Nat
      BY <1>2, <2>2 DEF RangeEnd
    <3> QED
      BY <3>1, <1>2, MinOfTwo
  <2> QED
    BY <2>1, <2>2
<1> QED
  BY <1>3, <1>4

\* Entering a chunk leaves chunks of the file in the cache.
LEMMA PutStored ==
  ASSUME NEW kept, Stored(kept), NEW s, NEW length, Chunk(s, length)
  PROVE  Stored(Put(kept, s, length))
BY DEF Stored, Put

\* So does what refresh_chunk cuts off a chunk: the rest of it.
LEMMA RefreshedStored ==
  ASSUME NEW kept, Stored(kept), NEW pos \in Nat, NEW new \in Refreshed(kept, pos)
  PROVE  Stored(new)
<1>1. CASE pos \in DOMAIN kept
  BY <1>1 DEF Refreshed
<1>2. CASE pos \notin DOMAIN kept
  <2>1. PICK s \in DOMAIN kept : /\ Holds(kept, s, pos)
                                 /\ new = Put(kept, pos, s + kept[s] - pos)
    BY <1>2 DEF Refreshed
  <2>2. Chunk(s, kept[s]) /\ pos \in s .. (s + kept[s] - 1)
    BY <2>1 DEF Stored, Holds
  <2>3. Chunk(pos, s + kept[s] - pos)
    BY <2>2, StreamAssumption DEF Chunk
  <2> QED
    BY <2>1, <2>3, PutStored
<1> QED
  BY <1>1, <1>2

\* What is asked for begins where the connection is, and is not empty.
LEMMA WantedChunkTyped ==
  ASSUME NEW pos \in Nat, NEW end \in Int, pos <= end
  PROVE  WantedChunk(pos, end) \in Request /\ WantedChunk(pos, end).start = pos
<1> DEFINE last == Min({end, pos + ChunkSize})
<1>1. ChunkSize \in Nat \ {0}
  BY StreamAssumption
<1>2. last \in Int /\ last >= pos
  BY <1>1, MinOfTwo
<1>3. last - pos + 1 + 1 \in Nat \ {0}
  BY <1>2
<1> HIDE DEF last
<1>4. WantedChunk(pos, end) = [start |-> pos, length |-> last - pos + 1 + 1]
  BY DEF WantedChunk, last
<1> QED
  BY <1>3, <1>4 DEF Request

\* Asking keeps what is cached and what is asked for in the file.
LEMMA RequestChunkKeeps ==
  ASSUME Cached, Asked, NEW pos \in Nat, NEW end \in Int, end < FileSize,
         RequestChunk(cache, pos, end)
  PROVE  Cached' /\ Asked'
<1>1. CASE pos > end
  BY <1>1 DEF RequestChunk, Cached, Asked
<1>2. CASE ~ (pos > end) /\ Refreshed(cache, pos) # {}
  <2>1. cache' \in Refreshed(cache, pos) /\ wanted' = wanted
    BY <1>2 DEF RequestChunk
  <2> QED
    BY <2>1, RefreshedStored DEF Cached, Asked
<1>3. CASE ~ (pos > end) /\ ~ (Refreshed(cache, pos) # {})
  <2>1. cache' = cache /\ wanted' = wanted \cup {WantedChunk(pos, end)}
    BY <1>3 DEF RequestChunk
  <2>2. pos <= end
    BY <1>3
  <2>3. /\ WantedChunk(pos, end) \in Request
        /\ WantedChunk(pos, end).start = pos
    BY <2>2, WantedChunkTyped
  <2>4. pos < FileSize
    BY <2>2, StreamAssumption
  <2>5. Cached'
    BY <2>1 DEF Cached
  <2>6. Asks(wanted')
    BY <2>1, <2>3, <2>4 DEF Asked, Asks
  <2> QED
    BY <2>5, <2>6 DEF Asked, Asks
<1> QED
  BY <1>1, <1>2, <1>3

\* A provider that has a byte to read reads a chunk of the file.
LEMMA ProvidedChunk ==
  ASSUME NEW req \in Request, req.start < FileSize
  PROVE  Chunk(req.start, Provided(req))
<1>1. /\ req.start \in Nat /\ req.length \in Nat \ {0}
      /\ ChunkSize \in Nat \ {0} /\ FileSize \in Nat
  BY StreamAssumption DEF Request
<1> DEFINE left == FileSize - req.start
           m == Min({ChunkSize, req.length, left})
<1>2. m \in {ChunkSize, req.length, left} /\ m <= left
  <2>1. ChunkSize \in Int /\ req.length \in Int /\ left \in Int
    BY <1>1
  <2> HIDE DEF left
  <2> QED
    BY <2>1, MinOfThree
<1>3. m \in Nat \ {0} /\ req.start + m <= FileSize
  BY <1>1, <1>2
<1> HIDE DEF m
<1>4. Provided(req) = Max({0, m})
  BY DEF Provided, m
<1>5. Provided(req) = m
  BY <1>3, <1>4, MaxOfTwo
<1> QED
  BY <1>1, <1>3, <1>5 DEF Chunk

-----------------------------------------------------------------------------
(* Stream: the invariant is inductive.                                     *)

LEMMA InPlaceUpdate ==
  ASSUME Placed, NEW c \in Conns, NEW k, InPlace(k), conn' = [conn EXCEPT ![c] = k]
  PROVE  Placed'
BY DEF Placed, InPlace

\* Three fields of a connection change at once.
LEMMA ThreeFields ==
  ASSUME Placed, NEW c \in Conns, NEW state, NEW pos, NEW tries
  PROVE  [conn EXCEPT ![c].state = state, ![c].pos = pos, ![c].tries = tries]
         = [conn EXCEPT ![c] = [conn[c] EXCEPT !.state = state, !.pos = pos,
                                               !.tries = tries]]
BY DEF Placed

LEMMA StreamInitially == StreamInit => StreamInv
<1>1. SUFFICES ASSUME StreamInit PROVE StreamInv
  OBVIOUS
<1>2. Cached /\ Answered /\ Asked
  BY <1>1 DEF StreamInit, Cached, Stored, Answered, Asked, Asks
<1>3. Placed
  <2> DEFINE k == [state |-> "closed", range |-> CHOOSE r \in Ranges : TRUE,
                   pos |-> 0, tries |-> 0]
  <2>1. (CHOOSE r \in Ranges : TRUE) \in Ranges
    BY StreamAssumption
  <2>2. 0 \in 0 .. MaxRetry /\ 0 <= FileSize
    BY StreamAssumption
  <2>3. InPlace(k)
    BY <2>1, <2>2 DEF InPlace, Connection, Busy
  <2> QED
    BY <1>1, <2>3 DEF StreamInit, Placed
<1>4. Counted
  BY <1>1, StreamAssumption DEF StreamInit, Counted
<1> QED
  BY <1>2, <1>3, <1>4 DEF StreamInv

\* The connection asks for the first chunk.
LEMMA OpenKeeps ==
  ASSUME StreamInv, NEW c \in Conns, NEW r \in Ranges, Open(c, r)
  PROVE  StreamInv'
<1> DEFINE pos == RangeStart(r)
           end == RangeEnd(r)
           k == [state |-> IF pos <= end THEN "wait" ELSE "done", range |-> r,
                 pos |-> pos, tries |-> 0]
<1>1. pos \in Nat /\ end \in Int /\ end < FileSize
  BY RangeTyped
<1>2. RequestChunk(cache, pos, end) /\ conn' = [conn EXCEPT ![c] = k]
  BY DEF Open
<1>3. Cached' /\ Asked'
  BY <1>1, <1>2, RequestChunkKeeps DEF StreamInv
<1>4. InPlace(k)
  BY <1>1, StreamAssumption DEF InPlace, Connection, Busy
<1>5. Placed'
  BY <1>2, <1>4, InPlaceUpdate DEF StreamInv
<1>6. Answered' /\ Counted'
  BY StreamAssumption DEF StreamInv, Open, Answered, Counted
<1> QED
  BY <1>3, <1>5, <1>6 DEF StreamInv

\* The connection goes on behind the chunk, which ends in the file.
LEMMA ObtainChunkKeeps ==
  ASSUME StreamInv, NEW c \in Conns, ObtainChunk(c)
  PROVE  StreamInv'
<1> DEFINE k == conn[c]
           pos == Behind(k.pos)
           end == RangeEnd(k.range)
<1>1. InPlace(k) /\ k \in Connection /\ k.range \in Ranges
  BY DEF StreamInv, Placed, InPlace, Connection
<1>2. end \in Int /\ end < FileSize
  BY <1>1, RangeTyped
<1>3. pos \in Nat /\ pos <= FileSize
  BY StreamAssumption
  DEF ObtainChunk, StreamInv, Cached, Stored, Chunk, Behind
<1>4. Answered' /\ Counted'
  BY DEF StreamInv, ObtainChunk, Answered, Counted
<1>5. CASE CanRequest(pos, end)
  <2>1. /\ RequestChunk(cache, pos, end)
        /\ \E next \in {IF pos <= end THEN "wait" ELSE "done", "closed"} :
             conn' = [conn EXCEPT ![c].state = next, ![c].pos = pos,
                                  ![c].tries = 0]
    BY <1>5 DEF ObtainChunk
  <2>2. PICK next \in {IF pos <= end THEN "wait" ELSE "done", "closed"} :
          conn' = [conn EXCEPT ![c].state = next, ![c].pos = pos, ![c].tries = 0]
    BY <2>1
  <2> DEFINE new == [k EXCEPT !.state = next, !.pos = pos, !.tries = 0]
  <2>3. conn' = [conn EXCEPT ![c] = new]
    <3> HIDE DEF pos, end
    <3> QED
      BY <2>2, ThreeFields, Zenon DEF StreamInv
  <2>4. Cached' /\ Asked'
    BY <1>2, <1>3, <2>1, RequestChunkKeeps DEF StreamInv
  <2>5. InPlace(new)
    <3>1. next \in Busy \cup {"closed", "done"}
      BY DEF Busy
    <3>2. next = "done" => pos > end
      BY <1>2, <1>3, StreamAssumption
    <3>3. 0 \in 0 .. MaxRetry
      BY StreamAssumption
    <3> HIDE DEF pos, k, end
    <3>4. new \in Connection
      BY <1>1, <1>3, <3>1, <3>3 DEF Connection
    <3>5. new.pos = pos /\ new.range = k.range /\ new.state = next
      BY <1>1 DEF Connection
    <3> HIDE DEF new
    <3> QED
      BY <1>3, <3>2, <3>4, <3>5 DEF InPlace, end
  <2>6. Placed'
    BY <2>3, <2>5, InPlaceUpdate DEF StreamInv
  <2> QED
    BY <2>4, <2>6, <1>4 DEF StreamInv
<1>6. CASE ~ CanRequest(pos, end)
  <2> DEFINE new == [k EXCEPT !.state = "failed"]
  <2>1. /\ conn' = [conn EXCEPT ![c].state = "failed"]
        /\ UNCHANGED <<cache, wanted>>
    BY <1>6 DEF ObtainChunk
  <2>2. conn' = [conn EXCEPT ![c] = new]
    BY <2>1 DEF StreamInv, Placed
  <2>3. InPlace(new)
    BY <1>1 DEF InPlace, Connection, Busy
  <2>4. Placed'
    BY <2>2, <2>3, InPlaceUpdate DEF StreamInv
  <2> QED
    BY <2>1, <2>4, <1>4 DEF StreamInv, Cached, Asked
<1> QED
  BY <1>5, <1>6

\* A look into the cache, and waiting, change nothing but the state.
LEMMA WaitingKeeps ==
  ASSUME StreamInv, NEW c \in Conns, Miss(c) \/ Park(c)
  PROVE  StreamInv'
<1>1. PICK next \in Busy :
        /\ conn' = [conn EXCEPT ![c].state = next]
        /\ UNCHANGED <<cache, wanted, answers, online, opens>>
  BY DEF Miss, Park, Busy
<1> DEFINE new == [conn[c] EXCEPT !.state = next]
<1>2. conn' = [conn EXCEPT ![c] = new]
  BY <1>1 DEF StreamInv, Placed
<1>3. InPlace(new)
  BY DEF StreamInv, Placed, InPlace, Connection, Busy
<1>4. Placed'
  BY <1>2, <1>3, InPlaceUpdate DEF StreamInv
<1> QED
  BY <1>1, <1>4 DEF StreamInv, Cached, Asked, Answered, Counted

\* Asking again counts a try, and there is one left.
LEMMA TimeoutKeeps ==
  ASSUME StreamInv, NEW c \in Conns, Timeout(c)
  PROVE  StreamInv'
<1> DEFINE k == conn[c]
           pos == k.pos
           end == RangeEnd(k.range)
<1>1. InPlace(k) /\ k \in Connection /\ k.range \in Ranges /\ pos \in Nat
  BY DEF StreamInv, Placed, InPlace, Connection
<1>2. end \in Int /\ end < FileSize
  BY <1>1, RangeTyped
<1>3. Answered' /\ Counted'
  BY DEF StreamInv, Timeout, Answered, Counted
<1>4. CASE online /\ MayRetry(k.tries)
  <2> DEFINE new == [k EXCEPT !.state = "wait", !.tries = NextTry(@)]
  <2>1. /\ RequestChunk(cache, pos, end)
        /\ conn' = [conn EXCEPT ![c].state = "wait", ![c].tries = NextTry(@)]
    BY <1>4 DEF Timeout
  <2>2. conn' = [conn EXCEPT ![c] = new]
    BY <2>1 DEF StreamInv, Placed
  <2>3. Cached' /\ Asked'
    BY <1>1, <1>2, <2>1, RequestChunkKeeps DEF StreamInv
  <2>4. k.tries + 1 \in 0 .. MaxRetry
    BY <1>1, <1>4, StreamAssumption DEF Connection, MayRetry
  <2>5. InPlace(new)
    BY <1>1, <2>4 DEF InPlace, Connection, Busy, NextTry
  <2>6. Placed'
    BY <2>2, <2>5, InPlaceUpdate DEF StreamInv
  <2> QED
    BY <1>3, <2>3, <2>6 DEF StreamInv
<1>5. CASE ~ (online /\ MayRetry(k.tries))
  <2> DEFINE new == [k EXCEPT !.state = "failed"]
  <2>1. /\ conn' = [conn EXCEPT ![c].state = "failed"]
        /\ UNCHANGED <<cache, wanted>>
    BY <1>5 DEF Timeout
  <2>2. conn' = [conn EXCEPT ![c] = new]
    BY <2>1 DEF StreamInv, Placed
  <2>3. InPlace(new)
    BY <1>1 DEF InPlace, Connection, Busy
  <2>4. Placed'
    BY <2>2, <2>3, InPlaceUpdate DEF StreamInv
  <2> QED
    BY <2>1, <2>4, <1>3 DEF StreamInv, Cached, Asked
<1> QED
  BY <1>4, <1>5

\* What the provider reads is a chunk of the file.
LEMMA AnswerKeeps ==
  ASSUME StreamInv, NEW req \in wanted, Answer(req)
  PROVE  StreamInv'
<1> DEFINE a == [start |-> req.start, length |-> Provided(req)]
<1>1. Chunk(req.start, Provided(req))
  BY ProvidedChunk DEF StreamInv, Asked, Asks
<1>2. a \in Request /\ Chunk(a.start, a.length)
  BY <1>1 DEF Chunk, Request
<1>3. answers' = answers \cup {a} /\ wanted' = wanted \ {req}
  BY DEF Answer
<1>4. Answered'
  BY <1>2, <1>3 DEF StreamInv, Answered
<1>5. Asked'
  BY <1>3 DEF StreamInv, Asked, Asks
<1>6. Cached' /\ Counted' /\ Placed'
  BY DEF Answer, StreamInv, Cached, Counted, Placed
<1> QED
  BY <1>4, <1>5, <1>6 DEF StreamInv

LEMMA LoseKeeps ==
  ASSUME StreamInv, NEW req \in wanted, Lose(req)
  PROVE  StreamInv'
<1>1. Asked'
  BY DEF Lose, StreamInv, Asked, Asks
<1> QED
  BY <1>1 DEF Lose, StreamInv, Cached, Answered, Counted, Placed

\* A chunk enters the cache, and who is waiting looks again.
LEMMA InsertChunkKeeps ==
  ASSUME StreamInv, NEW a \in answers, InsertChunk(a)
  PROVE  StreamInv'
<1>1. cache' = Put(cache, a.start, a.length) /\ Chunk(a.start, a.length)
  BY DEF InsertChunk, StreamInv, Answered
<1>2. Cached'
  BY <1>1, PutStored DEF StreamInv, Cached
<1>3. Answered'
  BY DEF InsertChunk, StreamInv, Answered
<1>4. \A c \in Conns : conn'[c] \in {conn[c], [conn[c] EXCEPT !.state = "wait"]}
  BY DEF InsertChunk
<1>5. \A c \in Conns : InPlace(conn'[c])
  BY <1>4 DEF StreamInv, Placed, InPlace, Connection, Busy
<1>6. conn' = [c \in Conns |-> conn'[c]]
  BY DEF InsertChunk
<1>7. Placed'
  BY <1>5, <1>6 DEF Placed
<1>8. Asked' /\ Counted'
  BY DEF InsertChunk, StreamInv, Asked, Counted
<1> QED
  BY <1>2, <1>3, <1>7, <1>8 DEF StreamInv

LEMMA EvictKeeps ==
  ASSUME StreamInv, NEW s \in DOMAIN cache, Evict(s)
  PROVE  StreamInv'
<1>1. Cached'
  BY DEF Evict, StreamInv, Cached, Stored, Restrict
<1> QED
  BY <1>1 DEF Evict, StreamInv, Asked, Answered, Counted, Placed

LEMMA StopServerKeeps == StreamInv /\ StopServer => StreamInv'
BY DEF StopServer, StreamInv, Cached, Asked, Asks, Answered, Counted, Placed

LEMMA StreamInductive == StreamInv /\ [StreamNext]_streamVars => StreamInv'
<1>1. SUFFICES ASSUME StreamInv, [StreamNext]_streamVars
               PROVE  StreamInv'
  OBVIOUS
<1>2. ASSUME NEW c \in Conns, Step(c)
      PROVE  StreamInv'
  BY <1>1, <1>2, ObtainChunkKeeps, WaitingKeeps, TimeoutKeeps DEF Step
<1>3. ASSUME NEW c \in Conns, NEW r \in Ranges, Open(c, r)
      PROVE  StreamInv'
  BY <1>1, <1>3, OpenKeeps
<1>4. ASSUME NEW req \in wanted, Answer(req) \/ Lose(req)
      PROVE  StreamInv'
  BY <1>1, <1>4, AnswerKeeps, LoseKeeps
<1>5. ASSUME NEW a \in answers, InsertChunk(a)
      PROVE  StreamInv'
  BY <1>1, <1>5, InsertChunkKeeps
<1>6. ASSUME NEW s \in DOMAIN cache, Evict(s)
      PROVE  StreamInv'
  BY <1>1, <1>6, EvictKeeps
<1>7. CASE UNCHANGED streamVars
  BY <1>1, <1>7
  DEF streamVars, StreamInv, Cached, Asked, Answered, Counted, Placed
<1> QED
  BY <1>1, <1>2, <1>3, <1>4, <1>5, <1>6, <1>7, StopServerKeeps DEF StreamNext

\* However requests, answers, losses, timeouts, evictions and the end of the
\* server interleave, requests, chunks and connections stay in the file.
THEOREM StreamInvariance == StreamSpec => []StreamInv
<1> QED
  BY StreamInitially, StreamInductive, PTL DEF StreamSpec

-----------------------------------------------------------------------------
(* Stream: what follows.                                                   *)

\* The server's state keeps its types; in particular what is asked of the
\* provider is never empty, and no connection retries more than MAX_RETRY times.
THEOREM StreamTypeCorrect == StreamSpec => []StreamTypeOK
<1>1. ASSUME StreamInv PROVE StreamTypeOK
  <2>1. conn \in [Conns -> Connection]
    BY <1>1 DEF StreamInv, Placed, InPlace
  <2>2. DOMAIN cache \subseteq Nat /\ \A s \in DOMAIN cache : cache[s] \in Nat
    BY <1>1 DEF StreamInv, Cached, Stored, Chunk
  <2> QED
    BY <1>1, <2>1, <2>2 DEF StreamInv, StreamTypeOK, Asked, Asks, Answered, Counted
<1> QED
  BY <1>1, StreamInvariance, PTL

\* Chunks hold bytes of the file and are never empty, whichever range the
\* player asked for and however chunks were cut and entered again.
THEOREM ChunksStayInFile == StreamSpec => []ChunksInFile
<1>1. StreamInv => ChunksInFile
  BY DEF StreamInv, Cached, Stored, Answered, Chunk, ChunksInFile
<1> QED
  BY <1>1, StreamInvariance, PTL

\* A connection that is through has written as many bytes as its header said,
\* for every range that runs to the end of the file and begins in it: what
\* a player sends.  A chunk is written as a whole, so for a range that ends
\* inside a chunk this is false.
THEOREM HeaderIsTrue ==
  ASSUME \A r \in Ranges : RangeEnd(r) = FileSize - 1 /\ RangeStart(r) <= FileSize
  PROVE  StreamSpec => []LengthKept
<1>1. ASSUME StreamInv, NEW c \in Conns, conn[c].state = "done"
      PROVE  Written(c) = RangeLength(conn[c].range)
  <2> DEFINE k == conn[c]
             start == RangeStart(k.range)
  <2>1. InPlace(k) /\ k.range \in Ranges /\ k.pos \in Nat
    BY <1>1 DEF StreamInv, Placed, InPlace, Connection
  <2>2. start \in Nat /\ start <= FileSize /\ RangeEnd(k.range) = FileSize - 1
    BY <2>1, RangeTyped
  <2>3. FileSize \in Nat
    BY StreamAssumption
  <2>4. k.pos = FileSize
    BY <1>1, <2>1, <2>2, <2>3 DEF InPlace
  <2>5. RangeEnd(k.range) - start + 1 = FileSize - start
    BY <2>2, <2>3
  <2>6. FileSize - start \in Nat /\ FileSize - start < U64
    BY <2>2, <2>3, Reduced
  <2>7. RangeLength(k.range) = FileSize - start
    BY <2>5, <2>6, Reduced DEF RangeLength
  <2> QED
    BY <2>4, <2>7 DEF Written
<1>2. StreamInv => LengthKept
  BY <1>1 DEF LengthKept
<1> QED
  BY <1>2, StreamInvariance, PTL

\* Whatever the range, as long as it is not empty: a connection that is through
\* is never short of what its header said (Content-Length, lib.rs:269).
NeverShort ==
  \A c \in Conns :
    LET r == conn[c].range IN
    conn[c].state = "done" /\ RangeStart(r) <= RangeEnd(r)
      => Written(c) >= RangeLength(r)

THEOREM HeaderIsCovered == StreamSpec => []NeverShort
<1>1. ASSUME StreamInv, NEW c \in Conns, conn[c].state = "done",
             RangeStart(conn[c].range) <= RangeEnd(conn[c].range)
      PROVE  Written(c) >= RangeLength(conn[c].range)
  <2> DEFINE k == conn[c]
             start == RangeStart(k.range)
             end == RangeEnd(k.range)
  <2>1. InPlace(k) /\ k.range \in Ranges /\ k.pos \in Nat
    BY <1>1 DEF StreamInv, Placed, InPlace, Connection
  <2>2. start \in Nat /\ end \in Int /\ end < FileSize /\ start <= end
    BY <1>1, <2>1, RangeTyped
  <2>3. end - start + 1 \in Nat /\ end - start + 1 < U64
    BY <2>2, Reduced, StreamAssumption
  <2>4. RangeLength(k.range) = end - start + 1
    BY <2>3, Reduced DEF RangeLength
  <2>5. k.pos > end
    BY <1>1, <2>1 DEF InPlace
  <2> QED
    BY <2>1, <2>2, <2>4, <2>5 DEF Written
<1>2. StreamInv => NeverShort
  BY <1>1 DEF NeverShort
<1> QED
  BY <1>2, StreamInvariance, PTL

-----------------------------------------------------------------------------
(* Database: the inductive invariant.                                      *)

\* Crawlers that have counted themselves as queued and not yet as finished.
Reading == {t \in Task : crawler[t].stage \in {"reading", "joining"}}

Balanced == Cardinality(Reading) + progress.finished <= progress.queued

\* A directory that can be got at from some paths, by subdirectories.
Closed(ds) == \A d \in ds : Sub[d] \subseteq ds
Under(d, roots) ==
    \A ds \in SUBSET Dirs : Closed(ds) /\ roots \subseteq ds => d \in ds

\* Files that are where they are said to be, below some paths.
AllBelow(found, roots) ==
    \A f \in found : Under(f[1], roots) /\ f[2] \in Files[f[1]]

\* What a crawler reads and found belongs to the update under way.
Belongs(c, d, roots) ==
    c.stage # "none" =>
        Under(d, roots) /\ c.left \subseteq Entries(d) /\ AllBelow(c.found, roots)

Traced ==
    /\ update.on => /\ \A t \in Task : Belongs(crawler[t], t[2], update.of)
                    /\ AllBelow(update.found, update.of)
    /\ AllBelow(store, scanned)

DatabaseInv == DatabaseTypeOK /\ Balanced /\ Traced

-----------------------------------------------------------------------------
(* Database: crawlers and counters.                                        *)

LEMMA TasksFinite == IsFiniteSet(Task)
<1>1. IsFiniteSet(Paths)
  BY DatabaseAssumption, FS_Subset
<1> QED
  BY <1>1, DatabaseAssumption, FS_Product DEF Task

LEMMA ReadingFinite ==
  /\ IsFiniteSet(Reading) /\ Cardinality(Reading) \in Nat
  /\ \A s \in SUBSET Reading : Cardinality(s) \in Nat /\ Cardinality(s) <= Cardinality(Reading)
  /\ \A t \in Reading : Cardinality(Reading \ {t}) = Cardinality(Reading) - 1
  /\ \A t : Cardinality(Reading \cup {t}) \in Nat
              /\ Cardinality(Reading \cup {t}) <= Cardinality(Reading) + 1
<1>1. IsFiniteSet(Reading) /\ Cardinality(Reading) \in Nat
  BY TasksFinite, FS_Subset, FS_CardinalityType DEF Reading
<1>2. ASSUME NEW s \in SUBSET Reading
      PROVE  Cardinality(s) \in Nat /\ Cardinality(s) <= Cardinality(Reading)
  BY <1>1, FS_Subset, FS_CardinalityType
<1>3. ASSUME NEW t \in Reading
      PROVE  Cardinality(Reading \ {t}) = Cardinality(Reading) - 1
  BY <1>1, FS_RemoveElement
<1>4. ASSUME NEW t
      PROVE  /\ Cardinality(Reading \cup {t}) \in Nat
             /\ Cardinality(Reading \cup {t}) <= Cardinality(Reading) + 1
  BY <1>1, FS_AddElement
<1> QED
  BY <1>1, <1>2, <1>3, <1>4

\* Without a crawler that begins to read the counters stay in balance ...
LEMMA StaysBalanced ==
  ASSUME DatabaseTypeOK, Balanced, UNCHANGED progress,
         \A t \in Task : crawler'[t].stage \in {"reading", "joining"} =>
                           crawler[t].stage \in {"reading", "joining"}
  PROVE  Balanced'
<1>1. Reading' \subseteq Reading
  BY DEF Reading
<1>2. Cardinality(Reading') \in Nat /\ Cardinality(Reading') <= Cardinality(Reading)
  BY <1>1, ReadingFinite
<1> QED
  BY <1>2, ReadingFinite DEF Balanced, DatabaseTypeOK

\* ... as they do with one, that is counted.
LEMMA QueuedBalanced ==
  ASSUME DatabaseTypeOK, Balanced, NEW t \in Task, NEW c,
         crawler' = [crawler EXCEPT ![t] = c],
         progress' = [progress EXCEPT !.queued = @ + 1]
  PROVE  Balanced' /\ progress' \in [queued : Nat, finished : Nat]
<1>1. Reading' \subseteq Reading \cup {t}
  BY DEF Reading, DatabaseTypeOK
<1>2. IsFiniteSet(Reading \cup {t})
  BY ReadingFinite, FS_AddElement
<1>3. Cardinality(Reading') \in Nat
      /\ Cardinality(Reading') <= Cardinality(Reading \cup {t})
  BY <1>1, <1>2, FS_Subset, FS_CardinalityType
<1>4. /\ progress' \in [queued : Nat, finished : Nat]
      /\ progress'.queued = progress.queued + 1 /\ progress'.finished = progress.finished
  BY DEF DatabaseTypeOK
<1>5. progress.queued \in Nat /\ progress.finished \in Nat
  BY DEF DatabaseTypeOK
<1>6. /\ Cardinality(Reading) \in Nat /\ Cardinality(Reading \cup {t}) \in Nat
      /\ Cardinality(Reading \cup {t}) <= Cardinality(Reading) + 1
  BY ReadingFinite
<1>7. Cardinality(Reading') <= Cardinality(Reading) + 1
  BY <1>3, <1>6
<1>8. Cardinality(Reading) + progress.finished <= progress.queued
  BY DEF Balanced
<1>9. Cardinality(Reading') + progress'.finished <= progress'.queued
  BY <1>3, <1>4, <1>5, <1>6, <1>7, <1>8
<1> QED
  BY <1>4, <1>9 DEF Balanced

LEMMA FinishedBalanced ==
  ASSUME DatabaseTypeOK, Balanced, NEW t \in Task, NEW c,
         crawler[t].stage = "joining", c.stage = "ok",
         crawler' = [crawler EXCEPT ![t] = c],
         progress' = [progress EXCEPT !.finished = @ + 1]
  PROVE  Balanced' /\ progress' \in [queued : Nat, finished : Nat]
<1>1. Reading' = Reading \ {t} /\ t \in Reading
  BY DEF Reading, DatabaseTypeOK
<1>2. Cardinality(Reading') = Cardinality(Reading) - 1
  BY <1>1, ReadingFinite
<1>3. /\ progress' \in [queued : Nat, finished : Nat]
      /\ progress'.queued = progress.queued /\ progress'.finished = progress.finished + 1
  BY DEF DatabaseTypeOK
<1>4. progress.queued \in Nat /\ progress.finished \in Nat
  BY DEF DatabaseTypeOK
<1> QED
  BY <1>2, <1>3, <1>4, ReadingFinite DEF Balanced

LEMMA NoneReading ==
  ASSUME \A t \in Task : crawler[t].stage \in {"none", "spawned"}
  PROVE  Cardinality(Reading) = 0
<1>1. Reading = {}
  BY DEF Reading
<1> QED
  BY <1>1, FS_EmptySet

LEMMA CrawlersMade ==
  /\ NoCrawler \in Crawler /\ NoCrawler.stage = "none" /\ NoCrawler.found = {}
  /\ Spawned \in Crawler /\ Spawned.stage = "spawned" /\ Spawned.left = {}
  /\ Spawned.found = {}
BY DEF NoCrawler, Spawned, Crawler

LEMMA EntriesTyped == \A d \in Dirs : Entries(d) \subseteq Entry
<1> SUFFICES ASSUME NEW d \in Dirs, NEW e \in Entries(d)
             PROVE  e \in Entry
  OBVIOUS
<1>1. Sub[d] \subseteq Dirs /\ Files[d] \subseteq Names
  BY DatabaseAssumption
<1> QED
  BY <1>1 DEF Entries, Entry

\* What an entry names is below the paths as its directory is.
LEMMA EntryBelow ==
  ASSUME NEW roots, NEW d \in Dirs, Under(d, roots), NEW e \in Entries(d)
  PROVE  /\ e.kind = "dir" => e.dir \in Dirs /\ Under(e.dir, roots)
         /\ e.kind = "file" => /\ <<d, e.name>> \in File
                               /\ AllBelow({<<d, e.name>>}, roots)
<1>1. /\ e.kind = "dir" => e.dir \in Sub[d]
      /\ e.kind = "file" => e.name \in Files[d]
  BY DEF Entries
<1>2. Sub[d] \subseteq Dirs /\ Files[d] \subseteq Names
  BY DatabaseAssumption
<1>3. ASSUME e.kind = "dir"
      PROVE  Under(e.dir, roots)
  BY <1>1, <1>3 DEF Under, Closed
<1>4. ASSUME e.kind = "file"
      PROVE  <<d, e.name>> \in File /\ AllBelow({<<d, e.name>>}, roots)
  BY <1>1, <1>2, <1>4 DEF AllBelow, File
<1> QED
  BY <1>1, <1>2, <1>3, <1>4

-----------------------------------------------------------------------------
(* Database: every step keeps the invariant.                               *)

\* A step of the crawlers.
LEMMA CrawlersKeep ==
  ASSUME DatabaseInv, crawler' \in [Task -> Crawler],
         progress' \in [queued : Nat, finished : Nat], Balanced',
         update' = update \/ update' = [update EXCEPT !.faulty = TRUE],
         update.on => \A t \in Task : Belongs(crawler'[t], t[2], update.of),
         failures' \in 0 .. MaxFailures,
         UNCHANGED <<paths, stopped, store, shown, scanned, faulty, operations>>
  PROVE  DatabaseInv'
<1>1. DatabaseTypeOK /\ Traced
  BY DEF DatabaseInv
<1>2. /\ update' \in Update /\ update'.on = update.on /\ update'.of = update.of
      /\ update'.found = update.found
  BY <1>1 DEF DatabaseTypeOK, Update
<1>3. progress'.finished <= progress'.queued
  <2>1. Cardinality(Reading') \in Nat
    BY TasksFinite, FS_Subset, FS_CardinalityType DEF Reading
  <2> QED
    BY <2>1 DEF Balanced
<1>4. DatabaseTypeOK'
  BY <1>1, <1>2, <1>3 DEF DatabaseTypeOK, FindFile
<1>5. Traced'
  BY <1>1, <1>2 DEF Traced
<1> QED
  BY <1>4, <1>5 DEF DatabaseInv

LEMMA ReadDirKeeps ==
  ASSUME DatabaseInv, NEW t \in Task, ReadDir(t)
  PROVE  DatabaseInv'
<1> DEFINE c == IF t[2] \in Unreadable THEN [crawler[t] EXCEPT !.stage = "err"]
                ELSE [crawler[t] EXCEPT !.stage = "reading", !.left = Entries(t[2])]
<1>1. /\ DatabaseTypeOK /\ Balanced /\ Traced /\ crawler[t] \in Crawler
      /\ t[2] \in Dirs /\ failures \in 0 .. MaxFailures
  BY DEF DatabaseInv, DatabaseTypeOK, Task
<1>2. /\ crawler' = [crawler EXCEPT ![t] = c] /\ crawler[t].stage = "spawned"
      /\ progress' = [progress EXCEPT !.queued = @ + 1]
      /\ UNCHANGED <<paths, update, stopped, store, shown, scanned, faulty, operations,
                     failures>>
  BY DEF ReadDir, Crawl
<1>3. Entries(t[2]) \subseteq Entry
  BY <1>1, EntriesTyped
<1>4. /\ c \in Crawler /\ c.found = crawler[t].found
      /\ c.left = crawler[t].left \/ c.left = Entries(t[2])
  BY <1>1, <1>3 DEF Crawler
<1> HIDE DEF c
<1>5. /\ crawler' \in [Task -> Crawler] /\ crawler'[t] = c
      /\ \A u \in Task \ {t} : crawler'[u] = crawler[u]
  BY <1>1, <1>2, <1>4 DEF DatabaseTypeOK
<1>6. Balanced' /\ progress' \in [queued : Nat, finished : Nat]
  BY <1>1, <1>2, QueuedBalanced
<1>7. ASSUME update.on, NEW u \in Task
      PROVE  Belongs(crawler'[u], u[2], update.of)
  BY <1>1, <1>2, <1>4, <1>5, <1>7 DEF Traced, Belongs
<1> QED
  BY <1>1, <1>2, <1>5, <1>6, <1>7, CrawlersKeep

LEMMA HandleEntryKeeps ==
  ASSUME DatabaseInv, NEW t \in Task, NEW e \in crawler[t].left, HandleEntry(t, e)
  PROVE  DatabaseInv'
<1> DEFINE c == [crawler[t] EXCEPT !.left = @ \ {e}]
<1>1. /\ DatabaseTypeOK /\ Balanced /\ Traced /\ crawler[t] \in Crawler
      /\ t[1] \in Paths /\ t[2] \in Dirs /\ t = <<t[1], t[2]>>
      /\ failures \in 0 .. MaxFailures /\ crawler \in [Task -> Crawler]
      /\ progress \in [queued : Nat, finished : Nat]
  BY DEF DatabaseInv, DatabaseTypeOK, Task
<1>2. /\ crawler[t].stage = "reading"
      /\ UNCHANGED <<paths, update, progress, stopped, store, shown, scanned,
                     faulty, operations, failures>>
  BY DEF HandleEntry
<1>3. /\ e \in Entry /\ c \in Crawler /\ c.found = crawler[t].found
      /\ c.left \subseteq crawler[t].left /\ c.stage = "reading"
      /\ c.kids = crawler[t].kids
  BY <1>1, <1>2 DEF Crawler
<1>4. update.on => /\ Under(t[2], update.of) /\ e \in Entries(t[2])
                   /\ AllBelow(crawler[t].found, update.of)
                   /\ crawler[t].left \subseteq Entries(t[2])
  BY <1>1, <1>2 DEF Traced, Belongs
<1>5. CASE e.kind = "dir" /\ crawler' = [crawler EXCEPT
               ![t] = [c EXCEPT !.kids = @ \cup {e.dir}],
               ![<<t[1], e.dir>>] = Spawned]
  <2> DEFINE k == [c EXCEPT !.kids = @ \cup {e.dir}]
             u == <<t[1], e.dir>>
  <2>1. crawler' = [crawler EXCEPT ![t] = k, ![u] = Spawned]
    BY <1>5
  <2>2. e.dir \in Dirs
    BY <1>3, <1>5 DEF Entry
  <2>3. u \in Task /\ u[2] = e.dir
    BY <1>1, <2>2 DEF Task
  <2> HIDE DEF c, u
  <2>4. k \in Crawler /\ k.found = c.found /\ k.left = c.left /\ k.stage = "reading"
    BY <1>3, <2>2 DEF Crawler
  <2> HIDE DEF k
  <2>5. /\ crawler' \in [Task -> Crawler] /\ crawler'[u] = Spawned
        /\ t # u => crawler'[t] = k
        /\ \A s \in Task \ {t, u} : crawler'[s] = crawler[s]
    BY <1>1, <2>1, <2>3, <2>4, CrawlersMade
  <2>6. Balanced'
    BY <1>1, <1>2, <2>4, <2>5, CrawlersMade, StaysBalanced
  <2>7. ASSUME update.on, NEW s \in Task
        PROVE  Belongs(crawler'[s], s[2], update.of)
    <3>1. CASE s = u
      <4>1. Under(u[2], update.of)
        BY <1>1, <1>4, <1>5, <2>3, <2>7, EntryBelow
      <4> QED
        BY <2>5, <3>1, <4>1, CrawlersMade DEF Belongs, AllBelow
    <3>2. CASE s = t /\ s # u
      BY <1>3, <1>4, <2>4, <2>5, <2>7, <3>2 DEF Belongs
    <3>3. CASE s # t /\ s # u
      BY <1>1, <2>5, <2>7, <3>3 DEF Traced
    <3> QED
      BY <3>1, <3>2, <3>3
  <2> QED
    BY <1>1, <1>2, <2>5, <2>6, <2>7, CrawlersKeep
<1>6. CASE e.kind = "file"
             /\ crawler' = [crawler EXCEPT ![t] = [c EXCEPT !.found = @ \cup {<<t[2], e.name>>}]]
  <2> DEFINE f == <<t[2], e.name>>
             k == [c EXCEPT !.found = @ \cup {f}]
  <2>1. crawler' = [crawler EXCEPT ![t] = k]
    BY <1>6
  <2>2. f \in File
    BY <1>1, <1>3, <1>6 DEF Entry, File
  <2>3. update.on => AllBelow({f}, update.of)
    BY <1>1, <1>4, <1>6, EntryBelow
  <2> HIDE DEF c, f
  <2>4. /\ k \in Crawler /\ k.found = c.found \cup {f} /\ k.left = c.left
        /\ k.stage = "reading"
    BY <1>3, <2>2 DEF Crawler
  <2> HIDE DEF k
  <2>5. /\ crawler' \in [Task -> Crawler] /\ crawler'[t] = k
        /\ \A s \in Task \ {t} : crawler'[s] = crawler[s]
    BY <1>1, <2>1, <2>4
  <2>6. Balanced'
    BY <1>1, <1>2, <2>4, <2>5, StaysBalanced
  <2>7. ASSUME update.on, NEW s \in Task
        PROVE  Belongs(crawler'[s], s[2], update.of)
    <3>1. AllBelow(k.found, update.of)
      BY <1>3, <1>4, <2>3, <2>4, <2>7 DEF AllBelow
    <3>2. CASE s = t
      BY <1>3, <1>4, <2>4, <2>5, <2>7, <3>1, <3>2 DEF Belongs
    <3>3. CASE s # t
      BY <1>1, <2>5, <2>7, <3>3 DEF Traced
    <3> QED
      BY <3>2, <3>3
  <2> QED
    BY <1>1, <1>2, <2>5, <2>6, <2>7, CrawlersKeep
<1> QED
  BY <1>5, <1>6 DEF HandleEntry, Crawl

\* A crawler gets another stage, or fewer entries.
LEMMA OneCrawler ==
  ASSUME DatabaseInv, NEW t \in Task, NEW c \in Crawler,
         crawler' = [crawler EXCEPT ![t] = c],
         crawler[t].stage # "none", c.found = crawler[t].found,
         c.left \subseteq crawler[t].left,
         c.stage \in {"reading", "joining"} =>
            crawler[t].stage \in {"reading", "joining"},
         update' = update \/ update' = [update EXCEPT !.faulty = TRUE],
         failures' \in 0 .. MaxFailures,
         UNCHANGED <<paths, progress, stopped, store, shown, scanned, faulty, operations>>
  PROVE  DatabaseInv'
<1>1. /\ DatabaseTypeOK /\ Balanced /\ Traced /\ crawler \in [Task -> Crawler]
      /\ progress \in [queued : Nat, finished : Nat]
  BY DEF DatabaseInv, DatabaseTypeOK
<1>2. /\ crawler' \in [Task -> Crawler] /\ crawler'[t] = c
      /\ \A s \in Task \ {t} : crawler'[s] = crawler[s]
  BY <1>1
<1>3. Balanced'
  BY <1>1, <1>2, StaysBalanced
<1>4. ASSUME update.on, NEW s \in Task
      PROVE  Belongs(crawler'[s], s[2], update.of)
  BY <1>1, <1>2, <1>4 DEF Traced, Belongs
<1> QED
  BY <1>1, <1>2, <1>3, <1>4, CrawlersKeep

LEMMA EntryFailsKeeps ==
  ASSUME DatabaseInv, NEW t \in Task, NEW all \in BOOLEAN, EntryFails(t, all)
  PROVE  DatabaseInv'
<1>1. PICK e \in crawler[t].left :
        crawler' = [crawler EXCEPT ![t] =
                      [crawler[t] EXCEPT !.left = IF all THEN {} ELSE @ \ {e}]]
  BY DEF EntryFails, Crawl
<1> DEFINE left == IF all THEN {} ELSE crawler[t].left \ {e}
           c == [crawler[t] EXCEPT !.left = left]
<1>2. crawler[t] \in Crawler /\ left \subseteq crawler[t].left
  BY DEF DatabaseInv, DatabaseTypeOK
<1>3. crawler' = [crawler EXCEPT ![t] = c]
  BY <1>1
<1> HIDE DEF left
<1>4. /\ c \in Crawler /\ c.found = crawler[t].found /\ c.left = left
      /\ c.stage = crawler[t].stage
  BY <1>2 DEF Crawler
<1> HIDE DEF c
<1>5. /\ crawler[t].stage = "reading" /\ update' = [update EXCEPT !.faulty = TRUE]
      /\ failures' \in 0 .. MaxFailures
      /\ UNCHANGED <<paths, progress, stopped, store, shown, scanned, faulty, operations>>
  BY DatabaseAssumption DEF EntryFails, DatabaseInv, DatabaseTypeOK
<1> QED
  BY <1>2, <1>3, <1>4, <1>5, OneCrawler

LEMMA FinishSubdirsKeeps ==
  ASSUME DatabaseInv, NEW t \in Task, FinishSubdirs(t)
  PROVE  DatabaseInv'
<1> DEFINE c == [crawler[t] EXCEPT !.stage = "joining"]
<1>1. crawler[t] \in Crawler /\ failures \in 0 .. MaxFailures
  BY DEF DatabaseInv, DatabaseTypeOK
<1>2. /\ crawler' = [crawler EXCEPT ![t] = c] /\ crawler[t].stage = "reading"
      /\ UNCHANGED <<paths, update, progress, stopped, store, shown, scanned,
                     faulty, operations, failures>>
  BY DEF FinishSubdirs, Crawl
<1>3. c \in Crawler /\ c.found = crawler[t].found /\ c.left = crawler[t].left
  BY <1>1 DEF Crawler
<1> HIDE DEF c
<1> QED
  BY <1>1, <1>2, <1>3, OneCrawler

LEMMA JoinNextKeeps ==
  ASSUME DatabaseInv, NEW t \in Task, NEW d \in crawler[t].kids, JoinNext(t, d)
  PROVE  DatabaseInv'
<1> DEFINE u == <<t[1], d>>
           kid == crawler[u]
           c == [crawler[t] EXCEPT !.kids = @ \ {d}, !.found = @ \cup kid.found]
<1>1. /\ DatabaseTypeOK /\ Balanced /\ Traced /\ crawler[t] \in Crawler
      /\ t[1] \in Paths /\ t[2] \in Dirs /\ crawler \in [Task -> Crawler]
      /\ failures \in 0 .. MaxFailures /\ progress \in [queued : Nat, finished : Nat]
  BY DEF DatabaseInv, DatabaseTypeOK, Task
<1>2. u \in Task
  BY <1>1 DEF Crawler, Task
<1>3. /\ crawler[t].stage = "joining" /\ kid.stage \in {"ok", "err"}
      /\ UNCHANGED <<paths, update, progress, stopped, store, shown, scanned,
                     faulty, operations, failures>>
  BY DEF JoinNext
<1>4. crawler' = [crawler EXCEPT ![t] = c, ![u] = NoCrawler]
  BY DEF JoinNext
<1> HIDE DEF u
<1>5. /\ c \in Crawler /\ c.found = crawler[t].found \cup kid.found
      /\ c.left = crawler[t].left /\ c.stage = "joining"
  <2>1. kid \in Crawler
    BY <1>1, <1>2
  <2> QED
    BY <1>1, <1>3, <2>1 DEF Crawler
<1> HIDE DEF c
<1>6. /\ crawler' \in [Task -> Crawler] /\ crawler'[u] = NoCrawler
      /\ t # u => crawler'[t] = c
      /\ \A s \in Task \ {t, u} : crawler'[s] = crawler[s]
  BY <1>1, <1>2, <1>4, <1>5, CrawlersMade
<1>7. Balanced'
  BY <1>1, <1>3, <1>6, CrawlersMade, StaysBalanced
<1>8. ASSUME update.on, NEW s \in Task
      PROVE  Belongs(crawler'[s], s[2], update.of)
  <2>1. CASE s = u
    BY <1>6, <2>1, CrawlersMade DEF Belongs
  <2>2. CASE s = t /\ s # u
    <3>1. /\ Under(t[2], update.of) /\ crawler[t].left \subseteq Entries(t[2])
          /\ AllBelow(crawler[t].found, update.of)
      BY <1>1, <1>3, <1>8 DEF Traced, Belongs
    <3>2. AllBelow(kid.found, update.of)
      BY <1>1, <1>2, <1>3, <1>8 DEF Traced, Belongs
    <3>3. AllBelow(c.found, update.of)
      BY <1>5, <3>1, <3>2 DEF AllBelow
    <3> QED
      BY <1>5, <1>6, <2>2, <3>1, <3>3 DEF Belongs
  <2>3. CASE s # t /\ s # u
    BY <1>1, <1>6, <1>8, <2>3 DEF Traced
  <2> QED
    BY <2>1, <2>2, <2>3
<1> QED
  BY <1>1, <1>3, <1>6, <1>7, <1>8, CrawlersKeep

LEMMA FinishKeeps ==
  ASSUME DatabaseInv, NEW t \in Task, Finish(t)
  PROVE  DatabaseInv'
<1> DEFINE c == [crawler[t] EXCEPT !.stage = "ok"]
<1>1. /\ DatabaseTypeOK /\ Balanced /\ Traced /\ crawler[t] \in Crawler
      /\ failures \in 0 .. MaxFailures /\ crawler \in [Task -> Crawler]
  BY DEF DatabaseInv, DatabaseTypeOK
<1>2. /\ crawler' = [crawler EXCEPT ![t] = c] /\ crawler[t].stage = "joining"
      /\ progress' = [progress EXCEPT !.finished = @ + 1]
      /\ UNCHANGED <<paths, update, stopped, store, shown, scanned, faulty, operations,
                     failures>>
  BY DEF Finish, Crawl
<1>3. /\ c \in Crawler /\ c.found = crawler[t].found /\ c.left = crawler[t].left
      /\ c.stage = "ok"
  BY <1>1 DEF Crawler
<1> HIDE DEF c
<1>4. /\ crawler' \in [Task -> Crawler] /\ crawler'[t] = c
      /\ \A s \in Task \ {t} : crawler'[s] = crawler[s]
  BY <1>1, <1>2, <1>3
<1>5. Balanced' /\ progress' \in [queued : Nat, finished : Nat]
  BY <1>1, <1>2, <1>3, FinishedBalanced
<1>6. ASSUME update.on, NEW s \in Task
      PROVE  Belongs(crawler'[s], s[2], update.of)
  BY <1>1, <1>2, <1>3, <1>4, <1>6 DEF Traced, Belongs
<1> QED
  BY <1>1, <1>2, <1>4, <1>5, <1>6, CrawlersKeep

LEMMA JoinPathKeeps ==
  ASSUME DatabaseInv, NEW p \in Paths, JoinPath(p)
  PROVE  DatabaseInv'
<1> DEFINE t == <<p, p>>
           new == [update EXCEPT !.roots = @ \ {p}, !.found = @ \cup crawler[t].found]
<1>1. /\ DatabaseTypeOK /\ Balanced /\ Traced /\ t \in Task /\ t[2] = p
      /\ crawler \in [Task -> Crawler] /\ update \in Update
  BY DatabaseAssumption DEF DatabaseInv, DatabaseTypeOK, Task
<1>2. /\ crawler[t].stage \in {"ok", "err"} /\ update' = new
      /\ crawler' = [crawler EXCEPT ![t] = NoCrawler]
      /\ UNCHANGED <<paths, progress, stopped, store, shown, scanned, faulty, operations,
                     failures>>
  BY DEF JoinPath, Crawl
<1>3. crawler[t] \in Crawler
  BY <1>1
<1>4. /\ new \in Update /\ new.on = update.on /\ new.of = update.of
      /\ new.found = update.found \cup crawler[t].found
  BY <1>1, <1>3 DEF Update, Crawler
<1> HIDE DEF t, new
<1>5. /\ crawler' \in [Task -> Crawler] /\ crawler'[t] = NoCrawler
      /\ \A s \in Task \ {t} : crawler'[s] = crawler[s]
  BY <1>1, <1>2, CrawlersMade
<1>6. DatabaseTypeOK'
  BY <1>1, <1>2, <1>4, <1>5 DEF DatabaseTypeOK, FindFile
<1>7. Balanced'
  BY <1>1, <1>2, <1>5, CrawlersMade, StaysBalanced
<1>8. ASSUME update.on, NEW s \in Task
      PROVE  Belongs(crawler'[s], s[2], update.of)
  BY <1>1, <1>5, <1>8, CrawlersMade DEF Traced, Belongs
<1>9. ASSUME update.on
      PROVE  AllBelow(new.found, update.of)
  BY <1>1, <1>2, <1>4, <1>9 DEF Traced, Belongs, AllBelow
<1>10. Traced'
  BY <1>1, <1>2, <1>4, <1>8, <1>9 DEF Traced
<1> QED
  BY <1>6, <1>7, <1>10 DEF DatabaseInv

\* The paths an update begins with are below themselves.
LEMMA StartedRight ==
  ASSUME NEW p \in SUBSET Paths
  PROVE  /\ Started(p).update \in Update /\ Started(p).crawler \in [Task -> Crawler]
         /\ Started(p).update.on /\ Started(p).update.of = p
         /\ AllBelow(Started(p).update.found, p)
         /\ \A t \in Task : /\ Started(p).crawler[t].stage \in {"none", "spawned"}
                            /\ Belongs(Started(p).crawler[t], t[2], p)
<1> DEFINE new == [NoUpdate EXCEPT !.on = TRUE, !.roots = p, !.of = p]
           made == [t \in Task |-> IF t[1] \in p /\ t[2] = t[1] THEN Spawned
                                   ELSE NoCrawler]
<1>1. Started(p).update = new /\ Started(p).crawler = made
  BY DEF Started
<1>2. new \in Update /\ new.on /\ new.of = p /\ new.found = {}
  BY DEF NoUpdate, Update
<1>3. \A t \in Task : made[t] = IF t[1] \in p /\ t[2] = t[1] THEN Spawned ELSE NoCrawler
  OBVIOUS
<1>4. made \in [Task -> Crawler]
  BY CrawlersMade
<1> HIDE DEF new, made
<1>5. ASSUME NEW t \in Task
      PROVE  made[t].stage \in {"none", "spawned"} /\ Belongs(made[t], t[2], p)
  <2>1. CASE t[1] \in p /\ t[2] = t[1]
    <3>1. Under(t[2], p)
      BY <2>1 DEF Under
    <3>2. made[t] = Spawned
      BY <1>3, <2>1
    <3> QED
      BY <3>1, <3>2, CrawlersMade DEF Belongs, AllBelow
  <2>2. CASE ~ (t[1] \in p /\ t[2] = t[1])
    <3>1. made[t] = NoCrawler
      BY <1>3, <2>2
    <3> QED
      BY <3>1, CrawlersMade DEF Belongs
  <2> QED
    BY <2>1, <2>2
<1>6. AllBelow(new.found, p)
  BY <1>2 DEF AllBelow
<1> QED
  BY <1>1, <1>2, <1>4, <1>5, <1>6

LEMMA StartUpdateKeeps ==
  ASSUME DatabaseInv, NEW p \in SUBSET Paths, StartUpdate(p), paths' \in SUBSET Paths,
         operations' \in 0 .. MaxOperations,
         UNCHANGED <<progress, store, shown, scanned, faulty, failures>>
  PROVE  DatabaseInv'
<1>1. DatabaseTypeOK /\ Balanced /\ Traced
  BY DEF DatabaseInv
<1>2. CASE update.on
  <2>1. UNCHANGED <<update, crawler, stopped>>
    BY <1>2 DEF StartUpdate
  <2>2. DatabaseTypeOK'
    BY <1>1, <2>1 DEF DatabaseTypeOK, FindFile
  <2>3. Balanced'
    BY <1>1, <2>1, StaysBalanced
  <2>4. Traced'
    BY <1>1, <2>1 DEF Traced
  <2> QED
    BY <2>2, <2>3, <2>4 DEF DatabaseInv
<1>3. CASE ~ update.on
  <2>1. /\ update' = Started(p).update /\ crawler' = Started(p).crawler
        /\ stopped' = FALSE
    BY <1>3 DEF StartUpdate
  <2>2. DatabaseTypeOK'
    <3>1. update' \in Update /\ crawler' \in [Task -> Crawler]
      BY <2>1, StartedRight
    <3> QED
      BY <1>1, <2>1, <3>1 DEF DatabaseTypeOK, FindFile
  <2>3. Balanced'
    <3>1. \A t \in Task : crawler'[t].stage \notin {"reading", "joining"}
      BY <2>1, StartedRight
    <3> QED
      BY <1>1, <3>1, StaysBalanced
  <2>4. Traced'
    BY <1>1, <2>1, StartedRight DEF Traced
  <2> QED
    BY <2>2, <2>3, <2>4 DEF DatabaseInv
<1> QED
  BY <1>2, <1>3

LEMMA UserKeeps ==
  ASSUME DatabaseInv, Operation
  PROVE  DatabaseInv'
<1>1. DatabaseTypeOK /\ Balanced /\ Traced
  BY DEF DatabaseInv
<1>2. Operate => operations' \in 0 .. MaxOperations
  BY <1>1, DatabaseAssumption DEF Operate, DatabaseTypeOK
<1>3. CASE UserStarts
  BY <1>1, <1>2, <1>3, StartUpdateKeeps DEF UserStarts, DatabaseTypeOK
<1>4. ASSUME NEW p \in SUBSET Paths, ChangePaths(p)
      PROVE  DatabaseInv'
  BY <1>2, <1>4, StartUpdateKeeps DEF ChangePaths
<1>5. CASE StopUpdate
  <2>1. /\ operations' \in 0 .. MaxOperations
        /\ UNCHANGED <<paths, store, shown, scanned, faulty, failures>>
    BY <1>2, <1>5 DEF StopUpdate
  <2>2. CASE ~ update.on
    <3>1. UNCHANGED <<update, crawler, progress, stopped>>
      BY <1>5, <2>2 DEF StopUpdate
    <3>2. DatabaseTypeOK'
      BY <1>1, <2>1, <3>1 DEF DatabaseTypeOK, FindFile
    <3>3. Balanced'
      BY <1>1, <3>1, StaysBalanced
    <3>4. Traced'
      BY <1>1, <2>1, <3>1 DEF Traced
    <3> QED
      BY <3>2, <3>3, <3>4 DEF DatabaseInv
  <2>3. CASE update.on
    <3>1. /\ update' = NoUpdate /\ crawler' = [t \in Task |-> NoCrawler]
          /\ progress' = NoProgress /\ stopped' = TRUE
      BY <1>5, <2>3 DEF StopUpdate
    <3>2. /\ NoUpdate \in Update /\ ~ NoUpdate.on
          /\ NoProgress \in [queued : Nat, finished : Nat]
          /\ NoProgress.finished = 0 /\ NoProgress.queued = 0
      BY DEF NoUpdate, Update, NoProgress
    <3>3. crawler' \in [Task -> Crawler] /\ \A t \in Task : crawler'[t].stage = "none"
      BY <3>1, CrawlersMade
    <3>4. DatabaseTypeOK'
      BY <1>1, <2>1, <3>1, <3>2, <3>3 DEF DatabaseTypeOK, FindFile
    <3>5. Balanced'
      <4>1. Reading' = {}
        BY <3>3 DEF Reading
      <4> QED
        BY <3>1, <3>2, <4>1, FS_EmptySet DEF Balanced
    <3>6. Traced'
      BY <1>1, <2>1, <3>1, <3>2 DEF Traced
    <3> QED
      BY <3>4, <3>5, <3>6 DEF DatabaseInv
  <2> QED
    BY <2>2, <2>3
<1> QED
  BY <1>3, <1>4, <1>5 DEF Operation

\* The store has one file of a name.
LEMMA StoresSingle ==
  ASSUME NEW found, NEW s \in Stores(found)
  PROVE  s \subseteq found /\ \A n \in Names : Cardinality(FindFile(s, n)) <= 1
<1>1. s \subseteq found /\ \A f, g \in s : f[2] = g[2] => f = g
  BY DEF Stores
<1>2. ASSUME NEW n \in Names
      PROVE  Cardinality(FindFile(s, n)) <= 1
  <2>1. CASE FindFile(s, n) = {}
    BY <2>1, FS_EmptySet
  <2>2. CASE FindFile(s, n) # {}
    <3>1. PICK f : f \in FindFile(s, n)
      BY <2>2
    <3>2. FindFile(s, n) = {f}
      BY <1>1, <3>1 DEF FindFile
    <3>3. Cardinality({f}) = 1
      BY FS_Singleton
    <3> QED
      BY <3>2, <3>3
  <2> QED
    BY <2>1, <2>2
<1> QED
  BY <1>1, <1>2

LEMMA TellingKeeps ==
  ASSUME DatabaseInv, TellProgress \/ TellStopped \/ TellComplete
  PROVE  DatabaseInv'
<1>1. DatabaseTypeOK /\ Balanced /\ Traced /\ update \in Update
  BY DEF DatabaseInv, DatabaseTypeOK
<1>2. UNCHANGED <<crawler, progress>>
  BY DEF TellProgress, TellStopped, TellComplete
<1>3. Balanced'
  BY <1>1, <1>2, StaysBalanced
<1>4. CASE TellProgress
  <2>1. /\ update' \in Update /\ update'.on = update.on /\ update'.of = update.of
        /\ update'.found = update.found
    BY <1>1, <1>4 DEF TellProgress, Update
  <2>2. /\ shown' \in [full : BOOLEAN, store : SUBSET File]
        /\ UNCHANGED <<paths, crawler, progress, stopped, store, scanned, faulty,
                       operations, failures>>
    <3>1. /\ shown' = [shown EXCEPT !.full = PercentIsFull]
          /\ UNCHANGED <<paths, crawler, progress, stopped, store, scanned, faulty,
                         operations, failures>>
      BY <1>4 DEF TellProgress
    <3>2. PercentIsFull \in BOOLEAN
      BY DEF PercentIsFull
    <3>3. shown \in [full : BOOLEAN, store : SUBSET File]
      BY <1>1 DEF DatabaseTypeOK
    <3> QED
      BY <3>1, <3>2, <3>3
  <2>3. DatabaseTypeOK'
    BY <1>1, <2>1, <2>2 DEF DatabaseTypeOK, FindFile
  <2>4. Traced'
    BY <1>1, <2>1, <2>2 DEF Traced
  <2> QED
    BY <1>3, <2>3, <2>4 DEF DatabaseInv
<1>5. CASE TellStopped
  <2>1. DatabaseTypeOK'
    BY <1>1, <1>5 DEF TellStopped, DatabaseTypeOK, FindFile
  <2>2. Traced'
    BY <1>1, <1>5 DEF TellStopped, Traced
  <2> QED
    BY <1>3, <2>1, <2>2 DEF DatabaseInv
<1>6. CASE TellComplete
  <2>1. /\ update.on /\ store' \in Stores(update.found)
        /\ shown' = [full |-> TRUE, store |-> store']
        /\ scanned' = update.of /\ faulty' = update.faulty /\ update' = NoUpdate
        /\ UNCHANGED <<paths, crawler, progress, stopped, operations, failures>>
    BY <1>6 DEF TellComplete
  <2>2. NoUpdate \in Update /\ ~ NoUpdate.on
    BY DEF NoUpdate, Update
  <2>3. /\ store' \subseteq update.found
        /\ \A n \in Names : Cardinality(FindFile(store', n)) <= 1
    BY <2>1, StoresSingle
  <2>4. update.found \subseteq File /\ update.of \subseteq Paths /\ update.faulty \in BOOLEAN
    BY <1>1 DEF Update
  <2>5. \A n \in Names : Cardinality(FindFile(store, n)') <= 1
    BY <2>3 DEF FindFile
  <2>6. DatabaseTypeOK'
    BY <1>1, <2>1, <2>2, <2>3, <2>4, <2>5 DEF DatabaseTypeOK
  <2>7. Traced'
    BY <1>1, <2>1, <2>2, <2>3 DEF Traced, AllBelow
  <2> QED
    BY <1>3, <2>6, <2>7 DEF DatabaseInv
<1> QED
  BY <1>4, <1>5, <1>6

LEMMA DatabaseInitially == DatabaseInit => DatabaseInv
<1> SUFFICES ASSUME DatabaseInit
             PROVE  DatabaseInv
  OBVIOUS
<1>1. /\ progress = NoProgress /\ stopped = FALSE
      /\ store = {} /\ shown = [full |-> FALSE, store |-> {}]
      /\ scanned = {} /\ faulty = FALSE /\ operations = 0 /\ failures = 0
  BY DEF DatabaseInit
<1>2. /\ paths \in SUBSET Paths /\ update \in Update /\ crawler \in [Task -> Crawler]
      /\ \A t \in Task : crawler[t].stage \in {"none", "spawned"}
      /\ update.on => /\ \A t \in Task : Belongs(crawler[t], t[2], update.of)
                      /\ AllBelow(update.found, update.of)
  <2>1. ASSUME NEW p \in SUBSET Paths, paths = p, update = Started(p).update,
               crawler = Started(p).crawler
        PROVE  /\ paths \in SUBSET Paths /\ update \in Update
               /\ crawler \in [Task -> Crawler]
               /\ \A t \in Task : crawler[t].stage \in {"none", "spawned"}
               /\ update.on => /\ \A t \in Task : Belongs(crawler[t], t[2], update.of)
                               /\ AllBelow(update.found, update.of)
    BY <2>1, StartedRight
  <2>2. CASE paths = {} /\ update = NoUpdate /\ crawler = [t \in Task |-> NoCrawler]
    <3>1. NoUpdate \in Update /\ ~ NoUpdate.on
      BY DEF NoUpdate, Update
    <3> QED
      BY <2>2, <3>1, CrawlersMade
  <2> QED
    BY <2>1, <2>2 DEF DatabaseInit
<1>3. /\ progress \in [queued : Nat, finished : Nat]
      /\ progress.finished = 0 /\ progress.queued = 0
  BY <1>1 DEF NoProgress
<1>4. \A n \in Names : Cardinality(FindFile(store, n)) <= 1
  <2>1. \A n \in Names : FindFile(store, n) = {}
    BY <1>1 DEF FindFile
  <2> QED
    BY <2>1, FS_EmptySet
<1>5. operations \in 0 .. MaxOperations /\ failures \in 0 .. MaxFailures
  BY <1>1, DatabaseAssumption
<1>6. DatabaseTypeOK
  <2>1. progress.finished <= progress.queued
    BY <1>3
  <2>2. shown \in [full : BOOLEAN, store : SUBSET File]
    BY <1>1
  <2>3. /\ store \subseteq File /\ scanned \subseteq Paths
        /\ stopped \in BOOLEAN /\ faulty \in BOOLEAN /\ ~ stopped
    BY <1>1
  <2>4. paths \subseteq Paths
    BY <1>2
  <2> QED
    BY <1>2, <1>3, <1>4, <1>5, <2>1, <2>2, <2>3, <2>4 DEF DatabaseTypeOK
<1>7. Balanced
  BY <1>2, <1>3, NoneReading DEF Balanced
<1>8. Traced
  BY <1>1, <1>2 DEF Traced, AllBelow
<1> QED
  BY <1>6, <1>7, <1>8 DEF DatabaseInv

LEMMA DatabaseInductive == DatabaseInv /\ [DatabaseNext]_dbVars => DatabaseInv'
<1> SUFFICES ASSUME DatabaseInv, [DatabaseNext]_dbVars
             PROVE  DatabaseInv'
  OBVIOUS
<1>1. ASSUME NEW t \in Task, CrawlerStep(t)
      PROVE  DatabaseInv'
  BY <1>1, ReadDirKeeps, FinishSubdirsKeeps, FinishKeeps, HandleEntryKeeps, JoinNextKeeps
  DEF CrawlerStep
<1>2. ASSUME NEW t \in Task, NEW all \in BOOLEAN, EntryFails(t, all)
      PROVE  DatabaseInv'
  BY <1>2, EntryFailsKeeps
<1>3. ASSUME NEW p \in Paths, JoinPath(p)
      PROVE  DatabaseInv'
  BY <1>3, JoinPathKeeps
<1>4. CASE UNCHANGED dbVars
  <2>1. DatabaseTypeOK'
    BY <1>4 DEF DatabaseInv, DatabaseTypeOK, FindFile, dbVars
  <2>2. Balanced'
    BY <1>4, StaysBalanced DEF DatabaseInv, dbVars
  <2>3. Traced'
    BY <1>4 DEF DatabaseInv, Traced, dbVars
  <2> QED
    BY <2>1, <2>2, <2>3 DEF DatabaseInv
<1> QED
  BY <1>1, <1>2, <1>3, <1>4, UserKeeps, TellingKeeps DEF DatabaseNext

-----------------------------------------------------------------------------
(* Database: the theorems.                                                 *)

\* The invariant holds for any finite tree (or other graph) of directories, any
\* paths, and however updates are started, stopped and joined.
THEOREM DatabaseInvariance == DatabaseSpec => []DatabaseInv
<1>1. DatabaseSpec => DatabaseInit /\ [][DatabaseNext]_dbVars
  BY PTL DEF DatabaseSpec
<1> QED
  BY <1>1, DatabaseInitially, DatabaseInductive, PTL

\* The database keeps its types; in particular no more crawlers have finished
\* than were queued (the ratio that is shown is at most 1), and the store has
\* one file of a name at most, which the binary search relies on.
THEOREM DatabaseTypeCorrect == DatabaseSpec => []DatabaseTypeOK
<1>1. DatabaseInv => DatabaseTypeOK
  BY DEF DatabaseInv
<1> QED
  BY <1>1, DatabaseInvariance, PTL

\* Every file of the store is in the directory it is said to be in, and that is
\* one of the paths the store was made from or below one: nothing is left in it
\* of an update that was stopped or of paths that were changed meanwhile.
StoreIsOfItsPaths ==
    \A f \in store :
        /\ f[2] \in Files[f[1]]
        /\ \A ds \in SUBSET Dirs :
             (\A d \in ds : Sub[d] \subseteq ds) /\ scanned \subseteq ds => f[1] \in ds

THEOREM StoreHasNoStranger == DatabaseSpec => []StoreIsOfItsPaths
<1>1. DatabaseInv => StoreIsOfItsPaths
  BY DEF DatabaseInv, Traced, AllBelow, Under, Closed, StoreIsOfItsPaths
<1> QED
  BY <1>1, DatabaseInvariance, PTL
=============================================================================
