----------------------------- MODULE DeskProofs -----------------------------
(***************************************************************************)
(* Interface and core keep each other informed, for any names, playlists,  *)
(* videos, lists, rooms and relays, any capacity of the buffer and any     *)
(* number of acts.  The invariant says where a difference between cells,   *)
(* screen and core is accounted for: in a program one of the threads has   *)
(* not finished, in an event on its way, or in a notification.             *)
(***************************************************************************)
EXTENDS Desk, TLAPS

Threads == {"ui", "core"}

\* What a program consists of.
Op ==
    [op : {"push", "wake"}]
      \cup [op : {"mark", "look", "clear", "load"}, cell : Cells]
      \cup [op : {"send"}, event : Event]
      \cup UNION {[op : {"store"}, cell : {c}, value : CellType(c)] :
                    c \in Cells \ {"messages"}}

\* TypeOK, and what it leaves open.
Typed ==
    /\ TypeOK
    /\ cell = [c \in Cells |-> cell[c]]
    /\ screen = [c \in Cells |-> screen[c]]
    /\ prog \in [Threads -> Seq(Op)]
    /\ events \in Seq(Event)

----------------------------------------------------------------------------
(* The shape of programs. *)

\* A store or a push is followed by its mark, a mark by a wake, a clear by the
\* load.
Ordered(p) ==
    \A i \in 1 .. Len(p) :
        /\ p[i].op = "store" => i < Len(p) /\ p[i + 1] = Mark(p[i].cell)
        /\ p[i].op = "push" => i < Len(p) /\ p[i + 1] = Mark("messages")
        /\ p[i].op = "mark" => i < Len(p) /\ p[i + 1] = Wake
        /\ p[i].op = "clear" => i < Len(p) /\ p[i + 1] = Load(p[i].cell)

\* What an event says of the cell it is about.
EventValue(e) == IF e.type = "UserChange" THEN e.user ELSE e.value

\* The interface stores first and tells the core last, before it draws, and
\* does neither while it looks at cells.
UiShape(p) ==
    /\ Ordered(p)
    /\ \A i \in 1 .. Len(p) :
        /\ p[i].op = "store" =>
             /\ i = 1 /\ 4 <= Len(p) /\ p[4].op = "send"
             /\ EventCell(p[4].event) = p[1].cell
             /\ EventValue(p[4].event) = p[1].value
        /\ p[i].op = "push" => i = 1
        /\ p[i].op = "send" =>
             /\ i <= 4
             /\ i = 4 /\ EventCell(p[i].event) # "none" => p[1].op = "store"
             /\ \A j \in 1 .. Len(p) : p[j].op = "send" => j = i
        /\ p[i].op = "look" =>
             \A j \in 1 .. Len(p) : p[j].op \in {"look", "clear", "load"}

\* The core stores first and says something last.
CoreShape(p) ==
    /\ Ordered(p)
    /\ \A i \in 1 .. Len(p) :
        /\ p[i].op \in {"store", "push", "mark", "wake"}
        /\ p[i].op = "store" => i = 1
        /\ p[i].op = "push" => i + 2 = Len(p)

Shapes == UiShape(prog["ui"]) /\ CoreShape(prog["core"])

\* Only the graphical interface has a queue of its own.
InboxUsed == inbox > 0 => front = "graphical"

----------------------------------------------------------------------------
(* Messages. *)

Has(p, op) == \E i \in 1 .. Len(p) : p[i].op = op

Count(p, op) == IF Has(p, op) THEN 1 ELSE 0

\* Every act says two things at most, one of them in the core's answer.
Budget ==
    said + Count(prog["ui"], "push") + Count(prog["core"], "push")
      + Count(prog["ui"], "send") + Len(events) <= 2 * acts

Kept(n) == IF n < Capacity THEN n ELSE Capacity

\* Slot by slot, where the last messages of n are.
RingKept(r, n) ==
    /\ r.len = Kept(n)
    /\ \A i \in 1 .. r.len :
         r.buffer[(r.head + i - 1) % Capacity] = n - r.len + i

----------------------------------------------------------------------------
(* What the interface still shows wrongly. *)

\* The interface will look at the cells.
Called == permit \/ inbox > 0 \/ \E t \in Threads : Has(prog[t], "wake")

\* Thread t has s to do.
Doing(t, s) == \E i \in 1 .. Len(prog[t]) : prog[t][i] = s

\* Cells the graphical interface reads as it draws, whether marked or not.
Drawn == {"running", "user", "video"}

\* The screen is right about c, or c is about to be marked or read, or it is
\* marked and will be looked at.
Covered(c) ==
    \/ screen[c] = cell[c]
    \/ \E t \in Threads : Doing(t, Mark(c))
    \/ Doing("ui", Load(c))
    \/ c \in changed /\ (Called \/ Doing("ui", Look(c)))
    \/ front = "graphical" /\ c \in Drawn /\ Called

AllCovered == \A c \in Cells : Covered(c)

----------------------------------------------------------------------------
(* What the core does not know, or not want, yet. *)

CoreValue(c) ==
    CASE c = "running" -> core.running
      [] c = "playlist" -> core.playlist
      [] c = "list" -> core.list
      [] c = "video" -> core.video
      [] c = "user" -> [name |-> core.name, ready |-> core.ready]

\* The core is about to store c.
CoreStores(c) ==
    prog["core"] # <<>> /\ prog["core"][1].op = "store"
      /\ prog["core"][1].cell = c

\* The interface is about to tell the core of c, or has.
Sending(c) ==
    \E i \in 1 .. Len(prog["ui"]) :
        prog["ui"][i].op = "send" /\ EventCell(prog["ui"][i].event) = c
Sent(c) == \E i \in 1 .. Len(events) : EventCell(events[i]) = c

\* Of the core's own cells, and of the selection whose handler repeats it.
StoresRight(c) == CoreStores(c) => prog["core"][1].value = CoreValue(c)

ListRight ==
    /\ StoresRight("list") /\ (cell["list"] = CoreValue("list") \/ CoreStores("list"))
    /\ ~ Sent("list") /\ ~ Sending("list")

VideoRight ==
    /\ StoresRight("video")
    /\ \/ cell["video"] = CoreValue("video")
       \/ CoreStores("video") \/ Sending("video") \/ Sent("video")

\* What is about to be sent, with the cell stored already, is what the cell has.
SendsCell(c) ==
    \A i \in 1 .. Len(prog["ui"]) :
        prog["ui"][i].op = "send" /\ EventCell(prog["ui"][i].event) = c /\ i < 4
          => EventValue(prog["ui"][i].event) = cell[c]

\* So is what was sent last.
Last(i, c) ==
    EventCell(events[i]) = c
      /\ \A j \in i + 1 .. Len(events) : EventCell(events[j]) # c

SentCell(c) ==
    \A i \in 1 .. Len(events) : Last(i, c) => EventValue(events[i]) = cell[c]

\* Of a cell that is not repeated, while the two sides do not cross.
UncrossedRight(c) ==
    /\ StoresRight(c)
    /\ ~ (CoreStores(c) /\ (Sending(c) \/ Sent(c)))
    /\ SendsCell(c)
    /\ ~ Sending(c) => SentCell(c)
    /\ ~ Sending(c) /\ ~ Sent(c) /\ ~ CoreStores(c) => cell[c] = CoreValue(c)

Shared == {"playlist", "user"}

Connected ==
    core.endpoint # None => core.endpoint = <<core.relay, core.room>>

Right ==
    /\ ListRight /\ VideoRight /\ Connected
    /\ \A c \in Shared : c \notin crossed => UncrossedRight(c)

\* The inductive invariant.
IInv ==
    /\ Typed /\ Shapes /\ InboxUsed /\ Budget
    /\ RingKept(cell["messages"], said)
    /\ AllCovered /\ Right

----------------------------------------------------------------------------
(* The ring buffer *)

\* A place up to one turn past the end of the buffer.
Turned(x) == IF x < Capacity THEN x ELSE x - Capacity

LEMMA TurnedIsMod ==
    ASSUME NEW x \in 0 .. 2 * Capacity - 1
    PROVE  x % Capacity = Turned(x)
<1> USE DeskAssumption DEF Turned
<1>1. CASE x < Capacity
  BY <1>1, SMT
<1>2. CASE x >= Capacity
  BY <1>2, SMT
<1> QED
  BY <1>1, <1>2

\* RingKept without the division.
RingTurned(r, n) ==
    /\ r.len = Kept(n)
    /\ \A i \in 1 .. r.len : r.buffer[Turned(r.head + i - 1)] = n - r.len + i

LEMMA RingKeptTurned ==
    ASSUME NEW r \in Ring, NEW n
    PROVE  RingKept(r, n) <=> RingTurned(r, n)
<1>1. r.head \in 0 .. Capacity - 1 /\ r.len \in 0 .. Capacity
  BY DEF Ring
<1>2. \A i \in 1 .. r.len : r.head + i - 1 \in 0 .. 2 * Capacity - 1
  BY <1>1, DeskAssumption
<1>3. \A i \in 1 .. r.len : (r.head + i - 1) % Capacity = Turned(r.head + i - 1)
  BY <1>2, TurnedIsMod
<1> QED
  BY <1>3 DEF RingKept, RingTurned

\* A push writes behind the last message; a full buffer loses its first.
LEMMA RingPushTurned ==
    ASSUME NEW r \in Ring, NEW m
    PROVE  /\ RingPush(r, m).buffer = [r.buffer EXCEPT ![Turned(r.head + r.len)] = m]
           /\ RingPush(r, m).head = IF r.len = Capacity THEN Turned(r.head + 1)
                                    ELSE r.head
           /\ RingPush(r, m).len = IF r.len = Capacity THEN r.len ELSE r.len + 1
           /\ RingPush(r, m) = [buffer |-> RingPush(r, m).buffer,
                                head |-> RingPush(r, m).head,
                                len |-> RingPush(r, m).len]
<1>1. r.head \in 0 .. Capacity - 1 /\ r.len \in 0 .. Capacity
  BY DEF Ring
<1>2. /\ r.head + r.len \in 0 .. 2 * Capacity - 1
      /\ r.head + 1 \in 0 .. 2 * Capacity - 1
  BY <1>1, DeskAssumption
<1>3. /\ (r.head + r.len) % Capacity = Turned(r.head + r.len)
      /\ (r.head + 1) % Capacity = Turned(r.head + 1)
  BY <1>2, TurnedIsMod
<1> QED
  BY <1>3 DEF RingPush

\* RingBuffer::push keeps the last messages, and drops the oldest when full.
LEMMA RingPushKept ==
    ASSUME NEW r \in Ring, NEW n \in 0 .. 2 * MaxActs - 1, RingKept(r, n)
    PROVE  RingPush(r, n + 1) \in Ring /\ RingKept(RingPush(r, n + 1), n + 1)
<1> USE DeskAssumption
<1> DEFINE q == RingPush(r, n + 1)
<1>1. /\ r.head \in 0 .. Capacity - 1 /\ r.len \in 0 .. Capacity
      /\ r.buffer \in [0 .. Capacity - 1 -> Message \cup {0}]
      /\ n \in Nat /\ n + 1 \in Message
  BY DEF Ring, Message
<1>2. RingTurned(r, n)
  BY RingKeptTurned
<1>3. q.buffer = [r.buffer EXCEPT ![Turned(r.head + r.len)] = n + 1]
  BY RingPushTurned
<1>4. /\ q.head = IF r.len = Capacity THEN Turned(r.head + 1) ELSE r.head
      /\ q.len = IF r.len = Capacity THEN r.len ELSE r.len + 1
  BY RingPushTurned
<1>5. q = [buffer |-> q.buffer, head |-> q.head, len |-> q.len]
  BY RingPushTurned
<1> HIDE DEF q
<1>6. r.len = Kept(n) /\ q.len = Kept(n + 1)
  BY <1>1, <1>2, <1>4 DEF RingTurned, Kept
<1>7. q.head \in 0 .. Capacity - 1 /\ q.len \in 0 .. Capacity
  BY <1>1, <1>4 DEF Turned
<1>8. Turned(r.head + r.len) \in 0 .. Capacity - 1
  BY <1>1 DEF Turned
<1>9. q \in Ring
  <2>1. q.buffer \in [0 .. Capacity - 1 -> Message \cup {0}]
    BY <1>1, <1>3, <1>8
  <2> QED
    BY <1>7, <1>5, <2>1 DEF Ring
<1>10. ASSUME NEW i \in 1 .. q.len
      PROVE  q.buffer[Turned(q.head + i - 1)] = (n + 1) - q.len + i
  <2>0. /\ i \in Nat \ {0} /\ i <= q.len
        /\ r.head \in Nat /\ r.head < Capacity
        /\ r.len \in Nat /\ r.len <= Capacity /\ Capacity \in Nat \ {0}
        /\ q.head = IF r.len = Capacity
                    THEN IF r.head + 1 < Capacity THEN r.head + 1 ELSE 0
                    ELSE r.head
        /\ q.len = IF r.len = Capacity THEN r.len ELSE r.len + 1
    BY <1>1, <1>4, <1>7 DEF Turned
  <2>1. CASE i = q.len
    <3>1. Turned(q.head + i - 1) = Turned(r.head + r.len)
      BY <2>0, <2>1 DEF Turned
    <3>2. q.buffer[Turned(r.head + r.len)] = n + 1
      BY <1>1, <1>3, <1>8
    <3> QED
      BY <1>1, <1>7, <2>1, <3>1, <3>2
  <2>2. CASE i < q.len
    <3> DEFINE k == IF r.len = Capacity THEN i + 1 ELSE i
    <3>1. k \in 1 .. r.len /\ (n + 1) - q.len + i = n - r.len + k
      BY <1>1, <1>6, <2>0, <2>2 DEF Kept
    <3>2. Turned(q.head + i - 1) = Turned(r.head + k - 1)
      BY <2>0, <2>2 DEF Turned
    <3>3. /\ Turned(r.head + k - 1) # Turned(r.head + r.len)
          /\ Turned(r.head + k - 1) \in 0 .. Capacity - 1
      BY <2>0, <2>2 DEF Turned
    <3>4. q.buffer[Turned(r.head + k - 1)] = r.buffer[Turned(r.head + k - 1)]
      BY <1>1, <1>3, <1>8, <3>3
    <3>5. r.buffer[Turned(r.head + k - 1)] = n - r.len + k
      BY <1>2, <3>1 DEF RingTurned
    <3> QED
      BY <3>1, <3>2, <3>4, <3>5
  <2> QED
    BY <1>7, <2>1, <2>2
<1>11. RingTurned(q, n + 1)
  BY <1>6, <1>10 DEF RingTurned
<1> QED
  BY <1>9, <1>11, RingKeptTurned DEF q

----------------------------------------------------------------------------
(* Programs *)

\* What a program does next and what is left.
LEMMA TailOfProgram ==
    ASSUME NEW p \in Seq(Op), p # <<>>
    PROVE  /\ Len(p) \in Nat \ {0} /\ Head(p) = p[1] /\ p[1] \in Op
           /\ Tail(p) \in Seq(Op) /\ Len(Tail(p)) = Len(p) - 1
           /\ \A i \in 1 .. Len(p) - 1 : Tail(p)[i] = p[i + 1]
  OBVIOUS

LEMMA OrderedTail ==
    ASSUME NEW p \in Seq(Op), p # <<>>, Ordered(p)
    PROVE  Ordered(Tail(p))
  BY TailOfProgram DEF Ordered

LEMMA CoreShapeTail ==
    ASSUME NEW p \in Seq(Op), p # <<>>, CoreShape(p)
    PROVE  CoreShape(Tail(p))
  BY TailOfProgram, OrderedTail DEF CoreShape

LEMMA UiShapeTail ==
    ASSUME NEW p \in Seq(Op), p # <<>>, UiShape(p)
    PROVE  UiShape(Tail(p))
  BY TailOfProgram, OrderedTail DEF UiShape

\* A look that finds the cell marked.
LEMMA LookIntoMarked ==
    ASSUME NEW p \in Seq(Op), p # <<>>, UiShape(p), p[1].op = "look",
           NEW q, q = <<Clear(p[1].cell), Load(p[1].cell)>> \o Tail(p)
    PROVE  /\ q \in Seq(Op) /\ Len(q) = Len(p) + 1
           /\ q[1] = Clear(p[1].cell) /\ q[2] = Load(p[1].cell)
           /\ \A i \in 2 .. Len(p) : q[i + 1] = p[i]
           /\ UiShape(q)
<1>1. p[1].cell \in Cells
  BY TailOfProgram DEF Op
<1>2. Clear(p[1].cell) \in Op /\ Load(p[1].cell) \in Op
  BY <1>1 DEF Clear, Load, Op
<1>3. q \in Seq(Op) /\ Len(q) = Len(p) + 1
  BY <1>2, TailOfProgram
<1>4. q[1] = Clear(p[1].cell) /\ q[2] = Load(p[1].cell)
  BY <1>2, TailOfProgram
<1>5. \A i \in 2 .. Len(p) : q[i + 1] = p[i]
  BY <1>2, TailOfProgram
<1>6. \A i \in 1 .. Len(p) : p[i].op \in {"look", "clear", "load"}
  BY TailOfProgram DEF UiShape
<1>7. \A i \in 1 .. Len(q) : q[i].op \in {"look", "clear", "load"}
  BY <1>3, <1>4, <1>5, <1>6, TailOfProgram DEF Clear, Load
<1>8. Ordered(q)
  <2> SUFFICES ASSUME NEW i \in 1 .. Len(q), q[i].op = "clear"
               PROVE  i < Len(q) /\ q[i + 1] = Load(q[i].cell)
    BY <1>7 DEF Ordered
  <2>1. CASE i = 1
    BY <1>3, <1>4, <2>1, TailOfProgram DEF Clear
  <2>2. CASE i = 2
    BY <1>4, <2>2 DEF Load
  <2>3. CASE i > 2
    <3>1. i - 1 \in 2 .. Len(p) /\ q[i] = p[i - 1]
      BY <1>3, <1>5, <2>3, TailOfProgram
    <3>2. i - 1 < Len(p) /\ p[i] = Load(p[i - 1].cell)
      BY <3>1, TailOfProgram DEF UiShape, Ordered
    <3> QED
      BY <1>3, <1>5, <3>1, <3>2, TailOfProgram
  <2> QED
    BY <1>3, <2>1, <2>2, <2>3, TailOfProgram
<1> QED
  BY <1>3, <1>4, <1>5, <1>7, <1>8 DEF UiShape

----------------------------------------------------------------------------
(* What the user does *)

\* The program of something the user does, of which the core hears with e: a
\* cell is set, or a message put into the chat, or neither.
UserProgram(q, e) ==
    /\ q \in Seq(Op) /\ e \in Event
    /\ \/ /\ EventCell(e) # "none" /\ 4 <= Len(q)
          /\ q[1] = Store(EventCell(e), EventValue(e)) /\ q[2] = Mark(EventCell(e))
          /\ q[3] = Wake /\ q[4] = Send(e)
          /\ \A i \in 5 .. Len(q) : q[i].op = "load"
       \/ /\ EventCell(e) = "none" /\ 4 <= Len(q)
          /\ q[1] = Push /\ q[2] = Mark("messages") /\ q[3] = Wake
          /\ q[4] = Send(e)
          /\ \A i \in 5 .. Len(q) : q[i].op = "load"
       \/ /\ EventCell(e) = "none" /\ 1 <= Len(q) /\ q[1] = Send(e)
          /\ \A i \in 2 .. Len(q) : q[i].op = "load"

\* What all of that has in common.
UserStep(q, e) ==
    /\ prog["ui"] = <<>> /\ UserProgram(q, e)
    /\ prog' = [prog EXCEPT !["ui"] = q]
    /\ acts < MaxActs /\ acts' = acts + 1
    /\ crossed \subseteq crossed' /\ crossed' \subseteq Cells
    /\ EventCell(e) \in Stored(prog["core"]) => EventCell(e) \in crossed'
    /\ UNCHANGED <<cell, changed, permit, inbox, front, screen, events, core,
                   said>>

LEMMA DrawLoads ==
    /\ Draw \in Seq(Op) /\ Len(Draw) \in {0, 2}
    /\ \A i \in 1 .. Len(Draw) : Draw[i].op = "load"
<1>1. Load("user") \in Op /\ Load("video") \in Op
  BY DEF Load, Op, Cells
<1> QED
  BY <1>1 DEF Draw, Load

\* The programs before the interface draws.
LEMMA SetAndSend ==
    ASSUME NEW e \in Event, EventCell(e) # "none",
           NEW p, p = SetCell(EventCell(e), EventValue(e)) \o <<Send(e)>>
    PROVE  UserProgram(p \o Draw, e) /\ EventCell(e) \in Stored(p)
<1> DEFINE c == EventCell(e)
           v == EventValue(e)
<1>1. c \in Cells \ {"messages"} /\ v \in CellType(c)
  BY DEF Event, EventCell, EventValue, CellType, Cells
<1>2. Store(c, v) \in Op /\ Mark(c) \in Op /\ Wake \in Op /\ Send(e) \in Op
  <2>1. Store(c, v) \in [op : {"store"}, cell : {c}, value : CellType(c)]
    BY <1>1 DEF Store
  <2>2. Store(c, v) \in Op
    BY <1>1, <2>1 DEF Op
  <2> QED
    BY <1>1, <2>2 DEF Mark, Wake, Send, Op
<1> HIDE DEF c, v
<1>3. /\ p \in Seq(Op) /\ Len(p) = 4
      /\ p[1] = Store(c, v) /\ p[2] = Mark(c) /\ p[3] = Wake /\ p[4] = Send(e)
  BY <1>2 DEF SetCell, c, v
<1>4. /\ p \o Draw \in Seq(Op) /\ Len(p \o Draw) = 4 + Len(Draw)
      /\ \A i \in 1 .. 4 : (p \o Draw)[i] = p[i]
      /\ \A i \in 5 .. 4 + Len(Draw) : (p \o Draw)[i] = Draw[i - 4]
  BY <1>3, DrawLoads
<1>5. \A i \in 5 .. 4 + Len(Draw) : (p \o Draw)[i].op = "load"
  BY <1>4, DrawLoads
<1>6. c \in Stored(p)
  BY <1>3 DEF Stored, Store
<1> QED
  BY <1>3, <1>4, <1>5, <1>6, DrawLoads DEF UserProgram, c, v

LEMMA SayAndSend ==
    ASSUME NEW e \in Event, EventCell(e) = "none",
           NEW p, p = Say \o <<Send(e)>>
    PROVE  UserProgram(p \o Draw, e)
<1>1. Push \in Op /\ Mark("messages") \in Op /\ Wake \in Op /\ Send(e) \in Op
  BY DEF Push, Mark, Wake, Send, Op, Cells
<1>2. /\ p \in Seq(Op) /\ Len(p) = 4
      /\ p[1] = Push /\ p[2] = Mark("messages") /\ p[3] = Wake /\ p[4] = Send(e)
  BY <1>1 DEF Say
<1>3. /\ p \o Draw \in Seq(Op) /\ Len(p \o Draw) = 4 + Len(Draw)
      /\ \A i \in 1 .. 4 : (p \o Draw)[i] = p[i]
      /\ \A i \in 5 .. 4 + Len(Draw) : (p \o Draw)[i] = Draw[i - 4]
  BY <1>2, DrawLoads
<1>4. \A i \in 5 .. 4 + Len(Draw) : (p \o Draw)[i].op = "load"
  BY <1>3, DrawLoads
<1> QED
  BY <1>2, <1>3, <1>4, DrawLoads DEF UserProgram

LEMMA OnlySend ==
    ASSUME NEW e \in Event, EventCell(e) = "none", NEW p, p = <<Send(e)>>
    PROVE  UserProgram(p \o Draw, e)
<1>1. Send(e) \in Op
  BY DEF Send, Op
<1>2. p \in Seq(Op) /\ Len(p) = 1 /\ p[1] = Send(e)
  BY <1>1
<1>3. /\ p \o Draw \in Seq(Op) /\ Len(p \o Draw) = 1 + Len(Draw)
      /\ (p \o Draw)[1] = p[1]
      /\ \A i \in 2 .. 1 + Len(Draw) : (p \o Draw)[i] = Draw[i - 1]
  BY <1>2, DrawLoads
<1>4. \A i \in 2 .. 1 + Len(Draw) : (p \o Draw)[i].op = "load"
  BY <1>3, DrawLoads
<1> QED
  BY <1>2, <1>3, <1>4, DrawLoads DEF UserProgram

LEMMA UserDoesStep ==
    ASSUME Typed, NEW p, NEW e, UserProgram(p \o Draw, e), UserDoes(p),
           EventCell(e) = "none" \/ EventCell(e) \in Stored(p)
    PROVE  UserStep(p \o Draw, e)
<1>1. Stored(prog["core"]) \subseteq Cells
  BY DEF Typed, Threads, Stored, Op
<1>2. "none" \notin Stored(prog["core"])
  BY <1>1 DEF Cells
<1> QED
  BY <1>1, <1>2 DEF UserDoes, UserStep, UiIdle, Typed, TypeOK

LEMMA ChangeUserStep ==
    ASSUME Typed, NEW u \in Status, ChangeUser(u)
    PROVE  \E q, e : UserStep(q, e)
<1> DEFINE e == [type |-> "UserChange", user |-> u]
           p == SetCell("user", u) \o <<Send(e)>>
<1>1. e \in Event /\ EventCell(e) = "user" /\ EventValue(e) = u
  BY DEF Event, EventCell, EventValue
<1> HIDE DEF e
<1>2. UserProgram(p \o Draw, e) /\ "user" \in Stored(p)
  BY <1>1, SetAndSend
<1>3. UserDoes(p)
  BY DEF ChangeUser, e
<1> QED
  BY <1>1, <1>2, <1>3, UserDoesStep

\* Whatever the user does is one of those steps.
LEMMA UserActs ==
    ASSUME Typed, User
    PROVE  \E q, e : UserStep(q, e)
<1>0. cell["user"] \in Status
  BY DEF Typed, TypeOK, Cells, CellType
<1>1. CASE UserReadyToggle
  <2>1. [cell.user EXCEPT !.ready = ~ @] \in Status
    BY <1>0 DEF Status
  <2> QED
    BY <1>1, <2>1, ChangeUserStep DEF UserReadyToggle
<1>2. ASSUME NEW n \in Names, ChangeUsername(n)
      PROVE  \E q, e : UserStep(q, e)
  <2>1. [cell.user EXCEPT !.name = n] \in Status
    BY <1>0 DEF Status
  <2> QED
    BY <1>2, <2>1, ChangeUserStep DEF ChangeUsername
<1>3. ASSUME NEW v \in Playlists, ChangePlaylist(v)
      PROVE  \E q, e : UserStep(q, e)
  <2> DEFINE e == [type |-> "PlaylistChange", value |-> v]
             p == SetCell("playlist", v) \o <<Send(e)>>
  <2>1. e \in Event /\ EventCell(e) = "playlist" /\ EventValue(e) = v
    BY DEF Event, EventCell, EventValue
  <2>2. UserDoes(p)
    BY <1>3 DEF ChangePlaylist
  <2> HIDE DEF e
  <2>3. UserProgram(p \o Draw, e) /\ "playlist" \in Stored(p)
    BY <2>1, SetAndSend
  <2> QED
    BY <2>1, <2>2, <2>3, UserDoesStep
<1>4. ASSUME NEW v \in Videos, ChangeVideo(v)
      PROVE  \E q, e : UserStep(q, e)
  <2> DEFINE e == [type |-> "VideoChange", value |-> v]
             p == SetCell("video", v) \o <<Send(e)>>
  <2>1. e \in Event /\ EventCell(e) = "video" /\ EventValue(e) = v
    BY DEF Event, EventCell, EventValue
  <2>2. UserDoes(p)
    BY <1>4 DEF ChangeVideo
  <2> HIDE DEF e
  <2>3. UserProgram(p \o Draw, e) /\ "video" \in Stored(p)
    BY <2>1, SetAndSend
  <2> QED
    BY <2>1, <2>2, <2>3, UserDoesStep
<1>5. CASE SendMessage
  <2> DEFINE e == [type |-> "UserMessage"]
             p == Say \o <<Send(e)>>
  <2>1. e \in Event /\ EventCell(e) = "none"
    BY DEF Event, EventCell
  <2>2. UserDoes(p)
    BY <1>5 DEF SendMessage
  <2> HIDE DEF e
  <2>3. UserProgram(p \o Draw, e)
    BY <2>1, SayAndSend
  <2> QED
    BY <2>1, <2>2, <2>3, UserDoesStep
<1>6. ASSUME NEW e \in Event, EventCell(e) = "none", UserDoes(<<Send(e)>>)
      PROVE  \E q, f : UserStep(q, f)
  <2> DEFINE p == <<Send(e)>>
  <2>1. UserProgram(p \o Draw, e)
    BY <1>6, OnlySend
  <2> QED
    BY <1>6, <2>1, UserDoesStep
<1>7. ASSUME NEW r \in Rooms, ChangeRoom(r)
      PROVE  \E q, e : UserStep(q, e)
  <2> DEFINE e == [type |-> "RoomChange", room |-> r]
  <2>1. e \in Event /\ EventCell(e) = "none"
    BY DEF Event, EventCell
  <2>2. UserDoes(<<Send(e)>>)
    BY <1>7 DEF ChangeRoom
  <2> QED
    BY <1>6, <2>1, <2>2
<1>8. ASSUME NEW r \in Relays, ChangeSettings(r)
      PROVE  \E q, e : UserStep(q, e)
  <2> DEFINE e == [type |-> "SettingsChange", relay |-> r]
  <2>1. e \in Event /\ EventCell(e) = "none"
    BY DEF Event, EventCell
  <2>2. UserDoes(<<Send(e)>>)
    BY <1>8 DEF ChangeSettings
  <2> QED
    BY <1>6, <2>1, <2>2
<1>9. CASE Ask
  <2> DEFINE e == [type |-> "Request"]
  <2>1. e \in Event /\ EventCell(e) = "none"
    BY DEF Event, EventCell
  <2>2. UserDoes(<<Send(e)>>)
    BY <1>9 DEF Ask
  <2> QED
    BY <1>6, <2>1, <2>2
<1> QED
  BY <1>1, <1>2, <1>3, <1>4, <1>5, <1>7, <1>8, <1>9 DEF User

----------------------------------------------------------------------------
(* What the core does *)

\* The core begins with program p.
CoreProgram(p) == p \in Seq(Op) /\ CoreShape(p)

\* About cell c it stores what it has now; UserStatusMsg writes back the
\* readiness it finds in the cell.
Agrees(p, c) ==
    IF p # <<>> /\ p[1].op = "store" /\ p[1].cell = c
    THEN \/ p[1].value = CoreValue(c)'
         \/ c = "user" /\ cell["user"].ready # core.ready
    ELSE CoreValue(c)' = CoreValue(c)

CoreStep(p) ==
    /\ prog["core"] = <<>> /\ CoreProgram(p)
    /\ prog' = [prog EXCEPT !["core"] = p]
    /\ core' \in CoreState
    /\ UNCHANGED <<cell, changed, permit, inbox, front, screen, said>>

\* About something from room, player or log.
ReceiveStep(p) ==
    /\ CoreStep(p)
    /\ acts < MaxActs /\ acts' = acts + 1
    /\ UNCHANGED events
    /\ crossed \subseteq crossed' /\ crossed' \subseteq Cells
    /\ \A c \in {"list", "video"} \cup Shared : Agrees(p, c)
    /\ p # <<>> /\ p[1].op = "store" /\ p[1].cell \in UiChanges
         => p[1].cell \in crossed'
    /\ <<core.relay, core.room, core.endpoint>>'
         = <<core.relay, core.room, core.endpoint>>

LEMMA SayProgram == CoreProgram(Say) /\ Stored(Say) = {} /\ Len(Say) = 3
                      /\ Say[1] = Push
<1>1. Push \in Op /\ Mark("messages") \in Op /\ Wake \in Op
  BY DEF Push, Mark, Wake, Op, Cells
<1>2. /\ Say \in Seq(Op) /\ Len(Say) = 3
      /\ Say[1] = Push /\ Say[2] = Mark("messages") /\ Say[3] = Wake
  BY <1>1 DEF Say
<1>3. CoreShape(Say)
  BY <1>2 DEF CoreShape, Ordered, Push, Mark, Wake
<1>4. Stored(Say) = {}
  BY <1>2 DEF Stored, Push, Mark, Wake
<1> QED
  BY <1>2, <1>3, <1>4 DEF CoreProgram

LEMMA SetProgram ==
    ASSUME NEW c \in Cells \ {"messages"}, NEW v \in CellType(c),
           NEW p \in {SetCell(c, v), SetCell(c, v) \o Say}
    PROVE  CoreProgram(p) /\ Stored(p) = {c} /\ Len(p) > 0 /\ p[1] = Store(c, v)
<1>1. /\ Push \in Op /\ Mark("messages") \in Op /\ Wake \in Op
      /\ Mark(c) \in Op /\ Store(c, v) \in Op
  <2>1. Store(c, v) \in [op : {"store"}, cell : {c}, value : CellType(c)]
    BY DEF Store
  <2>2. Store(c, v) \in Op
    BY <2>1 DEF Op
  <2> QED
    BY <2>2 DEF Push, Mark, Wake, Op, Cells
<1>2. CASE p = SetCell(c, v)
  <2>1. /\ p \in Seq(Op) /\ Len(p) = 3
        /\ p[1] = Store(c, v) /\ p[2] = Mark(c) /\ p[3] = Wake
    BY <1>1, <1>2 DEF SetCell
  <2>2. CoreShape(p)
    BY <2>1 DEF CoreShape, Ordered, Store, Mark, Wake
  <2>3. Stored(p) = {c}
    BY <2>1 DEF Stored, Store, Mark, Wake
  <2> QED
    BY <2>1, <2>2, <2>3 DEF CoreProgram
<1>3. CASE p = SetCell(c, v) \o Say
  <2>1. /\ p \in Seq(Op) /\ Len(p) = 6
        /\ p[1] = Store(c, v) /\ p[2] = Mark(c) /\ p[3] = Wake
        /\ p[4] = Push /\ p[5] = Mark("messages") /\ p[6] = Wake
    BY <1>1, <1>3 DEF SetCell, Say
  <2>2. CoreShape(p)
    BY <2>1 DEF CoreShape, Ordered, Store, Push, Mark, Wake
  <2>3. Stored(p) = {c}
    BY <2>1 DEF Stored, Store, Push, Mark, Wake
  <2> QED
    BY <2>1, <2>2, <2>3 DEF CoreProgram
<1> QED
  BY <1>2, <1>3

\* Something is said and nothing stored.
LEMMA CoreSays ==
    ASSUME Typed, NEW c \in CoreState, CoreHandles(c, Say),
           \A x \in {"list", "video"} \cup Shared : CoreValue(x)' = CoreValue(x),
           <<core.relay, core.room, core.endpoint>>'
             = <<core.relay, core.room, core.endpoint>>
    PROVE  ReceiveStep(Say)
<1>1. crossed' = crossed /\ prog["core"] = <<>> /\ core' = c
  BY SayProgram DEF CoreHandles, CoreDoes, CoreIdle
<1>2. CoreStep(Say)
  BY <1>1, SayProgram DEF CoreStep, CoreHandles, CoreDoes
<1>3. Say[1].op # "store"
  BY SayProgram DEF Push
<1> QED
  BY <1>1, <1>2, <1>3
  DEF ReceiveStep, CoreHandles, CoreDoes, Agrees, Typed, TypeOK

\* A cell is stored, and something said or not.
LEMMA CoreSets ==
    ASSUME Typed, NEW c \in CoreState,
           NEW x \in Cells \ {"messages"}, NEW v \in CellType(x),
           NEW p \in {SetCell(x, v), SetCell(x, v) \o Say},
           CoreHandles(c, p),
           \A y \in {"list", "video"} \cup Shared :
             IF y = x THEN \/ v = CoreValue(y)'
                           \/ y = "user" /\ cell["user"].ready # core.ready
             ELSE CoreValue(y)' = CoreValue(y),
           <<core.relay, core.room, core.endpoint>>'
             = <<core.relay, core.room, core.endpoint>>
    PROVE  ReceiveStep(p)
<1>1. CoreProgram(p) /\ Stored(p) = {x} /\ p # <<>> /\ p[1] = Store(x, v)
  <2>1. CoreProgram(p) /\ Stored(p) = {x} /\ Len(p) > 0 /\ p[1] = Store(x, v)
    BY SetProgram, Zenon
  <2> QED
    BY <2>1
<1>2. /\ crossed' = crossed \cup (Stored(p) \cap UiChanges)
      /\ prog["core"] = <<>> /\ core' = c
  BY DEF CoreHandles, CoreDoes, CoreIdle
<1>3. p[1].op = "store" /\ p[1].cell = x /\ p[1].value = v
  BY <1>1 DEF Store
<1>4. CoreStep(p)
  BY <1>1, <1>2 DEF CoreStep, CoreHandles, CoreDoes
<1>5. \A y \in {"list", "video"} \cup Shared : Agrees(p, y)
  BY <1>1, <1>3 DEF Agrees
<1>6. crossed \subseteq crossed' /\ crossed' \subseteq Cells
  BY <1>1, <1>2 DEF Typed, TypeOK
<1>7. acts < MaxActs /\ acts' = acts + 1 /\ UNCHANGED events
  BY DEF CoreHandles
<1>8. p[1].cell \in UiChanges => p[1].cell \in crossed'
  BY <1>1, <1>2, <1>3
<1> QED
  BY <1>4, <1>5, <1>6, <1>7, <1>8 DEF ReceiveStep

\* Whatever the core receives, it takes one of those steps.
LEMMA ReceiveActs ==
    ASSUME Typed, Receive
    PROVE  \E p : ReceiveStep(p)
<1>0. core \in CoreState /\ cell["user"] \in Status
  <2>1. "user" \in Cells /\ CellType("user") = Status
    BY DEF Cells, CellType
  <2> QED
    BY <2>1 DEF Typed, TypeOK
<1> USE DEF CoreValue, Shared
<1>1. CASE MessageOnly
  <2>1. CoreHandles(core, Say) /\ core' = core
    BY <1>1 DEF MessageOnly, CoreHandles, CoreDoes
  <2> QED
    BY <1>0, <2>1, CoreSays
<1>2. CASE PlayerExit
  <2> DEFINE c == [core EXCEPT !.running = FALSE]
             p == SetCell("running", FALSE)
  <2>1. CoreHandles(c, p) /\ core' = c
    BY <1>2 DEF PlayerExit, CoreHandles, CoreDoes
  <2>2. c \in CoreState /\ FALSE \in CellType("running")
    BY <1>0 DEF CoreState, CellType
  <2>3. "running" \in Cells \ {"messages"}
    BY DEF Cells
  <2>4. ReceiveStep(p)
    <3>1. /\ \A y \in {"list", "video"} \cup Shared : CoreValue(y)' = CoreValue(y)
          /\ \A y \in {"list", "video"} \cup Shared : y # "running"
          /\ <<core.relay, core.room, core.endpoint>>'
               = <<core.relay, core.room, core.endpoint>>
      BY <1>0, <2>1 DEF CoreState
    <3> HIDE DEF c, p, CoreValue, Shared
    <3> QED
      BY <2>1, <2>2, <2>3, <3>1, CoreSets DEF p
  <2> QED
    BY <2>4
<1>3. ASSUME NEW v \in Playlists, PlaylistMsg(v)
      PROVE  \E p : ReceiveStep(p)
  <2> DEFINE c == [core EXCEPT !.playlist = v]
             p == SetCell("playlist", v) \o Say
  <2>1. CoreHandles(c, p) /\ core' = c
    BY <1>3 DEF PlaylistMsg, CoreHandles, CoreDoes
  <2>2. c \in CoreState /\ v \in CellType("playlist")
    BY <1>0 DEF CoreState, CellType
  <2>3. "playlist" \in Cells \ {"messages"}
    BY DEF Cells
  <2>4. ReceiveStep(p)
    <3>1. /\ \A y \in {"list", "video"} \cup Shared :
               IF y = "playlist" THEN v = CoreValue(y)'
               ELSE CoreValue(y)' = CoreValue(y)
          /\ <<core.relay, core.room, core.endpoint>>'
               = <<core.relay, core.room, core.endpoint>>
      BY <1>0, <2>1 DEF CoreState
    <3> HIDE DEF c, p, CoreValue, Shared
    <3> QED
      BY <2>1, <2>2, <2>3, <3>1, CoreSets DEF p
  <2> QED
    BY <2>4
<1>4. ASSUME NEW v \in Videos \cup {None}, SelectMsg(v)
      PROVE  \E p : ReceiveStep(p)
  <2> DEFINE c == [core EXCEPT !.video = v]
             p == SetCell("video", v) \o Say
  <2>1. CoreHandles(c, p) /\ core' = c
    BY <1>4 DEF SelectMsg, CoreHandles, CoreDoes
  <2>2. c \in CoreState /\ v \in CellType("video")
    BY <1>0 DEF CoreState, CellType
  <2>3. "video" \in Cells \ {"messages"}
    BY DEF Cells
  <2>4. ReceiveStep(p)
    <3>1. /\ \A y \in {"list", "video"} \cup Shared :
               IF y = "video" THEN v = CoreValue(y)'
               ELSE CoreValue(y)' = CoreValue(y)
          /\ <<core.relay, core.room, core.endpoint>>'
               = <<core.relay, core.room, core.endpoint>>
      BY <1>0, <2>1 DEF CoreState
    <3> HIDE DEF c, p, CoreValue, Shared
    <3> QED
      BY <2>1, <2>2, <2>3, <3>1, CoreSets DEF p
  <2> QED
    BY <2>4
<1>5. ASSUME NEW n \in Names, UserStatusMsg(n)
      PROVE  \E p : ReceiveStep(p)
  <2> DEFINE c == [core EXCEPT !.name = n]
             v == [cell.user EXCEPT !.name = n]
             p == SetCell("user", v) \o Say
  <2>1. CoreHandles(c, p) /\ core' = c
    BY <1>5 DEF UserStatusMsg, CoreHandles, CoreDoes
  <2>2. c \in CoreState /\ v \in CellType("user")
    BY <1>0 DEF CoreState, CellType, Status
  <2>3. "user" \in Cells \ {"messages"}
    BY DEF Cells
  <2>4. ReceiveStep(p)
    <3>1. /\ \A y \in {"list", "video"} \cup Shared :
               IF y = "user" THEN \/ v = CoreValue(y)'
                                  \/ cell["user"].ready # core.ready
               ELSE CoreValue(y)' = CoreValue(y)
          /\ <<core.relay, core.room, core.endpoint>>'
               = <<core.relay, core.room, core.endpoint>>
      BY <1>0, <2>1 DEF CoreState, Status
    <3> HIDE DEF c, p, CoreValue, Shared
    <3> QED
      BY <2>1, <2>2, <2>3, <3>1, CoreSets DEF p
  <2> QED
    BY <2>4
<1>6. ASSUME NEW l \in Lists, UserStatusListMsg(l)
      PROVE  \E p : ReceiveStep(p)
  <2> DEFINE c == [core EXCEPT !.list = l]
             p == SetCell("list", l)
  <2>1. CoreHandles(c, p) /\ core' = c
    BY <1>6 DEF UserStatusListMsg, CoreHandles, CoreDoes
  <2>2. c \in CoreState /\ l \in CellType("list")
    BY <1>0 DEF CoreState, CellType
  <2>3. "list" \in Cells \ {"messages"}
    BY DEF Cells
  <2>4. ReceiveStep(p)
    <3>1. /\ \A y \in {"list", "video"} \cup Shared :
               IF y = "list" THEN l = CoreValue(y)'
               ELSE CoreValue(y)' = CoreValue(y)
          /\ <<core.relay, core.room, core.endpoint>>'
               = <<core.relay, core.room, core.endpoint>>
      BY <1>0, <2>1 DEF CoreState
    <3> HIDE DEF c, p, CoreValue, Shared
    <3> QED
      BY <2>1, <2>2, <2>3, <3>1, CoreSets DEF p
  <2> QED
    BY <2>4
<1>7. ASSUME NEW ready \in BOOLEAN, PlayerReady(ready)
      PROVE  \E p : ReceiveStep(p)
  <2> DEFINE c == [core EXCEPT !.ready = ready]
             v == [name |-> core.name, ready |-> ready]
             p == SetCell("user", v)
  <2>1. CoreHandles(c, p) /\ core' = c
    BY <1>7 DEF PlayerReady, CoreHandles, CoreDoes
  <2>2. c \in CoreState /\ v \in CellType("user")
    BY <1>0 DEF CoreState, CellType, Status
  <2>3. "user" \in Cells \ {"messages"}
    BY DEF Cells
  <2>4. ReceiveStep(p)
    <3>1. /\ \A y \in {"list", "video"} \cup Shared :
               IF y = "user" THEN v = CoreValue(y)'
               ELSE CoreValue(y)' = CoreValue(y)
          /\ <<core.relay, core.room, core.endpoint>>'
               = <<core.relay, core.room, core.endpoint>>
      BY <1>0, <2>1 DEF CoreState
    <3> HIDE DEF c, p, CoreValue, Shared
    <3> QED
      BY <2>1, <2>2, <2>3, <3>1, CoreSets DEF p
  <2> QED
    BY <2>4
<1> QED
  BY <1>1, <1>2, <1>3, <1>4, <1>5, <1>6, <1>7 DEF Receive

\* About event e from the interface.
HandleStep(e, p) ==
    /\ CoreStep(p)
    /\ events # <<>> /\ e = events[1] /\ e \in Event /\ events' = Tail(events)
    /\ UNCHANGED <<crossed, acts>>
    /\ \A c \in {"list", "video"} \cup Shared :
         CoreValue(c)' = IF EventCell(e) = c THEN EventValue(e) ELSE CoreValue(c)
    /\ IF EventCell(e) = "video"
       THEN p # <<>> /\ p[1] = Store("video", EventValue(e))
       ELSE p # <<>> => p[1] = Push
    /\ Connected => Connected'

LEMMA NothingProgram == CoreProgram(<<>>)
  BY DEF CoreProgram, CoreShape, Ordered

\* Every event is handled by one of those steps.
LEMMA HandleActs ==
    ASSUME Typed, HandleUi
    PROVE  \E e, p : HandleStep(e, p)
<1> DEFINE e == events[1]
<1>1. /\ events # <<>> /\ events \in Seq(Event) /\ e \in Event
      /\ Head(events) = e /\ events' = Tail(events)
      /\ UNCHANGED <<crossed, acts>> /\ prog["core"] = <<>>
      /\ core \in CoreState
  BY DEF HandleUi, CoreIdle, Typed, TypeOK
<1> HIDE DEF e
<1>2. ASSUME NEW p, NEW c \in CoreState, CoreDoes(c, p), CoreProgram(p)
      PROVE  CoreStep(p) /\ core' = c
  BY <1>1, <1>2 DEF CoreStep, CoreDoes
<1> USE DEF CoreValue, Shared
<1>3. CASE e.type = "UserChange" /\ UserChange(e)
  <2> DEFINE c == [core EXCEPT !.name = e.user.name, !.ready = e.user.ready]
  <2>1. /\ e.user \in Status /\ EventCell(e) = "user" /\ EventValue(e) = e.user
    BY <1>1, <1>3 DEF Event, EventCell, EventValue
  <2>2. c \in CoreState /\ c.name = e.user.name /\ c.ready = e.user.ready
        /\ c.playlist = core.playlist /\ c.list = core.list /\ c.video = core.video
        /\ c.relay = core.relay /\ c.room = core.room /\ c.endpoint = core.endpoint
    BY <1>1, <2>1 DEF CoreState, Status
  <2>3. CoreStep(<<>>) /\ core' = c
    BY <1>2, <1>3, <2>2, NothingProgram DEF UserChange
  <2> HIDE DEF c
  <2>4. [name |-> c.name, ready |-> c.ready] = e.user
    BY <2>1, <2>2 DEF Status
  <2>5. \A x \in {"list", "video"} \cup Shared :
          CoreValue(x)' = IF EventCell(e) = x THEN EventValue(e) ELSE CoreValue(x)
    BY <2>1, <2>2, <2>3, <2>4
  <2>6. Connected => Connected'
    BY <2>2, <2>3 DEF Connected
  <2> QED
    BY <1>1, <2>1, <2>3, <2>5, <2>6 DEF HandleStep, e
<1>4. CASE e.type = "PlaylistChange" /\ PlaylistChange(e)
  <2> DEFINE c == [core EXCEPT !.playlist = e.value]
  <2>1. /\ e.value \in Playlists /\ EventCell(e) = "playlist"
        /\ EventValue(e) = e.value
    BY <1>1, <1>4 DEF Event, EventCell, EventValue
  <2>2. c \in CoreState /\ c.name = core.name /\ c.ready = core.ready
        /\ c.playlist = e.value /\ c.list = core.list /\ c.video = core.video
        /\ c.relay = core.relay /\ c.room = core.room /\ c.endpoint = core.endpoint
    BY <1>1, <2>1 DEF CoreState
  <2>3. CoreStep(<<>>) /\ core' = c
    BY <1>2, <1>4, <2>2, NothingProgram DEF PlaylistChange
  <2> HIDE DEF c
  <2>5. \A x \in {"list", "video"} \cup Shared :
          CoreValue(x)' = IF EventCell(e) = x THEN EventValue(e) ELSE CoreValue(x)
    BY <2>1, <2>2, <2>3
  <2>6. Connected => Connected'
    BY <2>2, <2>3 DEF Connected
  <2> QED
    BY <1>1, <2>1, <2>3, <2>5, <2>6 DEF HandleStep, e
<1>5. CASE e.type = "VideoChange" /\ VideoChange(e)
  <2> DEFINE c == [core EXCEPT !.video = e.value]
             p == SetCell("video", e.value)
  <2>1. /\ e.value \in CellType("video") /\ EventCell(e) = "video"
        /\ EventValue(e) = e.value /\ e.value \in Videos
    BY <1>1, <1>5 DEF Event, EventCell, EventValue, CellType
  <2>2. c \in CoreState /\ c.name = core.name /\ c.ready = core.ready
        /\ c.playlist = core.playlist /\ c.list = core.list /\ c.video = e.value
        /\ c.relay = core.relay /\ c.room = core.room /\ c.endpoint = core.endpoint
    BY <1>1, <2>1 DEF CoreState
  <2>3. CoreProgram(p) /\ Len(p) > 0 /\ p[1] = Store("video", e.value)
    <3>1. "video" \in Cells \ {"messages"}
      BY DEF Cells
    <3> QED
      BY <2>1, <3>1, SetProgram
  <2>4. CoreStep(p) /\ core' = c
    BY <1>2, <1>5, <2>2, <2>3 DEF VideoChange
  <2> HIDE DEF c, p
  <2>5. \A x \in {"list", "video"} \cup Shared :
          CoreValue(x)' = IF EventCell(e) = x THEN EventValue(e) ELSE CoreValue(x)
    BY <2>1, <2>2, <2>4
  <2>6. Connected => Connected'
    BY <2>2, <2>4 DEF Connected
  <2>7. p # <<>>
    BY <2>3
  <2> QED
    BY <1>1, <2>1, <2>3, <2>4, <2>5, <2>6, <2>7 DEF HandleStep, e
<1>6. ASSUME EventCell(e) = "none", NEW p, CoreProgram(p), p # <<>> => p[1] = Push,
             NEW c \in CoreState, CoreDoes(c, p),
             c.name = core.name, c.ready = core.ready, c.playlist = core.playlist,
             c.list = core.list, c.video = core.video,
             Connected => (c.endpoint # None => c.endpoint = <<c.relay, c.room>>)
      PROVE  \E f, q : HandleStep(f, q)
  <2>1. CoreStep(p) /\ core' = c
    BY <1>2, <1>6
  <2>2. \A x \in {"list", "video"} \cup Shared :
          CoreValue(x)' = IF EventCell(e) = x THEN EventValue(e) ELSE CoreValue(x)
    BY <1>6, <2>1
  <2>3. Connected => Connected'
    BY <1>6, <2>1 DEF Connected
  <2> QED
    BY <1>1, <1>6, <2>1, <2>2, <2>3 DEF HandleStep, e
<1>7. CASE e.type = "RoomChange" /\ RoomChange(e)
  <2> DEFINE c == Connect([core EXCEPT !.room = e.room])
  <2>1. e.room \in Rooms /\ EventCell(e) = "none"
    BY <1>1, <1>7 DEF Event, EventCell
  <2>2. c \in CoreState /\ c.name = core.name /\ c.ready = core.ready
        /\ c.playlist = core.playlist /\ c.list = core.list /\ c.video = core.video
        /\ c.endpoint = <<c.relay, c.room>>
    BY <1>1, <2>1 DEF CoreState, Connect, Endpoint
  <2>3. CoreDoes(c, <<>>)
    BY <1>7 DEF RoomChange
  <2> HIDE DEF c
  <2> QED
    BY <1>6, <2>1, <2>2, <2>3, NothingProgram
<1>8. CASE e.type = "SettingsChange" /\ SettingsChange(e)
  <2> DEFINE d == [core EXCEPT !.relay = e.relay]
             c == IF e.relay # core.relay /\ core.endpoint # None
                  THEN Connect(d) ELSE d
  <2>1. e.relay \in Relays /\ EventCell(e) = "none"
    BY <1>1, <1>8 DEF Event, EventCell
  <2>2. d \in CoreState /\ d.name = core.name /\ d.ready = core.ready
        /\ d.playlist = core.playlist /\ d.list = core.list /\ d.video = core.video
        /\ d.endpoint = core.endpoint /\ d.relay = e.relay /\ d.room = core.room
    BY <1>1, <2>1 DEF CoreState
  <2>3. CoreDoes(c, <<>>)
    BY <1>8 DEF SettingsChange
  <2> HIDE DEF d
  <2>4. /\ c \in CoreState /\ c.name = core.name /\ c.ready = core.ready
        /\ c.playlist = core.playlist /\ c.list = core.list /\ c.video = core.video
        /\ Connected => (c.endpoint # None => c.endpoint = <<c.relay, c.room>>)
    <3>1. CASE e.relay # core.relay /\ core.endpoint # None
      <4>1. c = [d EXCEPT !.endpoint = <<d.relay, d.room>>]
        BY <3>1 DEF Connect
      <4> QED
        BY <2>2, <4>1 DEF CoreState, Endpoint
    <3>2. CASE ~ (e.relay # core.relay /\ core.endpoint # None)
      BY <2>2, <3>2 DEF Connected
    <3> QED
      BY <3>1, <3>2
  <2> HIDE DEF c
  <2> QED
    BY <1>6, <2>1, <2>3, <2>4, NothingProgram
<1>9. CASE e.type \in {"UserMessage", "Request"} /\ \E p \in {<<>>, Say} : CoreDoes(core, p)
  <2>1. EventCell(e) = "none"
    <3>1. CASE e.type = "UserMessage"
      BY <3>1 DEF EventCell
    <3>2. CASE e.type = "Request"
      BY <3>2 DEF EventCell
    <3> QED
      BY <1>9, <3>1, <3>2
  <2>2. PICK p \in {<<>>, Say} : CoreDoes(core, p)
    BY <1>9
  <2>3. CoreProgram(p) /\ (p # <<>> => p[1] = Push)
    BY NothingProgram, SayProgram
  <2> QED
    BY <1>1, <1>6, <2>1, <2>2, <2>3 DEF Connected
<1> QED
  BY <1>1, <1>3, <1>4, <1>5, <1>7, <1>8, <1>9 DEF HandleUi

----------------------------------------------------------------------------
(* A round of the interface *)

LEMMA RoundProgram ==
    ASSUME front \in {"terminal", "graphical"}
    PROVE  /\ Round \in Seq(Op)
           /\ \A i \in 1 .. Len(Round) : Round[i].op \in {"look", "load"}
           /\ \A c \in Cells :
                \/ \E i \in 1 .. Len(Round) : Round[i] = Load(c)
                \/ /\ \E i \in 1 .. Len(Round) : Round[i] = Look(c)
                   /\ ~ (front = "graphical" /\ c \in Drawn)
<1>0. \A c \in Cells : Look(c) \in Op /\ Load(c) \in Op
  BY DEF Look, Load, Op
<1>1. CASE front = "terminal"
  <2>1. Round = <<Look("running"), Look("playlist"), Look("messages"), Look("list"),
                  Look("user"), Look("video")>>
    BY <1>1 DEF Round
  <2>2. /\ Round \in Seq(Op) /\ Len(Round) = 6
        /\ Round[1] = Look("running") /\ Round[2] = Look("playlist")
        /\ Round[3] = Look("messages") /\ Round[4] = Look("list")
        /\ Round[5] = Look("user") /\ Round[6] = Look("video")
    BY <1>0, <2>1 DEF Cells
  <2>3. \A i \in 1 .. Len(Round) : Round[i].op = "look"
    BY <2>2 DEF Look
  <2>4. \A c \in Cells : \E i \in 1 .. Len(Round) : Round[i] = Look(c)
    BY <2>2 DEF Cells
  <2> QED
    BY <1>1, <2>2, <2>3, <2>4
<1>2. CASE front = "graphical"
  <2>1. Round = <<Look("list"), Look("playlist"), Look("messages"), Load("running")>>
                   \o <<Load("user"), Load("video")>>
    BY <1>2 DEF Round, Draw
  <2>2. /\ Round \in Seq(Op) /\ Len(Round) = 6
        /\ Round[1] = Look("list") /\ Round[2] = Look("playlist")
        /\ Round[3] = Look("messages") /\ Round[4] = Load("running")
        /\ Round[5] = Load("user") /\ Round[6] = Load("video")
    BY <1>0, <2>1 DEF Cells
  <2>3. \A i \in 1 .. Len(Round) : Round[i].op \in {"look", "load"}
    BY <2>2 DEF Look, Load
  <2>4. \A c \in Drawn : \E i \in 1 .. Len(Round) : Round[i] = Load(c)
    BY <2>2 DEF Drawn
  <2>5. \A c \in Cells \ Drawn : \E i \in 1 .. Len(Round) : Round[i] = Look(c)
    BY <2>2 DEF Cells, Drawn
  <2> QED
    BY <2>2, <2>3, <2>4, <2>5
<1> QED
  BY <1>1, <1>2

LEMMA RoundShape ==
    ASSUME front \in {"terminal", "graphical"}
    PROVE  UiShape(Round)
  BY RoundProgram DEF UiShape, Ordered

\* What Notified and ModelChanged have in common when they start a round.
RoundStep ==
    /\ prog["ui"] = <<>> /\ prog' = [prog EXCEPT !["ui"] = Round]
    /\ UNCHANGED <<cell, changed, front, screen, events, core, said, crossed,
                   acts>>

----------------------------------------------------------------------------
(* One step of a thread *)

\* Step, with the program's first operation for its head.
Executes(t, s) ==
    /\ prog[t] \in Seq(Op) /\ prog[t] # <<>> /\ s = prog[t][1] /\ s \in Op
    /\ prog' = [prog EXCEPT ![t] =
                  IF s.op = "look" /\ s.cell \in changed
                  THEN <<Clear(s.cell), Load(s.cell)>> \o Tail(prog[t])
                  ELSE Tail(prog[t])]
    /\ s.op = "store" => cell' = [cell EXCEPT ![s.cell] = s.value]
    /\ s.op = "push" => cell' = [cell EXCEPT !["messages"] =
                                   RingPush(cell["messages"], said + 1)]
    /\ s.op \notin {"store", "push"} => cell' = cell
    /\ said' = IF s.op = "push" THEN said + 1 ELSE said
    /\ s.op = "mark" => changed' = changed \cup {s.cell}
    /\ s.op = "clear" => changed' = changed \ {s.cell}
    /\ s.op \notin {"mark", "clear"} => changed' = changed
    /\ permit' = (permit \/ s.op = "wake")
    /\ events' = IF s.op = "send" THEN Append(events, s.event) ELSE events
    /\ screen' = IF s.op = "load" THEN [screen EXCEPT ![s.cell] = cell[s.cell]]
                 ELSE screen
    /\ UNCHANGED <<inbox, front, core, crossed, acts>>

LEMMA StepExecutes ==
    ASSUME Typed, NEW t \in Threads, Step(t)
    PROVE  Executes(t, prog[t][1])
<1>1. prog[t] \in Seq(Op) /\ prog[t] # <<>>
  BY DEF Typed, Step
<1>2. Head(prog[t]) = prog[t][1] /\ prog[t][1] \in Op
  BY <1>1, TailOfProgram
<1> QED
  BY <1>1, <1>2 DEF Step, Executes

\* What the program is then.
LEMMA ProgramLeft ==
    ASSUME Typed, NEW t \in Threads, NEW s, Executes(t, s)
    PROVE  /\ \A u \in Threads \ {t} : prog'[u] = prog[u]
           /\ ~ (s.op = "look" /\ s.cell \in changed) =>
                /\ prog'[t] = Tail(prog[t]) /\ Len(prog'[t]) = Len(prog[t]) - 1
                /\ \A i \in 1 .. Len(prog[t]) - 1 : prog'[t][i] = prog[t][i + 1]
           /\ s.op = "look" /\ s.cell \in changed =>
                prog'[t] = <<Clear(s.cell), Load(s.cell)>> \o Tail(prog[t])
           /\ Len(prog[t]) \in Nat \ {0}
<1>1. prog[t] \in Seq(Op) /\ prog[t] # <<>> /\ prog \in [Threads -> Seq(Op)]
  BY DEF Executes, Typed
<1>2. /\ Len(Tail(prog[t])) = Len(prog[t]) - 1 /\ Len(prog[t]) \in Nat \ {0}
      /\ \A i \in 1 .. Len(prog[t]) - 1 : Tail(prog[t])[i] = prog[t][i + 1]
  BY <1>1, TailOfProgram
<1>3. prog'[t] = IF s.op = "look" /\ s.cell \in changed
                 THEN <<Clear(s.cell), Load(s.cell)>> \o Tail(prog[t])
                 ELSE Tail(prog[t])
  BY <1>1 DEF Executes
<1>4. \A u \in Threads \ {t} : prog'[u] = prog[u]
  BY <1>1 DEF Executes
<1> QED
  BY <1>2, <1>3, <1>4

LEMMA OpFields ==
    ASSUME NEW s \in Op
    PROVE  /\ s.op \in {"push", "wake", "mark", "look", "clear", "load", "send",
                        "store"}
           /\ s.op \in {"mark", "look", "clear", "load"} => s.cell \in Cells
           /\ s.op = "send" => s.event \in Event
           /\ s.op = "store" => s.cell \in Cells \ {"messages"}
                                  /\ s.value \in CellType(s.cell)
  BY DEF Op

----------------------------------------------------------------------------
(* Types and shapes *)

\* What TypeOK says of all but what a step changes.
LEMMA TypedUser ==
    ASSUME Typed, NEW q, NEW e, UserStep(q, e)
    PROVE  Typed'
<1>1. prog' \in [Threads -> Seq(Op)]
  BY DEF Typed, UserStep, UserProgram, Threads
<1>2. acts' \in 0 .. MaxActs
  BY DeskAssumption DEF Typed, TypeOK, UserStep
<1> QED
  BY <1>1, <1>2 DEF Typed, TypeOK, UserStep, CellType, Ring

LEMMA TypedReceive ==
    ASSUME Typed, NEW p, ReceiveStep(p)
    PROVE  Typed'
<1>1. prog' \in [Threads -> Seq(Op)]
  BY DEF Typed, ReceiveStep, CoreStep, CoreProgram, Threads
<1>2. acts' \in 0 .. MaxActs
  BY DeskAssumption DEF Typed, TypeOK, ReceiveStep
<1> QED
  BY <1>1, <1>2 DEF Typed, TypeOK, ReceiveStep, CoreStep, CellType, Ring

LEMMA TypedHandle ==
    ASSUME Typed, NEW e, NEW p, HandleStep(e, p)
    PROVE  Typed'
<1>1. prog' \in [Threads -> Seq(Op)]
  BY DEF Typed, HandleStep, CoreStep, CoreProgram, Threads
<1>2. /\ events' \in Seq(Event)
      /\ \A i \in DOMAIN events' : events'[i] \in Event
  BY DEF Typed, HandleStep
<1> QED
  BY <1>1, <1>2 DEF Typed, TypeOK, HandleStep, CoreStep, CellType, Ring

LEMMA TypedRound ==
    ASSUME Typed, RoundStep, permit' \in BOOLEAN, inbox' \in Nat
    PROVE  Typed'
<1>1. prog' \in [Threads -> Seq(Op)]
  BY RoundProgram DEF Typed, TypeOK, RoundStep, Threads
<1> QED
  BY <1>1 DEF Typed, TypeOK, RoundStep, CellType, Ring

LEMMA BudgetLeft ==
    ASSUME Typed, Budget, Has(prog["ui"], "push") \/ Has(prog["core"], "push")
    PROVE  said \in 0 .. 2 * MaxActs - 1
<1>1. /\ said \in Nat /\ acts \in 0 .. MaxActs /\ Len(events) \in Nat
      /\ MaxActs \in Nat
  BY DeskAssumption DEF Typed, TypeOK
<1>2. said + 1 <= 2 * acts
  BY <1>1 DEF Budget, Count
<1> QED
  BY <1>1, <1>2

LEMMA TypedStep ==
    ASSUME Typed, Shapes, Budget, RingKept(cell["messages"], said),
           NEW t \in Threads, NEW s, Executes(t, s)
    PROVE  Typed' /\ RingKept(cell["messages"], said)'
<1>1. /\ s.op \in {"push", "wake", "mark", "look", "clear", "load", "send", "store"}
      /\ s.op \in {"mark", "look", "clear", "load"} => s.cell \in Cells
      /\ s.op = "send" => s.event \in Event
      /\ s.op = "store" => s.cell \in Cells \ {"messages"}
                             /\ s.value \in CellType(s.cell)
  BY OpFields DEF Executes
<1>2. prog' \in [Threads -> Seq(Op)]
  <2>1. prog[t] \in Seq(Op) /\ prog[t] # <<>> /\ Tail(prog[t]) \in Seq(Op)
    BY TailOfProgram DEF Executes
  <2>2. s.op = "look" => Clear(s.cell) \in Op /\ Load(s.cell) \in Op
    BY <1>1 DEF Clear, Load, Op
  <2>3. s.op = "look" => <<Clear(s.cell), Load(s.cell)>> \o Tail(prog[t]) \in Seq(Op)
    BY <2>1, <2>2
  <2> QED
    BY <2>1, <2>3 DEF Executes, Typed
<1>3. /\ events' \in Seq(Event)
      /\ \A i \in DOMAIN events' : events'[i] \in Event
  <2>1. CASE s.op = "send"
    BY <1>1, <2>1 DEF Executes, Typed
  <2>2. CASE s.op # "send"
    BY <2>2 DEF Executes, Typed
  <2> QED
    BY <2>1, <2>2
<1>4. /\ DOMAIN screen' = Cells /\ screen' = [c \in Cells |-> screen'[c]]
      /\ \A c \in Cells : screen'[c] \in CellType(c)
  <2>1. CASE s.op = "load"
    BY <1>1, <2>1 DEF Executes, Typed, TypeOK
  <2>2. CASE s.op # "load"
    BY <2>2 DEF Executes, Typed, TypeOK
  <2> QED
    BY <2>1, <2>2
<1>5. /\ DOMAIN cell' = Cells /\ cell' = [c \in Cells |-> cell'[c]]
      /\ \A c \in Cells : cell'[c] \in CellType(c)
      /\ said' \in 0 .. 2 * MaxActs
      /\ RingKept(cell["messages"], said)'
  <2>0. cell["messages"] \in Ring /\ "messages" \in Cells
        /\ CellType("messages") = Ring
    <3>1. "messages" \in Cells /\ CellType("messages") = Ring
      BY DEF Cells, CellType
    <3> QED
      BY <3>1 DEF Typed, TypeOK
  <2>1. CASE s.op = "store"
    BY <1>1, <2>0, <2>1 DEF Executes, Typed, TypeOK
  <2>2. CASE s.op = "push"
    <3>1. Has(prog[t], "push")
      BY <2>2 DEF Executes, Has
    <3>2. said \in 0 .. 2 * MaxActs - 1
      BY <3>1, BudgetLeft DEF Threads
    <3> DEFINE r == RingPush(cell["messages"], said + 1)
    <3>3. r \in Ring /\ RingKept(r, said + 1)
      BY <2>0, <3>2, RingPushKept
    <3> HIDE DEF r
    <3>4. cell' = [cell EXCEPT !["messages"] = r] /\ said' = said + 1
      BY <2>2 DEF Executes, r
    <3>5. cell'["messages"] = r
      BY <2>0, <3>4 DEF Typed
    <3>6. RingKept(cell["messages"], said)'
      BY <3>3, <3>4, <3>5 DEF RingKept
    <3>7. said' \in 0 .. 2 * MaxActs
      BY <3>2, <3>4, DeskAssumption
    <3>8. DOMAIN cell' = Cells /\ cell' = [c \in Cells |-> cell'[c]]
      BY <3>4 DEF Typed
    <3>9. \A c \in Cells : cell'[c] \in CellType(c)
      BY <2>0, <3>3, <3>4, <3>5 DEF Typed, TypeOK
    <3> QED
      BY <3>6, <3>7, <3>8, <3>9
  <2>3. CASE s.op \notin {"store", "push"}
    <3>1. cell' = cell /\ said' = said
      BY <2>3 DEF Executes
    <3> QED
      BY <3>1 DEF Typed, TypeOK, RingKept
  <2> QED
    BY <2>1, <2>2, <2>3
<1>6. changed' \subseteq Cells /\ permit' \in BOOLEAN
  <2>1. changed \subseteq Cells /\ permit \in BOOLEAN
    BY DEF Typed, TypeOK
  <2>2. permit' \in BOOLEAN
    BY <2>1 DEF Executes
  <2>3. changed' \subseteq Cells
    BY <1>1, <2>1 DEF Executes
  <2> QED
    BY <2>2, <2>3
<1>7. UNCHANGED <<inbox, front, core, crossed, acts>>
  BY DEF Executes
<1>8. \A c \in Cells : cell'[c] \in CellType(c)' /\ screen'[c] \in CellType(c)'
  BY <1>4, <1>5 DEF CellType
<1>9. TypeOK'
  BY <1>3, <1>4, <1>5, <1>6, <1>7, <1>8 DEF Typed, TypeOK
<1> QED
  BY <1>2, <1>3, <1>4, <1>5, <1>9 DEF Typed

\* How many messages a step still has to say, and events to send.
LEMMA CountTail ==
    ASSUME NEW p \in Seq(Op), p # <<>>, NEW op
    PROVE  /\ Count(Tail(p), op) <= Count(p, op)
           /\ Count(p, op) \in {0, 1} /\ Count(Tail(p), op) \in {0, 1}
           /\ p[1].op = op => Count(p, op) = 1
<1>1. Has(Tail(p), op) => Has(p, op)
  BY TailOfProgram DEF Has
<1>2. p[1].op = op => Has(p, op)
  BY TailOfProgram DEF Has
<1> QED
  BY <1>1, <1>2 DEF Count

LEMMA SaidOnce ==
    ASSUME NEW p \in Seq(Op), p # <<>>, UiShape(p) \/ CoreShape(p),
           p[1].op = "push"
    PROVE  Count(Tail(p), "push") = 0
<1>1. \A i \in 1 .. Len(p) : p[i].op = "push" => i = 1
  BY TailOfProgram DEF UiShape, CoreShape
<1>2. ~ Has(Tail(p), "push")
  BY <1>1, TailOfProgram DEF Has
<1> QED
  BY <1>2 DEF Count

LEMMA SentOnce ==
    ASSUME NEW p \in Seq(Op), p # <<>>, UiShape(p), p[1].op = "send"
    PROVE  Count(Tail(p), "send") = 0
<1>1. \A i \in 1 .. Len(p) : p[i].op = "send" => i = 1
  BY TailOfProgram DEF UiShape
<1>2. ~ Has(Tail(p), "send")
  BY <1>1, TailOfProgram DEF Has
<1> QED
  BY <1>2 DEF Count

LEMMA UserProgramShape ==
    ASSUME NEW q, NEW e, UserProgram(q, e)
    PROVE  UiShape(q)
<1>1. q \in Seq(Op) /\ Len(q) \in Nat
  BY DEF UserProgram
<1>2. CASE /\ EventCell(e) # "none" /\ 4 <= Len(q)
           /\ q[1] = Store(EventCell(e), EventValue(e)) /\ q[2] = Mark(EventCell(e))
           /\ q[3] = Wake /\ q[4] = Send(e)
           /\ \A i \in 5 .. Len(q) : q[i].op = "load"
  <2>1. /\ q[1].op = "store" /\ q[1].cell = EventCell(e) /\ q[1].value = EventValue(e)
        /\ q[2].op = "mark" /\ q[3].op = "wake" /\ q[4].op = "send" /\ q[4].event = e
    BY <1>2 DEF Store, Mark, Wake, Send
  <2>2. \A i \in 1 .. Len(q) : i = 1 \/ i = 2 \/ i = 3 \/ i = 4 \/ q[i].op = "load"
    BY <1>1, <1>2
  <2>3. Ordered(q)
    BY <1>1, <1>2, <2>1, <2>2 DEF Ordered
  <2> QED
    BY <1>1, <1>2, <2>1, <2>2, <2>3 DEF UiShape
<1>3. CASE /\ EventCell(e) = "none" /\ 4 <= Len(q)
           /\ q[1] = Push /\ q[2] = Mark("messages") /\ q[3] = Wake
           /\ q[4] = Send(e)
           /\ \A i \in 5 .. Len(q) : q[i].op = "load"
  <2>1. /\ q[1].op = "push" /\ q[2].op = "mark" /\ q[3].op = "wake"
        /\ q[4].op = "send" /\ q[4].event = e
    BY <1>3 DEF Push, Mark, Wake, Send
  <2>2. \A i \in 1 .. Len(q) : i = 1 \/ i = 2 \/ i = 3 \/ i = 4 \/ q[i].op = "load"
    BY <1>1, <1>3
  <2>3. Ordered(q)
    BY <1>1, <1>3, <2>1, <2>2 DEF Ordered
  <2> QED
    BY <1>1, <1>3, <2>1, <2>2, <2>3 DEF UiShape
<1>4. CASE /\ EventCell(e) = "none" /\ 1 <= Len(q) /\ q[1] = Send(e)
           /\ \A i \in 2 .. Len(q) : q[i].op = "load"
  <2>1. q[1].op = "send" /\ q[1].event = e
    BY <1>4 DEF Send
  <2>2. \A i \in 1 .. Len(q) : i = 1 \/ q[i].op = "load"
    BY <1>1, <1>4
  <2>3. Ordered(q)
    BY <1>1, <2>1, <2>2 DEF Ordered
  <2> QED
    BY <1>1, <1>4, <2>1, <2>2, <2>3 DEF UiShape
<1> QED
  BY <1>2, <1>3, <1>4 DEF UserProgram

\* Nothing to say and nothing to send in a program that is through.
LEMMA CountEmpty == \A op : Count(<<>>, op) = 0
  BY DEF Count, Has

LEMMA ShapesUser ==
    ASSUME Typed, Shapes, InboxUsed, Budget, NEW q, NEW e, UserStep(q, e)
    PROVE  Shapes' /\ InboxUsed' /\ Budget'
<1>1. prog'["ui"] = q /\ prog'["core"] = prog["core"]
  BY DEF Typed, UserStep, Threads
<1>2. Shapes'
  BY <1>1, UserProgramShape DEF UserStep, Shapes
<1>3. /\ Count(prog["ui"], "push") = 0 /\ Count(prog["ui"], "send") = 0
      /\ Count(q, "push") \in {0, 1} /\ Count(q, "send") \in {0, 1}
      /\ Count(prog["core"], "push") \in {0, 1}
  BY CountEmpty DEF UserStep, Count
<1>4. said \in Nat /\ acts \in Nat /\ Len(events) \in Nat
  BY DeskAssumption DEF Typed, TypeOK
<1>5. Budget'
  BY <1>1, <1>3, <1>4 DEF UserStep, Budget
<1> QED
  BY <1>2, <1>5 DEF InboxUsed, UserStep

LEMMA ShapesReceive ==
    ASSUME Typed, Shapes, InboxUsed, Budget, NEW p, ReceiveStep(p)
    PROVE  Shapes' /\ InboxUsed' /\ Budget'
<1>1. prog'["core"] = p /\ prog'["ui"] = prog["ui"]
  BY DEF Typed, ReceiveStep, CoreStep, Threads
<1>2. Shapes'
  BY <1>1 DEF ReceiveStep, CoreStep, CoreProgram, Shapes
<1>3. /\ Count(prog["ui"], "push") \in {0, 1} /\ Count(prog["ui"], "send") \in {0, 1}
      /\ Count(p, "push") \in {0, 1} /\ Count(prog["core"], "push") = 0
  BY CountEmpty DEF ReceiveStep, CoreStep, Count
<1>4. said \in Nat /\ acts \in Nat /\ Len(events) \in Nat
  BY DeskAssumption DEF Typed, TypeOK
<1>5. Budget'
  BY <1>1, <1>3, <1>4 DEF ReceiveStep, CoreStep, Budget
<1> QED
  BY <1>2, <1>5 DEF InboxUsed, ReceiveStep, CoreStep

LEMMA ShapesHandle ==
    ASSUME Typed, Shapes, InboxUsed, Budget, NEW e, NEW p, HandleStep(e, p)
    PROVE  Shapes' /\ InboxUsed' /\ Budget'
<1>1. prog'["core"] = p /\ prog'["ui"] = prog["ui"]
  BY DEF Typed, HandleStep, CoreStep, Threads
<1>2. Shapes'
  BY <1>1 DEF HandleStep, CoreStep, CoreProgram, Shapes
<1>3. /\ Count(prog["ui"], "push") \in {0, 1} /\ Count(prog["ui"], "send") \in {0, 1}
      /\ Count(p, "push") \in {0, 1} /\ Count(prog["core"], "push") = 0
  BY CountEmpty DEF HandleStep, CoreStep, Count
<1>4. said \in Nat /\ acts \in Nat /\ Len(events) \in Nat
  BY DeskAssumption DEF Typed, TypeOK
<1>5. Len(events') = Len(events) - 1
  BY DEF HandleStep, Typed
<1>6. Budget'
  BY <1>1, <1>3, <1>4, <1>5 DEF HandleStep, CoreStep, Budget
<1> QED
  BY <1>2, <1>6 DEF InboxUsed, HandleStep, CoreStep

LEMMA ShapesRound ==
    ASSUME Typed, Shapes, Budget, RoundStep
    PROVE  Shapes' /\ Budget'
<1>1. prog'["ui"] = Round /\ prog'["core"] = prog["core"]
  BY DEF Typed, RoundStep, Threads
<1>2. UiShape(Round)
  BY RoundShape DEF Typed, TypeOK
<1>3. Shapes'
  BY <1>1, <1>2 DEF RoundStep, Shapes
<1>4. ~ Has(Round, "push") /\ ~ Has(Round, "send")
  BY RoundProgram DEF Has, Typed, TypeOK
<1>5. /\ Count(prog["ui"], "push") = 0 /\ Count(prog["ui"], "send") = 0
      /\ Count(Round, "push") = 0 /\ Count(Round, "send") = 0
  BY <1>4, CountEmpty DEF RoundStep, Count
<1>6. Budget'
  BY <1>1, <1>5 DEF RoundStep, Budget
<1> QED
  BY <1>3, <1>6

LEMMA ShapesStep ==
    ASSUME Typed, Shapes, InboxUsed, Budget, NEW t \in Threads, NEW s,
           Executes(t, s)
    PROVE  Shapes' /\ InboxUsed' /\ Budget'
<1>0. /\ prog[t] \in Seq(Op) /\ prog[t] # <<>> /\ s = prog[t][1]
      /\ t = "ui" => UiShape(prog[t])
      /\ t = "core" => CoreShape(prog[t])
      /\ t = "ui" \/ t = "core"
  BY DEF Executes, Shapes, Threads
<1>1. InboxUsed'
  BY DEF InboxUsed, Executes
<1>2. said \in Nat /\ acts \in Nat /\ Len(events) \in Nat
  BY DeskAssumption DEF Typed, TypeOK
<1>3. /\ Count(prog["ui"], "push") \in {0, 1} /\ Count(prog["ui"], "send") \in {0, 1}
      /\ Count(prog["core"], "push") \in {0, 1}
  BY DEF Count
<1>4. CASE s.op = "look" /\ s.cell \in changed
  <2>1. t = "ui"
    <3>1. t = "core" => s.op # "look"
      BY <1>0, TailOfProgram DEF CoreShape
    <3> QED
      BY <1>0, <1>4, <3>1
  <2> DEFINE q == <<Clear(s.cell), Load(s.cell)>> \o Tail(prog["ui"])
  <2>2. prog'["ui"] = q /\ prog'["core"] = prog["core"]
    BY <1>4, <2>1, ProgramLeft DEF Threads
  <2>3. /\ UiShape(q) /\ Len(q) = Len(prog["ui"]) + 1
        /\ q[1] = Clear(s.cell) /\ q[2] = Load(s.cell)
        /\ \A i \in 2 .. Len(prog["ui"]) : q[i + 1] = prog["ui"][i]
    BY <1>0, <1>4, <2>1, LookIntoMarked
  <2> HIDE DEF q
  <2>4. \A i \in 1 .. Len(prog["ui"]) : prog["ui"][i].op \in {"look", "clear", "load"}
    BY <1>0, <1>4, <2>1, TailOfProgram DEF UiShape
  <2>5. Len(prog["ui"]) \in Nat
    BY <1>0, <2>1
  <2>6. \A i \in 1 .. Len(q) : q[i].op \in {"look", "clear", "load"}
    <3> SUFFICES ASSUME NEW i \in 1 .. Len(q)
                 PROVE  q[i].op \in {"look", "clear", "load"}
      OBVIOUS
    <3>1. CASE i > 2
      <4>1. PICK j \in 2 .. Len(prog["ui"]) : i = j + 1
        BY <2>3, <2>5, <3>1
      <4>2. q[i] = prog["ui"][j] /\ j \in 1 .. Len(prog["ui"])
        BY <2>3, <4>1
      <4> QED
        BY <2>4, <4>2
    <3>2. q[1].op = "clear" /\ q[2].op = "load"
      BY <2>3 DEF Clear, Load
    <3> QED
      BY <2>3, <2>5, <3>1, <3>2
  <2>7. ~ Has(q, "push") /\ ~ Has(q, "send")
    BY <2>6 DEF Has
  <2>8. Count(q, "push") = 0 /\ Count(q, "send") = 0
    BY <2>7 DEF Count
  <2>9. said' = said /\ events' = events /\ acts' = acts
    BY <1>4 DEF Executes
  <2>10. Budget'
    BY <1>2, <1>3, <2>2, <2>8, <2>9 DEF Budget
  <2> QED
    BY <1>1, <2>2, <2>3, <2>10 DEF Shapes
<1>5. CASE ~ (s.op = "look" /\ s.cell \in changed)
  <2>1. prog'[t] = Tail(prog[t]) /\ \A u \in Threads \ {t} : prog'[u] = prog[u]
    BY <1>5, ProgramLeft
  <2>2. /\ t = "ui" => UiShape(prog'[t])
        /\ t = "core" => CoreShape(prog'[t])
    BY <1>0, <2>1, UiShapeTail, CoreShapeTail
  <2>3. Shapes'
    BY <1>0, <2>1, <2>2 DEF Shapes, Threads
  <2>4. /\ Count(prog'[t], "push") \in {0, 1} /\ Count(prog'[t], "send") \in {0, 1}
        /\ Count(prog'[t], "push") <= Count(prog[t], "push")
        /\ Count(prog'[t], "send") <= Count(prog[t], "send")
        /\ s.op = "push" => Count(prog[t], "push") = 1 /\ Count(prog'[t], "push") = 0
        /\ s.op = "send" => Count(prog[t], "send") = 1
        /\ s.op = "send" /\ t = "ui" => Count(prog'[t], "send") = 0
    BY <1>0, <2>1, CountTail, SaidOnce, SentOnce
  <2>5. s.op = "send" => t = "ui"
    BY <1>0, TailOfProgram DEF CoreShape
  <2>6. /\ said' = IF s.op = "push" THEN said + 1 ELSE said
        /\ Len(events') = IF s.op = "send" THEN Len(events) + 1 ELSE Len(events)
        /\ acts' = acts
    BY DEF Executes, Typed
  <2>7. Budget'
    <3>1. CASE t = "ui"
      <4>1. prog'["core"] = prog["core"]
        BY <2>1, <3>1 DEF Threads
      <4> QED
        BY <1>2, <1>3, <2>4, <2>6, <3>1, <4>1 DEF Budget
    <3>2. CASE t = "core"
      <4>1. prog'["ui"] = prog["ui"]
        BY <2>1, <3>2 DEF Threads
      <4> QED
        BY <1>2, <1>3, <2>4, <2>5, <2>6, <3>2, <4>1 DEF Budget
    <3> QED
      BY <1>0, <3>1, <3>2
  <2> QED
    BY <1>1, <2>3, <2>7
<1> QED
  BY <1>4, <1>5

----------------------------------------------------------------------------
(* What the interface shows *)

\* A thread that had nothing to do takes up a program.
LEMMA CoveredBegin ==
    ASSUME Typed, AllCovered, NEW t \in Threads, NEW q, prog[t] = <<>>,
           prog' = [prog EXCEPT ![t] = q],
           UNCHANGED <<cell, changed, permit, inbox, front, screen>>
    PROVE  AllCovered'
<1>1. /\ \A s : \A u \in Threads : Doing(u, s) => Doing(u, s)'
      /\ \A u \in Threads : Has(prog[u], "wake") => Has(prog[u], "wake")'
  <2> SUFFICES ASSUME NEW u \in Threads, u # t
               PROVE  prog'[u] = prog[u]
    BY DEF Doing, Has
  <2> QED
    BY DEF Typed
<1>2. Called => Called'
  BY <1>1 DEF Called
<1> QED
  BY <1>1, <1>2 DEF AllCovered, Covered, Threads

LEMMA CoveredRound ==
    ASSUME Typed, AllCovered, RoundStep
    PROVE  AllCovered'
<1>1. prog'["ui"] = Round /\ prog'["core"] = prog["core"]
  BY DEF Typed, RoundStep, Threads
<1>2. \A s : ~ Doing("ui", s)
  BY DEF RoundStep, Doing
<1>3. \A s : Doing("core", s) => Doing("core", s)'
  BY <1>1 DEF Doing
<1> SUFFICES ASSUME NEW c \in Cells PROVE Covered(c)'
  BY DEF AllCovered
<1>4. CASE screen[c] = cell[c]
  BY <1>4 DEF RoundStep, Covered
<1>5. CASE \E t \in Threads : Doing(t, Mark(c))
  <2>1. Doing("core", Mark(c))'
    BY <1>2, <1>3, <1>5 DEF Threads
  <2> QED
    BY <2>1 DEF Covered, Threads
<1>6. CASE \/ c \in changed /\ (Called \/ Doing("ui", Look(c)))
           \/ front = "graphical" /\ c \in Drawn /\ Called
  <2>1. \/ Doing("ui", Load(c))'
        \/ Doing("ui", Look(c))' /\ ~ (front = "graphical" /\ c \in Drawn)
    BY <1>1, RoundProgram DEF Doing, Typed, TypeOK
  <2>2. c \in changed => c \in changed'
    BY DEF RoundStep
  <2> QED
    BY <1>6, <2>1, <2>2 DEF Covered
<1> QED
  BY <1>2, <1>4, <1>5, <1>6 DEF AllCovered, Covered

\* The notification becomes a message in the queue of the graphical interface.
LEMMA CoveredNotified ==
    ASSUME Typed, AllCovered, inbox' = inbox + 1,
           UNCHANGED <<cell, changed, front, screen, prog>>
    PROVE  AllCovered'
<1>1. Called'
  BY DEF Called, Typed, TypeOK
<1>2. \A s : \A u \in Threads : Doing(u, s)' <=> Doing(u, s)
  BY DEF Doing
<1> QED
  BY <1>1, <1>2 DEF AllCovered, Covered, Threads

\* What is left to do after a step: all but the operation of the step.
LEMMA StillDoing ==
    ASSUME Typed, Shapes, NEW t \in Threads, NEW s, Executes(t, s)
    PROVE  /\ \A o : \A u \in Threads : Doing(u, o) /\ (u # t \/ s # o) => Doing(u, o)'
           /\ \A u \in Threads : Has(prog[u], "wake") /\ (u # t \/ s.op # "wake")
                => Has(prog[u], "wake")'
<1>1. /\ \A u \in Threads \ {t} : prog'[u] = prog[u]
      /\ Len(prog[t]) \in Nat \ {0} /\ prog[t] \in Seq(Op) /\ prog[t] # <<>>
      /\ s = prog[t][1]
  BY ProgramLeft DEF Executes
<1>2. \A i \in 2 .. Len(prog[t]) : \E j \in 1 .. Len(prog'[t]) :
        prog'[t][j] = prog[t][i]
  <2> SUFFICES ASSUME NEW i \in 2 .. Len(prog[t])
               PROVE  \E j \in 1 .. Len(prog'[t]) : prog'[t][j] = prog[t][i]
    OBVIOUS
  <2>1. CASE ~ (s.op = "look" /\ s.cell \in changed)
    <3>1. /\ Len(prog'[t]) = Len(prog[t]) - 1
          /\ \A k \in 1 .. Len(prog[t]) - 1 : prog'[t][k] = prog[t][k + 1]
      BY <2>1, ProgramLeft
    <3>2. i - 1 \in 1 .. Len(prog'[t]) /\ prog'[t][i - 1] = prog[t][i]
      BY <1>1, <3>1
    <3> QED
      BY <3>2
  <2>2. CASE s.op = "look" /\ s.cell \in changed
    <3>1. t = "ui" /\ UiShape(prog[t])
      BY <1>1, <2>2, TailOfProgram DEF Shapes, CoreShape, Threads
    <3>2. prog'[t] = <<Clear(s.cell), Load(s.cell)>> \o Tail(prog[t])
      BY <2>2, ProgramLeft
    <3>3. /\ Len(prog'[t]) = Len(prog[t]) + 1
          /\ prog'[t][i + 1] = prog[t][i]
      BY <1>1, <2>2, <3>1, <3>2, LookIntoMarked
    <3> QED
      BY <1>1, <3>3
  <2> QED
    BY <2>1, <2>2
<1>3. ASSUME NEW u \in Threads, NEW o, Doing(u, o), u # t \/ s # o
      PROVE  Doing(u, o)'
  <2>1. CASE u # t
    BY <1>1, <1>3, <2>1 DEF Doing
  <2>2. CASE u = t
    <3>1. PICK i \in 1 .. Len(prog[t]) : prog[t][i] = o
      BY <1>3, <2>2 DEF Doing
    <3>2. i \in 2 .. Len(prog[t])
      BY <1>1, <1>3, <2>2, <3>1
    <3> QED
      BY <1>2, <2>2, <3>1, <3>2 DEF Doing
  <2> QED
    BY <2>1, <2>2
<1>4. ASSUME NEW u \in Threads, Has(prog[u], "wake"), u # t \/ s.op # "wake"
      PROVE  Has(prog[u], "wake")'
  <2>1. CASE u # t
    BY <1>1, <1>4, <2>1 DEF Has
  <2>2. CASE u = t
    <3>1. PICK i \in 1 .. Len(prog[t]) : prog[t][i].op = "wake"
      BY <1>4, <2>2 DEF Has
    <3>2. i \in 2 .. Len(prog[t])
      BY <1>1, <1>4, <2>2, <3>1
    <3> QED
      BY <1>2, <2>2, <3>1, <3>2 DEF Has
  <2> QED
    BY <2>1, <2>2
<1> QED
  BY <1>3, <1>4

\* The operation after the first, which stays for the next step.
LEMMA NextOperation ==
    ASSUME Typed, Shapes, NEW t \in Threads, NEW s, Executes(t, s)
    PROVE  /\ s.op = "store" => Doing(t, Mark(s.cell))'
           /\ s.op = "push" => Doing(t, Mark("messages"))'
           /\ s.op = "mark" => Has(prog[t], "wake")'
           /\ s.op = "clear" => t = "ui" /\ Doing(t, Load(s.cell))'
           /\ s.op = "look" /\ s.cell \in changed
                => t = "ui" /\ Doing(t, Load(s.cell))'
<1>1. /\ Len(prog[t]) \in Nat \ {0} /\ prog[t] \in Seq(Op) /\ prog[t] # <<>>
      /\ s = prog[t][1]
  BY ProgramLeft DEF Executes
<1>2. Ordered(prog[t])
  BY DEF Shapes, UiShape, CoreShape, Threads
<1>3. s.op \in {"clear", "look"} => t = "ui"
  BY <1>1 DEF Shapes, CoreShape, Threads
<1>4. CASE ~ (s.op = "look" /\ s.cell \in changed)
  <2>1. /\ Len(prog'[t]) = Len(prog[t]) - 1
        /\ \A k \in 1 .. Len(prog[t]) - 1 : prog'[t][k] = prog[t][k + 1]
    BY <1>4, ProgramLeft
  <2>2. s.op \in {"store", "push", "mark", "clear"} =>
          1 \in 1 .. Len(prog'[t]) /\ prog'[t][1] = prog[t][2]
    BY <1>1, <1>2, <2>1 DEF Ordered
  <2>3. /\ s.op = "store" => prog[t][2] = Mark(s.cell)
        /\ s.op = "push" => prog[t][2] = Mark("messages")
        /\ s.op = "mark" => prog[t][2] = Wake
        /\ s.op = "clear" => prog[t][2] = Load(s.cell)
    BY <1>1, <1>2 DEF Ordered
  <2> QED
    BY <1>3, <1>4, <2>2, <2>3 DEF Doing, Has, Wake
<1>5. CASE s.op = "look" /\ s.cell \in changed
  <2>1. prog'[t] = <<Clear(s.cell), Load(s.cell)>> \o Tail(prog[t])
    BY <1>5, ProgramLeft
  <2>2. UiShape(prog[t])
    BY <1>3, <1>5 DEF Shapes
  <2>3. prog'[t][2] = Load(s.cell) /\ Len(prog'[t]) = Len(prog[t]) + 1
    BY <1>1, <1>5, <2>1, <2>2, LookIntoMarked
  <2> QED
    BY <1>1, <1>3, <1>5, <2>3 DEF Doing
<1> QED
  BY <1>4, <1>5

LEMMA CoveredStep ==
    ASSUME Typed, Shapes, AllCovered, NEW t \in Threads, NEW s, Executes(t, s)
    PROVE  AllCovered'
<1> SUFFICES ASSUME NEW c \in Cells PROVE Covered(c)'
  BY DEF AllCovered
<1>0. /\ s.op \in {"push", "wake", "mark", "look", "clear", "load", "send", "store"}
      /\ s.op = "store" => s.cell \in Cells
      /\ front' = front /\ Covered(c)
      /\ cell = [d \in Cells |-> cell[d]] /\ screen = [d \in Cells |-> screen[d]]
  BY OpFields DEF Executes, AllCovered, Typed
<1>1. /\ \A o : \A u \in Threads : Doing(u, o) /\ (u # t \/ s # o) => Doing(u, o)'
      /\ \A u \in Threads : Has(prog[u], "wake") /\ (u # t \/ s.op # "wake")
           => Has(prog[u], "wake")'
  BY StillDoing
<1>2. Called => Called'
  BY <1>1 DEF Called, Executes
<1>3. /\ Mark(c).op = "mark" /\ Mark(c).cell = c
      /\ Load(c).op = "load" /\ Load(c).cell = c
      /\ Look(c).op = "look" /\ Look(c).cell = c
  BY DEF Mark, Load, Look
<1>4. ASSUME cell'[c] = cell[c], screen'[c] = screen[c],
             s # Mark(c), s # Load(c), s # Look(c), c \in changed => c \in changed'
      PROVE  Covered(c)'
  <2>1. Doing("ui", Load(c)) => Doing("ui", Load(c))'
    BY <1>1, <1>4 DEF Threads
  <2>2. Doing("ui", Look(c)) => Doing("ui", Look(c))'
    BY <1>1, <1>4 DEF Threads
  <2>3. (\E u \in Threads : Doing(u, Mark(c))) => (\E u \in Threads : Doing(u, Mark(c)))'
    BY <1>1, <1>4
  <2> QED
    BY <1>0, <1>2, <1>4, <2>1, <2>2, <2>3 DEF Covered
<1>5. CASE s.op = "store"
  <2>1. cell' = [cell EXCEPT ![s.cell] = s.value] /\ screen' = screen
        /\ changed' = changed
    BY <1>5 DEF Executes
  <2>2. CASE c = s.cell
    BY <1>5, <2>2, NextOperation DEF Covered
  <2>3. CASE c # s.cell
    <3>1. cell'[c] = cell[c]
      BY <1>0, <2>1, <2>3
    <3> QED
      BY <1>3, <1>4, <1>5, <2>1, <3>1
  <2> QED
    BY <2>2, <2>3
<1>6. CASE s.op = "push"
  <2>1. cell' = [cell EXCEPT !["messages"] = RingPush(cell["messages"], said + 1)]
        /\ screen' = screen /\ changed' = changed
    BY <1>6 DEF Executes
  <2>2. CASE c = "messages"
    BY <1>6, <2>2, NextOperation DEF Covered
  <2>3. CASE c # "messages"
    <3>1. cell'[c] = cell[c]
      BY <1>0, <2>1, <2>3
    <3> QED
      BY <1>3, <1>4, <1>6, <2>1, <3>1
  <2> QED
    BY <2>2, <2>3
<1>7. CASE s.op = "mark"
  <2>1. cell' = cell /\ screen' = screen /\ changed' = changed \cup {s.cell}
    BY <1>7 DEF Executes
  <2>2. CASE c = s.cell
    BY <1>7, <2>1, <2>2, NextOperation DEF Covered, Called
  <2>3. CASE c # s.cell
    BY <1>3, <1>4, <1>7, <2>1, <2>3
  <2> QED
    BY <2>2, <2>3
<1>8. CASE s.op \in {"wake", "send"}
  <2>1. cell' = cell /\ screen' = screen /\ changed' = changed
    BY <1>8 DEF Executes
  <2> QED
    BY <1>3, <1>4, <1>8, <2>1
<1>9. CASE s.op = "look"
  <2>1. cell' = cell /\ screen' = screen /\ changed' = changed
    BY <1>9 DEF Executes
  <2>2. CASE s = Look(c) /\ c \in changed
    BY <1>3, <1>9, <2>2, NextOperation DEF Covered
  <2>3. CASE s = Look(c) /\ c \notin changed
    <3>1. Doing("ui", Load(c)) => Doing("ui", Load(c))'
      BY <1>1, <1>3, <1>9 DEF Threads
    <3>2. (\E u \in Threads : Doing(u, Mark(c))) => (\E u \in Threads : Doing(u, Mark(c)))'
      BY <1>1, <1>3, <1>9
    <3> QED
      BY <1>0, <1>2, <2>1, <2>3, <3>1, <3>2 DEF Covered
  <2>4. CASE s # Look(c)
    BY <1>3, <1>4, <1>9, <2>1, <2>4
  <2> QED
    BY <2>2, <2>3, <2>4
<1>10. CASE s.op = "clear"
  <2>1. cell' = cell /\ screen' = screen /\ changed' = changed \ {s.cell}
    BY <1>10 DEF Executes
  <2>2. CASE c = s.cell
    BY <1>10, <2>2, NextOperation DEF Covered
  <2>3. CASE c # s.cell
    BY <1>3, <1>4, <1>10, <2>1, <2>3
  <2> QED
    BY <2>2, <2>3
<1>11. CASE s.op = "load"
  <2>1. cell' = cell /\ screen' = [screen EXCEPT ![s.cell] = cell[s.cell]]
        /\ changed' = changed
    BY <1>11 DEF Executes
  <2>2. CASE c = s.cell
    <3>1. screen'[c] = cell'[c]
      BY <1>0, <2>1, <2>2
    <3> QED
      BY <3>1 DEF Covered
  <2>3. CASE c # s.cell
    <3>1. screen'[c] = screen[c]
      BY <1>0, <2>1, <2>3
    <3> QED
      BY <1>3, <1>4, <1>11, <2>1, <2>3, <3>1
  <2> QED
    BY <2>2, <2>3
<1> QED
  BY <1>0, <1>5, <1>6, <1>7, <1>8, <1>9, <1>10, <1>11

----------------------------------------------------------------------------
(* What the core has *)

\* Cells of which the interface does not tell the core.
LEMMA EventCells ==
    ASSUME NEW e \in Event
    PROVE  EventCell(e) \in {"user", "playlist", "video", "none"}
  BY DEF Event, EventCell

\* What stays as it is, piece by piece.
LEMMA CoreKept ==
    ASSUME prog'["core"] = prog["core"], core' = core
    PROVE  /\ \A c : CoreStores(c)' <=> CoreStores(c)
           /\ \A c : CoreValue(c)' = CoreValue(c)
           /\ \A c : StoresRight(c)' <=> StoresRight(c)
<1>1. \A c : CoreStores(c)' <=> CoreStores(c)
  BY DEF CoreStores
<1>2. \A c : CoreValue(c)' = CoreValue(c)
  BY DEF CoreValue
<1> QED
  BY <1>1, <1>2 DEF StoresRight

LEMMA UiKept ==
    ASSUME prog'["ui"] = prog["ui"]
    PROVE  /\ \A c : Sending(c)' <=> Sending(c)
           /\ \A c : cell'[c] = cell[c] => (SendsCell(c)' <=> SendsCell(c))
  BY DEF Sending, SendsCell

LEMMA EventsKept ==
    ASSUME events' = events
    PROVE  /\ \A c : Sent(c)' <=> Sent(c)
           /\ \A c : cell'[c] = cell[c] => (SentCell(c)' <=> SentCell(c))
<1>1. \A i, c : Last(i, c)' <=> Last(i, c)
  BY DEF Last
<1> QED
  BY <1>1 DEF Sent, SentCell

LEMMA RightUser ==
    ASSUME Typed, Right, NEW q, NEW e, UserStep(q, e)
    PROVE  Right'
<1>1. prog'["ui"] = q /\ prog'["core"] = prog["core"] /\ prog["ui"] = <<>>
  BY DEF Typed, UserStep, Threads
<1>2. events' = events /\ cell' = cell /\ core' = core /\ crossed \subseteq crossed'
  BY DEF UserStep
<1>3. \A c : (CoreStores(c)' <=> CoreStores(c)) /\ (Sent(c)' <=> Sent(c))
             /\ CoreValue(c)' = CoreValue(c) /\ ~ Sending(c)
             /\ (StoresRight(c) => StoresRight(c)')
             /\ (SentCell(c) => SentCell(c)')
  BY <1>1, <1>2, CoreKept, EventsKept DEF Sending
<1>4. /\ e \in Event /\ Len(q) \in Nat
      /\ \A i \in 1 .. Len(q) : q[i].op = "send" =>
           q[i].event = e /\ (EventCell(e) # "none" => i = 4)
  <2>1. e \in Event /\ UserProgram(q, e) /\ Len(q) \in Nat
    BY DEF UserStep, UserProgram
  <2> SUFFICES ASSUME NEW i \in 1 .. Len(q), q[i].op = "send"
               PROVE  q[i].event = e /\ (EventCell(e) # "none" => i = 4)
    BY <2>1
  <2>2. CASE EventCell(e) # "none"
    <3>1. /\ q[1].op = "store" /\ q[2].op = "mark" /\ q[3].op = "wake"
          /\ q[4].event = e /\ \A j \in 5 .. Len(q) : q[j].op = "load"
      BY <2>1, <2>2 DEF UserProgram, Store, Mark, Wake, Send
    <3> QED
      BY <2>1, <3>1
  <2>3. CASE EventCell(e) = "none"
    <3>1. CASE /\ 4 <= Len(q)
               /\ q[1] = Push /\ q[2] = Mark("messages") /\ q[3] = Wake
               /\ q[4] = Send(e)
               /\ \A j \in 5 .. Len(q) : q[j].op = "load"
      <4>1. q[1].op = "push" /\ q[2].op = "mark" /\ q[3].op = "wake" /\ q[4].event = e
        BY <3>1 DEF Push, Mark, Wake, Send
      <4> QED
        BY <2>1, <2>3, <3>1, <4>1
    <3>2. CASE /\ 1 <= Len(q) /\ q[1] = Send(e)
               /\ \A j \in 2 .. Len(q) : q[j].op = "load"
      <4>1. q[1].event = e
        BY <3>2 DEF Send
      <4> QED
        BY <2>1, <2>3, <3>2, <4>1
    <3> QED
      BY <2>1, <2>3, <3>1, <3>2 DEF UserProgram
  <2> QED
    BY <2>2, <2>3
<1>5. \A c : c # EventCell(e) => ~ Sending(c)'
  BY <1>1, <1>4 DEF Sending
<1>6. ListRight'
  <2>1. "list" # EventCell(e)
    BY <1>4, EventCells
  <2> QED
    BY <1>2, <1>3, <1>5, <2>1 DEF Right, ListRight
<1>7. VideoRight'
  BY <1>2, <1>3 DEF Right, VideoRight
<1>8. Connected'
  BY <1>2 DEF Right, Connected
<1>9. ASSUME NEW c \in Shared, c \notin crossed'
      PROVE  UncrossedRight(c)'
  <2>1. UncrossedRight(c) /\ c # "none"
    BY <1>2, <1>9 DEF Right, Shared
  <2>2. SendsCell(c)'
    BY <1>1, <1>4, <2>1 DEF SendsCell
  <2>3. CASE c = EventCell(e)
    <3>1. c \notin Stored(prog["core"])
      BY <1>9, <2>3 DEF UserStep
    <3>2. ~ CoreStores(c)
      <4>1. prog["core"] \in Seq(Op)
        BY DEF Typed, Threads
      <4> QED
        BY <3>1, <4>1 DEF CoreStores, Stored
    <3>3. Sending(c)'
      <4>1. /\ 4 <= Len(q) /\ q[4] = Send(e)
        BY <2>1, <2>3 DEF UserStep, UserProgram
      <4> QED
        BY <1>1, <1>4, <2>3, <4>1 DEF Sending, Send
    <3> QED
      BY <1>3, <2>1, <2>2, <3>2, <3>3 DEF UncrossedRight
  <2>4. CASE c # EventCell(e)
    BY <1>2, <1>3, <1>5, <2>1, <2>2, <2>4 DEF UncrossedRight
  <2> QED
    BY <2>3, <2>4
<1> QED
  BY <1>6, <1>7, <1>8, <1>9 DEF Right

LEMMA RightReceive ==
    ASSUME Typed, Right, NEW p, ReceiveStep(p)
    PROVE  Right'
<1>1. prog'["core"] = p /\ prog'["ui"] = prog["ui"] /\ prog["core"] = <<>>
  BY DEF Typed, ReceiveStep, CoreStep, Threads
<1>2. events' = events /\ cell' = cell /\ crossed \subseteq crossed'
  BY DEF ReceiveStep, CoreStep
<1>3. \A c : /\ (Sent(c)' <=> Sent(c)) /\ (Sending(c)' <=> Sending(c))
             /\ ~ CoreStores(c)
             /\ (SentCell(c) => SentCell(c)') /\ (SendsCell(c) => SendsCell(c)')
             /\ CoreStores(c)' <=> p # <<>> /\ p[1].op = "store" /\ p[1].cell = c
  BY <1>1, <1>2, UiKept, EventsKept DEF CoreStores
<1>4. \A c \in {"list", "video"} \cup Shared : Agrees(p, c)
  BY DEF ReceiveStep
<1>5. \A c \in {"list", "video"} :
        /\ CoreStores(c)' => p[1].value = CoreValue(c)'
        /\ ~ CoreStores(c)' => CoreValue(c)' = CoreValue(c)
  BY <1>3, <1>4 DEF Agrees
<1>6. \A c \in {"list", "video"} : StoresRight(c)'
  BY <1>1, <1>5 DEF StoresRight
<1>7. ListRight' /\ VideoRight'
  BY <1>2, <1>3, <1>5, <1>6 DEF Right, ListRight, VideoRight
<1>8. Connected'
  BY DEF Right, Connected, ReceiveStep
<1>9. ASSUME NEW c \in Shared, c \notin crossed'
      PROVE  UncrossedRight(c)'
  <2>1. UncrossedRight(c) /\ Agrees(p, c)
    BY <1>2, <1>4, <1>9 DEF Right
  <2>2. CASE CoreStores(c)'
    <3>1. c \notin UiChanges
      BY <1>3, <1>9, <2>2 DEF ReceiveStep
    <3>2. ~ Sending(c) /\ ~ Sent(c)
      <4>1. prog["ui"] \in Seq(Op) /\ events \in Seq(Event)
        BY DEF Typed, Threads
      <4> QED
        BY <3>1, <4>1 DEF UiChanges, Sending, Sent
    <3>3. cell[c] = CoreValue(c)
      BY <1>3, <2>1, <3>2 DEF UncrossedRight
    <3>4. c = "user" => cell["user"].ready = core.ready
      BY <3>3 DEF CoreValue
    <3>5. p[1].value = CoreValue(c)'
      BY <1>3, <2>1, <2>2, <3>4 DEF Agrees
    <3>6. StoresRight(c)'
      BY <1>1, <3>5 DEF StoresRight
    <3> QED
      BY <1>3, <2>1, <2>2, <3>2, <3>6 DEF UncrossedRight
  <2>3. CASE ~ CoreStores(c)'
    <3>1. CoreValue(c)' = CoreValue(c)
      BY <1>3, <2>1, <2>3 DEF Agrees
    <3> QED
      BY <1>2, <1>3, <2>1, <2>3, <3>1 DEF UncrossedRight, StoresRight
  <2> QED
    BY <2>2, <2>3
<1> QED
  BY <1>7, <1>8, <1>9 DEF Right

\* The queue without its first event.
LEMMA EventsTail ==
    ASSUME events \in Seq(Event), events # <<>>, events' = Tail(events)
    PROVE  /\ \A c : Sent(c)' => Sent(c)
           /\ \A c : Sent(c) /\ EventCell(events[1]) # c => Sent(c)'
           /\ \A c : SentCell(c) /\ cell'[c] = cell[c] => SentCell(c)'
           /\ \A c : SentCell(c) /\ EventCell(events[1]) = c /\ ~ Sent(c)'
                => EventValue(events[1]) = cell[c]
<1>1. /\ Len(events) \in Nat \ {0} /\ Len(events') = Len(events) - 1
      /\ \A i \in 1 .. Len(events) - 1 : events'[i] = events[i + 1]
  OBVIOUS
<1>2. \A c : Sent(c)' => Sent(c)
  <2> SUFFICES ASSUME NEW c, NEW i \in 1 .. Len(events'), EventCell(events'[i]) = c
               PROVE  Sent(c)
    BY DEF Sent
  <2>1. i + 1 \in 1 .. Len(events) /\ EventCell(events[i + 1]) = c
    BY <1>1
  <2> QED
    BY <2>1 DEF Sent
<1>3. \A c : Sent(c) /\ EventCell(events[1]) # c => Sent(c)'
  <2> SUFFICES ASSUME NEW c, NEW i \in 1 .. Len(events), EventCell(events[i]) = c,
                      EventCell(events[1]) # c
               PROVE  Sent(c)'
    BY DEF Sent
  <2>1. i - 1 \in 1 .. Len(events') /\ events'[i - 1] = events[i]
    BY <1>1
  <2> QED
    BY <2>1 DEF Sent
<1>4. \A c : SentCell(c) /\ cell'[c] = cell[c] => SentCell(c)'
  <2> SUFFICES ASSUME NEW c, SentCell(c), cell'[c] = cell[c],
                      NEW i \in 1 .. Len(events'), Last(i, c)'
               PROVE  EventValue(events'[i]) = cell[c]
    BY DEF SentCell
  <2>1. i + 1 \in 1 .. Len(events) /\ events'[i] = events[i + 1]
    BY <1>1
  <2>2. ASSUME NEW j \in i + 2 .. Len(events)
        PROVE  EventCell(events[j]) # c
    <3>1. j - 1 \in i + 1 .. Len(events') /\ events'[j - 1] = events[j]
      BY <1>1
    <3> QED
      BY <3>1 DEF Last
  <2>3. Last(i + 1, c)
    BY <1>1, <2>1, <2>2 DEF Last
  <2> QED
    BY <2>1, <2>3 DEF SentCell
<1>5. ASSUME NEW c, SentCell(c), EventCell(events[1]) = c, ~ Sent(c)'
      PROVE  EventValue(events[1]) = cell[c]
  <2>1. ASSUME NEW j \in 2 .. Len(events)
        PROVE  EventCell(events[j]) # c
    <3>1. j - 1 \in 1 .. Len(events') /\ events'[j - 1] = events[j]
      BY <1>1
    <3> QED
      BY <1>5, <3>1 DEF Sent
  <2>2. Last(1, c)
    BY <1>5, <2>1 DEF Last
  <2> QED
    BY <1>1, <1>5, <2>2 DEF SentCell
<1> QED
  BY <1>2, <1>3, <1>4, <1>5

LEMMA RightHandle ==
    ASSUME Typed, Right, NEW e, NEW p, HandleStep(e, p)
    PROVE  Right'
<1>1. prog'["core"] = p /\ prog'["ui"] = prog["ui"] /\ prog["core"] = <<>>
  BY DEF Typed, HandleStep, CoreStep, Threads
<1>2. /\ cell' = cell /\ crossed' = crossed /\ e = events[1] /\ e \in Event
      /\ events \in Seq(Event) /\ events # <<>> /\ events' = Tail(events)
  BY DEF HandleStep, CoreStep, Typed
<1>3. \A c : ~ CoreStores(c) /\ (Sending(c)' <=> Sending(c))
             /\ (SendsCell(c)' <=> SendsCell(c))
  BY <1>1, <1>2, UiKept DEF CoreStores
<1>4. /\ \A c : Sent(c)' => Sent(c)
      /\ \A c : Sent(c) /\ EventCell(e) # c => Sent(c)'
      /\ \A c : SentCell(c) => SentCell(c)'
      /\ \A c : SentCell(c) /\ EventCell(e) = c /\ ~ Sent(c)'
           => EventValue(e) = cell[c]
  BY <1>2, EventsTail
<1>5. \A c \in {"list", "video"} \cup Shared :
        CoreValue(c)' = IF EventCell(e) = c THEN EventValue(e) ELSE CoreValue(c)
  BY DEF HandleStep
<1>6. /\ \A c : CoreStores(c)' => c = "video" /\ EventCell(e) = "video"
                                    /\ prog'["core"][1].value = EventValue(e)
      /\ EventCell(e) = "video" => CoreStores("video")'
  <2>1. CASE EventCell(e) = "video"
    <3>1. p # <<>> /\ p[1] = Store("video", EventValue(e))
      BY <2>1 DEF HandleStep
    <3> QED
      BY <1>1, <2>1, <3>1 DEF CoreStores, Store
  <2>2. CASE EventCell(e) # "video"
    <3>1. p # <<>> => p[1] = Push
      BY <2>2 DEF HandleStep
    <3> QED
      BY <1>1, <2>2, <3>1 DEF CoreStores, Push
  <2> QED
    BY <2>1, <2>2
<1>7. EventCell(e) # "list"
  BY <1>2, EventCells
<1>8. ListRight'
  BY <1>2, <1>3, <1>4, <1>5, <1>6, <1>7 DEF Right, ListRight, StoresRight
<1>9. VideoRight'
  <2>1. StoresRight("video")'
    BY <1>5, <1>6 DEF StoresRight
  <2> QED
    BY <1>2, <1>3, <1>4, <1>5, <1>6, <2>1 DEF Right, VideoRight
<1>10. Connected'
  BY DEF Right, HandleStep
<1>11. ASSUME NEW c \in Shared, c \notin crossed'
       PROVE  UncrossedRight(c)'
  <2>1. UncrossedRight(c) /\ c # "video"
    BY <1>2, <1>11 DEF Right, Shared
  <2>2. ~ CoreStores(c)'
    BY <1>6, <2>1
  <2>3. ~ Sending(c)' /\ ~ Sent(c)' => CoreValue(c)' = cell'[c]
    <3>1. CASE EventCell(e) = c
      BY <1>2, <1>3, <1>4, <1>5, <2>1, <3>1 DEF UncrossedRight
    <3>2. CASE EventCell(e) # c
      BY <1>2, <1>3, <1>4, <1>5, <2>1, <3>2 DEF UncrossedRight
    <3> QED
      BY <3>1, <3>2
  <2> QED
    BY <1>3, <1>4, <2>1, <2>2, <2>3 DEF UncrossedRight, StoresRight
<1> QED
  BY <1>8, <1>9, <1>10, <1>11 DEF Right

\* Nothing of the interface's is stored or sent while it looks.
LEMMA RightRound ==
    ASSUME Typed, Right, RoundStep
    PROVE  Right'
<1>1. prog'["ui"] = Round /\ prog'["core"] = prog["core"] /\ prog["ui"] = <<>>
  BY DEF Typed, RoundStep, Threads
<1>2. events' = events /\ cell' = cell /\ core' = core /\ crossed' = crossed
  BY DEF RoundStep
<1>3. \A i \in 1 .. Len(Round) : Round[i].op # "send"
  BY RoundProgram DEF Typed, TypeOK
<1>4. \A c : ~ Sending(c) /\ ~ Sending(c)' /\ SendsCell(c)'
  BY <1>1, <1>3 DEF Sending, SendsCell
<1>5. \A c : /\ CoreStores(c)' <=> CoreStores(c)
             /\ CoreValue(c)' = CoreValue(c)
             /\ StoresRight(c)' <=> StoresRight(c)
             /\ Sent(c)' <=> Sent(c)
             /\ SentCell(c)' <=> SentCell(c)
  BY <1>1, <1>2, CoreKept, EventsKept
<1>6. ListRight' /\ VideoRight' /\ Connected'
  BY <1>2, <1>4, <1>5 DEF Right, ListRight, VideoRight, Connected
<1>7. ASSUME NEW c \in Shared, c \notin crossed'
      PROVE  UncrossedRight(c)'
  BY <1>2, <1>4, <1>5, <1>7 DEF Right, UncrossedRight
<1> QED
  BY <1>6, <1>7 DEF Right

\* The core goes on with its program, whose store comes first.
LEMMA RightCoreStep ==
    ASSUME Typed, Shapes, Right, NEW s, Executes("core", s)
    PROVE  Right'
<1>1. /\ prog["core"] \in Seq(Op) /\ prog["core"] # <<>> /\ s = prog["core"][1]
      /\ CoreShape(prog["core"]) /\ Len(prog["core"]) \in Nat \ {0}
      /\ s.op \in {"store", "push", "mark", "wake"}
      /\ s.op = "store" => s.cell \in Cells \ {"messages"}
  <2>1. /\ prog["core"] \in Seq(Op) /\ prog["core"] # <<>> /\ s = prog["core"][1]
        /\ CoreShape(prog["core"]) /\ s \in Op
    BY DEF Executes, Shapes
  <2> QED
    BY <2>1, TailOfProgram, OpFields DEF CoreShape
<1>2. /\ prog'["ui"] = prog["ui"] /\ prog'["core"] = Tail(prog["core"])
      /\ events' = events /\ core' = core /\ crossed' = crossed
  BY <1>1, ProgramLeft DEF Executes, Threads
<1>3. \A c : ~ CoreStores(c)'
  BY <1>1, <1>2, TailOfProgram DEF CoreStores, CoreShape
<1>4. \A c : (CoreStores(c) <=> s.op = "store" /\ s.cell = c)
             /\ (CoreStores(c) /\ StoresRight(c) => s.value = CoreValue(c))
  BY <1>1 DEF CoreStores, StoresRight
<1>5. \A c : /\ CoreValue(c)' = CoreValue(c) /\ StoresRight(c)'
             /\ Sending(c)' <=> Sending(c)
             /\ Sent(c)' <=> Sent(c)
             /\ cell'[c] = cell[c] => (SendsCell(c)' <=> SendsCell(c))
             /\ cell'[c] = cell[c] => (SentCell(c)' <=> SentCell(c))
  <2>1. \A c : CoreValue(c)' = CoreValue(c)
    BY <1>2 DEF CoreValue
  <2>2. \A c : StoresRight(c)'
    BY <1>3 DEF StoresRight
  <2> QED
    BY <1>2, <2>1, <2>2, UiKept, EventsKept
<1>6. /\ \A c \in Cells \ {"messages"} : ~ CoreStores(c) => cell'[c] = cell[c]
      /\ \A c \in Cells \ {"messages"} : CoreStores(c) => cell'[c] = s.value
  <2>0. cell = [c \in Cells |-> cell[c]]
    BY DEF Typed
  <2>1. CASE s.op = "store"
    <3>1. cell' = [cell EXCEPT ![s.cell] = s.value]
      BY <2>1 DEF Executes
    <3> QED
      BY <1>1, <1>4, <2>0, <2>1, <3>1
  <2>2. CASE s.op # "store"
    <3>1. cell' = cell \/ cell' = [cell EXCEPT !["messages"] =
                                     RingPush(cell["messages"], said + 1)]
      BY <2>2 DEF Executes
    <3> QED
      BY <1>4, <2>0, <2>2, <3>1
  <2> QED
    BY <2>1, <2>2
<1>7. {"list", "video"} \cup Shared \subseteq Cells \ {"messages"}
  BY DEF Shared, Cells
<1>8. ListRight' /\ VideoRight' /\ Connected'
  <2>1. ListRight'
    BY <1>3, <1>4, <1>5, <1>6, <1>7 DEF Right, ListRight
  <2>2. VideoRight'
    BY <1>3, <1>4, <1>5, <1>6, <1>7 DEF Right, VideoRight
  <2> QED
    BY <1>2, <2>1, <2>2 DEF Right, Connected
<1>9. ASSUME NEW c \in Shared, c \notin crossed'
      PROVE  UncrossedRight(c)'
  <2>1. UncrossedRight(c) /\ c \in Cells \ {"messages"}
    BY <1>2, <1>7, <1>9 DEF Right
  <2>2. CASE CoreStores(c)
    <3>1. ~ Sending(c) /\ ~ Sent(c) /\ cell'[c] = CoreValue(c)
      BY <1>4, <1>6, <2>1, <2>2 DEF UncrossedRight
    <3>2. SendsCell(c)'
      BY <1>5, <3>1 DEF Sending, SendsCell
    <3>3. SentCell(c)'
      BY <1>5, <3>1 DEF Sent, SentCell, Last
    <3> QED
      BY <1>3, <1>5, <3>1, <3>2, <3>3 DEF UncrossedRight
  <2>3. CASE ~ CoreStores(c)
    BY <1>3, <1>5, <1>6, <2>1, <2>3 DEF UncrossedRight
  <2> QED
    BY <2>2, <2>3
<1> QED
  BY <1>8, <1>9 DEF Right

\* The interface goes on with its program.
LEMMA RightUiStep ==
    ASSUME Typed, Shapes, Right, NEW s, Executes("ui", s)
    PROVE  Right'
<1> DEFINE p == prog["ui"]
           q == prog'["ui"]
<1>1. /\ p \in Seq(Op) /\ p # <<>> /\ s = p[1] /\ UiShape(p) /\ s \in Op
      /\ Len(p) \in Nat \ {0}
      /\ s.op = "store" => s.cell \in Cells \ {"messages"}
  BY TailOfProgram, OpFields DEF Executes, Shapes
<1>2. /\ prog'["core"] = prog["core"] /\ core' = core /\ crossed' = crossed
      /\ Shapes'
  <2>1. prog'["core"] = prog["core"]
    BY ProgramLeft DEF Threads
  <2>2. UiShape(q)
    <3>1. CASE s.op = "look" /\ s.cell \in changed
      BY <1>1, <3>1, ProgramLeft, LookIntoMarked DEF Threads
    <3>2. CASE ~ (s.op = "look" /\ s.cell \in changed)
      BY <1>1, <3>2, ProgramLeft, UiShapeTail DEF Threads
    <3> QED
      BY <3>1, <3>2
  <2> QED
    BY <2>1, <2>2 DEF Executes, Shapes
<1>3. \A c : /\ CoreStores(c)' <=> CoreStores(c)
             /\ CoreValue(c)' = CoreValue(c)
             /\ StoresRight(c)' <=> StoresRight(c)
  BY <1>2, CoreKept
<1>4. CASE s.op = "look" /\ s.cell \in changed
  <2>1. /\ q = <<Clear(s.cell), Load(s.cell)>> \o Tail(p)
    BY <1>4, ProgramLeft DEF Threads
  <2>2. \A i \in 1 .. Len(p) : p[i].op # "send"
    BY <1>1, <1>4 DEF UiShape
  <2>3. \A i \in 1 .. Len(q) : q[i].op # "send"
    <3>1. /\ Len(q) = Len(p) + 1 /\ q[1] = Clear(s.cell) /\ q[2] = Load(s.cell)
          /\ \A i \in 2 .. Len(p) : q[i + 1] = p[i]
      BY <1>1, <1>4, <2>1, LookIntoMarked
    <3>2. q[1].op = "clear" /\ q[2].op = "load"
      BY <3>1 DEF Clear, Load
    <3> HIDE DEF q, p
    <3> SUFFICES ASSUME NEW i \in 1 .. Len(q), i > 2
                 PROVE  q[i].op # "send"
      BY <1>1, <3>1, <3>2
    <3> DEFINE n == Len(p)
    <3>3. n \in Nat /\ Len(q) = n + 1
      BY <1>1, <3>1
    <3> HIDE DEF n
    <3>4. i - 1 \in 2 .. n /\ i = (i - 1) + 1
      BY <3>3
    <3>5. PICK j \in 2 .. Len(p) : i = j + 1
      BY <3>4 DEF n
    <3>6. q[i] = p[j] /\ j \in 1 .. Len(p)
      BY <3>1, <3>5
    <3> QED
      BY <2>2, <3>6
  <2>4. \A c : ~ Sending(c) /\ ~ Sending(c)' /\ SendsCell(c)'
    BY <2>2, <2>3 DEF Sending, SendsCell
  <2>5. cell' = cell /\ events' = events
    BY <1>4 DEF Executes
  <2>6. \A c : (Sent(c)' <=> Sent(c)) /\ (SentCell(c)' <=> SentCell(c))
    BY <2>5, EventsKept
  <2>7. ListRight' /\ VideoRight' /\ Connected'
    BY <1>2, <1>3, <2>4, <2>5, <2>6 DEF Right, ListRight, VideoRight, Connected
  <2>8. ASSUME NEW c \in Shared, c \notin crossed'
        PROVE  UncrossedRight(c)'
    BY <1>2, <1>3, <2>4, <2>5, <2>6, <2>8 DEF Right, UncrossedRight
  <2> QED
    BY <2>7, <2>8 DEF Right
<1>5. CASE ~ (s.op = "look" /\ s.cell \in changed)
  <2>1. /\ Len(q) = Len(p) - 1
        /\ \A i \in 1 .. Len(p) - 1 : q[i] = p[i + 1]
    BY <1>5, ProgramLeft DEF Threads
  <2>2. \A c : s.op # "send" => (Sending(c)' <=> Sending(c))
    <3>1. ASSUME NEW c, Sending(c)
          PROVE  s.op # "send" => Sending(c)'
      <4>1. PICK i \in 1 .. Len(p) : p[i].op = "send" /\ EventCell(p[i].event) = c
        BY <3>1 DEF Sending
      <4>2. s.op # "send" => i - 1 \in 1 .. Len(q) /\ q[i - 1] = p[i]
        BY <1>1, <2>1, <4>1
      <4> QED
        BY <4>1, <4>2 DEF Sending
    <3>2. ASSUME NEW c, Sending(c)'
          PROVE  Sending(c)
      <4>1. PICK i \in 1 .. Len(q) : q[i].op = "send" /\ EventCell(q[i].event) = c
        BY <3>2 DEF Sending
      <4>2. i + 1 \in 1 .. Len(p) /\ q[i] = p[i + 1]
        BY <1>1, <2>1, <4>1
      <4> QED
        BY <4>1, <4>2 DEF Sending
    <3> QED
      BY <3>1, <3>2
  <2>3. CASE s.op = "store"
    <3>1. /\ 4 <= Len(p) /\ p[4].op = "send" /\ EventCell(p[4].event) = s.cell
          /\ EventValue(p[4].event) = s.value
          /\ \A j \in 1 .. Len(p) : p[j].op = "send" => j = 4
      BY <1>1, <2>3 DEF UiShape
    <3>2. \A c : Sending(c) <=> c = s.cell
      BY <1>1, <3>1 DEF Sending
    <3>3. /\ cell' = [cell EXCEPT ![s.cell] = s.value] /\ events' = events
          /\ cell = [c \in Cells |-> cell[c]]
      BY <2>3 DEF Executes, Typed
    <3>4. s.cell # "list"
      BY <3>2 DEF Right, ListRight
    <3>5. /\ cell'[s.cell] = s.value
          /\ \A c \in Cells \ {s.cell} : cell'[c] = cell[c]
      BY <1>1, <2>3, <3>3
    <3>6. "list" \in Cells /\ "video" \in Cells /\ Shared \subseteq Cells
      BY DEF Cells, Shared
    <3>7. \A c : Sent(c)' <=> Sent(c)
      BY <3>3, EventsKept
    <3>8. ListRight' /\ VideoRight' /\ Connected'
      <4>1. ListRight'
        BY <1>3, <2>2, <2>3, <3>4, <3>5, <3>6, <3>7 DEF Right, ListRight
      <4>2. VideoRight'
        BY <1>3, <2>2, <2>3, <3>2, <3>5, <3>6, <3>7 DEF Right, VideoRight
      <4> QED
        BY <1>2, <4>1, <4>2 DEF Right, Connected
    <3>9. ASSUME NEW c \in Shared, c \notin crossed'
          PROVE  UncrossedRight(c)'
      <4>1. UncrossedRight(c) /\ c \in Cells
        BY <1>2, <3>6, <3>9 DEF Right
      <4>2. SendsCell(c)'
        <5> SUFFICES ASSUME NEW i \in 1 .. Len(q), q[i].op = "send",
                            EventCell(q[i].event) = c
                     PROVE  EventValue(q[i].event) = cell'[c]
          BY DEF SendsCell
        <5>1. i + 1 \in 1 .. Len(p) /\ q[i] = p[i + 1]
          BY <1>1, <2>1
        <5>2. q[i] = p[4]
          BY <3>1, <5>1
        <5> QED
          BY <3>1, <3>5, <5>2
      <4>3. CASE c = s.cell
        BY <1>3, <2>2, <2>3, <3>2, <3>7, <4>1, <4>2, <4>3 DEF UncrossedRight
      <4>4. CASE c # s.cell
        <5>1. cell'[c] = cell[c]
          BY <3>5, <4>1, <4>4
        <5>2. SentCell(c)' <=> SentCell(c)
          BY <3>3, <5>1, EventsKept
        <5> QED
          BY <1>3, <2>2, <2>3, <3>7, <4>1, <4>2, <5>1, <5>2 DEF UncrossedRight
      <4> QED
        BY <4>3, <4>4
    <3> QED
      BY <3>8, <3>9 DEF Right
  <2>4. CASE s.op # "store"
    <3>1. \A c \in Cells \ {"messages"} : cell'[c] = cell[c]
      <4>1. \/ cell' = cell
            \/ cell' = [cell EXCEPT !["messages"] = RingPush(cell["messages"], said + 1)]
        BY <2>4 DEF Executes
      <4>2. cell = [c \in Cells |-> cell[c]]
        BY DEF Typed
      <4> QED
        BY <4>1, <4>2
    <3>2. {"list", "video"} \cup Shared \subseteq Cells \ {"messages"}
      BY DEF Cells, Shared
    <3>3. \A c \in Shared : SendsCell(c) => SendsCell(c)'
      <4> SUFFICES ASSUME NEW c \in Shared, SendsCell(c),
                          NEW i \in 1 .. Len(q), q[i].op = "send",
                          EventCell(q[i].event) = c, i < 4
                   PROVE  EventValue(q[i].event) = cell'[c]
        BY DEF SendsCell
      <4>1. i + 1 \in 1 .. Len(p) /\ q[i] = p[i + 1]
        BY <1>1, <2>1
      <4>2. c # "none"
        BY DEF Shared
      <4>3. i + 1 < 4
        BY <1>1, <2>4, <4>1, <4>2 DEF UiShape
      <4>4. EventValue(q[i].event) = cell[c]
        BY <4>1, <4>3 DEF SendsCell
      <4> QED
        BY <3>1, <3>2, <4>4
    <3>4. CASE s.op # "send"
      <4>1. events' = events
        BY <3>4 DEF Executes
      <4>2. \A c \in {"list", "video"} \cup Shared :
              (Sent(c)' <=> Sent(c)) /\ (SentCell(c)' <=> SentCell(c))
        BY <3>1, <3>2, <4>1, EventsKept
      <4>3. ListRight' /\ VideoRight' /\ Connected'
        BY <1>2, <1>3, <2>2, <3>1, <3>2, <3>4, <4>2
        DEF Right, ListRight, VideoRight, Connected
      <4>4. ASSUME NEW c \in Shared, c \notin crossed'
            PROVE  UncrossedRight(c)'
        BY <1>2, <1>3, <2>2, <3>1, <3>2, <3>3, <3>4, <4>2, <4>4
        DEF Right, UncrossedRight
      <4> QED
        BY <4>3, <4>4 DEF Right
    <3>5. CASE s.op = "send"
      <4> DEFINE e == s.event
      <4>1. /\ events \in Seq(Event) /\ e \in Event /\ events' = Append(events, e)
        BY <1>1, <3>5, OpFields DEF Executes, Typed
      <4> HIDE DEF e
      <4>2. /\ Len(events) \in Nat /\ Len(events') = Len(events) + 1
            /\ \A i \in 1 .. Len(events) : events'[i] = events[i]
            /\ events'[Len(events) + 1] = e
        BY <4>1
      <4>3. \A j \in 1 .. Len(p) : p[j].op = "send" => j = 1
        BY <1>1, <3>5 DEF UiShape
      <4>4. \A c : ~ Sending(c)' /\ (Sending(c) <=> c = EventCell(e))
        BY <1>1, <2>1, <3>5, <4>3 DEF Sending, e
      <4>5. \A c : Sent(c)' <=> Sent(c) \/ c = EventCell(e)
        BY <4>2 DEF Sent
      <4>6. \A c \in Shared : c = EventCell(e) /\ SendsCell(c)
              => EventValue(e) = cell[c]
        BY <1>1, <3>5 DEF SendsCell, e
      <4>7. EventCell(e) # "list"
        BY <4>1, EventCells
      <4>8. ListRight' /\ VideoRight' /\ Connected'
        <5>1. ListRight'
          BY <1>3, <3>1, <3>2, <4>4, <4>5, <4>7 DEF Right, ListRight
        <5>2. VideoRight'
          BY <1>3, <3>1, <3>2, <4>4, <4>5 DEF Right, VideoRight
        <5> QED
          BY <1>2, <5>1, <5>2 DEF Right, Connected
      <4>9. ASSUME NEW c \in Shared, c \notin crossed'
            PROVE  UncrossedRight(c)'
        <5>1. UncrossedRight(c) /\ cell'[c] = cell[c]
          BY <1>2, <3>1, <3>2, <4>9 DEF Right
        <5>2. SendsCell(c)'
          BY <3>3, <5>1 DEF UncrossedRight
        <5>3. SentCell(c)'
          <6> SUFFICES ASSUME NEW i \in 1 .. Len(events'), Last(i, c)'
                       PROVE  EventValue(events'[i]) = cell[c]
            BY <5>1 DEF SentCell
          <6>1. CASE i = Len(events) + 1
            <7>1. EventCell(e) = c
              BY <4>2, <6>1 DEF Last
            <7> QED
              BY <4>2, <4>6, <5>1, <6>1, <7>1 DEF UncrossedRight
          <6>2. CASE i # Len(events) + 1
            <7>1. i \in 1 .. Len(events) /\ events'[i] = events[i]
              BY <4>2, <6>2
            <7>2. EventCell(e) # c
              BY <4>2, <7>1 DEF Last
            <7>3. Last(i, c)
              BY <4>2, <7>1 DEF Last
            <7> QED
              BY <4>4, <5>1, <7>1, <7>2, <7>3 DEF UncrossedRight, SentCell
          <6> QED
            BY <6>1, <6>2
        <5> QED
          BY <1>3, <4>4, <4>5, <5>1, <5>2, <5>3 DEF UncrossedRight
      <4> QED
        BY <4>8, <4>9 DEF Right
    <3> QED
      BY <3>4, <3>5
  <2> QED
    BY <2>3, <2>4
<1> QED
  BY <1>4, <1>5

----------------------------------------------------------------------------
(* The invariant *)

LEMMA InitIInv == Init => IInv
<1> SUFFICES ASSUME Init PROVE IInv
  OBVIOUS
<1> USE DeskAssumption
<1>1. /\ prog["ui"] = <<>> /\ prog["core"] = <<>> /\ prog \in [Threads -> Seq(Op)]
      /\ events = <<>> /\ events \in Seq(Event)
  BY DEF Init, Threads
<1>2. /\ cell["running"] = TRUE /\ cell["playlist"] = None /\ cell["list"] = None
      /\ cell["user"] = [name |-> Config.name, ready |-> FALSE]
      /\ cell["video"] = None
      /\ cell["messages"] = [buffer |-> [i \in 0 .. Capacity - 1 |-> 0],
                             head |-> 0, len |-> 0]
      /\ DOMAIN cell = Cells /\ cell = [c \in Cells |-> cell[c]] /\ screen = cell
  BY DEF Init, Cells
<1>3. /\ Config.name \in Names /\ Config.relay \in Relays /\ Config.room \in Rooms
  OBVIOUS
<1>4. cell["messages"] \in Ring
  BY <1>2 DEF Ring
<1>5. \A c \in Cells : cell[c] \in CellType(c)
  <2>1. cell["user"] \in Status
    BY <1>2, <1>3 DEF Status
  <2> QED
    BY <1>2, <1>4, <2>1 DEF Cells, CellType
<1>6. core \in CoreState
  BY <1>3 DEF Init, CoreState, Endpoint
<1>7. Typed
  <2>1. /\ changed = {} /\ permit = FALSE /\ inbox = 0 /\ said = 0 /\ crossed = {}
        /\ acts = 0 /\ front \in {"terminal", "graphical"}
    BY DEF Init
  <2>2. \A i \in DOMAIN events : events[i] \in Event
    BY <1>1
  <2>3. said \in 0 .. 2 * MaxActs /\ acts \in 0 .. MaxActs
    BY <2>1
  <2>4. TypeOK
    BY <1>2, <1>5, <1>6, <2>1, <2>2, <2>3 DEF TypeOK
  <2> QED
    BY <1>1, <1>2, <2>4 DEF Typed
<1>8. Shapes
  BY <1>1, NothingProgram DEF Shapes, UiShape, Ordered, CoreProgram
<1>9. InboxUsed /\ Budget
  <2>1. Count(<<>>, "push") = 0 /\ Count(<<>>, "send") = 0
    BY CountEmpty
  <2> QED
    BY <1>1, <2>1 DEF Init, InboxUsed, Budget
<1>10. RingKept(cell["messages"], said)
  BY <1>2 DEF Init, RingKept, Kept
<1>11. AllCovered
  BY <1>2 DEF AllCovered, Covered
<1>12. Right
  <2>1. \A c : ~ CoreStores(c) /\ ~ Sending(c) /\ ~ Sent(c)
    BY <1>1 DEF CoreStores, Sending, Sent
  <2>2. \A c : StoresRight(c) /\ SendsCell(c) /\ SentCell(c)
    BY <1>1, <2>1 DEF StoresRight, SendsCell, SentCell
  <2>3. \A c \in {"list", "video", "playlist", "user"} : cell[c] = CoreValue(c)
    BY <1>2 DEF Init, CoreValue
  <2>4. Connected
    BY DEF Init, Connected
  <2> QED
    BY <2>1, <2>2, <2>3, <2>4
    DEF Right, ListRight, VideoRight, Shared, UncrossedRight
<1> QED
  BY <1>7, <1>8, <1>9, <1>10, <1>11, <1>12 DEF IInv

LEMMA MessagesStay ==
    ASSUME RingKept(cell["messages"], said), UNCHANGED <<cell, said>>
    PROVE  RingKept(cell["messages"], said)'
  BY DEF RingKept

LEMMA UserIInv == ASSUME IInv, User PROVE IInv'
<1>1. PICK q, e : UserStep(q, e)
  BY UserActs DEF IInv
<1>2. Typed' /\ Shapes' /\ InboxUsed' /\ Budget' /\ Right'
  BY <1>1, TypedUser, ShapesUser, RightUser DEF IInv
<1>3. AllCovered'
  BY <1>1, CoveredBegin DEF IInv, UserStep, Threads
<1>4. RingKept(cell["messages"], said)'
  BY <1>1, MessagesStay DEF IInv, UserStep
<1> QED
  BY <1>2, <1>3, <1>4 DEF IInv

LEMMA ReceiveIInv == ASSUME IInv, Receive PROVE IInv'
<1>1. PICK p : ReceiveStep(p)
  BY ReceiveActs DEF IInv
<1>2. Typed' /\ Shapes' /\ InboxUsed' /\ Budget' /\ Right'
  BY <1>1, TypedReceive, ShapesReceive, RightReceive DEF IInv
<1>3. AllCovered'
  BY <1>1, CoveredBegin DEF IInv, ReceiveStep, CoreStep, Threads
<1>4. RingKept(cell["messages"], said)'
  BY <1>1, MessagesStay DEF IInv, ReceiveStep, CoreStep
<1> QED
  BY <1>2, <1>3, <1>4 DEF IInv

LEMMA HandleIInv == ASSUME IInv, HandleUi PROVE IInv'
<1>1. PICK e, p : HandleStep(e, p)
  BY HandleActs DEF IInv
<1>2. Typed' /\ Shapes' /\ InboxUsed' /\ Budget' /\ Right'
  BY <1>1, TypedHandle, ShapesHandle, RightHandle DEF IInv
<1>3. AllCovered'
  BY <1>1, CoveredBegin DEF IInv, HandleStep, CoreStep, Threads
<1>4. RingKept(cell["messages"], said)'
  BY <1>1, MessagesStay DEF IInv, HandleStep, CoreStep
<1> QED
  BY <1>2, <1>3, <1>4 DEF IInv

LEMMA RoundIInv ==
    ASSUME IInv, RoundStep, permit' \in BOOLEAN, inbox' \in Nat, InboxUsed'
    PROVE  IInv'
<1>1. Typed' /\ Shapes' /\ Budget' /\ AllCovered' /\ Right'
  BY TypedRound, ShapesRound, CoveredRound, RightRound DEF IInv
<1>2. RingKept(cell["messages"], said)'
  BY MessagesStay DEF IInv, RoundStep
<1> QED
  BY <1>1, <1>2 DEF IInv

LEMMA NotifiedIInv == ASSUME IInv, Notified PROVE IInv'
<1>0. inbox \in Nat /\ InboxUsed
  BY DEF IInv, Typed, TypeOK
<1>1. CASE /\ front = "terminal" /\ UiIdle
           /\ prog' = [prog EXCEPT !["ui"] = Round]
           /\ UNCHANGED inbox
  <2>1. RoundStep /\ permit' = FALSE /\ inbox' = inbox /\ front' = front
    BY <1>1 DEF Notified, RoundStep, UiIdle
  <2> QED
    BY <1>0, <2>1, RoundIInv DEF InboxUsed
<1>2. CASE /\ front = "graphical"
           /\ inbox' = inbox + 1
           /\ UNCHANGED prog
  <2>1. UNCHANGED <<cell, changed, front, screen, prog, events, core, said,
                    crossed, acts>> /\ permit' = FALSE
    BY <1>2 DEF Notified
  <2>2. AllCovered'
    BY <1>2, <2>1, CoveredNotified DEF IInv
  <2>3. Typed'
    <3>0. TypeOK /\ inbox' \in Nat
      BY <1>0, <1>2 DEF IInv, Typed
    <3>1. TypeOK /\ inbox' \in Nat /\ permit' \in BOOLEAN
      BY <2>1, <3>0
    <3>2. /\ cell' = cell /\ screen' = screen /\ changed' = changed
          /\ front' = front /\ events' = events /\ core' = core
          /\ crossed' = crossed /\ said' = said /\ acts' = acts
      BY <2>1
    <3>3. /\ \A c \in Cells : cell'[c] \in CellType(c) /\ screen'[c] \in CellType(c)
          /\ DOMAIN cell' = Cells /\ DOMAIN screen' = Cells
      BY <3>1, <3>2 DEF TypeOK
    <3>4. TypeOK'
      BY <3>1, <3>2, <3>3 DEF TypeOK
    <3> QED
      BY <2>1, <3>4 DEF IInv, Typed
  <2>4. Shapes' /\ Budget' /\ InboxUsed'
    BY <1>2, <2>1 DEF IInv, Shapes, Budget, InboxUsed
  <2>5. RingKept(cell["messages"], said)'
    BY <2>1, MessagesStay DEF IInv
  <2>6. Right'
    <3>1. \A c : /\ CoreStores(c)' <=> CoreStores(c)
                 /\ CoreValue(c)' = CoreValue(c)
                 /\ StoresRight(c)' <=> StoresRight(c)
                 /\ Sending(c)' <=> Sending(c)
                 /\ SendsCell(c)' <=> SendsCell(c)
                 /\ Sent(c)' <=> Sent(c)
                 /\ SentCell(c)' <=> SentCell(c)
      BY <2>1, CoreKept, UiKept, EventsKept
    <3> QED
      BY <2>1, <3>1
      DEF IInv, Right, ListRight, VideoRight, Connected, UncrossedRight
  <2> QED
    BY <2>2, <2>3, <2>4, <2>5, <2>6 DEF IInv
<1> QED
  BY <1>1, <1>2 DEF Notified

LEMMA ModelChangedIInv == ASSUME IInv, ModelChanged PROVE IInv'
<1>1. /\ RoundStep /\ permit' = permit /\ inbox' = inbox - 1 /\ inbox > 0
      /\ inbox \in Nat /\ permit \in BOOLEAN /\ front' = front
  BY DEF IInv, Typed, TypeOK, ModelChanged, RoundStep, UiIdle
<1> QED
  BY <1>1, RoundIInv DEF IInv, InboxUsed

LEMMA StepIInv == ASSUME IInv, NEW t \in Threads, Step(t) PROVE IInv'
<1> DEFINE s == prog[t][1]
<1>1. Executes(t, s)
  BY StepExecutes DEF IInv
<1> HIDE DEF s
<1>2. Typed' /\ RingKept(cell["messages"], said)' /\ Shapes' /\ InboxUsed' /\ Budget'
  BY <1>1, TypedStep, ShapesStep DEF IInv
<1>3. AllCovered'
  BY <1>1, CoveredStep DEF IInv
<1>4. Right'
  BY <1>1, RightCoreStep, RightUiStep DEF IInv, Threads
<1> QED
  BY <1>2, <1>3, <1>4 DEF IInv

LEMMA StutterIInv == ASSUME IInv, UNCHANGED deskVars PROVE IInv'
<1> USE DEF deskVars
<1>1. Typed' /\ Shapes' /\ InboxUsed' /\ Budget'
  BY DEF IInv, Typed, TypeOK, CellType, Ring, Shapes, InboxUsed, Budget
<1>2. RingKept(cell["messages"], said)'
  BY MessagesStay DEF IInv
<1>3. AllCovered'
  BY DEF IInv, AllCovered, Covered, Called, Doing, Has
<1>4. Right'
  <2>1. \A c : /\ CoreStores(c)' <=> CoreStores(c)
               /\ CoreValue(c)' = CoreValue(c)
               /\ StoresRight(c)' <=> StoresRight(c)
               /\ Sending(c)' <=> Sending(c)
               /\ SendsCell(c)' <=> SendsCell(c)
               /\ Sent(c)' <=> Sent(c)
               /\ SentCell(c)' <=> SentCell(c)
    BY CoreKept, UiKept, EventsKept
  <2> QED
    BY <2>1 DEF IInv, Right, ListRight, VideoRight, Connected, UncrossedRight
<1> QED
  BY <1>1, <1>2, <1>3, <1>4 DEF IInv

\* The invariant holds at the start and is kept by every step of either thread.
THEOREM Invariance == Spec => []IInv
<1>1. IInv /\ [Next]_deskVars => IInv'
  BY UserIInv, NotifiedIInv, ModelChangedIInv, HandleIInv, ReceiveIInv, StepIInv,
     StutterIInv
  DEF Next, Threads
<1> QED
  BY InitIInv, <1>1, PTL DEF Spec

----------------------------------------------------------------------------
(* What follows *)

\* Cells, screen, events and the core's state have their types, and no more is
\* said than acts allow.
THEOREM TypeCorrect == Spec => []TypeOK
<1>1. IInv => TypeOK
  BY DEF IInv, Typed
<1> QED
  BY <1>1, Invariance, PTL

\* The chat shows the last messages in the order in which the two threads put
\* them in, for every capacity and however often the buffer wraps
\* (ring_buffer.rs:36).
THEOREM MessagesStayKept == Spec => []MessagesKept
<1>1. ASSUME IInv PROVE MessagesKept
  <2> DEFINE r == cell["messages"]
             n == Kept(said)
  <2>1. RingKept(r, said)
    BY <1>1 DEF IInv
  <2>2. RingIter(r) = [i \in 1 .. r.len |-> r.buffer[(r.head + i - 1) % Capacity]]
    BY DEF RingIter
  <2>3. r.len = n /\ \A i \in 1 .. n : r.buffer[(r.head + i - 1) % Capacity] = said - n + i
    BY <2>1 DEF RingKept
  <2> HIDE DEF r, n
  <2>4. RingIter(r) = [i \in 1 .. n |-> said - n + i]
    BY <2>2, <2>3
  <2>5. cell.messages = r
    BY DEF r
  <2> QED
    BY <2>4, <2>5 DEF MessagesKept, n, Kept
<1> QED
  BY <1>1, Invariance, PTL

\* When both threads have nothing left to do the interface shows what is in the
\* cells: no set falls into a round in such a way that its change is missed,
\* though there is one notification for all cells (observed.rs:27).
THEOREM ChangesShown == Spec => []Shown
<1>1. ASSUME IInv, Quiet PROVE screen = cell
  <2>1. /\ prog["ui"] = <<>> /\ prog["core"] = <<>> /\ ~ permit /\ ~ (inbox > 0)
    BY <1>1 DEF Quiet
  <2>2. ~ Called /\ \A t \in Threads : \A s : ~ Doing(t, s)
    BY <2>1 DEF Called, Doing, Has, Threads
  <2>3. \A c \in Cells : screen[c] = cell[c]
    BY <1>1, <2>2 DEF IInv, AllCovered, Covered, Threads
  <2>4. cell = [c \in Cells |-> cell[c]] /\ screen = [c \in Cells |-> screen[c]]
    BY <1>1 DEF IInv, Typed
  <2> QED
    BY <2>3, <2>4
<1>2. IInv => Shown
  BY <1>1 DEF Shown
<1> QED
  BY <1>2, Invariance, PTL

\* When nothing is under way the cells hold what the core has, the selection
\* always, playlist and user unless both sides changed them at once; and the
\* core is connected, if at all, to its own relay and room (ui.rs:113, 141).
THEOREM CoreInStep == Spec => []InStep
<1>1. ASSUME IInv, Quiet
      PROVE  /\ cell.video = core.video /\ cell.list = core.list
             /\ "playlist" \notin crossed => cell.playlist = core.playlist
             /\ "user" \notin crossed =>
                  cell.user = [name |-> core.name, ready |-> core.ready]
  <2>1. prog["ui"] = <<>> /\ prog["core"] = <<>> /\ events = <<>>
    BY <1>1 DEF Quiet
  <2>2. \A c : ~ CoreStores(c) /\ ~ Sending(c) /\ ~ Sent(c)
    BY <2>1 DEF CoreStores, Sending, Sent
  <2>3. /\ cell["video"] = CoreValue("video") /\ cell["list"] = CoreValue("list")
        /\ \A c \in Shared : c \notin crossed => cell[c] = CoreValue(c)
    BY <1>1, <2>2 DEF IInv, Right, ListRight, VideoRight, UncrossedRight
  <2> QED
    BY <2>3 DEF CoreValue, Shared
<1>2. IInv => Connected
  BY DEF IInv, Right
<1>3. IInv => InStep
  BY <1>1, <1>2 DEF InStep, Connected
<1> QED
  BY <1>3, Invariance, PTL

=============================================================================
