---------------------------- MODULE PlaylistProofs ---------------------------
(***************************************************************************)
(* Proofs about the playlist: how it gets around in a room, and what the   *)
(* two user interfaces make of it; for any videos and playlists, any       *)
(* number of clients, and any bounds.                                      *)
(*                                                                         *)
(* The operations on playlists are folds.  A fold is an expression with a  *)
(* CHOOSE in it, of a function on sets of positions that is defined by     *)
(* means of itself; that there is one is lemma FoldExists.  From it follow *)
(* the steps of each fold (KeptSteps and so on), and from those, by        *)
(* induction over positions (Reaches), what it comes up with.              *)
(*                                                                         *)
(* The room.  That a client converges is not inductive: it speaks of the   *)
(* case that nothing is on its way.  The invariant says what is on its way *)
(* when something is (Heard): the last playlist in the broadcasts of the   *)
(* host is the session's; if there is none then that of the welcome is; if *)
(* there is neither, a request is under way or the client has it already.  *)
(* A welcome that crosses a broadcast is the reason for `missed'.  Where   *)
(* the selection goes follows from a count along the old playlist of what  *)
(* remains of it (Counts), which the loop of select_next keeps (ScanEnds). *)
(*                                                                         *)
(* The interfaces.  That the selection fits the playlist needs that the    *)
(* terminal's widget counts no fewer videos than it shows and, while the   *)
(* selection was made for this list, no more than the playlist has         *)
(* (ListOK, Fits).  That a video lands where the line was needs what the   *)
(* messages that wait were made from (Drop).                               *)
(***************************************************************************)
EXTENDS RoomState, Screens,
        FiniteSetTheorems, SequenceTheorems, WellFoundedInduction, TLAPS

-----------------------------------------------------------------------------
(* Induction over numbers, and what a fold is.                             *)

Less == {ss \in Nat \X Nat : ss[1] < ss[2]}

\* A set of numbers that is not empty has a least one.
LEMMA HasLeast ==
  ASSUME NEW S \in SUBSET Nat, S # {}
  PROVE  \E x \in S : \A y \in S : x <= y
<1>1. IsWellFoundedOn(Less, Nat)
  BY NatLessThanWellFounded DEF OpToRel, Less
<1>2. PICK x \in S : \A y \in S : ~ (<<y, x>> \in Less)
  BY <1>1, WFMin
<1>3. \A y \in S : <<y, x>> \in Less <=> y < x
  <2>1. \A y \in S : <<y, x>> \in Nat \X Nat
    OBVIOUS
  <2>2. \A y \in S : <<y, x>>[1] = y /\ <<y, x>>[2] = x
    OBVIOUS
  <2> QED
    BY <2>1, <2>2 DEF Less
<1>4. \A y \in S : ~ (y < x)
  BY <1>2, <1>3, Zenon
<1> QED
  BY <1>4

LEMMA LeastNumber ==
  ASSUME NEW S \in SUBSET Nat, S # {}
  PROVE  Min(S) \in S
<1>1. \E x \in S : \A y \in S : x =< y
  BY HasLeast
<1> QED
  BY <1>1, Zenon DEF Min

\* Induction, as a fact about sets.
LEMMA Reaches ==
  ASSUME NEW n \in Nat, NEW S, 0 \in S, \A k \in 1 .. n : k - 1 \in S => k \in S
  PROVE  \A k \in 0 .. n : k \in S
<1> SUFFICES ASSUME NEW m \in 0 .. n, m \notin S
             PROVE  FALSE
  OBVIOUS
<1> DEFINE T == {k \in 0 .. n : k \notin S}
<1>1. PICK x \in T : \A y \in T : x <= y
  <2>1. T \in SUBSET Nat /\ T # {}
    OBVIOUS
  <2> QED
    BY <2>1, HasLeast
<1>2. x - 1 \in S
  BY <1>1
<1> QED
  BY <1>1, <1>2

LEMMA ReachesDown ==
  ASSUME NEW n \in Nat, NEW S, n \in S,
         \A k \in 0 .. (n - 1) : k + 1 \in S => k \in S
  PROVE  \A k \in 0 .. n : k \in S
<1> DEFINE T == {k \in 0 .. n : n - k \in S}
<1>1. 0 \in T
  OBVIOUS
<1>2. ASSUME NEW k \in 1 .. n, k - 1 \in T
      PROVE  k \in T
  <2>1. n - k \in 0 .. (n - 1) /\ (n - k) + 1 = n - (k - 1)
    OBVIOUS
  <2> QED
    BY <1>2, <2>1
<1> HIDE DEF T
<1>3. \A k \in 0 .. n : k \in T
  BY <1>1, <1>2, Reaches
<1> QED
  <2>1. ASSUME NEW k \in 0 .. n
        PROVE  k \in S
    <3>1. n - k \in 0 .. n /\ n - (n - k) = k
      OBVIOUS
    <3>2. n - k \in T
      BY <1>3, <3>1
    <3> QED
      BY <3>1, <3>2 DEF T
  <2> QED
    BY <2>1

LEMMA Extremes ==
  ASSUME NEW n \in Nat, NEW s \in SUBSET (1 .. n), s # {}
  PROVE  Min(s) \in s /\ Max(s) \in s
<1>1. \E x \in s : \A y \in s : x <= y
  BY HasLeast
<1>2. \E x \in s : \A y \in s : x >= y
  <2> DEFINE U == {k \in Nat : \A y \in s : y <= k}
  <2>1. PICK m \in U : \A k \in U : m <= k
    <3>1. n \in U
      OBVIOUS
    <3> QED
      BY <3>1, HasLeast
  <2>2. m \in s
    <3> SUFFICES ASSUME m \notin s
                 PROVE  FALSE
      OBVIOUS
    <3>1. PICK y \in s : TRUE
      OBVIOUS
    <3>2. y \in 1 .. n /\ y <= m /\ m \in Nat
      BY <2>1
    <3>3. \A z \in s : z \in Nat /\ z <= m /\ z # m
      BY <2>1
    <3>4. m - 1 \in U
      BY <3>2, <3>3
    <3>5. ~ (m <= m - 1)
      BY <3>2
    <3> QED
      BY <2>1, <3>4, <3>5
  <2> QED
    BY <2>1, <2>2
<1>3. Min(s) \in s
  BY <1>1, Zenon DEF Min
<1>4. Max(s) \in s
  BY <1>2, Zenon DEF Max
<1> QED
  BY <1>3, <1>4

LEMMA EndsOfInterval ==
  ASSUME NEW k \in Nat, NEW m \in Nat, m <= k
  PROVE  Min(m .. k) = m /\ Max(m .. k) = k
<1>1. \A x \in m .. k : (\A y \in m .. k : x <= y) => x = m
  OBVIOUS
<1>2. \A x \in m .. k : (\A y \in m .. k : x >= y) => x = k
  OBVIOUS
<1>3. m \in m .. k /\ \A y \in m .. k : m <= y
  OBVIOUS
<1>4. k \in m .. k /\ \A y \in m .. k : k >= y
  OBVIOUS
<1>5. Min(m .. k) = m
  BY <1>1, <1>3, Zenon DEF Min
<1>6. Max(m .. k) = k
  BY <1>2, <1>4, Zenon DEF Max
<1> QED
  BY <1>5, <1>6

\* What takes an element away from a set, does something that depends on it and
\* on what it made of the rest, and begins with the empty set, is a function.
\* pick: which element; does[x][a]: what it makes with x of a.
IsFold(g, A, S, pick, does, base) ==
    /\ g \in [SUBSET S -> A]
    /\ \A s \in SUBSET S :
         g[s] = IF s = {} THEN base ELSE does[pick[s]][g[s \ {pick[s]}]]

LEMMA FoldExists ==
  ASSUME NEW A, NEW S, IsFiniteSet(S), NEW pick,
         \A s \in SUBSET S : s # {} => pick[s] \in s,
         NEW does \in [S -> [A -> A]], NEW base \in A
  PROVE  \E g : IsFold(g, A, S, pick, does, base)
<1> DEFINE Good(g, s) ==
             g[s] = IF s = {} THEN base ELSE does[pick[s]][g[s \ {pick[s]}]]
           Small(g, m) == \A s \in SUBSET S : Cardinality(s) <= m => Good(g, s)
           T == {m \in Nat : \E g \in [SUBSET S -> A] : Small(g, m)}
<1>1. ASSUME NEW g \in [SUBSET S -> A], NEW s \in SUBSET S
      PROVE  (IF s = {} THEN base ELSE does[pick[s]][g[s \ {pick[s]}]]) \in A
  <2>1. CASE s = {}
    BY <2>1
  <2>2. CASE s # {}
    <3>1. pick[s] \in S /\ s \ {pick[s]} \in SUBSET S
      BY <2>2
    <3>2. does[pick[s]] \in [A -> A] /\ g[s \ {pick[s]}] \in A
      BY <3>1
    <3>3. does[pick[s]][g[s \ {pick[s]}]] \in A
      BY <3>2
    <3> QED
      BY <2>2, <3>3
  <2> QED
    BY <2>1, <2>2
<1>2. 0 \in T
  <2> DEFINE g == [s \in SUBSET S |-> base]
  <2>1. g \in [SUBSET S -> A]
    OBVIOUS
  <2>2. ASSUME NEW s \in SUBSET S, Cardinality(s) <= 0
        PROVE  Good(g, s)
    <3>1. IsFiniteSet(s) /\ Cardinality(s) \in Nat
      BY FS_Subset, FS_CardinalityType
    <3>2. s = {}
      BY <2>2, <3>1, FS_EmptySet
    <3> QED
      BY <3>2
  <2> QED
    BY <2>1, <2>2
<1>3. ASSUME NEW m \in Nat, m \in T
      PROVE  m + 1 \in T
  <2>1. PICK g \in [SUBSET S -> A] : Small(g, m)
    BY <1>3
  <2> DEFINE h == [s \in SUBSET S |->
                     IF s = {} THEN base ELSE does[pick[s]][g[s \ {pick[s]}]]]
  <2>2. h \in [SUBSET S -> A]
    BY <1>1
  <2>3. ASSUME NEW s \in SUBSET S, Cardinality(s) <= m + 1
        PROVE  Good(h, s)
    <3>1. CASE s = {}
      BY <3>1
    <3>2. CASE s # {}
      <4> DEFINE t == s \ {pick[s]}
      <4>1. IsFiniteSet(s) /\ Cardinality(s) \in Nat /\ pick[s] \in s /\ t \in SUBSET S
        BY <3>2, FS_Subset, FS_CardinalityType
      <4>2. Cardinality(t) = Cardinality(s) - 1
        <5>1. Cardinality(s \ {pick[s]}) = Cardinality(s) - 1
          <6>1. PICK x : x = pick[s]
            OBVIOUS
          <6>2. x \in s /\ IsFiniteSet(s)
            BY <4>1, <6>1
          <6>3. Cardinality(s \ {x}) = Cardinality(s) - 1
            BY <6>2, FS_RemoveElement, Zenon
          <6> QED
            BY <6>1, <6>3, Zenon
        <5> QED
          BY <5>1, Zenon
      <4>3. Cardinality(t) <= m
        BY <2>3, <4>1, <4>2
      <4>4. Good(g, t)
        BY <2>1, <4>1, <4>3
      <4>5. h[t] = g[t]
        BY <4>1, <4>4
      <4>6. h[s] = does[pick[s]][g[t]]
        BY <3>2
      <4> QED
        BY <3>2, <4>5, <4>6
    <3> QED
      BY <3>1, <3>2
  <2> HIDE DEF h
  <2>4. Small(h, m + 1)
    BY <2>3
  <2> HIDE DEF Small
  <2>5. m + 1 \in Nat
    OBVIOUS
  <2> QED
    BY <2>2, <2>4, <2>5
<1>4. Cardinality(S) \in T
  <2>1. Cardinality(S) \in Nat
    BY FS_CardinalityType
  <2> HIDE DEF T
  <2>2. \A k \in 1 .. Cardinality(S) : k - 1 \in T => k \in T
    <3>1. ASSUME NEW k \in 1 .. Cardinality(S), k - 1 \in T
          PROVE  k \in T
      <4>1. k - 1 \in Nat /\ (k - 1) + 1 = k
        BY <2>1
      <4> QED
        BY <1>3, <3>1, <4>1
    <3> QED
      BY <3>1
  <2>3. \A k \in 0 .. Cardinality(S) : k \in T
    BY <1>2, <2>1, <2>2, Reaches
  <2> QED
    BY <2>1, <2>3
<1>5. PICK g \in [SUBSET S -> A] : Small(g, Cardinality(S))
  BY <1>4
<1>6. \A s \in SUBSET S : Good(g, s)
  BY <1>5, FS_Subset
<1> QED
  BY <1>6 DEF IsFold

-----------------------------------------------------------------------------
(* What the folds of Playlists compute, step by step.                      *)

LEMMA KeptSteps ==
  ASSUME NEW p \in Seq(Videos), NEW vs
  PROVE  \E r \in [0 .. Len(p) -> Seq(Videos)] :
           /\ r[0] = <<>> /\ r[Len(p)] = Kept(p, vs)
           /\ \A k \in 1 .. Len(p) :
                r[k] = IF p[k] \in vs THEN Append(r[k - 1], p[k]) ELSE r[k - 1]
<1> DEFINE n == Len(p)
           A == Seq(Videos)
           pick == [s \in SUBSET (1 .. n) |-> Max(s)]
           does == [k \in 1 .. n |->
                      [a \in A |-> IF p[k] \in vs THEN Append(a, p[k]) ELSE a]]
           Is(f) == f = [s \in SUBSET DOMAIN p |->
                           IF s = {} THEN <<>>
                           ELSE LET x == Max(s)
                                IN IF p[x] \in vs THEN Append(f[s \ {x}], p[x])
                                   ELSE f[s \ {x}]]
           iter == CHOOSE f : Is(f)
           r == [k \in 0 .. n |-> iter[1 .. k]]
<1>1. n \in Nat /\ DOMAIN p = 1 .. n /\ <<>> \in A /\ IsFiniteSet(1 .. n)
  BY FS_Interval
<1>2. \A s \in SUBSET (1 .. n) : s # {} => pick[s] \in s
  BY <1>1, Extremes
<1>3. does \in [1 .. n -> [A -> A]]
  OBVIOUS
<1>4. Is(iter)
  <2>0. PICK g : IsFold(g, A, 1 .. n, pick, does, <<>>)
    <3> HIDE DEF pick, does, A, n
    <3> QED
      BY <1>1, <1>2, <1>3, FoldExists
  <2>1. /\ g \in [SUBSET (1 .. n) -> A]
        /\ \A s \in SUBSET (1 .. n) :
             g[s] = IF s = {} THEN <<>> ELSE does[pick[s]][g[s \ {pick[s]}]]
    <3> HIDE DEF pick, does, A, n
    <3> QED
      BY <2>0 DEF IsFold
  <2>2. ASSUME NEW s \in SUBSET (1 .. n), s # {}
        PROVE  g[s] = IF p[Max(s)] \in vs THEN Append(g[s \ {Max(s)}], p[Max(s)])
                      ELSE g[s \ {Max(s)}]
    <3>1. pick[s] = Max(s)
      OBVIOUS
    <3>2. Max(s) \in 1 .. n
      BY <1>2, <2>2, <3>1
    <3>3. g[s \ {Max(s)}] \in A
      BY <2>1
    <3>4. g[s] = does[Max(s)][g[s \ {Max(s)}]]
      BY <2>1, <2>2, <3>1
    <3> QED
      BY <3>2, <3>3, <3>4
  <2>3. Is(g)
    BY <1>1, <2>1, <2>2
  <2> QED
    BY <2>3, Zenon
<1>5. Kept(p, vs) = iter[DOMAIN p]
  BY DEF Kept, FoldLeft, MapThenFoldSet
<1> HIDE DEF iter
<1>6. r[0] = <<>> /\ r[n] = Kept(p, vs)
  <2>1. iter[{}] = <<>>
    BY <1>4
  <2>2. 1 .. 0 = {}
    OBVIOUS
  <2> QED
    BY <1>1, <1>5, <2>1, <2>2
<1>7. ASSUME NEW k \in 1 .. n
      PROVE  r[k] = IF p[k] \in vs THEN Append(r[k - 1], p[k]) ELSE r[k - 1]
  <2>1. /\ 1 .. k \in SUBSET DOMAIN p /\ 1 .. k # {} /\ Max(1 .. k) = k
        /\ (1 .. k) \ {k} = 1 .. (k - 1)
    <3>1. k \in Nat /\ 1 \in 1 .. k /\ 1 <= k
      BY <1>1
    <3>2. Max(1 .. k) = k
      BY <3>1, EndsOfInterval
    <3>3. 1 .. k \in SUBSET (1 .. n) /\ (1 .. k) \ {k} = 1 .. (k - 1)
      BY <1>1
    <3> QED
      BY <1>1, <3>1, <3>2, <3>3
  <2>2. iter[1 .. k] = IF p[k] \in vs THEN Append(iter[1 .. (k - 1)], p[k])
                       ELSE iter[1 .. (k - 1)]
    BY <1>4, <2>1
  <2> QED
    BY <1>1, <2>2
<1>8. r \in [0 .. n -> A]
  <2> DEFINE T == {k \in 0 .. n : r[k] \in A}
  <2> HIDE DEF r
  <2>1. 0 \in T
    <3> HIDE DEF n, A
    <3> QED
      BY <1>1, <1>6
  <2>2. ASSUME NEW k \in 1 .. n, k - 1 \in T
        PROVE  k \in T
    <3>1. k \in 0 .. n /\ r[k - 1] \in Seq(Videos) /\ p[k] \in Videos
      BY <1>1, <2>2
    <3>2. Append(r[k - 1], p[k]) \in Seq(Videos)
      BY <3>1
    <3>3. r[k] \in A
      BY <1>7, <3>1, <3>2
    <3> QED
      BY <3>1, <3>3
  <2>3. \A k \in 0 .. n : k \in T
    <3> HIDE DEF T
    <3> QED
      BY <1>1, <2>1, <2>2, Reaches
  <2>4. \A k \in 0 .. n : r[k] \in A
    BY <2>3
  <2> QED
    BY <2>4 DEF r
<1> QED
  BY <1>6, <1>7, <1>8

LEMMA FoundIn ==
  ASSUME NEW p \in Seq(Videos), NEW v, Contains(p, v)
  PROVE  LET I == {i \in 1 .. Len(p) : p[i] = v}
         IN /\ Find(p, v) = Min(I) - 1
            /\ Min(I) \in 1 .. Len(p) /\ p[Min(I)] = v
            /\ \A j \in 1 .. (Min(I) - 1) : p[j] # v
<1> DEFINE I == {i \in 1 .. Len(p) : p[i] = v}
<1>1. I # {} /\ I \in SUBSET (1 .. Len(p)) /\ Len(p) \in Nat
  BY DEF Contains
<1>2. Find(p, v) = Min(I) - 1
  BY <1>1 DEF Find, Position, SelectInSeq
<1>3. Min(I) \in I /\ \A y \in I : Min(I) <= y
  <2> HIDE DEF I
  <2>1. \E x \in I : \A y \in I : x <= y
    BY <1>1, HasLeast
  <2> QED
    BY <2>1, Zenon DEF Min
<1>4. ASSUME NEW j \in 1 .. (Min(I) - 1)
      PROVE  p[j] # v
  <2>1. Min(I) \in 1 .. Len(p)
    BY <1>3
  <2>2. j \in 1 .. Len(p) /\ ~ (Min(I) <= j)
    BY <1>1, <2>1
  <2> QED
    BY <1>3, <2>2
<1> QED
  BY <1>2, <1>3, <1>4

\* The operations that work at one place.
LEMMA RemovedOne ==
  ASSUME NEW p \in Seq(Videos), NEW v
  PROVE  /\ RemoveByVideo(p, v) \in Seq(Videos)
         /\ Contains(p, v) =>
              LET m == Min({i \in 1 .. Len(p) : p[i] = v})
              IN /\ RemoveByVideo(p, v) = RemoveAt(p, m)
                 /\ m \in 1 .. Len(p) /\ p[m] = v /\ \A j \in 1 .. (m - 1) : p[j] # v
         /\ ~ Contains(p, v) => RemoveByVideo(p, v) = p
<1> DEFINE m == Min({i \in 1 .. Len(p) : p[i] = v})
<1>1. CASE Contains(p, v)
  <2>1. m \in 1 .. Len(p) /\ p[m] = v /\ \A j \in 1 .. (m - 1) : p[j] # v
    BY <1>1, FoundIn
  <2>2. RemoveByVideo(p, v) = RemoveAt(p, m)
    BY <1>1, <2>1 DEF RemoveByVideo, RemoveFirst, SelectInSeq, Contains
  <2> HIDE DEF m
  <2>3. RemoveAt(p, m) \in Seq(Videos)
    BY <2>1 DEF RemoveAt
  <2> QED
    BY <1>1, <2>1, <2>2, <2>3 DEF m
<1>2. CASE ~ Contains(p, v)
  BY <1>2 DEF RemoveByVideo, RemoveFirst, Contains
<1> QED
  BY <1>1, <1>2

LEMMA RemovedAt ==
  ASSUME NEW p \in Seq(Videos), NEW m \in 1 .. Len(p),
         \A i \in 1 .. Len(p) : p[i] = p[m] => i = m
  PROVE  RemoveByVideo(p, p[m]) = RemoveAt(p, m)
<1> DEFINE v == p[m]
           k == Min({i \in 1 .. Len(p) : p[i] = v})
<1>1. Contains(p, v)
  BY DEF Contains
<1> HIDE DEF v
<1>2. k \in 1 .. Len(p) /\ p[k] = v
  BY <1>1, FoundIn
<1>3. RemoveByVideo(p, v) = RemoveAt(p, k)
  BY <1>1, <1>2 DEF RemoveByVideo, RemoveFirst, SelectInSeq, Contains
<1> HIDE DEF k
<1>4. k = m
  BY <1>2 DEF v
<1> QED
  BY <1>3, <1>4 DEF v

LEMMA InsertedOne ==
  ASSUME NEW p \in Seq(Videos), NEW v \in Videos, NEW i \in 0 .. Len(p)
  PROVE  /\ InsertAt(p, i + 1, v) \in Seq(Videos)
         /\ Len(InsertAt(p, i + 1, v)) = Len(p) + 1
         /\ Insert(p, i, v) \in Seq(Videos) /\ Len(Insert(p, i, v)) >= Len(p)
<1> DEFINE front == SubSeq(p, 1, i)
           back == SubSeq(p, i + 1, Len(p))
<1>1. Len(p) \in Nat /\ i \in Nat /\ i <= Len(p)
  OBVIOUS
<1>2. /\ front \in Seq(Videos) /\ Len(front) = i
      /\ back \in Seq(Videos) /\ Len(back) = Len(p) - i
      /\ <<v>> \in Seq(Videos) /\ Len(<<v>>) = 1
  BY <1>1
<1>3. InsertAt(p, i + 1, v) = front \o <<v>> \o back
  <2>1. (i + 1) - 1 = i
    BY <1>1
  <2>2. InsertAt(p, i + 1, v) = SubSeq(p, 1, (i + 1) - 1) \o <<v>> \o SubSeq(p, i + 1, Len(p))
    BY Zenon DEF InsertAt
  <2> QED
    BY <2>1, <2>2, Zenon
<1> HIDE DEF front, back
<1>4. front \o <<v>> \in Seq(Videos) /\ Len(front \o <<v>>) = i + 1
  BY <1>1, <1>2
<1>5. /\ (front \o <<v>>) \o back \in Seq(Videos)
      /\ Len((front \o <<v>>) \o back) = (i + 1) + (Len(p) - i)
  BY <1>1, <1>2, <1>4
<1>6. /\ InsertAt(p, i + 1, v) \in Seq(Videos)
      /\ Len(InsertAt(p, i + 1, v)) = Len(p) + 1
  <2>1. (i + 1) + (Len(p) - i) = Len(p) + 1
    BY <1>1
  <2> QED
    BY <1>3, <1>5, <2>1
<1>7. Insert(p, i, v) = p \/ Insert(p, i, v) = InsertAt(p, i + 1, v)
  BY DEF Insert
<1> QED
  BY <1>1, <1>6, <1>7

LEMMA RemoveAllSteps ==
  ASSUME NEW p \in Seq(Videos), NEW vs \in Seq(Videos)
  PROVE  \E r \in [0 .. Len(vs) -> Seq(Videos)] :
           /\ r[0] = p /\ r[Len(vs)] = RemoveAll(p, vs)
           /\ \A k \in 1 .. Len(vs) : r[k] = RemoveByVideo(r[k - 1], vs[k])
<1> DEFINE n == Len(vs)
           A == Seq(Videos)
           pick == [s \in SUBSET (1 .. n) |-> Max(s)]
           does == [k \in 1 .. n |->
                      [a \in A |-> RemoveByVideo(a, vs[k])]]
           Is(f) == f = [s \in SUBSET DOMAIN vs |->
                           IF s = {} THEN p
                           ELSE LET x == Max(s)
                                IN RemoveByVideo(f[s \ {x}], vs[x])]
           iter == CHOOSE f : Is(f)
           r == [k \in 0 .. n |-> iter[1 .. k]]
<1>1. n \in Nat /\ DOMAIN vs = 1 .. n /\ p \in A /\ IsFiniteSet(1 .. n)
  BY FS_Interval
<1>2. \A s \in SUBSET (1 .. n) : s # {} => pick[s] \in s
  BY <1>1, Extremes
<1>3. does \in [1 .. n -> [A -> A]]
  BY RemovedOne
<1>4. Is(iter)
  <2>0. PICK g : IsFold(g, A, 1 .. n, pick, does, p)
    <3> HIDE DEF pick, does, A, n
    <3> QED
      BY <1>1, <1>2, <1>3, FoldExists
  <2>1. /\ g \in [SUBSET (1 .. n) -> A]
        /\ \A s \in SUBSET (1 .. n) :
             g[s] = IF s = {} THEN p ELSE does[pick[s]][g[s \ {pick[s]}]]
    <3> HIDE DEF pick, does, A, n
    <3> QED
      BY <2>0 DEF IsFold
  <2>2. ASSUME NEW s \in SUBSET (1 .. n), s # {}
        PROVE  g[s] = RemoveByVideo(g[s \ {Max(s)}], vs[Max(s)])
    <3>1. pick[s] = Max(s)
      OBVIOUS
    <3>2. Max(s) \in 1 .. n
      BY <1>2, <2>2, <3>1
    <3>3. g[s \ {Max(s)}] \in A
      BY <2>1
    <3>4. g[s] = does[Max(s)][g[s \ {Max(s)}]]
      BY <2>1, <2>2, <3>1
    <3> QED
      BY <3>2, <3>3, <3>4
  <2>3. Is(g)
    BY <1>1, <2>1, <2>2
  <2> QED
    BY <2>3, Zenon
<1>5. RemoveAll(p, vs) = iter[DOMAIN vs]
  BY DEF RemoveAll, FoldLeft, MapThenFoldSet
<1> HIDE DEF iter
<1>6. r[0] = p /\ r[n] = RemoveAll(p, vs)
  <2>1. iter[{}] = p
    BY <1>4
  <2>2. 1 .. 0 = {}
    OBVIOUS
  <2> QED
    BY <1>1, <1>5, <2>1, <2>2
<1>7. ASSUME NEW k \in 1 .. n
      PROVE  r[k] = RemoveByVideo(r[k - 1], vs[k])
  <2>1. /\ 1 .. k \in SUBSET DOMAIN vs /\ 1 .. k # {} /\ Max(1 .. k) = k
        /\ (1 .. k) \ {k} = 1 .. (k - 1)
    <3>1. k \in Nat /\ 1 \in 1 .. k /\ 1 <= k
      BY <1>1
    <3>2. Max(1 .. k) = k
      BY <3>1, EndsOfInterval
    <3>3. 1 .. k \in SUBSET (1 .. n) /\ (1 .. k) \ {k} = 1 .. (k - 1)
      BY <1>1
    <3> QED
      BY <1>1, <3>1, <3>2, <3>3
  <2>2. iter[1 .. k] = RemoveByVideo(iter[1 .. (k - 1)], vs[k])
    BY <1>4, <2>1
  <2> QED
    BY <1>1, <2>2
<1>8. r \in [0 .. n -> A]
  <2> DEFINE T == {k \in 0 .. n : r[k] \in A}
  <2> HIDE DEF r
  <2>1. 0 \in T
    <3> HIDE DEF n, A
    <3> QED
      BY <1>1, <1>6
  <2>2. ASSUME NEW k \in 1 .. n, k - 1 \in T
        PROVE  k \in T
    <3>1. k \in 0 .. n /\ r[k - 1] \in Seq(Videos) /\ vs[k] \in Videos
      BY <1>1, <2>2
    <3>2. RemoveByVideo(r[k - 1], vs[k]) \in Seq(Videos)
      BY <3>1, RemovedOne
    <3>3. r[k] \in A
      BY <1>7, <3>1, <3>2
    <3> QED
      BY <3>1, <3>3
  <2>3. \A k \in 0 .. n : k \in T
    <3> HIDE DEF T
    <3> QED
      BY <1>1, <2>1, <2>2, Reaches
  <2>4. \A k \in 0 .. n : r[k] \in A
    BY <2>3
  <2> QED
    BY <2>4 DEF r
<1> QED
  BY <1>6, <1>7, <1>8

LEMMA InsertedIn ==
  ASSUME NEW i \in Nat, NEW q \in {q \in Seq(Videos) : i <= Len(q)}, NEW v \in Videos
  PROVE  Insert(q, i, v) \in {p \in Seq(Videos) : i <= Len(p)}
<1>1. q \in Seq(Videos) /\ Len(q) \in Nat /\ i \in 0 .. Len(q)
  OBVIOUS
<1>2. /\ Insert(q, i, v) \in Seq(Videos) /\ Len(Insert(q, i, v)) >= Len(q)
      /\ Len(Insert(q, i, v)) \in Nat
  BY <1>1, InsertedOne
<1> QED
  BY <1>1, <1>2

LEMMA InsertRangeSteps ==
  ASSUME NEW p \in Seq(Videos), NEW vs \in Seq(Videos), NEW i \in 0 .. Len(p)
  PROVE  \E r \in [1 .. (Len(vs) + 1) -> {q \in Seq(Videos) : i <= Len(q)}] :
           /\ r[Len(vs) + 1] = p /\ r[1] = InsertRange(p, i, vs)
           /\ \A k \in 1 .. Len(vs) : r[k] = Insert(r[k + 1], i, vs[k])
<1> DEFINE n == Len(vs)
           A == {q \in Seq(Videos) : i <= Len(q)}
           pick == [s \in SUBSET (1 .. n) |-> Min(s)]
           does == [k \in 1 .. n |->
                      [a \in A |-> Insert(a, i, vs[k])]]
           Is(f) == f = [s \in SUBSET DOMAIN vs |->
                           IF s = {} THEN p
                           ELSE LET x == Min(s)
                                IN Insert(f[s \ {x}], i, vs[x])]
           iter == CHOOSE f : Is(f)
           r == [k \in 1 .. (n + 1) |-> iter[k .. n]]
<1>1. n \in Nat /\ DOMAIN vs = 1 .. n /\ p \in A /\ IsFiniteSet(1 .. n)
  BY FS_Interval
<1>2. \A s \in SUBSET (1 .. n) : s # {} => pick[s] \in s
  BY <1>1, Extremes
<1>3. does \in [1 .. n -> [A -> A]]
  <2> HIDE DEF A
  <2> QED
    BY <1>1, InsertedIn DEF A
<1>4. Is(iter)
  <2>0. PICK g : IsFold(g, A, 1 .. n, pick, does, p)
    <3> HIDE DEF pick, does, A, n
    <3> QED
      BY <1>1, <1>2, <1>3, FoldExists
  <2>1. /\ g \in [SUBSET (1 .. n) -> A]
        /\ \A s \in SUBSET (1 .. n) :
             g[s] = IF s = {} THEN p ELSE does[pick[s]][g[s \ {pick[s]}]]
    <3> HIDE DEF pick, does, A, n
    <3> QED
      BY <2>0 DEF IsFold
  <2>2. ASSUME NEW s \in SUBSET (1 .. n), s # {}
        PROVE  g[s] = Insert(g[s \ {Min(s)}], i, vs[Min(s)])
    <3>1. pick[s] = Min(s)
      OBVIOUS
    <3>2. Min(s) \in 1 .. n
      BY <1>2, <2>2, <3>1
    <3>3. g[s \ {Min(s)}] \in A
      BY <2>1
    <3>4. g[s] = does[Min(s)][g[s \ {Min(s)}]]
      BY <2>1, <2>2, <3>1
    <3> QED
      BY <3>2, <3>3, <3>4
  <2>3. Is(g)
    BY <1>1, <2>1, <2>2
  <2> QED
    BY <2>3, Zenon
<1>5. InsertRange(p, i, vs) = iter[DOMAIN vs]
  BY DEF InsertRange, FoldRight, MapThenFoldSet
<1> HIDE DEF iter
<1>6. r[n + 1] = p /\ r[1] = InsertRange(p, i, vs)
  <2>1. iter[{}] = p
    BY <1>4
  <2>2. (n + 1) .. n = {}
    BY <1>1
  <2> QED
    BY <1>1, <1>5, <2>1, <2>2
<1>7. ASSUME NEW k \in 1 .. n
      PROVE  r[k] = Insert(r[k + 1], i, vs[k])
  <2>1. /\ k .. n \in SUBSET DOMAIN vs /\ k .. n # {} /\ Min(k .. n) = k
        /\ (k .. n) \ {k} = (k + 1) .. n
    <3>1. k \in Nat /\ k \in k .. n /\ k <= n
      BY <1>1
    <3>2. Min(k .. n) = k
      BY <1>1, <3>1, EndsOfInterval
    <3>3. k .. n \in SUBSET (1 .. n) /\ (k .. n) \ {k} = (k + 1) .. n
      BY <1>1
    <3> QED
      BY <1>1, <3>1, <3>2, <3>3
  <2>2. iter[k .. n] = Insert(iter[(k + 1) .. n], i, vs[k])
    BY <1>4, <2>1
  <2> QED
    BY <1>1, <2>2
<1>8. r \in [1 .. (n + 1) -> A]
  <2> DEFINE T == {k \in 0 .. n : r[k + 1] \in A}
  <2> HIDE DEF r
  <2>1. n \in T
    <3> HIDE DEF n, A
    <3> QED
      BY <1>1, <1>6
  <2>2. ASSUME NEW k \in 0 .. (n - 1), k + 1 \in T
        PROVE  k \in T
    <3>1. /\ k \in 0 .. n /\ k + 1 \in 1 .. n /\ (k + 1) + 1 = k + 2
          /\ r[k + 2] \in A /\ vs[k + 1] \in Videos
      BY <1>1, <2>2
    <3>0. ASSUME NEW q \in A, NEW v \in Videos
          PROVE  Insert(q, i, v) \in A
      <4>1. i \in Nat
        OBVIOUS
      <4> QED
        BY <4>1, <3>0, InsertedIn
    <3>2. Insert(r[k + 2], i, vs[k + 1]) \in A
      BY <3>0, <3>1
    <3> HIDE DEF A
    <3>3. r[k + 1] \in A
      BY <1>7, <3>1, <3>2
    <3> QED
      BY <3>1, <3>3
  <2>3. \A k \in 0 .. n : k \in T
    <3> HIDE DEF T
    <3> QED
      BY <1>1, <2>1, <2>2, ReachesDown
  <2>4. ASSUME NEW k \in 1 .. (n + 1)
        PROVE  r[k] \in A
    <3>1. k - 1 \in 0 .. n /\ (k - 1) + 1 = k
      BY <1>1
    <3> QED
      BY <2>3, <3>1
  <2> QED
    BY <2>4 DEF r
<1> QED
  BY <1>6, <1>7, <1>8

\* What the operations make of playlists are playlists.
LEMMA PartTyped ==
  ASSUME NEW p \in Seq(Videos), NEW a \in Nat \ {0}, NEW b \in Nat, b <= Len(p)
  PROVE  /\ SubSeq(p, a, b) \in Seq(Videos)
         /\ Len(SubSeq(p, a, b)) = IF a <= b THEN b - a + 1 ELSE 0
<1>1. Len(p) \in Nat
  OBVIOUS
<1>2. CASE a <= b
  BY <1>1, <1>2
<1>3. CASE ~ (a <= b)
  BY <1>1, <1>3
<1> QED
  BY <1>2, <1>3

LEMMA GetRangeTyped ==
  ASSUME NEW p \in Seq(Videos), NEW lo \in Nat, NEW hi \in Nat
  PROVE  GetRange(p, lo, hi) \in Seq(Videos)
<1>1. Least(hi + 1, Len(p)) \in Nat /\ Least(hi + 1, Len(p)) <= Len(p) /\ lo + 1 \in Nat \ {0}
  BY DEF Least
<1> QED
  BY <1>1, PartTyped DEF GetRange

LEMMA KeptTyped ==
  ASSUME NEW p \in Seq(Videos), NEW vs
  PROVE  Kept(p, vs) \in Seq(Videos) /\ Len(Kept(p, vs)) \in Nat
<1>1. Kept(p, vs) \in Seq(Videos)
  <2>1. Len(p) \in 0 .. Len(p)
    OBVIOUS
  <2> QED
    BY <2>1, KeptSteps
<1> QED
  BY <1>1

LEMMA PushTyped ==
  ASSUME NEW p \in Seq(Videos), NEW v \in Videos
  PROVE  Push(p, v) \in Seq(Videos)
BY DEF Push

LEMMA MoveTyped ==
  ASSUME NEW p \in Seq(Videos), NEW v \in Videos, NEW i \in Nat
  PROVE  MoveVideo(p, v, i) \in Seq(Videos)
<1> DEFINE q == RemoveByVideo(p, v)
<1>1. q \in Seq(Videos) /\ Len(q) \in Nat
  <2>1. q \in Seq(Videos)
    BY RemovedOne, Zenon
  <2> QED
    BY <2>1
<1>2. Least(i, Len(q)) \in 0 .. Len(q)
  BY <1>1 DEF Least
<1>3. MoveVideo(p, v, i) = InsertAt(q, Least(i, Len(q)) + 1, v)
  BY DEF MoveVideo
<1> HIDE DEF q
<1> QED
  BY <1>1, <1>2, <1>3, InsertedOne

LEMMA InsertRangeTyped ==
  ASSUME NEW p \in Seq(Videos), NEW vs \in Seq(Videos), NEW i \in 0 .. Len(p)
  PROVE  InsertRange(p, i, vs) \in Seq(Videos)
<1>1. 1 \in 1 .. (Len(vs) + 1)
  OBVIOUS
<1>2. PICK r \in [1 .. (Len(vs) + 1) -> {q \in Seq(Videos) : i <= Len(q)}] :
        r[1] = InsertRange(p, i, vs)
  BY InsertRangeSteps
<1> QED
  BY <1>1, <1>2

LEMMA RemoveAllTyped ==
  ASSUME NEW p \in Seq(Videos), NEW vs \in Seq(Videos)
  PROVE  RemoveAll(p, vs) \in Seq(Videos)
<1>1. Len(vs) \in 0 .. Len(vs)
  OBVIOUS
<1>2. PICK r \in [0 .. Len(vs) -> Seq(Videos)] : r[Len(vs)] = RemoveAll(p, vs)
  BY RemoveAllSteps
<1> QED
  BY <1>1, <1>2

LEMMA RemoveRangeTyped ==
  ASSUME NEW p \in Seq(Videos), NEW lo \in Nat, NEW hi \in Nat, lo <= hi, hi < Len(p)
  PROVE  /\ RemoveRange(p, lo, hi) \in Seq(Videos)
         /\ Len(RemoveRange(p, lo, hi)) < Len(p)
<1> DEFINE a == SubSeq(p, 1, lo)
           b == SubSeq(p, hi + 2, Len(p))
<1>1. Len(p) \in Nat /\ hi + 2 \in Nat \ {0} /\ 1 \in Nat \ {0} /\ lo <= Len(p) /\ Len(p) <= Len(p)
  OBVIOUS
<1>2. a \in Seq(Videos) /\ Len(a) \in Nat /\ Len(a) <= lo
  <2>1. a \in Seq(Videos) /\ Len(a) = IF 1 <= lo THEN lo - 1 + 1 ELSE 0
    BY <1>1, PartTyped
  <2> HIDE DEF a
  <2> QED
    BY <2>1
<1>3. b \in Seq(Videos) /\ Len(b) \in Nat /\ Len(b) < Len(p) - lo
  <2>1. /\ b \in Seq(Videos)
        /\ Len(b) = IF hi + 2 <= Len(p) THEN Len(p) - (hi + 2) + 1 ELSE 0
    BY <1>1, PartTyped
  <2> HIDE DEF b
  <2> QED
    BY <1>1, <2>1
<1>4. RemoveRange(p, lo, hi) = a \o b
  BY DEF RemoveRange
<1> HIDE DEF a, b
<1>5. a \o b \in Seq(Videos) /\ Len(a \o b) = Len(a) + Len(b)
  BY <1>2, <1>3
<1>6. Len(a) + Len(b) < Len(p)
  BY <1>1, <1>2, <1>3
<1> QED
  BY <1>4, <1>5, <1>6

LEMMA ReverseTyped ==
  ASSUME NEW p \in Seq(Videos)
  PROVE  Reverse(p) \in Seq(Videos) /\ Len(Reverse(p)) = Len(p)
<1> DEFINE r == [i \in 1 .. Len(p) |-> p[Len(p) - i + 1]]
<1>1. Reverse(p) = r
  BY DEF Reverse
<1>2. \A i \in 1 .. Len(p) : p[Len(p) - i + 1] \in Videos
  OBVIOUS
<1>3. r \in Seq(Videos) /\ Len(r) = Len(p)
  BY <1>2
<1> QED
  BY <1>1, <1>3

LEMMA ReverseRangeTyped ==
  ASSUME NEW p \in Seq(Videos), NEW lo \in Nat, NEW hi \in Nat, lo <= hi, hi < Len(p)
  PROVE  ReverseRange(p, lo, hi) \in Seq(Videos)
<1> DEFINE a == SubSeq(p, 1, lo)
           m == SubSeq(p, lo + 1, hi + 1)
           b == SubSeq(p, hi + 2, Len(p))
<1>1. /\ Len(p) \in Nat /\ hi + 2 \in Nat \ {0} /\ 1 \in Nat \ {0} /\ lo + 1 \in Nat \ {0}
      /\ hi + 1 \in Nat /\ hi + 1 <= Len(p) /\ lo <= Len(p) /\ Len(p) <= Len(p)
  OBVIOUS
<1>2. a \in Seq(Videos) /\ m \in Seq(Videos) /\ b \in Seq(Videos)
  BY <1>1, PartTyped
<1>3. ReverseRange(p, lo, hi) = (a \o Reverse(m)) \o b
  BY Zenon DEF ReverseRange
<1> HIDE DEF a, b, m
<1>4. Reverse(m) \in Seq(Videos)
  BY <1>2, ReverseTyped
<1>5. a \o Reverse(m) \in Seq(Videos)
  BY <1>2, <1>4
<1>6. (a \o Reverse(m)) \o b \in Seq(Videos)
  BY <1>2, <1>5
<1> QED
  BY <1>3, <1>6

LEMMA AppendAtTyped ==
  ASSUME NEW p \in Seq(Videos), NEW i \in 0 .. Len(p), NEW vs \in Seq(Videos)
  PROVE  AppendAt(p, i, vs) \in Seq(Videos)
<1> DEFINE a == SubSeq(p, 1, i)
           m == Kept(vs, Videos \ Range(a))
           b == SubSeq(p, i + 1, Len(p))
<1>1. /\ Len(p) \in Nat /\ i + 1 \in Nat \ {0} /\ 1 \in Nat \ {0} /\ i \in Nat
      /\ i <= Len(p) /\ Len(p) <= Len(p)
  OBVIOUS
<1>2. a \in Seq(Videos) /\ b \in Seq(Videos)
  BY <1>1, PartTyped
<1>3. AppendAt(p, i, vs) = (a \o m) \o b
  BY Zenon DEF AppendAt
<1>4. m \in Seq(Videos)
  <2> HIDE DEF a
  <2> QED
    BY KeptTyped
<1> HIDE DEF a, b, m
<1>5. a \o m \in Seq(Videos)
  BY <1>2, <1>4
<1>6. (a \o m) \o b \in Seq(Videos)
  BY <1>2, <1>5
<1> QED
  BY <1>3, <1>6

LEMMA SlicesTyped ==
  ASSUME NEW p \in Seq(Videos), NEW r \in Slices(p)
  PROVE  r \in Seq(Videos) /\ r # <<>>
<1>1. PICK i \in 1 .. Len(p) : \E j \in 1 .. Len(p) : r = SubSeq(p, i, j)
  BY DEF Slices
<1>2. PICK j \in 1 .. Len(p) : r = SubSeq(p, i, j)
  BY <1>1
<1>3. i \in Nat \ {0} /\ j \in Nat /\ j <= Len(p)
  OBVIOUS
<1>4. r \in Seq(Videos)
  BY <1>2, <1>3, PartTyped
<1> QED
  BY <1>4 DEF Slices

LEMMA FindTyped ==
  ASSUME NEW p \in Seq(Videos), NEW v, Contains(p, v)
  PROVE  Find(p, v) \in Nat /\ Find(p, v) < Len(p)
<1> DEFINE m == Min({i \in 1 .. Len(p) : p[i] = v})
<1>1. Find(p, v) = m - 1 /\ m \in 1 .. Len(p)
  BY FoundIn
<1> HIDE DEF m
<1> QED
  BY <1>1

-----------------------------------------------------------------------------
(* The room: its inductive invariant.                                      *)

NoList(box) == \A i \in DOMAIN box : box[i].type # "Playlist"

\* The last playlist in a box.
LastList(box, pl) ==
    \E i \in DOMAIN box :
        /\ box[i].type = "Playlist" /\ box[i].playlist = pl
        /\ \A j \in DOMAIN box : j > i => box[j].type # "Playlist"

\* Only the host broadcasts playlists.
ClientsSelect == \A c \in Clients, q \in Peers : NoList(inbox[c][q])

\* Nothing is on its way to or from a client that is not connected.
Absent ==
    \A c \in Clients \ connected : inbox[Host][c] = <<>> /\ requests[c] = {}

\* A welcome that no playlist crossed is up to date, and none is behind it.
WelcomeRight(c) ==
    \A m \in welcome[c] :
        m.type = "Playlist" =>
            m.playlist = session.playlist /\ NoList(inbox[Host][c])

\* What client c has, or will have once it got what is on its way to it.
Heard(c) ==
    \/ LastList(inbox[Host][c], session.playlist)
    \/ /\ NoList(inbox[Host][c])
       /\ \/ HasPlaylist(welcome[c]) \/ requests[c] # {}
          \/ core[c].playlist = session.playlist

AllHear == \A c \in connected \ missed : WelcomeRight(c) /\ Heard(c)

RoomInv == RoomTypeOK /\ ClientsSelect /\ Absent /\ AllHear

-----------------------------------------------------------------------------
(* The room: positions, messages and queues.                               *)

LEMMA PositionNumber ==
  ASSUME NEW pl \in Seq(Videos), NEW v
  PROVE  Position(pl, v) \in Nat
<1> DEFINE I == {i \in 1 .. Len(pl) : pl[i] = v}
<1>1. Position(pl, v) = IF I # {} THEN Min(I) ELSE 0
  BY DEF Position, SelectInSeq
<1>2. I \in SUBSET Nat
  OBVIOUS
<1> HIDE DEF I
<1>3. CASE I # {}
  BY <1>1, <1>2, <1>3, LeastNumber
<1>4. CASE I = {}
  BY <1>1, <1>4
<1> QED
  BY <1>3, <1>4

LEMMA MessageKinds ==
  /\ \A m \in Message :
       \/ m.type = "Playlist" /\ m.playlist \in RoomLists
       \/ m.type = "Select" /\ m.video \in Selection
  /\ \A pl \in RoomLists : /\ PlaylistMsg(pl) \in Message
                           /\ PlaylistMsg(pl).type = "Playlist"
                           /\ PlaylistMsg(pl).playlist = pl
  /\ \A v \in Selection : SelectMsg(v) \in Message /\ SelectMsg(v).type = "Select"
BY DEF Message, PlaylistMsg, SelectMsg

\* Queues: putting behind, and taking off.
LEMMA Concatenated ==
  ASSUME NEW box \in Seq(Message), NEW ms \in Seq(Message)
  PROVE  /\ box \o ms \in Seq(Message)
         /\ NoList(ms) =>
              /\ NoList(box) => NoList(box \o ms)
              /\ \A pl : LastList(box, pl) => LastList(box \o ms, pl)
         /\ \A pl : LastList(ms, pl) => LastList(box \o ms, pl)
<1> DEFINE new == box \o ms
           n == Len(box)
<1>1. /\ n \in Nat /\ Len(ms) \in Nat /\ new \in Seq(Message)
      /\ DOMAIN box = 1 .. n /\ DOMAIN ms = 1 .. Len(ms)
      /\ DOMAIN new = 1 .. n + Len(ms)
      /\ \A i \in 1 .. n : new[i] = box[i]
      /\ \A i \in 1 .. Len(ms) : new[n + i] = ms[i]
  OBVIOUS
<1> HIDE DEF new, n
<1>2. ASSUME NEW i \in DOMAIN new
      PROVE  \/ i \in DOMAIN box /\ new[i] = box[i]
             \/ \E j \in DOMAIN ms : i = n + j /\ new[i] = ms[j]
  <2>1. CASE i \in 1 .. n
    BY <1>1, <2>1
  <2>2. CASE i \notin 1 .. n
    <3>1. i - n \in DOMAIN ms /\ i = n + (i - n)
      BY <1>1, <2>2
    <3> QED
      BY <1>1, <3>1
  <2> QED
    BY <2>1, <2>2
<1>3. ASSUME NoList(ms), NoList(box)
      PROVE  NoList(new)
  BY <1>2, <1>3 DEF NoList
<1>4. ASSUME NoList(ms), NEW pl, LastList(box, pl)
      PROVE  LastList(new, pl)
  <2>1. PICK i \in DOMAIN box :
          /\ box[i].type = "Playlist" /\ box[i].playlist = pl
          /\ \A j \in DOMAIN box : j > i => box[j].type # "Playlist"
    BY <1>4 DEF LastList
  <2>2. i \in DOMAIN new /\ new[i] = box[i]
    BY <1>1
  <2>3. \A j \in DOMAIN new : j > i => new[j].type # "Playlist"
    BY <1>2, <1>4, <2>1 DEF NoList
  <2> QED
    BY <2>1, <2>2, <2>3 DEF LastList
<1>5. ASSUME NEW pl, LastList(ms, pl)
      PROVE  LastList(new, pl)
  <2>1. PICK i \in DOMAIN ms :
          /\ ms[i].type = "Playlist" /\ ms[i].playlist = pl
          /\ \A j \in DOMAIN ms : j > i => ms[j].type # "Playlist"
    BY <1>5 DEF LastList
  <2>2. n + i \in DOMAIN new /\ new[n + i] = ms[i]
    BY <1>1
  <2>3. ASSUME NEW j \in DOMAIN new, j > n + i
        PROVE  new[j].type # "Playlist"
    <3>1. ~ (j \in DOMAIN box)
      BY <1>1, <2>3
    <3>2. PICK k \in DOMAIN ms : j = n + k /\ new[j] = ms[k]
      BY <1>2, <3>1
    <3>3. k > i
      BY <1>1, <2>3, <3>2
    <3> QED
      BY <2>1, <3>2, <3>3
  <2> QED
    BY <2>1, <2>2, <2>3 DEF LastList
<1> QED
  BY <1>1, <1>3, <1>4, <1>5 DEF new

LEMMA HeadTaken ==
  ASSUME NEW box \in Seq(Message), box # <<>>
  PROVE  /\ Head(box) \in Message /\ Tail(box) \in Seq(Message)
         /\ NoList(box) =>
              Head(box).type # "Playlist" /\ NoList(Tail(box))
         /\ \A pl : LastList(box, pl) =>
              \/ LastList(Tail(box), pl)
              \/ /\ Head(box).type = "Playlist" /\ Head(box).playlist = pl
                 /\ NoList(Tail(box))
<1> DEFINE rest == Tail(box)
<1>1. /\ Len(box) \in Nat \ {0} /\ DOMAIN box = 1 .. Len(box)
      /\ DOMAIN rest = 1 .. (Len(box) - 1)
      /\ \A i \in DOMAIN rest : rest[i] = box[i + 1]
      /\ Head(box) = box[1] /\ Head(box) \in Message
      /\ rest \in Seq(Message)
  OBVIOUS
<1>2. 1 \in DOMAIN box /\ \A i \in DOMAIN rest : i + 1 \in DOMAIN box
  BY <1>1
<1> HIDE DEF rest
<1>3. NoList(box) => Head(box).type # "Playlist" /\ NoList(rest)
  BY <1>1, <1>2 DEF NoList
<1>4. ASSUME NEW pl, LastList(box, pl)
      PROVE  \/ LastList(rest, pl)
             \/ /\ Head(box).type = "Playlist" /\ Head(box).playlist = pl
                /\ NoList(rest)
  <2>1. PICK i \in DOMAIN box :
          /\ box[i].type = "Playlist" /\ box[i].playlist = pl
          /\ \A j \in DOMAIN box : j > i => box[j].type # "Playlist"
    BY <1>4 DEF LastList
  <2>2. CASE i = 1
    <3>1. \A j \in DOMAIN rest : j + 1 > 1
      BY <1>1
    <3>2. NoList(rest)
      BY <1>1, <1>2, <2>1, <2>2, <3>1 DEF NoList
    <3> QED
      BY <1>1, <2>1, <2>2, <3>2
  <2>3. CASE i # 1
    <3>1. PICK k \in DOMAIN rest : i = k + 1
      <4>1. i - 1 \in DOMAIN rest /\ i = (i - 1) + 1
        BY <1>1, <2>3
      <4> QED
        BY <4>1
    <3>2. \A j \in DOMAIN rest : j > k => j + 1 > i
      BY <1>1, <3>1
    <3>3. /\ rest[k].type = "Playlist" /\ rest[k].playlist = pl
          /\ \A j \in DOMAIN rest : j > k => rest[j].type # "Playlist"
      BY <1>1, <1>2, <2>1, <3>1, <3>2
    <3> QED
      BY <3>3 DEF LastList
  <2> QED
    BY <2>2, <2>3
<1> QED
  BY <1>1, <1>3, <1>4 DEF rest

-----------------------------------------------------------------------------
(* The room: PlaylistHandler.                                              *)

LEMMA CurrentTyped ==
  ASSUME NEW k \in Core
  PROVE  k.playlist \in Seq(Videos) /\ Current(k) \in Selection
<1>1. k.playlist \in Seq(Videos)
  <2>1. k.playlist \in RoomLists \cup {<<>>}
    BY DEF Core
  <2>2. <<>> \in Seq(Videos)
    OBVIOUS
  <2> QED
    BY <2>1, <2>2, RoomStateAssumption
<1>2. CASE k.playing \in DOMAIN k.playlist
  <2>1. Current(k) = k.playlist[k.playing]
    BY <1>2 DEF Current
  <2>2. ASSUME NEW s \in Seq(Videos), NEW i \in DOMAIN s
        PROVE  s[i] \in Videos
    OBVIOUS
  <2>3. k.playlist[k.playing] \in Videos
    BY <1>1, <1>2, <2>2, Zenon
  <2> QED
    BY <1>1, <2>1, <2>3 DEF Selection
<1>3. CASE k.playing \notin DOMAIN k.playlist
  <2>1. Current(k) = None
    BY <1>3 DEF Current
  <2> QED
    BY <1>1, <2>1 DEF Selection
<1> QED
  BY <1>2, <1>3

LEMMA ReplaceTyped ==
  ASSUME NEW k \in Core, NEW pl \in RoomLists
  PROVE  Replace(k, pl) \in Core /\ Replace(k, pl).playlist = pl
<1>1. Position(pl, Current(k)) \in Nat
  BY PositionNumber, RoomStateAssumption
<1> QED
  BY <1>1 DEF Replace, Core

LEMMA SelectPlayingTyped ==
  ASSUME NEW k \in Core, NEW v
  PROVE  /\ SelectPlaying(k, v) \in Core
         /\ SelectPlaying(k, v).playlist = k.playlist
<1>1. Position(k.playlist, v) \in Nat
  BY CurrentTyped, PositionNumber
<1> QED
  BY <1>1 DEF SelectPlaying, Core

LEMMA AdvanceTyped ==
  ASSUME NEW k \in Core
  PROVE  /\ AdvanceToNext(k) \in Core
         /\ AdvanceToNext(k).playlist = k.playlist
BY DEF AdvanceToNext, Core

\* A playlist replaces the core's, a selection leaves it.
LEMMA HandledTyped ==
  ASSUME NEW k \in Core, NEW m \in Message
  PROVE  /\ Handled(k, m) \in Core
         /\ m.type = "Playlist" => Handled(k, m).playlist = m.playlist
         /\ m.type # "Playlist" => Handled(k, m).playlist = k.playlist
<1>1. CASE m.type = "Playlist"
  BY <1>1, MessageKinds, ReplaceTyped DEF Handled
<1>2. CASE m.type = "Select" /\ m.video = None
  <2>1. Handled(k, m) = [k EXCEPT !.playing = 0]
    BY <1>2 DEF Handled
  <2> QED
    BY <1>2, <2>1 DEF Core
<1>3. CASE m.type = "Select" /\ m.video # None
  <2>1. Handled(k, m) = SelectPlaying(k, m.video)
    BY <1>3 DEF Handled
  <2> QED
    BY <1>3, <2>1, SelectPlayingTyped
<1> QED
  BY <1>1, <1>2, <1>3, MessageKinds

-----------------------------------------------------------------------------
(* The room: select_next, at most one video, as a sequence of messages.    *)

LEMMA NextIsOne ==
  ASSUME NEW st, NEW new \in RoomLists
  PROVE  \/ SelectNext(st, new) = {}
         \/ \E v \in Videos : SelectNext(st, new) = {v}
<1> DEFINE k == Scan(new, st.select, st.playlist).pos + 1
<1>1. new \in Seq(Videos)
  BY RoomStateAssumption
<1>2. \/ SelectNext(st, new) = {}
      \/ SelectNext(st, new) = {new[i] : i \in {k} \cap DOMAIN new}
  BY DEF SelectNext
<1> HIDE DEF k
<1>3. CASE k \in DOMAIN new
  <2>1. {new[i] : i \in {k} \cap DOMAIN new} = {new[k]}
    BY <1>3
  <2>2. new[k] \in Videos
    BY <1>1, <1>3
  <2> QED
    BY <1>2, <2>1, <2>2
<1>4. CASE k \notin DOMAIN new
  BY <1>2, <1>4
<1> QED
  BY <1>3, <1>4

LEMMA NextSelectsTyped ==
  ASSUME NEW new \in RoomLists
  PROVE  NextSelects(new) \in Seq(Message) /\ NoList(NextSelects(new))
<1> DEFINE T == {SelectMsg(v) : v \in SelectNext(session, new)}
<1>1. NextSelects(new) = SetToSeq(T)
  BY DEF NextSelects
<1>2. \/ T = {}
      \/ \E m \in Message : m.type = "Select" /\ T = {m}
  <2>1. CASE SelectNext(session, new) = {}
    BY <2>1
  <2>2. CASE SelectNext(session, new) # {}
    <3>1. PICK v \in Videos : SelectNext(session, new) = {v}
      BY <2>2, NextIsOne
    <3>2. T = {SelectMsg(v)}
      BY <3>1
    <3>3. SelectMsg(v) \in Message /\ SelectMsg(v).type = "Select"
      BY MessageKinds DEF Selection
    <3> HIDE DEF T
    <3> QED
      BY <3>2, <3>3
  <2> QED
    BY <2>1, <2>2
<1>3. T \subseteq Message /\ \A m \in T : m.type = "Select"
  <2> HIDE DEF T
  <2> QED
    BY <1>2
<1> HIDE DEF T
<1>4. Cardinality(T) \in {0, 1} /\ \E f \in [1 .. Cardinality(T) -> T] : IsInjective(f)
  <2>1. CASE T = {}
    <3>1. Cardinality(T) = 0
      BY <2>1, FS_EmptySet
    <3>2. <<>> \in [1 .. 0 -> T] /\ IsInjective(<<>>)
      BY DEF IsInjective
    <3> QED
      BY <3>1, <3>2
  <2>2. CASE T # {}
    <3>1. PICK m : T = {m}
      BY <1>2, <2>2
    <3>2. Cardinality(T) = 1
      BY <3>1, FS_Singleton
    <3> DEFINE f == [i \in 1 .. 1 |-> m]
    <3>3. f \in [1 .. 1 -> T] /\ IsInjective(f)
      BY <3>1 DEF IsInjective
    <3> QED
      BY <3>2, <3>3
  <2> QED
    BY <2>1, <2>2
<1>5. SetToSeq(T) \in [1 .. Cardinality(T) -> T]
  BY <1>4 DEF SetToSeq
<1>6. NextSelects(new) \in Seq(T)
  BY <1>1, <1>4, <1>5
<1> QED
  BY <1>3, <1>6 DEF NoList

LEMMA NextSessionTyped ==
  ASSUME session.select \in Selection, NEW new \in RoomLists
  PROVE  /\ NextSession(new) \in [playlist : RoomLists, select : Selection]
         /\ NextSession(new).playlist = new
<1>1. CASE SelectNext(session, new) = {}
  BY <1>1 DEF NextSession
<1>2. CASE SelectNext(session, new) # {}
  <2>1. PICK v \in Videos : SelectNext(session, new) = {v}
    BY <1>2, NextIsOne
  <2>2. (CHOOSE w \in SelectNext(session, new) : TRUE) \in Selection
    BY <2>1 DEF Selection
  <2> QED
    BY <1>2, <2>2 DEF NextSession
<1> QED
  BY <1>1, <1>2

-----------------------------------------------------------------------------
(* The room: its steps, seen from one client.                              *)

\* A broadcast puts its messages behind those of its author.
LEMMA BroadcastReaches ==
  ASSUME RoomTypeOK, NEW a \in Peers, NEW ms \in Seq(Message), Broadcast(a, ms)
  PROVE  /\ inbox' \in [Peers -> [Peers -> Seq(Message)]]
         /\ \A b, q \in Peers :
              inbox'[b][q] = IF b = a /\ q \in Audience(a) THEN inbox[b][q] \o ms
                             ELSE inbox[b][q]
<1>1. inbox \in [Peers -> [Peers -> Seq(Message)]]
  BY DEF RoomTypeOK
<1> DEFINE row == [q \in Peers |-> IF q \in Audience(a) THEN inbox[a][q] \o ms
                                   ELSE inbox[a][q]]
<1>2. inbox' = [inbox EXCEPT ![a] = row]
  BY DEF Broadcast
<1>3. \A q \in Peers : inbox[a][q] \o ms \in Seq(Message)
  BY <1>1
<1>4. row \in [Peers -> Seq(Message)]
  BY <1>1, <1>3
<1>5. \A q \in Peers : row[q] = IF q \in Audience(a) THEN inbox[a][q] \o ms
                                ELSE inbox[a][q]
  OBVIOUS
<1> HIDE DEF row
<1>6. inbox' \in [Peers -> [Peers -> Seq(Message)]]
  BY <1>1, <1>2, <1>4
<1>7. \A b, q \in Peers : inbox'[b][q] = IF b = a THEN row[q] ELSE inbox[b][q]
  BY <1>1, <1>2
<1> QED
  BY <1>5, <1>6, <1>7

\* A message is taken from the head of one box.
LEMMA TakenFrom ==
  ASSUME RoomTypeOK, NEW a \in Peers, NEW p \in Peers, inbox[a][p] # <<>>,
         inbox' = [inbox EXCEPT ![a][p] = Tail(@)]
  PROVE  /\ inbox' \in [Peers -> [Peers -> Seq(Message)]]
         /\ \A b, q \in Peers :
              inbox'[b][q] = IF b = a /\ q = p THEN Tail(inbox[a][p])
                             ELSE inbox[b][q]
<1>1. inbox \in [Peers -> [Peers -> Seq(Message)]]
  BY DEF RoomTypeOK
<1>2. Tail(inbox[a][p]) \in Seq(Message)
  BY <1>1, HeadTaken
<1> QED
  BY <1>1, <1>2

\* A step that brings client c no playlist and takes none from it.
LEMMA StillHears ==
  ASSUME NEW c, WelcomeRight(c), Heard(c),
         NoList(inbox[Host][c]) => NoList(inbox[Host][c])',
         LastList(inbox[Host][c], session.playlist) =>
             LastList(inbox[Host][c], session.playlist)',
         welcome'[c] = welcome[c],
         requests[c] # {} => requests'[c] # {},
         requests'[c] # {} \/ core'[c].playlist = core[c].playlist,
         session'.playlist = session.playlist
  PROVE  WelcomeRight(c)' /\ Heard(c)'
<1>1. WelcomeRight(c)'
  BY DEF WelcomeRight
<1>2. CASE LastList(inbox[Host][c], session.playlist)
  BY <1>1, <1>2 DEF Heard
<1>3. CASE ~ LastList(inbox[Host][c], session.playlist)
  <2>1. /\ NoList(inbox[Host][c])
        /\ \/ HasPlaylist(welcome[c]) \/ requests[c] # {}
           \/ core[c].playlist = session.playlist
    BY <1>3 DEF Heard
  <2>2. NoList(inbox[Host][c])'
    BY <2>1
  <2>3. HasPlaylist(welcome[c])' <=> HasPlaylist(welcome[c])
    OBVIOUS
  <2> QED
    BY <1>1, <2>1, <2>2, <2>3 DEF Heard
<1> QED
  BY <1>1, <1>2, <1>3

\* When the host broadcasts a playlist, it is the last one on its way to
\* whoever is not one of those it passes by.
LEMMA BroadcastHeard ==
  ASSUME RoomInv, NEW ms \in Seq(Message), NEW pl, LastList(ms, pl),
         Broadcast(Host, ms), session'.playlist = pl, missed' = missed \cup PassedBy,
         UNCHANGED <<connected, welcome>>
  PROVE  AllHear'
<1> SUFFICES ASSUME NEW c \in connected, c \notin missed, c \notin PassedBy
             PROVE  WelcomeRight(c)' /\ Heard(c)'
  BY DEF AllHear
<1>1. c \in subscribed /\ ~ HasPlaylist(welcome[c])
  BY DEF PassedBy
<1>2. Host \in Peers /\ c \in Peers /\ c \in Audience(Host)
  BY <1>1 DEF Peers, Audience, RoomInv, RoomTypeOK
<1>3. /\ inbox'[Host][c] = inbox[Host][c] \o ms
      /\ inbox[Host][c] \in Seq(Message)
  <2>1. /\ RoomTypeOK /\ \A b, q \in Peers : inbox[b][q] \in Seq(Message)
    BY DEF RoomInv, RoomTypeOK
  <2>2. \A b, q \in Peers :
          inbox'[b][q] = IF b = Host /\ q \in Audience(Host)
                         THEN inbox[b][q] \o ms ELSE inbox[b][q]
    BY <1>2, <2>1, BroadcastReaches
  <2> QED
    BY <1>2, <2>1, <2>2
<1>4. LastList(inbox'[Host][c], session'.playlist)
  BY <1>3, Concatenated
<1>5. WelcomeRight(c)'
  BY <1>1 DEF HasPlaylist, WelcomeRight
<1> QED
  BY <1>4, <1>5 DEF Heard

-----------------------------------------------------------------------------
(* The room: its actions.                                                  *)

\* The parts of the invariant, where a step leaves the network alone.
LEMMA NetworkStays ==
  ASSUME RoomInv, UNCHANGED <<connected, welcome, requests, inbox, missed>>,
         session'.playlist = session.playlist,
         \A c \in Clients : core'[c].playlist = core[c].playlist
  PROVE  ClientsSelect' /\ Absent' /\ AllHear'
<1>1. ClientsSelect'
  BY DEF RoomInv, ClientsSelect
<1>2. Absent'
  BY DEF RoomInv, Absent
<1>3. AllHear'
  <2> SUFFICES ASSUME NEW c \in connected, c \notin missed
               PROVE  WelcomeRight(c)' /\ Heard(c)'
    BY DEF AllHear
  <2>1. /\ WelcomeRight(c) /\ Heard(c)
        /\ core'[c].playlist = core[c].playlist
    BY DEF RoomInv, AllHear, RoomTypeOK
  <2> QED
    BY <2>1, StillHears
<1> QED
  BY <1>1, <1>2, <1>3

LEMMA HostCoreReceiveKeeps ==
  ASSUME RoomInv, HostCoreReceive
  PROVE  RoomInv'
<1>1. RoomTypeOK
  BY DEF RoomInv
<1>2. Head(toCore) \in Message /\ Tail(toCore) \in Seq(Message)
  BY <1>1, HeadTaken DEF HostCoreReceive, RoomTypeOK
<1>3. Handled(core[Host], Head(toCore)) \in Core
  BY <1>1, <1>2, HandledTyped DEF RoomTypeOK, Peers
<1>4. core' \in [Peers -> Core] /\ toCore' \in Seq(Message)
  BY <1>1, <1>2, <1>3 DEF RoomTypeOK, HostCoreReceive
<1>5. UNCHANGED <<session, toComm, connected, subscribed, welcome, requests,
                  inbox, missed, joins, changes>>
  BY DEF HostCoreReceive, network
<1>6. RoomTypeOK'
  BY <1>1, <1>4, <1>5 DEF RoomTypeOK
<1>7. \A c \in Clients : core'[c] = core[c]
  BY <1>1, RoomStateAssumption DEF HostCoreReceive, RoomTypeOK, Peers
<1> QED
  BY <1>5, <1>6, <1>7, NetworkStays DEF RoomInv

LEMMA PlaylistChangeKeeps ==
  ASSUME RoomInv, NEW p \in Peers, NEW pl \in RoomLists, PlaylistChange(p, pl)
  PROVE  RoomInv'
<1>1. RoomTypeOK
  BY DEF RoomInv
<1>2. UNCHANGED <<session, toCore, connected, subscribed, welcome, inbox, missed, joins>>
  BY DEF PlaylistChange
<1>3. Replace(core[p], pl) \in Core
  BY <1>1, ReplaceTyped DEF RoomTypeOK
<1>4. core' \in [Peers -> Core] /\ \A q \in Peers \ {p} : core'[q] = core[q]
  BY <1>1, <1>3 DEF RoomTypeOK, PlaylistChange
<1>5. changes' \in 0 .. MaxChanges
  BY <1>1, RoomStateAssumption DEF RoomTypeOK, PlaylistChange, Change
<1>6. CASE p = Host /\ toComm' = Append(toComm, PlaylistMsg(pl)) /\ UNCHANGED requests
  <2>1. toComm' \in Seq(Message)
    BY <1>1, <1>6, MessageKinds DEF RoomTypeOK
  <2>2. RoomTypeOK'
    BY <1>1, <1>2, <1>4, <1>5, <1>6, <2>1 DEF RoomTypeOK
  <2>3. \A c \in Clients : core'[c] = core[c]
    BY <1>4, <1>6, RoomStateAssumption DEF Peers
  <2> QED
    BY <1>2, <1>6, <2>2, <2>3, NetworkStays DEF RoomInv
<1>7. CASE /\ p \in connected /\ UNCHANGED toComm
           /\ requests' = [requests EXCEPT ![p] = @ \cup {pl}]
  <2>1. /\ requests' \in [Clients -> SUBSET RoomLists] /\ requests'[p] # {}
        /\ \A c \in Clients \ {p} : requests'[c] = requests[c]
    BY <1>1, <1>7 DEF RoomTypeOK
  <2>2. RoomTypeOK'
    BY <1>1, <1>2, <1>4, <1>5, <1>7, <2>1 DEF RoomTypeOK
  <2>3. ClientsSelect' /\ Absent'
    BY <1>2, <1>7, <2>1 DEF RoomInv, ClientsSelect, Absent
  <2>4. AllHear'
    <3> SUFFICES ASSUME NEW c \in connected, c \notin missed
                 PROVE  WelcomeRight(c)' /\ Heard(c)'
      BY <1>2 DEF AllHear
    <3>1. c \in Clients /\ c \in Peers /\ WelcomeRight(c) /\ Heard(c)
      BY <1>1 DEF RoomInv, AllHear, RoomTypeOK, Peers
    <3>2. /\ requests[c] # {} => requests'[c] # {}
          /\ requests'[c] # {} \/ core'[c].playlist = core[c].playlist
      BY <1>4, <2>1, <3>1
    <3> QED
      BY <1>2, <3>1, <3>2, StillHears
  <2> QED
    BY <2>2, <2>3, <2>4 DEF RoomInv
<1> QED
  BY <1>6, <1>7 DEF PlaylistChange, SendPlaylist

\* A selection on its way from a core: no playlist is touched.
LEMMA SendSelectKeeps ==
  ASSUME RoomInv, NEW p \in Peers, NEW v \in Selection, SendSelect(p, v),
         core' \in [Peers -> Core], Change,
         \A q \in Peers : core'[q].playlist = core[q].playlist
  PROVE  RoomInv'
<1>1. RoomTypeOK
  BY DEF RoomInv
<1>2. UNCHANGED <<session, toCore, connected, subscribed, welcome, requests, missed, joins>>
  BY DEF SendSelect
<1>3. SelectMsg(v) \in Message /\ SelectMsg(v).type # "Playlist"
  BY MessageKinds
<1>4. changes' \in 0 .. MaxChanges
  BY <1>1, RoomStateAssumption DEF RoomTypeOK, Change
<1>5. \A c \in Clients : c \in Peers /\ core'[c].playlist = core[c].playlist
  BY DEF Peers
<1>6. CASE toComm' = Append(toComm, SelectMsg(v)) /\ UNCHANGED inbox
  <2>1. toComm' \in Seq(Message)
    BY <1>1, <1>3, <1>6 DEF RoomTypeOK
  <2>2. RoomTypeOK'
    BY <1>1, <1>2, <1>4, <1>6, <2>1 DEF RoomTypeOK
  <2> QED
    BY <1>2, <1>5, <1>6, <2>2, NetworkStays DEF RoomInv
<1>7. CASE p \in connected /\ Broadcast(p, <<SelectMsg(v)>>) /\ UNCHANGED toComm
  <2> DEFINE ms == <<SelectMsg(v)>>
  <2>1. ms \in Seq(Message) /\ NoList(ms)
    BY <1>3 DEF NoList
  <2>2. Broadcast(p, ms)
    BY <1>7
  <2> HIDE DEF ms
  <2>3. /\ inbox' \in [Peers -> [Peers -> Seq(Message)]]
        /\ \A b, q \in Peers :
              inbox'[b][q] = IF b = p /\ q \in Audience(p) THEN inbox[b][q] \o ms
                             ELSE inbox[b][q]
    BY <1>1, <2>1, <2>2, BroadcastReaches
  <2>4. RoomTypeOK'
    BY <1>1, <1>2, <1>4, <1>7, <2>3 DEF RoomTypeOK
  <2>5. Host \in Peers /\ Clients \subseteq Peers /\ p # Host
    BY <1>1, <1>7, RoomStateAssumption DEF RoomTypeOK, Peers
  <2>6. ClientsSelect'
    <3>1. ASSUME NEW c \in Clients, NEW q \in Peers
          PROVE  NoList(inbox'[c][q])
      <4>1. inbox[c][q] \in Seq(Message) /\ NoList(inbox[c][q])
        BY <1>1, <2>5 DEF RoomTypeOK, RoomInv, ClientsSelect
      <4>2. NoList(inbox[c][q] \o ms)
        BY <2>1, <4>1, Concatenated
      <4> QED
        BY <2>3, <2>5, <4>1, <4>2
    <3> QED
      BY <3>1 DEF ClientsSelect
  <2>7. \A c \in Clients : inbox'[Host][c] = inbox[Host][c]
    BY <2>3, <2>5
  <2>8. Absent'
    BY <1>2, <2>7 DEF RoomInv, Absent
  <2>9. AllHear'
    <3> SUFFICES ASSUME NEW c \in connected, c \notin missed
                 PROVE  WelcomeRight(c)' /\ Heard(c)'
      BY <1>2 DEF AllHear
    <3>1. c \in Clients /\ WelcomeRight(c) /\ Heard(c)
      BY <1>1 DEF RoomInv, AllHear, RoomTypeOK
    <3> QED
      BY <1>2, <1>5, <2>7, <3>1, StillHears
  <2> QED
    BY <2>4, <2>6, <2>8, <2>9 DEF RoomInv
<1> QED
  BY <1>6, <1>7 DEF SendSelect

LEMMA VideoChangeKeeps ==
  ASSUME RoomInv, NEW p \in Peers, NEW v \in Videos, VideoChange(p, v)
  PROVE  RoomInv'
<1>1. core \in [Peers -> Core]
  BY DEF RoomInv, RoomTypeOK
<1>2. /\ SelectPlaying(core[p], v) \in Core
      /\ SelectPlaying(core[p], v).playlist = core[p].playlist
  BY <1>1, SelectPlayingTyped
<1>3. core' = [core EXCEPT ![p] = SelectPlaying(core[p], v)]
  BY DEF VideoChange
<1>4. /\ core' \in [Peers -> Core]
      /\ \A q \in Peers : core'[q].playlist = core[q].playlist
  BY <1>1, <1>2, <1>3
<1> QED
  BY <1>4, SendSelectKeeps DEF VideoChange, Selection

LEMMA FileEndKeeps ==
  ASSUME RoomInv, NEW p \in Peers, FileEnd(p)
  PROVE  RoomInv'
<1>1. core \in [Peers -> Core]
  BY DEF RoomInv, RoomTypeOK
<1>2. /\ AdvanceToNext(core[p]) \in Core
      /\ AdvanceToNext(core[p]).playlist = core[p].playlist
  BY <1>1, AdvanceTyped
<1>3. core' = [core EXCEPT ![p] = AdvanceToNext(core[p])]
  BY DEF FileEnd
<1>4. /\ core' \in [Peers -> Core]
      /\ \A q \in Peers : core'[q].playlist = core[q].playlist
  BY <1>1, <1>2, <1>3
<1>5. Current(core'[p]) \in Selection
  BY <1>4, CurrentTyped
<1>6. Change /\ SendSelect(p, Current(core'[p]))
  BY DEF FileEnd
<1> QED
  BY <1>4, <1>5, <1>6, SendSelectKeeps

LEMMA ClientReceiveKeeps ==
  ASSUME RoomInv, NEW a \in Peers, NEW c \in Clients, ClientReceive(a, c)
  PROVE  RoomInv'
<1> DEFINE m == Head(inbox[a][c])
<1>1. RoomTypeOK /\ Host \in Peers /\ c \in Peers /\ c # Host
  BY RoomStateAssumption DEF RoomInv, Peers
<1>2. UNCHANGED <<session, toComm, toCore, connected, subscribed, welcome,
                  requests, missed, joins, changes>>
  BY DEF ClientReceive
<1>3. /\ inbox[a][c] \in Seq(Message) /\ inbox[a][c] # <<>>
      /\ core[c] \in Core
  BY <1>1 DEF RoomTypeOK, ClientReceive
<1>4. m \in Message /\ Handled(core[c], m) \in Core
  BY <1>3, HeadTaken, HandledTyped
<1>5. core' = [core EXCEPT ![c] = Handled(core[c], m)]
  BY DEF ClientReceive
<1> HIDE DEF m
<1>6. /\ core' \in [Peers -> Core] /\ core'[c] = Handled(core[c], m)
      /\ \A q \in Peers \ {c} : core'[q] = core[q]
  BY <1>1, <1>4, <1>5 DEF RoomTypeOK
<1>7. /\ inbox' \in [Peers -> [Peers -> Seq(Message)]]
      /\ \A b, q \in Peers :
            inbox'[b][q] = IF b = a /\ q = c THEN Tail(inbox[a][c])
                           ELSE inbox[b][q]
  BY <1>1, <1>3, TakenFrom DEF ClientReceive
<1>8. RoomTypeOK'
  BY <1>1, <1>2, <1>6, <1>7 DEF RoomTypeOK
<1>9. ClientsSelect'
  <2> SUFFICES ASSUME NEW b \in Clients, NEW q \in Peers
               PROVE  NoList(inbox'[b][q])
    BY DEF ClientsSelect
  <2>1. NoList(inbox[b][q]) /\ b \in Peers
    BY DEF RoomInv, ClientsSelect, Peers
  <2>2. CASE b = a /\ q = c
    BY <1>3, <1>7, <2>1, <2>2, HeadTaken
  <2>3. CASE ~ (b = a /\ q = c)
    BY <1>7, <2>1, <2>3
  <2> QED
    BY <2>2, <2>3
<1>10. Absent'
  <2> SUFFICES ASSUME NEW q \in Clients, q \notin connected
               PROVE  inbox'[Host][q] = <<>> /\ requests'[q] = {}
    BY <1>2 DEF Absent
  <2>1. inbox[Host][q] = <<>> /\ requests[q] = {} /\ q \in Peers
    BY DEF RoomInv, Absent, Peers
  <2> QED
    BY <1>1, <1>2, <1>3, <1>7, <2>1
<1>11. AllHear'
  <2> SUFFICES ASSUME NEW q \in connected, q \notin missed
               PROVE  WelcomeRight(q)' /\ Heard(q)'
    BY <1>2 DEF AllHear
  <2>1. q \in Clients /\ q \in Peers /\ WelcomeRight(q) /\ Heard(q)
    BY <1>1 DEF RoomInv, AllHear, RoomTypeOK, Peers
  <2>2. CASE q # c
    <3>1. inbox'[Host][q] = inbox[Host][q] /\ core'[q] = core[q]
      BY <1>1, <1>6, <1>7, <2>1, <2>2
    <3> QED
      BY <1>2, <2>1, <3>1, StillHears
  <2>3. CASE q = c /\ a # Host
    <3>1. m.type # "Playlist"
      <4>1. NoList(inbox[a][c])
        BY <1>1, <2>3 DEF RoomInv, ClientsSelect, Peers
      <4> QED
        BY <1>3, <4>1, HeadTaken DEF m
    <3>2. core'[c].playlist = core[c].playlist
      BY <1>3, <1>4, <1>6, <3>1, HandledTyped
    <3>3. inbox'[Host][c] = inbox[Host][c]
      BY <1>1, <1>7, <2>3
    <3> QED
      BY <1>2, <2>1, <2>3, <3>2, <3>3, StillHears
  <2>4. CASE q = c /\ a = Host
    <3> DEFINE box == inbox[Host][c]
    <3>1. box \in Seq(Message) /\ box # <<>> /\ m = Head(box)
      BY <1>3, <2>4 DEF m
    <3>2. inbox'[Host][c] = Tail(box)
      BY <1>1, <1>7, <2>4
    <3> HIDE DEF box
    <3>3. /\ NoList(box) => m.type # "Playlist" /\ NoList(Tail(box))
          /\ LastList(box, session.playlist) =>
               \/ LastList(Tail(box), session.playlist)
               \/ /\ m.type = "Playlist" /\ m.playlist = session.playlist
                  /\ NoList(Tail(box))
      BY <3>1, HeadTaken
    <3>4. /\ m.type = "Playlist" => core'[c].playlist = m.playlist
          /\ m.type # "Playlist" => core'[c].playlist = core[c].playlist
      BY <1>3, <1>4, <1>6, HandledTyped
    <3>5. WelcomeRight(c)'
      BY <1>2, <2>1, <2>4, <3>2, <3>3 DEF WelcomeRight, box
    <3>6. Heard(c)'
      <4>1. CASE LastList(box, session.playlist)
        BY <1>2, <3>2, <3>3, <3>4, <4>1 DEF Heard
      <4>2. CASE /\ NoList(box)
                 /\ \/ HasPlaylist(welcome[c]) \/ requests[c] # {}
                    \/ core[c].playlist = session.playlist
        <5>1. HasPlaylist(welcome[c])' <=> HasPlaylist(welcome[c])
          BY <1>2
        <5> QED
          BY <1>2, <3>2, <3>3, <3>4, <4>2, <5>1 DEF Heard
      <4> QED
        BY <2>1, <2>4, <4>1, <4>2 DEF Heard, box
    <3> QED
      BY <2>4, <3>5, <3>6
  <2> QED
    BY <2>2, <2>3, <2>4
<1> QED
  BY <1>8, <1>9, <1>10, <1>11 DEF RoomInv

LEMMA ReceiveWelcomeKeeps ==
  ASSUME RoomInv, NEW c \in Clients, NEW m \in Message, ReceiveWelcome(c, m)
  PROVE  RoomInv'
<1>1. RoomTypeOK /\ c \in Peers
  BY DEF RoomInv, Peers
<1>2. UNCHANGED <<session, toComm, toCore, connected, subscribed, requests,
                  inbox, missed, joins, changes>>
  BY DEF ReceiveWelcome
<1>3. core[c] \in Core /\ Handled(core[c], m) \in Core
  BY <1>1, HandledTyped DEF RoomTypeOK
<1>4. core' = [core EXCEPT ![c] = Handled(core[c], m)]
  BY DEF ReceiveWelcome
<1>5. /\ core' \in [Peers -> Core] /\ core'[c] = Handled(core[c], m)
      /\ \A q \in Peers \ {c} : core'[q] = core[q]
  BY <1>1, <1>3, <1>4 DEF RoomTypeOK
<1>6. /\ welcome' \in [Clients -> SUBSET Message]
      /\ welcome'[c] = welcome[c] \ {m} /\ m \in welcome[c]
      /\ \A q \in Clients \ {c} : welcome'[q] = welcome[q]
  BY <1>1 DEF RoomTypeOK, ReceiveWelcome
<1>7. RoomTypeOK'
  BY <1>1, <1>2, <1>5, <1>6 DEF RoomTypeOK
<1>8. ClientsSelect' /\ Absent'
  BY <1>2 DEF RoomInv, ClientsSelect, Absent
<1>9. AllHear'
  <2> SUFFICES ASSUME NEW q \in connected, q \notin missed
               PROVE  WelcomeRight(q)' /\ Heard(q)'
    BY <1>2 DEF AllHear
  <2>1. q \in Clients /\ q \in Peers /\ WelcomeRight(q) /\ Heard(q)
    BY <1>1 DEF RoomInv, AllHear, RoomTypeOK, Peers
  <2>2. CASE q # c
    <3>1. welcome'[q] = welcome[q] /\ core'[q] = core[q]
      BY <1>5, <1>6, <2>1, <2>2
    <3> QED
      BY <1>2, <2>1, <3>1, StillHears
  <2>3. CASE q = c
    <3>1. WelcomeRight(c)'
      BY <1>2, <1>6, <2>1, <2>3 DEF WelcomeRight
    <3>2. /\ m.type = "Playlist" => core'[c].playlist = m.playlist
          /\ m.type # "Playlist" => core'[c].playlist = core[c].playlist
      BY <1>3, <1>5, HandledTyped
    <3>3. m.type = "Playlist" => m.playlist = session.playlist
      BY <1>6, <2>1, <2>3 DEF WelcomeRight
    <3>4. m.type # "Playlist" => (HasPlaylist(welcome'[c]) <=> HasPlaylist(welcome[c]))
      BY <1>6 DEF HasPlaylist
    <3>5. Heard(c)'
      BY <1>2, <2>1, <2>3, <3>2, <3>3, <3>4 DEF Heard
    <3> QED
      BY <2>3, <3>1, <3>5
  <2> QED
    BY <2>2, <2>3
<1> QED
  BY <1>7, <1>8, <1>9 DEF RoomInv

\* What the host session does to the invariant when it takes a playlist over.
LEMMA PlaylistTaken ==
  ASSUME RoomInv, NEW pl \in RoomLists, NEW ms \in Seq(Message), LastList(ms, pl),
         Broadcast(Host, ms), session' = NextSession(pl),
         missed' = missed \cup PassedBy, UNCHANGED <<connected, welcome>>,
         \A c \in Clients : requests'[c] \subseteq requests[c]
  PROVE  /\ session' \in [playlist : RoomLists, select : Selection]
         /\ inbox' \in [Peers -> [Peers -> Seq(Message)]]
         /\ missed' \subseteq connected'
         /\ ClientsSelect' /\ Absent' /\ AllHear'
<1>1. RoomTypeOK /\ Host \in Peers /\ Clients \subseteq Peers /\ Host \notin Clients
  BY RoomStateAssumption DEF RoomInv, Peers
<1>2. /\ session' \in [playlist : RoomLists, select : Selection]
      /\ session'.playlist = pl
  BY <1>1, NextSessionTyped DEF RoomTypeOK
<1>3. missed' \subseteq connected'
  BY <1>1 DEF RoomTypeOK, PassedBy
<1>4. /\ inbox' \in [Peers -> [Peers -> Seq(Message)]]
      /\ \A b, q \in Peers :
            inbox'[b][q] = IF b = Host /\ q \in Audience(Host)
                           THEN inbox[b][q] \o ms ELSE inbox[b][q]
  BY <1>1, BroadcastReaches
<1>5. ClientsSelect'
  BY <1>1, <1>4 DEF RoomInv, ClientsSelect
<1>6. Absent'
  <2> SUFFICES ASSUME NEW c \in Clients, c \notin connected
               PROVE  inbox'[Host][c] = <<>> /\ requests'[c] = {}
    BY DEF Absent
  <2>1. c \in Peers /\ inbox[Host][c] = <<>> /\ requests[c] = {}
    BY <1>1 DEF RoomInv, Absent
  <2>2. c \notin Audience(Host)
    BY <1>1 DEF Audience, RoomTypeOK
  <2> QED
    BY <1>1, <1>4, <2>1, <2>2
<1>7. AllHear'
  BY <1>2, BroadcastHeard
<1> QED
  BY <1>2, <1>3, <1>4, <1>5, <1>6, <1>7

LEMMA OnePlaylist ==
  ASSUME NEW pl \in RoomLists
  PROVE  <<PlaylistMsg(pl)>> \in Seq(Message) /\ LastList(<<PlaylistMsg(pl)>>, pl)
<1> DEFINE m == PlaylistMsg(pl)
<1>1. m \in Message /\ m.type = "Playlist" /\ m.playlist = pl
  BY MessageKinds
<1> HIDE DEF m
<1>2. <<m>> \in Seq(Message) /\ DOMAIN <<m>> = {1} /\ <<m>>[1] = m
  BY <1>1
<1>3. LastList(<<m>>, pl)
  BY <1>1, <1>2 DEF LastList
<1> QED
  BY <1>2, <1>3 DEF m

LEMMA HandleCorePlaylistKeeps ==
  ASSUME RoomInv, NEW pl \in RoomLists, HandleCorePlaylist(pl),
         toComm' = Tail(toComm), toComm # <<>>,
         UNCHANGED <<core, connected, subscribed, welcome, requests, joins, changes>>
  PROVE  RoomInv'
<1> DEFINE ms == Append(NextSelects(pl), PlaylistMsg(pl))
<1>1. RoomTypeOK /\ Host \in Peers
  BY DEF RoomInv, Peers
<1>2. NextSelects(pl) \in Seq(Message)
  BY NextSelectsTyped
<1>3. ms \in Seq(Message) /\ LastList(ms, pl)
  <2>1. PlaylistMsg(pl) \in Message
    BY MessageKinds
  <2>2. ms = NextSelects(pl) \o <<PlaylistMsg(pl)>>
    BY <1>2, <2>1
  <2>3. /\ NextSelects(pl) \o <<PlaylistMsg(pl)>> \in Seq(Message)
        /\ LastList(NextSelects(pl) \o <<PlaylistMsg(pl)>>, pl)
    BY <1>2, OnePlaylist, Concatenated
  <2> QED
    BY <2>2, <2>3
<1>4. /\ toCore' = toCore \o NextSelects(pl) /\ Broadcast(Host, ms)
      /\ session' = NextSession(pl) /\ missed' = missed \cup PassedBy
  BY DEF HandleCorePlaylist
<1> HIDE DEF ms
<1>5. toCore' \in Seq(Message) /\ toComm' \in Seq(Message)
  BY <1>1, <1>2, <1>4, HeadTaken DEF RoomTypeOK
<1>6. /\ session' \in [playlist : RoomLists, select : Selection]
      /\ inbox' \in [Peers -> [Peers -> Seq(Message)]]
      /\ missed' \subseteq connected'
      /\ ClientsSelect' /\ Absent' /\ AllHear'
  BY <1>3, <1>4, PlaylistTaken
<1>7. RoomTypeOK'
  BY <1>1, <1>5, <1>6 DEF RoomTypeOK
<1> QED
  BY <1>6, <1>7 DEF RoomInv

LEMMA HandleCoreSelectKeeps ==
  ASSUME RoomInv, NEW v \in Selection, HandleCoreSelect(v),
         toComm' = Tail(toComm), toComm # <<>>,
         UNCHANGED <<core, connected, subscribed, welcome, requests, joins, changes>>
  PROVE  RoomInv'
<1> DEFINE ms == <<SelectMsg(v)>>
<1>1. RoomTypeOK /\ Host \in Peers /\ Clients \subseteq Peers /\ Host \notin Clients
  BY RoomStateAssumption DEF RoomInv, Peers
<1>2. ms \in Seq(Message) /\ NoList(ms)
  BY MessageKinds DEF NoList
<1>3. /\ session' = [session EXCEPT !.select = v] /\ Broadcast(Host, ms)
      /\ UNCHANGED <<toCore, missed>>
  BY DEF HandleCoreSelect
<1> HIDE DEF ms
<1>4. /\ session' \in [playlist : RoomLists, select : Selection]
      /\ session'.playlist = session.playlist
  BY <1>1, <1>3 DEF RoomTypeOK
<1>5. /\ inbox' \in [Peers -> [Peers -> Seq(Message)]]
      /\ \A b, q \in Peers :
            inbox'[b][q] = IF b = Host /\ q \in Audience(Host)
                           THEN inbox[b][q] \o ms ELSE inbox[b][q]
  BY <1>1, <1>2, <1>3, BroadcastReaches
<1>6. toComm' \in Seq(Message)
  BY <1>1, HeadTaken DEF RoomTypeOK
<1>7. RoomTypeOK'
  BY <1>1, <1>3, <1>4, <1>5, <1>6 DEF RoomTypeOK
<1>8. ClientsSelect'
  BY <1>1, <1>5 DEF RoomInv, ClientsSelect
<1>9. Absent'
  <2> SUFFICES ASSUME NEW c \in Clients, c \notin connected
               PROVE  inbox'[Host][c] = <<>> /\ requests'[c] = {}
    BY DEF Absent
  <2>1. c \in Peers /\ inbox[Host][c] = <<>> /\ requests[c] = {}
    BY <1>1 DEF RoomInv, Absent
  <2>2. c \notin Audience(Host)
    BY <1>1 DEF Audience, RoomTypeOK
  <2> QED
    BY <1>1, <1>5, <2>1, <2>2
<1>10. AllHear'
  <2> SUFFICES ASSUME NEW c \in connected, c \notin missed
               PROVE  WelcomeRight(c)' /\ Heard(c)'
    BY <1>3 DEF AllHear
  <2>1. c \in Clients /\ c \in Peers /\ WelcomeRight(c) /\ Heard(c)
    BY <1>1 DEF RoomInv, AllHear, RoomTypeOK
  <2>2. inbox[Host][c] \in Seq(Message)
    BY <1>1, <2>1 DEF RoomTypeOK
  <2>3. inbox'[Host][c] = inbox[Host][c] \o ms \/ inbox'[Host][c] = inbox[Host][c]
    BY <1>1, <1>5, <2>1
  <2>4. /\ NoList(inbox[Host][c]) => NoList(inbox'[Host][c])
        /\ LastList(inbox[Host][c], session.playlist) =>
              LastList(inbox'[Host][c], session'.playlist)
    BY <1>2, <1>4, <2>2, <2>3, Concatenated
  <2> QED
    BY <1>4, <2>1, <2>4, StillHears
<1> QED
  BY <1>7, <1>8, <1>9, <1>10 DEF RoomInv

LEMMA HandleCoreMessageKeeps ==
  ASSUME RoomInv, HandleCoreMessage
  PROVE  RoomInv'
<1> DEFINE m == Head(toComm)
<1>1. m \in Message
  BY HeadTaken DEF HandleCoreMessage, RoomInv, RoomTypeOK
<1>2. /\ toComm' = Tail(toComm) /\ toComm # <<>>
      /\ UNCHANGED <<core, connected, subscribed, welcome, requests, joins, changes>>
      /\ \/ m.type = "Playlist" /\ HandleCorePlaylist(m.playlist)
         \/ m.type = "Select" /\ HandleCoreSelect(m.video)
  BY DEF HandleCoreMessage
<1> HIDE DEF m
<1>3. CASE m.type = "Playlist" /\ HandleCorePlaylist(m.playlist)
  <2>1. m.playlist \in RoomLists
    BY <1>1, <1>3, MessageKinds
  <2> QED
    BY <1>2, <1>3, <2>1, HandleCorePlaylistKeeps
<1>4. CASE m.type = "Select" /\ HandleCoreSelect(m.video)
  <2>1. m.video \in Selection
    BY <1>1, <1>4, MessageKinds
  <2> QED
    BY <1>2, <1>4, <2>1, HandleCoreSelectKeeps
<1> QED
  BY <1>2, <1>3, <1>4

LEMMA HandlePlaylistRequestKeeps ==
  ASSUME RoomInv, NEW c \in Clients, NEW pl \in RoomLists, HandlePlaylistRequest(c, pl)
  PROVE  RoomInv'
<1> DEFINE ms == <<PlaylistMsg(pl)>> \o NextSelects(pl)
<1>1. RoomTypeOK
  BY DEF RoomInv
<1>2. NextSelects(pl) \in Seq(Message) /\ NoList(NextSelects(pl))
  BY NextSelectsTyped
<1>3. <<PlaylistMsg(pl)>> \in Seq(Message) /\ LastList(<<PlaylistMsg(pl)>>, pl)
  BY OnePlaylist
<1>4. ms \in Seq(Message) /\ LastList(ms, pl)
  BY <1>2, <1>3, Concatenated
<1>5. /\ toCore' = toCore \o <<PlaylistMsg(pl)>> \o NextSelects(pl)
      /\ Broadcast(Host, ms)
      /\ session' = NextSession(pl) /\ missed' = missed \cup PassedBy
      /\ requests' = [requests EXCEPT ![c] = @ \ {pl}]
      /\ UNCHANGED <<core, toComm, connected, subscribed, welcome, joins, changes>>
  BY DEF HandlePlaylistRequest
<1> HIDE DEF ms
<1>6. toCore' \in Seq(Message)
  <2>1. toCore \o <<PlaylistMsg(pl)>> \in Seq(Message)
    BY <1>1, <1>3 DEF RoomTypeOK
  <2> QED
    BY <1>2, <1>5, <2>1
<1>7. /\ requests' \in [Clients -> SUBSET RoomLists]
      /\ \A d \in Clients : requests'[d] \subseteq requests[d]
  BY <1>1, <1>5 DEF RoomTypeOK
<1>8. /\ session' \in [playlist : RoomLists, select : Selection]
      /\ inbox' \in [Peers -> [Peers -> Seq(Message)]]
      /\ missed' \subseteq connected'
      /\ ClientsSelect' /\ Absent' /\ AllHear'
  BY <1>4, <1>5, <1>7, PlaylistTaken
<1>9. RoomTypeOK'
  BY <1>1, <1>5, <1>6, <1>7, <1>8 DEF RoomTypeOK
<1> QED
  BY <1>8, <1>9 DEF RoomInv

LEMMA HandleBroadcastKeeps ==
  ASSUME RoomInv, NEW c \in Clients, HandleBroadcast(c)
  PROVE  RoomInv'
<1> DEFINE m == Head(inbox[c][Host])
<1>1. RoomTypeOK /\ Host \in Peers /\ Clients \subseteq Peers /\ Host \notin Clients
  BY RoomStateAssumption DEF RoomInv, Peers
<1>2. /\ inbox[c][Host] \in Seq(Message) /\ inbox[c][Host] # <<>>
      /\ NoList(inbox[c][Host])
  BY <1>1 DEF RoomTypeOK, HandleBroadcast, RoomInv, ClientsSelect
<1>3. m \in Message /\ m.video \in Selection
  BY <1>2, HeadTaken, MessageKinds
<1>4. /\ session' = [session EXCEPT !.select = m.video]
      /\ toCore' = Append(toCore, m)
      /\ UNCHANGED <<core, toComm, connected, subscribed, welcome, requests,
                     missed, joins, changes>>
  BY DEF HandleBroadcast
<1> HIDE DEF m
<1>5. /\ session' \in [playlist : RoomLists, select : Selection]
      /\ session'.playlist = session.playlist
  BY <1>1, <1>3, <1>4 DEF RoomTypeOK
<1>6. toCore' \in Seq(Message)
  BY <1>1, <1>3, <1>4 DEF RoomTypeOK
<1>7. /\ inbox' \in [Peers -> [Peers -> Seq(Message)]]
      /\ \A b, q \in Peers :
            inbox'[b][q] = IF b = c /\ q = Host THEN Tail(inbox[c][Host])
                           ELSE inbox[b][q]
  BY <1>1, <1>2, TakenFrom DEF HandleBroadcast
<1>8. RoomTypeOK'
  BY <1>1, <1>4, <1>5, <1>6, <1>7 DEF RoomTypeOK
<1>9. ClientsSelect'
  <2> SUFFICES ASSUME NEW b \in Clients, NEW q \in Peers
               PROVE  NoList(inbox'[b][q])
    BY DEF ClientsSelect
  <2>1. NoList(inbox[b][q]) /\ b \in Peers
    BY <1>1 DEF RoomInv, ClientsSelect
  <2>2. NoList(Tail(inbox[c][Host]))
    BY <1>2, HeadTaken
  <2> QED
    BY <1>7, <2>1, <2>2
<1>10. \A d \in Clients : inbox'[Host][d] = inbox[Host][d]
  BY <1>1, <1>7
<1>11. Absent'
  BY <1>4, <1>10 DEF RoomInv, Absent
<1>12. AllHear'
  <2> SUFFICES ASSUME NEW d \in connected, d \notin missed
               PROVE  WelcomeRight(d)' /\ Heard(d)'
    BY <1>4 DEF AllHear
  <2>1. d \in Clients /\ WelcomeRight(d) /\ Heard(d)
    BY <1>1 DEF RoomInv, AllHear, RoomTypeOK
  <2> QED
    BY <1>4, <1>5, <1>10, <2>1, StillHears
<1> QED
  BY <1>8, <1>9, <1>11, <1>12 DEF RoomInv

LEMMA ConnectionEstablishedKeeps ==
  ASSUME RoomInv, NEW c \in Clients, ConnectionEstablished(c)
  PROVE  RoomInv'
<1> DEFINE first == {PlaylistMsg(session.playlist), SelectMsg(session.select)}
<1>1. RoomTypeOK /\ c \notin connected
  BY DEF RoomInv, ConnectionEstablished
<1>2. session.playlist \in RoomLists /\ session.select \in Selection
  BY <1>1 DEF RoomTypeOK
<1>3. /\ first \subseteq Message /\ HasPlaylist(first)
      /\ \A m \in first : m.type = "Playlist" => m.playlist = session.playlist
  BY <1>2, MessageKinds DEF HasPlaylist
<1>4. /\ connected' = connected \cup {c} /\ joins' \in 0 .. MaxJoins
      /\ welcome' = [welcome EXCEPT ![c] = first]
      /\ UNCHANGED <<core, session, toComm, toCore, subscribed, requests, inbox,
                     missed, changes>>
  BY <1>1, RoomStateAssumption DEF ConnectionEstablished, RoomTypeOK
<1> HIDE DEF first
<1>5. /\ welcome' \in [Clients -> SUBSET Message] /\ welcome'[c] = first
      /\ \A d \in Clients \ {c} : welcome'[d] = welcome[d]
  BY <1>1, <1>3, <1>4 DEF RoomTypeOK
<1>6. RoomTypeOK'
  BY <1>1, <1>4, <1>5 DEF RoomTypeOK
<1>7. ClientsSelect' /\ Absent'
  BY <1>4 DEF RoomInv, ClientsSelect, Absent
<1>8. AllHear'
  <2> SUFFICES ASSUME NEW d \in connected \cup {c}, d \notin missed
               PROVE  WelcomeRight(d)' /\ Heard(d)'
    BY <1>4 DEF AllHear
  <2>1. CASE d = c
    <3>1. inbox[Host][c] = <<>>
      BY <1>1 DEF RoomInv, Absent
    <3>2. NoList(inbox'[Host][c])
      BY <1>4, <3>1 DEF NoList
    <3> QED
      BY <1>3, <1>4, <1>5, <2>1, <3>2 DEF WelcomeRight, Heard
  <2>2. CASE d # c
    <3>1. d \in Clients /\ WelcomeRight(d) /\ Heard(d)
      BY <1>1, <2>2 DEF RoomInv, AllHear, RoomTypeOK
    <3>2. welcome'[d] = welcome[d]
      BY <1>5, <2>2, <3>1
    <3> QED
      BY <1>4, <3>1, <3>2, StillHears
  <2> QED
    BY <2>1, <2>2
<1> QED
  BY <1>6, <1>7, <1>8 DEF RoomInv

LEMMA SubscribeKeeps ==
  ASSUME RoomInv, NEW c \in Clients, Subscribe(c)
  PROVE  RoomInv'
<1>1. RoomTypeOK
  BY DEF RoomInv
<1>2. /\ UNCHANGED <<core, session, toComm, toCore, connected, welcome, requests,
                     inbox, missed, joins, changes>>
      /\ subscribed' \subseteq connected
  BY <1>1 DEF Subscribe, RoomTypeOK
<1>3. RoomTypeOK'
  BY <1>1, <1>2 DEF RoomTypeOK
<1> QED
  BY <1>2, <1>3, NetworkStays DEF RoomInv

\* A request that is lost may have been the playlist the client shows.
LEMMA LoseRequestKeeps ==
  ASSUME RoomInv, NEW c \in Clients, NEW pl \in RoomLists, LoseRequest(c, pl)
  PROVE  RoomInv'
<1>1. RoomTypeOK
  BY DEF RoomInv
<1>2. /\ missed' = missed \cup {c}
      /\ requests' = [requests EXCEPT ![c] = @ \ {pl}]
      /\ UNCHANGED <<core, session, toComm, toCore, connected, subscribed, welcome,
                     inbox, joins, changes>>
  BY DEF LoseRequest
<1>3. /\ requests' \in [Clients -> SUBSET RoomLists]
      /\ \A d \in Clients \ {c} : requests'[d] = requests[d]
      /\ requests'[c] \subseteq requests[c]
  BY <1>1, <1>2 DEF RoomTypeOK
<1>4. c \in connected
  BY DEF RoomInv, Absent, LoseRequest
<1>5. RoomTypeOK'
  BY <1>1, <1>2, <1>3, <1>4 DEF RoomTypeOK
<1>6. ClientsSelect'
  BY <1>2 DEF RoomInv, ClientsSelect
<1>7. Absent'
  BY <1>2, <1>3, <1>4 DEF RoomInv, Absent
<1>8. AllHear'
  <2> SUFFICES ASSUME NEW d \in connected, d \notin missed, d # c
               PROVE  WelcomeRight(d)' /\ Heard(d)'
    BY <1>2 DEF AllHear
  <2>1. d \in Clients /\ WelcomeRight(d) /\ Heard(d)
    BY <1>1 DEF RoomInv, AllHear, RoomTypeOK
  <2> QED
    BY <1>2, <1>3, <2>1, StillHears
<1> QED
  BY <1>5, <1>6, <1>7, <1>8 DEF RoomInv

LEMMA ConnectionClosedKeeps ==
  ASSUME RoomInv, NEW c \in Clients, ConnectionClosed(c)
  PROVE  RoomInv'
<1>1. RoomTypeOK /\ Host \in Peers /\ Clients \subseteq Peers /\ c # Host
  BY RoomStateAssumption DEF RoomInv, Peers
<1>2. /\ connected' = connected \ {c} /\ subscribed' = subscribed \ {c}
      /\ missed' = missed \ {c}
      /\ UNCHANGED <<core, session, toComm, toCore, joins, changes>>
  BY DEF ConnectionClosed
<1>3. /\ welcome' \in [Clients -> SUBSET Message]
      /\ \A d \in Clients \ {c} : welcome'[d] = welcome[d]
  BY <1>1 DEF RoomTypeOK, ConnectionClosed
<1>4. /\ requests' \in [Clients -> SUBSET RoomLists]
      /\ requests'[c] = {}
      /\ \A d \in Clients \ {c} : requests'[d] = requests[d]
  BY <1>1 DEF RoomTypeOK, ConnectionClosed
<1>5. /\ inbox' \in [Peers -> [Peers -> Seq(Message)]]
      /\ \A a, q \in Peers :
            inbox'[a][q] = IF a = c \/ q = c THEN <<>> ELSE inbox[a][q]
  BY <1>1 DEF RoomTypeOK, ConnectionClosed
<1>6. RoomTypeOK'
  BY <1>1, <1>2, <1>3, <1>4, <1>5 DEF RoomTypeOK
<1>7. ClientsSelect'
  <2> SUFFICES ASSUME NEW b \in Clients, NEW q \in Peers
               PROVE  NoList(inbox'[b][q])
    BY DEF ClientsSelect
  <2>1. NoList(inbox[b][q]) /\ NoList(<<>>)
    BY DEF RoomInv, ClientsSelect, NoList
  <2>2. inbox'[b][q] \in {<<>>, inbox[b][q]}
    BY <1>1, <1>5
  <2> QED
    BY <2>1, <2>2
<1>8. \A d \in Clients \ {c} : inbox'[Host][d] = inbox[Host][d]
  BY <1>1, <1>5
<1>9. Absent'
  <2>1. inbox'[Host][c] = <<>>
    BY <1>1, <1>5
  <2> QED
    BY <1>2, <1>4, <1>8, <2>1 DEF RoomInv, Absent
<1>10. AllHear'
  <2> SUFFICES ASSUME NEW d \in connected, d # c, d \notin missed
               PROVE  WelcomeRight(d)' /\ Heard(d)'
    BY <1>2 DEF AllHear
  <2>1. d \in Clients /\ WelcomeRight(d) /\ Heard(d)
    BY <1>1 DEF RoomInv, AllHear, RoomTypeOK
  <2> QED
    BY <1>2, <1>3, <1>4, <1>8, <2>1, StillHears
<1> QED
  BY <1>6, <1>7, <1>9, <1>10 DEF RoomInv

-----------------------------------------------------------------------------
(* The room: who shows which playlist.                                     *)

LEMMA RoomInitially ==
  RoomInit => RoomInv
<1> SUFFICES ASSUME RoomInit
             PROVE  RoomInv
  OBVIOUS
<1>1. PICK pl \in SavedLists : \E v \in Range(pl) \cup {None} :
        /\ core = [p \in Peers |->
               [playlist |-> IF p = Host THEN pl ELSE <<>>, playing |-> 0]]
        /\ session = [playlist |-> pl, select |-> v]
        /\ toCore = <<SelectMsg(v)>>
  BY DEF RoomInit
<1>2. PICK v \in Range(pl) \cup {None} :
        /\ core = [p \in Peers |->
               [playlist |-> IF p = Host THEN pl ELSE <<>>, playing |-> 0]]
        /\ session = [playlist |-> pl, select |-> v]
        /\ toCore = <<SelectMsg(v)>>
  BY <1>1
<1>3. pl \in RoomLists /\ v \in Selection
  <2>1. pl \in RoomLists /\ pl \in Seq(Videos)
    BY RoomStateAssumption
  <2>2. Range(pl) \subseteq Videos
    BY <2>1 DEF Range
  <2> QED
    BY <2>1, <2>2 DEF Selection
<1>4. core \in [Peers -> Core]
  BY <1>2, <1>3 DEF Core
<1>5. session \in [playlist : RoomLists, select : Selection]
  BY <1>2, <1>3
<1>6. toCore \in Seq(Message) /\ toComm \in Seq(Message)
  BY <1>2, <1>3, MessageKinds DEF RoomInit
<1>7. /\ inbox \in [Peers -> [Peers -> Seq(Message)]]
      /\ \A a, q \in Peers : inbox[a][q] = <<>>
  <2>1. <<>> \in Seq(Message)
    OBVIOUS
  <2> QED
    BY <2>1 DEF RoomInit
<1>8. RoomTypeOK
  BY <1>4, <1>5, <1>6, <1>7, RoomStateAssumption DEF RoomInit, RoomTypeOK
<1>9. Host \in Peers /\ Clients \subseteq Peers
  BY DEF Peers
<1>10. ClientsSelect /\ Absent /\ AllHear
  BY <1>7, <1>9 DEF RoomInit, ClientsSelect, NoList, Absent, AllHear
<1> QED
  BY <1>8, <1>10 DEF RoomInv

LEMMA RoomInductive ==
  RoomInv /\ [RoomNext]_roomVars => RoomInv'
<1> SUFFICES ASSUME RoomInv, [RoomNext]_roomVars
             PROVE  RoomInv'
  OBVIOUS
<1>1. CASE RoomNext
  BY <1>1, HostCoreReceiveKeeps, HandleCoreMessageKeeps, PlaylistChangeKeeps,
     VideoChangeKeeps, FileEndKeeps, ClientReceiveKeeps, ReceiveWelcomeKeeps,
     HandleBroadcastKeeps, ConnectionEstablishedKeeps, SubscribeKeeps,
     ConnectionClosedKeeps, HandlePlaylistRequestKeeps, LoseRequestKeeps,
     Zenon
     DEF RoomNext
<1>2. CASE UNCHANGED roomVars
  <2>1. UNCHANGED <<core, session, toComm, toCore, connected, subscribed, welcome,
                    requests, inbox, missed, joins, changes>>
    BY <1>2 DEF roomVars, network
  <2>2. RoomTypeOK'
    BY <2>1 DEF RoomInv, RoomTypeOK
  <2> QED
    BY <2>1, <2>2, NetworkStays DEF RoomInv
<1> QED
  BY <1>1, <1>2

\* The invariant holds in every reachable state.
THEOREM RoomInvariance == RoomSpec => []RoomInv
<1> QED
  BY RoomInitially, RoomInductive, PTL DEF RoomSpec

\* Every state of the room's playlist and selection is a proper one.
THEOREM RoomTypeCorrect == RoomSpec => []RoomTypeOK
<1>1. RoomInv => RoomTypeOK
  BY DEF RoomInv
<1> QED
  BY <1>1, RoomInvariance, PTL

\* Whoever edits when, however playlists cross each other on the network: a
\* client that no playlist passed by shows the host session's playlist as soon
\* as none is on its way between the two (broadcasts and requests of
\* client/communicator/src/p2p/host.rs).
THEOREM ClientsDoConverge == RoomSpec => []ClientsConverge
<1>1. RoomInv => ClientsConverge
  <2> SUFFICES ASSUME RoomInv, NEW c \in connected, c \notin missed, Quiet(c)
               PROVE  core[c].playlist = session.playlist
    BY DEF ClientsConverge
  <2>1. Heard(c) /\ inbox[Host][c] \in Seq(Message)
    BY DEF RoomInv, AllHear, RoomTypeOK, Peers
  <2>2. ~ LastList(inbox[Host][c], session.playlist)
    BY <2>1 DEF Quiet, HasPlaylist, LastList, Range
  <2> QED
    BY <2>1, <2>2 DEF Heard, Quiet
<1> QED
  BY <1>1, RoomInvariance, PTL

-----------------------------------------------------------------------------
(* The room: where the selection goes when videos are removed.             *)

Scanned == [pos : Nat, done : BOOLEAN, kept : BOOLEAN]

\* One round of the loop of select_next, case by case.
LEMMA RoundIs ==
  ASSUME NEW new, NEW v, NEW acc \in Scanned, NEW w,
         NEW to, to = ScanRound(new, v, acc, w), NEW next, next = new[acc.pos + 1]
  PROVE  /\ to \in Scanned
         /\ acc.done => to = acc
         /\ ~ acc.done /\ next = v => to.done /\ to.kept
         /\ ~ acc.done /\ next # v /\ w = v =>
              to.done /\ to.pos = acc.pos /\ (to.kept <=> acc.kept)
         /\ ~ acc.done /\ next # v /\ w # v /\ next # w => to = acc
         /\ ~ acc.done /\ next # v /\ w # v /\ next = w /\ acc.pos + 1 = Len(new) =>
              to.done /\ to.pos = acc.pos /\ (to.kept <=> acc.kept)
         /\ ~ acc.done /\ next # v /\ w # v /\ next = w /\ acc.pos + 1 # Len(new) =>
              ~ to.done /\ to.pos = acc.pos + 1 /\ (to.kept <=> acc.kept)
<1>1. to = CASE acc.done -> acc
             [] ~ acc.done /\ next = v -> [acc EXCEPT !.done = TRUE, !.kept = TRUE]
             [] ~ acc.done /\ next # v /\ w = v -> [acc EXCEPT !.done = TRUE]
             [] OTHER ->
                  IF next # w THEN acc
                  ELSE IF acc.pos + 1 = Len(new) THEN [acc EXCEPT !.done = TRUE]
                  ELSE [acc EXCEPT !.pos = acc.pos + 1]
  BY DEF ScanRound
<1>2. CASE acc.done
  BY <1>1, <1>2
<1>3. CASE ~ acc.done /\ next = v
  <2>1. to = [acc EXCEPT !.done = TRUE, !.kept = TRUE]
    BY <1>1, <1>3
  <2> QED
    BY <1>3, <2>1 DEF Scanned
<1>4. CASE ~ acc.done /\ next # v /\ w = v
  <2>1. to = [acc EXCEPT !.done = TRUE]
    BY <1>1, <1>4
  <2> QED
    BY <1>4, <2>1 DEF Scanned
<1>5. CASE ~ acc.done /\ next # v /\ w # v
  <2>1. to = IF next # w THEN acc
             ELSE IF acc.pos + 1 = Len(new) THEN [acc EXCEPT !.done = TRUE]
             ELSE [acc EXCEPT !.pos = acc.pos + 1]
    BY <1>1, <1>5
  <2>2. CASE next # w
    BY <1>5, <2>1, <2>2
  <2>3. CASE next = w /\ acc.pos + 1 = Len(new)
    <3>1. to = [acc EXCEPT !.done = TRUE]
      BY <2>1, <2>3
    <3> QED
      BY <1>5, <2>3, <3>1 DEF Scanned
  <2>4. CASE next = w /\ acc.pos + 1 # Len(new)
    <3>1. to = [acc EXCEPT !.pos = acc.pos + 1]
      BY <2>1, <2>4
    <3>2. to \in Scanned
      BY <3>1 DEF Scanned
    <3> QED
      BY <1>5, <2>4, <3>1, <3>2
  <2> QED
    BY <2>2, <2>3, <2>4
<1> QED
  BY <1>2, <1>3, <1>4, <1>5

LEMMA RoundTyped ==
  ASSUME NEW new, NEW v, NEW acc \in Scanned, NEW w
  PROVE  ScanRound(new, v, acc, w) \in Scanned
<1>1. PICK to : to = ScanRound(new, v, acc, w)
  OBVIOUS
<1>2. PICK next : next = new[acc.pos + 1]
  OBVIOUS
<1>3. to \in Scanned
  BY <1>1, <1>2, RoundIs
<1> QED
  BY <1>1, <1>3

\* The rounds of the loop over the old playlist.
LEMMA ScanSteps ==
  ASSUME NEW old \in Seq(Videos), NEW new \in Seq(Videos), new # <<>>, NEW v \in Videos
  PROVE  \E a \in [0 .. Len(old) -> Scanned] :
           /\ a[0] = [pos |-> 0, done |-> FALSE, kept |-> FALSE]
           /\ a[Len(old)] = Scan(new, v, old)
           /\ \A k \in 1 .. Len(old) : a[k] = ScanRound(new, v, a[k - 1], old[k])
<1> DEFINE n == Len(old)
           A == Scanned
           base == [pos |-> 0, done |-> FALSE, kept |-> FALSE]
           pick == [s \in SUBSET (1 .. n) |-> Max(s)]
           does == [k \in 1 .. n |-> [a \in A |-> ScanRound(new, v, a, old[k])]]
           Is(f) == f = [s \in SUBSET DOMAIN old |->
                           IF s = {} THEN base
                           ELSE LET x == Max(s)
                                IN ScanRound(new, v, f[s \ {x}], old[x])]
           iter == CHOOSE f : Is(f)
           r == [k \in 0 .. n |-> iter[1 .. k]]
<1>1. n \in Nat /\ DOMAIN old = 1 .. n /\ base \in A /\ IsFiniteSet(1 .. n)
  BY FS_Interval DEF Scanned
<1>2. \A s \in SUBSET (1 .. n) : s # {} => pick[s] \in s
  BY <1>1, Extremes
<1>3. does \in [1 .. n -> [A -> A]]
  <2>1. ASSUME NEW k \in 1 .. n, NEW a \in Scanned
        PROVE  ScanRound(new, v, a, old[k]) \in Scanned
    BY RoundTyped
  <2> QED
    BY <2>1
<1>4. Is(iter)
  <2>0. PICK g : IsFold(g, A, 1 .. n, pick, does, base)
    <3> HIDE DEF pick, does, A, n, base
    <3> QED
      BY <1>1, <1>2, <1>3, FoldExists
  <2>1. /\ g \in [SUBSET (1 .. n) -> A]
        /\ \A s \in SUBSET (1 .. n) :
             g[s] = IF s = {} THEN base ELSE does[pick[s]][g[s \ {pick[s]}]]
    <3> HIDE DEF pick, does, A, n, base
    <3> QED
      BY <2>0 DEF IsFold
  <2>2. ASSUME NEW s \in SUBSET (1 .. n), s # {}
        PROVE  g[s] = ScanRound(new, v, g[s \ {Max(s)}], old[Max(s)])
    <3>1. pick[s] = Max(s)
      OBVIOUS
    <3>2. Max(s) \in 1 .. n
      BY <1>2, <2>2, <3>1
    <3>3. g[s \ {Max(s)}] \in A
      BY <2>1
    <3>4. g[s] = does[Max(s)][g[s \ {Max(s)}]]
      BY <2>1, <2>2, <3>1
    <3> QED
      BY <3>2, <3>3, <3>4
  <2>3. Is(g)
    <3> HIDE DEF A, base
    <3> QED
      BY <1>1, <2>1, <2>2
  <2> QED
    BY <2>3, Zenon
<1>5. Scan(new, v, old) = iter[DOMAIN old]
  <2>1. ~ (v = None \/ new = <<>>)
    BY PlaylistsAssumption
  <2> QED
    BY <2>1 DEF Scan, FoldLeft, MapThenFoldSet
<1> HIDE DEF iter, base
<1>6. r[0] = base /\ r[n] = Scan(new, v, old)
  <2>1. iter[{}] = base
    BY <1>4
  <2>2. 1 .. 0 = {}
    OBVIOUS
  <2> QED
    BY <1>1, <1>5, <2>1, <2>2
<1>7. ASSUME NEW k \in 1 .. n
      PROVE  r[k] = ScanRound(new, v, r[k - 1], old[k])
  <2>1. /\ 1 .. k \in SUBSET DOMAIN old /\ 1 .. k # {} /\ Max(1 .. k) = k
        /\ (1 .. k) \ {k} = 1 .. (k - 1)
    <3>1. k \in Nat /\ 1 \in 1 .. k /\ 1 <= k
      BY <1>1
    <3>2. Max(1 .. k) = k
      BY <3>1, EndsOfInterval
    <3>3. 1 .. k \in SUBSET (1 .. n) /\ (1 .. k) \ {k} = 1 .. (k - 1)
      BY <1>1
    <3> QED
      BY <1>1, <3>1, <3>2, <3>3
  <2>2. iter[1 .. k] = ScanRound(new, v, iter[1 .. (k - 1)], old[k])
    BY <1>4, <2>1
  <2> QED
    BY <1>1, <2>2
<1>8. r \in [0 .. n -> A]
  <2> DEFINE T == {k \in 0 .. n : r[k] \in A}
  <2> HIDE DEF r
  <2>1. 0 \in T
    <3> HIDE DEF n, A
    <3> QED
      BY <1>1, <1>6
  <2>2. ASSUME NEW k \in 1 .. n, k - 1 \in T
        PROVE  k \in T
    <3>1. k \in 0 .. n /\ r[k - 1] \in Scanned
      BY <1>1, <2>2
    <3>2. ScanRound(new, v, r[k - 1], old[k]) \in Scanned
      BY <3>1, RoundTyped
    <3>3. r[k] \in A
      BY <1>7, <2>2, <3>2
    <3> QED
      BY <3>1, <3>3
  <2>3. \A k \in 0 .. n : k \in T
    <3> HIDE DEF T
    <3> QED
      BY <1>1, <2>1, <2>2, Reaches
  <2>4. \A k \in 0 .. n : r[k] \in A
    BY <2>3
  <2> QED
    BY <2>4 DEF r
<1>9. /\ r[0] = [pos |-> 0, done |-> FALSE, kept |-> FALSE]
      /\ r[n] = Scan(new, v, old)
      /\ \A k \in 1 .. n : r[k] = ScanRound(new, v, r[k - 1], old[k])
  BY <1>6, <1>7 DEF base
<1> HIDE DEF r
<1> QED
  BY <1>8, <1>9

\* What remains of a list, counted along the list: c[k] of its first k videos
\* remain, and the last of them is the c[k]th of what remains.
Counts(c, new, old) ==
    /\ c \in [0 .. Len(old) -> 0 .. Len(new)]
    /\ c[0] = 0 /\ c[Len(old)] = Len(new)
    /\ \A k \in 1 .. Len(old) :
         IF old[k] \in Range(new)
         THEN c[k] = c[k - 1] + 1 /\ new[c[k]] = old[k]
         ELSE c[k] = c[k - 1]

LEMMA RemainsCounted ==
  ASSUME NEW old \in Seq(Videos), NEW new \in Seq(Videos), new = Kept(old, Range(new))
  PROVE  \E c : Counts(c, new, old)
<1> DEFINE n == Len(old)
<1>1. n \in Nat
  OBVIOUS
<1>2. PICK r \in [0 .. n -> Seq(Videos)] :
        /\ r[0] = <<>> /\ r[n] = new
        /\ \A k \in 1 .. n :
             r[k] = IF old[k] \in Range(new) THEN Append(r[k - 1], old[k]) ELSE r[k - 1]
  BY KeptSteps
<1>3. \A k \in 1 .. n : k - 1 \in 0 .. n /\ k \in 0 .. n /\ old[k] \in Videos
  OBVIOUS
<1> DEFINE T == {k \in 0 .. n : /\ Len(r[k]) <= Len(new)
                                /\ \A i \in 1 .. Len(r[k]) : new[i] = r[k][i]}
<1> HIDE DEF n
<1>4. ASSUME NEW k \in 1 .. n
      PROVE  IF old[k] \in Range(new)
             THEN /\ Len(r[k]) = Len(r[k - 1]) + 1 /\ r[k][Len(r[k])] = old[k]
                  /\ \A i \in 1 .. Len(r[k - 1]) : r[k][i] = r[k - 1][i]
             ELSE r[k] = r[k - 1]
  <2>1. r[k - 1] \in Seq(Videos)
    BY <1>2, <1>3
  <2>2. r[k] = IF old[k] \in Range(new) THEN Append(r[k - 1], old[k]) ELSE r[k - 1]
    BY <1>2
  <2>3. PICK s \in Seq(Videos) : s = r[k - 1]
    BY <2>1
  <2>4. /\ Len(Append(s, old[k])) = Len(s) + 1
        /\ Append(s, old[k])[Len(s) + 1] = old[k]
        /\ \A i \in 1 .. Len(s) : Append(s, old[k])[i] = s[i]
    BY <1>3
  <2> QED
    BY <2>2, <2>3, <2>4
<1>5. \A k \in 0 .. n : k \in T
  <2>1. n \in T
    BY <1>1, <1>2
  <2>2. ASSUME NEW k \in 0 .. (n - 1), k + 1 \in T
        PROVE  k \in T
    <3>1. k + 1 \in 1 .. n /\ (k + 1) - 1 = k /\ k \in 0 .. n
      BY <1>1
    <3>2. r[k] \in Seq(Videos) /\ r[k + 1] \in Seq(Videos)
      BY <1>2, <1>3, <3>1
    <3>3. /\ Len(r[k + 1]) <= Len(new)
          /\ \A i \in 1 .. Len(r[k + 1]) : new[i] = r[k + 1][i]
      BY <2>2
    <3>4. \/ r[k + 1] = r[k]
          \/ /\ Len(r[k + 1]) = Len(r[k]) + 1
             /\ \A i \in 1 .. Len(r[k]) : r[k + 1][i] = r[k][i]
      BY <1>4, <3>1
    <3>5. Len(r[k]) \in Nat /\ Len(r[k + 1]) \in Nat /\ Len(new) \in Nat
      BY <3>2
    <3>6. /\ Len(r[k]) <= Len(new)
          /\ \A i \in 1 .. Len(r[k]) : new[i] = r[k][i]
      BY <3>3, <3>4, <3>5
    <3> QED
      BY <3>1, <3>6
  <2> HIDE DEF T
  <2> QED
    BY <1>1, <2>1, <2>2, ReachesDown
<1> DEFINE c == [k \in 0 .. n |-> Len(r[k])]
<1>6. c \in [0 .. n -> 0 .. Len(new)]
  <2>1. ASSUME NEW k \in 0 .. n
        PROVE  Len(r[k]) \in 0 .. Len(new)
    <3>1. Len(r[k]) \in Nat /\ Len(new) \in Nat
      BY <1>2
    <3>2. Len(r[k]) <= Len(new)
      BY <1>5
    <3> QED
      BY <3>1, <3>2
  <2> QED
    BY <2>1
<1>7. c[0] = 0 /\ c[n] = Len(new)
  BY <1>1, <1>2
<1>8. ASSUME NEW k \in 1 .. n
      PROVE  IF old[k] \in Range(new)
             THEN c[k] = c[k - 1] + 1 /\ new[c[k]] = old[k]
             ELSE c[k] = c[k - 1]
  <2>1. c[k] = Len(r[k]) /\ c[k - 1] = Len(r[k - 1])
    BY <1>3
  <2>2. CASE old[k] \in Range(new)
    <3>1. /\ Len(r[k]) = Len(r[k - 1]) + 1 /\ r[k][Len(r[k])] = old[k]
      BY <1>4, <2>2
    <3>2. Len(r[k - 1]) \in Nat
      BY <1>2, <1>3
    <3>3. Len(r[k]) \in 1 .. Len(r[k])
      BY <3>1, <3>2
    <3>4. k \in T
      BY <1>3, <1>5
    <3>5. new[Len(r[k])] = r[k][Len(r[k])]
      BY <3>3, <3>4
    <3> HIDE DEF c
    <3> QED
      BY <2>1, <2>2, <3>1, <3>5
  <2>3. CASE old[k] \notin Range(new)
    <3>1. r[k] = r[k - 1]
      BY <1>4, <2>3
    <3> HIDE DEF c
    <3> QED
      BY <2>1, <2>3, <3>1
  <2> QED
    BY <2>2, <2>3
<1> HIDE DEF c
<1>9. Counts(c, new, old)
  BY <1>6, <1>7, <1>8 DEF Counts, n
<1> QED
  BY <1>9

\* The count never falls.
LEMMA CountsGrow ==
  ASSUME NEW old \in Seq(Videos), NEW new \in Seq(Videos), NEW c, Counts(c, new, old),
         NEW i \in 0 .. Len(old), NEW j \in 0 .. Len(old), i <= j
  PROVE  c[i] <= c[j]
<1> DEFINE n == Len(old)
           T == {k \in 0 .. n : i <= k => c[i] <= c[k]}
<1>1. n \in Nat /\ Len(new) \in Nat
  OBVIOUS
<1>2. \A k \in 0 .. n : c[k] \in Nat
  BY <1>1 DEF Counts
<1>3. 0 \in T
  BY <1>1, <1>2
<1>4. ASSUME NEW k \in 1 .. n, k - 1 \in T
      PROVE  k \in T
  <2>1. k - 1 \in 0 .. n /\ k \in 0 .. n /\ i \in 0 .. n
    BY <1>1
  <2>2. c[k - 1] <= c[k]
    <3>1. c[k] = c[k - 1] + 1 \/ c[k] = c[k - 1]
      BY <1>4 DEF Counts
    <3> QED
      BY <1>2, <2>1, <3>1
  <2>3. CASE i <= k - 1
    <3>1. c[i] <= c[k - 1]
      BY <1>4, <2>3
    <3>2. c[i] \in Nat /\ c[k - 1] \in Nat /\ c[k] \in Nat
      BY <1>2, <2>1
    <3> QED
      BY <2>1, <2>2, <3>1, <3>2
  <2>4. CASE ~ (i <= k - 1)
    <3>1. i <= k => i = k
      BY <2>1, <2>4
    <3> QED
      BY <1>2, <2>1, <3>1
  <2> QED
    BY <2>3, <2>4
<1>5. \A k \in 0 .. n : k \in T
  <2> HIDE DEF T, n
  <2> QED
    BY <1>1, <1>3, <1>4, Reaches
<1> QED
  BY <1>5

\* What remains comes from the list.
LEMMA CountsAll ==
  ASSUME NEW old \in Seq(Videos), NEW new \in Seq(Videos), NEW c, Counts(c, new, old),
         NEW j \in 1 .. Len(new)
  PROVE  \E k \in 1 .. Len(old) :
           old[k] \in Range(new) /\ c[k] = j /\ new[j] = old[k]
<1> DEFINE n == Len(old)
           S == {k \in 0 .. n : c[k] >= j}
<1>1. n \in Nat /\ Len(new) \in Nat
  OBVIOUS
<1>2. c[0] = 0 /\ c[n] = Len(new) /\ \A k \in 0 .. n : c[k] \in Nat
  <2>1. /\ c \in [0 .. n -> 0 .. Len(new)]
        /\ c[0] = 0 /\ c[n] = Len(new)
    BY Zenon DEF Counts
  <2> HIDE DEF n
  <2> QED
    BY <1>1, <2>1
<1>3. PICK k \in S : \A l \in S : k <= l
  <2>1. n \in S /\ S \in SUBSET Nat
    BY <1>1, <1>2
  <2> HIDE DEF S
  <2> QED
    BY <2>1, HasLeast
<1>4. k \in 1 .. n /\ k - 1 \in 0 .. n
  BY <1>1, <1>2, <1>3
<1>5. c[k - 1] < j /\ c[k] >= j
  <2>1. k - 1 \notin S
    BY <1>3, <1>4
  <2> QED
    BY <1>2, <1>3, <1>4, <2>1
<1>6. old[k] \in Range(new) /\ c[k] = c[k - 1] + 1 /\ new[c[k]] = old[k]
  <2>1. c[k] # c[k - 1]
    BY <1>2, <1>4, <1>5
  <2> QED
    BY <1>4, <2>1 DEF Counts
<1>7. c[k] = j
  BY <1>2, <1>4, <1>5, <1>6
<1> QED
  BY <1>4, <1>6, <1>7

\* Videos that are removed make the list shorter.
LEMMA CountsFewer ==
  ASSUME NEW old \in Seq(Videos), NEW new \in Seq(Videos), NEW c, Counts(c, new, old),
         new # old
  PROVE  Len(new) < Len(old)
<1> DEFINE n == Len(old)
<1>1. n \in Nat /\ Len(new) \in Nat
  OBVIOUS
<1>2. c[0] = 0 /\ c[n] = Len(new) /\ \A k \in 0 .. n : c[k] \in Nat
  <2>1. /\ c \in [0 .. n -> 0 .. Len(new)]
        /\ c[0] = 0 /\ c[n] = Len(new)
    BY Zenon DEF Counts
  <2> HIDE DEF n
  <2> QED
    BY <1>1, <2>1
<1>3. PICK g \in 1 .. n : old[g] \notin Range(new)
  <2> SUFFICES ASSUME \A k \in 1 .. n : old[k] \in Range(new)
               PROVE  FALSE
    OBVIOUS
  <2> DEFINE T == {k \in 0 .. n : c[k] = k}
  <2>1. \A k \in 1 .. n : c[k] = c[k - 1] + 1 /\ new[c[k]] = old[k]
    BY DEF Counts
  <2>2. 0 \in T
    BY <1>1, <1>2
  <2>3. \A k \in 1 .. n : k - 1 \in T => k \in T
    BY <1>1, <2>1
  <2>4. \A k \in 0 .. n : k \in T
    <3> HIDE DEF T, n
    <3> QED
      BY <1>1, <2>2, <2>3, Reaches
  <2>5. Len(new) = n
    BY <1>1, <1>2, <2>4
  <2>6. \A k \in 1 .. n : new[k] = old[k]
    BY <1>1, <2>1, <2>4
  <2> QED
    BY <2>5, <2>6
<1> DEFINE T == {k \in 0 .. n : c[k] <= k /\ (k >= g => c[k] <= k - 1)}
<1>4. 0 \in T
  BY <1>1, <1>2
<1>5. ASSUME NEW k \in 1 .. n, k - 1 \in T
      PROVE  k \in T
  <2>1. k - 1 \in 0 .. n /\ k \in 0 .. n
    BY <1>1
  <2>2. c[k - 1] \in Nat /\ c[k] \in Nat
    BY <1>2, <2>1
  <2>3. /\ c[k] = c[k - 1] + 1 \/ c[k] = c[k - 1]
        /\ k = g => c[k] = c[k - 1]
    BY <1>3 DEF Counts
  <2>4. c[k - 1] <= k - 1 /\ (k - 1 >= g => c[k - 1] <= (k - 1) - 1)
    BY <1>5
  <2>5. c[k] <= k
    BY <2>1, <2>2, <2>3, <2>4
  <2>6. k >= g => c[k] <= k - 1
    <3>1. CASE k = g
      BY <2>2, <2>3, <2>4, <3>1
    <3>2. CASE k # g
      BY <2>1, <2>2, <2>3, <2>4, <3>2
    <3> QED
      BY <3>1, <3>2
  <2> QED
    BY <2>1, <2>5, <2>6
<1>6. \A k \in 0 .. n : k \in T
  <2> HIDE DEF T, n
  <2> QED
    BY <1>1, <1>4, <1>5, Reaches
<1>7. c[n] <= n - 1
  BY <1>1, <1>6
<1> QED
  BY <1>1, <1>2, <1>7

\* A round before the selected video, v, turned up: it is the next of those that
\* remain, or the loop counts on, or what remains is at its end.
LEMMA RoundCounts ==
  ASSUME NEW old \in Seq(Videos), NEW new \in Seq(Videos), NEW c, Counts(c, new, old),
         NEW v, NEW k \in 1 .. Len(old), old[k] # v,
         NEW acc \in Scanned, ~ acc.done, ~ acc.kept, acc.pos = c[k - 1],
         c[k - 1] < Len(new), NEW to, to = ScanRound(new, v, acc, old[k])
  PROVE  \/ to.done /\ to.kept /\ v \in Range(new)
         \/ ~ to.done /\ ~ to.kept /\ to.pos = c[k] /\ c[k] < Len(new)
         \/ to.done /\ ~ to.kept /\ to.pos = Len(new) - 1 /\ c[k] = Len(new)
<1>1. PICK next : next = new[acc.pos + 1]
  OBVIOUS
<1>2. /\ acc.pos \in Nat /\ Len(new) \in Nat /\ acc.pos + 1 \in 1 .. Len(new)
      /\ next \in Range(new)
  <2>1. acc.pos \in Nat /\ Len(new) \in Nat
    BY DEF Scanned
  <2>2. acc.pos + 1 \in 1 .. Len(new)
    BY <2>1
  <2> QED
    BY <1>1, <2>1, <2>2 DEF Range
<1>3. /\ next = v => to.done /\ to.kept
      /\ next # v /\ next # old[k] => to = acc
      /\ next # v /\ next = old[k] /\ acc.pos + 1 = Len(new) =>
           to.done /\ to.pos = acc.pos /\ ~ to.kept
      /\ next # v /\ next = old[k] /\ acc.pos + 1 # Len(new) =>
           ~ to.done /\ to.pos = acc.pos + 1 /\ ~ to.kept
  BY <1>1, RoundIs
<1>4. CASE next = v
  <2>1. to.done /\ to.kept
    BY <1>3, <1>4
  <2> QED
    BY <1>2, <1>4, <2>1
<1>5. CASE next # v /\ old[k] \notin Range(new)
  <2>1. next # old[k]
    BY <1>2, <1>5
  <2>2. to = acc
    BY <1>3, <1>5, <2>1
  <2>3. c[k] = c[k - 1]
    BY <1>5 DEF Counts
  <2> QED
    BY <2>2, <2>3
<1>6. CASE next # v /\ old[k] \in Range(new)
  <2>1. c[k] = acc.pos + 1 /\ new[c[k]] = old[k]
    BY <1>6 DEF Counts
  <2>2. next = old[k]
    BY <1>1, <2>1
  <2>3. CASE acc.pos + 1 = Len(new)
    <3>1. to.done /\ ~ to.kept /\ to.pos = acc.pos
      BY <1>3, <1>6, <2>2, <2>3
    <3> QED
      BY <1>2, <2>1, <2>3, <3>1
  <2>4. CASE acc.pos + 1 # Len(new)
    <3>1. ~ to.done /\ ~ to.kept /\ to.pos = acc.pos + 1
      BY <1>3, <1>6, <2>2, <2>4
    <3> QED
      BY <1>2, <2>1, <2>4, <3>1
  <2> QED
    BY <2>3, <2>4
<1> QED
  BY <1>4, <1>5, <1>6

\* The loop finds out whether the selected video, the ith of the old list,
\* remains; if not then it stands before the first one behind it that does, or
\* at the last one.
LEMMA ScanEnds ==
  ASSUME NEW old \in Seq(Videos), NEW new \in Seq(Videos), new # <<>>,
         NEW c, Counts(c, new, old), NEW i \in 1 .. Len(old),
         \A k \in 1 .. Len(old) : old[k] = old[i] => k = i
  PROVE  LET scan == Scan(new, old[i], old)
         IN /\ scan.kept <=> old[i] \in Range(new)
            /\ ~ scan.kept =>
                 scan.pos = IF c[i - 1] < Len(new) THEN c[i - 1] ELSE Len(new) - 1
<1>1. PICK v : v = old[i]
  OBVIOUS
<1> DEFINE n == Len(old)
<1>2. n \in Nat /\ Len(new) \in Nat \ {0} /\ i \in 1 .. n /\ v \in Videos
  BY <1>1
<1>3. PICK a \in [0 .. n -> Scanned] :
        /\ a[0] = [pos |-> 0, done |-> FALSE, kept |-> FALSE]
        /\ a[n] = Scan(new, v, old)
        /\ \A k \in 1 .. n : a[k] = ScanRound(new, v, a[k - 1], old[k])
  BY <1>2, ScanSteps
<1>4. c[0] = 0 /\ \A k \in 0 .. n : c[k] \in 0 .. Len(new)
  BY DEF Counts
<1> DEFINE Loop(k) ==
             \/ a[k].done /\ a[k].kept /\ v \in Range(new)
             \/ ~ a[k].done /\ ~ a[k].kept /\ a[k].pos = c[k] /\ c[k] < Len(new)
             \/ a[k].done /\ ~ a[k].kept /\ a[k].pos = Len(new) - 1 /\ c[k] = Len(new)
           T == {k \in 0 .. n : k < i => Loop(k)}
<1>5. 0 \in T
  <2>1. Loop(0)
    BY <1>2, <1>3, <1>4
  <2> QED
    BY <1>2, <2>1
<1>6. ASSUME NEW k \in 1 .. n, k - 1 \in T
      PROVE  k \in T
  <2> SUFFICES ASSUME k < i
               PROVE  Loop(k)
    BY <1>2
  <2>1. k - 1 \in 0 .. n /\ k \in 0 .. n /\ k - 1 < i /\ k # i
    BY <1>2
  <2>2. Loop(k - 1)
    BY <1>6, <2>1
  <2>3. /\ a[k - 1] \in Scanned /\ old[k] # v
        /\ a[k] = ScanRound(new, v, a[k - 1], old[k])
    BY <1>1, <1>3, <2>1
  <2>4. CASE a[k - 1].done
    <3>1. a[k] = a[k - 1]
      BY <2>3, <2>4 DEF ScanRound
    <3>2. a[k - 1].kept => Loop(k)
      BY <2>2, <2>4, <3>1
    <3>3. ASSUME ~ a[k - 1].kept
          PROVE  Loop(k)
      <4>1. a[k - 1].pos = Len(new) - 1 /\ c[k - 1] = Len(new)
        BY <2>2, <2>4, <3>3
      <4>2. c[k] = c[k - 1] + 1 \/ c[k] = c[k - 1]
        BY DEF Counts
      <4>3. c[k] = Len(new)
        BY <1>2, <1>4, <2>1, <4>1, <4>2
      <4> QED
        BY <2>4, <3>1, <3>3, <4>1, <4>3
    <3> QED
      BY <3>2, <3>3
  <2>5. CASE ~ a[k - 1].done
    <3>1. ~ a[k - 1].kept /\ a[k - 1].pos = c[k - 1] /\ c[k - 1] < Len(new)
      BY <2>2, <2>5
    <3>2. PICK acc \in Scanned : acc = a[k - 1]
      BY <2>3
    <3>3. PICK to : to = a[k]
      OBVIOUS
    <3>4. \/ to.done /\ to.kept /\ v \in Range(new)
          \/ ~ to.done /\ ~ to.kept /\ to.pos = c[k] /\ c[k] < Len(new)
          \/ to.done /\ ~ to.kept /\ to.pos = Len(new) - 1 /\ c[k] = Len(new)
      <4>1. /\ old[k] # v /\ ~ acc.done /\ ~ acc.kept /\ acc.pos = c[k - 1]
            /\ c[k - 1] < Len(new) /\ to = ScanRound(new, v, acc, old[k])
        BY <2>3, <2>5, <3>1, <3>2, <3>3
      <4> QED
        BY <4>1, RoundCounts
    <3> QED
      BY <3>3, <3>4
  <2> QED
    BY <2>4, <2>5
<1>7. Loop(i - 1)
  <2>1. \A k \in 0 .. n : k \in T
    <3> HIDE DEF T, n
    <3> QED
      BY <1>2, <1>5, <1>6, Reaches
  <2>2. i - 1 \in 0 .. n /\ i - 1 < i
    BY <1>2
  <2>3. i - 1 \in T
    BY <2>1, <2>2
  <2> HIDE DEF Loop
  <2> QED
    BY <2>2, <2>3
<1> DEFINE End(s) ==
             /\ s.done /\ (s.kept <=> v \in Range(new))
             /\ ~ s.kept => s.pos = IF c[i - 1] < Len(new) THEN c[i - 1] ELSE Len(new) - 1
<1>8. End(a[i])
  <2>1. i - 1 \in 0 .. n /\ i \in 0 .. n
    BY <1>2
  <2>2. /\ a[i - 1] \in Scanned /\ c[i - 1] \in 0 .. Len(new) /\ c[i] \in 0 .. Len(new)
        /\ a[i] = ScanRound(new, v, a[i - 1], v)
    BY <1>1, <1>3, <1>4, <2>1
  <2>3. v \in Range(new) => c[i] = c[i - 1] + 1 /\ new[c[i]] = v
    BY <1>1 DEF Counts
  <2>4. CASE a[i - 1].done
    <3>1. a[i] = a[i - 1]
      BY <2>2, <2>4 DEF ScanRound
    <3>2. CASE a[i - 1].kept
      BY <1>7, <2>4, <3>1, <3>2
    <3>3. CASE ~ a[i - 1].kept
      <4>1. a[i - 1].pos = Len(new) - 1 /\ c[i - 1] = Len(new)
        BY <1>7, <2>4, <3>3
      <4>2. v \notin Range(new)
        BY <1>2, <2>2, <2>3, <4>1
      <4>3. ~ (c[i - 1] < Len(new))
        BY <1>2, <4>1
      <4> QED
        BY <2>4, <3>1, <3>3, <4>1, <4>2, <4>3
    <3> QED
      BY <3>2, <3>3
  <2>5. CASE ~ a[i - 1].done
    <3>1. ~ a[i - 1].kept /\ a[i - 1].pos = c[i - 1] /\ c[i - 1] < Len(new)
      BY <1>7, <2>5
    <3>2. PICK acc \in Scanned : acc = a[i - 1]
      BY <2>2
    <3>3. PICK to : to = a[i]
      OBVIOUS
    <3>4. PICK next : next = new[acc.pos + 1]
      OBVIOUS
    <3>5. /\ next = v => to.done /\ to.kept
          /\ next # v => to.done /\ to.pos = acc.pos /\ ~ to.kept
      <4>1. to = ScanRound(new, v, acc, v) /\ ~ acc.done /\ ~ acc.kept
        BY <2>2, <2>5, <3>1, <3>2, <3>3
      <4> QED
        BY <3>4, <4>1, RoundIs
    <3>6. next = v <=> v \in Range(new)
      <4>1. c[i - 1] + 1 \in 1 .. Len(new)
        BY <1>2, <2>2, <3>1
      <4>2. next = new[c[i - 1] + 1]
        BY <3>1, <3>2, <3>4
      <4>3. next \in Range(new)
        BY <4>1, <4>2 DEF Range
      <4> QED
        BY <2>3, <4>2, <4>3
    <3>7. CASE next = v
      <4>1. to.done /\ to.kept
        BY <3>5, <3>7
      <4> QED
        BY <3>3, <3>6, <3>7, <4>1
    <3>8. CASE next # v
      <4>1. to.done /\ ~ to.kept /\ to.pos = c[i - 1]
        BY <3>1, <3>2, <3>5, <3>8
      <4> QED
        BY <3>1, <3>3, <3>6, <3>8, <4>1
    <3> QED
      BY <3>7, <3>8
  <2> QED
    BY <2>4, <2>5
<1> DEFINE U == {k \in 0 .. n : k >= i => a[k] = a[i]}
<1>9. \A k \in 0 .. n : k \in U
  <2>1. 0 \in U
    BY <1>2
  <2>2. ASSUME NEW k \in 1 .. n, k - 1 \in U
        PROVE  k \in U
    <3>1. k \in 0 .. n /\ k - 1 \in 0 .. n
      BY <1>2
    <3>2. CASE k - 1 >= i
      <4>1. a[k - 1] = a[i] /\ a[i].done
        BY <1>8, <2>2, <3>2
      <4>2. a[k] = a[k - 1]
        BY <1>3, <4>1 DEF ScanRound
      <4> QED
        BY <3>1, <4>1, <4>2
    <3>3. CASE ~ (k - 1 >= i)
      <4>1. k >= i => k = i
        BY <1>2, <3>3
      <4> QED
        BY <3>1, <4>1
    <3> QED
      BY <3>2, <3>3
  <2> HIDE DEF U, n
  <2> QED
    BY <1>2, <2>1, <2>2, Reaches
<1>10. a[n] = a[i]
  BY <1>2, <1>9
<1>11. End(Scan(new, v, old))
  <2> HIDE DEF End
  <2> QED
    BY <1>3, <1>8, <1>10
<1> QED
  BY <1>1, <1>11

LEMMA PositionIs ==
  ASSUME NEW p \in Seq(Videos), IsInjective(p), NEW k \in 1 .. Len(p)
  PROVE  Position(p, p[k]) = k
<1> DEFINE I == {i \in 1 .. Len(p) : p[i] = p[k]}
<1>1. I = {k}
  BY DEF IsInjective
<1>2. Position(p, p[k]) = IF I # {} THEN Min(I) ELSE 0
  BY DEF Position, SelectInSeq
<1> HIDE DEF I
<1>3. Min({k}) \in {k}
  <2>1. {k} \in SUBSET Nat /\ {k} # {}
    OBVIOUS
  <2> QED
    BY <2>1, LeastNumber
<1> QED
  BY <1>1, <1>2, <1>3

\* The successor of a video that is gone, by the count.
LEMMA SuccessorIs ==
  ASSUME NEW old \in Seq(Videos), NEW new \in Seq(Videos), new # <<>>, IsInjective(old),
         NEW c, Counts(c, new, old), NEW i \in 1 .. Len(old), old[i] \notin Range(new)
  PROVE  Successor(new, old, old[i])
           = IF c[i - 1] < Len(new) THEN new[c[i - 1] + 1] ELSE new[Len(new)]
<1>1. PICK v : v = old[i]
  OBVIOUS
<1> DEFINE n == Len(old)
           later == {w \in Range(new) : Position(old, w) > Position(old, v)}
<1>2. n \in Nat /\ Len(new) \in Nat \ {0} /\ i - 1 \in 0 .. n /\ i \in 0 .. n
  OBVIOUS
<1>3. /\ \A k \in 0 .. n : c[k] \in 0 .. Len(new)
      /\ c[i] = c[i - 1]
  BY DEF Counts
<1>4. Position(old, v) = i /\ \A k \in 1 .. n : Position(old, old[k]) = k
  BY <1>1, PositionIs
<1>5. \A j \in 1 .. Len(new) : \E k \in 1 .. n :
        old[k] \in Range(new) /\ c[k] = j /\ new[j] = old[k]
  BY CountsAll
<1>6. Successor(new, old, v)
        = IF later = {} THEN Last(new)
          ELSE CHOOSE w \in later : \A u \in later : Position(old, w) <= Position(old, u)
  BY <1>1 DEF Successor
\* Whatever lies behind v is counted after it.
<1>7. ASSUME NEW w \in later
      PROVE  \E k \in 1 .. n : /\ w = old[k] /\ k > i /\ Position(old, w) = k
                               /\ c[k] = c[k - 1] + 1 /\ c[i] <= c[k - 1]
  <2>1. PICK j \in 1 .. Len(new) : w = new[j]
    BY DEF Range
  <2>2. PICK k \in 1 .. n : old[k] \in Range(new) /\ c[k] = j /\ new[j] = old[k]
    BY <1>5
  <2>3. w = old[k] /\ Position(old, w) = k /\ k > i
    BY <1>4, <2>1, <2>2
  <2>4. c[k] = c[k - 1] + 1
    BY <2>2 DEF Counts
  <2>5. k - 1 \in 0 .. n /\ i <= k - 1
    BY <1>2, <2>3
  <2>6. c[i] <= c[k - 1]
    BY <1>2, <2>5, CountsGrow
  <2> QED
    BY <2>3, <2>4, <2>6
<1>8. CASE c[i - 1] < Len(new)
  <2> DEFINE j == c[i - 1] + 1
  <2>1. j \in 1 .. Len(new)
    BY <1>2, <1>3, <1>8
  <2>2. PICK g \in 1 .. n : old[g] \in Range(new) /\ c[g] = j /\ new[j] = old[g]
    BY <1>5, <2>1
  <2>3. g > i
    <3>1. g <= i => c[g] <= c[i]
      BY <1>2, CountsGrow
    <3> QED
      BY <1>2, <1>3, <2>2, <3>1
  <2>4. old[g] \in later /\ Position(old, old[g]) = g
    BY <1>4, <2>2, <2>3
  <2>5. ASSUME NEW u \in later
        PROVE  g <= Position(old, u)
    <3>1. PICK k \in 1 .. n : /\ u = old[k] /\ k > i /\ Position(old, u) = k
                              /\ c[k] = c[k - 1] + 1 /\ c[i] <= c[k - 1]
      <4> HIDE DEF later
      <4> QED
        BY <1>7
    <3>2. g - 1 \in 0 .. n /\ k \in 0 .. n /\ k - 1 \in 0 .. n
      BY <1>2
    <3>3. c[g] = c[g - 1] + 1
      BY <2>2 DEF Counts
    <3>4. k <= g - 1 => c[k] <= c[g - 1]
      BY <3>2, CountsGrow
    <3>5. ~ (k <= g - 1)
      <4>1. /\ c[k] \in Nat /\ c[k - 1] \in Nat /\ c[g] \in Nat /\ c[g - 1] \in Nat
            /\ c[i] \in Nat
        <5>1. g \in 0 .. n
          BY <1>2
        <5> HIDE DEF n
        <5> QED
          BY <1>2, <1>3, <3>2, <5>1
      <4>2. c[g] = c[i] + 1
        BY <1>3, <2>2
      <4> HIDE DEF j
      <4> QED
        BY <3>1, <3>3, <3>4, <4>1, <4>2
    <3> QED
      BY <3>1, <3>2, <3>5
  <2>6. ASSUME NEW w \in later, \A u \in later : Position(old, w) <= Position(old, u)
        PROVE  w = old[g]
    <3>1. PICK k \in 1 .. n : w = old[k] /\ Position(old, w) = k
      <4> HIDE DEF later
      <4> QED
        BY <1>7
    <3>2. Position(old, w) <= g /\ g <= Position(old, w)
      BY <2>4, <2>5, <2>6
    <3>3. k = g
      BY <3>1, <3>2
    <3> QED
      BY <3>1, <3>3
  <2>7. (CHOOSE w \in later : \A u \in later : Position(old, w) <= Position(old, u)) = old[g]
    <3>1. \A u \in later : Position(old, old[g]) <= Position(old, u)
      BY <2>4, <2>5
    <3> HIDE DEF later
    <3> QED
      BY <2>4, <2>6, <3>1, Zenon
  <2>8. later # {}
    BY <2>4
  <2> HIDE DEF later
  <2>9. Successor(new, old, v) = new[j]
    BY <1>6, <2>2, <2>7, <2>8
  <2> QED
    BY <1>1, <1>8, <2>9
<1>9. CASE ~ (c[i - 1] < Len(new))
  <2>1. c[i] = Len(new)
    BY <1>2, <1>3, <1>9
  <2>2. later = {}
    <3> SUFFICES ASSUME NEW w \in later
                 PROVE  FALSE
      OBVIOUS
    <3>1. PICK k \in 1 .. n : c[k] = c[k - 1] + 1 /\ c[i] <= c[k - 1]
      <4> HIDE DEF later
      <4> QED
        BY <1>7
    <3>2. k \in 0 .. n /\ k - 1 \in 0 .. n
      BY <1>2
    <3> QED
      BY <1>2, <1>3, <2>1, <3>1, <3>2
  <2>3. Last(new) = new[Len(new)]
    BY DEF Last
  <2> HIDE DEF later
  <2> QED
    BY <1>1, <1>6, <1>9, <2>2, <2>3
<1> QED
  BY <1>8, <1>9

\* What select_next does about videos that were removed.
LEMMA NextFollows ==
  ASSUME NEW st, st.playlist \in Seq(Videos), NEW new \in Seq(Videos),
         Remains(new, st.playlist), new # <<>>, st.select \in Range(st.playlist)
  PROVE  SelectNext(st, new)
           = IF st.select \in Range(new) THEN {}
             ELSE {Successor(new, st.playlist, st.select)}
<1>1. PICK old \in Seq(Videos) : old = st.playlist
  OBVIOUS
<1>2. PICK v : v = st.select
  OBVIOUS
<1>3. new # old /\ IsInjective(old) /\ new = Kept(old, Range(new))
  BY <1>1 DEF Remains
<1>4. PICK i \in 1 .. Len(old) : v = old[i]
  BY <1>1, <1>2 DEF Range
<1>5. \A k \in 1 .. Len(old) : old[k] = old[i] => k = i
  BY <1>3 DEF IsInjective
<1>6. PICK c : Counts(c, new, old)
  BY <1>3, RemainsCounted
<1> DEFINE scan == Scan(new, v, old)
<1>7. /\ scan.kept <=> v \in Range(new)
      /\ ~ scan.kept =>
           scan.pos = IF c[i - 1] < Len(new) THEN c[i - 1] ELSE Len(new) - 1
  BY <1>4, <1>5, <1>6, ScanEnds
<1>8. Len(new) < Len(old) /\ Len(new) \in Nat \ {0} /\ Len(old) \in Nat
  BY <1>3, <1>6, CountsFewer
<1>9. SelectNext(st, new)
        = IF Len(new) >= Len(old) \/ scan.kept THEN {}
          ELSE {new[k] : k \in {scan.pos + 1} \cap DOMAIN new}
  BY <1>1, <1>2 DEF SelectNext
<1> HIDE DEF scan
<1>10. CASE v \in Range(new)
  BY <1>2, <1>7, <1>9, <1>10
<1>11. CASE v \notin Range(new)
  <2>1. Successor(new, old, v)
          = IF c[i - 1] < Len(new) THEN new[c[i - 1] + 1] ELSE new[Len(new)]
    BY <1>3, <1>4, <1>6, <1>11, SuccessorIs
  <2>2. c[i - 1] \in 0 .. Len(new)
    <3>1. i - 1 \in 0 .. Len(old)
      OBVIOUS
    <3> QED
      BY <1>6, <3>1 DEF Counts
  <2>3. /\ scan.pos + 1 \in DOMAIN new
        /\ scan.pos + 1 = IF c[i - 1] < Len(new) THEN c[i - 1] + 1 ELSE Len(new)
    BY <1>7, <1>8, <1>11, <2>2
  <2>4. new[scan.pos + 1] = Successor(new, old, v)
    BY <2>1, <2>3
  <2>5. {new[k] : k \in {scan.pos + 1} \cap DOMAIN new} = {new[scan.pos + 1]}
    BY <2>3
  <2>6. ~ (Len(new) >= Len(old) \/ scan.kept)
    BY <1>7, <1>8, <1>11
  <2>7. SelectNext(st, new) = {Successor(new, old, v)}
    BY <1>9, <2>4, <2>5, <2>6
  <2> QED
    BY <1>1, <1>2, <1>11, <2>7
<1> QED
  BY <1>10, <1>11

LEMMA NextSessionFollows ==
  ASSUME RoomTypeOK, NEW pl \in RoomLists, session' = NextSession(pl),
         Remains(session'.playlist, session.playlist), session'.playlist # <<>>,
         session.select \in Range(session.playlist)
  PROVE  session'.select =
           Successor(session'.playlist, session.playlist, session.select)
<1>1. session'.playlist = pl
  BY DEF NextSession
<1>2. session.playlist \in Seq(Videos) /\ pl \in Seq(Videos)
  BY RoomStateAssumption DEF RoomTypeOK
<1> DEFINE to == Successor(pl, session.playlist, session.select)
<1>3. SelectNext(session, pl) = IF session.select \in Range(pl) THEN {} ELSE {to}
  BY <1>1, <1>2, NextFollows
<1>4. session.select \in Range(pl) => to = session.select
  BY DEF Successor
<1>5. session'.select = IF SelectNext(session, pl) = {} THEN session.select
                        ELSE CHOOSE v \in SelectNext(session, pl) : TRUE
  BY DEF NextSession
<1> HIDE DEF to
<1>6. CASE session.select \in Range(pl)
  <2>1. session'.select = to
    BY <1>3, <1>4, <1>5, <1>6
  <2> QED
    BY <1>1, <2>1 DEF to
<1>7. CASE session.select \notin Range(pl)
  <2>1. session'.select = CHOOSE v \in {to} : TRUE
    BY <1>3, <1>5, <1>7
  <2>2. session'.select = to
    BY <2>1
  <2> QED
    BY <1>1, <2>2 DEF to
<1> QED
  BY <1>6, <1>7

\* Who changes the playlist of the session.
LEMMA WhoReplaces ==
  ASSUME RoomInv, [RoomNext]_roomVars, session'.playlist # session.playlist
  PROVE  \E pl \in RoomLists : session' = NextSession(pl)
<1>1. RoomTypeOK
  BY DEF RoomInv
<1>2. session' # session
  OBVIOUS
<1>3. RoomNext
  BY <1>2 DEF roomVars
<1>4. ASSUME HandleCoreMessage
      PROVE  \E pl \in RoomLists : session' = NextSession(pl)
  <2>1. PICK m \in Message : m = Head(toComm)
    BY <1>1, <1>4, HeadTaken DEF HandleCoreMessage, RoomTypeOK
  <2>2. \/ m.type = "Playlist" /\ HandleCorePlaylist(m.playlist)
        \/ m.type = "Select" /\ HandleCoreSelect(m.video)
    BY <1>4, <2>1 DEF HandleCoreMessage
  <2>3. ~ HandleCoreSelect(m.video)
    <3>1. HandleCoreSelect(m.video) => session'.playlist = session.playlist
      BY <1>1 DEF HandleCoreSelect, RoomTypeOK
    <3> QED
      BY <3>1
  <2>4. m.type = "Playlist" /\ session' = NextSession(m.playlist)
    BY <2>2, <2>3 DEF HandleCorePlaylist
  <2> QED
    BY <2>4, MessageKinds
<1>5. ASSUME NEW c \in Clients, HandleBroadcast(c)
      PROVE  FALSE
  <2>1. \E v : session' = [session EXCEPT !.select = v]
    BY <1>5 DEF HandleBroadcast
  <2> QED
    BY <1>1, <2>1 DEF RoomTypeOK
<1>6. ASSUME NEW c \in Clients, NEW pl \in RoomLists, HandlePlaylistRequest(c, pl)
      PROVE  session' = NextSession(pl)
  BY <1>6 DEF HandlePlaylistRequest
<1>7. ASSUME NEW p \in Peers,
             \/ \E pl \in RoomLists : PlaylistChange(p, pl)
             \/ \E v \in Videos : VideoChange(p, v)
             \/ FileEnd(p)
      PROVE  FALSE
  BY <1>2, <1>7 DEF PlaylistChange, VideoChange, FileEnd, SendSelect
<1>8. ~ HostCoreReceive
  BY <1>2 DEF HostCoreReceive
<1>9. ASSUME NEW c \in Clients,
             \/ \E a \in Peers : ClientReceive(a, c)
             \/ \E m \in Message : ReceiveWelcome(c, m)
             \/ ConnectionEstablished(c) \/ Subscribe(c) \/ ConnectionClosed(c)
             \/ \E pl \in RoomLists : LoseRequest(c, pl)
      PROVE  FALSE
  BY <1>2, <1>9
     DEF ClientReceive, ReceiveWelcome, ConnectionEstablished, Subscribe,
         ConnectionClosed, LoseRequest
<1> QED
  BY <1>3, <1>4, <1>5, <1>6, <1>7, <1>8, <1>9, Zenon DEF RoomNext

\* Whatever videos are removed, one or many, by whom: the host goes on with the
\* selected video, or with the next one that is left, or with the last.
\* (select_next and handle_new_playlist of client/communicator/src/p2p/host.rs)
THEOREM SelectionFollows == RoomSpec => SelectFollows
<1>1. RoomInv /\ [RoomNext]_roomVars =>
        [ (Remains(session'.playlist, session.playlist)
             /\ session'.playlist # <<>>
             /\ session.select \in Range(session.playlist))
          => session'.select =
               Successor(session'.playlist, session.playlist, session.select)
        ]_roomVars
  <2> SUFFICES ASSUME RoomInv, [RoomNext]_roomVars,
                      Remains(session'.playlist, session.playlist),
                      session'.playlist # <<>>,
                      session.select \in Range(session.playlist)
               PROVE  session'.select =
                        Successor(session'.playlist, session.playlist, session.select)
    BY Zenon
  <2>1. session'.playlist # session.playlist
    BY DEF Remains
  <2>2. PICK pl \in RoomLists : session' = NextSession(pl)
    BY <2>1, WhoReplaces
  <2> QED
    BY <2>2, NextSessionFollows DEF RoomInv
<1> QED
  BY <1>1, RoomInvariance, PTL DEF RoomSpec, SelectFollows

-----------------------------------------------------------------------------
(* The terminal: what its operators keep.                                  *)

\* Modes, overlay, focus and highlights fit together (a part of TermTypeOK).
AppOK(a) ==
    /\ a \in App
    /\ a.mode = "Overlay" <=> a.overlay # None
    /\ a.mode = "Overlay" => a.prev \in {"Normal", "Inspecting"}
    /\ \A w \in Widgets : a.lit[w] # "Unselected" <=> w = a.focus

NavOK(n) == n \in Nav

\* The widget shows no more than it counts.
ListOK(l) == l \in List /\ NavOK(l.nav) /\ Len(l.shown) <= l.nav.len

\* With a selection that was made for this list, the widget counts no more than
\* the playlist has, and what is selected is in there; so it is from the first
\* entry on, where a cursor that was drawn away comes back.
Fits(n, free, p) ==
    ~ free => /\ n.len <= Len(p)
              /\ n.sel # None => n.sel + n.upper < Len(p)
              /\ n.upper > 0 => n.upper < Len(p)

TermInv ==
    /\ AppOK(app) /\ ListOK(list)
    /\ search \in [{"BrowserSearch", "PlaylistSearch"} -> Searches]
    /\ portOk \in BOOLEAN /\ up \in {"running", "left", "crashed"}
    /\ loose \in BOOLEAN
    /\ Fits(list.nav, loose, playlist)
    /\ up = "crashed" => loose \/ ~ portOk

LEMMA OpenOK ==
  ASSUME NEW a, AppOK(a), a.mode # "Overlay", NEW o \in Overlays
  PROVE  AppOK(Open(a, o))
BY TerminalAssumption DEF AppOK, App, Open, SetMode, Modes, Overlays

LEMMA SwitchOK ==
  ASSUME NEW a, AppOK(a), a.mode = "Overlay", NEW o \in Overlays
  PROVE  AppOK(Switch(a, o))
BY TerminalAssumption DEF AppOK, App, Switch, Modes, Overlays

LEMMA ResetOK ==
  ASSUME NEW a, AppOK(a), a.mode = "Overlay"
  PROVE  AppOK(ResetOverlay(a))
BY TerminalAssumption DEF AppOK, App, ResetOverlay, Modes, Overlays

LEMMA TransitionOK ==
  ASSUME NEW a, AppOK(a), NEW w \in Widgets
  PROVE  AppOK(Transition(a, w)) /\ Transition(a, w).mode = a.mode
BY DEF AppOK, App, Transition, Widgets

LEMMA EnterOK ==
  ASSUME NEW a, AppOK(a), a.mode # "Overlay"
  PROVE  AppOK(EnterWidget(a))
BY TerminalAssumption DEF AppOK, App, EnterWidget, SetMode, Modes, Overlays, Widgets

LEMMA LeaveOK ==
  ASSUME NEW a, AppOK(a), a.mode # "Overlay"
  PROVE  AppOK(LeaveWidget(a))
BY TerminalAssumption DEF AppOK, App, LeaveWidget, SetMode, Modes, Overlays, Widgets

LEMMA Next1OK ==
  ASSUME NEW n, NavOK(n), NEW free \in BOOLEAN, NEW p \in Seq(Videos), Fits(n, free, p)
  PROVE  /\ NavOK(Next1(n)) /\ Next1(n).len = n.len
         /\ Fits(Next1(n), free \/ ~ (p # <<>> /\ n.len <= Len(p)), p)
<1> DEFINE k == CASE n.sel = None -> 0 [] n.sel = 0 -> Before(n.len) [] OTHER -> n.sel - 1
<1>1. n.sel \in Nat \cup {None} /\ n.upper \in Nat /\ n.len \in Nat /\ None \notin Nat
  BY TerminalAssumption DEF NavOK, Nav
<1>2. k \in Nat /\ (n.sel = None => k = 0) /\ (n.sel = 0 => k = Before(n.len))
      /\ (n.sel \in Nat \ {0} => k = n.sel - 1)
  BY <1>1 DEF Before
<1>3. Next1(n) = [n EXCEPT !.upper = 0, !.sel = k]
  BY DEF Next1
<1> HIDE DEF k
<1>4. NavOK(Next1(n)) /\ Next1(n).len = n.len /\ Next1(n).upper = 0 /\ Next1(n).sel = k
  <2> DEFINE m == [n EXCEPT !.upper = 0, !.sel = k]
  <2>1. n \in Nav
    BY DEF NavOK
  <2>2. m.upper = 0 /\ m.sel = k /\ m.len = n.len
    BY <2>1 DEF Nav
  <2>3. m \in Nav
    BY <1>2, <2>1 DEF Nav
  <2> HIDE DEF m
  <2>4. NavOK(m)
    BY <2>2, <2>3 DEF NavOK
  <2> QED
    BY <1>3, <2>2, <2>4, Zenon DEF m
<1>5. ASSUME ~ free, p # <<>>, n.len <= Len(p)
      PROVE  k < Len(p)
  <2>1. Len(p) \in Nat \ {0}
    BY <1>5
  <2> QED
    BY <1>1, <1>2, <1>5, <2>1 DEF Before, Fits
<1> QED
  BY <1>1, <1>2, <1>4, <1>5 DEF Fits

LEMMA PreviousOK ==
  ASSUME NEW n, NavOK(n), NEW p \in Seq(Videos)
  PROVE  /\ NavOK(Previous(n)) /\ Previous(n).len = n.len
         /\ Fits(Previous(n), ~ (p # <<>> /\ n.len <= Len(p)), p)
<1> DEFINE k == IF n.sel = None THEN 0 ELSE IF n.sel >= Before(n.len) THEN 0 ELSE n.sel + 1
<1>1. n.sel \in Nat \cup {None} /\ n.upper \in Nat /\ n.len \in Nat /\ None \notin Nat
  BY TerminalAssumption DEF NavOK, Nav
<1>2. k \in Nat /\ (k = 0 \/ k < n.len)
  BY <1>1 DEF Before
<1>3. Previous(n) = [n EXCEPT !.upper = 0, !.sel = k]
  BY DEF Previous
<1> HIDE DEF k
<1>4. /\ NavOK(Previous(n)) /\ Previous(n).len = n.len
      /\ Previous(n).upper = 0 /\ Previous(n).sel = k
  <2> DEFINE m == [n EXCEPT !.upper = 0, !.sel = k]
  <2>1. n \in Nav
    BY DEF NavOK
  <2>2. m.upper = 0 /\ m.sel = k /\ m.len = n.len
    BY <2>1 DEF Nav
  <2>3. m \in Nav
    BY <1>2, <2>1 DEF Nav
  <2> HIDE DEF m
  <2>4. NavOK(m)
    BY <2>2, <2>3 DEF NavOK
  <2> QED
    BY <1>3, <2>2, <2>4, Zenon DEF m
<1>5. ASSUME p # <<>>, n.len <= Len(p)
      PROVE  k < Len(p)
  <2>1. Len(p) \in Nat \ {0}
    BY <1>5
  <2> QED
    BY <1>1, <1>2, <1>5, <2>1
<1> QED
  BY <1>1, <1>2, <1>4, <1>5 DEF Fits

LEMMA JumpNextOK ==
  ASSUME NEW n, NavOK(n), NEW free \in BOOLEAN, NEW p \in Seq(Videos), Fits(n, free, p)
  PROVE  /\ NavOK(JumpNext(n)) /\ JumpNext(n).len = n.len
         /\ Fits(JumpNext(n), free, p)
BY TerminalAssumption DEF NavOK, Nav, JumpNext, Fits

LEMMA JumpPreviousOK ==
  ASSUME NEW n, NavOK(n), NEW free \in BOOLEAN, NEW p \in Seq(Videos), Fits(n, free, p)
  PROVE  /\ NavOK(JumpPrevious(n)) /\ JumpPrevious(n).len = n.len
         /\ Fits(JumpPrevious(n), free \/ n.upper > 0, p)
BY TerminalAssumption DEF NavOK, Nav, JumpPrevious, Least, Before, Fits

LEMMA JumpStartOK ==
  ASSUME NEW n, NavOK(n), NEW free \in BOOLEAN, NEW p \in Seq(Videos), Fits(n, free, p)
  PROVE  /\ NavOK(JumpStart(n)) /\ JumpStart(n).len = n.len
         /\ Fits(JumpStart(n), free \/ ~ (p # <<>> /\ n.len <= Len(p)), p)
BY TerminalAssumption DEF NavOK, Nav, JumpStart, Fits

LEMMA JumpEndOK ==
  ASSUME NEW n, NavOK(n), NEW free \in BOOLEAN, NEW p \in Seq(Videos), Fits(n, free, p)
  PROVE  /\ NavOK(JumpEnd(n)) /\ JumpEnd(n).len = n.len
         /\ Fits(JumpEnd(n), free \/ ~ (p # <<>> /\ n.len <= Len(p)) \/ n.upper > 0, p)
BY TerminalAssumption DEF NavOK, Nav, JumpEnd, Before, Fits

LEMMA IncreaseOK ==
  ASSUME NEW n, NavOK(n), NEW free \in BOOLEAN, NEW p \in Seq(Videos), Fits(n, free, p)
  PROVE  /\ NavOK(IncreaseSelectionOffset(n)) /\ IncreaseSelectionOffset(n).len = n.len
         /\ Fits(IncreaseSelectionOffset(n), free, p)
BY TerminalAssumption DEF NavOK, Nav, IncreaseSelectionOffset, Before, Fits

LEMMA IncreaseByOK ==
  ASSUME NEW n, NavOK(n), NEW k \in Nat, NEW free \in BOOLEAN, NEW p \in Seq(Videos),
         Fits(n, free, p)
  PROVE  /\ NavOK(IncreaseSelectionOffsetBy(n, k))
         /\ IncreaseSelectionOffsetBy(n, k).len = n.len
         /\ Fits(IncreaseSelectionOffsetBy(n, k), free, p)
BY TerminalAssumption DEF NavOK, Nav, IncreaseSelectionOffsetBy, Fits

-----------------------------------------------------------------------------
(* The terminal: what its actions keep.                                    *)

LEMMA ActTyped ==
  ASSUME CellTypeOK, Act
  PROVE  acts' \in 0 .. MaxActs
BY CellsAssumption DEF CellTypeOK, Act

LEMMA StoreTyped ==
  ASSUME CellTypeOK
  PROVE  store \in Seq(Videos)
BY CellsAssumption DEF CellTypeOK

LEMMA CellStays ==
  ASSUME CellTypeOK, UNCHANGED cellVars
  PROVE  CellTypeOK' /\ playlist' = playlist
BY DEF CellTypeOK, cellVars

\* A longer playlist, or one the history variable knows of, keeps the selection.
LEMMA EditKeeps ==
  ASSUME CellTypeOK, TermInv, NEW p \in Seq(Videos), Edit(p)
  PROVE  /\ CellTypeOK' /\ playlist' = p
         /\ loose' \in BOOLEAN /\ (loose => loose')
         /\ Fits(list.nav, loose', playlist')
<1>1. /\ Act /\ playlist' = p /\ fresh' = TRUE /\ store' = store
      /\ loose' = (loose \/ Len(p) < Len(playlist))
  BY DEF Edit, ChangePlaylist
<1>2. CellTypeOK'
  BY <1>1, ActTyped DEF CellTypeOK
<1>3. loose' \in BOOLEAN /\ (loose => loose')
  BY <1>1 DEF TermInv
<1>4. Fits(list.nav, loose', playlist')
  <2>1. Len(p) \in Nat /\ Len(playlist) \in Nat
    BY DEF CellTypeOK
  <2>2. /\ list.nav.len \in Nat /\ list.nav.upper \in Nat
        /\ list.nav.sel \in Nat \cup {None}
    BY DEF TermInv, ListOK, NavOK, Nav
  <2>3. ASSUME ~ loose'
        PROVE  ~ loose /\ Len(playlist) <= Len(playlist')
    <3>1. ~ loose /\ ~ (Len(p) < Len(playlist))
      BY <1>1, <2>3
    <3> QED
      BY <1>1, <2>1, <3>1
  <2>4. ASSUME ~ loose'
        PROVE  /\ list.nav.len <= Len(playlist')
               /\ list.nav.sel # None => list.nav.sel + list.nav.upper < Len(playlist')
               /\ list.nav.upper > 0 => list.nav.upper < Len(playlist')
    <3>1. /\ list.nav.len <= Len(playlist)
          /\ list.nav.sel # None => list.nav.sel + list.nav.upper < Len(playlist)
          /\ list.nav.upper > 0 => list.nav.upper < Len(playlist)
      BY <2>3, <2>4 DEF TermInv, Fits
    <3>2. Len(playlist') \in Nat
      BY <1>1, <2>1
    <3> QED
      BY <2>1, <2>2, <2>3, <2>4, <3>1, <3>2, TerminalAssumption
  <2> QED
    BY <2>4 DEF Fits
<1> QED
  BY <1>1, <1>2, <1>3, <1>4

LEMMA EditIfKeeps ==
  ASSUME CellTypeOK, TermInv, NEW p \in Seq(Videos), EditIf(p)
  PROVE  /\ CellTypeOK'
         /\ loose' \in BOOLEAN /\ (loose => loose')
         /\ Fits(list.nav, loose', playlist')
<1>1. CASE p = playlist
  BY <1>1, CellStays DEF EditIf, TermInv
<1>2. CASE p # playlist
  BY <1>2, EditKeeps DEF EditIf
<1> QED
  BY <1>1, <1>2

\* What every action below ends with: the parts that it changed are in order.
LEMMA Together ==
  ASSUME TermInv, CellTypeOK', AppOK(app'), ListOK(list'),
         search' \in [{"BrowserSearch", "PlaylistSearch"} -> Searches],
         portOk' = portOk, up' = up, loose' \in BOOLEAN, loose => loose',
         Fits(list'.nav, loose', playlist')
  PROVE  CellTypeOK' /\ TermInv'
BY DEF TermInv

LEMMA ShowsKeeps ==
  ASSUME CellTypeOK, TermInv, NEW a, AppOK(a), Shows(a)
  PROVE  CellTypeOK' /\ TermInv'
<1>1. /\ app' = a /\ list' = list /\ search' = search /\ portOk' = portOk /\ up' = up
      /\ loose' = loose /\ UNCHANGED cellVars
  BY DEF Shows
<1>2. CellTypeOK' /\ playlist' = playlist
  BY <1>1, CellStays
<1> QED
  BY <1>1, <1>2 DEF TermInv

LEMMA QuitKeeps ==
  ASSUME CellTypeOK, TermInv, Quit
  PROVE  CellTypeOK' /\ TermInv'
<1>1. /\ app' = app /\ list' = list /\ search' = search /\ portOk' = portOk
      /\ up' = "left" /\ loose' = loose /\ UNCHANGED cellVars
  BY DEF Quit
<1>2. CellTypeOK' /\ playlist' = playlist
  BY <1>1, CellStays
<1> QED
  BY <1>1, <1>2 DEF TermInv

LEMMA PanicsKeeps ==
  ASSUME CellTypeOK, TermInv, Panics, loose \/ ~ portOk
  PROVE  CellTypeOK' /\ TermInv'
<1>1. /\ app' = app /\ list' = list /\ search' = search /\ portOk' = portOk
      /\ up' = "crashed" /\ loose' = loose /\ UNCHANGED cellVars
  BY DEF Panics
<1>2. CellTypeOK' /\ playlist' = playlist
  BY <1>1, CellStays
<1> QED
  BY <1>1, <1>2 DEF TermInv

LEMMA NavigateKeeps ==
  ASSUME CellTypeOK, TermInv, Navigate
  PROVE  CellTypeOK' /\ TermInv'
<1>1. AppOK(app) /\ app.mode # "Overlay"
  BY DEF Navigate, TermInv
<1>2. ASSUME NEW o \in {"Command", "Option", "Help"}, Shows(Open(app, o))
      PROVE  CellTypeOK' /\ TermInv'
  <2>1. o \in Overlays
    BY DEF Overlays
  <2> QED
    BY <1>1, <1>2, <2>1, OpenOK, ShowsKeeps
<1>3. CASE Shows(EnterWidget(app))
  BY <1>1, <1>3, EnterOK, ShowsKeeps
<1>4. ASSUME NEW w \in Around[app.focus], Shows(Transition(app, w))
      PROVE  CellTypeOK' /\ TermInv'
  <2>1. w \in Widgets
    <3>1. app.focus \in Widgets
      BY <1>1 DEF AppOK, App
    <3> QED
      BY <1>4, <3>1 DEF Around, Widgets
  <2> QED
    BY <1>1, <1>4, <2>1, TransitionOK, ShowsKeeps
<1> QED
  BY <1>2, <1>3, <1>4 DEF Navigate

LEMMA LeaveKeeps ==
  ASSUME CellTypeOK, TermInv, NEW w, NEW beside \in SUBSET Widgets, Leave(w, beside)
  PROVE  CellTypeOK' /\ TermInv'
<1>1. AppOK(app) /\ app.mode # "Overlay"
  BY DEF Leave, Inside, TermInv
<1>2. ASSUME NEW v \in beside, Shows(EnterWidget(Transition(app, v)))
      PROVE  CellTypeOK' /\ TermInv'
  <2>1. AppOK(Transition(app, v)) /\ Transition(app, v).mode # "Overlay"
    BY <1>1, TransitionOK
  <2>2. AppOK(EnterWidget(Transition(app, v)))
    BY <2>1, EnterOK
  <2> QED
    BY <1>2, <2>2, ShowsKeeps
<1>3. CASE Shows(LeaveWidget(app))
  BY <1>1, <1>3, LeaveOK, ShowsKeeps
<1> QED
  BY <1>2, <1>3 DEF Leave

LEMMA MenusKeeps ==
  ASSUME CellTypeOK, TermInv, NEW w, Menus(w)
  PROVE  CellTypeOK' /\ TermInv'
<1>1. AppOK(app) /\ app.mode # "Overlay"
  BY DEF Menus, Inside, TermInv
<1>2. PICK o \in {"Command", "Option", "Help"} : Shows(Open(app, o))
  BY DEF Menus
<1>3. o \in Overlays
  BY DEF Overlays
<1> QED
  BY <1>1, <1>2, <1>3, OpenOK, ShowsKeeps

LEMMA InspectKeeps ==
  ASSUME CellTypeOK, TermInv, Inspect
  PROVE  CellTypeOK' /\ TermInv'
<1>1. /\ {"Chat", "Playlist"} \in SUBSET Widgets /\ {"Users", "Playlist"} \in SUBSET Widgets
      /\ {"Recently", "Chat"} \in SUBSET Widgets /\ {"Chat", "Recently"} \in SUBSET Widgets
      /\ {"Playlist", "Users"} \in SUBSET Widgets
  BY DEF Widgets
<1>2. CASE InChatInput
  BY <1>1, <1>2, LeaveKeeps DEF InChatInput
<1>3. CASE InChat
  BY <1>1, <1>3, LeaveKeeps, MenusKeeps DEF InChat
<1>4. CASE InUsers
  BY <1>1, <1>4, LeaveKeeps, MenusKeeps DEF InUsers
<1>5. CASE InPlaylist
  BY <1>1, <1>5, LeaveKeeps, MenusKeeps DEF InPlaylist
<1>6. CASE InRecently
  BY <1>1, <1>6, LeaveKeeps, MenusKeeps DEF InRecently
<1> QED
  BY <1>2, <1>3, <1>4, <1>5, <1>6 DEF Inspect

LEMMA OptionsKeeps ==
  ASSUME CellTypeOK, TermInv, Options
  PROVE  CellTypeOK' /\ TermInv'
<1>1. AppOK(app) /\ app.mode = "Overlay"
  BY DEF Options, On, TermInv
<1>2. ASSUME NEW o \in {"Help", "Login", "Settings", "MediaDir", "PlaylistBrowser"},
             Shows(Switch(app, o))
      PROVE  CellTypeOK' /\ TermInv'
  <2>1. o \in Overlays
    BY DEF Overlays
  <2> QED
    BY <1>1, <1>2, <2>1, SwitchOK, ShowsKeeps
<1>3. CASE Shows(ResetOverlay(app))
  BY <1>1, <1>3, ResetOK, ShowsKeeps
<1> QED
  BY <1>2, <1>3 DEF Options

LEMMA CloseFormKeeps ==
  ASSUME CellTypeOK, TermInv, CloseForm
  PROVE  CellTypeOK' /\ TermInv'
<1>1. AppOK(app) /\ app.mode = "Overlay" /\ Shows(ResetOverlay(app))
  BY DEF CloseForm, CloseLogin, CloseMediaDir, CloseVideoName, CloseHelp, On, TermInv
<1> QED
  BY <1>1, ResetOK, ShowsKeeps

LEMMA SettingsKeeps ==
  ASSUME CellTypeOK, TermInv, Settings
  PROVE  CellTypeOK' /\ TermInv'
<1>1. AppOK(app) /\ app.mode = "Overlay" /\ up = "running"
  BY DEF Settings, On, Key, TermInv
<1>2. CASE /\ portOk' \in BOOLEAN /\ Act
           /\ UNCHANGED <<app, list, search, up, loose, playlist, fresh, store>>
  <2>1. CellTypeOK' /\ playlist' = playlist
    BY <1>2, ActTyped DEF CellTypeOK
  <2> QED
    BY <1>1, <1>2, <2>1 DEF TermInv
<1>3. CASE Shows(ResetOverlay(app))
  BY <1>1, <1>3, ResetOK, ShowsKeeps
<1>4. CASE ~ portOk /\ Panics
  BY <1>4, PanicsKeeps
<1> QED
  BY <1>2, <1>3, <1>4 DEF Settings

\* The cursor alone changes.
LEMMA MovesKeeps ==
  ASSUME CellTypeOK, TermInv, NEW n, NEW free, Moves(n, free),
         NavOK(n), n.len = list.nav.len, free \in BOOLEAN,
         Fits(n, free, playlist), Key
  PROVE  CellTypeOK' /\ TermInv'
<1>1. /\ list' = [list EXCEPT !.nav = n] /\ loose' = free
      /\ app' = app /\ search' = search /\ portOk' = portOk /\ up' = up
      /\ UNCHANGED cellVars
  BY DEF Moves
<1>2. CellTypeOK' /\ playlist' = playlist
  BY <1>1, CellStays
<1>3. list \in List /\ Len(list.shown) <= list.nav.len
  BY DEF TermInv, ListOK
<1>4. list'.nav = n /\ list'.shown = list.shown
  BY <1>1, <1>3 DEF List
<1>5. list' \in List
  BY <1>1, <1>3 DEF List, NavOK
<1>6. ListOK(list')
  BY <1>3, <1>4, <1>5 DEF ListOK
<1>7. Fits(list'.nav, loose', playlist')
  BY <1>1, <1>2, <1>4, Zenon
<1> QED
  BY <1>1, <1>2, <1>6, <1>7 DEF TermInv, Key

LEMMA PlaylistCursorKeeps ==
  ASSUME CellTypeOK, TermInv, PlaylistCursor
  PROVE  CellTypeOK' /\ TermInv'
<1> DEFINE n == list.nav
<1>1. /\ NavOK(n) /\ loose \in BOOLEAN /\ playlist \in Seq(Videos)
      /\ Fits(n, loose, playlist) /\ Key
  BY DEF TermInv, ListOK, CellTypeOK, PlaylistCursor, Inside
<1>2. Sound = (playlist # <<>> /\ n.len <= Len(playlist)) /\ Extended = (n.upper > 0)
  BY DEF Sound, Extended
<1>3. \/ Moves(Next1(n), loose \/ ~ Sound)
      \/ Moves(Previous(n), ~ Sound)
      \/ Moves(JumpNext(n), loose)
      \/ Moves(JumpPrevious(n), loose \/ Extended)
      \/ Moves(JumpStart(n), loose \/ ~ Sound)
      \/ Moves(JumpEnd(n), loose \/ ~ Sound \/ Extended)
      \/ Moves(IncreaseSelectionOffset(n), loose)
  BY DEF PlaylistCursor
<1> HIDE DEF n
<1>4. CASE Moves(Next1(n), loose \/ ~ Sound)
  <2>1. NavOK(Next1(n)) /\ Next1(n).len = n.len /\ Fits(Next1(n), loose \/ ~ Sound, playlist)
    BY <1>1, <1>2, Next1OK
  <2> QED
    BY <1>1, <1>4, <2>1, MovesKeeps DEF n
<1>5. CASE Moves(Previous(n), ~ Sound)
  <2>1. NavOK(Previous(n)) /\ Previous(n).len = n.len /\ Fits(Previous(n), ~ Sound, playlist)
    BY <1>1, <1>2, PreviousOK
  <2> QED
    BY <1>1, <1>5, <2>1, MovesKeeps DEF n
<1>6. CASE Moves(JumpNext(n), loose)
  <2>1. NavOK(JumpNext(n)) /\ JumpNext(n).len = n.len /\ Fits(JumpNext(n), loose, playlist)
    BY <1>1, JumpNextOK
  <2> QED
    BY <1>1, <1>6, <2>1, MovesKeeps DEF n
<1>7. CASE Moves(JumpPrevious(n), loose \/ Extended)
  <2>1. /\ NavOK(JumpPrevious(n)) /\ JumpPrevious(n).len = n.len
        /\ Fits(JumpPrevious(n), loose \/ Extended, playlist)
    BY <1>1, <1>2, JumpPreviousOK
  <2> QED
    BY <1>1, <1>7, <2>1, MovesKeeps DEF n
<1>8. CASE Moves(JumpStart(n), loose \/ ~ Sound)
  <2>1. /\ NavOK(JumpStart(n)) /\ JumpStart(n).len = n.len
        /\ Fits(JumpStart(n), loose \/ ~ Sound, playlist)
    BY <1>1, <1>2, JumpStartOK
  <2> QED
    BY <1>1, <1>8, <2>1, MovesKeeps DEF n
<1>9. CASE Moves(JumpEnd(n), loose \/ ~ Sound \/ Extended)
  <2>1. /\ NavOK(JumpEnd(n)) /\ JumpEnd(n).len = n.len
        /\ Fits(JumpEnd(n), loose \/ ~ Sound \/ Extended, playlist)
    BY <1>1, <1>2, JumpEndOK
  <2> QED
    BY <1>1, <1>9, <2>1, MovesKeeps DEF n
<1>10. CASE Moves(IncreaseSelectionOffset(n), loose)
  <2>1. /\ NavOK(IncreaseSelectionOffset(n)) /\ IncreaseSelectionOffset(n).len = n.len
        /\ Fits(IncreaseSelectionOffset(n), loose, playlist)
    BY <1>1, IncreaseOK
  <2> QED
    BY <1>1, <1>10, <2>1, MovesKeeps DEF n
<1> QED
  BY <1>3, <1>4, <1>5, <1>6, <1>7, <1>8, <1>9, <1>10

\* jump_to_video moves the cursor to a place of the list, if at all.
LEMMA JumpToOK ==
  ASSUME CellTypeOK, TermInv, NEW v
  PROVE  /\ ListOK(JumpTo(v)) /\ JumpTo(v) = [list EXCEPT !.nav = JumpTo(v).nav]
         /\ NavOK(JumpTo(v).nav) /\ JumpTo(v).nav.len = list.nav.len
         /\ Fits(JumpTo(v).nav, loose \/ Extended \/ ~ Sound, playlist)
<1>1. /\ list \in List /\ list.nav \in Nav /\ Len(list.shown) <= list.nav.len
      /\ list.shown \in Seq(Videos) /\ NavOK(list.nav)
      /\ list.nav.sel \in Nat \cup {None} /\ list.nav.upper \in Nat /\ list.nav.len \in Nat
      /\ Fits(list.nav, loose, playlist) /\ loose \in BOOLEAN /\ Len(playlist) \in Nat
  BY DEF TermInv, ListOK, List, NavOK, Nav, CellTypeOK
<1>2. CASE ~ Contains(list.shown, v)
  <2>1. JumpTo(v) = list
    BY <1>2 DEF JumpTo
  <2>2. list = [list EXCEPT !.nav = list.nav]
    BY <1>1 DEF List
  <2>3. Fits(list.nav, loose \/ Extended \/ ~ Sound, playlist)
    BY <1>1 DEF Fits
  <2> QED
    BY <1>1, <2>1, <2>2, <2>3 DEF ListOK
<1>3. CASE Contains(list.shown, v)
  <2> DEFINE k == Find(list.shown, v)
             m == [list.nav EXCEPT !.sel = k]
  <2>1. k \in Nat /\ k < Len(list.shown)
    BY <1>1, <1>3, FindTyped
  <2>2. JumpTo(v) = [list EXCEPT !.nav = m]
    BY <1>3, Zenon DEF JumpTo
  <2> HIDE DEF k
  <2>3. m \in Nav /\ m.sel = k /\ m.upper = list.nav.upper /\ m.len = list.nav.len
    BY <1>1, <2>1 DEF Nav
  <2>4. NavOK(m)
    BY <2>1, <2>3, TerminalAssumption DEF NavOK
  <2>5. Fits(m, loose \/ Extended \/ ~ Sound, playlist)
    <3>1. ASSUME ~ (loose \/ Extended \/ ~ Sound)
          PROVE  /\ m.len <= Len(playlist) /\ m.sel + m.upper < Len(playlist)
                 /\ m.upper = 0
      <4>1. list.nav.upper = 0 /\ list.nav.len <= Len(playlist) /\ ~ loose
        BY <1>1, <3>1 DEF Extended, Sound
      <4>2. Len(list.shown) \in Nat
        BY <1>1
      <4> QED
        BY <1>1, <2>1, <2>3, <4>1, <4>2
    <3> QED
      BY <3>1 DEF Fits
  <2> HIDE DEF m
  <2>6. /\ [list EXCEPT !.nav = m].nav = m /\ [list EXCEPT !.nav = m].shown = list.shown
        /\ [list EXCEPT !.nav = m] \in List
    BY <1>1, <2>3 DEF List
  <2>7. JumpTo(v).nav = m /\ JumpTo(v).shown = list.shown /\ JumpTo(v) \in List
    BY <2>2, <2>6, Zenon
  <2>8. ListOK(JumpTo(v))
    BY <1>1, <2>3, <2>4, <2>7 DEF ListOK
  <2> QED
    BY <2>2, <2>3, <2>4, <2>5, <2>7, <2>8, Zenon
<1> QED
  BY <1>2, <1>3

LEMMA JumpToPlayingKeeps ==
  ASSUME CellTypeOK, TermInv, JumpToPlaying
  PROVE  CellTypeOK' /\ TermInv'
<1>1. PICK v \in Videos : Moves(JumpTo(v).nav, loose \/ Extended \/ ~ Sound)
  BY DEF JumpToPlaying
<1>2. Key /\ (loose \/ Extended \/ ~ Sound) \in BOOLEAN
  BY DEF JumpToPlaying, Inside
<1> QED
  BY <1>1, <1>2, JumpToOK, MovesKeeps

LEMMA ShowNameKeeps ==
  ASSUME CellTypeOK, TermInv, ShowName
  PROVE  CellTypeOK' /\ TermInv'
<1>1. AppOK(app) /\ app.mode # "Overlay" /\ Shows(Open(app, "VideoName"))
  BY DEF ShowName, Inside, TermInv
<1>2. "VideoName" \in Overlays
  BY DEF Overlays
<1> QED
  BY <1>1, <1>2, OpenOK, ShowsKeeps

LEMMA YankedOK ==
  ASSUME CellTypeOK, TermInv, list.nav.sel # None
  PROVE  /\ Lower \in Nat /\ Upper \in Nat /\ Lower <= Upper
         /\ ListOK(Yanked) /\ Yanked.nav = list.nav /\ Yanked.shown = list.shown
<1>1. /\ list \in List /\ NavOK(list.nav) /\ Len(list.shown) <= list.nav.len
      /\ list.shown \in Seq(Videos)
      /\ list.nav.sel \in Nat \cup {None} /\ list.nav.upper \in Nat
  BY DEF TermInv, ListOK, List, NavOK, Nav
<1>2. Lower \in Nat /\ Upper \in Nat /\ Lower <= Upper
  BY <1>1 DEF Lower, Upper
<1> DEFINE c == GetRange(list.shown, Lower, Upper)
<1>3. c \in Seq(Videos)
  BY <1>1, <1>2, GetRangeTyped
<1>4. Yanked = [list EXCEPT !.clip = c]
  BY DEF Yanked
<1> HIDE DEF c
<1>5. Yanked \in List /\ Yanked.nav = list.nav /\ Yanked.shown = list.shown
  BY <1>1, <1>3, <1>4 DEF List
<1> QED
  BY <1>1, <1>2, <1>5 DEF ListOK

LEMMA YankKeeps ==
  ASSUME CellTypeOK, TermInv, Yank
  PROVE  CellTypeOK' /\ TermInv'
<1>1. /\ list.nav.sel # None /\ list' = Yanked /\ UNCHANGED <<app, search, portOk, up, loose>>
      /\ UNCHANGED cellVars
  BY DEF Yank
<1>2. CellTypeOK' /\ playlist' = playlist
  BY <1>1, CellStays
<1>3. ListOK(list') /\ list'.nav = list.nav
  BY <1>1, YankedOK
<1> QED
  BY <1>1, <1>2, <1>3 DEF TermInv

\* What is selected is in the playlist, or the history variable knows why not.
LEMMA OutsideIsLoose ==
  ASSUME TermInv, list.nav.sel # None, ~ InList
  PROVE  loose
BY DEF TermInv, Fits, InList, Upper

LEMMA CutKeeps ==
  ASSUME CellTypeOK, TermInv, Cut
  PROVE  CellTypeOK' /\ TermInv'
<1>1. list.nav.sel # None
  BY DEF Cut
<1>2. CASE /\ InList
           /\ Edit(RemoveRange(playlist, Lower, Upper))
           /\ list' = [Yanked EXCEPT !.nav.upper = 0]
           /\ UNCHANGED <<app, search, portOk, up>>
  <2> DEFINE q == RemoveRange(playlist, Lower, Upper)
             m == [list.nav EXCEPT !.upper = 0]
  <2>1. /\ playlist \in Seq(Videos) /\ Lower \in Nat /\ Upper \in Nat /\ Lower <= Upper
        /\ Upper < Len(playlist)
        /\ ListOK(Yanked) /\ Yanked.nav = list.nav /\ Yanked.shown = list.shown
    BY <1>1, <1>2, YankedOK DEF CellTypeOK, InList
  <2>2. q \in Seq(Videos) /\ Len(q) < Len(playlist)
    BY <2>1, RemoveRangeTyped
  <2>3. CellTypeOK' /\ loose' \in BOOLEAN /\ (loose => loose') /\ loose'
    <3>1. Edit(q)
      BY <1>2
    <3> HIDE DEF q
    <3>2. loose' = (loose \/ Len(q) < Len(playlist))
      BY <3>1 DEF Edit
    <3> QED
      BY <2>2, <3>1, <3>2, EditKeeps
  <2>4. list.nav \in Nav /\ NavOK(m) /\ m.len = list.nav.len
    BY DEF TermInv, ListOK, NavOK, Nav
  <2>5. list' = [Yanked EXCEPT !.nav = m]
    <3>1. list' = [Yanked EXCEPT !.nav = [Yanked.nav EXCEPT !.upper = 0]]
      BY <1>2
    <3> QED
      BY <2>1, <3>1
  <2> HIDE DEF m, q
  <2>6. Yanked \in List /\ Len(list.shown) <= list.nav.len
    BY <2>1 DEF ListOK
  <2>7. list' \in List /\ list'.nav = m /\ list'.shown = list.shown
    BY <2>1, <2>4, <2>5, <2>6 DEF List, NavOK
  <2>8. ListOK(list')
    BY <2>4, <2>6, <2>7 DEF ListOK
  <2>9. Fits(list'.nav, loose', playlist')
    BY <2>3 DEF Fits
  <2> QED
    BY <1>2, <2>3, <2>8, <2>9 DEF TermInv
<1>3. CASE ~ InList /\ Panics
  BY <1>1, <1>3, OutsideIsLoose, PanicsKeeps
<1> QED
  BY <1>2, <1>3 DEF Cut

LEMMA ReverseSelectionKeeps ==
  ASSUME CellTypeOK, TermInv, ReverseSelection
  PROVE  CellTypeOK' /\ TermInv'
<1>1. list.nav.sel # None
  BY DEF ReverseSelection
<1>2. CASE /\ InList
           /\ Edit(ReverseRange(playlist, Lower, Upper))
           /\ list' = Yanked
           /\ UNCHANGED <<app, search, portOk, up>>
  <2>1. /\ playlist \in Seq(Videos) /\ Lower \in Nat /\ Upper \in Nat /\ Lower <= Upper
        /\ Upper < Len(playlist) /\ ListOK(Yanked) /\ Yanked.nav = list.nav
    BY <1>1, <1>2, YankedOK DEF CellTypeOK, InList
  <2>2. ReverseRange(playlist, Lower, Upper) \in Seq(Videos)
    BY <2>1, ReverseRangeTyped
  <2>3. /\ CellTypeOK' /\ loose' \in BOOLEAN /\ (loose => loose')
        /\ Fits(list.nav, loose', playlist')
    BY <1>2, <2>2, EditKeeps
  <2> QED
    BY <1>2, <2>1, <2>3 DEF TermInv
<1>3. CASE ~ InList /\ Panics
  BY <1>1, <1>3, OutsideIsLoose, PanicsKeeps
<1> QED
  BY <1>2, <1>3 DEF ReverseSelection

\* An edit with the list, the searches and the form as they were.
LEMMA OnlyEdits ==
  ASSUME CellTypeOK, TermInv, CellTypeOK', loose' \in BOOLEAN, loose => loose',
         Fits(list.nav, loose', playlist'), AppOK(app'), list' = list,
         search' \in [{"BrowserSearch", "PlaylistSearch"} -> Searches],
         portOk' = portOk, up' = up
  PROVE  CellTypeOK' /\ TermInv'
BY DEF TermInv

LEMMA BehindTyped ==
  ASSUME TermInv, NEW p \in Seq(Videos)
  PROVE  Behind \in Nat /\ Least(Behind, Len(p)) \in 0 .. Len(p)
<1>1. list.nav.sel \in Nat \cup {None}
  BY DEF TermInv, ListOK, NavOK, Nav
<1>2. Behind \in Nat /\ Len(p) \in Nat
  BY <1>1 DEF Behind
<1> QED
  BY <1>2 DEF Least

LEMMA InsertNameKeeps ==
  ASSUME CellTypeOK, TermInv, InsertName
  PROVE  CellTypeOK' /\ TermInv'
<1>1. PICK v \in Videos : Edit(Insert(playlist, Least(Behind, Len(playlist)), v))
  BY DEF InsertName
<1>2. playlist \in Seq(Videos) /\ Least(Behind, Len(playlist)) \in 0 .. Len(playlist)
  BY BehindTyped DEF CellTypeOK
<1>3. Insert(playlist, Least(Behind, Len(playlist)), v) \in Seq(Videos)
  BY <1>2, InsertedOne
<1>4. /\ CellTypeOK' /\ loose' \in BOOLEAN /\ (loose => loose')
      /\ Fits(list.nav, loose', playlist')
  BY <1>1, <1>3, EditKeeps
<1>5. app' = app /\ list' = list /\ search' = search /\ portOk' = portOk /\ up' = up
  BY DEF InsertName
<1> QED
  BY <1>4, <1>5, OnlyEdits DEF TermInv

LEMMA InsertBehindKeeps ==
  ASSUME CellTypeOK, TermInv, NEW r \in Seq(Videos), InsertBehind(r)
  PROVE  /\ CellTypeOK' /\ loose' \in BOOLEAN /\ (loose => loose')
         /\ Fits(list.nav, loose', playlist')
<1>1. playlist \in Seq(Videos) /\ Least(Behind, Len(playlist)) \in 0 .. Len(playlist)
  BY BehindTyped DEF CellTypeOK
<1>2. InsertRange(playlist, Least(Behind, Len(playlist)), r) \in Seq(Videos)
  BY <1>1, InsertRangeTyped
<1> QED
  BY <1>2, EditKeeps DEF InsertBehind

LEMMA InsertRecentKeeps ==
  ASSUME CellTypeOK, TermInv, InsertRecent
  PROVE  CellTypeOK' /\ TermInv'
<1>1. PICK r \in Slices(store) : InsertBehind(r)
  BY DEF InsertRecent
<1>2. r \in Seq(Videos)
  BY StoreTyped, SlicesTyped
<1>3. /\ CellTypeOK' /\ loose' \in BOOLEAN /\ (loose => loose')
      /\ Fits(list.nav, loose', playlist')
  BY <1>1, <1>2, InsertBehindKeeps
<1>4. app' = app /\ list' = list /\ search' = search /\ portOk' = portOk /\ up' = up
  BY DEF InsertRecent
<1> QED
  BY <1>3, <1>4, OnlyEdits DEF TermInv

LEMMA CommandKeeps ==
  ASSUME CellTypeOK, TermInv, Command
  PROVE  CellTypeOK' /\ TermInv'
<1>1. /\ AppOK(app) /\ app.mode = "Overlay" /\ app' = ResetOverlay(app)
      /\ list' = list /\ search' = search /\ portOk' = portOk /\ up' = up
      /\ playlist \in Seq(Videos)
  BY DEF Command, On, TermInv, CellTypeOK
<1>2. AppOK(app')
  BY <1>1, ResetOK
<1>3. /\ CellTypeOK' /\ loose' \in BOOLEAN /\ (loose => loose')
      /\ Fits(list.nav, loose', playlist')
  <2>1. ASSUME NEW v \in Videos, EditIf(RemoveByVideo(playlist, v))
        PROVE  /\ CellTypeOK' /\ loose' \in BOOLEAN /\ (loose => loose')
               /\ Fits(list.nav, loose', playlist')
    <3>1. RemoveByVideo(playlist, v) \in Seq(Videos)
      BY <1>1, RemovedOne, Zenon
    <3> QED
      BY <2>1, <3>1, EditIfKeeps
  <2>2. ASSUME NEW v \in Videos, NEW i \in 0 .. Len(playlist), Edit(MoveVideo(playlist, v, i))
        PROVE  /\ CellTypeOK' /\ loose' \in BOOLEAN /\ (loose => loose')
               /\ Fits(list.nav, loose', playlist')
    <3>1. MoveVideo(playlist, v, i) \in Seq(Videos)
      BY <1>1, MoveTyped
    <3> QED
      BY <2>2, <3>1, EditKeeps
  <2>3. ASSUME NEW v \in Videos, Edit(Insert(playlist, 0, v))
        PROVE  /\ CellTypeOK' /\ loose' \in BOOLEAN /\ (loose => loose')
               /\ Fits(list.nav, loose', playlist')
    <3>1. 0 \in 0 .. Len(playlist)
      BY <1>1
    <3>2. Insert(playlist, 0, v) \in Seq(Videos)
      BY <1>1, <3>1, InsertedOne
    <3> QED
      BY <2>3, <3>2, EditKeeps
  <2>4. CASE UNCHANGED <<cellVars, loose>>
    BY <2>4, CellStays DEF TermInv
  <2> QED
    BY <2>1, <2>2, <2>3, <2>4 DEF Command
<1> QED
  BY <1>1, <1>2, <1>3, OnlyEdits DEF TermInv

LEMMA PlaylistBrowserKeeps ==
  ASSUME CellTypeOK, TermInv, PlaylistBrowser
  PROVE  CellTypeOK' /\ TermInv'
<1>1. /\ AppOK(app) /\ app.mode = "Overlay" /\ app' = ResetOverlay(app)
      /\ list' = list /\ search' = search /\ portOk' = portOk /\ up' = up
  BY DEF PlaylistBrowser, On, TermInv
<1>2. AppOK(app')
  BY <1>1, ResetOK
<1>3. /\ CellTypeOK' /\ loose' \in BOOLEAN /\ (loose => loose')
      /\ Fits(list.nav, loose', playlist')
  <2>1. ASSUME NEW p \in Saved, Edit(p)
        PROVE  /\ CellTypeOK' /\ loose' \in BOOLEAN /\ (loose => loose')
               /\ Fits(list.nav, loose', playlist')
    <3>1. p \in Seq(Videos)
      BY TerminalAssumption
    <3> QED
      BY <2>1, <3>1, EditKeeps
  <2>2. CASE UNCHANGED <<cellVars, loose>>
    BY <2>2, CellStays DEF TermInv
  <2> QED
    BY <2>1, <2>2 DEF PlaylistBrowser
<1> QED
  BY <1>1, <1>2, <1>3, OnlyEdits DEF TermInv

LEMMA PasteKeeps ==
  ASSUME CellTypeOK, TermInv, Paste
  PROVE  CellTypeOK' /\ TermInv'
<1>1. /\ list \in List /\ NavOK(list.nav) /\ list.nav \in Nav
      /\ list.shown \in Seq(Videos) /\ list.clip \in Seq(Videos)
      /\ list.nav.sel \in Nat \cup {None} /\ list.nav.upper \in Nat
      /\ playlist \in Seq(Videos) /\ loose \in BOOLEAN
      /\ Fits(list.nav, loose, playlist)
  BY DEF TermInv, ListOK, List, NavOK, Nav, CellTypeOK, Paste
<1>2. Len(list.shown) \in Nat /\ Len(list.clip) \in Nat /\ Len(playlist) \in Nat
  BY <1>1
<1>3. CASE /\ Behind <= Len(playlist)
           /\ ChangePlaylist(AppendAt(playlist, Behind, list.clip))
           /\ list' = Pasted
           /\ loose' = (loose \/ list.clip = <<>>
                          \/ Len(playlist') < Len(list.shown) + Len(list.clip))
           /\ UNCHANGED <<app, search, portOk, up, store>>
  <2> DEFINE k == Len(list.clip)
             n == [list.nav EXCEPT !.len = Len(list.shown) + k]
             m == IncreaseSelectionOffsetBy(Previous(n), Before(k))
  <2>1. Behind \in 0 .. Len(playlist)
    BY <1>1, <1>2, <1>3, BehindTyped
  <2>2. AppendAt(playlist, Behind, list.clip) \in Seq(Videos)
    BY <1>1, <2>1, AppendAtTyped
  <2>3. CellTypeOK' /\ playlist' \in Seq(Videos)
    BY <1>3, <2>2, ActTyped DEF CellTypeOK, ChangePlaylist
  <2>4. Len(playlist') \in Nat /\ Before(k) \in Nat
    BY <1>2, <2>3 DEF Before
  <2>0. /\ k \in Nat /\ (list.clip # <<>> => k # 0)
        /\ (~ loose' => list.clip # <<>> /\ ~ (Len(playlist') < Len(list.shown) + k))
    <3>1. k \in Nat
      BY <1>2
    <3>2. list.clip # <<>> => k # 0
      BY <1>1
    <3>3. ~ loose' => list.clip # <<>> /\ ~ (Len(playlist') < Len(list.shown) + k)
      <4> HIDE DEF m, n
      <4> QED
        BY <1>1, <1>3, Zenon
    <3> QED
      BY <3>1, <3>2, <3>3, Zenon
  <2>6. list' = [list EXCEPT !.nav = m]
    BY <1>3, Zenon DEF Pasted
  <2> HIDE DEF k
  <2>5. /\ n \in Nav /\ n.len = Len(list.shown) + k /\ n.sel = list.nav.sel
        /\ n.upper = list.nav.upper
    <3>1. Len(list.shown) + k \in Nat
      BY <1>2, <2>0
    <3> QED
      BY <1>1, <3>1 DEF Nav
  <2> HIDE DEF n
  <2>7. NavOK(n)
    BY <1>1, <2>5 DEF NavOK
  <2>8. loose' \in BOOLEAN /\ (loose => loose')
    BY <1>1, <1>3
  <2>9. NavOK(Previous(n)) /\ Previous(n).len = n.len /\ Fits(Previous(n), loose', playlist')
    <3>1. /\ NavOK(Previous(n)) /\ Previous(n).len = n.len
          /\ Fits(Previous(n), ~ (playlist' # <<>> /\ n.len <= Len(playlist')), playlist')
      BY <2>3, <2>7, PreviousOK
    <3>2. ~ loose' => playlist' # <<>> /\ n.len <= Len(playlist')
      <4>1. ASSUME ~ loose'
            PROVE  playlist' # <<>> /\ n.len <= Len(playlist')
        <5>1. k # 0 /\ ~ (Len(playlist') < Len(list.shown) + k)
          BY <2>0, <4>1
        <5>2. Len(playlist') # 0 /\ Len(list.shown) + k <= Len(playlist')
          BY <1>2, <2>0, <2>4, <5>1
        <5>3. playlist' # <<>>
          BY <2>3, <5>2
        <5> QED
          BY <2>5, <5>2, <5>3
      <4> QED
        BY <4>1
    <3> QED
      BY <3>1, <3>2 DEF Fits
  <2>10. NavOK(m) /\ m.len = n.len /\ Fits(m, loose', playlist')
    BY <2>3, <2>4, <2>8, <2>9, IncreaseByOK
  <2> HIDE DEF m
  <2>11. list' \in List /\ list'.nav = m /\ list'.shown = list.shown
    BY <1>1, <2>6, <2>10 DEF List, NavOK
  <2>12. ListOK(list')
    <3>1. Len(list.shown) <= n.len
      BY <1>2, <2>0, <2>5
    <3> QED
      BY <2>10, <2>11, <3>1 DEF ListOK
  <2> QED
    BY <1>3, <2>3, <2>8, <2>10, <2>11, <2>12, Together DEF TermInv
<1>4. CASE Behind > Len(playlist) /\ Panics
  <2>1. loose
    <3> SUFFICES ASSUME ~ loose
                 PROVE  FALSE
      BY <1>1
    <3>1. CASE list.nav.sel = None
      BY <1>2, <1>4, <3>1 DEF Behind
    <3>2. CASE list.nav.sel # None
      <4>1. list.nav.sel + list.nav.upper < Len(playlist) /\ list.nav.sel \in Nat
        BY <1>1, <3>2 DEF Fits
      <4> QED
        BY <1>1, <1>2, <1>4, <3>2, <4>1 DEF Behind
    <3> QED
      BY <3>1, <3>2
  <2> QED
    BY <1>4, <2>1, PanicsKeeps
<1> QED
  BY <1>3, <1>4 DEF Paste

-----------------------------------------------------------------------------
(* The terminal: its searches and the cells.                               *)

LEMMA SearchTyped ==
  ASSUME NEW p \in Seq(Videos), NEW q \in Queries
  PROVE  Search(p, q) \in Seq(Videos)
BY KeptTyped DEF Search

LEMMA EverythingTyped == Everything \in Queries
BY CellsAssumption, Zenon DEF Everything

LEMMA StartSearchKeeps ==
  ASSUME search \in [{"BrowserSearch", "PlaylistSearch"} -> Searches],
         NEW w \in {"BrowserSearch", "PlaylistSearch"},
         NEW p \in Seq(Videos), NEW q \in Queries, StartSearch(w, p, q)
  PROVE  search' \in [{"BrowserSearch", "PlaylistSearch"} -> Searches]
<1> DEFINE x == Search(p, q)
           one == [search[w] EXCEPT !.query = q]
           both == [one EXCEPT !.found = x]
<1>1. x \in Seq(Videos)
  BY SearchTyped
<1>2. search' = [search EXCEPT ![w] = both]
  BY DEF StartSearch
<1> HIDE DEF x
<1>3. one \in Searches
  BY DEF Searches
<1> HIDE DEF one
<1>4. both \in Searches
  BY <1>1, <1>3 DEF Searches
<1> HIDE DEF both
<1> QED
  BY <1>2, <1>4

LEMMA EntriesTyped ==
  ASSUME CellTypeOK, TermInv, NEW w
  PROVE  Entries(w) \in Seq(Videos)
BY StoreTyped DEF Entries, TermInv, ListOK, List

LEMMA CloseSearchKeeps ==
  ASSUME TermInv, NEW w \in {"BrowserSearch", "PlaylistSearch"}, CloseSearch(w),
         app.mode = "Overlay"
  PROVE  /\ AppOK(app')
         /\ search' \in [{"BrowserSearch", "PlaylistSearch"} -> Searches]
<1>1. AppOK(app')
  BY ResetOK DEF CloseSearch, TermInv
<1>2. EmptySearch(Everything) \in Searches
  BY EverythingTyped DEF EmptySearch, Searches
<1>3. search' \in [{"BrowserSearch", "PlaylistSearch"} -> Searches]
  BY <1>2 DEF CloseSearch, TermInv
<1> QED
  BY <1>1, <1>3

LEMMA OpenSearchKeeps ==
  ASSUME CellTypeOK, TermInv, NEW w \in {"BrowserSearch", "PlaylistSearch"}, OpenSearch(w)
  PROVE  CellTypeOK' /\ TermInv'
<1>1. /\ StartSearch(w, Entries(w), Everything)
      /\ UNCHANGED <<list, portOk, up, loose>> /\ UNCHANGED cellVars
  BY DEF OpenSearch
<1>2. w \in Overlays /\ AppOK(app)
  BY DEF Overlays, TermInv
<1>3. AppOK(app')
  <2>1. CASE On("Option") /\ app' = Switch(app, w)
    BY <1>2, <2>1, SwitchOK DEF On
  <2>2. CASE Inside("Playlist") /\ app' = Open(app, w)
    BY <1>2, <2>2, OpenOK DEF Inside
  <2> QED
    BY <2>1, <2>2 DEF OpenSearch
<1>4. search' \in [{"BrowserSearch", "PlaylistSearch"} -> Searches]
  BY <1>1, EntriesTyped, EverythingTyped, StartSearchKeeps DEF TermInv
<1>5. CellTypeOK' /\ playlist' = playlist
  BY <1>1, CellStays
<1> QED
  BY <1>1, <1>3, <1>4, <1>5 DEF TermInv

LEMMA TypeQueryKeeps ==
  ASSUME CellTypeOK, TermInv, NEW w \in {"BrowserSearch", "PlaylistSearch"}, TypeQuery(w)
  PROVE  CellTypeOK' /\ TermInv'
<1>1. PICK q \in Queries : StartSearch(w, Entries(w), q)
  BY DEF TypeQuery
<1>2. search' \in [{"BrowserSearch", "PlaylistSearch"} -> Searches]
  BY <1>1, EntriesTyped, StartSearchKeeps DEF TermInv
<1>3. Act /\ UNCHANGED <<app, list, portOk, up, loose, playlist, fresh, store>>
  BY DEF TypeQuery
<1>4. CellTypeOK'
  BY <1>3, ActTyped DEF CellTypeOK
<1> QED
  BY <1>2, <1>3, <1>4 DEF TermInv

LEMMA SearchEndsKeeps ==
  ASSUME CellTypeOK, TermInv, NEW w \in {"BrowserSearch", "PlaylistSearch"}, SearchEnds(w)
  PROVE  CellTypeOK' /\ TermInv'
<1> DEFINE one == [search[w] EXCEPT !.result = search[w].found]
           both == [one EXCEPT !.found = None]
<1>1. search \in [{"BrowserSearch", "PlaylistSearch"} -> Searches]
  BY DEF TermInv
<1>2. /\ search' = [search EXCEPT ![w] = both]
      /\ UNCHANGED <<app, list, portOk, up, loose>> /\ UNCHANGED cellVars
  BY DEF SearchEnds
<1>3. one \in Searches
  BY <1>1 DEF Searches, SearchEnds
<1> HIDE DEF one
<1>4. both \in Searches
  BY <1>3 DEF Searches
<1> HIDE DEF both
<1>5. search' \in [{"BrowserSearch", "PlaylistSearch"} -> Searches]
  BY <1>1, <1>2, <1>4
<1>6. CellTypeOK' /\ playlist' = playlist
  BY <1>2, CellStays
<1> QED
  BY <1>2, <1>5, <1>6 DEF TermInv

LEMMA LeaveSearchKeeps ==
  ASSUME CellTypeOK, TermInv, NEW w \in {"BrowserSearch", "PlaylistSearch"}, LeaveSearch(w)
  PROVE  CellTypeOK' /\ TermInv'
<1>1. /\ CloseSearch(w) /\ app.mode = "Overlay"
      /\ UNCHANGED <<list, portOk, up, loose>> /\ UNCHANGED cellVars
  BY DEF LeaveSearch, On
<1>2. CellTypeOK' /\ playlist' = playlist
  BY <1>1, CellStays
<1> QED
  BY <1>1, <1>2, CloseSearchKeeps DEF TermInv

LEMMA ChosenTyped ==
  ASSUME TermInv, NEW w \in {"BrowserSearch", "PlaylistSearch"}, NEW r \in Chosen(w)
  PROVE  r \in Seq(Videos) /\ r # <<>>
<1>1. search[w] \in Searches
  BY DEF TermInv
<1>2. search[w].result \in Seq(Videos)
  BY <1>1 DEF Chosen, Searches
<1>3. r \in Slices(search[w].result)
  BY DEF Chosen
<1> QED
  BY <1>2, <1>3, SlicesTyped

LEMMA TakeFilesKeeps ==
  ASSUME CellTypeOK, TermInv, TakeFiles
  PROVE  CellTypeOK' /\ TermInv'
<1>1. PICK r \in Chosen("BrowserSearch") : InsertBehind(r)
  BY DEF TakeFiles
<1>2. r \in Seq(Videos)
  BY ChosenTyped
<1>3. /\ CellTypeOK' /\ loose' \in BOOLEAN /\ (loose => loose')
      /\ Fits(list.nav, loose', playlist')
  BY <1>1, <1>2, InsertBehindKeeps
<1>4. /\ CloseSearch("BrowserSearch") /\ app.mode = "Overlay"
      /\ list' = list /\ portOk' = portOk /\ up' = up
  BY DEF TakeFiles, On
<1> QED
  BY <1>3, <1>4, CloseSearchKeeps, OnlyEdits

LEMMA MoveFoundKeeps ==
  ASSUME CellTypeOK, TermInv, MoveFound
  PROVE  CellTypeOK' /\ TermInv'
<1>1. PICK r \in Chosen("PlaylistSearch") :
        Edit(InsertRange(RemoveAll(playlist, r),
                         Least(Behind, Len(RemoveAll(playlist, r))), r))
  BY DEF MoveFound
<1> DEFINE rest == RemoveAll(playlist, r)
<1>2. r \in Seq(Videos)
  BY ChosenTyped
<1>3. rest \in Seq(Videos)
  BY <1>2, RemoveAllTyped DEF CellTypeOK
<1>4. Edit(InsertRange(rest, Least(Behind, Len(rest)), r))
  BY <1>1
<1> HIDE DEF rest
<1>5. InsertRange(rest, Least(Behind, Len(rest)), r) \in Seq(Videos)
  BY <1>2, <1>3, BehindTyped, InsertRangeTyped
<1>6. /\ CellTypeOK' /\ loose' \in BOOLEAN /\ (loose => loose')
      /\ Fits(list.nav, loose', playlist')
  BY <1>4, <1>5, EditKeeps
<1>7. /\ CloseSearch("PlaylistSearch") /\ app.mode = "Overlay"
      /\ list' = list /\ portOk' = portOk /\ up' = up
  BY DEF MoveFound, On
<1> QED
  BY <1>6, <1>7, CloseSearchKeeps, OnlyEdits

LEMMA RemoveFoundKeeps ==
  ASSUME CellTypeOK, TermInv, RemoveFound
  PROVE  CellTypeOK' /\ TermInv'
<1>1. PICK r \in Chosen("PlaylistSearch") : EditIf(RemoveAll(playlist, r))
  BY DEF RemoveFound
<1>2. r \in Seq(Videos)
  BY ChosenTyped
<1>3. RemoveAll(playlist, r) \in Seq(Videos)
  BY <1>2, RemoveAllTyped DEF CellTypeOK
<1>4. /\ CellTypeOK' /\ loose' \in BOOLEAN /\ (loose => loose')
      /\ Fits(list.nav, loose', playlist')
  BY <1>1, <1>3, EditIfKeeps
<1>5. /\ CloseSearch("PlaylistSearch") /\ app.mode = "Overlay"
      /\ list' = list /\ portOk' = portOk /\ up' = up
  BY DEF RemoveFound, On
<1> QED
  BY <1>4, <1>5, CloseSearchKeeps, OnlyEdits

LEMMA JumpToFoundKeeps ==
  ASSUME CellTypeOK, TermInv, JumpToFound
  PROVE  CellTypeOK' /\ TermInv'
<1>1. PICK r \in Chosen("PlaylistSearch") : list' = JumpTo(r[1])
  BY DEF JumpToFound
<1>2. /\ CloseSearch("PlaylistSearch") /\ app.mode = "Overlay"
      /\ loose' = (loose \/ Extended \/ ~ Sound)
      /\ portOk' = portOk /\ up' = up /\ UNCHANGED cellVars
  BY DEF JumpToFound, On
<1>3. CellTypeOK' /\ playlist' = playlist
  BY <1>2, CellStays
<1>4. ListOK(list') /\ Fits(list'.nav, loose', playlist')
  BY <1>1, <1>2, <1>3, JumpToOK, Zenon
<1>5. loose' \in BOOLEAN /\ (loose => loose')
  BY <1>2
<1> QED
  BY <1>2, <1>3, <1>4, <1>5, CloseSearchKeeps, Together

LEMMA NotifyKeeps ==
  ASSUME CellTypeOK, TermInv, Notify
  PROVE  CellTypeOK' /\ TermInv'
<1>1. /\ up = "running" /\ fresh' = FALSE /\ list' = TakeOver(list)
      /\ UNCHANGED <<app, search, portOk, up, loose, playlist, store, acts>>
  BY DEF Notify, Key
<1>2. CellTypeOK' /\ playlist \in Seq(Videos) /\ Len(playlist) \in Nat
  <2>1. playlist \in Seq(Videos) /\ store \in Stores /\ acts \in 0 .. MaxActs
    BY DEF CellTypeOK
  <2>2. CellTypeOK'
    BY <1>1, <2>1 DEF CellTypeOK
  <2> QED
    BY <2>1, <2>2
<1>3. /\ list \in List /\ list.nav \in Nav /\ NavOK(list.nav) /\ loose \in BOOLEAN
      /\ Fits(list.nav, loose, playlist)
  BY DEF TermInv, ListOK, NavOK
<1> DEFINE one == [list.nav EXCEPT !.len = Len(playlist)]
           k == IF list.nav.sel = None /\ playlist # <<>> THEN 0 ELSE list.nav.sel
           m == [one EXCEPT !.sel = k]
           l == [list EXCEPT !.shown = playlist]
<1>4. list' = [l EXCEPT !.nav = m]
  BY <1>1, Zenon DEF TakeOver
<1>5. /\ one \in Nav /\ one.len = Len(playlist) /\ one.sel = list.nav.sel
      /\ one.upper = list.nav.upper
  BY <1>2, <1>3 DEF Nav
<1>6. l \in List /\ l.shown = playlist
  BY <1>2, <1>3 DEF List
<1>12. k \in Nat \cup {None}
  BY <1>3 DEF Nav
<1> HIDE DEF one, l, k
<1>7. /\ m \in Nav /\ m.len = one.len /\ m.upper = one.upper
      /\ m.sel = IF one.sel = None /\ playlist # <<>> THEN 0 ELSE one.sel
  <2>1. m \in Nav /\ m.len = one.len /\ m.upper = one.upper /\ m.sel = k
    BY <1>5, <1>12 DEF Nav
  <2> QED
    BY <1>5, <2>1 DEF k
<1> HIDE DEF m
<1>8. NavOK(m)
  BY <1>3, <1>5, <1>7, TerminalAssumption DEF NavOK
<1>9. list' \in List /\ list'.nav = m /\ list'.shown = playlist
  BY <1>4, <1>6, <1>7 DEF List
<1>10. ListOK(list')
  BY <1>2, <1>5, <1>7, <1>8, <1>9 DEF ListOK
<1>11. Fits(m, loose, playlist)
  <2>1. ASSUME ~ loose, m.sel # None
        PROVE  m.sel + m.upper < Len(playlist)
    <3>1. CASE list.nav.sel = None
      <4>1. /\ m.sel = 0 /\ m.upper = list.nav.upper /\ playlist # <<>>
            /\ m.upper \in Nat
        BY <1>3, <1>5, <1>7, <2>1, <3>1 DEF Nav
      <4>2. m.upper > 0 => m.upper < Len(playlist)
        BY <1>3, <2>1, <4>1 DEF Fits
      <4>3. Len(playlist) > 0
        BY <1>2, <4>1
      <4> QED
        BY <1>2, <4>1, <4>2, <4>3
    <3>2. CASE list.nav.sel # None
      BY <1>3, <1>5, <1>7, <2>1, <3>2 DEF Fits
    <3> QED
      BY <3>1, <3>2
  <2>2. ASSUME ~ loose
        PROVE  m.upper > 0 => m.upper < Len(playlist)
    BY <1>3, <1>5, <1>7, <2>2 DEF Fits
  <2> QED
    BY <1>2, <1>5, <1>7, <2>1, <2>2 DEF Fits
<1> QED
  BY <1>1, <1>2, <1>9, <1>10, <1>11 DEF TermInv

LEMMA RedrawKeeps ==
  ASSUME CellTypeOK, TermInv, Redraw
  PROVE  CellTypeOK' /\ TermInv'
<1> DEFINE n == list.nav
           k == IF list.shown = <<>> THEN None ELSE Before(Len(list.shown))
           m == [n EXCEPT !.sel = k]
<1>1. /\ n.sel # None /\ Len(list.shown) <= n.sel
      /\ list' = [list EXCEPT !.nav = m]
      /\ UNCHANGED <<app, search, portOk, up, loose, cellVars>>
  BY Zenon DEF Redraw
<1>2. /\ list \in List /\ n \in Nav /\ ListOK(list) /\ Len(list.shown) \in Nat
      /\ loose \in BOOLEAN /\ Fits(n, loose, playlist)
  BY DEF TermInv, ListOK, NavOK, List
<1>3. /\ n.sel \in Nat /\ n.upper \in Nat /\ n.len \in Nat
      /\ Len(playlist) \in Nat
  BY <1>1, <1>2 DEF Nav, CellTypeOK
<1>4. k \in Nat \cup {None} /\ (k # None => k <= n.sel)
  <2>1. list.shown # <<>> => Len(list.shown) \in Nat \ {0}
    BY <1>2 DEF List
  <2> QED
    BY <1>1, <1>3, <2>1 DEF Before
<1> HIDE DEF k
<1>5. m \in Nav /\ m.sel = k /\ m.upper = n.upper /\ m.len = n.len
  BY <1>2, <1>4 DEF Nav
<1> HIDE DEF m
<1>6. list' \in List /\ list'.nav = m /\ list'.shown = list.shown
  BY <1>1, <1>2, <1>5 DEF List
<1>7. ListOK(list')
  BY <1>2, <1>5, <1>6 DEF ListOK, NavOK
<1>8. Fits(m, loose, playlist)
  BY <1>2, <1>3, <1>4, <1>5, TerminalAssumption DEF Fits
<1>9. CellTypeOK'
  BY <1>1, CellStays
<1> QED
  BY <1>1, <1>6, <1>7, <1>8, <1>9 DEF TermInv, cellVars

LEMMA NotifyStoreKeeps ==
  ASSUME CellTypeOK, TermInv, NEW s \in Stores, NotifyStore(s)
  PROVE  CellTypeOK' /\ TermInv'
<1>1. /\ Act /\ store' = s
      /\ StartSearch("BrowserSearch", s, search["BrowserSearch"].query)
      /\ UNCHANGED <<app, list, portOk, up, loose, playlist, fresh>>
  BY DEF NotifyStore
<1>2. s \in Seq(Videos) /\ search["BrowserSearch"].query \in Queries
  <2>1. search["BrowserSearch"] \in Searches
    BY DEF TermInv
  <2> QED
    BY <2>1, CellsAssumption DEF Searches
<1>3. search' \in [{"BrowserSearch", "PlaylistSearch"} -> Searches]
  BY <1>1, <1>2, StartSearchKeeps DEF TermInv
<1>4. CellTypeOK'
  BY <1>1, ActTyped DEF CellTypeOK
<1> QED
  BY <1>1, <1>3, <1>4 DEF TermInv

LEMMA RoomPlaylistKeeps ==
  ASSUME CellTypeOK, TermInv, NEW p \in Lists, RoomPlaylist(p)
  PROVE  CellTypeOK' /\ TermInv'
<1>1. Edit(p) /\ UNCHANGED <<app, list, search, portOk, up>>
  BY DEF RoomPlaylist
<1>2. p \in Seq(Videos)
  BY CellsAssumption
<1>3. /\ CellTypeOK' /\ loose' \in BOOLEAN /\ (loose => loose')
      /\ Fits(list.nav, loose', playlist')
  BY <1>1, <1>2, EditKeeps
<1> QED
  BY <1>1, <1>3, OnlyEdits DEF TermInv

LEMMA SearchingKeeps ==
  ASSUME CellTypeOK, TermInv, Searching
  PROVE  CellTypeOK' /\ TermInv'
<1>1. DOMAIN search = {"BrowserSearch", "PlaylistSearch"}
  BY DEF TermInv
<1>2. ASSUME NEW w \in {"BrowserSearch", "PlaylistSearch"},
             OpenSearch(w) \/ TypeQuery(w) \/ SearchEnds(w) \/ LeaveSearch(w)
      PROVE  CellTypeOK' /\ TermInv'
  BY <1>2, OpenSearchKeeps, TypeQueryKeeps, SearchEndsKeeps, LeaveSearchKeeps
<1>3. CASE TakeFiles \/ MoveFound \/ RemoveFound \/ JumpToFound
  BY <1>3, TakeFilesKeeps, MoveFoundKeeps, RemoveFoundKeeps, JumpToFoundKeeps
<1> QED
  BY <1>1, <1>2, <1>3 DEF Searching

LEMMA EditingKeeps ==
  ASSUME CellTypeOK, TermInv, Editing
  PROVE  CellTypeOK' /\ TermInv'
BY YankKeeps, CutKeeps, ReverseSelectionKeeps, PasteKeeps, InsertNameKeeps,
   InsertRecentKeeps, CommandKeeps, PlaylistBrowserKeeps DEF Editing

LEMMA TermKeeps ==
  ASSUME CellTypeOK, TermInv, TermNext
  PROVE  CellTypeOK' /\ TermInv'
<1>1. CASE Quit \/ Navigate \/ Inspect \/ Options \/ CloseForm \/ Settings
  BY <1>1, QuitKeeps, NavigateKeeps, InspectKeeps, OptionsKeeps, CloseFormKeeps, SettingsKeeps
<1>2. CASE PlaylistCursor \/ JumpToPlaying \/ ShowName
  BY <1>2, PlaylistCursorKeeps, JumpToPlayingKeeps, ShowNameKeeps
<1>3. CASE Editing \/ Searching \/ Notify \/ Redraw
  BY <1>3, EditingKeeps, SearchingKeeps, NotifyKeeps, RedrawKeeps
<1>4. ASSUME NEW s \in Stores, NotifyStore(s)
      PROVE  CellTypeOK' /\ TermInv'
  BY <1>4, NotifyStoreKeeps
<1>5. ASSUME NEW p \in Lists, RoomPlaylist(p)
      PROVE  CellTypeOK' /\ TermInv'
  BY <1>5, RoomPlaylistKeeps
<1> QED
  BY <1>1, <1>2, <1>3, <1>4, <1>5 DEF TermNext

LEMMA TermStarts ==
  ASSUME CellInit, TermInit
  PROVE  CellTypeOK /\ TermInv
<1>1. CellTypeOK /\ playlist = <<>>
  <2>1. playlist = <<>> /\ fresh = FALSE /\ store = <<>> /\ acts = 0
    BY DEF CellInit
  <2>2. 0 \in 0 .. MaxActs /\ <<>> \in Stores
    BY CellsAssumption
  <2>3. playlist \in Seq(Videos)
    BY <2>1
  <2> QED
    BY <2>1, <2>2, <2>3 DEF CellTypeOK
<1>2. AppOK(app)
  BY TerminalAssumption DEF TermInit, AppOK, App, Modes, Overlays, Widgets
<1>3. /\ ListOK(list) /\ list.nav.sel = None /\ list.nav.upper = 0
      /\ list.nav.len = 0
  BY TerminalAssumption DEF TermInit, ListOK, List, NavOK, Nav
<1>4. search \in [{"BrowserSearch", "PlaylistSearch"} -> Searches]
  BY EverythingTyped DEF TermInit, EmptySearch, Searches
<1>5. Fits(list.nav, loose, playlist)
  BY <1>1, <1>3 DEF Fits
<1> QED
  BY <1>1, <1>2, <1>3, <1>4, <1>5 DEF TermInv, TermInit

-----------------------------------------------------------------------------
(* The window: where a video that is dropped lands.                        *)

LEMMA WithoutNone ==
  ASSUME NEW p \in Seq(Videos), NEW v, \A i \in 1 .. Len(p) : p[i] # v
  PROVE  Without(p, v) = p
<1> DEFINE n == Len(p)
           vs == Videos \ {v}
<1>0. Without(p, v) = Kept(p, vs)
  BY DEF Without
<1> HIDE DEF vs
<1>1. PICK r \in [0 .. n -> Seq(Videos)] :
        /\ r[0] = <<>> /\ r[n] = Without(p, v)
        /\ \A k \in 1 .. n :
             r[k] = IF p[k] \in vs THEN Append(r[k - 1], p[k]) ELSE r[k - 1]
  BY <1>0, KeptSteps
<1> DEFINE T == {k \in 0 .. n : r[k] = SubSeq(p, 1, k)}
<1>2. n \in Nat
  OBVIOUS
<1>3. 0 \in T
  BY <1>1, <1>2
<1>4. ASSUME NEW k \in 1 .. n, k - 1 \in T
      PROVE  k \in T
  <2>1. p[k] \in vs /\ k \in 0 .. n /\ k - 1 \in 0 .. n
    BY <1>2 DEF vs
  <2>2. r[k] = Append(SubSeq(p, 1, k - 1), p[k])
    BY <1>1, <1>4, <2>1
  <2>3. Append(SubSeq(p, 1, k - 1), p[k]) = SubSeq(p, 1, k)
    BY <1>2
  <2> QED
    BY <2>1, <2>2, <2>3
<1>5. \A k \in 0 .. n : k \in T
  <2> HIDE DEF T
  <2> QED
    BY <1>2, <1>3, <1>4, Reaches
<1>6. n \in T
  BY <1>2, <1>5
<1>7. SubSeq(p, 1, n) = p
  BY <1>2
<1> QED
  BY <1>1, <1>6, <1>7

\* p without what is at m.
LEMMA WithoutOne ==
  ASSUME NEW p \in Seq(Videos), NEW m \in 1 .. Len(p),
         \A i \in 1 .. Len(p) : p[i] = p[m] => i = m
  PROVE  Without(p, p[m]) =
           [j \in 1 .. (Len(p) - 1) |-> IF j < m THEN p[j] ELSE p[j + 1]]
<1> DEFINE n == Len(p)
           upto(k) == [j \in 1 .. (IF k < m THEN k ELSE k - 1) |->
                         IF j < m THEN p[j] ELSE p[j + 1]]
           vs == Videos \ {p[m]}
<1>0. Without(p, p[m]) = Kept(p, vs)
  BY DEF Without
<1> HIDE DEF vs
<1>1. PICK r \in [0 .. n -> Seq(Videos)] :
        /\ r[0] = <<>> /\ r[n] = Without(p, p[m])
        /\ \A k \in 1 .. n :
             r[k] = IF p[k] \in vs THEN Append(r[k - 1], p[k]) ELSE r[k - 1]
  BY <1>0, KeptSteps
<1> DEFINE T == {k \in 0 .. n : r[k] = upto(k)}
<1>2. n \in Nat /\ m \in Nat /\ 1 <= m /\ m <= n
  OBVIOUS
<1>3. 0 \in T
  <2>1. upto(0) = <<>>
    BY <1>2
  <2> QED
    BY <1>1, <1>2, <2>1
<1>4. ASSUME NEW k \in 1 .. n, k - 1 \in T
      PROVE  k \in T
  <2>0. /\ k \in 0 .. n /\ k - 1 \in 0 .. n /\ r[k - 1] = upto(k - 1)
        /\ (p[k] \in vs <=> k # m)
    <3>1. k \in 0 .. n /\ k - 1 \in 0 .. n /\ r[k - 1] = upto(k - 1)
      BY <1>2, <1>4
    <3>2. p[k] \in Videos /\ (p[k] = p[m] <=> k = m)
      BY <1>2
    <3> QED
      BY <3>1, <3>2, Zenon DEF vs
  <2>1. CASE k = m
    <3>1. r[k] = upto(k - 1)
      BY <1>1, <2>0, <2>1
    <3>2. upto(k - 1) = upto(k)
      BY <1>2, <2>1
    <3> QED
      BY <2>0, <3>1, <3>2
  <2>2. CASE k # m
    <3>1. r[k] = Append(upto(k - 1), p[k])
      BY <1>1, <2>0, <2>2
    <3>2. Append(upto(k - 1), p[k]) = upto(k)
      <4>1. CASE k < m
        BY <1>2, <4>1
      <4>2. CASE k > m
        BY <1>2, <4>2
      <4> QED
        BY <1>2, <2>2, <4>1, <4>2
    <3> QED
      BY <2>0, <3>1, <3>2
  <2> QED
    BY <2>1, <2>2
<1>5. \A k \in 0 .. n : k \in T
  <2> HIDE DEF T
  <2> QED
    BY <1>2, <1>3, <1>4, Reaches
<1>6. r[n] = upto(n)
  <2>1. n \in T
    BY <1>2, <1>5
  <2> HIDE DEF upto
  <2> QED
    BY <2>1
<1>7. (IF n < m THEN n ELSE n - 1) = n - 1
  BY <1>2
<1> QED
  BY <1>1, <1>6, <1>7, Zenon

\* The place that Relative gives to a gap, from its arguments.
PlaceOf(p, from, gap) == IF from < gap THEN gap - 1 ELSE Least(gap, Before(Len(p)))

LEMMA Lands ==
  ASSUME NEW p \in Seq(Videos), IsInjective(p), NEW from \in Nat, from < Len(p),
         NEW g \in 0 .. Len(p)
  PROVE  LET v == p[from + 1]
         IN MoveVideo(p, v, PlaceOf(p, from, g))
              = Without(SubSeq(p, 1, g), v) \o <<v>> \o Without(SubSeq(p, g + 1, Len(p)), v)
<1> DEFINE n == Len(p)
           m == from + 1
           v == p[m]
           q == [j \in 1 .. (n - 1) |-> IF j < m THEN p[j] ELSE p[j + 1]]
           front == SubSeq(p, 1, g)
           back == SubSeq(p, g + 1, n)
           pos == PlaceOf(p, from, g)
<1>1. n \in Nat \ {0} /\ m \in 1 .. n /\ g \in Nat /\ g <= n /\ v \in Videos
  OBVIOUS
<1>2. \A i \in 1 .. n : p[i] = v => i = m
  BY <1>1 DEF IsInjective
<1>3. RemoveByVideo(p, v) = q
  <2>1. RemoveByVideo(p, v) = RemoveAt(p, m)
    <3> HIDE DEF m
    <3> QED
      BY <1>1, <1>2, RemovedAt
  <2>2. RemoveAt(p, m) = q
    <3> DEFINE a == SubSeq(p, 1, m - 1)
               b == SubSeq(p, m + 1, n)
    <3>1. RemoveAt(p, m) = a \o b
      BY Zenon DEF RemoveAt
    <3>2. /\ a \in Seq(Videos) /\ Len(a) = m - 1 /\ \A i \in 1 .. (m - 1) : a[i] = p[i]
          /\ b \in Seq(Videos) /\ Len(b) = n - m /\ \A i \in 1 .. (n - m) : b[i] = p[m + i]
      BY <1>1
    <3> HIDE DEF a, b, m
    <3>3. a \o b = [j \in 1 .. (n - 1) |-> IF j < m THEN a[j] ELSE b[j - (m - 1)]]
      <4>1. /\ a \o b \in Seq(Videos) /\ Len(a \o b) = (m - 1) + (n - m)
            /\ \A j \in 1 .. ((m - 1) + (n - m)) :
                 (a \o b)[j] = IF j <= m - 1 THEN a[j] ELSE b[j - (m - 1)]
        <5>1. /\ a \o b \in Seq(Videos) /\ Len(a \o b) = Len(a) + Len(b)
              /\ \A j \in 1 .. (Len(a) + Len(b)) :
                   (a \o b)[j] = IF j <= Len(a) THEN a[j] ELSE b[j - Len(a)]
          BY <3>2, ConcatProperties, Zenon
        <5>2. Len(a) = m - 1 /\ Len(b) = n - m
          BY <3>2
        <5> QED
          BY <5>1, <5>2, Zenon
      <4>2. (m - 1) + (n - m) = n - 1 /\ \A j \in 1 .. (n - 1) : j <= m - 1 <=> j < m
        BY <1>1
      <4> DEFINE c == a \o b
      <4>3. /\ c \in Seq(Videos) /\ Len(c) = n - 1
            /\ \A j \in 1 .. (n - 1) : c[j] = IF j < m THEN a[j] ELSE b[j - (m - 1)]
        BY <4>1, <4>2
      <4> HIDE DEF c
      <4>4. c = [j \in 1 .. (n - 1) |-> IF j < m THEN a[j] ELSE b[j - (m - 1)]]
        BY <4>3
      <4> QED
        BY <4>4 DEF c
    <3>4. ASSUME NEW j \in 1 .. (n - 1)
          PROVE  (IF j < m THEN a[j] ELSE b[j - (m - 1)]) = IF j < m THEN p[j] ELSE p[j + 1]
      <4>1. CASE j < m
        BY <1>1, <3>2, <4>1
      <4>2. CASE ~ (j < m)
        <5>1. j - (m - 1) \in 1 .. (n - m) /\ m + (j - (m - 1)) = j + 1
          BY <1>1, <4>2
        <5> QED
          BY <3>2, <4>2, <5>1
      <4> QED
        BY <4>1, <4>2
    <3> QED
      BY <3>1, <3>3, <3>4
  <2> QED
    BY <2>1, <2>2
<1>4. q \in Seq(Videos) /\ Len(q) = n - 1
  BY <1>1
<1>5. /\ pos \in 0 .. (n - 1) /\ Least(pos, n - 1) = pos
      /\ (from < g => pos = g - 1) /\ (~ (from < g) => pos = g)
  BY <1>1 DEF PlaceOf, Least, Before
<1>6. MoveVideo(p, v, pos) = SubSeq(q, 1, pos) \o <<v>> \o SubSeq(q, pos + 1, n - 1)
  <2> HIDE DEF q, pos, v
  <2>1. MoveVideo(p, v, pos) = InsertAt(q, pos + 1, v)
    BY <1>3, <1>4, <1>5 DEF MoveVideo
  <2>2. (pos + 1) - 1 = pos
    BY <1>5
  <2>3. InsertAt(q, pos + 1, v)
          = SubSeq(q, 1, (pos + 1) - 1) \o <<v>> \o SubSeq(q, pos + 1, Len(q))
    BY Zenon DEF InsertAt
  <2> QED
    BY <1>4, <2>1, <2>2, <2>3
<1>7. /\ front \in Seq(Videos) /\ Len(front) = g /\ \A i \in 1 .. g : front[i] = p[i]
      /\ back \in Seq(Videos) /\ Len(back) = n - g
      /\ \A i \in 1 .. (n - g) : back[i] = p[g + i]
  BY <1>1
<1>8. SubSeq(q, 1, pos) = Without(front, v)
  <2>1. CASE from < g
    <3>1. m \in 1 .. g /\ front[m] = v
      BY <1>1, <1>7, <2>1
    <3>2. \A i \in 1 .. g : front[i] = front[m] => i = m
      BY <1>1, <1>2, <1>7, <3>1
    <3>3. Without(front, v) = [j \in 1 .. (g - 1) |-> IF j < m THEN front[j] ELSE front[j + 1]]
      <4> HIDE DEF front, v
      <4> QED
        BY <1>7, <3>1, <3>2, WithoutOne
    <3>4. [j \in 1 .. (g - 1) |-> IF j < m THEN front[j] ELSE front[j + 1]]
            = [j \in 1 .. (g - 1) |-> q[j]]
      <4>1. ASSUME NEW j \in 1 .. (g - 1)
            PROVE  (IF j < m THEN front[j] ELSE front[j + 1]) = q[j]
        <5>1. j \in 1 .. g /\ j + 1 \in 1 .. g /\ j \in 1 .. (n - 1)
          BY <1>1
        <5>2. front[j] = p[j] /\ front[j + 1] = p[j + 1]
          BY <1>7, <5>1, Zenon
        <5>3. q[j] = IF j < m THEN p[j] ELSE p[j + 1]
          BY <5>1, Zenon
        <5> QED
          BY <5>2, <5>3, Zenon
      <4> QED
        BY <4>1, Zenon
    <3>5. SubSeq(q, 1, pos) = [j \in 1 .. (g - 1) |-> q[j]]
      <4> HIDE DEF q, pos
      <4> QED
        BY <1>1, <1>4, <1>5, <2>1
    <3> QED
      BY <3>3, <3>4, <3>5, Zenon
  <2>2. CASE ~ (from < g)
    <3>1. \A i \in 1 .. g : front[i] # v
      <4>1. ASSUME NEW i \in 1 .. g
            PROVE  front[i] # v
        <5>1. i \in 1 .. n /\ i # m
          BY <1>1, <2>2
        <5>2. front[i] = p[i]
          BY <1>7, Zenon
        <5> HIDE DEF front, m
        <5> QED
          BY <1>2, <5>1, <5>2
      <4> QED
        BY <4>1, Zenon
    <3>2. Without(front, v) = front
      <4> HIDE DEF front, v
      <4> QED
        BY <1>7, <3>1, WithoutNone
    <3>3. \A i \in 1 .. g : i \in 1 .. (n - 1) /\ q[i] = p[i]
      BY <1>1, <2>2
    <3>4. SubSeq(q, 1, pos) = front
      <4> HIDE DEF q, pos
      <4> QED
        BY <1>1, <1>4, <1>5, <2>2, <3>3
    <3> QED
      BY <3>2, <3>4, Zenon
  <2> QED
    BY <2>1, <2>2
<1>9. SubSeq(q, pos + 1, n - 1) = Without(back, v)
  <2>1. CASE from < g
    <3>1. \A i \in 1 .. (n - g) : back[i] # v
      <4>1. ASSUME NEW i \in 1 .. (n - g)
            PROVE  back[i] # v
        <5>1. g + i \in 1 .. n /\ g + i # m /\ m \in 1 .. n
          BY <1>1, <2>1
        <5>2. back[i] = p[g + i]
          BY <1>7, Zenon
        <5> HIDE DEF back, m
        <5> QED
          BY <1>2, <5>1, <5>2
      <4> QED
        BY <4>1, Zenon
    <3>2. Without(back, v) = back
      <4> HIDE DEF back, v
      <4> QED
        BY <1>7, <3>1, WithoutNone
    <3>3. \A i \in 1 .. (n - g) : (g - 1) + i \in 1 .. (n - 1) /\ q[(g - 1) + i] = p[g + i]
      BY <1>1, <2>1
    <3>4. /\ SubSeq(q, g, n - 1) \in Seq(Videos) /\ Len(SubSeq(q, g, n - 1)) = n - g
          /\ \A i \in 1 .. (n - g) : SubSeq(q, g, n - 1)[i] = q[(g - 1) + i]
      <4>1. g \in 1 .. n
        BY <1>1, <2>1
      <4> HIDE DEF q
      <4> QED
        BY <1>1, <1>4, <4>1
    <3>5. SubSeq(q, g, n - 1) = back
      <4> DEFINE x == SubSeq(q, g, n - 1)
      <4>1. x \in Seq(Videos) /\ Len(x) = Len(back) /\ \A i \in 1 .. Len(x) : x[i] = back[i]
        <5> HIDE DEF q, back
        <5> QED
          BY <1>1, <1>7, <3>3, <3>4
      <4> HIDE DEF x, back
      <4>2. x = back
        BY <1>7, <4>1
      <4> QED
        BY <4>2 DEF x
    <3>6. pos + 1 = g
      BY <1>1, <1>5, <2>1
    <3> QED
      BY <3>2, <3>5, <3>6, Zenon
  <2>2. CASE ~ (from < g)
    <3>1. m - g \in 1 .. (n - g) /\ back[m - g] = v
      BY <1>1, <1>7, <2>2
    <3>2. \A i \in 1 .. (n - g) : back[i] = back[m - g] => i = m - g
      <4>1. ASSUME NEW i \in 1 .. (n - g), back[i] = back[m - g]
            PROVE  i = m - g
        <5>1. g + i \in 1 .. n /\ p[g + i] = v
          <6>1. g + i \in 1 .. n
            BY <1>1
          <6> HIDE DEF back, v
          <6> QED
            BY <1>7, <3>1, <4>1, <6>1
        <5>2. g + i = m
          BY <1>2, <5>1
        <5> QED
          BY <1>1, <5>2
      <4> QED
        BY <4>1
    <3> DEFINE x == [j \in 1 .. ((n - g) - 1) |->
                       IF j < m - g THEN back[j] ELSE back[j + 1]]
    <3>3. Without(back, v) = x
      <4>1. PICK k : k = m - g
        OBVIOUS
      <4> HIDE DEF back, v, m
      <4>2. k \in 1 .. Len(back) /\ \A i \in 1 .. Len(back) : back[i] = back[k] => i = k
        BY <1>7, <3>1, <3>2, <4>1
      <4>3. Without(back, back[k])
              = [j \in 1 .. (Len(back) - 1) |-> IF j < k THEN back[j] ELSE back[j + 1]]
        BY <1>7, <4>2, WithoutOne
      <4> QED
        BY <1>7, <3>1, <4>1, <4>3, Zenon
    <3>4. x = [j \in 1 .. ((n - g) - 1) |-> q[g + j]]
      <4>1. ASSUME NEW j \in 1 .. ((n - g) - 1)
            PROVE  (IF j < m - g THEN back[j] ELSE back[j + 1]) = q[g + j]
        <5>1. /\ j \in 1 .. (n - g) /\ j + 1 \in 1 .. (n - g)
              /\ g + (j + 1) = (g + j) + 1 /\ g + j \in 1 .. (n - 1)
          BY <1>1
        <5>2. back[j] = p[g + j] /\ back[j + 1] = p[(g + j) + 1]
          BY <1>7, <5>1
        <5>3. q[g + j] = IF g + j < m THEN p[g + j] ELSE p[(g + j) + 1]
          BY <5>1
        <5>4. j < m - g <=> g + j < m
          BY <1>1
        <5> HIDE DEF q, back
        <5> QED
          BY <5>2, <5>3, <5>4
      <4> QED
        BY <4>1
    <3>5. SubSeq(q, g + 1, n - 1) = [j \in 1 .. ((n - g) - 1) |-> q[g + j]]
      <4> HIDE DEF q
      <4>1. g <= n - 1
        BY <1>1, <2>2
      <4> QED
        BY <1>1, <1>4, <4>1
    <3>6. pos = g
      BY <1>5, <2>2
    <3> QED
      BY <3>3, <3>4, <3>5, <3>6, Zenon
  <2> QED
    BY <2>1, <2>2
<1> HIDE DEF q, front, back, pos
<1>10. MoveVideo(p, v, pos) = Without(front, v) \o <<v>> \o Without(back, v)
  BY <1>6, <1>8, <1>9, Zenon
<1> QED
  BY <1>10, Zenon DEF front, back, pos

-----------------------------------------------------------------------------
(* The window: its messages.                                               *)

PlainTypes ==
    {"ModelChanged", "DoubleClick", "OpenFind", "CloseFind", "Insert", "SearchFinished",
     "Activate", "Abort", "Reset", "Edit", "ApplyClose", "SaveClose"}

\* A video that was dropped in a gap goes to that gap's place.
Drop ==
    {m \in [type : {"Move"}, video : Videos, pos : Nat, seen : Seq(Videos) \cup {None},
            from : Nat \cup {None}, gap : Nat \cup {None}] :
       m.gap # None => /\ m.seen \in Seq(Videos) /\ m.from \in Nat
                       /\ m.gap \in 0 .. Len(m.seen)
                       /\ m.pos = PlaceOf(m.seen, m.from, m.gap)}

WinMessage ==
    Drop \cup [type : {"Interaction"}, sel : Selected, act : Interactions]
         \cup [type : {"Delete"}, video : Videos]
         \cup [type : {"Input"}, query : Queries]
         \cup [type : {"Click", "Select"}, index : Nat]
         \cup [type : PlainTypes]

Headed(q) == q # <<>> /\ q[1].type = "ModelChanged"

\* The news of the cells are in front, and everything else is within the bound.
QueueOK(q) ==
    /\ q \in Seq(WinMessage)
    /\ \A i \in 2 .. Len(q) : q[i].type # "ModelChanged"
    /\ Len(q) <= MaxBatch + 1
    /\ ~ Headed(q) => Len(q) <= MaxBatch

WinInv ==
    /\ win \in Win /\ find \in Finding /\ form \in [active : BOOLEAN, edited : BOOLEAN]
    /\ handling \in BOOLEAN /\ QueueOK(queue)

LEMMA WinMessageKinds ==
  ASSUME NEW m \in WinMessage
  PROVE  /\ m.type = "Move" => m \in Drop
         /\ m.type = "Interaction" => m.sel \in Selected /\ m.act \in Interactions
         /\ m.type = "Delete" => m.video \in Videos
         /\ m.type = "Input" => m.query \in Queries
         /\ m.type \in {"Click", "Select"} => m.index \in Nat
<1>1. CASE m \in Drop
  BY <1>1 DEF Drop
<1>2. CASE m \in [type : {"Interaction"}, sel : Selected, act : Interactions]
  BY <1>2
<1>3. CASE m \in [type : {"Delete"}, video : Videos]
  BY <1>3
<1>4. CASE m \in [type : {"Input"}, query : Queries]
  BY <1>4
<1>5. CASE m \in [type : {"Click", "Select"}, index : Nat]
  BY <1>5
<1>6. CASE m \in [type : PlainTypes]
  BY <1>6 DEF PlainTypes
<1> QED
  BY <1>1, <1>2, <1>3, <1>4, <1>5, <1>6 DEF WinMessage

LEMMA ToldTyped ==
  ASSUME QueueOK(queue)
  PROVE  Cardinality(Told) = IF Headed(queue) THEN Len(queue) - 1 ELSE Len(queue)
<1>1. Len(queue) \in Nat /\ DOMAIN queue = 1 .. Len(queue)
  BY DEF QueueOK
<1>2. CASE Headed(queue)
  <2>1. queue # <<>> /\ queue[1].type = "ModelChanged"
    BY <1>2 DEF Headed
  <2>2. Len(queue) >= 1
    BY <2>1 DEF QueueOK
  <2>3. Told = 2 .. Len(queue)
    BY <1>1, <2>1 DEF Told, QueueOK
  <2>4. Cardinality(2 .. Len(queue)) = IF 2 > Len(queue) THEN 0 ELSE Len(queue) - 2 + 1
    BY <1>1, FS_Interval
  <2> QED
    BY <1>1, <1>2, <2>2, <2>3, <2>4
<1>3. CASE ~ Headed(queue)
  <2>1. Told = 1 .. Len(queue)
    BY <1>1, <1>3 DEF Told, QueueOK, Headed
  <2>2. Cardinality(1 .. Len(queue)) = IF 1 > Len(queue) THEN 0 ELSE Len(queue) - 1 + 1
    BY <1>1, FS_Interval
  <2> QED
    BY <1>1, <1>3, <2>1, <2>2
<1> QED
  BY <1>2, <1>3

\* No event takes a message away.
Grows == Len(queue') > Len(queue)

LEMMA PublishKeeps ==
  ASSUME CellTypeOK, WinInv, NEW msgs \in Seq(WinMessage), Publish(msgs),
         msgs # <<>>, \A i \in 1 .. Len(msgs) : msgs[i].type # "ModelChanged"
  PROVE  CellTypeOK' /\ WinInv' /\ Grows
<1>1. /\ queue' = queue \o msgs /\ Cardinality(Told) + Len(msgs) <= MaxBatch
      /\ UNCHANGED <<win, find, form, handling>> /\ UNCHANGED cellVars
  BY DEF Publish
<1>2. /\ queue \in Seq(WinMessage) /\ Len(queue) \in Nat /\ Len(msgs) \in Nat \ {0}
      /\ MaxBatch \in Nat
  BY WindowAssumption DEF WinInv, QueueOK
<1>3. /\ queue' \in Seq(WinMessage) /\ Len(queue') = Len(queue) + Len(msgs)
      /\ \A i \in 1 .. (Len(queue) + Len(msgs)) :
           queue'[i] = IF i <= Len(queue) THEN queue[i] ELSE msgs[i - Len(queue)]
  BY <1>1, <1>2, ConcatProperties, Zenon
<1>4. /\ \A i \in 2 .. Len(queue) : queue[i].type # "ModelChanged"
      /\ Cardinality(Told) = IF Headed(queue) THEN Len(queue) - 1 ELSE Len(queue)
  BY ToldTyped DEF WinInv, QueueOK
<1>5. \A i \in 2 .. Len(queue') : queue'[i].type # "ModelChanged"
  <2>1. ASSUME NEW i \in 2 .. Len(queue')
        PROVE  queue'[i].type # "ModelChanged"
    <3>1. CASE i <= Len(queue)
      BY <1>2, <1>3, <1>4, <2>1, <3>1
    <3>2. CASE ~ (i <= Len(queue))
      <4>1. i - Len(queue) \in 1 .. Len(msgs)
        BY <1>2, <1>3, <2>1, <3>2
      <4> QED
        BY <1>2, <1>3, <2>1, <3>2, <4>1
    <3> QED
      BY <3>1, <3>2
  <2> QED
    BY <2>1
<1>6. Headed(queue) => Headed(queue')
  <2>1. ASSUME Headed(queue)
        PROVE  Headed(queue')
    <3>1. queue # <<>> /\ queue[1].type = "ModelChanged"
      BY <2>1 DEF Headed
    <3>2. Len(queue) >= 1
      BY <1>2, <3>1
    <3>3. queue'[1] = queue[1] /\ Len(queue') # 0
      BY <1>2, <1>3, <3>2
    <3>4. queue' # <<>>
      BY <1>3, <3>3
    <3> QED
      BY <3>1, <3>3, <3>4 DEF Headed
  <2> QED
    BY <2>1
<1>7. Len(queue') <= MaxBatch + 1 /\ (~ Headed(queue') => Len(queue') <= MaxBatch)
  BY <1>1, <1>2, <1>3, <1>4, <1>6
<1>8. QueueOK(queue')
  BY <1>3, <1>5, <1>7 DEF QueueOK
<1>9. Grows
  BY <1>2, <1>3 DEF Grows
<1> QED
  BY <1>1, <1>8, <1>9, CellStays DEF WinInv

LEMMA PublishOne ==
  ASSUME CellTypeOK, WinInv, NEW m \in WinMessage, Publish(<<m>>), m.type # "ModelChanged"
  PROVE  CellTypeOK' /\ WinInv' /\ Grows
<1> DEFINE msgs == <<m>>
<1>1. /\ msgs \in Seq(WinMessage) /\ msgs # <<>>
      /\ \A i \in 1 .. Len(msgs) : msgs[i].type # "ModelChanged"
  OBVIOUS
<1>2. Publish(msgs)
  OBVIOUS
<1> HIDE DEF msgs
<1> QED
  BY <1>1, <1>2, PublishKeeps

LEMMA PublishTwo ==
  ASSUME CellTypeOK, WinInv, NEW m \in WinMessage, NEW o \in WinMessage, Publish(<<m, o>>),
         m.type # "ModelChanged", o.type # "ModelChanged"
  PROVE  CellTypeOK' /\ WinInv' /\ Grows
<1> DEFINE msgs == <<m, o>>
<1>1. /\ msgs \in Seq(WinMessage) /\ msgs # <<>>
      /\ \A i \in 1 .. Len(msgs) : msgs[i].type # "ModelChanged"
  OBVIOUS
<1>2. Publish(msgs)
  OBVIOUS
<1> HIDE DEF msgs
<1> QED
  BY <1>1, <1>2, PublishKeeps

LEMMA PlainTyped ==
  ASSUME NEW t \in PlainTypes
  PROVE  Plain(t) \in WinMessage /\ Plain(t).type = t
BY DEF Plain, WinMessage

LEMMA InteractionTyped ==
  ASSUME NEW s \in Selected, NEW a \in Interactions
  PROVE  Interaction(s, a) \in WinMessage /\ Interaction(s, a).type = "Interaction"
BY DEF Interaction, WinMessage

LEMMA AtTyped ==
  ASSUME NEW t \in {"Click", "Select"}, NEW i \in Nat
  PROVE  At(t, i) \in WinMessage /\ At(t, i).type = t
BY DEF At, WinMessage

LEMMA MoveInTyped ==
  ASSUME NEW v \in Videos
  PROVE  MoveIn(v) \in WinMessage /\ MoveIn(v).type = "Move"
<1>1. MoveIn(v) \in Drop /\ MoveIn(v).type = "Move"
  BY DEF MoveIn, Move, Drop
<1> QED
  BY <1>1 DEF WinMessage

LEMMA DropTyped ==
  ASSUME NEW p \in Seq(Videos), NEW v \in Videos, NEW from \in Nat, NEW g \in 0 .. Len(p)
  PROVE  /\ Move(v, PlaceOf(p, from, g), p, from, g) \in WinMessage
         /\ Move(v, PlaceOf(p, from, g), p, from, g).type = "Move"
<1> DEFINE k == PlaceOf(p, from, g)
<1>1. k \in Nat /\ g \in Nat
  BY DEF PlaceOf, Least, Before
<1>2. k = PlaceOf(p, from, g)
  OBVIOUS
<1> HIDE DEF k
<1>3. Move(v, k, p, from, g) \in Drop /\ Move(v, k, p, from, g).type = "Move"
  BY <1>1, <1>2 DEF Move, Drop
<1> QED
  BY <1>2, <1>3 DEF WinMessage

-----------------------------------------------------------------------------
(* The window: its events.                                                 *)

LEMMA PressKeeps ==
  ASSUME CellTypeOK, WinInv, NEW i \in 0 .. Before(Len(win.list)), win.list # <<>>, Press(i)
  PROVE  CellTypeOK' /\ WinInv' /\ Grows
<1> DEFINE file == [index |-> i, video |-> win.list[i + 1]]
           down == Interaction(file, "Pressing")
<1>1. win.list \in Seq(Videos)
  BY DEF WinInv, Win
<1>2. i \in Nat /\ win.list[i + 1] \in Videos
  <2>1. Len(win.list) \in Nat \ {0}
    BY <1>1
  <2>2. i \in Nat /\ i + 1 \in 1 .. Len(win.list)
    BY <2>1 DEF Before
  <2> QED
    BY <1>1, <2>2
<1>3. file \in Selected /\ "Pressing" \in Interactions
  BY <1>2 DEF Selected, Interactions
<1>4. Publish(<<down>>) \/ Publish(<<down, Plain("DoubleClick")>>)
  BY Zenon DEF Press
<1> HIDE DEF file
<1>5. down \in WinMessage /\ down.type = "Interaction"
  BY <1>3, InteractionTyped
<1>6. Plain("DoubleClick") \in WinMessage /\ Plain("DoubleClick").type = "DoubleClick"
  BY PlainTyped DEF PlainTypes
<1> HIDE DEF down
<1>7. CASE Publish(<<down>>)
  BY <1>5, <1>7, PublishOne
<1>8. CASE Publish(<<down, Plain("DoubleClick")>>)
  BY <1>5, <1>6, <1>8, PublishTwo
<1> QED
  BY <1>4, <1>7, <1>8

LEMMA ReleaseKeeps ==
  ASSUME CellTypeOK, WinInv, NEW file \in Videos \cup {None}, Release(file)
  PROVE  CellTypeOK' /\ WinInv' /\ Grows
<1>1. /\ win.list \in Seq(Videos) /\ win.sel \in Selected /\ win.act \in Interactions
      /\ "Released" \in Interactions /\ "None" \in Interactions
  BY DEF WinInv, Win, Interactions
<1>2. CASE win.act = "PressingExternal"
  <2>1. file # None /\ Publish(<<MoveIn(file)>>)
    BY <1>2 DEF Release
  <2>2. MoveIn(file) \in WinMessage /\ MoveIn(file).type = "Move"
    BY <2>1, MoveInTyped
  <2> QED
    BY <2>1, <2>2, PublishOne
<1>3. CASE win.act = "Pressing"
  <2> DEFINE over == Interaction(win.sel, "Released")
  <2>1. over \in WinMessage /\ over.type = "Interaction"
    BY <1>1, InteractionTyped
  <2>2. \/ /\ win.sel # None
           /\ \E g \in Gaps :
                Publish(<<Move(win.sel.video, Relative(g), win.list, win.sel.index, g), over>>)
        \/ Publish(<<over>>)
    BY <1>3 DEF Release
  <2> HIDE DEF over
  <2>3. ASSUME win.sel # None, NEW g \in Gaps,
               Publish(<<Move(win.sel.video, Relative(g), win.list, win.sel.index, g), over>>)
        PROVE  CellTypeOK' /\ WinInv' /\ Grows
    <3>1. g \in 0 .. Len(win.list)
      BY <2>3 DEF Gaps
    <3>2. win.sel.video \in Videos /\ win.sel.index \in Nat
      BY <1>1, <2>3 DEF Selected
    <3>3. Relative(g) = PlaceOf(win.list, win.sel.index, g)
      BY <2>3 DEF Relative, PlaceOf
    <3> DEFINE m == Move(win.sel.video, Relative(g), win.list, win.sel.index, g)
    <3>4. m \in WinMessage /\ m.type = "Move"
      BY <1>1, <3>1, <3>2, <3>3, DropTyped
    <3>5. Publish(<<m, over>>)
      BY <2>3
    <3> HIDE DEF m
    <3> QED
      BY <2>1, <3>4, <3>5, PublishTwo
  <2>4. CASE Publish(<<over>>)
    BY <2>1, <2>4, PublishOne
  <2> QED
    BY <2>2, <2>3, <2>4
<1>4. CASE win.act = "Released"
  <2>1. Publish(<<Interaction(win.sel, "None")>>)
    BY <1>4 DEF Release
  <2>2. /\ Interaction(win.sel, "None") \in WinMessage
        /\ Interaction(win.sel, "None").type = "Interaction"
    BY <1>1, InteractionTyped
  <2> QED
    BY <2>1, <2>2, PublishOne
<1>5. CASE win.act = "None"
  BY <1>5 DEF Release
<1> QED
  BY <1>1, <1>2, <1>3, <1>4, <1>5 DEF Interactions

LEMMA PlaylistEventKeeps ==
  ASSUME CellTypeOK, WinInv, PlaylistEvent
  PROVE  CellTypeOK' /\ WinInv' /\ Grows
<1>1. win.sel \in Selected /\ {"PressingExternal", "None"} \subseteq Interactions
  BY DEF WinInv, Win, Interactions
<1>2. ASSUME NEW i \in 0 .. Before(Len(win.list)), win.list # <<>>, Press(i)
      PROVE  CellTypeOK' /\ WinInv' /\ Grows
  BY <1>2, PressKeeps
<1>3. ASSUME NEW file \in Videos \cup {None}, Release(file)
      PROVE  CellTypeOK' /\ WinInv' /\ Grows
  BY <1>3, ReleaseKeeps
<1>4. CASE win.sel # None /\ Publish(<<[type |-> "Delete", video |-> win.sel.video]>>)
  <2> DEFINE m == [type |-> "Delete", video |-> win.sel.video]
  <2>1. win.sel.video \in Videos
    BY <1>1, <1>4 DEF Selected
  <2>2. m \in WinMessage /\ m.type = "Delete"
    BY <2>1 DEF WinMessage
  <2>3. Publish(<<m>>)
    BY <1>4
  <2> HIDE DEF m
  <2> QED
    BY <2>2, <2>3, PublishOne
<1>5. ASSUME NEW v \in Videos, Publish(<<MoveIn(v)>>)
      PROVE  CellTypeOK' /\ WinInv' /\ Grows
  <2>1. MoveIn(v) \in WinMessage /\ MoveIn(v).type = "Move"
    BY MoveInTyped
  <2> QED
    BY <1>5, <2>1, PublishOne
<1>6. ASSUME NEW a \in {"PressingExternal", "None"}, Publish(<<Interaction(win.sel, a)>>)
      PROVE  CellTypeOK' /\ WinInv' /\ Grows
  <2>1. Interaction(win.sel, a) \in WinMessage /\ Interaction(win.sel, a).type = "Interaction"
    BY <1>1, InteractionTyped
  <2> QED
    BY <1>6, <2>1, PublishOne
<1> QED
  BY <1>2, <1>3, <1>4, <1>5, <1>6 DEF PlaylistEvent

LEMMA ModTyped ==
  ASSUME NEW i \in Nat, NEW n \in Nat \ {0}
  PROVE  i % n \in Nat
OBVIOUS

LEMMA SearchEventKeeps ==
  ASSUME CellTypeOK, WinInv, SearchEvent
  PROVE  CellTypeOK' /\ WinInv' /\ Grows
<1>1. find.results \in Seq(Videos) /\ find.cursor \in Nat /\ Len(find.results) \in Nat
  BY DEF WinInv, Finding
<1>2. ASSUME NEW t \in {"OpenFind", "CloseFind", "Insert", "SearchFinished"},
             Publish(<<Plain(t)>>)
      PROVE  CellTypeOK' /\ WinInv' /\ Grows
  <2>1. Plain(t) \in WinMessage /\ Plain(t).type = t
    BY PlainTyped DEF PlainTypes
  <2> QED
    BY <1>2, <2>1, PublishOne
<1>3. ASSUME NEW q \in Queries, Publish(<<[type |-> "Input", query |-> q]>>)
      PROVE  CellTypeOK' /\ WinInv' /\ Grows
  <2> DEFINE m == [type |-> "Input", query |-> q]
  <2>1. m \in WinMessage /\ m.type = "Input"
    BY DEF WinMessage
  <2>2. Publish(<<m>>)
    BY <1>3
  <2> HIDE DEF m
  <2> QED
    BY <2>1, <2>2, PublishOne
<1>4. ASSUME NEW t \in {"Click", "Select"}, NEW i \in Nat, Publish(<<At(t, i)>>)
      PROVE  CellTypeOK' /\ WinInv' /\ Grows
  <2>1. At(t, i) \in WinMessage /\ At(t, i).type = t
    BY AtTyped
  <2> QED
    BY <1>4, <2>1, PublishOne
<1>5. \A i \in Nat : Wrapped(i) \in Nat
  <2>1. ASSUME NEW i \in Nat
        PROVE  Wrapped(i) \in Nat
    <3>1. CASE find.results = <<>>
      BY <3>1 DEF Wrapped
    <3>2. CASE find.results # <<>>
      <4>1. PICK n \in Nat \ {0} : n = Len(find.results)
        BY <1>1, <3>2
      <4>2. i % n \in Nat
        BY <4>1, ModTyped
      <4> QED
        BY <3>2, <4>1, <4>2 DEF Wrapped
    <3> QED
      BY <3>1, <3>2
  <2> QED
    BY <2>1
<1>6. /\ Wrapped(find.cursor + 1) \in Nat
      /\ Wrapped(find.cursor + Before(Len(find.results))) \in Nat
  <2>1. find.cursor + 1 \in Nat /\ find.cursor + Before(Len(find.results)) \in Nat
    BY <1>1 DEF Before
  <2> QED
    BY <1>5, <2>1
<1>7. \A i \in DOMAIN find.results : i - 1 \in Nat
  BY <1>1
<1> QED
  BY <1>2, <1>3, <1>4, <1>6, <1>7 DEF SearchEvent

LEMMA FormEventKeeps ==
  ASSUME CellTypeOK, WinInv, FormEvent
  PROVE  CellTypeOK' /\ WinInv' /\ Grows
<1>1. PICK t \in {"Abort", "Reset", "Edit", "ApplyClose", "SaveClose", "Activate"} :
        Publish(<<Plain(t)>>)
  BY DEF FormEvent
<1>2. Plain(t) \in WinMessage /\ Plain(t).type = t
  BY PlainTyped DEF PlainTypes
<1> QED
  BY <1>1, <1>2, PublishOne

LEMMA ChangedKeeps ==
  ASSUME CellTypeOK, WinInv, Changed
  PROVE  CellTypeOK' /\ WinInv' /\ Grows
<1> DEFINE news == <<Plain("ModelChanged")>>
<1>1. /\ queue' = news \o queue /\ Plain("ModelChanged") \notin Range(queue)
      /\ UNCHANGED <<win, find, form, handling>> /\ UNCHANGED cellVars
  BY DEF Changed
<1>2. /\ queue \in Seq(WinMessage) /\ Len(queue) \in Nat /\ MaxBatch \in Nat
      /\ \A i \in 2 .. Len(queue) : queue[i].type # "ModelChanged"
  BY WindowAssumption DEF WinInv, QueueOK
<1>3. news \in Seq(WinMessage) /\ Len(news) = 1 /\ news[1].type = "ModelChanged"
  <2>1. Plain("ModelChanged") \in WinMessage /\ Plain("ModelChanged").type = "ModelChanged"
    BY PlainTyped DEF PlainTypes
  <2> QED
    BY <2>1
<1>4. ~ Headed(queue)
  <2> SUFFICES ASSUME Headed(queue)
               PROVE  FALSE
    OBVIOUS
  <2>1. queue # <<>> /\ queue[1].type = "ModelChanged"
    BY DEF Headed
  <2>2. 1 \in 1 .. Len(queue)
    BY <1>2, <2>1
  <2>3. queue[1] \in WinMessage
    BY <1>2, <2>2
  <2>4. queue[1] = Plain("ModelChanged")
    <3>1. queue[1] \in [type : PlainTypes]
      BY <2>1, <2>3 DEF WinMessage, Drop
    <3> QED
      BY <2>1, <3>1 DEF Plain
  <2>5. queue[1] \in Range(queue)
    BY <1>2, <2>2 DEF Range
  <2> QED
    BY <1>1, <2>4, <2>5
<1> HIDE DEF news
<1>5. /\ queue' \in Seq(WinMessage) /\ Len(queue') = 1 + Len(queue)
      /\ \A i \in 1 .. (1 + Len(queue)) :
           queue'[i] = IF i <= 1 THEN news[i] ELSE queue[i - 1]
  <2>1. /\ news \o queue \in Seq(WinMessage) /\ Len(news \o queue) = Len(news) + Len(queue)
        /\ \A i \in 1 .. (Len(news) + Len(queue)) :
             (news \o queue)[i] = IF i <= Len(news) THEN news[i] ELSE queue[i - Len(news)]
    BY <1>2, <1>3, ConcatProperties, Zenon
  <2> QED
    BY <1>1, <1>3, <2>1, Zenon
<1>6. Len(queue) <= MaxBatch
  BY <1>4 DEF WinInv, QueueOK
<1>7. ASSUME NEW i \in 2 .. Len(queue')
      PROVE  queue'[i].type # "ModelChanged"
  <2>1. i - 1 \in 1 .. Len(queue) /\ queue'[i] = queue[i - 1]
    BY <1>2, <1>5
  <2>2. CASE i - 1 = 1
    BY <1>2, <1>4, <2>1, <2>2 DEF Headed
  <2>3. CASE i - 1 # 1
    BY <1>2, <2>1, <2>3
  <2> QED
    BY <2>2, <2>3
<1>8. Headed(queue') /\ Len(queue') <= MaxBatch + 1
  <2>1. 1 \in 1 .. (1 + Len(queue)) /\ Len(queue') # 0
    BY <1>2, <1>5
  <2>2. queue'[1] = news[1] /\ queue' # <<>>
    BY <1>5, <2>1
  <2> QED
    BY <1>2, <1>3, <1>5, <1>6, <2>2 DEF Headed
<1>9. QueueOK(queue')
  BY <1>5, <1>7, <1>8 DEF QueueOK
<1>10. Grows
  BY <1>2, <1>5 DEF Grows
<1> QED
  BY <1>1, <1>9, <1>10, CellStays DEF WinInv

-----------------------------------------------------------------------------
(* The window: what the messages do.                                       *)

LEMMA ChangePlaylistTyped ==
  ASSUME CellTypeOK, NEW p \in Seq(Videos), ChangePlaylist(p), store' = store
  PROVE  CellTypeOK'
BY ActTyped DEF ChangePlaylist, CellTypeOK

\* All but the queue.
Parts ==
    /\ CellTypeOK
    /\ win \in Win /\ find \in Finding /\ form \in [active : BOOLEAN, edited : BOOLEAN]

LEMMA HandleModelChangedKeeps ==
  ASSUME Parts, HandleModelChanged
  PROVE  Parts'
<1>1. /\ win \in Win /\ playlist \in Seq(Videos) /\ UNCHANGED <<find, form, playlist, store, acts>>
      /\ fresh' = FALSE
  BY DEF HandleModelChanged, Parts, CellTypeOK
<1>2. ReplacePlaylist(playlist) \in Win
  <2>1. [list |-> playlist, sel |-> None, act |-> "None"] \in Win
    BY <1>1 DEF Win, Selected, Interactions
  <2>2. [win EXCEPT !.list = playlist] \in Win
    BY <1>1 DEF Win
  <2> QED
    BY <2>1, <2>2, Zenon DEF ReplacePlaylist
<1>3. win' \in Win
  BY <1>1, <1>2 DEF HandleModelChanged
<1>4. CellTypeOK'
  <2>1. playlist \in Seq(Videos) /\ store \in Stores /\ acts \in 0 .. MaxActs
    BY DEF Parts, CellTypeOK
  <2> QED
    BY <1>1, <2>1 DEF CellTypeOK
<1> QED
  BY <1>1, <1>3, <1>4 DEF Parts

LEMMA RearrangeKeeps ==
  ASSUME Parts, NEW p \in Seq(Videos), Rearrange(p)
  PROVE  Parts'
<1>1. /\ win' = [win EXCEPT !.list = p] /\ ChangePlaylist(p)
      /\ UNCHANGED <<find, form, store>>
  BY DEF Rearrange
<1>2. win' \in Win
  BY <1>1 DEF Parts, Win
<1>3. CellTypeOK'
  BY <1>1, ChangePlaylistTyped DEF Parts
<1> QED
  BY <1>1, <1>2, <1>3 DEF Parts

LEMMA HandlePlaylistKeeps ==
  ASSUME Parts, NEW m \in WinMessage, HandlePlaylist(m)
  PROVE  Parts'
<1>1. win \in Win /\ win.list \in Seq(Videos)
  BY DEF Parts, Win
<1>2. CASE m.type = "Move" /\ Rearrange(MoveVideo(win.list, m.video, m.pos))
  <2>1. m \in Drop
    BY <1>2, WinMessageKinds
  <2>2. m.video \in Videos /\ m.pos \in Nat
    BY <2>1 DEF Drop
  <2>3. MoveVideo(win.list, m.video, m.pos) \in Seq(Videos)
    BY <1>1, <2>2, MoveTyped
  <2> QED
    BY <1>2, <2>3, RearrangeKeeps
<1>3. CASE m.type = "Delete" /\ Rearrange(RemoveByVideo(win.list, m.video))
  <2>1. RemoveByVideo(win.list, m.video) \in Seq(Videos)
    BY <1>1, RemovedOne, Zenon
  <2> QED
    BY <1>3, <2>1, RearrangeKeeps
<1>4. CASE /\ m.type = "Interaction"
           /\ win' = [win EXCEPT !.sel = m.sel, !.act = m.act]
           /\ UNCHANGED <<find, form, cellVars>>
  <2>1. m.sel \in Selected /\ m.act \in Interactions
    BY <1>4, WinMessageKinds
  <2>2. win' \in Win
    BY <1>1, <1>4, <2>1 DEF Win
  <2> QED
    BY <1>4, <2>2, CellStays DEF Parts
<1>5. CASE m.type = "DoubleClick" /\ UNCHANGED <<win, find, form, cellVars>>
  BY <1>5, CellStays DEF Parts
<1> QED
  BY <1>2, <1>3, <1>4, <1>5 DEF HandlePlaylist

LEMMA JobTyped ==
  ASSUME CellTypeOK, NEW q \in Queries
  PROVE  Job(q) \in [found : Seq(Videos), done : BOOLEAN]
<1>1. Search(store, q) \in Seq(Videos)
  BY StoreTyped, SearchTyped
<1> QED
  BY <1>1 DEF Job

LEMMA FindsKeeps ==
  ASSUME Parts, NEW f \in Finding, Finds(f)
  PROVE  Parts'
BY CellStays DEF Parts, Finds

LEMMA FinishTyped ==
  ASSUME NEW f \in Finding
  PROVE  Finish(f) \in Finding
<1> DEFINE gone == [f EXCEPT !.job = None]
           shows == [gone EXCEPT !.results = f.job.found]
           n == Len(f.job.found)
           k == IF n = 0 THEN 0 ELSE f.cursor % n
<1>1. gone \in Finding /\ f.cursor \in Nat
  BY DEF Finding
<1>2. CASE f.job = None \/ ~ f.job.done
  BY <1>1, <1>2 DEF Finish
<1>3. CASE ~ (f.job = None \/ ~ f.job.done)
  <2>1. f.job.found \in Seq(Videos)
    BY <1>3 DEF Finding
  <2>2. n \in Nat
    BY <2>1
  <2>3. k \in Nat
    <3> HIDE DEF n
    <3>1. CASE n = 0
      BY <3>1
    <3>2. CASE n # 0
      BY <1>1, <2>2, <3>2
    <3> QED
      BY <3>1, <3>2
  <2>4. Finish(f) = [f EXCEPT !.job = None, !.results = f.job.found, !.cursor = k]
    BY <1>3, Zenon DEF Finish
  <2> HIDE DEF k, gone
  <2>5. shows \in Finding
    BY <1>1, <2>1 DEF Finding
  <2> HIDE DEF shows
  <2>6. [shows EXCEPT !.cursor = k] \in Finding
    BY <2>3, <2>5 DEF Finding
  <2> QED
    BY <2>4, <2>6 DEF shows, gone
<1> QED
  BY <1>2, <1>3

LEMMA SelectTyped ==
  ASSUME Parts, NEW i \in Nat
  PROVE  Select(i) \in Finding
BY DEF Parts, Finding, Select

LEMMA InsertFoundKeeps ==
  ASSUME Parts, InsertFound, store' = store
  PROVE  CellTypeOK'
<1>1. /\ playlist \in Seq(Videos) /\ find.results \in Seq(Videos) /\ find.cursor \in Nat
  BY DEF Parts, CellTypeOK, Finding
<1>2. CASE find.cursor < Len(find.results)
  <2>1. find.results[find.cursor + 1] \in Videos
    BY <1>1, <1>2
  <2>2. Push(playlist, find.results[find.cursor + 1]) \in Seq(Videos)
    BY <1>1, <2>1, PushTyped
  <2> QED
    BY <1>2, <2>2, ChangePlaylistTyped DEF Parts, InsertFound
<1>3. CASE ~ (find.cursor < Len(find.results))
  BY <1>3 DEF InsertFound, Parts, CellTypeOK
<1> QED
  BY <1>2, <1>3

LEMMA HandleFindKeeps ==
  ASSUME Parts, NEW m \in WinMessage, HandleFind(m)
  PROVE  Parts'
<1>1. find \in Finding /\ find.query \in Queries /\ CellTypeOK
  BY DEF Parts, Finding
<1>2. CASE Finds([find EXCEPT !.active = TRUE, !.job = Job(find.query)])
  <2> DEFINE j == Job(find.query)
             open == [find EXCEPT !.active = TRUE]
             f == [open EXCEPT !.job = j]
  <2>1. j \in [found : Seq(Videos), done : BOOLEAN]
    BY <1>1, JobTyped
  <2>2. Finds(f)
    BY <1>2, Zenon
  <2> HIDE DEF j
  <2>3. open \in Finding
    BY <1>1 DEF Finding
  <2> HIDE DEF open
  <2>4. f \in Finding
    BY <2>1, <2>3 DEF Finding
  <2> HIDE DEF f
  <2> QED
    BY <2>2, <2>4, FindsKeeps
<1>3. CASE Finds([find EXCEPT !.active = FALSE])
  <2>1. [find EXCEPT !.active = FALSE] \in Finding
    BY <1>1 DEF Finding
  <2> QED
    BY <1>3, <2>1, FindsKeeps
<1>4. CASE /\ m.type = "Input" /\ Act
           /\ find' = [find EXCEPT !.query = m.query, !.job = Job(m.query)]
           /\ UNCHANGED <<win, form, playlist, fresh, store>>
  <2> DEFINE j == Job(m.query)
             asks == [find EXCEPT !.query = m.query]
             f == [asks EXCEPT !.job = j]
  <2>1. m.query \in Queries
    BY <1>4, WinMessageKinds
  <2>2. j \in [found : Seq(Videos), done : BOOLEAN]
    BY <1>1, <2>1, JobTyped
  <2>3. find' = f
    BY <1>4, Zenon
  <2> HIDE DEF j
  <2>4. asks \in Finding
    BY <1>1, <2>1 DEF Finding
  <2> HIDE DEF asks
  <2>5. f \in Finding
    BY <2>2, <2>4 DEF Finding
  <2>6. CellTypeOK'
    BY <1>1, <1>4, ActTyped DEF CellTypeOK
  <2> QED
    BY <1>4, <2>3, <2>5, <2>6 DEF Parts
<1>5. CASE m.type = "Select" /\ Finds(Select(m.index))
  BY <1>5, WinMessageKinds, SelectTyped, FindsKeeps
<1>6. CASE Finds(Finish(find))
  BY <1>1, <1>6, FinishTyped, FindsKeeps
<1>7. CASE InsertFound /\ UNCHANGED <<win, find, form, store>>
  BY <1>7, InsertFoundKeeps DEF Parts
<1> QED
  BY <1>2, <1>3, <1>4, <1>5, <1>6, <1>7 DEF HandleFind

LEMMA HandleClickKeeps ==
  ASSUME Parts, NEW m \in WinMessage, HandleClick(m)
  PROVE  Parts'
<1>1. m.type = "Click" /\ m.index \in Nat
  BY WinMessageKinds DEF HandleClick
<1>2. CASE find.cursor # m.index \/ ~ find.clicked
  <2>1. Finds(Select(m.index))
    BY <1>2 DEF HandleClick
  <2> QED
    BY <1>1, <2>1, SelectTyped, FindsKeeps
<1>3. CASE ~ (find.cursor # m.index \/ ~ find.clicked)
  <2>1. /\ find' = [find EXCEPT !.clicked = FALSE]
        /\ InsertFound \/ UNCHANGED <<playlist, fresh, acts>>
        /\ UNCHANGED <<win, form, store>>
    BY <1>3 DEF HandleClick
  <2>2. find' \in Finding
    BY <2>1 DEF Parts, Finding
  <2>3. CellTypeOK'
    <3>1. CASE InsertFound
      BY <2>1, <3>1, InsertFoundKeeps
    <3>2. CASE UNCHANGED <<playlist, fresh, acts>>
      BY <2>1, <3>2 DEF Parts, CellTypeOK
    <3> QED
      BY <2>1, <3>1, <3>2
  <2> QED
    BY <2>1, <2>2, <2>3 DEF Parts
<1> QED
  BY <1>2, <1>3

LEMMA HandleFormKeeps ==
  ASSUME Parts, NEW m, HandleForm(m)
  PROVE  Parts'
<1>1. UNCHANGED <<win, find, cellVars>>
  BY DEF HandleForm
<1>2. form' \in [active : BOOLEAN, edited : BOOLEAN]
  <2>1. form \in [active : BOOLEAN, edited : BOOLEAN]
    BY DEF Parts
  <2>2. ASSUME NEW b \in BOOLEAN
        PROVE  /\ [form EXCEPT !.active = b] \in [active : BOOLEAN, edited : BOOLEAN]
               /\ [form EXCEPT !.edited = b] \in [active : BOOLEAN, edited : BOOLEAN]
    BY <2>1
  <2>3. [active |-> FALSE, edited |-> FALSE] \in [active : BOOLEAN, edited : BOOLEAN]
    OBVIOUS
  <2> QED
    BY <2>2, <2>3, Zenon DEF HandleForm
<1> QED
  BY <1>1, <1>2, CellStays DEF Parts

LEMMA HandleKeeps ==
  ASSUME CellTypeOK, WinInv, Handle
  PROVE  CellTypeOK' /\ WinInv'
<1> DEFINE m == Head(queue)
<1>1. /\ queue # <<>> /\ queue' = Tail(queue) /\ handling' = (Tail(queue) # <<>>)
      /\ queue \in Seq(WinMessage) /\ Len(queue) \in Nat \ {0} /\ MaxBatch \in Nat
  BY WindowAssumption DEF Handle, WinInv, QueueOK
<1>2. m \in WinMessage /\ Parts
  BY <1>1 DEF Parts, WinInv
<1>3. \/ m.type = "ModelChanged" /\ HandleModelChanged
      \/ HandlePlaylist(m) \/ HandleFind(m) \/ HandleClick(m) \/ HandleForm(m)
  BY Zenon DEF Handle
<1> HIDE DEF m
<1>4. Parts'
  BY <1>2, <1>3, HandleModelChangedKeeps, HandlePlaylistKeeps, HandleFindKeeps,
     HandleClickKeeps, HandleFormKeeps
<1>5. /\ queue' \in Seq(WinMessage) /\ Len(queue') = Len(queue) - 1
      /\ \A i \in 1 .. Len(queue') : queue'[i] = queue[i + 1]
  BY <1>1
<1>6. \A i \in 1 .. Len(queue') : queue'[i].type # "ModelChanged"
  <2>1. ASSUME NEW i \in 1 .. Len(queue')
        PROVE  queue'[i].type # "ModelChanged"
    <3>1. i + 1 \in 2 .. Len(queue)
      BY <1>1, <1>5
    <3> QED
      BY <1>5, <3>1 DEF WinInv, QueueOK
  <2> QED
    BY <2>1
<1>7. Len(queue') <= MaxBatch
  BY <1>1, <1>5 DEF WinInv, QueueOK
<1>8. QueueOK(queue')
  BY <1>1, <1>5, <1>6, <1>7 DEF QueueOK
<1> QED
  BY <1>1, <1>4, <1>8 DEF Parts, WinInv

LEMMA JobEndsKeeps ==
  ASSUME CellTypeOK, WinInv, JobEnds
  PROVE  CellTypeOK' /\ WinInv'
<1> DEFINE j == [find.job EXCEPT !.done = TRUE]
<1>1. /\ find' = [find EXCEPT !.job = j] /\ find.job # None
      /\ UNCHANGED <<win, form, queue, handling>> /\ UNCHANGED cellVars
  BY DEF JobEnds
<1>2. find \in Finding
  BY DEF WinInv
<1>3. find.job \in [found : Seq(Videos), done : BOOLEAN]
  BY <1>1, <1>2 DEF Finding
<1>4. j \in [found : Seq(Videos), done : BOOLEAN]
  BY <1>3
<1> HIDE DEF j
<1>5. find' \in Finding
  BY <1>1, <1>2, <1>4 DEF Finding
<1> QED
  BY <1>1, <1>5, CellStays DEF WinInv

LEMMA WinKeeps ==
  ASSUME CellTypeOK, WinInv, WinNext
  PROVE  CellTypeOK' /\ WinInv'
<1>1. CASE PlaylistEvent \/ SearchEvent \/ FormEvent \/ Changed
  BY <1>1, PlaylistEventKeeps, SearchEventKeeps, FormEventKeeps, ChangedKeeps
<1>2. CASE Handle \/ JobEnds
  BY <1>2, HandleKeeps, JobEndsKeeps
<1>3. ASSUME NEW p \in Lists, CoreReplaces(p)
      PROVE  CellTypeOK' /\ WinInv'
  <2>1. /\ p \in Seq(Videos) /\ ChangePlaylist(p) /\ store' = store
        /\ UNCHANGED <<win, find, form, queue, handling>>
    BY <1>3, CellsAssumption DEF CoreReplaces, winVars
  <2>2. CellTypeOK'
    BY <2>1, ChangePlaylistTyped
  <2> QED
    BY <2>1, <2>2 DEF WinInv
<1>4. ASSUME NEW s \in Stores, StoreReplaced(s)
      PROVE  CellTypeOK' /\ WinInv'
  <2>1. /\ Act /\ store' = s /\ UNCHANGED <<playlist, fresh>>
        /\ UNCHANGED <<win, find, form, queue, handling>>
    BY <1>4 DEF StoreReplaced, winVars
  <2>2. CellTypeOK'
    BY <2>1, ActTyped DEF CellTypeOK
  <2> QED
    BY <2>1, <2>2 DEF WinInv
<1> QED
  BY <1>1, <1>2, <1>3, <1>4 DEF WinNext

LEMMA WinStarts ==
  ASSUME WinInit
  PROVE  WinInv
<1>1. win \in Win
  BY DEF WinInit, Win, Selected, Interactions
<1>2. find \in Finding
  BY DEF WinInit, Finding
<1>3. form \in [active : BOOLEAN, edited : BOOLEAN] /\ handling \in BOOLEAN
  <2>1. PICK a \in BOOLEAN : form = [active |-> a, edited |-> FALSE]
    BY DEF WinInit
  <2>2. form \in [active : BOOLEAN, edited : BOOLEAN]
    BY <2>1
  <2> QED
    BY <2>2 DEF WinInit
<1>4. QueueOK(queue)
  <2>1. queue = <<>> /\ MaxBatch \in Nat
    BY WindowAssumption DEF WinInit
  <2>2. queue \in Seq(WinMessage) /\ Len(queue) = 0
    BY <2>1
  <2> QED
    BY <2>1, <2>2 DEF QueueOK
<1> QED
  BY <1>1, <1>2, <1>3, <1>4 DEF WinInv

-----------------------------------------------------------------------------
(* The two interfaces.                                                     *)

\* The one that was not started stays as it was.
ScreensInv ==
    /\ ui \in {"ratatui", "iced"}
    /\ CellTypeOK /\ TermInv /\ WinInv
    /\ ui = "iced" => /\ list.nav.sel = None /\ list.nav.upper = 0
                      /\ list.nav.len = 0
                      /\ up = "running" /\ ~ loose

LEMMA ScreensStart ==
  ASSUME Init
  PROVE  ScreensInv
BY TermStarts, WinStarts DEF Init, ScreensInv, TermInit

LEMMA ScreensKeep ==
  ASSUME ScreensInv, [Next]_vars
  PROVE  ScreensInv'
<1>1. CASE ui = "ratatui" /\ TermNext /\ UNCHANGED winVars /\ UNCHANGED ui
  <2>1. CellTypeOK' /\ TermInv'
    BY <1>1, TermKeeps DEF ScreensInv
  <2>2. WinInv'
    BY <1>1 DEF ScreensInv, WinInv, winVars
  <2> QED
    BY <1>1, <2>1, <2>2 DEF ScreensInv
<1>2. CASE ui = "iced" /\ WinNext /\ UNCHANGED termVars /\ UNCHANGED ui
  <2>1. CellTypeOK' /\ WinInv'
    BY <1>2, WinKeeps DEF ScreensInv
  <2>2. UNCHANGED <<app, list, search, portOk, up, loose>>
    BY <1>2 DEF termVars
  <2>3. Fits(list.nav, loose, playlist')
    <3>1. /\ list.nav.sel = None /\ list.nav.upper = 0 /\ list.nav.len = 0
          /\ Len(playlist') \in Nat
      BY <1>2, <2>1 DEF ScreensInv, CellTypeOK
    <3> QED
      BY <3>1 DEF Fits
  <2>4. TermInv'
    BY <2>2, <2>3 DEF ScreensInv, TermInv
  <2> QED
    BY <1>2, <2>1, <2>2, <2>4 DEF ScreensInv
<1>3. CASE UNCHANGED vars
  <2>1. UNCHANGED <<ui, app, list, search, portOk, up, loose>> /\ UNCHANGED winVars
        /\ UNCHANGED cellVars
    BY <1>3 DEF vars, termVars
  <2>2. CellTypeOK' /\ playlist' = playlist
    BY <2>1, CellStays DEF ScreensInv
  <2>3. WinInv'
    BY <2>1 DEF ScreensInv, WinInv, winVars
  <2> QED
    BY <2>1, <2>2, <2>3 DEF ScreensInv, TermInv
<1> QED
  BY <1>1, <1>2, <1>3 DEF Next

\* The invariant holds in every reachable state.
THEOREM ScreensInvariance == Spec => []ScreensInv
<1>1. Init => ScreensInv
  BY ScreensStart
<1>2. ScreensInv /\ [Next]_vars => ScreensInv'
  BY ScreensKeep
<1> QED
  BY <1>1, <1>2, PTL DEF Spec

\* Every state of the two interfaces is a proper one: mode, overlay and focus of
\* the terminal, the widgets, and the messages of the window.
THEOREM ScreensTypeCorrect == Spec => []TypeOK
<1>1. ScreensInv => TypeOK
  <2> SUFFICES ASSUME ScreensInv
               PROVE  TypeOK
    OBVIOUS
  <2>1. TermTypeOK
    BY DEF ScreensInv, TermInv, TermTypeOK, AppOK, ListOK
  <2>2. WinTypeOK
    BY DEF ScreensInv, WinInv, WinTypeOK, QueueOK
  <2> QED
    BY <2>1, <2>2 DEF ScreensInv, TypeOK
<1> QED
  BY <1>1, ScreensInvariance, PTL

\* Whatever keys, notices and playlists of the room come in whatever order: the
\* selection of the terminal's playlist lies in the playlist, and cut, reverse
\* and paste do not panic, but for what SelectionFits excepts (handler/ and
\* widget/playlist of client/ui/ratatui/src).
THEOREM SelectionAlwaysFits == Spec => []SelectionFits
<1>1. ScreensInv => SelectionFits
  BY DEF ScreensInv, TermInv, Fits, SelectionFits
<1> QED
  BY <1>1, ScreensInvariance, PTL

\* A video that is dragged lands where the line was shown, in lists of any
\* length and for every gap and direction (closest_index of
\* client/ui/iced/src/widget/playlist and move_video of the playlist).
THEOREM DropsLand == Spec => DropLands
<1> DEFINE msg == Head(queue)
           Right == queue # <<>> /\ queue' = Tail(queue) /\ AsSeen(msg) =>
             /\ win'.list = Without(SubSeq(msg.seen, 1, msg.gap), msg.video)
                              \o <<msg.video>>
                              \o Without(SubSeq(msg.seen, msg.gap + 1, Len(msg.seen)), msg.video)
             /\ playlist' = win'.list
<1>1. ScreensInv /\ [Next]_vars => Right
  <2> SUFFICES ASSUME ScreensInv, [Next]_vars, queue # <<>>, queue' = Tail(queue), AsSeen(msg)
               PROVE  /\ win'.list = Without(SubSeq(msg.seen, 1, msg.gap), msg.video)
                              \o <<msg.video>>
                              \o Without(SubSeq(msg.seen, msg.gap + 1, Len(msg.seen)), msg.video)
                      /\ playlist' = win'.list
    OBVIOUS
  <2>1. queue \in Seq(WinMessage) /\ Len(queue) \in Nat \ {0} /\ msg \in WinMessage
    BY DEF ScreensInv, WinInv, QueueOK
  <2>2. Len(queue') = Len(queue) - 1 /\ Len(queue) \in Nat
    BY <2>1
  <2>3. queue' # queue /\ ~ Grows
    <3>0. \A n \in Nat : n - 1 # n /\ ~ (n - 1 > n)
      OBVIOUS
    <3>1. Len(queue') # Len(queue) /\ ~ (Len(queue') > Len(queue))
      BY <2>2, <3>0, Zenon
    <3> QED
      BY <3>1 DEF Grows
  <2>4. Handle
    <3>1. WinNext
      BY <2>3 DEF Next, vars, winVars
    <3>2. ~ PlaylistEvent /\ ~ SearchEvent /\ ~ FormEvent /\ ~ Changed
      BY <2>3, PlaylistEventKeeps, SearchEventKeeps, FormEventKeeps, ChangedKeeps DEF ScreensInv
    <3>3. ~ JobEnds
      BY <2>3 DEF JobEnds
    <3>4. \A p \in Lists : ~ CoreReplaces(p)
      BY <2>3 DEF CoreReplaces, winVars
    <3>5. \A s \in Stores : ~ StoreReplaced(s)
      BY <2>3 DEF StoreReplaced, winVars
    <3> QED
      BY <3>1, <3>2, <3>3, <3>4, <3>5 DEF WinNext
  <2> HIDE DEF msg
  <2>5. /\ msg.type = "Move" /\ msg.gap # None /\ msg.seen = win.list /\ IsInjective(msg.seen)
        /\ msg.from < Len(msg.seen) /\ msg.seen[msg.from + 1] = msg.video
    BY DEF AsSeen
  <2>6. /\ msg.seen \in Seq(Videos) /\ msg.from \in Nat /\ msg.gap \in 0 .. Len(msg.seen)
        /\ msg.pos = PlaceOf(msg.seen, msg.from, msg.gap)
    BY <2>1, <2>5, WinMessageKinds DEF Drop
  <2>7. Rearrange(MoveVideo(win.list, msg.video, msg.pos))
    <3>1. \/ msg.type = "ModelChanged" /\ HandleModelChanged
          \/ HandlePlaylist(msg) \/ HandleFind(msg) \/ HandleClick(msg) \/ HandleForm(msg)
      BY <2>4, Zenon DEF Handle, msg
    <3> QED
      BY <2>5, <3>1 DEF HandlePlaylist, HandleFind, HandleClick, HandleForm
  <2>8. win'.list = MoveVideo(msg.seen, msg.video, msg.pos) /\ playlist' = win'.list
    <3>1. /\ win' = [win EXCEPT !.list = MoveVideo(win.list, msg.video, msg.pos)]
          /\ playlist' = MoveVideo(win.list, msg.video, msg.pos)
      BY <2>7 DEF Rearrange, ChangePlaylist
    <3>2. win \in Win
      BY DEF ScreensInv, WinInv
    <3>3. win'.list = MoveVideo(win.list, msg.video, msg.pos)
      BY <3>1, <3>2 DEF Win
    <3> QED
      BY <2>5, <3>1, <3>3
  <2>9. MoveVideo(msg.seen, msg.video, msg.pos)
          = Without(SubSeq(msg.seen, 1, msg.gap), msg.video)
              \o <<msg.video>>
              \o Without(SubSeq(msg.seen, msg.gap + 1, Len(msg.seen)), msg.video)
    BY <2>5, <2>6, Lands, Zenon
  <2> QED
    BY <2>8, <2>9, Zenon
<1> QED
  BY <1>1, ScreensInvariance, PTL DEF DropLands, Spec

=============================================================================
