------------------------------ MODULE Playlists ------------------------------
(***************************************************************************)
(* A playlist (client/core/src/playlist/mod.rs): what its operations make  *)
(* of a list of videos.  The host session and the cores search it, the     *)
(* user interfaces rearrange it.  Positions count from 0, as the code has  *)
(* them, unless said otherwise.                                            *)
(***************************************************************************)
EXTENDS Naturals, Sequences, SequencesExt

CONSTANTS
    Videos,
    None        \* no video

ASSUME PlaylistsAssumption == None \notin Videos

-----------------------------------------------------------------------------
Least(a, b) == IF a <= b THEN a ELSE b
Before(n) == IF n = 0 THEN 0 ELSE n - 1

\* Those of the videos of p that are in vs.
Kept(p, vs) == FoldLeft(LAMBDA q, v : IF v \in vs THEN Append(q, v) ELSE q, <<>>, p)

\* Where v comes first, counted from 1; 0 if it does not.
Position(p, v) == SelectInSeq(p, LAMBDA w : w = v)

\* find: the first position of v, or None.
Find(p, v) == IF Contains(p, v) THEN Position(p, v) - 1 ELSE None

\* get_range and the slices of results: whatever of lo .. hi there is.
GetRange(p, lo, hi) == SubSeq(p, lo + 1, Least(hi + 1, Len(p)))

Push(p, v) == IF Contains(p, v) THEN p ELSE Append(p, v)
Insert(p, i, v) == IF Contains(p, v) THEN p ELSE InsertAt(p, i + 1, v)
InsertRange(p, i, vs) == FoldRight(LAMBDA v, q : Insert(q, i, v), vs, p)

RemoveByVideo(p, v) == RemoveFirst(p, v)

MoveVideo(p, v, i) ==
    LET q == RemoveByVideo(p, v) IN InsertAt(q, Least(i, Len(q)) + 1, v)

\* The operations that panic unless hi < Len(p), or i <= Len(p).
RemoveRange(p, lo, hi) == SubSeq(p, 1, lo) \o SubSeq(p, hi + 2, Len(p))

ReverseRange(p, lo, hi) ==
    SubSeq(p, 1, lo) \o Reverse(SubSeq(p, lo + 1, hi + 1))
      \o SubSeq(p, hi + 2, Len(p))

AppendAt(p, i, vs) ==
    LET head == SubSeq(p, 1, i)
    IN head \o Kept(vs, Videos \ Range(head)) \o SubSeq(p, i + 1, Len(p))

Slices(s) == {SubSeq(s, i, j) : i, j \in 1 .. Len(s)} \ {<<>>}
=============================================================================
