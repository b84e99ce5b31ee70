------------------------------ MODULE MCStream ------------------------------
EXTENDS Stream

\* What the player sends: everything, or the end of the file from
\* a position within its first chunk.
OpenRanges ==
    {[start |-> 0, end |-> NoBound], [start |-> NoBound, end |-> 3]}

\* A range with an end of its own, which LengthKept does not survive.
ClosedRanges == {[start |-> 0, end |-> 2]}
=============================================================================
