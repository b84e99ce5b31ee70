------------------------------ MODULE MCShare -------------------------------
EXTENDS Share, TLC

CONSTANTS a, b, v, w

\* a has both videos, b only one.
StoreOf == (a :> {v, w}) @@ (b :> {v})
=============================================================================
