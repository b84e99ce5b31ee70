----------------------------- MODULE MCSeeking ------------------------------
EXTENDS Seeking

PlacesDef == {-4, 0, 4}
=============================================================================
