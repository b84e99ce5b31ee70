----------------------------- MODULE MCPlayback -----------------------------
EXTENDS Playback, TLC
=============================================================================
