------------------------------- MODULE MCDesk -------------------------------
EXTENDS Desk

CONSTANTS n1, n2, relay1, relay2, room1, room2

Started == [name |-> n1, relay |-> relay1, room |-> room1, auto |-> TRUE]
=============================================================================
