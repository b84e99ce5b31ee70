----------------------------- MODULE MCScreens -----------------------------
(***************************************************************************)
(* The two user interfaces with three videos, of which the room's playlist *)
(* has all or one and the database two, and two queries.                   *)
(***************************************************************************)
EXTENDS Screens

CONSTANTS v1, v2, v3, all, one

MCLists == {<<v1, v2, v3>>, <<v2>>}
MCStores == {<<>>, <<v2, v3>>}
MCMatches == [q \in {all, one} |-> IF q = all THEN {v1, v2, v3} ELSE {v3}]
MCSaved == {<<v2>>}
=============================================================================
