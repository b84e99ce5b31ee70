------------------------------ MODULE Screens ------------------------------
(***************************************************************************)
(* The two user interfaces of the client.  One of them is started, and it  *)
(* shares the cells of module Cells with the core.                     *)
(***************************************************************************)
EXTENDS Terminal, Window

VARIABLE ui   \* which one the command line asked for

vars == <<ui, termVars, winVars, cellVars>>

TypeOK ==
    /\ ui \in {"ratatui", "iced"}
    /\ CellTypeOK /\ TermTypeOK /\ WinTypeOK

Init ==
    /\ ui \in {"ratatui", "iced"}
    /\ CellInit /\ TermInit /\ WinInit

Next ==
    /\ UNCHANGED ui
    /\ \/ ui = "ratatui" /\ TermNext /\ UNCHANGED winVars
       \/ ui = "iced" /\ WinNext /\ UNCHANGED termVars

Spec == Init /\ [][Next]_vars
=============================================================================
