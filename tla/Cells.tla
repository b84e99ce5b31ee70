------------------------------- MODULE Cells -------------------------------
(***************************************************************************)
(* The cells with the current playlist and the file database that a user   *)
(* interface shares with its core (how the two go about such a cell is     *)
(* module Desk's).                                                         *)
(***************************************************************************)
EXTENDS Playlists

CONSTANTS
    Lists,      \* playlists the room may come up with
    Stores,     \* the files the database may hold
    Queries,    \* what the user may search for
    Matches,    \* Matches[q]: the videos a query is found in
    MaxActs     \* bound: changes of playlist, database, query and port

ASSUME CellsAssumption ==
    /\ Lists \subseteq Seq(Videos)
    /\ Stores \subseteq Seq(Videos) /\ <<>> \in Stores
    /\ Matches \in [Queries -> SUBSET Videos]
    /\ \E q \in Queries : Matches[q] = Videos
    /\ MaxActs \in Nat

VARIABLES
    playlist,  \* UiModel::playlist
    fresh,     \* the cell is marked as changed
    store,     \* UiModel::file_database
    acts

cellVars == <<playlist, fresh, store, acts>>

-----------------------------------------------------------------------------
\* FuzzySearch: the entries that match, in the store's order (the code's is by
\* score).
Search(entries, q) == Kept(entries, Matches[q])

CellTypeOK ==
    /\ playlist \in Seq(Videos) /\ fresh \in BOOLEAN
    /\ store \in Stores /\ acts \in 0 .. MaxActs

CellInit ==
    /\ playlist = <<>> /\ fresh = FALSE
    /\ store = <<>> /\ acts = 0

Act == acts < MaxActs /\ acts' = acts + 1

\* change_playlist.
ChangePlaylist(p) == Act /\ playlist' = p /\ fresh' = TRUE
=============================================================================
