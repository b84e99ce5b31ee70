---------------------------- MODULE MCRoomState ----------------------------
(***************************************************************************)
(* Playlists that tell the cases of select_next apart: videos in front of, *)
(* at and behind the selected one go, several at once or one in the        *)
(* middle, and come back.  The clients are interchangeable.                *)
(***************************************************************************)
EXTENDS RoomState, TLC

CONSTANTS x, y, z

ThreeVideos == {x, y, z}
MCLists == {<<y>>, <<x, z>>, <<x, y, z>>}
MCSaved == {<<x, y, z>>}

Symmetry == Permutations(Clients)
=============================================================================
