------------------------------ MODULE MCRelay ------------------------------
(***************************************************************************)
(* The relay's registry with two disciplined peers and one whose           *)
(* connections overlap, two rooms and two passwords.  The peers of either  *)
(* kind, the rooms, the passwords and the connection slots are             *)
(* interchangeable, and only safety is checked, so the symmetry is sound.  *)
(***************************************************************************)
EXTENDS Relay, TLC

Symmetry ==
    Permutations(Peers \ Overlapping) \cup Permutations(Rooms)
        \cup Permutations(Passwords) \cup Permutations(Conns)
=============================================================================
