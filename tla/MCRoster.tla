------------------------------ MODULE MCRoster ------------------------------
EXTENDS Roster, TLC

Symmetry == Permutations(Clients) \cup Permutations(Names)
=============================================================================
