----------------------------- MODULE MCDatabase -----------------------------
EXTENDS Database, TLC

CONSTANTS top, films, old, m, n

\* top contains films and old, which cannot be read; m is in two places.
SubDirs == top :> {films, old} @@ films :> {} @@ old :> {}
InDirs == top :> {m} @@ films :> {m} @@ old :> {n}
=============================================================================
