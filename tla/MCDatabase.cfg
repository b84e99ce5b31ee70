SPECIFICATION DatabaseSpec
CONSTANTS
    top = top
    films = films
    old = old
    m = m
    n = n
    Dirs = {top, films, old}
    Paths = {top, films}
    Names = {m, n}
    Sub <- SubDirs
    Files <- InDirs
    Unreadable = {old}
    MaxOperations = 2
    MaxFailures = 1
CHECK_DEADLOCK FALSE
INVARIANT DatabaseTypeOK
PROPERTY UpdatesArrive
