CONSTANTS
    g1 = g1
    g2 = g2
    p = p
    Gen = {g1, g2}
    Path = {p}
    PathOf <- MCPathOf
    Reader = {}
    Client = {q1, q2}
    Cell = {c1, c2, c3, c4, c5}
    MaxSeq = 5
    LastOf <- MCLastOf
    Closer = {k1}
    Ending = {g1}
    None = None
SPECIFICATION Spec
INVARIANT ClientGetsItsPlaylist
CHECK_DEADLOCK FALSE
