CONSTANTS
    g1 = g1
    g2 = g2
    p = p
    Gen = {g1, g2}
    Path = {p}
    PathOf <- MCPathOf
    Reader = {r1}
    Client = {q1}
    Cell = {c1, c2, c3, c4, c5}
    MaxSeq = 5
    LastOf <- MCLastOf
    Closer = {k1}
    Ending = {g1}
    None = None
SPECIFICATION Spec
INVARIANTS TypeOK OneOwner ListedIsIntact ReaderGetsItsSegment CloseLeavesOneFrame
PROPERTY WindowSlides
CHECK_DEADLOCK FALSE
