SPECIFICATION Spec
CONSTANTS
    TsMod = 32
    Base = {0, 20}
    PtsDelay = 1
    HlsFragment = 3
    AacDelay = 0
    MaxGop = 2
    MaxTime = 13
INVARIANT
    SegmentKeepsLength
