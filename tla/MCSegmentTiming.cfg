SPECIFICATION Spec
CONSTANTS
    TsMod = 32
    Base = {0, 20}
    PtsDelay = 1
    HlsFragment = 3
    AacDelay = 0
    MaxGop = 8
    MaxTime = 13
INVARIANTS
    TypeOK
    SteadySegmentKeepsLength
    SteadyDurationIsSpan
    AudioIsKept
