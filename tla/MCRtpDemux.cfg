SPECIFICATION Spec
CONSTANTS
    Codec = {"H264", "H265"}
    SeqMod = 5
    Single = {"slice", "pps", "filler"}
    MaxUnderWay = 2
    MaxPart = 3
    MaxPacket = 7
    MaxFault = 2
INVARIANTS
    TypeOK
    FrameIsOfOneUnit
    HevcFrameIsWhole
    RecoversFromLoss
    FramesHaveParams
