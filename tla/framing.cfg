SPECIFICATION FairSpec
CONSTANTS
    Base = 2
    MAX_FRAME = 3
    Sent <- MCSent
    Length = 3
    MaxBatch = 2
    Reply = {1}
    InRoom = 30
    OutRoom = {1, 3}
INVARIANTS TypeOK DecodedAsSent OneFrameBuffered
PROPERTIES PipelineFlows
CHECK_DEADLOCK FALSE
