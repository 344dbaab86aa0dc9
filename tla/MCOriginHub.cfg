SPECIFICATION FairSpec
CONSTANTS
    Endpoints = 2
    Muxers = {"hls"}
    MaxMsgs = 2
    MaxReloads = 2
INVARIANTS
    FreedIsNotUsed
    ServicesFollowStream
    HeadersComeFirst
PROPERTIES
    UnpublishEnds
CHECK_DEADLOCK FALSE
