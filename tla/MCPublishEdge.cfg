SPECIFICATION FairSpec
CONSTANTS
    Clients = {c1, c2}
    MaxSend = 2
    MaxMsgs = 3
INVARIANTS
    OneOwner
    OriginGetsPublish
PROPERTIES
    PublishersGetOut
    QueueIsSent
CHECK_DEADLOCK TRUE
