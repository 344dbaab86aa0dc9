SPECIFICATION FairSpec
CONSTANTS MinMsgs = {1}
          MwDuration = 0
          MaxQueue = 1
          DumpSizes = {1, 2}
          Times = {0, 1, 2}
          MaxMsgs = 3
INVARIANTS Heard QueueIsBounded FramesMatchHeader
PROPERTIES PlayerAnswers
CHECK_DEADLOCK FALSE
