SPECIFICATION TimesSpec
CONSTANTS PureAV = 3
          MaxTime = 3
          MaxArrivals = 5
          MaxJitter = 2
          FrameTime = 1
          MaxGiven = 4
INVARIANT QueueIsSound
PROPERTIES MonotoneMix TracksKeepTime
