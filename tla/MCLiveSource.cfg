SPECIFICATION Spec
CONSTANTS Consumers = {k1}
          Cfgs = {1, 2}
          PureAudioGuess = 1
          Reduces = {TRUE, FALSE}
          MaxSessions = 2
          MaxMsgs = 4
INVARIANTS GopIsSound NoGapNoRepeat SessionsApart HeadersAsConfigured
CHECK_DEADLOCK FALSE
