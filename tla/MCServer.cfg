SPECIFICATION FairSpec
CONSTANTS Clients = {c1, c2, c3}
          MaxConnections = 2
          MaxFds = 3
          MaxReloads = 1
          MaxOrphans = 1
INVARIANTS ReloadReachesAll SocketsAccounted
PROPERTIES QuitLosesNobody ServerQuits
CHECK_DEADLOCK FALSE
