SPECIFICATION HttpFairSpec
CONSTANTS Streams = {s1, s2}
          Clients = {c1}
          MaxPublish = 2
          MaxReload = 2
INVARIANTS ResponseIsSound
PROPERTIES RequestIsServed ClientsGetOut
CHECK_DEADLOCK FALSE
