SPECIFICATION ChunkSpec
CONSTANTS Cids = {4, 6}
          Extended = 2
          Wrap = 3
          MaxTime = 4
          MaxStep = 3
          MaxLength = 3
          ChunkSizes = {1, 2}
INVARIANTS MessagesArrive StaysInSync
CHECK_DEADLOCK FALSE
