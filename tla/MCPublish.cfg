SPECIFICATION Spec
CONSTANTS Conns = {c1, c2, c3}
          NoConn = NoConn
INVARIANTS OnePublisher
PROPERTIES SessionSpec SilentPublisherLeaves StreamIsFreed
