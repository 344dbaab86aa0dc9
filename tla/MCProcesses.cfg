SPECIFICATION EnginesFairSpec
CONSTANTS EngineNames = {a, b, c}
          Objects = {1, 2, 3, 4}
          MaxEngineReloads = 2
INVARIANTS ProcessesAreOwned
PROPERTIES EndedIsForkedAgain
CHECK_DEADLOCK FALSE
