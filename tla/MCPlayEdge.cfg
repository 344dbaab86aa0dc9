SPECIFICATION FairSpec
CONSTANTS Clients = {c1, c2, c3}
          MaxStarts = 3
INVARIANTS IngesterIsSound EdgeFollowsPlayers
PROPERTIES EdgeGoesOn
CHECK_DEADLOCK FALSE
