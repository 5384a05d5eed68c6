SPECIFICATION FairSpec
CONSTANTS
  Routers <- Three
  Priorities = {0, 1, 2}
  Configured <- Networks
INVARIANTS TypeOK AdjacencyFollowsElection SettledRoutersAgree
PROPERTIES YieldsToDeclared ElectionEnds
