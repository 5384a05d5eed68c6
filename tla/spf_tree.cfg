SPECIFICATION Spec
CONSTANTS
  Routers <- SixRouters
  Networks <- TwoNetworks
  Root = 1
  Destinations <- Reachable
  OwnHosts <- HostAddress
  Databases <- AllDatabases
  Later <- LaterDatabases
  HeaderLen = 2
  LinkLen = 1
  LengthMod = 7
  PlugletBlocks = 7
  Starts = 2
INVARIANTS QueueIndexed  AllShortestHops RoutesAreBest
PROPERTIES PlugletFreesCopies MeasuresRecover
