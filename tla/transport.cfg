SPECIFICATION FairSpec
CONSTANTS
  Width = 8
  Modulus = 5
  Late = 2
  MaxCalls = 12
  SettleSteps = 2
  c1 = c1
  c2 = c2
  v1 = v1
  v2 = v2
  v3 = v3
  Clients <- MCClients
  MaxRequests = 6
  MaxFaults = 4
  Versions <- MCVersions
  Bundled = v1
  Healthy <- MCHealthy
  MaxBoots = 3
  MaxInstalls = 3
  s1 = s1
  s2 = s2
  Sessions <- MCSessions
  Pinned <- MCPinned
  Hosts <- MCHosts
  Default = 1
  Span = 4
  FirstStep = 2
  Factor = 2
  MaxRaises = 2
  MaxLoginFaults = 2
  ProbesMisread = FALSE
INVARIANTS AnswersMatch SlowAnswersCostOnlyThemselves LoadableIsHealthy SyncLeavesTheBundledOne 
PROPERTIES EverySessionLogsIn
CHECK_DEADLOCK FALSE
