SPECIFICATION ServerSpec
CONSTANTS
  c1 = c1
  c2 = c2
  s1 = s1
  s2 = s2
  e1 = e1
  w1 = w1
  w2 = w2
  Cids <- MCCids
  StreamIds <- MCStreamIds
  MaxRequests = 2
  CidsComeBack = TRUE
  LateCalls = FALSE
  StrayCloses = TRUE
  Peers <- MCPeers
  ErrorCodes <- MCErrorCodes
  MaxRst = 1
  Names <- MCNames
  Hosts <- MCHosts
  Files <- MCFiles
  MaxAdds = 3
  Workers <- MCWorkers
  HostNames <- MCHostNames
  NoName = NoName
  P256 = FALSE
  MaxStarts = 4
INVARIANTS ServerTyped RightStream NoLostWakeUp ConfigsUnderstood
PROPERTIES ImplementsTable Ends NobodyWaits CertificatesKept
CHECK_DEADLOCK FALSE
