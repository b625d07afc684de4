SPECIFICATION HttpSpec
CONSTANTS
  INT64_MAX = 7
  LONG_MAX = 127
  INT_MAX = 999
  UINT32_MAX = 9
  TextKinds <- MCTextKinds
  Received <- MCReceived
  Names <- MCNames
  Values <- MCValues
  StatusLines <- MCStatusLines
  NewHeaders <- MCNewHeaders
  NewRanges <- MCNewRanges
  MaxOps = 2
  Responses <- MCResponses
  NotModified <- MCNotModified
  Second = 2
  MaxTime = 6
  MaxDelay = 1
  Keys <- MCKeys
  KeyValues <- MCKeyValues
  Blocks <- MCBlocks
  Others <- MCOthers
  MaxHeaders = 4
INVARIANTS
  WithinResource
  CacheHonest
  TextsReadBack
  ReadAsWritten
  SecondTimeSame
  ListsMeanTheirParts
PROPERTIES
  ImplementsList
  NeverFresher
CHECK_DEADLOCK FALSE
