SPECIFICATION FairSpec
CONSTANTS
  Transports = {TRUE}
  Hosts = {"none"}
  Lengths <- MCLengths
  Callbacks = {c1, c2}
  FreshPointer = {"null", "garbage"}
  NoCallback = NoCallback
  MaxBufferSize = 3
  MaxBody = 4
  MaxWrite = 2
PROPERTY RequestAnswered
CHECK_DEADLOCK FALSE
