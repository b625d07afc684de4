SPECIFICATION Spec
CONSTANTS
  Transports = {TRUE}
  Hosts = {"known"}
  Lengths <- MCLengths
  Callbacks = {c1, c2}
  FreshPointer = {"null", "garbage"}
  NoCallback = NoCallback
  MaxBufferSize = 3
  MaxBody = 4
  MaxWrite = 2
INVARIANT AnnouncedFirst
CHECK_DEADLOCK FALSE
