SPECIFICATION FairSpec
CONSTANTS
  Transports = {TRUE, FALSE}
  Hosts = {"none", "known", "unknown"}
  Lengths <- MCLengths
  Callbacks = {c1, c2}
  FreshPointer = {"null", "garbage"}
  NoCallback = NoCallback
  MaxBufferSize = 3
  MaxBody = 4
  MaxWrite = 2
INVARIANTS TypeOK CallbackOrder AnnouncedWhole Http3Sound WakeUpKept
PROPERTIES RejectedIsFinal NamedRequestAnswered
CHECK_DEADLOCK FALSE
