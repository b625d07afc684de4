SPECIFICATION Spec
CONSTANTS
  Alarms = {a1, a2, a3}
  Nodes = {n1, n2, n3, n4}
  NoNode = NoNode
  MaxTime = 3
  Granularity = 1
SYMMETRY Symmetry
INVARIANTS QueueConsistent IteratorValid RoundComplete ShutdownDetaches
PROPERTY ImplementsService
