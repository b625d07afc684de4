SPECIFICATION LoopSpec
CONSTANTS
  Alarms = {a1, a2}
  Nodes = {n1, n2, n3}
  NoNode = NoNode
  MaxTime = 6
  Granularity = 2
  UsPerMs = 2
INVARIANT WakeUpInTime
PROPERTY SetAlarmFires
