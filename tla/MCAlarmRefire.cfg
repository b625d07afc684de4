SPECIFICATION Spec
CONSTANTS
  Alarms = {a1, a2}
  Nodes = {n1, n2, n3}
  NoNode = NoNode
  MaxTime = 2
  Granularity = 1
PROPERTY OnlyOldAlarmsFire
