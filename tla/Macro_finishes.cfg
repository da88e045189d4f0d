SPECIFICATION CarefulFairSpec
CONSTANTS
  Null = Null
  NoKey = NoKey
  Slots = {s1}
  Keys = {k1}
  MaxCommands = 3
  MaxLoops = 3
  MaxManagers = 1
PROPERTIES
  TraceFinishes
