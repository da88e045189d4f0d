SPECIFICATION Spec
CONSTANTS
  Null = Null
  NoKey = NoKey
  Slots = {s1, s2}
  Keys = {k1}
  MaxCommands = 2
  MaxLoops = 2
  MaxManagers = 3
INVARIANTS
  TraceHasCommand
CHECK_DEADLOCK FALSE
