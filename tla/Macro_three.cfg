SPECIFICATION CarefulSpec
CONSTANTS
  Null = Null
  NoKey = NoKey
  Slots = {s1, s2, s3}
  Keys = {k1}
  MaxCommands = 2
  MaxLoops = 1
  MaxManagers = 3
SYMMETRY SlotSymmetry
INVARIANTS
  TypeOK
  ActionPrepared
  NoFault
  WellLinked
PROPERTIES
  ImplementsList
