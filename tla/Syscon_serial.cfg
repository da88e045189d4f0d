SPECIFICATION FairSerialSpec
CONSTANTS
  Plugins = {p1, p2}
  Buttons = {combination}
  MenuMasks = {{}}
  ToggleMasks = {{}, {combination}}
  MaxCalls = 2
INVARIANTS
  TypeOK
  MenuKeepsHooks
  HandlersMatch
PROPERTIES
  FlipNeedsRelease
  TransparentChain
  ToggleAnswered
