SPECIFICATION FairSpec
CONSTANTS
  Printers = {"interrupt"}
INVARIANTS
  TypeOK
  Handshake
PROPERTIES
  MainGoesOn
  WrittenIsShown
