SPECIFICATION FairSpec
CONSTANTS
  Printers = {"game"}
PROPERTIES
  ShutdownEnds
