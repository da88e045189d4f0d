SPECIFICATION UnitsSpec
CONSTANTS
  Units = {"dmem", "files", "remap", "dirh", "dialogs", "rapid", "sosktext", "soskkeys", "numedit",
           "menu", "editor", "cursor", "macrofile", "tape",
           "settings", "rapidfile", "padctrl", "detect", "getfile", "heap", "takeover",
           "screen", "packet", "stick", "names", "memory", "controls",
           "frames", "pixels", "strings", "hooks"}
  Heaps = {h1, h2, h3}
  Blocks = {b1, b2, b3}
  Null = Null
  GameThreads = {"g1", "g2"}
  System = {"s", "main"}
  Notifier = "n"
  Most = 64
  VramEnd = 128
  FramePages = 17
  Shows <- GamesFrames
  Nowhere = Nowhere
  NoPref = NoPref
  RapidButtons = {"a", "b"}
  Delays <- PressAndRelease
  Gaps = {2}
  MaxSince = 4
  GameModules <- LoadedModules
  Calls <- SystemCalls
  HookTable <- HooksTable
  MaxEntries = 2
  MaxLines = 3
  HalfPage = 1
  Numbers = {0, 1}
  NormalButtons = {"cross", "up"}
  Toggles = {"wlan"}
  Repeat = {"up"}
  StartDelay = 3
  NextDelay = 2
  Chars = {"a", "b"}
  NUL = "nul"
  TextMax = 7
  Width = 5
  MemoryUsers = {"u", "v"}
  PartitionEnd = 24
  Page = 4
  AskedSizes = {0, 3, 5}
  Aligns = {0, 2, 8, 3}
  HeapSize = 30
  Wanted = {0, 2, 3, 10, 26}
  BlockHeader = 2
  AlignSize = 2
  NameLengths <- LengthsOfNames
  DirNames = {"d", "dd"}
  IllegalNames = {"f:"}
  RootPath = "ms0:"
  PathMax = 12
  EntryCounts = {0, 3, 12}
  ListLines = 10
  RemapButtons = {1}
  MaxList = 2
  PageLines = 18
  ButtonLists <- ListsOfButtons
  PressedKeys = {"UP", "DOWN", "LEFT", "RIGHT", "CIRCLE", "CROSS", "SQUARE", "TRIANGLE", "START"}
  Combinations = {{}, {"UP"}, {"SQUARE"}, {"CIRCLE"}, {"UP", "SQUARE"}}
  AcceptButton = "CIRCLE"
  CancelButton = "CROSS"
  ListRow = 6
  TriedButtons = {"UP"}
  KeyTables <- TablesOfKeys
  KeyTypes = {1, 2, 3, 4, 5}
  NumberPrefs <- NumbersEdited
  OptionCounts = {2, 3, 5}
  ByteValues = 16
  BeyondValues = {0, 1, 3, 35, 256}
  FramesOfGame <- TwoFrames
  MenuScreen <- FrameOfMenu
  NoPad = NoPad
  Center = 127
  MaxCoord = 255
  Arriving <- WordsArriving
  StickLevels = {127, 255}
  Coords = {0, 60, 127, 155, 255}
  PadButtons = {"a", "b", "r"}
  Tried <- TriedSettings
  NumberMaxima = {182, 255, 400, 999}
  NumberOver = 100
  HeldSets <- HeldDown
  MenuButtons = {"l", "r"}
  Loops = {0, 1, 2}
  MaxFrames = 4
INVARIANTS
  NoHeapLost
  HeldInMemory
  UnitsTypeOK
  DoneAsAsked
  SelectedInList
  DirectoryRead
  NothingLeft
  AcceptedAsAsked
  CursorsReach
  ActsOnAccept
  MenuTold
  EditLands
  PlaysAsRecorded
  SettingsFound
  GivenBack
  BlocksApart
  PadAsDecided
  DrawnAsGiven
PROPERTIES
  ImplementsAllocator
  SavedIsLoaded
  HoldFollowsPresses
  ImplementsLine
  ValuesTurn
  RepeatsFollow
