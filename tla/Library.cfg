SPECIFICATION Spec
CONSTANTS
  Dirs <- SomeDirs
  PathMax = 6
  Modulus = 3
  MaxFiles = 3
  MaxWrites = 3
  Fresh <- Letters
  Descriptors = {0, 3}
  Contents <- SomeContents
  Hints = {0, 1}
  MaxParses = 2
  Failures = {"fopen", "malloc", "realloc", "getline"}
  Hists = {h1, h2}
  Thresholds <- SomeThresholds
  MaxU = 7
  Samples = {0, 1, 3, 6, 7}
  MaxCount = 3
  MaxCalls = 2
  SizeMax = 4
  Uses <- SomeUses
  MaxFds = 2
  SizeHints <- SomeHints
  Identities <- SomeIdentities
  Levels = {0, 3, 7, 8}
  Texts <- SomeTexts
  IdentitySize = 3
  BufferSize = 9
  PointerSize = 4
  MaxLines = 1
  Width = 5
  Values <- SomeValues
  Multiplier <- SomeMultipliers
  Base = 3
  Sizes = {2, 4}
  Ms = 2
  Sec = 2
  MaxClock = 6
  Intervals = {3}
  DefaultSize = 2
  Lengths = {1, 2, 4, 5}
  ClockIsSet = TRUE
  Folders <- SomeFolders
  Entries <- SomeEntries
  EntrySize = 6
  Askers = {a1, a2}
  CpuInfo <- SomeCpuInfo
  MemInfo <- SomeMemInfo
  Kilo = 4
  Mega = 16
INVARIANTS
  OneOpen
  LastFileSynced
  InDirectory
  InsideArray
  LinesDelivered
  HistogramExact
  AsReference
  NothingLeft
  LinesExact
  TimesAsDocumented
  EntriesVisited
PROPERTIES
  ImplementsLogFile
CHECK_DEADLOCK FALSE
