CONSTANTS
  A = A
  B = B
  s1 = s1
  s2 = s2
  None = None
  Addresses = {A, B}
  OutputIds = {"g1", "x1", "z1", "y1", "y2", "f1"}
  Output <- MCOutput
  DustThreshold = 2
  DustDivisor = 2
  DustMax = 1
  Supply = 8
  History <- MCHistory
  Genesis = {"g1"}
  GenesisTreasury <- MCGenesisTreasury
  EntryPoints <- MCEntryPoints
  Files <- MCFiles
  Sources <- MCSources
  MaxStarts = 3
    MaxByte = 1
    TableSets <- MCTableSets
    Keys <- MCKeys
    Values = {v1}
    FetchLimit = 1
    MaxWrites = 3
    StoredVersions = {8}
    STORAGE_VERSION = 9
    NoVersion = NoVersion
    IdLength = 1
    WorkerIds = {"tangle", "solidifier", "propagator", "processor"}
    TangleWorker = "tangle"
    DependencyGraphs <- MCGraphs
    TangleUsers = {"solidifier", "propagator", "processor"}
    Detaching = {"propagator"}
    Listening = {"solidifier"}
    MaxEvents = 2
    MaxPolls = 2
    num_workers = 2
    U64 = 8
    BATCH_SIZE = 2
    HASH_LENGTH = 3
    Zeros <- MCZeros
    Calls <- MCCalls
    MaxCancels = 2
SPECIFICATION MCSpec
CHECK_DEADLOCK FALSE
INVARIANTS
    RunsOnImport
    ImportValid
    ReadsSound
    OrderlyShutdown
    NonceScores
PROPERTIES
    ImplementsStorageSpec
    ShutdownEnds
    CancelledCallReturns
