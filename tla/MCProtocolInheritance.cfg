SPECIFICATION Spec
CONSTANTS
    Incoming = {"good", "weak", "foreign"}
    Kind <- MCKind
    Neighbours = {n1, n2}
    Workers = {w1, w2}
    message_worker_cache = 1
    MaxEvents = 3
    Nobody = Nobody
    Messages = {"a", "b", "c", "m1", "m2"}
    SolidEntryPoints = {"s"}
    Approves <- MCApproves
    MilestoneIndexOf <- MCMilestoneIndexOf
    StartIndex = 2
    YMRSI_DELTA = 0
    OMRSI_DELTA = 1
    below_max_depth = 2
    SAFETY_THRESHOLD = 0
    MAX_LIMIT_NON_LAZY = 2
    MAX_NUM_CHILDREN = 1
    U32 = 256
    None = None
    MessageIds = {"a", "b", "c", "d"}
    Genesis = Genesis
    Absent = Absent
    Dags <- MCDags
    Requested = {"a", "b"}
    MaxIndex = 4
    MaxAhead = 1
    MaxArriving = 1
    PruningDelay = 2
    MitigationThreshold = 2
    PRUNING_BATCH_SIZE_MAX = 1
    KEEP_INITIAL_SNAPSHOT_SEPS = 1
    MaxCrashes = 1
INVARIANT InheritsFromParents
CHECK_DEADLOCK FALSE
