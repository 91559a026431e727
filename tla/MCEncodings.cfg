SPECIFICATION Spec
CONSTANTS
    Byte = 5
    INDEX_SIZE = 2
    MESSAGE_ID_LENGTH = 2
    MESSAGE_BYTES_MIN = 2
    MESSAGE_BYTES_MAX = 4
    Scripts <- MCScripts
    StoredMilestones <- MCStoredMilestones
    StoredMessages <- MCStoredMessages
    MaxPiece = 5
    None = None
    Builds <- MCBuilds
    IOTA_SUPPLY = 3
    DUST_THRESHOLD = 2
    INPUT_OUTPUT_COUNT_MAX = 3
    PARENTS_MAX = 2
    INDEX_LENGTH_MAX = 2
    MESSAGE_LENGTH_MAX = 37
    KeyRanges <- MCKeyRanges
    min_threshold = 2
    Faulty = {1}
    Fields = {0, 1, 2, 3}
    MaxEdits = 2
    Encodings = {1, 2, 3, 4, 5}
    MaxLen = 6
    LEN = 3
    WIDTH = 3
    BYTE = 1
    TRITS = 6
    Operands = {1, 7, 8, 63, 64, 121, 243, 255, 256, 511}
INVARIANTS
    PacketsAsSent
    MessagesSound
    TritsSound
    NumbersSound
CHECK_DEADLOCK FALSE
