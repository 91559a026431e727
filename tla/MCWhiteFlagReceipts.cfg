CONSTANTS
  a = a
  b = b
  c = c
  sep = sep
  m1 = m1
  m2 = m2
  A = A
  B = B
  None = None
  Addresses = {A, B}
  Messages = {a, b, c, sep, m1, m2}
  Milestones = {m1, m2}
  Index <- MCIndex
  Dags = {"chain"}
  Parents <- MCParents
  Transactions = {"split"}
  OutputIds = {"g1", "g2", "x1", "x2", "y1", "z1", "w1", "v1", "u1", "n1", "n2", "o1", "f1", "f2"}
  Output <- MCOutput
  Inputs <- MCInputs
  Unlocked <- MCUnlocked
  Creates <- MCCreates
  Receipts <- MCReceipts
  SolidEntryPoints = {sep}
  Lost = {m2}
  Genesis <- MCGenesis
  GenesisTreasury <- MCGenesisTreasury
  DustThreshold = 2
  DustDivisor = 2
  DustMax = 1
  Supply = 10
  MaxRestarts = 1
SPECIFICATION FairSpec
INVARIANTS LedgerConsistent ReceiptsInOrder
PROPERTY ConfirmationEnds
