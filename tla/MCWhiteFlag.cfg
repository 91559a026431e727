CONSTANTS
  a = a
  b = b
  c = c
  sep = sep
  m1 = m1
  m2 = m2
  A = A
  B = B
  None = None
  Addresses = {A, B}
  Messages = {a, b, c, sep, m1, m2}
  Milestones = {m1, m2}
  Index <- MCIndex
  Dags = {"fork", "late", "chain", "shared", "related"}
  Parents <- MCParents
  Transactions = {"split", "whole", "dust", "revoke", "forged", "burn", "echo", "move"}
  OutputIds = {"g1", "g2", "x1", "x2", "y1", "z1", "w1", "v1", "u1", "n1", "n2", "o1", "f1", "f2"}
  Output <- MCOutput
  Inputs <- MCInputs
  Unlocked <- MCUnlocked
  Creates <- MCCreates
  Receipts = {}
  SolidEntryPoints = {sep}
  Lost = {a}
  Genesis <- MCGenesis
  GenesisTreasury <- MCGenesisTreasury
  DustThreshold = 2
  DustDivisor = 2
  DustMax = 1
  Supply = 10
  MaxRestarts = 0
SPECIFICATION Spec
INVARIANTS TypeOK LedgerConsistent AppliedInReferenceOrder FlagsFollowLedger SpendsJustified
