CONSTANTS
  a = a
  m1 = m1
  m2 = m2
  sep = sep
  p1 = p1
  p2 = p2
  Nothing = Nothing
  Messages = {a, m1}
  SolidEntryPoints = {sep}
  Parents <- MCParents
  Milestones = {a, m1}
  Index <- MCIndex
  StartIndex = 3
  SyncCount = 1
  Processors = {p1, p2}
  MaxRequests = 1
SPECIFICATION FairSpec
PROPERTIES AllSolidified RequestsCleared
CHECK_DEADLOCK FALSE
