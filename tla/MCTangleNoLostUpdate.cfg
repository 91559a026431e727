CONSTANTS
  parent = parent
  child = child
  Messages = {parent, child}
  Parents <- MCParents
  Updates = {solid}
  Tasks = {t1, t2}
  MaxLen = 1
  LowLen = 0
  MaxCalls = 3
  Ops = {"insert", "get", "update", "contains", "children"}
  None = None
SPECIFICATION Spec
SYMMETRY TaskSymmetry
INVARIANT NoLostUpdate
