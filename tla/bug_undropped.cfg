SPECIFICATION Spec
CONSTANTS
  v1 = v1
  v2 = v2
  v3 = v3
  msg = msg
  d1 = d1
  d2 = d2
  field = field
  NoKey = NoKey
  None = None
  Entry <- MCEntry
  DropList = {d1, d2}
  Key = {field}
  KeyOf <- MCKeyOf
  Version <- MCVersion
  Targets <- MCTargets
  Deleted = {v3}
  Unknown = {}
  Faults = FALSE
INVARIANT DroppedIsRemoved
CHECK_DEADLOCK FALSE
