SPECIFICATION Spec
CONSTANTS
  Calls = {a, b}
  Operations = {"setter", "single", "save", "update", "addTo", "removeFrom", "delete", "create", "change", "remove"}
  Values = {v, w}
  Initial = v
  Before = 1
  MaxRestarts = 1
INVARIANTS TypeOK ValueKept
PROPERTY WrittenAlone
CHECK_DEADLOCK FALSE
SYMMETRY Alike
