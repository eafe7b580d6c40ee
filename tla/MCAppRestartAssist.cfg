SPECIFICATION Spec
CONSTANTS
  Key = {k1, k2}
  Field = {neigh}
  Value = {v0, v1}
  NoValue = NoValue
  Entry <- NeighEntry
  Client = "neighsyncd"
  MaxRestarts = 2
  MaxChanges = 3
INVARIANTS ConvergedUnlessReadded Hitless
CHECK_DEADLOCK FALSE
