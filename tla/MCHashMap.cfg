SPECIFICATION Spec
CONSTANTS
  k1 = k1
  k2 = k2
  k3 = k3
  k4 = k4
  v1 = v1
  v2 = v2
  Key = {k1, k2, k3, k4}
  Value = {v1, v2}
  Nothing = Nothing
  Hash <- MCHash
  InitialSize = 1
  InitialCounts = {0, 3}
INVARIANTS EntriesFound NoLeak LoadBounded MovedByLoop
PROPERTY ImplementsDictionary
