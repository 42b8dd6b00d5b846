CONSTANTS
  Sessions = {s1, s2}
  Terminals = {t1}
  Keys = {k1}
  Prs = {p1, p2}
  Derived <- MCDerived
  NoKey = NoKey
  NoPr = NoPr
  MaxOps = 3
  MaxHeads = 2
SPECIFICATION Spec
SYMMETRY Symmetry
INVARIANT ConsumedMeansMerged
CHECK_DEADLOCK FALSE
