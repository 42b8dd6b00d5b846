\* One epoch after another, every pass with findings; the check a force relies on.
CONSTANTS
  Sessions = {l1, l2}
  Terminals = {t1}
  Keys = {k1}
  Prs = {p1, p2}
  Derived <- MCDerived
  NoKey = NoKey
  NoPr = NoPr
  MaxOps = 3
  MaxHeads = 2
  h1 = h1
  h2 = h2
  h3 = h3
  BranchHeads <- MCBranchHeads
  ChangeOf <- MCChangeOf
  Recorders = {c1}
  MaxRan = 5
  MaxGrants = 2
  None = None
  s1 = s1
  s2 = s2
  e1 = e1
  e2 = e2
  r1 = r1
  Scribes = {s1, s2}
  Enders = {e1, e2}
  Retirers = {r1}
  MaxLines = 2
SPECIFICATION FindingsSpec
CHECK_DEADLOCK FALSE
INVARIANT PatchReadSincePass2
