\* Three jobs that reserve two units of memory each, where there are four; two readers of a
\* board; a poster and a belt.
CONSTANTS
  p = p
  s = s
  o = o
  Jobs = {p, s, o}
  Parent <- NoParents
  Gb <- TwoEach
  Memory = 4
  Recent = 2
  Bound = 3
  Ramp = 1
  ReadGap = 1
  None = None
  Readers = {x1, x2}
  MaxEdits = 2
  RowsTtl = 1
  Cooldown = 2
  Lanes = {l1}
  Posters = {q1}
  PerSecond = 2
  MaxAge = 3
  Recheck = 1
  MaxTime = 4
  MaxRecords = 2
  MaxFlips = 1
  Nil = Nil
SPECIFICATION MachineSpec
SYMMETRY Symmetry
VIEW MachineView
CHECK_DEADLOCK FALSE
INVARIANTS MachineTypesOK NoOvercommit SomeoneIsNext FirstComeFirstServed
INVARIANTS OverdueOneAtATime RowsAsStamped FreshPostKept
