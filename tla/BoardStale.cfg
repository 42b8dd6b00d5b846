\* Two readers of a board that is edited twice.
CONSTANTS
  Readers = {x1, x2}
  MaxEdits = 2
  RowsTtl = 1
  Cooldown = 2
SPECIFICATION BoardSpec
INVARIANT ServedIsCurrent
CHECK_DEADLOCK FALSE
