\* One attempt that leaves a new file, and the next attempt's archive of it.
CONSTANTS
  MaxAttempts = 2
  Legacy = {FALSE}
SPECIFICATION ArchiveSpec
CHECK_DEADLOCK FALSE
INVARIANT WorkKept
