\* A job, a step of its command and another job: every wait ends.
CONSTANTS
  p = p
  s = s
  o = o
  Jobs = {p, s, o}
  Parent <- StepOfP
  Gb <- OneEach
  Memory = 2
  Recent = 1
  Bound = 2
  Ramp = 1
  ReadGap = 0
  None = None
SPECIFICATION SteadySpec
CHECK_DEADLOCK FALSE
PROPERTY EveryWaitEnds
