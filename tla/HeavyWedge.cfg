\* A step that needs the memory its own command holds, when that command's wrapper
\* was killed or its admission failed open.
CONSTANTS
  p = p
  s = s
  o = o
  Jobs = {p, s}
  Parent <- StepOfP
  Gb <- TwoForP
  Memory = 2
  Recent = 2
  Bound = 2
  Ramp = 1
  ReadGap = 1
  None = None
SPECIFICATION SteadySpec
CHECK_DEADLOCK FALSE
PROPERTY StepsOfACommandStart
