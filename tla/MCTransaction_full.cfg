SPECIFICATION Spec
CONSTANTS
  l1 = l1
  l2 = l2
  N = 2
  Parts = 1
  Loops <- TwoLoops
  Modes <- AsyncTwo
  MaxRejects = 1
CHECK_DEADLOCK FALSE
INVARIANT ValidatingIsReady
