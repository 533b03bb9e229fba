SPECIFICATION Spec
CONSTANTS
  l1 = l1
  l2 = l2
  N = 2
  Parts = 2
  Loops <- TwoLoops
  Modes <- AsyncTwo
  MaxRejects = 0
CHECK_DEADLOCK FALSE
SYMMETRY Alike
INVARIANTS TypeOK CompleteMeansAllParts AbortNamesFailedPart ValidatingIsReady SubmittedOnce CallbackOnce SuccessIsReal
