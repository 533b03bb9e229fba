SPECIFICATION FairSpec
CONSTANTS
  l1 = l1
  l2 = l2
  N = 2
  Parts = 2
  Loops <- TwoLoops
  Modes <- SyncTwo
  MaxRejects = 1
CHECK_DEADLOCK FALSE
INVARIANTS CompleteMeansAllParts AbortNamesFailedPart ReadyUndisturbed CallbackOnce SuccessIsReal
PROPERTIES ImplementsUpload UploadsEnd
