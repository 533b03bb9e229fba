SPECIFICATION Spec
CONSTANTS
  a = a
  b = b
  t1 = t1
  t2 = t2
  Instances <- Everyone
  Threads <- AllThreads
  AddressOf <- Shared
  Kinds = {"AWS", "Express", "GCP", "Azure", "HTTP"}
  Sizes = {1, 3}
  MultipartUploadSize = 2
  PartsModulus = 4
  MaxMessages = 2
  MaxResigned = 1
SYMMETRY Symmetry
CHECK_DEADLOCK FALSE
INVARIANT SignedWithOwnKeys
