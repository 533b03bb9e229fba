SPECIFICATION Spec
CONSTANTS
  l1 = l1
  l2 = l2
  l3 = l3
  s1 = s1
  s2 = s2
  s3 = s3
  Layers <- AllLayers
  Peers <- AllPeers
  SeenAs <- IPv4
  CacheSize = 2
  MaxSessions = 3
SYMMETRY Symmetry
CHECK_DEADLOCK FALSE
INVARIANTS OfferedToItsPeer RefsAreExact
