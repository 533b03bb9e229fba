SPECIFICATION Spec
CONSTANTS
  Producers = {p1, p2}
  Consumers = {c1}
  Values = {v1, v2}
  None = None
  Size = 2
  MaxBatch = 2
  MaxInserted = 3
  Batches <- MCBatches
INVARIANTS TypeOK CountersInOrder NoSlotRace
PROPERTY ImplementsQueue
SYMMETRY Sym
