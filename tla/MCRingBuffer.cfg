SPECIFICATION FairSpec
CONSTANTS
  Producers = {p1}
  Consumers = {c1, c2}
  Values = {v1, v2}
  None = None
  Size = 2
  MaxBatch = 3
  MaxInserted = 3
  Batches <- MCBatches
INVARIANT NoSlotRace
PROPERTIES ImplementsQueue AcceptedIsConsumed
