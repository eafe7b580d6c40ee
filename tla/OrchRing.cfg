SPECIFICATION FairRing
CONSTANTS
  Size = 3
  MaxPushed = 5
INVARIANTS Serialised Fifo
PROPERTIES NobodyWaitsForEver
