SPECIFICATION FairSpec
CONSTANTS
  x = x  y = y  k1 = k1  k2 = k2
  None = None  Garbage = Garbage
  Block = {x, y}
  Pack <- MCPack
  Client = {k1, k2}
  Publisher = {k1}
  Caching = {k1}
  Rebuilt <- MCRebuilt
  Parallel = 2
  MaxEvictions = 1
  MaxFaults = 1
INVARIANTS
  TypeOK
  IndexRetrievable
  FetchedIsPublished
PROPERTIES
  ImplementsShelf
  RescueRestores
