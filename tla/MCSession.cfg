SPECIFICATION FairSpec
CONSTANTS
  u = u  v = v  pack = pack
  None = None
  Current = 3
  PackKey = {pack}
  Write = {u, v}
  Foreign = {v}
  Published = {v}
  PackOf <- MCPackOf
  BareOk = FALSE
  ProbeAttempts = 2
  PutAttempts = 2
  MaxPending = 2
  MaxInbox = 2
INVARIANTS
  TypeOK
  AdoptsNewest
  NoStateMeansNone
  PackBeforeUpdate
PROPERTIES
  TrueAck
  
  SessionEnds
