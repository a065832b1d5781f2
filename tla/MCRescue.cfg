SPECIFICATION FairSpec
CONSTANTS
  c1 = c1  c2 = c2  c3 = c3  s1 = s1
  None = None  NoOwner = NoOwner
  Owner = owner
  Signer = {owner}
  Commit = {c1, c2, s1}
  Parents <- MCParents
  Anc <- MCAnc
  FieldName = {}
  RefName = {"main", "tag"}
  Tag = {"tag"}
  SigOf <- MCSigOf
  MaxSeq = 3
  DeployedRule = FALSE
  Modes = {"snapshot", "history", None}
  BundleTipSeq = 1
  Chunked <- MCChunked
  Chunk = {"1", "2"}
  RescueClone = {{}, {c1, c2}}
  TipRank <- MCTipRank
  OldHelpers = TRUE
  MaxLosses = 1
INVARIANTS
  TypeOK
  RescuedIsServable
  RestIsRescued
PROPERTIES
  RescueEnds
