SPECIFICATION Spec
CONSTANTS
  c1 = c1  c2 = c2  c3 = c3  s1 = s1
  None = None  NoOwner = NoOwner
  Owner = owner
  Signer = {owner}
  Commit = {c1, c2, c3}
  Parents <- MCParentsLine
  Anc <- MCAncLine
  FieldName = {}
  RefName = {"main", "tag"}
  Tag = {"tag"}
  SigOf <- MCSigOf
  MaxSeq = 3
  DeployedRule = FALSE
  Modes = {"history"}
  BundleTipSeq = 1
  Chunked = {}
  Chunk = {"1"}
  RescueClone = {{c1, c2, c3}}
  TipRank <- MCTipRank
  OldHelpers = FALSE
  MaxLosses = 0
INVARIANT OriginalPackRebuilt
