SPECIFICATION FairSpec
CONSTANTS
  c1 = c1  c2 = c2  c3 = c3
  n1 = n1  n2 = n2  h1 = h1  h2 = h2
  None = None  NoOwner = NoOwner
  Owner = owner
  Signer = {owner}
  Commit = {c1, c2, c3}
  Parents <- MCParents
  Anc <- MCAnc
  FieldName = {"default_branch"}
  RefName = {"main"}
  SigOf <- MCSigOf
  MaxSeq = 2
  DeployedRule = FALSE
  Node = {n1, n2}
  Origin = n1
  Helper = {h1, h2}
  Home <- MCHomeSplit
  Clone <- MCCloneSplit
  Modes = {None}
  BundleTipSeq = 1
  Impatient = {h2}
  MaxInFlight = 1
INVARIANTS
  HistoryCovered
PROPERTIES
  ImplementsGrowing
  SummariesConverge
  EventuallyServable
