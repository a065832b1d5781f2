SPECIFICATION Spec
CONSTANTS
  c1 = c1  c2 = c2  c3 = c3
  n1 = n1  n2 = n2  h1 = h1  h2 = h2
  None = None  NoOwner = NoOwner
  Owner = owner
  Signer = {owner, stranger}
  Commit = {c1, c2, c3}
  Parents <- MCParents
  Anc <- MCAnc
  FieldName = {"default_branch"}
  RefName = {"main"}
  SigOf <- MCSigOf
  MaxSeq = 2
  DeployedRule = TRUE
  Node = {n1, n2}
  Origin = n1
  Helper = {h1}
  Home <- MCHomeOne
  Clone <- MCCloneOne
  Modes = {"snapshot"}
  BundleTipSeq = 1
  Impatient = {}
  MaxInFlight = 2
INVARIANTS
  TypeOK
  ReplicasValid
  TipsMatchRecords
PROPERTIES
  RefMovesRaiseSeq
  OkMeansMoved
