SPECIFICATION FairSpec
CONSTANTS
  c1 = c1  c2 = c2  c3 = c3  c4 = c4
  p1 = p1  f1 = f1
  None = None  NoOwner = NoOwner
  Owner = owner
  Signer = {owner}
  Commit = {c1, c2, c3, c4}
  Parents <- MCParentsMerge
  Anc <- MCAncMerge
  FieldName = {"default_branch"}
  RefName = {"main"}
  SigOf <- MCSigOf
  MaxSeq = 4
  DeployedRule = FALSE
  Modes = {None}
  BundleTipSeq = 1
  Pusher = {p1}
  Fetcher = {f1}
  Clone <- MCCloneMerge
  OldHelpers = TRUE
  AllowForce = FALSE
  Unreliable = TRUE
INVARIANTS
  TypeOK
  NeverStuck
PROPERTIES
  FetchEnds
