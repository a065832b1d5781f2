SPECIFICATION Spec
CONSTANTS
  p1 = p1  p2 = p2  a = a  b = b  r1 = r1  r2 = r2
  None = None  Empty = Empty  Torn = Torn
  Process = {p1, p2}
  Identity = {a, b}
  Repo = {r1, r2}
  Passphrase = {"", "secret"}
  Unsealed = ""
  Inode = {1, 2, 3, 4, 5, 6}
  MaxOverlaps = 1
  MaxFaults = 1
CHECK_DEADLOCK FALSE
SYMMETRY Fresh
INVARIANTS
  TypeOK
  BundleIntact
  RegisteredPushable
  PublishedRegistered
PROPERTIES
  BundleGrows
