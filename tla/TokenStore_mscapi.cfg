SPECIFICATION Spec
CONSTANTS
  Sessions = {s1, s2}
  Objects = {o1, o2, o3}
  Pairs = {p1, p2}
  Containers = {c1, c2}
  Contexts = {x1, x2}
  None = None
  Memory = Memory
  Extractable = {p1}
  Faults = {"add", "link", "read", "find"}
SYMMETRY Symmetry
INVARIANTS
  TypeOK
  LinksNameOwnKey
  ExportOnlyIfExtractable
  TokensBacked
PROPERTIES
  LossesAreOwn
  SessionObjectsStayOut
  StoredWithObject
CHECK_DEADLOCK FALSE
