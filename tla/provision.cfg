SPECIFICATION Spec
CONSTANTS
  Refs = {r1, r2}
  Shas = {s1, s2}
  Backends = {"codeindex", "codegraph"}
  Dbs <- MCDbs
  Procs = {p1}
  DbOf <- MCDbOf
  FallbackDb <- MCFallbackDb
  Into <- MCInto
  None = None
  MayCrash = TRUE
  UserMayIndex = TRUE
  MaxCalls = 2
  MaxMoves = 1
  MaxUser = 1
INVARIANTS DiffsItsRefs SidesApart
PROPERTIES UserIndexKept ImplementsCache
SYMMETRY MCSymmetry
CHECK_DEADLOCK FALSE
