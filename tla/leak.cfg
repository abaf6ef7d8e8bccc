SPECIFICATION Spec
CONSTANTS
  Refs = {r1, r2}
  Shas = {s1, s2}
  Backends = {"codeindex", "codegraph"}
  Dbs <- MCDbs
  Procs = {p1}
  DbOf <- MCDbOf
  FallbackDb <- MCFallbackDb
  Into <- MCInto
  None = None
  MayCrash = FALSE
  UserMayIndex = TRUE
  MaxCalls = 2
  MaxMoves = 0
  MaxUser = 1
INVARIANTS NoWorkingTreeInDiff
SYMMETRY MCSymmetry
CHECK_DEADLOCK FALSE
