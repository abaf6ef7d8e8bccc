SPECIFICATION Spec
CONSTANTS
  Names <- MCNames
  Endpoints <- MCNames
  EdgeKeys = {}
  Files <- MCFiles
  Sources <- MCSources
  Like <- MCLike
  Contents = {"c"}
  Embeddings <- MCEmbeddings
  ValidEmbeddings <- MCEmbeddings
  MetaKeys <- MCKeys
  MetaValues <- MCEmbeddings
  Procs = {p1, p2}
  RowOf <- MCRowOf
  None = None
  Legacy = TRUE
  MayDie = TRUE
  MaxRuns = 3
  MaxChanges = 1
INVARIANTS OneSpace QueryInSpace
PROPERTIES Sticky
SYMMETRY MCSymmetry
CHECK_DEADLOCK FALSE
