SPECIFICATION Spec
CONSTANTS
  Names <- MCNames
  Endpoints <- MCNames
  EdgeKeys = {}
  Files <- MCFiles
  Sources <- MCSources
  Like <- MCLike
  Contents = {"c"}
  Embeddings <- MCEmbeddings
  ValidEmbeddings <- MCEmbeddings
  MetaKeys <- MCKeys
  MetaValues <- MCEmbeddings
  Procs = {p1}
  RowOf <- MCRowOf
  None = None
  Legacy = FALSE
  MayDie = FALSE
  MaxRuns = 3
  MaxChanges = 2
INVARIANTS AutoNeverMixes
CHECK_DEADLOCK FALSE
