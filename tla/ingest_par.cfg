SPECIFICATION Spec
CONSTANTS
  Names <- MCNames
  Endpoints <- MCEndpoints
  EdgeKeys <- MCEdgeKeys
  Files <- MCFiles
  Sources <- MCSources
  Like <- MCLike
  Contents <- MCContents
  Embeddings <- MCContents
  ValidEmbeddings <- MCContents
  MetaKeys <- MCMetaKeys
  MetaValues <- MCMetaValues
  Writers = {w1, w2}
  Versions = {1, 2}
  NoFile = 0
  Trees <- MCTreesPar
  Config = "cfg"
  Ignored <- MCIgnored
  Owner <- MCOwner
  Decl <- MCDecl
  Refs <- MCRefs
  RawOf <- MCRawOf
  FileOf <- MCFileOf
  HashOf <- MCHashOf
  NoHash = "none"
  EmbeddingOf <- MCEmbeddingOf
  PathArgs = {}
  EmbedMayFail = FALSE
  MayAbort = FALSE
  MaxRuns = 2
  MaxEdits = 1
INVARIANTS VectorsOwned VectorMatchesRow RebuildExact
PROPERTIES StableSurvives
SYMMETRY MCSymmetry
CHECK_DEADLOCK FALSE
