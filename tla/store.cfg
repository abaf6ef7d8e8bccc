SPECIFICATION StoreSpec
CONSTANTS
  Names <- MCNames
  Endpoints <- MCEndpoints
  EdgeKeys <- MCEdgeKeys
  Files = {"f"}
  Sources <- MCSources
  Like <- MCLike
  Contents = {"c"}
  Embeddings = {"e1", "e2", "short"}
  ValidEmbeddings = {"e1", "e2"}
  MetaKeys = {"resolved_ratio"}
  MetaValues = {"m"}
INVARIANTS OneVectorPerName OrphanIffNoDegree
PROPERTIES NoNewOrphanVectors
