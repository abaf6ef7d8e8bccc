-------------------------- MODULE MCEmbeddingSpace --------------------------
(***************************************************************************)
(* Two symbols of two files, two providers.                                *)
(***************************************************************************)
EXTENDS EmbeddingSpace, TLC

MCNames == {"a", "b"}
MCFiles == {"a.py", "b.py"}
MCSources == {"a.py:1", "b.py:1"}
MCLike == {<<"a.py", "a.py:1">>, <<"b.py", "b.py:1">>}
MCRowOf == [n \in MCNames |-> [source |-> IF n = "a" THEN "a.py:1" ELSE "b.py:1", content |-> "c"]]
MCEmbeddings == {"ollama", "builtin"}
MCKeys == {"embedding_provider"}
MCSymmetry == Permutations(Procs)
=============================================================================
