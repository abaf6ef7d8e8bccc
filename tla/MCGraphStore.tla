---------------------------- MODULE MCGraphStore ----------------------------
(* GraphStore on two entities of two sources, one call expression, two     *)
(* possible edges and one embedding of the wrong dimension.                *)
EXTENDS GraphStore

MCNames == {"a", "b"}
MCEndpoints == {"a", "b", "raw"}
MCEdgeKeys == {<<"a", "b", "calls">>, <<"a", "raw", "calls">>}
MCSources == {"f:1", "f:2"}
MCLike == {"f"} \X MCSources
=============================================================================
