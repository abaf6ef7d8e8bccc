-------------------------- MODULE MCWorkspaceSync ---------------------------
(***************************************************************************)
(* Two source files, so that a commit of one file is small (MaxSync = 1,   *)
(* in front) and one of more is large (in the background).                 *)
(***************************************************************************)
EXTENDS WorkspaceSync
=============================================================================
