------------------------- MODULE MCKeyspaceHistory -------------------------
(***************************************************************************)
(* The instances of MCKeyspace, with the history variable.                 *)
(***************************************************************************)
EXTENDS MCKeyspace, KeyspaceHistory
=============================================================================
