--------------------------- MODULE MCConflictService ---------------------------
(***************************************************************************)
(* Instances of ConflictService for TLC.                                   *)
(***************************************************************************)
EXTENDS ConflictService, MCOpProcessor
=============================================================================
