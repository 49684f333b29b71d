---------------------------- MODULE MCFileBlock ----------------------------
(* FileBlock with its bounds given in the .cfg files. *)
EXTENDS FileBlock
=============================================================================
