---------------------------- MODULE MCFileHandle ----------------------------
(* Instances of FileHandle for TLC. *)
EXTENDS FileHandle, TLC

=============================================================================
