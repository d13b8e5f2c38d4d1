---------------------------- MODULE MCFileData -----------------------------
(***************************************************************************)
(* Instances of FileData for TLC.                                          *)
(***************************************************************************)
EXTENDS FileData
=============================================================================
