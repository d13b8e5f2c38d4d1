---------------------------- MODULE MCOpenFiles ----------------------------
(***************************************************************************)
(* Instances of OpenFiles for TLC.                                         *)
(***************************************************************************)
EXTENDS OpenFiles
=============================================================================
