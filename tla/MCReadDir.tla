----------------------------- MODULE MCReadDir ------------------------------
(***************************************************************************)
(* Instances of ReadDir for TLC.                                           *)
(***************************************************************************)
EXTENDS ReadDir

(* The second entry has a long name.                                       *)
Lengths == [e \in 0 .. Entries - 1 |-> IF e = 1 THEN 2 ELSE 1]

AnyFirst == -1 .. Entries + 1
AnyCount == -2 .. 2
=============================================================================
