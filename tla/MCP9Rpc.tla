------------------------------ MODULE MCP9Rpc ------------------------------
(* Instances of P9Rpc for TLC.                                              *)
EXTENDS P9Rpc, TLC

ThreadSymmetry == Permutations(Thread)
=============================================================================
