--------------------------- MODULE MCPolicyQueue ---------------------------
(***************************************************************************)
(* Constants of the policy queue runs: the tasks are interchangeable.      *)
(***************************************************************************)
EXTENDS PolicyQueue, TLC

CONSTANTS t1, t2

Interchangeable == Permutations({t1, t2})
=============================================================================
