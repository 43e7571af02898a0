------------------------------ MODULE MCDcpV2 ------------------------------
(***************************************************************************)
(* Constants of the DCP v2 runs: the requests are interchangeable.         *)
(***************************************************************************)
EXTENDS DcpV2, TLC

CONSTANTS h1, h2

MCHandlers == {h1, h2}
Interchangeable == Permutations(MCHandlers)
=============================================================================
