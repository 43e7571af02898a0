-------------------------- MODULE MCSessionManager --------------------------
(***************************************************************************)
(* Two requests at a time; they are interchangeable.                       *)
(***************************************************************************)
EXTENDS SessionManager, TLC

CONSTANTS h1, h2

MCHandlers == {h1, h2}
Interchangeable == Permutations(MCHandlers)
=============================================================================
