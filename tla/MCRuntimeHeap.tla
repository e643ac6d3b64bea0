--------------------------- MODULE MCRuntimeHeap ----------------------------
(***************************************************************************)
(* An instance of RuntimeHeap for TLC.                                     *)
(***************************************************************************)
EXTENDS RuntimeHeap, TLC

SwapHandles == Permutations(Handle)
=============================================================================
