--------------------------- MODULE MCContinuation ---------------------------
(***************************************************************************)
(* Instances of Continuation for TLC.                                      *)
(***************************************************************************)
EXTENDS Continuation

Commands == {-1, 0, 1}
=============================================================================
