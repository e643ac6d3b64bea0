-------------------------- MODULE MCTokenAllocator --------------------------
(* The instance of TokenAllocator that TLC checks.                          *)
EXTENDS TokenAllocator, TLC

(* malloc may return any address that is free.                              *)
AnyFree(used) == Addr \ used

AddrSymmetry == Permutations(Addr)

(* Two small allocations share a chunk; a large one exceeds the capacity of *)
(* a recyclable chunk and the hint of a persistent one.                     *)
SmallAndLarge == {1, 3}
OneFile == {2}
=============================================================================
