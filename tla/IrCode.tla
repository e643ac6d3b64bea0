------------------------------- MODULE IrCode -------------------------------
(* The functions of the intermediate representation, src/src/ir/ir.h: the   *)
(* sequence of a function's instructions in the order in which its blocks   *)
(* stand in their list, and its virtual registers.                          *)
EXTENDS Integers

CONSTANTS
  Length,    \* the number of instructions
  VReg,      \* virtual registers
  NoVReg     \* IR_VAL_NONE

Position == 1 .. Length
=============================================================================
