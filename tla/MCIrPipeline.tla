--------------------------- MODULE MCIrPipeline ---------------------------
(* The instance of IrPipeline that TLC checks: every function of five       *)
(* instructions that begins with a constant or a load, in which an          *)
(* instruction defines at most the virtual register of its own position,    *)
(* uses are calls, and a branch goes back, or to any position but the last; *)
(* the last instruction defines nothing.                                    *)
(* An i32 has 3 bits and an i64 has 5; what is not computed is -4.          *)
EXTENDS IrPipeline, TLC

VRegs == 1 .. Length
Halves == [t \in Type |-> IF t = "i32" THEN 4 ELSE 16]
Powers == [k \in 0 .. 63 |-> 2 ^ (k % 4)]
Lowest == {-4}

Reg(v) == [id |-> v, imm |-> 0]
Shape(op, dst, operands, targets) ==
  [op |-> op, type |-> "i32", dst |-> dst,
   operand |-> operands @@ [s \in Slot |-> NoOperand], targets |-> targets]

First ==
  {Shape("load_imm", 1, "src1" :> Immediate(1), {}), Shape("volatile_load", 1, << >>, {})}
Definitions(i) ==
  {Shape("load_imm", i, "src1" :> Immediate(1), {}),
   Shape("volatile_load", i, << >>, {}),
   Shape("lt", i, "src1" :> Reg(i - 1) @@ "src2" :> Reg(1), {})}
  \cup {Shape("add", i, "src1" :> Reg(v) @@ "src2" :> Reg(1), {}) : v \in 1 .. i - 1}
UsesAt(i) ==
  {Shape("call", NoVReg, "arg" :> Reg(v), {}) : v \in VRegs \ {i}}
  \cup {Shape("call", NoVReg, "callee" :> Reg(1), {})}
Branches(i) ==
  {Shape("br_cond", NoVReg, "src1" :> Reg(1), {i + 1, t} \cap Position) : t \in 1 .. i}
  \cup {Shape("br", NoVReg, << >>, {t}) : t \in 1 .. Length - 1}
At(i) == Definitions(i) \cup UsesAt(i) \cup Branches(i)
Last == UsesAt(5) \cup Branches(5)
Functions ==
  {f \in First \X At(2) \X At(3) \X At(4) \X Last :
     \A i \in Position : \A v \in UsedBy(f[i]) : f[v].dst = v}
SeenFunctions == {Seen(f) : f \in Functions}
=============================================================================
