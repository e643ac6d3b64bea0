------------------------------- MODULE IrOpt -------------------------------
(***************************************************************************)
(* The optimizer, src/src/ir/ir_opt.c: constants are propagated and folded *)
(* in one walk over the instructions, in the order of the list, then       *)
(* instructions whose result nothing reads are removed until none is left. *)
(* Afterwards the source and the optimized function run side by side.      *)
(*                                                                         *)
(* An instruction keeps its position: a removed one becomes a NOP.  Numbers *)
(* have the width of their type, and so has the machine; the optimizer     *)
(* computes in 64 bits.  The bitwise AND, OR and XOR are left out, and all *)
(* operations that are not folded are one: they, loads and calls produce   *)
(* any number, the same in both runs as long as they read the same.        *)
(***************************************************************************)
EXTENDS IrCode, FiniteSets

CONSTANTS
  Imm,      \* IR_VAL_IMM
  Half,     \* type -> half the number of its values
  Pow2,     \* k -> 2^k
  Sources,  \* the functions to compile
  Inputs    \* what loads, calls and other operations produce

Type == {"i32", "i64"}
Bits == [t \in Type |-> IF t = "i32" THEN 32 ELSE 64]
Arithmetic == {"add", "sub", "mul", "div", "mod", "lea"}
Shift == {"shl", "shr", "lsr"}
Comparison == {"eq", "ne", "lt", "le", "ult", "ule"}
Foldable == Arithmetic \cup Shift \cup Comparison

(* has_side_effect                                                          *)
SideEffect ==
  {"store", "memcpy", "call", "br", "br_cond", "ret", "continuation_suspend",
   "label", "param_bind", "alloca", "load_tls_sym", "vla_alloc",
   "stack_restore", "atomic", "volatile_load"}
OpCode == Foldable \cup SideEffect \cup {"load_imm", "load", "other", "nop"}

(* The operands of an instruction; "arg" stands for all the arguments.      *)
Slot == {"src1", "src2", "src3", "arg", "result_storage", "callee"}
Operand == [id : VReg \cup {NoVReg, Imm}, imm : Int]
NoOperand == [id |-> NoVReg, imm |-> 0]
Immediate(x) == [id |-> Imm, imm |-> x]

(* type is that of the operands; a comparison yields an i32.                *)
Inst ==
  [op : OpCode, type : Type, dst : VReg \cup {NoVReg},
   operand : [Slot -> Operand], targets : SUBSET Position]

ASSUME WidthAssumption ==
  /\ Half \in [Type -> Nat \ {0}] /\ Pow2 \in [0 .. 63 -> Nat \ {0}]
  /\ Inputs \subseteq Int /\ Length \in Nat
  /\ NoVReg \notin VReg /\ Imm \notin VReg \cup {NoVReg}

(* Single assignment; a LOAD_IMM has an immediate, a NOP nothing, and what  *)
(* has no side effect reads no more than src1 and src2.                     *)
ASSUME SourceAssumption ==
  /\ Sources \subseteq [Position -> Inst]
  /\ \A f \in Sources : \A i, j \in Position :
       /\ f[i].dst = f[j].dst /\ f[i].dst # NoVReg => i = j
       /\ f[i].op = "load_imm" => f[i].operand["src1"].id = Imm
       /\ f[i].op = "nop" => f[i].dst = NoVReg
       /\ f[i].op \notin SideEffect =>
            /\ f[i].targets = {}
            /\ \A s \in Slot \ {"src1", "src2"} : f[i].operand[s] = NoOperand

VARIABLES
  source,      \* the function as it was lowered
  ir,          \* the function as it is now
  opt_pass,    \* "fold", "count", "remove" or "done"
  at,          \* the instruction the pass, or the run, is at
  is_const,    \* VReg -> BOOLEAN
  value,       \* VReg -> the constant
  use_cnt,     \* VReg -> Nat
  removed,     \* this walk has removed an instruction
  assigned,    \* what the run of the source has assigned,
  source_env,  \* and to what
  written,     \* the same for the optimized function
  env,
  exact        \* ghost: so far the source has stayed within the signed types

const_map == <<is_const, value>>
uses == <<use_cnt, removed>>
run == <<assigned, source_env, written, env, exact>>
opt == <<source, ir, opt_pass, at, const_map, uses, run>>

OptInit ==
  /\ source \in Sources /\ ir = source
  /\ opt_pass = "fold" /\ at = 1
  /\ is_const = [v \in VReg |-> FALSE] /\ value = [v \in VReg |-> 0]
  /\ use_cnt = [v \in VReg |-> 0] /\ removed = FALSE
  /\ assigned = {} /\ source_env = [v \in VReg |-> 0]
  /\ written = {} /\ env = [v \in VReg |-> 0] /\ exact = TRUE

-----------------------------------------------------------------------------
(* Numbers.  A number out of its range loses its upper bits.                *)
InRange(t, x) == -Half[t] <= x /\ x < Half[t]
Narrow(t, x) ==
  IF InRange(t, x) THEN x ELSE ((x + Half[t]) % (2 * Half[t])) - Half[t]
Unsigned(t, x) == IF x >= 0 /\ x < 2 * Half[t] THEN x ELSE x % (2 * Half[t])
Truth(b) == IF b THEN 1 ELSE 0
Quotient(a, b) ==
  LET q == (IF a < 0 THEN -a ELSE a) \div (IF b < 0 THEN -b ELSE b)
  IN  IF (a < 0) = (b < 0) THEN q ELSE -q
ShiftBy(t, b) == Pow2[Unsigned(t, b) % Bits[t]]
Below(a, b) == IF (a < 0) = (b < 0) THEN a < b ELSE b < 0  \* as unsigned numbers

(* The value of an operation on numbers without bound; of a shift in the    *)
(* width of t.                                                              *)
Compute(op, t, a, b) ==
  CASE op \in {"add", "lea"} -> a + b
    [] op = "sub" -> a - b
    [] op = "mul" -> a * b
    [] op = "div" -> Quotient(a, b)
    [] op = "mod" -> a - b * Quotient(a, b)
    [] op = "shl" -> Narrow(t, Unsigned(t, a) * ShiftBy(t, b))
    [] op = "shr" -> Narrow(t, a) \div ShiftBy(t, b)
    [] op = "lsr" -> Unsigned(t, a) \div ShiftBy(t, b)
    [] op = "eq"  -> Truth(a = b)
    [] op = "ne"  -> Truth(a # b)
    [] op = "lt"  -> Truth(a < b)
    [] op = "le"  -> Truth(a <= b)
    [] op = "ult" -> Truth(Below(a, b))
    [] op = "ule" -> Truth(~Below(b, a))

(* eval_binop: in 64 bits, whatever the type.  It refuses a division by 0.  *)
MayFold(op, b) == op \in {"div", "mod"} => b # 0
EvalBinop(op, t, a, b) == Narrow("i64", Compute(op, t, a, b))

(* The machine: in the width of the operands.                               *)
ResultType(op, t) == IF op \in Comparison THEN "i32" ELSE t
Machine(op, t, a, b) ==
  IF MayFold(op, Narrow(t, b))
    THEN Narrow(ResultType(op, t), Compute(op, t, Narrow(t, a), Narrow(t, b)))
    ELSE 0

-----------------------------------------------------------------------------
(* const_fold_func, one instruction.                                        *)
Substituted == {"src1", "src2", "arg", "result_storage"}
Substitute(inst) ==
  [inst EXCEPT !.operand = [s \in Slot |->
     IF s \in Substituted /\ @[s].id \in VReg /\ is_const[@[s].id]
       THEN Immediate(value[@[s].id]) ELSE @[s]]]

IsImm(inst, s) == inst.operand[s].id = Imm
FoldsBinary(inst) ==
  /\ inst.op \in Foldable /\ inst.dst \in VReg
  /\ IsImm(inst, "src1") /\ IsImm(inst, "src2")
  /\ MayFold(inst.op, inst.operand["src2"].imm)
Folded(inst) ==
  EvalBinop(inst.op, ResultType(inst.op, inst.type), inst.operand["src1"].imm,
            inst.operand["src2"].imm)
LoadImm(inst, x) ==
  [inst EXCEPT !.op = "load_imm", !.type = ResultType(inst.op, inst.type),
               !.operand = [@ EXCEPT !["src1"] = Immediate(x), !["src2"] = NoOperand]]

Remember(v, known, x) ==
  IF v \in VReg
    THEN /\ is_const' = [is_const EXCEPT ![v] = known]
         /\ value' = IF known THEN [value EXCEPT ![v] = x] ELSE value
    ELSE UNCHANGED const_map

NextInst(then) ==
  IF at < Length THEN at' = at + 1 /\ UNCHANGED opt_pass ELSE at' = 1 /\ opt_pass' = then

FoldInst ==
  /\ opt_pass = "fold" /\ at <= Length
  /\ LET inst == Substitute(ir[at])
         binary == FoldsBinary(inst)
         known == binary \/ inst.op = "load_imm"
         x == IF binary THEN Folded(inst) ELSE inst.operand["src1"].imm
     IN  /\ ir' = [ir EXCEPT ![at] = IF binary THEN LoadImm(inst, x) ELSE inst]
         /\ Remember(inst.dst, known, x)
  /\ NextInst("count")
  /\ UNCHANGED <<source, uses, run>>

-----------------------------------------------------------------------------
(* dce_pass_func: the uses are counted, then one walk removes what has none. *)
(* A removed instruction gives up the uses of src1 and src2; the next walk   *)
(* begins if this one has removed anything.                                  *)
UsesOf_NoCallee(v) ==                    \* mutant: an indirect callee is no use
  {u \in Position \X (Slot \ {"callee"}) : ir[u[1]].operand[u[2]].id = v}
UsesOf(v) == {u \in Position \X Slot : ir[u[1]].operand[u[2]].id = v}
CountUses ==
  /\ opt_pass = "count"
  /\ use_cnt' = [v \in VReg |-> Cardinality(UsesOf(v))]
  /\ removed' = FALSE
  /\ opt_pass' = "remove"
  /\ UNCHANGED <<source, ir, at, const_map, run>>

Nop(inst) ==
  [inst EXCEPT !.op = "nop", !.dst = NoVReg,
     !.operand = [@ EXCEPT !["src1"] = NoOperand, !["src2"] = NoOperand,
                           !["arg"] = NoOperand]]
Dead(inst) ==
  /\ inst.op \notin SideEffect \cup {"nop"}
  /\ inst.dst \in VReg /\ use_cnt[inst.dst] = 0
Occurs(inst, s, v) == IF inst.operand[s].id = v THEN 1 ELSE 0
RemoveInst ==
  /\ opt_pass = "remove" /\ at <= Length
  /\ IF Dead(ir[at])
       THEN /\ use_cnt' = [v \in VReg |->
                 use_cnt[v] - Occurs(ir[at], "src1", v) - Occurs(ir[at], "src2", v)]
            /\ ir' = [ir EXCEPT ![at] = Nop(@)]
            /\ removed' = TRUE
       ELSE UNCHANGED <<ir, uses>>
  /\ NextInst(IF removed' THEN "count" ELSE "done")
  /\ UNCHANGED <<source, const_map, run>>

-----------------------------------------------------------------------------
(* The run of one instruction of either function.                           *)
Read(inst, s, e) ==
  IF inst.operand[s].id \in VReg THEN Narrow(inst.type, e[inst.operand[s].id])
  ELSE IF IsImm(inst, s) THEN Narrow(inst.type, inst.operand[s].imm) ELSE 0
Reads(inst, e) == [s \in Slot |-> Read(inst, s, e)]
UsedBy(inst) == {inst.operand[s].id : s \in Slot} \cap VReg
Result(inst, e, x) ==
  IF inst.op = "load_imm" THEN Read(inst, "src1", e)
  ELSE IF inst.op \in Foldable
    THEN Machine(inst.op, inst.type, Read(inst, "src1", e), Read(inst, "src2", e))
  ELSE x
Assign(inst, e, x) ==
  IF inst.dst \in VReg THEN [e EXCEPT ![inst.dst] = Result(inst, e, x)] ELSE e
Defines(inst) == {inst.dst} \cap VReg

(* What C defines of signed arithmetic, and what 64 bits cannot get wrong:  *)
(* operands and result are in the range of their types, no divisor is 0.    *)
Fits(inst, e) ==
  /\ \A s \in Slot : inst.operand[s].id = Imm => InRange(inst.type, inst.operand[s].imm)
  /\ \A s \in Slot : inst.operand[s].id \in VReg => InRange(inst.type, e[inst.operand[s].id])
  /\ inst.op \in Foldable =>
       LET a == Read(inst, "src1", e)
           b == Read(inst, "src2", e)
       IN  /\ MayFold(inst.op, b)
           /\ InRange(ResultType(inst.op, inst.type), Compute(inst.op, inst.type, a, b))
           /\ InRange("i64", Compute(inst.op, inst.type, a, b))

Run ==
  /\ opt_pass = "done" /\ at <= Length
  /\ UsedBy(source[at]) \subseteq assigned
  /\ exact' = (exact /\ Fits(source[at], source_env))
  /\ \E x \in Inputs :
       /\ source_env' = Assign(source[at], source_env, x)
       /\ env' = Assign(ir[at], env, x)
  /\ assigned' = assigned \cup Defines(source[at])
  /\ written' = written \cup Defines(ir[at])
  /\ at' \in IF source[at].targets = {} THEN {at + 1} ELSE source[at].targets
  /\ UNCHANGED <<source, ir, opt_pass, const_map, uses>>

OptNext == FoldInst \/ CountUses \/ RemoveInst \/ Run
OptSpec == OptInit /\ [][OptNext]_opt

-----------------------------------------------------------------------------
(* Whatever was folded and removed, and whichever way the program goes: as  *)
(* long as the source has computed within its signed types, an instruction  *)
(* that is still there reads what it reads in the source, from registers    *)
(* that have been written, and everything with a side effect is there.      *)
SameEffects ==
  opt_pass = "done" /\ at <= Length /\ exact /\ UsedBy(source[at]) \subseteq assigned =>
      /\ source[at].op \in SideEffect => ir[at].op = source[at].op
      /\ UsedBy(ir[at]) \subseteq written
      /\ ir[at].op = source[at].op => Reads(ir[at], env) = Reads(source[at], source_env)
=============================================================================
