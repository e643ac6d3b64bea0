------------------------------ MODULE RegAlloc ------------------------------
(***************************************************************************)
(* The register allocation of the ARM64 back end, ir_regalloc_function in  *)
(* src/src/ir/ir_regalloc.c, and the use that the emitted code makes of    *)
(* it.                                                                     *)
(*                                                                         *)
(* A function is the sequence of its instructions in the order in which    *)
(* the blocks stand in its list, numbered from 1 (0 in the code); the      *)
(* order in which they run is another one.  Three passes walk over it: the *)
(* second finds where each virtual register is defined and last read, the  *)
(* third stretches what a loop touches to the end of the loop, the fourth  *)
(* hands out registers.  Then the emitted code runs: a virtual register    *)
(* without a register has a frame slot to itself, one with a register      *)
(* shares it.                                                              *)
(***************************************************************************)
EXTENDS IrCode

CONSTANTS
  NumRegs,   \* PHYS_REG_COUNT (10 in the code)
  Programs   \* the functions to compile

PhysReg == 1 .. NumRegs
Spill == 0  \* vreg_phys_reg of a virtual register that keeps its frame slot

(* The operations whose result goes to the frame: the call may clobber.     *)
Clobbering == {"call", "load_tls_sym", "vla_alloc"}
Op == Clobbering \cup {"branch", "other"}

Instruction ==
  [op : Op, dst : VReg \cup {NoVReg}, uses : SUBSET VReg, targets : SUBSET Position]

ASSUME SizeAssumption == Length \in Nat /\ NumRegs \in Nat /\ NoVReg \notin VReg

(* The IR is in single assignment form.                                     *)
ASSUME ProgramAssumption ==
  /\ Programs \subseteq [Position -> Instruction]
  /\ \A p \in Programs : \A i, j \in Position :
       p[i].dst = p[j].dst /\ p[i].dst # NoVReg => i = j

VARIABLES
  code,
  pass,           \* "number", "extend", "scan" or "run"
  n,              \* the instruction the pass, or the program, is at
  first_def,      \* VReg -> position, 0 if it has no definition
  last_use,       \* VReg -> position, 0 if it is never read
  reg_holder,     \* PhysReg -> the virtual register that had it last
  vreg_phys_reg,
  defined,        \* the virtual registers the run has assigned
  contents        \* PhysReg -> the virtual register whose value it holds

ranges == <<first_def, last_use>>
registers == <<reg_holder, vreg_phys_reg>>
machine == <<defined, contents>>
vars == <<code, pass, n, ranges, registers, machine>>

Start ==
  /\ pass = "number" /\ n = 1
  /\ first_def = [v \in VReg |-> 0] /\ last_use = [v \in VReg |-> 0]
  /\ reg_holder = [r \in PhysReg |-> NoVReg]
  /\ vreg_phys_reg = [v \in VReg |-> Spill]
  /\ defined = {} /\ contents = [r \in PhysReg |-> NoVReg]
Init == code \in Programs /\ Start

(* From one instruction to the next, and from one pass to the next.         *)
Advance(next) ==
  IF n < Length THEN n' = n + 1 /\ UNCHANGED pass ELSE n' = 1 /\ pass' = next

(* Pass 2.                                                                  *)
Number ==
  /\ pass = "number" /\ n <= Length
  /\ first_def' = [v \in VReg |->
                     IF v = code[n].dst /\ first_def[v] = 0 THEN n ELSE first_def[v]]
  /\ last_use' = [v \in VReg |-> IF v \in code[n].uses THEN n ELSE last_use[v]]
  /\ Advance("extend")
  /\ UNCHANGED <<code, registers, machine>>

(* Pass 3: the back edge from n to t makes what is defined or last read in  *)
(* between live up to the end of the loop.                                  *)
LoopEnd == n + 1
Touched_DefinedInside(v, t) ==  \* mutant: what the loop only reads is forgotten
  first_def[v] \in t .. n
Touched(v, t) == first_def[v] \in t .. n \/ last_use[v] \in t .. n
Extend ==
  /\ pass = "extend" /\ n <= Length
  /\ last_use' = [v \in VReg |->
       IF /\ first_def[v] # 0 /\ last_use[v] # 0 /\ last_use[v] <= n
          /\ \E t \in code[n].targets : t < n /\ Touched(v, t)
         THEN LoopEnd ELSE last_use[v]]
  /\ Advance("scan")
  /\ UNCHANGED <<code, first_def, registers, machine>>

(* Pass 4: try_alloc_reg takes the first register that is free or whose     *)
(* holder has been read for the last time.                                  *)
Free_AtLastUse ==  \* mutant: free at the very instruction that reads the holder
  {r \in PhysReg : reg_holder[r] = NoVReg \/ last_use[reg_holder[r]] <= n}
Free == {r \in PhysReg : reg_holder[r] = NoVReg \/ last_use[reg_holder[r]] < n}
Wants(v) ==
  v # NoVReg /\ last_use[v] # 0 /\ code[n].op \notin Clobbering

Allocate ==
  /\ pass = "scan" /\ n <= Length
  /\ Wants(code[n].dst)
  /\ \E r \in Free :
       /\ \A s \in Free : r <= s
       /\ reg_holder' = [reg_holder EXCEPT ![r] = code[n].dst]
       /\ vreg_phys_reg' = [vreg_phys_reg EXCEPT ![code[n].dst] = r]
  /\ Advance("run")
  /\ UNCHANGED <<code, ranges, machine>>

LeaveInFrame ==
  /\ pass = "scan" /\ n <= Length
  /\ Wants(code[n].dst) => Free = {}
  /\ Advance("run")
  /\ UNCHANGED <<code, ranges, registers, machine>>

(* The emitted code executes the instruction at n: ensure_val_in names the  *)
(* register an operand is read from, acquire_dst the one the result goes    *)
(* to.  A program reads nothing it has not defined.                         *)
Successors == IF code[n].targets = {} THEN {n + 1} ELSE code[n].targets
Written ==
  IF code[n].dst = NoVReg \/ vreg_phys_reg[code[n].dst] = Spill THEN contents
  ELSE [contents EXCEPT ![vreg_phys_reg[code[n].dst]] = code[n].dst]
Execute ==
  /\ pass = "run" /\ n <= Length
  /\ code[n].uses \subseteq defined
  /\ defined' = IF code[n].dst = NoVReg THEN defined ELSE defined \cup {code[n].dst}
  /\ contents' = Written
  /\ n' \in Successors
  /\ UNCHANGED <<code, pass, ranges, registers>>

Next == Number \/ Extend \/ Allocate \/ LeaveInFrame \/ Execute
Spec == Init /\ [][Next]_vars

-----------------------------------------------------------------------------
(* The types of the allocator's tables.                                     *)
TypeOK ==
  /\ code \in [Position -> Instruction] /\ pass \in {"number", "extend", "scan", "run"}
  /\ n \in 1 .. Length + 1
  /\ first_def \in [VReg -> 0 .. Length] /\ last_use \in [VReg -> 0 .. Length + 1]
  /\ reg_holder \in [PhysReg -> VReg \cup {NoVReg}]
  /\ vreg_phys_reg \in [VReg -> PhysReg \cup {Spill}]
  /\ defined \subseteq VReg /\ contents \in [PhysReg -> VReg \cup {NoVReg}]

(* Two virtual registers that share a register have ranges, as stretched by *)
(* the loops, of which one ends before the other begins.                    *)
RangesDisjoint ==
  \A u, v \in VReg :
    u # v /\ vreg_phys_reg[u] = vreg_phys_reg[v] /\ vreg_phys_reg[u] # Spill
      => last_use[u] < first_def[v] \/ last_use[v] < first_def[u]

(* What the ranges are for: along every path the program can take, with     *)
(* its jumps backwards and its blocks in any order, the register an operand *)
(* is read from holds that operand, even if the code of the instruction     *)
(* writes its result before it has read the last operand.                   *)
RightValue ==
  pass = "run" /\ n <= Length /\ code[n].uses \subseteq defined =>
    \A v \in code[n].uses :
      vreg_phys_reg[v] # Spill => Written[vreg_phys_reg[v]] = v
=============================================================================
