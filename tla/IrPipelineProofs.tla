-------------------------- MODULE IrPipelineProofs --------------------------
(***************************************************************************)
(* Proofs about RegAlloc, IrOpt and the two in the order of the compiler,  *)
(* for functions of any length, any number of registers and any control    *)
(* flow.                                                                   *)
(*                                                                         *)
(* The allocator.  Virtual registers that share a register have disjoint   *)
(* ranges because each is handed the register after the last use of the    *)
(* one before: reg_holder always is the latest of those that share it, and *)
(* every other one ended before the holder began.  The program then reads  *)
(* the right values because a loop that reaches a range has stretched it   *)
(* to its exit: once the program is beyond the range, no jump leads back   *)
(* into it (Barrier), so that of the virtual registers that share a        *)
(* register only the latest is still read.                                 *)
(*                                                                         *)
(* The optimizer.  Each instruction is the source's, with constants in     *)
(* place of registers, or the constant its result was folded to, or a NOP  *)
(* whose result nothing reads (Related).  A constant is what the one       *)
(* instruction that defines the register computes (Known), so that a run   *)
(* which stays in the signed types finds it in the register (ConstsHold);  *)
(* then both runs agree on every register the optimized function has       *)
(* written (EnvsAgree).                                                    *)
(*                                                                         *)
(* Both.  The optimizer leaves a function in single assignment form        *)
(* (StaysSingle), which is all that the allocator asks for.                *)
(***************************************************************************)
EXTENDS IrPipeline, FiniteSetTheorems, TLAPS

(* Pass 2 leaves in first_def the one definition of each virtual register.  *)
Numbered ==
  \A i \in Position :
    code[i].dst # NoVReg =>
      first_def[code[i].dst] = IF pass = "number" /\ n <= i THEN 0 ELSE i

(* No register is handed out before pass 4.                                 *)
NoneYet ==
  pass \in {"number", "extend"} =>
    \A v \in VReg : vreg_phys_reg[v] = Spill

(* What pass 4 has handed out was defined before the instruction it is at.  *)
Behind ==
  \A v \in VReg :
    vreg_phys_reg[v] # Spill =>
      /\ reg_holder[vreg_phys_reg[v]] \in VReg
      /\ pass = "scan" => first_def[v] < n

(* The holder of a register is the latest of those that share it.           *)
HolderLatest ==
  \A v \in VReg :
    vreg_phys_reg[v] # Spill =>
      LET h == reg_holder[vreg_phys_reg[v]]
      IN  /\ vreg_phys_reg[h] = vreg_phys_reg[v]
          /\ v # h => last_use[v] < first_def[h]

(* A virtual register has one definition.                                   *)
SingleAssignment ==
  \A i, j \in Position : code[i].dst = code[j].dst /\ code[i].dst # NoVReg => i = j

IInv ==
  /\ TypeOK /\ SingleAssignment
  /\ Numbered /\ NoneYet /\ Behind /\ HolderLatest /\ RangesDisjoint

(* The allocator's tables start empty.                                      *)
LEMMA StartIInv == Start /\ code \in [Position -> Instruction] /\ SingleAssignment => IInv
<1> SUFFICES ASSUME Start, code \in [Position -> Instruction], SingleAssignment
             PROVE  IInv
  OBVIOUS
<1>1. TypeOK
  BY SizeAssumption DEF Start, TypeOK, PhysReg, Spill, Position
<1>2. Numbered
  BY SizeAssumption DEF Start, Numbered, Position, Instruction
<1>3. NoneYet /\ Behind /\ HolderLatest /\ RangesDisjoint
  BY DEF Start, NoneYet, Behind, HolderLatest, RangesDisjoint, Spill
<1> QED BY <1>1, <1>2, <1>3 DEF IInv

LEMMA InitIInv == Init => IInv
<1> SUFFICES ASSUME Init PROVE IInv
  OBVIOUS
<1>1. code \in [Position -> Instruction] /\ SingleAssignment
  BY ProgramAssumption DEF Init, SingleAssignment
<1> QED BY <1>1, StartIInv DEF Init

(* Every pass keeps to the positions of the program.                        *)
LEMMA AdvanceTypes ==
  ASSUME TypeOK, n <= Length, NEW next \in {"extend", "scan", "run"}, Advance(next)
  PROVE  n' \in 1 .. Length + 1 /\ pass' \in {"number", "extend", "scan", "run"}
BY SizeAssumption DEF Advance, TypeOK

(* Pass 2.                                                                  *)
LEMMA NumberStep ==
  ASSUME IInv, Number
  PROVE  IInv'
<1> USE SizeAssumption DEF IInv, Number
<1>0. n \in Position /\ code[n] \in Instruction
  BY DEF TypeOK, Position
<1>1. TypeOK'
  <2>1. first_def' \in [VReg -> 0 .. Length]
    BY DEF TypeOK
  <2>2. last_use' \in [VReg -> 0 .. Length + 1]
    BY DEF TypeOK
  <2>3. n' \in 1 .. Length + 1 /\ pass' \in {"number", "extend", "scan", "run"}
    BY AdvanceTypes
  <2> QED BY <2>1, <2>2, <2>3 DEF TypeOK, registers, machine
<1>2. Numbered'
  <2> SUFFICES ASSUME NEW i \in Position, code[i].dst # NoVReg
               PROVE  first_def'[code[i].dst]
                        = IF pass' = "number" /\ n' <= i THEN 0 ELSE i
    BY DEF Numbered
  <2>1. code[i].dst \in VReg
    BY DEF TypeOK, Instruction
  <2>2. first_def[code[i].dst] = IF n <= i THEN 0 ELSE i
    BY DEF Numbered
  <2>3. code[i].dst = code[n].dst <=> i = n
    BY <1>0 DEF SingleAssignment, TypeOK
  <2>4. first_def'[code[i].dst] = IF i = n THEN n ELSE first_def[code[i].dst]
    BY <2>1, <2>2, <2>3 DEF TypeOK, Position
  <2>5. (pass' = "number" /\ n' <= i) <=> n < i
    BY DEF Advance, TypeOK, Position
  <2> QED BY <2>2, <2>4, <2>5 DEF TypeOK, Position
<1>3. \A v \in VReg : vreg_phys_reg[v] = Spill
  BY DEF NoneYet
<1>4. NoneYet' /\ Behind' /\ HolderLatest' /\ RangesDisjoint'
  BY <1>3 DEF NoneYet, Behind, HolderLatest, RangesDisjoint, registers
<1> QED BY <1>1, <1>2, <1>4 DEF SingleAssignment

(* Pass 3.                                                                  *)
LEMMA ExtendStep ==
  ASSUME IInv, Extend
  PROVE  IInv'
<1> USE SizeAssumption DEF IInv, Extend
<1>1. TypeOK'
  <2>1. n + 1 \in 0 .. Length + 1
    BY DEF TypeOK
  <2>2. last_use' \in [VReg -> 0 .. Length + 1]
    BY <2>1 DEF TypeOK, LoopEnd
  <2>3. n' \in 1 .. Length + 1 /\ pass' \in {"number", "extend", "scan", "run"}
    BY AdvanceTypes
  <2> QED BY <2>2, <2>3 DEF TypeOK, registers, machine
<1>2. Numbered'
  BY DEF Numbered, Advance
<1>3. \A v \in VReg : vreg_phys_reg[v] = Spill
  BY DEF NoneYet
<1>4. NoneYet' /\ Behind' /\ HolderLatest' /\ RangesDisjoint'
  BY <1>3 DEF NoneYet, Behind, HolderLatest, RangesDisjoint, registers
<1> QED BY <1>1, <1>2, <1>4 DEF SingleAssignment

(* Pass 4, an instruction whose result gets no register.                    *)
LEMMA LeaveStep ==
  ASSUME IInv, LeaveInFrame
  PROVE  IInv'
<1> USE SizeAssumption DEF IInv, LeaveInFrame
<1>1. TypeOK'
  BY AdvanceTypes DEF TypeOK, ranges, registers, machine
<1>2. Numbered' /\ NoneYet' /\ HolderLatest' /\ RangesDisjoint'
  BY DEF Numbered, NoneYet, HolderLatest, RangesDisjoint, Advance, ranges, registers
<1>3. Behind'
  <2> SUFFICES ASSUME NEW v \in VReg, vreg_phys_reg[v] # Spill
               PROVE  /\ reg_holder[vreg_phys_reg[v]] \in VReg
                      /\ pass' = "scan" => first_def[v] < n'
    BY DEF Behind, ranges, registers
  <2> QED BY DEF Behind, Advance, TypeOK
<1> QED BY <1>1, <1>2, <1>3 DEF SingleAssignment

(* The run changes neither the ranges nor the registers.                    *)
LEMMA ExecuteStep ==
  ASSUME IInv, Execute
  PROVE  IInv'
<1> USE SizeAssumption DEF IInv, Execute
<1>0. n \in Position /\ code[n] \in Instruction
  BY DEF TypeOK, Position
<1>1. TypeOK'
  <2>1. Successors \subseteq 1 .. Length + 1
    BY <1>0 DEF Successors, Instruction, Position
  <2>2. Written \in [PhysReg -> VReg \cup {NoVReg}]
    BY <1>0 DEF Written, TypeOK, Instruction
  <2>3. defined' \subseteq VReg
    BY <1>0 DEF TypeOK, Instruction
  <2> QED BY <2>1, <2>2, <2>3 DEF TypeOK, ranges, registers
<1>2. Numbered' /\ NoneYet' /\ Behind' /\ HolderLatest' /\ RangesDisjoint'
  BY DEF Numbered, NoneYet, Behind, HolderLatest, RangesDisjoint, ranges, registers
<1> QED BY <1>1, <1>2 DEF SingleAssignment

(* A register that try_alloc_reg may hand out belongs to nobody any more:   *)
(* its holder because it looks at last_use, the others because they ended   *)
(* before the holder began.                                                 *)
LEMMA EndedBefore ==
  ASSUME IInv, pass = "scan", NEW r \in Free, NEW u \in VReg, vreg_phys_reg[u] = r
  PROVE  last_use[u] < n
<1> USE SizeAssumption DEF IInv
<1> DEFINE h == reg_holder[r]
<1>1. r # Spill /\ r \in PhysReg
  BY DEF Free, PhysReg, Spill
<1>2. h \in VReg /\ last_use[h] < n
  BY <1>1 DEF Behind, Free
<1>3. CASE u # h
  <2>1. last_use[u] < first_def[h] /\ vreg_phys_reg[h] # Spill
    BY <1>1, <1>3 DEF HolderLatest
  <2>2. first_def[h] < n
    BY <1>2, <2>1 DEF Behind
  <2> QED BY <1>2, <2>1, <2>2 DEF TypeOK
<1> QED BY <1>2, <1>3

(* Pass 4, an instruction whose result is handed the register r.            *)
LEMMA AllocateStep ==
  ASSUME IInv, Allocate
  PROVE  IInv'
<1> USE SizeAssumption DEF IInv
<1> DEFINE v == code[n].dst
<1>0. /\ pass = "scan" /\ n <= Length /\ n \in Position
      /\ v \in VReg /\ last_use[v] # 0
      /\ first_def[v] = n
  BY DEF Allocate, Wants, TypeOK, Position, Instruction, Numbered
<1>1. PICK r \in Free :
        /\ reg_holder' = [reg_holder EXCEPT ![r] = v]
        /\ vreg_phys_reg' = [vreg_phys_reg EXCEPT ![v] = r]
  BY DEF Allocate
<1>2. /\ r \in PhysReg /\ r # Spill
      /\ reg_holder[r] # NoVReg => last_use[reg_holder[r]] < n
  BY DEF Free, PhysReg, Spill
<1>3. UNCHANGED <<code, first_def, last_use>> /\ Advance("run")
  BY DEF Allocate, ranges
<1>4. vreg_phys_reg[v] = Spill
  BY <1>0 DEF Behind, TypeOK
<1>5. /\ \A u \in VReg : vreg_phys_reg'[u] = IF u = v THEN r ELSE vreg_phys_reg[u]
      /\ \A s \in PhysReg : reg_holder'[s] = IF s = r THEN v ELSE reg_holder[s]
  BY <1>0, <1>1, <1>2 DEF TypeOK
<1>6. \A u \in VReg : vreg_phys_reg[u] = r => last_use[u] < n
  BY <1>0, EndedBefore
<1>7. TypeOK'
  <2>1. n' \in 1 .. Length + 1 /\ pass' \in {"number", "extend", "scan", "run"}
    BY <1>0, <1>3, AdvanceTypes
  <2>2. /\ reg_holder' \in [PhysReg -> VReg \cup {NoVReg}]
        /\ vreg_phys_reg' \in [VReg -> PhysReg \cup {Spill}]
    BY <1>0, <1>1, <1>2 DEF TypeOK
  <2> QED BY <1>3, <2>1, <2>2 DEF Allocate, TypeOK, ranges, machine
<1>8. Numbered' /\ NoneYet'
  BY <1>0, <1>3 DEF Numbered, NoneYet, Advance
<1>9. Behind'
  <2> SUFFICES ASSUME NEW u \in VReg, vreg_phys_reg'[u] # Spill
               PROVE  /\ reg_holder'[vreg_phys_reg'[u]] \in VReg
                      /\ pass' = "scan" => first_def'[u] < n'
    BY DEF Behind
  <2>1. pass' = "scan" => n' = n + 1
    BY <1>0, <1>3 DEF Advance
  <2>2. CASE u = v
    BY <1>0, <1>2, <1>3, <1>5, <2>1, <2>2 DEF Position
  <2>3. CASE u # v
    <3>1. vreg_phys_reg[u] # Spill /\ vreg_phys_reg[u] \in PhysReg
      BY <1>5, <2>3 DEF TypeOK
    <3>2. reg_holder[vreg_phys_reg[u]] \in VReg /\ first_def[u] < n
      BY <1>0, <3>1 DEF Behind
    <3> QED BY <1>0, <1>3, <1>5, <2>1, <2>3, <3>1, <3>2 DEF TypeOK, Position
  <2> QED BY <2>2, <2>3
<1>10. HolderLatest'
  <2> SUFFICES ASSUME NEW u \in VReg, vreg_phys_reg'[u] # Spill
               PROVE  LET h == reg_holder'[vreg_phys_reg'[u]]
                      IN  /\ vreg_phys_reg'[h] = vreg_phys_reg'[u]
                          /\ u # h => last_use'[u] < first_def'[h]
    BY DEF HolderLatest
  <2>1. CASE vreg_phys_reg'[u] = r
    BY <1>0, <1>2, <1>3, <1>5, <1>6, <2>1
  <2>2. CASE vreg_phys_reg'[u] # r
    <3> DEFINE h == reg_holder[vreg_phys_reg[u]]
    <3>1. u # v /\ vreg_phys_reg[u] # Spill /\ vreg_phys_reg[u] \in PhysReg
      BY <1>5, <2>2 DEF TypeOK
    <3>2. h \in VReg /\ vreg_phys_reg[h] = vreg_phys_reg[u]
      BY <3>1 DEF Behind, HolderLatest
    <3>3. h # v
      BY <1>4, <3>1, <3>2
    <3>4. u # h => last_use[u] < first_def[h]
      BY <3>1 DEF HolderLatest
    <3> QED BY <1>3, <1>5, <2>2, <3>1, <3>2, <3>3, <3>4
  <2> QED BY <2>1, <2>2
<1>11. RangesDisjoint'
  <2> SUFFICES ASSUME NEW u \in VReg, NEW w \in VReg, u # w,
                      vreg_phys_reg'[u] = vreg_phys_reg'[w], vreg_phys_reg'[u] # Spill
               PROVE  last_use'[u] < first_def'[w] \/ last_use'[w] < first_def'[u]
    BY DEF RangesDisjoint
  <2>1. CASE u = v
    BY <1>0, <1>3, <1>5, <1>6, <2>1
  <2>2. CASE w = v
    BY <1>0, <1>3, <1>5, <1>6, <2>2
  <2>3. CASE u # v /\ w # v
    BY <1>3, <1>5, <2>3 DEF RangesDisjoint
  <2> QED BY <2>1, <2>2, <2>3
<1>12. SingleAssignment'
  BY DEF SingleAssignment, Allocate, IInv
<1> QED BY <1>3, <1>7, <1>8, <1>9, <1>10, <1>11, <1>12

LEMMA NextIInv == IInv /\ [Next]_vars => IInv'
<1> SUFFICES ASSUME IInv, [Next]_vars PROVE IInv'
  OBVIOUS
<1>1. CASE Number
  BY <1>1, NumberStep
<1>2. CASE Extend
  BY <1>2, ExtendStep
<1>3. CASE Allocate
  BY <1>3, AllocateStep
<1>4. CASE LeaveInFrame
  BY <1>4, LeaveStep
<1>5. CASE Execute
  BY <1>5, ExecuteStep
<1>6. CASE UNCHANGED vars
  BY <1>6 DEF IInv, SingleAssignment, TypeOK, Numbered, NoneYet, Behind, HolderLatest, RangesDisjoint,
              vars, ranges, registers, machine
<1> QED BY <1>1, <1>2, <1>3, <1>4, <1>5, <1>6 DEF Next

LEMMA Invariant == Spec => []IInv
<1> QED BY InitIInv, NextIInv, PTL DEF Spec

(* The tables of ir_regalloc_function keep their types: no range ends       *)
(* beyond the exit of the last loop.                                        *)
THEOREM TypeCorrect == Spec => []TypeOK
<1>1. IInv => TypeOK
  BY DEF IInv
<1> QED BY Invariant, <1>1, PTL

(* No two virtual registers that ir_regalloc_function gives one register    *)
(* have ranges that meet, for every function in single assignment form.     *)
THEOREM NoOverlap == Spec => []RangesDisjoint
<1>1. IInv => RangesDisjoint
  BY DEF IInv
<1> QED BY Invariant, <1>1, PTL

-----------------------------------------------------------------------------
(* Why the emitted code reads the right values.  The end of a range, as the *)
(* loops have stretched it, is a barrier: no jump leads from beyond it back *)
(* to before it, since every back edge that could has moved it.  Of those   *)
(* that share a register each begins beyond the barriers of the earlier     *)
(* ones, so that once it has been assigned the earlier ones are neither     *)
(* read nor assigned again.                                                 *)

(* Pass 2 has seen every read before n, later passes every read.            *)
UsesCovered ==
  \A j \in Position : \A v \in code[j].uses :
    (pass = "number" => j < n) => last_use[v] >= j

(* Pass 3 has left no range that a back edge it has seen jumps into.        *)
LoopsClosed ==
  \A i \in Position : \A t \in code[i].targets : \A v \in VReg :
    /\ t < i /\ first_def[v] # 0 /\ last_use[v] # 0
    /\ pass # "number" /\ (pass = "extend" => i < n)
    => /\ first_def[v] \in t .. i => last_use[v] > i
       /\ last_use[v] \notin t .. i

Shared(u, v) ==
  u # v /\ vreg_phys_reg[u] = vreg_phys_reg[v] /\ vreg_phys_reg[u] # Spill

(* What pass 4 has handed out: to virtual registers that are defined and    *)
(* read, and to the later one after the last use of the earlier.            *)
Allocated ==
  \A v \in VReg : vreg_phys_reg[v] # Spill =>
    first_def[v] \in Position /\ code[first_def[v]].dst = v /\ last_use[v] # 0
Ordered ==
  \A u, v \in VReg :
    Shared(u, v) /\ first_def[u] < first_def[v] => last_use[u] < first_def[v]

(* The run is beyond the range of every virtual register that shares one    *)
(* with a later one it has assigned, and a register holds the latest.       *)
Beyond(u) == n > first_def[u] /\ n > last_use[u]
Passed ==
  \A v \in defined, u \in VReg :
    Shared(u, v) /\ first_def[u] < first_def[v] => Beyond(u)
Latest ==
  \A v \in defined : vreg_phys_reg[v] # Spill =>
    LET w == contents[vreg_phys_reg[v]]
    IN  /\ w \in defined /\ vreg_phys_reg[w] = vreg_phys_reg[v]
        /\ first_def[v] <= first_def[w]

RunInv ==
  /\ UsesCovered /\ LoopsClosed /\ Allocated /\ Ordered
  /\ pass # "run" => defined = {}
  /\ Passed /\ Latest

LEMMA StartRunInv == Start => RunInv
BY DEF Start, RunInv, UsesCovered, LoopsClosed, Allocated, Ordered, Shared, Passed, Latest,
       Position, Spill

(* Beyond the range of u, and the run stays there.                          *)
LEMMA Barrier ==
  ASSUME IInv, RunInv, pass = "run", n \in Position,
         NEW u \in VReg, vreg_phys_reg[u] # Spill, Beyond(u),
         NEW m \in Successors
  PROVE  m > first_def[u] /\ m > last_use[u]
<1> USE DEF IInv, RunInv
<1>1. /\ first_def[u] \in Position /\ last_use[u] # 0
      /\ first_def[u] \in Nat /\ last_use[u] \in Nat
  BY DEF Allocated, TypeOK, Position
<1>2. code[n] \in Instruction
  BY DEF TypeOK
<1>3. CASE m = n + 1
  BY <1>1, <1>3 DEF Beyond, TypeOK
<1>4. CASE m \in code[n].targets /\ m >= n
  BY <1>1, <1>2, <1>4 DEF Beyond, TypeOK, Instruction, Position
<1>5. CASE m \in code[n].targets /\ m < n
  <2>1. m \in Nat /\ n \in Nat /\ first_def[u] # 0
    BY <1>1, <1>2, <1>5 DEF Instruction, Position
  <2>2. /\ first_def[u] \in m .. n => last_use[u] > n
        /\ last_use[u] \notin m .. n
    BY <1>1, <1>5, <2>1 DEF LoopsClosed
  <2> QED BY <1>1, <2>1, <2>2 DEF Beyond
<1>6. m = n + 1 \/ (m \in code[n].targets /\ (m >= n \/ m < n))
  BY <1>2 DEF Successors, Instruction, Position
<1> QED BY <1>3, <1>4, <1>5, <1>6

(* Passes 2 and 3 build the ranges; nothing has been handed out yet.        *)
LEMMA NothingYet ==
  ASSUME IInv, RunInv, pass \in {"number", "extend"},
         UNCHANGED <<registers, machine>>
  PROVE  /\ Allocated' /\ Ordered' /\ Passed' /\ Latest'
         /\ defined' = {}
<1>1. \A v \in VReg : vreg_phys_reg'[v] = Spill
  BY DEF IInv, NoneYet, registers
<1>2. defined' = {}
  BY DEF RunInv, machine
<1> QED BY <1>1, <1>2 DEF Allocated, Ordered, Shared, Passed, Latest

LEMMA NumberRuns ==
  ASSUME IInv, RunInv, Number
  PROVE  RunInv'
<1> USE SizeAssumption DEF Number
<1>1. UsesCovered'
  <2> SUFFICES ASSUME NEW j \in Position, NEW v \in code[j].uses,
                      pass' = "number" => j < n'
               PROVE  last_use'[v] >= j
    BY DEF UsesCovered
  <2>1. code[j] \in Instruction /\ v \in VReg
    BY DEF IInv, TypeOK, Instruction
  <2>2. j <= n
    BY DEF Advance, Position, IInv, TypeOK
  <2>3. CASE j = n
    BY <2>1, <2>3 DEF Position, IInv, TypeOK
  <2>4. CASE j < n
    <3>1. last_use[v] >= j
      BY <2>4 DEF RunInv, UsesCovered
    <3> QED BY <2>1, <2>2, <3>1 DEF Position, IInv, TypeOK
  <2> QED BY <2>2, <2>3, <2>4 DEF Position, IInv, TypeOK
<1>2. LoopsClosed'
  BY DEF LoopsClosed, Advance, Position
<1>3. Allocated' /\ Ordered' /\ Passed' /\ Latest' /\ defined' = {}
  BY NothingYet
<1> QED BY <1>1, <1>2, <1>3 DEF RunInv

LEMMA ExtendRuns ==
  ASSUME IInv, RunInv, Extend
  PROVE  RunInv'
<1> USE SizeAssumption DEF Extend
<1>0. /\ n \in Nat
      /\ \A v \in VReg : first_def[v] \in Nat /\ last_use[v] \in Nat
  BY DEF IInv, TypeOK
<1>1. UsesCovered'
  <2> SUFFICES ASSUME NEW j \in Position, NEW v \in code[j].uses
               PROVE  last_use'[v] >= j
    BY DEF UsesCovered
  <2>1. v \in VReg
    BY DEF IInv, TypeOK, Instruction
  <2>2. last_use[v] >= j
    BY DEF RunInv, UsesCovered
  <2> QED BY <1>0, <2>1, <2>2 DEF Position, LoopEnd
<1>2. LoopsClosed'
  <2> SUFFICES ASSUME NEW i \in Position, NEW t \in code[i].targets, NEW v \in VReg,
                      t < i, first_def[v] # 0, last_use'[v] # 0,
                      pass' = "extend" => i < n'
               PROVE  /\ first_def[v] \in t .. i => last_use'[v] > i
                      /\ last_use'[v] \notin t .. i
    BY DEF LoopsClosed
  <2>1. i \in Nat /\ t \in Nat
    BY DEF IInv, TypeOK, Instruction, Position
  <2>2. i <= n
    BY <1>0, <2>1 DEF Advance, Position
  <2>3. last_use[v] # 0
    BY DEF LoopEnd
  <2>4. last_use'[v] = last_use[v] \/ last_use'[v] = n + 1
    BY DEF LoopEnd
  <2>5. CASE last_use'[v] = n + 1
    BY <1>0, <2>1, <2>2, <2>5
  <2>6. CASE last_use'[v] # n + 1
    <3>1. last_use'[v] = last_use[v]
      BY <2>4, <2>6
    <3>2. CASE i < n
      BY <2>3, <3>1, <3>2 DEF RunInv, LoopsClosed
    <3>3. CASE i = n
      <4>1. last_use[v] > n \/ ~ Touched(v, t)
        BY <1>0, <2>3, <2>6, <3>3 DEF LoopEnd
      <4> QED BY <1>0, <2>1, <3>1, <3>3, <4>1 DEF Touched
    <3> QED BY <1>0, <2>1, <2>2, <3>2, <3>3
  <2> QED BY <2>5, <2>6
<1>3. Allocated' /\ Ordered' /\ Passed' /\ Latest' /\ defined' = {}
  BY NothingYet
<1> QED BY <1>1, <1>2, <1>3 DEF RunInv

LEMMA LeaveRuns ==
  ASSUME IInv, RunInv, LeaveInFrame
  PROVE  RunInv'
<1> USE DEF LeaveInFrame
<1>1. defined' = {}
  BY DEF RunInv, machine
<1>2. UsesCovered' /\ LoopsClosed'
  BY DEF RunInv, UsesCovered, LoopsClosed, Advance, ranges
<1>3. Allocated' /\ Ordered'
  BY DEF RunInv, Allocated, Ordered, Shared, ranges, registers
<1> QED BY <1>1, <1>2, <1>3 DEF RunInv, Passed, Latest

LEMMA AllocateRuns ==
  ASSUME IInv, RunInv, Allocate
  PROVE  RunInv'
<1> DEFINE v == code[n].dst
<1>0. /\ pass = "scan" /\ n \in Position
      /\ v \in VReg /\ last_use[v] # 0 /\ first_def[v] = n
  BY DEF Allocate, Wants, IInv, TypeOK, Position, Instruction, Numbered
<1>1. PICK r \in Free : vreg_phys_reg' = [vreg_phys_reg EXCEPT ![v] = r]
  BY DEF Allocate
<1>2. UNCHANGED <<code, first_def, last_use, defined>> /\ Advance("run")
  BY DEF Allocate, ranges, machine
<1>3. defined' = {}
  BY <1>0, <1>2 DEF RunInv
<1>4. \A u \in VReg : vreg_phys_reg'[u] = IF u = v THEN r ELSE vreg_phys_reg[u]
  BY <1>0, <1>1 DEF IInv, TypeOK
<1>5. UsesCovered' /\ LoopsClosed'
  BY <1>0, <1>2 DEF RunInv, UsesCovered, LoopsClosed, Advance
<1>6. Allocated'
  BY <1>0, <1>2, <1>4 DEF RunInv, Allocated
<1>7. Ordered'
  <2> SUFFICES ASSUME NEW u \in VReg, NEW w \in VReg, Shared(u, w)',
                      first_def[u] < first_def[w]
               PROVE  last_use[u] < first_def[w]
    BY <1>2 DEF Ordered
  <2>3. CASE u # v /\ w # v
    BY <1>4, <2>3 DEF RunInv, Ordered, Shared
  <2>4. CASE u = v
    <3>1. first_def[w] < n
      BY <1>0, <1>4, <2>4 DEF IInv, Behind, Shared
    <3> QED BY <1>0, <2>4, <3>1 DEF IInv, TypeOK, Position
  <2>5. CASE w = v
    <3>1. vreg_phys_reg[u] = r
      BY <1>4, <2>5 DEF Shared
    <3> QED BY <1>0, <2>5, <3>1, EndedBefore
  <2> QED BY <2>3, <2>4, <2>5
<1> QED BY <1>3, <1>5, <1>6, <1>7 DEF RunInv, Passed, Latest

(* Two that share a register are assigned by different instructions.        *)
LEMMA SharedDiffer ==
  ASSUME IInv, RunInv, NEW u \in VReg, NEW v \in VReg, Shared(u, v)
  PROVE  /\ first_def[u] \in Nat /\ first_def[v] \in Nat
         /\ first_def[u] < first_def[v] \/ first_def[v] < first_def[u]
<1>1. first_def[u] \in Nat /\ first_def[v] \in Nat
  BY DEF IInv, TypeOK
<1>2. first_def[u] # first_def[v]
  BY DEF RunInv, Allocated, Shared
<1> QED BY <1>1, <1>2

(* When the run is at the definition of v, it is beyond the ranges of those *)
(* that had the register before, and those that have it after have not been *)
(* assigned yet.                                                            *)
LEMMA AtDefinition ==
  ASSUME IInv, RunInv, pass = "run", n \in Position,
         NEW v \in VReg, v = code[n].dst, NEW u \in VReg, Shared(u, v)
  PROVE  /\ first_def[v] = n
         /\ first_def[u] < n => Beyond(u)
         /\ n < first_def[u] => u \notin defined
<1>1. first_def[v] = n
  <2>1. v # NoVReg
    BY SizeAssumption
  <2> QED BY <2>1 DEF IInv, Numbered
<1>2. first_def[u] < n => Beyond(u)
  BY <1>1 DEF RunInv, Ordered, Beyond, IInv, TypeOK
<1>3. ASSUME n < first_def[u], u \in defined
      PROVE  FALSE
  <2>1. Beyond(v)
    BY <1>1, <1>3 DEF RunInv, Passed, Shared
  <2> QED BY <1>1, <2>1 DEF Beyond, IInv, TypeOK
<1> QED BY <1>1, <1>2, <1>3

LEMMA ExecuteRuns ==
  ASSUME IInv, RunInv, Execute
  PROVE  RunInv'
<1> USE SizeAssumption
<1> DEFINE d == code[n].dst
<1>0. /\ pass = "run" /\ n \in Position /\ n' \in Successors
      /\ d \in VReg \cup {NoVReg} /\ defined \subseteq VReg
      /\ defined' = IF d = NoVReg THEN defined ELSE defined \cup {d}
      /\ contents' = Written
  BY DEF Execute, IInv, TypeOK, Position, Instruction
<1>1. UNCHANGED <<code, pass, first_def, last_use, vreg_phys_reg>>
  BY DEF Execute, ranges, registers
<1>2. UsesCovered' /\ LoopsClosed' /\ Allocated' /\ Ordered' /\ pass' = "run"
  BY <1>0, <1>1 DEF RunInv, UsesCovered, LoopsClosed, Allocated, Ordered, Shared
<1>3. Passed'
  <2> SUFFICES ASSUME NEW v \in defined', NEW u \in VReg, Shared(u, v),
                      first_def[u] < first_def[v]
               PROVE  n' > first_def[u] /\ n' > last_use[u]
    BY <1>1 DEF Passed, Shared, Beyond
  <2>1. Beyond(u)
    <3>1. CASE v \in defined
      BY <3>1 DEF RunInv, Passed
    <3>2. CASE v = d /\ d # NoVReg
      BY <1>0, <3>2, AtDefinition
    <3> QED BY <1>0, <3>1, <3>2
  <2> QED BY <1>0, <2>1, Barrier DEF Shared
<1>4. Latest'
  <2> SUFFICES ASSUME NEW v \in defined', vreg_phys_reg[v] # Spill
               PROVE  LET w == contents'[vreg_phys_reg[v]]
                      IN  /\ w \in defined' /\ vreg_phys_reg[w] = vreg_phys_reg[v]
                          /\ first_def[v] <= first_def[w]
    BY <1>1 DEF Latest
  <2> DEFINE r == vreg_phys_reg[v]
  <2>1. v \in VReg /\ r \in PhysReg /\ first_def[v] \in Nat
    BY <1>0 DEF IInv, TypeOK
  <2>2. CASE d # NoVReg /\ vreg_phys_reg[d] = r
    <3>1. contents'[r] = d /\ d \in VReg /\ d \in defined'
      BY <1>0, <2>1, <2>2 DEF Written, IInv, TypeOK
    <3>2. CASE v # d
      <4>1. v \in defined /\ Shared(v, d)
        BY <1>0, <2>2, <3>2 DEF Shared
      <4>2. first_def[d] = n /\ ~ (n < first_def[v])
        BY <1>0, <2>1, <3>1, <4>1, AtDefinition
      <4> QED BY <2>1, <2>2, <3>1, <4>2 DEF IInv, TypeOK
    <3> QED BY <2>1, <2>2, <3>1, <3>2
  <2>3. CASE d = NoVReg \/ vreg_phys_reg[d] # r
    <3>1. contents'[r] = contents[r]
      BY <1>0, <2>1, <2>3 DEF Written, IInv, TypeOK
    <3>2. v \in defined
      BY <1>0, <2>3
    <3> QED BY <1>0, <3>1, <3>2 DEF RunInv, Latest
  <2> QED BY <2>2, <2>3
<1> QED BY <1>2, <1>3, <1>4 DEF RunInv

LEMMA NextRunInv == IInv /\ RunInv /\ [Next]_vars => RunInv'
<1> SUFFICES ASSUME IInv, RunInv, [Next]_vars PROVE RunInv'
  OBVIOUS
<1>1. CASE Number
  BY <1>1, NumberRuns
<1>2. CASE Extend
  BY <1>2, ExtendRuns
<1>3. CASE Allocate
  BY <1>3, AllocateRuns
<1>4. CASE LeaveInFrame
  BY <1>4, LeaveRuns
<1>5. CASE Execute
  BY <1>5, ExecuteRuns
<1>6. CASE UNCHANGED vars
  BY <1>6 DEF RunInv, UsesCovered, LoopsClosed, Allocated, Ordered, Passed, Latest,
              Shared, Beyond, vars, ranges, registers, machine
<1> QED BY <1>1, <1>2, <1>3, <1>4, <1>5, <1>6 DEF Next

(* What is in a register when an instruction reads it.                      *)
LEMMA ReadsRight == IInv /\ RunInv => RightValue
<1> SUFFICES ASSUME IInv, RunInv, pass = "run", n <= Length,
                    code[n].uses \subseteq defined,
                    NEW v \in code[n].uses, vreg_phys_reg[v] # Spill
             PROVE  Written[vreg_phys_reg[v]] = v
  BY DEF RightValue
<1> DEFINE d == code[n].dst
           r == vreg_phys_reg[v]
           w == contents[r]
<1>1. /\ n \in Position /\ v \in VReg /\ v \in defined /\ r \in PhysReg
      /\ d \in VReg \cup {NoVReg} /\ defined \subseteq VReg
  <2>1. n \in Position /\ code[n] \in Instruction /\ defined \subseteq VReg
    <3>1. TypeOK
      BY DEF IInv
    <3>2. n \in Position
      BY <3>1, SizeAssumption DEF TypeOK, Position
    <3> QED BY <3>1, <3>2 DEF TypeOK
  <2>2. v \in VReg /\ v \in defined /\ d \in VReg \cup {NoVReg}
    BY <2>1 DEF Instruction
  <2>3. r \in PhysReg
    BY <2>2 DEF IInv, TypeOK
  <2> QED BY <2>1, <2>2, <2>3
<1>2. last_use[v] >= n /\ ~ Beyond(v)
  <2>1. last_use[v] >= n
    BY <1>1 DEF RunInv, UsesCovered
  <2> QED BY <1>1, <2>1 DEF Beyond, IInv, TypeOK
<1>3. CASE d # NoVReg /\ vreg_phys_reg[d] = r
  <2>1. Written[r] = d
    BY <1>1, <1>3 DEF Written, IInv, TypeOK
  <2>2. CASE v # d
    <3>1. Shared(v, d)
      BY <1>3, <2>2 DEF Shared
    <3>2. FALSE
      BY <1>1, <1>2, <1>3, <3>1, AtDefinition, SharedDiffer
    <3> QED BY <3>2
  <2> QED BY <2>1, <2>2
<1>4. CASE d = NoVReg \/ vreg_phys_reg[d] # r
  <2>1. Written[r] = w
    BY <1>1, <1>4 DEF Written, IInv, TypeOK
  <2>2. w \in defined /\ vreg_phys_reg[w] = r /\ first_def[v] <= first_def[w]
    BY <1>1 DEF RunInv, Latest
  <2>3. CASE v # w
    <3>1. Shared(v, w)
      BY <2>2, <2>3 DEF Shared
    <3>2. first_def[v] < first_def[w]
      BY <1>1, <2>2, <3>1, SharedDiffer
    <3> QED BY <1>1, <1>2, <2>2, <3>1, <3>2 DEF RunInv, Passed
  <2> QED BY <2>1, <2>3
<1> QED BY <1>3, <1>4

(* The code that ir_regalloc_function serves computes with the right        *)
(* values: for every function in single assignment form, every order of its *)
(* blocks and every path, a register that an instruction reads holds the    *)
(* operand it is read for.                                                  *)
THEOREM ReadsTheOperand == Spec => []RightValue
<1>1. Spec => [](IInv /\ RunInv)
  <2>1. Init => IInv /\ RunInv
    BY InitIInv, StartRunInv DEF Init
  <2>2. IInv /\ RunInv /\ [Next]_vars => (IInv /\ RunInv)'
    BY NextIInv, NextRunInv
  <2> QED BY <2>1, <2>2, PTL DEF Spec
<1> QED BY <1>1, ReadsRight, PTL

-----------------------------------------------------------------------------
OptTypeOK ==
  /\ source \in [Position -> Inst] /\ ir \in [Position -> Inst]
  /\ opt_pass \in {"fold", "count", "remove", "done"} /\ at \in 1 .. Length + 1
  /\ is_const \in [VReg -> BOOLEAN] /\ value \in [VReg -> Int]
  /\ removed \in BOOLEAN /\ use_cnt \in [VReg -> Int]
  /\ assigned \subseteq VReg /\ written \subseteq VReg
  /\ source_env \in [VReg -> Int] /\ env \in [VReg -> Int]
  /\ exact \in BOOLEAN

(* Of a table of constants, known and val: the operand o is a constant of   *)
(* the function, and which one; the constant an instruction yields.         *)
KnownOperand(known, o) == o.id = Imm \/ (o.id \in VReg /\ known[o.id])
Constant(val, o) == IF o.id = Imm THEN o.imm ELSE val[o.id]
Gives(known, val, inst, x) ==
  \/ inst.op = "load_imm" /\ x = inst.operand["src1"].imm
  \/ /\ inst.op \in Foldable
     /\ KnownOperand(known, inst.operand["src1"])
     /\ KnownOperand(known, inst.operand["src2"])
     /\ MayFold(inst.op, Constant(val, inst.operand["src2"]))
     /\ x = EvalBinop(inst.op, ResultType(inst.op, inst.type),
                      Constant(val, inst.operand["src1"]),
                      Constant(val, inst.operand["src2"]))
Known ==
  \A v \in VReg : is_const[v] =>
    \E i \in Position :
      /\ source[i].dst = v /\ Gives(is_const, value, source[i], value[v])
      /\ opt_pass = "fold" => i < at

(* What has become of an instruction s of the source.                       *)
SameOperand(known, val, o, p) ==
  p = o \/ (o.id \in VReg /\ known[o.id] /\ p = Immediate(val[o.id]))
Kept(known, val, s, r) ==
  /\ r.op = s.op /\ r.dst = s.dst /\ r.type = s.type
  /\ \A k \in Slot : SameOperand(known, val, s.operand[k], r.operand[k])
FoldedTo(known, val, s, r) ==
  /\ s.op \in Foldable /\ s.dst \in VReg /\ known[s.dst]
  /\ r.op = "load_imm" /\ r.dst = s.dst /\ r.type = ResultType(s.op, s.type)
  /\ r.operand = [k \in Slot |-> IF k = "src1" THEN Immediate(val[s.dst])
                                 ELSE NoOperand]
Unused(f, v) == \A i \in Position, k \in Slot : f[i].operand[k].id # v
Removed(f, s, r) ==
  /\ s.op \notin SideEffect \cup {"nop"} /\ s.dst \in VReg /\ Unused(f, s.dst)
  /\ r.op = "nop" /\ r.dst = NoVReg
  /\ r.operand = [k \in Slot |-> NoOperand]
Related ==
  \A i \in Position :
    \/ Kept(is_const, value, source[i], ir[i])
    \/ FoldedTo(is_const, value, source[i], ir[i])
    \/ opt_pass # "fold" /\ Removed(ir, source[i], ir[i])

UsesIn(f, v) == {u \in Position \X Slot : f[u[1]].operand[u[2]].id = v}
Counted ==
  opt_pass = "remove" =>
    \A v \in VReg : use_cnt[v] = Cardinality(UsesIn(ir, v))

ConstsHold ==
  exact => \A v \in assigned : is_const[v] => source_env[v] = value[v]
EnvsAgree ==
  /\ exact => \A v \in written : env[v] = source_env[v]
  /\ \A v \in written : \E i \in Position : ir[i].dst = v
  /\ \A v \in assigned \ written : Unused(ir, v)
Untouched == opt_pass = "fold" => \A i \in Position : i >= at => ir[i] = source[i]
NotRun == opt_pass # "done" => assigned = {} /\ written = {}

OptInv ==
  /\ source \in Sources /\ OptTypeOK /\ Known /\ Untouched /\ Related /\ Counted
  /\ ConstsHold /\ EnvsAgree /\ NotRun
-----------------------------------------------------------------------------
(* Numbers.                                                                 *)
LEMMA NarrowType ==
  ASSUME NEW t \in Type, NEW x \in Int
  PROVE  Narrow(t, x) \in Int /\ (InRange(t, x) => Narrow(t, x) = x)
BY WidthAssumption DEF Narrow, InRange

LEMMA UnsignedType ==
  ASSUME NEW t \in Type, NEW x \in Int
  PROVE  Unsigned(t, x) \in Nat
BY WidthAssumption DEF Unsigned

LEMMA ShiftType ==
  ASSUME NEW t \in Type, NEW x \in Int
  PROVE  ShiftBy(t, x) \in Nat \ {0}
<1>1. Bits[t] \in {32, 64}
  BY DEF Bits, Type
<1>2. Unsigned(t, x) \in Nat
  BY UnsignedType
<1>3. Unsigned(t, x) % Bits[t] \in 0 .. 63
  BY <1>1, <1>2
<1> QED BY <1>3, WidthAssumption DEF ShiftBy

LEMMA QuotientType ==
  ASSUME NEW a \in Int, NEW b \in Int \ {0}
  PROVE  Quotient(a, b) \in Int
<1>1. (IF a < 0 THEN -a ELSE a) \div (IF b < 0 THEN -b ELSE b) \in Int
  OBVIOUS
<1> QED BY <1>1 DEF Quotient

LEMMA ComputeType ==
  ASSUME NEW op \in Foldable, NEW t \in Type, NEW a \in Int, NEW b \in Int,
         MayFold(op, b)
  PROVE  Compute(op, t, a, b) \in Int
<1>1. CASE op \in {"add", "lea", "sub", "mul"}
  BY <1>1 DEF Compute
<1>2. CASE op \in {"div", "mod"}
  <2>1. b # 0
    BY <1>2 DEF MayFold
  <2>2. Quotient(a, b) \in Int
    BY <2>1, QuotientType
  <2> QED BY <1>2, <2>2 DEF Compute
<1>3. CASE op \in Shift
  <2>1. ShiftBy(t, b) \in Nat \ {0} /\ Unsigned(t, a) \in Nat /\ Narrow(t, a) \in Int
    BY ShiftType, UnsignedType, NarrowType
  <2>2. CASE op = "shl"
    <3>1. Unsigned(t, a) * ShiftBy(t, b) \in Int
      BY <2>1
    <3> QED BY <2>2, <3>1, NarrowType DEF Compute
  <2>3. CASE op = "shr"
    BY <2>1, <2>3 DEF Compute
  <2>4. CASE op = "lsr"
    BY <2>1, <2>4 DEF Compute
  <2> QED BY <1>3, <2>2, <2>3, <2>4 DEF Shift
<1>4. CASE op \in Comparison
  BY <1>4 DEF Compute, Comparison, Truth
<1> QED BY <1>1, <1>2, <1>3, <1>4 DEF Foldable, Arithmetic

LEMMA ResultTypeType ==
  ASSUME NEW op, NEW t \in Type
  PROVE  ResultType(op, t) \in Type
BY DEF ResultType, Type

LEMMA MachineType ==
  ASSUME NEW op \in Foldable, NEW t \in Type, NEW a \in Int, NEW b \in Int
  PROVE  Machine(op, t, a, b) \in Int
<1>1. Narrow(t, a) \in Int /\ Narrow(t, b) \in Int
  BY NarrowType
<1>2. CASE MayFold(op, Narrow(t, b))
  BY <1>1, <1>2, ComputeType, ResultTypeType, NarrowType DEF Machine
<1>3. CASE ~MayFold(op, Narrow(t, b))
  BY <1>3 DEF Machine
<1> QED BY <1>2, <1>3

(* On operands and results that fit, the optimizer computes what the        *)
(* machine does.                                                            *)
LEMMA FoldMatches ==
  ASSUME NEW op \in Foldable, NEW t \in Type, NEW a \in Int, NEW b \in Int,
         InRange(t, a), InRange(t, b), MayFold(op, b),
         InRange(ResultType(op, t), Compute(op, t, a, b)),
         InRange("i64", Compute(op, t, a, b))
  PROVE  /\ Machine(op, t, a, b) = EvalBinop(op, ResultType(op, t), a, b)
         /\ InRange(ResultType(op, t), EvalBinop(op, ResultType(op, t), a, b))
<1>1. Narrow(t, a) = a /\ Narrow(t, b) = b
  BY NarrowType
<1>2. Compute(op, t, a, b) \in Int
  BY ComputeType
<1>3. Compute(op, ResultType(op, t), a, b) = Compute(op, t, a, b)
  <2>1. CASE op \in Comparison
    BY <2>1 DEF Compute, Comparison
  <2>2. CASE op \notin Comparison
    BY <2>2 DEF ResultType
  <2> QED BY <2>1, <2>2
<1>4. Machine(op, t, a, b) = Compute(op, t, a, b)
  BY <1>1, <1>2, NarrowType, ResultTypeType DEF Machine
<1>5. EvalBinop(op, ResultType(op, t), a, b) = Compute(op, t, a, b)
  BY <1>2, <1>3, NarrowType DEF EvalBinop, Type
<1> QED BY <1>4, <1>5

-----------------------------------------------------------------------------
(* The first pass.                                                          *)
LEMMA InitOpt == OptInit => OptInv
<1> SUFFICES ASSUME OptInit PROVE OptInv
  OBVIOUS
<1>1. source \in Sources /\ source \in [Position -> Inst] /\ ir = source
  BY SourceAssumption DEF OptInit
<1>2. OptTypeOK
  <2>1. at \in 1 .. Length + 1
    <3>1. at = 1 /\ Length \in Nat
      BY WidthAssumption DEF OptInit
    <3> QED BY <3>1
  <2>3. /\ opt_pass \in {"fold", "count", "remove", "done"}
        /\ removed \in BOOLEAN /\ exact \in BOOLEAN
        /\ assigned \subseteq VReg /\ written \subseteq VReg
    BY DEF OptInit
  <2>2. /\ is_const \in [VReg -> BOOLEAN] /\ value \in [VReg -> Int]
        /\ use_cnt \in [VReg -> Int]
        /\ source_env \in [VReg -> Int] /\ env \in [VReg -> Int]
    BY DEF OptInit
  <2> QED BY <1>1, <2>1, <2>2, <2>3 DEF OptTypeOK
<1>3. Known /\ ConstsHold /\ NotRun /\ Counted
  BY DEF OptInit, Known, ConstsHold, NotRun, Counted
<1>6. EnvsAgree
  BY DEF OptInit, EnvsAgree
<1>4. Untouched
  BY <1>1 DEF Untouched
<1>5. Related
  BY <1>1 DEF Related, Kept, SameOperand
<1> QED BY <1>1, <1>2, <1>3, <1>4, <1>5, <1>6 DEF OptInv

(* A table that only grows keeps what holds of its constants.               *)
LEMMA GrowsKeeps ==
  ASSUME NEW known, NEW val, NEW known1, NEW val1,
         \A v \in VReg : known[v] => known1[v] /\ val1[v] = val[v]
  PROVE  /\ \A inst \in Inst, x \in Int :
              Gives(known, val, inst, x) => Gives(known1, val1, inst, x)
         /\ \A s \in Inst, r \in Inst :
              Kept(known, val, s, r) => Kept(known1, val1, s, r)
         /\ \A s \in Inst, r \in Inst :
              FoldedTo(known, val, s, r) => FoldedTo(known1, val1, s, r)
<1>1. ASSUME NEW o \in Operand, KnownOperand(known, o)
      PROVE  KnownOperand(known1, o) /\ Constant(val1, o) = Constant(val, o)
  BY <1>1 DEF KnownOperand, Constant
<1>2. ASSUME NEW o \in Operand, NEW p, SameOperand(known, val, o, p)
      PROVE  SameOperand(known1, val1, o, p)
  BY <1>2 DEF SameOperand
<1>3. \A inst \in Inst, k \in Slot : inst.operand[k] \in Operand
  BY DEF Inst
<1>4. ASSUME NEW inst \in Inst, NEW x \in Int, Gives(known, val, inst, x)
      PROVE  Gives(known1, val1, inst, x)
  <2>1. inst.operand["src1"] \in Operand /\ inst.operand["src2"] \in Operand
    BY <1>3 DEF Slot
  <2>2. CASE inst.op = "load_imm" /\ x = inst.operand["src1"].imm
    BY <2>2 DEF Gives
  <2>3. CASE ~(inst.op = "load_imm" /\ x = inst.operand["src1"].imm)
    BY <1>1, <1>4, <2>1, <2>3 DEF Gives
  <2> QED BY <2>2, <2>3
<1>5. \A s \in Inst, r \in Inst : Kept(known, val, s, r) => Kept(known1, val1, s, r)
  BY <1>2, <1>3 DEF Kept
<1>6. \A s \in Inst, r \in Inst :
        FoldedTo(known, val, s, r) => FoldedTo(known1, val1, s, r)
  BY DEF FoldedTo
<1> QED BY <1>4, <1>5, <1>6

LEMMA SubstituteKeeps ==
  ASSUME OptTypeOK, NEW inst \in Inst
  PROVE  /\ Substitute(inst) \in Inst /\ Substitute(inst).targets = inst.targets
         /\ Kept(is_const, value, inst, Substitute(inst))
<1>1. inst.operand \in [Slot -> Operand]
  BY DEF Inst
<1>2. Substitute(inst).operand =
        [k \in Slot |->
           IF k \in Substituted /\ inst.operand[k].id \in VReg
              /\ is_const[inst.operand[k].id]
           THEN Immediate(value[inst.operand[k].id]) ELSE inst.operand[k]]
  BY DEF Substitute, Inst
<1>3. \A x \in Int : Immediate(x) \in Operand
  BY DEF Immediate, Operand
<1>4. Substitute(inst).operand \in [Slot -> Operand]
  BY <1>1, <1>2, <1>3 DEF OptTypeOK
<1>5. /\ Substitute(inst).op = inst.op /\ Substitute(inst).type = inst.type
      /\ Substitute(inst).dst = inst.dst /\ Substitute(inst).targets = inst.targets
  BY DEF Substitute, Inst
<1>6. Substitute(inst) \in Inst
  BY <1>4 DEF Substitute, Inst
<1>7. Kept(is_const, value, inst, Substitute(inst))
  BY <1>2, <1>5 DEF Kept, SameOperand
<1> QED BY <1>5, <1>6, <1>7

LEMMA FoldStep ==
  ASSUME OptInv, FoldInst
  PROVE  OptInv'
<1> DEFINE inst == Substitute(ir[at])
           binary == FoldsBinary(inst)
           known == binary \/ inst.op = "load_imm"
           x == IF binary THEN Folded(inst) ELSE inst.operand["src1"].imm
           d == inst.dst
           folded == LoadImm(inst, x)
<1>a. /\ opt_pass = "fold" /\ at \in Position /\ Length \in Nat /\ OptTypeOK
      /\ source \in Sources /\ source \in [Position -> Inst] /\ ir \in [Position -> Inst]
  <2>1. opt_pass = "fold" /\ at <= Length /\ OptTypeOK /\ source \in Sources
    BY DEF OptInv, FoldInst
  <2>2. at \in Position
    <3>1. at \in 1 .. Length + 1
      BY <2>1 DEF OptTypeOK
    <3> QED BY <2>1, <3>1, WidthAssumption DEF Position
  <2> QED BY <2>1, <2>2, WidthAssumption DEF OptTypeOK
<1>b. ir[at] = source[at] /\ source[at] \in Inst
  BY <1>a DEF OptInv, Untouched, Position
<1>c. /\ inst \in Inst /\ inst.targets = source[at].targets
      /\ Kept(is_const, value, source[at], inst)
  BY <1>a, <1>b, SubstituteKeeps
<1>d. /\ ir' = [ir EXCEPT ![at] = IF binary THEN folded ELSE inst]
      /\ Remember(d, known, x) /\ NextInst("count")
      /\ source' = source /\ removed' = removed /\ use_cnt' = use_cnt
      /\ assigned' = assigned /\ source_env' = source_env /\ written' = written
      /\ env' = env /\ exact' = exact
  BY DEF FoldInst, uses, run
<1>e. /\ inst.op = source[at].op /\ inst.type = source[at].type /\ d = source[at].dst
      /\ inst.op \in OpCode /\ inst.type \in Type /\ d \in VReg \cup {NoVReg}
      /\ \A k \in Slot : inst.operand[k] \in Operand /\ source[at].operand[k] \in Operand
  BY <1>b, <1>c DEF Kept, Inst
<1>f. ASSUME d \in VReg, is_const[d]
      PROVE  FALSE
  <2>1. PICK i \in Position : source[i].dst = d /\ i < at
    BY <1>a, <1>f DEF OptInv, Known
  <2>2. i = at
    BY <2>1, <1>a, <1>e, <1>f, SourceAssumption, WidthAssumption
  <2> QED BY <2>1, <2>2, <1>a DEF Position
<1>g. x \in Int
  <2>1. "src1" \in Slot /\ "src2" \in Slot
    BY DEF Slot
  <2>2. inst.operand["src1"].imm \in Int /\ inst.operand["src2"].imm \in Int
    BY <1>e, <2>1 DEF Operand
  <2>3. binary => Folded(inst) \in Int
    BY <1>e, <2>2, ComputeType, ResultTypeType, NarrowType
       DEF FoldsBinary, Folded, EvalBinop, Type
  <2> QED BY <2>2, <2>3
<1>h. /\ is_const' \in [VReg -> BOOLEAN] /\ value' \in [VReg -> Int]
      /\ \A w \in VReg : w # d => is_const'[w] = is_const[w] /\ value'[w] = value[w]
      /\ d \in VReg => is_const'[d] = known
      /\ d \in VReg /\ known => value'[d] = x
  <2>1. is_const \in [VReg -> BOOLEAN] /\ value \in [VReg -> Int]
    BY <1>a DEF OptTypeOK
  <2>2. CASE d \in VReg
    <3>1. /\ is_const' = [is_const EXCEPT ![d] = known]
          /\ value' = IF known THEN [value EXCEPT ![d] = x] ELSE value
      BY <1>d, <2>2 DEF Remember
    <3>2. known \in BOOLEAN
      BY DEF FoldsBinary
    <3> HIDE DEF known, x, d
    <3>3. is_const' \in [VReg -> BOOLEAN] /\ value' \in [VReg -> Int]
      BY <2>1, <2>2, <3>1, <3>2, <1>g
    <3>4. \A w \in VReg : w # d => is_const'[w] = is_const[w] /\ value'[w] = value[w]
      BY <2>1, <3>1
    <3>5. is_const'[d] = known /\ (known => value'[d] = x)
      BY <2>1, <2>2, <3>1
    <3> QED BY <3>3, <3>4, <3>5
  <2>3. CASE d \notin VReg
    BY <1>d, <2>1, <2>3 DEF Remember, const_map
  <2> QED BY <2>2, <2>3
<1>i. \A v \in VReg : is_const[v] => is_const'[v] /\ value'[v] = value[v]
  BY <1>f, <1>h
<1>j. /\ at' \in 1 .. Length + 1 /\ opt_pass' \in {"fold", "count"}
      /\ opt_pass' = "fold" => at' = at + 1
  BY <1>a, <1>d DEF NextInst, Position
<1>k. ASSUME binary
      PROVE  folded \in Inst /\ FoldedTo(is_const', value', source[at], folded)
  <2>1. d \in VReg /\ inst.op \in Foldable
    BY <1>k DEF FoldsBinary
  <2>2. is_const'[d] /\ value'[d] = x
    BY <1>h, <1>k, <2>1
  <2>3. inst.op \notin SideEffect
    BY <2>1 DEF Foldable, Arithmetic, Shift, Comparison, SideEffect
  <2>4. \A k \in Slot \ {"src1", "src2"} : source[at].operand[k] = NoOperand
    BY <2>3, <1>a, <1>e, SourceAssumption
  <2>5. \A k \in Slot \ {"src1", "src2"} : inst.operand[k] = NoOperand
    BY <2>4, <1>c, WidthAssumption DEF Kept, SameOperand, NoOperand
  <2>6. inst.operand \in [Slot -> Operand]
    BY <1>c DEF Inst
  <2>7. folded.operand
          = [inst.operand EXCEPT !["src1"] = Immediate(x), !["src2"] = NoOperand]
    BY <1>c DEF LoadImm, Inst
  <2>8. folded.operand
          = [k \in Slot |-> IF k = "src1" THEN Immediate(x) ELSE NoOperand]
    BY <2>5, <2>6, <2>7 DEF Slot
  <2>9. Immediate(x) \in Operand /\ NoOperand \in Operand
    BY <1>g DEF Immediate, NoOperand, Operand
  <2>10. folded.operand \in [Slot -> Operand]
    BY <2>8, <2>9
  <2>11. /\ folded.op = "load_imm" /\ folded.dst = d
         /\ folded.type = ResultType(inst.op, inst.type)
         /\ folded.targets = inst.targets
    BY <1>c DEF LoadImm, Inst
  <2>12. folded \in Inst
    <3>1. ResultType(inst.op, inst.type) \in Type
      BY <1>e, ResultTypeType
    <3> QED BY <1>c, <2>10, <2>11, <3>1 DEF LoadImm, Inst, OpCode
  <2>13. FoldedTo(is_const', value', source[at], folded)
    BY <1>e, <2>1, <2>2, <2>8, <2>11 DEF FoldedTo
  <2> QED BY <2>12, <2>13
<1>1. source' \in Sources /\ OptTypeOK'
  <2>1. ir' \in [Position -> Inst]
    BY <1>a, <1>c, <1>d, <1>k
  <2> QED BY <1>a, <1>d, <1>h, <1>j, <2>1 DEF OptTypeOK
<1>2. Known'
  <2> SUFFICES ASSUME NEW v \in VReg, is_const'[v]
               PROVE  \E i \in Position :
                        /\ source[i].dst = v
                        /\ Gives(is_const', value', source[i], value'[v])
                        /\ opt_pass' = "fold" => i < at'
    BY <1>d DEF Known
  <2>1. CASE v # d
    <3>1. is_const[v] /\ value'[v] = value[v] /\ value[v] \in Int
      BY <2>1, <1>a, <1>h DEF OptTypeOK
    <3>2. PICK i \in Position :
             source[i].dst = v /\ Gives(is_const, value, source[i], value[v]) /\ i < at
      BY <3>1, <1>a DEF OptInv, Known
    <3>3. source[i] \in Inst
      BY <1>a
    <3>4. Gives(is_const', value', source[i], value[v])
      BY <3>1, <3>2, <3>3, <1>i, GrowsKeeps
    <3>5. opt_pass' = "fold" => i < at'
      BY <3>2, <1>j, <1>a DEF Position
    <3> QED BY <3>1, <3>2, <3>4, <3>5
  <2>2. CASE v = d
    <3>1. known /\ value'[v] = x
      BY <2>2, <1>h
    <3>2. Gives(is_const', value', source[at], x)
      <4>a. "src1" \in Slot /\ "src2" \in Slot
        BY DEF Slot
      <4>1. CASE binary
        <5>1. /\ inst.op \in Foldable
              /\ inst.operand["src1"].id = Imm /\ inst.operand["src2"].id = Imm
              /\ MayFold(inst.op, inst.operand["src2"].imm)
          BY <4>1 DEF FoldsBinary, IsImm
        <5>2. ASSUME NEW k \in Slot, inst.operand[k].id = Imm
              PROVE  /\ KnownOperand(is_const', source[at].operand[k])
                     /\ Constant(value', source[at].operand[k]) = inst.operand[k].imm
          <6>1. SameOperand(is_const, value, source[at].operand[k], inst.operand[k])
            BY <1>c DEF Kept
          <6>2. CASE inst.operand[k] = source[at].operand[k]
            BY <5>2, <6>2 DEF KnownOperand, Constant
          <6>3. CASE inst.operand[k] # source[at].operand[k]
            BY <6>1, <6>3, <1>i, WidthAssumption
               DEF SameOperand, KnownOperand, Constant, Immediate
          <6> QED BY <6>2, <6>3
        <5>3. x = Folded(inst)
          BY <4>1
        <5> HIDE DEF inst, x
        <5> QED BY <4>a, <5>1, <5>2, <5>3, <1>e DEF Gives, Folded
      <4>2. CASE ~binary
        <5>1. inst.op = "load_imm" /\ x = inst.operand["src1"].imm
          BY <3>1, <4>2
        <5>2. source[at].operand["src1"].id = Imm
          BY <5>1, <1>a, <1>e, SourceAssumption
        <5>3. inst.operand["src1"] = source[at].operand["src1"]
          BY <5>2, <1>c, <4>a, WidthAssumption DEF Kept, SameOperand
        <5> HIDE DEF inst, x
        <5> QED BY <5>1, <5>3, <1>e DEF Gives
      <4> QED BY <4>1, <4>2
    <3>3. opt_pass' = "fold" => at < at'
      BY <1>j, <1>a DEF Position
    <3> QED BY <2>2, <3>1, <3>2, <3>3, <1>a, <1>e
  <2> QED BY <2>1, <2>2
<1>3. Untouched'
  BY <1>a, <1>d, <1>j DEF Untouched, OptInv, Position
<1>4. Related'
  <2> SUFFICES ASSUME NEW i \in Position
               PROVE  \/ Kept(is_const', value', source[i], ir'[i])
                      \/ FoldedTo(is_const', value', source[i], ir'[i])
    BY <1>d DEF Related
  <2>1. CASE i # at
    <3>1. ir'[i] = ir[i] /\ source[i] \in Inst /\ ir[i] \in Inst
      BY <2>1, <1>a, <1>d
    <3>2. \/ Kept(is_const, value, source[i], ir[i])
          \/ FoldedTo(is_const, value, source[i], ir[i])
      BY <1>a DEF OptInv, Related
    <3> QED BY <3>1, <3>2, <1>i, GrowsKeeps
  <2>2. CASE i = at /\ binary
    BY <2>2, <1>a, <1>d, <1>k
  <2>3. CASE i = at /\ ~binary
    <3>1. ir'[i] = inst
      BY <2>3, <1>a, <1>d
    <3>2. Kept(is_const', value', source[at], inst)
      BY <1>b, <1>c, <1>i, GrowsKeeps
    <3> QED BY <2>3, <3>1, <3>2
  <2> QED BY <2>1, <2>2, <2>3
<1>5. Counted' /\ NotRun'
  BY <1>a, <1>d, <1>j DEF Counted, NotRun, OptInv
<1>6. ConstsHold' /\ EnvsAgree'
  BY <1>a, <1>d DEF ConstsHold, EnvsAgree, NotRun, OptInv
<1> QED BY <1>1, <1>2, <1>3, <1>4, <1>5, <1>6 DEF OptInv

-----------------------------------------------------------------------------
(* The second pass: use_cnt counts the uses that are left.                  *)
LEMMA UsesFinite ==
  ASSUME NEW f, NEW v
  PROVE  /\ IsFiniteSet(UsesIn(f, v)) /\ Cardinality(UsesIn(f, v)) \in Nat
         /\ Cardinality(UsesIn(f, v)) = 0 => UsesIn(f, v) = {}
<1>1. IsFiniteSet(Position)
  BY FS_Interval, WidthAssumption DEF Position
<1>2. IsFiniteSet(Slot)
  <2>1. IsFiniteSet({})
    BY FS_EmptySet
  <2>2. IsFiniteSet({} \cup {"src1"})
    BY <2>1, FS_AddElement
  <2>3. IsFiniteSet(({} \cup {"src1"}) \cup {"src2"})
    BY <2>2, FS_AddElement
  <2>4. IsFiniteSet((({} \cup {"src1"}) \cup {"src2"}) \cup {"src3"})
    BY <2>3, FS_AddElement
  <2>5. IsFiniteSet(((({} \cup {"src1"}) \cup {"src2"}) \cup {"src3"}) \cup {"arg"})
    BY <2>4, FS_AddElement
  <2>6. IsFiniteSet((((({} \cup {"src1"}) \cup {"src2"}) \cup {"src3"}) \cup {"arg"})
                      \cup {"result_storage"})
    BY <2>5, FS_AddElement
  <2>7. IsFiniteSet(((((({} \cup {"src1"}) \cup {"src2"}) \cup {"src3"}) \cup {"arg"})
                      \cup {"result_storage"}) \cup {"callee"})
    BY <2>6, FS_AddElement
  <2>8. Slot = ((((({} \cup {"src1"}) \cup {"src2"}) \cup {"src3"}) \cup {"arg"})
                 \cup {"result_storage"}) \cup {"callee"}
    BY DEF Slot
  <2> QED BY <2>7, <2>8
<1>3. IsFiniteSet(Position \X Slot)
  BY <1>1, <1>2, FS_Product
<1>4. UsesIn(f, v) \subseteq Position \X Slot
  BY DEF UsesIn
<1>5. IsFiniteSet(UsesIn(f, v))
  BY <1>3, <1>4, FS_Subset
<1> QED BY <1>5, FS_CardinalityType, FS_EmptySet

LEMMA CardinalityWithout ==
  ASSUME NEW S, IsFiniteSet(S), NEW x
  PROVE  Cardinality(S \ {x}) = Cardinality(S) - (IF x \in S THEN 1 ELSE 0)
<1>1. CASE x \in S
  BY <1>1, FS_RemoveElement
<1>2. CASE x \notin S
  <2>1. S \ {x} = S
    BY <1>2
  <2>2. Cardinality(S) \in Nat
    BY FS_CardinalityType
  <2> QED BY <1>2, <2>1, <2>2
<1> QED BY <1>1, <1>2

LEMMA CountStep ==
  ASSUME OptInv, CountUses
  PROVE  OptInv'
<1>1. /\ opt_pass = "count" /\ opt_pass' = "remove" /\ removed' = FALSE
      /\ source' = source /\ ir' = ir /\ at' = at
      /\ is_const' = is_const /\ value' = value
      /\ assigned' = assigned /\ source_env' = source_env /\ written' = written
      /\ env' = env /\ exact' = exact
  BY DEF CountUses, const_map, run
<1>2. use_cnt' = [v \in VReg |-> Cardinality(UsesIn(ir, v))]
  BY DEF CountUses, UsesOf, UsesIn
<1>3. use_cnt' \in [VReg -> Int]
  BY <1>2, UsesFinite
<1>4. OptTypeOK'
  BY <1>1, <1>3 DEF OptInv, OptTypeOK
<1>5. Counted'
  BY <1>1, <1>2 DEF Counted
<1>6. source' \in Sources /\ Known' /\ Untouched' /\ Related'
  BY <1>1 DEF OptInv, Known, Untouched, Related
<1>7. ConstsHold' /\ EnvsAgree' /\ NotRun'
  BY <1>1 DEF OptInv, ConstsHold, EnvsAgree, NotRun
<1> QED BY <1>4, <1>5, <1>6, <1>7 DEF OptInv

LEMMA RemoveStep ==
  ASSUME OptInv, RemoveInst
  PROVE  OptInv'
<1> DEFINE inst == ir[at]
           d == inst.dst
<1>a. /\ opt_pass = "remove" /\ at \in Position /\ Length \in Nat /\ OptTypeOK
      /\ source \in Sources /\ source \in [Position -> Inst] /\ ir \in [Position -> Inst]
      /\ inst \in Inst /\ source[at] \in Inst /\ removed' \in BOOLEAN
  <2>1. /\ opt_pass = "remove" /\ at <= Length /\ OptTypeOK /\ source \in Sources
        /\ removed' = TRUE \/ removed' = removed
    BY DEF OptInv, RemoveInst, uses
  <2>2. at \in Position
    <3>1. at \in 1 .. Length + 1
      BY <2>1 DEF OptTypeOK
    <3> QED BY <2>1, <3>1, WidthAssumption DEF Position
  <2> QED BY <2>1, <2>2, WidthAssumption DEF OptTypeOK
<1>b. /\ source' = source /\ is_const' = is_const /\ value' = value
      /\ assigned' = assigned /\ source_env' = source_env /\ written' = written
      /\ env' = env /\ exact' = exact
  BY DEF RemoveInst, const_map, run
<1>c. at' \in 1 .. Length + 1 /\ opt_pass' \in {"remove", "count", "done"}
  BY <1>a DEF RemoveInst, NextInst, Position
<1>d. Known' /\ Untouched' /\ NotRun' /\ ConstsHold'
  <2>1. assigned = {} /\ written = {}
    BY <1>a DEF OptInv, NotRun
  <2>2. Known'
    BY <1>a, <1>b, <1>c DEF OptInv, Known
  <2> QED BY <1>b, <1>c, <2>1, <2>2 DEF Untouched, NotRun, ConstsHold
<1>e. EnvsAgree'
  BY <1>a, <1>b DEF OptInv, NotRun, EnvsAgree
<1>1. CASE ~Dead(inst)
  <2>1. ir' = ir /\ use_cnt' = use_cnt
    BY <1>1 DEF RemoveInst, uses
  <2>2. OptTypeOK' /\ Related' /\ Counted'
    <3>1. OptTypeOK'
      BY <1>a, <1>b, <1>c, <2>1 DEF OptTypeOK
    <3>2. Related'
      BY <1>a, <1>b, <1>c, <2>1 DEF OptInv, Related
    <3>3. Counted'
      BY <1>a, <2>1 DEF OptInv, Counted
    <3> QED BY <3>1, <3>2, <3>3
  <2> QED BY <1>a, <1>b, <1>d, <1>e, <2>2 DEF OptInv
<1>2. CASE Dead(inst)
  <2>1. /\ use_cnt' = [v \in VReg |-> use_cnt[v] - Occurs(inst, "src1", v)
                                       - Occurs(inst, "src2", v)]
        /\ ir' = [ir EXCEPT ![at] = Nop(inst)]
    BY <1>2 DEF RemoveInst
  <2>2. /\ inst.op \notin SideEffect \cup {"nop"} /\ d \in VReg /\ use_cnt[d] = 0
    BY <1>2 DEF Dead
  <2>3. Unused(ir, d)
    <3>1. Cardinality(UsesIn(ir, d)) = 0
      BY <1>a, <2>2 DEF OptInv, Counted
    <3>2. UsesIn(ir, d) = {}
      BY <3>1, UsesFinite
    <3>3. ASSUME NEW i \in Position, NEW k \in Slot
          PROVE  ir[i].operand[k].id # d
      <4>1. <<i, k>> \notin UsesIn(ir, d)
        BY <3>2
      <4> QED BY <4>1 DEF UsesIn
    <3> QED BY <3>3 DEF Unused
  <2>4. \/ Kept(is_const, value, source[at], inst)
        \/ FoldedTo(is_const, value, source[at], inst)
    <3>1. ~Removed(ir, source[at], inst)
      BY <2>2 DEF Removed
    <3> QED BY <1>a, <3>1 DEF OptInv, Related
  <2>5. source[at].op \notin SideEffect \cup {"nop"} /\ source[at].dst = d
    <3>1. CASE Kept(is_const, value, source[at], inst)
      BY <2>2, <3>1 DEF Kept
    <3>2. CASE FoldedTo(is_const, value, source[at], inst)
      BY <2>2, <3>2 DEF FoldedTo, Foldable, Arithmetic, Shift, Comparison, SideEffect
    <3> QED BY <2>4, <3>1, <3>2
  <2>6. \A k \in Slot \ {"src1", "src2"} : inst.operand[k] = NoOperand
    <3>1. \A k \in Slot \ {"src1", "src2"} : source[at].operand[k] = NoOperand
      BY <1>a, <2>5, SourceAssumption
    <3>2. CASE Kept(is_const, value, source[at], inst)
      BY <3>1, <3>2, WidthAssumption DEF Kept, SameOperand, NoOperand
    <3>3. CASE FoldedTo(is_const, value, source[at], inst)
      BY <3>3 DEF FoldedTo
    <3> QED BY <2>4, <3>2, <3>3
  <2>7. inst.operand \in [Slot -> Operand]
    BY <1>a DEF Inst
  <2>8. Nop(inst).operand = [k \in Slot |-> NoOperand]
    <3>1. Nop(inst).operand
            = [inst.operand EXCEPT !["src1"] = NoOperand, !["src2"] = NoOperand,
                                   !["arg"] = NoOperand]
      BY <1>a DEF Nop, Inst
    <3> QED BY <2>6, <2>7, <3>1 DEF Slot
  <2>9. /\ Nop(inst).op = "nop" /\ Nop(inst).dst = NoVReg
        /\ Nop(inst).type = inst.type /\ Nop(inst).targets = inst.targets
    BY <1>a DEF Nop, Inst
  <2>10. Nop(inst) \in Inst
    <3>1. NoOperand \in Operand
      BY DEF NoOperand, Operand
    <3>2. Nop(inst).operand \in [Slot -> Operand]
      BY <2>8, <3>1
    <3> QED BY <1>a, <2>9, <3>2 DEF Nop, Inst, OpCode
  <2>11. /\ ir' \in [Position -> Inst] /\ ir'[at] = Nop(inst)
         /\ \A i \in Position : i # at => ir'[i] = ir[i]
    BY <1>a, <2>1, <2>10
  <2>12. \A v \in VReg : Unused(ir, v) => Unused(ir', v)
    BY <2>8, <2>11, WidthAssumption DEF Unused, NoOperand
  <2>13. OptTypeOK'
    <3>1. use_cnt' \in [VReg -> Int]
      BY <1>a, <2>1 DEF OptTypeOK, Occurs
    <3> QED BY <1>a, <1>b, <1>c, <2>11, <3>1 DEF OptTypeOK
  <2>14. Related'
    <3> SUFFICES ASSUME NEW i \in Position
                 PROVE  \/ Kept(is_const, value, source[i], ir'[i])
                        \/ FoldedTo(is_const, value, source[i], ir'[i])
                        \/ Removed(ir', source[i], ir'[i])
      BY <1>b, <1>c DEF Related
    <3>1. CASE i = at
      BY <2>2, <2>3, <2>5, <2>8, <2>9, <2>11, <2>12, <3>1 DEF Removed
    <3>2. CASE i # at
      <4>1. ir'[i] = ir[i]
        BY <2>11, <3>2
      <4>2. Removed(ir, source[i], ir[i]) => Removed(ir', source[i], ir[i])
        BY <2>12 DEF Removed
      <4> QED BY <4>1, <4>2 DEF OptInv, Related
    <3> QED BY <3>1, <3>2
  <2>15. Counted'
    <3> SUFFICES ASSUME NEW v \in VReg
                 PROVE  use_cnt'[v] = Cardinality(UsesIn(ir', v))
      BY DEF Counted
    <3> DEFINE S == UsesIn(ir, v)
               one == <<at, "src1">>
               two == <<at, "src2">>
    <3>1. use_cnt[v] = Cardinality(S) /\ IsFiniteSet(S) /\ Cardinality(S) \in Nat
      BY <1>a, UsesFinite DEF OptInv, Counted
    <3>2. /\ one \in S <=> inst.operand["src1"].id = v
          /\ two \in S \ {one} <=> inst.operand["src2"].id = v
      BY <1>a DEF UsesIn, Slot
    <3>3. UsesIn(ir', v) = (S \ {one}) \ {two}
      <4>1. ASSUME NEW i \in Position, NEW k \in Slot
            PROVE  <<i, k>> \in UsesIn(ir', v) <=> <<i, k>> \in (S \ {one}) \ {two}
        <5>1. <<i, k>> \in UsesIn(ir', v) <=> ir'[i].operand[k].id = v
          BY DEF UsesIn
        <5>2. <<i, k>> \in S <=> ir[i].operand[k].id = v
          BY DEF UsesIn
        <5>3. CASE i # at
          BY <5>1, <5>2, <5>3, <2>11
        <5>4. CASE i = at
          <6>1. <<i, k>> \notin UsesIn(ir', v)
            BY <5>1, <5>4, <2>8, <2>11, WidthAssumption DEF NoOperand
          <6>2. k \notin {"src1", "src2"} => <<i, k>> \notin S
            BY <5>2, <5>4, <2>6, WidthAssumption DEF NoOperand
          <6> QED BY <5>4, <6>1, <6>2
        <5> QED BY <5>3, <5>4
      <4>2. UsesIn(ir', v) \subseteq Position \X Slot /\ S \subseteq Position \X Slot
        BY DEF UsesIn
      <4> QED BY <4>1, <4>2
    <3>4. Cardinality(S \ {one})
            = Cardinality(S) - Occurs(inst, "src1", v)
      BY <3>1, <3>2, CardinalityWithout DEF Occurs
    <3>5. IsFiniteSet(S \ {one})
      BY <3>1, FS_Subset
    <3>6. Cardinality((S \ {one}) \ {two})
            = Cardinality(S \ {one}) - Occurs(inst, "src2", v)
      BY <3>2, <3>5, CardinalityWithout DEF Occurs
    <3>7. use_cnt'[v] = use_cnt[v] - Occurs(inst, "src1", v) - Occurs(inst, "src2", v)
      BY <2>1
    <3> QED BY <3>1, <3>3, <3>4, <3>6, <3>7
  <2> QED BY <1>a, <1>b, <1>d, <1>e, <2>13, <2>14, <2>15 DEF OptInv
<1> QED BY <1>1, <1>2

-----------------------------------------------------------------------------
(* The two runs.                                                            *)
LEMMA ReadType ==
  ASSUME NEW inst \in Inst, NEW e \in [VReg -> Int], NEW k \in Slot
  PROVE  Read(inst, k, e) \in Int
<1>1. inst.operand[k] \in Operand /\ inst.type \in Type
  BY DEF Inst
<1> QED BY <1>1, NarrowType DEF Read, Operand

LEMMA ResultInt ==
  ASSUME NEW inst \in Inst, NEW e \in [VReg -> Int], NEW x \in Inputs
  PROVE  Result(inst, e, x) \in Int
<1>1. Read(inst, "src1", e) \in Int /\ Read(inst, "src2", e) \in Int
  BY ReadType DEF Slot
<1>2. inst.type \in Type
  BY DEF Inst
<1> QED BY <1>1, <1>2, MachineType, WidthAssumption DEF Result

(* What a kept instruction reads in either run.                             *)
LEMMA KeptReads ==
  ASSUME OptInv, NEW i \in Position, exact, UsedBy(source[i]) \subseteq assigned,
         Kept(is_const, value, source[i], ir[i])
  PROVE  /\ UsedBy(ir[i]) \subseteq written
         /\ \A k \in Slot : Read(ir[i], k, env) = Read(source[i], k, source_env)
<1> DEFINE s == source[i]
           r == ir[i]
<1>1. r.type = s.type /\ \A k \in Slot : SameOperand(is_const, value, s.operand[k], r.operand[k])
  BY DEF Kept
<1>2. ASSUME NEW k \in Slot, r.operand[k].id \in VReg
      PROVE  /\ r.operand[k] = s.operand[k] /\ r.operand[k].id \in written
             /\ env[r.operand[k].id] = source_env[r.operand[k].id]
  <2>1. r.operand[k] = s.operand[k]
    <3>1. SameOperand(is_const, value, s.operand[k], r.operand[k])
      BY <1>1
    <3>2. \A z : Immediate(z).id = Imm
      BY DEF Immediate
    <3>3. Imm \notin VReg
      BY WidthAssumption
    <3> QED BY <1>2, <3>1, <3>2, <3>3 DEF SameOperand
  <2>2. r.operand[k].id \in assigned
    BY <1>2, <2>1 DEF UsedBy
  <2>3. ~Unused(ir, r.operand[k].id)
    BY DEF Unused
  <2>4. r.operand[k].id \in written
    BY <2>2, <2>3 DEF OptInv, EnvsAgree
  <2> QED BY <2>1, <2>4 DEF OptInv, EnvsAgree
<1>3. UsedBy(r) \subseteq written
  BY <1>2 DEF UsedBy
<1>4. ASSUME NEW k \in Slot
      PROVE  Read(r, k, env) = Read(s, k, source_env)
  <2>1. CASE r.operand[k] = s.operand[k]
    BY <1>1, <1>2, <2>1 DEF Read, IsImm
  <2>2. CASE r.operand[k] # s.operand[k]
    <3>1. /\ s.operand[k].id \in VReg /\ is_const[s.operand[k].id]
          /\ r.operand[k] = Immediate(value[s.operand[k].id])
      BY <1>1, <2>2 DEF SameOperand
    <3>2. s.operand[k].id \in assigned
      BY <3>1 DEF UsedBy
    <3>3. source_env[s.operand[k].id] = value[s.operand[k].id]
      BY <3>1, <3>2 DEF OptInv, ConstsHold
    <3>4. Read(r, k, env) = Narrow(s.type, value[s.operand[k].id])
      BY <1>1, <3>1, WidthAssumption DEF Read, IsImm, Immediate
    <3> QED BY <3>1, <3>3, <3>4 DEF Read
  <2> QED BY <2>1, <2>2
<1> QED BY <1>3, <1>4

(* A register that is known to be constant gets its constant.               *)
LEMMA ConstantResult ==
  ASSUME OptInv, NEW i \in Position, exact, UsedBy(source[i]) \subseteq assigned,
         Fits(source[i], source_env), NEW x,
         source[i].dst \in VReg, is_const[source[i].dst]
  PROVE  /\ Result(source[i], source_env, x) = value[source[i].dst]
         /\ source[i].op \in Foldable =>
              InRange(ResultType(source[i].op, source[i].type), value[source[i].dst])
<1> DEFINE s == source[i]
           z == value[s.dst]
<1>1. source \in Sources /\ s \in Inst /\ s.type \in Type /\ OptTypeOK
  <2>1. OptTypeOK /\ source \in Sources
    BY DEF OptInv
  <2>2. s \in Inst
    BY <2>1 DEF OptTypeOK
  <2> QED BY <2>1, <2>2 DEF Inst
<1>2. Gives(is_const, value, s, z)
  <2>1. PICK j \in Position : source[j].dst = s.dst /\ Gives(is_const, value, source[j], z)
    BY DEF OptInv, Known
  <2>2. j = i
    BY <1>1, <2>1, SourceAssumption, WidthAssumption
  <2> QED BY <2>1, <2>2
<1>3. ASSUME NEW k \in Slot, KnownOperand(is_const, s.operand[k])
      PROVE  /\ Read(s, k, source_env) = Constant(value, s.operand[k])
             /\ Constant(value, s.operand[k]) \in Int
             /\ InRange(s.type, Constant(value, s.operand[k]))
  <2>1. s.operand[k] \in Operand
    BY <1>1 DEF Inst
  <2>2. CASE s.operand[k].id = Imm
    <3>1. InRange(s.type, s.operand[k].imm) /\ s.operand[k].imm \in Int
      BY <2>1, <2>2 DEF Fits, Operand
    <3> QED BY <1>1, <2>2, <3>1, NarrowType, WidthAssumption DEF Read, IsImm, Constant
  <2>3. CASE s.operand[k].id # Imm
    <3>1. s.operand[k].id \in VReg /\ is_const[s.operand[k].id]
      BY <1>3, <2>3 DEF KnownOperand
    <3>2. s.operand[k].id \in assigned
      BY <3>1 DEF UsedBy
    <3>3. source_env[s.operand[k].id] = value[s.operand[k].id]
      BY <3>1, <3>2 DEF OptInv, ConstsHold
    <3>4. InRange(s.type, source_env[s.operand[k].id]) /\ source_env[s.operand[k].id] \in Int
      BY <1>1, <3>1 DEF Fits, OptTypeOK
    <3> QED BY <1>1, <2>3, <3>1, <3>3, <3>4, NarrowType DEF Read, Constant
  <2> QED BY <2>2, <2>3
<1>a. "src1" \in Slot /\ "src2" \in Slot
  BY DEF Slot
<1>4. CASE s.op = "load_imm"
  <2>1. s.op \notin Foldable
    BY <1>4 DEF Foldable, Arithmetic, Shift, Comparison
  <2>2. s.operand["src1"].id = Imm /\ z = s.operand["src1"].imm
    BY <1>1, <1>2, <1>4, <2>1, SourceAssumption DEF Gives
  <2>3. Read(s, "src1", source_env) = z
    BY <1>a, <1>3, <2>2 DEF KnownOperand, Constant
  <2> QED BY <1>4, <2>1, <2>3 DEF Result
<1>5. CASE s.op # "load_imm"
  <2> DEFINE a == Constant(value, s.operand["src1"])
             b == Constant(value, s.operand["src2"])
  <2>1. /\ s.op \in Foldable
        /\ KnownOperand(is_const, s.operand["src1"])
        /\ KnownOperand(is_const, s.operand["src2"])
        /\ z = EvalBinop(s.op, ResultType(s.op, s.type), a, b)
    BY <1>2, <1>5 DEF Gives
  <2>2. /\ Read(s, "src1", source_env) = a /\ a \in Int /\ InRange(s.type, a)
        /\ Read(s, "src2", source_env) = b /\ b \in Int /\ InRange(s.type, b)
    BY <1>a, <1>3, <2>1
  <2>3. /\ MayFold(s.op, b)
        /\ InRange(ResultType(s.op, s.type), Compute(s.op, s.type, a, b))
        /\ InRange("i64", Compute(s.op, s.type, a, b))
    BY <2>1, <2>2 DEF Fits
  <2> HIDE DEF a, b
  <2>4. /\ Machine(s.op, s.type, a, b) = z
        /\ InRange(ResultType(s.op, s.type), z)
    BY <1>1, <2>1, <2>2, <2>3, FoldMatches
  <2>5. Result(s, source_env, x) = Machine(s.op, s.type, a, b)
    BY <1>5, <2>1, <2>2 DEF Result
  <2> QED BY <2>4, <2>5
<1> QED BY <1>4, <1>5

LEMMA RunStep ==
  ASSUME OptInv, Run
  PROVE  OptInv'
<1> DEFINE s == source[at]
           r == ir[at]
<1>a. /\ opt_pass = "done" /\ at \in Position /\ Length \in Nat /\ OptTypeOK
      /\ source \in Sources /\ s \in Inst /\ r \in Inst
      /\ UsedBy(s) \subseteq assigned
  <2>1. opt_pass = "done" /\ at <= Length /\ OptTypeOK /\ source \in Sources
        /\ UsedBy(s) \subseteq assigned
    BY DEF OptInv, Run
  <2>2. at \in Position
    <3>1. at \in 1 .. Length + 1
      BY <2>1 DEF OptTypeOK
    <3> QED BY <2>1, <3>1, WidthAssumption DEF Position
  <2> QED BY <2>1, <2>2, WidthAssumption DEF OptTypeOK
<1>b. /\ source' = source /\ ir' = ir /\ opt_pass' = opt_pass
      /\ is_const' = is_const /\ value' = value
      /\ use_cnt' = use_cnt /\ removed' = removed
  BY DEF Run, const_map, uses
<1>c. PICK x \in Inputs : /\ source_env' = Assign(s, source_env, x)
                          /\ env' = Assign(r, env, x)
  BY DEF Run
<1>d. /\ exact' = (exact /\ Fits(s, source_env))
      /\ assigned' = assigned \cup Defines(s) /\ written' = written \cup Defines(r)
      /\ at' \in IF s.targets = {} THEN {at + 1} ELSE s.targets
  BY DEF Run
<1>e. /\ source_env \in [VReg -> Int] /\ env \in [VReg -> Int]
      /\ Result(s, source_env, x) \in Int /\ Result(r, env, x) \in Int
      /\ assigned \subseteq VReg /\ written \subseteq VReg
  BY <1>a, ResultInt DEF OptTypeOK
<1>f. /\ source_env' \in [VReg -> Int] /\ env' \in [VReg -> Int]
      /\ \A v \in VReg : v # s.dst => source_env'[v] = source_env[v]
      /\ \A v \in VReg : v # r.dst => env'[v] = env[v]
      /\ s.dst \in VReg => source_env'[s.dst] = Result(s, source_env, x)
      /\ r.dst \in VReg => env'[r.dst] = Result(r, env, x)
  BY <1>c, <1>e DEF Assign
<1>g. \/ Kept(is_const, value, s, r)
      \/ FoldedTo(is_const, value, s, r)
      \/ Removed(ir, s, r)
  BY <1>a DEF OptInv, Related
<1>1. source' \in Sources /\ OptTypeOK'
  <2>1. at' \in 1 .. Length + 1
    <3>1. s.targets \subseteq Position
      BY <1>a DEF Inst
    <3> QED BY <1>a, <1>d, <3>1 DEF Position
  <2>2. exact' \in BOOLEAN
    BY <1>d
  <2>3. assigned' \subseteq VReg /\ written' \subseteq VReg
    BY <1>d, <1>e DEF Defines
  <2> QED BY <1>a, <1>b, <1>f, <2>1, <2>2, <2>3 DEF OptTypeOK
<1>2. Known' /\ Untouched' /\ Related' /\ Counted' /\ NotRun'
  <2>1. Known' /\ Untouched'
    BY <1>a, <1>b DEF OptInv, Known, Untouched
  <2>2. Related'
    BY <1>a, <1>b DEF OptInv, Related
  <2> QED BY <1>a, <1>b, <2>1, <2>2 DEF Counted, NotRun
<1>3. ConstsHold'
  <2> SUFFICES ASSUME exact, Fits(s, source_env), NEW v \in assigned', is_const[v]
               PROVE  source_env'[v] = value[v]
    BY <1>b, <1>d DEF ConstsHold
  <2>1. CASE v = s.dst
    <3>1. v \in VReg
      BY <1>d, <1>e DEF Defines
    <3> QED BY <2>1, <3>1, <1>a, <1>f, ConstantResult
  <2>2. CASE v # s.dst
    <3>1. v \in assigned /\ v \in VReg
      BY <1>d, <1>e, <2>2 DEF Defines
    <3> QED BY <2>2, <3>1, <1>f DEF OptInv, ConstsHold
  <2> QED BY <2>1, <2>2
<1>4. EnvsAgree'
  <2>1. ASSUME exact, Fits(s, source_env), NEW v \in written'
        PROVE  env'[v] = source_env'[v]
    <3>1. CASE v = r.dst
      <4>1. v \in VReg
        BY <1>d, <1>e DEF Defines
      <4>2. s.dst = v /\ (Kept(is_const, value, s, r) \/ FoldedTo(is_const, value, s, r))
        BY <3>1, <4>1, <1>g, WidthAssumption DEF Kept, FoldedTo, Removed
      <4>3. Result(r, env, x) = Result(s, source_env, x)
        <5>1. CASE Kept(is_const, value, s, r)
          <6>1. /\ Read(r, "src1", env) = Read(s, "src1", source_env)
                /\ Read(r, "src2", env) = Read(s, "src2", source_env)
            BY <2>1, <5>1, <1>a, KeptReads DEF Slot
          <6>2. r.op = s.op /\ r.type = s.type
            BY <5>1 DEF Kept
          <6> QED BY <6>1, <6>2 DEF Result
        <5>2. CASE FoldedTo(is_const, value, s, r)
          <6>1. /\ s.op \in Foldable /\ is_const[v] /\ r.op = "load_imm"
                /\ r.type = ResultType(s.op, s.type)
                /\ r.operand["src1"] = Immediate(value[v])
            BY <4>2, <5>2 DEF FoldedTo, Slot
          <6>2. /\ Result(s, source_env, x) = value[v]
                /\ InRange(r.type, value[v])
            BY <2>1, <4>1, <4>2, <6>1, <1>a, ConstantResult
          <6>3. Result(r, env, x) = Narrow(r.type, value[v])
            BY <6>1, WidthAssumption DEF Result, Read, IsImm, Immediate
          <6>4. r.type \in Type /\ value[v] \in Int
            BY <4>1, <1>a DEF Inst, OptTypeOK
          <6> QED BY <6>2, <6>3, <6>4, NarrowType
        <5> QED BY <4>2, <5>1, <5>2
      <4> QED BY <3>1, <4>1, <4>2, <4>3, <1>f
    <3>2. CASE v # r.dst
      <4>1. v \in written /\ v \in VReg
        BY <3>2, <1>d, <1>e DEF Defines
      <4>2. v # s.dst
        <5> SUFFICES ASSUME v = s.dst PROVE FALSE
          OBVIOUS
        <5>1. PICK j \in Position : ir[j].dst = v
          BY <4>1 DEF OptInv, EnvsAgree
        <5>2. source[j].dst = v
          <6>1. ~Removed(ir, source[j], ir[j])
            BY <4>1, <5>1, WidthAssumption DEF Removed
          <6> QED BY <5>1, <6>1 DEF OptInv, Related, Kept, FoldedTo
        <5>3. j = at
          BY <4>1, <5>2, <1>a, SourceAssumption, WidthAssumption
        <5> QED BY <3>2, <5>1, <5>3
      <4> QED BY <2>1, <3>2, <4>1, <4>2, <1>f DEF OptInv, EnvsAgree
    <3> QED BY <3>1, <3>2
  <2>2. ASSUME NEW v \in written'
        PROVE  \E i \in Position : ir[i].dst = v
    <3>1. CASE v \in written
      BY <3>1 DEF OptInv, EnvsAgree
    <3>2. CASE v \notin written
      BY <3>2, <1>a, <1>d DEF Defines
    <3> QED BY <3>1, <3>2
  <2>3. ASSUME NEW v \in assigned' \ written'
        PROVE  Unused(ir, v)
    <3>1. CASE v \in assigned
      BY <3>1, <2>3, <1>d DEF OptInv, EnvsAgree
    <3>2. CASE v \notin assigned
      <4>1. v = s.dst /\ v # r.dst /\ v \in VReg
        BY <3>2, <2>3, <1>d DEF Defines
      <4> QED BY <4>1, <1>g DEF Kept, FoldedTo, Removed
    <3> QED BY <3>1, <3>2
  <2>4. exact' => exact /\ Fits(s, source_env)
    BY <1>d
  <2> QED BY <1>b, <2>1, <2>2, <2>3, <2>4 DEF EnvsAgree
<1> QED BY <1>1, <1>2, <1>3, <1>4 DEF OptInv

LEMMA OptInductive == OptInv /\ [OptNext]_opt => OptInv'
<1> SUFFICES ASSUME OptInv, [OptNext]_opt PROVE OptInv'
  OBVIOUS
<1>1. CASE UNCHANGED opt
  BY <1>1 DEF opt, const_map, uses, run, OptInv, OptTypeOK, Known, Untouched,
              Related, Counted, ConstsHold, EnvsAgree, NotRun
<1> QED BY <1>1, FoldStep, CountStep, RemoveStep, RunStep DEF OptNext

LEMMA OptInvEffects == OptInv => SameEffects
<1> SUFFICES ASSUME OptInv, opt_pass = "done", at <= Length, exact,
                    UsedBy(source[at]) \subseteq assigned
             PROVE  /\ source[at].op \in SideEffect => ir[at].op = source[at].op
                    /\ UsedBy(ir[at]) \subseteq written
                    /\ ir[at].op = source[at].op =>
                         Reads(ir[at], env) = Reads(source[at], source_env)
  BY DEF SameEffects
<1>1. at \in Position
  BY WidthAssumption DEF OptInv, OptTypeOK, Position
<1>2. CASE Kept(is_const, value, source[at], ir[at])
  BY <1>1, <1>2, KeptReads DEF Kept, Reads
<1>3. CASE FoldedTo(is_const, value, source[at], ir[at])
  <2>1. source[at].op \notin SideEffect /\ source[at].op # ir[at].op
    BY <1>3 DEF FoldedTo, Foldable, Arithmetic, Shift, Comparison, SideEffect
  <2>2. UsedBy(ir[at]) = {}
    BY <1>3, WidthAssumption DEF FoldedTo, UsedBy, Immediate, NoOperand
  <2> QED BY <2>1, <2>2
<1>4. CASE Removed(ir, source[at], ir[at])
  <2>1. source[at].op \notin SideEffect /\ source[at].op # ir[at].op
    BY <1>4 DEF Removed
  <2>2. UsedBy(ir[at]) = {}
    BY <1>4, WidthAssumption DEF Removed, UsedBy, NoOperand
  <2> QED BY <2>1, <2>2
<1> QED BY <1>1, <1>2, <1>3, <1>4 DEF OptInv, Related

(* Folding constants and removing dead code loses no side effect and        *)
(* changes nothing an instruction reads, for functions of any length, along *)
(* every path, as long as the source stays within its signed types.         *)
THEOREM KeepsEffects == OptSpec => []SameEffects
<1>1. OptInit => OptInv
  BY InitOpt
<1>2. OptInv /\ [OptNext]_opt => OptInv'
  BY OptInductive
<1>3. OptInv => SameEffects
  BY OptInvEffects
<1> QED BY <1>1, <1>2, <1>3, PTL DEF OptSpec

-----------------------------------------------------------------------------
(* The pipeline.                                                            *)

(* What the optimizer has left is a function in single assignment form.     *)
LEMMA StaysSingle ==
  ASSUME OptInv
  PROVE  /\ Seen(ir) \in [Position -> Instruction]
         /\ \A i, j \in Position :
              Seen(ir)[i].dst = Seen(ir)[j].dst /\ Seen(ir)[i].dst # NoVReg => i = j
<1>1. /\ source \in Sources /\ ir \in [Position -> Inst] /\ Related
  BY DEF OptInv, OptTypeOK
<1>2. ASSUME NEW i \in Position
      PROVE  Seen(ir)[i] \in Instruction
  <2>1. /\ ir[i].dst \in VReg \cup {NoVReg} /\ ir[i].targets \in SUBSET Position
    BY <1>1 DEF Inst
  <2>2. OpSeen(ir[i].op) \in Op /\ UsedBy(ir[i]) \in SUBSET VReg
    BY DEF OpSeen, Op, UsedBy
  <2> QED BY <2>1, <2>2 DEF Seen, Instruction
<1>3. ASSUME NEW i \in Position
      PROVE  ir[i].dst \in {source[i].dst, NoVReg}
  BY <1>1 DEF Related, Kept, FoldedTo, Removed
<1>4. ASSUME NEW i \in Position, NEW j \in Position,
             Seen(ir)[i].dst = Seen(ir)[j].dst, Seen(ir)[i].dst # NoVReg
      PROVE  i = j
  <2>1. ir[i].dst = ir[j].dst /\ ir[i].dst # NoVReg
    BY <1>4 DEF Seen
  <2>2. source[i].dst = source[j].dst /\ source[i].dst # NoVReg
    BY <1>3, <2>1
  <2> QED BY <1>1, <2>2, SourceAssumption
<1> QED BY <1>2, <1>4 DEF Seen

(* The allocator works on what the optimizer has left, or has not begun.    *)
HandedOver == (opt_pass = "done" /\ code = Seen(ir)) \/ Start
PipelineInv == OptInv /\ IInv /\ RunInv /\ HandedOver

LEMMA PipelineStart == PipelineInit => PipelineInv
<1> SUFFICES ASSUME PipelineInit PROVE PipelineInv
  OBVIOUS
<1>1. OptInv /\ Start /\ code = Seen(ir)
  BY InitOpt DEF PipelineInit, OptInit
<1>2. code \in [Position -> Instruction] /\ SingleAssignment
  BY <1>1, StaysSingle DEF SingleAssignment
<1> QED BY <1>1, <1>2, StartIInv, StartRunInv DEF PipelineInv, HandedOver

LEMMA PipelineStep ==
  ASSUME PipelineInv, [PipelineNext]_<<vars, opt>>
  PROVE  PipelineInv'
<1> USE DEF PipelineInv
<1>1. CASE Optimize
  <2>1. OptInv'
    BY <1>1, OptInductive DEF Optimize, OptNext
  <2>2. IInv' /\ RunInv'
    BY <1>1, NextIInv, NextRunInv DEF Optimize
  <2>3. opt_pass # "done"
    BY <1>1 DEF Optimize, FoldInst, CountUses, RemoveInst
  <2>4. Start'
    BY <1>1, <2>3 DEF HandedOver, Optimize, Start, vars, ranges, registers, machine
  <2> QED BY <2>1, <2>2, <2>4 DEF HandedOver
<1>2. CASE HandOver
  <2>1. OptInv'
    BY <1>2, OptInductive DEF HandOver
  <2>2. Start
    BY <1>2 DEF HandedOver, HandOver
  <2>3. Start'
    BY <1>2, <2>2 DEF HandOver, Start, ranges, registers, machine
  <2>4. code' = Seen(ir)
    BY <1>2 DEF HandOver
  <2>5. code' \in [Position -> Instruction] /\ SingleAssignment'
    BY <2>4, StaysSingle DEF SingleAssignment
  <2>6. IInv'
    <3>1. (code \in [Position -> Instruction])' /\ SingleAssignment'
      BY <2>5
    <3>2. Start'
      BY <2>3
    <3> QED BY <3>1, <3>2, StartIInv, PTL
  <2>7. RunInv'
    BY <2>3, StartRunInv, PTL
  <2> QED BY <2>1, <2>3, <2>6, <2>7 DEF HandedOver
<1>3. CASE AllocateRegisters
  <2>1. OptInv'
    BY <1>3, OptInductive DEF AllocateRegisters
  <2>2. IInv' /\ RunInv'
    BY <1>3, NextIInv, NextRunInv DEF AllocateRegisters, Next
  <2>3. opt_pass' = "done" /\ code' = code /\ ir' = ir /\ code = Seen(ir)
    BY <1>3 DEF AllocateRegisters, opt, Number, Extend, Allocate, LeaveInFrame
  <2> QED BY <2>1, <2>2, <2>3 DEF HandedOver, Seen
<1>4. CASE Emitted
  <2>1. OptInv'
    BY <1>4, OptInductive DEF Emitted, OptNext
  <2>2. IInv' /\ RunInv'
    BY <1>4, NextIInv, NextRunInv DEF Emitted, Next
  <2>3. opt_pass' = "done" /\ code' = code /\ ir' = ir /\ opt_pass = "done"
    BY <1>4 DEF Emitted, Run, Execute
  <2>4. ~Start
    BY <1>4 DEF Emitted, Execute, Start
  <2>5. code = Seen(ir)
    BY <2>4 DEF HandedOver
  <2> QED BY <2>1, <2>2, <2>3, <2>5 DEF HandedOver, Seen
<1>5. CASE UNCHANGED <<vars, opt>>
  <2>1. OptInv'
    BY <1>5, OptInductive
  <2>2. IInv' /\ RunInv'
    BY <1>5, NextIInv, NextRunInv
  <2>3. HandedOver'
    BY <1>5 DEF HandedOver, Start, Seen, vars, ranges, registers, machine, opt
  <2> QED BY <2>1, <2>2, <2>3
<1> QED BY <1>1, <1>2, <1>3, <1>4, <1>5 DEF PipelineNext

LEMMA PipelineAlways == PipelineSpec => []PipelineInv
<1> QED BY PipelineStart, PipelineStep, PTL DEF PipelineSpec

(* In the compiler as a whole no two virtual registers that share a         *)
(* register have ranges that meet: what ir_opt.c leaves is in the form that *)
(* ir_regalloc.c relies on.                                                 *)
THEOREM PipelineDisjoint == PipelineSpec => []RangesDisjoint
<1>1. PipelineInv => RangesDisjoint
  BY DEF PipelineInv, IInv
<1> QED BY PipelineAlways, <1>1, PTL

(* The emitted code of an optimized function reads each operand from a      *)
(* register that holds it, along every path on which the function is run.   *)
THEOREM PipelineReads == PipelineSpec => []RightValue
<1>1. PipelineInv => RightValue
  BY ReadsRight DEF PipelineInv
<1> QED BY PipelineAlways, <1>1, PTL

(* Every side effect of the source is there when the emitted code runs, and *)
(* what it reads is what it reads in the source.                            *)
THEOREM PipelineEffects == PipelineSpec => []SameEffects
<1>1. PipelineInv => SameEffects
  BY OptInvEffects DEF PipelineInv
<1> QED BY PipelineAlways, <1>1, PTL
=============================================================================
