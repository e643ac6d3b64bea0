----------------------------- MODULE IrPipeline -----------------------------
(***************************************************************************)
(* The way of a function from the lowering to the emitted code, as         *)
(* src/src/main.c orders it: IrOpt's passes, then RegAlloc's on what they  *)
(* leave.  The emitted code, with its registers, runs together with the    *)
(* values IrOpt's two runs compute.                                        *)
(***************************************************************************)
EXTENDS RegAlloc, IrOpt

(* What the allocator looks at in an instruction.                           *)
OpSeen(op) ==
  IF op \in Clobbering THEN op ELSE IF op \in {"br", "br_cond"} THEN "branch" ELSE "other"
Seen(f) ==
  [i \in Position |->
     [op |-> OpSeen(f[i].op), dst |-> f[i].dst, uses |-> UsedBy(f[i]),
      targets |-> f[i].targets]]

PipelineInit == OptInit /\ Start /\ code = Seen(source)

Optimize == (FoldInst \/ CountUses \/ RemoveInst) /\ UNCHANGED vars
HandOver ==
  /\ opt_pass = "done" /\ pass = "number" /\ n = 1 /\ code # Seen(ir)
  /\ code' = Seen(ir)
  /\ UNCHANGED <<opt, pass, n, ranges, registers, machine>>
AllocateRegisters ==
  /\ opt_pass = "done" /\ code = Seen(ir)
  /\ Number \/ Extend \/ Allocate \/ LeaveInFrame
  /\ UNCHANGED opt
Emitted == Run /\ Execute /\ n' = at'

PipelineNext == Optimize \/ HandOver \/ AllocateRegisters \/ Emitted
PipelineSpec == PipelineInit /\ [][PipelineNext]_<<vars, opt>>
=============================================================================
