---------------------------- MODULE Continuation ----------------------------
(***************************************************************************)
(* The function the wasm backend makes of a resumable entry, gen_func_body *)
(* in src/src/arch/wasm32/wasm32_obj.c, and the exports around it.  Each   *)
(* call of start or resume runs the one step function from its prologue:   *)
(* the pointers to the C variables are registers of that call, and only    *)
(* the memory they point to lives on.                                      *)
(*                                                                         *)
(* An entry with a frame loop keeps its variables in static memory; one    *)
(* without keeps them on the stack.  The host calls at any time it has     *)
(* control: from outside, from a function the entry calls, or through C    *)
(* functions with stack frames of their own.                               *)
(*                                                                         *)
(* A cell of memory is named by the base of its frame and the variable in  *)
(* it.  Expressions are left out: no register but those pointers is live   *)
(* across a statement.                                                     *)
(***************************************************************************)
EXTENDS Integers, FiniteSets

CONSTANTS
  Slot,            \* the C variables of the entry
  OverAligned,     \* those that need a register of their own for alignment
  MaxUnsuspended,  \* bound: such variables in an entry without a loop
  Value,
  NoResult,        \* the initial result, zero
  Junk,            \* what a part of the stack not in use holds
  Static,          \* the base of __agc_cont_frame
  Null,            \* the address in a pointer that was never computed
  Command,         \* what the host passes: -1 starts, the rest answers
  FrameSize,       \* of the entry's variables
  Depth,           \* stack in use by the C function that calls, 0 for none
  VarArea,         \* stack for the arguments of a variadic call
  Top              \* the initial stack pointer

ASSUME SlotAssumption == OverAligned \subseteq Slot /\ IsFiniteSet(Slot)
ASSUME StackAssumption ==
  /\ FrameSize \in Nat \ {0} /\ VarArea \in Nat /\ Top \in Nat
  /\ Depth \subseteq Nat
ASSUME NameAssumption ==
  /\ Static \notin Int /\ Null \notin (0 .. Top \cup {Static}) \X Slot
  /\ Junk \notin Value /\ NoResult \in Value
ASSUME CommandAssumption == Command \subseteq Int

VARIABLES
  has_persistent_frame,
  used,           \* the variables the entry declares
  status,         \* __agc_cont_status: 0, 1 running, 2 suspended, 3 done
  result,         \* __agc_cont_result
  memory,
  stack_pointer,
  pc,             \* the block the entry runs
  calling,        \* the entry waits for a function it called
  step,           \* the registers of the running call
  assigned,       \* ghost: the variables assigned so far
  refused         \* ghost: a call was refused

vars == <<has_persistent_frame, used, status, result, memory, stack_pointer,
          pc, calling, step, assigned, refused>>
program == <<has_persistent_frame, used>>

Base == {Static} \cup 0 .. Top
Cell == (Base \X Slot) \cup {Null}
Content == Value \cup {Junk}
Pc == {"outside", "entry", "condition", "body", "exit", "aborted"}

NoStep == [command |-> -1, resumed |-> FALSE, fp |-> Static,
           old_sp |-> Top, caller_sp |-> Top, called |-> FALSE, area |-> 0,
           pointer |-> [s \in Slot |-> Null]]

Step == [command : Int, resumed : BOOLEAN, fp : Base, old_sp : Int,
         caller_sp : Int, called : BOOLEAN, area : Nat,
         pointer : [Slot -> Cell]]

(* Functions that ran used the stack below sp.                             *)
Below(sp) == {c \in Cell : c # Null /\ c[1] # Static /\ c[1] < sp}
Clobbered(sp) == [c \in Cell |-> IF c \in Below(sp) THEN Junk ELSE memory[c]]

(* The frame loop of the entry, if there is one, decides the frame.        *)
Init ==
  /\ has_persistent_frame \in BOOLEAN
  /\ used \in SUBSET Slot
  /\ ~has_persistent_frame
       => Cardinality(used \cap OverAligned) <= MaxUnsuspended
  /\ status = 0
  /\ result = NoResult
  /\ memory = [c \in Cell |-> IF c = Null \/ c[1] = Static
                              THEN NoResult ELSE Junk]
  /\ stack_pointer = Top
  /\ pc = "outside"
  /\ calling = FALSE
  /\ step = NoStep
  /\ assigned = {}
  /\ refused = FALSE

-----------------------------------------------------------------------------
(* The exports                                                             *)

(* The host may call out of a function that the entry called.              *)
HostInControl == pc \in {"outside", "aborted"} \/ calling

\* mutant: what has started may be resumed
Accepts_Started(command) == IF command = -1 THEN status = 0 ELSE status # 0

Accepts(command) == IF command = -1 THEN status = 0 ELSE status = 2

(* The prologue lowers the stack pointer before it looks at the status.    *)
Lowered(depth) ==
  stack_pointer - depth
    - (IF has_persistent_frame \/ used = {} THEN 0 ELSE FrameSize)

\* mutant: the pointers are computed when the entry starts only
Pointers_StartOnly(command, fp) ==
  [s \in Slot |-> IF command = -1 THEN <<fp, s>> ELSE Null]

(* Each call of an entry with a loop computes all pointers first.  One     *)
(* without computes them in its first block, where the alignment of a      *)
(* pointer is skipped in every entry.                                      *)
Pointers(command, fp) ==
  [s \in Slot |-> IF has_persistent_frame \/ s \notin OverAligned
                  THEN <<fp, s>> ELSE Null]

(* start and resume, accepted.                                             *)
Invoke(command, depth) ==
  LET fp == IF has_persistent_frame THEN Static ELSE Lowered(depth)
  IN /\ HostInControl
     /\ Accepts(command)
     /\ Lowered(depth) >= 0
     /\ status' = 1
     /\ stack_pointer' = Lowered(depth)
     /\ memory' = Clobbered(stack_pointer)
     /\ step' = [command |-> command, resumed |-> command # -1, fp |-> fp,
                 old_sp |-> stack_pointer - depth,
                 caller_sp |-> stack_pointer, called |-> depth # 0,
                 area |-> 0, pointer |-> Pointers(command, fp)]
     /\ pc' = IF command # -1 THEN "condition" ELSE "entry"
     /\ UNCHANGED <<program, result, calling, assigned, refused>>

(* start and resume, refused with -1: nothing is undone.  A C function     *)
(* that called through restores its own stack pointer.                     *)
Refuse(command, depth) ==
  /\ HostInControl
  /\ ~Accepts(command)
  /\ Lowered(depth) >= 0
  /\ stack_pointer' = IF depth = 0 THEN Lowered(depth) ELSE stack_pointer
  /\ memory' = Clobbered(stack_pointer)
  /\ refused' = TRUE
  /\ UNCHANGED <<program, status, result, pc, calling, step, assigned>>

(* The step function returns to the host; an entry with its frame on the   *)
(* stack restores the stack pointer it saved.                              *)
Leave(next, saved) ==
  /\ pc' = next
  /\ step' = NoStep
  /\ stack_pointer' = IF step.called THEN step.caller_sp
                      ELSE IF has_persistent_frame THEN stack_pointer
                      ELSE saved

-----------------------------------------------------------------------------
(* The body of the entry                                                   *)

Running == pc \in {"entry", "body", "exit"} /\ ~calling

Assign(s, v) ==
  /\ Running
  /\ s \in used
  /\ memory' = [memory EXCEPT ![step.pointer[s]] = v]
  /\ assigned' = assigned \cup {s}
  /\ UNCHANGED <<program, status, result, stack_pointer, pc, calling, step,
                 refused>>

(* A call; the arguments of a variadic one lie on the stack meanwhile.     *)
Call(area) ==
  /\ Running
  /\ stack_pointer >= area
  /\ calling' = TRUE
  /\ stack_pointer' = stack_pointer - area
  /\ step' = [step EXCEPT !.area = area]
  /\ UNCHANGED <<program, status, result, memory, pc, assigned, refused>>

CallReturns ==
  /\ calling
  /\ calling' = FALSE
  /\ stack_pointer' = stack_pointer + step.area
  /\ step' = [step EXCEPT !.area = 0]
  /\ memory' = Clobbered(stack_pointer)
  /\ UNCHANGED <<program, status, result, pc, assigned, refused>>

(* A host function throws: the call is unwound without an epilogue.        *)
CallThrows ==
  /\ calling
  /\ calling' = FALSE
  /\ pc' = "aborted"
  /\ step' = NoStep
  /\ assigned' = {}
  /\ UNCHANGED <<program, status, result, memory, stack_pointer, refused>>

(* The loop is entered, or its body ends.                                  *)
ReachCondition ==
  /\ Running
  /\ has_persistent_frame
  /\ pc' = "condition"
  /\ UNCHANGED <<program, status, result, memory, stack_pointer, calling,
                 step, assigned, refused>>

(* break                                                                   *)
LeaveLoop ==
  /\ Running /\ pc = "body"
  /\ pc' = "exit"
  /\ UNCHANGED <<program, status, result, memory, stack_pointer, calling,
                 step, assigned, refused>>

(* IR_CONTINUATION_SUSPEND: the first arrival after a resume takes the     *)
(* answer, every other one returns to the host.                            *)
\* mutant: an answer is used for every later frame of the call
TakeAnswer_Sticky ==
  /\ pc = "condition" /\ step.resumed
  /\ pc' = IF step.command # 0 THEN "body" ELSE "exit"
  /\ UNCHANGED <<program, status, result, memory, stack_pointer, calling,
                 step, assigned, refused>>

TakeAnswer ==
  /\ pc = "condition" /\ step.resumed
  /\ pc' = IF step.command # 0 THEN "body" ELSE "exit"
  /\ step' = [step EXCEPT !.resumed = FALSE]
  /\ UNCHANGED <<program, status, result, memory, stack_pointer, calling,
                 assigned, refused>>

Suspend ==
  /\ pc = "condition" /\ ~step.resumed
  /\ status' = 2
  /\ Leave("outside", stack_pointer)
  /\ UNCHANGED <<program, result, memory, calling, assigned, refused>>

\* mutant: the stack pointer is not restored
Return_NoRestore(s) ==
  /\ Running
  /\ s \in assigned
  /\ result' = memory[step.pointer[s]]
  /\ status' = 3
  /\ Leave("outside", stack_pointer)
  /\ assigned' = {}
  /\ UNCHANGED <<program, memory, calling, refused>>

Return(s) ==
  /\ Running
  /\ s \in assigned
  /\ result' = memory[step.pointer[s]]
  /\ status' = 3
  /\ Leave("outside", step.old_sp)
  /\ assigned' = {}
  /\ UNCHANGED <<program, memory, calling, refused>>

Next ==
  \/ \E command \in Command, depth \in Depth :
       Invoke(command, depth) \/ Refuse(command, depth)
  \/ \E s \in Slot, v \in Value : Assign(s, v)
  \/ \E area \in {0, VarArea} : Call(area)
  \/ CallReturns \/ CallThrows
  \/ ReachCondition \/ LeaveLoop \/ TakeAnswer \/ Suspend
  \/ \E s \in Slot : Return(s)

Spec == Init /\ [][Next]_vars

-----------------------------------------------------------------------------
(* Properties                                                              *)

TypeOK ==
  /\ has_persistent_frame \in BOOLEAN
  /\ used \subseteq Slot
  /\ status \in 0 .. 3
  /\ result \in Content
  /\ memory \in [Cell -> Content]
  /\ stack_pointer \in 0 .. Top
  /\ pc \in Pc
  /\ calling \in BOOLEAN
  /\ step \in Step
  /\ assigned \subseteq used
  /\ refused \in BOOLEAN

(* The entry keeps its promise to the host (tools/wasm_obj_linker/README,  *)
(* Resumable Entry): it runs once, frame by frame, its variables survive   *)
(* suspensions and whatever the host calls meanwhile, and a refused call   *)
(* changes nothing.                                                        *)
WaitsForHost == pc = "condition" /\ ~step.resumed

PromisedState ==
  IF pc = "aborted" THEN "aborted"
  ELSE IF status = 0 THEN "not started"
  ELSE IF status = 3 THEN "completed"
  ELSE IF status = 2 \/ WaitsForHost THEN "suspended"
  ELSE "running"

PromisedPlace ==
  IF pc \in {"body", "exit"} THEN pc
  ELSE IF pc = "condition" /\ step.resumed
       THEN IF step.command # 0 THEN "body" ELSE "exit"
       ELSE "entry"

Address(s) == IF pc = "outside" THEN <<Static, s>> ELSE step.pointer[s]

PromisedLocals == [s \in assigned |-> memory[Address(s)]]

Promise == INSTANCE FrameLoop WITH
  state <- PromisedState,
  place <- PromisedPlace,
  locals <- PromisedLocals

KeepsPromise == Promise!Spec

(* Whenever the entry has returned, the host finds the stack pointer where *)
(* it was.  An entry without a loop that refused a call does not have it:  *)
(* its prologue has lowered the stack pointer by then (README).            *)
StackReturned ==
  pc = "outside" /\ (has_persistent_frame \/ ~refused) => stack_pointer = Top

(* The same without that exception.                                        *)
AlwaysReturned == pc = "outside" => stack_pointer = Top

=============================================================================
