------------------------- MODULE ContinuationProofs -------------------------
(***************************************************************************)
(* Proofs about Continuation, for entries with any variables, any frame    *)
(* sizes, and any number of calls by the host.                             *)
(*                                                                         *)
(* The step function implements the frame loop because the pointers of a   *)
(* running call always name the same cells (Pointed): static ones, if the  *)
(* entry suspends, or cells of a frame above everything that is called     *)
(* meanwhile.  The stack is returned because a running call knows where    *)
(* the stack pointer was (Balanced).                                       *)
(***************************************************************************)
EXTENDS Continuation, FiniteSetTheorems, TLAPS

InCall == {"entry", "condition", "body", "exit"}

(* Where the entry is, and what the status says of it.                     *)
Consistent ==
  /\ pc \in InCall <=> status = 1 /\ pc # "aborted"
  /\ pc = "aborted" => status = 1
  /\ calling => pc \in {"entry", "body", "exit"}
  /\ pc = "condition" \/ status = 2 => has_persistent_frame
  /\ pc # "condition" => ~step.resumed
  /\ status \in {0, 3} \/ pc = "aborted" => assigned = {}

(* The cells the variables of a running call lie in.                       *)
Pointed ==
  pc \in InCall =>
    /\ \A s \in Slot :
         step.pointer[s] = IF has_persistent_frame THEN <<Static, s>>
                           ELSE IF s \in OverAligned THEN Null
                           ELSE <<step.fp, s>>
    /\ ~has_persistent_frame =>
         step.fp \in 0 .. Top /\ stack_pointer + step.area <= step.fp

(* What a running call knows of the stack pointer.                         *)
Balanced ==
  /\ ~calling => step.area = 0
  /\ pc \in InCall =>
       /\ step.old_sp \in 0 .. Top /\ step.caller_sp \in 0 .. Top
       /\ stack_pointer + step.area <= step.old_sp
       /\ has_persistent_frame => stack_pointer + step.area = step.old_sp
       /\ has_persistent_frame \/ ~refused =>
            /\ step.caller_sp = Top
            /\ ~step.called => step.old_sp = Top

IInv ==
  /\ TypeOK
  /\ Consistent
  /\ Pointed
  /\ Balanced
  /\ StackReturned
-----------------------------------------------------------------------------
(* The invariant                                                           *)

(* What the definitions of base addresses and cells give.                  *)
LEMMA Addresses ==
  /\ Static \in Base /\ 0 .. Top \subseteq Base /\ Static \notin 0 .. Top
  /\ Null \in Cell
  /\ \A s \in Slot, b \in Base : <<b, s>> \in Cell /\ <<b, s>> # Null
  /\ NoStep \in Step
<1>1. /\ Static \in Base /\ 0 .. Top \subseteq Base /\ Static \notin 0 .. Top
      /\ Null \in Cell /\ Top \in 0 .. Top
  BY StackAssumption, NameAssumption DEF Base, Cell
<1>2. \A s \in Slot, b \in Base : <<b, s>> \in Cell /\ <<b, s>> # Null
  BY NameAssumption DEF Base, Cell
<1>3. NoStep \in Step
  BY <1>1, StackAssumption DEF NoStep, Step
<1> QED BY <1>1, <1>2, <1>3

(* What runs below the stack pointer leaves everything above it alone.     *)
LEMMA ClobberedCells ==
  ASSUME TypeOK, NEW sp \in 0 .. Top
  PROVE  /\ Clobbered(sp) \in [Cell -> Content]
         /\ Clobbered(sp)[Null] = memory[Null]
         /\ \A s \in Slot : /\ Clobbered(sp)[<<Static, s>>] = memory[<<Static, s>>]
                            /\ \A b \in sp .. Top :
                                 Clobbered(sp)[<<b, s>>] = memory[<<b, s>>]
<1>1. Junk \in Content
  BY DEF Content
<1>2. Clobbered(sp) \in [Cell -> Content]
  BY <1>1 DEF Clobbered, TypeOK
<1>3. Clobbered(sp)[Null] = memory[Null]
  BY Addresses DEF Clobbered, Below
<1>4. ASSUME NEW s \in Slot
      PROVE  Clobbered(sp)[<<Static, s>>] = memory[<<Static, s>>]
  BY Addresses DEF Clobbered, Below
<1>5. ASSUME NEW s \in Slot, NEW b \in sp .. Top
      PROVE  Clobbered(sp)[<<b, s>>] = memory[<<b, s>>]
  <2>1. <<b, s>> \in Cell /\ ~(<<b, s>>[1] < sp)
    BY Addresses, StackAssumption
  <2> QED BY <2>1 DEF Clobbered, Below
<1> QED BY <1>2, <1>3, <1>4, <1>5

LEMMA InitInvariant == Init => IInv
<1> SUFFICES ASSUME Init PROVE IInv
  OBVIOUS
<1>1. TypeOK
  <2>1. memory \in [Cell -> Content] /\ result \in Content
    BY NameAssumption DEF Init, Content
  <2>2. stack_pointer \in 0 .. Top
    BY StackAssumption DEF Init
  <2>3. step \in Step
    BY Addresses DEF Init
  <2>4. /\ has_persistent_frame \in BOOLEAN /\ calling \in BOOLEAN
        /\ refused \in BOOLEAN
    BY DEF Init
  <2>5. used \subseteq Slot /\ status \in 0 .. 3 /\ pc \in Pc /\ assigned \subseteq used
    BY DEF Init, Pc
  <2> QED BY <2>1, <2>2, <2>3, <2>4, <2>5 DEF TypeOK
<1>2. Consistent /\ Pointed /\ StackReturned
  BY DEF Init, Consistent, Pointed, StackReturned, InCall, NoStep
<1>3. Balanced
  BY DEF Init, Balanced, InCall, NoStep
<1> QED BY <1>1, <1>2, <1>3 DEF IInv

(* Where a call of the entry may put its frame.                            *)
LEMMA LoweredRange ==
  ASSUME TypeOK, NEW depth \in Depth, Lowered(depth) >= 0
  PROVE  /\ Lowered(depth) \in 0 .. Top
         /\ Lowered(depth) <= stack_pointer - depth
         /\ stack_pointer - depth \in 0 .. Top
         /\ has_persistent_frame => Lowered(depth) = stack_pointer - depth
<1>1. depth \in Nat /\ FrameSize \in Nat /\ Top \in Nat
      /\ stack_pointer \in 0 .. Top
  BY StackAssumption DEF TypeOK
<1> QED BY <1>1 DEF Lowered

LEMMA InvokeInvariant ==
  ASSUME IInv, NEW command \in Command, NEW depth \in Depth,
         Invoke(command, depth)
  PROVE  IInv'
<1> DEFINE fp == IF has_persistent_frame THEN Static ELSE Lowered(depth)
<1>1. /\ TypeOK /\ pc = "outside" /\ ~calling
      /\ Lowered(depth) >= 0 /\ command \in Int /\ depth \in Nat
  BY CommandAssumption, StackAssumption
  DEF Invoke, IInv, Consistent, HostInControl, Accepts, InCall
<1>2. /\ Lowered(depth) \in 0 .. Top
      /\ Lowered(depth) <= stack_pointer - depth
      /\ stack_pointer - depth \in 0 .. Top /\ stack_pointer \in 0 .. Top
      /\ has_persistent_frame => Lowered(depth) = stack_pointer - depth
  BY <1>1, LoweredRange DEF TypeOK
<1>3. fp \in Base /\ (~has_persistent_frame => fp = Lowered(depth))
  BY <1>2, Addresses
<1>4. Pointers(command, fp) \in [Slot -> Cell]
  BY <1>3, Addresses DEF Pointers
<1> DEFINE call == [command |-> command, resumed |-> command # -1, fp |-> fp,
                    old_sp |-> stack_pointer - depth,
                    caller_sp |-> stack_pointer, called |-> depth # 0,
                    area |-> 0, pointer |-> Pointers(command, fp)]
<1>5. call \in Step
  BY <1>1, <1>2, <1>3, <1>4 DEF Step
<1>6. /\ step' = call /\ status' = 1 /\ stack_pointer' = Lowered(depth)
      /\ memory' = Clobbered(stack_pointer)
      /\ pc' = IF command # -1 THEN "condition" ELSE "entry"
      /\ UNCHANGED <<has_persistent_frame, used, result, calling, assigned,
                     refused>>
  BY DEF Invoke, program
<1> HIDE DEF fp
<1>7. /\ step'.command = command /\ (step'.resumed <=> command # -1)
      /\ step'.fp = fp /\ step'.old_sp = stack_pointer - depth
      /\ step'.caller_sp = stack_pointer /\ (step'.called <=> depth # 0)
      /\ step'.area = 0 /\ step'.pointer = Pointers(command, fp)
  BY <1>6
<1>8. TypeOK'
  BY <1>1, <1>2, <1>5, <1>6, ClobberedCells DEF TypeOK, Pc
<1>9. Consistent'
  <2>1. command # -1 => has_persistent_frame
    BY <1>1 DEF Invoke, Accepts, IInv, Consistent
  <2> QED BY <1>1, <1>6, <1>7, <2>1 DEF Consistent, InCall
<1>10. Pointed'
  <2>1. \A s \in Slot : step'.pointer[s] =
          IF has_persistent_frame' THEN <<Static, s>>
          ELSE IF s \in OverAligned THEN Null ELSE <<step'.fp, s>>
    BY <1>6, <1>7 DEF Pointers, fp
  <2>2. ~has_persistent_frame' =>
          step'.fp \in 0 .. Top /\ stack_pointer' + step'.area <= step'.fp
    BY <1>2, <1>3, <1>6, <1>7, StackAssumption
  <2> QED BY <2>1, <2>2 DEF Pointed
<1>11. Balanced'
  <2>1. (has_persistent_frame \/ ~refused) => stack_pointer = Top
    BY <1>1 DEF IInv, StackReturned
  <2>2. ~(depth # 0) => stack_pointer - depth = stack_pointer
    BY <1>1, <1>2, StackAssumption
  <2> QED BY <1>1, <1>2, <1>6, <1>7, <2>1, <2>2, StackAssumption
          DEF Balanced, InCall
<1>12. StackReturned'
  BY <1>6 DEF StackReturned
<1> QED BY <1>8, <1>9, <1>10, <1>11, <1>12 DEF IInv

LEMMA RefuseInvariant ==
  ASSUME IInv, NEW command \in Command, NEW depth \in Depth,
         Refuse(command, depth)
  PROVE  IInv'
<1>1. TypeOK /\ Lowered(depth) >= 0 /\ stack_pointer \in 0 .. Top
      /\ Top \in Nat /\ depth \in Nat
  BY StackAssumption DEF Refuse, IInv, TypeOK
<1>2. /\ Lowered(depth) \in 0 .. Top
      /\ Lowered(depth) <= stack_pointer - depth
      /\ has_persistent_frame => Lowered(depth) = stack_pointer - depth
  BY <1>1, LoweredRange
<1>3. /\ stack_pointer' \in 0 .. Top /\ stack_pointer' <= stack_pointer
      /\ has_persistent_frame => stack_pointer' = stack_pointer
  <2>1. CASE depth = 0
    BY <1>1, <1>2, <2>1 DEF Refuse
  <2>2. CASE depth # 0
    BY <1>1, <2>2 DEF Refuse
  <2> QED BY <2>1, <2>2
<1>4. /\ memory' = Clobbered(stack_pointer) /\ refused' = TRUE
      /\ UNCHANGED <<has_persistent_frame, used, status, result, pc, calling,
                     step, assigned>>
  BY DEF Refuse, program
<1>5. TypeOK'
  BY <1>1, <1>3, <1>4, ClobberedCells DEF TypeOK
<1>6. Consistent'
  BY <1>4 DEF IInv, Consistent
<1>7. step.area \in Nat
  BY <1>1 DEF TypeOK, Step
<1>8. Pointed'
  BY <1>1, <1>3, <1>4, <1>7 DEF IInv, Pointed
<1>9. Balanced'
  <2>1. Balanced
    BY DEF IInv
  <2> QED BY <2>1, <1>1, <1>3, <1>4, <1>7 DEF Balanced
<1>10. StackReturned'
  BY <1>3, <1>4 DEF IInv, StackReturned
<1> QED BY <1>5, <1>6, <1>8, <1>9, <1>10 DEF IInv

LEMMA AssignInvariant ==
  ASSUME IInv, NEW s \in Slot, NEW v \in Value, Assign(s, v)
  PROVE  IInv'
<1>1. /\ s \in used /\ v \in Content /\ status = 1 /\ pc # "aborted"
      /\ memory' = [memory EXCEPT ![step.pointer[s]] = v]
      /\ assigned' = assigned \cup {s}
      /\ UNCHANGED <<has_persistent_frame, used, status, result, stack_pointer,
                     pc, calling, step, refused>>
  BY DEF Assign, Running, Content, program, IInv, Consistent, InCall
<1>2. TypeOK'
  BY <1>1 DEF IInv, TypeOK
<1>3. Consistent'
  BY <1>1 DEF IInv, Consistent
<1>4. Pointed' /\ Balanced' /\ StackReturned'
  BY <1>1 DEF IInv, Pointed, Balanced, StackReturned
<1> QED BY <1>2, <1>3, <1>4 DEF IInv

LEMMA CallInvariant ==
  ASSUME IInv, NEW area \in {0, VarArea}, Call(area)
  PROVE  IInv'
<1>1. /\ Running /\ area \in Nat /\ stack_pointer - area \in 0 .. Top
      /\ stack_pointer \in 0 .. Top /\ step \in Step /\ step.area = 0
      /\ Top \in Nat
  BY StackAssumption DEF Call, Running, IInv, TypeOK, Balanced
<1>2. /\ step' = [step EXCEPT !.area = area] /\ calling' = TRUE
      /\ stack_pointer' = stack_pointer - area
      /\ UNCHANGED <<has_persistent_frame, used, status, result, memory, pc,
                     assigned, refused>>
  BY DEF Call, program
<1>3. /\ step' \in Step /\ step'.area = area
      /\ step'.resumed = step.resumed /\ step'.pointer = step.pointer
      /\ step'.fp = step.fp /\ step'.old_sp = step.old_sp
      /\ step'.caller_sp = step.caller_sp /\ step'.called = step.called
  BY <1>1, <1>2 DEF Step
<1>4. stack_pointer' + step'.area = stack_pointer + step.area
  BY <1>1, <1>2, <1>3
<1>5. TypeOK'
  BY <1>1, <1>2, <1>3 DEF IInv, TypeOK
<1>6. Consistent'
  BY <1>1, <1>2, <1>3 DEF IInv, Consistent, Running
<1>7. Pointed'
  BY <1>2, <1>3, <1>4 DEF IInv, Pointed
<1>8. Balanced'
  BY <1>2, <1>3, <1>4 DEF IInv, Balanced
<1>9. StackReturned'
  BY <1>1, <1>2 DEF StackReturned, Running
<1> QED BY <1>5, <1>6, <1>7, <1>8, <1>9 DEF IInv

LEMMA CallReturnsInvariant ==
  ASSUME IInv, CallReturns
  PROVE  IInv'
<1>1. /\ TypeOK /\ stack_pointer \in 0 .. Top /\ step \in Step
      /\ step.area \in Nat /\ Top \in Nat /\ calling
      /\ pc \in {"entry", "body", "exit"} /\ pc \in InCall
  BY StackAssumption DEF CallReturns, IInv, TypeOK, Step, Consistent, InCall
<1>2. /\ step' = [step EXCEPT !.area = 0] /\ calling' = FALSE
      /\ stack_pointer' = stack_pointer + step.area
      /\ memory' = Clobbered(stack_pointer)
      /\ UNCHANGED <<has_persistent_frame, used, status, result, pc, assigned,
                     refused>>
  BY DEF CallReturns, program
<1>3. /\ step' \in Step /\ step'.area = 0
      /\ step'.resumed = step.resumed /\ step'.pointer = step.pointer
      /\ step'.fp = step.fp /\ step'.old_sp = step.old_sp
      /\ step'.caller_sp = step.caller_sp /\ step'.called = step.called
  BY <1>1, <1>2 DEF Step
<1>4. /\ stack_pointer' + step'.area = stack_pointer + step.area
      /\ stack_pointer' \in 0 .. Top
  BY <1>1, <1>2, <1>3 DEF IInv, Balanced
<1>5. TypeOK'
  BY <1>1, <1>2, <1>3, <1>4, ClobberedCells DEF TypeOK
<1>6. Consistent'
  BY <1>1, <1>2, <1>3 DEF IInv, Consistent
<1>7. Pointed'
  BY <1>2, <1>3, <1>4 DEF IInv, Pointed
<1>8. Balanced'
  BY <1>2, <1>3, <1>4 DEF IInv, Balanced
<1>9. StackReturned'
  BY <1>1, <1>2 DEF StackReturned
<1> QED BY <1>5, <1>6, <1>7, <1>8, <1>9 DEF IInv

LEMMA CallThrowsInvariant ==
  ASSUME IInv, CallThrows
  PROVE  IInv'
<1>1. /\ calling /\ pc \in {"entry", "body", "exit"} /\ status = 1
      /\ calling' = FALSE /\ pc' = "aborted" /\ step' = NoStep
      /\ assigned' = {}
      /\ UNCHANGED <<has_persistent_frame, used, status, result, memory,
                     stack_pointer, refused>>
  BY DEF CallThrows, program, IInv, Consistent, InCall
<1>2. step' \in Step
  BY <1>1, Addresses
<1>3. TypeOK'
  BY <1>1, <1>2 DEF IInv, TypeOK, Pc
<1>4. Consistent' /\ Pointed' /\ Balanced' /\ StackReturned'
  BY <1>1 DEF IInv, Consistent, Pointed, Balanced, StackReturned, InCall,
              NoStep
<1> QED BY <1>3, <1>4 DEF IInv

(* The three moves between the parts of the function.                      *)
LEMMA MoveInvariant ==
  ASSUME IInv, ReachCondition \/ LeaveLoop \/ TakeAnswer
  PROVE  IInv'
<1>1. /\ step.resumed \in BOOLEAN /\ step \in Step /\ ~calling
      /\ pc \in InCall
  BY DEF ReachCondition, LeaveLoop, TakeAnswer, Running, IInv, TypeOK, Step,
         Consistent, InCall
<1>2. /\ pc' \in InCall /\ (pc' = "condition" => has_persistent_frame)
      /\ UNCHANGED <<has_persistent_frame, used, status, result, memory,
                     stack_pointer, calling, assigned, refused>>
  BY DEF ReachCondition, LeaveLoop, TakeAnswer, program, InCall
<1>3. /\ step' \in Step /\ step'.area = step.area
      /\ step'.pointer = step.pointer
      /\ step'.fp = step.fp /\ step'.old_sp = step.old_sp
      /\ step'.caller_sp = step.caller_sp /\ step'.called = step.called
  <2>1. CASE step' = [step EXCEPT !.resumed = FALSE]
    BY <1>1, <2>1 DEF Step
  <2>2. CASE step' = step
    BY <1>1, <2>2
  <2> QED BY <2>1, <2>2 DEF ReachCondition, LeaveLoop, TakeAnswer
<1>4. ~step'.resumed
  <2>1. CASE TakeAnswer
    BY <1>1, <2>1 DEF TakeAnswer, Step
  <2>2. CASE ReachCondition \/ LeaveLoop
    BY <2>2 DEF ReachCondition, LeaveLoop, Running, IInv, Consistent
  <2> QED BY <2>1, <2>2
<1>5. TypeOK'
  BY <1>2, <1>3 DEF IInv, TypeOK, InCall, Pc
<1>6. Consistent'
  BY <1>1, <1>2, <1>4 DEF IInv, Consistent, InCall
<1>7. Pointed'
  BY <1>1, <1>2, <1>3 DEF IInv, Pointed
<1>8. Balanced'
  BY <1>1, <1>2, <1>3 DEF IInv, Balanced
<1>9. StackReturned'
  BY <1>2 DEF StackReturned, InCall
<1> QED BY <1>5, <1>6, <1>7, <1>8, <1>9 DEF IInv

(* Every way out of a running call leaves a good stack pointer behind.     *)
LEMMA LeaveStack ==
  ASSUME IInv, pc \in InCall, ~calling,
         NEW saved \in {stack_pointer, step.old_sp},
         saved = stack_pointer => has_persistent_frame \/ saved = step.old_sp,
         Leave("outside", saved)
  PROVE  /\ stack_pointer' \in 0 .. Top
         /\ has_persistent_frame \/ ~refused => stack_pointer' = Top
<1>1. /\ step.area = 0 /\ stack_pointer \in 0 .. Top
      /\ step.old_sp \in 0 .. Top /\ step.caller_sp \in 0 .. Top
      /\ has_persistent_frame => stack_pointer = step.old_sp
      /\ has_persistent_frame \/ ~refused =>
            step.caller_sp = Top /\ (~step.called => step.old_sp = Top)
  BY DEF IInv, Balanced, TypeOK
<1>2. stack_pointer' = IF step.called THEN step.caller_sp
                       ELSE IF has_persistent_frame THEN stack_pointer
                       ELSE saved
  BY DEF Leave
<1> QED BY <1>1, <1>2

LEMMA SuspendInvariant ==
  ASSUME IInv, Suspend
  PROVE  IInv'
<1>1. /\ pc \in InCall /\ ~calling /\ has_persistent_frame
      /\ Leave("outside", stack_pointer)
      /\ status' = 2 /\ pc' = "outside" /\ step' = NoStep
      /\ UNCHANGED <<has_persistent_frame, used, result, memory, calling,
                     assigned, refused>>
  BY DEF Suspend, Leave, program, IInv, Consistent, InCall
<1>2. stack_pointer' \in 0 .. Top /\ stack_pointer' = Top
  BY <1>1, LeaveStack
<1>3. step' \in Step
  BY <1>1, Addresses
<1>4. TypeOK'
  BY <1>1, <1>2, <1>3 DEF IInv, TypeOK, Pc
<1>5. Consistent' /\ Pointed' /\ Balanced' /\ StackReturned'
  BY <1>1, <1>2 DEF Consistent, Pointed, Balanced, StackReturned, InCall,
                    NoStep
<1> QED BY <1>4, <1>5 DEF IInv

LEMMA ReturnInvariant ==
  ASSUME IInv, NEW s \in Slot, Return(s)
  PROVE  IInv'
<1>1. /\ pc \in InCall /\ ~calling /\ pc \in {"entry", "body", "exit"}
      /\ Leave("outside", step.old_sp)
      /\ result' = memory[step.pointer[s]]
      /\ status' = 3 /\ pc' = "outside" /\ step' = NoStep /\ assigned' = {}
      /\ UNCHANGED <<has_persistent_frame, used, memory, calling, refused>>
  BY DEF Return, Running, Leave, program, InCall
<1>2. /\ stack_pointer' \in 0 .. Top
      /\ has_persistent_frame \/ ~refused => stack_pointer' = Top
  BY <1>1, LeaveStack
<1>3. step' \in Step
  BY <1>1, Addresses
<1>4. result' \in Content
  BY <1>1 DEF IInv, TypeOK, Step
<1>5. TypeOK'
  BY <1>1, <1>2, <1>3, <1>4 DEF IInv, TypeOK, Pc
<1>6. Consistent' /\ Pointed' /\ Balanced' /\ StackReturned'
  BY <1>1, <1>2 DEF Consistent, Pointed, Balanced, StackReturned, InCall,
                    NoStep
<1> QED BY <1>5, <1>6 DEF IInv

LEMMA NextInvariant == IInv /\ [Next]_vars => IInv'
<1> SUFFICES ASSUME IInv, [Next]_vars PROVE IInv'
  OBVIOUS
<1>1. CASE UNCHANGED vars
  BY <1>1 DEF vars, IInv, TypeOK, Consistent, Pointed, Balanced, StackReturned
<1>2. CASE \E command \in Command, depth \in Depth :
             Invoke(command, depth) \/ Refuse(command, depth)
  BY <1>2, InvokeInvariant, RefuseInvariant
<1>3. CASE \E s \in Slot, v \in Value : Assign(s, v)
  BY <1>3, AssignInvariant
<1>4. CASE \E area \in {0, VarArea} : Call(area)
  BY <1>4, CallInvariant
<1>5. CASE CallReturns \/ CallThrows
  BY <1>5, CallReturnsInvariant, CallThrowsInvariant
<1>6. CASE ReachCondition \/ LeaveLoop \/ TakeAnswer
  BY <1>6, MoveInvariant
<1>7. CASE Suspend
  BY <1>7, SuspendInvariant
<1>8. CASE \E s \in Slot : Return(s)
  BY <1>8, ReturnInvariant
<1> QED BY <1>1, <1>2, <1>3, <1>4, <1>5, <1>6, <1>7, <1>8 DEF Next

THEOREM Invariant == Spec => []IInv
<1> QED BY InitInvariant, NextInvariant, PTL DEF Spec

(* Every value the step function and its memory take is of its kind.       *)
THEOREM TypeCorrect == Spec => []TypeOK
<1>1. IInv => TypeOK
  BY DEF IInv
<1> QED BY <1>1, Invariant, PTL

(* An entry with a frame loop gives the stack back whenever it returns to  *)
(* the host (gen_func_body: the frame is static, and a variadic call       *)
(* releases what it took); any other does so until it refuses a call.      *)
THEOREM ReturnsStack == Spec => []StackReturned
<1>1. IInv => StackReturned
  BY DEF IInv
<1> QED BY <1>1, Invariant, PTL
-----------------------------------------------------------------------------
(* The refinement                                                          *)

(* At most one variable of an entry without a loop has no frame cell.      *)
OneUnplaced ==
  ~has_persistent_frame =>
    \A s, t \in used \cap OverAligned : s = t

LEMMA NoTwo ==
  ASSUME NEW S, IsFiniteSet(S), Cardinality(S) <= 1
  PROVE  \A s, t \in S : s = t
<1> SUFFICES ASSUME NEW s \in S, NEW t \in S, s # t PROVE FALSE
  OBVIOUS
<1>1. Cardinality(S) \in Nat
  BY FS_CardinalityType
<1>2. IsFiniteSet(S \ {s}) /\ Cardinality(S \ {s}) = Cardinality(S) - 1
  BY FS_RemoveElement
<1>3. Cardinality(S \ {s}) = 0
  BY <1>1, <1>2, FS_CardinalityType
<1>4. S \ {s} = {}
  BY <1>2, <1>3, FS_EmptySet
<1> QED BY <1>4

LEMMA OneUnplacedInvariant ==
  ASSUME MaxUnsuspended \in {0, 1}
  PROVE  Spec => []OneUnplaced
<1>1. Init => OneUnplaced
  <2> SUFFICES ASSUME Init, ~has_persistent_frame
               PROVE  \A s, t \in used \cap OverAligned : s = t
    BY DEF OneUnplaced
  <2> DEFINE unplaced == used \cap OverAligned
  <2>1. IsFiniteSet(unplaced)
    BY SlotAssumption, FS_Subset DEF Init
  <2>2. Cardinality(unplaced) <= 1
    BY <2>1, FS_CardinalityType DEF Init
  <2> HIDE DEF unplaced
  <2>3. \A s, t \in unplaced : s = t
    BY <2>1, <2>2, NoTwo
  <2> QED BY <2>3 DEF unplaced
<1>2. OneUnplaced /\ [Next]_vars => OneUnplaced'
  <2> SUFFICES ASSUME [Next]_vars
               PROVE  UNCHANGED <<has_persistent_frame, used>>
    BY DEF OneUnplaced
  <2> QED BY DEF Next, vars, program, Invoke, Refuse, Assign, Call,
                 CallReturns, CallThrows, ReachCondition, LeaveLoop,
                 TakeAnswer, Suspend, Return
<1> QED BY <1>1, <1>2, PTL DEF Spec

(* What is below the stack pointer holds no variable of the entry.         *)
LEMMA AboveStack ==
  ASSUME IInv, NEW s \in assigned
  PROVE  Clobbered(stack_pointer)[Address(s)] = memory[Address(s)]
<1>1. /\ TypeOK /\ stack_pointer \in 0 .. Top /\ s \in Slot
      /\ step.area \in Nat /\ Top \in Nat
  BY StackAssumption DEF IInv, TypeOK, Step
<1>2. CASE pc = "outside"
  BY <1>1, <1>2, ClobberedCells DEF Address
<1>3. CASE pc \in InCall
  <2>1. CASE has_persistent_frame
    BY <1>1, <1>3, <2>1, ClobberedCells DEF Address, IInv, Pointed, InCall
  <2>2. CASE ~has_persistent_frame /\ s \in OverAligned
    BY <1>1, <1>3, <2>2, ClobberedCells DEF Address, IInv, Pointed, InCall
  <2>3. CASE ~has_persistent_frame /\ s \notin OverAligned
    <3>1. step.fp \in stack_pointer .. Top
      BY <1>1, <1>3, <2>3 DEF IInv, Pointed
    <3>2. Address(s) = <<step.fp, s>>
      BY <1>1, <1>3, <2>3 DEF Address, IInv, Pointed, InCall
    <3> QED BY <1>1, <3>1, <3>2, ClobberedCells
  <2> QED BY <2>1, <2>2, <2>3
<1>4. pc # "aborted"
  BY DEF IInv, Consistent
<1> QED BY <1>1, <1>2, <1>3, <1>4 DEF TypeOK, Pc, InCall

(* A running call and a suspended one agree on where the variables are.    *)
LEMMA StaticAddress ==
  ASSUME IInv, has_persistent_frame, pc # "aborted", NEW s \in Slot
  PROVE  Address(s) = <<Static, s>>
BY DEF IInv, TypeOK, Pc, Pointed, Address, InCall

(* The variables of a running call lie in different cells.                 *)
LEMMA Apart ==
  ASSUME IInv, OneUnplaced, pc \in InCall,
         NEW s \in used, NEW t \in used, s # t
  PROVE  step.pointer[s] # step.pointer[t]
<1>1. s \in Slot /\ t \in Slot
  BY DEF IInv, TypeOK
<1>2. CASE has_persistent_frame
  BY <1>1, <1>2 DEF IInv, Pointed
<1>3. CASE ~has_persistent_frame
  <2>1. step.fp \in Base
    BY <1>3, Addresses DEF IInv, Pointed
  <2>2. ~(s \in OverAligned /\ t \in OverAligned)
    BY <1>3 DEF OneUnplaced
  <2>3. /\ step.pointer[s] = IF s \in OverAligned THEN Null ELSE <<step.fp, s>>
        /\ step.pointer[t] = IF t \in OverAligned THEN Null ELSE <<step.fp, t>>
    BY <1>1, <1>3 DEF IInv, Pointed
  <2>4. <<step.fp, s>> # Null /\ <<step.fp, t>> # Null
    BY <1>1, <2>1, Addresses
  <2> QED BY <2>2, <2>3, <2>4
<1> QED BY <1>2, <1>3

LEMMA InitPromise == Init => Promise!Init
<1> SUFFICES ASSUME Init PROVE Promise!Init
  OBVIOUS
<1>1. PromisedLocals = Promise!NoLocals
  BY DEF Init, PromisedLocals, Promise!NoLocals
<1>2. PromisedState = "not started" /\ PromisedPlace = "entry"
  BY DEF Init, PromisedState, PromisedPlace, WaitsForHost
<1> QED BY <1>1, <1>2 DEF Init, Promise!Init

LEMMA InvokePromise ==
  ASSUME IInv, NEW command \in Command, NEW depth \in Depth,
         Invoke(command, depth), IInv'
  PROVE  Promise!Next
<1>1. /\ pc = "outside" /\ command \in Int
      /\ status' = 1 /\ pc' = IF command # -1 THEN "condition" ELSE "entry"
      /\ step'.command = command /\ (step'.resumed <=> command # -1)
      /\ memory' = Clobbered(stack_pointer)
      /\ UNCHANGED <<has_persistent_frame, result, assigned>>
  <2>1. pc = "outside"
    BY DEF Invoke, Accepts, HostInControl, IInv, Consistent, InCall
  <2>2. step'.command = command /\ (step'.resumed <=> command # -1)
    BY DEF Invoke
  <2> QED BY <2>1, <2>2, CommandAssumption DEF Invoke, program
<1>2. PromisedState' = "running"
  BY <1>1 DEF PromisedState, WaitsForHost
<1>3. PromisedLocals' = PromisedLocals
  <2>1. ASSUME NEW s \in assigned
        PROVE  memory'[Address(s)'] = memory[Address(s)]
    <3>1. has_persistent_frame /\ s \in Slot
      BY <1>1 DEF IInv, Consistent, Invoke, Accepts, TypeOK
    <3>2. Address(s) = <<Static, s>> /\ Address(s)' = <<Static, s>>
      <4>1. Address(s) = <<Static, s>>
        BY <1>1 DEF Address
      <4>2. Address(s)' = <<Static, s>>
        BY <1>1, <3>1 DEF IInv, Pointed, InCall, Address
      <4> QED BY <4>1, <4>2
    <3> QED BY <1>1, <3>2, AboveStack
  <2> QED BY <1>1, <2>1 DEF PromisedLocals
<1>4. CASE command = -1
  <2>1. /\ PromisedState = "not started" /\ PromisedPlace = "entry"
        /\ PromisedPlace' = "entry"
    BY <1>1, <1>4 DEF Invoke, Accepts, PromisedState, PromisedPlace
  <2> QED BY <1>1, <1>2, <1>3, <2>1 DEF Promise!Next, Promise!Start
<1>5. CASE command # -1
  <2>1. /\ PromisedState = "suspended"
        /\ PromisedPlace' = IF command # 0 THEN "body" ELSE "exit"
    BY <1>1, <1>5 DEF Invoke, Accepts, PromisedState, PromisedPlace
  <2>2. Promise!Answer(command # 0)
    BY <1>1, <1>2, <1>3, <2>1 DEF Promise!Answer
  <2>3. (command # 0) \in BOOLEAN
    OBVIOUS
  <2> QED BY <2>2, <2>3 DEF Promise!Next
<1> QED BY <1>4, <1>5

(* What does not move the entry and leaves its cells alone is a stutter.   *)
LEMMA Stutter ==
  ASSUME IInv, UNCHANGED <<status, result, pc, assigned>>,
         step'.resumed = step.resumed, step'.command = step.command,
         step'.pointer = step.pointer,
         memory' \in {memory, Clobbered(stack_pointer)}
  PROVE  UNCHANGED Promise!vars
<1>1. PromisedState' = PromisedState /\ PromisedPlace' = PromisedPlace
  BY DEF PromisedState, PromisedPlace, WaitsForHost
<1>2. PromisedLocals' = PromisedLocals
  <2>1. ASSUME NEW s \in assigned
        PROVE  memory'[Address(s)'] = memory[Address(s)]
    <3>1. Address(s)' = Address(s)
      BY DEF Address
    <3> QED BY <3>1, AboveStack
  <2> QED BY <2>1 DEF PromisedLocals
<1> QED BY <1>1, <1>2 DEF Promise!vars

LEMMA AssignPromise ==
  ASSUME IInv, OneUnplaced, NEW s \in Slot, NEW v \in Value, Assign(s, v)
  PROVE  Promise!Next
<1>1. /\ pc \in {"entry", "body", "exit"} /\ pc \in InCall /\ status = 1
      /\ s \in used /\ assigned \subseteq used
      /\ memory' = [memory EXCEPT ![step.pointer[s]] = v]
      /\ assigned' = assigned \cup {s}
      /\ UNCHANGED <<used, status, result, pc, step>>
  BY DEF Assign, Running, program, InCall, IInv, Consistent, TypeOK
<1>2. /\ PromisedState = "running" /\ PromisedState' = "running"
      /\ PromisedPlace' = PromisedPlace
  BY <1>1 DEF PromisedState, PromisedPlace, WaitsForHost
<1>3. /\ step.pointer[s] \in Cell /\ memory \in [Cell -> Content]
      /\ s \in Slot /\ used \subseteq Slot
  BY DEF IInv, TypeOK, Step
<1>4. \A t \in used : /\ Address(t) = step.pointer[t]
                      /\ Address(t)' = step.pointer[t]
  BY <1>1 DEF Address
<1>5. ASSUME NEW t \in assigned \cup {s}
      PROVE  memory'[step.pointer[t]] =
               IF t = s THEN v ELSE memory[step.pointer[t]]
  <2>1. CASE t = s
    BY <1>1, <1>3, <2>1
  <2>2. CASE t # s
    <3>1. step.pointer[t] # step.pointer[s] /\ step.pointer[t] \in Cell
      BY <1>1, <2>2, Apart DEF IInv, TypeOK, Step
    <3> QED BY <1>1, <1>3, <2>2, <3>1
  <2> QED BY <2>1, <2>2
<1>6. PromisedLocals' = [t \in assigned \cup {s} |->
                           IF t = s THEN v ELSE memory[step.pointer[t]]]
  BY <1>1, <1>4, <1>5 DEF PromisedLocals
<1>7. PromisedLocals = [t \in assigned |-> memory[step.pointer[t]]]
  BY <1>1, <1>4 DEF PromisedLocals
<1>8. PromisedLocals' = [t \in DOMAIN PromisedLocals \cup {s} |->
                           IF t = s THEN v ELSE PromisedLocals[t]]
  BY <1>6, <1>7
<1> QED BY <1>1, <1>2, <1>8 DEF Promise!Next, Promise!Assign

LEMMA ThrowPromise ==
  ASSUME IInv, CallThrows
  PROVE  Promise!Next
<1>1. /\ pc \in {"entry", "body", "exit"} /\ status = 1
      /\ pc' = "aborted" /\ assigned' = {} /\ result' = result
  BY DEF CallThrows, IInv, Consistent, InCall
<1>2. /\ PromisedState = "running" /\ PromisedState' = "aborted"
      /\ PromisedPlace' = "entry"
  BY <1>1 DEF PromisedState, PromisedPlace, WaitsForHost
<1>3. PromisedLocals' = Promise!NoLocals
  BY <1>1 DEF PromisedLocals, Promise!NoLocals
<1> QED BY <1>1, <1>2, <1>3 DEF Promise!Next, Promise!Abort

LEMMA MovePromise ==
  ASSUME IInv, ReachCondition \/ LeaveLoop \/ TakeAnswer
  PROVE  Promise!Next \/ UNCHANGED Promise!vars
<1>1. /\ status = 1 /\ pc \in InCall /\ step \in Step
      /\ UNCHANGED <<status, result, assigned, memory>>
  BY DEF ReachCondition, LeaveLoop, TakeAnswer, Running, IInv, TypeOK,
         Consistent, InCall
<1>2. step'.pointer = step.pointer /\ step'.command = step.command
  <2>1. CASE step' = [step EXCEPT !.resumed = FALSE]
    BY <1>1, <2>1 DEF Step
  <2>2. CASE step' = step
    BY <2>2
  <2> QED BY <2>1, <2>2 DEF ReachCondition, LeaveLoop, TakeAnswer
<1>3. PromisedLocals' = PromisedLocals
  <2>1. pc # "outside" /\ pc' # "outside"
    BY <1>1 DEF ReachCondition, LeaveLoop, TakeAnswer, InCall
  <2>2. \A s : Address(s)' = Address(s)
    BY <1>2, <2>1 DEF Address
  <2> QED BY <1>1, <2>2 DEF PromisedLocals
<1>4. CASE ReachCondition
  <2>1. /\ PromisedState = "running" /\ PromisedState' = "suspended"
        /\ PromisedPlace' = "entry"
    BY <1>1, <1>4
    DEF ReachCondition, Running, PromisedState, PromisedPlace, WaitsForHost,
        IInv, Consistent
  <2> QED BY <1>1, <1>3, <2>1 DEF Promise!Next, Promise!Wait
<1>5. CASE LeaveLoop
  <2>1. /\ PromisedState = "running" /\ PromisedState' = "running"
        /\ PromisedPlace = "body" /\ PromisedPlace' = "exit"
    BY <1>1, <1>5
    DEF LeaveLoop, Running, PromisedState, PromisedPlace, WaitsForHost
  <2> QED BY <1>1, <1>3, <2>1 DEF Promise!Next, Promise!Break
<1>6. CASE TakeAnswer
  <2>1. /\ pc = "condition" /\ step.resumed
        /\ pc' = IF step.command # 0 THEN "body" ELSE "exit"
    BY <1>6 DEF TakeAnswer
  <2>2. /\ PromisedState = "running" /\ PromisedState' = "running"
        /\ PromisedPlace' = PromisedPlace
    BY <1>1, <2>1 DEF PromisedState, PromisedPlace, WaitsForHost
  <2> QED BY <1>1, <1>3, <2>2 DEF Promise!vars
<1> QED BY <1>4, <1>5, <1>6

LEMMA SuspendPromise ==
  ASSUME IInv, Suspend
  PROVE  UNCHANGED Promise!vars
<1>1. /\ pc = "condition" /\ ~step.resumed /\ status = 1
      /\ has_persistent_frame /\ status' = 2 /\ pc' = "outside"
      /\ UNCHANGED <<result, memory, assigned>>
  BY DEF Suspend, Leave, IInv, Consistent, InCall
<1>2. /\ PromisedState = "suspended" /\ PromisedState' = "suspended"
      /\ PromisedPlace = "entry" /\ PromisedPlace' = "entry"
  BY <1>1 DEF PromisedState, PromisedPlace, WaitsForHost
<1>3. PromisedLocals' = PromisedLocals
  <2>1. \A s \in assigned :
          Address(s) = <<Static, s>> /\ Address(s)' = <<Static, s>>
    BY <1>1 DEF Address, IInv, TypeOK, Pointed, InCall
  <2> QED BY <1>1, <2>1 DEF PromisedLocals
<1> QED BY <1>1, <1>2, <1>3 DEF Promise!vars

LEMMA ReturnPromise ==
  ASSUME IInv, NEW s \in Slot, Return(s)
  PROVE  Promise!Next
<1>1. /\ pc \in {"entry", "body", "exit"} /\ status = 1 /\ s \in assigned
      /\ result' = memory[step.pointer[s]] /\ status' = 3
      /\ pc' = "outside" /\ assigned' = {}
  BY DEF Return, Running, Leave, IInv, Consistent, InCall
<1>2. /\ PromisedState = "running" /\ PromisedState' = "completed"
      /\ PromisedPlace' = "entry"
  BY <1>1 DEF PromisedState, PromisedPlace, WaitsForHost
<1>3. PromisedLocals' = Promise!NoLocals
  BY <1>1 DEF PromisedLocals, Promise!NoLocals
<1>4. /\ s \in DOMAIN PromisedLocals
      /\ PromisedLocals[s] = memory[step.pointer[s]]
  BY <1>1 DEF PromisedLocals, Address
<1> QED BY <1>1, <1>2, <1>3, <1>4 DEF Promise!Next, Promise!Complete

LEMMA NextPromise ==
  ASSUME IInv, IInv', OneUnplaced, [Next]_vars
  PROVE  [Promise!Next]_Promise!vars
<1>1. CASE UNCHANGED vars
  BY <1>1 DEF vars, Promise!vars, PromisedState, PromisedPlace, WaitsForHost,
              PromisedLocals, Address
<1>2. ASSUME NEW command \in Command, NEW depth \in Depth,
             Invoke(command, depth)
      PROVE  Promise!Next
  BY <1>2, InvokePromise
<1>3. ASSUME NEW command \in Command, NEW depth \in Depth,
             Refuse(command, depth)
      PROVE  UNCHANGED Promise!vars
  BY <1>3, Stutter DEF Refuse
<1>4. ASSUME NEW s \in Slot, NEW v \in Value, Assign(s, v)
      PROVE  Promise!Next
  BY <1>4, AssignPromise
<1>5. CASE (\E area \in {0, VarArea} : Call(area)) \/ CallReturns
  <2>1. PICK area : step' = [step EXCEPT !.area = area]
    BY <1>5 DEF Call, CallReturns
  <2>2. /\ step'.resumed = step.resumed /\ step'.command = step.command
        /\ step'.pointer = step.pointer
    BY <2>1 DEF IInv, TypeOK, Step
  <2>3. /\ UNCHANGED <<status, result, pc, assigned>>
        /\ memory' \in {memory, Clobbered(stack_pointer)}
    BY <1>5 DEF Call, CallReturns
  <2> QED BY <2>2, <2>3, Stutter
<1>6. CASE CallThrows
  BY <1>6, ThrowPromise
<1>7. CASE ReachCondition \/ LeaveLoop \/ TakeAnswer
  BY <1>7, MovePromise
<1>8. CASE Suspend
  BY <1>8, SuspendPromise
<1>9. ASSUME NEW s \in Slot, Return(s)
      PROVE  Promise!Next
  BY <1>9, ReturnPromise
<1> QED BY <1>1, <1>2, <1>3, <1>4, <1>5, <1>6, <1>7, <1>8, <1>9 DEF Next

(* The step function is the frame loop the entry is written as, for every  *)
(* entry that suspends, and for any other that has no two variables of     *)
(* large alignment.                                                        *)
THEOREM KeepsFrameLoop ==
  ASSUME MaxUnsuspended \in {0, 1}
  PROVE  Spec => KeepsPromise
<1>1. IInv /\ IInv' /\ OneUnplaced /\ [Next]_vars => [Promise!Next]_Promise!vars
  BY NextPromise
<1> QED BY <1>1, InitPromise, Invariant, OneUnplacedInvariant, PTL
        DEF Spec, KeepsPromise, Promise!Spec
=============================================================================
