----------------------------- MODULE FrameLoop ------------------------------
(***************************************************************************)
(* What a resumable entry promises its host: a C function whose frame      *)
(* condition is asked of the host.  It runs once; its variables keep their *)
(* values while it waits; it leaves the loop when the answer is zero; its  *)
(* result is the value of the variable it returns.                         *)
(***************************************************************************)
CONSTANTS Slot, Value, NoResult

VARIABLES
  state,   \* of the entry
  place,   \* the part of the function that runs
  locals,  \* the variables assigned so far
  result

vars == <<state, place, locals, result>>

NoLocals == [s \in {} |-> NoResult]

Init ==
  /\ state = "not started"
  /\ place = "entry"
  /\ locals = NoLocals
  /\ result = NoResult

Start ==
  /\ state = "not started"
  /\ state' = "running"
  /\ UNCHANGED <<place, locals, result>>

Assign(s, v) ==
  /\ state = "running"
  /\ locals' = [t \in DOMAIN locals \cup {s} |->
                  IF t = s THEN v ELSE locals[t]]
  /\ UNCHANGED <<state, place, result>>

(* The loop asks for its next frame.                                       *)
Wait ==
  /\ state = "running"
  /\ state' = "suspended"
  /\ place' = "entry"
  /\ UNCHANGED <<locals, result>>

Answer(frame) ==
  /\ state = "suspended"
  /\ state' = "running"
  /\ place' = IF frame THEN "body" ELSE "exit"
  /\ UNCHANGED <<locals, result>>

Break ==
  /\ state = "running" /\ place = "body"
  /\ place' = "exit"
  /\ UNCHANGED <<state, locals, result>>

Complete(s) ==
  /\ state = "running" /\ s \in DOMAIN locals
  /\ state' = "completed"
  /\ place' = "entry"
  /\ locals' = NoLocals
  /\ result' = locals[s]

(* A function it called threw: nothing of it is ever run again.            *)
Abort ==
  /\ state = "running"
  /\ state' = "aborted"
  /\ place' = "entry"
  /\ locals' = NoLocals
  /\ UNCHANGED result

Next ==
  \/ Start \/ Wait \/ Break \/ Abort
  \/ \E s \in Slot, v \in Value : Assign(s, v)
  \/ \E s \in Slot : Complete(s)
  \/ \E frame \in BOOLEAN : Answer(frame)

Spec == Init /\ [][Next]_vars
=============================================================================
