---------------------------- MODULE VlaLifetimes ----------------------------
(***************************************************************************)
(* The storage of variable length arrays: how the resolver records which   *)
(* of them are in scope (semantic/syntax_typed_hir_resolution.c), how the  *)
(* lowering places saves and restores of the stack pointer                 *)
(* (lowering/hir_ir_statement.c, lowering/hir_ir_cfg.c), and what a run of *)
(* the lowered function does to the stack.                                 *)
(*                                                                         *)
(* A function is a sequence of items.  "scope", "loop" and "switch" open a *)
(* block that the matching "end" closes; "vla" declares an array, "vm" a   *)
(* variably modified name without storage (a pointer to such an array);    *)
(* "case", "goto", "break" and "continue" are themselves.  A jump is the   *)
(* body of an if whose condition is not modelled.  Every position may be a *)
(* label.  A loop may declare an array or a name before its first test, as *)
(* for does.  The identity of a lifetime is the position that declares it, *)
(* and 0 is the function's own.                                            *)
(***************************************************************************)
EXTENDS Integers, Sequences, SequencesExt, FiniteSetsExt

CONSTANTS
  Length,          \* bound: items in a function
  MaxDeclarations, \* bound: items that declare
  MaxBlocks,       \* bound: blocks
  MaxJumps,        \* bound: gotos, breaks and continues
  Size             \* the sizes an array may turn out to have

ASSUME LengthAssumption == Length \in Nat \ {0}
ASSUME BoundAssumption ==
  MaxDeclarations \in Nat /\ MaxBlocks \in Nat /\ MaxJumps \in Nat

VARIABLES
  phase,     \* "parse", "lower", "run", "rejected"
  code,      \* the items
  vm_scope,  \* resolver: the declarations in scope before each item, in order
  open,      \* the positions of the blocks that are open
  at,        \* the item being lowered or run, 0 while parsing
  testing,   \* at the condition of the loop that is at
  lifetimes, \* lowering: [canonical, checkpoint] of each lifetime
  current,   \* lowering: current_vla_lifetime_id
  entry,     \* lowering: the lifetime each open block was entered with
  vregs,     \* lowering: virtual registers given out
  emitted,   \* the instructions of each item, at the places they run
  stack,     \* the arrays that are on the stack, the deepest first
  saved,     \* the stack pointer that each register holds
  live,      \* ghost: the arrays whose scope the run is in
  unsaved    \* the register that a restore found without a value

resolving == <<code, vm_scope, open>>
lowering == <<lifetimes, current, entry, vregs, emitted>>
running == <<stack, saved, live, unsaved>>
vars == <<phase, resolving, at, testing, lowering, running>>

NONE == -1
Position == 1 .. Length + 1
Lifetime == 0 .. Length
Vreg == 1 .. 2 * (MaxDeclarations + MaxBlocks)

Openers == {"scope", "loop", "switch"}
Jumps == {"goto", "break", "continue"}
Item ==
  [op : Openers \cup Jumps \cup {"end", "case", "decl"},
   decl : {"none", "vla", "vm"},
   to : 0 .. Length + 1]

\* Declares(n): a vm_scope marker is pushed for the item at n.
Declares(n) == code[n].decl # "none"
IsVla(n) == code[n].decl = "vla"
EndOf(o) == CHOOSE n \in DOMAIN code : code[n].op = "end" /\ code[n].to = o

\* The declaration a label or a jump at n belongs to: the last one in scope.
LifetimeAt_First(n) ==  \* mutant: the outermost declaration
  IF vm_scope[n] = <<>> THEN 0 ELSE Head(vm_scope[n])
LifetimeAt(n) == IF vm_scope[n] = <<>> THEN 0 ELSE Last(vm_scope[n])

---------------------------------------------------------------------------
(* The resolver, while it reads the function. *)

Init ==
  /\ phase = "parse" /\ at = 0 /\ testing = FALSE
  /\ code = <<>> /\ vm_scope = << <<>> >> /\ open = <<>>
  /\ lifetimes = [l \in Lifetime |-> [canonical |-> 0, checkpoint |-> NONE]]
  /\ current = 0 /\ entry = <<>> /\ vregs = 0 /\ emitted = <<>>
  /\ stack = <<>> /\ saved = <<>>
  /\ live = <<>> /\ unsaved = NONE

Count(ops) == Cardinality({n \in DOMAIN code : code[n].op \in ops})
Declarations == Cardinality({n \in DOMAIN code : Declares(n)})
Innermost(ops) == Max({0} \cup {n \in Range(open) : code[n].op \in ops})

Read(op, decl, to, scope) ==
  /\ phase = "parse" /\ Len(code) < Length
  /\ decl # "none" => Declarations < MaxDeclarations
  /\ code' = Append(code, [op |-> op, decl |-> decl, to |-> to])
  /\ vm_scope' = Append(vm_scope, scope)
  /\ UNCHANGED <<phase, at, testing, lowering, running>>

\* push_direct_vm_scope_marker, when the item declares something.
Marked(decl) ==
  IF decl = "none" THEN Last(vm_scope)
  ELSE Append(Last(vm_scope), Len(code) + 1)

Declare(decl) ==
  /\ Read("decl", decl, 0, Marked(decl))
  /\ UNCHANGED open

Open(op, decl) ==
  /\ Read(op, decl, 0, Marked(decl))
  /\ Count(Openers) < MaxBlocks
  /\ open' = Append(open, Len(code) + 1)

Close ==
  /\ open # <<>>
  /\ Read("end", "none", Last(open), vm_scope[Last(open)])
  /\ open' = Front(open)

\* A case label must be in the variably modified scope of its switch.
Case ==
  LET s == Innermost({"switch"}) IN
  /\ s # 0
  /\ vm_scope[s] = Last(vm_scope)
  /\ Read("case", "none", s, Last(vm_scope))
  /\ UNCHANGED open

Jump(op, to) ==
  /\ Read(op, "none", to, Last(vm_scope))
  /\ Count(Jumps) < MaxJumps
  /\ UNCHANGED open

Goto == \E to \in Position : Jump("goto", to)

\* break leaves the innermost loop or switch, continue goes on with the loop.
Leave(op, blocks) == Innermost(blocks) # 0 /\ Jump(op, Innermost(blocks))

\* validate_direct_function_vm_jumps: whatever is in scope at the label is
\* in scope at the goto.
GotosAreValid ==
  \A n \in DOMAIN code : code[n].op = "goto" =>
    /\ code[n].to <= Len(vm_scope)
    /\ IsPrefix(vm_scope[code[n].to], vm_scope[n])

Resolve ==
  /\ phase = "parse" /\ open = <<>>
  /\ \E n \in DOMAIN code : IsVla(n)   \* bound: functions with an array
  /\ phase' = IF GotosAreValid THEN "lower" ELSE "rejected"
  /\ at' = 1
  /\ UNCHANGED <<resolving, testing, lowering, running>>

---------------------------------------------------------------------------
(* The lowering, one item after the other. *)

Save(v) == <<[op |-> "save", vreg |-> v]>>
Restore(v) == IF v = NONE THEN <<>> ELSE <<[op |-> "restore", vreg |-> v]>>
Alloc == <<[op |-> "alloc", vreg |-> NONE]>>
Nothing == [enter |-> <<>>, body |-> <<>>, exit |-> <<>>]

ContainsVla(o) == \E n \in o + 1 .. EndOf(o) : IsVla(n)

\* hir_ir_vla_lifetime_restore: the instructions, and whether it fails.
RestoreTo(target) ==
  IF lifetimes[current].canonical = lifetimes[target].canonical THEN <<>>
  ELSE Restore(lifetimes[lifetimes[target].canonical].checkpoint)
RestoreFails(target) ==
  /\ lifetimes[current].canonical # lifetimes[target].canonical
  /\ lifetimes[lifetimes[target].canonical].checkpoint = NONE

\* hir_ir_vla_lifetime_prepare_allocation needs no save when the lifetime
\* that owns the storage around the array has a checkpoint.
Owner == lifetimes[current].canonical
IsPrepared == lifetimes[Owner].checkpoint # NONE

\* build_synthesized_block around the declaration at n, with the registers
\* from v up: what it emits, the registers it takes, the lifetimes after it.
Declaration(n, v) ==
  LET first == IF IsPrepared THEN <<>> ELSE Save(v)
      after == v + Len(first)
      prepared == IF IsPrepared THEN lifetimes
                  ELSE [lifetimes EXCEPT ![Owner].checkpoint = v]
  IN CASE code[n].decl = "none" ->
            [emit |-> <<>>, taken |-> 0, lifetimes |-> lifetimes]
       [] code[n].decl = "vm" ->
            [emit |-> <<>>, taken |-> 0,
             lifetimes |-> [lifetimes EXCEPT ![n].canonical = Owner]]
       [] code[n].decl = "vla" ->
            [emit |-> first \o Alloc \o Save(after),
             taken |-> Len(first) + 1,
             lifetimes |-> [prepared EXCEPT
               ![n] = [canonical |-> n, checkpoint |-> after]]]

Lower(op) == phase = "lower" /\ at \in DOMAIN code /\ code[at].op = op

Emit(instructions) ==
  /\ emitted' = Append(emitted, instructions)
  /\ at' = at + 1
  /\ UNCHANGED <<phase, resolving, testing, running>>

LowerDeclaration ==
  /\ Lower("decl")
  /\ LET d == Declaration(at, vregs + 1) IN
       /\ Emit([Nothing EXCEPT !.enter = d.emit])
       /\ vregs' = vregs + d.taken
       /\ lifetimes' = d.lifetimes
  /\ current' = at
  /\ UNCHANGED entry

LowerScope ==
  /\ Lower("scope")
  /\ entry' = Append(entry, current)
  /\ Emit(Nothing)
  /\ UNCHANGED <<lifetimes, current, vregs>>

\* for: a checkpoint for the whole loop before a first declaration of an
\* array, and one for each iteration when the body declares one.
LowerLoop ==
  /\ Lower("loop")
  /\ LET whole == IF IsVla(at) THEN vregs + 1 ELSE NONE
         d == Declaration(at, vregs + (IF IsVla(at) THEN 2 ELSE 1))
         taken == d.taken + (IF IsVla(at) THEN 1 ELSE 0)
         body == IF ContainsVla(at) THEN vregs + taken + 1 ELSE NONE
     IN /\ Emit([enter |-> (IF IsVla(at) THEN Save(whole) ELSE <<>>) \o d.emit,
                 body |-> IF ContainsVla(at) THEN Save(body) ELSE <<>>,
                 exit |-> Restore(whole)])
        /\ vregs' = vregs + taken + (IF ContainsVla(at) THEN 1 ELSE 0)
        /\ lifetimes' = d.lifetimes
  /\ entry' = Append(entry, current)
  /\ current' = IF code[at].decl = "none" THEN current ELSE at

\* switch: the checkpoint is saved before the dispatch, for every way out.
LowerSwitch_SaveAfterDispatch ==  \* mutant: the save is where no case passes
  /\ Lower("switch")
  /\ LET v == IF ContainsVla(at) THEN vregs + 1 ELSE NONE IN
       /\ Emit([Nothing EXCEPT !.exit = Restore(v)])
       /\ vregs' = IF ContainsVla(at) THEN v ELSE vregs
  /\ entry' = Append(entry, current)
  /\ UNCHANGED <<lifetimes, current>>
LowerSwitch ==
  /\ Lower("switch")
  /\ LET v == IF ContainsVla(at) THEN vregs + 1 ELSE NONE IN
       /\ Emit([Nothing EXCEPT !.enter = IF ContainsVla(at) THEN Save(v) ELSE <<>>,
                               !.exit = Restore(v)])
       /\ vregs' = IF ContainsVla(at) THEN v ELSE vregs
  /\ entry' = Append(entry, current)
  /\ UNCHANGED <<lifetimes, current>>

LowerCase ==
  /\ Lower("case")
  /\ Emit(Nothing)
  /\ UNCHANGED <<lifetimes, current, entry, vregs>>

\* The restore of a loop's body checkpoint, if it has one.
RestoreBody(o) ==
  IF emitted[o].body = <<>> THEN <<>> ELSE Restore(emitted[o].body[1].vreg)

\* The lifetime to go back to at the end of the block opened at o: that of
\* the declaration of a for, or the one the block was entered with.
EntryOf_Current(o) == current  \* mutant: nothing is given back
EntryOf(o) == IF Declares(o) THEN o ELSE Last(entry)

\* IR_HIR_BUILD_INVALID: a restore finds no checkpoint, or a goto or a label
\* is not in the lifetime that the resolver recorded for it.
LoweringFails ==
  \/ Lower("end") /\ RestoreFails(EntryOf(code[at].to))
  \/ Lower("goto") /\ RestoreFails(LifetimeAt(code[at].to))
  \/ /\ LifetimeAt(at) # current
     /\ \E n \in DOMAIN code : code[n].op = "goto" /\ at \in {n, code[n].to}

\* build_lexical_scope and what a loop emits behind its body.
LowerEnd ==
  /\ Lower("end") /\ ~LoweringFails
  /\ LET o == code[at].to IN
       Emit([Nothing EXCEPT !.enter = RestoreTo(EntryOf(o)) \o
               (IF code[o].op = "loop" THEN RestoreBody(o) ELSE <<>>)])
  /\ current' = Last(entry)
  /\ entry' = Front(entry)
  /\ UNCHANGED <<lifetimes, vregs>>

LowerLeave ==
  /\ Lower("break") \/ Lower("continue")
  /\ Emit([Nothing EXCEPT !.enter = RestoreBody(code[at].to)])
  /\ UNCHANGED <<lifetimes, current, entry, vregs>>

LowerGoto ==
  /\ Lower("goto") /\ ~LoweringFails
  /\ Emit([Nothing EXCEPT !.enter = RestoreTo(LifetimeAt(code[at].to))])
  /\ UNCHANGED <<lifetimes, current, entry, vregs>>

LowerReturn ==
  /\ phase = "lower" /\ at = Len(code) + 1 /\ ~LoweringFails
  /\ phase' = "run" /\ at' = 1
  /\ UNCHANGED <<resolving, testing, lowering, running>>

---------------------------------------------------------------------------
(* A run of the function. *)

\* One instruction, where the array being made is array.
Execute(m, i, array) ==
  IF m.unsaved # NONE THEN m
  ELSE CASE i.op = "alloc" -> [m EXCEPT !.stack = Append(@, array),
                                        !.live = Append(@, array)]
         [] i.op = "save" ->
              [m EXCEPT !.saved = [v \in DOMAIN @ \cup {i.vreg} |->
                                     IF v = i.vreg THEN m.stack ELSE @[v]]]
         [] i.op = "restore" ->
              IF i.vreg \in DOMAIN m.saved
                THEN [m EXCEPT !.stack = m.saved[i.vreg]]
                ELSE [m EXCEPT !.unsaved = i.vreg]

\* The instructions, one after the other.
ExecuteAll(m, instructions, array) ==
  LET after[k \in 0 .. Len(instructions)] ==
        IF k = 0 THEN m ELSE Execute(after[k - 1], instructions[k], array)
  IN after[Len(instructions)]

\* Those of the arrays that are declared in the scope.
Among(arrays, scope) ==
  LET kept[k \in 0 .. Len(arrays)] ==
        IF k = 0 THEN <<>>
        ELSE IF arrays[k].of \in Range(scope) THEN Append(kept[k - 1], arrays[k])
        ELSE kept[k - 1]
  IN kept[Len(arrays)]

\* Run the instructions and go on at to; arrays whose scope is left die.
Go(instructions, to, test) ==
  /\ phase = "run" /\ unsaved = NONE
  /\ \E size \in Size :
       LET array == [of |-> at, size |-> size]
           m == ExecuteAll([stack |-> stack, saved |-> saved, live |-> live,
                            unsaved |-> NONE], instructions, array)
       IN /\ stack' = m.stack /\ saved' = m.saved /\ unsaved' = m.unsaved
          /\ live' = Among(m.live, vm_scope[IF test THEN to + 1 ELSE to])
  /\ at' = to /\ testing' = test
  /\ UNCHANGED <<phase, resolving, lowering>>

Running(op) == phase = "run" /\ at \in DOMAIN code /\ code[at].op = op

RunOn ==
  /\ Running("decl") \/ Running("scope") \/ Running("case")
  /\ Go(emitted[at].enter, at + 1, FALSE)

RunSwitch ==
  /\ Running("switch")
  /\ \/ \E n \in DOMAIN code :
          /\ code[n].op = "case" /\ code[n].to = at
          /\ Go(emitted[at].enter, n, FALSE)
     \/ Go(emitted[at].enter \o emitted[at].exit, EndOf(at) + 1, FALSE)

RunLoop ==
  /\ Running("loop")
  /\ \/ ~testing /\ Go(emitted[at].enter, at, TRUE)
     \/ testing /\ Go(emitted[at].body, at + 1, FALSE)
     \/ testing /\ Go(emitted[at].exit, EndOf(at) + 1, FALSE)

RunEnd ==
  /\ Running("end")
  /\ LET o == code[at].to IN
       CASE code[o].op = "scope" -> Go(emitted[at].enter, at + 1, FALSE)
         [] code[o].op = "loop" -> Go(emitted[at].enter, o, TRUE)
         [] code[o].op = "switch" ->
              Go(emitted[at].enter \o emitted[o].exit, at + 1, FALSE)

RunJump ==
  LET to == code[at].to IN
  \/ \E op \in Jumps : Running(op) /\ Go(<<>>, at + 1, FALSE)
  \/ Running("goto") /\ Go(emitted[at].enter, to, FALSE)
  \/ Running("continue") /\ Go(emitted[at].enter, to, TRUE)
  \/ Running("break") /\ Go(emitted[at].enter \o emitted[to].exit, EndOf(to) + 1, FALSE)

---------------------------------------------------------------------------
Next ==
  \/ \E decl \in {"vla", "vm"} : Declare(decl)
  \/ \E op \in Openers : Open(op, "none")
  \/ \E decl \in {"vla", "vm"} : Open("loop", decl)
  \/ Close
  \/ Case
  \/ Goto \/ Leave("break", {"loop", "switch"}) \/ Leave("continue", {"loop"})
  \/ Resolve
  \/ LowerDeclaration \/ LowerScope \/ LowerLoop \/ LowerSwitch \/ LowerCase
  \/ LowerEnd \/ LowerLeave \/ LowerGoto \/ LowerReturn
  \/ RunOn \/ RunSwitch \/ RunLoop \/ RunEnd \/ RunJump

Spec == Init /\ [][Next]_vars

---------------------------------------------------------------------------
Array == [of : Position, size : Size]

\* Types; what is in scope at a position was declared before it.
TypeOK ==
  /\ phase \in {"parse", "lower", "run", "rejected"}
  /\ code \in Seq(Item) /\ Len(code) <= Length
  /\ Len(vm_scope) = Len(code) + 1
  /\ \A n \in DOMAIN vm_scope : vm_scope[n] \in Seq(1 .. n - 1)
  /\ open \in Seq(Position) /\ at \in 0 .. Length + 1 /\ testing \in BOOLEAN
  /\ lifetimes \in [Lifetime ->
       [canonical : Lifetime, checkpoint : Vreg \cup {NONE}]]
  /\ current \in Lifetime /\ entry \in Seq(Lifetime)
  /\ vregs \in 0 .. 2 * (MaxDeclarations + MaxBlocks)
  /\ stack \in Seq(Array) /\ live \in Seq(Array)
  /\ DOMAIN saved \subseteq Vreg /\ \A v \in DOMAIN saved : saved[v] \in Seq(Array)
  /\ unsaved \in Vreg \cup {NONE}


\* The resolver and the lowering each keep track of the lifetime that is
\* current, by different means.  For every function the resolver accepts they
\* agree at each goto and each label, and no restore the lowering asks for
\* lacks its checkpoint: hir_ir_vla_lifetime_restore never answers INVALID.
\* What the two number so are declarations and lifetimes that exist.
PassesAgree ==
  /\ TypeOK
  /\ phase = "lower" => ~LoweringFails

\* A jump into a loop or a switch that does not pass where its checkpoint is
\* saved: a goto from outside, or a case label inside a loop of the switch.
Inside(n, o) == o < n /\ n <= EndOf(o)
EntersBlock ==
  \E n, o \in DOMAIN code :
    /\ code[o].op \in {"loop", "switch"}
    /\ \/ code[n].op = "goto" /\ Inside(code[n].to, o) /\ ~Inside(n, o)
       \/ code[n].op = "case" /\ Inside(n, o) /\ code[n].to < o

\* In a function without such jumps, however its loops, switches and gotos
\* lead through it, the stack holds the arrays whose scope the run is in, in
\* the order they were made, and nothing else: no array is released while it
\* can be named and none is kept when its scope is left.
StackExact ==
  phase = "run" /\ unsaved = NONE /\ ~EntersBlock => stack = live

\* In such a function every checkpoint is saved before it is restored, with
\* one exception: that of the function's own lifetime, which is saved at the
\* first array of the text whether or not the run passes there.
NestedSavesDominate ==
  phase = "run" /\ ~EntersBlock => unsaved \in {NONE, lifetimes[0].checkpoint}

=============================================================================
