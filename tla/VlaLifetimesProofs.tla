------------------------- MODULE VlaLifetimesProofs -------------------------
(***************************************************************************)
(* What holds of the storage of variable length arrays, for functions of   *)
(* every length, with every number of declarations, blocks and jumps and   *)
(* every size of an array: the lowering finds every checkpoint it asks     *)
(* for, the stack of a run is exact, and a run restores what it has saved. *)
(*                                                                         *)
(* The inductive invariant VlaInv says of each pass what the next one      *)
(* needs.                                                                  *)
(*   Resolved: the scope before an item is that of the item before it with *)
(*     its declaration, or that from before the block an end closes; hence *)
(*     a scope is a chain of declarations, and what is in scope before a   *)
(*     block is in scope in all of it.                                     *)
(*   Agrees: each lifetime has the canonical lifetime that owns the storage *)
(*     there, a lifetime with an array has its checkpoint, no register is  *)
(*     given out twice, and what was emitted for an item is what leads from *)
(*     its scope to the scope behind it.                                   *)
(*   Runs: the registers that may be restored from here hold the stack as  *)
(*     it was: the checkpoint of each array in scope, of the body of each  *)
(*     block around, and of the whole of each block around.                *)
(*                                                                         *)
(* The last part is shown for each way a run takes: the instructions on it *)
(* leave the arrays of the scope it leads to (Ends), and the registers     *)
(* that are good for more than that scope are good for it (Arrival).  That *)
(* no jump enters a loop or a switch from outside gives that the blocks    *)
(* around the place a jump leads to were around the jump.                  *)
(***************************************************************************)
EXTENDS VlaLifetimes, FiniteSetTheorems, WellFoundedInduction, TLAPS

(* The blocks that are open before the item at n.                          *)
Around(n) ==
  {o \in DOMAIN code :
     /\ o < n /\ code[o].op \in Openers
     /\ \A e \in DOMAIN code : e < n /\ code[e].op = "end" => code[e].to # o}

(* b lists the members of S from the least to the greatest.                *)
Ascending(b, S) ==
  Range(b) = S /\ \A j, k \in DOMAIN b : j < k => b[j] < b[k]

(* What is in scope before the item at n.                                  *)
Scope(n) == Range(vm_scope[n])

(* What the resolver has checked of the item at n, and the scope behind it. *)
Fits(n) ==
  /\ code[n].op # "end" =>
       vm_scope[n + 1] = IF Declares(n) THEN Append(vm_scope[n], n) ELSE vm_scope[n]
  /\ code[n].op = "end" =>
       /\ code[n].to \in Around(n) /\ \A o \in Around(n) : o <= code[n].to
       /\ vm_scope[n + 1] = vm_scope[code[n].to]
  /\ Declares(n) => code[n].op \in {"decl", "loop"}
  /\ code[n].op = "decl" => Declares(n)
  /\ code[n].op = "case" =>
       /\ code[n].to \in Around(n) /\ code[code[n].to].op = "switch"
       /\ vm_scope[code[n].to] = vm_scope[n]
  /\ code[n].op = "break" =>
       code[n].to \in Around(n) /\ code[code[n].to].op \in {"loop", "switch"}
  /\ code[n].op = "continue" => code[n].to \in Around(n) /\ code[code[n].to].op = "loop"
  /\ code[n].op = "goto" => code[n].to \in Position

(* A scope is that behind its last declaration.                            *)
Chained ==
  \A n \in DOMAIN vm_scope :
    vm_scope[n] # <<>> =>
      /\ Last(vm_scope[n]) < n /\ Declares(Last(vm_scope[n]))
      /\ vm_scope[n] = vm_scope[Last(vm_scope[n]) + 1]

(* Inside a block, what is in scope and declared before its body is what    *)
(* its body began with.                                                     *)
Nests ==
  \A n \in DOMAIN vm_scope : \A o \in Around(n) :
    /\ Scope(o + 1) \subseteq Scope(n)
    /\ \A x \in Scope(n) : x > o \/ x \in Scope(o + 1)

(* The bounds on what a function holds, which bound the registers.         *)
Bounded ==
  Declarations <= MaxDeclarations /\ Count(Openers) <= MaxBlocks

(* The record of the resolver.                                             *)
Resolved ==
  /\ vm_scope \in Seq(Seq(Nat)) /\ vm_scope[1] = <<>> /\ (\A n \in DOMAIN code : Fits(n))
  /\ Ascending(open, Around(Len(code) + 1)) /\ Chained /\ Nests /\ Bounded
  /\ phase \in {"lower", "run"} => open = <<>> /\ GotosAreValid

(* How far the lowering has come.                                          *)
Done == IF phase = "lower" THEN at ELSE Len(code) + 1

(* The two things that are recorded of a lifetime.                         *)
Canonical(l) == lifetimes[l].canonical
Checkpoint(l) == lifetimes[l].checkpoint

(* A variable length array is its own canonical lifetime, another name has  *)
(* that of the lifetime around it; where there is an array there is a       *)
(* checkpoint of it and of the function's lifetime.                         *)
Recorded ==
  /\ Canonical(0) = 0
  /\ \A l \in DOMAIN code : l < Done /\ Declares(l) =>
       /\ Canonical(l) = IF IsVla(l) THEN l ELSE Canonical(LifetimeAt(l))
       /\ IsVla(l) => Checkpoint(l) # NONE /\ Checkpoint(0) # NONE
  /\ \A l \in DOMAIN code : l >= Done => Checkpoint(l) = NONE

(* The registers of the blocks.                                            *)
Whole(o) == IF emitted[o].exit = <<>> THEN NONE ELSE emitted[o].exit[1].vreg
Body(o) == IF emitted[o].body = <<>> THEN NONE ELSE emitted[o].body[1].vreg

(* No register is given out twice.                                         *)
Distinct ==
  /\ \A l \in Lifetime : Checkpoint(l) # NONE =>
       /\ Checkpoint(l) \in 1 .. vregs
       /\ \A k \in Lifetime : Checkpoint(k) = Checkpoint(l) => k = l
  /\ \A o \in DOMAIN emitted : Whole(o) # NONE =>
       /\ Whole(o) \in 1 .. vregs
       /\ \A p \in DOMAIN emitted : Whole(p) = Whole(o) => p = o
       /\ \A l \in Lifetime : Checkpoint(l) # Whole(o)
  /\ \A o \in DOMAIN emitted : Body(o) # NONE =>
       /\ Body(o) \in 1 .. vregs
       /\ \A p \in DOMAIN emitted : Body(p) = Body(o) => p = o
       /\ \A p \in DOMAIN emitted : Whole(p) # Body(o)
       /\ \A l \in Lifetime : Checkpoint(l) # Body(o)

(* A save where there is a register to save in.                            *)
SaveIn(v) == IF v = NONE THEN <<>> ELSE Save(v)

(* What is emitted at a declaration.                                       *)
Declaring(n, e) ==
  IF IsVla(n)
    THEN \/ e = Alloc \o Save(Checkpoint(n))
         \/ /\ Canonical(LifetimeAt(n)) = 0
            /\ e = Save(Checkpoint(0)) \o Alloc \o Save(Checkpoint(n))
    ELSE e = <<>>

(* What leads from the scope before n to that before m.                     *)
Releasing(n, m, e) ==
  LET c == Canonical(LifetimeAt(m)) IN
  IF Canonical(LifetimeAt(n)) = c THEN e = <<>>
  ELSE Checkpoint(c) # NONE /\ e = Restore(Checkpoint(c))

(* What the lowering has emitted for the item at n.                        *)
Lowered(n) ==
  LET e == emitted[n] IN
  /\ code[n].op \notin {"loop"} => e.body = <<>>
  /\ code[n].op \notin {"loop", "switch"} => e.exit = <<>>
  /\ code[n].op \in {"decl"} => Declaring(n, e.enter)
  /\ code[n].op \in {"scope", "case"} => e.enter = <<>>
  /\ code[n].op = "loop" =>
       /\ \E d : Declaring(n, d) /\ e.enter = SaveIn(Whole(n)) \o d
       /\ e.exit = Restore(Whole(n)) /\ (Whole(n) # NONE <=> IsVla(n))
       /\ e.body = SaveIn(Body(n)) /\ (Body(n) # NONE <=> ContainsVla(n))
  /\ code[n].op = "switch" =>
       /\ e.enter = SaveIn(Whole(n)) /\ e.exit = Restore(Whole(n))
       /\ (Whole(n) # NONE <=> ContainsVla(n))
  /\ code[n].op = "end" =>
       \E r : /\ Releasing(n, code[n].to + 1, r)
              /\ e.enter = IF code[code[n].to].op = "loop" THEN r \o Restore(Body(code[n].to)) ELSE r
  /\ code[n].op \in {"break", "continue"} => e.enter = Restore(Body(code[n].to))
  /\ code[n].op = "goto" => Releasing(n, code[n].to, e.enter)

(* How many items before n declare something, and how many open a block.   *)
DeclaredTo(n) == Cardinality({k \in DOMAIN code : k < n /\ Declares(k)})
OpenedTo(n) == Cardinality({k \in DOMAIN code : k < n /\ code[k].op \in Openers})
(* What an item emits.                                                     *)
Instruction ==
  {i \in [op : {"save", "restore", "alloc"}, vreg : Vreg \cup {NONE}] :
     i.vreg = NONE => i.op = "alloc"}
Block == [enter : Seq(Instruction), body : Seq(Instruction), exit : Seq(Instruction)]
(* What the lowering has done is what the resolver's record asks for.      *)
Agrees ==
  /\ emitted \in Seq(Block)
  /\ Recorded /\ Distinct /\ Len(emitted) = Done - 1
  /\ \A n \in DOMAIN emitted : Lowered(n)
  /\ vregs <= 2 * (DeclaredTo(Done) + OpenedTo(Done))
  /\ phase = "lower" =>
       /\ at \in DOMAIN vm_scope /\ current = LifetimeAt(at)
       /\ \E b \in Seq(DOMAIN code) :
            /\ Ascending(b, Around(at)) /\ Len(entry) = Len(b)
            /\ \A k \in DOMAIN b : entry[k] = LifetimeAt(b[k])

(* The register r holds the arrays that are in scope before n.              *)
Keeps(r, n) == r \in DOMAIN saved /\ saved[r] = Among(live, vm_scope[n])

(* The position whose scope the run is in.                                 *)
Here == IF testing THEN at + 1 ELSE at

(* The stack is what it should be, and so is every register that a jump or  *)
(* an end from here may restore.                                           *)
Exact ==
  /\ stack = live
  /\ \A k \in DOMAIN live : live[k].of \in Scope(Here) /\ IsVla(live[k].of)
  /\ \A l \in Scope(Here) : IsVla(l) => Keeps(Checkpoint(l), l + 1)
  /\ Checkpoint(0) \in DOMAIN saved => saved[Checkpoint(0)] = <<>>
  /\ \A o \in Around(at) : Body(o) # NONE => Keeps(Body(o), o + 1)
  /\ \A o \in Around(Here) : Whole(o) # NONE => Keeps(Whole(o), o)

(* In a function whose loops and switches are entered at their heads, the   *)
(* run is exact until a restore misses the function's own checkpoint.      *)
Runs ==
  phase = "run" =>
    /\ at \in DOMAIN vm_scope /\ (testing => at \in DOMAIN code /\ code[at].op = "loop")
    /\ ~EntersBlock => unsaved \in {NONE, Checkpoint(0)} /\ (unsaved = NONE => Exact)

(* What has not been begun is as it was at first.                          *)
Untouched ==
  /\ phase = "parse" =>
       /\ lifetimes = [l \in Lifetime |-> [canonical |-> 0, checkpoint |-> NONE]]
       /\ current = 0 /\ entry = <<>> /\ vregs = 0 /\ emitted = <<>>
  /\ phase \in {"parse", "lower"} =>
       stack = <<>> /\ saved = <<>> /\ live = <<>> /\ unsaved = NONE /\ testing = FALSE

(* What the three passes keep true.                                        *)
VlaInv ==
  /\ TypeOK /\ Resolved /\ Untouched
  /\ phase \in {"lower", "run"} => Agrees
  /\ Runs
-----------------------------------------------------------------------------
(* Sequences.                                                               *)
LEMMA SeqMono ==
  ASSUME NEW S, NEW T, S \subseteq T, NEW s \in Seq(S)
  PROVE  s \in Seq(T)
<1>1. Len(s) \in Nat /\ \A k \in 1 .. Len(s) : s[k] \in T
  OBVIOUS
<1>2. s = [k \in 1 .. Len(s) |-> s[k]]
  OBVIOUS
<1>3. [k \in 1 .. Len(s) |-> s[k]] \in Seq(T)
  BY <1>1
<1> QED BY <1>2, <1>3

LEMMA AppendFacts ==
  ASSUME NEW S, NEW s \in Seq(S), NEW x \in S
  PROVE  /\ Append(s, x) \in Seq(S) /\ Len(Append(s, x)) = Len(s) + 1 /\ Len(s) \in Nat
         /\ DOMAIN s = 1 .. Len(s) /\ DOMAIN Append(s, x) = 1 .. Len(s) + 1
         /\ Append(s, x)[Len(s) + 1] = x
         /\ \A k \in 1 .. Len(s) : Append(s, x)[k] = s[k]
OBVIOUS

LEMMA FrontFacts ==
  ASSUME NEW S, NEW s \in Seq(S), s # <<>>
  PROVE  /\ Front(s) \in Seq(S) /\ Len(Front(s)) = Len(s) - 1 /\ Len(s) \in Nat \ {0}
         /\ DOMAIN Front(s) = 1 .. Len(s) - 1 /\ DOMAIN s = 1 .. Len(s)
         /\ \A k \in 1 .. Len(s) - 1 : Front(s)[k] = s[k]
         /\ Last(s) = s[Len(s)] /\ Last(s) \in S
<1>1. Len(s) \in Nat \ {0} /\ DOMAIN s = 1 .. Len(s) /\ s[Len(s)] \in S
  OBVIOUS
<1>2. /\ SubSeq(s, 1, Len(s) - 1) \in Seq(S) /\ Len(SubSeq(s, 1, Len(s) - 1)) = Len(s) - 1
      /\ \A k \in 1 .. Len(s) - 1 : SubSeq(s, 1, Len(s) - 1)[k] = s[k]
  BY <1>1
<1>3. DOMAIN SubSeq(s, 1, Len(s) - 1) = 1 .. Len(s) - 1
  BY <1>2
<1> QED BY <1>1, <1>2, <1>3 DEF Front, Last

LEMMA AppendRange ==
  ASSUME NEW S, NEW s \in Seq(S), NEW x \in S
  PROVE  Range(Append(s, x)) = Range(s) \cup {x}
<1>1. ASSUME NEW y \in Range(Append(s, x))
      PROVE  y \in Range(s) \cup {x}
  BY <1>1, AppendFacts DEF Range
<1>2. ASSUME NEW y \in Range(s) \cup {x}
      PROVE  y \in Range(Append(s, x))
  <2>1. CASE y = x
    BY <2>1, AppendFacts DEF Range
  <2>2. CASE y \in Range(s)
    <3>1. PICK k \in 1 .. Len(s) : y = s[k]
      BY <2>2, AppendFacts DEF Range
    <3>2. y = Append(s, x)[k] /\ k \in 1 .. Len(s) + 1
      BY <3>1, AppendFacts
    <3> QED BY <3>2, AppendFacts DEF Range
  <2> QED BY <1>2, <2>1, <2>2
<1> QED BY <1>1, <1>2

(* A list in ascending order is a stack of its members.                    *)
LEMMA AscendingPush ==
  ASSUME NEW b \in Seq(Nat), NEW S, Ascending(b, S), NEW n \in Nat,
         \A x \in S : x < n
  PROVE  Ascending(Append(b, n), S \cup {n})
<1>1. Range(Append(b, n)) = S \cup {n}
  BY AppendRange DEF Ascending
<1>2. ASSUME NEW j \in 1 .. Len(b) + 1, NEW k \in 1 .. Len(b) + 1, j < k
      PROVE  Append(b, n)[j] < Append(b, n)[k]
  <2>1. j \in 1 .. Len(b) /\ Append(b, n)[j] = b[j] /\ b[j] \in S
    BY <1>2, AppendFacts DEF Ascending, Range
  <2>2. CASE k = Len(b) + 1
    BY <2>1, <2>2, AppendFacts
  <2>3. CASE k \in 1 .. Len(b)
    BY <1>2, <2>1, <2>3, AppendFacts DEF Ascending
  <2> QED BY <2>2, <2>3, AppendFacts
<1> QED BY <1>1, <1>2, AppendFacts DEF Ascending

LEMMA AscendingPop ==
  ASSUME NEW b \in Seq(Nat), NEW S, Ascending(b, S), b # <<>>
  PROVE  /\ Last(b) \in S /\ \A x \in S : x <= Last(b)
         /\ Ascending(Front(b), S \ {Last(b)})
<1>1. /\ Len(b) \in Nat \ {0} /\ Last(b) = b[Len(b)] /\ DOMAIN b = 1 .. Len(b)
      /\ \A k \in 1 .. Len(b) - 1 : Front(b)[k] = b[k]
      /\ DOMAIN Front(b) = 1 .. Len(b) - 1
  BY FrontFacts
<1>2. \A k \in 1 .. Len(b) - 1 : b[k] < Last(b)
  BY <1>1 DEF Ascending
<1>3. Last(b) \in S /\ Last(b) \in Nat
  BY <1>1 DEF Ascending, Range
<1>4. ASSUME NEW x \in S
      PROVE  x = Last(b) \/ \E k \in 1 .. Len(b) - 1 : x = b[k]
  <2>1. PICK k \in 1 .. Len(b) : x = b[k]
    BY <1>1 DEF Ascending, Range
  <2> QED BY <1>1, <2>1
<1>5. \A x \in S : x <= Last(b)
  BY <1>1, <1>2, <1>3, <1>4
<1>6. Range(Front(b)) = S \ {Last(b)}
  <2>1. ASSUME NEW x \in Range(Front(b))
        PROVE  x \in S \ {Last(b)}
    <3>1. PICK k \in 1 .. Len(b) - 1 : x = b[k]
      BY <1>1, <2>1 DEF Range
    <3>2. x \in S
      BY <1>1, <3>1 DEF Ascending, Range
    <3>3. x < Last(b) /\ x \in Nat
      BY <1>1, <1>2, <3>1
    <3> QED BY <1>3, <3>2, <3>3
  <2>2. ASSUME NEW x \in S \ {Last(b)}
        PROVE  x \in Range(Front(b))
    BY <1>1, <1>4, <2>2 DEF Range
  <2> QED BY <2>1, <2>2
<1>7. \A j, k \in DOMAIN Front(b) : j < k => Front(b)[j] < Front(b)[k]
  BY <1>1, SMTT(30) DEF Ascending
<1> QED BY <1>3, <1>5, <1>6, <1>7 DEF Ascending

-----------------------------------------------------------------------------
(* The resolver.                                                            *)

(* What a step of the resolver does, whatever it reads.                     *)
Reads(n, op, decl, to, scope) ==
  /\ n < Length /\ Length \in Nat
  /\ DOMAIN code = 1 .. n /\ DOMAIN vm_scope = 1 .. n + 1
  /\ Len(code') = n + 1 /\ DOMAIN code' = 1 .. n + 1
  /\ DOMAIN vm_scope' = 1 .. n + 2 /\ Len(vm_scope') = n + 2
  /\ code' \in Seq(Item) /\ vm_scope' \in Seq(Seq(Nat))
  /\ \A k \in 1 .. n : code'[k] = code[k]
  /\ code'[n + 1] = [op |-> op, decl |-> decl, to |-> to]
  /\ \A k \in 1 .. n + 1 : vm_scope'[k] = vm_scope[k]
  /\ vm_scope'[n + 2] = scope
  /\ \A k \in 1 .. n : code[k] \in Item

LEMMA ReadFacts ==
  ASSUME NEW n \in Nat, n = Len(code), TypeOK, vm_scope \in Seq(Seq(Nat)),
         NEW op \in Openers \cup Jumps \cup {"end", "case", "decl"},
         NEW decl \in {"none", "vla", "vm"}, NEW to \in 0 .. Length + 1,
         NEW scope \in Seq(1 .. n + 1), Read(op, decl, to, scope)
  PROVE  Reads(n, op, decl, to, scope)
<1>1. /\ code \in Seq(Item) /\ Len(code) < Length /\ Length \in Nat
      /\ Len(vm_scope) = Len(code) + 1
  BY LengthAssumption DEF TypeOK, Read
<1>2. [op |-> op, decl |-> decl, to |-> to] \in Item
  BY DEF Item
<1>3. scope \in Seq(Nat)
  <2>1. 1 .. Len(code) + 1 \subseteq Nat
    BY <1>1
  <2> QED BY <2>1
<1>4. /\ code' = Append(code, [op |-> op, decl |-> decl, to |-> to])
      /\ vm_scope' = Append(vm_scope, scope)
  BY DEF Read
<1>5. /\ code' \in Seq(Item) /\ Len(code') = Len(code) + 1 /\ Len(code) \in Nat
      /\ DOMAIN code = 1 .. Len(code) /\ DOMAIN code' = 1 .. Len(code) + 1
      /\ code'[Len(code) + 1] = [op |-> op, decl |-> decl, to |-> to]
      /\ \A k \in 1 .. Len(code) : code'[k] = code[k]
  BY <1>1, <1>2, <1>4, AppendFacts
<1>6. /\ vm_scope' \in Seq(Seq(Nat)) /\ Len(vm_scope') = Len(vm_scope) + 1
      /\ DOMAIN vm_scope = 1 .. Len(vm_scope) /\ DOMAIN vm_scope' = 1 .. Len(vm_scope) + 1
      /\ vm_scope'[Len(vm_scope) + 1] = scope
      /\ \A k \in 1 .. Len(vm_scope) : vm_scope'[k] = vm_scope[k]
  BY <1>3, <1>4, AppendFacts
<1>7. \A k \in 1 .. Len(code) : code[k] \in Item
  BY <1>1, <1>5
<1> QED BY <1>1, <1>5, <1>6, <1>7 DEF Reads

(* The blocks that are open depend on what has been read only.              *)
LEMMA ReadAround ==
  ASSUME NEW n \in Nat, DOMAIN code = 1 .. n, DOMAIN code' = 1 .. n + 1,
         \A k \in 1 .. n : code'[k] = code[k],
         \A k \in 1 .. n : code[k].op = "end" => code[k].to \in 1 .. n
  PROVE  /\ \A k \in 1 .. n + 1 : Around(k)' = Around(k)
         /\ code'[n + 1].op \in Openers => Around(n + 2)' = Around(n + 1) \cup {n + 1}
         /\ code'[n + 1].op = "end" => Around(n + 2)' = Around(n + 1) \ {code'[n + 1].to}
         /\ code'[n + 1].op \notin Openers \cup {"end"} => Around(n + 2)' = Around(n + 1)
<1>1. ASSUME NEW k \in 1 .. n + 1
      PROVE  Around(k)' = Around(k)
  BY DEF Around
<1>2. ASSUME NEW o
      PROVE  o \in Around(n + 2)' <=>
               /\ o \in Around(n + 1) \/ (o = n + 1 /\ code'[n + 1].op \in Openers)
               /\ code'[n + 1].op = "end" => code'[n + 1].to # o
  <2>1. o \in Around(n + 2)' <=>
          /\ o \in 1 .. n + 1 /\ code'[o].op \in Openers
          /\ \A e \in 1 .. n + 1 : code'[e].op = "end" => code'[e].to # o
    BY DEF Around
  <2>2. o \in Around(n + 1) <=>
          /\ o \in 1 .. n /\ code[o].op \in Openers
          /\ \A e \in 1 .. n : code[e].op = "end" => code[e].to # o
    BY DEF Around
  <2>3. \A e : e \in 1 .. n + 1 <=> e \in 1 .. n \/ e = n + 1
    OBVIOUS
  <2>4. CASE o = n + 1
    BY <2>1, <2>2, <2>4 DEF Openers
  <2>5. CASE o # n + 1
    BY <2>1, <2>2, <2>3, <2>5
  <2> QED BY <2>4, <2>5
<1>3. \A S, T : (\A o : o \in S <=> o \in T) => S = T
  OBVIOUS
<1>4. CASE code'[n + 1].op \in Openers
  <2>1. code'[n + 1].op # "end"
    BY <1>4 DEF Openers
  <2> QED BY <1>1, <1>2, <1>3, <1>4, <2>1 DEF Openers
<1>5. CASE code'[n + 1].op \notin Openers
  BY <1>1, <1>2, <1>3, <1>5 DEF Openers
<1> QED BY <1>4, <1>5

(* An end closes a block that was opened before it.                        *)
LEMMA EndsBlock ==
  ASSUME Resolved, NEW k \in DOMAIN code, code[k].op = "end"
  PROVE  code[k].to \in DOMAIN code /\ code[k].to < k
BY DEF Resolved, Fits, Around

LEMMA ReadFits ==
  ASSUME NEW n \in Nat, DOMAIN code = 1 .. n, DOMAIN code' = 1 .. n + 1,
         \A k \in 1 .. n : code'[k] = code[k],
         \A k \in 1 .. n + 1 : vm_scope'[k] = vm_scope[k],
         \A k \in 1 .. n + 1 : Around(k)' = Around(k),
         NEW k \in 1 .. n, Fits(k)
  PROVE  Fits(k)'
<1>1. /\ code'[k] = code[k] /\ vm_scope'[k] = vm_scope[k] /\ vm_scope'[k + 1] = vm_scope[k + 1]
      /\ Around(k)' = Around(k) /\ Declares(k)' = Declares(k)
  BY DEF Declares
<1>2. ASSUME code[k].to \in Around(k)
      PROVE  /\ code'[code[k].to] = code[code[k].to]
             /\ vm_scope'[code[k].to] = vm_scope[code[k].to]
  BY <1>2 DEF Around
<1>3. /\ code'[k].op # "end" =>
           vm_scope'[k + 1] = IF Declares(k)' THEN Append(vm_scope'[k], k) ELSE vm_scope'[k]
      /\ Declares(k)' => code'[k].op \in {"decl", "loop"}
      /\ code'[k].op = "decl" => Declares(k)'
  BY <1>1 DEF Fits
<1>4. code'[k].op = "end" =>
       /\ code'[k].to \in Around(k)' /\ \A o \in Around(k)' : o <= code'[k].to
       /\ vm_scope'[k + 1] = vm_scope'[code'[k].to]
  BY <1>1, <1>2 DEF Fits
<1>5. code'[k].op = "case" =>
       /\ code'[k].to \in Around(k)' /\ code'[code'[k].to].op = "switch"
       /\ vm_scope'[code'[k].to] = vm_scope'[k]
  BY <1>1, <1>2 DEF Fits
<1>6. /\ code'[k].op = "break" =>
           code'[k].to \in Around(k)' /\ code'[code'[k].to].op \in {"loop", "switch"}
      /\ code'[k].op = "continue" =>
           code'[k].to \in Around(k)' /\ code'[code'[k].to].op = "loop"
      /\ code'[k].op = "goto" => code'[k].to \in Position
  BY <1>1, <1>2 DEF Fits
<1> QED BY <1>3, <1>4, <1>5, <1>6 DEF Fits

(* What has been read stays well formed if the new item fits.              *)
LEMMA Longer ==
  ASSUME NEW n \in Nat, DOMAIN code = 1 .. n, DOMAIN vm_scope = 1 .. n + 1,
         DOMAIN code' = 1 .. n + 1, DOMAIN vm_scope' = 1 .. n + 2,
         \A k \in 1 .. n : code'[k] = code[k],
         \A k \in 1 .. n + 1 : vm_scope'[k] = vm_scope[k],
         \A k \in 1 .. n + 1 : vm_scope[k] \in Seq(Nat) /\ vm_scope[k] \in Seq(1 .. k - 1),
         NEW op, op = code'[n + 1].op, NEW to, to = code'[n + 1].to,
         NEW scope, vm_scope'[n + 2] = scope,
         \A k \in 1 .. n : Fits(k), Fits(n + 1)', Chained, Nests
  PROVE  (\A k \in 1 .. n + 1 : Fits(k)') /\ Chained' /\ Nests'
<1>c. \A k \in 1 .. n : code[k].op = "end" => code[k].to \in 1 .. n
  BY DEF Fits, Around
<1>d. /\ \A k \in 1 .. n + 1 : Around(k)' = Around(k)
      /\ op \in Openers => Around(n + 2)' = Around(n + 1) \cup {n + 1}
      /\ op = "end" => Around(n + 2)' = Around(n + 1) \ {to}
      /\ op \notin Openers \cup {"end"} => Around(n + 2)' = Around(n + 1)
  BY <1>c, ReadAround
<1>1. \A k \in 1 .. n + 1 : Fits(k)'
  <2> SUFFICES ASSUME NEW k \in 1 .. n + 1 PROVE Fits(k)'
    OBVIOUS
  <2>1. CASE k = n + 1
    BY <2>1
  <2>2. CASE k # n + 1
    <3>1. k \in 1 .. n /\ Fits(k)
      BY <2>2
    <3> QED BY <1>d, <3>1, ReadFits
  <2> QED BY <2>1, <2>2
<1>2. /\ op # "end" => scope = IF code'[n + 1].decl # "none" THEN Append(vm_scope[n + 1], n + 1)
                                                   ELSE vm_scope[n + 1]
      /\ op = "end" => /\ to \in Around(n + 1) /\ \A o \in Around(n + 1) : o <= to
                       /\ scope = vm_scope[to]
      /\ code'[n + 1].decl # "none" => op \in {"decl", "loop"}
  <2>1. n + 1 + 1 = n + 2 /\ n + 1 \in 1 .. n + 1
    OBVIOUS
  <2>2. /\ op # "end" => scope = IF code'[n + 1].decl # "none" THEN Append(vm_scope'[n + 1], n + 1)
                                                     ELSE vm_scope'[n + 1]
        /\ op = "end" => /\ to \in Around(n + 1)' /\ \A o \in Around(n + 1)' : o <= to
                         /\ scope = vm_scope'[to]
        /\ code'[n + 1].decl # "none" => op \in {"decl", "loop"}
    <3>1. /\ code'[n + 1].op # "end" =>
               vm_scope'[n + 1 + 1] = IF code'[n + 1].decl # "none" THEN Append(vm_scope'[n + 1], n + 1)
                                                                   ELSE vm_scope'[n + 1]
          /\ code'[n + 1].decl # "none" => code'[n + 1].op \in {"decl", "loop"}
      BY Zenon DEF Fits, Declares
    <3>2. code'[n + 1].op = "end" =>
            /\ code'[n + 1].to \in Around(n + 1)' /\ \A o \in Around(n + 1)' : o <= code'[n + 1].to
            /\ vm_scope'[n + 1 + 1] = vm_scope'[code'[n + 1].to]
      BY Zenon DEF Fits
    <3> QED BY <2>1, <3>1, <3>2
  <2>3. Around(n + 1)' = Around(n + 1) /\ vm_scope'[n + 1] = vm_scope[n + 1]
    BY <1>d, <2>1
  <2>4. to \in Around(n + 1) => vm_scope'[to] = vm_scope[to]
    BY DEF Around
  <2> QED BY <2>2, <2>3, <2>4, Zenon
<1>3. Chained'
  <2> SUFFICES ASSUME NEW k \in 1 .. n + 2, vm_scope'[k] # <<>>
               PROVE  /\ Last(vm_scope'[k]) < k /\ code'[Last(vm_scope'[k])].decl # "none"
                      /\ vm_scope'[k] = vm_scope'[Last(vm_scope'[k]) + 1]
    BY DEF Chained, Declares
  <2>1. ASSUME NEW j \in 1 .. n + 1, vm_scope[j] # <<>>
        PROVE  /\ Last(vm_scope[j]) < j /\ code'[Last(vm_scope[j])].decl # "none"
               /\ vm_scope[j] = vm_scope'[Last(vm_scope[j]) + 1]
    <3>1. /\ Last(vm_scope[j]) < j /\ Declares(Last(vm_scope[j]))
          /\ vm_scope[j] = vm_scope[Last(vm_scope[j]) + 1]
      BY <2>1, Zenon DEF Chained
    <3>2. Last(vm_scope[j]) \in 1 .. j - 1
      BY <2>1, FrontFacts
    <3>3. \A x \in 1 .. j - 1 : /\ Declares(x) => code'[x].decl # "none"
                               /\ vm_scope'[x + 1] = vm_scope[x + 1]
      BY DEF Declares
    <3> QED BY <3>1, <3>2, <3>3, Zenon
  <2>2. CASE k # n + 2
    <3>1. k \in 1 .. n + 1 /\ vm_scope'[k] = vm_scope[k]
      BY <2>2
    <3> QED BY <2>1, <3>1
  <2>3. CASE k = n + 2 /\ op # "end" /\ code'[n + 1].decl # "none"
    <3>1. vm_scope'[k] = Append(vm_scope[n + 1], n + 1)
      BY <1>2, <2>3
    <3>2. Last(Append(vm_scope[n + 1], n + 1)) = n + 1
      <4>1. vm_scope[n + 1] \in Seq(Nat) /\ n + 1 \in Nat
        OBVIOUS
      <4>2. PICK s : s = vm_scope[n + 1]
        OBVIOUS
      <4>3. Last(Append(s, n + 1)) = n + 1
        BY <4>1, <4>2, AppendFacts DEF Last
      <4> QED BY <4>2, <4>3
    <3>3. Last(vm_scope'[k]) = n + 1
      BY <3>1, <3>2, Zenon
    <3>5. n + 1 < k
      BY <2>3
    <3>4. vm_scope'[k] = vm_scope'[n + 1 + 1]
      BY <2>3
    <3> QED BY <2>3, <3>3, <3>4, <3>5, Zenon
  <2>4. CASE k = n + 2 /\ op # "end" /\ code'[n + 1].decl = "none"
    <3>1. vm_scope'[k] = vm_scope[n + 1] /\ n + 1 \in 1 .. n + 1
      BY <1>2, <2>4
    <3>2. /\ Last(vm_scope[n + 1]) < n + 1 /\ code'[Last(vm_scope[n + 1])].decl # "none"
          /\ vm_scope[n + 1] = vm_scope'[Last(vm_scope[n + 1]) + 1]
      BY <2>1, <3>1
    <3>3. Last(vm_scope[n + 1]) < k
      <4>1. Last(vm_scope[n + 1]) \in Nat
        BY <3>1, FrontFacts
      <4> QED BY <2>4, <3>2, <4>1
    <3> QED BY <3>1, <3>2, <3>3
  <2>5. CASE k = n + 2 /\ op = "end"
    <3>1. vm_scope'[k] = vm_scope[to] /\ to \in 1 .. n
      BY <1>2, <2>5 DEF Around
    <3>2. to \in 1 .. n + 1
      BY <3>1
    <3>3. /\ Last(vm_scope[to]) < to /\ code'[Last(vm_scope[to])].decl # "none"
          /\ vm_scope[to] = vm_scope'[Last(vm_scope[to]) + 1]
      BY <2>1, <3>1, <3>2
    <3>4. Last(vm_scope[to]) < k
      <4>1. Last(vm_scope[to]) \in Nat
        BY <3>1, <3>2, FrontFacts
      <4> QED BY <2>5, <3>1, <3>3, <4>1
    <3> QED BY <3>1, <3>3, <3>4
  <2> QED BY <2>2, <2>3, <2>4, <2>5
<1>4. Nests'
  <2> SUFFICES ASSUME NEW k \in 1 .. n + 2, NEW o \in Around(k)'
               PROVE  /\ Scope(o + 1)' \subseteq Scope(k)'
                      /\ \A x \in Scope(k)' : x > o \/ x \in Scope(o + 1)'
    BY Zenon DEF Nests
  <2>0. \A j \in 1 .. n + 1 : Scope(j)' = Scope(j)
    BY DEF Scope
  <2>1. ASSUME NEW j \in 1 .. n + 1, NEW p \in Around(j)
        PROVE  /\ Scope(p + 1)' \subseteq Scope(j) /\ p \in 1 .. n /\ p < j
               /\ \A x \in Scope(j) : x > p \/ x \in Scope(p + 1)'
    <3>0. p \in DOMAIN code /\ p < j
      BY Zenon DEF Around
    <3>1. p \in 1 .. n /\ p + 1 \in 1 .. n + 1 /\ p < j
      BY <3>0
    <3>2. /\ Scope(p + 1) \subseteq Scope(j)
          /\ \A x \in Scope(j) : x > p \/ x \in Scope(p + 1)
      BY DEF Nests
    <3> QED BY <2>0, <3>1, <3>2
  <2>2. CASE k # n + 2
    <3>1. k \in 1 .. n + 1 /\ Scope(k)' = Scope(k) /\ o \in Around(k)
      BY <1>d, <2>0, <2>2
    <3> QED BY <2>1, <3>1
  <2>3. CASE k = n + 2 /\ o = n + 1
    BY <2>3 DEF Scope
  <2>4. CASE k = n + 2 /\ o # n + 1 /\ op # "end"
    <3>1. o \in Around(n + 1) /\ n + 1 \in 1 .. n + 1
      BY <1>d, <2>4
    <3>2. Scope(k)' = Scope(n + 1) \/ Scope(k)' = Scope(n + 1) \cup {n + 1}
      <4>1. n + 1 \in Nat /\ vm_scope[n + 1] \in Seq(Nat)
        OBVIOUS
      <4>2. Range(Append(vm_scope[n + 1], n + 1)) = Range(vm_scope[n + 1]) \cup {n + 1}
        BY <4>1, AppendRange, SMTT(30)
      <4> QED BY <1>2, <2>4, <4>2 DEF Scope
    <3>3. n + 1 > o /\ o \in Nat
      BY <2>1, <3>1
    <3> QED BY <2>1, <3>1, <3>2, <3>3
  <2>5. CASE k = n + 2 /\ o # n + 1 /\ op = "end"
    <3>1. /\ o \in Around(n + 1) /\ o # to /\ o <= to /\ to \in Around(n + 1)
          /\ n + 1 \in 1 .. n + 1
      BY <1>d, <1>2, <2>5
    <3>2. Scope(k)' = Scope(to)
      BY <1>2, <2>5 DEF Scope
    <3>3. to \in 1 .. n + 1 /\ to < n + 1 /\ o < to
      BY <2>1, <3>1
    <3>4. o \in Around(to)
      BY <3>1, <3>3, SMTT(30) DEF Around
    <3> QED BY <2>1, <3>2, <3>3, <3>4, SMTT(30)
  <2> QED BY <2>2, <2>3, <2>4, <2>5
<1> QED BY <1>1, <1>3, <1>4

LEMMA ReadKeeps ==
  ASSUME NEW n \in Nat, n = Len(code), TypeOK, Resolved,
         NEW op \in Openers \cup Jumps \cup {"end", "case", "decl"},
         NEW decl \in {"none", "vla", "vm"}, NEW to \in 0 .. Length + 1,
         NEW scope \in Seq(1 .. n + 1), Read(op, decl, to, scope),
         Fits(n + 1)', open' \in Seq(Position), Ascending(open', Around(n + 2)'),
         Declarations' <= MaxDeclarations, Count(Openers)' <= MaxBlocks
  PROVE  TypeOK' /\ Resolved'
<1>a. vm_scope \in Seq(Seq(Nat))
  BY DEF Resolved
<1>b. /\ n < Length /\ Length \in Nat
      /\ DOMAIN code = 1 .. n /\ DOMAIN vm_scope = 1 .. n + 1
      /\ Len(code') = n + 1 /\ DOMAIN code' = 1 .. n + 1
      /\ DOMAIN vm_scope' = 1 .. n + 2 /\ Len(vm_scope') = n + 2
      /\ code' \in Seq(Item) /\ vm_scope' \in Seq(Seq(Nat))
      /\ \A k \in 1 .. n : code'[k] = code[k]
      /\ code'[n + 1] = [op |-> op, decl |-> decl, to |-> to]
      /\ \A k \in 1 .. n + 1 : vm_scope'[k] = vm_scope[k]
      /\ vm_scope'[n + 2] = scope
  <2>1. Reads(n, op, decl, to, scope)
    BY <1>a, ReadFacts, Zenon
  <2> QED BY <2>1, Zenon DEF Reads
<1>f. \A k \in 1 .. n + 1 : vm_scope[k] \in Seq(Nat) /\ vm_scope[k] \in Seq(1 .. k - 1)
  <2>1. \A k \in 1 .. n + 1 : vm_scope[k] \in Seq(Nat)
    BY <1>a, <1>b
  <2>2. \A k \in 1 .. n + 1 : vm_scope[k] \in Seq(1 .. k - 1)
    BY <1>b DEF TypeOK
  <2> QED BY <2>1, <2>2
<1>1. (\A k \in 1 .. n + 1 : Fits(k)') /\ Chained' /\ Nests'
  <2>1. (\A k \in 1 .. n : Fits(k)) /\ Chained /\ Nests
    BY <1>b DEF Resolved
  <2>2. code'[n + 1].op = op /\ code'[n + 1].to = to
    BY <1>b
  <2> QED BY <1>b, <1>f, <2>1, <2>2, Longer, Zenon
<1>5. TypeOK'
  <2>1. \A k \in 1 .. n + 2 : vm_scope'[k] \in Seq(1 .. k - 1)
    <3> SUFFICES ASSUME NEW k \in 1 .. n + 2 PROVE vm_scope'[k] \in Seq(1 .. k - 1)
      OBVIOUS
    <3>1. CASE k = n + 2
      BY <1>b, <3>1
    <3>2. CASE k # n + 2
      <4>1. k \in 1 .. n + 1
        BY <3>2
      <4>2. vm_scope'[k] = vm_scope[k] /\ vm_scope[k] \in Seq(1 .. k - 1)
        BY <4>1, <1>b, <1>f, Zenon
      <4> QED BY <4>2
    <3> QED BY <3>1, <3>2
  <2> QED BY <1>b, <2>1, SMTT(30) DEF TypeOK, Read, lowering, running
<1>6. phase' = "parse"
  BY DEF Read
<1>7. vm_scope'[1] = <<>>
  BY <1>b DEF Resolved
<1>8. Bounded'
  BY DEF Bounded
<1>9. n + 2 = Len(code') + 1
  BY <1>b
<1> QED BY <1>b, <1>1, <1>5, <1>6, <1>7, <1>8, <1>9 DEF Resolved
-----------------------------------------------------------------------------
(* Sets of numbers.                                                        *)
LEMMA LeastOf ==
  ASSUME NEW T, T \subseteq Nat, T # {}
  PROVE  \E x \in T : \A y \in T : x <= y
<1> DEFINE R == OpToRel(<, Nat)
<1>1. IsWellFoundedOn(R, Nat)
  BY NatLessThanWellFounded
<1>2. \A x, y \in Nat : x < y => <<x, y>> \in R
  BY DEF OpToRel
<1> HIDE DEF R
<1>3. PICK x \in T : \A y \in T : <<y, x>> \notin R
  BY <1>1, WFMin, Zenon
<1>4. \A y \in T : ~(y < x)
  BY <1>2, <1>3
<1>5. \A y \in T : x <= y
  <2>1. \A y \in T : x \in Nat /\ y \in Nat
    OBVIOUS
  <2> QED BY <1>4, <2>1
<1> QED BY <1>5

LEMMA GreatestOf ==
  ASSUME NEW k \in Nat, NEW T, T \subseteq 0 .. k, T # {}
  PROVE  \E m \in T : \A y \in T : m >= y
<1> DEFINE U == {u \in Nat : \A y \in T : y <= u}
<1>1. k \in U
  OBVIOUS
<1>2. PICK m \in U : \A u \in U : m <= u
  BY <1>1, LeastOf
<1>3. m \in Nat /\ (\A y \in T : y <= m) /\ \A y \in T : y \in Nat
  BY <1>2
<1>4. m \in T
  <2> SUFFICES ASSUME m \notin T
               PROVE  FALSE
    OBVIOUS
  <2>1. PICK z : z \in T
    OBVIOUS
  <2>2. m >= 1 /\ m - 1 \in Nat
    BY <1>3, <2>1
  <2>3. \A y \in T : y <= m - 1
    BY <1>3, <2>2
  <2>4. m - 1 \in U
    BY <2>2, <2>3
  <2> QED BY <1>2, <1>3, <2>2, <2>4
<1> QED BY <1>3, <1>4

LEMMA MaxIn ==
  ASSUME NEW k \in Nat, NEW T, T \subseteq 0 .. k, T # {}
  PROVE  Max(T) \in T
<1>1. \E m \in T : \A y \in T : m >= y
  BY GreatestOf
<1> QED BY <1>1, Zenon DEF Max

LEMMA Counting ==
  ASSUME NEW n \in Nat, NEW P, P \subseteq 1 .. n
  PROVE  /\ IsFiniteSet(P) /\ Cardinality(P) \in Nat
         /\ Cardinality(P \cup {n + 1}) = Cardinality(P) + 1
<1>1. IsFiniteSet(1 .. n)
  BY FS_Interval
<1>2. IsFiniteSet(P)
  BY <1>1, FS_Subset
<1>3. n + 1 \notin P
  OBVIOUS
<1> QED BY <1>2, <1>3, FS_AddElement, FS_CardinalityType

-----------------------------------------------------------------------------
(* The steps of the resolver.                                              *)

LEMMA CountRead ==
  ASSUME NEW n \in Nat, NEW op, NEW decl, NEW to, NEW scope,
         Reads(n, op, decl, to, scope)
  PROVE  /\ Declarations \in Nat /\ Count(Openers) \in Nat
         /\ Declarations' = IF decl # "none" THEN Declarations + 1 ELSE Declarations
         /\ Count(Openers)' = IF op \in Openers THEN Count(Openers) + 1 ELSE Count(Openers)
<1>1. /\ DOMAIN code = 1 .. n /\ DOMAIN code' = 1 .. n + 1
      /\ \A k \in 1 .. n : code'[k] = code[k]
      /\ code'[n + 1].op = op /\ code'[n + 1].decl = decl
  BY DEF Reads
<1> DEFINE D == {k \in 1 .. n : code[k].decl # "none"}
           E == {k \in 1 .. n : code[k].op \in Openers}
           DD == {k \in 1 .. n + 1 : code'[k].decl # "none"}
           EE == {k \in 1 .. n + 1 : code'[k].op \in Openers}
<1>2. /\ DD = IF decl # "none" THEN D \cup {n + 1} ELSE D
      /\ EE = IF op \in Openers THEN E \cup {n + 1} ELSE E
  <2>1. \A k : k \in 1 .. n + 1 <=> k \in 1 .. n \/ k = n + 1
    OBVIOUS
  <2>2. n + 1 \notin 1 .. n
    OBVIOUS
  <2>3. \A k : k \in DD <=> k \in D \/ (k = n + 1 /\ decl # "none")
    BY <1>1, <2>1, <2>2
  <2>4. \A k : k \in EE <=> k \in E \/ (k = n + 1 /\ op \in Openers)
    BY <1>1, <2>1, <2>2
  <2> HIDE DEF D, E, DD, EE
  <2> QED BY <2>3, <2>4
<1>3. D \subseteq 1 .. n /\ E \subseteq 1 .. n
  OBVIOUS
<1>4. Declarations = Cardinality(D) /\ Count(Openers) = Cardinality(E)
  BY <1>1 DEF Declarations, Declares, Count
<1>5. Declarations' = Cardinality(DD) /\ Count(Openers)' = Cardinality(EE)
  BY <1>1 DEF Declarations, Declares, Count
<1> HIDE DEF D, E, DD, EE
<1> QED BY <1>2, <1>3, <1>4, <1>5, Counting

LEMMA FitsNew ==
  ASSUME NEW n \in Nat, NEW op, NEW decl, NEW to, NEW scope,
         Reads(n, op, decl, to, scope), Around(n + 1)' = Around(n + 1),
         op # "end" => scope = IF decl # "none" THEN Append(vm_scope[n + 1], n + 1)
                                               ELSE vm_scope[n + 1],
         op = "end" => /\ to \in Around(n + 1) /\ \A o \in Around(n + 1) : o <= to
                       /\ scope = vm_scope[to],
         decl # "none" => op \in {"decl", "loop"}, op = "decl" => decl # "none",
         op \in {"case", "break", "continue"} => to \in Around(n + 1),
         op = "case" => code[to].op = "switch" /\ vm_scope[to] = vm_scope[n + 1],
         op = "break" => code[to].op \in {"loop", "switch"},
         op = "continue" => code[to].op = "loop",
         op = "goto" => to \in Position
  PROVE  Fits(n + 1)'
<1>1. /\ DOMAIN code = 1 .. n
      /\ \A k \in 1 .. n : code'[k] = code[k]
      /\ code'[n + 1].op = op /\ code'[n + 1].decl = decl /\ code'[n + 1].to = to
      /\ \A k \in 1 .. n + 1 : vm_scope'[k] = vm_scope[k]
      /\ vm_scope'[n + 2] = scope
  BY DEF Reads
<1>2. n + 1 + 1 = n + 2 /\ vm_scope'[n + 1] = vm_scope[n + 1]
  BY <1>1
<1>3. to \in Around(n + 1) => code'[to] = code[to] /\ vm_scope'[to] = vm_scope[to]
  <2>1. to \in Around(n + 1) => to \in 1 .. n
    BY <1>1, Zenon DEF Around
  <2> QED BY <1>1, <2>1
<1>4. /\ code'[n + 1].op # "end" =>
           vm_scope'[n + 1 + 1] = IF code'[n + 1].decl # "none"
                                    THEN Append(vm_scope'[n + 1], n + 1) ELSE vm_scope'[n + 1]
      /\ code'[n + 1].decl # "none" => code'[n + 1].op \in {"decl", "loop"}
      /\ code'[n + 1].op = "decl" => code'[n + 1].decl # "none"
  BY <1>1, <1>2
<1>5. code'[n + 1].op = "end" =>
       /\ code'[n + 1].to \in Around(n + 1)' /\ \A o \in Around(n + 1)' : o <= code'[n + 1].to
       /\ vm_scope'[n + 1 + 1] = vm_scope'[code'[n + 1].to]
  BY <1>1, <1>2, <1>3
<1>6. code'[n + 1].op = "case" =>
       /\ code'[n + 1].to \in Around(n + 1)' /\ code'[code'[n + 1].to].op = "switch"
       /\ vm_scope'[code'[n + 1].to] = vm_scope'[n + 1]
  BY <1>1, <1>2, <1>3
<1>7. code'[n + 1].op = "break" =>
       code'[n + 1].to \in Around(n + 1)' /\ code'[code'[n + 1].to].op \in {"loop", "switch"}
  BY <1>1, <1>3
<1>8. code'[n + 1].op = "continue" =>
       code'[n + 1].to \in Around(n + 1)' /\ code'[code'[n + 1].to].op = "loop"
  BY <1>1, <1>3
<1>9. code'[n + 1].op = "goto" => code'[n + 1].to \in Position
  BY <1>1
<1> QED BY <1>4, <1>5, <1>6, <1>7, <1>8, <1>9, Zenon DEF Fits, Declares

LEMMA Reading ==
  ASSUME NEW n \in Nat, n = Len(code), TypeOK, Resolved,
         NEW op \in Openers \cup Jumps \cup {"end", "case", "decl"},
         NEW decl \in {"none", "vla", "vm"}, NEW to \in 0 .. Length + 1,
         NEW scope \in Seq(1 .. n + 1), Read(op, decl, to, scope),
         op # "end" => scope = IF decl # "none" THEN Append(vm_scope[n + 1], n + 1)
                                               ELSE vm_scope[n + 1],
         op = "end" => /\ to \in Around(n + 1) /\ \A o \in Around(n + 1) : o <= to
                       /\ scope = vm_scope[to],
         decl # "none" => op \in {"decl", "loop"}, op = "decl" => decl # "none",
         op \in {"case", "break", "continue"} => to \in Around(n + 1),
         op = "case" => code[to].op = "switch" /\ vm_scope[to] = vm_scope[n + 1],
         op = "break" => code[to].op \in {"loop", "switch"},
         op = "continue" => code[to].op = "loop",
         op = "goto" => to \in Position,
         open' \in Seq(Position),
         op \in Openers => Ascending(open', Around(n + 1) \cup {n + 1}),
         op = "end" => Ascending(open', Around(n + 1) \ {to}),
         op \notin Openers \cup {"end"} => Ascending(open', Around(n + 1)),
         op \in Openers => Count(Openers) < MaxBlocks
  PROVE  TypeOK' /\ Resolved'
<1>a. vm_scope \in Seq(Seq(Nat)) /\ Bounded
  BY DEF Resolved
<1>b. Reads(n, op, decl, to, scope)
  BY <1>a, ReadFacts, Zenon
<1>c. /\ DOMAIN code = 1 .. n /\ DOMAIN code' = 1 .. n + 1
      /\ \A k \in 1 .. n : code'[k] = code[k]
      /\ code'[n + 1].op = op /\ code'[n + 1].to = to
  BY <1>b DEF Reads
<1>d. \A k \in 1 .. n : code[k].op = "end" => code[k].to \in 1 .. n
  BY <1>c, EndsBlock
<1>e. /\ \A k \in 1 .. n + 1 : Around(k)' = Around(k)
      /\ op \in Openers => Around(n + 2)' = Around(n + 1) \cup {n + 1}
      /\ op = "end" => Around(n + 2)' = Around(n + 1) \ {to}
      /\ op \notin Openers \cup {"end"} => Around(n + 2)' = Around(n + 1)
  BY <1>c, <1>d, ReadAround
<1>1. Fits(n + 1)'
  <2>1. Around(n + 1)' = Around(n + 1)
    BY <1>e
  <2> QED BY <1>b, <2>1, FitsNew, Zenon
<1>2. Ascending(open', Around(n + 2)')
  BY <1>e
<1>3. Declarations' <= MaxDeclarations /\ Count(Openers)' <= MaxBlocks
  <2>1. /\ Declarations \in Nat /\ Count(Openers) \in Nat
        /\ Declarations' = IF decl # "none" THEN Declarations + 1 ELSE Declarations
        /\ Count(Openers)' = IF op \in Openers THEN Count(Openers) + 1 ELSE Count(Openers)
    BY <1>b, CountRead
  <2>2. decl # "none" => Declarations < MaxDeclarations
    BY DEF Read
  <2> QED BY <1>a, <2>1, <2>2, BoundAssumption DEF Bounded
<1> QED BY <1>1, <1>2, <1>3, ReadKeeps, Zenon

LEMMA Parsing ==
  ASSUME NEW n, n = Len(code), TypeOK, Resolved
  PROVE  /\ n \in Nat /\ n <= Length /\ Length \in Nat /\ DOMAIN code = 1 .. n
         /\ Last(vm_scope) = vm_scope[n + 1]
         /\ \A k \in 1 .. n + 1 : vm_scope[k] \in Seq(1 .. n + 1)
         /\ Append(vm_scope[n + 1], n + 1) \in Seq(1 .. n + 1)
         /\ Around(n + 1) \subseteq 1 .. n
         /\ open \in Seq(Nat) /\ open \in Seq(Position) /\ Ascending(open, Around(n + 1))
<1>1. /\ n \in Nat /\ n <= Length /\ Length \in Nat /\ DOMAIN code = 1 .. n
      /\ vm_scope \in Seq(Seq(Nat)) /\ Len(vm_scope) = n + 1
  BY LengthAssumption DEF TypeOK, Resolved
<1>2. Last(vm_scope) = vm_scope[n + 1]
  BY <1>1 DEF Last
<1>3. ASSUME NEW k \in 1 .. n + 1
      PROVE  vm_scope[k] \in Seq(1 .. n + 1)
  <2>1. k \in DOMAIN vm_scope
    BY <1>1
  <2>2. vm_scope[k] \in Seq(1 .. k - 1)
    BY <2>1 DEF TypeOK
  <2>3. 1 .. k - 1 \subseteq 1 .. n + 1
    BY <1>1
  <2> QED BY <2>2, <2>3
<1>4. Append(vm_scope[n + 1], n + 1) \in Seq(1 .. n + 1)
  <2>1. n + 1 \in 1 .. n + 1
    BY <1>1
  <2> QED BY <1>3, <2>1, AppendFacts
<1>5. Around(n + 1) \subseteq 1 .. n
  BY <1>1, Zenon DEF Around
<1>6. open \in Seq(Position) /\ Ascending(open, Around(n + 1))
  BY DEF TypeOK, Resolved
<1>7. open \in Seq(Nat)
  <2>1. Position \subseteq Nat
    BY <1>1 DEF Position
  <2> QED BY <1>6, <2>1, SeqMono
<1> QED BY <1>1, <1>2, <1>3, <1>4, <1>5, <1>6, <1>7

LEMMA DeclareStep ==
  ASSUME TypeOK, Resolved, NEW decl \in {"vla", "vm"}, Declare(decl)
  PROVE  TypeOK' /\ Resolved'
<1> DEFINE op == "decl"
           to == 0
<1>1. PICK n : n = Len(code)
  OBVIOUS
<1>2. /\ n \in Nat /\ Length \in Nat /\ Last(vm_scope) = vm_scope[n + 1]
      /\ Append(vm_scope[n + 1], n + 1) \in Seq(1 .. n + 1)
      /\ open \in Seq(Position) /\ Ascending(open, Around(n + 1))
  BY <1>1, Parsing
<1>3. PICK scope \in Seq(1 .. n + 1) : scope = Append(vm_scope[n + 1], n + 1)
  BY <1>2
<1>4. Read(op, decl, to, scope) /\ open' = open
  BY <1>1, <1>2, <1>3 DEF Declare, Marked
<1>5. /\ op \in Openers \cup Jumps \cup {"end", "case", "decl"} /\ to \in 0 .. Length + 1
      /\ op \notin Openers /\ op \notin {"end", "case", "break", "continue", "goto"}
      /\ op \in {"decl", "loop"} /\ decl # "none" /\ decl \in {"none", "vla", "vm"}
  BY <1>2 DEF Openers
<1> HIDE DEF op, to
<1> QED BY <1>1, <1>2, <1>3, <1>4, <1>5, Reading

LEMMA OpenStep ==
  ASSUME TypeOK, Resolved, NEW op \in Openers, NEW decl \in {"none", "vla", "vm"},
         decl # "none" => op = "loop", Open(op, decl)
  PROVE  TypeOK' /\ Resolved'
<1> DEFINE to == 0
<1>1. PICK n : n = Len(code)
  OBVIOUS
<1>2. /\ n \in Nat /\ Length \in Nat /\ Last(vm_scope) = vm_scope[n + 1]
      /\ Append(vm_scope[n + 1], n + 1) \in Seq(1 .. n + 1)
      /\ vm_scope[n + 1] \in Seq(1 .. n + 1) /\ Around(n + 1) \subseteq 1 .. n
      /\ open \in Seq(Position) /\ open \in Seq(Nat) /\ Ascending(open, Around(n + 1))
  <2>1. n \in Nat => n + 1 \in 1 .. n + 1
    OBVIOUS
  <2> QED BY <1>1, <2>1, Parsing
<1>3. PICK scope \in Seq(1 .. n + 1) :
        scope = IF decl = "none" THEN vm_scope[n + 1] ELSE Append(vm_scope[n + 1], n + 1)
  BY <1>2
<1>4. Read(op, decl, to, scope) /\ open' = Append(open, n + 1) /\ Count(Openers) < MaxBlocks
  BY <1>1, <1>2, <1>3 DEF Open, Marked
<1>5. /\ op \in Openers \cup Jumps \cup {"end", "case", "decl"} /\ to \in 0 .. Length + 1
      /\ op \notin {"end", "case", "break", "continue", "goto", "decl"}
      /\ decl # "none" => op \in {"decl", "loop"}
  BY <1>2 DEF Openers
<1>6. Ascending(open', Around(n + 1) \cup {n + 1})
  <2>1. \A o \in Around(n + 1) : o < n + 1
    BY <1>2
  <2> QED BY <1>2, <1>4, <2>1, AscendingPush
<1>7. open' \in Seq(Position)
  <2>1. n + 1 \in Position
    BY <1>1, <1>2, <1>4 DEF Read, Position
  <2> QED BY <1>2, <1>4, <2>1
<1>8. op # "end" => scope = IF decl # "none" THEN Append(vm_scope[n + 1], n + 1)
                                            ELSE vm_scope[n + 1]
  BY <1>3
<1> HIDE DEF to
<1> QED BY <1>1, <1>2, <1>4, <1>5, <1>6, <1>7, <1>8, Reading

LEMMA CloseStep ==
  ASSUME TypeOK, Resolved, Close
  PROVE  TypeOK' /\ Resolved'
<1> DEFINE op == "end"
           decl == "none"
<1>1. PICK n : n = Len(code)
  OBVIOUS
<1>2. /\ n \in Nat /\ n <= Length /\ Length \in Nat /\ Last(vm_scope) = vm_scope[n + 1]
      /\ \A k \in 1 .. n + 1 : vm_scope[k] \in Seq(1 .. n + 1)
      /\ Around(n + 1) \subseteq 1 .. n
      /\ open \in Seq(Position) /\ open \in Seq(Nat) /\ Ascending(open, Around(n + 1))
  BY <1>1, Parsing
<1>3. PICK to : to = Last(open)
  OBVIOUS
<1>4. open # <<>> /\ Read("end", "none", to, vm_scope[to]) /\ open' = Front(open)
  BY <1>3 DEF Close
<1>5. /\ to \in Around(n + 1) /\ \A o \in Around(n + 1) : o <= to
      /\ Ascending(open', Around(n + 1) \ {to})
  BY <1>2, <1>3, <1>4, AscendingPop
<1>6. to \in 0 .. Length + 1 /\ to \in 1 .. n + 1
  BY <1>2, <1>5
<1>7. PICK scope \in Seq(1 .. n + 1) : scope = vm_scope[to]
  BY <1>2, <1>6
<1>8. open' \in Seq(Position)
  BY <1>2, <1>4, FrontFacts
<1>9. /\ op \in Openers \cup Jumps \cup {"end", "case", "decl"}
      /\ decl \in {"none", "vla", "vm"} /\ decl = "none" /\ op = "end"
      /\ op \notin Openers /\ op \notin {"case", "break", "continue", "goto"}
  BY DEF Openers
<1>10. Read(op, decl, to, scope)
  BY <1>4, <1>7
<1> HIDE DEF op, decl
<1> QED BY <1>1, <1>2, <1>5, <1>6, <1>7, <1>8, <1>9, <1>10, Reading

(* The innermost open block of a kind.                                     *)
LEMMA InnermostIs ==
  ASSUME NEW n, n = Len(code), TypeOK, Resolved, NEW ops, Innermost(ops) # 0
  PROVE  /\ Innermost(ops) \in Around(n + 1) /\ code[Innermost(ops)].op \in ops
         /\ Innermost(ops) \in 1 .. n
<1> DEFINE T == {0} \cup {k \in Range(open) : code[k].op \in ops}
<1>1. /\ n \in Nat /\ Around(n + 1) \subseteq 1 .. n /\ Ascending(open, Around(n + 1))
  BY Parsing
<1>2. T \subseteq 0 .. n /\ T # {}
  BY <1>1 DEF Ascending
<1>3. Innermost(ops) = Max(T)
  BY DEF Innermost
<1> HIDE DEF T
<1>4. Innermost(ops) \in T
  BY <1>1, <1>2, <1>3, MaxIn
<1> QED BY <1>1, <1>4 DEF T, Ascending

LEMMA CaseStep ==
  ASSUME TypeOK, Resolved, Case
  PROVE  TypeOK' /\ Resolved'
<1> DEFINE op == "case"
           decl == "none"
<1>1. PICK n : n = Len(code)
  OBVIOUS
<1>2. /\ n \in Nat /\ n <= Length /\ Length \in Nat /\ Last(vm_scope) = vm_scope[n + 1]
      /\ \A k \in 1 .. n + 1 : vm_scope[k] \in Seq(1 .. n + 1)
      /\ open \in Seq(Position) /\ Ascending(open, Around(n + 1))
  BY <1>1, Parsing
<1>3. PICK to : to = Innermost({"switch"})
  OBVIOUS
<1>4. /\ to # 0 /\ vm_scope[to] = vm_scope[n + 1] /\ open' = open
      /\ Read("case", "none", to, vm_scope[n + 1])
  BY <1>2, <1>3 DEF Case
<1>5. to \in Around(n + 1) /\ code[to].op = "switch" /\ to \in 1 .. n
  BY <1>1, <1>3, <1>4, InnermostIs
<1>6. to \in 0 .. Length + 1 /\ n + 1 \in 1 .. n + 1
  BY <1>2, <1>5
<1>7. PICK scope \in Seq(1 .. n + 1) : scope = vm_scope[n + 1]
  BY <1>2, <1>6
<1>9. /\ op \in Openers \cup Jumps \cup {"end", "case", "decl"}
      /\ decl \in {"none", "vla", "vm"} /\ decl = "none" /\ op = "case"
      /\ op \notin Openers /\ op \notin {"end", "break", "continue", "goto"}
  BY DEF Openers
<1>10. Read(op, decl, to, scope)
  BY <1>4, <1>7
<1> HIDE DEF op, decl
<1> QED BY <1>1, <1>2, <1>4, <1>5, <1>6, <1>7, <1>9, <1>10, Reading

LEMMA JumpStep ==
  ASSUME TypeOK, Resolved, NEW op \in Jumps, NEW to \in 0 .. Length + 1, Jump(op, to),
         op # "goto" => to \in Around(Len(code) + 1),
         op = "break" => code[to].op \in {"loop", "switch"},
         op = "continue" => code[to].op = "loop",
         op = "goto" => to \in Position
  PROVE  TypeOK' /\ Resolved'
<1> DEFINE decl == "none"
<1>1. PICK n : n = Len(code)
  OBVIOUS
<1>2. /\ n \in Nat /\ n <= Length /\ Length \in Nat /\ Last(vm_scope) = vm_scope[n + 1]
      /\ \A k \in 1 .. n + 1 : vm_scope[k] \in Seq(1 .. n + 1)
      /\ open \in Seq(Position) /\ Ascending(open, Around(n + 1))
  BY <1>1, Parsing
<1>7. PICK scope \in Seq(1 .. n + 1) : scope = vm_scope[n + 1]
  <2>1. n + 1 \in 1 .. n + 1
    BY <1>2
  <2> QED BY <1>2, <2>1
<1>9. /\ op \in Openers \cup Jumps \cup {"end", "case", "decl"}
      /\ decl \in {"none", "vla", "vm"} /\ decl = "none"
      /\ op \notin Openers /\ op \notin {"end", "case", "decl"}
      /\ op \in {"break", "continue"} => op # "goto"
  BY DEF Openers, Jumps
<1>10. Read(op, decl, to, scope) /\ open' = open
  BY <1>2, <1>7 DEF Jump
<1>11. op \in {"break", "continue"} => to \in Around(n + 1)
  BY <1>1, <1>9
<1> HIDE DEF decl
<1> QED BY <1>1, <1>2, <1>7, <1>9, <1>10, <1>11, Reading

LEMMA GotoStep ==
  ASSUME TypeOK, Resolved, Goto
  PROVE  TypeOK' /\ Resolved'
<1>1. PICK to \in Position : Jump("goto", to)
  BY DEF Goto
<1>2. to \in 0 .. Length + 1 /\ "goto" \in Jumps
  BY <1>1, LengthAssumption DEF Position, Jumps
<1> QED BY <1>1, <1>2, JumpStep

LEMMA LeaveStep ==
  ASSUME TypeOK, Resolved, NEW op, NEW blocks, Leave(op, blocks),
         \/ op = "break" /\ blocks = {"loop", "switch"}
         \/ op = "continue" /\ blocks = {"loop"}
  PROVE  TypeOK' /\ Resolved'
<1>1. PICK to : to = Innermost(blocks)
  OBVIOUS
<1>2. to # 0 /\ Jump(op, to)
  BY <1>1 DEF Leave
<1>3. PICK n : n = Len(code)
  OBVIOUS
<1>4. to \in Around(n + 1) /\ code[to].op \in blocks /\ to \in 1 .. n
  BY <1>1, <1>2, <1>3, InnermostIs
<1>5. n \in Nat /\ n <= Length /\ Length \in Nat
  BY <1>3, Parsing
<1>6. to \in 0 .. Length + 1 /\ op \in Jumps
  BY <1>4, <1>5 DEF Jumps
<1>7. op # "goto"
  OBVIOUS
<1> QED BY <1>2, <1>3, <1>4, <1>6, <1>7, JumpStep

-----------------------------------------------------------------------------
(* What the resolver's record says of the finished text.                   *)

LEMMA CodeFacts ==
  ASSUME NEW n, n = Len(code), TypeOK
  PROVE  /\ n \in Nat /\ n <= Length /\ Length \in Nat
         /\ DOMAIN code = 1 .. n /\ DOMAIN vm_scope = 1 .. n + 1
         /\ \A k \in 1 .. n : code[k] \in Item
         /\ \A k \in 1 .. n + 1 : vm_scope[k] \in Seq(1 .. k - 1)
<1>1. /\ n \in Nat /\ n <= Length /\ Length \in Nat /\ code \in Seq(Item)
      /\ DOMAIN code = 1 .. n /\ Len(vm_scope) = n + 1
  BY LengthAssumption DEF TypeOK
<1>2. \A k \in DOMAIN vm_scope : vm_scope[k] \in Seq(1 .. k - 1)
  BY DEF TypeOK
<1>3. CASE DOMAIN vm_scope = 1 .. n + 1
  BY <1>1, <1>2, <1>3
<1>4. CASE DOMAIN vm_scope # 1 .. n + 1
  BY <1>1, <1>4 DEF TypeOK
<1> QED BY <1>3, <1>4

LEMMA ScopeNext ==
  ASSUME TypeOK, Resolved, NEW n \in DOMAIN code, code[n].op # "end"
  PROVE  /\ vm_scope[n + 1] = IF Declares(n) THEN Append(vm_scope[n], n) ELSE vm_scope[n]
         /\ Scope(n + 1) = IF Declares(n) THEN Scope(n) \cup {n} ELSE Scope(n)
         /\ LifetimeAt(n + 1) = IF Declares(n) THEN n ELSE LifetimeAt(n)
<1>1. vm_scope[n + 1] = IF Declares(n) THEN Append(vm_scope[n], n) ELSE vm_scope[n]
  BY Zenon DEF Resolved, Fits
<1>2. n \in Nat /\ vm_scope[n] \in Seq(Nat)
  <2>0. PICK m : m = Len(code)
    OBVIOUS
  <2>1. n \in Nat /\ n \in DOMAIN vm_scope
    BY <2>0, CodeFacts
  <2> QED BY <2>1 DEF Resolved
<1>3. CASE Declares(n)
  <2>1. PICK s \in Seq(Nat) : s = vm_scope[n]
    BY <1>2
  <2>2. vm_scope[n + 1] = Append(s, n)
    BY <1>1, <1>3, <2>1
  <2>3. Range(Append(s, n)) = Range(s) \cup {n}
    BY <1>2, AppendRange
  <2>4. Append(s, n) # <<>> /\ Last(Append(s, n)) = n
    BY <1>2, AppendFacts DEF Last
  <2> QED BY <1>1, <1>3, <2>1, <2>2, <2>3, <2>4, Zenon DEF Scope, LifetimeAt
<1>4. CASE ~Declares(n)
  BY <1>1, <1>4, Zenon DEF Scope, LifetimeAt
<1> QED BY <1>3, <1>4

LEMMA AroundNext ==
  ASSUME TypeOK, Resolved, NEW n \in DOMAIN code
  PROVE  /\ code[n].op \in Openers => Around(n + 1) = Around(n) \cup {n}
         /\ code[n].op = "end" => Around(n + 1) = Around(n) \ {code[n].to}
         /\ code[n].op \notin Openers \cup {"end"} => Around(n + 1) = Around(n)
<1>0. PICK m : m = Len(code)
  OBVIOUS
<1>1. m \in Nat /\ DOMAIN code = 1 .. m
  BY <1>0, CodeFacts
<1>2. \A k \in 1 .. m : code[k].op = "end" => code[k].to < k
  BY <1>1, EndsBlock
<1>3. ASSUME NEW o
      PROVE  o \in Around(n + 1) <=>
               /\ o \in Around(n) \/ (o = n /\ code[n].op \in Openers)
               /\ code[n].op = "end" => code[n].to # o
  <2>1. o \in Around(n + 1) <=>
          /\ o \in 1 .. m /\ o < n + 1 /\ code[o].op \in Openers
          /\ \A e \in 1 .. m : e < n + 1 /\ code[e].op = "end" => code[e].to # o
    BY <1>1 DEF Around
  <2>2. o \in Around(n) <=>
          /\ o \in 1 .. m /\ o < n /\ code[o].op \in Openers
          /\ \A e \in 1 .. m : e < n /\ code[e].op = "end" => code[e].to # o
    BY <1>1 DEF Around
  <2>3. n \in 1 .. m /\ \A e \in 1 .. m : e < n + 1 <=> e < n \/ e = n
    BY <1>1
  <2>4. CASE o = n
    <3>1. \A e \in 1 .. m : e < n + 1 /\ code[e].op = "end" => code[e].to # n
      BY <1>1, <1>2, <2>3
    <3> QED BY <1>1, <1>2, <2>1, <2>2, <2>3, <2>4, <3>1
  <2>5. CASE o # n
    BY <2>1, <2>2, <2>3, <2>5
  <2> QED BY <2>4, <2>5
<1>4. \A S, T : (\A o : o \in S <=> o \in T) => S = T
  OBVIOUS
<1>5. CASE code[n].op \in Openers
  <2>1. code[n].op # "end"
    BY <1>5 DEF Openers
  <2> QED BY <1>3, <1>4, <1>5, <2>1
<1>6. CASE code[n].op \notin Openers
  BY <1>3, <1>4, <1>6
<1> QED BY <1>5, <1>6

(* A scope is what its last declaration found, and that declaration.       *)
LEMMA ChainStep ==
  ASSUME TypeOK, Resolved, NEW n \in DOMAIN vm_scope
  PROVE  /\ LifetimeAt(n) = 0 => vm_scope[n] = <<>> /\ Scope(n) = {}
         /\ LifetimeAt(n) # 0 =>
              /\ LifetimeAt(n) \in DOMAIN code /\ LifetimeAt(n) < n
              /\ Declares(LifetimeAt(n))
              /\ vm_scope[n] = vm_scope[LifetimeAt(n) + 1]
              /\ vm_scope[n] = Append(vm_scope[LifetimeAt(n)], LifetimeAt(n))
              /\ Scope(n) = Scope(LifetimeAt(n)) \cup {LifetimeAt(n)}
<1>0. PICK m : m = Len(code)
  OBVIOUS
<1>1. m \in Nat /\ DOMAIN code = 1 .. m /\ DOMAIN vm_scope = 1 .. m + 1 /\ n \in 1 .. m + 1
      /\ vm_scope[n] \in Seq(1 .. n - 1)
  BY <1>0, CodeFacts
<1>2. CASE vm_scope[n] = <<>>
  <2>1. LifetimeAt(n) = 0 /\ Scope(n) = {}
    BY <1>2 DEF LifetimeAt, Scope, Range
  <2> QED BY <1>2, <2>1
<1>3. CASE vm_scope[n] # <<>>
  <2>1. PICK l : l = LifetimeAt(n)
    OBVIOUS
  <2>2. l = Last(vm_scope[n])
    BY <1>3, <2>1 DEF LifetimeAt
  <2>3. l \in 1 .. n - 1
    BY <1>1, <1>3, <2>2, FrontFacts
  <2>4. Declares(l) /\ vm_scope[n] = vm_scope[l + 1]
    BY <1>3, <2>2, Zenon DEF Resolved, Chained
  <2>5. l \in DOMAIN code /\ l # 0 /\ l < n
    BY <1>1, <2>3
  <2>6. code[l].op # "end"
    <3>1. code[l].op \in {"decl", "loop"}
      BY <2>4, <2>5, Zenon DEF Resolved, Fits
    <3> QED BY <3>1
  <2>7. vm_scope[l + 1] = Append(vm_scope[l], l) /\ Scope(l + 1) = Scope(l) \cup {l}
    BY <2>4, <2>5, <2>6, ScopeNext
  <2>8. Scope(n) = Scope(l + 1)
    BY <2>4 DEF Scope
  <2> QED BY <2>1, <2>4, <2>5, <2>7, <2>8
<1> QED BY <1>2, <1>3

(* What is in scope behind a declaration stays so as long as it is itself. *)
LEMMA ScopeClosed ==
  ASSUME TypeOK, Resolved, NEW n \in DOMAIN vm_scope, NEW l \in Scope(n)
  PROVE  /\ l \in DOMAIN code /\ l < n /\ Declares(l)
         /\ Scope(l + 1) \subseteq Scope(n) /\ l \in Scope(l + 1)
<1> DEFINE Good(k) == \A x \in Scope(k) : /\ x \in DOMAIN code /\ x < k /\ Declares(x)
                                         /\ Scope(x + 1) \subseteq Scope(k) /\ x \in Scope(x + 1)
           T == {k \in DOMAIN vm_scope : ~Good(k)}
<1>0. PICK m : m = Len(code)
  OBVIOUS
<1>1. m \in Nat /\ DOMAIN code = 1 .. m /\ DOMAIN vm_scope = 1 .. m + 1
  BY <1>0, CodeFacts
<1>2. ASSUME T # {}
      PROVE  FALSE
  <2>1. T \subseteq Nat
    BY <1>1
  <2>2. PICK k \in T : \A y \in T : k <= y
    <3> HIDE DEF T
    <3> QED BY <1>2, <2>1, LeastOf
  <2>3. k \in DOMAIN vm_scope /\ ~Good(k)
    OBVIOUS
  <2>4. PICK p : p = LifetimeAt(k)
    OBVIOUS
  <2>5. p # 0
    <3>1. ASSUME p = 0
          PROVE  Good(k)
      BY <2>3, <2>4, <3>1, ChainStep
    <3> QED BY <2>3, <3>1
  <2>6. /\ p \in DOMAIN code /\ p < k /\ Declares(p)
        /\ vm_scope[k] = vm_scope[p + 1] /\ Scope(k) = Scope(p) \cup {p}
    BY <2>3, <2>4, <2>5, ChainStep
  <2>7. p \in DOMAIN vm_scope /\ p \notin T
    BY <1>1, <2>2, <2>3, <2>6
  <2>8. Good(p)
    BY <2>7
  <2>9. Scope(k) = Scope(p + 1)
    BY <2>6 DEF Scope
  <2> HIDE DEF T
  <2>10. ASSUME NEW x \in Scope(k)
         PROVE  /\ x \in DOMAIN code /\ x < k /\ Declares(x)
                /\ Scope(x + 1) \subseteq Scope(k) /\ x \in Scope(x + 1)
    <3>1. CASE x = p
      BY <2>6, <2>9, <3>1
    <3>2. CASE x \in Scope(p)
      <4>1. /\ x \in DOMAIN code /\ x < p /\ Declares(x)
            /\ Scope(x + 1) \subseteq Scope(p) /\ x \in Scope(x + 1)
        BY <2>8, <3>2
      <4>2. x < k
        BY <1>1, <2>3, <2>6, <4>1
      <4> QED BY <2>6, <4>1, <4>2
    <3> QED BY <2>6, <3>1, <3>2
  <2> QED BY <2>3, <2>10
<1> QED BY <1>2

-----------------------------------------------------------------------------
(* What the lowering has recorded of the lifetimes.                        *)

CanonicalIs(n, c) ==
  /\ c = 0 => \A x \in Scope(n) : ~IsVla(x)
  /\ c # 0 => /\ c \in Scope(n) /\ IsVla(c)
              /\ \A x \in Scope(n) : IsVla(x) => x \in Scope(c + 1)

LEMMA CanonScope ==
  ASSUME TypeOK, Resolved, Recorded, NEW n \in DOMAIN vm_scope, LifetimeAt(n) < Done
  PROVE  CanonicalIs(n, Canonical(LifetimeAt(n)))
<1> DEFINE T == {k \in DOMAIN vm_scope :
                   LifetimeAt(k) < Done /\ ~CanonicalIs(k, Canonical(LifetimeAt(k)))}
<1>0. PICK m : m = Len(code)
  OBVIOUS
<1>1. m \in Nat /\ DOMAIN code = 1 .. m /\ DOMAIN vm_scope = 1 .. m + 1
  BY <1>0, CodeFacts
<1>2. Done \in Int
  BY <1>0, <1>1, LengthAssumption DEF Done, TypeOK
<1>3. ASSUME T # {}
      PROVE  FALSE
  <2>1. T \subseteq Nat
    BY <1>1
  <2>2. PICK k \in T : \A y \in T : k <= y
    <3> HIDE DEF T
    <3> QED BY <1>3, <2>1, LeastOf
  <2>3. PICK p : p = LifetimeAt(k)
    OBVIOUS
  <2>4. k \in 1 .. m + 1 /\ p < Done /\ ~CanonicalIs(k, Canonical(p))
    BY <1>1, <2>3
  <2>5. p # 0
    <3>1. ASSUME p = 0
          PROVE  CanonicalIs(k, Canonical(p))
      <4>1. Scope(k) = {}
        BY <1>1, <2>3, <2>4, <3>1, ChainStep
      <4>2. Canonical(p) = 0
        BY <3>1 DEF Recorded
      <4> QED BY <4>1, <4>2 DEF CanonicalIs
    <3> QED BY <2>4, <3>1
  <2>6. /\ p \in DOMAIN code /\ p < k /\ Declares(p)
        /\ vm_scope[k] = vm_scope[p + 1] /\ Scope(k) = Scope(p) \cup {p}
    BY <1>1, <2>3, <2>4, <2>5, ChainStep
  <2>7. Canonical(p) = IF IsVla(p) THEN p ELSE Canonical(LifetimeAt(p))
    BY <2>4, <2>6, Zenon DEF Recorded
  <2>8. CASE IsVla(p)
    <3>1. Canonical(p) = p /\ p # 0 /\ p \in Scope(k)
      BY <2>5, <2>6, <2>7, <2>8
    <3>2. Scope(p + 1) = Scope(k)
      BY <2>6 DEF Scope
    <3> QED BY <2>4, <2>8, <3>1, <3>2 DEF CanonicalIs
  <2>9. CASE ~IsVla(p)
    <3>1. PICK q : q = LifetimeAt(p)
      OBVIOUS
    <3>2. p \in DOMAIN vm_scope /\ p \in Nat
      BY <1>1, <2>6
    <3>3. q = 0 \/ (q \in DOMAIN code /\ q < p)
      BY <3>1, <3>2, ChainStep, Zenon
    <3>4. q < Done
      <4>1. CASE q = 0
        BY <1>1, <1>2, <2>4, <2>6, <4>1
      <4>2. CASE q \in DOMAIN code /\ q < p
        BY <1>1, <1>2, <2>4, <2>6, <4>2
      <4> QED BY <3>3, <4>1, <4>2
    <3>5. p \notin T
      BY <1>1, <2>2, <2>4, <2>6
    <3>6. CanonicalIs(p, Canonical(q))
      BY <3>1, <3>2, <3>4, <3>5
    <3>7. Canonical(p) = Canonical(q)
      BY <2>7, <2>9, <3>1
    <3>8. CanonicalIs(k, Canonical(q))
      BY <2>6, <2>9, <3>6 DEF CanonicalIs
    <3> QED BY <2>4, <3>7, <3>8
  <2> QED BY <2>8, <2>9
<1> QED BY <1>3

(* The arrays in scope behind the canonical lifetime are all there are.    *)
LEMMA CanonicalArrays ==
  ASSUME TypeOK, Resolved, NEW n \in DOMAIN vm_scope, NEW c, CanonicalIs(n, c), c # 0
  PROVE  /\ c \in DOMAIN code /\ c < n /\ IsVla(c) /\ c \in Scope(n)
         /\ \A x : IsVla(x) => (x \in Scope(n) <=> x \in Scope(c + 1))
<1>1. c \in Scope(n) /\ IsVla(c) /\ \A x \in Scope(n) : IsVla(x) => x \in Scope(c + 1)
  BY DEF CanonicalIs
<1>2. c \in DOMAIN code /\ c < n /\ Scope(c + 1) \subseteq Scope(n)
  BY <1>1, ScopeClosed
<1> QED BY <1>1, <1>2

(* Wherever the storage of two places differs, there is a pointer to       *)
(* restore.                                                                *)
LEMMA Restorable ==
  ASSUME TypeOK, Resolved, Recorded, NEW n \in DOMAIN vm_scope, NEW m \in DOMAIN vm_scope,
         LifetimeAt(n) < Done, LifetimeAt(m) < Done,
         \A x \in Scope(n) \cup Scope(m) : x < Done,
         Canonical(LifetimeAt(n)) # Canonical(LifetimeAt(m))
  PROVE  Checkpoint(Canonical(LifetimeAt(m))) # NONE
<1>1. PICK c : c = Canonical(LifetimeAt(n))
  OBVIOUS
<1>2. PICK d : d = Canonical(LifetimeAt(m))
  OBVIOUS
<1>3. CanonicalIs(n, c) /\ CanonicalIs(m, d) /\ c # d
  BY <1>1, <1>2, CanonScope
<1>4. ASSUME NEW x \in DOMAIN code, IsVla(x), x < Done
      PROVE  Checkpoint(x) # NONE /\ Checkpoint(0) # NONE
  <2>1. Declares(x)
    BY <1>4 DEF IsVla, Declares
  <2> QED BY <1>4, <2>1, Zenon DEF Recorded
<1>5. CASE d # 0
  <2>1. d \in DOMAIN code /\ IsVla(d) /\ d \in Scope(m)
    BY <1>3, <1>5, CanonicalArrays
  <2> QED BY <1>2, <1>4, <2>1
<1>6. CASE d = 0
  <2>1. c \in DOMAIN code /\ IsVla(c) /\ c \in Scope(n)
    BY <1>3, <1>6, CanonicalArrays
  <2> QED BY <1>2, <1>4, <1>6, <2>1
<1> QED BY <1>5, <1>6

LEMMA PrefixRange ==
  ASSUME NEW s \in Seq(Nat), NEW t \in Seq(Nat), IsPrefix(s, t)
  PROVE  Range(s) \subseteq Range(t)
<1>1. /\ Len(s) \in Nat /\ Len(t) \in Nat /\ Len(s) <= Len(t)
      /\ SubSeq(s, 1, Len(s)) = SubSeq(t, 1, Len(s))
      /\ DOMAIN s = 1 .. Len(s) /\ DOMAIN t = 1 .. Len(t)
  BY DEF IsPrefix
<1>2. ASSUME NEW k \in 1 .. Len(s)
      PROVE  s[k] = t[k] /\ k \in 1 .. Len(t)
  <2>1. SubSeq(s, 1, Len(s))[k] = s[k] /\ SubSeq(t, 1, Len(s))[k] = t[k]
    BY <1>1
  <2> QED BY <1>1, <2>1
<1> QED BY <1>1, <1>2 DEF Range

(* What is in scope before an item was declared before it.                 *)
LEMMA ScopeBelow ==
  ASSUME TypeOK, Resolved, NEW n \in DOMAIN vm_scope
  PROVE  /\ \A x \in Scope(n) : x \in DOMAIN code /\ x \in Nat /\ x < n
         /\ LifetimeAt(n) = 0 \/ LifetimeAt(n) \in Scope(n)
<1>1. \A x \in Scope(n) : x \in DOMAIN code /\ x < n
  BY ScopeClosed
<1>2. DOMAIN code \subseteq Nat
  BY DEF TypeOK
<1>3. LifetimeAt(n) = 0 \/ LifetimeAt(n) \in Scope(n)
  BY ChainStep
<1> QED BY <1>1, <1>2, <1>3

LEMMA GotoScope ==
  ASSUME TypeOK, Resolved, phase \in {"lower", "run"},
         NEW n \in DOMAIN code, code[n].op = "goto"
  PROVE  /\ code[n].to \in DOMAIN vm_scope /\ n \in DOMAIN vm_scope
         /\ Scope(code[n].to) \subseteq Scope(n)
<1>0. PICK m : m = Len(code)
  OBVIOUS
<1>1. m \in Nat /\ DOMAIN code = 1 .. m /\ DOMAIN vm_scope = 1 .. m + 1 /\ Len(vm_scope) = m + 1
  BY <1>0, CodeFacts DEF TypeOK
<1>2. PICK to : to = code[n].to
  OBVIOUS
<1>3. to \in Position
  BY <1>2, Zenon DEF Resolved, Fits
<1>4. to <= Len(vm_scope) /\ IsPrefix(vm_scope[to], vm_scope[n])
  BY <1>2, Zenon DEF Resolved, GotosAreValid
<1>5. to \in DOMAIN vm_scope /\ n \in DOMAIN vm_scope
  BY <1>1, <1>3, <1>4 DEF Position
<1>6. vm_scope[to] \in Seq(Nat) /\ vm_scope[n] \in Seq(Nat)
  BY <1>5 DEF Resolved
<1>7. Range(vm_scope[to]) \subseteq Range(vm_scope[n])
  BY <1>4, <1>6, PrefixRange
<1> QED BY <1>2, <1>5, <1>7 DEF Scope

LEMMA EndScope ==
  ASSUME TypeOK, Resolved, NEW n \in DOMAIN code, code[n].op = "end"
  PROVE  /\ code[n].to \in Around(n) /\ \A o \in Around(n) : o <= code[n].to
         /\ code[n].to \in DOMAIN code /\ code[n].to < n /\ code[code[n].to].op \in Openers
         /\ code[n].to + 1 \in DOMAIN vm_scope /\ code[n].to \in DOMAIN vm_scope
         /\ n \in DOMAIN vm_scope /\ n + 1 \in DOMAIN vm_scope
         /\ vm_scope[n + 1] = vm_scope[code[n].to]
         /\ LifetimeAt(n + 1) = LifetimeAt(code[n].to) /\ Scope(n + 1) = Scope(code[n].to)
         /\ Scope(code[n].to + 1) \subseteq Scope(n)
<1>0. PICK m : m = Len(code)
  OBVIOUS
<1>1. m \in Nat /\ DOMAIN code = 1 .. m /\ DOMAIN vm_scope = 1 .. m + 1
  BY <1>0, CodeFacts
<1>2. PICK o : o = code[n].to
  OBVIOUS
<1>3. o \in Around(n) /\ (\A p \in Around(n) : p <= o) /\ vm_scope[n + 1] = vm_scope[o]
  BY <1>2, Zenon DEF Resolved, Fits
<1>4. o \in DOMAIN code /\ o < n /\ code[o].op \in Openers
  BY <1>3, Zenon DEF Around
<1>5. o \in DOMAIN vm_scope /\ o + 1 \in DOMAIN vm_scope /\ n \in DOMAIN vm_scope
      /\ n + 1 \in DOMAIN vm_scope
  BY <1>1, <1>4
<1>6. Scope(o + 1) \subseteq Scope(n)
  BY <1>3, <1>5, Zenon DEF Resolved, Nests
<1>7. LifetimeAt(n + 1) = LifetimeAt(o) /\ Scope(n + 1) = Scope(o)
  BY <1>3 DEF LifetimeAt, Scope
<1> QED BY <1>2, <1>3, <1>4, <1>5, <1>6, <1>7

(* Where the lowering is.                                                  *)
LEMMA LoweringAt ==
  ASSUME TypeOK, Resolved, Agrees, phase = "lower"
  PROVE  /\ Done = at /\ at \in Nat /\ at \in DOMAIN vm_scope /\ current = LifetimeAt(at)
         /\ current < at /\ \A x \in Scope(at) : x < at
<1>1. Done = at /\ at \in DOMAIN vm_scope /\ current = LifetimeAt(at)
  BY DEF Done, Agrees
<1>2. at \in Nat /\ at > 0
  <2>1. PICK m : m = Len(code)
    OBVIOUS
  <2>2. DOMAIN vm_scope = 1 .. m + 1 /\ m \in Nat
    BY <2>1, CodeFacts
  <2> QED BY <1>1, <2>2
<1> QED BY <1>1, <1>2, ScopeBelow

(* At an end, the last entry is that of the block it closes.               *)
LEMMA EntryAtEnd ==
  ASSUME TypeOK, Resolved, Agrees, phase = "lower", at \in DOMAIN code, code[at].op = "end"
  PROVE  /\ entry # <<>> /\ Last(entry) = LifetimeAt(code[at].to)
         /\ \E b \in Seq(DOMAIN code) :
              /\ Ascending(b, Around(at + 1)) /\ Len(Front(entry)) = Len(b)
              /\ \A k \in DOMAIN b : Front(entry)[k] = LifetimeAt(b[k])
<1>1. PICK b \in Seq(DOMAIN code) :
        /\ Ascending(b, Around(at)) /\ Len(entry) = Len(b)
        /\ \A k \in DOMAIN b : entry[k] = LifetimeAt(b[k])
  BY DEF Agrees
<1>2. PICK o : o = code[at].to
  OBVIOUS
<1>3. o \in Around(at) /\ \A p \in Around(at) : p <= o
  BY <1>2, EndScope
<1>4. entry \in Seq(Lifetime) /\ DOMAIN code \subseteq Nat
  BY DEF TypeOK
<1>5. b \in Seq(Nat)
  BY <1>4, SeqMono
<1>6. b # <<>>
  BY <1>1, <1>3 DEF Ascending, Range
<1>7. /\ Last(b) \in Around(at) /\ (\A x \in Around(at) : x <= Last(b))
      /\ Ascending(Front(b), Around(at) \ {Last(b)})
  BY <1>1, <1>5, <1>6, AscendingPop
<1>8. Last(b) = o
  <2>1. Last(b) <= o /\ o <= Last(b)
    BY <1>3, <1>7
  <2>2. Last(b) \in Nat /\ o \in Nat
    <3>1. Around(at) \subseteq DOMAIN code
      BY DEF Around
    <3> QED BY <1>3, <1>4, <1>7, <3>1
  <2> QED BY <2>1, <2>2
<1>9. entry # <<>>
  BY <1>1, <1>4, <1>6
<1>10. /\ Last(b) = b[Len(b)] /\ Last(entry) = entry[Len(b)] /\ Len(b) \in DOMAIN b
       /\ Len(Front(entry)) = Len(Front(b)) /\ DOMAIN Front(b) \subseteq DOMAIN b
       /\ \A k \in DOMAIN Front(b) : Front(entry)[k] = entry[k] /\ Front(b)[k] = b[k]
       /\ Front(b) \in Seq(DOMAIN code)
  <2>1. /\ Last(b) = b[Len(b)] /\ Len(b) \in Nat \ {0} /\ DOMAIN b = 1 .. Len(b)
        /\ DOMAIN Front(b) = 1 .. Len(b) - 1 /\ Len(Front(b)) = Len(b) - 1
        /\ (\A k \in 1 .. Len(b) - 1 : Front(b)[k] = b[k]) /\ Front(b) \in Seq(DOMAIN code)
    BY <1>6, FrontFacts
  <2>2. /\ Last(entry) = entry[Len(entry)] /\ Len(Front(entry)) = Len(entry) - 1
        /\ \A k \in 1 .. Len(entry) - 1 : Front(entry)[k] = entry[k]
    BY <1>4, <1>9, FrontFacts
  <2> QED BY <1>1, <2>1, <2>2
<1>11. Around(at + 1) = Around(at) \ {o}
  BY <1>2, AroundNext
<1>12. \A k \in DOMAIN Front(b) : Front(entry)[k] = LifetimeAt(Front(b)[k])
  BY <1>1, <1>10
<1> QED BY <1>1, <1>2, <1>7, <1>8, <1>9, <1>10, <1>11, <1>12, Zenon

(* The lifetime an end goes back to is the one behind the item that opened *)
(* the block.                                                              *)
LEMMA EntryOfIs ==
  ASSUME TypeOK, Resolved, Agrees, phase = "lower", at \in DOMAIN code, code[at].op = "end"
  PROVE  EntryOf(code[at].to) = LifetimeAt(code[at].to + 1)
<1>1. PICK o : o = code[at].to
  OBVIOUS
<1>2. o \in DOMAIN code /\ code[o].op \in Openers /\ Last(entry) = LifetimeAt(o)
  BY <1>1, EndScope, EntryAtEnd
<1>3. code[o].op # "end"
  BY <1>2 DEF Openers
<1>4. LifetimeAt(o + 1) = IF Declares(o) THEN o ELSE LifetimeAt(o)
  BY <1>2, <1>3, ScopeNext
<1> QED BY <1>1, <1>2, <1>4 DEF EntryOf

(* A jump or an end finds the checkpoint it restores.                      *)
LEMMA LandsRestorable ==
  ASSUME TypeOK, Resolved, Agrees, phase = "lower", NEW m \in DOMAIN vm_scope,
         Scope(m) \subseteq Scope(at)
  PROVE  /\ LifetimeAt(m) < Done /\ \A x \in Scope(m) : x < Done
         /\ ~RestoreFails(LifetimeAt(m))
<1>1. /\ Done = at /\ at \in Nat /\ at \in DOMAIN vm_scope /\ current = LifetimeAt(at)
      /\ current < at /\ (\A x \in Scope(at) : x < at)
  BY LoweringAt
<1>2. LifetimeAt(m) < Done
  <2>1. LifetimeAt(m) = 0 \/ LifetimeAt(m) \in Scope(m)
    BY ScopeBelow
  <2>2. at > 0
    <3>1. PICK k : k = Len(code)
      OBVIOUS
    <3>2. DOMAIN vm_scope = 1 .. k + 1 /\ k \in Nat
      BY <3>1, CodeFacts
    <3> QED BY <1>1, <3>2
  <2> QED BY <1>1, <2>1, <2>2
<1>3. \A x \in Scope(at) \cup Scope(m) : x < Done
  BY <1>1
<1>4. Recorded
  BY DEF Agrees
<1>5. Canonical(LifetimeAt(at)) # Canonical(LifetimeAt(m)) =>
        Checkpoint(Canonical(LifetimeAt(m))) # NONE
  BY <1>1, <1>2, <1>3, <1>4, Restorable
<1> QED BY <1>1, <1>2, <1>3, <1>5 DEF RestoreFails, Canonical, Checkpoint

LEMMA NoFailure ==
  ASSUME TypeOK, Resolved, Agrees, phase = "lower"
  PROVE  ~LoweringFails
<1>1. ASSUME Lower("end")
      PROVE  ~RestoreFails(EntryOf(code[at].to))
  <2>1. at \in DOMAIN code /\ code[at].op = "end"
    BY <1>1 DEF Lower
  <2>2. PICK o : o = code[at].to
    OBVIOUS
  <2>3. o + 1 \in DOMAIN vm_scope /\ Scope(o + 1) \subseteq Scope(at)
    BY <2>1, <2>2, EndScope
  <2>4. EntryOf(o) = LifetimeAt(o + 1)
    BY <2>1, <2>2, EntryOfIs
  <2>5. ~RestoreFails(LifetimeAt(o + 1))
    BY <2>3, LandsRestorable
  <2> QED BY <2>2, <2>4, <2>5
<1>2. ASSUME Lower("goto")
      PROVE  ~RestoreFails(LifetimeAt(code[at].to))
  <2>1. at \in DOMAIN code /\ code[at].op = "goto"
    BY <1>2 DEF Lower
  <2> QED BY <2>1, GotoScope, LandsRestorable
<1>3. LifetimeAt(at) = current
  BY LoweringAt
<1> QED BY <1>1, <1>2, <1>3 DEF LoweringFails

-----------------------------------------------------------------------------
(* The steps of the lowering.                                              *)

(* What depends on the text only.                                          *)
LEMMA StaticKept ==
  ASSUME code' = code, vm_scope' = vm_scope
  PROVE  \A n : /\ IsVla(n)' = IsVla(n) /\ Declares(n)' = Declares(n)
                /\ LifetimeAt(n)' = LifetimeAt(n) /\ Scope(n)' = Scope(n)
                /\ Around(n)' = Around(n) /\ EndOf(n)' = EndOf(n)
                /\ ContainsVla(n)' = ContainsVla(n)
<1> SUFFICES ASSUME NEW n
             PROVE  /\ IsVla(n)' = IsVla(n) /\ Declares(n)' = Declares(n)
                    /\ LifetimeAt(n)' = LifetimeAt(n) /\ Scope(n)' = Scope(n)
                    /\ Around(n)' = Around(n) /\ EndOf(n)' = EndOf(n)
                    /\ ContainsVla(n)' = ContainsVla(n)
  OBVIOUS
<1>1. IsVla(n)' = IsVla(n) /\ Declares(n)' = Declares(n)
  BY Zenon DEF IsVla, Declares
<1>2. LifetimeAt(n)' = LifetimeAt(n) /\ Scope(n)' = Scope(n)
  BY Zenon DEF LifetimeAt, Scope
<1>3. Around(n)' = Around(n) /\ EndOf(n)' = EndOf(n)
  BY Zenon DEF Around, EndOf
<1>4. ContainsVla(n)' = ContainsVla(n)
  BY Zenon DEF ContainsVla, EndOf, IsVla
<1> QED BY <1>1, <1>2, <1>3, <1>4

(* Lifetimes recorded before the item being lowered stay as they are.      *)
Kept ==
  /\ \A l \in Lifetime : l # at => Canonical(l)' = Canonical(l)
  /\ \A l \in Lifetime : Checkpoint(l) # NONE => Checkpoint(l)' = Checkpoint(l)

LEMMA LifetimeRange ==
  ASSUME TypeOK
  PROVE  /\ \A l \in Lifetime : Canonical(l) \in Lifetime /\ Checkpoint(l) \in Vreg \cup {NONE}
         /\ DOMAIN code \subseteq Lifetime /\ 0 \in Lifetime
<1>1. \A l \in Lifetime : lifetimes[l] \in [canonical : Lifetime, checkpoint : Vreg \cup {NONE}]
  BY DEF TypeOK
<1>2. DOMAIN code \subseteq Lifetime /\ 0 \in Lifetime
  <2>1. PICK m : m = Len(code)
    OBVIOUS
  <2>2. m \in Nat /\ m <= Length /\ Length \in Nat /\ DOMAIN code = 1 .. m
    BY <2>1, CodeFacts
  <2> QED BY <2>2 DEF Lifetime
<1> QED BY <1>1, <1>2 DEF Canonical, Checkpoint

LEMMA DeclaringKept ==
  ASSUME TypeOK, Resolved, Recorded, Kept, code' = code, vm_scope' = vm_scope, Done = at,
         NEW n \in DOMAIN code, n < at, NEW e, Declaring(n, e)
  PROVE  Declaring(n, e)'
<1>1. IsVla(n)' = IsVla(n) /\ LifetimeAt(n)' = LifetimeAt(n)
  BY StaticKept
<1>2. CASE ~IsVla(n)
  BY <1>1, <1>2, Zenon DEF Declaring
<1>3. CASE IsVla(n)
  <2>1. Declares(n)
    BY <1>3 DEF IsVla, Declares
  <2>2. Checkpoint(n) # NONE /\ Checkpoint(0) # NONE
    BY <1>3, <2>1, Zenon DEF Recorded
  <2>3. Checkpoint(n)' = Checkpoint(n) /\ Checkpoint(0)' = Checkpoint(0)
    BY <2>2, LifetimeRange, Zenon DEF Kept
  <2>4. PICK l : l = LifetimeAt(n)
    OBVIOUS
  <2>5. l \in Lifetime /\ l # at
    <3>1. PICK m : m = Len(code)
      OBVIOUS
    <3>2. /\ n \in DOMAIN vm_scope /\ n \in 1 .. m /\ m \in Nat /\ m <= Length
          /\ DOMAIN code = 1 .. m /\ Length \in Nat
      BY <3>1, CodeFacts
    <3>3. l = 0 \/ l \in 1 .. m
      BY <2>4, <3>2, ScopeBelow
    <3>4. l = 0 \/ l < n
      BY <2>4, <3>2, ScopeBelow
    <3>5. l # at
      BY <3>2, <3>3, <3>4 DEF TypeOK
    <3> QED BY <3>2, <3>3, <3>5 DEF Lifetime
  <2>6. Canonical(l)' = Canonical(l)
    BY <2>5 DEF Kept
  <2>7. \/ e = Alloc \o Save(Checkpoint(n))
        \/ Canonical(l) = 0 /\ e = Save(Checkpoint(0)) \o Alloc \o Save(Checkpoint(n))
    BY <1>3, <2>4, Zenon DEF Declaring
  <2>8. \/ e = Alloc \o Save(Checkpoint(n)')
        \/ Canonical(l)' = 0 /\ e = Save(Checkpoint(0)') \o Alloc \o Save(Checkpoint(n)')
    BY <2>3, <2>6, <2>7, Zenon
  <2>9. LifetimeAt(n)' = l
    BY <1>1, <2>4
  <2>10. Canonical(LifetimeAt(n))' = Canonical(l)'
    BY <2>9, Zenon DEF Canonical
  <2>11. Save(Checkpoint(n))' = Save(Checkpoint(n)') /\ Save(Checkpoint(0))' = Save(Checkpoint(0)')
         /\ Alloc' = Alloc
    BY Zenon DEF Save, Alloc
  <2> QED BY <1>1, <1>3, <2>8, <2>10, <2>11, Zenon DEF Declaring
<1> QED BY <1>2, <1>3

LEMMA ReleasingKept ==
  ASSUME TypeOK, Resolved, Kept, code' = code, vm_scope' = vm_scope, Done = at,
         NEW n \in DOMAIN code, n < at, NEW k \in DOMAIN vm_scope,
         Scope(k) \subseteq Scope(n), NEW e, Releasing(n, k, e)
  PROVE  Releasing(n, k, e)'
<1>1. PICK l : l = LifetimeAt(n)
  OBVIOUS
<1>2. PICK m : m = LifetimeAt(k)
  OBVIOUS
<1>3. l \in Lifetime /\ l # at /\ m \in Lifetime /\ m # at
  <2>1. PICK p : p = Len(code)
    OBVIOUS
  <2>2. /\ n \in DOMAIN vm_scope /\ n \in 1 .. p /\ p \in Nat /\ p <= Length
        /\ DOMAIN code = 1 .. p /\ Length \in Nat /\ at \in Int
    <3>1. at \in Int
      BY LengthAssumption DEF TypeOK
    <3> QED BY <2>1, <3>1, CodeFacts
  <2>3. \A x \in Scope(n) : x \in 1 .. p /\ x < n
    BY <2>2, ScopeBelow
  <2>4. l = 0 \/ l \in Scope(n)
    BY <1>1, <2>2, ScopeBelow
  <2>5. m = 0 \/ m \in Scope(k)
    BY <1>2, ScopeBelow
  <2>6. (l = 0 \/ (l \in 1 .. p /\ l < n)) /\ (m = 0 \/ (m \in 1 .. p /\ m < n))
    BY <2>3, <2>4, <2>5
  <2> QED BY <2>2, <2>6 DEF Lifetime
<1>4. Canonical(l)' = Canonical(l) /\ Canonical(m)' = Canonical(m)
  BY <1>3 DEF Kept
<1>5. PICK c : c = Canonical(m)
  OBVIOUS
<1>6. c \in Lifetime
  BY <1>3, <1>5, LifetimeRange
<1>7. IF Canonical(l) = c THEN e = <<>> ELSE Checkpoint(c) # NONE /\ e = Restore(Checkpoint(c))
  BY <1>1, <1>2, <1>5, Zenon DEF Releasing
<1>8. Checkpoint(c) # NONE => Checkpoint(c)' = Checkpoint(c)
  BY <1>6 DEF Kept
<1>9. IF Canonical(l)' = c THEN e = <<>>
      ELSE Checkpoint(c)' # NONE /\ e = Restore(Checkpoint(c)')
  BY <1>4, <1>7, <1>8
<1>10. LifetimeAt(n)' = l /\ LifetimeAt(k)' = m
  BY <1>1, <1>2, StaticKept
<1>11. Canonical(LifetimeAt(n))' = Canonical(l)' /\ Canonical(LifetimeAt(k))' = c
  <2>1. Canonical(LifetimeAt(n))' = Canonical(l)' /\ Canonical(LifetimeAt(k))' = Canonical(m)'
    BY <1>10, Zenon DEF Canonical
  <2> QED BY <2>1, <1>4, <1>5
<1>12. Checkpoint(Canonical(LifetimeAt(k)))' = Checkpoint(c)'
  BY <1>11, Zenon DEF Checkpoint
<1>13. Restore(Checkpoint(Canonical(LifetimeAt(k))))' = Restore(Checkpoint(c)')
  BY <1>12, Zenon DEF Restore
<1> QED BY <1>9, <1>11, <1>12, <1>13, Zenon DEF Releasing

(* What was emitted for an item before stays what it is to be.             *)
LEMMA LoweredKept ==
  ASSUME TypeOK, Resolved, Recorded, Kept, phase \in {"lower", "run"},
         code' = code, vm_scope' = vm_scope, Done = at,
         NEW n \in DOMAIN code, n < at, DOMAIN emitted = 1 .. at - 1,
         \A k \in 1 .. at - 1 : emitted'[k] = emitted[k], Lowered(n)
  PROVE  Lowered(n)'
<1>1. PICK p : p = Len(code)
  OBVIOUS
<1>2. /\ p \in Nat /\ DOMAIN code = 1 .. p /\ DOMAIN vm_scope = 1 .. p + 1 /\ at \in Nat
      /\ n \in 1 .. at - 1
  BY <1>1, CodeFacts DEF TypeOK
<1>3. emitted'[n] = emitted[n] /\ code'[n] = code[n]
  BY <1>2
<1>4. \A o \in 1 .. at - 1 : Whole(o)' = Whole(o) /\ Body(o)' = Body(o)
  BY DEF Whole, Body
<1>5. PICK e : e = emitted[n]
  OBVIOUS
<1>6. PICK i : i = code[n]
  OBVIOUS
<1>7. /\ i.op \notin {"loop"} => e.body = <<>>
      /\ i.op \notin {"loop", "switch"} => e.exit = <<>>
      /\ i.op \in {"scope", "case"} => e.enter = <<>>
  BY <1>5, <1>6, Zenon DEF Lowered
<1>8. (i.op \in {"decl"} => Declaring(n, e.enter))'
  <2>1. i.op \in {"decl"} => Declaring(n, e.enter)
    BY <1>5, <1>6, Zenon DEF Lowered
  <2>2. PICK x : x = e.enter
    OBVIOUS
  <2>3. Declaring(n, x) => Declaring(n, x)'
    BY DeclaringKept, Zenon
  <2> QED BY <2>1, <2>2, <2>3, Zenon
<1>9. i.op = "loop" =>
       /\ \E d : Declaring(n, d)' /\ e.enter = SaveIn(Whole(n)') \o d
       /\ e.exit = Restore(Whole(n)') /\ (Whole(n)' # NONE <=> IsVla(n))
       /\ e.body = SaveIn(Body(n)') /\ (Body(n)' # NONE <=> ContainsVla(n))
  <2>1. i.op = "loop" =>
         /\ \E d : Declaring(n, d) /\ e.enter = SaveIn(Whole(n)) \o d
         /\ e.exit = Restore(Whole(n)) /\ (Whole(n) # NONE <=> IsVla(n))
         /\ e.body = SaveIn(Body(n)) /\ (Body(n) # NONE <=> ContainsVla(n))
    BY <1>5, <1>6, Zenon DEF Lowered
  <2>2. \A d : Declaring(n, d) => Declaring(n, d)'
    <3> SUFFICES ASSUME NEW d, Declaring(n, d) PROVE Declaring(n, d)'
      OBVIOUS
    <3> QED BY DeclaringKept, Zenon
  <2>3. Whole(n)' = Whole(n) /\ Body(n)' = Body(n)
    BY <1>2, <1>4
  <2> QED BY <2>1, <2>2, <2>3, Zenon
<1>10. i.op = "switch" =>
         /\ e.enter = SaveIn(Whole(n)') /\ e.exit = Restore(Whole(n)')
         /\ (Whole(n)' # NONE <=> ContainsVla(n))
  <2>1. i.op = "switch" =>
         /\ e.enter = SaveIn(Whole(n)) /\ e.exit = Restore(Whole(n))
         /\ (Whole(n) # NONE <=> ContainsVla(n))
    BY <1>5, <1>6, Zenon DEF Lowered
  <2>2. Whole(n)' = Whole(n)
    BY <1>2, <1>4
  <2> QED BY <2>1, <2>2, Zenon
<1>11. i.op \in {"end", "break", "continue"} => i.to \in 1 .. at - 1 /\ i.to \in 1 .. p
  <2>1. i.op \in {"end", "break", "continue"} => i.to \in Around(n)
    <3>1. Fits(n)
      BY DEF Resolved
    <3> QED BY <1>6, <3>1, Zenon DEF Fits
  <2>2. \A o \in Around(n) : o \in 1 .. p /\ o < n
    BY <1>2 DEF Around
  <2> QED BY <1>2, <2>1, <2>2
<1>12. i.op = "end" =>
         \E r : /\ Releasing(n, i.to + 1, r)'
                /\ e.enter = IF code'[i.to].op = "loop" THEN r \o Restore(Body(i.to)') ELSE r
  <2> SUFFICES ASSUME i.op = "end"
               PROVE  \E r : /\ Releasing(n, i.to + 1, r)'
                             /\ e.enter = IF code'[i.to].op = "loop"
                                            THEN r \o Restore(Body(i.to)') ELSE r
    OBVIOUS
  <2>1. PICK r : /\ Releasing(n, i.to + 1, r)
                 /\ e.enter = IF code[i.to].op = "loop" THEN r \o Restore(Body(i.to)) ELSE r
    BY <1>5, <1>6, Zenon DEF Lowered
  <2>2. PICK k : k = i.to + 1
    OBVIOUS
  <2>3. k \in DOMAIN vm_scope /\ Scope(k) \subseteq Scope(n)
    BY <1>6, <2>2, EndScope
  <2>4. Releasing(n, k, r)'
    BY <2>1, <2>2, <2>3, ReleasingKept, Zenon
  <2>5. Body(i.to)' = Body(i.to)
    BY <1>4, <1>11
  <2> QED BY <2>1, <2>2, <2>4, <2>5, Zenon
<1>13. i.op \in {"break", "continue"} => e.enter = Restore(Body(i.to)')
  <2>1. i.op \in {"break", "continue"} => e.enter = Restore(Body(i.to))
    BY <1>5, <1>6, Zenon DEF Lowered
  <2>2. i.op \in {"break", "continue"} => Body(i.to)' = Body(i.to)
    BY <1>4, <1>11
  <2> QED BY <2>1, <2>2
<1>14. i.op = "goto" => Releasing(n, i.to, e.enter)'
  <2> SUFFICES ASSUME i.op = "goto" PROVE Releasing(n, i.to, e.enter)'
    OBVIOUS
  <2>1. PICK k : k = i.to
    OBVIOUS
  <2>2. PICK x : x = e.enter
    OBVIOUS
  <2>3. Releasing(n, k, x)
    BY <1>5, <1>6, <2>1, <2>2, Zenon DEF Lowered
  <2>4. k \in DOMAIN vm_scope /\ Scope(k) \subseteq Scope(n)
    BY <1>6, <2>1, GotoScope
  <2>5. Releasing(n, k, x)'
    BY <2>3, <2>4, ReleasingKept, Zenon
  <2> QED BY <2>1, <2>2, <2>5, Zenon
<1>15. IsVla(n)' = IsVla(n) /\ ContainsVla(n)' = ContainsVla(n)
  BY StaticKept
<1>16. emitted'[n] = e /\ code'[n] = i
  BY <1>3, <1>5, <1>6
<1> QED BY <1>7, <1>8, <1>9, <1>10, <1>12, <1>13, <1>14, <1>15, <1>16, Zenon
        DEF Lowered, SaveIn, Restore, Save

(* What the lowering of the declaration at the item being lowered does,    *)
(* with the registers from v up.                                           *)
Grown(d, v) ==
  /\ d.taken \in 0 .. 2 /\ (~IsVla(at) => d.taken = 0 /\ d.emit = <<>>)
  /\ d.lifetimes \in [Lifetime -> [canonical : Lifetime, checkpoint : Int]]
  /\ \A l \in Lifetime : l # at => d.lifetimes[l].canonical = Canonical(l)
  /\ \A l \in Lifetime : Checkpoint(l) # NONE => d.lifetimes[l].checkpoint = Checkpoint(l)
  /\ \A l \in Lifetime : \/ d.lifetimes[l].checkpoint = Checkpoint(l)
                         \/ l \in {0, at} /\ d.lifetimes[l].checkpoint \in v .. v + d.taken - 1
  /\ d.lifetimes[0].checkpoint = d.lifetimes[at].checkpoint => d.lifetimes[at].checkpoint = NONE
  /\ Declares(at) => d.lifetimes[at].canonical = IF IsVla(at) THEN at ELSE Canonical(LifetimeAt(at))
  /\ IsVla(at) =>
       /\ d.lifetimes[at].checkpoint # NONE /\ d.lifetimes[0].checkpoint # NONE
       /\ \/ d.emit = Alloc \o Save(d.lifetimes[at].checkpoint)
          \/ /\ Canonical(LifetimeAt(at)) = 0
             /\ d.emit = Save(d.lifetimes[0].checkpoint) \o Alloc \o Save(d.lifetimes[at].checkpoint)

LEMMA DeclarationIs ==
  ASSUME TypeOK, Resolved, Agrees, phase = "lower", at \in DOMAIN code,
         NEW v \in Nat, v > vregs
  PROVE  Grown(Declaration(at, v), v)
<1>1. /\ Done = at /\ at \in Nat /\ at \in DOMAIN vm_scope /\ current = LifetimeAt(at)
      /\ current < at /\ (\A x \in Scope(at) : x < at) /\ Recorded
  BY LoweringAt DEF Agrees
<1>2. /\ \A l \in Lifetime : Canonical(l) \in Lifetime /\ Checkpoint(l) \in Vreg \cup {NONE}
      /\ at \in Lifetime /\ 0 \in Lifetime /\ current \in Lifetime /\ Lifetime \subseteq Nat
  <2>1. current \in Lifetime
    BY DEF TypeOK
  <2>2. Lifetime \subseteq Nat
    BY LengthAssumption DEF Lifetime
  <2> QED BY <2>1, <2>2, LifetimeRange
<1>3. Checkpoint(at) = NONE
  <2>1. at >= Done
    BY <1>1
  <2> QED BY <1>1, <2>1, Zenon DEF Recorded
<1>4. PICK own : own = Owner
  OBVIOUS
<1>5. own = Canonical(LifetimeAt(at)) /\ own \in Lifetime
  BY <1>1, <1>2, <1>4 DEF Owner, Canonical
<1>6. own # 0 => Checkpoint(own) # NONE /\ Checkpoint(0) # NONE /\ own < at
  <2>1. CanonicalIs(at, own)
    BY <1>1, <1>5, CanonScope
  <2> SUFFICES ASSUME own # 0
               PROVE  Checkpoint(own) # NONE /\ Checkpoint(0) # NONE /\ own < at
    OBVIOUS
  <2>2. own \in DOMAIN code /\ own < at /\ IsVla(own)
    BY <1>1, <2>1, CanonicalArrays
  <2>3. Declares(own)
    BY <2>2 DEF IsVla, Declares
  <2> QED BY <1>1, <2>2, <2>3, Zenon DEF Recorded
<1>7. own # at /\ at # 0
  <2>1. PICK m : m = Len(code)
    OBVIOUS
  <2>2. at \in 1 .. m
    BY <2>1, CodeFacts
  <2> QED BY <1>1, <1>2, <1>5, <1>6, <2>2
<1>8. IsPrepared <=> Checkpoint(own) # NONE
  BY <1>4 DEF IsPrepared, Checkpoint
<1>9. code[at].decl \in {"none", "vla", "vm"}
  <2>1. PICK m : m = Len(code)
    OBVIOUS
  <2>2. code[at] \in Item
    BY <2>1, CodeFacts
  <2> QED BY <2>2 DEF Item
<1>10. /\ lifetimes \in [Lifetime -> [canonical : Lifetime, checkpoint : Int]]
       /\ \A l \in Lifetime : /\ Checkpoint(l) \in Int /\ Checkpoint(l) = lifetimes[l].checkpoint
                             /\ Canonical(l) = lifetimes[l].canonical
  <2>1. Vreg \cup {NONE} \subseteq Int
    BY BoundAssumption DEF Vreg, NONE
  <2>2. lifetimes \in [Lifetime -> [canonical : Lifetime, checkpoint : Vreg \cup {NONE}]]
    BY DEF TypeOK
  <2>3. \A r \in [canonical : Lifetime, checkpoint : Vreg \cup {NONE}] :
          r \in [canonical : Lifetime, checkpoint : Int]
    BY <2>1
  <2> QED BY <2>2, <2>3 DEF Canonical, Checkpoint
<1>11. \A l \in Lifetime : Checkpoint(l) # NONE => Checkpoint(l) < v
  <2>1. Distinct /\ vregs \in Nat
    BY BoundAssumption DEF Agrees, TypeOK
  <2> QED BY <2>1 DEF Distinct
<1>12. NONE = -1 /\ v \in Int /\ v + 1 \in Int /\ v # NONE /\ v + 1 # NONE
  BY DEF NONE
<1>13. CASE code[at].decl = "none"
  <2>1. Declaration(at, v) = [emit |-> <<>>, taken |-> 0, lifetimes |-> lifetimes]
    BY <1>13 DEF Declaration
  <2>2. ~IsVla(at) /\ ~Declares(at)
    BY <1>13 DEF IsVla, Declares
  <2>3. lifetimes[0].checkpoint = lifetimes[at].checkpoint => lifetimes[at].checkpoint = NONE
    BY <1>2, <1>3, <1>10
  <2> QED BY <1>10, <2>1, <2>2, <2>3 DEF Grown
<1>14. CASE code[at].decl = "vm"
  <2>1. PICK lf : lf = [lifetimes EXCEPT ![at].canonical = own]
    OBVIOUS
  <2>2. Declaration(at, v) = [emit |-> <<>>, taken |-> 0, lifetimes |-> lf]
    BY <1>4, <1>14, <2>1 DEF Declaration
  <2>3. ~IsVla(at) /\ Declares(at)
    BY <1>14 DEF IsVla, Declares
  <2>4. /\ lf \in [Lifetime -> [canonical : Lifetime, checkpoint : Int]]
        /\ \A l \in Lifetime : lf[l].checkpoint = lifetimes[l].checkpoint
        /\ \A l \in Lifetime : l # at => lf[l].canonical = lifetimes[l].canonical
        /\ lf[at].canonical = own
    BY <1>2, <1>5, <1>10, <2>1
  <2>5. lf[0].checkpoint = lf[at].checkpoint => lf[at].checkpoint = NONE
    BY <1>2, <1>3, <1>10, <2>4
  <2>6. PICK d : d = Declaration(at, v)
    OBVIOUS
  <2>7. d.emit = <<>> /\ d.taken = 0 /\ d.lifetimes = lf
    BY <2>2, <2>6
  <2>8. /\ \A l \in Lifetime : l # at => lf[l].canonical = Canonical(l)
        /\ \A l \in Lifetime : lf[l].checkpoint = Checkpoint(l)
        /\ lf[at].canonical = Canonical(LifetimeAt(at))
    BY <1>5, <1>10, <2>4
  <2>9. Grown(d, v)
    BY <2>3, <2>4, <2>5, <2>7, <2>8 DEF Grown
  <2> QED BY <2>6, <2>9
<1>15. CASE code[at].decl = "vla" /\ IsPrepared
  <2>1. PICK lf : lf = [lifetimes EXCEPT ![at] = [canonical |-> at, checkpoint |-> v]]
    OBVIOUS
  <2>2. Declaration(at, v) = [emit |-> <<>> \o Alloc \o Save(v), taken |-> 1, lifetimes |-> lf]
    <3>1. Len(<<>>) = 0 /\ v + 0 = v /\ 0 + 1 = 1
      OBVIOUS
    <3> QED BY <1>15, <2>1, <3>1 DEF Declaration
  <2>3. IsVla(at) /\ Declares(at)
    BY <1>15 DEF IsVla, Declares
  <2>4. <<>> \o Alloc \o Save(v) = Alloc \o Save(v)
    BY DEF Alloc, Save
  <2>5. /\ lf \in [Lifetime -> [canonical : Lifetime, checkpoint : Int]]
        /\ \A l \in Lifetime : l # at => lf[l] = lifetimes[l]
        /\ lf[at].canonical = at /\ lf[at].checkpoint = v
    BY <1>2, <1>10, <1>12, <2>1
  <2>6. Checkpoint(0) # NONE
    BY <1>6, <1>8, <1>15
  <2>7. lf[0].checkpoint = Checkpoint(0) /\ lf[0].checkpoint # v
    BY <1>2, <1>7, <1>10, <1>11, <2>5, <2>6
  <2>8. PICK d : d = Declaration(at, v)
    OBVIOUS
  <2>9. d.emit = Alloc \o Save(v) /\ d.taken = 1 /\ d.lifetimes = lf
    BY <2>2, <2>4, <2>8
  <2>10. v \in v .. v + 1 - 1
    OBVIOUS
  <2>11. \A l \in Lifetime : lf[l].checkpoint = Checkpoint(l) \/ (l = at /\ lf[l].checkpoint = v)
    BY <1>10, <2>5
  <2>12. Checkpoint(at) = NONE /\ \A l \in Lifetime : l # at => lf[l].canonical = Canonical(l)
    BY <1>3, <1>10, <2>5
  <2>13. \A l \in Lifetime : Checkpoint(l) # NONE => lf[l].checkpoint = Checkpoint(l)
    BY <2>11, <2>12
  <2>14. Grown(d, v)
    BY <1>12, <2>3, <2>5, <2>6, <2>7, <2>9, <2>10, <2>11, <2>12, <2>13 DEF Grown
  <2> QED BY <2>8, <2>14
<1>16. CASE code[at].decl = "vla" /\ ~IsPrepared
  <2>1. own = 0 /\ Checkpoint(0) = NONE
    BY <1>6, <1>8, <1>16
  <2>2. PICK lf : lf = [[lifetimes EXCEPT ![0].checkpoint = v]
                          EXCEPT ![at] = [canonical |-> at, checkpoint |-> v + 1]]
    OBVIOUS
  <2>3. Len(Save(v)) = 1 /\ 1 + 1 = 2
    BY DEF Save
  <2>4. Declaration(at, v) = [emit |-> Save(v) \o Alloc \o Save(v + 1), taken |-> 2, lifetimes |-> lf]
    BY <1>4, <1>16, <2>1, <2>2, <2>3 DEF Declaration
  <2>5. IsVla(at) /\ Declares(at)
    BY <1>16 DEF IsVla, Declares
  <2>6. /\ lf \in [Lifetime -> [canonical : Lifetime, checkpoint : Int]]
        /\ \A l \in Lifetime : l # at /\ l # 0 => lf[l] = lifetimes[l]
        /\ lf[at].canonical = at /\ lf[at].checkpoint = v + 1
        /\ lf[0].canonical = lifetimes[0].canonical /\ lf[0].checkpoint = v
    <3>1. PICK mid : mid = [lifetimes EXCEPT ![0].checkpoint = v]
      OBVIOUS
    <3>2. /\ mid \in [Lifetime -> [canonical : Lifetime, checkpoint : Int]]
          /\ \A l \in Lifetime : l # 0 => mid[l] = lifetimes[l]
          /\ mid[0].canonical = lifetimes[0].canonical /\ mid[0].checkpoint = v
      BY <1>2, <1>10, <1>12, <3>1
    <3>3. lf = [mid EXCEPT ![at] = [canonical |-> at, checkpoint |-> v + 1]]
      BY <2>2, <3>1
    <3> QED BY <1>2, <1>7, <1>12, <3>2, <3>3
  <2>8. PICK d : d = Declaration(at, v)
    OBVIOUS
  <2>9. d.emit = Save(v) \o Alloc \o Save(v + 1) /\ d.taken = 2 /\ d.lifetimes = lf
    BY <2>4, <2>8
  <2>10. v \in v .. v + 2 - 1 /\ v + 1 \in v .. v + 2 - 1 /\ v # v + 1
    OBVIOUS
  <2>11. \A l \in Lifetime : \/ lf[l].checkpoint = Checkpoint(l)
                             \/ l = at /\ lf[l].checkpoint = v + 1
                             \/ l = 0 /\ lf[l].checkpoint = v
    BY <1>10, <2>6
  <2>12. /\ Checkpoint(at) = NONE
         /\ \A l \in Lifetime : l # at => lf[l].canonical = Canonical(l)
    BY <1>2, <1>3, <1>10, <2>6
  <2>13. \A l \in Lifetime : Checkpoint(l) # NONE => lf[l].checkpoint = Checkpoint(l)
    BY <2>1, <2>11, <2>12
  <2>14. Canonical(LifetimeAt(at)) = 0
    BY <1>5, <2>1
  <2>15. \A l \in Lifetime : \/ lf[l].checkpoint = Checkpoint(l)
                             \/ l \in {0, at} /\ lf[l].checkpoint \in v .. v + 2 - 1
    BY <2>10, <2>11
  <2>16. lf[0].checkpoint # lf[at].checkpoint /\ lf[0].checkpoint # NONE /\ lf[at].checkpoint # NONE
    BY <1>12, <2>6, <2>10
  <2>17. d.emit = Save(lf[0].checkpoint) \o Alloc \o Save(lf[at].checkpoint)
    BY <2>6, <2>9
  <2>18. d.taken \in 0 .. 2
    BY <2>9
  <2>19. Grown(d, v)
    BY <2>5, <2>6, <2>9, <2>12, <2>13, <2>14, <2>15, <2>16, <2>17, <2>18 DEF Grown
  <2> QED BY <2>8, <2>19
<1> QED BY <1>9, <1>13, <1>14, <1>15, <1>16

(* The registers an item takes are within the bound.                       *)
Takes(n) == (IF Declares(n) THEN 2 ELSE 0) + (IF code[n].op \in Openers THEN 2 ELSE 0)

LEMMA CountedTo ==
  ASSUME TypeOK, Resolved, NEW n \in DOMAIN code
  PROVE  /\ DeclaredTo(n) \in Nat /\ OpenedTo(n) \in Nat
         /\ DeclaredTo(n + 1) = IF Declares(n) THEN DeclaredTo(n) + 1 ELSE DeclaredTo(n)
         /\ OpenedTo(n + 1) = IF code[n].op \in Openers THEN OpenedTo(n) + 1 ELSE OpenedTo(n)
<1>1. PICK m : m = Len(code)
  OBVIOUS
<1>2. m \in Nat /\ DOMAIN code = 1 .. m /\ n \in 1 .. m
  BY <1>1, CodeFacts
<1> DEFINE D(k) == {x \in DOMAIN code : x < k /\ Declares(x)}
           E(k) == {x \in DOMAIN code : x < k /\ code[x].op \in Openers}
<1>3. D(n) \subseteq 1 .. n - 1 /\ E(n) \subseteq 1 .. n - 1 /\ n - 1 \in Nat /\ n - 1 + 1 = n
  BY <1>2
<1>4. D(n + 1) = IF Declares(n) THEN D(n) \cup {n} ELSE D(n)
  <2>1. \A x \in DOMAIN code : x < n + 1 <=> x < n \/ x = n
    BY <1>2
  <2>2. \A x : x \in D(n + 1) <=> x \in D(n) \/ (x = n /\ Declares(n))
    BY <1>2, <2>1
  <2> HIDE DEF D
  <2> QED BY <2>2
<1>5. E(n + 1) = IF code[n].op \in Openers THEN E(n) \cup {n} ELSE E(n)
  <2>1. \A x \in DOMAIN code : x < n + 1 <=> x < n \/ x = n
    BY <1>2
  <2>2. \A x : x \in E(n + 1) <=> x \in E(n) \/ (x = n /\ code[n].op \in Openers)
    BY <1>2, <2>1
  <2> HIDE DEF E
  <2> QED BY <2>2
<1>6. \A k : DeclaredTo(k) = Cardinality(D(k)) /\ OpenedTo(k) = Cardinality(E(k))
  BY DEF DeclaredTo, OpenedTo
<1>7. /\ Cardinality(D(n)) \in Nat /\ Cardinality(D(n) \cup {n}) = Cardinality(D(n)) + 1
      /\ Cardinality(E(n)) \in Nat /\ Cardinality(E(n) \cup {n}) = Cardinality(E(n)) + 1
  <2> HIDE DEF D, E
  <2>1. PICK j : j = n - 1
    OBVIOUS
  <2>2. j \in Nat /\ j + 1 = n /\ D(n) \subseteq 1 .. j /\ E(n) \subseteq 1 .. j
    BY <1>3, <2>1
  <2>3. /\ Cardinality(D(n)) \in Nat /\ Cardinality(D(n) \cup {j + 1}) = Cardinality(D(n)) + 1
        /\ Cardinality(E(n)) \in Nat /\ Cardinality(E(n) \cup {j + 1}) = Cardinality(E(n)) + 1
    BY <2>2, Counting
  <2> QED BY <2>2, <2>3
<1> HIDE DEF D, E
<1> QED BY <1>4, <1>5, <1>6, <1>7

LEMMA CountedBound ==
  ASSUME TypeOK, Resolved, NEW n \in DOMAIN code
  PROVE  DeclaredTo(n + 1) <= MaxDeclarations /\ OpenedTo(n + 1) <= MaxBlocks
<1>1. PICK m : m = Len(code)
  OBVIOUS
<1>2. m \in Nat /\ DOMAIN code = 1 .. m
  BY <1>1, CodeFacts
<1> DEFINE D == {x \in DOMAIN code : x < n + 1 /\ Declares(x)}
           E == {x \in DOMAIN code : x < n + 1 /\ code[x].op \in Openers}
           F == {x \in DOMAIN code : Declares(x)}
           G == {x \in DOMAIN code : code[x].op \in Openers}
<1>3. D \in SUBSET F /\ E \in SUBSET G /\ F \subseteq 1 .. m /\ G \subseteq 1 .. m
  BY <1>2
<1>4. /\ DeclaredTo(n + 1) = Cardinality(D) /\ OpenedTo(n + 1) = Cardinality(E)
      /\ Declarations = Cardinality(F) /\ Count(Openers) = Cardinality(G)
  BY DEF DeclaredTo, OpenedTo, Declarations, Count
<1> HIDE DEF D, E, F, G
<1>5. IsFiniteSet(F) /\ IsFiniteSet(G) /\ Cardinality(F) \in Nat /\ Cardinality(G) \in Nat
  BY <1>2, <1>3, Counting
<1>6. /\ Cardinality(D) <= Cardinality(F) /\ Cardinality(E) <= Cardinality(G)
      /\ Cardinality(D) \in Nat /\ Cardinality(E) \in Nat
  <2>1. IsFiniteSet(D) /\ IsFiniteSet(E)
    BY <1>3, <1>5, FS_Subset
  <2> QED BY <1>3, <1>5, <2>1, FS_Subset, FS_CardinalityType
<1>7. Cardinality(F) <= MaxDeclarations /\ Cardinality(G) <= MaxBlocks
  BY <1>4 DEF Resolved, Bounded
<1> QED BY <1>4, <1>5, <1>6, <1>7, BoundAssumption

LEMMA RoomLeft ==
  ASSUME TypeOK, Resolved, Agrees, phase = "lower", at \in DOMAIN code
  PROVE  /\ vregs \in Nat /\ Takes(at) \in Nat
         /\ vregs + Takes(at) <= 2 * (DeclaredTo(at + 1) + OpenedTo(at + 1))
         /\ 2 * (DeclaredTo(at + 1) + OpenedTo(at + 1)) <= 2 * (MaxDeclarations + MaxBlocks)
<1>1. vregs <= 2 * (DeclaredTo(at) + OpenedTo(at))
  <2>1. Done = at
    BY DEF Done
  <2> QED BY <2>1 DEF Agrees
<1>2. /\ DeclaredTo(at) \in Nat /\ OpenedTo(at) \in Nat
      /\ DeclaredTo(at + 1) = IF Declares(at) THEN DeclaredTo(at) + 1 ELSE DeclaredTo(at)
      /\ OpenedTo(at + 1) = IF code[at].op \in Openers THEN OpenedTo(at) + 1 ELSE OpenedTo(at)
  BY CountedTo
<1>3. DeclaredTo(at + 1) <= MaxDeclarations /\ OpenedTo(at + 1) <= MaxBlocks
  BY CountedBound
<1>4. vregs \in Nat
  BY BoundAssumption DEF TypeOK
<1> QED BY <1>1, <1>2, <1>3, <1>4, BoundAssumption DEF Takes

(* Registers that are given out now are none of those given out before.    *)
LEMMA DistinctGrows ==
  ASSUME NEW n \in Nat \ {0}, NEW v \in Nat, NEW t \in Nat, v = vregs, vregs' = v + t,
         Distinct, DOMAIN emitted = 1 .. n - 1, DOMAIN emitted' = 1 .. n,
         \A k \in 1 .. n - 1 : emitted'[k] = emitted[k],
         \A l \in Lifetime : \/ Checkpoint(l)' = Checkpoint(l)
                             \/ /\ l \in {0, n} /\ Checkpoint(l)' \in v + 1 .. v + t
                                /\ Checkpoint(l) = NONE,
         Checkpoint(0)' = Checkpoint(n)' => Checkpoint(n)' = NONE,
         NEW w, w = Whole(n)', NEW b, b = Body(n)',
         w # NONE => /\ w \in v + 1 .. v + t /\ w # b
                     /\ w # Checkpoint(0)' /\ w # Checkpoint(n)',
         b # NONE => /\ b \in v + 1 .. v + t
                     /\ b # Checkpoint(0)' /\ b # Checkpoint(n)'
  PROVE  Distinct'
<1>1. /\ \A k \in 1 .. n - 1 : Whole(k)' = Whole(k) /\ Body(k)' = Body(k)
      /\ n - 1 \in Int /\ NONE \in Int /\ NONE = -1
  BY DEF Whole, Body, NONE
<1>2. \A l \in Lifetime : Checkpoint(l) # NONE =>
        /\ Checkpoint(l) \in 1 .. v
        /\ \A k \in Lifetime : Checkpoint(k) = Checkpoint(l) => k = l
  BY DEF Distinct
<1>3. \A o \in 1 .. n - 1 : Whole(o) # NONE =>
        /\ Whole(o) \in 1 .. v
        /\ \A p \in 1 .. n - 1 : Whole(p) = Whole(o) => p = o
        /\ \A l \in Lifetime : Checkpoint(l) # Whole(o)
  BY DEF Distinct
<1>4. \A o \in 1 .. n - 1 : Body(o) # NONE =>
        /\ Body(o) \in 1 .. v
        /\ \A p \in 1 .. n - 1 : Body(p) = Body(o) => p = o
        /\ \A p \in 1 .. n - 1 : Whole(p) # Body(o)
        /\ \A l \in Lifetime : Checkpoint(l) # Body(o)
  BY DEF Distinct
<1>5. \A l \in Lifetime : \/ Checkpoint(l)' = Checkpoint(l)
                          \/ (l = 0 \/ l = n) /\ Checkpoint(l)' > v /\ Checkpoint(l)' <= v + t
                             /\ Checkpoint(l)' \in Int
  OBVIOUS
<1>6. ASSUME NEW l \in Lifetime, Checkpoint(l)' # NONE
      PROVE  /\ Checkpoint(l)' \in 1 .. v + t
             /\ \A k \in Lifetime : Checkpoint(k)' = Checkpoint(l)' => k = l
  <2>1. Checkpoint(l)' \in 1 .. v + t
    BY <1>2, <1>5, <1>6
  <2>2. ASSUME NEW k \in Lifetime, Checkpoint(k)' = Checkpoint(l)'
        PROVE  k = l
    BY <1>2, <1>5, <1>6, <2>2
  <2> QED BY <2>1, <2>2
<1>7. \A o \in 1 .. n : (o \in 1 .. n - 1 \/ o = n)
  OBVIOUS
<1>8. ASSUME NEW o \in 1 .. n, Whole(o)' # NONE
      PROVE  /\ Whole(o)' \in 1 .. v + t
             /\ \A p \in 1 .. n : Whole(p)' = Whole(o)' => p = o
             /\ \A l \in Lifetime : Checkpoint(l)' # Whole(o)'
  <2>1. CASE o = n
    <3>1. w # NONE /\ w = Whole(o)'
      BY <1>8, <2>1
    <3>2. w \in v + 1 .. v + t /\ w # Checkpoint(0)' /\ w # Checkpoint(n)'
      BY <3>1
    <3>3. \A p \in 1 .. n - 1 : Whole(p)' # w
      BY <1>1, <1>3, <3>1, <3>2
    <3>4. \A l \in Lifetime : Checkpoint(l)' # w
      BY <1>1, <1>2, <1>5, <3>1, <3>2
    <3> QED BY <1>7, <2>1, <3>1, <3>2, <3>3, <3>4
  <2>2. CASE o \in 1 .. n - 1
    <3>1. Whole(o)' = Whole(o) /\ Whole(o) # NONE /\ Whole(o) \in 1 .. v
      BY <1>1, <1>3, <1>8, <2>2
    <3>2. \A p \in 1 .. n - 1 : Whole(p)' = Whole(o) => p = o
      BY <1>1, <1>3, <2>2, <3>1
    <3>3. w # Whole(o)
      BY <1>1, <3>1
    <3>4. \A l \in Lifetime : Checkpoint(l)' # Whole(o)
      BY <1>3, <1>5, <2>2, <3>1
    <3> QED BY <1>7, <3>1, <3>2, <3>3, <3>4
  <2> QED BY <1>7, <2>1, <2>2
<1>9. ASSUME NEW o \in 1 .. n, Body(o)' # NONE
      PROVE  /\ Body(o)' \in 1 .. v + t
             /\ \A p \in 1 .. n : Body(p)' = Body(o)' => p = o
             /\ \A p \in 1 .. n : Whole(p)' # Body(o)'
             /\ \A l \in Lifetime : Checkpoint(l)' # Body(o)'
  <2>1. CASE o = n
    <3>1. b # NONE /\ b = Body(o)'
      BY <1>9, <2>1
    <3>2. b \in v + 1 .. v + t /\ b # Checkpoint(0)' /\ b # Checkpoint(n)' /\ w # b
      BY <3>1
    <3>3. \A p \in 1 .. n - 1 : Whole(p)' # b /\ Body(p)' # b
      BY <1>1, <1>3, <1>4, <3>1, <3>2
    <3>4. \A l \in Lifetime : Checkpoint(l)' # b
      BY <1>1, <1>2, <1>5, <3>1, <3>2
    <3> QED BY <1>7, <2>1, <3>1, <3>2, <3>3, <3>4
  <2>2. CASE o \in 1 .. n - 1
    <3>1. Body(o)' = Body(o) /\ Body(o) # NONE /\ Body(o) \in 1 .. v
      BY <1>1, <1>4, <1>9, <2>2
    <3>2. \A p \in 1 .. n - 1 : (Body(p)' = Body(o) => p = o) /\ Whole(p)' # Body(o)
      BY <1>1, <1>4, <2>2, <3>1
    <3>3. b # Body(o) /\ w # Body(o)
      BY <1>1, <3>1
    <3>4. \A l \in Lifetime : Checkpoint(l)' # Body(o)
      BY <1>4, <1>5, <2>2, <3>1
    <3> QED BY <1>7, <3>1, <3>2, <3>3, <3>4
  <2> QED BY <1>7, <2>1, <2>2
<1>10. vregs' = v + t
  OBVIOUS
<1> QED BY <1>6, <1>8, <1>9, <1>10, Zenon DEF Distinct

(* The resolver is not heard of again.                                     *)
LEMMA ResolvedKept ==
  ASSUME Resolved, code' = code, vm_scope' = vm_scope, open' = open, phase' = phase
  PROVE  Resolved'
<1>1. (\A n : Around(n)' = Around(n)) /\ (\A n : Declares(n)' = Declares(n))
      /\ \A n : Scope(n)' = Scope(n)
  BY StaticKept
<1>2. Chained'
  <2>1. Chained
    BY DEF Resolved
  <2>2. \A n : Declares(Last(vm_scope[n]))' = Declares(Last(vm_scope[n]))
    BY Zenon DEF Declares
  <2> QED BY <2>1, <2>2, Zenon DEF Chained
<1>3. Nests'
  <2>1. Nests
    BY DEF Resolved
  <2>2. \A n, o : Scope(o + 1)' = Scope(o + 1)
    BY <1>1
  <2> QED BY <1>1, <2>1, <2>2, Zenon DEF Nests
<1>4. \A n \in DOMAIN code' : Fits(n)'
  <2> SUFFICES ASSUME NEW n \in DOMAIN code
               PROVE  Fits(n)'
    OBVIOUS
  <2>1. Fits(n)
    BY DEF Resolved
  <2>2. Around(n)' = Around(n) /\ Declares(n)' = Declares(n)
    BY <1>1
  <2> QED BY <2>1, <2>2, Zenon DEF Fits, Position
<1>5. Bounded'
  BY Zenon DEF Resolved, Bounded, Declarations, Count, Declares, Openers
<1>6. Ascending(open, Around(Len(code) + 1))'
  <2>1. Ascending(open, Around(Len(code) + 1))
    BY DEF Resolved
  <2>2. Around(Len(code) + 1)' = Around(Len(code) + 1)
    BY Zenon DEF Around
  <2>3. PICK S : S = Around(Len(code) + 1)
    OBVIOUS
  <2>4. Ascending(open, S)'
    BY <2>1, <2>3, Zenon DEF Ascending, Range
  <2> QED BY <2>2, <2>3, <2>4, Zenon DEF Ascending
<1>7. phase' \in {"lower", "run"} => open' = <<>> /\ GotosAreValid'
  BY Zenon DEF Resolved, GotosAreValid
<1>8. vm_scope' \in Seq(Seq(Nat)) /\ vm_scope'[1] = <<>>
  BY DEF Resolved
<1> QED BY <1>2, <1>3, <1>4, <1>5, <1>6, <1>7, <1>8, Zenon DEF Resolved

LEMMA RecordedGrows ==
  ASSUME TypeOK, Resolved, Recorded, NEW n \in DOMAIN code, n = Done, Done' = n + 1, Kept, n = at,
         UNCHANGED <<code, vm_scope>>,
         Declares(n) => Canonical(n)' = IF IsVla(n) THEN n ELSE Canonical(LifetimeAt(n)),
         IsVla(n) => Checkpoint(n)' # NONE /\ Checkpoint(0)' # NONE,
         \A l \in Lifetime : Checkpoint(l)' = Checkpoint(l) \/ l \in {0, n}
  PROVE  Recorded'
<1>0. PICK m : m = Len(code)
  OBVIOUS
<1>1. /\ m \in Nat /\ DOMAIN code = 1 .. m /\ n \in 1 .. m /\ Done \in Nat /\ n \in Nat
      /\ DOMAIN vm_scope = 1 .. m + 1
  BY <1>0, CodeFacts
<1>2. DOMAIN code \subseteq Lifetime /\ 0 \in Lifetime
  BY LifetimeRange
<1>3. Canonical(0)' = 0
  <2>1. 0 # n
    BY <1>1
  <2> QED BY <1>2, <2>1, Zenon DEF Recorded, Kept
<1>4. ASSUME NEW l \in DOMAIN code, l < n, Declares(l)
      PROVE  /\ Canonical(l)' = IF IsVla(l) THEN l ELSE Canonical(LifetimeAt(l))'
             /\ IsVla(l) => Checkpoint(l)' # NONE /\ Checkpoint(0)' # NONE
  <2>1. /\ Canonical(l) = IF IsVla(l) THEN l ELSE Canonical(LifetimeAt(l))
        /\ IsVla(l) => Checkpoint(l) # NONE /\ Checkpoint(0) # NONE
    BY <1>4, Zenon DEF Recorded
  <2>2. PICK k : k = LifetimeAt(l)
    OBVIOUS
  <2>3. k \in Lifetime /\ k # n
    <3>1. l \in DOMAIN vm_scope
      BY <1>1
    <3>2. k = 0 \/ (k \in DOMAIN code /\ k < l)
      BY <2>2, <3>1, ScopeBelow
    <3> QED BY <1>1, <1>2, <1>4, <3>2
  <2>4. Canonical(k)' = Canonical(k)
    BY <2>3, Zenon DEF Kept
  <2>5. LifetimeAt(l)' = k
    BY <2>2, StaticKept
  <2>6. Canonical(LifetimeAt(l))' = Canonical(k)'
    BY <2>5, Zenon DEF Canonical
  <2>7. l # n /\ Canonical(l)' = Canonical(l)
    <3>1. l # n /\ l \in Lifetime
      BY <1>1, <1>2, <1>4
    <3> QED BY <3>1, Zenon DEF Kept
  <2>8. IsVla(l) => Checkpoint(l)' = Checkpoint(l) /\ Checkpoint(0)' = Checkpoint(0)
    BY <1>2, <1>4, <2>1, Zenon DEF Kept
  <2> QED BY <2>1, <2>2, <2>4, <2>6, <2>7, <2>8
<1>5. Declares(n) =>
        /\ Canonical(n)' = IF IsVla(n) THEN n ELSE Canonical(LifetimeAt(n))'
        /\ IsVla(n) => Checkpoint(n)' # NONE /\ Checkpoint(0)' # NONE
  <2>1. PICK k : k = LifetimeAt(n)
    OBVIOUS
  <2>2. k \in Lifetime /\ k # n
    <3>1. n \in DOMAIN vm_scope
      BY <1>1
    <3>2. k = 0 \/ (k \in DOMAIN code /\ k < n)
      BY <2>1, <3>1, ScopeBelow
    <3> QED BY <1>1, <1>2, <3>2
  <2>3. Canonical(k)' = Canonical(k)
    BY <2>2, Zenon DEF Kept
  <2>4. LifetimeAt(n)' = k
    BY <2>1, StaticKept
  <2>5. Canonical(LifetimeAt(n))' = Canonical(k)'
    BY <2>4, Zenon DEF Canonical
  <2> QED BY <2>1, <2>3, <2>5
<1>6. ASSUME NEW l \in DOMAIN code, l >= n + 1
      PROVE  Checkpoint(l)' = NONE
  <2>1. l \in Lifetime /\ l \notin {0, n} /\ l >= Done
    BY <1>1, <1>2, <1>6
  <2>2. Checkpoint(l) = NONE
    BY <2>1, Zenon DEF Recorded
  <2> QED BY <2>1, <2>2
<1>7. \A l : Declares(l)' = Declares(l) /\ IsVla(l)' = IsVla(l)
  BY StaticKept
<1>8. \A l \in DOMAIN code : l < n + 1 => l < n \/ l = n
  BY <1>1
<1> HIDE DEF Done
<1>9. \A l \in DOMAIN code' : l < Done' /\ Declares(l)' =>
        /\ Canonical(l)' = IF IsVla(l)' THEN l ELSE Canonical(LifetimeAt(l))'
        /\ IsVla(l)' => Checkpoint(l)' # NONE /\ Checkpoint(0)' # NONE
  BY <1>4, <1>5, <1>7, <1>8, Zenon
<1>10. \A l \in DOMAIN code' : l >= Done' => Checkpoint(l)' = NONE
  BY <1>6, Zenon
<1> QED BY <1>3, <1>9, <1>10, Zenon DEF Recorded

(* The step of the lowering that emits blk, takes t registers and leaves    *)
(* the registers w and b with a block.                                      *)
Emits(n, blk, t) ==
  /\ UNCHANGED <<phase, code, vm_scope, open, testing, stack, saved, live, unsaved>>
  /\ at' = n + 1 /\ emitted' = Append(emitted, blk) /\ vregs' = vregs + t

Grows(n, t) ==
  /\ lifetimes' \in [Lifetime -> [canonical : Lifetime, checkpoint : Int]]
  /\ \A l \in Lifetime : l # n => Canonical(l)' = Canonical(l)
  /\ \A l \in Lifetime : Checkpoint(l) # NONE => Checkpoint(l)' = Checkpoint(l)
  /\ \A l \in Lifetime : \/ Checkpoint(l)' = Checkpoint(l)
                         \/ l \in {0, n} /\ Checkpoint(l)' \in vregs + 1 .. vregs + t
  /\ Checkpoint(0)' = Checkpoint(n)' => Checkpoint(n)' = NONE
  /\ Declares(n) => Canonical(n)' = IF IsVla(n) THEN n ELSE Canonical(LifetimeAt(n))
  /\ IsVla(n) => Checkpoint(n)' # NONE /\ Checkpoint(0)' # NONE

Enters(n) ==
  /\ current' = LifetimeAt(n) /\ entry' \in Seq(Lifetime)
  /\ \E b \in Seq(DOMAIN code) :
       /\ Ascending(b, Around(n)) /\ Len(entry') = Len(b)
       /\ \A k \in DOMAIN b : entry'[k] = LifetimeAt(b[k])

LEMMA LowerKeeps ==
  ASSUME TypeOK, Resolved, Untouched, Agrees, phase = "lower", NEW n \in DOMAIN code, n = at,
         NEW blk \in Block, NEW t \in Nat, t <= Takes(n), Emits(n, blk, t), Grows(n, t),
         Enters(n + 1),
         NEW w, w = IF blk.exit = <<>> THEN NONE ELSE blk.exit[1].vreg,
         NEW b, b = IF blk.body = <<>> THEN NONE ELSE blk.body[1].vreg,
         w # NONE => /\ w \in vregs + 1 .. vregs + t /\ w # b
                     /\ w # Checkpoint(0)' /\ w # Checkpoint(n)',
         b # NONE => /\ b \in vregs + 1 .. vregs + t
                     /\ b # Checkpoint(0)' /\ b # Checkpoint(n)',
         Lowered(n)'
  PROVE  TypeOK' /\ Resolved' /\ Untouched' /\ Agrees'
<1>0. PICK m : m = Len(code)
  OBVIOUS
<1>1. /\ m \in Nat /\ DOMAIN code = 1 .. m /\ n \in 1 .. m /\ n \in Nat \ {0} /\ n - 1 \in Nat
      /\ DOMAIN vm_scope = 1 .. m + 1 /\ Length \in Nat /\ m <= Length
  BY <1>0, CodeFacts
<1>2. /\ Done = n /\ at \in DOMAIN vm_scope /\ current = LifetimeAt(at)
      /\ Recorded /\ Distinct /\ Len(emitted) = n - 1 /\ emitted \in Seq(Block)
  BY LoweringAt DEF Agrees
<1>3. Done' = n + 1
  BY DEF Done, Emits
<1>4. /\ emitted' \in Seq(Block) /\ Len(emitted') = n /\ DOMAIN emitted = 1 .. n - 1
      /\ DOMAIN emitted' = 1 .. n /\ (\A k \in 1 .. n - 1 : emitted'[k] = emitted[k])
      /\ emitted'[n] = blk
  BY <1>1, <1>2, AppendFacts DEF Emits
<1>5. UNCHANGED <<code, vm_scope>> /\ code' = code /\ vm_scope' = vm_scope
  BY DEF Emits
<1>6. Kept
  BY DEF Kept, Grows
<1>7. Recorded'
  BY <1>2, <1>3, <1>5, <1>6, RecordedGrows, Zenon DEF Grows
<1>8. Whole(n)' = w /\ Body(n)' = b
  BY <1>4 DEF Whole, Body
<1>9. vregs \in Nat /\ vregs' = vregs + t
  BY BoundAssumption DEF TypeOK, Emits
<1>10. Distinct'
  <2>1. \A l \in Lifetime : \/ Checkpoint(l)' = Checkpoint(l)
                            \/ /\ l \in {0, n} /\ Checkpoint(l)' \in vregs + 1 .. vregs + t
                               /\ Checkpoint(l) = NONE
    BY Zenon DEF Grows
  <2>2. Checkpoint(0)' = Checkpoint(n)' => Checkpoint(n)' = NONE
    BY Zenon DEF Grows
  <2>3. PICK v : v = vregs
    OBVIOUS
  <2>4. /\ v \in Nat /\ v = vregs /\ vregs' = v + t
        /\ \A l \in Lifetime : \/ Checkpoint(l)' = Checkpoint(l)
                               \/ /\ l \in {0, n} /\ Checkpoint(l)' \in v + 1 .. v + t
                                  /\ Checkpoint(l) = NONE
        /\ w # NONE => /\ w \in v + 1 .. v + t /\ w # b
                       /\ w # Checkpoint(0)' /\ w # Checkpoint(n)'
        /\ b # NONE => /\ b \in v + 1 .. v + t
                       /\ b # Checkpoint(0)' /\ b # Checkpoint(n)'
    BY <1>9, <2>1, <2>3
  <2> QED BY <1>1, <1>2, <1>4, <1>8, <2>2, <2>4, DistinctGrows, Zenon
<1>11. \A k \in DOMAIN emitted' : Lowered(k)'
  <2>1. ASSUME NEW k \in 1 .. n - 1
        PROVE  Lowered(k)'
    <3>1. k \in DOMAIN code /\ k < at /\ Lowered(k) /\ Done = at /\ DOMAIN emitted = 1 .. at - 1
      BY <1>1, <1>2, <1>4, SMTT(30) DEF Agrees
    <3> QED BY <1>2, <1>4, <1>5, <1>6, <3>1, LoweredKept
  <2> QED BY <1>1, <1>4, <2>1
<1>12. /\ vregs' <= 2 * (DeclaredTo(n + 1) + OpenedTo(n + 1))
       /\ vregs' <= 2 * (MaxDeclarations + MaxBlocks)
       /\ vregs' \in 0 .. 2 * (MaxDeclarations + MaxBlocks)
  <2>1. /\ vregs \in Nat /\ Takes(n) \in Nat
        /\ vregs + Takes(n) <= 2 * (DeclaredTo(n + 1) + OpenedTo(n + 1))
        /\ 2 * (DeclaredTo(n + 1) + OpenedTo(n + 1)) <= 2 * (MaxDeclarations + MaxBlocks)
    BY RoomLeft
  <2>2. /\ DeclaredTo(n) \in Nat /\ OpenedTo(n) \in Nat
        /\ DeclaredTo(n + 1) = IF Declares(n) THEN DeclaredTo(n) + 1 ELSE DeclaredTo(n)
        /\ OpenedTo(n + 1) = IF code[n].op \in Openers THEN OpenedTo(n) + 1 ELSE OpenedTo(n)
    BY CountedTo
  <2>3. DeclaredTo(n + 1) \in Nat /\ OpenedTo(n + 1) \in Nat
    BY <2>2
  <2> QED BY <1>9, <2>1, <2>3, BoundAssumption, SMTT(30)
<1>13. vregs' <= 2 * (DeclaredTo(Done) + OpenedTo(Done))'
  <2>1. DeclaredTo(Done)' = DeclaredTo(n + 1) /\ OpenedTo(Done)' = OpenedTo(n + 1)
    BY <1>3, <1>5, Zenon DEF DeclaredTo, OpenedTo, Declares
  <2> QED BY <1>12, <2>1
<1>14. /\ at' \in DOMAIN vm_scope' /\ current' = LifetimeAt(at)'
       /\ \E c \in Seq(DOMAIN code') :
            /\ Ascending(c, Around(at))' /\ Len(entry') = Len(c)
            /\ \A k \in DOMAIN c : entry'[k] = LifetimeAt(c[k])'
  <2>1. at' = n + 1 /\ n + 1 \in DOMAIN vm_scope
    BY <1>1 DEF Emits
  <2>2. LifetimeAt(at)' = LifetimeAt(n + 1) /\ Around(at)' = Around(n + 1)
    BY <1>5, <2>1, Zenon DEF LifetimeAt, Around
  <2>3. \A k : LifetimeAt(k)' = LifetimeAt(k)
    BY <1>5, StaticKept
  <2>4. PICK c \in Seq(DOMAIN code) :
          /\ Ascending(c, Around(n + 1)) /\ Len(entry') = Len(c)
          /\ \A k \in DOMAIN c : entry'[k] = LifetimeAt(c[k])
    BY Zenon DEF Enters
  <2>5. Ascending(c, Around(at))'
    BY <2>2, <2>4, Zenon DEF Ascending, Range
  <2>6. current' = LifetimeAt(at)'
    BY <2>2, Zenon DEF Enters
  <2>7. \A k \in DOMAIN c : entry'[k] = LifetimeAt(c[k])'
    BY <2>3, <2>4, Zenon DEF LifetimeAt
  <2> QED BY <1>5, <2>1, <2>4, <2>5, <2>6, <2>7, Zenon
<1>15. Agrees'
  <2>1. Len(emitted') = Done' - 1
    BY <1>1, <1>3, <1>4
  <2> QED BY <1>4, <1>7, <1>10, <1>11, <1>13, <1>14, <2>1, Zenon DEF Agrees
<1>16. Resolved'
  <2>1. open' = open /\ phase' = phase
    BY DEF Emits
  <2> QED BY <1>5, <2>1, ResolvedKept
<1>17. TypeOK'
  <2>1. lifetimes' \in [Lifetime -> [canonical : Lifetime, checkpoint : Vreg \cup {NONE}]]
    <3>1. vregs + t <= 2 * (MaxDeclarations + MaxBlocks)
      BY <1>9, <1>12
    <3>2. \A l \in Lifetime : Checkpoint(l)' \in Vreg \cup {NONE}
      <4>1. \A l \in Lifetime : \/ Checkpoint(l)' = Checkpoint(l)
                                \/ Checkpoint(l)' \in vregs + 1 .. vregs + t
        BY Zenon DEF Grows
      <4>2. \A l \in Lifetime : Checkpoint(l) \in Vreg \cup {NONE}
        BY LifetimeRange
      <4>3. vregs + 1 .. vregs + t \subseteq Vreg
        BY <1>9, <3>1, BoundAssumption DEF Vreg
      <4> QED BY <4>1, <4>2, <4>3
    <3>3. lifetimes' \in [Lifetime -> [canonical : Lifetime, checkpoint : Int]]
      BY DEF Grows
    <3> QED BY <3>2, <3>3 DEF Checkpoint
  <2>2. current' \in Lifetime /\ entry' \in Seq(Lifetime)
    <3>1. n + 1 \in DOMAIN vm_scope
      BY <1>1
    <3>2. LifetimeAt(n + 1) \in Lifetime
      BY <3>1, ScopeBelow, LifetimeRange
    <3> QED BY <3>2 DEF Enters
  <2>3. at' \in 0 .. Length + 1
    BY <1>1 DEF Emits
  <2> QED BY <1>12, <2>1, <2>2, <2>3 DEF TypeOK, Emits
<1>18. Untouched'
  BY DEF Untouched, Emits
<1> QED BY <1>15, <1>16, <1>17, <1>18

LEMMA SeqFacts ==
  ASSUME NEW S
  PROVE  /\ \A x \in S : <<x>> \in Seq(S)
         /\ \A s, t \in Seq(S) : s \o t \in Seq(S)
         /\ <<>> \in Seq(S)
OBVIOUS

LEMMA InstructionFacts ==
  /\ \A v \in Vreg : Save(v) \in Seq(Instruction)
  /\ \A v \in Vreg \cup {NONE} : SaveIn(v) \in Seq(Instruction)
  /\ \A v \in Vreg \cup {NONE} : Restore(v) \in Seq(Instruction)
  /\ Alloc \in Seq(Instruction) /\ <<>> \in Seq(Instruction)
  /\ NONE \notin Vreg /\ NONE \notin Nat
<1>1. NONE \notin Vreg /\ NONE \notin Nat
  BY BoundAssumption DEF Vreg, NONE
<1>2. \A v \in Vreg : [op |-> "save", vreg |-> v] \in Instruction
                      /\ [op |-> "restore", vreg |-> v] \in Instruction
  BY <1>1 DEF Instruction
<1>3. [op |-> "alloc", vreg |-> NONE] \in Instruction
  BY DEF Instruction
<1>4. \A v \in Vreg : Save(v) \in Seq(Instruction)
  BY <1>2, SeqFacts, Zenon DEF Save
<1>5. \A v \in Vreg \cup {NONE} : SaveIn(v) \in Seq(Instruction)
  BY <1>4, SeqFacts, Zenon DEF SaveIn
<1>6. \A v \in Vreg \cup {NONE} : Restore(v) \in Seq(Instruction)
  <2>1. \A v \in Vreg : Restore(v) \in Seq(Instruction)
    BY <1>1, <1>2, SeqFacts, Zenon DEF Restore
  <2>2. Restore(NONE) \in Seq(Instruction)
    BY SeqFacts, Zenon DEF Restore
  <2> QED BY <2>1, <2>2
<1>7. Alloc \in Seq(Instruction) /\ <<>> \in Seq(Instruction)
  BY <1>3, SeqFacts, Zenon DEF Alloc
<1> QED BY <1>1, <1>4, <1>5, <1>6, <1>7

(* With the lifetimes a declaration leaves, what it emits is as it should   *)
(* be, and its registers are none of those given out besides.               *)
LEMMA GrownGrows ==
  ASSUME TypeOK, Resolved, Agrees, phase = "lower", NEW n \in DOMAIN code, n = at,
         NEW d, NEW v \in Nat, Grown(d, v), v > vregs, NEW t \in Nat,
         v + d.taken <= vregs + t + 1, t <= Takes(n), lifetimes' = d.lifetimes,
         code' = code, vm_scope' = vm_scope
  PROVE  /\ Grows(n, t) /\ Declaring(n, d.emit)' /\ d.emit \in Seq(Instruction)
         /\ \A w \in vregs + 1 .. vregs + t :
              w < v \/ w >= v + d.taken => w # Checkpoint(0)' /\ w # Checkpoint(n)'
<1>1. /\ Done = n /\ n \in Nat /\ n \in DOMAIN vm_scope /\ Distinct
      /\ LifetimeAt(n) < n /\ n \in Lifetime /\ 0 \in Lifetime
  BY LoweringAt, LifetimeRange DEF Agrees
<1>2. /\ vregs \in Nat /\ vregs + t <= 2 * (MaxDeclarations + MaxBlocks)
      /\ d.taken \in 0 .. 2 /\ \A l \in Lifetime : Checkpoint(l) \in Vreg \cup {NONE}
  <2>1. /\ vregs \in Nat /\ Takes(at) \in Nat
        /\ vregs + Takes(at) <= 2 * (DeclaredTo(at + 1) + OpenedTo(at + 1))
        /\ 2 * (DeclaredTo(at + 1) + OpenedTo(at + 1)) <= 2 * (MaxDeclarations + MaxBlocks)
    BY RoomLeft
  <2>2. /\ DeclaredTo(at) \in Nat /\ OpenedTo(at) \in Nat
        /\ DeclaredTo(at + 1) = IF Declares(at) THEN DeclaredTo(at) + 1 ELSE DeclaredTo(at)
        /\ OpenedTo(at + 1) = IF code[at].op \in Openers THEN OpenedTo(at) + 1 ELSE OpenedTo(at)
    BY CountedTo
  <2>3. DeclaredTo(at + 1) \in Nat /\ OpenedTo(at + 1) \in Nat
    BY <2>2
  <2>4. vregs + t <= 2 * (MaxDeclarations + MaxBlocks)
    BY <2>1, <2>3, BoundAssumption
  <2> QED BY <2>1, <2>4, LifetimeRange DEF Grown
<1>3. \A l : Canonical(l)' = d.lifetimes[l].canonical /\ Checkpoint(l)' = d.lifetimes[l].checkpoint
  BY DEF Canonical, Checkpoint
<1>4. /\ d.lifetimes \in [Lifetime -> [canonical : Lifetime, checkpoint : Int]]
      /\ \A l \in Lifetime : l # n => Canonical(l)' = Canonical(l)
      /\ \A l \in Lifetime : Checkpoint(l) # NONE => Checkpoint(l)' = Checkpoint(l)
      /\ \A l \in Lifetime : \/ Checkpoint(l)' = Checkpoint(l)
                             \/ l \in {0, n} /\ Checkpoint(l)' \in v .. v + d.taken - 1
      /\ Checkpoint(0)' = Checkpoint(n)' => Checkpoint(n)' = NONE
      /\ Declares(n) => Canonical(n)' = IF IsVla(n) THEN n ELSE Canonical(LifetimeAt(n))
      /\ IsVla(n) =>
           /\ Checkpoint(n)' # NONE /\ Checkpoint(0)' # NONE
           /\ \/ d.emit = Alloc \o Save(Checkpoint(n)')
              \/ /\ Canonical(LifetimeAt(n)) = 0
                 /\ d.emit = Save(Checkpoint(0)') \o Alloc \o Save(Checkpoint(n)')
      /\ ~IsVla(n) => d.taken = 0 /\ d.emit = <<>>
  BY <1>3, Zenon DEF Grown
<1>5. v .. v + d.taken - 1 \subseteq vregs + 1 .. vregs + t
  BY <1>2
<1>6. Grows(n, t)
  <2>1. \A l \in Lifetime : \/ Checkpoint(l)' = Checkpoint(l)
                            \/ l \in {0, n} /\ Checkpoint(l)' \in vregs + 1 .. vregs + t
    BY <1>4, <1>5
  <2> QED BY <1>4, <2>1, Zenon DEF Grows
<1>7. \A l \in Lifetime : Checkpoint(l)' \in Vreg \cup {NONE}
  <2>1. vregs + 1 .. vregs + t \subseteq Vreg
    BY <1>2, BoundAssumption DEF Vreg
  <2> QED BY <1>2, <1>4, <1>5, <2>1
<1>8. d.emit \in Seq(Instruction)
  <2>1. CASE ~IsVla(n)
    BY <1>4, <2>1, InstructionFacts
  <2>2. CASE IsVla(n)
    <3>1. Checkpoint(n)' \in Vreg /\ Checkpoint(0)' \in Vreg
      BY <1>1, <1>4, <1>7, <2>2
    <3>2. PICK x, y : x = Save(Checkpoint(n)') /\ y = Save(Checkpoint(0)')
      OBVIOUS
    <3>3. /\ x \in Seq(Instruction) /\ y \in Seq(Instruction) /\ Alloc \in Seq(Instruction)
      BY <3>1, <3>2, InstructionFacts
    <3>4. d.emit = Alloc \o x \/ d.emit = y \o Alloc \o x
      BY <1>4, <2>2, <3>2, Zenon
    <3>5. Alloc \o x \in Seq(Instruction)
      BY <3>3, SeqFacts, Zenon
    <3>6. y \o (Alloc \o x) \in Seq(Instruction) /\ y \o Alloc \o x \in Seq(Instruction)
      <4>1. y \o Alloc \in Seq(Instruction)
        BY <3>3, SeqFacts, Zenon
      <4> QED BY <3>3, <3>5, <4>1, SeqFacts, Zenon
    <3> QED BY <3>4, <3>5, <3>6, Zenon
  <2> QED BY <2>1, <2>2
<1>9. Declaring(n, d.emit)'
  <2>1. IsVla(n)' = IsVla(n) /\ LifetimeAt(n)' = LifetimeAt(n)
    BY StaticKept
  <2>2. PICK l : l = LifetimeAt(n)
    OBVIOUS
  <2>3. l \in Lifetime /\ l # n
    <3>1. l = 0 \/ l \in DOMAIN code
      BY <1>1, <2>2, ScopeBelow
    <3> QED BY <1>1, <2>2, <3>1, LifetimeRange
  <2>4. Canonical(l)' = Canonical(l)
    BY <1>4, <2>3
  <2>5. Canonical(LifetimeAt(n))' = Canonical(l)'
    BY <2>1, <2>2, Zenon DEF Canonical
  <2>6. PICK e : e = d.emit
    OBVIOUS
  <2>7. ~IsVla(n) => e = <<>>
    BY <1>4, <2>6
  <2>8. IsVla(n) => \/ e = Alloc \o Save(Checkpoint(n)')
                    \/ /\ Canonical(l)' = 0
                       /\ e = Save(Checkpoint(0)') \o Alloc \o Save(Checkpoint(n)')
    BY <1>4, <2>2, <2>4, <2>6
  <2>9. Save(Checkpoint(n))' = Save(Checkpoint(n)') /\ Save(Checkpoint(0))' = Save(Checkpoint(0)')
        /\ Alloc' = Alloc
    BY Zenon DEF Save, Alloc
  <2>10. Declaring(n, e)'
    BY <2>1, <2>5, <2>7, <2>8, <2>9, Zenon DEF Declaring
  <2>11. e' = d.emit
    BY <2>6
  <2> QED BY <2>6, <2>10, Zenon
<1>10. ASSUME NEW w \in vregs + 1 .. vregs + t, w < v \/ w >= v + d.taken
       PROVE  w # Checkpoint(0)' /\ w # Checkpoint(n)'
  <2>1. \A l \in Lifetime : Checkpoint(l) # NONE => Checkpoint(l) <= vregs
    BY <1>1, <1>2 DEF Distinct
  <2>2. NONE < w /\ NONE \in Int
    BY <1>2 DEF NONE
  <2>3. ASSUME NEW l \in Lifetime
        PROVE  w # Checkpoint(l)'
    <3>1. CASE Checkpoint(l)' = Checkpoint(l)
      BY <1>2, <2>1, <2>2, <3>1
    <3>2. CASE Checkpoint(l)' \in v .. v + d.taken - 1
      BY <1>2, <1>10, <3>2
    <3> QED BY <1>4, <3>1, <3>2
  <2> QED BY <1>1, <2>3
<1> QED BY <1>6, <1>8, <1>9, <1>10

LEMMA EntersOn ==
  ASSUME TypeOK, Resolved, Agrees, phase = "lower", NEW n \in DOMAIN code, n = at,
         code[n].op \notin Openers \cup {"end"}, entry' = entry, current' = LifetimeAt(n + 1)
  PROVE  Enters(n + 1)
<1>1. PICK b \in Seq(DOMAIN code) :
        /\ Ascending(b, Around(at)) /\ Len(entry) = Len(b)
        /\ \A k \in DOMAIN b : entry[k] = LifetimeAt(b[k])
  BY DEF Agrees
<1>2. Around(n + 1) = Around(at)
  BY AroundNext
<1>3. entry \in Seq(Lifetime)
  BY DEF TypeOK
<1> QED BY <1>1, <1>2, <1>3, Zenon DEF Enters

LEMMA EntersOpened ==
  ASSUME TypeOK, Resolved, Agrees, phase = "lower", NEW n \in DOMAIN code, n = at,
         code[n].op \in Openers, entry' = Append(entry, current), current' = LifetimeAt(n + 1)
  PROVE  Enters(n + 1)
<1>1. PICK b \in Seq(DOMAIN code) :
        /\ Ascending(b, Around(n)) /\ Len(entry) = Len(b)
        /\ \A k \in DOMAIN b : entry[k] = LifetimeAt(b[k])
  BY DEF Agrees
<1>2. Around(n + 1) = Around(n) \cup {n}
  BY AroundNext
<1>3. entry \in Seq(Lifetime) /\ current \in Lifetime /\ current = LifetimeAt(n)
  BY DEF TypeOK, Agrees
<1>4. DOMAIN code \subseteq Nat /\ n \in Nat
  BY DEF TypeOK
<1>5. b \in Seq(Nat)
  BY <1>4, SeqMono
<1>6. \A x \in Around(n) : x < n
  BY DEF Around
<1>7. Ascending(Append(b, n), Around(n + 1))
  BY <1>1, <1>2, <1>4, <1>5, <1>6, AscendingPush
<1>8. /\ Append(b, n) \in Seq(DOMAIN code) /\ Len(Append(b, n)) = Len(b) + 1 /\ Len(b) \in Nat
      /\ DOMAIN b = 1 .. Len(b) /\ DOMAIN Append(b, n) = 1 .. Len(b) + 1
      /\ Append(b, n)[Len(b) + 1] = n
      /\ \A k \in 1 .. Len(b) : Append(b, n)[k] = b[k]
  BY AppendFacts
<1>9. /\ entry' \in Seq(Lifetime) /\ Len(entry') = Len(b) + 1
      /\ entry'[Len(b) + 1] = LifetimeAt(n)
      /\ \A k \in 1 .. Len(b) : entry'[k] = entry[k]
  BY <1>1, <1>3, AppendFacts
<1>10. ASSUME NEW k \in DOMAIN Append(b, n)
       PROVE  entry'[k] = LifetimeAt(Append(b, n)[k])
  <2>1. k = Len(b) + 1 \/ k \in 1 .. Len(b)
    BY <1>8
  <2> QED BY <1>1, <1>8, <1>9, <2>1
<1> QED BY <1>7, <1>8, <1>9, <1>10 DEF Enters

LEMMA EmittedLast ==
  ASSUME TypeOK, Agrees, phase = "lower", NEW n, n = at, NEW blk \in Block,
         emitted' = Append(emitted, blk)
  PROVE  emitted'[n] = blk
<1>1. emitted \in Seq(Block) /\ Len(emitted) = n - 1 /\ n \in Int
  BY LengthAssumption DEF Agrees, Done, TypeOK
<1>2. emitted'[Len(emitted) + 1] = blk
  BY <1>1, AppendFacts
<1> QED BY <1>1, <1>2

LEMMA LowerDeclarationStep ==
  ASSUME TypeOK, Resolved, Untouched, Agrees, LowerDeclaration
  PROVE  TypeOK' /\ Resolved' /\ Untouched' /\ Agrees'
<1>1. PICK n : n = at
  OBVIOUS
<1>2. phase = "lower" /\ n \in DOMAIN code /\ at \in DOMAIN code /\ code[n].op = "decl"
  BY <1>1 DEF LowerDeclaration, Lower
<1>3. Declares(n) /\ code[n].op \notin Openers \cup {"end"}
  BY <1>2 DEF Resolved, Fits, Openers
<1>4. PICK v : v = vregs + 1
  OBVIOUS
<1>5. vregs \in Nat /\ v \in Nat /\ v > vregs
  BY <1>4, BoundAssumption DEF TypeOK
<1>6. PICK d : d = Declaration(at, v)
  OBVIOUS
<1>7. Grown(d, v)
  BY <1>2, <1>5, <1>6, DeclarationIs
<1>8. PICK t : t = d.taken
  OBVIOUS
<1>9. t \in Nat /\ t <= Takes(n) /\ v + d.taken <= vregs + t + 1
  <2>1. t \in 0 .. 2
    BY <1>7, <1>8 DEF Grown
  <2>2. Takes(n) = 2
    BY <1>3 DEF Takes
  <2> QED BY <1>4, <1>5, <1>8, <2>1, <2>2
<1>10. PICK blk : blk = [enter |-> d.emit, body |-> <<>>, exit |-> <<>>]
  OBVIOUS
<1>11. /\ Emits(n, blk, t) /\ lifetimes' = d.lifetimes /\ current' = n /\ entry' = entry
       /\ emitted' = Append(emitted, blk) /\ code' = code /\ vm_scope' = vm_scope
  <2>1. blk = [Nothing EXCEPT !.enter = d.emit]
    BY <1>10 DEF Nothing
  <2> QED BY <1>1, <1>4, <1>6, <1>8, <2>1 DEF LowerDeclaration, Emit, Emits, resolving, running
<1>12. Grows(n, t) /\ Declaring(n, d.emit)' /\ d.emit \in Seq(Instruction)
  BY <1>1, <1>2, <1>5, <1>7, <1>9, <1>11, GrownGrows
<1>13. blk \in Block
  BY <1>10, <1>12, SeqFacts DEF Block
<1>14. Enters(n + 1)
  <2>1. LifetimeAt(n + 1) = n
    BY <1>2, <1>3, ScopeNext
  <2> QED BY <1>1, <1>2, <1>3, <1>11, <2>1, EntersOn
<1>15. emitted'[n] = blk
  BY <1>1, <1>2, <1>11, <1>13, EmittedLast
<1>16. Lowered(n)'
  <2>1. blk.enter = d.emit /\ blk.body = <<>> /\ blk.exit = <<>> /\ code'[n].op = "decl"
    BY <1>2, <1>10, <1>11
  <2>2. PICK x : x = d.emit
    OBVIOUS
  <2>3. Declaring(n, x)'
    BY <1>12, <2>2, Zenon
  <2> QED BY <1>15, <2>1, <2>2, <2>3 DEF Lowered
<1>17. /\ NONE = IF blk.exit = <<>> THEN NONE ELSE blk.exit[1].vreg
       /\ NONE = IF blk.body = <<>> THEN NONE ELSE blk.body[1].vreg
  BY <1>10
<1> QED BY <1>1, <1>2, <1>9, <1>11, <1>12, <1>13, <1>14, <1>16, <1>17, LowerKeeps

(* An item that leaves the lifetimes and the registers as they are.         *)
LEMMA GrowsNothing ==
  ASSUME TypeOK, Resolved, Agrees, phase = "lower", NEW n \in DOMAIN code, n = at,
         ~Declares(n), lifetimes' = lifetimes, NEW t \in Nat
  PROVE  /\ Grows(n, t) /\ \A l : Checkpoint(l)' = Checkpoint(l)
         /\ vregs \in Nat /\ \A l \in {0, n} : Checkpoint(l) = NONE \/ Checkpoint(l) \in 1 .. vregs
<1>1. /\ Done = n /\ Recorded /\ Distinct /\ n \in Lifetime /\ 0 \in Lifetime /\ n \in Nat
  BY LoweringAt, LifetimeRange DEF Agrees
<1>2. Checkpoint(n) = NONE /\ ~IsVla(n)
  BY <1>1 DEF Recorded, IsVla, Declares
<1>3. (\A l : Checkpoint(l)' = Checkpoint(l)) /\ (\A l : Canonical(l)' = Canonical(l))
  BY DEF Checkpoint, Canonical
<1>4. lifetimes' \in [Lifetime -> [canonical : Lifetime, checkpoint : Int]]
  <2>1. Vreg \cup {NONE} \subseteq Int
    BY BoundAssumption DEF Vreg, NONE
  <2>2. lifetimes \in [Lifetime -> [canonical : Lifetime, checkpoint : Vreg \cup {NONE}]]
    BY DEF TypeOK
  <2>3. \A r \in [canonical : Lifetime, checkpoint : Vreg \cup {NONE}] :
          r \in [canonical : Lifetime, checkpoint : Int]
    BY <2>1
  <2> QED BY <2>2, <2>3
<1>5. vregs \in Nat /\ \A l \in {0, n} : Checkpoint(l) = NONE \/ Checkpoint(l) \in 1 .. vregs
  BY <1>1, BoundAssumption DEF Distinct, TypeOK
<1>6. Grows(n, t)
  BY <1>2, <1>3, <1>4, Zenon DEF Grows
<1> QED BY <1>3, <1>5, <1>6

LEMMA PlainStep ==
  ASSUME TypeOK, Resolved, Untouched, Agrees, phase = "lower", NEW n \in DOMAIN code, n = at,
         code[n].op \notin {"decl", "loop"}, lifetimes' = lifetimes,
         NEW blk \in Block, blk.body = <<>>, NEW t \in Nat, t <= Takes(n), Emits(n, blk, t),
         Enters(n + 1), NEW w, w = IF blk.exit = <<>> THEN NONE ELSE blk.exit[1].vreg,
         w # NONE => w \in vregs + 1 .. vregs + t, Lowered(n)'
  PROVE  TypeOK' /\ Resolved' /\ Untouched' /\ Agrees'
<1>1. ~Declares(n)
  BY DEF Resolved, Fits
<1>2. /\ Grows(n, t) /\ (\A l : Checkpoint(l)' = Checkpoint(l)) /\ vregs \in Nat
      /\ \A l \in {0, n} : Checkpoint(l) = NONE \/ Checkpoint(l) \in 1 .. vregs
  BY <1>1, GrowsNothing
<1>3. NONE = IF blk.body = <<>> THEN NONE ELSE blk.body[1].vreg
  OBVIOUS
<1>4. w # NONE => w # Checkpoint(0)' /\ w # Checkpoint(n)'
  BY <1>2
<1>5. PICK b : b = NONE
  OBVIOUS
<1>6. b # NONE => /\ b \in vregs + 1 .. vregs + t /\ b # Checkpoint(0)' /\ b # Checkpoint(n)'
  BY <1>5
<1>7. w # NONE => /\ w \in vregs + 1 .. vregs + t /\ w # b
                  /\ w # Checkpoint(0)' /\ w # Checkpoint(n)'
  BY <1>4, <1>5
<1> QED BY <1>2, <1>3, <1>5, <1>6, <1>7, LowerKeeps, Zenon

(* The lifetime behind an item that declares nothing and ends nothing.      *)
LEMMA LifetimeOn ==
  ASSUME TypeOK, Resolved, NEW n \in DOMAIN code, code[n].op \notin {"decl", "loop", "end"}
  PROVE  ~Declares(n) /\ LifetimeAt(n + 1) = LifetimeAt(n) /\ Scope(n + 1) = Scope(n)
         /\ vm_scope[n + 1] = vm_scope[n]
<1>1. ~Declares(n)
  BY DEF Resolved, Fits
<1> QED BY <1>1, ScopeNext

LEMMA NothingFacts ==
  /\ Nothing = [enter |-> <<>>, body |-> <<>>, exit |-> <<>>]
  /\ \A e \in Seq(Instruction) : [Nothing EXCEPT !.enter = e] = [enter |-> e, body |-> <<>>, exit |-> <<>>]
  /\ \A e, x, y \in Seq(Instruction) : [enter |-> e, body |-> x, exit |-> y] \in Block
  /\ Nothing \in Block
<1>1. <<>> \in Seq(Instruction)
  OBVIOUS
<1> QED BY <1>1 DEF Nothing, Block

LEMMA LowerScopeStep ==
  ASSUME TypeOK, Resolved, Untouched, Agrees, LowerScope
  PROVE  TypeOK' /\ Resolved' /\ Untouched' /\ Agrees'
<1>1. PICK n : n = at
  OBVIOUS
<1>2. phase = "lower" /\ n \in DOMAIN code /\ at \in DOMAIN code /\ code[n].op = "scope"
  BY <1>1 DEF LowerScope, Lower
<1>3. PICK blk : blk = Nothing
  OBVIOUS
<1>4. blk \in Block /\ blk.enter = <<>> /\ blk.body = <<>> /\ blk.exit = <<>>
  BY <1>3, NothingFacts
<1>5. /\ Emits(n, blk, 0) /\ lifetimes' = lifetimes /\ current' = current
      /\ entry' = Append(entry, current) /\ emitted' = Append(emitted, blk) /\ code' = code
  <2>1. vregs \in Nat /\ vregs' = vregs
    BY BoundAssumption DEF TypeOK, LowerScope
  <2> QED BY <1>1, <1>3, <2>1 DEF LowerScope, Emit, Emits, resolving, running
<1>6. current' = LifetimeAt(n + 1)
  BY <1>1, <1>2, <1>5, LifetimeOn, LoweringAt
<1>7. code[n].op \in Openers
  BY <1>2 DEF Openers
<1>8. Enters(n + 1)
  BY <1>1, <1>2, <1>5, <1>6, <1>7, EntersOpened
<1>9. Lowered(n)'
  <2>1. emitted'[n] = blk
    BY <1>1, <1>2, <1>4, <1>5, EmittedLast
  <2>2. code'[n].op = "scope"
    BY <1>2, <1>5
  <2> QED BY <1>4, <2>1, <2>2 DEF Lowered
<1>10. 0 <= Takes(n) /\ 0 \in Nat
  BY DEF Takes
<1>11. PICK w : w = NONE
  OBVIOUS
<1>12. w = IF blk.exit = <<>> THEN NONE ELSE blk.exit[1].vreg
  BY <1>4, <1>11
<1> QED BY <1>1, <1>2, <1>4, <1>5, <1>8, <1>9, <1>10, <1>11, <1>12, PlainStep

LEMMA LowerCaseStep ==
  ASSUME TypeOK, Resolved, Untouched, Agrees, LowerCase
  PROVE  TypeOK' /\ Resolved' /\ Untouched' /\ Agrees'
<1>1. PICK n : n = at
  OBVIOUS
<1>2. phase = "lower" /\ n \in DOMAIN code /\ at \in DOMAIN code /\ code[n].op = "case"
  BY <1>1 DEF LowerCase, Lower
<1>3. PICK blk : blk = Nothing
  OBVIOUS
<1>4. blk \in Block /\ blk.enter = <<>> /\ blk.body = <<>> /\ blk.exit = <<>>
  BY <1>3, NothingFacts
<1>5. /\ Emits(n, blk, 0) /\ lifetimes' = lifetimes /\ current' = current
      /\ entry' = entry /\ emitted' = Append(emitted, blk) /\ code' = code
  <2>1. vregs \in Nat /\ vregs' = vregs
    BY BoundAssumption DEF TypeOK, LowerCase
  <2> QED BY <1>1, <1>3, <2>1 DEF LowerCase, Emit, Emits, resolving, running
<1>6. current' = LifetimeAt(n + 1)
  BY <1>1, <1>2, <1>5, LifetimeOn, LoweringAt
<1>7. code[n].op \notin Openers \cup {"end"}
  BY <1>2 DEF Openers
<1>8. Enters(n + 1)
  BY <1>1, <1>2, <1>5, <1>6, <1>7, EntersOn
<1>9. Lowered(n)'
  <2>1. emitted'[n] = blk
    BY <1>1, <1>2, <1>4, <1>5, EmittedLast
  <2>2. code'[n].op = "case"
    BY <1>2, <1>5
  <2> QED BY <1>4, <2>1, <2>2 DEF Lowered
<1>10. 0 <= Takes(n) /\ 0 \in Nat
  BY DEF Takes
<1>11. PICK w : w = NONE
  OBVIOUS
<1>12. w = IF blk.exit = <<>> THEN NONE ELSE blk.exit[1].vreg
  BY <1>4, <1>11
<1> QED BY <1>1, <1>2, <1>4, <1>5, <1>8, <1>9, <1>10, <1>11, <1>12, PlainStep

LEMMA LowerSwitchStep ==
  ASSUME TypeOK, Resolved, Untouched, Agrees, LowerSwitch
  PROVE  TypeOK' /\ Resolved' /\ Untouched' /\ Agrees'
<1>1. PICK n : n = at
  OBVIOUS
<1>2. phase = "lower" /\ n \in DOMAIN code /\ at \in DOMAIN code /\ code[n].op = "switch"
  BY <1>1 DEF LowerSwitch, Lower
<1>3. PICK v : v = vregs + 1
  OBVIOUS
<1>4. code[n].op \in Openers /\ Takes(n) \in Nat /\ Takes(n) >= 2
  <2>1. code[n].op \in Openers
    BY <1>2 DEF Openers
  <2> QED BY <2>1 DEF Takes
<1>5. vregs \in Nat /\ v \in Vreg /\ v \in Nat /\ v # NONE
  <2>1. /\ vregs \in Nat /\ Takes(at) \in Nat
        /\ vregs + Takes(at) <= 2 * (DeclaredTo(at + 1) + OpenedTo(at + 1))
        /\ 2 * (DeclaredTo(at + 1) + OpenedTo(at + 1)) <= 2 * (MaxDeclarations + MaxBlocks)
    BY <1>2, RoomLeft
  <2>2. /\ DeclaredTo(at) \in Nat /\ OpenedTo(at) \in Nat
        /\ DeclaredTo(at + 1) = IF Declares(at) THEN DeclaredTo(at) + 1 ELSE DeclaredTo(at)
        /\ OpenedTo(at + 1) = IF code[at].op \in Openers THEN OpenedTo(at) + 1 ELSE OpenedTo(at)
    BY <1>2, CountedTo
  <2>3. DeclaredTo(at + 1) \in Nat /\ OpenedTo(at + 1) \in Nat
    BY <2>2
  <2> QED BY <1>1, <1>3, <1>4, <2>1, <2>3, BoundAssumption DEF Vreg, NONE
<1>6. PICK w : w = IF ContainsVla(n) THEN v ELSE NONE
  OBVIOUS
<1>7. w \in Vreg \cup {NONE} /\ (w # NONE <=> ContainsVla(n)) /\ (w # NONE => w = v)
  BY <1>5, <1>6
<1>8. PICK t : t = IF ContainsVla(n) THEN 1 ELSE 0
  OBVIOUS
<1>9. t \in Nat /\ t <= Takes(n) /\ (w # NONE => w \in vregs + 1 .. vregs + t)
  BY <1>3, <1>4, <1>5, <1>6, <1>8
<1>a. PICK x, y : x = SaveIn(w) /\ y = Restore(w)
  OBVIOUS
<1>b. x \in Seq(Instruction) /\ y \in Seq(Instruction)
  BY <1>7, <1>a, InstructionFacts
<1>10. PICK blk : blk = [Nothing EXCEPT !.enter = x, !.exit = y]
  OBVIOUS
<1>11. blk \in Block /\ blk.enter = SaveIn(w) /\ blk.body = <<>> /\ blk.exit = Restore(w)
  <2>1. blk.enter = x /\ blk.body = <<>> /\ blk.exit = y
    BY <1>10 DEF Nothing
  <2>2. blk \in Block
    BY <1>b, <1>10, NothingFacts DEF Block
  <2> QED BY <1>a, <2>1, <2>2
<1>12. /\ Emits(n, blk, t) /\ lifetimes' = lifetimes /\ current' = current
       /\ entry' = Append(entry, current) /\ emitted' = Append(emitted, blk)
       /\ code' = code /\ vm_scope' = vm_scope
  <2>1. x = IF ContainsVla(n) THEN Save(v) ELSE <<>>
    BY <1>5, <1>6, <1>a, Zenon DEF SaveIn
  <2>2. vregs' = vregs + t
    BY <1>1, <1>3, <1>5, <1>8 DEF LowerSwitch
  <2>3. Emit(blk)
    BY <1>1, <1>3, <1>6, <1>10, <1>a, <2>1, Zenon DEF LowerSwitch
  <2> QED BY <1>1, <2>2, <2>3 DEF LowerSwitch, Emit, Emits, resolving, running
<1>13. current' = LifetimeAt(n + 1)
  BY <1>1, <1>2, <1>12, LifetimeOn, LoweringAt
<1>14. Enters(n + 1)
  BY <1>1, <1>2, <1>4, <1>12, <1>13, EntersOpened
<1>15. w = IF blk.exit = <<>> THEN NONE ELSE blk.exit[1].vreg
  <2>1. w = NONE => blk.exit = <<>>
    BY <1>11 DEF Restore
  <2>2. w # NONE => blk.exit # <<>> /\ blk.exit[1].vreg = w
    BY <1>11 DEF Restore
  <2> QED BY <2>1, <2>2
<1>16. emitted'[n] = blk
  BY <1>1, <1>2, <1>11, <1>12, EmittedLast
<1>17. Lowered(n)'
  <2>1. Whole(n)' = w
    BY <1>15, <1>16 DEF Whole
  <2>2. code'[n].op = "switch" /\ ContainsVla(n)' = ContainsVla(n)
    BY <1>2, <1>12, StaticKept
  <2>3. SaveIn(Whole(n))' = SaveIn(w) /\ Restore(Whole(n))' = Restore(w)
    BY <2>1, Zenon DEF SaveIn, Restore, Save
  <2> QED BY <1>7, <1>11, <1>16, <2>1, <2>2, <2>3 DEF Lowered
<1> QED BY <1>1, <1>2, <1>9, <1>11, <1>12, <1>14, <1>15, <1>17, PlainStep

LEMMA LowerLeaveStep ==
  ASSUME TypeOK, Resolved, Untouched, Agrees, LowerLeave
  PROVE  TypeOK' /\ Resolved' /\ Untouched' /\ Agrees'
<1>1. PICK n : n = at
  OBVIOUS
<1>2. /\ phase = "lower" /\ n \in DOMAIN code /\ at \in DOMAIN code
      /\ code[n].op \in {"break", "continue"}
  BY <1>1 DEF LowerLeave, Lower
<1>3. PICK o : o = code[n].to
  OBVIOUS
<1>4. o \in Around(n)
  BY <1>2, <1>3 DEF Resolved, Fits
<1>5. /\ Done = n /\ n \in Nat /\ emitted \in Seq(Block) /\ Len(emitted) = n - 1 /\ Distinct
      /\ DOMAIN emitted = 1 .. n - 1
  BY <1>1, <1>2, LoweringAt DEF Agrees
<1>6. o \in DOMAIN emitted
  <2>1. PICK m : m = Len(code)
    OBVIOUS
  <2>2. m \in Nat /\ DOMAIN code = 1 .. m
    BY <2>1, CodeFacts
  <2>3. o \in DOMAIN code /\ o < n
    BY <1>4 DEF Around
  <2> QED BY <1>5, <2>2, <2>3
<1>7. PICK r : r = Restore(Body(o))
  OBVIOUS
<1>8. RestoreBody(o) = r
  BY <1>7 DEF RestoreBody, Body, Restore
<1>9. r \in Seq(Instruction)
  <2>1. Body(o) = NONE \/ Body(o) \in 1 .. vregs
    BY <1>5, <1>6 DEF Distinct
  <2>2. 1 .. vregs \subseteq Vreg
    BY BoundAssumption DEF TypeOK, Vreg
  <2> QED BY <1>7, <2>1, <2>2, InstructionFacts
<1>10. PICK blk : blk = [enter |-> r, body |-> <<>>, exit |-> <<>>]
  OBVIOUS
<1>11. /\ blk \in Block /\ blk.enter = r /\ blk.body = <<>> /\ blk.exit = <<>>
       /\ blk = [Nothing EXCEPT !.enter = r]
  BY <1>9, <1>10, NothingFacts, InstructionFacts
<1>12. /\ Emits(n, blk, 0) /\ lifetimes' = lifetimes /\ current' = current
       /\ entry' = entry /\ emitted' = Append(emitted, blk) /\ code' = code
  <2>1. vregs \in Nat /\ vregs' = vregs
    BY BoundAssumption DEF TypeOK, LowerLeave
  <2>2. Emit(blk)
    BY <1>1, <1>3, <1>8, <1>11, Zenon DEF LowerLeave
  <2> QED BY <1>1, <2>1, <2>2 DEF LowerLeave, Emit, Emits, resolving, running
<1>13. current' = LifetimeAt(n + 1)
  BY <1>1, <1>2, <1>12, LifetimeOn, LoweringAt
<1>14. code[n].op \notin Openers \cup {"end"}
  BY <1>2 DEF Openers
<1>15. Enters(n + 1)
  BY <1>1, <1>2, <1>12, <1>13, <1>14, EntersOn
<1>16. emitted'[n] = blk
  BY <1>1, <1>2, <1>11, <1>12, EmittedLast
<1>17. Lowered(n)'
  <2>1. code'[n].op \in {"break", "continue"} /\ code'[n].to = o
    BY <1>2, <1>3, <1>12
  <2>2. emitted'[o] = emitted[o]
    BY <1>5, <1>6, <1>11, <1>12, AppendFacts
  <2>3. Body(o)' = Body(o)
    BY <2>2, Zenon DEF Body
  <2>4. Restore(Body(o))' = r
    BY <1>7, <2>3, Zenon DEF Restore
  <2>5. Restore(Body(code[n].to))' = r
    BY <2>1, <2>4, Zenon DEF Restore, Body
  <2> QED BY <1>11, <1>16, <2>1, <2>5 DEF Lowered
<1>18. 0 <= Takes(n) /\ 0 \in Nat
  BY DEF Takes
<1>19. PICK w : w = NONE
  OBVIOUS
<1>20. w = IF blk.exit = <<>> THEN NONE ELSE blk.exit[1].vreg
  BY <1>11, <1>19
<1> QED BY <1>1, <1>2, <1>11, <1>12, <1>15, <1>17, <1>18, <1>19, <1>20, PlainStep

(* What leads to a place whose scope lies within the one that is current.   *)
LEMMA RestoreToIs ==
  ASSUME TypeOK, Resolved, Agrees, phase = "lower", NEW n \in DOMAIN code, n = at,
         NEW m \in DOMAIN vm_scope, Scope(m) \subseteq Scope(n),
         lifetimes' = lifetimes, code' = code, vm_scope' = vm_scope,
         NEW e, e = RestoreTo(LifetimeAt(m))
  PROVE  Releasing(n, m, e)' /\ e \in Seq(Instruction)
<1>1. current = LifetimeAt(n)
  BY LoweringAt
<1>2. ~RestoreFails(LifetimeAt(m))
  BY LandsRestorable
<1>3. PICK k : k = LifetimeAt(m)
  OBVIOUS
<1>4. PICK c : c = Canonical(k)
  OBVIOUS
<1>5. e = RestoreTo(k)
  BY <1>3
<1>6. IF Canonical(LifetimeAt(n)) = c THEN e = <<>>
      ELSE Checkpoint(c) # NONE /\ e = Restore(Checkpoint(c))
  BY <1>1, <1>2, <1>3, <1>4, <1>5, Zenon DEF RestoreTo, RestoreFails, Canonical, Checkpoint
<1>7. e \in Seq(Instruction)
  <2>1. c \in Lifetime
    <3>1. k = 0 \/ k \in DOMAIN code
      BY <1>3, ScopeBelow
    <3> QED BY <1>4, <3>1, LifetimeRange
  <2> QED BY <1>6, <2>1, LifetimeRange, InstructionFacts
<1>8. LifetimeAt(n)' = LifetimeAt(n) /\ LifetimeAt(m)' = LifetimeAt(m)
  BY StaticKept
<1>9. /\ Canonical(LifetimeAt(n))' = Canonical(LifetimeAt(n)) /\ Canonical(LifetimeAt(m))' = c
      /\ Checkpoint(c)' = Checkpoint(c)
  BY <1>3, <1>4, <1>8, Zenon DEF Canonical, Checkpoint
<1>10. Checkpoint(Canonical(LifetimeAt(m)))' = Checkpoint(c)
  BY <1>9, Zenon DEF Checkpoint
<1>11. Restore(Checkpoint(Canonical(LifetimeAt(m))))' = Restore(Checkpoint(c))
  BY <1>10, Zenon DEF Restore
<1>12. Releasing(n, m, e)'
  BY <1>6, <1>9, <1>10, <1>11, Zenon DEF Releasing
<1> QED BY <1>7, <1>12

LEMMA LowerGotoStep ==
  ASSUME TypeOK, Resolved, Untouched, Agrees, LowerGoto
  PROVE  TypeOK' /\ Resolved' /\ Untouched' /\ Agrees'
<1>1. PICK n : n = at
  OBVIOUS
<1>2. phase = "lower" /\ n \in DOMAIN code /\ at \in DOMAIN code /\ code[n].op = "goto"
  BY <1>1 DEF LowerGoto, Lower
<1>3. PICK to : to = code[n].to
  OBVIOUS
<1>4. to \in DOMAIN vm_scope /\ Scope(to) \subseteq Scope(n)
  BY <1>2, <1>3, GotoScope
<1>5. PICK e : e = RestoreTo(LifetimeAt(to))
  OBVIOUS
<1>6. lifetimes' = lifetimes /\ code' = code /\ vm_scope' = vm_scope
  BY DEF LowerGoto, Emit, resolving
<1>7. Releasing(n, to, e)' /\ e \in Seq(Instruction)
  BY <1>1, <1>2, <1>4, <1>5, <1>6, RestoreToIs
<1>8. PICK blk : blk = [enter |-> e, body |-> <<>>, exit |-> <<>>]
  OBVIOUS
<1>9. /\ blk \in Block /\ blk.enter = e /\ blk.body = <<>> /\ blk.exit = <<>>
      /\ blk = [Nothing EXCEPT !.enter = e]
  BY <1>7, <1>8, NothingFacts, InstructionFacts
<1>10. /\ Emits(n, blk, 0) /\ current' = current
       /\ entry' = entry /\ emitted' = Append(emitted, blk)
  <2>1. vregs \in Nat /\ vregs' = vregs
    BY BoundAssumption DEF TypeOK, LowerGoto
  <2>2. Emit(blk)
    BY <1>1, <1>3, <1>5, <1>9, Zenon DEF LowerGoto
  <2> QED BY <1>1, <2>1, <2>2 DEF LowerGoto, Emit, Emits, resolving, running
<1>11. current' = LifetimeAt(n + 1)
  BY <1>1, <1>2, <1>10, LifetimeOn, LoweringAt
<1>12. code[n].op \notin Openers \cup {"end"}
  BY <1>2 DEF Openers
<1>13. Enters(n + 1)
  BY <1>1, <1>2, <1>10, <1>11, <1>12, EntersOn
<1>14. emitted'[n] = blk
  BY <1>1, <1>2, <1>9, <1>10, EmittedLast
<1>15. Lowered(n)'
  <2>1. code'[n].op = "goto" /\ code'[n].to = to
    BY <1>2, <1>3, <1>6
  <2>2. emitted'[n].enter = e
    BY <1>9, <1>14
  <2>3. Releasing(n, code[n].to, emitted[n].enter)'
    BY <1>7, <2>1, <2>2, Zenon DEF Releasing, Restore, Checkpoint, Canonical, LifetimeAt
  <2> QED BY <1>9, <1>14, <2>1, <2>3 DEF Lowered
<1>16. 0 <= Takes(n) /\ 0 \in Nat
  BY DEF Takes
<1>17. PICK w : w = NONE
  OBVIOUS
<1>18. w = IF blk.exit = <<>> THEN NONE ELSE blk.exit[1].vreg
  BY <1>9, <1>17
<1> QED BY <1>1, <1>2, <1>6, <1>9, <1>10, <1>13, <1>15, <1>16, <1>17, <1>18, PlainStep

LEMMA LowerEndStep ==
  ASSUME TypeOK, Resolved, Untouched, Agrees, LowerEnd
  PROVE  TypeOK' /\ Resolved' /\ Untouched' /\ Agrees'
<1>1. PICK n : n = at
  OBVIOUS
<1>2. phase = "lower" /\ n \in DOMAIN code /\ at \in DOMAIN code /\ code[n].op = "end"
  BY <1>1 DEF LowerEnd, Lower
<1>3. PICK o : o = code[n].to
  OBVIOUS
<1>4. /\ o \in DOMAIN code /\ o < n /\ o + 1 \in DOMAIN vm_scope /\ Scope(o + 1) \subseteq Scope(n)
      /\ LifetimeAt(n + 1) = LifetimeAt(o)
  BY <1>2, <1>3, EndScope
<1>5. EntryOf(o) = LifetimeAt(o + 1)
  BY <1>1, <1>2, <1>3, EntryOfIs
<1>6. PICK r : r = RestoreTo(LifetimeAt(o + 1))
  OBVIOUS
<1>7. lifetimes' = lifetimes /\ code' = code /\ vm_scope' = vm_scope
  BY DEF LowerEnd, Emit, resolving
<1>8. Releasing(n, o + 1, r)' /\ r \in Seq(Instruction)
  BY <1>1, <1>2, <1>4, <1>6, <1>7, RestoreToIs
<1>9. /\ Done = n /\ n \in Nat /\ emitted \in Seq(Block) /\ Len(emitted) = n - 1 /\ Distinct
      /\ DOMAIN emitted = 1 .. n - 1
  BY <1>1, <1>2, LoweringAt DEF Agrees
<1>10. o \in DOMAIN emitted
  <2>1. PICK m : m = Len(code)
    OBVIOUS
  <2>2. m \in Nat /\ DOMAIN code = 1 .. m
    BY <2>1, CodeFacts
  <2> QED BY <1>4, <1>9, <2>2
<1>11. PICK s : s = Restore(Body(o))
  OBVIOUS
<1>12. RestoreBody(o) = s
  BY <1>11 DEF RestoreBody, Body, Restore
<1>13. s \in Seq(Instruction)
  <2>1. Body(o) = NONE \/ Body(o) \in 1 .. vregs
    BY <1>9, <1>10 DEF Distinct
  <2>2. 1 .. vregs \subseteq Vreg
    BY BoundAssumption DEF TypeOK, Vreg
  <2> QED BY <1>11, <2>1, <2>2, InstructionFacts
<1>14. PICK e : e = IF code[o].op = "loop" THEN r \o s ELSE r
  OBVIOUS
<1>15. e \in Seq(Instruction)
  BY <1>8, <1>13, <1>14, SeqFacts
<1>16. PICK blk : blk = [enter |-> e, body |-> <<>>, exit |-> <<>>]
  OBVIOUS
<1>17. /\ blk \in Block /\ blk.enter = e /\ blk.body = <<>> /\ blk.exit = <<>>
       /\ blk = [Nothing EXCEPT !.enter = e]
  BY <1>15, <1>16, NothingFacts, InstructionFacts
<1>18. /\ Emits(n, blk, 0) /\ current' = Last(entry)
       /\ entry' = Front(entry) /\ emitted' = Append(emitted, blk)
  <2>1. vregs \in Nat /\ vregs' = vregs
    BY BoundAssumption DEF TypeOK, LowerEnd
  <2>2. r \o <<>> = r
    BY <1>8
  <2>3. e = RestoreTo(EntryOf(o)) \o (IF code[o].op = "loop" THEN RestoreBody(o) ELSE <<>>)
    BY <1>5, <1>6, <1>12, <1>14, <2>2, Zenon
  <2>4. Emit(blk)
    BY <1>1, <1>3, <1>17, <2>3, Zenon DEF LowerEnd
  <2>5. current' = Last(entry) /\ entry' = Front(entry) /\ vregs' = vregs
    BY DEF LowerEnd
  <2> QED BY <1>1, <2>1, <2>4, <2>5 DEF Emit, Emits, resolving, running
<1>19. Enters(n + 1)
  <2>1. /\ entry # <<>> /\ Last(entry) = LifetimeAt(o)
        /\ \E b \in Seq(DOMAIN code) :
             /\ Ascending(b, Around(n + 1)) /\ Len(Front(entry)) = Len(b)
             /\ \A k \in DOMAIN b : Front(entry)[k] = LifetimeAt(b[k])
    BY <1>1, <1>2, <1>3, EntryAtEnd
  <2>2. Front(entry) \in Seq(Lifetime)
    BY <2>1, FrontFacts DEF TypeOK
  <2>3. current' = LifetimeAt(n + 1) /\ entry' = Front(entry)
    BY <1>4, <1>18, <2>1
  <2> QED BY <2>1, <2>2, <2>3, Zenon DEF Enters
<1>20. emitted'[n] = blk
  BY <1>1, <1>2, <1>17, <1>18, EmittedLast
<1>21. Lowered(n)'
  <2>1. code'[n].op = "end" /\ code'[n].to = o /\ code'[o] = code[o]
    BY <1>2, <1>3, <1>7
  <2>2. emitted'[o] = emitted[o]
    BY <1>9, <1>10, <1>17, <1>18, AppendFacts
  <2>3. Body(o)' = Body(o)
    BY <2>2, Zenon DEF Body
  <2>4. Restore(Body(o))' = s
    BY <1>11, <2>3, Zenon DEF Restore
  <2>5. Restore(Body(code[n].to))' = s
    BY <2>1, <2>4, Zenon DEF Restore, Body
  <2>6. emitted'[n].enter = e /\ emitted'[n].body = <<>> /\ emitted'[n].exit = <<>>
    BY <1>17, <1>20
  <2>7. Releasing(n, code[n].to + 1, r)'
    BY <1>8, <2>1, Zenon DEF Releasing, Restore, Checkpoint, Canonical, LifetimeAt
  <2>8. (\E x : /\ Releasing(n, code[n].to + 1, x)
                /\ emitted[n].enter = IF code[code[n].to].op = "loop"
                                        THEN x \o Restore(Body(code[n].to)) ELSE x)'
    BY <1>14, <2>1, <2>5, <2>6, <2>7, Zenon
  <2> QED BY <2>1, <2>6, <2>8 DEF Lowered
<1>22. 0 <= Takes(n) /\ 0 \in Nat
  BY DEF Takes
<1>23. PICK w : w = NONE
  OBVIOUS
<1>24. w = IF blk.exit = <<>> THEN NONE ELSE blk.exit[1].vreg
  BY <1>17, <1>23
<1> QED BY <1>1, <1>2, <1>7, <1>17, <1>18, <1>19, <1>21, <1>22, <1>23, <1>24, PlainStep

LEMMA LowerLoopStep ==
  ASSUME TypeOK, Resolved, Untouched, Agrees, LowerLoop
  PROVE  TypeOK' /\ Resolved' /\ Untouched' /\ Agrees'
<1>1. PICK n : n = at
  OBVIOUS
<1>2. phase = "lower" /\ n \in DOMAIN code /\ at \in DOMAIN code /\ code[n].op = "loop"
  BY <1>1 DEF LowerLoop, Lower
<1>3. PICK v : v = vregs + (IF IsVla(n) THEN 2 ELSE 1)
  OBVIOUS
<1>4. PICK d : d = Declaration(at, v)
  OBVIOUS
<1>5. vregs \in Nat /\ v \in Nat /\ v > vregs
  BY <1>3, BoundAssumption DEF TypeOK
<1>6. Grown(d, v) /\ d.taken \in 0 .. 2 /\ (~IsVla(n) => d.taken = 0)
  <2>1. Grown(d, v)
    BY <1>2, <1>4, <1>5, DeclarationIs
  <2> QED BY <1>1, <2>1 DEF Grown
<1>7. PICK k : k = d.taken + (IF IsVla(n) THEN 1 ELSE 0)
  OBVIOUS
<1>8. PICK t : t = k + (IF ContainsVla(n) THEN 1 ELSE 0)
  OBVIOUS
<1>9. PICK w : w = IF IsVla(n) THEN vregs + 1 ELSE NONE
  OBVIOUS
<1>10. PICK b : b = IF ContainsVla(n) THEN vregs + k + 1 ELSE NONE
  OBVIOUS
<1>11. /\ code[n].op \in Openers /\ Takes(n) \in Nat /\ Takes(n) >= 2
       /\ IsVla(n) => Takes(n) = 4
  <2>1. code[n].op \in Openers
    BY <1>2 DEF Openers
  <2>2. IsVla(n) => Declares(n)
    BY DEF IsVla, Declares
  <2> QED BY <2>1, <2>2 DEF Takes
<1>12. k \in Nat /\ t \in Nat /\ t <= Takes(n) /\ v + d.taken <= vregs + t + 1
  <2>1. CASE IsVla(n)
    BY <1>3, <1>5, <1>6, <1>7, <1>8, <1>11, <2>1
  <2>2. CASE ~IsVla(n)
    <3>1. v = vregs + 1 /\ d.taken = 0 /\ k = 0
      BY <1>3, <1>6, <1>7, <2>2
    <3>2. t = 0 \/ t = 1
      BY <1>8, <3>1
    <3> QED BY <1>5, <1>11, <3>1, <3>2
  <2> QED BY <2>1, <2>2
<1>13. vregs + t <= 2 * (MaxDeclarations + MaxBlocks)
  <2>1. /\ vregs \in Nat /\ Takes(at) \in Nat
        /\ vregs + Takes(at) <= 2 * (DeclaredTo(at + 1) + OpenedTo(at + 1))
        /\ 2 * (DeclaredTo(at + 1) + OpenedTo(at + 1)) <= 2 * (MaxDeclarations + MaxBlocks)
    BY <1>2, RoomLeft
  <2>2. /\ DeclaredTo(at) \in Nat /\ OpenedTo(at) \in Nat
        /\ DeclaredTo(at + 1) = IF Declares(at) THEN DeclaredTo(at) + 1 ELSE DeclaredTo(at)
        /\ OpenedTo(at + 1) = IF code[at].op \in Openers THEN OpenedTo(at) + 1 ELSE OpenedTo(at)
    BY <1>2, CountedTo
  <2>3. DeclaredTo(at + 1) \in Nat /\ OpenedTo(at + 1) \in Nat
    BY <2>2
  <2> QED BY <1>1, <1>12, <2>1, <2>3, BoundAssumption
<1>14. /\ w # NONE => w \in vregs + 1 .. vregs + t /\ w < v /\ w # b
       /\ b # NONE => b \in vregs + 1 .. vregs + t /\ b >= v + d.taken
       /\ (w # NONE <=> IsVla(n)) /\ (b # NONE <=> ContainsVla(n))
  <2>1. CASE IsVla(n)
    <3>1. w = vregs + 1 /\ w # NONE /\ v = vregs + 2 /\ k = d.taken + 1
      BY <1>3, <1>5, <1>7, <1>9, <2>1 DEF NONE
    <3>2. CASE ContainsVla(n)
      <4>1. b = vregs + k + 1 /\ b # NONE /\ t = k + 1
        BY <1>5, <1>8, <1>10, <1>12, <3>2 DEF NONE
      <4> QED BY <1>5, <1>6, <1>12, <2>1, <3>1, <3>2, <4>1
    <3>3. CASE ~ContainsVla(n)
      <4>1. b = NONE /\ t = k
        BY <1>8, <1>10, <1>12, <3>3
      <4> QED BY <1>5, <1>6, <1>12, <2>1, <3>1, <3>3, <4>1
    <3> QED BY <3>2, <3>3
  <2>2. CASE ~IsVla(n)
    <3>1. w = NONE /\ v = vregs + 1 /\ k = 0 /\ d.taken = 0
      BY <1>3, <1>6, <1>7, <1>9, <2>2
    <3>2. CASE ContainsVla(n)
      <4>1. b = vregs + k + 1 /\ b # NONE /\ t = k + 1
        BY <1>5, <1>8, <1>10, <1>12, <3>2 DEF NONE
      <4> QED BY <1>5, <1>12, <2>2, <3>1, <3>2, <4>1
    <3>3. CASE ~ContainsVla(n)
      BY <1>10, <2>2, <3>1, <3>3
    <3> QED BY <3>2, <3>3
  <2> QED BY <2>1, <2>2
<1>15. w \in Vreg \cup {NONE} /\ b \in Vreg \cup {NONE}
  <2>1. vregs + 1 .. vregs + t \subseteq Vreg
    BY <1>5, <1>12, <1>13, BoundAssumption DEF Vreg
  <2> QED BY <1>14, <2>1
<1>16. PICK e, x, y : e = SaveIn(w) \o d.emit /\ x = SaveIn(b) /\ y = Restore(w)
  OBVIOUS
<1>17. PICK blk : blk = [enter |-> e, body |-> x, exit |-> y]
  OBVIOUS
<1>18. /\ Emits(n, blk, t) /\ lifetimes' = d.lifetimes /\ emitted' = Append(emitted, blk)
       /\ entry' = Append(entry, current) /\ code' = code /\ vm_scope' = vm_scope
       /\ current' = IF code[n].decl = "none" THEN current ELSE n
  <2>1. (IF IsVla(n) THEN Save(w) ELSE <<>>) = SaveIn(w)
        /\ (IF ContainsVla(n) THEN Save(b) ELSE <<>>) = SaveIn(b)
    BY <1>14, Zenon DEF SaveIn
  <2>2. Emit(blk)
    BY <1>1, <1>3, <1>4, <1>7, <1>9, <1>10, <1>16, <1>17, <2>1, Zenon DEF LowerLoop
  <2>3. vregs' = vregs + k + (IF ContainsVla(n) THEN 1 ELSE 0)
    BY <1>1, <1>3, <1>4, <1>7, Zenon DEF LowerLoop
  <2>4. vregs' = vregs + t
    BY <1>5, <1>8, <1>12, <2>3
  <2>5. lifetimes' = d.lifetimes
    BY <1>1, <1>3, <1>4, Zenon DEF LowerLoop
  <2>6. entry' = Append(entry, current) /\ current' = IF code[n].decl = "none" THEN current ELSE n
    BY <1>1, Zenon DEF LowerLoop
  <2> QED BY <1>1, <2>2, <2>4, <2>5, <2>6 DEF Emit, Emits, resolving, running
<1>19. /\ Grows(n, t) /\ Declaring(n, d.emit)' /\ d.emit \in Seq(Instruction)
       /\ \A i \in vregs + 1 .. vregs + t :
            i < v \/ i >= v + d.taken => i # Checkpoint(0)' /\ i # Checkpoint(n)'
  BY <1>1, <1>2, <1>5, <1>6, <1>12, <1>18, GrownGrows
<1>20. blk \in Block /\ blk.enter = e /\ blk.body = x /\ blk.exit = y
  <2>1. /\ SaveIn(w) \in Seq(Instruction) /\ x \in Seq(Instruction) /\ y \in Seq(Instruction)
    BY <1>15, <1>16, InstructionFacts
  <2>2. e \in Seq(Instruction)
    BY <1>16, <1>19, <2>1, SeqFacts, Zenon
  <2> QED BY <1>17, <2>1, <2>2, NothingFacts
<1>21. Enters(n + 1)
  <2>1. code[n].op # "end"
    BY <1>2
  <2>2. LifetimeAt(n + 1) = IF Declares(n) THEN n ELSE LifetimeAt(n)
    BY <1>2, <2>1, ScopeNext
  <2>3. current = LifetimeAt(n)
    BY <1>1, <1>2, LoweringAt
  <2>4. current' = LifetimeAt(n + 1)
    BY <1>18, <2>2, <2>3 DEF Declares
  <2> QED BY <1>1, <1>2, <1>11, <1>18, <2>4, EntersOpened
<1>22. emitted'[n] = blk
  BY <1>1, <1>2, <1>18, <1>20, EmittedLast
<1>23. /\ w = IF blk.exit = <<>> THEN NONE ELSE blk.exit[1].vreg
       /\ b = IF blk.body = <<>> THEN NONE ELSE blk.body[1].vreg
  <2>1. (w = NONE => y = <<>>) /\ (b = NONE => x = <<>>)
    BY <1>16 DEF Restore, SaveIn
  <2>2. w # NONE => y # <<>> /\ y[1].vreg = w
    BY <1>16 DEF Restore
  <2>3. b # NONE => x # <<>> /\ x[1].vreg = b
    BY <1>16 DEF SaveIn, Save
  <2> QED BY <1>20, <2>1, <2>2, <2>3
<1>24. Lowered(n)'
  <2>1. Whole(n)' = w /\ Body(n)' = b
    BY <1>22, <1>23 DEF Whole, Body
  <2>2. code'[n].op = "loop" /\ ContainsVla(n)' = ContainsVla(n) /\ IsVla(n)' = IsVla(n)
    BY <1>2, <1>18, StaticKept
  <2>3. /\ SaveIn(Whole(n))' = SaveIn(w) /\ Restore(Whole(n))' = Restore(w)
        /\ SaveIn(Body(n))' = SaveIn(b)
    BY <2>1, Zenon DEF SaveIn, Restore, Save
  <2>4. PICK z : z = d.emit
    OBVIOUS
  <2>5. Declaring(n, z)' /\ e = SaveIn(w) \o z
    BY <1>16, <1>19, <2>4, Zenon
  <2>6. emitted'[n].enter = e /\ emitted'[n].exit = y /\ emitted'[n].body = x
    BY <1>20, <1>22
  <2>7. (\E i : Declaring(n, i) /\ emitted[n].enter = SaveIn(Whole(n)) \o i)'
    BY <2>3, <2>5, <2>6, Zenon
  <2>8. /\ emitted'[n].exit = Restore(Whole(n))' /\ emitted'[n].body = SaveIn(Body(n))'
        /\ (Whole(n)' # NONE <=> IsVla(n)') /\ (Body(n)' # NONE <=> ContainsVla(n)')
    BY <1>14, <1>16, <2>1, <2>2, <2>3, <2>6, Zenon
  <2> QED BY <2>2, <2>7, <2>8 DEF Lowered
<1>25. /\ w # NONE => w # Checkpoint(0)' /\ w # Checkpoint(n)'
       /\ b # NONE => b # Checkpoint(0)' /\ b # Checkpoint(n)'
  BY <1>14, <1>19
<1> QED BY <1>1, <1>2, <1>12, <1>14, <1>18, <1>19, <1>20, <1>21, <1>23, <1>24, <1>25, LowerKeeps

(* The resolver hands on what it has read, and the lowering begins.         *)
LEMMA ResolveStep ==
  ASSUME TypeOK, Resolved, Untouched, phase = "parse", Resolve
  PROVE  TypeOK' /\ Resolved' /\ (phase' = "lower" => Untouched' /\ Agrees')
<1>1. PICK m : m = Len(code)
  OBVIOUS
<1>2. /\ m \in Nat /\ DOMAIN code = 1 .. m /\ DOMAIN vm_scope = 1 .. m + 1 /\ Length \in Nat
  BY <1>1, CodeFacts
<1>3. /\ UNCHANGED <<code, vm_scope, open, testing, lifetimes, current, entry, vregs, emitted,
                     stack, saved, live, unsaved>>
      /\ at' = 1 /\ open = <<>> /\ phase' \in {"lower", "rejected"}
      /\ phase' = "lower" => GotosAreValid
  BY DEF Resolve, resolving, lowering, running
<1>4. TypeOK'
  BY <1>2, <1>3 DEF TypeOK
<1>5. Resolved'
  <2>1. PICK p : p = phase
    OBVIOUS
  <2>2. /\ vm_scope \in Seq(Seq(Nat)) /\ vm_scope[1] = <<>> /\ (\A n \in DOMAIN code : Fits(n))
        /\ Ascending(open, Around(Len(code) + 1)) /\ Chained /\ Nests /\ Bounded
    BY DEF Resolved
  <2>3. GotosAreValid' = GotosAreValid
    BY <1>3, Zenon DEF GotosAreValid
  <2>4. /\ (\A n \in DOMAIN code : Fits(n))' /\ Ascending(open, Around(Len(code) + 1))'
        /\ Chained' /\ Nests' /\ Bounded'
    <3>1. (\A n : Around(n)' = Around(n) /\ Declares(n)' = Declares(n) /\ Scope(n)' = Scope(n))
      BY <1>3, StaticKept
    <3>2. Chained'
      BY <1>3, <2>2, Zenon DEF Chained, Declares
    <3>3. Nests'
      BY <1>3, <2>2, <3>1, Zenon DEF Nests, Scope
    <3>4. \A n \in DOMAIN code' : Fits(n)'
      BY <1>3, <2>2, <3>1, Zenon DEF Fits, Position
    <3>5. Bounded'
      BY <1>3, <2>2, Zenon DEF Bounded, Declarations, Count, Declares, Openers
    <3>6. Around(Len(code) + 1)' = Around(Len(code) + 1)
      BY <1>3, Zenon DEF Around
    <3>7. PICK S : S = Around(Len(code) + 1)
      OBVIOUS
    <3>8. Ascending(open, S)'
      BY <1>3, <2>2, <3>7, Zenon DEF Ascending, Range
    <3> QED BY <3>2, <3>3, <3>4, <3>5, <3>6, <3>7, <3>8, Zenon DEF Ascending
  <2> QED BY <1>3, <2>2, <2>3, <2>4, Zenon DEF Resolved
<1>6. ASSUME phase' = "lower"
      PROVE  Untouched' /\ Agrees'
  <2>1. Done' = 1
    BY <1>3, <1>6 DEF Done
  <2>2. /\ lifetimes' = [l \in Lifetime |-> [canonical |-> 0, checkpoint |-> NONE]]
        /\ current' = 0 /\ entry' = <<>> /\ vregs' = 0 /\ emitted' = <<>>
        /\ stack' = <<>> /\ saved' = <<>> /\ live' = <<>> /\ unsaved' = NONE /\ testing' = FALSE
    BY <1>3 DEF Untouched
  <2>3. Untouched'
    BY <1>6, <2>2 DEF Untouched
  <2>4. \A l \in Lifetime : Canonical(l)' = 0 /\ Checkpoint(l)' = NONE
    BY <2>2 DEF Canonical, Checkpoint
  <2>5. DOMAIN code \subseteq Lifetime /\ 0 \in Lifetime
    BY LifetimeRange
  <2>6. Recorded'
    <3>1. \A l \in DOMAIN code' : ~(l < Done')
      BY <1>2, <1>3, <2>1
    <3> QED BY <1>3, <2>4, <2>5, <3>1, Zenon DEF Recorded
  <2>7. DOMAIN emitted' = {} /\ emitted' \in Seq(Block) /\ Len(emitted') = Done' - 1
    BY <2>1, <2>2
  <2>8. Distinct'
    BY <2>4, <2>7, Zenon DEF Distinct
  <2>9. vregs' <= 2 * (DeclaredTo(Done) + OpenedTo(Done))'
    <3>1. \A k : k \in DOMAIN code => ~(k < 1)
      BY <1>2
    <3>2. DeclaredTo(Done)' = Cardinality({}) /\ OpenedTo(Done)' = Cardinality({})
      <4>1. {k \in DOMAIN code' : k < Done' /\ Declares(k)'} = {}
        BY <1>3, <2>1, <3>1
      <4>2. {k \in DOMAIN code' : k < Done' /\ code'[k].op \in Openers} = {}
        BY <1>3, <2>1, <3>1
      <4> QED BY <4>1, <4>2 DEF DeclaredTo, OpenedTo
    <3> QED BY <2>2, <3>2, FS_EmptySet
  <2>10. at' \in DOMAIN vm_scope' /\ current' = LifetimeAt(at)'
    <3>1. vm_scope'[1] = <<>>
      BY <1>3 DEF Resolved
    <3> QED BY <1>2, <1>3, <2>2, <3>1 DEF LifetimeAt
  <2>11. \E b \in Seq(DOMAIN code') :
           /\ Ascending(b, Around(at))' /\ Len(entry') = Len(b)
           /\ \A k \in DOMAIN b : entry'[k] = LifetimeAt(b[k])'
    <3>1. PICK b : b = <<>>
      OBVIOUS
    <3>2. b \in Seq(DOMAIN code') /\ Len(entry') = Len(b) /\ DOMAIN b = {}
      BY <2>2, <3>1
    <3>3. Around(at)' = {}
      <4>1. \A k \in DOMAIN code' : ~(k < at')
        BY <1>2, <1>3
      <4> QED BY <4>1, Zenon DEF Around
    <3>4. Ascending(b, Around(at))'
      BY <3>2, <3>3 DEF Ascending, Range
    <3> QED BY <3>2, <3>4, Zenon
  <2>12. \A n \in DOMAIN emitted' : Lowered(n)'
    BY <2>7
  <2> QED BY <2>3, <2>6, <2>7, <2>8, <2>9, <2>10, <2>11, <2>12, Zenon DEF Agrees
<1> QED BY <1>4, <1>5, <1>6

(* What the lowering has left is not touched by the run.                   *)
LEMMA AgreesKept ==
  ASSUME TypeOK, Resolved, Agrees, code' = code, vm_scope' = vm_scope, lifetimes' = lifetimes,
         vregs' = vregs, emitted' = emitted, Done' = Done,
         phase' = "run" \/ UNCHANGED <<phase, at, current, entry>>
  PROVE  Agrees'
<1>1. /\ \A n : /\ IsVla(n)' = IsVla(n) /\ Declares(n)' = Declares(n)
                /\ LifetimeAt(n)' = LifetimeAt(n) /\ ContainsVla(n)' = ContainsVla(n)
      /\ \A l : Canonical(l)' = Canonical(l) /\ Checkpoint(l)' = Checkpoint(l)
      /\ \A o : Whole(o)' = Whole(o) /\ Body(o)' = Body(o)
  <2>1. \A n : /\ IsVla(n)' = IsVla(n) /\ Declares(n)' = Declares(n)
               /\ LifetimeAt(n)' = LifetimeAt(n) /\ ContainsVla(n)' = ContainsVla(n)
    BY StaticKept
  <2> QED BY <2>1, Zenon DEF Canonical, Checkpoint, Whole, Body
<1>2. Recorded'
  <2>1. Recorded
    BY DEF Agrees
  <2>2. \A l : Canonical(LifetimeAt(l))' = Canonical(LifetimeAt(l))
    BY <1>1, Zenon DEF Canonical
  <2> HIDE DEF Done
  <2> QED BY <1>1, <2>1, <2>2, Zenon DEF Recorded
<1>3. Distinct'
  BY <1>1, Zenon DEF Agrees, Distinct
<1>4. \A n \in DOMAIN emitted' : Lowered(n)'
  <2> SUFFICES ASSUME NEW n \in DOMAIN emitted
               PROVE  Lowered(n)'
    OBVIOUS
  <2>1. Lowered(n)
    BY DEF Agrees
  <2>2. \A e : Declaring(n, e)' = Declaring(n, e)
    <3>1. /\ Save(Checkpoint(n))' = Save(Checkpoint(n)) /\ Save(Checkpoint(0))' = Save(Checkpoint(0))
          /\ Canonical(LifetimeAt(n))' = Canonical(LifetimeAt(n)) /\ Alloc' = Alloc
      BY <1>1, Zenon DEF Save, Alloc, Canonical
    <3> QED BY <1>1, <3>1, Zenon DEF Declaring
  <2>3. \A k, e : Releasing(n, k, e)' = Releasing(n, k, e)
    <3> SUFFICES ASSUME NEW k
                 PROVE  \A e : Releasing(n, k, e)' = Releasing(n, k, e)
      OBVIOUS
    <3>1. /\ Canonical(LifetimeAt(n))' = Canonical(LifetimeAt(n))
          /\ Canonical(LifetimeAt(k))' = Canonical(LifetimeAt(k))
      BY <1>1, Zenon DEF Canonical
    <3>2. Checkpoint(Canonical(LifetimeAt(k)))' = Checkpoint(Canonical(LifetimeAt(k)))
      BY <3>1, <1>1, Zenon DEF Checkpoint
    <3>3. Restore(Checkpoint(Canonical(LifetimeAt(k))))' = Restore(Checkpoint(Canonical(LifetimeAt(k))))
      BY <3>2, Zenon DEF Restore
    <3> QED BY <3>1, <3>2, <3>3, Zenon DEF Releasing
  <2>4. /\ SaveIn(Whole(n))' = SaveIn(Whole(n)) /\ Restore(Whole(n))' = Restore(Whole(n))
        /\ SaveIn(Body(n))' = SaveIn(Body(n))
        /\ \A o : Restore(Body(o))' = Restore(Body(o))
    BY <1>1, Zenon DEF SaveIn, Restore, Save
  <2>5. PICK o : o = code[n].to
    OBVIOUS
  <2>6. code'[n].to = o /\ code'[n] = code[n] /\ emitted'[n] = emitted[n] /\ code'[o] = code[o]
    BY <2>5
  <2>7. /\ Restore(Body(code[n].to))' = Restore(Body(o))
        /\ \A e : Releasing(n, code[n].to + 1, e)' = Releasing(n, o + 1, e)
        /\ \A e : Releasing(n, code[n].to, e)' = Releasing(n, o, e)
    <3>1. \A e : Releasing(n, o + 1, e)' = Releasing(n, o + 1, e)
      BY <2>3
    <3> QED BY <2>3, <2>4, <2>6, <3>1, Zenon DEF Restore, Body, Releasing, LifetimeAt, Canonical,
              Checkpoint
  <2>8. /\ code[n].op \notin {"loop"} => emitted[n].body = <<>>
        /\ code[n].op \notin {"loop", "switch"} => emitted[n].exit = <<>>
        /\ code[n].op \in {"decl"} => Declaring(n, emitted[n].enter)
        /\ code[n].op \in {"scope", "case"} => emitted[n].enter = <<>>
        /\ code[n].op = "loop" =>
             /\ \E d : Declaring(n, d) /\ emitted[n].enter = SaveIn(Whole(n)) \o d
             /\ emitted[n].exit = Restore(Whole(n)) /\ (Whole(n) # NONE <=> IsVla(n))
             /\ emitted[n].body = SaveIn(Body(n)) /\ (Body(n) # NONE <=> ContainsVla(n))
        /\ code[n].op = "switch" =>
             /\ emitted[n].enter = SaveIn(Whole(n)) /\ emitted[n].exit = Restore(Whole(n))
             /\ (Whole(n) # NONE <=> ContainsVla(n))
        /\ code[n].op = "end" =>
             \E r : /\ Releasing(n, o + 1, r)
                    /\ emitted[n].enter = IF code[o].op = "loop" THEN r \o Restore(Body(o)) ELSE r
        /\ code[n].op \in {"break", "continue"} => emitted[n].enter = Restore(Body(o))
        /\ code[n].op = "goto" => Releasing(n, o, emitted[n].enter)
    BY <2>1, <2>5, Zenon DEF Lowered
  <2>9. PICK x : x = emitted[n].enter
    OBVIOUS
  <2>10. /\ Declaring(n, emitted[n].enter)' = Declaring(n, x)
         /\ Releasing(n, code[n].to, emitted[n].enter)' = Releasing(n, o, x)
    <3>1. Declaring(n, x)' = Declaring(n, x) /\ Releasing(n, code[n].to, x)' = Releasing(n, o, x)
      BY <2>2, <2>7
    <3>2. emitted'[n].enter = x
      BY <2>6, <2>9
    <3> QED BY <3>1, <3>2, Zenon DEF Declaring, Releasing
  <2> QED BY <1>1, <2>2, <2>4, <2>6, <2>7, <2>8, <2>9, <2>10, Zenon DEF Lowered
<1>5. vregs' <= 2 * (DeclaredTo(Done) + OpenedTo(Done))'
  <2>1. DeclaredTo(Done)' = DeclaredTo(Done) /\ OpenedTo(Done)' = OpenedTo(Done)
    <3> HIDE DEF Done
    <3> QED BY <1>1, Zenon DEF DeclaredTo, OpenedTo
  <2> QED BY <2>1 DEF Agrees
<1>6. emitted' \in Seq(Block) /\ Len(emitted') = Done' - 1
  BY DEF Agrees
<1>7. ASSUME phase' = "lower"
      PROVE  /\ at' \in DOMAIN vm_scope' /\ current' = LifetimeAt(at)'
             /\ \E b \in Seq(DOMAIN code') :
                  /\ Ascending(b, Around(at)') /\ Len(entry') = Len(b)
                  /\ \A k \in DOMAIN b : entry'[k] = LifetimeAt(b[k])'
  <2>1. UNCHANGED <<phase, at, current, entry>> /\ phase = "lower"
    BY <1>7
  <2>2. LifetimeAt(at)' = LifetimeAt(at) /\ Around(at)' = Around(at)
    BY <2>1, Zenon DEF LifetimeAt, Around
  <2>3. PICK b \in Seq(DOMAIN code) :
          /\ Ascending(b, Around(at)) /\ Len(entry) = Len(b)
          /\ \A k \in DOMAIN b : entry[k] = LifetimeAt(b[k])
    BY <2>1, Zenon DEF Agrees
  <2>4. \A k : LifetimeAt(b[k])' = LifetimeAt(b[k])
    BY Zenon DEF LifetimeAt
  <2>5. \A k \in DOMAIN b : entry'[k] = LifetimeAt(b[k])'
    BY <2>1, <2>3, <2>4
  <2>6. at' \in DOMAIN vm_scope' /\ current' = LifetimeAt(at)'
    BY <2>1, <2>2 DEF Agrees
  <2>7. Ascending(b, Around(at)') /\ Len(entry') = Len(b) /\ b \in Seq(DOMAIN code')
    BY <2>1, <2>2, <2>3
  <2> QED BY <2>5, <2>6, <2>7, Zenon
<1> HIDE DEF Done
<1> QED BY <1>2, <1>3, <1>4, <1>5, <1>6, <1>7, Zenon DEF Agrees

LEMMA LowerReturnStep ==
  ASSUME TypeOK, Resolved, Untouched, Agrees, LowerReturn
  PROVE  TypeOK' /\ Resolved' /\ Untouched' /\ Agrees' /\ Runs'
<1>1. PICK m : m = Len(code)
  OBVIOUS
<1>2. /\ m \in Nat /\ DOMAIN code = 1 .. m /\ DOMAIN vm_scope = 1 .. m + 1 /\ Length \in Nat
      /\ m <= Length
  BY <1>1, CodeFacts
<1>3. /\ phase = "lower" /\ phase' = "run" /\ at = m + 1 /\ at' = 1
      /\ UNCHANGED <<code, vm_scope, open, testing, lifetimes, current, entry, vregs, emitted,
                     stack, saved, live, unsaved>>
  BY <1>1 DEF LowerReturn, resolving, lowering, running
<1>4. TypeOK'
  BY <1>2, <1>3 DEF TypeOK
<1>5. Untouched'
  BY <1>3 DEF Untouched
<1>6. Done' = Done
  BY <1>1, <1>3 DEF Done
<1>7. Agrees'
  BY <1>3, <1>6, AgreesKept
<1>8. Resolved'
  <2>1. /\ vm_scope \in Seq(Seq(Nat)) /\ vm_scope[1] = <<>> /\ (\A n \in DOMAIN code : Fits(n))
        /\ Ascending(open, Around(Len(code) + 1)) /\ Chained /\ Nests /\ Bounded
        /\ open = <<>> /\ GotosAreValid
    BY <1>3 DEF Resolved
  <2>2. GotosAreValid'
    BY <1>3, <2>1, Zenon DEF GotosAreValid
  <2>3. (\A n : Around(n)' = Around(n) /\ Declares(n)' = Declares(n) /\ Scope(n)' = Scope(n))
    BY <1>3, StaticKept
  <2>4. Chained'
    BY <1>3, <2>1, Zenon DEF Chained, Declares
  <2>5. Nests'
    BY <1>3, <2>1, <2>3, Zenon DEF Nests, Scope
  <2>6. \A n \in DOMAIN code' : Fits(n)'
    BY <1>3, <2>1, <2>3, Zenon DEF Fits, Position
  <2>7. Bounded'
    BY <1>3, <2>1, Zenon DEF Bounded, Declarations, Count, Declares, Openers
  <2>8. Ascending(open, Around(Len(code) + 1))'
    <3>1. Around(Len(code) + 1)' = Around(Len(code) + 1)
      BY <1>3, Zenon DEF Around
    <3>2. PICK S : S = Around(Len(code) + 1)
      OBVIOUS
    <3>3. Ascending(open, S)'
      BY <1>3, <2>1, <3>2, Zenon DEF Ascending, Range
    <3> QED BY <3>1, <3>2, <3>3, Zenon DEF Ascending
  <2> QED BY <1>3, <2>1, <2>2, <2>4, <2>5, <2>6, <2>7, <2>8, Zenon DEF Resolved
<1>9. Runs'
  <2>1. /\ stack' = <<>> /\ saved' = <<>> /\ live' = <<>> /\ unsaved' = NONE /\ testing' = FALSE
    BY <1>3 DEF Untouched
  <2>2. Here' = 1 /\ 1 \in DOMAIN vm_scope'
    BY <1>2, <1>3, <2>1 DEF Here
  <2>3. Scope(1)' = {} /\ Around(1)' = {}
    <3>1. vm_scope'[1] = <<>>
      BY <1>3 DEF Resolved
    <3>2. \A k \in DOMAIN code' : ~(k < 1)
      BY <1>2, <1>3
    <3> QED BY <3>1, <3>2 DEF Scope, Range, Around
  <2>4. DOMAIN saved' = {} /\ DOMAIN live' = {}
    BY <2>1
  <2>5. Scope(Here)' = {} /\ Around(Here)' = {} /\ Around(at)' = {}
    BY <1>3, <2>2, <2>3, Zenon DEF Scope, Around
  <2>6. Exact'
    BY <2>1, <2>4, <2>5, Zenon DEF Exact
  <2> QED BY <1>3, <2>1, <2>2, <2>6, Zenon DEF Runs
<1> QED BY <1>4, <1>5, <1>7, <1>8, <1>9

LEMMA VlaInit == Init => VlaInv
<1> SUFFICES ASSUME Init
             PROVE  VlaInv
  OBVIOUS
<1>1. /\ phase = "parse" /\ code = <<>> /\ open = <<>> /\ at = 0 /\ testing = FALSE
      /\ vm_scope = << <<>> >> /\ DOMAIN code = {} /\ Len(code) = 0 /\ DOMAIN vm_scope = {1}
      /\ vm_scope[1] = <<>>
  BY DEF Init
<1>2. TypeOK
  <2>1. /\ lifetimes \in [Lifetime -> [canonical : Lifetime, checkpoint : Vreg \cup {NONE}]]
        /\ current \in Lifetime
    BY LengthAssumption DEF Init, Lifetime
  <2>2. vregs \in 0 .. 2 * (MaxDeclarations + MaxBlocks)
    BY BoundAssumption DEF Init
  <2>3. \A n \in DOMAIN vm_scope : vm_scope[n] \in Seq(1 .. n - 1)
    <3>1. \A n : <<>> \in Seq(1 .. n - 1)
      BY SeqFacts, Zenon
    <3> QED BY <1>1, <3>1
  <2>4. DOMAIN saved \subseteq Vreg /\ \A v \in DOMAIN saved : saved[v] \in Seq(Array)
    BY DEF Init
  <2>5. code \in Seq(Item) /\ Len(code) <= Length /\ Len(vm_scope) = Len(code) + 1
        /\ open \in Seq(Position) /\ at \in 0 .. Length + 1 /\ testing \in BOOLEAN
    <3>1. code \in Seq(Item) /\ open \in Seq(Position)
      BY <1>1, SeqFacts, Zenon
    <3>2. Len(code) <= Length /\ at \in 0 .. Length + 1 /\ testing \in BOOLEAN
      <4>1. Len(code) = 0 /\ at = 0 /\ testing = FALSE
        BY <1>1, Zenon
      <4>2. 0 <= Length /\ 0 \in 0 .. Length + 1
        BY LengthAssumption
      <4>3. FALSE \in BOOLEAN
        OBVIOUS
      <4> QED BY <4>1, <4>2, <4>3, Zenon
    <3>3. Len(vm_scope) = Len(code) + 1
      <4>1. vm_scope \in Seq({ <<>> })
        <5>1. <<>> \in { <<>> }
          OBVIOUS
        <5> QED BY <1>1, <5>1, SeqFacts, Zenon
      <4> QED BY <1>1, <4>1
    <3> QED BY <3>1, <3>2, <3>3
  <2>6. /\ entry \in Seq(Lifetime) /\ stack \in Seq(Array) /\ live \in Seq(Array)
        /\ unsaved \in Vreg \cup {NONE}
    BY DEF Init
  <2> QED BY <1>1, <2>1, <2>2, <2>3, <2>4, <2>5, <2>6 DEF TypeOK
<1>3. Untouched
  BY DEF Untouched, Init
<1>4. Resolved
  <2>1. vm_scope \in Seq(Seq(Nat))
    <3>1. <<>> \in Seq(Nat)
      BY SeqFacts, Zenon
    <3> QED BY <1>1, <3>1, SeqFacts, Zenon
  <2>2. \A n : Around(n) = {}
    BY <1>1 DEF Around
  <2>3. Ascending(open, Around(Len(code) + 1))
    <3>1. Range(open) = {} /\ DOMAIN open = {}
      BY <1>1 DEF Range
    <3> QED BY <2>2, <3>1, Zenon DEF Ascending
  <2>4. Chained /\ Nests
    BY <1>1, <2>2 DEF Chained, Nests
  <2>5. Bounded
    <3>1. Declarations = Cardinality({}) /\ Count(Openers) = Cardinality({})
      <4>1. {n \in DOMAIN code : Declares(n)} = {}
            /\ {n \in DOMAIN code : code[n].op \in Openers} = {}
        BY <1>1
      <4> QED BY <4>1 DEF Declarations, Count
    <3> QED BY <3>1, FS_EmptySet, BoundAssumption DEF Bounded
  <2> QED BY <1>1, <2>1, <2>3, <2>4, <2>5 DEF Resolved
<1> QED BY <1>1, <1>2, <1>3, <1>4 DEF VlaInv, Runs

-----------------------------------------------------------------------------
(* What the instructions do.                                               *)

(* f[k] is what the first k instructions make of m.                        *)
Through(m, s, a, f, n) ==
  f = [k \in 0 .. n |-> IF k = 0 THEN m ELSE Execute(f[k - 1], s[k], a)]

LEMMA ThroughLaw ==
  ASSUME NEW m, NEW s, NEW a, NEW f, NEW n \in Nat, Through(m, s, a, f, n), NEW k \in 0 .. n
  PROVE  /\ k = 0 => f[k] = m
         /\ k # 0 => f[k] = Execute(f[k - 1], s[k], a)
<1>1. f[k] = IF k = 0 THEN m ELSE Execute(f[k - 1], s[k], a)
  BY Zenon DEF Through
<1> QED BY <1>1

LEMMA ThroughExists ==
  ASSUME NEW m, NEW s, NEW a, NEW n \in Nat
  PROVE  \E f : Through(m, s, a, f, n)
<1> DEFINE T == {k \in Nat : ~ \E f : Through(m, s, a, f, k)}
<1> SUFFICES ASSUME T # {}
             PROVE  FALSE
  OBVIOUS
<1>1. PICK k \in T : \A y \in T : k <= y
  <2> HIDE DEF T
  <2> QED BY LeastOf DEF T
<1>2. k # 0
  <2>1. Through(m, s, a, [i \in 0 .. 0 |-> m], 0)
    BY DEF Through
  <2> QED BY <2>1
<1>3. k - 1 \in Nat /\ k - 1 \notin T
  BY <1>1, <1>2
<1>4. PICK g : Through(m, s, a, g, k - 1)
  BY <1>3
<1> DEFINE f == [i \in 0 .. k |-> IF i < k THEN g[i] ELSE Execute(g[k - 1], s[k], a)]
<1>5. \A i \in 0 .. k - 1 : f[i] = g[i]
  BY <1>1, <1>2
<1>6. f[k] = Execute(g[k - 1], s[k], a)
  BY <1>1, <1>2
<1>7. f = [i \in 0 .. k |-> f[i]]
  OBVIOUS
<1> HIDE DEF f
<1>8. ASSUME NEW i \in 0 .. k
      PROVE  f[i] = IF i = 0 THEN m ELSE Execute(f[i - 1], s[i], a)
  <2>1. CASE i = k
    <3>1. k - 1 \in 0 .. k - 1
      BY <1>1, <1>2
    <3> QED BY <1>1, <1>2, <1>5, <1>6, <2>1, <3>1
  <2>2. CASE i # k
    <3>1. i \in 0 .. k - 1 /\ (i # 0 => i - 1 \in 0 .. k - 1)
      BY <1>1, <2>2
    <3>2. /\ i = 0 => g[i] = m
          /\ i # 0 => g[i] = Execute(g[i - 1], s[i], a)
      BY <1>3, <1>4, <3>1, ThroughLaw
    <3> QED BY <1>5, <3>1, <3>2
  <2> QED BY <2>1, <2>2
<1>9. f = [i \in 0 .. k |-> IF i = 0 THEN m ELSE Execute(f[i - 1], s[i], a)]
  BY <1>7, <1>8
<1>10. Through(m, s, a, f, k)
  BY <1>9 DEF Through
<1> QED BY <1>10

LEMMA ExecuteAllIs ==
  ASSUME NEW m, NEW s, NEW a, Len(s) \in Nat
  PROVE  \E f : Through(m, s, a, f, Len(s)) /\ ExecuteAll(m, s, a) = f[Len(s)]
<1> DEFINE f == CHOOSE f : Through(m, s, a, f, Len(s))
<1>1. Through(m, s, a, f, Len(s))
  BY ThroughExists, Zenon
<1>2. ExecuteAll(m, s, a) = f[Len(s)]
  BY Zenon DEF ExecuteAll, Through
<1> QED BY <1>1, <1>2

LEMMA ExecuteNone ==
  ASSUME NEW m, NEW a
  PROVE  ExecuteAll(m, <<>>, a) = m
<1>1. PICK f : Through(m, <<>>, a, f, Len(<<>>)) /\ ExecuteAll(m, <<>>, a) = f[Len(<<>>)]
  BY ExecuteAllIs
<1>2. f[0] = m
  BY <1>1, ThroughLaw
<1> QED BY <1>1, <1>2

LEMMA ExecuteOne ==
  ASSUME NEW m, NEW i, NEW a
  PROVE  ExecuteAll(m, <<i>>, a) = Execute(m, i, a)
<1>1. PICK s : s = <<i>>
  OBVIOUS
<1>2. Len(s) = 1 /\ s[1] = i
  BY <1>1
<1>3. PICK f : Through(m, s, a, f, 1) /\ ExecuteAll(m, s, a) = f[1]
  BY <1>2, ExecuteAllIs
<1>4. f[0] = m /\ f[1] = Execute(f[1 - 1], s[1], a) /\ 1 - 1 = 0
  <2>1. 0 \in 0 .. 1 /\ 1 \in 0 .. 1 /\ 1 \in Nat /\ 1 # 0
    OBVIOUS
  <2> QED BY <1>3, <2>1, ThroughLaw
<1> QED BY <1>1, <1>2, <1>3, <1>4

LEMMA ExecuteBoth ==
  ASSUME NEW S, NEW s \in Seq(S), NEW t \in Seq(S), NEW m, NEW a
  PROVE  ExecuteAll(m, s \o t, a) = ExecuteAll(ExecuteAll(m, s, a), t, a)
<1>1. PICK u : u = s \o t
  OBVIOUS
<1>2. PICK i, j : i = Len(s) /\ j = Len(t)
  OBVIOUS
<1>3. /\ i \in Nat /\ j \in Nat /\ Len(u) = i + j
      /\ \A k \in 1 .. i : u[k] = s[k]
      /\ \A k \in 1 .. j : u[i + k] = t[k]
  BY <1>1, <1>2
<1>4. PICK f : Through(m, s, a, f, i) /\ ExecuteAll(m, s, a) = f[i]
  BY <1>2, <1>3, ExecuteAllIs
<1>5. PICK r : r = ExecuteAll(m, s, a)
  OBVIOUS
<1>6. PICK g : Through(r, t, a, g, j) /\ ExecuteAll(r, t, a) = g[j]
  BY <1>2, <1>3, ExecuteAllIs
<1>7. PICK h : Through(m, u, a, h, i + j) /\ ExecuteAll(m, u, a) = h[i + j]
  <2>1. Len(u) \in Nat
    BY <1>3
  <2>2. \E h : Through(m, u, a, h, Len(u)) /\ ExecuteAll(m, u, a) = h[Len(u)]
    BY <2>1, ExecuteAllIs
  <2> QED BY <1>3, <2>2, Zenon
<1>8. \A k \in 0 .. i : h[k] = f[k]
  <2> DEFINE T == {k \in 0 .. i : h[k] # f[k]}
  <2> SUFFICES ASSUME T # {}
               PROVE  FALSE
    OBVIOUS
  <2>1. PICK k \in T : \A y \in T : k <= y
    <3>1. T \subseteq Nat
      OBVIOUS
    <3> HIDE DEF T
    <3> QED BY <3>1, LeastOf
  <2>2. k \in 0 .. i /\ k \in 0 .. i + j /\ i + j \in Nat
    BY <1>3
  <2>3. /\ k = 0 => f[k] = m
        /\ k # 0 => f[k] = Execute(f[k - 1], s[k], a)
    BY <1>3, <1>4, <2>2, ThroughLaw
  <2>4. /\ k = 0 => h[k] = m
        /\ k # 0 => h[k] = Execute(h[k - 1], u[k], a)
    BY <1>7, <2>2, ThroughLaw
  <2>5. k # 0 => k - 1 \in 0 .. i /\ ~(k <= k - 1) /\ k \in 1 .. i
    <3>1. k \in Nat /\ i \in Nat /\ k <= i
      BY <1>3, <2>2
    <3> QED BY <3>1
  <2>6. k # 0 => h[k - 1] = f[k - 1]
    BY <2>1, <2>5
  <2> QED BY <1>3, <2>3, <2>4, <2>5, <2>6
<1>9. \A k \in 0 .. j : h[i + k] = g[k]
  <2> DEFINE T == {k \in 0 .. j : h[i + k] # g[k]}
  <2> SUFFICES ASSUME T # {}
               PROVE  FALSE
    OBVIOUS
  <2>1. PICK k \in T : \A y \in T : k <= y
    <3>1. T \subseteq Nat
      OBVIOUS
    <3> HIDE DEF T
    <3> QED BY <3>1, LeastOf
  <2>2. k \in 0 .. j /\ i + k \in 0 .. i + j /\ i + j \in Nat
    BY <1>3
  <2>3. /\ k = 0 => g[k] = r
        /\ k # 0 => g[k] = Execute(g[k - 1], t[k], a)
    BY <1>3, <1>6, <2>2, ThroughLaw
  <2>a. PICK x : x = i + k
    OBVIOUS
  <2>4. x # 0 => h[x] = Execute(h[x - 1], u[x], a)
    <3>1. x \in 0 .. i + j /\ i + j \in Nat
      BY <2>2, <2>a
    <3> QED BY <1>7, <3>1, ThroughLaw
  <2>5. k # 0 => /\ k - 1 \in 0 .. j /\ ~(k <= k - 1) /\ k \in 1 .. j /\ x # 0
                 /\ x - 1 = i + (k - 1)
    BY <1>3, <2>2, <2>a
  <2>6. k # 0 => h[i + (k - 1)] = g[k - 1]
    BY <2>1, <2>5
  <2>7. k = 0 => h[i + k] = g[k]
    <3>1. i \in 0 .. i /\ i + 0 = i
      BY <1>3
    <3> QED BY <1>4, <1>5, <1>8, <2>3, <3>1
  <2>8. k # 0 => h[x] = g[k]
    <3>1. k # 0 => u[x] = t[k]
      BY <1>3, <2>5, <2>a
    <3>2. k # 0 => h[x - 1] = g[k - 1]
      BY <2>5, <2>6
    <3> QED BY <2>3, <2>4, <2>5, <3>1, <3>2
  <2> QED BY <2>7, <2>8, <2>a
<1>10. j \in 0 .. j
  BY <1>3
<1> QED BY <1>1, <1>5, <1>6, <1>7, <1>9, <1>10

(* Those of the arrays that are declared in the scope.                     *)
Keeping(b, scope, f, n) ==
  f = [k \in 0 .. n |->
         IF k = 0 THEN <<>>
         ELSE IF b[k].of \in Range(scope) THEN Append(f[k - 1], b[k])
         ELSE f[k - 1]]

LEMMA KeepingLaw ==
  ASSUME NEW b, NEW scope, NEW f, NEW n \in Nat, Keeping(b, scope, f, n), NEW k \in 0 .. n
  PROVE  /\ k = 0 => f[k] = <<>>
         /\ k # 0 => f[k] = IF b[k].of \in Range(scope) THEN Append(f[k - 1], b[k]) ELSE f[k - 1]
<1>1. f[k] = IF k = 0 THEN <<>>
             ELSE IF b[k].of \in Range(scope) THEN Append(f[k - 1], b[k]) ELSE f[k - 1]
  BY Zenon DEF Keeping
<1> QED BY <1>1

LEMMA KeepingExists ==
  ASSUME NEW b, NEW scope, NEW n \in Nat
  PROVE  \E f : Keeping(b, scope, f, n)
<1> DEFINE T == {k \in Nat : ~ \E f : Keeping(b, scope, f, k)}
<1> SUFFICES ASSUME T # {}
             PROVE  FALSE
  OBVIOUS
<1>1. PICK k \in T : \A y \in T : k <= y
  <2> HIDE DEF T
  <2> QED BY LeastOf DEF T
<1>2. k # 0
  <2>1. Keeping(b, scope, [i \in 0 .. 0 |-> <<>>], 0)
    BY DEF Keeping
  <2> QED BY <2>1
<1>3. k - 1 \in Nat /\ k - 1 \notin T
  BY <1>1, <1>2
<1>4. PICK g : Keeping(b, scope, g, k - 1)
  BY <1>3
<1>5. PICK last : last = IF b[k].of \in Range(scope) THEN Append(g[k - 1], b[k]) ELSE g[k - 1]
  OBVIOUS
<1> DEFINE f == [i \in 0 .. k |-> IF i < k THEN g[i] ELSE last]
<1>6. \A i \in 0 .. k - 1 : f[i] = g[i]
  BY <1>1, <1>2
<1>7. f[k] = last
  BY <1>1, <1>2
<1>8. f = [i \in 0 .. k |-> f[i]]
  OBVIOUS
<1> HIDE DEF f
<1>9. ASSUME NEW i \in 0 .. k
      PROVE  f[i] = IF i = 0 THEN <<>>
                    ELSE IF b[i].of \in Range(scope) THEN Append(f[i - 1], b[i]) ELSE f[i - 1]
  <2>1. CASE i = k
    <3>1. k - 1 \in 0 .. k - 1
      BY <1>1, <1>2
    <3>2. f[k - 1] = g[k - 1]
      BY <1>6, <3>1
    <3> QED BY <1>1, <1>2, <1>5, <1>7, <2>1, <3>2
  <2>2. CASE i # k
    <3>1. i \in 0 .. k - 1 /\ (i # 0 => i - 1 \in 0 .. k - 1)
      BY <1>1, <2>2
    <3>2. /\ i = 0 => g[i] = <<>>
          /\ i # 0 => g[i] = IF b[i].of \in Range(scope) THEN Append(g[i - 1], b[i]) ELSE g[i - 1]
      BY <1>3, <1>4, <3>1, KeepingLaw
    <3> QED BY <1>6, <3>1, <3>2
  <2> QED BY <2>1, <2>2
<1>10. Keeping(b, scope, f, k)
  BY <1>8, <1>9 DEF Keeping
<1> QED BY <1>10

LEMMA AmongIs ==
  ASSUME NEW b, NEW scope, Len(b) \in Nat
  PROVE  \E f : Keeping(b, scope, f, Len(b)) /\ Among(b, scope) = f[Len(b)]
<1> DEFINE f == CHOOSE f : Keeping(b, scope, f, Len(b))
<1>1. Keeping(b, scope, f, Len(b))
  BY KeepingExists, Zenon
<1>2. Among(b, scope) = f[Len(b)]
  BY Zenon DEF Among, Keeping
<1> QED BY <1>1, <1>2

LEMMA SeqSame ==
  ASSUME NEW S, NEW s \in Seq(S), NEW t \in Seq(S), Len(s) = Len(t),
         \A i \in 1 .. Len(t) : s[i] = t[i]
  PROVE  s = t
OBVIOUS

LEMMA AmongNone ==
  ASSUME NEW scope
  PROVE  Among(<<>>, scope) = <<>>
<1>1. PICK f : Keeping(<<>>, scope, f, Len(<<>>)) /\ Among(<<>>, scope) = f[Len(<<>>)]
  BY AmongIs
<1>2. f[0] = <<>>
  BY <1>1, KeepingLaw
<1> QED BY <1>1, <1>2

(* The arrays are arrays of b in the scope.                                *)
LEMMA AmongType ==
  ASSUME NEW S, NEW b \in Seq(S), NEW scope
  PROVE  /\ Among(b, scope) \in Seq(S)
         /\ \A k \in DOMAIN Among(b, scope) :
              /\ Among(b, scope)[k].of \in Range(scope)
              /\ \E j \in DOMAIN b : Among(b, scope)[k] = b[j]
<1>1. PICK n : n = Len(b)
  OBVIOUS
<1>2. n \in Nat /\ DOMAIN b = 1 .. n /\ \A k \in 1 .. n : b[k] \in S
  BY <1>1
<1>3. PICK f : Keeping(b, scope, f, n) /\ Among(b, scope) = f[n]
  BY <1>1, <1>2, AmongIs
<1> DEFINE Good(s) == /\ s \in Seq(S)
                      /\ \A k \in DOMAIN s : /\ s[k].of \in Range(scope)
                                             /\ \E j \in DOMAIN b : s[k] = b[j]
           T == {k \in 0 .. n : ~Good(f[k])}
<1>4. T = {}
  <2> SUFFICES ASSUME T # {}
               PROVE  FALSE
    OBVIOUS
  <2>1. PICK k \in T : \A y \in T : k <= y
    <3>1. T \subseteq Nat
      OBVIOUS
    <3> HIDE DEF T
    <3> QED BY <3>1, LeastOf
  <2>2. /\ k = 0 => f[k] = <<>>
        /\ k # 0 => f[k] = IF b[k].of \in Range(scope) THEN Append(f[k - 1], b[k]) ELSE f[k - 1]
    <3>1. k \in 0 .. n
      OBVIOUS
    <3> QED BY <1>2, <1>3, <3>1, KeepingLaw
  <2>3. k # 0
    <3>1. Good(<<>>)
      OBVIOUS
    <3> QED BY <2>2, <3>1
  <2>4. k \in 1 .. n /\ k - 1 \in 0 .. n /\ ~(k <= k - 1)
    BY <1>2, <2>3
  <2>5. Good(f[k - 1])
    BY <2>1, <2>4
  <2>6. b[k].of \in Range(scope) => Good(Append(f[k - 1], b[k]))
    <3> SUFFICES ASSUME b[k].of \in Range(scope)
                 PROVE  Good(Append(f[k - 1], b[k]))
      OBVIOUS
    <3>1. PICK s : s = f[k - 1]
      OBVIOUS
    <3>2. PICK x : x = b[k]
      OBVIOUS
    <3>3. /\ s \in Seq(S) /\ x \in S
          /\ \A i \in DOMAIN s : s[i].of \in Range(scope) /\ \E j \in DOMAIN b : s[i] = b[j]
      BY <1>2, <2>4, <2>5, <3>1, <3>2
    <3>4. /\ Append(s, x) \in Seq(S) /\ DOMAIN s = 1 .. Len(s)
          /\ DOMAIN Append(s, x) = 1 .. Len(s) + 1 /\ Append(s, x)[Len(s) + 1] = x
          /\ (\A i \in 1 .. Len(s) : Append(s, x)[i] = s[i]) /\ Len(s) \in Nat
      BY <3>3, AppendFacts
    <3>5. ASSUME NEW i \in DOMAIN Append(s, x)
          PROVE  /\ Append(s, x)[i].of \in Range(scope)
                 /\ \E j \in DOMAIN b : Append(s, x)[i] = b[j]
      <4>1. i \in 1 .. Len(s) \/ i = Len(s) + 1
        BY <3>4
      <4>2. CASE i \in 1 .. Len(s)
        BY <3>3, <3>4, <4>2
      <4>3. CASE i = Len(s) + 1
        BY <1>2, <2>4, <3>2, <3>4, <4>3
      <4> QED BY <4>1, <4>2, <4>3
    <3> QED BY <3>1, <3>2, <3>4, <3>5
  <2> HIDE DEF Good
  <2>7. Good(f[k])
    BY <2>2, <2>3, <2>5, <2>6
  <2>8. ~Good(f[k])
    OBVIOUS
  <2> QED BY <2>7, <2>8
<1>5. Good(f[n])
  <2> HIDE DEF Good
  <2>1. n \in 0 .. n
    BY <1>2
  <2> QED BY <1>4, <2>1
<1> QED BY <1>3, <1>5

(* Only which of the arrays are in scope counts.                           *)
LEMMA AmongSame ==
  ASSUME NEW S, NEW b \in Seq(S), NEW s, NEW t,
         \A k \in DOMAIN b : b[k].of \in Range(s) <=> b[k].of \in Range(t)
  PROVE  Among(b, s) = Among(b, t)
<1>1. PICK n : n = Len(b)
  OBVIOUS
<1>2. n \in Nat /\ DOMAIN b = 1 .. n
  BY <1>1
<1>3. PICK f : Keeping(b, s, f, n) /\ Among(b, s) = f[n]
  BY <1>1, <1>2, AmongIs
<1>4. PICK g : Keeping(b, t, g, n) /\ Among(b, t) = g[n]
  BY <1>1, <1>2, AmongIs
<1> DEFINE T == {k \in 0 .. n : f[k] # g[k]}
<1>5. T = {}
  <2> SUFFICES ASSUME T # {}
               PROVE  FALSE
    OBVIOUS
  <2>1. PICK k \in T : \A y \in T : k <= y
    <3>1. T \subseteq Nat
      OBVIOUS
    <3> HIDE DEF T
    <3> QED BY <3>1, LeastOf
  <2>2. k \in 0 .. n
    OBVIOUS
  <2>3. /\ k = 0 => f[k] = <<>>
        /\ k # 0 => f[k] = IF b[k].of \in Range(s) THEN Append(f[k - 1], b[k]) ELSE f[k - 1]
    BY <1>2, <1>3, <2>2, KeepingLaw
  <2>4. /\ k = 0 => g[k] = <<>>
        /\ k # 0 => g[k] = IF b[k].of \in Range(t) THEN Append(g[k - 1], b[k]) ELSE g[k - 1]
    BY <1>2, <1>4, <2>2, KeepingLaw
  <2>5. k # 0 => k \in 1 .. n /\ k - 1 \in 0 .. n /\ ~(k <= k - 1)
    BY <1>2, <2>2
  <2>6. k # 0 => f[k - 1] = g[k - 1]
    BY <2>1, <2>5
  <2>7. k # 0 => (b[k].of \in Range(s) <=> b[k].of \in Range(t))
    BY <1>2, <2>5
  <2>8. f[k] = g[k]
    BY <2>3, <2>4, <2>6, <2>7
  <2> QED BY <2>8
<1>6. n \in 0 .. n
  BY <1>2
<1> QED BY <1>3, <1>4, <1>5, <1>6

LEMMA AmongAppend ==
  ASSUME NEW S, NEW b \in Seq(S), NEW x \in S, NEW scope
  PROVE  Among(Append(b, x), scope)
           = IF x.of \in Range(scope) THEN Append(Among(b, scope), x) ELSE Among(b, scope)
<1>1. PICK n : n = Len(b)
  OBVIOUS
<1>2. PICK c : c = Append(b, x)
  OBVIOUS
<1>3. n \in Nat /\ Len(c) = n + 1 /\ c[n + 1] = x /\ \A k \in 1 .. n : c[k] = b[k]
  BY <1>1, <1>2, AppendFacts
<1>4. PICK f : Keeping(b, scope, f, n) /\ Among(b, scope) = f[n]
  BY <1>1, <1>3, AmongIs
<1>5. PICK g : Keeping(c, scope, g, n + 1) /\ Among(c, scope) = g[n + 1]
  <2>1. Len(c) \in Nat
    BY <1>3
  <2>2. \E g : Keeping(c, scope, g, Len(c)) /\ Among(c, scope) = g[Len(c)]
    BY <2>1, AmongIs
  <2> QED BY <1>3, <2>2, Zenon
<1> DEFINE T == {k \in 0 .. n : f[k] # g[k]}
<1>6. T = {}
  <2> SUFFICES ASSUME T # {}
               PROVE  FALSE
    OBVIOUS
  <2>1. PICK k \in T : \A y \in T : k <= y
    <3>1. T \subseteq Nat
      OBVIOUS
    <3> HIDE DEF T
    <3> QED BY <3>1, LeastOf
  <2>2. k \in 0 .. n /\ k \in 0 .. n + 1 /\ n + 1 \in Nat
    BY <1>3
  <2>3. /\ k = 0 => f[k] = <<>>
        /\ k # 0 => f[k] = IF b[k].of \in Range(scope) THEN Append(f[k - 1], b[k]) ELSE f[k - 1]
    BY <1>3, <1>4, <2>2, KeepingLaw
  <2>4. /\ k = 0 => g[k] = <<>>
        /\ k # 0 => g[k] = IF c[k].of \in Range(scope) THEN Append(g[k - 1], c[k]) ELSE g[k - 1]
    BY <1>5, <2>2, KeepingLaw
  <2>5. k # 0 => k \in 1 .. n /\ k - 1 \in 0 .. n /\ ~(k <= k - 1)
    <3>1. k \in Nat /\ n \in Nat /\ k <= n
      BY <1>3, <2>2
    <3> QED BY <3>1
  <2>6. k # 0 => f[k - 1] = g[k - 1]
    BY <2>1, <2>5
  <2>7. k # 0 => c[k] = b[k]
    BY <1>3, <2>5
  <2>8. f[k] = g[k]
    BY <2>3, <2>4, <2>6, <2>7
  <2> QED BY <2>8
<1>7. g[n] = f[n]
  <2>1. n \in 0 .. n
    BY <1>3
  <2> QED BY <1>6, <2>1
<1>8. g[n + 1] = IF x.of \in Range(scope) THEN Append(g[n], x) ELSE g[n]
  <2>1. n + 1 \in 0 .. n + 1 /\ n + 1 \in Nat /\ n + 1 # 0 /\ n + 1 - 1 = n
    BY <1>3
  <2>2. PICK k : k = n + 1
    OBVIOUS
  <2>3. g[k] = IF c[k].of \in Range(scope) THEN Append(g[k - 1], c[k]) ELSE g[k - 1]
    BY <1>5, <2>1, <2>2, KeepingLaw
  <2> QED BY <1>3, <2>1, <2>2, <2>3
<1> QED BY <1>2, <1>4, <1>5, <1>7, <1>8

(* Where all are in scope, all are kept.                                   *)
LEMMA AmongAll ==
  ASSUME NEW S, NEW b \in Seq(S), NEW scope, \A k \in DOMAIN b : b[k].of \in Range(scope)
  PROVE  Among(b, scope) = b
<1>1. PICK n : n = Len(b)
  OBVIOUS
<1>2. n \in Nat /\ DOMAIN b = 1 .. n
  BY <1>1
<1>3. PICK f : Keeping(b, scope, f, n) /\ Among(b, scope) = f[n]
  BY <1>1, <1>2, AmongIs
<1> DEFINE Good(k) == f[k] = SubSeq(b, 1, k)
           T == {k \in 0 .. n : ~Good(k)}
<1>4. T = {}
  <2> SUFFICES ASSUME T # {}
               PROVE  FALSE
    OBVIOUS
  <2>1. PICK k \in T : \A y \in T : k <= y
    <3>1. T \subseteq Nat
      OBVIOUS
    <3> HIDE DEF T
    <3> QED BY <3>1, LeastOf
  <2>2. k \in 0 .. n
    OBVIOUS
  <2>3. /\ k = 0 => f[k] = <<>>
        /\ k # 0 => f[k] = IF b[k].of \in Range(scope) THEN Append(f[k - 1], b[k]) ELSE f[k - 1]
    BY <1>2, <1>3, <2>2, KeepingLaw
  <2>4. k # 0
    <3>1. SubSeq(b, 1, 0) = <<>>
      OBVIOUS
    <3> QED BY <2>3, <3>1
  <2>5. k \in 1 .. n /\ k - 1 \in 0 .. n /\ ~(k <= k - 1)
    BY <1>2, <2>2, <2>4
  <2>6. f[k - 1] = SubSeq(b, 1, k - 1)
    BY <2>1, <2>5
  <2>7. Append(SubSeq(b, 1, k - 1), b[k]) = SubSeq(b, 1, k)
    <3>1. PICK s : s = SubSeq(b, 1, k - 1)
      OBVIOUS
    <3>2. PICK t : t = SubSeq(b, 1, k)
      OBVIOUS
    <3>3. /\ s \in Seq(S) /\ Len(s) = k - 1 /\ \A i \in 1 .. k - 1 : s[i] = b[i]
      BY <1>1, <1>2, <2>5, <3>1
    <3>4. /\ t \in Seq(S) /\ Len(t) = k /\ \A i \in 1 .. k : t[i] = b[i]
      BY <1>1, <1>2, <2>5, <3>2
    <3>5. b[k] \in S
      BY <1>2, <2>5
    <3>6. /\ Append(s, b[k]) \in Seq(S) /\ Len(Append(s, b[k])) = k
          /\ \A i \in 1 .. k : Append(s, b[k])[i] = t[i]
      <4>1. /\ Append(s, b[k]) \in Seq(S) /\ Len(Append(s, b[k])) = Len(s) + 1
            /\ Append(s, b[k])[Len(s) + 1] = b[k]
            /\ \A i \in 1 .. Len(s) : Append(s, b[k])[i] = s[i]
        BY <3>3, <3>5, AppendFacts
      <4>2. \A i \in 1 .. k : i \in 1 .. k - 1 \/ i = k
        BY <2>5
      <4> QED BY <1>2, <2>5, <3>3, <3>4, <4>1, <4>2
    <3>7. Append(s, b[k]) = t
      <4>1. PICK u : u = Append(s, b[k])
        OBVIOUS
      <4> QED BY <3>4, <3>6, <4>1, SeqSame
    <3> QED BY <3>1, <3>2, <3>7
  <2>8. f[k] = SubSeq(b, 1, k)
    BY <1>2, <2>3, <2>4, <2>5, <2>6, <2>7
  <2> QED BY <2>8
<1>5. f[n] = SubSeq(b, 1, n)
  <2>1. n \in 0 .. n
    BY <1>2
  <2> QED BY <1>4, <2>1
<1>6. SubSeq(b, 1, n) = b
  BY <1>1
<1> QED BY <1>3, <1>5, <1>6

(* To keep twice is to keep what is in both scopes.                        *)
LEMMA AmongAmong ==
  ASSUME NEW S, NEW b \in Seq(S), NEW s, NEW t, Range(t) \subseteq Range(s)
  PROVE  Among(Among(b, s), t) = Among(b, t)
<1>1. PICK n : n = Len(b)
  OBVIOUS
<1>2. n \in Nat /\ DOMAIN b = 1 .. n /\ \A k \in 1 .. n : b[k] \in S
  BY <1>1
<1>3. PICK f : Keeping(b, s, f, n) /\ Among(b, s) = f[n]
  BY <1>1, <1>2, AmongIs
<1>4. PICK g : Keeping(b, t, g, n) /\ Among(b, t) = g[n]
  BY <1>1, <1>2, AmongIs
<1> DEFINE Good(k) == f[k] \in Seq(S) /\ Among(f[k], t) = g[k]
           T == {k \in 0 .. n : ~Good(k)}
<1>5. T = {}
  <2> SUFFICES ASSUME T # {}
               PROVE  FALSE
    OBVIOUS
  <2>1. PICK k \in T : \A y \in T : k <= y
    <3>1. T \subseteq Nat
      OBVIOUS
    <3> HIDE DEF T
    <3> QED BY <3>1, LeastOf
  <2>2. k \in 0 .. n
    OBVIOUS
  <2>3. /\ k = 0 => f[k] = <<>>
        /\ k # 0 => f[k] = IF b[k].of \in Range(s) THEN Append(f[k - 1], b[k]) ELSE f[k - 1]
    BY <1>2, <1>3, <2>2, KeepingLaw
  <2>4. /\ k = 0 => g[k] = <<>>
        /\ k # 0 => g[k] = IF b[k].of \in Range(t) THEN Append(g[k - 1], b[k]) ELSE g[k - 1]
    BY <1>2, <1>4, <2>2, KeepingLaw
  <2>5. k # 0
    <3>1. <<>> \in Seq(S) /\ Among(<<>>, t) = <<>>
      BY AmongNone, SeqFacts
    <3> QED BY <2>3, <2>4, <3>1
  <2>6. k \in 1 .. n /\ k - 1 \in 0 .. n /\ ~(k <= k - 1)
    BY <1>2, <2>2, <2>5
  <2>7. f[k - 1] \in Seq(S) /\ Among(f[k - 1], t) = g[k - 1]
    BY <2>1, <2>6
  <2>8. PICK p, x : p = f[k - 1] /\ x = b[k]
    OBVIOUS
  <2>9. p \in Seq(S) /\ x \in S /\ Append(p, x) \in Seq(S)
    BY <1>2, <2>6, <2>7, <2>8
  <2>10. Among(Append(p, x), t) = IF x.of \in Range(t) THEN Append(Among(p, t), x) ELSE Among(p, t)
    BY <2>9, AmongAppend
  <2>11. Good(k)
    <3>1. CASE x.of \in Range(s)
      BY <2>3, <2>4, <2>5, <2>7, <2>8, <2>9, <2>10, <3>1
    <3>2. CASE x.of \notin Range(s)
      <4>1. x.of \notin Range(t)
        BY <3>2
      <4> QED BY <2>3, <2>4, <2>5, <2>7, <2>8, <2>9, <3>2, <4>1
    <3> QED BY <3>1, <3>2
  <2> HIDE DEF Good
  <2>12. ~Good(k)
    OBVIOUS
  <2> QED BY <2>11, <2>12
<1>6. Good(n)
  <2> HIDE DEF Good
  <2>1. n \in 0 .. n
    BY <1>2
  <2> QED BY <1>5, <2>1
<1> QED BY <1>3, <1>4, <1>6

(* The machine, and a register that is given a value.                      *)
St(s, r, l, u) == [stack |-> s, saved |-> r, live |-> l, unsaved |-> u]
Put(r, v, x) == [y \in DOMAIN r \cup {v} |-> IF y = v THEN x ELSE r[y]]

LEMMA StFields ==
  ASSUME NEW s, NEW r, NEW l, NEW u, NEW m, m = St(s, r, l, u)
  PROVE  /\ m.stack = s /\ m.saved = r /\ m.live = l /\ m.unsaved = u
         /\ m = [stack |-> s, saved |-> r, live |-> l, unsaved |-> u]
BY DEF St

LEMMA ExecuteSave ==
  ASSUME NEW s, NEW r, NEW l, NEW a, NEW i, i.op = "save"
  PROVE  Execute(St(s, r, l, NONE), i, a) = St(s, Put(r, i.vreg, s), l, NONE)
<1>0. PICK m, v : m = St(s, r, l, NONE) /\ v = i.vreg
  OBVIOUS
<1>1. /\ m.stack = s /\ m.saved = r /\ m.live = l /\ m.unsaved = NONE
      /\ m = [stack |-> s, saved |-> r, live |-> l, unsaved |-> NONE]
  BY <1>0, StFields
<1>3. Execute(m, i, a) = [m EXCEPT !.saved = [y \in DOMAIN @ \cup {v} |-> IF y = v THEN s ELSE @[y]]]
  BY <1>0, <1>1 DEF Execute
<1>4. [m EXCEPT !.saved = [y \in DOMAIN @ \cup {v} |-> IF y = v THEN s ELSE @[y]]]
        = [m EXCEPT !.saved = Put(r, v, s)]
  BY <1>1 DEF Put
<1>5. PICK p : p = Put(r, v, s)
  OBVIOUS
<1>6. [m EXCEPT !.saved = p] = [stack |-> s, saved |-> p, live |-> l, unsaved |-> NONE]
  BY <1>1
<1> QED BY <1>0, <1>3, <1>4, <1>5, <1>6 DEF St

LEMMA ExecuteAlloc ==
  ASSUME NEW s, NEW r, NEW l, NEW a, NEW i, i.op = "alloc"
  PROVE  Execute(St(s, r, l, NONE), i, a) = St(Append(s, a), r, Append(l, a), NONE)
<1>0. PICK m : m = St(s, r, l, NONE)
  OBVIOUS
<1>1. /\ m.stack = s /\ m.saved = r /\ m.live = l /\ m.unsaved = NONE
      /\ m = [stack |-> s, saved |-> r, live |-> l, unsaved |-> NONE]
  BY <1>0, StFields
<1>3. PICK e : e = [m EXCEPT !.stack = Append(@, a), !.live = Append(@, a)]
  OBVIOUS
<1>4. Execute(m, i, a) = e
  BY <1>1, <1>3, Zenon DEF Execute
<1>5. PICK p, q : p = Append(s, a) /\ q = Append(l, a)
  OBVIOUS
<1>6. e = [m EXCEPT !.stack = p, !.live = q]
  BY <1>1, <1>3, <1>5
<1>7. e \in [stack : {p}, saved : {r}, live : {q}, unsaved : {NONE}]
  BY <1>1, <1>6
<1>8. e = [stack |-> p, saved |-> r, live |-> q, unsaved |-> NONE]
  BY <1>7
<1> QED BY <1>0, <1>4, <1>5, <1>8 DEF St

LEMMA ExecuteRestore ==
  ASSUME NEW s, NEW r, NEW l, NEW a, NEW i, i.op = "restore"
  PROVE  /\ i.vreg \in DOMAIN r => Execute(St(s, r, l, NONE), i, a) = St(r[i.vreg], r, l, NONE)
         /\ i.vreg \notin DOMAIN r => Execute(St(s, r, l, NONE), i, a) = St(s, r, l, i.vreg)
<1>0. PICK m, v : m = St(s, r, l, NONE) /\ v = i.vreg
  OBVIOUS
<1>1. /\ m.stack = s /\ m.saved = r /\ m.live = l /\ m.unsaved = NONE
      /\ m = [stack |-> s, saved |-> r, live |-> l, unsaved |-> NONE]
  BY <1>0, StFields
<1>2. i.op # "alloc" /\ i.op # "save"
  OBVIOUS
<1>5. v \in DOMAIN r => Execute(m, i, a) = St(r[v], r, l, NONE)
  <2> SUFFICES ASSUME v \in DOMAIN r
               PROVE  Execute(m, i, a) = St(r[v], r, l, NONE)
    OBVIOUS
  <2>3. PICK p : p = r[v]
    OBVIOUS
  <2>4. Execute(m, i, a) = [m EXCEPT !.stack = p]
    BY <1>0, <1>1, <2>3 DEF Execute
  <2>5. [m EXCEPT !.stack = p] = [stack |-> p, saved |-> r, live |-> l, unsaved |-> NONE]
    BY <1>1
  <2> QED BY <2>3, <2>4, <2>5 DEF St
<1>6. v \notin DOMAIN r => Execute(m, i, a) = St(s, r, l, v)
  <2> SUFFICES ASSUME v \notin DOMAIN r
               PROVE  Execute(m, i, a) = St(s, r, l, v)
    OBVIOUS
  <2>3. PICK p : p = [m EXCEPT !.unsaved = i.vreg]
    OBVIOUS
  <2>6. p = [m EXCEPT !.unsaved = v]
    BY <1>0, <2>3
  <2>4. Execute(m, i, a) = p
    <3>1. ~(i.vreg \in DOMAIN m.saved) /\ ~(m.unsaved # NONE)
      BY <1>0, <1>1
    <3> QED BY <1>0, <1>2, <2>3, <3>1, Zenon DEF Execute
  <2>7. p \in [stack : {s}, saved : {r}, live : {l}, unsaved : {v}]
    BY <1>1, <2>6
  <2>5. p = [stack |-> s, saved |-> r, live |-> l, unsaved |-> v]
    BY <2>7
  <2> QED BY <2>4, <2>5 DEF St
<1> QED BY <1>0, <1>5, <1>6

LEMMA ExecuteStuck ==
  ASSUME NEW s, NEW r, NEW l, NEW a, NEW v, v # NONE, NEW i
  PROVE  Execute(St(s, r, l, v), i, a) = St(s, r, l, v)
<1>0. PICK m : m = St(s, r, l, v)
  OBVIOUS
<1>1. m.unsaved = v
  BY <1>0, StFields
<1>2. Execute(m, i, a) = m
  BY <1>1, Zenon DEF Execute
<1> QED BY <1>0, <1>2, Zenon

Typed(m) ==
  \E s \in Seq(Array), l \in Seq(Array), u \in Vreg \cup {NONE} : \E r :
    /\ m = St(s, r, l, u)
    /\ DOMAIN r \subseteq Vreg /\ \A v \in DOMAIN r : r[v] \in Seq(Array)

LEMMA ExecuteType ==
  ASSUME NEW m, Typed(m), NEW i \in Instruction, NEW a \in Array
  PROVE  Typed(Execute(m, i, a))
<1>p. PICK s \in Seq(Array), l \in Seq(Array), u \in Vreg \cup {NONE} : \E r :
        /\ m = St(s, r, l, u)
        /\ DOMAIN r \subseteq Vreg /\ \A v \in DOMAIN r : r[v] \in Seq(Array)
  BY DEF Typed
<1>1. PICK r :
        /\ m = St(s, r, l, u)
        /\ DOMAIN r \subseteq Vreg /\ \A v \in DOMAIN r : r[v] \in Seq(Array)
  BY <1>p
<1>2. CASE u # NONE
  <2>1. Execute(St(s, r, l, u), i, a) = St(s, r, l, u)
    BY <1>2, ExecuteStuck, Zenon
  <2> QED BY <1>1, <2>1
<1>3. CASE u = NONE
  <2>1. PICK v : v = i.vreg
    OBVIOUS
  <2>2. /\ i.op \in {"save", "restore", "alloc"}
        /\ v \in Vreg \cup {NONE} /\ (i.op # "alloc" => v \in Vreg)
    BY <2>1 DEF Instruction
  <2>0. m = St(s, r, l, NONE)
    BY <1>1, <1>3
  <2>3. CASE i.op = "save"
    <3>0. Execute(St(s, r, l, NONE), i, a) = St(s, Put(r, i.vreg, s), l, NONE)
      BY <2>3, ExecuteSave, Zenon
    <3>1. Execute(m, i, a) = St(s, Put(r, v, s), l, NONE)
      BY <2>0, <2>1, <3>0
    <3>2. PICK p : p = Put(r, v, s)
      OBVIOUS
    <3>3. DOMAIN p \subseteq Vreg /\ \A x \in DOMAIN p : p[x] \in Seq(Array)
      BY <1>1, <2>2, <2>3, <3>2 DEF Put
    <3>4. Execute(m, i, a) = St(s, p, l, NONE)
      BY <3>1, <3>2
    <3> QED BY <3>3, <3>4, Zenon DEF Typed
  <2>4. CASE i.op = "alloc"
    <3>0. Execute(St(s, r, l, NONE), i, a) = St(Append(s, a), r, Append(l, a), NONE)
      BY <2>4, ExecuteAlloc
    <3>1. Execute(m, i, a) = St(Append(s, a), r, Append(l, a), NONE)
      BY <2>0, <2>1, <3>0
    <3>2. Append(s, a) \in Seq(Array) /\ Append(l, a) \in Seq(Array)
      OBVIOUS
    <3> QED BY <1>1, <3>1, <3>2, Zenon DEF Typed
  <2>5. CASE i.op = "restore" /\ v \in DOMAIN r
    <3>0. Execute(St(s, r, l, NONE), i, a) = St(r[i.vreg], r, l, NONE)
      BY <2>1, <2>5, ExecuteRestore
    <3>1. Execute(m, i, a) = St(r[v], r, l, NONE)
      BY <2>0, <2>1, <3>0
    <3> QED BY <1>1, <2>5, <3>1, Zenon DEF Typed
  <2>6. CASE i.op = "restore" /\ v \notin DOMAIN r
    <3>0. Execute(St(s, r, l, NONE), i, a) = St(s, r, l, i.vreg)
      BY <2>1, <2>6, ExecuteRestore
    <3>1. Execute(m, i, a) = St(s, r, l, v)
      BY <2>0, <2>1, <3>0
    <3>2. v \in Vreg \cup {NONE}
      BY <2>2
    <3> QED BY <1>1, <3>1, <3>2, Zenon DEF Typed
  <2> QED BY <2>2, <2>3, <2>4, <2>5, <2>6
<1> QED BY <1>2, <1>3

LEMMA ExecuteAllType ==
  ASSUME NEW m, Typed(m), NEW s \in Seq(Instruction), NEW a \in Array
  PROVE  Typed(ExecuteAll(m, s, a))
<1>1. PICK n : n = Len(s)
  OBVIOUS
<1>2. n \in Nat /\ \A k \in 1 .. n : s[k] \in Instruction
  BY <1>1
<1>3. PICK f : Through(m, s, a, f, n) /\ ExecuteAll(m, s, a) = f[n]
  BY <1>1, <1>2, ExecuteAllIs
<1> DEFINE T == {k \in 0 .. n : ~Typed(f[k])}
<1>4. T = {}
  <2> SUFFICES ASSUME T # {}
               PROVE  FALSE
    OBVIOUS
  <2>1. PICK k \in T : \A y \in T : k <= y
    <3>1. T \subseteq Nat
      OBVIOUS
    <3> HIDE DEF T
    <3> QED BY <3>1, LeastOf
  <2>2. k \in 0 .. n
    OBVIOUS
  <2>3. /\ k = 0 => f[k] = m
        /\ k # 0 => f[k] = Execute(f[k - 1], s[k], a)
    BY <1>2, <1>3, <2>2, ThroughLaw
  <2>4. k # 0 => k \in 1 .. n /\ k - 1 \in 0 .. n /\ ~(k <= k - 1)
    BY <1>2, <2>2
  <2>5. k # 0 => Typed(f[k - 1]) /\ s[k] \in Instruction
    BY <1>2, <2>1, <2>4
  <2>6. Typed(f[k])
    BY <2>3, <2>5, ExecuteType
  <2> QED BY <2>6
<1>5. n \in 0 .. n
  BY <1>2
<1> QED BY <1>3, <1>4, <1>5
-----------------------------------------------------------------------------
(* The blocks of the finished text.                                        *)
LEMMA EndIs ==
  ASSUME TypeOK, Resolved, phase = "run", NEW o \in DOMAIN code, code[o].op \in Openers
  PROVE  /\ EndOf(o) \in DOMAIN code /\ code[EndOf(o)].op = "end" /\ code[EndOf(o)].to = o
         /\ \A e \in DOMAIN code : code[e].op = "end" /\ code[e].to = o => e = EndOf(o)
<1>1. PICK m : m = Len(code)
  OBVIOUS
<1>2. m \in Nat /\ DOMAIN code = 1 .. m
  BY <1>1, CodeFacts
<1>3. o \notin Around(m + 1)
  <2>1. Ascending(open, Around(m + 1)) /\ open = <<>>
    BY <1>1 DEF Resolved
  <2> QED BY <2>1 DEF Ascending, Range
<1>4. PICK d \in DOMAIN code : code[d].op = "end" /\ code[d].to = o
  BY <1>2, <1>3 DEF Around
<1>5. PICK e : e = EndOf(o)
  OBVIOUS
<1>6. e \in DOMAIN code /\ code[e].op = "end" /\ code[e].to = o
  BY <1>4, <1>5, Zenon DEF EndOf
<1>7. ASSUME NEW x \in DOMAIN code, code[x].op = "end", code[x].to = o
      PROVE  x = e
  <2>1. o \in Around(x) /\ o \in Around(e)
    BY <1>6, <1>7, EndScope
  <2>2. ~(x < e) /\ ~(e < x)
    BY <1>6, <1>7, <2>1 DEF Around
  <2> QED BY <1>2, <1>6, <1>7, <2>2
<1> QED BY <1>5, <1>6, <1>7

LEMMA AroundInside ==
  ASSUME TypeOK, Resolved, phase = "run", NEW k \in DOMAIN vm_scope, NEW o \in DOMAIN code,
         code[o].op \in Openers
  PROVE  o \in Around(k) <=> Inside(k, o)
<1>1. PICK e : e = EndOf(o)
  OBVIOUS
<1>2. /\ e \in DOMAIN code /\ code[e].op = "end" /\ code[e].to = o
      /\ \A x \in DOMAIN code : code[x].op = "end" /\ code[x].to = o => x = e
  BY <1>1, EndIs
<1>3. k \in Nat /\ \A x \in DOMAIN code : x \in Nat
  <2>1. PICK m : m = Len(code)
    OBVIOUS
  <2> QED BY <2>1, CodeFacts
<1>4. o \in Around(k) <=> o < k /\ ~(e < k)
  BY <1>2 DEF Around
<1> QED BY <1>1, <1>2, <1>3, <1>4 DEF Inside

LEMMA AroundIs ==
  ASSUME TypeOK, NEW k \in DOMAIN vm_scope, NEW o \in Around(k)
  PROVE  /\ o \in DOMAIN code /\ o \in Nat /\ k \in Nat /\ o < k /\ code[o].op \in Openers
         /\ o \in DOMAIN vm_scope /\ o + 1 \in DOMAIN vm_scope
<1>1. PICK m : m = Len(code)
  OBVIOUS
<1>2. m \in Nat /\ DOMAIN code = 1 .. m /\ DOMAIN vm_scope = 1 .. m + 1
  BY <1>1, CodeFacts
<1> QED BY <1>2 DEF Around

(* What is open around an open block is open inside it.                    *)
LEMMA AroundOuter ==
  ASSUME TypeOK, Resolved, NEW k \in DOMAIN vm_scope, NEW o \in Around(k)
  PROVE  Around(o) \subseteq Around(k) /\ Around(o + 1) \subseteq Around(k)
<1>1. /\ o \in DOMAIN code /\ o \in Nat /\ k \in Nat /\ o < k /\ code[o].op \in Openers
      /\ \A x \in DOMAIN code : x \in Nat
  <2>1. PICK m : m = Len(code)
    OBVIOUS
  <2> QED BY <2>1, CodeFacts, AroundIs
<1>2. ASSUME NEW p \in Around(o)
      PROVE  p \in Around(k)
  <2>1. p \in DOMAIN code /\ p < o /\ code[p].op \in Openers /\ p \in Nat
    BY <1>1 DEF Around
  <2>2. ASSUME NEW e \in DOMAIN code, e < k, code[e].op = "end", code[e].to = p
        PROVE  FALSE
    <3>1. ~(e < o)
      BY <2>2 DEF Around
    <3>2. o # e
      BY <1>1, <2>2 DEF Openers
    <3>3. o < e
      BY <1>1, <2>2, <3>1, <3>2
    <3>4. o \in Around(e)
      BY <1>1, <2>2, <3>3 DEF Around
    <3>5. \A x \in Around(e) : x <= p
      BY <2>2, EndScope
    <3> QED BY <1>1, <2>1, <3>4, <3>5
  <2> QED BY <1>1, <2>1, <2>2 DEF Around
<1>3. Around(o + 1) = Around(o) \cup {o}
  BY <1>1, AroundNext
<1> QED BY <1>2, <1>3

(* Behind the end of a block it is as before the block.                    *)
LEMMA PastEnd ==
  ASSUME TypeOK, Resolved, NEW e \in DOMAIN code, code[e].op = "end", NEW o, o = code[e].to
  PROVE  /\ e + 1 \in DOMAIN vm_scope /\ vm_scope[e + 1] = vm_scope[o]
         /\ Around(e + 1) \subseteq Around(o) /\ Around(e + 1) \subseteq Around(e)
<1>1. PICK m : m = Len(code)
  OBVIOUS
<1>2. m \in Nat /\ DOMAIN code = 1 .. m /\ DOMAIN vm_scope = 1 .. m + 1
  BY <1>1, CodeFacts
<1>3. /\ e + 1 \in DOMAIN vm_scope /\ vm_scope[e + 1] = vm_scope[o]
      /\ o \in DOMAIN code /\ o < e /\ \A x \in Around(e) : x <= o
  BY EndScope
<1>4. Around(e + 1) = Around(e) \ {o}
  BY AroundNext
<1>5. ASSUME NEW p \in Around(e + 1)
      PROVE  p \in Around(o)
  <2>1. p \in Around(e) /\ p # o /\ p <= o
    BY <1>3, <1>4
  <2>2. p < o /\ p \in Nat
    BY <1>2, <1>3, <2>1 DEF Around
  <2> QED BY <1>2, <1>3, <2>1, <2>2 DEF Around
<1> QED BY <1>3, <1>4, <1>5

(* Where a block contains no array, the arrays in scope in it are those it  *)
(* began with.                                                             *)
LEMMA NoArrays ==
  ASSUME TypeOK, Resolved, phase = "run", NEW k \in DOMAIN vm_scope, NEW o \in Around(k),
         ~ContainsVla(o), NEW x \in Scope(k), IsVla(x)
  PROVE  x \in Scope(o + 1)
<1>1. o \in DOMAIN code /\ o \in Nat /\ k \in Nat /\ o < k /\ code[o].op \in Openers
  BY AroundIs
<1>2. x > o \/ x \in Scope(o + 1)
  BY DEF Resolved, Nests
<1>3. x \in Nat /\ x < k
  BY ScopeBelow
<1>4. o < k /\ k <= EndOf(o)
  BY <1>1, AroundInside DEF Inside
<1>5. EndOf(o) \in Nat
  <2>1. PICK m : m = Len(code)
    OBVIOUS
  <2>2. DOMAIN code \subseteq Nat
    BY <2>1, CodeFacts
  <2> QED BY <1>1, <2>2, EndIs
<1>6. ~(x > o)
  BY <1>1, <1>3, <1>4, <1>5 DEF ContainsVla
<1> QED BY <1>2, <1>6

(* The scope before an open block is part of that inside it.               *)
LEMMA ScopeOuter ==
  ASSUME TypeOK, Resolved, NEW k \in DOMAIN vm_scope, NEW o \in Around(k)
  PROVE  /\ Scope(o) \subseteq Scope(o + 1) /\ Scope(o + 1) \subseteq Scope(k)
         /\ o \notin Scope(o)
<1>1. o \in DOMAIN code /\ o \in DOMAIN vm_scope /\ code[o].op # "end" /\ o \in Nat
  BY AroundIs DEF Openers
<1>2. Scope(o + 1) = IF Declares(o) THEN Scope(o) \cup {o} ELSE Scope(o)
  BY <1>1, ScopeNext
<1>3. o \notin Scope(o)
  BY <1>1, ScopeBelow
<1>4. Scope(o + 1) \subseteq Scope(k)
  BY DEF Resolved, Nests
<1> QED BY <1>2, <1>3, <1>4

-----------------------------------------------------------------------------
(* What the run's instructions do.                                         *)
LEMMA RunSave ==
  ASSUME NEW s, NEW r, NEW l, NEW a, NEW v
  PROVE  ExecuteAll(St(s, r, l, NONE), Save(v), a) = St(s, Put(r, v, s), l, NONE)
<1>1. PICK i : i = [op |-> "save", vreg |-> v]
  OBVIOUS
<1>2. i.op = "save" /\ i.vreg = v /\ Save(v) = <<i>>
  BY <1>1 DEF Save
<1>3. Execute(St(s, r, l, NONE), i, a) = St(s, Put(r, i.vreg, s), l, NONE)
  BY <1>2, ExecuteSave, Zenon
<1>4. ExecuteAll(St(s, r, l, NONE), <<i>>, a) = Execute(St(s, r, l, NONE), i, a)
  BY ExecuteOne, Zenon
<1> QED BY <1>2, <1>3, <1>4

LEMMA RunAlloc ==
  ASSUME NEW s, NEW r, NEW l, NEW a
  PROVE  ExecuteAll(St(s, r, l, NONE), Alloc, a) = St(Append(s, a), r, Append(l, a), NONE)
<1>1. PICK i : i = [op |-> "alloc", vreg |-> NONE]
  OBVIOUS
<1>2. i.op = "alloc" /\ Alloc = <<i>>
  BY <1>1 DEF Alloc
<1>3. Execute(St(s, r, l, NONE), i, a) = St(Append(s, a), r, Append(l, a), NONE)
  BY <1>2, ExecuteAlloc
<1>4. ExecuteAll(St(s, r, l, NONE), <<i>>, a) = Execute(St(s, r, l, NONE), i, a)
  BY ExecuteOne, Zenon
<1> QED BY <1>2, <1>3, <1>4

LEMMA RunRestore ==
  ASSUME NEW s, NEW r, NEW l, NEW a, NEW v
  PROVE  /\ v = NONE => ExecuteAll(St(s, r, l, NONE), Restore(v), a) = St(s, r, l, NONE)
         /\ v # NONE /\ v \in DOMAIN r =>
              ExecuteAll(St(s, r, l, NONE), Restore(v), a) = St(r[v], r, l, NONE)
         /\ v # NONE /\ v \notin DOMAIN r =>
              ExecuteAll(St(s, r, l, NONE), Restore(v), a) = St(s, r, l, v)
<1>1. PICK i : i = [op |-> "restore", vreg |-> v]
  OBVIOUS
<1>2. i.op = "restore" /\ i.vreg = v /\ (v # NONE => Restore(v) = <<i>>) /\ (v = NONE => Restore(v) = <<>>)
  BY <1>1 DEF Restore
<1>3. /\ i.vreg \in DOMAIN r => Execute(St(s, r, l, NONE), i, a) = St(r[i.vreg], r, l, NONE)
      /\ i.vreg \notin DOMAIN r => Execute(St(s, r, l, NONE), i, a) = St(s, r, l, i.vreg)
  BY <1>2, ExecuteRestore
<1>4. ExecuteAll(St(s, r, l, NONE), <<i>>, a) = Execute(St(s, r, l, NONE), i, a)
  BY ExecuteOne, Zenon
<1>5. ExecuteAll(St(s, r, l, NONE), <<>>, a) = St(s, r, l, NONE)
  BY ExecuteNone, Zenon
<1> QED BY <1>2, <1>3, <1>4, <1>5

LEMMA RunStuck ==
  ASSUME NEW s, NEW r, NEW l, NEW v, v # NONE, NEW e \in Seq(Instruction), NEW a
  PROVE  ExecuteAll(St(s, r, l, v), e, a) = St(s, r, l, v)
<1>1. PICK n, m : n = Len(e) /\ m = St(s, r, l, v)
  OBVIOUS
<1>2. n \in Nat
  BY <1>1
<1>3. PICK f : Through(m, e, a, f, n) /\ ExecuteAll(m, e, a) = f[n]
  BY <1>1, <1>2, ExecuteAllIs
<1> DEFINE T == {k \in 0 .. n : f[k] # m}
<1>4. T = {}
  <2> SUFFICES ASSUME T # {}
               PROVE  FALSE
    OBVIOUS
  <2>1. PICK k \in T : \A y \in T : k <= y
    <3>1. T \subseteq Nat
      OBVIOUS
    <3> HIDE DEF T
    <3> QED BY <3>1, LeastOf
  <2>2. k \in 0 .. n
    OBVIOUS
  <2>3. /\ k = 0 => f[k] = m
        /\ k # 0 => f[k] = Execute(f[k - 1], e[k], a)
    BY <1>2, <1>3, <2>2, ThroughLaw
  <2>4. k # 0 => k - 1 \in 0 .. n /\ ~(k <= k - 1)
    BY <1>2, <2>2
  <2>5. k # 0 => f[k - 1] = m
    BY <2>1, <2>4
  <2>6. Execute(m, e[k], a) = m
    BY <1>1, ExecuteStuck, Zenon
  <2> QED BY <2>2, <2>3, <2>5, <2>6
<1>5. n \in 0 .. n
  BY <1>2
<1> QED BY <1>1, <1>3, <1>4, <1>5

-----------------------------------------------------------------------------
(* The registers that hold what they are to hold: r has the checkpoints of  *)
(* the scope S, of the bodies of B and of the whole of the blocks of W,     *)
(* where the arrays l are live.                                            *)
Held(r, l, v, n) == v \in DOMAIN r /\ r[v] = Among(l, vm_scope[n])
Good(r, l, S, B, W) ==
  /\ l \in Seq(Array)
  /\ \A k \in DOMAIN l : l[k].of \in S /\ IsVla(l[k].of)
  /\ \A x \in S : IsVla(x) => Held(r, l, Checkpoint(x), x + 1)
  /\ Checkpoint(0) \in DOMAIN r => r[Checkpoint(0)] = <<>>
  /\ \A o \in B : Body(o) # NONE => Held(r, l, Body(o), o + 1)
  /\ \A o \in W : Whole(o) # NONE => Held(r, l, Whole(o), o)

(* Saving the pointer for a whole block, for a body, for the function.     *)
LEMMA GoodWhole ==
  ASSUME TypeOK, Agrees, NEW r, NEW l, NEW S, S \subseteq Lifetime, NEW B, NEW W,
         B \subseteq DOMAIN emitted, W \subseteq DOMAIN emitted, Good(r, l, S, B, W),
         NEW o \in DOMAIN emitted, Whole(o) # NONE, NEW s, s = Among(l, vm_scope[o])
  PROVE  Good(Put(r, Whole(o), s), l, S, B, W \cup {o})
<1>1. PICK v, q : v = Whole(o) /\ q = Put(r, v, s)
  OBVIOUS
<1>2. DOMAIN q = DOMAIN r \cup {v} /\ q[v] = s /\ \A x \in DOMAIN r : x # v => q[x] = r[x]
  BY <1>1 DEF Put
<1>3. Distinct
  BY DEF Agrees
<1>4. /\ \A x \in Lifetime : Checkpoint(x) # v
      /\ \A p \in DOMAIN emitted : Body(p) # v /\ (Whole(p) = v => p = o)
  BY <1>1, <1>3 DEF Distinct
<1>5. 0 \in Lifetime
  BY LifetimeRange
<1>6. /\ \A x \in S : IsVla(x) => Held(q, l, Checkpoint(x), x + 1)
      /\ Checkpoint(0) \in DOMAIN q => q[Checkpoint(0)] = <<>>
  BY <1>2, <1>4, <1>5 DEF Good, Held
<1>7. \A p \in B : Body(p) # NONE => Held(q, l, Body(p), p + 1)
  BY <1>2, <1>4 DEF Good, Held
<1>8. ASSUME NEW p \in W \cup {o}, Whole(p) # NONE
      PROVE  Held(q, l, Whole(p), p)
  <2>1. CASE p = o
    BY <1>1, <1>2, <2>1 DEF Held
  <2>2. CASE p # o
    BY <1>2, <1>4, <1>8, <2>2 DEF Good, Held
  <2> QED BY <2>1, <2>2
<1>9. l \in Seq(Array) /\ \A k \in DOMAIN l : l[k].of \in S /\ IsVla(l[k].of)
  BY DEF Good
<1> QED BY <1>1, <1>6, <1>7, <1>8, <1>9, Zenon DEF Good

LEMMA GoodBody ==
  ASSUME TypeOK, Agrees, NEW r, NEW l, NEW S, S \subseteq Lifetime, NEW B, NEW W,
         B \subseteq DOMAIN emitted, W \subseteq DOMAIN emitted, Good(r, l, S, B, W),
         NEW o \in DOMAIN emitted, Body(o) # NONE, NEW s, s = Among(l, vm_scope[o + 1])
  PROVE  Good(Put(r, Body(o), s), l, S, B \cup {o}, W)
<1>1. PICK v, q : v = Body(o) /\ q = Put(r, v, s)
  OBVIOUS
<1>2. DOMAIN q = DOMAIN r \cup {v} /\ q[v] = s /\ \A x \in DOMAIN r : x # v => q[x] = r[x]
  BY <1>1 DEF Put
<1>3. Distinct
  BY DEF Agrees
<1>4. /\ \A x \in Lifetime : Checkpoint(x) # v
      /\ \A p \in DOMAIN emitted : Whole(p) # v /\ (Body(p) = v => p = o)
  BY <1>1, <1>3 DEF Distinct
<1>5. 0 \in Lifetime
  BY LifetimeRange
<1>6. /\ \A x \in S : IsVla(x) => Held(q, l, Checkpoint(x), x + 1)
      /\ Checkpoint(0) \in DOMAIN q => q[Checkpoint(0)] = <<>>
  BY <1>2, <1>4, <1>5 DEF Good, Held
<1>7. \A p \in W : Whole(p) # NONE => Held(q, l, Whole(p), p)
  BY <1>2, <1>4 DEF Good, Held
<1>8. ASSUME NEW p \in B \cup {o}, Body(p) # NONE
      PROVE  Held(q, l, Body(p), p + 1)
  <2>1. CASE p = o
    BY <1>1, <1>2, <2>1 DEF Held
  <2>2. CASE p # o
    BY <1>2, <1>4, <1>8, <2>2 DEF Good, Held
  <2> QED BY <2>1, <2>2
<1>9. l \in Seq(Array) /\ \A k \in DOMAIN l : l[k].of \in S /\ IsVla(l[k].of)
  BY DEF Good
<1> QED BY <1>1, <1>6, <1>7, <1>8, <1>9, Zenon DEF Good

LEMMA GoodFirst ==
  ASSUME TypeOK, Agrees, NEW r, NEW l, NEW S, S \subseteq Lifetime, NEW B, NEW W,
         B \subseteq DOMAIN emitted, W \subseteq DOMAIN emitted, Good(r, l, S, B, W),
         Checkpoint(0) # NONE, \A x \in S : ~IsVla(x)
  PROVE  Good(Put(r, Checkpoint(0), <<>>), l, S, B, W)
<1>1. PICK v, q : v = Checkpoint(0) /\ q = Put(r, v, <<>>)
  OBVIOUS
<1>2. DOMAIN q = DOMAIN r \cup {v} /\ q[v] = <<>> /\ \A x \in DOMAIN r : x # v => q[x] = r[x]
  BY <1>1 DEF Put
<1>3. Distinct /\ 0 \in Lifetime
  BY LifetimeRange DEF Agrees
<1>4. /\ \A p \in DOMAIN emitted : Whole(p) # NONE => Whole(p) # v
      /\ \A p \in DOMAIN emitted : Body(p) # NONE => Body(p) # v
  BY <1>1, <1>3 DEF Distinct
<1>6. Checkpoint(0) \in DOMAIN q => q[Checkpoint(0)] = <<>>
  BY <1>1, <1>2
<1>7. \A p \in W : Whole(p) # NONE => Held(q, l, Whole(p), p)
  BY <1>2, <1>4 DEF Good, Held
<1>8. \A p \in B : Body(p) # NONE => Held(q, l, Body(p), p + 1)
  BY <1>2, <1>4 DEF Good, Held
<1>9. l \in Seq(Array) /\ \A k \in DOMAIN l : l[k].of \in S /\ IsVla(l[k].of)
  BY DEF Good
<1> QED BY <1>1, <1>6, <1>7, <1>8, <1>9, Zenon DEF Good

LEMMA RunFacts ==
  ASSUME TypeOK, Resolved, Agrees, phase = "run"
  PROVE  /\ DOMAIN emitted = DOMAIN code /\ DOMAIN code \subseteq Lifetime
         /\ 0 \in Lifetime /\ DOMAIN code \subseteq Nat /\ 0 \notin DOMAIN code
         /\ \A n \in DOMAIN code : Lowered(n) /\ emitted[n] \in Block
         /\ \A n \in DOMAIN code : n \in DOMAIN vm_scope /\ n + 1 \in DOMAIN vm_scope
         /\ \A n \in DOMAIN vm_scope : Around(n) \subseteq DOMAIN code /\ Scope(n) \subseteq Lifetime
         /\ \A n \in DOMAIN vm_scope : LifetimeAt(n) < Done /\ \A x \in Scope(n) : x < Done
         /\ Recorded /\ Distinct
<1>1. PICK m : m = Len(code)
  OBVIOUS
<1>2. m \in Nat /\ DOMAIN code = 1 .. m /\ DOMAIN vm_scope = 1 .. m + 1
  BY <1>1, CodeFacts
<1>3. Done = m + 1
  BY <1>1 DEF Done
<1>4. emitted \in Seq(Block) /\ Len(emitted) = Done - 1 /\ (\A n \in DOMAIN emitted : Lowered(n))
      /\ Recorded /\ Distinct
  BY DEF Agrees
<1>5. Len(emitted) = m
  BY <1>2, <1>3, <1>4
<1>6. DOMAIN emitted = 1 .. m /\ \A n \in 1 .. m : emitted[n] \in Block
  BY <1>2, <1>4, <1>5
<1>7. DOMAIN code \subseteq Lifetime /\ 0 \in Lifetime
  BY LifetimeRange
<1>8. ASSUME NEW n \in DOMAIN vm_scope
      PROVE  /\ Around(n) \subseteq DOMAIN code /\ Scope(n) \subseteq Lifetime
             /\ LifetimeAt(n) < m + 1 /\ \A x \in Scope(n) : x < m + 1
  <2>1. /\ \A x \in Scope(n) : x \in DOMAIN code /\ x \in Nat /\ x < n
        /\ LifetimeAt(n) = 0 \/ LifetimeAt(n) \in Scope(n)
    BY ScopeBelow
  <2>2. Around(n) \subseteq DOMAIN code
    BY DEF Around
  <2> QED BY <1>2, <1>7, <2>1, <2>2
<1> QED BY <1>2, <1>3, <1>4, <1>6, <1>7, <1>8

(* A register that holds what it should still does when an array outside    *)
(* its scope is made and another register is saved.                        *)
LEMMA HeldAppend ==
  ASSUME NEW r, NEW l \in Seq(Array), NEW v, NEW k, Held(r, l, v, k), NEW w, w # v, NEW s,
         NEW a \in Array, a.of \notin Scope(k)
  PROVE  Held(Put(r, w, s), Append(l, a), v, k)
<1>1. Among(Append(l, a), vm_scope[k]) = Among(l, vm_scope[k])
  BY AmongAppend, Zenon DEF Scope
<1>2. v \in DOMAIN Put(r, w, s) /\ Put(r, w, s)[v] = r[v]
  BY DEF Put, Held
<1> QED BY <1>1, <1>2 DEF Held

LEMMA GoodArray ==
  ASSUME TypeOK, Resolved, Agrees, phase = "run", NEW n \in DOMAIN code, IsVla(n),
         code[n].op \in {"decl", "loop"}, NEW r, NEW l, NEW B, NEW W,
         B \subseteq Around(n), W \subseteq Around(n) \cup {n}, Good(r, l, Scope(n), B, W),
         NEW a \in Array, a.of = n
  PROVE  Good(Put(r, Checkpoint(n), Append(l, a)), Append(l, a), Scope(n + 1), B, W)
<1>0. /\ DOMAIN emitted = DOMAIN code /\ n \in Lifetime /\ n # 0 /\ 0 \in Lifetime /\ n \in Nat
      /\ n \in DOMAIN vm_scope /\ n + 1 \in DOMAIN vm_scope /\ Distinct /\ Recorded
      /\ Around(n) \subseteq DOMAIN code /\ Scope(n) \subseteq Lifetime
  BY RunFacts
<1>1. PICK v, t : v = Checkpoint(n) /\ t = Append(l, a)
  OBVIOUS
<1>2. PICK q : q = Put(r, v, t)
  OBVIOUS
<1>3. Declares(n) /\ Checkpoint(n) # NONE
  <2>1. Declares(n)
    BY DEF IsVla, Declares
  <2>2. LifetimeAt(n + 1) < Done
    BY <1>0, RunFacts
  <2>3. LifetimeAt(n + 1) = n
    BY <2>1, ScopeNext
  <2> QED BY <1>0, <2>1, <2>2, <2>3 DEF Recorded
<1>4. Scope(n + 1) = Scope(n) \cup {n} /\ \A x \in Scope(n) : x < n /\ x \in Nat /\ x \in DOMAIN code
  BY <1>0, <1>3, ScopeNext, ScopeBelow
<1>5. /\ l \in Seq(Array) /\ (\A k \in DOMAIN l : l[k].of \in Scope(n) /\ IsVla(l[k].of))
      /\ t \in Seq(Array) /\ DOMAIN t = 1 .. Len(l) + 1 /\ t[Len(l) + 1] = a
      /\ DOMAIN l = 1 .. Len(l) /\ \A k \in 1 .. Len(l) : t[k] = l[k]
  <2>1. l \in Seq(Array) /\ (\A k \in DOMAIN l : l[k].of \in Scope(n) /\ IsVla(l[k].of))
    BY DEF Good
  <2> QED BY <1>1, <2>1, AppendFacts
<1>6. \A k \in DOMAIN t : t[k].of \in Scope(n + 1) /\ IsVla(t[k].of)
  <2>1. Len(l) \in Nat
    BY <1>5
  <2>2. \A k \in DOMAIN t : k \in 1 .. Len(l) \/ k = Len(l) + 1
    BY <1>5, <2>1
  <2> QED BY <1>4, <1>5, <2>2
<1>7. ASSUME NEW x \in Scope(n + 1), IsVla(x)
      PROVE  Held(q, t, Checkpoint(x), x + 1)
  <2>1. CASE x = n
    <3>1. \A k \in DOMAIN t : t[k].of \in Range(vm_scope[n + 1])
      BY <1>6 DEF Scope
    <3>2. Among(t, vm_scope[n + 1]) = t
      BY <1>5, <3>1, AmongAll
    <3>3. v \in DOMAIN q /\ q[v] = t
      BY <1>2 DEF Put
    <3> QED BY <1>1, <2>1, <3>2, <3>3 DEF Held
  <2>2. CASE x # n
    <3>1. x \in Scope(n) /\ x < n /\ x \in Nat /\ x \in Lifetime
      BY <1>0, <1>4, <2>2
    <3>2. Held(r, l, Checkpoint(x), x + 1)
      BY <1>7, <3>1 DEF Good
    <3>3. Checkpoint(x) # v
      BY <1>0, <1>1, <1>3, <2>2, <3>1 DEF Distinct
    <3>4. a.of \notin Scope(x + 1)
      <4>1. Scope(x + 1) \subseteq Scope(n)
        BY <1>0, <3>1, ScopeClosed
      <4>2. n \notin Scope(n)
        BY <1>0, <1>4
      <4> QED BY <4>1, <4>2
    <3> QED BY <1>1, <1>2, <1>5, <3>2, <3>3, <3>4, HeldAppend
  <2> QED BY <2>1, <2>2
<1>8. Checkpoint(0) \in DOMAIN q => q[Checkpoint(0)] = <<>>
  <2>1. Checkpoint(0) # v
    BY <1>0, <1>1, <1>3 DEF Distinct
  <2>2. Checkpoint(0) \in DOMAIN r => r[Checkpoint(0)] = <<>>
    BY DEF Good
  <2> QED BY <1>2, <2>1, <2>2 DEF Put
<1>9. ASSUME NEW o \in B, Body(o) # NONE
      PROVE  Held(q, t, Body(o), o + 1)
  <2>1. Held(r, l, Body(o), o + 1) /\ o \in Around(n)
    BY <1>9 DEF Good
  <2>2. Body(o) # v
    BY <1>0, <1>1, <1>3, <1>9, <2>1 DEF Distinct
  <2>3. a.of \notin Scope(o + 1)
    <3>1. Scope(o + 1) \subseteq Scope(n)
      BY <1>0, <2>1, ScopeOuter
    <3>2. n \notin Scope(n)
      BY <1>0, <1>4
    <3> QED BY <3>1, <3>2
  <2> QED BY <1>1, <1>2, <1>5, <2>1, <2>2, <2>3, HeldAppend
<1>10. ASSUME NEW o \in W, Whole(o) # NONE
       PROVE  Held(q, t, Whole(o), o)
  <2>1. Held(r, l, Whole(o), o) /\ o \in DOMAIN code
    BY <1>0, <1>10 DEF Good
  <2>2. Whole(o) # v
    BY <1>0, <1>1, <1>3, <1>10, <2>1 DEF Distinct
  <2>3. a.of \notin Scope(o)
    <3>1. n \notin Scope(n)
      BY <1>0, <1>4
    <3>2. CASE o = n
      BY <3>1, <3>2
    <3>3. CASE o # n
      <4>1. o \in Around(n)
        BY <3>3
      <4>2. Scope(o) \subseteq Scope(n)
        BY <1>0, <4>1, ScopeOuter
      <4> QED BY <3>1, <4>2
    <3> QED BY <3>2, <3>3
  <2> QED BY <1>1, <1>2, <1>5, <2>1, <2>2, <2>3, HeldAppend
<1> QED BY <1>1, <1>2, <1>5, <1>6, <1>7, <1>8, <1>9, <1>10, Zenon DEF Good

(* The instructions of a declaration make its array and save behind it.    *)
LEMMA DeclaringRuns ==
  ASSUME TypeOK, Resolved, Agrees, phase = "run", NEW n \in DOMAIN code,
         code[n].op \in {"decl", "loop"}, NEW d, Declaring(n, d), NEW r, NEW l, NEW B, NEW W,
         B \subseteq Around(n), W \subseteq Around(n) \cup {n}, Good(r, l, Scope(n), B, W),
         NEW a \in Array, a.of = n
  PROVE  \E q, t : /\ ExecuteAll(St(l, r, l, NONE), d, a) = St(t, q, t, NONE)
                   /\ Good(q, t, Scope(n + 1), B, W)
<1>0. /\ DOMAIN emitted = DOMAIN code /\ n \in Lifetime /\ n # 0 /\ 0 \in Lifetime /\ n \in Nat
      /\ n \in DOMAIN vm_scope /\ n + 1 \in DOMAIN vm_scope /\ Distinct /\ Recorded
      /\ Around(n) \subseteq DOMAIN code /\ Scope(n) \subseteq Lifetime
      /\ LifetimeAt(n) < Done /\ LifetimeAt(n + 1) < Done
  BY RunFacts
<1>1. Scope(n + 1) = IF Declares(n) THEN Scope(n) \cup {n} ELSE Scope(n)
  BY ScopeNext
<1>2. CASE ~IsVla(n)
  <2>1. d = <<>>
    BY <1>2 DEF Declaring
  <2>2. Good(r, l, Scope(n + 1), B, W)
    <3>1. \A x \in Scope(n + 1) : IsVla(x) => x \in Scope(n)
      BY <1>1, <1>2
    <3>2. Scope(n) \subseteq Scope(n + 1)
      BY <1>1
    <3>3. \A k \in DOMAIN l : l[k].of \in Scope(n + 1) /\ IsVla(l[k].of)
      BY <3>2 DEF Good
    <3>4. \A x \in Scope(n + 1) : IsVla(x) => Held(r, l, Checkpoint(x), x + 1)
      BY <3>1 DEF Good
    <3> QED BY <3>3, <3>4, Zenon DEF Good
  <2>3. ExecuteAll(St(l, r, l, NONE), <<>>, a) = St(l, r, l, NONE)
    BY ExecuteNone, Zenon
  <2> QED BY <2>1, <2>2, <2>3
<1>3. CASE IsVla(n)
  <2>1. PICK v, t : v = Checkpoint(n) /\ t = Append(l, a)
    OBVIOUS
  <2>2. PICK z : z = Checkpoint(0)
    OBVIOUS
  <2>3. v \in Vreg /\ z \in Vreg
    <3>1. Declares(n)
      BY <1>3 DEF IsVla, Declares
    <3>2. LifetimeAt(n + 1) = n
      BY <3>1, ScopeNext
    <3>3. v # NONE /\ z # NONE
      BY <1>0, <1>3, <2>1, <2>2, <3>1, <3>2 DEF Recorded
    <3> QED BY <1>0, <2>1, <2>2, <3>3, LifetimeRange
  <2>4. Save(v) \in Seq(Instruction) /\ Save(z) \in Seq(Instruction) /\ Alloc \in Seq(Instruction)
    BY <2>3, InstructionFacts
  <2>5. ASSUME NEW p, Good(p, l, Scope(n), B, W)
        PROVE  /\ ExecuteAll(ExecuteAll(St(l, p, l, NONE), Alloc, a), Save(v), a) = St(t, Put(p, v, t), t, NONE)
               /\ Good(Put(p, v, t), t, Scope(n + 1), B, W)
    <3>1. ExecuteAll(St(l, p, l, NONE), Alloc, a) = St(t, p, t, NONE)
      BY <2>1, RunAlloc
    <3>2. ExecuteAll(St(t, p, t, NONE), Save(v), a) = St(t, Put(p, v, t), t, NONE)
      BY RunSave, Zenon
    <3>3. Good(Put(p, Checkpoint(n), Append(l, a)), Append(l, a), Scope(n + 1), B, W)
      BY <1>3, <2>5, GoodArray
    <3> QED BY <2>1, <3>1, <3>2, <3>3
  <2>6. CASE d = Alloc \o Save(v)
    <3>1. ExecuteAll(St(l, r, l, NONE), d, a) = ExecuteAll(ExecuteAll(St(l, r, l, NONE), Alloc, a), Save(v), a)
      BY <2>4, <2>6, ExecuteBoth
    <3> QED BY <2>5, <3>1
  <2>7. CASE Canonical(LifetimeAt(n)) = 0 /\ d = Save(z) \o Alloc \o Save(v)
    <3>1. PICK e : e = Save(z) \o Alloc
      OBVIOUS
    <3>2. e \in Seq(Instruction) /\ d = e \o Save(v)
      BY <2>4, <2>7, <3>1, SeqFacts, Zenon
    <3>3. ExecuteAll(St(l, r, l, NONE), d, a) = ExecuteAll(ExecuteAll(St(l, r, l, NONE), e, a), Save(v), a)
      BY <2>4, <3>2, ExecuteBoth
    <3>4. ExecuteAll(St(l, r, l, NONE), e, a) = ExecuteAll(ExecuteAll(St(l, r, l, NONE), Save(z), a), Alloc, a)
      BY <2>4, <3>1, ExecuteBoth
    <3>5. ExecuteAll(St(l, r, l, NONE), Save(z), a) = St(l, Put(r, z, l), l, NONE)
      BY RunSave, Zenon
    <3>6. \A x \in Scope(n) : ~IsVla(x)
      BY <1>0, <2>7, CanonScope DEF CanonicalIs
    <3>7. l = <<>>
      <4>1. l \in Seq(Array) /\ \A k \in DOMAIN l : l[k].of \in Scope(n) /\ IsVla(l[k].of)
        BY DEF Good
      <4> QED BY <3>6, <4>1
    <3>8. Good(Put(r, z, l), l, Scope(n), B, W)
      <4>1. B \subseteq DOMAIN emitted /\ W \subseteq DOMAIN emitted /\ Checkpoint(0) # NONE
        BY <1>0, <2>2, <2>3, InstructionFacts
      <4>2. Good(Put(r, Checkpoint(0), <<>>), l, Scope(n), B, W)
        BY <1>0, <3>6, <4>1, GoodFirst
      <4> QED BY <2>2, <3>7, <4>2
    <3>9. PICK p : p = Put(r, z, l)
      OBVIOUS
    <3>10. Good(p, l, Scope(n), B, W)
      BY <3>8, <3>9
    <3>11. /\ ExecuteAll(ExecuteAll(St(l, p, l, NONE), Alloc, a), Save(v), a) = St(t, Put(p, v, t), t, NONE)
           /\ Good(Put(p, v, t), t, Scope(n + 1), B, W)
      BY <2>5, <3>10
    <3>12. ExecuteAll(St(l, r, l, NONE), d, a) = St(t, Put(p, v, t), t, NONE)
      BY <3>3, <3>4, <3>5, <3>9, <3>11
    <3> QED BY <3>11, <3>12
  <2>8. \/ d = Alloc \o Save(v)
        \/ Canonical(LifetimeAt(n)) = 0 /\ d = Save(z) \o Alloc \o Save(v)
    BY <1>3, <2>1, <2>2 DEF Declaring
  <2> QED BY <2>6, <2>7, <2>8
<1> QED BY <1>2, <1>3

(* The instructions that lead out of a scope leave the stack with what is   *)
(* in scope there, if the function's own checkpoint is not missing.        *)
LEMMA ReleasingRuns ==
  ASSUME TypeOK, Resolved, Agrees, phase = "run", NEW n \in DOMAIN vm_scope,
         NEW k \in DOMAIN vm_scope, Scope(k) \subseteq Scope(n), NEW e, Releasing(n, k, e),
         NEW r, NEW l, NEW B, NEW W, Good(r, l, Scope(n), B, W), NEW a
  PROVE  \/ ExecuteAll(St(l, r, l, NONE), e, a) = St(Among(l, vm_scope[k]), r, l, NONE)
         \/ /\ ExecuteAll(St(l, r, l, NONE), e, a) = St(l, r, l, Checkpoint(0))
            /\ Checkpoint(0) # NONE
<1>0. /\ Recorded /\ LifetimeAt(n) < Done /\ LifetimeAt(k) < Done
  BY RunFacts
<1>1. PICK c : c = Canonical(LifetimeAt(k))
  OBVIOUS
<1>2. CanonicalIs(k, c) /\ CanonicalIs(n, Canonical(LifetimeAt(n)))
  BY <1>0, <1>1, CanonScope
<1>3. l \in Seq(Array) /\ \A j \in DOMAIN l : l[j].of \in Scope(n) /\ IsVla(l[j].of)
  BY DEF Good
<1>4. CASE Canonical(LifetimeAt(n)) = c
  <2>1. e = <<>>
    BY <1>1, <1>4 DEF Releasing
  <2>2. \A x \in Scope(n) : IsVla(x) => x \in Scope(k)
    <3>1. CASE c = 0
      BY <1>2, <1>4, <3>1 DEF CanonicalIs
    <3>2. CASE c # 0
      BY <1>2, <1>4, <3>2, CanonicalArrays
    <3> QED BY <3>1, <3>2
  <2>3. \A j \in DOMAIN l : l[j].of \in Range(vm_scope[k])
    BY <1>3, <2>2 DEF Scope
  <2>4. Among(l, vm_scope[k]) = l
    BY <1>3, <2>3, AmongAll
  <2>5. ExecuteAll(St(l, r, l, NONE), <<>>, a) = St(l, r, l, NONE)
    BY ExecuteNone, Zenon
  <2> QED BY <2>1, <2>4, <2>5
<1>5. CASE Canonical(LifetimeAt(n)) # c
  <2>1. PICK v : v = Checkpoint(c)
    OBVIOUS
  <2>2. v # NONE /\ e = Restore(v)
    BY <1>1, <1>5, <2>1 DEF Releasing
  <2>3. /\ v \in DOMAIN r => ExecuteAll(St(l, r, l, NONE), e, a) = St(r[v], r, l, NONE)
        /\ v \notin DOMAIN r => ExecuteAll(St(l, r, l, NONE), e, a) = St(l, r, l, v)
    BY <2>2, RunRestore
  <2>4. CASE c # 0
    <3>1. c \in DOMAIN code /\ IsVla(c) /\ c \in Scope(k)
          /\ \A x : IsVla(x) => (x \in Scope(k) <=> x \in Scope(c + 1))
      BY <1>2, <2>4, CanonicalArrays
    <3>2. Held(r, l, v, c + 1)
      BY <2>1, <3>1 DEF Good
    <3>3. \A j \in DOMAIN l : l[j].of \in Range(vm_scope[c + 1]) <=> l[j].of \in Range(vm_scope[k])
      BY <1>3, <3>1 DEF Scope
    <3>4. Among(l, vm_scope[c + 1]) = Among(l, vm_scope[k])
      BY <1>3, <3>3, AmongSame
    <3> QED BY <2>3, <3>2, <3>4 DEF Held
  <2>5. CASE c = 0 /\ v \in DOMAIN r
    <3>1. r[v] = <<>>
      BY <2>1, <2>5 DEF Good
    <3>2. \A x \in Scope(k) : ~IsVla(x)
      BY <1>2, <2>5 DEF CanonicalIs
    <3>3. PICK b : b = Among(l, vm_scope[k])
      OBVIOUS
    <3>4. b \in Seq(Array) /\ \A i \in DOMAIN b : b[i].of \in Scope(k) /\ \E j \in DOMAIN l : b[i] = l[j]
      <4>1. PICK s : s = vm_scope[k]
        OBVIOUS
      <4>2. /\ Among(l, s) \in Seq(Array)
            /\ \A i \in DOMAIN Among(l, s) :
                 /\ Among(l, s)[i].of \in Range(s)
                 /\ \E j \in DOMAIN l : Among(l, s)[i] = l[j]
        BY <1>3, AmongType
      <4>3. Scope(k) = Range(s) /\ b = Among(l, s)
        BY <3>3, <4>1 DEF Scope
      <4> QED BY <4>2, <4>3
    <3>5. b = <<>>
      <4>1. \A i \in DOMAIN b : FALSE
        BY <1>3, <3>2, <3>4
      <4> QED BY <3>4, <4>1
    <3> QED BY <2>3, <2>5, <3>1, <3>3, <3>5
  <2>6. CASE c = 0 /\ v \notin DOMAIN r
    BY <2>1, <2>2, <2>3, <2>6
  <2> QED BY <2>4, <2>5, <2>6
<1> QED BY <1>4, <1>5

-----------------------------------------------------------------------------
(* A step of the run.                                                      *)

(* Where the run has left scopes, what is kept for those around is right.  *)
LEMMA Arrival ==
  ASSUME TypeOK, Resolved, NEW to \in DOMAIN vm_scope, NEW h \in DOMAIN vm_scope,
         h = to \/ (h = to + 1 /\ to \in DOMAIN code /\ code[to].op = "loop"),
         NEW r, NEW l, NEW S, NEW B, NEW W, Good(r, l, S, B, W),
         Scope(h) \subseteq S, Around(to) \subseteq B, Around(h) \subseteq W
  PROVE  Good(r, Among(l, vm_scope[h]), Scope(h), Around(to), Around(h))
<1>1. PICK s, t : s = vm_scope[h] /\ t = Among(l, s)
  OBVIOUS
<1>2. l \in Seq(Array) /\ \A k \in DOMAIN l : l[k].of \in S /\ IsVla(l[k].of)
  BY DEF Good
<1>3. /\ Among(l, s) \in Seq(Array)
      /\ \A i \in DOMAIN Among(l, s) :
           Among(l, s)[i].of \in Range(s) /\ \E j \in DOMAIN l : Among(l, s)[i] = l[j]
  BY <1>2, AmongType
<1>4. t \in Seq(Array) /\ \A k \in DOMAIN t : t[k].of \in Scope(h) /\ IsVla(t[k].of)
  <2>1. Scope(h) = Range(s)
    BY <1>1 DEF Scope
  <2> QED BY <1>1, <1>2, <1>3, <2>1
<1>5. ASSUME NEW v, NEW k, Held(r, l, v, k), Scope(k) \subseteq Scope(h)
      PROVE  Held(r, t, v, k)
  <2>1. Range(vm_scope[k]) \subseteq Range(s)
    BY <1>1, <1>5 DEF Scope
  <2>2. Among(Among(l, s), vm_scope[k]) = Among(l, vm_scope[k])
    BY <1>2, <2>1, AmongAmong
  <2> QED BY <1>1, <1>5, <2>2 DEF Held
<1>6. ASSUME NEW x \in Scope(h), IsVla(x)
      PROVE  Held(r, t, Checkpoint(x), x + 1)
  <2>1. Held(r, l, Checkpoint(x), x + 1)
    BY <1>6 DEF Good
  <2>2. Scope(x + 1) \subseteq Scope(h)
    BY ScopeClosed
  <2> QED BY <1>5, <2>1, <2>2
<1>7. Scope(to) \subseteq Scope(h)
  <2>1. CASE h = to
    BY <2>1
  <2>2. CASE h = to + 1 /\ to \in DOMAIN code /\ code[to].op = "loop"
    <3>1. Scope(to + 1) = IF Declares(to) THEN Scope(to) \cup {to} ELSE Scope(to)
      BY <2>2, ScopeNext
    <3> QED BY <2>2, <3>1
  <2> QED BY <2>1, <2>2
<1>8. ASSUME NEW o \in Around(to), Body(o) # NONE
      PROVE  Held(r, t, Body(o), o + 1)
  <2>1. Held(r, l, Body(o), o + 1)
    BY <1>8 DEF Good
  <2>2. Scope(o + 1) \subseteq Scope(h)
    BY <1>7, ScopeOuter
  <2> QED BY <1>5, <2>1, <2>2
<1>9. ASSUME NEW o \in Around(h), Whole(o) # NONE
      PROVE  Held(r, t, Whole(o), o)
  <2>1. Held(r, l, Whole(o), o)
    BY <1>9 DEF Good
  <2>2. Scope(o) \subseteq Scope(h)
    BY ScopeOuter
  <2> QED BY <1>5, <2>1, <2>2
<1>10. Checkpoint(0) \in DOMAIN r => r[Checkpoint(0)] = <<>>
  BY DEF Good
<1>11. Good(r, t, Scope(h), Around(to), Around(h))
  BY <1>4, <1>6, <1>8, <1>9, <1>10, Zenon DEF Good
<1> QED BY <1>1, <1>11

(* The instructions e take the run to where the item at to is next, with    *)
(* the scope before h.                                                     *)
Lands(e, to, h) ==
  \A a \in Array : a.of = at =>
    \E s, r, l, u :
      /\ ExecuteAll(St(stack, saved, live, NONE), e, a) = St(s, r, l, u)
      /\ u \in {NONE, Checkpoint(0)}
      /\ u = NONE => /\ s = Among(l, vm_scope[h])
                     /\ Good(r, Among(l, vm_scope[h]), Scope(h), Around(to), Around(h))

LEMMA GoTypes ==
  ASSUME TypeOK, Resolved, Untouched, Agrees, phase = "run", at \in DOMAIN vm_scope,
         NEW e \in Seq(Instruction), NEW to \in DOMAIN vm_scope, NEW test \in BOOLEAN,
         Go(e, to, test)
  PROVE  TypeOK' /\ Resolved' /\ Untouched' /\ Agrees'
<1>1. UNCHANGED <<phase, code, vm_scope, open, lifetimes, current, entry, vregs, emitted>>
      /\ at' = to /\ testing' = test
  BY DEF Go, resolving, lowering
<1>p. PICK size \in Size : \E a, h :
        /\ a = [of |-> at, size |-> size] /\ h = vm_scope[IF test THEN to + 1 ELSE to]
        /\ stack' = ExecuteAll(St(stack, saved, live, NONE), e, a).stack
        /\ saved' = ExecuteAll(St(stack, saved, live, NONE), e, a).saved
        /\ unsaved' = ExecuteAll(St(stack, saved, live, NONE), e, a).unsaved
        /\ live' = Among(ExecuteAll(St(stack, saved, live, NONE), e, a).live, h)
  BY Zenon DEF Go, St
<1>2. PICK a, h :
        /\ a = [of |-> at, size |-> size] /\ h = vm_scope[IF test THEN to + 1 ELSE to]
        /\ stack' = ExecuteAll(St(stack, saved, live, NONE), e, a).stack
        /\ saved' = ExecuteAll(St(stack, saved, live, NONE), e, a).saved
        /\ unsaved' = ExecuteAll(St(stack, saved, live, NONE), e, a).unsaved
        /\ live' = Among(ExecuteAll(St(stack, saved, live, NONE), e, a).live, h)
  BY <1>p, Zenon
<1>3. at \in Position /\ to \in 0 .. Length + 1
  <2>1. PICK m : m = Len(code)
    OBVIOUS
  <2> QED BY <2>1, CodeFacts DEF Position
<1>4. a \in Array
  BY <1>2, <1>3 DEF Array
<1>5. Typed(St(stack, saved, live, NONE))
  BY Zenon DEF Typed, TypeOK
<1>6. PICK m : m = ExecuteAll(St(stack, saved, live, NONE), e, a)
  OBVIOUS
<1>7. Typed(m)
  BY <1>4, <1>5, <1>6, ExecuteAllType
<1>q. PICK s \in Seq(Array), l \in Seq(Array), u \in Vreg \cup {NONE} : \E r :
        /\ m = St(s, r, l, u)
        /\ DOMAIN r \subseteq Vreg /\ \A v \in DOMAIN r : r[v] \in Seq(Array)
  BY <1>7, Zenon DEF Typed
<1>8. PICK r :
        /\ m = St(s, r, l, u)
        /\ DOMAIN r \subseteq Vreg /\ \A v \in DOMAIN r : r[v] \in Seq(Array)
  BY <1>q, Zenon
<1>9. m.stack = s /\ m.saved = r /\ m.live = l /\ m.unsaved = u
  BY <1>8, StFields
<1>10. Among(l, h) \in Seq(Array)
  BY AmongType
<1>11. /\ stack' \in Seq(Array) /\ live' \in Seq(Array) /\ unsaved' \in Vreg \cup {NONE}
       /\ DOMAIN saved' \subseteq Vreg /\ \A v \in DOMAIN saved' : saved'[v] \in Seq(Array)
  BY <1>2, <1>6, <1>8, <1>9, <1>10
<1>12. TypeOK'
  BY <1>1, <1>3, <1>11, Zenon DEF TypeOK
<1>13. Resolved'
  BY <1>1, ResolvedKept
<1>14. Untouched'
  BY <1>1 DEF Untouched
<1>15. Done' = Done
  BY <1>1 DEF Done
<1>16. Agrees'
  BY <1>1, <1>15, AgreesKept
<1> QED BY <1>12, <1>13, <1>14, <1>16

LEMMA LandsStep ==
  ASSUME TypeOK, Resolved, phase = "run", at \in DOMAIN vm_scope,
         NEW e, NEW to \in DOMAIN vm_scope, NEW test \in BOOLEAN, Go(e, to, test),
         NEW h, h = IF test THEN to + 1 ELSE to,
         test => to \in DOMAIN code /\ code[to].op = "loop", ~EntersBlock => Lands(e, to, h)
  PROVE  Runs'
<1>1. UNCHANGED <<phase, code, vm_scope, open, lifetimes, current, entry, vregs, emitted>>
      /\ at' = to /\ testing' = test
  BY DEF Go, resolving, lowering
<1>p. PICK size \in Size : \E a, m :
        /\ a = [of |-> at, size |-> size] /\ m = ExecuteAll(St(stack, saved, live, NONE), e, a)
        /\ stack' = m.stack /\ saved' = m.saved /\ unsaved' = m.unsaved
        /\ live' = Among(m.live, vm_scope[IF test THEN to + 1 ELSE to])
  BY Zenon DEF Go, St
<1>2. PICK a, m :
        /\ a = [of |-> at, size |-> size] /\ m = ExecuteAll(St(stack, saved, live, NONE), e, a)
        /\ stack' = m.stack /\ saved' = m.saved /\ unsaved' = m.unsaved
        /\ live' = Among(m.live, vm_scope[IF test THEN to + 1 ELSE to])
  BY <1>p, Zenon
<1>3. at \in Position
  <2>1. PICK n : n = Len(code)
    OBVIOUS
  <2> QED BY <2>1, CodeFacts DEF Position
<1>4. a \in Array /\ a.of = at
  BY <1>2, <1>3 DEF Array
<1>5. EntersBlock' = EntersBlock
  <2>1. \A x : EndOf(x)' = EndOf(x)
    BY <1>1, StaticKept
  <2>2. \A x, y : Inside(x, y)' = Inside(x, y)
    BY <2>1 DEF Inside
  <2>3. \A n, o : Inside(code[n].to, o)' = Inside(code[n].to, o)
    BY <1>1, <2>1 DEF Inside
  <2> QED BY <1>1, <2>2, <2>3, Zenon DEF EntersBlock
<1>6. ASSUME ~EntersBlock
      PROVE  unsaved' \in {NONE, Checkpoint(0)} /\ (unsaved' = NONE => Exact')
  <2>1. PICK s, r, l, u :
          /\ m = St(s, r, l, u) /\ u \in {NONE, Checkpoint(0)}
          /\ u = NONE => /\ s = Among(l, vm_scope[h])
                         /\ Good(r, Among(l, vm_scope[h]), Scope(h), Around(to), Around(h))
    BY <1>2, <1>4, <1>6, Zenon DEF Lands
  <2>2. m.stack = s /\ m.saved = r /\ m.live = l /\ m.unsaved = u
    BY <2>1, StFields
  <2>3. PICK t : t = Among(l, vm_scope[h])
    OBVIOUS
  <2>4. stack' = s /\ saved' = r /\ unsaved' = u /\ live' = t
    BY <1>2, <2>2, <2>3
  <2>5. ASSUME u = NONE
        PROVE  Exact'
    <3>1. s = t /\ Good(r, t, Scope(h), Around(to), Around(h))
      BY <2>1, <2>3, <2>5
    <3>2. Here' = h
      BY <1>1 DEF Here
    <3>3. Scope(Here)' = Scope(h) /\ Around(at)' = Around(to) /\ Around(Here)' = Around(h)
      BY <1>1, <3>2, Zenon DEF Scope, Around
    <3>4. /\ \A x : IsVla(x)' = IsVla(x) /\ Checkpoint(x)' = Checkpoint(x)
          /\ \A x : Body(x)' = Body(x) /\ Whole(x)' = Whole(x)
      BY <1>1, Zenon DEF IsVla, Checkpoint, Body, Whole
    <3>5. \A x : live'[x].of = t[x].of /\ IsVla(live[x].of)' = IsVla(t[x].of)
      BY <1>1, <2>4, Zenon DEF IsVla
    <3>6. (stack = live)' /\ \A k \in DOMAIN live' : live'[k].of \in Scope(Here)' /\ IsVla(live[k].of)'
      BY <2>4, <3>1, <3>3, <3>5 DEF Good
    <3>7. \A v, k : Held(r, t, v, k) => Keeps(v, k)'
      BY <1>1, <2>4 DEF Held, Keeps
    <3>8. \A x \in Scope(h) : IsVla(x) => Keeps(Checkpoint(x), x + 1)'
      <4> SUFFICES ASSUME NEW x \in Scope(h), IsVla(x)
                   PROVE  Keeps(Checkpoint(x), x + 1)'
        OBVIOUS
      <4>1. Held(r, t, Checkpoint(x), x + 1)
        BY <3>1 DEF Good
      <4>2. PICK c : c = Checkpoint(x)
        OBVIOUS
      <4>3. Keeps(c, x + 1)' /\ Checkpoint(x)' = c
        BY <3>4, <3>7, <4>1, <4>2
      <4> QED BY <4>3, Zenon DEF Keeps
    <3>9. Checkpoint(0)' \in DOMAIN saved' => saved'[Checkpoint(0)'] = <<>>
      BY <2>4, <3>1, <3>4 DEF Good
    <3>10. \A o \in Around(to) : Body(o)' # NONE => Keeps(Body(o), o + 1)'
      <4> SUFFICES ASSUME NEW o \in Around(to), Body(o)' # NONE
                   PROVE  Keeps(Body(o), o + 1)'
        OBVIOUS
      <4>2. PICK c : c = Body(o)
        OBVIOUS
      <4>1. Held(r, t, c, o + 1)
        BY <3>1, <3>4, <4>2 DEF Good
      <4>3. Keeps(c, o + 1)' /\ Body(o)' = c
        BY <3>4, <3>7, <4>1, <4>2
      <4> QED BY <4>3, Zenon DEF Keeps
    <3>11. \A o \in Around(h) : Whole(o)' # NONE => Keeps(Whole(o), o)'
      <4> SUFFICES ASSUME NEW o \in Around(h), Whole(o)' # NONE
                   PROVE  Keeps(Whole(o), o)'
        OBVIOUS
      <4>2. PICK c : c = Whole(o)
        OBVIOUS
      <4>1. Held(r, t, c, o)
        BY <3>1, <3>4, <4>2 DEF Good
      <4>3. Keeps(c, o)' /\ Whole(o)' = c
        BY <3>4, <3>7, <4>1, <4>2
      <4> QED BY <4>3, Zenon DEF Keeps
    <3>12. \A x \in Scope(Here)' : IsVla(x)' => Keeps(Checkpoint(x), x + 1)'
      BY <3>3, <3>4, <3>8
    <3>13. \A o \in Around(at)' : Body(o)' # NONE => Keeps(Body(o), o + 1)'
      BY <3>3, <3>10
    <3>14. \A o \in Around(Here)' : Whole(o)' # NONE => Keeps(Whole(o), o)'
      BY <3>3, <3>11
    <3> QED BY <3>6, <3>9, <3>12, <3>13, <3>14, Zenon DEF Exact
  <2> QED BY <2>1, <2>4, <2>5
<1>7. PICK c : c = Checkpoint(0)
  OBVIOUS
<1>8. Checkpoint(0)' = c
  BY <1>1, <1>7 DEF Checkpoint
<1>9. ~EntersBlock' => unsaved' \in {NONE, Checkpoint(0)'} /\ (unsaved' = NONE => Exact')
  BY <1>5, <1>6, <1>7, <1>8
<1>10. at' \in DOMAIN vm_scope' /\ (testing' => at' \in DOMAIN code' /\ code'[at'].op = "loop")
  BY <1>1
<1> QED BY <1>9, <1>10, Zenon DEF Runs

(* Before an item, or at the condition of a loop, in a function whose loops *)
(* and switches are entered at their heads.                                *)
Stands(n, h) ==
  /\ TypeOK /\ Resolved /\ Agrees /\ phase = "run" /\ ~EntersBlock
  /\ n = at /\ n \in DOMAIN code /\ h \in DOMAIN vm_scope /\ stack = live
  /\ Good(saved, live, Scope(h), Around(n), Around(h))

(* What the instructions leave where the run goes on before h.             *)
Ends(e, h, S, B, W) ==
  \A a \in Array : a.of = at =>
    \E s, r, l, u :
      /\ ExecuteAll(St(stack, saved, live, NONE), e, a) = St(s, r, l, u)
      /\ u \in {NONE, Checkpoint(0)}
      /\ u = NONE => s = Among(l, vm_scope[h]) /\ Good(r, l, S, B, W)

LEMMA StandsAt ==
  ASSUME TypeOK, Resolved, Agrees, phase = "run", ~EntersBlock, Runs, unsaved = NONE,
         NEW n \in DOMAIN code, n = at
  PROVE  testing \in BOOLEAN /\ Stands(n, IF testing THEN n + 1 ELSE n)
<1>1. Exact
  BY DEF Runs
<1>2. PICK h : h = IF testing THEN n + 1 ELSE n
  OBVIOUS
<1>3. Here = h
  BY <1>2 DEF Here
<1>4. h \in DOMAIN vm_scope
  BY <1>2, RunFacts
<1>5. live \in Seq(Array) /\ testing \in BOOLEAN
  BY DEF TypeOK
<1>6. \A v, k : Keeps(v, k) => Held(saved, live, v, k)
  BY Zenon DEF Keeps, Held
<1>7. Good(saved, live, Scope(h), Around(n), Around(h))
  BY <1>1, <1>3, <1>5, <1>6, Zenon DEF Exact, Good
<1> QED BY <1>1, <1>2, <1>4, <1>5, <1>7, Zenon DEF Exact, Stands

LEMMA EndsLands ==
  ASSUME TypeOK, Resolved, NEW to \in DOMAIN vm_scope, NEW h \in DOMAIN vm_scope,
         h = to \/ (h = to + 1 /\ to \in DOMAIN code /\ code[to].op = "loop"),
         NEW e, NEW S, NEW B, NEW W, Ends(e, h, S, B, W),
         Scope(h) \subseteq S, Around(to) \subseteq B, Around(h) \subseteq W
  PROVE  Lands(e, to, h)
<1> SUFFICES ASSUME NEW a \in Array, a.of = at
             PROVE  \E s, r, l, u :
                      /\ ExecuteAll(St(stack, saved, live, NONE), e, a) = St(s, r, l, u)
                      /\ u \in {NONE, Checkpoint(0)}
                      /\ u = NONE => /\ s = Among(l, vm_scope[h])
                                     /\ Good(r, Among(l, vm_scope[h]), Scope(h), Around(to), Around(h))
  BY Zenon DEF Lands
<1>1. PICK s, r, l, u :
        /\ ExecuteAll(St(stack, saved, live, NONE), e, a) = St(s, r, l, u)
        /\ u \in {NONE, Checkpoint(0)}
        /\ u = NONE => s = Among(l, vm_scope[h]) /\ Good(r, l, S, B, W)
  BY Zenon DEF Ends
<1>2. u = NONE => Good(r, Among(l, vm_scope[h]), Scope(h), Around(to), Around(h))
  BY <1>1, Arrival
<1>3. u = NONE => /\ s = Among(l, vm_scope[h])
                  /\ Good(r, Among(l, vm_scope[h]), Scope(h), Around(to), Around(h))
  BY <1>1, <1>2
<1> QED BY <1>1, <1>3

(* Blocks without a register may be added.                                 *)
LEMMA GoodMore ==
  ASSUME NEW r, NEW l, NEW S, NEW B, NEW W, Good(r, l, S, B, W), NEW C, NEW X,
         \A o \in C : o \in B \/ Body(o) = NONE, \A o \in X : o \in W \/ Whole(o) = NONE
  PROVE  Good(r, l, S, C, X)
<1>1. \A o \in C : Body(o) # NONE => Held(r, l, Body(o), o + 1)
  BY DEF Good
<1>2. \A o \in X : Whole(o) # NONE => Held(r, l, Whole(o), o)
  BY DEF Good
<1> QED BY <1>1, <1>2, Zenon DEF Good

(* Where the same arrays are in scope, the same are live.                  *)
LEMMA AmongArrays ==
  ASSUME NEW r, NEW l, NEW S, NEW B, NEW W, Good(r, l, S, B, W), NEW k,
         \A x \in S : IsVla(x) => x \in Scope(k)
  PROVE  Among(l, vm_scope[k]) = l
<1>1. l \in Seq(Array) /\ \A j \in DOMAIN l : l[j].of \in Range(vm_scope[k])
  BY DEF Good, Scope
<1> QED BY <1>1, AmongAll

LEMMA EndsNothing ==
  ASSUME NEW n, NEW h, Stands(n, h), NEW k, \A x \in Scope(h) : IsVla(x) => x \in Scope(k)
  PROVE  Ends(<<>>, k, Scope(h), Around(n), Around(h))
<1>1. stack = live /\ Good(saved, live, Scope(h), Around(n), Around(h))
  BY DEF Stands
<1>2. Among(live, vm_scope[k]) = live
  BY <1>1, AmongArrays
<1>3. \A a : ExecuteAll(St(stack, saved, live, NONE), <<>>, a) = St(stack, saved, live, NONE)
  BY ExecuteNone, Zenon
<1> QED BY <1>1, <1>2, <1>3, Zenon DEF Ends

LEMMA EndsMore ==
  ASSUME NEW e, NEW h, NEW S, NEW B, NEW W, Ends(e, h, S, B, W), NEW C, NEW X,
         \A o \in C : o \in B \/ Body(o) = NONE, \A o \in X : o \in W \/ Whole(o) = NONE
  PROVE  Ends(e, h, S, C, X)
<1>1. \A r, l : Good(r, l, S, B, W) => Good(r, l, S, C, X)
  BY GoodMore, Zenon
<1> QED BY <1>1, Zenon DEF Ends

-----------------------------------------------------------------------------
(* Each way the run takes leads to where it is exact.                      *)
LEMMA DeclLands ==
  ASSUME NEW n, Stands(n, n), code[n].op = "decl", NEW e, e = emitted[n].enter
  PROVE  Lands(e, n + 1, n + 1)
<1>1. /\ TypeOK /\ Resolved /\ Agrees /\ phase = "run" /\ n = at /\ n \in DOMAIN code /\ stack = live
      /\ Good(saved, live, Scope(n), Around(n), Around(n))
  BY DEF Stands
<1>2. Declaring(n, e) /\ n + 1 \in DOMAIN vm_scope
  BY <1>1, RunFacts DEF Lowered
<1>3. Ends(e, n + 1, Scope(n + 1), Around(n), Around(n))
  <2> SUFFICES ASSUME NEW a \in Array, a.of = n
               PROVE  \E s, r, l, u :
                        /\ ExecuteAll(St(stack, saved, live, NONE), e, a) = St(s, r, l, u)
                        /\ u \in {NONE, Checkpoint(0)}
                        /\ u = NONE => /\ s = Among(l, vm_scope[n + 1])
                                       /\ Good(r, l, Scope(n + 1), Around(n), Around(n))
    BY <1>1, Zenon DEF Ends
  <2>1. PICK q, t : /\ ExecuteAll(St(live, saved, live, NONE), e, a) = St(t, q, t, NONE)
                    /\ Good(q, t, Scope(n + 1), Around(n), Around(n))
    BY <1>1, <1>2, DeclaringRuns
  <2>2. Among(t, vm_scope[n + 1]) = t
    BY <2>1, AmongArrays
  <2> QED BY <1>1, <2>1, <2>2
<1>4. Around(n + 1) = Around(n)
  BY <1>1, AroundNext DEF Openers
<1> QED BY <1>1, <1>2, <1>3, <1>4, EndsLands

LEMMA OnLands ==
  ASSUME NEW n, Stands(n, n), code[n].op \in Jumps \cup {"scope", "case"}
  PROVE  Lands(<<>>, n + 1, n + 1)
<1>1. TypeOK /\ Resolved /\ Agrees /\ phase = "run" /\ n = at /\ n \in DOMAIN code
  BY DEF Stands
<1>2. n + 1 \in DOMAIN vm_scope /\ Lowered(n)
  BY <1>1, RunFacts
<1>3. Scope(n + 1) = Scope(n)
  BY <1>1, LifetimeOn DEF Jumps
<1>4. Ends(<<>>, n + 1, Scope(n), Around(n), Around(n))
  BY <1>3, EndsNothing
<1>5. \A o \in Around(n + 1) : o \in Around(n) \/ (Body(o) = NONE /\ Whole(o) = NONE)
  <2>1. CASE code[n].op = "scope"
    <3>1. Around(n + 1) = Around(n) \cup {n}
      BY <1>1, <2>1, AroundNext DEF Openers
    <3>2. Body(n) = NONE /\ Whole(n) = NONE
      BY <1>2, <2>1 DEF Lowered, Body, Whole
    <3> QED BY <3>1, <3>2
  <2>2. CASE code[n].op # "scope"
    <3>1. Around(n + 1) = Around(n)
      BY <1>1, <2>2, AroundNext DEF Openers, Jumps
    <3> QED BY <3>1
  <2> QED BY <2>1, <2>2
<1>6. Ends(<<>>, n + 1, Scope(n), Around(n + 1), Around(n + 1))
  BY <1>4, <1>5, EndsMore
<1> QED BY <1>1, <1>2, <1>3, <1>6, EndsLands

(* What a block's instructions may be.                                     *)
LEMMA BlockCode ==
  ASSUME TypeOK, Resolved, Agrees, phase = "run", NEW n \in DOMAIN code
  PROVE  /\ emitted[n].enter \in Seq(Instruction) /\ emitted[n].body \in Seq(Instruction)
         /\ emitted[n].exit \in Seq(Instruction)
BY RunFacts DEF Block

(* Past a block the blocks are those around it.                            *)
LEMMA BehindBlock ==
  ASSUME TypeOK, Resolved, phase = "run", NEW o \in DOMAIN code, code[o].op \in Openers
  PROVE  /\ EndOf(o) + 1 \in DOMAIN vm_scope /\ vm_scope[EndOf(o) + 1] = vm_scope[o]
         /\ Scope(EndOf(o) + 1) = Scope(o) /\ Around(EndOf(o) + 1) \subseteq Around(o)
<1>1. PICK e : e = EndOf(o)
  OBVIOUS
<1>2. e \in DOMAIN code /\ code[e].op = "end" /\ code[e].to = o
  BY <1>1, EndIs
<1>3. e + 1 \in DOMAIN vm_scope /\ vm_scope[e + 1] = vm_scope[o] /\ Around(e + 1) \subseteq Around(o)
  BY <1>2, PastEnd
<1> QED BY <1>1, <1>3 DEF Scope

(* Restoring what the whole of a block, or its body, has saved.            *)
LEMMA WholeRuns ==
  ASSUME NEW s, NEW r, NEW l, NEW S, NEW B, NEW W, Good(r, l, S, B, W), NEW o \in W, NEW a,
         Whole(o) = NONE => s = Among(l, vm_scope[o])
  PROVE  ExecuteAll(St(s, r, l, NONE), Restore(Whole(o)), a) = St(Among(l, vm_scope[o]), r, l, NONE)
<1>1. PICK v : v = Whole(o)
  OBVIOUS
<1>2. CASE v = NONE
  <2>1. ExecuteAll(St(s, r, l, NONE), Restore(v), a) = St(s, r, l, NONE)
    BY <1>2, RunRestore
  <2> QED BY <1>1, <1>2, <2>1
<1>3. CASE v # NONE
  <2>1. v \in DOMAIN r /\ r[v] = Among(l, vm_scope[o])
    BY <1>1, <1>3 DEF Good, Held
  <2>2. ExecuteAll(St(s, r, l, NONE), Restore(v), a) = St(r[v], r, l, NONE)
    BY <1>3, <2>1, RunRestore
  <2> QED BY <1>1, <2>1, <2>2
<1> QED BY <1>2, <1>3

LEMMA BodyRuns ==
  ASSUME NEW s, NEW r, NEW l, NEW S, NEW B, NEW W, Good(r, l, S, B, W), NEW o \in B, NEW a,
         Body(o) = NONE => s = Among(l, vm_scope[o + 1])
  PROVE  ExecuteAll(St(s, r, l, NONE), Restore(Body(o)), a) = St(Among(l, vm_scope[o + 1]), r, l, NONE)
<1>1. PICK v : v = Body(o)
  OBVIOUS
<1>2. CASE v = NONE
  <2>1. ExecuteAll(St(s, r, l, NONE), Restore(v), a) = St(s, r, l, NONE)
    BY <1>2, RunRestore
  <2> QED BY <1>1, <1>2, <2>1
<1>3. CASE v # NONE
  <2>1. v \in DOMAIN r /\ r[v] = Among(l, vm_scope[o + 1])
    BY <1>1, <1>3 DEF Good, Held
  <2>2. ExecuteAll(St(s, r, l, NONE), Restore(v), a) = St(r[v], r, l, NONE)
    BY <1>3, <2>1, RunRestore
  <2> QED BY <1>1, <2>1, <2>2
<1> QED BY <1>2, <1>3

LEMMA EndLands ==
  ASSUME NEW n, Stands(n, n), code[n].op = "end", NEW o, o = code[n].to,
         NEW e, e = emitted[n].enter, NEW x, x = emitted[o].exit
  PROVE  /\ code[o].op = "scope" => Lands(e, n + 1, n + 1)
         /\ code[o].op = "loop" => Lands(e, o, o + 1)
         /\ code[o].op = "switch" => Lands(e \o x, n + 1, n + 1)
<1>1. /\ TypeOK /\ Resolved /\ Agrees /\ phase = "run" /\ n = at /\ n \in DOMAIN code /\ stack = live
      /\ Good(saved, live, Scope(n), Around(n), Around(n))
  BY DEF Stands
<1>2. /\ n + 1 \in DOMAIN vm_scope /\ n \in DOMAIN vm_scope /\ Lowered(n)
  BY <1>1, RunFacts
<1>3. /\ o \in Around(n) /\ o \in DOMAIN code /\ code[o].op \in Openers /\ o + 1 \in DOMAIN vm_scope
      /\ o \in DOMAIN vm_scope /\ vm_scope[n + 1] = vm_scope[o] /\ Scope(n + 1) = Scope(o)
      /\ Scope(o + 1) \subseteq Scope(n)
  BY <1>1, EndScope
<1>4. /\ Scope(o) \subseteq Scope(o + 1) /\ Around(o) \subseteq Around(n) /\ Around(o + 1) \subseteq Around(n)
      /\ Around(n + 1) \subseteq Around(n) /\ Lowered(o)
  BY <1>1, <1>2, <1>3, ScopeOuter, AroundOuter, PastEnd, RunFacts
<1>5. PICK r : /\ Releasing(n, o + 1, r)
               /\ e = IF code[o].op = "loop" THEN r \o Restore(Body(o)) ELSE r
  BY <1>1, <1>2 DEF Lowered
<1>6. ASSUME NEW a
      PROVE  \/ ExecuteAll(St(stack, saved, live, NONE), r, a) = St(Among(live, vm_scope[o + 1]), saved, live, NONE)
             \/ /\ ExecuteAll(St(stack, saved, live, NONE), r, a) = St(live, saved, live, Checkpoint(0))
                /\ Checkpoint(0) # NONE
  BY <1>1, <1>2, <1>3, <1>5, ReleasingRuns
<1>7. r \in Seq(Instruction) /\ x \in Seq(Instruction)
  <2>1. x \in Seq(Instruction)
    BY <1>1, <1>3, BlockCode
  <2>2. r = <<>> \/ \E v \in Vreg : r = Restore(v)
    <3>1. PICK c : c = Canonical(LifetimeAt(o + 1))
      OBVIOUS
    <3>2. LifetimeAt(o + 1) \in Lifetime
      BY <1>1, <1>3, ScopeBelow, RunFacts
    <3>3. c \in Lifetime
      BY <1>1, <3>1, <3>2, LifetimeRange
    <3>4. Checkpoint(c) \in Vreg \cup {NONE}
      BY <1>1, <3>3, LifetimeRange
    <3>5. r = <<>> \/ (Checkpoint(c) # NONE /\ r = Restore(Checkpoint(c)))
      BY <1>5, <3>1 DEF Releasing
    <3> QED BY <3>4, <3>5
  <2> QED BY <2>1, <2>2, InstructionFacts
<1>8. CASE code[o].op = "scope"
  <2>1. e = r
    BY <1>5, <1>8
  <2>2. vm_scope[o + 1] = vm_scope[o]
    BY <1>1, <1>3, <1>8, LifetimeOn
  <2>3. Ends(e, n + 1, Scope(n), Around(n), Around(n))
    BY <1>1, <1>3, <1>6, <2>1, <2>2 DEF Ends
  <2> QED BY <1>1, <1>2, <1>3, <1>4, <1>8, <2>3, EndsLands
<1>9. CASE code[o].op = "loop"
  <2>1. PICK y : y = Restore(Body(o))
    OBVIOUS
  <2>2. e = r \o y
    BY <1>5, <1>9, <2>1
  <2>3. y \in Seq(Instruction)
    <3>1. Body(o) \in Vreg \cup {NONE}
      <4>1. emitted[o].body \in Seq(Instruction) /\ emitted[o].body = SaveIn(Body(o))
        BY <1>1, <1>3, <1>4, <1>9, BlockCode DEF Lowered
      <4>2. CASE Body(o) # NONE
        <5>1. PICK v : v = Body(o)
          OBVIOUS
        <5>2. PICK i : i = [op |-> "save", vreg |-> v]
          OBVIOUS
        <5>3. <<i>> \in Seq(Instruction) /\ i.vreg = v /\ i.op = "save"
          BY <4>1, <4>2, <5>1, <5>2 DEF SaveIn, Save
        <5>4. i \in Instruction
          BY <5>3
        <5>5. v \in Vreg
          BY <5>3, <5>4, <4>2, <5>1 DEF Instruction
        <5> QED BY <5>1, <5>5
      <4> QED BY <4>2
    <3> QED BY <2>1, <3>1, InstructionFacts
  <2>4. Ends(e, o + 1, Scope(n), Around(n), Around(n))
    <3> SUFFICES ASSUME NEW a \in Array
                 PROVE  \E s, q, l, u :
                          /\ ExecuteAll(St(stack, saved, live, NONE), e, a) = St(s, q, l, u)
                          /\ u \in {NONE, Checkpoint(0)}
                          /\ u = NONE => /\ s = Among(l, vm_scope[o + 1])
                                         /\ Good(q, l, Scope(n), Around(n), Around(n))
      BY Zenon DEF Ends
    <3>1. ExecuteAll(St(stack, saved, live, NONE), e, a)
            = ExecuteAll(ExecuteAll(St(stack, saved, live, NONE), r, a), y, a)
      BY <1>7, <2>2, <2>3, ExecuteBoth
    <3>2. CASE ExecuteAll(St(stack, saved, live, NONE), r, a) = St(Among(live, vm_scope[o + 1]), saved, live, NONE)
      <4>1. PICK s : s = Among(live, vm_scope[o + 1])
        OBVIOUS
      <4>2. ExecuteAll(St(s, saved, live, NONE), Restore(Body(o)), a)
              = St(Among(live, vm_scope[o + 1]), saved, live, NONE)
        BY <1>1, <1>3, <4>1, BodyRuns
      <4> QED BY <1>1, <2>1, <3>1, <3>2, <4>1, <4>2
    <3>3. CASE /\ ExecuteAll(St(stack, saved, live, NONE), r, a) = St(live, saved, live, Checkpoint(0))
               /\ Checkpoint(0) # NONE
      <4>1. PICK z : z = Checkpoint(0)
        OBVIOUS
      <4>2. ExecuteAll(St(live, saved, live, z), y, a) = St(live, saved, live, z)
        BY <2>3, <3>3, <4>1, RunStuck
      <4> QED BY <3>1, <3>3, <4>1, <4>2
    <3> QED BY <1>6, <3>2, <3>3
  <2> QED BY <1>1, <1>3, <1>4, <1>9, <2>4, EndsLands
<1>10. CASE code[o].op = "switch"
  <2>1. e = r /\ x = Restore(Whole(o))
    BY <1>1, <1>4, <1>5, <1>10 DEF Lowered
  <2>2. vm_scope[o + 1] = vm_scope[o]
    BY <1>1, <1>3, <1>10, LifetimeOn
  <2>3. Ends(e \o x, n + 1, Scope(n), Around(n), Around(n))
    <3> SUFFICES ASSUME NEW a \in Array
                 PROVE  \E s, q, l, u :
                          /\ ExecuteAll(St(stack, saved, live, NONE), e \o x, a) = St(s, q, l, u)
                          /\ u \in {NONE, Checkpoint(0)}
                          /\ u = NONE => /\ s = Among(l, vm_scope[n + 1])
                                         /\ Good(q, l, Scope(n), Around(n), Around(n))
      BY Zenon DEF Ends
    <3>1. ExecuteAll(St(stack, saved, live, NONE), e \o x, a)
            = ExecuteAll(ExecuteAll(St(stack, saved, live, NONE), r, a), x, a)
      BY <1>7, <2>1, ExecuteBoth
    <3>2. CASE ExecuteAll(St(stack, saved, live, NONE), r, a) = St(Among(live, vm_scope[o + 1]), saved, live, NONE)
      <4>1. PICK s : s = Among(live, vm_scope[o + 1])
        OBVIOUS
      <4>2. ExecuteAll(St(s, saved, live, NONE), Restore(Whole(o)), a)
              = St(Among(live, vm_scope[o]), saved, live, NONE)
        BY <1>1, <1>3, <2>2, <4>1, WholeRuns
      <4> QED BY <1>1, <1>3, <2>1, <3>1, <3>2, <4>1, <4>2
    <3>3. CASE /\ ExecuteAll(St(stack, saved, live, NONE), r, a) = St(live, saved, live, Checkpoint(0))
               /\ Checkpoint(0) # NONE
      <4>1. PICK z : z = Checkpoint(0)
        OBVIOUS
      <4>2. ExecuteAll(St(live, saved, live, z), x, a) = St(live, saved, live, z)
        BY <1>7, <3>3, <4>1, RunStuck
      <4> QED BY <3>1, <3>3, <4>1, <4>2
    <3> QED BY <1>6, <3>2, <3>3
  <2>4. Lands(e \o x, n + 1, n + 1)
    BY <1>1, <1>2, <1>3, <1>4, <2>3, EndsLands
  <2> QED BY <1>10, <2>4
<1> QED BY <1>8, <1>9, <1>10

LEMMA GotoLands ==
  ASSUME NEW n, Stands(n, n), code[n].op = "goto", NEW k, k = code[n].to,
         NEW e, e = emitted[n].enter
  PROVE  k \in DOMAIN vm_scope /\ Lands(e, k, k)
<1>1. /\ TypeOK /\ Resolved /\ Agrees /\ phase = "run" /\ n = at /\ n \in DOMAIN code /\ stack = live
      /\ Good(saved, live, Scope(n), Around(n), Around(n)) /\ ~EntersBlock
  BY DEF Stands
<1>2. n \in DOMAIN vm_scope /\ Lowered(n)
  BY <1>1, RunFacts
<1>3. k \in DOMAIN vm_scope /\ Scope(k) \subseteq Scope(n)
  BY <1>1, GotoScope
<1>4. Releasing(n, k, e)
  BY <1>2 DEF Lowered
<1>5. ASSUME NEW o \in Around(k)
      PROVE  o \in Around(n) \/ (Body(o) = NONE /\ Whole(o) = NONE)
  <2>1. o \in DOMAIN code /\ code[o].op \in Openers
    BY <1>1, <1>3, AroundIs
  <2>2. CASE code[o].op = "scope"
    <3>1. Lowered(o)
      BY <1>1, <2>1, RunFacts
    <3> QED BY <2>2, <3>1 DEF Lowered, Body, Whole
  <2>3. CASE code[o].op \in {"loop", "switch"}
    <3>1. Inside(k, o)
      BY <1>1, <1>3, <2>1, AroundInside
    <3>2. Inside(n, o)
      BY <1>1, <2>1, <2>3, <3>1 DEF EntersBlock
    <3> QED BY <1>1, <1>2, <2>1, <3>2, AroundInside
  <2> QED BY <2>1, <2>2, <2>3 DEF Openers
<1>6. ASSUME NEW a
      PROVE  \/ ExecuteAll(St(stack, saved, live, NONE), e, a) = St(Among(live, vm_scope[k]), saved, live, NONE)
             \/ /\ ExecuteAll(St(stack, saved, live, NONE), e, a) = St(live, saved, live, Checkpoint(0))
                /\ Checkpoint(0) # NONE
  BY <1>1, <1>2, <1>3, <1>4, ReleasingRuns
<1>7. Ends(e, k, Scope(n), Around(n), Around(n))
  BY <1>1, <1>6 DEF Ends
<1>8. Ends(e, k, Scope(n), Around(k), Around(k))
  BY <1>5, <1>7, EndsMore
<1> QED BY <1>1, <1>3, <1>8, EndsLands

LEMMA ContinueLands ==
  ASSUME NEW n, Stands(n, n), code[n].op = "continue", NEW o, o = code[n].to,
         NEW e, e = emitted[n].enter
  PROVE  o \in DOMAIN vm_scope /\ o \in DOMAIN code /\ code[o].op = "loop" /\ Lands(e, o, o + 1)
<1>1. /\ TypeOK /\ Resolved /\ Agrees /\ phase = "run" /\ n = at /\ n \in DOMAIN code /\ stack = live
      /\ Good(saved, live, Scope(n), Around(n), Around(n))
  BY DEF Stands
<1>2. n \in DOMAIN vm_scope /\ Lowered(n)
  BY <1>1, RunFacts
<1>3. o \in Around(n) /\ code[o].op = "loop"
  BY <1>1 DEF Resolved, Fits
<1>4. o \in DOMAIN code /\ o \in DOMAIN vm_scope /\ o + 1 \in DOMAIN vm_scope /\ Lowered(o)
  BY <1>1, <1>2, <1>3, AroundIs, RunFacts
<1>5. /\ Scope(o + 1) \subseteq Scope(n) /\ Around(o) \subseteq Around(n)
      /\ Around(o + 1) \subseteq Around(n)
  BY <1>1, <1>2, <1>3, ScopeOuter, AroundOuter
<1>6. e = Restore(Body(o))
  BY <1>2 DEF Lowered
<1>7. Body(o) = NONE => live = Among(live, vm_scope[o + 1])
  <2>1. ASSUME Body(o) = NONE, NEW x \in Scope(n), IsVla(x)
        PROVE  x \in Scope(o + 1)
    <3>1. ~ContainsVla(o)
      BY <1>3, <1>4, <2>1 DEF Lowered
    <3> QED BY <1>1, <1>2, <1>3, <2>1, <3>1, NoArrays
  <2> QED BY <1>1, <2>1, AmongArrays
<1>8. \A a : ExecuteAll(St(live, saved, live, NONE), Restore(Body(o)), a)
                  = St(Among(live, vm_scope[o + 1]), saved, live, NONE)
  BY <1>1, <1>3, <1>7, BodyRuns
<1>9. Ends(e, o + 1, Scope(n), Around(n), Around(n))
  BY <1>1, <1>6, <1>8 DEF Ends
<1> QED BY <1>1, <1>3, <1>4, <1>5, <1>9, EndsLands

LEMMA BreakLands ==
  ASSUME NEW n, Stands(n, n), code[n].op = "break", NEW o, o = code[n].to,
         NEW e, e = emitted[n].enter, NEW x, x = emitted[o].exit, NEW k, k = EndOf(o) + 1
  PROVE  k \in DOMAIN vm_scope /\ Lands(e \o x, k, k)
<1>1. /\ TypeOK /\ Resolved /\ Agrees /\ phase = "run" /\ n = at /\ n \in DOMAIN code /\ stack = live
      /\ Good(saved, live, Scope(n), Around(n), Around(n))
  BY DEF Stands
<1>2. n \in DOMAIN vm_scope /\ Lowered(n)
  BY <1>1, RunFacts
<1>3. o \in Around(n) /\ code[o].op \in {"loop", "switch"}
  BY <1>1 DEF Resolved, Fits
<1>4. /\ o \in DOMAIN code /\ o \in DOMAIN vm_scope /\ o + 1 \in DOMAIN vm_scope /\ Lowered(o)
      /\ code[o].op \in Openers
  BY <1>1, <1>2, <1>3, AroundIs, RunFacts
<1>5. /\ Scope(o + 1) \subseteq Scope(n) /\ Around(o) \subseteq Around(n)
      /\ Around(o + 1) \subseteq Around(n) /\ Scope(o) \subseteq Scope(o + 1)
  BY <1>1, <1>2, <1>3, ScopeOuter, AroundOuter
<1>6. /\ k \in DOMAIN vm_scope /\ vm_scope[k] = vm_scope[o] /\ Scope(k) = Scope(o)
      /\ Around(k) \subseteq Around(o)
  BY <1>1, <1>4, BehindBlock
<1>7. /\ e = Restore(Body(o)) /\ x = Restore(Whole(o))
      /\ code[o].op = "loop" => (Body(o) # NONE <=> ContainsVla(o)) /\ (Whole(o) # NONE <=> IsVla(o))
      /\ code[o].op = "switch" => Body(o) = NONE /\ (Whole(o) # NONE <=> ContainsVla(o))
  BY <1>2, <1>3, <1>4 DEF Lowered, Body
<1>8. e \in Seq(Instruction) /\ x \in Seq(Instruction)
  BY <1>1, <1>4, BlockCode
<1>9. ASSUME ~ContainsVla(o), NEW y \in Scope(n), IsVla(y)
      PROVE  y \in Scope(o + 1)
  BY <1>1, <1>2, <1>3, <1>9, NoArrays
<1>10. Scope(o + 1) = IF Declares(o) THEN Scope(o) \cup {o} ELSE Scope(o)
  BY <1>1, <1>3, <1>4, ScopeNext
<1>11. code[o].op = "switch" => Scope(o + 1) = Scope(o)
  BY <1>1, <1>4, LifetimeOn
<1>12. ASSUME NEW a
       PROVE  ExecuteAll(St(stack, saved, live, NONE), e \o x, a) = St(Among(live, vm_scope[k]), saved, live, NONE)
  <2>1. ExecuteAll(St(live, saved, live, NONE), e \o x, a)
          = ExecuteAll(ExecuteAll(St(live, saved, live, NONE), e, a), x, a)
    BY <1>8, ExecuteBoth
  <2>2. CASE code[o].op = "loop"
    <3>1. Body(o) = NONE => live = Among(live, vm_scope[o + 1])
      BY <1>1, <1>7, <1>9, <2>2, AmongArrays
    <3>2. PICK s : s = Among(live, vm_scope[o + 1])
      OBVIOUS
    <3>3. ExecuteAll(St(live, saved, live, NONE), e, a) = St(s, saved, live, NONE)
      BY <1>1, <1>3, <1>7, <3>1, <3>2, BodyRuns
    <3>4. Whole(o) = NONE => s = Among(live, vm_scope[o])
      <4>1. ASSUME Whole(o) = NONE
            PROVE  s = Among(live, vm_scope[o])
        <5>1. \A y : IsVla(y) => (y \in Scope(o + 1) <=> y \in Scope(o))
          BY <1>7, <1>10, <2>2, <4>1
        <5>2. live \in Seq(Array) /\ \A j \in DOMAIN live : IsVla(live[j].of)
          BY <1>1 DEF Good
        <5>3. \A j \in DOMAIN live : live[j].of \in Range(vm_scope[o + 1]) <=> live[j].of \in Range(vm_scope[o])
          BY <5>1, <5>2 DEF Scope
        <5> QED BY <3>2, <5>2, <5>3, AmongSame
      <4> QED BY <4>1
    <3>5. ExecuteAll(St(s, saved, live, NONE), x, a) = St(Among(live, vm_scope[o]), saved, live, NONE)
      BY <1>1, <1>3, <1>7, <3>4, WholeRuns
    <3> QED BY <1>1, <1>6, <2>1, <3>3, <3>5
  <2>3. CASE code[o].op = "switch"
    <3>1. ExecuteAll(St(live, saved, live, NONE), e, a) = St(live, saved, live, NONE)
      BY <1>7, <2>3, RunRestore
    <3>2. Whole(o) = NONE => live = Among(live, vm_scope[o])
      BY <1>1, <1>7, <1>9, <1>11, <2>3, AmongArrays
    <3>3. ExecuteAll(St(live, saved, live, NONE), x, a) = St(Among(live, vm_scope[o]), saved, live, NONE)
      BY <1>1, <1>3, <1>7, <3>2, WholeRuns
    <3> QED BY <1>1, <1>6, <2>1, <3>1, <3>3
  <2> QED BY <1>3, <2>2, <2>3
<1>13. Ends(e \o x, k, Scope(n), Around(n), Around(n))
  BY <1>1, <1>12 DEF Ends
<1> QED BY <1>1, <1>5, <1>6, <1>13, EndsLands

LEMMA RegisterTypes ==
  ASSUME TypeOK, Resolved, Agrees, phase = "run", NEW o \in DOMAIN code
  PROVE  Whole(o) \in Vreg \cup {NONE} /\ Body(o) \in Vreg \cup {NONE}
<1>1. /\ Whole(o) # NONE => Whole(o) \in 1 .. vregs
      /\ Body(o) # NONE => Body(o) \in 1 .. vregs
  BY RunFacts DEF Distinct
<1>2. 1 .. vregs \subseteq Vreg
  BY BoundAssumption DEF TypeOK, Vreg
<1> QED BY <1>1, <1>2

LEMMA DeclaringType ==
  ASSUME TypeOK, Resolved, Agrees, phase = "run", NEW n \in DOMAIN code,
         code[n].op \in {"decl", "loop"}, NEW d, Declaring(n, d)
  PROVE  d \in Seq(Instruction)
<1>1. CASE ~IsVla(n)
  <2>1. d = <<>>
    BY <1>1 DEF Declaring
  <2> QED BY <2>1, InstructionFacts
<1>2. CASE IsVla(n)
  <2>1. PICK v, z : v = Checkpoint(n) /\ z = Checkpoint(0)
    OBVIOUS
  <2>2. Declares(n)
    BY <1>2 DEF IsVla, Declares
  <2>3. LifetimeAt(n + 1) = n /\ n + 1 \in DOMAIN vm_scope
    BY <2>2, ScopeNext, RunFacts
  <2>4. n < Done
    BY <2>3, RunFacts
  <2>5. v # NONE /\ z # NONE
    BY <1>2, <2>1, <2>2, <2>4, RunFacts DEF Recorded
  <2>6. v \in Vreg /\ z \in Vreg
    <3>1. n \in Lifetime /\ 0 \in Lifetime
      BY LifetimeRange
    <3> QED BY <2>1, <2>5, <3>1, LifetimeRange
  <2>7. Save(v) \in Seq(Instruction) /\ Save(z) \in Seq(Instruction) /\ Alloc \in Seq(Instruction)
    BY <2>6, InstructionFacts
  <2>8. d = Alloc \o Save(v) \/ d = Save(z) \o Alloc \o Save(v)
    BY <1>2, <2>1 DEF Declaring
  <2> QED BY <2>7, <2>8, SeqFacts, Zenon
<1> QED BY <1>1, <1>2

LEMMA LoopEnterLands ==
  ASSUME NEW n, Stands(n, n), code[n].op = "loop", NEW e, e = emitted[n].enter
  PROVE  Lands(e, n, n + 1)
<1>1. /\ TypeOK /\ Resolved /\ Agrees /\ phase = "run" /\ n = at /\ n \in DOMAIN code /\ stack = live
      /\ Good(saved, live, Scope(n), Around(n), Around(n))
  BY DEF Stands
<1>2. /\ n \in DOMAIN vm_scope /\ n + 1 \in DOMAIN vm_scope /\ Lowered(n) /\ n \in DOMAIN emitted
      /\ Scope(n) \subseteq Lifetime /\ Around(n) \subseteq DOMAIN emitted
  BY <1>1, RunFacts
<1>3. PICK w, d : w = SaveIn(Whole(n)) /\ Declaring(n, d) /\ e = w \o d
  BY <1>1, <1>2 DEF Lowered
<1>4. w \in Seq(Instruction) /\ d \in Seq(Instruction)
  <2>1. Whole(n) \in Vreg \cup {NONE}
    BY <1>1, RegisterTypes
  <2>2. SaveIn(Whole(n)) \in Seq(Instruction)
    BY <2>1, InstructionFacts
  <2> QED BY <1>1, <1>3, <2>2, DeclaringType
<1>5. Around(n + 1) = Around(n) \cup {n}
  BY <1>1, AroundNext DEF Openers
<1>6. ASSUME NEW a
      PROVE  \E q : /\ ExecuteAll(St(stack, saved, live, NONE), w, a) = St(live, q, live, NONE)
                    /\ Good(q, live, Scope(n), Around(n), Around(n) \cup {n})
  <2>1. CASE Whole(n) = NONE
    <3>1. w = <<>>
      BY <1>3, <2>1 DEF SaveIn
    <3>2. ExecuteAll(St(stack, saved, live, NONE), <<>>, a) = St(stack, saved, live, NONE)
      BY ExecuteNone, Zenon
    <3>3. \A o \in Around(n) \cup {n} : o \in Around(n) \/ Whole(o) = NONE
      BY <2>1
    <3>4. \A o \in Around(n) : o \in Around(n) \/ Body(o) = NONE
      OBVIOUS
    <3>5. Good(saved, live, Scope(n), Around(n), Around(n) \cup {n})
      BY <1>1, <3>3, <3>4, GoodMore
    <3> QED BY <1>1, <3>1, <3>2, <3>5
  <2>2. CASE Whole(n) # NONE
    <3>1. PICK v : v = Whole(n)
      OBVIOUS
    <3>2. w = Save(v)
      BY <1>3, <2>2, <3>1 DEF SaveIn
    <3>3. ExecuteAll(St(stack, saved, live, NONE), Save(v), a) = St(stack, Put(saved, v, stack), live, NONE)
      BY RunSave, Zenon
    <3>4. live = Among(live, vm_scope[n])
      BY <1>1, AmongArrays
    <3>5. Good(Put(saved, Whole(n), live), live, Scope(n), Around(n), Around(n) \cup {n})
      BY <1>1, <1>2, <2>2, <3>4, GoodWhole
    <3> QED BY <1>1, <3>1, <3>2, <3>3, <3>5
  <2> QED BY <2>1, <2>2
<1>7. Ends(e, n + 1, Scope(n + 1), Around(n), Around(n) \cup {n})
  <2> SUFFICES ASSUME NEW a \in Array, a.of = n
               PROVE  \E s, r, l, u :
                        /\ ExecuteAll(St(stack, saved, live, NONE), e, a) = St(s, r, l, u)
                        /\ u \in {NONE, Checkpoint(0)}
                        /\ u = NONE => /\ s = Among(l, vm_scope[n + 1])
                                       /\ Good(r, l, Scope(n + 1), Around(n), Around(n) \cup {n})
    BY <1>1, Zenon DEF Ends
  <2>1. PICK p : /\ ExecuteAll(St(stack, saved, live, NONE), w, a) = St(live, p, live, NONE)
                 /\ Good(p, live, Scope(n), Around(n), Around(n) \cup {n})
    BY <1>6
  <2>2. PICK q, t : /\ ExecuteAll(St(live, p, live, NONE), d, a) = St(t, q, t, NONE)
                    /\ Good(q, t, Scope(n + 1), Around(n), Around(n) \cup {n})
    BY <1>1, <1>3, <2>1, DeclaringRuns
  <2>3. Among(t, vm_scope[n + 1]) = t
    BY <2>2, AmongArrays
  <2>4. ExecuteAll(St(stack, saved, live, NONE), e, a)
          = ExecuteAll(ExecuteAll(St(stack, saved, live, NONE), w, a), d, a)
    BY <1>3, <1>4, ExecuteBoth
  <2> QED BY <2>1, <2>2, <2>3, <2>4
<1> QED BY <1>1, <1>2, <1>5, <1>7, EndsLands

LEMMA LoopBodyLands ==
  ASSUME NEW n, Stands(n, n + 1), code[n].op = "loop", NEW e, e = emitted[n].body
  PROVE  Lands(e, n + 1, n + 1)
<1>1. /\ TypeOK /\ Resolved /\ Agrees /\ phase = "run" /\ n = at /\ n \in DOMAIN code /\ stack = live
      /\ Good(saved, live, Scope(n + 1), Around(n), Around(n + 1))
  BY DEF Stands
<1>2. /\ n \in DOMAIN vm_scope /\ n + 1 \in DOMAIN vm_scope /\ Lowered(n) /\ n \in DOMAIN emitted
      /\ Scope(n + 1) \subseteq Lifetime /\ Around(n) \subseteq DOMAIN emitted
      /\ Around(n + 1) \subseteq DOMAIN emitted
  BY <1>1, RunFacts
<1>3. e = SaveIn(Body(n))
  BY <1>1, <1>2 DEF Lowered
<1>5. Around(n + 1) = Around(n) \cup {n}
  BY <1>1, AroundNext DEF Openers
<1>6. live = Among(live, vm_scope[n + 1])
  BY <1>1, AmongArrays
<1>7. Ends(e, n + 1, Scope(n + 1), Around(n + 1), Around(n + 1))
  <2>1. CASE Body(n) = NONE
    <3>1. e = <<>>
      BY <1>3, <2>1 DEF SaveIn
    <3>2. Ends(<<>>, n + 1, Scope(n + 1), Around(n), Around(n + 1))
      BY EndsNothing
    <3>3. \A o \in Around(n + 1) : o \in Around(n) \/ Body(o) = NONE
      BY <1>5, <2>1
    <3>4. \A o \in Around(n + 1) : o \in Around(n + 1) \/ Whole(o) = NONE
      OBVIOUS
    <3> QED BY <3>1, <3>2, <3>3, <3>4, EndsMore
  <2>2. CASE Body(n) # NONE
    <3>1. PICK v : v = Body(n)
      OBVIOUS
    <3>2. e = Save(v)
      BY <1>3, <2>2, <3>1 DEF SaveIn
    <3>3. \A a : ExecuteAll(St(stack, saved, live, NONE), Save(v), a) = St(stack, Put(saved, v, stack), live, NONE)
      BY RunSave, Zenon
    <3>4. Good(Put(saved, Body(n), live), live, Scope(n + 1), Around(n) \cup {n}, Around(n + 1))
      BY <1>1, <1>2, <1>6, <2>2, GoodBody
    <3>5. Good(Put(saved, v, stack), live, Scope(n + 1), Around(n + 1), Around(n + 1))
      BY <1>1, <1>5, <3>1, <3>4
    <3>6. stack = Among(live, vm_scope[n + 1])
      BY <1>1, <1>6
    <3> QED BY <3>2, <3>3, <3>5, <3>6, Zenon DEF Ends
  <2> QED BY <2>1, <2>2
<1> QED BY <1>1, <1>2, <1>7, EndsLands

LEMMA LoopExitLands ==
  ASSUME NEW n, Stands(n, n + 1), code[n].op = "loop", NEW e, e = emitted[n].exit,
         NEW k, k = EndOf(n) + 1
  PROVE  k \in DOMAIN vm_scope /\ Lands(e, k, k)
<1>1. /\ TypeOK /\ Resolved /\ Agrees /\ phase = "run" /\ n = at /\ n \in DOMAIN code /\ stack = live
      /\ Good(saved, live, Scope(n + 1), Around(n), Around(n + 1))
  BY DEF Stands
<1>2. /\ n + 1 \in DOMAIN vm_scope /\ Lowered(n)
  BY <1>1, RunFacts
<1>3. e = Restore(Whole(n)) /\ (Whole(n) # NONE <=> IsVla(n))
  BY <1>1, <1>2 DEF Lowered
<1>4. /\ k \in DOMAIN vm_scope /\ vm_scope[k] = vm_scope[n] /\ Scope(k) = Scope(n)
      /\ Around(k) \subseteq Around(n)
  BY <1>1, BehindBlock DEF Openers
<1>5. Around(n + 1) = Around(n) \cup {n}
  BY <1>1, AroundNext DEF Openers
<1>6. Scope(n + 1) = IF Declares(n) THEN Scope(n) \cup {n} ELSE Scope(n)
  BY <1>1, ScopeNext
<1>7. Whole(n) = NONE => live = Among(live, vm_scope[n])
  <2>1. Whole(n) = NONE => \A x \in Scope(n + 1) : IsVla(x) => x \in Scope(n)
    BY <1>3, <1>6
  <2> QED BY <1>1, <2>1, AmongArrays
<1>8. \A a : ExecuteAll(St(live, saved, live, NONE), Restore(Whole(n)), a)
               = St(Among(live, vm_scope[n]), saved, live, NONE)
  BY <1>1, <1>5, <1>7, WholeRuns
<1>9. Ends(e, k, Scope(n + 1), Around(n), Around(n + 1))
  BY <1>1, <1>3, <1>4, <1>8 DEF Ends
<1>10. Scope(k) \subseteq Scope(n + 1) /\ Around(k) \subseteq Around(n + 1)
  BY <1>4, <1>5, <1>6
<1> QED BY <1>1, <1>4, <1>9, <1>10, EndsLands

(* The save at the head of a switch.                                       *)
LEMMA SwitchSaves ==
  ASSUME NEW n, Stands(n, n), code[n].op = "switch", NEW e, e = emitted[n].enter, NEW a
  PROVE  \E q : /\ ExecuteAll(St(stack, saved, live, NONE), e, a) = St(live, q, live, NONE)
                /\ Good(q, live, Scope(n), Around(n) \cup {n}, Around(n) \cup {n})
<1>1. /\ TypeOK /\ Resolved /\ Agrees /\ phase = "run" /\ n = at /\ n \in DOMAIN code /\ stack = live
      /\ Good(saved, live, Scope(n), Around(n), Around(n))
  BY DEF Stands
<1>2. /\ n \in DOMAIN vm_scope /\ Lowered(n) /\ n \in DOMAIN emitted
      /\ Scope(n) \subseteq Lifetime /\ Around(n) \subseteq DOMAIN emitted
  BY <1>1, RunFacts
<1>3. e = SaveIn(Whole(n)) /\ Body(n) = NONE
  BY <1>1, <1>2 DEF Lowered, Body
<1>4. \A o \in Around(n) \cup {n} : o \in Around(n) \/ Body(o) = NONE
  BY <1>3
<1>5. CASE Whole(n) = NONE
  <2>1. e = <<>>
    BY <1>3, <1>5 DEF SaveIn
  <2>2. ExecuteAll(St(stack, saved, live, NONE), <<>>, a) = St(stack, saved, live, NONE)
    BY ExecuteNone, Zenon
  <2>3. \A o \in Around(n) \cup {n} : o \in Around(n) \/ Whole(o) = NONE
    BY <1>5
  <2>4. Good(saved, live, Scope(n), Around(n) \cup {n}, Around(n) \cup {n})
    BY <1>1, <1>4, <2>3, GoodMore
  <2> QED BY <1>1, <2>1, <2>2, <2>4
<1>6. CASE Whole(n) # NONE
  <2>1. PICK v : v = Whole(n)
    OBVIOUS
  <2>2. e = Save(v)
    BY <1>3, <1>6, <2>1 DEF SaveIn
  <2>3. ExecuteAll(St(stack, saved, live, NONE), Save(v), a) = St(stack, Put(saved, v, stack), live, NONE)
    BY RunSave, Zenon
  <2>4. live = Among(live, vm_scope[n])
    BY <1>1, AmongArrays
  <2>5. Good(Put(saved, Whole(n), live), live, Scope(n), Around(n), Around(n) \cup {n})
    BY <1>1, <1>2, <1>6, <2>4, GoodWhole
  <2>6. \A o \in Around(n) \cup {n} : o \in Around(n) \cup {n} \/ Whole(o) = NONE
    OBVIOUS
  <2>7. Good(Put(saved, Whole(n), live), live, Scope(n), Around(n) \cup {n}, Around(n) \cup {n})
    BY <1>4, <2>5, <2>6, GoodMore
  <2> QED BY <1>1, <2>1, <2>2, <2>3, <2>7
<1> QED BY <1>5, <1>6

LEMMA SwitchCaseLands ==
  ASSUME NEW n, Stands(n, n), code[n].op = "switch", NEW e, e = emitted[n].enter,
         NEW k \in DOMAIN code, code[k].op = "case", code[k].to = n
  PROVE  k \in DOMAIN vm_scope /\ Lands(e, k, k)
<1>1. /\ TypeOK /\ Resolved /\ Agrees /\ phase = "run" /\ n = at /\ n \in DOMAIN code /\ stack = live
      /\ Good(saved, live, Scope(n), Around(n), Around(n)) /\ ~EntersBlock
  BY DEF Stands
<1>2. k \in DOMAIN vm_scope /\ n \in DOMAIN vm_scope
  BY <1>1, RunFacts
<1>3. n \in Around(k) /\ vm_scope[n] = vm_scope[k]
  BY <1>1 DEF Resolved, Fits
<1>4. Scope(k) = Scope(n)
  BY <1>3 DEF Scope
<1>5. ASSUME NEW o \in Around(k), o # n
      PROVE  o \in Around(n) \/ (Body(o) = NONE /\ Whole(o) = NONE)
  <2>1. /\ o \in DOMAIN code /\ code[o].op \in Openers /\ o \in Nat /\ o < k
        /\ n \in Nat /\ n < k /\ k \in Nat
    BY <1>1, <1>2, <1>3, AroundIs
  <2>2. CASE o < n
    <3>1. o \in Around(n)
      <4>1. \A x \in DOMAIN code : x \in Nat
        BY <1>1, RunFacts
      <4> QED BY <2>1, <2>2, <4>1 DEF Around
    <3> QED BY <3>1
  <2>3. CASE ~(o < n)
    <3>1. n < o
      BY <1>5, <2>1, <2>3
    <3>2. Inside(k, o)
      BY <1>1, <1>2, <2>1, AroundInside
    <3>3. code[o].op \notin {"loop", "switch"}
      BY <2>1, <3>1, <3>2 , <1>1 DEF EntersBlock
    <3>4. code[o].op = "scope"
      BY <2>1, <3>3 DEF Openers
    <3>5. Lowered(o)
      BY <1>1, <2>1, RunFacts
    <3> QED BY <3>4, <3>5 DEF Lowered, Body, Whole
  <2> QED BY <2>2, <2>3
<1>6. Ends(e, k, Scope(n), Around(n) \cup {n}, Around(n) \cup {n})
  <2> SUFFICES ASSUME NEW a \in Array
               PROVE  \E s, r, l, u :
                        /\ ExecuteAll(St(stack, saved, live, NONE), e, a) = St(s, r, l, u)
                        /\ u \in {NONE, Checkpoint(0)}
                        /\ u = NONE => /\ s = Among(l, vm_scope[k])
                                       /\ Good(r, l, Scope(n), Around(n) \cup {n}, Around(n) \cup {n})
    BY Zenon DEF Ends
  <2>1. PICK q : /\ ExecuteAll(St(stack, saved, live, NONE), e, a) = St(live, q, live, NONE)
                 /\ Good(q, live, Scope(n), Around(n) \cup {n}, Around(n) \cup {n})
    BY SwitchSaves
  <2>2. live = Among(live, vm_scope[k])
    BY <1>1, <1>4, AmongArrays
  <2> QED BY <2>1, <2>2
<1>7. \A o \in Around(k) : /\ o \in Around(n) \cup {n} \/ Body(o) = NONE
                           /\ o \in Around(n) \cup {n} \/ Whole(o) = NONE
  BY <1>5
<1>8. Ends(e, k, Scope(n), Around(k), Around(k))
  BY <1>6, <1>7, EndsMore
<1> QED BY <1>1, <1>2, <1>4, <1>8, EndsLands

LEMMA SwitchPastLands ==
  ASSUME NEW n, Stands(n, n), code[n].op = "switch", NEW e, e = emitted[n].enter,
         NEW x, x = emitted[n].exit, NEW k, k = EndOf(n) + 1
  PROVE  k \in DOMAIN vm_scope /\ Lands(e \o x, k, k)
<1>1. /\ TypeOK /\ Resolved /\ Agrees /\ phase = "run" /\ n = at /\ n \in DOMAIN code /\ stack = live
      /\ Good(saved, live, Scope(n), Around(n), Around(n))
  BY DEF Stands
<1>2. n \in DOMAIN vm_scope /\ Lowered(n)
  BY <1>1, RunFacts
<1>3. /\ k \in DOMAIN vm_scope /\ vm_scope[k] = vm_scope[n] /\ Scope(k) = Scope(n)
      /\ Around(k) \subseteq Around(n)
  BY <1>1, BehindBlock DEF Openers
<1>4. e \in Seq(Instruction) /\ x \in Seq(Instruction) /\ x = Restore(Whole(n))
  BY <1>1, <1>2, BlockCode DEF Lowered
<1>5. live = Among(live, vm_scope[n])
  BY <1>1, AmongArrays
<1>6. Ends(e \o x, k, Scope(n), Around(n) \cup {n}, Around(n) \cup {n})
  <2> SUFFICES ASSUME NEW a \in Array
               PROVE  \E s, r, l, u :
                        /\ ExecuteAll(St(stack, saved, live, NONE), e \o x, a) = St(s, r, l, u)
                        /\ u \in {NONE, Checkpoint(0)}
                        /\ u = NONE => /\ s = Among(l, vm_scope[k])
                                       /\ Good(r, l, Scope(n), Around(n) \cup {n}, Around(n) \cup {n})
    BY Zenon DEF Ends
  <2>1. PICK q : /\ ExecuteAll(St(stack, saved, live, NONE), e, a) = St(live, q, live, NONE)
                 /\ Good(q, live, Scope(n), Around(n) \cup {n}, Around(n) \cup {n})
    BY SwitchSaves
  <2>2. ExecuteAll(St(live, q, live, NONE), x, a) = St(Among(live, vm_scope[n]), q, live, NONE)
    BY <1>4, <1>5, <2>1, WholeRuns
  <2>3. ExecuteAll(St(stack, saved, live, NONE), e \o x, a)
          = ExecuteAll(ExecuteAll(St(stack, saved, live, NONE), e, a), x, a)
    BY <1>4, ExecuteBoth
  <2> QED BY <1>3, <2>1, <2>2, <2>3
<1> QED BY <1>1, <1>3, <1>6, EndsLands

-----------------------------------------------------------------------------
(* The steps of the run.                                                   *)
LEMMA GoesOn ==
  ASSUME VlaInv, phase = "run", NEW e \in Seq(Instruction), NEW to \in DOMAIN vm_scope,
         NEW test \in BOOLEAN, Go(e, to, test), NEW h, h = IF test THEN to + 1 ELSE to,
         test => to \in DOMAIN code /\ code[to].op = "loop", ~EntersBlock => Lands(e, to, h)
  PROVE  VlaInv'
<1>1. TypeOK /\ Resolved /\ Untouched /\ Agrees /\ at \in DOMAIN vm_scope
  BY DEF VlaInv, Runs
<1>2. TypeOK' /\ Resolved' /\ Untouched' /\ Agrees'
  BY <1>1, GoTypes
<1>3. Runs'
  BY <1>1, LandsStep
<1> QED BY <1>2, <1>3, Zenon DEF VlaInv

(* Where the run is when it takes a step.                                  *)
LEMMA RunningAt ==
  ASSUME VlaInv, NEW op, Running(op), unsaved = NONE, NEW n, n = at
  PROVE  /\ TypeOK /\ Resolved /\ Agrees /\ phase = "run" /\ n \in DOMAIN code /\ code[n].op = op
         /\ n + 1 \in DOMAIN vm_scope /\ Lowered(n) /\ testing \in BOOLEAN
         /\ op # "loop" => ~testing
         /\ ~EntersBlock => Stands(n, IF testing THEN n + 1 ELSE n)
<1>1. phase = "run" /\ n \in DOMAIN code /\ code[n].op = op
  BY DEF Running
<1>2. TypeOK /\ Resolved /\ Agrees /\ Runs
  BY <1>1 DEF VlaInv
<1>3. n + 1 \in DOMAIN vm_scope /\ Lowered(n)
  BY <1>1, <1>2, RunFacts
<1>4. testing => code[n].op = "loop"
  BY <1>1, <1>2 DEF Runs
<1>5. testing \in BOOLEAN
  BY <1>2 DEF TypeOK
<1>6. ~EntersBlock => Stands(n, IF testing THEN n + 1 ELSE n)
  BY <1>1, <1>2, StandsAt
<1> QED BY <1>1, <1>2, <1>3, <1>4, <1>5, <1>6

LEMMA RunOnStep ==
  ASSUME VlaInv, RunOn
  PROVE  VlaInv'
<1>1. PICK n, e : n = at /\ e = emitted[n].enter
  OBVIOUS
<1>2. Go(e, n + 1, FALSE) /\ unsaved = NONE /\ phase = "run"
  BY <1>1 DEF RunOn, Go
<1>3. PICK op \in {"decl", "scope", "case"} : Running(op)
  BY DEF RunOn
<1>4. /\ TypeOK /\ Resolved /\ Agrees /\ n \in DOMAIN code /\ code[n].op = op
      /\ n + 1 \in DOMAIN vm_scope /\ Lowered(n) /\ ~testing
      /\ ~EntersBlock => Stands(n, n)
  BY <1>1, <1>2, <1>3, RunningAt
<1>5. e \in Seq(Instruction)
  BY <1>1, <1>2, <1>4, BlockCode
<1>6. ~EntersBlock => Lands(e, n + 1, n + 1)
  <2>1. CASE op = "decl"
    BY <1>1, <1>4, <2>1, DeclLands
  <2>2. CASE op \in {"scope", "case"}
    <3>1. e = <<>>
      BY <1>1, <1>4, <2>2 DEF Lowered
    <3> QED BY <1>4, <2>2, <3>1, OnLands
  <2> QED BY <1>3, <2>1, <2>2
<1> QED BY <1>2, <1>4, <1>5, <1>6, GoesOn

LEMMA RunSwitchStep ==
  ASSUME VlaInv, RunSwitch
  PROVE  VlaInv'
<1>1. PICK n, e, x, k : n = at /\ e = emitted[n].enter /\ x = emitted[n].exit /\ k = EndOf(n) + 1
  OBVIOUS
<1>2. /\ Running("switch") /\ unsaved = NONE /\ phase = "run"
      /\ \/ \E c \in DOMAIN code : code[c].op = "case" /\ code[c].to = n /\ Go(e, c, FALSE)
         \/ Go(e \o x, k, FALSE)
  BY <1>1 DEF RunSwitch, Go
<1>3. /\ TypeOK /\ Resolved /\ Agrees /\ n \in DOMAIN code /\ code[n].op = "switch"
      /\ ~testing /\ (~EntersBlock => Stands(n, n))
  BY <1>1, <1>2, RunningAt
<1>4. e \in Seq(Instruction) /\ x \in Seq(Instruction)
  BY <1>1, <1>2, <1>3, BlockCode
<1>5. e \o x \in Seq(Instruction)
  BY <1>4, SeqFacts, Zenon
<1>6. CASE Go(e \o x, k, FALSE)
  <2>1. k \in DOMAIN vm_scope
    BY <1>1, <1>2, <1>3, BehindBlock DEF Openers
  <2>2. ~EntersBlock => Lands(e \o x, k, k)
    BY <1>1, <1>3, SwitchPastLands
  <2>3. PICK f : f = e \o x
    OBVIOUS
  <2> QED BY <1>2, <1>5, <1>6, <2>1, <2>2, <2>3, GoesOn
<1>7. ASSUME NEW c \in DOMAIN code, code[c].op = "case", code[c].to = n, Go(e, c, FALSE)
      PROVE  VlaInv'
  <2>1. c \in DOMAIN vm_scope
    BY <1>2, <1>3, RunFacts
  <2>2. ~EntersBlock => Lands(e, c, c)
    BY <1>1, <1>3, <1>7, SwitchCaseLands
  <2> QED BY <1>2, <1>4, <1>7, <2>1, <2>2, GoesOn
<1> QED BY <1>2, <1>6, <1>7

LEMMA RunLoopStep ==
  ASSUME VlaInv, RunLoop
  PROVE  VlaInv'
<1>1. PICK n, k : n = at /\ k = EndOf(n) + 1
  OBVIOUS
<1>2. PICK e, b, x : e = emitted[n].enter /\ b = emitted[n].body /\ x = emitted[n].exit
  OBVIOUS
<1>3. /\ Running("loop") /\ unsaved = NONE /\ phase = "run"
      /\ \/ ~testing /\ Go(e, n, TRUE)
         \/ testing /\ Go(b, n + 1, FALSE)
         \/ testing /\ Go(x, k, FALSE)
  BY <1>1, <1>2 DEF RunLoop, Go
<1>4. /\ TypeOK /\ Resolved /\ Agrees /\ n \in DOMAIN code /\ code[n].op = "loop"
      /\ testing \in BOOLEAN /\ n + 1 \in DOMAIN vm_scope
      /\ ~EntersBlock => Stands(n, IF testing THEN n + 1 ELSE n)
  BY <1>1, <1>3, RunningAt
<1>5. e \in Seq(Instruction) /\ b \in Seq(Instruction) /\ x \in Seq(Instruction)
  BY <1>2, <1>3, <1>4, BlockCode
<1>6. CASE ~testing /\ Go(e, n, TRUE)
  <2>1. n \in DOMAIN vm_scope
    BY <1>3, <1>4, RunFacts
  <2>2. ~EntersBlock => Lands(e, n, n + 1)
    BY <1>2, <1>4, <1>6, LoopEnterLands
  <2> QED BY <1>3, <1>4, <1>5, <1>6, <2>1, <2>2, GoesOn
<1>7. CASE testing /\ Go(b, n + 1, FALSE)
  <2>1. ~EntersBlock => Lands(b, n + 1, n + 1)
    BY <1>2, <1>4, <1>7, LoopBodyLands
  <2> QED BY <1>3, <1>4, <1>5, <1>7, <2>1, GoesOn
<1>8. CASE testing /\ Go(x, k, FALSE)
  <2>1. k \in DOMAIN vm_scope
    BY <1>1, <1>3, <1>4, BehindBlock DEF Openers
  <2>2. ~EntersBlock => Lands(x, k, k)
    BY <1>1, <1>2, <1>4, <1>8, LoopExitLands
  <2> QED BY <1>3, <1>5, <1>8, <2>1, <2>2, GoesOn
<1> QED BY <1>3, <1>6, <1>7, <1>8

LEMMA RunEndStep ==
  ASSUME VlaInv, RunEnd
  PROVE  VlaInv'
<1>1. PICK n, o : n = at /\ o = code[n].to
  OBVIOUS
<1>2. PICK e, x : e = emitted[n].enter /\ x = emitted[o].exit
  OBVIOUS
<1>3. Running("end")
  BY DEF RunEnd
<1>4. TypeOK /\ Resolved /\ Agrees /\ phase = "run" /\ n \in DOMAIN code /\ code[n].op = "end"
  BY <1>1, <1>3 DEF VlaInv, Running
<1>5. /\ o \in DOMAIN code /\ code[o].op \in Openers /\ o \in DOMAIN vm_scope
      /\ o + 1 \in DOMAIN vm_scope /\ n + 1 \in DOMAIN vm_scope
  BY <1>1, <1>4, EndScope
<1>6. /\ code[o].op = "scope" => Go(e, n + 1, FALSE)
      /\ code[o].op = "loop" => Go(e, o, TRUE)
      /\ code[o].op = "switch" => Go(e \o x, n + 1, FALSE)
  BY <1>1, <1>2 DEF RunEnd
<1>7. unsaved = NONE
  BY <1>5, <1>6 DEF Openers, Go
<1>8. ~EntersBlock => Stands(n, n)
  BY <1>1, <1>3, <1>7, RunningAt
<1>9. e \in Seq(Instruction) /\ x \in Seq(Instruction)
  BY <1>2, <1>4, <1>5, BlockCode
<1>10. e \o x \in Seq(Instruction)
  BY <1>9, SeqFacts, Zenon
<1>11. /\ code[o].op = "scope" => (~EntersBlock => Lands(e, n + 1, n + 1))
       /\ code[o].op = "loop" => (~EntersBlock => Lands(e, o, o + 1))
       /\ code[o].op = "switch" => (~EntersBlock => Lands(e \o x, n + 1, n + 1))
  BY <1>1, <1>2, <1>4, <1>8, EndLands
<1>12. CASE code[o].op = "scope"
  BY <1>4, <1>5, <1>6, <1>9, <1>11, <1>12, GoesOn
<1>13. CASE code[o].op = "loop"
  BY <1>4, <1>5, <1>6, <1>9, <1>11, <1>13, GoesOn
<1>14. CASE code[o].op = "switch"
  <2>1. PICK f : f = e \o x
    OBVIOUS
  <2> QED BY <1>4, <1>5, <1>6, <1>10, <1>11, <1>14, <2>1, GoesOn
<1> QED BY <1>5, <1>12, <1>13, <1>14 DEF Openers

LEMMA RunJumpStep ==
  ASSUME VlaInv, RunJump
  PROVE  VlaInv'
<1>1. PICK n, k : n = at /\ k = code[n].to
  OBVIOUS
<1>2. PICK e, x, p : e = emitted[n].enter /\ x = emitted[k].exit /\ p = EndOf(k) + 1
  OBVIOUS
<1>3. \/ \E op \in Jumps : Running(op) /\ Go(<<>>, n + 1, FALSE)
      \/ Running("goto") /\ Go(e, k, FALSE)
      \/ Running("continue") /\ Go(e, k, TRUE)
      \/ Running("break") /\ Go(e \o x, p, FALSE)
  BY <1>1, <1>2, Zenon DEF RunJump
<1>4. unsaved = NONE
  BY <1>3 DEF Go
<1>5. ASSUME NEW op \in Jumps, Running(op)
      PROVE  /\ TypeOK /\ Resolved /\ Agrees /\ phase = "run" /\ n \in DOMAIN code /\ code[n].op = op
             /\ n + 1 \in DOMAIN vm_scope /\ Lowered(n) /\ e \in Seq(Instruction)
             /\ ~EntersBlock => Stands(n, n)
  <2>1. /\ TypeOK /\ Resolved /\ Agrees /\ phase = "run" /\ n \in DOMAIN code /\ code[n].op = op
        /\ n + 1 \in DOMAIN vm_scope /\ Lowered(n) /\ ~testing
        /\ ~EntersBlock => Stands(n, n)
    BY <1>1, <1>4, <1>5, RunningAt DEF Jumps
  <2> QED BY <1>2, <2>1, BlockCode
<1>6. ASSUME NEW op \in Jumps, Running(op), Go(<<>>, n + 1, FALSE)
      PROVE  VlaInv'
  <2>1. ~EntersBlock => Lands(<<>>, n + 1, n + 1)
    BY <1>5, <1>6, OnLands
  <2>2. PICK f : f = <<>> /\ f \in Seq(Instruction)
    BY InstructionFacts
  <2> QED BY <1>5, <1>6, <2>1, <2>2, GoesOn
<1>7. CASE Running("goto") /\ Go(e, k, FALSE)
  <2>1. /\ TypeOK /\ Resolved /\ phase = "run" /\ n \in DOMAIN code /\ code[n].op = "goto"
        /\ e \in Seq(Instruction) /\ (~EntersBlock => Stands(n, n))
    BY <1>5, <1>7 DEF Jumps
  <2>2. k \in DOMAIN vm_scope
    BY <1>1, <2>1, GotoScope
  <2>3. ~EntersBlock => Lands(e, k, k)
    BY <1>1, <1>2, <2>1, GotoLands
  <2> QED BY <1>7, <2>1, <2>2, <2>3, GoesOn
<1>8. ASSUME NEW op \in {"break", "continue"}, Running(op)
      PROVE  /\ k \in DOMAIN code /\ k \in DOMAIN vm_scope /\ code[k].op \in Openers
             /\ op = "continue" => code[k].op = "loop"
  <2>1. TypeOK /\ Resolved /\ Agrees /\ phase = "run" /\ n \in DOMAIN code /\ code[n].op = op
    BY <1>5, <1>8 DEF Jumps
  <2>2. k \in Around(n) /\ (op = "continue" => code[k].op = "loop")
    BY <1>1, <1>8, <2>1 DEF Resolved, Fits
  <2>3. n \in DOMAIN vm_scope
    BY <2>1, RunFacts
  <2> QED BY <2>1, <2>2, <2>3, AroundIs
<1>9. CASE Running("continue") /\ Go(e, k, TRUE)
  <2>1. /\ phase = "run" /\ n \in DOMAIN code /\ code[n].op = "continue"
        /\ e \in Seq(Instruction) /\ (~EntersBlock => Stands(n, n))
    BY <1>5, <1>9 DEF Jumps
  <2>2. k \in DOMAIN code /\ k \in DOMAIN vm_scope /\ code[k].op = "loop"
    BY <1>8, <1>9
  <2>3. ~EntersBlock => Lands(e, k, k + 1)
    BY <1>1, <1>2, <2>1, ContinueLands
  <2> QED BY <1>9, <2>1, <2>2, <2>3, GoesOn
<1>10. CASE Running("break") /\ Go(e \o x, p, FALSE)
  <2>1. /\ TypeOK /\ Resolved /\ Agrees /\ phase = "run" /\ n \in DOMAIN code /\ code[n].op = "break"
        /\ e \in Seq(Instruction) /\ (~EntersBlock => Stands(n, n))
    BY <1>5, <1>10 DEF Jumps
  <2>2. k \in DOMAIN code /\ code[k].op \in Openers
    BY <1>8, <1>10
  <2>3. p \in DOMAIN vm_scope
    BY <1>2, <2>1, <2>2, BehindBlock
  <2>4. x \in Seq(Instruction)
    BY <1>2, <2>1, <2>2, BlockCode
  <2>5. PICK f : f = e \o x
    OBVIOUS
  <2>6. f \in Seq(Instruction)
    BY <2>1, <2>4, <2>5, SeqFacts, Zenon
  <2>7. ~EntersBlock => Lands(f, p, p)
    BY <1>1, <1>2, <2>1, <2>5, BreakLands
  <2> QED BY <1>10, <2>1, <2>3, <2>5, <2>6, <2>7, GoesOn
<1> QED BY <1>3, <1>6, <1>7, <1>9, <1>10

-----------------------------------------------------------------------------
(* Where nothing happens.                                                  *)
LEMMA VlaStutter ==
  ASSUME VlaInv, UNCHANGED vars
  PROVE  VlaInv'
<1>1. UNCHANGED <<phase, code, vm_scope, open, at, testing, lifetimes, current, entry, vregs,
                  emitted, stack, saved, live, unsaved>>
  BY DEF vars, resolving, lowering, running
<1>2. TypeOK /\ Resolved /\ Untouched /\ (phase \in {"lower", "run"} => Agrees) /\ Runs
  BY DEF VlaInv
<1>3. TypeOK'
  BY <1>1, <1>2, Zenon DEF TypeOK
<1>4. Resolved'
  BY <1>1, <1>2, ResolvedKept
<1>5. Untouched'
  BY <1>1, <1>2 DEF Untouched
<1>6. Done' = Done
  BY <1>1 DEF Done
<1>7. phase' \in {"lower", "run"} => Agrees'
  BY <1>1, <1>2, <1>6, AgreesKept
<1>8. EntersBlock' = EntersBlock
  <2>1. \A x : EndOf(x)' = EndOf(x)
    BY <1>1, StaticKept
  <2>2. \A x, y : Inside(x, y)' = Inside(x, y)
    BY <2>1 DEF Inside
  <2>3. \A n, o : Inside(code[n].to, o)' = Inside(code[n].to, o)
    BY <1>1, <2>1 DEF Inside
  <2> QED BY <1>1, <2>2, <2>3, Zenon DEF EntersBlock
<1>9. Exact => Exact'
  <2>1. Here' = Here /\ Scope(Here)' = Scope(Here) /\ Around(at)' = Around(at)
        /\ Around(Here)' = Around(Here)
    BY <1>1, Zenon DEF Here, Scope, Around
  <2>2. /\ \A x : IsVla(x)' = IsVla(x) /\ Checkpoint(x)' = Checkpoint(x)
        /\ \A x : Body(x)' = Body(x) /\ Whole(x)' = Whole(x)
        /\ \A x : IsVla(live[x].of)' = IsVla(live[x].of)
    BY <1>1, Zenon DEF IsVla, Checkpoint, Body, Whole
  <2>3. /\ \A x : Keeps(Checkpoint(x), x + 1)' = Keeps(Checkpoint(x), x + 1)
        /\ \A x : Keeps(Body(x), x + 1)' = Keeps(Body(x), x + 1)
        /\ \A x : Keeps(Whole(x), x)' = Keeps(Whole(x), x)
    BY <1>1, <2>2, Zenon DEF Keeps
  <2> QED BY <1>1, <2>1, <2>2, <2>3, Zenon DEF Exact
<1>10. Checkpoint(0)' = Checkpoint(0)
  BY <1>1, Zenon DEF Checkpoint
<1>11. Runs'
  BY <1>1, <1>2, <1>8, <1>9, <1>10, Zenon DEF Runs
<1> QED BY <1>3, <1>4, <1>5, <1>7, <1>11, Zenon DEF VlaInv

(* A step of the resolver or of the lowering that stays where it was.       *)
LEMMA ReadingKeeps ==
  ASSUME VlaInv, phase = "parse", UNCHANGED <<phase, at, testing, lowering, running>>,
         TypeOK', Resolved'
  PROVE  VlaInv'
<1>1. Untouched'
  BY DEF VlaInv, Untouched, lowering, running
<1>2. phase' = "parse"
  OBVIOUS
<1> QED BY <1>1, <1>2 DEF VlaInv, Runs

LEMMA LoweringKeeps ==
  ASSUME phase' = "lower", TypeOK', Resolved', Untouched', Agrees'
  PROVE  VlaInv'
BY DEF VlaInv, Runs

LEMMA VlaNext ==
  ASSUME VlaInv, [Next]_vars
  PROVE  VlaInv'
<1>0. TypeOK /\ Resolved /\ Untouched /\ (phase \in {"lower", "run"} => Agrees) /\ Runs
  BY DEF VlaInv
<1>1. ASSUME NEW decl \in {"vla", "vm"}, Declare(decl)
      PROVE  VlaInv'
  <2>1. phase = "parse" /\ UNCHANGED <<phase, at, testing, lowering, running>>
    BY <1>1 DEF Declare, Read
  <2> QED BY <1>0, <1>1, <2>1, DeclareStep, ReadingKeeps
<1>2. ASSUME NEW op \in Openers, NEW decl \in {"none", "vla", "vm"}, decl # "none" => op = "loop",
             Open(op, decl)
      PROVE  VlaInv'
  <2>1. phase = "parse" /\ UNCHANGED <<phase, at, testing, lowering, running>>
    BY <1>2 DEF Open, Read
  <2> QED BY <1>0, <1>2, <2>1, OpenStep, ReadingKeeps
<1>3. CASE Close
  <2>1. phase = "parse" /\ UNCHANGED <<phase, at, testing, lowering, running>>
    BY <1>3 DEF Close, Read
  <2> QED BY <1>0, <1>3, <2>1, CloseStep, ReadingKeeps
<1>4. CASE Case
  <2>1. phase = "parse" /\ UNCHANGED <<phase, at, testing, lowering, running>>
    BY <1>4 DEF Case, Read
  <2> QED BY <1>0, <1>4, <2>1, CaseStep, ReadingKeeps
<1>5. CASE Goto
  <2>1. phase = "parse" /\ UNCHANGED <<phase, at, testing, lowering, running>>
    BY <1>5 DEF Goto, Jump, Read
  <2> QED BY <1>0, <1>5, <2>1, GotoStep, ReadingKeeps
<1>6. ASSUME NEW op, NEW blocks, Leave(op, blocks),
             \/ op = "break" /\ blocks = {"loop", "switch"}
             \/ op = "continue" /\ blocks = {"loop"}
      PROVE  VlaInv'
  <2>1. phase = "parse" /\ UNCHANGED <<phase, at, testing, lowering, running>>
    BY <1>6 DEF Leave, Jump, Read
  <2>2. TypeOK' /\ Resolved'
    BY <1>0, <1>6, LeaveStep
  <2> QED BY <2>1, <2>2, ReadingKeeps
<1>7. CASE Resolve
  <2>1. phase = "parse" /\ phase' \in {"lower", "rejected"}
    BY <1>7 DEF Resolve
  <2>2. TypeOK' /\ Resolved' /\ (phase' = "lower" => Untouched' /\ Agrees')
    BY <1>0, <1>7, <2>1, ResolveStep
  <2>3. CASE phase' = "lower"
    BY <2>2, <2>3, LoweringKeeps
  <2>4. CASE phase' = "rejected"
    BY <2>2, <2>4 DEF VlaInv, Untouched, Runs
  <2> QED BY <2>1, <2>3, <2>4
<1>8. ASSUME \/ LowerDeclaration \/ LowerScope \/ LowerLoop \/ LowerSwitch \/ LowerCase
             \/ LowerEnd \/ LowerLeave \/ LowerGoto
      PROVE  VlaInv'
  <2>1. phase = "lower" /\ phase' = phase
    BY <1>8 DEF LowerDeclaration, LowerScope, LowerLoop, LowerSwitch, LowerCase, LowerEnd,
                LowerLeave, LowerGoto, Lower, Emit
  <2>2. TypeOK' /\ Resolved' /\ Untouched' /\ Agrees'
    BY <1>0, <1>8, <2>1, LowerDeclarationStep, LowerScopeStep, LowerLoopStep, LowerSwitchStep,
       LowerCaseStep, LowerEndStep, LowerLeaveStep, LowerGotoStep
  <2> QED BY <2>1, <2>2, LoweringKeeps
<1>9. CASE LowerReturn
  <2>1. phase = "lower"
    BY <1>9 DEF LowerReturn
  <2>2. TypeOK' /\ Resolved' /\ Untouched' /\ Agrees' /\ Runs'
    BY <1>0, <1>9, <2>1, LowerReturnStep
  <2> QED BY <2>2 DEF VlaInv
<1>10. CASE UNCHANGED vars
  BY <1>10, VlaStutter
<1>11. ASSUME Next
       PROVE  VlaInv'
  <2>1. \/ \E decl \in {"vla", "vm"} : Declare(decl)
        \/ \E op \in Openers : Open(op, "none")
        \/ \E decl \in {"vla", "vm"} : Open("loop", decl)
        \/ Close \/ Case \/ Goto
        \/ Leave("break", {"loop", "switch"}) \/ Leave("continue", {"loop"})
        \/ Resolve
        \/ LowerDeclaration \/ LowerScope \/ LowerLoop \/ LowerSwitch \/ LowerCase
        \/ LowerEnd \/ LowerLeave \/ LowerGoto
        \/ LowerReturn \/ RunOn \/ RunSwitch \/ RunLoop \/ RunEnd \/ RunJump
    BY <1>11, Zenon DEF Next
  <2>2. \A op \in Openers : Open(op, "none") => VlaInv'
    BY <1>2
  <2>3. \A decl \in {"vla", "vm"} : Open("loop", decl) => VlaInv'
    BY <1>2 DEF Openers
  <2>4. /\ Leave("break", {"loop", "switch"}) => VlaInv'
        /\ Leave("continue", {"loop"}) => VlaInv'
    BY <1>6
  <2> QED BY <1>1, <1>3, <1>4, <1>5, <1>7, <1>8, <1>9, <2>1, <2>2, <2>3, <2>4,
             RunOnStep, RunSwitchStep, RunLoopStep, RunEndStep, RunJumpStep, Zenon
<1> QED BY <1>10, <1>11

(* The resolver's record, what the lowering makes of it and what a run does *)
(* keep to one another in every reachable state.                           *)
THEOREM VlaInvariant == Spec => []VlaInv
<1>1. Init => VlaInv
  BY VlaInit
<1>2. VlaInv /\ [Next]_vars => VlaInv'
  BY VlaNext
<1> QED BY <1>1, <1>2, PTL DEF Spec

(* The resolver's record and the lowering's lifetimes agree at every goto   *)
(* and label, and hir_ir_vla_lifetime_restore finds every checkpoint.       *)
THEOREM LoweringNeverFails == Spec => []PassesAgree
<1>1. VlaInv => PassesAgree
  BY NoFailure DEF VlaInv, PassesAgree
<1> QED BY <1>1, VlaInvariant, PTL

(* Whatever way a run takes through a function none of whose jumps enters a *)
(* loop or a switch past its head, the stack holds the arrays whose scope   *)
(* the run is in: the restores of hir_ir_cfg.c neither release an array     *)
(* that can be named nor keep one that cannot.                             *)
THEOREM StackIsExact == Spec => []StackExact
<1>1. VlaInv => StackExact
  BY DEF VlaInv, Runs, Exact, StackExact
<1> QED BY <1>1, VlaInvariant, PTL

(* In such a function a restore finds a register that was saved before it,  *)
(* but for the function's own checkpoint, which the first array of the      *)
(* text saves.                                                             *)
THEOREM RestoresAreSaved == Spec => []NestedSavesDominate
<1>1. VlaInv => NestedSavesDominate
  BY DEF VlaInv, Runs, NestedSavesDominate, Checkpoint
<1> QED BY <1>1, VlaInvariant, PTL

=============================================================================
