---------------------------- MODULE TokenProofs ----------------------------
(***************************************************************************)
(* What the token allocator promises its client for every number of        *)
(* chunks, every margin, every set of addresses and every order of calls,  *)
(* and what the streaming preprocessor over it promises the parser for     *)
(* every text, every nesting of files and groups, and every lookahead.     *)
(*                                                                         *)
(* The allocator first.                                                    *)
(* IInv is inductive: types alone are not, because a cursor move reads     *)
(* recyc_cursor_chunk and the place of the live chunks, so that the type   *)
(* of place after the move rests on the shape of the list.                 *)
(***************************************************************************)
EXTENDS TokenStream, FunctionTheorems, SequenceTheorems, FiniteSetTheorems,
        WellFoundedInduction, TLAPS

IInv ==
  /\ TypeOK
  /\ NoDanglingChunk
  /\ recyc_oldest = 0 <=> recyc_newest = 0
  /\ recyc_oldest <= recyc_newest
  /\ ChunkCountExact

LEMMA EmptyNats == << >> \in Seq(Nat) /\ Len(<< >>) = 0
OBVIOUS

(* A chunk capacity is a natural number.                                   *)
LEMMA AlignUpNat ==
  ASSUME NEW n \in Nat, NEW a \in Nat \ {0}
  PROVE  AlignUp(n, a) \in Nat
<1> DEFINE q == (n + a - 1) \div a
<1>1. q \in Nat
  BY SMT
<1>2. q * a \in Nat
  <2> HIDE DEF q
  <2> QED BY <1>1, SMT
<1> QED BY <1>2 DEF AlignUp

LEMMA CapForNat ==
  ASSUME NEW size \in Nat, NEW hint \in Nat
  PROVE  CapFor(size, hint) \in Nat
BY AlignUpNat, SizeAssumption DEF CapFor

LEMMA HintForNat ==
  ASSUME NEW bytes \in Nat
  PROVE  HintFor(bytes) \in Nat
<1>1. (bytes * 3) \div 2 + Page \in Nat
  BY SizeAssumption, SMT
<1> DEFINE h == AlignUp((bytes * 3) \div 2 + Page, Page)
<1>2. h \in Nat
  BY <1>1, AlignUpNat, SizeAssumption
<1> HIDE DEF h
<1>3. Smaller(MaxHint, Larger(MinHint, h)) \in Nat
  BY <1>2, SizeAssumption DEF Smaller, Larger
<1> QED BY <1>3 DEF HintFor, h

(* A pointer is found in a live chunk, or nowhere.                         *)
LEMMA ChunkOfLive ==
  ASSUME NEW p
  PROVE  ChunkOf(p) \in Live \cup {0}
BY DEF ChunkOf

LEMMA LiveNat ==
  ASSUME IInv
  PROVE  /\ Live \subseteq Nat \ {0}
         /\ \A c \in Live : recyc_oldest <= c /\ c <= recyc_newest
         /\ recyc_oldest # 0 => Live = recyc_oldest .. recyc_newest
BY DEF IInv, TypeOK, Live

(* The floor of a release is a live chunk, no newer than the cursor's      *)
(* chunk, than its margin, and than the chunk of a pin.                    *)
LEMMA FloorLive ==
  ASSUME IInv, NEW c \in Live
  PROVE  /\ Floor(c) \in Live
         /\ Floor(c) <= c
         /\ Floor(c) <= recyc_oldest \/ Floor(c) <= c - Margin
         /\ \A q \in {recyc_pin, recyc_stream_pin} :
               ChunkOf(q) # 0 => Floor(c) <= ChunkOf(q)
<1>1. /\ recyc_oldest \in Nat /\ recyc_newest \in Nat /\ recyc_oldest # 0
      /\ Live = recyc_oldest .. recyc_newest
  BY DEF IInv, TypeOK, Live
<1>2. /\ MarginFloor(c) \in Live
      /\ MarginFloor(c) <= c
      /\ MarginFloor(c) <= recyc_oldest \/ MarginFloor(c) <= c - Margin
  BY <1>1, MarginAssumption DEF MarginFloor, Larger
<1>3. ASSUME NEW p, NEW f \in Live
      PROVE  /\ PinFloor(p, f) \in Live
             /\ PinFloor(p, f) <= f
             /\ ChunkOf(p) # 0 => PinFloor(p, f) <= ChunkOf(p)
  BY <1>1, ChunkOfLive DEF PinFloor, Smaller
<1> DEFINE f0 == MarginFloor(c)
           f1 == PinFloor(recyc_pin, f0)
           f2 == PinFloor(recyc_stream_pin, f1)
<1>4. f1 \in Live /\ f1 <= f0 /\ (ChunkOf(recyc_pin) # 0 => f1 <= ChunkOf(recyc_pin))
  BY <1>2, <1>3
<1>5. f2 \in Live /\ f2 <= f1
      /\ (ChunkOf(recyc_stream_pin) # 0 => f2 <= ChunkOf(recyc_stream_pin))
  BY <1>4, <1>3
<1>6. f2 <= f0 /\ f2 <= c
  BY <1>1, <1>2, <1>4, <1>5
<1>7. Floor(c) = f2
  BY DEF Floor
<1>8. \A p : ChunkOf(p) \in Int
  BY ChunkOfLive, <1>1
<1>9. f0 \in Int /\ f1 \in Int /\ f2 \in Int
  BY <1>1, <1>2, <1>4, <1>5
<1> HIDE DEF f0, f1, f2
<1>10. f0 <= recyc_oldest \/ f0 <= c - Margin
  BY <1>2 DEF f0
<1>11. f2 <= recyc_oldest \/ f2 <= c - Margin
  BY <1>1, <1>6, <1>9, <1>10, MarginAssumption
<1>12. ChunkOf(recyc_pin) # 0 => f2 <= ChunkOf(recyc_pin)
  BY <1>4, <1>5, <1>8, <1>9
<1> QED BY <1>5, <1>6, <1>7, <1>11, <1>12

(* An allocation adds a chunk to the list; a cursor move cuts its front off. *)
LEMMA ListGrows ==
  ASSUME IInv, NEW size \in Sizes, AllocNewest(size)
  PROVE  LET new == recyc_newest + 1
             capacity == CapFor(size, RecycCap)
         IN  /\ capacity \in Nat
             /\ Live' = Live \cup {new} /\ new \notin Live
             /\ cap' = [c \in Live' |-> IF c = new THEN capacity ELSE cap[c]]
<1> DEFINE new == recyc_newest + 1
           capacity == CapFor(size, RecycCap)
<1> USE DEF IInv
<1>1. capacity \in Nat
  BY SizeAssumption, CapForNat
<1>2. /\ recyc_oldest' = IF recyc_newest = 0 THEN new ELSE recyc_oldest
      /\ recyc_newest' = new
      /\ cap' = [c \in Live \cup {new} |-> IF c = new THEN capacity ELSE cap[c]]
  BY DEF AllocNewest
<1>3. Live' = Live \cup {new} /\ new \notin Live
  <2>1. CASE recyc_newest = 0
    <3>1. Live = {} /\ Live' = 1 .. 1
      BY <1>2, <2>1 DEF TypeOK, Live
    <3> QED BY <2>1, <3>1
  <2>2. CASE recyc_newest # 0
    <3>1. /\ Live = recyc_oldest .. recyc_newest
          /\ Live' = recyc_oldest .. recyc_newest + 1
      BY <1>2, <2>2 DEF TypeOK, Live
    <3> QED BY <2>2, <3>1 DEF TypeOK
  <2> QED BY <2>1, <2>2
<1> QED BY <1>1, <1>2, <1>3

LEMMA ListShrinks ==
  ASSUME IInv, NEW p \in Addr, OnCursor(p)
  PROVE  LET floor == Floor(ChunkOf(p))
             dead == recyc_oldest .. floor - 1
         IN  /\ recyc_oldest \in Nat /\ floor \in Nat
             /\ Live = dead \cup Live' /\ dead \cap Live' = {}
             /\ cap' = [c \in Live' |-> cap[c]]
<1> DEFINE floor == Floor(ChunkOf(p))
           dead == recyc_oldest .. floor - 1
<1> USE DEF IInv
<1>1. ChunkOf(p) \in Live
  BY ChunkOfLive DEF OnCursor, CursorCrosses
<1>2. floor \in Live /\ floor <= ChunkOf(p)
  BY <1>1, FloorLive
<1>3. /\ recyc_oldest' = floor
      /\ cap' = [c \in Live \ dead |-> cap[c]]
      /\ recyc_newest' = recyc_newest
  BY DEF OnCursor
<1> HIDE DEF floor
<1>4. /\ Live = recyc_oldest .. recyc_newest
      /\ recyc_oldest \in Nat \ {0} /\ recyc_newest \in Nat
  BY <1>1 DEF Live, TypeOK
<1>5. floor \in Nat \ {0} /\ Live' = floor .. recyc_newest
  BY <1>2, <1>3, <1>4 DEF Live
<1>6. /\ Live = dead \cup Live' /\ dead \cap Live' = {}
      /\ Live \ dead = Live'
  BY <1>2, <1>4, <1>5
<1> QED BY <1>3, <1>4, <1>5, <1>6 DEF floor

-----------------------------------------------------------------------------
LEMMA InitIInv == Init => IInv
<1> SUFFICES ASSUME Init PROVE IInv
  OBVIOUS
<1>1. Live = {}
  BY DEF Init, Live
<1>2. place \in [Live -> Addr] /\ cap \in [Live -> Nat]
  BY <1>1 DEF Init
<1>3. arena \in Seq(Nat) /\ Len(arena) = 0
  BY EmptyNats DEF Init
<1>4. /\ recyc_mode = FALSE /\ recyc_oldest = 0 /\ recyc_newest = 0
      /\ newest_used = 0 /\ recyc_pin = NoAddr /\ recyc_stream_pin = NoAddr
      /\ recyc_cursor_chunk = 0 /\ arena_used = 0 /\ next_chunk_hint \in Nat
      /\ total_chunks = 0
  BY SizeAssumption DEF Init
<1>5. TypeOK
  BY <1>2, <1>3, <1>4 DEF TypeOK
<1>6. ChunkCountExact
  BY <1>3, <1>4 DEF ChunkCountExact, FifoLength
<1> QED BY <1>1, <1>4, <1>5, <1>6 DEF IInv, NoDanglingChunk

(* The effect of a reset of the recyclable list on the invariant.          *)
LEMMA ClearRecyclableIInv ==
  ASSUME IInv, ClearRecyclable,
         recyc_mode' \in BOOLEAN, arena' \in Seq(Nat), arena_used' \in Nat,
         next_chunk_hint' \in Nat, total_chunks' = Len(arena')
  PROVE  IInv'
<1>1. Live' = {}
  BY DEF ClearRecyclable, Live
<1>2. place' \in [Live' -> Addr] /\ cap' \in [Live' -> Nat]
  BY <1>1 DEF ClearRecyclable
<1>3. total_chunks' \in Nat
  OBVIOUS
<1> QED BY <1>1, <1>2, <1>3
        DEF ClearRecyclable, IInv, TypeOK, NoDanglingChunk, ChunkCountExact,
            FifoLength

LEMMA NextIInv == IInv /\ [Next]_vars => IInv'
<1> SUFFICES ASSUME IInv, [Next]_vars PROVE IInv'
  OBVIOUS
<1> USE DEF IInv
<1>1. ASSUME NEW on \in BOOLEAN, SetRecyclable(on) PROVE IInv'
  BY <1>1 DEF SetRecyclable, fifo, pins, persistent, stats, TypeOK, Live,
              NoDanglingChunk, ChunkCountExact, FifoLength
<1>2. ASSUME NEW size \in Sizes, AllocInNewest(size) PROVE IInv'
  BY <1>2, SizeAssumption
     DEF AllocInNewest, pins, persistent, stats, TypeOK, Live,
         NoDanglingChunk, ChunkCountExact, FifoLength
<1>3. ASSUME NEW size \in Sizes, AllocNewest(size) PROVE IInv'
  <2> DEFINE new == recyc_newest + 1
             capacity == CapFor(size, RecycCap)
  <2>1. capacity \in Nat
    BY SizeAssumption, CapForNat
  <2> HIDE DEF capacity
  <2>2. PICK a \in Addr :
          /\ recyc_oldest' = IF recyc_newest = 0 THEN new ELSE recyc_oldest
          /\ recyc_newest' = new
          /\ place' = [c \in Live \cup {new} |-> IF c = new THEN a ELSE place[c]]
          /\ cap' = [c \in Live \cup {new} |-> IF c = new THEN capacity ELSE cap[c]]
          /\ total_chunks' = total_chunks + 1
    <3>1. Malloc({place[c] : c \in Live}) \subseteq Addr
      BY AddrAssumption DEF TypeOK
    <3> QED BY <1>3, <3>1 DEF AllocNewest, CountNewChunk, capacity
  <2>3. Live' = Live \cup {new}
    BY <1>3, ListGrows
  <2>4. place' \in [Live' -> Addr] /\ cap' \in [Live' -> Nat]
    BY <2>1, <2>2, <2>3 DEF TypeOK
  <2>5. TypeOK'
    BY <1>3, <2>2, <2>4, SizeAssumption DEF AllocNewest, persistent, pins, TypeOK
  <2>6. NoDanglingChunk'
    BY <1>3, <2>2, <2>3 DEF AllocNewest, NoDanglingChunk, TypeOK
  <2>7. ChunkCountExact'
    BY SMTT(30), <1>3, <2>2 DEF AllocNewest, persistent, ChunkCountExact, FifoLength, TypeOK
  <2> QED BY <2>2, <2>5, <2>6, <2>7 DEF TypeOK
<1>4. ASSUME NEW size \in Sizes, AllocInArena(size) PROVE IInv'
  BY <1>4, SizeAssumption
     DEF AllocInArena, fifo, pins, stats, TypeOK, Live, NoDanglingChunk,
         ChunkCountExact, FifoLength
<1>5. ASSUME NEW size \in Sizes, AllocArena(size) PROVE IInv'
  <2> DEFINE capacity == CapFor(size, next_chunk_hint)
  <2>1. capacity \in Nat
    BY SizeAssumption, CapForNat DEF TypeOK
  <2> HIDE DEF capacity
  <2>2. arena' = <<capacity>> \o arena /\ total_chunks' = total_chunks + 1
    BY <1>5 DEF AllocArena, CountNewChunk, capacity
  <2>3. arena' \in Seq(Nat) /\ Len(arena') = Len(arena) + 1
    BY <2>1, <2>2 DEF TypeOK
  <2>4. /\ FifoLength' = FifoLength
        /\ FifoLength \in Int
    BY <1>5 DEF AllocArena, fifo, FifoLength, TypeOK
  <2>5. ChunkCountExact'
    BY <2>2, <2>3, <2>4 DEF ChunkCountExact, TypeOK
  <2>6. Live' = Live /\ NoDanglingChunk'
    BY <1>5 DEF AllocArena, fifo, Live, NoDanglingChunk
  <2>7. TypeOK'
    BY <1>5, <2>2, <2>3, <2>6, SizeAssumption
       DEF AllocArena, fifo, pins, TypeOK
  <2> QED BY <1>5, <2>5, <2>6, <2>7 DEF AllocArena, fifo
<1>6. ASSUME NEW p \in Addr \cup {NoAddr}, RecycPin(p) PROVE IInv'
  BY <1>6 DEF RecycPin, fifo, persistent, stats, TypeOK, Live,
              NoDanglingChunk, ChunkCountExact, FifoLength
<1>7. ASSUME NEW p \in Addr \cup {NoAddr}, RecycStreamPin(p) PROVE IInv'
  BY <1>7 DEF RecycStreamPin, fifo, persistent, stats, TypeOK, Live,
              NoDanglingChunk, ChunkCountExact, FifoLength
<1>8. ASSUME NEW p \in Addr, OnCursor(p) PROVE IInv'
  <2> DEFINE floor == Floor(ChunkOf(p))
             kept == Live \ (recyc_oldest .. floor - 1)
  <2>1. ChunkOf(p) \in Live
    BY <1>8, ChunkOfLive DEF OnCursor, CursorCrosses
  <2>2. floor \in Live /\ floor <= ChunkOf(p)
    BY <2>1, FloorLive
  <2>3. /\ recyc_oldest' = floor
        /\ recyc_cursor_chunk' = ChunkOf(p)
        /\ place' = [c \in kept |-> place[c]]
        /\ cap' = [c \in kept |-> cap[c]]
        /\ total_chunks' = total_chunks - (floor - recyc_oldest)
        /\ recyc_newest' = recyc_newest
    BY <1>8 DEF OnCursor, CountFreed
  <2> HIDE DEF floor
  <2>4. /\ Live = recyc_oldest .. recyc_newest
        /\ recyc_oldest \in Nat \ {0} /\ recyc_newest \in Nat
    BY <2>1 DEF Live, TypeOK
  <2>5. floor \in Nat \ {0} /\ Live' = floor .. recyc_newest
    BY <2>2, <2>3, <2>4 DEF Live
  <2>6. kept = Live'
    BY <2>2, <2>4, <2>5
  <2>7. /\ place' \in [Live' -> Addr] /\ cap' \in [Live' -> Nat]
    <3>1. Live' \subseteq Live
      BY <2>2, <2>4, <2>5
    <3> QED BY <2>3, <2>6, <3>1 DEF TypeOK
  <2>8. ChunkOf(p) \in Live' /\ recyc_newest \in Live'
    BY <2>1, <2>2, <2>4, <2>5
  <2>9. NoDanglingChunk'
    BY <2>3, <2>8 DEF NoDanglingChunk
  <2>10. /\ FifoLength = recyc_newest - recyc_oldest + 1
         /\ FifoLength' = recyc_newest - floor + 1
    BY <2>3, <2>4, <2>5 DEF FifoLength
  <2>11. ChunkCountExact' /\ total_chunks' \in Nat
    BY <1>8, <2>2, <2>3, <2>4, <2>5, <2>10
       DEF OnCursor, persistent, ChunkCountExact, TypeOK
  <2>12. TypeOK'
    BY <1>8, <2>1, <2>3, <2>4, <2>5, <2>7, <2>11
       DEF OnCursor, pins, persistent, TypeOK
  <2> QED BY <2>2, <2>3, <2>4, <2>5, <2>8, <2>9, <2>11, <2>12
<1>9. ASSUME RecycReset PROVE IInv'
  <2>1. total_chunks' = Len(arena')
    BY <1>9 DEF RecycReset, CountFreed, persistent, ChunkCountExact, TypeOK,
                FifoLength
  <2> QED BY <1>9, <2>1, ClearRecyclableIInv DEF RecycReset, persistent, TypeOK
<1>10. ASSUME ResetTranslationUnit PROVE IInv'
  <2>1. total_chunks' = 0
    BY <1>10 DEF ResetTranslationUnit, CountFreed, ChunkCountExact, TypeOK,
                 FifoLength
  <2>2. arena' \in Seq(Nat) /\ Len(arena') = 0
    BY <1>10, EmptyNats DEF ResetTranslationUnit
  <2> QED BY <1>10, <2>1, <2>2, ClearRecyclableIInv, SizeAssumption
          DEF ResetTranslationUnit
<1>11. ASSUME NEW bytes \in Inputs, SetExpectedSize(bytes) PROVE IInv'
  <2>1. HintFor(bytes) \in Nat
    BY HintForNat, SizeAssumption
  <2> QED BY <1>11, <2>1
          DEF SetExpectedSize, fifo, pins, stats, TypeOK, Live,
              NoDanglingChunk, ChunkCountExact, FifoLength
<1>12. ASSUME Recreate PROVE IInv'
  <2>1. arena' \in Seq(Nat) /\ Len(arena') = 0
    BY <1>12, EmptyNats DEF Recreate
  <2> QED BY <1>12, <2>1, ClearRecyclableIInv, SizeAssumption DEF Recreate
<1>13. ASSUME UNCHANGED vars PROVE IInv'
  BY <1>13 DEF vars, fifo, pins, persistent, stats, TypeOK, Live,
               NoDanglingChunk, ChunkCountExact, FifoLength
<1> QED
  BY <1>1, <1>2, <1>3, <1>4, <1>5, <1>6, <1>7, <1>8, <1>9, <1>10, <1>11,
     <1>12, <1>13
  DEF Next

(* In every state of every run of the allocator IInv holds.                *)
THEOREM Invariant == Spec => []IInv
BY InitIInv, NextIInv, PTL DEF Spec

(* Neither pointer the allocator keeps into the recyclable list dangles.   *)
THEOREM NeverDangling == Spec => []NoDanglingChunk
<1>1. IInv => NoDanglingChunk
  BY DEF IInv
<1> QED BY <1>1, Invariant, PTL

(* total_chunks is the number of chunks allocated and not yet freed.       *)
THEOREM ChunkCount == Spec => []ChunkCountExact
<1>1. IInv => ChunkCountExact
  BY DEF IInv
<1> QED BY <1>1, Invariant, PTL

(* The variables have their types.                                         *)
THEOREM TypeCorrect == Spec => []TypeOK
<1>1. IInv => TypeOK
  BY DEF IInv
<1> QED BY <1>1, Invariant, PTL

(* No cursor move frees a chunk that the cursor, its margin or a pin holds. *)
THEOREM SparesWhatIsHeld == Spec => CursorMoveSpares
<1>1. IInv /\ [Next]_vars => [\A p \in Addr : OnCursor(p) => ReleaseSpares(p)]_vars
  <2> SUFFICES ASSUME IInv, NEW p \in Addr, OnCursor(p) PROVE ReleaseSpares(p)
    OBVIOUS
  <2> DEFINE c == ChunkOf(p)
             floor == Floor(c)
             spared == {k \in Live : \/ k >= c - Margin
                                     \/ \E q \in {recyc_pin, recyc_stream_pin} :
                                           ChunkOf(q) # 0 /\ k >= ChunkOf(q)}
  <2>1. c \in Live
    BY ChunkOfLive DEF OnCursor, CursorCrosses
  <2>2. /\ floor \in Live
        /\ floor <= recyc_oldest \/ floor <= c - Margin
        /\ \A q \in {recyc_pin, recyc_stream_pin} :
              ChunkOf(q) # 0 => floor <= ChunkOf(q)
    BY <2>1, FloorLive
  <2>3. /\ recyc_oldest' = floor /\ recyc_newest' = recyc_newest
        /\ place' = [k \in Live \ (recyc_oldest .. floor - 1) |-> place[k]]
    BY DEF OnCursor
  <2> HIDE DEF c, floor
  <2>4. /\ recyc_oldest \in Nat \ {0} /\ recyc_newest \in Nat
        /\ Live = recyc_oldest .. recyc_newest
    BY <2>1 DEF Live, IInv, TypeOK
  <2>5. floor \in Nat \ {0} /\ c \in Nat /\ Live' = floor .. recyc_newest
    BY <2>1, <2>2, <2>3, <2>4 DEF Live
  <2>6. \A q : ChunkOf(q) \in Nat
    BY ChunkOfLive, <2>4
  <2>7. ASSUME NEW k \in spared PROVE floor <= k
    <3>1. CASE k >= c - Margin
      BY <2>2, <2>4, <2>5, <3>1, MarginAssumption
    <3>2. CASE \E q \in {recyc_pin, recyc_stream_pin} :
                  ChunkOf(q) # 0 /\ k >= ChunkOf(q)
      BY <2>2, <2>4, <2>5, <2>6, <3>2
    <3> QED BY <2>7, <3>1, <3>2
  <2>8. \A k \in spared : k \in Live' /\ place'[k] = place[k]
    <3> SUFFICES ASSUME NEW k \in spared PROVE k \in Live' /\ place'[k] = place[k]
      OBVIOUS
    <3>1. floor <= k /\ k \in Live
      BY <2>7
    <3> HIDE DEF spared
    <3> QED BY <2>3, <2>4, <2>5, <3>1
  <2> QED BY <2>8 DEF ReleaseSpares, c
<1> QED BY <1>1, Invariant, PTL DEF Spec, CursorMoveSpares

-----------------------------------------------------------------------------
(* Sums over finite sets: the library's is a recursive function that takes  *)
(* an arbitrary element first, whatever the order it comes out the same.    *)

(* T gives every subset of D the sum of g over it.                          *)
IsSum(T, g, D) ==
  /\ T \in [SUBSET D -> Nat]
  /\ T[{}] = 0
  /\ \A s \in SUBSET D : \A x \in s : T[s] = g[x] + T[s \ {x}]

Arbitrary(s) == CHOOSE x \in s : TRUE

(* What the sum of the library is: a function on sets that takes one        *)
(* element after the other.                                                 *)
LEMMA SumUnfold ==
  ASSUME NEW g
  PROVE  SumFunction(g) =
           (CHOOSE f : f = [s \in SUBSET DOMAIN g |->
              IF s = {} THEN 0
              ELSE g[Arbitrary(s)] + f[s \ {Arbitrary(s)}]])[DOMAIN g]
BY DEF SumFunction, SumFunctionOnSet, FoldFunctionOnSet, MapThenFoldSet, Arbitrary

(* A set of numbers has a least one.                                        *)
LEMMA Least ==
  ASSUME NEW S \in SUBSET Nat, S # {}
  PROVE  \E n \in S : \A m \in S : n <= m
<1>1. PICK n \in S : \A m \in S : ~(<<m, n>> \in OpToRel(<, Nat))
  BY NatLessThanWellFounded, WFMin
<1>2. \A m \in S : ~(m < n)
  BY <1>1 DEF OpToRel
<1> QED BY <1>2

LEMMA SumExtend ==
  ASSUME NEW D, NEW g \in [D -> Nat], NEW S \in SUBSET D, NEW x \in D, x \notin S,
         NEW T, IsSum(T, g, S)
  PROVE  \E U : IsSum(U, g, S \cup {x})
<1> DEFINE U == [s \in SUBSET (S \cup {x}) |->
                   IF x \in s THEN g[x] + T[s \ {x}] ELSE T[s]]
<1>0. /\ T \in [SUBSET S -> Nat] /\ T[{}] = 0
      /\ \A s \in SUBSET S : \A y \in s : T[s] = g[y] + T[s \ {y}]
  BY DEF IsSum
<1>1. U \in [SUBSET (S \cup {x}) -> Nat]
  <2> SUFFICES ASSUME NEW s \in SUBSET (S \cup {x})
               PROVE  (IF x \in s THEN g[x] + T[s \ {x}] ELSE T[s]) \in Nat
    OBVIOUS
  <2>1. CASE x \in s
    <3>1. s \ {x} \in SUBSET S /\ g[x] \in Nat
      OBVIOUS
    <3>2. T[s \ {x}] \in Nat
      BY <1>0, <3>1
    <3> QED BY <2>1, <3>1, <3>2
  <2>2. CASE x \notin s
    <3>1. s \in SUBSET S
      BY <2>2
    <3> QED BY <1>0, <2>2, <3>1
  <2> QED BY <2>1, <2>2
<1>2. U[{}] = 0
  BY <1>0
<1>3. ASSUME NEW s \in SUBSET (S \cup {x}), NEW y \in s
      PROVE  U[s] = g[y] + U[s \ {y}]
  <2>0. s \ {y} \in SUBSET (S \cup {x}) /\ g[x] \in Nat /\ g[y] \in Nat
    OBVIOUS
  <2>1. CASE x \notin s
    <3>1. s \in SUBSET S /\ x \notin s \ {y}
      BY <2>1
    <3> QED BY <1>0, <2>0, <2>1, <3>1
  <2>2. CASE x \in s /\ y = x
    <3>1. U[s] = g[x] + T[s \ {x}]
      BY <2>2
    <3>2. U[s \ {x}] = T[s \ {x}]
      OBVIOUS
    <3> QED BY <2>2, <3>1, <3>2
  <2>3. CASE x \in s /\ y # x
    <3>1. U[s] = g[x] + T[s \ {x}]
      BY <2>3
    <3>2. U[s \ {y}] = g[x] + T[(s \ {y}) \ {x}]
      BY <2>0, <2>3
    <3>3. s \ {x} \in SUBSET S /\ y \in s \ {x} /\ (s \ {x}) \ {y} = (s \ {y}) \ {x}
      BY <2>3
    <3>4. T[s \ {x}] = g[y] + T[(s \ {y}) \ {x}]
      BY <1>0, <3>3
    <3>5. T[(s \ {y}) \ {x}] \in Nat
      <4>1. (s \ {y}) \ {x} \in SUBSET S
        OBVIOUS
      <4> QED BY <1>0, <4>1
    <3> HIDE DEF U
    <3> QED BY <2>0, <3>1, <3>2, <3>4, <3>5
  <2> QED BY <2>1, <2>2, <2>3
<1> HIDE DEF U
<1> QED BY <1>1, <1>2, <1>3 DEF IsSum

(* A finite set has sums.                                                   *)
LEMMA SumExists ==
  ASSUME NEW D, IsFiniteSet(D), NEW g \in [D -> Nat]
  PROVE  \E T : IsSum(T, g, D)
<1> DEFINE Summed(S) == \E T : IsSum(T, g, S)
           Bad == {n \in Nat : \E S \in SUBSET D : Cardinality(S) = n /\ ~Summed(S)}
<1>1. ASSUME Bad # {} PROVE FALSE
  <2>1. PICK n \in Bad : \A m \in Bad : n <= m
    BY <1>1, Least
  <2>2. PICK S \in SUBSET D : Cardinality(S) = n /\ ~Summed(S)
    BY <2>1
  <2>3. IsFiniteSet(S)
    BY FS_Subset
  <2>4. CASE S = {}
    <3> DEFINE T == [s \in SUBSET {} |-> 0]
    <3>1. IsSum(T, g, {})
      BY DEF IsSum
    <3> HIDE DEF T
    <3> QED BY <2>2, <2>4, <3>1
  <2>5. CASE S # {}
    <3>1. PICK x \in S : TRUE
      BY <2>5
    <3>2. /\ IsFiniteSet(S \ {x}) /\ Cardinality(S \ {x}) = n - 1 /\ n \in Nat
          /\ Cardinality(S \ {x}) \in Nat
      BY <2>2, <2>3, FS_RemoveElement, FS_CardinalityType
    <3>3. S \ {x} \in SUBSET D
      OBVIOUS
    <3>4. Summed(S \ {x})
      <4> SUFFICES ASSUME ~Summed(S \ {x}) PROVE FALSE
        OBVIOUS
      <4>1. n - 1 \in Bad
        BY <3>2, <3>3
      <4> QED BY <2>1, <3>2, <4>1
    <3>5. PICK T : IsSum(T, g, S \ {x})
      BY <3>4
    <3>6. Summed((S \ {x}) \cup {x})
      BY <3>5, SumExtend
    <3>7. (S \ {x}) \cup {x} = S
      OBVIOUS
    <3> HIDE DEF Summed
    <3> QED BY <2>2, <3>6, <3>7
  <2> QED BY <2>4, <2>5
<1>2. Cardinality(D) \in Nat
  BY FS_CardinalityType
<1>3. D \in SUBSET D
  OBVIOUS
<1>4. Cardinality(D) \in Nat /\ D \in SUBSET D /\ ~Summed(D) => Cardinality(D) \in Bad
  OBVIOUS
<1>5. Summed(D)
  <2> HIDE DEF Summed, Bad
  <2> QED BY <1>1, <1>2, <1>3, <1>4
<1> QED BY <1>5

(* The library's sum is that of any such function.                          *)
LEMMA SumIs ==
  ASSUME NEW D, IsFiniteSet(D), NEW g \in [D -> Nat], NEW T, IsSum(T, g, D)
  PROVE  SumFunction(g) = T[D]
<1> DEFINE Def(f) == [s \in SUBSET D |->
                        IF s = {} THEN 0 ELSE g[Arbitrary(s)] + f[s \ {Arbitrary(s)}]]
           F == CHOOSE f : f = Def(f)
           Bad == {n \in Nat : \E S \in SUBSET D : Cardinality(S) = n /\ F[S] # T[S]}
<1>0. /\ T \in [SUBSET D -> Nat] /\ T[{}] = 0
      /\ \A s \in SUBSET D : \A y \in s : T[s] = g[y] + T[s \ {y}]
  BY DEF IsSum
<1>1. \A s \in SUBSET D : s # {} => Arbitrary(s) \in s
  BY DEF Arbitrary
<1>2. T = Def(T)
  <2>1. \A s \in SUBSET D :
          T[s] = IF s = {} THEN 0 ELSE g[Arbitrary(s)] + T[s \ {Arbitrary(s)}]
    BY <1>0, <1>1
  <2> QED BY <1>0, <2>1
<1>3. F = Def(F)
  <2> HIDE DEF Def
  <2> QED BY <1>2
<1> HIDE DEF F
<1>4. /\ F[{}] = 0
      /\ \A s \in SUBSET D : s # {} => F[s] = g[Arbitrary(s)] + F[s \ {Arbitrary(s)}]
  <2>1. \A s \in SUBSET D : F[s] = Def(F)[s]
    BY <1>3
  <2> QED BY <2>1
<1>5. ASSUME Bad # {} PROVE FALSE
  <2>1. PICK n \in Bad : \A m \in Bad : n <= m
    BY <1>5, Least
  <2>2. PICK S \in SUBSET D : Cardinality(S) = n /\ F[S] # T[S]
    BY <2>1
  <2>3. IsFiniteSet(S)
    BY FS_Subset
  <2>4. CASE S = {}
    BY <1>0, <1>4, <2>2, <2>4
  <2>5. CASE S # {}
    <3>1. PICK x \in S : x = Arbitrary(S)
      BY <1>1, <2>5
    <3>2. /\ IsFiniteSet(S \ {x}) /\ Cardinality(S \ {x}) = n - 1 /\ n \in Nat
          /\ Cardinality(S \ {x}) \in Nat
      BY <2>2, <2>3, FS_RemoveElement, FS_CardinalityType
    <3>3. S \ {x} \in SUBSET D
      OBVIOUS
    <3>4. F[S \ {x}] = T[S \ {x}]
      <4> SUFFICES ASSUME F[S \ {x}] # T[S \ {x}] PROVE FALSE
        OBVIOUS
      <4>1. n - 1 \in Bad
        BY <3>2, <3>3
      <4> QED BY <2>1, <3>2, <4>1
    <3> QED BY <1>0, <1>4, <2>2, <2>5, <3>1, <3>4
  <2> QED BY <2>4, <2>5
<1>6. F[D] = T[D]
  <2>1. Cardinality(D) \in Nat /\ D \in SUBSET D
    BY FS_CardinalityType
  <2>2. Cardinality(D) \in Nat /\ D \in SUBSET D /\ F[D] # T[D]
          => Cardinality(D) \in Bad
    OBVIOUS
  <2> HIDE DEF Bad
  <2> QED BY <1>5, <2>1, <2>2
<1>7. DOMAIN g = D
  OBVIOUS
<1>8. SumFunction(g) = F[D]
  BY SumUnfold, <1>7 DEF F
<1> QED BY <1>6, <1>8

LEMMA SumRestrict ==
  ASSUME NEW D, NEW g \in [D -> Nat], NEW T, IsSum(T, g, D), NEW A \in SUBSET D
  PROVE  /\ IsSum([s \in SUBSET A |-> T[s]], g, A)
         /\ IsSum([s \in SUBSET A |-> T[s]], [a \in A |-> g[a]], A)
<1> DEFINE U == [s \in SUBSET A |-> T[s]]
<1>0. /\ T \in [SUBSET D -> Nat] /\ T[{}] = 0
      /\ \A s \in SUBSET D : \A y \in s : T[s] = g[y] + T[s \ {y}]
  BY DEF IsSum
<1>1. U \in [SUBSET A -> Nat] /\ U[{}] = 0
  BY <1>0
<1>2. \A s \in SUBSET A : \A y \in s : U[s] = g[y] + U[s \ {y}]
  BY <1>0
<1>3. \A s \in SUBSET A : \A y \in s : [a \in A |-> g[a]][y] = g[y]
  OBVIOUS
<1> HIDE DEF U
<1>4. IsSum(U, g, A)
  BY <1>1, <1>2 DEF IsSum
<1>5. IsSum(U, [a \in A |-> g[a]], A)
  BY <1>1, <1>2, <1>3 DEF IsSum
<1> QED BY <1>4, <1>5 DEF U

(* The sum over a part of D.                                                *)
LEMMA SumOfPart ==
  ASSUME NEW D, IsFiniteSet(D), NEW g \in [D -> Nat], NEW T, IsSum(T, g, D),
         NEW A \in SUBSET D
  PROVE  SumFunction([a \in A |-> g[a]]) = T[A]
<1>1. IsFiniteSet(A)
  BY FS_Subset
<1> DEFINE U == [s \in SUBSET A |-> T[s]]
           h == [a \in A |-> g[a]]
<1>2. IsSum(U, h, A)
  BY SumRestrict
<1>3. h \in [A -> Nat]
  OBVIOUS
<1>4. U[A] = T[A]
  OBVIOUS
<1> HIDE DEF U, h
<1>5. SumFunction(h) = U[A]
  BY <1>1, <1>2, <1>3, SumIs
<1> QED BY <1>4, <1>5 DEF h

LEMMA SumNat ==
  ASSUME NEW D, IsFiniteSet(D), NEW g \in [D -> Nat]
  PROVE  SumFunction(g) \in Nat
<1>1. PICK T : IsSum(T, g, D)
  BY SumExists
<1>2. SumFunction(g) = T[D]
  BY <1>1, SumIs
<1> QED BY <1>1, <1>2 DEF IsSum

LEMMA SumEmpty ==
  ASSUME NEW g \in [{} -> Nat]
  PROVE  SumFunction(g) = 0
<1>0. IsFiniteSet({})
  BY FS_EmptySet
<1>1. PICK T : IsSum(T, g, {})
  BY <1>0, SumExists
<1>2. SumFunction(g) = T[{}]
  BY <1>0, <1>1, SumIs
<1> QED BY <1>1, <1>2 DEF IsSum

LEMMA SumAdds ==
  ASSUME NEW D, IsFiniteSet(D), NEW g \in [D -> Nat], NEW T, IsSum(T, g, D),
         NEW B \in SUBSET D
  PROVE  \A A \in SUBSET D : A \cap B = {} => T[A \cup B] = T[A] + T[B]
<1> DEFINE Bad == {n \in Nat : \E A \in SUBSET D :
                     Cardinality(A) = n /\ A \cap B = {} /\ T[A \cup B] # T[A] + T[B]}
<1>0. /\ T \in [SUBSET D -> Nat] /\ T[{}] = 0
      /\ \A s \in SUBSET D : \A y \in s : T[s] = g[y] + T[s \ {y}]
  BY DEF IsSum
<1>1. ASSUME Bad # {} PROVE FALSE
  <2>1. PICK n \in Bad : \A m \in Bad : n <= m
    BY <1>1, Least
  <2>2. PICK A \in SUBSET D :
          Cardinality(A) = n /\ A \cap B = {} /\ T[A \cup B] # T[A] + T[B]
    BY <2>1
  <2>3. IsFiniteSet(A)
    BY FS_Subset
  <2>4. CASE A = {}
    <3>1. A \cup B = B /\ T[B] \in Nat
      BY <1>0, <2>4
    <3> QED BY <1>0, <2>2, <2>4, <3>1
  <2>5. CASE A # {}
    <3>1. PICK x \in A : TRUE
      BY <2>5
    <3>2. /\ Cardinality(A \ {x}) = n - 1 /\ n \in Nat
          /\ Cardinality(A \ {x}) \in Nat
      BY <2>2, <2>3, FS_RemoveElement, FS_CardinalityType
    <3>3. A \ {x} \in SUBSET D /\ (A \ {x}) \cap B = {}
      BY <2>2
    <3>4. T[(A \ {x}) \cup B] = T[A \ {x}] + T[B]
      <4> SUFFICES ASSUME T[(A \ {x}) \cup B] # T[A \ {x}] + T[B] PROVE FALSE
        OBVIOUS
      <4>1. n - 1 \in Bad
        BY <3>2, <3>3
      <4> QED BY <2>1, <3>2, <4>1
    <3>5. (A \cup B) \ {x} = (A \ {x}) \cup B /\ x \in A \cup B /\ A \cup B \in SUBSET D
      BY <2>2
    <3>6. T[A \cup B] = g[x] + T[(A \ {x}) \cup B] /\ T[A] = g[x] + T[A \ {x}]
      BY <1>0, <3>5
    <3>7. T[A \ {x}] \in Nat /\ T[B] \in Nat /\ g[x] \in Nat
      BY <1>0, <3>3
    <3> HIDE DEF Bad
    <3> QED BY <2>2, <3>4, <3>6, <3>7
  <2> QED BY <2>4, <2>5
<1> SUFFICES ASSUME NEW A \in SUBSET D, A \cap B = {}, T[A \cup B] # T[A] + T[B]
             PROVE  FALSE
  OBVIOUS
<1>2. Cardinality(A) \in Nat
  BY FS_Subset, FS_CardinalityType
<1>3. Cardinality(A) \in Bad
  BY <1>2
<1> QED BY <1>1, <1>3

(* The sum over two parts is the sum of theirs.                             *)
Parts(D, A, B) == IsFiniteSet(D) /\ D = A \cup B /\ A \cap B = {}

LEMMA SumSplit ==
  ASSUME NEW D, NEW A, NEW B, Parts(D, A, B), NEW g \in [D -> Nat]
  PROVE  SumFunction(g) = SumFunction(Restrict(g, A)) + SumFunction(Restrict(g, B))
<1>0. IsFiniteSet(D) /\ D = A \cup B /\ A \cap B = {}
  BY DEF Parts
<1>1. PICK T : IsSum(T, g, D)
  BY <1>0, SumExists
<1>2. SumFunction(g) = T[D]
  BY <1>0, <1>1, SumIs
<1>3. A \in SUBSET D /\ B \in SUBSET D
  BY <1>0
<1>4. SumFunction(Restrict(g, A)) = T[A]
  BY <1>0, <1>1, <1>3, SumOfPart DEF Restrict
<1>5. SumFunction(Restrict(g, B)) = T[B]
  BY <1>0, <1>1, <1>3, SumOfPart DEF Restrict
<1>6. T[A \cup B] = T[A] + T[B]
  <2>1. \A S \in SUBSET D : S \cap B = {} => T[S \cup B] = T[S] + T[B]
    BY <1>0, <1>1, <1>3, SumAdds
  <2> QED BY <1>0, <1>3, <2>1
<1> QED BY <1>0, <1>2, <1>4, <1>5, <1>6

LEMMA SumOne ==
  ASSUME NEW x, NEW g \in [{x} -> Nat]
  PROVE  SumFunction(g) = g[x]
<1>0. IsFiniteSet({x})
  BY FS_Singleton
<1>1. PICK T : IsSum(T, g, {x})
  BY <1>0, SumExists
<1>2. SumFunction(g) = T[{x}]
  BY <1>0, <1>1, SumIs
<1>3. T[{x}] = g[x] + T[{x} \ {x}] /\ T[{}] = 0
  BY <1>1 DEF IsSum
<1>4. {x} \ {x} = {} /\ g[x] \in Nat
  OBVIOUS
<1> QED BY <1>2, <1>3, <1>4

(* A sum does not depend on the names of the summands.                      *)
LEMMA SumShift ==
  ASSUME NEW n \in Nat, NEW g \in [1 .. n -> Nat], NEW h \in [2 .. n + 1 -> Nat],
         \A i \in 1 .. n : h[i + 1] = g[i]
  PROVE  SumFunction(h) = SumFunction(g)
<1> DEFINE D == 1 .. n
           E == 2 .. n + 1
           Back(s) == {i - 1 : i \in s}
<1>0. IsFiniteSet(D) /\ IsFiniteSet(E)
  BY FS_Interval
<1>1. PICK T : IsSum(T, g, D)
  BY <1>0, SumExists
<1>2. /\ T \in [SUBSET D -> Nat] /\ T[{}] = 0
      /\ \A s \in SUBSET D : \A y \in s : T[s] = g[y] + T[s \ {y}]
  BY <1>1 DEF IsSum
<1> DEFINE U == [s \in SUBSET E |-> T[Back(s)]]
<1>3. \A s \in SUBSET E : Back(s) \in SUBSET D
  OBVIOUS
<1>4. U \in [SUBSET E -> Nat]
  BY <1>2, <1>3
<1>5. U[{}] = 0
  <2>1. Back({}) = {}
    OBVIOUS
  <2> QED BY <1>2, <2>1
<1>6. ASSUME NEW s \in SUBSET E, NEW y \in s
      PROVE  U[s] = h[y] + U[s \ {y}]
  <2>1. y - 1 \in Back(s) /\ y - 1 \in D /\ y - 1 + 1 = y
    OBVIOUS
  <2>2. Back(s \ {y}) = Back(s) \ {y - 1}
    <3>1. \A i \in s : i \in Int
      OBVIOUS
    <3> QED BY <3>1
  <2>3. h[y] = g[y - 1]
    BY <2>1
  <2>4. T[Back(s)] = g[y - 1] + T[Back(s) \ {y - 1}]
    BY <1>2, <1>3, <2>1
  <2>5. s \ {y} \in SUBSET E
    OBVIOUS
  <2>6. U[s] = T[Back(s)] /\ U[s \ {y}] = T[Back(s \ {y})]
    BY <2>5
  <2> HIDE DEF U, Back
  <2> QED BY <2>2, <2>3, <2>4, <2>6
<1>7. IsSum(U, h, E)
  <2> HIDE DEF U
  <2> QED BY <1>4, <1>5, <1>6 DEF IsSum
<1>8. Back(E) = D
  <2>1. \A d \in D : d + 1 \in E /\ d + 1 - 1 = d
    OBVIOUS
  <2>2. \A d \in D : d \in Back(E)
    <3> TAKE d \in D
    <3>1. PICK e \in E : e = d + 1
      BY <2>1
    <3>2. e - 1 = d
      BY <2>1, <3>1
    <3> QED BY <3>2
  <2>3. Back(E) \subseteq D
    OBVIOUS
  <2> QED BY <2>2, <2>3
<1>9. U[E] = T[D]
  BY <1>8
<1> HIDE DEF U, D, E
<1>10. SumFunction(h) = U[E]
  BY <1>0, <1>7, SumIs DEF E
<1>11. SumFunction(g) = T[D]
  BY <1>0, <1>1, SumIs DEF D
<1> QED BY <1>9, <1>10, <1>11

-----------------------------------------------------------------------------
(* The two byte counters                                                   *)

RecycOf(cs, c) == SumFunction([k \in cs |-> Header + c[k]])
ArenaOf(a) == SumFunction([i \in DOMAIN a |-> Header + a[i]])

LEMMA BytesOf ==
  /\ \A cs : RecycBytes(cs) = RecycOf(cs, cap)
  /\ ArenaBytes = ArenaOf(arena)
BY DEF RecycBytes, RecycOf, ArenaBytes, ArenaOf

(* A list of capacities with one in front of it.                            *)
LEMMA ArenaGrows ==
  ASSUME NEW list \in Seq(Nat), NEW c \in Nat
  PROVE  /\ ArenaOf(<<c>> \o list) = Header + c + ArenaOf(list)
         /\ ArenaOf(list) \in Nat
<1> DEFINE n == Len(list)
           b == <<c>> \o list
           g == [i \in 1 .. n + 1 |-> Header + b[i]]
<1>1. /\ n \in Nat /\ DOMAIN list = 1 .. n /\ b \in Seq(Nat) /\ DOMAIN b = 1 .. n + 1
      /\ b[1] = c /\ \A i \in 1 .. n : b[i + 1] = list[i]
  OBVIOUS
<1>2. Header \in Nat
  BY SizeAssumption
<1>3. \A i \in 1 .. n : list[i] \in Nat
  OBVIOUS
<1>4. \A i \in 1 .. n + 1 : b[i] \in Nat
  BY <1>1
<1> HIDE DEF n, b
<1> DEFINE f == [i \in 1 .. n |-> Header + list[i]]
           h == Restrict(g, 2 .. n + 1)
<1>5. Parts(1 .. n + 1, {1}, 2 .. n + 1)
  <2>1. IsFiniteSet(1 .. n + 1)
    BY <1>1, FS_Interval
  <2>2. 1 .. n + 1 = {1} \cup 2 .. n + 1 /\ {1} \cap 2 .. n + 1 = {}
    BY <1>1
  <2> QED BY <2>1, <2>2 DEF Parts
<1>6. g \in [1 .. n + 1 -> Nat]
  BY <1>2, <1>4
<1>7. SumFunction(g) = SumFunction(Restrict(g, {1})) + SumFunction(h)
  <2>1. PICK D : D = 1 .. n + 1
    OBVIOUS
  <2>2. PICK T : T = 2 .. n + 1
    OBVIOUS
  <2>3. Parts(D, {1}, T) /\ g \in [D -> Nat] /\ h = Restrict(g, T)
    BY <1>5, <1>6, <2>1, <2>2
  <2> HIDE DEF g, h, f
  <2> QED BY <2>3, SumSplit
<1>8. Restrict(g, {1}) \in [{1} -> Nat] /\ Restrict(g, {1})[1] = Header + c
  BY <1>1, <1>2 DEF Restrict
<1>9. SumFunction(Restrict(g, {1})) = Header + c
  BY <1>8, SumOne
<1>10. f \in [1 .. n -> Nat]
  <2>1. ASSUME NEW i \in 1 .. n PROVE Header + list[i] \in Nat
    <3>1. PICK x \in Nat : x = list[i]
      BY <1>3, Zenon
    <3> QED BY <1>2, <3>1
  <2> QED BY <2>1
<1>11. /\ h \in [2 .. n + 1 -> Nat]
       /\ \A i \in 1 .. n : h[i + 1] = f[i]
  <2>1. 2 .. n + 1 \subseteq 1 .. n + 1 /\ \A i \in 1 .. n : i + 1 \in 2 .. n + 1
    BY <1>1
  <2>2. h = [i \in 2 .. n + 1 |-> g[i]]
    BY DEF Restrict
  <2>3. \A i \in 2 .. n + 1 : g[i] \in Nat
    BY <1>6, <2>1
  <2>4. h \in [2 .. n + 1 -> Nat]
    BY <2>2, <2>3
  <2>5. \A i \in 1 .. n : h[i + 1] = f[i]
    BY <1>1, <2>1, <2>2
  <2> HIDE DEF h, f
  <2> QED BY <2>4, <2>5, Zenon
<1>12. SumFunction(h) = SumFunction(f)
  <2>1. n \in Nat
    BY <1>1
  <2> HIDE DEF h, f
  <2> QED BY <2>1, <1>10, <1>11, SumShift
<1>13. SumFunction(f) \in Nat
  <2>1. IsFiniteSet(1 .. n)
    BY <1>1, FS_Interval
  <2> HIDE DEF f
  <2> QED BY <1>10, <2>1, SumNat
<1>14. ArenaOf(b) = SumFunction(g) /\ ArenaOf(list) = SumFunction(f)
  BY <1>1 DEF ArenaOf
<1> QED BY <1>7, <1>9, <1>12, <1>13, <1>14 DEF b

LEMMA ArenaEmpty == ArenaOf(<< >>) = 0
<1> DEFINE g == [i \in DOMAIN << >> |-> Header + << >>[i]]
<1>1. g \in [{} -> Nat]
  OBVIOUS
<1> HIDE DEF g
<1>2. SumFunction(g) = 0
  BY <1>1, SumEmpty
<1> QED BY <1>2 DEF ArenaOf, g

(* A list of chunks cut in two, and one that has grown by a chunk.          *)
LEMMA RecycSplit ==
  ASSUME NEW D, NEW A, NEW B, Parts(D, A, B),
         NEW c \in [D -> Nat], NEW d, \A k \in B : d[k] = c[k]
  PROVE  RecycOf(D, c) = RecycOf(A, c) + RecycOf(B, d)
<1> DEFINE g == [k \in D |-> Header + c[k]]
<1>1. g \in [D -> Nat]
  BY SizeAssumption
<1>2. A \subseteq D /\ B \subseteq D
  BY DEF Parts
<1>3. /\ Restrict(g, A) = [k \in A |-> Header + c[k]]
      /\ Restrict(g, B) = [k \in B |-> Header + d[k]]
  BY <1>2 DEF Restrict
<1>4. SumFunction(g) = SumFunction(Restrict(g, A)) + SumFunction(Restrict(g, B))
  <2> HIDE DEF g
  <2> QED BY <1>1, SumSplit
<1> QED BY <1>3, <1>4 DEF RecycOf

LEMMA RecycNat ==
  ASSUME NEW A, IsFiniteSet(A), NEW c \in [A -> Nat]
  PROVE  RecycOf(A, c) \in Nat
<1> DEFINE g == [k \in A |-> Header + c[k]]
<1>1. g \in [A -> Nat]
  BY SizeAssumption
<1> HIDE DEF g
<1>2. SumFunction(g) \in Nat
  BY <1>1, SumNat
<1> QED BY <1>2 DEF RecycOf, g

LEMMA RecycEmpty ==
  ASSUME NEW c
  PROVE  RecycOf({}, c) = 0
<1> DEFINE g == [k \in {} |-> Header + c[k]]
<1>1. g \in [{} -> Nat]
  OBVIOUS
<1> HIDE DEF g
<1>2. SumFunction(g) = 0
  BY <1>1, SumEmpty
<1> QED BY <1>2 DEF RecycOf, g

LEMMA RecycOne ==
  ASSUME NEW x, NEW c, c[x] \in Nat
  PROVE  RecycOf({x}, c) = Header + c[x]
<1> DEFINE g == [k \in {x} |-> Header + c[k]]
<1>1. g \in [{x} -> Nat] /\ g[x] = Header + c[x]
  BY SizeAssumption
<1> HIDE DEF g
<1>2. SumFunction(g) = g[x]
  BY <1>1, SumOne
<1> QED BY <1>1, <1>2 DEF RecycOf, g

LEMMA LiveFinite ==
  ASSUME IInv
  PROVE  IsFiniteSet(Live)
<1>1. CASE recyc_oldest = 0
  BY <1>1, FS_EmptySet DEF Live
<1>2. CASE recyc_oldest # 0
  BY <1>2, FS_Interval DEF Live, IInv, TypeOK
<1> QED BY <1>1, <1>2

BytesInv ==
  /\ BytesExact
  /\ total_reserved_bytes \in Nat /\ peak_reserved_bytes \in Nat

LEMMA InitBytes == Init => BytesInv
<1> SUFFICES ASSUME Init PROVE BytesInv
  OBVIOUS
<1>1. Live = {} /\ arena = << >>
  BY DEF Init, Live
<1>2. RecycBytes(Live) = 0 /\ ArenaBytes = 0
  BY <1>1, BytesOf, RecycEmpty, ArenaEmpty
<1> QED BY <1>2 DEF Init, BytesInv, BytesExact

LEMMA BytesKept ==
  ASSUME BytesInv, UNCHANGED <<recyc_oldest, recyc_newest, cap, arena, stats>>
  PROVE  BytesInv'
<1>1. Live' = Live
  BY DEF Live
<1>2. (RecycBytes(Live))' = RecycBytes(Live) /\ ArenaBytes' = ArenaBytes
  BY <1>1 DEF RecycBytes, ArenaBytes
<1> QED BY <1>2 DEF BytesInv, BytesExact, stats

(* A chunk more: the counters grow by what new_chunk reserves.              *)
LEMMA BytesGrow ==
  ASSUME BytesInv, NEW c \in Nat, CountNewChunk(c),
         RecycOf(Live, cap) \in Nat, ArenaOf(arena) \in Nat,
         RecycOf(Live', cap') + ArenaOf(arena')
            = RecycOf(Live, cap) + ArenaOf(arena) + Header + c
  PROVE  BytesInv'
<1>1. (RecycBytes(Live))' = RecycOf(Live', cap') /\ ArenaBytes' = ArenaOf(arena')
  BY DEF RecycBytes, ArenaBytes, RecycOf, ArenaOf
<1>2. /\ total_reserved_bytes' = total_reserved_bytes + Header + c
      /\ peak_reserved_bytes' = Larger(peak_reserved_bytes, total_reserved_bytes')
  BY DEF CountNewChunk
<1>3. /\ total_reserved_bytes' \in Nat /\ peak_reserved_bytes' \in Nat
      /\ total_reserved_bytes' <= peak_reserved_bytes'
  BY <1>2, SizeAssumption DEF BytesInv, Larger
<1>4. total_reserved_bytes' = RecycOf(Live', cap') + ArenaOf(arena')
  BY <1>2, BytesOf, SizeAssumption DEF BytesInv, BytesExact
<1> QED BY <1>1, <1>3, <1>4 DEF BytesInv, BytesExact

(* Chunks fewer: the counters shrink by theirs, and never below zero.       *)
LEMMA BytesShrink ==
  ASSUME BytesInv, NEW n, NEW bytes \in Nat, CountFreed(n, bytes),
         RecycOf(Live', cap') \in Nat, ArenaOf(arena') \in Nat,
         RecycOf(Live, cap) + ArenaOf(arena)
            = RecycOf(Live', cap') + ArenaOf(arena') + bytes
  PROVE  BytesInv'
<1>1. (RecycBytes(Live))' = RecycOf(Live', cap') /\ ArenaBytes' = ArenaOf(arena')
  BY DEF RecycBytes, ArenaBytes, RecycOf, ArenaOf
<1>2. /\ total_reserved_bytes' = total_reserved_bytes - bytes
      /\ peak_reserved_bytes' = peak_reserved_bytes
  BY DEF CountFreed
<1>3. total_reserved_bytes' = RecycOf(Live', cap') + ArenaOf(arena')
  BY <1>2, BytesOf DEF BytesInv, BytesExact
<1>4. total_reserved_bytes' \in Nat /\ total_reserved_bytes' <= peak_reserved_bytes
  BY <1>2, <1>3 DEF BytesInv, BytesExact
<1> QED BY <1>1, <1>2, <1>3, <1>4 DEF BytesInv, BytesExact

LEMMA BytesNat ==
  ASSUME IInv
  PROVE  RecycOf(Live, cap) \in Nat /\ ArenaOf(arena) \in Nat
<1>1. IsFiniteSet(Live) /\ cap \in [Live -> Nat] /\ arena \in Seq(Nat)
  BY LiveFinite DEF IInv, TypeOK
<1>2. RecycOf(Live, cap) \in Nat
  BY <1>1, RecycNat
<1>3. ArenaOf(arena) \in Nat
  BY <1>1, ArenaGrows
<1> QED BY <1>2, <1>3

LEMMA NextBytes == IInv /\ BytesInv /\ [Next]_vars => BytesInv'
<1> SUFFICES ASSUME IInv, BytesInv, [Next]_vars PROVE BytesInv'
  OBVIOUS
<1>0. RecycOf(Live, cap) \in Nat /\ ArenaOf(arena) \in Nat
  BY BytesNat
<1>1. ASSUME NEW on \in BOOLEAN, SetRecyclable(on) PROVE BytesInv'
  BY <1>1, BytesKept DEF SetRecyclable, fifo, persistent
<1>2. ASSUME NEW size \in Sizes, AllocInNewest(size) PROVE BytesInv'
  BY <1>2, BytesKept DEF AllocInNewest, persistent
<1>3. ASSUME NEW size \in Sizes, AllocNewest(size) PROVE BytesInv'
  <2> DEFINE new == recyc_newest + 1
             capacity == CapFor(size, RecycCap)
  <2>1. /\ capacity \in Nat
        /\ Live' = Live \cup {new} /\ new \notin Live
        /\ cap' = [c \in Live' |-> IF c = new THEN capacity ELSE cap[c]]
    BY <1>3, ListGrows
  <2>2. arena' = arena /\ CountNewChunk(capacity)
    BY <1>3 DEF AllocNewest, persistent
  <2> HIDE DEF new, capacity
  <2>3. IsFiniteSet(Live \cup {new})
    BY LiveFinite, FS_AddElement
  <2>4. Parts(Live', {new}, Live)
    BY <2>1, <2>3 DEF Parts
  <2>5. cap \in [Live -> Nat]
    BY DEF IInv, TypeOK
  <2>6. /\ cap' \in [Live' -> Nat] /\ cap'[new] = capacity
        /\ \A k \in Live : cap[k] = cap'[k]
    BY <2>1, <2>5
  <2>7. PICK d, D : d = cap' /\ D = Live'
    OBVIOUS
  <2>8. RecycOf(D, d) = RecycOf({new}, d) + RecycOf(Live, cap)
    BY <2>4, <2>6, <2>7, RecycSplit
  <2>9. RecycOf({new}, d) = Header + capacity
    BY <2>1, <2>6, <2>7, RecycOne
  <2>10. RecycOf(D, d) + ArenaOf(arena)
           = RecycOf(Live, cap) + ArenaOf(arena) + Header + capacity
    BY <1>0, <2>1, <2>8, <2>9, SizeAssumption
  <2> QED BY <1>0, <2>1, <2>2, <2>7, <2>10, BytesGrow
<1>4. ASSUME NEW size \in Sizes, AllocInArena(size) PROVE BytesInv'
  BY <1>4, BytesKept DEF AllocInArena, fifo
<1>5. ASSUME NEW size \in Sizes, AllocArena(size) PROVE BytesInv'
  <2> DEFINE capacity == CapFor(size, next_chunk_hint)
  <2>1. capacity \in Nat
    BY SizeAssumption, CapForNat DEF IInv, TypeOK
  <2>2. arena' = <<capacity>> \o arena /\ CountNewChunk(capacity)
    BY <1>5 DEF AllocArena
  <2>3. Live' = Live /\ cap' = cap
    BY <1>5 DEF AllocArena, fifo, Live
  <2>4. arena \in Seq(Nat)
    BY DEF IInv, TypeOK
  <2> HIDE DEF capacity
  <2>5. ArenaOf(<<capacity>> \o arena) = Header + capacity + ArenaOf(arena)
    BY <2>1, <2>4, ArenaGrows
  <2>6. RecycOf(Live', cap') + ArenaOf(arena')
          = RecycOf(Live, cap) + ArenaOf(arena) + Header + capacity
    BY <1>0, <2>1, <2>2, <2>3, <2>5, SizeAssumption
  <2> QED BY <1>0, <2>1, <2>2, <2>6, BytesGrow
<1>6. ASSUME NEW p \in Addr \cup {NoAddr}, RecycPin(p) PROVE BytesInv'
  BY <1>6, BytesKept DEF RecycPin, fifo, persistent
<1>7. ASSUME NEW p \in Addr \cup {NoAddr}, RecycStreamPin(p) PROVE BytesInv'
  BY <1>7, BytesKept DEF RecycStreamPin, fifo, persistent
<1>8. ASSUME NEW p \in Addr, OnCursor(p) PROVE BytesInv'
  <2> DEFINE floor == Floor(ChunkOf(p))
             dead == recyc_oldest .. floor - 1
  <2>1. /\ recyc_oldest \in Nat /\ floor \in Nat
        /\ Live = dead \cup Live' /\ dead \cap Live' = {}
        /\ cap' = [c \in Live' |-> cap[c]]
    BY <1>8, ListShrinks
  <2>2. arena' = arena /\ CountFreed(floor - recyc_oldest, RecycBytes(dead))
    BY <1>8 DEF OnCursor, persistent
  <2> HIDE DEF floor
  <2>3. IsFiniteSet(dead) /\ IsFiniteSet(Live')
    BY <2>1, LiveFinite, FS_Subset
  <2>4. Parts(Live, dead, Live')
    BY <2>1, LiveFinite DEF Parts
  <2> HIDE DEF dead
  <2>5. cap \in [Live -> Nat]
    BY DEF IInv, TypeOK
  <2>6. /\ cap' \in [Live' -> Nat] /\ \A k \in Live' : cap'[k] = cap[k]
        /\ \A k \in dead : cap[k] \in Nat
    BY <2>1, <2>5
  <2>7. PICK d, D : d = cap' /\ D = Live'
    OBVIOUS
  <2>8. RecycOf(Live, cap) = RecycOf(dead, cap) + RecycOf(D, d)
    BY <2>4, <2>5, <2>6, <2>7, RecycSplit
  <2>9. RecycOf(D, d) \in Nat
    BY <2>3, <2>6, <2>7, RecycNat
  <2>10. RecycOf(dead, cap) \in Nat
    <3>1. PICK e : e = [k \in dead |-> cap[k]]
      OBVIOUS
    <3>2. e \in [dead -> Nat]
      BY <2>6, <3>1
    <3>3. RecycOf(dead, e) \in Nat
      BY <2>3, <3>2, RecycNat
    <3>4. RecycOf(dead, e) = RecycOf(dead, cap)
      <4>1. [k \in dead |-> Header + e[k]] = [k \in dead |-> Header + cap[k]]
        BY <3>1
      <4> QED BY <4>1 DEF RecycOf
    <3> QED BY <3>3, <3>4
  <2>11. RecycBytes(dead) = RecycOf(dead, cap)
    BY BytesOf
  <2>12. RecycOf(Live, cap) + ArenaOf(arena)
           = RecycOf(D, d) + ArenaOf(arena) + RecycOf(dead, cap)
    BY <1>0, <2>8, <2>9, <2>10
  <2> QED BY <1>0, <2>2, <2>7, <2>9, <2>10, <2>11, <2>12, BytesShrink
<1>9. ASSUME RecycReset PROVE BytesInv'
  <2>1. Live' = {} /\ arena' = arena /\ CountFreed(FifoLength, RecycBytes(Live))
    BY <1>9 DEF RecycReset, ClearRecyclable, Live, persistent
  <2>2. RecycOf(Live', cap') = 0
    BY <2>1, RecycEmpty
  <2>3. RecycBytes(Live) = RecycOf(Live, cap)
    BY BytesOf
  <2> QED BY <1>0, <2>1, <2>2, <2>3, BytesShrink
<1>10. ASSUME ResetTranslationUnit PROVE BytesInv'
  <2>1. /\ Live' = {} /\ arena' = << >>
        /\ CountFreed(FifoLength + Len(arena), RecycBytes(Live) + ArenaBytes)
    BY <1>10 DEF ResetTranslationUnit, ClearRecyclable, Live
  <2>2. RecycOf(Live', cap') = 0 /\ ArenaOf(arena') = 0
    BY <2>1, RecycEmpty, ArenaEmpty
  <2>3. RecycBytes(Live) = RecycOf(Live, cap) /\ ArenaBytes = ArenaOf(arena)
    BY BytesOf
  <2> QED BY <1>0, <2>1, <2>2, <2>3, BytesShrink
<1>11. ASSUME NEW bytes \in Inputs, SetExpectedSize(bytes) PROVE BytesInv'
  BY <1>11, BytesKept DEF SetExpectedSize, fifo
<1>12. ASSUME Recreate PROVE BytesInv'
  <2>1. /\ Live' = {} /\ arena' = << >>
        /\ total_reserved_bytes' = 0 /\ peak_reserved_bytes' = 0
    BY <1>12 DEF Recreate, ClearRecyclable, Live
  <2>2. (RecycBytes(Live))' = RecycOf(Live', cap') /\ ArenaBytes' = ArenaOf(arena')
    BY DEF RecycBytes, ArenaBytes, RecycOf, ArenaOf
  <2>3. RecycOf(Live', cap') = 0 /\ ArenaOf(arena') = 0
    BY <2>1, RecycEmpty, ArenaEmpty
  <2> QED BY <2>1, <2>2, <2>3 DEF BytesInv, BytesExact
<1>13. ASSUME UNCHANGED vars PROVE BytesInv'
  BY <1>13, BytesKept DEF vars, fifo, persistent
<1> QED
  BY <1>1, <1>2, <1>3, <1>4, <1>5, <1>6, <1>7, <1>8, <1>9, <1>10, <1>11,
     <1>12, <1>13
  DEF Next

(* The reserved bytes are those of the chunks in the two lists and not      *)
(* above the peak.                                                          *)
THEOREM BytesAlwaysExact == Spec => []BytesExact
<1>1. BytesInv => BytesExact
  BY DEF BytesInv
<1> QED BY <1>1, InitBytes, NextBytes, Invariant, PTL DEF Spec

(* The number of the newest token, and the memory it lies in.              *)
Newest == (recyc_newest - 1) * RecycCap + newest_used
ChunksOfTokens ==
  /\ recyc_pin = NoAddr
  /\ \A c \in Live : cap[c] = RecycCap
  /\ newest_used <= RecycCap
  /\ recyc_newest = 0 => newest_used = 0

AllocatorInv == IInv /\ ChunksOfTokens

LEMMA Products ==
  ASSUME NEW a \in Nat, NEW c \in Nat \ {0}
  PROVE  /\ (a - 1) * c \in Int /\ a * c \in Nat
         /\ (a + 1 - 1) * c = (a - 1) * c + c
BY SMTT(30)

LEMMA OneToken ==
  1 \in Sizes /\ CapFor(1, RecycCap) = RecycCap /\ RecycCap \in Nat \ {0}
BY StreamAssumption, SizeAssumption DEF CapFor

LEMMA NewestInt ==
  ASSUME AllocatorInv
  PROVE  /\ Newest \in Int
         /\ recyc_newest = 0 => Newest <= 0
<1>1. recyc_newest \in Nat /\ newest_used \in Nat
  BY DEF AllocatorInv, IInv, TypeOK
<1> QED BY <1>1, OneToken, Products, SMTT(30) DEF Newest, AllocatorInv, ChunksOfTokens

(* An allocation of a token: its number is the next one.                   *)
LEMMA AllocNumbers ==
  ASSUME AllocatorInv, AllocToken
  PROVE  /\ AllocatorInv'
         /\ Newest' \in Nat \ {0} /\ Newest' > Newest
         /\ place'[recyc_newest'] \in Addr
         /\ recyc_mode' = recyc_mode
         /\ recyc_stream_pin' = recyc_stream_pin
<1>0. /\ recyc_newest \in Nat /\ newest_used \in Nat /\ recyc_oldest \in Nat
      /\ RecycCap \in Nat \ {0} /\ 1 \in Sizes
  BY OneToken DEF AllocatorInv, IInv, TypeOK
<1>1. IInv'
  BY <1>0, NextIInv DEF AllocatorInv, AllocToken, Next
<1>2. recyc_newest' # 0 /\ recyc_newest' \in Live'
  <2>1. recyc_newest' # 0
    <3>1. CASE AllocInNewest(1)
      BY <3>1 DEF AllocInNewest
    <3>2. CASE AllocNewest(1)
      <4>1. recyc_newest' = recyc_newest + 1
        BY <3>2 DEF AllocNewest
      <4> QED BY <1>0, <4>1
    <3> QED BY <3>1, <3>2 DEF AllocToken
  <2> QED BY <1>1, <2>1 DEF IInv, NoDanglingChunk
<1>3. place'[recyc_newest'] \in Addr
  BY <1>1, <1>2 DEF IInv, TypeOK
<1>4. CASE AllocInNewest(1)
  <2>1. /\ recyc_newest' = recyc_newest /\ recyc_newest # 0
        /\ newest_used' = newest_used + 1 /\ newest_used + 1 <= cap[recyc_newest]
        /\ cap' = cap /\ recyc_oldest' = recyc_oldest /\ pins' = pins
        /\ recyc_mode' = recyc_mode
    BY <1>4 DEF AllocInNewest
  <2>2. Live' = Live
    BY <2>1 DEF Live
  <2>3. cap[recyc_newest] = RecycCap
    BY <1>2, <2>1, <2>2 DEF AllocatorInv, ChunksOfTokens
  <2>4. ChunksOfTokens'
    BY <2>1, <2>2, <2>3 DEF AllocatorInv, ChunksOfTokens, pins
  <2>5. (recyc_newest - 1) * RecycCap \in Nat
    BY <1>0, <2>1, Products, SMTT(30)
  <2>6. Newest' = (recyc_newest - 1) * RecycCap + newest_used + 1
    BY <1>0, <2>1, <2>5 DEF Newest
  <2> QED BY <1>0, <1>1, <1>3, <2>1, <2>4, <2>5, <2>6 DEF Newest, AllocatorInv, pins
<1>5. CASE AllocNewest(1)
  <2>1. /\ recyc_newest' = recyc_newest + 1 /\ newest_used' = 1 /\ pins' = pins
        /\ recyc_mode' = recyc_mode
    BY <1>5 DEF AllocNewest
  <2>2. /\ Live' = Live \cup {recyc_newest + 1}
        /\ cap' = [c \in Live' |-> IF c = recyc_newest + 1 THEN RecycCap ELSE cap[c]]
    BY <1>0, <1>5, ListGrows, OneToken DEF AllocatorInv
  <2>3. \A c \in Live' : cap'[c] = RecycCap
    BY <2>2 DEF AllocatorInv, ChunksOfTokens
  <2>4. ChunksOfTokens'
    BY <1>0, <2>1, <2>3 DEF AllocatorInv, ChunksOfTokens, pins
  <2>5. /\ recyc_newest * RecycCap \in Nat /\ (recyc_newest - 1) * RecycCap \in Int
        /\ recyc_newest * RecycCap = (recyc_newest - 1) * RecycCap + RecycCap
    BY <1>0, Products
  <2>6. Newest' = recyc_newest * RecycCap + 1
    BY <1>0, <2>1, <2>5 DEF Newest
  <2>7. newest_used <= RecycCap
    BY DEF AllocatorInv, ChunksOfTokens
  <2> QED BY <1>0, <1>1, <1>3, <2>1, <2>4, <2>5, <2>6, <2>7 DEF Newest, AllocatorInv, pins
<1> QED BY <1>4, <1>5 DEF AllocToken

LEMMA FifoKept ==
  ASSUME AllocatorInv, IInv', UNCHANGED fifo, recyc_pin' = recyc_pin
  PROVE  AllocatorInv' /\ Newest' = Newest
BY DEF AllocatorInv, ChunksOfTokens, Newest, fifo, Live

LEMMA PinKept ==
  ASSUME AllocatorInv, NEW p \in Addr \cup {NoAddr}, RecycStreamPin(p)
  PROVE  AllocatorInv' /\ Newest' = Newest /\ recyc_mode' = recyc_mode
<1>1. IInv'
  BY NextIInv DEF AllocatorInv, Next
<1> QED BY <1>1, FifoKept DEF RecycStreamPin

LEMMA ModeKept ==
  ASSUME AllocatorInv, NEW on \in BOOLEAN, SetRecyclable(on)
  PROVE  AllocatorInv' /\ Newest' = Newest
<1>1. IInv'
  BY NextIInv DEF AllocatorInv, Next
<1> QED BY <1>1, FifoKept DEF SetRecyclable, pins

LEMMA StillKept ==
  ASSUME AllocatorInv, UNCHANGED allocator
  PROVE  AllocatorInv' /\ Newest' = Newest /\ recyc_mode' = recyc_mode
<1>1. IInv'
  BY NextIInv DEF AllocatorInv, allocator, vars
<1> QED BY <1>1, FifoKept DEF allocator, pins

LEMMA CursorKept ==
  ASSUME AllocatorInv, NEW p \in Addr, OnCursor(p)
  PROVE  AllocatorInv' /\ Newest' = Newest /\ recyc_mode' = recyc_mode
<1>1. IInv'
  BY NextIInv DEF AllocatorInv, Next
<1>2. /\ recyc_newest' = recyc_newest /\ newest_used' = newest_used
      /\ recyc_pin' = recyc_pin /\ recyc_mode' = recyc_mode
  BY DEF OnCursor, pins
<1>3. Live' \subseteq Live /\ cap' = [c \in Live' |-> cap[c]]
  BY ListShrinks DEF AllocatorInv
<1>4. ChunksOfTokens'
  BY <1>2, <1>3 DEF ChunksOfTokens, AllocatorInv
<1> QED BY <1>1, <1>2, <1>4 DEF AllocatorInv, Newest

LEMMA ResetKept ==
  ASSUME AllocatorInv, RecycReset \/ ResetTranslationUnit
  PROVE  AllocatorInv'
<1>1. IInv'
  BY NextIInv DEF AllocatorInv, Next
<1>2. ClearRecyclable
  BY DEF RecycReset, ResetTranslationUnit
<1>3. Live' = {} /\ recyc_newest' = 0 /\ newest_used' = 0 /\ recyc_pin' = NoAddr
  BY <1>2 DEF ClearRecyclable, Live
<1> QED BY <1>1, <1>3, OneToken DEF AllocatorInv, ChunksOfTokens

LEMMA InitAllocator == Init => AllocatorInv
<1> SUFFICES ASSUME Init PROVE AllocatorInv
  OBVIOUS
<1>1. IInv
  BY InitIInv
<1>2. Live = {}
  BY DEF Init, Live
<1> QED BY <1>1, <1>2, OneToken DEF Init, AllocatorInv, ChunksOfTokens

-----------------------------------------------------------------------------
(* Sequences: what a step does to the tokens it holds and those pushed     *)
(* back, read one after the other.                                         *)
LEMMA SeqSame ==
  ASSUME NEW S, NEW s \in Seq(S), NEW t \in Seq(S), Len(s) = Len(t),
         \A i \in 1 .. Len(s) : s[i] = t[i]
  PROVE  s = t
OBVIOUS

LEMMA JoinAt ==
  ASSUME NEW S, NEW s \in Seq(S), NEW t \in Seq(S)
  PROVE  /\ s \o t \in Seq(S)
         /\ Len(s \o t) = Len(s) + Len(t)
         /\ DOMAIN (s \o t) = 1 .. Len(s) + Len(t)
         /\ \A i \in 1 .. Len(s) + Len(t) :
               (s \o t)[i] = IF i <= Len(s) THEN s[i] ELSE t[i - Len(s)]
OBVIOUS

LEMMA AppendAt ==
  ASSUME NEW S, NEW s \in Seq(S), NEW x \in S
  PROVE  /\ Append(s, x) \in Seq(S) /\ Append(s, x) # << >>
         /\ Len(Append(s, x)) = Len(s) + 1
         /\ DOMAIN Append(s, x) = 1 .. Len(s) + 1
         /\ \A i \in 1 .. Len(s) : Append(s, x)[i] = s[i]
         /\ Append(s, x)[Len(s) + 1] = x
OBVIOUS

LEMMA TailAt ==
  ASSUME NEW S, NEW s \in Seq(S), s # << >>
  PROVE  /\ Tail(s) \in Seq(S) /\ Head(s) = s[1] /\ s[1] \in S /\ Head(s) \in S
         /\ Len(Tail(s)) = Len(s) - 1 /\ Len(s) >= 1
         /\ DOMAIN Tail(s) = 1 .. Len(s) - 1
         /\ \A i \in 1 .. Len(s) - 1 : Tail(s)[i] = s[i + 1]
OBVIOUS

LEMMA ConsAt ==
  ASSUME NEW S, NEW s \in Seq(S), NEW x \in S
  PROVE  /\ <<x>> \o s \in Seq(S) /\ <<x>> \o s # << >>
         /\ Len(<<x>> \o s) = Len(s) + 1
         /\ DOMAIN (<<x>> \o s) = 1 .. Len(s) + 1
         /\ \A i \in 1 .. Len(s) + 1 :
               (<<x>> \o s)[i] = IF i = 1 THEN x ELSE s[i - 1]
OBVIOUS

LEMMA NothingHeld ==
  ASSUME NEW S, NEW p \in Seq(S)
  PROVE  << >> \o p = p /\ p \o << >> = p
OBVIOUS

LEMMA ConsParts ==
  ASSUME NEW S, NEW p \in Seq(S), NEW x \in S
  PROVE  /\ Head(<<x>> \o p) = x
         /\ Tail(<<x>> \o p) = p
         /\ (<<x>> \o p)[1] = x
         /\ <<x>> \o p # << >>
         /\ <<x>> \o p \in Seq(S)
OBVIOUS

LEMMA Assoc ==
  ASSUME NEW S, NEW r \in Seq(S), NEW s \in Seq(S), NEW t \in Seq(S)
  PROVE  (r \o s) \o t = r \o (s \o t)
OBVIOUS

LEMMA HeadFirst ==
  ASSUME NEW S, NEW p \in Seq(S), p # << >>
  PROVE  <<Head(p)>> \o Tail(p) = p
OBVIOUS

LEMMA OnlyOne ==
  ASSUME NEW S, NEW h \in Seq(S), Len(h) = 1
  PROVE  h = <<h[1]>>
OBVIOUS

LEMMA OnlyTwo ==
  ASSUME NEW S, NEW x \in S, NEW y \in S
  PROVE  <<x, y>> = <<x>> \o <<y>>
<1> DEFINE u == <<x>>
<1>1. u \in Seq(S)
  OBVIOUS
<1>2. Append(u, y) = u \o <<y>>
  <2> HIDE DEF u
  <2> QED BY <1>1, AppendIsConcat, Zenon
<1>3. <<x, y>> = Append(<<x>>, y)
  OBVIOUS
<1> QED BY <1>2, <1>3, Zenon

LEMMA OnlyThree ==
  ASSUME NEW S, NEW x \in S, NEW y \in S, NEW z \in S
  PROVE  <<x, y, z>> = <<x, y>> \o <<z>>
<1> DEFINE u == <<x, y>>
<1>1. u \in Seq(S)
  OBVIOUS
<1>2. Append(u, z) = u \o <<z>>
  <2> HIDE DEF u
  <2> QED BY <1>1, AppendIsConcat, Zenon
<1>3. <<x, y, z>> = Append(<<x, y>>, z)
  OBVIOUS
<1> QED BY <1>2, <1>3, Zenon

LEMMA AllThree ==
  ASSUME NEW S, NEW h \in Seq(S), Len(h) = 3
  PROVE  h = <<h[1], h[2], h[3]>>
<1> DEFINE t == <<h[1], h[2], h[3]>>
<1>1. \A i \in 1 .. Len(h) : h[i] \in S
  BY ElementOfSeq, Zenon
<1>2. h[1] \in S /\ h[2] \in S /\ h[3] \in S
  <2>1. 1 \in 1 .. Len(h) /\ 2 \in 1 .. Len(h) /\ 3 \in 1 .. Len(h)
    OBVIOUS
  <2> QED BY <1>1, <2>1, Zenon
<1>3. t \in Seq(S)
  BY <1>2
<1>4. Len(t) = Len(h)
  OBVIOUS
<1>5. t[1] = h[1] /\ t[2] = h[2] /\ t[3] = h[3]
  OBVIOUS
<1> HIDE DEF t
<1>6. \A i \in 1 .. Len(h) : h[i] = t[i]
  BY <1>5
<1>7. h = t
  BY <1>3, <1>4, <1>6, SeqSame, Zenon
<1> QED BY <1>7 DEF t

LEMMA PullJoin ==
  ASSUME NEW S, NEW h \in Seq(S), NEW p \in Seq(S), p # << >>
  PROVE  /\ Append(h, Head(p)) \o Tail(p) = h \o p
         /\ Append(h, Head(p)) \in Seq(S) /\ Tail(p) \in Seq(S)
<1>1. Head(p) \in S /\ Tail(p) \in Seq(S)
  BY TailAt, Zenon
<1>2. Append(h, Head(p)) = h \o <<Head(p)>>
  BY <1>1, AppendIsConcat, Zenon
<1>3. <<Head(p)>> \in Seq(S)
  BY <1>1
<1>4. (h \o <<Head(p)>>) \o Tail(p) = h \o (<<Head(p)>> \o Tail(p))
  BY <1>1, <1>3, Assoc, SMT
<1>5. <<Head(p)>> \o Tail(p) = p
  BY HeadFirst, Zenon
<1>6. Append(h, Head(p)) \in Seq(S)
  BY <1>1, AppendAt, Zenon
<1> QED BY <1>1, <1>2, <1>4, <1>5, <1>6, Zenon

LEMMA OneHeld ==
  ASSUME NEW S, NEW h \in Seq(S), NEW p \in Seq(S), Len(h) = 1
  PROVE  /\ Head(h \o p) = h[1] /\ Tail(h \o p) = p /\ (h \o p)[1] = h[1]
         /\ h \o p # << >> /\ h = <<h[1]>> /\ h[1] \in S
<1>1. h[1] \in S
  OBVIOUS
<1>2. h = <<h[1]>>
  BY OnlyOne, Zenon
<1>3. /\ Head(<<h[1]>> \o p) = h[1] /\ Tail(<<h[1]>> \o p) = p
      /\ (<<h[1]>> \o p)[1] = h[1] /\ <<h[1]>> \o p # << >>
  BY <1>1, ConsParts, Zenon
<1> QED BY <1>1, <1>2, <1>3, Zenon

LEMMA AtTwo ==
  ASSUME NEW S, NEW h \in Seq(S), Len(h) = 2
  PROVE  /\ h[1] \in S /\ h[2] \in S
         /\ <<h[1]>> \in Seq(S) /\ <<h[2]>> \in Seq(S)
         /\ h = <<h[1]>> \o <<h[2]>> /\ h = <<h[1], h[2]>>
<1>1. h[1] \in S
  OBVIOUS
<1>2. h[2] \in S
  OBVIOUS
<1>3. h = <<h[1], h[2]>>
  OBVIOUS
<1>4. <<h[1]>> \in Seq(S) /\ <<h[2]>> \in Seq(S)
  BY <1>1, <1>2
<1>5. <<h[1], h[2]>> = <<h[1]>> \o <<h[2]>>
  BY <1>1, <1>2, OnlyTwo, Zenon
<1> QED BY <1>1, <1>2, <1>3, <1>4, <1>5, Zenon

LEMMA TwoHeld ==
  ASSUME NEW S, NEW h \in Seq(S), NEW p \in Seq(S), Len(h) = 2
  PROVE  /\ h[1] \in S /\ h[2] \in S
         /\ <<h[2]>> \o p \in Seq(S)
         /\ <<h[1]>> \o (<<h[2]>> \o p) = h \o p
         /\ Head(h \o p) = h[1] /\ Tail(h \o p) = <<h[2]>> \o p /\ (h \o p)[1] = h[1]
         /\ h \o p # << >>
<1>1. /\ h[1] \in S /\ h[2] \in S /\ <<h[1]>> \in Seq(S) /\ <<h[2]>> \in Seq(S)
      /\ h = <<h[1]>> \o <<h[2]>>
  BY AtTwo, Zenon
<1>2. (<<h[1]>> \o <<h[2]>>) \o p = <<h[1]>> \o (<<h[2]>> \o p)
  BY <1>1, Assoc, SMT
<1>3. <<h[2]>> \o p \in Seq(S)
  BY <1>1, ConsParts, Zenon
<1>4. PICK q : q = <<h[2]>> \o p
  OBVIOUS
<1>5. /\ Head(<<h[1]>> \o q) = h[1] /\ Tail(<<h[1]>> \o q) = q
      /\ (<<h[1]>> \o q)[1] = h[1] /\ <<h[1]>> \o q # << >>
  <2>1. h[1] \in S /\ q \in Seq(S)
    BY <1>1, <1>3, <1>4
  <2> QED BY <2>1, ConsParts, Zenon
<1> QED BY <1>1, <1>2, <1>3, <1>4, <1>5, Zenon

LEMMA TwoJoin ==
  ASSUME NEW S, NEW h \in Seq(S), NEW p \in Seq(S), Len(h) = 2
  PROVE  <<h[1]>> \o (<<h[2]>> \o p) = h \o p
  BY TwoHeld, Zenon

LEMMA RestOfThree ==
  ASSUME NEW S, NEW h \in Seq(S), NEW p \in Seq(S), Len(h) = 3
  PROVE  <<h[1], h[2]>> \o (<<h[3]>> \o p) = h \o p
<1> DEFINE g == <<h[1], h[2]>>  k == <<h[3]>>
<1>1. \A i \in 1 .. Len(h) : h[i] \in S
  BY ElementOfSeq, Zenon
<1>2. h[1] \in S /\ h[2] \in S /\ h[3] \in S
  <2>1. 1 \in 1 .. Len(h) /\ 2 \in 1 .. Len(h) /\ 3 \in 1 .. Len(h)
    OBVIOUS
  <2> QED BY <1>1, <2>1, Zenon
<1>3. g \in Seq(S)
  BY <1>2
<1>4. k \in Seq(S)
  BY <1>2
<1>5. g \o k = <<h[1], h[2], h[3]>>
  BY <1>2, OnlyThree, Zenon
<1>6. h = <<h[1], h[2], h[3]>>
  BY AllThree, Zenon
<1> HIDE DEF g, k
<1>7. (g \o k) \o p = g \o (k \o p)
  BY <1>3, <1>4, Assoc, SMTT(30)
<1>8. g \o k = h
  BY <1>5, <1>6, Zenon
<1> QED BY <1>7, <1>8, Zenon DEF g, k

LEMMA ThreeHeld ==
  ASSUME NEW S, NEW h \in Seq(S), Len(h) = 3
  PROVE  h[1] \in S /\ h[2] \in S /\ h[3] \in S
<1>1. \A i \in 1 .. Len(h) : h[i] \in S
  BY ElementOfSeq, Zenon
<1>2. 1 \in 1 .. Len(h) /\ 2 \in 1 .. Len(h) /\ 3 \in 1 .. Len(h)
  OBVIOUS
<1> QED BY <1>1, <1>2, Zenon

-----------------------------------------------------------------------------
(* The layout of the stream: types, the number of tokens a step holds at   *)
(* each point, and where a token that ends a line or a file may be.        *)
Token == [id : Nat \ {0}, at : Addr, kind : Kinds \cup {"marker"}, from : Nat]
OpenGroup == [now : BOOLEAN, seen : BOOLEAN]
OpenIf == [ctx : {"then", "elif", "else"}, included : BOOLEAN]
Barrier == (Directives \ {"null"}) \cup {"eof"}
LastOnly(p) == \A i \in 1 .. Len(p) : i < Len(p) => p[i].kind \notin Barrier
Frame ==
  {f \in [saved_pb : Seq(Token), file : Nat \ {0}, saved_cond_incl : Nat] :
     LastOnly(f.saved_pb)}
Queue == held \o pb

TokensTyped ==
  /\ out \in Seq(Token) /\ held \in Seq(Token) /\ pb \in Seq(Token)
  /\ body \in Seq(Token)
FilesTyped ==
  /\ frames \in Seq(Frame) /\ file \in Nat \ {0}
  /\ branches \in Seq(Seq(OpenGroup)) /\ Len(branches) = Len(frames) + 1
  /\ cond_incl \in Seq(OpenIf) /\ nest \in Nat
CountersTyped ==
  /\ cursor \in Nat /\ cursor <= Len(out) /\ have \in Nat
  /\ eof_done \in BOOLEAN /\ ooo_active \in BOOLEAN
  /\ caller \in {"open", "lookahead", "advance"}
  /\ expansions \in Nat /\ lexed \subseteq Nat

Idle == {"loop", "parse", "reclaim", "skip", "closed", "reset"}
HeldShape ==
  /\ pc \in Idle => held = << >>
  /\ pc \in {"step", "directive", "skipped"} => Len(held) = 1
  /\ pc \in {"line", "call", "null", "spliced"} => Len(held) = 2
  /\ pc = "splice" => Len(held) = 3
  /\ pc \in {"line", "directive"} => held[1].kind \in Directives
  /\ pc \in {"call", "splice", "spliced"} => held[1].kind = "fun"
  /\ pc \in {"splice", "spliced"} => held[2].kind = "paren"
  /\ pc = "null" => held[1].kind = "null"
  /\ pc = "body" => \/ Len(held) = 1 /\ held[1].kind = "obj"
                    \/ Len(held) = 2 /\ held[1].kind = "fun" /\ held[2].kind = "paren"
                    \/ /\ Len(held) = 3 /\ held[1].kind = "fun"
                       /\ held[2].kind = "paren" /\ held[3].kind = "paren"
Steps == {"step", "line", "directive", "skip", "skipped", "null", "body", "call",
          "splice", "spliced"}
Points == Idle \cup Steps \cup {"closing"}
Made(t) == t.from = 0 /\ t.kind \in {"plain", "obj", "fun", "paren"}
BodyShape ==
  /\ pc \notin {"body", "splice", "spliced", "closing"} => body = << >>
  /\ \A i \in 1 .. Len(body) : Made(body[i])
ClosedShape ==
  pc \in {"closed", "reset"} =>
    /\ out = << >> /\ pb = << >> /\ frames = << >> /\ file = 1
    /\ cursor = 0 /\ eof_done = FALSE /\ caller = "open"
    /\ cond_incl = << >> /\ branches = <<<< >>>> /\ nest = 0 /\ lexed = {}

HeldLast ==
  held # << >> /\ held[Len(held)].kind \in Barrier =>
    pb = << >> \/ pc \in {"directive", "closing"}
NextLine ==
  /\ pc = "line" /\ held[1].kind \in Barrier =>
       /\ pb = << >> /\ held[2].id = Newest
       /\ held[1].id < Newest /\ file < Newest
  /\ pc = "directive" /\ held[1].kind \in Barrier =>
       /\ pb = <<pb[1]>> /\ pb[1].id = Newest
       /\ held[1].id < Newest /\ file < Newest

Progress ==
  /\ pc \in {"parse", "reclaim"} => caller # "open"
  /\ caller = "open" <=> cursor = 0
  /\ eof_done => out # << >> /\ pc \in {"loop", "parse", "reclaim", "closing"}
  /\ caller # "open" /\ pc \notin {"parse", "reclaim", "closing"} =>
       have <= Len(out) - cursor
  /\ pc = "reclaim" => cursor < Len(out) \/ eof_done

Layout ==
  /\ AllocatorInv /\ TokensTyped /\ FilesTyped /\ CountersTyped
  /\ pc \in Points /\ HeldShape /\ BodyShape /\ ClosedShape
  /\ LastOnly(pb) /\ HeldLast /\ NextLine /\ Progress

LEMMA TokenFields ==
  ASSUME NEW t \in Token
  PROVE  /\ t.id \in Nat \ {0} /\ t.at \in Addr /\ t.from \in Nat
         /\ t.kind \in Kinds \cup {"marker"}
BY DEF Token

LEMMA TokenMade ==
  ASSUME AllocatorInv, AllocToken, NEW k \in Kinds \cup {"marker"}, NEW f \in Nat
  PROVE  /\ NewToken(k, f) \in Token
         /\ NewToken(k, f).id = Newest'
         /\ NewToken(k, f).kind = k
         /\ NewToken(k, f).from = f
<1>1. Newest' \in Nat \ {0} /\ place'[recyc_newest'] \in Addr
  BY AllocNumbers
<1>2. NewToken(k, f) =
        [id |-> Newest', at |-> place'[recyc_newest'], kind |-> k, from |-> f]
  BY DEF NewToken, Newest
<1> QED BY <1>1, <1>2 DEF Token

LEMMA PinUpdated ==
  ASSUME AllocatorInv, NEW o \in Seq(Token), NEW p \in Seq(Token),
         UpdateStreamPin(o, p)
  PROVE  AllocatorInv' /\ Newest' = Newest
<1> DEFINE q == IF p # << >> THEN p[1].at ELSE IF o # << >> THEN o[1].at ELSE NoAddr
<1>1. p # << >> => p[1] \in Token
  OBVIOUS
<1>2. o # << >> => o[1] \in Token
  OBVIOUS
<1>3. q \in Addr \cup {NoAddr}
  BY <1>1, <1>2, TokenFields
<1>4. RecycStreamPin(q)
  BY DEF UpdateStreamPin
<1> HIDE DEF q
<1> QED BY <1>3, <1>4, PinKept

(* Pushback lists on which a token that ends a line is the last.           *)
LEMMA LastOnlyEmpty == LastOnly(<< >>)
BY DEF LastOnly

LEMMA LastOnlyTail ==
  ASSUME NEW p \in Seq(Token), p # << >>, LastOnly(p)
  PROVE  LastOnly(Tail(p)) /\ (Head(p).kind \in Barrier => Tail(p) = << >>)
<1>1. /\ Tail(p) \in Seq(Token) /\ Head(p) = p[1]
      /\ Len(Tail(p)) = Len(p) - 1 /\ Len(p) >= 1
      /\ \A i \in 1 .. Len(p) - 1 : Tail(p)[i] = p[i + 1]
  BY TailAt
<1>2. LastOnly(Tail(p))
  BY <1>1 DEF LastOnly
<1>3. ASSUME Head(p).kind \in Barrier PROVE Tail(p) = << >>
  <2>1. ~(1 < Len(p))
    BY <1>1, <1>3 DEF LastOnly
  <2>2. Len(Tail(p)) = 0
    BY <1>1, <2>1
  <2>3. \A s \in Seq(Token) : s # << >> => Len(s) # 0
    OBVIOUS
  <2> QED BY <1>1, <2>2, <2>3, Zenon
<1> QED BY <1>2, <1>3

LEMMA LastOnlyOne ==
  ASSUME NEW t \in Token
  PROVE  LastOnly(<<t>>) /\ <<t>> \in Seq(Token) /\ <<t>> \o << >> = <<t>>
BY DEF LastOnly

LEMMA LastOnlyCons ==
  ASSUME NEW p \in Seq(Token), LastOnly(p), NEW t \in Token,
         t.kind \notin Barrier \/ p = << >>
  PROVE  LastOnly(<<t>> \o p) /\ <<t>> \o p \in Seq(Token)
<1> DEFINE q == <<t>> \o p
<1>1. /\ q \in Seq(Token) /\ Len(q) = Len(p) + 1
      /\ \A i \in 1 .. Len(p) + 1 : q[i] = IF i = 1 THEN t ELSE p[i - 1]
  BY ConsAt
<1> HIDE DEF q
<1>2. CASE p = << >>
  <2>1. Len(q) = 1
    BY <1>1, <1>2
  <2> QED BY <1>1, <2>1 DEF LastOnly, q
<1>3. CASE t.kind \notin Barrier
  <2>1. ASSUME NEW i \in 1 .. Len(q), i < Len(q) PROVE q[i].kind \notin Barrier
    <3>1. CASE i = 1
      BY <1>1, <1>3, <3>1
    <3>2. CASE i # 1
      <4>1. i - 1 \in 1 .. Len(p) /\ i - 1 < Len(p) /\ q[i] = p[i - 1]
        BY <1>1, <2>1, <3>2
      <4> QED BY <4>1 DEF LastOnly
    <3> QED BY <3>1, <3>2
  <2> QED BY <1>1, <2>1 DEF LastOnly, q
<1> QED BY <1>2, <1>3

LEMMA LastOnlyJoin ==
  ASSUME NEW b \in Seq(Token), NEW p \in Seq(Token), LastOnly(p),
         \A i \in 1 .. Len(b) : b[i].kind \notin Barrier
  PROVE  LastOnly(b \o p) /\ b \o p \in Seq(Token)
<1> DEFINE q == b \o p
<1>1. /\ q \in Seq(Token) /\ Len(q) = Len(b) + Len(p)
      /\ \A i \in 1 .. Len(b) + Len(p) : q[i] = IF i <= Len(b) THEN b[i] ELSE p[i - Len(b)]
  BY JoinAt
<1> HIDE DEF q
<1>2. ASSUME NEW i \in 1 .. Len(q), i < Len(q) PROVE q[i].kind \notin Barrier
  <2>1. CASE i <= Len(b)
    <3>1. i \in 1 .. Len(b) /\ q[i] = b[i]
      BY <1>1, <2>1
    <3> QED BY <3>1
  <2>2. CASE ~(i <= Len(b))
    <3>1. i - Len(b) \in 1 .. Len(p) /\ i - Len(b) < Len(p) /\ q[i] = p[i - Len(b)]
      BY <1>1, <1>2, <2>2
    <3> QED BY <3>1 DEF LastOnly
  <2> QED BY <2>1, <2>2
<1> QED BY <1>1, <1>2 DEF LastOnly, q

-----------------------------------------------------------------------------
(* The end of a step: what it leaves is laid out as the loop expects it.   *)
LEMMA EndLayout ==
  ASSUME Layout, NEW o \in Seq(Token), NEW p \in Seq(Token), NEW x \in BOOLEAN,
         NEW n \in {0, 1}, EndStep(o, p, x, n),
         Len(o) >= Len(out) + n, LastOnly(p), pc \in Steps,
         AllocatorInv', FilesTyped', chain' = chain, caller' = caller,
         eof_done' = eof_done \/ (eof_done' = TRUE /\ o # << >>),
         expansions' = expansions, lexed' = lexed
  PROVE  Layout'
<1>1. /\ out' = o /\ pb' = p /\ have' = have + n /\ held' = << >> /\ body' = << >>
      /\ pc' = "loop" /\ ooo_active' \in BOOLEAN
  BY DEF EndStep
<1>2. /\ cursor' = cursor /\ eof_done = FALSE
  BY DEF chain, Layout, Progress, Steps, CountersTyped
<1>3. TokensTyped'
  BY <1>1 DEF TokensTyped
<1>4. /\ cursor \in Nat /\ have \in Nat /\ Len(out) \in Nat /\ Len(o) \in Nat
      /\ cursor <= Len(out) /\ Len(o) >= Len(out) + n
  BY DEF Layout, CountersTyped, TokensTyped
<1>5. cursor <= Len(o) /\ have + n \in Nat
  BY <1>4
<1>6. CountersTyped'
  BY <1>1, <1>2, <1>5 DEF CountersTyped, Layout
<1>7. HeldShape' /\ BodyShape' /\ ClosedShape' /\ HeldLast' /\ NextLine' /\ LastOnly(pb)'
  BY <1>1 DEF HeldShape, BodyShape, ClosedShape, HeldLast, NextLine, Idle, LastOnly
<1>8. pc' \in Points
  BY <1>1 DEF Points, Idle
<1>9. caller # "open" => have + n <= Len(o) - cursor
  <2>1. caller # "open" => have <= Len(out) - cursor
    BY DEF Layout, Progress, Steps
  <2> QED BY <1>4, <2>1
<1>10. Progress'
  <2>1. caller = "open" <=> cursor = 0
    BY DEF Layout, Progress
  <2> QED BY <1>1, <1>2, <1>9, <2>1 DEF Progress
<1> QED BY <1>3, <1>6, <1>7, <1>8, <1>10 DEF Layout

(* What C says of the groups after a token is a list of groups.            *)
LEMMA AfterTyped ==
  ASSUME NEW k, NEW open \in Seq(OpenGroup)
  PROVE  AfterKind(k, open) \in Seq(OpenGroup)
<1>1. ASSUME NEW n \in BOOLEAN, NEW b \in BOOLEAN PROVE Group(n, b) \in OpenGroup
  BY DEF Group, OpenGroup
<1>2. ASSUME NEW g \in OpenGroup, NEW s \in Seq(OpenGroup)
      PROVE  <<g>> \o s \in Seq(OpenGroup)
  BY ConsAt, Zenon
<1>3. CASE k \in If
  <2>1. Group(k = "if_true", FALSE) \in OpenGroup
    BY <1>1
  <2> QED BY <1>2, <1>3, <2>1 DEF AfterKind
<1>4. CASE k \notin If /\ open # << >>
  <2>1. Head(open) \in OpenGroup /\ Tail(open) \in Seq(OpenGroup)
    BY <1>4, TailAt, Zenon
  <2>2. Head(open).seen \in BOOLEAN
    BY <2>1 DEF OpenGroup
  <2>3. Group(k = "elif_true" /\ ~Head(open).seen, Head(open).seen) \in OpenGroup
    BY <1>1, <2>2
  <2>4. Group(~Head(open).seen, TRUE) \in OpenGroup
    BY <1>1, <2>2
  <2>5. <<Group(k = "elif_true" /\ ~Head(open).seen, Head(open).seen)>> \o Tail(open)
          \in Seq(OpenGroup)
    BY <1>2, <2>1, <2>3, Zenon
  <2>6. <<Group(~Head(open).seen, TRUE)>> \o Tail(open) \in Seq(OpenGroup)
    BY <1>2, <2>1, <2>4, Zenon
  <2> QED BY <1>4, <2>1, <2>5, <2>6 DEF AfterKind
<1>5. CASE k \notin If /\ open = << >>
  BY <1>5 DEF AfterKind
<1> QED BY <1>3, <1>4, <1>5

LEMMA BranchesTyped ==
  ASSUME FilesTyped, NEW k
  PROVE  /\ [branches EXCEPT ![1] = AfterKind(k, @)] \in Seq(Seq(OpenGroup))
         /\ Len([branches EXCEPT ![1] = AfterKind(k, @)]) = Len(branches)
         /\ branches[1] \in Seq(OpenGroup) /\ Len(branches) >= 1
         /\ DOMAIN branches = 1 .. Len(branches)
<1> DEFINE e == AfterKind(k, branches[1])
<1>1. /\ branches \in Seq(Seq(OpenGroup)) /\ Len(branches) = Len(frames) + 1
      /\ frames \in Seq(Frame)
  BY DEF FilesTyped
<1>2. Len(branches) >= 1 /\ 1 \in 1 .. Len(branches)
  BY <1>1
<1>3. branches[1] \in Seq(OpenGroup)
  BY <1>1, <1>2, ElementOfSeq, Zenon
<1>4. e \in Seq(OpenGroup)
  BY <1>3, AfterTyped
<1> HIDE DEF e
<1>5. /\ [branches EXCEPT ![1] = e] \in Seq(Seq(OpenGroup))
      /\ Len([branches EXCEPT ![1] = e]) = Len(branches)
  BY <1>1, <1>2, <1>4, ExceptSeq
<1>6. DOMAIN branches = 1 .. Len(branches)
  BY <1>1
<1> QED BY <1>2, <1>3, <1>5, <1>6 DEF e

-----------------------------------------------------------------------------
(* A raw token: pulled back from the pushback list, or a new one of the    *)
(* file that is read.                                                      *)
Repeated ==
  /\ Queue' = Queue /\ branches' = branches /\ lexed' = lexed
  /\ Newest' = Newest
New(t) ==
  /\ t \in Token /\ t.id = Newest' /\ Newest' > Newest /\ t.from = file
  /\ t.kind \in Kinds
  /\ Queue' = Append(Queue, t)
  /\ branches' = [branches EXCEPT ![1] = AfterKind(t.kind, @)]
  /\ lexed' = IF t.kind = "plain" /\ Taken(branches[1])
                THEN lexed \cup {t.id} ELSE lexed
Pulled(t) ==
  /\ t \in Token
  /\ held' = Append(held, t) /\ held' \in Seq(Token)
  /\ pb' \in Seq(Token) /\ LastOnly(pb') /\ (t.kind \in Barrier => pb' = << >>)
  /\ pb = << >> => pb' = << >> /\ t.id = Newest' /\ Newest' > Newest
  /\ Repeated \/ New(t)

LEMMA Pull ==
  ASSUME Layout, NEW here, NEW then, PullRaw(here, then)
  PROVE  /\ AllocatorInv' /\ pc = here /\ pc' = then
         /\ UNCHANGED <<out, chain, reclaim_hold, frames, file, cond_incl, nest,
                        ooo_active, eof_done, caller, have, body>>
         /\ FilesTyped' /\ lexed' \subseteq Nat
         /\ \E t : Pulled(t)
<1>1. /\ pc = here /\ pc' = then
      /\ UNCHANGED <<out, chain, reclaim_hold, frames, file, cond_incl, nest,
                     ooo_active, eof_done, caller, have, body>>
  BY DEF PullRaw
<1>2. /\ held \in Seq(Token) /\ pb \in Seq(Token) /\ out \in Seq(Token)
      /\ AllocatorInv /\ LastOnly(pb) /\ FilesTyped /\ lexed \subseteq Nat
      /\ file \in Nat /\ file \in Nat \ {0}
  BY DEF Layout, TokensTyped, CountersTyped, FilesTyped
<1>3. CASE PullPushback
  <2>1. /\ pb # << >> /\ held' = Append(held, Head(pb)) /\ pb' = Tail(pb)
        /\ UpdateStreamPin(out, Tail(pb)) /\ branches' = branches /\ lexed' = lexed
    BY <1>3 DEF PullPushback
  <2>2. /\ Append(held, Head(pb)) \o Tail(pb) = held \o pb
        /\ Append(held, Head(pb)) \in Seq(Token) /\ Tail(pb) \in Seq(Token)
    BY <1>2, <2>1, PullJoin, Zenon
  <2>3. AllocatorInv' /\ Newest' = Newest
    BY <1>2, <2>1, <2>2, PinUpdated, Zenon
  <2>4. Head(pb) \in Token
    BY <1>2, <2>1, TailAt, Zenon
  <2>5. LastOnly(Tail(pb)) /\ (Head(pb).kind \in Barrier => Tail(pb) = << >>)
    BY <1>2, <2>1, LastOnlyTail, Zenon
  <2>6. FilesTyped'
    BY <1>1, <1>2, <2>1 DEF FilesTyped
  <2>7. Queue' = Queue
    BY <2>1, <2>2, Zenon DEF Queue
  <2>8. Pulled(Head(pb))
    BY <2>1, <2>2, <2>3, <2>4, <2>5, <2>7, Zenon DEF Pulled, Repeated
  <2> QED BY <1>1, <1>2, <2>1, <2>3, <2>6, <2>8, Zenon
<1>4. CASE PullLexer
  <2>1. PICK k \in (IF TextLeft THEN RawKinds ELSE {"eof"}) :
          /\ pb = << >> /\ AllocToken /\ pb' = pb
          /\ held' = Append(held, NewToken(k, file))
          /\ branches' = [branches EXCEPT ![1] = AfterKind(k, @)]
          /\ lexed' = IF k = "plain" /\ Taken(branches[1])
                        THEN lexed \cup {NewToken(k, file).id} ELSE lexed
    BY <1>4 DEF PullLexer
  <2>2. k \in Kinds
    BY StreamAssumption
  <2>3. /\ NewToken(k, file) \in Token /\ NewToken(k, file).id = Newest'
        /\ NewToken(k, file).kind = k /\ NewToken(k, file).from = file
    BY <1>2, <2>1, <2>2, TokenMade, Zenon
  <2>4. AllocatorInv' /\ Newest' > Newest /\ Newest' \in Nat
    BY <1>2, <2>1, AllocNumbers, Zenon
  <2> DEFINE t == NewToken(k, file)
  <2>5. t \in Token /\ t.id = Newest' /\ t.kind = k /\ t.from = file
    BY <2>3
  <2>6. held' = Append(held, t)
    BY <2>1
  <2>7. lexed' = IF t.kind = "plain" /\ Taken(branches[1])
                   THEN lexed \cup {t.id} ELSE lexed
    BY <2>1, <2>3
  <2>8. branches' = [branches EXCEPT ![1] = AfterKind(t.kind, @)]
    BY <2>1, <2>3
  <2> HIDE DEF t
  <2>9. held' \in Seq(Token)
    BY <1>2, <2>5, <2>6, AppendAt, Zenon
  <2>10. Queue' = Append(Queue, t)
    <3>1. held' \o << >> = held' /\ held \o << >> = held
      BY <1>2, <2>9, NothingHeld, Zenon
    <3>2. Queue' = held' /\ Queue = held
      BY <2>1, <3>1 DEF Queue
    <3> QED BY <2>6, <3>2
  <2>11. branches' \in Seq(Seq(OpenGroup)) /\ Len(branches') = Len(branches)
    BY <1>2, <2>8, BranchesTyped, Zenon
  <2>12. FilesTyped'
    BY <1>1, <1>2, <2>11 DEF FilesTyped
  <2>13. lexed' \subseteq Nat
    BY <1>2, <2>4, <2>5, <2>7
  <2>14. New(t)
    BY <2>2, <2>4, <2>5, <2>7, <2>8, <2>10, Zenon DEF New
  <2>15. /\ pb = << >> /\ pb' = << >> /\ LastOnly(<< >>) /\ << >> \in Seq(Token)
    BY <2>1, LastOnlyEmpty
  <2>16. Pulled(t)
    BY <2>4, <2>5, <2>6, <2>9, <2>14, <2>15, Zenon DEF Pulled
  <2> QED BY <1>1, <2>4, <2>12, <2>13, <2>16, Zenon
<1> QED BY <1>3, <1>4 DEF PullRaw

(* After a pull the step is laid out, if the tokens it holds then are what *)
(* it expects.                                                             *)
LEMMA PullLayout ==
  ASSUME Layout, NEW here, NEW then \in Steps, PullRaw(here, then),
         here \in {"loop", "step", "skip", "skipped", "body"}, eof_done = FALSE,
         expansions' \in Nat,
         \A t : Pulled(t) => HeldShape' /\ NextLine',
         here # "body" => then \notin {"body", "splice", "spliced"},
         here = "body" => then = "splice", then # "directive"
  PROVE  Layout'
<1>1. /\ AllocatorInv' /\ pc = here /\ pc' = then
      /\ UNCHANGED <<out, chain, reclaim_hold, frames, file, cond_incl, nest,
                     ooo_active, eof_done, caller, have, body>>
      /\ FilesTyped' /\ lexed' \subseteq Nat
  BY Pull
<1>2. PICK t : Pulled(t)
  BY Pull
<1>3. TokensTyped'
  BY <1>1, <1>2 DEF Pulled, TokensTyped, Layout
<1>4. CountersTyped'
  BY <1>1 DEF CountersTyped, Layout, chain
<1>5. HeldShape' /\ NextLine'
  BY <1>2
<1>6. BodyShape'
  BY <1>1 DEF BodyShape, Layout, Steps
<1>7. ClosedShape' /\ pc' \in Points
  BY <1>1 DEF ClosedShape, Steps, Points
<1>8. LastOnly(pb)'
  BY <1>2 DEF Pulled, LastOnly
<1>9. HeldLast'
  <2>1. held \in Seq(Token) /\ t \in Token
    BY <1>2 DEF Layout, TokensTyped, Pulled
  <2>2. held' = Append(held, t) /\ (t.kind \in Barrier => pb' = << >>)
    BY <1>2 DEF Pulled
  <2>3. held'[Len(held')] = t
    BY <2>1, <2>2
  <2> QED BY <2>2, <2>3 DEF HeldLast
<1>10. Progress'
  BY <1>1 DEF Progress, Layout, Steps, chain
<1> QED BY <1>1, <1>3, <1>4, <1>5, <1>6, <1>7, <1>8, <1>9, <1>10 DEF Layout

(* Each action keeps the layout.  First those that pull a token.           *)
LEMMA HeldSome ==
  ASSUME NEW h \in Seq(Token), h = << >>
  PROVE  Len(h) = 0
OBVIOUS

LEMMA HeldGrows ==
  ASSUME NEW h \in Seq(Token), NEW t \in Token
  PROVE  /\ Len(Append(h, t)) = Len(h) + 1
         /\ Append(h, t)[Len(h) + 1] = t
         /\ Len(h) = 1 => Append(h, t)[1] = h[1] /\ Append(h, t)[2] = t
         /\ Len(h) = 2 => /\ Append(h, t)[1] = h[1] /\ Append(h, t)[2] = h[2]
                          /\ Append(h, t)[3] = t
<1>1. /\ Len(Append(h, t)) = Len(h) + 1
      /\ \A i \in 1 .. Len(h) : Append(h, t)[i] = h[i]
      /\ Append(h, t)[Len(h) + 1] = t
  BY AppendAt
<1>2. Len(h) = 1 => 1 \in 1 .. Len(h) /\ Len(h) + 1 = 2
  OBVIOUS
<1>3. Len(h) = 2 => 1 \in 1 .. Len(h) /\ 2 \in 1 .. Len(h) /\ Len(h) + 1 = 3
  OBVIOUS
<1>4. Len(h) = 1 => Append(h, t)[1] = h[1] /\ Append(h, t)[2] = t
  BY <1>1, <1>2
<1>5. Len(h) = 2 => /\ Append(h, t)[1] = h[1] /\ Append(h, t)[2] = h[2]
                    /\ Append(h, t)[3] = t
  BY <1>1, <1>3
<1> QED BY <1>1, <1>4, <1>5, Zenon

LEMMA RunningSteps ==
  ASSUME Layout, pc \in Steps
  PROVE  eof_done = FALSE
BY DEF Layout, Progress, CountersTyped, Steps

LEMMA StepPullLayout ==
  ASSUME Layout, StepPull
  PROVE  Layout'
<1>1. PullRaw("loop", "step") /\ expansions' = expansions /\ eof_done = FALSE
  BY DEF StepPull, NeedMore, Layout, CountersTyped
<1>2. pc = "loop" /\ pc' = "step"
  BY <1>1, Pull
<1>3. held = << >>
  BY <1>2 DEF Layout, HeldShape, Idle
<1>4. ASSUME NEW t, Pulled(t) PROVE HeldShape' /\ NextLine'
  <2>1. Len(held') = 1
    BY <1>3, <1>4, HeldGrows, EmptySeq DEF Pulled
  <2> QED BY <1>2, <2>1 DEF HeldShape, NextLine, Idle
<1> QED BY <1>1, <1>4, PullLayout DEF Steps, Layout, CountersTyped

LEMMA SkipPullLayout ==
  ASSUME Layout, SkipPull
  PROVE  Layout'
<1>1. PullRaw("skip", "skipped") /\ expansions' = expansions
  BY DEF SkipPull
<1>2. pc = "skip" /\ pc' = "skipped"
  BY <1>1, Pull
<1>3. held = << >> /\ eof_done = FALSE
  BY <1>2, RunningSteps DEF Layout, HeldShape, Idle, Steps
<1>4. ASSUME NEW t, Pulled(t) PROVE HeldShape' /\ NextLine'
  <2>1. Len(held') = 1
    BY <1>3, <1>4, HeldGrows, EmptySeq DEF Pulled
  <2> QED BY <1>2, <2>1 DEF HeldShape, NextLine, Idle
<1> QED BY <1>1, <1>3, <1>4, PullLayout DEF Steps, Layout, CountersTyped

LEMMA DirectiveLineLayout ==
  ASSUME Layout, DirectiveLine, held[1].id <= Newest, file = 1 \/ file <= Newest
  PROVE  Layout'
<1>1. /\ PullRaw("step", "line") /\ expansions' = expansions
      /\ held[1].kind \in Directives
  BY DEF DirectiveLine, InStep, tok
<1>2. pc = "step" /\ pc' = "line" /\ file' = file
  BY <1>1, Pull
<1>3. Len(held) = 1 /\ held \in Seq(Token) /\ eof_done = FALSE
  BY <1>2, RunningSteps DEF Layout, HeldShape, Steps, TokensTyped
<1>4. held[1] \in Token /\ held[1].id \in Nat \ {0}
  BY <1>3, OneHeld, EmptySeq, TokenFields
<1>5. ASSUME NEW t, Pulled(t) PROVE HeldShape' /\ NextLine'
  <2>1. held' = Append(held, t) /\ t \in Token
    BY <1>5 DEF Pulled
  <2>2. Len(held') = 2 /\ held'[1] = held[1] /\ held'[2] = t
    BY <1>3, <2>1, HeldGrows
  <2>3. HeldShape'
    BY <1>1, <1>2, <2>2 DEF HeldShape, Idle
  <2>4. ASSUME held[1].kind \in Barrier
        PROVE  /\ pb' = << >> /\ t.id = Newest' /\ held[1].id < Newest'
               /\ file < Newest'
    <3>0. held # << >>
      <4>1. 1 # 0
        OBVIOUS
      <4> QED BY <1>3, <4>1, HeldSome, Zenon
    <3>1. held[Len(held)].kind \in Barrier
      BY <1>3, <2>4
    <3>2. pb = << >>
      BY <1>2, <3>0, <3>1 DEF Layout, HeldLast
    <3>3. pb' = << >> /\ t.id = Newest' /\ Newest' > Newest
      BY <1>5, <3>2 DEF Pulled
    <3>4. Newest \in Int /\ t.id \in Nat /\ file \in Nat
      BY <2>1, NewestInt, TokenFields DEF Layout, FilesTyped
    <3>5. held[1].id < Newest'
      BY <1>4, <3>3, <3>4
    <3>6. file < Newest'
      BY <1>4, <3>3, <3>4, <3>5
    <3> QED BY <3>3, <3>5, <3>6
  <2>5. NextLine'
    BY <1>2, <2>2, <2>4 DEF NextLine
  <2> QED BY <2>3, <2>5
<1> QED BY <1>1, <1>3, <1>5, PullLayout DEF Steps, Layout, CountersTyped

LEMMA SkipNullLayout ==
  ASSUME Layout, SkipNull
  PROVE  Layout'
<1>1. /\ PullRaw("skipped", "null") /\ expansions' = expansions
      /\ held[1].kind = "null"
  BY DEF SkipNull, tok
<1>2. pc = "skipped" /\ pc' = "null"
  BY <1>1, Pull
<1>3. Len(held) = 1 /\ held \in Seq(Token) /\ eof_done = FALSE
  BY <1>2, RunningSteps DEF Layout, HeldShape, Steps, TokensTyped
<1>4. ASSUME NEW t, Pulled(t) PROVE HeldShape' /\ NextLine'
  <2>1. held' = Append(held, t) /\ t \in Token
    BY <1>4 DEF Pulled
  <2>2. Len(held') = 2 /\ held'[1] = held[1]
    BY <1>3, <2>1, HeldGrows
  <2> QED BY <1>1, <1>2, <2>2 DEF HeldShape, NextLine, Idle
<1> QED BY <1>1, <1>3, <1>4, PullLayout DEF Steps, Layout, CountersTyped

LEMMA FunctionMacroLayout ==
  ASSUME Layout, FunctionMacro
  PROVE  Layout'
<1>1. /\ PullRaw("step", "call") /\ expansions' = expansions + 1
      /\ held[1].kind = "fun"
  BY DEF FunctionMacro, InStep, tok
<1>2. pc = "step" /\ pc' = "call"
  BY <1>1, Pull
<1>3. Len(held) = 1 /\ held \in Seq(Token) /\ eof_done = FALSE
  BY <1>2, RunningSteps DEF Layout, HeldShape, Steps, TokensTyped
<1>4. ASSUME NEW t, Pulled(t) PROVE HeldShape' /\ NextLine'
  <2>1. held' = Append(held, t) /\ t \in Token
    BY <1>4 DEF Pulled
  <2>2. Len(held') = 2 /\ held'[1] = held[1]
    BY <1>3, <2>1, HeldGrows
  <2> QED BY <1>1, <1>2, <2>2 DEF HeldShape, NextLine, Idle
<1>5. expansions' \in Nat
  BY <1>1 DEF Layout, CountersTyped
<1> QED BY <1>1, <1>3, <1>4, <1>5, PullLayout DEF Steps

LEMMA SplicePullLayout ==
  ASSUME Layout, SplicePull
  PROVE  Layout'
<1>1. /\ PullRaw("body", "splice") /\ expansions' = expansions
      /\ held[1].kind = "fun" /\ Len(held) = 2
  BY DEF SplicePull, tok
<1>2. pc = "body" /\ pc' = "splice"
  BY <1>1, Pull
<1>3. held[2].kind = "paren" /\ held \in Seq(Token) /\ eof_done = FALSE
  BY <1>1, <1>2, RunningSteps DEF Layout, HeldShape, Steps, TokensTyped
<1>4. ASSUME NEW t, Pulled(t) PROVE HeldShape' /\ NextLine'
  <2>1. held' = Append(held, t) /\ t \in Token
    BY <1>4 DEF Pulled
  <2>2. Len(held') = 3 /\ held'[1] = held[1] /\ held'[2] = held[2]
    BY <1>1, <1>3, <2>1, HeldGrows
  <2> QED BY <1>1, <1>2, <1>3, <2>2 DEF HeldShape, NextLine, Idle
<1> QED BY <1>1, <1>3, <1>4, PullLayout DEF Steps, Layout, CountersTyped

LEMMA HeldTokens ==
  ASSUME Layout
  PROVE  /\ Len(held) = 1 => held[1] \in Token
         /\ Len(held) = 2 => held[1] \in Token /\ held[2] \in Token
         /\ Len(held) = 3 => held[1] \in Token /\ held[2] \in Token /\ held[3] \in Token
<1>1. held \in Seq(Token)
  BY DEF Layout, TokensTyped
<1>2. CASE Len(held) = 1
  BY <1>1, <1>2, OneHeld, EmptySeq
<1>3. CASE Len(held) = 2
  BY <1>1, <1>3, AtTwo
<1>4. CASE Len(held) = 3
  BY <1>1, <1>4, ThreeHeld, EmptySeq
<1> QED BY <1>2, <1>3, <1>4

LEMMA LongerByOne ==
  ASSUME NEW s \in Seq(Token), NEW t \in Token
  PROVE  /\ Append(s, t) \in Seq(Token) /\ Len(Append(s, t)) = Len(s) + 1
         /\ Len(s) \in Nat /\ Append(s, t) # << >>
OBVIOUS

LEMMA EmitLayout ==
  ASSUME Layout, Emit
  PROVE  Layout'
<1>1. /\ pc = "step" /\ EndStep(Append(out, held[1]), pb, ooo_active, 1)
      /\ UNCHANGED <<allocator, chain, includes, eof_done, expansions, caller, lexed>>
  BY DEF Emit, InStep, tok
<1>2. /\ out \in Seq(Token) /\ pb \in Seq(Token) /\ ooo_active \in BOOLEAN
      /\ LastOnly(pb) /\ FilesTyped /\ AllocatorInv
  BY DEF Layout, TokensTyped, CountersTyped
<1>3. held[1] \in Token
  BY <1>1, HeldTokens DEF Layout, HeldShape
<1>4. AllocatorInv'
  BY <1>1, <1>2, StillKept
<1>5. FilesTyped'
  BY <1>1, <1>2 DEF FilesTyped, includes, conditionals
<1>6. /\ Append(out, held[1]) \in Seq(Token)
      /\ Len(Append(out, held[1])) >= Len(out) + 1
  BY <1>2, <1>3, LongerByOne
<1> QED BY <1>1, <1>2, <1>4, <1>5, <1>6, EndLayout DEF Steps

(* The groups of the includers are deeper than those of the file.          *)
Nested ==
  /\ Boundary <= Len(cond_incl)
  /\ \A n \in 1 .. Len(frames) - 1 :
       frames[n + 1].saved_cond_incl <= frames[n].saved_cond_incl

LEMMA BoundaryNat ==
  ASSUME FilesTyped
  PROVE  /\ Boundary \in Nat /\ Len(cond_incl) \in Nat
         /\ frames # << >> =>
              /\ Head(frames) \in Frame /\ Boundary = Head(frames).saved_cond_incl
              /\ Tail(frames) \in Seq(Frame) /\ Head(frames) = frames[1]
              /\ Len(Tail(frames)) = Len(frames) - 1 /\ Len(frames) >= 1
<1>1. frames \in Seq(Frame) /\ cond_incl \in Seq(OpenIf)
  BY DEF FilesTyped
<1>2. frames # << >> => /\ Head(frames) \in Frame /\ Head(frames) = frames[1]
                        /\ Tail(frames) \in Seq(Frame)
                        /\ Len(Tail(frames)) = Len(frames) - 1 /\ Len(frames) >= 1
  BY <1>1, TailAt
<1>3. \A f \in Frame : f.saved_cond_incl \in Nat
  BY DEF Frame
<1>4. Len(cond_incl) \in Nat
  BY <1>1
<1> QED BY <1>2, <1>3, <1>4 DEF Boundary

LEMMA Suffix ==
  ASSUME NEW S, NEW s \in Seq(S), NEW b \in Nat, b <= Len(s)
  PROVE  /\ SubSeq(s, Len(s) - b + 1, Len(s)) \in Seq(S)
         /\ Len(SubSeq(s, Len(s) - b + 1, Len(s))) = b
         /\ \A i \in 1 .. b : SubSeq(s, Len(s) - b + 1, Len(s))[i] = s[Len(s) - b + i]
<1> DEFINE m == Len(s) - b + 1
           u == SubSeq(s, m, Len(s))
<1>1. m \in Int /\ Len(s) \in Int /\ m >= 1
  OBVIOUS
<1>2. \A i \in m .. Len(s) : s[i] \in S
  <2>1. \A i \in 1 .. Len(s) : s[i] \in S
    BY ElementOfSeq, Zenon
  <2> HIDE DEF m
  <2> QED BY <1>1, <2>1
<1> HIDE DEF m
<1>3. /\ u \in Seq(S)
      /\ Len(u) = (IF m <= Len(s) THEN Len(s) - m + 1 ELSE 0)
      /\ \A i \in 1 .. Len(s) - m + 1 : u[i] = s[m + i - 1]
  BY <1>1, <1>2, SubSeqProperties
<1> HIDE DEF u
<1>4. Len(u) = b
  BY <1>3 DEF m
<1>5. \A i \in 1 .. b : u[i] = s[Len(s) - b + i]
  BY <1>3 DEF m
<1> QED BY <1>3, <1>4, <1>5 DEF u, m

LEMMA BalanceTyped ==
  ASSUME FilesTyped, Boundary <= Len(cond_incl), Balance
  PROVE  /\ cond_incl' \in Seq(OpenIf)
         /\ Len(cond_incl') = Boundary
         /\ \A i \in 1 .. Boundary :
              cond_incl'[i] = cond_incl[Len(cond_incl) - Boundary + i]
<1>1. Boundary \in Nat /\ cond_incl \in Seq(OpenIf)
  BY BoundaryNat DEF FilesTyped
<1>2. cond_incl' = SubSeq(cond_incl, Len(cond_incl) - Boundary + 1, Len(cond_incl))
  BY DEF Balance
<1> QED BY <1>1, <1>2, Suffix

LEMMA OuterEofLayout ==
  ASSUME Layout, Nested, OuterEof
  PROVE  Layout'
<1>1. /\ pc = "step" /\ EndStep(Append(out, held[1]), pb, ooo_active, 1)
      /\ eof_done' = TRUE
      /\ UNCHANGED <<allocator, chain, frames, file, nest, branches, expansions, caller,
                     lexed>>
      /\ Balance
  BY DEF OuterEof, InStep, tok
<1>2. /\ out \in Seq(Token) /\ pb \in Seq(Token) /\ ooo_active \in BOOLEAN
      /\ LastOnly(pb) /\ FilesTyped /\ AllocatorInv
  BY DEF Layout, TokensTyped, CountersTyped
<1>3. held[1] \in Token
  BY <1>1, HeldTokens DEF Layout, HeldShape
<1>4. AllocatorInv'
  BY <1>1, <1>2, StillKept
<1>5. cond_incl' \in Seq(OpenIf)
  BY <1>1, <1>2, BalanceTyped DEF Nested
<1>6. FilesTyped'
  BY <1>1, <1>2, <1>5 DEF FilesTyped
<1>7. /\ Append(out, held[1]) \in Seq(Token) /\ Append(out, held[1]) # << >>
      /\ Len(Append(out, held[1])) >= Len(out) + 1
  BY <1>2, <1>3, LongerByOne
<1> QED BY <1>1, <1>2, <1>4, <1>6, <1>7, EndLayout DEF Steps

LEMMA FrameFields ==
  ASSUME NEW f \in Frame
  PROVE  /\ f.saved_pb \in Seq(Token) /\ LastOnly(f.saved_pb)
         /\ f.file \in Nat \ {0} /\ f.saved_cond_incl \in Nat
BY DEF Frame

LEMMA SameLength ==
  ASSUME NEW s \in Seq(Token)
  PROVE  Len(s) \in Nat /\ Len(s) >= Len(s) + 0
OBVIOUS

LEMMA PopFrameLayout ==
  ASSUME Layout, Nested, PopFrame
  PROVE  Layout'
<1>1. /\ pc = "step" /\ frames # << >>
      /\ UpdateStreamPin(out, Head(frames).saved_pb)
      /\ EndStep(out, Head(frames).saved_pb, ooo_active, 0)
      /\ frames' = Tail(frames) /\ file' = Head(frames).file
      /\ branches' = Tail(branches)
      /\ UNCHANGED <<chain, nest, eof_done, expansions, caller, lexed>>
      /\ Balance
  BY DEF PopFrame, InStep
<1>2. /\ out \in Seq(Token) /\ ooo_active \in BOOLEAN
      /\ FilesTyped /\ AllocatorInv
  BY DEF Layout, TokensTyped, CountersTyped
<1>3. /\ Head(frames) \in Frame /\ Tail(frames) \in Seq(Frame)
      /\ Len(Tail(frames)) = Len(frames) - 1 /\ Len(frames) >= 1
  BY <1>1, <1>2, BoundaryNat
<1>4. /\ Head(frames).saved_pb \in Seq(Token) /\ LastOnly(Head(frames).saved_pb)
      /\ Head(frames).file \in Nat \ {0}
  BY <1>3, FrameFields
<1>5. AllocatorInv'
  BY <1>1, <1>2, <1>4, PinUpdated
<1>6. cond_incl' \in Seq(OpenIf)
  BY <1>1, <1>2, BalanceTyped DEF Nested
<1>7. branches' \in Seq(Seq(OpenGroup)) /\ Len(branches') = Len(branches) - 1
  <2>1. branches \in Seq(Seq(OpenGroup)) /\ Len(branches) >= 2
    BY <1>2, <1>3 DEF FilesTyped
  <2> QED BY <1>1, <2>1, TailAt
<1>8. FilesTyped'
  BY <1>1, <1>2, <1>3, <1>4, <1>6, <1>7 DEF FilesTyped
<1> QED BY <1>1, <1>2, <1>4, <1>5, <1>8, SameLength, EndLayout DEF Steps

LEMMA LinePushbackLayout ==
  ASSUME Layout, LinePushback
  PROVE  Layout'
<1>1. /\ pc = "line" /\ pb' = <<held[2]>> \o pb /\ UpdateStreamPin(out, <<held[2]>> \o pb)
      /\ held' = <<held[1]>> /\ pc' = "directive"
      /\ UNCHANGED <<out, chain, reclaim_hold, includes, ooo_active, eof_done,
                     expansions, caller, have, body, lexed>>
  BY DEF LinePushback, tok, nx
<1>2. /\ out \in Seq(Token) /\ pb \in Seq(Token) /\ held \in Seq(Token) /\ Len(held) = 2
      /\ LastOnly(pb) /\ FilesTyped /\ AllocatorInv
      /\ held[1].kind \in Directives
  BY <1>1 DEF Layout, TokensTyped, HeldShape
<1>3. held[1] \in Token /\ held[2] \in Token
  BY <1>2, HeldTokens
<1>4. held[2].kind \in Barrier => pb = << >>
  <2>1. held # << >>
    <3>1. 2 # 0
      OBVIOUS
    <3> QED BY <1>2, <3>1, HeldSome, Zenon
  <2> QED BY <1>1, <1>2, <2>1 DEF Layout, HeldLast
<1>5. LastOnly(<<held[2]>> \o pb) /\ <<held[2]>> \o pb \in Seq(Token)
  BY <1>2, <1>3, <1>4, LastOnlyCons
<1>6. AllocatorInv' /\ Newest' = Newest
  BY <1>1, <1>2, <1>5, PinUpdated
<1>7. FilesTyped' /\ file' = file
  BY <1>1, <1>2 DEF FilesTyped, includes, conditionals
<1>8. <<held[1]>> \in Seq(Token) /\ Len(<<held[1]>>) = 1 /\ <<held[1]>>[1] = held[1]
  BY <1>3
<1>9. TokensTyped' /\ CountersTyped'
  BY <1>1, <1>5, <1>8 DEF TokensTyped, CountersTyped, Layout, chain
<1>10. HeldShape' /\ BodyShape' /\ ClosedShape' /\ pc' \in Points /\ Progress'
  BY <1>1, <1>2, <1>8
     DEF HeldShape, BodyShape, ClosedShape, Points, Idle, Steps, Progress, chain, Layout
<1>11. NextLine'
  <2>1. ASSUME held[1].kind \in Barrier
        PROVE  /\ pb' = <<held[2]>> /\ held[2].id = Newest'
               /\ held[1].id < Newest' /\ file' < Newest'
    <3>1. pb = << >> /\ held[2].id = Newest /\ held[1].id < Newest /\ file < Newest
      BY <1>1, <2>1 DEF Layout, NextLine
    <3>2. <<held[2]>> \o << >> = <<held[2]>>
      BY <1>3, LastOnlyOne
    <3> QED BY <1>1, <1>6, <1>7, <3>1, <3>2
  <2> QED BY <1>1, <1>8, <2>1 DEF NextLine
<1>12. HeldLast' /\ LastOnly(pb')
  BY <1>1, <1>5 DEF HeldLast
<1> QED BY <1>1, <1>6, <1>7, <1>9, <1>10, <1>11, <1>12 DEF Layout

LEMMA BoundedLayout ==
  ASSUME Layout, BoundedDirective
  PROVE  Layout'
<1>1. /\ pc = "directive" /\ EndStep(out, pb, ooo_active, 0)
      /\ UNCHANGED <<allocator, chain, includes, eof_done, expansions, caller, lexed>>
  BY DEF BoundedDirective, Directive
<1>2. /\ out \in Seq(Token) /\ pb \in Seq(Token) /\ ooo_active \in BOOLEAN
      /\ LastOnly(pb) /\ FilesTyped /\ AllocatorInv
  BY DEF Layout, TokensTyped, CountersTyped
<1>3. AllocatorInv'
  BY <1>1, <1>2, StillKept
<1>4. FilesTyped'
  BY <1>1, <1>2 DEF FilesTyped, includes, conditionals
<1> QED BY <1>1, <1>2, <1>3, <1>4, SameLength, EndLayout DEF Steps

LEMMA PragmaLayout ==
  ASSUME Layout, Pragma
  PROVE  Layout'
<1>1. /\ pc = "directive" /\ AllocToken
      /\ EndStep(Append(out, NewToken("marker", 0)), pb, ooo_active, 0)
      /\ UNCHANGED <<chain, includes, eof_done, expansions, caller, lexed>>
  BY DEF Pragma, Directive
<1>2. /\ out \in Seq(Token) /\ pb \in Seq(Token) /\ ooo_active \in BOOLEAN
      /\ LastOnly(pb) /\ FilesTyped /\ AllocatorInv
  BY DEF Layout, TokensTyped, CountersTyped
<1>3. AllocatorInv'
  BY <1>1, <1>2, AllocNumbers
<1>4. NewToken("marker", 0) \in Token
  <2>1. "marker" \in Kinds \cup {"marker"} /\ 0 \in Nat
    OBVIOUS
  <2> QED BY <1>1, <1>2, <2>1, TokenMade, Zenon
<1> DEFINE t == NewToken("marker", 0)
<1>5. t \in Token /\ EndStep(Append(out, t), pb, ooo_active, 0)
  BY <1>1, <1>4
<1> HIDE DEF t
<1>6. /\ Append(out, t) \in Seq(Token)
      /\ Len(Append(out, t)) >= Len(out) + 0
  BY <1>2, <1>5, LongerByOne
<1>7. FilesTyped'
  BY <1>1, <1>2 DEF FilesTyped, includes, conditionals
<1> QED BY <1>1, <1>2, <1>3, <1>5, <1>6, <1>7, EndLayout DEF Steps

(* The token of the next line, on the pushback list when an #include is    *)
(* obeyed.                                                                 *)
LEMMA AfterInclude ==
  ASSUME Layout, pc = "directive", held[1].kind \in Barrier
  PROVE  /\ pb[1] \in Token /\ Head(pb) = pb[1] /\ pb # << >>
         /\ Head(pb).id = Newest /\ held[1].id < Newest /\ file < Newest
         /\ Head(pb).id \in Nat \ {0}
<1>1. /\ pb \in Seq(Token) /\ pb = <<pb[1]>> /\ pb[1].id = Newest
      /\ held[1].id < Newest /\ file < Newest
  BY DEF Layout, TokensTyped, NextLine
<1>2. Len(pb) = 1
  BY <1>1
<1>3. pb[1] \in Token /\ Head(pb) = pb[1]
  BY <1>1, <1>2, OneHeld, EmptySeq
<1>4. pb # << >>
  <2>1. Len(<< >>) # 1
    OBVIOUS
  <2> QED BY <1>2, <2>1, Zenon
<1> QED BY <1>1, <1>3, <1>4, TokenFields

LEMMA IncludeLayout ==
  ASSUME Layout, Include
  PROVE  Layout'
<1>1. /\ pc = "directive" /\ held[1].kind = "include"
      /\ frames' = <<NewFrame(pb)>> \o frames /\ file' = Head(pb).id
      /\ branches' = <<<< >>>> \o branches
      /\ UpdateStreamPin(out, << >>) /\ EndStep(out, << >>, ooo_active, 0)
      /\ UNCHANGED <<chain, cond_incl, nest, eof_done, expansions, caller, lexed>>
  BY DEF Include, Directive, tok
<1>2. /\ out \in Seq(Token) /\ pb \in Seq(Token) /\ ooo_active \in BOOLEAN
      /\ LastOnly(pb) /\ FilesTyped /\ AllocatorInv /\ << >> \in Seq(Token)
  BY DEF Layout, TokensTyped, CountersTyped
<1>3. Head(pb).id \in Nat \ {0}
  BY <1>1, AfterInclude DEF Barrier, Directives
<1>4. NewFrame(pb) \in Frame
  <2>1. Len(cond_incl) \in Nat /\ file \in Nat \ {0}
    BY <1>2, BoundaryNat DEF FilesTyped
  <2> QED BY <1>2, <2>1 DEF NewFrame, Frame
<1>5. frames' \in Seq(Frame) /\ Len(frames') = Len(frames) + 1
  BY <1>1, <1>2, <1>4, ConsAt DEF FilesTyped
<1>6. branches' \in Seq(Seq(OpenGroup)) /\ Len(branches') = Len(branches) + 1
  <2>1. << >> \in Seq(OpenGroup) /\ branches \in Seq(Seq(OpenGroup))
    BY <1>2 DEF FilesTyped
  <2> QED BY <1>1, <2>1, ConsAt
<1>7. FilesTyped'
  BY <1>1, <1>2, <1>3, <1>5, <1>6 DEF FilesTyped
<1>8. AllocatorInv'
  BY <1>1, <1>2, PinUpdated
<1> QED BY <1>1, <1>2, <1>7, <1>8, SameLength, LastOnlyEmpty, EndLayout DEF Steps

LEMMA BranchLayout ==
  ASSUME Layout, pc = "directive", NEW g \in Seq(OpenIf), NEW read, Branch(g, read)
  PROVE  Layout'
<1>1. /\ cond_incl' = g
      /\ UNCHANGED <<allocator, chain, frames, file, nest, branches, eof_done,
                     expansions, caller, lexed>>
  BY DEF Branch
<1>2. /\ out \in Seq(Token) /\ pb \in Seq(Token) /\ ooo_active \in BOOLEAN
      /\ LastOnly(pb) /\ FilesTyped /\ AllocatorInv
  BY DEF Layout, TokensTyped, CountersTyped
<1>3. AllocatorInv' /\ Newest' = Newest
  BY <1>1, <1>2, StillKept
<1>4. FilesTyped'
  BY <1>1, <1>2 DEF FilesTyped
<1>5. CASE read
  <2>1. EndStep(out, pb, ooo_active, 0)
    BY <1>5 DEF Branch
  <2> QED BY <1>1, <1>2, <1>3, <1>4, <2>1, SameLength, EndLayout DEF Steps
<1>6. CASE ~read
  <2>1. /\ held' = << >> /\ pc' = "skip"
        /\ UNCHANGED <<out, reclaim_hold, pb, ooo_active, have, body>>
    BY <1>6 DEF Branch
  <2>2. TokensTyped' /\ CountersTyped'
    BY <1>1, <2>1, EmptyNats, EmptySeq DEF TokensTyped, CountersTyped, Layout, chain
  <2>3. HeldShape' /\ ClosedShape' /\ pc' \in Points /\ NextLine' /\ HeldLast'
        /\ LastOnly(pb')
    BY <1>2, <2>1 DEF HeldShape, ClosedShape, Points, Idle, NextLine, HeldLast
  <2>4. Progress'
    BY <1>1, <2>1 DEF Progress, chain, Layout
  <2>5. BodyShape'
    BY <2>1 DEF BodyShape, Layout
  <2> QED BY <1>3, <1>4, <2>2, <2>3, <2>4, <2>5 DEF Layout
<1> QED BY <1>5, <1>6

LEMMA CondTail ==
  ASSUME FilesTyped, InGroup
  PROVE  /\ cond_incl # << >> /\ Head(cond_incl) \in OpenIf
         /\ Tail(cond_incl) \in Seq(OpenIf)
         /\ Head(cond_incl).included \in BOOLEAN
         /\ Len(cond_incl) \in Nat /\ Len(cond_incl) >= 1
         /\ cond_incl \in Seq(OpenIf)
<1>1. Boundary \in Nat /\ cond_incl \in Seq(OpenIf) /\ Len(cond_incl) > Boundary
  BY BoundaryNat DEF FilesTyped, InGroup
<1>2. cond_incl # << >>
  BY <1>1
<1>3. Head(cond_incl) \in OpenIf /\ Tail(cond_incl) \in Seq(OpenIf)
  BY <1>1, <1>2, TailAt
<1>4. Head(cond_incl).included \in BOOLEAN
  BY <1>3 DEF OpenIf
<1> QED BY <1>1, <1>2, <1>3, <1>4

LEMMA GroupPushed ==
  ASSUME NEW s \in Seq(OpenIf), NEW c \in {"then", "elif", "else"}, NEW b \in BOOLEAN
  PROVE  <<[ctx |-> c, included |-> b]>> \o s \in Seq(OpenIf)
<1>1. [ctx |-> c, included |-> b] \in OpenIf
  BY DEF OpenIf
<1> QED BY <1>1, ConsAt, Zenon

LEMMA IfLayout ==
  ASSUME Layout, IfDirective
  PROVE  Layout'
<1> DEFINE b == held[1].kind = "if_true"
           g == <<[ctx |-> "then", included |-> b]>> \o cond_incl
<1>1. pc = "directive" /\ Branch(g, b)
  BY DEF IfDirective, Directive, tok
<1>2. g \in Seq(OpenIf)
  <2>1. b \in BOOLEAN /\ cond_incl \in Seq(OpenIf)
    BY DEF Layout, FilesTyped
  <2> HIDE DEF b
  <2> QED BY <2>1, GroupPushed
<1> HIDE DEF g, b
<1> QED BY <1>1, <1>2, BranchLayout

LEMMA ElifLayout ==
  ASSUME Layout, ElifDirective
  PROVE  Layout'
<1> DEFINE before == Head(cond_incl).included
           read == ~before /\ held[1].kind = "elif_true"
           g == <<[ctx |-> "elif", included |-> before \/ read]>> \o Tail(cond_incl)
<1>1. pc = "directive" /\ InGroup /\ Branch(g, read)
  BY DEF ElifDirective, Directive, tok
<1>2. g \in Seq(OpenIf)
  <2>1. (before \/ read) \in BOOLEAN /\ Tail(cond_incl) \in Seq(OpenIf)
    BY <1>1, CondTail DEF Layout
  <2> HIDE DEF before, read
  <2> QED BY <2>1, GroupPushed
<1> HIDE DEF g, read
<1> QED BY <1>1, <1>2, BranchLayout

LEMMA ElseLayout ==
  ASSUME Layout, ElseDirective
  PROVE  Layout'
<1> DEFINE g == <<[ctx |-> "else", included |-> TRUE]>> \o Tail(cond_incl)
           read == ~Head(cond_incl).included
<1>1. pc = "directive" /\ InGroup /\ Branch(g, read)
  BY DEF ElseDirective, Directive
<1>2. g \in Seq(OpenIf)
  <2>1. Tail(cond_incl) \in Seq(OpenIf)
    BY <1>1, CondTail DEF Layout
  <2> QED BY <2>1, GroupPushed
<1> HIDE DEF g, read
<1> QED BY <1>1, <1>2, BranchLayout

LEMMA EndifLayout ==
  ASSUME Layout, EndifDirective
  PROVE  Layout'
<1>1. pc = "directive" /\ InGroup /\ Branch(Tail(cond_incl), TRUE)
  BY DEF EndifDirective, Directive
<1>2. Tail(cond_incl) \in Seq(OpenIf)
  BY <1>1, CondTail DEF Layout
<1> QED BY <1>1, <1>2, BranchLayout

-----------------------------------------------------------------------------
LEMMA NestTyped ==
  ASSUME nest \in Nat, NEW k, ~StopsSkip(k)
  PROVE  NestAfter(k) \in Nat
BY DEF NestAfter, StopsSkip, Elif, If

LEMMA SkipDropLayout ==
  ASSUME Layout, SkipDrop
  PROVE  Layout'
<1>1. /\ pc = "skipped" /\ ~StopsSkip(held[1].kind) /\ nest' = NestAfter(held[1].kind)
      /\ held' = << >> /\ pc' = "skip"
      /\ UNCHANGED <<allocator, out, chain, reclaim_hold, pb, frames, file, cond_incl,
                     branches, ooo_active, eof_done, expansions, caller, have, body,
                     lexed>>
  BY DEF SkipDrop, tok
<1>2. FilesTyped /\ AllocatorInv /\ LastOnly(pb)
  BY DEF Layout
<1>3. nest' \in Nat
  BY <1>1, <1>2, NestTyped DEF FilesTyped
<1>4. AllocatorInv' /\ Newest' = Newest
  BY <1>1, <1>2, StillKept
<1>5. FilesTyped'
  BY <1>1, <1>2, <1>3 DEF FilesTyped
<1>6. TokensTyped' /\ CountersTyped'
  BY <1>1, EmptySeq DEF TokensTyped, CountersTyped, Layout, chain
<1>7. HeldShape' /\ ClosedShape' /\ pc' \in Points /\ NextLine' /\ HeldLast'
      /\ LastOnly(pb')
  BY <1>1, <1>2 DEF HeldShape, ClosedShape, Points, Idle, NextLine, HeldLast
<1>8. Progress'
  BY <1>1 DEF Progress, chain, Layout
<1>9. BodyShape'
  BY <1>1 DEF BodyShape, Layout
<1> QED BY <1>4, <1>5, <1>6, <1>7, <1>8, <1>9 DEF Layout

LEMMA StopSkipLayout ==
  ASSUME Layout, StopSkip, pc \in Steps, LastOnly(held \o pb)
  PROVE  Layout'
<1>1. /\ UpdateStreamPin(out, held \o pb) /\ EndStep(out, held \o pb, ooo_active, 0)
      /\ nest' = 0
      /\ UNCHANGED <<chain, frames, file, cond_incl, branches, eof_done, expansions,
                     caller, lexed>>
  BY DEF StopSkip
<1>2. /\ out \in Seq(Token) /\ pb \in Seq(Token) /\ ooo_active \in BOOLEAN
      /\ held \in Seq(Token) /\ FilesTyped /\ AllocatorInv
  BY DEF Layout, TokensTyped, CountersTyped
<1>3. held \o pb \in Seq(Token)
  BY <1>2, JoinAt
<1>4. AllocatorInv'
  BY <1>1, <1>2, <1>3, PinUpdated
<1>5. FilesTyped'
  BY <1>1, <1>2 DEF FilesTyped
<1> QED BY <1>1, <1>2, <1>3, <1>4, <1>5, SameLength, EndLayout

LEMMA SkipStopLayout ==
  ASSUME Layout, SkipStop
  PROVE  Layout'
<1>1. pc = "skipped" /\ StopsSkip(held[1].kind) /\ StopSkip
  BY DEF SkipStop, tok
<1>2. /\ pb \in Seq(Token) /\ held \in Seq(Token) /\ Len(held) = 1 /\ LastOnly(pb)
  BY <1>1 DEF Layout, TokensTyped, HeldShape
<1>3. held[1] \in Token /\ held # << >> /\ held = <<held[1]>>
  <2>1. 1 # 0
    OBVIOUS
  <2> QED BY <1>2, <2>1, HeldTokens, HeldSome, OnlyOne, Zenon
<1>4. held[1].kind \in Barrier
  BY <1>1 DEF StopsSkip, Barrier, Directives, Conditionals, Elif
<1>5. pb = << >>
  <2>1. held[Len(held)].kind \in Barrier
    BY <1>2, <1>4
  <2> QED BY <1>1, <1>3, <2>1 DEF Layout, HeldLast
<1>6. LastOnly(<<held[1]>> \o pb)
  BY <1>2, <1>3, <1>5, LastOnlyCons
<1>7. LastOnly(held \o pb)
  BY <1>3, <1>6, Zenon
<1> QED BY <1>1, <1>7, StopSkipLayout DEF Steps

LEMMA LastOnlyTwo ==
  ASSUME NEW p \in Seq(Token), LastOnly(p), NEW t \in Token, NEW u \in Token,
         t.kind \notin Barrier, u.kind \in Barrier => p = << >>
  PROVE  LastOnly(<<t>> \o (<<u>> \o p))
<1> DEFINE q == <<u>> \o p
<1>1. LastOnly(q) /\ q \in Seq(Token)
  BY LastOnlyCons
<1> HIDE DEF q
<1>2. LastOnly(<<t>> \o q)
  BY <1>1, LastOnlyCons
<1> QED BY <1>2 DEF q

LEMMA SkipWordLayout ==
  ASSUME Layout, SkipWord
  PROVE  Layout'
<1>1. pc = "null"
  BY DEF SkipWord
<1>2. /\ pb \in Seq(Token) /\ held \in Seq(Token) /\ Len(held) = 2 /\ LastOnly(pb)
      /\ held[1].kind = "null" /\ out \in Seq(Token) /\ FilesTyped /\ AllocatorInv
  BY <1>1 DEF Layout, TokensTyped, HeldShape
<1>3. held[1] \in Token /\ held[2] \in Token /\ held # << >>
  <2>1. 2 # 0
    OBVIOUS
  <2> QED BY <1>2, <2>1, HeldTokens, HeldSome, Zenon
<1>4. held[2].kind \in Barrier => pb = << >>
  BY <1>1, <1>2, <1>3 DEF Layout, HeldLast
<1>5. LastOnly(<<held[2]>> \o pb) /\ <<held[2]>> \o pb \in Seq(Token)
  BY <1>2, <1>3, <1>4, LastOnlyCons
<1>6. <<held[1]>> \o (<<held[2]>> \o pb) = held \o pb
  BY <1>2, TwoJoin, Zenon
<1>7. PICK word \in (IF held[2].kind = "plain" THEN Words ELSE {"plain"}) :
        IF StopsSkip(word) THEN StopSkip
        ELSE /\ nest' = NestAfter(word)
             /\ pb' = <<held[2]>> \o pb
             /\ UpdateStreamPin(out, <<held[2]>> \o pb)
             /\ held' = << >>
             /\ pc' = "skip"
             /\ UNCHANGED <<out, chain, reclaim_hold, frames, file, cond_incl,
                            branches, ooo_active, eof_done, expansions, caller,
                            have, body, lexed>>
  BY DEF SkipWord, nx
<1>8. CASE StopsSkip(word)
  <2>1. LastOnly(<<held[1]>> \o (<<held[2]>> \o pb))
    <3>1. held[1].kind \notin Barrier
      BY <1>2 DEF Barrier
    <3> QED BY <1>2, <1>3, <1>4, <3>1, LastOnlyTwo
  <2>3. LastOnly(held \o pb)
    BY <1>6, <2>1
  <2> QED BY <1>1, <1>7, <1>8, <2>3, StopSkipLayout DEF Steps
<1>9. CASE ~StopsSkip(word)
  <2>1. /\ nest' = NestAfter(word)
        /\ pb' = <<held[2]>> \o pb
        /\ UpdateStreamPin(out, <<held[2]>> \o pb)
        /\ held' = << >>
        /\ pc' = "skip"
        /\ UNCHANGED <<out, chain, reclaim_hold, frames, file, cond_incl,
                       branches, ooo_active, eof_done, expansions, caller,
                       have, body, lexed>>
    BY <1>7, <1>9
  <2>2. nest' \in Nat
    BY <1>2, <1>9, <2>1, NestTyped DEF FilesTyped
  <2>3. AllocatorInv' /\ Newest' = Newest
    BY <1>2, <1>5, <2>1, PinUpdated
  <2>4. FilesTyped'
    BY <1>2, <2>1, <2>2 DEF FilesTyped
  <2>5. TokensTyped' /\ CountersTyped'
    BY <1>5, <2>1, EmptySeq DEF TokensTyped, CountersTyped, Layout, chain
  <2>6. HeldShape' /\ ClosedShape' /\ pc' \in Points /\ NextLine' /\ HeldLast'
        /\ LastOnly(pb')
    BY <1>5, <2>1 DEF HeldShape, ClosedShape, Points, Idle, NextLine, HeldLast
  <2>7. Progress'
    BY <1>1, <2>1 DEF Progress, chain, Layout
  <2>8. BodyShape'
    BY <1>1, <2>1 DEF BodyShape, Layout
  <2> QED BY <2>3, <2>4, <2>5, <2>6, <2>7, <2>8 DEF Layout
<1> QED BY <1>8, <1>9

LEMMA ObjectMacroLayout ==
  ASSUME Layout, ObjectMacro
  PROVE  Layout'
<1>1. /\ pc = "step" /\ held[1].kind = "obj" /\ expansions' = expansions + 1
      /\ pc' = "body"
      /\ UNCHANGED <<allocator, out, chain, reclaim_hold, pb, includes, ooo_active,
                     eof_done, caller, have, held, body, lexed>>
  BY DEF ObjectMacro, InStep, tok
<1>2. FilesTyped /\ AllocatorInv /\ LastOnly(pb) /\ Len(held) = 1
  BY <1>1 DEF Layout, HeldShape
<1>3. AllocatorInv' /\ Newest' = Newest
  BY <1>1, <1>2, StillKept
<1>4. FilesTyped'
  BY <1>1, <1>2 DEF FilesTyped, includes, conditionals
<1>5. TokensTyped' /\ CountersTyped'
  BY <1>1 DEF TokensTyped, CountersTyped, Layout, chain
<1>6. HeldShape' /\ ClosedShape' /\ pc' \in Points /\ NextLine' /\ LastOnly(pb')
  BY <1>1, <1>2 DEF HeldShape, ClosedShape, Points, Steps, NextLine, Idle
<1>7. HeldLast' /\ BodyShape' /\ Progress'
  BY <1>1 DEF HeldLast, BodyShape, Progress, Layout, chain
<1> QED BY <1>3, <1>4, <1>5, <1>6, <1>7 DEF Layout

LEMMA CallLayout ==
  ASSUME Layout, Call
  PROVE  Layout'
<1>1. /\ pc = "call" /\ held[2].kind = "paren" /\ pc' = "body"
      /\ UNCHANGED <<allocator, out, chain, reclaim_hold, pb, includes, ooo_active,
                     eof_done, expansions, caller, have, held, body, lexed>>
  BY DEF Call, nx
<1>2. FilesTyped /\ AllocatorInv /\ LastOnly(pb) /\ Len(held) = 2
      /\ held[1].kind = "fun"
  BY <1>1 DEF Layout, HeldShape
<1>3. AllocatorInv' /\ Newest' = Newest
  BY <1>1, <1>2, StillKept
<1>4. FilesTyped'
  BY <1>1, <1>2 DEF FilesTyped, includes, conditionals
<1>5. TokensTyped' /\ CountersTyped'
  BY <1>1 DEF TokensTyped, CountersTyped, Layout, chain
<1>6. HeldShape' /\ ClosedShape' /\ pc' \in Points /\ NextLine' /\ LastOnly(pb')
  BY <1>1, <1>2 DEF HeldShape, ClosedShape, Points, Steps, NextLine, Idle
<1>7. HeldLast' /\ BodyShape' /\ Progress'
  BY <1>1 DEF HeldLast, BodyShape, Progress, Layout, chain
<1> QED BY <1>3, <1>4, <1>5, <1>6, <1>7 DEF Layout

LEMMA NoCallLayout ==
  ASSUME Layout, NoCall
  PROVE  Layout'
<1>1. /\ pc = "call" /\ UpdateStreamPin(out, <<held[2]>> \o pb)
      /\ EndStep(Append(out, held[1]), <<held[2]>> \o pb, ooo_active, 1)
      /\ UNCHANGED <<chain, includes, eof_done, expansions, caller, lexed>>
  BY DEF NoCall, tok, nx
<1>2. /\ out \in Seq(Token) /\ pb \in Seq(Token) /\ held \in Seq(Token)
      /\ Len(held) = 2 /\ LastOnly(pb) /\ FilesTyped /\ AllocatorInv
      /\ ooo_active \in BOOLEAN
  BY <1>1 DEF Layout, TokensTyped, HeldShape, CountersTyped
<1>3. held[1] \in Token /\ held[2] \in Token /\ held # << >>
  <2>1. 2 # 0
    OBVIOUS
  <2> QED BY <1>2, <2>1, HeldTokens, HeldSome, Zenon
<1>4. held[2].kind \in Barrier => pb = << >>
  BY <1>1, <1>2, <1>3 DEF Layout, HeldLast
<1>5. LastOnly(<<held[2]>> \o pb) /\ <<held[2]>> \o pb \in Seq(Token)
  BY <1>2, <1>3, <1>4, LastOnlyCons
<1>6. AllocatorInv'
  BY <1>1, <1>2, <1>5, PinUpdated
<1>7. FilesTyped'
  BY <1>1, <1>2 DEF FilesTyped, includes, conditionals
<1>8. /\ Append(out, held[1]) \in Seq(Token)
      /\ Len(Append(out, held[1])) >= Len(out) + 1
  BY <1>2, <1>3, LongerByOne
<1> QED BY <1>1, <1>2, <1>5, <1>6, <1>7, <1>8, EndLayout DEF Steps

LEMMA ExpandTokenLayout ==
  ASSUME Layout, ExpandToken
  PROVE  Layout'
<1>1. /\ pc = "body" /\ AllocToken
      /\ UNCHANGED <<out, chain, reclaim_hold, pb, includes, ooo_active, eof_done,
                     expansions, pc, caller, have, held, lexed>>
  BY DEF ExpandToken
<1>2. FilesTyped /\ AllocatorInv /\ LastOnly(pb) /\ body \in Seq(Token)
  BY DEF Layout, TokensTyped
<1>3. AllocatorInv'
  BY <1>1, <1>2, AllocNumbers
<1>4. PICK k \in RawKinds \cap {"plain", "obj", "fun", "paren"} :
        body' = Append(body, NewToken(k, 0))
  BY DEF ExpandToken
<1> DEFINE t == NewToken(k, 0)
<1>5. t \in Token /\ Made(t)
  <2>1. k \in Kinds \cup {"marker"} /\ 0 \in Nat
    BY DEF Kinds
  <2>2. NewToken(k, 0) \in Token /\ NewToken(k, 0).kind = k /\ NewToken(k, 0).from = 0
    BY <1>1, <1>2, <2>1, TokenMade, Zenon
  <2> QED BY <2>2 DEF Made
<1>6. body' = Append(body, t)
  BY <1>4
<1> HIDE DEF t
<1>7. /\ body' \in Seq(Token) /\ Len(body') = Len(body) + 1
      /\ \A i \in 1 .. Len(body) : body'[i] = body[i]
      /\ body'[Len(body) + 1] = t
  BY <1>2, <1>5, <1>6, AppendAt
<1>8. \A i \in 1 .. Len(body') : Made(body'[i])
  <2>1. \A i \in 1 .. Len(body) : Made(body[i])
    BY DEF Layout, BodyShape
  <2>2. Len(body) \in Nat
    BY <1>2
  <2>3. ASSUME NEW i \in 1 .. Len(body') PROVE Made(body'[i])
    <3>1. CASE i \in 1 .. Len(body)
      BY <1>7, <2>1, <3>1
    <3>2. CASE i = Len(body) + 1
      BY <1>5, <1>7, <3>2
    <3> QED BY <1>7, <2>2, <3>1, <3>2
  <2> QED BY <2>3
<1>9. FilesTyped'
  BY <1>1, <1>2 DEF FilesTyped, includes, conditionals
<1>10. TokensTyped' /\ CountersTyped'
  BY <1>1, <1>7 DEF TokensTyped, CountersTyped, Layout, chain
<1>11. HeldShape' /\ ClosedShape' /\ pc' \in Points /\ NextLine' /\ LastOnly(pb')
  BY <1>1, <1>2 DEF HeldShape, ClosedShape, Points, NextLine, Layout
<1>12. HeldLast' /\ BodyShape' /\ Progress'
  BY <1>1, <1>8 DEF HeldLast, BodyShape, Progress, Layout, chain
<1> QED BY <1>3, <1>9, <1>10, <1>11, <1>12 DEF Layout

LEMMA ExpandDoneLayout ==
  ASSUME Layout, ExpandDone
  PROVE  Layout'
<1>1. /\ pc \in {"body", "spliced"}
      /\ UNCHANGED <<chain, includes, eof_done, expansions, caller, lexed>>
  BY DEF ExpandDone
<1>2. /\ out \in Seq(Token) /\ pb \in Seq(Token) /\ body \in Seq(Token)
      /\ LastOnly(pb) /\ FilesTyped /\ AllocatorInv /\ ooo_active \in BOOLEAN
      /\ \A i \in 1 .. Len(body) : Made(body[i])
  BY DEF Layout, TokensTyped, CountersTyped, BodyShape
<1>3. FilesTyped'
  BY <1>1, <1>2 DEF FilesTyped, includes, conditionals
<1>4. CASE body = << >>
  <2>1. EndStep(out, pb, ooo_active, 0) /\ UNCHANGED allocator
    BY <1>4 DEF ExpandDone
  <2>2. AllocatorInv'
    BY <1>2, <2>1, StillKept
  <2> QED BY <1>1, <1>2, <1>3, <2>1, <2>2, SameLength, EndLayout DEF Steps
<1>5. CASE body # << >>
  <2> DEFINE x == ooo_active \/ IsOutOfOrder
  <2>1. EndStep(out, body \o pb, x, 0) /\ UpdateStreamPin(out, body \o pb)
    BY <1>5 DEF ExpandDone
  <2>2. x \in BOOLEAN
    BY <1>2 DEF IsOutOfOrder
  <2> HIDE DEF x
  <2>3. \A i \in 1 .. Len(body) : body[i].kind \notin Barrier
    BY <1>2 DEF Made, Barrier, Directives, Conditionals, If, Elif
  <2>4. LastOnly(body \o pb) /\ body \o pb \in Seq(Token)
    BY <1>2, <2>3, LastOnlyJoin
  <2>5. AllocatorInv'
    BY <1>2, <2>1, <2>4, PinUpdated
  <2> QED BY <1>1, <1>2, <1>3, <2>1, <2>2, <2>4, <2>5, SameLength, EndLayout DEF Steps
<1> QED BY <1>4, <1>5

LEMMA SpliceCallLayout ==
  ASSUME Layout, SpliceCall
  PROVE  Layout'
<1>1. /\ pc = "splice" /\ held[3].kind = "paren" /\ body' = << >> /\ pc' = "body"
      /\ UNCHANGED <<allocator, out, chain, reclaim_hold, pb, includes, ooo_active,
                     eof_done, expansions, caller, have, held, lexed>>
  BY DEF SpliceCall
<1>2. FilesTyped /\ AllocatorInv /\ LastOnly(pb) /\ Len(held) = 3
      /\ held[1].kind = "fun" /\ held[2].kind = "paren"
  BY <1>1 DEF Layout, HeldShape
<1>3. AllocatorInv' /\ Newest' = Newest
  BY <1>1, <1>2, StillKept
<1>4. FilesTyped'
  BY <1>1, <1>2 DEF FilesTyped, includes, conditionals
<1>5. TokensTyped' /\ CountersTyped'
  BY <1>1, EmptySeq DEF TokensTyped, CountersTyped, Layout, chain
<1>6. HeldShape' /\ ClosedShape' /\ pc' \in Points /\ NextLine' /\ LastOnly(pb')
  BY <1>1, <1>2 DEF HeldShape, ClosedShape, Points, Steps, NextLine, Idle
<1>7. HeldLast' /\ Progress'
  BY <1>1 DEF HeldLast, Progress, Layout, chain
<1>8. BodyShape'
  BY <1>1 DEF BodyShape
<1> QED BY <1>3, <1>4, <1>5, <1>6, <1>7, <1>8 DEF Layout

LEMMA SpliceNoCallLayout ==
  ASSUME Layout, SpliceNoCall
  PROVE  Layout'
<1>1. /\ pc = "splice" /\ pb' = <<held[3]>> \o pb
      /\ UpdateStreamPin(out, <<held[3]>> \o pb)
      /\ held' = <<held[1], held[2]>> /\ pc' = "spliced"
      /\ UNCHANGED <<out, chain, reclaim_hold, includes, ooo_active, eof_done,
                     expansions, caller, have, body, lexed>>
  BY DEF SpliceNoCall, tok, nx
<1>2. /\ out \in Seq(Token) /\ pb \in Seq(Token) /\ held \in Seq(Token)
      /\ Len(held) = 3 /\ LastOnly(pb) /\ FilesTyped /\ AllocatorInv
      /\ held[1].kind = "fun" /\ held[2].kind = "paren"
  BY <1>1 DEF Layout, TokensTyped, HeldShape
<1>3. held[1] \in Token /\ held[2] \in Token /\ held[3] \in Token /\ held # << >>
  <2>1. 3 # 0
    OBVIOUS
  <2> QED BY <1>2, <2>1, HeldTokens, HeldSome, Zenon
<1>4. held[3].kind \in Barrier => pb = << >>
  BY <1>1, <1>2, <1>3 DEF Layout, HeldLast
<1>5. LastOnly(<<held[3]>> \o pb) /\ <<held[3]>> \o pb \in Seq(Token)
  BY <1>2, <1>3, <1>4, LastOnlyCons
<1>6. AllocatorInv' /\ Newest' = Newest
  BY <1>1, <1>2, <1>5, PinUpdated
<1>7. FilesTyped'
  BY <1>1, <1>2 DEF FilesTyped, includes, conditionals
<1>8. /\ held' \in Seq(Token) /\ Len(held') = 2 /\ held'[1] = held[1]
      /\ held'[2] = held[2]
  BY <1>1, <1>3
<1>9. TokensTyped' /\ CountersTyped'
  BY <1>1, <1>5, <1>8 DEF TokensTyped, CountersTyped, Layout, chain
<1>10. HeldShape' /\ ClosedShape' /\ pc' \in Points /\ NextLine' /\ LastOnly(pb')
  BY <1>1, <1>2, <1>5, <1>8 DEF HeldShape, ClosedShape, Points, Steps, NextLine, Idle
<1>11. HeldLast'
  BY <1>1, <1>2, <1>8 DEF HeldLast, Barrier, Directives, Conditionals, If, Elif
<1>12. BodyShape' /\ Progress'
  BY <1>1 DEF BodyShape, Progress, Layout, chain
<1> QED BY <1>6, <1>7, <1>9, <1>10, <1>11, <1>12 DEF Layout

-----------------------------------------------------------------------------
(* The loops around a step, and the parser.                                *)
LEMMA AheadCounted ==
  ASSUME NEW n \in Nat, NEW c \in Nat, c <= n
  PROVE  /\ Smaller(2 * Lookahead, n - c) \in Nat
         /\ Smaller(2 * Lookahead, n - c) <= n - c
BY StreamAssumption DEF Smaller

LEMMA ChainLength ==
  ASSUME Layout
  PROVE  /\ Len(out) \in Nat /\ cursor \in Nat /\ cursor <= Len(out) /\ have \in Nat
         /\ out # << >> => Len(out) >= 1
<1>1. out \in Seq(Token)
  BY DEF Layout, TokensTyped
<1>2. Len(out) \in Nat /\ (out # << >> => Len(out) >= 1)
  BY <1>1
<1> QED BY <1>2 DEF Layout, CountersTyped

(* What stays when only the loop, the parser and the mode change.          *)
Outside ==
  /\ AllocatorInv'
  /\ UNCHANGED <<out, pb, includes, ooo_active, eof_done, expansions, held, body, lexed>>

LEMMA OutsideLayout ==
  ASSUME Layout, Outside, pc' \in (Idle \ {"closed", "reset"}) \cup {"closing"},
         pc' # "closing" => held = << >> /\ body = << >>,
         cursor' \in Nat, cursor' <= Len(out), have' \in Nat,
         caller' \in {"open", "lookahead", "advance"}, Progress'
  PROVE  Layout'
<1>1. FilesTyped'
  BY DEF Outside, Layout, FilesTyped, includes, conditionals
<1>2. TokensTyped' /\ CountersTyped'
  BY DEF Outside, Layout, TokensTyped, CountersTyped
<1>3. HeldShape' /\ ClosedShape' /\ NextLine' /\ pc' \in Points
  BY DEF Outside, HeldShape, ClosedShape, NextLine, Points, Idle
<1>4. BodyShape'
  BY DEF Outside, BodyShape, Layout
<1>5. HeldLast' /\ LastOnly(pb')
  BY DEF Outside, HeldLast, Layout
<1> QED BY <1>1, <1>2, <1>3, <1>4, <1>5 DEF Outside, Layout

LEMMA IdleShape ==
  ASSUME Layout, pc \in Idle
  PROVE  held = << >> /\ body = << >>
BY DEF Layout, HeldShape, BodyShape, Idle

LEMMA ResetLayout ==
  ASSUME Layout, ResetBeforeOpen
  PROVE  Layout'
<1>1. /\ pc = "closed" /\ ResetTranslationUnit /\ pc' = "reset"
      /\ UNCHANGED <<out, chain, reclaim_hold, pb, includes, ooo_active, eof_done,
                     expansions, caller, have, held, body, lexed>>
  BY DEF ResetBeforeOpen
<1>2. AllocatorInv' /\ FilesTyped /\ LastOnly(pb)
  BY <1>1, ResetKept DEF Layout
<1>3. FilesTyped'
  BY <1>1, <1>2 DEF FilesTyped, includes, conditionals
<1>4. TokensTyped' /\ CountersTyped'
  BY <1>1 DEF TokensTyped, CountersTyped, Layout, chain
<1>5. held = << >> /\ body = << >>
  BY <1>1, IdleShape DEF Idle
<1>6. HeldShape' /\ NextLine' /\ pc' \in Points /\ BodyShape' /\ HeldLast'
  BY <1>1, <1>5 DEF HeldShape, NextLine, Points, Idle, BodyShape, HeldLast, Layout
<1>7. ClosedShape' /\ Progress'
  BY <1>1 DEF ClosedShape, Progress, Layout, chain, includes, conditionals
<1> QED BY <1>1, <1>2, <1>3, <1>4, <1>6, <1>7 DEF Layout

LEMMA OpenLayout ==
  ASSUME Layout, Open
  PROVE  Layout'
<1>1. /\ pc = "reset" /\ SetRecyclable(TRUE) /\ pc' = "loop" /\ caller' = "open"
      /\ UNCHANGED <<out, chain, reclaim_hold, pb, includes, ooo_active, eof_done,
                     expansions, have, held, body, lexed>>
  BY DEF Open
<1>2. Outside
  <2>1. AllocatorInv'
    BY <1>1, ModeKept DEF Layout
  <2> QED BY <1>1, <2>1 DEF Outside
<1>3. held = << >> /\ body = << >>
  BY <1>1, IdleShape DEF Idle
<1>4. cursor' = 0 /\ eof_done' = FALSE /\ have' \in Nat /\ 0 <= Len(out)
  BY <1>1, ChainLength DEF Layout, ClosedShape, CountersTyped, chain
<1>5. Progress'
  BY <1>1, <1>4 DEF Progress
<1> QED BY <1>1, <1>2, <1>3, <1>4, <1>5, OutsideLayout DEF Idle

LEMMA OpenDoneLayout ==
  ASSUME Layout, OpenDone
  PROVE  Layout'
<1>1. /\ pc = "loop" /\ caller = "open" /\ ~NeedMore /\ cursor' = 1
      /\ caller' = "lookahead" /\ have' = CountAhead(1)
      /\ UNCHANGED <<allocator, out, refill_at, reclaim_hold, pb, includes,
                     ooo_active, eof_done, expansions, pc, held, body, lexed>>
  BY DEF OpenDone
<1>2. Outside
  <2>1. AllocatorInv'
    BY <1>1, StillKept DEF Layout
  <2> QED BY <1>1, <2>1 DEF Outside
<1>3. held = << >> /\ body = << >>
  BY <1>1, IdleShape DEF Idle
<1>4. out # << >>
  BY <1>1 DEF NeedMore, Layout, Progress
<1>5. have' \in Nat /\ have' <= Len(out) - 1 /\ 1 <= Len(out) /\ Len(out) \in Nat
  BY <1>1, <1>4, ChainLength, AheadCounted DEF CountAhead
<1>6. Progress'
  BY <1>1, <1>4, <1>5 DEF Progress, Layout
<1> QED BY <1>1, <1>2, <1>3, <1>5, <1>6, OutsideLayout DEF Idle

LEMMA AheadKnown ==
  ASSUME Layout, pc = "loop", caller # "open", ~NeedMore
  PROVE  cursor < Len(out) \/ eof_done
<1>1. have <= Len(out) - cursor
  BY DEF Layout, Progress
<1>2. eof_done \/ ~(have < 2 * Lookahead)
  BY DEF NeedMore
<1>3. /\ Len(out) \in Nat /\ cursor \in Nat /\ have \in Nat
      /\ Lookahead \in Nat /\ Lookahead >= 1
  BY ChainLength, StreamAssumption
<1> QED BY <1>1, <1>2, <1>3

LEMMA RefillDoneLayout ==
  ASSUME Layout, RefillDone
  PROVE  Layout'
<1>1. /\ pc = "loop" /\ caller # "open" /\ ~NeedMore
      /\ pc' = IF caller = "advance" THEN "reclaim" ELSE "parse"
      /\ UNCHANGED <<allocator, out, cursor, furthest, reclaim_hold, pb, includes,
                     ooo_active, eof_done, expansions, caller, have, held, body,
                     lexed>>
  BY DEF RefillDone
<1>2. Outside
  <2>1. AllocatorInv'
    BY <1>1, StillKept DEF Layout
  <2> QED BY <1>1, <2>1 DEF Outside
<1>3. held = << >> /\ body = << >>
  BY <1>1, IdleShape DEF Idle
<1>4. cursor < Len(out) \/ eof_done
  BY <1>1, AheadKnown
<1>5. Progress'
  BY <1>1, <1>4 DEF Progress, Layout
<1>6. pc' \in {"reclaim", "parse"}
  BY <1>1
<1>7. caller' \in {"open", "lookahead", "advance"}
  BY <1>1 DEF Layout, CountersTyped
<1> QED BY <1>1, <1>2, <1>3, <1>5, <1>6, <1>7, ChainLength, OutsideLayout DEF Idle

LEMMA MoveCursorLayout ==
  ASSUME Layout, MoveCursor
  PROVE  Layout'
<1>1. /\ pc = "parse"
      /\ UNCHANGED <<allocator, out, refill_at, pb, includes, ooo_active, eof_done,
                     expansions, held, body, lexed>>
  BY DEF MoveCursor
<1>2. PICK c \in 1 .. Len(out) :
        /\ cursor' = c
        /\ IF c = refill_at \/ c = Len(out)
             THEN pc' = "loop" /\ caller' = "advance" /\ have' = CountAhead(c)
             ELSE pc' = "reclaim" /\ UNCHANGED <<caller, have>>
  BY DEF MoveCursor
<1>3. Outside
  <2>1. AllocatorInv'
    BY <1>1, StillKept DEF Layout
  <2> QED BY <1>1, <2>1 DEF Outside
<1>4. held = << >> /\ body = << >>
  BY <1>1, IdleShape DEF Idle
<1>5. Len(out) \in Nat /\ c \in Nat /\ c <= Len(out) /\ c # 0
  BY ChainLength
<1>6. caller # "open" /\ (eof_done => out # << >>)
  BY <1>1 DEF Layout, Progress
<1>7. CASE c = refill_at \/ c = Len(out)
  <2>1. pc' = "loop" /\ caller' = "advance" /\ have' = CountAhead(c)
    BY <1>2, <1>7
  <2>2. have' \in Nat /\ have' <= Len(out) - c
    BY <1>5, <2>1, AheadCounted DEF CountAhead
  <2>3. Progress'
    BY <1>1, <1>2, <1>5, <1>6, <2>1, <2>2 DEF Progress
  <2> QED BY <1>2, <1>3, <1>4, <1>5, <2>1, <2>2, <2>3, OutsideLayout DEF Idle
<1>8. CASE ~(c = refill_at \/ c = Len(out))
  <2>1. pc' = "reclaim" /\ UNCHANGED <<caller, have>> /\ c < Len(out)
    BY <1>2, <1>5, <1>8
  <2>2. have' \in Nat /\ caller' \in {"open", "lookahead", "advance"}
    BY <2>1 DEF Layout, CountersTyped
  <2>3. Progress'
    BY <1>1, <1>2, <1>5, <1>6, <2>1 DEF Progress
  <2> QED BY <1>2, <1>3, <1>4, <1>5, <2>1, <2>2, <2>3, OutsideLayout DEF Idle
<1> QED BY <1>7, <1>8

LEMMA EnsureLayout ==
  ASSUME Layout, EnsureLookahead
  PROVE  Layout'
<1>1. /\ pc = "parse" /\ pc' = "loop" /\ caller' = "lookahead"
      /\ have' = CountAhead(cursor)
      /\ UNCHANGED <<allocator, out, chain, reclaim_hold, pb, includes, ooo_active,
                     eof_done, expansions, held, body, lexed>>
  BY DEF EnsureLookahead
<1>2. Outside
  <2>1. AllocatorInv'
    BY <1>1, StillKept DEF Layout
  <2> QED BY <1>1, <2>1 DEF Outside
<1>3. held = << >> /\ body = << >>
  BY <1>1, IdleShape DEF Idle
<1>4. Len(out) \in Nat /\ cursor \in Nat /\ cursor <= Len(out) /\ cursor' = cursor
  BY <1>1, ChainLength DEF chain
<1>5. have' \in Nat /\ have' <= Len(out) - cursor
  BY <1>1, <1>4, AheadCounted DEF CountAhead
<1>6. Progress'
  BY <1>1, <1>4, <1>5 DEF Progress, Layout
<1> QED BY <1>1, <1>2, <1>3, <1>4, <1>5, <1>6, OutsideLayout DEF Idle

LEMMA ReclaimLayout ==
  ASSUME Layout, Reclaim
  PROVE  Layout' /\ Newest' = Newest
<1>1. /\ pc = "reclaim" /\ pc' = "parse"
      /\ UNCHANGED <<out, chain, reclaim_hold, pb, includes, ooo_active, eof_done,
                     expansions, caller, have, held, body, lexed>>
      /\ \/ OnCursor(out[cursor].at)
         \/ UNCHANGED allocator
  BY DEF Reclaim
<1>2. out[cursor].at \in Addr
  <2>1. cursor \in 1 .. Len(out)
    BY <1>1, ChainLength DEF Layout, Progress
  <2>2. out \in Seq(Token)
    BY DEF Layout, TokensTyped
  <2>3. out[cursor] \in Token
    BY <2>1, <2>2, ElementOfSeq
  <2> QED BY <2>3, TokenFields
<1>3. AllocatorInv' /\ Newest' = Newest
  BY <1>1, <1>2, StillKept, CursorKept DEF Layout
<1>4. Outside
  BY <1>1, <1>3 DEF Outside
<1>5. held = << >> /\ body = << >>
  BY <1>1, IdleShape DEF Idle
<1>6. Progress'
  BY <1>1 DEF Progress, Layout, chain
<1>7. /\ cursor' \in Nat /\ cursor' <= Len(out) /\ have' \in Nat
      /\ caller' \in {"open", "lookahead", "advance"}
  BY <1>1 DEF Layout, CountersTyped, chain
<1>8. Layout'
  BY <1>1, <1>4, <1>5, <1>6, <1>7, OutsideLayout DEF Idle
<1> QED BY <1>3, <1>8

LEMMA BeginCloseLayout ==
  ASSUME Layout, BeginClose
  PROVE  Layout' /\ Newest' = Newest
<1>1. /\ pc \in {"step", "directive", "parse"} /\ SetRecyclable(FALSE)
      /\ pc' = "closing"
      /\ UNCHANGED <<out, chain, reclaim_hold, pb, includes, ooo_active, eof_done,
                     expansions, caller, have, held, body, lexed>>
  BY DEF BeginClose
<1>2. AllocatorInv' /\ Newest' = Newest
  BY <1>1, ModeKept DEF Layout
<1>3. Outside
  BY <1>1, <1>2 DEF Outside
<1>4. Progress'
  BY <1>1 DEF Progress, Layout, chain
<1>5. /\ cursor' \in Nat /\ cursor' <= Len(out) /\ have' \in Nat
      /\ caller' \in {"open", "lookahead", "advance"}
  BY <1>1 DEF Layout, CountersTyped, chain
<1>6. Layout'
  BY <1>1, <1>3, <1>4, <1>5, OutsideLayout
<1> QED BY <1>2, <1>6

LEMMA NothingYet ==
  /\ << >> \in Seq(Token) /\ << >> \in Seq(Frame) /\ << >> \in Seq(OpenIf)
  /\ <<<< >>>> \in Seq(Seq(OpenGroup)) /\ Len(<<<< >>>>) = 1
  /\ Len(<< >>) = 0 /\ LastOnly(<< >>)
<1>1. << >> \in Seq(OpenGroup)
  OBVIOUS
<1>2. <<<< >>>> \in Seq(Seq(OpenGroup)) /\ Len(<<<< >>>>) = 1
  BY <1>1
<1> QED BY <1>2, LastOnlyEmpty

LEMMA CloseLayout ==
  ASSUME Layout, Close
  PROVE  Layout'
<1>1. /\ RecycReset
      /\ out' = << >> /\ cursor' = 0 /\ pb' = << >> /\ frames' = << >> /\ file' = 1
      /\ cond_incl' = << >> /\ nest' = 0 /\ branches' = <<<< >>>>
      /\ ooo_active' = FALSE /\ eof_done' = FALSE /\ expansions' = 0
      /\ pc' = "closed" /\ caller' = "open" /\ have' = 0
      /\ held' = << >> /\ body' = << >> /\ lexed' = {}
  BY DEF Close
<1>2. AllocatorInv'
  BY <1>1, ResetKept DEF Layout
<1>3. TokensTyped' /\ FilesTyped' /\ CountersTyped' /\ LastOnly(pb')
  <2>1. TokensTyped' /\ LastOnly(pb')
    BY <1>1, NothingYet DEF TokensTyped
  <2>2. Len(branches') = Len(frames') + 1 /\ branches' \in Seq(Seq(OpenGroup))
    <3>1. Len(branches') = 1 /\ Len(frames') = 0
      BY <1>1, NothingYet, Zenon
    <3>2. branches' \in Seq(Seq(OpenGroup))
      BY <1>1, NothingYet, Zenon
    <3> QED BY <3>1, <3>2
  <2>3. FilesTyped'
    <3>1. frames' \in Seq(Frame) /\ cond_incl' \in Seq(OpenIf)
      BY <1>1, NothingYet, Zenon
    <3>2. file' \in Nat \ {0} /\ nest' \in Nat
      BY <1>1
    <3> QED BY <2>2, <3>1, <3>2 DEF FilesTyped
  <2>4. CountersTyped'
    <3>1. Len(out') = 0
      BY <1>1, NothingYet, Zenon
    <3>2. lexed' \subseteq Nat
      BY <1>1
    <3>3. /\ cursor' \in Nat /\ have' \in Nat /\ expansions' \in Nat
          /\ cursor' <= Len(out')
      BY <1>1, <3>1
    <3>4. /\ eof_done' \in BOOLEAN /\ ooo_active' \in BOOLEAN
          /\ caller' \in {"open", "lookahead", "advance"}
      BY <1>1
    <3> QED BY <3>2, <3>3, <3>4 DEF CountersTyped
  <2> QED BY <2>1, <2>3, <2>4
<1>4. HeldShape' /\ BodyShape' /\ ClosedShape'
  BY <1>1, NothingYet DEF HeldShape, BodyShape, ClosedShape
<1>6. HeldLast' /\ NextLine' /\ Progress'
  BY <1>1 DEF HeldLast, NextLine, Progress
<1>5. pc' \in Points
  BY <1>1 DEF Points, Idle
<1> QED BY <1>1, <1>2, <1>3, <1>4, <1>5, <1>6 DEF Layout

LEMMA InitLayout == StreamInit => Layout
<1> SUFFICES ASSUME StreamInit PROVE Layout
  OBVIOUS
<1>1. /\ Init
      /\ out = << >> /\ cursor = 0 /\ pb = << >> /\ frames = << >> /\ file = 1
      /\ cond_incl = << >> /\ nest = 0 /\ branches = <<<< >>>>
      /\ ooo_active = FALSE /\ eof_done = FALSE /\ expansions = 0
      /\ pc = "closed" /\ caller = "open" /\ have = 0
      /\ held = << >> /\ body = << >> /\ lexed = {}
  BY DEF StreamInit
<1>2. AllocatorInv
  BY <1>1, InitAllocator
<1>3. TokensTyped /\ FilesTyped /\ CountersTyped /\ LastOnly(pb)
  <2>1. TokensTyped /\ LastOnly(pb)
    BY <1>1, NothingYet DEF TokensTyped
  <2>2. Len(branches) = Len(frames) + 1 /\ branches \in Seq(Seq(OpenGroup))
    <3>1. Len(branches) = 1 /\ Len(frames) = 0
      BY <1>1, NothingYet, Zenon
    <3>2. branches \in Seq(Seq(OpenGroup))
      BY <1>1, NothingYet, Zenon
    <3> QED BY <3>1, <3>2
  <2>3. FilesTyped
    <3>1. frames \in Seq(Frame) /\ cond_incl \in Seq(OpenIf)
      BY <1>1, NothingYet, Zenon
    <3>2. file \in Nat \ {0} /\ nest \in Nat
      BY <1>1
    <3> QED BY <2>2, <3>1, <3>2 DEF FilesTyped
  <2>4. CountersTyped
    <3>1. Len(out) = 0
      BY <1>1, NothingYet, Zenon
    <3>2. lexed \subseteq Nat
      BY <1>1
    <3>3. /\ cursor \in Nat /\ have \in Nat /\ expansions \in Nat
          /\ cursor <= Len(out)
      BY <1>1, <3>1
    <3>4. /\ eof_done \in BOOLEAN /\ ooo_active \in BOOLEAN
          /\ caller \in {"open", "lookahead", "advance"}
      BY <1>1
    <3> QED BY <3>2, <3>3, <3>4 DEF CountersTyped
  <2> QED BY <2>1, <2>3, <2>4
<1>4. HeldShape /\ BodyShape /\ ClosedShape
  BY <1>1, NothingYet DEF HeldShape, BodyShape, ClosedShape
<1>6. HeldLast /\ NextLine /\ Progress
  BY <1>1 DEF HeldLast, NextLine, Progress
<1>5. pc \in Points
  BY <1>1 DEF Points, Idle
<1> QED BY <1>2, <1>3, <1>4, <1>5, <1>6 DEF Layout

-----------------------------------------------------------------------------
(* The groups of the files stay nested.                                    *)
LEMMA NestedKept ==
  ASSUME Nested, frames' = frames, cond_incl' = cond_incl \/ Len(cond_incl') >= Boundary
  PROVE  Nested'
BY DEF Nested, Boundary

LEMMA HeadSome ==
  ASSUME NEW S, NEW s \in Seq(S), NEW n \in 1 .. Len(s)
  PROVE  s # << >>
OBVIOUS

LEMMA SavedTyped ==
  ASSUME FilesTyped, NEW n \in 1 .. Len(frames)
  PROVE  /\ frames[n] \in Frame /\ frames[n].saved_cond_incl \in Nat
         /\ frames[n].file \in Nat \ {0}
         /\ frames[n].saved_pb \in Seq(Token) /\ LastOnly(frames[n].saved_pb)
<1>1. frames[n] \in Frame
  <2>1. frames \in Seq(Frame)
    BY DEF FilesTyped
  <2> QED BY <2>1, ElementOfSeq, Zenon
<1> QED BY <1>1, FrameFields

LEMMA NestedIncluded ==
  ASSUME FilesTyped, Nested, NEW f \in Frame, f.saved_cond_incl = Len(cond_incl),
         frames' = <<f>> \o frames, cond_incl' = cond_incl
  PROVE  Nested'
<1>1. frames \in Seq(Frame) /\ Len(frames) \in Nat
  BY DEF FilesTyped
<1>2. /\ frames' # << >> /\ Head(frames') = f /\ Len(frames') = Len(frames) + 1
      /\ \A i \in 1 .. Len(frames) + 1 : frames'[i] = IF i = 1 THEN f ELSE frames[i - 1]
  BY <1>1, ConsAt, ConsParts
<1>3. Len(cond_incl) \in Nat /\ Boundary \in Nat
  BY BoundaryNat
<1>4. Boundary' <= Len(cond_incl')
  BY <1>2, <1>3 DEF Boundary
<1>5. ASSUME NEW n \in 1 .. Len(frames') - 1
      PROVE  frames'[n + 1].saved_cond_incl <= frames'[n].saved_cond_incl
  <2>1. n \in 1 .. Len(frames) /\ frames'[n + 1] = frames[n]
    BY <1>1, <1>2
  <2>2. CASE n = 1
    <3>1. Boundary = frames[1].saved_cond_incl
      BY <1>1, <2>1, <2>2, BoundaryNat, HeadSome
    <3> QED BY <1>2, <2>1, <2>2, <3>1 DEF Nested
  <2>3. CASE n # 1
    <3>1. n - 1 \in 1 .. Len(frames) - 1 /\ frames'[n] = frames[n - 1]
      BY <1>1, <1>2, <2>1, <2>3
    <3>2. frames[n - 1 + 1].saved_cond_incl <= frames[n - 1].saved_cond_incl
      BY <3>1 DEF Nested
    <3> QED BY <1>1, <2>1, <3>1, <3>2
  <2> QED BY <2>2, <2>3
<1> QED BY <1>4, <1>5 DEF Nested

LEMMA NestedPopped ==
  ASSUME FilesTyped, Nested, frames # << >>, frames' = Tail(frames),
         Len(cond_incl') = Boundary
  PROVE  Nested'
<1>1. frames \in Seq(Frame) /\ Len(frames) \in Nat
  BY DEF FilesTyped
<1>2. /\ Tail(frames) \in Seq(Frame) /\ Len(Tail(frames)) = Len(frames) - 1
      /\ Len(frames) >= 1 /\ Head(frames) = frames[1]
      /\ \A i \in 1 .. Len(frames) - 1 : Tail(frames)[i] = frames[i + 1]
  BY <1>1, TailAt
<1>3. Boundary' <= Boundary
  <2>1. CASE frames' = << >>
    BY <2>1, BoundaryNat DEF Boundary
  <2>2. CASE frames' # << >>
    <3>1. Len(frames) - 1 >= 1 /\ Head(frames') = frames'[1]
      BY <1>1, <1>2, <2>2, TailAt
    <3>2. 1 \in 1 .. Len(frames) - 1 /\ frames'[1] = frames[2]
      BY <1>1, <1>2, <3>1
    <3>3. frames[1 + 1].saved_cond_incl <= frames[1].saved_cond_incl
      BY <3>2 DEF Nested
    <3> QED BY <1>2, <2>2, <3>1, <3>2, <3>3 DEF Boundary
  <2> QED BY <2>1, <2>2
<1>4. ASSUME NEW n \in 1 .. Len(frames') - 1
      PROVE  frames'[n + 1].saved_cond_incl <= frames'[n].saved_cond_incl
  <2>1. /\ n \in 1 .. Len(frames) - 1 /\ n + 1 \in 1 .. Len(frames) - 1
    BY <1>1, <1>2
  <2>2. frames'[n + 1] = frames[n + 2] /\ frames'[n] = frames[n + 1]
    BY <1>1, <1>2, <2>1
  <2>3. frames[n + 1 + 1].saved_cond_incl <= frames[n + 1].saved_cond_incl
    BY <2>1 DEF Nested
  <2> QED BY <1>1, <2>1, <2>2, <2>3
<1> QED BY <1>3, <1>4 DEF Nested

LEMMA GroupLonger ==
  ASSUME NEW s \in Seq(OpenIf), NEW c \in {"then", "elif", "else"}, NEW b \in BOOLEAN
  PROVE  Len(<<[ctx |-> c, included |-> b]>> \o s) = Len(s) + 1
<1>1. [ctx |-> c, included |-> b] \in OpenIf
  BY DEF OpenIf
<1> QED BY <1>1, ConsAt, Zenon

LEMMA GroupShorter ==
  ASSUME FilesTyped, InGroup
  PROVE  /\ Len(Tail(cond_incl)) = Len(cond_incl) - 1
         /\ Len(Tail(cond_incl)) >= Boundary /\ Boundary \in Nat /\ Len(cond_incl) \in Nat
<1>1. /\ cond_incl # << >> /\ cond_incl \in Seq(OpenIf)
      /\ Len(cond_incl) > Boundary
  BY CondTail DEF InGroup
<1>2. Len(Tail(cond_incl)) = Len(cond_incl) - 1
  BY <1>1, TailAt
<1>3. Boundary \in Nat /\ Len(cond_incl) \in Nat
  BY BoundaryNat
<1> QED BY <1>1, <1>2, <1>3

LEMMA NestedBranches ==
  ASSUME Layout, Nested,
         IfDirective \/ ElifDirective \/ ElseDirective \/ EndifDirective
  PROVE  Nested'
<1>1. FilesTyped /\ cond_incl \in Seq(OpenIf) /\ Boundary \in Nat
      /\ Len(cond_incl) \in Nat /\ Boundary <= Len(cond_incl)
  BY BoundaryNat DEF Layout, FilesTyped, Nested
<1>2. CASE IfDirective
  <2> DEFINE b == held[1].kind = "if_true"
  <2>1. cond_incl' = <<[ctx |-> "then", included |-> b]>> \o cond_incl /\ frames' = frames
    BY <1>2 DEF IfDirective, Branch, tok
  <2>2. b \in BOOLEAN
    OBVIOUS
  <2> HIDE DEF b
  <2>3. Len(cond_incl') = Len(cond_incl) + 1
    BY <1>1, <2>1, <2>2, GroupLonger
  <2>4. Len(cond_incl') >= Boundary
    BY <1>1, <2>3
  <2> QED BY <2>1, <2>4, NestedKept
<1>3. CASE ElifDirective
  <2> DEFINE b == Head(cond_incl).included
                    \/ (~Head(cond_incl).included /\ held[1].kind = "elif_true")
  <2>1. /\ cond_incl' = <<[ctx |-> "elif", included |-> b]>> \o Tail(cond_incl)
        /\ frames' = frames /\ InGroup
    BY <1>3 DEF ElifDirective, Branch, tok
  <2>2. Tail(cond_incl) \in Seq(OpenIf) /\ Head(cond_incl).included \in BOOLEAN
    BY <1>1, <2>1, CondTail
  <2>3. b \in BOOLEAN
    BY <2>2
  <2> HIDE DEF b
  <2>4. Len(cond_incl') = Len(Tail(cond_incl)) + 1
    BY <2>1, <2>2, <2>3, GroupLonger
  <2>5. Len(cond_incl') >= Boundary
    BY <1>1, <2>1, <2>4, GroupShorter
  <2> QED BY <2>1, <2>5, NestedKept
<1>4. CASE ElseDirective
  <2>1. /\ cond_incl' = <<[ctx |-> "else", included |-> TRUE]>> \o Tail(cond_incl)
        /\ frames' = frames /\ InGroup
    BY <1>4 DEF ElseDirective, Branch
  <2>2. Tail(cond_incl) \in Seq(OpenIf)
    BY <1>1, <2>1, CondTail
  <2>4. Len(cond_incl') = Len(Tail(cond_incl)) + 1
    BY <2>1, <2>2, GroupLonger
  <2>5. Len(cond_incl') >= Boundary
    BY <1>1, <2>1, <2>4, GroupShorter
  <2> QED BY <2>1, <2>5, NestedKept
<1>5. CASE EndifDirective
  <2>1. cond_incl' = Tail(cond_incl) /\ frames' = frames /\ InGroup
    BY <1>5 DEF EndifDirective, Branch
  <2>2. Len(cond_incl') >= Boundary
    BY <1>1, <2>1, GroupShorter
  <2> QED BY <2>1, <2>2, NestedKept
<1> QED BY <1>2, <1>3, <1>4, <1>5

LEMMA NestedStep ==
  ASSUME Layout, Nested, StreamNext
  PROVE  Nested'
<1>1. FilesTyped
  BY DEF Layout
<1>2. CASE UNCHANGED <<frames, cond_incl>>
  BY <1>2, NestedKept
<1>3. CASE OuterEof
  <2>1. frames = << >> /\ frames' = frames /\ Balance
    BY <1>3 DEF OuterEof
  <2>2. Len(cond_incl') = Boundary /\ Boundary \in Nat
    BY <1>1, <2>1, BalanceTyped, BoundaryNat DEF Nested
  <2> QED BY <2>1, <2>2, NestedKept
<1>4. CASE PopFrame
  <2>1. frames # << >> /\ frames' = Tail(frames) /\ Balance
    BY <1>4 DEF PopFrame
  <2>2. Len(cond_incl') = Boundary
    BY <1>1, <2>1, BalanceTyped DEF Nested
  <2> QED BY <1>1, <2>1, <2>2, NestedPopped
<1>5. CASE Include
  <2>1. /\ frames' = <<NewFrame(pb)>> \o frames /\ cond_incl' = cond_incl
    BY <1>5 DEF Include
  <2>2. /\ pb \in Seq(Token) /\ LastOnly(pb) /\ file \in Nat \ {0}
        /\ Len(cond_incl) \in Nat
    BY BoundaryNat DEF Layout, TokensTyped, FilesTyped
  <2>3. NewFrame(pb) \in Frame /\ NewFrame(pb).saved_cond_incl = Len(cond_incl)
    BY <2>2 DEF NewFrame, Frame
  <2> QED BY <1>1, <2>1, <2>3, NestedIncluded
<1>6. CASE IfDirective \/ ElifDirective \/ ElseDirective \/ EndifDirective
  BY <1>6, NestedBranches
<1>7. CASE Close
  <2>1. frames' = << >> /\ cond_incl' = << >>
    BY <1>7 DEF Close
  <2>2. Len(frames') = 0 /\ Len(cond_incl') = 0
    BY <2>1
  <2> QED BY <2>1, <2>2 DEF Nested, Boundary
<1>8. CASE StepPull \/ DirectiveLine \/ SkipPull \/ SkipNull \/ FunctionMacro \/ SplicePull
  <2>1. UNCHANGED <<frames, cond_incl>>
    BY <1>8 DEF StepPull, DirectiveLine, SkipPull, SkipNull, FunctionMacro, SplicePull,
                PullRaw
  <2> QED BY <1>2, <2>1
<1>9. CASE Emit \/ LinePushback \/ BoundedDirective \/ Pragma \/ SkipDrop \/ SkipStop
             \/ ObjectMacro \/ Call \/ NoCall \/ ExpandToken \/ ExpandDone \/ SpliceCall
             \/ SpliceNoCall
  <2>1. UNCHANGED <<frames, cond_incl>>
    BY <1>9 DEF Emit, LinePushback, BoundedDirective, Pragma, SkipDrop, SkipStop, StopSkip,
                ObjectMacro, Call, NoCall, ExpandToken, ExpandDone, SpliceCall,
                SpliceNoCall, includes, conditionals
  <2> QED BY <1>2, <2>1
<1>10. CASE SkipWord
  <2>1. UNCHANGED <<frames, cond_incl>>
    BY <1>10 DEF SkipWord, StopSkip
  <2> QED BY <1>2, <2>1
<1>11. CASE ResetBeforeOpen \/ Open \/ OpenDone \/ RefillDone \/ MoveCursor
              \/ EnsureLookahead \/ Reclaim \/ BeginClose
  <2>1. UNCHANGED <<frames, cond_incl>>
    BY <1>11 DEF ResetBeforeOpen, Open, OpenDone, RefillDone, MoveCursor, EnsureLookahead,
                 Reclaim, BeginClose, includes, conditionals
  <2> QED BY <1>2, <2>1
<1> QED BY <1>3, <1>4, <1>5, <1>6, <1>7, <1>8, <1>9, <1>10, <1>11
        DEF StreamNext, StreamStep

-----------------------------------------------------------------------------
(* The order of tokens.  The list s, to be read while file f is the        *)
(* innermost, behind the chain o, when n is the newest number: its tokens  *)
(* are of f or of no file, and those of f are in the order in which they   *)
(* were read, and behind those of f in the chain.                          *)
Numbered(t, n) == t.id <= n /\ (t.from = 1 \/ t.from < t.id)
Precedes(t, u) == t.from = u.from /\ t.from # 0 => t.id < u.id
Of(s, f, n) ==
  \A i \in 1 .. Len(s) : s[i].from \in {0, f} /\ Numbered(s[i], n)
Increasing(s) == \A i \in 1 .. Len(s), j \in 1 .. Len(s) : i < j => Precedes(s[i], s[j])
Before(o, s) == \A i \in 1 .. Len(o), j \in 1 .. Len(s) : Precedes(o[i], s[j])
Ordered(o, n, s, f) == Of(s, f, n) /\ Increasing(s) /\ Before(o, s)
Below(s, n) == \A i \in 1 .. Len(s) : Numbered(s[i], n)

LEMMA OrderedNothing ==
  ASSUME NEW o, NEW n, NEW f
  PROVE  Ordered(o, n, << >>, f) /\ Below(<< >>, n)
BY DEF Ordered, Of, Increasing, Before, Below

LEMMA OrderedTail ==
  ASSUME NEW o \in Seq(Token), NEW n, NEW s \in Seq(Token), NEW f, s # << >>,
         Ordered(o, n, s, f)
  PROVE  Ordered(o, n, Tail(s), f)
<1> DEFINE r == Tail(s)
<1>1. /\ r \in Seq(Token) /\ Len(r) = Len(s) - 1 /\ Len(s) \in Nat
      /\ \A i \in 1 .. Len(r) : i + 1 \in 1 .. Len(s) /\ r[i] = s[i + 1]
  BY TailAt
<1> HIDE DEF r
<1>2. Of(r, f, n)
  BY <1>1 DEF Ordered, Of
<1>3. ASSUME NEW i \in 1 .. Len(r), NEW j \in 1 .. Len(r), i < j
      PROVE  Precedes(r[i], r[j])
  <2>1. i + 1 \in 1 .. Len(s) /\ j + 1 \in 1 .. Len(s) /\ i + 1 < j + 1
    BY <1>1, <1>3
  <2>2. Precedes(s[i + 1], s[j + 1])
    BY <2>1 DEF Ordered, Increasing
  <2> QED BY <1>1, <2>2
<1>4. Before(o, r)
  BY <1>1 DEF Ordered, Before
<1> QED BY <1>2, <1>3, <1>4 DEF Ordered, Increasing, r

LEMMA NumberedLater ==
  ASSUME NEW t \in Token, NEW n \in Int, NEW m \in Int, n <= m, Numbered(t, n)
  PROVE  Numbered(t, m)
BY TokenFields DEF Numbered

LEMMA OrderedLater ==
  ASSUME NEW o \in Seq(Token), NEW n \in Int, NEW m \in Int, n <= m,
         NEW s \in Seq(Token), NEW f, Ordered(o, n, s, f)
  PROVE  Ordered(o, m, s, f)
<1>1. \A i \in 1 .. Len(s) : s[i] \in Token
  BY ElementOfSeq, Zenon
<1>2. Of(s, f, m)
  BY <1>1, NumberedLater DEF Ordered, Of
<1> QED BY <1>2 DEF Ordered

LEMMA BelowLater ==
  ASSUME NEW n \in Int, NEW m \in Int, n <= m, NEW s \in Seq(Token), Below(s, n)
  PROVE  Below(s, m)
<1>1. \A i \in 1 .. Len(s) : s[i] \in Token
  BY ElementOfSeq, Zenon
<1> QED BY <1>1, NumberedLater DEF Below

LEMMA BelowLonger ==
  ASSUME NEW n \in Int, NEW s \in Seq(Token), Below(s, n), NEW t \in Token, Numbered(t, n)
  PROVE  Below(Append(s, t), n)
<1>1. /\ Len(Append(s, t)) = Len(s) + 1 /\ Len(s) \in Nat
      /\ \A i \in 1 .. Len(s) : Append(s, t)[i] = s[i]
      /\ Append(s, t)[Len(s) + 1] = t
  BY AppendAt
<1>2. \A i \in 1 .. Len(s) + 1 : i \in 1 .. Len(s) \/ i = Len(s) + 1
  BY <1>1
<1> QED BY <1>1, <1>2 DEF Below

(* A new token of the file, the newest of all.                             *)
LEMMA OrderedNew ==
  ASSUME NEW o \in Seq(Token), NEW n \in Int, NEW m \in Int, n < m,
         NEW s \in Seq(Token), NEW f, Ordered(o, n, s, f), Below(o, n),
         NEW t \in Token, t.id = m, t.from = f, f = 1 \/ f <= n
  PROVE  Ordered(o, m, Append(s, t), f)
<1> DEFINE r == Append(s, t)
<1>1. /\ r \in Seq(Token) /\ Len(r) = Len(s) + 1 /\ Len(s) \in Nat
      /\ \A i \in 1 .. Len(s) : r[i] = s[i]
      /\ r[Len(s) + 1] = t
  BY AppendAt
<1> HIDE DEF r
<1>2. \A i \in 1 .. Len(s) + 1 : i \in 1 .. Len(s) \/ i = Len(s) + 1
  BY <1>1
<1>3. Ordered(o, m, s, f)
  BY OrderedLater
<1>4. Numbered(t, m)
  BY TokenFields DEF Numbered
<1>5. Of(r, f, m)
  BY <1>1, <1>2, <1>3, <1>4 DEF Ordered, Of
<1>6. ASSUME NEW u \in Token, Numbered(u, n) PROVE Precedes(u, t)
  BY <1>6, TokenFields DEF Numbered, Precedes
<1>7. \A i \in 1 .. Len(s) : s[i] \in Token /\ Precedes(s[i], t)
  <2>1. \A i \in 1 .. Len(s) : s[i] \in Token
    BY ElementOfSeq, Zenon
  <2> QED BY <1>6, <2>1 DEF Ordered, Of
<1>8. \A i \in 1 .. Len(o) : Precedes(o[i], t)
  <2>1. \A i \in 1 .. Len(o) : o[i] \in Token
    BY ElementOfSeq, Zenon
  <2> QED BY <1>6, <2>1 DEF Below
<1>9. ASSUME NEW i \in 1 .. Len(r), NEW j \in 1 .. Len(r), i < j
      PROVE  Precedes(r[i], r[j])
  <2>1. i \in 1 .. Len(s)
    BY <1>1, <1>9
  <2>2. CASE j \in 1 .. Len(s)
    BY <1>1, <1>9, <2>1, <2>2 DEF Ordered, Increasing
  <2>3. CASE j = Len(s) + 1
    BY <1>1, <1>7, <2>1, <2>3
  <2> QED BY <1>1, <1>2, <2>2, <2>3
<1>10. Before(o, r)
  <2>1. ASSUME NEW i \in 1 .. Len(o), NEW j \in 1 .. Len(r) PROVE Precedes(o[i], r[j])
    <3>1. CASE j \in 1 .. Len(s)
      BY <1>1, <3>1 DEF Ordered, Before
    <3>2. CASE j = Len(s) + 1
      BY <1>1, <1>8, <3>2
    <3> QED BY <1>1, <1>2, <3>1, <3>2
  <2> QED BY <2>1 DEF Before
<1> QED BY <1>5, <1>9, <1>10 DEF Ordered, Increasing, r

(* Tokens of no file in front.                                             *)
LEMMA OrderedMade ==
  ASSUME NEW o \in Seq(Token), NEW n \in Int, NEW b \in Seq(Token), NEW s \in Seq(Token),
         NEW f, Ordered(o, n, s, f), Below(b, n),
         \A i \in 1 .. Len(b) : b[i].from = 0
  PROVE  Ordered(o, n, b \o s, f)
<1> DEFINE r == b \o s
<1>1. /\ r \in Seq(Token) /\ Len(r) = Len(b) + Len(s) /\ Len(b) \in Nat /\ Len(s) \in Nat
      /\ \A i \in 1 .. Len(b) + Len(s) : r[i] = IF i <= Len(b) THEN b[i] ELSE s[i - Len(b)]
  BY JoinAt
<1> HIDE DEF r
<1>2. ASSUME NEW i \in 1 .. Len(r)
      PROVE  \/ i \in 1 .. Len(b) /\ r[i] = b[i] /\ r[i].from = 0
             \/ i - Len(b) \in 1 .. Len(s) /\ r[i] = s[i - Len(b)] /\ i > Len(b)
  <2>1. CASE i <= Len(b)
    <3>1. i \in 1 .. Len(b) /\ r[i] = b[i]
      BY <1>1, <2>1
    <3> QED BY <3>1
  <2>2. CASE ~(i <= Len(b))
    BY <1>1, <2>2
  <2> QED BY <2>1, <2>2
<1>3. Of(r, f, n)
  BY <1>2 DEF Ordered, Of, Below
<1>4. ASSUME NEW i \in 1 .. Len(r), NEW j \in 1 .. Len(r), i < j
      PROVE  Precedes(r[i], r[j])
  <2>1. CASE r[i].from = 0
    BY <2>1 DEF Precedes
  <2>2. CASE r[i].from # 0 /\ r[j].from # 0
    <3>1. /\ i - Len(b) \in 1 .. Len(s) /\ r[i] = s[i - Len(b)]
          /\ j - Len(b) \in 1 .. Len(s) /\ r[j] = s[j - Len(b)]
      BY <1>2, <2>2
    <3>2. i - Len(b) < j - Len(b)
      BY <1>1, <1>4
    <3>3. Precedes(s[i - Len(b)], s[j - Len(b)])
      BY <3>1, <3>2 DEF Ordered, Increasing
    <3> QED BY <3>1, <3>3
  <2>3. CASE r[i].from # 0 /\ r[j].from = 0
    BY <2>3 DEF Precedes
  <2> QED BY <2>1, <2>2, <2>3
<1>5. ASSUME NEW i \in 1 .. Len(o), NEW j \in 1 .. Len(r) PROVE Precedes(o[i], r[j])
  <2>1. CASE r[j].from = 0
    BY <2>1 DEF Precedes
  <2>2. CASE r[j].from # 0
    <3>1. j - Len(b) \in 1 .. Len(s) /\ r[j] = s[j - Len(b)]
      BY <1>2, <2>2
    <3> QED BY <3>1 DEF Ordered, Before
  <2> QED BY <2>1, <2>2
<1> QED BY <1>3, <1>4, <1>5 DEF Ordered, Increasing, Before, r

(* The first token of a list goes to the chain, or one of another file.    *)
LEMMA OrderedEmitted ==
  ASSUME NEW o \in Seq(Token), NEW n, NEW s \in Seq(Token), s # << >>, NEW f,
         Ordered(o, n, s, f)
  PROVE  Ordered(Append(o, Head(s)), n, Tail(s), f)
<1> DEFINE r == Tail(s)
           q == Append(o, s[1])
<1>1. /\ r \in Seq(Token) /\ Len(r) = Len(s) - 1 /\ Len(s) \in Nat
      /\ \A i \in 1 .. Len(r) : i + 1 \in 1 .. Len(s) /\ r[i] = s[i + 1]
      /\ Head(s) = s[1] /\ s[1] \in Token /\ Len(s) >= 1
  BY TailAt
<1>2. /\ Len(q) = Len(o) + 1 /\ Len(o) \in Nat
      /\ \A i \in 1 .. Len(o) : q[i] = o[i]
      /\ q[Len(o) + 1] = s[1]
  BY <1>1, AppendAt
<1>3. Ordered(o, n, r, f)
  BY OrderedTail
<1> HIDE DEF r, q
<1>4. ASSUME NEW i \in 1 .. Len(q), NEW j \in 1 .. Len(r) PROVE Precedes(q[i], r[j])
  <2>1. CASE i \in 1 .. Len(o)
    BY <1>2, <1>3, <2>1 DEF Ordered, Before
  <2>2. CASE i = Len(o) + 1
    <3>1. Precedes(s[1], s[j + 1])
      <4>1. 1 \in 1 .. Len(s) /\ j + 1 \in 1 .. Len(s) /\ 1 < j + 1
        BY <1>1
      <4> QED BY <4>1 DEF Ordered, Increasing
    <3> QED BY <1>1, <1>2, <2>2, <3>1
  <2> QED BY <1>2, <2>1, <2>2
<1>5. Ordered(q, n, r, f)
  BY <1>3, <1>4 DEF Ordered, Before
<1> QED BY <1>1, <1>5 DEF r, q

LEMMA OrderedOther ==
  ASSUME NEW o \in Seq(Token), NEW n, NEW s \in Seq(Token), NEW f,
         Ordered(o, n, s, f), NEW t \in Token, t.from # f \/ t.from = 0
  PROVE  Ordered(Append(o, t), n, s, f)
<1> DEFINE q == Append(o, t)
<1>1. /\ Len(q) = Len(o) + 1 /\ Len(o) \in Nat
      /\ \A i \in 1 .. Len(o) : q[i] = o[i]
      /\ q[Len(o) + 1] = t
  BY AppendAt
<1> HIDE DEF q
<1>2. ASSUME NEW i \in 1 .. Len(q), NEW j \in 1 .. Len(s) PROVE Precedes(q[i], s[j])
  <2>1. CASE i \in 1 .. Len(o)
    BY <1>1, <2>1 DEF Ordered, Before
  <2>2. CASE i = Len(o) + 1
    <3>1. s[j].from \in {0, f}
      BY DEF Ordered, Of
    <3> QED BY <1>1, <2>2, <3>1 DEF Precedes
  <2> QED BY <1>1, <2>1, <2>2
<1> QED BY <1>2 DEF Ordered, Before, q

-----------------------------------------------------------------------------
(* What each action does to the chain, to the tokens still to be read and  *)
(* to the files.                                                           *)
Files == <<frames, file>>
Text == <<branches, lexed>>
Groups == <<cond_incl, nest>>

(* Nothing moves, but for what the parser and the loop keep.               *)
Stays ==
  /\ UNCHANGED <<out, Files, Text, Groups, eof_done>> /\ Queue' = Queue
  /\ Newest' = Newest
(* The first token is dropped, delivered, or replaced by a marker.         *)
Drops ==
  /\ UNCHANGED <<out, Files, Text>> /\ Queue # << >> /\ Queue' = Tail(Queue)
  /\ Head(Queue) = held[1] /\ Newest' = Newest /\ body' = << >>
Delivers ==
  /\ Queue # << >> /\ Head(Queue) = held[1] /\ held[1] \in Token
  /\ out' = Append(out, Head(Queue)) /\ Queue' = Tail(Queue)
  /\ UNCHANGED <<Files, Text>> /\ Newest' = Newest /\ body' = << >>
Marks(t) ==
  /\ Queue # << >> /\ Head(Queue) = held[1]
  /\ t \in Token /\ t.id = Newest' /\ Newest' > Newest /\ t.from = 0 /\ t.kind = "marker"
  /\ out' = Append(out, t) /\ Queue' = Tail(Queue)
  /\ UNCHANGED <<Files, Text>> /\ body' = << >>
Makes(t) ==
  /\ UNCHANGED <<out, Files, Text, Groups>> /\ Queue' = Queue
  /\ t \in Token /\ t.id = Newest' /\ Newest' > Newest /\ t.from = 0
  /\ body' = Append(body, t)

(* A step that holds one token.                                            *)
LEMMA HoldsOne ==
  ASSUME Layout, pc \in {"step", "directive", "skipped"}
  PROVE  /\ held \in Seq(Token) /\ pb \in Seq(Token) /\ Len(held) = 1
         /\ held[1] \in Token /\ held = <<held[1]>>
         /\ Queue # << >> /\ Head(Queue) = held[1] /\ Tail(Queue) = pb
         /\ Queue \in Seq(Token) /\ Queue[1] = held[1]
<1>1. held \in Seq(Token) /\ pb \in Seq(Token) /\ Len(held) = 1
  BY DEF Layout, TokensTyped, HeldShape
<1>2. /\ Head(held \o pb) = held[1] /\ Tail(held \o pb) = pb
      /\ (held \o pb)[1] = held[1]
      /\ held \o pb # << >> /\ held = <<held[1]>> /\ held[1] \in Token
  BY <1>1, OneHeld, Zenon
<1>3. held \o pb \in Seq(Token)
  BY <1>1, JoinAt, Zenon
<1> QED BY <1>1, <1>2, <1>3, Zenon DEF Queue

LEMMA HoldsTwo ==
  ASSUME Layout, pc \in {"line", "call", "null", "spliced"}
  PROVE  /\ held \in Seq(Token) /\ pb \in Seq(Token) /\ Len(held) = 2
         /\ held[1] \in Token /\ held[2] \in Token /\ <<held[2]>> \o pb \in Seq(Token)
         /\ Queue # << >> /\ Head(Queue) = held[1] /\ Tail(Queue) = <<held[2]>> \o pb
         /\ Queue \in Seq(Token) /\ Queue[1] = held[1]
         /\ Queue = <<held[1]>> \o (<<held[2]>> \o pb)
<1>1. held \in Seq(Token) /\ pb \in Seq(Token) /\ Len(held) = 2
  BY DEF Layout, TokensTyped, HeldShape
<1>2. /\ held[1] \in Token /\ held[2] \in Token
      /\ <<held[2]>> \o pb \in Seq(Token)
      /\ <<held[1]>> \o (<<held[2]>> \o pb) = held \o pb
      /\ Head(held \o pb) = held[1] /\ Tail(held \o pb) = <<held[2]>> \o pb
      /\ (held \o pb)[1] = held[1] /\ held \o pb # << >>
  BY <1>1, TwoHeld, ZenonT(30)
<1>3. held \o pb \in Seq(Token)
  BY <1>1, JoinAt, Zenon
<1>4. Queue = held \o pb
  BY DEF Queue
<1>5. /\ Queue # << >> /\ Head(Queue) = held[1] /\ Tail(Queue) = <<held[2]>> \o pb
      /\ Queue \in Seq(Token) /\ Queue[1] = held[1]
  BY <1>2, <1>3, <1>4, Zenon
<1> QED BY <1>1, <1>2, <1>4, <1>5, Zenon

LEMMA HoldsThree ==
  ASSUME Layout, pc = "splice"
  PROVE  /\ held \in Seq(Token) /\ pb \in Seq(Token) /\ Len(held) = 3
         /\ held[1] \in Token /\ held[2] \in Token /\ held[3] \in Token
         /\ <<held[3]>> \o pb \in Seq(Token)
         /\ <<held[1], held[2]>> \o (<<held[3]>> \o pb) = held \o pb
<1>1. held \in Seq(Token) /\ pb \in Seq(Token) /\ Len(held) = 3
  BY DEF Layout, TokensTyped, HeldShape
<1>2. held[1] \in Token /\ held[2] \in Token /\ held[3] \in Token
  BY <1>1, HeldTokens
<1>3. <<held[3]>> \o pb \in Seq(Token)
  BY <1>1, <1>2, ConsParts, Zenon
<1>4. <<held[1], held[2]>> \o (<<held[3]>> \o pb) = held \o pb
  BY <1>1, RestOfThree, Zenon
<1> QED BY <1>1, <1>2, <1>3, <1>4

LEMMA EndQueue ==
  ASSUME NEW o, NEW p \in Seq(Token), NEW x, NEW n, EndStep(o, p, x, n)
  PROVE  Queue' = p /\ body' = << >> /\ out' = o /\ pc' = "loop" /\ held' = << >>
<1>1. held' = << >> /\ pb' = p /\ body' = << >> /\ out' = o /\ pc' = "loop"
  BY DEF EndStep
<1>2. << >> \o p = p
  BY NothingHeld, Zenon
<1> QED BY <1>1, <1>2 DEF Queue

LEMMA DropsToken ==
  ASSUME Layout,
         \/ BoundedDirective \/ IfDirective \/ ElifDirective \/ ElseDirective
         \/ EndifDirective \/ SkipDrop
  PROVE  Drops
<1>1. AllocatorInv
  BY DEF Layout
<1>2. CASE BoundedDirective
  <2>1. /\ pc = "directive" /\ EndStep(out, pb, ooo_active, 0)
        /\ UNCHANGED <<allocator, includes, lexed>>
    BY <1>2 DEF BoundedDirective, Directive
  <2> QED BY <1>1, <2>1, HoldsOne, EndQueue, StillKept
          DEF Drops, Files, Text, includes, conditionals
<1>3. CASE IfDirective \/ ElifDirective \/ ElseDirective \/ EndifDirective
  <2>1. pc = "directive" /\ \E g, read : Branch(g, read)
    BY <1>3 DEF IfDirective, ElifDirective, ElseDirective, EndifDirective, Directive
  <2>2. PICK g, read : Branch(g, read)
    BY <2>1
  <2>3. UNCHANGED <<allocator, frames, file, branches, lexed>>
    BY <2>2 DEF Branch
  <2>4. CASE read
    <3>1. EndStep(out, pb, ooo_active, 0)
      BY <2>2, <2>4 DEF Branch
    <3> QED BY <1>1, <2>1, <2>3, <3>1, HoldsOne, EndQueue, StillKept DEF Drops, Files, Text
  <2>5. CASE ~read
    <3>1. held' = << >> /\ UNCHANGED <<out, pb, body>>
      BY <2>2, <2>5 DEF Branch
    <3>2. << >> \o pb = pb /\ body = << >>
      BY <2>1, NothingHeld DEF Layout, TokensTyped, BodyShape
    <3>3. Queue' = pb
      BY <3>1, <3>2 DEF Queue
    <3> QED BY <1>1, <2>1, <2>3, <3>1, <3>2, <3>3, HoldsOne, StillKept
            DEF Drops, Files, Text
  <2> QED BY <2>4, <2>5
<1>4. CASE SkipDrop
  <2>1. /\ pc = "skipped" /\ held' = << >>
        /\ UNCHANGED <<allocator, out, pb, frames, file, branches, body, lexed>>
    BY <1>4 DEF SkipDrop
  <2>2. << >> \o pb = pb /\ body = << >>
    BY <2>1, NothingHeld DEF Layout, TokensTyped, BodyShape
  <2>3. Queue' = pb
    BY <2>1, <2>2 DEF Queue
  <2> QED BY <1>1, <2>1, <2>2, <2>3, HoldsOne, StillKept DEF Drops, Files, Text
<1> QED BY <1>2, <1>3, <1>4

LEMMA DeliversToken ==
  ASSUME Layout, Emit \/ OuterEof \/ NoCall
  PROVE  Delivers
<1>1. AllocatorInv /\ out \in Seq(Token)
  BY DEF Layout, TokensTyped
<1>2. CASE Emit \/ OuterEof
  <2>1. /\ pc = "step" /\ EndStep(Append(out, held[1]), pb, ooo_active, 1)
        /\ UNCHANGED <<allocator, frames, file, branches, lexed>>
    BY <1>2 DEF Emit, OuterEof, InStep, tok, includes, conditionals
  <2>2. Queue' = pb /\ body' = << >> /\ out' = Append(out, held[1])
    BY <2>1, EndQueue, HoldsOne
  <2> QED BY <1>1, <2>1, <2>2, HoldsOne, StillKept DEF Delivers, Files, Text
<1>3. CASE NoCall
  <2>1. /\ pc = "call" /\ UpdateStreamPin(out, <<held[2]>> \o pb)
        /\ EndStep(Append(out, held[1]), <<held[2]>> \o pb, ooo_active, 1)
        /\ UNCHANGED <<frames, file, branches, lexed>>
    BY <1>3 DEF NoCall, tok, nx, includes, conditionals
  <2>2. <<held[2]>> \o pb \in Seq(Token)
    BY <2>1, HoldsTwo
  <2>3. Queue' = <<held[2]>> \o pb /\ body' = << >> /\ out' = Append(out, held[1])
    BY <2>1, <2>2, EndQueue
  <2>4. Newest' = Newest
    BY <1>1, <2>1, <2>2, PinUpdated
  <2> QED BY <1>1, <2>1, <2>3, <2>4, HoldsTwo DEF Delivers, Files, Text
<1> QED BY <1>2, <1>3

LEMMA StaysPut ==
  ASSUME Layout,
         \/ LinePushback \/ SkipStop \/ SpliceNoCall \/ ObjectMacro \/ Call \/ SpliceCall
         \/ OpenDone \/ RefillDone \/ MoveCursor \/ EnsureLookahead
  PROVE  /\ UNCHANGED <<out, Files, Text, cond_incl, eof_done>> /\ Queue' = Queue
         /\ Newest' = Newest /\ body' \in {body, << >>}
<1>1. AllocatorInv /\ out \in Seq(Token) /\ body = body
  BY DEF Layout, TokensTyped
<1>2. CASE LinePushback
  <2>1. /\ pc = "line" /\ pb' = <<held[2]>> \o pb /\ held' = <<held[1]>>
        /\ UpdateStreamPin(out, <<held[2]>> \o pb)
        /\ UNCHANGED <<out, includes, lexed, body, eof_done>>
    BY <1>2 DEF LinePushback, tok, nx
  <2>2. Newest' = Newest
    BY <1>1, <2>1, HoldsTwo, PinUpdated
  <2>3. Queue' = Queue
    BY <2>1, HoldsTwo DEF Queue
  <2> QED BY <2>1, <2>2, <2>3 DEF Files, Text, includes, conditionals
<1>3. CASE SkipStop
  <2>1. /\ pc = "skipped" /\ UpdateStreamPin(out, held \o pb)
        /\ EndStep(out, held \o pb, ooo_active, 0)
        /\ UNCHANGED <<frames, file, cond_incl, branches, lexed, eof_done>>
    BY <1>3 DEF SkipStop, StopSkip
  <2>2. held \o pb \in Seq(Token)
    BY <2>1, HoldsOne DEF Queue
  <2>3. Newest' = Newest /\ Queue' = Queue /\ out' = out /\ body' = << >>
    BY <1>1, <2>1, <2>2, PinUpdated, EndQueue DEF Queue
  <2> QED BY <2>1, <2>3 DEF Files, Text
<1>4. CASE SpliceNoCall
  <2>1. /\ pc = "splice" /\ pb' = <<held[3]>> \o pb /\ held' = <<held[1], held[2]>>
        /\ UpdateStreamPin(out, <<held[3]>> \o pb)
        /\ UNCHANGED <<out, includes, lexed, body, eof_done>>
    BY <1>4 DEF SpliceNoCall, tok, nx
  <2>2. held \in Seq(Token) /\ pb \in Seq(Token) /\ Len(held) = 3
    BY <2>1 DEF Layout, TokensTyped, HeldShape
  <2>3. /\ <<held[3]>> \o pb \in Seq(Token)
        /\ <<held[1], held[2]>> \o (<<held[3]>> \o pb) = held \o pb
    BY <2>1, HoldsThree
  <2>4. Newest' = Newest
    BY <1>1, <2>1, <2>3, PinUpdated
  <2>5. Queue' = Queue
    BY <2>1, <2>3 DEF Queue
  <2> QED BY <2>1, <2>4, <2>5 DEF Files, Text, includes, conditionals
<1>5. CASE ObjectMacro \/ Call \/ SpliceCall
  <2>1. UNCHANGED <<allocator, out, pb, includes, held, lexed, eof_done>>
        /\ body' \in {body, << >>}
    BY <1>5 DEF ObjectMacro, Call, SpliceCall
  <2> QED BY <1>1, <2>1, StillKept DEF Files, Text, Queue, includes, conditionals
<1>6. CASE OpenDone \/ RefillDone \/ MoveCursor \/ EnsureLookahead
  <2>1. UNCHANGED <<allocator, out, pb, includes, held, lexed, eof_done, body>>
    BY <1>6 DEF OpenDone, RefillDone, MoveCursor, EnsureLookahead
  <2> QED BY <1>1, <2>1, StillKept DEF Files, Text, Queue, includes, conditionals
<1> QED BY <1>2, <1>3, <1>4, <1>5, <1>6

LEMMA PullsToken ==
  ASSUME Layout,
         \/ StepPull \/ DirectiveLine \/ SkipPull \/ SkipNull \/ FunctionMacro \/ SplicePull
  PROVE  /\ UNCHANGED <<out, Files, Groups, eof_done, body>>
         /\ AllocatorInv' /\ FilesTyped'
         /\ \E t : Pulled(t)
<1>1. PICK here, then : PullRaw(here, then)
  BY DEF StepPull, DirectiveLine, SkipPull, SkipNull, FunctionMacro, SplicePull
<1> QED BY <1>1, Pull DEF Files, Groups

LEMMA MarksPragma ==
  ASSUME Layout, Pragma
  PROVE  /\ \E t : Marks(t)
         /\ AllocatorInv'
<1>1. /\ pc = "directive" /\ AllocToken
      /\ EndStep(Append(out, NewToken("marker", 0)), pb, ooo_active, 0)
      /\ UNCHANGED <<includes, lexed>>
  BY DEF Pragma, Directive
<1>2. AllocatorInv /\ "marker" \in Kinds \cup {"marker"} /\ 0 \in Nat
  BY DEF Layout
<1>3. AllocatorInv' /\ Newest' > Newest
  BY <1>1, <1>2, AllocNumbers
<1> DEFINE t == NewToken("marker", 0)
<1>4. t \in Token /\ t.id = Newest' /\ t.kind = "marker" /\ t.from = 0
  BY <1>1, <1>2, TokenMade, Zenon
<1>5. EndStep(Append(out, t), pb, ooo_active, 0)
  BY <1>1
<1> HIDE DEF t
<1>6. Queue' = pb /\ body' = << >> /\ out' = Append(out, t)
  BY <1>1, <1>5, HoldsOne, EndQueue
<1>7. out' = Append(out, t) /\ Queue' = Tail(Queue)
  BY <1>1, <1>6, HoldsOne
<1>8. Marks(t)
  BY <1>1, <1>3, <1>4, <1>6, <1>7, HoldsOne DEF Marks, Files, Text, includes, conditionals
<1> QED BY <1>3, <1>8

LEMMA MakesToken ==
  ASSUME Layout, ExpandToken
  PROVE  /\ \E t : Makes(t)
         /\ AllocatorInv'
<1>1. /\ AllocToken /\ UNCHANGED <<out, pb, includes, eof_done, held, lexed>>
  BY DEF ExpandToken
<1>2. PICK k \in RawKinds \cap {"plain", "obj", "fun", "paren"} :
        body' = Append(body, NewToken(k, 0))
  BY DEF ExpandToken
<1>3. AllocatorInv /\ k \in Kinds \cup {"marker"} /\ 0 \in Nat
  BY DEF Layout, Kinds
<1>4. AllocatorInv' /\ Newest' > Newest
  BY <1>1, <1>3, AllocNumbers
<1>5. NewToken(k, 0) \in Token /\ NewToken(k, 0).id = Newest' /\ NewToken(k, 0).from = 0
  BY <1>1, <1>3, TokenMade, Zenon
<1>6. Makes(NewToken(k, 0))
  BY <1>1, <1>2, <1>4, <1>5 DEF Makes, Files, Text, Groups, Queue, includes, conditionals
<1> QED BY <1>4, <1>6

(* The expansion takes the place of the call.                              *)
Expands ==
  /\ UNCHANGED <<out, Files, Text, Groups, eof_done>> /\ Newest' = Newest
  /\ Queue' = body \o pb /\ body' = << >>
LEMMA ExpandsCall ==
  ASSUME Layout, ExpandDone
  PROVE  Expands
<1>1. UNCHANGED <<includes, eof_done, lexed>>
  BY DEF ExpandDone
<1>2. /\ out \in Seq(Token) /\ pb \in Seq(Token) /\ body \in Seq(Token) /\ AllocatorInv
  BY DEF Layout, TokensTyped
<1>3. CASE body = << >>
  <2>1. EndStep(out, pb, ooo_active, 0) /\ UNCHANGED allocator
    BY <1>3 DEF ExpandDone
  <2>2. << >> \o pb = pb
    BY <1>2, NothingHeld, Zenon
  <2>3. Newest' = Newest
    BY <1>2, <2>1, StillKept
  <2>4. Queue' = pb /\ body' = << >> /\ out' = out
    BY <1>2, <2>1, EndQueue
  <2> QED BY <1>1, <1>3, <2>2, <2>3, <2>4
          DEF Expands, Files, Text, Groups, includes, conditionals
<1>4. CASE body # << >>
  <2>1. PICK x : EndStep(out, body \o pb, x, 0) /\ UpdateStreamPin(out, body \o pb)
    BY <1>4 DEF ExpandDone
  <2>2. body \o pb \in Seq(Token)
    BY <1>2, JoinAt, Zenon
  <2>3. Newest' = Newest
    BY <1>2, <2>1, <2>2, PinUpdated
  <2>4. Queue' = body \o pb /\ body' = << >> /\ out' = out
    BY <2>1, <2>2, EndQueue
  <2> QED BY <1>1, <2>3, <2>4
          DEF Expands, Files, Text, Groups, includes, conditionals
<1> QED BY <1>3, <1>4

(* The word after a lone #: what is read before it is dropped, or both     *)
(* tokens are pushed back.                                                 *)
LEMMA WordMoves ==
  ASSUME Layout, SkipWord
  PROVE  /\ UNCHANGED <<out, Files, Text, cond_incl, eof_done>> /\ Newest' = Newest
         /\ body' = << >>
         /\ Queue' = Queue \/ Queue' = Tail(Queue)
<1>1. pc = "null" /\ AllocatorInv /\ out \in Seq(Token) /\ body = << >>
  BY DEF SkipWord, Layout, TokensTyped, BodyShape
<1>2. PICK word : IF StopsSkip(word) THEN StopSkip
        ELSE /\ nest' = NestAfter(word)
             /\ pb' = <<held[2]>> \o pb
             /\ UpdateStreamPin(out, <<held[2]>> \o pb)
             /\ held' = << >>
             /\ pc' = "skip"
             /\ UNCHANGED <<out, chain, reclaim_hold, frames, file, cond_incl,
                            branches, ooo_active, eof_done, expansions, caller,
                            have, body, lexed>>
  BY DEF SkipWord, nx
<1>3. CASE StopsSkip(word)
  <2>1. /\ UpdateStreamPin(out, held \o pb) /\ EndStep(out, held \o pb, ooo_active, 0)
        /\ UNCHANGED <<frames, file, cond_incl, branches, lexed, eof_done>>
    BY <1>2, <1>3 DEF StopSkip
  <2>2. held \o pb \in Seq(Token)
    BY <1>1, HoldsTwo DEF Queue
  <2>3. Newest' = Newest
    BY <1>1, <2>1, <2>2, PinUpdated
  <2>4. Queue' = Queue /\ body' = << >> /\ out' = out
    BY <2>1, <2>2, EndQueue DEF Queue
  <2> QED BY <2>1, <2>3, <2>4 DEF Files, Text
<1>4. CASE ~StopsSkip(word)
  <2>1. /\ pb' = <<held[2]>> \o pb /\ held' = << >>
        /\ UpdateStreamPin(out, <<held[2]>> \o pb)
        /\ UNCHANGED <<out, frames, file, cond_incl, branches, body, lexed, eof_done>>
    BY <1>2, <1>4
  <2>2. <<held[2]>> \o pb \in Seq(Token) /\ Tail(Queue) = <<held[2]>> \o pb
    BY <1>1, HoldsTwo
  <2>3. Newest' = Newest
    BY <1>1, <2>1, <2>2, PinUpdated
  <2>4. << >> \o (<<held[2]>> \o pb) = <<held[2]>> \o pb
    BY <2>2, NothingHeld, Zenon
  <2>5. Queue' = Tail(Queue)
    BY <2>1, <2>2, <2>4 DEF Queue
  <2> QED BY <1>1, <2>1, <2>3, <2>5 DEF Files, Text
<1> QED BY <1>3, <1>4

Enters ==
  /\ out' = out /\ body' = << >> /\ Queue' = << >> /\ Newest' = Newest
  /\ frames' = <<NewFrame(pb)>> \o frames /\ NewFrame(pb) \in Frame
  /\ file' = Newest /\ file < Newest
  /\ Queue = <<held[1]>> \o pb /\ held[1].kind = "include" /\ pb # << >>
  /\ branches' = <<<< >>>> \o branches
  /\ UNCHANGED <<lexed, Groups, eof_done>>
LEMMA EntersFile ==
  ASSUME Layout, Include
  PROVE  Enters
<1>1. /\ pc = "directive" /\ held[1].kind = "include"
      /\ frames' = <<NewFrame(pb)>> \o frames /\ file' = Head(pb).id
      /\ UpdateStreamPin(out, << >>) /\ EndStep(out, << >>, ooo_active, 0)
      /\ branches' = <<<< >>>> \o branches
      /\ UNCHANGED <<cond_incl, nest, lexed, eof_done>>
  BY DEF Include, Directive, tok
<1>2. Head(pb).id = Newest /\ file < Newest /\ pb # << >>
  BY <1>1, AfterInclude DEF Barrier, Directives
<1>3. out \in Seq(Token) /\ AllocatorInv /\ << >> \in Seq(Token)
  BY DEF Layout, TokensTyped
<1>4. Newest' = Newest /\ Queue' = << >> /\ body' = << >> /\ out' = out
  BY <1>1, <1>3, PinUpdated, EndQueue
<1>5. Queue = <<held[1]>> \o pb
  BY <1>1, HoldsOne DEF Queue
<1>6. NewFrame(pb) \in Frame
  <2>1. /\ pb \in Seq(Token) /\ LastOnly(pb) /\ file \in Nat \ {0}
        /\ Len(cond_incl) \in Nat
    BY BoundaryNat DEF Layout, TokensTyped, FilesTyped
  <2> QED BY <2>1 DEF NewFrame, Frame
<1> QED BY <1>1, <1>2, <1>4, <1>5, <1>6 DEF Enters, Groups

Leaves ==
  /\ out' = out /\ body' = << >> /\ Newest' = Newest
  /\ frames # << >> /\ Queue' = Head(frames).saved_pb
  /\ frames' = Tail(frames) /\ file' = Head(frames).file
  /\ Queue = <<held[1]>> /\ held[1].kind = "eof"
  /\ branches' = Tail(branches)
  /\ UNCHANGED <<lexed, nest, eof_done>>
LEMMA LeavesFile ==
  ASSUME Layout, PopFrame
  PROVE  Leaves
<1>1. /\ pc = "step" /\ frames # << >> /\ held[1].kind = "eof"
      /\ UpdateStreamPin(out, Head(frames).saved_pb)
      /\ EndStep(out, Head(frames).saved_pb, ooo_active, 0)
      /\ frames' = Tail(frames) /\ file' = Head(frames).file
      /\ branches' = Tail(branches)
      /\ UNCHANGED <<nest, lexed, eof_done>>
  BY DEF PopFrame, InStep, tok
<1>2. out \in Seq(Token) /\ AllocatorInv /\ FilesTyped
  BY DEF Layout, TokensTyped
<1>3. Head(frames).saved_pb \in Seq(Token)
  BY <1>1, <1>2, BoundaryNat, FrameFields
<1>4. /\ Newest' = Newest /\ Queue' = Head(frames).saved_pb /\ body' = << >>
      /\ out' = out
  BY <1>1, <1>2, <1>3, PinUpdated, EndQueue
<1>5. pb = << >>
  <2>1. held # << >> /\ held[Len(held)] = held[1]
    <3>1. Len(held) = 1 /\ held \in Seq(Token) /\ 1 # 0
      BY <1>1, HoldsOne
    <3>2. held # << >>
      BY <3>1, HeldSome, Zenon
    <3> QED BY <3>1, <3>2
  <2> QED BY <1>1, <2>1 DEF Layout, HeldLast, Barrier
<1>6. Queue = <<held[1]>>
  <2>1. held = <<held[1]>> /\ held \in Seq(Token)
    BY <1>1, HoldsOne
  <2>2. held \o << >> = held
    BY <2>1, NothingHeld, Zenon
  <2> QED BY <1>5, <2>1, <2>2 DEF Queue
<1> QED BY <1>1, <1>4, <1>6 DEF Leaves

-----------------------------------------------------------------------------
(* The numbers grow along every list, and from an includer to what it      *)
(* includes.                                                               *)
InOrder ==
  /\ Below(out, Newest) /\ Below(body, Newest)
  /\ Ordered(out, Newest, Queue, file)
  /\ \A n \in 1 .. Len(frames) :
        Ordered(out, Newest, frames[n].saved_pb, frames[n].file)
  /\ file = 1 \/ file <= Newest
  /\ \A n \in 1 .. Len(frames) : frames[n].file < file
  /\ \A m, n \in 1 .. Len(frames) : m < n => frames[n].file < frames[m].file

LEMMA OrderTypes ==
  ASSUME Layout
  PROVE  /\ out \in Seq(Token) /\ body \in Seq(Token) /\ Queue \in Seq(Token)
         /\ file \in Nat \ {0} /\ Newest \in Int /\ FilesTyped
         /\ frames \in Seq(Frame) /\ Len(frames) \in Nat
<1>1. /\ out \in Seq(Token) /\ body \in Seq(Token)
      /\ held \in Seq(Token) /\ pb \in Seq(Token)
  BY DEF Layout, TokensTyped
<1>2. held \o pb \in Seq(Token)
  BY <1>1, JoinAt, Zenon
<1>3. file \in Nat \ {0} /\ Newest \in Int /\ FilesTyped /\ frames \in Seq(Frame)
  BY NewestInt DEF Layout, FilesTyped
<1>4. Len(frames) \in Nat
  BY <1>3
<1> QED BY <1>1, <1>2, <1>3, <1>4, Zenon DEF Queue

LEMMA NewestNext ==
  ASSUME AllocatorInv'
  PROVE  Newest' \in Int
<1>1. recyc_newest' \in Nat /\ newest_used' \in Nat
  BY DEF AllocatorInv, IInv, TypeOK
<1> QED BY <1>1, OneToken, Products, SMTT(30) DEF Newest

LEMMA ChainStays ==
  ASSUME Layout, InOrder, UNCHANGED <<out, Files>>, Newest' \in Int, Newest <= Newest',
         Below(body', Newest'), Ordered(out, Newest', Queue', file)
  PROVE  InOrder'
<1>1. Below(out, Newest')
  BY OrderTypes, BelowLater DEF InOrder
<1>2. ASSUME NEW n \in 1 .. Len(frames)
      PROVE  Ordered(out, Newest', frames[n].saved_pb, frames[n].file)
  BY OrderTypes, SavedTyped, OrderedLater DEF InOrder
<1>3. file = 1 \/ file <= Newest'
  BY OrderTypes DEF InOrder
<1> QED BY <1>1, <1>2, <1>3 DEF InOrder, Files

LEMMA ChainGrows ==
  ASSUME Layout, InOrder, UNCHANGED Files, Newest' \in Int, Newest <= Newest',
         NEW t \in Token, Numbered(t, Newest'), t.from \in {0, file},
         out' = Append(out, t), body' = << >>,
         Ordered(out', Newest', Queue', file)
  PROVE  InOrder'
<1>1. Below(out', Newest')
  BY OrderTypes, BelowLater, BelowLonger DEF InOrder
<1>2. ASSUME NEW n \in 1 .. Len(frames)
      PROVE  Ordered(out', Newest', frames[n].saved_pb, frames[n].file)
  <2>1. Ordered(out, Newest', frames[n].saved_pb, frames[n].file)
    BY OrderTypes, SavedTyped, OrderedLater DEF InOrder
  <2>2. t.from # frames[n].file \/ t.from = 0
    <3>1. frames[n].file < file
      BY DEF InOrder
    <3> QED BY <3>1, OrderTypes, SavedTyped
  <2> QED BY <2>1, <2>2, OrderTypes, SavedTyped, OrderedOther
<1>3. file = 1 \/ file <= Newest'
  BY OrderTypes DEF InOrder
<1>4. Below(body', Newest')
  BY OrderedNothing
<1> QED BY <1>1, <1>2, <1>3, <1>4 DEF InOrder, Files

LEMMA FirstInOrder ==
  ASSUME Layout, InOrder, Queue # << >>
  PROVE  /\ Head(Queue) \in Token /\ Numbered(Head(Queue), Newest)
         /\ Head(Queue).from \in {0, file}
<1>1. Queue \in Seq(Token)
  BY OrderTypes
<1>2. Head(Queue) = Queue[1] /\ Head(Queue) \in Token /\ Len(Queue) >= 1
      /\ Len(Queue) \in Nat
  BY <1>1, TailAt
<1>3. 1 \in 1 .. Len(Queue)
  BY <1>2
<1> QED BY <1>2, <1>3 DEF InOrder, Ordered, Of

(* The pushback list is the rest of what is to be read.                    *)
LEMMA OrderedRest ==
  ASSUME NEW o \in Seq(Token), NEW n, NEW b \in Seq(Token), NEW s \in Seq(Token), NEW f,
         Ordered(o, n, b \o s, f)
  PROVE  Ordered(o, n, s, f)
<1> DEFINE r == b \o s
<1>1. /\ r \in Seq(Token) /\ Len(r) = Len(b) + Len(s) /\ Len(b) \in Nat /\ Len(s) \in Nat
      /\ \A i \in 1 .. Len(b) + Len(s) : r[i] = IF i <= Len(b) THEN b[i] ELSE s[i - Len(b)]
  BY JoinAt
<1> HIDE DEF r
<1>2. ASSUME NEW i \in 1 .. Len(s)
      PROVE  i + Len(b) \in 1 .. Len(r) /\ r[i + Len(b)] = s[i]
  <2>1. /\ i + Len(b) \in 1 .. Len(b) + Len(s) /\ ~(i + Len(b) <= Len(b))
        /\ i + Len(b) - Len(b) = i
    BY <1>1
  <2> QED BY <1>1, <2>1
<1>3. Ordered(o, n, r, f)
  BY DEF r
<1>4. Of(s, f, n)
  BY <1>2, <1>3 DEF Ordered, Of
<1>5. ASSUME NEW i \in 1 .. Len(s), NEW j \in 1 .. Len(s), i < j
      PROVE  Precedes(s[i], s[j])
  <2>1. i + Len(b) < j + Len(b)
    BY <1>1, <1>5
  <2> QED BY <1>2, <1>3, <2>1 DEF Ordered, Increasing
<1>6. ASSUME NEW i \in 1 .. Len(o), NEW j \in 1 .. Len(s) PROVE Precedes(o[i], s[j])
  BY <1>2, <1>3 DEF Ordered, Before
<1> QED BY <1>4, <1>5, <1>6 DEF Ordered, Increasing, Before

LEMMA OrderNew ==
  ASSUME Layout, InOrder, UNCHANGED <<out, Files, body>>, AllocatorInv',
         NEW t, Pulled(t)
  PROVE  InOrder'
<1>1. Newest' \in Int /\ t \in Token
  BY NewestNext DEF Pulled
<1>2. CASE Repeated
  <2>1. Newest' = Newest /\ Queue' = Queue
    BY <1>2 DEF Repeated
  <2>2. Newest <= Newest'
    BY <2>1, OrderTypes
  <2> QED BY <1>1, <2>1, <2>2, ChainStays DEF InOrder
<1>3. CASE New(t)
  <2>1. Newest < Newest' /\ t.id = Newest' /\ t.from = file /\ Queue' = Append(Queue, t)
    BY <1>1, <1>3, OrderTypes DEF New
  <2>2. Ordered(out, Newest', Append(Queue, t), file)
    BY <1>1, <2>1, OrderTypes, OrderedNew DEF InOrder
  <2>3. Below(body', Newest') /\ Newest <= Newest'
    BY <1>1, <2>1, OrderTypes, BelowLater DEF InOrder
  <2> QED BY <1>1, <2>1, <2>2, <2>3, ChainStays
<1> QED BY <1>2, <1>3 DEF Pulled

LEMMA OrderSame ==
  ASSUME Layout, InOrder, UNCHANGED <<out, Files>>, Newest' = Newest,
         body' \in {body, << >>}, Queue' = Queue \/ (Queue # << >> /\ Queue' = Tail(Queue))
  PROVE  InOrder'
<1>1. Newest' \in Int /\ Newest <= Newest'
  BY OrderTypes
<1>2. Below(body', Newest')
  BY OrderedNothing DEF InOrder
<1>3. Ordered(out, Newest', Queue', file)
  BY OrderTypes, OrderedTail DEF InOrder
<1> QED BY <1>1, <1>2, <1>3, ChainStays

LEMMA OrderDelivers ==
  ASSUME Layout, InOrder, Delivers
  PROVE  InOrder'
<1>1. /\ Newest' = Newest /\ Newest' \in Int /\ Newest <= Newest'
      /\ Head(Queue) \in Token /\ Numbered(Head(Queue), Newest)
      /\ Head(Queue).from \in {0, file} /\ out' = Append(out, Head(Queue))
      /\ body' = << >> /\ UNCHANGED Files /\ Queue' = Tail(Queue) /\ Queue # << >>
  BY OrderTypes, FirstInOrder DEF Delivers
<1>2. Ordered(Append(out, Head(Queue)), Newest, Tail(Queue), file)
  BY <1>1, OrderTypes, OrderedEmitted DEF InOrder
<1>3. Ordered(out', Newest', Queue', file)
  BY <1>1, <1>2
<1> QED BY <1>1, <1>3, ChainGrows

LEMMA OrderMarks ==
  ASSUME Layout, InOrder, AllocatorInv', NEW t, Marks(t)
  PROVE  InOrder'
<1>1. /\ t \in Token /\ t.id = Newest' /\ t.from = 0 /\ Newest < Newest'
      /\ out' = Append(out, t) /\ Queue' = Tail(Queue) /\ Queue # << >>
      /\ UNCHANGED Files /\ body' = << >> /\ Newest' \in Int
  BY OrderTypes, NewestNext DEF Marks
<1>2. Numbered(t, Newest')
  BY <1>1, TokenFields DEF Numbered
<1>3. Ordered(out, Newest', Tail(Queue), file) /\ Tail(Queue) \in Seq(Token)
  <2>1. Ordered(out, Newest, Tail(Queue), file) /\ Tail(Queue) \in Seq(Token)
    BY <1>1, OrderTypes, OrderedTail, TailAt DEF InOrder
  <2>2. Newest <= Newest'
    BY <1>1, OrderTypes
  <2> QED BY <1>1, <2>1, <2>2, OrderTypes, OrderedLater
<1>4. Ordered(out', Newest', Queue', file)
  BY <1>1, <1>3, OrderTypes, OrderedOther
<1>5. Newest <= Newest'
  BY <1>1, OrderTypes
<1> QED BY <1>1, <1>2, <1>4, <1>5, ChainGrows

LEMMA OrderMakes ==
  ASSUME Layout, InOrder, AllocatorInv', NEW t, Makes(t)
  PROVE  InOrder'
<1>1. /\ t \in Token /\ t.id = Newest' /\ t.from = 0 /\ Newest < Newest'
      /\ UNCHANGED <<out, Files>> /\ Queue' = Queue /\ body' = Append(body, t)
      /\ Newest' \in Int /\ Newest <= Newest'
  BY OrderTypes, NewestNext DEF Makes
<1>2. Numbered(t, Newest')
  BY <1>1, TokenFields DEF Numbered
<1>3. Below(body, Newest')
  BY <1>1, OrderTypes, BelowLater DEF InOrder
<1>4. Below(body', Newest')
  BY <1>1, <1>2, <1>3, OrderTypes, BelowLonger
<1>5. Ordered(out, Newest', Queue', file)
  BY <1>1, OrderTypes, OrderedLater DEF InOrder
<1> QED BY <1>1, <1>4, <1>5, ChainStays

LEMMA OrderExpands ==
  ASSUME Layout, InOrder, Expands
  PROVE  InOrder'
<1>1. /\ UNCHANGED <<out, Files>> /\ Newest' = Newest /\ Queue' = body \o pb
      /\ body' = << >> /\ Newest' \in Int /\ Newest <= Newest'
  BY OrderTypes DEF Expands
<1>2. held \in Seq(Token) /\ pb \in Seq(Token)
  BY DEF Layout, TokensTyped
<1>3. Ordered(out, Newest, pb, file)
  BY <1>2, OrderTypes, OrderedRest DEF InOrder, Queue
<1>4. \A i \in 1 .. Len(body) : body[i].from = 0
  BY DEF Layout, BodyShape, Made
<1>5. Ordered(out, Newest, body \o pb, file)
  BY <1>2, <1>3, <1>4, OrderTypes, OrderedMade DEF InOrder
<1>6. Below(body', Newest') /\ Ordered(out, Newest', Queue', file)
  BY <1>1, <1>5, OrderedNothing
<1> QED BY <1>1, <1>6, ChainStays

LEMMA OrderEnters ==
  ASSUME Layout, InOrder, Enters
  PROVE  InOrder'
<1>1. /\ out' = out /\ body' = << >> /\ Queue' = << >> /\ Newest' = Newest
      /\ frames' = <<NewFrame(pb)>> \o frames /\ NewFrame(pb) \in Frame
      /\ file' = Newest /\ file < Newest
  BY DEF Enters
<1>2. /\ frames \in Seq(Frame) /\ Len(frames) \in Nat /\ file \in Nat /\ Newest \in Int
      /\ out \in Seq(Token) /\ FilesTyped
  BY OrderTypes
<1>3. /\ Len(frames') = Len(frames) + 1
      /\ \A i \in 1 .. Len(frames) + 1 :
            frames'[i] = IF i = 1 THEN NewFrame(pb) ELSE frames[i - 1]
  BY <1>1, <1>2, ConsAt
<1>4. ASSUME NEW i \in 1 .. Len(frames')
      PROVE  \/ i = 1 /\ frames'[i] = NewFrame(pb)
             \/ i # 1 /\ i - 1 \in 1 .. Len(frames) /\ frames'[i] = frames[i - 1]
  BY <1>2, <1>3
<1>5. NewFrame(pb).saved_pb = pb /\ NewFrame(pb).file = file
  BY DEF NewFrame
<1>6. Ordered(out, Newest, pb, file)
  <2>1. held \in Seq(Token) /\ pb \in Seq(Token)
    BY DEF Layout, TokensTyped
  <2> QED BY <1>2, <2>1, OrderedRest DEF InOrder, Queue
<1>7. ASSUME NEW n \in 1 .. Len(frames')
      PROVE  /\ Ordered(out', Newest', frames'[n].saved_pb, frames'[n].file)
             /\ frames'[n].file < file'
  <2>1. CASE n = 1
    BY <1>1, <1>4, <1>5, <1>6, <2>1
  <2>2. CASE n # 1
    <3>1. n - 1 \in 1 .. Len(frames) /\ frames'[n] = frames[n - 1]
      BY <1>4, <2>2
    <3>2. Ordered(out, Newest, frames[n - 1].saved_pb, frames[n - 1].file)
      BY <3>1 DEF InOrder
    <3>3. frames[n - 1].file < file /\ frames[n - 1].file \in Nat
      BY <1>2, <3>1, SavedTyped DEF InOrder
    <3> QED BY <1>1, <1>2, <3>1, <3>2, <3>3
  <2> QED BY <2>1, <2>2
<1>8. ASSUME NEW m \in 1 .. Len(frames'), NEW n \in 1 .. Len(frames'), m < n
      PROVE  frames'[n].file < frames'[m].file
  <2>1. n - 1 \in 1 .. Len(frames) /\ frames'[n] = frames[n - 1]
    BY <1>2, <1>3, <1>4, <1>8
  <2>2. CASE m = 1
    BY <1>4, <1>5, <2>1, <2>2 DEF InOrder
  <2>3. CASE m # 1
    <3>1. m - 1 \in 1 .. Len(frames) /\ frames'[m] = frames[m - 1] /\ m - 1 < n - 1
      BY <1>2, <1>3, <1>4, <1>8, <2>3
    <3> QED BY <2>1, <3>1 DEF InOrder
  <2> QED BY <2>2, <2>3
<1>9. /\ Below(out', Newest') /\ Below(body', Newest')
      /\ Ordered(out', Newest', Queue', file')
  BY <1>1, OrderedNothing DEF InOrder
<1>10. file' <= Newest'
  BY <1>1, <1>2
<1> QED BY <1>7, <1>8, <1>9, <1>10 DEF InOrder

LEMMA OrderLeaves ==
  ASSUME Layout, InOrder, Leaves
  PROVE  InOrder'
<1>1. /\ out' = out /\ body' = << >> /\ Newest' = Newest
      /\ frames # << >> /\ Queue' = Head(frames).saved_pb
      /\ frames' = Tail(frames) /\ file' = Head(frames).file
  BY DEF Leaves
<1>2. /\ frames \in Seq(Frame) /\ Len(frames) \in Nat /\ file \in Nat /\ Newest \in Int
      /\ FilesTyped /\ file \in Nat \ {0}
  BY OrderTypes
<1>3. /\ Len(frames') = Len(frames) - 1 /\ Head(frames) = frames[1] /\ Len(frames) >= 1
      /\ \A i \in 1 .. Len(frames) - 1 : frames'[i] = frames[i + 1]
  BY <1>1, <1>2, TailAt
<1>4. 1 \in 1 .. Len(frames)
  BY <1>2, <1>3
<1>5. /\ Ordered(out, Newest, frames[1].saved_pb, frames[1].file)
      /\ frames[1].file < file /\ frames[1].file \in Nat \ {0}
  BY <1>2, <1>4, SavedTyped DEF InOrder
<1>6. file' <= Newest'
  <2>1. file # 1
    BY <1>2, <1>5
  <2>2. file <= Newest
    BY <2>1 DEF InOrder
  <2> QED BY <1>1, <1>2, <1>3, <1>5, <2>2
<1>7. ASSUME NEW i \in 1 .. Len(frames')
      PROVE  i + 1 \in 1 .. Len(frames) /\ frames'[i] = frames[i + 1] /\ 1 < i + 1
  BY <1>2, <1>3
<1>8. ASSUME NEW n \in 1 .. Len(frames')
      PROVE  /\ Ordered(out', Newest', frames'[n].saved_pb, frames'[n].file)
             /\ frames'[n].file < file'
  <2>1. n + 1 \in 1 .. Len(frames) /\ frames'[n] = frames[n + 1] /\ 1 < n + 1
    BY <1>7
  <2>2. Ordered(out, Newest, frames[n + 1].saved_pb, frames[n + 1].file)
    BY <2>1 DEF InOrder
  <2>3. frames[n + 1].file < frames[1].file
    BY <1>4, <2>1 DEF InOrder
  <2> QED BY <1>1, <1>3, <2>1, <2>2, <2>3
<1>9. ASSUME NEW m \in 1 .. Len(frames'), NEW n \in 1 .. Len(frames'), m < n
      PROVE  frames'[n].file < frames'[m].file
  <2>1. /\ m + 1 \in 1 .. Len(frames) /\ frames'[m] = frames[m + 1]
        /\ n + 1 \in 1 .. Len(frames) /\ frames'[n] = frames[n + 1] /\ m + 1 < n + 1
    BY <1>7, <1>9
  <2> QED BY <2>1 DEF InOrder
<1>10. /\ Below(out', Newest') /\ Below(body', Newest')
       /\ Ordered(out', Newest', Queue', file')
  BY <1>1, <1>3, <1>5, OrderedNothing DEF InOrder
<1> QED BY <1>6, <1>8, <1>9, <1>10 DEF InOrder

LEMMA OrderNothing ==
  ASSUME out = << >>, body = << >>, held = << >>, pb = << >>, frames = << >>, file = 1
  PROVE  InOrder
<1>1. Queue = << >> /\ Len(frames) = 0
  BY NothingHeld, EmptySeq DEF Queue
<1> QED BY <1>1, OrderedNothing DEF InOrder

LEMMA OrderNothingNext ==
  ASSUME out' = << >>, body' = << >>, held' = << >>, pb' = << >>, frames' = << >>,
         file' = 1
  PROVE  InOrder'
<1>1. Queue' = << >> /\ Len(frames') = 0
  BY NothingHeld, EmptySeq DEF Queue
<1> QED BY <1>1, OrderedNothing DEF InOrder

LEMMA OrderStep ==
  ASSUME Layout, InOrder, Nested, StreamNext
  PROVE  InOrder'
<1>1. CASE \/ StepPull \/ DirectiveLine \/ SkipPull \/ SkipNull \/ FunctionMacro
           \/ SplicePull
  BY <1>1, PullsToken, OrderNew DEF Files
<1>2. CASE \/ BoundedDirective \/ IfDirective \/ ElifDirective \/ ElseDirective
           \/ EndifDirective \/ SkipDrop
  BY <1>2, DropsToken, OrderSame DEF Drops
<1>3. CASE Emit \/ OuterEof \/ NoCall
  BY <1>3, DeliversToken, OrderDelivers
<1>4. CASE \/ LinePushback \/ SkipStop \/ SpliceNoCall \/ ObjectMacro \/ Call
           \/ SpliceCall \/ OpenDone \/ RefillDone \/ MoveCursor \/ EnsureLookahead
  BY <1>4, StaysPut, OrderSame
<1>5. CASE Pragma
  BY <1>5, MarksPragma, OrderMarks
<1>6. CASE ExpandToken
  BY <1>6, MakesToken, OrderMakes
<1>7. CASE ExpandDone
  BY <1>7, ExpandsCall, OrderExpands
<1>8. CASE SkipWord
  <2>1. Queue # << >>
    BY <1>8, HoldsTwo DEF SkipWord
  <2> QED BY <1>8, <2>1, WordMoves, OrderSame
<1>9. CASE Include
  BY <1>9, EntersFile, OrderEnters
<1>10. CASE PopFrame
  BY <1>10, LeavesFile, OrderLeaves
<1>11. CASE ResetBeforeOpen \/ Open
  <2>1. /\ pc \in {"closed", "reset"}
        /\ UNCHANGED <<out, body, held, pb, includes>>
    BY <1>11 DEF ResetBeforeOpen, Open
  <2>2. /\ out = << >> /\ body = << >> /\ held = << >> /\ pb = << >>
        /\ frames = << >> /\ file = 1
    BY <2>1, IdleShape DEF Layout, ClosedShape, Idle
  <2> QED BY <2>1, <2>2, OrderNothingNext DEF includes
<1>12. CASE Reclaim \/ BeginClose
  <2>1. Newest' = Newest
    BY <1>12, ReclaimLayout, BeginCloseLayout
  <2>2. UNCHANGED <<out, Files, body, held, pb>>
    BY <1>12 DEF Reclaim, BeginClose, Files, includes
  <2> QED BY <2>1, <2>2, OrderSame DEF Queue
<1>13. CASE Close
  BY <1>13, OrderNothingNext DEF Close
<1> QED BY <1>1, <1>2, <1>3, <1>4, <1>5, <1>6, <1>7, <1>8, <1>9, <1>10, <1>11, <1>12,
           <1>13
        DEF StreamNext, StreamStep

-----------------------------------------------------------------------------
(* The inductive invariant of the stream.                                  *)
StreamInv == Layout /\ Nested /\ InOrder

LEMMA LayoutStep ==
  ASSUME StreamInv, StreamNext
  PROVE  Layout'
<1>1. Layout /\ Nested
  BY DEF StreamInv
<1>2. CASE DirectiveLine
  <2>1. pc = "step"
    BY <1>2 DEF DirectiveLine, InStep
  <2>2. held[1].id <= Newest
    BY <1>1, <2>1, HoldsOne, FirstInOrder DEF StreamInv, Numbered
  <2> QED BY <1>1, <1>2, <2>2, DirectiveLineLayout DEF StreamInv, InOrder
<1>3. CASE StepPull \/ SkipPull \/ SkipNull \/ FunctionMacro \/ SplicePull
  BY <1>1, <1>3, StepPullLayout, SkipPullLayout, SkipNullLayout, FunctionMacroLayout,
     SplicePullLayout
<1>4. CASE Emit \/ OuterEof \/ PopFrame \/ LinePushback \/ BoundedDirective \/ Pragma
             \/ Include
  BY <1>1, <1>4, EmitLayout, OuterEofLayout, PopFrameLayout, LinePushbackLayout,
     BoundedLayout, PragmaLayout, IncludeLayout
<1>5. CASE IfDirective \/ ElifDirective \/ ElseDirective \/ EndifDirective
             \/ SkipDrop \/ SkipStop \/ SkipWord
  BY <1>1, <1>5, IfLayout, ElifLayout, ElseLayout, EndifLayout, SkipDropLayout,
     SkipStopLayout, SkipWordLayout
<1>6. CASE ObjectMacro \/ Call \/ NoCall \/ ExpandToken \/ ExpandDone \/ SpliceCall
             \/ SpliceNoCall
  BY <1>1, <1>6, ObjectMacroLayout, CallLayout, NoCallLayout, ExpandTokenLayout,
     ExpandDoneLayout, SpliceCallLayout, SpliceNoCallLayout
<1>7. CASE ResetBeforeOpen \/ Open \/ OpenDone \/ RefillDone \/ MoveCursor
             \/ EnsureLookahead \/ Reclaim \/ BeginClose \/ Close
  BY <1>1, <1>7, ResetLayout, OpenLayout, OpenDoneLayout, RefillDoneLayout,
     MoveCursorLayout, EnsureLayout, ReclaimLayout, BeginCloseLayout, CloseLayout
<1> QED BY <1>2, <1>3, <1>4, <1>5, <1>6, <1>7 DEF StreamNext, StreamStep

LEMMA StreamInvInit == StreamInit => StreamInv
<1> SUFFICES ASSUME StreamInit PROVE StreamInv
  OBVIOUS
<1>1. Layout
  BY InitLayout
<1>2. /\ out = << >> /\ body = << >> /\ held = << >> /\ pb = << >>
      /\ frames = << >> /\ file = 1 /\ cond_incl = << >>
  BY DEF StreamInit
<1>3. InOrder
  BY <1>2, OrderNothing
<1>4. Nested
  <2>1. Len(frames) = 0 /\ Len(cond_incl) = 0
    BY <1>2
  <2> QED BY <1>2, <2>1 DEF Nested, Boundary
<1> QED BY <1>1, <1>3, <1>4 DEF StreamInv

LEMMA StreamStill ==
  ASSUME StreamInv, UNCHANGED <<vars, stream>>
  PROVE  StreamInv'
<1>1. UNCHANGED <<vars, out, cursor, furthest, refill_at, reclaim_hold, pb, frames, file,
                  cond_incl, nest, branches, ooo_active, eof_done, expansions, pc, caller,
                  have, held, body, lexed>>
  BY DEF stream, chain, includes, conditionals
<1>2. AllocatorInv' /\ Newest' = Newest
  <2>1. UNCHANGED allocator
    BY <1>1 DEF vars, allocator
  <2> QED BY <2>1, StillKept DEF StreamInv, Layout
<1>3. FilesTyped' /\ TokensTyped' /\ CountersTyped'
  BY <1>1 DEF StreamInv, Layout, FilesTyped, TokensTyped, CountersTyped
<1>4. HeldShape' /\ BodyShape' /\ ClosedShape'
  BY <1>1 DEF StreamInv, Layout, HeldShape, BodyShape, ClosedShape
<1>5. HeldLast' /\ NextLine' /\ Progress' /\ LastOnly(pb') /\ pc' \in Points
  BY <1>1, <1>2 DEF StreamInv, Layout, HeldLast, NextLine, Progress
<1>6. Layout'
  BY <1>1, <1>2, <1>3, <1>4, <1>5 DEF Layout
<1>7. Nested' /\ InOrder'
  BY <1>1, <1>2 DEF StreamInv, Nested, Boundary, InOrder, Queue
<1> QED BY <1>6, <1>7 DEF StreamInv

LEMMA StreamInvStep ==
  ASSUME StreamInv, [StreamNext]_<<vars, stream>>
  PROVE  StreamInv'
<1>1. CASE StreamNext
  <2>1. Layout' /\ Nested' /\ InOrder'
    BY <1>1, LayoutStep, NestedStep, OrderStep DEF StreamInv
  <2> QED BY <2>1 DEF StreamInv
<1>2. CASE UNCHANGED <<vars, stream>>
  BY <1>2, StreamStill
<1> QED BY <1>1, <1>2

(* In every reachable state the chain is in the order of the source: of two *)
(* tokens of one file the one allocated first is delivered first, each token *)
(* delivered precedes each one of its file still to be read, those pushed   *)
(* back and those that an #include has put away among them; what is being   *)
(* read is of the innermost file; and no file is entered with groups open   *)
(* that are not its includer's.                                             *)
THEOREM StreamAlwaysOrdered == StreamSpec => []StreamInv
<1>1. StreamInit => StreamInv
  BY StreamInvInit
<1>2. StreamInv /\ [StreamNext]_<<vars, stream>> => StreamInv'
  BY StreamInvStep
<1> QED BY <1>1, <1>2, PTL DEF StreamSpec

-----------------------------------------------------------------------------
(* The window.  Without a pin of the stream a release goes up to the       *)
(* margin of the cursor's chunk.                                           *)
LEMMA FloorWithoutPins ==
  ASSUME IInv, recyc_pin = NoAddr, recyc_stream_pin = NoAddr, NEW c \in Live
  PROVE  Floor(c) >= c - Margin
<1>1. ChunkOf(NoAddr) = 0
  BY AddrAssumption DEF IInv, TypeOK, ChunkOf
<1>2. Floor(c) = MarginFloor(c)
  BY <1>1 DEF Floor, PinFloor
<1>3. recyc_oldest \in Nat /\ c \in Nat
  BY LiveNat DEF IInv, TypeOK
<1> QED BY <1>2, <1>3, MarginAssumption DEF MarginFloor, Larger

LEMMA WindowStep ==
  ASSUME StreamInv, StreamNext, pc = "reclaim", MayReclaim,
         CursorCrosses(out[cursor].at), recyc_stream_pin = NoAddr,
         NEW c \in Live'
  PROVE  c >= recyc_cursor_chunk' - Margin
<1> DEFINE p == out[cursor].at
<1>1. Reclaim
  BY DEF StreamNext, StreamStep, ResetBeforeOpen, Open, OpenDone, RefillDone, StepPull,
         Emit, OuterEof, PopFrame, DirectiveLine, LinePushback, BoundedDirective, Pragma,
         Include, IfDirective, ElifDirective, ElseDirective, EndifDirective, SkipPull,
         SkipDrop, SkipStop, SkipNull, SkipWord, ObjectMacro, FunctionMacro, Call, NoCall,
         ExpandToken, ExpandDone, SplicePull, SpliceCall, SpliceNoCall, MoveCursor,
         EnsureLookahead, BeginClose, Close, InStep, Directive, PullRaw
<1>2. OnCursor(p)
  BY <1>1 DEF Reclaim
<1>3. IInv /\ recyc_pin = NoAddr
  BY DEF StreamInv, Layout, AllocatorInv, ChunksOfTokens
<1>4. ChunkOf(p) \in Live
  BY ChunkOfLive DEF CursorCrosses
<1>5. Floor(ChunkOf(p)) >= ChunkOf(p) - Margin
  BY <1>3, <1>4, FloorWithoutPins
<1>6. /\ recyc_cursor_chunk' = ChunkOf(p) /\ recyc_oldest' = Floor(ChunkOf(p))
      /\ recyc_newest' = recyc_newest
  BY <1>2 DEF OnCursor
<1>7. c \in recyc_oldest' .. recyc_newest'
  BY DEF Live
<1>8. /\ ChunkOf(p) \in Nat /\ Floor(ChunkOf(p)) \in Nat /\ recyc_newest \in Nat
  BY <1>3, <1>4, LiveNat, FloorLive DEF IInv, TypeOK
<1> HIDE DEF p
<1> QED BY <1>5, <1>6, <1>7, <1>8, MarginAssumption

(* A release that nothing forbids leaves at most Margin chunks behind the  *)
(* cursor's, whatever was read, expanded and pushed back before: the       *)
(* memory of a stream does not grow with its length.                       *)
THEOREM WindowAlwaysBounded == StreamSpec => WindowBounded
<1>1. /\ StreamInv
      /\ [StreamNext]_<<vars, stream>>
      => [pc = "reclaim" /\ MayReclaim /\ CursorCrosses(out[cursor].at)
            /\ recyc_stream_pin = NoAddr
            => \A c \in Live' : c >= recyc_cursor_chunk' - Margin]_<<vars, stream>>
  BY WindowStep
<1> QED BY <1>1, StreamAlwaysOrdered, PTL DEF StreamSpec, WindowBounded

-----------------------------------------------------------------------------
(* The promise.  The state of OrderedText, as the stream shows it.         *)
FileStack == <<file>> \o [i \in DOMAIN frames |-> frames[i].file]
Turn ==
  IF pc \in {"closed", "reset"} THEN "closed"
  ELSE IF pc = "parse" THEN "reader" ELSE "producer"

LEMMA Includers ==
  ASSUME NEW s \in Seq(Frame)
  PROVE  /\ [i \in DOMAIN s |-> s[i].file] \in Seq(Nat)
         /\ Len([i \in DOMAIN s |-> s[i].file]) = Len(s)
         /\ \A i \in 1 .. Len(s) : [j \in DOMAIN s |-> s[j].file][i] = s[i].file
         /\ Len(s) \in Nat
<1> DEFINE g == [i \in DOMAIN s |-> s[i].file]
<1>1. DOMAIN s = 1 .. Len(s) /\ Len(s) \in Nat
  OBVIOUS
<1>2. \A i \in 1 .. Len(s) : s[i].file \in Nat
  <2>1. \A i \in 1 .. Len(s) : s[i] \in Frame
    BY ElementOfSeq, Zenon
  <2> QED BY <2>1, FrameFields
<1>3. g \in [1 .. Len(s) -> Nat]
  BY <1>1, <1>2
<1>4. g \in Seq(Nat) /\ Len(g) = Len(s)
  BY <1>1, <1>3
<1> QED BY <1>1, <1>4

LEMMA StackAt ==
  ASSUME FilesTyped
  PROVE  /\ FileStack \in Seq(Nat) /\ Len(FileStack) = Len(frames) + 1
         /\ Len(frames) \in Nat /\ FileStack # << >>
         /\ Head(FileStack) = file
         /\ \A i \in 1 .. Len(frames) + 1 :
               FileStack[i] = IF i = 1 THEN file ELSE frames[i - 1].file
<1> DEFINE g == [i \in DOMAIN frames |-> frames[i].file]
<1>1. /\ g \in Seq(Nat) /\ Len(g) = Len(frames) /\ Len(frames) \in Nat
      /\ \A i \in 1 .. Len(frames) : g[i] = frames[i].file
  BY Includers DEF FilesTyped
<1>2. file \in Nat
  BY DEF FilesTyped
<1> HIDE DEF g
<1>3. /\ <<file>> \o g \in Seq(Nat) /\ <<file>> \o g # << >>
      /\ Len(<<file>> \o g) = Len(g) + 1
      /\ \A i \in 1 .. Len(g) + 1 : (<<file>> \o g)[i] = IF i = 1 THEN file ELSE g[i - 1]
  BY <1>1, <1>2, ConsAt
<1>4. Head(<<file>> \o g) = file
  BY <1>1, <1>2, ConsParts
<1>5. FileStack = <<file>> \o g
  BY DEF FileStack, g
<1>6. \A i \in 1 .. Len(frames) + 1 : i = 1 \/ i - 1 \in 1 .. Len(frames)
  BY <1>1
<1> QED BY <1>1, <1>3, <1>4, <1>5, <1>6

LEMMA StackNext ==
  ASSUME FilesTyped'
  PROVE  /\ FileStack' \in Seq(Nat) /\ Len(FileStack') = Len(frames') + 1
         /\ Len(frames') \in Nat /\ FileStack' # << >>
         /\ Head(FileStack') = file'
         /\ \A i \in 1 .. Len(frames') + 1 :
               FileStack'[i] = IF i = 1 THEN file' ELSE frames'[i - 1].file
<1> DEFINE g == [i \in DOMAIN frames' |-> frames'[i].file]
<1>1. /\ g \in Seq(Nat) /\ Len(g) = Len(frames') /\ Len(frames') \in Nat
      /\ \A i \in 1 .. Len(frames') : g[i] = frames'[i].file
  BY Includers DEF FilesTyped
<1>2. file' \in Nat
  BY DEF FilesTyped
<1> HIDE DEF g
<1>3. /\ <<file'>> \o g \in Seq(Nat) /\ <<file'>> \o g # << >>
      /\ Len(<<file'>> \o g) = Len(g) + 1
      /\ \A i \in 1 .. Len(g) + 1 : (<<file'>> \o g)[i] = IF i = 1 THEN file' ELSE g[i - 1]
  BY <1>1, <1>2, ConsAt
<1>4. Head(<<file'>> \o g) = file'
  BY <1>1, <1>2, ConsParts
<1>5. FileStack' = <<file'>> \o g
  BY DEF FileStack, g
<1>6. \A i \in 1 .. Len(frames') + 1 : i = 1 \/ i - 1 \in 1 .. Len(frames')
  BY <1>1
<1> QED BY <1>1, <1>3, <1>4, <1>5, <1>6

LEMMA StackStays ==
  ASSUME UNCHANGED Files
  PROVE  FileStack' = FileStack
BY DEF FileStack, Files

LEMMA Stutters ==
  ASSUME UNCHANGED <<out, cursor, Files, eof_done>>, Turn' = Turn
  PROVE  UNCHANGED Promise!state
<1>1. FileStack' = FileStack
  BY StackStays
<1> QED BY <1>1 DEF Promise!state, FileStack, Turn

(* A token that goes to the chain.                                         *)
LEMMA ChainLonger ==
  ASSUME NEW s \in Seq(Token), NEW t \in Token
  PROVE  /\ Len(Append(s, t)) = Len(s) + 1 /\ SubSeq(Append(s, t), 1, Len(s)) = s
         /\ Append(s, t)[Len(Append(s, t))] = t
<1>1. /\ Append(s, t) \in Seq(Token) /\ Len(Append(s, t)) = Len(s) + 1
      /\ \A i \in 1 .. Len(s) : Append(s, t)[i] = s[i]
      /\ Append(s, t)[Len(s) + 1] = t
  BY AppendAt
<1>2. SubSeq(Append(s, t), 1, Len(s)) = s
  OBVIOUS
<1> QED BY <1>1, <1>2

LEMMA Produces ==
  ASSUME Layout, InOrder, NEW t \in Token, out' = Append(out, t), pc \in Steps,
         pc' = "loop", UNCHANGED <<Files, cursor>>,
         \/ t.from = 0
         \/ Queue # << >> /\ t = Head(Queue),
         eof_done' = (t.kind = "eof"), t.kind = "eof" => frames = << >>
  PROVE  Promise!Produce
<1>1. /\ out \in Seq(Token) /\ FilesTyped /\ eof_done = FALSE
  BY OrderTypes, RunningSteps
<1>2. /\ Len(out') = Len(out) + 1 /\ SubSeq(out', 1, Len(out)) = out
      /\ out'[Len(out')] = t
  BY <1>1, ChainLonger
<1>3. t.from \in {0, Head(FileStack)}
  BY <1>1, StackAt, FirstInOrder
<1>4. t.from # 0 => \A i \in DOMAIN out : out[i].from = t.from => out[i].id < t.id
  <2>1. ASSUME t.from # 0, NEW i \in DOMAIN out, out[i].from = t.from
        PROVE  out[i].id < t.id
    <3>1. Queue \in Seq(Token) /\ Queue # << >> /\ t = Head(Queue) /\ i \in 1 .. Len(out)
      BY <1>1, <2>1, OrderTypes
    <3>2. t = Queue[1] /\ 1 \in 1 .. Len(Queue)
      BY <3>1
    <3>3. Precedes(out[i], Queue[1])
      BY <3>1, <3>2 DEF InOrder, Ordered, Before
    <3> QED BY <2>1, <3>2, <3>3 DEF Precedes
  <2> QED BY <2>1
<1>5. eof_done' => Len(FileStack) = 1
  <2>1. eof_done' => frames = << >>
    <3>1. CASE t.kind = "eof"
      BY <3>1
    <3>2. CASE t.kind # "eof"
      BY <3>2
    <3> QED BY <3>1, <3>2
  <2>2. Len(FileStack) = Len(frames) + 1
    BY <1>1, StackAt
  <2>3. frames = << >> => Len(frames) = 0
    OBVIOUS
  <2> QED BY <2>1, <2>2, <2>3
<1>6. FileStack' = FileStack
  BY StackStays
<1>7. Turn = "producer" /\ Turn' = "producer"
  BY DEF Turn, Steps
<1> QED BY <1>1, <1>2, <1>3, <1>4, <1>5, <1>6, <1>7 DEF Promise!Produce, FileStack, Turn

LEMMA EntersPromise ==
  ASSUME Layout, InOrder, Include, FilesTyped'
  PROVE  Promise!EnterFile
<1>1. Enters
  BY EntersFile
<1>2. /\ out' = out /\ frames' = <<NewFrame(pb)>> \o frames /\ NewFrame(pb) \in Frame
      /\ file' = Newest /\ file < Newest /\ eof_done' = eof_done
  BY <1>1 DEF Enters
<1>3. pc = "directive" /\ pc' = "loop" /\ cursor' = cursor
  BY DEF Include, Directive, EndStep, chain
<1>4. FilesTyped /\ file \in Nat \ {0} /\ Newest \in Int /\ out \in Seq(Token)
  BY OrderTypes
<1>5. /\ FileStack' \in Seq(Nat) /\ FileStack' # << >> /\ Head(FileStack') = file'
      /\ Len(FileStack') = Len(frames') + 1
      /\ \A i \in 1 .. Len(frames') + 1 :
            FileStack'[i] = IF i = 1 THEN file' ELSE frames'[i - 1].file
  BY StackNext
<1>6. /\ FileStack \in Seq(Nat) /\ Len(FileStack) = Len(frames) + 1
      /\ Len(frames) \in Nat
      /\ \A i \in 1 .. Len(frames) + 1 :
            FileStack[i] = IF i = 1 THEN file ELSE frames[i - 1].file
  BY <1>4, StackAt
<1>7. /\ Len(frames') = Len(frames) + 1
      /\ \A i \in 1 .. Len(frames) + 1 :
            frames'[i] = IF i = 1 THEN NewFrame(pb) ELSE frames[i - 1]
  BY <1>2, <1>4, ConsAt DEF FilesTyped
<1>8. NewFrame(pb).file = file
  BY DEF NewFrame
<1>9. Tail(FileStack') = FileStack
  <2>1. /\ Tail(FileStack') \in Seq(Nat) /\ Len(Tail(FileStack')) = Len(frames) + 1
        /\ \A i \in 1 .. Len(frames) + 1 : Tail(FileStack')[i] = FileStack'[i + 1]
    BY <1>5, <1>6, <1>7, TailAt
  <2>2. ASSUME NEW i \in 1 .. Len(frames) + 1 PROVE Tail(FileStack')[i] = FileStack[i]
    <3>1. FileStack'[i + 1] = frames'[i].file
      <4>1. i + 1 \in 1 .. Len(frames') + 1 /\ i + 1 # 1 /\ i + 1 - 1 = i
        BY <1>6, <1>7
      <4> QED BY <1>5, <4>1
    <3>2. frames'[i].file = FileStack[i]
      BY <1>6, <1>7, <1>8
    <3> QED BY <2>1, <3>1, <3>2
  <2>3. Len(Tail(FileStack')) = Len(FileStack)
    BY <1>6, <2>1
  <2>4. \A i \in 1 .. Len(Tail(FileStack')) : Tail(FileStack')[i] = FileStack[i]
    BY <2>1, <2>2
  <2> QED BY <1>6, <2>1, <2>3, <2>4, SeqSame, Zenon
<1>10. \A i \in DOMAIN out : out[i].from < Head(FileStack')
  <2>1. ASSUME NEW i \in DOMAIN out PROVE out[i].from < file'
    <3>1. i \in 1 .. Len(out) /\ out[i] \in Token
      BY <1>4
    <3>2. Numbered(out[i], Newest)
      BY <3>1 DEF InOrder, Below
    <3> QED BY <1>2, <1>4, <3>1, <3>2, TokenFields DEF Numbered
  <2> QED BY <1>5, <2>1
<1>11. Turn = "producer" /\ Turn' = "producer"
  BY <1>3 DEF Turn
<1> QED BY <1>2, <1>3, <1>5, <1>9, <1>10, <1>11 DEF Promise!EnterFile, FileStack, Turn

LEMMA LeavesPromise ==
  ASSUME Layout, InOrder, PopFrame, FilesTyped'
  PROVE  Promise!LeaveFile
<1>1. Leaves
  BY LeavesFile
<1>2. /\ out' = out /\ frames # << >> /\ frames' = Tail(frames)
      /\ file' = Head(frames).file /\ eof_done' = eof_done
  BY <1>1 DEF Leaves
<1>3. pc = "step" /\ pc' = "loop" /\ cursor' = cursor
  BY DEF PopFrame, InStep, EndStep, chain
<1>4. FilesTyped /\ frames \in Seq(Frame)
  BY OrderTypes
<1>5. /\ FileStack' \in Seq(Nat) /\ Len(FileStack') = Len(frames') + 1
      /\ \A i \in 1 .. Len(frames') + 1 :
            FileStack'[i] = IF i = 1 THEN file' ELSE frames'[i - 1].file
  BY StackNext
<1>6. /\ FileStack \in Seq(Nat) /\ Len(FileStack) = Len(frames) + 1
      /\ Len(frames) \in Nat /\ FileStack # << >>
      /\ \A i \in 1 .. Len(frames) + 1 :
            FileStack[i] = IF i = 1 THEN file ELSE frames[i - 1].file
  BY <1>4, StackAt
<1>7. /\ Len(frames') = Len(frames) - 1 /\ Len(frames) >= 1 /\ Head(frames) = frames[1]
      /\ \A i \in 1 .. Len(frames) - 1 : frames'[i] = frames[i + 1]
  BY <1>2, <1>4, TailAt
<1>8. FileStack' = Tail(FileStack)
  <2>1. /\ Tail(FileStack) \in Seq(Nat) /\ Len(Tail(FileStack)) = Len(frames)
        /\ \A i \in 1 .. Len(frames) : Tail(FileStack)[i] = FileStack[i + 1]
    BY <1>6, TailAt
  <2>2. ASSUME NEW i \in 1 .. Len(frames) PROVE FileStack'[i] = Tail(FileStack)[i]
    <3>1. Tail(FileStack)[i] = frames[i].file
      <4>1. i + 1 \in 1 .. Len(frames) + 1 /\ i + 1 # 1 /\ i + 1 - 1 = i
        BY <1>6
      <4> QED BY <1>6, <2>1, <4>1
    <3>2. FileStack'[i] = frames[i].file
      <4>1. CASE i = 1
        BY <1>2, <1>5, <1>6, <1>7, <4>1
      <4>2. CASE i # 1
        <5>1. i - 1 \in 1 .. Len(frames) - 1 /\ i \in 1 .. Len(frames') + 1
          BY <1>6, <1>7, <4>2
        <5>2. frames'[i - 1] = frames[i]
          BY <1>6, <1>7, <5>1
        <5> QED BY <1>5, <4>2, <5>1, <5>2
      <4> QED BY <4>1, <4>2
    <3> QED BY <3>1, <3>2
  <2>3. Len(FileStack') = Len(Tail(FileStack)) /\ Len(FileStack') = Len(frames)
    BY <1>5, <1>6, <1>7, <2>1
  <2>4. \A i \in 1 .. Len(FileStack') : FileStack'[i] = Tail(FileStack)[i]
    BY <2>2, <2>3
  <2> QED BY <1>5, <2>1, <2>3, <2>4, SeqSame, Zenon
<1>9. Len(FileStack) > 1
  BY <1>6, <1>7
<1>10. Turn = "producer" /\ Turn' = "producer"
  BY <1>3 DEF Turn
<1> QED BY <1>2, <1>3, <1>8, <1>9, <1>10 DEF Promise!LeaveFile, FileStack, Turn

LEMMA ProducesPromise ==
  ASSUME Layout, InOrder, Emit \/ OuterEof \/ NoCall \/ Pragma
  PROVE  Promise!Produce
<1>1. pc \in Steps => eof_done = FALSE
  BY RunningSteps
<1>2. CASE Emit
  <2>1. Delivers /\ cursor' = cursor /\ eof_done' = eof_done /\ pc = "step" /\ pc' = "loop"
        /\ held[1].kind \in {"plain", "paren"}
    BY <1>2, DeliversToken DEF Emit, EndStep, chain, InStep, tok
  <2>2. pc \in Steps
    BY <2>1 DEF Steps
  <2>3. eof_done' = (held[1].kind = "eof")
    BY <1>1, <2>1, <2>2
  <2> QED BY <2>1, <2>2, <2>3, Produces DEF Delivers
<1>3. CASE OuterEof
  <2>1. Delivers /\ cursor' = cursor /\ eof_done' = TRUE /\ pc = "step" /\ pc' = "loop"
        /\ held[1].kind = "eof" /\ frames = << >>
    BY <1>3, DeliversToken DEF OuterEof, EndStep, chain, InStep, tok
  <2>2. pc \in Steps
    BY <2>1 DEF Steps
  <2>3. eof_done' = (held[1].kind = "eof")
    BY <2>1
  <2> QED BY <2>1, <2>2, <2>3, Produces DEF Delivers
<1>4. CASE NoCall
  <2>1. Delivers /\ cursor' = cursor /\ eof_done' = eof_done /\ pc = "call" /\ pc' = "loop"
    BY <1>4, DeliversToken DEF NoCall, EndStep, chain
  <2>2. held[1].kind = "fun" /\ pc \in Steps
    BY <2>1 DEF Layout, HeldShape, Steps
  <2>3. eof_done' = (held[1].kind = "eof")
    BY <1>1, <2>1, <2>2
  <2> QED BY <2>1, <2>2, <2>3, Produces DEF Delivers
<1>5. CASE Pragma
  <2>1. PICK t : Marks(t)
    BY <1>5, MarksPragma
  <2>2. cursor' = cursor /\ eof_done' = eof_done /\ pc = "directive" /\ pc' = "loop"
    BY <1>5 DEF Pragma, EndStep, chain, Directive
  <2>3. pc \in Steps
    BY <2>2 DEF Steps
  <2>4. eof_done' = (t.kind = "eof") /\ t.kind # "eof"
    BY <1>1, <2>1, <2>2, <2>3 DEF Marks
  <2> QED BY <2>1, <2>2, <2>3, <2>4, Produces DEF Marks
<1> QED BY <1>2, <1>3, <1>4, <1>5

(* The steps of the loops around pps_step, and of the parser.              *)
LEMMA OpensPromise ==
  ASSUME Open
  PROVE  Promise!Open
<1>1. /\ pc = "reset" /\ pc' = "loop"
      /\ UNCHANGED <<out, cursor, Files, eof_done>>
  BY DEF Open, chain, includes, Files
<1>2. FileStack' = FileStack
  BY <1>1, StackStays
<1>3. Turn = "closed" /\ Turn' = "producer"
  BY <1>1 DEF Turn
<1> QED BY <1>1, <1>2, <1>3 DEF Promise!Open, FileStack, Turn

LEMMA BeginsPromise ==
  ASSUME Layout, OpenDone
  PROVE  Promise!Begin
<1>1. /\ pc = "loop" /\ pc' = "loop" /\ caller = "open" /\ ~NeedMore /\ cursor' = 1
      /\ UNCHANGED <<out, Files, eof_done>>
  BY DEF OpenDone, includes, Files
<1>2. cursor = 0 /\ out # << >>
  BY <1>1 DEF Layout, Progress, NeedMore
<1>3. FileStack' = FileStack
  BY <1>1, StackStays
<1>4. Turn = "producer" /\ Turn' = "producer"
  BY <1>1 DEF Turn
<1> QED BY <1>1, <1>2, <1>3, <1>4 DEF Promise!Begin, FileStack, Turn

LEMMA Answering ==
  ASSUME pc \in {"loop", "reclaim"}, pc' = "parse", cursor # 0,
         cursor < Len(out) \/ eof_done, UNCHANGED <<out, cursor, Files, eof_done>>
  PROVE  Promise!Answer
<1>1. FileStack' = FileStack
  BY StackStays
<1>2. Turn = "producer" /\ Turn' = "reader"
  BY DEF Turn
<1> QED BY <1>1, <1>2 DEF Promise!Answer, FileStack, Turn

LEMMA RefillPromise ==
  ASSUME Layout, RefillDone
  PROVE  Promise!Answer \/ UNCHANGED Promise!state
<1>1. /\ pc = "loop" /\ caller # "open" /\ ~NeedMore
      /\ pc' = IF caller = "advance" THEN "reclaim" ELSE "parse"
      /\ UNCHANGED <<out, cursor, Files, eof_done>>
  BY DEF RefillDone, includes, Files
<1>2. (cursor < Len(out) \/ eof_done) /\ cursor # 0
  BY <1>1, AheadKnown DEF Layout, Progress
<1>3. CASE caller = "advance"
  <2>1. Turn' = Turn
    BY <1>1, <1>3 DEF Turn
  <2> QED BY <1>1, <2>1, Stutters
<1>4. CASE caller # "advance"
  BY <1>1, <1>2, <1>4, Answering
<1> QED BY <1>3, <1>4

LEMMA ReclaimPromise ==
  ASSUME Layout, Reclaim
  PROVE  Promise!Answer
<1>1. /\ pc = "reclaim" /\ pc' = "parse"
      /\ UNCHANGED <<out, cursor, Files, eof_done>>
  BY DEF Reclaim, chain, includes, Files
<1>2. (cursor < Len(out) \/ eof_done) /\ cursor # 0
  BY <1>1 DEF Layout, Progress
<1> QED BY <1>1, <1>2, Answering

LEMMA Moving ==
  ASSUME pc = "parse", pc' \in {"loop", "reclaim", "closing"}, cursor' \in 1 .. Len(out),
         UNCHANGED <<out, Files, eof_done>>
  PROVE  Promise!Move
<1>1. FileStack' = FileStack
  BY StackStays
<1>2. Turn = "reader" /\ Turn' = "producer"
  BY DEF Turn
<1> QED BY <1>1, <1>2 DEF Promise!Move, FileStack, Turn

LEMMA MovesPromise ==
  ASSUME Layout, MoveCursor \/ EnsureLookahead \/ (BeginClose /\ pc = "parse")
  PROVE  Promise!Move
<1>1. pc = "parse" /\ UNCHANGED <<out, Files, eof_done>>
  BY DEF MoveCursor, EnsureLookahead, BeginClose, includes, Files
<1>2. pc' \in {"loop", "reclaim", "closing"}
  BY DEF MoveCursor, EnsureLookahead, BeginClose
<1>3. cursor \in 1 .. Len(out)
  <2>1. cursor # 0
    BY <1>1 DEF Layout, Progress
  <2> QED BY <2>1, ChainLength
<1>4. cursor' \in 1 .. Len(out)
  BY <1>3 DEF MoveCursor, EnsureLookahead, BeginClose, chain
<1> QED BY <1>1, <1>2, <1>4, Moving

LEMMA ClosesPromise ==
  ASSUME Close
  PROVE  Promise!Close
<1>1. /\ pc = "closing" /\ pc' = "closed" /\ out' = << >> /\ cursor' = 0
      /\ frames' = << >> /\ file' = 1 /\ eof_done' = FALSE
  BY DEF Close
<1>2. (<<file>> \o [i \in DOMAIN frames |-> frames[i].file])' = <<1>>
  BY <1>1
<1> QED BY <1>1, <1>2 DEF Promise!Close, Promise!Closed

LEMMA ClosedPromise == StreamInit => Promise!Closed
<1> SUFFICES ASSUME StreamInit PROVE Promise!Closed
  OBVIOUS
<1>1. /\ pc = "closed" /\ out = << >> /\ cursor = 0
      /\ frames = << >> /\ file = 1 /\ eof_done = FALSE
  BY DEF StreamInit
<1>2. <<file>> \o [i \in DOMAIN frames |-> frames[i].file] = <<1>>
  BY <1>1
<1> QED BY <1>1, <1>2 DEF Promise!Closed

(* Every other step leaves the text, the files and the turn as they are.   *)
LEMMA OtherwiseStill ==
  ASSUME Layout,
         \/ ResetBeforeOpen
         \/ StepPull \/ DirectiveLine \/ LinePushback \/ BoundedDirective
         \/ IfDirective \/ ElifDirective \/ ElseDirective \/ EndifDirective
         \/ SkipPull \/ SkipDrop \/ SkipStop \/ SkipNull \/ SkipWord
         \/ ObjectMacro \/ FunctionMacro \/ Call
         \/ ExpandToken \/ ExpandDone \/ SplicePull \/ SpliceCall \/ SpliceNoCall
         \/ (BeginClose /\ pc # "parse")
  PROVE  UNCHANGED Promise!state
<1> DEFINE Same == UNCHANGED <<out, cursor, Files, eof_done>> /\ Turn' = Turn
<1>1. CASE ResetBeforeOpen \/ (BeginClose /\ pc # "parse")
  <2>1. UNCHANGED <<out, cursor, Files, eof_done>>
    BY <1>1 DEF ResetBeforeOpen, BeginClose, chain, includes, Files
  <2>2. Turn' = Turn
    BY <1>1 DEF ResetBeforeOpen, BeginClose, Turn
  <2> QED BY <2>1, <2>2, Stutters
<1>2. CASE StepPull \/ DirectiveLine \/ SkipPull \/ SkipNull \/ FunctionMacro \/ SplicePull
  <2>1. UNCHANGED <<out, cursor, Files, eof_done>>
    BY <1>2 DEF StepPull, DirectiveLine, SkipPull, SkipNull, FunctionMacro, SplicePull,
                PullRaw, chain, Files
  <2>2. pc \in Steps \cup {"loop"} /\ pc' \in Steps \cup {"loop"}
    BY <1>2 DEF StepPull, DirectiveLine, SkipPull, SkipNull, FunctionMacro, SplicePull,
                PullRaw, Steps
  <2>3. Turn' = Turn
    BY <2>2 DEF Turn, Steps
  <2> QED BY <2>1, <2>3, Stutters
<1>3. CASE LinePushback \/ BoundedDirective \/ SkipDrop \/ SkipStop \/ SkipWord
  <2>1. UNCHANGED <<out, cursor, Files, eof_done>>
    BY <1>3 DEF LinePushback, BoundedDirective, SkipDrop, SkipStop, SkipWord, StopSkip,
                EndStep, chain, includes, Files
  <2>2. pc \in Steps \cup {"loop"} /\ pc' \in Steps \cup {"loop"}
    BY <1>3 DEF LinePushback, BoundedDirective, SkipDrop, SkipStop, SkipWord, StopSkip,
                EndStep, Directive, Steps
  <2>3. Turn' = Turn
    BY <2>2 DEF Turn, Steps
  <2> QED BY <2>1, <2>3, Stutters
<1>4. CASE IfDirective \/ ElifDirective \/ ElseDirective \/ EndifDirective
  <2>1. pc = "directive" /\ \E g, read : Branch(g, read)
    BY <1>4 DEF IfDirective, ElifDirective, ElseDirective, EndifDirective, Directive
  <2>2. UNCHANGED <<out, cursor, Files, eof_done>>
    BY <2>1 DEF Branch, EndStep, chain, Files
  <2>3. pc' \in Steps \cup {"loop"}
    BY <2>1 DEF Branch, EndStep, Steps
  <2>4. Turn' = Turn
    BY <2>1, <2>3 DEF Turn, Steps
  <2> QED BY <2>2, <2>4, Stutters
<1>5. CASE ObjectMacro \/ Call \/ ExpandToken \/ ExpandDone \/ SpliceCall \/ SpliceNoCall
  <2>1. UNCHANGED <<out, cursor, Files, eof_done>>
    BY <1>5 DEF ObjectMacro, Call, ExpandToken, ExpandDone, SpliceCall, SpliceNoCall,
                EndStep, chain, includes, Files
  <2>2. pc \in Steps \cup {"loop"} /\ pc' \in Steps \cup {"loop"}
    BY <1>5 DEF ObjectMacro, Call, ExpandToken, ExpandDone, SpliceCall, SpliceNoCall,
                EndStep, InStep, Steps
  <2>3. Turn' = Turn
    BY <2>2 DEF Turn, Steps
  <2> QED BY <2>1, <2>3, Stutters
<1> QED BY <1>1, <1>2, <1>3, <1>4, <1>5

LEMMA PromiseStep ==
  ASSUME StreamInv, StreamInv', [StreamNext]_<<vars, stream>>
  PROVE  [Promise!Next]_(Promise!state)
<1>1. Layout /\ InOrder /\ FilesTyped'
  BY DEF StreamInv, Layout
<1>2. CASE Open \/ OpenDone \/ RefillDone \/ Reclaim \/ Close
  BY <1>1, <1>2, OpensPromise, BeginsPromise, RefillPromise, ReclaimPromise, ClosesPromise
     DEF Promise!Next
<1>3. CASE MoveCursor \/ EnsureLookahead \/ (BeginClose /\ pc = "parse")
  BY <1>1, <1>3, MovesPromise DEF Promise!Next
<1>4. CASE Include \/ PopFrame
  BY <1>1, <1>4, EntersPromise, LeavesPromise DEF Promise!Next
<1>5. CASE Emit \/ OuterEof \/ NoCall \/ Pragma
  BY <1>1, <1>5, ProducesPromise DEF Promise!Next
<1>6. CASE \/ ResetBeforeOpen
           \/ StepPull \/ DirectiveLine \/ LinePushback \/ BoundedDirective
           \/ IfDirective \/ ElifDirective \/ ElseDirective \/ EndifDirective
           \/ SkipPull \/ SkipDrop \/ SkipStop \/ SkipNull \/ SkipWord
           \/ ObjectMacro \/ FunctionMacro \/ Call
           \/ ExpandToken \/ ExpandDone \/ SplicePull \/ SpliceCall \/ SpliceNoCall
           \/ (BeginClose /\ pc # "parse")
  BY <1>1, <1>6, OtherwiseStill
<1>7. CASE UNCHANGED <<vars, stream>>
  <2>1. UNCHANGED <<out, cursor, frames, file, eof_done, pc>>
    BY <1>7 DEF stream, chain, includes
  <2>2. Turn' = Turn
    BY <2>1 DEF Turn
  <2> QED BY <2>1, <2>2, Stutters DEF Files
<1> QED BY <1>2, <1>3, <1>4, <1>5, <1>6, <1>7 DEF StreamNext, StreamStep

(* The stream implements the ordered text: each of its steps adds a token  *)
(* at the end of the text, in the order of its file, enters or leaves a    *)
(* file, moves the reader, answers it, or changes nothing of it.           *)
THEOREM KeepsOrderedText == StreamSpec => Promise!Safety
<1>1. StreamInit => Promise!Closed
  BY ClosedPromise
<1>2. StreamInv /\ StreamInv' /\ [StreamNext]_<<vars, stream>>
        => [Promise!Next]_(Promise!state)
  BY PromiseStep
<1> QED BY <1>1, <1>2, StreamAlwaysOrdered, PTL DEF StreamSpec, Promise!Safety

-----------------------------------------------------------------------------
(* The plain tokens of the source, by their numbers.                       *)
Source(t) == t.kind = "plain" /\ t.from # 0
IdsOf(s) == {x \in Nat : \E i \in 1 .. Len(s) : Source(s[i]) /\ s[i].id = x}
Own(t) == IF Source(t) THEN {t.id} ELSE {}
Once(s) ==
  \A i \in 1 .. Len(s), j \in 1 .. Len(s) :
     i < j /\ Source(s[i]) /\ Source(s[j]) => s[i].id # s[j].id

LEMMA IdsNothing == IdsOf(<< >>) = {} /\ Once(<< >>)
BY DEF IdsOf, Once

LEMMA IdsFirst ==
  ASSUME NEW s \in Seq(Token), s # << >>
  PROVE  /\ IdsOf(s) = Own(Head(s)) \cup IdsOf(Tail(s))
         /\ Once(s) => Once(Tail(s)) /\ Own(Head(s)) \cap IdsOf(Tail(s)) = {}
<1> DEFINE r == Tail(s)
<1>1. /\ r \in Seq(Token) /\ Len(r) = Len(s) - 1 /\ Len(s) \in Nat /\ Len(s) >= 1
      /\ \A i \in 1 .. Len(r) : i + 1 \in 1 .. Len(s) /\ r[i] = s[i + 1]
      /\ Head(s) = s[1] /\ s[1] \in Token
  BY TailAt
<1> HIDE DEF r
<1>2. ASSUME NEW i \in 1 .. Len(s), i # 1
      PROVE  i - 1 \in 1 .. Len(r) /\ r[i - 1] = s[i]
  <2>1. i - 1 \in 1 .. Len(r) /\ i - 1 + 1 = i
    BY <1>1, <1>2
  <2> QED BY <1>1, <2>1
<1>3. \A x : x \in Own(s[1]) <=> Source(s[1]) /\ x = s[1].id
  BY DEF Own
<1>4. s[1].id \in Nat
  BY <1>1, TokenFields
<1>5. IdsOf(s) \subseteq Own(s[1]) \cup IdsOf(r)
  <2>1. ASSUME NEW x \in IdsOf(s) PROVE x \in Own(s[1]) \cup IdsOf(r)
    <3>1. PICK i \in 1 .. Len(s) : Source(s[i]) /\ s[i].id = x
      BY DEF IdsOf
    <3>2. x \in Nat
      BY DEF IdsOf
    <3>3. CASE i = 1
      BY <1>3, <3>1, <3>3
    <3>4. CASE i # 1
      BY <1>2, <3>1, <3>2, <3>4 DEF IdsOf
    <3> QED BY <3>3, <3>4
  <2> QED BY <2>1
<1>6. Own(s[1]) \subseteq IdsOf(s)
  <2>1. 1 \in 1 .. Len(s)
    BY <1>1
  <2> QED BY <1>3, <1>4, <2>1 DEF IdsOf
<1>7. IdsOf(r) \subseteq IdsOf(s)
  BY <1>1 DEF IdsOf
<1>8. ASSUME Once(s) PROVE Once(r)
  <2>1. ASSUME NEW i \in 1 .. Len(r), NEW j \in 1 .. Len(r), i < j,
               Source(r[i]), Source(r[j])
        PROVE  r[i].id # r[j].id
    <3>1. i + 1 \in 1 .. Len(s) /\ j + 1 \in 1 .. Len(s) /\ i + 1 < j + 1
      BY <1>1, <2>1
    <3> QED BY <1>1, <1>8, <2>1, <3>1 DEF Once
  <2> QED BY <2>1 DEF Once
<1>9. ASSUME Once(s), NEW x \in IdsOf(r), x \in Own(s[1]) PROVE FALSE
  <2>1. PICK i \in 1 .. Len(r) : Source(r[i]) /\ r[i].id = x
    BY DEF IdsOf
  <2>2. i + 1 \in 1 .. Len(s) /\ 1 \in 1 .. Len(s) /\ 1 < i + 1
    BY <1>1
  <2>3. Source(s[i + 1]) /\ s[i + 1].id = x
    BY <1>1, <2>1
  <2> QED BY <1>3, <1>9, <2>2, <2>3 DEF Once
<1>10. IdsOf(s) = Own(s[1]) \cup IdsOf(r)
  BY <1>5, <1>6, <1>7
<1>11. Once(s) => Once(r) /\ Own(s[1]) \cap IdsOf(r) = {}
  BY <1>8, <1>9
<1> QED BY <1>1, <1>10, <1>11 DEF r

LEMMA IdsLonger ==
  ASSUME NEW s \in Seq(Token), NEW t \in Token
  PROVE  /\ IdsOf(Append(s, t)) = IdsOf(s) \cup Own(t)
         /\ Once(s) /\ Own(t) \cap IdsOf(s) = {} => Once(Append(s, t))
<1> DEFINE r == Append(s, t)
<1>1. /\ Len(r) = Len(s) + 1 /\ Len(s) \in Nat
      /\ \A i \in 1 .. Len(s) : r[i] = s[i]
      /\ r[Len(s) + 1] = t
  BY AppendAt
<1> HIDE DEF r
<1>2. /\ \A i \in 1 .. Len(s) : i \in 1 .. Len(r)
      /\ Len(s) + 1 \in 1 .. Len(r)
      /\ \A i \in 1 .. Len(r) : i \in 1 .. Len(s) \/ i = Len(s) + 1
  BY <1>1
<1>3. \A x : x \in Own(t) <=> Source(t) /\ x = t.id
  BY DEF Own
<1>4. t.id \in Nat
  BY TokenFields
<1>5. IdsOf(r) = IdsOf(s) \cup Own(t)
  <2>1. ASSUME NEW x \in IdsOf(r) PROVE x \in IdsOf(s) \cup Own(t)
    <3>1. PICK i \in 1 .. Len(r) : Source(r[i]) /\ r[i].id = x
      BY DEF IdsOf
    <3>2. x \in Nat
      BY DEF IdsOf
    <3> QED BY <1>1, <1>2, <1>3, <3>1, <3>2 DEF IdsOf
  <2>2. Own(t) \subseteq IdsOf(r)
    BY <1>1, <1>2, <1>3, <1>4 DEF IdsOf
  <2>3. IdsOf(s) \subseteq IdsOf(r)
    BY <1>1, <1>2 DEF IdsOf
  <2> QED BY <2>1, <2>2, <2>3
<1>6. ASSUME Once(s), Own(t) \cap IdsOf(s) = {} PROVE Once(r)
  <2>1. ASSUME NEW i \in 1 .. Len(r), NEW j \in 1 .. Len(r), i < j,
               Source(r[i]), Source(r[j])
        PROVE  r[i].id # r[j].id
    <3>1. i \in 1 .. Len(s) /\ r[i] = s[i]
      BY <1>1, <2>1
    <3>2. CASE j \in 1 .. Len(s)
      BY <1>1, <1>6, <2>1, <3>1, <3>2 DEF Once
    <3>3. CASE j = Len(s) + 1
      <4>1. s[i].id # t.id
        <5>1. s[i] \in Token
          BY <3>1, ElementOfSeq, Zenon
        <5>2. s[i].id \in IdsOf(s)
          BY <2>1, <3>1, <5>1, TokenFields DEF IdsOf
        <5> QED BY <1>1, <1>3, <1>6, <2>1, <3>3, <5>2
      <4> QED BY <1>1, <3>1, <3>3, <4>1
    <3> QED BY <1>2, <3>2, <3>3
  <2> QED BY <2>1 DEF Once
<1> QED BY <1>5, <1>6 DEF r

(* Tokens that are not of the source stand before others.                  *)
LEMMA IdsBehind ==
  ASSUME NEW b \in Seq(Token), NEW s \in Seq(Token),
         \A i \in 1 .. Len(b) : ~Source(b[i])
  PROVE  IdsOf(b \o s) = IdsOf(s) /\ (Once(b \o s) <=> Once(s))
<1> DEFINE r == b \o s
<1>1. /\ Len(r) = Len(b) + Len(s) /\ Len(b) \in Nat /\ Len(s) \in Nat
      /\ \A i \in 1 .. Len(b) + Len(s) : r[i] = IF i <= Len(b) THEN b[i] ELSE s[i - Len(b)]
  BY JoinAt
<1> HIDE DEF r
<1>2. ASSUME NEW i \in 1 .. Len(s)
      PROVE  i + Len(b) \in 1 .. Len(r) /\ r[i + Len(b)] = s[i]
  <2>1. /\ i + Len(b) \in 1 .. Len(b) + Len(s) /\ ~(i + Len(b) <= Len(b))
        /\ i + Len(b) - Len(b) = i
    BY <1>1
  <2> QED BY <1>1, <2>1
<1>3. ASSUME NEW i \in 1 .. Len(r), Source(r[i])
      PROVE  i - Len(b) \in 1 .. Len(s) /\ r[i] = s[i - Len(b)]
  <2>1. ~(i <= Len(b))
    <3>1. ASSUME i <= Len(b) PROVE FALSE
      <4>1. i \in 1 .. Len(b) /\ r[i] = b[i]
        BY <1>1, <3>1
      <4> QED BY <1>3, <4>1
    <3> QED BY <3>1
  <2> QED BY <1>1, <2>1
<1>4. IdsOf(r) = IdsOf(s)
  <2>1. ASSUME NEW x \in IdsOf(r) PROVE x \in IdsOf(s)
    <3>1. PICK i \in 1 .. Len(r) : Source(r[i]) /\ r[i].id = x
      BY DEF IdsOf
    <3>2. x \in Nat
      BY DEF IdsOf
    <3> QED BY <1>3, <3>1, <3>2 DEF IdsOf
  <2>2. IdsOf(s) \subseteq IdsOf(r)
    BY <1>2 DEF IdsOf
  <2> QED BY <2>1, <2>2
<1>5. ASSUME Once(r) PROVE Once(s)
  <2>1. ASSUME NEW i \in 1 .. Len(s), NEW j \in 1 .. Len(s), i < j,
               Source(s[i]), Source(s[j])
        PROVE  s[i].id # s[j].id
    <3>1. i + Len(b) < j + Len(b)
      BY <1>1, <2>1
    <3> QED BY <1>2, <1>5, <2>1, <3>1 DEF Once
  <2> QED BY <2>1 DEF Once
<1>6. ASSUME Once(s) PROVE Once(r)
  <2>1. ASSUME NEW i \in 1 .. Len(r), NEW j \in 1 .. Len(r), i < j,
               Source(r[i]), Source(r[j])
        PROVE  r[i].id # r[j].id
    <3>1. /\ i - Len(b) \in 1 .. Len(s) /\ r[i] = s[i - Len(b)]
          /\ j - Len(b) \in 1 .. Len(s) /\ r[j] = s[j - Len(b)]
      BY <1>3, <2>1
    <3>2. i - Len(b) < j - Len(b)
      BY <1>1, <2>1
    <3> QED BY <1>6, <2>1, <3>1, <3>2 DEF Once
  <2> QED BY <2>1 DEF Once
<1> QED BY <1>4, <1>5, <1>6 DEF r

(* A number no token has yet.                                              *)
LEMMA IdsBelow ==
  ASSUME NEW s \in Seq(Token), NEW n \in Int, Below(s, n), NEW m \in Int, n < m
  PROVE  m \notin IdsOf(s)
<1>1. ASSUME NEW i \in 1 .. Len(s) PROVE s[i].id # m
  <2>1. s[i] \in Token /\ s[i].id <= n
    BY ElementOfSeq DEF Below, Numbered
  <2> QED BY <2>1, TokenFields
<1> QED BY <1>1 DEF IdsOf

-----------------------------------------------------------------------------
(* Every plain token of the source is in one place, and those of branches  *)
(* that C takes are in some place.                                         *)
Saved(n) == IdsOf(frames[n].saved_pb)
OnceEach ==
  /\ Once(out) /\ Once(Queue) /\ IdsOf(out) \cap IdsOf(Queue) = {}
  /\ \A n \in 1 .. Len(frames) :
        /\ Once(frames[n].saved_pb)
        /\ IdsOf(out) \cap Saved(n) = {} /\ IdsOf(Queue) \cap Saved(n) = {}
  /\ \A m \in 1 .. Len(frames), n \in 1 .. Len(frames) :
        m # n => Saved(m) \cap Saved(n) = {}
Kept ==
  /\ \A x \in lexed : \/ x \in IdsOf(out) \/ x \in IdsOf(Queue)
                      \/ \E n \in 1 .. Len(frames) : x \in Saved(n)
  /\ IdsOf(out) \subseteq lexed
Whole == OnceEach /\ Kept

(* The files stay, and what is added to the lists has new numbers.         *)
LEMMA WholeHere ==
  ASSUME Whole, UNCHANGED Files, Once(out'), Once(Queue'), NEW F,
         IdsOf(out') \subseteq IdsOf(out) \cup IdsOf(Queue) \cup F,
         IdsOf(Queue') \subseteq IdsOf(out) \cup IdsOf(Queue) \cup F,
         IdsOf(out') \cap IdsOf(Queue') = {},
         \A n \in 1 .. Len(frames) : F \cap Saved(n) = {},
         lexed' \subseteq lexed \cup IdsOf(Queue'),
         \A x \in lexed' : x \in IdsOf(out) \cup IdsOf(Queue) =>
            x \in IdsOf(out') \cup IdsOf(Queue'),
         IdsOf(out') \subseteq lexed'
  PROVE  Whole'
<1>1. frames' = frames /\ \A n \in 1 .. Len(frames) : Saved(n)' = Saved(n)
  BY DEF Files, Saved
<1>2. \A n \in 1 .. Len(frames) :
        /\ Once(frames[n].saved_pb)
        /\ IdsOf(out') \cap Saved(n) = {} /\ IdsOf(Queue') \cap Saved(n) = {}
  BY DEF Whole, OnceEach
<1>3. OnceEach'
  BY <1>1, <1>2 DEF Whole, OnceEach
<1>4. ASSUME NEW x \in lexed'
      PROVE  \/ x \in IdsOf(out') \/ x \in IdsOf(Queue')
             \/ \E n \in 1 .. Len(frames) : x \in Saved(n)
  BY DEF Whole, Kept
<1>5. Kept'
  BY <1>1, <1>4 DEF Kept
<1> QED BY <1>3, <1>5 DEF Whole

LEMMA WholeSame ==
  ASSUME Whole, UNCHANGED <<out, Files, lexed>>, IdsOf(Queue') = IdsOf(Queue),
         Once(Queue) => Once(Queue')
  PROVE  Whole'
<1>1. /\ Once(out') /\ Once(Queue') /\ IdsOf(out') \cap IdsOf(Queue') = {}
      /\ IdsOf(out') \subseteq lexed'
  BY DEF Whole, OnceEach, Kept
<1>2. IdsOf(out') = IdsOf(out) /\ lexed' = lexed
  OBVIOUS
<1> QED BY <1>1, <1>2, WholeHere

LEMMA WholeDrops ==
  ASSUME Layout, Whole, UNCHANGED <<out, Files, lexed>>, Queue # << >>,
         Queue' = Tail(Queue),
         Own(Head(Queue)) \cap lexed = {}
  PROVE  Whole'
<1>1. Queue \in Seq(Token)
  BY OrderTypes
<1>2. /\ IdsOf(Queue) = Own(Head(Queue)) \cup IdsOf(Queue')
      /\ Once(Queue')
  BY <1>1, IdsFirst DEF Whole, OnceEach
<1>3. IdsOf(out') = IdsOf(out) /\ lexed' = lexed
  OBVIOUS
<1>4. /\ Once(out') /\ IdsOf(out') \cap IdsOf(Queue') = {} /\ IdsOf(out') \subseteq lexed'
  BY <1>2, <1>3 DEF Whole, OnceEach, Kept
<1>5. \A x \in lexed' : x \in IdsOf(out) \cup IdsOf(Queue) =>
         x \in IdsOf(out') \cup IdsOf(Queue')
  BY <1>2, <1>3
<1> QED BY <1>2, <1>3, <1>4, <1>5, WholeHere

(* The first token is delivered, or another, not of the source, for it.    *)
LEMMA WholeDelivers ==
  ASSUME Layout, Whole, UNCHANGED <<Files, lexed>>, Queue # << >>, Queue' = Tail(Queue),
         NEW t \in Token, out' = Append(out, t), Own(t) = Own(Head(Queue)),
         Own(t) \subseteq lexed
  PROVE  Whole'
<1>1. Queue \in Seq(Token) /\ out \in Seq(Token)
  BY OrderTypes
<1>2. /\ IdsOf(Queue) = Own(t) \cup IdsOf(Queue')
      /\ Once(Queue') /\ Own(t) \cap IdsOf(Queue') = {}
  BY <1>1, IdsFirst DEF Whole, OnceEach
<1>3. Own(t) \cap IdsOf(out) = {}
  BY <1>2 DEF Whole, OnceEach
<1>4. IdsOf(out') = IdsOf(out) \cup Own(t) /\ Once(out')
  BY <1>1, <1>3, IdsLonger DEF Whole, OnceEach
<1>5. /\ IdsOf(out') \cap IdsOf(Queue') = {} /\ IdsOf(out') \subseteq lexed'
  BY <1>2, <1>4 DEF Whole, OnceEach, Kept
<1>6. \A x \in lexed' : x \in IdsOf(out) \cup IdsOf(Queue) =>
         x \in IdsOf(out') \cup IdsOf(Queue')
  BY <1>2, <1>4
<1> QED BY <1>2, <1>4, <1>5, <1>6, WholeHere

LEMMA WholePulled ==
  ASSUME Layout, InOrder, Whole, UNCHANGED <<out, Files>>, AllocatorInv',
         NEW t, Pulled(t)
  PROVE  Whole'
<1>1. CASE Repeated
  BY <1>1, WholeSame DEF Repeated
<1>2. CASE New(t)
  <2>1. /\ t \in Token /\ t.id = Newest' /\ Newest' > Newest /\ t.from = file
        /\ Queue' = Append(Queue, t)
        /\ lexed' = IF t.kind = "plain" /\ Taken(branches[1])
                      THEN lexed \cup {t.id} ELSE lexed
    BY <1>2 DEF New
  <2>2. /\ Queue \in Seq(Token) /\ out \in Seq(Token) /\ file # 0 /\ Newest \in Int
        /\ Newest' \in Int
    BY OrderTypes, NewestNext
  <2>3. t.id \notin IdsOf(Queue)
    <3>1. Below(Queue, Newest)
      BY DEF InOrder, Ordered, Of, Below
    <3> QED BY <2>1, <2>2, <3>1, IdsBelow
  <2>4. t.id \notin IdsOf(out)
    BY <2>1, <2>2, IdsBelow DEF InOrder
  <2>5. ASSUME NEW n \in 1 .. Len(frames) PROVE t.id \notin Saved(n)
    <3>1. frames[n].saved_pb \in Seq(Token)
      BY OrderTypes, SavedTyped
    <3>2. Below(frames[n].saved_pb, Newest)
      BY DEF InOrder, Ordered, Of, Below
    <3> QED BY <2>1, <2>2, <3>1, <3>2, IdsBelow DEF Saved
  <2>6. Own(t) \subseteq {t.id}
    BY DEF Own
  <2>7. IdsOf(Queue') = IdsOf(Queue) \cup Own(t) /\ Once(Queue')
    BY <2>1, <2>2, <2>3, <2>6, IdsLonger DEF Whole, OnceEach
  <2>8. IdsOf(out') \cap IdsOf(Queue') = {} /\ Once(out') /\ IdsOf(out') = IdsOf(out)
    BY <2>4, <2>6, <2>7 DEF Whole, OnceEach
  <2>9. lexed \subseteq lexed' /\ lexed' \subseteq lexed \cup IdsOf(Queue')
    <3>1. CASE t.kind = "plain" /\ Taken(branches[1])
      <4>1. Own(t) = {t.id}
        BY <2>1, <2>2, <3>1 DEF Own, Source
      <4> QED BY <2>1, <2>7, <3>1, <4>1
    <3>2. CASE ~(t.kind = "plain" /\ Taken(branches[1]))
      BY <2>1, <3>2
    <3> QED BY <3>1, <3>2
  <2>10. IdsOf(out') \subseteq lexed'
    BY <2>8, <2>9 DEF Whole, Kept
  <2>11. \A n \in 1 .. Len(frames) : {t.id} \cap Saved(n) = {}
    BY <2>5
  <2>12. \A x \in lexed' : x \in IdsOf(out) \cup IdsOf(Queue) =>
            x \in IdsOf(out') \cup IdsOf(Queue')
    BY <2>7, <2>8
  <2> QED BY <2>6, <2>7, <2>8, <2>9, <2>10, <2>11, <2>12, WholeHere
<1> QED BY <1>1, <1>2 DEF Pulled

(* The tokens of a call are no plain ones, and those of its expansion are  *)
(* not of the source.                                                      *)
LEMMA WholeExpands ==
  ASSUME Layout, Whole, Expands, pc \in {"body", "spliced"}
  PROVE  Whole'
<1>1. /\ held \in Seq(Token) /\ pb \in Seq(Token) /\ body \in Seq(Token)
      /\ Queue = held \o pb /\ Queue' = body \o pb
  BY DEF Layout, TokensTyped, Queue, Expands
<1>2. \A i \in 1 .. Len(body) : ~Source(body[i])
  BY DEF Layout, BodyShape, Made, Source
<1>3. ASSUME NEW i \in 1 .. Len(held) PROVE held[i].kind \in {"obj", "fun", "paren"}
  <2>1. CASE pc = "body"
    <3>1. \/ Len(held) = 1 /\ held[1].kind = "obj"
          \/ Len(held) = 2 /\ held[1].kind = "fun" /\ held[2].kind = "paren"
          \/ /\ Len(held) = 3 /\ held[1].kind = "fun"
             /\ held[2].kind = "paren" /\ held[3].kind = "paren"
      BY <2>1 DEF Layout, HeldShape
    <3> QED BY <3>1
  <2>2. CASE pc = "spliced"
    <3>1. Len(held) = 2 /\ held[1].kind = "fun" /\ held[2].kind = "paren"
      BY <2>2 DEF Layout, HeldShape
    <3> QED BY <3>1
  <2> QED BY <2>1, <2>2
<1>4. \A i \in 1 .. Len(held) : ~Source(held[i])
  BY <1>3 DEF Source
<1>5. IdsOf(Queue') = IdsOf(Queue) /\ (Once(Queue) => Once(Queue'))
  BY <1>1, <1>2, <1>4, IdsBehind
<1> QED BY <1>5, WholeSame DEF Expands, Text

LEMMA WholeEnters ==
  ASSUME Layout, Whole, Enters
  PROVE  Whole'
<1>1. /\ frames' = <<NewFrame(pb)>> \o frames /\ NewFrame(pb) \in Frame
      /\ NewFrame(pb).saved_pb = pb /\ out' = out /\ lexed' = lexed /\ Queue' = << >>
  BY DEF Enters, NewFrame
<1>2. frames \in Seq(Frame) /\ Len(frames) \in Nat /\ pb \in Seq(Token) /\ Queue \in Seq(Token)
  BY OrderTypes DEF Layout, TokensTyped
<1>3. IdsOf(Queue) = IdsOf(pb) /\ (Once(Queue) => Once(pb))
  <2>1. Queue = <<held[1]>> \o pb /\ held[1].kind = "include" /\ Queue # << >>
    BY <1>2, ConsParts DEF Enters
  <2>2. held[1] \in Token
    <3>1. Queue[1] \in Token
      BY <1>2, <2>1, TailAt
    <3>2. Queue[1] = held[1]
      BY <2>1
    <3> QED BY <3>1, <3>2
  <2>3. Head(Queue) = held[1] /\ Tail(Queue) = pb
    BY <1>2, <2>1, <2>2, ConsParts, Zenon
  <2>4. Own(held[1]) = {}
    BY <2>1 DEF Own, Source
  <2>5. /\ IdsOf(Queue) = Own(Head(Queue)) \cup IdsOf(Tail(Queue))
        /\ Once(Queue) => Once(Tail(Queue))
    BY <1>2, <2>1, IdsFirst
  <2> QED BY <2>3, <2>4, <2>5
<1>4. /\ Len(frames') = Len(frames) + 1
      /\ \A i \in 1 .. Len(frames) + 1 :
            frames'[i] = IF i = 1 THEN NewFrame(pb) ELSE frames[i - 1]
  BY <1>1, <1>2, ConsAt
<1>5. 1 \in 1 .. Len(frames') /\ frames'[1].saved_pb = pb /\ Saved(1)' = IdsOf(Queue)
  BY <1>1, <1>2, <1>3, <1>4 DEF Saved
<1>6. ASSUME NEW n \in 1 .. Len(frames), NEW k \in 1 .. Len(frames'), k = n + 1
      PROVE  frames'[k].saved_pb = frames[n].saved_pb /\ Saved(k)' = Saved(n)
  <2>1. k \in 1 .. Len(frames) + 1 /\ k # 1 /\ k - 1 = n
    BY <1>2, <1>4, <1>6
  <2> QED BY <1>4, <2>1 DEF Saved
<1>7. ASSUME NEW k \in 1 .. Len(frames'), k # 1
      PROVE  \E n \in 1 .. Len(frames) :
                k = n + 1 /\ frames'[k].saved_pb = frames[n].saved_pb /\ Saved(k)' = Saved(n)
  <2>1. k - 1 \in 1 .. Len(frames) /\ k = (k - 1) + 1
    BY <1>2, <1>4, <1>7
  <2> QED BY <1>6, <2>1
<1>8. ASSUME NEW k \in 1 .. Len(frames')
      PROVE  Once(frames'[k].saved_pb) /\ IdsOf(out) \cap Saved(k)' = {}
  <2>1. CASE k = 1
    BY <1>3, <1>5, <2>1 DEF Whole, OnceEach
  <2>2. CASE k # 1
    BY <1>7, <2>2 DEF Whole, OnceEach
  <2> QED BY <2>1, <2>2
<1>9. ASSUME NEW k \in 1 .. Len(frames'), NEW l \in 1 .. Len(frames'), k # l
      PROVE  Saved(k)' \cap Saved(l)' = {}
  <2>1. CASE k = 1
    BY <1>5, <1>7, <1>9, <2>1 DEF Whole, OnceEach
  <2>2. CASE l = 1
    BY <1>5, <1>7, <1>9, <2>2 DEF Whole, OnceEach
  <2>3. CASE k # 1 /\ l # 1
    <3>1. PICK m \in 1 .. Len(frames) : k = m + 1 /\ Saved(k)' = Saved(m)
      BY <1>7, <2>3
    <3>2. PICK n \in 1 .. Len(frames) : l = n + 1 /\ Saved(l)' = Saved(n)
      BY <1>7, <2>3
    <3>3. m # n
      BY <1>9, <3>1, <3>2
    <3> QED BY <3>1, <3>2, <3>3 DEF Whole, OnceEach
  <2> QED BY <2>1, <2>2, <2>3
<1>10. OnceEach'
  BY <1>1, <1>8, <1>9, IdsNothing DEF Whole, OnceEach
<1>11. ASSUME NEW x \in lexed
       PROVE  x \in IdsOf(out) \/ \E k \in 1 .. Len(frames') : x \in Saved(k)'
  <2>1. CASE x \in IdsOf(Queue)
    BY <1>5, <2>1
  <2>2. ASSUME NEW n \in 1 .. Len(frames), x \in Saved(n)
        PROVE  \E k \in 1 .. Len(frames') : x \in Saved(k)'
    <3>1. n + 1 \in 1 .. Len(frames')
      BY <1>2, <1>4
    <3> QED BY <1>6, <2>2, <3>1
  <2> QED BY <2>1, <2>2 DEF Whole, Kept
<1>12. Kept'
  BY <1>1, <1>11 DEF Whole, Kept
<1> QED BY <1>10, <1>12 DEF Whole

LEMMA WholeLeaves ==
  ASSUME Layout, Whole, Leaves
  PROVE  Whole'
<1>1. /\ frames # << >> /\ frames' = Tail(frames) /\ Queue' = Head(frames).saved_pb
      /\ out' = out /\ lexed' = lexed
      /\ Queue = <<held[1]>> /\ held[1].kind = "eof"
  BY DEF Leaves
<1>2. frames \in Seq(Frame) /\ Len(frames) \in Nat
  BY OrderTypes
<1>3. IdsOf(Queue) = {}
  <2>1. \A i \in 1 .. Len(Queue) : Queue[i] = held[1]
    BY <1>1
  <2> QED BY <1>1, <2>1 DEF IdsOf, Source
<1>4. /\ Len(frames') = Len(frames) - 1 /\ Len(frames) >= 1 /\ Head(frames) = frames[1]
      /\ \A i \in 1 .. Len(frames) - 1 : frames'[i] = frames[i + 1]
  BY <1>1, <1>2, TailAt
<1>5. 1 \in 1 .. Len(frames) /\ IdsOf(Queue') = Saved(1) /\ Queue' = frames[1].saved_pb
  BY <1>1, <1>2, <1>4 DEF Saved
<1>6. ASSUME NEW k \in 1 .. Len(frames')
      PROVE  /\ k + 1 \in 1 .. Len(frames) /\ k + 1 # 1
             /\ frames'[k].saved_pb = frames[k + 1].saved_pb /\ Saved(k)' = Saved(k + 1)
  BY <1>2, <1>4 DEF Saved
<1>7. /\ Once(Queue') /\ IdsOf(out) \cap IdsOf(Queue') = {}
      /\ \A k \in 1 .. Len(frames') :
            /\ Once(frames'[k].saved_pb) /\ IdsOf(out) \cap Saved(k)' = {}
            /\ IdsOf(Queue') \cap Saved(k)' = {}
  <2>1. ASSUME NEW k \in 1 .. Len(frames')
        PROVE  /\ Once(frames'[k].saved_pb) /\ IdsOf(out) \cap Saved(k)' = {}
               /\ IdsOf(Queue') \cap Saved(k)' = {}
    BY <1>5, <1>6 DEF Whole, OnceEach
  <2> QED BY <1>5, <2>1 DEF Whole, OnceEach
<1>8. ASSUME NEW k \in 1 .. Len(frames'), NEW l \in 1 .. Len(frames'), k # l
      PROVE  Saved(k)' \cap Saved(l)' = {}
  <2>1. k + 1 # l + 1
    BY <1>2, <1>4, <1>8
  <2> QED BY <1>6, <2>1 DEF Whole, OnceEach
<1>9. OnceEach'
  BY <1>1, <1>7, <1>8 DEF Whole, OnceEach
<1>10. ASSUME NEW x \in lexed
       PROVE  \/ x \in IdsOf(out) \/ x \in IdsOf(Queue')
              \/ \E k \in 1 .. Len(frames') : x \in Saved(k)'
  <2>1. ASSUME NEW n \in 1 .. Len(frames), x \in Saved(n), n # 1
        PROVE  \E k \in 1 .. Len(frames') : x \in Saved(k)'
    <3>1. n - 1 \in 1 .. Len(frames') /\ (n - 1) + 1 = n
      BY <1>2, <1>4, <2>1
    <3>2. Saved(n - 1)' = Saved((n - 1) + 1)
      BY <1>6, <3>1
    <3> QED BY <2>1, <3>1, <3>2
  <2> QED BY <1>3, <1>5, <2>1 DEF Whole, Kept
<1>11. Kept'
  BY <1>1, <1>10 DEF Whole, Kept
<1> QED BY <1>9, <1>11 DEF Whole

-----------------------------------------------------------------------------
(* What C says of a list of tokens: from the groups B that are open before *)
(* it to those, C, after it, the plain tokens that lx has being exactly    *)
(* those that are read while all open groups are in a branch taken.        *)
Path(s, f) ==
  /\ f \in [0 .. Len(s) -> Seq(OpenGroup)]
  /\ \A i \in 1 .. Len(s) : f[i] = AfterKind(s[i].kind, f[i - 1])
Marked(t, open, lx) == Source(t) => (t.id \in lx <=> Taken(open))
Along(s, f, lx) == \A i \in 1 .. Len(s) : Marked(s[i], f[i - 1], lx)
Reads(s, B, C, lx) ==
  \E f : Path(s, f) /\ f[0] = B /\ f[Len(s)] = C /\ Along(s, f, lx)

LEMMA LeastOf ==
  ASSUME NEW T, T \subseteq Nat, T # {}
  PROVE  \E x \in T : \A y \in T : x <= y
<1> DEFINE R == OpToRel(<, Nat)
<1>1. IsWellFoundedOn(R, Nat)
  BY NatLessThanWellFounded
<1>2. \A x, y \in Nat : x < y => <<x, y>> \in R
  BY DEF OpToRel
<1> HIDE DEF R
<1>3. PICK x \in T : \A y \in T : <<y, x>> \notin R
  BY <1>1, WFMin, Zenon
<1>4. \A y \in T : ~(y < x)
  BY <1>2, <1>3
<1>5. \A y \in T : x <= y
  <2>1. \A y \in T : x \in Nat /\ y \in Nat
    OBVIOUS
  <2> QED BY <1>4, <2>1
<1> QED BY <1>5

LEMMA ReadsTyped ==
  ASSUME NEW s \in Seq(Token), NEW B, NEW C, NEW lx, Reads(s, B, C, lx)
  PROVE  B \in Seq(OpenGroup) /\ C \in Seq(OpenGroup)
<1>1. PICK f : Path(s, f) /\ f[0] = B /\ f[Len(s)] = C
  BY DEF Reads
<1>2. Len(s) \in Nat /\ 0 \in 0 .. Len(s) /\ Len(s) \in 0 .. Len(s)
  OBVIOUS
<1> QED BY <1>1, <1>2 DEF Path

LEMMA ReadsNothing ==
  ASSUME NEW B \in Seq(OpenGroup), NEW lx
  PROVE  Reads(<< >>, B, B, lx)
<1> DEFINE f == [i \in 0 .. 0 |-> B]
<1>1. Len(<< >>) = 0
  OBVIOUS
<1>2. f \in [0 .. 0 -> Seq(OpenGroup)] /\ f[0] = B
  OBVIOUS
<1> HIDE DEF f
<1>3. Path(<< >>, f) /\ Along(<< >>, f, lx)
  BY <1>1, <1>2 DEF Path, Along
<1> QED BY <1>1, <1>2, <1>3 DEF Reads

LEMMA ReadsEmpty ==
  ASSUME NEW B, NEW C, NEW lx, Reads(<< >>, B, C, lx)
  PROVE  B = C
BY DEF Reads

LEMMA ReadsFirst ==
  ASSUME NEW s \in Seq(Token), s # << >>, NEW B, NEW C, NEW lx, Reads(s, B, C, lx)
  PROVE  /\ Reads(Tail(s), AfterKind(Head(s).kind, B), C, lx)
         /\ Marked(Head(s), B, lx)
<1> DEFINE r == Tail(s)
<1>1. /\ Len(r) = Len(s) - 1 /\ Len(s) \in Nat /\ Len(s) >= 1
      /\ \A i \in 1 .. Len(r) : r[i] = s[i + 1]
      /\ Head(s) = s[1]
  BY TailAt
<1> HIDE DEF r
<1>2. PICK f : Path(s, f) /\ f[0] = B /\ f[Len(s)] = C /\ Along(s, f, lx)
  BY DEF Reads
<1> DEFINE g == [i \in 0 .. Len(r) |-> f[i + 1]]
<1>3. \A i \in 0 .. Len(r) : g[i] = f[i + 1] /\ i + 1 \in 0 .. Len(s)
  BY <1>1
<1>4. g \in [0 .. Len(r) -> Seq(OpenGroup)]
  BY <1>2, <1>3 DEF Path
<1> HIDE DEF g
<1>5. ASSUME NEW i \in 1 .. Len(r)
      PROVE  /\ g[i] = AfterKind(r[i].kind, g[i - 1])
             /\ Marked(r[i], g[i - 1], lx)
  <2>1. /\ i + 1 \in 1 .. Len(s) /\ i \in 0 .. Len(r) /\ i - 1 \in 0 .. Len(r)
        /\ i - 1 + 1 = i /\ i + 1 - 1 = i
    BY <1>1
  <2>2. g[i] = f[i + 1] /\ g[i - 1] = f[i] /\ r[i] = s[i + 1]
    BY <1>1, <1>3, <2>1
  <2>3. f[i + 1] = AfterKind(s[i + 1].kind, f[i]) /\ Marked(s[i + 1], f[i], lx)
    BY <1>2, <2>1 DEF Path, Along
  <2> QED BY <2>2, <2>3
<1>6. g[0] = AfterKind(s[1].kind, B) /\ Marked(s[1], B, lx)
  <2>1. 1 \in 1 .. Len(s) /\ 0 \in 0 .. Len(r) /\ 0 + 1 = 1 /\ 1 - 1 = 0
    BY <1>1
  <2>2. f[1] = AfterKind(s[1].kind, f[0]) /\ Marked(s[1], f[0], lx)
    BY <1>2, <2>1 DEF Path, Along
  <2> QED BY <1>2, <1>3, <2>1, <2>2
<1>7. g[Len(r)] = C
  <2>1. Len(r) \in 0 .. Len(r) /\ Len(r) + 1 = Len(s)
    BY <1>1
  <2> QED BY <1>2, <1>3, <2>1
<1>8. Path(r, g) /\ Along(r, g, lx)
  BY <1>4, <1>5 DEF Path, Along
<1>9. Reads(r, AfterKind(s[1].kind, B), C, lx)
  BY <1>6, <1>7, <1>8 DEF Reads
<1> QED BY <1>1, <1>6, <1>9 DEF r

LEMMA ReadsLonger ==
  ASSUME NEW s \in Seq(Token), NEW t \in Token, NEW B, NEW C, NEW lx,
         Reads(s, B, C, lx), Marked(t, C, lx)
  PROVE  Reads(Append(s, t), B, AfterKind(t.kind, C), lx)
<1> DEFINE r == Append(s, t)
<1>1. /\ Len(r) = Len(s) + 1 /\ Len(s) \in Nat
      /\ \A i \in 1 .. Len(s) : r[i] = s[i]
      /\ r[Len(s) + 1] = t
  BY AppendAt
<1> HIDE DEF r
<1>2. PICK f : Path(s, f) /\ f[0] = B /\ f[Len(s)] = C /\ Along(s, f, lx)
  BY DEF Reads
<1> DEFINE D == AfterKind(t.kind, C)
<1>3. D \in Seq(OpenGroup)
  BY ReadsTyped, AfterTyped
<1> DEFINE g == [i \in 0 .. Len(r) |-> IF i <= Len(s) THEN f[i] ELSE D]
<1> HIDE DEF D
<1>4. ASSUME NEW i \in 0 .. Len(s) PROVE g[i] = f[i]
  BY <1>1
<1>5. g[Len(r)] = D
  <2>1. Len(r) \in 0 .. Len(r) /\ ~(Len(r) <= Len(s))
    BY <1>1
  <2> QED BY <2>1
<1>6. g \in [0 .. Len(r) -> Seq(OpenGroup)]
  <2>1. ASSUME NEW i \in 0 .. Len(r)
        PROVE  (IF i <= Len(s) THEN f[i] ELSE D) \in Seq(OpenGroup)
    <3>1. CASE i <= Len(s)
      <4>1. i \in 0 .. Len(s)
        BY <1>1, <3>1
      <4> QED BY <1>2, <3>1, <4>1 DEF Path
    <3>2. CASE ~(i <= Len(s))
      BY <1>3, <3>2
    <3> QED BY <3>1, <3>2
  <2> QED BY <2>1
<1> HIDE DEF g
<1>7. ASSUME NEW i \in 1 .. Len(r)
      PROVE  g[i] = AfterKind(r[i].kind, g[i - 1]) /\ Marked(r[i], g[i - 1], lx)
  <2>1. CASE i \in 1 .. Len(s)
    <3>1. i \in 0 .. Len(s) /\ i - 1 \in 0 .. Len(s)
      BY <1>1, <2>1
    <3>2. f[i] = AfterKind(s[i].kind, f[i - 1]) /\ Marked(s[i], f[i - 1], lx)
      BY <1>2, <2>1 DEF Path, Along
    <3> QED BY <1>1, <1>4, <2>1, <3>1, <3>2
  <2>2. CASE i = Len(s) + 1
    <3>1. i - 1 = Len(s) /\ Len(s) \in 0 .. Len(s) /\ i = Len(r)
      BY <1>1, <2>2
    <3>2. g[i - 1] = C /\ r[i] = t /\ g[i] = D
      BY <1>1, <1>2, <1>4, <1>5, <2>2, <3>1
    <3> QED BY <3>2 DEF D
  <2>3. i \in 1 .. Len(s) \/ i = Len(s) + 1
    BY <1>1
  <2> QED BY <2>1, <2>2, <2>3
<1>8. Path(r, g) /\ Along(r, g, lx)
  BY <1>6, <1>7 DEF Path, Along
<1>9. g[0] = B
  BY <1>1, <1>2, <1>4
<1>10. Reads(r, B, D, lx)
  BY <1>5, <1>8, <1>9 DEF Reads
<1> QED BY <1>10 DEF r, D

LEMMA ReadsMore ==
  ASSUME NEW s \in Seq(Token), NEW B, NEW C, NEW lx, NEW ly,
         Reads(s, B, C, lx), \A x \in IdsOf(s) : x \in lx <=> x \in ly
  PROVE  Reads(s, B, C, ly)
<1>1. PICK f : Path(s, f) /\ f[0] = B /\ f[Len(s)] = C /\ Along(s, f, lx)
  BY DEF Reads
<1>2. ASSUME NEW i \in 1 .. Len(s) PROVE Marked(s[i], f[i - 1], ly)
  <2>1. s[i] \in Token
    BY ElementOfSeq, Zenon
  <2>2. Source(s[i]) => s[i].id \in IdsOf(s)
    BY <2>1, TokenFields DEF IdsOf
  <2> QED BY <1>1, <2>2 DEF Along, Marked
<1> QED BY <1>1, <1>2 DEF Reads, Along

(* Tokens that are no directive leave the groups as they are.              *)
LEMMA PathFlat ==
  ASSUME NEW s \in Seq(Token), NEW f, Path(s, f), NEW n \in 0 .. Len(s),
         \A i \in 1 .. n : s[i].kind \notin Conditionals
  PROVE  f[n] = f[0]
<1> SUFFICES ASSUME f[n] # f[0] PROVE FALSE
  OBVIOUS
<1> DEFINE T == {i \in 0 .. n : f[i] # f[0]}
<1>1. T \subseteq Nat /\ T # {}
  OBVIOUS
<1>2. PICK i \in T : \A j \in T : i <= j
  BY <1>1, LeastOf
<1>3. i \in 0 .. n /\ f[i] # f[0] /\ Len(s) \in Nat
  BY <1>2
<1>4. i # 0
  BY <1>3
<1>5. i \in 1 .. n /\ i \in 1 .. Len(s) /\ i - 1 \in 0 .. n /\ ~(i <= i - 1)
  BY <1>3, <1>4
<1>6. f[i - 1] = f[0]
  BY <1>2, <1>5
<1>7. f[i] = AfterKind(s[i].kind, f[i - 1])
  BY <1>5 DEF Path
<1>8. AfterKind(s[i].kind, f[i - 1]) = f[i - 1]
  BY <1>5 DEF AfterKind, Conditionals
<1> QED BY <1>3, <1>6, <1>7, <1>8

LEMMA ReadsFlat ==
  ASSUME NEW s \in Seq(Token), NEW B, NEW C, NEW lx, Reads(s, B, C, lx),
         \A i \in 1 .. Len(s) : s[i].kind \notin Conditionals
  PROVE  B = C
<1>1. PICK f : Path(s, f) /\ f[0] = B /\ f[Len(s)] = C
  BY DEF Reads
<1>2. Len(s) \in 0 .. Len(s)
  OBVIOUS
<1> QED BY <1>1, <1>2, PathFlat

LEMMA ReadsBehind ==
  ASSUME NEW b \in Seq(Token), NEW s \in Seq(Token), NEW B, NEW C, NEW lx,
         Reads(b \o s, B, C, lx),
         \A i \in 1 .. Len(b) : b[i].kind \notin Conditionals
  PROVE  Reads(s, B, C, lx)
<1> DEFINE r == b \o s
<1>1. /\ r \in Seq(Token) /\ Len(r) = Len(b) + Len(s) /\ Len(b) \in Nat /\ Len(s) \in Nat
      /\ \A i \in 1 .. Len(b) + Len(s) : r[i] = IF i <= Len(b) THEN b[i] ELSE s[i - Len(b)]
  BY JoinAt
<1> HIDE DEF r
<1>2. PICK f : Path(r, f) /\ f[0] = B /\ f[Len(r)] = C /\ Along(r, f, lx)
  BY DEF Reads, r
<1> DEFINE g == [i \in 0 .. Len(s) |-> f[i + Len(b)]]
<1>3. ASSUME NEW i \in 0 .. Len(s)
      PROVE  g[i] = f[i + Len(b)] /\ f[i + Len(b)] \in Seq(OpenGroup)
  <2>1. i + Len(b) \in 0 .. Len(r)
    BY <1>1
  <2> QED BY <1>2, <2>1 DEF Path
<1>4. g \in [0 .. Len(s) -> Seq(OpenGroup)]
  BY <1>3
<1> HIDE DEF g
<1>5. ASSUME NEW i \in 1 .. Len(s)
      PROVE  /\ g[i] = AfterKind(s[i].kind, g[i - 1])
             /\ Marked(s[i], g[i - 1], lx)
  <2>1. /\ i + Len(b) \in 1 .. Len(r) /\ i \in 0 .. Len(s) /\ i - 1 \in 0 .. Len(s)
        /\ i - 1 + Len(b) = i + Len(b) - 1 /\ ~(i + Len(b) <= Len(b))
        /\ i + Len(b) - Len(b) = i
    BY <1>1
  <2>2. r[i + Len(b)] = s[i]
    BY <1>1, <2>1
  <2>3. g[i] = f[i + Len(b)] /\ g[i - 1] = f[i + Len(b) - 1]
    BY <1>3, <2>1
  <2>4. /\ f[i + Len(b)] = AfterKind(r[i + Len(b)].kind, f[i + Len(b) - 1])
        /\ Marked(r[i + Len(b)], f[i + Len(b) - 1], lx)
    BY <1>2, <2>1 DEF Path, Along
  <2> QED BY <2>2, <2>3, <2>4
<1>6. g[0] = B
  <2>1. Len(b) \in 0 .. Len(r) /\ 0 + Len(b) = Len(b) /\ 0 \in 0 .. Len(s)
    BY <1>1
  <2>2. \A i \in 1 .. Len(b) : r[i].kind \notin Conditionals
    BY <1>1
  <2>3. f[Len(b)] = f[0]
    BY <1>1, <1>2, <2>1, <2>2, PathFlat
  <2> QED BY <1>2, <1>3, <2>1, <2>3
<1>7. g[Len(s)] = C
  <2>1. Len(s) \in 0 .. Len(s) /\ Len(s) + Len(b) = Len(r)
    BY <1>1
  <2> QED BY <1>2, <1>3, <2>1
<1> QED BY <1>4, <1>5, <1>6, <1>7 DEF Reads, Path, Along

LEMMA ReadsOver ==
  ASSUME NEW b \in Seq(Token), NEW s \in Seq(Token), NEW B, NEW C, NEW lx,
         Reads(s, B, C, lx),
         \A i \in 1 .. Len(b) : b[i].kind \notin Conditionals /\ ~Source(b[i])
  PROVE  Reads(b \o s, B, C, lx)
<1> DEFINE r == b \o s
<1>1. /\ Len(r) = Len(b) + Len(s) /\ Len(b) \in Nat /\ Len(s) \in Nat
      /\ \A i \in 1 .. Len(b) + Len(s) : r[i] = IF i <= Len(b) THEN b[i] ELSE s[i - Len(b)]
  BY JoinAt
<1> HIDE DEF r
<1>2. PICK f : Path(s, f) /\ f[0] = B /\ f[Len(s)] = C /\ Along(s, f, lx)
  BY DEF Reads
<1>3. B \in Seq(OpenGroup)
  BY ReadsTyped
<1> DEFINE g == [i \in 0 .. Len(r) |-> IF i <= Len(b) THEN B ELSE f[i - Len(b)]]
<1>4. ASSUME NEW i \in 0 .. Len(b) PROVE i \in 0 .. Len(r) /\ g[i] = B
  BY <1>1
<1>5. ASSUME NEW i \in Len(b) .. Len(r)
      PROVE  i - Len(b) \in 0 .. Len(s) /\ i \in 0 .. Len(r) /\ g[i] = f[i - Len(b)]
  <2>1. i - Len(b) \in 0 .. Len(s) /\ i \in 0 .. Len(r)
    BY <1>1
  <2>2. CASE i = Len(b)
    <3>1. i - Len(b) = 0
      BY <1>1, <2>2
    <3> QED BY <1>1, <1>2, <2>1, <2>2, <3>1
  <2>3. CASE i # Len(b)
    <3>1. ~(i <= Len(b))
      BY <1>1, <2>3
    <3> QED BY <2>1, <3>1
  <2> QED BY <2>1, <2>2, <2>3
<1>6. g \in [0 .. Len(r) -> Seq(OpenGroup)]
  <2>1. ASSUME NEW i \in 0 .. Len(r)
        PROVE  (IF i <= Len(b) THEN B ELSE f[i - Len(b)]) \in Seq(OpenGroup)
    <3>1. CASE i <= Len(b)
      BY <1>3, <3>1
    <3>2. CASE ~(i <= Len(b))
      <4>1. i - Len(b) \in 0 .. Len(s)
        BY <1>1, <3>2
      <4> QED BY <1>2, <3>2, <4>1 DEF Path
    <3> QED BY <3>1, <3>2
  <2> QED BY <2>1
<1> HIDE DEF g
<1>7. ASSUME NEW i \in 1 .. Len(r)
      PROVE  /\ g[i] = AfterKind(r[i].kind, g[i - 1])
             /\ Marked(r[i], g[i - 1], lx)
  <2>1. CASE i <= Len(b)
    <3>1. i \in 1 .. Len(b) /\ i \in 0 .. Len(b) /\ i - 1 \in 0 .. Len(b)
      BY <1>1, <2>1
    <3>2. r[i] = b[i]
      BY <1>1, <2>1
    <3>3. AfterKind(b[i].kind, B) = B /\ Marked(b[i], B, lx)
      BY <3>1 DEF AfterKind, Conditionals, Marked
    <3> QED BY <1>4, <3>1, <3>2, <3>3
  <2>2. CASE ~(i <= Len(b))
    <3>1. /\ i - Len(b) \in 1 .. Len(s) /\ i \in Len(b) .. Len(r)
          /\ i - 1 \in Len(b) .. Len(r) /\ i - 1 - Len(b) = i - Len(b) - 1
      BY <1>1, <2>2
    <3>2. r[i] = s[i - Len(b)]
      BY <1>1, <2>2
    <3>3. g[i] = f[i - Len(b)] /\ g[i - 1] = f[i - Len(b) - 1]
      BY <1>5, <3>1
    <3>4. /\ f[i - Len(b)] = AfterKind(s[i - Len(b)].kind, f[i - Len(b) - 1])
          /\ Marked(s[i - Len(b)], f[i - Len(b) - 1], lx)
      BY <1>2, <3>1 DEF Path, Along
    <3> QED BY <3>2, <3>3, <3>4
  <2> QED BY <2>1, <2>2
<1>8. g[0] = B
  BY <1>1, <1>4
<1>9. g[Len(r)] = C
  <2>1. Len(r) \in Len(b) .. Len(r) /\ Len(r) - Len(b) = Len(s)
    BY <1>1
  <2> QED BY <1>2, <1>5, <2>1
<1>10. Reads(r, B, C, lx)
  BY <1>6, <1>7, <1>8, <1>9 DEF Reads, Path, Along
<1> QED BY <1>10 DEF r

-----------------------------------------------------------------------------
(* The groups the code has open and those of the text.                     *)
Agree(c, B, k) ==
  /\ Len(B) = k
  /\ \A j \in 1 .. k : c[j].included = B[j].seen
Atop(B) == Agree(cond_incl, B, Len(cond_incl) - Boundary)

LEMMA AgreePush ==
  ASSUME NEW c \in Seq(OpenIf), NEW B \in Seq(OpenGroup), NEW k \in Nat,
         Agree(c, B, k), k <= Len(c),
         NEW g \in OpenIf, NEW h \in OpenGroup, g.included = h.seen
  PROVE  Agree(<<g>> \o c, <<h>> \o B, k + 1)
<1> DEFINE d == <<g>> \o c
           D == <<h>> \o B
<1>1. /\ Len(c) \in Nat
      /\ \A i \in 1 .. Len(c) + 1 : d[i] = IF i = 1 THEN g ELSE c[i - 1]
  BY ConsAt
<1>2. /\ Len(D) = Len(B) + 1
      /\ \A i \in 1 .. Len(B) + 1 : D[i] = IF i = 1 THEN h ELSE B[i - 1]
  BY ConsAt
<1> HIDE DEF d, D
<1>3. ASSUME NEW i \in 1 .. k + 1 PROVE d[i].included = D[i].seen
  <2>1. i \in 1 .. Len(c) + 1 /\ i \in 1 .. Len(B) + 1
    BY <1>1 DEF Agree
  <2>2. CASE i = 1
    BY <1>1, <1>2, <2>1, <2>2
  <2>3. CASE i # 1
    <3>1. i - 1 \in 1 .. k
      BY <2>3
    <3> QED BY <1>1, <1>2, <2>1, <2>3, <3>1 DEF Agree
  <2> QED BY <2>2, <2>3
<1>4. Len(D) = k + 1
  BY <1>2 DEF Agree
<1>5. Agree(d, D, k + 1)
  BY <1>3, <1>4 DEF Agree
<1> QED BY <1>5 DEF d, D

LEMMA AgreePop ==
  ASSUME NEW c \in Seq(OpenIf), NEW B \in Seq(OpenGroup), NEW k \in Nat \ {0},
         Agree(c, B, k), k <= Len(c)
  PROVE  /\ c # << >> /\ B # << >> /\ Head(c).included = Head(B).seen
         /\ Agree(Tail(c), Tail(B), k - 1)
         /\ Tail(c) \in Seq(OpenIf) /\ Tail(B) \in Seq(OpenGroup)
         /\ Head(c) \in OpenIf /\ Head(B) \in OpenGroup
         /\ Len(Tail(c)) = Len(c) - 1
<1>1. c # << >> /\ B # << >>
  <2>1. Len(c) # 0 /\ Len(B) # 0
    BY DEF Agree
  <2> QED BY <2>1
<1>2. /\ Tail(c) \in Seq(OpenIf) /\ Head(c) = c[1] /\ Head(c) \in OpenIf
      /\ Len(Tail(c)) = Len(c) - 1
      /\ \A i \in 1 .. Len(c) - 1 : Tail(c)[i] = c[i + 1]
  BY <1>1, TailAt
<1>3. /\ Tail(B) \in Seq(OpenGroup) /\ Head(B) = B[1] /\ Head(B) \in OpenGroup
      /\ Len(Tail(B)) = Len(B) - 1
      /\ \A i \in 1 .. Len(B) - 1 : Tail(B)[i] = B[i + 1]
  BY <1>1, TailAt
<1>4. Len(B) = k /\ 1 \in 1 .. k
  BY DEF Agree
<1>5. ASSUME NEW i \in 1 .. k - 1 PROVE Tail(c)[i].included = Tail(B)[i].seen
  <2>1. i + 1 \in 1 .. k /\ i \in 1 .. Len(c) - 1 /\ i \in 1 .. Len(B) - 1
    BY <1>4
  <2> QED BY <1>2, <1>3, <2>1 DEF Agree
<1>6. Head(c).included = Head(B).seen
  BY <1>2, <1>3, <1>4 DEF Agree
<1>7. Agree(Tail(c), Tail(B), k - 1)
  BY <1>3, <1>4, <1>5 DEF Agree
<1> QED BY <1>1, <1>2, <1>3, <1>6, <1>7

LEMMA TakenFirst ==
  ASSUME NEW B \in Seq(OpenGroup), B # << >>
  PROVE  Taken(B) <=> Head(B).now /\ Taken(Tail(B))
<1>1. /\ Head(B) = B[1] /\ Len(B) \in Nat /\ Len(B) >= 1
      /\ DOMAIN Tail(B) = 1 .. Len(B) - 1 /\ DOMAIN B = 1 .. Len(B)
      /\ \A i \in 1 .. Len(B) - 1 : Tail(B)[i] = B[i + 1]
  BY TailAt
<1>2. ASSUME Taken(B) PROVE Head(B).now /\ Taken(Tail(B))
  <2>1. 1 \in 1 .. Len(B) /\ \A i \in 1 .. Len(B) - 1 : i + 1 \in 1 .. Len(B)
    BY <1>1
  <2> QED BY <1>1, <1>2, <2>1 DEF Taken
<1>3. ASSUME Head(B).now, Taken(Tail(B)) PROVE Taken(B)
  <2>1. ASSUME NEW i \in 1 .. Len(B) PROVE B[i].now
    <3>1. CASE i = 1
      BY <1>1, <1>3, <3>1
    <3>2. CASE i # 1
      <4>1. i - 1 \in 1 .. Len(B) - 1 /\ i - 1 + 1 = i
        BY <1>1, <3>2
      <4>2. Tail(B)[i - 1] = B[i]
        BY <1>1, <4>1
      <4> QED BY <1>1, <1>3, <4>1, <4>2 DEF Taken
    <3> QED BY <3>1, <3>2
  <2> QED BY <1>1, <2>1 DEF Taken
<1> QED BY <1>2, <1>3

LEMMA TakenPush ==
  ASSUME NEW B \in Seq(OpenGroup), NEW h \in OpenGroup
  PROVE  /\ <<h>> \o B \in Seq(OpenGroup)
         /\ Taken(<<h>> \o B) <=> h.now /\ Taken(B)
<1>1. /\ <<h>> \o B \in Seq(OpenGroup) /\ <<h>> \o B # << >>
      /\ Head(<<h>> \o B) = h /\ Tail(<<h>> \o B) = B
  BY ConsParts, Zenon
<1> QED BY <1>1, TakenFirst

(* The groups of the includers lie below the boundary.                     *)
LEMMA NestedBelow ==
  ASSUME FilesTyped, Nested, NEW n \in 1 .. Len(frames)
  PROVE  frames[n].saved_cond_incl \in Nat /\ frames[n].saved_cond_incl <= Boundary
<1>1. \A i \in 1 .. Len(frames) : frames[i].saved_cond_incl \in Nat
  BY SavedTyped
<1>2. Boundary \in Nat /\ frames \in Seq(Frame) /\ Len(frames) \in Nat
  BY BoundaryNat DEF FilesTyped
<1>3. ASSUME ~(frames[n].saved_cond_incl <= Boundary) PROVE FALSE
  <2> DEFINE T == {i \in 1 .. Len(frames) : ~(frames[i].saved_cond_incl <= Boundary)}
  <2>1. T \subseteq Nat /\ T # {}
    BY <1>3
  <2>2. PICK i \in T : \A j \in T : i <= j
    BY <2>1, LeastOf
  <2>3. i \in 1 .. Len(frames) /\ ~(frames[i].saved_cond_incl <= Boundary)
    BY <2>2
  <2>4. i # 1
    <3>1. frames # << >>
      BY <1>2, <2>3, HeadSome
    <3>2. Boundary = frames[1].saved_cond_incl
      BY <3>1, BoundaryNat
    <3> QED BY <1>2, <2>3, <3>2
  <2>5. i - 1 \in 1 .. Len(frames) - 1 /\ i - 1 + 1 = i /\ ~(i <= i - 1)
        /\ i - 1 \in 1 .. Len(frames)
    BY <1>2, <2>3, <2>4
  <2>6. frames[i - 1 + 1].saved_cond_incl <= frames[i - 1].saved_cond_incl
    BY <2>5 DEF Nested
  <2>7. frames[i - 1].saved_cond_incl <= Boundary
    BY <2>2, <2>5
  <2> QED BY <1>1, <1>2, <2>3, <2>5, <2>6, <2>7
<1> QED BY <1>1, <1>3

-----------------------------------------------------------------------------
(* The files that wait for what they include: the groups that are open     *)
(* where they go on are those the code has put aside, all in a branch      *)
(* taken.                                                                  *)
Running == Streaming /\ eof_done = FALSE
FromEnd(c, k) == c[Len(c) + 1 - k]
Within(n, B) ==
  /\ Len(B) = frames[n].saved_cond_incl - LowestGroup(n + 1)
  /\ \A j \in 1 .. Len(B) :
        FromEnd(cond_incl, frames[n].saved_cond_incl + 1 - j).included = B[j].seen
Waits(n, B) ==
  Reads(frames[n].saved_pb, B, branches[n + 1], lexed) /\ Within(n, B) /\ Taken(B)
Waiting == Running => \A n \in 1 .. Len(frames) : \E B : Waits(n, B)

(* The groups of the includers are those counted from the end.             *)
SameBelow == \A k \in 1 .. Boundary : FromEnd(cond_incl', k) = FromEnd(cond_incl, k)

LEMMA LowestNat ==
  ASSUME FilesTyped, NEW n \in Nat \ {0}
  PROVE  LowestGroup(n) \in Nat
<1>1. frames \in Seq(Frame) /\ Len(frames) \in Nat
  BY DEF FilesTyped
<1>2. CASE n > Len(frames)
  BY <1>2 DEF LowestGroup
<1>3. CASE ~(n > Len(frames))
  <2>1. n \in 1 .. Len(frames)
    BY <1>1, <1>3
  <2> QED BY <1>3, <2>1, SavedTyped DEF LowestGroup
<1> QED BY <1>2, <1>3

LEMMA WithinKept ==
  ASSUME FilesTyped, Nested, NEW n \in 1 .. Len(frames), NEW B \in Seq(OpenGroup),
         Within(n, B), SameBelow, NEW f,
         f.saved_cond_incl = frames[n].saved_cond_incl,
         NEW low, low = LowestGroup(n + 1)
  PROVE  /\ Len(B) = f.saved_cond_incl - low
         /\ \A j \in 1 .. Len(B) :
               FromEnd(cond_incl', f.saved_cond_incl + 1 - j).included = B[j].seen
<1> DEFINE s == frames[n].saved_cond_incl
<1>1. s \in Nat /\ s <= Boundary /\ Boundary \in Nat /\ Len(B) \in Nat
  BY NestedBelow, BoundaryNat
<1>2. n + 1 \in Nat \ {0}
  OBVIOUS
<1>3. Len(B) = s - low /\ low \in Nat
  BY <1>2, LowestNat DEF Within
<1>4. ASSUME NEW j \in 1 .. Len(B)
      PROVE  FromEnd(cond_incl', s + 1 - j).included = B[j].seen
  <2>1. s + 1 - j \in 1 .. Boundary
    <3> HIDE DEF s
    <3> QED BY <1>1, <1>3
  <2>2. FromEnd(cond_incl', s + 1 - j) = FromEnd(cond_incl, s + 1 - j)
    BY <2>1 DEF SameBelow
  <2> QED BY <2>2 DEF Within
<1> QED BY <1>3, <1>4

LEMMA WaitingSame ==
  ASSUME Layout, Nested, Waiting, Running, frames' = frames, SameBelow,
         \A n \in 1 .. Len(frames) :
            /\ branches'[n + 1] = branches[n + 1]
            /\ \A x \in Saved(n) : x \in lexed <=> x \in lexed'
  PROVE  Waiting'
<1>1. FilesTyped
  BY DEF Layout
<1>2. ASSUME NEW n \in 1 .. Len(frames)
      PROVE  \E B : Waits(n, B)'
  <2>1. PICK B : Waits(n, B)
    BY DEF Waiting
  <2>2. frames[n].saved_pb \in Seq(Token)
    BY <1>1, SavedTyped
  <2>3. B \in Seq(OpenGroup)
    BY <2>1, <2>2, ReadsTyped DEF Waits
  <2>4. Reads(frames[n].saved_pb, B, branches'[n + 1], lexed')
    <3>1. \A x \in IdsOf(frames[n].saved_pb) : x \in lexed <=> x \in lexed'
      BY DEF Saved
    <3>2. Reads(frames[n].saved_pb, B, branches[n + 1], lexed')
      BY <2>1, <2>2, <3>1, ReadsMore DEF Waits
    <3> QED BY <3>2
  <2>5. LowestGroup(n + 1)' = LowestGroup(n + 1)
    BY DEF LowestGroup
  <2>6. Within(n, B)'
    <3>1. Within(n, B)
      BY <2>1 DEF Waits
    <3>2. /\ Len(B) = frames[n].saved_cond_incl - LowestGroup(n + 1)
          /\ \A j \in 1 .. Len(B) :
                FromEnd(cond_incl', frames[n].saved_cond_incl + 1 - j).included = B[j].seen
      BY <1>1, <2>3, <3>1, WithinKept
    <3> QED BY <2>5, <3>2 DEF Within, FromEnd
  <2> QED BY <2>1, <2>4, <2>6 DEF Waits
<1> QED BY <1>2 DEF Waiting

LEMMA BranchesAt ==
  ASSUME FilesTyped
  PROVE  /\ Len(branches) = Len(frames) + 1 /\ Len(frames) \in Nat
         /\ branches \in Seq(Seq(OpenGroup)) /\ frames \in Seq(Frame)
         /\ branches # << >>
<1>1. /\ Len(branches) = Len(frames) + 1 /\ frames \in Seq(Frame)
      /\ branches \in Seq(Seq(OpenGroup))
  BY DEF FilesTyped
<1>2. Len(frames) \in Nat
  BY <1>1
<1>3. branches # << >>
  <2>1. Len(branches) # 0
    BY <1>1, <1>2
  <2> QED BY <2>1
<1> QED BY <1>1, <1>2, <1>3

LEMMA EntersAt ==
  ASSUME Layout, Enters
  PROVE  /\ Len(frames') = Len(frames) + 1 /\ frames'[1] = NewFrame(pb)
         /\ \A n \in 1 .. Len(frames) : frames'[n + 1] = frames[n]
         /\ \A n \in 1 .. Len(frames) + 1 : branches'[n + 1] = branches[n]
         /\ branches'[1] = << >>
         /\ \A n \in 1 .. Len(frames) + 1 : LowestGroup(n + 1)' = LowestGroup(n)
         /\ Boundary' = Len(cond_incl)
<1>1. /\ frames' = <<NewFrame(pb)>> \o frames /\ branches' = <<<< >>>> \o branches
      /\ NewFrame(pb) \in Frame /\ FilesTyped
  BY DEF Enters, Layout
<1>2. /\ frames \in Seq(Frame) /\ branches \in Seq(Seq(OpenGroup)) /\ Len(frames) \in Nat
      /\ Len(branches) = Len(frames) + 1
  BY <1>1, BranchesAt
<1>3. /\ Len(frames') = Len(frames) + 1 /\ frames' # << >> /\ Head(frames') = NewFrame(pb)
      /\ \A i \in 1 .. Len(frames) + 1 :
            frames'[i] = IF i = 1 THEN NewFrame(pb) ELSE frames[i - 1]
  BY <1>1, <1>2, ConsAt, ConsParts
<1>4. \A i \in 1 .. Len(branches) + 1 :
         branches'[i] = IF i = 1 THEN << >> ELSE branches[i - 1]
  <2>1. << >> \in Seq(OpenGroup)
    OBVIOUS
  <2> QED BY <1>1, <1>2, <2>1, ConsAt
<1>5. ASSUME NEW n \in 1 .. Len(frames) PROVE frames'[n + 1] = frames[n]
  <2>1. n + 1 \in 1 .. Len(frames) + 1 /\ n + 1 # 1 /\ n + 1 - 1 = n
    BY <1>2
  <2> QED BY <1>3, <2>1
<1>6. ASSUME NEW n \in 1 .. Len(frames) + 1
      PROVE  branches'[n + 1] = branches[n] /\ LowestGroup(n + 1)' = LowestGroup(n)
  <2>1. n + 1 \in 1 .. Len(branches) + 1 /\ n + 1 # 1 /\ n + 1 - 1 = n
    BY <1>2
  <2>2. CASE n = Len(frames) + 1
    <3>1. n > Len(frames) /\ n + 1 > Len(frames')
      BY <1>2, <1>3, <2>2
    <3> QED BY <1>4, <2>1, <3>1 DEF LowestGroup
  <2>3. CASE n # Len(frames) + 1
    <3>1. n \in 1 .. Len(frames) /\ ~(n > Len(frames)) /\ ~(n + 1 > Len(frames'))
      BY <1>2, <1>3, <2>3
    <3> QED BY <1>4, <1>5, <2>1, <3>1 DEF LowestGroup
  <2> QED BY <2>2, <2>3
<1>7. frames'[1] = NewFrame(pb) /\ branches'[1] = << >>
  <2>1. 1 \in 1 .. Len(frames) + 1 /\ 1 \in 1 .. Len(branches) + 1
    BY <1>2
  <2> QED BY <1>3, <1>4, <2>1
<1>8. Boundary' = Len(cond_incl)
  BY <1>3 DEF Boundary, NewFrame
<1> QED BY <1>3, <1>5, <1>6, <1>7, <1>8

LEMMA FirstLowest ==
  ASSUME FilesTyped
  PROVE  LowestGroup(1) = Boundary
<1>1. frames \in Seq(Frame) /\ Len(frames) \in Nat
  BY BranchesAt
<1>2. CASE frames = << >>
  <2>1. 1 > Len(frames)
    BY <1>2
  <2> QED BY <1>2, <2>1 DEF LowestGroup, Boundary
<1>3. CASE frames # << >>
  <2>1. ~(1 > Len(frames))
    BY <1>1, <1>3
  <2> QED BY <1>3, <2>1, BoundaryNat DEF LowestGroup
<1> QED BY <1>2, <1>3

LEMMA WaitingEnters ==
  ASSUME Layout, Nested, Waiting, Running, Enters,
         NEW B, Reads(Queue, B, branches[1], lexed), Atop(B), Taken(B)
  PROVE  Waiting'
<1>1. /\ lexed' = lexed /\ cond_incl' = cond_incl /\ FilesTyped
      /\ Queue = <<held[1]>> \o pb /\ held[1].kind = "include" /\ Len(frames) \in Nat
  BY BranchesAt DEF Enters, Groups, Layout
<1>2. /\ Queue \in Seq(Token) /\ pb \in Seq(Token)
  BY OrderTypes DEF Layout, TokensTyped
<1>3. /\ Queue # << >> /\ Head(Queue) = held[1] /\ Tail(Queue) = pb /\ held[1] \in Token
  <2>1. Queue # << >> /\ Queue[1] = held[1]
    BY <1>1
  <2>2. held[1] \in Token
    BY <1>2, <2>1, TailAt
  <2> QED BY <1>1, <1>2, <2>1, <2>2, ConsParts, Zenon
<1>4. /\ Len(frames') = Len(frames) + 1 /\ frames'[1] = NewFrame(pb)
      /\ \A n \in 1 .. Len(frames) : frames'[n + 1] = frames[n]
      /\ \A n \in 1 .. Len(frames) + 1 : branches'[n + 1] = branches[n]
      /\ \A n \in 1 .. Len(frames) + 1 : LowestGroup(n + 1)' = LowestGroup(n)
  BY EntersAt
<1>5. B \in Seq(OpenGroup) /\ Len(B) \in Nat
  BY <1>2, ReadsTyped
<1>6. Waits(1, B)'
  <2>1. Reads(pb, B, branches[1], lexed)
    <3>1. AfterKind("include", B) = B
      BY DEF AfterKind, If, Elif
    <3>2. Reads(Tail(Queue), AfterKind(Head(Queue).kind, B), branches[1], lexed)
      BY <1>2, <1>3, ReadsFirst
    <3> QED BY <1>1, <1>3, <3>1, <3>2
  <2>2. 1 \in 1 .. Len(frames) + 1
    BY <1>1
  <2>3. frames'[1].saved_pb = pb /\ frames'[1].saved_cond_incl = Len(cond_incl)
    BY <1>4 DEF NewFrame
  <2>4. branches'[1 + 1] = branches[1] /\ LowestGroup(1 + 1)' = Boundary
    BY <1>1, <1>4, <2>2, FirstLowest
  <2>5. Reads(frames'[1].saved_pb, B, branches'[1 + 1], lexed')
    BY <1>1, <2>1, <2>3, <2>4
  <2>6. Within(1, B)'
    <3>1. /\ Len(B) = Len(cond_incl) - Boundary
          /\ \A j \in 1 .. Len(B) : cond_incl[j].included = B[j].seen
      BY DEF Atop, Agree
    <3>2. \A j \in 1 .. Len(B) : Len(cond_incl) + 1 - (Len(cond_incl) + 1 - j) = j
      <4>1. Len(cond_incl) \in Nat
        BY <1>1, BoundaryNat
      <4> QED BY <4>1
    <3>3. \A j \in 1 .. Len(B) :
            FromEnd(cond_incl', Len(cond_incl) + 1 - j).included = B[j].seen
      BY <1>1, <3>1, <3>2 DEF FromEnd
    <3> QED BY <2>3, <2>4, <3>1, <3>3 DEF Within, FromEnd
  <2> QED BY <2>5, <2>6 DEF Waits
<1>7. ASSUME NEW n \in 1 .. Len(frames), NEW k, k = n + 1
      PROVE  \E C : Waits(k, C)'
  <2>1. PICK C : Waits(n, C)
    BY DEF Waiting
  <2>2. n \in 1 .. Len(frames) + 1 /\ n + 1 \in 1 .. Len(frames) + 1
    BY <1>1
  <2>3. /\ frames'[k] = frames[n] /\ branches'[k + 1] = branches[n + 1]
        /\ LowestGroup(k + 1)' = LowestGroup(n + 1)
    BY <1>4, <1>7, <2>2
  <2>5. Within(k, C)'
    BY <1>1, <2>1, <2>3 DEF Waits, Within, FromEnd
  <2> QED BY <1>1, <2>1, <2>3, <2>5 DEF Waits
<1>8. ASSUME NEW k \in 1 .. Len(frames') PROVE \E C : Waits(k, C)'
  <2>1. CASE k = 1
    BY <1>6, <2>1
  <2>2. CASE k # 1
    <3>1. k - 1 \in 1 .. Len(frames) /\ k = (k - 1) + 1
      BY <1>1, <1>4, <2>2
    <3> QED BY <1>7, <3>1
  <2> QED BY <2>1, <2>2
<1> QED BY <1>8 DEF Waiting

LEMMA LeavesAt ==
  ASSUME Layout, Nested, Leaves, Balance
  PROVE  /\ Len(frames') = Len(frames) - 1 /\ Len(frames) >= 1
         /\ \A n \in 1 .. Len(frames') :
               n + 1 \in 1 .. Len(frames) /\ frames'[n] = frames[n + 1]
         /\ \A n \in 1 .. Len(frames) : branches'[n] = branches[n + 1]
         /\ \A n \in 1 .. Len(frames) : LowestGroup(n)' = LowestGroup(n + 1)
         /\ Len(cond_incl') = Boundary /\ SameBelow
         /\ Boundary = frames[1].saved_cond_incl
         /\ Head(frames).saved_pb = frames[1].saved_pb
<1>1. /\ frames # << >> /\ frames' = Tail(frames) /\ branches' = Tail(branches)
      /\ FilesTyped /\ Boundary <= Len(cond_incl)
  BY DEF Leaves, Layout, Nested
<1>2. /\ frames \in Seq(Frame) /\ branches \in Seq(Seq(OpenGroup)) /\ Len(frames) \in Nat
      /\ Len(branches) = Len(frames) + 1 /\ branches # << >>
  BY <1>1, BranchesAt
<1>3. /\ Len(frames') = Len(frames) - 1 /\ Len(frames) >= 1
      /\ \A i \in 1 .. Len(frames) - 1 : frames'[i] = frames[i + 1]
      /\ Head(frames) = frames[1]
  BY <1>1, <1>2, TailAt
<1>4. \A i \in 1 .. Len(branches) - 1 : branches'[i] = branches[i + 1]
  BY <1>1, <1>2, TailAt
<1>5. Boundary = frames[1].saved_cond_incl
  BY <1>1, <1>3, BoundaryNat
<1>6. \A n \in 1 .. Len(frames') : n + 1 \in 1 .. Len(frames) /\ frames'[n] = frames[n + 1]
  BY <1>2, <1>3
<1>7. ASSUME NEW n \in 1 .. Len(frames)
      PROVE  branches'[n] = branches[n + 1] /\ LowestGroup(n)' = LowestGroup(n + 1)
  <2>1. n \in 1 .. Len(branches) - 1
    BY <1>2
  <2>2. CASE n = Len(frames)
    <3>1. n > Len(frames') /\ n + 1 > Len(frames)
      BY <1>2, <1>3, <2>2
    <3> QED BY <1>4, <2>1, <3>1 DEF LowestGroup
  <2>3. CASE n # Len(frames)
    <3>1. n \in 1 .. Len(frames') /\ ~(n > Len(frames')) /\ ~(n + 1 > Len(frames))
      BY <1>2, <1>3, <2>3
    <3> QED BY <1>4, <1>6, <2>1, <3>1 DEF LowestGroup
  <2> QED BY <2>2, <2>3
<1>8. /\ Len(cond_incl') = Boundary
      /\ \A i \in 1 .. Boundary : cond_incl'[i] = cond_incl[Len(cond_incl) - Boundary + i]
  BY <1>1, BalanceTyped
<1>9. SameBelow
  <2>1. ASSUME NEW k \in 1 .. Boundary
        PROVE  cond_incl'[Len(cond_incl') + 1 - k] = cond_incl[Len(cond_incl) + 1 - k]
    <3>1. Boundary \in Nat /\ Len(cond_incl) \in Nat
      BY <1>1, BoundaryNat
    <3>2. /\ Boundary + 1 - k \in 1 .. Boundary
          /\ Len(cond_incl) - Boundary + (Boundary + 1 - k) = Len(cond_incl) + 1 - k
      BY <3>1
    <3> QED BY <1>8, <3>2
  <2> QED BY <2>1 DEF SameBelow, FromEnd
<1> QED BY <1>3, <1>5, <1>6, <1>7, <1>8, <1>9

LEMMA FirstNext ==
  ASSUME FilesTyped'
  PROVE  LowestGroup(1)' = Boundary'
<1>1. frames' \in Seq(Frame) /\ Len(frames') \in Nat
  BY DEF FilesTyped
<1>2. CASE frames' = << >>
  <2>1. 1 > Len(frames')
    BY <1>2
  <2> QED BY <1>2, <2>1 DEF LowestGroup, Boundary
<1>3. CASE frames' # << >>
  <2>1. ~(1 > Len(frames')) /\ Head(frames') = frames'[1]
    BY <1>1, <1>3
  <2> QED BY <1>3, <2>1 DEF LowestGroup, Boundary
<1> QED BY <1>2, <1>3

LEMMA WaitingLeaves ==
  ASSUME Layout, Nested, Waiting, Running, Leaves, Balance
  PROVE  Waiting'
<1>1. lexed' = lexed /\ FilesTyped /\ Len(frames) \in Nat
  BY BranchesAt DEF Leaves, Layout
<1>2. /\ Len(frames') = Len(frames) - 1
      /\ \A n \in 1 .. Len(frames') :
            n + 1 \in 1 .. Len(frames) /\ frames'[n] = frames[n + 1]
      /\ \A n \in 1 .. Len(frames) : branches'[n] = branches[n + 1]
      /\ \A n \in 1 .. Len(frames) : LowestGroup(n)' = LowestGroup(n + 1)
      /\ SameBelow
  BY LeavesAt
<1>3. ASSUME NEW k \in 1 .. Len(frames'), NEW n \in 1 .. Len(frames), n = k + 1
      PROVE  \E B : Waits(k, B)'
  <2>1. PICK B : Waits(n, B)
    BY DEF Waiting
  <2>2. frames[n].saved_pb \in Seq(Token)
    BY <1>1, SavedTyped
  <2>3. B \in Seq(OpenGroup)
    BY <2>1, <2>2, ReadsTyped DEF Waits
  <2>4. /\ frames'[k] = frames[n] /\ branches'[k + 1] = branches[n + 1]
        /\ LowestGroup(k + 1)' = LowestGroup(n + 1)
    BY <1>2, <1>3
  <2>5. Within(n, B)
    BY <2>1 DEF Waits
  <2>6. /\ Len(B) = frames[n].saved_cond_incl - LowestGroup(n + 1)
        /\ \A j \in 1 .. Len(B) :
              FromEnd(cond_incl', frames[n].saved_cond_incl + 1 - j).included = B[j].seen
    BY <1>1, <1>2, <2>3, <2>5, WithinKept
  <2>7. Within(k, B)'
    BY <2>4, <2>6 DEF Within, FromEnd
  <2> QED BY <1>1, <2>1, <2>4, <2>7 DEF Waits
<1>4. \A k \in 1 .. Len(frames') : \E B : Waits(k, B)'
  BY <1>2, <1>3
<1> QED BY <1>4 DEF Waiting

(* The includer goes on where it stopped.                                  *)
LEMMA GoesOn ==
  ASSUME Layout, Nested, Waiting, Running, Leaves, Balance, FilesTyped'
  PROVE  \E B : Reads(Queue', B, branches'[1], lexed') /\ Atop(B)' /\ Taken(B)
<1>1. lexed' = lexed /\ FilesTyped /\ Len(frames) \in Nat /\ Queue' = Head(frames).saved_pb
  BY BranchesAt DEF Leaves, Layout
<1>2. /\ Len(frames') = Len(frames) - 1 /\ Len(frames) >= 1
      /\ \A n \in 1 .. Len(frames) : branches'[n] = branches[n + 1]
      /\ \A n \in 1 .. Len(frames) : LowestGroup(n)' = LowestGroup(n + 1)
      /\ SameBelow /\ Len(cond_incl') = Boundary
      /\ Boundary = frames[1].saved_cond_incl
      /\ Head(frames).saved_pb = frames[1].saved_pb
  BY LeavesAt
<1>3. 1 \in 1 .. Len(frames)
  BY <1>1, <1>2
<1>4. PICK B : Waits(1, B)
  BY <1>3 DEF Waiting
<1>5. frames[1].saved_pb \in Seq(Token)
  BY <1>1, <1>3, SavedTyped
<1>6. B \in Seq(OpenGroup) /\ Len(B) \in Nat
  <2>1. B \in Seq(OpenGroup)
    BY <1>4, <1>5, ReadsTyped DEF Waits
  <2> QED BY <2>1
<1>7. Reads(Queue', B, branches'[1], lexed')
  BY <1>1, <1>2, <1>3, <1>4 DEF Waits
<1>8. Boundary' = LowestGroup(1 + 1)
  BY <1>2, <1>3, FirstNext
<1>9. /\ Len(B) = Boundary - LowestGroup(1 + 1)
      /\ \A j \in 1 .. Len(B) : FromEnd(cond_incl', Boundary + 1 - j).included = B[j].seen
  <2>1. Within(1, B)
    BY <1>4 DEF Waits
  <2> QED BY <1>1, <1>2, <1>3, <1>6, <2>1, WithinKept
<1>10. \A j \in 1 .. Len(B) : Boundary + 1 - (Boundary + 1 - j) = j
  <2>1. Boundary \in Nat
    BY <1>1, BoundaryNat
  <2> QED BY <2>1
<1>11. \A j \in 1 .. Len(B) : cond_incl'[j].included = B[j].seen
  BY <1>2, <1>9, <1>10 DEF FromEnd
<1>12. Atop(B)'
  BY <1>2, <1>8, <1>9, <1>11 DEF Atop, Agree
<1> QED BY <1>4, <1>7, <1>12 DEF Waits

-----------------------------------------------------------------------------
(* What the code has open where it reads.  While a branch is skipped, the  *)
(* groups nested in it lie on top of those of the code, the innermost of   *)
(* which is in a branch not taken.  Otherwise all are in a branch taken,   *)
(* unless the directive that ends the skipped one is read again; at the    *)
(* end of the file no group matters any more.                              *)
Resumed == Elif \cup {"else", "endif"}
Skips == {"skip", "skipped", "null"}
First(kinds) == Queue # << >> /\ Head(Queue).kind \in kinds
ReadMatch(B) ==
  \/ First({"eof"})
  \/ /\ Atop(B)
     /\ Taken(B) \/ (First(Resumed) /\ B # << >> /\ Taken(Tail(B)))
SkipMatch(B) ==
  /\ Len(cond_incl) > Boundary /\ Len(B) = nest + (Len(cond_incl) - Boundary)
  /\ \A j \in 1 .. Len(cond_incl) - Boundary :
        B[nest + j].seen = cond_incl[j].included /\ (B[nest + j].now <=> j > 1)
Here(B) ==
  /\ Reads(Queue, B, branches[1], lexed)
  /\ pc \in Skips => SkipMatch(B)
  /\ pc \notin Skips => nest = 0 /\ ReadMatch(B)
Reading == Running => \E B : Here(B)

LEMMA HeadRead ==
  ASSUME NEW B, Here(B), pc \notin Skips, Queue # << >>,
         Head(Queue).kind \notin Resumed \cup {"eof"}
  PROVE  Atop(B) /\ Taken(B)
BY DEF Here, ReadMatch, First

LEMMA MatchKept ==
  ASSUME NEW B, ReadMatch(B), cond_incl' = cond_incl, frames' = frames,
         Queue # << >> => Queue' # << >> /\ Head(Queue') = Head(Queue)
  PROVE  ReadMatch(B)'
<1>1. Boundary' = Boundary
  BY DEF Boundary
<1>2. Atop(B)' <=> Atop(B)
  BY <1>1 DEF Atop, Agree
<1>3. \A k : First(k) => First(k)'
  BY DEF First
<1> QED BY <1>2, <1>3 DEF ReadMatch

LEMMA SkipKept ==
  ASSUME NEW B, SkipMatch(B), cond_incl' = cond_incl, frames' = frames, nest' = nest
  PROVE  SkipMatch(B)'
<1>1. Boundary' = Boundary
  BY DEF Boundary
<1> QED BY <1>1 DEF SkipMatch

LEMMA ReadingStays ==
  ASSUME Reading, Running, Queue' = Queue, UNCHANGED <<Text, Groups, frames>>,
         pc \in Skips <=> pc' \in Skips
  PROVE  Reading'
<1>1. PICK B : Here(B)
  BY DEF Reading
<1>2. Reads(Queue, B, branches[1], lexed)'
  BY <1>1 DEF Here, Text
<1>3. pc' \in Skips => SkipMatch(B)'
  BY <1>1, SkipKept DEF Here, Groups
<1>4. pc' \notin Skips => nest' = 0 /\ ReadMatch(B)'
  BY <1>1, MatchKept DEF Here, Groups
<1>5. Here(B)'
  BY <1>2, <1>3, <1>4 DEF Here
<1> QED BY <1>5 DEF Reading

(* Where a new token goes.                                                 *)
LEMMA PulledApart ==
  ASSUME Layout, InOrder, Whole, UNCHANGED <<out, Files>>, AllocatorInv',
         NEW t, New(t)
  PROVE  /\ t.id \notin lexed /\ t.id \notin IdsOf(Queue)
         /\ \A n \in 1 .. Len(frames) : t.id \notin Saved(n)
<1>1. /\ t \in Token /\ t.id = Newest' /\ Newest' > Newest
  BY DEF New
<1>2. /\ Queue \in Seq(Token) /\ out \in Seq(Token) /\ Newest \in Int /\ Newest' \in Int
  BY OrderTypes, NewestNext
<1>3. t.id \notin IdsOf(Queue)
  <2>1. Below(Queue, Newest)
    BY DEF InOrder, Ordered, Of, Below
  <2> QED BY <1>1, <1>2, <2>1, IdsBelow
<1>4. t.id \notin IdsOf(out)
  BY <1>1, <1>2, IdsBelow DEF InOrder
<1>5. ASSUME NEW n \in 1 .. Len(frames) PROVE t.id \notin Saved(n)
  <2>1. frames[n].saved_pb \in Seq(Token)
    BY OrderTypes, SavedTyped
  <2>2. Below(frames[n].saved_pb, Newest)
    BY DEF InOrder, Ordered, Of, Below
  <2> QED BY <1>1, <1>2, <2>1, <2>2, IdsBelow DEF Saved
<1>6. t.id \notin lexed
  BY <1>3, <1>4, <1>5 DEF Whole, Kept
<1> QED BY <1>3, <1>5, <1>6

LEMMA PulledText ==
  ASSUME Layout, InOrder, Whole, UNCHANGED <<out, Files>>, AllocatorInv',
         NEW t, Pulled(t)
  PROVE  \A n \in 1 .. Len(frames) :
            /\ branches'[n + 1] = branches[n + 1]
            /\ \A x \in Saved(n) : x \in lexed <=> x \in lexed'
<1>1. CASE Repeated
  BY <1>1 DEF Repeated
<1>2. CASE New(t)
  <2>1. /\ branches' = [branches EXCEPT ![1] = AfterKind(t.kind, @)]
        /\ lexed' = IF t.kind = "plain" /\ Taken(branches[1])
                      THEN lexed \cup {t.id} ELSE lexed
    BY <1>2 DEF New
  <2>2. ASSUME NEW n \in 1 .. Len(frames) PROVE branches'[n + 1] = branches[n + 1]
    <3>1. /\ n + 1 # 1 /\ n + 1 \in 1 .. Len(branches) /\ branches \in Seq(Seq(OpenGroup))
      BY BranchesAt DEF Layout
    <3>2. DOMAIN branches = 1 .. Len(branches)
      BY <3>1
    <3> QED BY <2>1, <3>1, <3>2
  <2>3. \A n \in 1 .. Len(frames) : t.id \notin Saved(n)
    BY <1>2, PulledApart
  <2> QED BY <2>1, <2>2, <2>3
<1> QED BY <1>1, <1>2 DEF Pulled

LEMMA HeadStays ==
  ASSUME NEW s \in Seq(Token), NEW t \in Token, s # << >>
  PROVE  Append(s, t) # << >> /\ Head(Append(s, t)) = Head(s)
<1>1. /\ Len(s) \in Nat /\ Len(s) >= 1 /\ Append(s, t) \in Seq(Token)
      /\ Len(Append(s, t)) = Len(s) + 1 /\ \A i \in 1 .. Len(s) : Append(s, t)[i] = s[i]
      /\ Head(s) = s[1]
  BY AppendAt, TailAt
<1> QED BY <1>1

LEMMA ReadingPulls ==
  ASSUME Layout, InOrder, Whole, Reading, Running, UNCHANGED <<out, Files, Groups>>,
         AllocatorInv', NEW t, Pulled(t), pc \in Skips <=> pc' \in Skips
  PROVE  Reading'
<1>1. CASE Repeated
  BY <1>1, ReadingStays DEF Repeated, Text, Files
<1>2. CASE New(t)
  <2>1. PICK B : Here(B)
    BY DEF Reading
  <2>2. /\ t \in Token /\ Queue' = Append(Queue, t)
        /\ branches' = [branches EXCEPT ![1] = AfterKind(t.kind, @)]
        /\ lexed' = IF t.kind = "plain" /\ Taken(branches[1])
                      THEN lexed \cup {t.id} ELSE lexed
    BY <1>2 DEF New
  <2>3. Queue \in Seq(Token) /\ branches[1] \in Seq(OpenGroup) /\ Len(branches) >= 1
    BY OrderTypes, BranchesTyped DEF Layout
  <2>4. branches'[1] = AfterKind(t.kind, branches[1])
    <3>1. DOMAIN branches = 1 .. Len(branches) /\ 1 \in 1 .. Len(branches)
      BY <2>3, BranchesAt DEF Layout
    <3> QED BY <2>2, <3>1
  <2>5. t.id \notin lexed /\ t.id \notin IdsOf(Queue)
    BY <1>2, PulledApart
  <2>6. \A x \in IdsOf(Queue) : x \in lexed <=> x \in lexed'
    BY <2>2, <2>5
  <2>7. Reads(Queue, B, branches[1], lexed')
    BY <2>1, <2>3, <2>6, ReadsMore DEF Here
  <2>8. Marked(t, branches[1], lexed')
    BY <2>2, <2>5 DEF Marked, Source
  <2>9. Reads(Queue', B, branches'[1], lexed')
    BY <2>2, <2>3, <2>4, <2>7, <2>8, ReadsLonger
  <2>10. Queue # << >> => Queue' # << >> /\ Head(Queue') = Head(Queue)
    BY <2>2, <2>3, HeadStays
  <2>11. pc' \in Skips => SkipMatch(B)'
    BY <2>1, SkipKept DEF Here, Groups, Files
  <2>12. pc' \notin Skips => nest' = 0 /\ ReadMatch(B)'
    BY <2>1, <2>10, MatchKept DEF Here, Groups, Files
  <2>13. Here(B)'
    BY <2>9, <2>11, <2>12 DEF Here
  <2> QED BY <2>13 DEF Reading
<1> QED BY <1>1, <1>2 DEF Pulled

(* A token that is no conditional directive is obeyed, or delivered.       *)
LEMMA ReadingDrops ==
  ASSUME Layout, Reading, Running, Queue # << >>, Queue' = Tail(Queue),
         UNCHANGED <<Text, Groups, frames>>, pc \notin Skips, pc' \notin Skips,
         Head(Queue).kind \notin Conditionals \cup {"eof"}
  PROVE  Reading'
<1>1. PICK B : Here(B)
  BY DEF Reading
<1>2. Queue \in Seq(Token)
  BY OrderTypes
<1>3. Atop(B) /\ Taken(B)
  BY <1>1, HeadRead DEF Resumed, Conditionals
<1>4. AfterKind(Head(Queue).kind, B) = B
  BY DEF AfterKind, Conditionals
<1>5. Reads(Tail(Queue), B, branches[1], lexed)
  BY <1>1, <1>2, <1>4, ReadsFirst DEF Here
<1>6. Reads(Queue, B, branches[1], lexed)'
  BY <1>5 DEF Text
<1>7. Atop(B)'
  <2>1. Boundary' = Boundary
    BY DEF Boundary
  <2> QED BY <1>3, <2>1 DEF Atop, Agree, Groups
<1>8. Here(B)'
  BY <1>1, <1>3, <1>6, <1>7 DEF Here, ReadMatch, Groups
<1> QED BY <1>8 DEF Reading

LEMMA BranchReads ==
  ASSUME Layout, Running, pc = "directive", Drops,
         NEW g \in Seq(OpenIf), NEW read, Branch(g, read),
         NEW B, Here(B), NEW C, C = AfterKind(Head(Queue).kind, B),
         Agree(g, C, Len(g) - Boundary), read => Taken(C),
         ~read => /\ Len(g) > Boundary
                  /\ \A j \in 1 .. Len(g) - Boundary : C[j].now <=> j > 1
  PROVE  Reading'
<1>1. /\ Queue # << >> /\ Queue' = Tail(Queue) /\ frames' = frames
      /\ branches' = branches /\ lexed' = lexed
  BY DEF Drops, Files, Text
<1>2. Queue \in Seq(Token)
  BY OrderTypes
<1>3. cond_incl' = g /\ nest' = nest /\ nest = 0
  BY DEF Branch, Here, Skips
<1>4. Reads(Queue', C, branches'[1], lexed')
  BY <1>1, <1>2, ReadsFirst DEF Here
<1>5. Boundary' = Boundary
  BY <1>1 DEF Boundary
<1>6. CASE read
  <2>1. pc' = "loop"
    BY <1>6 DEF Branch, EndStep
  <2>2. Atop(C)' /\ Taken(C)
    BY <1>3, <1>5, <1>6 DEF Atop, Agree
  <2>3. ReadMatch(C)'
    BY <2>2 DEF ReadMatch
  <2>4. Here(C)'
    BY <1>3, <1>4, <2>1, <2>3 DEF Here, Skips
  <2> QED BY <2>4 DEF Reading
<1>7. CASE ~read
  <2>1. pc' = "skip"
    BY <1>7 DEF Branch
  <2>2. /\ Len(C) = Len(g) - Boundary /\ Len(g) \in Int /\ Boundary \in Int
        /\ \A j \in 1 .. Len(g) - Boundary :
              C[j].seen = g[j].included /\ (C[j].now <=> j > 1)
    <3>1. /\ Len(C) = Len(g) - Boundary
          /\ \A j \in 1 .. Len(g) - Boundary :
                C[j].seen = g[j].included /\ (C[j].now <=> j > 1)
      BY <1>7 DEF Agree
    <3>2. Len(g) \in Int /\ Boundary \in Int
      BY BoundaryNat DEF Layout
    <3> QED BY <3>1, <3>2
  <2>3. SkipMatch(C)'
    <3>1. 0 + (Len(g) - Boundary) = Len(g) - Boundary
      BY <2>2
    <3>2. \A j \in 1 .. Len(g) - Boundary : 0 + j = j
      OBVIOUS
    <3> QED BY <1>3, <1>5, <1>7, <2>2, <3>1, <3>2 DEF SkipMatch
  <2>4. Here(C)'
    BY <1>4, <2>1, <2>3 DEF Here, Skips
  <2> QED BY <2>4 DEF Reading
<1> QED BY <1>6, <1>7

LEMMA PushedNow ==
  ASSUME NEW B \in Seq(OpenGroup), Taken(B), NEW h \in OpenGroup, h.now = FALSE
  PROVE  \A j \in 1 .. Len(<<h>> \o B) : (<<h>> \o B)[j].now <=> j > 1
<1> DEFINE C == <<h>> \o B
<1>1. /\ Len(C) = Len(B) + 1 /\ Len(B) \in Nat
      /\ \A i \in 1 .. Len(B) + 1 : C[i] = IF i = 1 THEN h ELSE B[i - 1]
  BY ConsAt
<1>2. DOMAIN B = 1 .. Len(B)
  OBVIOUS
<1> HIDE DEF C
<1>3. ASSUME NEW j \in 1 .. Len(C) PROVE C[j].now <=> j > 1
  <2>1. CASE j = 1
    BY <1>1, <2>1
  <2>2. CASE j # 1
    <3>1. j - 1 \in 1 .. Len(B) /\ j > 1
      BY <1>1, <2>2
    <3>2. C[j] = B[j - 1]
      BY <1>1, <2>2
    <3>3. B[j - 1].now
      BY <1>2, <3>1 DEF Taken
    <3> QED BY <3>1, <3>2, <3>3
  <2> QED BY <2>1, <2>2
<1> QED BY <1>3 DEF C

(* A branch begins: d is its group for the code, h the one of the text.    *)
LEMMA PushReads ==
  ASSUME Layout, Running, pc = "directive", Drops, NEW B, Here(B),
         NEW c \in Seq(OpenIf), NEW T \in Seq(OpenGroup), NEW k \in Nat,
         Agree(c, T, k), Len(c) = Boundary + k, Taken(T),
         NEW d \in OpenIf, NEW h \in OpenGroup, d.included = h.seen,
         NEW read \in BOOLEAN, h.now = read, Branch(<<d>> \o c, read),
         AfterKind(Head(Queue).kind, B) = <<h>> \o T
  PROVE  Reading'
<1>1. PICK C : C = <<h>> \o T
  OBVIOUS
<1>2. PICK g : g = <<d>> \o c
  OBVIOUS
<1>3. g \in Seq(OpenIf) /\ Len(g) = Len(c) + 1 /\ Branch(g, read)
  BY <1>2, ConsAt
<1>4. Boundary \in Nat
  BY BoundaryNat DEF Layout
<1>5. Len(g) - Boundary = k + 1 /\ Len(g) > Boundary /\ k <= Len(c)
  BY <1>3, <1>4
<1>6. Agree(g, C, k + 1)
  BY <1>1, <1>2, <1>5, AgreePush
<1>7. Agree(g, C, Len(g) - Boundary) /\ C = AfterKind(Head(Queue).kind, B)
  BY <1>1, <1>5, <1>6
<1>8. read => Taken(C)
  BY <1>1, TakenPush
<1>9. ASSUME ~read
      PROVE  Len(g) > Boundary /\ \A j \in 1 .. Len(g) - Boundary : C[j].now <=> j > 1
  <2>1. h.now = FALSE
    BY <1>9
  <2>2. Len(C) = Len(g) - Boundary
    BY <1>7 DEF Agree
  <2>3. \A j \in 1 .. Len(C) : C[j].now <=> j > 1
    BY <1>1, <2>1, PushedNow
  <2> QED BY <1>5, <2>2, <2>3
<1> QED BY <1>3, <1>7, <1>8, <1>9, BranchReads

LEMMA ReadingIf ==
  ASSUME Layout, Nested, Reading, Running, IfDirective
  PROVE  Reading'
<1> DEFINE b == held[1].kind = "if_true"
           d == [ctx |-> "then", included |-> b]
           h == Group(b, FALSE)
<1>1. /\ pc = "directive" /\ held[1].kind \in If /\ Branch(<<d>> \o cond_incl, b)
  BY DEF IfDirective, Directive, tok
<1>2. Drops
  BY DropsToken
<1>3. Queue # << >> /\ Head(Queue) = held[1]
  BY <1>2 DEF Drops
<1>4. PICK B : Here(B)
  BY DEF Reading
<1>5. Atop(B) /\ Taken(B)
  BY <1>1, <1>3, <1>4, HeadRead DEF Skips, If, Resumed, Elif
<1>6. /\ cond_incl \in Seq(OpenIf) /\ Boundary \in Nat /\ Len(cond_incl) \in Nat
      /\ Boundary <= Len(cond_incl) /\ B \in Seq(OpenGroup)
  BY <1>4, OrderTypes, ReadsTyped, BoundaryNat DEF FilesTyped, Nested, Here
<1>7. PICK k \in Nat : k = Len(cond_incl) - Boundary /\ Len(cond_incl) = Boundary + k
  BY <1>6
<1>8. Agree(cond_incl, B, k)
  BY <1>5, <1>7 DEF Atop
<1>9. AfterKind(Head(Queue).kind, B) = <<h>> \o B
  BY <1>1, <1>3 DEF AfterKind
<1>10. b \in BOOLEAN
  OBVIOUS
<1> HIDE DEF b
<1>11. h \in OpenGroup /\ h.now = b /\ h.seen = b /\ d \in OpenIf /\ d.included = b
  BY <1>10 DEF Group, OpenGroup, OpenIf
<1> HIDE DEF h, d
<1> QED BY <1>1, <1>2, <1>4, <1>5, <1>6, <1>7, <1>8, <1>9, <1>10, <1>11, PushReads

LEMMA ResumedAt ==
  ASSUME Layout, Nested, InGroup, NEW B, Here(B), pc = "directive", Queue # << >>,
         Head(Queue).kind \in Resumed
  PROVE  /\ B # << >> /\ Head(B) \in OpenGroup /\ Tail(B) \in Seq(OpenGroup)
         /\ Head(cond_incl).included = Head(B).seen /\ Taken(Tail(B))
         /\ Agree(Tail(cond_incl), Tail(B), Len(cond_incl) - Boundary - 1)
         /\ Tail(cond_incl) \in Seq(OpenIf) /\ Len(Tail(cond_incl)) = Len(cond_incl) - 1
         /\ Len(cond_incl) - Boundary - 1 \in Nat
         /\ Len(cond_incl) - Boundary - 1 <= Len(Tail(cond_incl))
         /\ Boundary \in Nat /\ Len(cond_incl) \in Nat
<1>1. /\ cond_incl \in Seq(OpenIf) /\ Boundary \in Nat /\ Len(cond_incl) \in Nat
      /\ Len(cond_incl) > Boundary /\ B \in Seq(OpenGroup)
  BY OrderTypes, ReadsTyped, BoundaryNat DEF FilesTyped, Here, InGroup
<1>2. /\ Atop(B)
      /\ Taken(B) \/ (B # << >> /\ Taken(Tail(B)))
  <2>1. ~First({"eof"})
    BY DEF First, Resumed, Elif
  <2> QED BY <2>1 DEF Here, ReadMatch, Skips
<1>3. Len(cond_incl) - Boundary \in Nat \ {0} /\ Len(cond_incl) - Boundary <= Len(cond_incl)
  BY <1>1
<1>4. /\ B # << >> /\ Head(cond_incl).included = Head(B).seen
      /\ Agree(Tail(cond_incl), Tail(B), Len(cond_incl) - Boundary - 1)
      /\ Tail(cond_incl) \in Seq(OpenIf) /\ Tail(B) \in Seq(OpenGroup)
      /\ Head(B) \in OpenGroup /\ Len(Tail(cond_incl)) = Len(cond_incl) - 1
  BY <1>1, <1>2, <1>3, AgreePop DEF Atop
<1>5. Taken(Tail(B))
  BY <1>1, <1>2, <1>4, TakenFirst
<1>6. /\ Len(cond_incl) - Boundary - 1 \in Nat
      /\ Len(cond_incl) - Boundary - 1 <= Len(cond_incl) - 1
  BY <1>1
<1> QED BY <1>1, <1>4, <1>5, <1>6

LEMMA ReadingElif ==
  ASSUME Layout, Nested, Reading, Running, ElifDirective
  PROVE  Reading'
<1> DEFINE before == Head(cond_incl).included
           read == ~before /\ held[1].kind = "elif_true"
           d == [ctx |-> "elif", included |-> before \/ read]
<1>1. /\ pc = "directive" /\ held[1].kind \in Elif /\ InGroup
      /\ Branch(<<d>> \o Tail(cond_incl), read)
  BY DEF ElifDirective, Directive, tok
<1>2. Drops
  BY DropsToken
<1>3. Queue # << >> /\ Head(Queue) = held[1]
  BY <1>2 DEF Drops
<1>4. PICK B : Here(B)
  BY DEF Reading
<1>5. Head(Queue).kind \in Resumed
  BY <1>1, <1>3 DEF Resumed
<1>6. /\ B # << >> /\ Head(B) \in OpenGroup /\ Tail(B) \in Seq(OpenGroup)
      /\ before = Head(B).seen /\ Taken(Tail(B))
      /\ Agree(Tail(cond_incl), Tail(B), Len(cond_incl) - Boundary - 1)
      /\ Tail(cond_incl) \in Seq(OpenIf) /\ Len(Tail(cond_incl)) = Len(cond_incl) - 1
      /\ Len(cond_incl) - Boundary - 1 \in Nat /\ Boundary \in Nat /\ Len(cond_incl) \in Nat
  BY <1>1, <1>3, <1>4, <1>5, ResumedAt
<1>7. PICK k \in Nat : /\ k = Len(cond_incl) - Boundary - 1
                       /\ Len(Tail(cond_incl)) = Boundary + k
  <2>1. /\ Len(cond_incl) - Boundary - 1 \in Nat
        /\ Len(Tail(cond_incl)) = Boundary + (Len(cond_incl) - Boundary - 1)
    BY <1>6
  <2> QED BY <2>1, Zenon
<1>8. Agree(Tail(cond_incl), Tail(B), k)
  BY <1>6, <1>7
<1> DEFINE now == held[1].kind = "elif_true" /\ ~Head(B).seen
           h == Group(now, Head(B).seen)
<1>9. AfterKind(Head(Queue).kind, B) = <<h>> \o Tail(B)
  BY <1>1, <1>3, <1>6 DEF AfterKind, If, Elif
<1>10. read \in BOOLEAN /\ before \in BOOLEAN /\ now \in BOOLEAN /\ now = read
  <2>1. Head(B).seen \in BOOLEAN
    BY <1>6 DEF OpenGroup
  <2> QED BY <1>6, <2>1
<1> HIDE DEF read, before, now
<1>11. h \in OpenGroup /\ h.now = read /\ d \in OpenIf /\ d.included = h.seen
  BY <1>6, <1>10 DEF Group, OpenGroup, OpenIf
<1> HIDE DEF h, d
<1> QED BY <1>1, <1>2, <1>4, <1>6, <1>7, <1>8, <1>9, <1>10, <1>11, PushReads

LEMMA ReadingElse ==
  ASSUME Layout, Nested, Reading, Running, ElseDirective
  PROVE  Reading'
<1> DEFINE read == ~Head(cond_incl).included
           d == [ctx |-> "else", included |-> TRUE]
<1>1. /\ pc = "directive" /\ held[1].kind = "else" /\ InGroup
      /\ Branch(<<d>> \o Tail(cond_incl), read)
  BY DEF ElseDirective, Directive, tok
<1>2. Drops
  BY DropsToken
<1>3. Queue # << >> /\ Head(Queue) = held[1]
  BY <1>2 DEF Drops
<1>4. PICK B : Here(B)
  BY DEF Reading
<1>5. Head(Queue).kind \in Resumed
  BY <1>1, <1>3 DEF Resumed
<1>6. /\ B # << >> /\ Head(B) \in OpenGroup /\ Tail(B) \in Seq(OpenGroup)
      /\ Head(cond_incl).included = Head(B).seen /\ Taken(Tail(B))
      /\ Agree(Tail(cond_incl), Tail(B), Len(cond_incl) - Boundary - 1)
      /\ Tail(cond_incl) \in Seq(OpenIf) /\ Len(Tail(cond_incl)) = Len(cond_incl) - 1
      /\ Len(cond_incl) - Boundary - 1 \in Nat /\ Boundary \in Nat /\ Len(cond_incl) \in Nat
  BY <1>1, <1>3, <1>4, <1>5, ResumedAt
<1>7. PICK k \in Nat : /\ k = Len(cond_incl) - Boundary - 1
                       /\ Len(Tail(cond_incl)) = Boundary + k
  <2>1. /\ Len(cond_incl) - Boundary - 1 \in Nat
        /\ Len(Tail(cond_incl)) = Boundary + (Len(cond_incl) - Boundary - 1)
    BY <1>6
  <2> QED BY <2>1, Zenon
<1>8. Agree(Tail(cond_incl), Tail(B), k)
  BY <1>6, <1>7
<1> DEFINE h == Group(~Head(B).seen, TRUE)
<1>9. AfterKind(Head(Queue).kind, B) = <<h>> \o Tail(B)
  BY <1>1, <1>3, <1>6 DEF AfterKind, If, Elif
<1>10. read \in BOOLEAN /\ read = ~Head(B).seen
  <2>1. Head(B).seen \in BOOLEAN
    BY <1>6 DEF OpenGroup
  <2> QED BY <1>6, <2>1
<1> HIDE DEF read
<1>11. h \in OpenGroup /\ h.now = read /\ d \in OpenIf /\ d.included = h.seen
  BY <1>6, <1>10 DEF Group, OpenGroup, OpenIf
<1> HIDE DEF h, d
<1> QED BY <1>1, <1>2, <1>4, <1>6, <1>7, <1>8, <1>9, <1>10, <1>11, PushReads

LEMMA ReadingEndif ==
  ASSUME Layout, Nested, Reading, Running, EndifDirective
  PROVE  Reading'
<1>1. /\ pc = "directive" /\ held[1].kind = "endif" /\ InGroup
      /\ Branch(Tail(cond_incl), TRUE)
  BY DEF EndifDirective, Directive, tok
<1>2. Drops
  BY DropsToken
<1>3. Queue # << >> /\ Head(Queue) = held[1]
  BY <1>2 DEF Drops
<1>4. PICK B : Here(B)
  BY DEF Reading
<1>5. Head(Queue).kind \in Resumed
  BY <1>1, <1>3 DEF Resumed
<1>6. /\ B # << >> /\ Taken(Tail(B))
      /\ Agree(Tail(cond_incl), Tail(B), Len(cond_incl) - Boundary - 1)
      /\ Tail(cond_incl) \in Seq(OpenIf) /\ Len(Tail(cond_incl)) = Len(cond_incl) - 1
      /\ Boundary \in Nat /\ Len(cond_incl) \in Nat
  BY <1>1, <1>3, <1>4, <1>5, ResumedAt
<1>7. Len(Tail(cond_incl)) - Boundary = Len(cond_incl) - Boundary - 1
  BY <1>6
<1>8. Tail(B) = AfterKind(Head(Queue).kind, B)
  BY <1>1, <1>3, <1>6 DEF AfterKind, If, Elif
<1>9. Agree(Tail(cond_incl), Tail(B), Len(Tail(cond_incl)) - Boundary)
  BY <1>6, <1>7
<1>10. PICK g, C : g = Tail(cond_incl) /\ C = Tail(B)
  OBVIOUS
<1> QED BY <1>1, <1>2, <1>4, <1>6, <1>8, <1>9, <1>10, BranchReads

LEMMA SkipShift ==
  ASSUME NEW B, SkipMatch(B), NEW C, NEW n, cond_incl' = cond_incl, frames' = frames,
         nest' = n, Len(C) = n + (Len(cond_incl) - Boundary),
         \A j \in 1 .. Len(cond_incl) - Boundary : C[n + j] = B[nest + j]
  PROVE  SkipMatch(C)'
<1>1. Boundary' = Boundary
  BY DEF Boundary
<1> QED BY <1>1 DEF SkipMatch

(* What C says of the groups after a token that is skipped.                *)
LEMMA SkipAfter ==
  ASSUME NEW B \in Seq(OpenGroup), NEW m \in Nat, nest \in Nat, Len(B) = nest + m,
         NEW k, ~StopsSkip(k)
  PROVE  /\ NestAfter(k) \in Nat
         /\ Len(AfterKind(k, B)) = NestAfter(k) + m
         /\ \A j \in 1 .. m : AfterKind(k, B)[NestAfter(k) + j] = B[nest + j]
<1> DEFINE C == AfterKind(k, B)
           n == NestAfter(k)
<1>1. CASE k \in If
  <2> DEFINE h == Group(k = "if_true", FALSE)
  <2>1. C = <<h>> \o B /\ n = nest + 1
    BY <1>1 DEF AfterKind, NestAfter
  <2>2. h \in OpenGroup
    BY DEF Group, OpenGroup
  <2> HIDE DEF h, C, n
  <2>3. /\ Len(C) = Len(B) + 1 /\ Len(B) \in Nat
        /\ \A i \in 1 .. Len(B) + 1 : C[i] = IF i = 1 THEN h ELSE B[i - 1]
    BY <2>1, <2>2, ConsAt
  <2>4. ASSUME NEW j \in 1 .. m PROVE C[n + j] = B[nest + j]
    <3>1. PICK i : i = n + j
      OBVIOUS
    <3>2. i \in 1 .. Len(B) + 1 /\ i # 1 /\ i - 1 = nest + j
      BY <2>1, <2>3, <3>1
    <3>3. C[i] = B[i - 1]
      BY <2>3, <3>2, Zenon
    <3> QED BY <3>1, <3>2, <3>3, Zenon
  <2>5. n \in Nat /\ Len(C) = n + m
    BY <2>1, <2>3
  <2> QED BY <2>4, <2>5 DEF C, n
<1>2. CASE k \in Elif \cup {"else", "endif"}
  <2>1. nest # 0
    BY <1>2 DEF StopsSkip
  <2>2. B # << >> /\ Len(B) \in Nat /\ Len(B) >= 1
    BY <2>1
  <2>3. /\ Len(Tail(B)) = Len(B) - 1 /\ Tail(B) \in Seq(OpenGroup) /\ Head(B) \in OpenGroup
        /\ \A i \in 1 .. Len(B) - 1 : Tail(B)[i] = B[i + 1]
    BY <2>2, TailAt
  <2>4. CASE k = "endif"
    <3>1. C = Tail(B) /\ n = nest - 1
      BY <2>2, <2>4 DEF AfterKind, NestAfter, If, Elif
    <3> HIDE DEF C, n
    <3>2. ASSUME NEW j \in 1 .. m PROVE C[n + j] = B[nest + j]
      <4>1. n + j \in 1 .. Len(B) - 1 /\ n + j + 1 = nest + j
        BY <2>1, <3>1
      <4> QED BY <2>3, <3>1, <4>1
    <3>3. n \in Nat /\ Len(C) = n + m
      BY <2>1, <2>3, <3>1
    <3> QED BY <3>2, <3>3 DEF C, n
  <2>5. CASE k \in Elif \cup {"else"}
    <3>1. PICK h \in OpenGroup : C = <<h>> \o Tail(B)
      <4>1. Head(B).seen \in BOOLEAN
        BY <2>3 DEF OpenGroup
      <4>2. /\ Group(k = "elif_true" /\ ~Head(B).seen, Head(B).seen) \in OpenGroup
            /\ Group(~Head(B).seen, TRUE) \in OpenGroup
        BY <4>1 DEF Group, OpenGroup
      <4>3. CASE k \in Elif
        <5>1. C = <<Group(k = "elif_true" /\ ~Head(B).seen, Head(B).seen)>> \o Tail(B)
          BY <2>2, <4>3 DEF AfterKind, If, Elif
        <5> HIDE DEF C
        <5> QED BY <4>2, <5>1
      <4>4. CASE k = "else"
        <5>1. C = <<Group(~Head(B).seen, TRUE)>> \o Tail(B)
          BY <2>2, <4>4 DEF AfterKind, If, Elif
        <5> HIDE DEF C
        <5> QED BY <4>2, <5>1
      <4> QED BY <2>5, <4>3, <4>4
    <3>2. n = nest
      BY <2>5 DEF NestAfter, If, Elif
    <3> HIDE DEF C, n
    <3>3. /\ Len(C) = Len(Tail(B)) + 1
          /\ \A i \in 1 .. Len(Tail(B)) + 1 : C[i] = IF i = 1 THEN h ELSE Tail(B)[i - 1]
      BY <2>3, <3>1, ConsAt
    <3>4. ASSUME NEW j \in 1 .. m PROVE C[n + j] = B[nest + j]
      <4>1. PICK i : i = n + j
        OBVIOUS
      <4>2. /\ i \in 1 .. Len(Tail(B)) + 1 /\ i # 1 /\ i - 1 \in 1 .. Len(B) - 1
            /\ i - 1 + 1 = nest + j
        BY <2>1, <2>2, <2>3, <3>2, <4>1
      <4>3. C[i] = Tail(B)[i - 1]
        BY <3>3, <4>2, Zenon
      <4>4. Tail(B)[i - 1] = B[i - 1 + 1]
        BY <2>3, <4>2, Zenon
      <4> QED BY <4>1, <4>2, <4>3, <4>4, Zenon
    <3>5. n \in Nat /\ Len(C) = n + m
      BY <2>2, <2>3, <3>2, <3>3
    <3> QED BY <3>4, <3>5 DEF C, n
  <2> QED BY <1>2, <2>4, <2>5
<1>3. CASE k \notin If \cup Elif \cup {"else", "endif"}
  BY <1>3 DEF AfterKind, NestAfter
<1> QED BY <1>1, <1>2, <1>3

LEMMA ReadingSkips ==
  ASSUME Layout, Reading, Running, SkipDrop
  PROVE  Reading'
<1>1. /\ pc = "skipped" /\ ~StopsSkip(held[1].kind) /\ nest' = NestAfter(held[1].kind)
      /\ pc' = "skip" /\ UNCHANGED <<frames, cond_incl, branches, lexed>>
  BY DEF SkipDrop, tok
<1>2. /\ Queue # << >> /\ Queue' = Tail(Queue) /\ Head(Queue) = held[1]
  BY DropsToken DEF Drops
<1>3. PICK B : Here(B)
  BY DEF Reading
<1>4. SkipMatch(B) /\ Reads(Queue, B, branches[1], lexed)
  BY <1>1, <1>3 DEF Here, Skips
<1>5. Queue \in Seq(Token) /\ nest \in Nat /\ Boundary \in Nat /\ Len(cond_incl) \in Nat
  BY OrderTypes, BoundaryNat DEF FilesTyped
<1>6. B \in Seq(OpenGroup)
  BY <1>4, <1>5, ReadsTyped
<1>7. PICK C : C = AfterKind(held[1].kind, B)
  OBVIOUS
<1>8. Reads(Queue', C, branches'[1], lexed')
  BY <1>1, <1>2, <1>4, <1>5, <1>7, ReadsFirst
<1>9. PICK m \in Nat : m = Len(cond_incl) - Boundary
  BY <1>4, <1>5 DEF SkipMatch
<1>10. Len(B) = nest + m
  BY <1>4, <1>9 DEF SkipMatch
<1>11. /\ Len(C) = NestAfter(held[1].kind) + m
       /\ \A j \in 1 .. m : C[NestAfter(held[1].kind) + j] = B[nest + j]
  BY <1>1, <1>5, <1>6, <1>7, <1>10, SkipAfter
<1>12. SkipMatch(C)'
  BY <1>1, <1>4, <1>9, <1>11, SkipShift
<1>13. Here(C)'
  BY <1>1, <1>8, <1>12 DEF Here, Skips
<1> QED BY <1>13 DEF Reading

LEMMA ReadingStops ==
  ASSUME Layout, Reading, Running, SkipStop
  PROVE  Reading'
<1>1. /\ pc = "skipped" /\ StopsSkip(held[1].kind) /\ nest' = 0 /\ pc' = "loop"
      /\ UNCHANGED <<frames, cond_incl, branches, lexed>>
  BY DEF SkipStop, StopSkip, EndStep, tok
<1>2. Queue' = Queue /\ Queue # << >> /\ Head(Queue) = held[1] /\ Queue \in Seq(Token)
  BY <1>1, StaysPut, HoldsOne
<1>3. PICK B : Here(B)
  BY DEF Reading
<1>4. SkipMatch(B) /\ Reads(Queue, B, branches[1], lexed)
  BY <1>1, <1>3 DEF Here, Skips
<1>5. ReadMatch(B)'
  <2>1. CASE held[1].kind = "eof"
    BY <1>2, <2>1 DEF ReadMatch, First
  <2>2. CASE held[1].kind # "eof"
    <3>1. nest = 0 /\ First(Resumed)'
      BY <1>1, <1>2, <2>2 DEF StopsSkip, First, Resumed
    <3>2. Boundary' = Boundary
      BY <1>1 DEF Boundary
    <3>3. B \in Seq(OpenGroup) /\ Boundary \in Nat /\ Len(cond_incl) \in Nat
      BY <1>2, <1>4, ReadsTyped, BoundaryNat DEF Layout
    <3>4. /\ Len(B) = Len(cond_incl) - Boundary /\ Len(B) >= 1
          /\ \A j \in 1 .. Len(B) : B[j].seen = cond_incl[j].included /\ (B[j].now <=> j > 1)
      <4>1. /\ Len(cond_incl) > Boundary
            /\ Len(B) = 0 + (Len(cond_incl) - Boundary)
            /\ \A j \in 1 .. Len(cond_incl) - Boundary :
                  B[0 + j].seen = cond_incl[j].included /\ (B[0 + j].now <=> j > 1)
        BY <1>4, <3>1 DEF SkipMatch
      <4>2. \A j \in 1 .. Len(cond_incl) - Boundary : 0 + j = j
        OBVIOUS
      <4>3. Len(B) = Len(cond_incl) - Boundary /\ Len(B) >= 1
        BY <3>3, <4>1
      <4> QED BY <4>1, <4>2, <4>3
    <3>5. Atop(B)'
      BY <1>1, <3>2, <3>4 DEF Atop, Agree
    <3>6. B # << >> /\ Taken(Tail(B))
      <4>1. B # << >>
        BY <3>4
      <4>2. /\ DOMAIN Tail(B) = 1 .. Len(B) - 1 /\ Len(B) \in Nat
            /\ \A i \in 1 .. Len(B) - 1 : Tail(B)[i] = B[i + 1]
        BY <3>3, <4>1, TailAt
      <4>3. ASSUME NEW i \in 1 .. Len(B) - 1 PROVE Tail(B)[i].now
        <5>1. i + 1 \in 1 .. Len(B) /\ i + 1 > 1
          BY <4>2
        <5> QED BY <3>4, <4>2, <5>1
      <4> QED BY <4>1, <4>2, <4>3 DEF Taken
    <3> QED BY <3>1, <3>5, <3>6 DEF ReadMatch
  <2> QED BY <2>1, <2>2
<1>6. Here(B)'
  BY <1>1, <1>2, <1>4, <1>5 DEF Here, Skips
<1> QED BY <1>6 DEF Reading

(* After a lone # in a branch that is skipped: when no token that can stand *)
(* there reads as a directive's name, only the # is dropped.               *)
LEMMA WordSkips ==
  ASSUME Layout, Words \subseteq {"plain"}, SkipWord
  PROVE  /\ pc = "null" /\ pc' = "skip" /\ nest' = nest
         /\ Queue # << >> /\ Queue' = Tail(Queue) /\ Head(Queue).kind = "null"
         /\ UNCHANGED <<out, Files, Text, cond_incl, eof_done>>
<1>1. pc = "null"
  BY DEF SkipWord
<1>2. /\ Queue # << >> /\ Head(Queue) = held[1] /\ Tail(Queue) = <<held[2]>> \o pb
      /\ <<held[2]>> \o pb \in Seq(Token)
  BY <1>1, HoldsTwo
<1>3. held[1].kind = "null"
  BY <1>1 DEF Layout, HeldShape
<1>4. PICK word \in IF nx.kind = "plain" THEN Words ELSE {"plain"} :
        IF StopsSkip(word) THEN StopSkip
        ELSE /\ nest' = NestAfter(word)
             /\ pb' = <<nx>> \o pb
             /\ held' = << >>
             /\ pc' = "skip"
             /\ UNCHANGED <<out, chain, reclaim_hold, frames, file, cond_incl,
                            branches, ooo_active, eof_done, expansions, caller,
                            have, body, lexed>>
  BY DEF SkipWord
<1>5. word = "plain"
  BY <1>4
<1>6. ~StopsSkip(word) /\ NestAfter(word) = nest
  BY <1>5 DEF StopsSkip, NestAfter, If, Elif
<1>7. /\ nest' = nest /\ pb' = <<held[2]>> \o pb /\ held' = << >> /\ pc' = "skip"
      /\ UNCHANGED <<out, frames, file, cond_incl, branches, eof_done, lexed>>
  BY <1>4, <1>6 DEF nx
<1>8. Queue' = Tail(Queue)
  BY <1>2, <1>7, NothingHeld DEF Queue
<1> QED BY <1>1, <1>2, <1>3, <1>7, <1>8 DEF Files, Text

LEMMA ReadingWord ==
  ASSUME Layout, Words \subseteq {"plain"}, Reading, Running, SkipWord
  PROVE  Reading'
<1>1. /\ pc = "null" /\ pc' = "skip" /\ nest' = nest
      /\ Queue # << >> /\ Queue' = Tail(Queue) /\ Head(Queue).kind = "null"
      /\ UNCHANGED <<Files, Text, cond_incl>>
  BY WordSkips
<1>2. PICK B : Here(B)
  BY DEF Reading
<1>3. Queue \in Seq(Token)
  BY OrderTypes
<1>4. AfterKind("null", B) = B
  BY DEF AfterKind, If, Elif
<1>5. Reads(Queue', B, branches'[1], lexed')
  BY <1>1, <1>2, <1>3, <1>4, ReadsFirst DEF Here, Text
<1>6. SkipMatch(B)'
  BY <1>1, <1>2, SkipKept DEF Here, Skips, Files
<1>7. Here(B)'
  BY <1>1, <1>5, <1>6 DEF Here, Skips
<1> QED BY <1>7 DEF Reading

(* What a macro expansion replaces.                                        *)
LEMMA CallHeld ==
  ASSUME Layout, pc \in {"body", "spliced"}
  PROVE  /\ held \in Seq(Token) /\ pb \in Seq(Token) /\ body \in Seq(Token)
         /\ \A i \in 1 .. Len(held) : held[i].kind \in {"obj", "fun", "paren"}
         /\ Queue # << >> /\ Head(Queue).kind \in {"obj", "fun", "paren"}
<1>1. held \in Seq(Token) /\ pb \in Seq(Token) /\ body \in Seq(Token)
  BY DEF Layout, TokensTyped
<1>2. \/ Len(held) = 1 /\ held[1].kind = "obj"
      \/ Len(held) = 2 /\ held[1].kind = "fun" /\ held[2].kind = "paren"
      \/ /\ Len(held) = 3 /\ held[1].kind = "fun"
         /\ held[2].kind = "paren" /\ held[3].kind = "paren"
  <2>1. CASE pc = "body"
    BY <2>1 DEF Layout, HeldShape
  <2>2. CASE pc = "spliced"
    BY <2>2 DEF Layout, HeldShape
  <2> QED BY <2>1, <2>2
<1>3. \A i \in 1 .. Len(held) : held[i].kind \in {"obj", "fun", "paren"}
  BY <1>2
<1>4. Len(held) \in Nat /\ Len(held) >= 1 /\ Len(pb) \in Nat
  BY <1>1, <1>2
<1>5. /\ Queue \in Seq(Token) /\ Len(Queue) = Len(held) + Len(pb)
      /\ \A i \in 1 .. Len(held) + Len(pb) :
            Queue[i] = IF i <= Len(held) THEN held[i] ELSE pb[i - Len(held)]
  BY <1>1, JoinAt DEF Queue
<1>6. Queue[1] = held[1] /\ Len(Queue) # 0
  BY <1>4, <1>5
<1>7. Queue # << >> /\ Head(Queue) = held[1]
  BY <1>5, <1>6, TailAt
<1>8. 1 \in 1 .. Len(held)
  BY <1>4
<1> QED BY <1>1, <1>3, <1>7, <1>8

LEMMA ReadingExpands ==
  ASSUME Layout, Reading, Running, ExpandDone
  PROVE  Reading'
<1>1. pc \in {"body", "spliced"} /\ pc' = "loop"
  BY DEF ExpandDone, EndStep
<1>2. /\ UNCHANGED <<Files, Text, Groups>> /\ Queue' = body \o pb
  BY ExpandsCall DEF Expands
<1>3. /\ held \in Seq(Token) /\ pb \in Seq(Token) /\ body \in Seq(Token)
      /\ \A i \in 1 .. Len(held) : held[i].kind \in {"obj", "fun", "paren"}
      /\ Queue # << >> /\ Head(Queue).kind \in {"obj", "fun", "paren"}
  BY <1>1, CallHeld
<1>4. PICK B : Here(B)
  BY DEF Reading
<1>5. Atop(B) /\ Taken(B)
  <2>1. Head(Queue).kind \notin Resumed \cup {"eof"} /\ pc \notin Skips
    BY <1>1, <1>3 DEF Resumed, Elif, Skips
  <2> QED BY <1>3, <1>4, <2>1, HeadRead
<1>6. Reads(pb, B, branches[1], lexed)
  <2>1. \A i \in 1 .. Len(held) : held[i].kind \notin Conditionals
    BY <1>3 DEF Conditionals, If, Elif
  <2> QED BY <1>3, <1>4, <2>1, ReadsBehind DEF Here, Queue
<1>7. \A i \in 1 .. Len(body) : body[i].kind \notin Conditionals /\ ~Source(body[i])
  BY DEF Layout, BodyShape, Made, Source, Conditionals, If, Elif
<1>8. Reads(body \o pb, B, branches[1], lexed)
  BY <1>3, <1>6, <1>7, ReadsOver
<1>9. Reads(Queue', B, branches'[1], lexed')
  BY <1>2, <1>8 DEF Text
<1>10. Atop(B)' /\ nest' = 0
  <2>1. Boundary' = Boundary
    BY <1>2 DEF Boundary, Files
  <2> QED BY <1>1, <1>2, <1>4, <1>5, <2>1 DEF Atop, Agree, Groups, Here, Skips
<1>11. Here(B)'
  BY <1>1, <1>5, <1>9, <1>10 DEF Here, Skips, ReadMatch
<1> QED BY <1>11 DEF Reading

LEMMA ReadingOpens ==
  ASSUME Layout, Open
  PROVE  Reading'
<1>1. /\ pc = "reset" /\ pc' = "loop"
      /\ UNCHANGED <<pb, held, frames, cond_incl, nest, branches, lexed>>
  BY DEF Open, includes, conditionals
<1>2. /\ pb = << >> /\ frames = << >> /\ cond_incl = << >> /\ branches = <<<< >>>>
      /\ nest = 0 /\ held = << >>
  BY <1>1, IdleShape DEF Layout, ClosedShape, Idle
<1>3. Queue' = << >>
  BY <1>1, <1>2, NothingHeld DEF Queue
<1>4. branches'[1] = << >> /\ << >> \in Seq(OpenGroup)
  BY <1>1, <1>2
<1>5. Reads(Queue', << >>, branches'[1], lexed')
  BY <1>3, <1>4, ReadsNothing
<1>6. Atop(<< >>)'
  BY <1>1, <1>2 DEF Atop, Agree, Boundary
<1>7. Here(<< >>)'
  BY <1>1, <1>2, <1>5, <1>6 DEF Here, Skips, ReadMatch, Taken
<1> QED BY <1>7 DEF Reading

LEMMA ReadingEnters ==
  ASSUME Layout, Reading, Running, Include
  PROVE  Reading'
<1>1. pc = "directive" /\ pc' = "loop"
  BY DEF Include, Directive, EndStep
<1>2. Enters
  BY EntersFile
<1>3. /\ branches'[1] = << >> /\ Boundary' = Len(cond_incl) /\ Queue' = << >>
      /\ cond_incl' = cond_incl /\ nest' = nest
  BY <1>2, EntersAt DEF Enters, Groups
<1>4. nest = 0
  <2>1. PICK B : Here(B)
    BY DEF Reading
  <2> QED BY <1>1, <2>1 DEF Here, Skips
<1>5. << >> \in Seq(OpenGroup) /\ Len(cond_incl) \in Nat
  BY BoundaryNat DEF Layout
<1>6. Reads(Queue', << >>, branches'[1], lexed')
  BY <1>3, <1>5, ReadsNothing
<1>7. Atop(<< >>)'
  <2>1. Len(cond_incl) - Len(cond_incl) = 0 /\ Len(<< >>) = 0
    BY <1>5
  <2> QED BY <1>3, <2>1 DEF Atop, Agree
<1>8. Here(<< >>)'
  BY <1>1, <1>3, <1>4, <1>6, <1>7 DEF Here, Skips, ReadMatch, Taken
<1> QED BY <1>8 DEF Reading

LEMMA ReadingLeaves ==
  ASSUME Layout, Nested, Waiting, Reading, Running, PopFrame, FilesTyped'
  PROVE  Reading'
<1>1. pc = "step" /\ pc' = "loop" /\ Balance
  BY DEF PopFrame, InStep, EndStep
<1>2. Leaves
  BY LeavesFile
<1>3. PICK B : Reads(Queue', B, branches'[1], lexed') /\ Atop(B)' /\ Taken(B)
  BY <1>1, <1>2, GoesOn
<1>4. nest' = 0
  <2>1. PICK C : Here(C)
    BY DEF Reading
  <2> QED BY <1>1, <1>2, <2>1 DEF Here, Skips, Leaves
<1>5. Here(B)'
  BY <1>1, <1>3, <1>4 DEF Here, Skips, ReadMatch
<1> QED BY <1>5 DEF Reading

Pulls ==
  StepPull \/ DirectiveLine \/ SkipPull \/ SkipNull \/ FunctionMacro \/ SplicePull
Keeps ==
  \/ LinePushback \/ SpliceNoCall \/ ObjectMacro \/ Call \/ SpliceCall
  \/ OpenDone \/ RefillDone \/ MoveCursor \/ EnsureLookahead
Ends == ResetBeforeOpen \/ OuterEof \/ BeginClose \/ Close

LEMMA PullsAt ==
  ASSUME Pulls
  PROVE  /\ pc \in Skips <=> pc' \in Skips
         /\ Streaming /\ eof_done' = eof_done
<1>1. /\ \/ pc = "loop" /\ pc' = "step"
         \/ pc = "step" /\ pc' \in {"line", "call"}
         \/ pc = "skip" /\ pc' = "skipped"
         \/ pc = "skipped" /\ pc' = "null"
         \/ pc = "body" /\ pc' = "splice"
      /\ eof_done' = eof_done
  BY DEF Pulls, StepPull, DirectiveLine, SkipPull, SkipNull, FunctionMacro, SplicePull,
         PullRaw
<1> QED BY <1>1 DEF Skips, Streaming

LEMMA KeepsAt ==
  ASSUME Keeps
  PROVE  /\ pc \notin Skips /\ pc' \notin Skips
         /\ Streaming /\ eof_done' = eof_done /\ UNCHANGED Groups
<1>1. UNCHANGED includes /\ eof_done' = eof_done
  BY DEF Keeps, LinePushback, SpliceNoCall, ObjectMacro, Call, SpliceCall, OpenDone,
         RefillDone, MoveCursor, EnsureLookahead
<1>2. pc \in {"line", "splice", "step", "call", "loop", "parse"}
  BY DEF Keeps, LinePushback, SpliceNoCall, ObjectMacro, Call, SpliceCall, OpenDone,
         RefillDone, MoveCursor, EnsureLookahead, InStep
<1>3. pc' \in {"directive", "spliced", "body", "loop", "reclaim", "parse"}
  <2>1. CASE LinePushback \/ SpliceNoCall \/ ObjectMacro \/ Call \/ SpliceCall \/ OpenDone
    BY <2>1 DEF LinePushback, SpliceNoCall, ObjectMacro, Call, SpliceCall, OpenDone
  <2>2. CASE RefillDone \/ MoveCursor \/ EnsureLookahead
    BY <2>2 DEF RefillDone, MoveCursor, EnsureLookahead
  <2> QED BY <2>1, <2>2 DEF Keeps
<1> QED BY <1>1, <1>2, <1>3 DEF Skips, Streaming, includes, conditionals, Groups

LEMMA EndsAt ==
  ASSUME Ends
  PROVE  ~Running'
BY DEF Ends, ResetBeforeOpen, OuterEof, BeginClose, Close, Running, Streaming

LEMMA WasRunning ==
  ASSUME StreamNext, Running', ~Open
  PROVE  Running
<1>1. ~Ends
  BY EndsAt
<1>2. CASE Pulls
  BY <1>2, PullsAt DEF Running
<1>3. CASE Keeps
  BY <1>3, KeepsAt DEF Running
<1>4. CASE Emit \/ PopFrame \/ BoundedDirective \/ Pragma \/ Include
  <2>1. pc \in {"step", "directive"} /\ eof_done' = eof_done
    BY <1>4 DEF Emit, PopFrame, BoundedDirective, Pragma, Include, InStep, Directive
  <2> QED BY <2>1 DEF Running, Streaming
<1>5. CASE IfDirective \/ ElifDirective \/ ElseDirective \/ EndifDirective
  <2>1. pc = "directive" /\ eof_done' = eof_done
    BY <1>5 DEF IfDirective, ElifDirective, ElseDirective, EndifDirective, Directive,
                Branch
  <2> QED BY <2>1 DEF Running, Streaming
<1>6. CASE SkipDrop \/ SkipStop \/ SkipWord
  <2>1. pc \in {"skipped", "null"} /\ eof_done' = eof_done
    BY <1>6 DEF SkipDrop, SkipStop, SkipWord, StopSkip
  <2> QED BY <2>1 DEF Running, Streaming
<1>7. CASE NoCall \/ ExpandToken \/ ExpandDone \/ Reclaim
  <2>1. pc \in {"call", "body", "spliced", "reclaim"} /\ eof_done' = eof_done
    BY <1>7 DEF NoCall, ExpandToken, ExpandDone, Reclaim
  <2> QED BY <2>1 DEF Running, Streaming
<1> QED BY <1>1, <1>2, <1>3, <1>4, <1>5, <1>6, <1>7
        DEF StreamNext, StreamStep, Pulls, Keeps, Ends

LEMMA ReadingObeys ==
  ASSUME Layout, Reading, Running, Emit \/ NoCall \/ BoundedDirective \/ Pragma
  PROVE  Reading'
<1>1. /\ Queue # << >> /\ Queue' = Tail(Queue) /\ Head(Queue) = held[1]
      /\ UNCHANGED <<Files, Text>>
  <2>1. CASE Emit \/ NoCall
    BY <2>1, DeliversToken DEF Delivers
  <2>2. CASE BoundedDirective
    BY <2>2, DropsToken DEF Drops
  <2>3. CASE Pragma
    BY <2>3, MarksPragma DEF Marks
  <2> QED BY <2>1, <2>2, <2>3
<1>2. UNCHANGED Groups
  BY DEF Emit, NoCall, BoundedDirective, Pragma, includes, conditionals, Groups
<1>3. pc \in {"step", "call", "directive"} /\ pc' = "loop"
  BY DEF Emit, NoCall, BoundedDirective, Pragma, EndStep, InStep, Directive
<1>4. held[1].kind \in {"plain", "paren", "fun", "define", "null", "pragma"}
  <2>1. CASE Emit \/ BoundedDirective \/ Pragma
    BY <2>1 DEF Emit, BoundedDirective, Pragma, InStep, Directive, tok
  <2>2. CASE NoCall
    BY <2>2 DEF NoCall, Layout, HeldShape
  <2> QED BY <2>1, <2>2
<1>5. Head(Queue).kind \notin Conditionals \cup {"eof"}
  BY <1>1, <1>4 DEF Conditionals, If, Elif
<1>6. pc \notin Skips /\ pc' \notin Skips
  BY <1>3 DEF Skips
<1> QED BY <1>1, <1>2, <1>5, <1>6, ReadingDrops DEF Files

LEMMA ReadingMakes ==
  ASSUME Layout, Reading, Running, ExpandToken \/ Reclaim
  PROVE  Reading'
<1>1. UNCHANGED <<held, pb, includes, lexed>>
  BY DEF ExpandToken, Reclaim
<1>2. pc \notin Skips /\ pc' \notin Skips
  BY DEF ExpandToken, Reclaim, Skips
<1>3. Queue' = Queue
  BY <1>1 DEF Queue
<1>4. UNCHANGED <<Text, Groups, frames>>
  BY <1>1 DEF includes, conditionals, Text, Groups
<1> QED BY <1>2, <1>3, <1>4, ReadingStays

LEMMA ReadingStep ==
  ASSUME StreamInv, Layout', Words \subseteq {"plain"}, Whole, Reading, Waiting, StreamNext
  PROVE  Reading'
<1> SUFFICES ASSUME Running' PROVE Reading'
  BY DEF Reading
<1>1. Layout /\ Nested /\ InOrder
  BY DEF StreamInv
<1>2. CASE Open
  BY <1>1, <1>2, ReadingOpens
<1>3. CASE ~Open
  <2>1. Running /\ ~Ends
    BY <1>3, WasRunning, EndsAt
  <2>2. CASE Pulls
    <3>1. /\ UNCHANGED <<out, Files, Groups>> /\ AllocatorInv' /\ \E t : Pulled(t)
      BY <1>1, <2>2, PullsToken DEF Pulls
    <3> QED BY <1>1, <2>1, <2>2, <3>1, PullsAt, ReadingPulls
  <2>3. CASE Keeps
    <3>1. UNCHANGED <<Files, Text>> /\ Queue' = Queue
      BY <1>1, <2>3, StaysPut DEF Keeps
    <3> QED BY <2>1, <2>3, <3>1, KeepsAt, ReadingStays DEF Files
  <2>4. CASE Emit \/ NoCall \/ BoundedDirective \/ Pragma
    BY <1>1, <2>1, <2>4, ReadingObeys
  <2>5. CASE IfDirective \/ ElifDirective \/ ElseDirective \/ EndifDirective
    BY <1>1, <2>1, <2>5, ReadingIf, ReadingElif, ReadingElse, ReadingEndif
  <2>6. CASE SkipDrop \/ SkipStop \/ SkipWord
    BY <1>1, <2>1, <2>6, ReadingSkips, ReadingStops, ReadingWord
  <2>7. CASE ExpandToken \/ Reclaim
    BY <1>1, <2>1, <2>7, ReadingMakes
  <2>8. CASE ExpandDone \/ Include
    BY <1>1, <2>1, <2>8, ReadingExpands, ReadingEnters
  <2>9. CASE PopFrame
    BY <1>1, <2>1, <2>9, ReadingLeaves DEF Layout
  <2> QED BY <1>3, <2>1, <2>2, <2>3, <2>4, <2>5, <2>6, <2>7, <2>8, <2>9
          DEF StreamNext, StreamStep, Pulls, Keeps, Ends
<1> QED BY <1>2, <1>3

LEMMA EndPushed ==
  ASSUME NEW c \in Seq(OpenIf), NEW d \in OpenIf, NEW k \in 1 .. Len(c)
  PROVE  FromEnd(<<d>> \o c, k) = FromEnd(c, k)
<1>1. PICK g : g = <<d>> \o c
  OBVIOUS
<1>2. /\ Len(g) = Len(c) + 1 /\ Len(c) \in Nat
      /\ \A i \in 1 .. Len(c) + 1 : g[i] = IF i = 1 THEN d ELSE c[i - 1]
  BY <1>1, ConsAt
<1>3. PICK i : i = Len(c) + 1 + 1 - k
  OBVIOUS
<1>4. i \in 1 .. Len(c) + 1 /\ i # 1 /\ i - 1 = Len(c) + 1 - k
  BY <1>2, <1>3
<1>5. g[i] = c[i - 1]
  BY <1>2, <1>4
<1> QED BY <1>1, <1>2, <1>3, <1>4, <1>5 DEF FromEnd

LEMMA EndPopped ==
  ASSUME NEW c \in Seq(OpenIf), c # << >>, NEW k \in 1 .. Len(c) - 1
  PROVE  FromEnd(Tail(c), k) = FromEnd(c, k)
<1>1. PICK g : g = Tail(c)
  OBVIOUS
<1>2. /\ Len(g) = Len(c) - 1 /\ Len(c) \in Nat
      /\ \A i \in 1 .. Len(c) - 1 : g[i] = c[i + 1]
  BY <1>1, TailAt
<1>3. PICK i : i = Len(c) - 1 + 1 - k
  OBVIOUS
<1>4. i \in 1 .. Len(c) - 1 /\ i + 1 = Len(c) + 1 - k
  BY <1>2, <1>3
<1>5. g[i] = c[i + 1]
  BY <1>2, <1>4
<1> QED BY <1>1, <1>2, <1>3, <1>4, <1>5 DEF FromEnd

(* A conditional directive changes the groups of its own file only.        *)
LEMMA BranchesBelow ==
  ASSUME Layout, Nested, IfDirective \/ ElifDirective \/ ElseDirective \/ EndifDirective
  PROVE  SameBelow
<1>1. /\ cond_incl \in Seq(OpenIf) /\ Boundary \in Nat /\ Len(cond_incl) \in Nat
      /\ Boundary <= Len(cond_incl) /\ FilesTyped
  BY BoundaryNat DEF Layout, FilesTyped, Nested
<1>2. CASE IfDirective
  <2>1. PICK d \in OpenIf : cond_incl' = <<d>> \o cond_incl
    <3>1. /\ cond_incl' =
               <<[ctx |-> "then", included |-> tok.kind = "if_true"]>> \o cond_incl
          /\ [ctx |-> "then", included |-> tok.kind = "if_true"] \in OpenIf
      <4>1. (tok.kind = "if_true") \in BOOLEAN
        OBVIOUS
      <4> QED BY <1>2, <4>1 DEF IfDirective, Branch, OpenIf
    <3> QED BY <3>1, Zenon
  <2>2. ASSUME NEW k \in 1 .. Boundary PROVE FromEnd(cond_incl', k) = FromEnd(cond_incl, k)
    <3>1. k \in 1 .. Len(cond_incl)
      BY <1>1
    <3> QED BY <1>1, <2>1, <3>1, EndPushed
  <2> QED BY <2>2 DEF SameBelow
<1>3. CASE ElifDirective \/ ElseDirective \/ EndifDirective
  <2>1. /\ cond_incl # << >> /\ Tail(cond_incl) \in Seq(OpenIf)
        /\ Head(cond_incl).included \in BOOLEAN
        /\ Len(Tail(cond_incl)) = Len(cond_incl) - 1 /\ Len(Tail(cond_incl)) >= Boundary
    <3>1. InGroup
      BY <1>3 DEF ElifDirective, ElseDirective, EndifDirective
    <3> QED BY <1>1, <3>1, CondTail, GroupShorter
  <2>2. ASSUME NEW k \in 1 .. Boundary
        PROVE  /\ k \in 1 .. Len(Tail(cond_incl))
               /\ FromEnd(Tail(cond_incl), k) = FromEnd(cond_incl, k)
    <3>1. k \in 1 .. Len(cond_incl) - 1 /\ k \in 1 .. Len(Tail(cond_incl))
      BY <1>1, <2>1
    <3> QED BY <1>1, <2>1, <3>1, EndPopped
  <2>3. CASE EndifDirective
    <3>1. cond_incl' = Tail(cond_incl)
      BY <2>3 DEF EndifDirective, Branch
    <3> QED BY <2>2, <3>1 DEF SameBelow
  <2>4. CASE ElifDirective \/ ElseDirective
    <3>1. PICK d \in OpenIf : cond_incl' = <<d>> \o Tail(cond_incl)
      <4>1. CASE ElifDirective
        <5> DEFINE b == Head(cond_incl).included
                        \/ (~Head(cond_incl).included /\ tok.kind = "elif_true")
        <5>1. cond_incl' = <<[ctx |-> "elif", included |-> b]>> \o Tail(cond_incl)
          BY <4>1 DEF ElifDirective, Branch
        <5>2. b \in BOOLEAN
          BY <2>1
        <5> HIDE DEF b
        <5>3. [ctx |-> "elif", included |-> b] \in OpenIf
          BY <5>2 DEF OpenIf
        <5> QED BY <5>1, <5>3, Zenon
      <4>2. CASE ElseDirective
        <5>1. cond_incl' = <<[ctx |-> "else", included |-> TRUE]>> \o Tail(cond_incl)
          BY <4>2 DEF ElseDirective, Branch
        <5>2. [ctx |-> "else", included |-> TRUE] \in OpenIf
          BY DEF OpenIf
        <5> QED BY <5>1, <5>2, Zenon
      <4> QED BY <2>4, <4>1, <4>2
    <3>2. ASSUME NEW k \in 1 .. Boundary
          PROVE  FromEnd(cond_incl', k) = FromEnd(cond_incl, k)
      <4>1. FromEnd(<<d>> \o Tail(cond_incl), k) = FromEnd(Tail(cond_incl), k)
        BY <2>1, <2>2, EndPushed
      <4> QED BY <2>2, <3>1, <4>1
    <3> QED BY <3>2 DEF SameBelow
  <2> QED BY <1>3, <2>3, <2>4
<1> QED BY <1>2, <1>3

LEMMA WaitingStill ==
  ASSUME Layout, Nested, Waiting, Running, UNCHANGED <<frames, Text>>, SameBelow
  PROVE  Waiting'
BY WaitingSame DEF Text

LEMMA WaitingStep ==
  ASSUME StreamInv, Whole, Reading, Waiting, StreamNext
  PROVE  Waiting'
<1> SUFFICES ASSUME Running' PROVE Waiting'
  BY DEF Waiting
<1>1. Layout /\ Nested /\ InOrder
  BY DEF StreamInv
<1>2. cond_incl' = cond_incl => SameBelow
  BY DEF SameBelow
<1>3. CASE Open
  <2>1. pc = "reset" /\ frames' = frames
    BY <1>3 DEF Open, includes
  <2>2. frames' = << >> /\ Len(<< >>) = 0
    BY <1>1, <2>1 DEF Layout, ClosedShape
  <2>3. \A n \in 1 .. Len(frames') : FALSE
    BY <2>2
  <2> QED BY <2>3 DEF Waiting
<1>4. CASE ~Open
  <2>1. Running /\ ~Ends
    BY <1>4, WasRunning, EndsAt
  <2>2. CASE Pulls
    <3>1. UNCHANGED <<out, Files, Groups>> /\ AllocatorInv' /\ \E t : Pulled(t)
      BY <1>1, <2>2, PullsToken DEF Pulls
    <3>2. \A n \in 1 .. Len(frames) :
             /\ branches'[n + 1] = branches[n + 1]
             /\ \A x \in Saved(n) : x \in lexed <=> x \in lexed'
      BY <1>1, <3>1, PulledText
    <3> QED BY <1>1, <1>2, <2>1, <3>1, <3>2, WaitingSame DEF Files, Groups
  <2>3. CASE Keeps \/ SkipStop
    <3>1. UNCHANGED <<Files, Text, cond_incl>>
      BY <1>1, <2>3, StaysPut DEF Keeps
    <3> QED BY <1>1, <1>2, <2>1, <3>1, WaitingStill DEF Files
  <2>4. CASE Emit \/ NoCall \/ BoundedDirective \/ Pragma \/ ExpandToken \/ Reclaim
             \/ ExpandDone
    <3>1. UNCHANGED <<includes, lexed>>
      BY <2>4 DEF Emit, NoCall, BoundedDirective, Pragma, ExpandToken, Reclaim, ExpandDone
    <3>2. UNCHANGED <<frames, Text, cond_incl>>
      BY <3>1 DEF includes, conditionals, Text
    <3> QED BY <1>1, <1>2, <2>1, <3>2, WaitingStill
  <2>5. CASE IfDirective \/ ElifDirective \/ ElseDirective \/ EndifDirective
    <3>1. UNCHANGED <<Files, Text>>
      BY <1>1, <2>5, DropsToken DEF Drops
    <3> QED BY <1>1, <2>1, <2>5, <3>1, BranchesBelow, WaitingStill DEF Files
  <2>6. CASE SkipDrop \/ SkipWord
    <3>1. UNCHANGED <<frames, Text, cond_incl>>
      <4>1. CASE SkipDrop
        BY <4>1 DEF SkipDrop, Text
      <4>2. CASE SkipWord
        BY <1>1, <4>2, WordMoves DEF Files
      <4> QED BY <2>6, <4>1, <4>2
    <3> QED BY <1>1, <1>2, <2>1, <3>1, WaitingStill
  <2>7. CASE Include
    <3>1. Enters
      BY <1>1, <2>7, EntersFile
    <3>2. PICK B : Here(B)
      BY <2>1 DEF Reading
    <3>3. pc = "directive" /\ held[1].kind = "include"
      BY <2>7 DEF Include, Directive, tok
    <3>4. Queue # << >> /\ Head(Queue) = held[1]
      BY <1>1, <3>3, HoldsOne
    <3>5. Atop(B) /\ Taken(B)
      BY <3>2, <3>3, <3>4, HeadRead DEF Skips, Resumed, Elif
    <3> QED BY <1>1, <2>1, <3>1, <3>2, <3>5, WaitingEnters DEF Here
  <2>8. CASE PopFrame
    <3>1. Leaves /\ Balance
      BY <1>1, <2>8, LeavesFile DEF PopFrame
    <3> QED BY <1>1, <2>1, <3>1, WaitingLeaves
  <2> QED BY <1>4, <2>1, <2>2, <2>3, <2>4, <2>5, <2>6, <2>7, <2>8
          DEF StreamNext, StreamStep, Pulls, Keeps, Ends
<1> QED BY <1>3, <1>4

LEMMA WholeNothing ==
  ASSUME out = << >>, held = << >>, pb = << >>, frames = << >>, lexed = {}
  PROVE  Whole
<1>1. Queue = << >> /\ Len(frames) = 0
  BY NothingHeld DEF Queue
<1>2. \A n \in 1 .. Len(frames) : FALSE
  BY <1>1
<1>3. OnceEach
  BY <1>1, <1>2, IdsNothing DEF OnceEach
<1>4. Kept
  BY IdsNothing DEF Kept
<1> QED BY <1>3, <1>4 DEF Whole

LEMMA WholeNothingNext ==
  ASSUME out' = << >>, held' = << >>, pb' = << >>, frames' = << >>, lexed' = {}
  PROVE  Whole'
<1>1. Queue' = << >> /\ Len(frames') = 0
  BY NothingHeld DEF Queue
<1>2. \A n \in 1 .. Len(frames') : FALSE
  BY <1>1
<1>3. OnceEach'
  BY <1>1, <1>2, IdsNothing DEF OnceEach
<1>4. Kept'
  BY IdsNothing DEF Kept
<1> QED BY <1>3, <1>4 DEF Whole

LEMMA StepRuns ==
  ASSUME Layout, pc \in Steps
  PROVE  Running
<1>1. Streaming
  BY DEF Streaming, Steps
<1> QED BY <1>1, RunningSteps DEF Running

(* A token that is skipped is in a branch that C does not take.            *)
LEMMA SkippedNotTaken ==
  ASSUME Layout, Reading, pc = "skipped"
  PROVE  Own(Head(Queue)) \cap lexed = {}
<1>1. Running
  BY StepRuns DEF Steps
<1>2. PICK B : Here(B)
  BY <1>1 DEF Reading
<1>3. SkipMatch(B) /\ Reads(Queue, B, branches[1], lexed)
  BY <1>2 DEF Here, Skips
<1>4. Queue # << >> /\ Queue \in Seq(Token)
  BY HoldsOne
<1>5. Marked(Head(Queue), B, lexed)
  BY <1>3, <1>4, ReadsFirst
<1>6. B \in Seq(OpenGroup) /\ nest \in Nat /\ Boundary \in Nat /\ Len(cond_incl) \in Nat
  BY <1>3, <1>4, ReadsTyped, BoundaryNat DEF Layout, FilesTyped
<1>7. nest + 1 \in 1 .. Len(B) /\ 1 \in 1 .. Len(cond_incl) - Boundary
  BY <1>3, <1>6 DEF SkipMatch
<1>8. ~B[nest + 1].now
  <2>1. B[nest + 1].now <=> 1 > 1
    BY <1>3, <1>7 DEF SkipMatch
  <2> QED BY <2>1
<1>9. nest + 1 \in DOMAIN B
  BY <1>6, <1>7
<1>10. ~Taken(B)
  BY <1>8, <1>9 DEF Taken
<1> QED BY <1>5, <1>10 DEF Marked, Own

(* A token that is delivered is in a branch that C takes.                  *)
LEMMA EmittedTaken ==
  ASSUME Layout, Reading, Emit
  PROVE  Own(Head(Queue)) \subseteq lexed
<1>1. pc = "step" /\ held[1].kind \in {"plain", "paren"}
  BY DEF Emit, InStep, tok
<1>2. Running
  BY <1>1, StepRuns DEF Steps
<1>3. PICK B : Here(B)
  BY <1>2 DEF Reading
<1>4. Queue # << >> /\ Queue \in Seq(Token) /\ Head(Queue) = held[1]
  BY <1>1, HoldsOne
<1>5. Taken(B)
  BY <1>1, <1>3, <1>4, HeadRead DEF Skips, Resumed, Elif
<1>6. Marked(Head(Queue), B, lexed)
  BY <1>3, <1>4, ReadsFirst DEF Here
<1> QED BY <1>5, <1>6 DEF Marked, Own

LEMMA OwnNothing ==
  ASSUME NEW t, t.kind # "plain"
  PROVE  Own(t) = {}
BY DEF Own, Source

LEMMA WholeStep ==
  ASSUME StreamInv, Words \subseteq {"plain"}, Whole, Reading, StreamNext
  PROVE  Whole'
<1>1. Layout /\ Nested /\ InOrder
  BY DEF StreamInv
<1>2. CASE Pulls
  <2>1. UNCHANGED <<out, Files>> /\ AllocatorInv' /\ \E t : Pulled(t)
    BY <1>1, <1>2, PullsToken DEF Pulls
  <2> QED BY <1>1, <2>1, WholePulled
<1>3. CASE Keeps \/ SkipStop \/ ExpandToken \/ Reclaim \/ BeginClose
  <2>1. UNCHANGED <<out, Files, lexed>> /\ Queue' = Queue
    <3>1. CASE Keeps \/ SkipStop
      BY <1>1, <3>1, StaysPut DEF Keeps, Text
    <3>2. CASE ExpandToken \/ Reclaim \/ BeginClose
      BY <3>2 DEF ExpandToken, Reclaim, BeginClose, includes, Files, Queue
    <3> QED BY <1>3, <3>1, <3>2
  <2> QED BY <2>1, WholeSame
<1>4. CASE \/ BoundedDirective \/ IfDirective \/ ElifDirective \/ ElseDirective
           \/ EndifDirective \/ SkipDrop
  <2>1. Drops
    BY <1>1, <1>4, DropsToken
  <2>2. Own(Head(Queue)) \cap lexed = {}
    <3>1. CASE SkipDrop
      BY <1>1, <3>1, SkippedNotTaken DEF SkipDrop
    <3>2. CASE ~SkipDrop
      <4>1. held[1].kind # "plain"
        BY <1>4, <3>2 DEF BoundedDirective, IfDirective, ElifDirective, ElseDirective,
                          EndifDirective, Directive, tok, If, Elif
      <4> QED BY <2>1, <4>1, OwnNothing DEF Drops
    <3> QED BY <3>1, <3>2
  <2> QED BY <1>1, <2>1, <2>2, WholeDrops DEF Drops, Text
<1>5. CASE SkipWord
  <2>1. /\ Queue # << >> /\ Queue' = Tail(Queue) /\ Head(Queue).kind = "null"
        /\ UNCHANGED <<out, Files, Text>>
    BY <1>1, <1>5, WordSkips
  <2> QED BY <1>1, <2>1, OwnNothing, WholeDrops DEF Text
<1>6. CASE Emit \/ OuterEof \/ NoCall
  <2>1. Delivers
    BY <1>1, <1>6, DeliversToken
  <2>2. Own(Head(Queue)) \subseteq lexed
    <3>1. CASE Emit
      BY <1>1, <3>1, EmittedTaken
    <3>2. CASE OuterEof
      BY <2>1, <3>2, OwnNothing DEF OuterEof, InStep, tok, Delivers
    <3>3. CASE NoCall
      <4>1. held[1].kind = "fun"
        BY <1>1, <3>3 DEF NoCall, Layout, HeldShape
      <4> QED BY <2>1, <4>1, OwnNothing DEF Delivers
    <3> QED BY <1>6, <3>1, <3>2, <3>3
  <2>3. Head(Queue) \in Token
    BY <2>1 DEF Delivers
  <2> QED BY <1>1, <2>1, <2>2, <2>3, WholeDelivers DEF Delivers, Text
<1>7. CASE Pragma
  <2>1. PICK t : Marks(t)
    BY <1>1, <1>7, MarksPragma
  <2>2. held[1].kind = "pragma"
    BY <1>7 DEF Pragma, Directive, tok
  <2>3. Own(t) = {} /\ Own(Head(Queue)) = {}
    BY <2>1, <2>2, OwnNothing DEF Marks
  <2> QED BY <1>1, <2>1, <2>3, WholeDelivers DEF Marks, Text
<1>8. CASE ExpandDone
  <2>1. pc \in {"body", "spliced"}
    BY <1>8 DEF ExpandDone
  <2> QED BY <1>1, <1>8, <2>1, ExpandsCall, WholeExpands
<1>9. CASE Include
  BY <1>1, <1>9, EntersFile, WholeEnters
<1>10. CASE PopFrame
  BY <1>1, <1>10, LeavesFile, WholeLeaves
<1>11. CASE ResetBeforeOpen \/ Open
  <2>1. pc \in {"closed", "reset"} /\ UNCHANGED <<out, held, pb, frames, lexed>>
    BY <1>11 DEF ResetBeforeOpen, Open, includes
  <2>2. out = << >> /\ held = << >> /\ pb = << >> /\ frames = << >> /\ lexed = {}
    BY <1>1, <2>1, IdleShape DEF Layout, ClosedShape, Idle
  <2> QED BY <2>1, <2>2, WholeNothingNext
<1>12. CASE Close
  BY <1>12, WholeNothingNext DEF Close
<1> QED BY <1>2, <1>3, <1>4, <1>5, <1>6, <1>7, <1>8, <1>9, <1>10, <1>11, <1>12
        DEF StreamNext, StreamStep, Pulls, Keeps

(* The invariant behind both.                                              *)
TextInv == StreamInv /\ Whole /\ Reading /\ Waiting

LEMMA TextInvInit == StreamInit => TextInv
<1> SUFFICES ASSUME StreamInit PROVE TextInv
  OBVIOUS
<1>1. /\ out = << >> /\ held = << >> /\ pb = << >> /\ frames = << >> /\ lexed = {}
      /\ pc = "closed"
  BY DEF StreamInit
<1>2. Whole
  BY <1>1, WholeNothing
<1>3. Reading /\ Waiting
  BY <1>1 DEF Reading, Waiting, Running, Streaming
<1> QED BY <1>2, <1>3, StreamInvInit DEF TextInv

LEMMA TextStill ==
  ASSUME TextInv, UNCHANGED <<vars, stream>>
  PROVE  Whole' /\ Reading' /\ Waiting'
<1>1. UNCHANGED <<out, cursor, pb, frames, file, cond_incl, nest, branches, eof_done, pc,
                  held, body, lexed>>
  BY DEF stream, chain, includes, conditionals
<1>2. Queue' = Queue /\ UNCHANGED <<out, Files, lexed, Text, Groups>>
  BY <1>1 DEF Queue, Files, Text, Groups
<1>3. Whole'
  BY <1>2, WholeSame DEF TextInv
<1>4. Reading'
  <2>1. CASE Running
    BY <1>1, <1>2, <2>1, ReadingStays DEF TextInv
  <2>2. CASE ~Running
    BY <1>1, <2>2 DEF Reading, Running, Streaming
  <2> QED BY <2>1, <2>2
<1>5. Waiting'
  <2>1. CASE Running
    <3>1. SameBelow
      BY <1>1 DEF SameBelow
    <3> QED BY <1>1, <1>2, <2>1, <3>1, WaitingStill DEF TextInv, StreamInv
  <2>2. CASE ~Running
    BY <1>1, <2>2 DEF Waiting, Running, Streaming
  <2> QED BY <2>1, <2>2
<1> QED BY <1>3, <1>4, <1>5

LEMMA TextInvStep ==
  ASSUME Words \subseteq {"plain"}, TextInv, [StreamNext]_<<vars, stream>>
  PROVE  TextInv'
<1>1. StreamInv'
  BY StreamInvStep DEF TextInv
<1>2. CASE StreamNext
  <2>1. Layout'
    BY <1>1 DEF StreamInv
  <2>2. Whole' /\ Reading' /\ Waiting'
    BY <1>2, <2>1, WholeStep, ReadingStep, WaitingStep DEF TextInv
  <2> QED BY <1>1, <2>2 DEF TextInv
<1>3. CASE UNCHANGED <<vars, stream>>
  BY <1>1, <1>3, TextStill DEF TextInv
<1> QED BY <1>2, <1>3

(* Part of a list, counted from its end.                                   *)
LEMMA Slice ==
  ASSUME NEW S, NEW c \in Seq(S), NEW s \in Nat, s <= Len(c), NEW l \in Nat, l <= s
  PROVE  /\ Len(SubSeq(c, Len(c) - s + 1, Len(c) - l)) = s - l
         /\ \A j \in 1 .. s - l :
               SubSeq(c, Len(c) - s + 1, Len(c) - l)[j] = c[Len(c) - s + j]
<1>1. PICK a : a = Len(c) - s
  OBVIOUS
<1>2. PICK b : b = Len(c) - l
  OBVIOUS
<1>3. a \in Nat /\ b \in Nat /\ a <= b /\ b <= Len(c) /\ b - a = s - l /\ Len(c) \in Nat
  BY <1>1, <1>2
<1>4. PICK g : g = SubSeq(c, a + 1, b)
  OBVIOUS
<1>5. Len(g) = b - a
  BY <1>3, <1>4
<1>6. ASSUME NEW j \in 1 .. b - a PROVE g[j] = c[a + j]
  <2>1. PICK k : k = a + 1
    OBVIOUS
  <2>2. k \in 1 .. Len(c) + 1 /\ g = SubSeq(c, k, b) /\ j \in 1 .. (b - k + 1)
    BY <1>3, <1>4, <2>1
  <2>3. g[j] = c[k + j - 1]
    BY <1>3, <2>2
  <2> QED BY <1>3, <2>1, <2>3
<1> QED BY <1>1, <1>2, <1>3, <1>4, <1>5, <1>6

LEMMA NothingOpen ==
  ASSUME NEW s \in Seq(Token), AllObeyed(s)
  PROVE  /\ \A i \in 1 .. Len(s) : s[i].kind \notin Conditionals
         /\ s # << >> => Head(s).kind \notin Conditionals \cup {"eof"}
<1>1. DOMAIN s = 1 .. Len(s) /\ Len(s) \in Nat
  OBVIOUS
<1>2. s # << >> => 1 \in 1 .. Len(s) /\ Head(s) = s[1]
  BY <1>1, TailAt
<1> QED BY <1>1, <1>2 DEF AllObeyed

LEMMA HereAgrees ==
  ASSUME TextInv, pc = "loop", eof_done = FALSE, AllObeyed(pb)
  PROVE  Atop(branches[1]) /\ Taken(branches[1])
<1>1. Layout /\ Running /\ Reading
  BY DEF TextInv, StreamInv, Running, Streaming
<1>2. held = << >> /\ pb \in Seq(Token)
  BY <1>1, IdleShape DEF Idle, Layout, TokensTyped
<1>3. Queue = pb
  BY <1>2, NothingHeld DEF Queue
<1>4. PICK B : Here(B)
  BY <1>1 DEF Reading
<1>5. ~First({"eof"}) /\ ~First(Resumed)
  BY <1>2, <1>3, NothingOpen DEF First, Resumed, Conditionals
<1>6. Atop(B) /\ Taken(B)
  BY <1>4, <1>5 DEF Here, Skips, ReadMatch
<1>7. B = branches[1]
  BY <1>2, <1>3, <1>4, NothingOpen, ReadsFlat DEF Here
<1> QED BY <1>6, <1>7

LEMMA WaitingAgrees ==
  ASSUME TextInv, Running, NEW n \in 1 .. Len(frames), AllObeyed(frames[n].saved_pb)
  PROVE  Within(n, branches[n + 1]) /\ Taken(branches[n + 1])
<1>1. FilesTyped /\ Waiting
  BY DEF TextInv, StreamInv, Layout
<1>2. PICK B : Waits(n, B)
  BY <1>1 DEF Waiting
<1>3. frames[n].saved_pb \in Seq(Token)
  BY <1>1, SavedTyped
<1>4. B = branches[n + 1]
  BY <1>2, <1>3, NothingOpen, ReadsFlat DEF Waits
<1> QED BY <1>2, <1>4 DEF Waits

LEMMA GroupsHere ==
  ASSUME TextInv, pc = "loop", eof_done = FALSE
  PROVE  GroupsAgree
<1>1. FilesTyped /\ Nested /\ Running
  BY DEF TextInv, StreamInv, Layout, Running, Streaming
<1>2. /\ cond_incl \in Seq(OpenIf) /\ Len(cond_incl) \in Nat
      /\ Boundary \in Nat /\ Boundary <= Len(cond_incl)
  BY <1>1, BoundaryNat DEF FilesTyped, Nested
<1>3. /\ Len(branches) = Len(frames) + 1 /\ Len(frames) \in Nat
      /\ branches \in Seq(Seq(OpenGroup))
  BY <1>1, BranchesAt
<1>4. LowestGroup(1) = Boundary /\ HighestGroup(1) = Len(cond_incl)
  BY <1>1, FirstLowest DEF HighestGroup
<1> DEFINE Right(i) ==
             /\ Len(GroupsOf(i)) = Len(branches[i])
             /\ \A j \in DOMAIN branches[i] :
                  branches[i][j].now /\ GroupsOf(i)[j].included = branches[i][j].seen
<1>5. ASSUME AllObeyed(pb) PROVE Right(1)
  <2>1. PICK B : B = branches[1]
    OBVIOUS
  <2>2. Atop(B) /\ Taken(B)
    BY <1>5, <2>1, HereAgrees
  <2>3. PICK g : g = GroupsOf(1)
    OBVIOUS
  <2>4. g = SubSeq(cond_incl, Len(cond_incl) - Len(cond_incl) + 1,
                   Len(cond_incl) - Boundary)
    BY <1>4, <2>3 DEF GroupsOf
  <2>5. /\ Len(g) = Len(cond_incl) - Boundary
        /\ \A j \in 1 .. Len(cond_incl) - Boundary :
              g[j] = cond_incl[Len(cond_incl) - Len(cond_incl) + j]
    <3>1. Len(cond_incl) <= Len(cond_incl)
      BY <1>2
    <3> QED BY <1>2, <2>4, <3>1, Slice
  <2>6. \A j \in 1 .. Len(cond_incl) - Boundary : g[j] = cond_incl[j]
    <3>1. \A j \in 1 .. Len(cond_incl) - Boundary :
             Len(cond_incl) - Len(cond_incl) + j = j
      BY <1>2
    <3> QED BY <2>5, <3>1
  <2>7. Len(B) = Len(cond_incl) - Boundary /\ B \in Seq(OpenGroup)
    <3>1. branches[1] \in Seq(OpenGroup)
      BY <1>1, BranchesTyped
    <3> QED BY <2>1, <2>2, <3>1 DEF Atop, Agree
  <2>8. DOMAIN B = 1 .. Len(cond_incl) - Boundary
    BY <2>7
  <2>9. \A j \in DOMAIN B : B[j].now /\ g[j].included = B[j].seen
    BY <2>2, <2>6, <2>8 DEF Atop, Agree, Taken
  <2> QED BY <2>1, <2>3, <2>5, <2>7, <2>9
<1>6. ASSUME NEW n \in 1 .. Len(frames), AllObeyed(frames[n].saved_pb), NEW i, i = n + 1
      PROVE  Right(i)
  <2>1. PICK B : B = branches[i]
    OBVIOUS
  <2>2. Within(n, B) /\ Taken(B)
    BY <1>1, <1>6, <2>1, WaitingAgrees
  <2>3. PICK s : s = frames[n].saved_cond_incl
    OBVIOUS
  <2>4. s \in Nat /\ s <= Boundary
    BY <1>1, <2>3, NestedBelow
  <2>5. PICK l : l = LowestGroup(n + 1)
    OBVIOUS
  <2>6. n + 1 \in Nat \ {0} /\ n \in Nat /\ n + 1 # 1 /\ i - 1 = n /\ ~(n > Len(frames))
    BY <1>3, <1>6
  <2>7. l \in Nat
    BY <1>1, <2>5, <2>6, LowestNat
  <2>8. B \in Seq(OpenGroup)
    <3>1. i \in 1 .. Len(branches)
      BY <1>3, <1>6
    <3> QED BY <1>3, <2>1, <3>1, ElementOfSeq
  <2>9. Len(B) = s - l /\ Len(B) \in Nat
    BY <2>2, <2>3, <2>5, <2>8 DEF Within
  <2>10. l <= s /\ s <= Len(cond_incl)
    BY <1>2, <2>4, <2>7, <2>9
  <2>11. PICK g : g = GroupsOf(i)
    OBVIOUS
  <2>12. LowestGroup(i) = l /\ HighestGroup(i) = s
    BY <1>6, <2>3, <2>5, <2>6 DEF HighestGroup, LowestGroup
  <2>13. g = SubSeq(cond_incl, Len(cond_incl) - s + 1, Len(cond_incl) - l)
    BY <2>11, <2>12 DEF GroupsOf
  <2>14. /\ Len(g) = s - l
         /\ \A j \in 1 .. s - l : g[j] = cond_incl[Len(cond_incl) - s + j]
    BY <1>2, <2>4, <2>7, <2>10, <2>13, Slice
  <2>15. \A j \in 1 .. Len(B) : FromEnd(cond_incl, s + 1 - j).included = B[j].seen
    BY <2>2, <2>3 DEF Within
  <2>16. ASSUME NEW j \in DOMAIN B PROVE B[j].now /\ g[j].included = B[j].seen
    <3>1. j \in 1 .. Len(B) /\ j \in 1 .. s - l
      BY <2>8, <2>9
    <3>2. FromEnd(cond_incl, s + 1 - j).included = B[j].seen
      BY <2>15, <3>1
    <3>3. Len(cond_incl) + 1 - (s + 1 - j) = Len(cond_incl) - s + j
      BY <1>2, <2>4, <3>1
    <3>4. FromEnd(cond_incl, s + 1 - j) = g[j]
      BY <2>14, <3>1, <3>3 DEF FromEnd
    <3> QED BY <2>2, <3>2, <3>4 DEF Taken
  <2> QED BY <2>1, <2>9, <2>11, <2>14, <2>16
<1>7. ASSUME NEW i \in DOMAIN branches,
             AllObeyed(IF i = 1 THEN pb ELSE frames[i - 1].saved_pb)
      PROVE  Right(i)
  <2>1. CASE i = 1
    BY <1>5, <1>7, <2>1
  <2>2. CASE i # 1
    <3>1. i - 1 \in 1 .. Len(frames) /\ i = i - 1 + 1
      BY <1>3, <2>2
    <3>2. PICK n \in 1 .. Len(frames) : n = i - 1 /\ i = n + 1
      BY <3>1, Zenon
    <3>3. AllObeyed(frames[n].saved_pb)
      BY <1>7, <2>2, <3>2
    <3> HIDE DEF Right
    <3> QED BY <1>6, <3>2, <3>3
  <2> QED BY <2>1, <2>2
<1>8. HighestGroup(1) >= LowestGroup(1)
  BY <1>2, <1>4
<1> QED BY <1>7, <1>8 DEF GroupsAgree

LEMMA TextAgrees == TextInv => GroupsAgree
<1>1. CASE ~(pc = "loop" /\ ~eof_done)
  BY <1>1 DEF GroupsAgree
<1>2. ASSUME TextInv, pc = "loop", ~eof_done PROVE GroupsAgree
  <2>1. eof_done \in BOOLEAN
    BY <1>2 DEF TextInv, StreamInv, Layout, CountersTyped
  <2>2. eof_done = FALSE
    BY <1>2, <2>1
  <2> QED BY <1>2, <2>2, GroupsHere
<1> QED BY <1>1, <1>2

(* The groups the code has open for a file are those its text has open     *)
(* there, each with what C says of its branches, for the file being read   *)
(* and for every file that waits for an include: whatever was skipped,     *)
(* included and expanded before, no file closes or continues a group that  *)
(* is not its own, and each branch C takes is the one that is read.  The   *)
(* case left out is the one in which a word on the line after a lone #, in *)
(* a branch that is skipped, reads as a directive's name.                  *)
THEOREM GroupsAlwaysAgree ==
  ASSUME Words \subseteq {"plain"}
  PROVE  StreamSpec => []GroupsAgree
<1>1. StreamInit => TextInv
  BY TextInvInit
<1>2. TextInv /\ [StreamNext]_<<vars, stream>> => TextInv'
  BY TextInvStep
<1>3. TextInv => GroupsAgree
  BY TextAgrees
<1> QED BY <1>1, <1>2, <1>3, PTL DEF StreamSpec

LEMMA IdsJoin ==
  ASSUME NEW r \in Seq(Token), NEW s \in Seq(Token)
  PROVE  /\ IdsOf(r \o s) = IdsOf(r) \cup IdsOf(s)
         /\ Once(r) /\ Once(s) /\ IdsOf(r) \cap IdsOf(s) = {} => Once(r \o s)
<1>1. PICK q : q = r \o s
  OBVIOUS
<1>2. /\ q \in Seq(Token) /\ Len(q) = Len(r) + Len(s)
      /\ \A i \in 1 .. Len(r) + Len(s) :
            q[i] = IF i <= Len(r) THEN r[i] ELSE s[i - Len(r)]
      /\ Len(r) \in Nat /\ Len(s) \in Nat
  BY <1>1, JoinAt
<1>3. ASSUME NEW i \in 1 .. Len(r) PROVE i \in 1 .. Len(q) /\ q[i] = r[i]
  BY <1>2
<1>4. ASSUME NEW i \in 1 .. Len(s)
      PROVE  i + Len(r) \in 1 .. Len(q) /\ q[i + Len(r)] = s[i]
  <2>1. PICK k : k = i + Len(r)
    OBVIOUS
  <2>2. k \in 1 .. Len(r) + Len(s) /\ ~(k <= Len(r)) /\ k - Len(r) = i
    BY <1>2, <2>1
  <2>3. q[k] = s[k - Len(r)]
    BY <1>2, <2>2
  <2> QED BY <1>2, <2>1, <2>2, <2>3
<1>5. ASSUME NEW i \in 1 .. Len(q)
      PROVE  \/ i \in 1 .. Len(r) /\ q[i] = r[i]
             \/ /\ i - Len(r) \in 1 .. Len(s) /\ q[i] = s[i - Len(r)]
                /\ ~(i \in 1 .. Len(r))
  BY <1>2
<1>6. ASSUME NEW i \in 1 .. Len(q), Source(q[i])
      PROVE  q[i].id \in IdsOf(r) \cup IdsOf(s)
  <2>1. q[i].id \in Nat
    BY <1>2, TokenFields, ElementOfSeq
  <2> QED BY <1>5, <1>6, <2>1 DEF IdsOf
<1>7. IdsOf(q) \subseteq IdsOf(r) \cup IdsOf(s)
  BY <1>6 DEF IdsOf
<1>8. IdsOf(r) \subseteq IdsOf(q)
  BY <1>3 DEF IdsOf
<1>9. IdsOf(s) \subseteq IdsOf(q)
  BY <1>4 DEF IdsOf
<1>10. ASSUME Once(r), Once(s), IdsOf(r) \cap IdsOf(s) = {}
       PROVE  Once(q)
  <2> SUFFICES ASSUME NEW i \in 1 .. Len(q), NEW j \in 1 .. Len(q), i < j,
                      Source(q[i]), Source(q[j]), q[i].id = q[j].id
               PROVE  FALSE
    BY DEF Once
  <2>1. q[i].id \in Nat
    BY <1>2, TokenFields, ElementOfSeq
  <2>2. CASE j \in 1 .. Len(r)
    <3>1. i \in 1 .. Len(r)
      BY <1>2, <2>2
    <3>2. q[i] = r[i] /\ q[j] = r[j]
      BY <1>3, <2>2, <3>1
    <3> QED BY <1>10, <2>2, <3>1, <3>2 DEF Once
  <2>3. CASE ~(j \in 1 .. Len(r)) /\ i \in 1 .. Len(r)
    <3>1. q[i] = r[i] /\ j - Len(r) \in 1 .. Len(s) /\ q[j] = s[j - Len(r)]
      BY <1>3, <1>5, <2>3
    <3>2. q[i].id \in IdsOf(r)
      BY <2>1, <2>3, <3>1 DEF IdsOf
    <3>3. q[i].id \in IdsOf(s)
      BY <2>1, <3>1 DEF IdsOf
    <3> QED BY <1>10, <3>2, <3>3
  <2>4. CASE ~(j \in 1 .. Len(r)) /\ ~(i \in 1 .. Len(r))
    <3>1. /\ j - Len(r) \in 1 .. Len(s) /\ q[j] = s[j - Len(r)]
          /\ i - Len(r) \in 1 .. Len(s) /\ q[i] = s[i - Len(r)]
      BY <1>5, <2>4
    <3>2. i - Len(r) < j - Len(r)
      BY <1>2
    <3> QED BY <1>10, <3>1, <3>2 DEF Once
  <2> QED BY <2>2, <2>3, <2>4
<1> QED BY <1>1, <1>7, <1>8, <1>9, <1>10

LEMMA PlainAt ==
  ASSUME NEW s \in Seq(Token), NEW i \in PlainIn(s)
  PROVE  i \in 1 .. Len(s) /\ Source(s[i]) /\ s[i].id \in IdsOf(s)
<1>1. i \in 1 .. Len(s) /\ Source(s[i])
  BY DEF PlainIn, Source
<1>2. s[i].id \in Nat
  BY <1>1, TokenFields, ElementOfSeq
<1> QED BY <1>1, <1>2 DEF IdsOf

LEMMA PlainSome ==
  ASSUME NEW s \in Seq(Token), NEW x \in IdsOf(s)
  PROVE  \E i \in PlainIn(s) : s[i].id = x
BY DEF IdsOf, PlainIn, Source

LEMMA PlainOnce ==
  ASSUME NEW s \in Seq(Token), Once(s), NEW i \in PlainIn(s), NEW j \in PlainIn(s),
         s[i].id = s[j].id
  PROVE  i = j
<1>1. /\ i \in 1 .. Len(s) /\ Source(s[i]) /\ j \in 1 .. Len(s) /\ Source(s[j])
  BY PlainAt
<1>2. i \in Int /\ j \in Int
  BY <1>1
<1>3. ~(i < j) /\ ~(j < i)
  BY <1>1 DEF Once
<1> QED BY <1>2, <1>3

LEMMA ListsAt ==
  ASSUME Layout
  PROVE  /\ DOMAIN Lists = 0 .. Len(frames) /\ Lists[0] = out \o Queue
         /\ \A n \in 1 .. Len(frames) : Lists[n] = frames[n].saved_pb
         /\ \A n \in 0 .. Len(frames) : Lists[n] \in Seq(Token)
<1>1. /\ out \in Seq(Token) /\ held \in Seq(Token) /\ pb \in Seq(Token)
      /\ Queue \in Seq(Token) /\ Len(frames) \in Nat /\ FilesTyped
  BY OrderTypes DEF Layout, TokensTyped
<1>2. DOMAIN Lists = 0 .. Len(frames)
  BY DEF Lists
<1>3. 0 \in 0 .. Len(frames) /\ \A n \in 1 .. Len(frames) : n \in 0 .. Len(frames) /\ n # 0
  BY <1>1
<1>4. Lists[0] = (out \o held) \o pb
  BY <1>3 DEF Lists
<1>5. (out \o held) \o pb = out \o Queue
  BY <1>1, Assoc DEF Queue
<1>6. out \o Queue \in Seq(Token)
  BY <1>1, JoinAt
<1>7. \A n \in 1 .. Len(frames) : Lists[n] = frames[n].saved_pb
  BY <1>3 DEF Lists
<1>8. ASSUME NEW n \in 0 .. Len(frames) PROVE Lists[n] \in Seq(Token)
  <2>1. CASE n = 0
    BY <1>4, <1>5, <1>6, <2>1
  <2>2. CASE n # 0
    <3>1. n \in 1 .. Len(frames)
      BY <1>1, <2>2
    <3> QED BY <1>1, <1>7, <3>1, SavedTyped
  <2> QED BY <2>1, <2>2
<1> QED BY <1>2, <1>4, <1>5, <1>7, <1>8

LEMMA PlacesAt ==
  ASSUME Layout, NEW p \in Places
  PROVE  \E n \in 0 .. Len(frames) : \E i \in PlainIn(Lists[n]) : p = <<n, i>>
<1>1. PICK n \in DOMAIN Lists : p \in {n} \X PlainIn(Lists[n])
  BY DEF Places
<1>2. n \in 0 .. Len(frames)
  BY <1>1, ListsAt
<1>3. \E i \in PlainIn(Lists[n]) : p = <<n, i>>
  BY <1>1
<1> QED BY <1>2, <1>3

LEMMA PlaceIs ==
  ASSUME Layout, NEW n \in 0 .. Len(frames), NEW i \in PlainIn(Lists[n])
  PROVE  <<n, i>> \in Places /\ IdAt(<<n, i>>) = Lists[n][i].id
<1>1. n \in DOMAIN Lists
  BY ListsAt
<1>2. <<n, i>> \in {n} \X PlainIn(Lists[n])
  OBVIOUS
<1>3. <<n, i>> \in Places
  BY <1>1, <1>2 DEF Places
<1>4. IdAt(<<n, i>>) = Lists[n][i].id
  BY DEF IdAt
<1> QED BY <1>3, <1>4

LEMMA WholeLists ==
  ASSUME Layout, Whole
  PROVE  /\ IdsOf(Lists[0]) = IdsOf(out) \cup IdsOf(Queue)
         /\ \A n \in 0 .. Len(frames) : Once(Lists[n])
         /\ \A m \in 0 .. Len(frames), n \in 0 .. Len(frames) :
               m # n => IdsOf(Lists[m]) \cap IdsOf(Lists[n]) = {}
<1>1. /\ out \in Seq(Token) /\ Queue \in Seq(Token) /\ Len(frames) \in Nat
  BY OrderTypes
<1>2. Lists[0] = out \o Queue /\ \A n \in 1 .. Len(frames) : Lists[n] = frames[n].saved_pb
  BY ListsAt
<1>3. IdsOf(Lists[0]) = IdsOf(out) \cup IdsOf(Queue) /\ Once(Lists[0])
  BY <1>1, <1>2, IdsJoin DEF Whole, OnceEach
<1>4. ASSUME NEW n \in 1 .. Len(frames)
      PROVE  /\ Once(Lists[n]) /\ IdsOf(Lists[n]) = Saved(n)
             /\ IdsOf(Lists[0]) \cap IdsOf(Lists[n]) = {}
  <2>1. Lists[n] = frames[n].saved_pb
    BY <1>2
  <2>2. Once(Lists[n]) /\ IdsOf(Lists[n]) = Saved(n)
    BY <2>1 DEF Whole, OnceEach, Saved
  <2>3. IdsOf(out) \cap Saved(n) = {} /\ IdsOf(Queue) \cap Saved(n) = {}
    BY DEF Whole, OnceEach
  <2> QED BY <1>3, <2>2, <2>3
<1>5. ASSUME NEW n \in 0 .. Len(frames) PROVE n = 0 \/ n \in 1 .. Len(frames)
  BY <1>1
<1>6. ASSUME NEW m \in 0 .. Len(frames), NEW n \in 0 .. Len(frames), m # n
      PROVE  IdsOf(Lists[m]) \cap IdsOf(Lists[n]) = {}
  <2>1. CASE m = 0 \/ n = 0
    BY <1>4, <1>5, <1>6, <2>1
  <2>2. CASE m # 0 /\ n # 0
    <3>1. m \in 1 .. Len(frames) /\ n \in 1 .. Len(frames)
      BY <1>5, <2>2
    <3>2. Saved(m) \cap Saved(n) = {}
      BY <1>6, <3>1 DEF Whole, OnceEach
    <3> QED BY <1>4, <3>1, <3>2
  <2> QED BY <2>1, <2>2
<1>7. ASSUME NEW n \in 0 .. Len(frames) PROVE Once(Lists[n])
  BY <1>3, <1>4, <1>5
<1> QED BY <1>3, <1>6, <1>7

LEMMA NothingLost ==
  ASSUME Layout, Whole
  PROVE  NoTokenLost
<1>1. Len(frames) \in Nat /\ 0 \in 0 .. Len(frames) /\ out \in Seq(Token)
  BY OrderTypes
<1>2. /\ \A n \in 0 .. Len(frames) : Lists[n] \in Seq(Token)
      /\ \A n \in 1 .. Len(frames) : Lists[n] = frames[n].saved_pb
  BY ListsAt
<1>3. ASSUME NEW n \in 0 .. Len(frames), NEW x \in IdsOf(Lists[n])
      PROVE  \E p \in Places : IdAt(p) = x
  <2>1. PICK i \in PlainIn(Lists[n]) : Lists[n][i].id = x
    BY <1>2, <1>3, PlainSome
  <2>2. <<n, i>> \in Places /\ IdAt(<<n, i>>) = x
    BY <2>1, PlaceIs
  <2> QED BY <2>2
<1>4. ASSUME NEW x \in lexed PROVE x \in {IdAt(p) : p \in Places}
  <2>1. \E n \in 0 .. Len(frames) : x \in IdsOf(Lists[n])
    <3>1. CASE x \in IdsOf(out) \cup IdsOf(Queue)
      BY <1>1, <3>1, WholeLists
    <3>2. CASE \E n \in 1 .. Len(frames) : x \in Saved(n)
      <4>1. PICK n \in 1 .. Len(frames) : x \in Saved(n)
        BY <3>2
      <4>2. n \in 0 .. Len(frames) /\ x \in IdsOf(Lists[n])
        BY <1>1, <1>2, <4>1 DEF Saved
      <4> QED BY <4>2
    <3> QED BY <3>1, <3>2 DEF Whole, Kept
  <2> QED BY <1>3, <2>1
<1>5. ASSUME NEW i \in PlainIn(out) PROVE out[i].id \in lexed
  BY <1>1, PlainAt DEF Whole, Kept
<1>6. ASSUME NEW p \in Places, NEW q \in Places, IdAt(p) = IdAt(q)
      PROVE  p = q
  <2>1. PICK m \in 0 .. Len(frames) : \E i \in PlainIn(Lists[m]) : p = <<m, i>>
    BY PlacesAt
  <2>2. PICK i \in PlainIn(Lists[m]) : p = <<m, i>>
    BY <2>1
  <2>3. PICK n \in 0 .. Len(frames) : \E j \in PlainIn(Lists[n]) : q = <<n, j>>
    BY PlacesAt
  <2>4. PICK j \in PlainIn(Lists[n]) : q = <<n, j>>
    BY <2>3
  <2>5. Lists[m][i].id = Lists[n][j].id
    BY <1>6, <2>2, <2>4, PlaceIs
  <2>6. Lists[m][i].id \in IdsOf(Lists[m]) /\ Lists[n][j].id \in IdsOf(Lists[n])
    BY <1>2, PlainAt
  <2>7. m = n
    BY <2>5, <2>6, WholeLists
  <2>8. i = j
    BY <1>2, <2>5, <2>7, PlainOnce, WholeLists
  <2> QED BY <2>2, <2>4, <2>7, <2>8
<1>7. lexed \subseteq {IdAt(p) : p \in Places}
  BY <1>4
<1> QED BY <1>5, <1>6, <1>7 DEF NoTokenLost

(* Every plain token of a branch that C takes is in exactly one place, the *)
(* chain, the pushback list, the running step or the saved list of a       *)
(* frame, and the chain has no other: whatever is pushed back, expanded,   *)
(* skipped and included, none is dropped, delivered twice or delivered     *)
(* from a branch not taken.  The case left out is that of GroupsAlwaysAgree. *)
THEOREM NoTokenEverLost ==
  ASSUME Words \subseteq {"plain"}
  PROVE  StreamSpec => []NoTokenLost
<1>1. StreamInit => TextInv
  BY TextInvInit
<1>2. TextInv /\ [StreamNext]_<<vars, stream>> => TextInv'
  BY TextInvStep
<1>3. TextInv => NoTokenLost
  BY NothingLost DEF TextInv, StreamInv
<1> QED BY <1>1, <1>2, <1>3, PTL DEF StreamSpec
=============================================================================
