---------------------------- MODULE RuntimeHeap -----------------------------
(***************************************************************************)
(* The heap of a linked wasm program: malloc, aligned_alloc, realloc and   *)
(* free of tools/wasm_obj_linker/runtime/parts/memory.c.                   *)
(*                                                                         *)
(* The heap is a chain of blocks from Base up to heap.top (ag_rt_heap).  A *)
(* block begins with a header that holds its size, whether it is allocated *)
(* and, as a boundary tag, the size of the block before it; heap.last      *)
(* (ag_rt_last_block) is the block that ends at the top.  The word before  *)
(* a user pointer holds the address of the header.  Addresses and sizes    *)
(* are in words of a long, which is 4 bytes in wasm32.                     *)
(*                                                                         *)
(* The program is arbitrary but legal: it keeps what it was given in       *)
(* variables (Handle), frees or resizes only that, and fills each object   *)
(* with a mark of its own, so that mem shows whether an object is intact.  *)
(***************************************************************************)
EXTENDS Integers

CONSTANTS
  Handle,      \* the program's variables, also the marks it writes
  Junk,        \* a word that is nobody's
  Base,        \* ag_rt_heap_base
  Limit,       \* ag_rt_memory_limit
  HeaderSize,  \* AG_RT_BLOCK_HEADER_SIZE, 5 words
  PrefixSize,  \* AG_RT_BLOCK_PREFIX_SIZE, one word
  MinBlock,    \* AG_RT_MIN_BLOCK_SIZE, 8 words
  Unit,        \* the alignment of headers and of malloc, 8 bytes
  Sizes,       \* the sizes asked for
  Alignments   \* the alignments asked for

Address == Base .. Limit
Word == Base .. Limit - 1

ASSUME HeapAssumption ==
  /\ Base \in Nat \ {0} /\ Limit \in Nat /\ Base <= Limit
  /\ Unit \in Nat \ {0} /\ Base % Unit = 0
  /\ HeaderSize \in Nat \ {0} /\ PrefixSize = 1
  /\ MinBlock \in Nat /\ MinBlock % Unit = 0
  /\ MinBlock > HeaderSize + PrefixSize

ASSUME RequestAssumption ==
  /\ Sizes \subseteq Nat \ {0}
  /\ Unit \in Alignments
  /\ \A a \in Alignments : a \in Nat \ {0} /\ a % Unit = 0

ASSUME HandleAssumption ==
  /\ Junk \notin Handle
  /\ \A p \in Handle \cup {Junk} : p \notin Nat

VARIABLES
  heap,     \* [meta : header -> its words, top, last]
  mem,      \* the words outside the headers
  pointer   \* the program's variables, 0 if they hold nothing

vars == <<heap, mem, pointer>>

Header ==
  [total : Nat, allocated : BOOLEAN, prev : Nat,
   requested : Nat, offset : Nat, alignment : Nat]

Blocks(k) == DOMAIN k.meta
IsFree(k, h) == ~ k.meta[h].allocated
After(k, h) == h + k.meta[h].total

Init ==
  /\ heap = [meta |-> [h \in {} |-> 0], top |-> Base, last |-> 0]
  /\ mem = [w \in Word |-> Junk]
  /\ pointer = [p \in Handle |-> 0]

-----------------------------------------------------------------------------
AlignUp(x, a) == ((x + a - 1) \div a) * a

(* ag_rt_block_layout.  Its guards against overflow of a long only refuse   *)
(* what no block and no memory could hold.                                  *)
Offset(h, alignment) == AlignUp(h + HeaderSize + PrefixSize, alignment) - h
Needed_NoPadding(h, requested, alignment) ==  \* mutant: as if malloc had asked
  LET total == AlignUp(HeaderSize + PrefixSize + requested, Unit)
  IN IF total < MinBlock THEN MinBlock ELSE total
Needed(h, requested, alignment) ==
  LET total == AlignUp(Offset(h, alignment) + requested, Unit)
  IN IF total < MinBlock THEN MinBlock ELSE total

(* ag_rt_update_following_prev.                                             *)
UpdateFollowing(k, h) ==
  IF After(k, h) < k.top
  THEN [k EXCEPT !.meta[After(k, h)].prev = k.meta[h].total]
  ELSE k

(* Block h takes over the block b that follows it.                          *)
Absorb(k, h, b) ==
  [k EXCEPT
    !.meta = [x \in Blocks(k) \ {b} |->
                IF x = h THEN [k.meta[h] EXCEPT !.total = @ + k.meta[b].total]
                ELSE k.meta[x]],
    !.last = IF @ = b THEN h ELSE @]

(* ag_rt_split_allocated_block: h keeps used words, and the rest, if it is  *)
(* large enough, becomes a free block of its own or joins the next one.     *)
FreeBlock(total, prev) ==
  [total |-> total, allocated |-> FALSE, prev |-> prev,
   requested |-> 0, offset |-> 0, alignment |-> 0]
SplitAllocated(k, h, used) ==
  LET rest == k.meta[h].total - used
      r == h + used
      next == After(k, h)
      cut == [k EXCEPT
               !.meta = [x \in Blocks(k) \cup {r} |->
                 IF x = r THEN FreeBlock(rest, used)
                 ELSE IF x = h
                   THEN [k.meta[h] EXCEPT !.total = used, !.allocated = TRUE]
                 ELSE k.meta[x]]]
  IN IF rest < MinBlock THEN [k EXCEPT !.meta[h].allocated = TRUE]
     ELSE UpdateFollowing(
            IF next < k.top /\ IsFree(k, next) THEN Absorb(cut, r, next)
            ELSE [cut EXCEPT !.last = IF @ = h THEN r ELSE @], r)

(* ag_rt_coalesce_free_block.                                               *)
Coalesce_OnlyForward(k, h) ==  \* mutant: the free block before is left alone
  IF After(k, h) < k.top /\ IsFree(k, After(k, h))
  THEN UpdateFollowing(Absorb(k, h, After(k, h)), h) ELSE k
Coalesce(k, h) ==
  LET m == IF After(k, h) < k.top /\ IsFree(k, After(k, h))
           THEN Absorb(k, h, After(k, h)) ELSE k
      b == h - m.meta[h].prev
  IN IF m.meta[h].prev > 0 /\ IsFree(m, b)
     THEN UpdateFollowing(Absorb(m, b, h), b) ELSE UpdateFollowing(m, h)

(* ag_rt_alloc_block: the first free block that is large enough, or a new   *)
(* one at the top.                                                          *)
Fitting(requested, alignment) ==
  {h \in Blocks(heap) :
     IsFree(heap, h) /\ heap.meta[h].total >= Needed(h, requested, alignment)}
Fits(requested, alignment) ==
  \/ Fitting(requested, alignment) # {}
  \/ heap.top + Needed(heap.top, requested, alignment) <= Limit
Chosen(requested, alignment) ==
  LET fitting == Fitting(requested, alignment)
  IN IF fitting = {} THEN heap.top
     ELSE CHOOSE h \in fitting : \A x \in fitting : h <= x
Extended(h, needed) ==
  [meta |-> [x \in Blocks(heap) \cup {h} |->
               IF x = h
               THEN [FreeBlock(needed, IF heap.last = 0 THEN 0
                                       ELSE heap.meta[heap.last].total)
                      EXCEPT !.allocated = TRUE]
               ELSE heap.meta[x]],
   top |-> h + needed, last |-> h]
Allocated(requested, alignment) ==
  LET h == Chosen(requested, alignment)
      needed == Needed(h, requested, alignment)
      k == IF h = heap.top THEN Extended(h, needed)
           ELSE SplitAllocated(heap, h, needed)
  IN [k EXCEPT !.meta[h].requested = requested,
               !.meta[h].offset = Offset(h, alignment),
               !.meta[h].alignment = alignment]
User(requested, alignment) ==
  LET h == Chosen(requested, alignment) IN h + Offset(h, alignment)

(* ag_rt_allocated_header: the header a pointer belongs to, if any.         *)
AllocatedHeader_NeverFull(k, m, ptr) ==  \* mutant: off by one for a full block
  {h \in Blocks(k) :
     /\ m[ptr - 1] = h /\ k.meta[h].allocated
     /\ k.meta[h].offset >= HeaderSize + PrefixSize
     /\ ptr = h + k.meta[h].offset
     /\ k.meta[h].requested \in 1 .. k.meta[h].total - k.meta[h].offset - 1}
AllocatedHeader(k, m, ptr) ==
  {h \in Blocks(k) :
     /\ m[ptr - 1] = h /\ k.meta[h].allocated
     /\ k.meta[h].offset >= HeaderSize + PrefixSize
     /\ ptr = h + k.meta[h].offset
     /\ k.meta[h].requested \in 1 .. k.meta[h].total - k.meta[h].offset}

-----------------------------------------------------------------------------
(* The words an operation leaves: every header of the heap k is written,    *)
(* the words of an object that is gone are nobody's.                        *)
Stamped(k, m) ==
  [w \in Word |->
     IF \E h \in Blocks(k) : w \in h .. h + HeaderSize - 1 THEN Junk ELSE m[w]]
Object(k, h) ==
  h + k.meta[h].offset .. h + k.meta[h].offset + k.meta[h].requested - 1
Prefixed(k, m, h) == [m EXCEPT ![h + k.meta[h].offset - 1] = h]
Dropped(m, gone) == [w \in Word |-> IF w \in gone THEN Junk ELSE m[w]]
Filled(m, object, p) == [w \in Word |-> IF w \in object THEN p ELSE m[w]]

(* malloc and calloc, and aligned_alloc, whose size is a multiple of the    *)
(* alignment.                                                               *)
Malloc(p, size, alignment) ==
  /\ pointer[p] = 0
  /\ alignment = Unit \/ size % alignment = 0
  /\ Fits(size, alignment)
  /\ LET k == Allocated(size, alignment)
         h == Chosen(size, alignment)
     IN /\ heap' = k
        /\ mem' = Filled(Prefixed(k, Stamped(k, mem), h), Object(k, h), p)
  /\ pointer' = [pointer EXCEPT ![p] = User(size, alignment)]

(* free, and realloc to no bytes.                                           *)
Released(k, h) == Coalesce([k EXCEPT !.meta[h] = FreeBlock(@.total, @.prev)], h)
Free(p) ==
  /\ pointer[p] # 0
  /\ \E h \in AllocatedHeader(heap, mem, pointer[p]) :
       /\ heap' = Released(heap, h)
       /\ mem' = Stamped(heap',
                   Dropped(mem, Object(heap, h) \cup {pointer[p] - 1}))
  /\ pointer' = [pointer EXCEPT ![p] = 0]

(* realloc: the block is large enough and gives back what it does not need. *)
Required(h, size) ==
  Needed(h, size, IF heap.meta[h].alignment >= Unit THEN heap.meta[h].alignment
                  ELSE Unit)
Resized(k, h, size) == [k EXCEPT !.meta[h].requested = size]
ReallocInPlace(p, size) ==
  /\ pointer[p] # 0
  /\ \E h \in AllocatedHeader(heap, mem, pointer[p]) :
       /\ Required(h, size) <= heap.meta[h].total
       /\ heap' = SplitAllocated(Resized(heap, h, size), h, Required(h, size))
       /\ mem' = Filled(Stamped(heap', Dropped(mem, Object(heap, h) \ Object(heap', h))),
                        Object(heap', h) \ Object(heap, h), p)
  /\ UNCHANGED pointer

(* realloc: the last block grows over the top.                              *)
AtTop(h, size) ==
  After(heap, h) = heap.top /\ h + Required(h, size) <= Limit
ReallocAtTop(p, size) ==
  /\ pointer[p] # 0
  /\ \E h \in AllocatedHeader(heap, mem, pointer[p]) :
       /\ Required(h, size) > heap.meta[h].total
       /\ AtTop(h, size)
       /\ heap' = [heap EXCEPT !.meta[h].total = Required(h, size),
                               !.meta[h].requested = size,
                               !.top = h + Required(h, size)]
       /\ mem' = Filled(mem, Object(heap', h) \ Object(heap, h), p)
  /\ UNCHANGED pointer

(* realloc: a new block, a copy and a free.                                 *)
CopySize(old, new) == IF old < new THEN old ELSE new
Copied(m, from, to, size) ==
  [w \in Word |-> IF w \in to .. to + size - 1 THEN m[from + w - to] ELSE m[w]]
ReallocMove(p, size) ==
  /\ pointer[p] # 0
  /\ \E h \in AllocatedHeader(heap, mem, pointer[p]) :
       LET a == heap.meta[h].alignment
           k == Allocated(size, a)
           n == Chosen(size, a)
           to == User(size, a)
           copied == CopySize(heap.meta[h].requested, size)
           moved == Copied(Prefixed(k, Stamped(k, mem), n),
                           pointer[p], to, copied)
       IN /\ Required(h, size) > heap.meta[h].total
          /\ ~ AtTop(h, size)
          /\ Fits(size, a)
          /\ heap' = Released(k, h)
          /\ mem' = Filled(Stamped(heap', Dropped(moved, Object(heap, h)
                                                   \cup {pointer[p] - 1})),
                           to + copied .. to + size - 1, p)
          /\ pointer' = [pointer EXCEPT ![p] = to]

Next ==
  \E p \in Handle :
    \/ Free(p)
    \/ \E size \in Sizes :
         \/ \E alignment \in Alignments : Malloc(p, size, alignment)
         \/ ReallocInPlace(p, size)
         \/ ReallocAtTop(p, size)
         \/ ReallocMove(p, size)

Spec == Init /\ [][Next]_vars

-----------------------------------------------------------------------------
(* Shapes of the state.                                                     *)
TypeOK ==
  /\ heap.top \in Address /\ heap.last \in Address \cup {0}
  /\ Blocks(heap) \subseteq Word
  /\ heap.meta \in [Blocks(heap) -> Header]
  /\ mem \in [Word -> Handle \cup {Junk} \cup Word]
  /\ pointer \in [Handle -> Word \cup {0}]

(* The chain and its boundary tags, below the limit of the memory: after any calls the blocks follow each  *)
(* other from the base to the top without a gap, each keeps the size of the *)
(* one before it, and ag_rt_last_block is the one that ends at the top.     *)
(* Nothing else in the code can tell where a block begins.  No two free     *)
(* blocks lie side by side, so memory that was given back in pieces can be  *)
(* handed out again as a whole.                                             *)
ChainExact ==
  /\ TypeOK
  /\ \A h \in Blocks(heap) :
       /\ heap.meta[h].total >= MinBlock
       /\ After(heap, h) \in Blocks(heap) \cup {heap.top}
       /\ \A x \in Blocks(heap) : x <= h \/ x >= After(heap, h)
       /\ IF h = Base THEN heap.meta[h].prev = 0
          ELSE \E b \in Blocks(heap) :
                 /\ After(heap, b) = h /\ heap.meta[h].prev = heap.meta[b].total
                 /\ ~ (IsFree(heap, h) /\ IsFree(heap, b))
  /\ IF heap.top = Base THEN Blocks(heap) = {} /\ heap.last = 0
     ELSE /\ Base \in Blocks(heap) /\ heap.last \in Blocks(heap)
          /\ After(heap, heap.last) = heap.top

(* What the program wrote into an object is there until it frees it,        *)
(* through every other call and through its own reallocs.                   *)
DataIntact ==
  \A p \in Handle : pointer[p] # 0 =>
    \E h \in AllocatedHeader(heap, mem, pointer[p]) :
      /\ pointer[p] % heap.meta[h].alignment = 0
      /\ \A w \in Object(heap, h) : mem[w] = p

(* An allocated block is one the program can still free: none is lost when  *)
(* objects move, shrink or grow.                                            *)
NothingLost ==
  \A h \in Blocks(heap) : ~ IsFree(heap, h) =>
    \E p \in Handle :
      pointer[p] # 0 /\ h \in AllocatedHeader(heap, mem, pointer[p])
=============================================================================
