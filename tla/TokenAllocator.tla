--------------------------- MODULE TokenAllocator ---------------------------
(***************************************************************************)
(* The token allocator, src/src/tokenizer/allocator.c.                     *)
(*                                                                         *)
(* Memory comes from two lists of chunks.  The persistent list lives until *)
(* the next translation unit.  The recyclable list is a FIFO: new chunks   *)
(* are appended at recyc_newest, and chunks behind the parser's cursor are *)
(* freed from recyc_oldest.  The chunks are numbered in the order of their *)
(* allocation, so the linked list is the interval recyc_oldest ..          *)
(* recyc_newest, and 0 is the null pointer.  place[c] is the address of    *)
(* chunk c: free and malloc may give one address to several chunks in      *)
(* turn.  A pointer into a chunk is abstracted to the chunk's address.     *)
(*                                                                         *)
(* The client is arbitrary: every public operation may be called in any    *)
(* state, with any pointer.                                                *)
(***************************************************************************)
EXTENDS Integers, Sequences, Functions

CONSTANTS
  Addr,       \* the addresses of recyclable chunks
  Malloc(_),  \* those malloc may return when the addresses of a set are in use
  NoAddr,     \* the null pointer, as a pointer into a chunk
  Margin,     \* whole chunks kept behind the cursor's chunk (4 in the code)
  RecycCap,   \* RECYC_CHUNK_CAP
  Page,       \* granularity of an oversized chunk (4096 in the code)
  Header,     \* sizeof(arena_chunk_t)
  MinHint,    \* smallest size of a persistent chunk (16K in the code)
  MaxHint,    \* largest size of a persistent chunk (512K in the code)
  Sizes,      \* the sizes of an allocation, aligned
  Inputs,     \* the sizes of an input file
  MaxChunks,  \* bound: recyclable chunks allocated between two resets
  MaxArena    \* bound: persistent chunks

ASSUME AddrAssumption ==
  /\ NoAddr \notin Addr
  /\ \A used \in SUBSET Addr : Malloc(used) \subseteq Addr \ used

ASSUME MarginAssumption == Margin \in Nat

ASSUME SizeAssumption ==
  /\ RecycCap \in Nat /\ Header \in Nat
  /\ Page \in Nat \ {0}
  /\ MinHint \in Nat /\ MaxHint \in Nat /\ MinHint <= MaxHint
  /\ Sizes \subseteq Nat /\ Inputs \subseteq Nat

ASSUME BoundAssumption == MaxChunks \in Nat /\ MaxArena \in Nat

VARIABLES
  recyc_mode,             \* allocations go to the recyclable list
  recyc_oldest,
  recyc_newest,
  place,                  \* chunk -> address
  cap,                    \* chunk -> capacity
  newest_used,            \* bytes used in recyc_newest
  recyc_pin,
  recyc_stream_pin,
  recyc_cursor_chunk,
  arena,                  \* capacities of the persistent chunks, head first
  arena_used,             \* bytes used in the head of the persistent list
  next_chunk_hint,
  total_chunks,
  total_reserved_bytes,
  peak_reserved_bytes

fifo == <<recyc_oldest, recyc_newest, place, cap, newest_used>>
pins == <<recyc_pin, recyc_stream_pin>>
persistent == <<arena, arena_used, next_chunk_hint>>
stats == <<total_chunks, total_reserved_bytes, peak_reserved_bytes>>
vars == <<recyc_mode, fifo, pins, recyc_cursor_chunk, persistent, stats>>

(* The chunks of the recyclable list.                                      *)
Live == IF recyc_oldest = 0 THEN {} ELSE recyc_oldest .. recyc_newest

(* The live chunk a pointer lies in: ptr_in_chunk over the list, or 0.     *)
ChunkOf(p) ==
  IF \E c \in Live : place[c] = p THEN CHOOSE c \in Live : place[c] = p ELSE 0

Larger(m, n) == IF m < n THEN n ELSE m
Smaller(m, n) == IF m < n THEN m ELSE n
AlignUp(n, a) == ((n + a - 1) \div a) * a

(* The capacity new_chunk gives to a chunk, and its effect on the counters. *)
CapFor(size, hint) == IF hint < size THEN AlignUp(size, Page) ELSE hint
CountNewChunk_NoHeader(capacity) ==      \* mutant: a chunk without its header
  /\ total_chunks' = total_chunks + 1
  /\ total_reserved_bytes' = total_reserved_bytes + capacity
  /\ peak_reserved_bytes' = Larger(peak_reserved_bytes, total_reserved_bytes')
CountNewChunk(capacity) ==
  /\ total_chunks' = total_chunks + 1
  /\ total_reserved_bytes' = total_reserved_bytes + Header + capacity
  /\ peak_reserved_bytes' = Larger(peak_reserved_bytes, total_reserved_bytes')
CountFreed(chunks, bytes) ==
  /\ total_chunks' = total_chunks - chunks
  /\ total_reserved_bytes' = total_reserved_bytes - bytes
  /\ UNCHANGED peak_reserved_bytes

(* The bytes new_chunk reserved for the recyclable chunks cs and for the    *)
(* persistent list.                                                         *)
RecycBytes(cs) == SumFunction([c \in cs |-> Header + cap[c]])
ArenaBytes == SumFunction([i \in DOMAIN arena |-> Header + arena[i]])

-----------------------------------------------------------------------------
Init ==
  /\ recyc_mode = FALSE
  /\ recyc_oldest = 0 /\ recyc_newest = 0
  /\ place = << >> /\ cap = << >> /\ newest_used = 0
  /\ recyc_pin = NoAddr /\ recyc_stream_pin = NoAddr
  /\ recyc_cursor_chunk = 0
  /\ arena = << >> /\ arena_used = 0 /\ next_chunk_hint = MinHint
  /\ total_chunks = 0 /\ total_reserved_bytes = 0 /\ peak_reserved_bytes = 0

SetRecyclable(on) ==
  /\ recyc_mode' = on
  /\ UNCHANGED <<fifo, pins, recyc_cursor_chunk, persistent, stats>>

(* arena_alloc on the recyclable side, into the room left in recyc_newest.  *)
AllocInNewest(size) ==
  /\ recyc_mode
  /\ recyc_newest # 0
  /\ newest_used + size <= cap[recyc_newest]
  /\ newest_used' = newest_used + size
  /\ UNCHANGED <<recyc_mode, recyc_oldest, recyc_newest, place, cap, pins,
                 recyc_cursor_chunk, persistent, stats>>

(* arena_alloc on the recyclable side, into a chunk appended to the list.   *)
AllocNewest(size) ==
  /\ recyc_mode
  /\ recyc_newest # 0 => newest_used + size > cap[recyc_newest]
  /\ recyc_newest < MaxChunks
  /\ LET new == recyc_newest + 1
         capacity == CapFor(size, RecycCap)
     IN  \E a \in Malloc({place[c] : c \in Live}) :
           /\ recyc_oldest' = IF recyc_newest = 0 THEN new ELSE recyc_oldest
           /\ recyc_newest' = new
           /\ place' = [c \in Live \cup {new} |-> IF c = new THEN a ELSE place[c]]
           /\ cap' = [c \in Live \cup {new} |-> IF c = new THEN capacity ELSE cap[c]]
           /\ CountNewChunk(capacity)
  /\ newest_used' = size
  /\ UNCHANGED <<recyc_mode, pins, recyc_cursor_chunk, persistent>>

(* arena_alloc on the persistent side.                                      *)
AllocInArena(size) ==
  /\ ~recyc_mode
  /\ arena # << >>
  /\ arena_used + size <= Head(arena)
  /\ arena_used' = arena_used + size
  /\ UNCHANGED <<recyc_mode, fifo, pins, recyc_cursor_chunk, arena,
                 next_chunk_hint, stats>>

AllocArena(size) ==
  /\ ~recyc_mode
  /\ arena # << >> => arena_used + size > Head(arena)
  /\ Len(arena) < MaxArena
  /\ arena' = <<CapFor(size, next_chunk_hint)>> \o arena
  /\ arena_used' = size
  /\ CountNewChunk(CapFor(size, next_chunk_hint))
  /\ UNCHANGED <<recyc_mode, fifo, pins, recyc_cursor_chunk, next_chunk_hint>>

RecycPin(p) ==
  /\ recyc_pin' = p
  /\ UNCHANGED <<recyc_mode, fifo, recyc_stream_pin, recyc_cursor_chunk,
                 persistent, stats>>

RecycStreamPin(p) ==
  /\ recyc_stream_pin' = p
  /\ UNCHANGED <<recyc_mode, fifo, recyc_pin, recyc_cursor_chunk, persistent,
                 stats>>

(* floor: Margin chunks before the cursor's chunk, or the start of the      *)
(* list; a pin that lies in an older chunk lowers it to that chunk.         *)
MarginFloor_Unclamped(c) == c - Margin      \* mutant: past the start of the list
MarginFloor_Long(c) ==                      \* mutant: one chunk too many is kept
  Larger(recyc_oldest, c - Margin - 1)
MarginFloor(c) == Larger(recyc_oldest, c - Margin)
PinFloor(p, floor) == IF ChunkOf(p) = 0 THEN floor ELSE Smaller(ChunkOf(p), floor)
Floor_NoStreamPin(c) ==                     \* mutant: the stream pin is ignored
  PinFloor(recyc_pin, MarginFloor(c))
Floor(c) == PinFloor(recyc_stream_pin, PinFloor(recyc_pin, MarginFloor(c)))

(* tk_allocator_recyc_on_cursor_in goes past its early returns when the     *)
(* recyclable mode is on and the cursor has left recyc_cursor_chunk for     *)
(* another live chunk; otherwise the call changes nothing.                  *)
CursorCrosses(p) ==
  /\ recyc_mode
  /\ ChunkOf(p) # 0
  /\ recyc_cursor_chunk # 0 => place[recyc_cursor_chunk] # p

OnCursor(p) ==
  /\ CursorCrosses(p)
  /\ recyc_cursor_chunk' = ChunkOf(p)
  /\ LET floor == Floor(ChunkOf(p))
         dead == recyc_oldest .. floor - 1
         kept == Live \ dead
     IN  /\ recyc_oldest' = floor
         /\ place' = [c \in kept |-> place[c]]
         /\ cap' = [c \in kept |-> cap[c]]
         /\ CountFreed(floor - recyc_oldest, RecycBytes(dead))
  /\ UNCHANGED <<recyc_mode, recyc_newest, newest_used, pins, persistent>>

(* What recyc_reset does to everything but the counters.                    *)
ClearRecyclable_KeepsCursor ==       \* mutant: recyc_cursor_chunk is not reset
  /\ recyc_oldest' = 0 /\ recyc_newest' = 0
  /\ place' = << >> /\ cap' = << >> /\ newest_used' = 0
  /\ recyc_pin' = NoAddr /\ recyc_stream_pin' = NoAddr
  /\ UNCHANGED recyc_cursor_chunk
ClearRecyclable ==
  /\ recyc_oldest' = 0 /\ recyc_newest' = 0
  /\ place' = << >> /\ cap' = << >> /\ newest_used' = 0
  /\ recyc_cursor_chunk' = 0
  /\ recyc_pin' = NoAddr /\ recyc_stream_pin' = NoAddr

(* The length of the recyclable list: how many chunks a reset frees.        *)
FifoLength == IF recyc_oldest = 0 THEN 0 ELSE recyc_newest - recyc_oldest + 1

RecycReset_KeepsCount ==             \* mutant: the freed chunks stay counted
  /\ ClearRecyclable
  /\ UNCHANGED <<recyc_mode, persistent, stats>>
RecycReset ==
  /\ ClearRecyclable
  /\ CountFreed(FifoLength, RecycBytes(Live))
  /\ UNCHANGED <<recyc_mode, persistent>>

ResetTranslationUnit ==
  /\ recyc_mode' = FALSE
  /\ ClearRecyclable
  /\ arena' = << >> /\ arena_used' = 0 /\ next_chunk_hint' = MinHint
  /\ CountFreed(FifoLength + Len(arena), RecycBytes(Live) + ArenaBytes)

(* The hint: one and a half times the input and a page, on a page boundary, *)
(* between the two limits.                                                  *)
HintFor(bytes) ==
  Smaller(MaxHint, Larger(MinHint, AlignUp((bytes * 3) \div 2 + Page, Page)))

SetExpectedSize(bytes) ==
  /\ next_chunk_hint' = HintFor(bytes)
  /\ UNCHANGED <<recyc_mode, fifo, pins, recyc_cursor_chunk, arena, arena_used,
                 stats>>

(* A destroyed context and the one the next session creates.                *)
Recreate ==
  /\ recyc_mode' = FALSE
  /\ ClearRecyclable
  /\ arena' = << >> /\ arena_used' = 0 /\ next_chunk_hint' = MinHint
  /\ total_chunks' = 0 /\ total_reserved_bytes' = 0 /\ peak_reserved_bytes' = 0

Next ==
  \/ \E on \in BOOLEAN : SetRecyclable(on)
  \/ \E size \in Sizes : \/ AllocInNewest(size) \/ AllocNewest(size)
                         \/ AllocInArena(size) \/ AllocArena(size)
  \/ \E p \in Addr \cup {NoAddr} : RecycPin(p) \/ RecycStreamPin(p)
  \/ \E p \in Addr : OnCursor(p)
  \/ RecycReset
  \/ ResetTranslationUnit
  \/ \E bytes \in Inputs : SetExpectedSize(bytes)
  \/ Recreate

Spec == Init /\ [][Next]_vars

-----------------------------------------------------------------------------
(* Every variable has the type of its declaration in the context struct.    *)
(* The two byte counters are typed by BytesExact, which gives their values. *)
TypeOK ==
  /\ recyc_mode \in BOOLEAN
  /\ recyc_oldest \in Nat /\ recyc_newest \in Nat
  /\ place \in [Live -> Addr] /\ cap \in [Live -> Nat] /\ newest_used \in Nat
  /\ recyc_pin \in Addr \cup {NoAddr} /\ recyc_stream_pin \in Addr \cup {NoAddr}
  /\ recyc_cursor_chunk \in Nat
  /\ arena \in Seq(Nat) /\ arena_used \in Nat /\ next_chunk_hint \in Nat
  /\ total_chunks \in Nat

(* The two pointers the allocator keeps into the list dangle in no state,   *)
(* whatever order allocations, cursor moves, pins and resets come in: the   *)
(* chunk arena_alloc appends to is the last of the list, and                *)
(* recyc_cursor_chunk, which the next cursor move dereferences, is null or  *)
(* in the list.                                                             *)
NoDanglingChunk ==
  /\ recyc_newest # 0 => recyc_newest \in Live
  /\ recyc_cursor_chunk # 0 => recyc_cursor_chunk \in Live
  /\ Live = {} => recyc_newest = 0

(* The counters that the pipeline reports agree with the two lists after    *)
(* any sequence of frees and resets: the chunk count, the reserved bytes,   *)
(* and a peak that is never below them (size_t, so an extra subtraction     *)
(* would wrap).                                                             *)
ChunkCountExact == total_chunks = FifoLength + Len(arena)
BytesExact ==
  /\ total_reserved_bytes = RecycBytes(Live) + ArenaBytes
  /\ total_reserved_bytes <= peak_reserved_bytes

(* A cursor move frees neither the chunk the cursor has entered, nor the    *)
(* Margin chunks before it, nor the chunk of a pin or any chunk after it.   *)
ReleaseSpares(p) ==
  LET c == ChunkOf(p)
      spared == {k \in Live : \/ k >= c - Margin
                              \/ \E q \in {recyc_pin, recyc_stream_pin} :
                                    ChunkOf(q) # 0 /\ k >= ChunkOf(q)}
  IN  spared \subseteq Live' /\ \A k \in spared : place'[k] = place[k]
CursorMoveSpares == [][\A p \in Addr : OnCursor(p) => ReleaseSpares(p)]_vars

=============================================================================
