---------------------------- MODULE ParserArena ----------------------------
(***************************************************************************)
(* The arena syntax trees are allocated from (parser/arena.c).  An arena   *)
(* is the sequence of its blocks, oldest first, and a block the sequence   *)
(* of the trees in it; trees are allocated in the last block.  A tree has  *)
(* size 1: that a tree larger than a block gets a block of its own is left *)
(* out, and so are cleanups, which nothing in the program registers.       *)
(***************************************************************************)
EXTENDS Naturals, Sequences, SequencesExt

CONSTANT BlockSize     \* ARENA_BLOCK_SIZE, in trees

ASSUME BlockSizeAssumption == BlockSize \in Nat \ {0}

NoBlocks == <<>>

Alloc(arena, tree) ==
  IF arena = NoBlocks \/ Len(Last(arena)) >= BlockSize
  THEN Append(arena, <<tree>>)
  ELSE [arena EXCEPT ![Len(arena)] = Append(@, tree)]

\* A checkpoint: the current block, 0 when there is none yet.
Mark(arena) ==
  [block |-> Len(arena),
   used |-> IF arena = NoBlocks THEN 0 ELSE Len(Last(arena))]

\* mutant: without a block to return to, the blocks since then stay
RolledBack_KeepsFirst(arena, mark) ==
  IF mark.block = 0
  THEN arena
  ELSE [SubSeq(arena, 1, mark.block) EXCEPT
          ![mark.block] = SubSeq(@, 1, mark.used)]

\* Back to a checkpoint: with no block to return to, everything goes.
RolledBack(arena, mark) ==
  IF mark.block = 0
  THEN NoBlocks
  ELSE [SubSeq(arena, 1, mark.block) EXCEPT
          ![mark.block] = SubSeq(@, 1, mark.used)]

Trees(arena) == FlattenSeq(arena)

=============================================================================
