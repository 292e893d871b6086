----------------------------- MODULE MCHintAlloc -----------------------------
(* HintAlloc on a few small arenas for TLC.                                *)
EXTENDS HintAlloc, TLC

\* Any block of non_full_blocks may refuse, so that any block behind it may be the
\* one that serves: two states that differ only in the order of that list have
\* the same behaviours.  The links of blocks that are in no list are written
\* before they are read; what is read is whether they are null.
MarkedBlocks == {b \in LiveObjects \ {Current} : block_link.next[b] = NullLink}
NumBlocks == Cardinality(Block)
HintView == <<arenas, is_block_used, usage, arena_link,
              Elements(block_link, non_full_blocks, NumBlocks),
              WellLinked(block_link, non_full_blocks, NumBlocks),
              MarkedBlocks, current_arena, current_block, destroyed, broken>>

ArenaSymmetry == Permutations(Arena)
=============================================================================
