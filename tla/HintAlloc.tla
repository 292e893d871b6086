------------------------------ MODULE HintAlloc ------------------------------
(***************************************************************************)
(* HintAllocatorImpl (hint_allocator.hpp/.ipp): objects in the blocks of   *)
(* arenas, taken from the current block, else from a block of the list     *)
(* non_full_blocks, which then becomes current together with its arena,    *)
(* else from a new block of the current arena, of an arena of the list     *)
(* non_full_arenas or of a new arena.  With a hint, the block of an object *)
(* that exists already is tried before all of these.                       *)
(*                                                                         *)
(* Blocks and arenas carry their links; a null link.next is the only mark  *)
(* of one that is in no list.  No constructor writes the links of a new    *)
(* arena and of its blocks: they are what mmap returns, null.              *)
(*                                                                         *)
(* The inside of a block is the code of KRBlock.  Here it is a number of   *)
(* objects: an empty block holds any request that max_size admits, a full  *)
(* one none, and one between them may refuse (fragments, alignment).       *)
(*                                                                         *)
(* The code can use links of an arena as if it were in the list when it is *)
(* not, or the reverse.  From then on the list is corrupt, and the code    *)
(* follows null pointers and pointers to arenas that have been unmapped:   *)
(* the model stops at the first such step, with broken = TRUE.             *)
(***************************************************************************)
EXTENDS IntrusiveList, FiniteSets

CONSTANTS
    Arena,          \* addresses at which an arena can be mapped
    NBlocks,        \* blocks of an arena
    BlockCap,       \* objects that fit in a block
    MaxObjects,     \* bound of the model on objects at a time
    NullLink        \* a null link, or no arena

VARIABLES
    arenas,             \* the arenas currently mapped
    is_block_used,      \* the blocks in use of each arena
    usage,              \* the objects in each block
    arena_link,         \* arena.link and the sentinel non_full_arenas
    block_link,         \* block.link and the sentinel non_full_blocks
    current_arena,
    current_block,      \* current_block_idx
    destroyed,          \* the last copy of the allocator has gone
    broken              \* links of an arena have been used that are not valid

hint_vars == <<arenas, is_block_used, usage, arena_link, block_link, current_arena,
               current_block, destroyed, broken>>

non_full_arenas == "non_full_arenas"
non_full_blocks == <<"non_full_blocks", 0>>
BlockIdx  == 0 .. NBlocks - 1
Block     == Arena \X BlockIdx
ArenaNode == Arena \cup {non_full_arenas}
BlockNode == Block \cup {non_full_blocks}

\* TLC evaluates the assumption in MCPlacement.
HintAssumption ==
    /\ IsFiniteSet(Arena)
    /\ NBlocks \in Nat \ {0} /\ BlockCap \in Nat \ {0}
    /\ MaxObjects \in Nat \ {0}
    /\ {non_full_arenas, "non_full_blocks"} \cap Arena = {}
    /\ NullLink \notin ArenaNode \cup BlockNode

Null(nodes, sentinel) == [x \in nodes |-> IF x = sentinel THEN x ELSE NullLink]

HintInit ==
    /\ arenas = {}
    /\ is_block_used = [a \in Arena |-> {}]
    /\ usage = [b \in Block |-> 0]
    /\ arena_link = [next |-> Null(ArenaNode, non_full_arenas),
                     prev |-> Null(ArenaNode, non_full_arenas)]
    /\ block_link = [next |-> Null(BlockNode, non_full_blocks),
                     prev |-> Null(BlockNode, non_full_blocks)]
    /\ current_arena = NullLink
    /\ current_block = 0
    /\ destroyed = FALSE
    /\ broken = FALSE

Current == <<current_arena, current_block>>
HasCurrent == current_arena # NullLink

InArenaList(a) == a \in Elements(arena_link, non_full_arenas, Cardinality(Arena))
LiveObjects == {b \in Block : usage[b] > 0}
NObjects == Cardinality({x \in Block \X (1 .. BlockCap) : x[2] <= usage[x[1]]})

-----------------------------------------------------------------------------
(* Blocks.                                                                 *)

\* HintAllocBlock::allocate can succeed, and can fail.
MayServe(b)  == usage[b] < BlockCap
MayRefuse(b) == usage[b] > 0

serve(b) == usage' = [usage EXCEPT ![b] = @ + 1]

\* The current block has refused: block.link.next = nullptr.
RetiredBlocks == IF HasCurrent THEN [block_link EXCEPT !.next[Current] = NullLink]
                 ELSE block_link
Listed == Elements(RetiredBlocks, non_full_blocks, Cardinality(Block))
CurrentRefuses == HasCurrent => MayRefuse(Current)

allocate_from_current ==
    /\ HasCurrent /\ MayServe(Current)
    /\ serve(Current)
    /\ UNCHANGED <<arenas, is_block_used, arena_link, block_link, current_arena,
                   current_block, destroyed, broken>>

\* A block of the list becomes current, and so does its arena, whether it is in
\* non_full_arenas or not.  Nothing happens to the arena that was current.
allocate_from_listed_block(b) ==
    /\ CurrentRefuses
    /\ MayServe(b)
    /\ block_link' = remove_from_list(RetiredBlocks, b)
    /\ current_arena' = b[1] /\ current_block' = b[2]
    /\ serve(b)
    /\ UNCHANGED <<arenas, is_block_used, arena_link, destroyed, broken>>

NoBlockServes == CurrentRefuses /\ \A b \in Listed : MayRefuse(b)

-----------------------------------------------------------------------------
(* A new block, when no block serves the request.                          *)

FreeBlocks(a) == BlockIdx \ is_block_used[a]
LowestFree(a) == CHOOSE b \in FreeBlocks(a) : \A d \in FreeBlocks(a) : b <= d

\* find_free_and_allocate, initialize and allocate in the empty block.
open_block(a) ==
    LET b == LowestFree(a)
    IN  /\ is_block_used' = [is_block_used EXCEPT ![a] = @ \cup {b}]
        /\ usage' = [usage EXCEPT ![<<a, b>>] = 1]
        /\ current_arena' = a /\ current_block' = b

CurrentHasBlock == HasCurrent /\ FreeBlocks(current_arena) # {}

allocate_in_current_arena ==
    /\ CurrentHasBlock
    /\ NoBlockServes
    /\ block_link' = RetiredBlocks
    /\ open_block(current_arena)
    /\ UNCHANGED <<arenas, arena_link, destroyed, broken>>

\* current_arena->link.next = nullptr, because the arena is full.
RetiredArenas == IF HasCurrent THEN [arena_link EXCEPT !.next[current_arena] = NullLink]
                 ELSE arena_link
FirstArena == RetiredArenas.next[non_full_arenas]
NeedArena == ~CurrentHasBlock /\ NoBlockServes

\* The marked arena must not be in the list, and the first of the list must have
\* a free block: the result of find_free_and_allocate is not looked at.
PopIsSound ==
    /\ HasCurrent => ~InArenaList(current_arena)
    /\ FirstArena # non_full_arenas => FreeBlocks(FirstArena) # {}

allocate_in_listed_arena ==
    /\ NeedArena /\ PopIsSound
    /\ FirstArena # non_full_arenas
    /\ block_link' = RetiredBlocks
    /\ arena_link' = pop_front(RetiredArenas, non_full_arenas, FirstArena)
    /\ open_block(FirstArena)
    /\ UNCHANGED <<arenas, destroyed, broken>>

goes_astray_in_allocate ==
    /\ NeedArena /\ ~PopIsSound
    /\ broken' = TRUE
    /\ UNCHANGED <<arenas, is_block_used, usage, arena_link, block_link,
                   current_arena, current_block, destroyed>>

\* Arena::create: the memory is new, also where an arena was unmapped before.
allocate_in_new_arena(a) ==
    /\ NeedArena /\ PopIsSound
    /\ FirstArena = non_full_arenas
    /\ a \notin arenas
    /\ arenas' = arenas \cup {a}
    /\ block_link' = RetiredBlocks
    /\ arena_link' = RetiredArenas
    /\ open_block(a)
    /\ UNCHANGED <<destroyed, broken>>

\* bad_alloc from AlignedMMap or from the local memory store.  In the latter case
\* the pages just mapped stay mapped, but are no arena: nothing refers to them.
create_throws ==
    /\ NeedArena /\ PopIsSound
    /\ FirstArena = non_full_arenas
    /\ block_link' = RetiredBlocks
    /\ arena_link' = RetiredArenas
    /\ UNCHANGED <<arenas, is_block_used, usage, current_arena, current_block,
                   destroyed, broken>>

\* With a hint, a pointer to an object: its block is tried first, and neither
\* the lists nor the marks change.  If it refuses, this is allocate without.
allocate_with_hint(b) ==
    /\ MayServe(b)
    /\ serve(b)
    /\ UNCHANGED <<arenas, is_block_used, arena_link, block_link, current_arena,
                   current_block, destroyed, broken>>

-----------------------------------------------------------------------------
(* deallocate                                                              *)

\* Mutant of Emptied: the current block is given back as well.
Emptied_current(b) == usage[b] = 1

\* The block has lost its last object and is not current.
Emptied(b) == b # Current /\ usage[b] = 1

\* Mutant of ArenaEmptied: the other blocks of the arena are forgotten.
ArenaEmptied_any(b) == Emptied(b) /\ b[1] # current_arena

ArenaEmptied(b) == Emptied(b) /\ b[1] # current_arena /\ is_block_used[b[1]] = {b[2]}

take_out(b) == usage' = [usage EXCEPT ![b] = @ - 1]

\* Mutant of Relisted: a block that gets free space is inserted in any case.
Relisted_again(b) == IF b = Current THEN block_link
                     ELSE insert_prev(block_link, non_full_blocks, b)

\* A block that was marked when it refused has space again.
Relisted(b) == IF b # Current /\ block_link.next[b] = NullLink
               THEN insert_prev(block_link, non_full_blocks, b)
               ELSE block_link

deallocate(b) ==
    /\ ~Emptied(b)
    /\ take_out(b)
    /\ block_link' = Relisted(b)
    /\ UNCHANGED <<arenas, is_block_used, arena_link, current_arena, current_block,
                   destroyed, broken>>

Unlisted(b) == IF block_link.next[b] # NullLink THEN remove_from_list(block_link, b)
               ELSE block_link

\* An arena other than the current one that was marked as full goes back to the
\* list, an arena that has become empty leaves it.
ArenaMarked(a) == arena_link.next[a] = NullLink
FreeIsSound(b) == ArenaEmptied(b) => ArenaMarked(b[1]) \/ InArenaList(b[1])

deallocate_block(b) ==
    /\ Emptied(b) /\ ~ArenaEmptied(b)
    /\ take_out(b)
    /\ block_link' = Unlisted(b)
    /\ is_block_used' = [is_block_used EXCEPT ![b[1]] = @ \ {b[2]}]
    /\ arena_link' = IF b[1] # current_arena /\ ArenaMarked(b[1])
                     THEN insert_prev(arena_link, non_full_arenas, b[1])
                     ELSE arena_link
    /\ UNCHANGED <<arenas, current_arena, current_block, destroyed, broken>>

\* The last block of an arena: what its memory held is gone with it.
deallocate_arena(b) ==
    LET a == b[1]
        cleared(l, dead) == [next |-> [x \in DOMAIN l.next |-> IF x \in dead THEN NullLink
                                                                ELSE l.next[x]],
                             prev |-> [x \in DOMAIN l.prev |-> IF x \in dead THEN NullLink
                                                                ELSE l.prev[x]]]
    IN  /\ ArenaEmptied(b) /\ FreeIsSound(b)
        /\ take_out(b)
        /\ block_link' = cleared(Unlisted(b), {a} \X BlockIdx)
        /\ is_block_used' = [is_block_used EXCEPT ![a] = {}]
        /\ arena_link' = cleared(IF ArenaMarked(a) THEN arena_link
                                 ELSE remove_from_list(arena_link, a), {a})
        /\ arenas' = arenas \ {a}
        /\ UNCHANGED <<current_arena, current_block, destroyed, broken>>

goes_astray_in_deallocate(b) ==
    /\ Emptied(b) /\ ~FreeIsSound(b)
    /\ broken' = TRUE
    /\ UNCHANGED <<arenas, is_block_used, usage, arena_link, block_link,
                   current_arena, current_block, destroyed>>

-----------------------------------------------------------------------------
(* The copies of an allocator share the implementation; whoever has objects *)
(* has a copy, so the last copy goes when there are no objects any more.   *)
(* ~HintAllocatorImpl then unmaps the current arena only.                  *)

destroy ==
    /\ LiveObjects = {}
    /\ destroyed' = TRUE
    /\ arenas' = arenas \ {current_arena}
    /\ UNCHANGED <<is_block_used, usage, arena_link, block_link, current_arena,
                   current_block, broken>>

-----------------------------------------------------------------------------
Alive == ~destroyed /\ ~broken
MayAllocate == Alive /\ NObjects < MaxObjects

HintNext ==
    \/ MayAllocate /\ allocate_from_current
    \/ MayAllocate /\ \E b \in Listed : allocate_from_listed_block(b)
    \/ MayAllocate /\ allocate_in_current_arena
    \/ MayAllocate /\ allocate_in_listed_arena
    \/ MayAllocate /\ goes_astray_in_allocate
    \/ MayAllocate /\ \E a \in Arena : allocate_in_new_arena(a)
    \/ MayAllocate /\ create_throws
    \/ MayAllocate /\ \E b \in LiveObjects : allocate_with_hint(b)
    \/ Alive /\ \E b \in LiveObjects : deallocate(b)
    \/ Alive /\ \E b \in LiveObjects : deallocate_block(b)
    \/ Alive /\ \E b \in LiveObjects : deallocate_arena(b)
    \/ Alive /\ \E b \in LiveObjects : goes_astray_in_deallocate(b)
    \/ Alive /\ destroy
    \/ ~Alive /\ UNCHANGED hint_vars

HintSpec == HintInit /\ [][HintNext]_hint_vars

-----------------------------------------------------------------------------
(* Correctness.                                                            *)

HintTypeOK ==
    /\ arenas \subseteq Arena
    /\ \A a \in Arena : is_block_used[a] \subseteq BlockIdx
    /\ usage \in [Block -> 0 .. BlockCap]
    /\ arena_link \in [next : [ArenaNode -> ArenaNode \cup {NullLink}],
                       prev : [ArenaNode -> ArenaNode \cup {NullLink}]]
    /\ block_link \in [next : [BlockNode -> BlockNode \cup {NullLink}],
                       prev : [BlockNode -> BlockNode \cup {NullLink}]]
    /\ current_arena \in Arena \cup {NullLink} /\ current_block \in BlockIdx
    /\ destroyed \in BOOLEAN /\ broken \in BOOLEAN

\* Until it goes astray, a block is in use exactly if it holds an object or is
\* current, and an arena is mapped exactly if it has a block in use.  With the
\* last copy of the allocator, every arena has gone.
\*
\* The list of blocks holds exactly the blocks in use that are neither current
\* nor marked, in spite of allocations with a hint, which fill blocks in the list
\* and marked blocks alike.  The list of arenas holds mapped arenas only.
HintBlocksExact ==
    /\ HintTypeOK
    /\ ~destroyed =>
          /\ \A b \in Block : b[2] \in is_block_used[b[1]]
                                 <=> usage[b] > 0 \/ b = Current
          /\ arenas = {a \in Arena : is_block_used[a] # {}}
    /\ destroyed => arenas = {}
    /\ WellLinked(block_link, non_full_blocks, Cardinality(Block))
    /\ Elements(block_link, non_full_blocks, Cardinality(Block))
          = {b \in LiveObjects \ {Current} : block_link.next[b] # NullLink}
    /\ ~destroyed =>
          /\ WellLinked(arena_link, non_full_arenas, Cardinality(Arena))
          /\ Elements(arena_link, non_full_arenas, Cardinality(Arena)) \subseteq arenas

\* An arena is unmapped only when none of its blocks is in use, and blocks are
\* handed out one at a time.
Heap == INSTANCE ExtentHeap WITH
            Region <- Arena, Size <- NBlocks, mapped <- arenas,
            live <- {<<b[1], b[2], 1>> : b \in LiveObjects}
HintImplementsHeap == Heap!Spec

\* What find_free_and_allocate is called for without looking at its result, and
\* what the name of the list says: its arenas have free blocks.
NonFullArenasHaveBlocks ==
    LET first == arena_link.next[non_full_arenas]
    IN  first \in arenas => FreeBlocks(first) # {}
=============================================================================
