---------------------------- MODULE PerPageArenas ----------------------------
(***************************************************************************)
(* The block allocator of the per-page sub-allocator:                      *)
(* PerPageBlockAllocatorTemplate and PerPageSuballocatorArena              *)
(* (per-page_suballocator.hpp/.ipp).                                       *)
(*                                                                         *)
(* An arena has NBlocks blocks, a bitmap of the used ones and a count of   *)
(* them.  Blocks are taken from the current arena, then from the list of   *)
(* the others that have free blocks, then from a new arena.  A null        *)
(* link.next marks a full arena that is in no list.  The inside of a block *)
(* is module KRBlock; a block comes back when its last object is freed.    *)
(***************************************************************************)
EXTENDS IntrusiveList, FiniteSets

CONSTANTS
    Arena,          \* addresses at which an arena can be mapped
    NBlocks,        \* blocks of an arena
    MapMayFail,     \* whether AlignedMMap can throw
    NullLink,       \* a null link, or no arena
    Garbage         \* the link of an arena that no one has written yet

VARIABLES
    arenas,             \* the arenas currently mapped
    is_block_used,      \* the bitmap of each arena
    num_of_used_blocks, \* its count
    link,               \* arena.link and the sentinel non_full_arenas
    current_arena,
    blocks,             \* auxiliary: <<arena, block>> the callers hold
    destroyed           \* the block allocator has been destroyed

arenas_vars == <<arenas, is_block_used, num_of_used_blocks, link, current_arena,
          blocks, destroyed>>

non_full_arenas == "non_full_arenas"
Node  == Arena \cup {non_full_arenas}
Block == 0 .. NBlocks - 1

ArenaAssumption ==
    /\ IsFiniteSet(Arena)
    /\ NBlocks \in Nat \ {0}
    /\ non_full_arenas \notin Arena
    /\ NullLink \notin Node /\ Garbage \notin Node /\ Garbage # NullLink

ArenasInit ==
    /\ arenas = {}
    /\ is_block_used = [a \in Arena |-> {}]
    /\ num_of_used_blocks = [a \in Arena |-> 0]
    /\ link = [next |-> [x \in Node |-> IF x = non_full_arenas THEN x ELSE Garbage],
               prev |-> [x \in Node |-> IF x = non_full_arenas THEN x ELSE Garbage]]
    /\ current_arena = NullLink
    /\ blocks = {}
    /\ destroyed = FALSE

-----------------------------------------------------------------------------
(* The bitmap: bits behind NBlocks are set once and for all, so that the   *)
(* lowest unset bit of a word is a free block.                             *)

\* Mutant of FreeBlocks: the bits behind the last block are not set.
FreeBlocks_one_more(a) == (0 .. NBlocks) \ is_block_used[a]

FreeBlocks(a) == Block \ is_block_used[a]
LowestFree(a) == CHOOSE b \in FreeBlocks(a) : \A d \in FreeBlocks(a) : b <= d

find_free_and_allocate(a) ==
    /\ is_block_used' = [is_block_used EXCEPT ![a] = @ \cup {LowestFree(a)}]
    /\ num_of_used_blocks' = [num_of_used_blocks EXCEPT ![a] = @ + 1]
    /\ blocks' = blocks \cup {<<a, LowestFree(a)>>}

-----------------------------------------------------------------------------
(* allocate_block                                                          *)

CurrentHasBlock == current_arena # NullLink /\ FreeBlocks(current_arena) # {}

allocate_from_current ==
    /\ CurrentHasBlock
    /\ find_free_and_allocate(current_arena)
    /\ UNCHANGED <<arenas, link, current_arena, destroyed>>

\* Mutant of RetiredLinks: a full arena is retired without its mark.
RetiredLinks_unmarked == link

\* current_arena->link.next = nullptr when the current arena is full.
RetiredLinks == IF current_arena = NullLink THEN link
                ELSE [link EXCEPT !.next[current_arena] = NullLink]
FirstNonFull == RetiredLinks.next[non_full_arenas]

allocate_from_list ==
    /\ ~CurrentHasBlock
    /\ FirstNonFull # non_full_arenas
    /\ link' = pop_front(RetiredLinks, non_full_arenas, FirstNonFull)
    /\ current_arena' = FirstNonFull
    /\ find_free_and_allocate(FirstNonFull)
    /\ UNCHANGED <<arenas, destroyed>>

\* A new arena is constructed with its first block in use.
create(a) ==
    /\ ~CurrentHasBlock
    /\ FirstNonFull = non_full_arenas
    /\ a \notin arenas
    /\ arenas' = arenas \cup {a}
    /\ link' = RetiredLinks
    /\ current_arena' = a
    /\ is_block_used' = [is_block_used EXCEPT ![a] = {0}]
    /\ num_of_used_blocks' = [num_of_used_blocks EXCEPT ![a] = 1]
    /\ blocks' = blocks \cup {<<a, 0>>}
    /\ UNCHANGED destroyed

\* bad_alloc leaves allocate_block with the full current arena retired.
create_throws ==
    /\ MapMayFail
    /\ ~CurrentHasBlock
    /\ FirstNonFull = non_full_arenas
    /\ link' = RetiredLinks
    /\ UNCHANGED <<arenas, is_block_used, num_of_used_blocks, current_arena,
                   blocks, destroyed>>

-----------------------------------------------------------------------------
(* deallocate_block: called by deallocate of the last object of a block.   *)

Freed(a, b) == IF b \in is_block_used[a] THEN is_block_used[a] \ {b}
               ELSE is_block_used[a] \cup {b}

free(a, b) ==
    /\ num_of_used_blocks' = [num_of_used_blocks EXCEPT ![a] = @ - 1]
    /\ is_block_used' = [is_block_used EXCEPT ![a] = Freed(a, b)]
    /\ blocks' = blocks \ {<<a, b>>}

\* Mutant of IsEmptied: the count is tested before it is decremented.
IsEmptied_too_early(a) == a # current_arena /\ num_of_used_blocks[a] = 0

\* The block is the last one of an arena that is not current.
IsEmptied(a) == a # current_arena /\ num_of_used_blocks[a] = 1

deallocate_block(a, b) ==
    /\ ~IsEmptied(a)
    /\ free(a, b)
    /\ link' = IF a # current_arena /\ link.next[a] = NullLink
               THEN insert_prev(link, non_full_arenas, a) ELSE link
    /\ UNCHANGED <<arenas, current_arena, destroyed>>

\* The arena is unmapped, its memory is gone.
deallocate_block_unmap(a, b) ==
    /\ IsEmptied(a)
    /\ LET unlinked == IF link.next[a] # NullLink THEN remove_from_list(link, a)
                       ELSE link
       IN  link' = [next |-> [unlinked.next EXCEPT ![a] = Garbage],
                    prev |-> [unlinked.prev EXCEPT ![a] = Garbage]]
    /\ arenas' = arenas \ {a}
    /\ is_block_used' = [is_block_used EXCEPT ![a] = {}]
    /\ num_of_used_blocks' = [num_of_used_blocks EXCEPT ![a] = 0]
    /\ blocks' = blocks \ {<<a, b>>}
    /\ UNCHANGED <<current_arena, destroyed>>

\* The destructor unmaps the current arena only.
destroy ==
    /\ blocks = {}
    /\ destroyed' = TRUE
    /\ arenas' = arenas \ {current_arena}
    /\ UNCHANGED <<is_block_used, num_of_used_blocks, link, current_arena, blocks>>

-----------------------------------------------------------------------------
ArenasNext ==
    \/ /\ ~destroyed
       /\ \/ allocate_from_current
          \/ allocate_from_list
          \/ \E a \in Arena : create(a)
          \/ create_throws
          \/ \E x \in blocks : \/ deallocate_block(x[1], x[2])
                               \/ deallocate_block_unmap(x[1], x[2])
          \/ destroy
    \/ destroyed /\ UNCHANGED arenas_vars

ArenasSpec == ArenasInit /\ [][ArenasNext]_arenas_vars

-----------------------------------------------------------------------------
(* Correctness.                                                            *)

ArenasTypeOK ==
    /\ arenas \subseteq Arena
    /\ \A a \in Arena : is_block_used[a] \subseteq Block
    /\ num_of_used_blocks \in [Arena -> 0 .. NBlocks]
    /\ link \in [next : [Node -> Node \cup {NullLink, Garbage}],
                 prev : [Node -> Node \cup {NullLink, Garbage}]]
    /\ current_arena \in arenas \cup {NullLink} \/ destroyed
    /\ blocks \subseteq Arena \X Block

\* Bitmap and count say which blocks are out: none is handed out twice or lost.
\* The list holds exactly the arenas that are neither current nor full, and the
\* full ones are marked by a null next pointer.
ArenasExact ==
    LET others == arenas \ {current_arena}
        full   == {a \in others : FreeBlocks(a) = {}}
    IN  /\ ArenasTypeOK
        /\ \A a \in Arena :
              /\ is_block_used[a] = {b \in Block : <<a, b>> \in blocks}
              /\ num_of_used_blocks[a] = Cardinality(is_block_used[a])
        /\ WellLinked(link, non_full_arenas, Cardinality(Arena))
        /\ Elements(link, non_full_arenas, Cardinality(Arena)) = others \ full
        /\ \A a \in others : link.next[a] = NullLink <=> a \in full

\* An arena without a used block is unmapped unless it is current, and after
\* the destructor nothing is left.
NoIdleArena ==
    /\ \A a \in arenas : a = current_arena \/ is_block_used[a] # {}
    /\ destroyed => arenas = {}

\* Blocks are disjoint pieces of mapped arenas.
Heap == INSTANCE ExtentHeap WITH
            Region <- Arena, Size <- NBlocks, mapped <- arenas,
            live <- {<<x[1], x[2], 1>> : x \in blocks}
ImplementsHeap == Heap!Spec
=============================================================================
