------------------------- MODULE PerPageArenasProofs -------------------------
(***************************************************************************)
(* The theorems about PerPageArenas, for any number of arenas and blocks:  *)
(* bitmaps, counts, the list and the marks agree, idle arenas are gone,    *)
(* and the blocks handed out are an ExtentHeap.                            *)
(***************************************************************************)
EXTENDS PerPageArenas, IntrusiveListProofs

Target == Node \cup {NullLink, Garbage}

\* The arenas in the list: those that are not current and have a free block.
Listed == {a \in arenas : a # current_arena /\ FreeBlocks(a) # {}}
InList == {non_full_arenas} \cup Listed

-----------------------------------------------------------------------------
(* The inductive invariant, in parts.                                      *)

Typed ==
    /\ arenas \subseteq Arena
    /\ is_block_used \in [Arena -> SUBSET Block]
    /\ num_of_used_blocks \in [Arena -> 0 .. NBlocks]
    /\ link \in Links(Node, Target)
    /\ destroyed \in BOOLEAN
    /\ current_arena \in arenas \cup {NullLink} \/ destroyed
    /\ blocks \subseteq arenas \X Block

\* Bitmap and count say which blocks are out.
Counted ==
    \A a \in Arena :
       /\ is_block_used[a] = {b \in Block : <<a, b>> \in blocks}
       /\ num_of_used_blocks[a] = Cardinality(is_block_used[a])

\* The arenas with a free block are linked, each on the one circle through the
\* sentinel, and the full ones are marked.
Listing == LinkedOver(link, InList) /\ Ranked(link, InList, {non_full_arenas})
Marked  == \A a \in arenas : a # current_arena /\ FreeBlocks(a) = {}
                             => link.next[a] = NullLink

NoneIdle ==
    /\ \A a \in arenas : a = current_arena \/ is_block_used[a] # {}
    /\ destroyed => arenas = {}

ArenasInv == Typed /\ Counted /\ Listing /\ Marked /\ NoneIdle
-----------------------------------------------------------------------------
(* Facts about the constants and the lists.                                *)

LEMMA BlockFacts ==
    ASSUME ArenaAssumption
    PROVE  /\ NBlocks \in Nat \ {0} /\ 0 \in Block /\ IsFiniteSet(Block)
           /\ Cardinality(Block) = NBlocks /\ IsFiniteSet(Arena)
           /\ Cardinality(Arena) \in Nat /\ Block \subseteq Nat
           /\ NullLink \notin Node /\ Garbage \notin Node /\ Garbage # NullLink
           /\ non_full_arenas \notin Arena /\ Arena \subseteq Node /\ Node \subseteq Target
           /\ non_full_arenas \in Node /\ NullLink \notin Arena
<1>1. NBlocks \in Nat \ {0} /\ 0 \in Block /\ Block \subseteq Nat
  BY DEF ArenaAssumption, Block
<1>2. IsFiniteSet(Block) /\ Cardinality(Block) = NBlocks
  BY <1>1, FS_Interval DEF Block
<1>3. IsFiniteSet(Arena) /\ Cardinality(Arena) \in Nat
  BY FS_CardinalityType DEF ArenaAssumption
<1> QED
  BY <1>1, <1>2, <1>3 DEF ArenaAssumption, Node, Target

\* The lowest free block is a free block.
LEMMA LowestIsFree ==
    ASSUME ArenaAssumption, NEW a \in Arena, FreeBlocks(a) # {}
    PROVE  LowestFree(a) \in Block /\ LowestFree(a) \notin is_block_used[a]
<1>1. FreeBlocks(a) \in SUBSET Nat
  BY BlockFacts DEF FreeBlocks
<1>2. \E b \in FreeBlocks(a) : \A d \in FreeBlocks(a) : b <= d
  BY <1>1, LeastNumber
<1>3. LowestFree(a) \in FreeBlocks(a)
  BY <1>2 DEF LowestFree
<1> QED
  BY <1>3 DEF FreeBlocks

\* An arena has a free block exactly if its count is below NBlocks; a count is
\* that of a part of the blocks.
LEMMA SubsetOfBlocks ==
    ASSUME ArenaAssumption, NEW B \in SUBSET Block
    PROVE  IsFiniteSet(B) /\ Cardinality(B) \in 0 .. NBlocks
<1>1. IsFiniteSet(B) /\ Cardinality(B) <= NBlocks
  BY BlockFacts, FS_Subset
<1>2. Cardinality(B) \in Nat
  BY <1>1, FS_CardinalityType
<1> QED
  BY <1>1, <1>2, BlockFacts

\* The list and its sentinel are nodes, and the sentinel is none of the arenas.
LEMMA InListFacts ==
    ASSUME ArenaAssumption, Typed
    PROVE  /\ InList \in SUBSET Node /\ non_full_arenas \in InList
           /\ Listed \subseteq Arena /\ non_full_arenas \notin Listed
           /\ current_arena \notin InList \/ current_arena = non_full_arenas
  BY BlockFacts DEF Typed, InList, Listed

\* Which nodes are listed, of links that are linked over the list: an arena that
\* is not current is listed unless its next pointer is null.
LEMMA ListedIsMarked ==
    ASSUME ArenaAssumption, Typed, Listing, Marked,
           NEW a \in arenas, a # current_arena
    PROVE  link.next[a] = NullLink <=> FreeBlocks(a) = {}
<1>1. ASSUME FreeBlocks(a) # {}
      PROVE  link.next[a] # NullLink
  <2>1. a \in InList
    BY <1>1 DEF InList, Listed
  <2>2. link.next[a] \in InList
    BY <2>1 DEF Listing, LinkedOver
  <2>3. link.next[a] \in Node
    BY <2>2, InListFacts
  <2> QED
    BY <2>3, BlockFacts
<1> QED
  BY <1>1 DEF Marked

\* Retiring the current arena writes no node of the list.
LEMMA Retired ==
    ASSUME ArenaAssumption, Typed, Listing, ~destroyed
    PROVE  /\ RetiredLinks \in Links(Node, Target)
           /\ LinkedOver(RetiredLinks, InList)
           /\ Ranked(RetiredLinks, InList, {non_full_arenas})
           /\ \A x \in Node : RetiredLinks.next[x] = IF x = current_arena THEN NullLink
                                                     ELSE link.next[x]
           /\ current_arena \notin InList
<1> DEFINE m == RetiredLinks
<1>1. link.next \in [Node -> Target] /\ link.prev \in [Node -> Target]
      /\ link = [next |-> link.next, prev |-> link.prev]
  BY DEF Typed, Links
<1>2. current_arena \in Arena \cup {NullLink} /\ NullLink \notin Node
      /\ non_full_arenas \notin Arena /\ Arena \subseteq Node /\ NullLink \in Target
  BY BlockFacts DEF Typed, Target
<1>3. m.prev = link.prev /\ m = [next |-> m.next, prev |-> m.prev]
  BY <1>1 DEF RetiredLinks
<1>4. m.next \in [Node -> Target]
  BY <1>1, <1>2 DEF RetiredLinks
<1>5. \A x \in Node : m.next[x] = IF x = current_arena THEN NullLink ELSE link.next[x]
  BY <1>1, <1>2 DEF RetiredLinks
<1>6. current_arena \notin InList
  BY <1>2 DEF InList, Listed, Node
<1>7. m \in Links(Node, Target)
  BY <1>1, <1>3, <1>4 DEF Links
<1>8. \A x \in InList : m.next[x] = link.next[x] /\ m.prev[x] = link.prev[x]
  BY <1>3, <1>5, <1>6, InListFacts
<1> HIDE DEF m
<1>9. LinkedOver(m, InList) /\ Ranked(m, InList, {non_full_arenas})
  BY <1>8, OutsideLinks DEF Listing
<1> QED
  BY <1>5, <1>6, <1>7, <1>9 DEF m
-----------------------------------------------------------------------------
(* Taking and freeing a block.                                             *)

\* What is known of bitmaps, counts and blocks after a step that changes those of
\* arena a only.
Rewritten(a, B) ==
    /\ is_block_used' = [is_block_used EXCEPT ![a] = B]
    /\ num_of_used_blocks' = [num_of_used_blocks EXCEPT ![a] = Cardinality(B)]
    /\ \A x \in Arena : {b \in Block : <<x, b>> \in blocks'}
                        = IF x = a THEN B ELSE {b \in Block : <<x, b>> \in blocks}

LEMMA RewrittenCounts ==
    ASSUME ArenaAssumption, Typed, Counted, NEW a \in Arena, NEW B \in SUBSET Block,
           Rewritten(a, B)
    PROVE  /\ is_block_used' \in [Arena -> SUBSET Block]
           /\ num_of_used_blocks' \in [Arena -> 0 .. NBlocks]
           /\ Counted'
           /\ \A x \in Arena : is_block_used'[x] = IF x = a THEN B ELSE is_block_used[x]
           /\ \A x \in Arena : x # a => FreeBlocks(x)' = FreeBlocks(x)
<1>1. is_block_used' \in [Arena -> SUBSET Block]
  BY DEF Rewritten, Typed
<1>2. num_of_used_blocks' \in [Arena -> 0 .. NBlocks]
  BY SubsetOfBlocks DEF Rewritten, Typed
<1>3. \A x \in Arena : is_block_used'[x] = IF x = a THEN B ELSE is_block_used[x]
  BY DEF Rewritten, Typed
<1>4. \A x \in Arena : num_of_used_blocks'[x] = IF x = a THEN Cardinality(B)
                                                ELSE num_of_used_blocks[x]
  BY DEF Rewritten, Typed
<1>5. Counted'
  BY <1>3, <1>4 DEF Rewritten, Counted
<1> QED
  BY <1>1, <1>2, <1>3, <1>5 DEF FreeBlocks

\* find_free_and_allocate sets the bit of a block that was free.
LEMMA FindFree ==
    ASSUME ArenaAssumption, Typed, Counted, NEW a \in Arena, FreeBlocks(a) # {},
           find_free_and_allocate(a)
    PROVE  /\ Rewritten(a, is_block_used[a] \cup {LowestFree(a)})
           /\ is_block_used[a] \cup {LowestFree(a)} \in SUBSET Block
           /\ blocks' = blocks \cup {<<a, LowestFree(a)>>}
           /\ <<a, LowestFree(a)>> \notin blocks /\ LowestFree(a) \in Block
<1> DEFINE b == LowestFree(a)
           B == is_block_used[a] \cup {b}
<1>1. b \in Block /\ b \notin is_block_used[a]
  BY LowestIsFree
<1>2. is_block_used' = [is_block_used EXCEPT ![a] = B] /\ blocks' = blocks \cup {<<a, b>>}
  BY DEF find_free_and_allocate
<1>3. is_block_used[a] \in SUBSET Block
  BY DEF Typed
<1>4. Cardinality(B) = num_of_used_blocks[a] + 1
  <2>1. IsFiniteSet(is_block_used[a])
    BY <1>3, SubsetOfBlocks
  <2> HIDE DEF b
  <2> QED
    BY <1>1, <2>1, FS_AddElement DEF Counted
<1>5. num_of_used_blocks' = [num_of_used_blocks EXCEPT ![a] = Cardinality(B)]
  BY <1>4 DEF find_free_and_allocate
<1> HIDE DEF b
<1>6. ASSUME NEW x \in Arena
      PROVE  {d \in Block : <<x, d>> \in blocks'}
             = IF x = a THEN B ELSE {d \in Block : <<x, d>> \in blocks}
  BY <1>1, <1>2 DEF Counted
<1>7. <<a, b>> \notin blocks
  BY <1>1 DEF Counted
<1> QED
  BY <1>1, <1>2, <1>3, <1>5, <1>6, <1>7 DEF Rewritten, b

\* Freeing a block that is out clears its bit.
LEMMA FreeBit ==
    ASSUME ArenaAssumption, Typed, Counted, NEW a \in Arena, NEW b, <<a, b>> \in blocks
    PROVE  /\ b \in Block /\ b \in is_block_used[a]
           /\ IsFiniteSet(is_block_used[a])
           /\ is_block_used[a] \ {b} \in SUBSET Block
           /\ Cardinality(is_block_used[a] \ {b}) = num_of_used_blocks[a] - 1
<1>1. b \in Block
  BY DEF Typed
<1>2. b \in is_block_used[a] /\ is_block_used[a] \in SUBSET Block
  BY <1>1 DEF Counted, Typed
<1>3. IsFiniteSet(is_block_used[a])
  BY <1>2, SubsetOfBlocks
<1>4. Cardinality(is_block_used[a] \ {b}) = Cardinality(is_block_used[a]) - 1
  BY <1>2, <1>3, FS_RemoveElement
<1> QED
  BY <1>1, <1>2, <1>3, <1>4 DEF Counted

LEMMA FreeRewrites ==
    ASSUME ArenaAssumption, Typed, Counted, NEW a \in Arena, NEW b, <<a, b>> \in blocks,
           free(a, b)
    PROVE  Rewritten(a, is_block_used[a] \ {b})
<1> DEFINE B == is_block_used[a] \ {b}
<1>1. b \in is_block_used[a] /\ Cardinality(B) = num_of_used_blocks[a] - 1
  BY FreeBit
<1>2. is_block_used' = [is_block_used EXCEPT ![a] = B]
  BY <1>1 DEF free, Freed
<1>3. num_of_used_blocks' = [num_of_used_blocks EXCEPT ![a] = Cardinality(B)]
  BY <1>1 DEF free
<1>4. ASSUME NEW x \in Arena
      PROVE  {d \in Block : <<x, d>> \in blocks'}
             = IF x = a THEN B ELSE {d \in Block : <<x, d>> \in blocks}
  BY DEF free, Counted
<1> QED
  BY <1>2, <1>3, <1>4 DEF Rewritten
-----------------------------------------------------------------------------
(* Every action preserves the invariant.                                   *)

LEMMA InitArenas == ASSUME ArenaAssumption, ArenasInit PROVE ArenasInv
<1>1. Typed
  <2>1. link.next \in [Node -> Target] /\ link.prev \in [Node -> Target]
    BY DEF ArenasInit, Target, Node
  <2>2. link \in Links(Node, Target)
    BY <2>1 DEF ArenasInit, Links
  <2>3. num_of_used_blocks \in [Arena -> 0 .. NBlocks]
    BY BlockFacts DEF ArenasInit
  <2> QED
    BY <2>2, <2>3 DEF ArenasInit, Typed
<1>2. Counted
  BY FS_EmptySet DEF ArenasInit, Counted
<1>3. InList = {non_full_arenas}
  BY DEF ArenasInit, InList, Listed
<1>4. Listing
  <2>1. link.next[non_full_arenas] = non_full_arenas
        /\ link.prev[non_full_arenas] = non_full_arenas
    BY BlockFacts DEF ArenasInit
  <2>2. LinkedOver(link, InList)
    BY <1>3, <2>1 DEF LinkedOver
  <2>3. [x \in InList |-> 0] \in [InList -> Nat]
    OBVIOUS
  <2>4. Ranked(link, InList, {non_full_arenas})
    BY <1>3, <2>3 DEF Ranked
  <2> QED
    BY <2>2, <2>4 DEF Listing
<1> QED
  BY <1>1, <1>2, <1>4 DEF ArenasInit, ArenasInv, Marked, NoneIdle

\* A block from the current arena.
LEMMA FromCurrent ==
    ASSUME ArenaAssumption, ArenasInv, ~destroyed, allocate_from_current
    PROVE  ArenasInv'
<1> DEFINE a == current_arena
<1>1. Typed /\ Counted /\ Listing /\ Marked /\ NoneIdle
  BY DEF ArenasInv
<1>2. /\ a \in arenas /\ a \in Arena /\ FreeBlocks(a) # {} /\ find_free_and_allocate(a)
      /\ UNCHANGED <<arenas, link, current_arena, destroyed>>
  BY <1>1 DEF allocate_from_current, CurrentHasBlock, Typed
<1> DEFINE B == is_block_used[a] \cup {LowestFree(a)}
<1>3. /\ Rewritten(a, B) /\ B \in SUBSET Block
      /\ blocks' = blocks \cup {<<a, LowestFree(a)>>} /\ LowestFree(a) \in Block
  BY <1>1, <1>2, FindFree
<1>4. /\ is_block_used' \in [Arena -> SUBSET Block]
      /\ num_of_used_blocks' \in [Arena -> 0 .. NBlocks]
      /\ Counted'
      /\ \A x \in Arena : is_block_used'[x] = IF x = a THEN B ELSE is_block_used[x]
      /\ \A x \in Arena : x # a => FreeBlocks(x)' = FreeBlocks(x)
  BY <1>1, <1>2, <1>3, RewrittenCounts
<1>5. Typed'
  BY <1>1, <1>2, <1>3, <1>4 DEF Typed
<1>6. Listed' = Listed /\ InList' = InList
  BY <1>1, <1>2, <1>4 DEF Typed, Listed, InList
<1>7. Listing'
  BY <1>1, <1>2, <1>6 DEF Listing
<1>8. Marked'
  BY <1>1, <1>2, <1>4 DEF Typed, Marked
<1>9. NoneIdle'
  BY <1>1, <1>2, <1>4 DEF Typed, NoneIdle
<1> QED
  BY <1>4, <1>5, <1>7, <1>8, <1>9 DEF ArenasInv

\* A full arena has a used block.
LEMMA FullIsUsed ==
    ASSUME ArenaAssumption, NEW a \in Arena, FreeBlocks(a) = {}
    PROVE  is_block_used[a] # {}
  BY BlockFacts DEF FreeBlocks

\* The current arena, when it has no block left, is not listed and becomes one of
\* the full ones.
LEMMA CurrentIsFull ==
    ASSUME ArenaAssumption, Typed, ~destroyed, ~CurrentHasBlock
    PROVE  \/ current_arena = NullLink /\ current_arena \notin arenas
           \/ current_arena \in arenas /\ FreeBlocks(current_arena) = {}
  BY BlockFacts DEF Typed, CurrentHasBlock

\* A block from the first arena of the list, which becomes current.
LEMMA FromList ==
    ASSUME ArenaAssumption, ArenasInv, ~destroyed, allocate_from_list
    PROVE  ArenasInv'
<1> DEFINE f == FirstNonFull
           m == RetiredLinks
           a == current_arena
           C == [x \in Node |-> 0]
<1>1. Typed /\ Counted /\ Listing /\ Marked /\ NoneIdle
  BY DEF ArenasInv
<1>2. /\ m \in Links(Node, Target) /\ LinkedOver(m, InList)
      /\ Ranked(m, InList, {non_full_arenas})
      /\ \A x \in Node : m.next[x] = IF x = a THEN NullLink ELSE link.next[x]
      /\ a \notin InList
  BY <1>1, Retired
<1>3. /\ InList \in SUBSET Node /\ non_full_arenas \in InList /\ Listed \subseteq Arena
      /\ non_full_arenas \notin Listed /\ Node \subseteq Target
  BY <1>1, InListFacts, BlockFacts
<1>4. /\ f # non_full_arenas /\ f = m.next[non_full_arenas]
      /\ link' = pop_front(m, non_full_arenas, f) /\ current_arena' = f
      /\ find_free_and_allocate(f) /\ arenas' = arenas /\ destroyed' = destroyed
      /\ ~CurrentHasBlock
  BY DEF allocate_from_list, FirstNonFull
<1> HIDE DEF f, m
<1>5. f \in Listed
  <2>1. f \in InList
    BY <1>2, <1>3, <1>4 DEF LinkedOver
  <2> QED
    BY <2>1, <1>4 DEF InList
<1>6. f \in arenas /\ f \in Arena /\ f # a /\ FreeBlocks(f) # {}
  BY <1>3, <1>5 DEF Listed
<1>7. /\ link' \in Links(Node, Target) /\ LinkedOver(link', InList \ {f})
      /\ Ranked(link', InList \ {f}, {non_full_arenas})
  <2>1. \A x \in InList : C[m.next[x]] = C[x]
    <3>1. \A x \in InList : m.next[x] \in Node
      BY <1>2, <1>3 DEF LinkedOver
    <3> QED
      BY <1>3, <3>1
  <2> HIDE DEF C
  <2>2. Filed(m, Node, Target, {non_full_arenas}, InList, C)
    BY <1>2, <2>1 DEF Filed
  <2>3. Filed(link', Node, Target, {non_full_arenas}, InList \ {f}, C)
    BY <1>3, <1>4, <2>2, PopFrontFiled
  <2> QED
    BY <2>3 DEF Filed
<1>8. \A x \in Arena : link'.next[x] = m.next[x]
  <2>1. link'.next = [m.next EXCEPT ![non_full_arenas] = m.next[f]]
    BY <1>4 DEF pop_front
  <2>2. non_full_arenas \notin Arena /\ m.next \in [Node -> Target] /\ Arena \subseteq Node
    BY <1>2, BlockFacts DEF Links
  <2> QED
    BY <2>1, <2>2
<1> DEFINE B == is_block_used[f] \cup {LowestFree(f)}
<1>9. /\ Rewritten(f, B) /\ B \in SUBSET Block
      /\ blocks' = blocks \cup {<<f, LowestFree(f)>>} /\ LowestFree(f) \in Block
  BY <1>1, <1>4, <1>6, FindFree
<1>10. /\ is_block_used' \in [Arena -> SUBSET Block]
       /\ num_of_used_blocks' \in [Arena -> 0 .. NBlocks]
       /\ Counted'
       /\ \A x \in Arena : is_block_used'[x] = IF x = f THEN B ELSE is_block_used[x]
       /\ \A x \in Arena : x # f => FreeBlocks(x)' = FreeBlocks(x)
  BY <1>1, <1>6, <1>9, RewrittenCounts
<1>11. Typed'
  BY <1>1, <1>4, <1>6, <1>7, <1>9, <1>10 DEF Typed
<1>12. \A x \in arenas : x = a => FreeBlocks(x) = {}
  BY <1>1, <1>4, CurrentIsFull
<1>13. InList' = InList \ {f}
  <2>1. Listed' = Listed \ {f}
    <3>1. \A x \in arenas : x \in Listed' <=> x # f /\ FreeBlocks(x) # {}
      BY <1>1, <1>4, <1>10 DEF Typed, Listed
    <3>2. Listed' \subseteq arenas /\ Listed \subseteq arenas
      BY <1>4 DEF Listed
    <3>3. \A x \in arenas : x \in Listed <=> FreeBlocks(x) # {}
      BY <1>12 DEF Listed
    <3> QED
      BY <3>1, <3>2, <3>3
  <2> QED
    BY <2>1, <1>4 DEF InList
<1>14. Listing'
  BY <1>7, <1>13 DEF Listing
<1>15. Marked'
  <2> SUFFICES ASSUME NEW x \in arenas, x # f, FreeBlocks(x)' = {}
               PROVE  link'.next[x] = NullLink
    BY <1>4 DEF Marked
  <2>1. x \in Arena /\ x \in Node /\ FreeBlocks(x) = {}
    BY <1>1, <1>10, BlockFacts DEF Typed
  <2> QED
    BY <2>1, <1>1, <1>2, <1>8 DEF Marked
<1>16. NoneIdle'
  <2>1. \A x \in arenas : x # f => is_block_used'[x] # {}
    BY <1>1, <1>10, <1>12, FullIsUsed DEF Typed, NoneIdle
  <2> QED
    BY <2>1, <1>4 DEF NoneIdle
<1> QED
  BY <1>10, <1>11, <1>14, <1>15, <1>16 DEF ArenasInv

\* A new arena, with its first block in use, becomes current.
LEMMA CreateArena ==
    ASSUME ArenaAssumption, ArenasInv, ~destroyed, NEW n \in Arena, create(n)
    PROVE  ArenasInv'
<1> DEFINE a == current_arena
<1>1. Typed /\ Counted /\ Listing /\ Marked /\ NoneIdle
  BY DEF ArenasInv
<1>2. /\ link' \in Links(Node, Target) /\ LinkedOver(link', InList)
      /\ Ranked(link', InList, {non_full_arenas})
      /\ \A x \in Node : link'.next[x] = IF x = a THEN NullLink ELSE link.next[x]
      /\ a \notin InList
  BY <1>1, Retired DEF create
<1>3. /\ n \notin arenas /\ arenas' = arenas \cup {n} /\ current_arena' = n
      /\ blocks' = blocks \cup {<<n, 0>>} /\ destroyed' = destroyed /\ ~CurrentHasBlock
      /\ 0 \in Block /\ {0} \in SUBSET Block
  BY BlockFacts DEF create
<1>4. Rewritten(n, {0})
  <2>1. Cardinality({0}) = 1
    BY FS_Singleton
  <2>2. {b \in Block : <<n, b>> \in blocks} = {}
    BY <1>1, <1>3 DEF Typed
  <2>3. {b \in Block : <<n, b>> \in blocks'} = {0}
    BY <1>3, <2>2
  <2>4. \A x \in Arena : x # n => {b \in Block : <<x, b>> \in blocks'}
                                  = {b \in Block : <<x, b>> \in blocks}
    BY <1>3
  <2> QED
    BY <2>1, <2>3, <2>4 DEF create, Rewritten
<1>5. /\ is_block_used' \in [Arena -> SUBSET Block]
      /\ num_of_used_blocks' \in [Arena -> 0 .. NBlocks]
      /\ Counted'
      /\ \A x \in Arena : is_block_used'[x] = IF x = n THEN {0} ELSE is_block_used[x]
      /\ \A x \in Arena : x # n => FreeBlocks(x)' = FreeBlocks(x)
  BY <1>1, <1>3, <1>4, RewrittenCounts
<1>6. Typed'
  BY <1>1, <1>2, <1>3, <1>5 DEF Typed
<1>7. \A x \in arenas : x = a => FreeBlocks(x) = {}
  BY <1>1, <1>3, CurrentIsFull
<1>8. \A x \in arenas : x \in Arena /\ x # n /\ FreeBlocks(x)' = FreeBlocks(x)
  BY <1>1, <1>3, <1>5 DEF Typed
<1>9. InList' = InList
  <2>1. Listed' = {x \in arenas : FreeBlocks(x) # {}}
    BY <1>3, <1>8 DEF Listed
  <2>2. Listed = {x \in arenas : FreeBlocks(x) # {}}
    BY <1>7 DEF Listed
  <2> QED
    BY <2>1, <2>2 DEF InList
<1>10. Listing'
  BY <1>2, <1>9 DEF Listing
<1>11. Marked'
  <2> SUFFICES ASSUME NEW x \in arenas, FreeBlocks(x) = {}
               PROVE  link'.next[x] = NullLink
    BY <1>3, <1>8 DEF Marked
  <2>1. x \in Node
    BY <1>8, BlockFacts
  <2> QED
    BY <2>1, <1>1, <1>2 DEF Marked
<1>12. NoneIdle'
  <2>1. \A x \in arenas : is_block_used'[x] # {}
    BY <1>1, <1>5, <1>7, <1>8, FullIsUsed DEF NoneIdle
  <2> QED
    BY <2>1, <1>3 DEF NoneIdle
<1> QED
  BY <1>5, <1>6, <1>10, <1>11, <1>12 DEF ArenasInv

\* bad_alloc leaves the current arena retired but current.
LEMMA CreateThrows ==
    ASSUME ArenaAssumption, ArenasInv, ~destroyed, create_throws
    PROVE  ArenasInv'
<1>1. Typed /\ Counted /\ Listing /\ Marked /\ NoneIdle
  BY DEF ArenasInv
<1>2. /\ link' \in Links(Node, Target) /\ LinkedOver(link', InList)
      /\ Ranked(link', InList, {non_full_arenas})
      /\ \A x \in Node : link'.next[x] = IF x = current_arena THEN NullLink ELSE link.next[x]
  BY <1>1, Retired DEF create_throws
<1>3. UNCHANGED <<arenas, is_block_used, num_of_used_blocks, current_arena, blocks, destroyed>>
  BY DEF create_throws
<1>4. InList' = InList /\ \A x \in Arena : FreeBlocks(x)' = FreeBlocks(x)
  BY <1>3 DEF InList, Listed, FreeBlocks
<1>5. Typed' /\ Counted' /\ NoneIdle'
  BY <1>1, <1>2, <1>3 DEF Typed, Counted, NoneIdle
<1>6. Listing'
  BY <1>2, <1>4 DEF Listing
<1>7. Marked'
  <2>1. \A x \in arenas : x \in Node /\ x \in Arena
    BY <1>1, BlockFacts DEF Typed
  <2> QED
    BY <2>1, <1>1, <1>2, <1>3, <1>4 DEF Marked
<1> QED
  BY <1>5, <1>6, <1>7 DEF ArenasInv

\* A block freed, and another one of its arena out or the arena current: a full
\* arena goes back to the end of the list.
LEMMA FreeKeeps ==
    ASSUME ArenaAssumption, ArenasInv, ~destroyed, NEW a, NEW b, <<a, b>> \in blocks,
           deallocate_block(a, b)
    PROVE  ArenasInv'
<1> DEFINE B == is_block_used[a] \ {b}
           files == a # current_arena /\ link.next[a] = NullLink
<1>1. Typed /\ Counted /\ Listing /\ Marked /\ NoneIdle
  BY DEF ArenasInv
<1>2. a \in arenas /\ a \in Arena /\ b \in Block
  BY <1>1 DEF Typed
<1>3. /\ ~IsEmptied(a) /\ free(a, b) /\ arenas' = arenas /\ current_arena' = current_arena
      /\ destroyed' = destroyed
      /\ link' = IF files THEN insert_prev(link, non_full_arenas, a) ELSE link
  BY DEF deallocate_block
<1>4. Rewritten(a, B)
  BY <1>1, <1>2, <1>3, FreeRewrites
<1>5. /\ b \in is_block_used[a] /\ IsFiniteSet(is_block_used[a]) /\ B \in SUBSET Block
      /\ Cardinality(B) = num_of_used_blocks[a] - 1
  BY <1>1, <1>2, FreeBit
<1>6. /\ is_block_used' \in [Arena -> SUBSET Block]
      /\ num_of_used_blocks' \in [Arena -> 0 .. NBlocks]
      /\ Counted'
      /\ \A x \in Arena : is_block_used'[x] = IF x = a THEN B ELSE is_block_used[x]
      /\ \A x \in Arena : x # a => FreeBlocks(x)' = FreeBlocks(x)
  BY <1>1, <1>2, <1>4, <1>5, RewrittenCounts
<1>7. FreeBlocks(a)' # {}
  BY <1>2, <1>5, <1>6 DEF FreeBlocks
<1>8. \A x \in arenas : x \in Arena
  BY <1>1 DEF Typed
<1>9. Listed' = IF a = current_arena THEN Listed ELSE Listed \cup {a}
  BY <1>2, <1>3, <1>6, <1>7, <1>8 DEF Listed
<1>10. /\ link \in Links(Node, Target) /\ InList \in SUBSET Node
       /\ non_full_arenas \in InList /\ Node \subseteq Target /\ a \in Node
       /\ a # non_full_arenas
  BY <1>1, <1>2, InListFacts, BlockFacts DEF Typed
<1>11. /\ link' \in Links(Node, Target)
       /\ LinkedOver(link', InList') /\ Ranked(link', InList', {non_full_arenas})
       /\ \A x \in arenas : x # current_arena /\ x # a /\ FreeBlocks(x) = {}
                            => link'.next[x] = NullLink
  <2>1. CASE files
    <3>1. FreeBlocks(a) = {}
      BY <1>1, <1>2, <2>1, ListedIsMarked
    <3>2. a \notin InList
      BY <3>1, <1>10 DEF InList, Listed
    <3>3. InList' = InList \cup {a}
      BY <2>1, <1>9 DEF InList
    <3>4. /\ link' \in Links(Node, Target) /\ LinkedOver(link', InList \cup {a})
          /\ \A y \in Node \ (InList \cup {a}) : link'.next[y] = link.next[y]
      <4>1. link' = insert_prev(link, non_full_arenas, a) /\ LinkedOver(link, InList)
        BY <1>1, <1>3, <2>1 DEF Listing
      <4>2. a \in Node \ InList
        BY <1>10, <3>2
      <4>3. PICK m : m = insert_prev(link, non_full_arenas, a)
        OBVIOUS
      <4>4. /\ m \in Links(Node, Target) /\ LinkedOver(m, InList \cup {a})
            /\ \A y \in Node \ (InList \cup {a}) : m.next[y] = link.next[y]
        BY <1>10, <4>1, <4>2, <4>3, InsertPrevLinks
      <4> QED
        BY <4>1, <4>3, <4>4
    <3>5. Ranked(link', InList \cup {a}, {non_full_arenas})
      BY <1>1, <1>3, <1>10, <2>1, <3>2, InsertPrevRanks DEF Listing
    <3>6. ASSUME NEW x \in arenas, x # current_arena, x # a, FreeBlocks(x) = {}
          PROVE  link'.next[x] = NullLink
      <4>1. x \in Node \ (InList \cup {a})
        BY <3>6, <1>8, BlockFacts DEF InList, Listed
      <4> QED
        BY <4>1, <3>4, <3>6, <1>1 DEF Marked
    <3> QED
      BY <3>3, <3>4, <3>5, <3>6
  <2>2. CASE ~files
    <3>1. a # current_arena => a \in Listed
      BY <1>1, <1>2, <2>2, ListedIsMarked DEF Listed
    <3>2. InList' = InList
      BY <3>1, <1>9 DEF InList
    <3> QED
      BY <3>2, <1>1, <1>3, <1>10, <2>2 DEF Listing, Marked
  <2> QED
    BY <2>1, <2>2
<1>12. Typed'
  <2>1. blocks' \subseteq arenas \X Block
    BY <1>1, <1>3 DEF free, Typed
  <2> QED
    BY <2>1, <1>1, <1>3, <1>6, <1>11 DEF Typed
<1>13. Marked'
  BY <1>3, <1>6, <1>7, <1>8, <1>11 DEF Marked
<1>14. NoneIdle'
  <2>1. a # current_arena => B # {}
    <3> SUFFICES ASSUME a # current_arena, B = {}
                 PROVE  FALSE
      OBVIOUS
    <3>1. Cardinality(B) = 0
      BY FS_EmptySet
    <3>2. num_of_used_blocks[a] \in Int
      BY <1>1, <1>2, BlockFacts DEF Typed
    <3>3. num_of_used_blocks[a] = 1
      BY <3>1, <3>2, <1>5
    <3> QED
      BY <3>3, <1>3 DEF IsEmptied
  <2> QED
    BY <2>1, <1>1, <1>3, <1>6, <1>8 DEF NoneIdle
<1> QED
  BY <1>6, <1>11, <1>12, <1>13, <1>14 DEF ArenasInv, Listing

\* What is left of an arena that is unmapped: nothing.
LEMMA LastBlock ==
    ASSUME ArenaAssumption, ArenasInv, NEW a, NEW b, <<a, b>> \in blocks, IsEmptied(a)
    PROVE  \A x \in blocks : x[1] = a => x = <<a, b>>
<1>1. Typed /\ Counted
  BY DEF ArenasInv
<1>2. a \in Arena
  BY <1>1 DEF Typed
<1> DEFINE B == is_block_used[a] \ {b}
<1>3. b \in is_block_used[a] /\ Cardinality(B) = 0 /\ IsFiniteSet(B)
  <2>1. Cardinality(B) = num_of_used_blocks[a] - 1 /\ B \in SUBSET Block
    BY <1>1, <1>2, FreeBit
  <2> QED
    BY <2>1, <1>1, <1>2, FreeBit, SubsetOfBlocks DEF IsEmptied
<1>4. B = {}
  <2> HIDE DEF B
  <2> QED
    BY <1>3, FS_EmptySet
<1>5. ASSUME NEW x \in blocks, x[1] = a
      PROVE  x = <<a, b>>
  <2>1. x = <<x[1], x[2]>> /\ x[2] \in Block
    BY <1>1 DEF Typed
  <2>2. x[2] \in is_block_used[a]
    BY <2>1, <1>1, <1>2, <1>5 DEF Counted
  <2> QED
    BY <2>1, <2>2, <1>4, <1>5
<1> QED
  BY <1>5

\* The last block freed of an arena that is not current: the arena leaves the list,
\* if it is in it, and is unmapped.
LEMMA UnmapKeeps ==
    ASSUME ArenaAssumption, ArenasInv, ~destroyed, NEW a, NEW b, <<a, b>> \in blocks,
           deallocate_block_unmap(a, b)
    PROVE  ArenasInv'
<1> DEFINE unlinked == IF link.next[a] # NullLink THEN remove_from_list(link, a) ELSE link
           L == {non_full_arenas}
<1>1. Typed /\ Counted /\ Listing /\ Marked /\ NoneIdle
  BY DEF ArenasInv
<1>2. a \in arenas /\ a \in Arena /\ b \in Block /\ a # current_arena
  BY <1>1 DEF Typed, deallocate_block_unmap, IsEmptied
<1>3. /\ arenas' = arenas \ {a} /\ current_arena' = current_arena /\ destroyed' = destroyed
      /\ is_block_used' = [is_block_used EXCEPT ![a] = {}]
      /\ num_of_used_blocks' = [num_of_used_blocks EXCEPT ![a] = 0]
      /\ blocks' = blocks \ {<<a, b>>}
      /\ link' = [next |-> [unlinked.next EXCEPT ![a] = Garbage],
                  prev |-> [unlinked.prev EXCEPT ![a] = Garbage]]
  BY DEF deallocate_block_unmap
<1>4. \A x \in blocks : x[1] = a => x = <<a, b>>
  BY LastBlock DEF deallocate_block_unmap
<1>5. Rewritten(a, {})
  <2>1. Cardinality({}) = 0
    BY FS_EmptySet
  <2>2. ASSUME NEW x \in Arena
        PROVE  {d \in Block : <<x, d>> \in blocks'}
               = IF x = a THEN {} ELSE {d \in Block : <<x, d>> \in blocks}
    <3>1. CASE x = a
      <4>1. \A d \in Block : <<x, d>> \notin blocks'
        BY <3>1, <1>3, <1>4
      <4> QED
        BY <3>1, <4>1
    <3>2. CASE x # a
      BY <3>2, <1>3
    <3> QED
      BY <3>1, <3>2
  <2> QED
    BY <2>1, <2>2, <1>3 DEF Rewritten
<1>6. /\ is_block_used' \in [Arena -> SUBSET Block]
      /\ num_of_used_blocks' \in [Arena -> 0 .. NBlocks]
      /\ Counted'
      /\ \A x \in Arena : is_block_used'[x] = IF x = a THEN {} ELSE is_block_used[x]
      /\ \A x \in Arena : x # a => FreeBlocks(x)' = FreeBlocks(x)
  BY <1>1, <1>2, <1>5, RewrittenCounts
<1>7. \A x \in arenas : x \in Arena
  BY <1>1 DEF Typed
<1>8. InList' = InList \ {a}
  <2>1. Listed' = Listed \ {a}
    BY <1>3, <1>6, <1>7 DEF Listed
  <2>2. a # non_full_arenas
    BY <1>2, BlockFacts
  <2> QED
    BY <2>1, <2>2 DEF InList
<1>9. /\ link \in Links(Node, Target) /\ InList \in SUBSET Node
      /\ non_full_arenas \in InList /\ Node \subseteq Target /\ a \in Node
      /\ a # non_full_arenas /\ Garbage \in Target
  BY <1>1, <1>2, InListFacts, BlockFacts DEF Typed, Target
<1>10. /\ unlinked \in Links(Node, Target)
       /\ LinkedOver(unlinked, InList \ {a}) /\ Ranked(unlinked, InList \ {a}, L)
       /\ \A x \in Node \ InList : unlinked.next[x] = link.next[x]
  <2>1. CASE link.next[a] # NullLink
    <3> DEFINE C == [x \in Node |-> 0]
    <3>1. a \in InList
      BY <1>1, <1>2, <2>1, ListedIsMarked DEF InList, Listed
    <3>2. \A x \in InList : C[link.next[x]] = C[x]
      <4>1. \A x \in InList : link.next[x] \in Node
        BY <1>1, <1>9 DEF Listing, LinkedOver
      <4> QED
        BY <1>9, <4>1
    <3> HIDE DEF C
    <3>3. Filed(link, Node, Target, L, InList, C)
      BY <1>1, <1>9, <3>2 DEF Filed, Listing
    <3>4. Filed(remove_from_list(link, a), Node, Target, L, InList \ {a}, C)
      BY <1>9, <3>1, <3>3, RemoveFiled
    <3>5. ASSUME NEW x \in Node \ InList
          PROVE  remove_from_list(link, a).next[x] = link.next[x]
      <4>1. link.prev[a] \in InList
        BY <3>1, <1>1 DEF Listing, LinkedOver
      <4> QED
        BY <4>1, <1>9 DEF remove_from_list, Links
    <3> QED
      BY <2>1, <3>4, <3>5 DEF Filed
  <2>2. CASE link.next[a] = NullLink
    <3>1. a \notin InList
      BY <1>1, <1>2, <1>9, <2>2, ListedIsMarked DEF InList, Listed
    <3>2. InList \ {a} = InList
      BY <3>1
    <3> QED
      BY <3>2, <2>2, <1>1, <1>9 DEF Listing
  <2> QED
    BY <2>1, <2>2
<1> HIDE DEF unlinked
<1>11. link' \in Links(Node, Target)
  BY <1>3, <1>9, <1>10 DEF Links
<1>12. \A x \in Node : x # a => /\ link'.next[x] = unlinked.next[x]
                                /\ link'.prev[x] = unlinked.prev[x]
  BY <1>3, <1>10 DEF Links
<1>13. LinkedOver(link', InList \ {a}) /\ Ranked(link', InList \ {a}, L)
  <2>1. \A x \in InList \ {a} : /\ link'.next[x] = unlinked.next[x]
                                /\ link'.prev[x] = unlinked.prev[x]
    BY <1>9, <1>12
  <2> QED
    BY <2>1, <1>10, OutsideLinks
<1>14. Typed'
  <2>1. blocks' \subseteq arenas' \X Block
    <3>1. ASSUME NEW x \in blocks'
          PROVE  x \in arenas' \X Block
      BY <1>1, <1>3, <1>4 DEF Typed
    <3> QED
      BY <3>1
  <2> QED
    BY <2>1, <1>1, <1>2, <1>3, <1>6, <1>11 DEF Typed
<1>15. Listing'
  BY <1>8, <1>13 DEF Listing
<1>16. Marked'
  <2> SUFFICES ASSUME NEW x \in arenas', x # current_arena, FreeBlocks(x)' = {}
               PROVE  link'.next[x] = NullLink
    BY <1>3 DEF Marked
  <2>1. x \in arenas /\ x # a /\ FreeBlocks(x) = {} /\ x \in Node /\ x # non_full_arenas
    BY <1>3, <1>6, <1>7, BlockFacts
  <2>2. x \in Node \ InList
    BY <2>1 DEF InList, Listed
  <2> QED
    BY <2>1, <2>2, <1>1, <1>10, <1>12 DEF Marked
<1>17. NoneIdle'
  BY <1>1, <1>3, <1>6, <1>7 DEF NoneIdle
<1> QED
  BY <1>6, <1>14, <1>15, <1>16, <1>17 DEF ArenasInv

\* When no block is out, at most the current arena is mapped.
LEMMA DestroyKeeps ==
    ASSUME ArenaAssumption, ArenasInv, ~destroyed, destroy
    PROVE  ArenasInv' /\ arenas' = {}
<1>1. Typed /\ Counted /\ Listing /\ Marked /\ NoneIdle
  BY DEF ArenasInv
<1>2. /\ blocks = {} /\ destroyed' = TRUE /\ arenas' = arenas \ {current_arena}
      /\ UNCHANGED <<is_block_used, num_of_used_blocks, link, current_arena, blocks>>
  BY DEF destroy
<1>3. arenas' = {}
  <2>1. \A a \in Arena : is_block_used[a] = {}
    BY <1>1, <1>2 DEF Counted
  <2>2. \A a \in arenas : a = current_arena
    BY <1>1, <2>1 DEF NoneIdle, Typed
  <2> QED
    BY <1>2, <2>2
<1>4. InList' = {non_full_arenas} /\ InList = {non_full_arenas}
  BY <1>2, <1>3 DEF InList, Listed
<1>5. Listing'
  BY <1>1, <1>2, <1>4 DEF Listing
<1>6. Typed' /\ Counted' /\ Marked' /\ NoneIdle'
  BY <1>1, <1>2, <1>3 DEF Typed, Counted, Marked, NoneIdle
<1> QED
  BY <1>3, <1>5, <1>6 DEF ArenasInv

LEMMA NextArenas == ASSUME ArenaAssumption, ArenasInv, [ArenasNext]_arenas_vars PROVE ArenasInv'
<1>1. CASE UNCHANGED arenas_vars
  BY <1>1 DEF arenas_vars, ArenasInv, Typed, Counted, Listing, Marked, NoneIdle, InList, Listed,
              FreeBlocks
<1>2. ASSUME ~destroyed, NEW x \in blocks, deallocate_block(x[1], x[2])
      PROVE  ArenasInv'
  <2>1. x = <<x[1], x[2]>>
    BY DEF ArenasInv, Typed
  <2> QED
    BY <1>2, <2>1, FreeKeeps
<1>3. ASSUME ~destroyed, NEW x \in blocks, deallocate_block_unmap(x[1], x[2])
      PROVE  ArenasInv'
  <2>1. x = <<x[1], x[2]>>
    BY DEF ArenasInv, Typed
  <2> QED
    BY <1>3, <2>1, UnmapKeeps
<1> QED
  BY <1>1, <1>2, <1>3, FromCurrent, FromList, CreateArena, CreateThrows, DestroyKeeps
     DEF ArenasNext
-----------------------------------------------------------------------------
(* The theorems.                                                           *)

LEMMA ArenasInvHolds == ASSUME ArenaAssumption PROVE ArenasSpec => []ArenasInv
<1>1. ArenasInit => ArenasInv
  BY InitArenas
<1>2. ArenasInv /\ [ArenasNext]_arenas_vars => ArenasInv'
  BY NextArenas
<1> QED
  BY <1>1, <1>2, PTL DEF ArenasSpec

\* Bitmap and count say which blocks are out: none is handed out twice or lost.  A
\* walk along the list meets exactly the arenas that are neither current nor full,
\* and the full ones are marked by a null next pointer.
THEOREM ArenasExactHolds == ASSUME ArenaAssumption PROVE ArenasSpec => []ArenasExact
<1>1. ArenasInv => ArenasExact
  <2> SUFFICES ASSUME ArenasInv
               PROVE  ArenasExact
    OBVIOUS
  <2> DEFINE k == Cardinality(Arena)
             others == arenas \ {current_arena}
             full == {a \in others : FreeBlocks(a) = {}}
  <2>1. Typed /\ Counted /\ Listing /\ Marked
    BY DEF ArenasInv
  <2>2. ArenasTypeOK
    BY <2>1 DEF Typed, ArenasTypeOK, Links, Target
  <2>3. InList \ {non_full_arenas} = others \ full /\ others \ full \in SUBSET Arena
    BY <2>1, BlockFacts DEF InList, Listed, Typed
  <2>4. IsFiniteSet(others \ full) /\ Cardinality(others \ full) <= k /\ k \in Nat
    BY <2>3, BlockFacts, FS_Subset
  <2>5. IsFiniteSet(InList) /\ non_full_arenas \in InList
    <3>1. InList = (InList \ {non_full_arenas}) \cup {non_full_arenas}
      BY DEF InList
    <3> QED
      BY <3>1, <2>3, <2>4, FS_AddElement
  <2>6. /\ WellLinked(link, non_full_arenas, k)
        /\ Elements(link, non_full_arenas, k) = others \ full
    <3>1. LinkedOver(link, InList) /\ Ranked(link, InList, {non_full_arenas})
      BY <2>1 DEF Listing
    <3>2. Cardinality(InList \ {non_full_arenas}) <= k
      BY <2>3, <2>4
    <3> HIDE DEF k, others, full
    <3> QED
      BY <3>1, <3>2, <2>3, <2>4, <2>5, RankedListIsWalked
  <2>7. \A a \in others : link.next[a] = NullLink <=> a \in full
    BY <2>1, ListedIsMarked
  <2> QED
    BY <2>1, <2>2, <2>6, <2>7 DEF ArenasExact, Counted
<1> QED
  BY <1>1, ArenasInvHolds, PTL

\* An arena without a used block is unmapped unless it is current, and after the
\* destructor nothing is left.
THEOREM NoIdleArenaHolds == ASSUME ArenaAssumption PROVE ArenasSpec => []NoIdleArena
<1>1. ArenasInv => NoIdleArena
  BY DEF ArenasInv, NoneIdle, NoIdleArena
<1> QED
  BY <1>1, ArenasInvHolds, PTL
-----------------------------------------------------------------------------
(* The blocks are an ExtentHeap.                                           *)

\* A block as an extent of one unit.
Extents == {<<x[1], x[2], 1>> : x \in blocks}

\* A block that no one holds is handed out, of an arena that is mapped now.
LEMMA BlockIsAlloc ==
    ASSUME ArenaAssumption, Typed, NEW a \in Arena, NEW b \in Block,
           <<a, b>> \notin blocks, blocks' = blocks \cup {<<a, b>>},
           arenas' = arenas \cup {a}
    PROVE  Heap!Alloc
<1> DEFINE e == <<a, b, 1>>
<1>1. NBlocks \in Nat \ {0} /\ b \in Nat /\ b + 1 <= NBlocks /\ b \in 0 .. NBlocks - 1
  BY BlockFacts DEF Block
<1>2. e \in Heap!Extent /\ e[2] + e[3] <= NBlocks /\ arenas' = arenas \cup {e[1]}
  BY <1>1 DEF Heap!Extent
<1>3. Extents' = Extents \cup {e}
  BY DEF Extents
<1>4. ASSUME NEW f \in Extents
      PROVE  ~Heap!Overlap(e, f)
  <2>1. PICK x \in blocks : f = <<x[1], x[2], 1>> /\ x[2] \in Nat /\ x = <<x[1], x[2]>>
    BY BlockFacts DEF Extents, Typed
  <2>2. a # x[1] \/ b # x[2]
    BY <2>1
  <2>3. Heap!Units(e) = b .. b /\ Heap!Units(f) = x[2] .. x[2]
    BY <1>1, <2>1 DEF Heap!Units
  <2>4. Heap!Units(e) = {b} /\ Heap!Units(f) = {x[2]}
    BY <1>1, <2>1, <2>3
  <2> QED
    BY <2>1, <2>2, <2>4 DEF Heap!Overlap
<1> HIDE DEF e
<1> QED
  BY <1>2, <1>3, <1>4 DEF Heap!Alloc, Extents

LEMMA StepIsHeapStep ==
    ASSUME ArenaAssumption, ArenasInv, [ArenasNext]_arenas_vars
    PROVE  [Heap!Next]_Heap!heapVars
<1> SUFFICES Heap!Next \/ UNCHANGED <<arenas, Extents>>
  BY DEF Heap!heapVars, Extents
<1>1. Typed /\ Counted
  BY DEF ArenasInv
<1>2. ASSUME ~destroyed, allocate_from_current
      PROVE  Heap!Next
  <2> DEFINE a == current_arena
  <2>1. /\ a \in arenas /\ a \in Arena /\ FreeBlocks(a) # {} /\ find_free_and_allocate(a)
        /\ arenas' = arenas
    BY <1>1, <1>2 DEF allocate_from_current, CurrentHasBlock, Typed
  <2>2. /\ blocks' = blocks \cup {<<a, LowestFree(a)>>} /\ LowestFree(a) \in Block
        /\ <<a, LowestFree(a)>> \notin blocks
    BY <1>1, <2>1, FindFree
  <2>3. arenas' = arenas \cup {a}
    BY <2>1
  <2> QED
    BY <1>1, <2>1, <2>2, <2>3, BlockIsAlloc DEF Heap!Next
<1>3. ASSUME ~destroyed, allocate_from_list
      PROVE  Heap!Next
  <2> DEFINE a == FirstNonFull
  <2>1. a \in Listed
    <3>1. LinkedOver(RetiredLinks, InList) /\ non_full_arenas \in InList
      BY <1>1, <1>3, Retired, InListFacts DEF ArenasInv
    <3>2. a \in InList /\ a # non_full_arenas
      BY <3>1, <1>3 DEF LinkedOver, FirstNonFull, allocate_from_list
    <3> QED
      BY <3>2 DEF InList
  <2>2. /\ a \in arenas /\ a \in Arena /\ FreeBlocks(a) # {} /\ find_free_and_allocate(a)
        /\ arenas' = arenas
    BY <1>1, <1>3, <2>1 DEF allocate_from_list, Listed, Typed
  <2> HIDE DEF a
  <2>3. /\ blocks' = blocks \cup {<<a, LowestFree(a)>>} /\ LowestFree(a) \in Block
        /\ <<a, LowestFree(a)>> \notin blocks
    BY <1>1, <2>2, FindFree
  <2>4. arenas' = arenas \cup {a}
    BY <2>2
  <2> QED
    BY <1>1, <2>2, <2>3, <2>4, BlockIsAlloc DEF Heap!Next
<1>4. ASSUME NEW a \in Arena, create(a)
      PROVE  Heap!Next
  <2>1. /\ a \notin arenas /\ arenas' = arenas \cup {a} /\ blocks' = blocks \cup {<<a, 0>>}
        /\ 0 \in Block
    BY <1>4, BlockFacts DEF create
  <2>2. <<a, 0>> \notin blocks
    BY <1>1, <2>1 DEF Typed
  <2> QED
    BY <1>1, <2>1, <2>2, BlockIsAlloc DEF Heap!Next
<1>5. ASSUME NEW x \in blocks, deallocate_block(x[1], x[2]) \/ deallocate_block_unmap(x[1], x[2])
      PROVE  Heap!Next
  <2> DEFINE e == <<x[1], x[2], 1>>
  <2>1. \A y \in blocks : y = <<y[1], y[2]>>
    BY <1>1 DEF Typed
  <2>2. blocks' = blocks \ {x}
    BY <1>5, <2>1 DEF deallocate_block, deallocate_block_unmap, free
  <2>3. e \in Extents /\ Extents' = Extents \ {e}
    <3>1. e \in Extents
      BY DEF Extents
    <3>2. \A y \in blocks : <<y[1], y[2], 1>> = e => y = x
      BY <2>1
    <3>3. Extents' = {<<y[1], y[2], 1>> : y \in blocks \ {x}}
      BY <2>2 DEF Extents
    <3> HIDE DEF e
    <3> QED
      BY <3>1, <3>2, <3>3 DEF Extents, e
  <2>4. CASE deallocate_block(x[1], x[2])
    BY <2>3, <2>4 DEF deallocate_block, Heap!Next, Heap!Free, Extents
  <2>5. CASE deallocate_block_unmap(x[1], x[2])
    <3>1. arenas' = arenas \ {e[1]} /\ IsEmptied(x[1]) /\ <<x[1], x[2]>> \in blocks
      BY <2>1, <2>5 DEF deallocate_block_unmap
    <3>2. \A y \in blocks : y[1] = x[1] => y = <<x[1], x[2]>>
      BY <3>1, LastBlock
    <3>3. \A y \in blocks' : y[1] # x[1]
      BY <2>1, <2>2, <3>2
    <3>4. \A f \in Extents' : f[1] # e[1]
      BY <3>3 DEF Extents
    <3> HIDE DEF e
    <3> QED
      BY <3>1, <3>4, <2>3 DEF Heap!Next, Heap!Free, Extents
  <2> QED
    BY <1>5, <2>4, <2>5
<1>6. ASSUME destroy
      PROVE  Heap!Next \/ UNCHANGED <<arenas, Extents>>
  <2>1. Extents = {} /\ Extents' = Extents /\ arenas' = arenas \ {current_arena}
    BY <1>6 DEF destroy, Extents
  <2>2. CASE current_arena \in arenas
    BY <2>1, <2>2 DEF Heap!Next, Heap!Unmap, Extents
  <2>3. CASE current_arena \notin arenas
    BY <2>1, <2>3
  <2> QED
    BY <2>2, <2>3
<1>7. ASSUME create_throws \/ UNCHANGED arenas_vars
      PROVE  UNCHANGED <<arenas, Extents>>
  BY <1>7 DEF create_throws, arenas_vars, Extents
<1> QED
  BY <1>2, <1>3, <1>4, <1>5, <1>6, <1>7 DEF ArenasNext

\* Blocks are disjoint pieces of mapped arenas, and an arena is unmapped only when
\* no block of it is out.
THEOREM ImplementsHeapHolds == ASSUME ArenaAssumption PROVE ArenasSpec => ImplementsHeap
<1>1. ArenasInit => Heap!Init
  BY DEF ArenasInit, Heap!Init
<1>2. ArenasInv /\ [ArenasNext]_arenas_vars => [Heap!Next]_Heap!heapVars
  BY StepIsHeapStep
<1> QED
  BY <1>1, <1>2, ArenasInvHolds, PTL DEF ArenasSpec, ImplementsHeap, Heap!Spec
=============================================================================
