--------------------------- MODULE HintAllocProofs ---------------------------
(***************************************************************************)
(* The theorems about HintAlloc, for any number of arenas, blocks and      *)
(* objects: until the code goes astray in the list of arenas (broken),     *)
(* blocks and arenas are in use as they should be, the list of blocks is   *)
(* exact, and the blocks in use are an ExtentHeap.                         *)
(***************************************************************************)
EXTENDS HintAlloc, IntrusiveListProofs

BlockTarget == BlockNode \cup {NullLink}
ArenaTarget == ArenaNode \cup {NullLink}

\* Either list has one sentinel, and so one class of nodes.
OneClass(N) == [n \in N |-> 0]

\* The blocks in the list: those that hold something, are not current and not marked.
ListedBlocks == {b \in LiveObjects \ {Current} : block_link.next[b] # NullLink}

BlocksFiledAs(S) ==
    Filed(block_link, BlockNode, BlockTarget, {non_full_blocks}, {non_full_blocks} \cup S,
          OneClass(BlockNode))
ArenasFiledAs(T) ==
    Filed(arena_link, ArenaNode, ArenaTarget, {non_full_arenas}, {non_full_arenas} \cup T,
          OneClass(ArenaNode))

-----------------------------------------------------------------------------
(* The inductive invariant.                                                *)

HintTyped ==
    /\ arenas \subseteq Arena
    /\ is_block_used \in [Arena -> SUBSET BlockIdx]
    /\ usage \in [Block -> 0 .. BlockCap]
    /\ arena_link \in Links(ArenaNode, ArenaTarget)
    /\ current_arena \in Arena \cup {NullLink} /\ current_block \in BlockIdx
    /\ destroyed \in BOOLEAN /\ broken \in BOOLEAN

\* A block is in use exactly if it holds an object or is current, an arena is mapped
\* exactly if it has a block in use.
UsedExactly ==
    /\ \A b \in Block : b[2] \in is_block_used[b[1]] <=> usage[b] > 0 \/ b = Current
    /\ \A a \in Arena : a \in arenas <=> is_block_used[a] # {}

\* The list of arenas holds some of the mapped arenas; which ones is more than the
\* code keeps track of.
ArenasListed == \E T \in SUBSET arenas : ArenasFiledAs(T)

HintInv ==
    /\ HintTyped
    /\ BlocksFiledAs(ListedBlocks)
    /\ ~destroyed => UsedExactly /\ ArenasListed
    /\ destroyed => arenas = {}

-----------------------------------------------------------------------------
(* Facts about the constants and the lists.                                *)

LEMMA HintFacts ==
    ASSUME HintAssumption
    PROVE  /\ NBlocks \in Nat \ {0} /\ 0 \in BlockIdx /\ IsFiniteSet(BlockIdx)
           /\ BlockCap \in Nat \ {0} /\ BlockIdx \subseteq Nat
           /\ IsFiniteSet(Arena) /\ Cardinality(Arena) \in Nat
           /\ IsFiniteSet(Block) /\ Cardinality(Block) \in Nat
           /\ NullLink \notin ArenaNode /\ NullLink \notin BlockNode /\ NullLink \notin Arena
           /\ non_full_arenas \notin Arena /\ non_full_blocks \notin Block
           /\ Block \subseteq BlockNode /\ BlockNode \subseteq BlockTarget
           /\ Arena \subseteq ArenaNode /\ ArenaNode \subseteq ArenaTarget
           /\ non_full_arenas \in ArenaNode /\ non_full_blocks \in BlockNode
           /\ \A b \in Block : b[1] \in Arena /\ b[2] \in BlockIdx /\ b = <<b[1], b[2]>>
           /\ \A a \in Arena, i \in BlockIdx : <<a, i>> \in Block
<1>1. NBlocks \in Nat \ {0} /\ 0 \in BlockIdx /\ BlockIdx \subseteq Nat
  BY DEF HintAssumption, BlockIdx
<1>2. IsFiniteSet(BlockIdx)
  BY <1>1, FS_Interval DEF BlockIdx
<1>3. IsFiniteSet(Arena) /\ Cardinality(Arena) \in Nat
  BY FS_CardinalityType DEF HintAssumption
<1>4. IsFiniteSet(Block) /\ Cardinality(Block) \in Nat
  BY <1>2, <1>3, FS_Product, FS_CardinalityType DEF Block
<1>5. non_full_arenas \notin Arena /\ non_full_blocks \notin Block
  BY DEF HintAssumption, Block, non_full_blocks
<1>6. NullLink \notin ArenaNode /\ NullLink \notin BlockNode
  BY DEF HintAssumption
<1> QED
  BY <1>1, <1>2, <1>3, <1>4, <1>5, <1>6
     DEF HintAssumption, ArenaNode, BlockNode, ArenaTarget, BlockTarget, Block

\* The lowest free block is a free block.
LEMMA LowestIsFree ==
    ASSUME HintAssumption, NEW a \in Arena, FreeBlocks(a) # {}
    PROVE  LowestFree(a) \in BlockIdx /\ LowestFree(a) \notin is_block_used[a]
<1>1. FreeBlocks(a) \in SUBSET Nat
  BY HintFacts DEF FreeBlocks
<1>2. \E b \in FreeBlocks(a) : \A d \in FreeBlocks(a) : b <= d
  BY <1>1, LeastNumber
<1>3. LowestFree(a) \in FreeBlocks(a)
  BY <1>2 DEF LowestFree
<1> QED
  BY <1>3 DEF FreeBlocks

\* A node that is filed does not have the null link that marks those that are not.
LEMMA FiledIsUnmarked ==
    ASSUME HintAssumption, NEW S \in SUBSET Block, BlocksFiledAs(S), NEW b \in S
    PROVE  block_link.next[b] # NullLink
<1>1. block_link.next[b] \in {non_full_blocks} \cup S
  BY DEF BlocksFiledAs, Filed, LinkedOver
<1> QED
  BY <1>1, HintFacts

\* The list of blocks after a step: it is enough that the nodes filed are live, not
\* current, and that the other ones of this kind have the mark.
LEMMA BlocksListed ==
    ASSUME HintAssumption, NEW S \in SUBSET Block, BlocksFiledAs(S)',
           \A b \in S : usage'[b] > 0 /\ b # Current',
           \A b \in Block \ S : usage'[b] > 0 /\ b # Current' => block_link'.next[b] = NullLink
    PROVE  S = ListedBlocks' /\ BlocksFiledAs(ListedBlocks)'
<1>1. \A b \in S : block_link'.next[b] # NullLink
  <2> SUFFICES ASSUME NEW b \in S
               PROVE  block_link'.next[b] # NullLink
    OBVIOUS
  <2>1. block_link'.next[b] \in {non_full_blocks} \cup S
    BY DEF BlocksFiledAs, Filed, LinkedOver
  <2> QED
    BY <2>1, HintFacts
<1>2. S = ListedBlocks'
  BY <1>1 DEF ListedBlocks, LiveObjects
<1> QED
  BY <1>2

\* The current block is in neither list of blocks; marking it writes no node of it.
LEMMA RetiredBlocksFiled ==
    ASSUME HintAssumption, HintInv
    PROVE  /\ ListedBlocks \in SUBSET Block
           /\ Filed(RetiredBlocks, BlockNode, BlockTarget, {non_full_blocks},
                    {non_full_blocks} \cup ListedBlocks, OneClass(BlockNode))
           /\ \A b \in Block : RetiredBlocks.next[b] = IF b = Current THEN NullLink
                                                       ELSE block_link.next[b]
<1> DEFINE m == RetiredBlocks
           S == {non_full_blocks} \cup ListedBlocks
<1>1. /\ HintTyped /\ BlocksFiledAs(ListedBlocks)
      /\ block_link \in Links(BlockNode, BlockTarget)
  BY DEF HintInv, BlocksFiledAs, Filed
<1>2. /\ block_link.next \in [BlockNode -> BlockTarget]
      /\ block_link.prev \in [BlockNode -> BlockTarget]
      /\ block_link = [next |-> block_link.next, prev |-> block_link.prev]
  BY <1>1 DEF Links
<1>3. ListedBlocks \in SUBSET Block /\ Current \notin ListedBlocks
  BY DEF ListedBlocks, LiveObjects
<1>4. HasCurrent <=> Current \in Block
  BY <1>1, HintFacts DEF HintTyped, HasCurrent, Current, Block
<1>5. m.prev = block_link.prev /\ m = [next |-> m.next, prev |-> m.prev]
  BY <1>2 DEF RetiredBlocks
<1>6. m.next \in [BlockNode -> BlockTarget]
  BY <1>2, <1>4, HintFacts DEF RetiredBlocks, BlockTarget
<1>7. \A b \in BlockNode : ~HasCurrent \/ b # Current => m.next[b] = block_link.next[b]
  BY <1>2, <1>4, HintFacts DEF RetiredBlocks
<1>8. \A b \in Block : m.next[b] = IF b = Current THEN NullLink ELSE block_link.next[b]
  BY <1>2, <1>4, <1>7, HintFacts DEF RetiredBlocks
<1>9. m \in Links(BlockNode, BlockTarget)
  BY <1>2, <1>5, <1>6 DEF Links
<1>10. S \in SUBSET BlockNode /\ (HasCurrent => Current \notin S)
  BY <1>3, <1>4, HintFacts
<1>11. \A x \in S : m.next[x] = block_link.next[x] /\ m.prev[x] = block_link.prev[x]
  BY <1>5, <1>7, <1>10
<1>12. Filed(m, BlockNode, BlockTarget, {non_full_blocks}, S, OneClass(BlockNode))
  BY <1>1, <1>9, <1>11, FiledOutside DEF BlocksFiledAs
<1> QED
  BY <1>3, <1>8, <1>12

\* The same for the current arena, where it is in no list.
LEMMA RetiredArenasFiled ==
    ASSUME HintAssumption, HintTyped, NEW T \in SUBSET Arena, ArenasFiledAs(T),
           HasCurrent => current_arena \notin T
    PROVE  Filed(RetiredArenas, ArenaNode, ArenaTarget, {non_full_arenas},
                 {non_full_arenas} \cup T, OneClass(ArenaNode))
<1> DEFINE m == RetiredArenas
           S == {non_full_arenas} \cup T
<1>1. /\ arena_link.next \in [ArenaNode -> ArenaTarget]
      /\ arena_link.prev \in [ArenaNode -> ArenaTarget]
      /\ arena_link = [next |-> arena_link.next, prev |-> arena_link.prev]
  BY DEF HintTyped, Links
<1>2. HasCurrent => current_arena \in Arena
  BY DEF HintTyped, HasCurrent
<1>3. m.prev = arena_link.prev /\ m = [next |-> m.next, prev |-> m.prev]
  BY <1>1 DEF RetiredArenas
<1>4. m.next \in [ArenaNode -> ArenaTarget]
  BY <1>1, <1>2, HintFacts DEF RetiredArenas, ArenaTarget
<1>5. S \in SUBSET ArenaNode /\ (HasCurrent => current_arena \notin S)
  BY <1>2, HintFacts
<1>6. \A x \in S : m.next[x] = arena_link.next[x] /\ m.prev[x] = arena_link.prev[x]
  BY <1>1, <1>2, <1>3, <1>5, HintFacts DEF RetiredArenas
<1>7. m \in Links(ArenaNode, ArenaTarget)
  BY <1>1, <1>3, <1>4 DEF Links
<1> QED
  BY <1>6, <1>7, FiledOutside DEF ArenasFiledAs

\* A walk along a list that is filed meets what is filed.
LEMMA BlocksWalked ==
    ASSUME HintAssumption, NEW l, NEW S \in SUBSET Block,
           Filed(l, BlockNode, BlockTarget, {non_full_blocks}, {non_full_blocks} \cup S,
                 OneClass(BlockNode))
    PROVE  /\ WellLinked(l, non_full_blocks, Cardinality(Block))
           /\ Elements(l, non_full_blocks, Cardinality(Block)) = S
<1> DEFINE T == {non_full_blocks} \cup S
<1>1. IsFiniteSet(S) /\ Cardinality(S) <= Cardinality(Block) /\ Cardinality(Block) \in Nat
  BY HintFacts, FS_Subset
<1>2. T \ {non_full_blocks} = S /\ T = S \cup {non_full_blocks} /\ non_full_blocks \in T
  BY HintFacts
<1>3. IsFiniteSet(T)
  BY <1>1, <1>2, FS_AddElement
<1>4. LinkedOver(l, T) /\ Ranked(l, T, {non_full_blocks})
  BY DEF Filed
<1> QED
  BY <1>1, <1>2, <1>3, <1>4, RankedListIsWalked

LEMMA ArenasWalked ==
    ASSUME HintAssumption, NEW T \in SUBSET Arena, ArenasFiledAs(T)
    PROVE  /\ WellLinked(arena_link, non_full_arenas, Cardinality(Arena))
           /\ Elements(arena_link, non_full_arenas, Cardinality(Arena)) = T
<1> DEFINE S == {non_full_arenas} \cup T
<1>1. IsFiniteSet(T) /\ Cardinality(T) <= Cardinality(Arena) /\ Cardinality(Arena) \in Nat
  BY HintFacts, FS_Subset
<1>2. S \ {non_full_arenas} = T /\ S = T \cup {non_full_arenas} /\ non_full_arenas \in S
  BY HintFacts
<1>3. IsFiniteSet(S)
  BY <1>1, <1>2, FS_AddElement
<1>4. LinkedOver(arena_link, S) /\ Ranked(arena_link, S, {non_full_arenas})
  BY DEF ArenasFiledAs, Filed
<1> QED
  BY <1>1, <1>2, <1>3, <1>4, RankedListIsWalked

\* The memory of an arena that is unmapped is gone: nodes that are not filed are cleared.
LEMMA ClearedFiled ==
    ASSUME NEW N, NEW V, NEW L, NEW S \in SUBSET N, NEW C, NEW l, Filed(l, N, V, L, S, C),
           NullLink \in V, NEW dead, dead \cap S = {}, NEW m,
           m = [next |-> [x \in DOMAIN l.next |-> IF x \in dead THEN NullLink ELSE l.next[x]],
                prev |-> [x \in DOMAIN l.prev |-> IF x \in dead THEN NullLink ELSE l.prev[x]]]
    PROVE  /\ Filed(m, N, V, L, S, C)
           /\ \A x \in N : m.next[x] = NullLink \/ m.next[x] = l.next[x]
<1>1. l.next \in [N -> V] /\ l.prev \in [N -> V]
  BY DEF Filed, Links
<1>2. /\ m.next = [x \in N |-> IF x \in dead THEN NullLink ELSE l.next[x]]
      /\ m.prev = [x \in N |-> IF x \in dead THEN NullLink ELSE l.prev[x]]
      /\ m = [next |-> m.next, prev |-> m.prev]
  BY <1>1
<1>3. m.next \in [N -> V] /\ m.prev \in [N -> V]
  BY <1>1, <1>2
<1>4. m \in Links(N, V)
  BY <1>2, <1>3 DEF Links
<1>5. \A x \in S : m.next[x] = l.next[x] /\ m.prev[x] = l.prev[x]
  BY <1>2
<1>6. Filed(m, N, V, L, S, C)
  BY <1>4, <1>5, FiledOutside
<1> QED
  BY <1>2, <1>6
-----------------------------------------------------------------------------
(* The initial state.                                                      *)

LEMMA InitHints == ASSUME HintAssumption, HintInit PROVE HintInv
<1>1. HintTyped
  <2>1. /\ arena_link.next \in [ArenaNode -> ArenaTarget]
        /\ arena_link.prev \in [ArenaNode -> ArenaTarget]
    BY HintFacts DEF HintInit, Null, ArenaTarget
  <2>2. arena_link \in Links(ArenaNode, ArenaTarget)
    BY <2>1 DEF HintInit, Links
  <2>3. usage \in [Block -> 0 .. BlockCap]
    BY HintFacts DEF HintInit
  <2> QED
    BY <2>2, <2>3, HintFacts DEF HintInit, HintTyped
<1>2. BlocksFiledAs({})
  <2> DEFINE S == {non_full_blocks} \cup {}
  <2>1. /\ block_link.next \in [BlockNode -> BlockTarget]
        /\ block_link.prev \in [BlockNode -> BlockTarget]
        /\ block_link.next[non_full_blocks] = non_full_blocks
        /\ block_link.prev[non_full_blocks] = non_full_blocks
    BY HintFacts DEF HintInit, Null, BlockTarget
  <2>2. block_link \in Links(BlockNode, BlockTarget)
    BY <2>1 DEF HintInit, Links
  <2>3. LinkedOver(block_link, S)
    BY <2>1 DEF LinkedOver
  <2>4. [x \in S |-> 0] \in [S -> Nat]
    OBVIOUS
  <2>5. Ranked(block_link, S, {non_full_blocks})
    BY <2>4 DEF Ranked
  <2> QED
    BY <2>1, <2>2, <2>3, <2>5 DEF BlocksFiledAs, Filed
<1>3. ArenasFiledAs({})
  <2> DEFINE S == {non_full_arenas} \cup {}
  <2>1. /\ arena_link.next[non_full_arenas] = non_full_arenas
        /\ arena_link.prev[non_full_arenas] = non_full_arenas
    BY HintFacts DEF HintInit, Null
  <2>2. LinkedOver(arena_link, S)
    BY <2>1 DEF LinkedOver
  <2>3. [x \in S |-> 0] \in [S -> Nat]
    OBVIOUS
  <2>4. Ranked(arena_link, S, {non_full_arenas})
    BY <2>3 DEF Ranked
  <2> QED
    BY <1>1, <2>1, <2>2, <2>4 DEF ArenasFiledAs, Filed, HintTyped
<1>4. ListedBlocks = {}
  BY DEF HintInit, ListedBlocks, LiveObjects
<1>5. UsedExactly
  <2>1. \A b \in Block : b # Current
    BY HintFacts DEF HintInit, Current
  <2> QED
    BY <2>1, HintFacts DEF HintInit, UsedExactly
<1> QED
  BY <1>1, <1>2, <1>3, <1>4, <1>5 DEF HintInit, HintInv, ArenasListed
-----------------------------------------------------------------------------
(* The steps of allocate.                                                  *)

\* The current block, if there is one, is in use, and its arena is mapped.
LEMMA CurrentIsUsed ==
    ASSUME HintAssumption, HintInv, ~destroyed, HasCurrent
    PROVE  /\ Current \in Block /\ current_arena \in arenas /\ current_arena \in Arena
           /\ current_block \in is_block_used[current_arena]
<1>1. HintTyped /\ UsedExactly
  BY DEF HintInv
<1>2. Current \in Block /\ current_arena \in Arena
  BY <1>1, HintFacts DEF HintTyped, HasCurrent, Current
<1> QED
  BY <1>1, <1>2 DEF UsedExactly, Current

\* A block that holds something or is current serves one more request.
LEMMA ServeKeeps ==
    ASSUME HintAssumption, HintInv, ~destroyed, NEW b \in Block,
           usage[b] > 0 \/ b = Current, MayServe(b), serve(b),
           UNCHANGED <<arenas, is_block_used, arena_link, block_link, current_arena,
                       current_block, destroyed, broken>>
    PROVE  HintInv'
<1>1. /\ HintTyped /\ UsedExactly /\ ArenasListed /\ BlocksFiledAs(ListedBlocks)
      /\ Current' = Current
  BY DEF HintInv, Current
<1>2. /\ usage' \in [Block -> 0 .. BlockCap] /\ usage'[b] > 0
      /\ \A x \in Block : usage[x] \in Nat /\ (x # b => usage'[x] = usage[x])
  BY <1>1, HintFacts DEF HintTyped, serve, MayServe
<1>3. HintTyped'
  BY <1>1, <1>2 DEF HintTyped
<1>4. UsedExactly'
  BY <1>1, <1>2 DEF UsedExactly
<1>5. PICK S \in SUBSET Block : S = ListedBlocks
  BY DEF ListedBlocks, LiveObjects
<1>6. BlocksFiledAs(S)'
  BY <1>1, <1>5 DEF BlocksFiledAs
<1>7. \A x \in S : usage'[x] > 0 /\ x # Current'
  BY <1>1, <1>2, <1>5 DEF ListedBlocks, LiveObjects
<1>8. \A x \in Block \ S : usage'[x] > 0 /\ x # Current' => block_link'.next[x] = NullLink
  BY <1>1, <1>2, <1>5 DEF ListedBlocks, LiveObjects
<1>9. BlocksFiledAs(ListedBlocks)'
  BY <1>6, <1>7, <1>8, BlocksListed
<1>10. ArenasListed'
  BY <1>1 DEF ArenasListed, ArenasFiledAs
<1> QED
  BY <1>3, <1>4, <1>9, <1>10 DEF HintInv

LEMMA FromCurrentKeeps ==
    ASSUME HintAssumption, HintInv, ~destroyed, allocate_from_current
    PROVE  HintInv'
  BY CurrentIsUsed, ServeKeeps DEF allocate_from_current

LEMMA WithHintKeeps ==
    ASSUME HintAssumption, HintInv, ~destroyed, NEW b \in LiveObjects, allocate_with_hint(b)
    PROVE  HintInv'
  BY ServeKeeps DEF allocate_with_hint, LiveObjects

\* A block of the list becomes current in place of one that is in use and marked.
LEMMA FromListedKeeps ==
    ASSUME HintAssumption, HintInv, ~destroyed, NEW b \in Listed,
           allocate_from_listed_block(b)
    PROVE  HintInv'
<1> DEFINE N == BlockNode
           m == RetiredBlocks
<1>1. /\ HintTyped /\ UsedExactly /\ ArenasListed /\ BlocksFiledAs(ListedBlocks)
  BY DEF HintInv
<1>2. PICK S \in SUBSET Block :
         /\ S = ListedBlocks
         /\ Filed(m, N, BlockTarget, {non_full_blocks}, {non_full_blocks} \cup S, OneClass(N))
         /\ \A x \in Block : m.next[x] = IF x = Current THEN NullLink ELSE block_link.next[x]
  BY RetiredBlocksFiled
<1>3. b \in S /\ b \in Block /\ b # Current /\ usage[b] > 0
  BY <1>2, BlocksWalked DEF Listed, ListedBlocks, LiveObjects
<1>4. /\ CurrentRefuses /\ MayServe(b) /\ serve(b)
      /\ block_link' = remove_from_list(m, b)
      /\ current_arena' = b[1] /\ current_block' = b[2]
      /\ UNCHANGED <<arenas, is_block_used, arena_link, destroyed, broken>>
  BY DEF allocate_from_listed_block
<1>5. /\ usage' \in [Block -> 0 .. BlockCap] /\ usage'[b] > 0
      /\ \A x \in Block : usage[x] \in Nat /\ (x # b => usage'[x] = usage[x])
  BY <1>1, <1>3, <1>4, HintFacts DEF HintTyped, serve, MayServe
<1>6. Current' = b /\ b[1] \in Arena /\ b[2] \in BlockIdx
  BY <1>3, <1>4, HintFacts DEF Current
<1>7. HintTyped'
  BY <1>1, <1>4, <1>5, <1>6 DEF HintTyped
<1>8. UsedExactly'
  <2>1. \A x \in Block : x = Current => usage[x] > 0
    BY <1>1, <1>4, HintFacts DEF CurrentRefuses, MayRefuse, HasCurrent, Current, HintTyped
  <2> QED
    BY <2>1, <1>1, <1>3, <1>4, <1>5, <1>6 DEF UsedExactly
<1>9. BlocksFiledAs(ListedBlocks)'
  <2> DEFINE R == S \ {b}
             F == {non_full_blocks} \cup S
  <2>1. F \in SUBSET N /\ N \subseteq BlockTarget /\ F \ {b} = {non_full_blocks} \cup R
        /\ b \in F /\ b # non_full_blocks
    BY <1>3, HintFacts
  <2>2. Filed(block_link', N, BlockTarget, {non_full_blocks}, {non_full_blocks} \cup R,
              OneClass(N))
    BY <1>2, <1>4, <2>1, RemoveFiled
  <2>3. BlocksFiledAs(R)'
    BY <2>2 DEF BlocksFiledAs
  <2>4. \A x \in R : usage'[x] > 0 /\ x # Current'
    BY <1>2, <1>5, <1>6 DEF ListedBlocks, LiveObjects
  <2>5. ASSUME NEW x \in Block \ R, usage'[x] > 0, x # Current'
        PROVE  block_link'.next[x] = NullLink
    <3>1. x \in N \ F /\ usage[x] > 0
      BY <2>5, <1>5, <1>6, HintFacts
    <3>2. block_link'.next[x] = m.next[x]
      <4>1. Filed(m, N, BlockTarget, {non_full_blocks}, F, OneClass(N))
        BY <1>2
      <4>2. b \in F /\ F \in SUBSET N /\ x \in N \ F
        BY <2>1, <3>1
      <4> HIDE DEF F, m, N
      <4>3. remove_from_list(m, b).next[x] = m.next[x]
        BY <4>1, <4>2, RemoveOutside
      <4> QED
        BY <1>4, <4>3
    <3>3. m.next[x] = NullLink
      BY <1>2, <3>1 DEF ListedBlocks, LiveObjects
    <3> QED
      BY <3>2, <3>3
  <2> QED
    BY <2>3, <2>4, <2>5, BlocksListed
<1>10. ArenasListed'
  BY <1>1, <1>4 DEF ArenasListed, ArenasFiledAs
<1> QED
  BY <1>4, <1>7, <1>8, <1>9, <1>10 DEF HintInv

\* A new block is opened in an arena that has one, and becomes current in place of
\* one that is in use and marked.
LEMMA OpenKeeps ==
    ASSUME HintAssumption, HintInv, ~destroyed, NEW a \in Arena, FreeBlocks(a) # {},
           CurrentRefuses, block_link' = RetiredBlocks, open_block(a),
           arenas' = arenas \cup {a},
           arena_link' \in Links(ArenaNode, ArenaTarget), ArenasListed',
           UNCHANGED <<destroyed, broken>>
    PROVE  HintInv'
<1> DEFINE N == BlockNode
           m == RetiredBlocks
           i == LowestFree(a)
           b == <<a, i>>
<1>1. HintTyped /\ UsedExactly /\ BlocksFiledAs(ListedBlocks)
  BY DEF HintInv
<1>2. PICK S \in SUBSET Block :
         /\ S = ListedBlocks
         /\ Filed(m, N, BlockTarget, {non_full_blocks}, {non_full_blocks} \cup S, OneClass(N))
         /\ \A x \in Block : m.next[x] = IF x = Current THEN NullLink ELSE block_link.next[x]
  BY RetiredBlocksFiled
<1>3. i \in BlockIdx /\ i \notin is_block_used[a] /\ b \in Block
  BY LowestIsFree, HintFacts
<1>4. /\ is_block_used' = [is_block_used EXCEPT ![a] = @ \cup {i}]
      /\ usage' = [usage EXCEPT ![b] = 1]
      /\ current_arena' = a /\ current_block' = i /\ Current' = b
  BY DEF open_block, Current
<1> HIDE DEF i
<1>5. usage[b] = 0 /\ b # Current
  <2>1. ~(usage[b] > 0 \/ b = Current)
    BY <1>1, <1>3 DEF UsedExactly
  <2>2. usage[b] \in Nat
    BY <1>1, <1>3 DEF HintTyped
  <2> QED
    BY <2>1, <2>2
<1>6. /\ usage' \in [Block -> 0 .. BlockCap] /\ usage'[b] = 1
      /\ \A x \in Block : usage[x] \in Nat /\ (x # b => usage'[x] = usage[x])
  BY <1>1, <1>3, <1>4, HintFacts DEF HintTyped
<1>7. /\ is_block_used' \in [Arena -> SUBSET BlockIdx]
      /\ is_block_used'[a] = is_block_used[a] \cup {i}
      /\ \A c \in Arena : c # a => is_block_used'[c] = is_block_used[c]
  BY <1>1, <1>3, <1>4 DEF HintTyped
<1>8. HintTyped'
  BY <1>1, <1>3, <1>4, <1>6, <1>7 DEF HintTyped
<1>9. UsedExactly'
  <2>1. \A x \in Block : x = Current => usage[x] > 0
    BY <1>1, HintFacts DEF CurrentRefuses, MayRefuse, HasCurrent, Current, HintTyped
  <2>2. ASSUME NEW x \in Block
        PROVE  x[2] \in is_block_used'[x[1]] <=> usage'[x] > 0 \/ x = Current'
    <3>1. x[1] \in Arena /\ x = <<x[1], x[2]>>
      BY HintFacts
    <3>2. CASE x = b
      BY <3>2, <1>4, <1>6, <1>7
    <3>3. CASE x # b
      <4>1. x[2] \in is_block_used'[x[1]] <=> x[2] \in is_block_used[x[1]]
        BY <3>1, <3>3, <1>7
      <4> QED
        BY <4>1, <2>1, <3>3, <1>1, <1>4, <1>6 DEF UsedExactly
    <3> QED
      BY <3>2, <3>3
  <2>3. ASSUME NEW c \in Arena
        PROVE  c \in arenas' <=> is_block_used'[c] # {}
    BY <1>1, <1>7 DEF UsedExactly
  <2> QED
    BY <2>2, <2>3 DEF UsedExactly
<1>10. BlocksFiledAs(ListedBlocks)'
  <2>1. BlocksFiledAs(S)'
    BY <1>2 DEF BlocksFiledAs
  <2>2. \A x \in S : usage'[x] > 0 /\ x # Current'
    BY <1>2, <1>4, <1>5, <1>6 DEF ListedBlocks, LiveObjects
  <2>3. \A x \in Block \ S : usage'[x] > 0 /\ x # Current' => block_link'.next[x] = NullLink
    BY <1>2, <1>4, <1>6 DEF ListedBlocks, LiveObjects
  <2> QED
    BY <2>1, <2>2, <2>3, BlocksListed
<1> QED
  BY <1>8, <1>9, <1>10 DEF HintInv

\* What NeedArena and PopIsSound say of the arenas in the list: the current arena is
\* none of them, so that marking it as full writes no link of the list.
LEMMA SoundArenas ==
    ASSUME HintAssumption, HintInv, ~destroyed, PopIsSound
    PROVE  \E T \in SUBSET arenas :
              /\ Filed(RetiredArenas, ArenaNode, ArenaTarget, {non_full_arenas},
                       {non_full_arenas} \cup T, OneClass(ArenaNode))
              /\ FirstArena \in {non_full_arenas} \cup T
<1>1. HintTyped /\ ArenasListed
  BY DEF HintInv
<1>2. PICK T \in SUBSET arenas : ArenasFiledAs(T)
  BY <1>1 DEF ArenasListed
<1>3. T \in SUBSET Arena
  BY <1>1, <1>2 DEF HintTyped
<1>4. HasCurrent => current_arena \notin T
  BY <1>2, <1>3, ArenasWalked DEF PopIsSound, InArenaList
<1>5. Filed(RetiredArenas, ArenaNode, ArenaTarget, {non_full_arenas},
            {non_full_arenas} \cup T, OneClass(ArenaNode))
  BY <1>1, <1>2, <1>3, <1>4, RetiredArenasFiled
<1>6. FirstArena \in {non_full_arenas} \cup T
  BY <1>5 DEF FirstArena, Filed, LinkedOver
<1> QED
  BY <1>5, <1>6

LEMMA InCurrentArenaKeeps ==
    ASSUME HintAssumption, HintInv, ~destroyed, allocate_in_current_arena
    PROVE  HintInv'
<1>1. /\ HasCurrent /\ FreeBlocks(current_arena) # {} /\ CurrentRefuses
      /\ block_link' = RetiredBlocks /\ open_block(current_arena)
      /\ UNCHANGED <<arenas, arena_link, destroyed, broken>>
  BY DEF allocate_in_current_arena, CurrentHasBlock, NoBlockServes
<1>2. current_arena \in Arena /\ arenas' = arenas \cup {current_arena}
  BY <1>1, CurrentIsUsed
<1>3. ArenasListed' /\ arena_link' \in Links(ArenaNode, ArenaTarget)
  BY <1>1 DEF HintInv, HintTyped, ArenasListed, ArenasFiledAs
<1> QED
  BY <1>1, <1>2, <1>3, OpenKeeps

\* The first arena of the list leaves it and becomes current.
LEMMA InListedArenaKeeps ==
    ASSUME HintAssumption, HintInv, ~destroyed, allocate_in_listed_arena
    PROVE  HintInv'
<1> DEFINE N == ArenaNode
           m == RetiredArenas
<1>1. PICK a : a = FirstArena
  OBVIOUS
<1>2. /\ PopIsSound /\ a # non_full_arenas /\ CurrentRefuses
      /\ block_link' = RetiredBlocks
      /\ arena_link' = pop_front(m, non_full_arenas, a)
      /\ open_block(a)
      /\ UNCHANGED <<arenas, destroyed, broken>>
  BY <1>1 DEF allocate_in_listed_arena, NeedArena, NoBlockServes
<1>3. PICK T \in SUBSET arenas :
         /\ Filed(m, N, ArenaTarget, {non_full_arenas}, {non_full_arenas} \cup T, OneClass(N))
         /\ a \in {non_full_arenas} \cup T
  BY <1>1, <1>2, SoundArenas
<1>4. /\ a \in T /\ a \in Arena /\ arenas' = arenas \cup {a} /\ T \in SUBSET Arena
      /\ FreeBlocks(a) # {}
  BY <1>1, <1>2, <1>3 DEF HintInv, HintTyped, PopIsSound
<1>5. ArenasFiledAs(T \ {a})'
  <2> DEFINE F == {non_full_arenas} \cup T
  <2>1. /\ F \in SUBSET N /\ N \subseteq ArenaTarget /\ non_full_arenas \in F
        /\ F \ {a} = {non_full_arenas} \cup (T \ {a}) /\ a \notin {non_full_arenas}
    BY <1>2, <1>4, HintFacts
  <2>2. a = m.next[non_full_arenas] /\ Filed(m, N, ArenaTarget, {non_full_arenas}, F, OneClass(N))
    BY <1>1, <1>3 DEF FirstArena
  <2> HIDE DEF F, m, N
  <2>3. Filed(pop_front(m, non_full_arenas, a), N, ArenaTarget, {non_full_arenas}, F \ {a},
              OneClass(N))
    BY <2>1, <2>2, PopFrontFiled
  <2>4. Filed(arena_link', N, ArenaTarget, {non_full_arenas}, {non_full_arenas} \cup (T \ {a}),
              OneClass(N))
    BY <1>2, <2>1, <2>3
  <2> QED
    BY <2>4 DEF ArenasFiledAs, N
<1>6. ArenasListed' /\ arena_link' \in Links(N, ArenaTarget)
  BY <1>2, <1>5 DEF ArenasListed, ArenasFiledAs, Filed
<1> QED
  BY <1>2, <1>4, <1>6, OpenKeeps

\* The links of the current arena are marked before the new arena is created.
LEMMA RetiredKeeps ==
    ASSUME HintAssumption, HintInv, ~destroyed, PopIsSound, arena_link' = RetiredArenas,
           arenas \subseteq arenas'
    PROVE  ArenasListed' /\ arena_link' \in Links(ArenaNode, ArenaTarget)
<1>1. PICK T \in SUBSET arenas :
         Filed(RetiredArenas, ArenaNode, ArenaTarget, {non_full_arenas},
               {non_full_arenas} \cup T, OneClass(ArenaNode))
  BY SoundArenas
<1>2. ArenasFiledAs(T)' /\ T \in SUBSET arenas'
  BY <1>1 DEF ArenasFiledAs
<1> QED
  BY <1>1, <1>2 DEF ArenasListed, Filed

LEMMA InNewArenaKeeps ==
    ASSUME HintAssumption, HintInv, ~destroyed, NEW a \in Arena, allocate_in_new_arena(a)
    PROVE  HintInv'
<1>1. /\ PopIsSound /\ CurrentRefuses /\ a \notin arenas /\ arenas' = arenas \cup {a}
      /\ block_link' = RetiredBlocks /\ arena_link' = RetiredArenas /\ open_block(a)
      /\ UNCHANGED <<destroyed, broken>>
  BY DEF allocate_in_new_arena, NeedArena, NoBlockServes
<1>2. FreeBlocks(a) # {}
  BY <1>1, HintFacts DEF HintInv, UsedExactly, FreeBlocks
<1>3. ArenasListed' /\ arena_link' \in Links(ArenaNode, ArenaTarget)
  BY <1>1, RetiredKeeps
<1> QED
  BY <1>1, <1>2, <1>3, OpenKeeps

\* When no arena can be created, the current block and arena stay current, marked.
LEMMA CreateThrowsKeeps ==
    ASSUME HintAssumption, HintInv, ~destroyed, create_throws
    PROVE  HintInv'
<1>1. /\ PopIsSound /\ block_link' = RetiredBlocks /\ arena_link' = RetiredArenas
      /\ UNCHANGED <<arenas, is_block_used, usage, current_arena, current_block,
                     destroyed, broken>>
      /\ Current' = Current
  BY DEF create_throws, NeedArena, Current
<1>2. HintTyped /\ UsedExactly
  BY DEF HintInv
<1>3. ArenasListed' /\ arena_link' \in Links(ArenaNode, ArenaTarget)
  BY <1>1, RetiredKeeps
<1>4. HintTyped' /\ UsedExactly'
  BY <1>1, <1>2, <1>3 DEF HintTyped, UsedExactly
<1>5. PICK S \in SUBSET Block :
         /\ S = ListedBlocks
         /\ Filed(RetiredBlocks, BlockNode, BlockTarget, {non_full_blocks},
                  {non_full_blocks} \cup S, OneClass(BlockNode))
         /\ \A x \in Block : RetiredBlocks.next[x] = IF x = Current THEN NullLink
                                                     ELSE block_link.next[x]
  BY RetiredBlocksFiled
<1>6. BlocksFiledAs(ListedBlocks)'
  <2>1. BlocksFiledAs(S)'
    BY <1>1, <1>5 DEF BlocksFiledAs
  <2>2. \A x \in S : usage'[x] > 0 /\ x # Current'
    BY <1>1, <1>5 DEF ListedBlocks, LiveObjects
  <2>3. \A x \in Block \ S : usage'[x] > 0 /\ x # Current' => block_link'.next[x] = NullLink
    BY <1>1, <1>5 DEF ListedBlocks, LiveObjects
  <2> QED
    BY <2>1, <2>2, <2>3, BlocksListed
<1> QED
  BY <1>1, <1>3, <1>4, <1>6 DEF HintInv
-----------------------------------------------------------------------------
(* The steps of deallocate.                                                *)

\* An object leaves its block.
LEMMA TakeOut ==
    ASSUME HintAssumption, HintTyped, NEW b \in LiveObjects, take_out(b)
    PROVE  /\ b \in Block /\ usage[b] > 0 /\ usage'[b] = usage[b] - 1
           /\ usage' \in [Block -> 0 .. BlockCap]
           /\ \A x \in Block : /\ usage[x] \in Nat /\ usage'[x] \in Nat
                               /\ x # b => usage'[x] = usage[x]
<1>1. usage \in [Block -> 0 .. BlockCap] /\ b \in Block /\ usage[b] > 0 /\ BlockCap \in Nat
  BY HintFacts DEF HintTyped, LiveObjects
<1>2. usage' = [usage EXCEPT ![b] = usage[b] - 1]
  BY DEF take_out
<1>3. usage[b] - 1 \in 0 .. BlockCap
  BY <1>1
<1> QED
  BY <1>1, <1>2, <1>3

\* A block that keeps an object, or is current, goes back to the list if it has the mark.
LEMMA DeallocateKeeps ==
    ASSUME HintAssumption, HintInv, ~destroyed, NEW b \in LiveObjects, deallocate(b)
    PROVE  HintInv'
<1> DEFINE N == BlockNode
<1>1. /\ HintTyped /\ UsedExactly /\ ArenasListed /\ BlocksFiledAs(ListedBlocks)
  BY DEF HintInv
<1>2. /\ ~Emptied(b) /\ take_out(b) /\ block_link' = Relisted(b)
      /\ UNCHANGED <<arenas, is_block_used, arena_link, current_arena, current_block,
                     destroyed, broken>>
      /\ Current' = Current
  BY DEF deallocate, Current
<1>3. /\ b \in Block /\ usage[b] > 0 /\ usage'[b] = usage[b] - 1
      /\ usage' \in [Block -> 0 .. BlockCap]
      /\ \A x \in Block : /\ usage[x] \in Nat /\ usage'[x] \in Nat
                          /\ x # b => usage'[x] = usage[x]
  BY <1>1, <1>2, TakeOut
<1>4. b # Current => usage'[b] > 0
  BY <1>2, <1>3 DEF Emptied
<1>5. HintTyped'
  BY <1>1, <1>2, <1>3 DEF HintTyped
<1>6. UsedExactly'
  BY <1>1, <1>2, <1>3, <1>4 DEF UsedExactly
<1>7. ArenasListed'
  BY <1>1, <1>2 DEF ArenasListed, ArenasFiledAs
<1>8. PICK S \in SUBSET Block : S = ListedBlocks
  BY DEF ListedBlocks, LiveObjects
<1>9. CASE b # Current /\ block_link.next[b] = NullLink
  <2> DEFINE F == {non_full_blocks} \cup S
             R == S \cup {b}
  <2>1. b \notin S
    BY <1>8, <1>9 DEF ListedBlocks
  <2>2. /\ F \in SUBSET N /\ N \subseteq BlockTarget /\ non_full_blocks \in {non_full_blocks}
        /\ b \in N \ F /\ {non_full_blocks} \in SUBSET F /\ F \cup {b} = {non_full_blocks} \cup R
        /\ OneClass(N)[b] = OneClass(N)[non_full_blocks]
    BY <1>3, <2>1, HintFacts DEF OneClass
  <2>3. Filed(block_link, N, BlockTarget, {non_full_blocks}, F, OneClass(N))
    BY <1>1, <1>8 DEF BlocksFiledAs
  <2>4. block_link' = insert_prev(block_link, non_full_blocks, b)
    BY <1>2, <1>9 DEF Relisted
  <2> HIDE DEF F, N
  <2>5. Filed(block_link', N, BlockTarget, {non_full_blocks}, F \cup {b}, OneClass(N))
    BY <2>2, <2>3, <2>4, InsertPrevFiled
  <2>6. ASSUME NEW x \in N \ (F \cup {b})
        PROVE  block_link'.next[x] = block_link.next[x]
    <3>1. insert_prev(block_link, non_full_blocks, b).next[x] = block_link.next[x]
      BY <2>2, <2>3, InsertPrevOutside
    <3> QED
      BY <2>4, <3>1
  <2>7. BlocksFiledAs(R)'
    BY <2>2, <2>5 DEF BlocksFiledAs, N
  <2>8. \A x \in R : usage'[x] > 0 /\ x # Current'
    BY <1>2, <1>3, <1>4, <1>8, <1>9 DEF ListedBlocks, LiveObjects
  <2>9. ASSUME NEW x \in Block \ R, usage'[x] > 0, x # Current'
        PROVE  block_link'.next[x] = NullLink
    <3>1. x \in N \ (F \cup {b}) /\ x \notin S /\ x # b
      BY <2>9, HintFacts DEF N, F
    <3>2. block_link.next[x] = NullLink
      BY <1>2, <1>3, <1>8, <2>9, <3>1 DEF ListedBlocks, LiveObjects
    <3> QED
      BY <2>6, <3>1, <3>2
  <2>10. R \in SUBSET Block
    BY <1>3
  <2>11. BlocksFiledAs(ListedBlocks)'
    BY <2>7, <2>8, <2>9, <2>10, BlocksListed
  <2> QED
    BY <1>2, <1>5, <1>6, <1>7, <2>11 DEF HintInv
<1>10. CASE ~(b # Current /\ block_link.next[b] = NullLink)
  <2>1. block_link' = block_link
    BY <1>2, <1>10 DEF Relisted
  <2>2. BlocksFiledAs(S)'
    BY <1>1, <1>8, <2>1 DEF BlocksFiledAs
  <2>3. \A x \in S : usage'[x] > 0 /\ x # Current'
    BY <1>2, <1>3, <1>4, <1>8 DEF ListedBlocks, LiveObjects
  <2>4. \A x \in Block \ S : usage'[x] > 0 /\ x # Current' => block_link'.next[x] = NullLink
    BY <1>2, <1>3, <1>8, <2>1 DEF ListedBlocks, LiveObjects
  <2>5. BlocksFiledAs(ListedBlocks)'
    BY <2>2, <2>3, <2>4, BlocksListed
  <2> QED
    BY <1>2, <1>5, <1>6, <1>7, <2>5 DEF HintInv
<1> QED
  BY <1>9, <1>10

\* An emptied block leaves the list of blocks if it is in it.
LEMMA UnlistedFiled ==
    ASSUME HintAssumption, HintInv, NEW b \in Block, b # Current, usage[b] > 0
    PROVE  \E S \in SUBSET Block :
              /\ S = ListedBlocks
              /\ Filed(Unlisted(b), BlockNode, BlockTarget, {non_full_blocks},
                       {non_full_blocks} \cup (S \ {b}), OneClass(BlockNode))
              /\ \A x \in Block \ S : Unlisted(b).next[x] = block_link.next[x]
<1> DEFINE N == BlockNode
<1>1. PICK S \in SUBSET Block : S = ListedBlocks
  BY DEF ListedBlocks, LiveObjects
<1> DEFINE F == {non_full_blocks} \cup S
<1>2. Filed(block_link, N, BlockTarget, {non_full_blocks}, F, OneClass(N))
  BY <1>1 DEF HintInv, BlocksFiledAs
<1>3. b \in S <=> block_link.next[b] # NullLink
  BY <1>1 DEF ListedBlocks, LiveObjects
<1>4. CASE b \in S
  <2>1. /\ F \in SUBSET N /\ N \subseteq BlockTarget /\ b \in F /\ b \notin {non_full_blocks}
        /\ F \ {b} = {non_full_blocks} \cup (S \ {b}) /\ Block \ S \subseteq N \ F
    BY <1>4, HintFacts
  <2>2. Unlisted(b) = remove_from_list(block_link, b)
    BY <1>3, <1>4 DEF Unlisted
  <2> HIDE DEF F, N
  <2>3. Filed(remove_from_list(block_link, b), N, BlockTarget, {non_full_blocks}, F \ {b},
              OneClass(N))
    BY <1>2, <2>1, RemoveFiled
  <2>4. ASSUME NEW x \in Block \ S
        PROVE  remove_from_list(block_link, b).next[x] = block_link.next[x]
    BY <1>2, <2>1, RemoveOutside
  <2> QED
    BY <1>1, <2>1, <2>2, <2>3, <2>4 DEF N
<1>5. CASE b \notin S
  <2>1. Unlisted(b) = block_link /\ S \ {b} = S
    BY <1>3, <1>5 DEF Unlisted
  <2> QED
    BY <1>1, <1>2, <2>1
<1> QED
  BY <1>4, <1>5

\* The list of blocks after a block has been given back.
LEMMA EmptiedIsUnlisted ==
    ASSUME HintAssumption, HintInv, NEW b \in LiveObjects, Emptied(b), take_out(b),
           Current' = Current, NEW S \in SUBSET Block, S = ListedBlocks,
           BlocksFiledAs(S \ {b})',
           \A x \in Block \ S : \/ block_link'.next[x] = NullLink
                                \/ block_link'.next[x] = block_link.next[x]
    PROVE  BlocksFiledAs(ListedBlocks)'
<1>1. /\ usage'[b] = 0 /\ b # Current
      /\ \A x \in Block : /\ usage[x] \in Nat
                          /\ x # b => usage'[x] = usage[x]
  BY TakeOut DEF HintInv, Emptied
<1>2. \A x \in S \ {b} : usage'[x] > 0 /\ x # Current'
  BY <1>1 DEF ListedBlocks, LiveObjects
<1>3. ASSUME NEW x \in Block \ (S \ {b}), usage'[x] > 0, x # Current'
      PROVE  block_link'.next[x] = NullLink
  <2>1. x \in Block \ S /\ usage[x] > 0
    BY <1>1, <1>3
  <2>2. block_link.next[x] = NullLink
    BY <1>3, <2>1 DEF ListedBlocks, LiveObjects
  <2> QED
    BY <2>1, <2>2
<1> QED
  BY <1>2, <1>3, BlocksListed

\* A block is given back, and its arena goes back to the list if it has the mark.
LEMMA DeallocateBlockKeeps ==
    ASSUME HintAssumption, HintInv, ~destroyed, NEW b \in LiveObjects, deallocate_block(b)
    PROVE  HintInv'
<1>1. PICK a, i : a = b[1] /\ i = b[2]
  OBVIOUS
<1>2. /\ HintTyped /\ UsedExactly /\ ArenasListed
  BY DEF HintInv
<1>3. /\ Emptied(b) /\ ~ArenaEmptied(b) /\ take_out(b) /\ block_link' = Unlisted(b)
      /\ is_block_used' = [is_block_used EXCEPT ![a] = @ \ {i}]
      /\ arena_link' = IF a # current_arena /\ ArenaMarked(a)
                       THEN insert_prev(arena_link, non_full_arenas, a) ELSE arena_link
      /\ UNCHANGED <<arenas, current_arena, current_block, destroyed, broken>>
      /\ Current' = Current
  BY <1>1 DEF deallocate_block, Current
<1>4. /\ b \in Block /\ usage[b] > 0 /\ usage'[b] = 0 /\ b # Current
      /\ usage' \in [Block -> 0 .. BlockCap]
      /\ \A x \in Block : /\ usage[x] \in Nat /\ usage'[x] \in Nat
                          /\ x # b => usage'[x] = usage[x]
  BY <1>2, <1>3, TakeOut DEF Emptied
<1>5. a \in Arena /\ i \in BlockIdx /\ b = <<a, i>> /\ a \in arenas /\ i \in is_block_used[a]
  BY <1>1, <1>2, <1>4, HintFacts DEF UsedExactly
<1>6. /\ is_block_used' \in [Arena -> SUBSET BlockIdx]
      /\ is_block_used'[a] = is_block_used[a] \ {i}
      /\ \A c \in Arena : c # a => is_block_used'[c] = is_block_used[c]
  BY <1>2, <1>3, <1>5 DEF HintTyped
<1>7. is_block_used'[a] # {}
  <2>1. CASE a = current_arena
    <3>1. HasCurrent
      BY <2>1, <1>5, HintFacts DEF HasCurrent
    <3>2. current_block \in is_block_used[a] /\ current_block # i
      BY <2>1, <3>1, <1>4, <1>5, CurrentIsUsed DEF Current
    <3> QED
      BY <3>2, <1>6
  <2>2. CASE a # current_arena
    <3>1. is_block_used[a] # {i}
      BY <2>2, <1>1, <1>3 DEF ArenaEmptied
    <3> QED
      BY <3>1, <1>5, <1>6
  <2> QED
    BY <2>1, <2>2
<1>8. UsedExactly'
  <2>1. ASSUME NEW x \in Block
        PROVE  x[2] \in is_block_used'[x[1]] <=> usage'[x] > 0 \/ x = Current'
    <3>1. x[1] \in Arena /\ x = <<x[1], x[2]>>
      BY HintFacts
    <3>2. CASE x = b
      BY <3>2, <1>1, <1>3, <1>4, <1>6
    <3>3. CASE x # b
      <4>1. x[2] \in is_block_used'[x[1]] <=> x[2] \in is_block_used[x[1]]
        BY <3>1, <3>3, <1>5, <1>6
      <4> QED
        BY <4>1, <3>3, <1>2, <1>3, <1>4 DEF UsedExactly
    <3> QED
      BY <3>2, <3>3
  <2>2. ASSUME NEW c \in Arena
        PROVE  c \in arenas' <=> is_block_used'[c] # {}
    BY <1>2, <1>3, <1>5, <1>6, <1>7 DEF UsedExactly
  <2> QED
    BY <2>1, <2>2 DEF UsedExactly
<1>9. BlocksFiledAs(ListedBlocks)'
  <2>1. PICK S \in SUBSET Block :
           /\ S = ListedBlocks
           /\ Filed(Unlisted(b), BlockNode, BlockTarget, {non_full_blocks},
                    {non_full_blocks} \cup (S \ {b}), OneClass(BlockNode))
           /\ \A x \in Block \ S : Unlisted(b).next[x] = block_link.next[x]
    BY <1>4, UnlistedFiled
  <2>2. BlocksFiledAs(S \ {b})'
    BY <1>3, <2>1 DEF BlocksFiledAs
  <2> QED
    BY <1>3, <2>1, <2>2, EmptiedIsUnlisted
<1>10. ArenasListed' /\ arena_link' \in Links(ArenaNode, ArenaTarget)
  <2>1. PICK T \in SUBSET arenas : ArenasFiledAs(T)
    BY <1>2 DEF ArenasListed
  <2>2. CASE a # current_arena /\ ArenaMarked(a)
    <3> DEFINE N == ArenaNode
               F == {non_full_arenas} \cup T
    <3>1. Filed(arena_link, N, ArenaTarget, {non_full_arenas}, F, OneClass(N))
      BY <2>1 DEF ArenasFiledAs
    <3>2. F \in SUBSET N
      BY <1>2, HintFacts DEF HintTyped
    <3>3. a \notin F
      <4>1. \A x \in F : arena_link.next[x] \in F
        BY <3>1 DEF Filed, LinkedOver
      <4> QED
        BY <4>1, <3>2, <2>2, HintFacts DEF ArenaMarked
    <3>4. /\ N \subseteq ArenaTarget /\ non_full_arenas \in {non_full_arenas}
          /\ a \in N \ F /\ {non_full_arenas} \in SUBSET F
          /\ F \cup {a} = {non_full_arenas} \cup (T \cup {a})
          /\ OneClass(N)[a] = OneClass(N)[non_full_arenas]
      BY <1>5, <3>3, HintFacts DEF OneClass
    <3>5. arena_link' = insert_prev(arena_link, non_full_arenas, a)
      BY <1>3, <2>2
    <3> HIDE DEF F, N
    <3>6. Filed(insert_prev(arena_link, non_full_arenas, a), N, ArenaTarget, {non_full_arenas},
                F \cup {a}, OneClass(N))
      BY <3>1, <3>2, <3>4, InsertPrevFiled
    <3>7. ArenasFiledAs(T \cup {a})'
      BY <3>4, <3>5, <3>6 DEF ArenasFiledAs, N
    <3>8. T \cup {a} \in SUBSET arenas'
      BY <1>3, <1>5
    <3> QED
      BY <3>7, <3>8 DEF ArenasListed, ArenasFiledAs, Filed
  <2>3. CASE ~(a # current_arena /\ ArenaMarked(a))
    BY <2>1, <2>3, <1>2, <1>3 DEF ArenasListed, ArenasFiledAs, HintTyped
  <2> QED
    BY <2>2, <2>3
<1>11. HintTyped'
  BY <1>2, <1>3, <1>4, <1>6, <1>10 DEF HintTyped
<1> QED
  BY <1>3, <1>8, <1>9, <1>10, <1>11 DEF HintInv

\* The last block of an arena that is not current: the arena leaves the list, if it is
\* in it, and is unmapped.
LEMMA DeallocateArenaKeeps ==
    ASSUME HintAssumption, HintInv, ~destroyed, NEW b \in LiveObjects, deallocate_arena(b)
    PROVE  HintInv'
<1>1. PICK a, i : a = b[1] /\ i = b[2]
  OBVIOUS
<1> DEFINE Clear(l, dead) ==
             [next |-> [x \in DOMAIN l.next |-> IF x \in dead THEN NullLink ELSE l.next[x]],
              prev |-> [x \in DOMAIN l.prev |-> IF x \in dead THEN NullLink ELSE l.prev[x]]]
           unfiled == IF ArenaMarked(a) THEN arena_link ELSE remove_from_list(arena_link, a)
<1>2. /\ HintTyped /\ UsedExactly /\ ArenasListed
  BY DEF HintInv
<1>3. /\ Emptied(b) /\ FreeIsSound(b) /\ take_out(b) /\ ArenaEmptied(b)
      /\ a # current_arena /\ is_block_used[a] = {i}
      /\ block_link' = Clear(Unlisted(b), {a} \X BlockIdx)
      /\ is_block_used' = [is_block_used EXCEPT ![a] = {}]
      /\ arena_link' = Clear(unfiled, {a})
      /\ arenas' = arenas \ {a}
      /\ UNCHANGED <<current_arena, current_block, destroyed, broken>>
      /\ Current' = Current
  BY <1>1 DEF deallocate_arena, ArenaEmptied, Current
<1>4. /\ b \in Block /\ usage[b] > 0 /\ usage'[b] = 0 /\ b # Current
      /\ usage' \in [Block -> 0 .. BlockCap]
      /\ \A x \in Block : /\ usage[x] \in Nat /\ usage'[x] \in Nat
                          /\ x # b => usage'[x] = usage[x]
  BY <1>2, <1>3, TakeOut DEF Emptied
<1>5. a \in Arena /\ i \in BlockIdx /\ b = <<a, i>> /\ a \in arenas
  BY <1>1, <1>2, <1>4, HintFacts DEF UsedExactly
<1>6. /\ is_block_used' \in [Arena -> SUBSET BlockIdx] /\ is_block_used'[a] = {}
      /\ \A c \in Arena : c # a => is_block_used'[c] = is_block_used[c]
  BY <1>2, <1>3, <1>5 DEF HintTyped
<1> HIDE DEF Clear, unfiled
<1>7. \A x \in Block : x[1] = a /\ x # b => ~(usage[x] > 0) /\ x # Current
  <2> SUFFICES ASSUME NEW x \in Block, x[1] = a, x # b
               PROVE  ~(usage[x] > 0) /\ x # Current
    OBVIOUS
  <2>1. x = <<a, x[2]>> /\ x[2] # i
    BY <1>5, HintFacts
  <2> QED
    BY <2>1, <1>2, <1>3 DEF UsedExactly
<1>8. UsedExactly'
  <2>1. ASSUME NEW x \in Block
        PROVE  x[2] \in is_block_used'[x[1]] <=> usage'[x] > 0 \/ x = Current'
    <3>1. x[1] \in Arena
      BY HintFacts
    <3>2. CASE x[1] = a
      BY <3>2, <1>3, <1>4, <1>6, <1>7
    <3>3. CASE x[1] # a
      <4>1. x # b /\ is_block_used'[x[1]] = is_block_used[x[1]]
        BY <3>1, <3>3, <1>1, <1>6
      <4> QED
        BY <4>1, <1>2, <1>3, <1>4 DEF UsedExactly
    <3> QED
      BY <3>2, <3>3
  <2>2. ASSUME NEW c \in Arena
        PROVE  c \in arenas' <=> is_block_used'[c] # {}
    BY <1>2, <1>3, <1>6 DEF UsedExactly
  <2> QED
    BY <2>1, <2>2 DEF UsedExactly
<1>9. BlocksFiledAs(ListedBlocks)'
  <2>1. PICK S \in SUBSET Block :
           /\ S = ListedBlocks
           /\ Filed(Unlisted(b), BlockNode, BlockTarget, {non_full_blocks},
                    {non_full_blocks} \cup (S \ {b}), OneClass(BlockNode))
           /\ \A x \in Block \ S : Unlisted(b).next[x] = block_link.next[x]
    BY <1>4, UnlistedFiled
  <2> DEFINE l == Unlisted(b)
             F == {non_full_blocks} \cup (S \ {b})
             dead == {a} \X BlockIdx
             N == BlockNode
  <2>2. F \in SUBSET N /\ NullLink \in BlockTarget /\ Block \subseteq N
    BY HintFacts DEF BlockTarget
  <2>3. dead \cap F = {}
    <3>1. \A x \in S \ {b} : x[1] # a
      BY <2>1, <1>7 DEF ListedBlocks, LiveObjects
    <3>2. non_full_blocks \notin dead
      BY <1>5, HintFacts DEF Block
    <3> QED
      BY <3>1, <3>2
  <2>4. Filed(l, N, BlockTarget, {non_full_blocks}, F, OneClass(N))
    BY <2>1
  <2>5. block_link' = [next |-> [x \in DOMAIN l.next |-> IF x \in dead THEN NullLink ELSE l.next[x]],
                       prev |-> [x \in DOMAIN l.prev |-> IF x \in dead THEN NullLink ELSE l.prev[x]]]
    BY <1>3 DEF Clear
  <2>6. \A x \in Block \ S : l.next[x] = block_link.next[x]
    BY <2>1
  <2> HIDE DEF l, F, dead, N
  <2>7. /\ Filed(block_link', N, BlockTarget, {non_full_blocks}, F, OneClass(N))
        /\ \A x \in N : block_link'.next[x] = NullLink \/ block_link'.next[x] = l.next[x]
    BY <2>2, <2>3, <2>4, <2>5, ClearedFiled
  <2>8. BlocksFiledAs(S \ {b})'
    BY <2>7 DEF BlocksFiledAs, F, N
  <2>9. \A x \in Block \ S : \/ block_link'.next[x] = NullLink
                             \/ block_link'.next[x] = block_link.next[x]
    BY <2>2, <2>6, <2>7
  <2> QED
    BY <1>3, <2>1, <2>8, <2>9, EmptiedIsUnlisted
<1>10. ArenasListed' /\ arena_link' \in Links(ArenaNode, ArenaTarget)
  <2>1. PICK T \in SUBSET arenas : ArenasFiledAs(T)
    BY <1>2 DEF ArenasListed
  <2>2. T \in SUBSET Arena
    BY <1>2, <2>1 DEF HintTyped
  <2> DEFINE N == ArenaNode
             F == {non_full_arenas} \cup T
             R == {non_full_arenas} \cup (T \ {a})
             dead == {a}
  <2>3. Filed(arena_link, N, ArenaTarget, {non_full_arenas}, F, OneClass(N))
    BY <2>1 DEF ArenasFiledAs
  <2>4. /\ F \in SUBSET N /\ R \in SUBSET N /\ N \subseteq ArenaTarget
        /\ NullLink \in ArenaTarget /\ a \notin {non_full_arenas} /\ dead \cap R = {}
        /\ F \ {a} = R
    BY <1>5, <2>2, HintFacts DEF ArenaTarget
  <2>5. a \in T => ~ArenaMarked(a)
    <3>1. \A x \in F : arena_link.next[x] \in F
      BY <2>3 DEF Filed, LinkedOver
    <3> QED
      BY <3>1, <2>4, HintFacts DEF ArenaMarked
  <2>6. Filed(unfiled, N, ArenaTarget, {non_full_arenas}, R, OneClass(N))
    <3>1. CASE ArenaMarked(a)
      <4>1. F = R /\ unfiled = arena_link
        BY <2>5, <3>1 DEF unfiled
      <4> QED
        BY <2>3, <4>1
    <3>2. CASE ~ArenaMarked(a)
      <4>1. a \in T
        BY <3>2, <1>1, <1>3, <2>1, <2>2, ArenasWalked DEF FreeIsSound, InArenaList
      <4>2. a \in F /\ unfiled = remove_from_list(arena_link, a)
        BY <3>2, <4>1 DEF unfiled
      <4> HIDE DEF F, R, N
      <4>3. Filed(remove_from_list(arena_link, a), N, ArenaTarget, {non_full_arenas}, F \ {a},
                  OneClass(N))
        BY <2>3, <2>4, <4>2, RemoveFiled
      <4> QED
        BY <2>4, <4>2, <4>3
    <3> QED
      BY <3>1, <3>2
  <2>7. PICK l, m : /\ l = unfiled /\ m = arena_link'
                    /\ m = [next |-> [x \in DOMAIN l.next |-> IF x \in dead THEN NullLink
                                                               ELSE l.next[x]],
                             prev |-> [x \in DOMAIN l.prev |-> IF x \in dead THEN NullLink
                                                               ELSE l.prev[x]]]
    BY <1>3 DEF Clear
  <2> HIDE DEF F, R, N, dead
  <2>8. /\ Filed(m, N, ArenaTarget, {non_full_arenas}, R, OneClass(N))
        /\ \A x \in N : m.next[x] = NullLink \/ m.next[x] = l.next[x]
    <3>1. Filed(l, N, ArenaTarget, {non_full_arenas}, R, OneClass(N))
      BY <2>6, <2>7
    <3> QED
      BY <2>4, <2>7, <3>1, ClearedFiled
  <2>9. ArenasFiledAs(T \ {a})'
    BY <2>7, <2>8 DEF ArenasFiledAs, R, N
  <2>10. T \ {a} \in SUBSET arenas'
    BY <1>3
  <2> QED
    BY <2>9, <2>10 DEF ArenasListed, ArenasFiledAs, Filed
<1>11. HintTyped'
  BY <1>2, <1>3, <1>4, <1>6, <1>10 DEF HintTyped
<1> QED
  BY <1>3, <1>8, <1>9, <1>10, <1>11 DEF HintInv

\* Without objects only the current arena is left, which the destructor unmaps.
LEMMA DestroyKeeps ==
    ASSUME HintAssumption, HintInv, ~destroyed, destroy
    PROVE  HintInv' /\ arenas' = {}
<1>1. /\ HintTyped /\ UsedExactly /\ BlocksFiledAs(ListedBlocks)
  BY DEF HintInv
<1>2. /\ LiveObjects = {} /\ destroyed' = TRUE /\ arenas' = arenas \ {current_arena}
      /\ UNCHANGED <<is_block_used, usage, arena_link, block_link, current_arena,
                     current_block, broken>>
  BY DEF destroy
<1>3. ASSUME NEW a \in arenas
      PROVE  a = current_arena
  <2>1. PICK i \in BlockIdx : i \in is_block_used[a] /\ a \in Arena
    BY <1>1, <1>3 DEF UsedExactly, HintTyped
  <2>2. <<a, i>> \in Block /\ <<a, i>>[1] = a /\ <<a, i>>[2] = i
    BY <2>1, HintFacts
  <2>3. usage[<<a, i>>] > 0 \/ <<a, i>> = Current
    BY <1>1, <2>1, <2>2 DEF UsedExactly
  <2> QED
    BY <1>2, <2>2, <2>3 DEF LiveObjects, Current
<1>4. arenas' = {}
  BY <1>2, <1>3
<1>5. ListedBlocks' = {} /\ ListedBlocks = {}
  BY <1>2 DEF ListedBlocks, LiveObjects
<1>6. BlocksFiledAs(ListedBlocks)'
  BY <1>1, <1>2, <1>5 DEF BlocksFiledAs
<1>7. HintTyped'
  BY <1>1, <1>2, <1>4 DEF HintTyped
<1> QED
  BY <1>2, <1>4, <1>6, <1>7 DEF HintInv

\* Once the code has gone astray nothing moves any more.
LEMMA NothingMoves ==
    ASSUME HintInv, broken' \in BOOLEAN,
           UNCHANGED <<arenas, is_block_used, usage, arena_link, block_link, current_arena,
                       current_block, destroyed>>
    PROVE  HintInv'
  BY DEF HintInv, HintTyped, UsedExactly, ArenasListed, ArenasFiledAs, BlocksFiledAs,
         ListedBlocks, LiveObjects, Current

LEMMA NextHints ==
    ASSUME HintAssumption, HintInv, [HintNext]_hint_vars
    PROVE  HintInv'
<1>1. CASE UNCHANGED hint_vars
  BY <1>1, NothingMoves DEF hint_vars, HintInv, HintTyped
<1>2. ASSUME goes_astray_in_allocate \/ \E b \in LiveObjects : goes_astray_in_deallocate(b)
      PROVE  HintInv'
  BY <1>2, NothingMoves DEF goes_astray_in_allocate, goes_astray_in_deallocate
<1> QED
  BY <1>1, <1>2, FromCurrentKeeps, FromListedKeeps, InCurrentArenaKeeps, InListedArenaKeeps,
     InNewArenaKeeps, CreateThrowsKeeps, WithHintKeeps, DeallocateKeeps, DeallocateBlockKeeps,
     DeallocateArenaKeeps, DestroyKeeps
     DEF HintNext, Alive, MayAllocate
-----------------------------------------------------------------------------
(* The theorems.                                                           *)

\* The inductive invariant: what is in use, the two lists and the marks of the blocks,
\* in every state, also when the code has gone astray in the list of arenas.
THEOREM HintInvHolds == ASSUME HintAssumption PROVE HintSpec => []HintInv
<1>1. HintInit => HintInv
  BY InitHints
<1>2. HintInv /\ [HintNext]_hint_vars => HintInv'
  BY NextHints
<1> QED
  BY <1>1, <1>2, PTL DEF HintSpec

\* Until it goes astray, a block is in use exactly if it holds an object or is current,
\* and an arena is mapped exactly if it has a block in use; with the last copy of the
\* allocator every arena has gone.  A walk along the list of blocks meets exactly those
\* in use that are neither current nor marked, once each, whatever allocations with a
\* hint have filled; the list of arenas holds mapped arenas only.
THEOREM HintBlocksExactHolds == ASSUME HintAssumption PROVE HintSpec => []HintBlocksExact
<1>1. HintInv => HintBlocksExact
  <2> SUFFICES ASSUME HintInv
               PROVE  HintBlocksExact
    OBVIOUS
  <2>1. HintTyped /\ BlocksFiledAs(ListedBlocks)
    BY DEF HintInv
  <2>2. HintTypeOK
    BY <2>1 DEF HintTyped, HintTypeOK, BlocksFiledAs, Filed, Links, ArenaTarget, BlockTarget
  <2>3. ListedBlocks \in SUBSET Block
    BY DEF ListedBlocks, LiveObjects
  <2>4. /\ WellLinked(block_link, non_full_blocks, Cardinality(Block))
        /\ Elements(block_link, non_full_blocks, Cardinality(Block)) = ListedBlocks
    BY <2>1, <2>3, BlocksWalked DEF BlocksFiledAs
  <2>5. ASSUME ~destroyed
        PROVE  /\ WellLinked(arena_link, non_full_arenas, Cardinality(Arena))
               /\ Elements(arena_link, non_full_arenas, Cardinality(Arena)) \subseteq arenas
    <3>1. PICK T \in SUBSET arenas : ArenasFiledAs(T)
      BY <2>5 DEF HintInv, ArenasListed
    <3>2. T \in SUBSET Arena
      BY <2>1, <3>1 DEF HintTyped
    <3> QED
      BY <3>1, <3>2, ArenasWalked
  <2>6. ~destroyed => /\ \A b \in Block : b[2] \in is_block_used[b[1]]
                                             <=> usage[b] > 0 \/ b = Current
                      /\ arenas = {a \in Arena : is_block_used[a] # {}}
    BY <2>1 DEF HintInv, HintTyped, UsedExactly
  <2>7. destroyed => arenas = {}
    BY DEF HintInv
  <2> QED
    BY <2>2, <2>4, <2>5, <2>6, <2>7 DEF HintBlocksExact, ListedBlocks
<1> QED
  BY <1>1, HintInvHolds, PTL
-----------------------------------------------------------------------------
(* The blocks are an ExtentHeap.                                           *)

\* A block that holds something as an extent of one unit.
Extents == {<<b[1], b[2], 1>> : b \in LiveObjects}

\* A block gets its first object, of an arena that is mapped now.
LEMMA FirstObjectIsAlloc ==
    ASSUME HintAssumption, NEW b \in Block, b \notin LiveObjects,
           LiveObjects' = LiveObjects \cup {b}, arenas' = arenas \cup {b[1]}
    PROVE  Heap!Alloc
<1> DEFINE e == <<b[1], b[2], 1>>
<1>1. NBlocks \in Nat \ {0} /\ b[1] \in Arena /\ b[2] \in 0 .. NBlocks - 1
  BY HintFacts DEF BlockIdx
<1>2. e \in Heap!Extent /\ e[2] + e[3] <= NBlocks /\ arenas' = arenas \cup {e[1]}
  BY <1>1 DEF Heap!Extent
<1>3. Extents' = Extents \cup {e}
  BY DEF Extents
<1>4. ASSUME NEW f \in Extents
      PROVE  ~Heap!Overlap(e, f)
  <2>1. PICK x \in LiveObjects : f = <<x[1], x[2], 1>>
    BY DEF Extents
  <2>2. x = <<x[1], x[2]>> /\ x[2] \in Nat /\ b = <<b[1], b[2]>> /\ x # b
    BY <2>1, HintFacts DEF LiveObjects
  <2>3. b[1] # x[1] \/ b[2] # x[2]
    BY <2>2
  <2>4. Heap!Units(e) = b[2] .. b[2] /\ Heap!Units(f) = x[2] .. x[2]
    BY <1>1, <2>1, <2>2 DEF Heap!Units
  <2>5. Heap!Units(e) = {b[2]} /\ Heap!Units(f) = {x[2]}
    BY <1>1, <2>2, <2>4
  <2> QED
    BY <2>1, <2>3, <2>5 DEF Heap!Overlap
<1> HIDE DEF e
<1> QED
  BY <1>2, <1>3, <1>4 DEF Heap!Alloc, Extents

\* A block loses its last object; its arena may be unmapped if no other block of it
\* holds something.
LEMMA LastObjectIsFree ==
    ASSUME HintAssumption, NEW b \in LiveObjects, LiveObjects' = LiveObjects \ {b},
           \/ UNCHANGED arenas
           \/ arenas' = arenas \ {b[1]} /\ \A x \in LiveObjects \ {b} : x[1] # b[1]
    PROVE  Heap!Free
<1> DEFINE e == <<b[1], b[2], 1>>
<1>1. \A x \in LiveObjects : x = <<x[1], x[2]>>
  BY HintFacts DEF LiveObjects
<1>2. e \in Extents /\ Extents' = Extents \ {e}
  <2>1. e \in Extents
    BY DEF Extents
  <2>2. \A x \in LiveObjects : <<x[1], x[2], 1>> = e => x = b
    BY <1>1
  <2>3. Extents' = {<<x[1], x[2], 1>> : x \in LiveObjects \ {b}}
    BY DEF Extents
  <2> HIDE DEF e
  <2> QED
    BY <2>1, <2>2, <2>3 DEF Extents, e
<1>3. \/ UNCHANGED arenas
      \/ arenas' = arenas \ {e[1]} /\ \A f \in Extents' : f[1] # e[1]
  BY DEF Extents
<1> HIDE DEF e
<1> QED
  BY <1>2, <1>3 DEF Heap!Free, Extents

\* The live blocks after usage has changed at one of them.
LEMMA LiveAfter ==
    ASSUME HintAssumption, HintTyped, NEW b \in Block, NEW n \in Nat,
           usage' = [usage EXCEPT ![b] = n]
    PROVE  LiveObjects' = IF n > 0 THEN LiveObjects \cup {b} ELSE LiveObjects \ {b}
<1>1. usage \in [Block -> 0 .. BlockCap]
  BY DEF HintTyped
<1>2. \A x \in Block : usage'[x] = IF x = b THEN n ELSE usage[x]
  BY <1>1
<1> QED
  BY <1>2 DEF LiveObjects

LEMMA StepIsHeapStep ==
    ASSUME HintAssumption, HintInv, [HintNext]_hint_vars
    PROVE  [Heap!Next]_Heap!heapVars
<1> SUFFICES Heap!Next \/ UNCHANGED <<arenas, LiveObjects>>
  <2>1. UNCHANGED <<arenas, LiveObjects>> => UNCHANGED Heap!heapVars
    BY DEF Heap!heapVars
  <2> QED
    BY <2>1
<1>1. HintTyped /\ \A b \in Block : usage[b] \in Nat
  BY DEF HintInv, HintTyped
<1>2. ASSUME NEW b \in Block, serve(b), arenas' = arenas, b[1] \in arenas
      PROVE  Heap!Next \/ UNCHANGED <<arenas, LiveObjects>>
  <2>1. usage' = [usage EXCEPT ![b] = usage[b] + 1] /\ usage[b] + 1 \in Nat
        /\ usage[b] + 1 > 0
    BY <1>1, <1>2 DEF serve
  <2>2. LiveObjects' = LiveObjects \cup {b}
    BY <1>1, <2>1, LiveAfter
  <2>3. CASE b \in LiveObjects
    BY <1>2, <2>2, <2>3
  <2>4. CASE b \notin LiveObjects
    BY <1>2, <2>2, <2>4, FirstObjectIsAlloc DEF Heap!Next
  <2> QED
    BY <2>3, <2>4
<1>3. ASSUME ~destroyed, allocate_from_current
      PROVE  Heap!Next \/ UNCHANGED <<arenas, LiveObjects>>
  BY <1>2, <1>3, CurrentIsUsed DEF allocate_from_current, Current
<1>4. ASSUME ~destroyed, NEW b \in LiveObjects, serve(b), arenas' = arenas
      PROVE  Heap!Next \/ UNCHANGED <<arenas, LiveObjects>>
  <2>1. b \in Block /\ b[1] \in arenas
    BY <1>4, HintFacts DEF LiveObjects, HintInv, UsedExactly
  <2> QED
    BY <1>2, <1>4, <2>1
<1>5. ASSUME ~destroyed, NEW b \in Listed, allocate_from_listed_block(b)
      PROVE  Heap!Next \/ UNCHANGED <<arenas, LiveObjects>>
  <2>1. b \in LiveObjects
    BY <1>5, RetiredBlocksFiled, BlocksWalked DEF Listed, ListedBlocks
  <2> QED
    BY <1>4, <1>5, <2>1 DEF allocate_from_listed_block
<1>6. ASSUME ~destroyed, NEW b \in LiveObjects, allocate_with_hint(b)
      PROVE  Heap!Next \/ UNCHANGED <<arenas, LiveObjects>>
  BY <1>4, <1>6 DEF allocate_with_hint
<1>7. ASSUME ~destroyed, NEW a \in Arena, FreeBlocks(a) # {}, open_block(a),
             arenas' = arenas \cup {a}
      PROVE  Heap!Next
  <2> DEFINE b == <<a, LowestFree(a)>>
  <2>1. b \in Block /\ LowestFree(a) \notin is_block_used[a]
    BY <1>7, LowestIsFree, HintFacts
  <2>2. b \notin LiveObjects
    BY <1>7, <2>1 DEF HintInv, UsedExactly, LiveObjects
  <2>3. PICK n \in Nat : n > 0 /\ usage' = [usage EXCEPT ![b] = n]
    <3>1. usage' = [usage EXCEPT ![b] = 1] /\ 1 \in Nat /\ 1 > 0
      BY <1>7 DEF open_block
    <3> QED
      BY <3>1
  <2> HIDE DEF b
  <2>4. LiveObjects' = LiveObjects \cup {b}
    BY <1>1, <2>1, <2>3, LiveAfter
  <2>5. b[1] = a
    BY DEF b
  <2> QED
    BY <1>7, <2>1, <2>2, <2>4, <2>5, FirstObjectIsAlloc DEF Heap!Next
<1>8. ASSUME ~destroyed, allocate_in_current_arena
      PROVE  Heap!Next
  <2>1. /\ current_arena \in Arena /\ current_arena \in arenas
        /\ FreeBlocks(current_arena) # {} /\ open_block(current_arena) /\ arenas' = arenas
    BY <1>8, CurrentIsUsed DEF allocate_in_current_arena, CurrentHasBlock
  <2>2. arenas' = arenas \cup {current_arena}
    BY <2>1
  <2> QED
    BY <1>7, <1>8, <2>1, <2>2
<1>9. ASSUME ~destroyed, allocate_in_listed_arena
      PROVE  Heap!Next
  <2>1. /\ FreeBlocks(FirstArena) # {} /\ open_block(FirstArena) /\ arenas' = arenas
        /\ PopIsSound /\ FirstArena # non_full_arenas
    BY <1>9 DEF allocate_in_listed_arena, NeedArena, PopIsSound
  <2>2. FirstArena \in arenas /\ FirstArena \in Arena
    BY <1>1, <1>9, <2>1, SoundArenas DEF HintTyped
  <2>3. arenas' = arenas \cup {FirstArena}
    BY <2>1, <2>2
  <2> QED
    BY <1>7, <1>9, <2>1, <2>2, <2>3
<1>10. ASSUME ~destroyed, NEW a \in Arena, allocate_in_new_arena(a)
       PROVE  Heap!Next
  <2>1. a \notin arenas /\ open_block(a) /\ arenas' = arenas \cup {a}
    BY <1>10 DEF allocate_in_new_arena
  <2>2. FreeBlocks(a) # {}
    BY <1>10, <2>1, HintFacts DEF HintInv, UsedExactly, FreeBlocks
  <2> QED
    BY <1>7, <1>10, <2>1, <2>2
<1>11. ASSUME NEW b \in LiveObjects, take_out(b)
       PROVE  /\ b \in Block
              /\ LiveObjects' = IF usage[b] = 1 THEN LiveObjects \ {b} ELSE LiveObjects
  <2>1. b \in Block /\ usage[b] > 0 /\ usage[b] \in Nat
    BY <1>1 DEF LiveObjects
  <2>2. usage' = [usage EXCEPT ![b] = usage[b] - 1] /\ usage[b] - 1 \in Nat
    BY <1>11, <2>1 DEF take_out
  <2>3. LiveObjects' = IF usage[b] - 1 > 0 THEN LiveObjects \cup {b} ELSE LiveObjects \ {b}
    BY <1>1, <2>1, <2>2, LiveAfter
  <2>4. usage[b] - 1 > 0 <=> usage[b] # 1
    BY <2>1
  <2> QED
    BY <2>1, <2>3, <2>4
<1>12. ASSUME NEW b \in LiveObjects, deallocate(b) \/ deallocate_block(b)
       PROVE  Heap!Next \/ UNCHANGED <<arenas, LiveObjects>>
  <2>1. take_out(b) /\ arenas' = arenas
    BY <1>12 DEF deallocate, deallocate_block
  <2> QED
    BY <1>11, <2>1, LastObjectIsFree DEF Heap!Next
<1>13. ASSUME ~destroyed, NEW b \in LiveObjects, deallocate_arena(b)
       PROVE  Heap!Next
  <2>1. /\ take_out(b) /\ arenas' = arenas \ {b[1]} /\ usage[b] = 1
        /\ is_block_used[b[1]] = {b[2]}
    BY <1>13 DEF deallocate_arena, ArenaEmptied, Emptied
  <2>2. b \in Block /\ LiveObjects' = LiveObjects \ {b}
    BY <1>11, <2>1
  <2>3. ASSUME NEW x \in LiveObjects, x[1] = b[1]
        PROVE  x = b
    <3>1. x \in Block /\ x[2] \in is_block_used[x[1]]
      BY <1>13, <2>3 DEF LiveObjects, HintInv, UsedExactly
    <3>2. x = <<x[1], x[2]>> /\ b = <<b[1], b[2]>>
      BY <2>2, <3>1, HintFacts
    <3> QED
      BY <2>1, <2>3, <3>1, <3>2
  <2> QED
    BY <2>1, <2>2, <2>3, LastObjectIsFree DEF Heap!Next
<1>14. ASSUME destroy
       PROVE  Heap!Next \/ UNCHANGED <<arenas, LiveObjects>>
  <2>1. /\ Extents = {} /\ Extents' = {} /\ LiveObjects' = LiveObjects
        /\ arenas' = arenas \ {current_arena}
    BY <1>14 DEF destroy, Extents, LiveObjects
  <2>2. CASE current_arena \in arenas
    BY <2>1, <2>2 DEF Heap!Next, Heap!Unmap, Extents
  <2>3. CASE current_arena \notin arenas
    BY <2>1, <2>3
  <2> QED
    BY <2>2, <2>3
<1>15. ASSUME \/ create_throws \/ goes_astray_in_allocate \/ UNCHANGED hint_vars
              \/ \E b \in LiveObjects : goes_astray_in_deallocate(b)
       PROVE  UNCHANGED <<arenas, LiveObjects>>
  BY <1>15 DEF create_throws, goes_astray_in_allocate, goes_astray_in_deallocate, hint_vars,
               LiveObjects
<1> QED
  BY <1>3, <1>5, <1>6, <1>8, <1>9, <1>10, <1>12, <1>13, <1>14, <1>15
     DEF HintNext, Alive, MayAllocate

\* Blocks are handed out one at a time, and an arena is unmapped only when none of its
\* blocks holds an object.
THEOREM HintImplementsHeapHolds == ASSUME HintAssumption PROVE HintSpec => HintImplementsHeap
<1>1. HintInit => Heap!Init
  BY DEF HintInit, Heap!Init, LiveObjects
<1>2. HintInv /\ [HintNext]_hint_vars => [Heap!Next]_Heap!heapVars
  BY StepIsHeapStep
<1> QED
  BY <1>1, <1>2, HintInvHolds, PTL DEF HintSpec, HintImplementsHeap, Heap!Spec
=============================================================================
