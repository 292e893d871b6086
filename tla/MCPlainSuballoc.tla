--------------------------- MODULE MCPlainSuballoc ---------------------------
(* PlainSuballoc on small arenas for TLC: pages of two units.              *)
EXTENDS PlainSuballoc, TLC

MCClassSize  == [c \in 0 .. 2 |-> 2 ^ c]
MCAllocClass == [n \in 1 .. 4 |-> IF n = 1 THEN 0 ELSE IF n = 2 THEN 1 ELSE 2]
MCFreeClass  == [n \in 1 .. DataNPages |->
                    IF n = 1 THEN 0 ELSE IF n < 4 THEN 1 ELSE 2]

\* Half a page, and two pages (the class that can be aligned to two pages).
AlignSlotSize == 0 :> 1 @@ 1 :> 4
\* A page, and one and a half: slots that begin inside a slab's pages.
SplitSlotSize == 0 :> 2 @@ 1 :> 3

Gcd(m, n) == CHOOSE d \in 1 .. m :
                /\ m % d = 0 /\ n % d = 0
                /\ \A e \in 1 .. m : m % e = 0 /\ n % e = 0 => e <= d
AlignSlabNPages == [c \in 0 .. 1 |-> AlignSlotSize[c] \div Gcd(AlignSlotSize[c], PageUnits)]
SplitSlabNPages == [c \in 0 .. 1 |-> SplitSlotSize[c] \div Gcd(SplitSlotSize[c], PageUnits)]
AlignNSlots == [c \in 0 .. 1 |-> (AlignSlabNPages[c] * PageUnits) \div AlignSlotSize[c]]
SplitNSlots == [c \in 0 .. 1 |-> (SplitSlabNPages[c] * PageUnits) \div SplitSlotSize[c]]

\* PlainPages reads the flag used only at the ends of runs and at the sentinels,
\* which the run of PlainPages, without a view, shows: two states that differ in
\* the flags of other entries have the same behaviours.  The links of a slab that
\* is current, and of pages that are no slab, are written before they are read.
RunEnds == {<<r[1], r[2]>> : r \in Runs} \cup {<<r[1], r[2] + r[3] - 1>> : r \in Runs}
           \cup Arena \X {-1, DataNPages}
Filed == {x[1] : x \in slabs} \ {current_slabs[c] : c \in AllocClasses}
LiveLinks(f) == [x \in SlabNode |-> IF x \in Filed \cup SlabList THEN f[x] ELSE Garbage]

\* The equation is true.  To evaluate it TLC computes the functions of the state
\* from the chains of updates as which it keeps them, before it takes a further
\* step from them; without a view it does so to compare states.
View == <<arenas, [e \in RunEnds |-> used[e]], n_pages, link, capacity, request,
          held, heads, current_slabs, LiveLinks(slab_link.next),
          LiveLinks(slab_link.prev), allocated, idx_in_slab, call, slabs, live, large,
          occupied, allVars = allVars>>

ArenaSymmetry == Permutations(Arena)
=============================================================================
