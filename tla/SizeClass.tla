------------------------------ MODULE SizeClass ------------------------------
(***************************************************************************)
(* The size class tables of size_class.hpp.  All sub-allocators round with *)
(* them: a request up to a class, a free run of pages down to one.  The    *)
(* tables are built at compile time by loops; here they are functions      *)
(* defined by the same recurrences, and the last one, whose loop carries a *)
(* class from one number of pages to the next, is built step by step.      *)
(***************************************************************************)
EXTENDS Integers, Sequences, FiniteSets

CONSTANTS
    PageSize,                    \* bytes of a page
    SmallestAllocSize,           \* bytes of the smallest class
    NAllocClassesInDoublingSize, \* classes per doubling of the size
    ArenaNPages,                 \* ArenaSize / PageSize
    DataNPages                   \* data pages of a PlainSuballocatorArena

SizeAssumption ==
    /\ SmallestAllocSize \in Nat \ {0}
    /\ PageSize \in {SmallestAllocSize * 2 ^ k : k \in 0 .. 16}
    /\ NAllocClassesInDoublingSize \in {2 ^ k : k \in 0 .. 4}
    /\ DataNPages \in 1 .. ArenaNPages - 1

-----------------------------------------------------------------------------
(* Small objects.                                                          *)

Doublings == CHOOSE k \in 0 .. 16 : SmallestAllocSize * 2 ^ k = PageSize

\* bit_width(PageSize / SmallestAllocSize) - 1 doublings; PageSize *
\* NAllocClassesInDoublingSize itself is left out.
NAllocClasses == NAllocClassesInDoublingSize
                 + Doublings * NAllocClassesInDoublingSize - 1

\* After the first doubling size grows by delta, which doubles with every group.
AllocClassIdx2SizeTab ==
    LET n == NAllocClassesInDoublingSize
        delta(idx) == SmallestAllocSize * 2 ^ ((idx - n) \div n)
        size_of[idx \in 0 .. NAllocClasses - 1] ==
            IF idx < n THEN SmallestAllocSize * (idx + 1)
            ELSE size_of[idx - 1] + delta(idx)
    IN  [idx \in 0 .. NAllocClasses - 1 |-> size_of[idx]]

MaxSmallAllocSize == AllocClassIdx2SizeTab[NAllocClasses - 1]
alloc_class_idx2size(class_idx) == AllocClassIdx2SizeTab[class_idx]

\* ranges::lower_bound: the first class that is at least as large.
lower_bound(size) ==
    CHOOSE c \in 0 .. NAllocClasses - 1 :
       /\ AllocClassIdx2SizeTab[c] >= size
       /\ c = 0 \/ AllocClassIdx2SizeTab[c - 1] < size

Size2AllocClassIdxTab ==
    [idx \in 0 .. (MaxSmallAllocSize \div SmallestAllocSize) - 1 |->
        lower_bound(SmallestAllocSize * (idx + 1))]

alloc_size2class_idx(size) ==
    Size2AllocClassIdxTab[(size + SmallestAllocSize - 1) \div SmallestAllocSize - 1]

\* std::gcd by Euclid's algorithm, one round per index: enough for 16 bits.
gcd(m, n) ==
    LET euclid[k \in 0 .. 32] ==
            IF k = 0 THEN <<m, n>>
            ELSE LET p == euclid[k - 1]
                 IN  IF p[2] = 0 THEN p ELSE <<p[2], p[1] % p[2]>>
    IN  euclid[32][1]
lcm(m, n) == (m * n) \div gcd(m, n)

\* Mutant of AllocClassIdx2NPagesTab: the pages of one slot.
AllocClassIdx2NPagesTab_one_slot ==
    [idx \in 0 .. NAllocClasses - 1 |->
        (AllocClassIdx2SizeTab[idx] + PageSize - 1) \div PageSize]

AllocClassIdx2NPagesTab ==
    [idx \in 0 .. NAllocClasses - 1 |->
        lcm(AllocClassIdx2SizeTab[idx], PageSize) \div PageSize]
AllocClassIdx2NSlotsTab ==
    [idx \in 0 .. NAllocClasses - 1 |->
        (AllocClassIdx2NPagesTab[idx] * PageSize) \div AllocClassIdx2SizeTab[idx]]

\* SlabBitmap has (MaxSlabNSlots + 63) / 64 words of 64 bits.
MaxSlabNSlots == CHOOSE n \in {AllocClassIdx2NSlotsTab[c] : c \in 0 .. NAllocClasses - 1} :
                    \A c \in 0 .. NAllocClasses - 1 : AllocClassIdx2NSlotsTab[c] <= n

-----------------------------------------------------------------------------
(* Runs of pages: the same classes, in pages.                              *)

page_class_idx2size(class_idx) ==
    (AllocClassIdx2SizeTab[class_idx] * PageSize) \div SmallestAllocSize
page_alloc_size2class_idx(size) == Size2AllocClassIdxTab[(size \div PageSize) - 1]

MaxNPages == ArenaNPages - 1

VARIABLES
    PageFreeSize2ClassIdxTab,   \* the entries computed so far, by n_pages
    asked                       \* 0 during the loop, then a size callers pass

tables_vars == <<PageFreeSize2ClassIdxTab, asked>>

page_free_size2class_idx(n_bytes) == PageFreeSize2ClassIdxTab[n_bytes \div PageSize]

\* Mutant of BuildPageFreeTab: < for <=.
BuildPageFreeTab_strict ==
    /\ asked = 0
    /\ Len(PageFreeSize2ClassIdxTab) < MaxNPages
    /\ LET n_pages   == Len(PageFreeSize2ClassIdxTab) + 1
           class_idx == IF n_pages = 1 THEN 0 ELSE PageFreeSize2ClassIdxTab[n_pages - 1]
           next_fits == page_class_idx2size(class_idx + 1) < n_pages * PageSize
       IN  PageFreeSize2ClassIdxTab' =
              Append(PageFreeSize2ClassIdxTab,
                     IF next_fits THEN class_idx + 1 ELSE class_idx)
    /\ UNCHANGED asked

\* One round of the loop: class_idx moves on by at most one per page.
BuildPageFreeTab ==
    /\ asked = 0
    /\ Len(PageFreeSize2ClassIdxTab) < MaxNPages
    /\ LET n_pages   == Len(PageFreeSize2ClassIdxTab) + 1
           class_idx == IF n_pages = 1 THEN 0 ELSE PageFreeSize2ClassIdxTab[n_pages - 1]
           next_fits == page_class_idx2size(class_idx + 1) <= n_pages * PageSize
       IN  PageFreeSize2ClassIdxTab' =
              Append(PageFreeSize2ClassIdxTab,
                     IF next_fits THEN class_idx + 1 ELSE class_idx)
    /\ UNCHANGED asked

\* PlainSuballocatorArena: the free lists, and the largest medium object, one
\* page less than a power of two (bit_floor) of pages.
NPageClasses == page_free_size2class_idx(DataNPages * PageSize) + 1
BitFloor(n) == CHOOSE p \in {2 ^ k : k \in 0 .. 16} : p <= n /\ n < 2 * p
MaxMediumAllocSize ==
    (BitFloor(page_class_idx2size(NPageClasses - 1) \div PageSize) - 1) * PageSize

-----------------------------------------------------------------------------
(* The sizes a caller can pass, one after the other.                       *)

TablesInit == PageFreeSize2ClassIdxTab = <<>> /\ asked = 0

NextSize ==
    /\ Len(PageFreeSize2ClassIdxTab) = MaxNPages
    /\ asked' = IF asked < MaxSmallAllocSize THEN asked + 1 ELSE 1
    /\ UNCHANGED PageFreeSize2ClassIdxTab

TablesNext == BuildPageFreeTab \/ NextSize
TablesSpec == TablesInit /\ [][TablesNext]_tables_vars

\* A small object gets the least class that holds it: never a slot that is too
\* small, never one class too large.  The slots of the class fill the pages of a
\* slab exactly, the bitmap has a bit for each, and a slab is a run that
\* allocate_page accepts.
SlotsFit == asked > 0 =>
    LET c == alloc_size2class_idx(asked)
        n == AllocClassIdx2NPagesTab[c]
    IN  /\ c \in 0 .. NAllocClasses - 1
        /\ asked <= alloc_class_idx2size(c)
        /\ c > 0 => alloc_class_idx2size(c - 1) < asked
        /\ AllocClassIdx2NSlotsTab[c] * alloc_class_idx2size(c) = n * PageSize
        /\ AllocClassIdx2NSlotsTab[c] \in 1 .. MaxSlabNSlots
        /\ n * PageSize <= MaxMediumAllocSize

\* The free list in which a request of n pages (with up to one page of padding)
\* begins to search exists, and every run that is filed from there on is long
\* enough; no longer run is filed below it than its class says.  Here `asked`
\* counts pages.
PageClassesFit ==
    asked > 0 /\ asked <= MaxMediumAllocSize \div PageSize + 1 =>
        LET c == page_alloc_size2class_idx(asked * PageSize)
        IN  /\ c < NPageClasses
            /\ \A m \in 1 .. DataNPages :
                  LET f == page_free_size2class_idx(m * PageSize)
                  IN  /\ f < NPageClasses
                      /\ f >= c => m >= asked
                      /\ page_class_idx2size(f) <= m * PageSize
                      /\ page_class_idx2size(f + 1) > m * PageSize
=============================================================================
