----------------------------- MODULE PlainPages -----------------------------
(***************************************************************************)
(* The page allocator below PlainSuballocator: allocate_page and           *)
(* deallocate_page of PlainSuballocatorImplBase, over arenas of            *)
(* DataNPages pages (plain_suballoc.hpp/.ipp).                             *)
(*                                                                         *)
(* Every arena has one metadata entry per data page and a sentinel entry   *)
(* before and behind them.  The first and the last entry of a free run     *)
(* hold used = false and the length of the run (boundary tags); the first  *)
(* entry also links the run into the free list of its size class.  Length  *)
(* and links are a member of a union: they are meaningless in every other  *)
(* entry.  The code leaves their old contents there; the model forgets     *)
(* them (0, a null link), so that nothing can depend on them.  The flag    *)
(* used is outside of the union and keeps its old value everywhere.        *)
(*                                                                         *)
(* The program is single threaded, but allocate_page can stop half way     *)
(* (Arena::create throws), so a call in progress is the variable request.  *)
(***************************************************************************)
EXTENDS IntrusiveList, FiniteSets

CONSTANTS
    Arena,            \* the addresses at which an arena can be mapped
    DataNPages,       \* data pages of an arena
    MetadataNPages,   \* pages before the first data page
    NPageClasses,     \* number of free lists
    ClassSize,        \* SizeClass::page_class_idx2size, in pages
    AllocClass,       \* SizeClass::page_alloc_size2class_idx, by pages
    FreeClass,        \* SizeClass::page_free_size2class_idx, by pages
    MaxNPages,        \* Arena::MaxMediumAllocSize, in pages
    PageAligns,       \* values of PageAlign: Alignment in pages, at least 1
    Accounted,        \* TRUE: PurelyLocalCustom, FALSE: SwappablePlainCustom
    Capacity,         \* orig_capacity, in pages (when Accounted)
    MaxCapacity,      \* bound of the model on the value of capacity
    NullLink          \* a null link

VARIABLES
    arenas,           \* the arenas currently mapped
    used,             \* metadata(i).used
    n_pages,          \* metadata(i).free.n_pages
    link,             \* metadata(i).free.link and the sentinels free_pages[c]
    capacity,         \* custom.capacity
    request,          \* the allocate_page call in progress
    held,             \* auxiliary: the runs the callers hold
    heads             \* auxiliary: the entries at which free runs begin

vars == <<arenas, used, n_pages, link, capacity, request, held, heads>>

Class   == 0 .. NPageClasses - 1
Data    == 0 .. DataNPages - 1
Meta    == -1 .. DataNPages
Page    == Arena \X Data
Entry   == Arena \X Meta
List    == {"free_pages"} \X Class
Node    == List \cup Entry
free_pages(c) == <<"free_pages", c>>

\* A run of pages: <<arena, first page, number of pages>>.
Run == Arena \X Data \X (1 .. DataNPages)
RunPages(r) == r[2] .. (r[2] + r[3] - 1)

NoRequest == [n |-> 0, align |-> 1, fresh |-> FALSE]
Request   == [n : 0 .. MaxNPages, align : PageAligns \cup {1}, fresh : BOOLEAN]

ASSUME ArenaAssumption ==
    /\ IsFiniteSet(Arena)
    /\ "free_pages" \notin Arena
    /\ DataNPages \in Nat \ {0}
    /\ MetadataNPages \in Nat \ {0}
    /\ NullLink \notin Node

\* Class sizes grow from one page; a request is rounded up to a class (so any
\* run of that class fits) and a free run is rounded down to one.
ASSUME ClassAssumption ==
    /\ NPageClasses \in Nat \ {0}
    /\ ClassSize \in [Class -> 1 .. DataNPages]
    /\ ClassSize[0] = 1
    /\ \A c, d \in Class : c < d => ClassSize[c] < ClassSize[d]
    /\ FreeClass \in [1 .. DataNPages -> Class]
    /\ \A n \in 1 .. DataNPages :
          /\ ClassSize[FreeClass[n]] <= n
          /\ \A c \in Class : ClassSize[c] <= n => c <= FreeClass[n]
    /\ AllocClass \in [1 .. ClassSize[NPageClasses - 1] -> Class]
    /\ \A n \in 1 .. ClassSize[NPageClasses - 1] :
          /\ n <= ClassSize[AllocClass[n]]
          /\ \A c \in Class : n <= ClassSize[c] => AllocClass[n] <= c

\* allocate_page adds PageAlign - 1 to the size before it looks up the class.
\* The data pages begin at a multiple of every alignment, so that the padding
\* before a page never reaches back before the first one.
ASSUME RequestAssumption ==
    /\ MaxNPages \in Nat \ {0}
    /\ PageAligns \subseteq Nat \ {0}
    /\ \A al \in PageAligns :
          /\ MaxNPages + al - 1 <= ClassSize[NPageClasses - 1]
          /\ \A i \in 0 .. DataNPages : (i + MetadataNPages) % al <= i

ASSUME CapacityAssumption ==
    Accounted \in BOOLEAN /\ Capacity \in Nat /\ MaxCapacity \in Nat

-----------------------------------------------------------------------------
(* The state at construction: no arena, every free list empty.             *)

Init ==
    /\ arenas = {}
    /\ used = [e \in Entry |-> FALSE]
    /\ n_pages = [e \in Entry |-> 0]
    /\ link = [next |-> [x \in Node |-> IF x \in List THEN x ELSE NullLink],
               prev |-> [x \in Node |-> IF x \in List THEN x ELSE NullLink]]
    /\ capacity = Capacity
    /\ request = NoRequest
    /\ held = {}
    /\ heads = {}

-----------------------------------------------------------------------------
(* Writing to several entries.  What the free member of the union holds is  *)
(* forgotten once it is dead.                                              *)

Entries(a, idx, n) == {<<a, i>> : i \in idx .. (idx + n - 1)}
Assign(f, S, v) == [x \in DOMAIN f |-> IF x \in S THEN v ELSE f[x]]
ForgetLinks(l, dead) == [next |-> Assign(l.next, dead, NullLink),
                         prev |-> Assign(l.prev, dead, NullLink)]

-----------------------------------------------------------------------------
(* allocate_page                                                           *)

First(c) == link.next[free_pages(c)]
IsEmpty(c) == First(c) = free_pages(c)

\* Mutant of Padding: the remainder of the end of the run, not of the index.
Padding_of_end(h, n, al) == (h[2] + n_pages[h] + MetadataNPages) % al

\* Where a run of n pages is cut from the free run that begins at entry h: at
\* its end, moved forward by the padding that the alignment asks for.
Padding(h, n, al) == (h[2] + n_pages[h] - n + MetadataNPages) % al
AlignedIdx(h, n, al) == h[2] + n_pages[h] - n - Padding(h, n, al)

\* try_allocate<AlignCheck>: only the first run of the list is examined.  The
\* index is unsigned, so one below 0 passes for a large one.
FitsAligned(c, n, al) ==
    /\ ~IsEmpty(c)
    /\ LET i == AlignedIdx(First(c), n, al) IN i >= First(c)[2] \/ i < 0

\* Mutant of Serves: the size is not raised by the alignment before the lookup.
Serves_without_margin(c, n, al) ==
    /\ c >= AllocClass[n]
    /\ ~IsEmpty(c)
    /\ \A d \in AllocClass[n] .. (c - 1) : IsEmpty(d)

\* Mutant of Serves: the larger classes are not searched.
Serves_one_class(c, n, al) ==
    /\ c = AllocClass[IF al # 1 /\ FitsAligned(AllocClass[n], n, al)
                      THEN n ELSE n + al - 1]
    /\ ~IsEmpty(c)

\* The class whose first run serves the request, if there is one.
Serves(c, n, al) ==
    IF al # 1 /\ FitsAligned(AllocClass[n], n, al)
    THEN c = AllocClass[n]
    ELSE /\ c >= AllocClass[n + al - 1]
         /\ ~IsEmpty(c)
         /\ \A d \in AllocClass[n + al - 1] .. (c - 1) : IsEmpty(d)

\* The body of try_allocate once it has decided for the first run of class c.
take_pages(c, n, al) ==
    LET h       == First(c)
        a       == h[1]
        idx     == AlignedIdx(h, n, al)
        padding == Padding(h, n, al)
        succ    == h[2] + n_pages[h]
        left    == idx - h[2]
        tail    == idx + n - 1
        padded  == IF padding = 0 THEN link
                   ELSE insert_next(link, free_pages(FreeClass[padding]),
                                    <<a, tail + 1>>)
        popped  == pop_front(padded, free_pages(c), h)
        taken   == Entries(a, idx, n)
        If(S, k) == IF k = 0 THEN {} ELSE S
    IN  /\ used' = Assign(Assign(used, If({<<a, tail + 1>>}, padding)
                                       \cup If({<<a, idx - 1>>}, left), FALSE),
                          {<<a, tail>>, <<a, idx>>}, TRUE)
        /\ n_pages' = Assign(Assign(Assign(n_pages, taken, 0),
                                    If({<<a, succ - 1>>, <<a, tail + 1>>}, padding), padding),
                             If({h, <<a, idx - 1>>}, left), left)
        /\ link' = ForgetLinks(
              IF left = 0 THEN popped
              ELSE insert_next(popped, free_pages(FreeClass[left]), h), taken)
        /\ capacity' = IF Accounted THEN capacity - n ELSE capacity
        /\ held' = held \cup {<<a, idx, n>>}
        /\ heads' = (heads \ {h}) \cup If({h}, left) \cup If({<<a, tail + 1>>}, padding)

\* Mutant of call_allocate_page: the capacity is compared with nothing.
call_allocate_page_unchecked(n, al) ==
    /\ request = NoRequest
    /\ request' = [n |-> n, align |-> al, fresh |-> FALSE]
    /\ UNCHANGED <<arenas, used, n_pages, link, capacity, held, heads>>

\* The call and check_capacity, which throws without touching the state.
call_allocate_page(n, al) ==
    /\ request = NoRequest
    /\ Accounted => capacity >= n
    /\ request' = [n |-> n, align |-> al, fresh |-> FALSE]
    /\ UNCHANGED <<arenas, used, n_pages, link, capacity, held, heads>>

allocate_page ==
    /\ request # NoRequest /\ ~request.fresh
    /\ \E c \in Class :
          /\ Serves(c, request.n, request.align)
          /\ take_pages(c, request.n, request.align)
    /\ request' = NoRequest
    /\ UNCHANGED arenas

NoRunServes ==
    /\ request # NoRequest /\ ~request.fresh
    /\ \A c \in Class : ~Serves(c, request.n, request.align)

\* The constructor of the arena: one free run, which is linked into the last
\* list.  The metadata pages are not accounted for: the code that did is
\* commented out.
construct_arena(a) ==
    /\ NoRunServes
    /\ a \notin arenas
    /\ arenas' = arenas \cup {a}
    /\ used' = Assign(Assign(used, {<<a, 0>>, <<a, DataNPages - 1>>}, FALSE),
                      {<<a, -1>>, <<a, DataNPages>>}, TRUE)
    /\ n_pages' = Assign(n_pages, {<<a, 0>>, <<a, DataNPages - 1>>}, DataNPages)
    /\ link' = insert_next(link, free_pages(NPageClasses - 1), <<a, 0>>)
    /\ heads' = heads \cup {<<a, 0>>}
    /\ UNCHANGED <<capacity, held>>

create(a) ==
    /\ construct_arena(a)
    /\ request' = [request EXCEPT !.fresh = TRUE]

\* SwappablePlainArena registers its pages with the local memory store after the
\* constructor above has run.  When that throws, bad_alloc leaves allocate_page,
\* and nothing unlinks the run or unmaps the arena.  (Its pages can be used and
\* given back as those of any other; what their region is worth is the matter
\* of LocalMemoryStore.)  PurelyLocalArena has nothing else to construct.
create_throws(a) ==
    /\ ~Accounted
    /\ construct_arena(a)
    /\ request' = NoRequest

\* mmap fails with ENOMEM, or what it mapped cannot be trimmed: bad_alloc leaves
\* allocate_page before the arena is constructed.
create_fails ==
    /\ NoRunServes
    /\ request' = NoRequest
    /\ UNCHANGED <<arenas, used, n_pages, link, capacity, held, heads>>

\* After create only the last list is tried; success is asserted.
FreshFits == ~IsEmpty(NPageClasses - 1)

allocate_page_fresh ==
    /\ request.fresh
    /\ FreshFits
    /\ take_pages(NPageClasses - 1, request.n, request.align)
    /\ request' = NoRequest
    /\ UNCHANGED arenas

-----------------------------------------------------------------------------
(* deallocate_page: coalesce with the free neighbours, successor first.    *)

NextFree(r) == ~used[<<r[1], r[2] + r[3]>>]
PrevFree(r) == ~used[<<r[1], r[2] - 1>>]
NextHead(r) == <<r[1], r[2] + r[3]>>

PrevHead(r) == <<r[1], r[2] - n_pages[<<r[1], r[2] - 1>>]>>

\* First page and length of the run that the freed run r becomes part of.
CoalescedIdx(r) == IF PrevFree(r) THEN PrevHead(r)[2] ELSE r[2]
\* Mutant of CoalescedLen: the length of the predecessor is left out.
CoalescedLen_without_prev(r) ==
    r[3] + (IF NextFree(r) THEN n_pages[NextHead(r)] ELSE 0)

CoalescedLen(r) == r[3] + (IF NextFree(r) THEN n_pages[NextHead(r)] ELSE 0)
                        + (IF PrevFree(r) THEN n_pages[PrevHead(r)] ELSE 0)
\* Mutant of IsWholeArena: compared with the size that includes the metadata.
IsWholeArena_with_metadata(r) ==
    CoalescedIdx(r) = 0 /\ CoalescedLen(r) = DataNPages + MetadataNPages

\* Mutant of IsWholeArena: only the beginning of the run is looked at.
IsWholeArena_from_start(r) == CoalescedIdx(r) = 0

IsWholeArena(r) == CoalescedIdx(r) = 0 /\ CoalescedLen(r) = DataNPages

\* The metadata pages that destroying an arena reclaims, although they were
\* never consumed: from the capacity here, from `occupied` in PlainSuballoc.
ReclaimedNPages(r) == IF IsWholeArena(r) THEN MetadataNPages ELSE 0

\* The links and the free runs once the neighbours are off their lists.
UnlinkedNext(r) == IF NextFree(r) THEN remove_from_list(link, NextHead(r))
                   ELSE link
Unlinked(r) == IF PrevFree(r) THEN remove_from_list(UnlinkedNext(r), PrevHead(r))
               ELSE UnlinkedNext(r)
OtherHeads(r) == heads \ ((IF NextFree(r) THEN {NextHead(r)} ELSE {})
                          \cup (IF PrevFree(r) THEN {PrevHead(r)} ELSE {}))

deallocate_page(r) ==
    /\ ~IsWholeArena(r)
    /\ LET h    == <<r[1], CoalescedIdx(r)>>
           n    == CoalescedLen(r)
           tail == <<r[1], CoalescedIdx(r) + n - 1>>
           free == insert_next(Unlinked(r), free_pages(FreeClass[n]), h)
           dead == Entries(h[1], h[2], n) \ {h}
       IN  /\ used' = Assign(used, {h, tail}, FALSE)
           /\ n_pages' = Assign(Assign(n_pages, dead, 0), {h, tail}, n)
           /\ link' = ForgetLinks(free, dead)
           /\ heads' = OtherHeads(r) \cup {h}
    /\ capacity' = IF Accounted THEN capacity + r[3] ELSE capacity
    /\ held' = held \ {r}
    /\ UNCHANGED <<arenas, request>>

\* The arena is destroyed and unmapped; mapped again, its memory is zero.
deallocate_page_unmap(r) ==
    /\ IsWholeArena(r)
    /\ arenas' = arenas \ {r[1]}
    /\ used' = Assign(used, {r[1]} \X Meta, FALSE)
    /\ n_pages' = Assign(n_pages, {r[1]} \X Meta, 0)
    /\ link' = ForgetLinks(Unlinked(r), {r[1]} \X Meta)
    /\ capacity' = IF Accounted THEN capacity + r[3] + ReclaimedNPages(r)
                   ELSE capacity
    /\ heads' = OtherHeads(r)
    /\ held' = held \ {r}
    /\ UNCHANGED request

-----------------------------------------------------------------------------
(* Callers ask for 1 .. MaxNPages pages, aligned at most to their size (the *)
(* size of a C++ object is a multiple of its alignment), and give back     *)
(* runs they hold.                                                         *)

Next ==
    \/ \E n \in 1 .. MaxNPages, al \in PageAligns : n >= al /\ call_allocate_page(n, al)
    \/ allocate_page
    \/ \E a \in Arena : create(a) \/ create_throws(a)
    \/ create_fails
    \/ allocate_page_fresh
    \/ /\ request = NoRequest
       /\ capacity <= MaxCapacity
       /\ \E r \in held : deallocate_page(r) \/ deallocate_page_unmap(r)

Spec == Init /\ [][Next]_vars
-----------------------------------------------------------------------------
(* Correctness.                                                            *)

FreeRuns == {<<h[1], h[2], n_pages[h]>> : h \in heads}
Runs == held \cup FreeRuns

TypeOK ==
    /\ arenas \subseteq Arena
    /\ used \in [Entry -> BOOLEAN]
    /\ n_pages \in [Entry -> 0 .. DataNPages]
    /\ link \in [next : [Node -> Node \cup {NullLink}],
                 prev : [Node -> Node \cup {NullLink}]]
    /\ capacity \in Int
    /\ request \in Request
    /\ held \subseteq Run
    /\ heads \subseteq Page
    /\ FreeRuns \subseteq Run

\* Allocated and free runs partition the data pages of every mapped arena:
\* nothing is handed out twice and no page is ever lost.
IsTiling(R, A) ==
    /\ \A r \in R : r[1] \in A /\ r[2] + r[3] <= DataNPages
    /\ \A r, s \in R : \A p \in Data :
          r[1] = s[1] /\ p \in RunPages(r) /\ p \in RunPages(s) => r = s
    /\ \A a \in A, p \in Data : \E r \in R : r[1] = a /\ p \in RunPages(r)
Tiled == IsTiling(Runs, arenas) /\ held \cap FreeRuns = {}

\* What deallocate_page reads at the entries beside a run is true: the last
\* entry before it and the first entry behind it say whether a free run ends or
\* begins there, and how long it is.
BoundaryTags ==
    /\ \A a \in arenas : used[<<a, -1>>] /\ used[<<a, DataNPages>>]
    /\ \A r \in held : used[<<r[1], r[2]>>] /\ used[<<r[1], r[2] + r[3] - 1>>]
    /\ \A h \in heads :
          LET tail == <<h[1], h[2] + n_pages[h] - 1>>
          IN  ~used[h] /\ ~used[tail] /\ n_pages[tail] = n_pages[h]

\* Free runs never lie side by side: each deallocation coalesces completely.
Coalesced ==
    \A r, s \in FreeRuns : r[1] = s[1] => r[2] + r[3] # s[2]

\* Arenas of which nothing is allocated.  There is one while a fresh arena waits
\* for its first run to be cut; a constructor that threw leaves one behind, which
\* the next request is served from.  Never are there two.
IdleArenas == {a \in arenas : \A r \in held : r[1] # a}
OneIdleArena ==
    /\ \A a, b \in IdleArenas : a = b
    /\ IdleArenas # {} => request.fresh \/ ~Accounted

\* The free lists hold every free run, each in the list of its class, once; at
\* most one of them is a whole arena, and that only between create and the cut,
\* or after a constructor of the swappable arena threw.
ListsExact ==
    /\ \A c \in Class :
          /\ WellLinked(link, free_pages(c), Cardinality(Page))
          /\ Elements(link, free_pages(c), Cardinality(Page))
                = {h \in heads : FreeClass[n_pages[h]] = c}
    /\ OneIdleArena

\* What of this an induction can use: following a pointer of a sentinel or of a
\* free run and then the opposite one leads back, and stays within the class.
ClassOf(x) == IF x \in List THEN x[2] ELSE FreeClass[n_pages[x]]
ListsLinked ==
    /\ LinkedOver(link, List \cup heads)
    /\ \A x \in List \cup heads : ClassOf(link.next[x]) = ClassOf(x)

\* A request in progress is one that a caller can make, and a fresh arena is in
\* the last list.
RequestOK ==
    \/ request = NoRequest
    \/ /\ request.n \in 1 .. MaxNPages
       /\ request.align \in PageAligns
       /\ request.n >= request.align
       /\ request.fresh => FreshFits

\* The inductive invariant behind the theorems of PlainPagesProofs.
IInv == TypeOK /\ Tiled /\ BoundaryTags /\ Coalesced /\ ListsLinked /\ RequestOK

\* try_allocate never cuts before the start of the run it has chosen, also
\* where it does not check (AlignCheck = false); after create it succeeds, as
\* the code asserts.
ServedRunFits ==
    request # NoRequest =>
       /\ request.fresh => FreshFits
       /\ \A c \in Class :
             (IF request.fresh THEN c = NPageClasses - 1 /\ FreshFits
              ELSE Serves(c, request.n, request.align))
             => AlignedIdx(First(c), request.n, request.align) >= First(c)[2]

\* A new arena is mapped only if no free run is as large as the class that the
\* request and its alignment are rounded up to.
MapsOnlyWhenNeeded ==
    [][\A a \in arenas' \ arenas, h \in heads :
          n_pages[h] < ClassSize[AllocClass[request.n + request.align - 1]]]_vars

\* An arena never falls idle: deallocate_page unmaps it with the last run of it
\* that was held, whatever free runs that one coalesces with.
NeverFallsIdle ==
    [][\A a \in arenas \cap arenas' : a \in IdleArenas' => a \in IdleArenas]_vars

\* Every run handed out has the length and the alignment that were asked for;
\* the address of a page counts the metadata pages before it.
HandsOutAsAsked ==
    [][\A r \in held' \ held :
          r[3] = request.n /\ (r[2] + MetadataNPages) % request.align = 0]_vars

\* The allocator implements the abstract heap: runs handed out lie in mapped
\* arenas and are disjoint, and arenas are unmapped only when empty.
Heap == INSTANCE ExtentHeap WITH
            Region <- Arena, Size <- DataNPages, mapped <- arenas, live <- held
ImplementsHeap == Heap!Spec

\* What the accounting is for: a PurelyLocal sub-allocator is never granted more
\* than the capacity it was constructed with (const orig_capacity).
CapacityWithinOriginal == Accounted => capacity <= Capacity
=============================================================================
