---------------------------- MODULE PlainSuballoc ----------------------------
(***************************************************************************)
(* PlainSuballocatorImplBase: allocate, deallocate and the destructor of   *)
(* the purely local and the swappable plain sub-allocator, on top of the   *)
(* page allocator of PlainPages.                                           *)
(*                                                                         *)
(* Small objects live in slabs: runs of pages cut into equal slots of one  *)
(* class.  Each class has at most one current slab, from which it          *)
(* allocates, and a list of the other slabs with free slots.  A null       *)
(* link.next means that a slab is full and in no list.  Medium objects are *)
(* runs of pages, large ones mappings of their own.                        *)
(*                                                                         *)
(* A call runs to completion before the next one, but it does so in steps  *)
(* (PlainPages!request) of which Arena::create can fail: call is the       *)
(* operation in progress.  Memory is counted in units, PageUnits per page. *)
(***************************************************************************)
EXTENDS PlainPages

CONSTANTS
    NAllocClasses,    \* number of small size classes
    SlotSize,         \* SizeClass::alloc_class_idx2size, in units
    SlabNPages,       \* SizeClass::alloc_class_idx2n_pages
    NSlots,           \* SizeClass::alloc_class_idx2n_slots
    WordBits,         \* bits of a word of SlabBitmap
    PageUnits,        \* PageSize, in units
    TwoPageClass,     \* the class of objects of exactly two pages
    MinMediumNPages,  \* the least medium size, in pages
    LargeNPages,      \* the size of large objects, in pages
    MaxLarge,         \* bound of the model on large objects at a time
    MaxLive,          \* bound of the model on small and medium objects
    SizeModulus,      \* size_t counts modulo this number
    MapMayFail,       \* whether Arena::create can throw
    Garbage           \* the link of a slab that no one has written yet

VARIABLES
    current_slabs,    \* head entry of the current slab of each class, or null
    slab_link,        \* metadata(i).slab.link and the sentinels non_full_slabs
    allocated,        \* metadata(i).slab.allocated: the bits that are set
    idx_in_slab,      \* metadata(i).slab.idx_in_slab
    call,             \* the operation in progress
    slabs,            \* auxiliary: head entry and class of every slab
    live,             \* auxiliary: small and medium objects of the callers
    large,            \* number of large objects
    occupied          \* custom.occupied, in units

subVars == <<current_slabs, slab_link, allocated, idx_in_slab, call, slabs,
             live, large, occupied>>
allVars == <<vars, subVars>>
pageVars == vars

AllocClasses == 0 .. NAllocClasses - 1
Medium       == -1
non_full_slabs(c) == <<"non_full_slabs", c>>
SlabList     == {"non_full_slabs"} \X AllocClasses
SlabNode     == SlabList \cup Page
NullSlab     == NullLink

\* class is the size in pages for a medium object and a counter in the destructor.
Idle         == [op |-> "idle", class |-> 0, align |-> 1]
Call         == [op : {"idle", "small", "replace", "medium", "dangling",
                       "destroy", "destroyed"},
                 class : Nat, align : PageAligns \cup {1}]

\* An object: arena, first unit, size in units, class (or Medium), alignment.
Object(a, unit, size, c, al) == <<a, unit, size, c, al>>

ASSUME SlabAssumption ==
    /\ NAllocClasses \in Nat \ {0}
    /\ PageUnits \in Nat \ {0} /\ WordBits \in Nat \ {0}
    /\ MinMediumNPages \in Nat \ {0} /\ LargeNPages \in Nat
    /\ SizeModulus \in Nat \ {0}
    /\ 1 \in PageAligns
    /\ \A c \in AllocClasses :
          /\ SlabNPages[c] \in 1 .. MaxNPages
          /\ NSlots[c] \in Nat \ {0}
          /\ SlotSize[c] \in Nat \ {0}
          /\ NSlots[c] * SlotSize[c] = SlabNPages[c] * PageUnits
    /\ TwoPageClass \in AllocClasses =>
          SlotSize[TwoPageClass] = 2 * PageUnits /\ NSlots[TwoPageClass] = 1
    /\ "non_full_slabs" \notin Arena
    /\ NullLink \notin SlabNode /\ Garbage \notin SlabNode /\ Garbage # NullLink

-----------------------------------------------------------------------------
(* Construction.                                                           *)

InitSub ==
    /\ current_slabs = [c \in AllocClasses |-> NullSlab]
    /\ slab_link = [next |-> [x \in SlabNode |-> IF x \in SlabList THEN x ELSE Garbage],
                    prev |-> [x \in SlabNode |-> IF x \in SlabList THEN x ELSE Garbage]]
    /\ allocated = [p \in Page |-> {}]
    /\ idx_in_slab = [p \in Page |-> 0]
    /\ call = Idle
    /\ slabs = {}
    /\ live = {}
    /\ large = 0
    /\ occupied = 0

InitAll == Init /\ InitSub

-----------------------------------------------------------------------------
(* Slabs and the addresses of their slots.                                 *)

SlabRun(p, c) == <<p[1], p[2], SlabNPages[c]>>
SlabEntries(p, c) == Entries(p[1], p[2], SlabNPages[c])

\* page_idx2head_ptr(idx) + alloc_class_idx2size(class_idx) * slot_idx
SlotObject(p, c, slot, al) ==
    Object(p[1], p[2] * PageUnits + slot * SlotSize[c], SlotSize[c], c, al)

\* Mutant of FreeSlots: one slot too many in the last word.
FreeSlots_one_more(p, c) == (0 .. NSlots[c]) \ allocated[p]

\* SlabBitmap::find_unset_and_set takes the lowest free slot, if there is one.
FreeSlots(p, c) == (0 .. NSlots[c] - 1) \ allocated[p]
LowestFree(p, c) == CHOOSE s \in FreeSlots(p, c) :
                       \A t \in FreeSlots(p, c) : s <= t

\* In a word that the slots do not fill it also sets the bits behind the last
\* slot, which the constructor of the bitmap and flip leave alone.
WordsFilled(c) == NSlots[c] % WordBits = 0
SpareBits(c) == {b \in NSlots[c] .. NSlots[c] + WordBits :
                    b \div WordBits = NSlots[c] \div WordBits}
SetSlot(p, c) ==
    LET slot == LowestFree(p, c)
    IN  [allocated EXCEPT ![p] = @ \cup {slot} \cup
            IF slot \div WordBits = NSlots[c] \div WordBits THEN SpareBits(c) ELSE {}]

\* Alignment > PageSize is only instantiated for objects of two pages; the
\* data pages of an arena begin MetadataNPages behind an aligned address.
Misplaced(p, al) == al > 1 /\ (p[2] + MetadataNPages) % 2 # 0

\* The slab's union member is gone when its pages become free: the model
\* forgets the contents, so that no later step can depend on them.
ForgetSlab(p, c) ==
    /\ allocated' = Assign(allocated, {p}, {})
    /\ idx_in_slab' = Assign(idx_in_slab, SlabEntries(p, c), 0)
    /\ slabs' = slabs \ {<<p, c>>}

FreePagesOf(r) == deallocate_page(r) \/ deallocate_page_unmap(r)

\* custom.occupy_space and reclaim_space: no-ops of SwappablePlainCustom.
occupy_space(units) ==
    occupied' = IF Accounted THEN (occupied + units) % SizeModulus ELSE occupied
reclaim_space(units) ==
    occupied' = IF Accounted THEN (occupied - units) % SizeModulus ELSE occupied

HasCurrent(c) == current_slabs[c] # NullSlab

\* Between the return of the pages of a misplaced slab and its replacement, and
\* in the destructor, current_slabs names pages that have been freed already.
Stale(c) ==
    \/ call.op \in {"replace", "dangling"} /\ call.class = c
    \/ call.op = "destroy" /\ c < call.class
    \/ call.op = "destroyed"

-----------------------------------------------------------------------------
(* allocate of a small object.                                             *)

CurrentHasSlot(c) == HasCurrent(c) /\ FreeSlots(current_slabs[c], c) # {}

\* static_assert: what is aligned to more than a page is two pages, aligned to two.
SmallAligns(c) == IF c = TwoPageClass THEN PageAligns \cap {1, 2} ELSE {1}

allocate_from_current(c, al) ==
    /\ call = Idle
    /\ CurrentHasSlot(c)
    /\ LET p == current_slabs[c]
       IN  /\ ~Misplaced(p, al)
           /\ allocated' = SetSlot(p, c)
           /\ live' = live \cup {SlotObject(p, c, LowestFree(p, c), al)}
    /\ occupy_space(SlotSize[c])
    /\ UNCHANGED <<pageVars, current_slabs, slab_link, idx_in_slab, call, slabs,
                   large>>

\* The empty current slab lies on an odd page: its pages are given back and a
\* slab on an even page is asked for.  current_slabs still names the old one.
replace_misplaced(c, al) ==
    /\ call = Idle
    /\ CurrentHasSlot(c)
    /\ LET p == current_slabs[c]
       IN  /\ Misplaced(p, al)
           /\ FreePagesOf(<<p[1], p[2], 2>>)
           /\ reclaim_space(ReclaimedNPages(<<p[1], p[2], 2>>) * PageUnits)
           /\ ForgetSlab(p, c)
    /\ call' = [op |-> "replace", class |-> c, align |-> al]
    /\ UNCHANGED <<current_slabs, slab_link, live, large>>

\* Mutant of RetiredLinks: a full slab is retired without its mark.
RetiredLinks_unmarked(c) == slab_link

\* current->link.next = nullptr when the current slab turns out to be full.
RetiredLinks(c) ==
    IF HasCurrent(c) THEN [slab_link EXCEPT !.next[current_slabs[c]] = NullSlab]
    ELSE slab_link
FirstNonFull(c) == RetiredLinks(c).next[non_full_slabs(c)]

\* The front of the list becomes the current slab.  Its page is not checked
\* here for the alignment.
allocate_from_list(c, al) ==
    /\ call = Idle
    /\ ~CurrentHasSlot(c)
    /\ FirstNonFull(c) # non_full_slabs(c)
    /\ LET p == FirstNonFull(c)
       IN  /\ slab_link' = pop_front(RetiredLinks(c), non_full_slabs(c), p)
           /\ current_slabs' = [current_slabs EXCEPT ![c] = p]
           /\ allocated' = SetSlot(p, c)
           /\ live' = live \cup {SlotObject(p, c, LowestFree(p, c), al)}
    /\ occupy_space(SlotSize[c])
    /\ UNCHANGED <<pageVars, idx_in_slab, call, slabs, large>>

need_new_slab(c, al) ==
    /\ call = Idle
    /\ ~CurrentHasSlot(c)
    /\ FirstNonFull(c) = non_full_slabs(c)
    /\ slab_link' = RetiredLinks(c)
    /\ call' = [op |-> "small", class |-> c, align |-> al]
    /\ UNCHANGED <<pageVars, current_slabs, allocated, idx_in_slab, slabs, live,
                   large, occupied>>

\* The call of allocate_page by a small or a medium allocation in progress.
CallNPages == IF call.op = "medium" THEN call.class ELSE SlabNPages[call.class]
ask_pages ==
    /\ call.op \in {"small", "replace", "medium"}
    /\ call_allocate_page(CallNPages, call.align)
    /\ UNCHANGED subVars

\* check_capacity throws bad_alloc out of allocate.
ask_pages_throws ==
    /\ call.op \in {"small", "replace", "medium"}
    /\ request = NoRequest
    /\ Accounted /\ capacity < CallNPages
    /\ call' = Idle
    /\ UNCHANGED <<pageVars, current_slabs, slab_link, allocated, idx_in_slab,
                   slabs, live, large, occupied>>

map_arena(a) == create(a) /\ UNCHANGED subVars

\* bad_alloc leaves allocate, from the mapping of the arena or from its
\* constructor.  If the pages of a misplaced slab have been given back by then,
\* current_slabs is left dangling and whatever the next call does with it is
\* undefined: the model stops there.
map_arena_throws ==
    /\ MapMayFail
    /\ create_fails \/ \E a \in Arena : create_throws(a)
    /\ call' = IF Stale(call.class) THEN [call EXCEPT !.op = "dangling"] ELSE Idle
    /\ UNCHANGED <<current_slabs, slab_link, allocated, idx_in_slab, slabs, live,
                   large, occupied>>

\* Pages for a new current slab: its bitmap has the first slot set, its link
\* is not initialised, every page knows its distance from the first one.
finish_small ==
    /\ call.op \in {"small", "replace"}
    /\ allocate_page \/ allocate_page_fresh
    /\ \E r \in held' \ held :
          LET p == <<r[1], r[2]>>
              c == call.class
          IN  /\ allocated' = [allocated EXCEPT ![p] = {0}]
              /\ slab_link' = [slab_link EXCEPT !.next[p] = Garbage,
                                                !.prev[p] = Garbage]
              /\ idx_in_slab' = [q \in Page |-> IF q \in SlabEntries(p, c)
                                                THEN q[2] - p[2]
                                                ELSE idx_in_slab[q]]
              /\ current_slabs' = [current_slabs EXCEPT ![c] = p]
              /\ slabs' = slabs \cup {<<p, c>>}
              /\ live' = live \cup {SlotObject(p, c, 0, call.align)}
              /\ occupy_space(SlotSize[c])
    /\ call' = Idle
    /\ UNCHANGED large

-----------------------------------------------------------------------------
(* allocate of medium and large objects.  A large one has a mapping of its *)
(* own, of which only the accounting is modelled.                          *)

allocate_medium(n, al) ==
    /\ call = Idle
    /\ call' = [op |-> "medium", class |-> n, align |-> al]
    /\ UNCHANGED <<pageVars, current_slabs, slab_link, allocated, idx_in_slab,
                   slabs, live, large, occupied>>

finish_medium ==
    /\ call.op = "medium"
    /\ allocate_page \/ allocate_page_fresh
    /\ \E r \in held' \ held :
          /\ live' = live \cup {Object(r[1], r[2] * PageUnits, r[3] * PageUnits,
                                       Medium, call.align)}
          /\ occupy_space(r[3] * PageUnits)
    /\ call' = Idle
    /\ UNCHANGED <<current_slabs, slab_link, allocated, idx_in_slab, slabs, large>>

PageStateButCapacity == <<arenas, used, n_pages, link, request, held, heads>>

\* Capacity and space are consumed before the memory is mapped ...
allocate_large ==
    /\ call = Idle
    /\ Accounted => capacity >= LargeNPages
    /\ capacity' = IF Accounted THEN capacity - LargeNPages ELSE capacity
    /\ large' = large + 1
    /\ occupy_space(LargeNPages * PageUnits)
    /\ UNCHANGED <<PageStateButCapacity, current_slabs, slab_link, allocated,
                   idx_in_slab, call, slabs, live>>

\* ... and not given back when the mapping fails.
allocate_large_throws ==
    /\ MapMayFail
    /\ call = Idle
    /\ Accounted /\ capacity >= LargeNPages
    /\ capacity' = capacity - LargeNPages
    /\ occupy_space(LargeNPages * PageUnits)
    /\ UNCHANGED <<PageStateButCapacity, current_slabs, slab_link, allocated,
                   idx_in_slab, call, slabs, live, large>>

-----------------------------------------------------------------------------
(* deallocate.                                                             *)

\* Mutant of SlabOf: the page of the object is taken for the first of its slab.
SlabOf_own_page(o) == <<o[1], o[2] \div PageUnits>>

\* The slab and the slot of an object, from its address and its size class.
SlabOf(o) ==
    LET i == o[2] \div PageUnits
    IN  <<o[1], i - idx_in_slab[<<o[1], i>>]>>

SlotOf(o) == (o[2] - SlabOf(o)[2] * PageUnits) \div SlotSize[o[4]]
Flip(S, s) == IF s \in S THEN S \ {s} ELSE S \cup {s}

\* The bits of the slab without the object, and whether its pages go back.
BitsWithout(o) == Flip(allocated[SlabOf(o)], SlotOf(o))

\* Mutant of Emptied: the current slab gives its pages back as well.
Emptied_current(o) == BitsWithout(o) = {}

\* Mutant of Emptied: a slab that was full, and is in no list, is not looked at.
Emptied_listed(o) ==
    /\ SlabOf(o) # current_slabs[o[4]] /\ BitsWithout(o) = {}
    /\ slab_link.next[SlabOf(o)] # NullSlab

Emptied(o) == SlabOf(o) # current_slabs[o[4]] /\ BitsWithout(o) = {}

\* The slab keeps objects, or it is current and is kept although it is empty.
deallocate_small(o) ==
    /\ ~Emptied(o)
    /\ LET p == SlabOf(o)
           c == o[4]
       IN  /\ allocated' = [allocated EXCEPT ![p] = BitsWithout(o)]
           /\ slab_link' =
                 IF p # current_slabs[c] /\ slab_link.next[p] = NullSlab
                 THEN insert_prev(slab_link, non_full_slabs(c), p)
                 ELSE slab_link
    /\ reclaim_space(SlotSize[o[4]])
    /\ UNCHANGED <<pageVars, current_slabs, idx_in_slab, slabs>>

\* The last object of a slab that is not current: the pages go back.
deallocate_small_last(o) ==
    LET p == SlabOf(o)
        c == o[4]
    IN  /\ Emptied(o)
        /\ LET unlinked == IF slab_link.next[p] # NullSlab
                           THEN remove_from_list(slab_link, p) ELSE slab_link
           IN  slab_link' = [next |-> Assign(unlinked.next, {p}, Garbage),
                             prev |-> Assign(unlinked.prev, {p}, Garbage)]
        /\ FreePagesOf(SlabRun(p, c))
        /\ reclaim_space(SlotSize[c] + ReclaimedNPages(SlabRun(p, c)) * PageUnits)
        /\ ForgetSlab(p, c)
        /\ UNCHANGED current_slabs

\* Mutant of MediumRun: the last page is not given back.
MediumRun_too_short(o) == <<o[1], o[2] \div PageUnits, o[3] \div PageUnits - 1>>

MediumRun(o) == <<o[1], o[2] \div PageUnits, o[3] \div PageUnits>>
deallocate_medium(o) ==
    /\ FreePagesOf(MediumRun(o))
    /\ reclaim_space(o[3] + ReclaimedNPages(MediumRun(o)) * PageUnits)
    /\ UNCHANGED <<current_slabs, slab_link, allocated, idx_in_slab, slabs>>

deallocate(o) ==
    /\ call = Idle
    /\ capacity <= MaxCapacity
    /\ IF o[4] = Medium THEN deallocate_medium(o)
       ELSE deallocate_small(o) \/ deallocate_small_last(o)
    /\ live' = live \ {o}
    /\ UNCHANGED <<call, large>>

deallocate_large ==
    /\ call = Idle
    /\ large > 0
    /\ capacity' = IF Accounted THEN capacity + LargeNPages ELSE capacity
    /\ large' = large - 1
    /\ reclaim_space(LargeNPages * PageUnits)
    /\ UNCHANGED <<PageStateButCapacity, current_slabs, slab_link, allocated,
                   idx_in_slab, call, slabs, live>>

-----------------------------------------------------------------------------
(* The destructor, once the callers have given everything back: the pages  *)
(* of the current slabs are freed class by class, call.class counts.       *)

destroy ==
    /\ call = Idle
    /\ live = {} /\ large = 0
    /\ call' = [Idle EXCEPT !.op = "destroy"]
    /\ UNCHANGED <<pageVars, current_slabs, slab_link, allocated, idx_in_slab,
                   slabs, live, large, occupied>>

destroy_class ==
    /\ call.op = "destroy"
    /\ call.class < NAllocClasses
    /\ IF HasCurrent(call.class)
       THEN LET r == SlabRun(current_slabs[call.class], call.class)
            IN  /\ FreePagesOf(r)
                /\ reclaim_space(ReclaimedNPages(r) * PageUnits)
                /\ slabs' = slabs \ {<<current_slabs[call.class], call.class>>}
       ELSE UNCHANGED <<pageVars, slabs, occupied>>
    /\ call' = [call EXCEPT !.class = @ + 1]
    /\ UNCHANGED <<current_slabs, slab_link, allocated, idx_in_slab, live, large>>

destroyed ==
    /\ call.op = "destroy"
    /\ call.class = NAllocClasses
    /\ call' = [Idle EXCEPT !.op = "destroyed"]
    /\ UNCHANGED <<pageVars, current_slabs, slab_link, allocated, idx_in_slab,
                   slabs, live, large, occupied>>

\* Nothing follows the destructor, nor a call that left a slab dangling.
gone == call.op \in {"destroyed", "dangling"} /\ UNCHANGED allVars

-----------------------------------------------------------------------------
NextAll ==
    \/ /\ Cardinality(live) < MaxLive
       /\ \/ \E c \in AllocClasses : \E al \in SmallAligns(c) :
                \/ allocate_from_current(c, al)
                \/ replace_misplaced(c, al)
                \/ allocate_from_list(c, al)
                \/ need_new_slab(c, al)
          \/ \E n \in MinMediumNPages .. MaxNPages, al \in PageAligns :
                n >= al /\ allocate_medium(n, al)
    \/ ask_pages
    \/ ask_pages_throws
    \/ \E a \in Arena : map_arena(a)
    \/ map_arena_throws
    \/ finish_small
    \/ finish_medium
    \/ large < MaxLarge /\ (allocate_large \/ allocate_large_throws)
    \/ \E o \in live : deallocate(o)
    \/ deallocate_large
    \/ destroy
    \/ destroy_class
    \/ destroyed
    \/ gone

SpecAll == InitAll /\ [][NextAll]_allVars
-----------------------------------------------------------------------------
(* Correctness.                                                            *)

TypeOKAll ==
    /\ TypeOK
    /\ current_slabs \in [AllocClasses -> Page \cup {NullSlab}]
    /\ slab_link \in [next : [SlabNode -> SlabNode \cup {NullSlab, Garbage}],
                      prev : [SlabNode -> SlabNode \cup {NullSlab, Garbage}]]
    /\ \A p \in Page : allocated[p] \subseteq Nat /\ idx_in_slab[p] \in Nat
    /\ call \in Call
    /\ \A o \in live : o[4] \in AllocClasses \cup {Medium}
    /\ occupied \in 0 .. SizeModulus - 1

Current(c) == IF Stale(c) THEN NullSlab ELSE current_slabs[c]

SlabsOf(c) == {x[1] : x \in {y \in slabs : y[2] = c}}
ObjectsIn(p, c) == {o \in live : /\ o[1] = p[1] /\ o[4] = c
                                 /\ o[2] \div PageUnits \in RunPages(SlabRun(p, c))}

\* Every run of pages held is one slab or one medium object, and conversely:
\* pages are neither lost nor used twice.  A current slab is a slab.
RunsOwned ==
    /\ TypeOKAll
    /\ held = {MediumRun(o) : o \in {m \in live : m[4] = Medium}}
              \cup {SlabRun(x[1], x[2]) : x \in slabs}
    /\ Cardinality(held) = Cardinality(slabs)
                           + Cardinality({o \in live : o[4] = Medium})
    /\ \A c \in AllocClasses : Current(c) # NullSlab => Current(c) \in SlabsOf(c)

\* The bits of the slots of a slab are set exactly where there is an object, and
\* every page of a slab leads back to its first page.  A slab without objects is
\* kept only while it is current, or when bits behind the last slot, which only a
\* word that the slots do not fill has, make it look as if it were in use.
BitmapsExact ==
    \A x \in slabs :
       LET p == x[1]
           c == x[2]
       IN  /\ {o[2] : o \in ObjectsIn(p, c)}
                 = {SlotObject(p, c, s, 1)[2] : s \in allocated[p] \ SpareBits(c)}
           /\ \A q \in SlabEntries(p, c) : idx_in_slab[q] = q[2] - p[2]
           /\ \/ p = Current(c)
              \/ ObjectsIn(p, c) # {}
              \/ ~WordsFilled(c) /\ allocated[p] \cap SpareBits(c) # {}

\* The list of a class holds exactly its slabs that are neither current nor
\* full; a null next pointer marks the full ones.
NonFullListsExact ==
    \A c \in AllocClasses :
       LET others == SlabsOf(c) \ {Current(c)}
           full   == {p \in others : FreeSlots(p, c) = {}}
       IN  /\ WellLinked(slab_link, non_full_slabs(c), Cardinality(Page))
           /\ Elements(slab_link, non_full_slabs(c), Cardinality(Page)) = others \ full
           /\ \A p \in others : slab_link.next[p] = NullSlab <=> p \in full

\* Objects lie on the multiple of the alignment, in pages, that was asked for.
ObjectsAligned ==
    \A o \in live : (MetadataNPages * PageUnits + o[2]) % (o[5] * PageUnits) = 0
                    \/ o[5] = 1

\* What is left when the sub-allocator is destroyed after everything was given
\* back: slabs that bits behind the last slot kept from being returned, and of
\* the arenas only those in which such slabs lie and at most one that an arena
\* constructor left behind when it threw.
OnlySpareLeft ==
    call.op = "destroyed" =>
       /\ held = {SlabRun(x[1], x[2]) : x \in slabs}
       /\ \A x \in slabs : /\ ~WordsFilled(x[2])
                           /\ allocated[x[1]] # {}
                           /\ allocated[x[1]] \subseteq SpareBits(x[2])
       /\ \A a, b \in IdleArenas : a = b
       /\ IdleArenas # {} => ~Accounted

\* Objects are disjoint and lie in mapped arenas.
ObjectHeap == INSTANCE ExtentHeap WITH
                  Region <- Arena, Size <- DataNPages * PageUnits,
                  mapped <- arenas, live <- {<<o[1], o[2], o[3]>> : o \in live}
ImplementsObjectHeap == ObjectHeap!Spec

\* allocate and deallocate are proper callers of the page allocator: they only
\* give back runs that they hold (also beyond the bound MaxCapacity, which cuts
\* Next short), and ask for one run at a time.  A large object is none of its
\* business: it changes the capacity, and nothing else.
GivesBackHeld == request = NoRequest /\ \E r \in held : FreePagesOf(r)
OnlyCapacity  == Accounted /\ call = Idle /\ UNCHANGED PageStateButCapacity
CallsPagesProperly == [][Next \/ GivesBackHeld \/ OnlyCapacity]_vars

\* The capacity, a size_t, is never consumed below zero.
CapacityNotExceeded == capacity >= 0
=============================================================================
