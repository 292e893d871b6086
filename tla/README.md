# Verification of collective_farmalloc

This directory holds TLA+ models of the far-memory allocator in `src/`, the TLC
configurations that check them on small instances, and theorems about eight of
the allocator's parts that TLAPS proves for all instances. The models cover the allocator
from the page metadata up to the containers that are built on it. `PROJECT.json` lists the
components, the runs, the lines every definition models, the hazards and the
theorems.

The repository is header-only C++ without tests. Nothing in it starts a thread:
every object is used by one thread at a time. What makes the code hard is
therefore not interleaving but *long sequences of legal calls*: intrusive lists
whose null pointers carry meaning, boundary tags in memory that is reused, unsigned
counters, and calls that throw half way.

## 1. Inventory

| Component | Source | State | Operations |
|---|---|---|---|
| Size classes | `size_class.hpp` | constexpr tables | `alloc_size2class_idx`, `alloc_class_idx2{size,n_pages,n_slots}`, `page_{alloc,free}_size2class_idx` |
| Mapping | `aligned_mmap.hpp` | none (the kernel) | `AlignedMMap` maps twice the size and trims, `MUnmap` |
| Intrusive lists | `plain_suballoc_page_metadata.*` | `next`, `prev` in the nodes, sentinels | `insert_next`, `insert_prev`, `remove_from_list` |
| Bitmaps | `plain_suballoc_page_metadata.ipp:15-54`, `per-page_suballocator.ipp:56-127` | words of a slab or of an arena | `find_unset_and_set`, `flip`, `is_empty`; `find_free_and_allocate`, `free` |
| Page allocator | `plain_suballoc.ipp:35-199` | per arena: page metadata (used, run length, links); free list per page class; `capacity` of the custom | `allocate_page`, `deallocate_page`, `Arena::create` |
| Plain sub-allocators | `plain_suballoc.ipp:200-312`, `purely-local_*`, `swappable_plain_*` | current slab and list of non-full slabs per class, bitmaps, `occupied` | `allocate`, `deallocate`, destructor, `is_occupancy_under` |
| Per-page sub-allocator, block | `per-page_suballocator.ipp:129-240` | circular list of free pieces inside the block, `freep`, `usage` | `initialize`, `allocate`, `deallocate` |
| Per-page sub-allocator, arenas | `per-page_suballocator.ipp:56-127, 250-301` | arenas with bitmap and count, current arena, list of non-full arenas | `allocate_block`, `deallocate_block`, destructor |
| Hint allocator | `hint_allocator.*` | blocks as above, current block and arena, lists of non-full blocks and arenas, `ref_count` | `allocate` with and without hint, `deallocate`, `shallow_copy`, `dec_ref` |
| Local memory store | `local_memory_store.*` | table of mappings, `far_memory_mode`, a copy of every mapping | `umap`, `uunmap`, `mode_change`, `read_from_store`, `write_to_store` |
| Collective allocator | `collective_allocator.*` | one purely local, one swappable and any number of per-page sub-allocators, reference count | dispatch on the address, `contains`, `get_suballocator`, `is_occupancy_under` |
| Allocator traits | `farmalloc_abst/.../collective_allocator_traits.hpp` | none | `batch_allocate`, `relocate` with rollback, `get_suballocator`, `if_suballocator_contains` |
| Blocked containers | `far_memory_container/blocked/*` | a tree or list whose nodes lie in local memory (a prefix in breadth-first order, or in the order of levels) or far | `insert`, `erase`, `find`, `clear`, `batch_block`, `batch_vEB`, iterators |
| Page-aware containers | `far_memory_container/page_aware/*` | the same without local memory: a new node goes to the block of its parent or neighbour | the same |
| Baseline containers | `far_memory_container/baseline/*` | the same without sub-allocators: a new node is allocated with a hint | `insert`, `erase`, `find`, `clear`, `batch_block` |
| Utilities | `util/*`, `aligned_buffer.hpp` | none | type aliases |
| umap | submodule, empty | page faults and their handler | external |

How they interact. A container asks the traits for memory; the traits ask the
collective allocator, which hands the call to one of its sub-allocators by template
argument when memory is allocated and by the bits of the address when it is freed. The
plain sub-allocators cut objects out of slabs, slabs out of runs of pages, and runs
out of arenas mapped by `AlignedMMap`. Swappable and per-page arenas register their
data pages with the local memory store, which copies them between ordinary memory
and `umap` when the mode changes. All of these are synchronous calls; the only
"messages" are the return values and the exceptions (`bad_alloc`) that leave a call
before its end.

Hard behaviours, and what makes each component correct:

* **Page allocator.** Splitting with padding on both sides, coalescing through
  boundary tags, unmapping the arenas that become idle, an exception between two searches.
  Correct when allocated and free runs tile every arena, the tags beside every run are
  true, every free run is in the list of its class once, no arena falls idle (at
  most one is, left behind by an arena constructor that threw), and the run that serves a request never begins behind the place where it is cut.
* **Slabs.** A slab is current, listed, full or free, and only `link.next == nullptr`
  tells full from listed. Correct when lists, marks and bitmaps agree with the objects
  of the callers and every page run belongs to exactly one owner.
* **Blocks.** Next-fit over a circular list that is sorted by address; both loops end
  only because the list leads back to where they began.
* **Block arenas.** The same marks as slabs, plus a mapping that throws after the
  current arena has been marked.
* **Bitmaps and size classes.** Arithmetic at the borders of words and classes.
* **Hint allocator.** Blocks and arenas change between current, listed and full by
  two different paths, only one of which maintains the marks.
* **Local memory store.** Objects must survive any number of mode changes, also one
  that fails in the middle.
* **Collective allocator.** Handles are copied, moved and assigned; addresses alone say
  where an object belongs, so three files have to agree on the bits.
* **Traits.** Undoing the first part of a batch when a later part throws.
* **Containers.** A call of `insert` or `erase` moves other nodes than the one it is
  about, to keep local memory full of the nodes that come first; every variable that
  holds an address across such a move must be corrected. Correct when the container is
  the map it claims to be, no node is lost, and the local nodes stay a prefix.

The `hazards` of `PROJECT.json` name each of these at its line.

## 2. Modules

| Module | Models | Theorems |
|---|---|---|
| `ExtentHeap` | what every allocator promises: extents handed out are disjoint and inside mapped regions; a region is unmapped only when empty | |
| `IntrusiveList` | the list operations, pointer by pointer, stale pointers included | `IntrusiveListProofs` |
| `PlainPages` | the page allocator; refines `ExtentHeap` | `PlainPagesProofs` |
| `PlainSuballoc` | slabs, medium and large objects, destructor, both customs; EXTENDS `PlainPages` and calls its actions; refines `ExtentHeap` | `PlainSuballocProofs` |
| `KRBlock` | the inside of a block, one loop iteration per step | `KRBlockProofs` |
| `PerPageArenas` | blocks and arenas of the per-page sub-allocator; refines `ExtentHeap` | `PerPageArenasProofs` |
| `HintAlloc` | blocks and arenas of the hint allocator, with both lists; refines `ExtentHeap` | `HintAllocProofs` |
| `SizeClass` | all tables, with the constants of the code | |
| `SlabBitmap` | both bitmaps in word arithmetic, words of `W` bits | |
| `LocalMemoryStore` | the table of mappings, the mode, the stores, paging by umap, and the arenas and large objects that register | `LocalMemoryStoreProofs` |
| `CollectiveAllocator` | handles and reference counts, `AlignedMMap`, dispatch by address | `CollectiveAllocatorProofs` |
| `Relocation` | `batch_allocate` and `relocate`, one step per part, with a failure at each | `CollectiveAllocatorProofs` |
| `OrderedMap` | what every container promises: a set of keys, and the answers of its calls | |
| `NodeStore` | memory as the containers see it through the traits: local, plain, blocks | |
| `BlockedBTree`, `BlockedSkiplist` | the blocked containers; refine `OrderedMap` | |
| `PageAwareBTree`, `PageAwareSkiplist` | the page-aware containers; refine `OrderedMap` | |
| `MCPlainPages`, `MCPlainSuballoc`, `MCHintAlloc` | values of the constants, symmetry and views for TLC | |
| `MCParts`, `MCPlacement` | several parts side by side, see below | |

### Correspondence with the code

**Memory.** An entry of `metadata(i)` is a pair of arena and index, from -1 to
`DataNPages` as in the code; `used`, `n_pages` and `link` are functions on entries (in
`link` also on the sentinels `free_pages[c]`). `n_pages` and the links share a union
with slab data, so what they hold in the middle of a run is garbage: the model resets
them to 0 and null there, and since null is no node every use of one would be a TLC
error. `used` is outside the union and keeps its stale values, as in the code.
`held` and `heads` are auxiliary variables: the runs the callers own and the entries
where free runs begin; no guard reads `heads`, and `held` only says what a caller can
give back.

**Calls.** A call of `allocate_page` is `call_allocate_page` (with `check_capacity`),
then `allocate_page` if a list serves it, else `create` and `allocate_page_fresh`, or
`bad_alloc`: from `create_fails` when nothing was mapped, from `create_throws` when the constructor of
`SwappablePlainArena` throws after that of its base has filed the pages of the arena (`construct_arena`), which
then stays mapped and listed. The call is cut there because this is where it can fail,
not because anything could come between. `deallocate_page` is one action, in two
variants: the run is filed, or its arena is unmapped.

**Slabs.** `PlainSuballoc` extends this with `call`, the operation of the
sub-allocator in progress, whose page requests are steps of `PlainPages`.
`CallsPagesProperly` says just that: every step that writes to pages is a step of `PlainPages`, with
two exceptions that the bounds of that module make. Pages that are held may be given back where `capacity`
then passes `MaxCapacity` (`GivesBackHeld`), and a large object changes nothing but `capacity`
(`OnlyCapacity`). `link.next` of a slab that nobody has
initialised is the model value `garbage`, and reading it would be noticed. When
`Arena::create` throws after the pages of a misplaced slab have been returned,
`current_slabs` dangles; what the next call would do is undefined and the model stops
(`call.op = "dangling"`).

**Blocks.** In `KRBlock` everything is counted in free headers, to which the code
rounds sizes up. The loops of `allocate` and `deallocate` take a step per iteration;
`op` holds their local variables. A header overwritten by an object reads as `data`.

**Hint allocator.** `HintAlloc` counts the objects of a block; the bytes inside are the
business of `KRBlock`, whose code is the same. A block that holds something and is not
full may serve a request or refuse it. An action is a whole call of `allocate` or
`deallocate`, one per way through it. `broken` marks the first step at which the code
would use links of an arena that do not hold (see the findings): it would follow null
pointers or pointers to unmapped arenas from there, so the model stops.

**Local memory store.** A region (an arena or a large object) is one page with one
value, in `memory` and in the store behind it (`backing_data`), either of which may be
absent. `fill` and `evict` are the callbacks that umap makes at any moment for the
regions it serves, which is the one source of concurrency in the system: umap's own
threads page while the program runs and while `mode_change` goes from mapping to
mapping. `create_region` comes in three variants, since the constructor of an arena links the
arena into its list in the base class and may throw after that
(`create_without_store`, `create_without_umap`). `undefined` marks that a store is destroyed that
was never constructed, `torn` that a `mode_change` failed half way; the model goes on
after the latter, without the promise that contents survive.

**Collective allocator.** Addresses are small numbers and masks are divisions. A
mapping of `AlignedMMap` may begin at any of `MMapHeads`; subtraction wraps as `uintptr_t`
does. `mapped` is the kernel's side, and `lost` what is mapped and referred to by nobody
after a failed `munmap`; the actions `AlignedMMap`, `AlignedMMap_fails` and `MUnmap` are the
calls from the constructors and destructors of arenas and large objects. `pimpl[h]` is null in a handle that was moved from.

**Relocation.** The recursion over the requests is one step per request, down with
`allocate_part` and `move_part`, and back with `give_back_part`, `move_back` and `free_old`. Memory may
run out, and the function that moves a part may throw, at any of them.

**Containers.** A container is one record, `tree` or `list`: its members and its nodes. A
recursive function of the code is a recursive operator that returns the record after
it, together with what the function returns (the record `r` of `insert_step`: `result`,
`new_child`, `pushed_up`). An action is a whole call; nothing comes between. An address is a
pair of a sub-allocator and a number, so that `get_suballocator(ptr)` is its first part; memory that
has been freed is reused at once, as happens in the code, so that a stale address can
name another node. A node without children has the empty sequence for an array of null
pointers. The header is `<<0, 0>>` in every container; in the page-aware ones, where it
lies in plain memory, that address is only its name. `last_call` records call, key and
answer for `OrderedMap`, `returned` the iterator. What purely local memory and blocks can
hold is counted in nodes (`local_room`, `node_size`, `BlockSize`) or, in the skip lists where nodes
differ in size, in units of one per node and one per link (`local_units`, `BlockUnits`). The level of a new
skip list node, drawn at random in the code, is any level.

`PageAwareBTree` and `PageAwareSkiplist` take from the blocked modules (`Blocked!`) what is the same
text in both files: search, `Halves` of a split, iterators, placement in a block.

**Arithmetic.** Unsigned differences that can go below zero are modelled as the
code's comparison sees them (`FitsAligned` in `PlainPages`, `% SizeModulus` in
`KRBlock` and for `occupied`, `% SpaceSize` in `CollectiveAllocator`). `capacity` is an integer
whose sign `CapacityNotExceeded` watches.

**Parts side by side.** `MCParts` and `MCPlacement` put parts together that share no state, and
give each a share of the behaviours: `part` says which one moves, the others stay as they
began. `MCParts` EXTENDS its parts, so that what it checks are the very definitions that the
theorems are about; where two parts would use one name for two things, names carry what
they belong to (`BlockNext`, `ArenasNext`; `return_block` of `KRBlock` is the code's
`deallocate_block`, `create_region` the constructors of swappable arenas and large objects,
`allocate_object` the `allocate` of the collective allocator). `MCPlacement` EXTENDS `HintAlloc`, for the
same reason, and instantiates the containers. A run of one of them is therefore several model-checking problems that are
independent of each other, with one configuration for their bounds.

## 3. Runs

| Run | Instance | Shows |
|---|---|---|
| `plain_pages` | 2 arenas of 5 pages, 2 metadata pages, classes of 1, 2, 4 pages, requests of 1-3 pages aligned to 1 or 2; swappable, with arena constructors that throw | `IInv` (tiling, tags and links together), `Tiled`, `ListsExact`, `ServedRunFits`; `HandsOutAsAsked`, `NeverFallsIdle`, `MapsOnlyWhenNeeded`, refinement of `ExtentHeap` |
| `pages_capacity` | as above, accounted | violation: capacity beyond the original one |
| `suballoc_align` | 1 arena of 6 pages of 2 units; slots of half a page and of two pages, the latter also aligned to two; up to 5 objects; swappable; words of 2 bits, which the slots of the first class fill and those of the second do not; destructor | `RunsOwned`, `NonFullListsExact`, `OnlySpareLeft`; `CallsPagesProperly` |
| `suballoc_misaligned` | 1 arena of 5 pages | violation: an object aligned to two pages on an odd page |
| `purely_local` | 2 arenas of 4 pages, accounted with a capacity of 5 pages; slots of a page and of one and a half pages, which straddle pages, in words of 3 bits that neither fills; up to 3 objects, one large object; destructor | `BitmapsExact`, `CapacityNotExceeded`, refinement of `ExtentHeap` |
| `parts` | `KRBlock`: a block of 10 headers, 3 objects, alignments 1, 2 and 4 with a data alignment of 2 | `Circular`, `Partition`, `ThrowsOnlyWhenFull`; `CallsReturn` (liveness) |
| | `PerPageArenas`: 3 arenas of 3 blocks | `ArenasExact`, `NoIdleArena`, refinement of `ExtentHeap` |
| | `SizeClass`: the constants of the code, all sizes | `SlotsFit`, `PageClassesFit` |
| | `SlabBitmap`: words of 3 bits, up to 2 words, every number of slots | `BitsExact` |
| | `LocalMemoryStore`: an arena, a large object, two values | `ContentsKept`, `UmapExact` |
| | `CollectiveAllocator`: 2 handles, 2 Impls, 2 mappings, 2 objects; pages of 1, blocks of 2, arenas of 4 | `RefsExact`, `MappingsExact`, `DispatchExact` |
| | `Relocation`: 3 parts | `AllOrNothing` |
| `bitmap_never_empty` | `SlabBitmap` as above | violation: a bitmap whose slots do not fill its last word never looks empty again |
| `placement` | `BlockedBTree`: nodes of 2 and of 3 elements, 7 keys, room in local memory for 1, 3 or 4 nodes, blocks of three nodes or of one | `SearchTree`, `BreadthFirst`, `TreeLocalPrefix`, refinement of `OrderedMap` |
| | `PageAwareBTree`: the same without local memory | `SearchTree`, refinement of `OrderedMap` |
| | `BlockedSkiplist`: 3 levels, 4 keys, local memory of 4 (the header alone), 6, 9 or 13 units, blocks of 6 | `LevelsSorted`, `SkiplistLocalPrefix`, refinement of `OrderedMap` |
| | `PageAwareSkiplist`: the same without local memory | `LevelsSorted`, refinement of `OrderedMap` |
| | `HintAlloc`: 3 arenas of 2 blocks of 2 objects, up to 4 objects | `HintBlocksExact`, refinement of `ExtentHeap`, up to the first use of links that do not hold |
| `hint_full_arena` | 2 arenas | violation: a full arena is first in `non_full_arenas` |
| `btree_root` | as `placement`, room for 2 nodes | violation: nodes are lost when the root is moved while it is split |
| `btree_decrement` | as `placement` | violation: `--` does not undo `++` |
| `btree_insert` | as `placement` | violation: the iterator that `insert` returns is not at the element |

**Why the bounds are enough.** Five pages are the least with which an arena holds a
request that needs padding (aligned to two, placed on an odd page), a remainder on
both sides, and a neighbour to coalesce with on both sides; runs of three and five
pages are no class sizes, so rounding up and rounding down differ. Two arenas let one
be unmapped while the other is in use, and let a list hold runs of both. In
`PerPageArenas` three arenas allow a current, a full and a listed one. In `HintAlloc`
three arenas and four objects are the least with which a third arena becomes current
while another has been forgotten, so that every way through both calls is taken. Three
objects in a block give a free list of up to four pieces, with every place for the
one being freed: before, between, behind, next to one or both. Words of three bits
make the border between words and the partial last word occur with few slots. In the slabs, the
words of two and three bits are such that one class of `suballoc_align` is found empty when its last
object goes, and the other three classes of the two runs never are, as half-page and 1.5-page slots in the words of
64 bits of the code: slabs that are returned and slabs that stay occur, both in front of the destructor and behind it. In the
`CollectiveAllocator` a subspace has four places for an arena, of which three are used, and
mappings begin before, at and behind the aligned address, and where the subtraction of
the offset wraps below zero. Three parts are the least with which a failure has parts before
it that are undone and parts behind it that were not begun.

Seven keys give B-trees of three levels with nodes of two elements, so that splits and
merges go from the leaves through inner nodes up to the root, and of two levels with nodes of
three, where the halves of a split differ. Room for one local node is the header alone; for
three or four, the border between local and far nodes lies in the middle of a level or
between two, and moves. Room for two is left out of `placement` because of what `btree_root` shows:
with it the list of nodes is broken within a few insertions. `BlockSize` 10 holds three nodes of
size 3, or one of size 6 where a block that is 60 per cent full has no room for another,
so that `batch_block` meets its `bad_alloc`. In the skip lists, four keys on three levels give every
relation of heights between a node and its two neighbours on either side, and the rooms of
local memory end between nodes as well as where the next node in order does not fit but a
smaller one behind it would.

`MaxCapacity`, `MaxLive`, `MaxLarge`, `MaxObjects`, `MaxArenas`, `MMapHeads` and `MaxLeaks` bound the model and stand
in guards of the next state relation; they are named where they are declared. `suballoc_align` and
`purely_local` use the view `View`: it drops the `used` flags that no step reads (inside runs) and the
links of current slabs and of pages that are no slab, which are written before they are read. `placement` and the `btree_` runs
use a view that names nodes by their place in the container instead of by address, and drops what
the last call returned; a step depends on addresses only by comparing them, and by which
sub-allocator they are in, which the view keeps. For `HintAlloc` it drops the order of the list of
blocks: as any of them may refuse, any of them may be the one that serves. Runs with several arenas
use their symmetry, except `parts`, which checks liveness.

**Deadlock** is checked in every run. A destroyed allocator stutters (`gone`,
`destroyed`), and so do the hint allocator once it has gone astray (`broken`) and the local
memory store after undefined behaviour (`undefined`).

**Fairness.** Only `KRBlock` states it: `FairBlockSpec` has `WF_block_vars(Step)`, and `MCParts` the same
with the other parts at rest, where `Step` are the iterations and endings of a call that
has begun. The code is sequential, so a call that has begun is executed until it returns;
nothing else can keep it from its next iteration. Whether callers make calls is left
open. `CallsReturn` would be violated by a list that does not lead back to `freep`, or by an
object whose place in the list is not recognised.

## 4. Proofs

Each `...Proofs` module EXTENDS the module it is about (`CollectiveAllocatorProofs` covers `Relocation`, too). Its theorems hold for all values of the
constants that satisfy the named assumptions, and for behaviours of any length.

| Module | Theorem | Statement |
|---|---|---|
| `PlainPages` | `IInvHolds` | tiling, boundary tags, coalescing and links of the lists, together |
| | `TiledHolds` | nothing is handed out twice, no page is lost |
| | `ListsExactHolds` | a walk along the list of a class meets every free run of it, once, and nothing else; at most one arena is idle |
| | `NeverFallsIdleHolds` | giving back the last run of an arena unmaps it, so that no arena falls idle that was in use |
| | `ServedRunFitsHolds` | no cut before the start of the chosen run; the assertion after `Arena::create` holds |
| | `HandsOutAsAskedHolds` | length and alignment as asked |
| | `MapsOnlyWhenNeededHolds` | an arena is mapped only when no free run reaches the class that was searched for |
| | `ImplementsHeapHolds` | refinement of `ExtentHeap` |
| `PlainSuballoc` | `SubInvHolds` | the inductive invariant of the next seven |
| | `RunsOwnedHolds` | every run held is one slab or one medium object, and the other way round |
| | `NonFullListsExactHolds` | a walk along the list of a class meets exactly its slabs that are neither current nor full; the mark is on the full ones |
| | `CallsPagesProperlyHolds` | what is asked of the page allocator is legal in every call |
| | `CapacityNotExceededHolds` | the unsigned `capacity` does not fall below zero |
| | `BitmapsExactHolds` | the bits of the slots are the objects, and an empty slab is current or has bits behind its last slot |
| | `OnlySpareLeftHolds` | the destructor leaves nothing but slabs with bits behind the last slot, and at most one arena whose constructor threw |
| | `ImplementsObjectHeapHolds` | refinement of `ExtentHeap`, for objects of every size in units of memory |
| `PerPageArenas` | `ArenasExactHolds` | bitmap, count, list and marks of every arena agree |
| | `NoIdleArenaHolds` | an arena with no block out is gone, or current |
| | `ImplementsHeapHolds` | refinement of `ExtentHeap` |
| `HintAlloc` | `HintInvHolds` | the inductive invariant of the next two |
| | `HintBlocksExactHolds` | blocks and arenas are in use as they should be; a walk along the list of blocks meets exactly those in use that are neither current nor marked; the list of arenas holds mapped arenas only |
| | `HintImplementsHeapHolds` | refinement of `ExtentHeap` |
| `KRBlock` | `BlockInvHolds` | the inductive invariant of the next three |
| | `CircularHolds` | the free list is a circle in the order of addresses; free pieces do not touch |
| | `PartitionHolds` | objects and free pieces partition the block; `usage` is exact |
| | `ThrowsOnlyWhenFullHolds` | a search that throws has seen every piece |
| `CollectiveAllocator` | `CollectiveInvHolds` | the inductive invariant of the next three |
| | `RefsExactHolds` | `ref_count` is the number of handles |
| | `MappingsExactHolds` | mappings begin at their offset, are mapped, disjoint and cut to size |
| | `DispatchExactHolds` | an address leads to the sub-allocator it came from |
| `LocalMemoryStore` | `StoreInvHolds` | the inductive invariant of the next two |
| | `ContentsKeptHolds` | regions hold what was written last, until a mode change fails |
| | `UmapExactHolds` | umap serves what it should, and never a region without a store |
| `Relocation` | `RelocationInvHolds` | the inductive invariant of the next one |
| | `AllOrNothingHolds` | a batch or a relocation has its full effect or none |
| `IntrusiveList` | `InsertNextLinks`, `RemoveLinks` | the operations keep `next` and `prev` inverse to each other |
| | `RankedListIsWalked` | a walk from the sentinel meets what is linked and ranked |

### Assumptions

`PlainPages`: `ArenaAssumption` (sizes are positive, the sentinels and null are not
entries, the address space holds finitely many arenas), `ClassAssumption` (class sizes grow from
one page; `AllocClass` is the least class that holds a request, `FreeClass` the greatest
that a run holds), `RequestAssumption` (a request with its margin is no larger than the
largest class; the data pages begin at a multiple of the alignment as far as padding can
reach back) and `CapacityAssumption`. Run `parts` checks the second for the tables of the code
(`PageClassesFit`), with the sizes and alignments that `plain_suballoc.hpp:33-36` allows.

`PlainSuballoc`, on top of these: `SlabAssumption` (a slab has between one page and the largest class of pages,
which its slots fill exactly; the class whose slots are two pages has one slot; sizes are positive; an object
may ask for alignment one; sentinels, null and garbage are no pages), as `suballoc_align` and
`purely_local` have them and `size_class.hpp` computes them. Nothing is assumed of how the slots fill the
words of the bitmaps.

`PerPageArenas`: finitely many arenas, at least one block in each, null and garbage are no arenas.
`HintAlloc`: finitely many arenas, at least one block in each and one object in a block, sentinels and null are no arenas or blocks.
`KRBlock`: a block of at least two headers, an address space it fits in, and every alignment divides
`DataAlignment` or the address of the block; for others the code would place the object in
front of the block (see the comment at `BlockAssumption`). `CollectiveAllocator`: the sizes of pages,
blocks and arenas divide each other and the address space, as the powers of two of
`aligned_mmap.hpp:23` and `collective_allocator_params.hpp` do, and the kernel maps whole pages.
`LocalMemoryStore` and `Relocation`: next to nothing. `Addr` of `Relocation` has as many addresses as can
be in use within `MaxLeaks`; that this suffices is part of the proof. TLC evaluates all of them.

### The invariants, and why they are needed

**Page allocator** (`IndInv` of `PlainPagesProofs`). `Tiled` alone is not inductive. Freeing a run keeps
the tiling only if what `deallocate_page` reads beside it is true (`BoundaryTags`) and if the
neighbours it finds do not themselves have free neighbours (`Coalesced`, which also makes
`NextFree` and `PrevFree` name whole runs). Cutting a run keeps it only if the first element
of a list is the head of a free run of that class: this is `ListsLinked`, that `next` and `prev`
are inverse to each other over sentinels and heads and stay within a class. `RequestOK` carries
the arithmetic from the call to the cut and says that a fresh arena is in the last
list. `TypeOK` types them. `IInv` is the conjunction, and run `plain_pages` checks it, too.

`IInv` allows circles of free runs apart from every sentinel, which no search would find.
`IndInv` therefore adds `Ranked`: there is a numbering of the nodes that falls along `prev` until a sentinel is
reached. Inserting gives the new node a rank between its neighbours (`InsertRanks`), removing takes
one away. `RankedListIsWalked` turns this into what `ListsExact` says of the recursive function `walk`:
a node that the walk misses, of least rank, would have a predecessor of lower rank that it
does not miss. Existence of the walk itself is a minimal counterexample, too: the induction theorems
of the library take an operator as parameter, so every induction here is an instance of `LeastNumber`, that a set
of naturals which has an element has a least one.

That at most one arena is idle needs `IdleOnce`. An idle arena is one free run in the last list (`OneRun`,
`IdleIsOneRun`). Such a run serves any request, so that a request that nothing serves finds no arena idle (`UnservedMeansNoIdle`),
and the one constructed for it becomes the only one; it is the first in the last list while the call goes on. Whether it is
used at once, or its constructor throws and it waits for the next request, does not matter then. `NeverFallsIdle` is about steps: a
deallocation leaves its arena with another run held, or unmaps it (`GiveBackKeepsBusy`, `GiveBackIdle`). `MapsOnlyWhenNeeded` follows from the lists: if no class
serves the request, the list of every large enough class is empty (`UnservedIsEmpty`), while a free run
is linked in one of them.

The steps. One lemma per action that writes memory. `TakePreserves`: by `CutGeometry` the class the
request was rounded up to leaves room for the margin, so the chosen run is split in up to
three pieces; `Retile` replaces one tile by those that cover it; `EdgesKept` shows that
tags elsewhere are not written; the list lemmas file the padding, take the run off and
file the remainder. `ConstructPreserves` adds a tiled arena. `MergePreserves` and `UnmapPreserves`:
by `MergeGeometry` the neighbours found through the tags are free runs that lie next to the
freed one; they leave their lists, and the union replaces them. The refinement maps
`arenas` and `held`: a cut is `Alloc`, a deallocation `Free`, `create` and `create_throws` are `Map`, the rest stutters.

**Slabs** (`SubInv`). It is `IndInv` and `IdleOnce` of the page allocator together with `SlabInv`. The former
are kept because every step is a step of the page allocator, or gives back a run that is
held, or changes only `capacity` (`NextAllIsProper`); so nothing that is proved of pages is proved again. `SlabInv`
says where objects lie (`ObjectsPlaced`), how the runs held are divided into slabs and medium
objects (`RunsSplit`), what bits and `idx_in_slab` mean (`BitsKept`), that a slab without bits is current (`SlabsNeeded`), that current
slabs are slabs (`CurrentsOK`), and that lists and marks are right (`SlabsFiled`). `RunsOwned` alone is not
inductive: a slab is given up when its bitmap looks empty, which leaves no object without its run only because bits
are objects; and a slab goes back into a list when its link is null, which files it once only because
the mark is on the full slabs and nowhere else. Nothing is said of the links of current slabs, which
are stale, nor of `current_slabs[c]` while it dangles in the middle of a call (`Stale`; `Current(c)` is null then).
`CallOK` carries over from one step of a call to the next what it has found out: that the current slab is full and marked before
a new one replaces it, that nothing is allocated while the destructor runs, and that the request to the page
allocator is the one of this call. `CapacityOK` does so for `check_capacity`: the pages of a misplaced slab, just given back, can be asked for again.

There is one lemma per action (`...Keeps`), on top of lemmas that say what each kind of change does to objects, runs, bits
and lists. The list of slabs is ranked like those of the page allocator (`Filed`), and `RankedListIsWalked` turns
ranks into the walk of `NonFullListsExact`. For the refinement, runs that are held are apart by `Tiled`, slots of one
slab by arithmetic, and an object keeps its arena mapped because its run is held.

**Block arenas** (`ArenasInv`). The list and the marks (`link.next = NullLink` for a full arena) decide
whether `deallocate_block` puts an arena back; so the invariant says which arenas are in the list,
`Listing`, which have the mark, `Marked`, and that bitmap and count agree with the blocks
outside, `Counted`. Nothing is said of the links of the current arena, which are stale.

**Hint allocator** (`HintInv`). `UsedExactly` says which blocks and arenas are in use. The list of blocks is filed
exactly (`ListedBlocks`), with ranks as those above, although an allocation with a hint fills listed blocks and
marked ones without looking at the lists: such a block keeps its place, and leaves it when it becomes current or
empty. What makes this inductive is that the mark of a block is set only when it stops being current, and then it is
not in the list. Of the arenas, the same statement is false, as run `hint_full_arena` shows; the invariant says only that
*some* of the mapped arenas are in the list (`ArenasListed`). It is enough, because a step that would use links
which do not hold goes astray instead: marking the current arena needs it to be in no list and taking
the first one needs it to have a free block (`PopIsSound`), freeing an arena needs it to be marked or in the list
(`FreeIsSound`). The theorems say nothing of what the code does after that,
where its behaviour is undefined.

**Inside of a block** (`BlockInv`). The list is described without a walk: in the set of headers, `next` leads
from each to the least greater one, or from the last to 0 (`Circle`). Cutting and joining insert a
header behind another or remove one, or both (`CircleInserts`, `CircleRemoves`). That the walk of `Pieces` meets all
headers (`PiecesAreHeaders`) is then a minimal counterexample again. `PieceOK` keeps pieces apart,
`ObjectOK` keeps objects apart from them, `Covered` says that nothing is lost and `UsageExact` counts; `LastObject`
concludes from the count alone that a block given back is empty. `CallOK` ties the local variables of a
loop to the list: above all that the headers from `freep` up to `prev`, around the end of the
list, have been seen and do not fit, which gives `ThrowsOnlyWhenFull`. `CutIsAligned` is the
arithmetic of the two ways to align an address in the code, including the unsigned difference.

**Collective allocator** (`CollectiveInv`). Besides the three properties: what is lost to a failed `munmap` lies
apart from all mappings (`LostApart`), else the next mapping could not be shown to be disjoint
from it, and every object lies in a mapping of its kind (`ObjectsPlaced`). Masks are divisions; the
proof rests on `Multiple`, `MultiplesApart` and their like.

**Local memory store** (`StoreInv`). `WhereContentsAre` says which of the two copies of a region is there in which mode
and how far `mode_change` has come, since between two of its steps umap pages in and out.

**Relocation** (`RelocationInv`). `Uses(m, n)` accounts for memory: in use are the first `m` new parts, the first `n`
old ones, and what was lost; `Moved(k)` says how far the caller's pointers have changed. Each place
in the recursion, on the way down and in the handlers, is one such pair (`Accounted`).

### Only model-checked

* Liveness: `CallsReturn`. No prover here does fairness; what it rests on, the circle, is proved.
* `SizeClass`: `SlotsFit` and `PageClassesFit` are about the tables with the constants of the code, which TLC
  evaluates completely.
* `SlabBitmap`: it uses `Bitwise`, whose operators are recursive.
* The containers: `RECURSIVE` operators, and induction over trees.

## 5. Findings

Seven runs show where the code does not do what it says; `PROJECT.json` quotes the lines.

* `pages_capacity`: destroying an arena reclaims capacity for metadata pages that creating
  it does not consume (that line is commented out), so the capacity outgrows
  `orig_capacity`. The lines for `occupied` next to it do the same, and it wraps below zero.
* `suballoc_misaligned`: the check that an object aligned to two pages lies on an even
  page is made for the current slab, not for one taken from the list.
* `bitmap_never_empty`: `find_unset_and_set` writes its mask back into the bitmap, so
  a slab whose slots do not fill whole words is never found empty and its pages are
  never returned.
* `hint_full_arena`: `allocate` makes the arena of a listed block current without taking it
  off `non_full_arenas`, and forgets the arena that was current. The listed arena can fill
  up; later its link is overwritten inside the list or its missing block is used, and the
  forgotten arena may be removed from a list it is not in.
* `btree_root`: when the root of the blocked B-tree is split, it is the last local node and
  there is no local memory for the new root, it is moved to far memory; `insert` goes on
  with its old address (`b_tree.ipp:100`).
* `btree_decrement`: from the first element of a leaf, `--` ends an element too far to the
  right (`b_tree_iterator.ipp:56`, in all three B-trees).
* `btree_insert`: when the new element goes to the new node of a split, the iterator that
  `insert` returns has the index of the next element (`b_tree.ipp:251`, in all three B-trees).

`PlainSuballoc` has the bitmaps of `bitmap_never_empty` (`SpareBits`), so what it says of emptied slabs and of what
is left by the destructor makes an exception of slabs whose slots do not fill whole words, which are those of half a
page and of one and a half pages, among others. `PlainPages` has the arena that stays mapped and listed when the
constructor of a swappable arena throws (`create_throws`); `LocalMemoryStore` has what becomes of its region
(`create_without_store`). Two lesser things met on the way and modelled as they are: `begin_node` of a B-tree that has become empty by `erase` is the freed last
node (`LookupsExact` says nothing of an empty map), and `operator=` of `CollectiveAllocator`, which nothing
calls, has no `return`.

## 6. Not modelled, and the plan

* The *baseline containers*: their code is that of the page-aware ones without sub-allocators;
  a node is allocated with a hint, and where a hint leads is `HintAlloc`.
* *Exhaustion of plain swappable memory*: it ends with the address space. What the B-tree
  leaves behind when it happens (`b_tree.ipp:146`) is listed as a hazard.
* The `analyze_` functions of the containers, which measure and change nothing.
* *umap* is external: `LocalMemoryStore` models what the code relies on.
* The *utilities* have no state.
* Of `is_occupancy_under` of the plain sub-allocators, only the counter that it compares.

The plan, most important first:

1. *(done)* the allocators below the collective allocator, and the proofs for the page
   allocator, on which the rest stands;
2. *(done)* the hint allocator;
3. *(done)* the local memory store, the collective allocator, relocation;
4. *(done)* the containers, blocked and page-aware;
5. *(done)* the proofs of section 4;
6. *(done)* the proofs of the slabs, on top of those of the page allocator;
7. *(done)* the proofs of the hint allocator, up to `broken`, on the pattern of the slabs;
8. open: what the provers at hand do not reach, as listed under "Only model-checked".
