--------------------------- MODULE LocalMemoryStore ---------------------------
(***************************************************************************)
(* LocalMemoryStore and what registers with it: arenas of swappable memory *)
(* (SwappablePlainArena; PerPageSuballocatorArena and HintAllocArena do    *)
(* the same) and large objects (SwappablePlainCustom).  Each region has a  *)
(* store of its own in plain memory.  In far memory mode every registered  *)
(* region is under umap, which takes pages out (evict) and brings them     *)
(* back (fill) at any moment; umap is not part of the repository and is    *)
(* modelled from how it is used here: uunmap leaves the region with its    *)
(* contents.  A region is one page; what is in it is one value.            *)
(*                                                                         *)
(* mode_change takes one step for each region, and may fail at each.       *)
(***************************************************************************)
EXTENDS Integers, FiniteSets

CONSTANTS
    SwappableArena, Large, \* regions, by their addresses
    Value,                 \* what can be written; 0 is what fresh memory holds
    Absent                 \* what is not there: the page of a region, or a store

StoreAssumption ==
    /\ SwappableArena \cap Large = {}
    /\ 0 \in Value /\ Absent \notin Value

VARIABLES
    far_memory_mode,
    mapping,        \* the keys of LocalMemoryStore::mapping
    backing_data,   \* contents of the store of each region
    memory,         \* contents of the page of each region
    umapped,        \* external: the regions that umap serves
    regions,        \* the regions that callers can write to
    todo,           \* the regions that mode_change has not come to
    torn,           \* mode_change has failed half way
    undefined,      \* auxiliary: a store that was not constructed has been destroyed
    written         \* auxiliary: the last value written to each region

store_vars == <<far_memory_mode, mapping, backing_data, memory, umapped, regions, todo,
                torn, undefined, written>>

Region == SwappableArena \cup Large

StoreInit ==
    /\ far_memory_mode = FALSE /\ mapping = {} /\ umapped = {}
    /\ backing_data = [r \in Region |-> Absent]
    /\ memory = [r \in Region |-> Absent]
    /\ regions = {} /\ todo = {} /\ torn = FALSE /\ undefined = FALSE
    /\ written = [r \in Region |-> 0]

\* What a read of the region yields.
Contents(r) == IF memory[r] # Absent THEN memory[r] ELSE backing_data[r]

-----------------------------------------------------------------------------
(* umap: external.                                                         *)

\* read_from_store
fill(r) ==
    /\ r \in umapped /\ memory[r] = Absent /\ backing_data[r] # Absent
    /\ memory' = [memory EXCEPT ![r] = backing_data[r]]
    /\ UNCHANGED <<far_memory_mode, mapping, backing_data, umapped, regions, todo, torn,
                   undefined, written>>

\* write_to_store
evict(r) ==
    /\ r \in umapped /\ memory[r] # Absent /\ backing_data[r] # Absent
    /\ backing_data' = [backing_data EXCEPT ![r] = memory[r]]
    /\ memory' = [memory EXCEPT ![r] = Absent]
    /\ UNCHANGED <<far_memory_mode, mapping, umapped, regions, todo, torn, undefined, written>>

-----------------------------------------------------------------------------
(* Regions come and go.                                                    *)

Fresh(r) == /\ todo = {} /\ ~undefined
            /\ r \notin regions \cup umapped \cup mapping

\* The constructor of an arena, and postprocess_large_alloc.
create_region(r) ==
    /\ Fresh(r)
    /\ mapping' = mapping \cup {r} /\ regions' = regions \cup {r}
    /\ backing_data' = [backing_data EXCEPT ![r] = 0]
    /\ umapped' = IF far_memory_mode THEN umapped \cup {r} ELSE umapped
    /\ memory' = [memory EXCEPT ![r] = IF far_memory_mode THEN Absent ELSE 0]
    /\ written' = [written EXCEPT ![r] = 0]
    /\ UNCHANGED <<far_memory_mode, todo, torn, undefined>>

\* No memory for the store: the run of the arena is in the list of its
\* sub-allocator by then and will be used.  A large object is not handed out.
create_without_store(r) ==
    /\ Fresh(r) /\ r \in SwappableArena
    /\ regions' = regions \cup {r}
    /\ memory' = [memory EXCEPT ![r] = 0]
    /\ written' = [written EXCEPT ![r] = 0]
    /\ UNCHANGED <<far_memory_mode, mapping, backing_data, umapped, todo, torn, undefined>>

\* umap_ex fails when the region is registered already.
create_without_umap(r) ==
    /\ Fresh(r) /\ far_memory_mode
    /\ mapping' = mapping \cup {r}
    /\ regions' = IF r \in SwappableArena THEN regions \cup {r} ELSE regions
    /\ backing_data' = [backing_data EXCEPT ![r] = 0]
    /\ memory' = [memory EXCEPT ![r] = 0]
    /\ written' = [written EXCEPT ![r] = 0]
    /\ UNCHANGED <<far_memory_mode, umapped, todo, torn, undefined>>

write(r, v) ==
    /\ r \in regions /\ todo = {}
    /\ memory' = [memory EXCEPT ![r] = v]
    /\ written' = [written EXCEPT ![r] = v]
    /\ UNCHANGED <<far_memory_mode, mapping, backing_data, umapped, regions, todo, torn, undefined>>

\* Mutant of StillUmapped: uunmap only forgets the mapping.
StillUmapped_all(r) == umapped

\* uunmap
StillUmapped(r) == IF far_memory_mode THEN umapped \ {r} ELSE umapped

\* The destructor of an arena, and preprocess_large_dealloc.  The store of an arena
\* that was created without one is whatever its buffer holds.
destroy_region(r) ==
    /\ r \in regions /\ todo = {}
    /\ mapping' = mapping \ {r} /\ regions' = regions \ {r}
    /\ umapped' = StillUmapped(r)
    /\ undefined' = (undefined \/ backing_data[r] = Absent)
    /\ backing_data' = [backing_data EXCEPT ![r] = Absent]
    /\ memory' = [memory EXCEPT ![r] = Absent]
    /\ UNCHANGED <<far_memory_mode, todo, torn, written>>

-----------------------------------------------------------------------------
(* mode_change                                                             *)

\* The mode is set behind the last region.
ChangeGoesOn(left) == /\ todo' = left
                      /\ far_memory_mode' = IF left = {} THEN ~far_memory_mode ELSE far_memory_mode

mode_change ==
    /\ todo = {} /\ ~undefined
    /\ ChangeGoesOn(mapping)
    /\ UNCHANGED <<mapping, backing_data, memory, umapped, regions, torn, undefined, written>>

\* From far memory: what umap has taken out is back when it lets the region go.
change_to_local(r) ==
    /\ r \in todo /\ far_memory_mode
    /\ umapped' = umapped \ {r}
    /\ memory' = [memory EXCEPT ![r] = Contents(r)]
    /\ ChangeGoesOn(todo \ {r})
    /\ UNCHANGED <<mapping, backing_data, regions, torn, undefined, written>>

\* Mutant of Saved: the store keeps what it has.
Saved_not(r) == backing_data

\* memcpy to the store, from a page that umap may have taken out.
Saved(r) == [backing_data EXCEPT ![r] = Contents(r)]

change_to_far(r) ==
    /\ r \in todo /\ ~far_memory_mode
    /\ backing_data' = Saved(r)
    /\ memory' = [memory EXCEPT ![r] = Absent]
    /\ umapped' = umapped \cup {r}
    /\ ChangeGoesOn(todo \ {r})
    /\ UNCHANGED <<mapping, regions, torn, undefined, written>>

\* madvise fails, or umap_ex does and the region has lost its pages but is not
\* under umap.  The mode stays; regions changed before stay under umap.
change_fails(r) ==
    /\ r \in todo /\ ~far_memory_mode
    /\ backing_data' = Saved(r)
    /\ memory' \in {memory, [memory EXCEPT ![r] = 0]}
    /\ torn' = TRUE /\ todo' = {}
    /\ UNCHANGED <<far_memory_mode, mapping, umapped, regions, undefined, written>>

-----------------------------------------------------------------------------
StoreNext ==
    \/ mode_change
    \/ \E r \in Region :
          \/ fill(r) \/ evict(r)
          \/ create_region(r) \/ create_without_store(r) \/ create_without_umap(r)
          \/ \E v \in Value : write(r, v)
          \/ destroy_region(r)
          \/ change_to_local(r) \/ change_to_far(r) \/ change_fails(r)
    \/ undefined /\ UNCHANGED store_vars
StoreSpec == StoreInit /\ [][StoreNext]_store_vars

-----------------------------------------------------------------------------
(* Correctness.                                                            *)

\* Whatever umap does and however often the mode changes, a region holds what was
\* last written to it, as long as no mode_change has failed.
ContentsKept == ~torn => \A r \in regions : Contents(r) = written[r]

\* umap serves the registered regions in far memory mode, those whose umap_ex
\* failed left aside, and no region otherwise, so that it never uses a store
\* that has been destroyed.
UmapExact ==
    ~torn => /\ umapped \subseteq mapping
             /\ todo = {} /\ ~far_memory_mode => umapped = {}
             /\ \A r \in mapping : backing_data[r] # Absent
             /\ \A r \in mapping \ umapped : far_memory_mode /\ todo = {} => memory[r] # Absent
=============================================================================
