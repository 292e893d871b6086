-------------------------- MODULE CollectiveAllocator --------------------------
(***************************************************************************)
(* CollectiveAllocator and CollectiveAllocatorImpl: handles that share an  *)
(* Impl by reference count, arenas mapped by AlignedMMap, and the dispatch *)
(* of objects to sub-allocators by the bits of their addresses alone.      *)
(* What the sub-allocators do inside of their arenas is left to their own  *)
(* modules: here any free place of an arena may be handed out.             *)
(*                                                                         *)
(* Addresses, sizes and masks are numbers of small units; all masks are of *)
(* powers of two and stand as divisions.                                   *)
(***************************************************************************)
EXTENDS Integers, FiniteSets

CONSTANTS
    Impl, Handle,
    NoHandle, nullptr,  \* no handle, and a handle that has been moved from
    MapPageSize, BlockSize, ArenaSize,
    SpaceSize,          \* size of the address space, a power of two
    MMapHeads,          \* bound of the model: where mmap can place a mapping
    LargeSize,          \* size of large objects
    MaxArenas,          \* bound of the model on mappings
    MaxObjects          \* bound of the model on objects

PurelyLocalOffset    == 0
SwappablePlainOffset == PurelyLocalOffset + ArenaSize
PerPageOffset        == SwappablePlainOffset + ArenaSize
SubspaceInterval     == ArenaSize * 4
Offset == {PurelyLocalOffset, SwappablePlainOffset, PerPageOffset}

CollectiveAssumption ==
    /\ IsFiniteSet(Handle) /\ NoHandle \notin Impl /\ nullptr \notin Impl
    /\ {MapPageSize, BlockSize, ArenaSize, LargeSize, SpaceSize} \subseteq Nat \ {0}
    /\ BlockSize % MapPageSize = 0 /\ ArenaSize % BlockSize = 0
    /\ SpaceSize % SubspaceInterval = 0
    /\ LargeSize % MapPageSize = 0
    /\ MMapHeads \subseteq Nat /\ \A m \in MMapHeads : m % MapPageSize = 0

VARIABLES
    pimpl,      \* the Impl of each handle
    ref_count,  \* of each Impl; 0 if there is none
    mappings,   \* arenas of the sub-allocators: [impl, offset, base, size]
    mapped,     \* external: the mapped addresses
    lost,       \* auxiliary: addresses mapped that nothing refers to
    objects     \* auxiliary: [arena, addr] of the callers

collective_vars == <<pimpl, ref_count, mappings, mapped, lost, objects>>

CollectiveInit ==
    /\ pimpl = [h \in Handle |-> NoHandle]
    /\ ref_count = [i \in Impl |-> 0]
    /\ mappings = {} /\ mapped = {} /\ lost = {} /\ objects = {}

-----------------------------------------------------------------------------
(* Handles.                                                                *)

Holds(h) == pimpl[h] \in Impl
Of(i) == {a \in mappings : a.impl = i}
Bytes(a) == a.base .. a.base + a.size - 1

\* dec_ref deletes an Impl without references, and with it its arenas: callers have
\* given all objects back.  (The handle that goes may be one that holds none.)
Released(counts, i) == IF i \in Impl THEN [counts EXCEPT ![i] = @ - 1] ELSE counts
Delete(i) ==
    IF i \in Impl /\ ref_count'[i] = 0
    THEN /\ mappings' = mappings \ Of(i)
         /\ mapped' = mapped \ UNION {Bytes(a) : a \in Of(i)}
    ELSE UNCHANGED <<mappings, mapped>>
MayGo(h) == Holds(h) /\ ref_count[pimpl[h]] = 1 => \A o \in objects : o.arena.impl # pimpl[h]

construct(h, i) ==
    /\ pimpl[h] = NoHandle /\ ref_count[i] = 0
    /\ pimpl' = [pimpl EXCEPT ![h] = i]
    /\ ref_count' = [ref_count EXCEPT ![i] = 1]
    /\ UNCHANGED <<mappings, mapped, lost, objects>>

\* shallow_copy; containers copy and rebind their allocator.
copy_construct(h, g) ==
    /\ pimpl[h] = NoHandle /\ Holds(g)
    /\ pimpl' = [pimpl EXCEPT ![h] = pimpl[g]]
    /\ ref_count' = [ref_count EXCEPT ![pimpl[g]] = @ + 1]
    /\ UNCHANGED <<mappings, mapped, lost, objects>>

move_construct(h, g) ==
    /\ pimpl[h] = NoHandle /\ Holds(g)
    /\ pimpl' = [pimpl EXCEPT ![h] = pimpl[g], ![g] = nullptr]
    /\ UNCHANGED <<ref_count, mappings, mapped, lost, objects>>

\* Mutant of CopyAssigned: the old Impl is released and not the other one counted.
CopyAssigned_uncounted(h, g) == Released(ref_count, pimpl[h])

\* operator=, which nothing in the repository calls, ends without its return
\* statement; what may come of that is left out.
\* The other Impl is counted before the old one, which may be the same, is released.
CopyAssigned(h, g) == Released([ref_count EXCEPT ![pimpl[g]] = @ + 1], pimpl[h])

copy_assign(h, g) ==
    /\ pimpl[h] # NoHandle /\ Holds(g) /\ (pimpl[h] # pimpl[g] => MayGo(h))
    /\ pimpl' = [pimpl EXCEPT ![h] = pimpl[g]]
    /\ ref_count' = CopyAssigned(h, g)
    /\ Delete(pimpl[h])
    /\ UNCHANGED <<lost, objects>>

\* unique_ptr: a move from itself keeps it.
move_assign(h, g) ==
    /\ pimpl[h] # NoHandle /\ Holds(g) /\ h # g
    /\ pimpl[h] # pimpl[g] => MayGo(h)
    /\ pimpl' = [pimpl EXCEPT ![h] = pimpl[g], ![g] = nullptr]
    /\ ref_count' = Released(ref_count, pimpl[h])
    /\ Delete(pimpl[h])
    /\ UNCHANGED <<lost, objects>>

destruct(h) ==
    /\ pimpl[h] # NoHandle /\ MayGo(h)
    /\ pimpl' = [pimpl EXCEPT ![h] = NoHandle]
    /\ ref_count' = Released(ref_count, pimpl[h])
    /\ Delete(pimpl[h])
    /\ UNCHANGED <<lost, objects>>

-----------------------------------------------------------------------------
(* AlignedMMap: a mapping with padding, of which the ends are cut off.      *)

MMapPadding == SubspaceInterval - MapPageSize

\* Differences of unsigned addresses wrap around.
AlignedAddr(head, offset) ==
    LET up == (head - offset + SubspaceInterval - 1) % SpaceSize
    IN  (((up \div SubspaceInterval) * SubspaceInterval) + offset) % SpaceSize

\* Mutant of CutBehind: the head that was cut off is counted again.
CutBehind_from_head(head, offset, size) == head + size .. head + size + MMapPadding - 1

\* What is cut off behind.
CutBehind(head, offset, size) == AlignedAddr(head, offset) + size .. head + size + MMapPadding - 1

CanMap(head, size) ==
    /\ Cardinality(mappings) < MaxArenas /\ lost = {}
    /\ head + size + MMapPadding <= SpaceSize
    /\ (head .. head + size + MMapPadding - 1) \cap mapped = {}

\* An arena, or a large object of the plain sub-allocators, which is handed out.
Sizes(offset) == IF offset = PerPageOffset THEN {ArenaSize} ELSE {ArenaSize, LargeSize}

AlignedMMap(h, offset, size, head) ==
    LET base == AlignedAddr(head, offset)
        all  == head .. head + size + MMapPadding - 1
        new  == [impl |-> pimpl[h], offset |-> offset, base |-> base, size |-> size]
    IN  /\ Holds(h) /\ CanMap(head, size)
        /\ mapped' = mapped \cup (all \ ((head .. base - 1) \cup CutBehind(head, offset, size)))
        /\ mappings' = mappings \cup {new}
        /\ objects' = IF size = LargeSize THEN objects \cup {[arena |-> new, addr |-> base]}
                      ELSE objects
        /\ UNCHANGED <<pimpl, ref_count, lost>>

\* One of the two munmap fails: what is mapped by then stays mapped.
AlignedMMap_fails(h, offset, size, head) ==
    LET base == AlignedAddr(head, offset)
        all  == head .. head + size + MMapPadding - 1
    IN  /\ Holds(h) /\ CanMap(head, size)
        /\ \/ base # head /\ lost' = all
           \/ CutBehind(head, offset, size) # {} /\ lost' = all \ (head .. base - 1)
        /\ mapped' = mapped \cup lost'
        /\ UNCHANGED <<pimpl, ref_count, mappings, objects>>

\* MUnmap, by the sub-allocators, of an arena that is empty.
MUnmap(a) ==
    /\ a \in mappings /\ \A o \in objects : o.arena # a
    /\ mappings' = mappings \ {a}
    /\ mapped' = mapped \ Bytes(a)
    /\ UNCHANGED <<pimpl, ref_count, lost, objects>>

-----------------------------------------------------------------------------
(* Dispatch.                                                               *)

\* Mutant of ArenaKind: AddrMaskArenaKind without its lower end.
ArenaKind_unmasked(ptr) == ptr % SubspaceInterval

\* ptr & AddrMaskArenaKind
ArenaKind(ptr) == (ptr % SubspaceInterval) - (ptr % ArenaSize)

BlockHead(ptr) == ptr - (ptr % BlockSize)

\* A sub-allocator is what contains compares with: the kind of arena, or a block.
get_suballocator(ptr) ==
    IF ArenaKind(ptr) \in {PurelyLocalOffset, SwappablePlainOffset}
    THEN [offset |-> ArenaKind(ptr), block |-> 0]
    ELSE [offset |-> PerPageOffset, block |-> BlockHead(ptr)]

contains(sub, ptr) == IF sub.offset = PerPageOffset THEN BlockHead(ptr) = sub.block
                      ELSE ArenaKind(ptr) = sub.offset

\* The sub-allocator that an object was allocated from.
HomeOf(o) == [offset |-> o.arena.offset,
              block |-> IF o.arena.offset = PerPageOffset
                        THEN o.arena.base + ((o.addr - o.arena.base) \div BlockSize) * BlockSize
                        ELSE 0]

\* Metadata lie in the first page or block of an arena.
Places(a) == IF a.size = LargeSize THEN {}
             ELSE IF a.offset = PerPageOffset THEN a.base + BlockSize .. a.base + a.size - 1
             ELSE a.base + MapPageSize .. a.base + a.size - 1

allocate_object(h) ==
    /\ Cardinality(objects) < MaxObjects
    /\ \E a \in mappings : /\ Holds(h) /\ a.impl = pimpl[h]
                         /\ \E addr \in Places(a) :
                               /\ [arena |-> a, addr |-> addr] \notin objects
                               /\ objects' = objects \cup {[arena |-> a, addr |-> addr]}
    /\ UNCHANGED <<pimpl, ref_count, mappings, mapped, lost>>

\* Through any handle of the Impl; a large object takes its mapping with it.
deallocate_object(h, o) ==
    /\ o \in objects /\ Holds(h) /\ o.arena.impl = pimpl[h]
    /\ objects' = objects \ {o}
    /\ IF o.arena.size = LargeSize
       THEN mappings' = mappings \ {o.arena} /\ mapped' = mapped \ Bytes(o.arena)
       ELSE UNCHANGED <<mappings, mapped>>
    /\ UNCHANGED <<pimpl, ref_count, lost>>

-----------------------------------------------------------------------------
CollectiveNext ==
    \/ \E h \in Handle :
          \/ \E i \in Impl : construct(h, i)
          \/ \E g \in Handle : copy_construct(h, g) \/ move_construct(h, g)
                               \/ copy_assign(h, g) \/ move_assign(h, g)
          \/ destruct(h)
          \/ \E offset \in Offset, head \in MMapHeads : \E size \in Sizes(offset) :
                AlignedMMap(h, offset, size, head) \/ AlignedMMap_fails(h, offset, size, head)
          \/ allocate_object(h)
          \/ \E o \in objects : deallocate_object(h, o)
    \/ \E a \in mappings : MUnmap(a)
CollectiveSpec == CollectiveInit /\ [][CollectiveNext]_collective_vars

-----------------------------------------------------------------------------
(* Correctness.                                                            *)

\* An Impl counts the handles that refer to it, through copies, moves and
\* assignments to itself; it and its arenas are there as long as one does.
RefsExact ==
    /\ \A i \in Impl : ref_count[i] = Cardinality({h \in Handle : pimpl[h] = i})
    /\ \A a \in mappings : ref_count[a.impl] > 0

\* AlignedMMap: mappings are disjoint and begin at the offset of their kind, all
\* of them is mapped, and of the padding nothing is unless munmap failed.
MappingsExact ==
    /\ mapped = lost \cup UNION {Bytes(a) : a \in mappings}
    /\ \A a \in mappings : a.base % SubspaceInterval = a.offset
    /\ \A a, b \in mappings : a # b => Bytes(a) \cap Bytes(b) = {}

\* The address of an object alone leads to the sub-allocator, and the block, that
\* it was allocated from, and contains tells this one from all others.
DispatchExact ==
    \A o \in objects : /\ get_suballocator(o.addr) = HomeOf(o)
                       /\ \A u \in objects : contains(HomeOf(u), o.addr) <=> HomeOf(u) = HomeOf(o)
=============================================================================
