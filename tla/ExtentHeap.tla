----------------------------- MODULE ExtentHeap -----------------------------
(***************************************************************************)
(* What every allocator of this project promises its caller: the memory it *)
(* hands out lies inside a region it has mapped and overlaps nothing that  *)
(* is still allocated; a region is unmapped only when nothing in it is     *)
(* allocated any more.                                                     *)
(*                                                                         *)
(* An extent is a triple <<region, first unit, number of units>>; a unit   *)
(* is whatever the implementing module counts in (pages, slots).           *)
(***************************************************************************)
EXTENDS Integers

CONSTANTS Region,      \* the identities a mapped region can have
          Size         \* the units of a region

VARIABLES mapped,      \* the regions currently mapped
          live         \* the extents currently allocated

heapVars == <<mapped, live>>

Extent == Region \X (0 .. Size - 1) \X (1 .. Size)

Units(e) == e[2] .. (e[2] + e[3] - 1)

Overlap(e, f) == e[1] = f[1] /\ Units(e) \cap Units(f) # {}

TypeOK == mapped \subseteq Region /\ live \subseteq Extent

Init == mapped = {} /\ live = {}

\* A region may be mapped for the extent.
Alloc == \E e \in Extent :
            /\ mapped' = mapped \cup {e[1]}
            /\ e[2] + e[3] <= Size
            /\ \A f \in live : ~Overlap(e, f)
            /\ live' = live \cup {e}

\* Freeing the last extent of a region may unmap it at once.
Free == \E e \in live :
            /\ live' = live \ {e}
            /\ \/ UNCHANGED mapped
               \/ /\ \A f \in live' : f[1] # e[1]
                  /\ mapped' = mapped \ {e[1]}

Map == \E r \in Region \ mapped : mapped' = mapped \cup {r} /\ UNCHANGED live

\* A region of which nothing is allocated may also be kept and unmapped later.
Unmap == \E r \in mapped :
            /\ \A f \in live : f[1] # r
            /\ mapped' = mapped \ {r}
            /\ UNCHANGED live

Next == Alloc \/ Free \/ Map \/ Unmap

Spec == Init /\ [][Next]_heapVars
=============================================================================
