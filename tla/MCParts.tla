-------------------------------- MODULE MCParts --------------------------------
(***************************************************************************)
(* The parts that share no state with the plain sub-allocators, for model  *)
(* checking: a behaviour is one of the part that `part` names, while the   *)
(* others stay as they began.  The properties are those of the parts.      *)
(***************************************************************************)
EXTENDS KRBlock, PerPageArenas, SizeClass, SlabBitmap, LocalMemoryStore,
        CollectiveAllocator, Relocation

VARIABLE part

ASSUME /\ BlockAssumption /\ ArenaAssumption /\ SizeAssumption /\ WordAssumption
       /\ StoreAssumption /\ CollectiveAssumption /\ RelocationAssumption

vars == <<part, block_vars, arenas_vars, tables_vars, bitmap_vars, store_vars,
          collective_vars, relocation_vars>>

\* Only the bitmaps begin in several states.
Init ==
    /\ part \in {"KRBlock", "PerPageArenas", "SizeClass", "SlabBitmap",
                 "LocalMemoryStore", "CollectiveAllocator", "Relocation"}
    /\ BlockInit /\ ArenasInit /\ TablesInit /\ BitmapInit /\ StoreInit
    /\ CollectiveInit /\ RelocationInit
    /\ part # "SlabBitmap" => arena = FALSE /\ n_slots = 1

BlockStays      == UNCHANGED block_vars
ArenasStay      == UNCHANGED arenas_vars
TablesStay      == UNCHANGED tables_vars
BitmapStays     == UNCHANGED bitmap_vars
StoreStays      == UNCHANGED store_vars
CollectiveStays == UNCHANGED collective_vars
RelocationStays == UNCHANGED relocation_vars
OthersThanBlock == /\ part = "KRBlock" /\ UNCHANGED part
                   /\ ArenasStay /\ TablesStay /\ BitmapStays /\ StoreStays
                   /\ CollectiveStays /\ RelocationStays

Next ==
    \/ BlockNext /\ OthersThanBlock
    \/ /\ part = "PerPageArenas" /\ ArenasNext /\ UNCHANGED part
       /\ BlockStays /\ TablesStay /\ BitmapStays /\ StoreStays
       /\ CollectiveStays /\ RelocationStays
    \/ /\ part = "SizeClass" /\ TablesNext /\ UNCHANGED part
       /\ BlockStays /\ ArenasStay /\ BitmapStays /\ StoreStays
       /\ CollectiveStays /\ RelocationStays
    \/ /\ part = "SlabBitmap" /\ BitmapNext /\ UNCHANGED part
       /\ BlockStays /\ ArenasStay /\ TablesStay /\ StoreStays
       /\ CollectiveStays /\ RelocationStays
    \/ /\ part = "LocalMemoryStore" /\ StoreNext /\ UNCHANGED part
       /\ BlockStays /\ ArenasStay /\ TablesStay /\ BitmapStays
       /\ CollectiveStays /\ RelocationStays
    \/ /\ part = "CollectiveAllocator" /\ CollectiveNext /\ UNCHANGED part
       /\ BlockStays /\ ArenasStay /\ TablesStay /\ BitmapStays /\ StoreStays
       /\ RelocationStays
    \/ /\ part = "Relocation" /\ RelocationNext /\ UNCHANGED part
       /\ BlockStays /\ ArenasStay /\ TablesStay /\ BitmapStays /\ StoreStays
       /\ CollectiveStays

\* A call in a block that has begun goes on (FairBlockSpec).
Spec == Init /\ [][Next]_vars /\ WF_vars(Step /\ OthersThanBlock)
=============================================================================
