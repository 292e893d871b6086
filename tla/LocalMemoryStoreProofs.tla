------------------------ MODULE LocalMemoryStoreProofs ------------------------
(***************************************************************************)
(* Proofs about LocalMemoryStore: contents survive what umap does and any   *)
(* number of mode changes, and umap serves no region whose store is gone.   *)
(* The inductive invariant says which of the two copies of a region, page   *)
(* and store, is there in which mode and how far mode_change has come.      *)
(***************************************************************************)
EXTENDS LocalMemoryStore, TLAPS

\* The functions over all regions; mode_change comes to registered regions only.
StoreTypeOK ==
    /\ far_memory_mode \in BOOLEAN /\ torn \in BOOLEAN
    /\ regions \subseteq Region /\ mapping \subseteq Region /\ todo \subseteq mapping
    /\ backing_data \in [Region -> Value \cup {Absent}]
    /\ memory \in [Region -> Value \cup {Absent}]
    /\ written \in [Region -> Value]

\* As long as no mode_change has failed:
\*  - umap serves registered regions only, in local mode none, and on the way
\*    there only those that mode_change has not come to;
\*  - a registered region has a store, a region that umap does not serve its page;
\*  - what is in the page, or else in the store, is what was written last.
WhereContentsAre ==
    /\ umapped \subseteq mapping
    /\ todo = {} /\ ~far_memory_mode => umapped = {}
    /\ todo # {} /\ far_memory_mode => umapped \subseteq todo
    /\ \A r \in mapping : backing_data[r] # Absent
    /\ \A r \in (regions \cup mapping) \ umapped : memory[r] # Absent
    /\ \A r \in regions : Contents(r) = written[r]

StoreInv == StoreTypeOK /\ (~torn => WhereContentsAre)

-----------------------------------------------------------------------------
LEMMA StoreInitEstablishes ==
    ASSUME StoreAssumption, StoreInit PROVE StoreInv
BY DEF StoreAssumption, StoreInit, StoreInv, StoreTypeOK, WhereContentsAre, Contents, Region

\* umap moves contents between page and store of a region.
LEMMA UmapPreserves ==
    ASSUME StoreAssumption, StoreInv, NEW r \in Region, fill(r) \/ evict(r)
    PROVE  StoreInv'
<1> USE DEF StoreAssumption, StoreInv, StoreTypeOK, WhereContentsAre, Contents
<1>1. CASE fill(r)
  BY <1>1 DEF fill
<1>2. CASE evict(r)
  BY <1>2 DEF evict
<1> QED
  BY <1>1, <1>2

\* A new region begins with zeros, in its page or in its store.
LEMMA CreatePreserves ==
    ASSUME StoreAssumption, StoreInv, NEW r \in Region,
           create_region(r) \/ create_without_store(r) \/ create_without_umap(r)
    PROVE  StoreInv'
<1> USE DEF StoreAssumption, StoreInv, StoreTypeOK, WhereContentsAre, Contents, Fresh
<1>1. CASE create_region(r)
  BY <1>1 DEF create_region
<1>2. CASE create_without_store(r)
  BY <1>2 DEF create_without_store
<1>3. CASE create_without_umap(r)
  BY <1>3 DEF create_without_umap
<1> QED
  BY <1>1, <1>2, <1>3

LEMMA WritePreserves ==
    ASSUME StoreAssumption, StoreInv, NEW r \in Region, NEW v \in Value, write(r, v)
    PROVE  StoreInv'
BY DEF StoreAssumption, StoreInv, StoreTypeOK, WhereContentsAre, Contents, write

\* In local mode nothing is under umap, so that uunmap need not be called.
LEMMA DestroyPreserves ==
    ASSUME StoreAssumption, StoreInv, NEW r \in Region, destroy_region(r)
    PROVE  StoreInv'
BY DEF StoreAssumption, StoreInv, StoreTypeOK, WhereContentsAre, Contents, destroy_region,
       StillUmapped

\* The first step of mode_change, or all of it if nothing is registered.
LEMMA ModeChangePreserves ==
    ASSUME StoreAssumption, StoreInv, mode_change
    PROVE  StoreInv'
BY DEF StoreAssumption, StoreInv, StoreTypeOK, WhereContentsAre, Contents, mode_change,
       ChangeGoesOn

\* A region on its way: its contents are copied before the other copy goes.
LEMMA ChangePreserves ==
    ASSUME StoreAssumption, StoreInv, NEW r \in Region,
           change_to_local(r) \/ change_to_far(r) \/ change_fails(r)
    PROVE  StoreInv'
<1> USE DEF StoreAssumption, StoreInv, StoreTypeOK, WhereContentsAre, Contents, ChangeGoesOn
<1>1. CASE change_to_local(r)
  BY <1>1 DEF change_to_local
<1>2. CASE change_to_far(r)
  BY <1>2 DEF change_to_far, Saved
<1>3. CASE change_fails(r)
  BY <1>3 DEF change_fails, Saved
<1> QED
  BY <1>1, <1>2, <1>3

\* The invariant holds in every reachable state.
THEOREM StoreInvHolds ==
    ASSUME StoreAssumption PROVE StoreSpec => []StoreInv
<1>1. StoreInit => StoreInv
  BY StoreInitEstablishes
<1>2. StoreInv /\ [StoreNext]_store_vars => StoreInv'
  <2> SUFFICES ASSUME StoreInv, [StoreNext]_store_vars PROVE StoreInv'
    OBVIOUS
  <2>1. CASE UNCHANGED store_vars
    BY <2>1 DEF StoreInv, StoreTypeOK, WhereContentsAre, Contents, store_vars
  <2>2. CASE StoreNext
    BY <2>1, <2>2, UmapPreserves, CreatePreserves, WritePreserves, DestroyPreserves,
       ModeChangePreserves, ChangePreserves DEF StoreNext
  <2> QED
    BY <2>1, <2>2
<1> QED
  BY <1>1, <1>2, PTL DEF StoreSpec

\* A region holds what was last written to it, whatever umap takes out or brings
\* back and wherever mode_change stands, until a mode_change fails.
THEOREM ContentsKeptHolds ==
    ASSUME StoreAssumption PROVE StoreSpec => []ContentsKept
<1>1. StoreInv => ContentsKept
  BY DEF StoreInv, WhereContentsAre, ContentsKept
<1> QED
  BY <1>1, StoreInvHolds, PTL

\* umap never serves a region whose store has been destroyed, and none in local mode.
THEOREM UmapExactHolds ==
    ASSUME StoreAssumption PROVE StoreSpec => []UmapExact
<1>1. StoreInv => UmapExact
  BY DEF StoreInv, WhereContentsAre, UmapExact
<1> QED
  BY <1>1, StoreInvHolds, PTL
=============================================================================
