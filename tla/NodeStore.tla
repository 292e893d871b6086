------------------------------ MODULE NodeStore ------------------------------
(***************************************************************************)
(* The nodes of a container and the memory they are in, as the containers  *)
(* of far_memory_container see the collective allocator: purely local      *)
(* memory of limited room, the plain swappable sub-allocator, and per-page *)
(* blocks.  An address is <<sub-allocator, number>>, so that               *)
(* get_suballocator(alloc, ptr) is its first part; memory that is freed is *)
(* reused at once.  A container is a record s; s.nodes are its nodes.      *)
(***************************************************************************)
EXTENDS Integers, FiniteSets, TLC

purely_local    == 0
swappable_plain == 1    \* per-page blocks are numbered from 2
IsBlock(sub)    == sub > swappable_plain

nullptr   == <<-1, 0>>
header    == <<purely_local, 0>>
Sub(node) == node[1]
IsLocal(node) == Sub(node) = purely_local

UsedIn(s, sub) == {a \in DOMAIN s.nodes : Sub(a) = sub}
FreshIn(s, sub) ==
    CHOOSE a \in {<<sub, i>> : i \in 0 .. Cardinality(UsedIn(s, sub))} : a \notin DOMAIN s.nodes

\* get_suballocator(alloc, new_per_page)
new_per_page(s) ==
    CHOOSE b \in 2 .. Cardinality(DOMAIN s.nodes) + 2 : UsedIn(s, b) = {}

\* f @@ <<>> is f; TLC computes it once instead of at every use.
WithNode(s, a, node) == [s EXCEPT !.nodes = (a :> node) @@ @]
WithoutNode(s, a) == [s EXCEPT !.nodes = [b \in DOMAIN @ \ {a} |-> @[b]] @@ <<>>]

\* The old memory is freed after the node has been moved to the new one.
Moved(s, from, to) == WithoutNode(WithNode(s, to, s.nodes[from]), from)
=============================================================================
