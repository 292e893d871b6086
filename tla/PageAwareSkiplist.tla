--------------------------- MODULE PageAwareSkiplist ---------------------------
(***************************************************************************)
(* PageAware::SkiplistMap (page_aware/skiplist.hpp): a skip list without   *)
(* purely local memory and without priorities.  A new node goes to the     *)
(* block of its successor if there is room, else to plain memory, where    *)
(* the header is; batch_block puts all nodes into blocks.                  *)
(*                                                                         *)
(* What is the same code as in the blocked skip list is taken from there,  *)
(* by Blocked!; the data are represented alike, without last_local_node.   *)
(***************************************************************************)
EXTENDS NodeStore, Sequences

CONSTANTS Key, MaxLevel, BlockUnits   \* as in BlockedSkiplist

VARIABLES
    list,         \* the members of the map and its nodes
    last_call     \* the last call, its key, and the answer to it

page_list_vars == <<list, last_call>>

Blocked == INSTANCE BlockedSkiplist WITH LocalUnits <- {MaxLevel + 2}, local_units <- MaxLevel + 2

\* SkiplistMap(): the header, on every level.
Empty == [nodes |-> [a \in {header} |->
                        [key |-> -1, level |-> MaxLevel,
                         links |-> [l \in Blocked!Level |-> [prev |-> header, next |-> header]]]],
          size_cnt |-> 0]

\* The sub-allocator of a node or of the header.
SubOf(node) == IF node = header THEN swappable_plain ELSE Sub(node)

SubFor(s, cursor, level) ==
    IF Blocked!HasRoom(s, SubOf(cursor), level) THEN SubOf(cursor) ELSE swappable_plain

\* The search of insert is that of lower_bound_impl.
insert(key, new_lv) ==
    LET cursor == Blocked!lower_bound_impl(list, key)
        to     == FreshIn(list, SubFor(list, cursor, new_lv))
    IN  /\ list' = IF Blocked!IsAt(list, cursor, key) THEN list
                   ELSE Blocked!LinkIn([list EXCEPT !.size_cnt = @ + 1], to, key, new_lv, cursor)
        /\ last_call' = [call |-> "insert", key |-> key,
                         answer |-> ~Blocked!IsAt(list, cursor, key)]

erase(key) ==
    LET deleted  == Blocked!lower_bound_impl(list, key)
        n        == list.nodes[deleted]
        unlinked == WithoutNode(Blocked!Join(list, deleted,
                        [l \in 0 .. n.level |-> n.links[l].prev],
                        [l \in 0 .. n.level |-> n.links[l].next]), deleted)
    IN  /\ list' = IF ~Blocked!IsAt(list, deleted, key) THEN list
                   ELSE [unlinked EXCEPT !.size_cnt = @ - 1]
        /\ last_call' = [call |-> "erase", key |-> key,
                         answer |-> Blocked!IsAt(list, deleted, key)]

\* clear_impl frees what the lowest level leads to.
RECURSIVE clear_impl(_, _)
clear_impl(s, node) ==
    IF node = header THEN s
    ELSE clear_impl(WithoutNode(s, node), Blocked!PrevAt(s, node, 0))

clear ==
    /\ list' = [clear_impl(list, Blocked!PrevAt(list, header, 0)) EXCEPT
                   !.size_cnt = 0, !.nodes[header] = Empty.nodes[header]]
    /\ last_call' = [call |-> "clear"]

\* From the last key to the first.
RECURSIVE PlaceAll(_, _)
PlaceAll(q, node) ==
    IF node = header THEN q.s
    ELSE LET r == Blocked!Place(q, node)
         IN  PlaceAll([s |-> r.s, block |-> r.block], Blocked!PrevAt(r.s, r.node, 0))

batch_block ==
    /\ list.size_cnt # 0
    /\ list' = PlaceAll([s |-> list, block |-> new_per_page(list)],
                        Blocked!PrevAt(list, header, 0))
    /\ UNCHANGED last_call

-----------------------------------------------------------------------------
Init == list = Empty /\ last_call = [call |-> "none"]
Next == \/ \E x \in Key : (\E lv \in Blocked!Level : insert(x, lv)) \/ erase(x)
        \/ clear
        \/ batch_block
Spec == Init /\ [][Next]_page_list_vars

-----------------------------------------------------------------------------
(* Correctness.                                                            *)

\* The levels lead through their nodes in the order of the keys, and lookups are
\* right (as for the blocked skip list).
LevelsSorted == Blocked!LevelsSorted

\* The map behaves as a set of keys, wherever its nodes are.
Map == INSTANCE OrderedMap WITH
    keys <- {list.nodes[a].key : a \in DOMAIN list.nodes \ {header}}
ImplementsMap == Map!Spec
=============================================================================
