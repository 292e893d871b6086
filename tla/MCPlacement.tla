------------------------------ MODULE MCPlacement ------------------------------
(***************************************************************************)
(* What decides where objects lie, for model checking: the hint allocator  *)
(* and the blocked and page-aware containers.  A behaviour is one of the   *)
(* part that `part` names, while the others stay as they began.            *)
(***************************************************************************)
EXTENDS NodeStore, SequencesExt, MCHintAlloc

CONSTANTS BTreeKey, PageTreeKey, MaxNElemsSet, LocalRooms, NodeSizes, BlockSize,
          SkiplistKey, PageListKey, MaxLevel, LocalUnits, BlockUnits

VARIABLES part,
          MaxNElems, local_room, node_size, tree, last_tree_call, returned,
          page_tree, last_page_tree_call, page_returned,
          local_units, list, last_list_call,
          page_list, last_page_list_call

B == INSTANCE BlockedBTree WITH Key <- BTreeKey, last_call <- last_tree_call
S == INSTANCE BlockedSkiplist WITH Key <- SkiplistKey, last_call <- last_list_call
PageTree == INSTANCE PageAwareBTree WITH
                Key <- PageTreeKey, tree <- page_tree,
                last_call <- last_page_tree_call, returned <- page_returned
PageList == INSTANCE PageAwareSkiplist WITH
                Key <- PageListKey, list <- page_list, last_call <- last_page_list_call

ASSUME B!BTreeAssumption /\ S!SkiplistAssumption /\ HintAssumption

parameters == <<MaxNElems, node_size>>
tree_vars == <<local_room, tree, last_tree_call, returned>>
page_tree_vars == <<page_tree, last_page_tree_call, page_returned>>
page_list_vars == <<page_list, last_page_list_call>>
list_vars == <<local_units, list, last_list_call>>
vars      == <<part, parameters, tree_vars, page_tree_vars, list_vars, page_list_vars, hint_vars>>

\* A container that is not used is as it would be with one of its parameters.
AnyOf(set) == CHOOSE x \in set : TRUE

Init ==
    /\ part \in {"BTreeMap", "PageAwareBTreeMap", "SkiplistMap", "PageAwareSkiplistMap",
                 "HintAllocator"}
    /\ B!BTreeInit /\ PageTree!Init /\ S!Init /\ PageList!Init /\ HintInit
    /\ part \notin {"BTreeMap", "PageAwareBTreeMap"} =>
          MaxNElems = AnyOf(MaxNElemsSet) /\ node_size = AnyOf(NodeSizes)
    /\ part # "BTreeMap" => local_room = AnyOf(LocalRooms)
    /\ part # "SkiplistMap" => local_units = AnyOf(LocalUnits)

Next ==
    \/ /\ part = "BTreeMap" /\ B!BTreeNext
       /\ UNCHANGED <<part, page_tree_vars, list_vars, page_list_vars, hint_vars>>
    \/ /\ part = "PageAwareBTreeMap" /\ PageTree!Next
       /\ UNCHANGED <<part, tree_vars, list_vars, page_list_vars, hint_vars>>
    \/ /\ part = "SkiplistMap" /\ S!Next
       /\ UNCHANGED <<part, parameters, tree_vars, page_tree_vars, page_list_vars, hint_vars>>
    \/ /\ part = "PageAwareSkiplistMap" /\ PageList!Next
       /\ UNCHANGED <<part, parameters, tree_vars, page_tree_vars, list_vars, hint_vars>>
    \/ /\ part = "HintAllocator" /\ HintNext
       /\ UNCHANGED <<part, parameters, tree_vars, page_tree_vars, list_vars, page_list_vars>>

Spec == Init /\ [][Next]_vars

-----------------------------------------------------------------------------
(* States that differ only in the addresses of nodes, or in what the last   *)
(* call returned, are one state.                                           *)

\* A node by its place in the list, a sub-allocator by the first node in it.
At(nodes, a) == IF a \in Range(nodes) THEN SelectInSeq(nodes, LAMBDA b : b = a) ELSE 0
Home(nodes, a) == IF IsBlock(Sub(a)) THEN 1 + SelectInSeq(nodes, LAMBDA b : Sub(b) = Sub(a))
                  ELSE Sub(a)

\* The nodes of a tree in the given order, which has all that can be reached.
NodesView(nodes, s) ==
    [i \in DOMAIN nodes |->
        <<Home(nodes, nodes[i]),
          IF nodes[i] \notin DOMAIN s.nodes THEN <<>>
          ELSE LET n == s.nodes[nodes[i]]
               IN  <<n.elems, At(nodes, n.parent),
                     [j \in DOMAIN n.children |-> At(nodes, n.children[j])]>>>>]
TreeView ==
    LET nodes == <<header>> \o B!List(tree)
        prev(a) == IF a \in DOMAIN tree.nodes THEN At(nodes, tree.nodes[a].prev) ELSE 0
    IN  <<NodesView(nodes, tree), [i \in DOMAIN nodes |-> prev(nodes[i])],
          At(nodes, tree.begin_node),
          At(nodes, tree.last_local_node), tree.size_cnt, Cardinality(DOMAIN tree.nodes)>>
PageTreeView ==
    LET nodes == <<header>> \o FlattenSeq(PageTree!Blocked!Levels(page_tree))
    IN  <<NodesView(nodes, page_tree), At(nodes, page_tree.begin_node),
          page_tree.size_cnt, Cardinality(DOMAIN page_tree.nodes)>>

RECURSIVE NodesFrom(_, _, _)
NodesFrom(s, a, n) ==
    IF n = 0 \/ a \notin DOMAIN s.nodes \ {header} THEN <<>>
    ELSE <<a>> \o NodesFrom(s, S!NextAt(s, a, 0), n - 1)
NodesOf(s) == <<header>> \o NodesFrom(s, S!NextAt(s, header, 0), Cardinality(DOMAIN s.nodes))
ListView(s) ==
    LET nodes == NodesOf(s)
        n(i)  == s.nodes[nodes[i]]
    IN  <<[i \in DOMAIN nodes |->
              <<Home(nodes, nodes[i]), n(i).key,
                [l \in DOMAIN n(i).links |-> <<At(nodes, n(i).links[l].prev),
                                               At(nodes, n(i).links[l].next)>>]>>],
          s.size_cnt, Cardinality(DOMAIN s.nodes)>>

\* The equation is true.  To evaluate it TLC computes the functions of the state
\* from the chains of updates as which it keeps them, before it takes a further
\* step from them.
View == <<part, parameters, local_room, TreeView, PageTreeView, local_units,
          ListView(list), At(NodesOf(list), list.last_local_node), ListView(page_list),
          HintView, vars = vars>>

-----------------------------------------------------------------------------
(* The properties, stated in the modules of the parts.  Those of HintAlloc  *)
(* are checked as they are, this module EXTENDS it.                        *)

\* The B-trees: search trees in which lookups are right, a breadth-first list whose
\* local nodes are a prefix (blocked), and maps.
SearchTree         == B!SearchTree /\ PageTree!SearchTree
BreadthFirst       == B!BreadthFirst
TreeLocalPrefix    == B!LocalPrefix
BTreeImplementsMap == B!BTreeImplementsMap /\ PageTree!ImplementsMap

\* What insert answers, and what -- does.
InsertReturnsElement     == B!InsertReturnsElement
DecrementUndoesIncrement == B!DecrementUndoesIncrement

\* The skip lists: sorted levels in which lookups are right, local nodes that are a
\* prefix in priority (blocked), and maps.
LevelsSorted          == S!LevelsSorted /\ PageList!LevelsSorted
SkiplistLocalPrefix   == S!LocalPrefix
SkiplistImplementsMap == S!ImplementsMap /\ PageList!ImplementsMap
=============================================================================
