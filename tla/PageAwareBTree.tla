---------------------------- MODULE PageAwareBTree ----------------------------
(***************************************************************************)
(* PageAware::BTreeMap (page_aware/b_tree.hpp, .ipp, b_tree_iterator.ipp): *)
(* a B-tree without purely local memory.  A new node goes to the block of  *)
(* its parent if there is room, else to plain memory; batch_block and      *)
(* batch_vEB put the whole tree into blocks.  There is no list of nodes:   *)
(* siblings and subtrees are found through parents.                        *)
(*                                                                         *)
(* What is the same code as in the blocked tree is taken from there, by    *)
(* Blocked!; the data are represented alike.  The header is in plain       *)
(* memory; its address only names it.                                      *)
(***************************************************************************)
EXTENDS NodeStore, SequencesExt

CONSTANTS Key, MaxNElemsSet, NodeSizes, BlockSize   \* as in BlockedBTree

VARIABLES
    MaxNElems,    \* the template parameter
    node_size,    \* the size of a node
    tree,         \* the members of the map and its nodes
    last_call,    \* the last call, its key, and the answer to it
    returned      \* the iterator that it returned

page_tree_vars == <<MaxNElems, node_size, tree, last_call, returned>>

Blocked == INSTANCE BlockedBTree WITH LocalRooms <- {1}, local_room <- 1

-----------------------------------------------------------------------------
\* BTreeMap(): the header alone.
Empty == [nodes |-> [a \in {header} |->
                        [elems |-> <<>>, children |-> <<>>, parent |-> nullptr]],
          size_cnt |-> 0, begin_node |-> header]

\* relocate, where there is room.
relocate(s, node, sub) ==
    LET to    == FreshIn(s, sub)
        moved == Blocked!Adopt(Moved(s, node, to), to, s.nodes[node].children)
    IN  [s |-> [moved EXCEPT
                   !.nodes[s.nodes[node].parent].children =
                       [i \in DOMAIN @ |-> IF @[i] = node THEN to ELSE @[i]],
                   !.begin_node = IF @ = node THEN to ELSE @],
         node |-> to]

-----------------------------------------------------------------------------
(* insert.  The call in progress is the record r of BlockedBTree.          *)

\* batch_allocate in a block that is full fails; plain memory does not.
SubFor(s, suballoc) == IF Blocked!HasRoom(s, suballoc) THEN suballoc ELSE swappable_plain

\* A full node: the upper half goes to a new node.
split(r, node, ub, sub) ==
    LET s        == r.s
        old      == s.nodes[node]
        to       == FreshIn(s, sub)
        halves   == Blocked!Halves(InsertAt(old.elems, ub + 1, r.pushed_up))
        keep     == Len(halves.left)
        children == IF old.children = <<>> THEN <<>>
                    ELSE InsertAt(old.children, ub + 2, r.new_child)
        lower    == SubSeq(children, 1, keep + 1)
        upper    == SubSeq(children, keep + 2, Len(children))
        shorter  == [s EXCEPT !.nodes[node].elems = halves.left,
                              !.nodes[node].children = IF @ = <<>> THEN @ ELSE lower]
        both     == WithNode(shorter, to, [elems |-> halves.right, children |-> upper,
                                           parent |-> old.parent])
    IN  [s         |-> Blocked!Adopt(both, to, upper),
         at        |-> IF r.at[1] # nullptr \/ ub = keep THEN r.at
                       ELSE IF ub < keep THEN <<node, ub>> ELSE <<to, ub - keep>>,
         inserted  |-> r.inserted,
         new_child |-> to,
         pushed_up |-> halves.up]

RECURSIVE insert_step(_, _, _, _)
insert_step(s, x, node, suballoc) ==
    LET n    == s.nodes[node]
        leaf == n.children = <<>>
        ub   == Blocked!upper_bound(n.elems, x)
        r    == IF leaf
                THEN [s |-> [s EXCEPT !.size_cnt = @ + 1], at |-> <<nullptr, 0>>,
                      inserted |-> TRUE, new_child |-> nullptr, pushed_up |-> x]
                ELSE insert_step(s, x, n.children[ub + 1], Sub(node))
    IN  IF Blocked!Found(n.elems, x, ub)
        THEN [s |-> s, at |-> <<node, ub - 1>>, inserted |-> FALSE,
              new_child |-> nullptr, pushed_up |-> x]
        ELSE IF ~leaf /\ r.new_child = nullptr THEN r
        ELSE IF Len(n.elems) # MaxNElems THEN Blocked!put_into(r, node, ub)
        ELSE split(r, node, ub, SubFor(r.s, suballoc))

\* The first element makes the root, in the sub-allocator of the header.
insert_first(s, x) ==
    LET root == FreshIn(s, swappable_plain)
    IN  [s |-> [WithNode(s, root, [elems |-> <<x>>, children |-> <<>>, parent |-> header])
                   EXCEPT !.nodes[header].children = <<root>>,
                          !.begin_node = root, !.size_cnt = 1],
         at |-> <<root, 0>>, inserted |-> TRUE]

grow(r, root) ==
    LET to  == FreshIn(r.s, swappable_plain)
        top == WithNode(r.s, to, [elems |-> <<r.pushed_up>>, parent |-> header,
                                  children |-> <<root, r.new_child>>])
    IN  [s |-> Blocked!Adopt([top EXCEPT !.nodes[header].children = <<to>>],
                             to, <<root, r.new_child>>),
         at |-> IF r.at[1] = nullptr THEN <<to, 0>> ELSE r.at,
         inserted |-> r.inserted]

Inserted(s, x) ==
    LET root == Blocked!Root(s)
        r    == insert_step(s, x, root, swappable_plain)
    IN  IF root = nullptr THEN insert_first(s, x)
        ELSE IF r.new_child = nullptr THEN r ELSE grow(r, root)

insert(x) ==
    LET r == Inserted(tree, x)
    IN  /\ tree' = r.s
        /\ last_call' = [call |-> "insert", key |-> x, answer |-> r.inserted]
        /\ returned' = r.at
        /\ UNCHANGED <<MaxNElems, node_size>>

-----------------------------------------------------------------------------
(* erase, with holes and successors as in BlockedBTree.                    *)

\* The sibling before (-1) or behind (1) a node, or null.
SiblingAt(s, node, step) ==
    LET children == s.nodes[s.nodes[node].parent].children
        i        == SelectInSeq(children, LAMBDA c : c = node) + step
    IN  IF i \in DOMAIN children THEN children[i] ELSE nullptr
HasSpare(s, sibling) ==
    sibling # nullptr /\ Len(s.nodes[sibling].elems) # Blocked!MinNElems

borrow_from_prev(s, node, prev, successor) ==
    LET parent == s.nodes[node].parent
        p      == s.nodes[prev]
    IN  Blocked!Adopt([s EXCEPT
            !.nodes[node].elems = <<s.nodes[parent].elems[successor]>> \o @,
            !.nodes[node].children = Blocked!LastChild(p) \o @,
            !.nodes[parent].elems[successor] = Last(p.elems),
            !.nodes[prev].elems = Front(@),
            !.nodes[prev].children = IF @ = <<>> THEN @ ELSE Front(@)],
            node, Blocked!LastChild(p))

borrow_from_next(s, node, next, successor) ==
    LET parent == s.nodes[node].parent
        q      == s.nodes[next]
    IN  Blocked!Adopt([s EXCEPT
            !.nodes[node].elems = Append(@, s.nodes[parent].elems[successor + 1]),
            !.nodes[node].children = @ \o Blocked!FirstChild(q),
            !.nodes[parent].elems[successor + 1] = Head(q.elems),
            !.nodes[next].elems = Tail(@),
            !.nodes[next].children = IF @ = <<>> THEN @ ELSE Tail(@)],
            node, Blocked!FirstChild(q))

merge(s, node, next, successor) ==
    LET q      == s.nodes[next]
        pulled == s.nodes[s.nodes[node].parent].elems[successor + 1]
    IN  WithoutNode(Blocked!Adopt([s EXCEPT
            !.nodes[node].elems = Append(@, pulled) \o q.elems,
            !.nodes[node].children = @ \o q.children], node, q.children), next)

fill_hole(s, hole, node, successor) ==
    LET n    == s.nodes[node]
        prev == SiblingAt(s, node, -1)
        next == SiblingAt(s, node, 1)
        t    == [s EXCEPT !.nodes[node].elems = RemoveAt(@, hole + 1),
                          !.nodes[node].children =
                               IF @ = <<>> THEN @ ELSE RemoveAt(@, hole + 2)]
    IN  IF Len(n.elems) # Blocked!MinNElems \/ node = Blocked!Root(s)
        THEN [s |-> t, pulled_down |-> Blocked!NoHole]
        ELSE IF HasSpare(s, prev)
        THEN [s |-> borrow_from_prev(t, node, prev, successor), pulled_down |-> Blocked!NoHole]
        ELSE IF HasSpare(s, next)
        THEN [s |-> borrow_from_next(t, node, next, successor), pulled_down |-> Blocked!NoHole]
        ELSE IF prev # nullptr
        THEN [s |-> merge(t, prev, node, successor - 1), pulled_down |-> successor - 1]
        ELSE [s |-> merge(t, node, next, successor), pulled_down |-> successor]

FillAbove(r, node, successor) ==
    IF r.pulled_down = Blocked!NoHole THEN r ELSE fill_hole(r.s, r.pulled_down, node, successor)

RECURSIVE swap_predecessor(_, _, _, _, _)
swap_predecessor(s, target, i, node, successor) ==
    LET n == s.nodes[node]
        k == Len(n.elems)
    IN  IF n.children = <<>>
        THEN fill_hole([s EXCEPT !.nodes[target].elems[i + 1] = Last(n.elems)],
                       k - 1, node, successor)
        ELSE FillAbove(swap_predecessor(s, target, i, Last(n.children), k), node, successor)

RECURSIVE erase_step(_, _, _, _)
erase_step(s, key, node, successor) ==
    LET n     == s.nodes[node]
        leaf  == n.children = <<>>
        ub    == Blocked!upper_bound(n.elems, key)
        found == Blocked!Found(n.elems, key, ub)
        less  == [s EXCEPT !.size_cnt = @ - 1]
    IN  IF found /\ leaf THEN fill_hole(less, ub - 1, node, successor) @@ [answer |-> TRUE]
        ELSE IF found
        THEN FillAbove(swap_predecessor(less, node, ub - 1, n.children[ub], ub - 1),
                       node, successor) @@ [answer |-> TRUE]
        ELSE IF leaf THEN [s |-> s, pulled_down |-> Blocked!NoHole, answer |-> FALSE]
        ELSE LET r == erase_step(s, key, n.children[ub + 1], ub)
             IN  FillAbove(r, node, successor) @@ [answer |-> r.answer]

\* A root without elements gives way to its only child.
drop_root(s, root) ==
    LET below == Blocked!FirstChild(s.nodes[root])
    IN  WithoutNode(Blocked!Adopt([s EXCEPT !.nodes[header].children = below], header, below), root)

Erased(s, key) ==
    LET root == Blocked!Root(s)
        r    == erase_step(s, key, root, 0)
    IN  IF root = nullptr THEN [s |-> s, answer |-> FALSE]
        ELSE IF r.s.nodes[root].elems = <<>>
        THEN [s |-> drop_root(r.s, root), answer |-> r.answer] ELSE r

erase(key) ==
    LET r == Erased(tree, key)
    IN  /\ tree' = r.s
        /\ last_call' = [call |-> "erase", key |-> key, answer |-> r.answer]
        /\ returned' = Blocked!End
        /\ UNCHANGED <<MaxNElems, node_size>>

\* clear_step frees what the children lead to.
RECURSIVE clear_step(_, _)
clear_step(s, node) ==
    LET children == s.nodes[node].children
        below[i \in 0 .. Len(children)] ==
            IF i = 0 THEN s ELSE clear_step(below[i - 1], children[i])
    IN  WithoutNode(below[Len(children)], node)

clear ==
    /\ tree' = [IF Blocked!Root(tree) = nullptr THEN tree
                ELSE clear_step(tree, Blocked!Root(tree))
                EXCEPT !.nodes[header].children = <<>>, !.size_cnt = 0, !.begin_node = header]
    /\ last_call' = [call |-> "clear"] /\ returned' = Blocked!End
    /\ UNCHANGED <<MaxNElems, node_size>>

-----------------------------------------------------------------------------
(* Batch placement of all nodes; q is the record of BlockedBTree.          *)

Place(q, node) ==
    LET block == IF Blocked!IsOccupancyUnder70(q.s, q.block) THEN q.block ELSE new_per_page(q.s)
        moved == relocate(q.s, node, block)
    IN  IF IsLocal(node) \/ q.thrown THEN q @@ [node |-> node]
        ELSE IF ~Blocked!HasRoom(q.s, block) THEN [q EXCEPT !.thrown = TRUE] @@ [node |-> node]
        ELSE [s |-> moved.s, node |-> moved.node, block |-> block, thrown |-> FALSE]

RECURSIVE batch_block_step(_, _)
batch_block_step(q, node) ==
    LET children == q.s.nodes[node].children
        below[i \in 0 .. Len(children)] ==
            IF i = 0 THEN q
            ELSE batch_block_step(below[i - 1], below[i - 1].s.nodes[node].children[i])
    IN  Blocked!Going(Place(below[Len(children)], node))

\* From the top of a subtree to that of the next one: up to a node that is not the
\* last child, to its sibling, and as far down again.
RECURSIVE NextSubtree(_, _, _)
NextSubtree(s, subtree, down_cnt) ==
    IF SiblingAt(s, subtree, 1) = nullptr
    THEN NextSubtree(s, s.nodes[subtree].parent, down_cnt + 1)
    ELSE Blocked!Descend(s, SiblingAt(s, subtree, 1), down_cnt, TRUE)

RECURSIVE batch_vEB_step(_, _, _)
RECURSIVE vEB_subtrees(_, _, _, _)
batch_vEB_step(q, node, height) ==
    IF height = 0 THEN q @@ [node |-> node]
    ELSE IF height = 1 THEN Place(q, node)
    ELSE LET upper == (height + 1) \div 2
             top   == batch_vEB_step(q, node, upper)
             first == Blocked!Descend(top.s, top.node, upper, TRUE)
             last  == Blocked!Descend(top.s, top.node, upper, FALSE)
         IN  vEB_subtrees(Blocked!Going(top), first, last, height - upper)
                @@ [node |-> top.node]
vEB_subtrees(q, subtree, last, height) ==
    LET r == batch_vEB_step(q, subtree, height)
    IN  IF subtree = last THEN Blocked!Going(r)
        ELSE vEB_subtrees(Blocked!Going(r), NextSubtree(r.s, r.node, 0), last, height)

FirstBlock(s) == [s |-> s, block |-> new_per_page(s), thrown |-> FALSE]

batch_block ==
    /\ tree.size_cnt # 0
    /\ tree' = batch_block_step(FirstBlock(tree), Blocked!Root(tree)).s
    /\ UNCHANGED <<MaxNElems, node_size, last_call, returned>>

batch_vEB ==
    /\ tree.size_cnt # 0
    /\ tree' = batch_vEB_step(FirstBlock(tree), Blocked!Root(tree),
                              Blocked!Height(tree, Blocked!Root(tree))).s
    /\ UNCHANGED <<MaxNElems, node_size, last_call, returned>>

-----------------------------------------------------------------------------
Init ==
    /\ MaxNElems \in MaxNElemsSet
    /\ node_size \in NodeSizes
    /\ tree = Empty
    /\ last_call = [call |-> "none"] /\ returned = Blocked!End

Next == (\E x \in Key : insert(x) \/ erase(x)) \/ clear \/ batch_block \/ batch_vEB
Spec == Init /\ [][Next]_page_tree_vars

-----------------------------------------------------------------------------
(* Correctness.                                                            *)

\* The tree is a B-tree in the order of the keys in which lookups and ++ are right
\* (as for the blocked tree); no node is lost, and children and parents agree.
SearchTree ==
    /\ Blocked!SearchTree
    /\ DOMAIN tree.nodes = {header} \cup UNION {Range(l) : l \in Range(Blocked!Levels(tree))}
    /\ \A a \in DOMAIN tree.nodes : \A c \in Range(tree.nodes[a].children) :
          tree.nodes[c].parent = a

\* The map behaves as a set of keys, wherever its nodes are.
Map == INSTANCE OrderedMap WITH
    keys <- UNION {Range(tree.nodes[a].elems) : a \in DOMAIN tree.nodes}
ImplementsMap == Map!Spec
=============================================================================
