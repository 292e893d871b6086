----------------------------- MODULE BlockedBTree -----------------------------
(***************************************************************************)
(* Blocked::BTreeMap (blocked/b_tree.hpp, .ipp, b_tree_node.ipp,           *)
(* b_tree_iterator.ipp): a B-tree that keeps its upper levels in purely    *)
(* local memory.  All nodes, the header first, form a circular list in     *)
(* breadth-first order; last_local_node is the last of its local prefix.   *)
(* A call that needs local memory moves the last local node away, one that *)
(* frees local memory fetches the first far node.                          *)
(*                                                                         *)
(* The members of a node are sequences, counted from 1 where the code      *)
(* counts from 0; elements are their keys, and a leaf has no children.     *)
(* What stands behind n_elems in the arrays is left out.  A call of the    *)
(* program is one step; its recursion runs on a record s of the members.   *)
(***************************************************************************)
EXTENDS NodeStore, SequencesExt

CONSTANTS
    Key,          \* a set of naturals
    MaxNElemsSet, \* values of the template parameter MaxNElems
    LocalRooms,   \* numbers of nodes that purely local memory can hold
    NodeSizes,    \* possible sizes of a node
    BlockSize     \* the room of a per-page block

\* A block holds a node.  Local memory for the header and one node only is left
\* out here: MCPlacementRoot.cfg shows what becomes of the list then.
BTreeAssumption ==
    /\ Key \subseteq Nat
    /\ \A m \in MaxNElemsSet : m \in Nat /\ m >= 2
    /\ \A r \in LocalRooms : r \in Nat \ {0}
    /\ \A n \in NodeSizes : n \in 1 .. BlockSize

VARIABLES
    MaxNElems,    \* the template parameter
    local_room,   \* what purely local memory can hold
    node_size,    \* the size of a node
    tree,         \* the members of the map and its nodes
    last_call,    \* the last call, its key, and the answer to it
    returned      \* the iterator that it returned

btree_vars == <<MaxNElems, local_room, node_size, tree, last_call, returned>>

MinNElems == MaxNElems \div 2

-----------------------------------------------------------------------------
(* Memory.                                                                 *)

UsedBytes(s, sub) == node_size * Cardinality(UsedIn(s, sub))
HasRoom(s, sub) ==
    \/ sub = swappable_plain
    \/ sub = purely_local /\ Cardinality(UsedIn(s, sub)) < local_room
    \/ IsBlock(sub) /\ UsedBytes(s, sub) + node_size <= BlockSize

\* Mutant of Adopt: the last child is forgotten.
Adopt_less(s, parent, children) ==
    [s EXCEPT !.nodes = [a \in DOMAIN @ |->
        IF a \in Range(SubSeq(children, 1, Len(children) - 1))
        THEN [@[a] EXCEPT !.parent = parent] ELSE @[a]] @@ <<>>]

\* The children of a node point back to it.
Adopt(s, parent, children) ==
    [s EXCEPT !.nodes = [a \in DOMAIN @ |->
        IF a \in Range(children) THEN [@[a] EXCEPT !.parent = parent] ELSE @[a]] @@ <<>>]

Root(s) == IF s.nodes[header].children = <<>> THEN nullptr ELSE s.nodes[header].children[1]
IsLeaf(s, node) == s.nodes[node].children = <<>>

\* BTreeMap(): the header alone.
Empty == [nodes |-> [a \in {header} |-> [elems |-> <<>>, children |-> <<>>,
                         parent |-> nullptr, prev |-> header, next |-> header]],
          size_cnt |-> 0, begin_node |-> header, last_local_node |-> header]

\* Everything that points to a node that has moved.
Relinked(s, from, to) ==
    LET node  == s.nodes[to]
        moved == Adopt([s EXCEPT !.nodes[node.prev].next = to,
                                 !.nodes[node.next].prev = to], to, node.children)
    IN  [moved EXCEPT
            !.nodes[node.parent].children = [i \in DOMAIN @ |-> IF @[i] = from THEN to ELSE @[i]],
            !.begin_node = IF @ = from THEN to ELSE @]

\* relocate, where there is room.
relocate(s, node, sub) ==
    LET to == FreshIn(s, sub) IN [s |-> Relinked(Moved(s, node, to), node, to), node |-> to]

relocate_last_local_to_far(s) ==
    LET node == s.last_local_node
    IN  relocate([s EXCEPT !.last_local_node = s.nodes[node].prev], node, swappable_plain).s

relocate_first_far_to_local(s) ==
    LET moved == relocate(s, s.nodes[s.last_local_node].next, purely_local)
    IN  [moved.s EXCEPT !.last_local_node = moved.node]

-----------------------------------------------------------------------------
(* Search.                                                                 *)

BitWidth(n) == CHOOSE k \in 0 .. n : n < 2 ^ k /\ (k > 0 => n >= 2 ^ (k - 1))

\* BTreeNode::upper_bound: the steps are powers of two; the first comparison
\* makes what is left of n_elems one less than a power of two.
upper_bound(elems, key) ==
    LET steps     == BitWidth(Len(elems)) - 1
        first_idx == Len(elems) - 2 ^ steps
        pos[i \in 0 .. steps] ==
            IF i = steps THEN (IF key < elems[first_idx + 1] THEN 0 ELSE first_idx + 1)
            ELSE IF key < elems[pos[i + 1] + 2 ^ i] THEN pos[i + 1] ELSE pos[i + 1] + 2 ^ i
    IN  pos[0]

\* Mutant of Found: the keys are not compared.
Found_any(elems, key, ub) == ub # 0

Found(elems, key, ub) == ub # 0 /\ elems[ub] = key
End == <<header, 0>>

RECURSIVE find_from(_, _, _)
find_from(s, node, key) ==
    IF node = nullptr THEN End
    ELSE LET n  == s.nodes[node]
             ub == upper_bound(n.elems, key)
         IN  IF Found(n.elems, key, ub) THEN <<node, ub - 1>>
             ELSE find_from(s, IF n.children = <<>> THEN nullptr ELSE n.children[ub + 1], key)
find_impl(s, key) == find_from(s, Root(s), key)

-----------------------------------------------------------------------------
(* insert.  The call in progress is a record r: the map, the iterator to   *)
(* the element if its place is known, and the node and element that go up. *)

\* The node for a split, from the sub-allocator of its parent.  Without room a
\* local parent that has local nodes behind it makes room by sending the last
\* local node away; pointers to that node are corrected in r.
AllocateFor(r, sub, locally) ==
    IF HasRoom(r.s, sub) THEN r @@ [sub |-> sub]
    ELSE IF ~locally THEN r @@ [sub |-> swappable_plain]
    ELSE LET last  == r.s.last_local_node
             s     == relocate_last_local_to_far(r.s)
             to    == s.nodes[s.last_local_node].next
         IN  [r EXCEPT !.s = s,
                       !.at = IF @[1] = last THEN <<to, @[2]>> ELSE @,
                       !.new_child = IF @ = last THEN to ELSE @] @@ [sub |-> sub]

\* A full node and one element more.
Halves(elems) ==
    LET keep == Len(elems) \div 2
    IN  [left |-> SubSeq(elems, 1, keep), up |-> elems[keep + 1],
         right |-> SubSeq(elems, keep + 2, Len(elems))]

\* not full
put_into(r, node, ub) ==
    [r EXCEPT !.s.nodes[node].elems = InsertAt(@, ub + 1, r.pushed_up),
              !.s.nodes[node].children =
                  IF @ = <<>> THEN @ ELSE InsertAt(@, ub + 2, r.new_child),
              !.new_child = nullptr,
              !.at = IF @[1] = nullptr THEN <<node, ub>> ELSE @]

\* A local node behind the last local one becomes the last.
LocalEnd(s, node, sub) == node = s.last_local_node /\ sub = purely_local

\* A full node: the upper half goes to a new node behind it in the list.  The
\* iterator to an element of the new node is one too far.
split(r, node, ub) ==
    LET s        == r.s
        old      == s.nodes[node]
        to       == FreshIn(s, r.sub)
        halves   == Halves(InsertAt(old.elems, ub + 1, r.pushed_up))
        keep     == Len(halves.left)
        children == IF IsLeaf(s, node) THEN <<>> ELSE InsertAt(old.children, ub + 2, r.new_child)
        lower    == IF IsLeaf(s, node) THEN <<>> ELSE SubSeq(children, 1, keep + 1)
        upper    == SubSeq(children, keep + 2, Len(children))
        new_node == [elems |-> halves.right, children |-> upper, parent |-> old.parent,
                     prev |-> node, next |-> old.next]
        shorter  == [s EXCEPT !.nodes[node].elems = halves.left, !.nodes[node].children = lower,
                              !.nodes[old.next].prev = to, !.nodes[node].next = to,
                              !.last_local_node = IF LocalEnd(s, node, r.sub) THEN to ELSE @]
    IN  [s         |-> Adopt(WithNode(shorter, to, new_node), to, upper),
         at        |-> IF r.at[1] # nullptr \/ ub = keep THEN r.at
                       ELSE IF ub < keep THEN <<node, ub>> ELSE <<to, ub - keep>>,
         inserted  |-> r.inserted,
         new_child |-> to,
         pushed_up |-> halves.up]

RECURSIVE insert_step(_, _, _, _)
insert_step(s, x, node, suballoc) ==
    LET n   == s.nodes[node]
        ub  == upper_bound(n.elems, x)
        must_alloc_locally == Sub(node) = purely_local /\ node # s.last_local_node
        r   == IF IsLeaf(s, node)
               THEN [s |-> [s EXCEPT !.size_cnt = @ + 1], at |-> <<nullptr, 0>>,
                     inserted |-> TRUE, new_child |-> nullptr, pushed_up |-> x]
               ELSE insert_step(s, x, n.children[ub + 1], Sub(node))
    IN  IF Found(n.elems, x, ub)
        THEN [s |-> s, at |-> <<node, ub - 1>>, inserted |-> FALSE,
              new_child |-> nullptr, pushed_up |-> x]
        ELSE IF ~IsLeaf(s, node) /\ r.new_child = nullptr THEN r
        ELSE IF Len(n.elems) # MaxNElems THEN put_into(r, node, ub)
        ELSE split(AllocateFor(r, suballoc, must_alloc_locally), node, ub)

\* The first element makes the root.
insert_first(s, x) ==
    LET sub  == IF HasRoom(s, purely_local) THEN purely_local ELSE swappable_plain
        root == FreshIn(s, sub)
        one  == WithNode(s, root, [elems |-> <<x>>, children |-> <<>>, parent |-> header,
                                   prev |-> header, next |-> header])
    IN  [s |-> [nodes |-> [one.nodes EXCEPT ![header] =
                    [@ EXCEPT !.children = <<root>>, !.prev = root, !.next = root]],
                size_cnt |-> 1, begin_node |-> root,
                last_local_node |-> IF sub = purely_local THEN root ELSE s.last_local_node],
         at |-> <<root, 0>>, inserted |-> TRUE]

\* The root was split: a new root above `root`, which may have moved meanwhile.
grow(r, root) ==
    LET q   == AllocateFor(r, purely_local, header # r.s.last_local_node)
        to  == FreshIn(q.s, q.sub)
        top == WithNode([q.s EXCEPT
                   !.last_local_node = IF LocalEnd(q.s, header, q.sub) THEN to ELSE @],
                   to, [elems |-> <<r.pushed_up>>, children |-> <<root, q.new_child>>,
                        parent |-> header, prev |-> header, next |-> root])
    IN  [s |-> [top EXCEPT !.nodes[header].next = to, !.nodes[root].prev = to,
                           !.nodes[header].children = <<to>>, !.nodes[root].parent = to,
                           !.nodes[q.new_child].parent = to],
         at |-> IF q.at[1] = nullptr THEN <<to, 0>> ELSE q.at,
         inserted |-> r.inserted]

Inserted(s, x) ==
    LET root == Root(s)
        r    == insert_step(s, x, root, purely_local)
    IN  IF root = nullptr THEN insert_first(s, x)
        ELSE IF r.new_child = nullptr THEN r ELSE grow(r, root)

insert(x) ==
    LET r == Inserted(tree, x)
    IN  /\ tree' = r.s
        /\ last_call' = [call |-> "insert", key |-> x, answer |-> r.inserted]
        /\ returned' = r.at
        /\ UNCHANGED <<MaxNElems, local_room, node_size>>

-----------------------------------------------------------------------------
(* erase.  `hole` and `successor` are indices of elements; the successor of  *)
(* a node is the element of its parent that follows it.  The steps answer    *)
(* which element of the parent was pulled down and leaves a hole there, or   *)
(* NoHole.                                                                   *)

NoHole == -1
FirstChild(n) == IF n.children = <<>> THEN <<>> ELSE <<n.children[1]>>
LastChild(n)  == IF n.children = <<>> THEN <<>> ELSE <<Last(n.children)>>
Siblings(s, a, b) == s.nodes[a].parent = s.nodes[b].parent

borrow_from_prev(s, node, successor) ==
    LET n == s.nodes[node]
        p == s.nodes[n.prev]
    IN  Adopt([s EXCEPT
            !.nodes[node].elems = <<s.nodes[n.parent].elems[successor]>> \o @,
            !.nodes[node].children = LastChild(p) \o @,
            !.nodes[n.parent].elems[successor] = Last(p.elems),
            !.nodes[n.prev].elems = Front(@),
            !.nodes[n.prev].children = IF @ = <<>> THEN @ ELSE Front(@)],
            node, LastChild(p))

borrow_from_next(s, node, successor) ==
    LET n == s.nodes[node]
        q == s.nodes[n.next]
    IN  Adopt([s EXCEPT
            !.nodes[node].elems = Append(@, s.nodes[n.parent].elems[successor + 1]),
            !.nodes[node].children = @ \o FirstChild(q),
            !.nodes[n.parent].elems[successor + 1] = Head(q.elems),
            !.nodes[n.next].elems = Tail(@),
            !.nodes[n.next].children = IF @ = <<>> THEN @ ELSE Tail(@)],
            node, FirstChild(q))

\* Mutant of FetchesFar: the far nodes stay far.
FetchesFar_never(s, gone) == FALSE

\* A local node goes and a far one is there to take its place.
FetchesFar(s, gone) ==
    Sub(gone) = purely_local /\ s.last_local_node # s.nodes[header].prev

LocalEndWithout(s, gone, instead) ==
    IF s.last_local_node = gone THEN instead ELSE s.last_local_node

\* `next` is merged into `node`; its pointer in the parent is removed later, by
\* the fill_hole of the parent.
merge(s, node, next, successor) ==
    LET n      == s.nodes[node]
        q      == s.nodes[next]
        joined == Adopt([s EXCEPT
            !.nodes[node].elems = Append(@, s.nodes[n.parent].elems[successor + 1]) \o q.elems,
            !.nodes[node].children = @ \o q.children,
            !.nodes[node].next = q.next,
            !.nodes[q.next].prev = node,
            !.last_local_node = LocalEndWithout(s, next, node)], node, q.children)
        freed  == WithoutNode(joined, next)
    IN  IF FetchesFar(s, next) THEN relocate_first_far_to_local(freed) ELSE freed

\* Mutant of HasSpare: one less than the minimum is enough.
HasSpare_any(s, node, sibling) == Siblings(s, node, sibling)

HasSpare(s, node, sibling) ==
    Siblings(s, node, sibling) /\ Len(s.nodes[sibling].elems) # MinNElems

\* The child behind the hole goes with the element.
fill_hole(s, hole, node, successor) ==
    LET n == s.nodes[node]
        t == [s EXCEPT !.nodes[node].elems = RemoveAt(@, hole + 1),
                       !.nodes[node].children =
                            IF @ = <<>> THEN @ ELSE RemoveAt(@, hole + 2)]
    IN  IF Len(n.elems) # MinNElems \/ node = Root(s) THEN [s |-> t, pulled_down |-> NoHole]
        ELSE IF HasSpare(s, node, n.prev)
             THEN [s |-> borrow_from_prev(t, node, successor), pulled_down |-> NoHole]
        ELSE IF HasSpare(s, node, n.next)
             THEN [s |-> borrow_from_next(t, node, successor), pulled_down |-> NoHole]
        ELSE IF Siblings(s, node, n.prev)
             THEN [s |-> merge(t, n.prev, node, successor - 1), pulled_down |-> successor - 1]
        ELSE [s |-> merge(t, node, n.next, successor), pulled_down |-> successor]

\* What a call on a child leaves to do in its parent.
FillAbove(r, node, successor) ==
    IF r.pulled_down = NoHole THEN r ELSE fill_hole(r.s, r.pulled_down, node, successor)

\* The predecessor, the last element of a leaf, goes to element i of target.
RECURSIVE swap_predecessor(_, _, _, _, _)
swap_predecessor(s, target, i, node, successor) ==
    LET n == s.nodes[node]
        k == Len(n.elems)
    IN  IF IsLeaf(s, node)
        THEN fill_hole([s EXCEPT !.nodes[target].elems[i + 1] = Last(n.elems)],
                       k - 1, node, successor)
        ELSE FillAbove(swap_predecessor(s, target, i, Last(n.children), k), node, successor)

RECURSIVE erase_step(_, _, _, _)
erase_step(s, key, node, successor) ==
    LET n    == s.nodes[node]
        ub   == upper_bound(n.elems, key)
        less == [s EXCEPT !.size_cnt = @ - 1]
    IN  IF Found(n.elems, key, ub) /\ IsLeaf(s, node)
        THEN fill_hole(less, ub - 1, node, successor) @@ [answer |-> TRUE]
        ELSE IF Found(n.elems, key, ub)
        THEN FillAbove(swap_predecessor(less, node, ub - 1, n.children[ub], ub - 1),
                       node, successor) @@ [answer |-> TRUE]
        ELSE IF IsLeaf(s, node) THEN [s |-> s, pulled_down |-> NoHole, answer |-> FALSE]
        ELSE LET r == erase_step(s, key, n.children[ub + 1], ub)
             IN  FillAbove(r, node, successor) @@ [answer |-> r.answer]

\* A root without elements gives way to its only child.
drop_root(s, root) ==
    LET n     == s.nodes[root]
        above == Adopt([s EXCEPT !.nodes[header].children = FirstChild(n),
                                 !.nodes[n.next].prev = header,
                                 !.last_local_node = LocalEndWithout(s, root, header)],
                       header, FirstChild(n))
        freed == WithoutNode([above EXCEPT !.nodes[header].next = n.next], root)
    IN  IF FetchesFar(s, root) THEN relocate_first_far_to_local(freed) ELSE freed

Erased(s, key) ==
    LET root == Root(s)
        r    == erase_step(s, key, root, 0)
    IN  IF root = nullptr THEN [s |-> s, answer |-> FALSE]
        ELSE IF r.s.nodes[root].elems = <<>>
        THEN [s |-> drop_root(r.s, root), answer |-> r.answer] ELSE r

erase(key) ==
    LET r == Erased(tree, key)
    IN  /\ tree' = r.s
        /\ last_call' = [call |-> "erase", key |-> key, answer |-> r.answer]
        /\ returned' = End
        /\ UNCHANGED <<MaxNElems, local_room, node_size>>

clear ==
    /\ tree' = Empty
    /\ last_call' = [call |-> "clear"] /\ returned' = End
    /\ UNCHANGED <<MaxNElems, local_room, node_size>>

-----------------------------------------------------------------------------
(* Batch placement of the far nodes in blocks.  q is a record of the map, the *)
(* block that is being filled, and whether relocate has thrown bad_alloc,      *)
(* which nothing catches: what has been moved by then stays moved.             *)

IsOccupancyUnder70(s, block) == 10 * UsedBytes(s, block) < 7 * BlockSize

\* A far node moves to the block, or to a new one when that is full enough.
Place(q, node) ==
    LET block == IF IsOccupancyUnder70(q.s, q.block) THEN q.block ELSE new_per_page(q.s)
        moved == relocate(q.s, node, block)
    IN  IF IsLocal(node) \/ q.thrown THEN q @@ [node |-> node]
        ELSE IF ~HasRoom(q.s, block) THEN [q EXCEPT !.thrown = TRUE] @@ [node |-> node]
        ELSE [s |-> moved.s, node |-> moved.node, block |-> block, thrown |-> FALSE]
Going(r) == [s |-> r.s, block |-> r.block, thrown |-> r.thrown]

RECURSIVE batch_block_step(_, _)
batch_block_step(q, node) ==
    LET children == q.s.nodes[node].children
        below[i \in 0 .. Len(children)] ==
            IF i = 0 THEN q ELSE batch_block_step(below[i - 1], below[i - 1].s.nodes[node].children[i])
    IN  Going(Place(below[Len(children)], node))

RECURSIVE Descend(_, _, _, _)
Descend(s, node, height, first) ==
    IF height = 0 THEN node
    ELSE Descend(s, IF first THEN Head(s.nodes[node].children) ELSE Last(s.nodes[node].children),
                 height - 1, first)
RECURSIVE Height(_, _)
Height(s, node) == IF node = nullptr THEN 0
                   ELSE IF IsLeaf(s, node) THEN 1 ELSE 1 + Height(s, Head(s.nodes[node].children))

\* The upper half of the levels first, then the subtrees below from left to
\* right.  The answer names the node at the top where it is now.
RECURSIVE batch_vEB_step(_, _, _)
RECURSIVE vEB_subtrees(_, _, _, _)
batch_vEB_step(q, node, height) ==
    IF height = 0 THEN q @@ [node |-> node]
    ELSE IF height = 1 THEN Place(q, node)
    ELSE LET upper == (height + 1) \div 2
             top   == batch_vEB_step(q, node, upper)
             first == Descend(top.s, top.node, upper, TRUE)
             last  == Descend(top.s, top.node, upper, FALSE)
         IN  vEB_subtrees(Going(top), first, last, height - upper) @@ [node |-> top.node]
vEB_subtrees(q, subtree, last, height) ==
    LET r == batch_vEB_step(q, subtree, height)
    IN  IF subtree = last THEN Going(r)
        ELSE vEB_subtrees(Going(r), r.s.nodes[r.node].next, last, height)

HasFarNodes(s) == s.nodes[header].prev # s.last_local_node
FirstBlock(s) == [s |-> s, block |-> new_per_page(s), thrown |-> FALSE]

batch_block ==
    /\ HasFarNodes(tree)
    /\ tree' = batch_block_step(FirstBlock(tree), Root(tree)).s
    /\ UNCHANGED <<MaxNElems, local_room, node_size, last_call, returned>>

batch_vEB ==
    /\ HasFarNodes(tree)
    /\ tree' = batch_vEB_step(FirstBlock(tree), Root(tree), Height(tree, Root(tree))).s
    /\ UNCHANGED <<MaxNElems, local_room, node_size, last_call, returned>>

-----------------------------------------------------------------------------
(* Iterators.                                                              *)

RECURSIVE FirstLeaf(_, _)
FirstLeaf(s, node) == IF IsLeaf(s, node) THEN node ELSE FirstLeaf(s, Head(s.nodes[node].children))
RECURSIVE LastLeaf(_, _)
LastLeaf(s, node) == IF IsLeaf(s, node) THEN node ELSE LastLeaf(s, Last(s.nodes[node].children))

IndexInParent(s, node) == SelectInSeq(s.nodes[s.nodes[node].parent].children, LAMBDA c : c = node) - 1

\* children[n_elems] of the header is not its root but null: the search upwards
\* for the next element ends there.
RECURSIVE UpToNext(_, _)
UpToNext(s, node) ==
    LET parent == s.nodes[node].parent
    IN  IF parent # header /\ Last(s.nodes[parent].children) = node THEN UpToNext(s, parent)
        ELSE <<parent, IndexInParent(s, node)>>
RECURSIVE UpToPrev(_, _)
UpToPrev(s, node) ==
    LET parent == s.nodes[node].parent
    IN  IF Head(s.nodes[parent].children) = node THEN UpToPrev(s, parent)
        ELSE <<parent, IndexInParent(s, node) + 1>>

increment(s, it) ==
    LET n == s.nodes[it[1]]
    IN  IF n.children # <<>> THEN <<FirstLeaf(s, n.children[it[2] + 2]), 0>>
        ELSE IF it[2] + 1 # Len(n.elems) THEN <<it[1], it[2] + 1>>
        ELSE UpToNext(s, it[1])

decrement(s, it) ==
    LET n == s.nodes[it[1]]
    IN  IF n.children = <<>>
        THEN IF it[2] # 0 THEN <<it[1], it[2] - 1>> ELSE UpToPrev(s, it[1])
        ELSE IF it[1] = header THEN <<n.prev, Len(s.nodes[n.prev].elems) - 1>>
        ELSE LET leaf == LastLeaf(s, n.children[it[2] + 1])
             IN  <<leaf, Len(s.nodes[leaf].elems) - 1>>

-----------------------------------------------------------------------------
BTreeInit ==
    /\ MaxNElems \in MaxNElemsSet
    /\ local_room \in LocalRooms
    /\ node_size \in NodeSizes
    /\ tree = Empty
    /\ last_call = [call |-> "none"] /\ returned = End

BTreeNext == (\E x \in Key : insert(x) \/ erase(x)) \/ clear \/ batch_block \/ batch_vEB
BTreeSpec == BTreeInit /\ [][BTreeNext]_btree_vars

-----------------------------------------------------------------------------
(* Correctness.                                                            *)

\* The list behind the header, for as long as it leads to nodes.
Behind(s, node) == IF node \in DOMAIN s.nodes THEN s.nodes[node].next ELSE header
List(s) ==
    LET n == Cardinality(DOMAIN s.nodes)
        walk[i \in 0 .. n] == IF i = 0 THEN header ELSE Behind(s, walk[i - 1])
        len == CHOOSE i \in 0 .. n : /\ i = n \/ walk[i + 1] = header
                                     /\ \A j \in 1 .. i : walk[j] # header
    IN  [i \in 1 .. len |-> walk[i]]

\* The levels of the tree below a sequence of nodes, at most n of them.
ChildrenOf(s, node) == IF node \in DOMAIN s.nodes THEN s.nodes[node].children ELSE <<>>
NextLevel(s, level) == FlattenSeq([i \in DOMAIN level |-> ChildrenOf(s, level[i])])
RECURSIVE LevelsBelow(_, _, _)
LevelsBelow(s, level, n) ==
    IF level = <<>> \/ n = 0 THEN <<>>
    ELSE <<level>> \o LevelsBelow(s, NextLevel(s, level), n - 1)
Levels(s) == LevelsBelow(s, s.nodes[header].children, Cardinality(DOMAIN s.nodes))

\* The elements as iterators, in the order of the tree.
RECURSIVE InOrder(_, _, _)
InOrder(s, node, n) ==
    LET here == s.nodes[node]
        at(i) == (IF here.children = <<>> THEN <<>> ELSE InOrder(s, here.children[i], n - 1))
                 \o (IF i > Len(here.elems) THEN <<>> ELSE <<<<node, i - 1>>>>)
    IN  IF n = 0 \/ node \notin DOMAIN s.nodes THEN <<>>
        ELSE FlattenSeq([i \in 1 .. Len(here.elems) + 1 |-> at(i)])
Elements(s) == IF Root(s) = nullptr THEN <<>>
               ELSE InOrder(s, Root(s), Cardinality(DOMAIN s.nodes))
KeyAt(s, it) == s.nodes[it[1]].elems[it[2] + 1]

\* find finds every key of the map and no other, and ++ leads from begin() through
\* the elements in order to end().  (begin() of a map that has become empty is
\* the freed last node.)
LookupsExact ==
    LET at   == Elements(tree)
        iter[i \in 0 .. Len(at)] == IF i = 0 THEN <<tree.begin_node, 0>>
                                    ELSE increment(tree, iter[i - 1])
    IN  /\ at # <<>> => [i \in 1 .. Len(at) + 1 |-> iter[i - 1]] = Append(at, End)
        /\ \A k \in Key : LET it == find_impl(tree, k)
                          IN  IF it = End THEN \A i \in DOMAIN at : KeyAt(tree, at[i]) # k
                              ELSE KeyAt(tree, it) = k

\* The tree is a B-tree in the order of the keys, of nodes that are neither too
\* full nor too empty, with all leaves on one level; size_cnt counts, and lookups
\* are right.
SearchTree ==
    LET at     == Elements(tree)
        levels == Levels(tree)
    IN  /\ \A i \in 1 .. Len(at) - 1 : KeyAt(tree, at[i]) < KeyAt(tree, at[i + 1])
        /\ tree.size_cnt = Len(at)
        /\ \A d \in DOMAIN levels : \A node \in Range(levels[d]) :
              LET n == tree.nodes[node]
              IN  /\ Len(n.elems) \in (IF d = 1 THEN 1 ELSE MinNElems) .. MaxNElems
                  /\ Len(n.children) = IF d = Len(levels) THEN 0 ELSE Len(n.elems) + 1
        /\ LookupsExact

\* b_tree.hpp, at prev and next: the list has every node, the root first, then
\* level by level, each in the order of the keys.  No node is lost or left over.
BreadthFirst ==
    LET list == List(tree)
    IN  /\ list = FlattenSeq(Levels(tree))
        /\ DOMAIN tree.nodes = {header} \cup Range(list)
        /\ \A a \in DOMAIN tree.nodes : tree.nodes[tree.nodes[a].next].prev = a
        /\ \A a \in DOMAIN tree.nodes : \A i \in 1 .. Len(ChildrenOf(tree, a)) :
              tree.nodes[tree.nodes[a].children[i]].parent = a

\* The local nodes are the first of the list, last_local_node is the last of
\* them, and no node is far while there is local memory for it.
LocalPrefix ==
    LET list  == List(tree)
        local == {i \in DOMAIN list : Sub(list[i]) = purely_local}
    IN  /\ local = 1 .. Cardinality(local)
        /\ tree.last_local_node = IF local = {} THEN header ELSE list[Cardinality(local)]
        /\ Cardinality(local) # Len(list) => ~HasRoom(tree, purely_local)

\* The map behaves as a set of keys, whatever the nodes do.
BTreeMap == INSTANCE OrderedMap WITH
    keys <- UNION {Range(tree.nodes[a].elems) : a \in DOMAIN tree.nodes}
BTreeImplementsMap == BTreeMap!Spec

\* insert answers with an iterator to the element, new or not.
InsertReturnsElement ==
    [][\A x \in Key : insert(x) => /\ returned' \in Range(Elements(tree'))
                                   /\ KeyAt(tree', returned') = x]_btree_vars

\* A bidirectional iterator: -- leads back to where ++ came from.
DecrementUndoesIncrement ==
    LET at == Elements(tree)
    IN  \A i \in 1 .. Len(at) - 1 : decrement(tree, at[i + 1]) = at[i]

=============================================================================
