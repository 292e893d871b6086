---------------------------- MODULE BlockedSkiplist ----------------------------
(***************************************************************************)
(* Blocked::SkiplistMap (blocked/skiplist.hpp): a skip list, searched from *)
(* its end, that keeps in purely local memory the nodes that searches meet *)
(* most: in the order of priority, higher levels first and greater keys    *)
(* first on a level, a prefix of the nodes is local and last_local_node is *)
(* its end.  A node takes more memory the higher its level; links is a     *)
(* function on the levels of a node, whose array moves with the node.      *)
(***************************************************************************)
EXTENDS NodeStore, Sequences

CONSTANTS
    Key,         \* a set of naturals
    MaxLevel,    \* SkiplistLevelDistribution::MaxLevel
    LocalUnits,  \* possible sizes of purely local memory
    BlockUnits   \* size of a per-page block

\* A block holds any node, local memory the header.
SkiplistAssumption ==
    /\ Key \subseteq Nat
    /\ MaxLevel \in Nat
    /\ \A u \in LocalUnits : u \in Nat /\ u >= MaxLevel + 2
    /\ BlockUnits \in Nat /\ BlockUnits >= MaxLevel + 2

VARIABLES
    local_units,  \* the size of purely local memory
    list,         \* the members of the map and its nodes
    last_call     \* the last call, its key, and the answer to it

vars == <<local_units, list, last_call>>

Level == 0 .. MaxLevel

-----------------------------------------------------------------------------
(* Memory.                                                                 *)

\* A node, and a link per level.
UnitsOf(level) == level + 2
UnitsIn(s, sub) ==
    LET used == UsedIn(s, sub)
        upto[l \in -1 .. MaxLevel] ==
            IF l = -1 THEN 0
            ELSE upto[l - 1] + UnitsOf(l) * Cardinality({a \in used : s.nodes[a].level = l})
    IN  upto[MaxLevel]
HasRoom(s, sub, level) ==
    \/ sub = swappable_plain
    \/ sub = purely_local /\ UnitsIn(s, sub) + UnitsOf(level) <= local_units
    \/ IsBlock(sub) /\ UnitsIn(s, sub) + UnitsOf(level) <= BlockUnits

LevelOf(s, node) == s.nodes[node].level
NextAt(s, node, level) == s.nodes[node].links[level].next
PrevAt(s, node, level) == s.nodes[node].links[level].prev

\* SkiplistMap(): the header, on every level.
Empty == [nodes |-> [a \in {header} |-> [key |-> -1, level |-> MaxLevel,
                         links |-> [l \in Level |-> [prev |-> header, next |-> header]]]],
          size_cnt |-> 0, last_local_node |-> header]

\* The neighbours of `node` on its levels are joined to `left` and `right`, functions
\* on the levels.
Join(s, node, left, right) ==
    LET n == s.nodes[node]
    IN  [s EXCEPT !.nodes = [a \in DOMAIN @ |-> [@[a] EXCEPT !.links = [l \in DOMAIN @ |->
            [prev |-> IF l <= n.level /\ n.links[l].next = a THEN left[l] ELSE @[l].prev,
             next |-> IF l <= n.level /\ n.links[l].prev = a THEN right[l] ELSE @[l].next]]]]
               @@ <<>>]

ToAll(node) == [l \in Level |-> node]

\* relocate, where there is room.
relocate(s, node, sub) ==
    LET to == FreshIn(s, sub)
    IN  [s |-> Join(Moved(s, node, to), to, ToAll(to), ToAll(to)), node |-> to]

-----------------------------------------------------------------------------
(* Priority.                                                               *)

RECURSIVE ForwardToLevel(_, _, _)
ForwardToLevel(s, candidate, level) ==
    IF candidate = header \/ LevelOf(s, candidate) = level THEN candidate
    ELSE ForwardToLevel(s, NextAt(s, candidate, level), level)
RECURSIVE BackToLevel(_, _, _)
BackToLevel(s, candidate, level) ==
    IF candidate = header \/ LevelOf(s, candidate) = level THEN candidate
    ELSE BackToLevel(s, PrevAt(s, candidate, level), level)

\* The node with the next higher priority; the header if there is none.
RECURSIVE prev_in_priority(_, _, _)
prev_in_priority(s, candidate, level) ==
    LET found == ForwardToLevel(s, candidate, level)
    IN  IF found # header \/ level = MaxLevel THEN found
        ELSE prev_in_priority(s, NextAt(s, header, level + 1), level + 1)

\* The node with the next lower priority, or null.
RECURSIVE next_in_priority(_, _, _)
next_in_priority(s, candidate, level) ==
    LET found == BackToLevel(s, candidate, level)
    IN  IF found # header THEN found
        ELSE IF level = 0 THEN nullptr
        ELSE next_in_priority(s, PrevAt(s, header, level - 1), level - 1)

Before(s, node) == prev_in_priority(s, NextAt(s, node, LevelOf(s, node)), LevelOf(s, node))
Behind(s, node) == next_in_priority(s, PrevAt(s, node, LevelOf(s, node)), LevelOf(s, node))

relocate_last_local_to_far(s) ==
    relocate([s EXCEPT !.last_local_node = Before(s, @)], s.last_local_node, swappable_plain)

-----------------------------------------------------------------------------
(* Search, backwards from the header: on every level to the first node that  *)
(* is not less than the key.  A search stands at <<cursor,                   *)
(* prev_in_upper_level>>.                                                    *)

RECURSIVE BackOnLevel(_, _, _, _)
BackOnLevel(s, at, level, key) ==
    LET prev == PrevAt(s, at[1], level)
    IN  IF prev = at[2] THEN at
        ELSE IF s.nodes[prev].key < key THEN <<at[1], prev>>
        ELSE BackOnLevel(s, <<prev, at[2]>>, level, key)
RECURSIVE BackDown(_, _, _, _, _)
BackDown(s, at, from, to, key) ==
    IF from < to THEN at
    ELSE BackDown(s, BackOnLevel(s, at, from, key), from - 1, to, key)

\* Mutant of lower_bound_impl: the lowest level is not searched.
lower_bound_impl_early(s, key) == BackDown(s, <<header, header>>, MaxLevel, 1, key)[1]

lower_bound_impl(s, key) == BackDown(s, <<header, header>>, MaxLevel, 0, key)[1]

\* Mutant of IsAt: whatever the search has found is the key.
IsAt_any(s, node, key) == node # header

IsAt(s, node, key) == node # header /\ s.nodes[node].key <= key
find_impl(s, key) ==
    LET node == lower_bound_impl(s, key) IN IF IsAt(s, node, key) THEN node ELSE header

-----------------------------------------------------------------------------
(* insert                                                                  *)

\* Mutant of EndOfPrefix: a new last local node is not recorded.
EndOfPrefix_kept(s, prior, node) == s.last_local_node

EndOfPrefix(s, prior, node) == IF prior = s.last_local_node THEN node ELSE s.last_local_node

\* The cursor when the last local node of s has moved.
Fixed(cursor, s, to) == IF cursor = s.last_local_node THEN to ELSE cursor

\* A node behind a local one goes to local memory: as long as there is no room,
\* nodes of lower priority make it.  Otherwise it goes to the block of its
\* successor, or to plain memory.
RECURSIVE AllocateFor(_, _, _, _)
AllocateFor(s, level, prior, cursor) ==
    IF IsLocal(prior) /\ HasRoom(s, purely_local, level)
    THEN LET to == FreshIn(s, purely_local)
         IN  [s |-> [s EXCEPT !.last_local_node = EndOfPrefix(s, prior, to)],
              cursor |-> cursor, node |-> to]
    ELSE IF IsLocal(prior) /\ prior # s.last_local_node
    THEN LET r == relocate_last_local_to_far(s)
         IN  AllocateFor(r.s, level, prior, Fixed(cursor, s, r.node))
    ELSE LET sub == IF ~IsLocal(cursor) /\ HasRoom(s, Sub(cursor), level) THEN Sub(cursor)
                    ELSE swappable_plain
         IN  [s |-> s, cursor |-> cursor, node |-> FreshIn(s, sub)]

RECURSIVE ClimbForward(_, _, _)
ClimbForward(s, node, level) ==
    IF LevelOf(s, node) >= level THEN node ELSE ClimbForward(s, NextAt(s, node, level - 1), level)
RECURSIVE ClimbBack(_, _, _)
ClimbBack(s, node, level) ==
    IF LevelOf(s, node) >= level THEN node ELSE ClimbBack(s, PrevAt(s, node, level - 1), level)

\* The neighbours on each level are found from those on the level below.
LinkIn(s, node, key, level, cursor) ==
    LET right[l \in 0 .. level] == IF l = 0 THEN cursor ELSE ClimbForward(s, right[l - 1], l)
        left[l \in 0 .. level]  == IF l = 0 THEN PrevAt(s, cursor, 0)
                                   ELSE ClimbBack(s, left[l - 1], l)
        links == [l \in 0 .. level |-> [prev |-> left[l], next |-> right[l]]]
    IN  Join(WithNode(s, node, [key |-> key, level |-> level, links |-> links]),
             node, ToAll(node), ToAll(node))

insert(key, new_lv) ==
    LET at     == BackDown(list, <<header, header>>, MaxLevel, new_lv, key)
        cursor == BackDown(list, at, new_lv - 1, 0, key)[1]
        r      == AllocateFor(list, new_lv, prev_in_priority(list, at[1], new_lv), cursor)
    IN  /\ list' = IF IsAt(list, cursor, key) THEN list
                   ELSE LinkIn([r.s EXCEPT !.size_cnt = @ + 1], r.node, key, new_lv, r.cursor)
        /\ last_call' = [call |-> "insert", key |-> key, answer |-> ~IsAt(list, cursor, key)]
        /\ UNCHANGED local_units

-----------------------------------------------------------------------------
(* erase                                                                   *)

\* Local memory is filled again in the order of priority until a node does not
\* fit: its bad_alloc is caught.
RECURSIVE RefillFrom(_)
RefillFrom(s) ==
    LET node == Behind(s, s.last_local_node)
    IN  IF node = nullptr \/ ~HasRoom(s, purely_local, LevelOf(s, node)) THEN s
        ELSE LET r == relocate(s, node, purely_local)
             IN  RefillFrom([r.s EXCEPT !.last_local_node = r.node])
Refill(s) == RefillFrom(s)

Retired(s, deleted) ==
    [s EXCEPT !.last_local_node = IF @ = deleted THEN Before(s, @) ELSE @]

erase(key) ==
    LET deleted  == lower_bound_impl(list, key)
        n        == list.nodes[deleted]
        unlinked == WithoutNode(Join(Retired(list, deleted), deleted,
                        [l \in 0 .. n.level |-> n.links[l].prev],
                        [l \in 0 .. n.level |-> n.links[l].next]), deleted)
    IN  /\ list' = IF ~IsAt(list, deleted, key) THEN list
                   ELSE Refill([unlinked EXCEPT !.size_cnt = @ - 1])
        /\ last_call' = [call |-> "erase", key |-> key, answer |-> IsAt(list, deleted, key)]
        /\ UNCHANGED local_units

clear == list' = Empty /\ last_call' = [call |-> "clear"] /\ UNCHANGED local_units

-----------------------------------------------------------------------------
(* batch_block: the far nodes, from the last key to the first, go to blocks. *)

IsOccupancyUnder70(s, block) == 10 * UnitsIn(s, block) < 7 * BlockUnits

\* A node that does not fit any more, too, begins a new block.
Place(q, node) ==
    LET block == IF IsOccupancyUnder70(q.s, q.block) /\ HasRoom(q.s, q.block, LevelOf(q.s, node))
                 THEN q.block ELSE new_per_page(q.s)
    IN  relocate(q.s, node, block) @@ [block |-> block]
RECURSIVE PlaceAll(_, _)
PlaceAll(q, node) ==
    IF node = header THEN q.s
    ELSE LET r == IF IsLocal(node) THEN q @@ [node |-> node] ELSE Place(q, node)
         IN  PlaceAll([s |-> r.s, block |-> r.block], PrevAt(r.s, r.node, 0))

batch_block ==
    /\ prev_in_priority(list, NextAt(list, header, 0), 0) # list.last_local_node
    /\ list' = PlaceAll([s |-> list, block |-> new_per_page(list)], PrevAt(list, header, 0))
    /\ UNCHANGED <<local_units, last_call>>

-----------------------------------------------------------------------------
Init == local_units \in LocalUnits /\ list = Empty /\ last_call = [call |-> "none"]

Next == \/ \E x \in Key : (\E lv \in Level : insert(x, lv)) \/ erase(x)
        \/ clear
        \/ batch_block
Spec == Init /\ [][Next]_vars

-----------------------------------------------------------------------------
(* Correctness.                                                            *)

Elems == DOMAIN list.nodes \ {header}
KeyOf(a) == list.nodes[a].key
OnLevel(l) == {a \in Elems : LevelOf(list, a) >= l}
\* a is the next node on level l before b, in the order of keys.
Adjacent(l, a, b) ==
    \A c \in OnLevel(l) : /\ ~(KeyOf(a) < KeyOf(c) /\ (b = header \/ KeyOf(c) < KeyOf(b)))
                          /\ b = header => KeyOf(c) <= KeyOf(a)

\* find finds every key of the map and no other, from any mixture of levels.
LookupsExact ==
    \A k \in Key : LET node == find_impl(list, k)
                   IN  IF node = header THEN \A a \in Elems : KeyOf(a) # k ELSE KeyOf(node) = k

\* On every level the links lead through exactly the nodes that are on it, in the
\* order of their keys, forwards and backwards; size_cnt counts them, and lookups
\* are right.
LevelsSorted ==
    /\ \A l \in Level : \A a \in OnLevel(l) \cup {header} :
          LET b == NextAt(list, a, l)
          IN  /\ b \in OnLevel(l) \cup {header}
              /\ PrevAt(list, b, l) = a
              /\ b # header => KeyOf(a) < KeyOf(b)
              /\ Adjacent(l, a, b)
    /\ list.size_cnt = Cardinality(Elems)
    /\ LookupsExact

\* a comes before b in the priority for local memory.
Prior(a, b) == \/ a = header
               \/ LevelOf(list, a) > LevelOf(list, b)
               \/ LevelOf(list, a) = LevelOf(list, b) /\ KeyOf(a) > KeyOf(b)

\* The local nodes are those up to last_local_node in priority, the two functions
\* that walk in this order agree, and local memory has no room for the next one.
LocalPrefix ==
    LET last == list.last_local_node
        next == Behind(list, last)
    IN  /\ last \in DOMAIN list.nodes
        /\ \A a \in Elems : IsLocal(a) <=> a = last \/ (last # header /\ Prior(a, last))
        /\ \A a \in Elems : Behind(list, Before(list, a)) = a
        /\ next # nullptr => ~HasRoom(list, purely_local, LevelOf(list, next))

\* The map behaves as a set of keys, whatever the nodes do.
Map == INSTANCE OrderedMap WITH keys <- {KeyOf(a) : a \in Elems}
ImplementsMap == Map!Spec
=============================================================================
