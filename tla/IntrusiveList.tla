---------------------------- MODULE IntrusiveList ----------------------------
(***************************************************************************)
(* Circular doubly linked lists whose links live inside the nodes:         *)
(* FreePageLink and SlabLink (plain_suballoc_page_metadata.hpp/.ipp).      *)
(*                                                                         *)
(* The memory of all links is one record l with two functions from nodes   *)
(* to nodes, l.next and l.prev.  A list is named by its sentinel, a node   *)
(* that is not an element; the empty list is a sentinel linked to itself.  *)
(* Every operator writes exactly the pointers its C++ counterpart writes,  *)
(* so a link that no operator resets keeps its stale value.                *)
(***************************************************************************)
EXTENDS Integers

\* Mutant of insert_next: the old successor keeps its old prev pointer.
insert_next_without_back(l, at, x) ==
    [next |-> [l.next EXCEPT ![x] = l.next[at], ![at] = x],
     prev |-> [l.prev EXCEPT ![x] = at]]

\* FreePageLink::insert_next: x becomes the successor of `at`.
insert_next(l, at, x) ==
    [next |-> [l.next EXCEPT ![x] = l.next[at], ![at] = x],
     prev |-> [l.prev EXCEPT ![x] = at, ![l.next[at]] = x]]

\* SlabLink::insert_prev: x becomes the predecessor of `at`.
insert_prev(l, at, x) ==
    [next |-> [l.next EXCEPT ![x] = at, ![l.prev[at]] = x],
     prev |-> [l.prev EXCEPT ![x] = l.prev[at], ![at] = x]]

\* {FreePageLink, SlabLink}::remove_from_list: x keeps its own two pointers.
remove_from_list(l, x) ==
    [next |-> [l.next EXCEPT ![l.prev[x]] = l.next[x]],
     prev |-> [l.prev EXCEPT ![l.next[x]] = l.prev[x]]]

\* Mutant of pop_front: the new first element keeps its old prev pointer.
pop_front_halfway(l, list, first) ==
    [next |-> [l.next EXCEPT ![list] = l.next[first]], prev |-> l.prev]

\* The two assignments with which allocate_page and allocate take `first` off
\* the front of a list: they go through the sentinel, not through first.prev.
pop_front(l, list, first) ==
    [next |-> [l.next EXCEPT ![list] = l.next[first]],
     prev |-> [l.prev EXCEPT ![l.next[first]] = list]]

-----------------------------------------------------------------------------

\* The first k nodes met when following `next` from the sentinel, as a function
\* that stays on the sentinel once it has come back to it.
Walk(l, list, k) ==
    LET w[j \in 0 .. k] == IF j = 0 THEN l.next[list]
                           ELSE IF w[j - 1] = list THEN list
                           ELSE l.next[w[j - 1]]
    IN  w

\* The elements of a list with at most k of them.
Elements(l, list, k) == LET w == Walk(l, list, k) IN {w[j] : j \in 0 .. k} \ {list}

\* Within a set of nodes next and prev are inverse to each other.
LinkedOver(l, S) ==
    \A x \in S : /\ l.next[x] \in S /\ l.prev[l.next[x]] = x
                /\ l.prev[x] \in S /\ l.next[l.prev[x]] = x

\* Following `next` returns to the sentinel, and `prev` undoes every step.
WellLinked(l, list, k) ==
    /\ Walk(l, list, k)[k] = list
    /\ \A x \in Elements(l, list, k) \cup {list} :
          l.prev[l.next[x]] = x /\ l.next[l.prev[x]] = x
=============================================================================
