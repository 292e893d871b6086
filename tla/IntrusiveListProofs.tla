------------------------- MODULE IntrusiveListProofs -------------------------
(***************************************************************************)
(* What the operators of IntrusiveList preserve: within a set S of linked  *)
(* nodes next and prev stay inverse to each other, and lead back to a      *)
(* sentinel, when a node is inserted into S or taken out of it.  Nothing   *)
(* is said of nodes outside of S, whose links may be stale.  And what this *)
(* means for the walk along a list that Elements and WellLinked speak of.  *)
(***************************************************************************)
EXTENDS IntrusiveList, FiniteSetTheorems, FunctionTheorems, TLAPS

\* The links of the nodes N, which point to nodes or to other values of V.
Links(N, V) == [next : [N -> V], prev : [N -> V]]

\* Inserting behind a linked node: x is linked, the rest of S stays linked.
LEMMA InsertNextLinks ==
    ASSUME NEW N, NEW V, N \subseteq V, NEW l \in Links(N, V),
           NEW S \in SUBSET N, LinkedOver(l, S),
           NEW at \in S, NEW x \in N \ S
    PROVE  /\ insert_next(l, at, x) \in Links(N, V)
           /\ LinkedOver(insert_next(l, at, x), S \cup {x})
<1> DEFINE m == insert_next(l, at, x)
<1>1. l.next \in [N -> V] /\ l.prev \in [N -> V]
  BY DEF Links
<1>2. l.next[at] \in S /\ l.next[at] # x
  BY DEF LinkedOver
<1>3. m.next = [l.next EXCEPT ![x] = l.next[at], ![at] = x]
  BY DEF insert_next
<1>4. m.prev = [l.prev EXCEPT ![x] = at, ![l.next[at]] = x]
  BY DEF insert_next
<1>5. m \in Links(N, V)
  BY <1>1, <1>2 DEF insert_next, Links
<1>6. ASSUME NEW y \in S \cup {x}
      PROVE  m.next[y] = IF y = at THEN x ELSE IF y = x THEN l.next[at] ELSE l.next[y]
  BY <1>1, <1>3
<1>7. ASSUME NEW y \in S \cup {x}
      PROVE  m.prev[y] = IF y = x THEN at ELSE IF y = l.next[at] THEN x ELSE l.prev[y]
  BY <1>1, <1>2, <1>4
<1>8. LinkedOver(m, S \cup {x})
  BY <1>2, <1>6, <1>7 DEF LinkedOver
<1> QED
  BY <1>5, <1>8

\* Removing a linked node: the rest of S stays linked.
LEMMA RemoveLinks ==
    ASSUME NEW N, NEW V, N \subseteq V, NEW l \in Links(N, V),
           NEW S \in SUBSET N, LinkedOver(l, S), NEW x \in S
    PROVE  /\ remove_from_list(l, x) \in Links(N, V)
           /\ LinkedOver(remove_from_list(l, x), S \ {x})
<1> DEFINE m == remove_from_list(l, x)
<1>1. l.next \in [N -> V] /\ l.prev \in [N -> V]
  BY DEF Links
<1>2. l.next[x] \in S /\ l.prev[x] \in S
  BY DEF LinkedOver
<1>3. m.next = [l.next EXCEPT ![l.prev[x]] = l.next[x]]
  BY DEF remove_from_list
<1>4. m.prev = [l.prev EXCEPT ![l.next[x]] = l.prev[x]]
  BY DEF remove_from_list
<1>5. m \in Links(N, V)
  BY <1>1, <1>2 DEF remove_from_list, Links
<1>6. ASSUME NEW y \in S
      PROVE  m.next[y] = IF y = l.prev[x] THEN l.next[x] ELSE l.next[y]
  BY <1>1, <1>2, <1>3
<1>7. ASSUME NEW y \in S
      PROVE  m.prev[y] = IF y = l.next[x] THEN l.prev[x] ELSE l.prev[y]
  BY <1>1, <1>2, <1>4
<1>8. LinkedOver(m, S \ {x})
  BY <1>2, <1>6, <1>7 DEF LinkedOver
<1> QED
  BY <1>5, <1>8

\* Inserting before a linked node: x is linked, the rest of S stays linked.
LEMMA InsertPrevLinks ==
    ASSUME NEW N, NEW V, N \subseteq V, NEW l \in Links(N, V),
           NEW S \in SUBSET N, LinkedOver(l, S),
           NEW at \in S, NEW x \in N \ S
    PROVE  /\ insert_prev(l, at, x) \in Links(N, V)
           /\ LinkedOver(insert_prev(l, at, x), S \cup {x})
           /\ \A y \in N \ (S \cup {x}) : insert_prev(l, at, x).next[y] = l.next[y]
<1> DEFINE m == insert_prev(l, at, x)
<1>1. l.next \in [N -> V] /\ l.prev \in [N -> V]
  BY DEF Links
<1>2. l.prev[at] \in S /\ l.prev[at] # x
  BY DEF LinkedOver
<1>3. m.next = [l.next EXCEPT ![x] = at, ![l.prev[at]] = x]
  BY DEF insert_prev
<1>4. m.prev = [l.prev EXCEPT ![x] = l.prev[at], ![at] = x]
  BY DEF insert_prev
<1>5. m \in Links(N, V)
  BY <1>1, <1>2 DEF insert_prev, Links
<1>6. ASSUME NEW y \in S \cup {x}
      PROVE  m.next[y] = IF y = x THEN at ELSE IF y = l.prev[at] THEN x ELSE l.next[y]
  BY <1>1, <1>2, <1>3
<1>7. ASSUME NEW y \in S \cup {x}
      PROVE  m.prev[y] = IF y = at THEN x ELSE IF y = x THEN l.prev[at] ELSE l.prev[y]
  BY <1>1, <1>4
<1>8. LinkedOver(m, S \cup {x})
  BY <1>2, <1>6, <1>7 DEF LinkedOver
<1>9. \A y \in N \ (S \cup {x}) : m.next[y] = l.next[y]
  BY <1>1, <1>2, <1>3
<1> QED
  BY <1>5, <1>8, <1>9

\* The two assignments that take the first node off a list do the same as
\* remove_from_list if the first node's prev pointer is that of a linked node.
LEMMA PopFrontRemoves ==
    ASSUME NEW l, NEW S, LinkedOver(l, S), NEW list \in S
    PROVE  pop_front(l, list, l.next[list]) = remove_from_list(l, l.next[list])
<1>1. l.prev[l.next[list]] = list
  BY DEF LinkedOver
<1> QED
  BY <1>1 DEF pop_front, remove_from_list
-----------------------------------------------------------------------------
(* Ranks: no node is on a circle without a sentinel.                       *)

\* Going backwards the rank falls until a sentinel of L is reached: the nodes of S
\* are on no circle that has no sentinel.
Ranked(l, S, L) == \E d \in [S -> Nat] : \A x \in S \ L : d[l.prev[x]] < d[x]

\* A node inserted behind one of S gets a rank between its neighbours.
LEMMA InsertRanks ==
    ASSUME NEW l, NEW m, NEW S, NEW L, LinkedOver(l, S), Ranked(l, S, L),
           NEW at \in S, NEW x, x \notin S, x \notin L,
           m.prev[x] = at,
           \A y \in S : m.prev[y] = IF y = l.next[at] THEN x ELSE l.prev[y]
    PROVE  Ranked(m, S \cup {x}, L)
<1>1. PICK d \in [S -> Nat] : \A y \in S \ L : d[l.prev[y]] < d[y]
  BY DEF Ranked
<1> DEFINE f == [y \in S \cup {x} |-> IF y = x THEN 2 * d[at] + 1 ELSE 2 * d[y]]
<1>2. f \in [S \cup {x} -> Nat]
  OBVIOUS
<1>3. \A y \in S : d[y] \in Nat /\ l.prev[y] \in S /\ (y = l.next[at] => l.prev[y] = at)
  BY DEF LinkedOver
<1>4. \A y \in S : f[y] = 2 * d[y]
  OBVIOUS
<1>5. f[x] = 2 * d[at] + 1
  OBVIOUS
<1> HIDE DEF f
<1>6. ASSUME NEW y \in (S \cup {x}) \ L
      PROVE  f[m.prev[y]] < f[y]
  <2>1. CASE y = x
    BY <1>3, <1>4, <1>5, <2>1
  <2>2. CASE y # x /\ y = l.next[at]
    BY <1>1, <1>3, <1>4, <1>5, <2>2
  <2>3. CASE y # x /\ y # l.next[at]
    BY <1>1, <1>3, <1>4, <2>3
  <2> QED
    BY <2>1, <2>2, <2>3
<1> QED
  BY <1>2, <1>6 DEF Ranked

\* A node that is no sentinel leaves a gap.
LEMMA RemoveRanks ==
    ASSUME NEW l, NEW m, NEW S, NEW L, LinkedOver(l, S), Ranked(l, S, L),
           NEW x \in S, x \notin L,
           \A y \in S \ {x} : m.prev[y] = IF y = l.next[x] THEN l.prev[x] ELSE l.prev[y]
    PROVE  Ranked(m, S \ {x}, L)
<1>1. PICK d \in [S -> Nat] : \A y \in S \ L : d[l.prev[y]] < d[y]
  BY DEF Ranked
<1> DEFINE f == [y \in S \ {x} |-> d[y]]
<1>2. f \in [S \ {x} -> Nat]
  OBVIOUS
<1>3. ASSUME NEW y \in (S \ {x}) \ L
      PROVE  f[m.prev[y]] < f[y]
  <2>0. \A z \in S : l.prev[z] \in S /\ l.next[l.prev[z]] = z /\ d[z] \in Nat
    BY DEF LinkedOver
  <2>1. CASE y = l.next[x]
    <3>1. m.prev[y] = l.prev[x] /\ l.prev[y] = x
      BY <2>1 DEF LinkedOver
    <3>2. d[l.prev[x]] < d[x] /\ d[x] < d[y]
      BY <1>1, <3>1
    <3>3. l.prev[x] \in S /\ l.prev[x] # x
      BY <2>0, <3>2
    <3> QED
      BY <2>0, <3>1, <3>2, <3>3
  <2>2. CASE y # l.next[x]
    <3>1. m.prev[y] = l.prev[y] /\ l.prev[y] \in S \ {x}
      BY <2>0, <2>2
    <3> QED
      BY <1>1, <3>1
  <2> QED
    BY <2>1, <2>2
<1> QED
  BY <1>2, <1>3 DEF Ranked

\* A node inserted before a sentinel becomes the last one.
LEMMA InsertPrevRanks ==
    ASSUME NEW l, NEW N, NEW V, N \subseteq V, l \in Links(N, V), NEW S \in SUBSET N, NEW L,
           LinkedOver(l, S), Ranked(l, S, L), NEW at \in S, at \in L, NEW x \in N \ S
    PROVE  Ranked(insert_prev(l, at, x), S \cup {x}, L)
<1> DEFINE m == insert_prev(l, at, x)
<1>1. PICK d \in [S -> Nat] : \A y \in S \ L : d[l.prev[y]] < d[y]
  BY DEF Ranked
<1> DEFINE f == [y \in S \cup {x} |-> IF y = x THEN d[l.prev[at]] + 1 ELSE d[y]]
<1>2. l.prev[at] \in S /\ \A y \in S : l.prev[y] \in S /\ d[y] \in Nat
  BY DEF LinkedOver
<1>3. f \in [S \cup {x} -> Nat]
  BY <1>2
<1>4. ASSUME NEW y \in S \cup {x}
      PROVE  m.prev[y] = IF y = at THEN x ELSE IF y = x THEN l.prev[at] ELSE l.prev[y]
  BY DEF insert_prev, Links
<1>5. f[x] = d[l.prev[at]] + 1 /\ \A y \in S : f[y] = d[y]
  OBVIOUS
<1> HIDE DEF f, m
<1>6. ASSUME NEW y \in (S \cup {x}) \ L
      PROVE  f[m.prev[y]] < f[y]
  <2>1. CASE y = x
    BY <1>2, <1>4, <1>5, <2>1
  <2>2. CASE y # x
    BY <1>1, <1>2, <1>4, <1>5, <2>2
  <2> QED
    BY <2>1, <2>2
<1> QED
  BY <1>3, <1>6 DEF Ranked, m

\* Links of other nodes do not matter.
LEMMA OutsideLinks ==
    ASSUME NEW l, NEW m, NEW S, NEW L, LinkedOver(l, S), Ranked(l, S, L),
           \A x \in S : m.next[x] = l.next[x] /\ m.prev[x] = l.prev[x]
    PROVE  LinkedOver(m, S) /\ Ranked(m, S, L)
<1>1. LinkedOver(m, S)
  BY DEF LinkedOver
<1>2. PICK d \in [S -> Nat] : \A y \in S \ L : d[l.prev[y]] < d[y]
  BY DEF Ranked
<1>3. \A y \in S \ L : d[m.prev[y]] < d[y]
  BY <1>2
<1> QED
  BY <1>1, <1>2, <1>3 DEF Ranked

-----------------------------------------------------------------------------
(* Nodes filed by classes: every node of S is linked, to nodes of its own  *)
(* class C[x], and to a sentinel of L in the end.  This is the form in     *)
(* which the operators are composed.                                       *)

Filed(l, N, V, L, S, C) ==
    /\ l \in Links(N, V)
    /\ LinkedOver(l, S)
    /\ \A x \in S : C[l.next[x]] = C[x]
    /\ Ranked(l, S, L)

\* A node filed behind another one of its class.
LEMMA InsertNextFiled ==
    ASSUME NEW N, NEW V, N \subseteq V, NEW S \in SUBSET N, NEW C, NEW l,
           NEW L \in SUBSET S, Filed(l, N, V, L, S, C),
           NEW at \in S, NEW x \in N \ S, C[x] = C[at]
    PROVE  Filed(insert_next(l, at, x), N, V, L, S \cup {x}, C)
<1> DEFINE m == insert_next(l, at, x)
<1>1. /\ l \in Links(N, V) /\ LinkedOver(l, S)
      /\ \A y \in S : C[l.next[y]] = C[y] /\ l.next[y] \in S
  BY DEF Filed, LinkedOver
<1>2. m \in Links(N, V) /\ LinkedOver(m, S \cup {x})
  BY <1>1, InsertNextLinks
<1>3. l.next \in [N -> V]
  BY <1>1 DEF Links
<1>4. ASSUME NEW y \in S \cup {x}
      PROVE  m.next[y] = IF y = at THEN x ELSE IF y = x THEN l.next[at] ELSE l.next[y]
  BY <1>3 DEF insert_next
<1>5. ASSUME NEW y \in S \cup {x}
      PROVE  C[m.next[y]] = C[y]
  <2> HIDE DEF m
  <2>1. CASE y = at
    BY <2>1, <1>4
  <2>2. CASE y # at /\ y = x
    BY <2>2, <1>1, <1>4
  <2>3. CASE y # at /\ y # x
    BY <2>3, <1>1, <1>4
  <2> QED
    BY <2>1, <2>2, <2>3
<1>6. Ranked(m, S \cup {x}, L)
  <2>1. l.prev \in [N -> V]
    BY <1>1 DEF Links
  <2>2. \A y \in S \cup {x} :
           m.prev[y] = IF y = x THEN at ELSE IF y = l.next[at] THEN x ELSE l.prev[y]
    BY <1>1, <2>1 DEF insert_next
  <2>3. m.prev[x] = at /\ \A y \in S : m.prev[y] = IF y = l.next[at] THEN x ELSE l.prev[y]
    BY <2>2
  <2>4. Ranked(l, S, L) /\ x \notin S /\ x \notin L
    BY DEF Filed
  <2> HIDE DEF m
  <2> QED
    BY <1>1, <2>3, <2>4, InsertRanks
<1> QED
  BY <1>2, <1>5, <1>6 DEF Filed

\* A node filed before a sentinel, at the end of its list.
LEMMA InsertPrevFiled ==
    ASSUME NEW N, NEW V, N \subseteq V, NEW S \in SUBSET N, NEW C, NEW l,
           NEW L \in SUBSET S, Filed(l, N, V, L, S, C),
           NEW at \in L, NEW x \in N \ S, C[x] = C[at]
    PROVE  Filed(insert_prev(l, at, x), N, V, L, S \cup {x}, C)
<1> DEFINE m == insert_prev(l, at, x)
<1>1. /\ l \in Links(N, V) /\ LinkedOver(l, S) /\ at \in S
      /\ \A y \in S : C[l.next[y]] = C[y] /\ l.next[y] \in S
      /\ l.prev[at] \in S /\ l.next[l.prev[at]] = at
  BY DEF Filed, LinkedOver
<1>2. /\ m \in Links(N, V) /\ LinkedOver(m, S \cup {x})
      /\ \A y \in N \ (S \cup {x}) : m.next[y] = l.next[y]
  BY <1>1, InsertPrevLinks
<1>3. l.next \in [N -> V]
  BY <1>1 DEF Links
<1>4. ASSUME NEW y \in S \cup {x}
      PROVE  m.next[y] = IF y = x THEN at ELSE IF y = l.prev[at] THEN x ELSE l.next[y]
  BY <1>1, <1>3 DEF insert_prev
<1>5. C[l.prev[at]] = C[at]
  BY <1>1
<1>6. \A y \in S \cup {x} : C[m.next[y]] = C[y]
  <2> HIDE DEF m
  <2> QED
    BY <1>1, <1>4, <1>5
<1>7. Ranked(m, S \cup {x}, L)
  <2>1. Ranked(l, S, L)
    BY DEF Filed
  <2> QED
    BY <1>1, <2>1, InsertPrevRanks
<1> QED
  BY <1>2, <1>6, <1>7 DEF Filed

\* The nodes outside the lists keep their successors.
LEMMA InsertPrevOutside ==
    ASSUME NEW N, NEW V, NEW S \in SUBSET N, NEW C, NEW l, NEW L \in SUBSET S,
           Filed(l, N, V, L, S, C), NEW at \in L, NEW x \in N \ S,
           NEW y \in N \ (S \cup {x})
    PROVE  insert_prev(l, at, x).next[y] = l.next[y]
<1>1. l.next \in [N -> V] /\ l.prev[at] \in S
  BY DEF Filed, LinkedOver, Links
<1>2. insert_prev(l, at, x).next = [l.next EXCEPT ![x] = at, ![l.prev[at]] = x]
  BY DEF insert_prev
<1> QED
  BY <1>1, <1>2

\* A node taken off its list.
LEMMA RemoveFiled ==
    ASSUME NEW N, NEW V, N \subseteq V, NEW S \in SUBSET N, NEW C, NEW l,
           NEW L, Filed(l, N, V, L, S, C), NEW x \in S, x \notin L
    PROVE  Filed(remove_from_list(l, x), N, V, L, S \ {x}, C)
<1> DEFINE m == remove_from_list(l, x)
<1>1. /\ l \in Links(N, V) /\ LinkedOver(l, S)
      /\ \A y \in S : C[l.next[y]] = C[y] /\ l.next[y] \in S
      /\ l.prev[x] \in S /\ l.next[l.prev[x]] = x
  BY DEF Filed, LinkedOver
<1>2. m \in Links(N, V) /\ LinkedOver(m, S \ {x})
  BY <1>1, RemoveLinks
<1>3. l.next \in [N -> V]
  BY <1>1 DEF Links
<1>4. ASSUME NEW y \in S \ {x}
      PROVE  m.next[y] = IF y = l.prev[x] THEN l.next[x] ELSE l.next[y]
  BY <1>3 DEF remove_from_list
<1>5. ASSUME NEW y \in S \ {x}
      PROVE  C[m.next[y]] = C[y]
  <2> HIDE DEF m
  <2>1. CASE y = l.prev[x]
    BY <2>1, <1>1, <1>4
  <2>2. CASE y # l.prev[x]
    BY <2>2, <1>1, <1>4
  <2> QED
    BY <2>1, <2>2
<1>6. Ranked(m, S \ {x}, L)
  <2>1. l.prev \in [N -> V]
    BY <1>1 DEF Links
  <2>2. \A y \in S \ {x} : m.prev[y] = IF y = l.next[x] THEN l.prev[x] ELSE l.prev[y]
    BY <1>1, <2>1 DEF remove_from_list
  <2>3. Ranked(l, S, L)
    BY DEF Filed
  <2> HIDE DEF m
  <2> QED
    BY <1>1, <2>2, <2>3, RemoveRanks
<1> QED
  BY <1>2, <1>5, <1>6 DEF Filed

\* The first node popped off its list.
LEMMA PopFrontFiled ==
    ASSUME NEW N, NEW V, N \subseteq V, NEW S \in SUBSET N, NEW C, NEW l,
           NEW L, Filed(l, N, V, L, S, C), NEW list \in S, NEW first,
           first = l.next[list], first \notin L
    PROVE  Filed(pop_front(l, list, first), N, V, L, S \ {first}, C)
<1>1. LinkedOver(l, S) /\ first \in S
  BY DEF Filed, LinkedOver
<1>2. pop_front(l, list, first) = remove_from_list(l, first)
  BY <1>1, PopFrontRemoves
<1> QED
  BY <1>1, <1>2, RemoveFiled

\* Among the next pointers only that of the sentinel is written.
LEMMA PopFrontOutside ==
    ASSUME NEW N, NEW V, NEW l \in Links(N, V), NEW list \in N, NEW first,
           NEW n \in N, n # list
    PROVE  pop_front(l, list, first).next[n] = l.next[n]
<1>1. l.next \in [N -> V]
  BY DEF Links
<1>2. pop_front(l, list, first).next = [l.next EXCEPT ![list] = l.next[first]]
  BY DEF pop_front
<1> QED
  BY <1>1, <1>2

\* A write to the links of nodes that are not filed.
LEMMA FiledOutside ==
    ASSUME NEW N, NEW V, NEW L, NEW S, NEW C, NEW l, NEW m, Filed(l, N, V, L, S, C),
           m \in Links(N, V), \A x \in S : m.next[x] = l.next[x] /\ m.prev[x] = l.prev[x]
    PROVE  Filed(m, N, V, L, S, C)
<1>1. LinkedOver(l, S) /\ Ranked(l, S, L) /\ \A x \in S : C[l.next[x]] = C[x]
  BY DEF Filed
<1>2. LinkedOver(m, S) /\ Ranked(m, S, L)
  BY <1>1, OutsideLinks
<1> QED
  BY <1>1, <1>2 DEF Filed

\* Removing a node writes no link outside of the set.
LEMMA RemoveOutside ==
    ASSUME NEW N, NEW V, NEW S \in SUBSET N, NEW C, NEW l, NEW L, Filed(l, N, V, L, S, C),
           NEW x \in S, NEW y \in N \ S
    PROVE  remove_from_list(l, x).next[y] = l.next[y]
<1>1. l.next \in [N -> V] /\ l.prev[x] \in S
  BY DEF Filed, LinkedOver, Links
<1>2. remove_from_list(l, x).next = [l.next EXCEPT ![l.prev[x]] = l.next[x]]
  BY DEF remove_from_list
<1> QED
  BY <1>1, <1>2

\* Only the classes of the filed nodes matter.
LEMMA RelabelFiled ==
    ASSUME NEW N, NEW V, NEW L, NEW S, NEW C, NEW D, NEW l, Filed(l, N, V, L, S, C),
           \A x \in S : D[x] = C[x]
    PROVE  Filed(l, N, V, L, S, D)
  BY DEF Filed, LinkedOver

-----------------------------------------------------------------------------
(* The walk along a list.  Recursion is over the numbers of its steps.      *)

\* Every set of naturals that has an element has a least one.
LEMMA LeastNumber ==
    ASSUME NEW T \in SUBSET Nat, T # {}
    PROVE  \E x \in T : \A y \in T : x <= y
<1>1. IsWellFoundedOn(OpToRel(<, Nat), Nat)
  BY NatLessThanWellFounded
<1>2. PICK x \in T : \A y \in T : ~(<<y, x>> \in OpToRel(<, Nat))
  BY <1>1, WFMin
<1>3. \A y \in T : ~(y < x)
  BY <1>2, Zenon DEF OpToRel
<1> QED
  BY <1>3

\* What Walk satisfies: the first k nodes behind the sentinel.
Walks(w, l, list, k) ==
    /\ w[0] = l.next[list]
    /\ \A j \in 1 .. k : w[j] = IF w[j - 1] = list THEN list ELSE l.next[w[j - 1]]

LEMMA WalkExists ==
    ASSUME NEW l, NEW T, NEW list \in T, \A x \in T : l.next[x] \in T, NEW k \in Nat
    PROVE  \E w \in [0 .. k -> T] : Walks(w, l, list, k)
<1> DEFINE Bad == {m \in Nat : ~\E w \in [0 .. m -> T] : Walks(w, l, list, m)}
<1> SUFFICES ASSUME Bad # {}
             PROVE  FALSE
  OBVIOUS
<1>1. PICK m \in Bad : \A y \in Bad : m <= y
  <2>1. Bad \in SUBSET Nat
    OBVIOUS
  <2> HIDE DEF Bad
  <2> QED
    BY <2>1, LeastNumber
<1>2. CASE m = 0
  <2> DEFINE w == [j \in 0 .. 0 |-> l.next[list]]
  <2>1. w \in [0 .. 0 -> T] /\ Walks(w, l, list, 0)
    BY DEF Walks
  <2> QED
    BY <1>1, <1>2, <2>1
<1>3. CASE m # 0
  <2>1. m - 1 \in Nat /\ m - 1 \notin Bad
    BY <1>1, <1>3
  <2>2. PICK v \in [0 .. m - 1 -> T] : Walks(v, l, list, m - 1)
    BY <2>1
  <2> DEFINE last == IF v[m - 1] = list THEN list ELSE l.next[v[m - 1]]
             w == [j \in 0 .. m |-> IF j = m THEN last ELSE v[j]]
  <2>3. last \in T
    BY <2>1, <2>2
  <2>4. w \in [0 .. m -> T]
    BY <1>1, <1>3, <2>3
  <2>5. w[0] = l.next[list]
    BY <1>1, <1>3, <2>2 DEF Walks
  <2>6. ASSUME NEW j \in 1 .. m
        PROVE  w[j] = IF w[j - 1] = list THEN list ELSE l.next[w[j - 1]]
    BY <1>1, <1>3, <2>2 DEF Walks
  <2>7. Walks(w, l, list, m)
    BY <2>5, <2>6 DEF Walks
  <2> QED
    BY <1>1, <2>4, <2>7
<1> QED
  BY <1>2, <1>3

\* Walk is the walk.
LEMMA WalkWalks ==
    ASSUME NEW l, NEW T, NEW list \in T, \A x \in T : l.next[x] \in T, NEW k \in Nat
    PROVE  Walk(l, list, k) \in [0 .. k -> T] /\ Walks(Walk(l, list, k), l, list, k)
<1> DEFINE Eq(w) == w = [j \in 0 .. k |-> IF j = 0 THEN l.next[list]
                                         ELSE IF w[j - 1] = list THEN list
                                         ELSE l.next[w[j - 1]]]
<1>1. Walk(l, list, k) = CHOOSE w : Eq(w)
  BY DEF Walk
<1>2. PICK w \in [0 .. k -> T] : Walks(w, l, list, k)
  BY WalkExists
<1>3. Eq(w)
  BY <1>2 DEF Walks
<1>4. \E v : Eq(v)
  BY <1>3, Zenon
<1>5. Eq(Walk(l, list, k))
  <2> HIDE DEF Eq
  <2> QED
    BY <1>1, <1>4
<1>6. PICK v : v = Walk(l, list, k)
  OBVIOUS
<1>7. v = [j \in 0 .. k |-> IF j = 0 THEN l.next[list]
                            ELSE IF v[j - 1] = list THEN list ELSE l.next[v[j - 1]]]
  BY <1>5, <1>6
<1>8. Walks(v, l, list, k)
  <2>1. \A j \in 0 .. k : v[j] = IF j = 0 THEN l.next[list]
                                 ELSE IF v[j - 1] = list THEN list ELSE l.next[v[j - 1]]
    BY <1>7
  <2> QED
    BY <2>1 DEF Walks
<1>9. \A j \in 0 .. k : v[j] \in T
  <2> DEFINE Out == {j \in 0 .. k : v[j] \notin T}
  <2> SUFFICES ASSUME Out # {}
               PROVE  FALSE
    OBVIOUS
  <2>1. PICK j \in Out : \A i \in Out : j <= i
    <3>1. Out \in SUBSET Nat
      OBVIOUS
    <3> HIDE DEF Out
    <3> QED
      BY <3>1, LeastNumber
  <2>2. j # 0
    BY <1>8, <2>1 DEF Walks
  <2>3. v[j - 1] \in T
    BY <2>1, <2>2
  <2> QED
    BY <1>8, <2>1, <2>2, <2>3 DEF Walks
<1>10. v \in [0 .. k -> T]
  <2>1. DOMAIN v = 0 .. k /\ v = [j \in DOMAIN v |-> v[j]]
    BY <1>7
  <2> QED
    BY <1>9, <2>1
<1> QED
  BY <1>6, <1>8, <1>10

\* A list that is linked and ranked is what a walk from its sentinel shows.
LEMMA RankedListIsWalked ==
    ASSUME NEW l, NEW T, NEW list \in T, LinkedOver(l, T), Ranked(l, T, {list}),
           IsFiniteSet(T), NEW k \in Nat, Cardinality(T \ {list}) <= k
    PROVE  WellLinked(l, list, k) /\ Elements(l, list, k) = T \ {list}
<1>1. PICK d \in [T -> Nat] : \A x \in T \ {list} : d[l.prev[x]] < d[x]
  BY DEF Ranked
<1>2. PICK w \in [0 .. k -> T] : w = Walk(l, list, k) /\ Walks(w, l, list, k)
  BY WalkWalks DEF LinkedOver
<1>3. \A x \in T : l.next[x] \in T /\ l.prev[x] \in T
                   /\ l.prev[l.next[x]] = x /\ l.next[l.prev[x]] = x
  BY DEF LinkedOver
\* The walk climbs until it is back.
<1>4. ASSUME NEW i \in 0 .. k, NEW j \in 0 .. k, i < j, w[j] # list
      PROVE  w[i] # list /\ d[w[i]] < d[w[j]]
  <2> DEFINE Bad == {n \in Nat : /\ n \in i + 1 .. k /\ w[n] # list
                                 /\ ~(w[i] # list /\ d[w[i]] < d[w[n]])}
  <2> SUFFICES ASSUME Bad # {}
               PROVE  FALSE
    BY <1>4
  <2>1. PICK n \in Bad : \A y \in Bad : n <= y
    <3>1. Bad \in SUBSET Nat
      OBVIOUS
    <3> HIDE DEF Bad
    <3> QED
      BY <3>1, LeastNumber
  <2>2. n \in 1 .. k /\ w[n] # list /\ w[n - 1] # list /\ w[n] = l.next[w[n - 1]]
    BY <1>2, <2>1 DEF Walks
  <2>3. d[w[n - 1]] < d[w[n]] /\ d[w[n - 1]] \in Nat /\ d[w[n]] \in Nat /\ d[w[i]] \in Nat
    <3>1. w[n - 1] \in T /\ w[n] \in T /\ w[i] \in T
      BY <2>2
    <3>2. l.prev[w[n]] = w[n - 1]
      BY <1>3, <2>2, <3>1
    <3> QED
      BY <1>1, <2>2, <3>1, <3>2
  <2>4. CASE n = i + 1
    BY <2>1, <2>2, <2>3, <2>4
  <2>5. CASE n # i + 1
    <3>1. n - 1 \in Nat /\ n - 1 \in i + 1 .. k /\ n - 1 \notin Bad
      BY <2>1, <2>2, <2>5
    <3>2. w[i] # list /\ d[w[i]] < d[w[n - 1]]
      BY <2>2, <3>1
    <3> QED
      BY <2>1, <2>3, <3>2
  <2> QED
    BY <2>4, <2>5
<1>5. w[k] = list
  <2> SUFFICES ASSUME w[k] # list
               PROVE  FALSE
    OBVIOUS
  <2>1. \A i \in 0 .. k : w[i] # list
    BY <1>4
  <2>2. \A i, j \in 0 .. k : w[i] = w[j] => i = j
    <3>1. ASSUME NEW i \in 0 .. k, NEW j \in 0 .. k, i < j
          PROVE  w[i] # w[j]
      <4>1. d[w[i]] < d[w[j]] /\ d[w[i]] \in Nat
        BY <1>4, <2>1, <3>1
      <4> QED
        BY <4>1
    <3> QED
      BY <3>1
  <2>3. w \in Injection(0 .. k, T \ {list})
    BY <2>1, <2>2, Fun_IsInj
  <2>4. IsFiniteSet(T \ {list})
    BY FS_Subset
  <2>5. IsFiniteSet(0 .. k) /\ Cardinality(0 .. k) = k + 1
    BY FS_Interval
  <2>6. Cardinality(0 .. k) <= Cardinality(T \ {list})
    BY <2>3, <2>4, <2>5, FS_Injection
  <2>7. Cardinality(T \ {list}) \in Nat
    BY <2>4, FS_CardinalityType
  <2> QED
    BY <2>5, <2>6, <2>7
<1>6. Elements(l, list, k) = {w[j] : j \in 0 .. k} \ {list}
  BY <1>2 DEF Elements
<1>7. ASSUME NEW x \in T \ {list}
      PROVE  \E j \in 0 .. k : w[j] = x
  <2> DEFINE Missed == {r \in Nat : \E y \in T \ {list} : d[y] = r /\ \A j \in 0 .. k : w[j] # y}
  <2> SUFFICES ASSUME Missed # {}
               PROVE  FALSE
    OBVIOUS
  <2>1. PICK r \in Missed : \A s \in Missed : r <= s
    <3>1. Missed \in SUBSET Nat
      OBVIOUS
    <3> HIDE DEF Missed
    <3> QED
      BY <3>1, LeastNumber
  <2>2. PICK y \in T \ {list} : d[y] = r /\ \A j \in 0 .. k : w[j] # y
    BY <2>1
  <2>3. l.prev[y] \in T /\ d[l.prev[y]] \in Nat /\ d[l.prev[y]] < r /\ l.next[l.prev[y]] = y
    BY <1>1, <1>3, <2>2
  <2>4. CASE l.prev[y] = list
    <3>1. w[0] = y
      BY <1>2, <2>3, <2>4 DEF Walks
    <3> QED
      BY <2>2, <3>1
  <2>5. CASE l.prev[y] # list
    <3>1. d[l.prev[y]] \notin Missed
      BY <2>1, <2>3
    <3>2. PICK j \in 0 .. k : w[j] = l.prev[y]
      BY <2>3, <2>5, <3>1
    <3>3. j # k
      BY <1>5, <2>5, <3>2
    <3>4. j + 1 \in 1 .. k /\ w[j + 1] = y
      BY <1>2, <2>3, <2>5, <3>2, <3>3 DEF Walks
    <3> QED
      BY <2>2, <3>4
  <2> QED
    BY <2>4, <2>5
<1>8. Elements(l, list, k) = T \ {list}
  BY <1>6, <1>7
<1>9. WellLinked(l, list, k)
  BY <1>2, <1>3, <1>5, <1>8 DEF WellLinked
<1> QED
  BY <1>8, <1>9

\* A list with an element has a first one.
LEMMA RankedListHasFirst ==
    ASSUME NEW l, NEW T, NEW list \in T, LinkedOver(l, T), Ranked(l, T, {list}),
           T \ {list} # {}
    PROVE  l.next[list] # list
<1>1. PICK d \in [T -> Nat] : \A x \in T \ {list} : d[l.prev[x]] < d[x]
  BY DEF Ranked
<1> DEFINE R == {r \in Nat : \E x \in T \ {list} : d[x] = r}
<1>2. PICK r \in R : \A s \in R : r <= s
  <2>1. R \in SUBSET Nat /\ R # {}
    OBVIOUS
  <2> HIDE DEF R
  <2> QED
    BY <2>1, LeastNumber
<1>3. PICK x \in T \ {list} : d[x] = r
  BY <1>2
<1>4. l.prev[x] \in T /\ d[l.prev[x]] \in Nat /\ d[l.prev[x]] < r
  BY <1>1, <1>3 DEF LinkedOver
<1>5. l.prev[x] = list
  <2> SUFFICES ASSUME l.prev[x] # list
               PROVE  FALSE
    OBVIOUS
  <2>1. d[l.prev[x]] \in R
    BY <1>4
  <2> QED
    BY <1>2, <1>4, <2>1
<1>6. l.next[list] = x
  BY <1>3, <1>5 DEF LinkedOver
<1> QED
  BY <1>3, <1>6
=============================================================================
