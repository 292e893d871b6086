--------------------------- MODULE PlainPagesProofs ---------------------------
(***************************************************************************)
(* The theorems about PlainPages, for arenas of any size, any size classes *)
(* that satisfy ClassAssumption and any alignments that satisfy            *)
(* RequestAssumption.                                                      *)
(*                                                                         *)
(* First facts about its states that all proofs share: the size classes,   *)
(* the runs and their first entries, and how a set of runs that tiles the  *)
(* arenas is rewritten.  Then one lemma for each action that writes        *)
(* memory: allocate_page, and deallocate_page, whether it files the        *)
(* coalesced run or unmaps the arena.  Then the theorems.                  *)
(***************************************************************************)
EXTENDS PlainPages, IntrusiveListProofs

\* The inductive invariant IInv of PlainPages, and that no free run is on a circle
\* without a sentinel (this a run of TLC does not evaluate: it sees ListsExact).
ListsSound == ListsLinked /\ Ranked(link, List \cup heads, List)
IndInv     == TypeOK /\ Tiled /\ BoundaryTags /\ Coalesced /\ ListsSound /\ RequestOK

-----------------------------------------------------------------------------
(* The constants and the nodes.                                            *)

\* ClassAssumption, in the form in which the proofs use it.
LEMMA ClassFacts ==
    /\ DataNPages \in Nat \ {0} /\ NPageClasses \in Nat \ {0}
    /\ NPageClasses - 1 \in Class
    /\ \A c \in Class : /\ c \in Int /\ 0 <= c /\ c <= NPageClasses - 1
                        /\ ClassSize[c] \in Int
                        /\ 1 <= ClassSize[c] /\ ClassSize[c] <= DataNPages
    /\ \A c, d \in Class : c <= d => ClassSize[c] <= ClassSize[d]
    /\ \A n \in 1 .. DataNPages :
          /\ FreeClass[n] \in Class /\ ClassSize[FreeClass[n]] <= n
          /\ \A c \in Class : ClassSize[c] <= n => c <= FreeClass[n]
<1>1. DataNPages \in Nat \ {0} /\ NPageClasses \in Nat \ {0}
  BY ArenaAssumption, ClassAssumption
<1>2. NPageClasses - 1 \in Class
  BY <1>1 DEF Class
<1>3. \A c \in Class : c \in Int /\ 0 <= c /\ c <= NPageClasses - 1
  BY <1>1 DEF Class
<1>4. \A c \in Class : ClassSize[c] \in 1 .. DataNPages
  BY ClassAssumption
<1>5. \A c, d \in Class : c <= d => ClassSize[c] <= ClassSize[d]
  <2> SUFFICES ASSUME NEW c \in Class, NEW d \in Class, c <= d
               PROVE  ClassSize[c] <= ClassSize[d]
    OBVIOUS
  <2>1. CASE c = d
    BY <2>1, <1>1, <1>4
  <2>2. CASE c < d
    BY <2>2, <1>1, <1>4, ClassAssumption
  <2> QED
    BY <2>1, <2>2, <1>3
<1>6. \A n \in 1 .. DataNPages : FreeClass[n] \in Class
  BY ClassAssumption
<1>7. \A n \in 1 .. DataNPages :
          /\ ClassSize[FreeClass[n]] <= n
          /\ \A c \in Class : ClassSize[c] <= n => c <= FreeClass[n]
  BY ClassAssumption
<1> QED
  BY <1>1, <1>2, <1>3, <1>4, <1>5, <1>6, <1>7

\* A free run as long as an arena belongs to the last class.
LEMMA LastClass == FreeClass[DataNPages] = NPageClasses - 1
<1>1. DataNPages \in 1 .. DataNPages
  BY ClassFacts
<1>2. ClassSize[NPageClasses - 1] <= DataNPages
  BY ClassFacts
<1>3. NPageClasses - 1 <= FreeClass[DataNPages]
  BY <1>1, <1>2, ClassFacts
<1>4. FreeClass[DataNPages] \in Int /\ FreeClass[DataNPages] <= NPageClasses - 1
  BY <1>1, ClassFacts
<1> QED
  BY <1>3, <1>4, ClassFacts

\* A class from that of a request of m pages on holds runs of m pages.
LEMMA AllocClassFits ==
    ASSUME NEW m \in 1 .. ClassSize[NPageClasses - 1],
           NEW d \in Class, d >= AllocClass[m]
    PROVE  m <= ClassSize[d]
<1>1. AllocClass[m] \in Class /\ m <= ClassSize[AllocClass[m]]
  BY ClassAssumption
<1>2. ClassSize[AllocClass[m]] <= ClassSize[d]
  BY <1>1, ClassFacts
<1>3. m \in Int
  BY ClassFacts
<1> QED
  BY <1>1, <1>2, <1>3, ClassFacts

\* The remainder of a division lies below the divisor.
LEMMA ModBounds ==
    ASSUME NEW x \in Int, NEW al \in Nat \ {0}
    PROVE  x % al \in 0 .. al - 1
  OBVIOUS

\* The entries are nodes, and none of them is a sentinel of a list.
LEMMA NodeFacts ==
    /\ List \subseteq Node /\ Page \subseteq Entry /\ Entry \subseteq Node
    /\ List \cap Entry = {}
    /\ \A c \in Class : free_pages(c) \in List
<1>1. Data \subseteq Meta
  BY ArenaAssumption DEF Data, Meta
<1> QED
  BY <1>1, ArenaAssumption DEF List, Page, Entry, Node, free_pages
-----------------------------------------------------------------------------
(* Runs and their first entries.                                           *)

\* The first node of a list that is not empty is a free run of its class.
LEMMA FirstIsHead ==
    ASSUME ListsSound, NEW c \in Class, ~IsEmpty(c)
    PROVE  First(c) \in heads /\ FreeClass[n_pages[First(c)]] = c
<1>1. free_pages(c) \in List /\ ClassOf(free_pages(c)) = c
  BY DEF List, free_pages, ClassOf
<1>2. First(c) \in List \cup heads /\ ClassOf(First(c)) = c
  BY <1>1 DEF ListsSound, ListsLinked, LinkedOver, First
<1>3. First(c) \notin List
  BY <1>2 DEF ClassOf, List, IsEmpty, free_pages
<1> QED
  BY <1>2, <1>3 DEF ClassOf

\* A free run lies in its arena.
LEMMA HeadFacts ==
    ASSUME TypeOK, Tiled, NEW h \in heads
    PROVE  /\ h \in Page /\ h = <<h[1], h[2]>> /\ h[2] \in Data
           /\ h[1] \in arenas
           /\ n_pages[h] \in 1 .. DataNPages /\ h[2] + n_pages[h] <= DataNPages
           /\ <<h[1], h[2], n_pages[h]>> \in FreeRuns
<1>1. h \in Page /\ h = <<h[1], h[2]>> /\ h[2] \in Data
  BY DEF TypeOK, Page
<1>2. <<h[1], h[2], n_pages[h]>> \in FreeRuns
  BY DEF FreeRuns
<1>3. n_pages[h] \in 1 .. DataNPages
  BY <1>2 DEF TypeOK, Run
<1> QED
  BY <1>1, <1>2, <1>3 DEF Tiled, IsTiling, Runs

\* A run, held or free, lies in a mapped arena.
LEMMA RunFacts ==
    ASSUME TypeOK, Tiled, NEW r \in Runs
    PROVE  /\ r \in Run /\ r = <<r[1], r[2], r[3]>> /\ r[1] \in arenas
           /\ r[2] \in Int /\ r[3] \in Int /\ 0 <= r[2] /\ 1 <= r[3]
           /\ r[2] + r[3] <= DataNPages /\ DataNPages \in Int
<1>1. r \in Run
  BY DEF TypeOK, Runs
<1> QED
  BY <1>1, ClassFacts DEF Run, Data, Tiled, IsTiling

\* Two runs lie apart.
LEMMA RunsApart ==
    ASSUME TypeOK, Tiled, NEW r \in Runs, NEW s \in Runs, r # s
    PROVE  r[1] # s[1] \/ r[2] + r[3] <= s[2] \/ s[2] + s[3] <= r[2]
<1>1. ASSUME NEW x \in Runs, NEW y \in Runs, x[1] = y[1],
             x[2] <= y[2], y[2] < x[2] + x[3]
      PROVE  x = y
  <2>1. y[2] \in Data /\ y[2] \in RunPages(x) /\ y[2] \in RunPages(y)
    BY <1>1, RunFacts DEF RunPages, Data
  <2> QED
    BY <2>1, <1>1 DEF Tiled, IsTiling
<1> QED
  BY <1>1, RunFacts

\* The runs of two free entries, and what a written entry has to do with them.
LEMMA HeadsApart ==
    ASSUME TypeOK, Tiled, NEW g \in heads, NEW h \in heads, g # h
    PROVE  g[1] # h[1] \/ g[2] + n_pages[g] <= h[2] \/ h[2] + n_pages[h] <= g[2]
<1>1. <<g[1], g[2], n_pages[g]>> # <<h[1], h[2], n_pages[h]>>
  BY HeadFacts
<1>2. <<g[1], g[2], n_pages[g]>> \in Runs /\ <<h[1], h[2], n_pages[h]>> \in Runs
  BY HeadFacts DEF Runs
<1> QED
  BY <1>1, <1>2, RunsApart

-----------------------------------------------------------------------------
(* Rewriting a part of an arena.                                           *)

\* Runs within the pages lo .. hi - 1 of arena a, runs that cover these pages,
\* and runs of one arena that have no page in common.
Within(R, a, lo, hi) == \A r \in R : r[1] = a /\ lo <= r[2] /\ r[2] + r[3] <= hi
Covers(R, lo, hi) == \A p \in lo .. (hi - 1) : \E r \in R : p \in RunPages(r)
Apart(R) == \A r, s \in R : r = s \/ r[2] + r[3] <= s[2] \/ s[2] + s[3] <= r[2]

\* Runs that fill the pages lo .. hi - 1 of an arena can be replaced by other
\* runs that fill the same pages: the arenas stay tiled.
LEMMA Retile ==
    ASSUME NEW R \in SUBSET Run, NEW A, IsTiling(R, A),
           NEW Old \in SUBSET R, NEW New \in SUBSET Run,
           NEW a \in A, NEW lo \in Int, NEW hi \in Int, 0 <= lo, hi <= DataNPages,
           Within(Old, a, lo, hi), Covers(Old, lo, hi),
           Within(New, a, lo, hi), Covers(New, lo, hi), Apart(New)
    PROVE  IsTiling((R \ Old) \cup New, A)
<1> DEFINE Q == (R \ Old) \cup New
<1> USE ArenaAssumption
<1>0. ASSUME NEW r \in Run
      PROVE  r[2] \in Data /\ r[3] \in 1 .. DataNPages /\ r[2] \in Int /\ r[3] \in Int
  BY DEF Run, Data
<1>1. \A r \in Q : r[1] \in A /\ r[2] + r[3] <= DataNPages
  BY <1>0 DEF IsTiling, Within
<1>2. ASSUME NEW r \in R \ Old, NEW p \in Data, r[1] = a, p \in RunPages(r)
      PROVE  ~(p \in lo .. (hi - 1))
  BY <1>2 DEF IsTiling, RunPages, Covers, Within
<1>3. ASSUME NEW r \in New, NEW p \in Data, p \in RunPages(r)
      PROVE  r[1] = a /\ p \in lo .. (hi - 1)
  BY <1>0, <1>3 DEF RunPages, Data, Within
<1>4. ASSUME NEW r \in Q, NEW s \in Q, NEW p \in Data,
             r[1] = s[1], p \in RunPages(r), p \in RunPages(s)
      PROVE  r = s
  <2>1. CASE r \in R \ Old /\ s \in R \ Old
    BY <2>1, <1>4 DEF IsTiling
  <2>2. CASE r \in New /\ s \in New
    BY <2>2, <1>0, <1>4 DEF Apart, RunPages, Data
  <2>3. CASE r \in R \ Old /\ s \in New
    BY <2>3, <1>2, <1>3, <1>4
  <2>4. CASE r \in New /\ s \in R \ Old
    BY <2>4, <1>2, <1>3, <1>4
  <2> QED
    BY <2>1, <2>2, <2>3, <2>4
<1>5. ASSUME NEW b \in A, NEW p \in Data
      PROVE  \E r \in Q : r[1] = b /\ p \in RunPages(r)
  <2>1. PICK r \in R : r[1] = b /\ p \in RunPages(r)
    BY DEF IsTiling
  <2>2. CASE r \in Old
    <3>1. b = a /\ p \in lo .. (hi - 1)
      BY <2>1, <2>2, <1>0 DEF RunPages, Data, Within
    <3> QED
      BY <3>1 DEF Covers, Within
  <2> QED
    BY <2>1, <2>2
<1> QED
  BY <1>1, <1>4, <1>5 DEF IsTiling

\* A step that writes entries of the pages lo .. hi - 1 of arena a only, and one
\* that writes neither the first nor the last entry of a run.
WritesWithin(a, lo, hi) ==
    \A e \in Entry : e[1] # a \/ e[2] < lo \/ e[2] >= hi
                     => used'[e] = used[e] /\ n_pages'[e] = n_pages[e]
KeepsEdges(r) ==
    \A e \in {<<r[1], r[2]>>, <<r[1], r[2] + r[3] - 1>>} :
       used'[e] = used[e] /\ n_pages'[e] = n_pages[e]

\* The boundary tags of a run are kept by a step that writes no entry at the
\* pages of the run.
LEMMA EdgesKept ==
    ASSUME TypeOK, Tiled, NEW a, NEW lo \in Int, NEW hi \in Int, WritesWithin(a, lo, hi),
           NEW r \in Runs, r[1] # a \/ r[2] + r[3] <= lo \/ hi <= r[2]
    PROVE  KeepsEdges(r)
<1>1. /\ r[1] \in Arena /\ r[2] \in Int /\ r[3] \in Int /\ 0 <= r[2] /\ 1 <= r[3]
      /\ r[2] + r[3] <= DataNPages /\ DataNPages \in Int
  BY RunFacts DEF Run
<1>2. ASSUME NEW k \in r[2] .. (r[2] + r[3] - 1)
      PROVE  /\ used'[<<r[1], k>>] = used[<<r[1], k>>]
             /\ n_pages'[<<r[1], k>>] = n_pages[<<r[1], k>>]
  <2>1. k \in Meta /\ (r[1] # a \/ k < lo \/ k >= hi)
    BY <1>1 DEF Meta
  <2> QED
    BY <2>1, <1>1 DEF Entry, WritesWithin
<1>3. /\ r[2] \in r[2] .. (r[2] + r[3] - 1)
      /\ r[2] + r[3] - 1 \in r[2] .. (r[2] + r[3] - 1)
  BY <1>1
<1> QED
  BY <1>2, <1>3 DEF KeepsEdges

-----------------------------------------------------------------------------
(* The free lists, as nodes filed by class.                                *)

Target == Node \cup {NullLink}
ClassOfNode == [x \in Node |-> ClassOf(x)]

\* The invariant of the lists says that the sentinels and the free runs are
\* filed by class.
LEMMA ListsAreFiled ==
    ASSUME TypeOK, ListsSound
    PROVE  Filed(link, Node, Target, List, List \cup heads, ClassOfNode)
<1>1. List \cup heads \subseteq Node
  BY NodeFacts DEF TypeOK
<1>2. link \in Links(Node, Target)
  BY DEF TypeOK, Links, Target
<1>3. \A x \in List \cup heads : link.next[x] \in List \cup heads
  BY DEF ListsSound, ListsLinked, LinkedOver
<1> QED
  BY <1>1, <1>2, <1>3 DEF Filed, ListsSound, ListsLinked, ClassOfNode

\* A free run put at the front of the list of class d.
LEMMA FileHead ==
    ASSUME NEW l, NEW H \in SUBSET Page, NEW C, NEW D, NEW d \in Class,
           NEW x \in Page \ H,
           Filed(l, Node, Target, List, List \cup H, C),
           \A y \in List \cup H : D[y] = C[y],
           D[free_pages(d)] = d, D[x] = d
    PROVE  Filed(insert_next(l, free_pages(d), x), Node, Target, List,
                 List \cup (H \cup {x}), D)
<1>1. /\ List \cup H \subseteq Node /\ x \in Node \ (List \cup H)
      /\ free_pages(d) \in List \cup H
  BY NodeFacts
<1>2. Filed(l, Node, Target, List, List \cup H, D)
  BY RelabelFiled
<1>3. Filed(insert_next(l, free_pages(d), x), Node, Target, List, (List \cup H) \cup {x}, D)
  BY <1>1, <1>2, InsertNextFiled DEF Target
<1>4. (List \cup H) \cup {x} = List \cup (H \cup {x})
  OBVIOUS
<1> QED
  BY <1>3, <1>4

\* A free run taken off its list.
LEMMA UnfileHead ==
    ASSUME NEW l, NEW H \in SUBSET Page, NEW C, NEW x \in H,
           Filed(l, Node, Target, List, List \cup H, C)
    PROVE  Filed(remove_from_list(l, x), Node, Target, List, List \cup (H \ {x}), C)
<1>1. List \cup H \subseteq Node /\ x \in List \cup H /\ x \notin List
  BY NodeFacts
<1>2. (List \cup H) \ {x} = List \cup (H \ {x})
  BY NodeFacts
<1> QED
  BY <1>1, <1>2, RemoveFiled DEF Target

\* Forgetting the links of nodes that are not filed.
LEMMA ForgetFiled ==
    ASSUME NEW l, NEW S \in SUBSET Node, NEW C, NEW dead, dead \cap S = {},
           Filed(l, Node, Target, List, S, C)
    PROVE  Filed(ForgetLinks(l, dead), Node, Target, List, S, C)
<1> DEFINE m == ForgetLinks(l, dead)
<1>1. /\ l.next \in [Node -> Target] /\ l.prev \in [Node -> Target]
      /\ NullLink \in Target
  BY DEF Filed, Links, Target
<1>2. m \in Links(Node, Target)
  BY <1>1 DEF ForgetLinks, Assign, Links
<1>3. \A x \in S : m.next[x] = l.next[x] /\ m.prev[x] = l.prev[x]
  BY <1>1 DEF ForgetLinks, Assign
<1>4. \A x \in S : l.next[x] \in S /\ l.prev[x] \in S
  BY DEF Filed, LinkedOver
<1>5. LinkedOver(l, S) /\ \A x \in S : C[l.next[x]] = C[x]
  BY DEF Filed
<1> HIDE DEF m
<1>6. LinkedOver(m, S)
  BY <1>3, <1>4, <1>5 DEF LinkedOver
<1>7. \A x \in S : C[m.next[x]] = C[x]
  BY <1>3, <1>5
<1>8. Ranked(m, S, List)
  <2>1. PICK d \in [S -> Nat] : \A x \in S \ List : d[l.prev[x]] < d[x]
    BY DEF Filed, Ranked
  <2>2. \A x \in S \ List : d[m.prev[x]] < d[x]
    BY <1>3, <2>1
  <2> QED
    BY <2>1, <2>2 DEF Ranked
<1>9. Filed(m, Node, Target, List, S, C)
  BY <1>2, <1>6, <1>7, <1>8 DEF Filed
<1> QED
  BY <1>9 DEF m
\* The classes by which the lists must be filed after a step.
NextClassOfNode == [x \in Node |-> IF x \in List THEN x[2] ELSE FreeClass[n_pages'[x]]]

\* Lists filed in this way are linked as the invariant says.
LEMMA FiledIsLinked ==
    ASSUME heads' \subseteq Page,
           Filed(link', Node, Target, List, List \cup heads', NextClassOfNode)
    PROVE  ListsSound'
<1>1. List \cup heads' \subseteq Node
  BY NodeFacts
<1>2. LinkedOver(link', List \cup heads')
  BY DEF Filed
<1>3. ASSUME NEW x \in List \cup heads'
      PROVE  (IF link'.next[x] \in List THEN link'.next[x][2]
              ELSE FreeClass[n_pages'[link'.next[x]]])
             = (IF x \in List THEN x[2] ELSE FreeClass[n_pages'[x]])
  <2>1. link'.next[x] \in Node /\ x \in Node
    BY <1>1, <1>2 DEF LinkedOver
  <2>2. NextClassOfNode[link'.next[x]] = NextClassOfNode[x]
    BY DEF Filed
  <2> QED
    BY <2>1, <2>2 DEF NextClassOfNode
<1> QED
  BY <1>2, <1>3 DEF Filed, ListsSound, ListsLinked, ClassOf

-----------------------------------------------------------------------------
(***************************************************************************)
(* allocate_page.                                                          *)
(***************************************************************************)
-----------------------------------------------------------------------------
(* Where allocate_page cuts.                                               *)

\* Class c is the one whose first run serves the request, as the theorem
\* ServedRunFits states it.
Chosen(c) == IF request.fresh THEN c = NPageClasses - 1 /\ FreshFits
             ELSE Serves(c, request.n, request.align)

\* The run that allocate_page chooses is long enough: also behind the padding
\* that the alignment asks for, the cut does not reach before its first page,
\* and the padding is filed in an earlier list than the run it is cut from.
LEMMA CutGeometry ==
    ASSUME TypeOK, Tiled, ListsSound, RequestOK, request # NoRequest,
           NEW c \in Class, Chosen(c)
    PROVE  LET h       == First(c)
               padding == Padding(h, request.n, request.align)
               left    == AlignedIdx(h, request.n, request.align) - h[2]
           IN  /\ h \in heads
               /\ FreeClass[n_pages[h]] = c
               /\ request.n \in 1 .. DataNPages
               /\ padding \in Nat /\ left \in Nat
               /\ left + request.n + padding = n_pages[h]
               /\ padding # 0 => /\ padding \in 1 .. DataNPages
                                 /\ FreeClass[padding] < c
<1> DEFINE n == request.n
           al == request.align
           h == First(c)
           N == n_pages[h]
           u == h[2] + N - n
           padding == Padding(h, n, al)
           last == NPageClasses - 1
<1>1. n \in 1 .. MaxNPages /\ al \in PageAligns /\ n >= al
  BY DEF RequestOK
<1>2. /\ n \in Int /\ n > 0 /\ al \in Nat \ {0} /\ n >= al
      /\ n + al - 1 <= ClassSize[last]
  <2>1. n \in Int /\ n > 0 /\ n <= MaxNPages /\ MaxNPages \in Int
    BY <1>1, RequestAssumption
  <2>2. al \in Nat \ {0} /\ MaxNPages + al - 1 <= ClassSize[last]
    BY <1>1, RequestAssumption
  <2> QED
    BY <2>1, <2>2, <1>1, ClassFacts
<1>3. ~IsEmpty(c)
  BY DEF Chosen, FreshFits, Serves, FitsAligned
<1>4. h \in heads /\ FreeClass[N] = c
  BY <1>3, FirstIsHead
<1>5. h[2] \in Data /\ N \in 1 .. DataNPages /\ h[2] + N <= DataNPages
  BY <1>4, HeadFacts
<1>6. ClassSize[c] <= N /\ ClassSize[c] \in Int
  BY <1>4, <1>5, ClassFacts
<1>7. /\ last \in Class /\ ClassSize[last] \in Int
      /\ n \in 1 .. ClassSize[last] /\ n + al - 1 \in 1 .. ClassSize[last]
  BY <1>2, ClassFacts
<1>9. n <= ClassSize[c]
  <2>1. CASE request.fresh
    BY <2>1, <1>2, <1>7 DEF Chosen
  <2>2. CASE ~request.fresh /\ c = AllocClass[n]
    BY <2>2, <1>2, <1>7, AllocClassFits, ClassFacts
  <2>3. CASE ~request.fresh /\ c # AllocClass[n]
    <3>1. c >= AllocClass[n + al - 1]
      BY <2>3 DEF Chosen, Serves
    <3>2. n + al - 1 <= ClassSize[c]
      BY <3>1, <1>2, <1>7, AllocClassFits
    <3> QED
      BY <3>2, <1>2, <1>6
  <2> QED
    BY <2>1, <2>2, <2>3
<1>10. u \in 0 .. DataNPages
  BY <1>2, <1>5, <1>6, <1>9, ClassFacts DEF Data
<1>11. padding = (u + MetadataNPages) % al
  BY DEF Padding
<1>12. padding \in 0 .. al - 1 /\ padding <= u
  <2>1. u + MetadataNPages \in Int
    BY <1>10, ArenaAssumption
  <2> QED
    BY <2>1, <1>1, <1>2, <1>10, <1>11, ModBounds, RequestAssumption
<1>14. AlignedIdx(h, n, al) = u - padding
  BY <1>2, <1>5, <1>12, ClassFacts DEF AlignedIdx, Data
<1>13. u - padding >= h[2]
  <2>1. CASE al # 1 /\ FitsAligned(c, n, al) /\ ~request.fresh /\ c = AllocClass[n]
    <3>1. u - padding >= h[2] \/ u - padding < 0
      BY <2>1, <1>14 DEF FitsAligned
    <3> QED
      BY <3>1, <1>10, <1>12
  <2>2. CASE ~(al # 1 /\ FitsAligned(c, n, al) /\ ~request.fresh /\ c = AllocClass[n])
    <3>1. n + al - 1 <= ClassSize[c]
      <4>1. CASE request.fresh
        BY <4>1, <1>2 DEF Chosen
      <4>2. CASE ~request.fresh
        <5>1. c >= AllocClass[n + al - 1]
          BY <2>2, <4>2 DEF Chosen, Serves
        <5> QED
          BY <5>1, <1>2, <1>7, AllocClassFits
      <4> QED
        BY <4>1, <4>2
    <3> QED
      BY <3>1, <1>2, <1>5, <1>6, <1>10, <1>12 DEF Data
  <2> QED
    BY <2>1, <2>2
<1>15. ASSUME padding # 0
       PROVE  padding \in 1 .. DataNPages /\ FreeClass[padding] < c
  <2>1. padding \in 1 .. DataNPages /\ padding < n
    BY <1>15, <1>2, <1>10, <1>12, ClassFacts
  <2>2. FreeClass[padding] \in Class /\ ClassSize[FreeClass[padding]] < ClassSize[c]
    BY <2>1, <1>6, <1>2, <1>9, ClassFacts
  <2>3. c <= FreeClass[padding] => ClassSize[c] <= ClassSize[FreeClass[padding]]
    BY <2>2, ClassFacts DEF Class
  <2> QED
    BY <2>1, <2>2, <2>3, <1>6, ClassFacts DEF Class
<1>16. n \in 1 .. DataNPages
  BY <1>2, <1>5, <1>6, <1>9, ClassFacts
<1>17. (u - padding) - h[2] \in Nat /\ ((u - padding) - h[2]) + n + padding = N /\ padding \in Nat
  BY <1>2, <1>5, <1>10, <1>12, <1>13 DEF Data
<1> QED
  BY <1>4, <1>14, <1>15, <1>16, <1>17

-----------------------------------------------------------------------------
(* What take_pages writes, entry by entry.                                 *)

\* A run of n pages is cut out of the first free run of class c: `left` pages
\* before it and `padding` pages behind it stay free.
Cut(c, n, left, padding) ==
    /\ First(c) \in heads
    /\ FreeClass[n_pages[First(c)]] = c
    /\ n \in 1 .. DataNPages
    /\ padding \in Nat /\ left \in Nat
    /\ left + n + padding = n_pages[First(c)]
    /\ padding # 0 => padding \in 1 .. DataNPages /\ FreeClass[padding] < c

\* take_pages cuts in this way.
TakeStep(c, n, al, left, padding) ==
    /\ Cut(c, n, left, padding)
    /\ take_pages(c, n, al)
    /\ padding = Padding(First(c), n, al)
    /\ First(c)[2] + left = AlignedIdx(First(c), n, al)

\* The lengths after the cut: both ends of each piece carry its length, and
\* nothing is written outside of the old run.
NPagesTaken(c, n, left, padding) ==
    LET h == First(c)
        a == h[1]
        i == h[2]
        N == n_pages[h]
    IN  /\ n_pages' \in [Entry -> 0 .. DataNPages]
        /\ \A e \in Entry : e[1] # a \/ e[2] < i \/ e[2] >= i + N
                            => n_pages'[e] = n_pages[e]
        /\ left # 0 => n_pages'[h] = left /\ n_pages'[<<a, i + left - 1>>] = left
        /\ padding # 0 => /\ n_pages'[<<a, i + left + n>>] = padding
                          /\ n_pages'[<<a, i + N - 1>>] = padding

\* take_pages writes these lengths.
LEMMA TakeNPages ==
    ASSUME TypeOK, Tiled, NEW c \in Class, NEW n \in Int, NEW al,
           NEW left \in Nat, NEW padding \in Nat,
           TakeStep(c, n, al, left, padding)
    PROVE  NPagesTaken(c, n, left, padding)
<1> DEFINE h == First(c)
           a == h[1]
           i == h[2]
           N == n_pages[h]
           idx == AlignedIdx(h, n, al)
           succ == i + N
           tail == idx + n - 1
           taken == Entries(a, idx, n)
<1>1. /\ a \in Arena /\ i \in Data /\ N \in 1 .. DataNPages /\ i + N <= DataNPages
      /\ h = <<a, i>> /\ h \in Entry
  BY HeadFacts, NodeFacts DEF TakeStep, Cut, Page
<1>2. /\ DataNPages \in Nat /\ i \in Int /\ N \in Int /\ n \in Int /\ n > 0 /\ 0 <= i
      /\ left \in Int /\ 0 <= left /\ padding \in Int /\ 0 <= padding /\ left + n + padding = N
  BY <1>1, ClassFacts DEF TakeStep, Cut, Data
<1>3. n_pages \in [Entry -> 0 .. DataNPages]
  BY DEF TypeOK
<1> DEFINE If(S, k) == IF k = 0 THEN {} ELSE S
           f1 == Assign(n_pages, taken, 0)
           f2 == Assign(f1, If({<<a, succ - 1>>, <<a, tail + 1>>}, padding), padding)
<1>4. n_pages' = Assign(f2, If({h, <<a, idx - 1>>}, idx - i), idx - i)
  BY DEF TakeStep, take_pages
<1>6. idx - i = left /\ idx \in Int /\ tail + 1 = idx + n /\ succ = i + N
  BY <1>2 DEF TakeStep
<1>5. f1 \in [Entry -> 0 .. DataNPages] /\ f2 \in [Entry -> 0 .. DataNPages]
  <2>1. 0 \in 0 .. DataNPages /\ padding \in 0 .. DataNPages
    BY <1>1, <1>2
  <2>2. f1 \in [Entry -> 0 .. DataNPages]
    BY <2>1, <1>3 DEF Assign
  <2> HIDE DEF f1
  <2> QED
    BY <2>1, <2>2 DEF Assign
<1>9. n_pages' \in [Entry -> 0 .. DataNPages]
  <2>1. idx - i \in 0 .. DataNPages
    BY <1>1, <1>2, <1>6
  <2> HIDE DEF f2
  <2> QED
    BY <2>1, <1>4, <1>5 DEF Assign
<1>7. ASSUME NEW e \in Entry
      PROVE  n_pages'[e] = IF left # 0 /\ e \in {h, <<a, idx - 1>>} THEN left
                           ELSE IF padding # 0 /\ e \in {<<a, tail + 1>>, <<a, succ - 1>>} THEN padding
                           ELSE IF e \in taken THEN 0 ELSE n_pages[e]
  <2>1. f1[e] = IF e \in taken THEN 0 ELSE n_pages[e]
    BY <1>3 DEF Assign
  <2>2. f2[e] = IF padding # 0 /\ e \in {<<a, tail + 1>>, <<a, succ - 1>>} THEN padding ELSE f1[e]
    <3> HIDE DEF f1, succ, tail
    <3> QED
      BY <1>5 DEF Assign
  <2>3. n_pages'[e] = IF left # 0 /\ e \in {h, <<a, idx - 1>>} THEN left ELSE f2[e]
    <3> HIDE DEF f2, h, idx
    <3> QED
      BY <1>4, <1>5, <1>6 DEF Assign
  <2> HIDE DEF f1, f2
  <2> QED
    BY <2>1, <2>2, <2>3
<1>8. \A e \in Entry : e \in taken => e[1] = a /\ idx <= e[2] /\ e[2] < idx + n
  BY <1>2, <1>6 DEF Entries
<1>10. \A e \in Entry : e[1] # a \/ e[2] < i \/ e[2] >= i + N => n_pages'[e] = n_pages[e]
  <2> SUFFICES ASSUME NEW e \in Entry, e[1] # a \/ e[2] < i \/ e[2] >= i + N
               PROVE  n_pages'[e] = n_pages[e]
    OBVIOUS
  <2>1. e[2] \in Int
    BY <1>2 DEF Entry, Meta
  <2>2. e \notin taken
    BY <1>2, <1>6, <1>8, <2>1
  <2>3. left # 0 => e # h /\ e # <<a, idx - 1>>
    BY <1>1, <1>2, <1>6, <2>1
  <2>4. padding # 0 => e # <<a, tail + 1>> /\ e # <<a, succ - 1>>
    BY <1>2, <1>6, <2>1
  <2> QED
    BY <1>7, <2>2, <2>3, <2>4
<1>11. \A k \in i .. (i + N - 1) : <<a, k>> \in Entry
  BY <1>1, <1>2 DEF Entry, Meta
<1>12. ASSUME left # 0
       PROVE  n_pages'[h] = left /\ n_pages'[<<a, i + left - 1>>] = left
  <2>1. idx - 1 = i + left - 1 /\ idx - 1 \in i .. (i + N - 1)
    BY <1>2, <1>6, <1>12
  <2> QED
    BY <2>1, <1>1, <1>7, <1>11, <1>12
<1>13. ASSUME padding # 0
       PROVE  n_pages'[<<a, i + left + n>>] = padding /\ n_pages'[<<a, i + N - 1>>] = padding
  <2>1. /\ tail + 1 = i + left + n /\ succ - 1 = i + N - 1
        /\ tail + 1 \in i .. (i + N - 1) /\ succ - 1 \in i .. (i + N - 1)
    BY <1>2, <1>6, <1>13
  <2>2. tail + 1 # idx - 1 /\ succ - 1 # idx - 1
        /\ (left # 0 => tail + 1 # i /\ succ - 1 # i)
    BY <1>2, <1>6, <1>13
  <2>3. <<a, tail + 1>> \in Entry /\ <<a, succ - 1>> \in Entry
    BY <2>1, <1>11
  <2> QED
    BY <2>1, <2>2, <2>3, <1>1, <1>7, <1>13
<1> QED
  BY <1>9, <1>10, <1>12, <1>13 DEF NPagesTaken

\* The flags after the cut: the run handed out is used at both ends, the pieces
\* are free at both ends, and nothing is written outside of the old run.
UsedTaken(c, n, left, padding) ==
    LET h == First(c)
        a == h[1]
        i == h[2]
        N == n_pages[h]
    IN  /\ used' \in [Entry -> BOOLEAN]
        /\ \A e \in Entry : e[1] # a \/ e[2] < i \/ e[2] >= i + N
                            => used'[e] = used[e]
        /\ used'[<<a, i + left>>] = TRUE /\ used'[<<a, i + left + n - 1>>] = TRUE
        /\ left # 0 => /\ used'[h] = (IF left = 1 THEN FALSE ELSE used[h])
                       /\ used'[<<a, i + left - 1>>] = FALSE
        /\ padding # 0 =>
              /\ used'[<<a, i + left + n>>] = FALSE
              /\ used'[<<a, i + N - 1>>]
                    = (IF padding = 1 THEN FALSE ELSE used[<<a, i + N - 1>>])

\* take_pages writes these flags.
LEMMA TakeUsed ==
    ASSUME TypeOK, Tiled, NEW c \in Class, NEW n \in Int, NEW al,
           NEW left \in Nat, NEW padding \in Nat,
           TakeStep(c, n, al, left, padding)
    PROVE  UsedTaken(c, n, left, padding)
<1> DEFINE h == First(c)
           a == h[1]
           i == h[2]
           N == n_pages[h]
           idx == AlignedIdx(h, n, al)
           succ == i + N
           tail == idx + n - 1
<1>1. /\ a \in Arena /\ i \in Data /\ N \in 1 .. DataNPages /\ i + N <= DataNPages
      /\ h = <<a, i>> /\ h \in Entry
  BY HeadFacts, NodeFacts DEF TakeStep, Cut, Page
<1>2. /\ DataNPages \in Nat /\ i \in Int /\ N \in Int /\ n \in Int /\ n > 0 /\ 0 <= i
      /\ left \in Int /\ 0 <= left /\ padding \in Int /\ 0 <= padding /\ left + n + padding = N
  BY <1>1, ClassFacts DEF TakeStep, Cut, Data
<1>3. used \in [Entry -> BOOLEAN]
  BY DEF TypeOK
<1> DEFINE If(S, k) == IF k = 0 THEN {} ELSE S
           freed == If({<<a, tail + 1>>}, padding) \cup If({<<a, idx - 1>>}, idx - i)
           u == Assign(used, freed, FALSE)
<1>4. used' = Assign(u, {<<a, tail>>, <<a, idx>>}, TRUE)
  BY DEF TakeStep, take_pages
<1>5. idx - i = left /\ idx \in Int /\ tail = idx + (n - 1) /\ tail \in Int /\ idx = i + left
  BY <1>2 DEF TakeStep
<1>13. u \in [Entry -> BOOLEAN]
  BY <1>3 DEF Assign
<1>6. used' \in [Entry -> BOOLEAN]
  <2> HIDE DEF u
  <2> QED
    BY <1>13, <1>4 DEF Assign
<1>7. ASSUME NEW e \in Entry
      PROVE  used'[e] = IF e \in {<<a, idx>>, <<a, tail>>} THEN TRUE
                        ELSE IF left # 0 /\ e = <<a, idx - 1>> THEN FALSE
                        ELSE IF padding # 0 /\ e = <<a, tail + 1>> THEN FALSE
                        ELSE used[e]
  <2>1. e \in freed => u[e] = FALSE
    <3> HIDE DEF freed
    <3> QED
      BY <1>3 DEF Assign
  <2>2. e \notin freed => u[e] = used[e]
    <3> HIDE DEF freed
    <3> QED
      BY <1>3 DEF Assign
  <2>3. e \in {<<a, tail>>, <<a, idx>>} => used'[e] = TRUE
    <3> HIDE DEF u, tail, idx
    <3> QED
      BY <1>4, <1>13 DEF Assign
  <2>4. e \notin {<<a, tail>>, <<a, idx>>} => used'[e] = u[e]
    <3> HIDE DEF u, tail, idx
    <3> QED
      BY <1>4, <1>13 DEF Assign
  <2>5. e \in freed <=> (left # 0 /\ e = <<a, idx - 1>>) \/ (padding # 0 /\ e = <<a, tail + 1>>)
    <3>1. freed = (IF padding = 0 THEN {} ELSE {<<a, tail + 1>>})
                  \cup (IF left = 0 THEN {} ELSE {<<a, idx - 1>>})
      BY <1>5
    <3> HIDE DEF freed, tail, idx
    <3> QED
      BY <3>1
  <2> HIDE DEF u, freed, tail, idx
  <2> QED
    BY <2>1, <2>2, <2>3, <2>4, <2>5, Zenon
<1>8. \A e \in Entry : e[1] # a \/ e[2] < i \/ e[2] >= i + N => used'[e] = used[e]
  <2> SUFFICES ASSUME NEW e \in Entry, e[1] # a \/ e[2] < i \/ e[2] >= i + N
               PROVE  used'[e] = used[e]
    OBVIOUS
  <2>1. e[2] \in Int
    BY <1>2 DEF Entry, Meta
  <2>2. \A k \in i .. (i + N - 1) : e # <<a, k>>
    BY <1>2, <2>1
  <2>3. idx \in i .. (i + N - 1) /\ tail \in i .. (i + N - 1)
    BY <1>2, <1>5
  <2>4. left # 0 => idx - 1 \in i .. (i + N - 1)
    BY <1>2, <1>5
  <2>5. ASSUME padding # 0 PROVE tail + 1 \in i .. (i + N - 1)
    <3> HIDE DEF idx
    <3> QED
      BY <1>2, <1>5, <2>5
  <2> HIDE DEF idx, tail
  <2> QED
    BY <1>7, <2>2, <2>3, <2>4, <2>5
<1>9. \A k \in i .. (i + N - 1) : <<a, k>> \in Entry
  BY <1>1, <1>2 DEF Entry, Meta
<1>10. used'[<<a, i + left>>] = TRUE /\ used'[<<a, i + left + n - 1>>] = TRUE
  <2>1. /\ idx \in i .. (i + N - 1) /\ tail \in i .. (i + N - 1) /\ tail = i + left + n - 1
    BY <1>2, <1>5
  <2> QED
    BY <2>1, <1>5, <1>7, <1>9
<1>11. ASSUME left # 0
       PROVE  /\ used'[h] = (IF left = 1 THEN FALSE ELSE used[h])
              /\ used'[<<a, i + left - 1>>] = FALSE
  <2>1. /\ idx - 1 \in i .. (i + N - 1) /\ idx - 1 = i + left - 1
        /\ idx - 1 # idx /\ idx - 1 # tail /\ idx - 1 # tail + 1
        /\ i # idx /\ i # tail /\ i # tail + 1 /\ (i = idx - 1 <=> left = 1)
    <3> HIDE DEF idx
    <3> QED
      BY <1>2, <1>5, <1>11
  <2>2. used'[<<a, idx - 1>>] = FALSE
    BY <2>1, <1>7, <1>9, <1>11
  <2>3. used'[<<a, i>>] = (IF left = 1 THEN FALSE ELSE used[<<a, i>>])
    BY <2>1, <1>1, <1>7, <1>11
  <2> QED
    BY <2>1, <2>2, <2>3, <1>1
<1>12. ASSUME padding # 0
       PROVE  /\ used'[<<a, i + left + n>>] = FALSE
              /\ used'[<<a, i + N - 1>>]
                    = (IF padding = 1 THEN FALSE ELSE used[<<a, i + N - 1>>])
  <2>1. /\ tail + 1 \in i .. (i + N - 1) /\ succ - 1 \in i .. (i + N - 1)
        /\ tail + 1 = i + left + n /\ succ - 1 = i + N - 1
        /\ tail + 1 # idx /\ tail + 1 # tail /\ tail + 1 # idx - 1
        /\ succ - 1 # idx /\ succ - 1 # tail /\ succ - 1 # idx - 1
        /\ (succ - 1 = tail + 1 <=> padding = 1)
    <3> HIDE DEF idx
    <3> QED
      BY <1>2, <1>5, <1>12
  <2>2. used'[<<a, tail + 1>>] = FALSE
    BY <2>1, <1>7, <1>9, <1>12
  <2>3. used'[<<a, succ - 1>>] = (IF padding = 1 THEN FALSE ELSE used[<<a, succ - 1>>])
    BY <2>1, <1>7, <1>9, <1>12
  <2> QED
    BY <2>1, <2>2, <2>3
<1> QED
  BY <1>6, <1>8, <1>10, <1>11, <1>12 DEF UsedTaken

-----------------------------------------------------------------------------
(* What take_pages does to the runs.                                       *)

\* The first pages of runs.
FirstPages(R) == {<<r[1], r[2]>> : r \in R}

\* The run that is cut, the run that is handed out, and the free runs left over.
OldRun(c) == <<First(c)[1], First(c)[2], n_pages[First(c)]>>
NewRun(c, n, left) == <<First(c)[1], First(c)[2] + left, n>>
Pieces(c, n, left, padding) ==
    (IF left = 0 THEN {} ELSE {<<First(c)[1], First(c)[2], left>>})
    \cup (IF padding = 0 THEN {}
          ELSE {<<First(c)[1], First(c)[2] + left + n, padding>>})

\* The runs after the cut.
RunsTaken(c, n, left, padding) ==
    /\ held' = held \cup {NewRun(c, n, left)}
    /\ FreeRuns' = (FreeRuns \ {OldRun(c)}) \cup Pieces(c, n, left, padding)
    /\ heads' = (heads \ {First(c)}) \cup FirstPages(Pieces(c, n, left, padding))

\* The cut replaces the old run by the run handed out and the free pieces.
LEMMA TakeRuns ==
    ASSUME TypeOK, Tiled, NEW c \in Class, NEW n \in Int, NEW al,
           NEW left \in Nat, NEW padding \in Nat,
           TakeStep(c, n, al, left, padding)
    PROVE  RunsTaken(c, n, left, padding)
<1> DEFINE h == First(c)
           a == h[1]
           i == h[2]
           N == n_pages[h]
           old == <<a, i, N>>
           L == IF left = 0 THEN {} ELSE {<<a, i, left>>}
           P == IF padding = 0 THEN {} ELSE {<<a, i + left + n, padding>>}
           free == L \cup P
<1>1. /\ h \in heads /\ h = <<a, i>> /\ i \in Int /\ N \in Int
      /\ n \in Int /\ n > 0 /\ left \in Int /\ 0 <= left
      /\ padding \in Int /\ 0 <= padding /\ left + n + padding = N
  <2>1. h \in heads /\ n \in 1 .. DataNPages /\ padding \in Nat /\ left \in Nat
        /\ left + n + padding = N
    BY DEF TakeStep, Cut
  <2>2. h \in Page /\ h = <<a, i>> /\ i \in Data /\ N \in 1 .. DataNPages
    BY <2>1, HeadFacts
  <2> QED
    BY <2>1, <2>2, ClassFacts DEF Data
<1> DEFINE idx == AlignedIdx(h, n, al)
           tail == idx + n - 1
<1>2. idx = i + left /\ tail + 1 = i + left + n /\ idx - i = left
  BY <1>1 DEF TakeStep
<1>3. held' = held \cup {<<a, i + left, n>>}
  <2>1. held' = held \cup {<<a, idx, n>>}
    BY DEF TakeStep, take_pages
  <2> QED
    BY <2>1, <1>2
<1>4. heads' = (heads \ {h}) \cup {<<r[1], r[2]>> : r \in free}
  <2>1. heads' = (heads \ {h}) \cup (IF idx - i = 0 THEN {} ELSE {h})
                 \cup (IF padding = 0 THEN {} ELSE {<<a, tail + 1>>})
    BY DEF TakeStep, take_pages
  <2>2. {<<r[1], r[2]>> : r \in free}
           = (IF left = 0 THEN {} ELSE {<<a, i>>})
             \cup (IF padding = 0 THEN {} ELSE {<<a, i + left + n>>})
    <3>1. {<<r[1], r[2]>> : r \in L} = (IF left = 0 THEN {} ELSE {<<a, i>>})
      <4>1. CASE left = 0
        BY <4>1
      <4>2. CASE left # 0
        BY <4>2
      <4> QED
        BY <4>1, <4>2
    <3>2. {<<r[1], r[2]>> : r \in P} = (IF padding = 0 THEN {} ELSE {<<a, i + left + n>>})
      <4>1. CASE padding = 0
        BY <4>1
      <4>2. CASE padding # 0
        BY <4>2
      <4> QED
        BY <4>1, <4>2
    <3> HIDE DEF L, P
    <3> QED
      BY <3>1, <3>2
  <2> HIDE DEF idx, tail, h, free
  <2> QED
    BY <2>1, <2>2, <1>1, <1>2
<1>14. NPagesTaken(c, n, left, padding)
  BY TakeNPages
<1>5. \A g \in heads \ {h} : n_pages'[g] = n_pages[g]
  <2> SUFFICES ASSUME NEW g \in heads \ {h}
               PROVE  n_pages'[g] = n_pages[g]
    OBVIOUS
  <2>1. g \in Entry /\ (g[1] # a \/ g[2] + n_pages[g] <= i \/ i + N <= g[2])
    BY <1>1, HeadFacts, HeadsApart, NodeFacts
  <2>2. g[1] # a \/ g[2] < i \/ g[2] >= i + N
    <3>1. g[2] \in Int /\ n_pages[g] \in Int /\ n_pages[g] >= 1
      <4>1. g \in heads
        OBVIOUS
      <4>2. g[2] \in Data /\ n_pages[g] \in 1 .. DataNPages
        BY <4>1, HeadFacts
      <4> QED
        BY <4>2, ArenaAssumption DEF Data
    <3> QED
      BY <2>1, <3>1, <1>1
  <2> QED
    BY <2>1, <2>2, <1>14 DEF NPagesTaken
<1>6. \A r \in free : n_pages'[<<r[1], r[2]>>] = r[3]
  <2>1. left # 0 => n_pages'[h] = left
    BY <1>1, <1>14 DEF NPagesTaken
  <2>2. padding # 0 => n_pages'[<<a, i + left + n>>] = padding
    BY <1>1, <1>14 DEF NPagesTaken
  <2>3. left # 0 => n_pages'[<<a, i>>] = left
    BY <2>1, <1>1
  <2> HIDE DEF h
  <2> QED
    BY <2>2, <2>3
<1>7. FreeRuns' = {<<g[1], g[2], n_pages'[g]>> : g \in heads'}
  BY DEF FreeRuns
<1>8. \A r \in free : r = <<r[1], r[2], r[3]>>
  OBVIOUS
<1>9. {<<g[1], g[2], n_pages'[g]>> : g \in heads \ {h}} = FreeRuns \ {old}
  <2>1. \A g \in heads \ {h} : <<g[1], g[2], n_pages[g]>> # old
    BY <1>1, HeadFacts
  <2> QED
    BY <2>1, <1>5 DEF FreeRuns
<1>10. {<<g[1], g[2], n_pages'[g]>> : g \in {<<r[1], r[2]>> : r \in free}} = free
  <2>1. \A r \in free : <<(<<r[1], r[2]>>)[1], (<<r[1], r[2]>>)[2], n_pages'[<<r[1], r[2]>>]>> = r
    BY <1>6, <1>8
  <2> HIDE DEF free
  <2> QED
    BY <2>1
<1>11. FreeRuns' = (FreeRuns \ {old}) \cup free
  <2> HIDE DEF free, old, h
  <2> QED
    BY <1>4, <1>7, <1>9, <1>10
<1>12. /\ old = OldRun(c) /\ <<a, i + left, n>> = NewRun(c, n, left)
       /\ free = Pieces(c, n, left, padding)
  BY DEF OldRun, NewRun, Pieces
<1>13. heads' = (heads \ {h}) \cup FirstPages(free)
  BY <1>4 DEF FirstPages
<1> HIDE DEF free, old
<1> QED
  BY <1>3, <1>11, <1>12, <1>13 DEF RunsTaken
\* The run taken and the free pieces beside it are runs within the old one, in
\* which they fill every page once.
LEMMA TakePieces ==
    ASSUME TypeOK, Tiled, NEW c \in Class, NEW n \in Int, NEW left \in Nat,
           NEW padding \in Nat, Cut(c, n, left, padding)
    PROVE  LET h == First(c)
               i == h[2]
               N == n_pages[h]
           IN  /\ OldRun(c) \in FreeRuns /\ h[1] \in arenas /\ h \in heads
               /\ h = <<h[1], i>> /\ i \in Int /\ 0 <= i
               /\ N \in Int /\ i + N <= DataNPages /\ DataNPages \in Int
               /\ n \in 1 .. DataNPages /\ left + n + padding = N
               /\ NewRun(c, n, left) \in Run
               /\ Pieces(c, n, left, padding) \subseteq Run
               /\ NewRun(c, n, left) \notin Pieces(c, n, left, padding)
               /\ \A r \in {NewRun(c, n, left)} \cup Pieces(c, n, left, padding) :
                     /\ r[1] = h[1] /\ r[2] \in Int /\ r[3] \in Int /\ 1 <= r[3]
                     /\ i <= r[2] /\ r[2] + r[3] <= i + N
               /\ \A r, s \in {NewRun(c, n, left)} \cup Pieces(c, n, left, padding) :
                     r = s \/ r[2] + r[3] <= s[2] \/ s[2] + s[3] <= r[2]
               /\ \A r \in Pieces(c, n, left, padding), s \in Pieces(c, n, left, padding) :
                     r[2] + r[3] # s[2]
               /\ \A p \in i .. (i + N - 1) :
                     \E r \in {NewRun(c, n, left)} \cup Pieces(c, n, left, padding) :
                        p \in RunPages(r)
<1> DEFINE h == First(c)
           a == h[1]
           i == h[2]
           N == n_pages[h]
           old == <<a, i, N>>
           t == <<a, i + left, n>>
           L == <<a, i, left>>
           P == <<a, i + left + n, padding>>
           free == (IF left = 0 THEN {} ELSE {L}) \cup (IF padding = 0 THEN {} ELSE {P})
<1>1. h \in heads /\ n \in 1 .. DataNPages /\ left + n + padding = N
  BY DEF Cut
<1>2. /\ h = <<a, i>> /\ a \in arenas /\ a \in Arena /\ i \in Data
      /\ N \in 1 .. DataNPages /\ i + N <= DataNPages /\ old \in FreeRuns
  BY <1>1, HeadFacts DEF Page
<1>3. i \in Int /\ 0 <= i /\ N \in Int /\ n \in Int /\ 1 <= n /\ DataNPages \in Int
  BY <1>1, <1>2, ClassFacts DEF Data
<1>4. /\ t \in Run
      /\ left # 0 => L \in Run
      /\ padding # 0 => P \in Run
  <2>1. i + left \in Data /\ n \in 1 .. DataNPages
    BY <1>1, <1>2, <1>3 DEF Data
  <2>2. left # 0 => left \in 1 .. DataNPages
    BY <1>1, <1>2, <1>3
  <2>3. padding # 0 => i + left + n \in Data /\ padding \in 1 .. DataNPages
    BY <1>1, <1>2, <1>3 DEF Data
  <2> QED
    BY <2>1, <2>2, <2>3, <1>2 DEF Run
<1>5. free \subseteq Run
  BY <1>4
<1>6. t \notin free
  BY <1>3
<1>7. \A r \in {t} \cup free :
         /\ r[1] = a /\ r[2] \in Int /\ r[3] \in Int /\ 1 <= r[3]
         /\ i <= r[2] /\ r[2] + r[3] <= i + N
  <2>1. t[1] = a /\ t[2] = i + left /\ t[3] = n
    OBVIOUS
  <2>2. left # 0 => L[1] = a /\ L[2] = i /\ L[3] = left /\ 1 <= left
    OBVIOUS
  <2>3. padding # 0 => P[1] = a /\ P[2] = i + left + n /\ P[3] = padding /\ 1 <= padding
    OBVIOUS
  <2> QED
    BY <2>1, <2>2, <2>3, <1>1, <1>3
<1>8. \A r, s \in {t} \cup free : r = s \/ r[2] + r[3] <= s[2] \/ s[2] + s[3] <= r[2]
  BY <1>1, <1>3
<1>9. \A r, s \in free : r[2] + r[3] # s[2]
  BY <1>1, <1>3
<1>10. ASSUME NEW p \in i .. (i + N - 1)
       PROVE  \E r \in {t} \cup free : p \in RunPages(r)
  <2>1. CASE p < i + left
    <3>1. L \in free
      BY <2>1, <1>3
    <3> QED
      BY <2>1, <3>1, <1>3 DEF RunPages
  <2>2. CASE i + left <= p /\ p < i + left + n
    <3>1. p \in RunPages(t)
      BY <2>2, <1>3 DEF RunPages
    <3> QED
      BY <3>1
  <2>3. CASE i + left + n <= p
    <3>1. P \in free
      BY <2>3, <1>1, <1>3
    <3> QED
      BY <2>3, <3>1, <1>1, <1>3 DEF RunPages
  <2> QED
    BY <2>1, <2>2, <2>3, <1>3
<1>11. /\ old = OldRun(c) /\ t = NewRun(c, n, left)
       /\ free = Pieces(c, n, left, padding)
  BY DEF OldRun, NewRun, Pieces
<1> HIDE DEF free, t, old
<1> QED
  BY <1>1, <1>2, <1>3, <1>4, <1>5, <1>6, <1>7, <1>8, <1>9, <1>10, <1>11, Zenon

-----------------------------------------------------------------------------
(* The parts of the invariant after take_pages.                            *)

\* Every other run lies before or behind the run that is cut.
LEMMA TakeOthers ==
    ASSUME TypeOK, Tiled, NEW c \in Class, NEW n \in Int, NEW left \in Nat,
           NEW padding \in Nat, Cut(c, n, left, padding),
           NEW r \in Runs, r # OldRun(c)
    PROVE  LET h == First(c)
           IN  /\ r[1] # h[1] \/ r[2] + r[3] <= h[2] \/ h[2] + n_pages[h] <= r[2]
               /\ r[2] \in Int /\ r[3] \in Int /\ 1 <= r[3]
               /\ r \notin {NewRun(c, n, left)} \cup Pieces(c, n, left, padding)
<1> DEFINE h == First(c)
<1>1. OldRun(c) \in Runs
  BY TakePieces DEF Runs
<1>2. r[1] # h[1] \/ r[2] + r[3] <= h[2] \/ h[2] + n_pages[h] <= r[2]
  BY <1>1, RunsApart DEF OldRun
<1>3. r[2] \in Int /\ r[3] \in Int /\ 1 <= r[3]
  BY RunFacts
<1>4. \A s \in {NewRun(c, n, left)} \cup Pieces(c, n, left, padding) :
         /\ s[1] = h[1] /\ h[2] <= s[2] /\ s[2] + s[3] <= h[2] + n_pages[h]
         /\ h[2] \in Int /\ n_pages[h] \in Int
  BY TakePieces
<1> QED
  BY <1>2, <1>3, <1>4

\* The arenas stay tiled.
LEMMA TakeTiled ==
    ASSUME TypeOK, Tiled, NEW c \in Class, NEW n \in Int, NEW al,
           NEW left \in Nat, NEW padding \in Nat,
           TakeStep(c, n, al, left, padding), arenas' = arenas
    PROVE  Tiled'
<1> DEFINE h == First(c)
           a == h[1]
           i == h[2]
           N == n_pages[h]
           old == OldRun(c)
           new == {NewRun(c, n, left)} \cup Pieces(c, n, left, padding)
<1>1. /\ held' = held \cup {NewRun(c, n, left)}
      /\ FreeRuns' = (FreeRuns \ {OldRun(c)}) \cup Pieces(c, n, left, padding)
  <2>1. RunsTaken(c, n, left, padding)
    BY TakeRuns
  <2> QED
    BY <2>1 DEF RunsTaken
<1>2. Cut(c, n, left, padding)
  BY DEF TakeStep
<1>3. old \in FreeRuns /\ old \in Runs /\ NewRun(c, n, left) \notin Pieces(c, n, left, padding)
  BY <1>2, TakePieces DEF Runs
<1>4. (Runs \ {old}) \cap new = {}
  BY <1>2, TakeOthers
<1>5. Runs' = (Runs \ {old}) \cup new
  <2>1. old \notin held
    BY <1>3 DEF Tiled
  <2> QED
    BY <1>1, <2>1 DEF Runs
<1>6. held' \cap FreeRuns' = {}
  <2>1. held \cap FreeRuns = {} /\ held \subseteq Runs \ {old} /\ FreeRuns \subseteq Runs
    BY <1>3 DEF Tiled, Runs
  <2> QED
    BY <1>1, <1>3, <1>4, <2>1
<1>7. IsTiling((Runs \ {old}) \cup new, arenas)
  <2>1. Runs \in SUBSET Run /\ {old} \in SUBSET Runs /\ new \in SUBSET Run
    BY <1>2, <1>3, TakePieces DEF TypeOK, Runs
  <2>2. /\ i \in Int /\ i + N \in Int /\ 0 <= i /\ i + N <= DataNPages /\ a \in arenas
        /\ N \in Int
    BY <1>2, TakePieces
  <2>3. /\ old[1] = a /\ i <= old[2] /\ old[2] + old[3] <= i + N
        /\ RunPages(old) = i .. (i + N - 1)
    BY <2>2 DEF OldRun, RunPages
  <2>4. \A r \in new : /\ r[1] = a /\ i <= r[2] /\ r[2] + r[3] <= i + N
                       /\ r[2] \in Int /\ r[3] \in Int
    BY <1>2, TakePieces
  <2>5. Covers(new, i, i + N) /\ Apart(new)
    BY <1>2, TakePieces DEF Covers, Apart
  <2>6. Within(new, a, i, i + N)
    BY <2>4 DEF Within
  <2>7. Within({old}, a, i, i + N) /\ Covers({old}, i, i + N)
    <3> HIDE DEF old, h
    <3>1. Within({old}, a, i, i + N)
      BY <2>3 DEF Within
    <3>2. ASSUME NEW p \in i .. ((i + N) - 1)
          PROVE  \E r \in {old} : p \in RunPages(r)
      BY <2>2, <2>3, <3>2
    <3> QED
      BY <3>1, <3>2 DEF Covers
  <2>8. IsTiling(Runs, arenas)
    BY DEF Tiled
  <2> HIDE DEF old, new, h
  <2> QED
    BY <2>1, <2>2, <2>5, <2>6, <2>7, <2>8, Retile
<1> QED
  BY <1>5, <1>6, <1>7 DEF Tiled

\* No two free runs lie side by side: the pieces are apart, and what is beside
\* a piece was beside the run that was cut.
LEMMA TakeCoalesced ==
    ASSUME TypeOK, Tiled, Coalesced, NEW c \in Class, NEW n \in Int, NEW al,
           NEW left \in Nat, NEW padding \in Nat,
           TakeStep(c, n, al, left, padding)
    PROVE  Coalesced'
<1> DEFINE h == First(c)
           a == h[1]
           i == h[2]
           N == n_pages[h]
           old == OldRun(c)
           new == {NewRun(c, n, left)} \cup Pieces(c, n, left, padding)
<1>1. /\ held' = held \cup {NewRun(c, n, left)}
      /\ FreeRuns' = (FreeRuns \ {OldRun(c)}) \cup Pieces(c, n, left, padding)
  <2>1. RunsTaken(c, n, left, padding)
    BY TakeRuns
  <2> QED
    BY <2>1 DEF RunsTaken
<1>2. Cut(c, n, left, padding)
  BY DEF TakeStep
<1>3. /\ old \in FreeRuns /\ old[1] = a /\ old[2] = i /\ old[3] = N
      /\ i \in Int /\ N \in Int /\ FreeRuns \subseteq Runs
  BY <1>2, TakePieces DEF OldRun, Runs
<1>4. SUFFICES ASSUME NEW r \in FreeRuns', NEW s \in FreeRuns', r[1] = s[1]
               PROVE  r[2] + r[3] # s[2]
  BY DEF Coalesced
<1> DEFINE free == Pieces(c, n, left, padding)
<1>5. \A x \in free : /\ x[1] = a /\ x[2] \in Int /\ x[3] \in Int /\ 1 <= x[3]
                      /\ i <= x[2] /\ x[2] + x[3] <= i + N
  BY <1>2, TakePieces
<1>6. \A x \in FreeRuns \ {old} :
         /\ x[1] # a \/ x[2] + x[3] <= i \/ i + N <= x[2]
         /\ x[2] \in Int /\ x[3] \in Int /\ 1 <= x[3]
  BY <1>2, <1>3, TakeOthers
<1> HIDE DEF free, old, h
<1>7. CASE r \in FreeRuns \ {old} /\ s \in FreeRuns \ {old}
  BY <1>4, <1>7 DEF Coalesced
<1>8. CASE r \in free /\ s \in free
  BY <1>2, <1>8, TakePieces DEF free, h
<1>9. CASE r \in FreeRuns \ {old} /\ s \in free
  <2>1. r[1] = a => r[2] + r[3] # i
    BY <1>3, <1>9 DEF Coalesced
  <2> QED
    BY <2>1, <1>3, <1>4, <1>5, <1>6, <1>9
<1>10. CASE r \in free /\ s \in FreeRuns \ {old}
  <2>1. s[1] = a => i + N # s[2]
    BY <1>3, <1>10 DEF Coalesced
  <2> QED
    BY <2>1, <1>3, <1>4, <1>5, <1>6, <1>10
<1> QED
  BY <1>1, <1>7, <1>8, <1>9, <1>10 DEF free, old
\* The boundary tags are true again: those of the pieces are written, those of
\* the other runs are kept.
LEMMA TakeBoundaryTags ==
    ASSUME TypeOK, Tiled, BoundaryTags, NEW c \in Class, NEW n \in Int, NEW al,
           NEW left \in Nat, NEW padding \in Nat,
           TakeStep(c, n, al, left, padding), arenas' = arenas
    PROVE  BoundaryTags'
<1> DEFINE h == First(c)
           a == h[1]
           i == h[2]
           N == n_pages[h]
           free == Pieces(c, n, left, padding)
<1>1. /\ held' = held \cup {NewRun(c, n, left)}
      /\ heads' = (heads \ {h}) \cup FirstPages(free)
  <2>1. RunsTaken(c, n, left, padding)
    BY TakeRuns
  <2> QED
    BY <2>1 DEF RunsTaken
<1>2. Cut(c, n, left, padding)
  BY DEF TakeStep
<1>3. /\ OldRun(c) \in FreeRuns /\ a \in arenas /\ h \in heads /\ h = <<a, i>>
      /\ i \in Int /\ 0 <= i /\ N \in Int /\ i + N <= DataNPages /\ DataNPages \in Int
      /\ n \in Int /\ 1 <= n /\ left + n + padding = N
  BY <1>2, TakePieces
<1>11. UsedTaken(c, n, left, padding) /\ NPagesTaken(c, n, left, padding)
  BY TakeUsed, TakeNPages
<1>4. WritesWithin(a, i, i + N)
  BY <1>11 DEF UsedTaken, NPagesTaken, WritesWithin
<1>5. /\ used'[<<a, i + left>>] = TRUE /\ used'[<<a, i + left + n - 1>>] = TRUE
      /\ left # 0 => /\ used'[h] = (IF left = 1 THEN FALSE ELSE used[h])
                     /\ used'[<<a, i + left - 1>>] = FALSE
      /\ padding # 0 => /\ used'[<<a, i + left + n>>] = FALSE
                        /\ used'[<<a, i + N - 1>>]
                              = (IF padding = 1 THEN FALSE ELSE used[<<a, i + N - 1>>])
  BY <1>11 DEF UsedTaken
<1>6. /\ left # 0 => n_pages'[h] = left /\ n_pages'[<<a, i + left - 1>>] = left
      /\ padding # 0 => /\ n_pages'[<<a, i + left + n>>] = padding
                        /\ n_pages'[<<a, i + N - 1>>] = padding
  BY <1>11 DEF NPagesTaken
<1>7. used[h] = FALSE /\ used[<<a, i + N - 1>>] = FALSE
  BY <1>3 DEF BoundaryTags, TypeOK
<1>8. ASSUME NEW b \in arenas'
      PROVE  used'[<<b, -1>>] /\ used'[<<b, DataNPages>>]
  <2>1. b \in arenas /\ <<b, -1>> \in Entry /\ <<b, DataNPages>> \in Entry
    BY ArenaAssumption DEF TypeOK, Entry, Meta
  <2>2. used[<<b, -1>>] /\ used[<<b, DataNPages>>]
    BY <2>1 DEF BoundaryTags
  <2> QED
    BY <2>1, <2>2, <1>3, <1>4 DEF WritesWithin
<1>9. ASSUME NEW r \in held'
      PROVE  used'[<<r[1], r[2]>>] /\ used'[<<r[1], r[2] + r[3] - 1>>]
  <2>1. CASE r \in held
    <3>1. r # OldRun(c) /\ r \in Runs
      BY <2>1, <1>3 DEF Tiled, Runs
    <3>2. KeepsEdges(r)
      <4>1. r[1] # a \/ r[2] + r[3] <= i \/ i + N <= r[2]
        BY <3>1, <1>2, TakeOthers
      <4>2. i \in Int /\ i + N \in Int
        BY <1>3
      <4> HIDE DEF h
      <4> QED
        BY <3>1, <4>1, <4>2, <1>4, EdgesKept
    <3> QED
      BY <2>1, <3>2 DEF BoundaryTags, KeepsEdges
  <2>2. CASE r = NewRun(c, n, left)
    BY <2>2, <1>5 DEF NewRun
  <2> QED
    BY <2>1, <2>2, <1>1
<1>10. ASSUME NEW g \in heads'
       PROVE  LET tail == <<g[1], g[2] + n_pages'[g] - 1>>
              IN  ~used'[g] /\ ~used'[tail] /\ n_pages'[tail] = n_pages'[g]
  <2>1. CASE g \in heads \ {h}
    <3> DEFINE r == <<g[1], g[2], n_pages[g]>>
    <3>1. r # OldRun(c) /\ r \in Runs /\ g = <<g[1], g[2]>>
      BY <2>1, <1>3, HeadFacts DEF OldRun, Runs
    <3>2. r[1] = g[1] /\ r[2] = g[2] /\ r[3] = n_pages[g]
      OBVIOUS
    <3>3. KeepsEdges(r)
      <4>1. r[1] # a \/ r[2] + r[3] <= i \/ i + N <= r[2]
        BY <3>1, <1>2, TakeOthers
      <4>2. i \in Int /\ i + N \in Int
        BY <1>3
      <4> HIDE DEF h, r
      <4> QED
        BY <3>1, <4>1, <4>2, <1>4, EdgesKept
    <3> QED
      BY <2>1, <3>1, <3>2, <3>3 DEF BoundaryTags, KeepsEdges
  <2>2. CASE left # 0 /\ g = <<a, i>>
    BY <2>2, <1>3, <1>5, <1>6, <1>7
  <2>3. CASE padding # 0 /\ g = <<a, i + left + n>>
    <3>1. i + left + n + padding - 1 = i + N - 1
      BY <1>3
    <3> QED
      BY <2>3, <3>1, <1>5, <1>6, <1>7
  <2>4. g \in FirstPages(free) =>
           (left # 0 /\ g = <<a, i>>) \/ (padding # 0 /\ g = <<a, i + left + n>>)
    BY DEF FirstPages, Pieces
  <2> QED
    BY <2>1, <2>2, <2>3, <2>4, <1>1
<1> QED
  BY <1>8, <1>9, <1>10 DEF BoundaryTags
\* The links that take_pages writes, in the names of TakeStep: the padding is
\* filed, the old run popped, what is left of it filed, the rest forgotten.
LEMMA TakeLinkWrites ==
    ASSUME TypeOK, Tiled, NEW c \in Class, NEW n \in Int, NEW al,
           NEW left \in Nat, NEW padding \in Nat,
           TakeStep(c, n, al, left, padding)
    PROVE  LET h      == First(c)
               padded == IF padding = 0 THEN link
                         ELSE insert_next(link, free_pages(FreeClass[padding]),
                                          <<h[1], h[2] + left + n>>)
               popped == pop_front(padded, free_pages(c), h)
               filed  == IF left = 0 THEN popped
                         ELSE insert_next(popped, free_pages(FreeClass[left]), h)
           IN  link' = ForgetLinks(filed, Entries(h[1], h[2] + left, n))
<1> DEFINE h == First(c)
           idx == AlignedIdx(h, n, al)
           tail == idx + n - 1
<1>1. /\ h[2] \in Int /\ n \in Int /\ left \in Int
      /\ idx = h[2] + left /\ padding = Padding(h, n, al)
  BY TakePieces DEF TakeStep
<1>2. tail + 1 = h[2] + left + n /\ idx - h[2] = left
  BY <1>1
<1>3. link' = ForgetLinks(
          IF idx - h[2] = 0
          THEN pop_front(IF padding = 0 THEN link
                         ELSE insert_next(link, free_pages(FreeClass[padding]),
                                          <<h[1], tail + 1>>), free_pages(c), h)
          ELSE insert_next(pop_front(IF padding = 0 THEN link
                         ELSE insert_next(link, free_pages(FreeClass[padding]),
                                          <<h[1], tail + 1>>), free_pages(c), h),
                           free_pages(FreeClass[idx - h[2]]), h),
          Entries(h[1], idx, n))
  BY DEF TakeStep, take_pages
<1> HIDE DEF h, idx, tail
<1>4. <<h[1], tail + 1>> = <<h[1], h[2] + left + n>>
  BY <1>2
<1>5. idx = h[2] + left
  BY <1>1
<1> QED
  BY <1>2, <1>3, <1>4, <1>5, Zenon DEF h

\* The lists stay filed by class.
LEMMA TakeFiled ==
    ASSUME TypeOK, Tiled, ListsSound, NEW c \in Class, NEW n \in Int, NEW al,
           NEW left \in Nat, NEW padding \in Nat,
           TakeStep(c, n, al, left, padding)
    PROVE  Filed(link', Node, Target, List, List \cup heads', NextClassOfNode)
<1> DEFINE h == First(c)
           a == h[1]
           i == h[2]
           N == n_pages[h]
           pad == <<a, i + left + n>>
           If(S, k) == IF k = 0 THEN {} ELSE S
           H1 == heads \cup If({pad}, padding)
           H2 == H1 \ {h}
           H3 == H2 \cup If({h}, left)
           C1 == [x \in Node |-> IF padding # 0 /\ x = pad THEN FreeClass[padding]
                                 ELSE ClassOf(x)]
           C2 == [x \in Node |-> IF left # 0 /\ x = h THEN FreeClass[left] ELSE C1[x]]
           C3 == [x \in Node |-> IF x \in List THEN x[2] ELSE FreeClass[n_pages'[x]]]
           padded == IF padding = 0 THEN link
                     ELSE insert_next(link, free_pages(FreeClass[padding]), pad)
           popped == pop_front(padded, free_pages(c), h)
           filed == IF left = 0 THEN popped
                    ELSE insert_next(popped, free_pages(FreeClass[left]), h)
<1>1. Cut(c, n, left, padding)
  BY DEF TakeStep
<1>2. /\ a \in Arena /\ h \in heads /\ h \in Page /\ h = <<a, i>> /\ heads \subseteq Page
      /\ i \in Int /\ 0 <= i /\ N \in Int /\ i + N <= DataNPages /\ DataNPages \in Int
      /\ n \in Int /\ 1 <= n /\ left + n + padding = N
  BY <1>1, TakePieces DEF TypeOK, Page
<1>3. ASSUME NEW g \in heads \ {h}
      PROVE  /\ g \in Entry /\ g[2] \in Int
             /\ g[1] # a \/ g[2] < i \/ i + N <= g[2]
  <2>1. g[2] \in Int /\ n_pages[g] \in Int /\ 1 <= n_pages[g] /\ g \in Entry
    <3>1. g \in heads
      OBVIOUS
    <3>2. g \in Page /\ g[2] \in Data /\ n_pages[g] \in 1 .. DataNPages
      BY <3>1, HeadFacts
    <3> QED
      BY <3>2, NodeFacts, ClassFacts DEF Data
  <2> QED
    BY <2>1, <1>2, HeadsApart
<1>4. ASSUME padding # 0
      PROVE  /\ pad \in Page /\ pad \notin heads /\ pad # h
             /\ padding \in 1 .. DataNPages /\ FreeClass[padding] \in Class
             /\ FreeClass[padding] # c
  <2>1. padding \in 1 .. DataNPages /\ FreeClass[padding] < c
    BY <1>1, <1>4 DEF Cut
  <2>2. i + left + n \in Data
    BY <1>2, <2>1 DEF Data
  <2>3. pad # h /\ i <= i + left + n /\ i + left + n < i + N
    BY <1>2, <1>4
  <2> HIDE DEF h
  <2> QED
    BY <2>1, <2>2, <2>3, <1>2, <1>3, ClassFacts DEF Page
<1>5. \A d \in Class : free_pages(d) \in List /\ ClassOf(free_pages(d)) = d
  BY DEF List, free_pages, ClassOf
<1>6. \A x \in Page : x \in Node /\ x \notin List
  BY NodeFacts
<1>7. /\ \A x \in List \cup H1 : x \in Node /\ (x \in heads => x # pad \/ padding = 0)
      /\ List \subseteq Node /\ H1 \subseteq Page /\ H2 \subseteq Page
      /\ h \in H1 /\ h \notin H2
  BY <1>2, <1>4, <1>6, NodeFacts
<1>8. Filed(padded, Node, Target, List, List \cup H1, C1)
  <2>1. Filed(link, Node, Target, List, List \cup heads, ClassOfNode)
    BY ListsAreFiled
  <2>2. \A y \in List \cup heads : C1[y] = ClassOfNode[y]
    BY <1>2, <1>4, <1>6, NodeFacts DEF ClassOfNode
  <2>3. CASE padding = 0
    <3>1. padded = link /\ H1 = heads
      BY <2>3
    <3> HIDE DEF padded, H1, C1
    <3> QED
      BY <2>1, <2>2, <3>1, RelabelFiled
  <2>4. CASE padding # 0
    <3>1. C1[free_pages(FreeClass[padding])] = FreeClass[padding] /\ C1[pad] = FreeClass[padding]
      BY <2>4, <1>4, <1>5, <1>6, NodeFacts
    <3>2. /\ padded = insert_next(link, free_pages(FreeClass[padding]), pad)
          /\ H1 = heads \cup {pad} /\ pad \in Page \ heads /\ heads \in SUBSET Page
          /\ FreeClass[padding] \in Class
      BY <2>4, <1>2, <1>4
    <3> HIDE DEF padded, H1, C1, pad, h
    <3> QED
      BY <2>1, <2>2, <3>1, <3>2, FileHead
  <2> QED
    BY <2>3, <2>4
<1>9. padded.next[free_pages(c)] = h
  <2>1. CASE padding = 0
    BY <2>1 DEF First
  <2>2. CASE padding # 0
    <3>1. link.next \in [Node -> Target]
      BY DEF TypeOK, Target
    <3>2. /\ free_pages(c) # free_pages(FreeClass[padding]) /\ free_pages(c) # pad
          /\ free_pages(c) \in Node
      BY <2>2, <1>4, <1>5, <1>6, NodeFacts DEF free_pages
    <3>3. padded.next = [link.next EXCEPT ![pad] = link.next[free_pages(FreeClass[padding])],
                                          ![free_pages(FreeClass[padding])] = pad]
      BY <2>2 DEF insert_next
    <3>4. link.next[free_pages(c)] = h
      BY DEF First
    <3> HIDE DEF padded, pad, h
    <3> QED
      BY <3>1, <3>2, <3>3, <3>4
  <2> QED
    BY <2>1, <2>2
<1>10. Filed(popped, Node, Target, List, List \cup H2, C1)
  <2>1. (List \cup H1) \ {h} = List \cup H2
    BY <1>2, <1>6
  <2>2. /\ free_pages(c) \in List \cup H1 /\ (List \cup H1) \in SUBSET Node
        /\ Node \subseteq Target /\ h \notin List
    BY <1>2, <1>5, <1>6, <1>7 DEF Target
  <2> HIDE DEF padded, H1, H2, C1, h
  <2> QED
    BY <1>8, <1>9, <2>1, <2>2, PopFrontFiled
<1>11. Filed(filed, Node, Target, List, List \cup H3, C2)
  <2>1. \A y \in List \cup H2 : C2[y] = C1[y]
    BY <1>2, <1>6, <1>7, NodeFacts
  <2>2. CASE left = 0
    <3>1. filed = popped /\ H3 = H2
      BY <2>2
    <3> HIDE DEF filed, popped, H2, H3, C1, C2
    <3> QED
      BY <1>10, <2>1, <3>1, RelabelFiled
  <2>3. CASE left # 0
    <3>1. left \in 1 .. DataNPages
      BY <2>3, <1>2
    <3>2. FreeClass[left] \in Class /\ h \in Page \ H2 /\ H2 \in SUBSET Page
      BY <3>1, <1>2, <1>7, ClassFacts
    <3>3. C2[free_pages(FreeClass[left])] = FreeClass[left] /\ C2[h] = FreeClass[left]
      <4>1. free_pages(FreeClass[left]) # h /\ (padding # 0 => free_pages(FreeClass[left]) # pad)
        BY <3>2, <1>2, <1>4, <1>5, <1>6
      <4>2. free_pages(FreeClass[left]) \in Node /\ h \in Node
        BY <3>2, <1>2, <1>5, <1>6, NodeFacts
      <4> HIDE DEF pad, h
      <4> QED
        BY <2>3, <3>2, <4>1, <4>2, <1>5
    <3>4. /\ filed = insert_next(popped, free_pages(FreeClass[left]), h)
          /\ H3 = H2 \cup {h}
      BY <2>3
    <3> HIDE DEF filed, popped, H2, H3, C1, C2, h
    <3> QED
      BY <1>10, <2>1, <3>2, <3>3, <3>4, FileHead
  <2> QED
    BY <2>2, <2>3
<1>12. heads' = H3
  <2>1. heads' = (heads \ {h}) \cup FirstPages(Pieces(c, n, left, padding))
    <3>1. RunsTaken(c, n, left, padding)
      BY TakeRuns
    <3> QED
      BY <3>1 DEF RunsTaken
  <2>2. FirstPages(Pieces(c, n, left, padding)) = If({h}, left) \cup If({pad}, padding)
    <3>1. CASE left = 0 /\ padding = 0
      BY <3>1, <1>2 DEF FirstPages, Pieces
    <3>2. CASE left # 0 /\ padding = 0
      BY <3>2, <1>2 DEF FirstPages, Pieces
    <3>3. CASE left = 0 /\ padding # 0
      BY <3>3, <1>2 DEF FirstPages, Pieces
    <3>4. CASE left # 0 /\ padding # 0
      BY <3>4, <1>2 DEF FirstPages, Pieces
    <3> QED
      BY <3>1, <3>2, <3>3, <3>4
  <2>3. padding # 0 => pad # h
    BY <1>4
  <2> HIDE DEF h, pad
  <2> QED
    BY <2>1, <2>2, <2>3
<1>13. \A x \in List \cup H3 : C3[x] = C2[x]
  <2>1. NPagesTaken(c, n, left, padding)
    BY TakeNPages
  <2>2. \A g \in heads \ {h} : n_pages'[g] = n_pages[g]
    BY <2>1, <1>3 DEF NPagesTaken
  <2>3. /\ left # 0 => n_pages'[h] = left
        /\ padding # 0 => n_pages'[pad] = padding
    BY <2>1 DEF NPagesTaken
  <2>4. \A x \in List \cup H3 : x \in Node
    BY <1>2, <1>4, <1>6, <1>7
  <2> SUFFICES ASSUME NEW x \in List \cup H3
               PROVE  C3[x] = C2[x]
    OBVIOUS
  <2>5. CASE x \in List
    <3>1. x # h /\ (padding # 0 => x # pad)
      BY <2>5, <1>2, <1>4, <1>6
    <3> HIDE DEF h, pad
    <3> QED
      BY <2>4, <2>5, <3>1 DEF ClassOf
  <2>6. CASE left # 0 /\ x = h
    <3>1. x \notin List /\ x \in Node
      BY <2>6, <1>2, <1>6
    <3> HIDE DEF h, pad
    <3> QED
      BY <2>3, <2>6, <3>1
  <2>7. CASE padding # 0 /\ x = pad
    <3>1. x \notin List /\ x # h /\ x \in Node
      BY <2>7, <1>4, <1>6
    <3> HIDE DEF h, pad
    <3> QED
      BY <2>3, <2>7, <3>1
  <2>8. CASE x \in heads \ {h}
    <3>1. x \notin List /\ (padding # 0 => x # pad) /\ x \in Node
      BY <2>8, <1>2, <1>4, <1>6
    <3> HIDE DEF h, pad
    <3> QED
      BY <2>2, <2>8, <3>1 DEF ClassOf
  <2> QED
    BY <2>5, <2>6, <2>7, <2>8
<1>14. Filed(ForgetLinks(filed, Entries(a, i + left, n)), Node, Target, List, List \cup H3, C2)
  <2>1. \A x \in List \cup H3 : x \notin Entries(a, i + left, n)
    <3>1. ASSUME NEW k \in (i + left) .. (i + left + n - 1)
          PROVE  /\ <<a, k>> \notin heads \ {h} /\ (padding # 0 => <<a, k>> # pad)
                 /\ (left # 0 => <<a, k>> # h) /\ <<a, k>> \notin List
      <4>1. k \in Int /\ i <= k /\ k < i + N
        BY <1>2
      <4>2. <<a, k>> \notin heads \ {h}
        BY <1>2, <1>3, <4>1
      <4>3. k # i + left + n /\ (left # 0 => k # i)
        BY <1>2
      <4>4. <<a, k>> \in Page
        BY <1>2, <4>1 DEF Page, Data
      <4> HIDE DEF a, i
      <4> QED
        BY <4>2, <4>3, <4>4, <1>2, <1>6
    <3>2. Entries(a, i + left, n) = {<<a, k>> : k \in (i + left) .. (i + left + n - 1)}
      BY DEF Entries
    <3> HIDE DEF h, pad, a, i
    <3> QED
      BY <3>1, <3>2
  <2>2. List \cup H3 \subseteq Node
    BY <1>2, <1>4, <1>6, <1>7
  <2> HIDE DEF filed, H3, C2, a, i
  <2> QED
    BY <1>11, <2>1, <2>2, ForgetFiled
<1>15. link' = ForgetLinks(filed, Entries(a, i + left, n))
  BY TakeLinkWrites
<1> HIDE DEF filed, H3, C2, C3, h, a, i
<1>16. Filed(link', Node, Target, List, List \cup heads', C3)
  BY <1>12, <1>13, <1>14, <1>15, RelabelFiled
<1> QED
  BY <1>16 DEF C3, NextClassOfNode
\* The state stays well typed.
LEMMA TakeTypeOK ==
    ASSUME TypeOK, Tiled, ListsSound, NEW c \in Class, NEW n \in Int, NEW al,
           NEW left \in Nat, NEW padding \in Nat,
           TakeStep(c, n, al, left, padding),
           arenas' = arenas, request' = NoRequest
    PROVE  TypeOK'
<1>1. Cut(c, n, left, padding)
  BY DEF TakeStep
<1>2. RunsTaken(c, n, left, padding)
  BY TakeRuns
<1>3. /\ NewRun(c, n, left) \in Run /\ Pieces(c, n, left, padding) \subseteq Run
  BY <1>1, TakePieces
<1>4. held' \subseteq Run /\ FreeRuns' \subseteq Run
  BY <1>2, <1>3 DEF RunsTaken, TypeOK
<1>5. heads' \subseteq Page
  <2>1. FirstPages(Pieces(c, n, left, padding)) \subseteq Page
    BY <1>3 DEF FirstPages, Run, Page
  <2> QED
    BY <2>1, <1>2 DEF RunsTaken, TypeOK
<1>6. used' \in [Entry -> BOOLEAN]
  <2>1. UsedTaken(c, n, left, padding)
    BY TakeUsed
  <2> QED
    BY <2>1 DEF UsedTaken
<1>7. n_pages' \in [Entry -> 0 .. DataNPages]
  <2>1. NPagesTaken(c, n, left, padding)
    BY TakeNPages
  <2> QED
    BY <2>1 DEF NPagesTaken
<1>8. link' \in [next : [Node -> Target], prev : [Node -> Target]]
  BY TakeFiled DEF Filed, Links
<1>9. capacity' \in Int
  BY DEF TakeStep, take_pages, TypeOK
<1>10. request' \in Request
  BY RequestAssumption DEF NoRequest, Request
<1> QED
  BY <1>4, <1>5, <1>6, <1>7, <1>8, <1>9, <1>10 DEF TypeOK, Target

\* What allocate_page does with the run that it has chosen is such a step.
LEMMA ChosenIsTaken ==
    ASSUME IndInv, request # NoRequest, NEW c \in Class, Chosen(c),
           take_pages(c, request.n, request.align)
    PROVE  /\ request.n \in 1 .. DataNPages
           /\ \E left \in Nat, padding \in Nat :
                 TakeStep(c, request.n, request.align, left, padding)
<1> DEFINE n == request.n
           al == request.align
           h == First(c)
           left == AlignedIdx(h, n, al) - h[2]
           padding == Padding(h, n, al)
<1>1. TypeOK /\ Tiled /\ ListsSound /\ RequestOK
  BY DEF IndInv
<1>2. /\ h \in heads
      /\ FreeClass[n_pages[h]] = c
      /\ n \in 1 .. DataNPages
      /\ padding \in Nat /\ left \in Nat
      /\ left + n + padding = n_pages[h]
      /\ padding # 0 => padding \in 1 .. DataNPages /\ FreeClass[padding] < c
  BY <1>1, CutGeometry
<1>3. n \in Int /\ h[2] \in Int /\ n_pages[h] \in Int
  <2>1. h[2] \in Data /\ n_pages[h] \in 1 .. DataNPages
    BY <1>1, <1>2, HeadFacts
  <2> QED
    BY <2>1, <1>2, ClassFacts DEF Data
<1>4. h[2] + left = AlignedIdx(h, n, al)
  <2>1. AlignedIdx(h, n, al) \in Int
    BY <1>2, <1>3, ArenaAssumption DEF AlignedIdx
  <2> QED
    BY <2>1, <1>3
<1>5. TakeStep(c, n, al, left, padding)
  BY <1>2, <1>4 DEF TakeStep, Cut
<1> QED
  BY <1>2, <1>5

\* take_pages preserves the inductive invariant when it is called as
\* allocate_page calls it.
LEMMA TakePreserves ==
    ASSUME IndInv, request # NoRequest, NEW c \in Class, Chosen(c),
           take_pages(c, request.n, request.align),
           request' = NoRequest, arenas' = arenas
    PROVE  IndInv'
<1> DEFINE n == request.n
           al == request.align
<1>1. TypeOK /\ Tiled /\ BoundaryTags /\ Coalesced /\ ListsSound /\ RequestOK
  BY DEF IndInv
<1>2. PICK left \in Nat, padding \in Nat : TakeStep(c, n, al, left, padding)
  BY ChosenIsTaken
<1>3. n \in Int
  BY ChosenIsTaken, ClassFacts
<1> HIDE DEF n, al
<1>4. TypeOK' /\ Tiled' /\ BoundaryTags' /\ Coalesced'
  BY <1>1, <1>2, <1>3, TakeTypeOK, TakeTiled, TakeBoundaryTags, TakeCoalesced
<1>5. ListsSound'
  <2>1. Filed(link', Node, Target, List, List \cup heads', NextClassOfNode)
    BY <1>1, <1>2, <1>3, TakeFiled
  <2>2. heads' \subseteq Page
    BY <1>4 DEF TypeOK
  <2> QED
    BY <2>1, <2>2, FiledIsLinked
<1>6. RequestOK'
  BY DEF RequestOK
<1> QED
  BY <1>4, <1>5, <1>6 DEF IndInv

-----------------------------------------------------------------------------
(* Mapping an arena.                                                       *)

\* Nothing is known of the arena before; its one free run is tagged and first
\* in the last list afterwards, and all other entries are kept.
Mapped(a) ==
    /\ a \in Arena /\ \A s \in Runs : s[1] # a
    /\ held' = held /\ heads' = heads \cup {<<a, 0>>} /\ <<a, 0>> \in Page \ heads
    /\ <<a, 0, DataNPages>> \in Run
    /\ FreeRuns' = FreeRuns \cup {<<a, 0, DataNPages>>}
    /\ used' \in [Entry -> BOOLEAN] /\ n_pages' \in [Entry -> 0 .. DataNPages]
    /\ \A e \in Entry : e[1] # a => used'[e] = used[e] /\ n_pages'[e] = n_pages[e]
    /\ used'[<<a, -1>>] = TRUE /\ used'[<<a, DataNPages>>] = TRUE
    /\ used'[<<a, 0>>] = FALSE /\ used'[<<a, DataNPages - 1>>] = FALSE
    /\ n_pages'[<<a, 0>>] = DataNPages /\ n_pages'[<<a, DataNPages - 1>>] = DataNPages

\* The constructor of an arena writes entries of that arena only.
LEMMA CreateWrites ==
    ASSUME TypeOK, Tiled, NEW a \in Arena, construct_arena(a)
    PROVE  Mapped(a)
<1> DEFINE h == <<a, 0>>
           tail == <<a, DataNPages - 1>>
           u == Assign(used, {h, tail}, FALSE)
<1>1. DataNPages \in Int /\ 1 <= DataNPages
  BY ClassFacts
<1>2. a \notin arenas /\ \A s \in Runs : s[1] # a
  BY DEF construct_arena, Tiled, IsTiling
<1>3. /\ used' = Assign(u, {<<a, -1>>, <<a, DataNPages>>}, TRUE)
      /\ n_pages' = Assign(n_pages, {h, tail}, DataNPages)
      /\ heads' = heads \cup {h} /\ held' = held
  BY DEF construct_arena
<1>4. used \in [Entry -> BOOLEAN] /\ n_pages \in [Entry -> 0 .. DataNPages]
  BY DEF TypeOK
<1>5. u \in [Entry -> BOOLEAN]
  BY <1>4 DEF Assign
<1>6. ASSUME NEW e \in Entry
      PROVE  /\ used'[e] = IF e \in {<<a, -1>>, <<a, DataNPages>>} THEN TRUE
                           ELSE IF e \in {h, tail} THEN FALSE ELSE used[e]
             /\ n_pages'[e] = IF e \in {h, tail} THEN DataNPages ELSE n_pages[e]
  <2>1. u[e] = IF e \in {h, tail} THEN FALSE ELSE used[e]
    BY <1>4 DEF Assign
  <2> HIDE DEF u, h, tail
  <2> QED
    BY <2>1, <1>3, <1>4, <1>5 DEF Assign
<1>7. /\ <<a, -1>> \in Entry /\ <<a, DataNPages>> \in Entry
      /\ h \in Entry /\ tail \in Entry /\ h \in Page
  BY <1>1 DEF Entry, Meta, Page, Data
<1>8. used' \in [Entry -> BOOLEAN]
  <2> HIDE DEF u
  <2> QED
    BY <1>3, <1>5 DEF Assign
<1>9. n_pages' \in [Entry -> 0 .. DataNPages]
  <2>1. DataNPages \in 0 .. DataNPages
    BY <1>1
  <2> HIDE DEF h, tail
  <2> QED
    BY <2>1, <1>3, <1>4 DEF Assign
<1>10. ASSUME NEW e \in Entry, e[1] # a
       PROVE  used'[e] = used[e] /\ n_pages'[e] = n_pages[e]
  <2>1. e \notin {h, tail} /\ e \notin {<<a, -1>>, <<a, DataNPages>>}
    BY <1>10
  <2> HIDE DEF h, tail
  <2> QED
    BY <2>1, <1>6
<1>11. /\ used'[<<a, -1>>] = TRUE /\ used'[<<a, DataNPages>>] = TRUE
       /\ used'[h] = FALSE /\ used'[tail] = FALSE
       /\ n_pages'[h] = DataNPages /\ n_pages'[tail] = DataNPages
  <2>1. /\ h # <<a, -1>> /\ h # <<a, DataNPages>>
        /\ tail # <<a, -1>> /\ tail # <<a, DataNPages>>
    BY <1>1
  <2> HIDE DEF h, tail
  <2> QED
    BY <2>1, <1>6, <1>7
<1>12. \A g \in heads : g \in Entry /\ g[1] # a /\ n_pages'[g] = n_pages[g]
  <2> SUFFICES ASSUME NEW g \in heads
               PROVE  g \in Entry /\ g[1] # a /\ n_pages'[g] = n_pages[g]
    OBVIOUS
  <2>1. g \in Entry /\ g[1] \in arenas
    BY HeadFacts, NodeFacts
  <2> QED
    BY <2>1, <1>2, <1>10
<1>13. h \notin heads
  BY <1>12
<1>14. <<a, 0, DataNPages>> \in Run
  BY <1>1 DEF Run, Data
<1>15. FreeRuns' = FreeRuns \cup {<<a, 0, DataNPages>>}
  <2>1. FreeRuns' = {<<g[1], g[2], n_pages'[g]>> : g \in heads \cup {h}}
    BY <1>3 DEF FreeRuns
  <2>2. \A g \in heads : <<g[1], g[2], n_pages'[g]>> = <<g[1], g[2], n_pages[g]>>
    BY <1>12
  <2>3. <<h[1], h[2], n_pages'[h]>> = <<a, 0, DataNPages>>
    BY <1>11
  <2> HIDE DEF h
  <2> QED
    BY <2>1, <2>2, <2>3 DEF FreeRuns
<1> QED
  BY <1>2, <1>3, <1>7, <1>8, <1>9, <1>10, <1>11, <1>13, <1>14, <1>15 DEF Mapped

\* Constructing an arena preserves the inductive invariant, whether the request
\* goes on, and then finds the new run first in the last list, or ends there
\* because the rest of the constructor throws.
LEMMA ConstructPreserves ==
    ASSUME IndInv, NEW a \in Arena, construct_arena(a),
           \/ request' = [request EXCEPT !.fresh = TRUE]
           \/ request' = NoRequest
    PROVE  IndInv'
<1> DEFINE h == <<a, 0>>
           last == NPageClasses - 1
           m == <<a, 0, DataNPages>>
<1>1. TypeOK /\ Tiled /\ BoundaryTags /\ Coalesced /\ ListsSound /\ RequestOK
  BY DEF IndInv
<1>2. Mapped(a) /\ arenas' = arenas \cup {a} /\ DataNPages \in Int /\ 1 <= DataNPages
  <2>1. Mapped(a)
    BY <1>1, CreateWrites
  <2>2. DataNPages \in Int /\ 1 <= DataNPages
    BY ClassFacts
  <2> QED
    BY <2>1, <2>2 DEF construct_arena
<1>3. Runs' = Runs \cup {m}
  BY <1>2 DEF Mapped, Runs
<1>4. Tiled'
  <2>1. m[1] = a /\ m[2] = 0 /\ m[3] = DataNPages /\ \A p \in Data : p \in RunPages(m)
    BY <1>2 DEF RunPages, Data
  <2> HIDE DEF m
  <2>2. \A s \in Runs' : s[1] \in arenas' /\ s[2] + s[3] <= DataNPages
    BY <2>1, <1>1, <1>2, <1>3 DEF Tiled, IsTiling
  <2>3. \A x, y \in Runs' : \A p \in Data :
           x[1] = y[1] /\ p \in RunPages(x) /\ p \in RunPages(y) => x = y
    BY <2>1, <1>1, <1>2, <1>3 DEF Mapped, Tiled, IsTiling
  <2>4. \A b \in arenas', p \in Data : \E s \in Runs' : s[1] = b /\ p \in RunPages(s)
    BY <2>1, <1>1, <1>2, <1>3 DEF Tiled, IsTiling
  <2>5. held' \cap FreeRuns' = {}
    <3>1. m \notin held
      BY <2>1, <1>2 DEF Mapped, Runs
    <3> QED
      BY <3>1, <1>1, <1>2 DEF Mapped, Tiled, m
  <2> QED
    BY <2>2, <2>3, <2>4, <2>5 DEF Tiled, IsTiling
<1>5. \A s \in Runs : KeepsEdges(s)
  <2> SUFFICES ASSUME NEW s \in Runs
               PROVE  KeepsEdges(s)
    OBVIOUS
  <2>1. /\ s[1] \in Arena /\ s[2] \in Int /\ s[3] \in Int /\ 0 <= s[2] /\ 1 <= s[3]
        /\ s[2] + s[3] <= DataNPages
    BY <1>1, RunFacts DEF Run
  <2>2. <<s[1], s[2]>> \in Entry /\ <<s[1], s[2] + s[3] - 1>> \in Entry /\ s[1] # a
    BY <2>1, <1>2 DEF Entry, Meta, Mapped
  <2> QED
    BY <2>2, <1>2 DEF KeepsEdges, Mapped
<1>6. BoundaryTags'
  <2>1. ASSUME NEW b \in arenas'
        PROVE  used'[<<b, -1>>] /\ used'[<<b, DataNPages>>]
    <3>1. CASE b = a
      BY <3>1, <1>2 DEF Mapped
    <3>2. CASE b # a
      <4>1. b \in arenas /\ <<b, -1>> \in Entry /\ <<b, DataNPages>> \in Entry
        BY <3>2, <1>1, <1>2 DEF TypeOK, Entry, Meta
      <4> QED
        BY <3>2, <4>1, <1>1, <1>2 DEF Mapped, BoundaryTags
    <3> QED
      BY <3>1, <3>2
  <2>2. ASSUME NEW s \in held'
        PROVE  used'[<<s[1], s[2]>>] /\ used'[<<s[1], s[2] + s[3] - 1>>]
    BY <1>1, <1>2, <1>5 DEF Mapped, Runs, KeepsEdges, BoundaryTags
  <2>3. ASSUME NEW g \in heads'
        PROVE  LET tail == <<g[1], g[2] + n_pages'[g] - 1>>
               IN  ~used'[g] /\ ~used'[tail] /\ n_pages'[tail] = n_pages'[g]
    <3>1. CASE g \in heads
      <4> DEFINE s == <<g[1], g[2], n_pages[g]>>
      <4>1. g = <<g[1], g[2]>> /\ s \in Runs
        BY <1>1, <3>1, HeadFacts DEF Runs
      <4>2. KeepsEdges(s)
        BY <4>1, <1>5
      <4>3. s[1] = g[1] /\ s[2] = g[2] /\ s[3] = n_pages[g]
        OBVIOUS
      <4> HIDE DEF s
      <4> QED
        BY <3>1, <4>1, <4>2, <4>3, <1>1 DEF KeepsEdges, BoundaryTags
    <3>2. CASE g = h
      <4>1. 0 + DataNPages - 1 = DataNPages - 1
        BY <1>2
      <4> QED
        BY <3>2, <4>1, <1>2 DEF Mapped
    <3> QED
      BY <3>1, <3>2, <1>2 DEF Mapped
  <2> QED
    BY <2>1, <2>2, <2>3 DEF BoundaryTags
<1>7. Coalesced'
  <2>1. \A s \in FreeRuns : s[1] # a
    BY <1>2 DEF Mapped, Runs
  <2>2. m[1] = a /\ m[2] + m[3] # m[2]
    BY <1>2
  <2>3. FreeRuns' = FreeRuns \cup {m}
    BY <1>2 DEF Mapped
  <2> HIDE DEF m
  <2> QED
    BY <2>1, <2>2, <2>3, <1>1 DEF Coalesced
<1>8. link' = insert_next(link, free_pages(last), h)
  BY DEF construct_arena
<1>9. last \in Class /\ FreeClass[DataNPages] = last
  BY ClassFacts, LastClass
<1>10. h \in Page \ heads /\ heads \in SUBSET Page /\ h \in Node /\ h \notin List
  BY <1>1, <1>2, NodeFacts DEF Mapped, TypeOK
<1>11. Filed(link', Node, Target, List, List \cup heads', NextClassOfNode)
  <2>1. Filed(link, Node, Target, List, List \cup heads, ClassOfNode)
    BY <1>1, ListsAreFiled
  <2>2. \A y \in List \cup heads : NextClassOfNode[y] = ClassOfNode[y]
    <3>1. \A g \in heads : g \in Entry /\ g[1] # a
      <4> SUFFICES ASSUME NEW g \in heads
                   PROVE  g \in Entry /\ g[1] # a
        OBVIOUS
      <4>1. g \in Page /\ <<g[1], g[2], n_pages[g]>> \in FreeRuns
        BY <1>1, HeadFacts
      <4> QED
        BY <4>1, <1>2, NodeFacts DEF Mapped, Runs
    <3>2. \A y \in List \cup heads : y \in Node
      BY <1>10, NodeFacts
    <3> QED
      BY <3>1, <3>2, <1>2 DEF Mapped, NextClassOfNode, ClassOfNode, ClassOf
  <2>3. NextClassOfNode[free_pages(last)] = last /\ NextClassOfNode[h] = last
    <3>1. /\ free_pages(last) \in Node /\ free_pages(last) \in List
          /\ free_pages(last)[2] = last
      BY <1>9, NodeFacts DEF free_pages
    <3>2. n_pages'[h] = DataNPages
      BY <1>2 DEF Mapped
    <3> HIDE DEF h, last
    <3> QED
      BY <3>1, <3>2, <1>9, <1>10 DEF NextClassOfNode
  <2>4. heads' = heads \cup {h}
    BY <1>2 DEF Mapped
  <2> HIDE DEF h, last
  <2> QED
    BY <2>1, <2>2, <2>3, <2>4, <1>8, <1>9, <1>10, FileHead
<1>12. TypeOK'
  <2>1. link' \in [next : [Node -> Target], prev : [Node -> Target]]
    BY <1>11 DEF Filed, Links
  <2>2. request' \in Request
    <3>1. CASE request' = [request EXCEPT !.fresh = TRUE]
      BY <3>1, <1>1 DEF TypeOK, Request
    <3>2. CASE request' = NoRequest
      BY <3>2, RequestAssumption DEF NoRequest, Request
    <3> QED
      BY <3>1, <3>2
  <2> QED
    BY <2>1, <2>2, <1>1, <1>2 DEF construct_arena, Mapped, TypeOK, Target
<1>13. ListsSound'
  BY <1>11, <1>12, FiledIsLinked DEF TypeOK
<1>14. RequestOK'
  <2>1. link'.next[free_pages(last)] = h
    <3>1. link.next \in [Node -> Target] /\ free_pages(last) \in Node
      BY <1>1, <1>9, NodeFacts DEF TypeOK, Target
    <3>2. link'.next = [link.next EXCEPT ![h] = link.next[free_pages(last)],
                                         ![free_pages(last)] = h]
      BY <1>8 DEF insert_next
    <3> HIDE DEF h
    <3> QED
      BY <3>1, <3>2
  <2>2. h # free_pages(last)
    BY <1>9, <1>10, NodeFacts
  <2>3. FreshFits'
    BY <2>1, <2>2 DEF FreshFits, IsEmpty, First
  <2>4. CASE request' = [request EXCEPT !.fresh = TRUE]
    <3>1. request # NoRequest
      BY DEF construct_arena, NoRunServes
    <3>2. request'.n = request.n /\ request'.align = request.align
      BY <2>4, <1>1 DEF TypeOK, Request
    <3> QED
      BY <2>3, <3>1, <3>2, <1>1 DEF RequestOK
  <2>5. CASE request' = NoRequest
    BY <2>5 DEF RequestOK
  <2> QED
    BY <2>4, <2>5
<1> QED
  BY <1>4, <1>6, <1>7, <1>12, <1>13, <1>14 DEF IndInv

-----------------------------------------------------------------------------
(***************************************************************************)
(* deallocate_page.                                                        *)
(***************************************************************************)
-----------------------------------------------------------------------------
(* The runs that the freed run is coalesced with.                          *)

\* The free run that begins at an entry.
FreeRun(h) == <<h[1], h[2], n_pages[h]>>

\* A page just behind or just before a run belongs to another run.
LEMMA BesideRun ==
    ASSUME TypeOK, Tiled, NEW r \in Runs, NEW k \in Data, k < r[2] \/ r[2] + r[3] <= k
    PROVE  \E s \in Runs : s # r /\ s[1] = r[1] /\ k \in s[2] .. (s[2] + s[3] - 1)
<1>1. PICK s \in Runs : s[1] = r[1] /\ k \in RunPages(s)
  BY RunFacts DEF Tiled, IsTiling
<1>2. k \notin RunPages(r)
  BY RunFacts, ClassFacts DEF RunPages, Data
<1> QED
  BY <1>1, <1>2 DEF RunPages

\* A free run is one of the form FreeRun(h).
LEMMA FreeRunHead ==
    ASSUME TypeOK, Tiled, NEW s \in FreeRuns
    PROVE  <<s[1], s[2]>> \in heads /\ s = FreeRun(<<s[1], s[2]>>)
<1>1. PICK h \in heads : s = <<h[1], h[2], n_pages[h]>>
  BY DEF FreeRuns
<1>2. h = <<h[1], h[2]>>
  BY HeadFacts
<1> QED
  BY <1>1, <1>2 DEF FreeRun

\* The flag behind a held run tells the truth: if it says free, a free run
\* begins there.
LEMMA NextIsHead ==
    ASSUME TypeOK, Tiled, BoundaryTags, NEW r \in held, NextFree(r)
    PROVE  NextHead(r) \in heads
<1> DEFINE k == r[2] + r[3]
<1>1. r \in Runs /\ r[1] \in arenas /\ r[2] \in Int /\ r[3] \in Int
      /\ 0 <= r[2] /\ 1 <= r[3] /\ k <= DataNPages /\ DataNPages \in Int
  BY RunFacts DEF Runs
<1>2. k \in Data
  <2>1. used[<<r[1], DataNPages>>]
    BY <1>1 DEF BoundaryTags
  <2>2. k # DataNPages
    BY <2>1 DEF NextFree
  <2> QED
    BY <2>2, <1>1 DEF Data
<1>3. PICK s \in Runs : s # r /\ s[1] = r[1] /\ k \in s[2] .. (s[2] + s[3] - 1)
  BY <1>1, <1>2, BesideRun
<1>4. s[2] = k
  BY <1>1, <1>3, RunsApart, RunFacts
<1>5. s \notin held
  <2>1. ~used[<<s[1], s[2]>>]
    BY <1>3, <1>4 DEF NextFree
  <2> QED
    BY <2>1 DEF BoundaryTags
<1> QED
  BY <1>3, <1>4, <1>5, FreeRunHead DEF Runs, NextHead

\* The flag and the length before a held run tell the truth: if the flag says
\* free, the free run of that length ends there.
LEMMA PrevIsHead ==
    ASSUME TypeOK, Tiled, BoundaryTags, NEW r \in held, PrevFree(r)
    PROVE  /\ PrevHead(r) \in heads
           /\ PrevHead(r)[1] = r[1]
           /\ PrevHead(r)[2] + n_pages[PrevHead(r)] = r[2]
<1> DEFINE k == r[2] - 1
<1>1. r \in Runs /\ r[1] \in arenas /\ r[2] \in Int /\ r[3] \in Int
      /\ 0 <= r[2] /\ 1 <= r[3] /\ r[2] + r[3] <= DataNPages /\ DataNPages \in Int
  BY RunFacts DEF Runs
<1>2. k \in Data
  <2>1. used[<<r[1], -1>>]
    BY <1>1 DEF BoundaryTags
  <2>2. r[2] # 0
    BY <2>1 DEF PrevFree
  <2> QED
    BY <2>2, <1>1 DEF Data
<1>3. PICK s \in Runs : s # r /\ s[1] = r[1] /\ k \in s[2] .. (s[2] + s[3] - 1)
  BY <1>1, <1>2, BesideRun
<1>4. s[2] \in Int /\ s[3] \in Int /\ s[2] + s[3] = r[2] /\ s[2] + s[3] - 1 = k
  BY <1>1, <1>3, RunsApart, RunFacts
<1>5. s \notin held
  <2>1. ~used[<<s[1], s[2] + s[3] - 1>>]
    BY <1>3, <1>4 DEF PrevFree
  <2> QED
    BY <2>1 DEF BoundaryTags
<1>6. /\ <<s[1], s[2]>> \in heads /\ s = FreeRun(<<s[1], s[2]>>)
      /\ n_pages[<<s[1], s[2]>>] = s[3]
  BY <1>5, FreeRunHead DEF Runs, FreeRun
<1>7. n_pages[<<r[1], r[2] - 1>>] = s[3]
  BY <1>3, <1>4, <1>6 DEF BoundaryTags
<1>8. PrevHead(r) = <<s[1], s[2]>>
  BY <1>1, <1>3, <1>4, <1>7 DEF PrevHead
<1> QED
  BY <1>3, <1>4, <1>6, <1>8
\* The free runs that the freed run is coalesced with, and all the runs that
\* become one.
GoneHeads(r) == (IF NextFree(r) THEN {NextHead(r)} ELSE {})
                \cup (IF PrevFree(r) THEN {PrevHead(r)} ELSE {})
GoneRuns(r) == {r} \cup {FreeRun(h) : h \in GoneHeads(r)}

\* The freed run and its free neighbours fill the coalesced run.
Merged(r) ==
    LET lo == CoalescedIdx(r)
        hi == CoalescedIdx(r) + CoalescedLen(r)
    IN  /\ lo \in Int /\ 0 <= lo /\ CoalescedLen(r) \in 1 .. DataNPages
        /\ hi <= DataNPages /\ r[1] \in arenas /\ lo \in Data
        /\ GoneHeads(r) \subseteq heads /\ GoneRuns(r) \subseteq Runs
        /\ Within(GoneRuns(r), r[1], lo, hi) /\ Covers(GoneRuns(r), lo, hi)
        /\ lo <= r[2] /\ r[2] + r[3] <= hi
        /\ IF NextFree(r) THEN hi = r[2] + r[3] + n_pages[NextHead(r)]
           ELSE hi = r[2] + r[3]
        /\ IF PrevFree(r) THEN lo + n_pages[PrevHead(r)] = r[2] /\ PrevHead(r) = <<r[1], lo>>
           ELSE lo = r[2]

\* What deallocate_page computes from the boundary tags is such a run.
LEMMA MergeGeometry ==
    ASSUME TypeOK, Tiled, BoundaryTags, NEW r \in held
    PROVE  Merged(r)
<1> DEFINE lo == CoalescedIdx(r)
           n == CoalescedLen(r)
           hi == lo + n
           x == NextHead(r)
           p == PrevHead(r)
           X == IF NextFree(r) THEN n_pages[x] ELSE 0
           P == IF PrevFree(r) THEN n_pages[p] ELSE 0
<1>1. r \in Runs /\ r[1] \in arenas /\ r[2] \in Int /\ r[3] \in Int
      /\ 0 <= r[2] /\ 1 <= r[3] /\ r[2] + r[3] <= DataNPages /\ DataNPages \in Int
  BY RunFacts DEF Runs
<1>2. ASSUME NextFree(r)
      PROVE  /\ x \in heads /\ x = <<r[1], r[2] + r[3]>> /\ n_pages[x] \in Int
             /\ 1 <= n_pages[x] /\ r[2] + r[3] + n_pages[x] <= DataNPages
  <2>1. x \in heads
    BY <1>2, NextIsHead
  <2>2. x = <<r[1], r[2] + r[3]>>
    BY DEF NextHead
  <2>3. n_pages[x] \in 1 .. DataNPages /\ x[2] + n_pages[x] <= DataNPages
    BY <2>1, HeadFacts
  <2> HIDE DEF x
  <2> QED
    BY <2>1, <2>2, <2>3, <1>1
<1>3. ASSUME PrevFree(r)
      PROVE  /\ p \in heads /\ p = <<r[1], p[2]>> /\ p[2] \in Int /\ 0 <= p[2]
             /\ n_pages[p] \in Int /\ 1 <= n_pages[p] /\ p[2] + n_pages[p] = r[2]
  <2>1. p \in heads /\ p[1] = r[1] /\ p[2] + n_pages[p] = r[2]
    BY <1>3, PrevIsHead
  <2>2. p = <<p[1], p[2]>> /\ p[2] \in Data /\ n_pages[p] \in 1 .. DataNPages
    BY <2>1, HeadFacts
  <2> HIDE DEF p
  <2> QED
    BY <2>1, <2>2, <1>1 DEF Data
<1>4. X \in Int /\ 0 <= X /\ P \in Int /\ 0 <= P /\ lo \in Int /\ lo + P = r[2] /\ 0 <= lo
  <2>1. CASE PrevFree(r)
    BY <2>1, <1>1, <1>2, <1>3 DEF CoalescedIdx
  <2>2. CASE ~PrevFree(r)
    BY <2>2, <1>1, <1>2 DEF CoalescedIdx
  <2> QED
    BY <2>1, <2>2
<1>5. n = r[3] + X + P
  BY DEF CoalescedLen
<1>6. hi = r[2] + r[3] + X /\ hi <= DataNPages /\ n \in Int /\ 1 <= n
  <2>1. r[2] + r[3] + X <= DataNPages
    BY <1>1, <1>2
  <2> HIDE DEF X, P, lo, n
  <2> QED
    BY <2>1, <1>1, <1>4, <1>5
<1>7. GoneHeads(r) \subseteq heads
  BY <1>2, <1>3 DEF GoneHeads
<1>8. GoneRuns(r) \subseteq Runs
  BY <1>1, <1>7, HeadFacts DEF GoneRuns, FreeRun, Runs
<1>9. \A s \in GoneRuns(r) :
         \/ s = r
         \/ NextFree(r) /\ s = <<r[1], r[2] + r[3], n_pages[x]>>
         \/ PrevFree(r) /\ s = <<r[1], lo, n_pages[p]>>
  <2>1. NextFree(r) => FreeRun(x) = <<r[1], r[2] + r[3], n_pages[x]>>
    BY DEF NextHead, FreeRun
  <2>2. PrevFree(r) => FreeRun(p) = <<r[1], lo, n_pages[p]>>
    BY <1>3 DEF FreeRun, CoalescedIdx
  <2> HIDE DEF x, p, lo
  <2> QED
    BY <2>1, <2>2 DEF GoneRuns, GoneHeads, x, p
<1>10. Within(GoneRuns(r), r[1], lo, hi)
  <2> SUFFICES ASSUME NEW s \in GoneRuns(r)
               PROVE  s[1] = r[1] /\ lo <= s[2] /\ s[2] + s[3] <= hi
    BY DEF Within
  <2>1. CASE s = r
    BY <2>1, <1>1, <1>4, <1>6
  <2>2. CASE NextFree(r) /\ s = <<r[1], r[2] + r[3], n_pages[x]>>
    BY <2>2, <1>1, <1>2, <1>4, <1>6
  <2>3. CASE PrevFree(r) /\ s = <<r[1], lo, n_pages[p]>>
    BY <2>3, <1>1, <1>3, <1>4, <1>6
  <2> QED
    BY <2>1, <2>2, <2>3, <1>9
<1>11. ASSUME NEW k \in lo .. (hi - 1)
       PROVE  \E s \in GoneRuns(r) : k \in RunPages(s)
  <2>1. CASE k < r[2]
    <3>1. PrevFree(r)
      BY <2>1, <1>1, <1>4
    <3>2. FreeRun(p) \in GoneRuns(r)
      BY <3>1 DEF GoneRuns, GoneHeads
    <3>3. FreeRun(p)[2] = lo /\ FreeRun(p)[3] = P
      BY <3>1 DEF FreeRun, CoalescedIdx
    <3> QED
      BY <2>1, <3>2, <3>3, <1>4 DEF RunPages
  <2>2. CASE r[2] <= k /\ k < r[2] + r[3]
    BY <2>2, <1>1, <1>4 DEF RunPages, GoneRuns
  <2>3. CASE r[2] + r[3] <= k
    <3>1. NextFree(r)
      BY <2>3, <1>1, <1>4, <1>6
    <3>2. FreeRun(x) \in GoneRuns(r)
      BY <3>1 DEF GoneRuns, GoneHeads
    <3>3. FreeRun(x)[2] = r[2] + r[3] /\ FreeRun(x)[3] = X
      BY <3>1 DEF FreeRun, NextHead
    <3> QED
      BY <2>3, <3>2, <3>3, <1>1, <1>4, <1>6 DEF RunPages
  <2> QED
    BY <2>1, <2>2, <2>3, <1>1, <1>4
<1>12. /\ IF NextFree(r) THEN hi = r[2] + r[3] + n_pages[x] ELSE hi = r[2] + r[3]
       /\ IF PrevFree(r) THEN lo + n_pages[p] = r[2] /\ p = <<r[1], lo>> ELSE lo = r[2]
  BY <1>1, <1>3, <1>4, <1>6 DEF CoalescedIdx
<1>13. n \in 1 .. DataNPages /\ lo <= r[2] /\ r[2] + r[3] <= hi /\ lo \in Data
  BY <1>1, <1>4, <1>6 DEF Data
<1> QED
  BY <1>1, <1>4, <1>6, <1>7, <1>8, <1>10, <1>11, <1>12, <1>13 DEF Merged, Covers
\* Every other run lies before or behind the coalesced run.
LEMMA MergeOthers ==
    ASSUME TypeOK, Tiled, NEW r \in held, Merged(r),
           NEW s \in Runs, s \notin GoneRuns(r)
    PROVE  /\ \/ s[1] # r[1]
              \/ s[2] + s[3] <= CoalescedIdx(r)
              \/ CoalescedIdx(r) + CoalescedLen(r) <= s[2]
           /\ s[2] \in Int /\ s[3] \in Int /\ 1 <= s[3]
<1> DEFINE lo == CoalescedIdx(r)
           hi == lo + CoalescedLen(r)
<1>1. s[2] \in Int /\ s[3] \in Int /\ 1 <= s[3]
  BY RunFacts
<1>2. /\ r \in Runs /\ r \in GoneRuns(r) /\ r[2] \in Int /\ r[3] \in Int /\ 1 <= r[3]
      /\ lo \in Int /\ hi \in Int
  BY RunFacts DEF Merged, Runs, GoneRuns
<1>3. ASSUME s[1] = r[1], lo < s[2] + s[3], s[2] < hi
      PROVE  FALSE
  <2>1. r[2] + r[3] <= s[2] \/ s[2] + s[3] <= r[2]
    BY <1>2, <1>3, RunsApart
  <2>2. CASE r[2] + r[3] <= s[2]
    <3>1. NextFree(r) /\ hi = r[2] + r[3] + n_pages[NextHead(r)]
      BY <2>2, <1>1, <1>2, <1>3 DEF Merged
    <3> DEFINE x == FreeRun(NextHead(r))
    <3>2. x \in GoneRuns(r) /\ NextHead(r) \in heads
      BY <3>1 DEF GoneRuns, GoneHeads, Merged
    <3>3. /\ x \in Runs /\ x # s /\ x[1] = s[1] /\ x[2] = r[2] + r[3]
          /\ x[3] = n_pages[NextHead(r)]
      BY <3>2, <1>3 DEF Merged, NextHead, FreeRun
    <3>4. x[2] + x[3] <= s[2] \/ s[2] + s[3] <= x[2]
      BY <3>3, RunsApart
    <3>5. x[3] \in Int
      BY <3>3, RunFacts
    <3> HIDE DEF x
    <3> QED
      BY <2>2, <3>1, <3>3, <3>4, <3>5, <1>1, <1>2, <1>3
  <2>3. CASE s[2] + s[3] <= r[2]
    <3>1. PrevFree(r) /\ lo + n_pages[PrevHead(r)] = r[2] /\ PrevHead(r) = <<r[1], lo>>
      BY <2>3, <1>1, <1>2, <1>3 DEF Merged
    <3> DEFINE x == FreeRun(PrevHead(r))
    <3>2. x \in GoneRuns(r)
      BY <3>1 DEF GoneRuns, GoneHeads
    <3>3. /\ x \in Runs /\ x # s /\ x[1] = s[1] /\ x[2] = lo
          /\ x[3] = n_pages[PrevHead(r)]
      BY <3>1, <3>2, <1>3 DEF Merged, FreeRun
    <3>4. x[2] + x[3] <= s[2] \/ s[2] + s[3] <= x[2]
      BY <3>3, RunsApart
    <3>5. x[3] \in Int
      BY <3>3, RunFacts
    <3> HIDE DEF x
    <3> QED
      BY <2>3, <3>1, <3>3, <3>4, <3>5, <1>1, <1>2, <1>3
  <2> QED
    BY <2>1, <2>2, <2>3
<1> QED
  BY <1>1, <1>2, <1>3

\* The other free runs stay: they lie outside of the coalesced run.
LEMMA MergeOtherHeads ==
    ASSUME TypeOK, Tiled, NEW r \in held, Merged(r), NEW g \in OtherHeads(r)
    PROVE  /\ g \in heads /\ g \in Page /\ g = <<g[1], g[2]>>
           /\ FreeRun(g) \in Runs /\ FreeRun(g) \in FreeRuns /\ FreeRun(g) \notin GoneRuns(r)
           /\ g[2] \in Int /\ n_pages[g] \in Int /\ 1 <= n_pages[g]
           /\ \/ g[1] # r[1]
              \/ g[2] + n_pages[g] <= CoalescedIdx(r)
              \/ CoalescedIdx(r) + CoalescedLen(r) <= g[2]
<1>1. g \in heads /\ g \notin GoneHeads(r)
  BY DEF OtherHeads, GoneHeads
<1>2. g \in Page /\ g = <<g[1], g[2]>> /\ FreeRun(g) \in FreeRuns /\ FreeRun(g) \in Runs
  BY <1>1, HeadFacts DEF FreeRun, Runs
<1>3. FreeRun(g) # r
  BY <1>2 DEF Tiled
<1>4. \A x \in GoneHeads(r) : FreeRun(g) # FreeRun(x)
  <2> SUFFICES ASSUME NEW x \in GoneHeads(r), FreeRun(g) = FreeRun(x)
               PROVE  FALSE
    OBVIOUS
  <2>1. x \in heads
    BY DEF Merged
  <2>2. x = <<x[1], x[2]>>
    BY <2>1, HeadFacts
  <2>3. g[1] = x[1] /\ g[2] = x[2]
    BY DEF FreeRun
  <2> QED
    BY <2>2, <2>3, <1>1, <1>2
<1>5. FreeRun(g) \notin GoneRuns(r)
  BY <1>3, <1>4 DEF GoneRuns
<1>6. /\ FreeRun(g)[1] = g[1] /\ FreeRun(g)[2] = g[2] /\ FreeRun(g)[3] = n_pages[g]
  BY DEF FreeRun
<1> QED
  BY <1>1, <1>2, <1>5, <1>6, MergeOthers

\* The runs of the other heads are the other free runs.
LEMMA OtherFreeRuns ==
    ASSUME TypeOK, Tiled, NEW r \in held, Merged(r)
    PROVE  {FreeRun(g) : g \in OtherHeads(r)} = FreeRuns \ GoneRuns(r)
<1>1. \A g \in OtherHeads(r) : FreeRun(g) \in FreeRuns \ GoneRuns(r)
  BY MergeOtherHeads
<1>2. ASSUME NEW s \in FreeRuns \ GoneRuns(r)
      PROVE  \E g \in OtherHeads(r) : s = FreeRun(g)
  <2>1. PICK g \in heads : s = FreeRun(g)
    BY DEF FreeRuns, FreeRun
  <2>2. g \notin GoneHeads(r)
    BY <2>1 DEF GoneRuns
  <2> QED
    BY <2>1, <2>2 DEF OtherHeads, GoneHeads
<1> QED
  BY <1>1, <1>2

-----------------------------------------------------------------------------
(* The links, once the neighbours are off their lists.                     *)

\* Taking the free neighbours off their lists keeps the others filed.
LEMMA UnlinkedFiled ==
    ASSUME TypeOK, Tiled, ListsSound, NEW r \in held, Merged(r)
    PROVE  Filed(Unlinked(r), Node, Target, List, List \cup OtherHeads(r), ClassOfNode)
<1> DEFINE x == NextHead(r)
           p == PrevHead(r)
           H1 == IF NextFree(r) THEN heads \ {x} ELSE heads
<1>1. heads \in SUBSET Page /\ H1 \in SUBSET Page
  BY DEF TypeOK
<1>2. NextFree(r) => x \in heads
  BY DEF Merged, GoneHeads
<1>3. PrevFree(r) => p \in H1
  <2>1. PrevFree(r) => p \in heads
    BY DEF Merged, GoneHeads
  <2>2. PrevFree(r) => p # x
    <3>1. r[2] \in Int /\ r[3] \in Int /\ 1 <= r[3] /\ CoalescedIdx(r) \in Int
      BY RunFacts DEF Runs, Merged
    <3>2. PrevFree(r) => p = <<r[1], CoalescedIdx(r)>> /\ CoalescedIdx(r) <= r[2]
      BY DEF Merged
    <3>3. r[2] + r[3] # CoalescedIdx(r) \/ ~(CoalescedIdx(r) <= r[2])
      BY <3>1
    <3> QED
      BY <3>2, <3>3 DEF NextHead
  <2> QED
    BY <2>1, <2>2
<1>4. Filed(link, Node, Target, List, List \cup heads, ClassOfNode)
  BY ListsAreFiled
<1>5. Filed(UnlinkedNext(r), Node, Target, List, List \cup H1, ClassOfNode)
  <2>1. CASE NextFree(r)
    <3>1. H1 = heads \ {x} /\ UnlinkedNext(r) = remove_from_list(link, x)
      BY <2>1 DEF UnlinkedNext
    <3> HIDE DEF H1, x
    <3> QED
      BY <2>1, <3>1, <1>1, <1>2, <1>4, UnfileHead
  <2>2. CASE ~NextFree(r)
    BY <2>2, <1>4 DEF UnlinkedNext
  <2> QED
    BY <2>1, <2>2
<1>6. OtherHeads(r) = IF PrevFree(r) THEN H1 \ {p} ELSE H1
  BY DEF OtherHeads
<1> HIDE DEF H1, p
<1>7. CASE PrevFree(r)
  <2>1. Unlinked(r) = remove_from_list(UnlinkedNext(r), p)
    BY <1>7 DEF Unlinked, p
  <2> QED
    BY <2>1, <1>1, <1>3, <1>5, <1>6, <1>7, UnfileHead
<1>8. CASE ~PrevFree(r)
  BY <1>5, <1>6, <1>8 DEF Unlinked
<1> QED
  BY <1>7, <1>8
-----------------------------------------------------------------------------
(* Filing the coalesced run.                                               *)

\* What is written: the boundary tags of the coalesced run, and nothing outside.
MergeWrites(r) ==
    LET h    == <<r[1], CoalescedIdx(r)>>
        tail == <<r[1], CoalescedIdx(r) + CoalescedLen(r) - 1>>
    IN  /\ used' \in [Entry -> BOOLEAN] /\ n_pages' \in [Entry -> 0 .. DataNPages]
        /\ WritesWithin(r[1], CoalescedIdx(r), CoalescedIdx(r) + CoalescedLen(r))
        /\ used'[h] = FALSE /\ used'[tail] = FALSE
        /\ n_pages'[h] = CoalescedLen(r) /\ n_pages'[tail] = CoalescedLen(r)

\* deallocate_page writes these entries when it files the coalesced run.
LEMMA MergeEntries ==
    ASSUME TypeOK, Tiled, NEW r \in held, Merged(r), deallocate_page(r)
    PROVE  MergeWrites(r)
<1> DEFINE a == r[1]
           lo == CoalescedIdx(r)
           n == CoalescedLen(r)
           hi == lo + n
           h == <<a, lo>>
           m == <<a, lo, n>>
<1>1. /\ lo \in Int /\ 0 <= lo /\ lo \in Data /\ n \in 1 .. DataNPages /\ n \in Int /\ 1 <= n
      /\ hi <= DataNPages /\ DataNPages \in Int /\ a \in arenas /\ a \in Arena
      /\ GoneHeads(r) \subseteq heads /\ GoneRuns(r) \subseteq Runs /\ r \in GoneRuns(r)
  BY ClassFacts DEF Merged, TypeOK, GoneRuns
<1> DEFINE tail == <<a, lo + n - 1>>
           dead == Entries(a, lo, n) \ {h}
           f == Assign(n_pages, dead, 0)
<1>2. /\ used' = Assign(used, {h, tail}, FALSE)
      /\ n_pages' = Assign(f, {h, tail}, n)
  BY DEF deallocate_page
<1>3. used \in [Entry -> BOOLEAN] /\ n_pages \in [Entry -> 0 .. DataNPages]
  BY DEF TypeOK
<1>4. f \in [Entry -> 0 .. DataNPages]
  BY <1>1, <1>3 DEF Assign
<1>5. ASSUME NEW e \in Entry
      PROVE  /\ used'[e] = IF e \in {h, tail} THEN FALSE ELSE used[e]
             /\ n_pages'[e] = IF e \in {h, tail} THEN n
                              ELSE IF e \in dead THEN 0 ELSE n_pages[e]
  <2>1. f[e] = IF e \in dead THEN 0 ELSE n_pages[e]
    BY <1>3 DEF Assign
  <2> HIDE DEF f, h, tail, dead, n
  <2> QED
    BY <2>1, <1>2, <1>3, <1>4 DEF Assign
<1>6. \A k \in lo .. (hi - 1) : <<a, k>> \in Entry
  BY <1>1 DEF Entry, Meta
<1>7. lo \in lo .. (hi - 1) /\ lo + n - 1 \in lo .. (hi - 1)
  BY <1>1
<1>8. used' \in [Entry -> BOOLEAN]
  BY <1>2, <1>3 DEF Assign
<1>9. n_pages' \in [Entry -> 0 .. DataNPages]
  <2>1. n \in 0 .. DataNPages
    BY <1>1
  <2> HIDE DEF f, h, tail, n
  <2> QED
    BY <2>1, <1>2, <1>4 DEF Assign
<1>10. WritesWithin(a, lo, hi)
  <2> SUFFICES ASSUME NEW e \in Entry, e[1] # a \/ e[2] < lo \/ e[2] >= hi
               PROVE  used'[e] = used[e] /\ n_pages'[e] = n_pages[e]
    BY DEF WritesWithin
  <2>1. e[2] \in Int
    BY <1>1 DEF Entry, Meta
  <2>2. \A k \in lo .. (hi - 1) : e # <<a, k>>
    BY <1>1, <2>1
  <2>3. e \notin Entries(a, lo, n)
    <3>1. \A k \in lo .. (lo + n - 1) : k \in lo .. (hi - 1)
      BY <1>1
    <3> HIDE DEF hi
    <3> QED
      BY <2>2, <3>1 DEF Entries
  <2>4. e # h /\ e # tail
    BY <2>2, <1>7
  <2> QED
    BY <1>5, <2>3, <2>4
<1>11. h \in Entry /\ tail \in Entry
  BY <1>6, <1>7
<1>12. /\ used'[h] = FALSE /\ used'[tail] = FALSE
       /\ n_pages'[h] = n /\ n_pages'[tail] = n
  <2> HIDE DEF h, tail, dead, n
  <2> QED
    BY <1>5, <1>11
<1> QED
  BY <1>8, <1>9, <1>10, <1>12 DEF MergeWrites

\* What becomes of the runs: those that are gone are replaced by one.
RunsMerged(r) ==
    LET h == <<r[1], CoalescedIdx(r)>>
        m == <<r[1], CoalescedIdx(r), CoalescedLen(r)>>
    IN  /\ held' = held \ {r} /\ heads' = OtherHeads(r) \cup {h}
        /\ h \in Page \ OtherHeads(r) /\ m \in Run
        /\ \A g \in OtherHeads(r) : n_pages'[g] = n_pages[g]
        /\ FreeRuns' = (FreeRuns \ GoneRuns(r)) \cup {m}

\* deallocate_page replaces the runs so.
LEMMA MergeRuns ==
    ASSUME TypeOK, Tiled, NEW r \in held, Merged(r), deallocate_page(r)
    PROVE  RunsMerged(r)
<1> DEFINE a == r[1]
           lo == CoalescedIdx(r)
           n == CoalescedLen(r)
           hi == lo + n
           h == <<a, lo>>
           m == <<a, lo, n>>
<1>1. /\ lo \in Int /\ 0 <= lo /\ lo \in Data /\ n \in 1 .. DataNPages /\ n \in Int /\ 1 <= n
      /\ hi <= DataNPages /\ DataNPages \in Int /\ a \in arenas /\ a \in Arena
      /\ GoneHeads(r) \subseteq heads /\ GoneRuns(r) \subseteq Runs /\ r \in GoneRuns(r)
  BY ClassFacts DEF Merged, TypeOK, GoneRuns
<1>2. held' = held \ {r} /\ heads' = OtherHeads(r) \cup {h}
  BY DEF deallocate_page
<1>3. MergeWrites(r)
  BY MergeEntries
<1>4. h \in Page /\ m \in Run
  BY <1>1 DEF Page, Run
<1>5. ASSUME NEW g \in OtherHeads(r)
      PROVE  n_pages'[g] = n_pages[g] /\ g # h
  <2>1. /\ g \in Entry /\ g[2] \in Int /\ n_pages[g] \in Int /\ 1 <= n_pages[g]
        /\ g[1] # a \/ g[2] + n_pages[g] <= lo \/ hi <= g[2]
    BY MergeOtherHeads, NodeFacts
  <2>2. g[1] # a \/ g[2] < lo \/ hi <= g[2]
    BY <1>1, <2>1
  <2>3. g # h
    BY <1>1, <2>1, <2>2
  <2> QED
    BY <2>1, <2>2, <2>3, <1>1, <1>3 DEF MergeWrites, WritesWithin
<1>6. n_pages'[h] = n
  BY <1>3 DEF MergeWrites
<1>7. FreeRuns' = {<<g[1], g[2], n_pages'[g]>> : g \in OtherHeads(r) \cup {h}}
  BY <1>2 DEF FreeRuns
<1>8. \A g \in OtherHeads(r) : <<g[1], g[2], n_pages'[g]>> = FreeRun(g)
  BY <1>5 DEF FreeRun
<1>9. <<h[1], h[2], n_pages'[h]>> = m
  BY <1>6
<1>10. FreeRuns' = {FreeRun(g) : g \in OtherHeads(r)} \cup {m}
  <2> HIDE DEF h, m
  <2> QED
    BY <1>7, <1>8, <1>9
<1>11. FreeRuns' = (FreeRuns \ GoneRuns(r)) \cup {m}
  BY <1>10, OtherFreeRuns
<1>12. h \notin OtherHeads(r) /\ \A g \in OtherHeads(r) : n_pages'[g] = n_pages[g]
  BY <1>5
<1> QED
  BY <1>2, <1>4, <1>11, <1>12 DEF RunsMerged
\* Of the held runs only the freed one is gone.
LEMMA GoneHeld ==
    ASSUME TypeOK, Tiled, NEW r \in held, Merged(r), NEW s \in held, s # r
    PROVE  s \notin GoneRuns(r)
<1>1. \A h \in GoneHeads(r) : FreeRun(h) \in FreeRuns
  BY HeadFacts DEF Merged, FreeRun
<1> QED
  BY <1>1 DEF GoneRuns, Tiled

\* The arenas stay tiled.
LEMMA MergeTiled ==
    ASSUME TypeOK, Tiled, NEW r \in held, Merged(r), deallocate_page(r)
    PROVE  Tiled'
<1> DEFINE a == r[1]
           lo == CoalescedIdx(r)
           n == CoalescedLen(r)
           hi == lo + n
           h == <<a, lo>>
           m == <<a, lo, n>>
<1>1. /\ lo \in Int /\ 0 <= lo /\ lo \in Data /\ n \in 1 .. DataNPages /\ n \in Int /\ 1 <= n
      /\ hi <= DataNPages /\ DataNPages \in Int /\ a \in arenas /\ a \in Arena
      /\ GoneHeads(r) \subseteq heads /\ GoneRuns(r) \subseteq Runs /\ r \in GoneRuns(r)
  BY ClassFacts DEF Merged, TypeOK, GoneRuns
<1>2. /\ held' = held \ {r} /\ m \in Run
      /\ FreeRuns' = (FreeRuns \ GoneRuns(r)) \cup {m}
      /\ arenas' = arenas
  <2>1. RunsMerged(r)
    BY MergeRuns
  <2> QED
    BY <2>1 DEF RunsMerged, deallocate_page
<1>3. \A s \in held : s \in GoneRuns(r) <=> s = r
  BY <1>1, GoneHeld
<1>4. Runs' = (Runs \ GoneRuns(r)) \cup {m}
  <2> HIDE DEF m
  <2> QED
    BY <1>2, <1>3 DEF Runs
<1>5. m \notin Runs \ GoneRuns(r)
  <2>1. m[1] = a /\ m[2] = lo /\ m[3] = n
    OBVIOUS
  <2> HIDE DEF m
  <2> QED
    BY <2>1, <1>1, MergeOthers
<1>6. held' \cap FreeRuns' = {}
  <2>1. held \cap FreeRuns = {} /\ held \ {r} \subseteq Runs \ GoneRuns(r)
    BY <1>3 DEF Tiled, Runs
  <2> HIDE DEF m
  <2> QED
    BY <1>2, <1>5, <2>1
<1>7. IsTiling((Runs \ GoneRuns(r)) \cup {m}, arenas)
  <2>1. Runs \in SUBSET Run /\ GoneRuns(r) \in SUBSET Runs /\ {m} \in SUBSET Run
    BY <1>1, <1>2 DEF TypeOK, Runs
  <2>2. lo \in Int /\ hi \in Int /\ 0 <= lo /\ hi <= DataNPages
    BY <1>1
  <2>3. Within(GoneRuns(r), a, lo, hi) /\ Covers(GoneRuns(r), lo, hi)
    BY DEF Merged
  <2>4. Within({m}, a, lo, hi) /\ Apart({m})
    BY <1>1 DEF Within, Apart
  <2>5. Covers({m}, lo, hi)
    <3>1. \A p \in lo .. (hi - 1) : p \in RunPages(m)
      BY <1>1 DEF RunPages
    <3> HIDE DEF m
    <3> QED
      BY <3>1 DEF Covers
  <2>6. IsTiling(Runs, arenas)
    BY DEF Tiled
  <2> HIDE DEF m, lo, hi
  <2> QED
    BY <1>1, <2>1, <2>2, <2>3, <2>4, <2>5, <2>6, Retile
<1> QED
  BY <1>2, <1>4, <1>6, <1>7 DEF Tiled

\* The boundary tags are true again: those of the coalesced run are written,
\* those of the other runs are kept.
LEMMA MergeBoundaryTags ==
    ASSUME TypeOK, Tiled, BoundaryTags, NEW r \in held, Merged(r), deallocate_page(r)
    PROVE  BoundaryTags'
<1> DEFINE a == r[1]
           lo == CoalescedIdx(r)
           n == CoalescedLen(r)
           hi == lo + n
           h == <<a, lo>>
           m == <<a, lo, n>>
<1>1. /\ lo \in Int /\ 0 <= lo /\ lo \in Data /\ n \in 1 .. DataNPages /\ n \in Int /\ 1 <= n
      /\ hi <= DataNPages /\ DataNPages \in Int /\ a \in arenas /\ a \in Arena
      /\ GoneHeads(r) \subseteq heads /\ GoneRuns(r) \subseteq Runs /\ r \in GoneRuns(r)
  BY ClassFacts DEF Merged, TypeOK, GoneRuns
<1>2. /\ held' = held \ {r} /\ heads' = OtherHeads(r) \cup {h}
      /\ arenas' = arenas
      /\ \A g \in OtherHeads(r) : n_pages'[g] = n_pages[g]
  <2>1. RunsMerged(r)
    BY MergeRuns
  <2> QED
    BY <2>1 DEF RunsMerged, deallocate_page
<1>3. MergeWrites(r)
  BY MergeEntries
<1>4. WritesWithin(a, lo, hi)
  BY <1>3 DEF MergeWrites
<1>5. ASSUME NEW s \in Runs \ GoneRuns(r)
      PROVE  KeepsEdges(s)
  <2>1. s[1] # a \/ s[2] + s[3] <= lo \/ hi <= s[2]
    BY MergeOthers
  <2>2. lo \in Int /\ hi \in Int
    BY <1>1
  <2> HIDE DEF lo, hi
  <2> QED
    BY <2>1, <2>2, <1>4, EdgesKept
<1>6. ASSUME NEW b \in arenas'
      PROVE  used'[<<b, -1>>] /\ used'[<<b, DataNPages>>]
  <2>1. b \in arenas /\ <<b, -1>> \in Entry /\ <<b, DataNPages>> \in Entry
    BY <1>2, ArenaAssumption DEF TypeOK, Entry, Meta
  <2>2. used[<<b, -1>>] /\ used[<<b, DataNPages>>]
    BY <2>1 DEF BoundaryTags
  <2> QED
    BY <2>1, <2>2, <1>1, <1>4 DEF WritesWithin
<1>7. ASSUME NEW s \in held'
      PROVE  used'[<<s[1], s[2]>>] /\ used'[<<s[1], s[2] + s[3] - 1>>]
  <2>1. s \in held /\ s \in Runs \ GoneRuns(r)
    BY <1>2, GoneHeld DEF Runs
  <2>2. KeepsEdges(s)
    BY <2>1, <1>5
  <2> QED
    BY <2>1, <2>2 DEF KeepsEdges, BoundaryTags
<1>8. ASSUME NEW g \in heads'
      PROVE  LET tail == <<g[1], g[2] + n_pages'[g] - 1>>
             IN  ~used'[g] /\ ~used'[tail] /\ n_pages'[tail] = n_pages'[g]
  <2>1. CASE g \in OtherHeads(r)
    <3>1. /\ g \in heads /\ g = <<g[1], g[2]>> /\ n_pages'[g] = n_pages[g]
          /\ FreeRun(g) \in Runs \ GoneRuns(r)
      BY <2>1, <1>2, MergeOtherHeads
    <3>2. KeepsEdges(FreeRun(g))
      BY <3>1, <1>5
    <3>3. FreeRun(g)[1] = g[1] /\ FreeRun(g)[2] = g[2] /\ FreeRun(g)[3] = n_pages[g]
      BY DEF FreeRun
    <3> QED
      BY <3>1, <3>2, <3>3 DEF KeepsEdges, BoundaryTags
  <2>2. CASE g = h
    BY <2>2, <1>3 DEF MergeWrites
  <2> QED
    BY <2>1, <2>2, <1>2
<1> QED
  BY <1>6, <1>7, <1>8 DEF BoundaryTags

\* No free run lies beside the coalesced run: beside it is a held run, as the
\* flags say, or what was beside the neighbour that it swallowed.
LEMMA MergeCoalesced ==
    ASSUME TypeOK, Tiled, BoundaryTags, Coalesced, NEW r \in held, Merged(r),
           deallocate_page(r)
    PROVE  Coalesced'
<1> DEFINE a == r[1]
           lo == CoalescedIdx(r)
           n == CoalescedLen(r)
           hi == lo + n
           h == <<a, lo>>
           m == <<a, lo, n>>
<1>1. /\ lo \in Int /\ 0 <= lo /\ lo \in Data /\ n \in 1 .. DataNPages /\ n \in Int /\ 1 <= n
      /\ hi <= DataNPages /\ DataNPages \in Int /\ a \in arenas /\ a \in Arena
      /\ GoneHeads(r) \subseteq heads /\ GoneRuns(r) \subseteq Runs /\ r \in GoneRuns(r)
  BY ClassFacts DEF Merged, TypeOK, GoneRuns
<1>2. FreeRuns' = (FreeRuns \ GoneRuns(r)) \cup {m}
  <2>1. RunsMerged(r)
    BY MergeRuns
  <2> QED
    BY <2>1 DEF RunsMerged
<1>3. ASSUME NEW s \in FreeRuns, s[1] = a
      PROVE  s[2] # hi /\ s[2] + s[3] # lo
  <2>1. <<s[1], s[2]>> \in heads /\ s = FreeRun(<<s[1], s[2]>>)
    BY FreeRunHead
  <2>2. ~used[<<a, s[2]>>] /\ ~used[<<a, s[2] + s[3] - 1>>]
    BY <1>3, <2>1 DEF BoundaryTags, FreeRun
  <2>3. ASSUME NextFree(r)
        PROVE  s[2] # hi
    <3>1. /\ FreeRun(NextHead(r)) \in FreeRuns
          /\ FreeRun(NextHead(r))[1] = a
          /\ FreeRun(NextHead(r))[2] + FreeRun(NextHead(r))[3] = hi
      BY <2>3 DEF Merged, GoneHeads, FreeRuns, FreeRun, NextHead
    <3> QED
      BY <3>1, <1>3 DEF Coalesced
  <2>4. ASSUME ~NextFree(r)
        PROVE  s[2] # hi
    BY <2>2, <2>4 DEF Merged, NextFree
  <2>5. ASSUME PrevFree(r)
        PROVE  s[2] + s[3] # lo
    <3>1. /\ FreeRun(PrevHead(r)) \in FreeRuns
          /\ FreeRun(PrevHead(r))[1] = a
          /\ FreeRun(PrevHead(r))[2] = lo
      BY <2>5 DEF Merged, GoneHeads, FreeRuns, FreeRun
    <3> QED
      BY <3>1, <1>3 DEF Coalesced
  <2>6. ASSUME ~PrevFree(r)
        PROVE  s[2] + s[3] # lo
    <3>1. s[2] \in Int /\ s[3] \in Int
      BY RunFacts DEF Runs
    <3>2. lo = r[2] /\ used[<<a, r[2] - 1>>]
      BY <2>6 DEF Merged, PrevFree
    <3>3. s[2] + s[3] = r[2] => s[2] + s[3] - 1 = r[2] - 1
      BY <3>1
    <3> QED
      BY <2>2, <3>2, <3>3
  <2>7. s[2] # hi
    BY <2>3, <2>4
  <2>8. s[2] + s[3] # lo
    BY <2>5, <2>6
  <2> QED
    BY <2>7, <2>8
<1>4. SUFFICES ASSUME NEW x \in FreeRuns', NEW y \in FreeRuns', x[1] = y[1]
               PROVE  x[2] + x[3] # y[2]
  BY DEF Coalesced
<1>5. m[1] = a /\ m[2] = lo /\ m[2] + m[3] = hi /\ hi # lo
  BY <1>1
<1> HIDE DEF m, lo, hi
<1>6. CASE x \in FreeRuns /\ y \in FreeRuns
  BY <1>4, <1>6 DEF Coalesced
<1>7. CASE x \in FreeRuns /\ y = m
  BY <1>3, <1>4, <1>5, <1>7
<1>8. CASE x = m /\ y \in FreeRuns
  BY <1>3, <1>4, <1>5, <1>8
<1>9. CASE x = m /\ y = m
  BY <1>5, <1>9
<1> QED
  BY <1>2, <1>6, <1>7, <1>8, <1>9
\* The lists stay filed by class.
LEMMA MergeFiled ==
    ASSUME TypeOK, Tiled, ListsSound, NEW r \in held, Merged(r), deallocate_page(r)
    PROVE  Filed(link', Node, Target, List, List \cup heads', NextClassOfNode)
<1> DEFINE a == r[1]
           lo == CoalescedIdx(r)
           n == CoalescedLen(r)
           hi == lo + n
           h == <<a, lo>>
           m == <<a, lo, n>>
<1>1. /\ lo \in Int /\ 0 <= lo /\ lo \in Data /\ n \in 1 .. DataNPages /\ n \in Int /\ 1 <= n
      /\ hi <= DataNPages /\ DataNPages \in Int /\ a \in arenas /\ a \in Arena
      /\ GoneHeads(r) \subseteq heads /\ GoneRuns(r) \subseteq Runs /\ r \in GoneRuns(r)
  BY ClassFacts DEF Merged, TypeOK, GoneRuns
<1> DEFINE H == OtherHeads(r)
           free == insert_next(Unlinked(r), free_pages(FreeClass[n]), h)
           dead == Entries(a, lo, n) \ {h}
<1>2. RunsMerged(r) /\ MergeWrites(r)
  BY MergeRuns, MergeEntries
<1>3. /\ heads' = H \cup {h} /\ h \in Page \ H /\ H \in SUBSET Page
      /\ \A g \in H : n_pages'[g] = n_pages[g]
      /\ n_pages'[h] = n
  BY <1>2 DEF RunsMerged, MergeWrites, OtherHeads, TypeOK
<1>4. Filed(Unlinked(r), Node, Target, List, List \cup H, ClassOfNode)
  BY UnlinkedFiled
<1>5. FreeClass[n] \in Class
  BY <1>1, ClassFacts
<1>6. \A y \in Page : y \in Node /\ y \notin List
  BY NodeFacts
<1>7. \A y \in List \cup H : NextClassOfNode[y] = ClassOfNode[y]
  <2>1. \A y \in List : y \in Node
    BY NodeFacts
  <2> QED
    BY <2>1, <1>3, <1>6 DEF NextClassOfNode, ClassOfNode, ClassOf
<1>8. /\ NextClassOfNode[free_pages(FreeClass[n])] = FreeClass[n]
      /\ NextClassOfNode[h] = FreeClass[n]
  <2>1. free_pages(FreeClass[n]) \in List /\ free_pages(FreeClass[n]) \in Node
    BY <1>5, NodeFacts
  <2>2. h \in Node /\ h \notin List
    BY <1>3, <1>6
  <2>3. free_pages(FreeClass[n])[2] = FreeClass[n]
    BY DEF free_pages
  <2> HIDE DEF h, n
  <2> QED
    BY <2>1, <2>2, <2>3, <1>3 DEF NextClassOfNode
<1>9. Filed(free, Node, Target, List, List \cup (H \cup {h}), NextClassOfNode)
  <2> HIDE DEF H, h, n
  <2> QED
    BY <1>3, <1>4, <1>5, <1>7, <1>8, FileHead
<1>10. dead \cap (List \cup (H \cup {h})) = {}
  <2>1. ASSUME NEW k \in lo .. (hi - 1)
        PROVE  <<a, k>> \notin List /\ <<a, k>> \notin H
    <3>1. k \in Int /\ lo <= k /\ k < hi /\ k \in Data
      BY <1>1 DEF Data
    <3>2. <<a, k>> \in Page
      BY <3>1, <1>1 DEF Page
    <3>3. \A g \in H : /\ g[2] \in Int /\ n_pages[g] \in Int /\ 1 <= n_pages[g]
                       /\ g[1] # a \/ g[2] + n_pages[g] <= lo \/ hi <= g[2]
      BY MergeOtherHeads
    <3>4. <<a, k>> \notin H
      BY <3>1, <3>3, <1>1
    <3> QED
      BY <3>2, <3>4, <1>6
  <2>2. \A k \in lo .. (lo + n - 1) : k \in lo .. (hi - 1)
    BY <1>1
  <2>3. \A e \in dead : e # h /\ \E k \in lo .. (lo + n - 1) : e = <<a, k>>
    BY DEF Entries
  <2> HIDE DEF dead, H, h, lo, hi, n, a
  <2> QED
    BY <2>1, <2>2, <2>3
<1>11. link' = ForgetLinks(free, dead)
  BY DEF deallocate_page
<1>12. List \cup (H \cup {h}) \in SUBSET Node
  BY <1>3, <1>6, NodeFacts
<1>13. Filed(ForgetLinks(free, dead), Node, Target, List, List \cup (H \cup {h}), NextClassOfNode)
  <2> HIDE DEF free, dead, H, h
  <2> QED
    BY <1>9, <1>10, <1>12, ForgetFiled
<1> HIDE DEF free, dead, H, h
<1> QED
  BY <1>3, <1>11, <1>13

\* Filing the coalesced run preserves the inductive invariant.
LEMMA MergePreserves ==
    ASSUME IndInv, request = NoRequest, NEW r \in held, deallocate_page(r)
    PROVE  IndInv'
<1>1. TypeOK /\ Tiled /\ BoundaryTags /\ Coalesced /\ ListsSound /\ RequestOK
  BY DEF IndInv
<1>2. Merged(r)
  BY <1>1, MergeGeometry
<1>3. RunsMerged(r) /\ MergeWrites(r)
  BY <1>1, <1>2, MergeRuns, MergeEntries
<1>4. Filed(link', Node, Target, List, List \cup heads', NextClassOfNode)
  BY <1>1, <1>2, MergeFiled
<1>5. TypeOK'
  <2>1. arenas' \subseteq Arena /\ request' \in Request
    BY <1>1 DEF deallocate_page, TypeOK
  <2>2. used' \in [Entry -> BOOLEAN] /\ n_pages' \in [Entry -> 0 .. DataNPages]
    BY <1>3 DEF MergeWrites
  <2>3. link' \in [next : [Node -> Target], prev : [Node -> Target]]
    BY <1>4 DEF Filed, Links
  <2>4. capacity' \in Int
    <3>1. r[3] \in Int
      BY <1>1, RunFacts DEF Runs
    <3> QED
      BY <3>1, <1>1 DEF deallocate_page, TypeOK
  <2>5. held' \subseteq Run /\ heads' \subseteq Page /\ FreeRuns' \subseteq Run
    <3>1. OtherHeads(r) \subseteq Page
      BY <1>1 DEF OtherHeads, TypeOK
    <3> QED
      BY <3>1, <1>1, <1>3 DEF RunsMerged, TypeOK
  <2> QED
    BY <2>1, <2>2, <2>3, <2>4, <2>5 DEF TypeOK, Target
<1>6. ListsSound'
  BY <1>4, <1>5, FiledIsLinked DEF TypeOK
<1>7. Tiled' /\ BoundaryTags' /\ Coalesced'
  BY <1>1, <1>2, MergeTiled, MergeBoundaryTags, MergeCoalesced
<1>8. RequestOK'
  BY DEF deallocate_page, RequestOK
<1> QED
  BY <1>5, <1>6, <1>7, <1>8 DEF IndInv
-----------------------------------------------------------------------------
(* Unmapping an arena.                                                     *)

\* What becomes of the runs: those of the arena are gone, all of them, and the
\* entries of other arenas are kept.
RunsUnmapped(r) ==
    /\ arenas' = arenas \ {r[1]} /\ held' = held \ {r} /\ heads' = OtherHeads(r)
    /\ \A s \in Runs \ GoneRuns(r) : s[1] # r[1] /\ KeepsEdges(s)
    /\ \A g \in OtherHeads(r) : g[1] # r[1] /\ n_pages'[g] = n_pages[g]
    /\ FreeRuns' = FreeRuns \ GoneRuns(r)
    /\ used' \in [Entry -> BOOLEAN] /\ n_pages' \in [Entry -> 0 .. DataNPages]
    /\ \A e \in Entry : e[1] # r[1] => used'[e] = used[e]

\* deallocate_page unmaps an arena only when no other run lies in it.
LEMMA UnmapRuns ==
    ASSUME TypeOK, Tiled, NEW r \in held, Merged(r), deallocate_page_unmap(r)
    PROVE  RunsUnmapped(r)
<1> DEFINE a == r[1]
<1>1. CoalescedIdx(r) = 0 /\ CoalescedLen(r) = DataNPages /\ DataNPages \in Int
  BY ClassFacts DEF deallocate_page_unmap, IsWholeArena
<1>2. ASSUME NEW s \in Runs \ GoneRuns(r)
      PROVE  s[1] # a
  <2>1. /\ s[1] # a \/ s[2] + s[3] <= 0 \/ 0 + DataNPages <= s[2]
        /\ s[2] \in Int /\ s[3] \in Int /\ 1 <= s[3]
    BY <1>1, MergeOthers
  <2>2. 0 <= s[2] /\ s[2] + s[3] <= DataNPages
    BY RunFacts
  <2> QED
    BY <2>1, <2>2, <1>1
<1>3. used \in [Entry -> BOOLEAN] /\ n_pages \in [Entry -> 0 .. DataNPages]
  BY DEF TypeOK
<1>4. /\ used' = Assign(used, {a} \X Meta, FALSE)
      /\ n_pages' = Assign(n_pages, {a} \X Meta, 0)
      /\ arenas' = arenas \ {a} /\ held' = held \ {r} /\ heads' = OtherHeads(r)
  BY DEF deallocate_page_unmap
<1>5. /\ used' \in [Entry -> BOOLEAN] /\ n_pages' \in [Entry -> 0 .. DataNPages]
      /\ \A e \in Entry : e[1] # a => used'[e] = used[e] /\ n_pages'[e] = n_pages[e]
  <2>1. 0 \in 0 .. DataNPages
    BY ClassFacts
  <2>2. \A e \in Entry : e[1] # a => e \notin {a} \X Meta
    OBVIOUS
  <2> HIDE DEF a
  <2> QED
    BY <2>1, <2>2, <1>3, <1>4 DEF Assign
<1>6. ASSUME NEW s \in Runs \ GoneRuns(r)
      PROVE  KeepsEdges(s)
  <2>1. <<s[1], s[2]>> \in Entry /\ <<s[1], s[2] + s[3] - 1>> \in Entry
    <3>1. /\ s[1] \in Arena /\ s[2] \in Int /\ s[3] \in Int /\ 0 <= s[2] /\ 1 <= s[3]
          /\ s[2] + s[3] <= DataNPages
      BY RunFacts DEF Run
    <3> QED
      BY <3>1, <1>1 DEF Entry, Meta
  <2> QED
    BY <2>1, <1>2, <1>5 DEF KeepsEdges
<1>7. ASSUME NEW g \in OtherHeads(r)
      PROVE  g[1] # a /\ n_pages'[g] = n_pages[g]
  <2>1. FreeRun(g) \in Runs \ GoneRuns(r) /\ g \in Entry
    BY MergeOtherHeads, NodeFacts
  <2>2. FreeRun(g)[1] = g[1]
    BY DEF FreeRun
  <2> QED
    BY <2>1, <2>2, <1>2, <1>5
<1>8. FreeRuns' = FreeRuns \ GoneRuns(r)
  <2>1. FreeRuns' = {<<g[1], g[2], n_pages'[g]>> : g \in OtherHeads(r)}
    BY <1>4 DEF FreeRuns
  <2>2. \A g \in OtherHeads(r) : <<g[1], g[2], n_pages'[g]>> = FreeRun(g)
    BY <1>7 DEF FreeRun
  <2>3. FreeRuns' = {FreeRun(g) : g \in OtherHeads(r)}
    BY <2>1, <2>2
  <2> QED
    BY <2>3, OtherFreeRuns
<1> QED
  BY <1>2, <1>4, <1>5, <1>6, <1>7, <1>8 DEF RunsUnmapped

\* Unmapping the arena preserves the inductive invariant.
LEMMA UnmapPreserves ==
    ASSUME IndInv, request = NoRequest, NEW r \in held, deallocate_page_unmap(r)
    PROVE  IndInv'
<1> DEFINE a == r[1]
<1>1. TypeOK /\ Tiled /\ BoundaryTags /\ Coalesced /\ ListsSound /\ RequestOK
  BY DEF IndInv
<1>2. Merged(r)
  BY <1>1, MergeGeometry
<1>3. RunsUnmapped(r)
  BY <1>1, <1>2, UnmapRuns
<1>4. Runs' = Runs \ GoneRuns(r)
  <2>1. \A s \in held : s \in GoneRuns(r) <=> s = r
    BY <1>1, <1>2, GoneHeld DEF GoneRuns
  <2> QED
    BY <2>1, <1>3 DEF RunsUnmapped, Runs
<1>5. Tiled'
  <2>1. \A s \in Runs' : s[1] \in arenas' /\ s[2] + s[3] <= DataNPages
    BY <1>1, <1>3, <1>4 DEF RunsUnmapped, Tiled, IsTiling
  <2>2. \A x, y \in Runs' : \A p \in Data :
           x[1] = y[1] /\ p \in RunPages(x) /\ p \in RunPages(y) => x = y
    BY <1>1, <1>4 DEF Tiled, IsTiling
  <2>3. ASSUME NEW b \in arenas', NEW p \in Data
        PROVE  \E s \in Runs' : s[1] = b /\ p \in RunPages(s)
    <3>1. b \in arenas /\ b # a
      BY <1>3 DEF RunsUnmapped
    <3>2. PICK s \in Runs : s[1] = b /\ p \in RunPages(s)
      BY <1>1, <3>1 DEF Tiled, IsTiling
    <3>3. s \notin GoneRuns(r)
      BY <1>2, <3>1, <3>2 DEF Merged, Within
    <3> QED
      BY <3>2, <3>3, <1>4
  <2>4. held' \cap FreeRuns' = {}
    BY <1>1, <1>3 DEF RunsUnmapped, Tiled
  <2> QED
    BY <2>1, <2>2, <2>3, <2>4 DEF Tiled, IsTiling
<1>6. BoundaryTags'
  <2>1. ASSUME NEW b \in arenas'
        PROVE  used'[<<b, -1>>] /\ used'[<<b, DataNPages>>]
    <3>1. b \in arenas /\ b # a /\ <<b, -1>> \in Entry /\ <<b, DataNPages>> \in Entry
      BY <1>1, <1>3, ArenaAssumption DEF RunsUnmapped, TypeOK, Entry, Meta
    <3> QED
      BY <3>1, <1>1, <1>3 DEF RunsUnmapped, BoundaryTags
  <2>2. ASSUME NEW s \in held'
        PROVE  used'[<<s[1], s[2]>>] /\ used'[<<s[1], s[2] + s[3] - 1>>]
    <3>1. s \in held /\ KeepsEdges(s)
      BY <1>3, <1>4 DEF RunsUnmapped, Runs
    <3> QED
      BY <3>1, <1>1 DEF KeepsEdges, BoundaryTags
  <2>3. ASSUME NEW g \in heads'
        PROVE  LET tail == <<g[1], g[2] + n_pages'[g] - 1>>
               IN  ~used'[g] /\ ~used'[tail] /\ n_pages'[tail] = n_pages'[g]
    <3>1. g \in OtherHeads(r)
      BY <1>3 DEF RunsUnmapped
    <3>2. /\ g \in heads /\ g = <<g[1], g[2]>> /\ n_pages'[g] = n_pages[g]
          /\ FreeRun(g) \in Runs \ GoneRuns(r)
      BY <1>1, <1>2, <1>3, <3>1, MergeOtherHeads DEF RunsUnmapped
    <3>3. KeepsEdges(FreeRun(g))
      BY <1>3, <3>2 DEF RunsUnmapped
    <3>4. FreeRun(g)[1] = g[1] /\ FreeRun(g)[2] = g[2] /\ FreeRun(g)[3] = n_pages[g]
      BY DEF FreeRun
    <3> QED
      BY <1>1, <3>2, <3>3, <3>4 DEF KeepsEdges, BoundaryTags
  <2> QED
    BY <2>1, <2>2, <2>3 DEF BoundaryTags
<1>7. Coalesced'
  BY <1>1, <1>3 DEF RunsUnmapped, Coalesced
<1>8. Filed(link', Node, Target, List, List \cup heads', NextClassOfNode)
  <2>1. Filed(Unlinked(r), Node, Target, List, List \cup OtherHeads(r), ClassOfNode)
    BY <1>1, <1>2, UnlinkedFiled
  <2>2. \A g \in OtherHeads(r) : g \in Entry /\ g \in Node /\ g \notin List /\ g[1] # a
    BY <1>1, <1>2, <1>3, MergeOtherHeads, NodeFacts DEF RunsUnmapped
  <2>3. ({a} \X Meta) \cap (List \cup OtherHeads(r)) = {}
    <3>1. a \in Arena
      BY <1>1, <1>2 DEF Merged, TypeOK
    <3>2. {a} \X Meta \subseteq Entry
      BY <3>1 DEF Entry
    <3> HIDE DEF a
    <3> QED
      BY <2>2, <3>2, NodeFacts
  <2>4. \A y \in List \cup OtherHeads(r) : NextClassOfNode[y] = ClassOfNode[y]
    <3>1. \A y \in List : y \in Node
      BY NodeFacts
    <3> QED
      BY <3>1, <2>2, <1>3 DEF RunsUnmapped, NextClassOfNode, ClassOfNode, ClassOf
  <2>5. Filed(Unlinked(r), Node, Target, List, List \cup OtherHeads(r), NextClassOfNode)
    BY <2>1, <2>4, RelabelFiled
  <2>6. link' = ForgetLinks(Unlinked(r), {a} \X Meta)
    BY DEF deallocate_page_unmap
  <2>7. List \cup OtherHeads(r) \in SUBSET Node
    BY <2>2, NodeFacts
  <2>8. Filed(link', Node, Target, List, List \cup OtherHeads(r), NextClassOfNode)
    <3> HIDE DEF a
    <3> QED
      BY <2>3, <2>5, <2>6, <2>7, ForgetFiled
  <2> QED
    BY <2>8, <1>3 DEF RunsUnmapped
<1>9. TypeOK'
  <2>1. arenas' \subseteq Arena /\ request' \in Request
    BY <1>1 DEF deallocate_page_unmap, TypeOK
  <2>2. link' \in [next : [Node -> Target], prev : [Node -> Target]]
    BY <1>8 DEF Filed, Links
  <2>3. capacity' \in Int
    <3>1. r[3] \in Int /\ ReclaimedNPages(r) \in Int
      BY <1>1, RunFacts, ArenaAssumption DEF Runs, ReclaimedNPages
    <3> QED
      BY <3>1, <1>1 DEF deallocate_page_unmap, TypeOK
  <2>4. held' \subseteq Run /\ heads' \subseteq Page /\ FreeRuns' \subseteq Run
    BY <1>1, <1>3 DEF RunsUnmapped, OtherHeads, TypeOK
  <2> QED
    BY <2>1, <2>2, <2>3, <2>4, <1>3 DEF RunsUnmapped, TypeOK, Target
<1>10. ListsSound'
  BY <1>8, <1>9, FiledIsLinked DEF TypeOK
<1>11. RequestOK'
  BY DEF deallocate_page_unmap, RequestOK
<1> QED
  BY <1>5, <1>6, <1>7, <1>9, <1>10, <1>11 DEF IndInv
-----------------------------------------------------------------------------
(* The inductive invariant.                                                *)

\* Before the first call there is no arena and every list is empty.
LEMMA InitInd == Init => IndInv
<1> SUFFICES ASSUME Init
             PROVE  IndInv
  OBVIOUS
<1>1. Runs = {} /\ FreeRuns = {} /\ held = {} /\ heads = {} /\ arenas = {}
  BY DEF Init, Runs, FreeRuns
<1>2. TypeOK
  <2>1. used \in [Entry -> BOOLEAN] /\ request \in Request /\ capacity \in Int
    BY RequestAssumption, CapacityAssumption DEF Init, NoRequest, Request
  <2>2. n_pages \in [Entry -> 0 .. DataNPages]
    BY ClassFacts DEF Init
  <2>3. link \in [next : [Node -> Node \cup {NullLink}],
                  prev : [Node -> Node \cup {NullLink}]]
    BY NodeFacts DEF Init
  <2> QED
    BY <1>1, <2>1, <2>2, <2>3 DEF TypeOK
<1>3. Tiled
  BY <1>1 DEF Tiled, IsTiling
<1>4. BoundaryTags /\ Coalesced
  BY <1>1 DEF BoundaryTags, Coalesced
<1>5. ListsSound
  <2>1. \A x \in List : x \in Node /\ link.next[x] = x /\ link.prev[x] = x
    BY NodeFacts DEF Init
  <2>2. ListsLinked
    BY <1>1, <2>1 DEF ListsLinked, LinkedOver
  <2>3. [x \in List |-> 0] \in [List -> Nat]
    OBVIOUS
  <2>4. Ranked(link, List \cup heads, List)
    BY <1>1, <2>3 DEF Ranked
  <2> QED
    BY <2>2, <2>4 DEF ListsSound
<1>6. RequestOK
  BY DEF Init, RequestOK
<1> QED
  BY <1>2, <1>3, <1>4, <1>5, <1>6 DEF IndInv

\* A step that writes no memory.
LEMMA MemoryUnchanged ==
    ASSUME IndInv, UNCHANGED <<arenas, used, n_pages, link, capacity, held, heads>>,
           request' \in Request, RequestOK'
    PROVE  IndInv'
<1>1. FreeRuns' = FreeRuns /\ Runs' = Runs
  BY DEF FreeRuns, Runs
<1>2. TypeOK'
  BY <1>1 DEF IndInv, TypeOK
<1>3. Tiled' /\ BoundaryTags' /\ Coalesced'
  BY <1>1 DEF IndInv, Tiled, IsTiling, BoundaryTags, Coalesced
<1>4. ListsSound'
  BY DEF IndInv, ListsSound, ListsLinked, LinkedOver, ClassOf, Ranked
<1> QED
  BY <1>2, <1>3, <1>4 DEF IndInv

\* Every step preserves the invariant.
LEMMA NextInd == IndInv /\ [Next]_vars => IndInv'
<1> SUFFICES ASSUME IndInv, [Next]_vars
             PROVE  IndInv'
  OBVIOUS
<1>1. ASSUME NEW n \in 1 .. MaxNPages, NEW al \in PageAligns, n >= al,
             call_allocate_page(n, al)
      PROVE  IndInv'
  <2>1. request' = [n |-> n, align |-> al, fresh |-> FALSE]
    BY <1>1 DEF call_allocate_page
  <2>2. request' \in Request
    <3>1. n \in 0 .. MaxNPages
      BY RequestAssumption
    <3> QED
      BY <2>1, <3>1 DEF Request
  <2>3. RequestOK'
    BY <1>1, <2>1 DEF RequestOK
  <2> QED
    BY <1>1, <2>2, <2>3, MemoryUnchanged DEF call_allocate_page
<1>2. ASSUME allocate_page
      PROVE  IndInv'
  <2>1. PICK c \in Class : /\ Serves(c, request.n, request.align)
                           /\ take_pages(c, request.n, request.align)
    BY <1>2 DEF allocate_page
  <2>2. request # NoRequest /\ Chosen(c) /\ request' = NoRequest /\ arenas' = arenas
    BY <1>2, <2>1 DEF allocate_page, Chosen
  <2> QED
    BY <2>1, <2>2, TakePreserves
<1>3. ASSUME NEW a \in Arena, create(a) \/ create_throws(a)
      PROVE  IndInv'
  BY <1>3, ConstructPreserves DEF create, create_throws
<1>4. ASSUME create_fails
      PROVE  IndInv'
  <2>1. request' \in Request /\ RequestOK'
    BY <1>4, RequestAssumption DEF create_fails, RequestOK, NoRequest, Request
  <2> QED
    BY <1>4, <2>1, MemoryUnchanged DEF create_fails
<1>5. ASSUME allocate_page_fresh
      PROVE  IndInv'
  <2>1. /\ request # NoRequest /\ Chosen(NPageClasses - 1) /\ NPageClasses - 1 \in Class
        /\ take_pages(NPageClasses - 1, request.n, request.align)
        /\ request' = NoRequest /\ arenas' = arenas
    BY <1>5, ClassFacts DEF allocate_page_fresh, Chosen, NoRequest
  <2> QED
    BY <2>1, TakePreserves
<1>6. ASSUME request = NoRequest, NEW r \in held,
             deallocate_page(r) \/ deallocate_page_unmap(r)
      PROVE  IndInv'
  BY <1>6, MergePreserves, UnmapPreserves
<1>7. CASE UNCHANGED vars
  <2>1. request' \in Request /\ RequestOK'
    BY <1>7 DEF vars, IndInv, TypeOK, RequestOK, FreshFits, IsEmpty, First
  <2> QED
    BY <1>7, <2>1, MemoryUnchanged DEF vars
<1> QED
  BY <1>1, <1>2, <1>3, <1>4, <1>5, <1>6, <1>7 DEF Next

\* The invariant holds in every state.
LEMMA IndInvHolds == Spec => []IndInv
<1>1. Init => IndInv
  BY InitInd
<1>2. IndInv /\ [Next]_vars => IndInv'
  BY NextInd
<1> QED
  BY <1>1, <1>2, PTL DEF Spec

\* What the runs check of it: the runs tile the arenas, the boundary tags tell
\* the truth, neighbours are coalesced and the lists are linked.
THEOREM IInvHolds == Spec => []IInv
<1>1. IndInv => IInv
  BY DEF IndInv, ListsSound, IInv
<1> QED
  BY <1>1, IndInvHolds, PTL
-----------------------------------------------------------------------------
(* What follows from it.                                                   *)

\* Pages are never handed out twice and never lost.
THEOREM TiledHolds == Spec => []Tiled
<1>1. IndInv => Tiled
  BY DEF IndInv
<1> QED
  BY <1>1, IndInvHolds, PTL

\* try_allocate never cuts before the start of the run that it has chosen, and
\* what allocate_page asserts after Arena::create is true.
THEOREM ServedRunFitsHolds == Spec => []ServedRunFits
<1>1. IndInv => ServedRunFits
  <2> SUFFICES ASSUME IndInv, request # NoRequest
               PROVE  /\ request.fresh => FreshFits
                      /\ \A c \in Class : Chosen(c) =>
                            AlignedIdx(First(c), request.n, request.align) >= First(c)[2]
    BY DEF ServedRunFits, Chosen
  <2>1. request.fresh => FreshFits
    BY DEF IndInv, RequestOK
  <2>2. ASSUME NEW c \in Class, Chosen(c)
        PROVE  AlignedIdx(First(c), request.n, request.align) >= First(c)[2]
    <3> DEFINE h == First(c)
               i == AlignedIdx(h, request.n, request.align)
    <3>1. /\ h \in heads /\ request.n \in 1 .. DataNPages /\ i - h[2] \in Nat
          /\ Padding(h, request.n, request.align) \in Nat
      BY <2>2, CutGeometry DEF IndInv
    <3>2. h[2] \in Int /\ n_pages[h] \in Int /\ request.n \in Int
      <4>1. h[2] \in Data /\ n_pages[h] \in 1 .. DataNPages
        BY <3>1, HeadFacts DEF IndInv
      <4> QED
        BY <3>1, <4>1, ClassFacts DEF Data
    <3>3. i \in Int
      BY <3>1, <3>2 DEF AlignedIdx
    <3> HIDE DEF i
    <3> QED
      BY <3>1, <3>2, <3>3 DEF i
  <2> QED
    BY <2>1, <2>2
<1> QED
  BY <1>1, IndInvHolds, PTL

\* Which runs a step hands out: at most the one that take_pages cuts, which has
\* the length and the alignment that were asked for.
LEMMA TakeHandsOut ==
    ASSUME IndInv, request # NoRequest, NEW c \in Class, Chosen(c),
           take_pages(c, request.n, request.align)
    PROVE  \A r \in held' \ held :
              r[3] = request.n /\ (r[2] + MetadataNPages) % request.align = 0
<1> DEFINE n == request.n
           al == request.align
           h == First(c)
           x == h[2] + n_pages[h] - n + MetadataNPages
<1>1. TypeOK /\ Tiled /\ ListsSound /\ RequestOK
  BY DEF IndInv
<1>2. PICK left \in Nat, padding \in Nat : TakeStep(c, n, al, left, padding)
  BY ChosenIsTaken
<1>3. n \in Int /\ al \in Nat \ {0}
  <2>1. n \in 1 .. DataNPages
    BY ChosenIsTaken
  <2>2. al \in PageAligns
    BY <1>1 DEF RequestOK
  <2>3. n \in Int
    BY <2>1, ClassFacts
  <2>4. PageAligns \subseteq Nat \ {0}
    BY RequestAssumption
  <2> QED
    BY <2>2, <2>3, <2>4
<1>4. held' = held \cup {NewRun(c, n, left)}
  <2>1. RunsTaken(c, n, left, padding)
    BY <1>1, <1>2, <1>3, TakeRuns
  <2> QED
    BY <2>1 DEF RunsTaken
<1>5. h[2] \in Int /\ n_pages[h] \in Int /\ MetadataNPages \in Int
  BY <1>1, <1>2, <1>3, TakePieces, ArenaAssumption DEF TakeStep
<1>6. x \in Int
  BY <1>3, <1>5
<1>7. h[2] + left + MetadataNPages = x - (x % al)
  <2>1. h[2] + left = AlignedIdx(h, n, al) /\ Padding(h, n, al) = x % al
    BY <1>2 DEF TakeStep, Padding
  <2>2. x % al \in Int
    BY <1>3, <1>6
  <2>3. x = h[2] + n_pages[h] - n + MetadataNPages
    OBVIOUS
  <2> HIDE DEF x, n, al, h
  <2>4. AlignedIdx(h, n, al) = h[2] + n_pages[h] - n - (x % al)
    BY <2>1 DEF AlignedIdx
  <2> QED
    BY <2>1, <2>2, <2>3, <2>4, <1>3, <1>5
<1>8. (x - (x % al)) % al = 0
  <2> HIDE DEF x, al
  <2> QED
    BY <1>3, <1>6
<1>9. NewRun(c, n, left)[3] = n /\ NewRun(c, n, left)[2] = h[2] + left
  BY DEF NewRun
<1> QED
  BY <1>4, <1>7, <1>8, <1>9

\* Every run handed out is as long and as aligned as the caller asked.
THEOREM HandsOutAsAskedHolds == Spec => HandsOutAsAsked
<1> DEFINE AsAsked == \A r \in held' \ held :
              r[3] = request.n /\ (r[2] + MetadataNPages) % request.align = 0
<1>1. IndInv /\ [Next]_vars => [AsAsked]_vars
  <2> SUFFICES ASSUME IndInv, [Next]_vars
               PROVE  AsAsked \/ UNCHANGED vars
    OBVIOUS
  <2>1. ASSUME allocate_page
        PROVE  AsAsked
    <3>1. PICK c \in Class : /\ Serves(c, request.n, request.align)
                             /\ take_pages(c, request.n, request.align)
      BY <2>1 DEF allocate_page
    <3>2. request # NoRequest /\ Chosen(c)
      BY <2>1, <3>1 DEF allocate_page, Chosen
    <3> QED
      BY <3>1, <3>2, TakeHandsOut
  <2>2. ASSUME allocate_page_fresh
        PROVE  AsAsked
    <3>1. /\ request # NoRequest /\ Chosen(NPageClasses - 1) /\ NPageClasses - 1 \in Class
          /\ take_pages(NPageClasses - 1, request.n, request.align)
      BY <2>2, ClassFacts DEF allocate_page_fresh, Chosen, NoRequest
    <3> QED
      BY <3>1, TakeHandsOut
  <2>3. ASSUME held' \subseteq held
        PROVE  AsAsked
    BY <2>3
  <2> QED
    BY <2>1, <2>2, <2>3 DEF Next, vars, call_allocate_page, create, create_throws,
                            construct_arena, create_fails, deallocate_page,
                            deallocate_page_unmap
<1> QED
  BY <1>1, IndInvHolds, PTL DEF Spec, HandsOutAsAsked
-----------------------------------------------------------------------------
(* The page allocator implements the abstract heap.                        *)

\* take_pages allocates an extent of a mapped region.
LEMMA TakeIsAlloc ==
    ASSUME IndInv, request # NoRequest, NEW c \in Class, Chosen(c),
           take_pages(c, request.n, request.align), arenas' = arenas
    PROVE  Heap!Alloc
<1> DEFINE n == request.n
           al == request.align
           h == First(c)
<1>1. TypeOK /\ Tiled
  BY DEF IndInv
<1>2. PICK left \in Nat, padding \in Nat : TakeStep(c, n, al, left, padding)
  BY ChosenIsTaken
<1>3. n \in Int
  BY ChosenIsTaken, ClassFacts
<1> DEFINE e == NewRun(c, n, left)
<1> HIDE DEF n, al
<1>4. held' = held \cup {e}
  <2>1. RunsTaken(c, n, left, padding)
    BY <1>1, <1>2, <1>3, TakeRuns
  <2> QED
    BY <2>1 DEF RunsTaken
<1>5. Cut(c, n, left, padding)
  BY <1>2 DEF TakeStep
<1>6. /\ e \in Run /\ e[1] = h[1] /\ e[1] \in arenas /\ OldRun(c) \in FreeRuns
      /\ e[2] \in Int /\ e[3] \in Int
      /\ h[2] \in Int /\ n_pages[h] \in Int /\ h[2] + n_pages[h] <= DataNPages
      /\ h[2] <= e[2] /\ e[2] + e[3] <= h[2] + n_pages[h] /\ DataNPages \in Int
  BY <1>1, <1>3, <1>5, TakePieces
<1>7. ASSUME NEW f \in held
      PROVE  ~Heap!Overlap(e, f)
  <2>1. f \in Runs /\ f # OldRun(c)
    BY <1>1, <1>6 DEF Tiled, Runs
  <2>2. /\ f[1] # h[1] \/ f[2] + f[3] <= h[2] \/ h[2] + n_pages[h] <= f[2]
        /\ f[2] \in Int /\ f[3] \in Int
    BY <1>1, <1>3, <1>5, <2>1, TakeOthers
  <2>3. ASSUME e[1] = f[1], NEW k \in e[2] .. (e[2] + e[3] - 1),
               k \in f[2] .. (f[2] + f[3] - 1)
        PROVE  FALSE
    <3> HIDE DEF e, h
    <3> QED
      BY <1>6, <2>2, <2>3
  <2> QED
    BY <2>3 DEF Heap!Overlap, Heap!Units
<1>8. e \in Heap!Extent /\ e[2] + e[3] <= DataNPages
  BY <1>6 DEF Run, Data, Heap!Extent
<1>9. arenas' = arenas \cup {e[1]}
  BY <1>6
<1> HIDE DEF e
<1> QED
  BY <1>4, <1>7, <1>8, <1>9 DEF Heap!Alloc

\* Every step allocates or frees an extent, or maps a region, or does nothing
\* that the abstract heap sees.
LEMMA StepImplements == IndInv /\ [Next]_vars => [Heap!Next]_Heap!heapVars
<1> SUFFICES ASSUME IndInv, [Next]_vars
             PROVE  Heap!Next \/ UNCHANGED <<arenas, held>>
  BY DEF Heap!heapVars
<1>1. ASSUME allocate_page
      PROVE  Heap!Next
  <2>1. PICK c \in Class : /\ Serves(c, request.n, request.align)
                           /\ take_pages(c, request.n, request.align)
    BY <1>1 DEF allocate_page
  <2>2. request # NoRequest /\ Chosen(c) /\ arenas' = arenas
    BY <1>1, <2>1 DEF allocate_page, Chosen
  <2> QED
    BY <2>1, <2>2, TakeIsAlloc DEF Heap!Next
<1>2. ASSUME allocate_page_fresh
      PROVE  Heap!Next
  <2>1. /\ request # NoRequest /\ Chosen(NPageClasses - 1) /\ NPageClasses - 1 \in Class
        /\ take_pages(NPageClasses - 1, request.n, request.align) /\ arenas' = arenas
    BY <1>2, ClassFacts DEF allocate_page_fresh, Chosen, NoRequest
  <2> QED
    BY <2>1, TakeIsAlloc DEF Heap!Next
<1>3. ASSUME NEW a \in Arena, create(a) \/ create_throws(a)
      PROVE  Heap!Next
  BY <1>3 DEF create, create_throws, construct_arena, Heap!Next, Heap!Map
<1>4. ASSUME NEW r \in held, deallocate_page(r)
      PROVE  Heap!Next
  BY <1>4 DEF deallocate_page, Heap!Next, Heap!Free
<1>5. ASSUME NEW r \in held, deallocate_page_unmap(r)
      PROVE  Heap!Next
  <2>1. TypeOK /\ Tiled /\ BoundaryTags
    BY DEF IndInv
  <2>2. Merged(r)
    BY <2>1, MergeGeometry
  <2>3. RunsUnmapped(r)
    BY <1>5, <2>1, <2>2, UnmapRuns
  <2>4. \A f \in held' : f[1] # r[1]
    <3>1. \A f \in held' : f \in Runs \ GoneRuns(r)
      BY <2>1, <2>2, <2>3, GoneHeld DEF RunsUnmapped, Runs
    <3> QED
      BY <3>1, <2>3 DEF RunsUnmapped
  <2> QED
    BY <2>3, <2>4 DEF RunsUnmapped, Heap!Next, Heap!Free
<1>6. CASE UNCHANGED <<arenas, held>>
  BY <1>6
<1> QED
  BY <1>1, <1>2, <1>3, <1>4, <1>5, <1>6
     DEF Next, vars, call_allocate_page, create_fails

\* The page allocator implements the abstract heap: what it hands out lies in
\* mapped arenas and overlaps nothing still held, and an arena is unmapped only
\* when nothing of it is held.
THEOREM ImplementsHeapHolds == Spec => ImplementsHeap
<1>1. Init => Heap!Init
  BY DEF Init, Heap!Init
<1>2. IndInv /\ [Next]_vars => [Heap!Next]_Heap!heapVars
  BY StepImplements
<1> QED
  BY <1>1, <1>2, IndInvHolds, PTL DEF Spec, ImplementsHeap, Heap!Spec
-----------------------------------------------------------------------------
(* The free lists hold exactly the free runs.                              *)

\* The list of class c with its sentinel.
Filing(c) == {free_pages(c)} \cup {h \in heads : FreeClass[n_pages[h]] = c}

\* It is a circle of its own.
LEMMA FilingIsList ==
    ASSUME IndInv, NEW c \in Class
    PROVE  /\ LinkedOver(link, Filing(c)) /\ Ranked(link, Filing(c), {free_pages(c)})
           /\ Filing(c) \ {free_pages(c)} = {h \in heads : FreeClass[n_pages[h]] = c}
<1> DEFINE S == List \cup heads
           T == Filing(c)
<1>1. TypeOK /\ ListsSound
  BY DEF IndInv
<1>2. T = {x \in S : ClassOf(x) = c}
  <2>1. \A h \in heads : h \notin List
    BY <1>1, NodeFacts DEF TypeOK
  <2>2. \A x \in List : x[2] = c <=> x = free_pages(c)
    BY DEF List, free_pages
  <2>3. free_pages(c) \in List
    BY NodeFacts
  <2> QED
    BY <2>1, <2>2, <2>3 DEF ClassOf, Filing
<1>3. /\ LinkedOver(link, S) /\ \A x \in S : ClassOf(link.next[x]) = ClassOf(x)
  BY <1>1 DEF ListsSound, ListsLinked
<1>4. \A x \in S : ClassOf(link.prev[x]) = ClassOf(x)
  BY <1>3 DEF LinkedOver
<1>5. LinkedOver(link, T)
  <2> HIDE DEF S, T
  <2> QED
    BY <1>2, <1>3, <1>4 DEF LinkedOver
<1>6. Ranked(link, T, {free_pages(c)})
  <2>1. PICK d \in [S -> Nat] : \A x \in S \ List : d[link.prev[x]] < d[x]
    BY <1>1 DEF ListsSound, Ranked
  <2>2. \A x \in T \ {free_pages(c)} : x \in S \ List
    BY <1>1, NodeFacts DEF TypeOK, Filing
  <2>3. \A x \in T : link.prev[x] \in T
    BY <1>5 DEF LinkedOver
  <2>4. [x \in T |-> d[x]] \in [T -> Nat]
    BY <1>2
  <2> HIDE DEF T
  <2> QED
    BY <2>1, <2>2, <2>3, <2>4 DEF Ranked
<1>7. free_pages(c) \notin heads
  BY <1>1, NodeFacts DEF TypeOK
<1> QED
  BY <1>5, <1>6, <1>7 DEF Filing

\* Every list is what a walk from its sentinel shows.
LEMMA ListIsExact ==
    ASSUME IndInv, NEW c \in Class
    PROVE  /\ WellLinked(link, free_pages(c), Cardinality(Page))
           /\ Elements(link, free_pages(c), Cardinality(Page))
                 = {h \in heads : FreeClass[n_pages[h]] = c}
<1>1. /\ LinkedOver(link, Filing(c)) /\ Ranked(link, Filing(c), {free_pages(c)})
      /\ Filing(c) \ {free_pages(c)} = {h \in heads : FreeClass[n_pages[h]] = c}
  BY FilingIsList
<1>2. IsFiniteSet(Page) /\ Cardinality(Page) \in Nat
  <2>1. IsFiniteSet(Data)
    BY ClassFacts, FS_Interval DEF Data
  <2> QED
    BY <2>1, ArenaAssumption, FS_Product, FS_CardinalityType DEF Page
<1>3. Filing(c) \ {free_pages(c)} \in SUBSET Page
  BY <1>1 DEF IndInv, TypeOK
<1>4. /\ IsFiniteSet(Filing(c) \ {free_pages(c)})
      /\ Cardinality(Filing(c) \ {free_pages(c)}) <= Cardinality(Page)
  BY <1>2, <1>3, FS_Subset
<1>5. IsFiniteSet(Filing(c)) /\ free_pages(c) \in Filing(c)
  <2>1. Filing(c) = (Filing(c) \ {free_pages(c)}) \cup {free_pages(c)}
    BY DEF Filing
  <2> QED
    BY <2>1, <1>4, FS_AddElement
<1> QED
  BY <1>1, <1>2, <1>4, <1>5, RankedListIsWalked

-----------------------------------------------------------------------------
(* No run that would serve a request is overlooked.                        *)

\* If no class serves a request, every list of the class that it is rounded up to
\* or of a larger one is empty.
LEMMA UnservedIsEmpty ==
    ASSUME IndInv, NoRunServes, NEW d \in Class,
           d >= AllocClass[request.n + request.align - 1]
    PROVE  IsEmpty(d)
<1> DEFINE n == request.n
           al == request.align
           c == AllocClass[n + al - 1]
           Busy == {e \in Nat : e \in Class /\ e >= c /\ ~IsEmpty(e)}
<1> SUFFICES ASSUME ~IsEmpty(d)
             PROVE  FALSE
  OBVIOUS
<1>1. PICK e \in Busy : \A f \in Busy : e <= f
  <2>1. d \in Nat
    BY ClassFacts DEF Class
  <2>2. Busy \in SUBSET Nat /\ Busy # {}
    BY <2>1
  <2> HIDE DEF Busy
  <2> QED
    BY <2>2, LeastNumber
<1>2. n \in 1 .. MaxNPages /\ al \in PageAligns /\ al \in Nat \ {0}
  BY RequestAssumption DEF NoRunServes, IndInv, RequestOK
<1>3. /\ n \in 1 .. ClassSize[NPageClasses - 1]
      /\ n + al - 1 \in 1 .. ClassSize[NPageClasses - 1]
  <2>1. MaxNPages + al - 1 <= ClassSize[NPageClasses - 1] /\ MaxNPages \in Int
    BY <1>2, RequestAssumption
  <2>2. ClassSize[NPageClasses - 1] \in Int
    BY ClassFacts
  <2> QED
    BY <1>2, <2>1, <2>2
<1>4. c \in Class /\ AllocClass[n] \in Class
  <2>1. AllocClass \in [1 .. ClassSize[NPageClasses - 1] -> Class]
    BY ClassAssumption
  <2> QED
    BY <1>3, <2>1
<1>5. ~(al # 1 /\ FitsAligned(AllocClass[n], n, al))
  BY <1>4 DEF NoRunServes, Serves
<1>6. \A f \in c .. (e - 1) : IsEmpty(f)
  <2> SUFFICES ASSUME NEW f \in c .. (e - 1), ~IsEmpty(f)
               PROVE  FALSE
    OBVIOUS
  <2>1. c \in Int /\ 0 <= c /\ e \in Int /\ e <= NPageClasses - 1
    BY <1>1, <1>4, ClassFacts
  <2>2. f \in Nat /\ f \in Class /\ f >= c /\ f < e
    BY <2>1, ClassFacts DEF Class
  <2>3. f \in Busy
    BY <2>2
  <2> QED
    BY <1>1, <2>1, <2>2, <2>3
<1>7. Serves(e, n, al)
  BY <1>1, <1>5, <1>6 DEF Serves
<1> QED
  BY <1>1, <1>7 DEF NoRunServes

\* A request that is being served asks for a size that has a class.
LEMMA AskedHasClass ==
    ASSUME IndInv, NoRunServes
    PROVE  AllocClass[request.n + request.align - 1] \in Class
<1> DEFINE m == request.n + request.align - 1
<1>1. request.n \in 1 .. MaxNPages /\ request.align \in PageAligns
  BY DEF NoRunServes, IndInv, RequestOK
<1>2. MaxNPages + request.align - 1 <= ClassSize[NPageClasses - 1]
  BY <1>1, RequestAssumption
<1>3. MaxNPages \in Int /\ request.align \in Nat \ {0}
  <2>1. PageAligns \subseteq Nat \ {0} /\ MaxNPages \in Nat \ {0}
    BY RequestAssumption
  <2>2. request.align \in Nat \ {0}
    BY <1>1, <2>1, Zenon
  <2>3. MaxNPages \in Int
    BY <2>1
  <2> QED
    BY <2>2, <2>3
<1>4. m \in 1 .. ClassSize[NPageClasses - 1]
  BY <1>1, <1>2, <1>3, ClassFacts
<1>5. AllocClass \in [1 .. ClassSize[NPageClasses - 1] -> Class]
  BY ClassAssumption
<1> QED
  BY <1>4, <1>5

\* The list of a class that has a free run is not empty.
LEMMA RunIsListed ==
    ASSUME IndInv, NEW h \in heads
    PROVE  FreeClass[n_pages[h]] \in Class /\ ~IsEmpty(FreeClass[n_pages[h]])
<1> DEFINE d == FreeClass[n_pages[h]]
<1>1. n_pages[h] \in 1 .. DataNPages
  BY HeadFacts DEF IndInv
<1>2. d \in Class
  BY <1>1, ClassAssumption
<1>3. /\ LinkedOver(link, Filing(d)) /\ Ranked(link, Filing(d), {free_pages(d)})
      /\ Filing(d) \ {free_pages(d)} = {g \in heads : FreeClass[n_pages[g]] = d}
  BY <1>2, FilingIsList
<1>4. h \in Filing(d) \ {free_pages(d)} /\ free_pages(d) \in Filing(d)
  BY <1>3 DEF Filing
<1> HIDE DEF d
<1>5. link.next[free_pages(d)] # free_pages(d)
  BY <1>3, <1>4, RankedListHasFirst
<1> QED
  BY <1>2, <1>5 DEF IsEmpty, First, d

\* A new arena is mapped only if no free run is as large as the class that the
\* request and its alignment are rounded up to.
THEOREM MapsOnlyWhenNeededHolds == Spec => MapsOnlyWhenNeeded
<1> DEFINE Needed == \A a \in arenas' \ arenas, h \in heads :
              n_pages[h] < ClassSize[AllocClass[request.n + request.align - 1]]
<1>1. IndInv /\ [Next]_vars => [Needed]_vars
  <2> SUFFICES ASSUME IndInv, [Next]_vars
               PROVE  Needed \/ UNCHANGED vars
    OBVIOUS
  <2>1. ASSUME NEW a \in Arena, construct_arena(a)
        PROVE  Needed
    <3> DEFINE m == request.n + request.align - 1
    <3> SUFFICES ASSUME NEW h \in heads, ~(n_pages[h] < ClassSize[AllocClass[m]])
                 PROVE  FALSE
      OBVIOUS
    <3> DEFINE d == FreeClass[n_pages[h]]
    <3>1. NoRunServes /\ n_pages[h] \in 1 .. DataNPages
      BY <2>1, HeadFacts DEF construct_arena, IndInv
    <3>2. AllocClass[m] \in Class
      BY <3>1, AskedHasClass
    <3>3. d \in Class /\ AllocClass[m] <= d
      <4>1. ClassSize[AllocClass[m]] \in Int
        BY <3>2, ClassFacts
      <4>2. n_pages[h] \in Int
        BY <3>1, ClassFacts
      <4>3. ClassSize[AllocClass[m]] <= n_pages[h]
        BY <4>1, <4>2
      <4> QED
        BY <3>1, <3>2, <4>3, ClassFacts
    <3>4. IsEmpty(d)
      <4>1. d >= AllocClass[m]
        BY <3>2, <3>3, ClassFacts
      <4> QED
        BY <3>1, <3>3, <4>1, UnservedIsEmpty
    <3> QED
      BY <3>4, RunIsListed
  <2>2. ASSUME arenas' \subseteq arenas
        PROVE  Needed
    BY <2>2
  <2> QED
    BY <2>1, <2>2 DEF Next, vars, call_allocate_page, allocate_page, allocate_page_fresh,
                      create, create_throws, create_fails, deallocate_page, deallocate_page_unmap
<1> QED
  BY <1>1, IndInvHolds, PTL DEF Spec, MapsOnlyWhenNeeded
-----------------------------------------------------------------------------
(* Idle arenas.                                                            *)

\* There is at most one idle arena; while the cut from a fresh arena is pending,
\* it is that one, and it is first in the last list.
IdleOnce ==
    /\ OneIdleArena
    /\ request.fresh => \A a \in IdleArenas : First(NPageClasses - 1) = <<a, 0>>

\* An arena of which nothing is held, and whose free runs are coalesced, is one
\* free run.
LEMMA OneRun ==
    ASSUME NEW R \in SUBSET Run, NEW A, IsTiling(R, A), NEW a \in A,
           \A r, s \in R : r[1] = a /\ s[1] = a => r[2] + r[3] # s[2]
    PROVE  \A r \in R : r[1] = a => r[2] = 0 /\ r[3] = DataNPages
<1>1. DataNPages \in Int /\ 1 <= DataNPages
  BY ClassFacts
<1>2. \A r \in R : r[2] \in Int /\ r[3] \in Int /\ 0 <= r[2] /\ 1 <= r[3]
                   /\ r[2] + r[3] <= DataNPages
  BY <1>1 DEF IsTiling, Run, Data
<1>3. ASSUME NEW p \in Data
      PROVE  \E r \in R : r[1] = a /\ r[2] <= p /\ p < r[2] + r[3]
  BY <1>1, <1>2 DEF IsTiling, RunPages, Data
<1>4. ASSUME NEW r \in R, NEW s \in R, NEW p \in Data, r[1] = s[1],
             r[2] <= p, p < r[2] + r[3], s[2] <= p, p < s[2] + s[3]
      PROVE  r = s
  <2>1. p \in RunPages(r) /\ p \in RunPages(s)
    BY <1>1, <1>2, <1>4 DEF RunPages, Data
  <2> QED
    BY <2>1, <1>4 DEF IsTiling
<1>5. ASSUME NEW r \in R, r[1] = a
      PROVE  r[2] = 0
  <2> SUFFICES ASSUME r[2] # 0
               PROVE  FALSE
    OBVIOUS
  <2>1. r[2] - 1 \in Data /\ r[2] \in Data
    BY <1>1, <1>2 DEF Data
  <2>2. PICK s \in R : s[1] = a /\ s[2] <= r[2] - 1 /\ r[2] - 1 < s[2] + s[3]
    BY <1>3, <2>1
  <2>3. s[2] + s[3] > r[2]
    BY <1>2, <1>5, <2>2
  <2>4. r = s
    BY <1>2, <1>4, <1>5, <2>1, <2>2, <2>3
  <2> QED
    BY <1>2, <2>2, <2>4
<1>6. ASSUME NEW r \in R, r[1] = a
      PROVE  r[3] = DataNPages
  <2> SUFFICES ASSUME r[3] # DataNPages
               PROVE  FALSE
    OBVIOUS
  <2>1. r[2] = 0 /\ r[3] \in Data
    BY <1>1, <1>2, <1>5, <1>6 DEF Data
  <2>2. PICK s \in R : s[1] = a /\ s[2] <= r[3] /\ r[3] < s[2] + s[3]
    BY <1>3, <2>1
  <2>3. s[2] = 0
    BY <1>5, <2>2
  <2>4. 0 \in Data
    BY <1>1 DEF Data
  <2>5. r = s
    BY <1>2, <1>4, <1>6, <2>1, <2>2, <2>3, <2>4
  <2> QED
    BY <1>2, <2>1, <2>2, <2>5
<1> QED
  BY <1>5, <1>6

\* The run coalesced from the last held run of an arena is the whole arena, and
\* that is unmapped at once.
LEMMA MergedIsNotLast ==
    ASSUME IndInv, IndInv', NEW r \in held, deallocate_page(r)
    PROVE  \E s \in held' : s[1] = r[1]
<1> SUFFICES ASSUME \A s \in held' : s[1] # r[1]
             PROVE  FALSE
  OBVIOUS
<1> DEFINE m == <<r[1], CoalescedIdx(r), CoalescedLen(r)>>
<1>1. TypeOK /\ Tiled /\ BoundaryTags /\ TypeOK' /\ Tiled' /\ Coalesced'
  BY DEF IndInv
<1>2. Merged(r)
  BY <1>1, MergeGeometry
<1>3. m \in FreeRuns'
  <2>1. RunsMerged(r)
    BY <1>1, <1>2, MergeRuns
  <2> QED
    BY <2>1 DEF RunsMerged
<1>4. r[1] \in arenas' /\ Runs' \in SUBSET Run /\ IsTiling(Runs', arenas')
  BY <1>1, <1>2 DEF Merged, deallocate_page, TypeOK, Runs, Tiled
<1>5. \A x, y \in Runs' : x[1] = r[1] /\ y[1] = r[1] => x[2] + x[3] # y[2]
  <2>1. \A x \in Runs' : x[1] = r[1] => x \in FreeRuns'
    BY DEF Runs
  <2> QED
    BY <2>1, <1>1 DEF Coalesced
<1>6. \A x \in Runs' : x[1] = r[1] => x[2] = 0 /\ x[3] = DataNPages
  <2>1. PICK R : R = Runs'
    OBVIOUS
  <2>2. PICK A : A = arenas'
    OBVIOUS
  <2> QED
    BY <1>4, <1>5, <2>1, <2>2, OneRun
<1>7. m[2] = 0 /\ m[3] = DataNPages
  BY <1>3, <1>6 DEF Runs
<1> QED
  BY <1>7 DEF deallocate_page, IsWholeArena

\* The run cut from the fresh arena lies in it.
LEMMA TakeServesArena ==
    ASSUME IndInv, request # NoRequest, NEW c \in Class, Chosen(c),
           take_pages(c, request.n, request.align)
    PROVE  /\ held \subseteq held'
           /\ \E r \in held' : r[1] = First(c)[1]
<1> DEFINE n == request.n
<1>1. PICK left \in Nat, padding \in Nat : TakeStep(c, n, request.align, left, padding)
  BY ChosenIsTaken
<1>2. n \in Int
  BY ChosenIsTaken, ClassFacts
<1>3. held' = held \cup {NewRun(c, n, left)}
  <2>1. RunsTaken(c, n, left, padding)
    BY <1>1, <1>2, TakeRuns DEF IndInv
  <2> QED
    BY <2>1 DEF RunsTaken
<1>4. NewRun(c, n, left)[1] = First(c)[1]
  BY DEF NewRun
<1> QED
  BY <1>3, <1>4

\* An idle arena is one free run, in the last list.
LEMMA IdleIsOneRun ==
    ASSUME IndInv, NEW a \in IdleArenas
    PROVE  \E h \in heads : n_pages[h] = DataNPages
<1>1. TypeOK /\ Tiled /\ Coalesced
  BY DEF IndInv
<1>2. /\ a \in arenas /\ IsTiling(Runs, arenas) /\ Runs \in SUBSET Run
      /\ \A x \in Runs : x[1] = a => x \in FreeRuns
  BY <1>1 DEF IdleArenas, Tiled, TypeOK, Runs
<1>3. \A x, y \in Runs : x[1] = a /\ y[1] = a => x[2] + x[3] # y[2]
  BY <1>1, <1>2 DEF Coalesced
<1>4. \A x \in Runs : x[1] = a => x[2] = 0 /\ x[3] = DataNPages
  <2>1. PICK R : R = Runs
    OBVIOUS
  <2>2. PICK A : A = arenas
    OBVIOUS
  <2> QED
    BY <1>2, <1>3, <2>1, <2>2, OneRun
<1>5. 0 \in Data
  BY ClassFacts DEF Data
<1>6. PICK x \in FreeRuns : x[1] = a
  BY <1>2, <1>5 DEF IsTiling
<1>7. PICK h \in heads : x = <<h[1], h[2], n_pages[h]>>
  BY <1>6 DEF FreeRuns
<1> QED
  BY <1>4, <1>6, <1>7 DEF Runs

\* A request that no list serves finds no idle arena: that would serve any.
LEMMA UnservedMeansNoIdle ==
    ASSUME IndInv, NoRunServes
    PROVE  IdleArenas = {}
<1> SUFFICES ASSUME NEW a \in IdleArenas
             PROVE  FALSE
  OBVIOUS
<1> DEFINE last == NPageClasses - 1
<1>1. PICK h \in heads : n_pages[h] = DataNPages
  BY IdleIsOneRun
<1>2. FreeClass[n_pages[h]] = last
  BY <1>1, LastClass
<1>3. last \in Class /\ ~IsEmpty(last)
  BY <1>2, RunIsListed
<1>4. last >= AllocClass[request.n + request.align - 1]
  BY AskedHasClass, ClassFacts DEF Class
<1> QED
  BY <1>3, <1>4, UnservedIsEmpty

\* Giving a run back unmaps the arena that falls idle.
LEMMA GiveBackKeepsBusy ==
    ASSUME IndInv, IndInv', NEW r \in held,
           deallocate_page(r) \/ deallocate_page_unmap(r)
    PROVE  IdleArenas' \subseteq IdleArenas
<1> SUFFICES ASSUME NEW a \in IdleArenas', NEW s \in held, s[1] = a
             PROVE  FALSE
  BY DEF IdleArenas, deallocate_page, deallocate_page_unmap
<1>1. a \in arenas' /\ \A x \in held' : x[1] # a
  BY DEF IdleArenas
<1>2. ASSUME deallocate_page(r)
      PROVE  FALSE
  <2>1. CASE a = r[1]
    BY <1>1, <1>2, <2>1, MergedIsNotLast
  <2>2. CASE a # r[1]
    BY <1>1, <1>2, <2>2 DEF deallocate_page
  <2> QED
    BY <2>1, <2>2
<1>3. ASSUME deallocate_page_unmap(r)
      PROVE  FALSE
  BY <1>1, <1>3 DEF deallocate_page_unmap
<1> QED
  BY <1>2, <1>3

LEMMA GiveBackIdle ==
    ASSUME IndInv, IndInv', IdleOnce, request = NoRequest, NEW r \in held,
           deallocate_page(r) \/ deallocate_page_unmap(r)
    PROVE  IdleOnce'
<1>1. IdleArenas' \subseteq IdleArenas
  BY GiveBackKeepsBusy
<1>2. request' = request /\ ~request.fresh
  BY DEF deallocate_page, deallocate_page_unmap, NoRequest
<1> QED
  BY <1>1, <1>2 DEF IdleOnce, OneIdleArena

\* An arena that was mapped before a step is idle after it only if it was before.
LEMMA OldStaysBusy ==
    ASSUME IndInv, IndInv', [Next]_vars
    PROVE  IdleArenas' \cap arenas \subseteq IdleArenas
<1> SUFFICES ASSUME NEW a \in IdleArenas', a \in arenas, NEW s \in held, s[1] = a
             PROVE  FALSE
  BY DEF IdleArenas
<1>1. a \in arenas' /\ \A x \in held' : x[1] # a
  BY DEF IdleArenas
<1>2. ASSUME held \subseteq held'
      PROVE  FALSE
  BY <1>1, <1>2
<1>3. ASSUME allocate_page
      PROVE  FALSE
  <2>1. PICK c \in Class : /\ Serves(c, request.n, request.align)
                           /\ take_pages(c, request.n, request.align)
    BY <1>3 DEF allocate_page
  <2> QED
    BY <1>2, <1>3, <2>1, TakeServesArena DEF allocate_page, Chosen
<1>4. ASSUME allocate_page_fresh
      PROVE  FALSE
  <2>1. /\ request # NoRequest /\ Chosen(NPageClasses - 1) /\ NPageClasses - 1 \in Class
        /\ take_pages(NPageClasses - 1, request.n, request.align)
    BY <1>4, ClassFacts DEF allocate_page_fresh, Chosen, NoRequest
  <2> QED
    BY <1>2, <2>1, TakeServesArena
<1>5. ASSUME NEW r \in held, deallocate_page(r) \/ deallocate_page_unmap(r)
      PROVE  FALSE
  BY <1>5, GiveBackKeepsBusy DEF IdleArenas
<1> QED
  BY <1>2, <1>3, <1>4, <1>5
     DEF Next, vars, call_allocate_page, create, create_throws, construct_arena,
         create_fails

\* The arena just constructed is the only one that may be idle.
LEMMA ConstructedIsOnlyIdle ==
    ASSUME IndInv, NEW b \in Arena, construct_arena(b)
    PROVE  IdleArenas' \subseteq {b}
<1>1. IdleArenas = {}
  BY UnservedMeansNoIdle DEF construct_arena
<1> QED
  BY <1>1 DEF construct_arena, IdleArenas

\* Every step keeps it that way.
LEMMA NextIdle == IndInv /\ IndInv' /\ IdleOnce /\ [Next]_vars => IdleOnce'
<1> SUFFICES ASSUME IndInv, IndInv', IdleOnce, [Next]_vars
             PROVE  IdleOnce'
  OBVIOUS
<1> DEFINE last == NPageClasses - 1
<1>1. ASSUME arenas' \subseteq arenas, ~request.fresh, ~request'.fresh
      PROVE  IdleOnce'
  <2>1. IdleArenas' \subseteq IdleArenas
    BY <1>1, OldStaysBusy DEF IdleArenas
  <2> QED
    BY <1>1, <2>1 DEF IdleOnce, OneIdleArena
<1>2. ASSUME NEW b \in Arena, create(b)
      PROVE  IdleOnce'
  <2>1. IdleArenas' \subseteq {b}
    BY <1>2, ConstructedIsOnlyIdle DEF create
  <2>2. request'.fresh
    BY <1>2 DEF create, IndInv, TypeOK, Request
  <2>3. First(last)' = <<b, 0>>
    <3>1. link'.next = [link.next EXCEPT ![<<b, 0>>] = link.next[free_pages(last)],
                                         ![free_pages(last)] = <<b, 0>>]
      BY <1>2 DEF create, construct_arena, insert_next
    <3>2. link.next \in [Node -> Target] /\ free_pages(last) \in Node
      BY ClassFacts, NodeFacts DEF IndInv, TypeOK, Target
    <3> QED
      BY <3>1, <3>2 DEF First
  <2> QED
    BY <2>1, <2>2, <2>3 DEF IdleOnce, OneIdleArena
<1>3. ASSUME NEW b \in Arena, create_throws(b)
      PROVE  IdleOnce'
  <2>1. IdleArenas' \subseteq {b}
    BY <1>3, ConstructedIsOnlyIdle DEF create_throws
  <2>2. ~Accounted /\ ~request'.fresh
    BY <1>3 DEF create_throws, NoRequest
  <2> QED
    BY <2>1, <2>2 DEF IdleOnce, OneIdleArena
<1>4. ASSUME allocate_page_fresh
      PROVE  IdleOnce'
  <2>1. /\ request # NoRequest /\ Chosen(last) /\ last \in Class
        /\ take_pages(last, request.n, request.align)
    BY <1>4, ClassFacts DEF allocate_page_fresh, Chosen, NoRequest
  <2>2. \E r \in held' : r[1] = First(last)[1]
    BY <2>1, TakeServesArena
  <2>3. request.fresh /\ ~request'.fresh /\ arenas' = arenas
    BY <1>4 DEF allocate_page_fresh, NoRequest
  <2>4. \A a \in IdleArenas' : a \in IdleArenas
    BY <2>3, OldStaysBusy DEF IdleArenas
  <2>5. IdleArenas' = {}
    <3> SUFFICES ASSUME NEW a \in IdleArenas'
                 PROVE  FALSE
      OBVIOUS
    <3>1. First(last)[1] = a
      BY <2>3, <2>4 DEF IdleOnce
    <3> QED
      BY <2>2, <3>1 DEF IdleArenas
  <2> QED
    BY <2>3, <2>5 DEF IdleOnce, OneIdleArena
<1>5. ASSUME NEW n \in 1 .. MaxNPages, NEW al \in PageAligns, call_allocate_page(n, al)
      PROVE  IdleOnce'
  BY <1>1, <1>5 DEF call_allocate_page, NoRequest
<1>6. CASE allocate_page
  BY <1>1, <1>6 DEF allocate_page, NoRequest
<1>7. CASE create_fails
  BY <1>1, <1>7 DEF create_fails, NoRunServes, NoRequest
<1>8. ASSUME request = NoRequest, NEW r \in held,
             deallocate_page(r) \/ deallocate_page_unmap(r)
      PROVE  IdleOnce'
  BY <1>8, GiveBackIdle
<1>9. CASE UNCHANGED vars
  BY <1>9 DEF vars, IdleOnce, OneIdleArena, IdleArenas, First
<1> QED
  BY <1>2, <1>3, <1>4, <1>5, <1>6, <1>7, <1>8, <1>9 DEF Next

LEMMA IdleOnceHolds == Spec => []IdleOnce
<1>1. Init => IdleOnce
  BY DEF Init, IdleOnce, OneIdleArena, IdleArenas
<1>2. IndInv /\ IndInv' /\ IdleOnce /\ [Next]_vars => IdleOnce'
  BY NextIdle
<1> QED
  BY <1>1, <1>2, IndInvHolds, PTL DEF Spec

\* Every free run is in the list of its class, once.  At most one arena is mapped
\* of which nothing is allocated: a fresh one of which the request will be cut, or
\* one whose constructor threw.
THEOREM ListsExactHolds == Spec => []ListsExact
<1>1. IndInv /\ IdleOnce => ListsExact
  BY ListIsExact DEF ListsExact, IdleOnce
<1> QED
  BY <1>1, IndInvHolds, IdleOnceHolds, PTL

\* An arena is unmapped with the last run of it that was held: it never falls idle.
THEOREM NeverFallsIdleHolds == Spec => NeverFallsIdle
<1>1. IndInv /\ IndInv' /\ [Next]_vars =>
         [\A a \in arenas \cap arenas' : a \in IdleArenas' => a \in IdleArenas]_vars
  BY OldStaysBusy
<1> QED
  BY <1>1, IndInvHolds, PTL DEF Spec, NeverFallsIdle
=============================================================================
