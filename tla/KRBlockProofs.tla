---------------------------- MODULE KRBlockProofs ----------------------------
(***************************************************************************)
(* Proofs about KRBlock, for blocks of any size, any alignments that       *)
(* satisfy BlockAssumption and any number of objects: the free pieces are a *)
(* circle through the header 0 in the order of addresses, pieces and       *)
(* objects partition the block, usage is exact, and a search that throws   *)
(* has seen every piece.                                                   *)
(***************************************************************************)
EXTENDS KRBlock, IntrusiveListProofs

\* Headers of free pieces: what is under an object, or inside of a piece, is none.
Headers == {p \in Pos : next[p] # Data}

\* In the set H of headers, f leads from p to the next one, or from the last to 0.
Successor(f, H, p) ==
    /\ f[p] \in H
    /\ f[p] > p \/ f[p] = 0
    /\ \A q \in H : q > p => f[p] > p /\ f[p] <= q
Circle(f, H) == 0 \in H /\ \A p \in H : Successor(f, H, p)

Within(o, x) == o[1] <= x /\ x < o[1] + o[2]
UsedBy(L) == {x \in Pos : \E o \in L : Within(o, x)}
Used == UsedBy(live)

-----------------------------------------------------------------------------
(* The inductive invariant, in parts.                                      *)

CallType == [name : {"none", "allocate", "deallocate"}, n : Nat, at : Pos,
             align : Nat, prev : Pos, cursor : Pos]
BlockTyped ==
    /\ next \in [Pos -> Pos \cup {Data}]
    /\ size \in [Pos -> Nat \cup {Data}]
    /\ usage \in Nat /\ released \in BOOLEAN
    /\ live \subseteq Pos \X Nat \X Aligns
    /\ op \in CallType

\* The pieces follow each other with room for an object between them.
PieceOK(p) ==
    /\ size[p] \in Nat /\ p + size[p] <= NHeaders
    /\ IF p = 0 THEN size[p] = 0
                ELSE size[p] >= 1 /\ (next[p] # 0 => p + size[p] < next[p])
PiecesOK == Circle(next, Headers) /\ freep \in Headers /\ \A p \in Headers : PieceOK(p)

\* Objects lie where nothing else lies.
ObjectOK(o) ==
    /\ o[1] >= 1 /\ o[2] >= 1 /\ o[1] + o[2] <= NHeaders
    /\ (head_addr + o[1]) % o[3] = 0
    /\ \A u \in live : u # o => o[1] + o[2] <= u[1] \/ u[1] + u[2] <= o[1]
    /\ \A p \in Headers : p + size[p] <= o[1] \/ o[1] + o[2] <= p
ObjectsOK == \A o \in live : ObjectOK(o)

\* Nothing is lost.
Free(x) == \E p \in Headers : p <= x /\ x < p + size[p]
Covered == ~released => \A x \in 1 .. NHeaders - 1 : Free(x) \/ \E o \in live : Within(o, x)

UsageExact == usage = Cardinality(Used)
Returned   == released => live = {} /\ op = NoOp

\* What the search of allocate has seen: the headers from freep on, up to prev.
Seen(p) == IF op.prev >= freep THEN freep < p /\ p <= op.prev
                               ELSE freep < p \/ p <= op.prev
CallOK ==
    /\ op.name = "allocate" =>
          /\ op.n >= 1 /\ op.align \in Aligns
          /\ op.prev \in Headers /\ op.cursor = next[op.prev]
          /\ \A p \in Headers : Seen(p) => ~Fits(p, op.n, op.align)
    /\ op.name = "deallocate" => <<op.at, op.n, op.align>> \in live /\ op.prev \in Headers

BlockInv == BlockTyped /\ PiecesOK /\ ObjectsOK /\ Covered /\ UsageExact /\ Returned /\ CallOK

-----------------------------------------------------------------------------
(* Arithmetic.                                                             *)

LEMMA BlockFacts ==
    ASSUME BlockAssumption
    PROVE  /\ NHeaders \in Nat /\ NHeaders >= 2 /\ head_addr \in Nat
           /\ 0 \in Pos /\ 1 \in Pos /\ Pos \subseteq Nat
           /\ \A p \in Int : p \in Pos <=> 0 <= p /\ p < NHeaders
           /\ Data \notin Int /\ Data \notin Pos /\ Aligns \subseteq Nat
           /\ \A al \in Aligns : al \in Nat /\ al > 0
BY DEF BlockAssumption, Pos

\* Quotient and rest of a sum that shows them.
LEMMA QuotientAndRest ==
    ASSUME NEW n \in Nat, n > 0, NEW q \in Int, NEW r \in 0 .. n - 1
    PROVE  (q * n + r) % n = r /\ (q * n + r) \div n = q
OBVIOUS

LEMMA DivisionSplits ==
    ASSUME NEW n \in Nat, n > 0, NEW x \in Int
    PROVE  /\ x \div n \in Int /\ x % n \in 0 .. n - 1
           /\ x = (x \div n) * n + (x % n)
<1>1. x \div n \in Int
  OBVIOUS
<1>2. x % n \in 0 .. n - 1
  OBVIOUS
<1>3. x = n * (x \div n) + (x % n)
  OBVIOUS
<1> QED
  BY <1>1, <1>2, <1>3

\* The head of the block is aligned to whatever callers may ask for.
LEMMA HeadIsAligned ==
    ASSUME BlockAssumption, NEW al \in Aligns
    PROVE  \E q \in Nat : head_addr = q * al
<1>1. al \in Nat /\ al > 0 /\ head_addr \in Nat
  BY BlockFacts
<1>2. CASE head_addr % al = 0
  <2>1. head_addr = (head_addr \div al) * al + 0 /\ head_addr \div al \in Int
    BY <1>1, <1>2, DivisionSplits
  <2>2. head_addr \div al >= 0
    BY <1>1
  <2> QED
    BY <1>1, <2>1, <2>2
<1>3. CASE DataAlignment % al = 0
  <2>1. DataAlignment \in Nat /\ DataAlignment > 0 /\ head_addr % DataAlignment = 0
    BY DEF BlockAssumption
  <2>2. PICK q \in Int : head_addr = q * DataAlignment
    <3>1. head_addr = (head_addr \div DataAlignment) * DataAlignment + 0
          /\ head_addr \div DataAlignment \in Int
      BY <1>1, <2>1, DivisionSplits
    <3> QED
      BY <1>1, <2>1, <3>1
  <2>3. PICK r \in Int : DataAlignment = r * al
    <3>1. DataAlignment = (DataAlignment \div al) * al + 0 /\ DataAlignment \div al \in Int
      BY <1>1, <1>3, <2>1, DivisionSplits
    <3> QED
      BY <1>1, <2>1, <3>1
  <2>4. q * (r * al) = (q * r) * al /\ q * r \in Int
    BY <1>1
  <2>5. PICK m \in Int : m = q * r
    BY <2>4
  <2>6. head_addr = m * al
    BY <2>2, <2>3, <2>4, <2>5
  <2>7. m >= 0
    BY <1>1, <2>6
  <2> QED
    BY <2>6, <2>7
<1> QED
  BY <1>2, <1>3 DEF BlockAssumption

\* Where an object is cut from the piece at c: inside, and aligned.
LEMMA CutIsAligned ==
    ASSUME BlockAssumption, NEW al \in Aligns, NEW c \in Nat, NEW n \in Nat,
           size[c] \in Nat, n <= size[c], c + size[c] <= NHeaders
    PROVE  /\ PosAligned(c, n, al) \in Nat
           /\ PosAligned(c, n, al) + n <= c + size[c]
           /\ al = 1 => PosAligned(c, n, al) = c + size[c] - n
           /\ (head_addr + PosAligned(c, n, al)) % al = 0
<1>1. al \in Nat /\ al > 0 /\ head_addr \in Nat /\ NHeaders \in Nat
  BY BlockFacts
<1>2. PICK x \in Nat : x = PosUnaligned(c, n) /\ x = c + size[c] - n
  BY DEF PosUnaligned
<1>3. PICK q \in Nat : head_addr = q * al
  BY HeadIsAligned
<1>4. PICK d \in Int : d = x \div al /\ x = d * al + (x % al)
  BY <1>1, DivisionSplits
<1>5. PICK r \in 0 .. al - 1 : r = x % al /\ x = d * al + r
  BY <1>1, <1>4, DivisionSplits
<1>6. PICK y \in Int : y = d * al
  BY <1>1
<1>7. y >= 0 /\ y <= x /\ d >= 0
  <2>1. d >= 0
    BY <1>1, <1>4
  <2>2. d * al >= 0
    BY <1>1, <2>1
  <2> QED
    BY <1>5, <1>6, <2>1, <2>2
<1>8. (head_addr + y) % al = 0
  <2>1. PICK e \in Int : e = q + d
    BY <1>3, <1>4
  <2>2. head_addr + y = e * al + 0
    BY <1>1, <1>3, <1>6, <2>1
  <2>3. 0 \in 0 .. al - 1
    BY <1>1
  <2> QED
    BY <1>1, <2>2, <2>3, QuotientAndRest
<1>9. CASE al = 1
  <2>1. PosAligned(c, n, al) = x
    BY <1>2, <1>9 DEF PosAligned
  <2> QED
    BY <1>1, <1>2, <1>9, <2>1
<1>10. CASE al # 1 /\ DataAlignment % al = 0
  <2>1. PosAligned(c, n, al) = y
    BY <1>2, <1>4, <1>6, <1>10 DEF PosAligned
  <2> QED
    BY <1>2, <1>7, <1>8, <1>10, <2>1
<1>11. CASE al # 1 /\ DataAlignment % al # 0
  <2>1. (head_addr + x) \div al = q + d
    <3>1. head_addr + x = (q + d) * al + r
      BY <1>1, <1>3, <1>5
    <3> QED
      BY <1>1, <3>1, QuotientAndRest
  <2>2. (q + d) * al - head_addr = y
    BY <1>1, <1>3, <1>6
  <2>3. y % SizeModulus = y
    <3>1. SizeModulus \in Nat /\ SizeModulus > head_addr + 2 * NHeaders
      BY DEF BlockAssumption
    <3>2. y < SizeModulus
      BY <1>1, <1>2, <1>7, <3>1
    <3> QED
      BY <1>7, <3>1, <3>2
  <2>4. PosAligned(c, n, al) = y
    BY <1>2, <1>11, <2>1, <2>2, <2>3 DEF PosAligned
  <2> QED
    BY <1>2, <1>7, <1>8, <1>11, <2>4
<1> QED
  BY <1>9, <1>10, <1>11

-----------------------------------------------------------------------------
(* The circle of headers.                                                  *)

\* x is put behind `at`.
LEMMA CircleInserts ==
    ASSUME NEW f, NEW g, NEW H \in SUBSET Nat, Circle(f, H), NEW at \in H,
           NEW x \in Nat, x > at, f[at] = 0 \/ x < f[at],
           \A p \in H : p # at => g[p] = f[p],
           g[at] = x, g[x] = f[at]
    PROVE  Circle(g, H \cup {x})
<1>1. 0 \in H /\ \A p \in H : Successor(f, H, p)
  BY DEF Circle
<1>2. \A p \in H : p \in Nat /\ f[p] \in H /\ f[p] \in Nat
  BY <1>1 DEF Successor
<1>3. Successor(f, H, at)
  BY <1>1
<1>4. Successor(g, H \cup {x}, at)
  <2>1. ASSUME NEW q \in H \cup {x}, q > at PROVE x <= q
    <3>1. CASE q \in H
      BY <1>2, <1>3, <2>1, <3>1 DEF Successor
    <3> QED
      BY <2>1, <3>1
  <2> QED
    BY <2>1 DEF Successor
<1>5. Successor(g, H \cup {x}, x)
  <2>1. f[at] > x \/ f[at] = 0
    BY <1>2
  <2>2. ASSUME NEW q \in H \cup {x}, q > x PROVE f[at] > x /\ f[at] <= q
    <3>1. q \in H /\ q \in Nat /\ q > at
      BY <1>2, <2>2
    <3>2. f[at] > at /\ f[at] <= q
      BY <1>3, <3>1 DEF Successor
    <3> QED
      BY <1>2, <2>1, <3>2
  <2>3. f[at] \in H
    BY <1>2
  <2> QED
    BY <2>1, <2>2, <2>3 DEF Successor
<1>6. ASSUME NEW p \in H, p # at PROVE Successor(g, H \cup {x}, p)
  <2>1. Successor(f, H, p) /\ g[p] = f[p]
    BY <1>1, <1>6
  <2>2. ASSUME NEW q \in H \cup {x}, q > p PROVE f[p] > p /\ f[p] <= q
    <3>1. CASE q \in H
      BY <2>1, <2>2, <3>1 DEF Successor
    <3>2. CASE q = x
      <4>1. CASE p < at
        <5>1. f[p] > p /\ f[p] <= at
          BY <2>1, <4>1 DEF Successor
        <5> QED
          BY <1>2, <3>2, <5>1
      <4>2. CASE p > at
        <5>1. f[at] > at /\ f[at] <= p
          BY <1>3, <4>2 DEF Successor
        <5> QED
          BY <1>2, <2>2, <3>2, <5>1
      <4> QED
        BY <1>2, <1>6, <4>1, <4>2
    <3> QED
      BY <3>1, <3>2
  <2>3. f[p] \in H /\ (f[p] > p \/ f[p] = 0)
    BY <2>1 DEF Successor
  <2> QED
    BY <2>1, <2>2, <2>3 DEF Successor
<1> QED
  BY <1>1, <1>4, <1>5, <1>6 DEF Circle

\* x, the header behind `at`, is taken out.
LEMMA CircleRemoves ==
    ASSUME NEW f, NEW g, NEW H \in SUBSET Nat, Circle(f, H), NEW at \in H,
           NEW x \in H, x = f[at], x # 0,
           \A p \in H \ {x} : p # at => g[p] = f[p],
           g[at] = f[x]
    PROVE  Circle(g, H \ {x})
<1>1. 0 \in H /\ \A p \in H : Successor(f, H, p)
  BY DEF Circle
<1>2. \A p \in H : p \in Nat /\ f[p] \in H /\ f[p] \in Nat
  BY <1>1 DEF Successor
<1>3. Successor(f, H, at) /\ Successor(f, H, x)
  BY <1>1
<1>4. x > at /\ f[x] # x /\ (f[x] > x \/ f[x] = 0)
  BY <1>2, <1>3 DEF Successor
<1>5. Successor(g, H \ {x}, at)
  <2>1. ASSUME NEW q \in H \ {x}, q > at PROVE f[x] > at /\ f[x] <= q
    <3>1. x <= q
      BY <1>3, <2>1 DEF Successor
    <3>2. q > x
      BY <1>2, <2>1, <3>1
    <3>3. f[x] > x /\ f[x] <= q
      BY <1>3, <2>1, <3>2 DEF Successor
    <3> QED
      BY <1>2, <1>4, <3>3
  <2>2. f[x] \in H \ {x} /\ (f[x] > at \/ f[x] = 0)
    BY <1>2, <1>4
  <2> QED
    BY <2>1, <2>2 DEF Successor
<1>6. ASSUME NEW p \in H \ {x}, p # at PROVE Successor(g, H \ {x}, p)
  <2>1. Successor(f, H, p) /\ g[p] = f[p]
    BY <1>1, <1>6
  <2>2. f[p] # x
    <3> SUFFICES ASSUME f[p] = x PROVE FALSE
      OBVIOUS
    <3>1. p < x
      BY <1>2, <2>1 DEF Successor
    <3>2. CASE p < at
      BY <1>2, <1>4, <2>1, <3>2 DEF Successor
    <3>3. CASE p > at
      BY <1>2, <1>3, <3>1, <3>3 DEF Successor
    <3> QED
      BY <1>2, <1>6, <3>2, <3>3
  <2> QED
    BY <2>1, <2>2 DEF Successor
<1> QED
  BY <1>1, <1>5, <1>6 DEF Circle

-----------------------------------------------------------------------------
(* The walk along next from the header 0 meets every header.                *)

ClosedUnder(T, f)    == \A x \in T : f[x] \in T
Iterates(w, f, t, m) == w[0] = t /\ \A j \in 1 .. m : w[j] = f[w[j - 1]]

LEMMA IteratesExist ==
    ASSUME NEW f, NEW T, NEW t \in T, ClosedUnder(T, f), NEW k \in Nat
    PROVE  \E w \in [0 .. k -> T] : Iterates(w, f, t, k)
<1> DEFINE Bad == {m \in Nat : ~\E w \in [0 .. m -> T] : Iterates(w, f, t, m)}
<1> SUFFICES ASSUME Bad # {}
             PROVE  FALSE
  OBVIOUS
<1>1. PICK m \in Bad : \A y \in Bad : m <= y
  <2>1. Bad \in SUBSET Nat
    OBVIOUS
  <2> HIDE DEF Bad
  <2> QED
    BY <2>1, LeastNumber
<1>2. CASE m = 0
  <2> DEFINE w == [j \in 0 .. 0 |-> t]
  <2>1. w \in [0 .. 0 -> T] /\ Iterates(w, f, t, 0)
    BY DEF Iterates
  <2> QED
    BY <1>1, <1>2, <2>1
<1>3. CASE m # 0
  <2>1. m - 1 \in Nat /\ m - 1 \notin Bad
    <3>1. m \in Nat
      BY <1>1
    <3> HIDE DEF Bad
    <3> QED
      BY <1>1, <1>3, <3>1
  <2>2. PICK v \in [0 .. m - 1 -> T] : Iterates(v, f, t, m - 1)
    BY <2>1
  <2> DEFINE w == [j \in 0 .. m |-> IF j = m THEN f[v[m - 1]] ELSE v[j]]
  <2>3. f[v[m - 1]] \in T
    BY <2>1, <2>2 DEF ClosedUnder
  <2>4. w \in [0 .. m -> T]
    BY <1>1, <1>3, <2>3
  <2>5. w[0] = t
    BY <1>1, <1>3, <2>2 DEF Iterates
  <2>6. ASSUME NEW j \in 1 .. m
        PROVE  w[j] = f[w[j - 1]]
    BY <1>1, <1>3, <2>2 DEF Iterates
  <2>7. Iterates(w, f, t, m)
    BY <2>5, <2>6 DEF Iterates
  <2> QED
    BY <1>1, <2>4, <2>7
<1> QED
  BY <1>2, <1>3

\* In a circle there is a header before every other one.
LEMMA CircleHasPredecessors ==
    ASSUME NEW f, NEW H \in SUBSET Nat, Circle(f, H), NEW q \in H, q # 0
    PROVE  \E p \in H : p < q /\ f[p] = q
<1>1. 0 \in H /\ (\A p \in H : p \in Nat /\ Successor(f, H, p)) /\ q \in Nat
  BY DEF Circle
<1> DEFINE Gaps == {d \in Nat : \E h \in H : h < q /\ d = q - h}
<1>2. PICK d \in Gaps : \A e \in Gaps : d <= e
  <2>1. q \in Gaps
    BY <1>1
  <2>2. Gaps \in SUBSET Nat /\ Gaps # {}
    BY <2>1
  <2> HIDE DEF Gaps
  <2> QED
    BY <2>2, LeastNumber
<1>3. PICK p \in H : p < q /\ d = q - p
  BY <1>2
<1>4. p \in Nat /\ Successor(f, H, p)
  BY <1>1
<1>5. f[p] > p /\ f[p] <= q /\ f[p] \in H /\ f[p] \in Nat
  BY <1>1, <1>3, <1>4 DEF Successor
<1>6. f[p] = q
  <2> SUFFICES ASSUME f[p] < q PROVE FALSE
    BY <1>1, <1>5
  <2>1. q - f[p] \in Gaps
    BY <1>1, <1>5
  <2>2. d <= q - f[p]
    BY <1>2, <2>1
  <2> QED
    BY <1>1, <1>3, <1>4, <1>5, <2>2
<1> QED
  BY <1>3, <1>6

LEMMA PiecesAreHeaders ==
    ASSUME BlockAssumption, BlockTyped, PiecesOK
    PROVE  Pieces = Headers
<1> DEFINE Then(p) == IF p \in Pos /\ next[p] \in Pos THEN next[p] ELSE 0
           Eq(w) == w = [k \in 0 .. NHeaders |-> IF k = 0 THEN 0 ELSE Then(w[k - 1])]
<1>1. NHeaders \in Nat /\ NHeaders >= 2 /\ Pos \subseteq Nat /\ Data \notin Pos
      /\ Headers \subseteq Pos /\ Circle(next, Headers) /\ 0 \in Headers
  BY BlockFacts DEF PiecesOK, Circle, Headers
<1>2. \A p \in Headers : next[p] \in Headers /\ Then(p) = next[p]
  BY <1>1 DEF Circle, Successor
<1>3. PICK w \in [0 .. NHeaders -> Headers] : Iterates(w, next, 0, NHeaders)
  <2>1. ClosedUnder(Headers, next)
    BY <1>2 DEF ClosedUnder
  <2> HIDE DEF Then, Eq
  <2> QED
    BY <1>1, <2>1, IteratesExist
<1>4. Eq(w)
  <2>1. ASSUME NEW k \in 0 .. NHeaders PROVE w[k] = IF k = 0 THEN 0 ELSE Then(w[k - 1])
    <3>1. CASE k = 0
      BY <1>3, <3>1 DEF Iterates
    <3>2. CASE k # 0
      <4>1. k \in 1 .. NHeaders /\ k - 1 \in 0 .. NHeaders
        BY <1>1, <3>2
      <4>2. w[k - 1] \in Headers /\ w[k] = next[w[k - 1]]
        BY <1>3, <4>1 DEF Iterates
      <4> HIDE DEF Then
      <4> QED
        BY <1>2, <3>2, <4>2
    <3> QED
      BY <3>1, <3>2
  <2> HIDE DEF Then
  <2> QED
    BY <1>3, <2>1
<1>5. PICK v : v = CHOOSE u : Eq(u)
  OBVIOUS
<1>6. Eq(v)
  <2> HIDE DEF Eq
  <2> QED
    BY <1>4, <1>5
<1>7. Pieces = {v[k] : k \in 0 .. NHeaders}
  BY <1>5 DEF Pieces
<1>8. \A k \in 0 .. NHeaders : v[k] = IF k = 0 THEN 0 ELSE Then(v[k - 1])
  <2> HIDE DEF Then
  <2> QED
    BY <1>6
<1> HIDE DEF Eq, Then
<1>9. v[0] = 0
  BY <1>1, <1>8
<1>10. \A k \in 0 .. NHeaders : v[k] \in Headers
  <2> DEFINE Out == {j \in 0 .. NHeaders : v[j] \notin Headers}
  <2> SUFFICES ASSUME Out # {}
               PROVE  FALSE
    OBVIOUS
  <2>1. PICK j \in Out : \A i \in Out : j <= i
    <3>1. Out \in SUBSET Nat
      BY <1>1
    <3> HIDE DEF Out
    <3> QED
      BY <3>1, LeastNumber
  <2>2. j # 0
    BY <1>1, <1>9, <2>1
  <2>3. j \in 0 .. NHeaders /\ j - 1 \in 0 .. NHeaders /\ j - 1 \notin Out
    BY <1>1, <2>1, <2>2
  <2>4. v[j - 1] \in Headers
    BY <2>3
  <2>5. v[j] = next[v[j - 1]]
    BY <1>2, <1>8, <2>2, <2>3, <2>4
  <2> QED
    BY <1>2, <2>1, <2>4, <2>5
<1>11. \A k \in 1 .. NHeaders : v[k] = next[v[k - 1]]
  <2> SUFFICES ASSUME NEW k \in 1 .. NHeaders PROVE v[k] = next[v[k - 1]]
    OBVIOUS
  <2>1. k \in 0 .. NHeaders /\ k - 1 \in 0 .. NHeaders /\ k # 0
    BY <1>1
  <2> QED
    BY <1>2, <1>8, <1>10, <2>1
\* A header is met after no more steps than there are headers before it.
<1>12. ASSUME NEW q \in Headers PROVE \E k \in 0 .. q : v[k] = q
  <2> DEFINE Late == {h \in Headers : ~\E k \in 0 .. h : v[k] = h}
  <2> SUFFICES ASSUME Late # {}
               PROVE  FALSE
    OBVIOUS
  <2>1. PICK h \in Late : \A g \in Late : h <= g
    <3>1. Late \in SUBSET Nat
      BY <1>1
    <3> HIDE DEF Late
    <3> QED
      BY <3>1, LeastNumber
  <2>2. h \in Headers /\ h \in Nat /\ h < NHeaders /\ ~\E k \in 0 .. h : v[k] = h
    BY <1>1, <2>1 DEF Pos
  <2>3. h # 0
    BY <1>9, <2>2
  <2>4. PICK p \in Headers : p < h /\ next[p] = h
    <3>1. Headers \in SUBSET Nat
      BY <1>1
    <3> QED
      BY <1>1, <2>2, <2>3, <3>1, CircleHasPredecessors
  <2>5. p \in Nat /\ p \notin Late
    BY <1>1, <2>1, <2>2, <2>4
  <2>6. PICK k \in 0 .. p : v[k] = p
    BY <2>4, <2>5
  <2>7. k + 1 \in 1 .. NHeaders /\ k + 1 \in 0 .. h /\ (k + 1) - 1 = k
    BY <1>1, <2>2, <2>4, <2>5, <2>6
  <2>8. v[k + 1] = h
    BY <1>11, <2>4, <2>6, <2>7
  <2> QED
    BY <2>2, <2>7, <2>8
<1>13. \A q \in Headers : \A k \in 0 .. q : k \in 0 .. NHeaders
  BY <1>1 DEF Pos
<1> QED
  BY <1>7, <1>10, <1>12, <1>13

-----------------------------------------------------------------------------
(* Facts about the states of the invariant.                                 *)

\* What is said of a header, and of the ones behind it.
LEMMA HeaderFacts ==
    ASSUME BlockAssumption, PiecesOK, NEW p \in Headers
    PROVE  /\ p \in Pos /\ p \in Nat /\ p < NHeaders
           /\ next[p] \in Headers /\ next[p] \in Nat /\ next[p] # Data
           /\ next[p] > p \/ next[p] = 0
           /\ size[p] \in Nat /\ p + size[p] <= NHeaders
           /\ p = 0 => size[p] = 0
           /\ p # 0 => size[p] >= 1 /\ (next[p] # 0 => p + size[p] < next[p])
<1>1. Headers \subseteq Pos /\ Pos \subseteq Nat /\ (\A x \in Pos : x < NHeaders)
  BY BlockFacts DEF Headers, Pos
<1>2. Successor(next, Headers, p) /\ PieceOK(p)
  BY DEF PiecesOK, Circle
<1>3. next[p] \in Headers /\ (next[p] > p \/ next[p] = 0)
  BY <1>2 DEF Successor
<1>4. next[p] # Data
  BY DEF Headers
<1> QED
  BY <1>1, <1>2, <1>3, <1>4 DEF PieceOK

\* Pieces do not reach to the header behind them.
LEMMA PiecesApart ==
    ASSUME BlockAssumption, PiecesOK, NEW p \in Headers, NEW q \in Headers, p < q
    PROVE  p + size[p] < q /\ p < next[p] /\ next[p] <= q
<1>1. p \in Nat /\ q \in Nat /\ size[p] \in Nat /\ next[p] \in Nat
  BY HeaderFacts
<1>2. p < next[p] /\ next[p] <= q
  BY DEF PiecesOK, Circle, Successor
<1>3. p = 0 => size[p] = 0
  BY HeaderFacts
<1>4. p # 0 => p + size[p] < next[p]
  BY <1>1, <1>2, HeaderFacts
<1> QED
  BY <1>1, <1>2, <1>3, <1>4

\* The numbers of an object.
LEMMA ObjectFacts ==
    ASSUME BlockAssumption, BlockTyped, ObjectsOK, NEW o \in live
    PROVE  /\ o = <<o[1], o[2], o[3]>> /\ o[1] \in Nat /\ o[2] \in Nat /\ o[3] \in Aligns
           /\ o[1] \in Pos /\ o[1] >= 1 /\ o[2] >= 1 /\ o[1] + o[2] <= NHeaders
<1>1. o \in Pos \X Nat \X Aligns
  BY DEF BlockTyped
<1>2. Pos \subseteq Nat
  BY BlockFacts
<1>3. o = <<o[1], o[2], o[3]>> /\ o[1] \in Pos /\ o[2] \in Nat /\ o[3] \in Aligns
  BY <1>1
<1>4. o[1] >= 1 /\ o[2] >= 1 /\ o[1] + o[2] <= NHeaders
  BY DEF ObjectsOK, ObjectOK
<1> QED
  BY <1>2, <1>3, <1>4

\* There is no header where there is an object.
LEMMA NoHeaderUnderObject ==
    ASSUME BlockAssumption, BlockTyped, PiecesOK, ObjectsOK, NEW o \in live,
           NEW p \in Headers, p >= o[1]
    PROVE  p >= o[1] + o[2]
<1>1. o[1] \in Nat /\ o[2] \in Nat /\ o[1] >= 1
  BY ObjectFacts
<1>2. p \in Nat /\ size[p] \in Nat /\ (p # 0 => size[p] >= 1)
  BY HeaderFacts
<1>3. p + size[p] <= o[1] \/ o[1] + o[2] <= p
  BY DEF ObjectsOK, ObjectOK
<1> QED
  BY <1>1, <1>2, <1>3

-----------------------------------------------------------------------------
(* Steps that leave the block alone.                                        *)

LEMMA InitBlock == ASSUME BlockAssumption, BlockInit PROVE BlockInv
<1>1. /\ NHeaders \in Nat /\ NHeaders >= 2 /\ 0 \in Pos /\ 1 \in Pos /\ Pos \subseteq Nat
      /\ Data \notin Int
  BY BlockFacts
<1>2. next = FreshNext /\ size = FreshSize /\ freep = 0 /\ usage = 0 /\ op = NoOp
      /\ live = {} /\ released = FALSE
  BY DEF BlockInit
<1>3. next[0] = 1 /\ next[1] = 0 /\ size[0] = 0 /\ size[1] = NHeaders - 1
      /\ \A p \in Pos : p \notin {0, 1} => next[p] = Data
  BY <1>1, <1>2 DEF FreshNext, FreshSize
<1>4. Headers = {0, 1}
  <2>1. Data # 0 /\ Data # 1
    BY <1>1
  <2> QED
    BY <1>1, <1>3, <2>1 DEF Headers
<1>5. BlockTyped
  <2>1. next \in [Pos -> Pos \cup {Data}]
    BY <1>1, <1>2 DEF FreshNext
  <2>2. size \in [Pos -> Nat \cup {Data}]
    BY <1>1, <1>2 DEF FreshSize
  <2>3. op \in CallType
    BY <1>1, <1>2 DEF NoOp, CallType
  <2> QED
    BY <1>2, <2>1, <2>2, <2>3 DEF BlockTyped
<1>6. PiecesOK
  BY <1>1, <1>2, <1>3, <1>4 DEF PiecesOK, Circle, Successor, PieceOK
<1>7. ObjectsOK
  BY <1>2 DEF ObjectsOK
<1>8. Covered
  BY <1>1, <1>3, <1>4 DEF Covered, Free
<1>9. UsageExact
  <2>1. Used = {}
    BY <1>2 DEF Used, UsedBy
  <2> QED
    BY <1>2, <2>1, FS_EmptySet DEF UsageExact
<1>10. Returned /\ CallOK
  BY <1>2 DEF Returned, CallOK, NoOp
<1> QED
  BY <1>5, <1>6, <1>7, <1>8, <1>9, <1>10 DEF BlockInv

\* Only the call goes on.
LEMMA CallGoesOn ==
    ASSUME BlockInv, UNCHANGED <<next, size, freep, usage, live, released>>,
           op' \in CallType, released => op' = NoOp, CallOK'
    PROVE  BlockInv'
<1>1. BlockTyped' /\ Returned'
  BY DEF BlockInv, BlockTyped, Returned, Pos
<1>2. PiecesOK' /\ ObjectsOK' /\ Covered' /\ UsageExact'
  BY DEF BlockInv, PiecesOK, PieceOK, ObjectsOK, ObjectOK, Covered, Free, UsageExact, Used, UsedBy,
         Headers, Pos
<1> QED
  BY <1>1, <1>2 DEF BlockInv

LEMMA AllocatePreserves ==
    ASSUME BlockAssumption, BlockInv, NEW n \in 1 .. NHeaders, NEW al \in Aligns,
           allocate(n, al)
    PROVE  BlockInv'
<1>1. ~released /\ UNCHANGED <<next, size, freep, usage, live, released>>
      /\ op' = [name |-> "allocate", n |-> n, at |-> 0, align |-> al,
                prev |-> freep, cursor |-> next[freep]]
  BY DEF allocate
<1>2. freep \in Headers /\ PiecesOK
  BY DEF BlockInv, PiecesOK
<1>3. freep \in Pos /\ freep \in Nat /\ next[freep] \in Pos /\ 0 \in Pos /\ n \in Nat /\ n >= 1
      /\ al \in Nat /\ NHeaders \in Nat
  <2>1. next[freep] \in Headers
    BY <1>2, HeaderFacts
  <2> QED
    BY <1>2, <2>1, BlockFacts, HeaderFacts
<1>4. op' \in CallType
  BY <1>1, <1>3 DEF CallType
<1>5. CallOK'
  <2>1. op'.name = "allocate" /\ op'.n = n /\ op'.align = al /\ op'.prev = freep
        /\ op'.cursor = next[freep]
    BY <1>1
  <2>2. Headers' = Headers
    BY <1>1 DEF Headers, Pos
  <2>3. \A p \in Headers : ~(freep < p /\ p <= freep)
    <3>1. Headers \subseteq Nat
      BY BlockFacts DEF Headers
    <3> QED
      BY <1>3, <3>1
  <2>4. \A p \in Headers' : ~Seen(p)'
    BY <1>1, <1>3, <2>1, <2>2, <2>3 DEF Seen
  <2> QED
    BY <1>1, <1>2, <1>3, <2>1, <2>2, <2>4 DEF CallOK
<1> QED
  BY <1>1, <1>4, <1>5, CallGoesOn

\* The search goes on: one more header has been seen.
LEMMA SearchPreserves ==
    ASSUME BlockAssumption, BlockInv, search_on
    PROVE  BlockInv'
<1>1. op.name = "allocate" /\ ~Fits(op.cursor, op.n, op.align) /\ op.cursor # freep
      /\ op' = [op EXCEPT !.prev = op.cursor, !.cursor = next[op.cursor]]
      /\ UNCHANGED <<next, size, freep, usage, live, released>>
  BY DEF search_on
<1>2. op \in CallType /\ PiecesOK /\ freep \in Headers /\ op.n >= 1 /\ op.align \in Aligns
      /\ op.prev \in Headers /\ op.cursor = next[op.prev]
  BY <1>1 DEF BlockInv, BlockTyped, PiecesOK, CallOK
<1>3. \A p \in Headers : Seen(p) => ~Fits(p, op.n, op.align)
  BY <1>1 DEF BlockInv, CallOK
<1>4. op.cursor \in Headers /\ op.cursor \in Pos /\ op.cursor \in Nat /\ op.prev \in Nat
      /\ freep \in Nat /\ Headers \subseteq Nat
      /\ (op.cursor > op.prev \/ op.cursor = 0)
  BY <1>2, HeaderFacts
<1>5. next[op.cursor] \in Headers /\ next[op.cursor] \in Pos
  BY <1>2, <1>4, HeaderFacts
<1>6. op' \in CallType /\ op'.name = "allocate" /\ op'.n = op.n /\ op'.align = op.align
      /\ op'.prev = op.cursor /\ op'.cursor = next[op.cursor]
  BY <1>1, <1>2, <1>4, <1>5 DEF CallType
<1>7. ~released
  BY <1>1 DEF BlockInv, Returned, NoOp
<1>8. ASSUME NEW p \in Headers, p # op.cursor,
             IF op.cursor >= freep THEN freep < p /\ p <= op.cursor
                                   ELSE freep < p \/ p <= op.cursor
      PROVE  Seen(p)
  <2>1. p \in Nat
    BY <1>4
  <2>2. op.prev < p => op.cursor > op.prev /\ op.cursor <= p
    BY <1>2, PiecesApart
  <2>3. op.prev < freep => op.cursor > op.prev /\ op.cursor <= freep
    BY <1>2, PiecesApart
  <2> QED
    BY <1>1, <1>4, <1>8, <2>1, <2>2, <2>3 DEF Seen
<1>9. Headers' = Headers /\ \A p : Fits(p, op.n, op.align)' = Fits(p, op.n, op.align)
  BY <1>1 DEF Headers, Pos, Fits, PosAligned, PosUnaligned
<1>10. ASSUME NEW p \in Headers, Seen(p)'
       PROVE  ~Fits(p, op.n, op.align)
  <2>1. IF op.cursor >= freep THEN freep < p /\ p <= op.cursor
                              ELSE freep < p \/ p <= op.cursor
    BY <1>1, <1>6, <1>10 DEF Seen
  <2> QED
    BY <1>1, <1>3, <1>8, <2>1
<1>11. CallOK'
  <2>1. op'.prev \in Headers' /\ op'.cursor = next'[op'.prev]
    BY <1>1, <1>4, <1>6, <1>9
  <2>2. \A p \in Headers' : Seen(p)' => ~Fits(p, op.n, op.align)'
    <3> SUFFICES ASSUME NEW p \in Headers, Seen(p)' PROVE ~Fits(p, op.n, op.align)'
      BY <1>9
    <3>1. Fits(p, op.n, op.align)' = Fits(p, op.n, op.align)
      BY <1>1, <1>6 DEF Fits, PosAligned, PosUnaligned
    <3> QED
      BY <1>10, <3>1
  <2> QED
    BY <1>2, <1>6, <2>1, <2>2 DEF CallOK
<1> QED
  BY <1>1, <1>6, <1>7, <1>11, CallGoesOn

\* A call that ends has nothing to keep.
LEMMA ThrowPreserves ==
    ASSUME BlockAssumption, BlockInv, allocate_throws
    PROVE  BlockInv'
<1>1. op' = NoOp /\ UNCHANGED <<next, size, freep, usage, live, released>>
  BY DEF allocate_throws
<1>2. op' \in CallType /\ CallOK'
  BY <1>1, BlockFacts DEF CallType, CallOK, NoOp
<1> QED
  BY <1>1, <1>2, CallGoesOn

LEMMA DeallocatePreserves ==
    ASSUME BlockAssumption, BlockInv, NEW o \in live, deallocate(o)
    PROVE  BlockInv'
<1>1. op = NoOp /\ UNCHANGED <<next, size, freep, usage, live, released>>
      /\ op' = [NoOp EXCEPT !.name = "deallocate", !.n = o[2], !.at = o[1],
                            !.align = o[3], !.prev = freep]
  BY DEF deallocate
<1>2. freep \in Headers /\ PiecesOK /\ (released => live = {}) /\ BlockTyped /\ ObjectsOK
  BY DEF BlockInv, PiecesOK, Returned
<1>3. freep \in Pos /\ ~released
  BY <1>2, HeaderFacts
<1>4. o = <<o[1], o[2], o[3]>> /\ o[1] \in Pos /\ o[2] \in Nat /\ o[3] \in Nat
  BY <1>2, ObjectFacts, BlockFacts
<1>5. /\ op'.name = "deallocate" /\ op'.n = o[2] /\ op'.at = o[1] /\ op'.align = o[3]
      /\ op'.prev = freep /\ op' \in CallType
  BY <1>1, <1>3, <1>4, BlockFacts DEF NoOp, CallType
<1>6. Headers' = Headers /\ live' = live
  BY <1>1 DEF Headers, Pos
<1>7. CallOK'
  BY <1>2, <1>4, <1>5, <1>6 DEF CallOK
<1> QED
  BY <1>1, <1>3, <1>5, <1>7, CallGoesOn

LEMMA FindPreserves ==
    ASSUME BlockAssumption, BlockInv, find_on
    PROVE  BlockInv'
<1>1. op.name = "deallocate" /\ op' = [op EXCEPT !.prev = next[op.prev]]
      /\ UNCHANGED <<next, size, freep, usage, live, released>>
  BY DEF find_on
<1>2. op \in CallType /\ PiecesOK /\ <<op.at, op.n, op.align>> \in live /\ op.prev \in Headers
  BY <1>1 DEF BlockInv, BlockTyped, CallOK
<1>3. next[op.prev] \in Headers
  BY <1>2, HeaderFacts
<1>4. next[op.prev] \in Pos
  BY <1>3 DEF Headers
<1>5. /\ op' \in CallType /\ op'.name = "deallocate" /\ op'.prev = next[op.prev]
      /\ op'.at = op.at /\ op'.n = op.n /\ op'.align = op.align
  BY <1>1, <1>2, <1>4 DEF CallType
<1>6. Headers' = Headers /\ live' = live
  BY <1>1 DEF Headers, Pos
<1>7. CallOK'
  BY <1>2, <1>3, <1>5, <1>6 DEF CallOK
<1>8. ~released
  BY <1>1 DEF BlockInv, Returned, NoOp
<1> QED
  BY <1>1, <1>5, <1>7, <1>8, CallGoesOn

\* A block that is handed out again is as it was in the beginning.
LEMMA InitializePreserves ==
    ASSUME BlockAssumption, BlockInv, initialize
    PROVE  BlockInv'
<1>1. BlockInit'
  BY DEF initialize, BlockInit, BlockInv, Returned
<1>2. (BlockAssumption /\ BlockInit => BlockInv)'
  BY InitBlock, PTL
<1> QED
  BY <1>1, <1>2

-----------------------------------------------------------------------------
(* The call in progress, and the space of one object.                       *)

\* What a deallocation has in hand.
LEMMA CallOfDeallocate ==
    ASSUME BlockAssumption, BlockInv, op.name = "deallocate"
    PROVE  /\ <<op.at, op.n, op.align>> \in live /\ op.prev \in Headers /\ ~released
           /\ op.at \in Nat /\ op.at \in Pos /\ op.n \in Nat /\ op.at >= 1 /\ op.n >= 1
           /\ op.at + op.n <= NHeaders /\ op.prev \in Nat
           /\ BlockTyped /\ PiecesOK /\ ObjectsOK
<1>1. <<op.at, op.n, op.align>> \in live /\ op.prev \in Headers /\ PiecesOK /\ BlockTyped
      /\ ObjectsOK /\ (released => live = {})
  BY DEF BlockInv, CallOK, Returned
<1>2. PICK o \in live : o = <<op.at, op.n, op.align>>
  BY <1>1
<1>3. o[1] = op.at /\ o[2] = op.n
  BY <1>2
<1>4. op.prev \in Nat
  BY <1>1, HeaderFacts
<1> QED
  BY <1>1, <1>2, <1>3, <1>4, ObjectFacts

\* The space of the objects, and of one of them.
LEMMA SpaceOf ==
    ASSUME BlockAssumption, BlockTyped, ObjectsOK
    PROVE  /\ IsFiniteSet(Used) /\ Cardinality(Used) \in Nat
           /\ \A o \in live : /\ o[1] .. (o[1] + o[2] - 1) \subseteq Used
                              /\ Cardinality(o[1] .. (o[1] + o[2] - 1)) = o[2]
                              /\ IsFiniteSet(o[1] .. (o[1] + o[2] - 1))
<1>1. NHeaders \in Nat /\ NHeaders >= 2
  BY BlockFacts
<1>2. IsFiniteSet(Used)
  <2>1. IsFiniteSet(Pos)
    BY <1>1, FS_Interval DEF Pos
  <2>2. Used \in SUBSET Pos
    BY DEF Used, UsedBy
  <2> QED
    BY <2>1, <2>2, FS_Subset
<1>3. Cardinality(Used) \in Nat
  BY <1>2, FS_CardinalityType
<1>4. ASSUME NEW o \in live
      PROVE  /\ o[1] .. (o[1] + o[2] - 1) \subseteq Used
             /\ Cardinality(o[1] .. (o[1] + o[2] - 1)) = o[2]
             /\ IsFiniteSet(o[1] .. (o[1] + o[2] - 1))
  <2>1. o[1] \in Nat /\ o[2] \in Nat /\ o[1] >= 1 /\ o[2] >= 1 /\ o[1] + o[2] <= NHeaders
    BY ObjectFacts
  <2>2. o[1] .. (o[1] + o[2] - 1) \subseteq Used
    BY <1>1, <2>1 DEF Used, UsedBy, Within, Pos
  <2>3. PICK a \in Int, b \in Int : a = o[1] /\ b = o[1] + o[2] - 1
    BY <2>1
  <2>4. Cardinality(a .. b) = IF a > b THEN 0 ELSE b - a + 1
    BY <2>3, FS_Interval
  <2>5. IsFiniteSet(a .. b)
    BY <2>3, FS_Interval
  <2>6. Cardinality(a .. b) = o[2]
    BY <2>1, <2>3, <2>4
  <2> QED
    BY <2>2, <2>3, <2>5, <2>6
<1> QED
  BY <1>2, <1>3, <1>4

\* If the space in use is that of one object, there is no other.
LEMMA LastObject ==
    ASSUME BlockAssumption, BlockTyped, ObjectsOK, NEW o \in live, Cardinality(Used) = o[2]
    PROVE  live = {o}
<1> DEFINE Own == o[1] .. (o[1] + o[2] - 1)
<1>1. Used = Own
  <2>1. IsFiniteSet(Used) /\ Own \in SUBSET Used /\ Cardinality(Own) = o[2]
    BY SpaceOf
  <2> HIDE DEF Own
  <2> QED
    BY <2>1, FS_Subset
<1>2. ASSUME NEW u \in live, u # o
      PROVE  FALSE
  <2>1. u[1] \in Nat /\ u[2] \in Nat /\ u[2] >= 1 /\ o[1] \in Nat /\ o[2] \in Nat
    BY ObjectFacts
  <2>2. o[1] + o[2] <= u[1] \/ u[1] + u[2] <= o[1]
    BY <1>2 DEF ObjectsOK, ObjectOK
  <2>3. u[1] .. (u[1] + u[2] - 1) \subseteq Used
    BY SpaceOf
  <2>4. u[1] \in u[1] .. (u[1] + u[2] - 1)
    BY <2>1
  <2>5. u[1] \in Used
    BY <2>3, <2>4
  <2>6. u[1] \in Own
    <3> HIDE DEF Own
    <3> QED
      BY <1>1, <2>5
  <2> QED
    BY <2>1, <2>2, <2>6
<1> QED
  BY <1>2

\* The last object goes: nothing is in use, and the block is given back as it is.
LEMMA ReturnPreserves ==
    ASSUME BlockAssumption, BlockInv, return_block
    PROVE  BlockInv'
<1>1. /\ op.name = "deallocate" /\ usage = op.n /\ released' = TRUE /\ freep' = op.prev
      /\ usage' = 0 /\ live' = live \ {<<op.at, op.n, op.align>>} /\ op' = NoOp
      /\ UNCHANGED <<next, size>>
  BY DEF return_block, Deallocated
<1>2. <<op.at, op.n, op.align>> \in live /\ op.prev \in Headers /\ BlockTyped /\ PiecesOK
      /\ ObjectsOK /\ UsageExact
  BY <1>1, CallOfDeallocate DEF BlockInv
<1>3. live' = {}
  <2>1. PICK o \in live : o = <<op.at, op.n, op.align>>
    BY <1>2
  <2>2. Cardinality(Used) = o[2]
    BY <1>1, <1>2, <2>1 DEF UsageExact
  <2>3. live = {o}
    BY <1>2, <2>1, <2>2, LastObject
  <2> QED
    BY <1>1, <2>1, <2>3
<1>4. Headers' = Headers /\ Pos' = Pos
  BY <1>1 DEF Headers, Pos
<1>5. BlockTyped'
  BY <1>1, <1>2, <1>3, <1>4, BlockFacts DEF BlockTyped, CallType, NoOp
<1>6. PiecesOK'
  BY <1>1, <1>2, <1>4 DEF PiecesOK, PieceOK
<1>7. ObjectsOK' /\ Covered'
  BY <1>1, <1>3 DEF ObjectsOK, Covered
<1>8. UsageExact'
  <2>1. Used' = {}
    BY <1>3 DEF Used, UsedBy
  <2> QED
    BY <1>1, <2>1, FS_EmptySet DEF UsageExact
<1>9. Returned' /\ CallOK'
  BY <1>1, <1>3 DEF Returned, CallOK, NoOp
<1> QED
  BY <1>5, <1>6, <1>7, <1>8, <1>9 DEF BlockInv

-----------------------------------------------------------------------------
(* take: an object of n headers is cut from the piece at c, behind prev, at *)
(* pos; rest headers are left behind it.                                    *)

Cuts(c, prev, n, al, pos, rest) ==
    /\ c \in Headers /\ prev \in Headers /\ prev < c /\ next[prev] = c
    /\ n >= 1 /\ c <= pos /\ pos + n + rest = c + size[c]
    /\ (head_addr + pos) % al = 0

CutNext(c, prev, n, pos, rest, p) ==
    IF pos <= p /\ p < pos + n THEN Data
    ELSE IF rest # 0 /\ p = pos + n THEN next[c]
    ELSE IF p = (IF pos # c THEN c ELSE prev) THEN (IF rest # 0 THEN pos + n ELSE next[c])
    ELSE next[p]
CutSize(c, n, pos, rest, p) ==
    IF pos <= p /\ p < pos + n THEN Data
    ELSE IF rest # 0 /\ p = pos + n THEN rest
    ELSE IF p = c THEN pos - c
    ELSE size[p]
HasCut(c, prev, n, pos, rest) ==
    /\ next' = [p \in Pos |-> CutNext(c, prev, n, pos, rest, p)]
    /\ size' = [p \in Pos |-> CutSize(c, n, pos, rest, p)]

\* Where the headers around a cut are.
LEMMA CutFacts ==
    ASSUME BlockAssumption, PiecesOK,
           NEW c \in Nat, NEW prev \in Nat, NEW n \in Nat, NEW al \in Aligns,
           NEW pos \in Nat, NEW rest \in Nat, Cuts(c, prev, n, al, pos, rest)
    PROVE  /\ c >= 1 /\ c \in Pos /\ prev \in Pos /\ pos \in Pos
           /\ pos + n + rest <= NHeaders /\ size[c] \in Nat
           /\ next[c] \in Headers /\ next[c] \in Nat
           /\ next[c] = 0 \/ pos + n + rest < next[c]
           /\ \A p \in Headers : \/ p = c
                                 \/ p < c /\ p + size[p] < c
                                 \/ p > c /\ pos + n + rest < p
           /\ Headers \subseteq Nat
           /\ rest # 0 => pos + n \in Pos
<1>1. c \in Headers /\ prev \in Headers /\ prev < c
      /\ n >= 1 /\ c <= pos /\ pos + n + rest = c + size[c]
  BY DEF Cuts
<1>2. /\ c \in Pos /\ next[c] \in Headers /\ next[c] \in Nat /\ size[c] \in Nat
      /\ c + size[c] <= NHeaders /\ (next[c] # 0 => c = 0 \/ c + size[c] < next[c])
  BY <1>1, HeaderFacts
<1>3. NHeaders \in Nat /\ prev \in Pos
  BY <1>1, BlockFacts, HeaderFacts
<1>4. c >= 1
  BY <1>1
<1>5. pos \in Pos /\ (rest # 0 => pos + n \in Pos)
  BY <1>1, <1>2, <1>3 DEF Pos
<1>6. ASSUME NEW p \in Headers
      PROVE  /\ p \in Nat
             /\ \/ p = c
                \/ p < c /\ p + size[p] < c
                \/ p > c /\ pos + n + rest < p
  <2>1. p \in Nat /\ size[p] \in Nat
    BY HeaderFacts
  <2>2. p < c => p + size[p] < c
    BY <1>1, PiecesApart
  <2>3. p > c => c + size[c] < p
    BY <1>1, PiecesApart
  <2> QED
    BY <1>1, <2>1, <2>2, <2>3
<1>7. next[c] = 0 \/ pos + n + rest < next[c]
  BY <1>1, <1>2, <1>4
<1>8. pos + n + rest <= NHeaders
  BY <1>1, <1>2
<1> QED
  BY <1>2, <1>3, <1>4, <1>5, <1>6, <1>7, <1>8

\* What a taken object does to the block.
LEMMA TakeCuts ==
    ASSUME BlockAssumption, BlockInv, take
    PROVE  \E c, prev, n, pos, rest \in Nat, al \in Aligns :
              /\ Cuts(c, prev, n, al, pos, rest) /\ HasCut(c, prev, n, pos, rest)
              /\ live' = live \cup {<<pos, n, al>>}
              /\ freep' = prev /\ usage' = usage + n /\ op' = NoOp
              /\ UNCHANGED released /\ ~released
<1>1. /\ op.name = "allocate" /\ op.n >= 1 /\ op.align \in Aligns
      /\ op.prev \in Headers /\ op.cursor = next[op.prev] /\ ~released
      /\ BlockTyped /\ PiecesOK /\ op \in CallType
  BY DEF BlockInv, CallOK, take, Returned, NoOp, BlockTyped
<1>2. PICK c \in Nat, prev \in Nat, n \in Nat, al \in Aligns :
         c = op.cursor /\ prev = op.prev /\ n = op.n /\ al = op.align
  <2>1. op.cursor \in Nat /\ op.prev \in Nat /\ op.n \in Nat
    BY <1>1, BlockFacts DEF CallType
  <2> QED
    BY <1>1, <2>1
<1>3. prev \in Headers /\ next[prev] = c /\ n >= 1 /\ Fits(c, n, al)
  BY <1>1, <1>2 DEF take
<1>4. c \in Headers /\ (c > prev \/ c = 0)
  BY <1>1, <1>3, HeaderFacts
<1>5. /\ c \in Pos /\ prev \in Pos /\ size[c] \in Nat /\ c + size[c] <= NHeaders
      /\ size[c] >= n /\ (c = 0 => size[c] = 0) /\ NHeaders \in Nat
      /\ next[c] \in Pos
  <2>1. next[c] \in Headers /\ size[c] >= n
    BY <1>1, <1>3, <1>4, HeaderFacts DEF Fits
  <2> QED
    BY <1>1, <1>3, <1>4, <2>1, BlockFacts, HeaderFacts
<1>6. PICK pos \in Nat : pos = PosAligned(c, n, al)
  BY <1>5, CutIsAligned
<1>7. /\ pos + n <= c + size[c] /\ (al = 1 => pos = c + size[c] - n)
      /\ (head_addr + pos) % al = 0
  BY <1>5, <1>6, CutIsAligned
<1>8. pos >= c
  BY <1>3, <1>5, <1>6, <1>7 DEF Fits
<1>9. PICK rest \in Nat : pos + n + rest = c + size[c]
  <2>1. PICK s \in Nat : s = size[c]
    BY <1>5
  <2>2. c + s - (pos + n) \in Nat
    BY <1>5, <1>7, <2>1
  <2>3. pos + n + (c + s - (pos + n)) = c + s
    OBVIOUS
  <2> QED
    BY <2>1, <2>2, <2>3
<1>10. Cuts(c, prev, n, al, pos, rest)
  BY <1>3, <1>4, <1>5, <1>7, <1>8, <1>9 DEF Cuts
<1>11. PosUnaligned(c, n) - pos = rest
  BY <1>5, <1>9 DEF PosUnaligned
<1>12. /\ next' = LET pad   == pos + n
                      cut   == IF rest # 0 THEN [next EXCEPT ![pad] = next[c]] ELSE next
                      after == IF rest # 0 THEN pad ELSE next[c]
                  IN  Overwrite(IF pos # c THEN [cut EXCEPT ![c] = after]
                                ELSE [cut EXCEPT ![prev] = after], pos, n)
       /\ size' = LET pad == pos + n
                  IN  Overwrite(
                         IF rest = 0 /\ pos = c THEN size
                         ELSE IF rest = 0 THEN [size EXCEPT ![c] = @ - n]
                         ELSE IF pos = c THEN [size EXCEPT ![pad] = rest]
                         ELSE [size EXCEPT ![pad] = rest, ![c] = pos - c], pos, n)
       /\ live' = live \cup {<<pos, n, al>>}
       /\ freep' = prev /\ usage' = usage + n /\ op' = NoOp /\ released' = released
  BY <1>2, <1>6, <1>11 DEF take
<1>13. /\ \A p \in Pos : p \in Nat
       /\ next \in [Pos -> Pos \cup {Data}] /\ size \in [Pos -> Nat \cup {Data}]
       /\ \A p \in Pos : p \in pos .. pos + n - 1 <=> pos <= p /\ p < pos + n
       /\ (rest # 0 => pos + n \in Pos) /\ c # 0 /\ prev < c
  BY <1>1, <1>3, <1>4, <1>5, <1>9, BlockFacts DEF BlockTyped, Pos
<1>14. next' = [p \in Pos |-> CutNext(c, prev, n, pos, rest, p)]
  <2>1. CASE rest # 0 /\ pos # c
    BY <1>5, <1>8, <1>12, <1>13, <2>1 DEF CutNext, Overwrite
  <2>2. CASE rest # 0 /\ pos = c
    BY <1>5, <1>8, <1>12, <1>13, <2>2 DEF CutNext, Overwrite
  <2>3. CASE rest = 0 /\ pos # c
    BY <1>5, <1>8, <1>12, <1>13, <2>3 DEF CutNext, Overwrite
  <2>4. CASE rest = 0 /\ pos = c
    BY <1>5, <1>8, <1>12, <1>13, <2>4 DEF CutNext, Overwrite
  <2> QED
    BY <2>1, <2>2, <2>3, <2>4
<1>15. size' = [p \in Pos |-> CutSize(c, n, pos, rest, p)]
  <2>1. CASE rest # 0 /\ pos # c
    BY <1>3, <1>5, <1>8, <1>12, <1>13, <2>1 DEF CutSize, Overwrite
  <2>2. CASE rest # 0 /\ pos = c
    BY <1>3, <1>5, <1>8, <1>12, <1>13, <2>2 DEF CutSize, Overwrite
  <2>3. CASE rest = 0 /\ pos # c
    <3>1. size[c] - n = pos - c
      BY <1>5, <1>9, <2>3
    <3> QED
      BY <1>3, <1>5, <1>8, <1>12, <1>13, <2>3, <3>1 DEF CutSize, Overwrite
  <2>4. CASE rest = 0 /\ pos = c
    BY <1>3, <1>5, <1>8, <1>12, <1>13, <2>4 DEF CutSize, Overwrite
  <2> QED
    BY <2>1, <2>2, <2>3, <2>4
<1> WITNESS c \in Nat, prev \in Nat, n \in Nat, pos \in Nat, rest \in Nat, al \in Aligns
<1> QED
  BY <1>1, <1>10, <1>12, <1>14, <1>15 DEF HasCut

\* The headers after a cut.
LEMMA CutHeaders ==
    ASSUME BlockAssumption, BlockTyped, PiecesOK,
           NEW c \in Nat, NEW prev \in Nat, NEW n \in Nat, NEW al \in Aligns,
           NEW pos \in Nat, NEW rest \in Nat,
           Cuts(c, prev, n, al, pos, rest), HasCut(c, prev, n, pos, rest)
    PROVE  /\ Headers' = (Headers \cup (IF rest # 0 THEN {pos + n} ELSE {}))
                         \ (IF pos = c THEN {c} ELSE {})
           /\ rest # 0 => next'[pos + n] = next[c] /\ size'[pos + n] = rest
           /\ pos # c => /\ next'[c] = IF rest # 0 THEN pos + n ELSE next[c]
                         /\ size'[c] = pos - c
           /\ next'[prev] = IF pos # c THEN c ELSE IF rest # 0 THEN pos + n ELSE next[c]
           /\ \A p \in Headers \ {c} : size'[p] = size[p] /\ (p # prev => next'[p] = next[p])
<1>1. /\ c \in Headers /\ prev \in Headers /\ prev < c /\ n >= 1 /\ c <= pos /\ next[prev] = c
  BY DEF Cuts
<1>2. /\ c \in Pos /\ prev \in Pos /\ next[c] \in Headers /\ Headers \subseteq Nat
      /\ (rest # 0 => pos + n \in Pos) /\ Pos' = Pos /\ Headers \subseteq Pos
  BY CutFacts DEF Pos, Headers
<1>3. \A p \in Headers : p = c \/ p < c \/ (p > c /\ pos + n + rest < p)
  BY CutFacts
<1>4. /\ \A p \in Pos : next'[p] = CutNext(c, prev, n, pos, rest, p)
      /\ \A p \in Pos : size'[p] = CutSize(c, n, pos, rest, p)
  BY DEF HasCut
<1>5. \A p \in Pos : p \in Nat
  BY BlockFacts
<1>6. pos + n # Data /\ next[c] # Data
  BY <1>2, BlockFacts DEF Headers
<1>7. rest # 0 => next'[pos + n] = next[c] /\ size'[pos + n] = rest
  BY <1>2, <1>4 DEF CutNext, CutSize
<1>8. pos # c => /\ next'[c] = IF rest # 0 THEN pos + n ELSE next[c]
                 /\ size'[c] = pos - c
  BY <1>1, <1>2, <1>4 DEF CutNext, CutSize
<1>9. next'[prev] = IF pos # c THEN c ELSE IF rest # 0 THEN pos + n ELSE next[c]
  BY <1>1, <1>2, <1>4 DEF CutNext
<1>10. ASSUME NEW p \in Headers, p # c
       PROVE  size'[p] = size[p] /\ (p # prev => next'[p] = next[p])
  <2>1. p \in Pos /\ p \in Nat /\ (p < c \/ (p > c /\ pos + n + rest < p))
    BY <1>2, <1>3, <1>10
  <2>2. size'[p] = CutSize(c, n, pos, rest, p) /\ next'[p] = CutNext(c, prev, n, pos, rest, p)
    BY <1>4, <2>1
  <2>3. ~(pos <= p /\ p < pos + n) /\ ~(rest # 0 /\ p = pos + n)
    BY <1>1, <2>1
  <2> QED
    BY <1>10, <2>2, <2>3 DEF CutNext, CutSize
<1>11. ASSUME NEW p \in Pos
       PROVE  p \in Headers' <=> \/ p \in Headers /\ ~(pos = c /\ p = c)
                                 \/ rest # 0 /\ p = pos + n
  <2>1. p \in Headers' <=> next'[p] # Data
    BY <1>2 DEF Headers
  <2>2. p \in Headers <=> next[p] # Data
    BY DEF Headers
  <2>3. CASE p \in Headers /\ p # c /\ p # prev
    BY <1>10, <2>1, <2>2, <2>3
  <2>4. CASE p = c
    <3>1. c # pos + n
      BY <1>1
    <3>2. pos # c => p \in Headers'
      BY <1>6, <1>8, <2>1, <2>4
    <3>3. pos = c => next'[p] = Data
      BY <1>1, <1>2, <1>4, <2>4 DEF CutNext
    <3> QED
      BY <1>1, <2>1, <2>4, <3>1, <3>2, <3>3
  <2>5. CASE p = prev
    <3>1. c # Data
      BY BlockFacts
    <3> QED
      BY <1>1, <1>6, <1>9, <2>1, <2>5, <3>1
  <2>6. CASE p \notin Headers /\ rest # 0 /\ p = pos + n
    BY <1>6, <1>7, <2>1, <2>6
  <2>7. CASE p \notin Headers /\ ~(rest # 0 /\ p = pos + n)
    <3>1. p # c /\ p # prev /\ next[p] = Data
      BY <1>1, <2>2, <2>7
    <3>2. next'[p] = Data
      BY <1>4, <2>7, <3>1 DEF CutNext
    <3> QED
      BY <2>1, <2>7, <3>2
  <2> QED
    BY <2>3, <2>4, <2>5, <2>6, <2>7
<1>12. Headers' \subseteq Pos
  BY <1>2 DEF Headers
<1>13. Headers' = (Headers \cup (IF rest # 0 THEN {pos + n} ELSE {}))
                  \ (IF pos = c THEN {c} ELSE {})
  <2>1. rest # 0 => pos + n # c
    BY <1>1
  <2> QED
    BY <1>2, <1>11, <1>12, <2>1
<1> QED
  BY <1>7, <1>8, <1>9, <1>10, <1>13

\* The circle after a cut: what is left behind the object is put in, a piece of
\* which nothing is left before the object is taken out.
LEMMA CutCircle ==
    ASSUME BlockAssumption, BlockTyped, PiecesOK,
           NEW c \in Nat, NEW prev \in Nat, NEW n \in Nat, NEW al \in Aligns,
           NEW pos \in Nat, NEW rest \in Nat,
           Cuts(c, prev, n, al, pos, rest), HasCut(c, prev, n, pos, rest)
    PROVE  Circle(next', Headers')
<1>1. /\ c \in Headers /\ prev \in Headers /\ prev < c /\ n >= 1 /\ c <= pos /\ next[prev] = c
  BY DEF Cuts
<1>2. /\ c \in Pos /\ Headers \in SUBSET Nat /\ (rest # 0 => pos + n \in Pos) /\ c >= 1
      /\ Headers \subseteq Pos /\ (next[c] = 0 \/ pos + n + rest < next[c]) /\ next[c] \in Nat
      /\ \A p \in Headers : p = c \/ p < c \/ (p > c /\ pos + n + rest < p)
  BY CutFacts DEF Headers
<1>3. Circle(next, Headers)
  BY DEF PiecesOK
<1>4. PICK g : g = next'
  OBVIOUS
<1>5. PICK f : f = IF rest # 0 THEN [p \in Pos |-> IF p = pos + n THEN next[c]
                                                   ELSE IF p = c THEN pos + n ELSE next[p]]
                   ELSE next
  OBVIOUS
<1>6. PICK H \in SUBSET Nat : H = Headers \cup (IF rest # 0 THEN {pos + n} ELSE {})
  <2>1. Headers \cup (IF rest # 0 THEN {pos + n} ELSE {}) \in SUBSET Nat
    <3>1. pos + n \in Nat
      OBVIOUS
    <3> QED
      BY <1>2, <3>1
  <2> QED
    BY <2>1
<1>7. \A p \in Headers : p # pos + n
  BY <1>1, <1>2
<1>8. rest # 0 => /\ f[pos + n] = next[c] /\ f[c] = pos + n
                  /\ \A p \in Headers \ {c} : f[p] = next[p]
  BY <1>1, <1>2, <1>5, <1>7
<1>9. rest = 0 => f = next /\ H = Headers
  BY <1>5, <1>6
<1>10. Circle(f, H)
  <2>1. CASE rest # 0
    <3>1. \A p \in Headers : p # c => f[p] = next[p]
      BY <1>8, <2>1
    <3>2. PICK x \in Nat : x = pos + n
      OBVIOUS
    <3>3. x > c /\ (next[c] = 0 \/ x < next[c]) /\ f[c] = x /\ f[x] = next[c]
          /\ H = Headers \cup {x}
      BY <1>1, <1>2, <1>6, <1>8, <2>1, <3>2
    <3>4. Circle(f, Headers \cup {x})
      BY <1>1, <1>2, <1>3, <3>1, <3>3, CircleInserts
    <3> QED
      BY <3>3, <3>4
  <2> QED
    BY <1>3, <1>9, <2>1
<1>11. Headers' = H \ (IF pos = c THEN {c} ELSE {})
  BY <1>6, CutHeaders
<1>12. /\ rest # 0 => g[pos + n] = next[c]
       /\ pos # c => g[c] = f[c]
       /\ g[prev] = IF pos # c THEN c ELSE f[c]
       /\ \A p \in Headers \ {c} : p # prev => g[p] = next[p]
  <2>1. f[c] = IF rest # 0 THEN pos + n ELSE next[c]
    BY <1>8, <1>9
  <2> QED
    BY <1>4, <2>1, CutHeaders
<1>13. f[prev] = c /\ prev # c /\ prev \in H /\ c \in H
  BY <1>1, <1>6, <1>8, <1>9
<1>14. ASSUME NEW p \in H, p # c, p # prev
       PROVE  g[p] = f[p]
  BY <1>6, <1>8, <1>9, <1>12, <1>14
<1>15. CASE pos = c
  <2>1. \A p \in H \ {c} : p # prev => g[p] = f[p]
    BY <1>14
  <2>2. g[prev] = f[c] /\ c # 0 /\ c = f[prev]
    BY <1>2, <1>12, <1>13, <1>15
  <2>3. Circle(g, H \ {c})
    BY <1>10, <1>13, <2>1, <2>2, CircleRemoves
  <2> QED
    BY <1>4, <1>11, <1>15, <2>3
<1>16. CASE pos # c
  <2>1. \A p \in H : g[p] = f[p]
    BY <1>12, <1>13, <1>14, <1>16
  <2>2. Circle(g, H)
    BY <1>10, <2>1 DEF Circle, Successor
  <2> QED
    BY <1>4, <1>11, <1>16, <2>2
<1> QED
  BY <1>15, <1>16

LEMMA CutPieces ==
    ASSUME BlockAssumption, BlockTyped, PiecesOK,
           NEW c \in Nat, NEW prev \in Nat, NEW n \in Nat, NEW al \in Aligns,
           NEW pos \in Nat, NEW rest \in Nat,
           Cuts(c, prev, n, al, pos, rest), HasCut(c, prev, n, pos, rest)
    PROVE  prev \in Headers' /\ \A p \in Headers' : PieceOK(p)'
<1>1. /\ c \in Headers /\ prev \in Headers /\ prev < c /\ n >= 1 /\ c <= pos /\ next[prev] = c
      /\ pos + n + rest = c + size[c]
  BY DEF Cuts
<1>2. /\ c \in Pos /\ c >= 1 /\ pos + n + rest <= NHeaders /\ size[c] \in Nat
      /\ (next[c] = 0 \/ pos + n + rest < next[c]) /\ next[c] \in Nat
      /\ NHeaders \in Nat /\ Headers \subseteq Nat
  BY CutFacts, BlockFacts
<1>3. /\ Headers' = (Headers \cup (IF rest # 0 THEN {pos + n} ELSE {}))
                    \ (IF pos = c THEN {c} ELSE {})
      /\ rest # 0 => next'[pos + n] = next[c] /\ size'[pos + n] = rest
      /\ pos # c => /\ next'[c] = IF rest # 0 THEN pos + n ELSE next[c]
                    /\ size'[c] = pos - c
      /\ next'[prev] = IF pos # c THEN c ELSE IF rest # 0 THEN pos + n ELSE next[c]
      /\ \A p \in Headers \ {c} : size'[p] = size[p] /\ (p # prev => next'[p] = next[p])
  BY CutHeaders
<1>4. prev \in Headers'
  BY <1>1, <1>2, <1>3
<1>5. ASSUME NEW p \in Headers'
      PROVE  /\ size'[p] \in Nat /\ p + size'[p] <= NHeaders
             /\ IF p = 0 THEN size'[p] = 0
                ELSE size'[p] >= 1 /\ (next'[p] # 0 => p + size'[p] < next'[p])
  <2>1. CASE rest # 0 /\ p = pos + n
    BY <1>1, <1>2, <1>3, <2>1
  <2>2. CASE p = c /\ pos # c
    BY <1>1, <1>2, <1>3, <2>2
  <2>3. CASE p \in Headers /\ p # c
    <3>1. /\ p \in Nat /\ next[p] \in Nat /\ size[p] \in Nat /\ p + size[p] <= NHeaders
          /\ p = 0 => size[p] = 0
          /\ p # 0 => size[p] >= 1 /\ (next[p] # 0 => p + size[p] < next[p])
      BY <2>3, HeaderFacts
    <3>2. size'[p] = size[p] /\ (p # prev => next'[p] = next[p])
      BY <1>3, <2>3
    <3>3. CASE p = prev
      <4>1. next'[p] = c \/ next'[p] = pos + n \/ next'[p] = next[c]
        BY <1>3, <3>3
      <4>2. p # 0 => p + size[p] < c
        BY <1>1, <1>2, <3>1, <3>3
      <4> QED
        BY <1>1, <1>2, <3>1, <3>2, <4>1, <4>2
    <3> QED
      BY <3>1, <3>2, <3>3
  <2> QED
    BY <1>3, <2>1, <2>2, <2>3
<1> QED
  BY <1>4, <1>5 DEF PieceOK

\* The new object has its space alone, and nothing is lost.
LEMMA CutObjects ==
    ASSUME BlockAssumption, BlockTyped, PiecesOK, ObjectsOK,
           NEW c \in Nat, NEW prev \in Nat, NEW n \in Nat, NEW al \in Aligns,
           NEW pos \in Nat, NEW rest \in Nat,
           Cuts(c, prev, n, al, pos, rest), HasCut(c, prev, n, pos, rest),
           live' = live \cup {<<pos, n, al>>}
    PROVE  /\ ObjectsOK'
           /\ \A o \in live : o[1] + o[2] <= pos \/ pos + n <= o[1]
<1>1. /\ c \in Headers /\ n >= 1 /\ c <= pos /\ pos + n + rest = c + size[c]
      /\ (head_addr + pos) % al = 0
  BY DEF Cuts
<1>2. /\ c >= 1 /\ pos + n + rest <= NHeaders /\ size[c] \in Nat /\ Headers \subseteq Nat
      /\ \A p \in Headers : p = c \/ (p < c /\ p + size[p] < c)
                            \/ (p > c /\ pos + n + rest < p)
  BY CutFacts
<1>3. /\ Headers' = (Headers \cup (IF rest # 0 THEN {pos + n} ELSE {}))
                    \ (IF pos = c THEN {c} ELSE {})
      /\ rest # 0 => size'[pos + n] = rest
      /\ pos # c => size'[c] = pos - c
      /\ \A p \in Headers \ {c} : size'[p] = size[p]
  BY CutHeaders
<1>4. NHeaders \in Nat
  BY BlockFacts
<1>5. ASSUME NEW o \in live
      PROVE  /\ o[1] \in Nat /\ o[2] \in Nat /\ o[1] >= 1 /\ o[2] >= 1 /\ o[1] + o[2] <= NHeaders
             /\ pos + n + rest <= o[1] \/ o[1] + o[2] <= c
             /\ (head_addr + o[1]) % o[3] = 0
             /\ \A u \in live : u # o => o[1] + o[2] <= u[1] \/ u[1] + u[2] <= o[1]
             /\ \A p \in Headers : p + size[p] <= o[1] \/ o[1] + o[2] <= p
  <2>1. ObjectOK(o)
    BY DEF ObjectsOK
  <2>2. o[1] \in Nat /\ o[2] \in Nat
    BY ObjectFacts
  <2> QED
    BY <1>1, <2>1, <2>2 DEF ObjectOK
<1>6. \A o \in live : o[1] + o[2] <= pos \/ pos + n <= o[1]
  BY <1>1, <1>5
<1>7. ASSUME NEW o \in live
      PROVE  ObjectOK(o)'
  <2>1. \A u \in live' : u # o => o[1] + o[2] <= u[1] \/ u[1] + u[2] <= o[1]
    <3>1. <<pos, n, al>>[1] = pos /\ <<pos, n, al>>[2] = n
      OBVIOUS
    <3> QED
      BY <1>5, <1>6, <3>1
  <2>2. ASSUME NEW p \in Headers'
        PROVE  p + size'[p] <= o[1] \/ o[1] + o[2] <= p
    <3>1. CASE p \in Headers /\ p # c
      BY <1>3, <1>5, <3>1
    <3>2. CASE p = c /\ pos # c
      BY <1>1, <1>3, <1>5, <3>2
    <3>3. CASE rest # 0 /\ p = pos + n
      BY <1>1, <1>3, <1>5, <3>3
    <3> QED
      BY <1>3, <3>1, <3>2, <3>3
  <2> QED
    BY <1>5, <2>1, <2>2 DEF ObjectOK
<1>8. ASSUME NEW o, o = <<pos, n, al>>
      PROVE  ObjectOK(o)'
  <2>1. o[1] = pos /\ o[2] = n /\ o[3] = al
    BY <1>8
  <2>2. \A u \in live' : u # o => o[1] + o[2] <= u[1] \/ u[1] + u[2] <= o[1]
    BY <1>6, <1>8, <2>1
  <2>3. ASSUME NEW p \in Headers'
        PROVE  p + size'[p] <= pos \/ pos + n <= p
    <3>1. CASE p \in Headers /\ p # c
      <4>1. p \in Nat /\ size[p] \in Nat /\ size'[p] = size[p]
        BY <1>3, <3>1, HeaderFacts
      <4>2. (p < c /\ p + size[p] < c) \/ (p > c /\ pos + n + rest < p)
        BY <1>2, <3>1
      <4> QED
        BY <1>1, <4>1, <4>2
    <3>2. CASE p = c /\ pos # c
      BY <1>3, <3>2
    <3>3. CASE rest # 0 /\ p = pos + n
      BY <3>3
    <3> QED
      BY <1>3, <3>1, <3>2, <3>3
  <2>4. pos >= 1 /\ pos + n <= NHeaders
    BY <1>1, <1>2, <1>4
  <2> QED
    BY <1>1, <2>1, <2>2, <2>3, <2>4 DEF ObjectOK
<1> QED
  BY <1>6, <1>7, <1>8 DEF ObjectsOK

LEMMA CutCovers ==
    ASSUME BlockAssumption, BlockTyped, PiecesOK, Covered, ~released, ~released',
           NEW c \in Nat, NEW prev \in Nat, NEW n \in Nat, NEW al \in Aligns,
           NEW pos \in Nat, NEW rest \in Nat,
           Cuts(c, prev, n, al, pos, rest), HasCut(c, prev, n, pos, rest),
           live' = live \cup {<<pos, n, al>>}
    PROVE  Covered'
<1>1. c \in Headers /\ c <= pos /\ pos + n + rest = c + size[c]
  BY DEF Cuts
<1>2. /\ Headers' = (Headers \cup (IF rest # 0 THEN {pos + n} ELSE {}))
                    \ (IF pos = c THEN {c} ELSE {})
      /\ rest # 0 => size'[pos + n] = rest
      /\ pos # c => size'[c] = pos - c
      /\ \A p \in Headers \ {c} : size'[p] = size[p]
  BY CutHeaders
<1>3. ASSUME NEW x \in 1 .. NHeaders - 1
      PROVE  Free(x)' \/ \E o \in live' : Within(o, x)
  <2>1. Free(x) \/ \E o \in live : Within(o, x)
    BY DEF Covered
  <2>2. CASE \E o \in live : Within(o, x)
    BY <2>2
  <2>3. CASE Free(x)
    <3>1. PICK p \in Headers : p <= x /\ x < p + size[p]
      BY <2>3 DEF Free
    <3>2. x \in Nat
      BY BlockFacts
    <3>3. CASE p # c
      <4>1. p \in Headers' /\ size'[p] = size[p]
        BY <1>2, <3>1, <3>3
      <4> QED
        BY <3>1, <4>1 DEF Free
    <3>4. CASE p = c /\ x < pos
      <4>1. c \in Headers' /\ c <= x /\ x < c + size'[c]
        <5>1. pos # c
          BY <3>1, <3>2, <3>4
        <5>2. size'[c] = pos - c /\ c \in Headers'
          BY <1>1, <1>2, <5>1
        <5> QED
          BY <3>1, <3>2, <3>4, <5>2
      <4> QED
        BY <4>1 DEF Free
    <3>5. CASE pos <= x /\ x < pos + n
      <4>1. <<pos, n, al>>[1] = pos /\ <<pos, n, al>>[2] = n
        OBVIOUS
      <4>2. Within(<<pos, n, al>>, x) /\ <<pos, n, al>> \in live'
        BY <3>5, <4>1 DEF Within
      <4> QED
        BY <4>2
    <3>6. CASE p = c /\ x >= pos + n
      <4>1. rest # 0 /\ x < pos + n + rest
        BY <1>1, <3>1, <3>2, <3>6
      <4>2. pos + n \in Headers' /\ size'[pos + n] = rest
        <5>1. n >= 1
          BY DEF Cuts
        <5>2. pos + n # c
          BY <1>1, <5>1
        <5> QED
          BY <1>2, <4>1, <5>2
      <4>3. pos + n \in Headers' /\ pos + n <= x /\ x < (pos + n) + size'[pos + n]
        BY <3>6, <4>1, <4>2
      <4> QED
        BY <4>3 DEF Free
    <3> QED
      BY <3>2, <3>3, <3>4, <3>5, <3>6
  <2> QED
    BY <2>1, <2>2, <2>3
<1> QED
  BY <1>3 DEF Covered, Within

\* One more object takes its size more of the block.
LEMMA SpaceAdds ==
    ASSUME BlockAssumption, NEW L, NEW o, o[1] \in Nat, o[2] \in Nat, o[1] + o[2] <= NHeaders,
           \A u \in L : /\ u[1] \in Nat /\ u[2] \in Nat
                        /\ o[1] + o[2] <= u[1] \/ u[1] + u[2] <= o[1]
    PROVE  Cardinality(UsedBy(L \cup {o})) = Cardinality(UsedBy(L)) + o[2]
           /\ Cardinality(UsedBy(L)) \in Nat
<1>1. PICK a \in Int, b \in Int : a = o[1] /\ b = o[1] + o[2] - 1
  OBVIOUS
<1>2. Cardinality(a .. b) = o[2] /\ IsFiniteSet(a .. b)
  <2>1. Cardinality(a .. b) = IF a > b THEN 0 ELSE b - a + 1
    BY <1>1, FS_Interval
  <2>2. IsFiniteSet(a .. b)
    BY <1>1, FS_Interval
  <2>3. PICK m \in Nat : m = o[2]
    OBVIOUS
  <2>4. b - a + 1 = m /\ (a > b => m = 0)
    BY <1>1, <2>3
  <2> QED
    BY <2>1, <2>2, <2>3, <2>4
<1>3. NHeaders \in Nat /\ (\A x \in Pos : x \in Nat)
  BY BlockFacts
<1>4. IsFiniteSet(UsedBy(L))
  <2>1. IsFiniteSet(Pos)
    BY <1>3, FS_Interval DEF Pos
  <2>2. UsedBy(L) \in SUBSET Pos
    BY DEF UsedBy
  <2> QED
    BY <2>1, <2>2, FS_Subset
<1>5. UsedBy(L \cup {o}) = UsedBy(L) \cup (a .. b)
  <2>1. \A x \in a .. b : x \in Pos /\ Within(o, x)
    BY <1>1, <1>3 DEF Within, Pos
  <2>2. \A x \in Pos : Within(o, x) => x \in a .. b
    BY <1>1, <1>3 DEF Within
  <2> QED
    BY <2>1, <2>2 DEF UsedBy
<1>6. UsedBy(L) \cap (a .. b) = {}
  <2> SUFFICES ASSUME NEW x \in UsedBy(L), x \in a .. b PROVE FALSE
    OBVIOUS
  <2>1. PICK u \in L : Within(u, x)
    BY DEF UsedBy
  <2>2. x \in Nat
    BY <1>3 DEF UsedBy
  <2> QED
    BY <1>1, <2>1, <2>2 DEF Within
<1>7. Cardinality(UsedBy(L)) \in Nat
  BY <1>4, FS_CardinalityType
<1>8. PICK S, T : S = UsedBy(L) /\ T = a .. b
  OBVIOUS
<1>9. Cardinality(S \cup T) = Cardinality(S) + Cardinality(T) - Cardinality(S \cap T)
  BY <1>2, <1>4, <1>8, FS_Union
<1>10. Cardinality(S \cap T) = 0
  BY <1>6, <1>8, FS_EmptySet
<1>11. Cardinality(UsedBy(L \cup {o})) = Cardinality(S) + Cardinality(T) - 0
  BY <1>5, <1>8, <1>9, <1>10
<1> QED
  BY <1>2, <1>7, <1>8, <1>11

LEMMA TakePreserves ==
    ASSUME BlockAssumption, BlockInv, take
    PROVE  BlockInv'
<1>1. PICK c \in Nat, prev \in Nat, n \in Nat, pos \in Nat, rest \in Nat, al \in Aligns :
         /\ Cuts(c, prev, n, al, pos, rest) /\ HasCut(c, prev, n, pos, rest)
         /\ live' = live \cup {<<pos, n, al>>}
         /\ freep' = prev /\ usage' = usage + n /\ op' = NoOp
         /\ UNCHANGED released /\ ~released
  BY TakeCuts
<1>2. BlockTyped /\ PiecesOK /\ ObjectsOK /\ Covered /\ UsageExact
  BY DEF BlockInv
<1>3. pos \in Pos /\ (rest # 0 => pos + n \in Pos) /\ Pos \subseteq Nat /\ NHeaders \in Nat
      /\ pos + n + rest <= NHeaders /\ c \in Pos /\ prev \in Pos /\ next[c] \in Pos
  <2>1. next[c] \in Headers /\ Headers \subseteq Pos
    BY <1>1, <1>2, CutFacts DEF Headers
  <2> QED
    BY <1>1, <1>2, <2>1, CutFacts, BlockFacts
<1>4. BlockTyped'
  <2>1. next' \in [Pos -> Pos \cup {Data}]
    <3>1. \A p \in Pos : CutNext(c, prev, n, pos, rest, p) \in Pos \cup {Data}
      BY <1>2, <1>3 DEF CutNext, BlockTyped
    <3> QED
      BY <1>1, <3>1 DEF HasCut
  <2>2. size' \in [Pos -> Nat \cup {Data}]
    <3>1. pos - c \in Nat
      BY <1>1 DEF Cuts
    <3>2. \A p \in Pos : CutSize(c, n, pos, rest, p) \in Nat \cup {Data}
      BY <1>2, <3>1 DEF CutSize, BlockTyped
    <3> QED
      BY <1>1, <3>2 DEF HasCut
  <2>3. live' \subseteq Pos \X Nat \X Aligns
    BY <1>1, <1>2, <1>3 DEF BlockTyped
  <2>4. op' \in CallType /\ usage' \in Nat /\ released' \in BOOLEAN
    BY <1>1, <1>2, BlockFacts DEF BlockTyped, CallType, NoOp
  <2>5. Pos' = Pos /\ CallType' = CallType
    BY DEF Pos, CallType
  <2> QED
    BY <2>1, <2>2, <2>3, <2>4, <2>5 DEF BlockTyped
<1>5. PiecesOK'
  <2>1. Circle(next', Headers')
    BY <1>1, <1>2, CutCircle
  <2>2. freep' \in Headers' /\ \A p \in Headers' : PieceOK(p)'
    BY <1>1, <1>2, CutPieces
  <2> QED
    BY <2>1, <2>2 DEF PiecesOK
<1>6. ObjectsOK' /\ \A o \in live : o[1] + o[2] <= pos \/ pos + n <= o[1]
  BY <1>1, <1>2, CutObjects
<1>7. Covered'
  BY <1>1, <1>2, CutCovers
<1>8. UsageExact'
  <2>1. PICK o : o = <<pos, n, al>> /\ o[1] = pos /\ o[2] = n
    <3>1. <<pos, n, al>>[1] = pos /\ <<pos, n, al>>[2] = n
      OBVIOUS
    <3> QED
      BY <3>1
  <2>2. \A u \in live : /\ u[1] \in Nat /\ u[2] \in Nat
                        /\ o[1] + o[2] <= u[1] \/ u[1] + u[2] <= o[1]
    BY <1>2, <1>6, <2>1, ObjectFacts
  <2>3. o[1] \in Nat /\ o[2] \in Nat /\ o[1] + o[2] <= NHeaders
    BY <1>3, <2>1
  <2>4. Cardinality(UsedBy(live \cup {o})) = Cardinality(UsedBy(live)) + n
    BY <2>1, <2>2, <2>3, SpaceAdds
  <2>5. Used' = UsedBy(live \cup {o}) /\ Used = UsedBy(live)
    BY <1>1, <2>1 DEF Used, UsedBy, Pos
  <2> QED
    BY <1>1, <1>2, <2>4, <2>5 DEF UsageExact
<1>9. Returned' /\ CallOK'
  BY <1>1 DEF Returned, CallOK, NoOp
<1> QED
  BY <1>4, <1>5, <1>6, <1>7, <1>8, <1>9 DEF BlockInv

-----------------------------------------------------------------------------
(* give_back: n headers at `at` become free, between the pieces at prev and *)
(* at its successor succ, and are joined with those that they touch.        *)

Touches(p, at)          == p + size[p] = at
Piece(prev, at)         == IF Touches(prev, at) THEN prev ELSE at
Gained(prev, succ, at, n) == (IF Touches(prev, at) THEN size[prev] ELSE 0) + n
                             + (IF at + n = succ THEN size[succ] ELSE 0)

Gives(prev, succ, at, n) ==
    /\ prev \in Headers /\ succ = next[prev] /\ succ \in Headers
    /\ n >= 1 /\ at >= 1 /\ at + n <= NHeaders
    /\ prev < at /\ prev + size[prev] <= at /\ at \notin Headers
    /\ succ # 0 => at + n <= succ
    /\ \A p \in Headers : p <= prev \/ (succ # 0 /\ succ <= p)

GivenNext(prev, succ, at, n, p) ==
    IF at + n = succ /\ p = succ THEN Data
    ELSE IF p = Piece(prev, at) THEN (IF at + n = succ THEN next[succ] ELSE succ)
    ELSE IF p = prev THEN at
    ELSE next[p]
GivenSize(prev, succ, at, n, p) ==
    IF at + n = succ /\ p = succ THEN Data
    ELSE IF p = Piece(prev, at) THEN Gained(prev, succ, at, n)
    ELSE size[p]
HasGiven(prev, succ, at, n) ==
    /\ next' = [p \in Pos |-> GivenNext(prev, succ, at, n, p)]
    /\ size' = [p \in Pos |-> GivenSize(prev, succ, at, n, p)]

\* What a deallocation that has found its place does to the block.
LEMMA GiveBackGives ==
    ASSUME BlockAssumption, BlockInv, give_back
    PROVE  \E prev, succ, at, n \in Nat : \E o \in live :
              /\ Gives(prev, succ, at, n) /\ HasGiven(prev, succ, at, n)
              /\ o[1] = at /\ o[2] = n /\ live' = live \ {o}
              /\ freep' = prev /\ usage' = usage - n /\ op' = NoOp
              /\ UNCHANGED released /\ ~released
<1>1. op.name = "deallocate" /\ Between(op.prev, op.at)
  BY DEF give_back, Deallocated
<1>2. /\ <<op.at, op.n, op.align>> \in live /\ op.prev \in Headers /\ ~released
      /\ op.at \in Nat /\ op.at \in Pos /\ op.n \in Nat /\ op.at >= 1 /\ op.n >= 1
      /\ op.at + op.n <= NHeaders /\ op.prev \in Nat
      /\ BlockTyped /\ PiecesOK /\ ObjectsOK
  BY <1>1, CallOfDeallocate
<1>3. PICK o \in live : o = <<op.at, op.n, op.align>> /\ o[1] = op.at /\ o[2] = op.n
  <2>1. <<op.at, op.n, op.align>>[1] = op.at /\ <<op.at, op.n, op.align>>[2] = op.n
    OBVIOUS
  <2> QED
    BY <1>2, <2>1
<1>4. next[op.prev] \in Nat /\ next[op.prev] \in Headers
  BY <1>2, HeaderFacts
<1>5. PICK prev \in Nat, succ \in Nat, at \in Nat, n \in Nat :
         prev = op.prev /\ succ = next[op.prev] /\ at = op.at /\ n = op.n
  BY <1>2, <1>4
<1>6. /\ prev \in Headers /\ succ \in Headers /\ succ = next[prev] /\ n >= 1 /\ at >= 1
      /\ at \in Pos /\ at + n <= NHeaders /\ Between(prev, at) /\ o[1] = at /\ o[2] = n
  BY <1>1, <1>2, <1>3, <1>4, <1>5
<1>7. (succ > prev \/ succ = 0) /\ size[prev] \in Nat
  BY <1>2, <1>6, HeaderFacts
<1>8. prev < at /\ (succ # 0 => at < succ)
  BY <1>6, <1>7 DEF Between
<1>9. \A p \in Headers : p \in Nat /\ (p >= at => p >= at + n)
  <2>1. \A p \in Headers : p >= o[1] => p >= o[1] + o[2]
    BY <1>2, NoHeaderUnderObject
  <2>2. \A p \in Headers : p \in Nat
    BY <1>2, HeaderFacts
  <2> QED
    BY <1>6, <2>1, <2>2
<1>10. at \notin Headers /\ (succ # 0 => at + n <= succ)
  BY <1>6, <1>8, <1>9
<1>11. prev + size[prev] <= at
  <2>1. prev + size[prev] <= o[1] \/ o[1] + o[2] <= prev
    BY <1>2, <1>6 DEF ObjectsOK, ObjectOK
  <2> QED
    BY <1>6, <1>8, <2>1
<1>12. ASSUME NEW p \in Headers
       PROVE  p <= prev \/ (succ # 0 /\ succ <= p)
  <2>1. p \in Nat
    BY <1>9
  <2>2. p > prev => prev < next[prev] /\ next[prev] <= p
    BY <1>2, <1>6, PiecesApart
  <2> QED
    BY <1>6, <2>1, <2>2
<1>13. Gives(prev, succ, at, n)
  BY <1>6, <1>8, <1>10, <1>11, <1>12 DEF Gives
<1>14. /\ next' = LET linked == IF Touches(prev, at) THEN next ELSE [next EXCEPT ![prev] = at]
                      whole  == [linked EXCEPT ![Piece(prev, at)] =
                                    IF at + n = succ THEN next[succ] ELSE succ]
                  IN  IF at + n = succ THEN [whole EXCEPT ![succ] = Data] ELSE whole
       /\ size' = LET whole == [size EXCEPT ![Piece(prev, at)] = Gained(prev, succ, at, n)]
                  IN  IF at + n = succ THEN [whole EXCEPT ![succ] = Data] ELSE whole
       /\ live' = live \ {o} /\ freep' = prev /\ usage' = usage - n /\ op' = NoOp
       /\ released' = released
  BY <1>3, <1>5 DEF give_back, Touches, Piece, Gained
<1>15. /\ next \in [Pos -> Pos \cup {Data}] /\ size \in [Pos -> Nat \cup {Data}]
       /\ prev \in Pos /\ succ \in Pos /\ prev # at /\ succ # at /\ Piece(prev, at) \in Pos
  BY <1>2, <1>6, <1>8 DEF BlockTyped, Headers, Piece
<1>16. next' = [p \in Pos |-> GivenNext(prev, succ, at, n, p)]
  <2>1. CASE Touches(prev, at)
    BY <1>14, <1>15, <2>1 DEF GivenNext, Piece
  <2>2. CASE ~Touches(prev, at)
    BY <1>14, <1>15, <2>2 DEF GivenNext, Piece
  <2> QED
    BY <2>1, <2>2
<1>17. size' = [p \in Pos |-> GivenSize(prev, succ, at, n, p)]
  BY <1>14, <1>15 DEF GivenSize
<1>18. HasGiven(prev, succ, at, n)
  BY <1>16, <1>17 DEF HasGiven
<1> WITNESS prev \in Nat, succ \in Nat, at \in Nat, n \in Nat
<1> WITNESS o \in live
<1> QED
  BY <1>2, <1>6, <1>13, <1>14, <1>18

\* The headers after it.
LEMMA GivenHeaders ==
    ASSUME BlockAssumption, BlockTyped, PiecesOK,
           NEW prev \in Nat, NEW succ \in Nat, NEW at \in Nat, NEW n \in Nat,
           Gives(prev, succ, at, n), HasGiven(prev, succ, at, n)
    PROVE  /\ Headers' = (Headers \cup {Piece(prev, at)}) \ (IF at + n = succ THEN {succ} ELSE {})
           /\ next'[Piece(prev, at)] = IF at + n = succ THEN next[succ] ELSE succ
           /\ size'[Piece(prev, at)] = Gained(prev, succ, at, n)
           /\ ~Touches(prev, at) => next'[prev] = at /\ size'[prev] = size[prev]
           /\ \A p \in Headers \ {prev} : p # succ \/ at + n # succ =>
                 next'[p] = next[p] /\ size'[p] = size[p]
           /\ Piece(prev, at) \in Pos /\ Piece(prev, at) # 0
           /\ Touches(prev, at) => prev # 0
           /\ at + n = succ => prev # succ
<1>1. /\ prev \in Headers /\ succ = next[prev] /\ succ \in Headers
      /\ n >= 1 /\ at >= 1 /\ at + n <= NHeaders
      /\ prev < at /\ at \notin Headers /\ (succ # 0 => at + n <= succ)
  BY DEF Gives
<1>2. Headers \subseteq Pos /\ at \in Pos /\ Pos' = Pos /\ Data \notin Pos
  BY <1>1, BlockFacts DEF Headers, Pos
<1>3. next[succ] # Data /\ succ # Data /\ at # Data
  BY <1>1, <1>2, HeaderFacts
<1>4. /\ \A p \in Pos : next'[p] = GivenNext(prev, succ, at, n, p)
      /\ \A p \in Pos : size'[p] = GivenSize(prev, succ, at, n, p)
  BY DEF HasGiven
<1>5. Touches(prev, at) => prev # 0
  <2>1. prev = 0 => size[prev] = 0
    BY <1>1, HeaderFacts
  <2> QED
    BY <1>1, <2>1 DEF Touches
<1>6. PICK piece \in Pos : piece = Piece(prev, at) /\ (piece = prev \/ piece = at)
  BY <1>1, <1>2 DEF Piece
<1>7. piece # 0 /\ (at + n = succ => piece # succ) /\ (prev = succ => prev = 0)
      /\ (piece = prev <=> Touches(prev, at)) /\ prev # at /\ (at + n = succ => prev # succ)
  BY <1>1, <1>5, <1>6 DEF Piece
<1>8. next'[piece] = (IF at + n = succ THEN next[succ] ELSE succ)
      /\ size'[piece] = Gained(prev, succ, at, n)
  BY <1>4, <1>6, <1>7 DEF GivenNext, GivenSize
<1>9. ~Touches(prev, at) => next'[prev] = at /\ size'[prev] = size[prev]
  BY <1>1, <1>2, <1>4, <1>6, <1>7 DEF GivenNext, GivenSize
<1>10. ASSUME NEW p \in Headers, p # prev, p # succ \/ at + n # succ
       PROVE  next'[p] = next[p] /\ size'[p] = size[p]
  <2>1. p \in Pos /\ p # piece
    BY <1>1, <1>2, <1>6, <1>10
  <2> QED
    BY <1>4, <1>6, <1>10, <2>1 DEF GivenNext, GivenSize
<1>11. ASSUME NEW p \in Pos
       PROVE  p \in Headers' <=> (p \in Headers \/ p = piece) /\ ~(at + n = succ /\ p = succ)
  <2>1. p \in Headers' <=> next'[p] # Data
    BY <1>2 DEF Headers
  <2>2. p \in Headers <=> next[p] # Data
    BY DEF Headers
  <2>3. CASE at + n = succ /\ p = succ
    <3>1. next'[p] = Data
      BY <1>4, <2>3 DEF GivenNext
    <3> QED
      BY <2>1, <2>3, <3>1
  <2>4. CASE ~(at + n = succ /\ p = succ) /\ p = piece
    BY <1>3, <1>8, <2>1, <2>4
  <2>5. CASE ~(at + n = succ /\ p = succ) /\ p # piece /\ p = prev
    BY <1>1, <1>3, <1>7, <1>9, <2>1, <2>5, <1>6
  <2>6. CASE ~(at + n = succ /\ p = succ) /\ p # piece /\ p # prev
    <3>1. next'[p] = next[p]
      BY <1>4, <1>6, <2>6 DEF GivenNext
    <3> QED
      BY <2>1, <2>2, <2>6, <3>1
  <2> QED
    BY <2>3, <2>4, <2>5, <2>6
<1>12. Headers' \subseteq Pos
  BY <1>2 DEF Headers
<1>13. Headers' = (Headers \cup {piece}) \ (IF at + n = succ THEN {succ} ELSE {})
  BY <1>2, <1>11, <1>12
<1> QED
  BY <1>5, <1>6, <1>7, <1>8, <1>9, <1>10, <1>13

\* The circle after it: the object is put in, unless it is joined with the piece
\* before it; the piece behind is taken out, if it is joined with that one.
LEMMA GivenCircle ==
    ASSUME BlockAssumption, BlockTyped, PiecesOK,
           NEW prev \in Nat, NEW succ \in Nat, NEW at \in Nat, NEW n \in Nat,
           Gives(prev, succ, at, n), HasGiven(prev, succ, at, n)
    PROVE  Circle(next', Headers')
<1>1. /\ prev \in Headers /\ succ = next[prev] /\ succ \in Headers
      /\ n >= 1 /\ at >= 1 /\ at + n <= NHeaders
      /\ prev < at /\ at \notin Headers /\ (succ # 0 => at + n <= succ)
  BY DEF Gives
<1>2. Headers \subseteq Pos /\ Headers \in SUBSET Nat /\ at \in Pos
  BY <1>1, BlockFacts DEF Headers, Pos
<1>3. Circle(next, Headers)
  BY DEF PiecesOK
<1>4. PICK g : g = next'
  OBVIOUS
<1>5. PICK piece \in Pos : piece = Piece(prev, at)
  BY GivenHeaders
<1>6. PICK H : H = Headers \cup {piece}
  OBVIOUS
<1>7. PICK f : f = IF Touches(prev, at) THEN next
                   ELSE [p \in Pos |-> IF p = at THEN succ ELSE IF p = prev THEN at
                                       ELSE next[p]]
  OBVIOUS
<1>8. /\ Headers' = H \ (IF at + n = succ THEN {succ} ELSE {})
      /\ g[piece] = IF at + n = succ THEN next[succ] ELSE succ
      /\ ~Touches(prev, at) => g[prev] = at
      /\ \A p \in Headers \ {prev} : p # succ \/ at + n # succ => g[p] = next[p]
      /\ at + n = succ => prev # succ
  BY <1>4, <1>5, <1>6, GivenHeaders
<1>9. Touches(prev, at) => piece = prev /\ H = Headers /\ f = next
  BY <1>1, <1>5, <1>6, <1>7 DEF Piece
<1>10. ~Touches(prev, at) => /\ piece = at /\ H = Headers \cup {at}
                             /\ f[prev] = at /\ f[at] = succ
                             /\ \A p \in Headers : p # prev => f[p] = next[p]
  BY <1>1, <1>2, <1>5, <1>6, <1>7 DEF Piece
<1>11. Circle(f, H) /\ H \in SUBSET Nat
  <2>1. CASE Touches(prev, at)
    BY <1>2, <1>3, <1>9, <2>1
  <2>2. CASE ~Touches(prev, at)
    <3>1. at > prev /\ (next[prev] = 0 \/ at < next[prev])
      BY <1>1
    <3>2. Circle(f, Headers \cup {at})
      BY <1>1, <1>2, <1>3, <1>10, <2>2, <3>1, CircleInserts
    <3>3. H \in SUBSET Nat
      <4>1. H = Headers \cup {at}
        BY <1>10, <2>2
      <4> QED
        BY <1>2, <4>1
    <3> QED
      BY <1>10, <2>2, <3>2, <3>3
  <2> QED
    BY <2>1, <2>2
<1>12. f[piece] = succ /\ piece \in H /\ succ \in H /\ prev \in H
  BY <1>1, <1>6, <1>9, <1>10
<1>13. ASSUME NEW p \in H, p # piece, p # succ \/ at + n # succ
       PROVE  g[p] = f[p]
  <2>1. CASE Touches(prev, at)
    BY <1>6, <1>8, <1>9, <1>13, <2>1
  <2>2. CASE ~Touches(prev, at)
    BY <1>6, <1>8, <1>10, <1>13, <2>2
  <2> QED
    BY <2>1, <2>2
<1>14. CASE at + n = succ
  <2>1. f[succ] = next[succ]
    BY <1>1, <1>8, <1>9, <1>10, <1>14
  <2>2. g[piece] = f[succ] /\ succ # 0 /\ succ = f[piece]
    BY <1>1, <1>8, <1>12, <1>14, <2>1
  <2>3. \A p \in H \ {succ} : p # piece => g[p] = f[p]
    BY <1>13
  <2>4. Circle(g, H \ {succ})
    BY <1>11, <1>12, <2>2, <2>3, CircleRemoves
  <2> QED
    BY <1>4, <1>8, <1>14, <2>4
<1>15. CASE at + n # succ
  <2>1. \A p \in H : g[p] = f[p]
    BY <1>8, <1>12, <1>13, <1>15
  <2>2. Circle(g, H)
    BY <1>11, <2>1 DEF Circle, Successor
  <2> QED
    BY <1>4, <1>8, <1>15, <2>2
<1> QED
  BY <1>14, <1>15

\* Where the pieces around it end.
LEMMA GivenFacts ==
    ASSUME BlockAssumption, BlockTyped, PiecesOK,
           NEW prev \in Nat, NEW succ \in Nat, NEW at \in Nat, NEW n \in Nat,
           Gives(prev, succ, at, n)
    PROVE  /\ size[prev] \in Nat /\ size[succ] \in Nat /\ next[succ] \in Nat /\ NHeaders \in Nat
           /\ succ + size[succ] <= NHeaders /\ (prev # 0 => size[prev] >= 1)
           /\ succ # 0 => size[succ] >= 1 /\ (next[succ] # 0 => succ + size[succ] < next[succ])
           /\ Gained(prev, succ, at, n) \in Nat /\ Gained(prev, succ, at, n) >= 1
           /\ Piece(prev, at) + Gained(prev, succ, at, n)
                 = IF at + n = succ THEN succ + size[succ] ELSE at + n
           /\ Touches(prev, at) => Piece(prev, at) = prev /\ prev + size[prev] = at
           /\ ~Touches(prev, at) => Piece(prev, at) = at /\ prev + size[prev] < at
<1>1. /\ prev \in Headers /\ succ = next[prev] /\ succ \in Headers
      /\ n >= 1 /\ prev < at /\ prev + size[prev] <= at
  BY DEF Gives
<1>2. PICK a \in Nat, b \in Nat : a = size[prev] /\ b = size[succ]
  BY <1>1, HeaderFacts
<1>3. /\ next[succ] \in Nat /\ NHeaders \in Nat
      /\ succ + b <= NHeaders /\ (prev # 0 => a >= 1)
      /\ succ # 0 => b >= 1 /\ (next[succ] # 0 => succ + b < next[succ])
  BY <1>1, <1>2, BlockFacts, HeaderFacts
<1>4. Touches(prev, at) => Piece(prev, at) = prev /\ prev + a = at
  BY <1>2 DEF Touches, Piece
<1>5. ~Touches(prev, at) => Piece(prev, at) = at /\ prev + a < at
  BY <1>1, <1>2 DEF Touches, Piece
<1>6. PICK k \in Nat : k = Gained(prev, succ, at, n)
                       /\ k = (IF Touches(prev, at) THEN a ELSE 0) + n
                              + (IF at + n = succ THEN b ELSE 0)
  BY <1>2 DEF Gained
<1>7. k >= 1 /\ Piece(prev, at) + k = IF at + n = succ THEN succ + b ELSE at + n
  <2>1. CASE Touches(prev, at)
    BY <1>1, <1>4, <1>6, <2>1
  <2>2. CASE ~Touches(prev, at)
    BY <1>1, <1>5, <1>6, <2>2
  <2> QED
    BY <2>1, <2>2
<1> QED
  BY <1>2, <1>3, <1>4, <1>5, <1>6, <1>7

LEMMA GivenPieces ==
    ASSUME BlockAssumption, BlockTyped, PiecesOK,
           NEW prev \in Nat, NEW succ \in Nat, NEW at \in Nat, NEW n \in Nat,
           Gives(prev, succ, at, n), HasGiven(prev, succ, at, n)
    PROVE  prev \in Headers' /\ \A p \in Headers' : PieceOK(p)'
<1>1. /\ prev \in Headers /\ succ = next[prev] /\ succ \in Headers
      /\ n >= 1 /\ at >= 1 /\ at + n <= NHeaders
      /\ prev < at /\ (succ # 0 => at + n <= succ)
  BY DEF Gives
<1>2. PICK piece \in Pos : piece = Piece(prev, at)
  BY GivenHeaders
<1>3. PICK k \in Nat : k = Gained(prev, succ, at, n)
  BY GivenFacts
<1>4. /\ Headers' = (Headers \cup {piece}) \ (IF at + n = succ THEN {succ} ELSE {})
      /\ next'[piece] = IF at + n = succ THEN next[succ] ELSE succ
      /\ size'[piece] = k
      /\ ~Touches(prev, at) => next'[prev] = at /\ size'[prev] = size[prev]
      /\ \A p \in Headers \ {prev} : p # succ \/ at + n # succ =>
            next'[p] = next[p] /\ size'[p] = size[p]
      /\ piece # 0 /\ (at + n = succ => prev # succ)
  BY <1>2, <1>3, GivenHeaders
<1>5. /\ size[prev] \in Nat /\ size[succ] \in Nat /\ next[succ] \in Nat /\ NHeaders \in Nat
      /\ succ + size[succ] <= NHeaders
      /\ succ # 0 => size[succ] >= 1 /\ (next[succ] # 0 => succ + size[succ] < next[succ])
      /\ k >= 1 /\ piece + k = IF at + n = succ THEN succ + size[succ] ELSE at + n
      /\ Touches(prev, at) => piece = prev
      /\ ~Touches(prev, at) => prev + size[prev] < at
  BY <1>2, <1>3, GivenFacts
<1>6. prev \in Headers'
  BY <1>1, <1>4
<1>7. ASSUME NEW p \in Headers'
      PROVE  /\ size'[p] \in Nat /\ p + size'[p] <= NHeaders
             /\ IF p = 0 THEN size'[p] = 0
                ELSE size'[p] >= 1 /\ (next'[p] # 0 => p + size'[p] < next'[p])
  <2>1. CASE p = piece
    <3>1. CASE at + n = succ
      BY <1>1, <1>4, <1>5, <2>1, <3>1
    <3>2. CASE at + n # succ
      BY <1>1, <1>4, <1>5, <2>1, <3>2
    <3> QED
      BY <3>1, <3>2
  <2>2. CASE p # piece
    <3>1. p \in Headers /\ (p # succ \/ at + n # succ)
      BY <1>4, <2>2
    <3>2. /\ p \in Nat /\ next[p] \in Nat /\ size[p] \in Nat /\ p + size[p] <= NHeaders
          /\ p = 0 => size[p] = 0
          /\ p # 0 => size[p] >= 1 /\ (next[p] # 0 => p + size[p] < next[p])
      BY <3>1, HeaderFacts
    <3>3. CASE p = prev
      <4>1. next'[p] = at /\ size'[p] = size[p] /\ p + size[p] < at
        BY <1>4, <1>5, <2>2, <3>3
      <4> QED
        BY <3>2, <4>1
    <3>4. CASE p # prev
      <4>1. next'[p] = next[p] /\ size'[p] = size[p]
        BY <1>4, <3>1, <3>4
      <4> QED
        BY <3>2, <4>1
    <3> QED
      BY <3>3, <3>4
  <2> QED
    BY <2>1, <2>2
<1> QED
  BY <1>6, <1>7 DEF PieceOK

\* The other objects keep their space, and nothing is lost.
LEMMA GivenObjects ==
    ASSUME BlockAssumption, BlockTyped, PiecesOK, ObjectsOK,
           NEW prev \in Nat, NEW succ \in Nat, NEW at \in Nat, NEW n \in Nat,
           Gives(prev, succ, at, n), HasGiven(prev, succ, at, n),
           NEW o \in live, o[1] = at, o[2] = n, live' = live \ {o}
    PROVE  /\ ObjectsOK'
           /\ \A u \in live' : at + n <= u[1] \/ u[1] + u[2] <= at
<1>1. prev \in Headers /\ succ \in Headers
  BY DEF Gives
<1>2. PICK piece \in Pos : piece = Piece(prev, at)
  BY GivenHeaders
<1>3. PICK k \in Nat : k = Gained(prev, succ, at, n)
  BY GivenFacts
<1>4. PICK a \in Nat, b \in Nat : a = size[prev] /\ b = size[succ]
  <2>1. size[prev] \in Nat /\ size[succ] \in Nat
    BY GivenFacts
  <2> QED
    BY <2>1
<1>5. /\ Headers' = (Headers \cup {piece}) \ (IF at + n = succ THEN {succ} ELSE {})
      /\ size'[piece] = k
      /\ ~Touches(prev, at) => size'[prev] = size[prev]
      /\ \A p \in Headers \ {prev} : p # succ \/ at + n # succ => size'[p] = size[p]
  <2>1. /\ Headers' = (Headers \cup {Piece(prev, at)})
                      \ (IF at + n = succ THEN {succ} ELSE {})
        /\ size'[Piece(prev, at)] = Gained(prev, succ, at, n)
        /\ ~Touches(prev, at) => size'[prev] = size[prev]
        /\ Piece(prev, at) # 0
    BY GivenHeaders
  <2>2. \A p \in Headers \ {prev} : p # succ \/ at + n # succ =>
            next'[p] = next[p] /\ size'[p] = size[p]
    BY GivenHeaders
  <2> QED
    BY <1>2, <1>3, <2>1, <2>2
<1>6. /\ piece + k = IF at + n = succ THEN succ + b ELSE at + n
      /\ Touches(prev, at) => piece = prev /\ prev + a = at
      /\ ~Touches(prev, at) => piece = at
  BY <1>2, <1>3, <1>4, GivenFacts
<1>7. piece \in Nat
  BY <1>2, BlockFacts
<1>8. ASSUME NEW u \in live'
      PROVE  /\ u \in live /\ u[1] \in Nat /\ u[2] \in Nat /\ u[1] >= 1 /\ u[2] >= 1
             /\ u[1] + u[2] <= NHeaders /\ (head_addr + u[1]) % u[3] = 0
             /\ at + n <= u[1] \/ u[1] + u[2] <= at
             /\ \A v \in live : v # u => u[1] + u[2] <= v[1] \/ v[1] + v[2] <= u[1]
             /\ \A p \in Headers : p + size[p] <= u[1] \/ u[1] + u[2] <= p
  <2>1. u \in live /\ u # o
    OBVIOUS
  <2>2. ObjectOK(u)
    BY <2>1 DEF ObjectsOK
  <2>3. u[1] \in Nat /\ u[2] \in Nat
    BY <2>1, ObjectFacts
  <2>4. u[1] + u[2] <= at \/ at + n <= u[1]
    BY <2>1, <2>2 DEF ObjectOK
  <2> QED
    BY <2>1, <2>2, <2>3, <2>4 DEF ObjectOK
<1>9. ASSUME NEW u \in live'
      PROVE  ObjectOK(u)'
  <2>1. PICK x \in Nat, y \in Nat : x = u[1] /\ y = u[2]
    BY <1>8
  <2>2. y >= 1 /\ (at + n <= x \/ x + y <= at)
    BY <1>8, <2>1
  <2>3. prev + a <= x \/ x + y <= prev
    BY <1>1, <1>4, <1>8, <2>1
  <2>4. succ + b <= x \/ x + y <= succ
    BY <1>1, <1>4, <1>8, <2>1
  <2>5. piece + k <= x \/ x + y <= piece
    <3>1. CASE Touches(prev, at) /\ at + n = succ
      BY <1>6, <1>7, <2>2, <2>3, <2>4, <3>1
    <3>2. CASE Touches(prev, at) /\ at + n # succ
      BY <1>6, <1>7, <2>2, <2>3, <3>2
    <3>3. CASE ~Touches(prev, at) /\ at + n = succ
      BY <1>6, <1>7, <2>2, <2>4, <3>3
    <3>4. CASE ~Touches(prev, at) /\ at + n # succ
      BY <1>6, <1>7, <2>2, <3>4
    <3> QED
      BY <3>1, <3>2, <3>3, <3>4
  <2>6. ASSUME NEW p \in Headers'
        PROVE  p + size'[p] <= x \/ x + y <= p
    <3>1. CASE p = piece
      BY <1>5, <2>5, <3>1
    <3>2. CASE p # piece
      <4>1. p \in Headers /\ (p # succ \/ at + n # succ)
        BY <1>5, <3>2
      <4>2. size'[p] = size[p]
        BY <1>5, <1>6, <3>2, <4>1
      <4> QED
        BY <1>8, <2>1, <4>1, <4>2
    <3> QED
      BY <3>1, <3>2
  <2>7. \A p \in Headers' : p + size'[p] <= u[1] \/ u[1] + u[2] <= p
    BY <2>1, <2>6
  <2> QED
    BY <1>8, <2>7 DEF ObjectOK
<1> QED
  BY <1>8, <1>9 DEF ObjectsOK

LEMMA GivenCovers ==
    ASSUME BlockAssumption, BlockTyped, PiecesOK, Covered, ~released, ~released',
           NEW prev \in Nat, NEW succ \in Nat, NEW at \in Nat, NEW n \in Nat,
           Gives(prev, succ, at, n), HasGiven(prev, succ, at, n),
           NEW o \in live, o[1] = at, o[2] = n, live' = live \ {o}
    PROVE  Covered'
<1>1. PICK piece \in Pos : piece = Piece(prev, at)
  BY GivenHeaders
<1>2. PICK k \in Nat : k = Gained(prev, succ, at, n)
  BY GivenFacts
<1>3. PICK a \in Nat, b \in Nat : a = size[prev] /\ b = size[succ]
  <2>1. size[prev] \in Nat /\ size[succ] \in Nat
    BY GivenFacts
  <2> QED
    BY <2>1
<1>4. /\ Headers' = (Headers \cup {piece}) \ (IF at + n = succ THEN {succ} ELSE {})
      /\ size'[piece] = k
      /\ ~Touches(prev, at) => size'[prev] = size[prev]
      /\ \A p \in Headers \ {prev} : p # succ \/ at + n # succ => size'[p] = size[p]
      /\ piece # 0
  <2>1. /\ Headers' = (Headers \cup {Piece(prev, at)})
                      \ (IF at + n = succ THEN {succ} ELSE {})
        /\ size'[Piece(prev, at)] = Gained(prev, succ, at, n)
        /\ ~Touches(prev, at) => size'[prev] = size[prev]
        /\ Piece(prev, at) # 0
    BY GivenHeaders
  <2>2. \A p \in Headers \ {prev} : p # succ \/ at + n # succ =>
            next'[p] = next[p] /\ size'[p] = size[p]
    BY GivenHeaders
  <2> QED
    BY <1>1, <1>2, <2>1, <2>2
<1>5. /\ piece + k = IF at + n = succ THEN succ + b ELSE at + n
      /\ Touches(prev, at) => piece = prev /\ prev + a = at
      /\ ~Touches(prev, at) => piece = at
  BY <1>1, <1>2, <1>3, GivenFacts
<1>6. piece \in Nat /\ piece \in Headers' /\ prev < at /\ NHeaders \in Nat
  <2>1. at + n = succ => piece # succ
    <3>1. n >= 1 /\ prev < at /\ (piece = prev \/ piece = at)
      BY <1>1 DEF Gives, Piece
    <3> QED
      BY <3>1
  <2> QED
    BY <1>1, <1>4, <2>1, BlockFacts DEF Gives
<1>7. ASSUME NEW x \in 1 .. NHeaders - 1, ~Free(x)'
      PROVE  ~(piece <= x /\ x < piece + k)
  BY <1>4, <1>6, <1>7 DEF Free
<1>8. ASSUME NEW x \in 1 .. NHeaders - 1
      PROVE  Free(x)' \/ \E u \in live' : Within(u, x)
  <2> SUFFICES ASSUME ~Free(x)' PROVE \E u \in live' : Within(u, x)
    OBVIOUS
  <2>1. Free(x) \/ \E u \in live : Within(u, x)
    BY DEF Covered
  <2>2. x \in Nat
    BY <1>6
  <2>3. ~(piece <= x /\ x < piece + k)
    BY <1>7
  <2>4. ~(at <= x /\ x < at + n)
    <3>1. succ # 0 => at + n <= succ
      BY DEF Gives
    <3> QED
      BY <1>5, <1>6, <2>2, <2>3, <3>1
  <2>5. ~Free(x)
    <3> SUFFICES ASSUME NEW p \in Headers, p <= x, x < p + size[p] PROVE FALSE
      BY DEF Free
    <3>1. p \in Nat
      BY HeaderFacts
    <3>2. CASE p = prev
      <4>1. CASE Touches(prev, at)
        <5>1. at <= piece + k
          BY <1>5, <4>1
        <5> QED
          BY <1>3, <1>5, <1>6, <2>2, <2>3, <3>2, <4>1, <5>1
      <4>2. CASE ~Touches(prev, at)
        <5>1. p \in Headers' /\ size'[p] = size[p]
          <6>1. at + n = succ => prev # succ
            BY GivenHeaders
          <6> QED
            BY <1>4, <3>2, <4>2, <6>1
        <5> QED
          BY <5>1 DEF Free
      <4> QED
        BY <4>1, <4>2
    <3>3. CASE p = succ /\ at + n = succ
      <4>1. piece <= succ /\ piece + k = succ + b
        BY <1>5, <1>6, <3>3
      <4> QED
        BY <1>3, <1>6, <2>2, <2>3, <3>3, <4>1
    <3>4. CASE p # prev /\ ~(p = succ /\ at + n = succ)
      <4>1. p \in Headers' /\ size'[p] = size[p]
        BY <1>4, <3>4
      <4> QED
        BY <4>1 DEF Free
    <3> QED
      BY <3>2, <3>3, <3>4
  <2>6. PICK u \in live : Within(u, x)
    BY <2>1, <2>5
  <2>7. u # o
    BY <2>4, <2>6 DEF Within
  <2> QED
    BY <2>6, <2>7
<1> QED
  BY <1>8 DEF Covered, Within

LEMMA GiveBackPreserves ==
    ASSUME BlockAssumption, BlockInv, give_back
    PROVE  BlockInv'
<1>1. PICK prev \in Nat, succ \in Nat, at \in Nat, n \in Nat : \E o \in live :
         /\ Gives(prev, succ, at, n) /\ HasGiven(prev, succ, at, n)
         /\ o[1] = at /\ o[2] = n /\ live' = live \ {o}
         /\ freep' = prev /\ usage' = usage - n /\ op' = NoOp
         /\ UNCHANGED released /\ ~released
  BY GiveBackGives
<1>2. PICK o \in live :
         /\ Gives(prev, succ, at, n) /\ HasGiven(prev, succ, at, n)
         /\ o[1] = at /\ o[2] = n /\ live' = live \ {o}
         /\ freep' = prev /\ usage' = usage - n /\ op' = NoOp
         /\ UNCHANGED released /\ ~released
  BY <1>1
<1>3. BlockTyped /\ PiecesOK /\ ObjectsOK /\ Covered /\ UsageExact
  BY DEF BlockInv
<1>4. ObjectsOK' /\ \A u \in live' : at + n <= u[1] \/ u[1] + u[2] <= at
  BY <1>2, <1>3, GivenObjects
<1>5. usage' \in Nat /\ UsageExact'
  <2>1. \A u \in live' : /\ u[1] \in Nat /\ u[2] \in Nat
                         /\ o[1] + o[2] <= u[1] \/ u[1] + u[2] <= o[1]
    BY <1>2, <1>3, <1>4, ObjectFacts
  <2>2. o[1] \in Nat /\ o[2] \in Nat /\ o[1] + o[2] <= NHeaders
    BY <1>3, ObjectFacts
  <2>3. PICK L : L = live'
    OBVIOUS
  <2>4. Cardinality(UsedBy(L \cup {o})) = Cardinality(UsedBy(L)) + n
        /\ Cardinality(UsedBy(L)) \in Nat
    BY <1>2, <2>1, <2>2, <2>3, SpaceAdds
  <2>5. live = L \cup {o}
    BY <1>2, <2>3
  <2>6. Used' = UsedBy(L) /\ Used = UsedBy(L \cup {o})
    BY <2>3, <2>5 DEF Used, UsedBy, Pos
  <2>7. usage = Cardinality(UsedBy(L)) + n
    BY <1>3, <2>4, <2>6 DEF UsageExact
  <2> QED
    BY <1>2, <2>4, <2>6, <2>7 DEF UsageExact
<1>6. BlockTyped'
  <2>1. prev \in Pos /\ succ \in Pos /\ at \in Pos /\ next[succ] \in Pos
    <3>1. prev \in Headers /\ succ \in Headers /\ at + n <= NHeaders /\ n >= 1
      BY <1>2 DEF Gives
    <3>2. next[succ] \in Headers
      BY <1>3, <3>1, HeaderFacts
    <3> QED
      BY <3>1, <3>2, BlockFacts DEF Headers, Pos
  <2>2. next' \in [Pos -> Pos \cup {Data}]
    <3>1. \A p \in Pos : GivenNext(prev, succ, at, n, p) \in Pos \cup {Data}
      BY <1>3, <2>1 DEF GivenNext, BlockTyped
    <3> QED
      BY <1>2, <3>1 DEF HasGiven
  <2>3. size' \in [Pos -> Nat \cup {Data}]
    <3>1. Gained(prev, succ, at, n) \in Nat
      BY <1>2, <1>3, GivenFacts
    <3>2. \A p \in Pos : GivenSize(prev, succ, at, n, p) \in Nat \cup {Data}
      BY <1>3, <3>1 DEF GivenSize, BlockTyped
    <3> QED
      BY <1>2, <3>2 DEF HasGiven
  <2>4. live' \subseteq Pos \X Nat \X Aligns
    BY <1>2, <1>3 DEF BlockTyped
  <2>5. op' \in CallType /\ released' \in BOOLEAN
    BY <1>2, <1>3, BlockFacts DEF BlockTyped, CallType, NoOp
  <2>6. Pos' = Pos /\ CallType' = CallType
    BY DEF Pos, CallType
  <2> QED
    BY <1>5, <2>2, <2>3, <2>4, <2>5, <2>6 DEF BlockTyped
<1>7. PiecesOK'
  <2>1. Circle(next', Headers')
    BY <1>2, <1>3, GivenCircle
  <2>2. freep' \in Headers' /\ \A p \in Headers' : PieceOK(p)'
    BY <1>2, <1>3, GivenPieces
  <2> QED
    BY <2>1, <2>2 DEF PiecesOK
<1>8. Covered'
  BY <1>2, <1>3, GivenCovers
<1>9. Returned' /\ CallOK'
  BY <1>2 DEF Returned, CallOK, NoOp
<1> QED
  BY <1>4, <1>5, <1>6, <1>7, <1>8, <1>9 DEF BlockInv

-----------------------------------------------------------------------------
(* Every step.                                                              *)

LEMMA NextBlock == ASSUME BlockAssumption, BlockInv, [BlockNext]_block_vars PROVE BlockInv'
<1>1. ASSUME NEW n \in 1 .. NHeaders, NEW al \in Aligns, allocate(n, al) PROVE BlockInv'
  BY <1>1, AllocatePreserves
<1>2. ASSUME NEW o \in live, deallocate(o) PROVE BlockInv'
  BY <1>2, DeallocatePreserves
<1>3. CASE search_on
  BY <1>3, SearchPreserves
<1>4. CASE allocate_throws
  BY <1>4, ThrowPreserves
<1>5. CASE take
  BY <1>5, TakePreserves
<1>6. CASE find_on
  BY <1>6, FindPreserves
<1>7. CASE return_block
  BY <1>7, ReturnPreserves
<1>8. CASE give_back
  BY <1>8, GiveBackPreserves
<1>9. CASE initialize
  BY <1>9, InitializePreserves
<1>10. CASE UNCHANGED block_vars
  <2>1. op' = op /\ UNCHANGED <<next, size, freep, usage, live, released>>
    BY <1>10 DEF block_vars
  <2>2. op' \in CallType /\ (released => op' = NoOp)
    BY <2>1 DEF BlockInv, BlockTyped, Returned
  <2>3. CallOK'
    BY <2>1 DEF BlockInv, CallOK, Headers, Pos, Seen, Fits, PosAligned, PosUnaligned
  <2> QED
    BY <2>1, <2>2, <2>3, CallGoesOn
<1> QED
  BY <1>1, <1>2, <1>3, <1>4, <1>5, <1>6, <1>7, <1>8, <1>9, <1>10 DEF BlockNext, Step

\* The inductive invariant holds in every state of a block of any size.
THEOREM BlockInvHolds == ASSUME BlockAssumption PROVE BlockSpec => []BlockInv
<1>1. BlockInit => BlockInv
  BY InitBlock
<1>2. BlockInv /\ [BlockNext]_block_vars => BlockInv'
  BY NextBlock
<1> QED
  BY <1>1, <1>2, PTL DEF BlockSpec

-----------------------------------------------------------------------------
(* What follows.                                                            *)

\* The free list (next and size of KRHeader) is a circle through the header 0 in the
\* order of addresses, pieces that follow each other are separated by objects,
\* and metadata.freep is one of them.
THEOREM CircularHolds == ASSUME BlockAssumption PROVE BlockSpec => []Circular
<1>1. BlockInv => Circular
  <2> SUFFICES ASSUME BlockInv PROVE Circular
    OBVIOUS
  <2>1. BlockTyped /\ PiecesOK /\ freep \in Headers
    BY DEF BlockInv, PiecesOK
  <2>2. Pieces = Headers
    BY <2>1, PiecesAreHeaders
  <2>3. BlockTypeOK
    <3>1. freep \in Pos
      BY <2>1, HeaderFacts
    <3> QED
      BY <2>1, <3>1 DEF BlockTyped, BlockTypeOK, CallType
  <2>4. \A p \in Headers : /\ next[p] \in Headers /\ size[p] \in Nat
                           /\ next[p] > p \/ next[p] = 0
                           /\ p # 0 => (next[p] # 0 => p + size[p] < next[p])
    BY <2>1, HeaderFacts
  <2> QED
    BY <2>1, <2>2, <2>3, <2>4 DEF Circular
<1> QED
  BY <1>1, BlockInvHolds, PTL

\* What Extents is made of, and that no two extents share a header.
LEMMA ExtentFacts ==
    ASSUME BlockAssumption, BlockInv, NEW e \in Extents
    PROVE  /\ e[1] \in Nat /\ e[2] \in Nat /\ e[2] >= 1 /\ e[1] + e[2] <= NHeaders
           /\ \A d \in Extents : d # e => e[1] + e[2] <= d[1] \/ d[1] + d[2] <= e[1]
<1>1. BlockTyped /\ PiecesOK /\ ObjectsOK
  BY DEF BlockInv
<1>2. Extents = {<<p, size[p]>> : p \in Headers \ {0}} \cup {<<o[1], o[2]>> : o \in live}
  BY <1>1, PiecesAreHeaders DEF Extents
<1>3. ASSUME NEW p \in Headers \ {0}
      PROVE  p \in Nat /\ size[p] \in Nat /\ size[p] >= 1 /\ p + size[p] <= NHeaders
  BY <1>1, HeaderFacts
<1>4. ASSUME NEW o \in live
      PROVE  o[1] \in Nat /\ o[2] \in Nat /\ o[2] >= 1 /\ o[1] + o[2] <= NHeaders
  BY <1>1, ObjectFacts
<1>5. ASSUME NEW o \in live, NEW p \in Headers
      PROVE  p + size[p] <= o[1] \/ o[1] + o[2] <= p
  BY <1>1 DEF ObjectsOK, ObjectOK
<1>6. ASSUME NEW o \in live, NEW u \in live, u # o
      PROVE  o[1] + o[2] <= u[1] \/ u[1] + u[2] <= o[1]
  BY <1>1, <1>6 DEF ObjectsOK, ObjectOK
<1>7. ASSUME NEW p \in Headers, NEW q \in Headers, p # q
      PROVE  p + size[p] <= q \/ q + size[q] <= p
  <2>1. p \in Nat /\ q \in Nat /\ size[p] \in Nat /\ size[q] \in Nat
    BY <1>1, HeaderFacts
  <2>2. p < q => p + size[p] < q
    BY <1>1, PiecesApart
  <2>3. q < p => q + size[q] < p
    BY <1>1, PiecesApart
  <2> QED
    BY <1>7, <2>1, <2>2, <2>3
<1>8. CASE \E p \in Headers \ {0} : e = <<p, size[p]>>
  <2>1. PICK p \in Headers \ {0} : e = <<p, size[p]>>
    BY <1>8
  <2>2. e[1] = p /\ e[2] = size[p]
    BY <2>1
  <2>3. ASSUME NEW d \in Extents, d # e
        PROVE  e[1] + e[2] <= d[1] \/ d[1] + d[2] <= e[1]
    <3>1. CASE \E q \in Headers \ {0} : d = <<q, size[q]>>
      <4>1. PICK q \in Headers \ {0} : d = <<q, size[q]>>
        BY <3>1
      <4>2. d[1] = q /\ d[2] = size[q] /\ q # p
        BY <2>1, <2>3, <4>1
      <4> QED
        BY <1>7, <2>2, <4>2
    <3>2. CASE \E o \in live : d = <<o[1], o[2]>>
      <4>1. PICK o \in live : d = <<o[1], o[2]>>
        BY <3>2
      <4>2. d[1] = o[1] /\ d[2] = o[2]
        BY <4>1
      <4> QED
        BY <1>5, <2>2, <4>2
    <3> QED
      BY <1>2, <3>1, <3>2
  <2> QED
    BY <1>3, <2>2, <2>3
<1>9. CASE \E o \in live : e = <<o[1], o[2]>>
  <2>1. PICK o \in live : e = <<o[1], o[2]>>
    BY <1>9
  <2>2. e[1] = o[1] /\ e[2] = o[2]
    BY <2>1
  <2>3. ASSUME NEW d \in Extents, d # e
        PROVE  e[1] + e[2] <= d[1] \/ d[1] + d[2] <= e[1]
    <3>1. CASE \E q \in Headers \ {0} : d = <<q, size[q]>>
      <4>1. PICK q \in Headers \ {0} : d = <<q, size[q]>>
        BY <3>1
      <4>2. d[1] = q /\ d[2] = size[q]
        BY <4>1
      <4> QED
        BY <1>5, <2>2, <4>2
    <3>2. CASE \E u \in live : d = <<u[1], u[2]>>
      <4>1. PICK u \in live : d = <<u[1], u[2]>>
        BY <3>2
      <4>2. d[1] = u[1] /\ d[2] = u[2] /\ u # o
        BY <2>1, <2>3, <4>1
      <4> QED
        BY <1>6, <2>2, <4>2
    <3> QED
      BY <1>2, <3>1, <3>2
  <2> QED
    BY <1>4, <2>2, <2>3
<1> QED
  BY <1>2, <1>8, <1>9

\* Objects (what allocate has given out) and free pieces partition the block,
\* objects are aligned as asked, and metadata.usage is exactly what they occupy.
THEOREM PartitionHolds == ASSUME BlockAssumption PROVE BlockSpec => []Partition
<1>1. BlockInv => Partition
  <2> SUFFICES ASSUME BlockInv PROVE Partition
    OBVIOUS
  <2>1. BlockTyped /\ PiecesOK /\ ObjectsOK /\ Covered /\ UsageExact
    BY DEF BlockInv
  <2>2. \A e \in Extents : e[2] >= 1 /\ e[1] + e[2] <= NHeaders
    BY ExtentFacts
  <2>3. ASSUME ~released, NEW x \in 1 .. NHeaders - 1
        PROVE  Cardinality(Covering(Extents, x)) = 1
    <3>1. x \in Nat
      BY BlockFacts
    <3>2. PICK e \in Extents : e[1] <= x /\ x < e[1] + e[2]
      <4>1. Extents = {<<p, size[p]>> : p \in Headers \ {0}} \cup {<<o[1], o[2]>> : o \in live}
        BY <2>1, PiecesAreHeaders DEF Extents
      <4>2. CASE Free(x)
        <5>1. PICK p \in Headers : p <= x /\ x < p + size[p]
          BY <4>2 DEF Free
        <5>2. p # 0
          BY <2>1, <3>1, <5>1, HeaderFacts
        <5>3. <<p, size[p]>> \in Extents
          BY <4>1, <5>2
        <5> QED
          BY <5>1, <5>3
      <4>3. CASE \E o \in live : Within(o, x)
        <5>1. PICK o \in live : o[1] <= x /\ x < o[1] + o[2]
          BY <4>3 DEF Within
        <5>2. <<o[1], o[2]>> \in Extents
          BY <4>1
        <5> QED
          BY <5>1, <5>2
      <4> QED
        BY <2>1, <2>3, <4>2, <4>3 DEF Covered
    <3>3. ASSUME NEW d \in Extents
          PROVE  x \in d[1] .. (d[1] + d[2] - 1) <=> d[1] <= x /\ x < d[1] + d[2]
      <4>1. d[1] \in Nat /\ d[2] \in Nat
        BY ExtentFacts
      <4> QED
        BY <3>1, <4>1
    <3>4. ASSUME NEW d \in Extents, d # e
          PROVE  ~(d[1] <= x /\ x < d[1] + d[2])
      <4>1. d[1] \in Nat /\ d[2] \in Nat /\ e[1] \in Nat /\ e[2] \in Nat
        BY ExtentFacts
      <4>2. e[1] + e[2] <= d[1] \/ d[1] + d[2] <= e[1]
        BY <3>4, ExtentFacts
      <4> QED
        BY <3>1, <3>2, <4>1, <4>2
    <3>5. Covering(Extents, x) = {e}
      BY <3>2, <3>3, <3>4 DEF Covering
    <3> QED
      BY <3>5, FS_Singleton
  <2>4. \A o \in live : (head_addr + o[1]) % o[3] = 0
    BY <2>1 DEF ObjectsOK, ObjectOK
  <2>5. usage = Cardinality({p \in Pos : Covering(live, p) # {}})
    <3>1. ASSUME NEW p \in Pos, NEW o \in live
          PROVE  p \in o[1] .. (o[1] + o[2] - 1) <=> Within(o, p)
      <4>1. o[1] \in Nat /\ o[2] \in Nat /\ p \in Nat
        BY <2>1, ObjectFacts, BlockFacts
      <4> QED
        BY <4>1 DEF Within
    <3>2. \A p \in Pos : Covering(live, p) # {} <=> \E o \in live : Within(o, p)
      BY <3>1 DEF Covering
    <3>3. {p \in Pos : Covering(live, p) # {}} = Used
      BY <3>2 DEF Used, UsedBy
    <3> QED
      BY <2>1, <3>3 DEF UsageExact
  <2> QED
    BY <2>2, <2>3, <2>4, <2>5 DEF Partition
<1> QED
  BY <1>1, BlockInvHolds, PTL

\* allocate throws bad_alloc only when no free piece of the block can hold the object:
\* a search that is back at freep has seen every header.
THEOREM ThrowsOnlyWhenFullHolds ==
    ASSUME BlockAssumption PROVE BlockSpec => ThrowsOnlyWhenFull
<1>1. ASSUME BlockInv, allocate_throws
      PROVE  \A p \in Pieces : ~Fits(p, op.n, op.align)
  <2>1. /\ op.name = "allocate" /\ ~Fits(op.cursor, op.n, op.align) /\ op.cursor = freep
    BY <1>1 DEF allocate_throws
  <2>2. /\ BlockTyped /\ PiecesOK /\ freep \in Headers /\ op.prev \in Headers
        /\ op.cursor = next[op.prev]
    BY <1>1, <2>1 DEF BlockInv, PiecesOK, CallOK
  <2>3. Pieces = Headers
    BY <2>2, PiecesAreHeaders
  <2>4. ASSUME NEW p \in Headers, p # freep
        PROVE  Seen(p)
    <3>1. p \in Nat /\ freep \in Nat /\ op.prev \in Nat /\ (freep > op.prev \/ freep = 0)
      BY <2>1, <2>2, HeaderFacts
    <3>2. op.prev < p => op.prev < freep /\ freep <= p
      BY <2>1, <2>2, PiecesApart
    <3> QED
      BY <2>4, <3>1, <3>2 DEF Seen
  <2>5. \A p \in Headers : Seen(p) => ~Fits(p, op.n, op.align)
    BY <1>1, <2>1 DEF BlockInv, CallOK
  <2> QED
    BY <2>1, <2>3, <2>4, <2>5
<1>2. BlockInv /\ [BlockNext]_block_vars
         => [allocate_throws => \A p \in Pieces : ~Fits(p, op.n, op.align)]_block_vars
  BY <1>1
<1> QED
  BY <1>2, BlockInvHolds, PTL DEF BlockSpec, ThrowsOnlyWhenFull

=============================================================================
