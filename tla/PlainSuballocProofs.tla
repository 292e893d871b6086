-------------------------- MODULE PlainSuballocProofs --------------------------
(***************************************************************************)
(* The theorems about PlainSuballoc: slabs, medium objects and the page    *)
(* allocator below them, for arenas of any size, any size classes that     *)
(* satisfy the assumptions, and any number of objects.                     *)
(*                                                                         *)
(* First where objects lie, then what taking and returning slots, slabs    *)
(* and medium objects does to objects, runs and bits; then the lists of    *)
(* slabs and one lemma for each action; then the theorems.                 *)
(***************************************************************************)
EXTENDS PlainSuballoc, PlainPagesProofs
-----------------------------------------------------------------------------
(* The inductive invariant.                                                *)

Slots(c)     == 0 .. NSlots[c] - 1
HeldSlots(x) == Slots(x[2]) \cap allocated[x[1]]
MediumObject(r, al) == Object(r[1], r[2] * PageUnits, r[3] * PageUnits, Medium, al)

SlabTypes ==
    /\ current_slabs \in [AllocClasses -> Page \cup {NullSlab}]
    /\ allocated \in [Page -> SUBSET Nat]
    /\ idx_in_slab \in [Page -> Nat]
    /\ call \in Call
    /\ slabs \subseteq Page \X AllocClasses
    /\ IsFiniteSet(slabs) /\ IsFiniteSet(live)
    /\ occupied \in 0 .. SizeModulus - 1

\* Every object is a run of pages or a slot of a slab, and no two share an address.
ObjectsPlaced ==
    /\ \A o \in live :
          \/ \E r \in held, al \in PageAligns : o = MediumObject(r, al)
          \/ \E x \in slabs : \E s \in HeldSlots(x), al \in PageAligns :
                o = SlotObject(x[1], x[2], s, al)
    /\ \A o, q \in live : o[1] = q[1] /\ o[2] = q[2] => o = q

\* A run held is one slab or one medium object.
SlabRuns   == {SlabRun(x[1], x[2]) : x \in slabs}
MediumRuns == {r \in held : \E al \in PageAligns : MediumObject(r, al) \in live}
RunsSplit ==
    /\ SlabRuns \subseteq held
    /\ \A x, y \in slabs : x[1] = y[1] => x = y
    /\ \A r \in held : r \in SlabRuns <=> r \notin MediumRuns

\* The bits of a slab: its objects, and bits behind the last slot, which are set
\* only where the slots do not fill the last word.
BitsKept ==
    \A x \in slabs :
       /\ allocated[x[1]] \subseteq Slots(x[2]) \cup SpareBits(x[2])
       /\ WordsFilled(x[2]) => allocated[x[1]] \subseteq Slots(x[2])
       /\ \A s \in HeldSlots(x) : \E al \in PageAligns :
             SlotObject(x[1], x[2], s, al) \in live
       /\ \A q \in SlabEntries(x[1], x[2]) : idx_in_slab[q] = q[2] - x[1][2]

\* A slab of which nothing is allocated is current.
SlabsNeeded == \A x \in slabs : x[1] = Current(x[2]) \/ allocated[x[1]] # {}

\* The current slabs, and the slabs that are neither current nor full: each in
\* the list of its class.
CurrentsOK == \A c \in AllocClasses : Current(c) # NullSlab => <<Current(c), c>> \in slabs

IsFull(x) == FreeSlots(x[1], x[2]) = {}
NonFull   == {x \in slabs : x[1] # Current(x[2]) /\ ~IsFull(x)}
SlabOfPage(p) == CHOOSE x \in slabs : x[1] = p
SlabClass == [n \in SlabNode |-> IF n \in SlabList THEN n[2] ELSE SlabOfPage(n)[2]]
SlabTarget == SlabNode \cup {NullSlab, Garbage}
FirstEntries(X) == {x[1] : x \in X}
SlabsFiled ==
    /\ Filed(slab_link, SlabNode, SlabTarget, SlabList,
             SlabList \cup FirstEntries(NonFull), SlabClass)
    /\ \A x \in slabs : x[1] # Current(x[2]) /\ IsFull(x) =>
          slab_link.next[x[1]] = NullSlab

\* What a call in progress has found out before it asks for pages.
CallOK ==
    /\ call.op \in {"small", "replace"} =>
          call.class \in AllocClasses /\ call.align \in SmallAligns(call.class)
    /\ call.op = "medium" => /\ call.class \in MinMediumNPages .. MaxNPages
                             /\ call.align \in PageAligns /\ call.class >= call.align
    /\ call.op = "small" /\ HasCurrent(call.class) =>
          /\ FreeSlots(current_slabs[call.class], call.class) = {}
          /\ slab_link.next[current_slabs[call.class]] = NullSlab
    /\ call.op = "destroy" => live = {} /\ call.class <= NAllocClasses
    /\ call.op = "destroyed" => live = {}
    /\ request # NoRequest => /\ call.op \in {"small", "replace", "medium"}
                              /\ request.n = CallNPages /\ request.align = call.align

\* What check_capacity has found out.  The pages of a misplaced slab are asked
\* for again, so that call cannot fail.
CapacityOK ==
    /\ capacity >= 0
    /\ Accounted => /\ request # NoRequest => request.n <= capacity
                    /\ call.op = "replace" /\ request = NoRequest =>
                          CallNPages <= capacity

SlabInv == /\ SlabTypes /\ ObjectsPlaced /\ RunsSplit /\ BitsKept /\ SlabsNeeded
           /\ CurrentsOK /\ SlabsFiled /\ CallOK /\ CapacityOK
SubInv  == IndInv /\ IdleOnce /\ SlabInv
-----------------------------------------------------------------------------
(* Arithmetic, and where objects lie.                                      *)

LEMMA MulMono ==
    ASSUME NEW a \in Int, NEW b \in Int, NEW k \in Nat, a <= b
    PROVE  a * k \in Int /\ b * k \in Int /\ a * k <= b * k
  OBVIOUS

LEMMA MulNext ==
    ASSUME NEW a \in Int, NEW k \in Nat
    PROVE  (a + 1) * k = a * k + k
  OBVIOUS

LEMMA MulLess ==
    ASSUME NEW a \in Int, NEW b \in Int, NEW k \in Nat \ {0}
    PROVE  /\ a * k < b * k => a < b
           /\ a * k = b * k => a = b
  OBVIOUS

LEMMA MulAdd ==
    ASSUME NEW a \in Int, NEW b \in Int, NEW k \in Nat
    PROVE  (a + b) * k = a * k + b * k
  OBVIOUS

LEMMA DivBounds ==
    ASSUME NEW x \in Int, NEW k \in Nat \ {0}
    PROVE  x \div k \in Int /\ (x \div k) * k <= x /\ x < (x \div k) * k + k
  OBVIOUS

LEMMA DivExact ==
    ASSUME NEW a \in Int, NEW k \in Nat \ {0}
    PROVE  (a * k) \div k = a
  OBVIOUS

\* SlabAssumption, class by class.
LEMMA SlabFacts ==
    /\ PageUnits \in Nat \ {0} /\ MaxNPages \in Nat \ {0}
    /\ \A c \in AllocClasses :
          /\ c \in Int /\ 0 <= c /\ c < NAllocClasses /\ c # Medium
          /\ SlabNPages[c] \in Int /\ 1 <= SlabNPages[c] /\ SlabNPages[c] <= MaxNPages
          /\ NSlots[c] \in Nat \ {0} /\ SlotSize[c] \in Nat \ {0}
          /\ NSlots[c] * SlotSize[c] = SlabNPages[c] * PageUnits
<1>1. PageUnits \in Nat \ {0} /\ MaxNPages \in Nat \ {0}
  BY SlabAssumption, RequestAssumption
<1>2. \A c \in AllocClasses : c \in Int /\ 0 <= c /\ c < NAllocClasses /\ c # Medium
  BY SlabAssumption DEF AllocClasses, Medium
<1>3. \A c \in AllocClasses : SlabNPages[c] \in 1 .. MaxNPages
  BY SlabAssumption
<1>4. \A c \in AllocClasses : NSlots[c] \in Nat \ {0} /\ SlotSize[c] \in Nat \ {0}
  BY SlabAssumption
<1>5. \A c \in AllocClasses : NSlots[c] * SlotSize[c] = SlabNPages[c] * PageUnits
  BY SlabAssumption
<1> QED
  BY <1>1, <1>2, <1>3, <1>4, <1>5

\* A slot lies within the units of its slab.
LEMMA SlotBounds ==
    ASSUME NEW c \in AllocClasses, NEW s \in Slots(c)
    PROVE  /\ s \in Nat /\ s * SlotSize[c] \in Nat
           /\ s * SlotSize[c] + SlotSize[c] <= SlabNPages[c] * PageUnits
<1>1. NSlots[c] \in Nat \ {0} /\ SlotSize[c] \in Nat \ {0}
  BY SlabFacts
<1>2. s \in Int /\ 0 <= s /\ s + 1 <= NSlots[c]
  BY <1>1 DEF Slots
<1>3. (s + 1) * SlotSize[c] <= NSlots[c] * SlotSize[c]
  BY <1>1, <1>2, MulMono
<1>4. (s + 1) * SlotSize[c] = s * SlotSize[c] + SlotSize[c]
  BY <1>1, <1>2, MulNext
<1>5. s * SlotSize[c] \in Nat
  BY <1>1, <1>2
<1> QED
  BY <1>2, <1>3, <1>4, <1>5, SlabFacts

\* The units of an object are units of the pages of a run.
InRun(o, r) ==
    /\ o[1] = r[1] /\ o[2] \in Int /\ o[3] \in Int /\ 1 <= o[3]
    /\ r[2] * PageUnits <= o[2] /\ o[2] + o[3] <= (r[2] + r[3]) * PageUnits

LEMMA MediumInRun ==
    ASSUME NEW r \in Run, NEW al
    PROVE  InRun(MediumObject(r, al), r) /\ MediumRun(MediumObject(r, al)) = r
<1> DEFINE o == MediumObject(r, al)
<1>1. r = <<r[1], r[2], r[3]>> /\ r[2] \in Int /\ r[3] \in Int /\ 1 <= r[3]
  BY ClassFacts DEF Run, Data
<1>2. o[1] = r[1] /\ o[2] = r[2] * PageUnits /\ o[3] = r[3] * PageUnits
  BY DEF MediumObject, Object
<1>3. PageUnits \in Nat \ {0}
  BY SlabFacts
<1>4. (r[2] + r[3]) * PageUnits = r[2] * PageUnits + r[3] * PageUnits
  BY <1>1, <1>3, MulAdd
<1>5. 1 * PageUnits <= r[3] * PageUnits /\ r[3] * PageUnits \in Int
  BY <1>1, <1>3, MulMono
<1>6. r[2] * PageUnits \in Int
  BY <1>1, <1>3
<1>7. InRun(o, r)
  BY <1>2, <1>3, <1>4, <1>5, <1>6 DEF InRun
<1>8. (r[2] * PageUnits) \div PageUnits = r[2] /\ (r[3] * PageUnits) \div PageUnits = r[3]
  BY <1>1, <1>3, DivExact
<1> QED
  BY <1>1, <1>2, <1>7, <1>8 DEF MediumRun

LEMMA SlotInRun ==
    ASSUME NEW p \in Page, NEW c \in AllocClasses, NEW s \in Slots(c), NEW al
    PROVE  InRun(SlotObject(p, c, s, al), SlabRun(p, c))
<1> DEFINE o == SlotObject(p, c, s, al)
           n == SlabNPages[c]
           off == s * SlotSize[c]
<1>1. p[2] \in Int
  BY ClassFacts DEF Page, Data
<1>2. PageUnits \in Nat \ {0} /\ n \in Int /\ SlotSize[c] \in Nat \ {0}
  BY SlabFacts
<1>3. o[1] = p[1] /\ o[2] = p[2] * PageUnits + off /\ o[3] = SlotSize[c]
  BY DEF SlotObject, Object
<1>4. off \in Nat /\ off + SlotSize[c] <= n * PageUnits
  BY SlotBounds
<1>5. (p[2] + n) * PageUnits = p[2] * PageUnits + n * PageUnits
  BY <1>1, <1>2, MulAdd
<1>6. p[2] * PageUnits \in Int /\ n * PageUnits \in Int
  BY <1>1, <1>2
<1>7. /\ SlabRun(p, c)[1] = p[1] /\ SlabRun(p, c)[2] = p[2] /\ SlabRun(p, c)[3] = n
  BY DEF SlabRun
<1> HIDE DEF o, off, n
<1>8. o[2] \in Int /\ p[2] * PageUnits <= o[2] /\ o[2] + o[3] <= (p[2] + n) * PageUnits
  BY <1>2, <1>3, <1>4, <1>5, <1>6
<1> QED
  BY <1>2, <1>3, <1>7, <1>8 DEF InRun, o

\* From the address of an object in a slab back to the slab and the slot.
LEMMA SlabOfSlot ==
    ASSUME idx_in_slab \in [Page -> Nat], NEW p \in Page, NEW c \in AllocClasses,
           p[2] + SlabNPages[c] <= DataNPages,
           \A q \in SlabEntries(p, c) : idx_in_slab[q] = q[2] - p[2],
           NEW s \in Slots(c), NEW al
    PROVE  /\ SlabOf(SlotObject(p, c, s, al)) = p
           /\ SlotOf(SlotObject(p, c, s, al)) = s
           /\ SlotObject(p, c, s, al)[2] \div PageUnits
                 \in p[2] .. (p[2] + SlabNPages[c] - 1)
<1> DEFINE o == SlotObject(p, c, s, al)
           n == SlabNPages[c]
           i == o[2] \div PageUnits
<1>1. p = <<p[1], p[2]>> /\ p[1] \in Arena /\ p[2] \in Int /\ 0 <= p[2]
  BY ClassFacts DEF Page, Data
<1>2. PageUnits \in Nat \ {0} /\ n \in Int /\ SlotSize[c] \in Nat \ {0}
  BY SlabFacts
<1>3. o[1] = p[1] /\ o[2] = p[2] * PageUnits + s * SlotSize[c] /\ o[4] = c
  BY DEF SlotObject, Object
<1>4. /\ o[2] \in Int /\ o[3] \in Int /\ 1 <= o[3]
      /\ p[2] * PageUnits <= o[2] /\ o[2] + o[3] <= (p[2] + n) * PageUnits
  BY SlotInRun DEF InRun, SlabRun
<1>5. s \in Nat /\ s * SlotSize[c] \in Nat
  BY SlotBounds
<1> HIDE DEF o, n
<1>6. i \in Int /\ i * PageUnits <= o[2] /\ o[2] < i * PageUnits + PageUnits
  BY <1>2, <1>4, DivBounds
<1> HIDE DEF i
<1>7. p[2] <= i
  <2>1. (i + 1) * PageUnits = i * PageUnits + PageUnits
    BY <1>2, <1>6, MulNext
  <2>2. p[2] * PageUnits \in Int /\ (i + 1) * PageUnits \in Int
    BY <1>1, <1>2, <1>6
  <2>3. p[2] * PageUnits < (i + 1) * PageUnits
    BY <1>4, <1>6, <2>1, <2>2
  <2>4. p[2] < i + 1
    BY <1>1, <1>2, <1>6, <2>3, MulLess
  <2> QED
    BY <1>1, <1>6, <2>4
<1>8. i < p[2] + n
  <2>1. i * PageUnits \in Int /\ (p[2] + n) * PageUnits \in Int
    BY <1>1, <1>2, <1>6
  <2>2. i * PageUnits < (p[2] + n) * PageUnits
    BY <1>4, <1>6, <2>1
  <2> QED
    BY <1>1, <1>2, <1>6, <2>2, MulLess
<1>9. <<p[1], i>> \in SlabEntries(p, c) /\ i \in p[2] .. (p[2] + n - 1)
  BY <1>1, <1>2, <1>6, <1>7, <1>8 DEF SlabEntries, Entries, n
<1>10. idx_in_slab[<<p[1], i>>] = i - p[2]
  BY <1>9
<1>11. SlabOf(o) = p
  <2>1. i - (i - p[2]) = p[2]
    BY <1>1, <1>6
  <2> QED
    BY <1>1, <1>3, <1>10, <2>1 DEF SlabOf, i
<1>12. SlotOf(o) = s
  <2>1. o[2] - p[2] * PageUnits = s * SlotSize[c]
    <3>1. p[2] * PageUnits \in Int
      BY <1>1, <1>2
    <3> QED
      BY <1>3, <1>5, <3>1
  <2>2. (s * SlotSize[c]) \div SlotSize[c] = s
    BY <1>2, <1>5, DivExact
  <2> QED
    BY <1>3, <1>11, <2>1, <2>2 DEF SlotOf
<1> QED
  BY <1>9, <1>11, <1>12 DEF o, i, n

\* Objects of runs that lie apart lie apart.
LEMMA ApartInRuns ==
    ASSUME NEW o, NEW q, NEW r \in Run, NEW s \in Run, InRun(o, r), InRun(q, s),
           r[1] # s[1] \/ r[2] + r[3] <= s[2] \/ s[2] + s[3] <= r[2]
    PROVE  o[1] # q[1] \/ o[2] + o[3] <= q[2] \/ q[2] + q[3] <= o[2]
<1>1. r[2] \in Int /\ r[3] \in Int /\ s[2] \in Int /\ s[3] \in Int
  BY ClassFacts DEF Run, Data
<1>2. PageUnits \in Nat
  BY SlabFacts
<1>3. ASSUME r[2] + r[3] <= s[2]
      PROVE  o[2] + o[3] <= q[2]
  <2>1. /\ (r[2] + r[3]) * PageUnits <= s[2] * PageUnits
        /\ (r[2] + r[3]) * PageUnits \in Int /\ s[2] * PageUnits \in Int
    BY <1>1, <1>2, <1>3, MulMono
  <2> QED
    BY <2>1 DEF InRun
<1>4. ASSUME s[2] + s[3] <= r[2]
      PROVE  q[2] + q[3] <= o[2]
  <2>1. /\ (s[2] + s[3]) * PageUnits <= r[2] * PageUnits
        /\ (s[2] + s[3]) * PageUnits \in Int /\ r[2] * PageUnits \in Int
    BY <1>1, <1>2, <1>4, MulMono
  <2> QED
    BY <2>1 DEF InRun
<1> QED
  BY <1>3, <1>4 DEF InRun
-----------------------------------------------------------------------------
(* Slabs and objects in a state that satisfies the invariant.              *)

LEMMA SlabRunFacts ==
    ASSUME IndInv, SlabInv, NEW x \in slabs
    PROVE  /\ x = <<x[1], x[2]>> /\ x[1] \in Page /\ x[2] \in AllocClasses
           /\ SlabRun(x[1], x[2]) \in held /\ SlabRun(x[1], x[2]) \in Run
           /\ SlabRun(x[1], x[2]) \in SlabRuns
           /\ x[1][2] + SlabNPages[x[2]] <= DataNPages
<1>1. x = <<x[1], x[2]>> /\ x[1] \in Page /\ x[2] \in AllocClasses
  BY DEF SlabInv, SlabTypes
<1>2. SlabRun(x[1], x[2]) \in SlabRuns
  BY DEF SlabRuns
<1>3. SlabRun(x[1], x[2]) \in held
  BY <1>2 DEF SlabInv, RunsSplit
<1>4. SlabRun(x[1], x[2]) \in Runs
  BY <1>3 DEF Runs
<1>5. /\ SlabRun(x[1], x[2]) \in Run
      /\ SlabRun(x[1], x[2])[2] + SlabRun(x[1], x[2])[3] <= DataNPages
  BY <1>4, RunFacts DEF IndInv
<1> QED
  BY <1>1, <1>2, <1>3, <1>5 DEF SlabRun

\* What an object is, by its class.
LEMMA ObjectCases ==
    ASSUME IndInv, SlabInv, NEW o \in live
    PROVE  \/ /\ o[4] = Medium
              /\ \E r \in held, al \in PageAligns :
                    o = MediumObject(r, al) /\ InRun(o, r) /\ r \in Run
           \/ /\ o[4] \in AllocClasses
              /\ \E x \in slabs : \E s \in HeldSlots(x), al \in PageAligns :
                    /\ o = SlotObject(x[1], x[2], s, al) /\ x[2] = o[4]
                    /\ InRun(o, SlabRun(x[1], x[2]))
<1>1. CASE \E r \in held, al \in PageAligns : o = MediumObject(r, al)
  <2>1. PICK r \in held, al \in PageAligns : o = MediumObject(r, al)
    BY <1>1
  <2>2. r \in Run
    BY DEF IndInv, TypeOK
  <2>3. o[4] = Medium
    BY <2>1 DEF MediumObject, Object
  <2> QED
    BY <2>1, <2>2, <2>3, MediumInRun
<1>2. CASE \E x \in slabs : \E s \in HeldSlots(x), al \in PageAligns :
              o = SlotObject(x[1], x[2], s, al)
  <2>1. PICK x \in slabs : \E s \in HeldSlots(x), al \in PageAligns :
              o = SlotObject(x[1], x[2], s, al)
    BY <1>2
  <2>2. PICK s \in HeldSlots(x), al \in PageAligns : o = SlotObject(x[1], x[2], s, al)
    BY <2>1
  <2>3. x[1] \in Page /\ x[2] \in AllocClasses
    BY SlabRunFacts
  <2>4. o[4] = x[2]
    BY <2>2 DEF SlotObject, Object
  <2>5. InRun(o, SlabRun(x[1], x[2]))
    <3>1. s \in Slots(x[2])
      BY DEF HeldSlots
    <3> QED
      BY <2>2, <2>3, <3>1, SlotInRun
  <2> QED
    BY <2>2, <2>3, <2>4, <2>5
<1> QED
  BY <1>1, <1>2 DEF SlabInv, ObjectsPlaced

\* The run of an object.
LEMMA ObjectRun ==
    ASSUME IndInv, SlabInv, NEW o \in live
    PROVE  \E r \in held : /\ InRun(o, r) /\ r \in Run /\ r \in Runs
                           /\ r \in SlabRuns => o[4] \in AllocClasses
                           /\ r \notin SlabRuns => o[4] = Medium
<1>1. \A r \in held : r \in Run /\ r \in Runs
  BY DEF IndInv, TypeOK, Runs
<1>2. CASE o[4] = Medium /\ \E r \in held, al \in PageAligns :
                    o = MediumObject(r, al) /\ InRun(o, r) /\ r \in Run
  <2>1. PICK r \in held, al \in PageAligns : o = MediumObject(r, al) /\ InRun(o, r)
    BY <1>2
  <2>2. r \in MediumRuns
    BY <2>1 DEF MediumRuns
  <2>3. r \notin SlabRuns
    BY <2>2 DEF SlabInv, RunsSplit
  <2> QED
    BY <1>1, <1>2, <2>1, <2>3
<1>3. CASE o[4] \in AllocClasses /\ \E x \in slabs : \E s \in HeldSlots(x), al \in PageAligns :
                    /\ o = SlotObject(x[1], x[2], s, al) /\ x[2] = o[4]
                    /\ InRun(o, SlabRun(x[1], x[2]))
  <2>1. PICK x \in slabs : InRun(o, SlabRun(x[1], x[2]))
    BY <1>3
  <2>2. SlabRun(x[1], x[2]) \in held /\ SlabRun(x[1], x[2]) \in SlabRuns
    BY SlabRunFacts
  <2> QED
    BY <1>1, <1>3, <2>1, <2>2
<1> QED
  BY <1>2, <1>3, ObjectCases

\* Two slabs that share a run are the same slab.
LEMMA SlabOfRun ==
    ASSUME IndInv, SlabInv, NEW x \in slabs, NEW y \in slabs,
           SlabRun(x[1], x[2]) = SlabRun(y[1], y[2])
    PROVE  x = y
<1>1. x[1] = <<x[1][1], x[1][2]>> /\ y[1] = <<y[1][1], y[1][2]>>
  BY SlabRunFacts DEF Page
<1>2. x[1][1] = y[1][1] /\ x[1][2] = y[1][2]
  BY DEF SlabRun
<1>3. x[1] = y[1]
  BY <1>1, <1>2
<1> QED
  BY <1>3 DEF SlabInv, RunsSplit

\* Slots of one slab lie apart.
LEMMA SlotsApart ==
    ASSUME NEW p \in Page, NEW c \in AllocClasses, NEW s \in Slots(c), NEW t \in Slots(c),
           s # t, NEW al, NEW am
    PROVE  LET o == SlotObject(p, c, s, al)
               q == SlotObject(p, c, t, am)
           IN  o[2] + o[3] <= q[2] \/ q[2] + q[3] <= o[2]
<1> DEFINE k == SlotSize[c]
           base == p[2] * PageUnits
           o == SlotObject(p, c, s, al)
           q == SlotObject(p, c, t, am)
<1>1. k \in Nat \ {0} /\ s \in Int /\ t \in Int /\ base \in Int
  <2>1. p[2] \in Int
    BY ClassFacts DEF Page, Data
  <2>2. s \in Int /\ t \in Int
    BY SlotBounds
  <2> QED
    BY <2>1, <2>2, SlabFacts
<1>2. o[2] = base + s * k /\ o[3] = k /\ q[2] = base + t * k /\ q[3] = k
  BY DEF SlotObject, Object
<1>3. s + 1 <= t \/ t + 1 <= s
  BY <1>1
<1>4. (s + 1) * k = s * k + k /\ (t + 1) * k = t * k + k /\ s * k \in Int /\ t * k \in Int
  BY <1>1, MulNext
<1> HIDE DEF k, base, o, q
<1>5. ASSUME s + 1 <= t
      PROVE  o[2] + o[3] <= q[2]
  <2>1. (s + 1) * k <= t * k
    BY <1>1, <1>5, MulMono
  <2> QED
    BY <1>1, <1>2, <1>4, <2>1
<1>6. ASSUME t + 1 <= s
      PROVE  q[2] + q[3] <= o[2]
  <2>1. (t + 1) * k <= s * k
    BY <1>1, <1>6, MulMono
  <2> QED
    BY <1>1, <1>2, <1>4, <2>1
<1> QED
  BY <1>3, <1>5, <1>6 DEF o, q

\* Objects lie apart.
LEMMA ObjectsApart ==
    ASSUME IndInv, SlabInv, NEW o \in live, NEW q \in live, o # q
    PROVE  o[1] # q[1] \/ o[2] + o[3] <= q[2] \/ q[2] + q[3] <= o[2]
<1>1. PICK r \in held : /\ InRun(o, r) /\ r \in Run /\ r \in Runs
                        /\ r \in SlabRuns => o[4] \in AllocClasses
                        /\ r \notin SlabRuns => o[4] = Medium
  BY ObjectRun
<1>2. PICK s \in held : /\ InRun(q, s) /\ s \in Run /\ s \in Runs
                        /\ s \in SlabRuns => q[4] \in AllocClasses
                        /\ s \notin SlabRuns => q[4] = Medium
  BY ObjectRun
<1>3. ASSUME NEW f \in Runs, NEW g \in Runs, InRun(o, f), InRun(q, g), f # g
      PROVE  o[1] # q[1] \/ o[2] + o[3] <= q[2] \/ q[2] + q[3] <= o[2]
  <2>1. f \in Run /\ g \in Run
    BY DEF IndInv, TypeOK, Runs
  <2>2. f[1] # g[1] \/ f[2] + f[3] <= g[2] \/ g[2] + g[3] <= f[2]
    BY <1>3, RunsApart DEF IndInv
  <2> QED
    BY <1>3, <2>1, <2>2, ApartInRuns
<1>4. CASE r # s
  BY <1>1, <1>2, <1>3, <1>4
<1>5. CASE r = s /\ o[4] = Medium
  <2>1. q[4] = Medium
    BY <1>1, <1>2, <1>5, SlabFacts
  <2>2. PICK f \in held, al \in PageAligns : o = MediumObject(f, al) /\ InRun(o, f)
    BY <1>5, ObjectCases, SlabFacts
  <2>3. PICK g \in held, am \in PageAligns : q = MediumObject(g, am) /\ InRun(q, g)
    BY <2>1, ObjectCases, SlabFacts
  <2>4. CASE f # g
    BY <1>3, <2>2, <2>3, <2>4 DEF Runs
  <2>5. CASE f = g
    BY <2>2, <2>3, <2>5 DEF MediumObject, Object, SlabInv, ObjectsPlaced
  <2> QED
    BY <2>4, <2>5
<1>6. CASE r = s /\ o[4] \in AllocClasses
  <2>1. q[4] \in AllocClasses
    BY <1>1, <1>2, <1>6, SlabFacts
  <2>2. PICK x \in slabs : \E k \in HeldSlots(x), al \in PageAligns :
                    /\ o = SlotObject(x[1], x[2], k, al) /\ x[2] = o[4]
                    /\ InRun(o, SlabRun(x[1], x[2]))
    BY <1>6, ObjectCases, SlabFacts
  <2>3. PICK y \in slabs : \E k \in HeldSlots(y), al \in PageAligns :
                    /\ q = SlotObject(y[1], y[2], k, al) /\ y[2] = q[4]
                    /\ InRun(q, SlabRun(y[1], y[2]))
    BY <2>1, ObjectCases, SlabFacts
  <2>4. CASE SlabRun(x[1], x[2]) # SlabRun(y[1], y[2])
    <3>1. SlabRun(x[1], x[2]) \in Runs /\ SlabRun(y[1], y[2]) \in Runs
      BY SlabRunFacts DEF Runs
    <3> QED
      BY <1>3, <2>2, <2>3, <2>4, <3>1
  <2>5. CASE SlabRun(x[1], x[2]) = SlabRun(y[1], y[2])
    <3>1. x = y
      BY <2>5, SlabOfRun
    <3>2. PICK k \in HeldSlots(x), al \in PageAligns : o = SlotObject(x[1], x[2], k, al)
      BY <2>2
    <3>3. PICK l \in HeldSlots(x), am \in PageAligns : q = SlotObject(x[1], x[2], l, am)
      BY <2>3, <3>1
    <3>4. k \in Slots(x[2]) /\ l \in Slots(x[2]) /\ x[1] \in Page /\ x[2] \in AllocClasses
      BY SlabRunFacts DEF HeldSlots
    <3>5. k # l
      BY <3>2, <3>3 DEF SlotObject, Object, SlabInv, ObjectsPlaced
    <3> QED
      BY <3>2, <3>3, <3>4, <3>5, SlotsApart
  <2> QED
    BY <2>4, <2>5
<1> QED
  BY <1>1, <1>4, <1>5, <1>6

\* The slab and the slot of a small object, as deallocate finds them.
LEMMA SmallObject ==
    ASSUME IndInv, SlabInv, NEW o \in live, o[4] # Medium
    PROVE  /\ o[4] \in AllocClasses /\ <<SlabOf(o), o[4]>> \in slabs
           /\ SlotOf(o) \in Slots(o[4]) /\ SlotOf(o) \in allocated[SlabOf(o)]
           /\ \E al \in PageAligns : o = SlotObject(SlabOf(o), o[4], SlotOf(o), al)
           /\ o[2] \div PageUnits \in RunPages(SlabRun(SlabOf(o), o[4]))
<1>1. PICK x \in slabs : \E s \in HeldSlots(x), al \in PageAligns :
                    /\ o = SlotObject(x[1], x[2], s, al) /\ x[2] = o[4]
                    /\ InRun(o, SlabRun(x[1], x[2]))
  BY ObjectCases
<1>2. PICK s \in HeldSlots(x), al \in PageAligns : o = SlotObject(x[1], x[2], s, al)
  BY <1>1
<1>3. /\ x = <<x[1], x[2]>> /\ x[1] \in Page /\ x[2] \in AllocClasses
      /\ x[1][2] + SlabNPages[x[2]] <= DataNPages
  BY SlabRunFacts
<1>4. s \in Slots(x[2]) /\ s \in allocated[x[1]]
  BY DEF HeldSlots
<1>5. /\ idx_in_slab \in [Page -> Nat]
      /\ \A q \in SlabEntries(x[1], x[2]) : idx_in_slab[q] = q[2] - x[1][2]
  BY DEF SlabInv, SlabTypes, BitsKept
<1>6. /\ SlabOf(o) = x[1] /\ SlotOf(o) = s
      /\ o[2] \div PageUnits \in x[1][2] .. (x[1][2] + SlabNPages[x[2]] - 1)
  BY <1>2, <1>3, <1>4, <1>5, SlabOfSlot
<1>7. RunPages(SlabRun(x[1], x[2])) = x[1][2] .. (x[1][2] + SlabNPages[x[2]] - 1)
  BY DEF RunPages, SlabRun
<1> QED
  BY <1>1, <1>2, <1>3, <1>4, <1>6, <1>7

\* The run of a medium object, as deallocate finds it.
LEMMA MediumOf ==
    ASSUME IndInv, SlabInv, NEW o \in live, o[4] = Medium
    PROVE  /\ MediumRun(o) \in held /\ MediumRun(o) \in Run
           /\ MediumRun(o) \in MediumRuns /\ MediumRun(o) \notin SlabRuns
           /\ \E al \in PageAligns : o = MediumObject(MediumRun(o), al)
<1>1. PICK r \in held, al \in PageAligns : o = MediumObject(r, al) /\ r \in Run
  BY ObjectCases, SlabFacts
<1>2. MediumRun(o) = r
  BY <1>1, MediumInRun
<1>3. r \in MediumRuns
  BY <1>1 DEF MediumRuns
<1>4. r \notin SlabRuns
  BY <1>3 DEF SlabInv, RunsSplit
<1> QED
  BY <1>1, <1>2, <1>3, <1>4

\* Objects aligned to two pages have slabs of two pages.
LEMMA TwoPages ==
    ASSUME NEW c \in AllocClasses, NEW al \in SmallAligns(c)
    PROVE  /\ al \in PageAligns /\ al \in Nat \ {0} /\ al <= SlabNPages[c]
           /\ al > 1 => SlabNPages[c] = 2 /\ NSlots[c] = 1
<1>1. /\ NSlots[c] * SlotSize[c] = SlabNPages[c] * PageUnits /\ PageUnits \in Nat \ {0}
      /\ SlabNPages[c] \in Int /\ 1 <= SlabNPages[c]
  BY SlabFacts
<1>2. 1 \in PageAligns
  BY SlabAssumption
<1>3. CASE c = TwoPageClass
  <2>1. al \in PageAligns /\ al \in {1, 2}
    BY <1>3 DEF SmallAligns
  <2>2. SlotSize[c] = 2 * PageUnits /\ NSlots[c] = 1
    BY <1>3, SlabAssumption
  <2>3. 2 * PageUnits = SlabNPages[c] * PageUnits
    BY <1>1, <2>2
  <2>4. SlabNPages[c] = 2
    BY <1>1, <2>3, MulLess
  <2> QED
    BY <2>1, <2>2, <2>4
<1>4. CASE c # TwoPageClass
  BY <1>1, <1>2, <1>4 DEF SmallAligns
<1> QED
  BY <1>3, <1>4

\* Between two calls no page is asked for, and no slab is stale.
LEMMA IdleFacts ==
    ASSUME SlabInv, call = Idle
    PROVE  /\ request = NoRequest
           /\ \A c \in AllocClasses : ~Stale(c) /\ Current(c) = current_slabs[c]
<1>1. call.op = "idle"
  BY DEF Idle
<1>2. request = NoRequest
  BY <1>1 DEF SlabInv, CallOK
<1>3. \A c \in AllocClasses : ~Stale(c)
  BY <1>1 DEF Stale
<1> QED
  BY <1>2, <1>3 DEF Current

\* A current slab that is not stale.
LEMMA CurrentFacts ==
    ASSUME IndInv, SlabInv, NEW c \in AllocClasses, ~Stale(c), HasCurrent(c)
    PROVE  /\ Current(c) = current_slabs[c] /\ current_slabs[c] \in Page
           /\ <<current_slabs[c], c>> \in slabs
           /\ SlabRun(current_slabs[c], c) \in held
           /\ SlabRun(current_slabs[c], c) \in SlabRuns
<1>1. Current(c) = current_slabs[c] /\ Current(c) # NullSlab
  BY DEF Current, HasCurrent
<1>2. <<current_slabs[c], c>> \in slabs
  BY <1>1 DEF SlabInv, CurrentsOK
<1>3. PICK x \in slabs : x = <<current_slabs[c], c>>
  BY <1>2
<1>4. x[1] = current_slabs[c] /\ x[2] = c
  BY <1>3
<1> QED
  BY <1>1, <1>2, <1>4, SlabRunFacts
-----------------------------------------------------------------------------
(* Every step is one that the page allocator allows.                       *)

CapacityOnly == OnlyCapacity /\ capacity' \in Int
ProperStep   == [Next \/ GivesBackHeld \/ CapacityOnly]_vars

LEMMA ProperStepInd ==
    ASSUME IndInv, IdleOnce, ProperStep
    PROVE  IndInv' /\ IdleOnce'
<1>1. CASE [Next]_vars
  BY <1>1, NextInd, NextIdle
<1>2. CASE GivesBackHeld
  <2>1. PICK r \in held : deallocate_page(r) \/ deallocate_page_unmap(r)
    BY <1>2 DEF GivesBackHeld, FreePagesOf
  <2>2. request = NoRequest
    BY <1>2 DEF GivesBackHeld
  <2>3. IndInv'
    BY <2>1, <2>2, MergePreserves, UnmapPreserves
  <2> QED
    BY <2>1, <2>2, <2>3, GiveBackIdle
<1>3. CASE CapacityOnly
  <2>1. UNCHANGED <<arenas, used, n_pages, link, request, held, heads>> /\ capacity' \in Int
    BY <1>3 DEF CapacityOnly, OnlyCapacity, PageStateButCapacity
  <2>2. FreeRuns' = FreeRuns /\ Runs' = Runs
    BY <2>1 DEF FreeRuns, Runs
  <2>3. TypeOK'
    BY <2>1, <2>2 DEF IndInv, TypeOK
  <2>4. Tiled' /\ BoundaryTags' /\ Coalesced'
    BY <2>1, <2>2 DEF IndInv, Tiled, IsTiling, BoundaryTags, Coalesced
  <2>5. ListsSound'
    BY <2>1 DEF IndInv, ListsSound, ListsLinked, LinkedOver, ClassOf, Ranked
  <2>6. RequestOK'
    BY <2>1 DEF IndInv, RequestOK, FreshFits, IsEmpty, First
  <2>7. IdleOnce'
    BY <2>1 DEF IdleOnce, OneIdleArena, IdleArenas, First
  <2> QED
    BY <2>3, <2>4, <2>5, <2>6, <2>7 DEF IndInv
<1> QED
  BY <1>1, <1>2, <1>3 DEF ProperStep

\* A step in which the pages of a slab are given back.
LEMMA GiveBackSlab ==
    ASSUME request = NoRequest, NEW r \in held, FreePagesOf(r)
    PROVE  ProperStep
  BY DEF GivesBackHeld, ProperStep

LEMMA NextAllIsProper ==
    ASSUME SubInv, [NextAll]_allVars
    PROVE  ProperStep
<1>1. IndInv /\ SlabInv
  BY DEF SubInv
<1>2. ASSUME UNCHANGED vars
      PROVE  ProperStep
  BY <1>2 DEF ProperStep
<1>3. ASSUME NEW c \in AllocClasses, NEW al \in SmallAligns(c), replace_misplaced(c, al)
      PROVE  ProperStep
  <2> DEFINE p == current_slabs[c]
             r == <<p[1], p[2], 2>>
  <2>1. call = Idle /\ HasCurrent(c) /\ al > 1 /\ FreePagesOf(r)
    BY <1>3 DEF replace_misplaced, CurrentHasSlot, Misplaced
  <2>2. request = NoRequest /\ ~Stale(c)
    BY <1>1, <2>1, IdleFacts
  <2>3. SlabRun(p, c) \in held
    BY <1>1, <2>1, <2>2, CurrentFacts
  <2>4. SlabRun(p, c) = r
    BY <2>1, TwoPages DEF SlabRun
  <2> QED
    BY <2>1, <2>2, <2>3, <2>4, GiveBackSlab
<1>4. ASSUME ask_pages
      PROVE  ProperStep
  <2>1. call.op \in {"small", "replace", "medium"} /\ call_allocate_page(CallNPages, call.align)
    BY <1>4 DEF ask_pages
  <2>2. CASE call.op = "medium"
    <3>1. /\ CallNPages = call.class /\ call.class \in MinMediumNPages .. MaxNPages
          /\ call.align \in PageAligns /\ call.class >= call.align
      BY <1>1, <2>2 DEF CallNPages, SlabInv, CallOK
    <3>2. CallNPages \in 1 .. MaxNPages
      BY <3>1, SlabAssumption, RequestAssumption
    <3> QED
      BY <2>1, <3>1, <3>2 DEF Next, ProperStep
  <2>3. CASE call.op \in {"small", "replace"}
    <3>1. /\ CallNPages = SlabNPages[call.class] /\ call.class \in AllocClasses
          /\ call.align \in SmallAligns(call.class)
      BY <1>1, <2>3 DEF CallNPages, SlabInv, CallOK
    <3>2. CallNPages \in 1 .. MaxNPages
      BY <3>1, SlabAssumption
    <3>3. call.align \in PageAligns /\ CallNPages >= call.align
      BY <3>1, TwoPages, SlabFacts
    <3> QED
      BY <2>1, <3>2, <3>3 DEF Next, ProperStep
  <2> QED
    BY <2>1, <2>2, <2>3
<1>5. ASSUME NEW a \in Arena, map_arena(a)
      PROVE  ProperStep
  BY <1>5 DEF map_arena, Next, ProperStep
<1>6. ASSUME \/ create_fails \/ (\E a \in Arena : create_throws(a))
             \/ allocate_page \/ allocate_page_fresh
      PROVE  ProperStep
  BY <1>6 DEF Next, ProperStep
<1>7. ASSUME allocate_large \/ allocate_large_throws \/ deallocate_large
      PROVE  ProperStep
  <2>1. call = Idle /\ UNCHANGED PageStateButCapacity
    BY <1>7 DEF allocate_large, allocate_large_throws, deallocate_large
  <2>2. CASE Accounted
    <3>1. capacity \in Int /\ LargeNPages \in Int
      BY <1>1, SlabAssumption DEF IndInv, TypeOK
    <3>2. capacity' \in Int
      BY <1>7, <2>2, <3>1 DEF allocate_large, allocate_large_throws, deallocate_large
    <3> QED
      BY <2>1, <2>2, <3>2 DEF CapacityOnly, OnlyCapacity, ProperStep
  <2>3. CASE ~Accounted
    <3>1. capacity' = capacity
      BY <1>7, <2>3 DEF allocate_large, allocate_large_throws, deallocate_large
    <3> QED
      BY <2>1, <3>1 DEF PageStateButCapacity, vars, ProperStep
  <2> QED
    BY <2>2, <2>3
<1>8. ASSUME NEW o \in live, deallocate(o)
      PROVE  ProperStep
  <2>1. request = NoRequest
    BY <1>1, <1>8, IdleFacts DEF deallocate
  <2>2. CASE o[4] = Medium
    <3>1. FreePagesOf(MediumRun(o))
      BY <1>8, <2>2 DEF deallocate, deallocate_medium
    <3>2. MediumRun(o) \in held
      BY <1>1, <2>2, MediumOf
    <3> QED
      BY <2>1, <3>1, <3>2, GiveBackSlab
  <2>3. CASE o[4] # Medium
    <3>1. CASE deallocate_small(o)
      BY <1>2, <3>1 DEF deallocate_small, pageVars
    <3>2. CASE deallocate_small_last(o)
      <4>1. FreePagesOf(SlabRun(SlabOf(o), o[4]))
        BY <3>2 DEF deallocate_small_last
      <4>2. PICK x \in slabs : x = <<SlabOf(o), o[4]>>
        BY <1>1, <2>3, SmallObject
      <4>3. SlabRun(SlabOf(o), o[4]) \in held
        BY <1>1, <4>2, SlabRunFacts
      <4> QED
        BY <2>1, <4>1, <4>3, GiveBackSlab
    <3> QED
      BY <1>8, <2>3, <3>1, <3>2 DEF deallocate
  <2> QED
    BY <2>2, <2>3
<1>9. ASSUME destroy_class
      PROVE  ProperStep
  <2> DEFINE c == call.class
  <2>1. call.op = "destroy" /\ c < NAllocClasses /\ c \in AllocClasses
    <3>1. call.op = "destroy" /\ c < NAllocClasses
      BY <1>9 DEF destroy_class
    <3>2. c \in Nat
      BY <1>1 DEF SlabInv, SlabTypes, Call
    <3> QED
      BY <3>1, <3>2, SlabAssumption DEF AllocClasses
  <2>2. CASE HasCurrent(c)
    <3>1. FreePagesOf(SlabRun(current_slabs[c], c))
      BY <1>9, <2>2 DEF destroy_class
    <3>2. request = NoRequest /\ ~Stale(c)
      BY <1>1, <2>1, SlabFacts DEF SlabInv, CallOK, Stale
    <3>3. SlabRun(current_slabs[c], c) \in held
      BY <1>1, <2>1, <2>2, <3>2, CurrentFacts
    <3> QED
      BY <3>1, <3>2, <3>3, GiveBackSlab
  <2>3. CASE ~HasCurrent(c)
    BY <1>2, <1>9, <2>3 DEF destroy_class, pageVars
  <2> QED
    BY <2>2, <2>3
<1> QED
  <2>1. CASE UNCHANGED allVars
    BY <1>2, <2>1 DEF allVars
  <2>2. CASE NextAll
    <3>1. ASSUME NEW c \in AllocClasses, NEW al \in SmallAligns(c),
                 allocate_from_current(c, al) \/ allocate_from_list(c, al) \/ need_new_slab(c, al)
          PROVE  ProperStep
      BY <1>2, <3>1 DEF allocate_from_current, allocate_from_list, need_new_slab, pageVars
    <3>2. ASSUME NEW n \in MinMediumNPages .. MaxNPages, NEW al \in PageAligns,
                 allocate_medium(n, al)
          PROVE  ProperStep
      BY <1>2, <3>2 DEF allocate_medium, pageVars
    <3>3. ASSUME ask_pages_throws \/ destroy \/ destroyed
          PROVE  ProperStep
      BY <1>2, <3>3 DEF ask_pages_throws, destroy, destroyed, pageVars
    <3>4. ASSUME gone
          PROVE  ProperStep
      BY <1>2, <3>4 DEF gone, allVars
    <3>5. ASSUME map_arena_throws \/ finish_small \/ finish_medium
          PROVE  ProperStep
      BY <1>6, <3>5 DEF map_arena_throws, finish_small, finish_medium
    <3> QED
      BY <2>2, <1>3, <1>4, <1>5, <1>7, <1>8, <1>9, <3>1, <3>2, <3>3, <3>4, <3>5 DEF NextAll
  <2> QED
    BY <2>1, <2>2
-----------------------------------------------------------------------------
(* What a step does to the objects and to the bits.                        *)

\* What the invariant says of slabs and objects, when no slab and no object
\* changes.
LEMMA MemoryKept ==
    ASSUME SlabInv, UNCHANGED <<current_slabs, slab_link, allocated, idx_in_slab, slabs,
                                live, held>>,
           \A c \in AllocClasses : Current(c)' = Current(c)
    PROVE  /\ ObjectsPlaced' /\ RunsSplit' /\ BitsKept' /\ SlabsNeeded'
           /\ CurrentsOK' /\ SlabsFiled'
<1>1. ObjectsPlaced'
  BY DEF SlabInv, ObjectsPlaced, HeldSlots
<1>2. RunsSplit'
  BY DEF SlabInv, RunsSplit, SlabRuns, MediumRuns
<1>3. BitsKept'
  BY DEF SlabInv, BitsKept, HeldSlots
<1>4. \A x \in slabs : Current(x[2])' = Current(x[2])
  BY DEF SlabInv, SlabTypes
<1>5. SlabsNeeded' /\ CurrentsOK'
  BY <1>4 DEF SlabInv, SlabsNeeded, CurrentsOK
<1>6. NonFull' = NonFull
  BY <1>4 DEF NonFull, IsFull, FreeSlots
<1>7. SlabClass' = SlabClass
  BY DEF SlabClass, SlabOfPage
<1>8. SlabsFiled'
  BY <1>4, <1>6, <1>7 DEF SlabInv, SlabsFiled, IsFull, FreeSlots
<1> QED
  BY <1>1, <1>2, <1>3, <1>5, <1>8

\* The entries of two slabs.
LEMMA EntriesApart ==
    ASSUME IndInv, SlabInv, NEW x \in slabs, NEW y \in slabs, x # y
    PROVE  SlabEntries(x[1], x[2]) \cap SlabEntries(y[1], y[2]) = {}
<1> DEFINE r == SlabRun(x[1], x[2])
           s == SlabRun(y[1], y[2])
<1>1. r \in Runs /\ s \in Runs
  BY SlabRunFacts DEF Runs
<1>2. r # s
  BY SlabOfRun
<1>3. r[1] # s[1] \/ r[2] + r[3] <= s[2] \/ s[2] + s[3] <= r[2]
  BY <1>1, <1>2, RunsApart DEF IndInv
<1>4. r[2] \in Int /\ r[3] \in Int /\ s[2] \in Int /\ s[3] \in Int
  BY <1>1, RunFacts DEF IndInv
<1>5. /\ SlabEntries(x[1], x[2]) = {<<r[1], i>> : i \in r[2] .. (r[2] + r[3] - 1)}
      /\ SlabEntries(y[1], y[2]) = {<<s[1], i>> : i \in s[2] .. (s[2] + s[3] - 1)}
  BY DEF SlabEntries, Entries, SlabRun
<1> HIDE DEF r, s
<1> QED
  BY <1>3, <1>4, <1>5

\* The slots of a slab are not its spare bits.
LEMMA SpareFacts ==
    ASSUME NEW c \in AllocClasses
    PROVE  Slots(c) \subseteq Nat /\ SpareBits(c) \subseteq Nat /\ Slots(c) \cap SpareBits(c) = {}
<1>1. NSlots[c] \in Nat /\ WordBits \in Nat
  BY SlabFacts, SlabAssumption
<1> QED
  BY <1>1 DEF Slots, SpareBits

\* A slot of a slab is taken, and the bits B behind the last one with it.
LEMMA TakeSlot ==
    ASSUME IndInv, SlabInv, NEW p \in Page, NEW c \in AllocClasses, <<p, c>> \in slabs,
           NEW s \in Slots(c), s \notin allocated[p], NEW al \in PageAligns,
           NEW B \in SUBSET SpareBits(c), WordsFilled(c) => B = {},
           allocated' = [allocated EXCEPT ![p] = @ \cup {s} \cup B],
           live' = live \cup {SlotObject(p, c, s, al)},
           UNCHANGED <<held, slabs, idx_in_slab>>
    PROVE  /\ ObjectsPlaced' /\ RunsSplit' /\ BitsKept'
           /\ allocated' \in [Page -> SUBSET Nat] /\ IsFiniteSet(live)'
<1> DEFINE n == SlotObject(p, c, s, al)
<1>1. /\ allocated \in [Page -> SUBSET Nat] /\ IsFiniteSet(live)
      /\ slabs \subseteq Page \X AllocClasses
  BY DEF SlabInv, SlabTypes
<1>2. PICK z \in slabs : z = <<p, c>>
  OBVIOUS
<1>3. z[1] = p /\ z[2] = c /\ \A x \in slabs : x[1] = p => x = z
  <2>1. z[1] = p /\ z[2] = c
    BY <1>2
  <2> QED
    BY <2>1 DEF SlabInv, RunsSplit
<1>4. Slots(c) \subseteq Nat /\ SpareBits(c) \subseteq Nat /\ Slots(c) \cap SpareBits(c) = {}
  BY SpareFacts
<1>5. allocated' \in [Page -> SUBSET Nat]
  BY <1>1, <1>4
<1>6. /\ \A x \in slabs : x # z => allocated'[x[1]] = allocated[x[1]]
      /\ allocated'[p] = allocated[p] \cup {s} \cup B
  BY <1>1, <1>3
<1>7. /\ \A x \in slabs : x # z => HeldSlots(x)' = HeldSlots(x)
      /\ HeldSlots(z)' = HeldSlots(z) \cup {s}
  BY <1>3, <1>4, <1>6 DEF HeldSlots
<1>8. n[4] = c /\ n = SlotObject(z[1], z[2], s, al)
  BY <1>3 DEF SlotObject, Object
<1>9. \A o \in live : ~(o[1] = n[1] /\ o[2] = n[2])
  <2> SUFFICES ASSUME NEW o \in live, o[1] = n[1], o[2] = n[2]
               PROVE  FALSE
    OBVIOUS
  <2>1. InRun(n, SlabRun(p, c)) /\ SlabRun(p, c) \in Runs /\ SlabRun(p, c) \in SlabRuns
    BY <1>3, SlotInRun, SlabRunFacts DEF Runs
  <2>2. PICK r \in held : /\ InRun(o, r) /\ r \in Run /\ r \in Runs
                          /\ r \in SlabRuns => o[4] \in AllocClasses
                          /\ r \notin SlabRuns => o[4] = Medium
    BY ObjectRun
  <2>3. ASSUME NEW f \in Runs, InRun(o, f)
        PROVE  f = SlabRun(p, c)
    <3> SUFFICES ASSUME f # SlabRun(p, c)
                 PROVE  FALSE
      OBVIOUS
    <3>1. f \in Run /\ SlabRun(p, c) \in Run
      BY <2>1 DEF IndInv, TypeOK, Runs
    <3>2. \/ f[1] # SlabRun(p, c)[1] \/ f[2] + f[3] <= SlabRun(p, c)[2]
          \/ SlabRun(p, c)[2] + SlabRun(p, c)[3] <= f[2]
      BY <2>1, RunsApart DEF IndInv
    <3>3. o[2] + o[3] <= n[2] \/ n[2] + n[3] <= o[2]
      BY <2>1, <2>3, <3>1, <3>2, ApartInRuns
    <3>4. o[2] \in Int /\ o[3] \in Int /\ 1 <= o[3] /\ n[2] \in Int /\ n[3] \in Int /\ 1 <= n[3]
      BY <2>1, <2>3 DEF InRun
    <3> HIDE DEF n
    <3> QED
      BY <3>3, <3>4
  <2>4. o[4] \in AllocClasses
    BY <2>1, <2>2, <2>3
  <2>5. PICK x \in slabs : \E k \in HeldSlots(x), am \in PageAligns :
                    /\ o = SlotObject(x[1], x[2], k, am) /\ x[2] = o[4]
                    /\ InRun(o, SlabRun(x[1], x[2]))
    BY <2>4, ObjectCases, SlabFacts
  <2>6. SlabRun(x[1], x[2]) = SlabRun(p, c)
    BY <2>3, <2>5, SlabRunFacts DEF Runs
  <2>7. x = z
    BY <1>3, <2>6, SlabOfRun
  <2>8. PICK k \in HeldSlots(z), am \in PageAligns : o = SlotObject(p, c, k, am)
    BY <1>3, <2>5, <2>7
  <2>9. k \in Slots(c) /\ k # s
    BY <1>3 DEF HeldSlots
  <2>10. o[2] + o[3] <= n[2] \/ n[2] + n[3] <= o[2]
    BY <2>8, <2>9, SlotsApart
  <2>11. o[2] \in Int /\ o[3] \in Int /\ 1 <= o[3] /\ n[2] \in Int /\ n[3] \in Int /\ 1 <= n[3]
    BY <2>1, <2>2 DEF InRun
  <2> HIDE DEF n
  <2> QED
    BY <2>10, <2>11
<1>10. ObjectsPlaced'
  <2>1. ASSUME NEW o \in live'
        PROVE  \/ \E r \in held, am \in PageAligns : o = MediumObject(r, am)
               \/ \E x \in slabs : \E k \in HeldSlots(x)', am \in PageAligns :
                    o = SlotObject(x[1], x[2], k, am)
    <3>1. CASE o = n
      <4>1. s \in HeldSlots(z)'
        BY <1>7
      <4> QED
        BY <1>8, <3>1, <4>1
    <3>2. CASE o \in live
      <4>1. \A x \in slabs : HeldSlots(x) \subseteq HeldSlots(x)'
        BY <1>7
      <4> QED
        BY <3>2, <4>1 DEF SlabInv, ObjectsPlaced
    <3> QED
      BY <3>1, <3>2
  <2>2. ASSUME NEW o \in live', NEW q \in live', o[1] = q[1], o[2] = q[2]
        PROVE  o = q
    <3> HIDE DEF n
    <3> QED
      BY <1>9, <2>2 DEF SlabInv, ObjectsPlaced, n
  <2> QED
    BY <2>1, <2>2 DEF ObjectsPlaced
<1>11. RunsSplit'
  <2>1. SlabRuns' = SlabRuns
    BY DEF SlabRuns
  <2>2. MediumRuns' = MediumRuns
    <3>1. \A r, am : MediumObject(r, am) # n
      BY <1>8, SlabFacts DEF MediumObject, Object
    <3> QED
      BY <3>1 DEF MediumRuns
  <2> QED
    BY <2>1, <2>2 DEF SlabInv, RunsSplit
<1>12. BitsKept'
  <2> SUFFICES ASSUME NEW x \in slabs
               PROVE  /\ allocated'[x[1]] \subseteq Slots(x[2]) \cup SpareBits(x[2])
                      /\ WordsFilled(x[2]) => allocated'[x[1]] \subseteq Slots(x[2])
                      /\ \A k \in HeldSlots(x)' : \E am \in PageAligns :
                            SlotObject(x[1], x[2], k, am) \in live'
                      /\ \A q \in SlabEntries(x[1], x[2]) : idx_in_slab'[q] = q[2] - x[1][2]
    BY DEF BitsKept
  <2>1. /\ allocated[x[1]] \subseteq Slots(x[2]) \cup SpareBits(x[2])
        /\ WordsFilled(x[2]) => allocated[x[1]] \subseteq Slots(x[2])
        /\ \A k \in HeldSlots(x) : \E am \in PageAligns : SlotObject(x[1], x[2], k, am) \in live
        /\ \A q \in SlabEntries(x[1], x[2]) : idx_in_slab[q] = q[2] - x[1][2]
    BY DEF SlabInv, BitsKept
  <2>2. CASE x # z
    BY <1>6, <1>7, <2>1, <2>2
  <2>3. CASE x = z
    <3>1. /\ allocated'[x[1]] \subseteq Slots(x[2]) \cup SpareBits(x[2])
          /\ WordsFilled(x[2]) => allocated'[x[1]] \subseteq Slots(x[2])
      BY <1>3, <1>6, <2>1, <2>3
    <3>2. \A k \in HeldSlots(x)' : \E am \in PageAligns : SlotObject(x[1], x[2], k, am) \in live'
      BY <1>7, <1>8, <2>1, <2>3
    <3> QED
      BY <2>1, <3>1, <3>2
  <2> QED
    BY <2>2, <2>3
<1>13. IsFiniteSet(live)'
  BY <1>1, FS_AddElement
<1> QED
  BY <1>5, <1>10, <1>11, <1>12, <1>13

\* A slot of a slab leads back to it.
LEMMA SlotOwner ==
    ASSUME IndInv, SlabInv, NEW x \in slabs, NEW k \in Slots(x[2]), NEW al
    PROVE  SlabOf(SlotObject(x[1], x[2], k, al)) = x[1] /\ SlotOf(SlotObject(x[1], x[2], k, al)) = k
<1>1. x[1] \in Page /\ x[2] \in AllocClasses /\ x[1][2] + SlabNPages[x[2]] <= DataNPages
  BY SlabRunFacts
<1>2. /\ idx_in_slab \in [Page -> Nat]
      /\ \A q \in SlabEntries(x[1], x[2]) : idx_in_slab[q] = q[2] - x[1][2]
  BY DEF SlabInv, SlabTypes, BitsKept
<1> QED
  BY <1>1, <1>2, SlabOfSlot

\* An object in a slab is given back.
LEMMA ReturnSlot ==
    ASSUME IndInv, SlabInv, NEW o \in live, o[4] # Medium,
           allocated' = [allocated EXCEPT ![SlabOf(o)] = BitsWithout(o)],
           live' = live \ {o},
           UNCHANGED <<held, slabs, idx_in_slab>>
    PROVE  /\ ObjectsPlaced' /\ RunsSplit' /\ BitsKept'
           /\ allocated' \in [Page -> SUBSET Nat] /\ IsFiniteSet(live)'
<1> DEFINE p == SlabOf(o)
           c == o[4]
           s == SlotOf(o)
<1>1. /\ allocated \in [Page -> SUBSET Nat] /\ IsFiniteSet(live)
      /\ slabs \subseteq Page \X AllocClasses
  BY DEF SlabInv, SlabTypes
<1>2. /\ c \in AllocClasses /\ <<p, c>> \in slabs /\ s \in Slots(c) /\ s \in allocated[p]
      /\ \E al \in PageAligns : o = SlotObject(p, c, s, al)
  BY SmallObject
<1> HIDE DEF p, c, s
<1>3. PICK z \in slabs : z = <<p, c>>
  BY <1>2
<1>4. p \in Page /\ z[1] = p /\ z[2] = c /\ \A x \in slabs : x[1] = p => x = z
  <2>1. z[1] = p /\ z[2] = c
    BY <1>3
  <2>2. p \in Page
    BY <1>1, <1>3
  <2> QED
    BY <2>1, <2>2 DEF SlabInv, RunsSplit
<1>5. /\ \A x \in slabs : x # z => allocated'[x[1]] = allocated[x[1]]
      /\ allocated'[p] = allocated[p] \ {s}
  <2>1. BitsWithout(o) = allocated[p] \ {s}
    BY <1>2 DEF BitsWithout, Flip, p, s
  <2> QED
    BY <1>1, <1>4, <2>1 DEF p
<1>6. allocated' \in [Page -> SUBSET Nat]
  <2>1. BitsWithout(o) = allocated[p] \ {s}
    BY <1>2 DEF BitsWithout, Flip, p, s
  <2> QED
    BY <1>1, <1>4, <2>1
<1>7. /\ \A x \in slabs : x # z => HeldSlots(x)' = HeldSlots(x)
      /\ HeldSlots(z)' = HeldSlots(z) \ {s}
  BY <1>4, <1>5 DEF HeldSlots
<1>8. ASSUME NEW x \in slabs, NEW k \in Slots(x[2]), NEW am, SlotObject(x[1], x[2], k, am) = o
      PROVE  x = z /\ k = s
  <2>1. x[1] = p /\ k = s
    BY <1>8, SlotOwner DEF p, s
  <2> QED
    BY <2>1, <1>4
<1>9. ObjectsPlaced'
  <2>1. ASSUME NEW q \in live'
        PROVE  \/ \E r \in held, am \in PageAligns : q = MediumObject(r, am)
               \/ \E x \in slabs : \E k \in HeldSlots(x)', am \in PageAligns :
                    q = SlotObject(x[1], x[2], k, am)
    <3>1. CASE \E r \in held, am \in PageAligns : q = MediumObject(r, am)
      BY <3>1
    <3>2. CASE \E x \in slabs : \E k \in HeldSlots(x), am \in PageAligns :
                  q = SlotObject(x[1], x[2], k, am)
      <4>1. PICK x \in slabs : \E k \in HeldSlots(x), am \in PageAligns :
                  q = SlotObject(x[1], x[2], k, am)
        BY <3>2
      <4>2. PICK k \in HeldSlots(x), am \in PageAligns : q = SlotObject(x[1], x[2], k, am)
        BY <4>1
      <4>3. CASE x = z /\ k = s
        <5>1. q[1] = o[1] /\ q[2] = o[2]
          BY <1>2, <1>4, <4>2, <4>3 DEF SlotObject, Object
        <5>2. q = o
          BY <5>1 DEF SlabInv, ObjectsPlaced
        <5> QED
          BY <5>2
      <4>4. CASE ~(x = z /\ k = s)
        <5>1. k \in HeldSlots(x)'
          BY <1>7, <4>4
        <5> QED
          BY <4>2, <5>1
      <4> QED
        BY <4>3, <4>4
    <3> QED
      BY <3>1, <3>2 DEF SlabInv, ObjectsPlaced
  <2>2. \A q, t \in live' : q[1] = t[1] /\ q[2] = t[2] => q = t
    BY DEF SlabInv, ObjectsPlaced
  <2> QED
    BY <2>1, <2>2 DEF ObjectsPlaced
<1>10. RunsSplit'
  <2>1. SlabRuns' = SlabRuns
    BY DEF SlabRuns
  <2>2. MediumRuns' = MediumRuns
    <3>1. \A r, am : MediumObject(r, am) # o
      BY DEF MediumObject, Object
    <3> QED
      BY <3>1 DEF MediumRuns
  <2> QED
    BY <2>1, <2>2 DEF SlabInv, RunsSplit
<1>11. BitsKept'
  <2> SUFFICES ASSUME NEW x \in slabs
               PROVE  /\ allocated'[x[1]] \subseteq Slots(x[2]) \cup SpareBits(x[2])
                      /\ WordsFilled(x[2]) => allocated'[x[1]] \subseteq Slots(x[2])
                      /\ \A k \in HeldSlots(x)' : \E am \in PageAligns :
                            SlotObject(x[1], x[2], k, am) \in live'
                      /\ \A q \in SlabEntries(x[1], x[2]) : idx_in_slab'[q] = q[2] - x[1][2]
    BY DEF BitsKept
  <2>1. /\ allocated[x[1]] \subseteq Slots(x[2]) \cup SpareBits(x[2])
        /\ WordsFilled(x[2]) => allocated[x[1]] \subseteq Slots(x[2])
        /\ \A k \in HeldSlots(x) : \E am \in PageAligns : SlotObject(x[1], x[2], k, am) \in live
        /\ \A q \in SlabEntries(x[1], x[2]) : idx_in_slab[q] = q[2] - x[1][2]
    BY DEF SlabInv, BitsKept
  <2>2. allocated'[x[1]] \subseteq allocated[x[1]]
    BY <1>4, <1>5
  <2>3. ASSUME NEW k \in HeldSlots(x)'
        PROVE  \E am \in PageAligns : SlotObject(x[1], x[2], k, am) \in live'
    <3>1. k \in HeldSlots(x) /\ k \in Slots(x[2]) /\ ~(x = z /\ k = s)
      BY <1>7, <2>3 DEF HeldSlots
    <3>2. PICK am \in PageAligns : SlotObject(x[1], x[2], k, am) \in live
      BY <2>1, <3>1
    <3>3. SlotObject(x[1], x[2], k, am) # o
      BY <1>8, <3>1
    <3> QED
      BY <3>2, <3>3
  <2> QED
    BY <2>1, <2>2, <2>3
<1>12. IsFiniteSet(live)'
  BY <1>1, FS_RemoveElement
<1> QED
  BY <1>6, <1>9, <1>10, <1>11, <1>12

\* The pages of slab z are given back with its last objects L.
LEMMA ReturnSlab ==
    ASSUME IndInv, SlabInv, NEW z \in slabs, NEW L \in SUBSET live,
           \A o \in L : o[4] # Medium /\ SlabOf(o) = z[1],
           \A o \in live \ L : o[4] # Medium => SlabOf(o) # z[1],
           live' = live \ L, slabs' = slabs \ {z}, held' = held \ {SlabRun(z[1], z[2])},
           \A x \in slabs \ {z} :
              /\ allocated'[x[1]] = allocated[x[1]]
              /\ \A q \in SlabEntries(x[1], x[2]) : idx_in_slab'[q] = idx_in_slab[q]
    PROVE  ObjectsPlaced' /\ RunsSplit' /\ BitsKept' /\ IsFiniteSet(live)' /\ IsFiniteSet(slabs)'
<1>1. IsFiniteSet(live)' /\ IsFiniteSet(slabs)'
  <2>1. IsFiniteSet(live) /\ IsFiniteSet(slabs)
    BY DEF SlabInv, SlabTypes
  <2> QED
    BY <2>1, FS_Subset
<1>2. \A x \in slabs \ {z} : x[1] # z[1] /\ HeldSlots(x)' = HeldSlots(x)
  BY DEF SlabInv, RunsSplit, HeldSlots
<1>3. SlabRuns' = SlabRuns \ {SlabRun(z[1], z[2])}
  <2>1. \A x \in slabs \ {z} : SlabRun(x[1], x[2]) # SlabRun(z[1], z[2])
    BY SlabOfRun
  <2> QED
    BY <2>1 DEF SlabRuns
<1>4. MediumRuns' = MediumRuns
  <2>1. SlabRun(z[1], z[2]) \notin MediumRuns
    BY SlabRunFacts DEF SlabInv, RunsSplit
  <2>2. \A r, am : MediumObject(r, am) \notin L
    BY DEF MediumObject, Object
  <2> QED
    BY <2>1, <2>2 DEF MediumRuns
<1>5. RunsSplit'
  BY <1>3, <1>4 DEF SlabInv, RunsSplit
<1>6. ObjectsPlaced'
  <2>1. ASSUME NEW o \in live'
        PROVE  \/ \E r \in held', am \in PageAligns : o = MediumObject(r, am)
               \/ \E x \in slabs' : \E k \in HeldSlots(x)', am \in PageAligns :
                    o = SlotObject(x[1], x[2], k, am)
    <3>1. CASE \E r \in held, am \in PageAligns : o = MediumObject(r, am)
      <4>1. PICK r \in held, am \in PageAligns : o = MediumObject(r, am)
        BY <3>1
      <4>2. r \in MediumRuns
        BY <4>1 DEF MediumRuns
      <4>3. r \in held'
        BY <4>2, <1>4 DEF MediumRuns
      <4> QED
        BY <4>1, <4>3
    <3>2. CASE \E x \in slabs : \E k \in HeldSlots(x), am \in PageAligns :
                  o = SlotObject(x[1], x[2], k, am)
      <4>1. PICK x \in slabs : \E k \in HeldSlots(x), am \in PageAligns :
                  o = SlotObject(x[1], x[2], k, am)
        BY <3>2
      <4>2. PICK k \in HeldSlots(x), am \in PageAligns : o = SlotObject(x[1], x[2], k, am)
        BY <4>1
      <4>3. o[4] # Medium
        BY <4>2, SlabRunFacts, SlabFacts DEF SlotObject, Object
      <4>4. SlabOf(o) = x[1]
        BY <4>2, SlotOwner DEF HeldSlots
      <4>5. x # z
        BY <4>3, <4>4
      <4> QED
        BY <1>2, <4>2, <4>5
    <3> QED
      BY <3>1, <3>2 DEF SlabInv, ObjectsPlaced
  <2>2. \A q, t \in live' : q[1] = t[1] /\ q[2] = t[2] => q = t
    BY DEF SlabInv, ObjectsPlaced
  <2> QED
    BY <2>1, <2>2 DEF ObjectsPlaced
<1>7. BitsKept'
  <2> SUFFICES ASSUME NEW x \in slabs \ {z}
               PROVE  /\ allocated'[x[1]] \subseteq Slots(x[2]) \cup SpareBits(x[2])
                      /\ WordsFilled(x[2]) => allocated'[x[1]] \subseteq Slots(x[2])
                      /\ \A k \in HeldSlots(x)' : \E am \in PageAligns :
                            SlotObject(x[1], x[2], k, am) \in live'
                      /\ \A q \in SlabEntries(x[1], x[2]) : idx_in_slab'[q] = q[2] - x[1][2]
    BY DEF BitsKept
  <2>1. /\ allocated[x[1]] \subseteq Slots(x[2]) \cup SpareBits(x[2])
        /\ WordsFilled(x[2]) => allocated[x[1]] \subseteq Slots(x[2])
        /\ \A k \in HeldSlots(x) : \E am \in PageAligns : SlotObject(x[1], x[2], k, am) \in live
        /\ \A q \in SlabEntries(x[1], x[2]) : idx_in_slab[q] = q[2] - x[1][2]
    BY DEF SlabInv, BitsKept
  <2>2. ASSUME NEW k \in HeldSlots(x)'
        PROVE  \E am \in PageAligns : SlotObject(x[1], x[2], k, am) \in live'
    <3>1. k \in HeldSlots(x) /\ k \in Slots(x[2])
      BY <1>2, <2>2 DEF HeldSlots
    <3>2. PICK am \in PageAligns : SlotObject(x[1], x[2], k, am) \in live
      BY <2>1, <3>1
    <3>3. SlabOf(SlotObject(x[1], x[2], k, am)) = x[1]
      BY <3>1, SlotOwner
    <3>4. SlotObject(x[1], x[2], k, am) \notin L
      BY <1>2, <3>3
    <3> QED
      BY <3>2, <3>4
  <2> QED
    BY <2>1, <2>2
<1> QED
  BY <1>1, <1>5, <1>6, <1>7

\* A run that lies apart from those held: what allocate_page hands out.
NewRunOf(e) ==
    /\ e \in Run /\ e \notin held /\ held' = held \cup {e} /\ e[2] + e[3] <= DataNPages
    /\ \A f \in held : e[1] # f[1] \/ e[2] + e[3] <= f[2] \/ f[2] + f[3] <= e[2]

LEMMA PagesTaken ==
    ASSUME IndInv, IndInv', allocate_page \/ allocate_page_fresh
    PROVE  /\ request # NoRequest /\ request' = NoRequest /\ arenas' = arenas
           /\ Accounted => capacity' = capacity - request.n
           /\ \E e \in held' : NewRunOf(e) /\ e[3] = request.n
<1>1. \E c \in Class : /\ request # NoRequest /\ Chosen(c)
                       /\ take_pages(c, request.n, request.align)
                       /\ arenas' = arenas /\ request' = NoRequest
  <2>1. CASE allocate_page
    BY <2>1 DEF allocate_page, Chosen
  <2>2. CASE allocate_page_fresh
    BY <2>2, ClassFacts DEF allocate_page_fresh, Chosen, NoRequest
  <2> QED
    BY <2>1, <2>2
<1>2. PICK c \in Class : /\ request # NoRequest /\ Chosen(c)
                         /\ take_pages(c, request.n, request.align)
                         /\ arenas' = arenas /\ request' = NoRequest
  BY <1>1
<1>3. Accounted => capacity' = capacity - request.n
  BY <1>2 DEF take_pages
<1>4. Heap!Alloc
  BY <1>2, TakeIsAlloc
<1>5. PICK e \in Heap!Extent : /\ \A f \in held : ~Heap!Overlap(e, f)
                               /\ held' = held \cup {e}
  BY <1>4 DEF Heap!Alloc
<1>6. e \in held' /\ e \in Runs'
  BY <1>5 DEF Runs
<1>7. e \in Run /\ e[2] + e[3] <= DataNPages /\ e[2] \in Int /\ e[3] \in Int /\ 1 <= e[3]
  <2>1. e \in Run
    BY <1>6 DEF IndInv, TypeOK
  <2>2. e[2] + e[3] <= DataNPages
    BY <1>6 DEF IndInv, Tiled, IsTiling
  <2> QED
    BY <2>1, <2>2, ClassFacts DEF Run, Data
<1>8. e \notin held
  <2>1. e[2] \in Heap!Units(e)
    BY <1>7 DEF Heap!Units
  <2>2. Heap!Overlap(e, e)
    BY <2>1 DEF Heap!Overlap
  <2> QED
    BY <1>5, <2>2
<1>9. ASSUME NEW f \in held
      PROVE  e[1] # f[1] \/ e[2] + e[3] <= f[2] \/ f[2] + f[3] <= e[2]
  <2>1. f[2] \in Int /\ f[3] \in Int /\ 1 <= f[3]
    BY RunFacts DEF IndInv, Runs
  <2> SUFFICES ASSUME e[1] = f[1], ~(e[2] + e[3] <= f[2]), ~(f[2] + f[3] <= e[2])
               PROVE  FALSE
    OBVIOUS
  <2>2. CASE e[2] <= f[2]
    <3>1. f[2] \in Heap!Units(e) /\ f[2] \in Heap!Units(f)
      BY <1>7, <2>1, <2>2 DEF Heap!Units
    <3> QED
      BY <1>5, <3>1 DEF Heap!Overlap
  <2>3. CASE f[2] <= e[2]
    <3>1. e[2] \in Heap!Units(e) /\ e[2] \in Heap!Units(f)
      BY <1>7, <2>1, <2>3 DEF Heap!Units
    <3> QED
      BY <1>5, <3>1 DEF Heap!Overlap
  <2> QED
    BY <1>7, <2>1, <2>2, <2>3
<1>10. e[3] = request.n
  BY <1>2, <1>6, <1>8, TakeHandsOut
<1>11. NewRunOf(e)
  BY <1>5, <1>7, <1>8, <1>9 DEF NewRunOf
<1> QED
  BY <1>2, <1>3, <1>6, <1>10, <1>11

\* An object of a new run shares its address with no other.
LEMMA NewAddress ==
    ASSUME IndInv, SlabInv, NEW e, NewRunOf(e), NEW n, InRun(n, e), NEW o \in live
    PROVE  ~(o[1] = n[1] /\ o[2] = n[2])
<1>1. PICK r \in held : InRun(o, r) /\ r \in Run
  BY ObjectRun
<1>2. e \in Run /\ (e[1] # r[1] \/ e[2] + e[3] <= r[2] \/ r[2] + r[3] <= e[2])
  BY DEF NewRunOf
<1>3. n[1] # o[1] \/ n[2] + n[3] <= o[2] \/ o[2] + o[3] <= n[2]
  BY <1>1, <1>2, ApartInRuns
<1> QED
  BY <1>1, <1>3 DEF InRun

\* A new run becomes a medium object.
LEMMA NewMedium ==
    ASSUME IndInv, SlabInv, NEW e, NewRunOf(e), NEW al \in PageAligns,
           live' = live \cup {MediumObject(e, al)},
           UNCHANGED <<allocated, slabs, idx_in_slab>>
    PROVE  ObjectsPlaced' /\ RunsSplit' /\ BitsKept' /\ IsFiniteSet(live)'
<1> DEFINE n == MediumObject(e, al)
<1>1. e \in Run /\ e \notin held /\ held' = held \cup {e}
  BY DEF NewRunOf
<1>2. \A x \in slabs : HeldSlots(x)' = HeldSlots(x)
  BY DEF HeldSlots
<1>3. InRun(n, e)
  BY <1>1, MediumInRun
<1>4. ObjectsPlaced'
  <2>1. ASSUME NEW o \in live'
        PROVE  \/ \E r \in held', am \in PageAligns : o = MediumObject(r, am)
               \/ \E x \in slabs : \E k \in HeldSlots(x)', am \in PageAligns :
                    o = SlotObject(x[1], x[2], k, am)
    <3>1. CASE o = n
      BY <1>1, <3>1
    <3>2. CASE o \in live
      BY <1>1, <1>2, <3>2 DEF SlabInv, ObjectsPlaced
    <3> QED
      BY <3>1, <3>2
  <2>2. ASSUME NEW o \in live', NEW q \in live', o[1] = q[1], o[2] = q[2]
        PROVE  o = q
    <3>1. \A t \in live : ~(t[1] = n[1] /\ t[2] = n[2])
      BY <1>3, NewAddress
    <3> HIDE DEF n
    <3> QED
      BY <2>2, <3>1 DEF SlabInv, ObjectsPlaced, n
  <2> QED
    BY <2>1, <2>2 DEF ObjectsPlaced
<1>5. RunsSplit'
  <2>1. SlabRuns' = SlabRuns
    BY DEF SlabRuns
  <2>2. \A r \in held : \A am : MediumObject(r, am) # n
    <3> SUFFICES ASSUME NEW r \in held, NEW am, MediumObject(r, am) = n
                 PROVE  FALSE
      OBVIOUS
    <3>1. r \in Run
      BY DEF IndInv, TypeOK
    <3>2. r = e
      BY <1>1, <3>1, MediumInRun
    <3> QED
      BY <1>1, <3>2
  <2>3. MediumRuns' = MediumRuns \cup {e}
    BY <1>1, <2>2 DEF MediumRuns
  <2> QED
    BY <1>1, <2>1, <2>3 DEF SlabInv, RunsSplit
<1>6. BitsKept'
  BY <1>2 DEF SlabInv, BitsKept
<1>7. IsFiniteSet(live)'
  BY FS_AddElement DEF SlabInv, SlabTypes
<1> QED
  BY <1>4, <1>5, <1>6, <1>7

\* A medium object gives its run back.
LEMMA ReturnMedium ==
    ASSUME IndInv, SlabInv, NEW o \in live, o[4] = Medium,
           held' = held \ {MediumRun(o)}, live' = live \ {o},
           UNCHANGED <<allocated, slabs, idx_in_slab>>
    PROVE  ObjectsPlaced' /\ RunsSplit' /\ BitsKept' /\ IsFiniteSet(live)'
<1> DEFINE e == MediumRun(o)
<1>1. /\ e \in held /\ e \in Run /\ e \in MediumRuns /\ e \notin SlabRuns
      /\ \E al \in PageAligns : o = MediumObject(e, al)
  BY MediumOf
<1> HIDE DEF e
<1>2. \A x \in slabs : HeldSlots(x)' = HeldSlots(x)
  BY DEF HeldSlots
<1>3. ASSUME NEW r \in held, NEW am, MediumObject(r, am) = o
      PROVE  r = e
  <2>1. r \in Run
    BY DEF IndInv, TypeOK
  <2> QED
    BY <1>3, <2>1, MediumInRun DEF e
<1>4. ASSUME NEW am, NEW q \in live, q = MediumObject(e, am)
      PROVE  q = o
  <2>1. q[1] = o[1] /\ q[2] = o[2]
    BY <1>1, <1>4 DEF MediumObject, Object
  <2> QED
    BY <2>1 DEF SlabInv, ObjectsPlaced
<1>5. ObjectsPlaced'
  <2>1. ASSUME NEW q \in live'
        PROVE  \/ \E r \in held', am \in PageAligns : q = MediumObject(r, am)
               \/ \E x \in slabs : \E k \in HeldSlots(x)', am \in PageAligns :
                    q = SlotObject(x[1], x[2], k, am)
    <3>1. CASE \E r \in held, am \in PageAligns : q = MediumObject(r, am)
      <4>1. PICK r \in held, am \in PageAligns : q = MediumObject(r, am)
        BY <3>1
      <4>2. r # e
        BY <1>4, <4>1
      <4> QED
        BY <4>1, <4>2 DEF e
    <3>2. CASE \E x \in slabs : \E k \in HeldSlots(x), am \in PageAligns :
                  q = SlotObject(x[1], x[2], k, am)
      BY <1>2, <3>2
    <3> QED
      BY <3>1, <3>2 DEF SlabInv, ObjectsPlaced
  <2>2. \A q, t \in live' : q[1] = t[1] /\ q[2] = t[2] => q = t
    BY DEF SlabInv, ObjectsPlaced
  <2> QED
    BY <2>1, <2>2 DEF ObjectsPlaced
<1>6. RunsSplit'
  <2>1. SlabRuns' = SlabRuns
    BY DEF SlabRuns
  <2>2. MediumRuns' = MediumRuns \ {e}
    BY <1>3 DEF MediumRuns, e
  <2> QED
    BY <1>1, <2>1, <2>2 DEF SlabInv, RunsSplit, e
<1>7. BitsKept'
  <2> SUFFICES ASSUME NEW x \in slabs, NEW k \in HeldSlots(x)
               PROVE  \E am \in PageAligns : SlotObject(x[1], x[2], k, am) \in live'
    BY <1>2 DEF SlabInv, BitsKept
  <2>1. PICK am \in PageAligns : SlotObject(x[1], x[2], k, am) \in live
    BY DEF SlabInv, BitsKept
  <2>2. SlotObject(x[1], x[2], k, am) # o
    BY SlabRunFacts, SlabFacts DEF SlotObject, Object
  <2> QED
    BY <2>1, <2>2
<1>8. IsFiniteSet(live)'
  BY FS_RemoveElement DEF SlabInv, SlabTypes
<1> QED
  BY <1>5, <1>6, <1>7, <1>8

\* A new run becomes a slab with one object.
MakesSlab(p, c, al) ==
    /\ allocated' = [allocated EXCEPT ![p] = {0}]
    /\ idx_in_slab' = [q \in Page |-> IF q \in SlabEntries(p, c)
                                      THEN q[2] - p[2] ELSE idx_in_slab[q]]
    /\ slabs' = slabs \cup {<<p, c>>}
    /\ live' = live \cup {SlotObject(p, c, 0, al)}

LEMMA NewSlab ==
    ASSUME IndInv, SlabInv, NEW e, NewRunOf(e), NEW p, p = <<e[1], e[2]>>,
           NEW c \in AllocClasses, e[3] = SlabNPages[c], NEW al \in PageAligns,
           MakesSlab(p, c, al)
    PROVE  /\ ObjectsPlaced' /\ RunsSplit' /\ BitsKept'
           /\ p \in Page /\ \A x \in slabs : x[1] # p
           /\ allocated' \in [Page -> SUBSET Nat] /\ idx_in_slab' \in [Page -> Nat]
           /\ IsFiniteSet(live)' /\ IsFiniteSet(slabs)'
<1> USE DEF MakesSlab
<1> DEFINE z == <<p, c>>
           n == SlotObject(p, c, 0, al)
<1>1. /\ e \in Run /\ e \notin held /\ held' = held \cup {e} /\ e[2] + e[3] <= DataNPages
      /\ \A f \in held : e[1] # f[1] \/ e[2] + e[3] <= f[2] \/ f[2] + f[3] <= e[2]
  BY DEF NewRunOf
<1>2. /\ allocated \in [Page -> SUBSET Nat] /\ idx_in_slab \in [Page -> Nat]
      /\ IsFiniteSet(live) /\ IsFiniteSet(slabs)
  BY DEF SlabInv, SlabTypes
<1>3. /\ p \in Page /\ e[2] \in Int /\ e[3] \in Int /\ 0 <= e[2] /\ 1 <= e[3]
      /\ p[1] = e[1] /\ p[2] = e[2] /\ e = <<e[1], e[2], e[3]>>
  BY <1>1, ClassFacts DEF Run, Page, Data
<1>4. SlabRun(p, c) = e
  BY <1>3 DEF SlabRun
<1>5. ASSUME NEW x \in slabs
      PROVE  x[1] # p /\ SlabEntries(x[1], x[2]) \cap SlabEntries(p, c) = {}
  <2> DEFINE f == SlabRun(x[1], x[2])
  <2>1. f \in held /\ f \in Runs /\ x[1] \in Page
    BY SlabRunFacts DEF Runs
  <2>2. e[1] # f[1] \/ e[2] + e[3] <= f[2] \/ f[2] + f[3] <= e[2]
    BY <1>1, <2>1
  <2>3. f[2] \in Int /\ f[3] \in Int /\ 1 <= f[3]
    BY <2>1, RunFacts DEF IndInv
  <2>4. /\ SlabEntries(x[1], x[2]) = {<<f[1], i>> : i \in f[2] .. (f[2] + f[3] - 1)}
        /\ SlabEntries(p, c) = {<<e[1], i>> : i \in e[2] .. (e[2] + e[3] - 1)}
    BY <1>3 DEF SlabEntries, Entries, SlabRun
  <2>5. x[1][1] = f[1] /\ x[1][2] = f[2]
    BY DEF SlabRun
  <2> HIDE DEF f
  <2> QED
    BY <1>3, <2>2, <2>3, <2>4, <2>5
<1>6. 0 \in Slots(c)
  BY SlabFacts DEF Slots
<1>7. z[1] = p /\ z[2] = c
  OBVIOUS
<1>8. allocated' \in [Page -> SUBSET Nat] /\ allocated'[p] = {0}
  BY <1>2, <1>3
<1>9. idx_in_slab' \in [Page -> Nat]
  <2>1. \A q \in SlabEntries(p, c) : q[2] - p[2] \in Nat
    BY <1>3, SlabFacts DEF SlabEntries, Entries
  <2> QED
    BY <1>2, <2>1
<1>10. \A x \in slabs : allocated'[x[1]] = allocated[x[1]] /\ HeldSlots(x)' = HeldSlots(x)
  <2>1. \A x \in slabs : x[1] \in Page
    BY SlabRunFacts
  <2> QED
    BY <1>2, <1>5, <2>1 DEF HeldSlots
<1>11. HeldSlots(z)' = {0}
  BY <1>6, <1>7, <1>8 DEF HeldSlots
<1> HIDE DEF z
<1>12. n[4] = c /\ n = SlotObject(z[1], z[2], 0, al) /\ InRun(n, e)
  <2>1. InRun(n, e)
    BY <1>3, <1>4, <1>6, SlotInRun
  <2> QED
    BY <1>7, <2>1 DEF SlotObject, Object
<1>13. ObjectsPlaced'
  <2>1. ASSUME NEW o \in live'
        PROVE  \/ \E r \in held', am \in PageAligns : o = MediumObject(r, am)
               \/ \E x \in slabs' : \E k \in HeldSlots(x)', am \in PageAligns :
                    o = SlotObject(x[1], x[2], k, am)
    <3>1. CASE o = n
      <4>1. z \in slabs' /\ 0 \in HeldSlots(z)'
        BY <1>11 DEF z
      <4> QED
        BY <1>12, <3>1, <4>1
    <3>2. CASE o \in live
      <4>1. slabs \subseteq slabs' /\ \A x \in slabs : HeldSlots(x)' = HeldSlots(x)
        BY <1>10
      <4> QED
        BY <1>1, <3>2, <4>1 DEF SlabInv, ObjectsPlaced
    <3> QED
      BY <3>1, <3>2
  <2>2. ASSUME NEW o \in live', NEW q \in live', o[1] = q[1], o[2] = q[2]
        PROVE  o = q
    <3>1. \A t \in live : ~(t[1] = n[1] /\ t[2] = n[2])
      BY <1>12, NewAddress
    <3> HIDE DEF n
    <3> QED
      BY <2>2, <3>1 DEF SlabInv, ObjectsPlaced, n
  <2> QED
    BY <2>1, <2>2 DEF ObjectsPlaced
<1>14. RunsSplit'
  <2>1. SlabRuns' = SlabRuns \cup {e}
    <3>1. slabs' = slabs \cup {z} /\ SlabRun(z[1], z[2]) = e
      BY <1>4, <1>7 DEF z
    <3> QED
      BY <3>1 DEF SlabRuns
  <2>2. e \notin MediumRuns'
    <3> SUFFICES ASSUME NEW am, MediumObject(e, am) \in live'
                 PROVE  FALSE
      BY DEF MediumRuns
    <3>1. MediumObject(e, am)[4] = Medium
      BY DEF MediumObject, Object
    <3>2. MediumObject(e, am) # n
      BY <1>12, <3>1, SlabFacts
    <3>3. MediumObject(e, am) \in live
      BY <3>2
    <3>4. MediumRun(MediumObject(e, am)) = e
      BY <1>1, MediumInRun
    <3>5. e \in held
      BY <3>1, <3>3, <3>4, MediumOf
    <3> QED
      BY <1>1, <3>5
  <2>3. MediumRuns' = MediumRuns
    <3>1. \A r, am : MediumObject(r, am) # n
      BY <1>12, SlabFacts DEF MediumObject, Object
    <3> QED
      BY <1>1, <2>2, <3>1 DEF MediumRuns
  <2>4. \A x, y \in slabs' : x[1] = y[1] => x = y
    <3>1. slabs' = slabs \cup {z}
      BY DEF z
    <3> QED
      BY <1>5, <1>7, <3>1 DEF SlabInv, RunsSplit
  <2> QED
    BY <1>1, <2>1, <2>2, <2>3, <2>4 DEF SlabInv, RunsSplit
<1>15. BitsKept'
  <2> SUFFICES ASSUME NEW x \in slabs'
               PROVE  /\ allocated'[x[1]] \subseteq Slots(x[2]) \cup SpareBits(x[2])
                      /\ WordsFilled(x[2]) => allocated'[x[1]] \subseteq Slots(x[2])
                      /\ \A k \in HeldSlots(x)' : \E am \in PageAligns :
                            SlotObject(x[1], x[2], k, am) \in live'
                      /\ \A q \in SlabEntries(x[1], x[2]) : idx_in_slab'[q] = q[2] - x[1][2]
    BY DEF BitsKept
  <2>1. CASE x = z
    <3>1. SlabEntries(p, c) \subseteq Page
      BY <1>1, <1>3, ClassFacts, SlabFacts DEF SlabEntries, Entries, Page, Data
    <3>2. \A q \in SlabEntries(p, c) : idx_in_slab'[q] = q[2] - p[2]
      BY <3>1
    <3> QED
      BY <1>6, <1>7, <1>8, <1>11, <1>12, <2>1, <3>2
  <2>2. CASE x \in slabs
    <3>1. /\ allocated[x[1]] \subseteq Slots(x[2]) \cup SpareBits(x[2])
          /\ WordsFilled(x[2]) => allocated[x[1]] \subseteq Slots(x[2])
          /\ \A k \in HeldSlots(x) : \E am \in PageAligns : SlotObject(x[1], x[2], k, am) \in live
          /\ \A q \in SlabEntries(x[1], x[2]) : idx_in_slab[q] = q[2] - x[1][2]
      BY <2>2 DEF SlabInv, BitsKept
    <3>2. SlabEntries(x[1], x[2]) \subseteq Page
      <4>1. x[1] \in Page /\ x[2] \in AllocClasses /\ x[1][2] + SlabNPages[x[2]] <= DataNPages
        BY <2>2, SlabRunFacts
      <4> QED
        BY <4>1, ClassFacts, SlabFacts DEF SlabEntries, Entries, Page, Data
    <3>3. \A q \in SlabEntries(x[1], x[2]) : idx_in_slab'[q] = idx_in_slab[q]
      BY <1>5, <2>2, <3>2
    <3> QED
      BY <1>10, <2>2, <3>1, <3>3
  <2> QED
    BY <2>1, <2>2 DEF z
<1>16. IsFiniteSet(live)' /\ IsFiniteSet(slabs)'
  BY <1>2, FS_AddElement
<1> QED
  BY <1>3, <1>5, <1>8, <1>9, <1>13, <1>14, <1>15, <1>16

LEMMA DivNoRest ==
    ASSUME NEW x \in Int, NEW k \in Nat \ {0}, x % k = 0
    PROVE  (x \div k) * k = x
  BY Z3
-----------------------------------------------------------------------------
(* The list of slabs with free slots, and the helpers of the steps.        *)

\* The nodes of the lists, and the class of a slab.
LEMMA SlabNodes ==
    /\ SlabList \subseteq SlabNode /\ Page \subseteq SlabNode /\ SlabNode \subseteq SlabTarget
    /\ SlabList \cap Page = {}
    /\ NullSlab \notin SlabNode /\ Garbage # NullSlab /\ NullSlab \notin Page
    /\ \A c \in AllocClasses : non_full_slabs(c) \in SlabList /\ non_full_slabs(c)[2] = c
<1>1. SlabList \cap Page = {}
  BY SlabAssumption DEF SlabList, Page
<1>2. NullLink \notin SlabNode /\ Garbage # NullLink
  BY SlabAssumption
<1> QED
  BY <1>1, <1>2 DEF SlabNode, SlabTarget, NullSlab, SlabList, non_full_slabs

LEMMA ClassOfSlab ==
    SlabTypes /\ RunsSplit => /\ \A x \in slabs : SlabClass[x[1]] = x[2]
                              /\ \A n \in SlabList : SlabClass[n] = n[2]
<1> SUFFICES ASSUME SlabTypes, RunsSplit
             PROVE  /\ \A x \in slabs : SlabClass[x[1]] = x[2]
                    /\ \A n \in SlabList : SlabClass[n] = n[2]
  OBVIOUS
<1>1. \A x \in slabs : x[1] \in Page
  BY DEF SlabTypes
<1>2. ASSUME NEW x \in slabs
      PROVE  SlabOfPage(x[1]) = x
  <2>1. \A y \in slabs : y[1] = x[1] => y = x
    BY DEF RunsSplit
  <2> QED
    BY <2>1 DEF SlabOfPage
<1> QED
  BY <1>1, <1>2, SlabNodes DEF SlabClass

\* The lists after a step, from what they are filed by before it.
LEMMA Refiled ==
    ASSUME SlabTypes', RunsSplit', NEW X, X = NonFull', NEW C,
           Filed(slab_link', SlabNode, SlabTarget, SlabList, SlabList \cup FirstEntries(X), C),
           \A x \in X : C[x[1]] = x[2], \A n \in SlabList : C[n] = n[2],
           \A x \in slabs' : x[1] # Current(x[2])' /\ FreeSlots(x[1], x[2])' = {} =>
              slab_link'.next[x[1]] = NullSlab
    PROVE  SlabsFiled'
<1>1. PICK D : D = SlabClass'
  OBVIOUS
<1>2. (SlabTypes /\ RunsSplit => /\ \A x \in slabs : SlabClass[x[1]] = x[2]
                                 /\ \A n \in SlabList : SlabClass[n] = n[2])'
  BY ClassOfSlab, PTL
<1>3. X \subseteq slabs'
  BY DEF NonFull
<1>4. \A y \in SlabList \cup FirstEntries(X) : D[y] = C[y]
  BY <1>1, <1>2, <1>3 DEF FirstEntries
<1>5. Filed(slab_link', SlabNode, SlabTarget, SlabList, SlabList \cup FirstEntries(X), D)
  BY <1>4, RelabelFiled
<1>6. (SlabList \cup FirstEntries(NonFull))' = SlabList \cup FirstEntries(X)
  BY DEF FirstEntries
<1> QED
  BY <1>1, <1>5, <1>6 DEF SlabsFiled, IsFull

\* The lists as the invariant has them.
LEMMA FiledFacts ==
    ASSUME IndInv, SlabInv
    PROVE  /\ Filed(slab_link, SlabNode, SlabTarget, SlabList,
                    SlabList \cup FirstEntries(NonFull), SlabClass)
           /\ SlabList \cup FirstEntries(NonFull) \in SUBSET SlabNode
           /\ SlabList \in SUBSET (SlabList \cup FirstEntries(NonFull))
           /\ NonFull \subseteq slabs
           /\ \A x \in slabs : SlabClass[x[1]] = x[2]
           /\ \A n \in SlabList : SlabClass[n] = n[2]
           /\ \A x \in slabs : x[1] \in Page /\ x[1] \in SlabNode /\ x[1] \notin SlabList
           /\ \A x \in slabs : x[1] \in FirstEntries(NonFull) <=> x \in NonFull
           /\ \A x \in NonFull : slab_link.next[x[1]] # NullSlab
           /\ \A x \in slabs : x[1] # Current(x[2]) =>
                 (IsFull(x) <=> slab_link.next[x[1]] = NullSlab)
<1>1. NonFull \subseteq slabs
  BY DEF NonFull
<1>2. \A x \in slabs : x[1] \in Page /\ x[1] \in SlabNode /\ x[1] \notin SlabList
  BY SlabNodes DEF SlabInv, SlabTypes
<1>3. \A x, y \in slabs : x[1] = y[1] => x = y
  BY DEF SlabInv, RunsSplit
<1>4. \A x \in slabs : x[1] \in FirstEntries(NonFull) <=> x \in NonFull
  BY <1>1, <1>3 DEF FirstEntries
<1>5. Filed(slab_link, SlabNode, SlabTarget, SlabList,
            SlabList \cup FirstEntries(NonFull), SlabClass)
  BY DEF SlabInv, SlabsFiled
<1>6. SlabList \cup FirstEntries(NonFull) \in SUBSET SlabNode
  BY <1>1, <1>2, SlabNodes DEF FirstEntries
<1>7. \A x \in NonFull : slab_link.next[x[1]] # NullSlab
  <2>1. \A n \in FirstEntries(NonFull) : slab_link.next[n] \in SlabNode
    BY <1>5, <1>6 DEF Filed, LinkedOver
  <2> QED
    BY <2>1, SlabNodes DEF FirstEntries
<1>8. \A x \in slabs : x[1] # Current(x[2]) =>
                 (IsFull(x) <=> slab_link.next[x[1]] = NullSlab)
  BY <1>7 DEF NonFull, SlabInv, SlabsFiled
<1>9. /\ \A x \in slabs : SlabClass[x[1]] = x[2]
      /\ \A n \in SlabList : SlabClass[n] = n[2]
  BY ClassOfSlab DEF SlabInv
<1> QED
  BY <1>1, <1>2, <1>4, <1>5, <1>6, <1>7, <1>8, <1>9

\* The accounting of the memory in use.
LEMMA OccupiedInRange ==
    ASSUME SlabInv, NEW u \in Int, occupy_space(u) \/ reclaim_space(u)
    PROVE  occupied' \in 0 .. SizeModulus - 1
<1>1. SizeModulus \in Nat \ {0} /\ occupied \in 0 .. SizeModulus - 1
  BY SlabAssumption DEF SlabInv, SlabTypes
<1>2. occupied + u \in Int /\ occupied - u \in Int
  BY <1>1
<1>3. (occupied + u) % SizeModulus \in 0 .. SizeModulus - 1
  BY <1>1, <1>2, ModBounds
<1>4. (occupied - u) % SizeModulus \in 0 .. SizeModulus - 1
  BY <1>1, <1>2, ModBounds
<1> QED
  BY <1>1, <1>3, <1>4 DEF occupy_space, reclaim_space

\* What giving a run back does to what the sub-allocator sees.
LEMMA GivenBack ==
    ASSUME IndInv, NEW r \in held, FreePagesOf(r)
    PROVE  /\ held' = held \ {r} /\ request' = request
           /\ ReclaimedNPages(r) \in Nat /\ ReclaimedNPages(r) * PageUnits \in Int
           /\ r[3] \in Int /\ 1 <= r[3] /\ capacity' \in Int
           /\ Accounted => capacity' >= capacity + r[3]
           /\ ~Accounted => capacity' = capacity
<1>1. ReclaimedNPages(r) \in Nat
  BY ArenaAssumption DEF ReclaimedNPages
<1>2. ReclaimedNPages(r) * PageUnits \in Int
  BY <1>1, SlabFacts
<1>3. r[3] \in Int /\ 1 <= r[3] /\ capacity \in Int
  <2>1. r \in Runs
    BY DEF Runs
  <2> QED
    BY <2>1, RunFacts DEF IndInv, TypeOK
<1>4. held' = held \ {r} /\ request' = request
  BY DEF FreePagesOf, deallocate_page, deallocate_page_unmap
<1>5. \/ capacity' = IF Accounted THEN capacity + r[3] ELSE capacity
      \/ capacity' = IF Accounted THEN capacity + r[3] + ReclaimedNPages(r) ELSE capacity
  BY DEF FreePagesOf, deallocate_page, deallocate_page_unmap
<1> QED
  BY <1>1, <1>2, <1>3, <1>4, <1>5
-----------------------------------------------------------------------------
(* Steps that leave slabs and objects alone.                               *)

LEMMA QuietStep ==
    ASSUME SlabInv, UNCHANGED <<current_slabs, slab_link, allocated, idx_in_slab, slabs,
                                live, held>>,
           \A c \in AllocClasses : Current(c)' = Current(c),
           call' \in Call, occupied' \in 0 .. SizeModulus - 1, CallOK', CapacityOK'
    PROVE  SlabInv'
<1>1. /\ ObjectsPlaced' /\ RunsSplit' /\ BitsKept' /\ SlabsNeeded'
      /\ CurrentsOK' /\ SlabsFiled'
  BY MemoryKept
<1>2. SlabTypes'
  BY DEF SlabInv, SlabTypes
<1> QED
  BY <1>1, <1>2 DEF SlabInv

\* Where the call in progress stands does not matter while it is not a destruction
\* and no slab is being replaced.
LEMMA SameCurrent ==
    ASSUME current_slabs' = current_slabs,
           call.op \in {"idle", "small", "medium"}, call'.op \in {"idle", "small", "medium"}
    PROVE  \A c \in AllocClasses : Current(c)' = Current(c)
  BY DEF Current, Stale

\* Between two calls.
LEMMA IdleCall ==
    /\ Idle \in Call /\ Idle.op = "idle" /\ Idle.class = 0 /\ Idle.align = 1
    /\ call' = Idle /\ request' = NoRequest => CallOK'
  BY DEF Idle, Call, CallOK

\* With no request and no replacement in progress only the sign of the capacity counts.
LEMMA CapacityFine ==
    ASSUME capacity' >= 0, request' = NoRequest, call'.op # "replace"
    PROVE  CapacityOK'
  BY DEF CapacityOK

LEMMA AskPagesKeeps == IndInv /\ SlabInv /\ ask_pages => SlabInv'
<1> SUFFICES ASSUME IndInv, SlabInv, ask_pages
             PROVE  SlabInv'
  OBVIOUS
<1>1. /\ call.op \in {"small", "replace", "medium"} /\ call_allocate_page(CallNPages, call.align)
      /\ UNCHANGED subVars
  BY DEF ask_pages
<1>2. /\ request' = [n |-> CallNPages, align |-> call.align, fresh |-> FALSE]
      /\ held' = held /\ capacity' = capacity /\ (Accounted => CallNPages <= capacity)
      /\ request = NoRequest
  <2>1. Accounted => CallNPages <= capacity
    <3>1. Accounted => capacity >= CallNPages
      BY <1>1 DEF call_allocate_page
    <3> QED
      BY <3>1
  <2> QED
    BY <1>1, <2>1 DEF call_allocate_page
<1>3. UNCHANGED <<current_slabs, slab_link, allocated, idx_in_slab, call, slabs, live,
                  large, occupied>>
  BY <1>1 DEF subVars
<1>4. CallNPages' = CallNPages
  BY <1>3 DEF CallNPages
<1>5. CallOK'
  BY <1>1, <1>2, <1>3, <1>4 DEF SlabInv, CallOK, HasCurrent, FreeSlots
<1>6. CapacityOK'
  BY <1>1, <1>2, <1>3, <1>4 DEF SlabInv, CapacityOK
<1>7. \A c \in AllocClasses : Current(c)' = Current(c)
  BY <1>3 DEF Current, Stale
<1> QED
  BY <1>2, <1>3, <1>5, <1>6, <1>7, QuietStep DEF SlabInv, SlabTypes

LEMMA AskPagesThrowsKeeps == IndInv /\ SlabInv /\ ask_pages_throws => SlabInv'
<1> SUFFICES ASSUME IndInv, SlabInv, ask_pages_throws
             PROVE  SlabInv'
  OBVIOUS
<1>1. /\ call.op \in {"small", "replace", "medium"} /\ call' = Idle
      /\ request = NoRequest /\ Accounted /\ capacity < CallNPages
      /\ UNCHANGED vars
      /\ UNCHANGED <<current_slabs, slab_link, allocated, idx_in_slab, slabs, live,
                     large, occupied>>
  BY DEF ask_pages_throws, pageVars
<1>2. UNCHANGED <<held, capacity, request>>
  BY <1>1 DEF vars
<1>3. call.op # "replace"
  <2>1. CASE call.op = "replace"
    <3>1. CallNPages <= capacity
      BY <1>1, <2>1 DEF SlabInv, CapacityOK
    <3>2. CallNPages \in Int
      BY <2>1, SlabFacts DEF CallNPages, SlabInv, CallOK
    <3>3. capacity \in Int
      BY DEF IndInv, TypeOK
    <3> QED
      BY <1>1, <3>1, <3>2, <3>3
  <2> QED
    BY <2>1
<1>4. \A c \in AllocClasses : Current(c)' = Current(c)
  BY <1>1, <1>3, SameCurrent, IdleCall
<1>5. CallOK' /\ call' \in Call
  BY <1>1, <1>2, IdleCall
<1>6. CapacityOK'
  BY <1>1, <1>2, IdleCall, CapacityFine DEF SlabInv, CapacityOK
<1> QED
  BY <1>1, <1>2, <1>4, <1>5, <1>6, QuietStep DEF SlabInv, SlabTypes

LEMMA MapArenaKeeps == IndInv /\ SlabInv /\ (\E a \in Arena : map_arena(a)) => SlabInv'
<1> SUFFICES ASSUME IndInv, SlabInv, NEW a \in Arena, map_arena(a)
             PROVE  SlabInv'
  OBVIOUS
<1>1. create(a) /\ UNCHANGED subVars
  BY DEF map_arena
<1>2. /\ request # NoRequest /\ request' = [request EXCEPT !.fresh = TRUE]
      /\ capacity' = capacity /\ held' = held
  BY <1>1 DEF create, construct_arena, NoRunServes
<1>3. UNCHANGED <<current_slabs, slab_link, allocated, idx_in_slab, call, slabs, live,
                  large, occupied>>
  BY <1>1 DEF subVars
<1>4. request \in Request
  BY DEF IndInv, TypeOK
<1>5. request'.n = request.n /\ request'.align = request.align /\ request'.fresh
  BY <1>2, <1>4 DEF Request
<1>6. CallNPages' = CallNPages
  BY <1>3 DEF CallNPages
<1>7. CallOK'
  BY <1>2, <1>3, <1>5, <1>6 DEF SlabInv, CallOK, HasCurrent, FreeSlots
<1>8. CapacityOK'
  BY <1>2, <1>3, <1>5 DEF SlabInv, CapacityOK, NoRequest
<1>9. \A c \in AllocClasses : Current(c)' = Current(c)
  BY <1>3 DEF Current, Stale
<1> QED
  BY <1>2, <1>3, <1>7, <1>8, <1>9, QuietStep DEF SlabInv, SlabTypes

LEMMA MapArenaThrowsKeeps == IndInv /\ SlabInv /\ map_arena_throws => SlabInv'
<1> SUFFICES ASSUME IndInv, SlabInv, map_arena_throws
             PROVE  SlabInv'
  OBVIOUS
<1>1. /\ request # NoRequest /\ request' = NoRequest /\ capacity' = capacity /\ held' = held
      /\ call' = IF Stale(call.class) THEN [call EXCEPT !.op = "dangling"] ELSE Idle
      /\ UNCHANGED <<current_slabs, slab_link, allocated, idx_in_slab, slabs, live,
                     large, occupied>>
  BY DEF map_arena_throws, create_fails, create_throws, construct_arena, NoRunServes
<1>2. call.op \in {"small", "replace", "medium"} /\ call \in Call
  BY <1>1 DEF SlabInv, CallOK, SlabTypes
<1>3. capacity' >= 0
  BY <1>1 DEF SlabInv, CapacityOK
<1>4. CASE call.op = "replace"
  <2>1. call' = [call EXCEPT !.op = "dangling"]
    BY <1>1, <1>4 DEF Stale
  <2>2. call' \in Call /\ call'.op = "dangling" /\ call'.class = call.class
    BY <1>2, <2>1 DEF Call
  <2>3. \A c \in AllocClasses : Current(c)' = Current(c)
    BY <1>1, <1>4, <2>2 DEF Current, Stale
  <2>4. CallOK'
    BY <1>1, <2>2 DEF CallOK
  <2>5. CapacityOK'
    BY <1>1, <1>3, <2>2, CapacityFine
  <2> QED
    BY <1>1, <2>2, <2>3, <2>4, <2>5, QuietStep DEF SlabInv, SlabTypes
<1>5. CASE call.op # "replace"
  <2>1. call' = Idle
    BY <1>1, <1>2, <1>5 DEF Stale
  <2>2. \A c \in AllocClasses : Current(c)' = Current(c)
    BY <1>1, <1>2, <1>5, <2>1, SameCurrent, IdleCall
  <2>3. CallOK' /\ CapacityOK' /\ call' \in Call
    BY <1>1, <1>3, <2>1, IdleCall, CapacityFine
  <2> QED
    BY <1>1, <2>2, <2>3, QuietStep DEF SlabInv, SlabTypes
<1> QED
  BY <1>4, <1>5

LEMMA AllocateMediumKeeps ==
    ASSUME IndInv, SlabInv, NEW n \in MinMediumNPages .. MaxNPages, NEW al \in PageAligns,
           n >= al, allocate_medium(n, al)
    PROVE  SlabInv'
<1>1. /\ call = Idle /\ call' = [op |-> "medium", class |-> n, align |-> al]
      /\ UNCHANGED vars
      /\ UNCHANGED <<current_slabs, slab_link, allocated, idx_in_slab, slabs, live,
                     large, occupied>>
  BY DEF allocate_medium, pageVars
<1>2. UNCHANGED <<held, capacity, request>> /\ request = NoRequest
  BY <1>1, IdleFacts DEF vars
<1>3. n \in Nat
  BY SlabAssumption, RequestAssumption
<1>4. call' \in Call
  BY <1>1, <1>3 DEF Call
<1>5. CallOK'
  BY <1>1, <1>2 DEF CallOK
<1>6. CapacityOK'
  BY <1>1, <1>2, CapacityFine DEF SlabInv, CapacityOK
<1>7. \A c \in AllocClasses : Current(c)' = Current(c)
  BY <1>1, SameCurrent, IdleCall
<1> QED
  BY <1>1, <1>2, <1>4, <1>5, <1>6, <1>7, QuietStep DEF SlabInv, SlabTypes

LEMMA LargeKeeps ==
    ASSUME IndInv, SlabInv, IndInv',
           allocate_large \/ allocate_large_throws \/ deallocate_large
    PROVE  SlabInv'
<1>1. /\ call = Idle /\ UNCHANGED <<request, held>>
      /\ UNCHANGED <<current_slabs, slab_link, allocated, idx_in_slab, call, slabs, live>>
  BY DEF allocate_large, allocate_large_throws, deallocate_large, PageStateButCapacity
<1>2. LargeNPages \in Int /\ 0 <= LargeNPages /\ PageUnits \in Nat \ {0}
      /\ capacity \in Int /\ capacity >= 0
  BY SlabAssumption DEF SlabInv, CapacityOK, IndInv, TypeOK
<1>3. LargeNPages * PageUnits \in Int
  BY <1>2
<1>4. occupied' \in 0 .. SizeModulus - 1
  BY <1>3, OccupiedInRange DEF allocate_large, allocate_large_throws, deallocate_large
<1>5. capacity' >= 0
  <2>1. CASE Accounted
    BY <1>2, <2>1 DEF allocate_large, allocate_large_throws, deallocate_large
  <2>2. CASE ~Accounted
    BY <1>2, <2>2 DEF allocate_large, allocate_large_throws, deallocate_large
  <2> QED
    BY <2>1, <2>2
<1>6. request' = NoRequest
  BY <1>1, IdleFacts
<1>7. CallOK' /\ CapacityOK' /\ call' \in Call
  BY <1>1, <1>5, <1>6, IdleCall, CapacityFine
<1>8. \A c \in AllocClasses : Current(c)' = Current(c)
  BY <1>1, SameCurrent, IdleCall
<1> QED
  BY <1>1, <1>4, <1>7, <1>8, QuietStep

LEMMA DestroyKeeps == IndInv /\ SlabInv /\ destroy => SlabInv'
<1> SUFFICES ASSUME IndInv, SlabInv, destroy
             PROVE  SlabInv'
  OBVIOUS
<1>1. /\ call = Idle /\ live = {} /\ call' = [Idle EXCEPT !.op = "destroy"]
      /\ UNCHANGED vars
      /\ UNCHANGED <<current_slabs, slab_link, allocated, idx_in_slab, slabs, live,
                     large, occupied>>
  BY DEF destroy, pageVars
<1>2. UNCHANGED <<held, capacity, request>> /\ request = NoRequest
  BY <1>1, IdleFacts DEF vars
<1>3. call' \in Call /\ call'.op = "destroy" /\ call'.class = 0
  BY <1>1 DEF Call, Idle
<1>4. CallOK'
  <2>1. NAllocClasses \in Nat
    BY SlabAssumption
  <2> QED
    BY <1>1, <1>2, <1>3, <2>1 DEF CallOK
<1>5. CapacityOK'
  BY <1>2, <1>3, CapacityFine DEF SlabInv, CapacityOK
<1>6. \A c \in AllocClasses : Current(c)' = Current(c)
  <2>1. \A c \in AllocClasses : ~(c < 0)
    BY SlabFacts
  <2>2. \A c \in AllocClasses : ~Stale(c)'
    BY <1>3, <2>1 DEF Stale
  <2>3. \A c \in AllocClasses : Current(c) = current_slabs[c]
    BY <1>1, IdleFacts
  <2> QED
    BY <1>1, <2>2, <2>3 DEF Current
<1> QED
  BY <1>1, <1>2, <1>3, <1>4, <1>5, <1>6, QuietStep DEF SlabInv, SlabTypes

LEMMA DestroyedKeeps == IndInv /\ SlabInv /\ destroyed => SlabInv'
<1> SUFFICES ASSUME IndInv, SlabInv, destroyed
             PROVE  SlabInv'
  OBVIOUS
<1>1. /\ call.op = "destroy" /\ call.class = NAllocClasses
      /\ call' = [Idle EXCEPT !.op = "destroyed"]
      /\ UNCHANGED vars
      /\ UNCHANGED <<current_slabs, slab_link, allocated, idx_in_slab, slabs, live,
                     large, occupied>>
  BY DEF destroyed, pageVars
<1>2. UNCHANGED <<held, capacity, request>>
  BY <1>1 DEF vars
<1>3. call' \in Call /\ call'.op = "destroyed" /\ request = NoRequest /\ live = {}
  BY <1>1 DEF Call, Idle, SlabInv, CallOK
<1>4. CallOK'
  BY <1>1, <1>2, <1>3 DEF CallOK
<1>5. CapacityOK'
  BY <1>2, <1>3, CapacityFine DEF SlabInv, CapacityOK
<1>6. \A c \in AllocClasses : Current(c)' = Current(c)
  <2>1. \A c \in AllocClasses : c < NAllocClasses
    BY SlabFacts
  <2> QED
    BY <1>1, <1>3, <2>1 DEF Current, Stale
<1> QED
  BY <1>1, <1>2, <1>3, <1>4, <1>5, <1>6, QuietStep DEF SlabInv, SlabTypes

LEMMA StutterKeeps == SlabInv /\ UNCHANGED allVars => SlabInv'
<1> SUFFICES ASSUME SlabInv, UNCHANGED allVars
             PROVE  SlabInv'
  OBVIOUS
<1>1. UNCHANGED <<held, capacity, request>>
  BY DEF allVars, vars
<1>2. UNCHANGED <<current_slabs, slab_link, allocated, idx_in_slab, call, slabs, live,
                  large, occupied>>
  BY DEF allVars, subVars
<1>3. \A c \in AllocClasses : Current(c)' = Current(c)
  BY <1>2 DEF Current, Stale
<1>4. CallNPages' = CallNPages
  BY <1>2 DEF CallNPages
<1>5. CallOK'
  BY <1>1, <1>2, <1>4 DEF SlabInv, CallOK, HasCurrent, FreeSlots
<1>6. CapacityOK'
  BY <1>1, <1>2, <1>4 DEF SlabInv, CapacityOK
<1> QED
  BY <1>1, <1>2, <1>3, <1>5, <1>6, QuietStep DEF SlabInv, SlabTypes
-----------------------------------------------------------------------------
(* Steps that allocate a slot.                                             *)

\* The lowest free slot of a slab that is not full, and the bits set with it.
LEMMA SlotTaken ==
    ASSUME IndInv, SlabInv, NEW p, NEW c \in AllocClasses, <<p, c>> \in slabs,
           FreeSlots(p, c) # {}
    PROVE  /\ LowestFree(p, c) \in Slots(c) /\ LowestFree(p, c) \notin allocated[p]
           /\ \E B \in SUBSET SpareBits(c) :
                 /\ WordsFilled(c) => B = {}
                 /\ SetSlot(p, c) = [allocated EXCEPT ![p] = @ \cup {LowestFree(p, c)} \cup B]
<1> DEFINE s == LowestFree(p, c)
           B == IF s \div WordBits = NSlots[c] \div WordBits THEN SpareBits(c) ELSE {}
<1>1. NSlots[c] \in Nat \ {0} /\ WordBits \in Nat \ {0}
  BY SlabFacts, SlabAssumption
<1>2. FreeSlots(p, c) \subseteq Nat
  BY <1>1 DEF FreeSlots
<1>3. s \in FreeSlots(p, c)
  <2>1. \E t \in FreeSlots(p, c) : \A u \in FreeSlots(p, c) : t <= u
    BY <1>2, LeastNumber
  <2> QED
    BY <2>1 DEF LowestFree
<1>4. s \in Slots(c) /\ s \notin allocated[p]
  BY <1>3 DEF FreeSlots, Slots
<1>5. WordsFilled(c) => B = {}
  <2> SUFFICES ASSUME NSlots[c] % WordBits = 0, s \div WordBits = NSlots[c] \div WordBits
               PROVE  FALSE
    BY DEF WordsFilled
  <2> DEFINE m == NSlots[c]
             k == WordBits
  <2>1. s \in Nat /\ s < m
    BY <1>1, <1>4 DEF Slots
  <2>2. m = (m \div k) * k
    <3>1. m \in Int /\ k \in Nat \ {0} /\ m % k = 0
      BY <1>1
    <3> HIDE DEF m, k
    <3> QED
      BY <3>1, DivNoRest, Zenon
  <2> HIDE DEF s
  <2>3. (s \div k) * k <= s
    BY <1>1, <2>1, DivBounds
  <2> QED
    BY <1>1, <2>1, <2>2, <2>3
<1>6. SetSlot(p, c) = [allocated EXCEPT ![p] = @ \cup {s} \cup B]
  BY DEF SetSlot
<1>7. B \in SUBSET SpareBits(c)
  OBVIOUS
<1> QED
  BY <1>4, <1>5, <1>6, <1>7

\* The slab in which a slot has been taken is not without bits, and no other slab is
\* touched.
LEMMA TakenBits ==
    ASSUME SlabInv, NEW p \in Page, NEW c \in AllocClasses, <<p, c>> \in slabs, NEW s, NEW B,
           allocated' = [allocated EXCEPT ![p] = @ \cup {s} \cup B]
    PROVE  /\ allocated'[p] # {}
           /\ \A x \in slabs : x # <<p, c>> => /\ x[1] # p /\ allocated'[x[1]] = allocated[x[1]]
                                               /\ FreeSlots(x[1], x[2])' = FreeSlots(x[1], x[2])
<1>1. allocated \in [Page -> SUBSET Nat] /\ slabs \subseteq Page \X AllocClasses
  BY DEF SlabInv, SlabTypes
<1>2. PICK z \in slabs : z = <<p, c>>
  OBVIOUS
<1>3. z[1] = p
  BY <1>2
<1>4. \A x \in slabs : x # z => x[1] # p
  BY <1>3 DEF SlabInv, RunsSplit
<1>5. allocated'[p] # {}
  BY <1>1
<1>6. \A x \in slabs : x # z => allocated'[x[1]] = allocated[x[1]]
  BY <1>1, <1>4
<1>7. \A x \in slabs : x # z => FreeSlots(x[1], x[2])' = FreeSlots(x[1], x[2])
  BY <1>6 DEF FreeSlots
<1> QED
  BY <1>2, <1>4, <1>5, <1>6, <1>7

LEMMA FromCurrentKeeps ==
    ASSUME IndInv, SlabInv, NEW c \in AllocClasses, NEW al \in SmallAligns(c),
           allocate_from_current(c, al)
    PROVE  SlabInv'
<1> DEFINE p == current_slabs[c]
           s == LowestFree(p, c)
<1>1. /\ call = Idle /\ HasCurrent(c) /\ FreeSlots(p, c) # {}
      /\ allocated' = SetSlot(p, c) /\ live' = live \cup {SlotObject(p, c, s, al)}
      /\ occupy_space(SlotSize[c])
      /\ UNCHANGED <<current_slabs, slab_link, idx_in_slab, call, slabs>>
      /\ UNCHANGED <<held, capacity, request>>
  BY DEF allocate_from_current, CurrentHasSlot, pageVars, vars
<1>2. /\ request = NoRequest
      /\ \A d \in AllocClasses : ~Stale(d) /\ Current(d) = current_slabs[d]
  BY <1>1, IdleFacts
<1>3. p \in Page /\ <<p, c>> \in slabs
  BY <1>1, <1>2, CurrentFacts
<1>4. PICK B \in SUBSET SpareBits(c) :
         /\ WordsFilled(c) => B = {}
         /\ SetSlot(p, c) = [allocated EXCEPT ![p] = @ \cup {s} \cup B]
  BY <1>1, <1>3, SlotTaken
<1>5. s \in Slots(c) /\ s \notin allocated[p] /\ al \in PageAligns
  BY <1>1, <1>3, SlotTaken, TwoPages
<1> HIDE DEF p, s
<1>6. /\ ObjectsPlaced' /\ RunsSplit' /\ BitsKept'
      /\ allocated' \in [Page -> SUBSET Nat] /\ IsFiniteSet(live)'
  BY <1>1, <1>3, <1>4, <1>5, TakeSlot
<1>7. /\ allocated'[p] # {}
      /\ \A x \in slabs : x # <<p, c>> => /\ x[1] # p /\ allocated'[x[1]] = allocated[x[1]]
                                          /\ FreeSlots(x[1], x[2])' = FreeSlots(x[1], x[2])
  <2>1. allocated' = [allocated EXCEPT ![p] = @ \cup {s} \cup B]
    BY <1>1, <1>4
  <2> QED
    BY <1>3, <2>1, TakenBits
<1>8. \A d \in AllocClasses : Current(d)' = Current(d) /\ Current(d) = current_slabs[d]
  BY <1>1, <1>2, SameCurrent, IdleCall
<1>9. \A x \in slabs : x[2] \in AllocClasses /\ Current(x[2])' = Current(x[2])
  BY <1>8, SlabRunFacts
<1>10. occupied' \in 0 .. SizeModulus - 1
  BY <1>1, SlabFacts, OccupiedInRange
<1>11. SlabTypes'
  BY <1>1, <1>6, <1>10 DEF SlabInv, SlabTypes
<1>12. \A x \in slabs : x = <<p, c>> => x[1] = p /\ Current(x[2]) = p
  BY <1>8 DEF p
<1>13. SlabsNeeded'
  BY <1>1, <1>7, <1>9, <1>12 DEF SlabInv, SlabsNeeded
<1>14. CurrentsOK'
  BY <1>1, <1>8 DEF SlabInv, CurrentsOK
<1>15. NonFull' = NonFull
  BY <1>1, <1>7, <1>9, <1>12 DEF NonFull, IsFull
<1>16. SlabsFiled'
  <2>1. /\ Filed(slab_link, SlabNode, SlabTarget, SlabList,
                 SlabList \cup FirstEntries(NonFull), SlabClass)
        /\ \A x \in NonFull : SlabClass[x[1]] = x[2]
        /\ \A n \in SlabList : SlabClass[n] = n[2]
    BY FiledFacts
  <2>2. \A x \in slabs' : x[1] # Current(x[2])' /\ FreeSlots(x[1], x[2])' = {} =>
              slab_link'.next[x[1]] = NullSlab
    BY <1>1, <1>7, <1>9, <1>12 DEF SlabInv, SlabsFiled, IsFull
  <2> QED
    BY <1>1, <1>6, <1>11, <1>15, <2>1, <2>2, Refiled
<1>17. CallOK' /\ CapacityOK'
  BY <1>1, <1>2, IdleCall, CapacityFine DEF SlabInv, CapacityOK
<1> QED
  BY <1>6, <1>11, <1>13, <1>14, <1>16, <1>17 DEF SlabInv

\* What retiring the current slab does: a slab that is full is marked, and no list
\* is touched.
LEMMA Retired ==
    ASSUME IndInv, SlabInv, call = Idle, NEW c \in AllocClasses, ~CurrentHasSlot(c)
    PROVE  /\ Filed(RetiredLinks(c), SlabNode, SlabTarget, SlabList,
                    SlabList \cup FirstEntries(NonFull), SlabClass)
           /\ HasCurrent(c) => /\ FreeSlots(current_slabs[c], c) = {}
                               /\ RetiredLinks(c).next[current_slabs[c]] = NullSlab
           /\ \A x \in slabs : x[1] # current_slabs[c] =>
                 RetiredLinks(c).next[x[1]] = slab_link.next[x[1]]
<1> DEFINE p == current_slabs[c]
           S == SlabList \cup FirstEntries(NonFull)
           m == RetiredLinks(c)
<1>1. /\ Filed(slab_link, SlabNode, SlabTarget, SlabList, S, SlabClass)
      /\ S \in SUBSET SlabNode
      /\ \A x \in slabs : x[1] \in Page /\ x[1] \in SlabNode /\ x[1] \notin SlabList
      /\ \A x \in slabs : x[1] \in FirstEntries(NonFull) <=> x \in NonFull
  BY FiledFacts
<1>2. CASE ~HasCurrent(c)
  BY <1>1, <1>2 DEF RetiredLinks
<1>3. CASE HasCurrent(c)
  <2>1. FreeSlots(p, c) = {} /\ p \in Page /\ <<p, c>> \in slabs /\ Current(c) = p
    BY <1>3, IdleFacts, CurrentFacts DEF CurrentHasSlot
  <2>2. PICK z \in slabs : z = <<p, c>>
    BY <2>1
  <2>3. z[1] = p /\ z[2] = c
    BY <2>2
  <2>4. p \in SlabNode /\ p \notin S
    BY <1>1, <2>1, <2>3 DEF NonFull
  <2>5. m = [slab_link EXCEPT !.next[p] = NullSlab]
    BY <1>3 DEF RetiredLinks
  <2>6. slab_link \in Links(SlabNode, SlabTarget)
    BY <1>1 DEF Filed
  <2>7. m.next = [slab_link.next EXCEPT ![p] = NullSlab] /\ m.prev = slab_link.prev
    BY <2>5, <2>6 DEF Links
  <2>8. m \in Links(SlabNode, SlabTarget)
    BY <2>4, <2>5, <2>6 DEF Links, SlabTarget
  <2>9. m.next[p] = NullSlab /\ \A n \in SlabNode : n # p => m.next[n] = slab_link.next[n]
    BY <2>4, <2>6, <2>7 DEF Links
  <2> HIDE DEF m, S, p
  <2>10. Filed(m, SlabNode, SlabTarget, SlabList, S, SlabClass)
    <3>1. \A x \in S : m.next[x] = slab_link.next[x] /\ m.prev[x] = slab_link.prev[x]
      BY <1>1, <2>4, <2>7, <2>9
    <3> QED
      BY <1>1, <2>8, <3>1, FiledOutside
  <2> QED
    BY <1>1, <2>1, <2>9, <2>10 DEF p, m, S
<1> QED
  BY <1>2, <1>3

LEMMA NeedNewSlabKeeps ==
    ASSUME IndInv, SlabInv, NEW c \in AllocClasses, NEW al \in SmallAligns(c),
           need_new_slab(c, al)
    PROVE  SlabInv'
<1>1. /\ call = Idle /\ ~CurrentHasSlot(c) /\ slab_link' = RetiredLinks(c)
      /\ call' = [op |-> "small", class |-> c, align |-> al]
      /\ UNCHANGED <<current_slabs, allocated, idx_in_slab, slabs, live, large, occupied>>
      /\ UNCHANGED <<held, capacity, request>>
  BY DEF need_new_slab, pageVars, vars
<1>2. request = NoRequest /\ \A d \in AllocClasses : Current(d) = current_slabs[d]
  BY <1>1, IdleFacts
<1>3. \A d \in AllocClasses : Current(d)' = Current(d)
  BY <1>1, SameCurrent, IdleCall
<1>4. \A x \in slabs : x[2] \in AllocClasses /\ Current(x[2])' = Current(x[2])
  BY <1>3, SlabRunFacts
<1>5. call' \in Call /\ al \in PageAligns /\ c \in Nat
  BY <1>1, TwoPages, SlabFacts DEF Call
<1>6. /\ Filed(RetiredLinks(c), SlabNode, SlabTarget, SlabList,
               SlabList \cup FirstEntries(NonFull), SlabClass)
      /\ HasCurrent(c) => /\ FreeSlots(current_slabs[c], c) = {}
                          /\ RetiredLinks(c).next[current_slabs[c]] = NullSlab
      /\ \A x \in slabs : x[1] # current_slabs[c] =>
            RetiredLinks(c).next[x[1]] = slab_link.next[x[1]]
  BY <1>1, Retired
<1>7. SlabTypes'
  BY <1>1, <1>5 DEF SlabInv, SlabTypes
<1>8. ObjectsPlaced' /\ RunsSplit' /\ BitsKept'
  <2>1. \A x \in slabs : HeldSlots(x)' = HeldSlots(x)
    BY <1>1 DEF HeldSlots
  <2>2. SlabRuns' = SlabRuns /\ MediumRuns' = MediumRuns
    BY <1>1 DEF SlabRuns, MediumRuns
  <2>3. ObjectsPlaced'
    BY <1>1, <2>1 DEF SlabInv, ObjectsPlaced
  <2>4. RunsSplit'
    BY <1>1, <2>2 DEF SlabInv, RunsSplit
  <2>5. BitsKept'
    BY <1>1, <2>1 DEF SlabInv, BitsKept
  <2> QED
    BY <2>3, <2>4, <2>5
<1>9. SlabsNeeded' /\ CurrentsOK'
  BY <1>1, <1>3, <1>4 DEF SlabInv, SlabsNeeded, CurrentsOK
<1>10. NonFull' = NonFull
  BY <1>1, <1>4 DEF NonFull, IsFull, FreeSlots
<1>11. SlabsFiled'
  <2>1. /\ \A x \in NonFull : SlabClass[x[1]] = x[2]
        /\ \A n \in SlabList : SlabClass[n] = n[2]
    BY FiledFacts
  <2>2. ASSUME NEW x \in slabs', x[1] # Current(x[2])', FreeSlots(x[1], x[2])' = {}
        PROVE  slab_link'.next[x[1]] = NullSlab
    <3>1. x \in slabs /\ x[1] # Current(x[2]) /\ IsFull(x)
      BY <1>1, <1>4, <2>2 DEF IsFull, FreeSlots
    <3>2. slab_link.next[x[1]] = NullSlab
      BY <3>1 DEF SlabInv, SlabsFiled
    <3>3. CASE x[1] = current_slabs[c]
      <4>1. HasCurrent(c)
        BY <3>1, <3>3, SlabRunFacts, SlabNodes DEF HasCurrent
      <4> QED
        BY <1>1, <1>6, <3>3, <4>1
    <3>4. CASE x[1] # current_slabs[c]
      BY <1>1, <1>6, <3>1, <3>2, <3>4
    <3> QED
      BY <3>3, <3>4
  <2> QED
    BY <1>1, <1>6, <1>7, <1>8, <1>10, <2>1, <2>2, Refiled
<1>12. CallOK'
  BY <1>1, <1>2, <1>6 DEF CallOK, HasCurrent, FreeSlots
<1>13. CapacityOK'
  BY <1>1, <1>2, CapacityFine DEF SlabInv, CapacityOK
<1> QED
  BY <1>7, <1>8, <1>9, <1>11, <1>12, <1>13 DEF SlabInv

\* The front of a list that is not empty is a slab of its class with free slots, and
\* popping it leaves the other slabs in their lists.
LEMMA Popped ==
    ASSUME IndInv, SlabInv, NEW c \in AllocClasses, NEW m,
           Filed(m, SlabNode, SlabTarget, SlabList, SlabList \cup FirstEntries(NonFull), SlabClass),
           NEW p, p = m.next[non_full_slabs(c)], p # non_full_slabs(c)
    PROVE  /\ p \in Page /\ <<p, c>> \in NonFull
           /\ SlabList \cup FirstEntries(NonFull \ {<<p, c>>})
                 = (SlabList \cup FirstEntries(NonFull)) \ {p}
           /\ Filed(pop_front(m, non_full_slabs(c), p), SlabNode, SlabTarget, SlabList,
                    SlabList \cup FirstEntries(NonFull \ {<<p, c>>}), SlabClass)
<1> DEFINE S == SlabList \cup FirstEntries(NonFull)
           list == non_full_slabs(c)
<1>1. /\ S \in SUBSET SlabNode /\ SlabList \in SUBSET S
      /\ NonFull \subseteq slabs
      /\ \A x \in slabs : SlabClass[x[1]] = x[2]
      /\ \A n \in SlabList : SlabClass[n] = n[2]
      /\ \A x \in slabs : x[1] \in Page /\ x[1] \notin SlabList
      /\ \A x \in slabs : x = <<x[1], x[2]>>
  BY FiledFacts, SlabRunFacts
<1>2. list \in SlabList /\ list[2] = c
  BY SlabNodes
<1>3. p \in S /\ SlabClass[p] = SlabClass[list]
  BY <1>1, <1>2 DEF Filed, LinkedOver
<1>4. p \notin SlabList
  <2>1. \A n \in SlabList : n[2] = c => n = list
    BY DEF SlabList, non_full_slabs
  <2> QED
    BY <1>1, <1>2, <1>3, <2>1
<1>5. PICK x \in NonFull : x[1] = p
  BY <1>3, <1>4 DEF FirstEntries
<1>6. x[2] = c /\ x = <<p, c>> /\ p \in Page
  BY <1>1, <1>2, <1>3, <1>5
<1>7. SlabList \cup FirstEntries(NonFull \ {x}) = S \ {p}
  <2>1. \A y \in NonFull : y[1] = p => y = x
    BY <1>1, <1>5 DEF SlabInv, RunsSplit
  <2> QED
    BY <1>4, <1>5, <2>1 DEF FirstEntries
<1>8. Filed(pop_front(m, list, p), SlabNode, SlabTarget, SlabList, S \ {p}, SlabClass)
  <2>1. SlabNode \subseteq SlabTarget /\ list \in S
    BY <1>1, <1>2, SlabNodes
  <2> HIDE DEF S, list
  <2> QED
    BY <1>1, <1>4, <2>1, PopFrontFiled DEF list, S
<1> QED
  BY <1>5, <1>6, <1>7, <1>8

LEMMA FromListKeeps ==
    ASSUME IndInv, SlabInv, NEW c \in AllocClasses, NEW al \in SmallAligns(c),
           allocate_from_list(c, al)
    PROVE  SlabInv'
<1> DEFINE p == FirstNonFull(c)
           s == LowestFree(p, c)
           m == RetiredLinks(c)
           o == current_slabs[c]
<1>1. /\ call = Idle /\ ~CurrentHasSlot(c) /\ p # non_full_slabs(c)
      /\ slab_link' = pop_front(m, non_full_slabs(c), p)
      /\ current_slabs' = [current_slabs EXCEPT ![c] = p]
      /\ allocated' = SetSlot(p, c) /\ live' = live \cup {SlotObject(p, c, s, al)}
      /\ occupy_space(SlotSize[c])
      /\ UNCHANGED <<idx_in_slab, call, slabs>>
      /\ UNCHANGED <<held, capacity, request>>
  BY DEF allocate_from_list, pageVars, vars
<1>2. /\ request = NoRequest
      /\ \A d \in AllocClasses : ~Stale(d) /\ Current(d) = current_slabs[d]
  BY <1>1, IdleFacts
<1>3. /\ Filed(m, SlabNode, SlabTarget, SlabList, SlabList \cup FirstEntries(NonFull), SlabClass)
      /\ HasCurrent(c) => FreeSlots(o, c) = {} /\ m.next[o] = NullSlab
      /\ \A x \in slabs : x[1] # o => m.next[x[1]] = slab_link.next[x[1]]
  BY <1>1, Retired
<1>4. /\ p \in Page /\ <<p, c>> \in NonFull
      /\ Filed(slab_link', SlabNode, SlabTarget, SlabList,
               SlabList \cup FirstEntries(NonFull \ {<<p, c>>}), SlabClass)
      /\ \A n \in Page : slab_link'.next[n] = m.next[n]
  <2>1. p = m.next[non_full_slabs(c)]
    BY DEF FirstNonFull
  <2> HIDE DEF p, m
  <2>2. /\ p \in Page /\ <<p, c>> \in NonFull
        /\ Filed(pop_front(m, non_full_slabs(c), p), SlabNode, SlabTarget, SlabList,
                 SlabList \cup FirstEntries(NonFull \ {<<p, c>>}), SlabClass)
    <3>1. Filed(m, SlabNode, SlabTarget, SlabList, SlabList \cup FirstEntries(NonFull), SlabClass)
      BY <1>3
    <3>2. p # non_full_slabs(c)
      BY <1>1
    <3> QED
      BY <2>1, <3>1, <3>2, Popped
  <2>3. \A n \in Page : pop_front(m, non_full_slabs(c), p).next[n] = m.next[n]
    <3>1. m \in Links(SlabNode, SlabTarget)
      BY <1>3 DEF Filed
    <3>2. non_full_slabs(c) \in SlabNode /\ \A n \in Page : n \in SlabNode /\ n # non_full_slabs(c)
      BY SlabNodes
    <3> QED
      BY <3>1, <3>2, PopFrontOutside
  <2> QED
    BY <1>1, <2>2, <2>3
<1>5. PICK z \in NonFull : z = <<p, c>>
  BY <1>4
<1>6. /\ z[1] = p /\ z[2] = c /\ z \in slabs /\ p # o /\ FreeSlots(p, c) # {}
      /\ \A x \in slabs : x[1] = p => x = z
  <2>1. z[1] = p /\ z[2] = c
    BY <1>5
  <2>2. z \in slabs /\ z[1] # Current(z[2]) /\ FreeSlots(z[1], z[2]) # {}
    BY DEF NonFull, IsFull
  <2>3. \A x \in slabs : x[1] = p => x = z
    BY <2>1, <2>2 DEF SlabInv, RunsSplit
  <2> QED
    BY <1>2, <2>1, <2>2, <2>3
<1>7. <<p, c>> \in slabs
  BY <1>5, <1>6
<1>8. PICK B \in SUBSET SpareBits(c) :
         /\ WordsFilled(c) => B = {}
         /\ SetSlot(p, c) = [allocated EXCEPT ![p] = @ \cup {s} \cup B]
  BY <1>6, <1>7, SlotTaken
<1>9. s \in Slots(c) /\ s \notin allocated[p] /\ al \in PageAligns
  BY <1>6, <1>7, SlotTaken, TwoPages
<1> HIDE DEF p, s, m
<1>10. allocated' = [allocated EXCEPT ![p] = @ \cup {s} \cup B]
  BY <1>1, <1>8
<1>11. /\ ObjectsPlaced' /\ RunsSplit' /\ BitsKept'
       /\ allocated' \in [Page -> SUBSET Nat] /\ IsFiniteSet(live)'
  BY <1>1, <1>4, <1>7, <1>8, <1>9, <1>10, TakeSlot
<1>12. /\ allocated'[p] # {}
       /\ \A x \in slabs : x # z => /\ x[1] # p /\ allocated'[x[1]] = allocated[x[1]]
                                    /\ FreeSlots(x[1], x[2])' = FreeSlots(x[1], x[2])
  <2>1. /\ allocated'[p] # {}
        /\ \A x \in slabs : x # <<p, c>> =>
              /\ x[1] # p /\ allocated'[x[1]] = allocated[x[1]]
              /\ FreeSlots(x[1], x[2])' = FreeSlots(x[1], x[2])
    BY <1>4, <1>7, <1>10, TakenBits
  <2> QED
    BY <1>5, <2>1
<1>13. /\ \A d \in AllocClasses : Current(d)' = IF d = c THEN p ELSE Current(d)
       /\ current_slabs' \in [AllocClasses -> Page \cup {NullSlab}]
  <2>1. current_slabs \in [AllocClasses -> Page \cup {NullSlab}]
    BY DEF SlabInv, SlabTypes
  <2>2. \A d \in AllocClasses : Current(d)' = current_slabs'[d]
    BY <1>1, IdleCall DEF Current, Stale
  <2> HIDE DEF o
  <2> QED
    BY <1>1, <1>2, <1>4, <2>1, <2>2
<1>14. \A x \in slabs : /\ x[2] \in AllocClasses /\ x[1] \in Page
                        /\ Current(x[2])' = IF x[2] = c THEN p ELSE Current(x[2])
  BY <1>13, SlabRunFacts
\* The old current slab is full.
<1>15. ASSUME NEW x \in slabs, x # z, x[1] = Current(x[2]), x[2] = c
       PROVE  IsFull(x) /\ allocated'[x[1]] # {} /\ x[1] = o /\ m.next[o] = NullSlab
  <2>1. x[1] = o /\ HasCurrent(c)
    BY <1>2, <1>14, <1>15, SlabNodes DEF HasCurrent
  <2>2. FreeSlots(x[1], x[2]) = {} /\ m.next[o] = NullSlab
    BY <1>3, <1>15, <2>1
  <2>3. allocated[x[1]] # {}
    <3>1. 0 \in Slots(c)
      BY SlabFacts DEF Slots
    <3> QED
      BY <1>15, <2>2, <3>1 DEF FreeSlots, Slots
  <2> QED
    BY <1>12, <1>15, <2>1, <2>2, <2>3 DEF IsFull
<1>16. occupied' \in 0 .. SizeModulus - 1
  BY <1>1, SlabFacts, OccupiedInRange
<1>17. SlabTypes'
  BY <1>1, <1>11, <1>13, <1>16 DEF SlabInv, SlabTypes
<1>18. SlabsNeeded'
  <2> SUFFICES ASSUME NEW x \in slabs
               PROVE  x[1] = Current(x[2])' \/ allocated'[x[1]] # {}
    BY <1>1 DEF SlabsNeeded
  <2>1. CASE x = z
    BY <1>6, <1>14, <2>1
  <2>2. CASE x # z
    <3>1. x[1] = Current(x[2]) \/ allocated'[x[1]] # {}
      BY <1>12, <2>2 DEF SlabInv, SlabsNeeded
    <3> QED
      BY <1>14, <1>15, <2>2, <3>1
  <2> QED
    BY <2>1, <2>2
<1>19. CurrentsOK'
  BY <1>1, <1>7, <1>13 DEF SlabInv, CurrentsOK
<1>20. NonFull' = NonFull \ {z}
  <2>1. ASSUME NEW x \in slabs, x # z
        PROVE  x[1] # Current(x[2])' /\ ~IsFull(x)' <=> x[1] # Current(x[2]) /\ ~IsFull(x)
    <3>1. IsFull(x)' <=> IsFull(x)
      BY <1>12, <2>1 DEF IsFull
    <3> QED
      BY <1>12, <1>14, <1>15, <2>1, <3>1
  <2>2. z[1] = Current(z[2])'
    BY <1>6, <1>14
  <2> QED
    BY <1>1, <2>1, <2>2 DEF NonFull
<1>21. SlabsFiled'
  <2>1. /\ \A x \in NonFull \ {z} : SlabClass[x[1]] = x[2]
        /\ \A n \in SlabList : SlabClass[n] = n[2]
    BY FiledFacts
  <2>2. ASSUME NEW x \in slabs', x[1] # Current(x[2])', FreeSlots(x[1], x[2])' = {}
        PROVE  slab_link'.next[x[1]] = NullSlab
    <3>1. x \in slabs /\ x # z /\ x[1] \in Page /\ IsFull(x)
      BY <1>1, <1>6, <1>12, <1>14, <2>2 DEF IsFull
    <3>2. slab_link'.next[x[1]] = m.next[x[1]]
      BY <1>4, <3>1
    <3>3. CASE x[1] = Current(x[2]) /\ x[2] = c
      BY <1>15, <3>1, <3>2, <3>3
    <3>4. CASE x[1] # Current(x[2])
      <4>1. slab_link.next[x[1]] = NullSlab
        BY <3>1, <3>4 DEF SlabInv, SlabsFiled
      <4>2. CASE x[1] # o
        BY <1>3, <3>1, <3>2, <4>1, <4>2
      <4>3. CASE x[1] = o
        <5>1. HasCurrent(c)
          BY <3>1, <4>3, SlabNodes DEF HasCurrent
        <5> QED
          BY <1>3, <3>2, <4>3, <5>1
      <4> QED
        BY <4>2, <4>3
    <3> QED
      BY <1>14, <2>2, <3>1, <3>3, <3>4
  <2>3. Filed(slab_link', SlabNode, SlabTarget, SlabList,
              SlabList \cup FirstEntries(NonFull \ {z}), SlabClass)
    BY <1>4, <1>5
  <2> QED
    BY <1>11, <1>17, <1>20, <2>1, <2>2, <2>3, Refiled
<1>22. CallOK' /\ CapacityOK'
  BY <1>1, <1>2, IdleCall, CapacityFine DEF SlabInv, CapacityOK
<1> QED
  BY <1>11, <1>17, <1>18, <1>19, <1>21, <1>22 DEF SlabInv
-----------------------------------------------------------------------------
(* Steps that take pages.                                                  *)

\* The run that has just been handed out is the only one new.
LEMMA OneNewRun ==
    ASSUME NEW e, NewRunOf(e)
    PROVE  held' \ held = {e}
  BY DEF NewRunOf

\* A request is served from the capacity that was checked before.
LEMMA RequestServed ==
    ASSUME IndInv, IndInv', SlabInv, allocate_page \/ allocate_page_fresh
    PROVE  capacity' >= 0
<1>1. request # NoRequest /\ (Accounted => capacity' = capacity - request.n)
  BY PagesTaken
<1>2. capacity \in Int /\ capacity >= 0 /\ (Accounted => request.n <= capacity)
  BY <1>1 DEF SlabInv, CapacityOK, IndInv, TypeOK
<1>3. request.n \in Int
  BY <1>1 DEF IndInv, RequestOK
<1>4. ~Accounted => capacity' = capacity
  BY DEF allocate_page, allocate_page_fresh, take_pages
<1> QED
  BY <1>1, <1>2, <1>3, <1>4

LEMMA FinishSmallKeeps == IndInv /\ IndInv' /\ SlabInv /\ finish_small => SlabInv'
<1> SUFFICES ASSUME IndInv, IndInv', SlabInv, finish_small
             PROVE  SlabInv'
  OBVIOUS
<1> DEFINE c == call.class
           al == call.align
<1>1. call.op \in {"small", "replace"} /\ call' = Idle /\ UNCHANGED large
      /\ (allocate_page \/ allocate_page_fresh)
  BY DEF finish_small
<1>2. /\ request # NoRequest /\ request' = NoRequest
      /\ Accounted => capacity' = capacity - request.n
      /\ \E e \in held' : NewRunOf(e) /\ e[3] = request.n
  BY <1>1, PagesTaken
<1>3. PICK e \in held' : NewRunOf(e) /\ e[3] = request.n
  BY <1>2
<1>4. /\ c \in AllocClasses /\ al \in SmallAligns(c) /\ al \in PageAligns
      /\ request.n = SlabNPages[c]
  <2>1. c \in AllocClasses /\ al \in SmallAligns(c) /\ request.n = CallNPages
    BY <1>1, <1>2 DEF SlabInv, CallOK
  <2> QED
    BY <1>1, <2>1, TwoPages DEF CallNPages
<1> DEFINE p == <<e[1], e[2]>>
<1>5. /\ allocated' = [allocated EXCEPT ![p] = {0}]
      /\ slab_link' = [slab_link EXCEPT !.next[p] = Garbage, !.prev[p] = Garbage]
      /\ idx_in_slab' = [q \in Page |-> IF q \in SlabEntries(p, c)
                                        THEN q[2] - p[2] ELSE idx_in_slab[q]]
      /\ current_slabs' = [current_slabs EXCEPT ![c] = p]
      /\ slabs' = slabs \cup {<<p, c>>}
      /\ live' = live \cup {SlotObject(p, c, 0, al)}
      /\ occupy_space(SlotSize[c])
  <2>1. held' \ held = {e}
    BY <1>3, OneNewRun
  <2>2. \E r \in held' \ held :
           /\ allocated' = [allocated EXCEPT ![<<r[1], r[2]>>] = {0}]
           /\ slab_link' = [slab_link EXCEPT !.next[<<r[1], r[2]>>] = Garbage,
                                             !.prev[<<r[1], r[2]>>] = Garbage]
           /\ idx_in_slab' = [q \in Page |-> IF q \in SlabEntries(<<r[1], r[2]>>, c)
                                             THEN q[2] - <<r[1], r[2]>>[2]
                                             ELSE idx_in_slab[q]]
           /\ current_slabs' = [current_slabs EXCEPT ![c] = <<r[1], r[2]>>]
           /\ slabs' = slabs \cup {<<<<r[1], r[2]>>, c>>}
           /\ live' = live \cup {SlotObject(<<r[1], r[2]>>, c, 0, al)}
           /\ occupy_space(SlotSize[c])
    BY DEF finish_small
  <2>3. PICK r \in held' \ held :
           /\ allocated' = [allocated EXCEPT ![<<r[1], r[2]>>] = {0}]
           /\ slab_link' = [slab_link EXCEPT !.next[<<r[1], r[2]>>] = Garbage,
                                             !.prev[<<r[1], r[2]>>] = Garbage]
           /\ idx_in_slab' = [q \in Page |-> IF q \in SlabEntries(<<r[1], r[2]>>, c)
                                             THEN q[2] - <<r[1], r[2]>>[2]
                                             ELSE idx_in_slab[q]]
           /\ current_slabs' = [current_slabs EXCEPT ![c] = <<r[1], r[2]>>]
           /\ slabs' = slabs \cup {<<<<r[1], r[2]>>, c>>}
           /\ live' = live \cup {SlotObject(<<r[1], r[2]>>, c, 0, al)}
           /\ occupy_space(SlotSize[c])
    BY <2>2
  <2>4. r = e
    BY <2>1
  <2> HIDE DEF c, al
  <2> QED
    BY <2>3, <2>4
<1> HIDE DEF c, al
<1>6. PICK q : q = p
  OBVIOUS
<1>7. /\ ObjectsPlaced' /\ RunsSplit' /\ BitsKept'
      /\ q \in Page /\ \A x \in slabs : x[1] # q
      /\ allocated' \in [Page -> SUBSET Nat] /\ idx_in_slab' \in [Page -> Nat]
      /\ IsFiniteSet(live)' /\ IsFiniteSet(slabs)'
  <2>1. q = <<e[1], e[2]>> /\ NewRunOf(e) /\ e[3] = SlabNPages[c]
    BY <1>3, <1>4, <1>6
  <2> HIDE DEF p
  <2>2. allocated' = [allocated EXCEPT ![q] = {0}]
    BY <1>5, <1>6
  <2>3. idx_in_slab' = [y \in Page |-> IF y \in SlabEntries(q, c)
                                       THEN y[2] - q[2] ELSE idx_in_slab[y]]
    BY <1>5, <1>6
  <2>4. slabs' = slabs \cup {<<q, c>>} /\ live' = live \cup {SlotObject(q, c, 0, al)}
    BY <1>5, <1>6
  <2>5. MakesSlab(q, c, al)
    BY <2>2, <2>3, <2>4 DEF MakesSlab
  <2> QED
    BY <1>4, <2>1, <2>5, NewSlab
<1> HIDE DEF p
<1>8. /\ current_slabs \in [AllocClasses -> Page \cup {NullSlab}]
      /\ allocated \in [Page -> SUBSET Nat] /\ slabs \subseteq Page \X AllocClasses
  BY DEF SlabInv, SlabTypes
<1>9. /\ \A d \in AllocClasses : Current(d)' = IF d = c THEN q ELSE Current(d)
      /\ current_slabs' \in [AllocClasses -> Page \cup {NullSlab}]
  <2>1. \A d \in AllocClasses : Current(d)' = current_slabs'[d]
    BY <1>1, IdleCall DEF Current, Stale
  <2>2. \A d \in AllocClasses : d # c => Current(d) = current_slabs[d]
    BY <1>1 DEF Current, Stale, c
  <2> QED
    BY <1>4, <1>5, <1>6, <1>7, <1>8, <2>1, <2>2
<1>10. PICK z : z = <<q, c>>
  OBVIOUS
<1>11. z[1] = q /\ z[2] = c /\ slabs' = slabs \cup {z} /\ z \notin slabs
  BY <1>5, <1>6, <1>7, <1>10
<1>12. \A x \in slabs : /\ x[2] \in AllocClasses /\ x[1] \in Page /\ x[1] # q
                        /\ Current(x[2])' = IF x[2] = c THEN q ELSE Current(x[2])
                        /\ allocated'[x[1]] = allocated[x[1]]
                        /\ FreeSlots(x[1], x[2])' = FreeSlots(x[1], x[2])
  <2>1. \A x \in slabs : x[2] \in AllocClasses /\ x[1] \in Page /\ x[1] # q
    BY <1>7, SlabRunFacts
  <2>2. \A x \in slabs : allocated'[x[1]] = allocated[x[1]]
    BY <1>5, <1>6, <1>8, <2>1
  <2>3. \A x \in slabs : FreeSlots(x[1], x[2])' = FreeSlots(x[1], x[2])
    BY <2>2 DEF FreeSlots
  <2>4. \A x \in slabs : Current(x[2])' = IF x[2] = c THEN q ELSE Current(x[2])
    BY <1>9, <2>1
  <2> QED
    BY <2>1, <2>2, <2>3, <2>4
\* The current slab that is superseded is full.
<1>13. ASSUME NEW x \in slabs, x[1] = Current(x[2]), x[2] = c
       PROVE  IsFull(x) /\ slab_link.next[x[1]] = NullSlab /\ allocated[x[1]] # {}
  <2>1. Current(c) # NullSlab
    BY <1>12, <1>13, SlabNodes
  <2>2. ~Stale(c) /\ Current(c) = current_slabs[c] /\ HasCurrent(c)
    BY <2>1 DEF Current, HasCurrent
  <2>3. call.op = "small"
    BY <1>1, <2>2 DEF Stale, c
  <2>4. FreeSlots(x[1], x[2]) = {} /\ slab_link.next[x[1]] = NullSlab
    BY <1>13, <2>2, <2>3 DEF SlabInv, CallOK, c
  <2>5. 0 \in Slots(c)
    BY <1>4, SlabFacts DEF Slots
  <2> QED
    BY <1>13, <2>4, <2>5 DEF IsFull, FreeSlots, Slots
<1>14. occupied' \in 0 .. SizeModulus - 1
  BY <1>4, <1>5, SlabFacts, OccupiedInRange
<1>15. SlabTypes'
  <2>1. slabs' \subseteq Page \X AllocClasses
    BY <1>4, <1>7, <1>8, <1>10, <1>11
  <2> QED
    BY <1>1, <1>7, <1>9, <1>14, <2>1, IdleCall DEF SlabTypes
<1>16. SlabsNeeded'
  <2> SUFFICES ASSUME NEW x \in slabs'
               PROVE  x[1] = Current(x[2])' \/ allocated'[x[1]] # {}
    BY DEF SlabsNeeded
  <2>1. CASE x = z
    BY <1>4, <1>9, <1>11, <2>1
  <2>2. CASE x \in slabs
    <3>1. x[1] = Current(x[2]) \/ allocated[x[1]] # {}
      BY <2>2 DEF SlabInv, SlabsNeeded
    <3> QED
      BY <1>12, <1>13, <2>2, <3>1
  <2> QED
    BY <1>11, <2>1, <2>2
<1>17. CurrentsOK'
  BY <1>9, <1>10, <1>11 DEF SlabInv, CurrentsOK
<1>18. NonFull' = NonFull
  <2>1. ASSUME NEW x \in slabs
        PROVE  x[1] # Current(x[2])' /\ ~IsFull(x)' <=> x[1] # Current(x[2]) /\ ~IsFull(x)
    <3>1. IsFull(x)' <=> IsFull(x)
      BY <1>12 DEF IsFull
    <3> QED
      BY <1>12, <1>13, <3>1
  <2>2. z[1] = Current(z[2])'
    BY <1>4, <1>9, <1>11
  <2> QED
    BY <1>11, <2>1, <2>2 DEF NonFull
<1>19. slab_link \in Links(SlabNode, SlabTarget) /\ q \in SlabNode
  BY <1>7, FiledFacts, SlabNodes DEF Filed
<1>20. /\ slab_link' \in Links(SlabNode, SlabTarget)
       /\ \A n \in SlabNode : n # q => /\ slab_link'.next[n] = slab_link.next[n]
                                       /\ slab_link'.prev[n] = slab_link.prev[n]
  <2>1. slab_link' = [slab_link EXCEPT !.next[q] = Garbage, !.prev[q] = Garbage]
    BY <1>5, <1>6
  <2>2. /\ slab_link'.next = [slab_link.next EXCEPT ![q] = Garbage]
        /\ slab_link'.prev = [slab_link.prev EXCEPT ![q] = Garbage]
        /\ slab_link' = [next |-> slab_link'.next, prev |-> slab_link'.prev]
    BY <1>19, <2>1 DEF Links
  <2>3. Garbage \in SlabTarget
    BY DEF SlabTarget
  <2> QED
    BY <1>19, <2>2, <2>3 DEF Links
<1>21. SlabsFiled'
  <2>1. /\ Filed(slab_link, SlabNode, SlabTarget, SlabList,
                 SlabList \cup FirstEntries(NonFull), SlabClass)
        /\ \A x \in NonFull : SlabClass[x[1]] = x[2]
        /\ \A n \in SlabList : SlabClass[n] = n[2]
        /\ SlabList \cup FirstEntries(NonFull) \in SUBSET SlabNode
    BY FiledFacts
  <2>2. q \notin SlabList \cup FirstEntries(NonFull)
    BY <1>7, <1>12, SlabNodes DEF FirstEntries, NonFull
  <2>3. Filed(slab_link', SlabNode, SlabTarget, SlabList,
              SlabList \cup FirstEntries(NonFull), SlabClass)
    <3>1. \A n \in SlabList \cup FirstEntries(NonFull) :
             slab_link'.next[n] = slab_link.next[n] /\ slab_link'.prev[n] = slab_link.prev[n]
      BY <1>20, <2>1, <2>2
    <3> QED
      BY <1>20, <2>1, <3>1, FiledOutside
  <2>4. ASSUME NEW x \in slabs', x[1] # Current(x[2])', FreeSlots(x[1], x[2])' = {}
        PROVE  slab_link'.next[x[1]] = NullSlab
    <3>1. x \in slabs
      BY <1>4, <1>9, <1>11, <2>4
    <3>2. slab_link'.next[x[1]] = slab_link.next[x[1]]
      BY <1>12, <1>20, <3>1, SlabNodes
    <3>3. IsFull(x)
      BY <1>12, <2>4, <3>1 DEF IsFull
    <3>4. CASE x[1] = Current(x[2])
      BY <1>12, <1>13, <2>4, <3>1, <3>2, <3>4
    <3>5. CASE x[1] # Current(x[2])
      BY <3>1, <3>2, <3>3, <3>5 DEF SlabInv, SlabsFiled
    <3> QED
      BY <3>4, <3>5
  <2> QED
    BY <1>7, <1>15, <1>18, <2>1, <2>3, <2>4, Refiled
<1>22. capacity' >= 0
  BY <1>1, RequestServed
<1>23. CallOK' /\ CapacityOK'
  BY <1>1, <1>2, <1>22, IdleCall, CapacityFine
<1> QED
  BY <1>7, <1>15, <1>16, <1>17, <1>21, <1>23 DEF SlabInv

LEMMA FinishMediumKeeps == IndInv /\ IndInv' /\ SlabInv /\ finish_medium => SlabInv'
<1> SUFFICES ASSUME IndInv, IndInv', SlabInv, finish_medium
             PROVE  SlabInv'
  OBVIOUS
<1>1. /\ call.op = "medium" /\ call' = Idle /\ (allocate_page \/ allocate_page_fresh)
      /\ UNCHANGED <<current_slabs, slab_link, allocated, idx_in_slab, slabs>>
  BY DEF finish_medium
<1>2. /\ request # NoRequest /\ request' = NoRequest
      /\ Accounted => capacity' = capacity - request.n
      /\ \E e \in held' : NewRunOf(e) /\ e[3] = request.n
  BY <1>1, PagesTaken
<1>3. PICK e \in held' : NewRunOf(e) /\ e[3] = request.n
  BY <1>2
<1>4. call.align \in PageAligns
  BY <1>1 DEF SlabInv, CallOK
<1>5. /\ live' = live \cup {MediumObject(e, call.align)}
      /\ occupy_space(e[3] * PageUnits)
  BY <1>3, OneNewRun DEF finish_medium, MediumObject
<1>6. ObjectsPlaced' /\ RunsSplit' /\ BitsKept' /\ IsFiniteSet(live)'
  BY <1>1, <1>3, <1>4, <1>5, NewMedium
<1>7. occupied' \in 0 .. SizeModulus - 1
  <2>1. e[3] \in Int
    BY <1>3 DEF NewRunOf, Run
  <2>2. e[3] * PageUnits \in Int
    BY <2>1, SlabFacts
  <2> QED
    BY <1>5, <2>2, OccupiedInRange
<1>8. SlabTypes'
  BY <1>1, <1>6, <1>7, IdleCall DEF SlabInv, SlabTypes
<1>9. \A c \in AllocClasses : Current(c)' = Current(c)
  BY <1>1, SameCurrent, IdleCall
<1>10. \A x \in slabs : Current(x[2])' = Current(x[2])
  BY <1>9, SlabRunFacts
<1>11. SlabsNeeded' /\ CurrentsOK'
  BY <1>1, <1>9, <1>10 DEF SlabInv, SlabsNeeded, CurrentsOK
<1>12. SlabsFiled'
  <2>1. NonFull' = NonFull /\ SlabClass' = SlabClass
    BY <1>1, <1>10 DEF NonFull, IsFull, FreeSlots, SlabClass, SlabOfPage
  <2> QED
    BY <1>1, <1>10, <2>1 DEF SlabInv, SlabsFiled, IsFull, FreeSlots
<1>13. capacity' >= 0
  BY <1>1, RequestServed
<1>14. CallOK' /\ CapacityOK'
  BY <1>1, <1>2, <1>13, IdleCall, CapacityFine
<1> QED
  BY <1>6, <1>8, <1>11, <1>12, <1>14 DEF SlabInv
-----------------------------------------------------------------------------
(* Steps that give pages or slots back.                                    *)

\* The contents of a slab are forgotten, and those of no other one.
LEMMA Forgotten ==
    ASSUME IndInv, SlabInv, NEW z \in slabs, ForgetSlab(z[1], z[2])
    PROVE  /\ slabs' = slabs \ {z}
           /\ allocated' \in [Page -> SUBSET Nat] /\ idx_in_slab' \in [Page -> Nat]
           /\ \A x \in slabs \ {z} :
                 /\ allocated'[x[1]] = allocated[x[1]]
                 /\ \A q \in SlabEntries(x[1], x[2]) : idx_in_slab'[q] = idx_in_slab[q]
<1>1. /\ allocated \in [Page -> SUBSET Nat] /\ idx_in_slab \in [Page -> Nat]
      /\ slabs \subseteq Page \X AllocClasses
  BY DEF SlabInv, SlabTypes
<1>2. allocated' = [x \in Page |-> IF x \in {z[1]} THEN {} ELSE allocated[x]]
  BY <1>1 DEF ForgetSlab, Assign
<1>3. idx_in_slab' = [x \in Page |-> IF x \in SlabEntries(z[1], z[2]) THEN 0 ELSE idx_in_slab[x]]
  BY <1>1 DEF ForgetSlab, Assign
<1>4. slabs' = slabs \ {z}
  <2>1. z = <<z[1], z[2]>>
    BY SlabRunFacts
  <2> QED
    BY <2>1 DEF ForgetSlab
<1>5. allocated' \in [Page -> SUBSET Nat] /\ idx_in_slab' \in [Page -> Nat]
  BY <1>1, <1>2, <1>3
<1>6. \A x \in slabs \ {z} : allocated'[x[1]] = allocated[x[1]]
  <2>1. \A x \in slabs \ {z} : x[1] \in Page /\ x[1] # z[1]
    BY <1>1 DEF SlabInv, RunsSplit
  <2> QED
    BY <1>2, <2>1
<1>7. ASSUME NEW x \in slabs \ {z}, NEW q \in SlabEntries(x[1], x[2])
      PROVE  idx_in_slab'[q] = idx_in_slab[q]
  <2>1. q \notin SlabEntries(z[1], z[2])
    BY EntriesApart
  <2>2. q \in Page
    <3>1. x[1] \in Page /\ x[2] \in AllocClasses /\ x[1][2] + SlabNPages[x[2]] <= DataNPages
      BY SlabRunFacts
    <3> QED
      BY <3>1, ClassFacts, SlabFacts DEF SlabEntries, Entries, Page, Data
  <2> QED
    BY <1>3, <2>1, <2>2
<1> QED
  BY <1>4, <1>5, <1>6, <1>7

\* A current slab goes: no list is concerned.
LEMMA CurrentGoes ==
    ASSUME IndInv, SlabInv, SlabTypes', RunsSplit', NEW z \in slabs, z[1] = Current(z[2]),
           slabs' = slabs \ {z}, slab_link' = slab_link,
           \A x \in slabs \ {z} : allocated'[x[1]] = allocated[x[1]],
           \A d \in AllocClasses : Current(d)' = IF d = z[2] THEN NullSlab ELSE Current(d)
    PROVE  SlabsNeeded' /\ CurrentsOK' /\ SlabsFiled'
<1>1. \A x \in slabs \ {z} : /\ x[1] # z[1] /\ x[2] \in AllocClasses /\ x[1] # NullSlab
                             /\ x[1] = Current(x[2])' <=> x[1] = Current(x[2])
  <2>1. \A x \in slabs \ {z} : x[1] # z[1] /\ x[2] \in AllocClasses /\ x[1] # NullSlab
    BY SlabRunFacts, SlabNodes DEF SlabInv, RunsSplit
  <2> QED
    BY <2>1
<1>2. \A x \in slabs \ {z} : FreeSlots(x[1], x[2])' = FreeSlots(x[1], x[2])
  BY DEF FreeSlots
<1>3. SlabsNeeded'
  BY <1>1 DEF SlabInv, SlabsNeeded
<1>4. CurrentsOK'
  <2> SUFFICES ASSUME NEW c \in AllocClasses, Current(c)' # NullSlab
               PROVE  <<Current(c)', c>> \in slabs'
    BY DEF CurrentsOK
  <2>1. c # z[2] /\ Current(c)' = Current(c) /\ <<Current(c), c>> \in slabs
    BY DEF SlabInv, CurrentsOK
  <2>2. <<Current(c), c>> # z
    BY <2>1
  <2> QED
    BY <2>1, <2>2
<1>5. NonFull' = NonFull
  BY <1>1, <1>2 DEF NonFull, IsFull
<1>6. SlabsFiled'
  <2>1. /\ Filed(slab_link, SlabNode, SlabTarget, SlabList,
                 SlabList \cup FirstEntries(NonFull), SlabClass)
        /\ \A x \in NonFull : SlabClass[x[1]] = x[2]
        /\ \A n \in SlabList : SlabClass[n] = n[2]
    BY FiledFacts
  <2>2. ASSUME NEW x \in slabs', x[1] # Current(x[2])', FreeSlots(x[1], x[2])' = {}
        PROVE  slab_link'.next[x[1]] = NullSlab
    BY <1>1, <1>2, <2>2 DEF SlabInv, SlabsFiled, IsFull
  <2> QED
    BY <1>5, <2>1, <2>2, Refiled
<1> QED
  BY <1>3, <1>4, <1>6

LEMMA ReplaceKeeps ==
    ASSUME IndInv, SlabInv, NEW c \in AllocClasses, NEW al \in SmallAligns(c),
           replace_misplaced(c, al)
    PROVE  SlabInv'
<1> DEFINE p == current_slabs[c]
           r == SlabRun(p, c)
<1>1. /\ call = Idle /\ HasCurrent(c) /\ FreeSlots(p, c) # {} /\ Misplaced(p, al)
      /\ call' = [op |-> "replace", class |-> c, align |-> al]
      /\ UNCHANGED <<current_slabs, slab_link, live, large>>
      /\ ForgetSlab(p, c)
  BY DEF replace_misplaced, CurrentHasSlot
<1>2. /\ request = NoRequest
      /\ \A d \in AllocClasses : ~Stale(d) /\ Current(d) = current_slabs[d]
  BY <1>1, IdleFacts
<1>3. p \in Page /\ <<p, c>> \in slabs /\ r \in held
  BY <1>1, <1>2, CurrentFacts
<1>4. SlabNPages[c] = 2 /\ NSlots[c] = 1 /\ al \in PageAligns /\ r = <<p[1], p[2], 2>>
  <2>1. al > 1
    BY <1>1 DEF Misplaced
  <2> QED
    BY <2>1, TwoPages DEF SlabRun
<1>5. FreePagesOf(r) /\ reclaim_space(ReclaimedNPages(r) * PageUnits)
  BY <1>4 DEF replace_misplaced
<1>6. PICK z \in slabs : z = <<p, c>>
  BY <1>3
<1>7. z[1] = p /\ z[2] = c
  BY <1>6
<1> HIDE DEF p, r
<1>8. /\ held' = held \ {r} /\ request' = NoRequest
      /\ ReclaimedNPages(r) * PageUnits \in Int /\ capacity' \in Int
      /\ Accounted => capacity' >= capacity + r[3]
      /\ ~Accounted => capacity' = capacity
  BY <1>2, <1>3, <1>5, GivenBack
<1>9. /\ slabs' = slabs \ {z}
      /\ allocated' \in [Page -> SUBSET Nat] /\ idx_in_slab' \in [Page -> Nat]
      /\ \A x \in slabs \ {z} :
            /\ allocated'[x[1]] = allocated[x[1]]
            /\ \A q \in SlabEntries(x[1], x[2]) : idx_in_slab'[q] = idx_in_slab[q]
  BY <1>1, <1>7, Forgotten
\* Its only slot is free.
<1>10. ASSUME NEW o \in live, o[4] # Medium
       PROVE  SlabOf(o) # z[1]
  <2> SUFFICES ASSUME SlabOf(o) = p
               PROVE  FALSE
    BY <1>7
  <2>1. /\ <<SlabOf(o), o[4]>> \in slabs
        /\ SlotOf(o) \in Slots(o[4]) /\ SlotOf(o) \in allocated[SlabOf(o)]
    BY <1>10, SmallObject
  <2>2. PICK y \in slabs : y = <<SlabOf(o), o[4]>>
    BY <2>1
  <2>3. y = z
    BY <1>7, <2>2 DEF SlabInv, RunsSplit
  <2>4. o[4] = c
    BY <1>7, <2>2, <2>3
  <2>5. 0 \in allocated[p]
    BY <1>4, <2>1, <2>4 DEF Slots
  <2> QED
    BY <1>1, <1>4, <2>5 DEF FreeSlots, p
<1>11. ObjectsPlaced' /\ RunsSplit' /\ BitsKept' /\ IsFiniteSet(live)' /\ IsFiniteSet(slabs)'
  <2>1. held' = held \ {SlabRun(z[1], z[2])}
    BY <1>7, <1>8 DEF r
  <2>2. PICK L \in SUBSET live : L = {}
    OBVIOUS
  <2>3. live' = live \ L
    BY <1>1, <2>2
  <2> QED
    BY <1>9, <1>10, <2>1, <2>2, <2>3, ReturnSlab
<1>12. occupied' \in 0 .. SizeModulus - 1
  BY <1>5, <1>8, OccupiedInRange
<1>13. call' \in Call /\ call'.op = "replace" /\ call'.class = c /\ call'.align = al
  BY <1>1, <1>4, SlabFacts DEF Call
<1>14. SlabTypes'
  <2>1. /\ slabs' \subseteq Page \X AllocClasses
        /\ current_slabs' \in [AllocClasses -> Page \cup {NullSlab}]
    BY <1>1, <1>9 DEF SlabInv, SlabTypes
  <2> QED
    BY <1>9, <1>11, <1>12, <1>13, <2>1 DEF SlabTypes
<1>15. \A d \in AllocClasses : Current(d)' = IF d = z[2] THEN NullSlab ELSE Current(d)
  BY <1>1, <1>2, <1>7, <1>13 DEF Current, Stale
<1>16. SlabsNeeded' /\ CurrentsOK' /\ SlabsFiled'
  <2>1. z[1] = Current(z[2])
    BY <1>2, <1>7 DEF p
  <2> QED
    BY <1>1, <1>9, <1>11, <1>14, <1>15, <2>1, CurrentGoes
<1>17. CallOK'
  BY <1>8, <1>13 DEF CallOK
<1>18. CapacityOK'
  <2>1. capacity \in Int /\ capacity >= 0 /\ r[3] = 2
    BY <1>4 DEF SlabInv, CapacityOK, IndInv, TypeOK
  <2>2. CallNPages' = 2
    BY <1>4, <1>13 DEF CallNPages
  <2> QED
    BY <1>8, <2>1, <2>2 DEF CapacityOK
<1> QED
  BY <1>11, <1>14, <1>16, <1>17, <1>18 DEF SlabInv

LEMMA DestroyClassKeeps == IndInv /\ SlabInv /\ destroy_class => SlabInv'
<1> SUFFICES ASSUME IndInv, SlabInv, destroy_class
             PROVE  SlabInv'
  OBVIOUS
<1> DEFINE c == call.class
           p == current_slabs[c]
           r == SlabRun(p, c)
<1>1. /\ call.op = "destroy" /\ c < NAllocClasses /\ call' = [call EXCEPT !.class = @ + 1]
      /\ UNCHANGED <<current_slabs, slab_link, allocated, idx_in_slab, live, large>>
  BY DEF destroy_class
<1>2. c \in AllocClasses /\ c \in Nat /\ call \in Call /\ NAllocClasses \in Nat
  <2>1. c \in Nat /\ call \in Call
    BY DEF SlabInv, SlabTypes, Call
  <2> QED
    BY <1>1, <2>1, SlabAssumption DEF AllocClasses
<1>3. live = {} /\ request = NoRequest
  BY <1>1 DEF SlabInv, CallOK
<1>4. call' \in Call /\ call'.op = "destroy" /\ call'.class = c + 1
  BY <1>1, <1>2 DEF Call
<1>5. c + 1 <= NAllocClasses
  BY <1>1, <1>2
<1> HIDE DEF c
<1>6. \A d \in AllocClasses : Current(d)' = IF d = c THEN NullSlab ELSE Current(d)
  <2>1. \A d \in AllocClasses : d \in Int
    BY SlabFacts
  <2>2. \A d \in AllocClasses : Stale(d) <=> d < c
    BY <1>1 DEF Stale, c
  <2>3. \A d \in AllocClasses : Stale(d)' <=> d < c + 1
    BY <1>4 DEF Stale
  <2>4. \A d \in AllocClasses : d < c + 1 <=> d < c \/ d = c
    BY <1>2, <2>1
  <2> QED
    BY <1>1, <2>2, <2>3, <2>4 DEF Current
<1>7. CASE ~HasCurrent(c)
  <2>1. UNCHANGED <<slabs, occupied>> /\ UNCHANGED vars
    BY <1>7 DEF destroy_class, pageVars, c
  <2>2. UNCHANGED <<held, capacity, request>>
    BY <2>1 DEF vars
  <2>3. \A d \in AllocClasses : Current(d)' = Current(d)
    <3>1. Current(c) = NullSlab
      BY <1>7 DEF Current, HasCurrent
    <3> QED
      BY <1>6, <3>1
  <2>4. CallOK'
    BY <1>1, <1>3, <1>4, <1>5, <2>2 DEF CallOK
  <2>5. CapacityOK'
    BY <1>3, <1>4, <2>2, CapacityFine DEF SlabInv, CapacityOK
  <2> QED
    BY <1>1, <1>4, <2>1, <2>2, <2>3, <2>4, <2>5, QuietStep DEF SlabInv, SlabTypes
<1>8. CASE HasCurrent(c)
  <2>1. /\ FreePagesOf(r) /\ reclaim_space(ReclaimedNPages(r) * PageUnits)
        /\ slabs' = slabs \ {<<p, c>>}
    BY <1>8 DEF destroy_class, c
  <2>2. ~Stale(c)
    BY <1>1, <1>2 DEF Stale, c
  <2>3. p \in Page /\ <<p, c>> \in slabs /\ r \in held /\ Current(c) = p
    BY <1>2, <1>8, <2>2, CurrentFacts
  <2>4. PICK z \in slabs : z = <<p, c>>
    BY <2>3
  <2>5. z[1] = p /\ z[2] = c /\ slabs' = slabs \ {z}
    BY <2>1, <2>4
  <2> HIDE DEF p, r
  <2>6. /\ held' = held \ {r} /\ request' = NoRequest
        /\ ReclaimedNPages(r) * PageUnits \in Int /\ capacity' \in Int
        /\ r[3] \in Int /\ 1 <= r[3]
        /\ Accounted => capacity' >= capacity + r[3]
        /\ ~Accounted => capacity' = capacity
    BY <1>3, <2>1, <2>3, GivenBack
  <2>7. ObjectsPlaced' /\ RunsSplit' /\ BitsKept' /\ IsFiniteSet(live)' /\ IsFiniteSet(slabs)'
    <3>1. held' = held \ {SlabRun(z[1], z[2])}
      BY <2>5, <2>6 DEF r
    <3>2. PICK L \in SUBSET live : L = {}
      OBVIOUS
    <3>3. live' = live \ L
      BY <1>1, <3>2
    <3> QED
      BY <1>1, <1>3, <2>5, <3>1, <3>2, <3>3, ReturnSlab
  <2>8. occupied' \in 0 .. SizeModulus - 1
    BY <2>1, <2>6, OccupiedInRange
  <2>9. SlabTypes'
    BY <1>1, <1>4, <2>5, <2>7, <2>8 DEF SlabInv, SlabTypes
  <2>10. SlabsNeeded' /\ CurrentsOK' /\ SlabsFiled'
    BY <1>1, <1>6, <2>3, <2>5, <2>7, <2>9, CurrentGoes
  <2>11. CallOK'
    BY <1>1, <1>3, <1>4, <1>5, <2>6 DEF CallOK
  <2>12. capacity' >= 0
    <3>1. capacity \in Int /\ capacity >= 0
      BY DEF SlabInv, CapacityOK, IndInv, TypeOK
    <3> QED
      BY <2>6, <3>1
  <2>13. CapacityOK'
    BY <1>4, <2>6, <2>12, CapacityFine
  <2> QED
    BY <2>7, <2>9, <2>10, <2>11, <2>13 DEF SlabInv
<1> QED
  BY <1>7, <1>8

LEMMA DeallocateMediumKeeps ==
    ASSUME IndInv, SlabInv, NEW o \in live, deallocate(o), o[4] = Medium
    PROVE  SlabInv'
<1> DEFINE r == MediumRun(o)
<1>1. /\ call = Idle /\ call' = call /\ live' = live \ {o} /\ FreePagesOf(r)
      /\ reclaim_space(o[3] + ReclaimedNPages(r) * PageUnits)
      /\ UNCHANGED <<current_slabs, slab_link, allocated, idx_in_slab, slabs>>
  BY DEF deallocate, deallocate_medium
<1>2. r \in held /\ o[3] \in Int
  <2>1. r \in held
    BY MediumOf
  <2>2. o[3] \in Int
    BY ObjectRun DEF InRun
  <2> QED
    BY <2>1, <2>2
<1>3. request = NoRequest
  BY <1>1, IdleFacts
<1>4. /\ held' = held \ {r} /\ request' = NoRequest
      /\ ReclaimedNPages(r) * PageUnits \in Int /\ capacity' \in Int
      /\ r[3] \in Int /\ 1 <= r[3]
      /\ Accounted => capacity' >= capacity + r[3]
      /\ ~Accounted => capacity' = capacity
  BY <1>1, <1>2, <1>3, GivenBack
<1>5. ObjectsPlaced' /\ RunsSplit' /\ BitsKept' /\ IsFiniteSet(live)'
  BY <1>1, <1>4, ReturnMedium
<1>6. occupied' \in 0 .. SizeModulus - 1
  <2>1. o[3] + ReclaimedNPages(r) * PageUnits \in Int
    BY <1>2, <1>4
  <2> QED
    BY <1>1, <2>1, OccupiedInRange
<1>7. SlabTypes'
  BY <1>1, <1>5, <1>6 DEF SlabInv, SlabTypes
<1>8. \A c \in AllocClasses : Current(c)' = Current(c)
  BY <1>1, SameCurrent, IdleCall
<1>9. \A x \in slabs : Current(x[2])' = Current(x[2])
  BY <1>8, SlabRunFacts
<1>10. SlabsNeeded' /\ CurrentsOK'
  BY <1>1, <1>8, <1>9 DEF SlabInv, SlabsNeeded, CurrentsOK
<1>11. SlabsFiled'
  <2>1. NonFull' = NonFull /\ SlabClass' = SlabClass
    BY <1>1, <1>9 DEF NonFull, IsFull, FreeSlots, SlabClass, SlabOfPage
  <2> QED
    BY <1>1, <1>9, <2>1 DEF SlabInv, SlabsFiled, IsFull, FreeSlots
<1>12. capacity' >= 0
  <2>1. capacity \in Int /\ capacity >= 0
    BY DEF SlabInv, CapacityOK, IndInv, TypeOK
  <2> QED
    BY <1>4, <2>1
<1>13. CallOK' /\ CapacityOK'
  BY <1>1, <1>4, <1>12, IdleCall, CapacityFine
<1> QED
  BY <1>5, <1>7, <1>10, <1>11, <1>13 DEF SlabInv

\* A slot is given back and the slab stays.
LEMMA DeallocateSmallKeeps ==
    ASSUME IndInv, SlabInv, NEW o \in live, o[4] # Medium, call = Idle, call' = call,
           live' = live \ {o}, deallocate_small(o)
    PROVE  SlabInv'
<1>0. PICK p, s : p = SlabOf(o) /\ s = SlotOf(o)
  OBVIOUS
<1> DEFINE c == o[4]
           S == SlabList \cup FirstEntries(NonFull)
<1>1. /\ p = current_slabs[c] \/ BitsWithout(o) # {}
      /\ allocated' = [allocated EXCEPT ![p] = BitsWithout(o)]
      /\ slab_link' = IF p # current_slabs[c] /\ slab_link.next[p] = NullSlab
                      THEN insert_prev(slab_link, non_full_slabs(c), p) ELSE slab_link
      /\ reclaim_space(SlotSize[c])
      /\ UNCHANGED <<current_slabs, idx_in_slab, slabs>>
      /\ UNCHANGED <<held, capacity, request>>
  BY <1>0 DEF deallocate_small, Emptied, pageVars, vars
<1>2. /\ request = NoRequest
      /\ \A d \in AllocClasses : ~Stale(d) /\ Current(d) = current_slabs[d]
  BY IdleFacts
<1>3. c \in AllocClasses /\ <<p, c>> \in slabs /\ s \in Slots(c) /\ s \in allocated[p]
  BY <1>0, SmallObject
<1>4. PICK z \in slabs : z = <<p, c>>
  BY <1>3
<1>5. /\ z[1] = p /\ z[2] = c /\ p \in Page
      /\ \A x \in slabs : x # z => x[1] # p
  <2>1. z[1] = p /\ z[2] = c
    BY <1>4
  <2> QED
    BY <2>1, SlabRunFacts DEF SlabInv, RunsSplit
<1>6. BitsWithout(o) = allocated[p] \ {s}
  BY <1>0, <1>3 DEF BitsWithout, Flip
<1>7. /\ ObjectsPlaced' /\ RunsSplit' /\ BitsKept'
      /\ allocated' \in [Page -> SUBSET Nat] /\ IsFiniteSet(live)'
  BY <1>0, <1>1, ReturnSlot
<1> HIDE DEF c
<1>8. /\ allocated'[p] = BitsWithout(o)
      /\ \A x \in slabs : x # z => allocated'[x[1]] = allocated[x[1]]
  <2>1. allocated \in [Page -> SUBSET Nat] /\ \A x \in slabs : x[1] \in Page
    BY SlabRunFacts DEF SlabInv, SlabTypes
  <2> QED
    BY <1>1, <1>5, <2>1
<1>9. \A x \in slabs : x # z => FreeSlots(x[1], x[2])' = FreeSlots(x[1], x[2])
  BY <1>8 DEF FreeSlots
<1>10. ~IsFull(z)'
  <2>1. s \in Slots(c) /\ s \notin allocated'[p]
    BY <1>3, <1>6, <1>8
  <2>2. FreeSlots(z[1], z[2])' = (0 .. NSlots[c] - 1) \ allocated'[p]
    BY <1>5 DEF FreeSlots
  <2> QED
    BY <2>1, <2>2 DEF IsFull, Slots
<1>11. /\ \A d \in AllocClasses : Current(d)' = Current(d)
       /\ \A x \in slabs : Current(x[2])' = Current(x[2]) /\ Current(x[2]) = current_slabs[x[2]]
  <2>1. \A d \in AllocClasses : Current(d)' = Current(d)
    BY <1>1, SameCurrent, IdleCall
  <2> QED
    BY <1>2, <2>1, SlabRunFacts
<1>12. occupied' \in 0 .. SizeModulus - 1
  BY <1>1, <1>3, SlabFacts, OccupiedInRange
<1>13. SlabTypes'
  BY <1>1, <1>7, <1>12 DEF SlabInv, SlabTypes
<1>14. SlabsNeeded'
  <2> SUFFICES ASSUME NEW x \in slabs
               PROVE  x[1] = Current(x[2])' \/ allocated'[x[1]] # {}
    BY <1>1 DEF SlabsNeeded
  <2>1. CASE x = z
    BY <1>1, <1>5, <1>8, <1>11, <2>1
  <2>2. CASE x # z
    BY <1>8, <1>11, <2>2 DEF SlabInv, SlabsNeeded
  <2> QED
    BY <2>1, <2>2
<1>15. CurrentsOK'
  BY <1>1, <1>11 DEF SlabInv, CurrentsOK
<1>16. /\ Filed(slab_link, SlabNode, SlabTarget, SlabList, S, SlabClass)
       /\ S \in SUBSET SlabNode /\ SlabList \in SUBSET S
       /\ \A x \in slabs : SlabClass[x[1]] = x[2]
       /\ \A n \in SlabList : SlabClass[n] = n[2]
       /\ \A x \in slabs : x[1] \in Page /\ x[1] \in SlabNode /\ x[1] \notin SlabList
       /\ \A x \in slabs : x[1] \in FirstEntries(NonFull) <=> x \in NonFull
       /\ \A x \in slabs : x[1] # Current(x[2]) =>
             (IsFull(x) <=> slab_link.next[x[1]] = NullSlab)
  BY FiledFacts
<1>17. \A x \in slabs : x # z => /\ x \in NonFull' <=> x \in NonFull
                                 /\ IsFull(x)' <=> IsFull(x)
  BY <1>1, <1>9, <1>11 DEF NonFull, IsFull
<1>18. z \in NonFull' <=> p # current_slabs[c]
  BY <1>1, <1>5, <1>10, <1>11 DEF NonFull
<1>19. NonFull' \subseteq slabs /\ NonFull \subseteq slabs
  BY <1>1 DEF NonFull
\* A slab that was full goes to the end of its list, any other one stays where it is.
<1>20. CASE p # current_slabs[c] /\ slab_link.next[p] = NullSlab
  <2>1. slab_link' = insert_prev(slab_link, non_full_slabs(c), p)
    BY <1>1, <1>20
  <2>2. IsFull(z) /\ z \notin NonFull
    BY <1>5, <1>11, <1>16, <1>20 DEF NonFull
  <2>3. NonFull' = NonFull \cup {z}
    BY <1>17, <1>18, <1>19, <1>20
  <2>4. /\ p \in SlabNode \ S /\ non_full_slabs(c) \in SlabList
        /\ SlabClass[p] = SlabClass[non_full_slabs(c)]
    <3>1. p \in SlabNode /\ p \notin S /\ SlabClass[p] = c
      BY <1>5, <1>16, <2>2
    <3>2. non_full_slabs(c) \in SlabList /\ non_full_slabs(c)[2] = c
      BY <1>3, SlabNodes
    <3> QED
      BY <1>16, <3>1, <3>2
  <2> HIDE DEF S
  <2>11. SlabNode \subseteq SlabTarget
    BY SlabNodes
  <2>5. Filed(slab_link', SlabNode, SlabTarget, SlabList, S \cup {p}, SlabClass)
    <3>1. Filed(insert_prev(slab_link, non_full_slabs(c), p), SlabNode, SlabTarget, SlabList,
                S \cup {p}, SlabClass)
      BY <1>16, <2>4, <2>11, InsertPrevFiled
    <3> QED
      BY <2>1, <3>1
  <2>12. ASSUME NEW y \in SlabNode \ (S \cup {p})
         PROVE  slab_link'.next[y] = slab_link.next[y]
    <3>1. insert_prev(slab_link, non_full_slabs(c), p).next[y] = slab_link.next[y]
      BY <1>16, <2>4, InsertPrevOutside
    <3> QED
      BY <2>1, <3>1
  <2>6. S \cup {p} = SlabList \cup FirstEntries(NonFull \cup {z})
    BY <1>5 DEF FirstEntries, S
  <2>7. ASSUME NEW x \in slabs', x[1] # Current(x[2])', FreeSlots(x[1], x[2])' = {}
        PROVE  slab_link'.next[x[1]] = NullSlab
    <3>1. x \in slabs /\ x # z /\ x[1] # p /\ IsFull(x) /\ x[1] # Current(x[2])
      BY <1>1, <1>5, <1>9, <1>10, <1>11, <2>7 DEF IsFull
    <3>2. x[1] \in SlabNode \ (S \cup {p})
      BY <1>16, <3>1 DEF NonFull, S
    <3> QED
      BY <1>16, <2>12, <3>1, <3>2
  <2>8. \A x \in NonFull \cup {z} : SlabClass[x[1]] = x[2]
    BY <1>16, <1>19
  <2>9. Filed(slab_link', SlabNode, SlabTarget, SlabList,
              SlabList \cup FirstEntries(NonFull \cup {z}), SlabClass)
    BY <2>5, <2>6
  <2>10. SlabsFiled'
    <3>1. PICK X : X = NonFull \cup {z}
      OBVIOUS
    <3>2. X = NonFull' /\ \A x \in X : SlabClass[x[1]] = x[2]
      BY <2>3, <2>8, <3>1
    <3>3. Filed(slab_link', SlabNode, SlabTarget, SlabList,
                SlabList \cup FirstEntries(X), SlabClass)
      BY <2>9, <3>1
    <3>4. PICK C : C = SlabClass
      OBVIOUS
    <3>5. \A n \in SlabList : C[n] = n[2]
      BY <1>16, <3>4
    <3>6. \A x \in slabs' : x[1] # Current(x[2])' /\ FreeSlots(x[1], x[2])' = {} =>
              slab_link'.next[x[1]] = NullSlab
      BY <2>7
    <3> QED
      BY <1>7, <1>13, <3>2, <3>3, <3>4, <3>5, <3>6, Refiled
  <2> QED
    BY <1>1, <1>2, <1>7, <1>13, <1>14, <1>15, <2>10, IdleCall, CapacityFine
    DEF SlabInv, CapacityOK
<1>21. CASE ~(p # current_slabs[c] /\ slab_link.next[p] = NullSlab)
  <2>1. slab_link' = slab_link
    BY <1>1, <1>21
  <2>2. z \in NonFull <=> p # current_slabs[c]
    BY <1>5, <1>11, <1>16, <1>21 DEF NonFull
  <2>3. NonFull' = NonFull
    BY <1>17, <1>18, <1>19, <2>2
  <2>4. ASSUME NEW x \in slabs', x[1] # Current(x[2])', FreeSlots(x[1], x[2])' = {}
        PROVE  slab_link'.next[x[1]] = NullSlab
    <3>1. x \in slabs /\ x # z /\ IsFull(x) /\ x[1] # Current(x[2])
      BY <1>1, <1>5, <1>9, <1>10, <1>11, <2>4 DEF IsFull
    <3> QED
      BY <1>16, <2>1, <3>1
  <2>5. SlabsFiled'
    <3>1. PICK X, C : X = NonFull /\ C = SlabClass
      OBVIOUS
    <3>2. X = NonFull' /\ \A x \in X : C[x[1]] = x[2]
      BY <1>16, <1>19, <2>3, <3>1
    <3>3. Filed(slab_link', SlabNode, SlabTarget, SlabList, SlabList \cup FirstEntries(X), C)
      BY <1>16, <2>1, <3>1
    <3>4. \A n \in SlabList : C[n] = n[2]
      BY <1>16, <3>1
    <3>5. \A x \in slabs' : x[1] # Current(x[2])' /\ FreeSlots(x[1], x[2])' = {} =>
              slab_link'.next[x[1]] = NullSlab
      BY <2>4
    <3> QED
      BY <1>7, <1>13, <3>2, <3>3, <3>4, <3>5, Refiled
  <2> QED
    BY <1>1, <1>2, <1>7, <1>13, <1>14, <1>15, <2>5, IdleCall, CapacityFine
    DEF SlabInv, CapacityOK
<1> QED
  BY <1>20, <1>21

\* The last slot of a slab is given back, and its pages with it.
LEMMA DeallocateSmallLastKeeps ==
    ASSUME IndInv, SlabInv, NEW o \in live, o[4] # Medium, call = Idle, call' = call,
           live' = live \ {o}, deallocate_small_last(o)
    PROVE  SlabInv'
<1>0. PICK p, s : p = SlabOf(o) /\ s = SlotOf(o)
  OBVIOUS
<1> DEFINE c == o[4]
           r == SlabRun(p, c)
           S == SlabList \cup FirstEntries(NonFull)
           unlinked == IF slab_link.next[p] # NullSlab
                       THEN remove_from_list(slab_link, p) ELSE slab_link
<1>1. /\ p # current_slabs[c] /\ BitsWithout(o) = {}
      /\ slab_link' = [next |-> Assign(unlinked.next, {p}, Garbage),
                       prev |-> Assign(unlinked.prev, {p}, Garbage)]
      /\ FreePagesOf(r)
      /\ reclaim_space(SlotSize[c] + ReclaimedNPages(r) * PageUnits)
      /\ ForgetSlab(p, c)
      /\ current_slabs' = current_slabs
  BY <1>0 DEF deallocate_small_last, Emptied
<1>2. /\ request = NoRequest
      /\ \A d \in AllocClasses : ~Stale(d) /\ Current(d) = current_slabs[d]
  BY IdleFacts
<1>3. c \in AllocClasses /\ <<p, c>> \in slabs /\ s \in Slots(c) /\ s \in allocated[p]
  BY <1>0, SmallObject
<1>4. PICK z \in slabs : z = <<p, c>>
  BY <1>3
<1>5. /\ z[1] = p /\ z[2] = c /\ p \in Page /\ r \in held
      /\ \A x \in slabs : x # z => x[1] # p
  <2>1. z[1] = p /\ z[2] = c
    BY <1>4
  <2> QED
    BY <2>1, SlabRunFacts DEF SlabInv, RunsSplit
<1>6. allocated[p] = {s}
  BY <1>0, <1>1, <1>3 DEF BitsWithout, Flip
<1> HIDE DEF c, r, unlinked
<1>7. /\ held' = held \ {r} /\ request' = NoRequest
      /\ ReclaimedNPages(r) * PageUnits \in Int /\ capacity' \in Int
      /\ r[3] \in Int /\ 1 <= r[3]
      /\ Accounted => capacity' >= capacity + r[3]
      /\ ~Accounted => capacity' = capacity
  BY <1>1, <1>2, <1>5, GivenBack
<1>8. /\ slabs' = slabs \ {z}
      /\ allocated' \in [Page -> SUBSET Nat] /\ idx_in_slab' \in [Page -> Nat]
      /\ \A x \in slabs \ {z} :
            /\ allocated'[x[1]] = allocated[x[1]]
            /\ \A q \in SlabEntries(x[1], x[2]) : idx_in_slab'[q] = idx_in_slab[q]
  BY <1>1, <1>5, Forgotten
\* No other object is in the slab.
<1>9. ASSUME NEW q \in live, q[4] # Medium, SlabOf(q) = p
      PROVE  q = o
  <2>1. /\ <<p, q[4]>> \in slabs /\ SlotOf(q) \in allocated[p]
        /\ \E al \in PageAligns : q = SlotObject(p, q[4], SlotOf(q), al)
    BY <1>9, SmallObject
  <2>2. PICK y \in slabs : y = <<p, q[4]>>
    BY <2>1
  <2>3. y = z
    BY <1>5, <2>2
  <2>4. q[4] = c /\ SlotOf(q) = s
    BY <1>5, <1>6, <2>1, <2>2, <2>3
  <2>5. PICK al \in PageAligns : q = SlotObject(p, c, s, al)
    BY <2>1, <2>4
  <2>6. PICK am \in PageAligns : o = SlotObject(p, c, s, am)
    BY <1>0, SmallObject DEF c
  <2>7. q[1] = o[1] /\ q[2] = o[2]
    BY <2>5, <2>6 DEF SlotObject, Object
  <2> QED
    BY <2>7 DEF SlabInv, ObjectsPlaced
<1>10. ObjectsPlaced' /\ RunsSplit' /\ BitsKept' /\ IsFiniteSet(live)' /\ IsFiniteSet(slabs)'
  <2>1. held' = held \ {SlabRun(z[1], z[2])}
    BY <1>5, <1>7 DEF r
  <2>2. PICK L \in SUBSET live : L = {o}
    OBVIOUS
  <2>3. live' = live \ L
    BY <2>2
  <2>4. \A q \in L : q[4] # Medium /\ SlabOf(q) = z[1]
    BY <1>0, <1>5, <2>2
  <2>5. \A q \in live \ L : q[4] # Medium => SlabOf(q) # z[1]
    BY <1>5, <1>9, <2>2
  <2> QED
    BY <1>8, <2>1, <2>3, <2>4, <2>5, ReturnSlab
<1>11. occupied' \in 0 .. SizeModulus - 1
  <2>1. SlotSize[c] \in Int
    BY <1>3, SlabFacts
  <2>2. SlotSize[c] + ReclaimedNPages(r) * PageUnits \in Int
    BY <1>7, <2>1
  <2> QED
    BY <1>1, <2>2, OccupiedInRange
<1>12. SlabTypes'
  <2>1. /\ slabs' \subseteq Page \X AllocClasses
        /\ current_slabs' \in [AllocClasses -> Page \cup {NullSlab}]
        /\ call' \in Call
    BY <1>1, <1>8 DEF SlabInv, SlabTypes
  <2> QED
    BY <1>8, <1>10, <1>11, <2>1 DEF SlabTypes
<1>13. /\ \A d \in AllocClasses : Current(d)' = Current(d)
       /\ \A x \in slabs : /\ Current(x[2])' = Current(x[2])
                           /\ Current(x[2]) = current_slabs[x[2]]
  <2>1. \A d \in AllocClasses : Current(d)' = Current(d)
    BY <1>1, SameCurrent, IdleCall
  <2> QED
    BY <1>2, <2>1, SlabRunFacts
<1>14. \A x \in slabs \ {z} : FreeSlots(x[1], x[2])' = FreeSlots(x[1], x[2])
  BY <1>8 DEF FreeSlots
<1>15. SlabsNeeded'
  BY <1>8, <1>13 DEF SlabInv, SlabsNeeded
<1>16. CurrentsOK'
  <2> SUFFICES ASSUME NEW d \in AllocClasses, Current(d)' # NullSlab
               PROVE  <<Current(d)', d>> \in slabs'
    BY DEF CurrentsOK
  <2>1. Current(d)' = Current(d) /\ <<Current(d), d>> \in slabs /\ Current(d) = current_slabs[d]
    BY <1>2, <1>13 DEF SlabInv, CurrentsOK
  <2>2. <<Current(d), d>> # z
    <3> SUFFICES ASSUME <<Current(d), d>> = z
                 PROVE  FALSE
      OBVIOUS
    <3>1. Current(d) = p /\ d = c
      BY <1>4
    <3> QED
      BY <1>1, <2>1, <3>1
  <2> QED
    BY <1>8, <2>1, <2>2
<1>17. PICK X, C : X = NonFull \ {z} /\ C = SlabClass
  OBVIOUS
<1>18. NonFull' = X
  BY <1>8, <1>13, <1>14, <1>17 DEF NonFull, IsFull
<1>19. /\ Filed(slab_link, SlabNode, SlabTarget, SlabList, S, C)
       /\ S \in SUBSET SlabNode /\ NonFull \subseteq slabs
       /\ \A x \in slabs : C[x[1]] = x[2]
       /\ \A n \in SlabList : C[n] = n[2]
       /\ \A x \in slabs : x[1] \in Page /\ x[1] \in SlabNode /\ x[1] \notin SlabList
       /\ \A x \in slabs : x[1] \in FirstEntries(NonFull) <=> x \in NonFull
       /\ \A x \in slabs : x[1] # Current(x[2]) =>
             (IsFull(x) <=> slab_link.next[x[1]] = NullSlab)
  BY <1>17, FiledFacts
<1>20. z \in NonFull <=> slab_link.next[p] # NullSlab
  BY <1>1, <1>5, <1>13, <1>19 DEF NonFull
<1>21. SlabList \cup FirstEntries(X) = S \ {p}
  BY <1>5, <1>17, <1>19 DEF FirstEntries
<1>22. /\ slab_link \in Links(SlabNode, SlabTarget) /\ SlabNode \subseteq SlabTarget
       /\ Garbage \in SlabTarget /\ p \in SlabNode /\ p \notin SlabList
  BY <1>5, <1>19, SlabNodes DEF Filed, SlabTarget
<1> HIDE DEF S
<1>23. Filed(unlinked, SlabNode, SlabTarget, SlabList, S \ {p}, C)
  <2>1. CASE slab_link.next[p] # NullSlab
    <3>1. p \in S
      BY <1>5, <1>19, <1>20, <2>1 DEF S
    <3>2. Filed(remove_from_list(slab_link, p), SlabNode, SlabTarget, SlabList, S \ {p}, C)
      BY <1>19, <1>22, <3>1, RemoveFiled
    <3> QED
      BY <2>1, <3>2 DEF unlinked
  <2>2. CASE slab_link.next[p] = NullSlab
    <3>1. S \ {p} = S
      BY <1>5, <1>19, <1>20, <1>22, <2>2 DEF S
    <3> QED
      BY <1>19, <2>2, <3>1 DEF unlinked
  <2> QED
    BY <2>1, <2>2
<1>24. unlinked \in Links(SlabNode, SlabTarget)
  BY <1>23 DEF Filed
<1>25. /\ slab_link' \in Links(SlabNode, SlabTarget)
       /\ \A x \in SlabNode \ {p} : /\ slab_link'.next[x] = unlinked.next[x]
                                    /\ slab_link'.prev[x] = unlinked.prev[x]
  <2>1. unlinked.next \in [SlabNode -> SlabTarget] /\ unlinked.prev \in [SlabNode -> SlabTarget]
    BY <1>24 DEF Links
  <2>2. /\ Assign(unlinked.next, {p}, Garbage) \in [SlabNode -> SlabTarget]
        /\ Assign(unlinked.prev, {p}, Garbage) \in [SlabNode -> SlabTarget]
    BY <1>22, <2>1 DEF Assign
  <2>3. \A x \in SlabNode \ {p} : /\ Assign(unlinked.next, {p}, Garbage)[x] = unlinked.next[x]
                                  /\ Assign(unlinked.prev, {p}, Garbage)[x] = unlinked.prev[x]
    BY <2>1 DEF Assign
  <2> QED
    BY <1>1, <2>2, <2>3 DEF Links
<1>26. Filed(slab_link', SlabNode, SlabTarget, SlabList, SlabList \cup FirstEntries(X), C)
  <2>1. \A x \in S \ {p} : /\ slab_link'.next[x] = unlinked.next[x]
                           /\ slab_link'.prev[x] = unlinked.prev[x]
    BY <1>19, <1>25
  <2>2. Filed(slab_link', SlabNode, SlabTarget, SlabList, S \ {p}, C)
    BY <1>23, <1>25, <2>1, FiledOutside
  <2> QED
    BY <1>21, <2>2
<1>27. ASSUME NEW x \in slabs', x[1] # Current(x[2])', FreeSlots(x[1], x[2])' = {}
       PROVE  slab_link'.next[x[1]] = NullSlab
  <2>1. x \in slabs \ {z} /\ x[1] # p /\ IsFull(x) /\ x[1] # Current(x[2])
    BY <1>5, <1>8, <1>13, <1>14, <1>27 DEF IsFull
  <2>2. slab_link.next[x[1]] = NullSlab /\ x[1] \in SlabNode \ {p}
    BY <1>19, <2>1
  <2>3. unlinked.next[x[1]] = slab_link.next[x[1]]
    <3>1. CASE slab_link.next[p] # NullSlab
      <4>1. p \in S
        BY <1>5, <1>19, <1>20, <3>1 DEF S
      <4>2. slab_link.next[slab_link.prev[p]] = p /\ slab_link.prev[p] \in SlabNode
        BY <1>19, <4>1 DEF Filed, LinkedOver
      <4>3. x[1] # slab_link.prev[p]
        BY <1>22, <2>2, <4>2, SlabNodes
      <4>4. unlinked.next = [slab_link.next EXCEPT ![slab_link.prev[p]] = slab_link.next[p]]
        BY <3>1 DEF unlinked, remove_from_list
      <4>5. slab_link.next \in [SlabNode -> SlabTarget]
        BY <1>22 DEF Links
      <4> QED
        BY <2>2, <4>2, <4>3, <4>4, <4>5
    <3>2. CASE slab_link.next[p] = NullSlab
      BY <3>2 DEF unlinked
    <3> QED
      BY <3>1, <3>2
  <2> QED
    BY <1>25, <2>2, <2>3
<1>28. SlabsFiled'
  <2>1. \A x \in X : C[x[1]] = x[2]
    BY <1>17, <1>19
  <2>2. \A n \in SlabList : C[n] = n[2]
    BY <1>19
  <2>3. \A x \in slabs' : x[1] # Current(x[2])' /\ FreeSlots(x[1], x[2])' = {} =>
           slab_link'.next[x[1]] = NullSlab
    BY <1>27
  <2> QED
    BY <1>10, <1>12, <1>18, <1>26, <2>1, <2>2, <2>3, Refiled
<1>29. capacity' >= 0
  <2>1. capacity \in Int /\ capacity >= 0
    BY DEF SlabInv, CapacityOK, IndInv, TypeOK
  <2> QED
    BY <1>7, <2>1
<1>30. CallOK' /\ CapacityOK'
  BY <1>7, <1>29, IdleCall, CapacityFine
<1> QED
  BY <1>10, <1>12, <1>15, <1>16, <1>28, <1>30 DEF SlabInv
-----------------------------------------------------------------------------
(* The inductive invariant holds.                                          *)

LEMMA InitSubInv == InitAll => SubInv
<1> SUFFICES ASSUME InitAll
             PROVE  SubInv
  OBVIOUS
<1>1. Init /\ InitSub
  BY DEF InitAll
<1>2. IndInv
  BY <1>1, InitInd
<1>3. IdleOnce
  BY <1>1 DEF Init, IdleOnce, OneIdleArena, IdleArenas
<1>4. slabs = {} /\ live = {} /\ held = {} /\ call = Idle /\ request = NoRequest
  BY <1>1 DEF Init, InitSub
<1>5. SlabTypes
  <2>1. current_slabs \in [AllocClasses -> Page \cup {NullSlab}]
    BY <1>1 DEF InitSub
  <2>2. allocated \in [Page -> SUBSET Nat] /\ idx_in_slab \in [Page -> Nat]
    BY <1>1 DEF InitSub
  <2>3. occupied \in 0 .. SizeModulus - 1
    BY <1>1, SlabAssumption DEF InitSub
  <2>4. IsFiniteSet({})
    BY FS_EmptySet
  <2> QED
    BY <1>4, <2>1, <2>2, <2>3, <2>4, IdleCall DEF SlabTypes
<1>6. ObjectsPlaced /\ RunsSplit /\ BitsKept /\ SlabsNeeded
  BY <1>4 DEF ObjectsPlaced, RunsSplit, SlabRuns, BitsKept, SlabsNeeded
<1>7. CurrentsOK
  <2>1. \A c \in AllocClasses : Current(c) = NullSlab
    BY <1>1 DEF InitSub, Current
  <2> QED
    BY <2>1 DEF CurrentsOK
<1>8. SlabsFiled
  <2>1. SlabList \cup FirstEntries(NonFull) = SlabList
    BY <1>4 DEF FirstEntries, NonFull
  <2>2. slab_link \in Links(SlabNode, SlabTarget)
    BY <1>1, SlabNodes DEF InitSub, Links, SlabTarget
  <2>3. \A x \in SlabList : slab_link.next[x] = x /\ slab_link.prev[x] = x
    BY <1>1, SlabNodes DEF InitSub
  <2>4. LinkedOver(slab_link, SlabList)
    BY <2>3 DEF LinkedOver
  <2>5. [x \in SlabList |-> 0] \in [SlabList -> Nat]
    OBVIOUS
  <2>6. Ranked(slab_link, SlabList, SlabList)
    BY <2>5 DEF Ranked
  <2>7. Filed(slab_link, SlabNode, SlabTarget, SlabList, SlabList, SlabClass)
    BY <2>2, <2>3, <2>4, <2>6 DEF Filed
  <2> QED
    BY <1>4, <2>1, <2>7 DEF SlabsFiled
<1>9. CallOK
  BY <1>4 DEF CallOK, Idle
<1>10. CapacityOK
  BY <1>1, <1>4, CapacityAssumption DEF Init, CapacityOK, Idle
<1> QED
  BY <1>2, <1>3, <1>5, <1>6, <1>7, <1>8, <1>9, <1>10 DEF SubInv, SlabInv

LEMMA DeallocateKeeps ==
    ASSUME IndInv, SlabInv, NEW o \in live, deallocate(o)
    PROVE  SlabInv'
<1>1. call = Idle /\ call' = call /\ live' = live \ {o}
  BY DEF deallocate
<1>2. CASE o[4] = Medium
  BY <1>2, DeallocateMediumKeeps
<1>3. CASE o[4] # Medium
  <2>1. deallocate_small(o) \/ deallocate_small_last(o)
    BY <1>3 DEF deallocate
  <2> QED
    BY <1>1, <1>3, <2>1, DeallocateSmallKeeps, DeallocateSmallLastKeeps
<1> QED
  BY <1>2, <1>3

LEMMA SubStep == SubInv /\ [NextAll]_allVars => SubInv'
<1> SUFFICES ASSUME SubInv, [NextAll]_allVars
             PROVE  SubInv'
  OBVIOUS
<1>1. IndInv /\ IdleOnce /\ SlabInv
  BY DEF SubInv
<1>2. IndInv' /\ IdleOnce'
  BY <1>1, NextAllIsProper, ProperStepInd
<1>3. ASSUME NEW c \in AllocClasses, NEW al \in SmallAligns(c),
             \/ allocate_from_current(c, al) \/ replace_misplaced(c, al)
             \/ allocate_from_list(c, al) \/ need_new_slab(c, al)
      PROVE  SlabInv'
  BY <1>1, <1>3, FromCurrentKeeps, ReplaceKeeps, FromListKeeps, NeedNewSlabKeeps
<1>4. ASSUME NEW n \in MinMediumNPages .. MaxNPages, NEW al \in PageAligns,
             n >= al, allocate_medium(n, al)
      PROVE  SlabInv'
  BY <1>1, <1>4, AllocateMediumKeeps
<1>5. ASSUME ask_pages \/ ask_pages_throws
      PROVE  SlabInv'
  BY <1>1, <1>5, AskPagesKeeps, AskPagesThrowsKeeps
<1>6. ASSUME (\E a \in Arena : map_arena(a)) \/ map_arena_throws
      PROVE  SlabInv'
  BY <1>1, <1>6, MapArenaKeeps, MapArenaThrowsKeeps
<1>7. ASSUME finish_small \/ finish_medium
      PROVE  SlabInv'
  BY <1>1, <1>2, <1>7, FinishSmallKeeps, FinishMediumKeeps
<1>8. ASSUME allocate_large \/ allocate_large_throws \/ deallocate_large
      PROVE  SlabInv'
  BY <1>1, <1>2, <1>8, LargeKeeps
<1>9. ASSUME \E o \in live : deallocate(o)
      PROVE  SlabInv'
  BY <1>1, <1>9, DeallocateKeeps
<1>10. ASSUME destroy \/ destroy_class \/ destroyed
      PROVE  SlabInv'
  BY <1>1, <1>10, DestroyKeeps, DestroyClassKeeps, DestroyedKeeps
<1>11. ASSUME UNCHANGED allVars
      PROVE  SlabInv'
  BY <1>1, <1>11, StutterKeeps
<1>12. SlabInv'
  BY <1>3, <1>4, <1>5, <1>6, <1>7, <1>8, <1>9, <1>10, <1>11 DEF NextAll, gone
<1> QED
  BY <1>2, <1>12 DEF SubInv

\* The inductive invariant of the sub-allocator with the page allocator below it:
\* every object is a slot of a slab or a run of pages, every run that is held is
\* one slab or one medium object, the bits, the lists and the marks of the slabs
\* are true, and so are the current slabs while they are not stale.
THEOREM SubInvHolds == SpecAll => []SubInv
  BY InitSubInv, SubStep, PTL DEF SpecAll

\* The sub-allocator gives back only runs that it holds, asks for one run at a
\* time, and a large object changes nothing but the capacity.
THEOREM CallsPagesProperlyHolds == SpecAll => CallsPagesProperly
<1>1. SubInv /\ [NextAll]_allVars => [Next \/ GivesBackHeld \/ OnlyCapacity]_vars
  BY NextAllIsProper DEF ProperStep, CapacityOnly
<1> QED
  BY <1>1, SubInvHolds, PTL DEF SpecAll, CallsPagesProperly

\* check_capacity never lets the size_t capacity fall below zero.
THEOREM CapacityNotExceededHolds == SpecAll => []CapacityNotExceeded
<1>1. SubInv => CapacityNotExceeded
  BY DEF SubInv, SlabInv, CapacityOK, CapacityNotExceeded
<1> QED
  BY <1>1, SubInvHolds, PTL
-----------------------------------------------------------------------------
(* What follows from it.                                                   *)

\* As many runs as slabs and medium objects.
LEMMA SameNumber ==
    ASSUME NEW S, NEW T, IsFiniteSet(S), NEW f \in [S -> T],
           \A x, y \in S : f[x] = f[y] => x = y, \A t \in T : \E x \in S : f[x] = t
    PROVE  IsFiniteSet(T) /\ Cardinality(T) = Cardinality(S)
<1>1. f \in Bijection(S, T)
  BY Fun_IsBij
<1>2. ExistsBijection(S, T)
  BY <1>1 DEF ExistsBijection
<1> QED
  BY <1>2, FS_Bijection

MediumLive == {m \in live : m[4] = Medium}
MediumRunsLive == {MediumRun(o) : o \in MediumLive}

LEMMA RunsCounted ==
    ASSUME IndInv, SlabInv
    PROVE  /\ held = MediumRunsLive \cup SlabRuns
           /\ Cardinality(held) = Cardinality(slabs) + Cardinality(MediumLive)
<1>1. IsFiniteSet(slabs) /\ IsFiniteSet(live) /\ IsFiniteSet(MediumLive)
  <2>1. IsFiniteSet(slabs) /\ IsFiniteSet(live)
    BY DEF SlabInv, SlabTypes
  <2>2. MediumLive \in SUBSET live
    BY DEF MediumLive
  <2> QED
    BY <2>1, <2>2, FS_Subset
<1>2. ASSUME NEW o \in MediumLive
      PROVE  /\ MediumRun(o) \in held /\ MediumRun(o) \notin SlabRuns
             /\ \E al \in PageAligns : o = MediumObject(MediumRun(o), al)
  BY MediumOf DEF MediumLive
<1>3. ASSUME NEW r \in held, r \notin SlabRuns
      PROVE  r \in MediumRunsLive
  <2>1. PICK al \in PageAligns : MediumObject(r, al) \in live
    BY <1>3 DEF SlabInv, RunsSplit, MediumRuns
  <2>2. r \in Run
    BY DEF IndInv, TypeOK
  <2>3. MediumRun(MediumObject(r, al)) = r
    BY <2>2, MediumInRun
  <2>4. MediumObject(r, al)[4] = Medium
    BY DEF MediumObject, Object
  <2> QED
    BY <2>1, <2>3, <2>4 DEF MediumRunsLive, MediumLive
<1>4. SlabRuns \subseteq held
  BY DEF SlabInv, RunsSplit
<1>5. held = MediumRunsLive \cup SlabRuns /\ MediumRunsLive \cap SlabRuns = {}
  BY <1>2, <1>3, <1>4 DEF MediumRunsLive
<1>6. ASSUME NEW o \in MediumLive, NEW q \in MediumLive, MediumRun(o) = MediumRun(q)
      PROVE  o = q
  <2>1. PICK al : o = MediumObject(MediumRun(o), al)
    BY <1>2
  <2>2. PICK am : q = MediumObject(MediumRun(o), am)
    BY <1>2, <1>6
  <2>3. o[1] = q[1] /\ o[2] = q[2]
    BY <2>1, <2>2 DEF MediumObject, Object
  <2>4. o \in live /\ q \in live
    BY DEF MediumLive
  <2> QED
    BY <2>3, <2>4 DEF SlabInv, ObjectsPlaced
<1>7. IsFiniteSet(MediumRunsLive) /\ Cardinality(MediumRunsLive) = Cardinality(MediumLive)
  <2> DEFINE f == [o \in MediumLive |-> MediumRun(o)]
  <2>1. f \in [MediumLive -> MediumRunsLive]
    BY DEF MediumRunsLive
  <2>2. \A x, y \in MediumLive : f[x] = f[y] => x = y
    BY <1>6
  <2>3. \A t \in MediumRunsLive : \E x \in MediumLive : f[x] = t
    BY DEF MediumRunsLive
  <2> HIDE DEF f
  <2> QED
    BY <1>1, <2>1, <2>2, <2>3, SameNumber
<1>8. IsFiniteSet(SlabRuns) /\ Cardinality(SlabRuns) = Cardinality(slabs)
  <2> DEFINE f == [x \in slabs |-> SlabRun(x[1], x[2])]
  <2>1. f \in [slabs -> SlabRuns]
    BY DEF SlabRuns
  <2>2. \A x, y \in slabs : f[x] = f[y] => x = y
    BY SlabOfRun
  <2>3. \A t \in SlabRuns : \E x \in slabs : f[x] = t
    BY DEF SlabRuns
  <2> HIDE DEF f
  <2> QED
    BY <1>1, <2>1, <2>2, <2>3, SameNumber
<1>9. Cardinality(held) = Cardinality(MediumLive) + Cardinality(slabs)
  <2>1. Cardinality({}) = 0 /\ Cardinality(MediumLive) \in Nat /\ Cardinality(slabs) \in Nat
    BY <1>1, FS_EmptySet, FS_CardinalityType
  <2>2. Cardinality(MediumRunsLive \cup SlabRuns)
           = Cardinality(MediumRunsLive) + Cardinality(SlabRuns)
             - Cardinality(MediumRunsLive \cap SlabRuns)
    BY <1>7, <1>8, FS_Union
  <2>3. Cardinality(MediumRunsLive \cap SlabRuns) = 0
    BY <1>5, <2>1
  <2>4. Cardinality(held) = Cardinality(MediumRunsLive \cup SlabRuns)
    BY <1>5
  <2>5. Cardinality(held) = Cardinality(MediumLive) + Cardinality(slabs) - 0
    BY <1>7, <1>8, <2>2, <2>3, <2>4
  <2> QED
    BY <2>1, <2>5
<1>10. Cardinality(MediumLive) \in Nat /\ Cardinality(slabs) \in Nat
  BY <1>1, FS_CardinalityType
<1> QED
  BY <1>5, <1>9, <1>10

\* Every run of pages held is one slab or one medium object, and conversely;
\* a current slab is a slab.
THEOREM RunsOwnedHolds == SpecAll => []RunsOwned
<1>1. SubInv => RunsOwned
  <2> SUFFICES ASSUME SubInv
               PROVE  RunsOwned
    OBVIOUS
  <2>1. IndInv /\ SlabInv
    BY DEF SubInv
  <2>2. TypeOKAll
    <3>1. TypeOK
      BY <2>1 DEF IndInv
    <3>2. slab_link \in [next : [SlabNode -> SlabNode \cup {NullSlab, Garbage}],
                         prev : [SlabNode -> SlabNode \cup {NullSlab, Garbage}]]
      BY <2>1 DEF SlabInv, SlabsFiled, Filed, Links, SlabTarget
    <3>3. \A o \in live : o[4] \in AllocClasses \cup {Medium}
      BY <2>1, ObjectCases
    <3>4. \A p \in Page : allocated[p] \subseteq Nat /\ idx_in_slab[p] \in Nat
      BY <2>1 DEF SlabInv, SlabTypes
    <3>5. /\ current_slabs \in [AllocClasses -> Page \cup {NullSlab}]
          /\ call \in Call /\ occupied \in 0 .. SizeModulus - 1
      BY <2>1 DEF SlabInv, SlabTypes
    <3> QED
      BY <3>1, <3>2, <3>3, <3>4, <3>5 DEF TypeOKAll
  <2>3. held = {MediumRun(o) : o \in {m \in live : m[4] = Medium}}
               \cup {SlabRun(x[1], x[2]) : x \in slabs}
    BY <2>1, RunsCounted DEF MediumRunsLive, MediumLive, SlabRuns
  <2>4. Cardinality(held) = Cardinality(slabs)
                            + Cardinality({o \in live : o[4] = Medium})
    BY <2>1, RunsCounted DEF MediumLive
  <2>5. \A c \in AllocClasses : Current(c) # NullSlab => Current(c) \in SlabsOf(c)
    <3> SUFFICES ASSUME NEW c \in AllocClasses, Current(c) # NullSlab
                 PROVE  Current(c) \in SlabsOf(c)
      OBVIOUS
    <3>1. PICK x \in slabs : x = <<Current(c), c>>
      BY <2>1 DEF SlabInv, CurrentsOK
    <3>2. x[1] = Current(c) /\ x[2] = c
      BY <3>1
    <3> QED
      BY <3>2 DEF SlabsOf
  <2> QED
    BY <2>2, <2>3, <2>4, <2>5 DEF RunsOwned
<1> QED
  BY <1>1, SubInvHolds, PTL

\* The list of a class with its sentinel.
Listed(c)     == {x[1] : x \in {y \in NonFull : y[2] = c}}
SlabFiling(c) == {non_full_slabs(c)} \cup Listed(c)

\* It is a circle of its own.
LEMMA SlabFilingIsList ==
    ASSUME IndInv, SlabInv, NEW c \in AllocClasses
    PROVE  /\ LinkedOver(slab_link, SlabFiling(c))
           /\ Ranked(slab_link, SlabFiling(c), {non_full_slabs(c)})
           /\ SlabFiling(c) \ {non_full_slabs(c)} = Listed(c)
<1> DEFINE S == SlabList \cup FirstEntries(NonFull)
           T == SlabFiling(c)
           l == non_full_slabs(c)
<1>1. /\ Filed(slab_link, SlabNode, SlabTarget, SlabList, S, SlabClass)
      /\ NonFull \subseteq slabs
      /\ \A x \in slabs : SlabClass[x[1]] = x[2] /\ x[1] \notin SlabList
      /\ \A n \in SlabList : SlabClass[n] = n[2]
  BY FiledFacts
<1>2. l \in SlabList /\ l[2] = c /\ \A n \in SlabList : n[2] = c <=> n = l
  <2>1. \A n \in SlabList : n = <<"non_full_slabs", n[2]>>
    BY DEF SlabList
  <2>2. l = <<"non_full_slabs", c>>
    BY DEF non_full_slabs
  <2> QED
    BY <2>1, <2>2, SlabNodes
<1>3. T = {x \in S : SlabClass[x] = c}
  <2>1. \A x \in NonFull : SlabClass[x[1]] = x[2]
    BY <1>1
  <2>2. \A n \in S : SlabClass[n] = c => n \in T
    <3> SUFFICES ASSUME NEW n \in S, SlabClass[n] = c
                 PROVE  n \in T
      OBVIOUS
    <3>1. CASE n \in SlabList
      BY <1>1, <1>2, <3>1 DEF SlabFiling
    <3>2. CASE n \in FirstEntries(NonFull)
      <4>1. PICK x \in NonFull : n = x[1]
        BY <3>2 DEF FirstEntries
      <4> QED
        BY <2>1, <4>1 DEF SlabFiling, Listed
    <3> QED
      BY <3>1, <3>2
  <2>3. \A n \in T : n \in S /\ SlabClass[n] = c
    <3> SUFFICES ASSUME NEW n \in T
                 PROVE  n \in S /\ SlabClass[n] = c
      OBVIOUS
    <3>1. CASE n = l
      BY <1>1, <1>2, <3>1
    <3>2. CASE n \in Listed(c)
      <4>1. PICK x \in NonFull : n = x[1] /\ x[2] = c
        BY <3>2 DEF Listed
      <4> QED
        BY <2>1, <4>1 DEF FirstEntries
    <3> QED
      BY <3>1, <3>2 DEF SlabFiling
  <2> HIDE DEF T, S
  <2> QED
    BY <2>2, <2>3
<1>4. /\ LinkedOver(slab_link, S) /\ Ranked(slab_link, S, SlabList)
      /\ \A x \in S : SlabClass[slab_link.next[x]] = SlabClass[x]
  BY <1>1 DEF Filed
<1>5. \A x \in S : SlabClass[slab_link.prev[x]] = SlabClass[x]
  BY <1>4 DEF LinkedOver
<1>6. LinkedOver(slab_link, T)
  <2> HIDE DEF S, T
  <2> QED
    BY <1>3, <1>4, <1>5 DEF LinkedOver
<1>7. \A n \in Listed(c) : n \notin SlabList
  BY <1>1 DEF Listed
<1>8. Ranked(slab_link, T, {l})
  <2>1. PICK d \in [S -> Nat] : \A x \in S \ SlabList : d[slab_link.prev[x]] < d[x]
    BY <1>4 DEF Ranked
  <2>2. \A x \in T \ {l} : x \in S \ SlabList
    BY <1>3, <1>7 DEF SlabFiling
  <2>3. \A x \in T : slab_link.prev[x] \in T
    BY <1>6 DEF LinkedOver
  <2>4. [x \in T |-> d[x]] \in [T -> Nat]
    BY <1>3
  <2> HIDE DEF T
  <2> QED
    BY <2>1, <2>2, <2>3, <2>4 DEF Ranked
<1>9. l \notin Listed(c)
  BY <1>2, <1>7
<1> QED
  BY <1>6, <1>8, <1>9 DEF SlabFiling

\* A walk from the sentinel shows it.
LEMMA SlabListIsExact ==
    ASSUME IndInv, SlabInv, NEW c \in AllocClasses
    PROVE  /\ WellLinked(slab_link, non_full_slabs(c), Cardinality(Page))
           /\ Elements(slab_link, non_full_slabs(c), Cardinality(Page)) = Listed(c)
<1> DEFINE l == non_full_slabs(c)
<1>1. /\ LinkedOver(slab_link, SlabFiling(c)) /\ Ranked(slab_link, SlabFiling(c), {l})
      /\ SlabFiling(c) \ {l} = Listed(c)
  BY SlabFilingIsList
<1>2. IsFiniteSet(Page) /\ Cardinality(Page) \in Nat
  <2>1. IsFiniteSet(Data)
    BY ClassFacts, FS_Interval DEF Data
  <2> QED
    BY <2>1, ArenaAssumption, FS_Product, FS_CardinalityType DEF Page
<1>3. Listed(c) \in SUBSET Page
  BY SlabRunFacts DEF Listed, NonFull
<1>4. IsFiniteSet(Listed(c)) /\ Cardinality(Listed(c)) <= Cardinality(Page)
  BY <1>2, <1>3, FS_Subset
<1>5. IsFiniteSet(SlabFiling(c)) /\ l \in SlabFiling(c)
  BY <1>4, FS_AddElement DEF SlabFiling
<1> QED
  BY <1>1, <1>2, <1>4, <1>5, RankedListIsWalked

\* The list of a class holds exactly its slabs that are neither current nor full,
\* each once; the full ones are those that the null link marks.
THEOREM NonFullListsExactHolds == SpecAll => []NonFullListsExact
<1>1. SubInv => NonFullListsExact
  <2> SUFFICES ASSUME IndInv, SlabInv, NEW c \in AllocClasses
               PROVE  LET others == SlabsOf(c) \ {Current(c)}
                          full   == {p \in others : FreeSlots(p, c) = {}}
                      IN  /\ WellLinked(slab_link, non_full_slabs(c), Cardinality(Page))
                          /\ Elements(slab_link, non_full_slabs(c), Cardinality(Page))
                                = others \ full
                          /\ \A p \in others : slab_link.next[p] = NullSlab <=> p \in full
    BY DEF SubInv, NonFullListsExact
  <2> DEFINE others == SlabsOf(c) \ {Current(c)}
             full   == {p \in others : FreeSlots(p, c) = {}}
  <2>1. \A p : p \in SlabsOf(c) <=> \E x \in slabs : x[1] = p /\ x[2] = c
    BY DEF SlabsOf
  <2>2. \A p : p \in Listed(c) <=> p \in others \ full
    <3>1. \A p : p \in Listed(c) <=> \E x \in slabs : /\ x[1] = p /\ x[2] = c
                                                      /\ x[1] # Current(c)
                                                      /\ FreeSlots(p, c) # {}
      BY DEF Listed, NonFull, IsFull
    <3> QED
      BY <2>1, <3>1
  <2>3. Listed(c) = others \ full
    BY <2>2
  <2>4. ASSUME NEW p \in others
        PROVE  slab_link.next[p] = NullSlab <=> p \in full
    <3>1. PICK x \in slabs : x[1] = p /\ x[2] = c
      BY <2>1
    <3>2. IsFull(x) <=> slab_link.next[x[1]] = NullSlab
      BY <3>1, FiledFacts
    <3> QED
      BY <3>1, <3>2 DEF IsFull
  <2>5. /\ WellLinked(slab_link, non_full_slabs(c), Cardinality(Page))
        /\ Elements(slab_link, non_full_slabs(c), Cardinality(Page)) = Listed(c)
    BY SlabListIsExact
  <2> QED
    BY <2>3, <2>4, <2>5
<1> QED
  BY <1>1, SubInvHolds, PTL

\* The objects in a slab are those of the bits that its slots have set.
LEMMA ObjectsOfBits ==
    ASSUME IndInv, SlabInv, NEW x \in slabs
    PROVE  /\ {o[2] : o \in ObjectsIn(x[1], x[2])}
                 = {SlotObject(x[1], x[2], s, 1)[2] : s \in HeldSlots(x)}
           /\ allocated[x[1]] \ SpareBits(x[2]) = HeldSlots(x)
           /\ HeldSlots(x) # {} => ObjectsIn(x[1], x[2]) # {}
<1> DEFINE p == x[1]
           c == x[2]
<1>1. /\ x = <<p, c>> /\ p \in Page /\ c \in AllocClasses
      /\ SlabRun(p, c) \in held /\ SlabRun(p, c) \in Run
      /\ p[2] + SlabNPages[c] <= DataNPages
  BY SlabRunFacts
<1>2. allocated[p] \subseteq Slots(c) \cup SpareBits(c) /\ Slots(c) \cap SpareBits(c) = {}
  BY <1>1, SpareFacts DEF SlabInv, BitsKept
<1>3. allocated[p] \ SpareBits(c) = HeldSlots(x)
  BY <1>2 DEF HeldSlots
<1>4. ASSUME NEW s \in HeldSlots(x)
      PROVE  \E o \in ObjectsIn(p, c) : o[2] = SlotObject(p, c, s, 1)[2]
  <2>1. PICK al \in PageAligns : SlotObject(p, c, s, al) \in live
    BY <1>4 DEF SlabInv, BitsKept
  <2>2. s \in Slots(c)
    BY DEF HeldSlots
  <2>3. SlotObject(p, c, s, al)[2] \div PageUnits \in p[2] .. (p[2] + SlabNPages[c] - 1)
    <3>1. /\ idx_in_slab \in [Page -> Nat]
          /\ \A q \in SlabEntries(p, c) : idx_in_slab[q] = q[2] - p[2]
      BY DEF SlabInv, SlabTypes, BitsKept
    <3> QED
      BY <1>1, <2>2, <3>1, SlabOfSlot
  <2>4. /\ SlotObject(p, c, s, al)[1] = p[1] /\ SlotObject(p, c, s, al)[4] = c
        /\ SlotObject(p, c, s, al)[2] = SlotObject(p, c, s, 1)[2]
    BY DEF SlotObject, Object
  <2>5. RunPages(SlabRun(p, c)) = p[2] .. (p[2] + SlabNPages[c] - 1)
    BY DEF RunPages, SlabRun
  <2>6. SlotObject(p, c, s, al) \in ObjectsIn(p, c)
    BY <2>1, <2>3, <2>4, <2>5 DEF ObjectsIn
  <2> QED
    BY <2>4, <2>6
<1>5. ASSUME NEW o \in ObjectsIn(p, c)
      PROVE  \E s \in HeldSlots(x) : o[2] = SlotObject(p, c, s, 1)[2]
  <2>1. /\ o \in live /\ o[1] = p[1] /\ o[4] = c
        /\ o[2] \div PageUnits \in RunPages(SlabRun(p, c))
    BY DEF ObjectsIn
  <2>2. o[4] # Medium
    BY <1>1, <2>1, SlabFacts
  <2>3. /\ <<SlabOf(o), c>> \in slabs /\ SlotOf(o) \in Slots(c) /\ SlotOf(o) \in allocated[SlabOf(o)]
        /\ \E al \in PageAligns : o = SlotObject(SlabOf(o), c, SlotOf(o), al)
        /\ o[2] \div PageUnits \in RunPages(SlabRun(SlabOf(o), c))
    BY <2>1, <2>2, SmallObject
  <2>4. PICK y \in slabs : y = <<SlabOf(o), c>>
    BY <2>3
  <2>5. y[1] = SlabOf(o) /\ y[2] = c
    BY <2>4
  <2>6. SlabRun(y[1], y[2]) \in held /\ SlabRun(y[1], y[2]) \in Run
    BY SlabRunFacts
  <2>7. SlabRun(y[1], y[2]) = SlabRun(p, c)
    <3>1. SlabRun(y[1], y[2]) \in Runs /\ SlabRun(p, c) \in Runs
      BY <1>1, <2>6 DEF Runs
    <3>2. SlabRun(y[1], y[2])[1] = o[1] /\ SlabRun(p, c)[1] = o[1]
      BY <2>1, <2>5 DEF SlabRun, SlabOf
    <3>3. o[2] \div PageUnits \in Data
      <4>1. p[2] \in Int /\ 0 <= p[2] /\ SlabNPages[c] \in Int
        BY <1>1, SlabFacts, ClassFacts DEF Page, Data
      <4> QED
        BY <1>1, <2>1, <4>1, ClassFacts DEF RunPages, SlabRun, Data
    <3> QED
      BY <2>1, <2>3, <2>5, <3>1, <3>2, <3>3 DEF IndInv, Tiled, IsTiling
  <2>8. y = x
    BY <2>7, SlabOfRun
  <2>9. SlabOf(o) = p
    BY <2>5, <2>8
  <2>10. SlotOf(o) \in HeldSlots(x)
    BY <2>3, <2>9 DEF HeldSlots
  <2>11. o[2] = SlotObject(p, c, SlotOf(o), 1)[2]
    <3>1. PICK al \in PageAligns : o = SlotObject(p, c, SlotOf(o), al)
      BY <2>3, <2>9
    <3> QED
      BY <3>1 DEF SlotObject, Object
  <2> QED
    BY <2>10, <2>11
<1> QED
  BY <1>3, <1>4, <1>5

\* The bits of the slots of every slab are its objects, whether its slots fill the
\* words of the bitmap or not; its pages lead back to the first one; and a slab
\* without objects that is not current has bits behind its last slot.
THEOREM BitmapsExactHolds == SpecAll => []BitmapsExact
<1>1. SubInv => BitmapsExact
  <2> SUFFICES ASSUME IndInv, SlabInv, NEW x \in slabs
               PROVE  /\ {o[2] : o \in ObjectsIn(x[1], x[2])}
                            = {SlotObject(x[1], x[2], s, 1)[2] :
                                  s \in allocated[x[1]] \ SpareBits(x[2])}
                      /\ \A q \in SlabEntries(x[1], x[2]) : idx_in_slab[q] = q[2] - x[1][2]
                      /\ \/ x[1] = Current(x[2])
                         \/ ObjectsIn(x[1], x[2]) # {}
                         \/ ~WordsFilled(x[2]) /\ allocated[x[1]] \cap SpareBits(x[2]) # {}
    BY DEF SubInv, BitmapsExact
  <2>1. x[1] = Current(x[2]) \/ allocated[x[1]] # {}
    BY DEF SlabInv, SlabsNeeded
  <2>2. \A q \in SlabEntries(x[1], x[2]) : idx_in_slab[q] = q[2] - x[1][2]
    BY DEF SlabInv, BitsKept
  <2>3. /\ allocated[x[1]] \subseteq Slots(x[2]) \cup SpareBits(x[2])
        /\ WordsFilled(x[2]) => allocated[x[1]] \subseteq Slots(x[2])
    BY DEF SlabInv, BitsKept
  <2>4. /\ {o[2] : o \in ObjectsIn(x[1], x[2])}
              = {SlotObject(x[1], x[2], s, 1)[2] : s \in HeldSlots(x)}
        /\ allocated[x[1]] \ SpareBits(x[2]) = HeldSlots(x)
        /\ HeldSlots(x) # {} => ObjectsIn(x[1], x[2]) # {}
    BY ObjectsOfBits
  <2>5. ASSUME allocated[x[1]] # {}, HeldSlots(x) = {}
        PROVE  ~WordsFilled(x[2]) /\ allocated[x[1]] \cap SpareBits(x[2]) # {}
    BY <2>3, <2>5 DEF HeldSlots
  <2> QED
    BY <2>1, <2>2, <2>4, <2>5
<1> QED
  BY <1>1, SubInvHolds, PTL

\* What the destructor leaves, once everything has been given back: slabs whose
\* bitmap has bits behind the last slot, their arenas, and at most one arena whose
\* constructor threw.
THEOREM OnlySpareLeftHolds == SpecAll => []OnlySpareLeft
<1>1. SubInv => OnlySpareLeft
  <2> SUFFICES ASSUME SubInv, call.op = "destroyed"
               PROVE  /\ held = SlabRuns
                      /\ \A x \in slabs : /\ ~WordsFilled(x[2])
                                          /\ allocated[x[1]] # {}
                                          /\ allocated[x[1]] \subseteq SpareBits(x[2])
                      /\ \A a, b \in IdleArenas : a = b
                      /\ IdleArenas # {} => ~Accounted
    BY DEF OnlySpareLeft, SlabRuns
  <2>1. IndInv /\ SlabInv /\ IdleOnce
    BY DEF SubInv
  <2>2. live = {} /\ request = NoRequest
    BY <2>1 DEF SlabInv, CallOK
  <2>3. held = SlabRuns
    BY <2>1, <2>2 DEF SlabInv, RunsSplit, MediumRuns
  <2>4. /\ \A a, b \in IdleArenas : a = b
        /\ IdleArenas # {} => ~Accounted
    BY <2>1, <2>2 DEF IdleOnce, OneIdleArena, NoRequest
  <2>5. ASSUME NEW x \in slabs
        PROVE  /\ ~WordsFilled(x[2])
               /\ allocated[x[1]] # {}
               /\ allocated[x[1]] \subseteq SpareBits(x[2])
    <3>1. Current(x[2]) = NullSlab
      BY DEF Current, Stale
    <3>2. x[1] # NullSlab
      BY <2>1, SlabRunFacts, SlabNodes
    <3>3. allocated[x[1]] # {}
      BY <2>1, <3>1, <3>2 DEF SlabInv, SlabsNeeded
    <3>4. HeldSlots(x) = {}
      BY <2>1, <2>2 DEF SlabInv, BitsKept
    <3>5. /\ allocated[x[1]] \subseteq Slots(x[2]) \cup SpareBits(x[2])
          /\ WordsFilled(x[2]) => allocated[x[1]] \subseteq Slots(x[2])
      BY <2>1 DEF SlabInv, BitsKept
    <3> QED
      BY <3>3, <3>4, <3>5 DEF HeldSlots
  <2> QED
    BY <2>3, <2>4, <2>5
<1> QED
  BY <1>1, SubInvHolds, PTL
-----------------------------------------------------------------------------
(* The objects are a heap of extents.                                      *)

Extents == {<<o[1], o[2], o[3]>> : o \in live}
ExtentOf(o) == <<o[1], o[2], o[3]>>

\* Objects lie in mapped arenas and apart from each other.
ObjectsMapped ==
    \A o \in live : /\ ExtentOf(o) \in ObjectHeap!Extent /\ o[1] \in arenas
                    /\ o[2] + o[3] <= DataNPages * PageUnits
ObjectsDisjoint ==
    \A o, q \in live : o # q => ~ObjectHeap!Overlap(ExtentOf(o), ExtentOf(q))

LEMMA ObjectsAreExtents == IndInv /\ SlabInv => ObjectsMapped /\ ObjectsDisjoint
<1> SUFFICES ASSUME IndInv, SlabInv
             PROVE  ObjectsMapped /\ ObjectsDisjoint
  OBVIOUS
<1>1. ASSUME NEW o \in live
      PROVE  /\ ExtentOf(o) \in ObjectHeap!Extent /\ o[1] \in arenas
             /\ o[2] + o[3] <= DataNPages * PageUnits
  <2>1. PICK r \in held : InRun(o, r) /\ r \in Run /\ r \in Runs
    BY ObjectRun
  <2>2. r[1] \in arenas /\ r[2] + r[3] <= DataNPages
    BY <2>1 DEF IndInv, Tiled, IsTiling
  <2>3. r[1] \in Arena /\ r[2] \in Int /\ r[3] \in Int /\ 0 <= r[2]
    BY <2>1, ClassFacts DEF Run, Data
  <2>4. /\ o[1] = r[1] /\ o[2] \in Int /\ o[3] \in Int /\ 1 <= o[3]
        /\ r[2] * PageUnits <= o[2] /\ o[2] + o[3] <= (r[2] + r[3]) * PageUnits
    BY <2>1 DEF InRun
  <2>5. PageUnits \in Nat \ {0} /\ DataNPages \in Int
    BY SlabFacts, ClassFacts
  <2>6. 0 * PageUnits <= r[2] * PageUnits /\ r[2] * PageUnits \in Int /\ 0 * PageUnits = 0
    BY <2>3, <2>5, MulMono
  <2>7. /\ (r[2] + r[3]) * PageUnits <= DataNPages * PageUnits
        /\ (r[2] + r[3]) * PageUnits \in Int /\ DataNPages * PageUnits \in Int
    BY <2>2, <2>3, <2>5, MulMono
  <2> DEFINE size == DataNPages * PageUnits
             top  == (r[2] + r[3]) * PageUnits
             low  == r[2] * PageUnits
  <2> HIDE DEF size, top, low
  <2>8. 0 <= low /\ low <= o[2] /\ o[2] + o[3] <= top /\ top <= size
        /\ low \in Int /\ top \in Int /\ size \in Int
    BY <2>4, <2>6, <2>7 DEF size, top, low
  <2>9. o[2] \in 0 .. size - 1 /\ o[3] \in 1 .. size /\ o[2] + o[3] <= size
    BY <2>4, <2>8
  <2> QED
    BY <2>2, <2>3, <2>4, <2>9 DEF ExtentOf, ObjectHeap!Extent, size
<1>2. ASSUME NEW o \in live, NEW q \in live, o # q
      PROVE  ~ObjectHeap!Overlap(ExtentOf(o), ExtentOf(q))
  <2>1. o[1] # q[1] \/ o[2] + o[3] <= q[2] \/ q[2] + q[3] <= o[2]
    BY <1>2, ObjectsApart
  <2>2. o[2] \in Int /\ o[3] \in Int /\ q[2] \in Int /\ q[3] \in Int
    BY ObjectRun DEF InRun
  <2>3. ASSUME o[1] = q[1], NEW k \in o[2] .. (o[2] + o[3] - 1), k \in q[2] .. (q[2] + q[3] - 1)
        PROVE  FALSE
    BY <2>1, <2>2, <2>3
  <2> QED
    BY <2>3 DEF ObjectHeap!Overlap, ObjectHeap!Units, ExtentOf
<1> QED
  BY <1>1, <1>2 DEF ObjectsMapped, ObjectsDisjoint

\* A step that allocates one object.
LEMMA AllocatesExtent ==
    ASSUME ObjectsMapped', ObjectsDisjoint', arenas' = arenas, NEW o, live' = live \cup {o}
    PROVE  [ObjectHeap!Next]_ObjectHeap!heapVars
<1> DEFINE e == ExtentOf(o)
<1>1. /\ e \in ObjectHeap!Extent /\ e[1] \in arenas
      /\ e[2] + e[3] <= DataNPages * PageUnits
  BY DEF ObjectsMapped, ExtentOf
<1>2. Extents' = Extents \cup {e}
  BY DEF Extents, ExtentOf
<1>3. CASE o \in live
  BY <1>3 DEF ObjectHeap!heapVars
<1>4. CASE o \notin live
  <2>1. \A f \in Extents : ~ObjectHeap!Overlap(e, f)
    <3> SUFFICES ASSUME NEW q \in live
                 PROVE  ~ObjectHeap!Overlap(e, ExtentOf(q))
      BY DEF Extents, ExtentOf
    <3> QED
      BY <1>4 DEF ObjectsDisjoint
  <2>2. arenas' = arenas \cup {e[1]}
    BY <1>1
  <2> HIDE DEF e
  <2>3. ObjectHeap!Alloc
    BY <1>1, <1>2, <2>1, <2>2 DEF ObjectHeap!Alloc, Extents
  <2> QED
    BY <2>3 DEF ObjectHeap!Next
<1> QED
  BY <1>3, <1>4

\* A step that frees one object, and may unmap its arena.
LEMMA FreesExtent ==
    ASSUME SlabInv, ObjectsMapped', NEW o \in live, live' = live \ {o},
           arenas' = arenas \/ arenas' = arenas \ {o[1]}
    PROVE  [ObjectHeap!Next]_ObjectHeap!heapVars
<1> DEFINE e == ExtentOf(o)
<1>1. \A q \in live : ExtentOf(q) = e => q = o
  BY DEF ExtentOf, SlabInv, ObjectsPlaced
<1>2. Extents' = Extents \ {e} /\ e \in Extents
  BY <1>1 DEF Extents, ExtentOf
<1>3. \A f \in Extents' : f[1] \in arenas'
  BY DEF Extents, ObjectsMapped
<1>4. e[1] = o[1]
  BY DEF ExtentOf
<1> HIDE DEF e
<1>5. UNCHANGED arenas \/ (arenas' = arenas \ {e[1]} /\ \A f \in Extents' : f[1] # e[1])
  BY <1>3, <1>4
<1>6. ObjectHeap!Free
  BY <1>2, <1>5 DEF ObjectHeap!Free, Extents
<1> QED
  BY <1>6 DEF ObjectHeap!Next

\* A step that frees no object, and may unmap an arena.
LEMMA UnmapsUnused ==
    ASSUME IndInv, ObjectsMapped', live' = live, NEW r \in held, FreePagesOf(r)
    PROVE  [ObjectHeap!Next]_ObjectHeap!heapVars
<1>1. arenas' = arenas \/ arenas' = arenas \ {r[1]}
  BY DEF FreePagesOf, deallocate_page, deallocate_page_unmap
<1>2. r[1] \in arenas
  BY DEF IndInv, Tiled, IsTiling, Runs
<1>3. CASE arenas' = arenas
  BY <1>3 DEF ObjectHeap!heapVars
<1>4. CASE arenas' = arenas \ {r[1]}
  <2>1. \A f \in Extents : f[1] # r[1]
    <3>1. \A o \in live : o[1] \in arenas'
      BY DEF ObjectsMapped
    <3> QED
      BY <1>4, <3>1 DEF Extents
  <2>2. Extents' = Extents
    BY DEF Extents
  <2>3. ObjectHeap!Unmap
    BY <1>2, <1>4, <2>1, <2>2 DEF ObjectHeap!Unmap, Extents
  <2> QED
    BY <2>3 DEF ObjectHeap!Next
<1> QED
  BY <1>1, <1>3, <1>4

LEMMA NoExtentChanges ==
    ASSUME arenas' = arenas, live' = live
    PROVE  [ObjectHeap!Next]_ObjectHeap!heapVars
  BY DEF ObjectHeap!heapVars

LEMMA SubStepImplements ==
    SubInv /\ SubInv' /\ [NextAll]_allVars => [ObjectHeap!Next]_ObjectHeap!heapVars
<1> SUFFICES ASSUME SubInv, SubInv', [NextAll]_allVars
             PROVE  [ObjectHeap!Next]_ObjectHeap!heapVars
  OBVIOUS
<1> DEFINE Goal == [ObjectHeap!Next]_ObjectHeap!heapVars
<1>1. IndInv /\ SlabInv /\ IndInv' /\ SlabInv'
  BY DEF SubInv
<1>2. ObjectsMapped' /\ ObjectsDisjoint'
  <2>1. (IndInv /\ SlabInv => ObjectsMapped /\ ObjectsDisjoint)'
    BY ObjectsAreExtents, PTL
  <2> QED
    BY <1>1, <2>1
<1> HIDE DEF Goal
<1>3. ASSUME NEW c \in AllocClasses, NEW al \in SmallAligns(c), allocate_from_current(c, al)
      PROVE  Goal
  <2>1. arenas' = arenas
    BY <1>3 DEF allocate_from_current, pageVars, vars
  <2>2. \E o : live' = live \cup {o}
    BY <1>3 DEF allocate_from_current
  <2> QED
    BY <1>2, <2>1, <2>2, AllocatesExtent DEF Goal
<1>4. ASSUME NEW c \in AllocClasses, NEW al \in SmallAligns(c), allocate_from_list(c, al)
      PROVE  Goal
  <2>1. arenas' = arenas
    BY <1>4 DEF allocate_from_list, pageVars, vars
  <2>2. \E o : live' = live \cup {o}
    BY <1>4 DEF allocate_from_list
  <2> QED
    BY <1>2, <2>1, <2>2, AllocatesExtent DEF Goal
<1>5. ASSUME NEW c \in AllocClasses, NEW al \in SmallAligns(c), replace_misplaced(c, al)
      PROVE  Goal
  <2> DEFINE p == current_slabs[c]
             r == <<p[1], p[2], 2>>
  <2>1. call = Idle /\ HasCurrent(c) /\ al > 1 /\ FreePagesOf(r) /\ live' = live
    BY <1>5 DEF replace_misplaced, CurrentHasSlot, Misplaced
  <2>2. SlabRun(p, c) \in held
    BY <1>1, <2>1, IdleFacts, CurrentFacts
  <2>3. SlabRun(p, c) = r
    BY <2>1, TwoPages DEF SlabRun
  <2> HIDE DEF p, r
  <2> QED
    BY <1>1, <1>2, <2>1, <2>2, <2>3, UnmapsUnused DEF Goal
<1>6. ASSUME NEW a \in Arena, map_arena(a)
      PROVE  Goal
  <2>1. a \notin arenas /\ arenas' = arenas \cup {a} /\ live' = live
    BY <1>6 DEF map_arena, create, construct_arena, subVars
  <2>2. ObjectHeap!Map
    BY <2>1 DEF ObjectHeap!Map
  <2> QED
    BY <2>2 DEF ObjectHeap!Next, Goal
<1>7. ASSUME finish_small
      PROVE  Goal
  <2>1. arenas' = arenas
    BY <1>1, <1>7, PagesTaken DEF finish_small
  <2>2. \E o : live' = live \cup {o}
    BY <1>7 DEF finish_small
  <2> QED
    BY <1>2, <2>1, <2>2, AllocatesExtent DEF Goal
<1>8. ASSUME finish_medium
      PROVE  Goal
  <2>1. arenas' = arenas
    BY <1>1, <1>8, PagesTaken DEF finish_medium
  <2>2. \E o : live' = live \cup {o}
    BY <1>8 DEF finish_medium
  <2> QED
    BY <1>2, <2>1, <2>2, AllocatesExtent DEF Goal
<1>9. ASSUME NEW o \in live, deallocate(o)
      PROVE  Goal
  <2>1. live' = live \ {o}
    BY <1>9 DEF deallocate
  <2>2. CASE o[4] = Medium
    <3>1. FreePagesOf(MediumRun(o))
      BY <1>9, <2>2 DEF deallocate, deallocate_medium
    <3>2. arenas' = arenas \/ arenas' = arenas \ {o[1]}
      BY <3>1 DEF FreePagesOf, deallocate_page, deallocate_page_unmap, MediumRun
    <3> QED
      BY <1>1, <1>2, <2>1, <3>2, FreesExtent DEF Goal
  <2>3. CASE o[4] # Medium /\ deallocate_small(o)
    <3>1. arenas' = arenas
      BY <2>3 DEF deallocate_small, pageVars, vars
    <3> QED
      BY <1>1, <1>2, <2>1, <3>1, FreesExtent DEF Goal
  <2>4. CASE o[4] # Medium /\ deallocate_small_last(o)
    <3>1. FreePagesOf(SlabRun(SlabOf(o), o[4]))
      BY <2>4 DEF deallocate_small_last
    <3>2. arenas' = arenas \/ arenas' = arenas \ {o[1]}
      BY <3>1 DEF FreePagesOf, deallocate_page, deallocate_page_unmap, SlabRun, SlabOf
    <3> QED
      BY <1>1, <1>2, <2>1, <3>2, FreesExtent DEF Goal
  <2> QED
    BY <1>9, <2>2, <2>3, <2>4 DEF deallocate
<1>10. ASSUME destroy_class
       PROVE  Goal
  <2> DEFINE c == call.class
             r == SlabRun(current_slabs[c], c)
  <2>1. live' = live /\ call.op = "destroy" /\ c < NAllocClasses
    BY <1>10 DEF destroy_class
  <2>2. CASE HasCurrent(c)
    <3>1. c \in AllocClasses /\ ~Stale(c)
      <4>1. c \in Nat
        BY <1>1 DEF SlabInv, SlabTypes, Call
      <4> QED
        BY <2>1, <4>1, SlabAssumption DEF AllocClasses, Stale
    <3>2. r \in held
      BY <1>1, <2>2, <3>1, CurrentFacts
    <3>3. FreePagesOf(r)
      BY <1>10, <2>2 DEF destroy_class
    <3> HIDE DEF r
    <3> QED
      BY <1>1, <1>2, <2>1, <3>2, <3>3, UnmapsUnused DEF Goal
  <2>3. CASE ~HasCurrent(c)
    <3>1. arenas' = arenas
      BY <1>10, <2>3 DEF destroy_class, pageVars, vars
    <3> QED
      BY <2>1, <3>1, NoExtentChanges DEF Goal
  <2> QED
    BY <2>2, <2>3
<1>11. ASSUME \/ \E c \in AllocClasses : \E al \in SmallAligns(c) : need_new_slab(c, al)
              \/ \E n \in MinMediumNPages .. MaxNPages, al \in PageAligns : allocate_medium(n, al)
              \/ ask_pages_throws \/ destroy \/ destroyed
       PROVE  Goal
  <2>1. arenas' = arenas /\ live' = live
    BY <1>11 DEF need_new_slab, allocate_medium, ask_pages_throws, destroy, destroyed, pageVars, vars
  <2> QED
    BY <2>1, NoExtentChanges DEF Goal
<1>12. ASSUME ask_pages \/ map_arena_throws
       PROVE  Goal
  <2>1. CASE arenas' = arenas /\ live' = live
    BY <2>1, NoExtentChanges DEF Goal
  <2>2. ASSUME NEW a \in Arena, create_throws(a), live' = live
        PROVE  Goal
    <3>1. a \notin arenas /\ arenas' = arenas \cup {a}
      BY <2>2 DEF create_throws, construct_arena
    <3>2. ObjectHeap!Map
      BY <2>2, <3>1 DEF ObjectHeap!Map
    <3> QED
      BY <3>2 DEF ObjectHeap!Next, Goal
  <2> QED
    BY <1>12, <2>1, <2>2
       DEF ask_pages, map_arena_throws, call_allocate_page, create_fails, subVars
<1>13. ASSUME allocate_large \/ allocate_large_throws \/ deallocate_large
       PROVE  Goal
  <2>1. arenas' = arenas /\ live' = live
    BY <1>13 DEF allocate_large, allocate_large_throws, deallocate_large, PageStateButCapacity
  <2> QED
    BY <2>1, NoExtentChanges DEF Goal
<1>14. ASSUME UNCHANGED allVars
       PROVE  Goal
  <2>1. arenas' = arenas /\ live' = live
    BY <1>14 DEF allVars, vars, subVars
  <2> QED
    BY <2>1, NoExtentChanges DEF Goal
<1>15. Goal
  BY <1>3, <1>4, <1>5, <1>6, <1>7, <1>8, <1>9, <1>10, <1>11, <1>12, <1>13, <1>14
     DEF NextAll, gone
<1> QED
  BY <1>15 DEF Goal

\* The sub-allocator implements the abstract heap: objects lie in mapped arenas and
\* overlap nothing still allocated, and an arena is unmapped only when no object is
\* in it.
THEOREM ImplementsObjectHeapHolds == SpecAll => ImplementsObjectHeap
<1>1. InitAll => ObjectHeap!Init
  BY DEF InitAll, Init, InitSub, ObjectHeap!Init
<1>2. SubInv /\ SubInv' /\ [NextAll]_allVars => [ObjectHeap!Next]_ObjectHeap!heapVars
  BY SubStepImplements
<1> QED
  BY <1>1, <1>2, SubInvHolds, PTL DEF SpecAll, ImplementsObjectHeap, ObjectHeap!Spec
=============================================================================
