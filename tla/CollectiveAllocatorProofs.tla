---------------------- MODULE CollectiveAllocatorProofs ----------------------
(***************************************************************************)
(* The theorems about the collective allocator and its traits.             *)
(*                                                                         *)
(* CollectiveAllocator: reference counts are exact, AlignedMMap places     *)
(* mappings where dispatch expects them and cuts off what it does not      *)
(* need, and the address of an object alone names the sub-allocator it     *)
(* came from - for all sizes of pages, blocks, arenas and address spaces   *)
(* that divide each other, and any number of handles and mappings.         *)
(*                                                                         *)
(* Relocation: batch_allocate and relocate_helper do all of their work or  *)
(* none of it, for any number of parts.  The inductive invariant accounts, *)
(* at every step on the way down and in the catch handlers, for all memory *)
(* in use: the new addresses and the old ones that the call still holds,   *)
(* and what earlier calls have lost.                                       *)
(***************************************************************************)
EXTENDS CollectiveAllocator, Relocation, FiniteSetTheorems, FunctionTheorems, TLAPS

-----------------------------------------------------------------------------
(* Division.  Masks of the code are divisions of the model.                *)

\* Quotient and rest of a sum that shows them.
LEMMA Quotient ==
    ASSUME NEW n \in Nat, n > 0, NEW q \in Int, NEW r \in 0 .. n - 1
    PROVE  (q * n + r) % n = r /\ (q * n + r) \div n = q
OBVIOUS

\* A number below the divisor is the rest itself.
LEMMA SmallRest ==
    ASSUME NEW n \in Nat, n > 0, NEW x \in 0 .. n - 1
    PROVE  x % n = x
OBVIOUS

\* Every number has a quotient and a rest.
LEMMA DivisionWithRest ==
    ASSUME NEW n \in Nat, n > 0, NEW x \in Int
    PROVE  /\ x \div n \in Int /\ x % n \in 0 .. n - 1
           /\ x = (x \div n) * n + (x % n)
<1>1. x \div n \in Int
  OBVIOUS
<1>2. x % n \in 0 .. n - 1
  OBVIOUS
<1>3. x = n * (x \div n) + (x % n)
  OBVIOUS
<1> QED
  BY <1>1, <1>2, <1>3

\* A number without a rest is a multiple.
LEMMA Multiple ==
    ASSUME NEW n \in Nat, n > 0, NEW x \in Nat, x % n = 0
    PROVE  \E q \in Nat : x = q * n
<1> DEFINE q == x \div n
<1>1. q \in Int /\ x = q * n
  BY DivisionWithRest
<1> HIDE DEF q
<1>2. q >= 0
  <2>1. CASE q <= -1
    <3>1. q * n <= -n
      BY <1>1, <2>1
    <3> QED
      BY <1>1, <3>1
  <2> QED
    BY <1>1, <2>1
<1> QED
  BY <1>1, <1>2

\* A multiple of n that is below another one is below it by n at least.
LEMMA MultiplesApart ==
    ASSUME NEW n \in Nat, n > 0, NEW j \in Int, NEW k \in Int, j * n < k * n
    PROVE  j * n <= k * n - n
<1>1. j < k
  <2> SUFFICES ASSUME j >= k PROVE FALSE
    OBVIOUS
  <2>1. (j - k) * n >= 0
    OBVIOUS
  <2> QED
    BY <2>1
<1>2. (k - j - 1) * n >= 0
  BY <1>1
<1> QED
  BY <1>2

\* What the sizes of the code have in common.
LEMMA Sizing ==
    ASSUME CollectiveAssumption
    PROVE  /\ MapPageSize \in Nat /\ MapPageSize > 0
           /\ BlockSize \in Nat /\ BlockSize > 0 /\ ArenaSize \in Nat /\ ArenaSize > 0
           /\ LargeSize \in Nat /\ LargeSize > 0 /\ SpaceSize \in Nat /\ SpaceSize > 0
           /\ \E b \in Nat : BlockSize = b * MapPageSize
           /\ \E a \in Nat : ArenaSize = a * BlockSize
           /\ \E l \in Nat : LargeSize = l * MapPageSize
           /\ SubspaceInterval = 4 * ArenaSize
           /\ Offset = {0, ArenaSize, 2 * ArenaSize} /\ PerPageOffset = 2 * ArenaSize
<1>1. /\ MapPageSize \in Nat /\ MapPageSize > 0
      /\ BlockSize \in Nat /\ BlockSize > 0 /\ ArenaSize \in Nat /\ ArenaSize > 0
      /\ LargeSize \in Nat /\ LargeSize > 0 /\ SpaceSize \in Nat /\ SpaceSize > 0
  BY DEF CollectiveAssumption
<1>2. BlockSize % MapPageSize = 0 /\ ArenaSize % BlockSize = 0 /\ LargeSize % MapPageSize = 0
  BY DEF CollectiveAssumption
<1>3. \E b \in Nat : BlockSize = b * MapPageSize
  BY <1>1, <1>2, Multiple
<1>4. \E a \in Nat : ArenaSize = a * BlockSize
  BY <1>1, <1>2, Multiple
<1>5. \E l \in Nat : LargeSize = l * MapPageSize
  BY <1>1, <1>2, Multiple
<1>6. /\ SubspaceInterval = 4 * ArenaSize
      /\ Offset = {0, ArenaSize, 2 * ArenaSize} /\ PerPageOffset = 2 * ArenaSize
  BY <1>1 DEF SubspaceInterval, Offset, PurelyLocalOffset, SwappablePlainOffset, PerPageOffset
<1> QED
  BY <1>1, <1>3, <1>4, <1>5, <1>6

\* A page is no larger than an arena or a large object.
LEMMA PageIsLeast ==
    ASSUME CollectiveAssumption, NEW size \in {ArenaSize, LargeSize}
    PROVE  size \in Nat /\ size >= MapPageSize
<1>1. MapPageSize \in Nat /\ MapPageSize > 0 /\ BlockSize \in Nat /\ size \in Nat /\ size > 0
  BY Sizing
<1>2. PICK k \in Nat : size = k * MapPageSize
  <2>1. PICK a \in Nat, b \in Nat : ArenaSize = a * BlockSize /\ BlockSize = b * MapPageSize
    BY Sizing
  <2>2. ArenaSize = (a * b) * MapPageSize /\ a * b \in Nat
    BY <1>1, <2>1
  <2>3. PICK l \in Nat : LargeSize = l * MapPageSize
    BY Sizing
  <2> QED
    BY <2>2, <2>3
<1>3. 0 * MapPageSize <= k * MapPageSize - MapPageSize
  BY <1>1, <1>2, MultiplesApart
<1> QED
  BY <1>1, <1>2, <1>3
-----------------------------------------------------------------------------
(* AlignedMMap: the address is one of its kind, and inside of the padding. *)

LEMMA AlignedAddrFits ==
    ASSUME CollectiveAssumption, NEW offset \in Offset, NEW head \in MMapHeads,
           NEW size \in {ArenaSize, LargeSize}, head + size + MMapPadding <= SpaceSize
    PROVE  /\ AlignedAddr(head, offset) \in Nat
           /\ AlignedAddr(head, offset) % SubspaceInterval = offset
           /\ head <= AlignedAddr(head, offset)
           /\ AlignedAddr(head, offset) <= head + MMapPadding
<1> DEFINE S  == SubspaceInterval
           up == head - offset + S - 1
           q  == up \div S
           r  == up % S
           base == q * S + offset
<1>1. /\ MapPageSize \in Nat /\ MapPageSize > 0 /\ ArenaSize \in Nat /\ ArenaSize > 0
      /\ SpaceSize \in Nat /\ SpaceSize > 0
      /\ S = 4 * ArenaSize /\ offset \in {0, ArenaSize, 2 * ArenaSize}
      /\ size \in Nat /\ size >= MapPageSize
  BY Sizing, PageIsLeast
<1>2. head \in Nat /\ head % MapPageSize = 0
  BY DEF CollectiveAssumption
<1>3. MMapPadding = S - MapPageSize
  BY DEF MMapPadding
<1> HIDE DEF S
<1>4. up \in 0 .. SpaceSize - 1 /\ offset \in 0 .. S - 1 /\ S \in Nat /\ S > 0
  BY <1>1, <1>2, <1>3
<1>4a. up = head - offset + S - 1
  OBVIOUS
<1>4b. base = q * S + offset
  OBVIOUS
<1> HIDE DEF up, base
<1>5. up % SpaceSize = up
  BY <1>1, <1>4, SmallRest
<1>6. q \in Int /\ r \in 0 .. S - 1 /\ up = q * S + r
  BY <1>4, DivisionWithRest
<1> HIDE DEF q, r
<1>7. base \in Int /\ base = head + S - 1 - r
  BY <1>1, <1>2, <1>4, <1>6, <1>4a, <1>4b
<1>8. head <= base /\ base < head + S /\ base \in 0 .. SpaceSize - 1
  BY <1>1, <1>2, <1>3, <1>4, <1>6, <1>7
<1>9. base % SpaceSize = base
  BY <1>1, <1>8, SmallRest
<1>10. AlignedAddr(head, offset) = base
  BY <1>5, <1>9 DEF AlignedAddr, S, q, up, base
<1>11. base % S = offset
  BY <1>4, <1>6, <1>4b, Quotient
<1>12. base - head <= S - MapPageSize
  <2>1. PICK h \in Nat : head = h * MapPageSize
    BY <1>1, <1>2, Multiple
  <2>2. PICK a \in Nat, b \in Nat : ArenaSize = a * BlockSize /\ BlockSize = b * MapPageSize
    BY Sizing
  <2>3. ArenaSize = (a * b) * MapPageSize /\ a * b \in Nat
    BY <1>1, <2>2, Sizing
  <2>4. PICK c \in Nat : ArenaSize = c * MapPageSize
    BY <2>3
  <2>5. PICK o \in Nat : offset = o * ArenaSize
    <3>1. offset = 0 * ArenaSize \/ offset = 1 * ArenaSize \/ offset = 2 * ArenaSize
      BY <1>1
    <3> QED
      BY <3>1
  <2> DEFINE k == (4 * q + o) * c - h
  <2>6. k \in Int /\ base - head = k * MapPageSize
    <3>1. base = (4 * q + o) * ArenaSize
      BY <1>1, <1>6, <1>4b, <2>5
    <3>2. base = ((4 * q + o) * c) * MapPageSize
      BY <1>1, <1>6, <2>4, <3>1
    <3> QED
      BY <1>1, <1>6, <2>1, <3>2
  <2>7. 4 * c \in Nat /\ S = (4 * c) * MapPageSize
    BY <1>1, <2>4
  <2> HIDE DEF k
  <2>8. k * MapPageSize < (4 * c) * MapPageSize
    BY <1>1, <1>2, <1>4, <1>8, <2>6, <2>7
  <2>9. k * MapPageSize <= (4 * c) * MapPageSize - MapPageSize
    BY <1>1, <2>6, <2>7, <2>8, MultiplesApart
  <2> QED
    BY <2>6, <2>7, <2>9
<1> QED
  BY <1>1, <1>2, <1>3, <1>4, <1>8, <1>10, <1>11, <1>12 DEF S

-----------------------------------------------------------------------------
(* The inductive invariant.                                                *)

CollectiveTypeOK ==
    /\ pimpl \in [Handle -> Impl \cup {NoHandle, nullptr}]
    /\ ref_count \in [Impl -> Nat]
    /\ mappings \subseteq [impl : Impl, offset : Offset, base : Nat, size : {ArenaSize, LargeSize}]

\* What nothing refers to is not in an arena.
LostApart == \A a \in mappings : lost \cap Bytes(a) = {}

\* An object lies in its arena; that of a large mapping is the only one there.
Lies(o) ==
    /\ o = [arena |-> o.arena, addr |-> o.addr]
    /\ o.addr \in Bytes(o.arena) /\ o.addr < o.arena.base + ArenaSize
    /\ o.arena.size = LargeSize => o.addr = o.arena.base
ObjectsPlaced == \A o \in objects : o.arena \in mappings /\ Lies(o)

CollectiveInv == CollectiveTypeOK /\ RefsExact /\ MappingsExact /\ LostApart /\ ObjectsPlaced

-----------------------------------------------------------------------------
(* Counting handles.                                                       *)

Holders(p, i) == {h \in Handle : p[h] = i}
Count(p, i)   == Cardinality(Holders(p, i))

\* A step from p to r leaves all other handles alone.
OnlyOf(p, r, h) == \A g \in Handle \ {h} : r[g] = p[g]

\* It changes the counts of what h referred to and of what it refers to.
Recounted(p, r, h) ==
    \A i \in Impl : Count(r, i) = Count(p, i) - (IF p[h] = i THEN 1 ELSE 0)
                                             + (IF r[h] = i THEN 1 ELSE 0)

LEMMA CountIsNumber ==
    ASSUME CollectiveAssumption, NEW p, NEW i
    PROVE  Count(p, i) \in Nat
<1>1. IsFiniteSet(Holders(p, i))
  BY FS_Subset DEF CollectiveAssumption, Holders
<1> QED
  BY <1>1, FS_CardinalityType DEF Count

\* One handle that changes what it refers to changes two counts by one.
LEMMA CountChanges ==
    ASSUME CollectiveAssumption, NEW p, NEW r, NEW h \in Handle, OnlyOf(p, r, h)
    PROVE  Recounted(p, r, h)
<1> SUFFICES ASSUME NEW i \in Impl
             PROVE  Count(r, i) = Count(p, i) - (IF p[h] = i THEN 1 ELSE 0)
                                              + (IF r[h] = i THEN 1 ELSE 0)
  BY DEF Recounted
<1> DEFINE old  == Holders(p, i)
           rest == old \ {h}
           new  == Holders(r, i)
<1>1. IsFiniteSet(old) /\ Cardinality(old) \in Nat
  BY FS_Subset, FS_CardinalityType DEF CollectiveAssumption, Holders
<1>2. IsFiniteSet(rest) /\ Cardinality(rest) \in Nat /\ h \notin rest
      /\ Cardinality(rest) = Cardinality(old) - (IF p[h] = i THEN 1 ELSE 0)
  <2>1. h \in old <=> p[h] = i
    BY DEF Holders
  <2> HIDE DEF old, new
  <2>2. IsFiniteSet(rest) /\ Cardinality(rest) \in Nat
    BY <1>1, FS_Subset, FS_CardinalityType
  <2>3. Cardinality(rest) = Cardinality(old) - (IF h \in old THEN 1 ELSE 0)
    <3>1. CASE h \in old
      BY <1>1, <3>1, FS_RemoveElement
    <3>2. CASE h \notin old
      <4>1. rest = old
        BY <3>2
      <4> QED
        BY <1>1, <3>2, <4>1
    <3> QED
      BY <3>1, <3>2
  <2> QED
    BY <2>1, <2>2, <2>3
<1>3. new = IF r[h] = i THEN rest \cup {h} ELSE rest
  BY DEF Holders, OnlyOf
<1> HIDE DEF rest, new, old
<1>4. Cardinality(rest \cup {h}) = Cardinality(rest) + 1
  BY <1>2, FS_AddElement
<1> QED
  BY <1>1, <1>2, <1>3, <1>4 DEF Count, old, new

\* An Impl that a handle refers to is counted.
LEMMA HeldIsCounted ==
    ASSUME CollectiveAssumption, CollectiveTypeOK, RefsExact, NEW h \in Handle, Holds(h)
    PROVE  ref_count[pimpl[h]] \in Nat /\ ref_count[pimpl[h]] > 0
<1> DEFINE S == Holders(pimpl, pimpl[h])
<1>1. ref_count[pimpl[h]] = Cardinality(S)
  BY DEF RefsExact, Holds, Holders
<1>2. IsFiniteSet(S) /\ h \in S
  BY FS_Subset DEF CollectiveAssumption, Holders
<1> HIDE DEF S
<1>3. Cardinality(S) \in Nat /\ Cardinality(S) # 0
  BY <1>2, FS_CardinalityType, FS_EmptySet
<1> QED
  BY <1>1, <1>3

\* RefsExact in these words.
LEMMA RefsInCounts ==
    RefsExact <=> /\ \A i \in Impl : ref_count[i] = Count(pimpl, i)
                  /\ \A a \in mappings : ref_count[a.impl] > 0
BY DEF RefsExact, Count, Holders

-----------------------------------------------------------------------------
(* Arenas come and go.                                                     *)

\* Bytes speaks of no variable.
LEMMA BytesOfArena ==
    ASSUME CollectiveAssumption,
           NEW a \in [impl : Impl, offset : Offset, base : Nat, size : {ArenaSize, LargeSize}]
    PROVE  /\ a.impl \in Impl /\ a.offset \in Offset /\ a.base \in Nat /\ a.size \in Nat
           /\ a.size > 0 /\ \A x : x \in Bytes(a) <=> x \in Nat /\ a.base <= x /\ x < a.base + a.size
BY Sizing DEF Bytes

\* Arenas without objects take what was mapped of them with them, and no more.
LEMMA ArenasLeave ==
    ASSUME CollectiveInv, NEW R \in SUBSET mappings,
           mappings' = mappings \ R, mapped' = mapped \ UNION {Bytes(a) : a \in R},
           lost' = lost, objects' \subseteq objects, \A o \in objects' : o.arena \notin R
    PROVE  MappingsExact' /\ LostApart' /\ ObjectsPlaced'
<1>1. MappingsExact /\ LostApart /\ ObjectsPlaced
  BY DEF CollectiveInv
<1>2. mapped' = lost' \cup UNION {Bytes(a) : a \in mappings'}
  <2>1. \A x : x \in mapped <=> x \in lost \/ \E a \in mappings : x \in Bytes(a)
    BY <1>1 DEF MappingsExact
  <2>2. \A x : x \in mapped' <=> x \in mapped /\ ~\E a \in R : x \in Bytes(a)
    OBVIOUS
  <2>3. \A a \in R : \A b \in mappings' : Bytes(a) \cap Bytes(b) = {}
    BY <1>1 DEF MappingsExact
  <2>4. \A a \in R : lost \cap Bytes(a) = {}
    BY <1>1 DEF LostApart
  <2>5. \A x : x \in mapped' <=> x \in lost' \/ \E a \in mappings' : x \in Bytes(a)
    BY <2>1, <2>2, <2>3, <2>4
  <2> QED
    BY <2>5
<1>3. MappingsExact'
  BY <1>1, <1>2 DEF MappingsExact, Bytes
<1>4. LostApart'
  BY <1>1 DEF LostApart, Bytes
<1>5. ObjectsPlaced'
  BY <1>1 DEF ObjectsPlaced, Lies, Bytes
<1> QED
  BY <1>3, <1>4, <1>5

\* Nothing happens to the arenas.
LEMMA ArenasStay ==
    ASSUME CollectiveInv, UNCHANGED <<mappings, mapped, lost, objects>>
    PROVE  MappingsExact' /\ LostApart' /\ ObjectsPlaced'
BY DEF CollectiveInv, MappingsExact, LostApart, ObjectsPlaced, Lies, Bytes

\* dec_ref deletes the arenas of an Impl that nobody refers to and no others.
LEMMA Deleted ==
    ASSUME CollectiveInv, NEW i, Delete(i), UNCHANGED <<lost, objects>>,
           i \in Impl /\ ref_count'[i] = 0 => \A o \in objects : o.arena.impl # i
    PROVE  /\ MappingsExact' /\ LostApart' /\ ObjectsPlaced'
           /\ mappings' \subseteq mappings
           /\ \A a \in mappings' : i \in Impl /\ ref_count'[i] = 0 => a.impl # i
<1>1. CASE i \in Impl /\ ref_count'[i] = 0
  <2>1. Of(i) \in SUBSET mappings /\ \A a \in mappings : a \in Of(i) <=> a.impl = i
    BY DEF Of
  <2>2. mappings' = mappings \ Of(i) /\ mapped' = mapped \ UNION {Bytes(a) : a \in Of(i)}
    BY <1>1 DEF Delete
  <2>3. \A o \in objects' : o.arena \notin Of(i)
    BY <1>1, <2>1 DEF Of
  <2>4. MappingsExact' /\ LostApart' /\ ObjectsPlaced'
    BY <2>1, <2>2, <2>3, ArenasLeave
  <2> QED
    BY <2>1, <2>2, <2>4
<1>2. CASE ~(i \in Impl /\ ref_count'[i] = 0)
  <2>1. UNCHANGED <<mappings, mapped, lost, objects>>
    BY <1>2 DEF Delete
  <2> QED
    BY <1>2, <2>1, ArenasStay
<1> QED
  BY <1>1, <1>2
-----------------------------------------------------------------------------
(* Handles: one step for each operation.                                   *)

\* What a step owes: where it leaves the arenas to their owners, only the counts.
LEMMA RefsKept ==
    ASSUME CollectiveAssumption, CollectiveInv,
           pimpl' \in [Handle -> Impl \cup {NoHandle, nullptr}], DOMAIN ref_count' = Impl,
           \A i \in Impl : ref_count'[i] = Count(pimpl', i),
           MappingsExact', LostApart', ObjectsPlaced', mappings' \subseteq mappings,
           \A a \in mappings' : ref_count'[a.impl] # 0, ref_count' = [i \in Impl |-> ref_count'[i]]
    PROVE  CollectiveInv'
<1>1. \A i \in Impl : ref_count'[i] \in Nat
  BY CountIsNumber
<1>2. ref_count' \in [Impl -> Nat]
  BY <1>1
<1>3. mappings' \subseteq [impl : Impl, offset : Offset, base : Nat, size : {ArenaSize, LargeSize}]
  BY DEF CollectiveInv, CollectiveTypeOK
<1>4. CollectiveTypeOK'
  BY <1>2, <1>3 DEF CollectiveTypeOK
<1>5. \A a \in mappings' : ref_count'[a.impl] > 0
  BY <1>1, <1>3
<1>6. RefsExact'
  BY <1>5 DEF RefsExact, Count, Holders
<1> QED
  BY <1>4, <1>6 DEF CollectiveInv

LEMMA ConstructKeeps ==
    ASSUME CollectiveAssumption, CollectiveInv, NEW h \in Handle, NEW i \in Impl, construct(h, i)
    PROVE  CollectiveInv'
<1>1. CollectiveTypeOK /\ RefsExact
  BY DEF CollectiveInv
<1>2. /\ pimpl[h] = NoHandle /\ ref_count[i] = 0 /\ pimpl' = [pimpl EXCEPT ![h] = i]
      /\ ref_count' = [ref_count EXCEPT ![i] = 1] /\ NoHandle \notin Impl
  BY DEF construct, CollectiveAssumption
<1>3. DOMAIN pimpl = Handle
  BY <1>1 DEF CollectiveTypeOK
<1>4. \A j \in Impl : ref_count'[j] = Count(pimpl', j)
  <2> TAKE j \in Impl
  <2>1. ref_count[j] = Count(pimpl, j) /\ ref_count[j] \in Nat
    BY <1>1, RefsInCounts DEF CollectiveTypeOK
  <2>2. Count(pimpl', j) = Count(pimpl, j) + (IF i = j THEN 1 ELSE 0)
    <3>1. pimpl'[h] = i
      BY <1>2, <1>3
    <3>2. OnlyOf(pimpl, pimpl', h)
      BY <1>2, <1>3 DEF OnlyOf
    <3>3. Recounted(pimpl, pimpl', h)
      BY <3>2, CountChanges
    <3>4. Count(pimpl', j) = Count(pimpl, j) - (IF pimpl[h] = j THEN 1 ELSE 0)
                              + (IF pimpl'[h] = j THEN 1 ELSE 0)
      BY <3>3 DEF Recounted
    <3> QED
      BY <1>2, <2>1, <3>1, <3>4
  <2>3. ref_count'[j] = IF i = j THEN 1 ELSE ref_count[j]
    BY <1>1, <1>2 DEF CollectiveTypeOK
  <2> QED
    BY <1>2, <2>1, <2>2, <2>3
<1>5. MappingsExact' /\ LostApart' /\ ObjectsPlaced' /\ mappings' = mappings
  BY ArenasStay DEF construct
<1>6. \A a \in mappings' : ref_count'[a.impl] # 0
  BY <1>1, <1>2, <1>5 DEF CollectiveTypeOK, RefsExact
<1>7. /\ pimpl' \in [Handle -> Impl \cup {NoHandle, nullptr}]
      /\ ref_count' = [j \in Impl |-> ref_count'[j]]
  BY <1>1, <1>2 DEF CollectiveTypeOK
<1> QED
  BY <1>4, <1>5, <1>6, <1>7, RefsKept

LEMMA CopyConstructKeeps ==
    ASSUME CollectiveAssumption, CollectiveInv, NEW h \in Handle, NEW g \in Handle,
           copy_construct(h, g)
    PROVE  CollectiveInv'
<1>1. CollectiveTypeOK /\ RefsExact
  BY DEF CollectiveInv
<1>2. /\ pimpl[h] = NoHandle /\ pimpl[g] \in Impl /\ pimpl' = [pimpl EXCEPT ![h] = pimpl[g]]
      /\ ref_count' = [ref_count EXCEPT ![pimpl[g]] = @ + 1] /\ NoHandle \notin Impl
  BY DEF copy_construct, Holds, CollectiveAssumption
<1>3. DOMAIN pimpl = Handle
  BY <1>1 DEF CollectiveTypeOK
<1>4. \A j \in Impl : ref_count'[j] = Count(pimpl', j)
  <2> TAKE j \in Impl
  <2>1. ref_count[j] = Count(pimpl, j) /\ ref_count[j] \in Nat
    BY <1>1, RefsInCounts DEF CollectiveTypeOK
  <2>2. Count(pimpl', j) = Count(pimpl, j) + (IF pimpl[g] = j THEN 1 ELSE 0)
    <3>1. pimpl'[h] = pimpl[g]
      BY <1>2, <1>3
    <3>2. OnlyOf(pimpl, pimpl', h)
      BY <1>2, <1>3 DEF OnlyOf
    <3>3. Recounted(pimpl, pimpl', h)
      BY <3>2, CountChanges
    <3>4. Count(pimpl', j) = Count(pimpl, j) - (IF pimpl[h] = j THEN 1 ELSE 0)
                              + (IF pimpl'[h] = j THEN 1 ELSE 0)
      BY <3>3 DEF Recounted
    <3> QED
      BY <1>2, <2>1, <3>1, <3>4
  <2>3. ref_count'[j] = IF pimpl[g] = j THEN ref_count[j] + 1 ELSE ref_count[j]
    BY <1>1, <1>2 DEF CollectiveTypeOK
  <2> QED
    BY <2>1, <2>2, <2>3
<1>5. MappingsExact' /\ LostApart' /\ ObjectsPlaced' /\ mappings' = mappings
  BY ArenasStay DEF copy_construct
<1>6. \A a \in mappings' : ref_count'[a.impl] # 0
  BY <1>1, <1>2, <1>5 DEF CollectiveTypeOK, RefsExact
<1>7. /\ pimpl' \in [Handle -> Impl \cup {NoHandle, nullptr}]
      /\ ref_count' = [j \in Impl |-> ref_count'[j]]
  BY <1>1, <1>2 DEF CollectiveTypeOK
<1> QED
  BY <1>4, <1>5, <1>6, <1>7, RefsKept

LEMMA MoveConstructKeeps ==
    ASSUME CollectiveAssumption, CollectiveInv, NEW h \in Handle, NEW g \in Handle,
           move_construct(h, g)
    PROVE  CollectiveInv'
<1>1. CollectiveTypeOK /\ RefsExact
  BY DEF CollectiveInv
<1> DEFINE p == [pimpl EXCEPT ![h] = pimpl[g]]
<1>2. /\ pimpl[h] = NoHandle /\ pimpl[g] \in Impl
      /\ pimpl' = [p EXCEPT ![g] = nullptr] /\ p[g] = pimpl[g]
      /\ ref_count' = ref_count /\ {NoHandle, nullptr} \cap Impl = {}
  BY <1>1 DEF move_construct, Holds, CollectiveAssumption, CollectiveTypeOK
<1>3. DOMAIN pimpl = Handle /\ DOMAIN p = Handle
  BY <1>1 DEF CollectiveTypeOK
<1>4. \A j \in Impl : ref_count'[j] = Count(pimpl', j)
  <2> TAKE j \in Impl
  <2>1. ref_count[j] = Count(pimpl, j) /\ ref_count[j] \in Nat
    BY <1>1, RefsInCounts DEF CollectiveTypeOK
  <2>2. Count(p, j) = Count(pimpl, j) + (IF pimpl[g] = j THEN 1 ELSE 0)
    <3>1. p[h] = pimpl[g]
      BY <1>2, <1>3
    <3>2. OnlyOf(pimpl, p, h)
      BY <1>2, <1>3 DEF OnlyOf
    <3>3. Recounted(pimpl, p, h)
      BY <3>2, CountChanges
    <3>4. Count(p, j) = Count(pimpl, j) - (IF pimpl[h] = j THEN 1 ELSE 0)
                              + (IF p[h] = j THEN 1 ELSE 0)
      BY <3>3 DEF Recounted
    <3> QED
      BY <1>2, <2>1, <3>1, <3>4
  <2> HIDE DEF p
  <2>3. Count(pimpl', j) = Count(p, j) - (IF pimpl[g] = j THEN 1 ELSE 0)
    <3>1. Count(p, j) \in Nat /\ nullptr # j
      BY <1>2, CountIsNumber
    <3>2. pimpl'[g] = nullptr
      BY <1>2, <1>3
    <3>3. OnlyOf(p, pimpl', g)
      BY <1>2, <1>3 DEF OnlyOf
    <3>4. Recounted(p, pimpl', g)
      BY <3>3, CountChanges
    <3>5. Count(pimpl', j) = Count(p, j) - (IF p[g] = j THEN 1 ELSE 0)
                              + (IF pimpl'[g] = j THEN 1 ELSE 0)
      BY <3>4 DEF Recounted
    <3> QED
      BY <1>2, <3>1, <3>2, <3>5
  <2> QED
    BY <1>2, <2>1, <2>2, <2>3
<1>5. MappingsExact' /\ LostApart' /\ ObjectsPlaced' /\ mappings' = mappings
  BY ArenasStay DEF move_construct
<1>6. \A a \in mappings' : ref_count'[a.impl] # 0
  BY <1>1, <1>2, <1>5 DEF CollectiveTypeOK, RefsExact
<1>7. /\ pimpl' \in [Handle -> Impl \cup {NoHandle, nullptr}]
      /\ ref_count' = [j \in Impl |-> ref_count'[j]]
  BY <1>1, <1>2 DEF CollectiveTypeOK
<1> QED
  BY <1>4, <1>5, <1>6, <1>7, RefsKept

\* What assignments and destructors share: the only Impl that loses references is that
\* of h, and when it loses the last one it has no objects.
LEMMA ReleaseKeeps ==
    ASSUME CollectiveAssumption, CollectiveInv, NEW h \in Handle, Delete(pimpl[h]),
           UNCHANGED <<lost, objects>>,
           pimpl' \in [Handle -> Impl \cup {NoHandle, nullptr}],
           ref_count' = [j \in Impl |-> ref_count'[j]],
           \A j \in Impl : ref_count'[j] = Count(pimpl', j),
           \A j \in Impl : ref_count'[j] < ref_count[j] =>
              /\ j = pimpl[h]
              /\ ref_count'[j] = 0 => \A o \in objects : o.arena.impl # j
    PROVE  CollectiveInv'
<1>1. CollectiveTypeOK /\ RefsExact
  BY DEF CollectiveInv
<1>2. pimpl[h] \in Impl => ref_count[pimpl[h]] > 0
  BY <1>1, HeldIsCounted DEF Holds
<1>3. pimpl[h] \in Impl /\ ref_count'[pimpl[h]] = 0 => \A o \in objects : o.arena.impl # pimpl[h]
  BY <1>2
<1>4. /\ MappingsExact' /\ LostApart' /\ ObjectsPlaced' /\ mappings' \subseteq mappings
      /\ \A a \in mappings' : pimpl[h] \in Impl /\ ref_count'[pimpl[h]] = 0 => a.impl # pimpl[h]
  BY <1>3, Deleted
<1>5. ASSUME NEW a \in mappings'
      PROVE  ref_count'[a.impl] # 0
  <2>1. a.impl \in Impl /\ ref_count[a.impl] > 0
    BY <1>1, <1>4 DEF CollectiveTypeOK, RefsExact
  <2> QED
    BY <1>4, <2>1
<1> QED
  BY <1>4, <1>5, RefsKept

LEMMA CopyAssignKeeps ==
    ASSUME CollectiveAssumption, CollectiveInv, NEW h \in Handle, NEW g \in Handle,
           copy_assign(h, g)
    PROVE  CollectiveInv'
<1>1. CollectiveTypeOK /\ RefsExact
  BY DEF CollectiveInv
<1>2. /\ pimpl[g] \in Impl /\ pimpl' = [pimpl EXCEPT ![h] = pimpl[g]]
      /\ ref_count' = Released([ref_count EXCEPT ![pimpl[g]] = @ + 1], pimpl[h])
      /\ Delete(pimpl[h]) /\ UNCHANGED <<lost, objects>>
  BY DEF copy_assign, Holds, CopyAssigned
<1>3. DOMAIN pimpl = Handle /\ DOMAIN ref_count = Impl
  BY <1>1 DEF CollectiveTypeOK
<1>4. \A j \in Impl : /\ ref_count[j] = Count(pimpl, j) /\ ref_count[j] \in Nat
                      /\ ref_count'[j] = ref_count[j] - (IF pimpl[h] = j THEN 1 ELSE 0)
                                                      + (IF pimpl[g] = j THEN 1 ELSE 0)
  BY <1>1, <1>2, <1>3, RefsInCounts DEF CollectiveTypeOK, Released
<1>5. \A j \in Impl : ref_count'[j] = Count(pimpl', j)
  <2>1. pimpl'[h] = pimpl[g]
    BY <1>2, <1>3
  <2>2. OnlyOf(pimpl, pimpl', h)
    BY <1>2, <1>3 DEF OnlyOf
  <2>3. Recounted(pimpl, pimpl', h)
    BY <2>2, CountChanges
  <2>4. \A j \in Impl : Count(pimpl', j) = Count(pimpl, j) - (IF pimpl[h] = j THEN 1 ELSE 0)
                                                           + (IF pimpl'[h] = j THEN 1 ELSE 0)
    BY <2>3 DEF Recounted
  <2> QED
    BY <1>4, <2>1, <2>4
<1>6. ASSUME NEW j \in Impl, ref_count'[j] < ref_count[j]
      PROVE  j = pimpl[h] /\ (ref_count'[j] = 0 => \A o \in objects : o.arena.impl # j)
  <2>1. j = pimpl[h] /\ pimpl[g] # j /\ (ref_count'[j] = 0 => ref_count[j] = 1)
    BY <1>4, <1>6
  <2> QED
    BY <2>1 DEF copy_assign, MayGo, Holds
<1>7. /\ pimpl' \in [Handle -> Impl \cup {NoHandle, nullptr}]
      /\ ref_count' = [j \in Impl |-> ref_count'[j]]
  BY <1>1, <1>2 DEF CollectiveTypeOK, Released
<1> QED
  BY <1>2, <1>5, <1>6, <1>7, ReleaseKeeps

LEMMA MoveAssignKeeps ==
    ASSUME CollectiveAssumption, CollectiveInv, NEW h \in Handle, NEW g \in Handle,
           move_assign(h, g)
    PROVE  CollectiveInv'
<1> DEFINE p == [pimpl EXCEPT ![h] = pimpl[g]]
<1>1. CollectiveTypeOK /\ RefsExact
  BY DEF CollectiveInv
<1>2. /\ pimpl[g] \in Impl /\ pimpl' = [p EXCEPT ![g] = nullptr] /\ h # g
      /\ ref_count' = Released(ref_count, pimpl[h])
      /\ Delete(pimpl[h]) /\ UNCHANGED <<lost, objects>> /\ nullptr \notin Impl
  BY <1>1 DEF move_assign, Holds, CollectiveTypeOK, CollectiveAssumption
<1>3. DOMAIN pimpl = Handle /\ DOMAIN p = Handle /\ DOMAIN ref_count = Impl
  BY <1>1 DEF CollectiveTypeOK
<1>4. \A j \in Impl : /\ ref_count[j] = Count(pimpl, j) /\ ref_count[j] \in Nat
                      /\ ref_count'[j] = ref_count[j] - (IF pimpl[h] = j THEN 1 ELSE 0)
  BY <1>1, <1>2, <1>3, RefsInCounts DEF CollectiveTypeOK, Released
<1>5. \A j \in Impl : ref_count'[j] = Count(pimpl', j)
  <2>1. p[h] = pimpl[g] /\ p[g] = pimpl[g] /\ pimpl'[g] = nullptr
    BY <1>2, <1>3
  <2>2. OnlyOf(pimpl, p, h)
    BY <1>3 DEF OnlyOf
  <2>3. OnlyOf(p, pimpl', g)
    BY <1>2, <1>3 DEF OnlyOf
  <2> HIDE DEF p
  <2>4. Recounted(pimpl, p, h) /\ Recounted(p, pimpl', g)
    BY <2>2, <2>3, CountChanges
  <2>5. \A j \in Impl : Count(p, j) = Count(pimpl, j) - (IF pimpl[h] = j THEN 1 ELSE 0)
                                                      + (IF p[h] = j THEN 1 ELSE 0)
    BY <2>4 DEF Recounted
  <2>6. \A j \in Impl : Count(pimpl', j) = Count(p, j) - (IF p[g] = j THEN 1 ELSE 0)
                                                       + (IF pimpl'[g] = j THEN 1 ELSE 0)
    BY <2>4 DEF Recounted
  <2>7. \A j \in Impl : Count(p, j) \in Nat /\ pimpl'[g] # j
    BY <1>2, <2>1, CountIsNumber
  <2> QED
    BY <1>4, <2>1, <2>5, <2>6, <2>7
<1>6. ASSUME NEW j \in Impl, ref_count'[j] < ref_count[j]
      PROVE  j = pimpl[h] /\ (ref_count'[j] = 0 => \A o \in objects : o.arena.impl # j)
  <2>1. j = pimpl[h] /\ (ref_count'[j] = 0 => ref_count[j] = 1)
    BY <1>4, <1>6
  <2>2. ASSUME ref_count'[j] = 0
        PROVE  pimpl[g] # j
    <3> SUFFICES ASSUME pimpl[g] = j PROVE FALSE
      OBVIOUS
    <3>1. pimpl'[h] = j
      BY <1>2, <1>3
    <3>2. h \in Holders(pimpl', j) /\ IsFiniteSet(Holders(pimpl', j))
      BY <3>1, FS_Subset DEF Holders, CollectiveAssumption
    <3>3. Count(pimpl', j) # 0
      BY <3>2, FS_EmptySet DEF Count
    <3> QED
      BY <1>5, <2>2, <3>3
  <2> QED
    BY <2>1, <2>2 DEF move_assign, MayGo, Holds
<1>7. /\ pimpl' \in [Handle -> Impl \cup {NoHandle, nullptr}]
      /\ ref_count' = [j \in Impl |-> ref_count'[j]]
  BY <1>1, <1>2 DEF CollectiveTypeOK, Released
<1> QED
  BY <1>2, <1>5, <1>6, <1>7, ReleaseKeeps

LEMMA DestructKeeps ==
    ASSUME CollectiveAssumption, CollectiveInv, NEW h \in Handle, destruct(h)
    PROVE  CollectiveInv'
<1>1. CollectiveTypeOK /\ RefsExact
  BY DEF CollectiveInv
<1>2. /\ pimpl' = [pimpl EXCEPT ![h] = NoHandle] /\ ref_count' = Released(ref_count, pimpl[h])
      /\ Delete(pimpl[h]) /\ UNCHANGED <<lost, objects>> /\ NoHandle \notin Impl
  BY DEF destruct, CollectiveAssumption
<1>3. DOMAIN pimpl = Handle /\ DOMAIN ref_count = Impl
  BY <1>1 DEF CollectiveTypeOK
<1>4. \A j \in Impl : /\ ref_count[j] = Count(pimpl, j) /\ ref_count[j] \in Nat
                      /\ ref_count'[j] = ref_count[j] - (IF pimpl[h] = j THEN 1 ELSE 0)
  BY <1>1, <1>2, <1>3, RefsInCounts DEF CollectiveTypeOK, Released
<1>5. \A j \in Impl : ref_count'[j] = Count(pimpl', j)
  <2>1. pimpl'[h] = NoHandle
    BY <1>2, <1>3
  <2>2. OnlyOf(pimpl, pimpl', h)
    BY <1>2, <1>3 DEF OnlyOf
  <2>3. Recounted(pimpl, pimpl', h)
    BY <2>2, CountChanges
  <2>4. \A j \in Impl : Count(pimpl', j) = Count(pimpl, j) - (IF pimpl[h] = j THEN 1 ELSE 0)
                                                           + (IF pimpl'[h] = j THEN 1 ELSE 0)
    BY <2>3 DEF Recounted
  <2>5. \A j \in Impl : pimpl'[h] # j
    BY <1>2, <2>1
  <2> QED
    BY <1>4, <2>4, <2>5
<1>6. ASSUME NEW j \in Impl, ref_count'[j] < ref_count[j]
      PROVE  j = pimpl[h] /\ (ref_count'[j] = 0 => \A o \in objects : o.arena.impl # j)
  <2>1. j = pimpl[h] /\ (ref_count'[j] = 0 => ref_count[j] = 1)
    BY <1>4, <1>6
  <2> QED
    BY <2>1 DEF destruct, MayGo, Holds
<1>7. /\ pimpl' \in [Handle -> Impl \cup {NoHandle, nullptr}]
      /\ ref_count' = [j \in Impl |-> ref_count'[j]]
  BY <1>1, <1>2 DEF CollectiveTypeOK, Released
<1> QED
  BY <1>2, <1>5, <1>6, <1>7, ReleaseKeeps

-----------------------------------------------------------------------------
(* Mappings and objects.                                                   *)

\* Handles and counts stay, and all arenas are those of a held Impl.
LEMMA SameRefs ==
    ASSUME CollectiveInv, UNCHANGED <<pimpl, ref_count>>,
           mappings' \subseteq [impl : Impl, offset : Offset, base : Nat,
                              size : {ArenaSize, LargeSize}],
           \A a \in mappings' : a \in mappings \/ ref_count[a.impl] > 0,
           MappingsExact', LostApart', ObjectsPlaced'
    PROVE  CollectiveInv'
<1>1. CollectiveTypeOK'
  BY DEF CollectiveInv, CollectiveTypeOK
<1>2. RefsExact'
  BY DEF CollectiveInv, RefsExact
<1> QED
  BY <1>1, <1>2 DEF CollectiveInv

LEMMA CreateKeeps ==
    ASSUME CollectiveAssumption, CollectiveInv, NEW h \in Handle, NEW offset \in Offset,
           NEW head \in MMapHeads, NEW size \in Sizes(offset), AlignedMMap(h, offset, size, head)
    PROVE  CollectiveInv'
<1>1. CollectiveTypeOK /\ RefsExact /\ MappingsExact /\ LostApart /\ ObjectsPlaced
  BY DEF CollectiveInv
<1> DEFINE all == head .. head + size + MMapPadding - 1
<1>2. PICK base : base = AlignedAddr(head, offset)
  OBVIOUS
<1>3. PICK new : new = [impl |-> pimpl[h], offset |-> offset, base |-> base, size |-> size]
  OBVIOUS
<1>4. /\ pimpl[h] \in Impl /\ CanMap(head, size)
      /\ mapped' = mapped \cup (all \ ((head .. base - 1) \cup CutBehind(head, offset, size)))
      /\ mappings' = mappings \cup {new}
      /\ objects' = IF size = LargeSize THEN objects \cup {[arena |-> new, addr |-> base]}
                    ELSE objects
      /\ UNCHANGED <<pimpl, ref_count, lost>>
  BY <1>2, <1>3 DEF AlignedMMap, Holds
<1>5. size \in {ArenaSize, LargeSize} /\ size \in Nat /\ size > 0 /\ head \in Nat
  BY Sizing DEF Sizes, CollectiveAssumption
<1>6. MMapPadding \in Int /\ ArenaSize \in Nat /\ ArenaSize > 0
  BY Sizing DEF MMapPadding
<1>7. /\ lost = {} /\ all \cap mapped = {} /\ head + size + MMapPadding <= SpaceSize
  BY <1>4 DEF CanMap
<1>8. /\ base \in Nat /\ base % SubspaceInterval = offset
      /\ head <= base /\ base <= head + MMapPadding
  BY <1>2, <1>5, <1>7, AlignedAddrFits
<1>9. new \in [impl : Impl, offset : Offset, base : Nat, size : {ArenaSize, LargeSize}]
  BY <1>3, <1>4, <1>5, <1>8
<1>10. Bytes(new) = base .. base + size - 1
  BY <1>3 DEF Bytes
<1>11. all \ ((head .. base - 1) \cup CutBehind(head, offset, size)) = Bytes(new)
  <2>1. CutBehind(head, offset, size) = base + size .. head + size + MMapPadding - 1
    BY <1>2 DEF CutBehind
  <2> QED
    BY <1>5, <1>6, <1>8, <1>10, <2>1
<1>12. Bytes(new) \subseteq all
  BY <1>5, <1>6, <1>8, <1>10
<1> HIDE DEF all
<1>13. \A a \in mappings : Bytes(a) \subseteq mapped
  BY <1>1 DEF MappingsExact
<1>14. \A a \in mappings : Bytes(a) \cap Bytes(new) = {}
  BY <1>7, <1>12, <1>13
<1>15. \A a \in mappings' : Bytes(a)' = Bytes(a)
  BY DEF Bytes
<1>16. MappingsExact'
  <2>1. mapped' = lost' \cup UNION {Bytes(a) : a \in mappings'}
    <3>1. mapped' = mapped \cup Bytes(new)
      BY <1>4, <1>11
    <3>2. mapped = UNION {Bytes(a) : a \in mappings}
      BY <1>1, <1>7 DEF MappingsExact
    <3>3. UNION {Bytes(a) : a \in mappings'} = (UNION {Bytes(a) : a \in mappings}) \cup Bytes(new)
      BY <1>4
    <3> QED
      BY <1>4, <1>7, <3>1, <3>2, <3>3
  <2>2. \A a \in mappings' : a.base % SubspaceInterval = a.offset
    <3>1. new.base % SubspaceInterval = new.offset
      BY <1>3, <1>8
    <3> QED
      BY <1>1, <1>4, <3>1 DEF MappingsExact
  <2>3. \A a, b \in mappings' : a # b => Bytes(a) \cap Bytes(b) = {}
    BY <1>1, <1>4, <1>14 DEF MappingsExact
  <2> QED
    BY <2>1, <2>2, <2>3 DEF MappingsExact, Bytes
<1>17. LostApart'
  BY <1>4, <1>7 DEF LostApart
<1>18. ObjectsPlaced'
  <2>1. \A o \in objects : o.arena \in mappings' /\ Lies(o)
    BY <1>1, <1>4 DEF ObjectsPlaced
  <2> DEFINE u == [arena |-> new, addr |-> base]
  <2>2. u.arena = new /\ u.addr = base /\ new.base = base
    BY <1>3
  <2>3. u.arena \in mappings' /\ Lies(u)
    BY <1>4, <1>5, <1>6, <1>8, <1>10, <2>2 DEF Lies
  <2>4. \A o \in objects' : o.arena \in mappings' /\ Lies(o)
    BY <1>4, <2>1, <2>3
  <2> QED
    BY <2>4 DEF ObjectsPlaced, Lies, Bytes
<1>19. mappings' \subseteq [impl : Impl, offset : Offset, base : Nat, size : {ArenaSize, LargeSize}]
  BY <1>1, <1>4, <1>9 DEF CollectiveTypeOK
<1>20. \A a \in mappings' : a \in mappings \/ ref_count[a.impl] > 0
  BY <1>1, <1>3, <1>4, HeldIsCounted DEF Holds
<1> QED
  BY <1>4, <1>16, <1>17, <1>18, <1>19, <1>20, SameRefs

LEMMA CreateFailsKeeps ==
    ASSUME CollectiveAssumption, CollectiveInv, NEW h \in Handle, NEW offset \in Offset,
           NEW head \in MMapHeads, NEW size \in Sizes(offset),
           AlignedMMap_fails(h, offset, size, head)
    PROVE  CollectiveInv'
<1>1. CollectiveTypeOK /\ RefsExact /\ MappingsExact /\ LostApart /\ ObjectsPlaced
  BY DEF CollectiveInv
<1>2. PICK all : all = head .. head + size + MMapPadding - 1
  OBVIOUS
<1>3. /\ lost = {} /\ all \cap mapped = {} /\ lost' \subseteq all
      /\ mapped' = mapped \cup lost' /\ UNCHANGED <<pimpl, ref_count, mappings, objects>>
  BY <1>2 DEF AlignedMMap_fails, CanMap
<1>4. \A a \in mappings : Bytes(a) \subseteq mapped
  BY <1>1 DEF MappingsExact
<1>5. MappingsExact'
  BY <1>1, <1>3 DEF MappingsExact, Bytes
<1>6. LostApart'
  BY <1>3, <1>4 DEF LostApart, Bytes
<1>7. ObjectsPlaced'
  BY <1>1, <1>3 DEF ObjectsPlaced, Lies, Bytes
<1> QED
  BY <1>1, <1>3, <1>5, <1>6, <1>7, SameRefs DEF CollectiveTypeOK

LEMMA DestroyKeeps ==
    ASSUME CollectiveInv, NEW a \in mappings, MUnmap(a)
    PROVE  CollectiveInv'
<1>1. /\ mappings' = mappings \ {a} /\ mapped' = mapped \ UNION {Bytes(b) : b \in {a}}
      /\ UNCHANGED <<pimpl, ref_count, lost, objects>> /\ \A o \in objects : o.arena \notin {a}
  BY DEF MUnmap
<1>2. MappingsExact' /\ LostApart' /\ ObjectsPlaced'
  BY <1>1, ArenasLeave
<1> QED
  BY <1>1, <1>2, SameRefs DEF CollectiveInv, CollectiveTypeOK

LEMMA AllocateKeeps ==
    ASSUME CollectiveAssumption, CollectiveInv, NEW h \in Handle, allocate_object(h)
    PROVE  CollectiveInv'
<1>1. CollectiveTypeOK /\ MappingsExact /\ LostApart /\ ObjectsPlaced
  BY DEF CollectiveInv
<1>2. PICK a \in mappings : \E addr \in Places(a) :
         objects' = objects \cup {[arena |-> a, addr |-> addr]}
  BY DEF allocate_object
<1>3. PICK addr \in Places(a) : objects' = objects \cup {[arena |-> a, addr |-> addr]}
  BY <1>2
<1>4. UNCHANGED <<pimpl, ref_count, mappings, mapped, lost>>
  BY DEF allocate_object
<1>5. a.base \in Nat /\ a.size \in {ArenaSize, LargeSize}
  BY <1>1 DEF CollectiveTypeOK
<1>6. /\ MapPageSize \in Nat /\ BlockSize \in Nat /\ ArenaSize \in Nat
      /\ a.size # LargeSize => a.size = ArenaSize
  BY <1>5, Sizing
<1>7. /\ addr \in a.base .. a.base + a.size - 1
      /\ a.size = ArenaSize /\ a.size # LargeSize
  BY <1>5, <1>6 DEF Places
<1>8. addr \in Bytes(a) /\ addr < a.base + ArenaSize
  BY <1>5, <1>6, <1>7 DEF Bytes
<1>9. Lies([arena |-> a, addr |-> addr])
  BY <1>7, <1>8 DEF Lies
<1>10. ObjectsPlaced'
  BY <1>1, <1>3, <1>4, <1>9 DEF ObjectsPlaced
<1>11. MappingsExact' /\ LostApart'
  BY <1>1, <1>4 DEF MappingsExact, LostApart, Bytes
<1> QED
  BY <1>1, <1>4, <1>10, <1>11, SameRefs DEF CollectiveTypeOK

LEMMA DeallocateKeeps ==
    ASSUME CollectiveInv, NEW h \in Handle, NEW o \in objects, deallocate_object(h, o)
    PROVE  CollectiveInv'
<1>1. CollectiveTypeOK /\ MappingsExact /\ LostApart /\ ObjectsPlaced
  BY DEF CollectiveInv
<1>2. objects' = objects \ {o} /\ UNCHANGED <<pimpl, ref_count, lost>> /\ o.arena \in mappings
  BY <1>1 DEF deallocate_object, ObjectsPlaced
<1>3. CASE o.arena.size = LargeSize
  <2>1. /\ mappings' = mappings \ {o.arena}
        /\ mapped' = mapped \ UNION {Bytes(b) : b \in {o.arena}}
    BY <1>3 DEF deallocate_object
  <2>2. ASSUME NEW u \in objects', u.arena = o.arena
        PROVE  FALSE
    <3>1. u \in objects /\ u # o
      BY <1>2
    <3>2. Lies(u) /\ Lies(o)
      BY <1>1, <3>1 DEF ObjectsPlaced
    <3> QED
      BY <1>3, <2>2, <3>1, <3>2 DEF Lies
  <2>3. MappingsExact' /\ LostApart' /\ ObjectsPlaced'
    <3>1. {o.arena} \in SUBSET mappings /\ objects' \subseteq objects /\ lost' = lost
          /\ \A u \in objects' : u.arena \notin {o.arena}
      BY <1>2, <2>2
    <3> QED
      BY <2>1, <3>1, ArenasLeave
  <2> QED
    BY <1>1, <1>2, <2>1, <2>3, SameRefs DEF CollectiveTypeOK
<1>4. CASE o.arena.size # LargeSize
  <2>1. UNCHANGED <<mappings, mapped>>
    BY <1>4 DEF deallocate_object
  <2>2. MappingsExact' /\ LostApart' /\ ObjectsPlaced'
    BY <1>1, <1>2, <2>1 DEF MappingsExact, LostApart, ObjectsPlaced, Lies, Bytes
  <2> QED
    BY <1>1, <1>2, <2>1, <2>2, SameRefs DEF CollectiveTypeOK
<1> QED
  BY <1>3, <1>4

-----------------------------------------------------------------------------
(* The theorems.                                                           *)

\* A number of any page of an arena shows the kind of the arena and, without its
\* lower end, the block.
LEMMA AddressOfObject ==
    ASSUME CollectiveAssumption, NEW offset \in Offset, NEW base \in Nat, NEW addr \in Nat,
           base % SubspaceInterval = offset, base <= addr, addr < base + ArenaSize
    PROVE  /\ ArenaKind(addr) = offset
           /\ BlockHead(addr) = base + ((addr - base) \div BlockSize) * BlockSize
           /\ base <= BlockHead(addr) /\ BlockHead(addr) <= addr
<1>1. /\ BlockSize \in Nat /\ BlockSize > 0 /\ ArenaSize \in Nat /\ ArenaSize > 0
      /\ SubspaceInterval = 4 * ArenaSize /\ offset \in {0, ArenaSize, 2 * ArenaSize}
  BY Sizing
<1>2. PICK q \in Int : base = q * SubspaceInterval + offset
  <2>1. SubspaceInterval \in Nat /\ SubspaceInterval > 0
    BY <1>1
  <2>2. /\ base \div SubspaceInterval \in Int
        /\ base = (base \div SubspaceInterval) * SubspaceInterval + (base % SubspaceInterval)
    BY <2>1, DivisionWithRest
  <2> QED
    BY <2>2
<1>3. PICK d : d = addr - base
  OBVIOUS
<1>4. d \in 0 .. ArenaSize - 1 /\ addr = base + d
  BY <1>1, <1>3
<1>5. PICK k \in 0 .. 2 : offset = k * ArenaSize
  <2>1. offset = 0 * ArenaSize \/ offset = 1 * ArenaSize \/ offset = 2 * ArenaSize
    BY <1>1
  <2> QED
    BY <2>1
<1>6. addr % SubspaceInterval = offset + d
  <2>1. offset + d \in 0 .. SubspaceInterval - 1
    BY <1>1, <1>4
  <2>2. addr = q * SubspaceInterval + (offset + d)
    BY <1>1, <1>2, <1>4
  <2>3. SubspaceInterval \in Nat /\ SubspaceInterval > 0
    BY <1>1
  <2> HIDE DEF SubspaceInterval
  <2> QED
    BY <2>1, <2>2, <2>3, Quotient
<1>7. base = (4 * q + k) * ArenaSize
  BY <1>1, <1>2, <1>5
<1>8. addr % ArenaSize = d
  <2>1. addr = (4 * q + k) * ArenaSize + d /\ 4 * q + k \in Int
    BY <1>1, <1>4, <1>7
  <2> QED
    BY <1>1, <1>4, <2>1, Quotient
<1>9. ArenaKind(addr) = offset
  BY <1>1, <1>4, <1>6, <1>8 DEF ArenaKind
<1>10. PICK m \in Int : base = m * BlockSize
  <2>1. PICK a \in Nat : ArenaSize = a * BlockSize
    BY Sizing
  <2>2. base = ((4 * q + k) * a) * BlockSize /\ (4 * q + k) * a \in Int
    BY <1>1, <1>7, <2>1
  <2> QED
    BY <2>2
<1>11. PICK e \in Int, r \in 0 .. BlockSize - 1 :
          d = e * BlockSize + r /\ e = d \div BlockSize
  BY <1>1, <1>4, DivisionWithRest
<1>12. addr % BlockSize = r
  <2>1. addr = (m + e) * BlockSize + r /\ m + e \in Int
    BY <1>1, <1>4, <1>10, <1>11
  <2> QED
    BY <1>1, <2>1, Quotient
<1>13. BlockHead(addr) = addr - r
  BY <1>12 DEF BlockHead
<1>14. e * BlockSize >= 0
  <2>1. CASE e <= -1
    <3>1. e * BlockSize <= -BlockSize
      BY <1>1, <2>1
    <3> QED
      BY <1>1, <1>4, <1>11, <3>1
  <2> QED
    BY <1>1, <2>1
<1>15. BlockHead(addr) = base + e * BlockSize
  BY <1>1, <1>4, <1>11, <1>13
<1> QED
  BY <1>1, <1>3, <1>4, <1>9, <1>11, <1>13, <1>14, <1>15

\* The address of an object and its home.
LEMMA HomeOfObject ==
    ASSUME CollectiveAssumption, CollectiveInv, NEW o \in objects
    PROVE  /\ o.arena \in mappings /\ o.arena.offset \in Offset /\ o.addr \in Nat
           /\ ArenaKind(o.addr) = o.arena.offset
           /\ o.arena.offset = PerPageOffset => HomeOf(o).block = BlockHead(o.addr)
           /\ o.arena.offset # PerPageOffset => HomeOf(o).block = 0
           /\ HomeOf(o).offset = o.arena.offset
           /\ HomeOf(o) = [offset |-> HomeOf(o).offset, block |-> HomeOf(o).block]
           /\ BlockHead(o.addr) \in Bytes(o.arena)
<1>1. o.arena \in mappings /\ Lies(o)
  BY DEF CollectiveInv, ObjectsPlaced
<1>2. o.arena.base % SubspaceInterval = o.arena.offset
  BY <1>1 DEF CollectiveInv, MappingsExact
<1>3. /\ o.arena.offset \in Offset /\ o.arena.base \in Nat /\ o.arena.size \in Nat
      /\ o.addr \in Nat /\ o.arena.base <= o.addr /\ o.addr < o.arena.base + o.arena.size
      /\ o.addr < o.arena.base + ArenaSize
  BY <1>1, BytesOfArena DEF CollectiveInv, CollectiveTypeOK, Lies
<1>4. /\ ArenaKind(o.addr) = o.arena.offset
      /\ BlockHead(o.addr) =
            o.arena.base + ((o.addr - o.arena.base) \div BlockSize) * BlockSize
      /\ o.arena.base <= BlockHead(o.addr) /\ BlockHead(o.addr) <= o.addr
  BY <1>2, <1>3, AddressOfObject
<1>5. BlockHead(o.addr) \in Bytes(o.arena)
  <2>1. BlockHead(o.addr) \in Int
    <3>1. BlockSize \in Nat /\ BlockSize > 0
      BY Sizing
    <3> QED
      BY <1>3, <3>1 DEF BlockHead
  <2> QED
    BY <1>3, <1>4, <2>1 DEF Bytes
<1> QED
  BY <1>1, <1>3, <1>4, <1>5 DEF HomeOf

LEMMA InvGivesDispatch ==
    ASSUME CollectiveAssumption, CollectiveInv
    PROVE  DispatchExact
<1>1. /\ ArenaSize \in Nat /\ ArenaSize > 0 /\ Offset = {0, ArenaSize, 2 * ArenaSize}
      /\ PerPageOffset = 2 * ArenaSize
      /\ PurelyLocalOffset = 0 /\ SwappablePlainOffset = ArenaSize
  BY Sizing DEF PurelyLocalOffset, SwappablePlainOffset
<1>2. ASSUME NEW o \in objects
      PROVE  get_suballocator(o.addr) = HomeOf(o)
  <2>1. ArenaKind(o.addr) \in {PurelyLocalOffset, SwappablePlainOffset}
        <=> o.arena.offset # PerPageOffset
    BY <1>1, HomeOfObject
  <2> QED
    BY <2>1, HomeOfObject DEF get_suballocator
<1>3. ASSUME NEW o \in objects, NEW u \in objects
      PROVE  contains(HomeOf(u), o.addr) <=> HomeOf(u) = HomeOf(o)
  <2>1. CASE u.arena.offset # PerPageOffset
    <3>1. contains(HomeOf(u), o.addr) <=> o.arena.offset = u.arena.offset
      BY <2>1, HomeOfObject DEF contains
    <3> QED
      BY <2>1, <3>1, HomeOfObject
  <2>2. CASE u.arena.offset = PerPageOffset /\ o.arena.offset = PerPageOffset
    BY <2>2, HomeOfObject DEF contains
  <2>3. CASE u.arena.offset = PerPageOffset /\ o.arena.offset # PerPageOffset
    <3>1. contains(HomeOf(u), o.addr) <=> BlockHead(o.addr) = BlockHead(u.addr)
      BY <2>3, HomeOfObject DEF contains
    <3>2. Bytes(o.arena) \cap Bytes(u.arena) = {}
      <4>1. o.arena \in mappings /\ u.arena \in mappings /\ o.arena # u.arena
        BY <2>3, HomeOfObject
      <4> QED
        BY <4>1 DEF CollectiveInv, MappingsExact
    <3>3. BlockHead(o.addr) # BlockHead(u.addr)
      BY <3>2, HomeOfObject
    <3> QED
      BY <2>3, <3>1, <3>3, HomeOfObject
  <2> QED
    BY <2>1, <2>2, <2>3
<1> QED
  BY <1>2, <1>3 DEF DispatchExact

LEMMA CollectiveInitInv ==
    ASSUME CollectiveAssumption, CollectiveInit
    PROVE  CollectiveInv
<1>1. mappings = {} /\ mapped = {} /\ lost = {} /\ objects = {}
  BY DEF CollectiveInit
<1>2. CollectiveTypeOK
  BY DEF CollectiveInit, CollectiveTypeOK
<1>3. \A i \in Impl : Holders(pimpl, i) = {}
  BY DEF CollectiveInit, CollectiveAssumption, Holders
<1>4. RefsExact
  BY <1>1, <1>3, FS_EmptySet, RefsInCounts DEF CollectiveInit, Count
<1> QED
  BY <1>1, <1>2, <1>4 DEF CollectiveInv, MappingsExact, LostApart, ObjectsPlaced

LEMMA CollectiveNextInv ==
    ASSUME CollectiveAssumption, CollectiveInv, CollectiveNext
    PROVE  CollectiveInv'
<1>1. ASSUME NEW h \in Handle, NEW i \in Impl, construct(h, i)
      PROVE  CollectiveInv'
  BY <1>1, ConstructKeeps
<1>2. ASSUME NEW h \in Handle, NEW g \in Handle,
             \/ copy_construct(h, g) \/ move_construct(h, g)
             \/ copy_assign(h, g) \/ move_assign(h, g)
      PROVE  CollectiveInv'
  BY <1>2, CopyConstructKeeps, MoveConstructKeeps, CopyAssignKeeps, MoveAssignKeeps
<1>3. ASSUME NEW h \in Handle, destruct(h) \/ allocate_object(h)
      PROVE  CollectiveInv'
  BY <1>3, DestructKeeps, AllocateKeeps
<1>4. ASSUME NEW h \in Handle, NEW offset \in Offset, NEW head \in MMapHeads,
             NEW size \in Sizes(offset),
             AlignedMMap(h, offset, size, head) \/ AlignedMMap_fails(h, offset, size, head)
      PROVE  CollectiveInv'
  BY <1>4, CreateKeeps, CreateFailsKeeps
<1>5. ASSUME NEW h \in Handle, NEW o \in objects, deallocate_object(h, o)
      PROVE  CollectiveInv'
  BY <1>5, DeallocateKeeps
<1>6. ASSUME NEW a \in mappings, MUnmap(a)
      PROVE  CollectiveInv'
  BY <1>6, DestroyKeeps
<1> QED
  BY <1>1, <1>2, <1>3, <1>4, <1>5, <1>6 DEF CollectiveNext

LEMMA CollectiveStutters ==
    ASSUME CollectiveInv, UNCHANGED collective_vars
    PROVE  CollectiveInv'
<1>1. UNCHANGED <<pimpl, ref_count, mappings, mapped, lost, objects>>
  BY DEF collective_vars
<1>2. MappingsExact' /\ LostApart' /\ ObjectsPlaced'
  BY <1>1, ArenasStay
<1> QED
  BY <1>1, <1>2, SameRefs DEF CollectiveInv, CollectiveTypeOK

\* The invariant holds through all copies, moves and assignments of handles, mappings
\* that succeed and that fail, and all allocations.
THEOREM CollectiveInvHolds ==
    ASSUME CollectiveAssumption
    PROVE  CollectiveSpec => []CollectiveInv
<1>1. CollectiveInit => CollectiveInv
  BY CollectiveInitInv
<1>2. CollectiveInv /\ [CollectiveNext]_collective_vars => CollectiveInv'
  BY CollectiveNextInv, CollectiveStutters
<1> QED
  BY <1>1, <1>2, PTL DEF CollectiveSpec

\* Every Impl counts exactly the handles that refer to it, and arenas never outlive the
\* last of them (dec_ref, inc_ref).
THEOREM RefsExactHolds ==
    ASSUME CollectiveAssumption
    PROVE  CollectiveSpec => []RefsExact
<1>1. CollectiveInv => RefsExact
  BY DEF CollectiveInv
<1> QED
  BY <1>1, CollectiveInvHolds, PTL

\* AlignedMMap and MUnmap: mappings are disjoint, begin at the offset of their kind, and
\* nothing else is mapped than they and what a failed munmap left behind.
THEOREM MappingsExactHolds ==
    ASSUME CollectiveAssumption
    PROVE  CollectiveSpec => []MappingsExact
<1>1. CollectiveInv => MappingsExact
  BY DEF CollectiveInv
<1> QED
  BY <1>1, CollectiveInvHolds, PTL

\* deallocate finds the sub-allocator, and the block, of every object from its address.
THEOREM DispatchExactHolds ==
    ASSUME CollectiveAssumption
    PROVE  CollectiveSpec => []DispatchExact
<1>1. CollectiveInv => DispatchExact
  BY InvGivesDispatch
<1> QED
  BY <1>1, CollectiveInvHolds, PTL

-----------------------------------------------------------------------------
(* Relocation: where a call stands.                                        *)

\* The addresses of the first n parts, and that they are addresses of their own.
Held(p, n) == {p[j] : j \in 1 .. n}
Placed(p, n) == \A i \in 1 .. n : p[i] \in Addr /\ \A j \in 1 .. n : p[i] = p[j] => i = j

At       == {"idle", "allocate", "give_back", "move", "move_back", "free_old"}
Outcome  == {"none", "done", "failed"}
CallType == [at : At, i : 0 .. NParts + 1, outcome : Outcome]

RelocationTypeOK ==
    /\ ptrs \in [Parts -> Addr \cup {0}]
    /\ to_ptrs \in [Parts -> Addr \cup {0}]
    /\ orig_from \in [Parts -> Addr \cup {0}]
    /\ used \subseteq Addr /\ leaked \subseteq Addr /\ Cardinality(leaked) <= MaxLeaks
    /\ contents \in [Addr -> Parts \cup {0}]
    /\ call \in CallType

\* The memory in use is that of the first m new parts, of the first n old ones, and
\* what is lost; nothing is counted twice.
Uses(m, n) ==
    /\ Placed(to_ptrs, m) /\ Placed(orig_from, n)
    /\ used = Held(to_ptrs, m) \cup Held(orig_from, n) \cup leaked
    /\ Held(to_ptrs, m) \cap Held(orig_from, n) = {}
    /\ (Held(to_ptrs, m) \cup Held(orig_from, n)) \cap leaked = {}

\* The first k pointers of the caller are to the new memory, the others to the old.
Moved(k) == \A j \in Parts : ptrs[j] = IF j <= k THEN to_ptrs[j] ELSE orig_from[j]

\* A caller that has no parts has no old ones.
OldParts == IF orig_from = NoPtrs THEN 0 ELSE NParts

ContentsFollow == \A j \in Parts : ptrs[j] # 0 => contents[ptrs[j]] = j

\* Between calls: the caller has all parts or none.
AtRest ==
    LET n == IF ptrs = NoPtrs THEN 0 ELSE NParts
    IN  /\ Placed(ptrs, n)
        /\ used = Held(ptrs, n) \cup leaked /\ Held(ptrs, n) \cap leaked = {}
        /\ call.outcome = "failed" => ptrs = orig_from
        /\ call.outcome = "done" => \A i \in Parts : ptrs[i] \notin {0, orig_from[i]}

\* Where each call stands with part call.i.
Accounted ==
    /\ call.at = "idle" => AtRest
    /\ call.at = "allocate" => Uses(call.i - 1, OldParts) /\ Moved(0) /\ call.i > 0
    /\ call.at = "give_back" => Uses(call.i, OldParts) /\ Moved(0) /\ call.i < NParts
    /\ call.at = "move" => /\ Uses(NParts, NParts) /\ Moved(call.i - 1)
                           /\ call.i \in Parts
    /\ call.at = "move_back" => Uses(call.i, NParts) /\ Moved(call.i) /\ call.i < NParts
    /\ call.at = "free_old" => /\ Uses(NParts, call.i) /\ Moved(NParts) /\ call.i <= NParts
                               /\ \A j \in Parts : to_ptrs[j] # orig_from[j]

RelocationInv == RelocationTypeOK /\ ContentsFollow /\ Accounted

-----------------------------------------------------------------------------
(* Memory does not run out within the bounds of the model.                 *)

\* Every set of naturals that has an element has a least one.
LEMMA LeastNumber ==
    ASSUME NEW T \in SUBSET Nat, T # {}
    PROVE  \E x \in T : \A y \in T : x <= y
<1>1. IsWellFoundedOn(OpToRel(<, Nat), Nat)
  BY NatLessThanWellFounded
<1>2. PICK x \in T : \A y \in T : ~(<<y, x>> \in OpToRel(<, Nat))
  BY <1>1, WFMin
<1>3. \A y \in T : ~(y < x)
  BY <1>2, Zenon DEF OpToRel
<1> QED
  BY <1>3

\* n parts have at most n addresses.
LEMMA HeldBounded ==
    ASSUME NEW p, NEW n \in Nat
    PROVE  IsFiniteSet(Held(p, n)) /\ Cardinality(Held(p, n)) <= n
<1> DEFINE f == [j \in 1 .. n |-> p[j]]
<1>1. f \in Surjection(1 .. n, Held(p, n))
  BY Fun_IsSurj DEF Held
<1>2. IsFiniteSet(1 .. n) /\ Cardinality(1 .. n) = n
  BY FS_Interval
<1> HIDE DEF f
<1> QED
  BY <1>1, <1>2, FS_Surjection

\* Of two sets of addresses there are no more than of both together.
LEMMA UnionBounded ==
    ASSUME NEW S, NEW T, IsFiniteSet(S), IsFiniteSet(T)
    PROVE  IsFiniteSet(S \cup T)
           /\ Cardinality(S \cup T) <= Cardinality(S) + Cardinality(T)
<1>1. Cardinality(S \cup T) = Cardinality(S) + Cardinality(T) - Cardinality(S \cap T)
  BY FS_Union
<1>2. Cardinality(S \cap T) \in Nat /\ Cardinality(S) \in Nat /\ Cardinality(T) \in Nat
  BY FS_Intersection, FS_CardinalityType
<1> QED
  BY <1>1, <1>2, FS_Union

\* While a part is still to be allocated, there is a free address for it.
LEMMA FreshAddrIsFree ==
    ASSUME RelocationAssumption, NEW m \in 0 .. NParts - 1, Uses(m, OldParts),
           used \subseteq Addr, leaked \subseteq Addr, Cardinality(leaked) <= MaxLeaks
    PROVE  FreshAddr \in Addr \ used
<1>0. NParts \in Nat /\ MaxLeaks \in Nat /\ Addr = 1 .. 2 * NParts + MaxLeaks
  BY DEF RelocationAssumption
<1>1. IsFiniteSet(Addr) /\ Cardinality(Addr) = 2 * NParts + MaxLeaks
  BY <1>0, FS_Interval
<1>2. IsFiniteSet(leaked) /\ Cardinality(leaked) \in Nat
  BY <1>1, FS_Subset, FS_CardinalityType
<1>3. OldParts \in Nat /\ OldParts <= NParts
  BY <1>0 DEF OldParts
<1> DEFINE new == Held(to_ptrs, m)
           old == Held(orig_from, OldParts)
<1>4. /\ IsFiniteSet(new) /\ Cardinality(new) <= m /\ Cardinality(new) \in Nat
      /\ IsFiniteSet(old) /\ Cardinality(old) <= OldParts /\ Cardinality(old) \in Nat
  BY <1>0, <1>3, HeldBounded, FS_CardinalityType
<1>5. used = (new \cup old) \cup leaked
  BY DEF Uses
<1> HIDE DEF new, old
<1>6. IsFiniteSet(new \cup old) /\ Cardinality(new \cup old) <= m + OldParts
  <2>1. IsFiniteSet(new \cup old)
        /\ Cardinality(new \cup old) <= Cardinality(new) + Cardinality(old)
    BY <1>4, UnionBounded
  <2>2. Cardinality(new \cup old) \in Nat
    BY <2>1, FS_CardinalityType
  <2> QED
    BY <1>0, <1>3, <1>4, <2>1, <2>2
<1>7. Cardinality(used) <= m + OldParts + MaxLeaks
  <2>1. /\ IsFiniteSet(used)
        /\ Cardinality(used) <= Cardinality(new \cup old) + Cardinality(leaked)
    BY <1>2, <1>5, <1>6, UnionBounded
  <2>2. Cardinality(used) \in Nat /\ Cardinality(new \cup old) \in Nat
    BY <1>6, <2>1, FS_CardinalityType
  <2> QED
    BY <1>0, <1>2, <1>3, <1>6, <2>1, <2>2
<1>8. used # Addr
  BY <1>0, <1>1, <1>3, <1>7
<1>9. Addr \ used \in SUBSET Nat /\ Addr \ used # {}
  <2>1. Addr \subseteq Nat
    BY <1>0
  <2> QED
    BY <1>8, <2>1
<1>10. \E a \in Addr \ used : \A b \in Addr \ used : a <= b
  BY <1>9, LeastNumber
<1> QED
  BY <1>10 DEF FreshAddr
-----------------------------------------------------------------------------
(* Every step preserves the invariant.  The position of a call is given a  *)
(* name, i, so that what is primed is the state alone.                     *)

LEMMA CallRecord ==
    ASSUME RelocationAssumption, NEW at \in At, NEW i \in 0 .. NParts + 1,
           NEW outcome \in Outcome
    PROVE  /\ Call(at, i, outcome) \in CallType
           /\ Call(at, i, outcome).at = at /\ Call(at, i, outcome).i = i
           /\ Call(at, i, outcome).outcome = outcome
BY DEF Call, CallType

\* Where a call stands, from the invariant.
LEMMA CallStands ==
    ASSUME RelocationAssumption, RelocationInv
    PROVE  /\ NParts \in Nat /\ NParts > 0 /\ 0 \notin Addr
           /\ RelocationTypeOK /\ ContentsFollow /\ Accounted
           /\ call.i \in 0 .. NParts + 1
BY DEF RelocationAssumption, RelocationInv, RelocationTypeOK, CallType

LEMMA RelocationInitEstablishes ==
    ASSUME RelocationAssumption, RelocationInit
    PROVE  RelocationInv
<1>1. Cardinality({}) = 0
  BY FS_EmptySet
<1>2. call = Call("idle", 0, "none") /\ 0 \in 0 .. NParts + 1
  BY DEF RelocationInit, RelocationAssumption
<1>3. call \in CallType /\ call.at = "idle" /\ call.outcome = "none"
  BY <1>2, CallRecord DEF At, Outcome
<1>4. RelocationTypeOK
  BY <1>1, <1>3 DEF RelocationInit, RelocationTypeOK, NoPtrs, RelocationAssumption
<1>5. ContentsFollow
  BY DEF RelocationInit, ContentsFollow, NoPtrs
<1>6. AtRest
  BY <1>3 DEF RelocationInit, AtRest, Placed, Held
<1> QED
  BY <1>3, <1>4, <1>5, <1>6 DEF RelocationInv, Accounted

\* A call begins: what the caller has, if anything, is the old memory.
LEMMA CallPreserves ==
    ASSUME RelocationAssumption, RelocationInv, call_batch_allocate
    PROVE  RelocationInv'
<1>1. PICK i \in 0 .. NParts + 1 : i = call.i
  BY CallStands
<1>2. /\ NParts \in Nat /\ NParts > 0 /\ 0 \notin Addr
      /\ RelocationTypeOK /\ ContentsFollow /\ Accounted
  BY CallStands
<1>3. AtRest
  BY <1>1, <1>2 DEF call_batch_allocate, Accounted, Idle
<1>4. call' = Call("allocate", 1, "none")
  BY <1>1 DEF call_batch_allocate
<1>5. call' \in CallType /\ call'.at = "allocate" /\ call'.i = 1 /\ call'.outcome = "none"
  <2>1. 1 \in 0 .. NParts + 1
    BY <1>2, <1>3 DEF Parts
  <2> QED
    BY <1>4, <2>1, CallRecord DEF At, Outcome
<1>6. RelocationTypeOK'
  BY <1>2, <1>5 DEF call_batch_allocate, RelocationTypeOK, NoPtrs
<1>7. ContentsFollow'
  BY <1>2 DEF call_batch_allocate, ContentsFollow
<1>8. Uses(0, OldParts)' /\ Moved(0)'
  BY <1>2, <1>3 DEF call_batch_allocate, AtRest, Uses, Moved, OldParts, Placed, Held, Parts
<1> QED
  BY <1>5, <1>6, <1>7, <1>8 DEF RelocationInv, Accounted

\* The address is in nobody's hands, so that the new parts stay apart.
LEMMA AllocatePartPreserves ==
    ASSUME RelocationAssumption, RelocationInv, allocate_part
    PROVE  RelocationInv'
<1>1. PICK i \in 0 .. NParts + 1 : i = call.i
  BY CallStands
<1>2. /\ NParts \in Nat /\ NParts > 0 /\ 0 \notin Addr
      /\ RelocationTypeOK /\ ContentsFollow /\ Accounted
  BY CallStands
<1>3. i \in Parts /\ i - 1 \in 0 .. NParts - 1 /\ Uses(i - 1, OldParts) /\ Moved(0)
  BY <1>1, <1>2 DEF allocate_part, Accounted, Parts
<1>4. call' = Call("allocate", i + 1, "none")
  BY <1>1 DEF allocate_part
<1>5. call' \in CallType /\ call'.at = "allocate" /\ call'.i = i + 1 /\ call'.outcome = "none"
  <2>1. i + 1 \in 0 .. NParts + 1
    BY <1>2, <1>3 DEF Parts
  <2> QED
    BY <1>4, <2>1, CallRecord DEF At, Outcome
<1>6. FreshAddr \in Addr \ used
  BY <1>2, <1>3, FreshAddrIsFree DEF RelocationTypeOK
<1>7. RelocationTypeOK'
  BY <1>1, <1>2, <1>5, <1>6 DEF allocate_part, RelocationTypeOK
<1>8. ContentsFollow' /\ Moved(0)'
  BY <1>2, <1>3 DEF allocate_part, ContentsFollow, Moved, Parts
<1>9. Uses(i, OldParts)'
  <2> PICK n : n = OldParts
    OBVIOUS
  <2>1. OldParts' = n
    BY DEF OldParts, allocate_part
  <2>2. \A j \in 1 .. i - 1 : to_ptrs'[j] = to_ptrs[j]
    BY <1>1, <1>2, <1>3 DEF allocate_part, RelocationTypeOK, Parts
  <2>3. to_ptrs'[i] = FreshAddr
    BY <1>1, <1>2, <1>3 DEF allocate_part, RelocationTypeOK, Parts
  <2>4. Held(to_ptrs', i) = Held(to_ptrs, i - 1) \cup {FreshAddr}
    BY <1>3, <2>2, <2>3 DEF Held, Parts
  <2>5. Placed(to_ptrs', i)
    BY <1>3, <1>6, <2>2, <2>3 DEF Uses, Placed, Held, Parts
  <2>6. Uses(i - 1, n)
    BY <1>3
  <2>7. Uses(i, n)'
    BY <1>6, <2>4, <2>5, <2>6 DEF Uses, allocate_part
  <2> QED
    BY <2>1, <2>7
<1> QED
  BY <1>3, <1>5, <1>7, <1>8, <1>9 DEF RelocationInv, Accounted, Parts

LEMMA AllocateThrowsPreserves ==
    ASSUME RelocationAssumption, RelocationInv, allocate_part_throws
    PROVE  RelocationInv'
<1>1. PICK i \in 0 .. NParts + 1 : i = call.i
  BY CallStands
<1>2. /\ NParts \in Nat /\ NParts > 0 /\ 0 \notin Addr
      /\ RelocationTypeOK /\ ContentsFollow /\ Accounted
  BY CallStands
<1>3. i \in Parts /\ Uses(i - 1, OldParts) /\ Moved(0)
  BY <1>1, <1>2 DEF allocate_part_throws, Accounted, Parts
<1>4. call' = Call("give_back", i - 1, "none")
  BY <1>1 DEF allocate_part_throws
<1>5. call' \in CallType /\ call'.at = "give_back" /\ call'.i = i - 1 /\ call'.outcome = "none"
  <2>1. i - 1 \in 0 .. NParts + 1
    BY <1>2, <1>3 DEF Parts
  <2> QED
    BY <1>4, <2>1, CallRecord DEF At, Outcome
<1>6. RelocationTypeOK' /\ ContentsFollow'
  BY <1>2, <1>5 DEF allocate_part_throws, RelocationTypeOK, ContentsFollow
<1>7. Uses(i - 1, OldParts)' /\ Moved(0)'
  BY <1>3 DEF allocate_part_throws, Uses, Moved, OldParts
<1> QED
  BY <1>2, <1>3, <1>5, <1>6, <1>7 DEF RelocationInv, Accounted, Parts

\* The last of the new parts goes; nobody else has its address.
LEMMA GiveBackPreserves ==
    ASSUME RelocationAssumption, RelocationInv, give_back_part
    PROVE  RelocationInv'
<1>1. PICK i \in 0 .. NParts + 1 : i = call.i
  BY CallStands
<1>2. /\ NParts \in Nat /\ NParts > 0 /\ 0 \notin Addr
      /\ RelocationTypeOK /\ ContentsFollow /\ Accounted
  BY CallStands
<1>3. i \in Parts /\ i < NParts /\ Uses(i, OldParts) /\ Moved(0)
  BY <1>1, <1>2 DEF give_back_part, Accounted, Parts
<1>4. call' = Call("give_back", i - 1, "none")
  BY <1>1 DEF give_back_part
<1>5. call' \in CallType /\ call'.at = "give_back" /\ call'.i = i - 1 /\ call'.outcome = "none"
  <2>1. i - 1 \in 0 .. NParts + 1
    BY <1>2, <1>3 DEF Parts
  <2> QED
    BY <1>4, <2>1, CallRecord DEF At, Outcome
<1>6. RelocationTypeOK'
  BY <1>1, <1>2, <1>5 DEF give_back_part, Free, RelocationTypeOK
<1> DEFINE a == to_ptrs[i]
<1>7. used' = used \ {a} /\ contents' = [contents EXCEPT ![a] = 0]
  BY <1>1 DEF give_back_part, Free
<1>8. /\ a \in Addr /\ a \notin Held(orig_from, OldParts) /\ a \notin leaked
      /\ Held(to_ptrs, i - 1) = Held(to_ptrs, i) \ {a}
  BY <1>3 DEF Uses, Held, Placed, Parts
<1>9. Uses(i - 1, OldParts)'
  <2>1. Placed(to_ptrs, i - 1)
    BY <1>3 DEF Uses, Placed, Parts
  <2>2. UNCHANGED <<to_ptrs, orig_from, leaked>> /\ OldParts' = OldParts
    BY DEF give_back_part, OldParts
  <2> QED
    BY <1>3, <1>7, <1>8, <2>1, <2>2 DEF Uses
<1>10. Moved(0)'
  BY <1>3 DEF give_back_part, Moved
<1>11. ContentsFollow'
  <2>1. \A j \in Parts : ptrs[j] # 0 => ptrs[j] # a
    BY <1>2, <1>3, <1>8 DEF Moved, OldParts, NoPtrs, Held, Parts
  <2>2. \A j \in Parts : ptrs[j] # 0 => ptrs[j] \in Addr
    BY <1>2 DEF RelocationTypeOK
  <2> QED
    BY <1>2, <1>7, <2>1, <2>2 DEF give_back_part, ContentsFollow, RelocationTypeOK
<1> QED
  BY <1>2, <1>3, <1>5, <1>6, <1>9, <1>10, <1>11 DEF RelocationInv, Accounted, Parts

LEMMA ReturnNothingPreserves ==
    ASSUME RelocationAssumption, RelocationInv, return_nothing
    PROVE  RelocationInv'
<1>1. PICK i \in 0 .. NParts + 1 : i = call.i
  BY CallStands
<1>2. /\ NParts \in Nat /\ NParts > 0 /\ 0 \notin Addr
      /\ RelocationTypeOK /\ ContentsFollow /\ Accounted
  BY CallStands
<1>3. Uses(0, OldParts) /\ Moved(0)
  BY <1>1, <1>2 DEF return_nothing, Accounted
<1>4. call' = Call("idle", 0, "failed")
  BY <1>1 DEF return_nothing
<1>5. call' \in CallType /\ call'.at = "idle" /\ call'.i = 0 /\ call'.outcome = "failed"
  <2>1. 0 \in 0 .. NParts + 1
    BY <1>2, <1>3 DEF Parts
  <2> QED
    BY <1>4, <2>1, CallRecord DEF At, Outcome
<1>6. ptrs = orig_from
  BY <1>2, <1>3 DEF Moved, RelocationTypeOK, Parts
<1>7. RelocationTypeOK' /\ ContentsFollow'
  BY <1>2, <1>5 DEF return_nothing, RelocationTypeOK, ContentsFollow
<1>8. AtRest'
  BY <1>3, <1>5, <1>6 DEF return_nothing, AtRest, Uses, OldParts, Held, Placed
<1> QED
  BY <1>5, <1>7, <1>8 DEF RelocationInv, Accounted

\* The new parts are the caller's, and each address leads to one part.
LEMMA ReturnAllocatedPreserves ==
    ASSUME RelocationAssumption, RelocationInv, return_allocated
    PROVE  RelocationInv'
<1>1. PICK i \in 0 .. NParts + 1 : i = call.i
  BY CallStands
<1>2. /\ NParts \in Nat /\ NParts > 0 /\ 0 \notin Addr
      /\ RelocationTypeOK /\ ContentsFollow /\ Accounted
  BY CallStands
<1>3. Uses(NParts, OldParts) /\ Moved(0)
  BY <1>1, <1>2 DEF return_allocated, Accounted
<1>4. call' = Call("idle", 0, "done")
  BY <1>1 DEF return_allocated
<1>5. call' \in CallType /\ call'.at = "idle" /\ call'.i = 0 /\ call'.outcome = "done"
  <2>1. 0 \in 0 .. NParts + 1
    BY <1>2, <1>3 DEF Parts
  <2> QED
    BY <1>4, <2>1, CallRecord DEF At, Outcome
<1>6. ptrs = orig_from /\ OldParts = 0
  BY <1>2, <1>3 DEF return_allocated, Moved, RelocationTypeOK, Parts, OldParts
<1>7. RelocationTypeOK'
  <2>1. contents' \in [Addr -> Parts \cup {0}]
    BY <1>2 DEF return_allocated, RelocationTypeOK
  <2> QED
    BY <1>2, <1>5, <2>1 DEF return_allocated, RelocationTypeOK
<1>8. \A j, k \in Parts : to_ptrs[j] \in Addr /\ (to_ptrs[j] = to_ptrs[k] => j = k)
  BY <1>3 DEF Uses, Placed, Parts
<1>9. ContentsFollow'
  BY <1>8 DEF return_allocated, ContentsFollow
<1>10. AtRest'
  <2>1. to_ptrs # NoPtrs
    BY <1>2, <1>8 DEF NoPtrs, Parts
  <2>2. Placed(to_ptrs, NParts) /\ used = Held(to_ptrs, NParts) \cup leaked
        /\ Held(to_ptrs, NParts) \cap leaked = {}
    BY <1>3, <1>6 DEF Uses, Held
  <2>3. \A j \in Parts : to_ptrs[j] \notin {0, orig_from[j]}
    BY <1>2, <1>6, <1>8 DEF return_allocated, NoPtrs
  <2> QED
    BY <1>5, <2>1, <2>2, <2>3 DEF return_allocated, AtRest
<1> QED
  BY <1>5, <1>7, <1>9, <1>10 DEF RelocationInv, Accounted

-----------------------------------------------------------------------------
(* relocate_helper                                                         *)

LEMMA CallHelperPreserves ==
    ASSUME RelocationAssumption, RelocationInv, call_relocate_helper
    PROVE  RelocationInv'
<1>1. PICK i \in 0 .. NParts + 1 : i = call.i
  BY CallStands
<1>2. /\ NParts \in Nat /\ NParts > 0 /\ 0 \notin Addr
      /\ RelocationTypeOK /\ ContentsFollow /\ Accounted
  BY CallStands
<1>3. Uses(NParts, OldParts) /\ Moved(0)
  BY <1>1, <1>2 DEF call_relocate_helper, Accounted, Relocating
<1>4. call' = Call("move", 1, "none")
  BY <1>1 DEF call_relocate_helper
<1>5. call' \in CallType /\ call'.at = "move" /\ call'.i = 1 /\ call'.outcome = "none"
  <2>1. 1 \in 0 .. NParts + 1
    BY <1>2, <1>3 DEF Parts
  <2> QED
    BY <1>4, <2>1, CallRecord DEF At, Outcome
<1>6. OldParts = NParts
  BY <1>2, <1>3 DEF call_relocate_helper, Relocating, Moved, OldParts, NoPtrs,
     RelocationTypeOK, Parts
<1>7. RelocationTypeOK' /\ ContentsFollow'
  BY <1>2, <1>5 DEF call_relocate_helper, RelocationTypeOK, ContentsFollow
<1>8. Uses(NParts, NParts)' /\ Moved(0)'
  BY <1>3, <1>6 DEF call_relocate_helper, Uses, Moved
<1> QED
  BY <1>2, <1>5, <1>7, <1>8 DEF RelocationInv, Accounted, Parts

\* The contents of one part go to the new memory and the pointer follows.
LEMMA MovePartPreserves ==
    ASSUME RelocationAssumption, RelocationInv, move_part
    PROVE  RelocationInv'
<1>1. PICK i \in 0 .. NParts + 1 : i = call.i
  BY CallStands
<1>2. /\ NParts \in Nat /\ NParts > 0 /\ 0 \notin Addr
      /\ RelocationTypeOK /\ ContentsFollow /\ Accounted
  BY CallStands
<1>3. i \in Parts /\ Uses(NParts, NParts) /\ Moved(i - 1)
  BY <1>1, <1>2 DEF move_part, Accounted
<1> DEFINE new == to_ptrs[i]
           old == orig_from[i]
<1>4. /\ ptrs[i] = old
      /\ new \in Addr /\ old \in Addr /\ new # old
  BY <1>3 DEF Moved, Uses, Placed, Held, Parts
<1>5. /\ contents' = [contents EXCEPT ![new] = contents[old], ![old] = 0]
      /\ ptrs' = [ptrs EXCEPT ![i] = new]
      /\ UNCHANGED <<used, to_ptrs, orig_from, leaked>>
  BY <1>1, <1>4 DEF move_part, Moves
<1>6. call' = IF i < NParts THEN Call("move", i + 1, "none")
              ELSE Call("free_old", NParts, "none")
  BY <1>1 DEF move_part
<1>7. RelocationTypeOK'
  <2>1. call' \in CallType
    BY <1>2, <1>3, <1>6, CallRecord DEF At, Outcome, Parts
  <2>2. ptrs' \in [Parts -> Addr \cup {0}]
    BY <1>2, <1>4, <1>5 DEF RelocationTypeOK
  <2>3. contents' \in [Addr -> Parts \cup {0}]
    BY <1>2, <1>4, <1>5 DEF RelocationTypeOK
  <2> QED
    BY <1>2, <1>5, <2>1, <2>2, <2>3 DEF RelocationTypeOK
<1>8. Uses(NParts, NParts)'
  BY <1>3, <1>5 DEF Uses
<1>9. Moved(i)'
  BY <1>2, <1>3, <1>5 DEF Moved, RelocationTypeOK, Parts
<1>10. ContentsFollow'
  <2>1. \A j \in Parts \ {i} : ptrs[j] \in Addr /\ ptrs[j] # new /\ ptrs[j] # old
    BY <1>3 DEF Moved, Uses, Placed, Held, Parts
  <2>2. contents[old] = i
    BY <1>2, <1>3, <1>4 DEF ContentsFollow
  <2>3. contents'[new] = i
    BY <1>2, <1>4, <1>5, <2>2 DEF RelocationTypeOK
  <2>4. \A j \in Parts \ {i} : ptrs'[j] = ptrs[j] /\ contents'[ptrs[j]] = contents[ptrs[j]]
    BY <1>2, <1>5, <2>1 DEF RelocationTypeOK
  <2>5. ptrs'[i] = new
    BY <1>2, <1>3, <1>5 DEF RelocationTypeOK
  <2> QED
    BY <1>2, <2>1, <2>3, <2>4, <2>5 DEF ContentsFollow
<1>11. CASE i < NParts
  <2>1. call'.at = "move" /\ call'.i = i + 1
    BY <1>2, <1>3, <1>6, <1>11, CallRecord DEF At, Outcome, Parts
  <2> QED
    BY <1>2, <1>3, <1>7, <1>8, <1>9, <1>10, <1>11, <2>1 DEF RelocationInv, Accounted, Parts
<1>12. CASE i = NParts
  <2>1. call'.at = "free_old" /\ call'.i = NParts
    BY <1>2, <1>6, <1>12, CallRecord DEF At, Outcome
  <2>2. \A j \in Parts : to_ptrs'[j] # orig_from'[j]
    BY <1>3, <1>5 DEF Uses, Held, Parts
  <2> QED
    BY <1>2, <1>7, <1>8, <1>9, <1>10, <1>12, <2>1, <2>2 DEF RelocationInv, Accounted
<1> QED
  BY <1>2, <1>3, <1>11, <1>12 DEF Parts

\* The new memory of the parts that were not moved is lost.
LEMMA FuncThrowsPreserves ==
    ASSUME RelocationAssumption, RelocationInv, func_throws
    PROVE  RelocationInv'
<1>1. PICK i \in 0 .. NParts + 1 : i = call.i
  BY CallStands
<1>2. /\ NParts \in Nat /\ NParts > 0 /\ 0 \notin Addr
      /\ RelocationTypeOK /\ ContentsFollow /\ Accounted
  BY CallStands
<1>3. i \in Parts /\ Uses(NParts, NParts) /\ Moved(i - 1)
  BY <1>1, <1>2 DEF func_throws, Accounted
<1>4. call' = Call("move_back", i - 1, "none")
  BY <1>1 DEF func_throws
<1>5. call' \in CallType /\ call'.at = "move_back" /\ call'.i = i - 1 /\ call'.outcome = "none"
  <2>1. i - 1 \in 0 .. NParts + 1
    BY <1>2, <1>3 DEF Parts
  <2> QED
    BY <1>4, <2>1, CallRecord DEF At, Outcome
<1> DEFINE rest == {to_ptrs[j] : j \in i .. NParts}
<1>6. /\ leaked' = leaked \cup rest /\ Cardinality(leaked') <= MaxLeaks
      /\ UNCHANGED <<ptrs, used, contents, to_ptrs, orig_from>>
  BY <1>1 DEF func_throws
<1>7. rest \subseteq Addr /\ rest \cap Held(to_ptrs, i - 1) = {}
      /\ rest \cap Held(orig_from, NParts) = {}
      /\ Held(to_ptrs, NParts) = Held(to_ptrs, i - 1) \cup rest
  BY <1>2, <1>3 DEF Uses, Placed, Held, Parts
<1> HIDE DEF rest
<1>8. RelocationTypeOK'
  BY <1>2, <1>5, <1>6, <1>7 DEF RelocationTypeOK
<1>9. ContentsFollow' /\ Moved(i - 1)'
  BY <1>2, <1>3, <1>6 DEF ContentsFollow, Moved
<1>10. Uses(i - 1, NParts)'
  <2>1. Placed(to_ptrs, i - 1)
    BY <1>2, <1>3 DEF Uses, Placed, Parts
  <2> QED
    BY <1>3, <1>6, <1>7, <2>1 DEF Uses
<1> QED
  BY <1>2, <1>3, <1>5, <1>8, <1>9, <1>10 DEF RelocationInv, Accounted, Parts

\* One part goes back to where it was, and its new memory with it.
LEMMA MoveBackPreserves ==
    ASSUME RelocationAssumption, RelocationInv, move_back
    PROVE  RelocationInv'
<1>1. PICK i \in 0 .. NParts + 1 : i = call.i
  BY CallStands
<1>2. /\ NParts \in Nat /\ NParts > 0 /\ 0 \notin Addr
      /\ RelocationTypeOK /\ ContentsFollow /\ Accounted
  BY CallStands
<1>3. i \in Parts /\ i < NParts /\ Uses(i, NParts) /\ Moved(i)
  BY <1>1, <1>2 DEF move_back, Accounted, Parts
<1>4. call' = Call("move_back", i - 1, "none")
  BY <1>1 DEF move_back
<1>5. call' \in CallType /\ call'.at = "move_back" /\ call'.i = i - 1 /\ call'.outcome = "none"
  <2>1. i - 1 \in 0 .. NParts + 1
    BY <1>2, <1>3 DEF Parts
  <2> QED
    BY <1>4, <2>1, CallRecord DEF At, Outcome
<1> DEFINE new == to_ptrs[i]
           old == orig_from[i]
<1>6. /\ ptrs[i] = new /\ new \in Addr /\ old \in Addr /\ new # old
      /\ new \notin Held(orig_from, NParts) /\ new \notin leaked
      /\ Held(to_ptrs, i - 1) = Held(to_ptrs, i) \ {new}
  BY <1>3 DEF Moved, Uses, Placed, Held, Parts
<1>7. /\ contents' = [contents EXCEPT ![old] = contents[new], ![new] = 0]
      /\ used' = used \ {new}
      /\ ptrs' = [ptrs EXCEPT ![i] = old]
      /\ UNCHANGED <<to_ptrs, orig_from, leaked>>
  BY <1>1, <1>6 DEF move_back, Moves
<1>8. RelocationTypeOK'
  <2>1. ptrs' \in [Parts -> Addr \cup {0}]
    BY <1>2, <1>6, <1>7 DEF RelocationTypeOK
  <2>2. contents' \in [Addr -> Parts \cup {0}]
    BY <1>2, <1>6, <1>7 DEF RelocationTypeOK
  <2> QED
    BY <1>2, <1>5, <1>7, <2>1, <2>2 DEF RelocationTypeOK
<1>9. Uses(i - 1, NParts)'
  <2>1. Placed(to_ptrs, i - 1)
    BY <1>3 DEF Uses, Placed, Parts
  <2> QED
    BY <1>3, <1>6, <1>7, <2>1 DEF Uses
<1>10. Moved(i - 1)'
  BY <1>2, <1>3, <1>7 DEF Moved, RelocationTypeOK, Parts
<1>11. ContentsFollow'
  <2>1. \A j \in Parts \ {i} : ptrs[j] \in Addr /\ ptrs[j] # new /\ ptrs[j] # old
    BY <1>3 DEF Moved, Uses, Placed, Held, Parts
  <2>2. contents'[old] = i
    BY <1>2, <1>3, <1>6, <1>7 DEF ContentsFollow, RelocationTypeOK
  <2>3. \A j \in Parts \ {i} : ptrs'[j] = ptrs[j] /\ contents'[ptrs[j]] = contents[ptrs[j]]
    BY <1>2, <1>7, <2>1 DEF RelocationTypeOK
  <2>4. ptrs'[i] = old
    BY <1>2, <1>3, <1>7 DEF RelocationTypeOK
  <2> QED
    BY <1>2, <2>1, <2>2, <2>3, <2>4 DEF ContentsFollow
<1> QED
  BY <1>2, <1>3, <1>5, <1>8, <1>9, <1>10, <1>11 DEF RelocationInv, Accounted, Parts

LEMMA RethrowPreserves ==
    ASSUME RelocationAssumption, RelocationInv, rethrow
    PROVE  RelocationInv'
<1>1. PICK i \in 0 .. NParts + 1 : i = call.i
  BY CallStands
<1>2. /\ NParts \in Nat /\ NParts > 0 /\ 0 \notin Addr
      /\ RelocationTypeOK /\ ContentsFollow /\ Accounted
  BY CallStands
<1>3. Uses(0, NParts) /\ Moved(0)
  BY <1>1, <1>2 DEF rethrow, Accounted
<1>4. call' = Call("idle", 0, "failed")
  BY <1>1 DEF rethrow
<1>5. call' \in CallType /\ call'.at = "idle" /\ call'.i = 0 /\ call'.outcome = "failed"
  <2>1. 0 \in 0 .. NParts + 1
    BY <1>2, <1>3 DEF Parts
  <2> QED
    BY <1>4, <2>1, CallRecord DEF At, Outcome
<1>6. ptrs = orig_from
  BY <1>2, <1>3 DEF Moved, RelocationTypeOK, Parts
<1>7. RelocationTypeOK' /\ ContentsFollow'
  BY <1>2, <1>5 DEF rethrow, RelocationTypeOK, ContentsFollow
<1>8. ptrs # NoPtrs
  BY <1>2, <1>3, <1>6 DEF NoPtrs, Uses, Placed, Parts
<1>9. AtRest'
  BY <1>3, <1>5, <1>6, <1>8 DEF rethrow, AtRest, Uses, Held, Placed
<1> QED
  BY <1>5, <1>7, <1>9 DEF RelocationInv, Accounted

\* All contents are in the new memory when the old memory is freed.
LEMMA FreeOldPreserves ==
    ASSUME RelocationAssumption, RelocationInv, free_old
    PROVE  RelocationInv'
<1>1. PICK i \in 0 .. NParts + 1 : i = call.i
  BY CallStands
<1>2. /\ NParts \in Nat /\ NParts > 0 /\ 0 \notin Addr
      /\ RelocationTypeOK /\ ContentsFollow /\ Accounted
  BY CallStands
<1>3. /\ i \in Parts /\ Uses(NParts, i) /\ Moved(NParts)
      /\ \A j \in Parts : to_ptrs[j] # orig_from[j]
  BY <1>1, <1>2 DEF free_old, Accounted, Parts
<1>4. call' = Call("free_old", i - 1, "none")
  BY <1>1 DEF free_old
<1>5. call' \in CallType /\ call'.at = "free_old" /\ call'.i = i - 1 /\ call'.outcome = "none"
  <2>1. i - 1 \in 0 .. NParts + 1
    BY <1>2, <1>3 DEF Parts
  <2> QED
    BY <1>4, <2>1, CallRecord DEF At, Outcome
<1> DEFINE a == orig_from[i]
<1>6. /\ a \in Addr /\ a \notin Held(to_ptrs, NParts) /\ a \notin leaked
      /\ Held(orig_from, i - 1) = Held(orig_from, i) \ {a}
  BY <1>3 DEF Uses, Placed, Held, Parts
<1>7. /\ used' = used \ {a} /\ contents' = [contents EXCEPT ![a] = 0]
      /\ UNCHANGED <<ptrs, to_ptrs, orig_from, leaked>>
  BY <1>1 DEF free_old, Free
<1>8. RelocationTypeOK'
  BY <1>2, <1>5, <1>7 DEF RelocationTypeOK
<1>9. Uses(NParts, i - 1)'
  <2>1. Placed(orig_from, i - 1)
    BY <1>3 DEF Uses, Placed, Parts
  <2> QED
    BY <1>3, <1>6, <1>7, <2>1 DEF Uses
<1>10. Moved(NParts)' /\ \A j \in Parts : to_ptrs'[j] # orig_from'[j]
  BY <1>3, <1>7 DEF Moved
<1>11. ContentsFollow'
  <2>1. \A j \in Parts : ptrs[j] \in Addr /\ ptrs[j] # a
    BY <1>3, <1>6 DEF Moved, Uses, Placed, Held, Parts
  <2> QED
    BY <1>2, <1>7, <2>1 DEF ContentsFollow, RelocationTypeOK
<1> QED
  BY <1>2, <1>3, <1>5, <1>8, <1>9, <1>10, <1>11 DEF RelocationInv, Accounted, Parts

LEMMA ReturnRelocatedPreserves ==
    ASSUME RelocationAssumption, RelocationInv, return_relocated
    PROVE  RelocationInv'
<1>1. PICK i \in 0 .. NParts + 1 : i = call.i
  BY CallStands
<1>2. /\ NParts \in Nat /\ NParts > 0 /\ 0 \notin Addr
      /\ RelocationTypeOK /\ ContentsFollow /\ Accounted
  BY CallStands
<1>3. /\ Uses(NParts, 0) /\ Moved(NParts)
      /\ \A j \in Parts : to_ptrs[j] # orig_from[j]
  BY <1>1, <1>2 DEF return_relocated, Accounted
<1>4. call' = Call("idle", 0, "done")
  BY <1>1 DEF return_relocated
<1>5. call' \in CallType /\ call'.at = "idle" /\ call'.i = 0 /\ call'.outcome = "done"
  <2>1. 0 \in 0 .. NParts + 1
    BY <1>2, <1>3 DEF Parts
  <2> QED
    BY <1>4, <2>1, CallRecord DEF At, Outcome
<1>6. ptrs = to_ptrs
  BY <1>2, <1>3 DEF Moved, RelocationTypeOK, Parts
<1>7. RelocationTypeOK' /\ ContentsFollow'
  BY <1>2, <1>5 DEF return_relocated, RelocationTypeOK, ContentsFollow
<1>8. ptrs # NoPtrs /\ \A j \in Parts : ptrs[j] # 0
  BY <1>2, <1>3, <1>6 DEF NoPtrs, Uses, Placed, Parts
<1>9. AtRest'
  BY <1>3, <1>5, <1>6, <1>8 DEF return_relocated, AtRest, Uses, Held, Placed
<1> QED
  BY <1>5, <1>7, <1>9 DEF RelocationInv, Accounted

\* The caller gives everything back; only what was lost stays in use.
LEMMA DeallocatePreserves ==
    ASSUME RelocationAssumption, RelocationInv, deallocate_parts
    PROVE  RelocationInv'
<1>1. PICK i \in 0 .. NParts + 1 : i = call.i
  BY CallStands
<1>2. /\ NParts \in Nat /\ NParts > 0 /\ 0 \notin Addr
      /\ RelocationTypeOK /\ ContentsFollow /\ Accounted
  BY CallStands
<1>3. AtRest
  BY <1>1, <1>2 DEF deallocate_parts, Accounted, Idle
<1>4. call' = Call("idle", 0, "none")
  BY <1>1 DEF deallocate_parts
<1>5. call' \in CallType /\ call'.at = "idle" /\ call'.i = 0 /\ call'.outcome = "none"
  <2>1. 0 \in 0 .. NParts + 1
    BY <1>2, <1>3 DEF Parts
  <2> QED
    BY <1>4, <2>1, CallRecord DEF At, Outcome
<1>6. RelocationTypeOK'
  <2>1. ptrs' \in [Parts -> Addr \cup {0}]
    BY DEF deallocate_parts, NoPtrs
  <2>2. contents' \in [Addr -> Parts \cup {0}]
    BY <1>2 DEF deallocate_parts, RelocationTypeOK
  <2> QED
    BY <1>2, <1>5, <2>1, <2>2 DEF deallocate_parts, RelocationTypeOK
<1>7. ContentsFollow'
  BY DEF deallocate_parts, ContentsFollow, NoPtrs
<1>8. AtRest'
  BY <1>3, <1>5 DEF deallocate_parts, AtRest, Held, Placed, Parts
<1> QED
  BY <1>5, <1>6, <1>7, <1>8 DEF RelocationInv, Accounted

-----------------------------------------------------------------------------
\* The invariant holds in every reachable state.
THEOREM RelocationInvHolds ==
    ASSUME RelocationAssumption PROVE RelocationSpec => []RelocationInv
<1>1. RelocationInit => RelocationInv
  BY RelocationInitEstablishes
<1>2. RelocationInv /\ [RelocationNext]_relocation_vars => RelocationInv'
  <2> SUFFICES ASSUME RelocationInv, [RelocationNext]_relocation_vars PROVE RelocationInv'
    OBVIOUS
  <2>1. CASE UNCHANGED relocation_vars
    <3>1. UNCHANGED relocation_vars
      BY <2>1
    <3>2. AtRest' = AtRest /\ OldParts' = OldParts
      BY <3>1 DEF relocation_vars, AtRest, OldParts
    <3>3. \A m, n : Uses(m, n)' = Uses(m, n) /\ Moved(m)' = Moved(m)
      BY <3>1 DEF relocation_vars, Uses, Moved
    <3>4. Accounted'
      BY <3>1, <3>2, <3>3 DEF relocation_vars, RelocationInv, Accounted
    <3> QED
      BY <3>1, <3>4 DEF relocation_vars, RelocationInv, RelocationTypeOK, ContentsFollow
  <2>2. CASE RelocationNext
    BY <2>2, CallPreserves, AllocatePartPreserves, AllocateThrowsPreserves, GiveBackPreserves,
       ReturnNothingPreserves, ReturnAllocatedPreserves, CallHelperPreserves,
       MovePartPreserves, FuncThrowsPreserves, MoveBackPreserves, RethrowPreserves,
       FreeOldPreserves, ReturnRelocatedPreserves, DeallocatePreserves DEF RelocationNext
  <2> QED
    BY <2>1, <2>2
<1> QED
  BY <1>1, <1>2, PTL DEF RelocationSpec

\* A call moves all parts or none, and between calls no memory is in use but the
\* caller's and what was lost when func threw.
THEOREM AllOrNothingHolds ==
    ASSUME RelocationAssumption PROVE RelocationSpec => []AllOrNothing
<1>1. RelocationInv => AllOrNothing
  <2> SUFFICES ASSUME RelocationInv, Idle PROVE AllOrNothing
    BY DEF AllOrNothing
  <2>1. AtRest /\ ContentsFollow /\ RelocationTypeOK
    BY DEF RelocationInv, Accounted, Idle
  <2>2. used = ({ptrs[i] : i \in Parts} \ {0}) \cup leaked
    <3>1. CASE ptrs = NoPtrs
      BY <2>1, <3>1 DEF AtRest, Held, NoPtrs, Parts
    <3>2. CASE ptrs # NoPtrs
      <4>1. 0 \notin Held(ptrs, NParts) /\ used = Held(ptrs, NParts) \cup leaked
        BY <2>1, <3>2 DEF AtRest, Held, Placed, RelocationAssumption
      <4> QED
        BY <4>1 DEF Held, Parts
    <3> QED
      BY <3>1, <3>2
  <2> QED
    BY <2>1, <2>2 DEF AllOrNothing, AtRest, ContentsFollow
<1> QED
  BY <1>1, RelocationInvHolds, PTL
=============================================================================
