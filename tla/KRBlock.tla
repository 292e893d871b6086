------------------------------- MODULE KRBlock -------------------------------
(***************************************************************************)
(* The allocator inside one block of the per-page sub-allocator            *)
(* (PerPageSuballocatorTemplate, per-page_suballocator.ipp): next fit over *)
(* a circular list of free pieces, sorted by address.                      *)
(*                                                                         *)
(* Every free piece begins with a header {next, size}, of positions and    *)
(* sizes in the block; the header at 0 has size 0 and never leaves the     *)
(* list.  Everything is counted in headers (sizes are rounded up to them). *)
(* The two loops over the list take one step of the model per iteration;   *)
(* op is the call in progress with its local variables prev and cursor.    *)
(* A caller's data overwrites the headers in its memory: Data stands there.*)
(***************************************************************************)
EXTENDS Integers, FiniteSets, TLC

CONSTANTS
    NHeaders,       \* size of the block, in headers
    head_addr,      \* address of the block
    DataAlignment,  \* the largest power of two that divides NHeaders
    Aligns,         \* alignments that callers ask for
    SizeModulus,    \* size_t and uintptr_t count modulo this number
    MaxLive,        \* bound of the model on objects in the block
    Data            \* not a header

VARIABLES
    next, size,     \* the headers in the block
    freep,          \* metadata.freep: where the next search begins
    usage,          \* metadata.usage
    op,             \* the call in progress
    live,           \* auxiliary: objects, <<position, size, alignment>>
    released        \* auxiliary: return_block has given the block back

block_vars == <<next, size, freep, usage, op, live, released>>

Pos == 0 .. NHeaders - 1
NoOp == [name |-> "none", n |-> 0, at |-> 0, align |-> 1, prev |-> 0, cursor |-> 0]

\* An alignment that divides neither DataAlignment nor head_addr is left out: for it
\* pos_aligned, an unsigned difference, wraps around and passes the comparison
\* with cursor, and the object would lie in front of the block.
BlockAssumption ==
    /\ NHeaders \in Nat /\ NHeaders >= 2
    /\ head_addr \in Nat /\ DataAlignment \in Nat \ {0}
    /\ NHeaders % DataAlignment = 0 /\ head_addr % DataAlignment = 0
    /\ Aligns \subseteq Nat \ {0}
    /\ \A al \in Aligns : DataAlignment % al = 0 \/ head_addr % al = 0
    /\ SizeModulus \in Nat /\ SizeModulus > head_addr + 2 * NHeaders
    /\ Data \notin Int

\* PerPageSuballocatorTemplate::initialize: one free piece behind the header 0.
FreshNext == [p \in Pos |-> IF p = 0 THEN 1 ELSE IF p = 1 THEN 0 ELSE Data]
FreshSize == [p \in Pos |-> IF p = 0 THEN 0 ELSE IF p = 1 THEN NHeaders - 1 ELSE Data]

BlockInit ==
    /\ next = FreshNext /\ size = FreshSize
    /\ freep = 0 /\ usage = 0
    /\ op = NoOp
    /\ live = {}
    /\ released = FALSE

Overwrite(f, from, n) == [p \in Pos |-> IF p \in from .. (from + n - 1) THEN Data ELSE f[p]]

-----------------------------------------------------------------------------
(* allocate                                                                *)

allocate(n, al) ==
    /\ op = NoOp /\ ~released
    /\ op' = [name |-> "allocate", n |-> n, at |-> 0, align |-> al,
              prev |-> freep, cursor |-> next[freep]]
    /\ UNCHANGED <<next, size, freep, usage, live, released>>

\* Cut from the end of the piece at c and move down to the alignment.
PosUnaligned(c, n) == c + size[c] - n

PosAligned(c, n, al) ==
    LET pos == PosUnaligned(c, n)
    IN  IF al = 1 THEN pos
        ELSE IF DataAlignment % al = 0 THEN (pos \div al) * al
        ELSE (((head_addr + pos) \div al) * al - head_addr) % SizeModulus

Fits(c, n, al) == size[c] >= n /\ (al = 1 \/ PosAligned(c, n, al) >= c)

search_on ==
    /\ op.name = "allocate"
    /\ ~Fits(op.cursor, op.n, op.align)
    /\ op.cursor # freep
    /\ op' = [op EXCEPT !.prev = op.cursor, !.cursor = next[op.cursor]]
    /\ UNCHANGED <<next, size, freep, usage, live, released>>

\* Mutant of allocate_throws: the search is given up before it is complete.
allocate_throws_early ==
    /\ op.name = "allocate"
    /\ ~Fits(op.cursor, op.n, op.align)
    /\ op' = NoOp
    /\ UNCHANGED <<next, size, freep, usage, live, released>>

\* The search has come back to where it began: bad_alloc.
allocate_throws ==
    /\ op.name = "allocate"
    /\ ~Fits(op.cursor, op.n, op.align)
    /\ op.cursor = freep
    /\ op' = NoOp
    /\ UNCHANGED <<next, size, freep, usage, live, released>>

\* What is left before the object keeps the header, what is left behind it
\* (padding) gets one of its own.
take ==
    /\ op.name = "allocate"
    /\ Fits(op.cursor, op.n, op.align)
    /\ LET c       == op.cursor
           pos     == PosAligned(c, op.n, op.align)
           padding == PosUnaligned(c, op.n) - pos
           pad     == pos + op.n
           cut     == IF padding # 0 THEN [next EXCEPT ![pad] = next[c]] ELSE next
           after   == IF padding # 0 THEN pad ELSE next[c]
       IN  /\ next' = Overwrite(IF pos # c THEN [cut EXCEPT ![c] = after]
                                ELSE [cut EXCEPT ![op.prev] = after], pos, op.n)
           /\ size' = Overwrite(
                 IF padding = 0 /\ pos = c THEN size
                 ELSE IF padding = 0 THEN [size EXCEPT ![c] = @ - op.n]
                 ELSE IF pos = c THEN [size EXCEPT ![pad] = padding]
                 ELSE [size EXCEPT ![pad] = padding, ![c] = pos - c], pos, op.n)
           /\ live' = live \cup {<<pos, op.n, op.align>>}
    /\ freep' = op.prev
    /\ usage' = usage + op.n
    /\ op' = NoOp
    /\ UNCHANGED released

-----------------------------------------------------------------------------
(* deallocate                                                              *)

\* Mutant of deallocate: the size is rounded down where allocate rounds up.
deallocate_rounds_down(o) ==
    /\ op = NoOp
    /\ op' = [NoOp EXCEPT !.name = "deallocate", !.n = (o[2] \div 2) * 2,
                          !.at = o[1], !.align = o[3], !.prev = freep]
    /\ UNCHANGED <<next, size, freep, usage, live, released>>

deallocate(o) ==
    /\ op = NoOp
    /\ op' = [NoOp EXCEPT !.name = "deallocate", !.n = o[2], !.at = o[1],
                          !.align = o[3], !.prev = freep]
    /\ UNCHANGED <<next, size, freep, usage, live, released>>

\* Mutant of Between: the end of the list is not recognised.
Between_without_wrap(p, at) == p < at /\ at < next[p]

\* Mutant of Between: any piece at a lower address will do.
Between_below(p, at) == p < at

\* The object lies between prev and its successor, also where the list wraps.
Between(p, at) == \/ p < at /\ at < next[p]
                  \/ p >= next[p] /\ (at > p \/ at < next[p])

find_on ==
    /\ op.name = "deallocate"
    /\ ~Between(op.prev, op.at)
    /\ op' = [op EXCEPT !.prev = next[op.prev]]
    /\ UNCHANGED <<next, size, freep, usage, live, released>>

Deallocated == op.name = "deallocate" /\ Between(op.prev, op.at)

\* The last object: deallocate_block, the block goes back to its arena as it is.
return_block ==
    /\ Deallocated
    /\ usage = op.n
    /\ released' = TRUE
    /\ freep' = op.prev /\ usage' = 0
    /\ live' = live \ {<<op.at, op.n, op.align>>}
    /\ op' = NoOp
    /\ UNCHANGED <<next, size>>

\* Coalesce with the piece before and with the one behind.
give_back ==
    /\ Deallocated
    /\ usage # op.n
    /\ LET prev   == op.prev
           succ   == next[prev]
           joins  == prev + size[prev] = op.at
           meets  == op.at + op.n = succ
           piece  == IF joins THEN prev ELSE op.at
           gained == (IF joins THEN size[prev] ELSE 0) + op.n
                     + (IF meets THEN size[succ] ELSE 0)
           linked == IF joins THEN next ELSE [next EXCEPT ![prev] = op.at]
           dead(f) == IF meets THEN [f EXCEPT ![succ] = Data] ELSE f
       IN  /\ next' = dead([linked EXCEPT ![piece] = IF meets THEN next[succ] ELSE succ])
           /\ size' = dead([size EXCEPT ![piece] = gained])
    /\ freep' = op.prev
    /\ usage' = usage - op.n
    /\ live' = live \ {<<op.at, op.n, op.align>>}
    /\ op' = NoOp
    /\ UNCHANGED released

\* The arena hands the block out again.
initialize ==
    /\ released
    /\ next' = FreshNext /\ size' = FreshSize
    /\ freep' = 0 /\ usage' = 0
    /\ released' = FALSE
    /\ UNCHANGED <<op, live>>

-----------------------------------------------------------------------------
Step == search_on \/ allocate_throws \/ take \/ find_on \/ return_block \/ give_back

\* The size of a C++ object is a multiple of its alignment.
BlockNext ==
    \/ /\ Cardinality(live) < MaxLive
       /\ \E n \in 1 .. NHeaders, al \in Aligns : n % al = 0 /\ allocate(n, al)
    \/ \E o \in live : deallocate(o)
    \/ Step
    \/ initialize

BlockSpec == BlockInit /\ [][BlockNext]_block_vars

\* A call that has begun goes on: the code has no other way to stop.
FairBlockSpec == BlockSpec /\ WF_block_vars(Step)

-----------------------------------------------------------------------------
(* Correctness.                                                            *)

\* The pieces met when following next from the header 0.
Pieces == LET walk[k \in 0 .. NHeaders] ==
                  IF k = 0 THEN 0
                  ELSE LET p == walk[k - 1]
                       IN  IF p \in Pos /\ next[p] \in Pos THEN next[p] ELSE 0
          IN  {walk[k] : k \in 0 .. NHeaders}
Extents == {<<p, size[p]>> : p \in Pieces \ {0}} \cup {<<o[1], o[2]>> : o \in live}

BlockTypeOK ==
    /\ \A p \in Pos : next[p] \in Pos \cup {Data} /\ size[p] \in Nat \cup {Data}
    /\ freep \in Pos /\ usage \in Nat
    /\ op.name \in {"none", "allocate", "deallocate"}
    /\ released \in BOOLEAN

\* The list is a circle through the header 0 in the order of addresses, and the
\* free pieces that follow each other are separated by objects.
Circular ==
    /\ BlockTypeOK
    /\ \A p \in Pieces : next[p] \in Pieces /\ size[p] \in Nat
    /\ \A p \in Pieces : next[p] > p \/ next[p] = 0
    /\ \A p \in Pieces \ {0} : next[p] # 0 => p + size[p] < next[p]
    /\ freep \in Pieces

\* Objects and free pieces partition the block behind the first header, objects
\* are aligned as asked, and usage, which tells when the block can be returned
\* and decides is_occupancy_under, is the space of the objects.
Covering(extents, p) == {e \in extents : p \in e[1] .. (e[1] + e[2] - 1)}
Partition ==
    /\ ~released =>
          /\ \A e \in Extents : e[2] >= 1 /\ e[1] + e[2] <= NHeaders
          /\ \A p \in 1 .. NHeaders - 1 : Cardinality(Covering(Extents, p)) = 1
    /\ \A o \in live : (head_addr + o[1]) % o[3] = 0
    /\ usage = Cardinality({p \in Pos : Covering(live, p) # {}})

\* bad_alloc is thrown only if no free piece can hold the object.
ThrowsOnlyWhenFull ==
    [][allocate_throws => \A p \in Pieces : ~Fits(p, op.n, op.align)]_block_vars

\* Every search ends.
CallsReturn == (op.name # "none") ~> (op.name = "none")

=============================================================================
