------------------------------ MODULE Relocation ------------------------------
(***************************************************************************)
(* collective_allocator_traits: batch_allocate and relocate of an object   *)
(* of several parts, each with memory of its own (a skip list node and its *)
(* links).  Memory may run out at any part; func, which moves the contents *)
(* of a part, may throw at any part, but not when it moves back.  The      *)
(* recursion over the requests is one step per request, forwards on the    *)
(* way down and backwards in the catch handlers.                           *)
(***************************************************************************)
EXTENDS Integers, FiniteSets

CONSTANTS
    NParts,   \* requests of a call; none of them is request::null
    Addr,     \* addresses, naturals from 1
    MaxLeaks  \* bound of the model on addresses that have been lost

RelocationAssumption ==
    /\ NParts \in Nat \ {0} /\ MaxLeaks \in Nat
    /\ Addr = 1 .. 2 * NParts + MaxLeaks

VARIABLES
    ptrs,      \* the pointers that the caller keeps, 0 for none
    used,      \* memory that is allocated
    contents,  \* the part whose contents are at each address, or 0
    call,      \* the call in progress and the part it has come to
    to_ptrs,   \* what batch_allocate has got so far
    orig_from, \* ptrs before the call
    leaked     \* auxiliary: memory that nothing points to

relocation_vars == <<ptrs, used, contents, call, to_ptrs, orig_from, leaked>>

Parts   == 1 .. NParts
NoPtrs  == [i \in Parts |-> 0]
Idle    == call.at = "idle"
Call(at, i, outcome) == [at |-> at, i |-> i, outcome |-> outcome]

RelocationInit ==
    /\ ptrs = NoPtrs /\ to_ptrs = NoPtrs /\ orig_from = NoPtrs
    /\ used = {} /\ leaked = {}
    /\ contents = [a \in Addr |-> 0]
    /\ call = Call("idle", 0, "none")

Free(a) == used' = used \ {a} /\ contents' = [contents EXCEPT ![a] = 0]

-----------------------------------------------------------------------------
(* batch_allocate                                                          *)

\* Of new parts if the caller has none, or for relocate.
call_batch_allocate ==
    /\ Idle
    /\ call' = Call("allocate", 1, "none")
    /\ to_ptrs' = NoPtrs /\ orig_from' = ptrs
    /\ UNCHANGED <<ptrs, used, contents, leaked>>

\* The free address that is handed out is the least one.
FreshAddr == CHOOSE a \in Addr \ used : \A b \in Addr \ used : a <= b

allocate_part ==
    /\ call.at = "allocate" /\ call.i <= NParts
    /\ to_ptrs' = [to_ptrs EXCEPT ![call.i] = FreshAddr]
    /\ used' = used \cup {FreshAddr}
    /\ call' = Call("allocate", call.i + 1, "none")
    /\ UNCHANGED <<ptrs, contents, orig_from, leaked>>

allocate_part_throws ==
    /\ call.at = "allocate" /\ call.i <= NParts
    /\ call' = Call("give_back", call.i - 1, "none")
    /\ UNCHANGED <<ptrs, used, contents, to_ptrs, orig_from, leaked>>

\* Mutant of give_back_part: the first part is not given back.
give_back_part_less ==
    /\ call.at = "give_back" /\ call.i > 0
    /\ IF call.i > 1 THEN Free(to_ptrs[call.i]) ELSE UNCHANGED <<used, contents>>
    /\ call' = Call("give_back", call.i - 1, "none")
    /\ UNCHANGED <<ptrs, to_ptrs, orig_from, leaked>>

give_back_part ==
    /\ call.at = "give_back" /\ call.i > 0
    /\ Free(to_ptrs[call.i])
    /\ call' = Call("give_back", call.i - 1, "none")
    /\ UNCHANGED <<ptrs, to_ptrs, orig_from, leaked>>

\* The empty optional; relocate throws bad_alloc then.
return_nothing ==
    /\ call.at = "give_back" /\ call.i = 0
    /\ call' = Call("idle", 0, "failed")
    /\ UNCHANGED <<ptrs, used, contents, to_ptrs, orig_from, leaked>>

\* The caller constructs the parts.
return_allocated ==
    /\ call.at = "allocate" /\ call.i > NParts /\ ptrs = NoPtrs
    /\ ptrs' = to_ptrs
    /\ contents' = [a \in Addr |-> IF \E i \in Parts : to_ptrs[i] = a
                                   THEN CHOOSE i \in Parts : to_ptrs[i] = a ELSE contents[a]]
    /\ call' = Call("idle", 0, "done")
    /\ UNCHANGED <<used, to_ptrs, orig_from, leaked>>

-----------------------------------------------------------------------------
(* relocate_helper                                                         *)

\* func
Moves(from, to) == contents' = [contents EXCEPT ![to] = contents[from], ![from] = 0]

Relocating == call.at = "allocate" /\ call.i > NParts /\ ptrs # NoPtrs
call_relocate_helper ==
    /\ Relocating
    /\ call' = Call("move", 1, "none")
    /\ UNCHANGED <<ptrs, used, contents, to_ptrs, orig_from, leaked>>

move_part ==
    /\ call.at = "move" /\ call.i <= NParts
    /\ Moves(ptrs[call.i], to_ptrs[call.i])
    /\ ptrs' = [ptrs EXCEPT ![call.i] = to_ptrs[call.i]]
    /\ call' = IF call.i < NParts THEN Call("move", call.i + 1, "none")
               ELSE Call("free_old", NParts, "none")
    /\ UNCHANGED <<used, to_ptrs, orig_from, leaked>>

\* The memory for this part and those behind it is lost.
func_throws ==
    LET rest == {to_ptrs[i] : i \in call.i .. NParts}
    IN  /\ call.at = "move"
        /\ Cardinality(leaked \cup rest) <= MaxLeaks
        /\ leaked' = leaked \cup rest
        /\ call' = Call("move_back", call.i - 1, "none")
        /\ UNCHANGED <<ptrs, used, contents, to_ptrs, orig_from>>

move_back ==
    /\ call.at = "move_back" /\ call.i > 0
    /\ Moves(ptrs[call.i], orig_from[call.i])
    /\ used' = used \ {ptrs[call.i]}
    /\ ptrs' = [ptrs EXCEPT ![call.i] = orig_from[call.i]]
    /\ call' = Call("move_back", call.i - 1, "none")
    /\ UNCHANGED <<to_ptrs, orig_from, leaked>>

rethrow ==
    /\ call.at = "move_back" /\ call.i = 0
    /\ call' = Call("idle", 0, "failed")
    /\ UNCHANGED <<ptrs, used, contents, to_ptrs, orig_from, leaked>>

\* The old memory is freed on the way back, the last part first.
free_old ==
    /\ call.at = "free_old" /\ call.i > 0
    /\ Free(orig_from[call.i])
    /\ call' = Call("free_old", call.i - 1, "none")
    /\ UNCHANGED <<ptrs, to_ptrs, orig_from, leaked>>

return_relocated ==
    /\ call.at = "free_old" /\ call.i = 0
    /\ call' = Call("idle", 0, "done")
    /\ UNCHANGED <<ptrs, used, contents, to_ptrs, orig_from, leaked>>

\* The caller destroys the parts and frees their memory.
deallocate_parts ==
    /\ Idle /\ ptrs # NoPtrs
    /\ used' = used \ {ptrs[i] : i \in Parts}
    /\ contents' = [a \in Addr |-> IF \E i \in Parts : ptrs[i] = a THEN 0 ELSE contents[a]]
    /\ ptrs' = NoPtrs
    /\ call' = Call("idle", 0, "none")
    /\ UNCHANGED <<to_ptrs, orig_from, leaked>>

-----------------------------------------------------------------------------
RelocationNext ==
    \/ call_batch_allocate \/ allocate_part \/ allocate_part_throws
    \/ give_back_part \/ return_nothing \/ return_allocated
    \/ call_relocate_helper \/ move_part \/ func_throws \/ move_back \/ rethrow
    \/ free_old \/ return_relocated
    \/ deallocate_parts
RelocationSpec == RelocationInit /\ [][RelocationNext]_relocation_vars

-----------------------------------------------------------------------------
(* Correctness.                                                            *)

\* Between calls every part is where the caller's pointer says, with its contents,
\* and no memory is used besides, but for what is lost when func throws.  A call
\* does everything or nothing: when it fails, all parts are where they were before,
\* otherwise none is.
AllOrNothing ==
    Idle => /\ used = ({ptrs[i] : i \in Parts} \ {0}) \cup leaked
            /\ \A i \in Parts : ptrs[i] # 0 => contents[ptrs[i]] = i
            /\ call.outcome = "failed" => ptrs = orig_from
            /\ call.outcome = "done" => \A i \in Parts : ptrs[i] \notin {0, orig_from[i]}
=============================================================================
