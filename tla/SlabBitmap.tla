----------------------------- MODULE SlabBitmap -----------------------------
(***************************************************************************)
(* The bitmaps of slots in a slab (SlabBitmap, plain_suballoc_page_        *)
(* metadata.ipp) and of blocks in a per-page arena (is_block_used,         *)
(* per-page_suballocator.ipp), word by word, in the arithmetic of unsigned *)
(* words of W bits.  The other modules use sets of numbers for them.       *)
(***************************************************************************)
EXTENDS Integers, Sequences, Bitwise

CONSTANTS W,         \* bits of a word
          NInteger   \* words of a bitmap

WordAssumption == W \in Nat \ {0} /\ NInteger \in Nat \ {0}

VARIABLES
    arena,     \* TRUE: is_block_used of an arena, FALSE: a SlabBitmap
    n_slots,   \* the slots or blocks there are
    data,      \* the words, from 1
    result,    \* of the last search
    taken      \* auxiliary: the slots in use

bitmap_vars == <<arena, n_slots, data, result, taken>>

AllOne == 2 ^ W - 1
Word == 0 .. AllOne
complement(x) == AllOne - x
shift_left(x, k) == (x * 2 ^ k) % 2 ^ W
countr_one(x) == CHOOSE k \in 0 .. W : /\ (x \div 2 ^ k) % 2 = 0
                                       /\ x % 2 ^ k = 2 ^ k - 1
\* Mutant of lsb_zero: the bits below it are not cleared.
lsb_zero_unmasked(x) == (x + 1) % 2 ^ W

lsb_zero(x) == ((x + 1) % 2 ^ W) & complement(x)

Empty == [i \in 1 .. NInteger |-> 0]

\* SlabBitmap(int) takes the first slot; a slab has slots in any number of words.
\* The constructor of an arena also sets the bits of the last word behind NBlocks.
BitmapInit ==
    /\ arena \in BOOLEAN
    /\ n_slots \in 1 .. NInteger * W
    /\ arena => n_slots > (NInteger - 1) * W
    /\ data = [Empty EXCEPT
          ![NInteger] = IF arena /\ n_slots % W # 0
                        THEN shift_left(AllOne, n_slots % W) ELSE @,
          ![1] = @ ^^ 1]
    /\ result = 0
    /\ taken = {0}

-----------------------------------------------------------------------------
\* The words of a search: whole ones, then what is left of n_slots.  In a slab
\* the bits behind the last slot are masked, in an arena they are set already.
NWhole == IF arena THEN NInteger ELSE n_slots \div W
datum(i) == IF i <= NWhole THEN data[i]
            ELSE data[i] | shift_left(AllOne, n_slots % W)
Searched == 1 .. (IF arena \/ n_slots % W = 0 THEN NWhole ELSE NWhole + 1)
HasUnset == \E i \in Searched : datum(i) # AllOne
FirstWord == CHOOSE i \in Searched :
                datum(i) # AllOne /\ \A j \in Searched : j < i => datum(j) = AllOne

\* In the last word the masked bits are written back along with the new one.
find_unset_and_set ==
    /\ HasUnset
    /\ LET i   == FirstWord
           idx == (i - 1) * W + countr_one(datum(i))
       IN  /\ data' = [data EXCEPT ![i] = datum(i) ^^ lsb_zero(datum(i))]
           /\ result' = idx
           /\ taken' = taken \cup {idx}
    /\ UNCHANGED <<arena, n_slots>>

find_fails ==
    /\ ~HasUnset
    /\ result' = -1
    /\ UNCHANGED <<arena, n_slots, data, taken>>

flip(slot_idx) ==
    /\ data' = [data EXCEPT ![slot_idx \div W + 1] = @ ^^ shift_left(1, slot_idx % W)]
    /\ taken' = taken \ {slot_idx}
    /\ UNCHANGED <<arena, n_slots, result>>

is_empty ==
    LET tmp[i \in 1 .. NInteger] == IF i = 1 THEN data[1] ELSE tmp[i - 1] | data[i]
    IN  tmp[NInteger] = 0

BitmapNext == find_unset_and_set \/ find_fails \/ \E s \in taken : flip(s)
BitmapSpec == BitmapInit /\ [][BitmapNext]_bitmap_vars

-----------------------------------------------------------------------------
\* The bits of the slots that exist say which are taken.  deallocate returns the
\* pages of a slab when is_empty says so: never while a slot is taken, and without
\* fail if the slots fill whole words.
BitsExact ==
    /\ \A i \in 1 .. NInteger : data[i] \in Word
    /\ taken = {s \in 0 .. n_slots - 1 : (data[s \div W + 1] \div 2 ^ (s % W)) % 2 = 1}
    /\ ~arena /\ is_empty => taken = {}
    /\ ~arena /\ n_slots % W = 0 /\ taken = {} => is_empty

\* A slab without objects is seen to be empty, whatever its number of slots.
EmptyIsSeen == ~arena /\ taken = {} => is_empty
=============================================================================
