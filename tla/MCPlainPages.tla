---------------------------- MODULE MCPlainPages ----------------------------
(* PlainPages on small arenas for TLC.                                     *)
EXTENDS PlainPages, TLC

\* Classes of 1, 2 and 4 pages, so that runs of 3 and 5 pages are rounded.
MCClassSize  == [c \in 0 .. 2 |-> 2 ^ c]
MCAllocClass == [n \in 1 .. 4 |-> IF n = 1 THEN 0 ELSE IF n = 2 THEN 1 ELSE 2]
MCFreeClass  == [n \in 1 .. DataNPages |->
                    IF n = 1 THEN 0 ELSE IF n < 4 THEN 1 ELSE 2]

ArenaSymmetry == Permutations(Arena)
=============================================================================
