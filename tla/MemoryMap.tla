----------------------------- MODULE MemoryMap ------------------------------
(***************************************************************************)
(* What the rest of the program may think memory/mod.rs is: one partial    *)
(* map from addresses to values, that answers what it was told last.       *)
(***************************************************************************)
EXTENDS Memory

CONSTANTS Addresses, Values, Tables   \* the arguments of the calls

VARIABLES cells,    \* the map
          answer    \* what the latest call returned

mvars == <<cells, answer>>

MInit == cells = << >> /\ answer = {}

MInsert(a, v) == /\ cells' \in Insert(cells, a, v)
                 /\ answer' = Get(cells, a)

MGet(a) == /\ answer' = Get(cells, a)
           /\ UNCHANGED cells

MRelocate(table) == /\ cells' \in Relocated(cells, table)
                    /\ answer' = {}

MNext == \/ \E a \in Addresses, v \in Values : MInsert(a, v)
         \/ \E a \in Addresses : MGet(a)
         \/ \E table \in Tables : MRelocate(table)

MSpec == MInit /\ [][MNext]_mvars
=============================================================================
