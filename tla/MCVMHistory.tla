---------------------------- MODULE MCVMHistory -----------------------------
(***************************************************************************)
(* The machine with its history, over the same families of programs.       *)
(***************************************************************************)
EXTENDS VMHistory, MCCairoVM

(* Where the five segments of a run may go, segment 0 first: far apart,    *)
(* and packed, so that a deep stack overlaps the output.                   *)
Layout(places) == [n \in 0 .. 4 |-> places[n + 1]]

Layouts == {Layout(<<10, 40, 200, 150, 160>>), Layout(<<0, 5, 12, 13, 14>>)}
=============================================================================
