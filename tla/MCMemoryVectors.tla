-------------------------- MODULE MCMemoryVectors ---------------------------
(***************************************************************************)
(* Every sequence of calls on a few cells: three in a segment, which grows *)
(* beyond them; one in a segment that follows an empty one; an absolute    *)
(* address that cells may land on and one beyond the limit.                *)
(***************************************************************************)
EXTENDS MemoryVectors

Number(n) == Abs(Felt(n))

Few == {Rel(0, 0), Rel(0, 1), Rel(0, 2), Rel(2, 1), Number(2), Number(4)}
Told == {Number(1), Rel(0, 2)}

(* Disjoint and wrapping around the field; overlapping; without segment 2. *)
Layout(first, third) == [s \in {0, 2} |-> IF s = 0 THEN first ELSE third]
Places == {Layout(4, 1), Layout(4, 0), [s \in {0} |-> 4]}
=============================================================================
