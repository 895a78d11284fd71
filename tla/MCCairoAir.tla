----------------------------- MODULE MCCairoAir -----------------------------
(***************************************************************************)
(* Small runs imported and proved with packs of two lanes.  P is above the *)
(* 32 rows that the largest table has.                                     *)
(***************************************************************************)
EXTENDS CairoAir

(* Two words with one value (37 is not reduced), a second value, and one   *)
(* outside the base field.                                                 *)
ProofRaws == {<<0, 0, 0, 0>>, <<37, 0, 0, 0>>, <<4, 0, 0, 0>>, <<1, 2, 3, 5>>}

(* Memories of up to three entries, with holes; the sizes go up to the     *)
(* bound of 8 and, with an address of 9, beyond it.                        *)
ProofMemories ==
  UNION {[1 .. n -> [addr : {0, 1, 5}, val : ProofRaws]] : n \in 0 .. 3}
    \cup {<<[addr |-> 9, val |-> <<4, 0, 0, 0>>]>>}

(* Addresses that are looked up once, more than once and not at all, one   *)
(* that is cut to 32 bits, and one that may be beyond the end.             *)
ProofPublic == {<< >>, <<0, 1, 0>>, <<0, 0, 5>>, <<4, 65>>}

ProofSegments == [n \in {"range_check"} |-> [begin_addr |-> 1, stop_ptr |-> 2]]

ProofFiles == [memory : ProofMemories, trace : {<< >>}, public : ProofPublic,
               segments : {ProofSegments}]

(* A memory of four cells, of which two are public.                        *)
GoodFiles ==
  {[memory |-> [k \in 1 .. 4 |-> [addr |-> k - 1, val |-> <<k, 0, 0, 0>>]],
    trace |-> << >>, public |-> <<0, 1>>, segments |-> ProofSegments]}
=============================================================================
