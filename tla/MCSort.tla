------------------------------- MODULE MCSort -------------------------------
(***************************************************************************)
(* The files of small runs, and imports of one or two instructions, over a *)
(* field that is wider than an instruction word, which the code's is not:  *)
(* decode takes any u64 and push_instr matches on every flag, and here is  *)
(* what they are for.  An offset has two bits, the least in which the      *)
(* patterns' -2 .. 1 differ.                                               *)
(*                                                                         *)
(* The word is one the assembler gives or one that differs in one bit, the *)
(* one above the flags included, which nothing reads, from the first such  *)
(* word with its flags.                                                    *)
(***************************************************************************)
EXTENDS AssembledImport, MCVmImport

Assembled == UNION {AssembledAs[l] : l \in ListNames}

Flip(word, bit) == IF (word \div bit) % 2 = 0 THEN word + bit ELSE word - bit
WordBits == {2 ^ k : k \in 0 .. 21}
FlagsOf(w) == w \div (Offsets * Offsets * Offsets)
FirstWithFlags == {w \in Assembled :
                     \A v \in Assembled : FlagsOf(v) = FlagsOf(w) => w <= v}
NearWords == Assembled \cup {Flip(w, b) : w \in FirstWithFlags, b \in WordBits}

(* The instruction at 0 and two cells to test around ap = 1 and fp = 2; an *)
(* offset of -2 from ap leads below zero, and one of 1 from fp beyond the  *)
(* end.                                                                    *)
Cell(a, v) == [addr |-> a, val |-> <<v, 0, 0, 0>>]

SortFiles ==
  [memory : {<<Cell(0, w), Cell(1, 0), Cell(2, 1)>> : w \in NearWords},
   trace : {<<[pc |-> 0, ap |-> 1, fp |-> 2]>>}, public : {<< >>},
   segments : {[n \in {"range_check"} |-> [begin_addr |-> 1, stop_ptr |-> 2]]}]

(* Traces of three states over two instructions, the cells they test, and, *)
(* last, a word beyond the base field or no word at all.                   *)
SomeWords == {Encode(Ret), Encode(PushImm(FALSE, -1, TRUE)),
              Encode(JnzImm(FALSE, 0, TRUE))}

SomeStates == [pc : {0, 1}, ap : {2, 3}, fp : {2}]
BadStates == [pc : {4, 5}, ap : {2}, fp : {2}]

MixedFiles ==
  [memory : {<<Cell(0, v), Cell(1, w), Cell(2, 0), Cell(3, 1),
               [addr |-> 4, val |-> <<v, 1, 0, 0>>]>> :
               v \in SomeWords, w \in SomeWords},
   trace : {<<r, s, t>> : r, s \in SomeStates, t \in SomeStates \cup BadStates},
   public : {<< >>},
   segments : {[n \in {"range_check"} |-> [begin_addr |-> 1, stop_ptr |-> 2]]}]

AllFiles == SmallFiles \cup SortFiles \cup MixedFiles
=============================================================================
