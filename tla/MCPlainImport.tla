--------------------------- MODULE MCPlainImport ----------------------------
(***************************************************************************)
(* The run of test_jmp_abs (prover/src/lib.rs): `call rel 2`, an assertion *)
(* and `jmp abs [ap]` are five words, relocated to 1 .. 5, with the stack  *)
(* after them; each is executed once.                                      *)
(*                                                                         *)
(* The field is wide enough for any instruction word, which the code's is  *)
(* not, so that what is lost of an instruction is lost in the import.      *)
(***************************************************************************)
EXTENDS PlainImport

Step(pc, ap, fp) == [pc |-> pc, ap |-> ap, fp |-> fp]

JmpAbsRunners ==
  {[program_len |-> 5,
    relocated_memory |-> [k \in 1 .. 11 |-> k > 1],
    relocated_trace |-> <<Step(1, 8, 8), Step(3, 10, 10), Step(5, 10, 10)>>]}

(* Programs of one or two words, with up to three cells after them, known   *)
(* or not, and at most two states.                                         *)
SmallRunners ==
  JmpAbsRunners \cup
  [program_len : 1 .. 2,
   relocated_memory : UNION {[1 .. n -> BOOLEAN] : n \in 2 .. 5},
   relocated_trace : UNION {[1 .. n -> [pc : 1 .. 5, ap : {3}, fp : {3}]] : n \in 1 .. 2}]

(* `assert_eq!(instruction_counts.jmp_abs[0], 1)` (lib.rs:25): the jump of *)
(* the run that test_jmp_abs imports is counted as one.                    *)
JmpAbsIsCounted == status = "imported" => Counts[List("jmp_abs", 0)] = 1
=============================================================================
