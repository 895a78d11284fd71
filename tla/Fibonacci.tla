------------------------------ MODULE Fibonacci -----------------------------
(***************************************************************************)
(* tests/data/fibonacci_compiled.json, the program runnair is tested with  *)
(* (run_fibonacci, vm/mod.rs), and what it is for.                         *)
(***************************************************************************)
EXTENDS CairoVM, ProgramFile

CONSTANT ClaimIndices   \* the values of input['fibonacci_claim_index']

Neg(n) == P - n

(* An instruction of the file: four words, each a text.                    *)
Words(op, a, b, c) == <<{op}, {a}, {b}, {c}>>

(* The "data" of the file; its negative arguments are P - 1, P - 2, ...    *)
FibonacciData ==
  << Words(10, 1, 0, 0),                  \*  0  addap_imm
     Words(69, 0, Neg(3), 0),             \*  1  assert_fp_double_deref_fp
     Words(38, 0, 1, 0),                  \*  2  assert_ap_imm_appp
     Words(38, 0, 1, 0),                  \*  3
     Words(32, 0, 0, 0),                  \*  4  assert_ap_deref_fp_appp
     Words(90, 4, 0, 0),                  \*  5  call_rel_imm
     Words(35, Neg(1), Neg(3), 1),        \*  6  assert_ap_double_deref_fp
     Words(28, 0, 2, Neg(3)),             \*  7  assert_ap_add_imm_fp_appp
     Words(171, 0, 0, 0),                 \*  8  ret
     Words(169, 3, Neg(3), 0),            \*  9  jnz_imm_fp
     Words(32, 0, Neg(4), 0),             \* 10  assert_ap_deref_fp_appp
     Words(171, 0, 0, 0),                 \* 11  ret
     Words(46, 0, Neg(5), Neg(5)),        \* 12  assert_ap_mul_fp_fp_appp
     Words(46, 0, Neg(4), Neg(4)),        \* 13
     Words(32, 0, Neg(4), 0),             \* 14  assert_ap_deref_fp_appp
     Words(18, 0, Neg(3), Neg(2)),        \* 15  assert_ap_add_ap_ap_appp
     Words(28, 0, Neg(1), Neg(3)),        \* 16  assert_ap_add_imm_fp_appp
     Words(90, Neg(8), 0, 0),             \* 17  call_rel_imm
     Words(171, 0, 0, 0) >>               \* 18  ret

(* The file as it is, and with hints that must make no difference: a       *)
(* second one at the same place, one that is not known and an empty list.  *)
FibonacciHint == [pc |-> {1}, codes |-> <<"FibonacciIndex">>]

FibonacciFiles ==
  {[data |-> FibonacciData, hints |-> h] :
     h \in { {FibonacciHint},
             {[FibonacciHint EXCEPT !.codes = @ \o <<"other">>]},
             {FibonacciHint, [pc |-> {4}, codes |-> <<"other", "FibonacciIndex">>],
                             [pc |-> {9}, codes |-> << >>]} }}

(* A file that cannot be read starts no run.                               *)
BrokenFiles ==
  { [data |-> FibonacciData \o << <<{10}, {WordSize}, {0}, {0}>> >>, hints |-> {}],
    [data |-> FibonacciData, hints |-> {[pc |-> {}, codes |-> <<"other">>]}] }

FibonacciPrograms ==
  UNION {TryFrom(f, {Words(n, 0, 0, 0)}) :
           f \in FibonacciFiles \cup BrokenFiles, n \in ClaimIndices}

(* Main takes 9 cells of the execution segment with the first call, each   *)
(* of the n others 7, and then the result and the output pointer are       *)
(* pushed.  With a larger index the offsets would wrap around the field,   *)
(* onto main's own frame.                                                  *)
StackFits == \A n \in ClaimIndices : n \in Nat /\ 7 * n + 10 < P

-----------------------------------------------------------------------------
(* What the program claims: the n-th term of y' = x^2 + y^2 from 1, 1.     *)
SquareFibonacci[n \in Nat] ==
  IF n < 2 THEN 1 ELSE MAdd(MMul(SquareFibonacci[n - 2], SquareFibonacci[n - 2]),
                            MMul(SquareFibonacci[n - 1], SquareFibonacci[n - 1]))

(* `test_runner` (vm/mod.rs) only runs the program; what it is for is     *)
(* that a run that ends has written the index and the term to the output.  *)
OutputIsTheClaim ==
  status = "halted" =>
    \E n \in ClaimIndices :
      /\ program.input = {Felt(n)}
      /\ Get(memory, Rel(OutputSegment, 0)) = {Abs(Felt(n))}
      /\ Get(memory, Rel(OutputSegment, 1)) = {Abs(Felt(SquareFibonacci[n + 1]))}

(* What `test_runner` does show, for one index: no instruction of the     *)
(* program finds a cell unknown that it reads, or known and different that *)
(* it asserts, and main returns to the final fp and pc.                    *)
NeverPanics == status # "panicked"

(* The program ends, and not in a panic, whatever the claim index: the     *)
(* countdown of the recursion reaches zero and every call returns.         *)
Terminates == <>(status = "halted")
=============================================================================
