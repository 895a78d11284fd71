------------------------------ MODULE MCCounts ------------------------------
(***************************************************************************)
(* The files of a small program, as the tests of vm_import/mod.rs have     *)
(* those of larger ones, over numbers in the code's order: two offsets are *)
(* a word, the field is half of it, and an instruction is longer.          *)
(***************************************************************************)
EXTENDS AssembledImport

(* `call rel 4; jmp rel 0; ret`, from address 1 on.                        *)
ProgramWords == <<Encode(CallRelImm), 4, Encode(JmpRelImm(FALSE)), 0, Encode(Ret)>>

(* A record of the memory file has the low end of the word in val[0]: "the *)
(* relevant value is in entry.val[0]" (mem.rs:102).                        *)
Record(a, word) == [addr |-> a, val |-> <<word % WordSize, 0, 0, 0>>]

(* The program, the frame that the call pushes from 6 on, and the trace of *)
(* the call, the return and two turns of the loop.                         *)
Step(pc, ap, fp) == [pc |-> pc, ap |-> ap, fp |-> fp]

ProgramFiles ==
  {[memory   |-> [a \in 1 .. 7 |-> Record(a, (ProgramWords \o <<6, 3>>)[a])],
    trace    |-> <<Step(1, 6, 6), Step(5, 8, 8), Step(3, 8, 6), Step(3, 8, 6)>>,
    public   |-> << >>,
    segments |-> [n \in {"range_check"} |-> [begin_addr |-> 1, stop_ptr |-> 2]]]}

(* "ret: 462", "jmp_rel_imm: [124627, 0]" and "call_rel_imm: 462" of       *)
(* test_read_from_small_files (vm_import/mod.rs:183-187), as the larger    *)
(* numbers of test_read_from_large_files: once a run is imported, counts   *)
(* tells of every kind how many of the states in the trace stand at an     *)
(* instruction of that kind in the program.                                *)
KindsAreCounted ==
  status = "imported" =>
    \A l \in ListNames \ {Generic} :
      Counts[l] = Cardinality({k \in DOMAIN input.trace :
                                 ProgramWords[input.trace[k].pc] \in AssembledAs[l]})
=============================================================================
