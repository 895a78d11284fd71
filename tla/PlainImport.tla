---------------------------- MODULE PlainImport -----------------------------
(***************************************************************************)
(* prover/src/input/plain.rs: a program is run by the cairo-vm crate, and  *)
(* what the finished runner holds is imported without files.  Of a cell    *)
(* only that it is known is taken: its value is replaced by the default,   *)
(* zero (line 65).                                                         *)
(***************************************************************************)
EXTENDS Import

CONSTANT Runners   \* the finished runners

VARIABLES
  public_mem_addresses,   \* CairoInput::public_mem_addresses
  range_check_builtin     \* CairoInput::range_check_builtin

vars == <<ivars, public_mem_addresses, range_check_builtin>>

(* A runner: the length of its program, which of its relocated cells are   *)
(* known, from address 0, and its relocated trace.                         *)
IsRunner(r) == /\ r.program_len \in Nat
               /\ r.relocated_memory \in Seq(BOOLEAN)
               /\ r.relocated_trace \in Seq([pc : Nat, ap : Nat, fp : Nat])

ASSUME RunnersAssumption == \A r \in Runners : IsRunner(r)

-----------------------------------------------------------------------------
Known(r) == {k \in DOMAIN r.relocated_memory : r.relocated_memory[k]}

(* In the order of their addresses: the n-th has n known cells up to it.   *)
KnownCells(r) ==
  [n \in 1 .. Cardinality(Known(r)) |->
     CHOOSE k \in Known(r) : Cardinality({j \in Known(r) : j <= k}) = n]

(* The entries of the memory, addressed from 0, and of the trace.          *)
(* Variant to be caught: cells are numbered after the unknown ones are     *)
(* left out.                                                               *)
EntriesPacked(r) ==
  LET known == KnownCells(r)
  IN [memory |-> [k \in DOMAIN known |-> [addr |-> (k - 1) % WordSize,
                                           val  |-> <<0, 0, 0, 0>>]],
      trace  |-> r.relocated_trace,
      runner |-> r]

EntriesOf(r) ==
  LET known == KnownCells(r)
  IN [memory |-> [k \in DOMAIN known |-> [addr |-> (known[k] - 1) % WordSize,
                                           val  |-> <<0, 0, 0, 0>>]],
      trace  |-> r.relocated_trace,
      runner |-> r]

Init == /\ input \in {EntriesOf(r) : r \in Runners}
        /\ status = "memory"
        /\ NothingRead
        /\ public_mem_addresses = << >>
        /\ range_check_builtin = [begin_addr |-> 0, end_addr |-> 0]

EndMemory == /\ status = "memory"
             /\ memRead = Len(input.memory)
             /\ status' = "trace"
             /\ UNCHANGED <<input, memRead, traceRead, builder, instructions,
                            public_mem_addresses, range_check_builtin>>

(* The public memory is taken to be the program, at address 0.             *)
Finish == /\ status = "trace"
          /\ traceRead = Len(input.trace)
          /\ status' = "imported"
          /\ public_mem_addresses' = [k \in 1 .. (input.runner.program_len % WordSize) |-> k - 1]
          /\ range_check_builtin' = [begin_addr |-> 24, end_addr |-> 64]
          /\ UNCHANGED <<input, memRead, traceRead, builder, instructions>>

ImportMemory == ReadMemory /\ UNCHANGED <<public_mem_addresses, range_check_builtin>>
ImportTrace == /\ ReadTrace \/ SortPanics
               /\ UNCHANGED <<public_mem_addresses, range_check_builtin>>

Next == ImportMemory \/ EndMemory \/ ImportTrace \/ Finish

Spec == Init /\ [][Next]_vars

-----------------------------------------------------------------------------
(* A runner holds its program from address 1 on, and has only executed     *)
(* cells that are known.  Importing it then never panics, although the     *)
(* cells it does not know, the one at 0 among them, have no entry; and     *)
(* neither will reading its public memory.                                 *)
Executed(r) == {e.pc : e \in {r.relocated_trace[k] : k \in DOMAIN r.relocated_trace}}

WellRun(r) ==
  /\ \A a \in 1 .. r.program_len \cup Executed(r) :
       a + 1 \in DOMAIN r.relocated_memory /\ r.relocated_memory[a + 1]
  /\ Len(r.relocated_memory) <= WordSize

PlainNeverPanics ==
  WellRun(input.runner) =>
    /\ status # "panic"
    /\ \A k \in DOMAIN public_mem_addresses :
         MemGet(builder, public_mem_addresses[k]) # {}

(* Whatever was run: since every cell reads as zero, every state of the     *)
(* trace is counted as generic.                                            *)
PlainIsGeneric ==
  status = "imported" => Counts[Generic] = Len(input.trace)
=============================================================================
