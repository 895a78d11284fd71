------------------------------ MODULE VmImport ------------------------------
(***************************************************************************)
(* prover/src/input/vm_import/mod.rs: a run imported from the files that   *)
(* the Cairo VM leaves.  Two JSON files give the segments, the public      *)
(* memory and the paths of the other two, which hold the memory and the    *)
(* trace, record by record.                                                *)
(*                                                                         *)
(* Any read may fail.  A JSON file that cannot be read, or another file    *)
(* that cannot be opened, is an error; a record that cannot be read, or of *)
(* which only a part is there, ends its file as its last record does.      *)
(***************************************************************************)
EXTENDS Import

CONSTANTS Files,          \* the files a run may have left
          ReadsMayFail    \* whether the files are exposed to I/O errors

VARIABLES
  public_mem_addresses,   \* CairoInput::public_mem_addresses
  range_check_builtin     \* CairoInput::range_check_builtin

vars == <<ivars, public_mem_addresses, range_check_builtin>>

ASSUME FailAssumption == ReadsMayFail \in BOOLEAN

(* The entries of a trace, the bounds of a segment and the addresses of    *)
(* the public memory are u64.                                              *)
IsFiles(f) ==
  /\ f.memory \in Seq([addr : Word, val : Raw])
  /\ f.trace \in Seq([pc : Nat, ap : Nat, fp : Nat])
  /\ f.public \in Seq(Nat)
  /\ \A n \in DOMAIN f.segments :
       f.segments[n].begin_addr \in Nat /\ f.segments[n].stop_ptr \in Nat

ASSUME FilesAssumption == \A f \in Files : IsFiles(f)

-----------------------------------------------------------------------------
NoSegment == [begin_addr |-> 0, end_addr |-> 0]

Init == /\ input \in Files
        /\ status = "open"
        /\ NothingRead
        /\ public_mem_addresses = << >>
        /\ range_check_builtin = NoSegment

(* The assertions on the largest stop_ptr: it must fit in a u32, and then  *)
(* be small enough for MemConfig.                                          *)
EndAddrHolds ==
  \A n \in DOMAIN input.segments :
    /\ input.segments[n].stop_ptr < WordSize
    /\ MemConfigHolds(input.segments[n].stop_ptr)

HasSegments == DOMAIN input.segments # {}

Open == /\ status = "open"
        /\ HasSegments /\ EndAddrHolds
        /\ status' = "memory"
        /\ UNCHANGED <<input, memRead, traceRead, builder, instructions,
                       public_mem_addresses, range_check_builtin>>

OpenPanics == /\ status = "open"
              /\ HasSegments /\ ~EndAddrHolds
              /\ status' = "panic"
              /\ UNCHANGED <<input, memRead, traceRead, builder, instructions,
                             public_mem_addresses, range_check_builtin>>

(* VmImportError: Io and Json when a file fails, NoMemorySegments.         *)
OpenFails == /\ status = "open"
             /\ ReadsMayFail \/ ~HasSegments
             /\ status' = "error"
             /\ UNCHANGED <<input, memRead, traceRead, builder, instructions,
                            public_mem_addresses, range_check_builtin>>

-----------------------------------------------------------------------------
(* MemEntryIter::next and TraceIter::next answer None at the end of their  *)
(* file and, through `ok()`, at any error.                                 *)
(* Variant to be caught: the end is one record beyond the last.            *)
ReadsEndBeyond(n, file) == n > Len(file) \/ (ReadsMayFail /\ n > 0)

ReadsEnd(n, file) == n = Len(file) \/ ReadsMayFail

EndMemory == /\ status = "memory"
             /\ ReadsEnd(memRead, input.memory)
             /\ status' = "trace"
             /\ UNCHANGED <<input, memRead, traceRead, builder, instructions,
                            public_mem_addresses, range_check_builtin>>

(* The rest of import_from_vm_output, which panics if there is no segment  *)
(* of that name.                                                           *)
HasRangeCheck == "range_check" \in DOMAIN input.segments

Finish ==
  /\ status = "trace"
  /\ ReadsEnd(traceRead, input.trace)
  /\ HasRangeCheck
  /\ status' = "imported"
  /\ public_mem_addresses' = [k \in DOMAIN input.public |-> input.public[k] % WordSize]
  /\ range_check_builtin' =
       [begin_addr |-> input.segments["range_check"].begin_addr % WordSize,
        end_addr   |-> input.segments["range_check"].stop_ptr % WordSize]
  /\ UNCHANGED <<input, memRead, traceRead, builder, instructions>>

FinishPanics ==
  /\ status = "trace"
  /\ ReadsEnd(traceRead, input.trace)
  /\ ~HasRangeCheck
  /\ status' = "panic"
  /\ UNCHANGED <<input, memRead, traceRead, builder, instructions,
                 public_mem_addresses, range_check_builtin>>

-----------------------------------------------------------------------------
ImportMemory == ReadMemory /\ UNCHANGED <<public_mem_addresses, range_check_builtin>>
ImportTrace == /\ ReadTrace \/ SortPanics
               /\ UNCHANGED <<public_mem_addresses, range_check_builtin>>

Next == \/ Open \/ OpenPanics \/ OpenFails
        \/ ImportMemory \/ EndMemory
        \/ ImportTrace \/ Finish \/ FinishPanics

Spec == Init /\ [][Next]_vars

(* The import is one thread that waits for nothing.                        *)
FairSpec == Spec /\ WF_vars(Next)

-----------------------------------------------------------------------------
(* Ids are within the values, values are reduced, cached instructions are  *)
(* elements of the field, and states and public addresses 32 bits wide,    *)
(* although the files hold wider numbers.                                  *)
TypeOK ==
  /\ input \in Files
  /\ status \in {"open", "memory", "trace", "imported", "error", "panic"}
  /\ memRead \in 0 .. Len(input.memory)
  /\ traceRead \in 0 .. Len(input.trace)
  /\ builder.f31_values \in Seq(QM31)
  /\ \A a \in DOMAIN builder.address_to_value_index :
       builder.address_to_value_index[a] \in 0 .. (Len(builder.f31_values) - 1)
  /\ \A pc \in DOMAIN builder.inst_cache : builder.inst_cache[pc] \in M31
  /\ instructions \in [initial_state : VmStates, final_state : VmStates,
                       lists : [ListNames -> Seq(VmStates)]]
  /\ public_mem_addresses \in Seq(Word)
  /\ range_check_builtin \in [begin_addr : Word, end_addr : Word]

(* However the files are cut short, every import ends.                     *)
ImportEnds == <>(status \in {"imported", "error", "panic"})

(* "IO error: {0}" (VmImportError::Io): an import that ends well has read  *)
(* both files to their end.                                                *)
AllIsRead ==
  status = "imported" => /\ memRead = Len(input.memory)
                         /\ traceRead = Len(input.trace)
=============================================================================
