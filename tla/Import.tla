------------------------------- MODULE Import -------------------------------
(***************************************************************************)
(* What both imports of a run share (prover/src/input): the entries of the *)
(* memory go into a MemoryBuilder one by one, then those of the trace are  *)
(* sorted by instruction (Instructions::from_iter), each read through the  *)
(* same builder.  Where the entries come from, and how an import starts    *)
(* and ends, is in VmImport and PlainImport.                               *)
(***************************************************************************)
EXTENDS ProverMemory, Casm, FiniteSets

VARIABLES
  input,          \* what is imported: the entries of its memory and trace, ...
  status,         \* the stage of the import, or how it ended
  memRead,        \* how many entries of the memory were read
  traceRead,      \* how many entries of the trace were read
  builder,        \* the MemoryBuilder, in the end CairoInput::mem
  instructions    \* CairoInput::instructions

ivars == <<input, status, memRead, traceRead, builder, instructions>>

-----------------------------------------------------------------------------
VmState(pc, ap, fp) == [pc |-> pc, ap |-> ap, fp |-> fp]

VmStates == [pc : Word, ap : Word, fp : Word]

(* From<TraceEntry> for VmState: an entry is three u64, a state three u32. *)
(* Variant to be caught: only pc is cut to 32 bits.                        *)
StateOfUncut(entry) == VmState(entry.pc % WordSize, entry.ap, entry.fp)

StateOf(entry) == VmState(entry.pc % WordSize, entry.ap % WordSize,
                          entry.fp % WordSize)

NoInstructions == [initial_state |-> VmState(0, 0, 0),
                   final_state   |-> VmState(0, 0, 0),
                   lists         |-> [l \in ListNames |-> << >>]]

(* The cell a conditional jump tests, read as the jump is sorted: {} when  *)
(* there is none (Memory::get panics, as does an address below zero), and  *)
(* no matter what for another instruction.                                 *)
(* Variant to be caught: the two bases are exchanged.                      *)
TakenSwapped(b, i, s) ==
  IF IsJnzImm(i)
  THEN {q # QZero :
          q \in MemGet(b, (IF "dst_base_fp" \in i.flags THEN s.ap ELSE s.fp)
                            + i.offset0)}
  ELSE {FALSE}

Taken(b, i, s) ==
  IF IsJnzImm(i)
  THEN {q # QZero :
          q \in MemGet(b, (IF "dst_base_fp" \in i.flags THEN s.fp ELSE s.ap)
                            + i.offset0)}
  ELSE {FALSE}

(* Instructions::push_instr: the builders and lists it may leave.          *)
PushInstr(b, lists, s) ==
  UNION {LET i == DecodeInst(g.inst)
         IN {[builder |-> g.builder,
              lists   |-> [lists EXCEPT ![ListOf(i, t)] = Append(@, s)]] :
               t \in Taken(g.builder, i, s)} : g \in GetInst(b, s.pc)}

(* The trace's first entry is the initial state, every later one becomes   *)
(* the final state.                                                        *)
(* Variant to be caught: the final state stays one entry behind.           *)
EndStatesBehind(n, s) ==
  IF n = 0 THEN [instructions EXCEPT !.initial_state = s]
  ELSE [instructions EXCEPT
          !.final_state = IF n = 1 THEN @ ELSE StateOf(input.trace[n])]

EndStates(n, s) ==
  IF n = 0 THEN [instructions EXCEPT !.initial_state = s]
  ELSE [instructions EXCEPT !.final_state = s]

-----------------------------------------------------------------------------
NothingRead == /\ memRead = 0
               /\ traceRead = 0
               /\ builder = NewBuilder
               /\ instructions = NoInstructions

(* The loop of MemoryBuilder::from_iter.                                   *)
(* Variant to be caught: the memory is still read as the trace is sorted.  *)
ReadMemoryLate ==
  /\ status \in {"memory", "trace"}
  /\ memRead < Len(input.memory)
  /\ memRead' = memRead + 1
  /\ builder' = AddEntry(builder, input.memory[memRead + 1])
  /\ UNCHANGED <<input, status, traceRead, instructions>>

ReadMemory ==
  /\ status = "memory"
  /\ memRead < Len(input.memory)
  /\ memRead' = memRead + 1
  /\ builder' = AddEntry(builder, input.memory[memRead + 1])
  /\ UNCHANGED <<input, status, traceRead, instructions>>

Pushed == PushInstr(builder, instructions.lists, StateOf(input.trace[traceRead + 1]))

Sorting == status = "trace" /\ traceRead < Len(input.trace)

(* The loop of Instructions::from_iter.                                    *)
ReadTrace ==
  /\ Sorting
  /\ traceRead' = traceRead + 1
  /\ \E p \in Pushed :
       /\ builder' = p.builder
       /\ instructions' =
            [EndStates(traceRead, StateOf(input.trace[traceRead + 1]))
               EXCEPT !.lists = p.lists]
  /\ UNCHANGED <<input, status, memRead>>

(* Instructions::counts                                                    *)
Counts == [l \in ListNames |-> Len(instructions.lists[l])]

(* push_instr panics: pc, or the cell a jump tests, is beyond the memory,  *)
(* or the word at pc is not in the base field.                             *)
SortPanics ==
  /\ Sorting
  /\ Pushed = {}
  /\ status' = "panic"
  /\ UNCHANGED <<input, memRead, traceRead, builder, instructions>>

-----------------------------------------------------------------------------
(* The states imported so far, and the entries of the memory.              *)
States == [k \in 1 .. traceRead |-> StateOf(input.trace[k])]
Entries == [k \in 1 .. memRead |-> input.memory[k]]

LastEntry(k) == \A l \in (k + 1) .. memRead : Entries[l].addr # Entries[k].addr

(* Through ids, holes and reallocations, an address reads as its last      *)
(* entry says, one that has none as the first entry of all, and one beyond *)
(* the largest not at all.                                                 *)
ReadsBack ==
  /\ DOMAIN builder.address_to_value_index =
       UNION {0 .. Entries[k].addr : k \in DOMAIN Entries}
  /\ \A k \in DOMAIN Entries :
       LastEntry(k) => MemGet(builder, Entries[k].addr) = {Reduce(Entries[k].val)}
  /\ \A a \in DOMAIN builder.address_to_value_index :
       (\A k \in DOMAIN Entries : Entries[k].addr # a)
         => MemGet(builder, a) = {Reduce(Entries[1].val)}

(* Two addresses that were written share an id when, and only when, the    *)
(* file has the same word for both, although ids are given by a cache and  *)
(* values that differ as words may be equal in the field.                  *)
IdsAreWords ==
  \A j, k \in DOMAIN Entries :
    LastEntry(j) /\ LastEntry(k) =>
      (builder.address_to_value_index[Entries[j].addr]
         = builder.address_to_value_index[Entries[k].addr]
       <=> Entries[j].val = Entries[k].val)

(* What get_inst cached is what the memory holds, now and at the end, and  *)
(* it is cached for the pc of every state that was imported.               *)
InstFresh ==
  /\ DOMAIN builder.inst_cache = {States[k].pc : k \in DOMAIN States}
  /\ \A pc \in DOMAIN builder.inst_cache :
       MemGet(builder, pc) = {Felt(builder.inst_cache[pc])}

(* Every state is in one list, the one its instruction asks for in the     *)
(* memory as it is at the end, and the lists keep the order of the trace:  *)
(* a state's place in its list is the number of states, up to it, that the *)
(* list is for.  The ends of the trace are the initial and the final       *)
(* state; a trace of one entry has no final state.                         *)
ListsFor(b, s) ==
  UNION {LET i == DecodeInst(q[1][1])
         IN {ListOf(i, t) : t \in Taken(b, i, s)} : q \in MemGet(b, s.pc)}

InList(l, n) == {k \in 1 .. n : ListsFor(builder, States[k]) = {l}}

ListsFollowTrace ==
  /\ \A k \in DOMAIN States : \E l \in ListNames : k \in InList(l, k)
  /\ \A l \in ListNames :
       /\ Len(instructions.lists[l]) = Cardinality(InList(l, traceRead))
       /\ \A k \in InList(l, traceRead) :
            instructions.lists[l][Cardinality(InList(l, k))] = States[k]
  /\ traceRead > 0 => instructions.initial_state = States[1]
  /\ instructions.final_state =
       IF traceRead > 1 THEN States[traceRead] ELSE VmState(0, 0, 0)

(* A field narrower than the three offsets has no room for a flag, so that *)
(* every instruction is generic; the code's is (2^31 - 1 and 2^48).        *)
NarrowField == P <= Offsets * Offsets * Offsets

OnlyGeneric ==
  NarrowField =>
    \A l \in ListNames \ {Generic} : instructions.lists[l] = << >>

-----------------------------------------------------------------------------
(* The import as the simple map it stands for: ids, the caches and the     *)
(* holes of the code change nothing that can be read.                      *)
ImageOf(b) == [a \in DOMAIN b.address_to_value_index |->
                 b.f31_values[b.address_to_value_index[a] + 1]]

At(image, a) == {image[x] : x \in {a} \cap DOMAIN image}

(* The lists that the word at the pc of a state, and the cell it tests, ask *)
(* for.                                                                    *)
ListsIn(image, s) ==
  UNION {LET i == DecodeInst(q[1][1])
             tested == At(image, (IF "dst_base_fp" \in i.flags THEN s.fp ELSE s.ap)
                                   + i.offset0)
         IN IF IsJnzImm(i) THEN {ListOf(i, v # QZero) : v \in tested}
            ELSE {ListOf(i, FALSE)} : q \in At(image, s.pc) \cap BaseField}

Image == INSTANCE RunImage WITH
  Lists   <- ListNames,
  ListsOf <- ListsIn,
  image   <- ImageOf(builder),
  first   <- IF builder.f31_values = << >> THEN {} ELSE {builder.f31_values[1]},
  sorted  <- instructions.lists

ImplementsImage == Image!RSpec
=============================================================================
