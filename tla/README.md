# stwo-cairo-m31 in TLA+

A verification development for `stwo-cairo-m31`: a Cairo virtual machine over the
field M31 (`crates/runnair`) and a prover for its runs (`crates/prover`).

- [The system](#the-system)
- [The modules](#the-modules)
- [The runs](#the-runs)
- [The proofs](#the-proofs)
- [What is not covered](#what-is-not-covered)
- [Plan](#plan)

## The system

| Part | State | Operations | Meets |
|---|---|---|---|
| Field arithmetic (stwo, external) | none | M31, CM31, QM31: +, -, *, inverse, / | everything |
| Relocatable values (`memory/relocatable.rs`) | none | pointers `(segment, offset)` and numbers; +, -, *, /, projection to an address, `relocate` | VM, memory |
| Memory (`memory/mod.rs`) | `relocatable_data`, `absolute_data` | `insert`, `get`, index, `relocate` | called by every instruction and by the hint |
| Opcode table (`vm/mod.rs`) | none | 172 opcodes, `opcode_to_instruction` | VM |
| Instructions (`vm/*.rs`) | none; they take the memory and `State` and return `State` | `addap`, `assert`, `call`, `jmp`, `jnz`, `ret`, with 17 operands | VM calls one a step |
| Hint runner (`vm/hints.rs`) | `pc_to_hint`, `input` | `maybe_execute_hint` | VM, before every instruction |
| Virtual machine (`vm/mod.rs`) | `memory`, `state` (ap, fp, pc), `hint_runner` | `create_for_main_entry_point`, `step`, `execute` | `run_fibonacci` |
| Program parsing (`vm/mod.rs`, `utils.rs`) | none | JSON to `Program`: `try_from`, `m31_from_hex_str` | VM |
| Prover memory (`input/mem.rs`) | `address_to_value_index`, `f31_values`, `inst_cache`, `felt31_id_cache` | `from_iter`, `set`, `get`, `get_inst` | the two imports, `prove_cairo` |
| Decoding and sorting (`input/decode.rs`, `instructions.rs`) | a list of states per kind of instruction, the two end states | `decode`, `push_instr`, `counts` | the two imports |
| Import of a run (`input/vm_import`, `plain.rs`) | none; two files or a finished runner become a `CairoInput` | `import_from_vm_output`, `input_from_finished_runner` | prover |
| Memory component (`addr_to_f31`) | `values`, `multiplicities` | `add_inputs`, `write_trace`, `write_interaction_trace` | `prove_cairo` |
| Proving, verifying (`cairo_air`) | channel, commitment scheme | `prove_cairo`, `verify_cairo`, `lookup_sum_valid` | stwo |
| Command line (`runnair/src/main.rs`) | none | one call of `run_fibonacci` | VM |

The two crates do not call each other: a run of `runnair` would reach the prover as the
files that `vm_import` reads.

The whole system is sequential: one thread, no messages, nothing persisted. What
is hard is elsewhere:

- **Deduction.** An assertion is an equation over up to three cells. With one
  unknown cell it *writes*, otherwise it checks. Which happens depends on the
  whole history of the run, and a cell that was deduced wrongly is noticed, if at
  all, much later. The prover's side only ever sees the final memory, so every
  step must be right about that one and not about the memory it ran in.
- **Two inserts that do not look.** `push_return_fp_and_pc` and the hint replace
  what a cell holds. `addap` can lower ap, so a call may push onto a frame in use.
- **`ret` trusts the stack.** It takes fp and pc from two cells, which calls,
  jumps, `addap` and assertions may all have written.
- **Panics everywhere.** A pointer plus a pointer, a quotient by zero, an operand
  outside the base field, an unknown opcode, a missing hint input: each must end
  the run and not be skipped.
- **The arithmetic wraps.** Offsets are field elements; -3 is P - 3.
- **Files that end early.** The iterators over the records of the memory and the
  trace take any error of a read for the end of the file, between any two records.
- **Indirection in the prover's memory.** Cells hold ids, ids are found by the word as
  the file has it, values are kept reduced, an instruction word is cached for ever and
  the holes between addresses belong to the first word of all. A value is right only
  if all of these stay in step while the entries come in any order.
- **Numbers on the prover's side.** Truncations, padding, indices by address or by
  value id, a field that is narrower than an instruction word, columns whose lengths
  differ.

`PROJECT.json` lists these one by one under `hazards`, with line and property.

## The modules

    Fields                 M31, CM31, QM31 over a prime P
      Relocatable          pointers and numbers: memory/relocatable.rs
        Memory             memory/mod.rs as a partial map: Get, Put, Insert, Relocated
          MemoryMap        the memory on its own: a map that answers what it was told last
          MemoryVectors    the memory as it is stored and grown; implements MemoryMap
            MCMemoryVectors  calls on a few cells
          Opcodes          the opcode table and decoding: vm/mod.rs
            Instructions   the instruction functions: vm/*.rs
              Equations    the instructions as equations over a given memory
              EntryPoint   the memory and registers a run starts from
                CairoVM            the machine: Init, one action per kind of instruction, Halt, Panic
                  MCCairoVM        families of small programs
                  VMHistory        CairoVM and Equations, with history variables
                    MCVMHistory    the same families for it
                ProgramFile        from a compiled file to a program
                  Fibonacci        the shipped program (with CairoVM)
                    FibonacciPoints  where a run of it can be
                      MCFibonacci  some claim indices
    ReadOnlyMachine        the abstract machine, instantiated by VMHistory

      ProverMemory         prover/src/input/mem.rs, over Fields
        Import             ProverMemory and Casm: what both imports share
          VmImport         the import from the files of the VM
            MCVmImport     small files
            AssembledImport  and Assembler: the states of each list, by what was assembled
              MCSort       these files, and words of every kind and one bit away from one
              MCCounts     the files of a small program, in the code's order of sizes
            CairoAir       VmImport and AddrToF31: prove_cairo
              MCCairoAir   small memories, packs of two lanes
          PlainImport      the import from a finished runner
            MCPlainImport  runners with any pattern of known cells
        AddrToF31          the memory component, over ProverMemory
    Casm                   decoding and the patterns of push_instr
      Assembler            external: the words the assembler gives
    RunImage               the abstract import, instantiated by Import

    FieldsProofs           the fields, and least elements, which stand for induction
    CairoVMProofs          values, the instructions, Equations and Relocated; then the
                           machine, its history, the program's file
      FibonacciProofs      the shipped program
    MemoryProofs           MemoryVectors against MemoryMap
    ImportProofs           what both imports share; VmImportProofs (with AssembledImport)
                           and PlainImportProofs have the theorems of each
    CairoAirProofs         prove_cairo

**Partial operations are sets.** An operation that may panic is an operator with a
set for a value: `{}` where the code panics, `{r}` where it returns `r`. An
instruction is then `UNION` over its parts and a step that panics is simply not
enabled; `Panic` is enabled exactly when no step is.

**Values.** The code has `MaybeRelocatable<M31>` for addresses and
`MaybeRelocatable<QM31>` for values, with `From` from the first to the second.
Here an address *is* a value: a pointer, or a number in the base field (`Addr`). So
the ten impls of `+` and `-` are `AddM31`, `SubM31`, `Plus` and `Minus`, and
`assert_and_project` is `Project`.

**Memory** is a function from the addresses that hold a value. `relocatable_data`
and `absolute_data` are told apart by the kind of the address. `Relocated` moves
every pointer's cell, in the order in which the code writes them.

**MemoryVectors** is the same memory as it is stored: a vector of vectors of
options, a vector being a function on 0 .. n-1 and `None` the empty set, grown by
`maybe_resize`, and a hash map. Its actions are the calls `insert` (of a pointer and
of an absolute address), `get` and `relocate`; `answer` is what the call returned.
Its refinement mapping `Cells` takes the known cells and the hash map together, and
`ImplementsMap` says that with it every call is a call of **MemoryMap**. That is why
the machine above may be modelled over a partial map: a cell beyond the end and a
cell that is `None` are both unknown to `get`, and both make the index panic. In
`MemoryMap` the relocation is stated cell by cell, in `MemoryVectors` it is the
code's two nested loops.

**Opcodes.** The 172 names follow a grammar (kind, operand, destination,
relative or absolute, `_appp`), and so does their order; `OpcodeToInstruction`
computes the record from the number. In `define_jnz!` the macro names its
parameters `$cond, $dest`, but `resolve_jnz_args` takes the *first* base and
argument for the destination and the second for the condition; the model follows
`resolve_jnz_args`.

**CairoVM** has four variables: `program` (chosen in `Init`, never changed; the
machine's code, hints and input), `memory`, `state` and `status`. A step is one
action, `AddAp`, `Assert`, `Call`, `Jmp`, `Jnz` or `Ret`, that does the hint, the
fetch, the instruction and the new registers: nothing in the code can observe the
machine between those. `Halt` is the end of `execute` with its assertion on fp.
`Panic` leaves memory and registers as they were before the step: in the code the
machine is gone with the panic, whatever the step had half done.

**VMHistory** adds three history variables: `frames`, the calls that have not
returned; `overwritten`, whether a known cell was ever given another value, by the
hint or, after it, by the instruction of the same step; `trace`, the registers before
each step. `MaxSteps` bounds the length of the trace.

**Equations** reads the instructions as a prover does. `Legal(m, s, t)` says that the
instruction at `s.pc` in the memory m takes the registers s to t, where an assertion is
that its two sides are equal (`Asserted`) and a call that the two cells at ap hold what it
saves (`Pushed`). Nothing is deduced and nothing is written. `RelocatedRegisters` are the
registers after the memory has been relocated.

**ReadOnlyMachine** is what a run promises to whoever proves it: a machine whose
memory only grows, by itself, and whose steps are `Legal` in the memory they leave. What a
program, its first memory and a legal step are, are its parameters, which `VMHistory`
gives by their names.
`VMHistory` implements it (`ReadOnly`) with `trusted <- ~overwritten`: the abstract
machine promises nothing after a known cell has changed. That exception is the
code's, which has two unchecked inserts; it is not a flaw of a run in which ap only
grows, which is what the compiler emits.

**ProgramFile** is `TryFrom for Program` and the input of the hint: four words of a
file make an instruction, an offset has a hint when the *first* hint the file has there
is the one the machine knows, and a text that is no number, or one beyond 32 bits,
panics. A text is the set of what it denotes, so the model starts where `from_str_radix`
ends. `m31_from_hex_str` does not reduce; `Canonical` says of a file that it needs not.

**Fibonacci** is the program of `tests/data/fibonacci_compiled.json`, 19 words and a hint,
as `run_fibonacci` reads it, and what it is for: `SquareFibonacci`, the sequence
y' = x^2 + y^2 from 1, 1. `StackFits` is what must hold of a claim index n: main takes 9
cells with the first call, each of the n others 7, and 7 n + 11 must not be beyond the
field (TLC evaluates it as `IndicesFit`). **FibonacciPoints** says where a run of it can be, instruction by instruction, and
what its memory then holds (`RunsAsClaimed`).

**ProverMemory** keeps the four maps of `MemoryBuilder` as the code does. `WithId` looks
a word up *as it stands in the file* and appends its reduced value if it is new; `Set`
grows the vector of cells, the skipped ones with id 0; `GetInst` reads through
`inst_cache`, which nothing ever clears. **Casm** decodes an instruction word and gives
the list of a state: the eleven patterns of `push_instr`, each an operator on the
offsets and on the set of the flags, with the flags a pattern leaves open. What a
pattern is *for* is in **Assembler**: the instructions that have a list as they are
written (which cells, with which bases), and the word that the (external) assembler gives
for an instruction.

**Import** has the two loops that both imports share, one action a turn: an entry goes
into the builder, a state of the trace is cut to 32 bits, read and put in a list. A
conditional jump is put there by what its cell holds *as it is sorted*. **VmImport** adds the
beginning (segments, the assertions on the largest `stop_ptr`, the errors), the ends of
the two files, and the end of the import. With `ReadsMayFail` a file may end after any
of its records, which is what `.ok()` makes of an I/O error or of half a record.
**AssembledImport** says of a state of the trace which list it belongs to by what was
assembled at its pc, without `decode` or `push_instr`: the word is, up to the bits above
the flags, which nothing reads (`WordsEnd`), that of an instruction of the list, and a
conditional jump's cell is zero or not as the list is for. A state with no word to decode,
or with a conditional jump whose cell is missing, is `Unreadable`.

**PlainImport** starts from a finished runner, numbers its cells before it drops the
unknown ones, and takes every value for zero, as line 65 of `plain.rs` does.

**RunImage** is what an import promises: a plain map from addresses to values, with no
ids and no caches, which is written first and then only read, each state going to a list
that the word at its pc asks for *in that map*. `Import` implements it
(`ImplementsImage`).

**AddrToF31** and **CairoAir** continue to the committed trace: the public memory is
read, the claim generator packs values and counts uses, columns are built and the
interaction trace is written. There the code panics (`Proves`, below), so `CairoAir`
ends there. A pack is a function on its lanes and a column one on its rows, so that the
places the code computes are computed in the model too.

## The runs

| Run | Question | Properties |
|---|---|---|
| `mc_fibonacci` | Does the shipped program end, without a panic, and with the right output? | `OutputIsTheClaim`, `NeverPanics`, `RunsAsClaimed`, `Terminates` |
| `mc_long` | Does the machine stay well-formed however long it runs? | `TypeOK`, `StackInExecution`, `CodeIntact`, `WriteOnce` |
| `mc_history` | Is what the machine deduces right, does it stay right, do calls nest, and what happens when ap is lowered? | `Replay`, `RelocatedReplay`, `ReadOnly`, `CallStack`, `ReturnsToCaller`, `HaltsReturned`, `CallsObey` |
| `mc_memory` | Are the growing vectors and the hash map one map, relocated too? | `DataOK`, `Frugal`, `ImplementsMap`, `RelocationKeepsCells` |
| `mc_memory_limit` | Does the memory keep the limit `validate_address` states? It does not. | `WithinLimit` |
| `mc_import` | Is what is imported what the files say, wherever they end, and is each instruction in the list of its kind? | `TypeOK`, `ReadsBack`, `IdsAreWords`, `InstFresh`, `ListsFollowTrace`, `SortedAsAssembled`, `StopsOnMissingCell`, `ImplementsImage`, `ImportEnds` |
| `mc_import_io` | Does an import that ends well read all of its files? It does not. | `AllIsRead` |
| `mc_counts` | Does an imported run count its kinds of instructions? It does not. | `KindsAreCounted` |
| `mc_plain` | Is a finished runner imported without a panic? | `PlainNeverPanics` |
| `mc_jmp_abs` | Is the jump of `test_jmp_abs` counted? It is not. | `JmpAbsIsCounted` |
| `mc_prove` | Does the claim state the file's memory, and the trace hold it? | `ClaimIsTheFile`, `UsesCounted`, `LayoutKeepsCells`, `BalancesWhenFound` |
| `mc_proves` | Can a memory be proved? It cannot. | `Proves` |

- `Replay`: every step of the trace obeys the memory *as it is now*, so at the end
  of a run every step obeys the final memory.
- `RelocatedReplay`: when a run has halted and a table moves no two cells to one
  address, every step still obeys the relocated memory, with its registers
  relocated: an equation that was solved over pointers holds of the numbers they
  become. This is what a prover, which knows nothing of segments, relies on.
- `ReadOnly`: the machine implements `ReadOnlyMachine`.
- `WriteOnce`: no step forgets a cell, and a known one is changed only by the two
  unchecked inserts. When the hint is due it takes from the machine (`HintPending`).
- `CallsObey`: a call reads its operand *after* it has pushed its two cells, whatever
  they held, so its step obeys the memory it leaves; unless it pushes onto itself. The
  properties above say nothing after an overwrite, which is when the order matters.
- `CallStack`: the saved fp and pc of every open call are in the two cells below
  its frame, and the frames form a chain that ends in main's.
- `ReturnsToCaller`, `HaltsReturned`: `ret` restores the latest open frame; a run
  that ends well has returned from every call. These are the code's comment "we
  never return from main" and its assertion "Only final `fp` is allowed when at
  final `pc`".
- `CodeIntact`: without hints the code that is executed is the code loaded.
- `StackInExecution`: ap never leaves segment 1.
- `OutputIsTheClaim`: a run of the shipped program that ends has the claim index and the
  term of that index in its output. `NeverPanics`: it never panics, so no instruction
  reads an unknown cell or asserts of a known one what it is not. `RunsAsClaimed`: at every
  step the machine is at one of the points of the program, with the frames of all calls so
  far on the stack, each with its two terms, its countdown and its way back, and nothing
  above ap. `Terminates`: it ends.
- `Frugal`: no vector is longer than twice its last used index and one, which is
  what doubling may cost.
- `RelocationKeepsCells`: a relocation that separates the cells (`Separates`) leaves
  each where its pointer now leads, and leaves no pointer.
- `WithinLimit` is **violated**, by an insert and a relocation: `validate_address`
  panics on an absolute address beyond 2^30 ("Max memory size is 2 **
  {MAX_MEMORY_SIZE_BITS}; got address: {address}.", memory/mod.rs:118), and
  `relocate` extends the hash map without it (memory/mod.rs:75). The limit itself
  carries a "TODO: confirm this limit" (memory/mod.rs:16).

- `ReadsBack`: an address reads as its last entry says, one that has no entry as the
  first entry of all, and one beyond the largest not at all, at every moment of the
  import. `IdsAreWords`: two written addresses share an id exactly when the file has the
  same word for both. `InstFresh`: what is cached is what the memory holds.
- `ListsFollowTrace`: every state is in the one list that the final memory asks for, in
  the order of the trace; a trace of one entry leaves the final state at its default.
- `KindsAreCounted` is **violated**, by a call, a return and a jump. The (ignored) tests
  of `vm_import/mod.rs` expect every kind of instruction to be counted ("ret: 462,",
  "jmp_rel_imm: [124627, 0],", lines 183 and 185; "ret: 49472,", line 160). But `get_inst`
  makes the word from an M31, so that its flags, which are bits 48 to 62, are never set,
  and all states are generic. (A file with the upper bits of a word in the other numbers
  of a record panics in `get_inst`, mem.rs:121.) `EveryStateIsGeneric` proves it of every
  file.
- `ImportEnds`: every import ends, however its files are cut; a panic is an end too.
- `SortedAsAssembled`: each list has, in the order of the trace, exactly the states that
  belong to it by what was assembled at their pc, taken or not, and the generic list
  those that belong to no other.
  `StopsOnMissingCell`: no state that was sorted is unreadable, and with the segments as
  they should be an import panics at an unreadable state and nowhere else.
- `PlainNeverPanics`: a runner that holds its program and has executed known cells only
  is imported without a panic, and its public memory can be read.
- `JmpAbsIsCounted` is **violated**, by the run of `test_jmp_abs`: that (ignored) test says
  "assert_eq!(instruction_counts.jmp_abs[0], 1);" (lib.rs:25), but line 65 of `plain.rs`
  makes every word zero, and a zero word is generic. `PlainCountsGeneric` proves it of
  every runner.
- `ClaimIsTheFile`: the public memory of the claim is what the memory file says last of
  the addresses the other file names, through the cut, the ids and the holes.
  `UsesCounted`: an address is counted as often as it was looked up, by address.
  `LayoutKeepsCells`: the value column holds each coordinate of each cell, once.
  `BalancesWhenFound`: the sum that `lookup_sum_valid` asks for is zero exactly when each
  public value is in the base field and equals the coordinate that the layout puts in the
  row of its address. That is so for a base field value within the first chunk, elsewhere
  only if two cells happen to agree, and never for an extension value. `prove_cairo`
  asserts it of every claim (`debug_assert!`, cairo_air/mod.rs:204), but panics
  before it gets there (`Proves`), so no run can reach that assertion.
- `AllIsRead` is **violated** by a read that fails after a record: `import_from_vm_output`
  answers `Ok` with the part of the file before it, although `VmImportError` has a case
  for I/O errors ("IO error: {0}", vm_import/mod.rs:20).
- `Proves` is **violated** by four cells: `write_trace` makes the column of the
  multiplicities a quarter as long as the others, `write_interaction_trace` runs past
  its end. A memory that does not fill a chunk fails earlier, at the unwrapped logarithm
  of zero. The ignored tests of `cairo_air/mod.rs` unwrap the proof (line 329).

**Bounds.** P = 223. It must be a prime above 171, so that every opcode is an
element; congruent to 3 modulo 4, so that CM31 is a field; and such that 2 + i is
not a square in CM31 (its norm 5 is not a square modulo P), so that QM31 is one.
2^31 - 1 satisfies the same three. MaxAddress = 128, so that an immediate can be
above it, as 2^30 is below 2^31 - 1. A program of `mc_history` is
any sequence of 4 words of one of two alphabets, of 11 and of 12, closed by a `ret`, with one of
four hint settings (none; at one of two places, with a base field input and with
one outside it; without an input): 4 * 11^4 and 4 * 12^4 programs, each run for at
most 10 steps. `mc_long` has the
sequences of 3 words of the control alphabet of 12 and no bound on steps: a program that
loops goes on until ap has wrapped around the field and the machine is back in an
earlier state, after up to 1484 steps, having overwritten main's frame on the way. The alphabets
have, for equations, immediates, pointer arithmetic, sums, products and quotients
in each direction of deduction, and double dereferences into the output, the code
and the absolute addresses; for control, calls by an immediate, by a saved
register and by a cell the call has just written, returns, jumps, conditional
jumps taken or not, and `addap` in both directions. In this run three calls are
open at once, known cells are overwritten, runs halt after seven and more steps,
and traces reach the bound. Four instructions are enough to lower ap, push onto a
frame and return through it, and to deduce a cell from a deduced cell.
`RelocatedReplay` is asked under the layouts of `MCVMHistory`. Most programs panic
early, which is part of the question: the steps before it
must be right.

`mc_fibonacci` runs the 19 words of `tests/data/fibonacci_compiled.json` with claim
indices 0, 1, 2, 3, 5, 8, 13 over P = 223; the repository's test runs it with 0x64
over 2^31 - 1 and checks no output. Negative offsets are P - k in both. `StackFits`
holds up to 30 there (7 * 30 + 10 < 223); at 31 the stack comes round to main's frame and
the machine panics. The terms are computed by their recurrence, which TLC evaluates
without a memory, so the indices are small; the theorems are for all that fit.

`mc_memory` takes P = 5 and MaxAddress = 3, because nothing in the memory depends on
the field but the wrap of base plus offset and the limit. Its six addresses are
three cells of segment 0 (growth within and beyond the double), one of segment 2
(an empty segment 1 before it), an absolute address that cells may land on, and one
beyond the limit; two values, a number and a pointer; three tables, one that wraps
around the field and keeps the two segments apart, one that makes them overlap and
one that lacks a segment, where the code panics.

`mc_import` has a field in which an instruction word fits, since the lists are only told
apart there: three offsets of two bits (the least that has -2 .. 1) and fifteen flags make
21 bits. P = 4194319 is the least prime above 2^22, so that the bit above the flags,
which nothing reads, can be set, and below WordSize = 2^23, as 2^31 - 1 is below 2^32.
Its first memory files are all sequences of up to three entries over the addresses
0, 1, 3 (a hole at 2) and four words, two of which are zero in the field; their
three traces name written, skipped and missing addresses and some that are cut. Three
entries are the least with which an address is written twice around another. Then come
files for sorting: every word that can be assembled and, for each setting of the flags, all
that differ from the first such word by a single bit, with tested cells and missing ones on
both sides; and traces of three states over every mix of two instructions, the last of
which may be at a word outside the base field or beyond the memory. Any file may end
anywhere. `mc_import_io` has the first files alone, over P = 5. `mc_plain` needs no bit
above the flags: P = 2097169, the least prime above 2^21. That the
code's field is not wide enough is what `KindsAreCounted` shows; `decode` takes any u64 and
is checked for that. `mc_jmp_abs` has the sizes of `mc_plain`, so that its jump is lost in
the import and not for want of room.

`mc_counts` has the code's order of sizes: the field (P = 7) is below a word (16), which is
two offsets of two bits, as 2^32 is two of sixteen, and an instruction is longer. Its one
program is `call rel 4; jmp rel 0; ret`, the call going to the return and the return to the
jump, which is a loop of one instruction; two turns of it are in the trace.

`mc_prove` has packs of two lanes instead of sixteen and a bound of 8 cells instead of
2^20, so that memories of one, two and four chunks, of less than a chunk and beyond the bound
all occur; P = 37 is above the 32 rows of the largest table, as 2^31 - 1 is above 2^22.

**Fairness.** `FairSpec` of `CairoVM` is used by `mc_fibonacci` and that of `VmImport` by
`mc_import`: weak fairness of `Next`. `execute` is a loop in one thread with no
waiting, and so is the import, whose files only end; as long as a step is possible one is
taken. The other runs check safety only.

**Deadlock** is checked in `mc_memory` and not in the others: a machine that has halted
or panicked stops, a run of `VMHistory` stops at `MaxSteps`, and an import or a proof
stops when it is done, has failed or has panicked.

Each property that holds has a variant of one mapped definition (the `Variant to be caught`
comments) that a plausible slip in that code would give, and that violates the
property in the same run.

## The proofs

The theorems hold for every P > 3 (it need not be a prime), every `MaxAddress`
below it, every set of `Programs`, of addresses, values and tables, in
`CairoVMProofs` every bound on steps, and on the prover's side for every set of
`Files` and of finished `Runners`, all sizes of words and offsets, every power of two of
lanes (`N_LANES` is 16), and with or without failing reads. The
assumptions are named in the modules that declare the constants (`PAssumption`,
`MaxAddressAssumption`, `ProgramsAssumption`, `TablesAssumption`, `CallsAssumption`,
`WordAssumption`, `ShiftAssumption`, `OffsetsAssumption`, `FilesAssumption`,
`RunnersAssumption`, `FailAssumption`, `LanesAssumption`, `BoundAssumption`), and TLC
evaluates them in the runs.

| Theorem | States |
|---|---|
| `TypeCorrect` | `Spec => []TypeOK` |
| `StackCorrect` | `Spec => []StackInExecution` |
| `WriteOnceCorrect` | `Spec => WriteOnce` |
| `CodeIsIntact` | `Spec => []CodeIntact` |
| `HistoryOnlyWatches` | `HSpec => Spec`: the history variables constrain nothing else |
| `CallsNest` | `HSpec => []CallStack` |
| `RetReturns` | `HSpec => ReturnsToCaller` |
| `HaltReturns` | `HSpec => []HaltsReturned` |
| `CallsAlwaysObey` | `HSpec => CallsObey` |
| `ImplementsReadOnly` | `HSpec => ReadOnly`: the machine refines the read-only one |
| `ReplayHolds` | `HSpec => []Replay` |
| `RelocatedReplayHolds` | `HSpec => []RelocatedReplay` |
| `DataStaysOK` | `DSpec => []DataOK` |
| `FrugalAlways` | `DSpec => []Frugal` |
| `ImplementsTheMap` | `DSpec => ImplementsMap`: the stored memory refines the plain map, `relocate` included |
| `RelocationForgetsNothing` | `DSpec => RelocationKeepsCells` |
| `RelocationIsFaithful` | for every map and every table that separates its cells, `Relocated` keeps each cell and leaves no pointer |
| `LoadedIsProgram` | what is read from a canonical file is a program, as `ProgramsAssumption` asks |
| `OutputCorrect` | for the shipped program, `Spec => []OutputIsTheClaim` |
| `NeverPanicsCorrect` | for the shipped program, `Spec => []NeverPanics` |
| `RunsCorrect` | for the shipped program, `Spec => []RunsAsClaimed` |
| `TypeCorrect` (of the import) | `Spec => []TypeOK` |
| `WhatWasWrittenIsRead` | `Spec => []ReadsBack` |
| `IdsTellWordsApart` | `Spec => []IdsAreWords` |
| `CacheIsFresh` | `Spec => []InstFresh` |
| `StatesAreSorted` | `Spec => []ListsFollowTrace` |
| `EveryStateIsGeneric` | `Spec => []OnlyGeneric`: why `KindsAreCounted` fails, of all files |
| `ImplementsTheImage` | `Spec => ImplementsImage` |
| `EveryListIsAsAssembled` | `Spec => []SortedAsAssembled` |
| `StopsOnlyAtMissingCells` | `Spec => []StopsOnMissingCell` |
| `DecodeUndoesEncode`, `WordOf` | an instruction's word decodes to the instruction, and a number below `WordsEnd` is the word of what it decodes to and of nothing else |
| `ListOfWritten` | the list of an instruction is the one whose form it was written in |
| `PatternsAreDisjoint`, `ListOfFits` | no instruction fits two patterns of `push_instr`, and it is put in the list of the one it fits |
| `PlainNeverStops` | `Spec => []PlainNeverPanics`, for the import of a finished runner |
| `PlainCountsGeneric` | `Spec => []PlainIsGeneric`: why `JmpAbsIsCounted` fails, of all runners |
| `PlainImplementsTheImage` | `Spec => ImplementsImage`, for the same import |
| `ClaimStatesTheFile` | `ASpec => []ClaimIsTheFile` |
| `UsesAreCounted` | `ASpec => []UsesCounted` |
| `CellsAreLaidOut` | `ASpec => []LayoutKeepsCells` |
| `BalanceIsByPlace` | `ASpec => []BalancesWhenFound` |

**Types.** `FieldsProofs` shows that each operation of the three fields returns an
element, and how adding and subtracting offsets compose. `CairoVMProofs` first shows
the same of values, and, for each instruction, that the registers it gives are
addresses and that the memory it gives is the one it was given or that with *one
unknown cell* filled (`Fills`). `TypeOK` is inductive by these alone.

**Write-once.** `StepMemory` sums a step up: every instruction
but a call leaves the hinted memory or fills one cell of it, and a call inserts two.
`WriteOnce` follows from it. `CodeIntact` is not inductive: a call could push onto
code if ap pointed there. With `StackInExecution`, which is inductive because adding
a pointer to ap, itself a pointer, panics, it is.

**Calls.** `CallStack` as stated is inductive together with the types of its frames
(`FramesType`): a call puts the new frame's saved registers into the two cells below
its fp; a step that overwrites nothing keeps every saved cell; `ret` finds in memory
what the first frame records. Main's frame is the last one, saved by the entry point.
`ReturnsToCaller` and `HaltsReturned` follow: the base of an open frame is in the
execution segment (`StackCells`, part of `FramesOK`) and the final fp is not, so at
the final fp no frame is open. `CallsAlwaysObey` needs no such invariant: a call that does
not push onto itself leaves its instruction at pc, its two cells hold what it pushed, and
its operand was read from just that memory.

**Memory.** `WrittenIs` states what an insert leaves in the vectors, from `ResizeIs`,
which states what `maybe_resize` does. The refinement goes through what `get` answers:
`CellsAreReadings` says that the map holds exactly that, `ReadingsAfterPointer` and
`ReadingsAfterAbsolute` what it answers after an insert, and two maps with the same
readings are equal. The two loops of `relocate` are recursive functions, which TLA+ takes
for a function that satisfies its equation, if there is one. That there is one, and
what it holds after each turn, is shown by a least counterexample (`LeastNat`):
`SegmentStepsExist` and `AllStepsExist`, then `SegmentMerges` and `AllMerge`. The loop
invariant is `Merged`: the hash map holds, of all the cells `Before` a place, what the last
of them that lands on an address leaves there, and elsewhere what it held. When
the loops are done these are all cells, and that is `MemoryMap`'s relocation. The
invariant `Shape` has to add to `DataOK` and `Frugal` that a known cell's offset is an
element of the field (`OffsetsOK`): the vectors' own shape does not say so, and without it
the offset at which the loop finds a cell would not be the one of its pointer. What a
relocation does to the map is `RelocationIsFaithful`.

**Programs.** `LoadedIsProgram` discharges the assumption of the machine's theorems for
every file whose words are reduced, and shows why they must be: nothing in the
conversion sees to it.

**The shipped program.** The theorems of `FibonacciProofs` are for any P, any of the
program's files and any indices that fit (`StackFits`); that they ask of `Programs` to be
`FibonacciPrograms` is how the run has it. They need no bound on the recursion, which is as
deep as the index: `RunsAsClaimed` is inductive. First, what it speaks of. `ProgramIs`:
whatever variant of the file is read, the code is the same 19 elements, the hint is the
one at offset 1, and the input is the index. `InstructionsAre`: what these elements decode
to. `SquareFibonacciIs`: that a function with that recurrence exists, again by least
counterexamples. Then each instruction has a lemma of what it does in a frame, and each
kind of point a lemma of the step from it (`StepEntering` to `StepConcluding`), all by
`StepIs`: where the instruction at pc is known and succeeds in one way, that is the step
the machine takes, and it neither panics nor ends. What makes it go through is that
nothing lies above ap, in the execution segment or in the output (`Free`): so every cell
the program writes is unknown, which is at once why no assertion fails and why what is
known stays known (`WrittenIs`, `KnownGrows`). In frame k the countdown is n - k, so
the body is left for the last time at k = n and the way back leads through the frames
k = n, ..., 0, since each has kept the fp and pc of the one before (`StepReturning`).

**Import.** `IInv` is inductive: the types, `BuilderOK`, `TraceOK` and `OnlyGeneric`. What
has to be known of the builder for `ReadsBack` and `IdsAreWords` is more than they say:
that the ids given out are positions of the words' own values and no two words have one
(`IdsOK`), that every address has the id of its last entry and every hole id 0, and that
id 0 is the first entry's (`CellsOK`), that what is cached is what a read would give
(`InstsOK`); and for `InstFresh`, that no trace entry is read before the memory has ended
(`TraceOK`), without which a later entry would leave the cache stale. Entries of any
number, order and address are covered by the induction on steps. `OnlyGeneric` is proved
from the size of the field alone: three offsets shifted out of a word below P leave no
bit, and each pattern but the generic one asks for a flag. The refinement maps a cell to
the value of its id; an entry is a `Store`, whatever ids it makes or reuses, and a state
a `Sort`, since a cached word is the word in the map. `ListsFollowTrace` gives a state its
place in its list as a cardinality, the number of states up to it that the list is for;
`Sorted`, the part of `TraceOK` that says so of the states read, grows by one list and one
place at a time (`SortedGrows`). `PatternsAreDisjoint` finds seven flags that every pattern
fixes and that tell it from the others, with the bases and `op1_imm` where two kinds of
assertion share the seven.

**What the lists are for.** `ListsFollowTrace` speaks of `decode` and of the patterns;
`SortedAsAssembled` of neither, and `BelongingIs` shows that they say the same of a state.
`decode` and `Encode` undo each other, up to what lies above the flags: three offsets are
three digits of a number (`DigitsOf`, `DigitsAre`), and the fifteen flags three groups of
five bits (`FiveFlags`, `FlagsWordBits`, `WordOfFlags`), each small enough for the prover.
Then, for each pattern, an instruction fits it exactly if it is one of those the list is
for (`WrittenRet` to `WrittenDeref`), the open flags being what the written form leaves to
choose; `PlacesAreWritten` adds the place among the kind's lists, and `ListOfNone` that what
is written in no form is generic. The theorem asks nothing of the files or of the width of
the field; in the code's narrow one it says, with `OnlyGeneric`, that no word of the memory
was assembled for a list. For `StopsOnMissingCell` the invariant is extended by `PanicOK`,
what is known after a panic: each way to panic leaves one of the segment conditions
broken or the next state of the trace unreadable (`PushedNothing`).

**The finished runner.** `PInv` adds to the same `IInv` that the memory is all zeros
(`AllZero`), that its entries are a runner's known cells in order (`Origin`), and what each
stage knows of the public addresses. A zero word has no flags, so a state only
needs a cell at its pc; there is one, since the cells up to the largest known one are all
there and a runner has executed known cells only. The public
addresses go up to `program_len` cut to 32 bits, which is at most `program_len`.

**Proving.** `AInv` adds to `IInv` that an address that was written was written a last time
(`LastsExist`), what is fixed at each stage (`StagesOK`) and the counts as cardinalities
of sets of positions (`CountsOK`). An import step keeps all of it, by `IInv`'s own lemmas,
which were stated for any continuation of the import. `CommittedOK` adds to this what the
committed columns come from: a generator has the packs of the memory that was imported,
within the bound, the public memory was read from it, and when there is a trace every
public address has been counted. The rest is about operators. The size is a power of two
and so is the number of lanes; the smaller of two such numbers divides the larger
(`PowersDivide`), so a memory is less than one chunk, and then nothing is committed, or
whole chunks with no cell left over (`SizeIs`). This is where the theorem needs
`LanesAssumption`: with three lanes the last cell of four would be dropped. `CellRow` goes
through the rows of the column (`RowIs`, `RowOf`). A tuple begins with the row's
number, so the tuple of a public address can only be looked up in the row of that number;
that row holds the coordinate `CoordinateOfRow` of the cell `CellOfRow` (`CellInRow`). The
sum over that one row is its multiplicity (`SumOne`) and over no row zero (`SumNone`), hence
`BalanceIs`. `FirstChunkIsFound` says that in the first chunk, where the row of an address is
the row of its own cell's first coordinate, every base field value is found.

**Deduction.** `Replay` and `ReadOnly` need that what an assertion deduces is a solution of
its equation. `FieldsProofs` has the laws this takes: products of M31 are integer
products up to multiples of P, so the polynomial identities of CM31 and QM31 can be
checked over the integers; P need not be prime, since `MInverse` either returns an
inverse or panics. `DeduceIs` is then: the operand an assertion solves for, over numbers
or pointers, satisfies the operation (`AssertHolds` for each of the operands). The other
half is that it stays satisfied. An operand, a jump's target or a popped register that a
memory allows, a larger one allows (`GetGrows`, `SidesGrow`, `OperandGrows`, `StatesGrow`),
so `LegalGrows`. `StepObeys` puts the two together for a step that overwrites nothing, and
`Replay` is inductive by it. `Overwrites` looks at the hinted memory too: a step whose hint
changes a cell that its instruction changes back would otherwise be taken for one that
only adds.

**Relocation.** `RelocationIsFaithful` makes the relocated memory the image of the memory
(`Images`): each cell where its pointer leads, with its own pointer relocated. Moving a
pointer by an offset and then relocating it is relocating it and then adding, if its
segment is in the table (`RelocateMoves`), and so for the sums of the equations
(`RelocateApply`; their products are of numbers, which relocation leaves alone). So
each operand, target and register has its image (`OperandMoves`, `StatesMove`) and a step
that a memory allows is one that its image allows (`LegalMoves`). What must be known besides
is that the table has the segments of the registers that a step reads or moves: pc's,
since there is a cell at pc; fp's, if the step reads a cell at it; and ap's, which is
moved without being read, because ap stays in the execution segment (`StackInExecution`),
where main's frame keeps a cell for ever (`Based`), and a table that relocates the memory
covers every cell.

**Only model-checked:** `Terminates` and `ImportEnds`, which are liveness, out of the
prover's reach. (That the shipped program never panics and is always at one of its points
is proved; that it gets to the last one is not.) `Proves`, `AllIsRead`,
`WithinLimit`, `KindsAreCounted` and `JmpAbsIsCounted` are violated; `EveryStateIsGeneric`
and `PlainCountsGeneric` prove why the last two are.

## What is not covered

- `verify_cairo`, and what `prove_cairo` does after the interaction trace: the prover
  panics before, so no run reaches them. (In stwo's own checks the columns of different
  lengths might fail even earlier, when they are made into evaluations; stwo is external.)
  FRI, Merkle trees, polynomials and the constraint framework belong to stwo.
- Texts: JSON is read by serde, and a numeral is the number it denotes. Hint keys and
  words are both read in base 16.
- Words of a program that are not reduced: `ProgramFile` models how they come in, the
  machine is modelled for canonical programs only.
- The size of memory. A pointer with a wrapped offset makes the code allocate
  almost 2^31 cells; the model has no allocation.
- The execution of a program by the external `cairo-vm` in `input/plain.rs`: a runner is
  what it left.
- Functions that nothing calls: `get_raw_id`, `value_from_f31`, `iter_values`,
  `Memory::get_inst`, the `Display` of the counts; the command line, one call.

## Plan

1. *Done:* the machine, its call discipline, its deductions; types, write-once and
   the call stack proved.
2. *Done:* what a step deduces as an equation; `Replay`, `ReadOnly` and `RelocatedReplay`
   proved.
3. *Done:* `MemoryVectors` against `MemoryMap`, `relocate` included; the refinement
   proved.
4. *Done:* the prover's memory, both imports, decoding and sorting, against the plain image
   of a run; the invariants and the refinement of both proved; the lists against what the
   assembler writes, proved too.
5. *Done:* the memory component and `prove_cairo` up to its panic; the claim, the counts,
   the layout and the balance of the lookups proved. When the columns are
   mended, what follows is to be added to `CairoAir`, with the transcript of
   `verify_cairo` beside it.
6. *Done:* the program's file; the output of the shipped program, proved for every index
   that fits.
