------------------------------ MODULE VMHistory -----------------------------
(***************************************************************************)
(* The virtual machine with history variables, to say what a run as a      *)
(* whole must look like: the calls that have not returned, whether a known *)
(* cell was ever changed, and the registers of every step.                 *)
(***************************************************************************)
EXTENDS CairoVM, Equations

CONSTANTS MaxSteps,   \* bound on the steps of a run
          Tables      \* where its memory may be relocated to

ASSUME TablesAssumption == \A table \in Tables : IsTable(table)

VARIABLES
  frames,       \* the open calls, the latest first
  overwritten,  \* some cell that held a value has been given another
  trace         \* the registers before each step

hvars == <<program, memory, state, status, frames, overwritten, trace>>

Frame(base, fp, pc) == [base |-> base, fp |-> fp, pc |-> pc]

HInit == /\ Init
         /\ frames = <<Frame(InitialStack, FinalFp, FinalPc)>>
         /\ overwritten = FALSE
         /\ trace = << >>

Changes(m, n) == \E a \in DOMAIN m : a \notin DOMAIN n \/ n[a] # m[a]

(* In a step, first the hint writes and then the instruction.              *)
Overwrites == \E m \in HintedMemories : Changes(memory, m) \/ Changes(m, memory')

Observe == /\ Len(trace) < MaxSteps
           /\ overwritten' = (overwritten \/ Overwrites)
           /\ trace' = Append(trace, state)

HCall == /\ Call
         /\ frames' = <<Frame(state'.fp, state.fp, AddM31(state.pc, 1))>> \o frames
         /\ Observe

HRet == /\ Ret
        /\ frames' = IF frames = << >> THEN << >> ELSE Tail(frames)
        /\ Observe

HLocal == /\ AddAp \/ Assert \/ Jmp \/ Jnz
          /\ frames' = frames
          /\ Observe

HEnd == /\ Halt \/ Panic
        /\ UNCHANGED <<frames, overwritten, trace>>

HNext == HCall \/ HRet \/ HLocal \/ HEnd

HSpec == HInit /\ [][HNext]_hvars

-----------------------------------------------------------------------------
(* The base of the latest open frame is fp, its two saved registers are in *)
(* the two cells below it, and below main there is only the final state:   *)
(* a call (vm/call.rs) pushes what `ret` will pop, and nothing between the *)
(* two disturbs it unless a known cell is overwritten.                     *)
Saved(m, f) == /\ Get(m, SubM31(f.base, 2)) = {f.fp}
               /\ Get(m, SubM31(f.base, 1)) = {f.pc}

CallStack ==
  ~overwritten =>
    /\ \A k \in 1 .. Len(frames) : Saved(memory, frames[k])
    /\ \A k \in 2 .. Len(frames) : frames[k - 1].fp = frames[k].base
    /\ frames # << >> => /\ state.fp = frames[1].base
                         /\ frames[Len(frames)].fp = FinalFp
                         /\ frames[Len(frames)].pc = FinalPc
    /\ frames = << >> => state.fp = FinalFp /\ state.pc = FinalPc

(* `ret` comes back to the instruction after the call, in the caller's     *)
(* frame.                                                                  *)
ReturnsToCaller ==
  [][Ret /\ ~overwritten' => /\ frames # << >>
                             /\ state'.fp = frames[1].fp
                             /\ state'.pc = frames[1].pc]_hvars

(* A run that ends well has returned from every call: "we never return     *)
(* from main" and "Only final `fp` is allowed when at final `pc`"          *)
(* (vm/mod.rs).                                                            *)
HaltsReturned == status = "halted" /\ ~overwritten => frames = << >>

(* A call reads its operand from the memory that it leaves, the two cells  *)
(* it has just pushed among them, even where they held something else: its *)
(* step obeys that memory, whatever was overwritten, unless what it pushed *)
(* lies over the call itself (push_return_fp_and_pc comes before the       *)
(* operand in define_call, vm/call.rs).                                    *)
CallsObey ==
  [][Call /\ state.pc \notin {state.ap, AddM31(state.ap, 1)}
       => Legal(memory', state, state')]_hvars

-----------------------------------------------------------------------------
Abstract == INSTANCE ReadOnlyMachine WITH prog    <- program,
                                          mem     <- memory,
                                          regs    <- state,
                                          ended   <- status = "halted",
                                          trusted <- ~overwritten

(* Until a known cell is overwritten the machine is the read-only one:     *)
(* what a step deduces makes the equation of its instruction true.         *)
ReadOnly == Abstract!ASpec

(* What a prover needs of a finished run: every step it took obeys the     *)
(* memory the run leaves, not the one it was taken in.                     *)
Replay ==
  ~overwritten =>
    \A k \in 1 .. Len(trace) :
      Legal(memory, trace[k],
            IF k < Len(trace) THEN trace[k + 1] ELSE state)

(* A finished run still checks after its memory is relocated               *)
(* (Memory::relocate), and its registers with it: what was deduced over    *)
(* pointers holds of the numbers they become.                              *)
RelocatedReplay ==
  status = "halted" /\ ~overwritten =>
    \A table \in Tables : \A m \in Relocated(memory, table) :
      Separates(table, memory) =>
        \A k \in 1 .. Len(trace) :
          Legal(m, RelocatedRegisters(trace[k], table),
                RelocatedRegisters(IF k < Len(trace) THEN trace[k + 1] ELSE state,
                                   table))
=============================================================================
