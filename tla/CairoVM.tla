------------------------------- MODULE CairoVM ------------------------------
(***************************************************************************)
(* The virtual machine of runnair (vm/mod.rs): it loads a program, then    *)
(* repeats `step` (the hint at pc, then the instruction at pc) until pc is *)
(* the final one.  A step is one action, since nothing can observe the     *)
(* machine between its parts; a panic anywhere in a step ends the run.     *)
(*                                                                         *)
(* The program a run executes is chosen in Init from Programs, so that one *)
(* check covers every program of a family.                                 *)
(***************************************************************************)
EXTENDS EntryPoint

VARIABLES
  program,   \* what the run was created with
  memory,    \* VM::memory
  state,     \* VM::state, the registers
  status     \* "running", or how `execute` ended

vars == <<program, memory, state, status>>

-----------------------------------------------------------------------------
Init == /\ program \in Programs
        /\ memory = LoadedMemory(program)
        /\ state = InitialRegisters
        /\ status = "running"

-----------------------------------------------------------------------------
(* A step.                                                                 *)

(* maybe_execute_hint looks the hint up by pc's offset alone, whatever     *)
(* segment pc is in.                                                       *)
HintPending == IsRel(state.pc) /\ state.pc.offset \in program.hints

(* The memory after the hint: {} where it panics, which it does when pc is *)
(* not a pointer and when the input is missing.                            *)
HintedMemories ==
  CASE ~IsRel(state.pc) -> {}
    [] HintPending      -> UNION {Insert(memory, state.fp, Abs(q)) : q \in program.input}
    [] IsRel(state.pc) /\ ~HintPending -> {memory}

(* The instruction at pc, of one of the given kinds.                       *)
Fetch(m, kind) ==
  {i \in UNION {Decode(v) : v \in Get(m, state.pc)} : i.op.kind = kind}

Running == status = "running" /\ state.pc # FinalPc

(* addap_*                                                                 *)
AddAp == /\ Running
         /\ \E m \in HintedMemories : \E i \in Fetch(m, "addap") :
              /\ memory' = m
              /\ state' \in AddApStates(m, state, i)
         /\ UNCHANGED <<program, status>>

(* assert_*                                                                *)
Assert == /\ Running
          /\ \E m \in HintedMemories : \E i \in Fetch(m, "assert") :
               /\ memory' \in AssertMemories(m, state, i)
               /\ state' = Advance(state, i.op.appp)
          /\ UNCHANGED <<program, status>>

(* call_*                                                                  *)
(* Variant to be caught: the destination is read before the pushes.        *)
CallReadsEarly ==
  /\ Running
  /\ \E m \in HintedMemories : \E i \in Fetch(m, "call") :
       /\ memory' \in PushReturn(m, state)
       /\ state' \in CallStates(m, state, i)
  /\ UNCHANGED <<program, status>>

Call == /\ Running
        /\ \E m \in HintedMemories : \E i \in Fetch(m, "call") :
             /\ memory' \in PushReturn(m, state)
             /\ state' \in CallStates(memory', state, i)
        /\ UNCHANGED <<program, status>>

(* jmp_*                                                                   *)
Jmp == /\ Running
       /\ \E m \in HintedMemories : \E i \in Fetch(m, "jmp") :
            /\ memory' = m
            /\ state' \in JumpStates(m, state, i)
       /\ UNCHANGED <<program, status>>

(* jnz_*                                                                   *)
Jnz == /\ Running
       /\ \E m \in HintedMemories : \E i \in Fetch(m, "jnz") :
            /\ memory' = m
            /\ state' \in JnzStates(m, state, i)
       /\ UNCHANGED <<program, status>>

(* ret                                                                     *)
Ret == /\ Running
       /\ \E m \in HintedMemories : \E i \in Fetch(m, "ret") :
            /\ memory' = m
            /\ state' \in RetStates(m, state)
       /\ UNCHANGED <<program, status>>

Step == AddAp \/ Assert \/ Call \/ Jmp \/ Jnz \/ Ret

-----------------------------------------------------------------------------
(* The end of `execute`.                                                   *)

(* Variant to be caught: the check of fp at the final pc left out.         *)
HaltUnchecked == /\ status = "running"
                 /\ state.pc = FinalPc
                 /\ status' = "halted"
                 /\ UNCHANGED <<program, memory, state>>

Halt == /\ status = "running"
        /\ state.pc = FinalPc
        /\ state.fp = FinalFp
        /\ status' = "halted"
        /\ UNCHANGED <<program, memory, state>>

(* Whether the step that is due succeeds.                                  *)
CanStep ==
  \E m \in HintedMemories :
    \/ \E i \in Fetch(m, "addap")  : AddApStates(m, state, i) # {}
    \/ \E i \in Fetch(m, "assert") : AssertMemories(m, state, i) # {}
    \/ \E i \in Fetch(m, "call")   : \E n \in PushReturn(m, state) :
                                       CallStates(n, state, i) # {}
    \/ \E i \in Fetch(m, "jmp")    : JumpStates(m, state, i) # {}
    \/ \E i \in Fetch(m, "jnz")    : JnzStates(m, state, i) # {}
    \/ \E i \in Fetch(m, "ret")    : RetStates(m, state) # {}

(* A panic takes the machine with it; what it leaves half done is lost.    *)
Panic == /\ status = "running"
         /\ IF state.pc = FinalPc THEN state.fp # FinalFp ELSE ~CanStep
         /\ status' = "panicked"
         /\ UNCHANGED <<program, memory, state>>

Next == Step \/ Halt \/ Panic

Spec == Init /\ [][Next]_vars

(* `execute` is one loop in one thread: as long as it can go on, it does.  *)
FairSpec == Spec /\ WF_vars(Next)

-----------------------------------------------------------------------------
(* Type correctness: registers are addresses and cells hold values.        *)
TypeOK == /\ IsProgram(program)
          /\ IsMemory(memory)
          /\ state \in Registers
          /\ status \in {"running", "halted", "panicked"}

(* ap never leaves the execution segment: it only ever moves by numbers    *)
(* (vm/add_ap.rs adds whatever the operand is to it), so what a call       *)
(* pushes goes to that segment.                                            *)
StackInExecution == IsRel(state.ap) /\ state.ap.segment = ExecutionSegment

(* The code that is executed is the code that was loaded, as long as no    *)
(* hint writes: assertions only fill unknown cells and calls push to the   *)
(* execution segment.                                                      *)
CodeIntact ==
  program.hints = {} =>
    \A k \in 1 .. Len(program.code) :
      Get(memory, Rel(ProgramSegment, k - 1)) = {Abs(program.code[k])}

(* The cells the step that is due may write although they hold a value:    *)
(* memory[fp] for the hint (vm/hints.rs), [ap] and [ap + 1] for a call     *)
(* (push_return_fp_and_pc).                                                *)
Overwritable ==
  {a \in {state.fp} : HintPending} \cup
  {a \in {state.ap, AddM31(state.ap, 1)} :
     \E m \in HintedMemories : Fetch(m, "call") # {}}

(* Memory is write-once: no step forgets a cell, and none changes a known  *)
(* one but by these two unchecked inserts.                                 *)
WriteOnce ==
  [][\A a \in DOMAIN memory :
       /\ a \in DOMAIN memory'
       /\ memory'[a] # memory[a] => a \in Overwritable]_vars
=============================================================================
