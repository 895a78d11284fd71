----------------------------- MODULE EntryPoint -----------------------------
(***************************************************************************)
(* What a run starts from (vm/mod.rs, create_for_main_entry_point): the    *)
(* program's code, the frame of main and the two final pointers.           *)
(***************************************************************************)
EXTENDS Instructions

CONSTANT Programs   \* the programs, with their inputs, that may be run

(* A program: the encoded instructions, the offsets that carry a hint (the *)
(* code has one hint, FibonacciIndex) and the value of the input that hint *)
(* reads, a set because the input may lack it.                             *)
IsProgram(p) == /\ p.code \in Seq(QM31)
                /\ Len(p.code) < P
                /\ p.hints \subseteq M31
                /\ p.input \subseteq QM31

ASSUME ProgramsAssumption == \A p \in Programs : IsProgram(p)

-----------------------------------------------------------------------------
ProgramSegment   == 0
ExecutionSegment == 1
OutputSegment    == 2

OutputCell == Rel(OutputSegment, 0)
FinalFp == Rel(3, 0)
FinalPc == Rel(4, 0)

CodeCells(p) == {Rel(ProgramSegment, k - 1) : k \in 1 .. Len(p.code)}
MainFrame == {Rel(ExecutionSegment, 0), Rel(ExecutionSegment, 1),
              Rel(ExecutionSegment, 2)}

(* Main is entered as if called with the output pointer as its argument by *)
(* a caller at the final fp and pc; it returns there.                      *)
LoadedMemory(p) ==
  [a \in CodeCells(p) \cup MainFrame \cup {FinalFp, FinalPc} |->
     IF a \in CodeCells(p) THEN Abs(p.code[a.offset + 1])
     ELSE CASE a = Rel(ExecutionSegment, 0) -> OutputCell
            [] a = Rel(ExecutionSegment, 1) -> FinalFp
            [] a = Rel(ExecutionSegment, 2) -> FinalPc
            [] a \in {FinalFp, FinalPc}     -> Abs(QZero)]

InitialStack == Rel(ExecutionSegment, 3)
InitialRegisters == [ap |-> InitialStack, fp |-> InitialStack,
                     pc |-> Rel(ProgramSegment, 0)]
=============================================================================
