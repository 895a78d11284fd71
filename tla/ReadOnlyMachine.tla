-------------------------- MODULE ReadOnlyMachine ---------------------------
(***************************************************************************)
(* What a run of the virtual machine promises to whoever proves it: the    *)
(* Cairo machine over a memory that is only ever added to.  Nothing is     *)
(* deduced here and nothing is written: the memory grows by itself, and a  *)
(* step is legal when the memory, as it stands afterwards, satisfies the   *)
(* instruction as an equation.  The program's entry point and the          *)
(* instructions are parameters.                                            *)
(*                                                                         *)
(* The code overwrites known cells in two places (push_return_fp_and_pc    *)
(* and the hint) without a check.  From the first time that changes a      *)
(* value, the run promises nothing: `trusted` is FALSE.                    *)
(***************************************************************************)

CONSTANTS IsProgram(_),       \* what may be run
          LoadedMemory(_),    \* the memory a program starts with
          InitialRegisters,   \* and its registers
          FinalFp, FinalPc,   \* the registers at its end
          Legal(_, _, _)      \* Legal(m, s, t): the memory m allows the step
                              \* from the registers s to the registers t

VARIABLES prog, mem, regs, ended, trusted

avars == <<prog, mem, regs, ended, trusted>>

AInit == /\ IsProgram(prog)
         /\ mem = LoadedMemory(prog)
         /\ regs = InitialRegisters
         /\ ended = FALSE
         /\ trusted = TRUE

AStep == /\ trusted /\ ~ended
         /\ regs.pc # FinalPc
         /\ \A a \in DOMAIN mem : a \in DOMAIN mem' /\ mem'[a] = mem[a]
         /\ Legal(mem', regs, regs')
         /\ UNCHANGED <<prog, ended, trusted>>

AEnd == /\ trusted /\ ~ended
        /\ regs.pc = FinalPc /\ regs.fp = FinalFp
        /\ ended' = TRUE
        /\ UNCHANGED <<prog, mem, regs, trusted>>

(* A known cell changed: nothing is promised from here on.                 *)
ABreak == trusted' = FALSE

ASpec == AInit /\ [][AStep \/ AEnd \/ ABreak]_avars
=============================================================================
