------------------------------ MODULE Opcodes -------------------------------
(***************************************************************************)
(* The instruction set of vm/mod.rs: an instruction is one QM31, its       *)
(* opcode followed by three arguments, and opcode_to_instruction names one *)
(* of 172 functions.  The functions come from macros, so their names have  *)
(* a grammar, and the table is given here by that grammar: an opcode is a  *)
(* kind with an operand, a destination and two flags.                      *)
(***************************************************************************)
EXTENDS Memory, Sequences

(* The 17 operands of vm/operand.rs, in the order of their names, which is *)
(* the order of the opcode table.  "ap" and "fp" say what an argument is   *)
(* an offset from; "imm" that an argument is the value itself.             *)
Operand(fn, x, y) == [fn |-> fn, x |-> x, y |-> y]

Pairs(fn) == << Operand(fn, "ap", "ap"), Operand(fn, "ap", "fp"),
                Operand(fn, "fp", "ap"), Operand(fn, "fp", "fp"),
                Operand(fn, "imm", "ap"), Operand(fn, "imm", "fp") >>

Operands == Pairs("add") \o
            << Operand("deref", "ap", "ap"), Operand("deref", "fp", "fp"),
               Operand("double_deref", "ap", "ap"),
               Operand("double_deref", "fp", "fp"),
               Operand("imm", "imm", "imm") >> \o
            Pairs("mul")

(* The operand a call or a conditional jump goes by.                       *)
CallOperands == << Operand("deref", "ap", "ap"), Operand("deref", "fp", "fp"),
                   Operand("imm", "imm", "imm") >>

-----------------------------------------------------------------------------
(* What an opcode does.  `rel` tells relative jumps and calls from absolute*)
(* ones, `appp` the variants that also increment ap, `dest` is the base of *)
(* the asserted cell.  n is the opcode's number within its kind.           *)

Operation(kind, operand, dest, rel, appp) ==
  [kind |-> kind, operand |-> operand, dest |-> dest, rel |-> rel, appp |-> appp]

Base(n) == IF n = 0 THEN "ap" ELSE "fp"

AddApOp(n)  == Operation("addap", Operands[n + 1], "ap", FALSE, FALSE)
AssertOp(n) == Operation("assert", Operands[((n % 34) \div 2) + 1],
                         Base(n \div 34), FALSE, n % 2 = 1)
CallOp(n)   == Operation("call", CallOperands[(n % 3) + 1], "ap", n >= 3, FALSE)
JumpOp(n)   == Operation("jmp", Operands[((n % 34) \div 2) + 1],
                         "ap", n >= 34, n % 2 = 1)
JnzOp(n)    == Operation("jnz", Pairs("jnz")[(n \div 2) + 1],
                         "ap", TRUE, n % 2 = 1)
RetOp       == Operation("ret", Operands[1], "ap", FALSE, FALSE)

(* opcode_to_instruction: an unknown opcode panics.                        *)
OpcodeToInstruction(op) ==
  CASE op \in 0 .. 16    -> {AddApOp(op)}
    [] op \in 17 .. 84   -> {AssertOp(op - 17)}
    [] op \in 85 .. 90   -> {CallOp(op - 85)}
    [] op \in 91 .. 158  -> {JumpOp(op - 91)}
    [] op \in 159 .. 170 -> {JnzOp(op - 159)}
    [] op = 171          -> {RetOp}
    [] OTHER             -> {}

(* From<QM31> for Instruction, and back (QM31::from_m31_array).            *)
Op(q)   == q[1][1]
Args(q) == <<q[1][2], q[2][1], q[2][2]>>
Encode(op, a, b, c) == <<<<op, a>>, <<b, c>>>>

(* The instructions in the word v: none in a pointer.                      *)
Decode(v) == IF IsRel(v) THEN {} ELSE
             {[op |-> o, args |-> Args(v.value)] :
                o \in OpcodeToInstruction(Op(v.value))}
=============================================================================
