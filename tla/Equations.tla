----------------------------- MODULE Equations ------------------------------
(***************************************************************************)
(* The instructions as a prover reads them: equations over a memory that   *)
(* is given, where nothing is deduced and nothing is written.  Where       *)
(* Instructions says what a step does to the memory, this says when a step *)
(* from the registers s to the registers t is one the memory m allows.     *)
(***************************************************************************)
EXTENDS Instructions

(* n holds everything m does.                                              *)
Extends(n, m) == \A a \in DOMAIN m : a \in DOMAIN n /\ n[a] = m[a]

(* The equation of an assertion, and what a call says of the stack.        *)
Asserted(m, s, i) ==
  \E v \in Get(m, Address(s, i.op.dest, i.args[1])) :
    v \in OperandValue(m, s, i.op.operand, OperandArgs(i.args))

Pushed(m, s) == /\ Get(m, s.ap) = {s.fp}
                /\ Get(m, AddM31(s.ap, 1)) = {AddM31(s.pc, 1)}

(* The instruction i, read as an equation, takes s to t.                   *)
Obeys(m, s, t, i) ==
  \/ i.op.kind = "addap" /\ t \in AddApStates(m, s, i)
  \/ i.op.kind = "assert" /\ Asserted(m, s, i) /\ t = Advance(s, i.op.appp)
  \/ i.op.kind = "call" /\ Pushed(m, s) /\ t \in CallStates(m, s, i)
  \/ i.op.kind = "jmp" /\ t \in JumpStates(m, s, i)
  \/ i.op.kind = "jnz" /\ t \in JnzStates(m, s, i)
  \/ i.op.kind = "ret" /\ t \in RetStates(m, s)

(* The instruction at s.pc takes s to t.                                   *)
Legal(m, s, t) ==
  \E i \in UNION {Decode(v) : v \in Get(m, s.pc)} : Obeys(m, s, t, i)

(* The registers when the memory has been relocated.                       *)
RelocatedRegisters(s, table) == [ap |-> Relocate(s.ap, table),
                                 fp |-> Relocate(s.fp, table),
                                 pc |-> Relocate(s.pc, table)]
=============================================================================
