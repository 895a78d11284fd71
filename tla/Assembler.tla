------------------------------ MODULE Assembler -----------------------------
(***************************************************************************)
(* The words that the Cairo assembler (cairo-lang-casm, an external crate, *)
(* called by input/plain.rs) gives for the instructions that have a list   *)
(* of their own.  What is said here of an instruction is how it is         *)
(* written: which cells it names, and with which base.                     *)
(***************************************************************************)
EXTENDS Casm

(* What an offset can be, and what an instruction can be: one with another *)
(* offset has no word.                                                     *)
AnyOffset == (0 - Bias) .. (Offsets - 1 - Bias)
Flags == {FlagNames[k] : k \in 1 .. 15}
Encodable == [offset0 : AnyOffset, offset1 : AnyOffset, offset2 : AnyOffset,
              flags : SUBSET Flags]

(* The number of five flags, the k-th the lowest, and of the fifteen.      *)
Five(flags, k) ==
  LET bit(j) == Bit(FlagNames[k + j] \in flags)
  IN bit(0) + 2 * bit(1) + 4 * bit(2) + 8 * bit(3) + 16 * bit(4)

FlagsWord(flags) == Five(flags, 1) + 32 * Five(flags, 6) + 1024 * Five(flags, 11)

Encode(i) ==
  (i.offset0 + Bias)
    + Offsets * ((i.offset1 + Bias)
                   + Offsets * ((i.offset2 + Bias) + Offsets * FlagsWord(i.flags)))

-----------------------------------------------------------------------------
Instr(o0, o1, o2, flags) ==
  [offset0 |-> o0, offset1 |-> o1, offset2 |-> o2, flags |-> flags]

If(flag, b) == IF b THEN {flag} ELSE {}
Base1(fp) == IF fp THEN {"op1_base_fp"} ELSE {"op1_base_ap"}

(* An instruction has no use for some offsets and bases; the assembler     *)
(* fills them in with [fp - 1].                                            *)
Ret == Instr(-2, -1, -1, {"dst_base_fp", "op0_base_fp", "op1_base_fp",
                          "pc_update_jump", "opcode_ret"})
AddApImm == Instr(-1, -1, 1, {"dst_base_fp", "op0_base_fp", "op1_imm",
                              "ap_update_add"})
JmpRelImm(inc) ==
  Instr(-1, -1, 1, {"dst_base_fp", "op0_base_fp", "op1_imm",
                    "pc_update_jump_rel"} \cup If("ap_update_add_1", inc))
JmpAbs(fp, off, inc) ==
  Instr(-1, -1, off, {"dst_base_fp", "op0_base_fp", "pc_update_jump"}
                       \cup Base1(fp) \cup If("ap_update_add_1", inc))
CallRelImm == Instr(0, 1, 1, {"op1_imm", "pc_update_jump_rel", "opcode_call"})
CallAbs(fp, off) ==
  Instr(0, 1, off, {"pc_update_jump", "opcode_call"} \cup Base1(fp))
JnzImm(fp, off, inc) ==
  Instr(off, -1, 1, {"op0_base_fp", "op1_imm", "pc_update_jnz"}
                      \cup If("dst_base_fp", fp) \cup If("ap_update_add_1", inc))
(* [dst] = [src]                                                           *)
MovMem(dstFp, dst, srcFp, src, inc) ==
  Instr(dst, -1, src, {"op0_base_fp", "opcode_assert_eq"} \cup Base1(srcFp)
                        \cup If("dst_base_fp", dstFp) \cup If("ap_update_add_1", inc))
(* [dst] = [[src] + off]                                                   *)
Deref(dstFp, dst, srcFp, src, off, inc) ==
  Instr(dst, src, off, {"opcode_assert_eq"} \cup If("op0_base_fp", srcFp)
                         \cup If("dst_base_fp", dstFp) \cup If("ap_update_add_1", inc))
(* [dst] = imm                                                             *)
PushImm(dstFp, dst, inc) ==
  Instr(dst, -1, 1, {"op0_base_fp", "op1_imm", "opcode_assert_eq"}
                      \cup If("dst_base_fp", dstFp) \cup If("ap_update_add_1", inc))

(* The instructions of each list.  A conditional jump is in two, and goes  *)
(* to the one or the other by what it finds.                               *)
Written(l) ==
  LET name == l[1]  k == l[2]
  IN CASE name = "ret"          -> {Ret}
       [] name = "add_ap"       -> {AddApImm}
       [] name = "jmp_rel_imm"  -> {JmpRelImm(k = 1)}
       [] name = "jmp_abs"      -> {JmpAbs(k % 2 = 1, off, k \div 2 = 1) : off \in AnyOffset}
       [] name = "call_rel_imm" -> {CallRelImm}
       [] name = "call_abs"     -> {CallAbs(k = 1, off) : off \in AnyOffset}
       [] name = "jnz_imm"      -> {JnzImm(k % 2 = 1, off, k \div 4 = 1) : off \in AnyOffset}
       [] name = "mov_mem" ->
            {MovMem(d, o, s, p, inc) : d, s, inc \in BOOLEAN, o, p \in AnyOffset}
       [] name = "deref" ->
            {Deref(d, o, s, p, q, inc) : d, s, inc \in BOOLEAN, o, p, q \in AnyOffset}
       [] name = "push_imm" ->
            {PushImm(d, o, inc) : d, inc \in BOOLEAN, o \in AnyOffset}
       [] name = "generic" -> {}

(* The words of each list.                                                 *)
AssembledAs == [l \in ListNames |-> {Encode(i) : i \in Written(l) \cap Encodable}]
=============================================================================
