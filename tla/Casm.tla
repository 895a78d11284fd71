-------------------------------- MODULE Casm --------------------------------
(***************************************************************************)
(* prover/src/input/decode.rs and the match of Instructions::push_instr    *)
(* (input/instructions.rs): a Cairo instruction word and the list its      *)
(* state is put into.                                                      *)
(*                                                                         *)
(* A word is three biased offsets, each below Offsets, and above them the  *)
(* fifteen flags, one bit each.                                            *)
(***************************************************************************)
EXTENDS Integers, Sequences

CONSTANT Offsets   \* 2^16, the number of values of an offset

ASSUME OffsetsAssumption == Offsets \in Nat /\ Offsets > 1

FlagNames == <<"dst_base_fp", "op0_base_fp", "op1_imm", "op1_base_fp",
               "op1_base_ap", "res_add", "res_mul", "pc_update_jump",
               "pc_update_jump_rel", "pc_update_jnz", "ap_update_add",
               "ap_update_add_1", "opcode_call", "opcode_ret",
               "opcode_assert_eq">>

(* The offsets are biased by half their range (0x8000).                    *)
Bias == Offsets \div 2

OffsetAt(word, scale) == ((word \div scale) % Offsets) - Bias

(* What is left of a word when its three offsets are shifted out.          *)
FlagBits(word) == word \div (Offsets * Offsets * Offsets)

(* The k-th of some bits, the lowest being the first.                      *)
BitWeight == <<1, 2, 4, 8, 16, 32, 64, 128, 256, 512, 1024, 2048, 4096, 8192,
               16384>>
BitSet(bits, k) == (bits \div BitWeight[k]) % 2 = 1

(* Instruction::decode; the flags are the set of those that are true.      *)
(* Variant to be caught: the flags start one bit early.                    *)
DecodeEarly(word) ==
  [offset0 |-> OffsetAt(word, 1),
   offset1 |-> OffsetAt(word, Offsets),
   offset2 |-> OffsetAt(word, Offsets * Offsets),
   flags   |-> {FlagNames[k] : k \in {j \in 1 .. 15 : BitSet(2 * FlagBits(word), j)}}]

DecodeInst(word) ==
  [offset0 |-> OffsetAt(word, 1),
   offset1 |-> OffsetAt(word, Offsets),
   offset2 |-> OffsetAt(word, Offsets * Offsets),
   flags   |-> {FlagNames[k] : k \in {j \in 1 .. 15 : BitSet(FlagBits(word), j)}}]

-----------------------------------------------------------------------------
(* The lists of Instructions: a name and, for a list of a table, its place *)
(* there, which spells the flags of the instruction, the first the lowest. *)
List(name, k) == <<name, k>>
Generic == List("generic", 0)

ListNames ==
  {List(n, 0) : n \in {"ret", "add_ap", "call_rel_imm", "mov_mem", "deref",
                       "push_imm", "generic"}}
    \cup {List("jmp_rel_imm", k) : k \in 0 .. 1}
    \cup {List("jmp_abs", k) : k \in 0 .. 3}
    \cup {List("call_abs", k) : k \in 0 .. 1}
    \cup {List("jnz_imm", k) : k \in 0 .. 7}

Bit(b) == IF b THEN 1 ELSE 0

OffsetsAre(i, o0, o1, o2) == i.offset0 = o0 /\ i.offset1 = o1 /\ i.offset2 = o2

(* The flags are those of the pattern, and any of the ones left open.      *)
FlagsAre(i, pattern, open) == i.flags \ open = pattern

OneBase(i) == "op1_base_fp" \in i.flags <=> "op1_base_ap" \notin i.flags
Bases == {"op1_base_fp", "op1_base_ap"}
Inc == "ap_update_add_1"
JumpFlags == {"dst_base_fp", "op0_base_fp"}

IsRet(i) == /\ OffsetsAre(i, -2, -1, -1)
            /\ FlagsAre(i, JumpFlags \cup {"op1_base_fp", "pc_update_jump", "opcode_ret"}, {})
IsAddAp(i) == /\ OffsetsAre(i, -1, -1, 1)
              /\ FlagsAre(i, JumpFlags \cup {"op1_imm", "ap_update_add"}, {})
IsJmpRelImm(i) == /\ OffsetsAre(i, -1, -1, 1)
                  /\ FlagsAre(i, JumpFlags \cup {"op1_imm", "pc_update_jump_rel"}, {Inc})
IsJmpAbs(i) == /\ i.offset0 = -1 /\ i.offset1 = -1
               /\ FlagsAre(i, JumpFlags \cup {"pc_update_jump"}, Bases \cup {Inc})
               /\ OneBase(i)
IsCallRelImm(i) == /\ OffsetsAre(i, 0, 1, 1)
                   /\ FlagsAre(i, {"op1_imm", "pc_update_jump_rel", "opcode_call"}, {})
IsCallAbs(i) == /\ i.offset0 = 0 /\ i.offset1 = 1
                /\ FlagsAre(i, {"pc_update_jump", "opcode_call"}, Bases)
                /\ OneBase(i)
IsJnzImm(i) == /\ i.offset1 = -1 /\ i.offset2 = 1
               /\ FlagsAre(i, {"op0_base_fp", "op1_imm", "pc_update_jnz"},
                           {"dst_base_fp", Inc})
IsMovMem(i) == /\ i.offset1 = -1
               /\ FlagsAre(i, {"op0_base_fp", "opcode_assert_eq"},
                           Bases \cup {"dst_base_fp", Inc})
               /\ OneBase(i)
IsDeref(i) == FlagsAre(i, {"opcode_assert_eq"}, JumpFlags \cup {Inc})

IsPushImm(i) == /\ i.offset1 = -1 /\ i.offset2 = 1
                /\ FlagsAre(i, {"op0_base_fp", "op1_imm", "opcode_assert_eq"},
                            {"dst_base_fp", Inc})

(* The list of an instruction; `taken` is whether the cell it tests, if it *)
(* is a conditional jump, is not zero.  No two patterns meet.              *)
ListOf(i, taken) ==
  LET fp == Bit("op1_base_fp" \in i.flags)  inc == Bit(Inc \in i.flags)
      dst == Bit("dst_base_fp" \in i.flags)
  IN CASE IsRet(i)        -> List("ret", 0)
       [] IsAddAp(i)      -> List("add_ap", 0)
       [] IsJmpRelImm(i)  -> List("jmp_rel_imm", inc)
       [] IsJmpAbs(i)     -> List("jmp_abs", fp + 2 * inc)
       [] IsCallRelImm(i) -> List("call_rel_imm", 0)
       [] IsCallAbs(i)    -> List("call_abs", fp)
       [] IsJnzImm(i)     -> List("jnz_imm", dst + 2 * Bit(taken) + 4 * inc)
       [] IsMovMem(i)     -> List("mov_mem", 0)
       [] IsDeref(i)      -> List("deref", 0)
       [] IsPushImm(i)    -> List("push_imm", 0)
       [] OTHER           -> Generic
=============================================================================
