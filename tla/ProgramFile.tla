----------------------------- MODULE ProgramFile ----------------------------
(***************************************************************************)
(* From a compiled program to what the machine is created with: TryFrom    *)
(* for Program (vm/mod.rs), the input that the hint reads (vm/hints.rs)    *)
(* and the conversions of utils.rs.                                        *)
(*                                                                         *)
(* A text is what it denotes in base 16: {n}, or {} when it denotes        *)
(* nothing.  As elsewhere, {} is a panic and {r} the result r.             *)
(***************************************************************************)
EXTENDS EntryPoint

CONSTANT WordSize   \* 2^32, the number of values of a u32

ASSUME WordAssumption == WordSize \in Nat

(* The instructions of a file, four words each, and its hints: at the text *)
(* of an offset, the hints in the order of the file.  A word is a text.    *)
IsFile(f) ==
  /\ f.data \in Seq([1 .. 4 -> SUBSET Nat])
  /\ \A h \in f.hints : h.pc \in SUBSET Nat /\ DOMAIN h.codes = 1 .. Len(h.codes)

-----------------------------------------------------------------------------
(* m31_from_hex_str: any u32 will do, it is not reduced.                   *)
M31FromHexStr(x) == {n \in x : n < WordSize}

(* Four words as an element, or as an instruction: as QM31 the two are the *)
(* same (qm31_from_hex_str_array, From<[T; 4]> for Instruction).           *)
QM31FromHexStrArray(x) ==
  {Encode(a, b, c, d) : a \in M31FromHexStr(x[1]), b \in M31FromHexStr(x[2]),
                        c \in M31FromHexStr(x[3]), d \in M31FromHexStr(x[4])}

ParsedCodes(f) ==
  IF \A k \in DOMAIN f.data : QM31FromHexStrArray(f.data[k]) # {}
  THEN {[k \in DOMAIN f.data |-> CHOOSE q \in QM31FromHexStrArray(f.data[k]) : TRUE]}
  ELSE {}

(* Of the hints at an offset only the first counts, and only if it is one  *)
(* that the machine knows.  Its place is read even if it does not count.   *)
(* Variant to be caught: the last hint at an offset is the one that counts.*)
KnownHintLast(h) == h.codes # << >> /\ h.codes[Len(h.codes)] = "FibonacciIndex"

KnownHint(h) == h.codes # << >> /\ h.codes[1] = "FibonacciIndex"

ParsedHints(f) ==
  IF \A h \in f.hints : h.pc # {}
  THEN {UNION {h.pc : h \in {g \in f.hints : KnownHint(g)}}}
  ELSE {}

(* The program of a file with the input of a run: the words of its claim   *)
(* index, none when it has no such field.                                  *)
TryFrom(f, indices) ==
  {[code |-> c, hints |-> h, input |-> UNION {QM31FromHexStrArray(x) : x \in indices}] :
     c \in ParsedCodes(f), h \in ParsedHints(f)}

-----------------------------------------------------------------------------
(* What the machine takes for granted (IsProgram) holds of what is read    *)
(* from a file whose words are below the modulus.  The conversion does not *)
(* see to that.                                                            *)
Reduced(x) == \A k \in 1 .. 4 : x[k] \subseteq M31

Canonical(f) ==
  /\ IsFile(f)
  /\ Len(f.data) < P
  /\ \A k \in DOMAIN f.data : Reduced(f.data[k])
  /\ \A h \in f.hints : h.pc \subseteq M31
=============================================================================
