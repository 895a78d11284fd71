--------------------------- MODULE VmImportProofs ---------------------------
(***************************************************************************)
(* Theorems about the import of a run from the files of the Cairo VM, for  *)
(* every set of files and wherever a read fails.                           *)
(***************************************************************************)
EXTENDS AssembledImport, ImportProofs

(* The invariant of the import, with what this one keeps beside it.        *)
VmTypes ==
  /\ input \in Files
  /\ public_mem_addresses \in Seq(Word)
  /\ range_check_builtin \in [begin_addr : Word, end_addr : Word]

VInv == IInv /\ VmTypes

LEMMA InitInv == ASSUME Init PROVE VInv
<1>1. input \in Files /\ NothingRead
  BY DEF Init
<1>2. EntriesOK
  BY <1>1, FilesAssumption DEF IsFiles, EntriesOK
<1>3. range_check_builtin \in [begin_addr : Word, end_addr : Word]
  BY WordsAreNat DEF Init, NoSegment
<1>4. public_mem_addresses \in Seq(Word)
  BY DEF Init
<1> QED BY <1>1, <1>2, <1>3, <1>4, NothingReadInv DEF VInv, VmTypes

LEMMA PublicType ==
  ASSUME input \in Files
  PROVE  /\ [k \in DOMAIN input.public |-> input.public[k] % WordSize] \in Seq(Word)
         /\ \A n \in DOMAIN input.segments :
              /\ input.segments[n].begin_addr % WordSize \in Word
              /\ input.segments[n].stop_ptr % WordSize \in Word
<1>1. /\ input.public \in Seq(Nat)
      /\ \A n \in DOMAIN input.segments :
           input.segments[n].begin_addr \in Nat /\ input.segments[n].stop_ptr \in Nat
  BY FilesAssumption DEF IsFiles
<1>2. DOMAIN input.public = 1 .. Len(input.public) /\ Len(input.public) \in Nat
  BY <1>1
<1>3. \A k \in DOMAIN input.public : input.public[k] % WordSize \in Word
  BY <1>1, WordsAreNat
<1>4. [k \in DOMAIN input.public |-> input.public[k] % WordSize]
        \in [1 .. Len(input.public) -> Word]
  BY <1>2, <1>3
<1>5. [k \in DOMAIN input.public |-> input.public[k] % WordSize] \in Seq(Word)
  BY <1>2, <1>4
<1> QED BY <1>1, <1>5, WordsAreNat

(* A step that moves the import on and reads nothing.                      *)
LEMMA VmStageInv ==
  ASSUME VInv,
         UNCHANGED <<input, memRead, traceRead, builder, instructions>>,
         status' \in {"open", "memory"} => traceRead = 0,
         public_mem_addresses' \in Seq(Word),
         range_check_builtin' \in [begin_addr : Word, end_addr : Word]
  PROVE  VInv'
BY StageInv DEF VInv, VmTypes

LEMMA NextInv ==
  ASSUME VInv, Next
  PROVE  VInv'
<1>1. /\ public_mem_addresses \in Seq(Word)
      /\ range_check_builtin \in [begin_addr : Word, end_addr : Word]
  BY DEF VInv, VmTypes
<1>2. CASE Open
  <2>1. traceRead = 0
    BY <1>2 DEF Open, VInv, IInv, TraceOK
  <2> QED BY <1>1, <1>2, <2>1, VmStageInv DEF Open
<1>3. CASE OpenPanics \/ OpenFails \/ EndMemory \/ FinishPanics
  BY <1>1, <1>3, VmStageInv DEF OpenPanics, OpenFails, EndMemory, FinishPanics
<1>4. CASE ImportMemory
  BY <1>4, ReadMemoryInv DEF ImportMemory, ReadMemory, VInv, VmTypes
<1>5. CASE ImportTrace
  <2>1. CASE ReadTrace
    BY <1>5, <2>1, ReadTraceInv DEF ImportTrace, ReadTrace, VInv, VmTypes
  <2>2. CASE SortPanics
    BY <1>1, <1>5, <2>2, VmStageInv DEF ImportTrace, SortPanics
  <2> QED BY <1>5, <2>1, <2>2 DEF ImportTrace
<1>6. CASE Finish
  <2>1. public_mem_addresses' \in Seq(Word)
    BY <1>6, PublicType DEF Finish, VInv, VmTypes
  <2>2. range_check_builtin' \in [begin_addr : Word, end_addr : Word]
    BY <1>6, PublicType DEF Finish, HasRangeCheck, VInv, VmTypes
  <2> QED BY <1>6, <2>1, <2>2, VmStageInv DEF Finish
<1> QED BY <1>2, <1>3, <1>4, <1>5, <1>6 DEF Next

LEMMA StutterInv ==
  ASSUME VInv, UNCHANGED vars
  PROVE  VInv'
<1>1. /\ UNCHANGED <<input, memRead, traceRead, builder, instructions>>
      /\ UNCHANGED <<status, public_mem_addresses, range_check_builtin>>
  BY DEF vars, ivars
<1> QED BY <1>1, VmStageInv DEF VInv, VmTypes, IInv, TraceOK

THEOREM Invariant == Spec => []VInv
<1>1. Init => VInv
  BY InitInv
<1>2. VInv /\ [Next]_vars => VInv'
  BY NextInv, StutterInv
<1> QED BY <1>1, <1>2, PTL DEF Spec

-----------------------------------------------------------------------------
(* The properties of the runs, for every value of the constants.           *)

Stages == {"open", "memory", "trace", "imported", "error", "panic"}

(* Whatever the files hold, the import computes with reduced values, ids   *)
(* within bounds and 32-bit states (TypeOK).                               *)
THEOREM TypeCorrect == Spec => []TypeOK
<1>1. Init => status \in Stages
  BY DEF Init, Stages
<1>2. status \in Stages /\ [Next]_vars => (status \in Stages)'
  BY DEF Stages, Next, vars, ivars, Open, OpenPanics, OpenFails, EndMemory, Finish,
         FinishPanics, ImportMemory, ReadMemory, ImportTrace, ReadTrace, SortPanics
<1>3. VInv /\ status \in Stages => TypeOK
  BY DEF VInv, VmTypes, IInv, Types, BuilderOK, IdsOK, CellsOK, InstsOK, Stages, TypeOK
<1> QED BY <1>1, <1>2, <1>3, Invariant, PTL DEF Spec

(* Every address reads as its last entry says, a hole as the first entry   *)
(* and nothing beyond the largest address, at every moment of the import.  *)
THEOREM WhatWasWrittenIsRead == Spec => []ReadsBack
BY Invariant, ReadsBackHolds, PTL DEF VInv

(* Written addresses share an id exactly when they were given the same     *)
(* word, however many words have the same value.                           *)
THEOREM IdsTellWordsApart == Spec => []IdsAreWords
BY Invariant, IdsAreWordsHolds, PTL DEF VInv

(* The instruction cache never holds anything but what the memory does.    *)
THEOREM CacheIsFresh == Spec => []InstFresh
BY Invariant, InstFreshHolds, PTL DEF VInv

(* Every state of the trace is in the one list that the memory asks for,   *)
(* at the place it has among the states of that list (ListsFollowTrace).   *)
THEOREM StatesAreSorted == Spec => []ListsFollowTrace
BY Invariant, ListsFollowTraceHolds, PTL DEF VInv

(* With a field too narrow for the flags of an instruction, as the code's  *)
(* is, every state is generic.                                             *)
THEOREM EveryStateIsGeneric == Spec => []OnlyGeneric
BY Invariant, PTL DEF VInv, IInv

LEMMA StepImplementsImage ==
  ASSUME VInv, [Next]_vars
  PROVE  [Image!RNext]_(Image!rvars)
<1>1. CASE ImportMemory
  BY <1>1, ReadMemoryStores DEF VInv, ImportMemory, Image!RNext
<1>2. CASE ImportTrace /\ ReadTrace
  BY <1>2, ReadTraceSorts DEF VInv, Image!RNext
<1>3. CASE ImportTrace /\ SortPanics
  BY <1>3, StageStutters DEF SortPanics
<1>4. CASE Open \/ OpenPanics \/ OpenFails \/ EndMemory \/ Finish \/ FinishPanics
  BY <1>4, StageStutters
     DEF Open, OpenPanics, OpenFails, EndMemory, Finish, FinishPanics
<1>5. CASE UNCHANGED vars
  BY <1>5, StageStutters DEF vars, ivars
<1> QED BY <1>1, <1>2, <1>3, <1>4, <1>5 DEF Next, ImportTrace

(* Whatever the files hold and wherever they end, the import does what the *)
(* plain map of addresses to values does (ImplementsImage): the ids, the   *)
(* three caches and the filling of holes never show.                       *)
THEOREM ImplementsTheImage == Spec => ImplementsImage
<1>1. Init => Image!RInit
  BY InitIsImageInit DEF Init
<1>2. VInv /\ [Next]_vars => [Image!RNext]_(Image!rvars)
  BY StepImplementsImage
<1> QED BY <1>1, <1>2, Invariant, PTL DEF Spec, ImplementsImage, Image!RSpec

-----------------------------------------------------------------------------
(* Words: numbers by their bits and by their digits.                       *)

LEMMA DivOf ==
  ASSUME NEW d \in Nat \ {0}, NEW q \in Nat, NEW r \in 0 .. d - 1
  PROVE  (q * d + r) \div d = q /\ (q * d + r) % d = r
OBVIOUS

LEMMA DivIs ==
  ASSUME NEW d \in Nat \ {0}, NEW n \in Nat
  PROVE  /\ n \div d \in Nat /\ n % d \in 0 .. d - 1
         /\ n = (n \div d) * d + (n % d)
OBVIOUS

LEMMA DivDiv ==
  ASSUME NEW a \in Nat \ {0}, NEW b \in Nat \ {0}, NEW n \in Nat
  PROVE  n \div (a * b) = (n \div a) \div b /\ a * b \in Nat \ {0}
<1> DEFINE q == n \div a  r == n % a  s == q \div b  t == q % b
<1>1. q \in Nat /\ r \in 0 .. a - 1 /\ n = q * a + r
  BY DivIs
<1> HIDE DEF q, r
<1>2. s \in Nat /\ t \in 0 .. b - 1 /\ q = s * b + t
  BY <1>1, DivIs
<1> HIDE DEF s, t
<1>3. n = s * (a * b) + (t * a + r)
  BY <1>1, <1>2
<1>4. t * a + r \in 0 .. (a * b) - 1
  <2>1. t * a \in Nat /\ t + 1 <= b
    BY <1>2
  <2>2. (t + 1) * a <= b * a
    BY <1>2, <2>1
  <2>3. (t + 1) * a = t * a + a /\ b * a = a * b
    BY <1>2
  <2> QED BY <1>1, <2>1, <2>2, <2>3
<1>5. a * b \in Nat \ {0}
  OBVIOUS
<1> DEFINE d == a * b  u == t * a + r
<1> HIDE DEF d, u
<1>6. (s * d + u) \div d = s
  BY <1>2, <1>4, <1>5, DivOf DEF d, u
<1> QED BY <1>3, <1>5, <1>6 DEF d, u, s, q

(* A number by its lowest bit, after d places' worth of it is shifted out. *)
LEMMA NextBit ==
  ASSUME NEW n \in Nat, NEW d \in Nat \ {0}, NEW e, e = d * 2
  PROVE  /\ n \div d \in Nat /\ n \div e \in Nat
         /\ (n \div d) % 2 \in 0 .. 1
         /\ n \div d = ((n \div d) % 2) + 2 * (n \div e)
<1>1. n \div e = (n \div d) \div 2
  BY DivDiv
<1>2. n \div d \in Nat
  BY DivIs
<1> QED BY <1>1, <1>2

LEMMA OneBit ==
  ASSUME NEW n \in Nat, NEW d \in Nat \ {0}, NEW e, e = d * 2,
         NEW b \in 0 .. 1, NEW h \in Nat, n \div d = b + 2 * h
  PROVE  (n \div d) % 2 = b /\ n \div e = h
<1> DEFINE x == n \div d
<1>1. x % 2 = b /\ x \div 2 = h
  <2> HIDE DEF x
  <2>1. x = b + 2 * h
    BY DEF x
  <2> QED BY <2>1
<1>2. n \div e = x \div 2
  BY DivDiv
<1> QED BY <1>1, <1>2

-----------------------------------------------------------------------------
(* The flags of a word.                                                    *)

LEMMA NamesDiffer ==
  \A j, k \in 1 .. 15 : FlagNames[j] = FlagNames[k] => j = k
<1> DEFINE N == FlagNames
<1>1. /\ N[1] = "dst_base_fp" /\ N[2] = "op0_base_fp" /\ N[3] = "op1_imm"
      /\ N[4] = "op1_base_fp" /\ N[5] = "op1_base_ap" /\ N[6] = "res_add"
      /\ N[7] = "res_mul" /\ N[8] = "pc_update_jump" /\ N[9] = "pc_update_jump_rel"
      /\ N[10] = "pc_update_jnz" /\ N[11] = "ap_update_add"
      /\ N[12] = "ap_update_add_1" /\ N[13] = "opcode_call"
      /\ N[14] = "opcode_ret" /\ N[15] = "opcode_assert_eq"
  BY DEF FlagNames
<1> HIDE DEF N
<1> QED BY <1>1 DEF N

LEMMA Weights ==
  /\ BitWeight[1] = 1 /\ BitWeight[2] = 2 /\ BitWeight[3] = 4
  /\ BitWeight[4] = 8 /\ BitWeight[5] = 16 /\ BitWeight[6] = 32
  /\ BitWeight[7] = 64 /\ BitWeight[8] = 128 /\ BitWeight[9] = 256
  /\ BitWeight[10] = 512 /\ BitWeight[11] = 1024 /\ BitWeight[12] = 2048
  /\ BitWeight[13] = 4096 /\ BitWeight[14] = 8192 /\ BitWeight[15] = 16384
BY DEF BitWeight


LEMMA LowBits ==
  ASSUME NEW x \in Nat, NEW m \in Nat, NEW k \in 1 .. 5
  PROVE  BitSet(x + 32 * m, k) <=> BitSet(x, k)
<1>1. CASE k = 1
  <2>1. ((x + 32 * m) \div 1) % 2 = (x \div 1) % 2
    OBVIOUS
  <2> QED BY <1>1, <2>1, Weights DEF BitSet
<1>2. CASE k = 2
  <2>1. ((x + 32 * m) \div 2) % 2 = (x \div 2) % 2
    OBVIOUS
  <2> QED BY <1>2, <2>1, Weights DEF BitSet
<1>3. CASE k = 3
  <2>1. ((x + 32 * m) \div 4) % 2 = (x \div 4) % 2
    OBVIOUS
  <2> QED BY <1>3, <2>1, Weights DEF BitSet
<1>4. CASE k = 4
  <2>1. ((x + 32 * m) \div 8) % 2 = (x \div 8) % 2
    OBVIOUS
  <2> QED BY <1>4, <2>1, Weights DEF BitSet
<1>5. CASE k = 5
  <2>1. ((x + 32 * m) \div 16) % 2 = (x \div 16) % 2
    OBVIOUS
  <2> QED BY <1>5, <2>1, Weights DEF BitSet
<1> QED BY <1>1, <1>2, <1>3, <1>4, <1>5

LEMMA HighBits ==
  ASSUME NEW n \in Nat, NEW k \in 1 .. 10
  PROVE  BitSet(n, k + 5) <=> BitSet(n \div 32, k)
<1>1. BitWeight[k] \in Nat \ {0} /\ BitWeight[k + 5] = 32 * BitWeight[k]
  BY Weights
<1> DEFINE w == BitWeight[k]
<1>2. n \div (32 * w) = (n \div 32) \div w
  <2>1. w \in Nat \ {0}
    BY <1>1
  <2> HIDE DEF w
  <2> QED BY <2>1, DivDiv
<1>3. BitWeight[k + 5] = 32 * w
  BY <1>1
<1> HIDE DEF BitWeight
<1> QED BY <1>2, <1>3 DEF BitSet

(* Five bits and the number they make.                                     *)
LEMMA FiveIs ==
  ASSUME NEW b0 \in 0 .. 1, NEW b1 \in 0 .. 1, NEW b2 \in 0 .. 1, NEW b3 \in 0 .. 1,
         NEW b4 \in 0 .. 1, NEW g, g = b0 + 2 * b1 + 4 * b2 + 8 * b3 + 16 * b4
  PROVE  /\ g \in 0 .. 31
         /\ (g \div 1) % 2 = b0 /\ (g \div 2) % 2 = b1 /\ (g \div 4) % 2 = b2
         /\ (g \div 8) % 2 = b3 /\ (g \div 16) % 2 = b4
OBVIOUS

LEMMA FiveFlags ==
  ASSUME NEW flags, NEW k \in {1, 6, 11}
  PROVE  /\ Five(flags, k) \in 0 .. 31
         /\ \A j \in 1 .. 5 :
              BitSet(Five(flags, k), j) <=> FlagNames[k + (j - 1)] \in flags
<1> DEFINE bit(j) == Bit(FlagNames[k + j] \in flags)
           g == Five(flags, k)
           b0 == bit(0)  b1 == bit(1)  b2 == bit(2)  b3 == bit(3)  b4 == bit(4)
<1>1. \A j \in 0 .. 4 : bit(j) \in 0 .. 1 /\ (bit(j) = 1 <=> FlagNames[k + j] \in flags)
  BY DEF Bit
<1>2. g = b0 + 2 * b1 + 4 * b2 + 8 * b3 + 16 * b4
  BY DEF Five
<1> HIDE DEF bit, g
<1>3. /\ b0 \in 0 .. 1 /\ b1 \in 0 .. 1 /\ b2 \in 0 .. 1 /\ b3 \in 0 .. 1
      /\ b4 \in 0 .. 1
  BY <1>1
<1>4. /\ b0 = 1 <=> FlagNames[k + 0] \in flags
      /\ b1 = 1 <=> FlagNames[k + 1] \in flags
      /\ b2 = 1 <=> FlagNames[k + 2] \in flags
      /\ b3 = 1 <=> FlagNames[k + 3] \in flags
      /\ b4 = 1 <=> FlagNames[k + 4] \in flags
  <2> QED BY <1>1
<1> HIDE DEF b0, b1, b2, b3, b4
<1>5. /\ g \in 0 .. 31
      /\ (g \div 1) % 2 = b0 /\ (g \div 2) % 2 = b1 /\ (g \div 4) % 2 = b2
      /\ (g \div 8) % 2 = b3 /\ (g \div 16) % 2 = b4
  BY <1>2, <1>3, FiveIs
<1>6. ASSUME NEW j \in 1 .. 5
      PROVE  BitSet(g, j) <=> FlagNames[k + (j - 1)] \in flags
  <2>1. j = 1 \/ j = 2 \/ j = 3 \/ j = 4 \/ j = 5
    OBVIOUS
  <2> QED BY <1>4, <1>5, <2>1, Weights DEF BitSet
<1> QED BY <1>5, <1>6 DEF g

(* The word of some flags has their bits, and no others.                   *)
LEMMA FlagsWordBits ==
  ASSUME NEW flags
  PROVE  /\ FlagsWord(flags) \in Nat /\ FlagsWord(flags) < 32768
         /\ \A k \in 1 .. 15 : BitSet(FlagsWord(flags), k) <=> FlagNames[k] \in flags
<1> DEFINE g1 == Five(flags, 1)  g2 == Five(flags, 6)  g3 == Five(flags, 11)
           n == FlagsWord(flags)  h == g2 + 32 * g3
<1>1. g1 \in 0 .. 31 /\ g2 \in 0 .. 31 /\ g3 \in 0 .. 31
  BY FiveFlags
<1>2. n = g1 + 32 * g2 + 1024 * g3
  BY DEF FlagsWord
<1>3. \A j \in 1 .. 5 : /\ BitSet(g1, j) <=> FlagNames[1 + (j - 1)] \in flags
                        /\ BitSet(g2, j) <=> FlagNames[6 + (j - 1)] \in flags
                        /\ BitSet(g3, j) <=> FlagNames[11 + (j - 1)] \in flags
  BY FiveFlags
<1> HIDE DEF g1, g2, g3, n
<1>4. /\ n \in Nat /\ n < 32768 /\ n = g1 + 32 * h /\ h \in Nat
      /\ n \div 32 = h /\ h \div 32 = g3
  BY <1>1, <1>2
<1>5. h = g2 + 32 * g3
  OBVIOUS
<1> HIDE DEF h
<1>6. ASSUME NEW k \in 1 .. 15
      PROVE  BitSet(n, k) <=> FlagNames[k] \in flags
  <2>1. CASE k \in 1 .. 5
    <3>1. BitSet(n, k) <=> BitSet(g1, k)
      BY <1>1, <1>4, <2>1, LowBits
    <3>2. 1 + (k - 1) = k
      OBVIOUS
    <3> QED BY <1>3, <2>1, <3>1, <3>2
  <2>2. CASE k \in 6 .. 10
    <3> DEFINE j == k - 5
    <3>1. j \in 1 .. 5 /\ k = j + 5 /\ 6 + (j - 1) = k
      BY <2>2
    <3> HIDE DEF j
    <3>2. BitSet(n, k) <=> BitSet(h, j)
      <4>1. n \in Nat /\ j \in 1 .. 10
        BY <1>4, <3>1
      <4>2. BitSet(n, j + 5) <=> BitSet(n \div 32, j)
        BY <4>1, HighBits
      <4> QED BY <1>4, <3>1, <4>2
    <3>3. BitSet(h, j) <=> BitSet(g2, j)
      <4>1. g2 \in Nat /\ g3 \in Nat /\ j \in 1 .. 5
        BY <1>1, <3>1
      <4>2. BitSet(g2 + 32 * g3, j) <=> BitSet(g2, j)
        BY <4>1, LowBits
      <4> QED BY <1>5, <4>2
    <3> QED BY <1>3, <3>1, <3>2, <3>3
  <2>3. CASE k \in 11 .. 15
    <3> DEFINE j == k - 10  i == k - 5
    <3>1. j \in 1 .. 5 /\ i = j + 5 /\ i \in 1 .. 10 /\ k = i + 5 /\ 11 + (j - 1) = k
      BY <2>3
    <3> HIDE DEF i, j
    <3>2. BitSet(n, k) <=> BitSet(h, i)
      <4>1. n \in Nat
        BY <1>4
      <4>2. BitSet(n, i + 5) <=> BitSet(n \div 32, i)
        BY <3>1, <4>1, HighBits
      <4> QED BY <1>4, <3>1, <4>2
    <3>3. BitSet(h, i) <=> BitSet(g3, j)
      <4>1. j \in 1 .. 10
        BY <3>1
      <4>2. BitSet(h, j + 5) <=> BitSet(h \div 32, j)
        BY <1>4, <4>1, HighBits
      <4> QED BY <1>4, <3>1, <4>2
    <3> QED BY <1>3, <3>1, <3>2, <3>3
  <2> QED BY <2>1, <2>2, <2>3
<1>7. n \in Nat /\ n < 32768
  BY <1>4
<1>8. \A k \in 1 .. 15 : BitSet(n, k) <=> FlagNames[k] \in flags
  BY <1>6
<1>9. FlagsWord(flags) \in Nat /\ FlagsWord(flags) < 32768
  BY <1>7 DEF n
<1>10. \A k \in 1 .. 15 : BitSet(FlagsWord(flags), k) <=> FlagNames[k] \in flags
  BY <1>8 DEF n
<1> QED BY <1>9, <1>10

(* The flags of a number, as decode reads them.                            *)
SetBits(n) == {FlagNames[k] : k \in {j \in 1 .. 15 : BitSet(n, j)}}

LEMMA FlagsOfWord ==
  ASSUME NEW flags \in SUBSET Flags
  PROVE  SetBits(FlagsWord(flags)) = flags
BY FlagsWordBits DEF SetBits, Flags

LEMMA FiveOfBits ==
  ASSUME NEW flags, NEW k \in {1, 6, 11}, NEW x \in Nat,
         \A j \in 1 .. 5 : FlagNames[k + (j - 1)] \in flags <=> BitSet(x, j)
  PROVE  Five(flags, k) = x % 32
<1> DEFINE bit(j) == Bit(FlagNames[k + j] \in flags)
<1>1. Five(flags, k) = bit(0) + 2 * bit(1) + 4 * bit(2) + 8 * bit(3) + 16 * bit(4)
  BY DEF Five
<1>2. ASSUME NEW j \in 1 .. 5
      PROVE  bit(j - 1) = (x \div BitWeight[j]) % 2
  <2>1. BitWeight[j] \in Nat \ {0}
    BY Weights
  <2> DEFINE w == BitWeight[j]
  <2>2. (x \div w) % 2 \in 0 .. 1
    <3>1. w \in Nat \ {0}
      BY <2>1
    <3> HIDE DEF w
    <3>2. x \div w \in Nat
      BY <3>1, DivIs
    <3> QED BY <3>2
  <2>3. bit(j - 1) = IF (x \div w) % 2 = 1 THEN 1 ELSE 0
    <3> QED BY DEF Bit, BitSet
  <2> HIDE DEF w, bit
  <2>4. bit(j - 1) = (x \div w) % 2
    BY <2>2, <2>3
  <2> QED BY <2>4 DEF w
<1> HIDE DEF bit
<1>3. /\ bit(0) = (x \div 1) % 2 /\ bit(1) = (x \div 2) % 2 /\ bit(2) = (x \div 4) % 2
      /\ bit(3) = (x \div 8) % 2 /\ bit(4) = (x \div 16) % 2
  <2>1. \A j \in 1 .. 5 : bit(j - 1) = (x \div BitWeight[j]) % 2
    BY <1>2
  <2>2. /\ bit(1 - 1) = (x \div 1) % 2 /\ bit(2 - 1) = (x \div 2) % 2
        /\ bit(3 - 1) = (x \div 4) % 2 /\ bit(4 - 1) = (x \div 8) % 2
        /\ bit(5 - 1) = (x \div 16) % 2
    BY <2>1, Weights
  <2> QED BY <2>2
<1>4. x % 32 = ((x \div 1) % 2) + 2 * ((x \div 2) % 2) + 4 * ((x \div 4) % 2)
               + 8 * ((x \div 8) % 2) + 16 * ((x \div 16) % 2)
  OBVIOUS
<1> QED BY <1>1, <1>3, <1>4

LEMMA WordOfFlags ==
  ASSUME NEW n \in Nat
  PROVE  FlagsWord(SetBits(n)) = n % 32768
<1> DEFINE flags == SetBits(n)  h == n \div 32  t == h \div 32
<1>1. ASSUME NEW k \in 1 .. 15
      PROVE  FlagNames[k] \in flags <=> BitSet(n, k)
  <2>1. \A j \in 1 .. 15 : FlagNames[j] = FlagNames[k] => j = k
    BY NamesDiffer
  <2> QED BY <2>1 DEF SetBits
<1>2. h \in Nat /\ t \in Nat
  OBVIOUS
<1> HIDE DEF flags, h, t
<1>3. \A k \in 1 .. 10 : BitSet(n, k + 5) <=> BitSet(h, k)
  BY HighBits DEF h
<1>4. \A k \in 1 .. 10 : BitSet(h, k + 5) <=> BitSet(t, k)
  BY <1>2, HighBits DEF t
<1>5. Five(flags, 1) = n % 32
  <2>1. \A j \in 1 .. 5 : FlagNames[1 + (j - 1)] \in flags <=> BitSet(n, j)
    <3>1. \A j \in 1 .. 5 : j \in 1 .. 15 /\ 1 + (j - 1) = j
      OBVIOUS
    <3> QED BY <1>1, <3>1
  <2> QED BY <2>1, FiveOfBits
<1>6. Five(flags, 6) = h % 32
  <2>1. \A j \in 1 .. 5 : FlagNames[6 + (j - 1)] \in flags <=> BitSet(h, j)
    <3>1. \A j \in 1 .. 5 : j \in 1 .. 10 /\ j + 5 \in 1 .. 15 /\ 6 + (j - 1) = j + 5
      OBVIOUS
    <3> QED BY <1>1, <1>3, <3>1
  <2> QED BY <1>2, <2>1, FiveOfBits
<1>7. Five(flags, 11) = t % 32
  <2>1. \A j \in 1 .. 5 : FlagNames[11 + (j - 1)] \in flags <=> BitSet(t, j)
    <3>1. \A j \in 1 .. 5 : /\ j \in 1 .. 10 /\ j + 5 \in 1 .. 10
                            /\ (j + 5) + 5 \in 1 .. 15 /\ 11 + (j - 1) = (j + 5) + 5
      OBVIOUS
    <3> QED BY <1>1, <1>3, <1>4, <3>1
  <2> QED BY <1>2, <2>1, FiveOfBits
<1>8. n % 32768 = (n % 32) + 32 * (h % 32) + 1024 * (t % 32)
  <2>1. n % 32768 = (n % 32) + 32 * ((n \div 32) % 32) + 1024 * (((n \div 32) \div 32) % 32)
    OBVIOUS
  <2> QED BY <2>1 DEF h, t
<1>9. FlagsWord(flags) = n % 32768
  BY <1>5, <1>6, <1>7, <1>8 DEF FlagsWord
<1> QED BY <1>9 DEF flags

-----------------------------------------------------------------------------
(* Words and the instructions they decode to.                              *)


(* Three digits below a number, and what they are shifted out of.          *)
Digits(d, x, y, z, f) == x + d * (y + d * (z + d * f))

LEMMA DigitsOf ==
  ASSUME NEW d \in Nat \ {0}, NEW x \in 0 .. d - 1, NEW y \in 0 .. d - 1,
         NEW z \in 0 .. d - 1, NEW f \in Nat
  PROVE  LET n == Digits(d, x, y, z, f)
         IN /\ n \in Nat
            /\ (n \div 1) % d = x /\ (n \div d) % d = y
            /\ (n \div (d * d)) % d = z
            /\ n \div (d * d * d) = f
<1> DEFINE n == Digits(d, x, y, z, f)  c == z + d * f  b == y + d * c
<1>1. c \in Nat /\ c = f * d + z
  OBVIOUS
<1>2. c \div d = f /\ c % d = z
  <2>1. (f * d + z) \div d = f /\ (f * d + z) % d = z
    BY DivOf
  <2> HIDE DEF c
  <2> QED BY <1>1, <2>1
<1> HIDE DEF c
<1>3. b \in Nat /\ b = c * d + y
  BY <1>1
<1>4. b \div d = c /\ b % d = y
  <2>1. (c * d + y) \div d = c /\ (c * d + y) % d = y
    BY <1>1, DivOf
  <2> HIDE DEF b
  <2> QED BY <1>3, <2>1
<1>5. n = x + d * b
  BY DEF c, Digits
<1> HIDE DEF b, n
<1>6. n \in Nat /\ n = b * d + x
  BY <1>3, <1>5
<1>7. n \div d = b /\ n % d = x
  <2>1. (b * d + x) \div d = b /\ (b * d + x) % d = x
    BY <1>3, DivOf
  <2> HIDE DEF b
  <2> QED BY <1>6, <2>1
<1>8. n \div 1 = n
  <2> HIDE DEF b
  <2> QED BY <1>6
<1>9. n \div (d * d) = c /\ d * d \in Nat \ {0}
  BY <1>4, <1>6, <1>7, DivDiv
<1>10. n \div (d * d * d) = f
  <2> DEFINE e == d * d
  <2>1. n \div e = c /\ e \in Nat \ {0}
    BY <1>9
  <2> HIDE DEF e
  <2>2. n \div (e * d) = (n \div e) \div d
    BY <1>6, <2>1, DivDiv
  <2>3. n \div (e * d) = f
    BY <1>2, <2>1, <2>2
  <2> QED BY <2>3 DEF e
<1> QED BY <1>2, <1>4, <1>6, <1>7, <1>8, <1>9, <1>10 DEF n

LEMMA DigitsAre ==
  ASSUME NEW d \in Nat \ {0}, NEW n \in Nat
  PROVE  /\ (n \div 1) % d \in 0 .. d - 1 /\ (n \div d) % d \in 0 .. d - 1
         /\ (n \div (d * d)) % d \in 0 .. d - 1 /\ n \div (d * d * d) \in Nat
         /\ n = ((n \div 1) % d)
                + d * (((n \div d) % d)
                       + d * (((n \div (d * d)) % d) + d * (n \div (d * d * d))))
<1> DEFINE b == n \div d  c == b \div d  f == c \div d
<1>1. b \in Nat /\ n % d \in 0 .. d - 1 /\ n = b * d + (n % d)
  BY DivIs
<1>2. n \div 1 = n
  OBVIOUS
<1> HIDE DEF b
<1>3. c \in Nat /\ b % d \in 0 .. d - 1 /\ b = c * d + (b % d)
  BY <1>1, DivIs
<1> HIDE DEF c
<1>4. f \in Nat /\ c % d \in 0 .. d - 1 /\ c = f * d + (c % d)
  BY <1>3, DivIs
<1> HIDE DEF f
<1>5. n \div (d * d) = c /\ d * d \in Nat \ {0}
  BY DivDiv DEF b, c
<1>6. n \div (d * d * d) = f
  <2> DEFINE e == d * d
  <2>1. n \div e = c /\ e \in Nat \ {0}
    BY <1>5
  <2> HIDE DEF e
  <2>2. n \div (e * d) = (n \div e) \div d
    BY <2>1, DivDiv
  <2>3. n \div (e * d) = f
    BY <2>1, <2>2 DEF f
  <2> QED BY <2>3 DEF e
<1> DEFINE x == n % d  y == b % d  z == c % d
<1>7. /\ x \in 0 .. d - 1 /\ y \in 0 .. d - 1 /\ z \in 0 .. d - 1
      /\ n = b * d + x /\ b = c * d + y /\ c = f * d + z
  BY <1>1, <1>3, <1>4
<1>8. x = (n \div 1) % d /\ y = (n \div d) % d /\ z = (n \div (d * d)) % d
  BY <1>2, <1>5 DEF b
<1> HIDE DEF x, y, z
<1>9. n = x + d * (y + d * (z + d * f))
  <2>1. c = z + d * f
    BY <1>4, <1>7
  <2>2. b = y + d * c
    BY <1>3, <1>7
  <2>3. n = x + d * b
    BY <1>1, <1>7
  <2> QED BY <2>1, <2>2, <2>3
<1> QED BY <1>4, <1>6, <1>7, <1>8, <1>9

LEMMA OffsetsType ==
  /\ Offsets \in Nat \ {0} /\ Bias \in Nat
  /\ \A o \in AnyOffset : o \in Int /\ o + Bias \in 0 .. Offsets - 1
  /\ \A x \in 0 .. Offsets - 1 : x - Bias \in AnyOffset
<1>1. Offsets \in Nat \ {0} /\ Bias \in Nat
  BY OffsetsAssumption DEF Bias
<1> QED BY <1>1 DEF AnyOffset

(* Instruction::decode of the word of an instruction gives it back, however *)
(* many offsets there are.                                                 *)
THEOREM DecodeUndoesEncode ==
  ASSUME NEW i \in Encodable
  PROVE  Encode(i) \in Nat /\ DecodeInst(Encode(i)) = i
<1> DEFINE x == i.offset0 + Bias  y == i.offset1 + Bias  z == i.offset2 + Bias
           f == FlagsWord(i.flags)  n == Encode(i)  d == Offsets
<1>1. /\ i.offset0 \in AnyOffset /\ i.offset1 \in AnyOffset /\ i.offset2 \in AnyOffset
      /\ i.flags \in SUBSET Flags
      /\ i = [offset0 |-> i.offset0, offset1 |-> i.offset1, offset2 |-> i.offset2,
              flags |-> i.flags]
  BY DEF Encodable
<1>2. x \in 0 .. d - 1 /\ y \in 0 .. d - 1 /\ z \in 0 .. d - 1 /\ d \in Nat \ {0}
  BY <1>1, OffsetsType
<1>3. f \in Nat /\ SetBits(f) = i.flags
  BY <1>1, FlagsWordBits, FlagsOfWord
<1>4. n = Digits(d, x, y, z, f)
  BY DEF Encode, Digits
<1>5. x - Bias = i.offset0 /\ y - Bias = i.offset1 /\ z - Bias = i.offset2
  BY <1>1, OffsetsType
<1>6. /\ OffsetAt(n, 1) = ((n \div 1) % d) - Bias
      /\ OffsetAt(n, Offsets) = ((n \div d) % d) - Bias
      /\ OffsetAt(n, Offsets * Offsets) = ((n \div (d * d)) % d) - Bias
      /\ FlagBits(n) = n \div (d * d * d)
  BY DEF OffsetAt, FlagBits
<1>7. DecodeInst(n) = [offset0 |-> OffsetAt(n, 1), offset1 |-> OffsetAt(n, Offsets),
                       offset2 |-> OffsetAt(n, Offsets * Offsets),
                       flags |-> SetBits(FlagBits(n))]
  BY DEF DecodeInst, SetBits
<1> HIDE DEF x, y, z, f, n, d
<1>8. /\ n \in Nat
      /\ (n \div 1) % d = x /\ (n \div d) % d = y /\ (n \div (d * d)) % d = z
      /\ n \div (d * d * d) = f
  BY <1>2, <1>3, <1>4, DigitsOf
<1>9. DecodeInst(n) = i
  BY <1>1, <1>3, <1>5, <1>6, <1>7, <1>8
<1>10. n = Encode(i)
  BY DEF n
<1> QED BY <1>8, <1>9, <1>10

LEMMA DecodeIs ==
  ASSUME NEW n \in Nat
  PROVE  /\ DecodeInst(n) \in Encodable
         /\ DecodeInst(n).offset0 = ((n \div 1) % Offsets) - Bias
         /\ DecodeInst(n).offset1 = ((n \div Offsets) % Offsets) - Bias
         /\ DecodeInst(n).offset2 = ((n \div (Offsets * Offsets)) % Offsets) - Bias
         /\ DecodeInst(n).flags = SetBits(n \div (Offsets * Offsets * Offsets))
<1> DEFINE d == Offsets  i == DecodeInst(n)
<1>1. i = [offset0 |-> ((n \div 1) % d) - Bias,
           offset1 |-> ((n \div d) % d) - Bias,
           offset2 |-> ((n \div (d * d)) % d) - Bias,
           flags |-> SetBits(n \div (d * d * d))]
  BY DEF DecodeInst, SetBits, OffsetAt, FlagBits
<1>2. d \in Nat \ {0}
  BY OffsetsType
<1>3. SetBits(n \div (d * d * d)) \in SUBSET Flags
  BY DEF SetBits, Flags
<1>d. d = Offsets
  OBVIOUS
<1> HIDE DEF i, d
<1>4. /\ (n \div 1) % d \in 0 .. d - 1 /\ (n \div d) % d \in 0 .. d - 1
      /\ (n \div (d * d)) % d \in 0 .. d - 1
  BY <1>2, DigitsAre
<1>5. /\ ((n \div 1) % d) - Bias \in AnyOffset /\ ((n \div d) % d) - Bias \in AnyOffset
      /\ ((n \div (d * d)) % d) - Bias \in AnyOffset
  BY <1>4, <1>d, OffsetsType
<1>6. i \in Encodable
  BY <1>1, <1>3, <1>5 DEF Encodable
<1>7. /\ i.offset0 = ((n \div 1) % d) - Bias
      /\ i.offset1 = ((n \div d) % d) - Bias
      /\ i.offset2 = ((n \div (d * d)) % d) - Bias
      /\ i.flags = SetBits(n \div (d * d * d))
  BY <1>1
<1> QED BY <1>6, <1>7 DEF i, d

LEMMA CubeIs ==
  ASSUME NEW d \in Nat \ {0}
  PROVE  d * d * d \in Nat \ {0}
<1>1. d * d \in Nat \ {0}
  OBVIOUS
<1> DEFINE e == d * d
<1> HIDE DEF e
<1>2. e * d \in Nat \ {0}
  BY <1>1 DEF e
<1> QED BY <1>2 DEF e

(* Encoding what a word decodes to gives the word, up to the bits above    *)
(* the flags.                                                              *)
LEMMA EncodeDecode ==
  ASSUME NEW n \in Nat
  PROVE  Encode(DecodeInst(n)) = n % WordsEnd
<1> DEFINE d == Offsets  i == DecodeInst(n)
           x == (n \div 1) % d  y == (n \div d) % d  z == (n \div (d * d)) % d
           f == n \div (d * d * d)
           g == f % 32768  q == f \div 32768  e == d * d * d
<1>0. d \in Nat \ {0}
  BY OffsetsType
<1>1. /\ i.offset0 + Bias = x /\ i.offset1 + Bias = y /\ i.offset2 + Bias = z
      /\ i.flags = SetBits(f)
  <2>1. /\ i.offset0 = x - Bias /\ i.offset1 = y - Bias /\ i.offset2 = z - Bias
        /\ i.flags = SetBits(f)
    BY DecodeIs
  <2>2. x \in Int /\ y \in Int /\ z \in Int
    <3> HIDE DEF d
    <3>1. x \in 0 .. d - 1 /\ y \in 0 .. d - 1 /\ z \in 0 .. d - 1
      BY <1>0, DigitsAre
    <3> QED BY <3>1, <1>0
  <2> HIDE DEF x, y, z, f, i
  <2> QED BY <2>1, <2>2, OffsetsType
<1>2. Encode(i) = x + d * (y + d * (z + d * FlagsWord(i.flags)))
  <2>1. Encode(i) = (i.offset0 + Bias)
                    + d * ((i.offset1 + Bias)
                             + d * ((i.offset2 + Bias) + d * FlagsWord(i.flags)))
    BY DEF Encode
  <2> HIDE DEF x, y, z, f, i
  <2> QED BY <1>1, <2>1
<1>3. WordsEnd = 32768 * e
  BY DEF WordsEnd
<1> HIDE DEF d, i
<1>4. /\ x \in 0 .. d - 1 /\ y \in 0 .. d - 1 /\ z \in 0 .. d - 1 /\ f \in Nat
      /\ n = x + d * (y + d * (z + d * f))
  BY <1>0, DigitsAre
<1>5. e \in Nat \ {0}
  BY <1>0, CubeIs
<1> HIDE DEF x, y, z, f
<1>6. FlagsWord(i.flags) = g
  BY <1>1, <1>4, WordOfFlags
<1>7. g \in Nat /\ g < 32768 /\ q \in Nat /\ f = 32768 * q + g
  BY <1>4
<1> HIDE DEF g, q
<1> DEFINE r == x + d * (y + d * (z + d * g))
<1>8. n = q * (32768 * e) + r
  <2>1. d * (d * (d * f)) = e * f /\ d * (d * (d * g)) = e * g
    BY <1>0, <1>4, <1>7
  <2>2. n = x + d * y + d * (d * z) + e * f
    <3>1. n = x + d * y + d * (d * z) + d * (d * (d * f))
      BY <1>0, <1>4
    <3> QED BY <2>1, <3>1
  <2>3. r = x + d * y + d * (d * z) + e * g
    <3>1. r = x + d * y + d * (d * z) + d * (d * (d * g))
      BY <1>0, <1>4, <1>7
    <3> QED BY <2>1, <3>1
  <2>4. e * f = q * (32768 * e) + e * g
    <3> HIDE DEF e
    <3>1. e * (32768 * q + g) = q * (32768 * e) + e * g
      BY <1>5, <1>7
    <3> QED BY <1>7, <3>1
  <2> DEFINE a == x + d * y + d * (d * z)
  <2>5. a \in Int
    BY <1>0, <1>4
  <2>6. e * f \in Int /\ e * g \in Int /\ q * (32768 * e) \in Int
    <3> HIDE DEF e
    <3> QED BY <1>4, <1>5, <1>7
  <2>7. n = a + e * f /\ r = a + e * g
    BY <2>2, <2>3
  <2> DEFINE ef == e * f  eg == e * g  qe == q * (32768 * e)
  <2>8. ef \in Int /\ eg \in Int /\ qe \in Int /\ n = a + ef /\ r = a + eg /\ ef = qe + eg
    BY <2>4, <2>6, <2>7
  <2> HIDE DEF a, r, e, ef, eg, qe
  <2>9. n = qe + r
    BY <2>5, <2>8
  <2> QED BY <2>9 DEF qe
<1>9. r \in 0 .. (32768 * e) - 1
  <2>1. ASSUME NEW s \in Nat, NEW t \in 0 .. d - 1, NEW m \in Nat, s < m
        PROVE  t + d * s \in Nat /\ t + d * s < d * m
    <3>1. s + 1 <= m
      BY <2>1
    <3>2. d * (s + 1) <= d * m
      BY <1>0, <2>1, <3>1
    <3>3. d * (s + 1) = d * s + d /\ d * s \in Nat /\ d * m \in Nat
      BY <1>0
    <3> QED BY <1>0, <3>2, <3>3
  <2> DEFINE c == z + d * g  b == y + d * c
  <2>2. c \in Nat /\ c < d * 32768
    BY <1>4, <1>7, <2>1
  <2>3. d * 32768 \in Nat
    BY <1>0
  <2> HIDE DEF c
  <2>4. b \in Nat /\ b < d * (d * 32768)
    BY <1>4, <2>1, <2>2, <2>3
  <2>5. d * (d * 32768) \in Nat
    BY <1>0, <2>3
  <2> HIDE DEF b
  <2>6. x + d * b \in Nat /\ x + d * b < d * (d * (d * 32768))
    BY <1>4, <2>1, <2>4, <2>5
  <2>7. d * (d * (d * 32768)) = 32768 * e
    BY <1>0
  <2>8. r = x + d * b
    BY DEF b, c
  <2>9. 32768 * e \in Nat
    <3> HIDE DEF e
    <3> QED BY <1>5
  <2> HIDE DEF r, e
  <2> QED BY <2>6, <2>7, <2>8, <2>9
<1>10. Encode(i) = r
  BY <1>2, <1>6
<1> DEFINE k == 32768 * e
<1>11. k \in Nat \ {0} /\ WordsEnd = k
  <2>1. WordsEnd = k
    BY <1>3
  <2> HIDE DEF e
  <2> QED BY <1>5, <2>1
<1>12. n = q * k + r /\ r \in 0 .. k - 1
  BY <1>8, <1>9
<1> HIDE DEF k, r
<1>13. (q * k + r) % k = r
  BY <1>7, <1>11, <1>12, DivOf
<1> QED BY <1>10, <1>11, <1>12, <1>13 DEF i

(* So a number is the word of an instruction, but for the bits above the   *)
(* flags, if and only if Instruction::decode gives the instruction.        *)
THEOREM WordOf ==
  ASSUME NEW n \in Nat, NEW i \in Encodable
  PROVE  n % WordsEnd = Encode(i) <=> DecodeInst(n) = i
<1>1. DecodeInst(n) = i => n % WordsEnd = Encode(i)
  BY EncodeDecode
<1>2. ASSUME n % WordsEnd = Encode(i)
      PROVE  DecodeInst(n) = i
  <2>1. DecodeInst(n) \in Encodable
    BY DecodeIs
  <2> DEFINE j == DecodeInst(n)
  <2>2. j \in Encodable /\ Encode(j) = Encode(i)
    BY <1>2, <2>1, EncodeDecode
  <2> HIDE DEF j
  <2>3. DecodeInst(Encode(j)) = j /\ DecodeInst(Encode(i)) = i
    BY <2>2, DecodeUndoesEncode
  <2>4. j = i
    BY <2>2, <2>3
  <2> QED BY <2>4 DEF j
<1> QED BY <1>1, <1>2

-----------------------------------------------------------------------------
(* Each pattern of push_instr is one way of writing an instruction.        *)

LEMMA InstrIs ==
  ASSUME NEW i \in Encodable, NEW o0, NEW o1, NEW o2, NEW flags
  PROVE  i = Instr(o0, o1, o2, flags)
           <=> OffsetsAre(i, o0, o1, o2) /\ i.flags = flags
<1>1. i = [offset0 |-> i.offset0, offset1 |-> i.offset1, offset2 |-> i.offset2,
           flags |-> i.flags]
  BY DEF Encodable
<1>2. /\ i.offset0 \in AnyOffset /\ i.offset1 \in AnyOffset /\ i.offset2 \in AnyOffset
      /\ i.flags \in SUBSET Flags
  BY DEF Encodable
<1> DEFINE a == i.offset0  b == i.offset1  c == i.offset2  f == i.flags
<1>3. i = [offset0 |-> a, offset1 |-> b, offset2 |-> c, flags |-> f]
  BY <1>1
<1> HIDE DEF a, b, c, f
<1>4. i = Instr(o0, o1, o2, flags) <=> a = o0 /\ b = o1 /\ c = o2 /\ f = flags
  BY <1>3 DEF Instr
<1> QED BY <1>4 DEF a, b, c, f, OffsetsAre

(* Flags that agree with a pattern, and with a choice of those left open.  *)
LEMMA FlagsChosen ==
  ASSUME NEW i, NEW pattern, NEW open, NEW chosen \in SUBSET open,
         pattern \cap open = {}
  PROVE  i.flags = pattern \cup chosen
           <=> FlagsAre(i, pattern, open) /\ \A f \in open : f \in i.flags <=> f \in chosen
BY DEF FlagsAre

LEMMA WrittenRet ==
  ASSUME NEW i \in Encodable
  PROVE  /\ i = Ret <=> IsRet(i)
         /\ i = AddApImm <=> IsAddAp(i)
         /\ i = CallRelImm <=> IsCallRelImm(i)
<1>1. i = Ret <=> IsRet(i)
  <2>1. i = Ret <=> OffsetsAre(i, -2, -1, -1)
                    /\ i.flags = {"dst_base_fp", "op0_base_fp", "op1_base_fp",
                                  "pc_update_jump", "opcode_ret"}
    BY InstrIs DEF Ret
  <2>2. JumpFlags \cup {"op1_base_fp", "pc_update_jump", "opcode_ret"}
          = {"dst_base_fp", "op0_base_fp", "op1_base_fp", "pc_update_jump", "opcode_ret"}
    BY DEF JumpFlags
  <2> QED BY <2>1, <2>2 DEF IsRet, FlagsAre
<1>2. i = AddApImm <=> IsAddAp(i)
  <2>1. i = AddApImm <=> OffsetsAre(i, -1, -1, 1)
                    /\ i.flags = {"dst_base_fp", "op0_base_fp", "op1_imm", "ap_update_add"}
    BY InstrIs DEF AddApImm
  <2>2. JumpFlags \cup {"op1_imm", "ap_update_add"}
          = {"dst_base_fp", "op0_base_fp", "op1_imm", "ap_update_add"}
    BY DEF JumpFlags
  <2> QED BY <2>1, <2>2 DEF IsAddAp, FlagsAre
<1>3. i = CallRelImm <=> IsCallRelImm(i)
  <2>1. i = CallRelImm <=> OffsetsAre(i, 0, 1, 1)
                    /\ i.flags = {"op1_imm", "pc_update_jump_rel", "opcode_call"}
    BY InstrIs DEF CallRelImm
  <2> QED BY <2>1 DEF IsCallRelImm, FlagsAre
<1> QED BY <1>1, <1>2, <1>3

LEMMA WrittenJmpRel ==
  ASSUME NEW i \in Encodable, NEW inc \in BOOLEAN
  PROVE  i = JmpRelImm(inc) <=> IsJmpRelImm(i) /\ (Inc \in i.flags <=> inc)
<1> DEFINE pattern == {"dst_base_fp", "op0_base_fp", "op1_imm", "pc_update_jump_rel"}
           chosen == If("ap_update_add_1", inc)
<1>1. i = JmpRelImm(inc) <=> OffsetsAre(i, -1, -1, 1) /\ i.flags = pattern \cup chosen
  BY InstrIs DEF JmpRelImm
<1>2. chosen \in SUBSET {Inc} /\ pattern \cap {Inc} = {} /\ (Inc \in chosen <=> inc)
  BY DEF Inc, If
<1>3. JumpFlags \cup {"op1_imm", "pc_update_jump_rel"} = pattern
  BY DEF JumpFlags
<1> HIDE DEF pattern, chosen
<1>4. i.flags = pattern \cup chosen
        <=> FlagsAre(i, pattern, {Inc}) /\ \A f \in {Inc} : f \in i.flags <=> f \in chosen
  BY <1>2, FlagsChosen
<1> QED BY <1>1, <1>2, <1>3, <1>4 DEF IsJmpRelImm

LEMMA WrittenJmpAbs ==
  ASSUME NEW i \in Encodable, NEW fp \in BOOLEAN, NEW inc \in BOOLEAN
  PROVE  (\E off \in AnyOffset : i = JmpAbs(fp, off, inc))
           <=> IsJmpAbs(i) /\ ("op1_base_fp" \in i.flags <=> fp) /\ (Inc \in i.flags <=> inc)
<1> DEFINE pattern == {"dst_base_fp", "op0_base_fp", "pc_update_jump"}
           open == Bases \cup {Inc}
           chosen == Base1(fp) \cup If("ap_update_add_1", inc)
<1>1. \A off : i = JmpAbs(fp, off, inc)
                 <=> OffsetsAre(i, -1, -1, off) /\ i.flags = pattern \cup chosen
  <2> TAKE off
  <2>1. i = Instr(-1, -1, off, pattern \cup chosen)
          <=> OffsetsAre(i, -1, -1, off) /\ i.flags = pattern \cup chosen
    <3> HIDE DEF pattern, chosen
    <3> QED BY InstrIs
  <2>2. pattern \cup Base1(fp) \cup If("ap_update_add_1", inc) = pattern \cup chosen
    <3> HIDE DEF pattern
    <3> QED OBVIOUS
  <2> QED BY <2>1, <2>2 DEF JmpAbs
<1>2. /\ chosen \in SUBSET open /\ pattern \cap open = {} /\ (Inc \in chosen <=> inc)
      /\ "op1_base_fp" \in chosen <=> fp
      /\ "op1_base_ap" \in chosen <=> ~ fp
  BY DEF Inc, If, Base1, Bases
<1>3. JumpFlags \cup {"pc_update_jump"} = pattern
  BY DEF JumpFlags
<1>4. i.offset2 \in AnyOffset
  BY DEF Encodable
<1> HIDE DEF pattern, chosen
<1>5. i.flags = pattern \cup chosen
        <=> FlagsAre(i, pattern, open) /\ \A f \in open : f \in i.flags <=> f \in chosen
  <2> HIDE DEF open
  <2> QED BY <1>2, FlagsChosen
<1>6. (\A f \in open : f \in i.flags <=> f \in chosen)
        <=> /\ OneBase(i) /\ ("op1_base_fp" \in i.flags <=> fp)
            /\ (Inc \in i.flags <=> inc)
  BY <1>2 DEF OneBase, Bases
<1> HIDE DEF open
<1>7. (\E off \in AnyOffset : i = JmpAbs(fp, off, inc))
        <=> i.offset0 = -1 /\ i.offset1 = -1 /\ i.flags = pattern \cup chosen
  BY <1>1, <1>4 DEF OffsetsAre
<1>8. IsJmpAbs(i) <=> /\ i.offset0 = -1 /\ i.offset1 = -1
                      /\ FlagsAre(i, pattern, open) /\ OneBase(i)
  BY <1>3 DEF IsJmpAbs, open
<1> QED BY <1>5, <1>6, <1>7, <1>8

LEMMA WrittenCallAbs ==
  ASSUME NEW i \in Encodable, NEW fp \in BOOLEAN
  PROVE  (\E off \in AnyOffset : i = CallAbs(fp, off))
           <=> IsCallAbs(i) /\ ("op1_base_fp" \in i.flags <=> fp)
<1> DEFINE pattern == {"pc_update_jump", "opcode_call"}
           chosen == Base1(fp)
<1>1. \A off : i = CallAbs(fp, off)
                 <=> OffsetsAre(i, 0, 1, off) /\ i.flags = pattern \cup chosen
  BY InstrIs DEF CallAbs
<1>2. /\ chosen \in SUBSET Bases /\ pattern \cap Bases = {}
      /\ "op1_base_fp" \in chosen <=> fp
      /\ "op1_base_ap" \in chosen <=> ~ fp
  BY DEF Base1, Bases
<1>3. i.offset2 \in AnyOffset
  BY DEF Encodable
<1> HIDE DEF pattern, chosen
<1>4. i.flags = pattern \cup chosen
        <=> FlagsAre(i, pattern, Bases) /\ \A f \in Bases : f \in i.flags <=> f \in chosen
  BY <1>2, FlagsChosen
<1>5. (\A f \in Bases : f \in i.flags <=> f \in chosen)
        <=> OneBase(i) /\ ("op1_base_fp" \in i.flags <=> fp)
  BY <1>2 DEF OneBase, Bases
<1>6. (\E off \in AnyOffset : i = CallAbs(fp, off))
        <=> i.offset0 = 0 /\ i.offset1 = 1 /\ i.flags = pattern \cup chosen
  BY <1>1, <1>3 DEF OffsetsAre
<1>7. IsCallAbs(i) <=> /\ i.offset0 = 0 /\ i.offset1 = 1
                       /\ FlagsAre(i, pattern, Bases) /\ OneBase(i)
  BY DEF IsCallAbs, pattern
<1> QED BY <1>4, <1>5, <1>6, <1>7

LEMMA WrittenJnz ==
  ASSUME NEW i \in Encodable, NEW fp \in BOOLEAN, NEW inc \in BOOLEAN
  PROVE  (\E off \in AnyOffset : i = JnzImm(fp, off, inc))
           <=> IsJnzImm(i) /\ ("dst_base_fp" \in i.flags <=> fp) /\ (Inc \in i.flags <=> inc)
<1> DEFINE pattern == {"op0_base_fp", "op1_imm", "pc_update_jnz"}
           open == {"dst_base_fp", Inc}
           chosen == If("dst_base_fp", fp) \cup If("ap_update_add_1", inc)
<1>1. \A off : i = JnzImm(fp, off, inc)
                 <=> OffsetsAre(i, off, -1, 1) /\ i.flags = pattern \cup chosen
  <2> TAKE off
  <2>1. i = Instr(off, -1, 1, pattern \cup chosen)
          <=> OffsetsAre(i, off, -1, 1) /\ i.flags = pattern \cup chosen
    <3> HIDE DEF pattern, chosen
    <3> QED BY InstrIs
  <2>2. pattern \cup If("dst_base_fp", fp)
             \cup If("ap_update_add_1", inc) = pattern \cup chosen
    <3> HIDE DEF pattern
    <3> QED OBVIOUS
  <2> QED BY <2>1, <2>2 DEF JnzImm
<1>2. /\ chosen \in SUBSET open /\ pattern \cap open = {} /\ (Inc \in chosen <=> inc)
      /\ "dst_base_fp" \in chosen <=> fp
  BY DEF Inc, If
<1>3. i.offset0 \in AnyOffset
  BY DEF Encodable
<1> HIDE DEF pattern, chosen
<1>4. i.flags = pattern \cup chosen
        <=> FlagsAre(i, pattern, open) /\ \A f \in open : f \in i.flags <=> f \in chosen
  <2> HIDE DEF open
  <2> QED BY <1>2, FlagsChosen
<1>5. (\A f \in open : f \in i.flags <=> f \in chosen)
        <=> ("dst_base_fp" \in i.flags <=> fp) /\ (Inc \in i.flags <=> inc)
  BY <1>2
<1> HIDE DEF open
<1>6. (\E off \in AnyOffset : i = JnzImm(fp, off, inc))
        <=> i.offset1 = -1 /\ i.offset2 = 1 /\ i.flags = pattern \cup chosen
  BY <1>1, <1>3 DEF OffsetsAre
<1>7. IsJnzImm(i) <=> /\ i.offset1 = -1 /\ i.offset2 = 1
                      /\ FlagsAre(i, pattern, open)
  BY DEF IsJnzImm, pattern, open
<1> QED BY <1>4, <1>5, <1>6, <1>7

LEMMA WrittenPush ==
  ASSUME NEW i \in Encodable
  PROVE  (\E d, inc \in BOOLEAN, o \in AnyOffset : i = PushImm(d, o, inc))
           <=> IsPushImm(i)
<1> DEFINE pattern == {"op0_base_fp", "op1_imm", "opcode_assert_eq"}
           open == {"dst_base_fp", Inc}
           chosen(d, inc) == If("dst_base_fp", d) \cup If("ap_update_add_1", inc)
<1>1. \A d, inc, o : i = PushImm(d, o, inc)
                 <=> OffsetsAre(i, o, -1, 1) /\ i.flags = pattern \cup chosen(d, inc)
  <2> TAKE d, inc, o
  <2> DEFINE flags == pattern \cup chosen(d, inc)
  <2>1. i = Instr(o, -1, 1, flags)
          <=> OffsetsAre(i, o, -1, 1) /\ i.flags = flags
    <3> HIDE DEF flags
    <3> QED BY InstrIs
  <2>2. pattern \cup If("dst_base_fp", d)
             \cup If("ap_update_add_1", inc) = flags
    <3> HIDE DEF pattern
    <3> QED OBVIOUS
  <2> QED BY <2>1, <2>2 DEF PushImm
<1>2. ASSUME NEW d \in BOOLEAN, NEW inc \in BOOLEAN
      PROVE  /\ chosen(d, inc) \in SUBSET open /\ pattern \cap open = {}
             /\ Inc \in chosen(d, inc) <=> inc
             /\ "dst_base_fp" \in chosen(d, inc) <=> d
  BY DEF Inc, If
<1>3. i.offset0 \in AnyOffset
  BY DEF Encodable
<1> HIDE DEF pattern, chosen
<1>4. ASSUME NEW d \in BOOLEAN, NEW inc \in BOOLEAN
      PROVE  i.flags = pattern \cup chosen(d, inc)
               <=> /\ FlagsAre(i, pattern, open)
                   /\ "dst_base_fp" \in i.flags <=> d
                   /\ Inc \in i.flags <=> inc
  <2> DEFINE c == chosen(d, inc)
  <2>1. /\ c \in SUBSET open /\ pattern \cap open = {}
        /\ Inc \in c <=> inc
        /\ "dst_base_fp" \in c <=> d
    BY <1>2
  <2> HIDE DEF c
  <2>2. i.flags = pattern \cup c
          <=> FlagsAre(i, pattern, open) /\ \A f \in open : f \in i.flags <=> f \in c
    <3> HIDE DEF open
    <3> QED BY <2>1, FlagsChosen
  <2>3. (\A f \in open : f \in i.flags <=> f \in c)
          <=> ("dst_base_fp" \in i.flags <=> d) /\ (Inc \in i.flags <=> inc)
    BY <2>1
  <2> HIDE DEF open
  <2>4. i.flags = pattern \cup c
               <=> /\ FlagsAre(i, pattern, open)
                   /\ "dst_base_fp" \in i.flags <=> d
                   /\ Inc \in i.flags <=> inc
    BY <2>2, <2>3
  <2> QED BY <2>4 DEF c
<1>5. IsPushImm(i) <=> /\ i.offset1 = -1 /\ i.offset2 = 1
                       /\ FlagsAre(i, pattern, open)
  BY DEF IsPushImm, pattern, open
<1> HIDE DEF open
<1>6. ASSUME NEW d \in BOOLEAN, NEW inc \in BOOLEAN, NEW o \in AnyOffset,
             i = PushImm(d, o, inc)
      PROVE  IsPushImm(i)
  BY <1>1, <1>4, <1>5, <1>6 DEF OffsetsAre
<1>7. ASSUME IsPushImm(i)
      PROVE  \E d, inc \in BOOLEAN, o \in AnyOffset : i = PushImm(d, o, inc)
  <2> DEFINE d == "dst_base_fp" \in i.flags  inc == Inc \in i.flags
  <2>1. d \in BOOLEAN /\ inc \in BOOLEAN
    OBVIOUS
  <2>2. i.flags = pattern \cup chosen(d, inc)
    <3>1. FlagsAre(i, pattern, open)
      BY <1>5, <1>7
    <3> QED BY <1>4, <2>1, <3>1
  <2> HIDE DEF d, inc
  <2>3. i = PushImm(d, i.offset0, inc)
    BY <1>1, <1>5, <1>7, <2>2 DEF OffsetsAre
  <2> QED BY <1>3, <2>1, <2>3
<1> QED BY <1>6, <1>7

LEMMA WrittenMov ==
  ASSUME NEW i \in Encodable
  PROVE  (\E d, s, inc \in BOOLEAN, o, p \in AnyOffset :
            i = MovMem(d, o, s, p, inc))
           <=> IsMovMem(i)
<1> DEFINE pattern == {"op0_base_fp", "opcode_assert_eq"}
           open == Bases \cup {"dst_base_fp", Inc}
           chosen(d, s, inc) == Base1(s) \cup If("dst_base_fp", d)
                                  \cup If("ap_update_add_1", inc)
<1>1. \A d, s, inc, o, p :
        i = MovMem(d, o, s, p, inc)
          <=> OffsetsAre(i, o, -1, p) /\ i.flags = pattern \cup chosen(d, s, inc)
  <2> TAKE d, s, inc, o, p
  <2> DEFINE flags == pattern \cup chosen(d, s, inc)
  <2>1. i = Instr(o, -1, p, flags)
          <=> OffsetsAre(i, o, -1, p) /\ i.flags = flags
    <3> HIDE DEF flags
    <3> QED BY InstrIs
  <2>2. pattern \cup Base1(s) \cup If("dst_base_fp", d)
             \cup If("ap_update_add_1", inc) = flags
    <3> HIDE DEF pattern
    <3> QED OBVIOUS
  <2> QED BY <2>1, <2>2 DEF MovMem
<1>2. ASSUME NEW d \in BOOLEAN, NEW s \in BOOLEAN, NEW inc \in BOOLEAN
      PROVE  /\ chosen(d, s, inc) \in SUBSET open /\ pattern \cap open = {}
             /\ "dst_base_fp" \in chosen(d, s, inc) <=> d
             /\ "op1_base_fp" \in chosen(d, s, inc) <=> s
             /\ "op1_base_ap" \in chosen(d, s, inc) <=> ~ s
             /\ Inc \in chosen(d, s, inc) <=> inc
  BY DEF Inc, If, Base1, Bases, JumpFlags
<1>3. i.offset0 \in AnyOffset /\ i.offset1 \in AnyOffset /\ i.offset2 \in AnyOffset
  BY DEF Encodable
<1> HIDE DEF pattern, chosen
<1>4. ASSUME NEW d \in BOOLEAN, NEW s \in BOOLEAN, NEW inc \in BOOLEAN
      PROVE  i.flags = pattern \cup chosen(d, s, inc)
               <=> /\ FlagsAre(i, pattern, open)
                   /\ OneBase(i)
                   /\ "dst_base_fp" \in i.flags <=> d
                   /\ "op1_base_fp" \in i.flags <=> s
                   /\ Inc \in i.flags <=> inc
  <2> DEFINE c == chosen(d, s, inc)
  <2>1. /\ c \in SUBSET open /\ pattern \cap open = {}
        /\ "dst_base_fp" \in c <=> d
        /\ "op1_base_fp" \in c <=> s
        /\ "op1_base_ap" \in c <=> ~ s
        /\ Inc \in c <=> inc
    BY <1>2
  <2> HIDE DEF c
  <2>2. i.flags = pattern \cup c
          <=> FlagsAre(i, pattern, open) /\ \A f \in open : f \in i.flags <=> f \in c
    <3> HIDE DEF open
    <3> QED BY <2>1, FlagsChosen
  <2>3. (\A f \in open : f \in i.flags <=> f \in c)
          <=> /\ OneBase(i)
              /\ "dst_base_fp" \in i.flags <=> d
              /\ "op1_base_fp" \in i.flags <=> s
              /\ Inc \in i.flags <=> inc
    BY <2>1 DEF OneBase, Bases, JumpFlags
  <2> HIDE DEF open
  <2>4. i.flags = pattern \cup c
               <=> /\ FlagsAre(i, pattern, open)
                   /\ OneBase(i)
                   /\ "dst_base_fp" \in i.flags <=> d
                   /\ "op1_base_fp" \in i.flags <=> s
                   /\ Inc \in i.flags <=> inc
    BY <2>2, <2>3
  <2> QED BY <2>4 DEF c
<1>5. IsMovMem(i) <=> /\ i.offset1 = -1
                       /\ FlagsAre(i, pattern, open)
                       /\ OneBase(i)
  BY DEF IsMovMem, pattern, open
<1> HIDE DEF open
<1>6. ASSUME NEW d \in BOOLEAN, NEW s \in BOOLEAN, NEW inc \in BOOLEAN,
             NEW o \in AnyOffset, NEW p \in AnyOffset,
             i = MovMem(d, o, s, p, inc)
      PROVE  IsMovMem(i)
  BY <1>1, <1>4, <1>5, <1>6 DEF OffsetsAre
<1>7. ASSUME IsMovMem(i)
      PROVE  \E d, s, inc \in BOOLEAN, o, p \in AnyOffset :
               i = MovMem(d, o, s, p, inc)
  <2> DEFINE d == "dst_base_fp" \in i.flags
           s == "op1_base_fp" \in i.flags
           inc == Inc \in i.flags
  <2>1. d \in BOOLEAN /\ s \in BOOLEAN /\ inc \in BOOLEAN
    OBVIOUS
  <2>2. i.flags = pattern \cup chosen(d, s, inc)
    <3>1. FlagsAre(i, pattern, open) /\ OneBase(i)
      BY <1>5, <1>7
    <3> QED BY <1>4, <2>1, <3>1
  <2> HIDE DEF d, s, inc
  <2>3. i = MovMem(d, i.offset0, s, i.offset2, inc)
    BY <1>1, <1>5, <1>7, <2>2 DEF OffsetsAre
  <2> QED BY <1>3, <2>1, <2>3
<1> QED BY <1>6, <1>7

LEMMA WrittenDeref ==
  ASSUME NEW i \in Encodable
  PROVE  (\E d, s, inc \in BOOLEAN, o, p, q \in AnyOffset :
            i = Deref(d, o, s, p, q, inc))
           <=> IsDeref(i)
<1> DEFINE pattern == {"opcode_assert_eq"}
           open == JumpFlags \cup {Inc}
           chosen(d, s, inc) == If("op0_base_fp", s) \cup If("dst_base_fp", d)
                                  \cup If("ap_update_add_1", inc)
<1>1. \A d, s, inc, o, p, q :
        i = Deref(d, o, s, p, q, inc)
          <=> OffsetsAre(i, o, p, q) /\ i.flags = pattern \cup chosen(d, s, inc)
  <2> TAKE d, s, inc, o, p, q
  <2> DEFINE flags == pattern \cup chosen(d, s, inc)
  <2>1. i = Instr(o, p, q, flags)
          <=> OffsetsAre(i, o, p, q) /\ i.flags = flags
    <3> HIDE DEF flags
    <3> QED BY InstrIs
  <2>2. pattern \cup If("op0_base_fp", s) \cup If("dst_base_fp", d)
             \cup If("ap_update_add_1", inc) = flags
    <3> HIDE DEF pattern
    <3> QED OBVIOUS
  <2> QED BY <2>1, <2>2 DEF Deref
<1>2. ASSUME NEW d \in BOOLEAN, NEW s \in BOOLEAN, NEW inc \in BOOLEAN
      PROVE  /\ chosen(d, s, inc) \in SUBSET open /\ pattern \cap open = {}
             /\ "dst_base_fp" \in chosen(d, s, inc) <=> d
             /\ "op0_base_fp" \in chosen(d, s, inc) <=> s
             /\ Inc \in chosen(d, s, inc) <=> inc
  BY DEF Inc, If, Base1, Bases, JumpFlags
<1>3. i.offset0 \in AnyOffset /\ i.offset1 \in AnyOffset /\ i.offset2 \in AnyOffset
  BY DEF Encodable
<1> HIDE DEF pattern, chosen
<1>4. ASSUME NEW d \in BOOLEAN, NEW s \in BOOLEAN, NEW inc \in BOOLEAN
      PROVE  i.flags = pattern \cup chosen(d, s, inc)
               <=> /\ FlagsAre(i, pattern, open)
                   /\ "dst_base_fp" \in i.flags <=> d
                   /\ "op0_base_fp" \in i.flags <=> s
                   /\ Inc \in i.flags <=> inc
  <2> DEFINE c == chosen(d, s, inc)
  <2>1. /\ c \in SUBSET open /\ pattern \cap open = {}
        /\ "dst_base_fp" \in c <=> d
        /\ "op0_base_fp" \in c <=> s
        /\ Inc \in c <=> inc
    BY <1>2
  <2> HIDE DEF c
  <2>2. i.flags = pattern \cup c
          <=> FlagsAre(i, pattern, open) /\ \A f \in open : f \in i.flags <=> f \in c
    <3> HIDE DEF open
    <3> QED BY <2>1, FlagsChosen
  <2>3. (\A f \in open : f \in i.flags <=> f \in c)
          <=> /\ "dst_base_fp" \in i.flags <=> d
              /\ "op0_base_fp" \in i.flags <=> s
              /\ Inc \in i.flags <=> inc
    BY <2>1 DEF OneBase, Bases, JumpFlags
  <2> HIDE DEF open
  <2>4. i.flags = pattern \cup c
               <=> /\ FlagsAre(i, pattern, open)
                   /\ "dst_base_fp" \in i.flags <=> d
                   /\ "op0_base_fp" \in i.flags <=> s
                   /\ Inc \in i.flags <=> inc
    BY <2>2, <2>3
  <2> QED BY <2>4 DEF c
<1>5. IsDeref(i) <=> /\ FlagsAre(i, pattern, open)
  BY DEF IsDeref, pattern, open
<1> HIDE DEF open
<1>6. ASSUME NEW d \in BOOLEAN, NEW s \in BOOLEAN, NEW inc \in BOOLEAN,
             NEW o \in AnyOffset, NEW p \in AnyOffset, NEW q \in AnyOffset,
             i = Deref(d, o, s, p, q, inc)
      PROVE  IsDeref(i)
  BY <1>1, <1>4, <1>5, <1>6 DEF OffsetsAre
<1>7. ASSUME IsDeref(i)
      PROVE  \E d, s, inc \in BOOLEAN, o, p, q \in AnyOffset :
               i = Deref(d, o, s, p, q, inc)
  <2> DEFINE d == "dst_base_fp" \in i.flags
           s == "op0_base_fp" \in i.flags
           inc == Inc \in i.flags
  <2>1. d \in BOOLEAN /\ s \in BOOLEAN /\ inc \in BOOLEAN
    OBVIOUS
  <2>2. i.flags = pattern \cup chosen(d, s, inc)
    <3>1. FlagsAre(i, pattern, open)
      BY <1>5, <1>7
    <3> QED BY <1>4, <2>1, <3>1
  <2> HIDE DEF d, s, inc
  <2>3. i = Deref(d, i.offset0, s, i.offset1, i.offset2, inc)
    BY <1>1, <1>5, <1>7, <2>2 DEF OffsetsAre
  <2> QED BY <1>3, <2>1, <2>3
<1> QED BY <1>6, <1>7

(* The place of an instruction's list among those of its name.             *)
Place(i, taken, kind) ==
  LET fp == Bit("op1_base_fp" \in i.flags)  inc == Bit(Inc \in i.flags)
      dst == Bit("dst_base_fp" \in i.flags)
  IN CASE kind = "jmp_rel_imm" -> inc
       [] kind = "jmp_abs"     -> fp + 2 * inc
       [] kind = "call_abs"    -> fp
       [] kind = "jnz_imm"     -> dst + 2 * Bit(taken) + 4 * inc
       [] OTHER                -> 0

LEMMA ListOfPlace ==
  ASSUME NEW i, NEW taken, NEW kind \in Kinds, Fits(i, kind)
  PROVE  ListOf(i, taken) = List(kind, Place(i, taken, kind))
<1>1. \A k \in Kinds : Fits(i, k) => k = kind
  BY PatternsAreDisjoint
<1>2. /\ IsRet(i) <=> kind = "ret"
      /\ IsAddAp(i) <=> kind = "add_ap"
      /\ IsJmpRelImm(i) <=> kind = "jmp_rel_imm"
      /\ IsJmpAbs(i) <=> kind = "jmp_abs"
      /\ IsCallRelImm(i) <=> kind = "call_rel_imm"
      /\ IsCallAbs(i) <=> kind = "call_abs"
      /\ IsJnzImm(i) <=> kind = "jnz_imm"
      /\ IsMovMem(i) <=> kind = "mov_mem"
      /\ IsDeref(i) <=> kind = "deref"
      /\ IsPushImm(i) <=> kind = "push_imm"
  BY <1>1 DEF Fits, Kinds
<1> QED BY <1>2 DEF ListOf, Place, Kinds

LEMMA ListOfNone ==
  ASSUME NEW i, NEW taken, \A kind \in Kinds : ~ Fits(i, kind)
  PROVE  ListOf(i, taken) = Generic
<1>1. /\ ~ IsRet(i) /\ ~ IsAddAp(i) /\ ~ IsJmpRelImm(i) /\ ~ IsJmpAbs(i)
      /\ ~ IsCallRelImm(i) /\ ~ IsCallAbs(i) /\ ~ IsJnzImm(i) /\ ~ IsMovMem(i)
      /\ ~ IsDeref(i) /\ ~ IsPushImm(i)
  BY DEF Fits, Kinds
<1> QED BY <1>1 DEF ListOf

(* The two sides of a list: what push_instr puts there, and what is        *)
(* written so.                                                             *)
LEMMA PlacesAreWritten ==
  ASSUME NEW i \in Encodable, NEW t \in BOOLEAN, NEW l \in ListNames \ {Generic}
  PROVE  /\ l[1] \in Kinds /\ l = List(l[1], l[2])
         /\ i \in Written(l) /\ (l[1] = "jnz_imm" => (t <=> (l[2] \div 2) % 2 = 1))
              <=> Fits(i, l[1]) /\ Place(i, t, l[1]) = l[2]
<1> DEFINE name == l[1]  k == l[2]
           Goal == /\ name \in Kinds /\ l = List(name, k)
                   /\ i \in Written(l) /\ (name = "jnz_imm" => (t <=> (k \div 2) % 2 = 1))
                        <=> Fits(i, name) /\ Place(i, t, name) = k
           fp == "op1_base_fp" \in i.flags  inc == Inc \in i.flags
           dst == "dst_base_fp" \in i.flags
<1>1. ASSUME NEW n \in {"ret", "add_ap", "call_rel_imm", "mov_mem", "deref", "push_imm"},
             l = List(n, 0)
      PROVE  Goal
  <2>1. name = n /\ k = 0 /\ n \in Kinds /\ Place(i, t, n) = 0
    BY <1>1 DEF List, Kinds, Place
  <2>2. i \in Written(l) <=> Fits(i, n)
    <3>1. CASE n = "ret"
      BY <2>1, <3>1, WrittenRet DEF Written, Fits
    <3>2. CASE n = "add_ap"
      BY <2>1, <3>2, WrittenRet DEF Written, Fits
    <3>3. CASE n = "call_rel_imm"
      BY <2>1, <3>3, WrittenRet DEF Written, Fits
    <3>4. CASE n = "mov_mem"
      BY <2>1, <3>4, WrittenMov DEF Written, Fits
    <3>5. CASE n = "deref"
      BY <2>1, <3>5, WrittenDeref DEF Written, Fits
    <3>6. CASE n = "push_imm"
      BY <2>1, <3>6, WrittenPush DEF Written, Fits
    <3> QED BY <3>1, <3>2, <3>3, <3>4, <3>5, <3>6
  <2> QED BY <1>1, <2>1, <2>2
<1>2. ASSUME NEW j \in 0 .. 1, l = List("jmp_rel_imm", j)
      PROVE  Goal
  <2>1. name = "jmp_rel_imm" /\ k = j /\ Place(i, t, name) = Bit(inc)
    BY <1>2 DEF List, Place
  <2>2. i \in Written(l) <=> i = JmpRelImm(k = 1)
    BY <2>1 DEF Written
  <2>3. i = JmpRelImm(k = 1) <=> IsJmpRelImm(i) /\ (inc <=> k = 1)
    BY WrittenJmpRel
  <2>4. Bit(inc) = k <=> (inc <=> k = 1)
    BY <2>1 DEF Bit
  <2>5. Fits(i, name) <=> IsJmpRelImm(i)
    BY <2>1 DEF Fits
  <2> QED BY <1>2, <2>1, <2>2, <2>3, <2>4, <2>5 DEF Kinds
<1>3. ASSUME NEW j \in 0 .. 3, l = List("jmp_abs", j)
      PROVE  Goal
  <2>1. name = "jmp_abs" /\ k = j /\ Place(i, t, name) = Bit(fp) + 2 * Bit(inc)
    BY <1>3 DEF List, Place
  <2>2. i \in Written(l)
          <=> \E off \in AnyOffset : i = JmpAbs(k % 2 = 1, off, k \div 2 = 1)
    BY <2>1 DEF Written
  <2>3. (\E off \in AnyOffset : i = JmpAbs(k % 2 = 1, off, k \div 2 = 1))
          <=> IsJmpAbs(i) /\ (fp <=> k % 2 = 1) /\ (inc <=> k \div 2 = 1)
    BY WrittenJmpAbs
  <2>4. Bit(fp) + 2 * Bit(inc) = k <=> (fp <=> k % 2 = 1) /\ (inc <=> k \div 2 = 1)
    BY <2>1 DEF Bit
  <2>5. Fits(i, name) <=> IsJmpAbs(i)
    BY <2>1 DEF Fits
  <2> QED BY <1>3, <2>1, <2>2, <2>3, <2>4, <2>5 DEF Kinds
<1>4. ASSUME NEW j \in 0 .. 1, l = List("call_abs", j)
      PROVE  Goal
  <2>1. name = "call_abs" /\ k = j /\ Place(i, t, name) = Bit(fp)
    BY <1>4 DEF List, Place
  <2>2. i \in Written(l) <=> \E off \in AnyOffset : i = CallAbs(k = 1, off)
    BY <2>1 DEF Written
  <2>3. (\E off \in AnyOffset : i = CallAbs(k = 1, off))
          <=> IsCallAbs(i) /\ (fp <=> k = 1)
    BY WrittenCallAbs
  <2>4. Bit(fp) = k <=> (fp <=> k = 1)
    BY <2>1 DEF Bit
  <2>5. Fits(i, name) <=> IsCallAbs(i)
    BY <2>1 DEF Fits
  <2> QED BY <1>4, <2>1, <2>2, <2>3, <2>4, <2>5 DEF Kinds
<1>5. ASSUME NEW j \in 0 .. 7, l = List("jnz_imm", j)
      PROVE  Goal
  <2>1. name = "jnz_imm" /\ k = j /\ Place(i, t, name) = Bit(dst) + 2 * Bit(t) + 4 * Bit(inc)
    BY <1>5 DEF List, Place
  <2>2. i \in Written(l)
          <=> \E off \in AnyOffset : i = JnzImm(k % 2 = 1, off, k \div 4 = 1)
    BY <2>1 DEF Written
  <2>3. (\E off \in AnyOffset : i = JnzImm(k % 2 = 1, off, k \div 4 = 1))
          <=> IsJnzImm(i) /\ (dst <=> k % 2 = 1) /\ (inc <=> k \div 4 = 1)
    BY WrittenJnz
  <2>4. Bit(dst) + 2 * Bit(t) + 4 * Bit(inc) = k
          <=> (dst <=> k % 2 = 1) /\ (t <=> (k \div 2) % 2 = 1) /\ (inc <=> k \div 4 = 1)
    BY <2>1 DEF Bit
  <2>5. Fits(i, name) <=> IsJnzImm(i)
    BY <2>1 DEF Fits
  <2> QED BY <1>5, <2>1, <2>2, <2>3, <2>4, <2>5 DEF Kinds
<1>6. \/ \E n \in {"ret", "add_ap", "call_rel_imm", "mov_mem", "deref", "push_imm"} :
            l = List(n, 0)
      \/ \E j \in 0 .. 1 : l = List("jmp_rel_imm", j) \/ l = List("call_abs", j)
      \/ \E j \in 0 .. 3 : l = List("jmp_abs", j)
      \/ \E j \in 0 .. 7 : l = List("jnz_imm", j)
  BY DEF ListNames, Generic
<1> HIDE DEF Goal
<1>7. Goal
  BY <1>1, <1>2, <1>3, <1>4, <1>5, <1>6
<1> QED BY <1>7 DEF Goal

(* push_instr puts an instruction in a list if and only if it is written   *)
(* as the list's comment says and, if it is a conditional jump, taken as   *)
(* the list is for.                                                        *)
THEOREM ListOfWritten ==
  ASSUME NEW i \in Encodable, NEW t \in BOOLEAN, NEW l \in ListNames \ {Generic}
  PROVE  ListOf(i, t) = l
           <=> i \in Written(l) /\ (l[1] = "jnz_imm" => (t <=> (l[2] \div 2) % 2 = 1))
<1>1. l[1] \in Kinds /\ l = List(l[1], l[2])
  BY PlacesAreWritten
<1>2. ASSUME ListOf(i, t) = l
      PROVE  Fits(i, l[1]) /\ Place(i, t, l[1]) = l[2]
  <2>1. PICK kind \in Kinds : Fits(i, kind)
    BY <1>2, ListOfNone
  <2>2. l = List(kind, Place(i, t, kind))
    BY <1>2, <2>1, ListOfPlace
  <2>3. l[1] = kind /\ l[2] = Place(i, t, kind)
    BY <2>2 DEF List
  <2> QED BY <2>1, <2>3
<1>3. ASSUME Fits(i, l[1]), Place(i, t, l[1]) = l[2]
      PROVE  ListOf(i, t) = l
  BY <1>1, <1>3, ListOfPlace
<1> QED BY <1>2, <1>3, PlacesAreWritten

-----------------------------------------------------------------------------
(* What is at the pc of a state that was read, and what it asks for.       *)
LEMMA ReadStateIs ==
  ASSUME IInv, NEW k \in 1 .. traceRead
  PROVE  /\ \E inst \in M31 : MemGet(builder, States[k].pc) = {Felt(inst)}
         /\ \E l \in ListNames : ListsFor(builder, States[k]) = {l}
<1>1. k \in DOMAIN States
  BY DEF States
<1>2. States[k].pc \in DOMAIN builder.inst_cache
  BY <1>1, InstFreshHolds DEF InstFresh
<1>3. MemGet(builder, States[k].pc) = {Felt(builder.inst_cache[States[k].pc])}
  BY <1>2, InstFreshHolds DEF InstFresh
<1>4. builder.inst_cache[States[k].pc] \in M31
  BY <1>2 DEF IInv, BuilderOK, InstsOK
<1>5. PICK l \in ListNames : k \in InList(l, k)
  BY <1>1, ListsFollowTraceHolds DEF ListsFollowTrace
<1>6. ListsFor(builder, States[k]) = {l}
  BY <1>5 DEF InList
<1> QED BY <1>3, <1>4, <1>6

LEMMA WordAtIs ==
  ASSUME NEW pc, NEW inst \in M31, MemGet(builder, pc) = {Felt(inst)}
  PROVE  WordAt(pc) = {inst % WordsEnd}
<1>1. Felt(inst) \in BaseField /\ Felt(inst)[1][1] = inst
  BY PAssumption DEF Felt, BaseField, QM31, CM31, M31, CZero
<1>2. MemGet(builder, pc) \cap BaseField = {Felt(inst)}
  BY <1>1
<1> QED BY <1>1, <1>2 DEF WordAt

(* The instructions that a state's word can be are the one it decodes to.  *)
LEMMA JumpsAre ==
  ASSUME NEW s, NEW inst \in M31, MemGet(builder, s.pc) = {Felt(inst)}, NEW l
  PROVE  Jumps(l, s) = {DecodeInst(inst)} \cap Written(l)
<1>1. inst \in Nat /\ DecodeInst(inst) \in Encodable
  BY DecodeIs, PAssumption DEF M31
<1>2. WordAt(s.pc) = {inst % WordsEnd}
  BY WordAtIs
<1>3. \A i \in Encodable : Encode(i) \in WordAt(s.pc) <=> DecodeInst(inst) = i
  BY <1>1, <1>2, WordOf
<1> QED BY <1>1, <1>3 DEF Jumps

(* An instruction was assembled for the list, as the state finds it, when  *)
(* that is the list it is put in.                                          *)
LEMMA AssembledForIs ==
  ASSUME NEW s, NEW inst \in M31, MemGet(builder, s.pc) = {Felt(inst)},
         NEW l \in ListNames \ {Generic}
  PROVE  AssembledFor(l, s)
           <=> \E t \in Taken(builder, DecodeInst(inst), s) : ListOf(DecodeInst(inst), t) = l
<1> DEFINE i == DecodeInst(inst)
<1>1. inst \in Nat /\ i \in Encodable
  BY DecodeIs, PAssumption DEF M31
<1>2. l[1] \in Kinds /\ (i \in Written(l) => Fits(i, l[1]))
  BY <1>1, PlacesAreWritten
<1>j. Jumps(l, s) = {i} \cap Written(l)
  BY JumpsAre
<1>w. WordAt(s.pc) = {inst % WordsEnd}
  BY WordAtIs
<1>t. Tested(i, s) = MemGet(builder, (IF "dst_base_fp" \in i.flags THEN s.fp ELSE s.ap)
                                       + i.offset0)
  BY DEF Tested
<1>k. Taken(builder, i, s) = IF IsJnzImm(i)
                                THEN {v # QZero : v \in Tested(i, s)} ELSE {FALSE}
  BY <1>t DEF Taken
<1>o. \A e \in Encodable : inst % WordsEnd = Encode(e) <=> i = e
  BY <1>1, WordOf
<1>f. IsJnzImm(i) <=> Fits(i, "jnz_imm")
  BY DEF Fits
<1>a. WordAt(s.pc) \cap AssembledAs[l] # {} <=> i \in Written(l)
  <2>1. AssembledAs[l] = {Encode(e) : e \in Written(l) \cap Encodable}
    BY DEF AssembledAs
  <2> QED BY <1>1, <1>o, <1>w, <2>1
<1> HIDE DEF i
<1>3. \A t \in BOOLEAN : ListOf(i, t) = l
        <=> i \in Written(l) /\ (IsJump(l) => (t <=> (l[2] \div 2) % 2 = 1))
  BY <1>1, ListOfWritten DEF IsJump
<1>4. CASE IsJump(l)
  <2>1. i \in Written(l) => IsJnzImm(i)
    BY <1>2, <1>4, <1>f DEF IsJump
  <2>2. AssembledFor(l, s)
          <=> i \in Written(l) /\ \E v \in Tested(i, s) : v # QZero <=> (l[2] \div 2) % 2 = 1
    BY <1>4, <1>a, <1>j DEF AssembledFor
  <2>3. ASSUME i \in Written(l)
        PROVE  (\E v \in Tested(i, s) : v # QZero <=> (l[2] \div 2) % 2 = 1)
                 <=> \E t \in Taken(builder, i, s) : ListOf(i, t) = l
    <3>1. Taken(builder, i, s) = {v # QZero : v \in Tested(i, s)}
      BY <1>k, <2>1, <2>3
    <3>2. \A v \in Tested(i, s) :
            ListOf(i, v # QZero) = l <=> (v # QZero <=> (l[2] \div 2) % 2 = 1)
      BY <1>3, <1>4, <2>3
    <3> QED BY <3>1, <3>2
  <2>4. Taken(builder, i, s) \subseteq BOOLEAN
    BY <1>k
  <2>5. ASSUME NEW t \in Taken(builder, i, s), ListOf(i, t) = l
        PROVE  i \in Written(l)
    <3>1. t \in BOOLEAN
      BY <2>4
    <3> QED BY <1>3, <2>5, <3>1
  <2>6. AssembledFor(l, s) <=> \E t \in Taken(builder, i, s) : ListOf(i, t) = l
    BY <2>2, <2>3, <2>5
  <2> QED BY <2>6 DEF i
<1>5. CASE ~ IsJump(l)
  <2>1. i \in Written(l) => ~ IsJnzImm(i)
    <3>1. ASSUME i \in Written(l), IsJnzImm(i)
          PROVE  FALSE
      <4>1. Fits(i, l[1]) /\ Fits(i, "jnz_imm") /\ "jnz_imm" \in Kinds
        BY <1>2, <1>f, <3>1 DEF Kinds
      <4>2. l[1] = "jnz_imm"
        BY <1>2, <4>1, PatternsAreDisjoint
      <4> QED BY <1>5, <4>2 DEF IsJump
    <3> QED BY <3>1
  <2>2. AssembledFor(l, s) <=> i \in Written(l)
    BY <1>5, <1>a DEF AssembledFor
  <2>3. Taken(builder, i, s) \subseteq BOOLEAN
    BY <1>k
  <2>4. i \in Written(l) => Taken(builder, i, s) = {FALSE}
    BY <1>k, <2>1
  <2>5. ASSUME NEW t \in Taken(builder, i, s), ListOf(i, t) = l
        PROVE  i \in Written(l)
    <3>1. t \in BOOLEAN
      BY <2>3
    <3> QED BY <1>3, <2>5, <3>1
  <2>6. ASSUME i \in Written(l)
        PROVE  ListOf(i, FALSE) = l /\ FALSE \in Taken(builder, i, s)
    <3>1. FALSE \in Taken(builder, i, s)
      BY <2>4, <2>6
    <3>2. ListOf(i, FALSE) = l
      BY <1>3, <1>5, <2>6
    <3> QED BY <3>1, <3>2
  <2>7. AssembledFor(l, s) <=> \E t \in Taken(builder, i, s) : ListOf(i, t) = l
    BY <2>2, <2>5, <2>6
  <2> QED BY <2>7 DEF i
<1> QED BY <1>4, <1>5

(* What the lists follow is what was assembled.                            *)
LEMMA BelongingIs ==
  ASSUME IInv, NEW k \in 1 .. traceRead, NEW l \in ListNames
  PROVE  BelongsTo(l, States[k]) <=> ListsFor(builder, States[k]) = {l}
<1> DEFINE s == States[k]
<1>1. PICK inst \in M31 : MemGet(builder, s.pc) = {Felt(inst)}
  BY ReadStateIs
<1>2. PICK m \in ListNames : ListsFor(builder, s) = {m}
  BY ReadStateIs
<1> HIDE DEF s
<1> DEFINE i == DecodeInst(inst)
<1>3. ListsFor(builder, s) = {ListOf(i, t) : t \in Taken(builder, i, s)}
  <2>1. Felt(inst)[1][1] = inst
    BY DEF Felt
  <2> QED BY <1>1, <2>1 DEF ListsFor
<1>4. \A n \in ListNames \ {Generic} :
        AssembledFor(n, s) <=> \E t \in Taken(builder, i, s) : ListOf(i, t) = n
  BY <1>1, AssembledForIs
<1> HIDE DEF i
<1>5. \A n \in ListNames \ {Generic} : AssembledFor(n, s) <=> n = m
  BY <1>2, <1>3, <1>4
<1>6. ~ AssembledFor(Generic, s)
  <2>1. Generic \in ListNames /\ Generic[1] = "generic"
    BY DEF Generic, List, ListNames
  <2>2. Written(Generic) = {}
    BY <2>1 DEF Written
  <2>3. AssembledAs[Generic] = {}
    BY <2>1, <2>2 DEF AssembledAs
  <2> QED BY <2>3 DEF AssembledFor
<1>7. BelongsTo(l, s) <=> l = m
  <2>1. CASE l = Generic
    <3>1. BelongsTo(l, s) <=> \A n \in ListNames : ~ AssembledFor(n, s)
      BY <2>1 DEF BelongsTo
    <3>2. (\A n \in ListNames : ~ AssembledFor(n, s)) <=> m = Generic
      BY <1>5, <1>6
    <3> QED BY <2>1, <3>1, <3>2
  <2>2. CASE l # Generic
    BY <1>5, <2>2 DEF BelongsTo
  <2> QED BY <2>1, <2>2
<1>8. BelongsTo(l, s) <=> ListsFor(builder, s) = {l}
  BY <1>2, <1>7
<1> QED BY <1>8 DEF s

LEMMA SortedAsAssembledHolds == ASSUME IInv PROVE SortedAsAssembled
<1>1. traceRead \in Nat
  BY EntriesType DEF IInv, Types
<1>2. ASSUME NEW l \in ListNames, NEW n \in 0 .. traceRead
      PROVE  Belonging(l, n) = InList(l, n)
  <2>1. \A k \in 1 .. n : BelongsTo(l, States[k]) <=> ListsFor(builder, States[k]) = {l}
    <3>1. 1 .. n \subseteq 1 .. traceRead
      BY <1>1
    <3> QED BY <3>1, BelongingIs
  <2> QED BY <2>1 DEF Belonging, InList
<1>3. ASSUME NEW l \in ListNames
      PROVE  /\ Len(instructions.lists[l]) = Cardinality(Belonging(l, traceRead))
             /\ \A k \in Belonging(l, traceRead) :
                  instructions.lists[l][Cardinality(Belonging(l, k))] = States[k]
  <2>1. Belonging(l, traceRead) = InList(l, traceRead)
    BY <1>1, <1>2
  <2>2. \A k \in Belonging(l, traceRead) : Belonging(l, k) = InList(l, k)
    <3>1. \A k \in Belonging(l, traceRead) : k \in 0 .. traceRead
      BY <1>1 DEF Belonging
    <3> QED BY <1>2, <3>1
  <2> QED BY <2>1, <2>2, ListsFollowTraceHolds DEF ListsFollowTrace
<1> QED BY <1>3 DEF SortedAsAssembled

(* Each list of Instructions has, in the order of the trace, the states    *)
(* whose instruction was assembled from what the list is for, whatever is  *)
(* in the files (SortedAsAssembled).                                       *)
THEOREM EveryListIsAsAssembled == Spec => []SortedAsAssembled
BY Invariant, SortedAsAssembledHolds, PTL DEF VInv

-----------------------------------------------------------------------------
(* When push_instr panics.                                                 *)

LEMMA UnreadableIs ==
  ASSUME NEW s, NEW inst \in M31, MemGet(builder, s.pc) = {Felt(inst)}
  PROVE  Unreadable(s) <=> Taken(builder, DecodeInst(inst), s) = {}
<1> DEFINE i == DecodeInst(inst)
<1>1. inst \in Nat /\ i \in Encodable
  BY DecodeIs, PAssumption DEF M31
<1>2. WordAt(s.pc) # {}
  BY WordAtIs
<1>3. \A l : Jumps(l, s) = {i} \cap Written(l)
  BY JumpsAre
<1>4. Tested(i, s) = MemGet(builder, (IF "dst_base_fp" \in i.flags THEN s.fp ELSE s.ap)
                                       + i.offset0)
  BY DEF Tested
<1>5. Taken(builder, i, s) = IF IsJnzImm(i)
                                THEN {v # QZero : v \in Tested(i, s)} ELSE {FALSE}
  BY <1>4 DEF Taken
<1>6. IsJnzImm(i) <=> Fits(i, "jnz_imm")
  BY DEF Fits
<1> HIDE DEF i
<1>7. (\E l \in ListNames : IsJump(l) /\ i \in Written(l)) <=> IsJnzImm(i)
  <2>1. ASSUME NEW l \in ListNames, IsJump(l), i \in Written(l)
        PROVE  IsJnzImm(i)
    <3>1. l # Generic
      BY <2>1 DEF IsJump, Generic, List
    <3>2. Fits(i, l[1])
      <4>1. (l[1] = "jnz_imm" => (TRUE <=> (l[2] \div 2) % 2 = 1))
            \/ (l[1] = "jnz_imm" => (FALSE <=> (l[2] \div 2) % 2 = 1))
        OBVIOUS
      <4> QED BY <1>1, <2>1, <3>1, <4>1, PlacesAreWritten
    <3> QED BY <1>6, <2>1, <3>2 DEF IsJump
  <2>2. ASSUME IsJnzImm(i)
        PROVE  \E l \in ListNames : IsJump(l) /\ i \in Written(l)
    <3> DEFINE l == ListOf(i, TRUE)
    <3>1. l[1] = "jnz_imm" /\ l \in ListNames
      <4>1. "jnz_imm" \in Kinds
        BY DEF Kinds
      <4> QED BY <1>6, <2>2, <4>1, ListOfFits, ListOfType
    <3>2. l # Generic
      <4> HIDE DEF l
      <4> QED BY <3>1 DEF Generic, List
    <3>3. i \in Written(l)
      BY <1>1, <3>1, <3>2, ListOfWritten
    <3> QED BY <3>1, <3>3 DEF IsJump
  <2> QED BY <2>1, <2>2
<1>8. Unreadable(s) <=> IsJnzImm(i) /\ Tested(i, s) = {}
  BY <1>2, <1>3, <1>7 DEF Unreadable
<1>9. Unreadable(s) <=> Taken(builder, i, s) = {}
  BY <1>5, <1>8
<1> QED BY <1>9 DEF i

LEMMA PushedNothing ==
  ASSUME IInv, NEW s, NEW lists, PushInstr(builder, lists, s) = {}
  PROVE  Unreadable(s)
<1>1. CASE WordAt(s.pc) = {}
  BY <1>1 DEF Unreadable
<1>2. CASE WordAt(s.pc) # {}
  <2>1. IsBuilder(builder) /\ InstsOK(builder)
    BY DEF IInv, BuilderOK
  <2>2. PICK q \in MemGet(builder, s.pc) \cap BaseField : TRUE
    BY <1>2 DEF WordAt
  <2>3. PICK g \in GetInst(builder, s.pc) : TRUE
    <3>1. CASE s.pc \in DOMAIN builder.inst_cache
      BY <3>1 DEF GetInst
    <3>2. CASE s.pc \notin DOMAIN builder.inst_cache
      BY <2>2, <3>2 DEF GetInst
    <3> QED BY <3>1, <3>2
  <2>4. /\ g.inst \in M31 /\ MemGet(builder, s.pc) = {Felt(g.inst)}
        /\ SameCells(builder, g.builder)
    BY <2>1, <2>3, GetInstIs
  <2>5. Taken(g.builder, DecodeInst(g.inst), s) = Taken(builder, DecodeInst(g.inst), s)
    <3>1. \A a : MemGet(g.builder, a) = MemGet(builder, a)
      BY <2>4, SameReads
    <3> QED BY <3>1 DEF Taken
  <2>6. ASSUME NEW t \in Taken(g.builder, DecodeInst(g.inst), s)
        PROVE  FALSE
    <3> DEFINE i == DecodeInst(g.inst)
               pushed(u) == [builder |-> g.builder,
                             lists |-> [lists EXCEPT ![ListOf(i, u)] = Append(@, s)]]
    <3>1. {pushed(u) : u \in Taken(g.builder, i, s)} \subseteq PushInstr(builder, lists, s)
      BY <2>3 DEF PushInstr
    <3> HIDE DEF pushed
    <3>2. pushed(t) \in PushInstr(builder, lists, s)
      BY <2>6, <3>1
    <3> QED BY <3>2
  <2> QED BY <2>4, <2>5, <2>6, UnreadableIs
<1> QED BY <1>1, <1>2

(* Where the import stopped, if not at the segments.                       *)
PanicOK ==
  status = "panic" /\ HasSegments /\ EndAddrHolds /\ HasRangeCheck =>
    /\ traceRead < Len(input.trace)
    /\ Unreadable(StateOf(input.trace[traceRead + 1]))

LEMMA NextPanic ==
  ASSUME VInv, PanicOK, [Next]_vars
  PROVE  PanicOK'
<1>1. CASE \/ Open \/ OpenFails \/ ImportMemory \/ EndMemory
           \/ (ImportTrace /\ ReadTrace) \/ Finish
  BY <1>1 DEF Open, OpenFails, ImportMemory, ReadMemory, EndMemory, ReadTrace, Sorting,
              Finish, PanicOK
<1>2. CASE OpenPanics
  BY <1>2 DEF OpenPanics, PanicOK, HasSegments, EndAddrHolds
<1>3. CASE FinishPanics
  BY <1>3 DEF FinishPanics, PanicOK, HasRangeCheck
<1>4. CASE ImportTrace /\ SortPanics
  <2> DEFINE s == StateOf(input.trace[traceRead + 1])
  <2>1. Unreadable(s)
    <3>1. PushInstr(builder, instructions.lists, s) = {}
      BY <1>4 DEF SortPanics, Pushed
    <3> HIDE DEF s
    <3> QED BY <3>1, PushedNothing DEF VInv
  <2>2. /\ UNCHANGED <<input, memRead, traceRead, builder, instructions>>
        /\ traceRead < Len(input.trace)
    BY <1>4 DEF SortPanics, Sorting
  <2>3. \A r : Unreadable(r)' <=> Unreadable(r)
    BY <2>2 DEF Unreadable, WordAt, Jumps, Tested
  <2> QED BY <2>1, <2>2, <2>3 DEF PanicOK
<1>5. CASE UNCHANGED vars
  <2>1. UNCHANGED <<input, status, memRead, traceRead, builder, instructions>>
    BY <1>5 DEF vars, ivars
  <2> QED BY <2>1 DEF PanicOK, Unreadable, WordAt, Jumps, Tested, HasSegments,
                      EndAddrHolds, HasRangeCheck
<1> QED BY <1>1, <1>2, <1>3, <1>4, <1>5 DEF Next, ImportTrace

LEMMA StopsHolds ==
  ASSUME IInv, PanicOK
  PROVE  StopsOnMissingCell
<1>1. ASSUME NEW k \in DOMAIN States
      PROVE  ~ Unreadable(States[k])
  <2>1. k \in 1 .. traceRead
    BY DEF States
  <2> DEFINE s == States[k]
  <2>2. PICK inst \in M31 : MemGet(builder, s.pc) = {Felt(inst)}
    BY <2>1, ReadStateIs
  <2>3. PICK l \in ListNames : ListsFor(builder, s) = {l}
    BY <2>1, ReadStateIs
  <2> HIDE DEF s
  <2>4. ListsFor(builder, s) = {ListOf(DecodeInst(inst), t) :
                                  t \in Taken(builder, DecodeInst(inst), s)}
    <3>1. Felt(inst)[1][1] = inst
      BY DEF Felt
    <3> QED BY <2>2, <3>1 DEF ListsFor
  <2>5. Taken(builder, DecodeInst(inst), s) # {}
    BY <2>3, <2>4
  <2>6. ~ Unreadable(s)
    BY <2>2, <2>5, UnreadableIs
  <2> QED BY <2>6 DEF s
<1> QED BY <1>1 DEF PanicOK, StopsOnMissingCell

(* The import stops at the first state that push_instr cannot take, and,   *)
(* once the segments are what they should be, for no other reason          *)
(* (StopsOnMissingCell).                                                   *)
THEOREM StopsOnlyAtMissingCells == Spec => []StopsOnMissingCell
<1>1. Init => PanicOK
  BY DEF Init, PanicOK
<1>2. VInv /\ PanicOK /\ [Next]_vars => PanicOK'
  BY NextPanic
<1>3. VInv /\ PanicOK => StopsOnMissingCell
  BY StopsHolds DEF VInv
<1> QED BY <1>1, <1>2, <1>3, Invariant, PTL DEF Spec
=============================================================================
