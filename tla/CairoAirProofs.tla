--------------------------- MODULE CairoAirProofs ---------------------------
(***************************************************************************)
(* What a claim states, for every run and every public memory: the proofs  *)
(* go on from the invariant of the import, which no step of prove_cairo    *)
(* disturbs.  And what is committed: cells laid out by powers of two, and  *)
(* when the lookups balance.                                               *)
(***************************************************************************)
EXTENDS CairoAir, VmImportProofs

Importing == {"open", "memory", "trace"}

(* An address that was written was written a last time.                    *)
LastsExist ==
  \A k \in 1 .. memRead : \E j \in 1 .. memRead :
    /\ input.memory[j].addr = input.memory[k].addr
    /\ LastOf(input.memory, memRead, j)

(* Nothing is proved before the import has ended, and then the public      *)
(* addresses are those of the file, cut to 32 bits.                        *)
StagesOK ==
  /\ status \in Importing \cup {"imported"} => NothingProved
  /\ status = "public" => used = 0
  /\ status \notin Importing \cup {"error", "panic"} =>
       public_mem_addresses = [k \in DOMAIN input.public |-> input.public[k] % WordSize]

UsesOf(n, a) == {k \in 1 .. n : public_mem_addresses[k] = a}

CountsOK ==
  /\ used \in Nat
  /\ \A g \in generator :
       /\ g = [values |-> g.values, multiplicities |-> g.multiplicities]
       /\ g.multiplicities = [a \in DOMAIN g.multiplicities |-> Cardinality(UsesOf(used, a))]

AInv == VInv /\ LastsExist /\ StagesOK /\ ClaimIsTheFile /\ CountsOK

-----------------------------------------------------------------------------
LEMMA AInitInv == ASSUME AInit PROVE AInv
<1>1. VInv
  BY InitInv DEF AInit
<1>2. NothingProved /\ memRead = 0 /\ status = "open"
  BY DEF AInit, Init, NothingRead
<1> QED BY <1>1, <1>2
        DEF AInv, LastsExist, StagesOK, ClaimIsTheFile, CountsOK, NothingProved, Importing

(* A step of the import other than ReadMemory leaves the entries.          *)
LEMMA LastsStay ==
  ASSUME LastsExist, UNCHANGED <<input, memRead>>
  PROVE  LastsExist'
BY DEF LastsExist, LastOf

LEMMA LastsGrow ==
  ASSUME IInv, LastsExist, ReadMemory
  PROVE  LastsExist'
<1> DEFINE file == input.memory
           n == memRead
<1>1. n \in Nat /\ memRead' = n + 1 /\ input' = input
  BY EntriesType DEF IInv, Types, ReadMemory
<1>2. SUFFICES ASSUME NEW k \in 1 .. n + 1
               PROVE  \E j \in 1 .. n + 1 : /\ file[j].addr = file[k].addr
                                            /\ LastOf(file, n + 1, j)
  BY <1>1 DEF LastsExist
<1>3. LastOf(file, n + 1, n + 1)
  BY <1>1 DEF LastOf
<1>4. CASE file[k].addr = file[n + 1].addr
  BY <1>1, <1>3, <1>4
<1>5. CASE file[k].addr # file[n + 1].addr
  <2>1. k \in 1 .. n
    BY <1>1, <1>5
  <2>2. PICK j \in 1 .. n : file[j].addr = file[k].addr /\ LastOf(file, n, j)
    BY <2>1 DEF LastsExist
  <2>3. LastOf(file, n + 1, j)
    BY <1>1, <1>5, <2>2 DEF LastOf
  <2> QED BY <1>1, <2>2, <2>3
<1> QED BY <1>4, <1>5

LEMMA ImportStepInv == ASSUME AInv, ImportStep PROVE AInv'
<1>1. Next /\ UNCHANGED pvars
  BY DEF ImportStep
<1>2. VInv'
  BY <1>1, NextInv DEF AInv
<1>3. LastsExist'
  <2>1. CASE ReadMemory
    BY <2>1, LastsGrow DEF AInv, VInv
  <2>2. CASE ~ ReadMemory
    BY <1>1, <2>2, LastsStay
       DEF AInv, Next, Open, OpenPanics, OpenFails, ImportMemory, EndMemory,
           ImportTrace, ReadTrace, SortPanics, Finish, FinishPanics
  <2> QED BY <2>1, <2>2
<1>4. /\ status \in Importing
      /\ \/ status' \in Importing \cup {"error", "panic"}
         \/ Finish
  BY <1>1 DEF Importing, Next, Open, OpenPanics, OpenFails, ImportMemory, ReadMemory,
              EndMemory, ImportTrace, ReadTrace, SortPanics, Sorting, Finish,
              FinishPanics
<1>5. NothingProved /\ NothingProved'
  BY <1>1, <1>4 DEF AInv, StagesOK, NothingProved, pvars
<1>6. StagesOK'
  BY <1>4, <1>5 DEF StagesOK, Finish, Importing
<1>7. ClaimIsTheFile' /\ CountsOK'
  BY <1>5 DEF NothingProved, ClaimIsTheFile, CountsOK
<1> QED BY <1>2, <1>3, <1>6, <1>7 DEF AInv

-----------------------------------------------------------------------------
(* No step of the proof writes what the import left.                       *)
Imported == <<input, memRead, traceRead, builder, instructions,
              public_mem_addresses, range_check_builtin>>

LEMMA ProofStepKeeps ==
  ASSUME AInv, UNCHANGED Imported, status' \notin {"open", "memory"}
  PROVE  VInv' /\ LastsExist'
<1>1. VInv'
  BY VmStageInv DEF AInv, Imported, VInv, VmTypes
<1>2. LastsExist'
  BY LastsStay DEF AInv, Imported
<1> QED BY <1>1, <1>2

LEMMA ClaimStays ==
  ASSUME ClaimIsTheFile, UNCHANGED <<input, memRead, public_memory>>
  PROVE  ClaimIsTheFile'
<1>1. Entries' = Entries
  BY DEF Entries
<1>2. \A k : LastEntry(k)' <=> LastEntry(k)
  BY <1>1 DEF LastEntry
<1>3. \A a : LastValues(a)' = LastValues(a)
  BY <1>1, <1>2 DEF LastValues
<1> QED BY <1>1, <1>3 DEF ClaimIsTheFile

(* What the file says last of an address is one value, the one that is     *)
(* read.                                                                   *)
LEMMA LastIsRead ==
  ASSUME IInv, LastsExist, NEW a \in Nat, MemGet(builder, a) # {}
  PROVE  Reads(builder, a, CHOOSE q \in IF LastValues(a) # {} THEN LastValues(a)
                                         ELSE {Reduce(Entries[1].val)} : TRUE)
<1> DEFINE file == input.memory
<1>1. memRead \in Nat
  BY WrittenReads
<1>2. LastValues(a) = {Reduce(file[k].val) :
                        k \in {j \in 1 .. memRead : file[j].addr = a
                                                     /\ LastOf(file, memRead, j)}}
  BY <1>1, EntriesAre DEF LastValues
<1>3. \A k \in 1 .. memRead : LastOf(file, memRead, k) =>
        Reads(builder, file[k].addr, Reduce(file[k].val))
  BY WrittenReads
<1>4. CASE \E k \in 1 .. memRead : file[k].addr = a
  <2>1. PICK k \in 1 .. memRead : file[k].addr = a /\ LastOf(file, memRead, k)
    BY <1>4 DEF LastsExist
  <2> DEFINE v == Reduce(file[k].val)
  <2>2. Reads(builder, a, v)
    BY <1>3, <2>1
  <2>3. \A q \in LastValues(a) : Reads(builder, a, q)
    BY <1>2, <1>3
  <2>4. v \in LastValues(a)
    BY <1>2, <2>1
  <2> HIDE DEF v
  <2>5. LastValues(a) = {v}
    BY <2>2, <2>3, <2>4 DEF Reads
  <2> QED BY <2>2, <2>5
<1>5. CASE \A k \in 1 .. memRead : file[k].addr # a
  <2>1. LastValues(a) = {}
    BY <1>2, <1>5
  <2>2. a \in DOMAIN builder.address_to_value_index
    BY DEF MemGet
  <2>3. Reads(builder, a, Reduce(file[1].val))
    BY <1>5, <2>2, WrittenReads
  <2>4. 1 \in 1 .. memRead
    BY <1>1, <2>2, WrittenReads
  <2>5. Entries[1] = file[1]
    BY <1>1, <2>4, EntriesAre
  <2> QED BY <2>1, <2>3, <2>5
<1> QED BY <1>4, <1>5

LEMMA ExtractInv == ASSUME AInv, ExtractPublicMemory PROVE AInv'
<1>1. /\ UNCHANGED Imported /\ UNCHANGED <<generator, used, trace>>
      /\ status = "imported" /\ status' \in {"public", "panic"}
      /\ public_memory' = IF Readable THEN PublicMemory ELSE << >>
  BY DEF ExtractPublicMemory, Imported
<1>2. VInv' /\ LastsExist'
  BY <1>1, ProofStepKeeps
<1>3. NothingProved
  BY <1>1 DEF AInv, StagesOK
<1>4. public_mem_addresses = [k \in DOMAIN input.public |-> input.public[k] % WordSize]
  BY <1>1 DEF AInv, StagesOK, Importing
<1>5. StagesOK'
  BY <1>1, <1>3, <1>4 DEF StagesOK, Imported, Importing, NothingProved
<1>6. ClaimIsTheFile'
  <2>1. CASE Readable
    <3> DEFINE Value(a) == CHOOSE q \in IF LastValues(a) # {} THEN LastValues(a)
                                        ELSE {Reduce(Entries[1].val)} : TRUE
    <3>1. ASSUME NEW k \in DOMAIN public_mem_addresses
          PROVE  PublicMemory[k] = <<(input.public[k] % WordSize) % P,
                                     Value(input.public[k] % WordSize)>>
      <4> DEFINE a == public_mem_addresses[k]
      <4>1. a = input.public[k] % WordSize
        BY <1>4
      <4>2. a \in Nat
        <5>1. public_mem_addresses \in Seq(Word)
          BY DEF AInv, VInv, VmTypes
        <5>2. a \in Word
          BY <5>1
        <5> QED BY <5>2, WordsAreNat
      <4>3. MemGet(builder, a) # {}
        BY <2>1 DEF Readable
      <4> HIDE DEF a, Value
      <4>4. Reads(builder, a, Value(a))
        BY <4>2, <4>3, LastIsRead DEF AInv, VInv, Value
      <4>5. CellValue(builder, a) = Value(a)
        BY <4>4 DEF Reads, CellValue
      <4>6. PublicMemory[k] = <<a % P, CellValue(builder, a)>>
        BY DEF PublicMemory, a
      <4> QED BY <4>1, <4>5, <4>6
    <3>2. ClaimIsTheFile' <=> \A k \in DOMAIN PublicMemory :
            PublicMemory[k] = <<(input.public[k] % WordSize) % P,
                                Value(input.public[k] % WordSize)>>
      <4>1. public_memory' = PublicMemory /\ input' = input /\ Entries' = Entries
        BY <1>1, <2>1 DEF Imported, Entries
      <4>2. \A k : LastEntry(k)' <=> LastEntry(k)
        BY <1>1, <4>1 DEF LastEntry, Imported
      <4>3. \A a : LastValues(a)' = LastValues(a)
        BY <4>1, <4>2 DEF LastValues
      <4> HIDE DEF PublicMemory
      <4> QED BY <4>1, <4>3 DEF ClaimIsTheFile
    <3>3. DOMAIN PublicMemory = DOMAIN public_mem_addresses
      BY DEF PublicMemory
    <3> HIDE DEF Value
    <3> QED BY <3>1, <3>2, <3>3
  <2>2. CASE ~ Readable
    BY <1>1, <2>2 DEF ClaimIsTheFile
  <2> QED BY <2>1, <2>2
<1>7. CountsOK'
  BY <1>1, <1>3 DEF CountsOK, NothingProved
<1> QED BY <1>2, <1>5, <1>6, <1>7 DEF AInv

LEMMA GeneratorInv == ASSUME AInv, NewClaimGenerator PROVE AInv'
<1>1. /\ UNCHANGED Imported /\ UNCHANGED <<public_memory, used, trace>>
      /\ status = "public" /\ status' \in {"inputs", "panic"}
      /\ generator' = NewGenerator(builder)
  BY DEF NewClaimGenerator, Imported
<1>2. VInv' /\ LastsExist'
  BY <1>1, ProofStepKeeps
<1>3. StagesOK'
  BY <1>1 DEF AInv, StagesOK, Imported, Importing
<1>4. ClaimIsTheFile'
  BY <1>1, ClaimStays DEF AInv, Imported
<1>5. used = 0
  BY <1>1 DEF AInv, StagesOK
<1>6. CountsOK'
  <2>1. \A a : UsesOf(0, a) = {}
    BY DEF UsesOf
  <2>2. UNCHANGED <<public_mem_addresses, used>>
    BY <1>1 DEF Imported
  <2>3. \A a : Cardinality({k \in 1 .. used' : public_mem_addresses'[k] = a}) = 0
    BY <1>5, <2>1, <2>2, FS_EmptySet DEF UsesOf
  <2>4. ASSUME NEW g \in generator'
        PROVE  g = [values |-> Packs(builder), multiplicities |-> [a \in 0 .. (Size(builder) - 1) |-> 0]]
    BY <1>1, <2>4 DEF NewGenerator
  <2>5. \A g \in generator' :
          /\ g = [values |-> g.values, multiplicities |-> g.multiplicities]
          /\ g.multiplicities = [a \in DOMAIN g.multiplicities |-> 0]
    <3> DEFINE v == Packs(builder)  cells == 0 .. (Size(builder) - 1)
               m == [a \in cells |-> 0]
    <3> HIDE DEF v, cells
    <3>1. m = [a \in DOMAIN m |-> 0]
      OBVIOUS
    <3> HIDE DEF m
    <3>2. \A g \in generator' : g = [values |-> v, multiplicities |-> m]
      BY <2>4 DEF v, m, cells
    <3> QED BY <3>1, <3>2
  <2> QED BY <1>5, <2>2, <2>3, <2>5 DEF CountsOK, UsesOf
<1> QED BY <1>2, <1>3, <1>4, <1>6 DEF AInv

(* One more use adds one to the count of its address and of no other.      *)
LEMMA AddInputInv == ASSUME AInv, AddPublicInput PROVE AInv'
<1> DEFINE i == public_mem_addresses[used + 1]
<1>1. /\ UNCHANGED Imported /\ UNCHANGED <<status, public_memory, trace>>
      /\ status = "inputs" /\ used' = used + 1
      /\ generator' = {AddInputs(g, i) : g \in generator}
  BY DEF AddPublicInput, Imported, MemoryIndex, vars, ivars
<1>2. VInv' /\ LastsExist'
  BY <1>1, ProofStepKeeps
<1>3. StagesOK'
  BY <1>1 DEF AInv, StagesOK, Imported, Importing
<1>4. ClaimIsTheFile'
  BY <1>1, ClaimStays DEF AInv, Imported
<1>5. used \in Nat
  BY DEF AInv, CountsOK
<1>6. ASSUME NEW a
      PROVE  Cardinality(UsesOf(used + 1, a))
               = IF a = i THEN Cardinality(UsesOf(used, a)) + 1
                 ELSE Cardinality(UsesOf(used, a))
  <2>1. IsFiniteSet(UsesOf(used, a)) /\ used + 1 \notin UsesOf(used, a)
    <3>1. IsFiniteSet(1 .. used)
      BY <1>5, FS_Interval
    <3> QED BY <1>5, <3>1, FS_Subset DEF UsesOf
  <2>2. UsesOf(used + 1, a) = IF a = i THEN UsesOf(used, a) \cup {used + 1}
                              ELSE UsesOf(used, a)
    BY <1>5 DEF UsesOf
  <2> QED BY <2>1, <2>2, FS_AddElement
<1>7. ASSUME NEW h \in generator'
      PROVE  /\ h = [values |-> h.values, multiplicities |-> h.multiplicities]
             /\ h.multiplicities =
                  [a \in DOMAIN h.multiplicities |-> Cardinality(UsesOf(used + 1, a))]
  <2>1. PICK g \in generator : h = AddInputs(g, i)
    BY <1>1
  <2> DEFINE m == g.multiplicities
             n == [m EXCEPT ![i] = @ + 1]
  <2>2. /\ g = [values |-> g.values, multiplicities |-> m]
        /\ m = [a \in DOMAIN m |-> Cardinality(UsesOf(used, a))]
    BY DEF AInv, CountsOK
  <2>3. h = [values |-> g.values, multiplicities |-> n]
    BY <2>1, <2>2 DEF AddInputs
  <2> HIDE DEF m
  <2>4. n = [a \in DOMAIN n |-> Cardinality(UsesOf(used + 1, a))]
    BY <1>6, <2>2
  <2> HIDE DEF n
  <2> QED BY <2>3, <2>4
<1>8. CountsOK'
  <2>1. \A a : UsesOf(used, a)' = UsesOf(used + 1, a)
    BY <1>1 DEF UsesOf, Imported
  <2> QED BY <1>1, <1>5, <1>7, <2>1 DEF CountsOK
<1> QED BY <1>2, <1>3, <1>4, <1>8 DEF AInv

(* Committing to the trace and going through it write neither.             *)
LEMMA CommitInv ==
  ASSUME AInv, CommitTrace \/ WriteInteractionTrace
  PROVE  AInv'
<1>1. /\ UNCHANGED Imported /\ UNCHANGED <<public_memory, generator, used>>
      /\ status \in {"inputs", "drawn"}
      /\ status' \in {"drawn", "interaction", "panic"}
  BY DEF CommitTrace, WriteInteractionTrace, Imported, pvars
<1>2. VInv' /\ LastsExist'
  BY <1>1, ProofStepKeeps
<1>3. StagesOK'
  BY <1>1 DEF AInv, StagesOK, Imported, Importing
<1>4. ClaimIsTheFile' /\ CountsOK'
  BY <1>1, ClaimStays DEF AInv, Imported, CountsOK, UsesOf
<1> QED BY <1>2, <1>3, <1>4 DEF AInv

LEMMA AStutterInv == ASSUME AInv, UNCHANGED avars PROVE AInv'
<1>1. UNCHANGED Imported /\ UNCHANGED <<status, public_memory, generator, used, trace>>
  BY DEF avars, vars, ivars, pvars, Imported
<1>2. VInv' /\ LastsExist'
  BY <1>1, StutterInv, LastsStay DEF AInv, avars, Imported
<1>3. StagesOK'
  BY <1>1 DEF AInv, StagesOK, NothingProved, Imported
<1>4. ClaimIsTheFile' /\ CountsOK'
  BY <1>1, ClaimStays DEF AInv, Imported, CountsOK, UsesOf
<1> QED BY <1>2, <1>3, <1>4 DEF AInv

(* The invariant of the whole, from the files to the interaction trace.    *)
THEOREM AInvariant == ASpec => []AInv
<1>1. AInit => AInv
  BY AInitInv
<1>2. AInv /\ [ANext]_avars => AInv'
  BY ImportStepInv, ExtractInv, GeneratorInv, AddInputInv, CommitInv, AStutterInv DEF ANext
<1> QED BY <1>1, <1>2, PTL DEF ASpec

-----------------------------------------------------------------------------
(* Whatever run is proved, the claim states of each public address what    *)
(* the memory file says of it last (ClaimIsTheFile).                       *)
THEOREM ClaimStatesTheFile == ASpec => []ClaimIsTheFile
BY AInvariant, PTL DEF AInv

(* Whatever run is proved, an address is counted once for each time that   *)
(* it was looked up (UsesCounted).                                         *)
THEOREM UsesAreCounted == ASpec => []UsesCounted
<1>1. ASSUME AInv
      PROVE  UsesCounted
  BY <1>1 DEF AInv, CountsOK, UsesOf, UsesCounted
<1> QED BY <1>1, AInvariant, PTL

-----------------------------------------------------------------------------
(* The powers of two.                                                      *)
Doubles(f, n) == f = [k \in 0 .. n |-> IF k = 0 THEN 1 ELSE 2 * f[k - 1]]

LEMMA DoublesAre ==
  ASSUME NEW f, NEW n \in Nat, Doubles(f, n)
  PROVE  /\ DOMAIN f = 0 .. n
         /\ f[0] = 1
         /\ \A k \in 1 .. n : f[k] = 2 * f[k - 1]
BY DEF Doubles

LEMMA DoublesExist == ASSUME NEW n \in Nat PROVE \E f : Doubles(f, n)
<1> DEFINE T == {m \in Nat : ~ \E f : Doubles(f, m)}
<1>1. SUFFICES ASSUME T # {} PROVE FALSE
  OBVIOUS
<1>2. PICK m \in T : \A x \in T : m <= x
  BY <1>1, LeastNat
<1>3. m # 0
  <2> DEFINE f == [k \in 0 .. 0 |-> 1]
  <2>1. Doubles(f, 0)
    BY DEF Doubles
  <2> QED BY <2>1
<1>4. PICK f : Doubles(f, m - 1)
  BY <1>2, <1>3
<1> DEFINE g == [k \in 0 .. m |-> IF k = m THEN 2 * f[m - 1] ELSE f[k]]
<1>5. /\ f[0] = 1
      /\ \A k \in 1 .. m - 1 : f[k] = 2 * f[k - 1]
  BY <1>2, <1>3, <1>4, DoublesAre
<1>6. ASSUME NEW k \in 0 .. m
      PROVE  g[k] = IF k = 0 THEN 1 ELSE 2 * g[k - 1]
  BY <1>2, <1>3, <1>5
<1> HIDE DEF g
<1>7. g = [k \in 0 .. m |-> g[k]]
  BY DEF g
<1>8. Doubles(g, m)
  BY <1>6, <1>7 DEF Doubles
<1> QED BY <1>2, <1>8

LEMMA PowersAre ==
  ASSUME NEW n \in Nat
  PROVE  \E f : Doubles(f, n) /\ PowersOfTwo(n) = {f[k] : k \in 0 .. n}
<1> DEFINE f == CHOOSE g : Doubles(g, n)
<1>1. Doubles(f, n)
  BY DoublesExist
<1>2. PowersOfTwo(n) = {f[k] : k \in 0 .. n}
  BY DEF PowersOfTwo, Doubles
<1> QED BY <1>1, <1>2

LEMMA DoublesGrow ==
  ASSUME NEW f, NEW n \in Nat, Doubles(f, n), NEW k \in 0 .. n
  PROVE  f[k] \in Nat /\ f[k] >= k + 1
<1> DEFINE T == {j \in 0 .. n : ~ (f[j] \in Nat /\ f[j] >= j + 1)}
<1>1. SUFFICES ASSUME T # {} PROVE FALSE
  OBVIOUS
<1>2. PICK j \in T : \A x \in T : j <= x
  <2>1. T \subseteq Nat
    OBVIOUS
  <2> HIDE DEF T
  <2> QED BY <1>1, <2>1, LeastNat
<1>3. j # 0
  BY <1>2, DoublesAre
<1>4. f[j - 1] \in Nat /\ f[j - 1] >= j
  BY <1>2, <1>3
<1>5. f[j] = 2 * f[j - 1]
  BY <1>2, <1>3, DoublesAre
<1> QED BY <1>2, <1>3, <1>4, <1>5

(* A power of two is positive, and is 1 or twice another.                  *)
LEMMA PowerIs ==
  ASSUME NEW n \in Nat, NEW x \in PowersOfTwo(n)
  PROVE  /\ x \in Nat \ {0}
         /\ x = 1 \/ \E y \in PowersOfTwo(n) : x = 2 * y
<1>1. PICK f : Doubles(f, n) /\ PowersOfTwo(n) = {f[k] : k \in 0 .. n}
  BY PowersAre
<1>2. PICK k \in 0 .. n : x = f[k]
  BY <1>1
<1>3. x \in Nat /\ x # 0
  BY <1>1, <1>2, DoublesGrow
<1>4. CASE k = 0
  BY <1>1, <1>2, <1>3, <1>4, DoublesAre
<1>5. CASE k # 0
  <2>1. x = 2 * f[k - 1] /\ k - 1 \in 0 .. n
    BY <1>1, <1>2, <1>5, DoublesAre
  <2> QED BY <1>1, <1>3, <2>1
<1> QED BY <1>4, <1>5

(* Of two powers of two, the smaller divides the larger: the least one     *)
(* that has a smaller one that does not would have half a power that has.  *)
LEMMA PowersDivide ==
  ASSUME NEW m \in Nat, NEW n \in Nat,
         NEW p \in PowersOfTwo(m), NEW q \in PowersOfTwo(n), p <= q
  PROVE  \E c \in Nat \ {0} : q = c * p
<1> DEFINE Divides(x, y) == \E c \in Nat \ {0} : y = c * x
           T == {y \in PowersOfTwo(n) : \E x \in PowersOfTwo(m) : x <= y /\ ~ Divides(x, y)}
<1>1. SUFFICES ASSUME T # {} PROVE FALSE
  OBVIOUS
<1>2. PICK y \in T : \A z \in T : y <= z
  <2>1. T \subseteq Nat
    BY PowerIs
  <2> HIDE DEF T
  <2> QED BY <1>1, <2>1, LeastNat
<1>3. PICK x \in PowersOfTwo(m) : x <= y /\ ~ Divides(x, y)
  BY <1>2
<1>4. x \in Nat \ {0} /\ y \in Nat \ {0}
  BY <1>2, <1>3, PowerIs
<1>5. x # y
  <2>1. y = 1 * y
    BY <1>4
  <2> QED BY <1>3, <2>1
<1>6. PICK h \in PowersOfTwo(n) : y = 2 * h
  BY <1>2, <1>3, <1>4, <1>5, PowerIs
<1>7. h \in Nat \ {0} /\ h < y /\ h \notin T
  <2>1. h \in Nat \ {0} /\ h < y
    BY <1>4, <1>6, PowerIs
  <2>2. y \in Nat
    BY <1>4
  <2> HIDE DEF T
  <2> QED BY <1>2, <2>1, <2>2
<1>8. CASE x <= h
  <2>1. PICK c \in Nat \ {0} : h = c * x
    BY <1>3, <1>6, <1>7, <1>8
  <2>2. y = (2 * c) * x /\ 2 * c \in Nat \ {0}
    BY <1>4, <1>6, <2>1
  <2> QED BY <1>3, <2>2
<1>9. CASE h < x
  <2>1. PICK g \in PowersOfTwo(m) : x = 2 * g
    BY <1>3, <1>4, <1>7, <1>9, PowerIs
  <2>2. g \in Nat \ {0} /\ g < h
    BY <1>3, <1>4, <1>5, <1>6, <1>7, <2>1, PowerIs
  <2>3. PICK c \in Nat \ {0} : h = c * g
    BY <1>6, <1>7, <2>2
  <2>4. y = c * x
    BY <1>4, <1>6, <2>1, <2>2, <2>3
  <2> QED BY <1>3, <2>3, <2>4
<1> QED BY <1>4, <1>7, <1>8, <1>9

LEMMA NextPowerIs ==
  ASSUME NEW n \in Nat
  PROVE  NextPowerOfTwo(n) \in PowersOfTwo(n) /\ NextPowerOfTwo(n) >= n
<1> DEFINE powers == {p \in PowersOfTwo(n) : p >= n}
<1>1. powers \subseteq Nat
  BY PowerIs
<1>2. powers # {}
  <2>1. PICK f : Doubles(f, n) /\ PowersOfTwo(n) = {f[k] : k \in 0 .. n}
    BY PowersAre
  <2>2. f[n] \in PowersOfTwo(n) /\ f[n] >= n + 1 /\ f[n] \in Nat
    BY <2>1, DoublesGrow
  <2> QED BY <2>2
<1>3. \E p \in powers : \A q \in powers : p <= q
  <2> HIDE DEF powers
  <2> QED BY <1>1, <1>2, LeastNat
<1>4. NextPowerOfTwo(n) = CHOOSE p \in powers : \A q \in powers : p <= q
  BY DEF NextPowerOfTwo
<1>5. NextPowerOfTwo(n) \in powers
  <2> HIDE DEF powers
  <2> QED BY <1>3, <1>4
<1> QED BY <1>5

-----------------------------------------------------------------------------
LEMMA LanesAre == Lanes \in Nat \ {0}
BY LanesAssumption, PowerIs

(* The cells of the memory are finitely many.                              *)
LEMMA CellsFinite ==
  ASSUME IInv
  PROVE  /\ IsFiniteSet(DOMAIN builder.address_to_value_index)
         /\ Cardinality(DOMAIN builder.address_to_value_index) \in Nat
<1> DEFINE cells == DOMAIN builder.address_to_value_index
<1>1. cells = UNION {0 .. input.memory[k].addr : k \in 1 .. memRead}
  BY DEF IInv, BuilderOK, CellsOK
<1>2. cells \subseteq 0 .. WordSize - 1
  <2>1. \A k \in 1 .. memRead : input.memory[k].addr \in Word
    BY EntriesType DEF IInv, Types
  <2>2. \A k \in 1 .. memRead : 0 .. input.memory[k].addr \subseteq 0 .. WordSize - 1
    BY <2>1, WordAssumption DEF Word
  <2> QED BY <1>1, <2>2
<1>3. IsFiniteSet(0 .. WordSize - 1)
  BY WordAssumption, FS_Interval
<1> QED BY <1>2, <1>3, FS_Subset, FS_CardinalityType

(* The size is a power of two, so its cells fill chunks of Lanes or they   *)
(* are fewer than one chunk.                                               *)
LEMMA SizeIs ==
  ASSUME IInv
  PROVE  LET k == Size(builder) \div Lanes
         IN /\ Size(builder) \in Nat \ {0}
            /\ k \in Nat
            /\ k = 0 \/ Size(builder) = k * Lanes
<1> DEFINE cells == DOMAIN builder.address_to_value_index
           n == Cardinality(cells)
           size == Size(builder)
<1>1. n \in Nat
  BY CellsFinite
<1>2. size \in PowersOfTwo(n)
  BY <1>1, NextPowerIs DEF Size
<1>3. size \in Nat \ {0}
  BY <1>1, <1>2, PowerIs
<1> HIDE DEF size, n
<1>4. CASE Lanes <= size
  <2>1. PICK c \in Nat \ {0} : size = c * Lanes
    BY <1>1, <1>2, <1>4, LanesAssumption, PowersDivide
  <2>2. size \div Lanes = c
    <3>1. (c * Lanes + 0) \div Lanes = c
      BY LanesAre, DivOf
    <3>2. c * Lanes + 0 = size
      BY <2>1, LanesAre
    <3> QED BY <3>1, <3>2
  <2> QED BY <1>3, <2>1, <2>2 DEF size
<1>5. CASE size < Lanes
  <2>1. (0 * Lanes + size) \div Lanes = 0
    BY <1>3, <1>5, LanesAre, DivOf
  <2>2. 0 * Lanes + size = size
    BY <1>3, LanesAre
  <2> QED BY <1>3, <2>1, <2>2 DEF size
<1> QED BY <1>3, <1>4, <1>5, LanesAre DEF size

(* What the columns hold.                                                  *)
LEMMA TraceIs ==
  ASSUME IInv, NEW g, g.values = Packs(builder), NEW t \in WriteTrace(g)
  PROVE  LET rows == 0 .. (4 * Size(builder) - 1)
         IN /\ Size(builder) \div Lanes \in Nat \ {0}
            /\ Size(builder) = (Size(builder) \div Lanes) * Lanes
            /\ DOMAIN t[1] = rows /\ DOMAIN t[2] = rows
            /\ \A r \in rows : /\ t[1][r] = r
                               /\ t[2][r] = g.values[r \div Lanes][r % Lanes]
                               /\ t[3][r] = 0 /\ t[4][r] = 0 /\ t[5][r] = 0
            /\ t[6] = g.multiplicities
<1> DEFINE k == Size(builder) \div Lanes
           m == Cardinality(DOMAIN g.values)
           rows == 0 .. (m * Lanes - 1)
           zeros == [r \in rows |-> 0]
           values == [r \in rows |-> g.values[r \div Lanes][r % Lanes]]
<1>1. k \in Nat /\ (k = 0 \/ Size(builder) = k * Lanes)
  BY SizeIs
<1>2. m = 4 * k
  <2>1. DOMAIN g.values = 0 .. (4 * k - 1)
    BY DEF Packs
  <2> HIDE DEF k
  <2> QED BY <1>1, <2>1, FS_Interval
<1>3. rows # {} /\ t = <<[r \in rows |-> r], values, zeros, zeros, zeros, g.multiplicities>>
  <2>1. WriteTrace(g) = IF rows = {} THEN {}
                        ELSE {<<[r \in rows |-> r], values, zeros, zeros, zeros,
                                g.multiplicities>>}
    BY DEF WriteTrace
  <2> HIDE DEF rows, values, zeros
  <2> QED BY <2>1
<1> HIDE DEF m, k
<1>4. k # 0
  <2>1. SUFFICES ASSUME k = 0 PROVE FALSE
    OBVIOUS
  <2>2. m * Lanes = 0
    BY <1>2, <2>1, LanesAre
  <2>3. rows = {}
    BY <2>2
  <2> QED BY <1>3, <2>3
<1>5. rows = 0 .. (4 * Size(builder) - 1)
  <2>1. (4 * k) * Lanes = 4 * Size(builder)
    BY <1>1, <1>4, LanesAre, SizeIs
  <2> QED BY <1>2, <2>1
<1>6. /\ DOMAIN t[1] = rows /\ DOMAIN t[2] = rows
      /\ t[6] = g.multiplicities
      /\ \A r \in rows : /\ t[1][r] = r
                         /\ t[2][r] = g.values[r \div Lanes][r % Lanes]
                         /\ t[3][r] = 0 /\ t[4][r] = 0 /\ t[5][r] = 0
  <2> HIDE DEF rows
  <2> QED BY <1>3
<1> HIDE DEF rows
<1> QED BY <1>1, <1>4, <1>5, <1>6 DEF k

(* The place of a coordinate, and the coordinate of a place.               *)
LEMMA RowIs ==
  ASSUME IInv, NEW g, g.values = Packs(builder), NEW t \in WriteTrace(g),
         NEW a \in 0 .. (Size(builder) - 1), NEW i \in 0 .. 3
  PROVE  /\ CellRow(a, i) \in 0 .. (4 * Size(builder) - 1)
         /\ t[2][CellRow(a, i)] = Coordinates(CellValue(builder, a))[i + 1]
<1> DEFINE k == Size(builder) \div Lanes
           c == a \div Lanes
           j == a % Lanes
           r == CellRow(a, i)
<1>1. k \in Nat \ {0} /\ Size(builder) = k * Lanes /\ Lanes \in Nat \ {0}
  BY TraceIs, LanesAre
<1>2. a \in Nat /\ a < k * Lanes
  BY <1>1, SizeIs
<1>3. c \in Nat /\ j \in 0 .. Lanes - 1 /\ a = c * Lanes + j
  BY <1>1, <1>2, DivIs
<1>4. r = (4 * c + i) * Lanes + j
  BY DEF CellRow
<1> HIDE DEF k, c, j, r
<1>5. c < k
  <2>1. SUFFICES ASSUME c >= k PROVE FALSE
    BY <1>1, <1>3
  <2>2. c * Lanes >= k * Lanes
    BY <1>1, <1>3, <2>1
  <2> QED BY <1>1, <1>2, <1>3, <2>2
<1>6. 4 * c + i \in 0 .. (4 * k - 1)
  BY <1>1, <1>3, <1>5
<1>7. r \in 0 .. (4 * Size(builder) - 1)
  <2> DEFINE p == 4 * c + i
  <2>1. p \in Nat /\ p + 1 <= 4 * k
    BY <1>1, <1>6
  <2> HIDE DEF p
  <2>2. (p + 1) * Lanes <= (4 * k) * Lanes
    BY <1>1, <2>1
  <2>3. (p + 1) * Lanes = p * Lanes + Lanes /\ (4 * k) * Lanes = 4 * (k * Lanes)
    BY <1>1, <2>1
  <2>4. r = p * Lanes + j /\ p * Lanes \in Nat
    BY <1>1, <1>4, <2>1 DEF p
  <2> QED BY <1>1, <1>3, <2>2, <2>3, <2>4
<1>8. r \div Lanes = 4 * c + i /\ r % Lanes = j
  <2> DEFINE p == 4 * c + i
  <2>1. p \in Nat /\ r = p * Lanes + j
    BY <1>4, <1>6
  <2> HIDE DEF p
  <2>2. r \div Lanes = p /\ r % Lanes = j
    BY <1>1, <1>3, <2>1, DivOf
  <2> QED BY <2>2 DEF p
<1>9. t[2][r] = g.values[4 * c + i][j]
  BY <1>7, <1>8, TraceIs
<1>10. (4 * c + i) \div 4 = c /\ (4 * c + i) % 4 = i
  BY <1>3
<1>11. g.values[4 * c + i][j]
         = Coordinates(CellValue(builder, ((4 * c + i) \div 4) * Lanes + j))[((4 * c + i) % 4) + 1]
  BY <1>3, <1>6 DEF Packs, k
<1> QED BY <1>3, <1>7, <1>9, <1>10, <1>11 DEF r

LEMMA RowOf ==
  ASSUME NEW k \in Nat \ {0}, NEW r \in 0 .. (4 * (k * Lanes) - 1)
  PROVE  /\ CellOfRow(r) \in 0 .. (k * Lanes - 1) /\ CoordinateOfRow(r) \in 0 .. 3
         /\ r = CellRow(CellOfRow(r), CoordinateOfRow(r))
<1> DEFINE p == r \div Lanes
           j == r % Lanes
           c == p \div 4
           i == p % 4
           a == c * Lanes + j
<1>1. Lanes \in Nat \ {0}
  BY LanesAre
<1>2. r \in Nat /\ r < 4 * (k * Lanes)
  BY <1>1
<1>3. p \in Nat /\ j \in 0 .. Lanes - 1 /\ r = p * Lanes + j
  BY <1>1, <1>2, DivIs
<1>0. CellOfRow(r) = a /\ CoordinateOfRow(r) = i
  BY DEF CellOfRow, CoordinateOfRow
<1> HIDE DEF p, j
<1>4. c \in Nat /\ i \in 0 .. 3 /\ p = 4 * c + i
  BY <1>3
<1> HIDE DEF c, i
<1>5. c < k
  <2>1. SUFFICES ASSUME c >= k PROVE FALSE
    BY <1>4
  <2>2. p >= 4 * k
    BY <1>3, <1>4, <2>1
  <2>3. p * Lanes >= (4 * k) * Lanes
    BY <1>1, <1>3, <2>2
  <2>4. (4 * k) * Lanes = 4 * (k * Lanes)
    BY <1>1
  <2> QED BY <1>1, <1>2, <1>3, <2>3, <2>4
<1>6. a \in 0 .. (k * Lanes - 1)
  <2>1. (c + 1) * Lanes <= k * Lanes
    BY <1>1, <1>4, <1>5
  <2>2. (c + 1) * Lanes = c * Lanes + Lanes /\ c * Lanes \in Nat
    BY <1>1, <1>4
  <2> QED BY <1>1, <1>3, <2>1, <2>2
<1>7. a \div Lanes = c /\ a % Lanes = j
  BY <1>1, <1>3, <1>4, DivOf
<1> HIDE DEF a
<1>8. r = CellRow(a, i)
  BY <1>3, <1>4, <1>7 DEF CellRow
<1> QED BY <1>0, <1>4, <1>6, <1>8

LEMMA LayoutIs ==
  ASSUME IInv, NEW g, g.values = Packs(builder), NEW t \in WriteTrace(g)
  PROVE  /\ DOMAIN t[2] = {CellRow(a, i) : a \in 0 .. (Size(builder) - 1), i \in 0 .. 3}
         /\ \A a \in 0 .. (Size(builder) - 1) : \A i \in 0 .. 3 :
              t[2][CellRow(a, i)] = Coordinates(CellValue(builder, a))[i + 1]
<1> DEFINE k == Size(builder) \div Lanes
           cells == 0 .. (Size(builder) - 1)
           rows == {CellRow(a, i) : a \in cells, i \in 0 .. 3}
<1>1. k \in Nat \ {0} /\ Size(builder) = k * Lanes
      /\ DOMAIN t[2] = 0 .. (4 * Size(builder) - 1)
  BY TraceIs
<1>2. ASSUME NEW r
      PROVE  r \in DOMAIN t[2] <=> r \in rows
  <2>1. ASSUME r \in DOMAIN t[2]
        PROVE  r \in rows
    <3>1. r \in 0 .. (4 * (k * Lanes) - 1)
      BY <1>1, <2>1
    <3> HIDE DEF k
    <3>2. \E a \in 0 .. (k * Lanes - 1), i \in 0 .. 3 : r = CellRow(a, i)
      BY <1>1, <3>1, RowOf
    <3> QED BY <1>1, <3>2
  <2>2. ASSUME r \in rows
        PROVE  r \in DOMAIN t[2]
    BY <1>1, <2>2, RowIs
  <2> QED BY <2>1, <2>2
<1>3. DOMAIN t[2] = rows
  <2> HIDE DEF rows
  <2> QED BY <1>2, SameElements
<1> QED BY <1>3, RowIs

-----------------------------------------------------------------------------
(* The sum over one row is its multiplicity.                               *)
LEMMA SumOne ==
  ASSUME NEW t, NEW x, Multiplicity(t, x) \in Nat
  PROVE  TimesLookedUp(t, {x}) = Multiplicity(t, x)
<1> DEFINE Sums(f) == f = [s \in SUBSET {x} |->
                             IF s = {} THEN 0
                             ELSE LET y == CHOOSE z \in s : TRUE
                                  IN Multiplicity(t, y) + f[s \ {y}]]
           sum == CHOOSE f : Sums(f)
<1>1. TimesLookedUp(t, {x}) = sum[{x}]
  BY DEF TimesLookedUp, MapThenSumSet, MapThenFoldSet
<1>2. ASSUME NEW f
      PROVE  Sums(f) <=> f = [s \in SUBSET {x} |->
                                IF s = {} THEN 0 ELSE Multiplicity(t, x) + f[{}]]
  <2>1. ASSUME NEW s \in SUBSET {x}, s # {}
        PROVE  (CHOOSE z \in s : TRUE) = x /\ s \ {x} = {}
    BY <2>1
  <2> QED BY <2>1
<1>3. Sums([s \in SUBSET {x} |-> IF s = {} THEN 0 ELSE Multiplicity(t, x)])
  <2> DEFINE m == Multiplicity(t, x)
             f == [s \in SUBSET {x} |-> IF s = {} THEN 0 ELSE m]
  <2>1. f = [s \in SUBSET {x} |-> IF s = {} THEN 0 ELSE m + f[{}]]
    <3>1. f[{}] = 0
      OBVIOUS
    <3>2. m + f[{}] = m
      BY <3>1
    <3> HIDE DEF m
    <3> QED BY <3>2
  <2> QED BY <1>2, <2>1
<1> HIDE DEF Sums
<1>4. Sums(sum)
  BY <1>3
<1>5. sum = [s \in SUBSET {x} |-> IF s = {} THEN 0 ELSE Multiplicity(t, x) + sum[{}]]
  BY <1>2, <1>4
<1> HIDE DEF sum
<1>6. sum[{}] = 0 /\ sum[{x}] = Multiplicity(t, x) + sum[{}]
  BY <1>5
<1> QED BY <1>1, <1>6

LEMMA SumNone ==
  ASSUME NEW t
  PROVE  TimesLookedUp(t, {}) = 0
<1> DEFINE Sums(f) == f = [s \in SUBSET {} |->
                             IF s = {} THEN 0
                             ELSE LET y == CHOOSE z \in s : TRUE
                                  IN Multiplicity(t, y) + f[s \ {y}]]
           sum == CHOOSE f : Sums(f)
<1>1. TimesLookedUp(t, {}) = sum[{}]
  BY DEF TimesLookedUp, MapThenSumSet, MapThenFoldSet
<1>2. \A f : Sums(f) <=> f = [s \in SUBSET {} |-> 0]
  OBVIOUS
<1> HIDE DEF Sums
<1>3. Sums(sum)
  BY <1>2
<1> HIDE DEF sum
<1>4. sum = [s \in SUBSET {} |-> 0]
  BY <1>2, <1>3
<1> QED BY <1>1, <1>4

LEMMA JoinTuple ==
  ASSUME NEW a, NEW b, NEW c, NEW d, NEW e
  PROVE  <<a>> \o <<b, c, d, e>> = <<a, b, c, d, e>>
<1> DEFINE S == {a, b, c, d, e}
           s == <<a>>  u == <<b, c, d, e>>  v == s \o u  w == <<a, b, c, d, e>>
<1>1. s \in Seq(S) /\ u \in Seq(S) /\ w \in Seq(S)
  OBVIOUS
<1>2. Len(s) = 1 /\ Len(u) = 4 /\ Len(w) = 5 /\ v \in Seq(S) /\ Len(v) = 5
  BY <1>1
<1>3. v[1] = a /\ v[2] = b /\ v[3] = c /\ v[4] = d /\ v[5] = e
  BY <1>1, <1>2
<1>4. \A i \in 1 .. 5 : v[i] = w[i]
  <2> HIDE DEF v
  <2> QED BY <1>3
<1>5. v = w
  <2> HIDE DEF v, w, S
  <2> QED BY <1>1, <1>2, <1>4
<1> QED BY <1>5

(* The coordinates of a value say whether it is in the base field.         *)
LEMMA BaseCoordinates ==
  ASSUME NEW q \in QM31, NEW a, NEW x
  PROVE  /\ <<a>> \o Coordinates(q) = <<a, q[1][1], q[1][2], q[2][1], q[2][2]>>
         /\ <<a>> \o Coordinates(q) = <<a, x, 0, 0, 0>> <=> q \in BaseField /\ q[1][1] = x
<1>1. <<a>> \o Coordinates(q) = <<a, q[1][1], q[1][2], q[2][1], q[2][2]>>
  BY JoinTuple DEF Coordinates
<1>2. q \in BaseField <=> q[1][2] = 0 /\ q[2][1] = 0 /\ q[2][2] = 0
  BY DEF BaseField, QM31, CM31, CZero
<1>3. <<a, q[1][1], q[1][2], q[2][1], q[2][2]>> = <<a, x, 0, 0, 0>>
        <=> q[1][1] = x /\ q[1][2] = 0 /\ q[2][1] = 0 /\ q[2][2] = 0
  OBVIOUS
<1> QED BY <1>1, <1>2, <1>3

(* A cell that can be read is within the size, and holds a value.          *)
LEMMA CellIs ==
  ASSUME IInv, NEW a \in DOMAIN builder.address_to_value_index
  PROVE  a \in 0 .. (Size(builder) - 1) /\ CellValue(builder, a) \in QM31
<1> DEFINE cells == DOMAIN builder.address_to_value_index
           n == Cardinality(cells)
<1>1. IsFiniteSet(cells) /\ n \in Nat
  BY CellsFinite
<1>2. cells = UNION {0 .. input.memory[k].addr : k \in 1 .. memRead}
  BY DEF IInv, BuilderOK, CellsOK
<1>3. a \in Nat /\ 0 .. a \subseteq cells
  <2>1. PICK k \in 1 .. memRead : a \in 0 .. input.memory[k].addr
    BY <1>2
  <2>2. input.memory[k].addr \in Nat
    <3>1. input.memory[k].addr \in Word
      BY EntriesType DEF IInv, Types
    <3> QED BY <3>1, WordsAreNat
  <2>3. 0 .. a \subseteq 0 .. input.memory[k].addr
    BY <2>1, <2>2
  <2> QED BY <1>2, <2>1, <2>2, <2>3
<1> HIDE DEF cells
<1>4. a + 1 <= n
  <2>1. IsFiniteSet(0 .. a) /\ Cardinality(0 .. a) = a + 1
    BY <1>3, FS_Interval
  <2> QED BY <1>1, <1>3, <2>1, FS_Subset
<1>5. Size(builder) \in Nat /\ Size(builder) >= n
  BY <1>1, NextPowerIs, SizeIs DEF Size, cells
<1>6. CellValue(builder, a) \in QM31
  <2> DEFINE id == builder.address_to_value_index[a]
             q == builder.f31_values[id + 1]
  <2>1. id \in 0 .. (Len(builder.f31_values) - 1) /\ builder.f31_values \in Seq(QM31)
    BY DEF IInv, BuilderOK, CellsOK, IdsOK
  <2>2. q \in QM31
    <3> HIDE DEF id
    <3>1. id + 1 \in 1 .. Len(builder.f31_values)
      BY <2>1
    <3> QED BY <2>1, <3>1, ElementType
  <2>3. MemGet(builder, a) = {q}
    BY DEF MemGet
  <2> HIDE DEF q
  <2> QED BY <2>2, <2>3 DEF CellValue
<1> QED BY <1>1, <1>3, <1>4, <1>5, <1>6

(* The row of an address holds that cell and coordinate which CellOfRow    *)
(* and CoordinateOfRow say, its own or another's.                          *)
LEMMA CellInRow ==
  ASSUME IInv, NEW g, g.values = Packs(builder), NEW t \in WriteTrace(g),
         NEW r \in 0 .. (4 * Size(builder) - 1)
  PROVE  t[2][r] = Coordinates(CellValue(builder, CellOfRow(r)))[CoordinateOfRow(r) + 1]
<1> DEFINE k == Size(builder) \div Lanes
<1>1. k \in Nat \ {0} /\ Size(builder) = k * Lanes
  BY TraceIs
<1> HIDE DEF k
<1>2. /\ CellOfRow(r) \in 0 .. (Size(builder) - 1) /\ CoordinateOfRow(r) \in 0 .. 3
      /\ CellRow(CellOfRow(r), CoordinateOfRow(r)) = r
  BY <1>1, RowOf
<1>3. \A a \in 0 .. (Size(builder) - 1), i \in 0 .. 3 :
        CellRow(a, i) = r => t[2][r] = Coordinates(CellValue(builder, a))[i + 1]
  BY RowIs
<1> QED BY <1>2, <1>3

(* A tuple can only be found in the row of its address, whose multiplicity *)
(* is how often the address was looked up.                                 *)
LEMMA BalanceIs ==
  ASSUME IInv, CountsOK, Readable, NEW g \in generator, NEW t \in WriteTrace(g),
         g.values = Packs(builder),
         DOMAIN g.multiplicities = 0 .. (Size(builder) - 1),
         Size(builder) <= MemoryAddressBound,
         public_mem_addresses \in Seq(Word),
         public_memory = PublicMemory,
         used = Len(public_mem_addresses)
  PROVE  Balanced(t) <=> \A k \in DOMAIN public_memory : FoundAtAddress(k)
<1> DEFINE A(k) == public_mem_addresses[k]
           V(k) == CellValue(builder, A(k))
           size == Size(builder)
           rows == 0 .. (4 * size - 1)
           public == DOMAIN public_memory
           same(k) == {j \in public : TuplesOf(j) = TuplesOf(k)}
           found(k) == LookedUp(t, TuplesOf(k))
<1>1. size \in Nat \ {0}
  BY SizeIs
<1>2. /\ DOMAIN t[1] = rows /\ t[6] = g.multiplicities
      /\ \A r \in rows : t[1][r] = r /\ t[3][r] = 0 /\ t[4][r] = 0 /\ t[5][r] = 0
  BY TraceIs
<1>3. public = 1 .. used /\ public = DOMAIN public_mem_addresses /\ used \in Nat
  BY DEF PublicMemory, CountsOK
<1>4. ASSUME NEW k \in public
      PROVE  /\ A(k) \in rows /\ A(k) \in 0 .. size - 1
             /\ public_memory[k] = <<A(k), V(k)>>
             /\ V(k) \in QM31
  <2>1. A(k) \in DOMAIN builder.address_to_value_index
    BY <1>3 DEF Readable, MemGet
  <2>2. A(k) \in 0 .. size - 1 /\ V(k) \in QM31
    BY <2>1, CellIs
  <2>3. A(k) % P = A(k)
    <3> HIDE DEF A, size
    <3> QED BY <1>1, <2>2, BoundAssumption, PAssumption DEF size
  <2>4. public_memory[k] = <<A(k) % P, V(k)>>
    BY <1>3 DEF PublicMemory
  <2> HIDE DEF V, A, size
  <2> QED BY <1>1, <2>2, <2>3, <2>4
<1>5. ASSUME NEW k \in public
      PROVE  /\ TuplesOf(k)[1] = A(k)
             /\ TuplesOf(k) = Row(t, A(k)) <=> FoundAtAddress(k)
  <2>1. TuplesOf(k) = <<A(k)>> \o Coordinates(V(k))
    <3> HIDE DEF A, V, public
    <3>1. public_memory[k][1] = A(k) /\ public_memory[k][2] = V(k)
      BY <1>4
    <3> QED BY <3>1 DEF TuplesOf
  <2>2. Row(t, A(k)) = <<A(k), t[2][A(k)], 0, 0, 0>>
    <3> HIDE DEF A, V, rows
    <3> QED BY <1>2, <1>4 DEF Row
  <2>3. t[2][A(k)] = Coordinates(CellValue(builder, CellOfRow(A(k))))[CoordinateOfRow(A(k)) + 1]
    <3>1. A(k) \in 0 .. (4 * Size(builder) - 1)
      BY <1>4
    <3> HIDE DEF A
    <3> QED BY <3>1, CellInRow
  <2>4. FoundAtAddress(k) <=> V(k) \in BaseField /\ V(k)[1][1] = t[2][A(k)]
    <3>1. public_memory[k][2] = V(k)
      <4> HIDE DEF V, A
      <4> QED BY <1>4
    <3> QED BY <2>3, <3>1 DEF FoundAtAddress
  <2>5. /\ TuplesOf(k) = <<A(k), V(k)[1][1], V(k)[1][2], V(k)[2][1], V(k)[2][2]>>
        /\ TuplesOf(k) = <<A(k), t[2][A(k)], 0, 0, 0>>
             <=> V(k) \in BaseField /\ V(k)[1][1] = t[2][A(k)]
    <3>1. V(k) \in QM31
      BY <1>4
    <3> DEFINE x == t[2][A(k)]
    <3> HIDE DEF A, V, x
    <3>2. /\ TuplesOf(k) = <<A(k), V(k)[1][1], V(k)[1][2], V(k)[2][1], V(k)[2][2]>>
          /\ TuplesOf(k) = <<A(k), x, 0, 0, 0>> <=> V(k) \in BaseField /\ V(k)[1][1] = x
      BY <2>1, <3>1, BaseCoordinates
    <3> QED BY <3>2 DEF x
  <2> HIDE DEF A, V, rows, public
  <2> QED BY <2>2, <2>4, <2>5
<1>6. ASSUME NEW r \in rows
      PROVE  Multiplicity(t, r) = IF r < size THEN Cardinality(UsesOf(used, r)) ELSE 0
  <2>1. \A a \in DOMAIN g.multiplicities : g.multiplicities[a] = Cardinality(UsesOf(used, a))
    BY DEF CountsOK
  <2>2. r \in DOMAIN g.multiplicities <=> r < size
    BY <1>1
  <2> HIDE DEF rows, size
  <2> QED BY <1>2, <2>1, <2>2 DEF Multiplicity
<1>7. ASSUME NEW a
      PROVE  /\ Cardinality(UsesOf(used, a)) \in Nat
             /\ Cardinality(UsesOf(used, a)) > 0 <=> UsesOf(used, a) # {}
  <2>1. IsFiniteSet(UsesOf(used, a))
    <3>1. IsFiniteSet(1 .. used)
      BY <1>3, FS_Interval
    <3>2. UsesOf(used, a) \subseteq 1 .. used
      BY DEF UsesOf
    <3> QED BY <3>1, <3>2, FS_Subset
  <2>2. Cardinality(UsesOf(used, a)) \in Nat
    BY <2>1, FS_CardinalityType
  <2>3. Cardinality(UsesOf(used, a)) = 0 <=> UsesOf(used, a) = {}
    BY <2>1, FS_EmptySet
  <2> QED BY <2>2, <2>3
<1>8. ASSUME NEW k \in public
      PROVE  /\ Multiplicity(t, A(k)) = Cardinality(UsesOf(used, A(k)))
             /\ Multiplicity(t, A(k)) > 0
  <2>1. k \in UsesOf(used, A(k))
    BY <1>3 DEF UsesOf
  <2> QED BY <1>1, <1>4, <1>6, <1>7, <2>1
<1>9. \A k \in public, r \in rows : Row(t, r) = TuplesOf(k) => r = A(k)
  <2>1. \A r \in rows : Row(t, r)[1] = r
    BY <1>2 DEF Row
  <2> HIDE DEF A, rows, public
  <2> QED BY <1>5, <2>1
<1> HIDE DEF V
<1>10. ASSUME \A k \in public : FoundAtAddress(k)
       PROVE  Balanced(t)
  <2>1. \A k \in public : TuplesOf(k) = Row(t, A(k))
    BY <1>5, <1>10
  <2>2. ASSUME NEW k \in public
        PROVE  Cardinality(same(k)) = TimesLookedUp(t, found(k))
    <3>1. \A j \in public : TuplesOf(j) = TuplesOf(k) <=> A(j) = A(k)
      <4> HIDE DEF A, public
      <4> QED BY <1>5, <2>1
    <3>2. same(k) = UsesOf(used, A(k))
      <4>1. \A x : x \in same(k) <=> x \in UsesOf(used, A(k))
        BY <1>3, <3>1 DEF UsesOf
      <4> HIDE DEF same
      <4> QED BY <4>1, SameElements
    <3>3. found(k) = {A(k)}
      <4>1. \A r : r \in found(k) <=> r \in {A(k)}
        <5> HIDE DEF rows, A, public
        <5> QED BY <1>2, <1>4, <1>8, <1>9, <2>1 DEF LookedUp
      <4> HIDE DEF found
      <4> QED BY <4>1, SameElements
    <3>4. TimesLookedUp(t, {A(k)}) = Multiplicity(t, A(k))
      BY <1>7, <1>8, SumOne
    <3> QED BY <1>8, <3>2, <3>3, <3>4
  <2>3. ASSUME NEW r \in rows, Multiplicity(t, r) > 0
        PROVE  \E k \in public : TuplesOf(k) = Row(t, r)
    <3>1. UsesOf(used, r) # {}
      BY <1>6, <1>7, <2>3
    <3>2. PICK k \in 1 .. used : A(k) = r
      BY <3>1 DEF UsesOf
    <3> QED BY <1>3, <2>1, <3>2
  <2> QED BY <1>2, <2>2, <2>3 DEF Balanced
<1>11. ASSUME Balanced(t), NEW k \in public
       PROVE  FoundAtAddress(k)
  <2>1. Cardinality(same(k)) = TimesLookedUp(t, found(k))
    BY <1>11 DEF Balanced
  <2>2. Cardinality(same(k)) # 0
    <3>1. IsFiniteSet(public)
      BY <1>3, FS_Interval
    <3>2. IsFiniteSet(same(k)) /\ k \in same(k)
      BY <3>1, FS_Subset
    <3> HIDE DEF same
    <3> QED BY <3>2, FS_EmptySet
  <2>3. found(k) # {}
    <3> SUFFICES ASSUME found(k) = {} PROVE FALSE
      OBVIOUS
    <3> HIDE DEF same, found
    <3>1. TimesLookedUp(t, found(k)) = 0
      BY SumNone
    <3> QED BY <2>1, <2>2, <3>1, Zenon
  <2>4. PICK r \in rows : Row(t, r) = TuplesOf(k)
    BY <1>2, <2>3 DEF LookedUp
  <2>5. r = A(k)
    BY <1>9, <2>4
  <2> QED BY <1>5, <2>4, <2>5
<1> QED BY <1>10, <1>11

-----------------------------------------------------------------------------
(* What is committed: once there is a generator it has the memory that the *)
(* import left, within the bound, and the claim is read from it; once      *)
(* there is a trace, every public address was counted.                     *)
GeneratorOK(g) ==
  /\ g.values = Packs(builder)
  /\ DOMAIN g.multiplicities = 0 .. (Size(builder) - 1)

CommittedOK ==
  /\ \A g \in generator : GeneratorOK(g)
  /\ generator # {} => Size(builder) <= MemoryAddressBound
  /\ status = "public" \/ generator # {} => Readable /\ public_memory = PublicMemory
  /\ status \in {"public", "inputs"} => trace = {}
  /\ \A t \in trace : \E g \in generator : t \in WriteTrace(g)
  /\ trace # {} => used = Len(public_mem_addresses)

LEMMA NothingCommitted ==
  ASSUME NothingProved, status \notin {"public", "inputs"}
  PROVE  CommittedOK
BY DEF NothingProved, CommittedOK

LEMMA PrimedPacks ==
  ASSUME UNCHANGED Imported
  PROVE  /\ Packs(builder)' = Packs(builder)
         /\ Size(builder)' = Size(builder)
         /\ PublicMemory' = PublicMemory
         /\ Readable' <=> Readable
BY DEF Imported, Packs, Size, PublicMemory, CellValue, MemGet, Readable

LEMMA ImportCommits == ASSUME AInv, ImportStep PROVE CommittedOK'
<1>1. status \in Importing
  BY DEF ImportStep, Importing, Next, Open, OpenPanics, OpenFails, ImportMemory, ReadMemory,
         EndMemory, ImportTrace, ReadTrace, SortPanics, Sorting, Finish, FinishPanics
<1>2. status' \notin {"public", "inputs"}
  BY <1>1 DEF ImportStep, Importing, Next, Open, OpenPanics, OpenFails, ImportMemory, ReadMemory,
         EndMemory, ImportTrace, ReadTrace, SortPanics, Sorting, Finish, FinishPanics
<1>3. NothingProved'
  BY <1>1 DEF AInv, StagesOK, NothingProved, ImportStep, pvars
<1> QED BY <1>2, <1>3 DEF NothingProved, CommittedOK

LEMMA ExtractCommits == ASSUME AInv, ExtractPublicMemory PROVE CommittedOK'
<1>1. NothingProved
  BY DEF AInv, StagesOK, ExtractPublicMemory
<1>2. UNCHANGED Imported /\ generator' = {} /\ trace' = {}
  BY <1>1 DEF ExtractPublicMemory, NothingProved, Imported
<1>3. status' = "public" => Readable /\ public_memory' = PublicMemory
  BY DEF ExtractPublicMemory
<1> QED BY <1>2, <1>3, PrimedPacks DEF CommittedOK

LEMMA NewGeneratorCommits ==
  ASSUME AInv, CommittedOK, NewClaimGenerator
  PROVE  CommittedOK'
<1>1. /\ UNCHANGED Imported /\ UNCHANGED <<public_memory, used, trace>>
      /\ status = "public" /\ status' \in {"inputs", "panic"}
      /\ generator' = NewGenerator(builder)
  BY DEF NewClaimGenerator, Imported
<1>2. trace' = {} /\ Readable /\ public_memory' = PublicMemory
  BY <1>1 DEF CommittedOK
<1>3. ASSUME NEW g \in generator'
      PROVE  GeneratorOK(g) /\ Size(builder) <= MemoryAddressBound
  <2> DEFINE v == Packs(builder)  m == [a \in 0 .. (Size(builder) - 1) |-> 0]
  <2>1. g = [values |-> v, multiplicities |-> m] /\ Size(builder) <= MemoryAddressBound
    BY <1>1 DEF NewGenerator
  <2>2. DOMAIN m = 0 .. (Size(builder) - 1)
    OBVIOUS
  <2>3. g.values = v /\ g.multiplicities = m
    BY <2>1
  <2> HIDE DEF v, m
  <2> QED BY <2>1, <2>2, <2>3 DEF GeneratorOK, v
<1>4. \A g : GeneratorOK(g)' <=> GeneratorOK(g)
  BY <1>1, PrimedPacks DEF GeneratorOK
<1> QED BY <1>1, <1>2, <1>3, <1>4, PrimedPacks DEF CommittedOK

LEMMA AddInputCommits ==
  ASSUME AInv, CommittedOK, AddPublicInput
  PROVE  CommittedOK'
<1> DEFINE i == public_mem_addresses[used + 1]
<1>1. /\ UNCHANGED Imported /\ UNCHANGED <<status, public_memory, trace>>
      /\ status = "inputs"
      /\ generator' = {AddInputs(g, i) : g \in generator}
  BY DEF AddPublicInput, Imported, MemoryIndex, vars, ivars
<1>2. ASSUME NEW h \in generator'
      PROVE  GeneratorOK(h)
  <2>1. PICK g \in generator : h = AddInputs(g, i)
    BY <1>1
  <2> DEFINE m == g.multiplicities
             n == [m EXCEPT ![i] = @ + 1]
  <2>2. g = [values |-> g.values, multiplicities |-> m] /\ GeneratorOK(g)
    BY DEF AInv, CountsOK, CommittedOK
  <2>3. h = [values |-> g.values, multiplicities |-> n]
    BY <2>1, <2>2 DEF AddInputs
  <2>4. DOMAIN n = DOMAIN m
    OBVIOUS
  <2>5. h.values = g.values /\ DOMAIN h.multiplicities = DOMAIN g.multiplicities
    BY <2>3, <2>4
  <2> QED BY <2>2, <2>5 DEF GeneratorOK
<1>3. trace' = {} /\ (generator' # {} => generator # {})
  BY <1>1 DEF CommittedOK
<1>4. \A g : GeneratorOK(g)' <=> GeneratorOK(g)
  BY <1>1, PrimedPacks DEF GeneratorOK
<1> QED BY <1>1, <1>2, <1>3, <1>4, PrimedPacks DEF CommittedOK

LEMMA CommitCommits ==
  ASSUME AInv, CommittedOK, CommitTrace \/ WriteInteractionTrace
  PROVE  CommittedOK'
<1>1. /\ UNCHANGED Imported /\ UNCHANGED <<public_memory, generator, used>>
      /\ status' \in {"drawn", "interaction", "panic"}
  BY DEF CommitTrace, WriteInteractionTrace, Imported, pvars
<1>2. \A g : GeneratorOK(g)' <=> GeneratorOK(g)
  BY <1>1, PrimedPacks DEF GeneratorOK
<1>3. \A g : WriteTrace(g)' = WriteTrace(g)
  BY DEF WriteTrace
<1>4. /\ \A t \in trace' : \E g \in generator : t \in WriteTrace(g)
      /\ trace' # {} => used = Len(public_mem_addresses)
  <2>1. CASE CommitTrace
    BY <2>1 DEF CommitTrace
  <2>2. CASE WriteInteractionTrace
    BY <2>2 DEF WriteInteractionTrace, CommittedOK, pvars
  <2> QED BY <2>1, <2>2
<1> QED BY <1>1, <1>2, <1>3, <1>4, PrimedPacks DEF CommittedOK, Imported

LEMMA StutterCommits ==
  ASSUME CommittedOK, UNCHANGED avars
  PROVE  CommittedOK'
<1>1. UNCHANGED Imported /\ UNCHANGED <<status, public_memory, generator, used, trace>>
  BY DEF avars, vars, ivars, pvars, Imported
<1>2. \A g : GeneratorOK(g)' <=> GeneratorOK(g)
  BY <1>1, PrimedPacks DEF GeneratorOK
<1>3. \A g : WriteTrace(g)' = WriteTrace(g)
  BY DEF WriteTrace
<1> QED BY <1>1, <1>2, <1>3, PrimedPacks DEF CommittedOK, Imported

(* The invariant of what is committed holds from the files to the          *)
(* interaction trace.                                                      *)
THEOREM CommittedInvariant == ASpec => []CommittedOK
<1>1. AInit => CommittedOK
  <2> SUFFICES ASSUME AInit PROVE CommittedOK
    OBVIOUS
  <2>1. NothingProved /\ status = "open"
    BY DEF AInit, Init, NothingRead
  <2> QED BY <2>1, NothingCommitted
<1>2. AInv /\ CommittedOK /\ [ANext]_avars => CommittedOK'
  BY ImportCommits, ExtractCommits, NewGeneratorCommits, AddInputCommits, CommitCommits,
     StutterCommits DEF ANext
<1> QED BY <1>1, <1>2, AInvariant, PTL DEF ASpec

-----------------------------------------------------------------------------
(* Whatever memory is proved, with packs of any power of two, each cell    *)
(* has its four coordinates in the value column, and the column has no     *)
(* other row (LayoutKeepsCells).                                           *)
THEOREM CellsAreLaidOut == ASpec => []LayoutKeepsCells
<1>1. ASSUME AInv, CommittedOK
      PROVE  LayoutKeepsCells
  <2>1. ASSUME NEW t \in trace
        PROVE  /\ DOMAIN t[2] = {CellRow(a, i) : a \in 0 .. (Size(builder) - 1), i \in 0 .. 3}
               /\ \A a \in 0 .. (Size(builder) - 1) : \A i \in 0 .. 3 :
                    t[2][CellRow(a, i)] = Coordinates(CellValue(builder, a))[i + 1]
    <3>1. PICK g \in generator : t \in WriteTrace(g)
      BY <1>1 DEF CommittedOK
    <3>2. g.values = Packs(builder)
      BY <1>1 DEF CommittedOK, GeneratorOK
    <3>3. IInv
      BY <1>1 DEF AInv, VInv
    <3> QED BY <3>1, <3>2, <3>3, LayoutIs
  <2> QED BY <2>1 DEF LayoutKeepsCells
<1> QED BY <1>1, AInvariant, CommittedInvariant, PTL

(* Whatever memory is proved and whatever is public, lookup_sum_valid's    *)
(* sum over the committed columns is zero exactly when each public value   *)
(* is in the base field and is the coordinate that the layout puts in the  *)
(* row of its address (BalancesWhenFound).                                 *)
THEOREM BalanceIsByPlace == ASpec => []BalancesWhenFound
<1>1. ASSUME AInv, CommittedOK
      PROVE  BalancesWhenFound
  <2>1. SUFFICES ASSUME NEW t \in trace
                 PROVE  Balanced(t) <=> \A k \in DOMAIN public_memory : FoundAtAddress(k)
    BY DEF BalancesWhenFound
  <2>2. PICK g \in generator : t \in WriteTrace(g)
    BY <1>1 DEF CommittedOK
  <2>3. /\ g.values = Packs(builder)
        /\ DOMAIN g.multiplicities = 0 .. (Size(builder) - 1)
        /\ Size(builder) <= MemoryAddressBound
        /\ Readable /\ public_memory = PublicMemory
        /\ used = Len(public_mem_addresses)
    BY <1>1 DEF CommittedOK, GeneratorOK
  <2>4. IInv /\ CountsOK /\ public_mem_addresses \in Seq(Word)
    BY <1>1 DEF AInv, VInv, VmTypes
  <2> QED BY <2>2, <2>3, <2>4, BalanceIs
<1> QED BY <1>1, AInvariant, CommittedInvariant, PTL

(* So it is whenever the public part is in the first chunk and in the base *)
(* field, where the row of an address holds its own cell.                  *)
LEMMA FirstChunkIsFound ==
  ASSUME NEW k, public_mem_addresses[k] \in 0 .. Lanes - 1,
         public_memory[k][2] = CellValue(builder, public_mem_addresses[k]),
         public_memory[k][2] \in BaseField
  PROVE  FoundAtAddress(k)
<1> DEFINE a == public_mem_addresses[k]
<1>1. a \div Lanes = 0 /\ a % Lanes = a
  <2>1. (0 * Lanes + a) \div Lanes = 0 /\ (0 * Lanes + a) % Lanes = a
    BY LanesAre, DivOf
  <2>2. 0 * Lanes + a = a
    BY LanesAre
  <2> QED BY <2>1, <2>2
<1>2. CellOfRow(a) = a /\ CoordinateOfRow(a) = 0
  BY <1>1, LanesAre DEF CellOfRow, CoordinateOfRow
<1> QED BY <1>2 DEF FoundAtAddress, Coordinates
=============================================================================
