------------------------- MODULE PlainImportProofs --------------------------
(***************************************************************************)
(* Theorems about the import of a finished runner, for every program that  *)
(* was run: since every cell is imported as zero, nothing that it executed *)
(* can stop the import, and every state is generic.                        *)
(***************************************************************************)
EXTENDS PlainImport, ImportProofs

-----------------------------------------------------------------------------
(* The known cells in order.                                               *)

UpTo(K, m) == {j \in K : j <= m}

LEMMA InUpTo == ASSUME NEW K, NEW m, NEW x PROVE x \in UpTo(K, m) <=> x \in K /\ x <= m
BY DEF UpTo

LEMMA UpToIs ==
  ASSUME NEW N \in Nat, NEW K, K \subseteq 1 .. N
  PROVE  /\ IsFiniteSet(K) /\ Cardinality(K) \in Nat
         /\ \A m \in Nat : IsFiniteSet(UpTo(K, m)) /\ Cardinality(UpTo(K, m)) \in Nat
         /\ Cardinality(UpTo(K, 0)) = 0
         /\ Cardinality(UpTo(K, N)) = Cardinality(K)
<1>1. IsFiniteSet(1 .. N)
  BY FS_Interval
<1>2. IsFiniteSet(K) /\ Cardinality(K) \in Nat
  BY <1>1, FS_Subset, FS_CardinalityType
<1>3. ASSUME NEW m \in Nat
      PROVE  IsFiniteSet(UpTo(K, m)) /\ Cardinality(UpTo(K, m)) \in Nat
  <2>1. UpTo(K, m) \subseteq K
    BY DEF UpTo
  <2> QED BY <1>2, <2>1, FS_Subset, FS_CardinalityType
<1>4. \A x : x \in K => x \in Nat /\ 1 <= x /\ x <= N
  OBVIOUS
<1>5. UpTo(K, 0) = {}
  <2>1. \A x : ~ (x \in K /\ x <= 0)
    BY <1>4
  <2>2. \A x : x \notin UpTo(K, 0)
    BY <2>1, InUpTo
  <2> QED BY <2>2
<1>6. UpTo(K, N) = K
  <2>1. \A x : x \in UpTo(K, N) <=> x \in K
    BY <1>4, InUpTo
  <2> QED BY <2>1, SameElements
<1> QED BY <1>2, <1>3, <1>5, <1>6, FS_EmptySet

LEMMA UpToNext ==
  ASSUME NEW N \in Nat, NEW K, K \subseteq 1 .. N, NEW m \in Nat, NEW l, l = m + 1
  PROVE  Cardinality(UpTo(K, l)) = Cardinality(UpTo(K, m)) + (IF l \in K THEN 1 ELSE 0)
<1>1. IsFiniteSet(UpTo(K, m)) /\ Cardinality(UpTo(K, m)) \in Nat
  BY UpToIs
<1>2. \A x : x \in K => (x <= l <=> x <= m \/ x = l)
  <2>1. \A x : x \in K => x \in Nat
    OBVIOUS
  <2> QED BY <2>1
<1>3. l \notin UpTo(K, m)
  <2>1. ~ (l <= m)
    OBVIOUS
  <2> QED BY <2>1, InUpTo
<1>4. CASE l \in K
  <2>1. \A x : x \in UpTo(K, l) <=> x \in UpTo(K, m) \cup {l}
    <3> SUFFICES ASSUME NEW x PROVE x \in UpTo(K, l) <=> x \in UpTo(K, m) \/ x = l
      OBVIOUS
    <3> QED BY <1>2, <1>4, InUpTo
  <2>2. UpTo(K, l) = UpTo(K, m) \cup {l}
    BY <2>1, SameElements
  <2> QED BY <1>1, <1>3, <1>4, <2>2, FS_AddElement
<1>5. CASE l \notin K
  <2>1. \A x : x \in UpTo(K, l) <=> x \in UpTo(K, m)
    <3> SUFFICES ASSUME NEW x PROVE x \in UpTo(K, l) <=> x \in UpTo(K, m)
      OBVIOUS
    <3> QED BY <1>2, <1>5, InUpTo
  <2>2. UpTo(K, l) = UpTo(K, m)
    BY <2>1, SameElements
  <2> QED BY <1>1, <1>5, <2>2
<1> QED BY <1>4, <1>5

(* The n-th element is the least number that n elements are up to.         *)
LEMMA PlaceExists ==
  ASSUME NEW N \in Nat, NEW K, K \subseteq 1 .. N, NEW n \in 1 .. Cardinality(K)
  PROVE  \E k \in K : Cardinality(UpTo(K, k)) = n
<1> DEFINE C(m) == Cardinality(UpTo(K, m))
           T == {m \in Nat : C(m) >= n}
<1>1. C(0) = 0 /\ C(N) = Cardinality(K) /\ Cardinality(K) \in Nat
  BY UpToIs
<1>2. \A m \in Nat : C(m) \in Nat
  BY UpToIs
<1>3. N \in T
  BY <1>1
<1>4. PICK k \in T : \A m \in T : k <= m
  <2>1. T \subseteq Nat /\ T # {}
    BY <1>3
  <2> HIDE DEF T
  <2> QED BY <2>1, LeastNat
<1>5. k \in Nat /\ C(k) >= n /\ k # 0
  BY <1>1
<1>6. k - 1 \in Nat /\ C(k - 1) < n
  BY <1>2, <1>4, <1>5
<1>7. C(k) = C(k - 1) + (IF k \in K THEN 1 ELSE 0)
  <2>1. k - 1 \in Nat /\ k = (k - 1) + 1
    BY <1>5, <1>6
  <2> HIDE DEF C
  <2> QED BY <2>1, UpToNext DEF C
<1>8. k \in K /\ C(k) = n
  <2>1. C(k) \in Nat /\ C(k - 1) \in Nat
    BY <1>2, <1>5, <1>6
  <2> HIDE DEF C
  <2> QED BY <1>5, <1>6, <1>7, <2>1
<1> QED BY <1>8

LEMMA PlacesDiffer ==
  ASSUME NEW N \in Nat, NEW K, K \subseteq 1 .. N, NEW j \in K, NEW k \in K,
         Cardinality(UpTo(K, j)) = Cardinality(UpTo(K, k))
  PROVE  j = k
<1>1. ASSUME NEW a \in K, NEW b \in K, a < b
      PROVE  Cardinality(UpTo(K, a)) < Cardinality(UpTo(K, b))
  <2> a \in Nat /\ b \in Nat /\ K \subseteq Nat
    OBVIOUS
  <2>1. /\ IsFiniteSet(UpTo(K, a)) /\ IsFiniteSet(UpTo(K, b))
        /\ Cardinality(UpTo(K, a)) \in Nat /\ Cardinality(UpTo(K, b)) \in Nat
    BY UpToIs
  <2>2. UpTo(K, a) \cup {b} \subseteq UpTo(K, b) /\ b \notin UpTo(K, a)
    <3>1. b \in UpTo(K, b) /\ b \notin UpTo(K, a)
      BY <1>1, InUpTo
    <3>2. ASSUME NEW x \in UpTo(K, a) PROVE x \in UpTo(K, b)
      <4>1. x \in K /\ x <= a
        BY InUpTo
      <4>2. x <= b
        BY <1>1, <4>1
      <4> QED BY <4>1, <4>2, InUpTo
    <3> QED BY <3>1, <3>2
  <2>3. Cardinality(UpTo(K, a) \cup {b}) = Cardinality(UpTo(K, a)) + 1
    BY <2>1, <2>2, FS_AddElement
  <2>4. Cardinality(UpTo(K, a) \cup {b}) <= Cardinality(UpTo(K, b))
    BY <2>1, <2>2, FS_Subset
  <2> QED BY <2>1, <2>3, <2>4
<1>2. j \in Nat /\ k \in Nat
  OBVIOUS
<1>3. Cardinality(UpTo(K, j)) \in Nat /\ Cardinality(UpTo(K, k)) \in Nat
  BY <1>2, UpToIs
<1>4. ~ (j < k) /\ ~ (k < j)
  BY <1>1, <1>3
<1> QED BY <1>2, <1>4

LEMMA IsSequence ==
  ASSUME NEW T, NEW n \in Nat, NEW s \in [1 .. n -> T]
  PROVE  s \in Seq(T) /\ Len(s) = n
OBVIOUS

-----------------------------------------------------------------------------
(* What is imported from a runner.                                         *)

(* Each known cell has an entry, all of them have the word zero, and no    *)
(* other cell has one.                                                     *)
LEMMA EntriesOfIs ==
  ASSUME NEW r \in Runners, input = EntriesOf(r)
  PROVE  /\ EntriesOK
         /\ input.trace = r.relocated_trace /\ input.runner = r
         /\ \A n \in 1 .. Len(input.memory) : input.memory[n].val = <<0, 0, 0, 0>>
         /\ \A k \in Known(r) : \E n \in 1 .. Len(input.memory) :
              input.memory[n].addr = (k - 1) % WordSize
<1> DEFINE K == Known(r)
           N == Len(r.relocated_memory)
           known == KnownCells(r)
           zero == <<0, 0, 0, 0>>
<1>1. /\ r.relocated_memory \in Seq(BOOLEAN) /\ N \in Nat
      /\ r.relocated_trace \in Seq([pc : Nat, ap : Nat, fp : Nat])
  BY RunnersAssumption DEF IsRunner
<1>2. K \subseteq 1 .. N
  BY <1>1 DEF Known
<1>3. Cardinality(K) \in Nat
  BY <1>1, <1>2, UpToIs
<1> DEFINE count == Cardinality(K)
           memory == [n \in DOMAIN known |-> [addr |-> (known[n] - 1) % WordSize, val |-> zero]]
<1>4. DOMAIN known = 1 .. count
  BY DEF KnownCells
<1> HIDE DEF K
<1>5. ASSUME NEW n \in 1 .. count
      PROVE  known[n] \in K /\ Cardinality(UpTo(K, known[n])) = n
  <2>1. known[n] = CHOOSE k \in K : Cardinality(UpTo(K, k)) = n
    BY DEF KnownCells, UpTo, K
  <2>2. \E k \in K : Cardinality(UpTo(K, k)) = n
    BY <1>1, <1>2, PlaceExists
  <2> HIDE DEF known
  <2> QED BY <2>1, <2>2
<1> HIDE DEF known
<1>6. /\ input.memory = memory /\ input.trace = r.relocated_trace /\ input.runner = r
  BY DEF EntriesOf, known
<1>7. zero \in Raw
  BY WordsAreNat DEF Raw
<1>8. \A n \in 1 .. count : /\ memory[n] \in [addr : Word, val : Raw]
                            /\ memory[n].val = zero
  <2> SUFFICES ASSUME NEW n \in 1 .. count
               PROVE  memory[n] \in [addr : Word, val : Raw] /\ memory[n].val = zero
    OBVIOUS
  <2>1. memory[n] = [addr |-> (known[n] - 1) % WordSize, val |-> zero]
    BY <1>4
  <2>2. known[n] - 1 \in Nat
    <3>1. known[n] \in 1 .. N
      BY <1>2, <1>5
    <3> QED BY <1>1, <3>1
  <2>3. (known[n] - 1) % WordSize \in Word
    BY <2>2, WordsAreNat
  <2> HIDE DEF memory, zero
  <2> QED BY <1>7, <2>1, <2>3
<1>9. DOMAIN memory = 1 .. count
  BY <1>4
<1>10. /\ memory \in Seq([addr : Word, val : Raw])
       /\ Len(memory) = count
  <2>1. memory = [n \in 1 .. count |-> memory[n]]
    BY <1>4
  <2> HIDE DEF memory
  <2>2. memory \in [1 .. count -> [addr : Word, val : Raw]]
    BY <1>8, <2>1
  <2>3. count \in Nat
    BY <1>3
  <2> HIDE DEF count
  <2> QED BY <2>2, <2>3, IsSequence
<1>11. ASSUME NEW k \in K
       PROVE  \E n \in 1 .. count : memory[n].addr = (k - 1) % WordSize
  <2> DEFINE n == Cardinality(UpTo(K, k))
  <2>1. n \in 1 .. count
    <3>1. /\ IsFiniteSet(K) /\ IsFiniteSet(UpTo(K, k))
          /\ n \in Nat
      <4>1. k \in Nat
        BY <1>1, <1>2
      <4> QED BY <1>1, <1>2, <4>1, UpToIs
    <3>2. UpTo(K, k) \subseteq K /\ k \in UpTo(K, k)
      BY <1>1, <1>2 DEF UpTo
    <3>3. n <= count /\ n # 0
      BY <3>1, <3>2, FS_Subset, FS_EmptySet
    <3> QED BY <1>3, <3>1, <3>3
  <2>2. known[n] = k
    BY <1>1, <1>2, <1>5, <2>1, PlacesDiffer
  <2>3. memory[n].addr = (k - 1) % WordSize
    BY <1>4, <2>1, <2>2
  <2> QED BY <2>1, <2>3
<1> HIDE DEF memory, count
<1>12. EntriesOK
  BY <1>1, <1>6, <1>10 DEF EntriesOK
<1> QED BY <1>6, <1>8, <1>10, <1>11, <1>12 DEF K
-----------------------------------------------------------------------------
(* A memory of zeros.                                                      *)

AllZero(b) == \A j \in 1 .. Len(b.f31_values) : b.f31_values[j] = QZero

LEMMA ZeroIs ==
  /\ Reduce(<<0, 0, 0, 0>>) = QZero
  /\ QZero \in BaseField /\ QZero[1][1] = 0
  /\ \A m : Felt(m) = QZero => m = 0
<1>1. 0 % P = 0
  BY PAssumption
<1>2. Reduce(<<0, 0, 0, 0>>) = QZero
  BY <1>1 DEF Reduce, QZero, CZero
<1>3. QZero \in BaseField /\ QZero[1][1] = 0
  BY PAssumption DEF QZero, CZero, BaseField, QM31, CM31, M31
<1>4. ASSUME NEW m, Felt(m) = QZero PROVE m = 0
  <2>1. Felt(m)[1][1] = m
    BY DEF Felt
  <2> QED BY <1>3, <1>4, <2>1
<1> QED BY <1>2, <1>3, <1>4

(* Another zero keeps it so.                                               *)
LEMMA ZeroEntry ==
  ASSUME NEW b, IsBuilder(b), IdsOK(b), AllZero(b),
         NEW entry, entry.val = <<0, 0, 0, 0>>
  PROVE  AllZero(AddEntry(b, entry))
<1> DEFINE raw == entry.val
           d == WithId(b, raw)
           v == b.f31_values
<1>1. raw \in Raw
  BY WordsAreNat DEF Raw
<1>2. IsBuilder(d)
  BY <1>1, WithIdIs
<1>3. AddEntry(b, entry).f31_values = d.f31_values
  <2> HIDE DEF d
  <2> QED BY <1>2, SetIs DEF AddEntry, d
<1>4. d.f31_values = v \/ d.f31_values = Append(v, QZero)
  <2>1. CASE raw \in DOMAIN b.felt31_id_cache
    BY <2>1 DEF WithId
  <2>2. CASE raw \notin DOMAIN b.felt31_id_cache
    <3>1. d.f31_values = Append(v, Reduce(raw))
      BY <2>2 DEF WithId, IsBuilder
    <3> QED BY <3>1, ZeroIs
  <2> QED BY <2>1, <2>2
<1>5. v \in Seq(QM31) /\ QZero \in QM31
  BY ZeroIs DEF IdsOK, BaseField
<1>6. \A j \in 1 .. Len(v) : v[j] = QZero
  BY DEF AllZero
<1> HIDE DEF d, v
<1>7. \A j \in 1 .. Len(Append(v, QZero)) : Append(v, QZero)[j] = QZero
  BY <1>5, <1>6
<1> QED BY <1>3, <1>4, <1>6, <1>7 DEF AllZero

(* Every cell reads as zero.                                               *)
LEMMA ZeroReads ==
  ASSUME NEW file, NEW n, NEW b, IdsOK(b), CellsOK(b, file, n), AllZero(b), NEW a
  PROVE  /\ MemGet(b, a) \subseteq {QZero}
         /\ a \in DOMAIN b.address_to_value_index => MemGet(b, a) = {QZero}
<1> DEFINE f == b.address_to_value_index
           v == b.f31_values
<1>1. ASSUME NEW x \in DOMAIN f PROVE v[f[x] + 1] = QZero
  <2>1. f[x] \in 0 .. (Len(v) - 1) /\ Len(v) \in Nat
    BY DEF CellsOK, IdsOK
  <2>2. f[x] + 1 \in 1 .. Len(v)
    BY <2>1
  <2> QED BY <2>2 DEF AllZero
<1> QED BY <1>1 DEF MemGet

(* The word zero has no flag.                                              *)
LEMMA ZeroIsGeneric ==
  ASSUME NEW taken
  PROVE  ListOf(DecodeInst(0), taken) = Generic /\ ~ IsJnzImm(DecodeInst(0))
<1> DEFINE O == Offsets * Offsets * Offsets
<1>1. O \in Nat /\ O > 0
  <2>1. Offsets * Offsets \in Nat /\ Offsets * Offsets > 0
    BY OffsetsAssumption
  <2> QED BY <2>1, OffsetsAssumption
<1> HIDE DEF O
<1>2. 0 \div O = 0
  BY <1>1
<1>3. FlagBits(0) = 0
  BY <1>2 DEF FlagBits, O
<1> QED BY <1>3, NoFlagsIsGeneric

(* Such a word is an instruction, a generic one, which tests no cell.      *)
LEMMA ZeroPushes ==
  ASSUME NEW b, InstsOK(b), NEW lists, NEW s, MemGet(b, s.pc) = {QZero}
  PROVE  PushInstr(b, lists, s) # {}
<1>1. PICK g : g \in GetInst(b, s.pc)
  <2>1. MemGet(b, s.pc) \cap BaseField # {}
    BY ZeroIs
  <2> QED BY <2>1 DEF GetInst
<1>2. g.inst = 0
  <2>1. CASE s.pc \in DOMAIN b.inst_cache
    <3>1. g = [inst |-> b.inst_cache[s.pc], builder |-> b]
      BY <1>1, <2>1 DEF GetInst
    <3>2. Felt(b.inst_cache[s.pc]) = QZero
      BY <2>1 DEF InstsOK
    <3> QED BY <3>1, <3>2, ZeroIs
  <2>2. CASE s.pc \notin DOMAIN b.inst_cache
    <3>1. PICK q \in MemGet(b, s.pc) :
            g = [inst |-> q[1][1],
                 builder |-> [b EXCEPT !.inst_cache = Put(b.inst_cache, s.pc, q[1][1])]]
      BY <1>1, <2>2 DEF GetInst
    <3>2. q = QZero /\ g.inst = q[1][1]
      BY <3>1
    <3> QED BY <3>2, ZeroIs
  <2> QED BY <2>1, <2>2
<1>3. FALSE \in Taken(g.builder, DecodeInst(g.inst), s)
  <2>1. ~ IsJnzImm(DecodeInst(g.inst))
    BY <1>2, ZeroIsGeneric
  <2> QED BY <2>1 DEF Taken
<1> DEFINE Of(h) == {[builder |-> h.builder,
                     lists |-> [lists EXCEPT ![ListOf(DecodeInst(h.inst), t)] =
                                  Append(@, s)]] :
                       t \in Taken(h.builder, DecodeInst(h.inst), s)}
<1>4. PushInstr(b, lists, s) = UNION {Of(h) : h \in GetInst(b, s.pc)}
  BY DEF PushInstr
<1>5. Of(g) # {}
  BY <1>3
<1> HIDE DEF Of
<1> QED BY <1>1, <1>4, <1>5
-----------------------------------------------------------------------------
(* The invariant of the import, with what this one keeps beside it.        *)
Origin == input.runner \in Runners /\ input = EntriesOf(input.runner)

Stage ==
  /\ status \in {"memory", "trace", "imported", "panic"}
  /\ status # "memory" => memRead = Len(input.memory)
  /\ status = "imported" => traceRead = Len(input.trace)

(* The public memory is the cells of the program, once it is there.        *)
Public ==
  public_mem_addresses = << >>
    \/ /\ status = "imported"
       /\ public_mem_addresses =
            [k \in 1 .. (input.runner.program_len % WordSize) |-> k - 1]

AllGeneric == Len(instructions.lists[Generic]) = traceRead

NoPanic == WellRun(input.runner) => status # "panic"

PInv == /\ IInv /\ Origin /\ AllZero(builder)
        /\ Stage /\ Public /\ AllGeneric /\ NoPanic

LEMMA GenericIsList == Generic \in ListNames
BY DEF Generic, ListNames

LEMMA PlainInit == ASSUME Init PROVE PInv
<1>1. PICK r \in Runners : input = EntriesOf(r)
  BY DEF Init
<1>2. EntriesOK /\ input.runner = r
  BY <1>1, EntriesOfIs
<1>3. NothingRead /\ status = "memory" /\ public_mem_addresses = << >>
  BY DEF Init
<1>4. IInv
  BY <1>2, <1>3, NothingReadInv
<1>5. AllZero(builder)
  BY <1>3 DEF NothingRead, NewBuilder, AllZero
<1>6. AllGeneric
  BY <1>3, GenericIsList DEF NothingRead, NoInstructions, AllGeneric
<1> QED BY <1>1, <1>2, <1>3, <1>4, <1>5, <1>6 DEF PInv, Origin, Stage, Public, NoPanic

(* Each address up to that of a known cell is in the memory, once all of   *)
(* its entries were read.                                                  *)
LEMMA Covered ==
  ASSUME PInv, status # "memory", WellRun(input.runner),
         NEW c \in 1 .. input.runner.program_len \cup Executed(input.runner), c \in Nat
  PROVE  c < WordSize /\ 0 .. c \subseteq DOMAIN builder.address_to_value_index
<1> DEFINE r == input.runner
           file == input.memory
<1>1. r \in Runners /\ input = EntriesOf(r) /\ memRead = Len(file)
  BY DEF PInv, Origin, Stage
<1>2. r.relocated_memory \in Seq(BOOLEAN)
  BY <1>1, RunnersAssumption DEF IsRunner
<1>3. /\ c + 1 \in DOMAIN r.relocated_memory /\ r.relocated_memory[c + 1]
      /\ Len(r.relocated_memory) <= WordSize
  BY DEF WellRun
<1>4. c + 1 \in Known(r)
  BY <1>3 DEF Known
<1>5. PICK n \in 1 .. Len(file) : file[n].addr = ((c + 1) - 1) % WordSize
  BY <1>1, <1>4, EntriesOfIs
<1>6. c < WordSize /\ WordSize \in Nat
  BY <1>2, <1>3, WordAssumption
<1>7. file[n].addr = c
  <2>1. (c + 1) - 1 = c /\ c % WordSize = c
    BY <1>6
  <2> QED BY <1>5, <2>1
<1>8. DOMAIN builder.address_to_value_index = UNION {0 .. file[k].addr : k \in 1 .. memRead}
  BY WrittenReads DEF PInv
<1> HIDE DEF file
<1> QED BY <1>1, <1>5, <1>6, <1>7, <1>8

(* What a state of the trace reads is there.                               *)
LEMMA PlainPushes ==
  ASSUME PInv, Sorting, WellRun(input.runner)
  PROVE  Pushed # {}
<1> DEFINE r == input.runner
           e == input.trace[traceRead + 1]
           s == StateOf(e)
<1>1. input.trace = r.relocated_trace /\ r \in Runners
  BY EntriesOfIs DEF PInv, Origin
<1>2. r.relocated_trace \in Seq([pc : Nat, ap : Nat, fp : Nat])
  BY <1>1, RunnersAssumption DEF IsRunner
<1>3. traceRead + 1 \in 1 .. Len(input.trace)
  BY EntriesType DEF PInv, IInv, Types, Sorting
<1>4. e \in [pc : Nat, ap : Nat, fp : Nat] /\ traceRead + 1 \in DOMAIN r.relocated_trace
  <2>1. input.trace \in Seq([pc : Nat, ap : Nat, fp : Nat])
    BY <1>1, <1>2
  <2> HIDE DEF r
  <2>2. DOMAIN input.trace = 1 .. Len(input.trace)
    BY <2>1
  <2> QED BY <1>1, <1>3, <2>1, <2>2, ElementType
<1>5. e.pc \in Nat /\ e.pc \in Executed(r)
  BY <1>1, <1>4 DEF Executed
<1>6. e.pc < WordSize /\ 0 .. e.pc \subseteq DOMAIN builder.address_to_value_index
  BY <1>5, Covered DEF Sorting
<1>7. s.pc = e.pc
  <2>1. s.pc = e.pc % WordSize
    BY DEF StateOf, VmState
  <2> QED BY <1>5, <1>6, <2>1, WordAssumption
<1>8. s.pc \in DOMAIN builder.address_to_value_index
  BY <1>5, <1>6, <1>7
<1> HIDE DEF s
<1>9. MemGet(builder, s.pc) = {QZero} /\ InstsOK(builder)
  BY <1>8, ZeroReads DEF PInv, IInv, BuilderOK
<1>10. PushInstr(builder, instructions.lists, s) # {}
  BY <1>9, ZeroPushes
<1> QED BY <1>10 DEF Pushed, s

(* Entry by entry, the memory stays zero.                                  *)
LEMMA PlainReadMemory ==
  ASSUME PInv, ImportMemory
  PROVE  PInv'
<1>1. ReadMemory /\ UNCHANGED <<public_mem_addresses, range_check_builtin>>
  BY DEF ImportMemory
<1>2. /\ UNCHANGED <<input, status, traceRead, instructions>>
      /\ status = "memory" /\ memRead < Len(input.memory)
      /\ builder' = AddEntry(builder, input.memory[memRead + 1])
  BY <1>1 DEF ReadMemory
<1>3. IInv'
  BY <1>1, ReadMemoryInv DEF PInv
<1>4. memRead + 1 \in 1 .. Len(input.memory)
  BY <1>2, EntriesType DEF PInv, IInv, Types
<1>5. input.memory[memRead + 1].val = <<0, 0, 0, 0>>
  BY <1>4, EntriesOfIs DEF PInv, Origin
<1>6. AllZero(builder')
  BY <1>2, <1>5, ZeroEntry DEF PInv, IInv, BuilderOK
<1> QED BY <1>1, <1>2, <1>3, <1>6 DEF PInv, Origin, Stage, Public, AllGeneric, NoPanic

(* A state is put into the generic list, and the memory stays as it is.    *)
LEMMA PlainReadTrace ==
  ASSUME PInv, ImportTrace, ReadTrace
  PROVE  PInv'
<1> DEFINE s == StateOf(input.trace[traceRead + 1])
           old == instructions.lists
           new == instructions'.lists
<1>1. /\ UNCHANGED <<input, status, memRead>> /\ status = "trace"
      /\ UNCHANGED <<public_mem_addresses, range_check_builtin>>
  BY DEF ImportTrace, ReadTrace, Sorting
<1>2. IInv'
  BY ReadTraceInv DEF PInv
<1>3. /\ traceRead' = traceRead + 1 /\ traceRead \in Nat
      /\ SameCells(builder, builder') /\ s \in VmStates
  BY ReadTraceIs, EntriesType DEF PInv, IInv, Types
<1>4. PICK inst \in M31, t \in BOOLEAN :
        /\ MemGet(builder, s.pc) = {Felt(inst)}
        /\ new = [old EXCEPT ![ListOf(DecodeInst(inst), t)] =
                               Append(old[ListOf(DecodeInst(inst), t)], s)]
  BY ReadTraceIs DEF PInv
<1> HIDE DEF s
<1>5. inst = 0
  <2>1. MemGet(builder, s.pc) \subseteq {QZero}
    BY ZeroReads DEF PInv, IInv, BuilderOK
  <2> QED BY <1>4, <2>1, ZeroIs
<1>6. new = [old EXCEPT ![Generic] = Append(old[Generic], s)]
  BY <1>4, <1>5, ZeroIsGeneric
<1>7. old \in [ListNames -> Seq(VmStates)]
  BY DEF PInv, IInv, Types
<1> HIDE DEF old, new
<1>8. Len(new[Generic]) = Len(old[Generic]) + 1
  <2>1. new[Generic] = Append(old[Generic], s) /\ old[Generic] \in Seq(VmStates)
    BY <1>6, <1>7, GenericIsList
  <2> HIDE DEF Generic
  <2> QED BY <1>3, <2>1
<1>9. AllGeneric'
  BY <1>3, <1>8 DEF PInv, AllGeneric, old, new
<1>10. AllZero(builder')
  BY <1>3 DEF SameCells, AllZero, PInv
<1> QED BY <1>1, <1>2, <1>9, <1>10 DEF PInv, Origin, Stage, Public, NoPanic

LEMMA PlainStage ==
  ASSUME PInv,
         UNCHANGED <<input, memRead, traceRead, builder, instructions>>,
         status' \in {"open", "memory"} => traceRead = 0,
         Stage', Public', NoPanic'
  PROVE  PInv'
BY StageInv DEF PInv, Origin, AllZero, AllGeneric

LEMMA PlainNext == ASSUME PInv, Next PROVE PInv'
<1>1. CASE ImportMemory
  BY <1>1, PlainReadMemory
<1>2. CASE ImportTrace /\ ReadTrace
  BY <1>2, PlainReadTrace
<1>3. CASE ImportTrace /\ SortPanics
  <2>1. ~ WellRun(input.runner)
    BY <1>3, PlainPushes DEF SortPanics
  <2>2. /\ UNCHANGED <<input, memRead, traceRead, builder, instructions>>
        /\ UNCHANGED public_mem_addresses
        /\ status = "trace" /\ status' = "panic"
    BY <1>3 DEF SortPanics, Sorting, ImportTrace
  <2>3. Stage' /\ Public' /\ NoPanic'
    BY <2>1, <2>2 DEF PInv, Stage, Public, NoPanic
  <2> QED BY <2>2, <2>3, PlainStage
<1>4. CASE EndMemory
  BY <1>4, PlainStage DEF EndMemory, PInv, Stage, Public, NoPanic
<1>5. CASE Finish
  BY <1>5, PlainStage DEF Finish, PInv, Stage, Public, NoPanic
<1> QED BY <1>1, <1>2, <1>3, <1>4, <1>5 DEF Next, ImportTrace

LEMMA PlainStutter == ASSUME PInv, UNCHANGED vars PROVE PInv'
<1>1. /\ UNCHANGED <<input, memRead, traceRead, builder, instructions>>
      /\ UNCHANGED <<status, public_mem_addresses>>
  BY DEF vars, ivars
<1>2. Stage' /\ Public' /\ NoPanic'
  BY <1>1 DEF PInv, Stage, Public, NoPanic
<1>3. status' \in {"open", "memory"} => traceRead = 0
  BY <1>1 DEF PInv, IInv, TraceOK
<1> QED BY <1>1, <1>2, <1>3, PlainStage

THEOREM PlainInvariant == Spec => []PInv
<1>1. Init => PInv
  BY PlainInit
<1>2. PInv /\ [Next]_vars => PInv'
  BY PlainNext, PlainStutter
<1> QED BY <1>1, <1>2, PTL DEF Spec

(* Whatever program was run to its end, if each cell of it and each it     *)
(* executed is known, the import does not panic, and each address of its   *)
(* public memory, 0 among them, can be read (PlainNeverPanics).            *)
THEOREM PlainNeverStops == Spec => []PlainNeverPanics
<1>1. PInv => PlainNeverPanics
  <2> SUFFICES ASSUME PInv, WellRun(input.runner)
               PROVE  /\ status # "panic"
                      /\ \A k \in DOMAIN public_mem_addresses :
                           MemGet(builder, public_mem_addresses[k]) # {}
    BY DEF PlainNeverPanics
  <2>1. status # "panic"
    BY DEF PInv, NoPanic
  <2>2. ASSUME NEW k \in DOMAIN public_mem_addresses
        PROVE  MemGet(builder, public_mem_addresses[k]) # {}
    <3> DEFINE len == input.runner.program_len
    <3>1. /\ status = "imported"
          /\ public_mem_addresses = [j \in 1 .. (len % WordSize) |-> j - 1]
      BY DEF PInv, Public
    <3>2. len \in Nat
      BY RunnersAssumption DEF PInv, Origin, IsRunner
    <3>3. len % WordSize = len
      <4>1. len = 0 \/ len + 1 <= WordSize
        <5>1. len \in 1 .. len => len + 1 \in DOMAIN input.runner.relocated_memory
          BY DEF WellRun
        <5>2. /\ Len(input.runner.relocated_memory) <= WordSize
              /\ DOMAIN input.runner.relocated_memory = 1 .. Len(input.runner.relocated_memory)
              /\ Len(input.runner.relocated_memory) \in Nat
          BY RunnersAssumption DEF WellRun, PInv, Origin, IsRunner
        <5> HIDE DEF len
        <5> QED BY <3>2, <5>1, <5>2, WordAssumption
      <4> HIDE DEF len
      <4> QED BY <3>2, <4>1, WordAssumption, PAssumption
    <3> HIDE DEF len
    <3>4. k \in 1 .. len /\ public_mem_addresses[k] = k - 1
      BY <3>1, <3>3
    <3>5. k \in Nat /\ k - 1 \in 0 .. k
      BY <3>2, <3>4
    <3>6. k - 1 \in DOMAIN builder.address_to_value_index
      BY <3>1, <3>4, <3>5, Covered DEF len
    <3> QED BY <3>4, <3>6, ZeroReads DEF PInv, IInv, BuilderOK
  <2> QED BY <2>1, <2>2
<1> QED BY <1>1, PlainInvariant, PTL

(* Whatever was run, every state of its trace is counted as generic        *)
(* (PlainIsGeneric), however wide the field is.                            *)
THEOREM PlainCountsGeneric == Spec => []PlainIsGeneric
<1>1. PInv => PlainIsGeneric
  BY GenericIsList DEF PInv, Stage, AllGeneric, PlainIsGeneric, Counts
<1> QED BY <1>1, PlainInvariant, PTL

LEMMA PlainStepImplements ==
  ASSUME PInv, [Next]_vars
  PROVE  [Image!RNext]_(Image!rvars)
<1>1. CASE ImportMemory
  BY <1>1, ReadMemoryStores DEF PInv, ImportMemory, Image!RNext
<1>2. CASE ImportTrace /\ ReadTrace
  BY <1>2, ReadTraceSorts DEF PInv, Image!RNext
<1>3. CASE ImportTrace /\ SortPanics
  BY <1>3, StageStutters DEF SortPanics
<1>4. CASE EndMemory \/ Finish
  BY <1>4, StageStutters DEF EndMemory, Finish
<1>5. CASE UNCHANGED vars
  BY <1>5, StageStutters DEF vars, ivars
<1> QED BY <1>1, <1>2, <1>3, <1>4, <1>5 DEF Next, ImportTrace

(* The import of a finished runner implements the plain map as well        *)
(* (ImplementsImage): both imports are one abstract import.                *)
THEOREM PlainImplementsTheImage == Spec => ImplementsImage
<1>1. Init => Image!RInit
  BY InitIsImageInit DEF Init
<1>2. PInv /\ [Next]_vars => [Image!RNext]_(Image!rvars)
  BY PlainStepImplements
<1> QED BY <1>1, <1>2, PlainInvariant, PTL DEF Spec, ImplementsImage, Image!RSpec
=============================================================================
