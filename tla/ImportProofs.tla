---------------------------- MODULE ImportProofs ----------------------------
(***************************************************************************)
(* Proofs about what both imports share: for every field, every width of a *)
(* word and of an offset and all that may be imported, what is read back   *)
(* from the builder is what the entries say, and the states are sorted by  *)
(* it.                                                                     *)
(***************************************************************************)
EXTENDS Import, FieldsProofs, FiniteSetTheorems, TLAPS

-----------------------------------------------------------------------------
(* The builder.                                                            *)

IsBuilder(b) ==
  b = [address_to_value_index |-> b.address_to_value_index,
       f31_values |-> b.f31_values,
       inst_cache |-> b.inst_cache,
       felt31_id_cache |-> b.felt31_id_cache]

(* Ids are positions of values, the word's own, and one for each word.     *)
IdsOK(b) ==
  /\ b.f31_values \in Seq(QM31)
  /\ DOMAIN b.felt31_id_cache \subseteq Raw
  /\ \A r \in DOMAIN b.felt31_id_cache :
       /\ b.felt31_id_cache[r] \in 0 .. (Len(b.f31_values) - 1)
       /\ b.f31_values[b.felt31_id_cache[r] + 1] = Reduce(r)
  /\ \A r, s \in DOMAIN b.felt31_id_cache :
       b.felt31_id_cache[r] = b.felt31_id_cache[s] => r = s

(* The cells are what the first n entries of a file make of them.          *)
LastOf(file, n, k) == \A l \in (k + 1) .. n : file[l].addr # file[k].addr

CellsOK(b, file, n) ==
  /\ DOMAIN b.address_to_value_index = UNION {0 .. file[k].addr : k \in 1 .. n}
  /\ \A a \in DOMAIN b.address_to_value_index :
       b.address_to_value_index[a] \in 0 .. (Len(b.f31_values) - 1)
  /\ \A k \in 1 .. n : file[k].val \in DOMAIN b.felt31_id_cache
  /\ \A k \in 1 .. n : LastOf(file, n, k) =>
       b.address_to_value_index[file[k].addr] = b.felt31_id_cache[file[k].val]
  /\ \A a \in DOMAIN b.address_to_value_index :
       (\A k \in 1 .. n : file[k].addr # a) => b.address_to_value_index[a] = 0
  /\ n > 0 => b.felt31_id_cache[file[1].val] = 0
  /\ n = 0 => b.f31_values = << >>

(* A builder has all the fields it starts with and no more.                *)
LEMMA NewIsOK ==
  ASSUME NEW file
  PROVE  IsBuilder(NewBuilder) /\ IdsOK(NewBuilder) /\ CellsOK(NewBuilder, file, 0)
<1>1. DOMAIN EmptyMap = {}
  BY DEF EmptyMap
<1>2. 1 .. 0 = {} /\ UNION {0 .. file[k].addr : k \in {}} = {}
  OBVIOUS
<1> QED BY <1>1, <1>2 DEF NewBuilder, IsBuilder, IdsOK, CellsOK

LEMMA ReduceType ==
  ASSUME NEW raw \in Raw
  PROVE  Reduce(raw) \in QM31
BY PAssumption DEF Raw, Word, Reduce, QM31, CM31, M31

(* Giving a word an id moves no other word and no value.                   *)
LEMMA WithIdIs ==
  ASSUME NEW b, IsBuilder(b), IdsOK(b), NEW raw \in Raw
  PROVE  LET c == WithId(b, raw)
         IN /\ IsBuilder(c) /\ IdsOK(c)
            /\ c.address_to_value_index = b.address_to_value_index
            /\ c.inst_cache = b.inst_cache
            /\ raw \in DOMAIN c.felt31_id_cache
            /\ \A r \in DOMAIN b.felt31_id_cache :
                 r \in DOMAIN c.felt31_id_cache
                   /\ c.felt31_id_cache[r] = b.felt31_id_cache[r]
            /\ Len(b.f31_values) <= Len(c.f31_values)
            /\ \A j \in 1 .. Len(b.f31_values) : c.f31_values[j] = b.f31_values[j]
            /\ b.f31_values = << >> => c.felt31_id_cache[raw] = 0
<1>1. CASE raw \in DOMAIN b.felt31_id_cache
  <2>1. WithId(b, raw) = b
    BY <1>1 DEF WithId
  <2>2. b.f31_values # << >>
    BY <1>1 DEF IdsOK
  <2> QED BY <1>1, <2>1, <2>2
<1>2. CASE raw \notin DOMAIN b.felt31_id_cache
  <2> DEFINE c == WithId(b, raw)
             v == b.f31_values
             f == b.felt31_id_cache
  <2>1. c = [address_to_value_index |-> b.address_to_value_index,
             f31_values |-> Append(v, Reduce(raw)),
             inst_cache |-> b.inst_cache,
             felt31_id_cache |-> Put(f, raw, Len(v))]
    BY <1>2 DEF WithId, IsBuilder
  <2>2. IsBuilder(c)
    BY <2>1 DEF IsBuilder
  <2>3. /\ v \in Seq(QM31) /\ Len(v) \in Nat
        /\ Append(v, Reduce(raw)) \in Seq(QM31)
        /\ Len(Append(v, Reduce(raw))) = Len(v) + 1
        /\ \A j \in 1 .. Len(v) : Append(v, Reduce(raw))[j] = v[j]
        /\ Append(v, Reduce(raw))[Len(v) + 1] = Reduce(raw)
    BY ReduceType DEF IdsOK
  <2>4. /\ DOMAIN Put(f, raw, Len(v)) = DOMAIN f \cup {raw}
        /\ Put(f, raw, Len(v))[raw] = Len(v)
        /\ \A r \in DOMAIN f : Put(f, raw, Len(v))[r] = f[r]
    BY <1>2 DEF Put
  <2>5. c.f31_values = Append(v, Reduce(raw)) /\ c.felt31_id_cache = Put(f, raw, Len(v))
    BY <2>1
  <2>6. \A r \in DOMAIN f : f[r] \in 0 .. (Len(v) - 1) /\ v[f[r] + 1] = Reduce(r)
    BY DEF IdsOK
  <2>7. ASSUME NEW r \in DOMAIN f \cup {raw}
        PROVE  /\ Put(f, raw, Len(v))[r] \in 0 .. Len(v)
               /\ Append(v, Reduce(raw))[Put(f, raw, Len(v))[r] + 1] = Reduce(r)
    <3>1. CASE r = raw
      BY <3>1, <2>3, <2>4
    <3>2. CASE r \in DOMAIN f
      BY <3>2, <2>3, <2>4, <2>6
    <3> QED BY <3>1, <3>2
  <2>8. ASSUME NEW r \in DOMAIN f \cup {raw}, NEW s \in DOMAIN f \cup {raw},
               Put(f, raw, Len(v))[r] = Put(f, raw, Len(v))[s]
        PROVE  r = s
    <3>1. \A t \in DOMAIN f : f[t] # Len(v)
      BY <2>3, <2>6
    <3> QED BY <2>4, <2>8, <3>1 DEF IdsOK
  <2>9. DOMAIN f \cup {raw} \subseteq Raw
    BY DEF IdsOK
  <2>10. IdsOK(c)
    BY <2>3, <2>4, <2>5, <2>7, <2>8, <2>9 DEF IdsOK
  <2> QED BY <2>1, <2>2, <2>3, <2>4, <2>5, <2>10
<1> QED BY <1>1, <1>2

(* Setting an address touches the addresses alone.                         *)
LEMMA SetIs ==
  ASSUME NEW b, IsBuilder(b), NEW addr, NEW id
  PROVE  LET c == Set(b, addr, id)
             f == b.address_to_value_index
         IN /\ IsBuilder(c)
            /\ c.f31_values = b.f31_values
            /\ c.inst_cache = b.inst_cache
            /\ c.felt31_id_cache = b.felt31_id_cache
            /\ DOMAIN c.address_to_value_index = DOMAIN f \cup 0 .. addr
            /\ \A a \in DOMAIN c.address_to_value_index :
                 c.address_to_value_index[a] =
                   IF a = addr THEN id ELSE IF a \in DOMAIN f THEN f[a] ELSE 0
<1> DEFINE f == b.address_to_value_index
           g == [a \in DOMAIN f \cup 0 .. addr |->
                   IF a = addr THEN id ELSE IF a \in DOMAIN f THEN f[a] ELSE 0]
<1>1. Set(b, addr, id) = [address_to_value_index |-> g,
                          f31_values |-> b.f31_values,
                          inst_cache |-> b.inst_cache,
                          felt31_id_cache |-> b.felt31_id_cache]
  BY DEF Set, IsBuilder
<1> HIDE DEF f
<1>2. DOMAIN g = DOMAIN f \cup 0 .. addr
  OBVIOUS
<1> QED BY <1>1, <1>2 DEF IsBuilder, f

(* One entry more, wherever its address is: within, at the end or beyond.  *)
LEMMA AddEntryIs ==
  ASSUME NEW file, NEW n \in Nat,
         \A k \in 1 .. n + 1 : file[k].addr \in Word /\ file[k].val \in Raw,
         NEW b, IsBuilder(b), IdsOK(b), CellsOK(b, file, n)
  PROVE  LET c == AddEntry(b, file[n + 1])
         IN /\ IsBuilder(c) /\ IdsOK(c) /\ CellsOK(c, file, n + 1)
            /\ c.inst_cache = b.inst_cache
<1> DEFINE new == file[n + 1]
           d == WithId(b, new.val)
           c == Set(d, new.addr, d.felt31_id_cache[new.val])
           f == b.address_to_value_index
<1>1. new.addr \in Nat /\ new.val \in Raw
  BY WordAssumption DEF Word
<1>2. AddEntry(b, new) = c
  BY DEF AddEntry
<1>3. /\ IsBuilder(d) /\ IdsOK(d)
      /\ d.address_to_value_index = f
      /\ d.inst_cache = b.inst_cache
      /\ new.val \in DOMAIN d.felt31_id_cache
      /\ \A r \in DOMAIN b.felt31_id_cache :
           r \in DOMAIN d.felt31_id_cache
             /\ d.felt31_id_cache[r] = b.felt31_id_cache[r]
      /\ Len(b.f31_values) <= Len(d.f31_values)
      /\ b.f31_values = << >> => d.felt31_id_cache[new.val] = 0
  BY <1>1, WithIdIs
<1> HIDE DEF d
<1>4. /\ IsBuilder(c)
      /\ c.f31_values = d.f31_values
      /\ c.inst_cache = d.inst_cache
      /\ c.felt31_id_cache = d.felt31_id_cache
      /\ DOMAIN c.address_to_value_index = DOMAIN f \cup 0 .. new.addr
      /\ \A a \in DOMAIN c.address_to_value_index :
           c.address_to_value_index[a] =
             IF a = new.addr THEN d.felt31_id_cache[new.val]
             ELSE IF a \in DOMAIN f THEN f[a] ELSE 0
  BY <1>3, SetIs
<1> HIDE DEF c
<1> DEFINE g == c.address_to_value_index
<1>5. IdsOK(c)
  BY <1>3, <1>4 DEF IdsOK
<1>6. DOMAIN g = UNION {0 .. file[k].addr : k \in 1 .. n + 1}
  <2>1. DOMAIN f = UNION {0 .. file[k].addr : k \in 1 .. n}
    BY DEF CellsOK
  <2>2. 1 .. n + 1 = 1 .. n \cup {n + 1}
    OBVIOUS
  <2> QED BY <1>4, <2>1, <2>2
<1>7. Len(b.f31_values) \in Nat /\ Len(c.f31_values) \in Nat
  BY <1>5 DEF IdsOK
<1>8. d.felt31_id_cache[new.val] \in 0 .. (Len(c.f31_values) - 1)
  BY <1>3, <1>4 DEF IdsOK
<1>9. \A a \in DOMAIN g : g[a] \in 0 .. (Len(c.f31_values) - 1)
  <2>1. \A a \in DOMAIN f : f[a] \in 0 .. (Len(b.f31_values) - 1)
    BY DEF CellsOK
  <2>2. \A a \in DOMAIN f : f[a] \in 0 .. (Len(c.f31_values) - 1)
    BY <1>3, <1>4, <1>7, <2>1
  <2>3. 0 \in 0 .. (Len(c.f31_values) - 1)
    BY <1>7, <1>8
  <2> QED BY <1>4, <1>8, <2>2, <2>3
<1>10. \A k \in 1 .. n : /\ file[k].val \in DOMAIN b.felt31_id_cache
                         /\ file[k].val \in DOMAIN c.felt31_id_cache
                         /\ c.felt31_id_cache[file[k].val] = b.felt31_id_cache[file[k].val]
  BY <1>3, <1>4 DEF CellsOK
<1>11. \A k \in 1 .. n + 1 : file[k].val \in DOMAIN c.felt31_id_cache
  BY <1>3, <1>4, <1>10
<1>12. ASSUME NEW k \in 1 .. n + 1, LastOf(file, n + 1, k)
       PROVE  g[file[k].addr] = c.felt31_id_cache[file[k].val]
  <2>1. CASE k = n + 1
    BY <1>1, <1>4, <2>1
  <2>2. CASE k \in 1 .. n
    <3>1. LastOf(file, n, k) /\ file[k].addr # new.addr
      BY <1>12, <2>2 DEF LastOf
    <3>2. f[file[k].addr] = b.felt31_id_cache[file[k].val]
      BY <2>2, <3>1 DEF CellsOK
    <3>3. file[k].addr \in Nat
      BY <2>2, WordAssumption DEF Word
    <3>4. file[k].addr \in DOMAIN f
      BY <2>2, <3>3 DEF CellsOK
    <3> QED BY <1>4, <1>10, <2>2, <3>1, <3>2, <3>4
  <2> QED BY <2>1, <2>2
<1>13. ASSUME NEW a \in DOMAIN g, \A k \in 1 .. n + 1 : file[k].addr # a
       PROVE  g[a] = 0
  <2>1. a # new.addr
    BY <1>13
  <2>2. CASE a \in DOMAIN f
    BY <1>4, <1>13, <2>1, <2>2 DEF CellsOK
  <2> QED BY <1>4, <2>1, <2>2
<1>14. c.felt31_id_cache[file[1].val] = 0
  <2>1. CASE n = 0
    BY <1>3, <1>4, <2>1 DEF CellsOK
  <2>2. CASE n > 0
    BY <1>10, <2>2 DEF CellsOK
  <2> QED BY <2>1, <2>2
<1>15. CellsOK(c, file, n + 1)
  BY <1>6, <1>9, <1>11, <1>12, <1>13, <1>14 DEF CellsOK
<1> QED BY <1>2, <1>3, <1>4, <1>5, <1>15

(* What the addresses of such a builder read as.                           *)
Reads(b, a, value) == MemGet(b, a) = {value}

LEMMA MemGetIs ==
  ASSUME NEW file, NEW n \in Nat,
         \A k \in 1 .. n : file[k].addr \in Word /\ file[k].val \in Raw,
         NEW b, IdsOK(b), CellsOK(b, file, n)
  PROVE  /\ \A k \in 1 .. n : LastOf(file, n, k) =>
              Reads(b, file[k].addr, Reduce(file[k].val))
         /\ \A a \in DOMAIN b.address_to_value_index :
              (\A k \in 1 .. n : file[k].addr # a) => Reads(b, a, Reduce(file[1].val))
<1> DEFINE f == b.address_to_value_index
<1>1. \A a \in DOMAIN f : Reads(b, a, b.f31_values[f[a] + 1])
  BY DEF MemGet, Reads
<1>2. ASSUME NEW k \in 1 .. n, LastOf(file, n, k)
      PROVE  Reads(b, file[k].addr, Reduce(file[k].val))
  <2>1. file[k].addr \in DOMAIN f
    BY WordAssumption DEF CellsOK, Word
  <2>2. f[file[k].addr] = b.felt31_id_cache[file[k].val]
    BY <1>2 DEF CellsOK
  <2>3. file[k].val \in DOMAIN b.felt31_id_cache
    BY DEF CellsOK
  <2>4. b.f31_values[f[file[k].addr] + 1] = Reduce(file[k].val)
    BY <2>2, <2>3 DEF IdsOK
  <2> QED BY <1>1, <2>1, <2>4
<1>3. ASSUME NEW a \in DOMAIN f, \A k \in 1 .. n : file[k].addr # a
      PROVE  Reads(b, a, Reduce(file[1].val))
  <2>1. n > 0
    BY DEF CellsOK
  <2>2. f[a] = 0 /\ b.felt31_id_cache[file[1].val] = 0
    BY <1>3, <2>1 DEF CellsOK
  <2>3. file[1].val \in DOMAIN b.felt31_id_cache
    BY <2>1 DEF CellsOK
  <2>4. b.f31_values[f[a] + 1] = Reduce(file[1].val)
    BY <2>2, <2>3 DEF IdsOK
  <2> QED BY <1>1, <2>4
<1> QED BY <1>2, <1>3

-----------------------------------------------------------------------------
(* Reading instructions.                                                   *)

(* What is cached is an element of the field and what the memory holds.    *)
InstsOK(b) == \A pc \in DOMAIN b.inst_cache :
                /\ b.inst_cache[pc] \in M31
                /\ MemGet(b, pc) = {Felt(b.inst_cache[pc])}

SameCells(b, c) == /\ c.address_to_value_index = b.address_to_value_index
                   /\ c.f31_values = b.f31_values
                   /\ c.felt31_id_cache = b.felt31_id_cache

LEMMA SameReads ==
  ASSUME NEW b, NEW c, SameCells(b, c)
  PROVE  \A a : MemGet(c, a) = MemGet(b, a)
BY DEF SameCells, MemGet

LEMMA SameIsOK ==
  ASSUME NEW b, NEW c, SameCells(b, c), NEW file, NEW n, IdsOK(b), CellsOK(b, file, n)
  PROVE  IdsOK(c) /\ CellsOK(c, file, n)
BY DEF SameCells, IdsOK, CellsOK

LEMMA BaseFieldIs ==
  ASSUME NEW q \in BaseField
  PROVE  q[1][1] \in M31 /\ q = Felt(q[1][1])
BY DEF BaseField, QM31, CM31, Felt, CZero

LEMMA GetInstIs ==
  ASSUME NEW b, IsBuilder(b), InstsOK(b), NEW addr, NEW g \in GetInst(b, addr)
  PROVE  /\ g.inst \in M31
         /\ MemGet(b, addr) = {Felt(g.inst)}
         /\ IsBuilder(g.builder) /\ SameCells(b, g.builder) /\ InstsOK(g.builder)
         /\ DOMAIN g.builder.inst_cache = DOMAIN b.inst_cache \cup {addr}
<1>1. CASE addr \in DOMAIN b.inst_cache
  <2>1. g = [inst |-> b.inst_cache[addr], builder |-> b]
    BY <1>1 DEF GetInst
  <2>2. g.inst = b.inst_cache[addr] /\ g.builder = b
    BY <2>1
  <2> QED BY <1>1, <2>2 DEF InstsOK, SameCells
<1>2. CASE addr \notin DOMAIN b.inst_cache
  <2>1. PICK q \in MemGet(b, addr) \cap BaseField :
          g = [inst |-> q[1][1],
               builder |-> [b EXCEPT !.inst_cache = Put(b.inst_cache, addr, q[1][1])]]
    BY <1>2 DEF GetInst
  <2> DEFINE c == [address_to_value_index |-> b.address_to_value_index,
                   f31_values |-> b.f31_values,
                   inst_cache |-> Put(b.inst_cache, addr, q[1][1]),
                   felt31_id_cache |-> b.felt31_id_cache]
  <2>2. g.inst = q[1][1] /\ g.builder = c
    BY <2>1 DEF IsBuilder
  <2>3. MemGet(b, addr) = {q}
    BY <2>1 DEF MemGet
  <2>4. q[1][1] \in M31 /\ q = Felt(q[1][1])
    BY <2>1, BaseFieldIs
  <2>5. SameCells(b, c) /\ IsBuilder(c)
    BY DEF SameCells, IsBuilder
  <2>6. /\ DOMAIN c.inst_cache = DOMAIN b.inst_cache \cup {addr}
        /\ c.inst_cache[addr] = q[1][1]
        /\ \A pc \in DOMAIN b.inst_cache : c.inst_cache[pc] = b.inst_cache[pc]
    BY <1>2 DEF Put
  <2>7. InstsOK(c)
    <3> SUFFICES ASSUME NEW pc \in DOMAIN c.inst_cache
                 PROVE  /\ c.inst_cache[pc] \in M31
                        /\ MemGet(c, pc) = {Felt(c.inst_cache[pc])}
      BY DEF InstsOK
    <3> HIDE DEF c
    <3>1. MemGet(c, pc) = MemGet(b, pc)
      BY <2>5, SameReads
    <3>2. CASE pc = addr
      BY <2>3, <2>4, <2>6, <3>1, <3>2
    <3>3. CASE pc \in DOMAIN b.inst_cache
      BY <2>6, <3>1, <3>3 DEF InstsOK
    <3> QED BY <2>6, <3>2, <3>3
  <2> HIDE DEF c
  <2> QED BY <2>2, <2>3, <2>4, <2>5, <2>6, <2>7
<1> QED BY <1>1, <1>2

(* What tells the patterns of push_instr apart.                            *)
Kinds == {"ret", "add_ap", "jmp_rel_imm", "jmp_abs", "call_rel_imm", "call_abs",
          "jnz_imm", "mov_mem", "deref", "push_imm"}

Fits(i, kind) ==
  \/ kind = "ret"          /\ IsRet(i)
  \/ kind = "add_ap"       /\ IsAddAp(i)
  \/ kind = "jmp_rel_imm"  /\ IsJmpRelImm(i)
  \/ kind = "jmp_abs"      /\ IsJmpAbs(i)
  \/ kind = "call_rel_imm" /\ IsCallRelImm(i)
  \/ kind = "call_abs"     /\ IsCallAbs(i)
  \/ kind = "jnz_imm"      /\ IsJnzImm(i)
  \/ kind = "mov_mem"      /\ IsMovMem(i)
  \/ kind = "deref"        /\ IsDeref(i)
  \/ kind = "push_imm"     /\ IsPushImm(i)

Marks(i, kind) ==
  LET Has(f) == f \in i.flags
  IN /\ Has("opcode_ret") <=> kind = "ret"
     /\ Has("ap_update_add") <=> kind = "add_ap"
     /\ Has("opcode_call") <=> kind \in {"call_rel_imm", "call_abs"}
     /\ Has("pc_update_jump_rel") <=> kind \in {"jmp_rel_imm", "call_rel_imm"}
     /\ Has("pc_update_jump") <=> kind \in {"ret", "jmp_abs", "call_abs"}
     /\ Has("pc_update_jnz") <=> kind = "jnz_imm"
     /\ Has("opcode_assert_eq") <=> kind \in {"mov_mem", "deref", "push_imm"}
     /\ kind = "mov_mem" => Has("op1_base_fp") \/ Has("op1_base_ap")
     /\ kind = "deref" => ~ Has("op1_base_fp") /\ ~ Has("op1_base_ap") /\ ~ Has("op1_imm")
     /\ kind \in {"mov_mem", "push_imm"} => (Has("op1_imm") <=> kind = "push_imm")

LEMMA FitsMarks ==
  ASSUME NEW i, NEW kind \in Kinds, Fits(i, kind)
  PROVE  Marks(i, kind)
<1> DEFINE Has(f) == f \in i.flags
<1>1. ASSUME NEW pattern, NEW open, FlagsAre(i, pattern, open)
      PROVE  \A f : f \notin open => (Has(f) <=> f \in pattern)
  BY <1>1 DEF FlagsAre
<1>2. CASE kind = "ret" /\ IsRet(i)
  BY <1>1, <1>2 DEF IsRet, Marks, JumpFlags
<1>3. CASE kind = "add_ap" /\ IsAddAp(i)
  BY <1>1, <1>3 DEF IsAddAp, Marks, JumpFlags
<1>4. CASE kind = "jmp_rel_imm" /\ IsJmpRelImm(i)
  BY <1>1, <1>4 DEF IsJmpRelImm, Marks, JumpFlags, Inc
<1>5. CASE kind = "jmp_abs" /\ IsJmpAbs(i)
  BY <1>1, <1>5 DEF IsJmpAbs, Marks, JumpFlags, Inc, Bases
<1>6. CASE kind = "call_rel_imm" /\ IsCallRelImm(i)
  BY <1>1, <1>6 DEF IsCallRelImm, Marks
<1>7. CASE kind = "call_abs" /\ IsCallAbs(i)
  BY <1>1, <1>7 DEF IsCallAbs, Marks, Bases
<1>8. CASE kind = "jnz_imm" /\ IsJnzImm(i)
  BY <1>1, <1>8 DEF IsJnzImm, Marks, Inc
<1>9. CASE kind = "mov_mem" /\ IsMovMem(i)
  BY <1>1, <1>9 DEF IsMovMem, Marks, Bases, Inc, OneBase
<1>10. CASE kind = "deref" /\ IsDeref(i)
  BY <1>1, <1>10 DEF IsDeref, Marks, JumpFlags, Inc
<1>11. CASE kind = "push_imm" /\ IsPushImm(i)
  BY <1>1, <1>11 DEF IsPushImm, Marks, Inc
<1> QED BY <1>2, <1>3, <1>4, <1>5, <1>6, <1>7, <1>8, <1>9, <1>10, <1>11 DEF Fits

(* No instruction fits two patterns of push_instr, so the order in which   *)
(* the match tries them does not matter, and CASE may stand for it.        *)
THEOREM PatternsAreDisjoint ==
  ASSUME NEW i, NEW j \in Kinds, NEW k \in Kinds, Fits(i, j), Fits(i, k)
  PROVE  j = k
<1>1. Marks(i, j) /\ Marks(i, k)
  BY FitsMarks
<1> QED BY <1>1 DEF Marks, Kinds

(* An instruction is put in the list of the pattern it fits.               *)
THEOREM ListOfFits ==
  ASSUME NEW i, NEW taken, NEW kind \in Kinds, Fits(i, kind)
  PROVE  ListOf(i, taken)[1] = kind
<1>1. \A k \in Kinds : Fits(i, k) => k = kind
  BY PatternsAreDisjoint
<1>2. /\ IsRet(i) <=> kind = "ret"
      /\ IsAddAp(i) <=> kind = "add_ap"
      /\ IsJmpRelImm(i) <=> kind = "jmp_rel_imm"
      /\ IsJmpAbs(i) <=> kind = "jmp_abs"
      /\ IsCallRelImm(i) <=> kind = "call_rel_imm"
      /\ IsCallAbs(i) <=> kind = "call_abs"
      /\ IsJnzImm(i) <=> kind = "jnz_imm"
      /\ IsMovMem(i) <=> kind = "mov_mem"
      /\ IsDeref(i) <=> kind = "deref"
      /\ IsPushImm(i) <=> kind = "push_imm"
  BY <1>1 DEF Fits, Kinds
<1> QED BY <1>2 DEF ListOf, List, Kinds

(* There is a list for every instruction.                                  *)
LEMMA ListOfType ==
  ASSUME NEW i, NEW taken \in BOOLEAN
  PROVE  ListOf(i, taken) \in ListNames
<1> DEFINE fp == Bit("op1_base_fp" \in i.flags)  inc == Bit(Inc \in i.flags)
           dst == Bit("dst_base_fp" \in i.flags)
<1>1. fp \in 0 .. 1 /\ inc \in 0 .. 1 /\ dst \in 0 .. 1 /\ Bit(taken) \in 0 .. 1
  BY DEF Bit
<1> HIDE DEF fp, inc, dst
<1>2. /\ inc \in 0 .. 1 /\ fp + 2 * inc \in 0 .. 3 /\ fp \in 0 .. 1
      /\ dst + 2 * Bit(taken) + 4 * inc \in 0 .. 7
  BY <1>1
<1>3. /\ List("jmp_rel_imm", inc) \in ListNames
      /\ List("jmp_abs", fp + 2 * inc) \in ListNames
      /\ List("call_abs", fp) \in ListNames
      /\ List("jnz_imm", dst + 2 * Bit(taken) + 4 * inc) \in ListNames
  BY <1>2 DEF ListNames
<1>4. \A n \in {"ret", "add_ap", "call_rel_imm", "mov_mem", "deref", "push_imm",
                "generic"} : List(n, 0) \in ListNames
  BY DEF ListNames
<1> QED BY <1>3, <1>4 DEF ListOf, Generic, fp, inc, dst

(* A word below the flags is in the list of none of them.                  *)
LEMMA NoFlagsIsGeneric ==
  ASSUME NEW word, FlagBits(word) = 0, NEW taken
  PROVE  /\ ListOf(DecodeInst(word), taken) = Generic
         /\ ~ IsJnzImm(DecodeInst(word))
<1> DEFINE i == DecodeInst(word)
<1>1. \A k \in 1 .. 15 : ~ BitSet(0, k)
  <2>1. \A k \in 1 .. 15 : BitWeight[k] \in Nat \ {0}
    BY DEF BitWeight
  <2>2. ASSUME NEW w \in Nat \ {0}
        PROVE  (0 \div w) % 2 = 0
    <3>1. 0 \div w = 0
      OBVIOUS
    <3> QED BY <3>1
  <2> QED BY <2>1, <2>2 DEF BitSet
<1>2. i.flags = {}
  BY <1>1 DEF DecodeInst
<1> HIDE DEF i
<1>3. /\ ~ IsRet(i) /\ ~ IsAddAp(i) /\ ~ IsJmpRelImm(i) /\ ~ IsJmpAbs(i)
      /\ ~ IsCallRelImm(i) /\ ~ IsCallAbs(i) /\ ~ IsJnzImm(i) /\ ~ IsMovMem(i)
      /\ ~ IsDeref(i) /\ ~ IsPushImm(i)
  BY <1>2 DEF IsRet, IsAddAp, IsJmpRelImm, IsJmpAbs, IsCallRelImm, IsCallAbs,
              IsJnzImm, IsMovMem, IsDeref, IsPushImm, FlagsAre
<1> QED BY <1>3 DEF ListOf, i

LEMMA NarrowIsGeneric ==
  ASSUME NarrowField, NEW word \in M31, NEW taken
  PROVE  /\ ListOf(DecodeInst(word), taken) = Generic
         /\ ~ IsJnzImm(DecodeInst(word))
<1> DEFINE O == Offsets * Offsets * Offsets
<1>1. O \in Nat /\ P <= O
  BY OffsetsAssumption DEF NarrowField
<1>2. word \in Nat /\ word < O
  BY <1>1, PAssumption DEF M31
<1> HIDE DEF O
<1>3. word \div O = 0
  BY <1>1, <1>2
<1>4. FlagBits(word) = 0
  BY <1>3 DEF FlagBits, O
<1> QED BY <1>4, NoFlagsIsGeneric

(* A state goes to the list that the word at its pc asks for.              *)
LEMMA PushInstrIs ==
  ASSUME NEW b, IsBuilder(b), InstsOK(b), NEW lists, NEW s,
         NEW p \in PushInstr(b, lists, s)
  PROVE  \E inst \in M31 : \E t \in BOOLEAN :
           /\ MemGet(b, s.pc) = {Felt(inst)}
           /\ t \in Taken(b, DecodeInst(inst), s)
           /\ p.lists = [lists EXCEPT ![ListOf(DecodeInst(inst), t)] =
                            Append(lists[ListOf(DecodeInst(inst), t)], s)]
           /\ IsBuilder(p.builder) /\ SameCells(b, p.builder) /\ InstsOK(p.builder)
           /\ DOMAIN p.builder.inst_cache = DOMAIN b.inst_cache \cup {s.pc}
<1>1. PICK g \in GetInst(b, s.pc) : \E t \in Taken(g.builder, DecodeInst(g.inst), s) :
        p = [builder |-> g.builder,
             lists |-> [lists EXCEPT ![ListOf(DecodeInst(g.inst), t)] =
                          Append(lists[ListOf(DecodeInst(g.inst), t)], s)]]
  BY DEF PushInstr
<1>2. PICK t \in Taken(g.builder, DecodeInst(g.inst), s) :
        p = [builder |-> g.builder,
             lists |-> [lists EXCEPT ![ListOf(DecodeInst(g.inst), t)] =
                          Append(lists[ListOf(DecodeInst(g.inst), t)], s)]]
  BY <1>1
<1>3. /\ g.inst \in M31
      /\ MemGet(b, s.pc) = {Felt(g.inst)}
      /\ IsBuilder(g.builder) /\ SameCells(b, g.builder) /\ InstsOK(g.builder)
      /\ DOMAIN g.builder.inst_cache = DOMAIN b.inst_cache \cup {s.pc}
  BY GetInstIs
<1>4. \A a : MemGet(g.builder, a) = MemGet(b, a)
  BY <1>3, SameReads
<1>5. Taken(g.builder, DecodeInst(g.inst), s) = Taken(b, DecodeInst(g.inst), s)
  BY <1>4 DEF Taken
<1>6. Taken(b, DecodeInst(g.inst), s) \subseteq BOOLEAN
  BY DEF Taken
<1>7. /\ p.builder = g.builder
      /\ p.lists = [lists EXCEPT ![ListOf(DecodeInst(g.inst), t)] =
                      Append(lists[ListOf(DecodeInst(g.inst), t)], s)]
  BY <1>2
<1>8. t \in BOOLEAN /\ t \in Taken(b, DecodeInst(g.inst), s)
  BY <1>5, <1>6
<1> g.inst \in M31 /\ t \in BOOLEAN
  BY <1>3, <1>8
<1> WITNESS g.inst \in M31
<1> WITNESS t \in BOOLEAN
<1> QED BY <1>3, <1>7, <1>8
-----------------------------------------------------------------------------
(* What is sorted.                                                         *)

LEMMA SameLists ==
  ASSUME NEW b, NEW c, SameCells(b, c)
  PROVE  \A s : ListsFor(c, s) = ListsFor(b, s)
<1>1. \A a : MemGet(c, a) = MemGet(b, a)
  BY SameReads
<1>2. \A i, s : Taken(c, i, s) = Taken(b, i, s)
  BY <1>1 DEF Taken
<1> QED BY <1>1, <1>2 DEF ListsFor

(* An address reads as one value at most, so that a state asks for one     *)
(* list at most.                                                           *)
LEMMA ListsForIs ==
  ASSUME NEW b, NEW s, NEW inst \in M31, MemGet(b, s.pc) = {Felt(inst)},
         NEW t \in Taken(b, DecodeInst(inst), s)
  PROVE  ListsFor(b, s) = {ListOf(DecodeInst(inst), t)}
<1> DEFINE i == DecodeInst(inst)
           addr == (IF "dst_base_fp" \in i.flags THEN s.fp ELSE s.ap) + i.offset0
<1>1. Felt(inst)[1][1] = inst
  BY DEF Felt
<1>2. ListsFor(b, s) = {ListOf(i, u) : u \in Taken(b, i, s)}
  BY <1>1 DEF ListsFor
<1> HIDE DEF i
<1>3. ASSUME NEW u \in Taken(b, i, s)
      PROVE  u = t
  <2>1. CASE IsJnzImm(i)
    <3>1. /\ t \in {q # QZero : q \in MemGet(b, addr)}
          /\ u \in {q # QZero : q \in MemGet(b, addr)}
      BY <2>1, <1>3 DEF Taken, i
    <3>2. \A p, q \in MemGet(b, addr) : p = q
      BY DEF MemGet
    <3> HIDE DEF addr
    <3>3. PICK p \in MemGet(b, addr) : t = (p # QZero)
      BY <3>1
    <3>4. PICK q \in MemGet(b, addr) : u = (q # QZero)
      BY <3>1
    <3> QED BY <3>2, <3>3, <3>4
  <2>2. CASE ~ IsJnzImm(i)
    BY <2>2, <1>3 DEF Taken, i
  <2> QED BY <2>1, <2>2
<1>4. {ListOf(i, u) : u \in Taken(b, i, s)} = {ListOf(i, t)}
  <2>1. t \in Taken(b, i, s)
    BY DEF i
  <2> QED BY <1>3, <2>1
<1> QED BY <1>2, <1>4 DEF i

(* The states that go to one list, as far as they were read.               *)
GoesTo(b, s, l) == ListsFor(b, s) = {l}

Placed(b, states, l, n) == {k \in 1 .. n : GoesTo(b, states[k], l)}

Sorted(b, states, n, lists) ==
  /\ \A k \in 1 .. n : \E l \in ListNames : k \in Placed(b, states, l, k)
  /\ \A l \in ListNames :
       /\ Len(lists[l]) = Cardinality(Placed(b, states, l, n))
       /\ \A k \in Placed(b, states, l, n) :
            lists[l][Cardinality(Placed(b, states, l, k))] = states[k]

(* A list and a state more: the state is counted in this list and in no    *)
(* other.                                                                  *)
LEMMA OneList ==
  ASSUME NEW b, NEW s, NEW l, NEW m, GoesTo(b, s, l), GoesTo(b, s, m)
  PROVE  l = m
<1>1. ListsFor(b, s) = {l} /\ ListsFor(b, s) = {m}
  BY DEF GoesTo
<1> QED BY <1>1

LEMMA PlacedGrows ==
  ASSUME NEW b, NEW states, NEW n \in Nat, NEW next, next = n + 1,
         NEW l, NEW m, GoesTo(b, states[next], l)
  PROVE  /\ Cardinality(Placed(b, states, m, n)) \in Nat
         /\ Cardinality(Placed(b, states, m, next))
              = Cardinality(Placed(b, states, m, n)) + (IF m = l THEN 1 ELSE 0)
         /\ \A k \in Placed(b, states, m, next) :
              k \in Placed(b, states, m, n) \/ (k = next /\ m = l)
<1>1. IsFiniteSet(Placed(b, states, m, n)) /\ next \notin Placed(b, states, m, n)
  <2>1. IsFiniteSet(1 .. n)
    BY FS_Interval
  <2> QED BY <2>1, FS_Subset DEF Placed
<1>2. Cardinality(Placed(b, states, m, n)) \in Nat
  BY <1>1, FS_CardinalityType
<1>3. 1 .. next = 1 .. n \cup {next}
  OBVIOUS
<1>4. CASE m = l
  <2>1. Placed(b, states, m, next) = Placed(b, states, m, n) \cup {next}
    BY <1>3, <1>4 DEF Placed
  <2> QED BY <1>1, <1>2, <1>4, <2>1, FS_AddElement
<1>5. CASE m # l
  <2>1. ~ GoesTo(b, states[next], m)
    BY <1>5, OneList
  <2>2. Placed(b, states, m, next) = Placed(b, states, m, n)
    BY <1>3, <2>1 DEF Placed
  <2> QED BY <1>2, <1>5, <2>2
<1> QED BY <1>4, <1>5

(* A state has a place among those read so far.                            *)
LEMMA PlaceIs ==
  ASSUME NEW b, NEW states, NEW n \in Nat, NEW l, NEW k \in Placed(b, states, l, n)
  PROVE  Cardinality(Placed(b, states, l, k)) \in 1 .. Cardinality(Placed(b, states, l, n))
<1>1. k \in 1 .. n
  BY DEF Placed
<1>2. IsFiniteSet(Placed(b, states, l, n))
  <2>1. IsFiniteSet(1 .. n)
    BY FS_Interval
  <2> QED BY <2>1, FS_Subset DEF Placed
<1>3. Placed(b, states, l, k) \subseteq Placed(b, states, l, n)
  BY <1>1 DEF Placed, GoesTo
<1>4. k \in Placed(b, states, l, k)
  BY <1>1 DEF Placed, GoesTo
<1>5. /\ IsFiniteSet(Placed(b, states, l, k))
      /\ Cardinality(Placed(b, states, l, k)) <= Cardinality(Placed(b, states, l, n))
  BY <1>2, <1>3, FS_Subset
<1>6. /\ Cardinality(Placed(b, states, l, k)) \in Nat
      /\ Cardinality(Placed(b, states, l, n)) \in Nat
      /\ Cardinality(Placed(b, states, l, k)) # 0
  BY <1>2, <1>4, <1>5, FS_CardinalityType, FS_EmptySet
<1> QED BY <1>5, <1>6

(* Sorting one state keeps the lists in order.                             *)
SortedNext(b, states, n, lists, l) ==
  Sorted(b, states, n + 1, [lists EXCEPT ![l] = Append(lists[l], states[n + 1])])

LEMMA SortedGrows ==
  ASSUME NEW b, NEW c, SameCells(b, c), NEW n \in Nat, NEW old, NEW new,
         \A k \in 1 .. n : new[k] = old[k],
         NEW lists \in [ListNames -> Seq(VmStates)], Sorted(b, old, n, lists),
         NEW l \in ListNames, GoesTo(b, new[n + 1], l), new[n + 1] \in VmStates
  PROVE  SortedNext(c, new, n, lists, l)
<1> DEFINE after == [lists EXCEPT ![l] = Append(lists[l], new[n + 1])]
           In(m, k) == Placed(b, new, m, k)
           C(m, k) == Cardinality(In(m, k))
<1>1. \A s : ListsFor(c, s) = ListsFor(b, s)
  BY SameLists
<1>2. \A m, k : Placed(c, new, m, k) = In(m, k)
  BY <1>1 DEF Placed, GoesTo
<1>3. ASSUME NEW m, NEW k \in 0 .. n
      PROVE  Placed(b, old, m, k) = In(m, k)
  <2>1. \A j \in 1 .. k : new[j] = old[j]
    OBVIOUS
  <2> QED BY <2>1 DEF Placed
<1>4. ASSUME NEW m
      PROVE  /\ C(m, n) \in Nat
             /\ C(m, n + 1) = C(m, n) + (IF m = l THEN 1 ELSE 0)
             /\ \A k \in In(m, n + 1) : k \in In(m, n) \/ (k = n + 1 /\ m = l)
  <2> HIDE DEF after
  <2> QED BY PlacedGrows
<1>5. ASSUME NEW m \in ListNames
      PROVE  /\ Len(lists[m]) = C(m, n)
             /\ \A k \in In(m, n) : /\ lists[m][C(m, k)] = new[k]
                                   /\ C(m, k) \in 1 .. Len(lists[m])
  <2>1. \A k \in In(m, n) : k \in 1 .. n
    BY DEF Placed
  <2>2. /\ Len(lists[m]) = Cardinality(Placed(b, old, m, n))
        /\ \A k \in Placed(b, old, m, n) :
             lists[m][Cardinality(Placed(b, old, m, k))] = old[k]
    BY DEF Sorted
  <2>3. Placed(b, old, m, n) = In(m, n)
    BY <1>3
  <2>4. \A k \in In(m, n) : C(m, k) \in 1 .. C(m, n)
    BY PlaceIs
  <2> HIDE DEF In
  <2> QED BY <1>3, <2>1, <2>2, <2>3, <2>4
<1>6. \A k \in 1 .. n + 1 : \E m \in ListNames : k \in In(m, k)
  <2> SUFFICES ASSUME NEW k \in 1 .. n + 1
               PROVE  \E m \in ListNames : k \in In(m, k)
    OBVIOUS
  <2>1. CASE k = n + 1
    BY <2>1 DEF Placed
  <2>2. CASE k \in 1 .. n
    <3>1. PICK m \in ListNames : k \in Placed(b, old, m, k)
      BY <2>2 DEF Sorted
    <3>2. k \in In(m, k)
      BY <1>3, <2>2, <3>1
    <3> QED BY <3>2
  <2> QED BY <2>1, <2>2
<1> HIDE DEF In
<1>7. ASSUME NEW m \in ListNames
      PROVE  /\ Len(after[m]) = C(m, n + 1)
             /\ \A k \in In(m, n + 1) : after[m][C(m, k)] = new[k]
  <2>1. CASE m = l
    <3>1. after[m] = Append(lists[m], new[n + 1]) /\ lists[m] \in Seq(VmStates)
      BY <2>1
    <3>2. /\ Len(after[m]) = Len(lists[m]) + 1
          /\ after[m][Len(lists[m]) + 1] = new[n + 1]
          /\ \A j \in 1 .. Len(lists[m]) : after[m][j] = lists[m][j]
      <4> HIDE DEF after
      <4> QED BY <3>1
    <3> HIDE DEF after
    <3> QED BY <1>4, <1>5, <2>1, <3>2
  <2>2. CASE m # l
    <3>1. after[m] = lists[m]
      BY <2>2
    <3> HIDE DEF after
    <3> QED BY <1>4, <1>5, <2>2, <3>1
  <2> QED BY <2>1, <2>2
<1> HIDE DEF after
<1>8. Sorted(c, new, n + 1, after)
  BY <1>2, <1>6, <1>7 DEF Sorted
<1> QED BY <1>8 DEF after, SortedNext

-----------------------------------------------------------------------------
(* The invariant of an import, inductive wherever its entries come from    *)
(* and whatever comes after it.                                            *)
EntriesOK ==
  /\ input.memory \in Seq([addr : Word, val : Raw])
  /\ input.trace \in Seq([pc : Nat, ap : Nat, fp : Nat])

Types ==
  /\ EntriesOK
  /\ memRead \in 0 .. Len(input.memory)
  /\ traceRead \in 0 .. Len(input.trace)
  /\ instructions \in [initial_state : VmStates, final_state : VmStates,
                       lists : [ListNames -> Seq(VmStates)]]

BuilderOK ==
  /\ IsBuilder(builder) /\ IdsOK(builder) /\ InstsOK(builder)
  /\ CellsOK(builder, input.memory, memRead)

(* What is known of the trace: its pcs are cached, it is not read before   *)
(* the memory is, and the states that were read are sorted.                *)
TraceOK ==
  /\ DOMAIN builder.inst_cache = {StateOf(input.trace[k]).pc : k \in 1 .. traceRead}
  /\ status \in {"open", "memory"} => traceRead = 0
  /\ Sorted(builder, States, traceRead, instructions.lists)
  /\ traceRead > 0 => instructions.initial_state = States[1]
  /\ instructions.final_state =
       IF traceRead > 1 THEN States[traceRead] ELSE VmState(0, 0, 0)

IInv == Types /\ BuilderOK /\ TraceOK /\ OnlyGeneric

LEMMA WordsAreNat ==
  /\ Word \subseteq Nat /\ 0 \in Word
  /\ \A n \in Nat : n % WordSize \in Word
BY WordAssumption, PAssumption DEF Word

LEMMA ElementType ==
  ASSUME NEW T, NEW s \in Seq(T), NEW k \in 1 .. Len(s)
  PROVE  s[k] \in T
OBVIOUS

LEMMA EntriesType ==
  ASSUME EntriesOK
  PROVE  /\ Len(input.memory) \in Nat /\ Len(input.trace) \in Nat
         /\ \A k \in 1 .. Len(input.memory) :
              input.memory[k].addr \in Word /\ input.memory[k].val \in Raw
         /\ \A k \in 1 .. Len(input.trace) : StateOf(input.trace[k]) \in VmStates
<1>1. /\ input.memory \in Seq([addr : Word, val : Raw])
      /\ input.trace \in Seq([pc : Nat, ap : Nat, fp : Nat])
  BY DEF EntriesOK
<1>2. ASSUME NEW e \in [pc : Nat, ap : Nat, fp : Nat]
      PROVE  StateOf(e) \in VmStates
  <2>1. e.pc % WordSize \in Word /\ e.ap % WordSize \in Word /\ e.fp % WordSize \in Word
    BY WordsAreNat
  <2> QED BY <2>1 DEF StateOf, VmState, VmStates
<1>3. Len(input.memory) \in Nat /\ Len(input.trace) \in Nat
  BY <1>1
<1>4. ASSUME NEW k \in 1 .. Len(input.memory)
      PROVE  input.memory[k].addr \in Word /\ input.memory[k].val \in Raw
  <2>1. input.memory[k] \in [addr : Word, val : Raw]
    BY <1>1, ElementType
  <2> QED BY <2>1
<1>5. ASSUME NEW k \in 1 .. Len(input.trace)
      PROVE  StateOf(input.trace[k]) \in VmStates
  <2>1. input.trace[k] \in [pc : Nat, ap : Nat, fp : Nat]
    BY <1>1, ElementType
  <2> QED BY <1>2, <2>1
<1> QED BY <1>3, <1>4, <1>5

(* Before anything is read every list is empty, and so it stays while the  *)
(* memory is read.                                                         *)
LEMMA NothingSorted ==
  ASSUME NEW b, NEW states, NEW lists
  PROVE  Sorted(b, states, 0, lists) <=> \A l \in ListNames : Len(lists[l]) = 0
<1>1. ASSUME NEW l
      PROVE  /\ Cardinality(Placed(b, states, l, 0)) = 0
             /\ \A k : k \notin Placed(b, states, l, 0)
  <2>1. Placed(b, states, l, 0) = {}
    BY DEF Placed
  <2> QED BY <2>1, FS_EmptySet
<1> QED BY <1>1 DEF Sorted

LEMMA NothingReadInv == ASSUME EntriesOK, NothingRead PROVE IInv
<1>1. memRead = 0 /\ traceRead = 0
  BY DEF NothingRead
<1>2. builder = NewBuilder /\ instructions = NoInstructions
  BY DEF NothingRead
<1>3. \A l \in ListNames : instructions.lists[l] = << >>
  BY <1>2 DEF NoInstructions
<1>4. Types
  <2>1. VmState(0, 0, 0) \in VmStates
    BY WordsAreNat DEF VmState, VmStates
  <2>2. [l \in ListNames |-> << >>] \in [ListNames -> Seq(VmStates)]
    OBVIOUS
  <2>3. instructions \in [initial_state : VmStates, final_state : VmStates,
                         lists : [ListNames -> Seq(VmStates)]]
    BY <1>2, <2>1, <2>2 DEF NoInstructions
  <2> QED BY <1>1, <2>3, EntriesType DEF Types
<1>5. DOMAIN builder.inst_cache = {}
  BY <1>2 DEF NewBuilder, EmptyMap
<1>6. BuilderOK
  BY <1>1, <1>2, <1>5, NewIsOK DEF BuilderOK, InstsOK
<1>7. TraceOK
  <2>1. {StateOf(input.trace[k]).pc : k \in 1 .. traceRead} = {}
    BY <1>1
  <2>2. Sorted(builder, States, 0, instructions.lists)
    BY <1>3, NothingSorted
  <2>3. instructions.final_state = VmState(0, 0, 0)
    BY <1>2 DEF NoInstructions
  <2> QED BY <1>1, <1>5, <2>1, <2>2, <2>3 DEF TraceOK
<1> QED BY <1>3, <1>4, <1>6, <1>7 DEF IInv, OnlyGeneric

(* Reading an entry of the memory: nothing is cached yet.                  *)
LEMMA ReadMemoryInv ==
  ASSUME IInv, ReadMemory
  PROVE  IInv'
<1> USE DEF IInv
<1>1. /\ UNCHANGED <<input, status, traceRead, instructions>>
      /\ status = "memory" /\ memRead < Len(input.memory)
      /\ memRead' = memRead + 1
      /\ builder' = AddEntry(builder, input.memory[memRead + 1])
  BY DEF ReadMemory
<1>2. traceRead = 0 /\ DOMAIN builder.inst_cache = {}
  BY <1>1 DEF TraceOK
<1>3. memRead \in Nat /\ memRead + 1 \in 0 .. Len(input.memory)
  BY <1>1, EntriesType DEF Types
<1>4. \A k \in 1 .. memRead + 1 :
        input.memory[k].addr \in Word /\ input.memory[k].val \in Raw
  BY <1>3, EntriesType DEF Types
<1>5. /\ IsBuilder(builder') /\ IdsOK(builder')
      /\ CellsOK(builder', input.memory, memRead + 1)
      /\ builder'.inst_cache = builder.inst_cache
  BY <1>1, <1>3, <1>4, AddEntryIs DEF BuilderOK
<1>6. InstsOK(builder')
  BY <1>2, <1>5 DEF InstsOK
<1>7. BuilderOK'
  BY <1>1, <1>5, <1>6 DEF BuilderOK
<1>8. Types'
  BY <1>1, <1>3 DEF Types, EntriesOK
<1>9. TraceOK'
  <2>1. Sorted(builder', States', 0, instructions'.lists)
    BY <1>1, <1>2, NothingSorted DEF TraceOK
  <2> QED BY <1>1, <1>2, <1>5, <2>1 DEF TraceOK
<1>10. OnlyGeneric'
  BY <1>1 DEF OnlyGeneric
<1> QED BY <1>7, <1>8, <1>9, <1>10

(* Sorting a state: the cells stay, its pc is cached, one list grows.      *)
LEMMA ReadTraceIs ==
  ASSUME IInv, ReadTrace
  PROVE  /\ UNCHANGED <<input, status, memRead>>
         /\ traceRead < Len(input.trace) /\ traceRead' = traceRead + 1
         /\ IsBuilder(builder') /\ SameCells(builder, builder') /\ InstsOK(builder')
         /\ LET s == StateOf(input.trace[traceRead + 1])
            IN /\ s \in VmStates
               /\ DOMAIN builder'.inst_cache = DOMAIN builder.inst_cache \cup {s.pc}
               /\ instructions'.initial_state =
                    IF traceRead = 0 THEN s ELSE instructions.initial_state
               /\ instructions'.final_state =
                    IF traceRead = 0 THEN instructions.final_state ELSE s
               /\ instructions' = [initial_state |-> instructions'.initial_state,
                                   final_state |-> instructions'.final_state,
                                   lists |-> instructions'.lists]
               /\ \E inst \in M31 : \E t \in BOOLEAN :
                    LET l == ListOf(DecodeInst(inst), t)
                    IN /\ MemGet(builder, s.pc) = {Felt(inst)}
                       /\ t \in Taken(builder, DecodeInst(inst), s)
                       /\ instructions'.lists =
                            [instructions.lists EXCEPT
                               ![l] = Append(instructions.lists[l], s)]
<1> DEFINE s == StateOf(input.trace[traceRead + 1])
<1>1. PICK p \in PushInstr(builder, instructions.lists, s) :
        /\ builder' = p.builder
        /\ instructions' = [EndStates(traceRead, s) EXCEPT !.lists = p.lists]
  BY DEF ReadTrace, Pushed
<1>2. /\ UNCHANGED <<input, status, memRead>>
      /\ traceRead < Len(input.trace) /\ traceRead' = traceRead + 1
  BY DEF ReadTrace, Sorting
<1>3. s \in VmStates
  BY <1>2, EntriesType DEF IInv, Types
<1>4. \E inst \in M31 : \E t \in BOOLEAN :
        /\ MemGet(builder, s.pc) = {Felt(inst)}
        /\ t \in Taken(builder, DecodeInst(inst), s)
        /\ p.lists = [instructions.lists EXCEPT ![ListOf(DecodeInst(inst), t)] =
                        Append(instructions.lists[ListOf(DecodeInst(inst), t)], s)]
        /\ IsBuilder(p.builder) /\ SameCells(builder, p.builder) /\ InstsOK(p.builder)
        /\ DOMAIN p.builder.inst_cache = DOMAIN builder.inst_cache \cup {s.pc}
  <2> HIDE DEF s
  <2> QED BY PushInstrIs DEF IInv, BuilderOK
<1> HIDE DEF s
<1>5. instructions \in [initial_state : VmStates, final_state : VmStates,
                       lists : [ListNames -> Seq(VmStates)]]
  BY DEF IInv, Types
<1>6. /\ instructions'.lists = p.lists
      /\ instructions'.initial_state =
           IF traceRead = 0 THEN s ELSE instructions.initial_state
      /\ instructions'.final_state =
           IF traceRead = 0 THEN instructions.final_state ELSE s
      /\ instructions' = [initial_state |-> instructions'.initial_state,
                          final_state |-> instructions'.final_state,
                          lists |-> instructions'.lists]
  BY <1>1, <1>5 DEF EndStates
<1> QED BY <1>1, <1>2, <1>3, <1>4, <1>6 DEF s

LEMMA ReadTraceInv ==
  ASSUME IInv, ReadTrace
  PROVE  IInv'
<1> DEFINE s == StateOf(input.trace[traceRead + 1])
           old == instructions.lists
<1>1. /\ UNCHANGED <<input, status, memRead>>
      /\ traceRead < Len(input.trace) /\ traceRead' = traceRead + 1
      /\ IsBuilder(builder') /\ SameCells(builder, builder') /\ InstsOK(builder')
      /\ s \in VmStates
      /\ DOMAIN builder'.inst_cache = DOMAIN builder.inst_cache \cup {s.pc}
      /\ instructions'.initial_state =
           IF traceRead = 0 THEN s ELSE instructions.initial_state
      /\ instructions'.final_state =
           IF traceRead = 0 THEN instructions.final_state ELSE s
      /\ instructions' = [initial_state |-> instructions'.initial_state,
                          final_state |-> instructions'.final_state,
                          lists |-> instructions'.lists]
  BY ReadTraceIs
<1>2. PICK inst \in M31, t \in BOOLEAN :
        /\ MemGet(builder, s.pc) = {Felt(inst)}
        /\ t \in Taken(builder, DecodeInst(inst), s)
        /\ instructions'.lists =
             [old EXCEPT ![ListOf(DecodeInst(inst), t)] =
                            Append(old[ListOf(DecodeInst(inst), t)], s)]
  BY ReadTraceIs
<1> DEFINE l == ListOf(DecodeInst(inst), t)
<1>3. l \in ListNames
  BY ListOfType
<1>4. traceRead \in Nat /\ traceRead' \in 0 .. Len(input.trace) /\ traceRead' > 0
  BY <1>1, EntriesType DEF IInv, Types
<1>5. old \in [ListNames -> Seq(VmStates)]
  BY DEF IInv, Types
<1>6. status = "trace"
  BY DEF ReadTrace, Sorting
<1> HIDE DEF s
<1>7. instructions'.lists \in [ListNames -> Seq(VmStates)]
  <2>1. Append(old[l], s) \in Seq(VmStates)
    BY <1>1, <1>3, <1>5
  <2> HIDE DEF l, old
  <2> QED BY <1>2, <1>3, <1>5, <2>1 DEF l
<1>8. Types'
  <2>1. /\ instructions.initial_state \in VmStates
        /\ instructions.final_state \in VmStates
    BY DEF IInv, Types
  <2>2. instructions' \in [initial_state : VmStates, final_state : VmStates,
                          lists : [ListNames -> Seq(VmStates)]]
    BY <1>1, <1>7, <2>1
  <2> QED BY <1>1, <1>4, <2>2 DEF IInv, Types, EntriesOK
<1>9. BuilderOK'
  BY <1>1, SameIsOK DEF IInv, BuilderOK
<1>10. TraceOK'
  <2>1. 1 .. traceRead + 1 = 1 .. traceRead \cup {traceRead + 1}
    BY <1>4
  <2>2. {StateOf(input.trace[k]).pc : k \in 1 .. traceRead + 1}
          = {StateOf(input.trace[k]).pc : k \in 1 .. traceRead} \cup {s.pc}
    BY <2>1 DEF s
  <2>3. DOMAIN builder'.inst_cache
          = {StateOf(input'.trace[k]).pc : k \in 1 .. traceRead'}
    BY <1>1, <2>2 DEF IInv, TraceOK
  <2>4. traceRead' # 0 /\ status' = "trace"
    BY <1>1, <1>4, <1>6
  <2> DEFINE n == traceRead
  <2>5. /\ States = [k \in 1 .. n |-> StateOf(input.trace[k])]
        /\ States' = [k \in 1 .. n + 1 |-> StateOf(input.trace[k])]
    BY <1>1 DEF States
  <2>6. /\ \A k \in 1 .. n : States'[k] = States[k]
        /\ States'[n + 1] = s
        /\ n > 0 => States'[1] = States[1]
    BY <1>4, <2>5 DEF s
  <2>7. GoesTo(builder, s, l)
    BY <1>2, ListsForIs DEF GoesTo
  <2>8. Sorted(builder, States, n, old)
    BY DEF IInv, TraceOK
  <2>9. Sorted(builder', States', n + 1, instructions'.lists)
    <3> HIDE DEF l, old, n
    <3>1. n \in Nat /\ GoesTo(builder, States'[n + 1], l) /\ States'[n + 1] \in VmStates
      BY <1>1, <1>4, <2>6, <2>7 DEF n
    <3>2. SortedNext(builder', States', n, old, l)
      BY <1>1, <1>3, <1>5, <2>6, <2>8, <3>1, SortedGrows
    <3> QED BY <1>2, <2>6, <3>2 DEF SortedNext, l
  <2>10. /\ instructions'.initial_state = States'[1]
         /\ instructions'.final_state = IF n + 1 > 1 THEN States'[n + 1]
                                        ELSE VmState(0, 0, 0)
    BY <1>1, <1>4, <2>6 DEF IInv, TraceOK
  <2> QED BY <1>1, <2>3, <2>4, <2>9, <2>10 DEF TraceOK
<1>11. OnlyGeneric'
  <2> SUFFICES ASSUME NarrowField, NEW m \in ListNames \ {Generic}
               PROVE  instructions'.lists[m] = << >>
    BY DEF OnlyGeneric, NarrowField
  <2>1. l = Generic
    BY NarrowIsGeneric
  <2>2. old[m] = << >>
    BY DEF IInv, OnlyGeneric
  <2> QED BY <1>2, <1>5, <2>1, <2>2
<1> QED BY <1>8, <1>9, <1>10, <1>11 DEF IInv

(* A step that moves the import on and reads nothing.                      *)
LEMMA StageInv ==
  ASSUME IInv,
         UNCHANGED <<input, memRead, traceRead, builder, instructions>>,
         status' \in {"open", "memory"} => traceRead = 0
  PROVE  IInv'
<1>1. Types'
  BY DEF IInv, Types, EntriesOK
<1>2. BuilderOK'
  BY DEF IInv, BuilderOK
<1>3. TraceOK'
  <2>1. States' = States
    BY DEF States
  <2> QED BY <2>1 DEF IInv, TraceOK
<1>4. OnlyGeneric'
  BY DEF IInv, OnlyGeneric
<1> QED BY <1>1, <1>2, <1>3, <1>4 DEF IInv

-----------------------------------------------------------------------------
(* What the invariant says at every moment of the import.                  *)

LEMMA EntriesAre ==
  ASSUME memRead \in Nat
  PROVE  /\ DOMAIN Entries = 1 .. memRead
         /\ \A k \in 1 .. memRead : Entries[k] = input.memory[k]
         /\ \A k \in 1 .. memRead : LastEntry(k) <=> LastOf(input.memory, memRead, k)
<1>1. DOMAIN Entries = 1 .. memRead
  BY DEF Entries
<1>2. \A k \in 1 .. memRead : Entries[k] = input.memory[k]
  BY DEF Entries
<1>3. ASSUME NEW k \in 1 .. memRead
      PROVE  LastEntry(k) <=> LastOf(input.memory, memRead, k)
  BY <1>2 DEF LastEntry, LastOf
<1> QED BY <1>1, <1>2, <1>3

(* What can be read at any moment of the import.                           *)
LEMMA WrittenReads ==
  ASSUME IInv
  PROVE  /\ memRead \in Nat
         /\ \A k \in 1 .. memRead : LastOf(input.memory, memRead, k) =>
              Reads(builder, input.memory[k].addr, Reduce(input.memory[k].val))
         /\ \A a \in DOMAIN builder.address_to_value_index :
              (\A k \in 1 .. memRead : input.memory[k].addr # a)
                => Reads(builder, a, Reduce(input.memory[1].val))
         /\ DOMAIN builder.address_to_value_index
              = UNION {0 .. input.memory[k].addr : k \in 1 .. memRead}
<1>1. memRead \in Nat
  BY EntriesType DEF IInv, Types
<1>2. \A k \in 1 .. memRead : input.memory[k].addr \in Word /\ input.memory[k].val \in Raw
  BY EntriesType DEF IInv, Types
<1>3. IdsOK(builder) /\ CellsOK(builder, input.memory, memRead)
  BY DEF IInv, BuilderOK
<1>4. DOMAIN builder.address_to_value_index
        = UNION {0 .. input.memory[k].addr : k \in 1 .. memRead}
  BY <1>3 DEF CellsOK
<1> QED BY <1>1, <1>2, <1>3, <1>4, MemGetIs

(* Every address reads as its last entry says, a hole as the first entry   *)
(* and nothing beyond the largest address, at every moment of the import.  *)
LEMMA ReadsBackHolds == ASSUME IInv PROVE ReadsBack
<1>1. memRead \in Nat
  BY WrittenReads
<1>2. DOMAIN builder.address_to_value_index
        = UNION {0 .. input.memory[k].addr : k \in 1 .. memRead}
  BY WrittenReads
<1>3. DOMAIN builder.address_to_value_index # {} => 1 \in 1 .. memRead
  BY <1>1, <1>2
<1>4. UNION {0 .. Entries[k].addr : k \in DOMAIN Entries}
        = UNION {0 .. input.memory[k].addr : k \in 1 .. memRead}
  BY <1>1, EntriesAre
<1>5. /\ \A k \in 1 .. memRead : LastOf(input.memory, memRead, k) =>
           Reads(builder, input.memory[k].addr, Reduce(input.memory[k].val))
      /\ \A a \in DOMAIN builder.address_to_value_index :
           (\A k \in 1 .. memRead : input.memory[k].addr # a)
             => Reads(builder, a, Reduce(input.memory[1].val))
  BY WrittenReads
<1> QED BY <1>1, <1>2, <1>3, <1>4, <1>5, EntriesAre DEF ReadsBack, Reads

(* Written addresses share an id exactly when they were given the same     *)
(* word, however many words have the same value.                           *)
LEMMA IdsAreWordsHolds == ASSUME IInv PROVE IdsAreWords
<1>1. IdsOK(builder) /\ CellsOK(builder, input.memory, memRead) /\ memRead \in Nat
  BY EntriesType DEF IInv, BuilderOK, Types
<1>2. ASSUME NEW k \in 1 .. memRead, LastEntry(k)
      PROVE  /\ Entries[k].val \in DOMAIN builder.felt31_id_cache
             /\ builder.address_to_value_index[Entries[k].addr]
                   = builder.felt31_id_cache[Entries[k].val]
  BY <1>1, <1>2, EntriesAre DEF CellsOK
<1> QED BY <1>1, <1>2, EntriesAre DEF IdsOK, IdsAreWords

(* The instruction cache never holds anything but what the memory does.    *)
LEMMA InstFreshHolds == ASSUME IInv PROVE InstFresh
<1>1. {States[k].pc : k \in DOMAIN States}
        = {StateOf(input.trace[k]).pc : k \in 1 .. traceRead}
  BY DEF States
<1> QED BY <1>1 DEF IInv, BuilderOK, InstsOK, TraceOK, InstFresh

(* Every state is in the list that the memory asks for, in the order of    *)
(* the trace.                                                              *)
LEMMA ListsFollowTraceHolds == ASSUME IInv PROVE ListsFollowTrace
<1>1. \A l, n : InList(l, n) = Placed(builder, States, l, n)
  BY DEF InList, Placed, GoesTo
<1>2. Sorted(builder, States, traceRead, instructions.lists)
  BY DEF IInv, TraceOK
<1>3. /\ \A k \in 1 .. traceRead : \E l \in ListNames : k \in InList(l, k)
      /\ \A l \in ListNames :
           /\ Len(instructions.lists[l]) = Cardinality(InList(l, traceRead))
           /\ \A k \in InList(l, traceRead) :
                instructions.lists[l][Cardinality(InList(l, k))] = States[k]
  BY <1>1, <1>2 DEF Sorted
<1>4. DOMAIN States = 1 .. traceRead
  BY DEF States
<1> QED BY <1>3, <1>4 DEF IInv, TraceOK, ListsFollowTrace

-----------------------------------------------------------------------------
(* The import is the plain map RunImage.                                   *)

First(b) == IF b.f31_values = << >> THEN {} ELSE {b.f31_values[1]}

(* An image and its builder read the same.                                 *)
LEMMA AtIsMemGet ==
  ASSUME NEW b, NEW a
  PROVE  At(ImageOf(b), a) = MemGet(b, a)
BY DEF At, ImageOf, MemGet

LEMMA ListsInIs ==
  ASSUME NEW b, NEW s, NEW inst \in M31, MemGet(b, s.pc) = {Felt(inst)},
         NEW t \in Taken(b, DecodeInst(inst), s)
  PROVE  ListOf(DecodeInst(inst), t) \in ListsIn(ImageOf(b), s)
<1> DEFINE q == Felt(inst)
           i == DecodeInst(q[1][1])
           addr == (IF "dst_base_fp" \in i.flags THEN s.fp ELSE s.ap) + i.offset0
           tested == At(ImageOf(b), addr)
           lists == IF IsJnzImm(i) THEN {ListOf(i, v # QZero) : v \in tested}
                    ELSE {ListOf(i, FALSE)}
<1>1. q \in BaseField /\ q[1][1] = inst
  BY PAssumption DEF Felt, BaseField, QM31, CM31, M31, CZero
<1>2. q \in At(ImageOf(b), s.pc) \cap BaseField
  BY <1>1, AtIsMemGet
<1>3. lists \subseteq ListsIn(ImageOf(b), s)
  <2> HIDE DEF q
  <2> QED BY <1>2 DEF ListsIn
<1>4. i = DecodeInst(inst)
  BY <1>1
<1> HIDE DEF q, i
<1>5. ListOf(i, t) \in lists
  <2>1. CASE IsJnzImm(i)
    <3>1. t \in {v # QZero : v \in MemGet(b, addr)}
      BY <1>4, <2>1 DEF Taken
    <3>2. tested = MemGet(b, addr)
      BY AtIsMemGet
    <3> HIDE DEF tested, addr
    <3> QED BY <2>1, <3>1, <3>2
  <2>2. CASE ~ IsJnzImm(i)
    <3>1. t = FALSE
      BY <1>4, <2>2 DEF Taken
    <3> QED BY <2>2, <3>1
  <2> QED BY <2>1, <2>2
<1> QED BY <1>3, <1>4, <1>5

LEMMA InitIsImageInit == ASSUME NothingRead PROVE Image!RInit
<1>1. builder = NewBuilder /\ instructions = NoInstructions
  BY DEF NothingRead
<1>2. ImageOf(builder) = [a \in {} |-> a]
  BY <1>1 DEF ImageOf, NewBuilder, EmptyMap
<1>3. First(builder) = {} /\ instructions.lists = [l \in ListNames |-> << >>]
  BY <1>1 DEF First, NewBuilder, NoInstructions
<1> QED BY <1>2, <1>3 DEF Image!RInit, First

(* An entry is stored at its address, and the holes read as the first one. *)
LEMMA ReadMemoryStores == ASSUME IInv, ReadMemory PROVE Image!Store
<1> DEFINE file == input.memory
           new == input.memory[memRead + 1]
           a == new.addr
           b == builder
           c == builder'
           f == b.address_to_value_index
           g == c.address_to_value_index
<1>1. /\ memRead \in Nat /\ memRead < Len(file) /\ c = AddEntry(b, new)
      /\ instructions' = instructions /\ traceRead = 0
  BY EntriesType DEF ReadMemory, IInv, Types, TraceOK
<1>2. a \in Nat /\ new.val \in Raw
  <2>1. EntriesOK
    BY DEF IInv, Types
  <2>2. Len(file) \in Nat /\ \A k \in 1 .. Len(file) : file[k].addr \in Word /\ file[k].val \in Raw
    BY <2>1, EntriesType
  <2>3. memRead + 1 \in 1 .. Len(file)
    BY <1>1, <2>2
  <2>4. a \in Word /\ new.val \in Raw
    BY <2>2, <2>3
  <2> QED BY <2>4, WordsAreNat
<1>3. IsBuilder(b) /\ IdsOK(b) /\ CellsOK(b, file, memRead)
  BY DEF IInv, BuilderOK
<1> DEFINE d == WithId(b, new.val)
<1>4. /\ IsBuilder(d) /\ IdsOK(d)
      /\ d.address_to_value_index = f
      /\ new.val \in DOMAIN d.felt31_id_cache
      /\ Len(b.f31_values) <= Len(d.f31_values)
      /\ \A j \in 1 .. Len(b.f31_values) : d.f31_values[j] = b.f31_values[j]
      /\ b.f31_values = << >> => d.felt31_id_cache[new.val] = 0
  BY <1>2, <1>3, WithIdIs
<1>5. c = Set(d, a, d.felt31_id_cache[new.val])
  BY <1>1 DEF AddEntry
<1> DEFINE id == d.felt31_id_cache[new.val]
           v == b.f31_values
           w == c.f31_values
<1> HIDE DEF d
<1>6. /\ w = d.f31_values
      /\ DOMAIN g = DOMAIN f \cup 0 .. a
      /\ \A x \in DOMAIN g :
           g[x] = IF x = a THEN id ELSE IF x \in DOMAIN f THEN f[x] ELSE 0
  BY <1>4, <1>5, SetIs
<1>7. id \in 0 .. (Len(w) - 1) /\ Len(v) \in Nat /\ Len(w) \in Nat
  BY <1>3, <1>4, <1>6 DEF IdsOK
<1>8. \A x \in DOMAIN f : f[x] \in 0 .. (Len(v) - 1)
  BY <1>3 DEF CellsOK
<1> HIDE DEF c, b, file, id, a
<1>9. v # << >> <=> Len(v) > 0
  BY <1>3 DEF IdsOK
<1>10. w # << >>
  BY <1>7
<1>11. First(c) = {w[1]}
  BY <1>10 DEF First
<1>12. a \in DOMAIN g /\ ImageOf(c)[a] = w[id + 1]
  BY <1>2, <1>6 DEF ImageOf
<1>13. First(c) = IF First(b) = {} THEN {ImageOf(c)[a]} ELSE First(b)
  <2>1. CASE v = << >>
    <3>1. id = 0
      BY <1>4, <2>1 DEF id
    <3>2. ImageOf(c)[a] = w[1]
      <4>1. id + 1 = 1
        BY <3>1
      <4> QED BY <1>12, <4>1
    <3>3. First(b) = {}
      BY <2>1 DEF First
    <3> QED BY ONLY <1>11, <3>2, <3>3
  <2>2. CASE v # << >>
    <3>1. w[1] = v[1]
      BY <1>4, <1>6, <1>7, <1>9, <2>2
    <3> QED BY <1>11, <2>2, <3>1 DEF First
  <2> QED BY <2>1, <2>2
<1>14. ImageOf(c) = [x \in DOMAIN ImageOf(b) \cup 0 .. a |->
                      IF x = a THEN ImageOf(c)[a]
                      ELSE IF x \in DOMAIN ImageOf(b) THEN ImageOf(b)[x] ELSE w[1]]
  <2>1. DOMAIN ImageOf(b) = DOMAIN f /\ DOMAIN ImageOf(c) = DOMAIN g
    BY DEF ImageOf
  <2>2. ASSUME NEW x \in DOMAIN g, x # a
        PROVE  ImageOf(c)[x] = IF x \in DOMAIN f THEN ImageOf(b)[x] ELSE w[1]
    <3>1. ImageOf(c)[x] = w[g[x] + 1]
      BY DEF ImageOf
    <3>2. CASE x \in DOMAIN f
      <4>1. g[x] = f[x] /\ f[x] \in 0 .. (Len(v) - 1)
        BY <1>6, <1>8, <2>2, <3>2
      <4>2. w[f[x] + 1] = v[f[x] + 1]
        <5>1. f[x] + 1 \in 1 .. Len(v)
          BY <1>7, <4>1
        <5>2. \A j \in 1 .. Len(v) : w[j] = v[j]
          BY <1>4, <1>6
        <5> QED BY <5>1, <5>2
      <4>3. ImageOf(b)[x] = v[f[x] + 1]
        BY <3>2 DEF ImageOf
      <4> QED BY <3>1, <3>2, <4>1, <4>2, <4>3
    <3>3. CASE x \notin DOMAIN f
      BY <1>6, <2>2, <3>1, <3>3
    <3> QED BY <3>2, <3>3
  <2>3. ImageOf(c) = [x \in DOMAIN g |-> ImageOf(c)[x]]
    BY DEF ImageOf
  <2>4. [x \in DOMAIN g |-> ImageOf(c)[x]]
          = [x \in DOMAIN g |-> IF x = a THEN ImageOf(c)[a]
                                ELSE IF x \in DOMAIN f THEN ImageOf(b)[x] ELSE w[1]]
    BY <2>2
  <2> QED BY <1>6, <2>1, <2>3, <2>4
<1>15. \A l \in ListNames : instructions.lists[l] = << >>
  <2>1. \A l \in ListNames : Len(instructions.lists[l]) = 0
    BY <1>1, NothingSorted DEF IInv, TraceOK
  <2>2. instructions.lists \in [ListNames -> Seq(VmStates)]
    BY DEF IInv, Types
  <2> QED BY <2>1, <2>2
<1>16. a \in DOMAIN ImageOf(c)
  BY <1>12 DEF ImageOf
<1> QED BY <1>1, <1>11, <1>13, <1>14, <1>15, <1>16 DEF Image!Store, Image!Filled, First, b, c

(* A state of the trace goes to one of the lists that the image asks for.  *)
LEMMA ReadTraceSorts == ASSUME IInv, ReadTrace PROVE Image!Sort
<1> DEFINE s == StateOf(input.trace[traceRead + 1])
           old == instructions.lists
           new == instructions'.lists
<1>1. SameCells(builder, builder') /\ s \in VmStates
  BY ReadTraceIs
<1>2. PICK inst \in M31, t \in BOOLEAN :
        /\ MemGet(builder, s.pc) = {Felt(inst)}
        /\ t \in Taken(builder, DecodeInst(inst), s)
        /\ new = [old EXCEPT ![ListOf(DecodeInst(inst), t)] =
                              Append(old[ListOf(DecodeInst(inst), t)], s)]
  BY ReadTraceIs
<1> DEFINE l == ListOf(DecodeInst(inst), t)
<1> HIDE DEF s
<1>3. l \in ListNames
  BY ListOfType
<1>4. l \in ListsIn(ImageOf(builder), s)
  BY <1>2, ListsInIs
<1>5. old \in [ListNames -> Seq(VmStates)]
  BY DEF IInv, Types
<1> HIDE DEF l, old, new
<1>6. old[l] \in Seq(VmStates) /\ new = [old EXCEPT ![l] = Append(old[l], s)]
  BY <1>2, <1>3, <1>5 DEF l
<1>7. new[l] = Append(old[l], s)
  BY <1>3, <1>5, <1>6
<1>8. new[l][Len(new[l])] = s /\ Len(new[l]) # Len(old[l])
  BY <1>1, <1>6, <1>7
<1>9. ImageOf(builder') = ImageOf(builder) /\ First(builder') = First(builder)
  BY <1>1 DEF SameCells, ImageOf, First
<1>10. old[l] # new[l]
  BY <1>8
<1> QED BY <1>3, <1>4, <1>6, <1>8, <1>9, <1>10 DEF Image!Sort, First, old, new

LEMMA StageStutters ==
  ASSUME UNCHANGED <<builder, instructions>>
  PROVE  UNCHANGED Image!rvars
BY DEF Image!rvars, ImageOf
=============================================================================
