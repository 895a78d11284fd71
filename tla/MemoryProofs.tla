---------------------------- MODULE MemoryProofs ----------------------------
(***************************************************************************)
(* Proofs about the memory as it is stored: the vectors keep their shape,  *)
(* are at most half wasted, and answer and relocate as the map MemoryMap.  *)
(***************************************************************************)
EXTENDS MemoryVectors, FieldsProofs, FiniteSetTheorems, TLAPS

-----------------------------------------------------------------------------
(* Vectors.                                                                *)

LEMMA SizeOfRange ==
  ASSUME NEW n \in Nat, NEW f, DOMAIN f = 0 .. n - 1
  PROVE  Size(f) = n
BY FS_Interval DEF Size

LEMMA VectorDomain ==
  ASSUME NEW w, IsVector(w)
  PROVE  DOMAIN w = 0 .. Size(w) - 1 /\ Size(w) \in Nat
BY DEF IsVector

LEMMA EmptyIsVector == IsVector(Empty) /\ Size(Empty) = 0 /\ DOMAIN Empty = {}
<1>1. DOMAIN Empty = 0 .. 0 - 1
  BY DEF Empty
<1>2. Size(Empty) = 0
  BY <1>1, SizeOfRange
<1>3. Empty = [k \in 0 .. 0 - 1 |-> Empty[k]]
  BY <1>1 DEF Empty
<1> QED BY <1>1, <1>2, <1>3 DEF IsVector

(* maybe_resize keeps what is there, makes room for the index, and fills   *)
(* with the default.                                                       *)
LEMMA ResizeIs ==
  ASSUME NEW w, IsVector(w), NEW index \in Nat, NEW default
  PROVE  LET r == MaybeResize(w, index, default)
         IN /\ IsVector(r)
            /\ index \in DOMAIN r
            /\ DOMAIN w \subseteq DOMAIN r
            /\ \A k \in DOMAIN r : r[k] = IF k \in DOMAIN w THEN w[k] ELSE default
            /\ r = w \/ Size(r) <= 2 * index + 1
            /\ Size(r) > 0
<1> DEFINE n == Size(w)
           size == IF index + 1 > 2 * n THEN index + 1 ELSE 2 * n
           grown == [k \in 0 .. size - 1 |-> IF k < n THEN w[k] ELSE default]
           r == MaybeResize(w, index, default)
<1>1. n \in Nat /\ DOMAIN w = 0 .. n - 1
  BY VectorDomain
<1>2. CASE index < n
  <2>1. r = w
    BY <1>2 DEF MaybeResize
  <2> QED BY <1>1, <1>2, <2>1
<1>3. CASE ~(index < n)
  <2>1. r = grown
    BY <1>3 DEF MaybeResize
  <2>2. size \in Nat /\ index < size /\ n <= size /\ size <= 2 * index + 1 /\ size > 0
    BY <1>1, <1>3
  <2>3. Size(grown) = size
    BY <2>2, SizeOfRange
  <2>4. IsVector(grown)
    BY <2>2, <2>3 DEF IsVector
  <2>5. \A k \in DOMAIN grown : grown[k] = IF k \in DOMAIN w THEN w[k] ELSE default
    BY <1>1, <2>2
  <2> HIDE DEF grown, size, n
  <2>6. DOMAIN grown = 0 .. size - 1
    BY DEF grown
  <2> QED BY <1>1, <2>1, <2>2, <2>3, <2>4, <2>5, <2>6
<1> QED BY <1>2, <1>3

(* Writing one place of a vector.                                          *)
LEMMA ExceptIsVector ==
  ASSUME NEW w, IsVector(w), NEW k \in DOMAIN w, NEW x
  PROVE  LET u == [w EXCEPT ![k] = x]
         IN /\ IsVector(u)
            /\ DOMAIN u = DOMAIN w
            /\ Size(u) = Size(w)
            /\ \A j \in DOMAIN w : u[j] = IF j = k THEN x ELSE w[j]
BY DEF IsVector, Size

-----------------------------------------------------------------------------
(* The shape and the waste.                                                *)

(* A written segment is a vector of options, with the value in its place   *)
(* and a known cell in its upper half.                                     *)
LEMMA WrittenSegment ==
  ASSUME NEW w, IsVector(w), NEW offset \in Nat, NEW v \in Value,
         \A o \in DOMAIN w : \A x \in w[o] : x \in Value /\ w[o] = {x},
         FrugalSegment(w)
  PROVE  LET u == [MaybeResize(w, offset, {}) EXCEPT ![offset] = {v}]
         IN /\ IsVector(u)
            /\ \A o \in DOMAIN u : \A x \in u[o] : x \in Value /\ u[o] = {x}
            /\ Size(u) > 0
            /\ FrugalSegment(u)
            /\ offset \in DOMAIN u
            /\ DOMAIN w \subseteq DOMAIN u
            /\ \A o \in DOMAIN u : u[o] = IF o = offset THEN {v}
                                          ELSE IF o \in DOMAIN w THEN w[o] ELSE {}
<1> DEFINE r == MaybeResize(w, offset, {})
           u == [r EXCEPT ![offset] = {v}]
<1>1. /\ IsVector(r) /\ offset \in DOMAIN r /\ DOMAIN w \subseteq DOMAIN r
      /\ \A k \in DOMAIN r : r[k] = IF k \in DOMAIN w THEN w[k] ELSE {}
      /\ r = w \/ Size(r) <= 2 * offset + 1
      /\ Size(r) > 0
  BY ResizeIs
<1> HIDE DEF r
<1>2. /\ IsVector(u) /\ DOMAIN u = DOMAIN r /\ Size(u) = Size(r)
      /\ \A k \in DOMAIN r : u[k] = IF k = offset THEN {v} ELSE r[k]
  BY <1>1, ExceptIsVector
<1> HIDE DEF u
<1>3. \A o \in DOMAIN u : u[o] = IF o = offset THEN {v}
                                 ELSE IF o \in DOMAIN w THEN w[o] ELSE {}
  BY <1>1, <1>2
<1>4. \A o \in DOMAIN u : \A x \in u[o] : x \in Value /\ u[o] = {x}
  BY <1>3
<1>5. FrugalSegment(u)
  <2>1. CASE Size(r) <= 2 * offset + 1
    BY <1>1, <1>2, <2>1 DEF FrugalSegment
  <2>2. CASE r = w
    <3>1. PICK o \in DOMAIN w : w[o] # {} /\ Size(w) <= 2 * o + 1
      BY <1>1, <2>2 DEF FrugalSegment
    <3>2. u[o] # {} /\ o \in DOMAIN u
      BY <1>1, <1>2, <3>1, <2>2
    <3> QED BY <1>2, <2>2, <3>1, <3>2 DEF FrugalSegment
  <2> QED BY <1>1, <2>1, <2>2
<1> QED BY <1>1, <1>2, <1>3, <1>4, <1>5 DEF u, r

(* What Memory::insert leaves in the vectors: d for relocatable_data.      *)
Inserted(d, s, o, v) ==
  /\ IsVector(d) /\ s \in DOMAIN d
  /\ DOMAIN relocatable_data \subseteq DOMAIN d
  /\ o \in DOMAIN d[s]
  /\ Size(d) > 0 => \E t \in DOMAIN d : Size(d[t]) > 0 /\ Size(d) <= 2 * t + 1
  /\ \A t \in DOMAIN d :
       /\ IsVector(d[t])
       /\ FrugalSegment(d[t])
       /\ \A k \in DOMAIN d[t] : \A x \in d[t][k] : x \in Value /\ d[t][k] = {x}
       /\ t # s => d[t] = IF t \in DOMAIN relocatable_data
                          THEN relocatable_data[t] ELSE Empty
  /\ \A k \in DOMAIN d[s] :
       d[s][k] = IF k = o THEN {v}
                 ELSE IF s \in DOMAIN relocatable_data /\ k \in DOMAIN relocatable_data[s]
                      THEN relocatable_data[s][k] ELSE {}
  /\ s \in DOMAIN relocatable_data => DOMAIN relocatable_data[s] \subseteq DOMAIN d[s]

LEMMA WrittenIs ==
  ASSUME SegmentsOK, Frugal, NEW s \in Nat, NEW o \in Nat, NEW v \in Value
  PROVE  Inserted(Written(Rel(s, o), v), s, o, v)
<1> DEFINE r == MaybeResize(relocatable_data, s, Empty)
           u == [MaybeResize(r[s], o, {}) EXCEPT ![o] = {v}]
           d == [r EXCEPT ![s] = u]
<1>1. d = Written(Rel(s, o), v)
  BY DEF Written, Rel
<1>2. /\ IsVector(r) /\ s \in DOMAIN r /\ DOMAIN relocatable_data \subseteq DOMAIN r
      /\ \A t \in DOMAIN r : r[t] = IF t \in DOMAIN relocatable_data
                                    THEN relocatable_data[t] ELSE Empty
      /\ r = relocatable_data \/ Size(r) <= 2 * s + 1
      /\ Size(r) > 0
  BY ResizeIs DEF SegmentsOK
<1> HIDE DEF r
<1>3. \A t \in DOMAIN r : /\ IsVector(r[t])
                          /\ FrugalSegment(r[t])
                          /\ \A k \in DOMAIN r[t] : \A x \in r[t][k] : x \in Value /\ r[t][k] = {x}
  BY <1>2, EmptyIsVector DEF SegmentsOK, Frugal, FrugalSegment
<1>4. /\ IsVector(u)
      /\ \A k \in DOMAIN u : \A x \in u[k] : x \in Value /\ u[k] = {x}
      /\ Size(u) > 0
      /\ FrugalSegment(u)
      /\ o \in DOMAIN u
      /\ DOMAIN r[s] \subseteq DOMAIN u
      /\ \A k \in DOMAIN u : u[k] = IF k = o THEN {v}
                                    ELSE IF k \in DOMAIN r[s] THEN r[s][k] ELSE {}
  BY <1>2, <1>3, WrittenSegment
<1> HIDE DEF u
<1>5. /\ IsVector(d) /\ DOMAIN d = DOMAIN r /\ Size(d) = Size(r)
      /\ \A t \in DOMAIN r : d[t] = IF t = s THEN u ELSE r[t]
  BY <1>2, ExceptIsVector
<1> HIDE DEF d
<1>6. \E t \in DOMAIN d : Size(d[t]) > 0 /\ Size(d) <= 2 * t + 1
  <2>1. CASE Size(r) <= 2 * s + 1
    BY <1>2, <1>4, <1>5, <2>1
  <2>2. CASE r = relocatable_data
    <3>1. PICK t \in DOMAIN relocatable_data : /\ Size(relocatable_data[t]) > 0
                                               /\ Size(relocatable_data) <= 2 * t + 1
      BY <1>2, <2>2 DEF Frugal
    <3> QED BY <1>2, <1>4, <1>5, <2>2, <3>1
  <2> QED BY <1>2, <2>1, <2>2
<1>7. /\ s \in DOMAIN relocatable_data => r[s] = relocatable_data[s]
      /\ s \notin DOMAIN relocatable_data => DOMAIN r[s] = {}
  BY <1>2, EmptyIsVector
<1>8. \A t \in DOMAIN d :
        /\ IsVector(d[t])
        /\ FrugalSegment(d[t])
        /\ \A k \in DOMAIN d[t] : \A x \in d[t][k] : x \in Value /\ d[t][k] = {x}
        /\ t # s => d[t] = IF t \in DOMAIN relocatable_data
                           THEN relocatable_data[t] ELSE Empty
  BY <1>2, <1>3, <1>4, <1>5
<1>9. d[s] = u
  BY <1>2, <1>5
<1> QED
  <2>1. /\ IsVector(d) /\ s \in DOMAIN d /\ DOMAIN relocatable_data \subseteq DOMAIN d
    BY <1>2, <1>5
  <2>2. o \in DOMAIN d[s]
    BY <1>4, <1>9
  <2>3. \A k \in DOMAIN d[s] :
          d[s][k] = IF k = o THEN {v}
                    ELSE IF s \in DOMAIN relocatable_data /\ k \in DOMAIN relocatable_data[s]
                         THEN relocatable_data[s][k] ELSE {}
    BY <1>4, <1>7, <1>9
  <2>4. s \in DOMAIN relocatable_data => DOMAIN relocatable_data[s] \subseteq DOMAIN d[s]
    BY <1>4, <1>7, <1>9
  <2> QED BY <1>1, <1>6, <1>8, <2>1, <2>2, <2>3, <2>4 DEF Inserted

-----------------------------------------------------------------------------
LEMMA PointerParts ==
  ASSUME NEW a \in Addr, IsRel(a)
  PROVE  a.segment \in Nat /\ a.offset \in Nat /\ a.offset \in M31
         /\ a = Rel(a.segment, a.offset)
BY PAssumption DEF M31, Addr, IsRel, Relocatables, Absolutes, Rel

LEMMA InsertPointerKeepsShape ==
  ASSUME SegmentsOK, Frugal, NEW a \in Addresses, NEW v \in Values, InsertPointer(a, v)
  PROVE  SegmentsOK' /\ Frugal'
<1>1. a \in Addr /\ v \in Value /\ IsRel(a)
  BY CallsAssumption DEF InsertPointer
<1>2. a.segment \in Nat /\ a.offset \in Nat /\ a = Rel(a.segment, a.offset)
  BY <1>1, PointerParts
<1> DEFINE d == relocatable_data'
<1>3. d = Written(Rel(a.segment, a.offset), v)
  BY <1>2 DEF InsertPointer
<1>4. Inserted(d, a.segment, a.offset, v)
  BY <1>1, <1>2, <1>3, WrittenIs
<1>5. SegmentsOK'
  BY <1>4 DEF SegmentsOK, Inserted
<1>6. Frugal'
  BY <1>4 DEF Frugal, Inserted
<1> QED BY <1>5, <1>6

-----------------------------------------------------------------------------
(* The refinement of MemoryMap by the calls that do not relocate.          *)

(* The map holds what get answers, and nothing else.                       *)
CellsRead == /\ Cells = [a \in DOMAIN Cells |-> Cells[a]]
             /\ DOMAIN Cells \subseteq Addr
             /\ \A a \in Addr : Lookup(a) = Get(Cells, a)

LEMMA CellsAreReadings == DataOK => CellsRead
<1> SUFFICES ASSUME DataOK PROVE CellsRead
  OBVIOUS
<1>1. DOMAIN Cells = Known \cup DOMAIN absolute_data
  BY DEF Cells
<1>2. ASSUME NEW a \in DOMAIN absolute_data PROVE a \in Addr /\ Lookup(a) # {}
  BY <1>2 DEF DataOK, AbsoluteOK, IsMemory, Lookup
<1>3. ASSUME NEW a \in Addr, Lookup(a) # {} PROVE a \in DOMAIN Cells
  <2>1. CASE ~IsRel(a)
    BY <1>1, <1>3, <2>1 DEF Lookup
  <2>2. CASE IsRel(a)
    <3>1. a.segment \in DOMAIN relocatable_data /\ a.offset \in M31
          /\ a = Rel(a.segment, a.offset)
      BY <1>3, <2>2, PointerParts DEF Lookup
    <3> QED BY <1>1, <1>3, <3>1 DEF Known
  <2> QED BY <2>1, <2>2
<1>4. DOMAIN Cells = {a \in Addr : Lookup(a) # {}}
  BY <1>1, <1>2, <1>3 DEF Known
<1>5. ASSUME NEW a \in Addr, NEW v \in Lookup(a) PROVE Lookup(a) = {v}
  BY <1>5 DEF Lookup, DataOK, SegmentsOK
<1>6. ASSUME NEW a \in Addr PROVE Lookup(a) = Get(Cells, a)
  <2>1. CASE Lookup(a) = {}
    BY <1>4, <2>1 DEF Get
  <2>2. CASE Lookup(a) # {}
    <3>1. Cells[a] = CHOOSE v \in Lookup(a) : TRUE
      BY <1>1, <1>4, <2>2 DEF Cells
    <3>2. Lookup(a) = {Cells[a]}
      BY <1>5, <2>2, <3>1
    <3> QED BY <1>4, <2>2, <3>2 DEF Get
  <2> QED BY <2>1, <2>2
<1>7. Cells = [a \in DOMAIN Cells |-> Cells[a]]
  BY DEF Cells
<1> QED BY <1>4, <1>6, <1>7 DEF CellsRead

LEMMA CellsAreReadingsNext == DataOK' => CellsRead'
BY CellsAreReadings, PTL

(* Two maps that differ at one address only, by what get answers.          *)
LEMMA PutByReadings ==
  ASSUME NEW f, NEW g, NEW a \in Addr, NEW v,
         f = [b \in DOMAIN f |-> f[b]], DOMAIN f \subseteq Addr,
         g = [b \in DOMAIN g |-> g[b]], DOMAIN g \subseteq Addr,
         \A b \in Addr : Get(g, b) = IF b = a THEN {v} ELSE Get(f, b)
  PROVE  g = Put(f, a, v)
<1>1. \A b \in Addr : b \in DOMAIN g <=> b = a \/ b \in DOMAIN f
  BY DEF Get
<1>2. DOMAIN g = DOMAIN f \cup {a}
  BY <1>1
<1>3. \A b \in DOMAIN g : g[b] = IF b = a THEN v ELSE f[b]
  BY <1>1 DEF Get
<1> QED BY <1>2, <1>3 DEF Put

LEMMA SameByReadings ==
  ASSUME NEW f, NEW g,
         f = [b \in DOMAIN f |-> f[b]], DOMAIN f \subseteq Addr,
         g = [b \in DOMAIN g |-> g[b]], DOMAIN g \subseteq Addr,
         \A b \in Addr : Get(g, b) = Get(f, b)
  PROVE  g = f
<1>1. DOMAIN g = DOMAIN f
  BY DEF Get
<1>2. \A b \in DOMAIN g : g[b] = f[b]
  BY <1>1 DEF Get
<1> QED BY <1>1, <1>2

(* What get answers after an insert through a pointer.                     *)
LEMMA ReadingsAfterPointer ==
  ASSUME DataOK, Frugal, NEW a \in Addresses, NEW v \in Values, InsertPointer(a, v)
  PROVE  \A b \in Addr : Lookup(b)' = IF b = a THEN {v} ELSE Lookup(b)
<1> DEFINE d == relocatable_data'
<1>1. a \in Addr /\ v \in Value /\ IsRel(a) /\ absolute_data' = absolute_data
  BY CallsAssumption DEF InsertPointer
<1>2. a.segment \in Nat /\ a.offset \in Nat /\ a = Rel(a.segment, a.offset)
  BY <1>1, PointerParts
<1>3. Inserted(d, a.segment, a.offset, v)
  <2>1. d = Written(Rel(a.segment, a.offset), v)
    BY <1>2 DEF InsertPointer
  <2> QED BY <1>1, <1>2, <2>1, WrittenIs DEF DataOK
<1> SUFFICES ASSUME NEW b \in Addr
             PROVE  Lookup(b)' = IF b = a THEN {v} ELSE Lookup(b)
  OBVIOUS
<1>4. CASE ~IsRel(b)
  BY <1>1, <1>4 DEF Lookup
<1>5. CASE IsRel(b)
  <2>1. b = Rel(b.segment, b.offset)
    BY <1>5, PointerParts
  <2>2. Lookup(b)' = IF b.segment \in DOMAIN d /\ b.offset \in DOMAIN d[b.segment]
                     THEN d[b.segment][b.offset] ELSE {}
    BY <1>5 DEF Lookup
  <2>3. Lookup(b) = IF /\ b.segment \in DOMAIN relocatable_data
                       /\ b.offset \in DOMAIN relocatable_data[b.segment]
                    THEN relocatable_data[b.segment][b.offset] ELSE {}
    BY <1>5 DEF Lookup
  <2> HIDE DEF d
  <2>4. CASE b.segment = a.segment
    <3>1. CASE b.offset = a.offset
      BY <1>2, <1>3, <2>1, <2>2, <2>4, <3>1 DEF Inserted
    <3>2. CASE b.offset # a.offset
      BY <1>3, <2>2, <2>3, <2>4, <3>2 DEF Inserted
    <3> QED BY <3>1, <3>2
  <2>5. CASE b.segment # a.segment
    <3>1. CASE b.segment \in DOMAIN relocatable_data
      BY <1>3, <2>2, <2>3, <2>5, <3>1 DEF Inserted
    <3>2. CASE b.segment \notin DOMAIN relocatable_data
      BY <1>3, <2>2, <2>3, <2>5, <3>2, EmptyIsVector DEF Inserted
    <3> QED BY <3>1, <3>2
  <2> QED BY <2>4, <2>5
<1> QED BY <1>4, <1>5

LEMMA ReadingsAfterAbsolute ==
  ASSUME NEW a \in Addresses, NEW v \in Values, InsertAbsolute(a, v)
  PROVE  \A b \in Addr : Lookup(b)' = IF b = a THEN {v} ELSE Lookup(b)
BY DEF InsertAbsolute, Lookup, Put

LEMMA InsertKeepsData ==
  ASSUME DataOK, Frugal, NEW a \in Addresses, NEW v \in Values,
         InsertPointer(a, v) \/ InsertAbsolute(a, v)
  PROVE  DataOK' /\ Frugal'
<1>1. CASE InsertPointer(a, v)
  <2>1. SegmentsOK' /\ Frugal'
    BY <1>1, InsertPointerKeepsShape DEF DataOK
  <2>2. AbsoluteOK'
    BY <1>1 DEF InsertPointer, DataOK, AbsoluteOK, IsMemory
  <2> QED BY <2>1, <2>2 DEF DataOK
<1>2. CASE InsertAbsolute(a, v)
  <2>1. SegmentsOK' /\ Frugal'
    BY <1>2 DEF InsertAbsolute, DataOK, SegmentsOK, Frugal
  <2>2. AbsoluteOK'
    BY <1>2, CallsAssumption DEF InsertAbsolute, DataOK, AbsoluteOK, IsMemory, Put
  <2> QED BY <2>1, <2>2 DEF DataOK
<1> QED BY <1>1, <1>2

(* An insert writes the map at its address, whatever the vectors had to do *)
(* to make room, and answers what the map held.                            *)
LEMMA InsertImplementsMap ==
  ASSUME DataOK, Frugal, NEW a \in Addresses, NEW v \in Values,
         InsertPointer(a, v) \/ InsertAbsolute(a, v)
  PROVE  Map!MInsert(a, v)
<1>1. a \in Addr /\ ValidAddress(a)
  BY CallsAssumption DEF InsertPointer, InsertAbsolute, ValidAddress
<1>2. \A b \in Addr : Lookup(b)' = IF b = a THEN {v} ELSE Lookup(b)
  BY ReadingsAfterPointer, ReadingsAfterAbsolute
<1>3. DataOK'
  BY InsertKeepsData
<1>4. CellsRead
  BY CellsAreReadings
<1>5. CellsRead'
  BY <1>3, CellsAreReadingsNext
<1>7. Cells' = Put(Cells, a, v)
  <2> DEFINE f == Cells
             g == Cells'
  <2>1. \A b \in Addr : Get(g, b) = IF b = a THEN {v} ELSE Get(f, b)
    BY <1>2, <1>4, <1>5 DEF CellsRead
  <2> HIDE DEF f, g
  <2>2. /\ DOMAIN f \subseteq Addr /\ f = [b \in DOMAIN f |-> f[b]]
        /\ DOMAIN g \subseteq Addr /\ g = [b \in DOMAIN g |-> g[b]]
    BY <1>4, <1>5 DEF f, g, CellsRead
  <2>3. g = Put(f, a, v)
    BY <1>1, <2>1, <2>2, PutByReadings
  <2> QED BY <2>3 DEF f, g
<1>8. answer' = Get(Cells, a)
  BY <1>1, <1>4 DEF InsertPointer, InsertAbsolute, CellsRead
<1> QED BY <1>1, <1>7, <1>8 DEF Map!MInsert, Map!Insert, Map!Get, Map!Put, Map!ValidAddress, Map!IsRel,
           Insert, Get, Put, ValidAddress, IsRel

LEMMA GetImplementsMap ==
  ASSUME DataOK, NEW a \in Addresses, GetCell(a)
  PROVE  Map!MGet(a)
<1>1. a \in Addr /\ CellsRead
  BY CallsAssumption, CellsAreReadings
<1>2. answer' = Get(Cells, a)
  BY <1>1 DEF GetCell, CellsRead
<1>3. Cells' = Cells
  <2>1. \A b : Lookup(b)' = Lookup(b)
    BY DEF GetCell, Lookup
  <2> QED BY <2>1 DEF GetCell, Cells, Known, Lookup
<1> QED BY <1>2, <1>3 DEF Map!MGet, Map!Get, Get

-----------------------------------------------------------------------------
(* The loops of Memory::relocate, as recursive functions.                  *)

(* One turn of the loop of relocate_segment.                               *)
SegmentStep(map, s, n, table) ==
  IF relocatable_data[s][n] = {} THEN map
  ELSE Put(map, Relocate(Rel(s, n), table),
           Relocate(CHOOSE v \in relocatable_data[s][n] : TRUE, table))

SegmentSteps(f, map, s, table, N) ==
  f = [n \in 0 .. N |-> IF n = 0 THEN map ELSE SegmentStep(f[n - 1], s, n - 1, table)]

AllSteps(f, table, N) ==
  f = [n \in 0 .. N |-> IF n = 0 THEN absolute_data
                        ELSE WithSegment(f[n - 1], n - 1, table)]

LEMMA WithSegmentIs ==
  ASSUME NEW map, NEW s, NEW table
  PROVE  WithSegment(map, s, table)
           = (CHOOSE f : SegmentSteps(f, map, s, table, Size(relocatable_data[s])))
               [Size(relocatable_data[s])]
BY DEF WithSegment, SegmentSteps, SegmentStep, Position

LEMMA WithSegmentsIs ==
  ASSUME NEW table
  PROVE  WithSegments(table)
           = (CHOOSE f : AllSteps(f, table, Size(relocatable_data)))[Size(relocatable_data)]
BY DEF WithSegments, AllSteps

LEMMA SegmentStepsExist ==
  ASSUME NEW map, NEW s, NEW table, NEW N \in Nat
  PROVE  \E f : SegmentSteps(f, map, s, table, N)
<1> DEFINE T == {k \in Nat : ~ \E f : SegmentSteps(f, map, s, table, k)}
<1>1. CASE T = {}
  BY <1>1
<1>2. CASE T # {}
  <2>1. PICK k \in T : \A j \in T : k <= j
    <3>1. T \subseteq Nat
      OBVIOUS
    <3> HIDE DEF T
    <3> QED BY <1>2, <3>1, LeastNat
  <2>2. CASE k = 0
    <3> DEFINE f == [n \in 0 .. 0 |-> map]
    <3>1. f = [n \in 0 .. 0 |-> IF n = 0 THEN map
                                ELSE SegmentStep(f[n - 1], s, n - 1, table)]
      OBVIOUS
    <3>2. SegmentSteps(f, map, s, table, 0)
      BY <3>1 DEF SegmentSteps
    <3> QED BY <2>2, <3>2
  <2>3. CASE k # 0
    <3> DEFINE j == k - 1
    <3>1. j \in Nat /\ j < k /\ k = j + 1 /\ k \in Nat
      BY <2>3
    <3>2. PICK g : SegmentSteps(g, map, s, table, j)
      BY <2>1, <3>1
    <3> DEFINE f == [n \in 0 .. k |-> IF n = k THEN SegmentStep(g[j], s, j, table) ELSE g[n]]
    <3> HIDE DEF j
    <3>3. \A n \in 0 .. j : g[n] = IF n = 0 THEN map
                                   ELSE SegmentStep(g[n - 1], s, n - 1, table)
      BY <3>2 DEF SegmentSteps
    <3>4. ASSUME NEW n \in 0 .. k
          PROVE  f[n] = IF n = 0 THEN map ELSE SegmentStep(f[n - 1], s, n - 1, table)
      <4>1. CASE n = k
        <5>1. n - 1 = j /\ n # 0 /\ j \in 0 .. k /\ j # k
          BY <3>1, <4>1
        <5>2. f[j] = g[j] /\ f[n] = SegmentStep(g[j], s, j, table)
          BY <4>1, <5>1
        <5> QED BY <5>1, <5>2
      <4>2. CASE n # k
        <5>1. n \in 0 .. j /\ f[n] = g[n]
          BY <3>1, <4>2
        <5>2. CASE n = 0
          BY <3>3, <5>1, <5>2
        <5>3. CASE n # 0
          <6>1. n - 1 \in 0 .. k /\ n - 1 # k
            BY <3>1, <5>1, <5>3
          <6>2. f[n - 1] = g[n - 1]
            BY <6>1
          <6> QED BY <3>3, <5>1, <5>3, <6>2
        <5> QED BY <5>2, <5>3
      <4> QED BY <4>1, <4>2
    <3> DEFINE h == [n \in 0 .. k |-> IF n = 0 THEN map
                                      ELSE SegmentStep(f[n - 1], s, n - 1, table)]
    <3>5. f = [n \in 0 .. k |-> f[n]]
      OBVIOUS
    <3> HIDE DEF f
    <3>6. f = h
      BY <3>4, <3>5
    <3>7. SegmentSteps(f, map, s, table, k)
      BY <3>6 DEF SegmentSteps
    <3> QED BY <3>7
  <2> QED BY <2>2, <2>3
<1> QED BY <1>1, <1>2
LEMMA AllStepsExist ==
  ASSUME NEW table, NEW N \in Nat
  PROVE  \E f : AllSteps(f, table, N)
<1> DEFINE T == {k \in Nat : ~ \E f : AllSteps(f, table, k)}
<1>1. CASE T = {}
  BY <1>1
<1>2. CASE T # {}
  <2>1. PICK k \in T : \A j \in T : k <= j
    <3>1. T \subseteq Nat
      OBVIOUS
    <3> HIDE DEF T
    <3> QED BY <1>2, <3>1, LeastNat
  <2>2. CASE k = 0
    <3> DEFINE f == [n \in 0 .. 0 |-> absolute_data]
    <3>1. f = [n \in 0 .. 0 |-> IF n = 0 THEN absolute_data
                                ELSE WithSegment(f[n - 1], n - 1, table)]
      OBVIOUS
    <3>2. AllSteps(f, table, 0)
      BY <3>1 DEF AllSteps
    <3> QED BY <2>2, <3>2
  <2>3. CASE k # 0
    <3> DEFINE j == k - 1
    <3>1. j \in Nat /\ j < k /\ k = j + 1 /\ k \in Nat
      BY <2>3
    <3>2. PICK g : AllSteps(g, table, j)
      BY <2>1, <3>1
    <3> DEFINE f == [n \in 0 .. k |-> IF n = k THEN WithSegment(g[j], j, table) ELSE g[n]]
    <3> HIDE DEF j
    <3>3. \A n \in 0 .. j : g[n] = IF n = 0 THEN absolute_data
                                   ELSE WithSegment(g[n - 1], n - 1, table)
      BY <3>2 DEF AllSteps
    <3>4. ASSUME NEW n \in 0 .. k
          PROVE  f[n] = IF n = 0 THEN absolute_data ELSE WithSegment(f[n - 1], n - 1, table)
      <4>1. CASE n = k
        <5>1. n - 1 = j /\ n # 0 /\ j \in 0 .. k /\ j # k
          BY <3>1, <4>1
        <5>2. f[j] = g[j] /\ f[n] = WithSegment(g[j], j, table)
          BY <4>1, <5>1
        <5> QED BY <5>1, <5>2
      <4>2. CASE n # k
        <5>1. n \in 0 .. j /\ f[n] = g[n]
          BY <3>1, <4>2
        <5>2. CASE n = 0
          BY <3>3, <5>1, <5>2
        <5>3. CASE n # 0
          <6>1. n - 1 \in 0 .. k /\ n - 1 # k
            BY <3>1, <5>1, <5>3
          <6>2. f[n - 1] = g[n - 1]
            BY <6>1
          <6> QED BY <3>3, <5>1, <5>3, <6>2
        <5> QED BY <5>2, <5>3
      <4> QED BY <4>1, <4>2
    <3> DEFINE h == [n \in 0 .. k |-> IF n = 0 THEN absolute_data
                                      ELSE WithSegment(f[n - 1], n - 1, table)]
    <3>5. f = [n \in 0 .. k |-> f[n]]
      OBVIOUS
    <3> HIDE DEF f
    <3>6. f = h
      BY <3>4, <3>5
    <3>7. AllSteps(f, table, k)
      BY <3>6 DEF AllSteps
    <3> QED BY <3>7
  <2> QED BY <2>2, <2>3
<1> QED BY <1>1, <1>2

-----------------------------------------------------------------------------
(* A map into which a set of cells has moved: of those that land on one    *)
(* address it holds the last, and where none lands what was there.         *)
CellAt(a) == CHOOSE v \in Lookup(a) : TRUE

LastThere(PS, table, b, a) ==
  Relocate(a, table) = b /\ \A d \in PS : Relocate(d, table) = b => Later(a, d)

HoldsLast(map, PS, table, b) ==
  \E a \in PS : LastThere(PS, table, b, a) /\ map[b] = Relocate(CellAt(a), table)

Merged(map, PS, table) ==
  /\ map = [b \in DOMAIN map |-> map[b]]
  /\ DOMAIN map = DOMAIN absolute_data \cup {Relocate(a, table) : a \in PS}
  /\ \A c \in PS : HoldsLast(map, PS, table, Relocate(c, table))
  /\ \A b \in DOMAIN absolute_data :
       (\A a \in PS : Relocate(a, table) # b) => map[b] = absolute_data[b]

LEMMA MergeNone ==
  ASSUME AbsoluteOK, NEW table, absolute_data = [b \in DOMAIN absolute_data |-> absolute_data[b]]
  PROVE  Merged(absolute_data, {}, table)
BY DEF Merged

(* One cell more, later than all of them.                                  *)
LEMMA MergeOne ==
  ASSUME NEW map, NEW PS, NEW table, Merged(map, PS, table),
         NEW a, \A c \in PS : Later(a, c), Later(a, a)
  PROVE  Merged(Put(map, Relocate(a, table), Relocate(CellAt(a), table)), PS \cup {a}, table)
<1> DEFINE x == Relocate(a, table)
           y == Relocate(CellAt(a), table)
           new == Put(map, x, y)
           QS == PS \cup {a}
<1>1. /\ new = [b \in DOMAIN new |-> new[b]]
      /\ DOMAIN new = DOMAIN map \cup {x}
      /\ new[x] = y
      /\ \A b \in DOMAIN map : b # x => new[b] = map[b]
  BY DEF Put
<1>2. DOMAIN new = DOMAIN absolute_data \cup {Relocate(c, table) : c \in QS}
  BY <1>1 DEF Merged
<1> HIDE DEF new
<1>3. HoldsLast(new, QS, table, x)
  <2>1. LastThere(QS, table, x, a)
    BY DEF LastThere
  <2> QED BY <1>1, <2>1 DEF HoldsLast
<1>4. ASSUME NEW c \in PS, Relocate(c, table) # x
      PROVE  HoldsLast(new, QS, table, Relocate(c, table))
  <2> DEFINE b == Relocate(c, table)
  <2>1. PICK e \in PS : LastThere(PS, table, b, e) /\ map[b] = Relocate(CellAt(e), table)
    BY DEF Merged, HoldsLast
  <2>2. b \in DOMAIN map
    BY DEF Merged
  <2>3. LastThere(QS, table, b, e)
    BY <1>4, <2>1 DEF LastThere
  <2> QED BY <1>1, <1>4, <2>1, <2>2, <2>3 DEF HoldsLast
<1>5. \A c \in QS : HoldsLast(new, QS, table, Relocate(c, table))
  BY <1>3, <1>4
<1>6. ASSUME NEW b \in DOMAIN absolute_data, \A c \in QS : Relocate(c, table) # b
      PROVE  new[b] = absolute_data[b]
  BY <1>1, <1>6 DEF Merged
<1> QED BY <1>1, <1>2, <1>5, <1>6 DEF Merged, new

-----------------------------------------------------------------------------
(* The known cells before a place in the vectors.                          *)

(* A known cell is at an offset in the field, however long its vector is.  *)
OffsetsOK == \A s \in DOMAIN relocatable_data : \A o \in DOMAIN relocatable_data[s] :
               relocatable_data[s][o] # {} => o \in M31

Before(s, n) == {a \in Known : a.segment < s \/ (a.segment = s /\ a.offset < n)}

LEMMA KnownIs ==
  ASSUME SegmentsOK
  PROVE  \A a \in Known : /\ a \in Addr /\ IsRel(a) /\ a = Rel(a.segment, a.offset)
                          /\ a.segment \in DOMAIN relocatable_data /\ a.segment \in Nat
                          /\ a.offset \in DOMAIN relocatable_data[a.segment] /\ a.offset \in Nat
                          /\ relocatable_data[a.segment][a.offset] # {}
<1> SUFFICES ASSUME NEW a \in Known
             PROVE  /\ a \in Addr /\ IsRel(a) /\ a = Rel(a.segment, a.offset)
                    /\ a.segment \in DOMAIN relocatable_data /\ a.segment \in Nat
                    /\ a.offset \in DOMAIN relocatable_data[a.segment] /\ a.offset \in Nat
                    /\ relocatable_data[a.segment][a.offset] # {}
  OBVIOUS
<1>1. a \in Addr /\ IsRel(a) /\ Lookup(a) # {}
  BY DEF Known, Rel, IsRel
<1> QED BY <1>1, PointerParts DEF Lookup

LEMMA KnownIf ==
  ASSUME SegmentsOK, OffsetsOK, NEW s \in DOMAIN relocatable_data,
         NEW n \in DOMAIN relocatable_data[s]
  PROVE  /\ Rel(s, n).segment = s /\ Rel(s, n).offset = n
         /\ Lookup(Rel(s, n)) = relocatable_data[s][n]
         /\ Rel(s, n) \in Known <=> relocatable_data[s][n] # {}
<1>1. /\ Rel(s, n).segment = s /\ Rel(s, n).offset = n
      /\ Lookup(Rel(s, n)) = relocatable_data[s][n]
  BY DEF Rel, Lookup, IsRel
<1>2. s \in Nat
  BY VectorDomain DEF SegmentsOK
<1>3. ASSUME relocatable_data[s][n] # {} PROVE Rel(s, n) \in Known
  <2>1. n \in M31
    BY <1>3 DEF OffsetsOK
  <2>2. Rel(s, n) \in Addr
    BY <1>2, <2>1 DEF Rel, Addr, Relocatables
  <2> QED BY <1>1, <1>3, <2>1, <2>2 DEF Known
<1> QED BY <1>1, <1>3 DEF Known

LEMMA BeforeNext ==
  ASSUME SegmentsOK, OffsetsOK, NEW s \in DOMAIN relocatable_data,
         NEW n \in DOMAIN relocatable_data[s], NEW m, m = n + 1
  PROVE  /\ relocatable_data[s][n] = {} => Before(s, m) = Before(s, n)
         /\ relocatable_data[s][n] # {} => Before(s, m) = Before(s, n) \cup {Rel(s, n)}
         /\ \A c \in Before(s, n) : Later(Rel(s, n), c)
         /\ Later(Rel(s, n), Rel(s, n))
<1>1. s \in Nat /\ n \in Nat
  BY VectorDomain DEF SegmentsOK
<1>2. /\ Rel(s, n).segment = s /\ Rel(s, n).offset = n
      /\ Rel(s, n) \in Known <=> relocatable_data[s][n] # {}
  BY KnownIf
<1>3. \A a \in Known : /\ a = Rel(a.segment, a.offset)
                       /\ a.segment \in Nat /\ a.offset \in Nat
  BY KnownIs
<1>4. \A k \in Nat : k < m <=> k < n \/ k = n
  BY <1>1
<1>5. \A a \in Known : a = Rel(s, n) <=> a.segment = s /\ a.offset = n
  BY <1>2, <1>3
<1>6. \A a : a \in Before(s, m) <=> a \in Before(s, n) \/ (a \in Known /\ a = Rel(s, n))
  <2> SUFFICES ASSUME NEW a \in Known
               PROVE  a \in Before(s, m) <=> a \in Before(s, n) \/ a = Rel(s, n)
    BY DEF Before
  <2>1. a.segment \in Nat /\ a.offset \in Nat
    BY <1>3
  <2> QED BY <1>4, <1>5, <2>1 DEF Before
<1>7. relocatable_data[s][n] = {} => Before(s, m) = Before(s, n)
  <2> SUFFICES ASSUME relocatable_data[s][n] = {} PROVE Before(s, m) = Before(s, n)
    OBVIOUS
  <2>1. \A a : a \in Before(s, m) <=> a \in Before(s, n)
    BY <1>2, <1>6
  <2> QED BY <2>1, SameElements
<1>8. relocatable_data[s][n] # {} => Before(s, m) = Before(s, n) \cup {Rel(s, n)}
  <2> SUFFICES ASSUME relocatable_data[s][n] # {}
               PROVE  Before(s, m) = Before(s, n) \cup {Rel(s, n)}
    OBVIOUS
  <2>1. \A a : a \in Before(s, m) <=> a \in Before(s, n) \cup {Rel(s, n)}
    BY <1>2, <1>6
  <2> QED BY <2>1, SameElements
<1>9. \A c \in Before(s, n) : Later(Rel(s, n), c)
  <2> SUFFICES ASSUME NEW c \in Before(s, n) PROVE Later(Rel(s, n), c)
    OBVIOUS
  <2>1. /\ c.segment \in Nat /\ c.offset \in Nat
        /\ c.segment < s \/ (c.segment = s /\ c.offset < n)
    BY <1>3 DEF Before
  <2> QED BY <1>1, <1>2, <2>1 DEF Later
<1> QED BY <1>1, <1>2, <1>7, <1>8, <1>9 DEF Later

LEMMA BeforeBounds ==
  ASSUME SegmentsOK
  PROVE  /\ Before(0, 0) = {}
         /\ Before(Size(relocatable_data), 0) = Known
<1>1. \A a \in Known : /\ a.segment \in Nat /\ a.offset \in Nat
                       /\ a.segment \in DOMAIN relocatable_data
  BY KnownIs
<1>2. /\ DOMAIN relocatable_data = 0 .. Size(relocatable_data) - 1
      /\ Size(relocatable_data) \in Nat
  BY VectorDomain DEF SegmentsOK
<1>3. \A a : a \notin Before(0, 0)
  BY <1>1 DEF Before
<1>4. \A a : a \in Before(Size(relocatable_data), 0) <=> a \in Known
  BY <1>1, <1>2 DEF Before
<1> QED BY <1>3, <1>4, SameElements

LEMMA BeforeSegment ==
  ASSUME SegmentsOK, NEW s \in DOMAIN relocatable_data, NEW t, t = s + 1
  PROVE  Before(t, 0) = Before(s, Size(relocatable_data[s]))
<1> DEFINE N == Size(relocatable_data[s])
<1>1. s \in Nat /\ DOMAIN relocatable_data[s] = 0 .. N - 1 /\ N \in Nat
  BY VectorDomain DEF SegmentsOK
<1>2. \A a \in Known : /\ a.segment \in Nat /\ a.offset \in Nat
                       /\ a.offset \in DOMAIN relocatable_data[a.segment]
  BY KnownIs
<1> HIDE DEF N
<1>3. \A a : a \in Before(t, 0) <=> a \in Before(s, N)
  <2> SUFFICES ASSUME NEW a \in Known PROVE a \in Before(t, 0) <=> a \in Before(s, N)
    BY DEF Before
  <2>1. a.segment \in Nat /\ a.offset \in Nat
    BY <1>2
  <2>2. a.segment = s => a.offset < N
    BY <1>1, <1>2
  <2>3. a.segment < t <=> a.segment < s \/ a.segment = s
    BY <1>1, <2>1
  <2>4. ~ (a.offset < 0)
    BY <2>1
  <2> QED BY <2>2, <2>3, <2>4 DEF Before
<1> QED BY <1>3, SameElements DEF N
-----------------------------------------------------------------------------
(* What relocation leaves in the hash map.                                 *)

LEMMA SegmentMerges ==
  ASSUME SegmentsOK, OffsetsOK, NEW s \in DOMAIN relocatable_data, NEW table, NEW map,
         Merged(map, Before(s, 0), table), NEW t, t = s + 1
  PROVE  Merged(WithSegment(map, s, table), Before(t, 0), table)
<1> DEFINE N == Size(relocatable_data[s])
           f == CHOOSE g : SegmentSteps(g, map, s, table, N)
<1>1. N \in Nat /\ DOMAIN relocatable_data[s] = 0 .. N - 1
  BY VectorDomain DEF SegmentsOK
<1>2. SegmentSteps(f, map, s, table, N)
  <2>1. \E g : SegmentSteps(g, map, s, table, N)
    BY <1>1, SegmentStepsExist
  <2> QED BY <2>1
<1>3. WithSegment(map, s, table) = f[N]
  BY WithSegmentIs
<1> HIDE DEF f, N
<1>4. \A n \in 0 .. N : f[n] = IF n = 0 THEN map ELSE SegmentStep(f[n - 1], s, n - 1, table)
  BY <1>2 DEF SegmentSteps
<1> DEFINE T == {n \in 0 .. N : ~ Merged(f[n], Before(s, n), table)}
<1>5. T = {}
  <2> SUFFICES ASSUME T # {} PROVE FALSE
    OBVIOUS
  <2>1. PICK m \in T : \A j \in T : m <= j
    <3>1. T \subseteq Nat
      BY <1>1
    <3> HIDE DEF T
    <3> QED BY <3>1, LeastNat
  <2>2. m \in 0 .. N /\ ~ Merged(f[m], Before(s, m), table) /\ m \in Nat
    BY <1>1
  <2>3. m # 0
    <3>1. f[0] = map
      BY <1>1, <1>4
    <3> QED BY <2>2, <3>1
  <2> DEFINE n == m - 1
  <2>4. n \in Nat /\ n \in 0 .. N /\ n < m /\ m = n + 1 /\ n \in DOMAIN relocatable_data[s]
    BY <1>1, <2>2, <2>3
  <2>5. Merged(f[n], Before(s, n), table)
    <3>1. n \notin T
      <4>1. ~ (m <= n)
        BY <2>2, <2>4
      <4> HIDE DEF T, n
      <4> QED BY <2>1, <4>1
    <3> QED BY <2>4, <3>1
  <2>6. f[m] = SegmentStep(f[n], s, n, table)
    BY <1>4, <2>2, <2>3
  <2> HIDE DEF n, T
  <2>7. /\ relocatable_data[s][n] = {} => Before(s, m) = Before(s, n)
        /\ relocatable_data[s][n] # {} => Before(s, m) = Before(s, n) \cup {Rel(s, n)}
        /\ \A c \in Before(s, n) : Later(Rel(s, n), c)
        /\ Later(Rel(s, n), Rel(s, n))
    BY <2>4, BeforeNext
  <2>8. CASE relocatable_data[s][n] = {}
    BY <2>2, <2>5, <2>6, <2>7, <2>8 DEF SegmentStep
  <2>9. CASE relocatable_data[s][n] # {}
    <3>1. CellAt(Rel(s, n)) = CHOOSE v \in relocatable_data[s][n] : TRUE
      BY <2>4, KnownIf DEF CellAt
    <3>2. f[m] = Put(f[n], Relocate(Rel(s, n), table), Relocate(CellAt(Rel(s, n)), table))
      BY <2>6, <2>9, <3>1 DEF SegmentStep
    <3>3. Merged(f[m], Before(s, n) \cup {Rel(s, n)}, table)
      BY <2>5, <2>7, <3>2, MergeOne
    <3> QED BY <2>2, <2>7, <2>9, <3>3
  <2> QED BY <2>8, <2>9
<1>6. Merged(f[N], Before(s, N), table)
  <2>1. N \in 0 .. N
    BY <1>1
  <2> QED BY <1>5, <2>1
<1> QED BY <1>3, <1>6, BeforeSegment DEF N

LEMMA AllMerge ==
  ASSUME SegmentsOK, OffsetsOK, AbsoluteOK,
         absolute_data = [b \in DOMAIN absolute_data |-> absolute_data[b]], NEW table
  PROVE  Merged(WithSegments(table), Known, table)
<1> DEFINE N == Size(relocatable_data)
           f == CHOOSE g : AllSteps(g, table, N)
<1>1. N \in Nat /\ DOMAIN relocatable_data = 0 .. N - 1
  BY VectorDomain DEF SegmentsOK
<1>2. AllSteps(f, table, N)
  <2>1. \E g : AllSteps(g, table, N)
    BY <1>1, AllStepsExist
  <2> QED BY <2>1
<1>3. WithSegments(table) = f[N]
  BY WithSegmentsIs
<1>4. Before(N, 0) = Known /\ Before(0, 0) = {}
  BY BeforeBounds
<1> HIDE DEF f, N
<1>5. \A n \in 0 .. N : f[n] = IF n = 0 THEN absolute_data ELSE WithSegment(f[n - 1], n - 1, table)
  BY <1>2 DEF AllSteps
<1> DEFINE T == {n \in 0 .. N : ~ Merged(f[n], Before(n, 0), table)}
<1>6. T = {}
  <2> SUFFICES ASSUME T # {} PROVE FALSE
    OBVIOUS
  <2>1. PICK m \in T : \A j \in T : m <= j
    <3>1. T \subseteq Nat
      BY <1>1
    <3> HIDE DEF T
    <3> QED BY <3>1, LeastNat
  <2>2. m \in 0 .. N /\ ~ Merged(f[m], Before(m, 0), table) /\ m \in Nat
    BY <1>1
  <2>3. m # 0
    <3>1. f[0] = absolute_data
      BY <1>1, <1>5
    <3> QED BY <1>4, <2>2, <3>1, MergeNone
  <2> DEFINE n == m - 1
  <2>4. n \in Nat /\ n \in 0 .. N /\ n < m /\ m = n + 1 /\ n \in DOMAIN relocatable_data
    BY <1>1, <2>2, <2>3
  <2>5. Merged(f[n], Before(n, 0), table)
    <3>1. n \notin T
      <4>1. ~ (m <= n)
        BY <2>2, <2>4
      <4> HIDE DEF T, n
      <4> QED BY <2>1, <4>1
    <3> QED BY <2>4, <3>1
  <2>6. f[m] = WithSegment(f[n], n, table)
    BY <1>5, <2>2, <2>3
  <2> HIDE DEF n, T
  <2> QED BY <2>2, <2>4, <2>5, <2>6, SegmentMerges
<1>7. N \in 0 .. N
  BY <1>1
<1> QED BY <1>3, <1>4, <1>6, <1>7

-----------------------------------------------------------------------------
(* Relocation.                                                             *)

(* The shape of the data, with what only the proofs need of it: known      *)
(* cells are at offsets in the field, and a hash map is a map.             *)
Shape == /\ DataOK /\ Frugal /\ OffsetsOK
         /\ absolute_data = [b \in DOMAIN absolute_data |-> absolute_data[b]]

LEMMA LaterOnce ==
  ASSUME SegmentsOK, NEW a \in Known, NEW b \in Known, Later(a, b), Later(b, a)
  PROVE  a = b
<1>1. /\ a = Rel(a.segment, a.offset) /\ a.segment \in Nat /\ a.offset \in Nat
      /\ b = Rel(b.segment, b.offset) /\ b.segment \in Nat /\ b.offset \in Nat
  BY KnownIs
<1>2. a.segment = b.segment /\ a.offset = b.offset
  BY <1>1 DEF Later
<1> QED BY <1>1, <1>2

LEMMA PointersAreKnown ==
  ASSUME DataOK
  PROVE  /\ Pointers(Cells) = Known
         /\ DOMAIN Cells \ Known = DOMAIN absolute_data
         /\ \A a \in Known : a \in DOMAIN Cells /\ Cells[a] = CellAt(a) /\ Lookup(a) = {Cells[a]}
         /\ \A b \in DOMAIN absolute_data : b \in DOMAIN Cells /\ Cells[b] = absolute_data[b]
<1>1. DOMAIN Cells = Known \cup DOMAIN absolute_data
  BY DEF Cells
<1>2. \A a \in Known : IsRel(a) /\ a \in Addr
  BY KnownIs DEF DataOK
<1>3. \A b \in DOMAIN absolute_data : ~ IsRel(b)
  BY DEF DataOK, AbsoluteOK
<1>4. \A a : a \in Pointers(Cells) <=> a \in Known
  BY <1>1, <1>2, <1>3 DEF Pointers
<1>5. DOMAIN Cells \ Known = DOMAIN absolute_data
  BY <1>1, <1>2, <1>3
<1>6. ASSUME NEW a \in Known
      PROVE  Cells[a] = CellAt(a) /\ Lookup(a) = {Cells[a]}
  <2>1. Cells[a] = CellAt(a)
    BY <1>1 DEF Cells, CellAt
  <2>2. CellsRead
    BY CellsAreReadings
  <2> QED BY <1>1, <1>2, <2>1, <2>2 DEF CellsRead, Get
<1>7. ASSUME NEW b \in DOMAIN absolute_data
      PROVE  Cells[b] = absolute_data[b]
  <2>1. Lookup(b) = {absolute_data[b]}
    BY <1>3 DEF Lookup
  <2> QED BY <1>1, <2>1 DEF Cells
<1> QED BY <1>1, <1>4, <1>5, <1>6, <1>7, SameElements

(* The merged map is the relocated one.                                    *)
LEMMA MergedIsRelocated ==
  ASSUME DataOK, NEW table, NEW map, Merged(map, Known, table),
         \A a \in Known : Covered(a, table) /\ \A v \in Lookup(a) : Covered(v, table)
  PROVE  Relocated(Cells, table) = {map}
<1> DEFINE landed == {Relocate(a, table) : a \in Pointers(Cells)}
           new == [b \in (DOMAIN Cells \ Pointers(Cells)) \cup landed |->
                     IF b \in landed
                     THEN Relocate(Cells[Last(Landing(Cells, table, b))], table)
                     ELSE Cells[b]]
<1>1. /\ Pointers(Cells) = Known
      /\ DOMAIN Cells \ Known = DOMAIN absolute_data
      /\ \A a \in Known : a \in DOMAIN Cells /\ Cells[a] = CellAt(a) /\ Lookup(a) = {Cells[a]}
      /\ \A b \in DOMAIN absolute_data : b \in DOMAIN Cells /\ Cells[b] = absolute_data[b]
  BY PointersAreKnown
<1>2. Relocated(Cells, table) = {new}
  <2>1. \A a \in Pointers(Cells) : Covered(a, table) /\ Covered(Cells[a], table)
    BY <1>1
  <2> QED BY <2>1 DEF Relocated
<1>3. DOMAIN new = DOMAIN map
  BY <1>1 DEF Merged
<1>4. ASSUME NEW c \in Known
      PROVE  Relocate(Cells[Last(Landing(Cells, table, Relocate(c, table)))], table)
               = map[Relocate(c, table)]
  <2> DEFINE b == Relocate(c, table)
             land == Landing(Cells, table, b)
  <2>1. PICK a \in Known : LastThere(Known, table, b, a) /\ map[b] = Relocate(CellAt(a), table)
    BY DEF Merged, HoldsLast
  <2>2. \A d : d \in land <=> d \in Known /\ Relocate(d, table) = b
    BY <1>1 DEF Landing
  <2> HIDE DEF b, land
  <2>3. a \in land /\ \A d \in land : Later(a, d)
    BY <2>1, <2>2 DEF LastThere
  <2>4. Last(land) \in land /\ \A d \in land : Later(Last(land), d)
    BY <2>3 DEF Last
  <2>5. Last(land) = a
    BY <2>2, <2>3, <2>4, LaterOnce DEF DataOK
  <2> QED BY <1>1, <2>1, <2>5 DEF b, land
<1>5. ASSUME NEW b \in DOMAIN map
      PROVE  map[b] = IF b \in landed
                      THEN Relocate(Cells[Last(Landing(Cells, table, b))], table)
                      ELSE Cells[b]
  <2>1. CASE b \in landed
    <3>1. PICK c \in Known : b = Relocate(c, table)
      BY <1>1, <2>1
    <3> QED BY <1>4, <2>1, <3>1
  <2>2. CASE b \notin landed
    <3>1. b \in DOMAIN absolute_data /\ \A a \in Known : Relocate(a, table) # b
      BY <1>1, <2>2 DEF Merged
    <3>2. map[b] = absolute_data[b]
      BY <3>1 DEF Merged
    <3> QED BY <1>1, <2>2, <3>1, <3>2
  <2> QED BY <2>1, <2>2
<1>6. map = [b \in DOMAIN map |-> map[b]]
  BY DEF Merged
<1>7. new = map
  <2> DEFINE old == [b \in DOMAIN map |-> map[b]]
  <2>1. DOMAIN map = (DOMAIN Cells \ Pointers(Cells)) \cup landed
    BY <1>3
  <2> HIDE DEF landed
  <2>2. new = old
    BY <1>5, <2>1
  <2> QED BY <1>6, <2>2
<1> QED BY <1>2, <1>7
LEMMA RelocateType ==
  ASSUME NEW table, IsTable(table), NEW v \in Value, Covered(v, table)
  PROVE  /\ Relocate(v, table) \in Value /\ ~ IsRel(Relocate(v, table))
         /\ v \in Addr => Relocate(v, table) \in Addr
<1>1. CASE IsRel(v)
  <2>1. v.segment \in DOMAIN table /\ v.offset \in M31
    BY <1>1 DEF Covered, Value, IsRel, Relocatables, Absolutes
  <2>2. table[v.segment] \in M31
    BY <2>1 DEF IsTable
  <2> DEFINE m == MAdd(table[v.segment], v.offset)
  <2>3. m \in M31
    BY <2>1, <2>2, MType
  <2>4. Relocate(v, table) = Abs(Felt(m))
    BY <1>1 DEF Relocate
  <2> HIDE DEF m
  <2>5. Felt(m) \in BaseField /\ Felt(m) \in QM31
    BY <2>3, PAssumption DEF Felt, BaseField, QM31, CM31, CZero, M31
  <2> QED BY <2>4, <2>5 DEF Abs, Value, Addr, Absolutes, IsRel
<1>2. CASE ~ IsRel(v)
  BY <1>2 DEF Relocate
<1> QED BY <1>1, <1>2

LEMMA KnownCovered ==
  ASSUME Shape, NEW table, IsTable(table),
         \A a \in Known : Covered(a, table) /\ \A v \in Lookup(a) : Covered(v, table)
  PROVE  \A a \in Known : /\ Relocate(a, table) \in Addr /\ ~ IsRel(Relocate(a, table))
                          /\ Relocate(CellAt(a), table) \in Value
                          /\ ~ IsRel(Relocate(CellAt(a), table))
<1> SUFFICES ASSUME NEW a \in Known
             PROVE  /\ Relocate(a, table) \in Addr /\ ~ IsRel(Relocate(a, table))
                    /\ Relocate(CellAt(a), table) \in Value
                    /\ ~ IsRel(Relocate(CellAt(a), table))
  OBVIOUS
<1>1. /\ a \in Addr /\ IsRel(a)
      /\ a.segment \in DOMAIN relocatable_data
      /\ a.offset \in DOMAIN relocatable_data[a.segment]
      /\ relocatable_data[a.segment][a.offset] # {}
  BY KnownIs DEF Shape, DataOK
<1>2. CellAt(a) \in Lookup(a) /\ Lookup(a) = relocatable_data[a.segment][a.offset]
  BY <1>1 DEF Lookup, CellAt
<1>3. CellAt(a) \in Value /\ Covered(CellAt(a), table) /\ Covered(a, table)
  BY <1>1, <1>2 DEF Shape, DataOK, SegmentsOK
<1>4. a \in Value
  BY <1>1 DEF Addr, Value
<1> QED BY <1>1, <1>3, <1>4, RelocateType

(* Relocating leaves the relocated map, and nothing but it.                *)
LEMMA RelocateIs ==
  ASSUME Shape, NEW table \in Tables, RelocateAll(table)
  PROVE  /\ Shape'
         /\ Relocated(Cells, table) = {Cells'}
         /\ Merged(Cells', Known, table)
<1> DEFINE map == WithSegments(table)
<1>1. IsTable(table)
  BY CallsAssumption
<1>2. /\ \A a \in Known : Covered(a, table) /\ \A v \in Lookup(a) : Covered(v, table)
      /\ absolute_data' = map /\ relocatable_data' = Empty
  BY DEF RelocateAll
<1>3. Merged(map, Known, table)
  BY AllMerge DEF Shape, DataOK
<1>4. Relocated(Cells, table) = {map}
  BY <1>2, <1>3, MergedIsRelocated DEF Shape
<1> HIDE DEF map
<1>5. \A a \in Known : /\ Relocate(a, table) \in Addr /\ ~ IsRel(Relocate(a, table))
                       /\ Relocate(CellAt(a), table) \in Value
  BY <1>1, <1>2, KnownCovered
<1>6. ASSUME NEW b \in DOMAIN map
      PROVE  b \in Addr /\ ~ IsRel(b) /\ map[b] \in Value
  <2>1. CASE \E c \in Known : Relocate(c, table) = b
    <3>1. PICK c \in Known : Relocate(c, table) = b
      BY <2>1
    <3>2. PICK a \in Known : map[b] = Relocate(CellAt(a), table)
      BY <1>3, <3>1 DEF Merged, HoldsLast
    <3> QED BY <1>5, <3>1, <3>2
  <2>2. CASE ~ \E c \in Known : Relocate(c, table) = b
    <3>1. b \in DOMAIN absolute_data /\ map[b] = absolute_data[b]
      BY <1>3, <2>2 DEF Merged
    <3> QED BY <3>1 DEF Shape, DataOK, AbsoluteOK, IsMemory
  <2> QED BY <2>1, <2>2
<1>7. AbsoluteOK'
  BY <1>2, <1>6 DEF AbsoluteOK, IsMemory
<1>8. SegmentsOK' /\ Frugal' /\ OffsetsOK'
  BY <1>2, EmptyIsVector DEF SegmentsOK, Frugal, OffsetsOK
<1>9. map = [b \in DOMAIN map |-> map[b]]
  BY <1>3 DEF Merged
<1>10. Shape'
  BY <1>2, <1>7, <1>8, <1>9 DEF Shape, DataOK
<1>11. Cells' = map
  <2>1. Known' = {}
    BY <1>2, EmptyIsVector DEF Known
  <2>2. \A b \in DOMAIN map : Lookup(b)' = {map[b]}
    BY <1>2, <1>6 DEF Lookup
  <2>3. Cells' = [b \in DOMAIN map |-> CHOOSE v \in Lookup(b)' : TRUE]
    BY <1>2, <2>1 DEF Cells
  <2>4. \A b \in DOMAIN map : (CHOOSE v \in Lookup(b)' : TRUE) = map[b]
    BY <2>2
  <2> QED BY <1>9, <2>3, <2>4
<1> QED BY <1>3, <1>4, <1>10, <1>11

LEMMA InsertKeepsShape ==
  ASSUME Shape, NEW a \in Addresses, NEW v \in Values,
         InsertPointer(a, v) \/ InsertAbsolute(a, v)
  PROVE  Shape'
<1>1. DataOK' /\ Frugal'
  BY InsertKeepsData DEF Shape
<1>2. CASE InsertPointer(a, v)
  <2> DEFINE d == relocatable_data'
  <2>1. a \in Addr /\ v \in Value /\ IsRel(a) /\ absolute_data' = absolute_data
    BY <1>2, CallsAssumption DEF InsertPointer
  <2>2. a.segment \in Nat /\ a.offset \in Nat /\ a.offset \in M31
        /\ a = Rel(a.segment, a.offset)
    BY <2>1, PointerParts
  <2>3. d = Written(Rel(a.segment, a.offset), v)
    BY <1>2, <2>2 DEF InsertPointer
  <2>4. Inserted(d, a.segment, a.offset, v)
    BY <2>1, <2>2, <2>3, WrittenIs DEF Shape, DataOK
  <2> HIDE DEF d
  <2>5. ASSUME NEW s \in DOMAIN d, NEW o \in DOMAIN d[s], d[s][o] # {}
        PROVE  o \in M31
    <3>1. CASE s = a.segment
      BY <2>2, <2>4, <2>5, <3>1 DEF Inserted, Shape, OffsetsOK
    <3>2. CASE s # a.segment
      <4>1. CASE s \in DOMAIN relocatable_data
        BY <2>4, <2>5, <3>2, <4>1 DEF Inserted, Shape, OffsetsOK
      <4>2. CASE s \notin DOMAIN relocatable_data
        BY <2>4, <2>5, <3>2, <4>2, EmptyIsVector DEF Inserted
      <4> QED BY <4>1, <4>2
    <3> QED BY <3>1, <3>2
  <2>6. OffsetsOK'
    BY <2>5 DEF OffsetsOK, d
  <2> QED BY <1>1, <2>1, <2>6 DEF Shape
<1>3. CASE InsertAbsolute(a, v)
  <2>1. OffsetsOK'
    BY <1>3 DEF InsertAbsolute, Shape, OffsetsOK
  <2>2. absolute_data' = [b \in DOMAIN absolute_data' |-> absolute_data'[b]]
    BY <1>3 DEF InsertAbsolute, Put
  <2> QED BY <1>1, <2>1, <2>2 DEF Shape
<1> QED BY <1>2, <1>3

LEMMA ShapeInit == ASSUME DInit PROVE Shape /\ Cells = << >>
<1>1. DataOK /\ Frugal /\ OffsetsOK
  BY EmptyIsVector DEF DInit, DataOK, SegmentsOK, AbsoluteOK, IsMemory, Frugal, OffsetsOK
<1>2. absolute_data = [b \in DOMAIN absolute_data |-> absolute_data[b]]
  BY DEF DInit
<1>3. Known = {} /\ DOMAIN absolute_data = {}
  BY EmptyIsVector DEF DInit, Known
<1>4. Cells = << >>
  BY <1>3 DEF Cells
<1> QED BY <1>1, <1>2, <1>4 DEF Shape

LEMMA ShapeNext == ASSUME Shape, [DNext]_dvars PROVE Shape'
<1>1. ASSUME NEW a \in Addresses, NEW v \in Values,
             InsertPointer(a, v) \/ InsertAbsolute(a, v)
      PROVE  Shape'
  BY <1>1, InsertKeepsShape
<1>2. ASSUME NEW table \in Tables, RelocateAll(table)
      PROVE  Shape'
  BY <1>2, RelocateIs
<1>3. CASE UNCHANGED <<relocatable_data, absolute_data>>
  BY <1>3 DEF Shape, DataOK, SegmentsOK, AbsoluteOK, Frugal, OffsetsOK
<1> QED BY <1>1, <1>2, <1>3 DEF DNext, dvars, GetCell

LEMMA ShapeAlways == DSpec => []Shape
BY ShapeInit, ShapeNext, PTL DEF DSpec

(* The stored vectors are vectors of options, each known cell a value, and *)
(* the hash map has no pointer among its keys, however the calls come and  *)
(* whatever is relocated (DataOK).                                         *)
THEOREM DataStaysOK == DSpec => []DataOK
BY ShapeAlways, PTL DEF Shape

(* The stored vectors never waste more than half, however the calls come:  *)
(* memory/mod.rs's inserts through maybe_resize (utils.rs).                *)
THEOREM FrugalAlways == DSpec => []Frugal
BY ShapeAlways, PTL DEF Shape

(* The abstract map relocates as MemoryVectors' own reading of it does.    *)
LEMMA MapRelocates ==
  ASSUME NEW m, NEW table
  PROVE  Map!Relocated(m, table) = Relocated(m, table)
<1>1. \A v : Map!IsRel(v) = IsRel(v) /\ Map!Covered(v, table) = Covered(v, table)
  BY DEF Map!IsRel, IsRel, Map!Covered, Covered
<1>2. \A v : Map!Relocate(v, table) = Relocate(v, table)
  BY <1>1 DEF Map!Relocate, Relocate, Map!Abs, Abs, Map!Felt, Felt, Map!CZero, CZero,
              Map!MAdd, MAdd, Map!PartialReduce, PartialReduce
<1>3. Map!Pointers(m) = Pointers(m)
  BY <1>1 DEF Map!Pointers, Pointers
<1>4. \A b : Map!Landing(m, table, b) = Landing(m, table, b)
  BY <1>2, <1>3 DEF Map!Landing, Landing
<1>5. \A cells : Map!Last(cells) = Last(cells)
  BY DEF Map!Last, Last, Map!Later, Later
<1> DEFINE landed == {Relocate(a, table) : a \in Pointers(m)}
           other == {Map!Relocate(a, table) : a \in Map!Pointers(m)}
           dom == (DOMAIN m \ Pointers(m)) \cup landed
           At(b) == IF b \in landed THEN Relocate(m[Last(Landing(m, table, b))], table)
                    ELSE m[b]
           AtOther(b) == IF b \in other
                         THEN Map!Relocate(m[Map!Last(Map!Landing(m, table, b))], table)
                         ELSE m[b]
           guard == \A a \in Pointers(m) : Covered(a, table) /\ Covered(m[a], table)
<1>6. other = landed
  BY <1>2, <1>3
<1>7. \A b : AtOther(b) = At(b)
  BY <1>2, <1>4, <1>5, <1>6
<1>8. Map!Relocated(m, table)
        = IF guard THEN {[b \in (DOMAIN m \ Pointers(m)) \cup other |-> AtOther(b)]} ELSE {}
  BY <1>1, <1>3 DEF Map!Relocated
<1>9. Relocated(m, table) = IF guard THEN {[b \in dom |-> At(b)]} ELSE {}
  BY DEF Relocated
<1>10. [b \in dom |-> AtOther(b)] = [b \in dom |-> At(b)]
  <2> HIDE DEF At, AtOther, dom
  <2> QED BY <1>7
<1> HIDE DEF At, AtOther, guard, landed, other
<1> QED BY <1>6, <1>8, <1>9, <1>10

LEMMA StepImplementsMap ==
  ASSUME Shape, [DNext]_dvars
  PROVE  [Map!MNext]_(Map!mvars)
<1>1. DataOK /\ Frugal
  BY DEF Shape
<1>2. ASSUME NEW a \in Addresses, NEW v \in Values,
             InsertPointer(a, v) \/ InsertAbsolute(a, v)
      PROVE  Map!MNext
  BY <1>1, <1>2, InsertImplementsMap DEF Map!MNext
<1>3. ASSUME NEW a \in Addresses, GetCell(a)
      PROVE  Map!MNext
  BY <1>1, <1>3, GetImplementsMap DEF Map!MNext
<1>4. ASSUME NEW table \in Tables, RelocateAll(table)
      PROVE  Map!MNext
  <2>1. Cells' \in Map!Relocated(Cells, table)
    BY <1>4, RelocateIs, MapRelocates
  <2>2. answer' = {}
    BY <1>4 DEF RelocateAll
  <2>3. Map!MRelocate(table)
    BY <2>1, <2>2 DEF Map!MRelocate
  <2> QED BY <2>3 DEF Map!MNext
<1>5. CASE UNCHANGED dvars
  <2>1. \A b : Lookup(b)' = Lookup(b)
    BY <1>5 DEF dvars, Lookup
  <2> QED BY <1>5, <2>1 DEF dvars, Map!mvars, Cells, Known, Lookup
<1> QED BY <1>2, <1>3, <1>4, <1>5 DEF DNext

(* The memory is one partial map (ImplementsMap): no growth of a vector,   *)
(* no new segment and no gap between two addresses loses a cell, moves one *)
(* or makes one up (Memory::insert and Memory::get), and relocating it     *)
(* segment by segment and cell by cell relocates the map, the last of the  *)
(* cells that meet on one address staying (Memory::relocate).              *)
THEOREM ImplementsTheMap == DSpec => ImplementsMap
<1>1. DInit => Map!MInit
  BY ShapeInit DEF DInit, Map!MInit
<1>2. Shape /\ [DNext]_dvars => [Map!MNext]_(Map!mvars)
  BY StepImplementsMap
<1> QED BY <1>1, <1>2, ShapeAlways, PTL DEF DSpec, ImplementsMap, Map!MSpec

(* What RelocationKeepsCells says of one relocation.                       *)
KeepsCells(table) ==
  RelocateAll(table) /\ Separates(table, Cells) =>
    /\ \A a \in DOMAIN Cells : Get(Cells', Relocate(a, table)) = {Relocate(Cells[a], table)}
    /\ \A a \in DOMAIN Cells' : ~IsRel(a) /\ ~IsRel(Cells'[a])

LEMMA RelocateKeepsCells ==
  ASSUME Shape, NEW table \in Tables
  PROVE  KeepsCells(table)
<1> SUFFICES ASSUME RelocateAll(table), Separates(table, Cells)
             PROVE  /\ \A a \in DOMAIN Cells :
                         Get(Cells', Relocate(a, table)) = {Relocate(Cells[a], table)}
                    /\ \A a \in DOMAIN Cells' : ~IsRel(a) /\ ~IsRel(Cells'[a])
  BY DEF KeepsCells
<1> DEFINE new == Cells'
<1>1. Merged(new, Known, table) /\ IsTable(table)
  BY RelocateIs, CallsAssumption
<1>2. /\ DOMAIN Cells = Known \cup DOMAIN absolute_data
      /\ \A a \in Known : a \in DOMAIN Cells /\ Cells[a] = CellAt(a)
      /\ \A b \in DOMAIN absolute_data : b \in DOMAIN Cells /\ Cells[b] = absolute_data[b]
  BY PointersAreKnown DEF Shape, Cells
<1>3. \A a \in Known : /\ ~ IsRel(Relocate(a, table)) /\ ~ IsRel(Relocate(CellAt(a), table))
  BY <1>1, KnownCovered DEF RelocateAll
<1>4. \A b \in DOMAIN absolute_data : ~ IsRel(b)
  BY DEF Shape, DataOK, AbsoluteOK
<1>5. \A a \in Known : IsRel(a)
  BY KnownIs DEF Shape, DataOK
<1>6. /\ \A a, b \in DOMAIN Cells : Relocate(a, table) = Relocate(b, table) => a = b
      /\ \A a \in DOMAIN Cells : IsRel(Cells[a]) => IsRel(a)
  BY DEF Separates
<1> HIDE DEF new
<1>7. ASSUME NEW a \in Known
      PROVE  /\ Relocate(a, table) \in DOMAIN new
             /\ new[Relocate(a, table)] = Relocate(Cells[a], table)
  <2>1. PICK c \in Known : /\ Relocate(c, table) = Relocate(a, table)
                           /\ new[Relocate(a, table)] = Relocate(CellAt(c), table)
    BY <1>1 DEF Merged, HoldsLast, LastThere
  <2>2. c = a
    BY <1>2, <1>6, <2>1
  <2> QED BY <1>1, <1>2, <2>1, <2>2 DEF Merged
<1>8. ASSUME NEW b \in DOMAIN absolute_data
      PROVE  /\ b \in DOMAIN new /\ Relocate(b, table) = b
             /\ new[b] = Cells[b] /\ ~ IsRel(Cells[b]) /\ Relocate(Cells[b], table) = Cells[b]
  <2>1. Relocate(b, table) = b
    BY <1>4 DEF Relocate
  <2>2. \A a \in Known : Relocate(a, table) # b
    BY <1>2, <1>4, <1>5, <1>6, <2>1
  <2>3. b \in DOMAIN new /\ new[b] = Cells[b]
    BY <1>1, <1>2, <2>2 DEF Merged
  <2>4. ~ IsRel(Cells[b])
    BY <1>2, <1>4, <1>6
  <2> QED BY <2>1, <2>3, <2>4 DEF Relocate
<1>9. \A a \in DOMAIN Cells : Get(new, Relocate(a, table)) = {Relocate(Cells[a], table)}
  BY <1>2, <1>7, <1>8 DEF Get
<1>10. ASSUME NEW b \in DOMAIN new
       PROVE  ~ IsRel(b) /\ ~ IsRel(new[b])
  <2>1. CASE \E a \in Known : b = Relocate(a, table)
    BY <1>2, <1>3, <1>7, <2>1
  <2>2. CASE b \in DOMAIN absolute_data
    BY <1>4, <1>8, <2>2
  <2> QED BY <1>1, <2>1, <2>2 DEF Merged
<1> QED BY <1>9, <1>10 DEF new

(* Relocation forgets nothing when the table separates the cells: each is  *)
(* where its pointer now leads, and no pointer is left                     *)
(* (RelocationKeepsCells, of Memory::relocate).                            *)
THEOREM RelocationForgetsNothing == DSpec => RelocationKeepsCells
<1>1. Shape /\ [DNext]_dvars => [\A table \in Tables : KeepsCells(table)]_dvars
  BY RelocateKeepsCells
<1>2. DSpec => [][\A table \in Tables : KeepsCells(table)]_dvars
  BY <1>1, ShapeAlways, PTL DEF DSpec
<1> QED BY <1>2 DEF RelocationKeepsCells, KeepsCells
=============================================================================
