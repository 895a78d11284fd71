--------------------------- MODULE MemoryVectors ----------------------------
(***************************************************************************)
(* memory/mod.rs as it is stored: a vector of segments, each a vector of   *)
(* cells that may be unknown, grown by maybe_resize (utils.rs), and a hash *)
(* map for the absolute addresses.  A call that panics is not a step.      *)
(***************************************************************************)
EXTENDS Memory, FiniteSets

CONSTANTS Addresses, Values, Tables   \* the arguments of the calls

ASSUME CallsAssumption == /\ Addresses \subseteq Addr
                          /\ Values \subseteq Value
                          /\ \A table \in Tables : IsTable(table)

VARIABLES relocatable_data, absolute_data,
          answer   \* what the latest call returned, an Option

dvars == <<relocatable_data, absolute_data, answer>>

-----------------------------------------------------------------------------
(* Vectors are functions on 0 .. n-1; None is {} and Some(v) is {v}.       *)

Empty == << >>
Size(vector) == Cardinality(DOMAIN vector)
IsVector(vector) == /\ Size(vector) \in Nat
                    /\ vector = [k \in 0 .. Size(vector) - 1 |-> vector[k]]

(* Variant to be caught: the two lengths added instead of compared.        *)
MaybeResizeSum(vector, index, default) ==
  LET n == Size(vector)
  IN IF index < n THEN vector
     ELSE [k \in 0 .. index + 2 * n |-> IF k < n THEN vector[k] ELSE default]

(* maybe_resize: to the index or to twice the length, whichever is longer. *)
MaybeResize(vector, index, default) ==
  LET n == Size(vector)
      size == IF index + 1 > 2 * n THEN index + 1 ELSE 2 * n
  IN IF index < n THEN vector
     ELSE [k \in 0 .. size - 1 |-> IF k < n THEN vector[k] ELSE default]

(* Memory::get: None beyond the end of either vector.                      *)
Lookup(a) ==
  CASE ~IsRel(a) -> IF a \in DOMAIN absolute_data THEN {absolute_data[a]} ELSE {}
    [] IsRel(a)  -> IF /\ a.segment \in DOMAIN relocatable_data
                       /\ a.offset \in DOMAIN relocatable_data[a.segment]
                    THEN relocatable_data[a.segment][a.offset] ELSE {}

(* Memory::insert, into a segment that may be new.                         *)
Written(a, v) ==
  LET data    == MaybeResize(relocatable_data, a.segment, Empty)
      segment == MaybeResize(data[a.segment], a.offset, {})
  IN [data EXCEPT ![a.segment] = [segment EXCEPT ![a.offset] = {v}]]

InsertPointer(a, v) == /\ IsRel(a)
                       /\ relocatable_data' = Written(a, v)
                       /\ answer' = Lookup(a)
                       /\ UNCHANGED absolute_data

InsertAbsolute(a, v) == /\ ~IsRel(a)
                        /\ ValidAddress(a)
                        /\ absolute_data' = Put(absolute_data, a, v)
                        /\ answer' = Lookup(a)
                        /\ UNCHANGED relocatable_data

GetCell(a) == /\ answer' = Lookup(a)
              /\ UNCHANGED <<relocatable_data, absolute_data>>

-----------------------------------------------------------------------------
(* Memory::relocate.                                                       *)

Known == {Rel(s, o) : s \in DOMAIN relocatable_data, o \in M31} \cap
         {a \in Addr : Lookup(a) # {}}

(* Variant to be caught: cells counted after the unknown ones are dropped. *)
Rank(segment, offset) ==
  Cardinality({o \in DOMAIN segment : o < offset /\ segment[o] # {}})

(* relocate_segment: where the cell at an offset is taken to be.           *)
Position(segment, offset) == offset

(* The hash map extended by one segment's known cells, in order, and by    *)
(* every segment, in order.                                                *)
WithSegment(map, s, table) ==
  LET segment == relocatable_data[s]
      From[n \in 0 .. Size(segment)] ==
        IF n = 0 THEN map
        ELSE IF segment[n - 1] = {} THEN From[n - 1]
        ELSE Put(From[n - 1], Relocate(Rel(s, Position(segment, n - 1)), table),
                 Relocate(CHOOSE v \in segment[n - 1] : TRUE, table))
  IN From[Size(segment)]

WithSegments(table) ==
  LET From[n \in 0 .. Size(relocatable_data)] ==
        IF n = 0 THEN absolute_data ELSE WithSegment(From[n - 1], n - 1, table)
  IN From[Size(relocatable_data)]

(* Variant to be caught: the segments left in place.                       *)
RelocateKeeps(table) ==
  /\ \A a \in Known : Covered(a, table) /\ \A v \in Lookup(a) : Covered(v, table)
  /\ absolute_data' = WithSegments(table)
  /\ answer' = {}
  /\ UNCHANGED relocatable_data

RelocateAll(table) ==
  /\ \A a \in Known : Covered(a, table) /\ \A v \in Lookup(a) : Covered(v, table)
  /\ absolute_data' = WithSegments(table)
  /\ relocatable_data' = Empty
  /\ answer' = {}

-----------------------------------------------------------------------------
DInit == /\ relocatable_data = Empty
         /\ absolute_data = << >>
         /\ answer = {}

DNext == \/ \E a \in Addresses, v \in Values : InsertPointer(a, v) \/ InsertAbsolute(a, v)
         \/ \E a \in Addresses : GetCell(a)
         \/ \E table \in Tables : RelocateAll(table)

DSpec == DInit /\ [][DNext]_dvars

-----------------------------------------------------------------------------
(* The map the two parts amount to.                                        *)
Cells == [a \in Known \cup DOMAIN absolute_data |-> CHOOSE v \in Lookup(a) : TRUE]

(* Segments are vectors of options; the hash map holds values at base      *)
(* field elements (the types of memory/mod.rs, `Memory`).                  *)
SegmentsOK == /\ IsVector(relocatable_data)
              /\ \A s \in DOMAIN relocatable_data :
                   /\ IsVector(relocatable_data[s])
                   /\ \A o \in DOMAIN relocatable_data[s] :
                        \A v \in relocatable_data[s][o] :
                          v \in Value /\ relocatable_data[s][o] = {v}

AbsoluteOK == IsMemory(absolute_data) /\ \A a \in DOMAIN absolute_data : ~IsRel(a)

DataOK == SegmentsOK /\ AbsoluteOK

(* maybe_resize wastes at most half: each vector has something in its      *)
(* upper half, a known cell or, the outer one, a segment in use.           *)
FrugalSegment(segment) ==
  Size(segment) > 0 =>
    \E o \in DOMAIN segment : segment[o] # {} /\ Size(segment) <= 2 * o + 1

Frugal ==
  /\ Size(relocatable_data) > 0 =>
       \E s \in DOMAIN relocatable_data : /\ Size(relocatable_data[s]) > 0
                                         /\ Size(relocatable_data) <= 2 * s + 1
  /\ \A s \in DOMAIN relocatable_data : FrugalSegment(relocatable_data[s])

(* No absolute address is beyond the limit that validate_address states:   *)
(* "Max memory size is 2 ** 30".                                           *)
WithinLimit == \A a \in DOMAIN absolute_data : ValidAddress(a)

(* Relocation forgets nothing when the table separates the cells: each is  *)
(* where its pointer now leads, with its own pointer relocated, and no     *)
(* pointer is left.                                                        *)
RelocationKeepsCells ==
  [][\A table \in Tables :
       RelocateAll(table) /\ Separates(table, Cells) =>
         /\ \A a \in DOMAIN Cells : Get(Cells', Relocate(a, table)) = {Relocate(Cells[a], table)}
         /\ \A a \in DOMAIN Cells' : ~IsRel(a) /\ ~IsRel(Cells'[a])]_dvars

Map == INSTANCE MemoryMap WITH cells <- Cells

(* The vectors and the hash map are one partial map.                       *)
ImplementsMap == Map!MSpec
=============================================================================
