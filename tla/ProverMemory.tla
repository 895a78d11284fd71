---------------------------- MODULE ProverMemory ----------------------------
(***************************************************************************)
(* prover/src/input/mem.rs: the memory of a run as the prover keeps it.    *)
(* Every distinct word of the memory file gets an id, the position of its  *)
(* value in f31_values; address_to_value_index gives the id of each        *)
(* address from 0 to the largest one.  inst_cache holds the words that     *)
(* were read as instructions.                                              *)
(*                                                                         *)
(* Addresses and ids start at 0, as in the code; the sequence f31_values   *)
(* starts at 1.  As in Fields, {} is a panic and {r} the result r.         *)
(***************************************************************************)
EXTENDS Fields, Sequences

CONSTANTS WordSize,         \* 2^32, the number of values of a u32
          SmallValueShift   \* SMALL_VALUE_SHIFT, 2^26

(* A word of the file may be larger than an element of the field.          *)
ASSUME WordAssumption == WordSize \in Nat /\ P < WordSize
ASSUME ShiftAssumption == SmallValueShift \in Nat

Word == 0 .. (WordSize - 1)
Raw == Word \X Word \X Word \X Word          \* [u32; 4]

(* MemConfig::new, which asserts that its bounds are small.                *)
MemConfigHolds(small_max) == small_max <= SmallValueShift

(* M31::from(u32) reduces each coordinate.                                 *)
Reduce(raw) == <<<<raw[1] % P, raw[2] % P>>, <<raw[3] % P, raw[4] % P>>>>

-----------------------------------------------------------------------------
EmptyMap == [x \in {} |-> x]
Put(f, x, y) == [z \in DOMAIN f \cup {x} |-> IF z = x THEN y ELSE f[z]]

(* MemoryBuilder::new                                                      *)
NewBuilder == [address_to_value_index |-> EmptyMap,
               f31_values |-> << >>,
               inst_cache |-> EmptyMap,
               felt31_id_cache |-> EmptyMap]

(* The id of a word: the one it has, or else the next one.  Words are told *)
(* apart as they stand in the file, before they are reduced.               *)
(* Variant to be caught: words are told apart by their values.             *)
WithIdByValue(b, raw) ==
  LET same == {r \in DOMAIN b.felt31_id_cache : Reduce(r) = Reduce(raw)}
  IN IF same # {}
     THEN [b EXCEPT !.felt31_id_cache = Put(@, raw, @[CHOOSE r \in same : TRUE])]
     ELSE [b EXCEPT !.f31_values = Append(@, Reduce(raw)),
                    !.felt31_id_cache = Put(@, raw, Len(b.f31_values))]

WithId(b, raw) ==
  IF raw \in DOMAIN b.felt31_id_cache THEN b
  ELSE [b EXCEPT !.f31_values = Append(@, Reduce(raw)),
                 !.felt31_id_cache = Put(@, raw, Len(b.f31_values))]

(* MemoryBuilder::set: the addresses skipped by a resize get id 0.         *)
(* Variant to be caught: the resize forgets what was there.                *)
SetCleared(b, addr, id) ==
  [b EXCEPT !.address_to_value_index =
     [a \in DOMAIN @ \cup 0 .. addr |->
        IF a = addr THEN id ELSE IF addr \in DOMAIN @ THEN @[a] ELSE 0]]

Set(b, addr, id) ==
  [b EXCEPT !.address_to_value_index =
     [a \in DOMAIN @ \cup 0 .. addr |->
        IF a = addr THEN id ELSE IF a \in DOMAIN @ THEN @[a] ELSE 0]]

(* One turn of the loop of MemoryBuilder::from_iter.                       *)
AddEntry(b, entry) ==
  LET c == WithId(b, entry.val)
  IN Set(c, entry.addr, c.felt31_id_cache[entry.val])

(* Memory::get, which panics beyond the last address.                      *)
MemGet(b, addr) ==
  {b.f31_values[b.address_to_value_index[a] + 1] :
     a \in {addr} \cap DOMAIN b.address_to_value_index}

(* MemoryBuilder::get_inst: a cached word, or else the one at the address, *)
(* which panics when that is not in the base field.  The word comes with   *)
(* the builder that remembers it.                                          *)
(* Variant to be caught: a word read for one address is found at the next. *)
GetInstShifted(b, addr) ==
  IF addr \in DOMAIN b.inst_cache
  THEN {[inst |-> b.inst_cache[addr], builder |-> b]}
  ELSE {[inst |-> q[1][1],
         builder |-> [b EXCEPT !.inst_cache = Put(@, addr + 1, q[1][1])]] :
          q \in MemGet(b, addr) \cap BaseField}

GetInst(b, addr) ==
  IF addr \in DOMAIN b.inst_cache
  THEN {[inst |-> b.inst_cache[addr], builder |-> b]}
  ELSE {[inst |-> q[1][1],
         builder |-> [b EXCEPT !.inst_cache = Put(@, addr, q[1][1])]] :
          q \in MemGet(b, addr) \cap BaseField}
=============================================================================
