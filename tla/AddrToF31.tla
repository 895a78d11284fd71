------------------------------ MODULE AddrToF31 -----------------------------
(***************************************************************************)
(* prover/src/components/memory/addr_to_f31: the table of the memory's     *)
(* addresses and values, with how often each is looked up, and the columns *)
(* it is committed as.  A vector of the SIMD backend is a pack of Lanes    *)
(* field elements; a column is a function on its rows, from 0.             *)
(***************************************************************************)
EXTENDS ProverMemory, FiniteSets

CONSTANTS Lanes,                \* N_LANES, 16
          MemoryAddressBound    \* MEMORY_ADDRESS_BOUND, 2^20

(* 1, 2, 4, ..., 2^n                                                       *)
PowersOfTwo(n) ==
  LET power[k \in 0 .. n] == IF k = 0 THEN 1 ELSE 2 * power[k - 1]
  IN {power[k] : k \in 0 .. n}

ASSUME LanesAssumption == Lanes \in Nat /\ Lanes \in PowersOfTwo(Lanes)

(* A row number is an element of the field, in the code with room to spare *)
(* (2^22 and 2^31 - 1).                                                    *)
ASSUME BoundAssumption == /\ MemoryAddressBound \in Nat
                          /\ 4 * MemoryAddressBound < P

NextPowerOfTwo(n) ==
  LET powers == {p \in PowersOfTwo(n) : p >= n}
  IN CHOOSE p \in powers : \A q \in powers : p <= q

(* QM31::to_m31_array                                                      *)
Coordinates(q) == <<q[1][1], q[1][2], q[2][1], q[2][2]>>

Size(b) == NextPowerOfTwo(Cardinality(DOMAIN b.address_to_value_index))

(* The cell at an address; those beyond the memory are padding.            *)
CellValue(b, a) == CHOOSE q \in MemGet(b, a) \cup {QZero} :
                     MemGet(b, a) # {} => q \in MemGet(b, a)

(* Every Lanes cells make four packs, one for each coordinate; cells that  *)
(* do not fill a chunk are dropped.                                        *)
(* Variant to be caught: a chunk is four cells by four coordinates.        *)
PacksTransposed(b) ==
  [k \in 0 .. (4 * (Size(b) \div Lanes) - 1) |->
     [j \in 0 .. (Lanes - 1) |->
        Coordinates(CellValue(b, (k \div 4) * Lanes + (k % Lanes)))[(j % 4) + 1]]]

Packs(b) ==
  [k \in 0 .. (4 * (Size(b) \div Lanes) - 1) |->
     [j \in 0 .. (Lanes - 1) |->
        Coordinates(CellValue(b, (k \div 4) * Lanes + j))[(k % 4) + 1]]]

(* ClaimGenerator::new, which asserts the bound.                           *)
NewGenerator(b) ==
  IF Size(b) <= MemoryAddressBound
  THEN {[values |-> Packs(b), multiplicities |-> [a \in 0 .. (Size(b) - 1) |-> 0]]}
  ELSE {}

(* ClaimGenerator::add_inputs                                              *)
(* Variant to be caught: a use is marked and not counted.                  *)
AddInputsOnce(g, memory_index) == [g EXCEPT !.multiplicities[memory_index] = 1]

AddInputs(g, memory_index) == [g EXCEPT !.multiplicities[memory_index] = @ + 1]

(* ClaimGenerator::write_trace: the columns, which are {} when there are   *)
(* no rows, for then checked_ilog2 is None.  The columns of the table have *)
(* a row for every element of every pack, that of the multiplicities one   *)
(* for every cell.                                                         *)
WriteTrace(g) ==
  LET rows == 0 .. (Cardinality(DOMAIN g.values) * Lanes - 1)
      zeros == [r \in rows |-> 0]
  IN IF rows = {} THEN {}
     ELSE {<<[r \in rows |-> r], [r \in rows |-> g.values[r \div Lanes][r % Lanes]],
             zeros, zeros, zeros, g.multiplicities>>}

(* write_interaction_trace goes through the packs of the first column and  *)
(* takes the pack at the same place of every other one.                    *)
PacksOf(column) == {r \div Lanes : r \in DOMAIN column}

InteractionInBounds(trace) ==
  \A k \in 2 .. 6 : PacksOf(trace[1]) \subseteq PacksOf(trace[k])

-----------------------------------------------------------------------------
(* Eval::evaluate adds to the relation, for every row, its multiplicity of *)
(* the tuple of address and value, and lookup_sum_valid one of each public *)
(* tuple with the other sign.  With random elements the sum is zero when   *)
(* every tuple is as often on one side as on the other.                    *)
Row(trace, r) == <<trace[1][r], trace[2][r], trace[3][r], trace[4][r], trace[5][r]>>

Multiplicity(trace, r) == IF r \in DOMAIN trace[6] THEN trace[6][r] ELSE 0

LookedUp(trace, t) == {r \in DOMAIN trace[1] : Row(trace, r) = t
                                                /\ Multiplicity(trace, r) > 0}
=============================================================================
