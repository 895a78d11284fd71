------------------------------ MODULE CairoAir ------------------------------
(***************************************************************************)
(* prover/src/cairo_air/mod.rs: a run is imported and proved.  prove_cairo *)
(* takes the CairoInput that the import leaves, looks every public address *)
(* up, writes the trace of the memory component, commits to it, draws the  *)
(* interaction elements and writes the interaction trace.  There it stops: *)
(* the column of the multiplicities is a quarter as long as the others,    *)
(* and the loop over the rows leaves it.  What comes after in the code,    *)
(* the interaction claim, the fixed trace and the call of stwo's prove, is *)
(* never reached and not modelled.                                         *)
(***************************************************************************)
EXTENDS VmImport, AddrToF31, FiniteSetsExt

VARIABLES
  public_memory,   \* CairoClaim::public_memory, addresses with their values
  generator,       \* the ClaimGenerator, a set because there may be none yet
  used,            \* how many public addresses were added to it
  trace            \* the committed columns, a set for the same reason

pvars == <<public_memory, generator, used, trace>>
avars == <<vars, pvars>>

NothingProved == /\ public_memory = << >>
                 /\ generator = {}
                 /\ used = 0
                 /\ trace = {}

AInit == Init /\ NothingProved

ImportStep == Next /\ UNCHANGED pvars

-----------------------------------------------------------------------------
(* The public memory is read, and Memory::get panics beyond the end.       *)
Readable == \A k \in DOMAIN public_mem_addresses :
              MemGet(builder, public_mem_addresses[k]) # {}

PublicMemory ==
  [k \in DOMAIN public_mem_addresses |->
     <<public_mem_addresses[k] % P, CellValue(builder, public_mem_addresses[k])>>]

ExtractPublicMemory ==
  /\ status = "imported"
  /\ status' = IF Readable THEN "public" ELSE "panic"
  /\ public_memory' = IF Readable THEN PublicMemory ELSE << >>
  /\ UNCHANGED <<input, memRead, traceRead, builder, instructions,
                 public_mem_addresses, range_check_builtin, generator, used, trace>>

NewClaimGenerator ==
  /\ status = "public"
  /\ generator' = NewGenerator(builder)
  /\ status' = IF generator' = {} THEN "panic" ELSE "inputs"
  /\ UNCHANGED <<input, memRead, traceRead, builder, instructions,
                 public_mem_addresses, range_check_builtin, public_memory, used, trace>>

(* prove_cairo gives add_inputs the address.                               *)
(* Variant to be caught: the id of the value instead, as the component's   *)
(* own test does.                                                          *)
IndexById(addr) == builder.address_to_value_index[addr]

MemoryIndex(addr) == addr

AddPublicInput ==
  /\ status = "inputs"
  /\ used < Len(public_mem_addresses)
  /\ used' = used + 1
  /\ generator' = {AddInputs(g, MemoryIndex(public_mem_addresses[used + 1])) : g \in generator}
  /\ UNCHANGED <<vars, public_memory, trace>>

CommitTrace ==
  /\ status = "inputs"
  /\ used = Len(public_mem_addresses)
  /\ trace' = UNION {WriteTrace(g) : g \in generator}
  /\ status' = IF trace' = {} THEN "panic" ELSE "drawn"
  /\ UNCHANGED <<input, memRead, traceRead, builder, instructions,
                 public_mem_addresses, range_check_builtin, public_memory, generator, used>>

WriteInteractionTrace ==
  /\ status = "drawn"
  /\ status' = IF \A t \in trace : InteractionInBounds(t) THEN "interaction" ELSE "panic"
  /\ UNCHANGED <<input, memRead, traceRead, builder, instructions,
                 public_mem_addresses, range_check_builtin, pvars>>

ANext == \/ ImportStep \/ ExtractPublicMemory \/ NewClaimGenerator \/ AddPublicInput
         \/ CommitTrace \/ WriteInteractionTrace

ASpec == AInit /\ [][ANext]_avars

-----------------------------------------------------------------------------
(* The claim states of every public address of the file what the memory    *)
(* file says of it last, through the cut to 32 bits, the ids and the holes.*)
LastValues(addr) == {Reduce(Entries[k].val) : k \in {j \in DOMAIN Entries :
                                   Entries[j].addr = addr /\ LastEntry(j)}}

ClaimIsTheFile ==
  \A k \in DOMAIN public_memory :
    LET addr == input.public[k] % WordSize  values == LastValues(addr)
    IN public_memory[k] =
         <<addr % P, CHOOSE q \in IF values # {} THEN values
                                  ELSE {Reduce(Entries[1].val)} : TRUE>>

(* An address is counted as often as it was looked up, by address and not  *)
(* by value, and padding never.                                            *)
UsesCounted ==
  \A g \in generator : \A a \in DOMAIN g.multiplicities :
    g.multiplicities[a] =
      Cardinality({k \in 1 .. used : public_mem_addresses[k] = a})

(* Chunks and packs lose no cell once the memory fills a chunk: each has   *)
(* its four coordinates in the value column, and the column has no other.  *)
CellRow(a, i) == (4 * (a \div Lanes) + i) * Lanes + (a % Lanes)

LayoutKeepsCells ==
  \A t \in trace :
    /\ DOMAIN t[2] = {CellRow(a, i) : a \in 0 .. (Size(builder) - 1), i \in 0 .. 3}
    /\ \A a \in 0 .. (Size(builder) - 1) : \A i \in 0 .. 3 :
         t[2][CellRow(a, i)] = Coordinates(CellValue(builder, a))[i + 1]

(* The sum that lookup_sum_valid asks for: every tuple is public as often  *)
(* as the rows of the trace look it up, and none is looked up that is not. *)
TuplesOf(k) == <<public_memory[k][1]>> \o Coordinates(public_memory[k][2])

TimesLookedUp(t, rows) == MapThenSumSet(LAMBDA r : Multiplicity(t, r), rows)

Balanced(t) ==
  /\ \A k \in DOMAIN public_memory :
       Cardinality({j \in DOMAIN public_memory : TuplesOf(j) = TuplesOf(k)})
         = TimesLookedUp(t, LookedUp(t, TuplesOf(k)))
  /\ \A r \in DOMAIN t[1] : Multiplicity(t, r) > 0 =>
       \E k \in DOMAIN public_memory : TuplesOf(k) = Row(t, r)

(* What a row holds: the cell, and which of its coordinates.               *)
CellOfRow(r) == ((r \div Lanes) \div 4) * Lanes + (r % Lanes)
CoordinateOfRow(r) == (r \div Lanes) % 4

(* A public value is found at its address when it is in the base field and *)
(* is what the row of that number holds, although the row may be that of   *)
(* another cell.                                                           *)
FoundAtAddress(k) ==
  LET a == public_mem_addresses[k]  value == public_memory[k][2]
  IN /\ value \in BaseField
     /\ value[1][1] =
          Coordinates(CellValue(builder, CellOfRow(a)))[CoordinateOfRow(a) + 1]

(* `debug_assert!(lookup_sum_valid(..))` of prove_cairo asks for a sum of  *)
(* zero of every claim.  For what is committed the sum is zero when, and   *)
(* only when, each public value is found at its address: surely within the *)
(* first chunk, elsewhere by chance, and never outside the base field.     *)
BalancesWhenFound ==
  \A t \in trace :
    Balanced(t) <=> \A k \in DOMAIN public_memory : FoundAtAddress(k)

(* `prove_cairo(..).unwrap()` (the tests of cairo_air/mod.rs).             *)
Proves == status # "panic"
=============================================================================
