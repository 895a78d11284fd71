--------------------------- MODULE AssembledImport --------------------------
(***************************************************************************)
(* The import of a run whose program an assembler made: what the lists of  *)
(* Instructions (prover/src/input/instructions.rs) are for.                *)
(***************************************************************************)
EXTENDS VmImport, Assembler

(* decode reads three offsets and fifteen flags, and nothing above them.   *)
WordsEnd == 32768 * (Offsets * Offsets * Offsets)
WordAt(pc) == {q[1][1] % WordsEnd : q \in MemGet(builder, pc) \cap BaseField}

(* The cell that a conditional jump tests.                                 *)
Tested(i, s) ==
  MemGet(builder, (IF "dst_base_fp" \in i.flags THEN s.fp ELSE s.ap) + i.offset0)

IsJump(l) == l[1] = "jnz_imm"
Jumps(l, s) == {i \in Written(l) \cap Encodable : Encode(i) \in WordAt(s.pc)}

(* What was assembled at the pc of a state is an instruction of the list,  *)
(* and a conditional jump is taken or not, as the list is for.             *)
AssembledFor(l, s) ==
  /\ WordAt(s.pc) \cap AssembledAs[l] # {}
  /\ IsJump(l) => \E i \in Jumps(l, s) : \E v \in Tested(i, s) :
                    v # QZero <=> (l[2] \div 2) % 2 = 1

BelongsTo(l, s) ==
  IF l = Generic THEN \A m \in ListNames : ~ AssembledFor(m, s)
  ELSE AssembledFor(l, s)

Belonging(l, n) == {k \in 1 .. n : BelongsTo(l, States[k])}

(* Each list of Instructions has, in the order of the trace, the states    *)
(* whose instruction was assembled from what the list's comment says, and  *)
(* the generic list those that were assembled from nothing of the kind.    *)
SortedAsAssembled ==
  \A l \in ListNames :
    /\ Len(instructions.lists[l]) = Cardinality(Belonging(l, traceRead))
    /\ \A k \in Belonging(l, traceRead) :
         instructions.lists[l][Cardinality(Belonging(l, k))] = States[k]

(* A state that push_instr cannot take: there is no word at its pc, or it  *)
(* is not in the base field, or the cell that a conditional jump tests is  *)
(* not there.                                                              *)
Unreadable(s) ==
  \/ WordAt(s.pc) = {}
  \/ \E l \in ListNames : IsJump(l) /\ \E i \in Jumps(l, s) : Tested(i, s) = {}

(* The import stops at the first such state, and for no other reason once  *)
(* the segments are what they should be.                                   *)
StopsOnMissingCell ==
  /\ \A k \in DOMAIN States : ~ Unreadable(States[k])
  /\ status = "panic" /\ HasSegments /\ EndAddrHolds /\ HasRangeCheck =>
       /\ traceRead < Len(input.trace)
       /\ Unreadable(StateOf(input.trace[traceRead + 1]))
=============================================================================
