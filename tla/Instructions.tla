---------------------------- MODULE Instructions ----------------------------
(***************************************************************************)
(* The instruction functions of vm/*.rs.  Each takes the memory and the    *)
(* registers and gives back both; here m is the memory, s the registers    *)
(* [ap, fp, pc], i a decoded instruction, and the result is set-valued,    *)
(* {} where the code panics.                                               *)
(***************************************************************************)
EXTENDS Opcodes

Registers == [ap : Addr, fp : Addr, pc : Addr]

-----------------------------------------------------------------------------
(* Addresses and operands (resolve_addresses, vm/operand.rs).              *)

Address(s, base, offset) ==
  AddM31(IF base = "ap" THEN s.ap ELSE s.fp, offset)

Immediate(m31) == Abs(Felt(m31))

(* Operation::apply and Operation::deduce; deduce(z, y) is the x with      *)
(* apply(x, y) = z.                                                        *)
Apply(fn, x, y)  == IF fn = "add" THEN Plus(x, y) ELSE Times(x, y)
(* Variant to be caught: the terms of the difference swapped.              *)
DeduceSwapped(fn, z, y) == IF fn = "add" THEN Minus(y, z) ELSE Over(y, z)

Deduce(fn, z, y) == IF fn = "add" THEN Minus(z, y) ELSE Over(z, y)

(* The two sides of a sum or a product.  The second is always a cell; its  *)
(* argument is the second one.                                             *)
LeftAddress(s, o, a)  == Address(s, o.x, a[1])
RightAddress(s, o, a) == Address(s, o.y, a[2])
Left(m, s, o, a)  == IF o.x = "imm" THEN {Immediate(a[1])}
                     ELSE Get(m, LeftAddress(s, o, a))
Right(m, s, o, a) == Get(m, RightAddress(s, o, a))

(* The cell a double dereference reads: the pointer in [x + a1], moved by  *)
(* a2.                                                                     *)
OuterAddresses(m, s, o, a) ==
  Project({AddM31(v, a[2]) : v \in Get(m, Address(s, o.x, a[1]))})

OperandValue(m, s, o, a) ==
  CASE o.fn = "imm"   -> {Immediate(a[1])}
    [] o.fn = "deref" -> Get(m, Address(s, o.x, a[1]))
    [] o.fn = "double_deref" ->
         UNION {Get(m, b) : b \in OuterAddresses(m, s, o, a)}
    [] OTHER -> UNION {Apply(o.fn, x, y) :
                         x \in Left(m, s, o, a), y \in Right(m, s, o, a)}

(* The operand as an address or an offset: assert_and_project.             *)
Target(m, s, o, a) == Project(OperandValue(m, s, o, a))

-----------------------------------------------------------------------------
(* Registers (State::advance, advance_and_increment_ap).                   *)

IncrementAp(ap, appp) == IF appp THEN AddM31(ap, 1) ELSE ap

Advance(s, appp) == [s EXCEPT !.ap = IncrementAp(@, appp),
                              !.pc = AddM31(@, 1)]

Goto(s, appp, pc) == [s EXCEPT !.ap = IncrementAp(@, appp), !.pc = pc]

(* jmp_rel and call_rel move pc by the target, jmp_abs and call_abs set it.*)
Destination(s, rel, target) == IF rel THEN Plus(s.pc, target) ELSE {target}

Destinations(m, s, i) ==
  UNION {Destination(s, i.op.rel, t) : t \in Target(m, s, i.op.operand, i.args)}

-----------------------------------------------------------------------------
(* vm/add_ap.rs, vm/jmp.rs, vm/jnz.rs: only the registers change.          *)

(* Variant to be caught: ap set to the operand.                            *)
AddApSets(m, s, i) ==
  {[s EXCEPT !.ap = ap, !.pc = AddM31(@, 1)] :
     ap \in Target(m, s, i.op.operand, i.args)}

AddApStates(m, s, i) ==
  {[s EXCEPT !.ap = ap, !.pc = AddM31(@, 1)] :
     ap \in UNION {Plus(s.ap, t) : t \in Target(m, s, i.op.operand, i.args)}}

JumpStates(m, s, i) == {Goto(s, i.op.appp, pc) : pc \in Destinations(m, s, i)}

(* Variant to be caught: the jump is taken on zero.                        *)
JnzOnZero(m, s, i) ==
  LET Offsets    == Project(Left(m, s, i.op.operand, i.args))
      Conditions == {v \in Right(m, s, i.op.operand, i.args) : ~IsRel(v)}
  IN IF Conditions = {} THEN {}
     ELSE IF Conditions # {Abs(QZero)} THEN {Advance(s, i.op.appp)}
     ELSE {Goto(s, i.op.appp, pc) : pc \in UNION {Plus(s.pc, d) : d \in Offsets}}

(* The first argument gives the destination and the second the condition,  *)
(* which must be a number; the destination is read and projected even when *)
(* the jump is not taken.                                                  *)
JnzStates(m, s, i) ==
  LET Offsets    == Project(Left(m, s, i.op.operand, i.args))
      Conditions == {v \in Right(m, s, i.op.operand, i.args) : ~IsRel(v)}
  IN IF Offsets = {} \/ Conditions = {} THEN {}
     ELSE IF Conditions = {Abs(QZero)} THEN {Advance(s, i.op.appp)}
     ELSE {Goto(s, i.op.appp, pc) : pc \in UNION {Plus(s.pc, d) : d \in Offsets}}

-----------------------------------------------------------------------------
(* vm/call.rs.                                                             *)

(* Variants to be caught: the cells swapped, the return pc that of the call*)
(* itself, and a push that keeps what the cells hold.                      *)
PushSwapped(m, s) ==
  UNION {Insert(n, AddM31(s.ap, 1), s.fp) : n \in Insert(m, s.ap, AddM31(s.pc, 1))}
PushCallPc(m, s) ==
  UNION {Insert(n, AddM31(s.ap, 1), s.pc) : n \in Insert(m, s.ap, s.fp)}
PushUnlessKnown(m, s) ==
  LET Keep(n, a, v) == IF a \in DOMAIN n THEN {n} ELSE Insert(n, a, v)
  IN UNION {Keep(n, AddM31(s.ap, 1), AddM31(s.pc, 1)) : n \in Keep(m, s.ap, s.fp)}

(* push_return_fp_and_pc: two plain inserts, whatever the cells held.      *)
PushReturn(m, s) ==
  UNION {Insert(n, AddM31(s.ap, 1), AddM31(s.pc, 1)) : n \in Insert(m, s.ap, s.fp)}

(* The registers after a call; n is the memory after the push, in which    *)
(* the destination is read.                                                *)
CallStates(n, s, i) ==
  {[ap |-> AddM31(s.ap, 2), fp |-> AddM31(s.ap, 2), pc |-> pc] :
     pc \in Destinations(n, s, i)}

(* Variant to be caught: the saved registers read in the wrong order.      *)
RetSwapped(m, s) ==
  {[s EXCEPT !.fp = saved[2], !.pc = saved[1]] :
     saved \in Project(Get(m, SubM31(s.fp, 2))) \X Project(Get(m, SubM31(s.fp, 1)))}

RetStates(m, s) ==
  {[s EXCEPT !.fp = saved[1], !.pc = saved[2]] :
     saved \in Project(Get(m, SubM31(s.fp, 2))) \X Project(Get(m, SubM31(s.fp, 1)))}

-----------------------------------------------------------------------------
(* vm/assert.rs and vm/deref.rs: an equation over at most three cells.     *)
(* With every cell known it is checked; with one unknown, that cell is     *)
(* written; with two, the code panics.                                     *)

(* Variant to be caught: the cell is written without a look at it.         *)
AssignValue(m, dest, v) == Insert(m, dest, v)

(* [dest] = v for a value v that is known.                                 *)
AssertValue(m, dest, v) ==
  CASE dest \in DOMAIN m    -> IF m[dest] = v THEN {m} ELSE {}
    [] dest \notin DOMAIN m -> Insert(m, dest, v)

(* Variant to be caught: a mismatch resolved by writing the source.        *)
AssignSource(m, dest, src) ==
  CASE dest \in DOMAIN m -> Insert(m, src, m[dest])
    [] dest \notin DOMAIN m /\ src \in DOMAIN m -> Insert(m, dest, m[src])
    [] dest \notin DOMAIN m /\ src \notin DOMAIN m -> {}

(* [dest] = [src]: assign_or_assert_deref_on_memory.                       *)
AssertCells(m, dest, src) ==
  CASE src \in DOMAIN m -> AssertValue(m, dest, m[src])
    [] src \notin DOMAIN m /\ dest \in DOMAIN m -> Insert(m, src, m[dest])
    [] src \notin DOMAIN m /\ dest \notin DOMAIN m -> {}

(* [dest] = x fn y: assign_or_assert_operation and ..._with_imm.           *)
AssertOperation(m, s, dest, o, a) ==
  LET X == Left(m, s, o, a)
      Y == Right(m, s, o, a)
      D == Get(m, dest)
  IN CASE X # {} /\ Y # {} ->
            UNION {AssertValue(m, dest, v) :
                     v \in UNION {Apply(o.fn, x, y) : x \in X, y \in Y}}
       [] X = {} /\ Y # {} ->
            UNION {Insert(m, LeftAddress(s, o, a), v) :
                     v \in UNION {Deduce(o.fn, d, y) : d \in D, y \in Y}}
       [] X # {} /\ Y = {} ->
            UNION {Insert(m, RightAddress(s, o, a), v) :
                     v \in UNION {Deduce(o.fn, d, x) : d \in D, x \in X}}
       [] X = {} /\ Y = {} -> {}

(* The asserted cell comes first in the arguments, the operand's follow.   *)
OperandArgs(a) == <<a[2], a[3]>>

(* Variant to be caught: a double dereference stops at the first cell.     *)
AssertSingleDeref(m, s, i) ==
  LET o == i.op.operand
      a == OperandArgs(i.args)
      dest == Address(s, i.op.dest, i.args[1])
  IN CASE o.fn = "imm" -> AssertValue(m, dest, Immediate(a[1]))
       [] o.fn \in {"deref", "double_deref"} ->
            AssertCells(m, dest, Address(s, o.x, a[1]))
       [] OTHER -> AssertOperation(m, s, dest, o, a)

AssertMemories(m, s, i) ==
  LET o == i.op.operand
      a == OperandArgs(i.args)
      dest == Address(s, i.op.dest, i.args[1])
  IN CASE o.fn = "imm"   -> AssertValue(m, dest, Immediate(a[1]))
       [] o.fn = "deref" -> AssertCells(m, dest, Address(s, o.x, a[1]))
       [] o.fn = "double_deref" ->
            UNION {AssertCells(m, dest, b) : b \in OuterAddresses(m, s, o, a)}
       [] OTHER -> AssertOperation(m, s, dest, o, a)
=============================================================================
