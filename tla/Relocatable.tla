---------------------------- MODULE Relocatable -----------------------------
(***************************************************************************)
(* memory/relocatable.rs: a value is either an absolute field element or a *)
(* pointer into a segment whose place is not known yet.                    *)
(*                                                                         *)
(* The code has one enum, MaybeRelocatable<T>, used with T = QM31 for      *)
(* values and T = M31 for addresses and registers.  From<M31> embeds the   *)
(* second in the first, so here an address is a value that is a pointer or *)
(* lies in the base field, and the impls of `+`, `-`, `*`, `/` for each    *)
(* pair of types are one operator each, set-valued because they may panic. *)
(***************************************************************************)
EXTENDS Fields

Rel(segment, offset) ==
  [kind |-> "relocatable", segment |-> segment, offset |-> offset]
Abs(q) == [kind |-> "absolute", value |-> q]

Relocatables == [kind : {"relocatable"}, segment : Nat, offset : M31]
Absolutes    == [kind : {"absolute"}, value : QM31]

Value == Relocatables \cup Absolutes
Addr  == Relocatables \cup {v \in Absolutes : v.value \in BaseField}

IsRel(v) == v.kind = "relocatable"

(* Variant to be caught: an absolute value passes whatever it is.          *)
ProjectUnchecked(vs) == vs

(* assert_and_project: a pointer passes, an absolute value must be a base  *)
(* field element.  vs is a set-valued result.                              *)
Project(vs) == vs \cap Addr

-----------------------------------------------------------------------------
(* `+` and `-` with an M31 on the right never panic.                       *)

AddM31(v, m) == IF IsRel(v) THEN Rel(v.segment, MAdd(v.offset, m))
                            ELSE Abs(QAdd(v.value, Felt(m)))
SubM31(v, m) == IF IsRel(v) THEN Rel(v.segment, MSub(v.offset, m))
                            ELSE Abs(QSub(v.value, Felt(m)))

(* x + y: not of two pointers, and a pointer moves by base field elements  *)
(* only (assert_and_project_on_felt).                                      *)
Plus(x, y) ==
  CASE IsRel(x) /\ IsRel(y)   -> {}
    [] IsRel(x) /\ ~IsRel(y)  -> {AddM31(x, p.value[1][1]) : p \in Project({y})}
    [] ~IsRel(x) /\ IsRel(y)  -> {AddM31(y, p.value[1][1]) : p \in Project({x})}
    [] ~IsRel(x) /\ ~IsRel(y) -> {Abs(QAdd(x.value, y.value))}

(* x - y: the distance of two pointers into one segment is a number; no    *)
(* pointer is taken from a number.                                         *)
Minus(x, y) ==
  CASE IsRel(x) /\ IsRel(y)   -> IF x.segment = y.segment
                                 THEN {Abs(Felt(MSub(x.offset, y.offset)))}
                                 ELSE {}
    [] IsRel(x) /\ ~IsRel(y)  -> {SubM31(x, p.value[1][1]) : p \in Project({y})}
    [] ~IsRel(x) /\ IsRel(y)  -> {}
    [] ~IsRel(x) /\ ~IsRel(y) -> {Abs(QSub(x.value, y.value))}

(* x * y and x / y: numbers only; dividing by zero panics.                 *)
Times(x, y) == IF IsRel(x) \/ IsRel(y) THEN {}
               ELSE {Abs(QMul(x.value, y.value))}
Over(x, y)  == IF IsRel(x) \/ IsRel(y) THEN {}
               ELSE {Abs(q) : q \in QDiv(x.value, y.value)}

-----------------------------------------------------------------------------
(* Relocation: a table gives segments their place.  A pointer into a       *)
(* segment the table lacks panics, so a value must be covered.             *)

IsTable(table) == DOMAIN table \subseteq Nat /\ table \in [DOMAIN table -> M31]

(* Variant to be caught: the base and the offset added as integers.        *)
RelocateUnreduced(v, table) == IF IsRel(v)
                               THEN Abs(Felt(table[v.segment] + v.offset))
                               ELSE v

Covered(v, table)  == IsRel(v) => v.segment \in DOMAIN table
Relocate(v, table) == IF IsRel(v)
                      THEN Abs(Felt(MAdd(table[v.segment], v.offset)))
                      ELSE v
=============================================================================
