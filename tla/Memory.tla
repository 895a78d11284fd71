------------------------------- MODULE Memory -------------------------------
(***************************************************************************)
(* memory/mod.rs: the machine's memory, a partial map from addresses to    *)
(* values.  A memory is a function whose domain is the set of addresses    *)
(* that hold a value: the cells of relocatable_data that are Some(_)       *)
(* together with the keys of absolute_data.                                *)
(***************************************************************************)
EXTENDS Relocatable

CONSTANT MaxAddress   \* 2^MAX_MEMORY_SIZE_BITS; the code's is 2^30

ASSUME MaxAddressAssumption == MaxAddress \in M31

IsMemory(m) == /\ DOMAIN m \subseteq Addr
               /\ \A a \in DOMAIN m : m[a] \in Value

(* Memory::get, and Index, which panics where get answers None.            *)
Get(m, a) == IF a \in DOMAIN m THEN {m[a]} ELSE {}

(* Writing a cell, whatever it held before.                                *)
Put(m, a, v) == [b \in DOMAIN m \cup {a} |-> IF b = a THEN v ELSE m[b]]

(* validate_address: the limit holds for absolute addresses only.          *)
ValidAddress(a) == IsRel(a) \/ a.value[1][1] <= MaxAddress

(* Memory::insert.                                                         *)
Insert(m, a, v) == IF ValidAddress(a) THEN {Put(m, a, v)} ELSE {}

-----------------------------------------------------------------------------
(* Memory::relocate: the segments' cells move to absolute addresses, one   *)
(* segment after the other and each from its start, so that of two that    *)
(* land on one address the later stays, and either replaces an absolute    *)
(* cell that was there.  Absolute cells stay as they are, pointers in them *)
(* included.                                                               *)

Pointers(m) == {a \in DOMAIN m : IsRel(a)}

Landing(m, table, b) == {a \in Pointers(m) : Relocate(a, table) = b}

Later(a, c) == \/ a.segment > c.segment
               \/ a.segment = c.segment /\ a.offset >= c.offset
Last(cells) == CHOOSE a \in cells : \A c \in cells : Later(a, c)

(* Variant to be caught: the cells move and the pointers in them do not.   *)
RelocatedKeys(m, table) ==
  LET landed == {Relocate(a, table) : a \in Pointers(m)}
  IN {[b \in (DOMAIN m \ Pointers(m)) \cup landed |->
         IF b \in landed THEN m[Last(Landing(m, table, b))] ELSE m[b]]}

Relocated(m, table) ==
  LET landed == {Relocate(a, table) : a \in Pointers(m)}
  IN IF \A a \in Pointers(m) : Covered(a, table) /\ Covered(m[a], table)
     THEN {[b \in (DOMAIN m \ Pointers(m)) \cup landed |->
              IF b \in landed
              THEN Relocate(m[Last(Landing(m, table, b))], table)
              ELSE m[b]]}
     ELSE {}

(* When relocation loses nothing: the table moves no two cells to one      *)
(* address, and no pointer is at an absolute address, where it would stay. *)
Separates(table, m) ==
  /\ \A a, b \in DOMAIN m : Relocate(a, table) = Relocate(b, table) => a = b
  /\ \A a \in DOMAIN m : IsRel(m[a]) => IsRel(a)
=============================================================================
