---------------------------- MODULE CairoVMProofs ---------------------------
(***************************************************************************)
(* Theorems about the virtual machine, for every program, every P and every*)
(* MaxAddress.  First, what the operators it is built from return: values, *)
(* the instructions, their equations and what relocation makes of them.    *)
(* Of its steps: types, the stack stays in its segment, memory*)
(* is write-once but for the two unchecked inserts, and a program without  *)
(* hints runs the code that was loaded.  Of whole runs: as long as no known*)
(* cell has been given another value, calls and returns nest and the       *)
(* read-only machine is implemented.  Of the files: what is read from a    *)
(* canonical one is a program as all of this expects it.                   *)
(***************************************************************************)
EXTENDS VMHistory, ProgramFile, FieldsProofs

-----------------------------------------------------------------------------
(* Values and addresses.                                                   *)

LEMMA MakeType ==
  /\ \A g \in Nat, o \in M31 : Rel(g, o) \in Relocatables /\ IsRel(Rel(g, o))
  /\ \A q \in QM31 : Abs(q) \in Absolutes /\ ~IsRel(Abs(q))
  /\ \A q \in BaseField : Abs(q) \in Addr
  /\ \A m \in M31 : Immediate(m) \in Addr
  /\ Addr \subseteq Value
  BY FeltType DEF Rel, Abs, Relocatables, Absolutes, IsRel, Addr, Value,
                  Immediate, BaseField

(* A value is a pointer or a number.                                       *)
LEMMA ValueCases ==
  ASSUME NEW v \in Value
  PROVE  /\ IsRel(v) => v \in Relocatables /\ v.segment \in Nat /\ v.offset \in M31
         /\ ~IsRel(v) => v \in Absolutes /\ v.value \in QM31
         /\ IsRel(v) => v \in Addr
         /\ ~IsRel(v) /\ v \in Addr => v.value \in BaseField /\ v.value[1][1] \in M31
  BY DEF Value, Relocatables, Absolutes, IsRel, Addr, BaseField, QM31, CM31

LEMMA MoveType ==
  ASSUME NEW v \in Value, NEW m \in M31
  PROVE  /\ AddM31(v, m) \in Value /\ SubM31(v, m) \in Value
         /\ v \in Addr => AddM31(v, m) \in Addr /\ SubM31(v, m) \in Addr
         /\ IsRel(v) => AddM31(v, m) = Rel(v.segment, MAdd(v.offset, m))
<1>1. CASE IsRel(v)
  <2>1. Rel(v.segment, MAdd(v.offset, m)) \in Relocatables
    BY <1>1, ValueCases, MType, MakeType
  <2>2. Rel(v.segment, MSub(v.offset, m)) \in Relocatables
    BY <1>1, ValueCases, MType, MakeType
  <2> QED BY <1>1, <2>1, <2>2 DEF AddM31, SubM31, Value, Addr
<1>2. CASE ~IsRel(v)
  <2>1. QAdd(v.value, Felt(m)) \in QM31 /\ QSub(v.value, Felt(m)) \in QM31
    BY <1>2, ValueCases, QType, FeltType
  <2>2. v \in Addr => /\ QAdd(v.value, Felt(m)) \in BaseField
                      /\ QSub(v.value, Felt(m)) \in BaseField
    BY <1>2, ValueCases, BaseFieldMoves
  <2> QED BY <1>2, <2>1, <2>2, MakeType DEF AddM31, SubM31, Value
<1> QED BY <1>1, <1>2

LEMMA ProjectType ==
  ASSUME NEW vs, NEW p \in Project(vs) PROVE p \in Addr /\ p \in vs
  BY DEF Project

LEMMA PlusType ==
  ASSUME NEW x \in Value, NEW y \in Value, NEW z \in Plus(x, y)
  PROVE  /\ z \in Value
         /\ x \in Addr /\ y \in Addr => z \in Addr
         /\ IsRel(x) => IsRel(z) /\ z.segment = x.segment
<1>1. CASE IsRel(x) /\ ~IsRel(y)
  <2>1. PICK p \in Project({y}) : z = AddM31(x, p.value[1][1])
    BY <1>1 DEF Plus
  <2>2. p.value[1][1] \in M31
    BY <1>1, <2>1, ProjectType, ValueCases
  <2>3. z = Rel(x.segment, MAdd(x.offset, p.value[1][1]))
    BY <1>1, <2>1, <2>2, MoveType
  <2>4. IsRel(z) /\ z.segment = x.segment
    BY <2>3 DEF Rel, IsRel
  <2> QED BY <1>1, <2>1, <2>2, <2>4, MoveType
<1>2. CASE ~IsRel(x) /\ IsRel(y)
  <2>1. PICK p \in Project({x}) : z = AddM31(y, p.value[1][1])
    BY <1>2 DEF Plus
  <2>2. p.value[1][1] \in M31
    BY <1>2, <2>1, ProjectType, ValueCases
  <2> QED BY <1>2, <2>1, <2>2, MoveType
<1>3. CASE ~IsRel(x) /\ ~IsRel(y)
  <2>1. z = Abs(QAdd(x.value, y.value))
    BY <1>3 DEF Plus
  <2>2. QAdd(x.value, y.value) \in QM31
    BY <1>3, ValueCases, QType
  <2>3. ASSUME x \in Addr, y \in Addr
        PROVE  QAdd(x.value, y.value) \in BaseField
    <3>1. /\ y.value = Felt(y.value[1][1]) /\ y.value[1][1] \in M31
          /\ x.value \in BaseField
      BY <1>3, <2>3, ValueCases DEF BaseField, Felt, QM31, CM31
    <3> QED BY <3>1, BaseFieldMoves
  <2> QED BY <1>3, <2>1, <2>2, <2>3, MakeType DEF Value
<1>4. ~(IsRel(x) /\ IsRel(y))
  BY DEF Plus
<1> QED BY <1>1, <1>2, <1>3, <1>4

LEMMA MinusType ==
  ASSUME NEW x \in Value, NEW y \in Value PROVE Minus(x, y) \subseteq Value
<1>1. CASE IsRel(x) /\ IsRel(y)
  <2>1. Felt(MSub(x.offset, y.offset)) \in QM31
    BY <1>1, ValueCases, MType, FeltType
  <2> QED BY <1>1, <2>1, MakeType DEF Minus, Value
<1>2. CASE IsRel(x) /\ ~IsRel(y)
  <2>1. \A p \in Project({y}) : p.value[1][1] \in M31
    BY <1>2, ProjectType, ValueCases
  <2> QED BY <1>2, <2>1, MoveType DEF Minus
<1>3. CASE ~IsRel(x) /\ IsRel(y)
  BY <1>3 DEF Minus
<1>4. CASE ~IsRel(x) /\ ~IsRel(y)
  <2>1. QSub(x.value, y.value) \in QM31
    BY <1>4, ValueCases, QType
  <2> QED BY <1>4, <2>1, MakeType DEF Minus, Value
<1> QED BY <1>1, <1>2, <1>3, <1>4

LEMMA ApplyType ==
  ASSUME NEW fn, NEW x \in Value, NEW y \in Value
  PROVE  Apply(fn, x, y) \subseteq Value /\ Deduce(fn, x, y) \subseteq Value
<1>1. Times(x, y) \subseteq Value /\ Over(x, y) \subseteq Value
  BY ValueCases, QType, MakeType DEF Times, Over, Value
<1> QED BY <1>1, PlusType, MinusType DEF Apply, Deduce

-----------------------------------------------------------------------------
(* Memory.                                                                 *)

LEMMA GetType ==
  ASSUME NEW m, NEW a, NEW v \in Get(m, a)
  PROVE  /\ a \in DOMAIN m /\ v = m[a]
         /\ IsMemory(m) => v \in Value
  BY DEF Get, IsMemory

LEMMA PutIs ==
  ASSUME NEW m, NEW a, NEW v
  PROVE  /\ DOMAIN Put(m, a, v) = DOMAIN m \cup {a}
         /\ Put(m, a, v)[a] = v
         /\ \A b \in DOMAIN m : b # a => Put(m, a, v)[b] = m[b]
  BY DEF Put

LEMMA PutType ==
  ASSUME NEW m, IsMemory(m), NEW a \in Addr, NEW v \in Value
  PROVE  IsMemory(Put(m, a, v))
  BY DEF IsMemory, Put

LEMMA InsertIs ==
  ASSUME NEW m, NEW a, NEW v, NEW n \in Insert(m, a, v)
  PROVE  n = Put(m, a, v)
  BY DEF Insert

(* n is m, or m with one more cell.                                        *)
Fills(m, n) ==
  \/ n = m
  \/ \E a \in Addr, v \in Value : a \notin DOMAIN m /\ n = Put(m, a, v)

LEMMA FillsKeeps ==
  ASSUME NEW m, NEW n, Fills(m, n)
  PROVE  /\ \A a \in DOMAIN m : a \in DOMAIN n /\ n[a] = m[a]
         /\ IsMemory(m) => IsMemory(n)
<1>1. CASE n = m
  BY <1>1
<1>2. ASSUME NEW a \in Addr, NEW v \in Value, a \notin DOMAIN m, n = Put(m, a, v)
      PROVE  /\ \A b \in DOMAIN m : b \in DOMAIN n /\ n[b] = m[b]
             /\ IsMemory(m) => IsMemory(n)
  <2>1. ASSUME NEW b \in DOMAIN m PROVE b \in DOMAIN n /\ n[b] = m[b]
    BY <1>2, <2>1 DEF Put
  <2> QED BY <1>2, <2>1, PutType
<1> QED BY <1>1, <1>2 DEF Fills

-----------------------------------------------------------------------------
(* Operands.                                                               *)

IsInstruction(i) ==
  i.args[1] \in M31 /\ i.args[2] \in M31 /\ i.args[3] \in M31

LEMMA DecodeType ==
  ASSUME NEW v \in Value, NEW i \in Decode(v)
  PROVE  IsInstruction(i)
<1>1. ~IsRel(v) /\ i.args = Args(v.value)
  BY DEF Decode
<1>2. v.value \in QM31
  BY <1>1, ValueCases
<1> QED BY <1>1, <1>2 DEF IsInstruction, Args, QM31, CM31

LEMMA AddressType ==
  ASSUME NEW s \in Registers, NEW base, NEW m \in M31
  PROVE  Address(s, base, m) \in Addr
  BY MoveType, MakeType DEF Address, Registers

LEMMA SidesType ==
  ASSUME NEW m, IsMemory(m), NEW s \in Registers, NEW o, NEW a,
         a[1] \in M31, a[2] \in M31
  PROVE  /\ LeftAddress(s, o, a) \in Addr
         /\ RightAddress(s, o, a) \in Addr
         /\ Left(m, s, o, a) \subseteq Value
         /\ Right(m, s, o, a) \subseteq Value
         /\ OuterAddresses(m, s, o, a) \subseteq Addr
<1>1. LeftAddress(s, o, a) \in Addr /\ RightAddress(s, o, a) \in Addr
  BY AddressType DEF LeftAddress, RightAddress
<1>2. Immediate(a[1]) \in Value
  BY MakeType
<1> QED BY <1>1, <1>2, GetType, ProjectType
        DEF Left, Right, OuterAddresses

LEMMA OperandType ==
  ASSUME NEW m, IsMemory(m), NEW s \in Registers, NEW o, NEW a,
         a[1] \in M31, a[2] \in M31
  PROVE  /\ OperandValue(m, s, o, a) \subseteq Value
         /\ Target(m, s, o, a) \subseteq Addr
<1>1. Immediate(a[1]) \in Value
  BY MakeType
<1>2. \A x \in Left(m, s, o, a), y \in Right(m, s, o, a) :
        Apply(o.fn, x, y) \subseteq Value
  BY SidesType, ApplyType
<1>3. OperandValue(m, s, o, a) \subseteq Value
  BY <1>1, <1>2, GetType DEF OperandValue
<1>4. Target(m, s, o, a) \subseteq Addr
  BY ProjectType DEF Target
<1> QED BY <1>3, <1>4

-----------------------------------------------------------------------------
(* Registers after a step.                                                 *)

(* ap stays a pointer into the segment it is in.                           *)
SameStack(s, t) == IsRel(s.ap) => IsRel(t.ap) /\ t.ap.segment = s.ap.segment

LEMMA MoveKeepsSegment ==
  ASSUME NEW v \in Value, NEW m \in M31, IsRel(v)
  PROVE  IsRel(AddM31(v, m)) /\ AddM31(v, m).segment = v.segment
  BY DEF AddM31, IsRel, Rel

LEMMA IncrementApType ==
  ASSUME NEW ap \in Addr, NEW appp
  PROVE  /\ IncrementAp(ap, appp) \in Addr
         /\ IsRel(ap) => /\ IsRel(IncrementAp(ap, appp))
                         /\ IncrementAp(ap, appp).segment = ap.segment
  BY MoveType, MoveKeepsSegment, MakeType, ConstantsType DEF IncrementAp

LEMMA AdvanceType ==
  ASSUME NEW s \in Registers, NEW appp
  PROVE  /\ Advance(s, appp) \in Registers
         /\ SameStack(s, Advance(s, appp))
         /\ Advance(s, appp).fp = s.fp
  BY IncrementApType, MoveType, MakeType, ConstantsType
     DEF Advance, Registers, SameStack

LEMMA GotoType ==
  ASSUME NEW s \in Registers, NEW appp, NEW pc \in Addr
  PROVE  /\ Goto(s, appp, pc) \in Registers
         /\ SameStack(s, Goto(s, appp, pc))
         /\ Goto(s, appp, pc).fp = s.fp
  BY IncrementApType DEF Goto, Registers, SameStack

LEMMA PlusAddr ==
  ASSUME NEW x \in Addr, NEW y \in Addr, NEW z \in Plus(x, y)
  PROVE  z \in Addr /\ (IsRel(x) => IsRel(z) /\ z.segment = x.segment)
  BY PlusType, MakeType

LEMMA DestinationsType ==
  ASSUME NEW m, IsMemory(m), NEW s \in Registers, NEW i, IsInstruction(i)
  PROVE  Destinations(m, s, i) \subseteq Addr
<1>1. Target(m, s, i.op.operand, i.args) \subseteq Addr
  BY OperandType DEF IsInstruction
<1>2. ASSUME NEW d \in Addr PROVE Destination(s, i.op.rel, d) \subseteq Addr
  BY <1>2, PlusAddr DEF Destination, Registers
<1> QED BY <1>1, <1>2 DEF Destinations

LEMMA AddApType ==
  ASSUME NEW m, IsMemory(m), NEW s \in Registers, NEW i, IsInstruction(i),
         NEW t \in AddApStates(m, s, i)
  PROVE  t \in Registers /\ SameStack(s, t) /\ t.fp = s.fp
<1>1. PICK ap \in UNION {Plus(s.ap, d) : d \in Target(m, s, i.op.operand, i.args)} :
        t = [s EXCEPT !.ap = ap, !.pc = AddM31(@, 1)]
  BY DEF AddApStates
<1>2. PICK d \in Target(m, s, i.op.operand, i.args) : ap \in Plus(s.ap, d)
  BY <1>1
<1>3. d \in Addr
  BY OperandType DEF IsInstruction
<1>4. s.ap \in Addr /\ s.pc \in Addr /\ s.pc \in Value
  BY MakeType DEF Registers
<1>5. ap \in Addr /\ (IsRel(s.ap) => IsRel(ap) /\ ap.segment = s.ap.segment)
  BY <1>2, <1>3, <1>4, PlusAddr
<1>6. AddM31(s.pc, 1) \in Addr
  BY <1>4, MoveType, ConstantsType
<1> QED BY <1>1, <1>5, <1>6 DEF Registers, SameStack

LEMMA JumpType ==
  ASSUME NEW m, IsMemory(m), NEW s \in Registers, NEW i, IsInstruction(i),
         NEW t \in JumpStates(m, s, i)
  PROVE  t \in Registers /\ SameStack(s, t) /\ t.fp = s.fp
  BY DestinationsType, GotoType DEF JumpStates

LEMMA JnzType ==
  ASSUME NEW m, IsMemory(m), NEW s \in Registers, NEW i, IsInstruction(i),
         NEW t \in JnzStates(m, s, i)
  PROVE  t \in Registers /\ SameStack(s, t) /\ t.fp = s.fp
<1> DEFINE Offsets == Project(Left(m, s, i.op.operand, i.args))
<1>1. \/ t = Advance(s, i.op.appp)
      \/ \E pc \in UNION {Plus(s.pc, d) : d \in Offsets} : t = Goto(s, i.op.appp, pc)
  BY DEF JnzStates
<1>2. CASE t = Advance(s, i.op.appp)
  BY <1>2, AdvanceType
<1>3. ASSUME NEW d \in Offsets, NEW pc \in Plus(s.pc, d), t = Goto(s, i.op.appp, pc)
      PROVE  t \in Registers /\ SameStack(s, t) /\ t.fp = s.fp
  BY <1>3, ProjectType, PlusAddr, GotoType DEF Registers
<1> QED BY <1>1, <1>2, <1>3

LEMMA CallType ==
  ASSUME NEW m, IsMemory(m), NEW s \in Registers, NEW i, IsInstruction(i),
         NEW t \in CallStates(m, s, i)
  PROVE  /\ t \in Registers /\ SameStack(s, t)
         /\ t.ap = AddM31(s.ap, 2) /\ t.fp = AddM31(s.ap, 2)
<1>1. PICK pc \in Destinations(m, s, i) :
        t = [ap |-> AddM31(s.ap, 2), fp |-> AddM31(s.ap, 2), pc |-> pc]
  BY DEF CallStates
<1>2. pc \in Addr
  BY <1>1, DestinationsType
<1>3. s.ap \in Addr /\ s.ap \in Value
  BY MakeType DEF Registers
<1>4. AddM31(s.ap, 2) \in Addr
  BY <1>3, MoveType, ConstantsType
<1> QED BY <1>1, <1>2, <1>3, <1>4, MoveKeepsSegment, ConstantsType
        DEF Registers, SameStack

LEMMA RetType ==
  ASSUME NEW m, NEW s \in Registers, NEW t \in RetStates(m, s)
  PROVE  /\ t \in Registers /\ SameStack(s, t)
         /\ t.fp \in Get(m, SubM31(s.fp, 2))
         /\ t.pc \in Get(m, SubM31(s.fp, 1))
<1>1. PICK saved \in Project(Get(m, SubM31(s.fp, 2))) \X Project(Get(m, SubM31(s.fp, 1))) :
        t = [s EXCEPT !.fp = saved[1], !.pc = saved[2]]
  BY DEF RetStates
<1>2. /\ saved[1] \in Addr /\ saved[1] \in Get(m, SubM31(s.fp, 2))
      /\ saved[2] \in Addr /\ saved[2] \in Get(m, SubM31(s.fp, 1))
  BY <1>1, ProjectType
<1> QED BY <1>1, <1>2 DEF Registers, SameStack

-----------------------------------------------------------------------------
(* Memory after a step.                                                    *)

LEMMA PushReturnIs ==
  ASSUME NEW m, IsMemory(m), NEW s \in Registers, NEW n \in PushReturn(m, s)
  PROVE  /\ n = Put(Put(m, s.ap, s.fp), AddM31(s.ap, 1), AddM31(s.pc, 1))
         /\ IsMemory(n)
<1>1. n = Put(Put(m, s.ap, s.fp), AddM31(s.ap, 1), AddM31(s.pc, 1))
  BY InsertIs DEF PushReturn
<1>2. /\ s.ap \in Addr /\ s.fp \in Value
      /\ AddM31(s.ap, 1) \in Addr /\ AddM31(s.pc, 1) \in Value
  BY MoveType, MakeType, ConstantsType DEF Registers
<1> QED BY <1>1, <1>2, PutType

LEMMA AssertValueFills ==
  ASSUME NEW m, NEW dest \in Addr, NEW v \in Value, NEW n \in AssertValue(m, dest, v)
  PROVE  Fills(m, n)
  BY InsertIs DEF AssertValue, Fills

LEMMA AssertCellsFills ==
  ASSUME NEW m, IsMemory(m), NEW dest \in Addr, NEW src \in Addr,
         NEW n \in AssertCells(m, dest, src)
  PROVE  Fills(m, n)
<1>1. CASE src \in DOMAIN m
  BY <1>1, AssertValueFills DEF AssertCells, IsMemory
<1>2. CASE src \notin DOMAIN m /\ dest \in DOMAIN m
  BY <1>2, InsertIs DEF AssertCells, Fills, IsMemory
<1>3. CASE src \notin DOMAIN m /\ dest \notin DOMAIN m
  BY <1>3 DEF AssertCells
<1> QED BY <1>1, <1>2, <1>3

LEMMA AssertOperationFills ==
  ASSUME NEW m, IsMemory(m), NEW s \in Registers, NEW dest \in Addr, NEW o, NEW a,
         a[1] \in M31, a[2] \in M31,
         NEW n \in AssertOperation(m, s, dest, o, a)
  PROVE  Fills(m, n)
<1> DEFINE X == Left(m, s, o, a)
           Y == Right(m, s, o, a)
           D == Get(m, dest)
<1>1. X \subseteq Value /\ Y \subseteq Value /\ D \subseteq Value
  BY SidesType, GetType
<1>2. CASE X # {} /\ Y # {}
  <2>1. \E x \in X, y \in Y : \E v \in Apply(o.fn, x, y) : n \in AssertValue(m, dest, v)
    BY <1>2 DEF AssertOperation
  <2> QED BY <1>1, <2>1, ApplyType, AssertValueFills
<1>3. CASE X = {} /\ Y # {}
  <2>1. \E d \in D, y \in Y : \E v \in Deduce(o.fn, d, y) :
           n \in Insert(m, LeftAddress(s, o, a), v)
    BY <1>3 DEF AssertOperation
  <2>2. LeftAddress(s, o, a) \notin DOMAIN m
    BY <1>3 DEF Left, Get
  <2> QED BY <1>1, <2>1, <2>2, ApplyType, InsertIs, SidesType DEF Fills
<1>4. CASE X # {} /\ Y = {}
  <2>1. \E d \in D, x \in X : \E v \in Deduce(o.fn, d, x) :
           n \in Insert(m, RightAddress(s, o, a), v)
    BY <1>4 DEF AssertOperation
  <2>2. RightAddress(s, o, a) \notin DOMAIN m
    BY <1>4 DEF Right, Get
  <2> QED BY <1>1, <2>1, <2>2, ApplyType, InsertIs, SidesType DEF Fills
<1>5. CASE X = {} /\ Y = {}
  BY <1>5 DEF AssertOperation
<1> QED BY <1>2, <1>3, <1>4, <1>5

(* An assertion never changes a known cell.                                *)
LEMMA AssertFills ==
  ASSUME NEW m, IsMemory(m), NEW s \in Registers, NEW i, IsInstruction(i),
         NEW n \in AssertMemories(m, s, i)
  PROVE  Fills(m, n)
<1> DEFINE o == i.op.operand
           a == OperandArgs(i.args)
           dest == Address(s, i.op.dest, i.args[1])
<1>1. a[1] \in M31 /\ a[2] \in M31
  BY DEF OperandArgs, IsInstruction
<1>2. dest \in Addr /\ Address(s, o.x, a[1]) \in Addr
  BY <1>1, AddressType DEF IsInstruction
<1>3. CASE o.fn = "imm"
  <2>1. n \in AssertValue(m, dest, Immediate(a[1]))
    BY <1>3 DEF AssertMemories
  <2>2. Immediate(a[1]) \in Value
    BY <1>1, MakeType
  <2> QED BY <1>2, <2>1, <2>2, AssertValueFills
<1>4. CASE o.fn = "deref"
  <2>1. n \in AssertCells(m, dest, Address(s, o.x, a[1]))
    BY <1>4 DEF AssertMemories
  <2> QED BY <1>2, <2>1, AssertCellsFills
<1>5. CASE o.fn = "double_deref"
  <2>1. \E b \in OuterAddresses(m, s, o, a) : n \in AssertCells(m, dest, b)
    BY <1>5 DEF AssertMemories
  <2> QED BY <1>1, <1>2, <2>1, SidesType, AssertCellsFills
<1>6. CASE o.fn \notin {"imm", "deref", "double_deref"}
  <2>1. n \in AssertOperation(m, s, dest, o, a)
    BY <1>6 DEF AssertMemories
  <2> QED BY <1>1, <1>2, <2>1, AssertOperationFills
<1> QED BY <1>3, <1>4, <1>5, <1>6

-----------------------------------------------------------------------------
(* What is deduced makes the equation true, with the deduced value on      *)
(* either side.                                                            *)
LEMMA DeduceIs ==
  ASSUME NEW fn, NEW d \in Value, NEW y \in Value, NEW x \in Deduce(fn, d, y)
  PROVE  d \in Apply(fn, x, y) /\ d \in Apply(fn, y, x)
<1>1. CASE fn = "add"
  <2>0. x \in Minus(d, y)
    BY <1>1 DEF Deduce
  <2>1. CASE IsRel(d) /\ IsRel(y)
    <3> DEFINE k == MSub(d.offset, y.offset)
    <3>1. /\ d.offset \in M31 /\ y.offset \in M31 /\ d.segment = y.segment
          /\ x = Abs(Felt(k)) /\ d = Rel(d.segment, d.offset)
      BY <2>0, <2>1, ValueCases DEF Minus, Rel, Relocatables
    <3>2. k \in M31 /\ MAdd(y.offset, k) = d.offset
      <4>1. k \in M31 /\ MAdd(k, y.offset) = d.offset
        BY <3>1, MType, MAddSub
      <4> HIDE DEF k
      <4> QED BY <3>1, <4>1, MAddSub
    <3>3. ~IsRel(x) /\ x \in Addr /\ x.value[1][1] = k
      BY <3>1, <3>2, FeltType, MakeType DEF Abs, Felt
    <3>4. AddM31(y, k) = d
      BY <2>1, <3>1, <3>2 DEF AddM31
    <3>5. Project({x}) = {x}
      BY <3>3 DEF Project
    <3> QED BY <1>1, <2>1, <3>3, <3>4, <3>5 DEF Apply, Plus
  <2>2. CASE IsRel(d) /\ ~IsRel(y)
    <3>1. y \in Addr /\ x = SubM31(d, y.value[1][1])
      BY <2>0, <2>2 DEF Minus, Project
    <3> DEFINE k == y.value[1][1]
    <3>2. k \in M31 /\ d.offset \in M31 /\ d = Rel(d.segment, d.offset)
      BY <2>2, <3>1, ValueCases DEF Rel, Relocatables
    <3>3. x = Rel(d.segment, MSub(d.offset, k))
      BY <2>2, <3>1 DEF SubM31
    <3>4. AddM31(x, k) = d
      BY <3>2, <3>3, MAddSub DEF AddM31, Rel, IsRel
    <3>5. Project({y}) = {y} /\ IsRel(x)
      BY <3>1, <3>3 DEF Project, Rel, IsRel
    <3> QED BY <1>1, <2>2, <3>4, <3>5 DEF Apply, Plus
  <2>3. CASE ~IsRel(d) /\ ~IsRel(y)
    <3>1. x = Abs(QSub(d.value, y.value)) /\ d.value \in QM31 /\ y.value \in QM31
      BY <2>0, <2>3, ValueCases DEF Minus
    <3>2. d = Abs(d.value)
      BY <2>3, ValueCases DEF Abs, Absolutes
    <3>3. ~IsRel(x) /\ x.value = QSub(d.value, y.value)
      BY <3>1 DEF Abs, IsRel
    <3>4. QSub(d.value, y.value) \in QM31
      BY <3>1, QType
    <3>5. QAdd(x.value, y.value) = d.value /\ QAdd(y.value, x.value) = d.value
      BY <3>1, <3>3, <3>4, QAddSub
    <3> QED BY <1>1, <2>3, <3>2, <3>3, <3>5 DEF Apply, Plus
  <2>4. CASE ~IsRel(d) /\ IsRel(y)
    BY <2>0, <2>4 DEF Minus
  <2> QED BY <2>1, <2>2, <2>3, <2>4
<1>2. CASE fn # "add"
  <2>0. x \in Over(d, y)
    BY <1>2 DEF Deduce
  <2>1. ~IsRel(d) /\ ~IsRel(y)
    BY <2>0 DEF Over
  <2>2. PICK q \in QDiv(d.value, y.value) : x = Abs(q)
    BY <2>0, <2>1 DEF Over
  <2>3. d.value \in QM31 /\ y.value \in QM31 /\ d = Abs(d.value)
    BY <2>1, ValueCases DEF Abs, Absolutes
  <2>4. QMul(q, y.value) = d.value /\ QMul(y.value, q) = d.value
    BY <2>2, <2>3, QDivIs
  <2>5. ~IsRel(x) /\ x.value = q
    BY <2>2 DEF Abs, IsRel
  <2> QED BY <1>2, <2>1, <2>3, <2>4, <2>5 DEF Apply, Times
<1> QED BY <1>1, <1>2

-----------------------------------------------------------------------------
(* What a memory says, a memory that extends it says too.                  *)

LEMMA FillsExtends ==
  ASSUME NEW m, NEW n, Fills(m, n) PROVE Extends(n, m)
  BY FillsKeeps DEF Extends

LEMMA GetGrows ==
  ASSUME NEW m, NEW n, Extends(n, m), NEW a, NEW v \in Get(m, a)
  PROVE  Get(n, a) = {v} /\ Get(n, a) = Get(m, a)
  BY DEF Get, Extends

LEMMA SidesGrow ==
  ASSUME NEW m, NEW n, Extends(n, m), NEW s, NEW o, NEW a
  PROVE  /\ Left(m, s, o, a) # {} => Left(n, s, o, a) = Left(m, s, o, a)
         /\ Right(m, s, o, a) # {} => Right(n, s, o, a) = Right(m, s, o, a)
         /\ OuterAddresses(m, s, o, a) # {} =>
              OuterAddresses(n, s, o, a) = OuterAddresses(m, s, o, a)
<1>1. Left(m, s, o, a) # {} => Left(n, s, o, a) = Left(m, s, o, a)
  BY GetGrows DEF Left
<1>2. Right(m, s, o, a) # {} => Right(n, s, o, a) = Right(m, s, o, a)
  BY GetGrows DEF Right
<1>3. ASSUME OuterAddresses(m, s, o, a) # {}
      PROVE  OuterAddresses(n, s, o, a) = OuterAddresses(m, s, o, a)
  <2>1. Get(m, Address(s, o.x, a[1])) # {}
    BY <1>3 DEF OuterAddresses, Project
  <2>2. Get(n, Address(s, o.x, a[1])) = Get(m, Address(s, o.x, a[1]))
    BY <2>1, GetGrows
  <2> QED BY <2>2 DEF OuterAddresses
<1> QED BY <1>1, <1>2, <1>3

LEMMA OperandGrows ==
  ASSUME NEW m, NEW n, Extends(n, m), NEW s, NEW o, NEW a
  PROVE  /\ \A v \in OperandValue(m, s, o, a) : v \in OperandValue(n, s, o, a)
         /\ \A v \in Target(m, s, o, a) : v \in Target(n, s, o, a)
<1>1. ASSUME NEW v \in OperandValue(m, s, o, a) PROVE v \in OperandValue(n, s, o, a)
  <2>1. CASE o.fn = "imm"
    BY <2>1 DEF OperandValue
  <2>2. CASE o.fn = "deref"
    BY <2>2, GetGrows DEF OperandValue
  <2>3. CASE o.fn = "double_deref"
    <3>1. PICK b \in OuterAddresses(m, s, o, a) : v \in Get(m, b)
      BY <2>3 DEF OperandValue
    <3>2. b \in OuterAddresses(n, s, o, a) /\ v \in Get(n, b)
      BY <3>1, SidesGrow, GetGrows
    <3> QED BY <2>3, <3>2 DEF OperandValue
  <2>4. CASE o.fn \notin {"imm", "deref", "double_deref"}
    <3>1. PICK x \in Left(m, s, o, a), y \in Right(m, s, o, a) : v \in Apply(o.fn, x, y)
      BY <2>4 DEF OperandValue
    <3>2. x \in Left(n, s, o, a) /\ y \in Right(n, s, o, a)
      BY <3>1, SidesGrow
    <3> QED BY <2>4, <3>1, <3>2 DEF OperandValue
  <2> QED BY <2>1, <2>2, <2>3, <2>4
<1> QED BY <1>1 DEF Target, Project

LEMMA StatesGrow ==
  ASSUME NEW m, NEW n, Extends(n, m), NEW s, NEW i
  PROVE  /\ AddApStates(m, s, i) \subseteq AddApStates(n, s, i)
         /\ JumpStates(m, s, i) \subseteq JumpStates(n, s, i)
         /\ CallStates(m, s, i) \subseteq CallStates(n, s, i)
         /\ JnzStates(m, s, i) \subseteq JnzStates(n, s, i)
         /\ RetStates(m, s) \subseteq RetStates(n, s)
<1> DEFINE o == i.op.operand
           a == i.args
<1>1. Target(m, s, o, a) \subseteq Target(n, s, o, a)
  BY OperandGrows
<1>2. AddApStates(m, s, i) \subseteq AddApStates(n, s, i)
  BY <1>1 DEF AddApStates
<1>3. Destinations(m, s, i) \subseteq Destinations(n, s, i)
  BY <1>1 DEF Destinations
<1>4. /\ JumpStates(m, s, i) \subseteq JumpStates(n, s, i)
      /\ CallStates(m, s, i) \subseteq CallStates(n, s, i)
  BY <1>3 DEF JumpStates, CallStates
<1>5. ASSUME JnzStates(m, s, i) # {} PROVE JnzStates(n, s, i) = JnzStates(m, s, i)
  <2>1. Left(m, s, o, a) # {} /\ Right(m, s, o, a) # {}
    BY <1>5 DEF JnzStates, Project
  <2>2. Left(n, s, o, a) = Left(m, s, o, a) /\ Right(n, s, o, a) = Right(m, s, o, a)
    BY <2>1, SidesGrow
  <2> QED BY <2>2 DEF JnzStates
<1>6. RetStates(m, s) \subseteq RetStates(n, s)
  <2>1. ASSUME NEW b PROVE Project(Get(m, b)) \subseteq Project(Get(n, b))
    BY GetGrows DEF Project
  <2> QED BY <2>1 DEF RetStates
<1> QED BY <1>2, <1>4, <1>5, <1>6

LEMMA EquationsGrow ==
  ASSUME NEW m, NEW n, Extends(n, m), NEW s, NEW i
  PROVE  /\ Asserted(m, s, i) => Asserted(n, s, i)
         /\ Pushed(m, s) => Pushed(n, s)
<1>1. ASSUME Asserted(m, s, i) PROVE Asserted(n, s, i)
  <2> DEFINE o == i.op.operand
             a == OperandArgs(i.args)
             dest == Address(s, i.op.dest, i.args[1])
  <2>1. PICK v \in Get(m, dest) : v \in OperandValue(m, s, o, a)
    BY <1>1 DEF Asserted
  <2> HIDE DEF o, a, dest
  <2>2. v \in Get(n, dest) /\ v \in OperandValue(n, s, o, a)
    BY <2>1, GetGrows, OperandGrows
  <2> QED BY <2>2 DEF Asserted, o, a, dest
<1>2. ASSUME NEW b, NEW v, Get(m, b) = {v} PROVE Get(n, b) = {v}
  <2>1. v \in Get(m, b)
    BY <1>2
  <2> QED BY <2>1, GetGrows
<1>3. Pushed(m, s) => Pushed(n, s)
  BY <1>2 DEF Pushed
<1> QED BY <1>1, <1>3

LEMMA LegalGrows ==
  ASSUME NEW m, NEW n, Extends(n, m), NEW s, NEW t, Legal(m, s, t)
  PROVE  Legal(n, s, t)
<1>1. PICK w \in Get(m, s.pc) : \E i \in Decode(w) : Obeys(m, s, t, i)
  BY DEF Legal
<1>2. PICK i \in Decode(w) : Obeys(m, s, t, i)
  BY <1>1
<1>3. w \in Get(n, s.pc)
  BY <1>1, GetGrows
<1>4. Obeys(n, s, t, i)
  BY <1>2, EquationsGrow, StatesGrow DEF Obeys
<1> QED BY <1>2, <1>3, <1>4 DEF Legal

-----------------------------------------------------------------------------
(* An assertion leaves a memory in which its equation holds.               *)

LEMMA PutGet ==
  ASSUME NEW m, NEW a, NEW v
  PROVE  /\ Get(Put(m, a, v), a) = {v}
         /\ \A b : b # a => Get(Put(m, a, v), b) = Get(m, b)
  BY DEF Get, Put

LEMMA AssertValueHolds ==
  ASSUME NEW m, NEW dest, NEW v, NEW n \in AssertValue(m, dest, v)
  PROVE  Get(n, dest) = {v}
<1>1. CASE dest \in DOMAIN m
  BY <1>1 DEF AssertValue, Get
<1>2. CASE dest \notin DOMAIN m
  BY <1>2, InsertIs, PutGet DEF AssertValue
<1> QED BY <1>1, <1>2

LEMMA AssertCellsHolds ==
  ASSUME NEW m, NEW dest, NEW src, NEW n \in AssertCells(m, dest, src)
  PROVE  \E v \in Get(n, dest) : v \in Get(n, src)
<1>1. CASE src \in DOMAIN m
  <2>1. Get(n, dest) = {m[src]}
    BY <1>1, AssertValueHolds DEF AssertCells
  <2>2. CASE dest \in DOMAIN m
    BY <1>1, <2>1, <2>2 DEF AssertCells, AssertValue, Get
  <2>3. CASE dest \notin DOMAIN m
    <3>1. n = Put(m, dest, m[src])
      BY <1>1, <2>3, InsertIs DEF AssertCells, AssertValue
    <3>2. Get(n, src) = {m[src]}
      BY <1>1, <2>3, <3>1, PutGet DEF Get
    <3> QED BY <2>1, <3>2
  <2> QED BY <2>2, <2>3
<1>2. CASE src \notin DOMAIN m /\ dest \in DOMAIN m
  <2>1. n = Put(m, src, m[dest])
    BY <1>2, InsertIs DEF AssertCells
  <2>2. Get(n, src) = {m[dest]} /\ Get(n, dest) = {m[dest]}
    BY <1>2, <2>1, PutGet DEF Get
  <2> QED BY <2>2
<1>3. CASE src \notin DOMAIN m /\ dest \notin DOMAIN m
  BY <1>3 DEF AssertCells
<1> QED BY <1>1, <1>2, <1>3

LEMMA AssertOperationHolds ==
  ASSUME NEW m, IsMemory(m), NEW s \in Registers, NEW dest \in Addr, NEW o, NEW a,
         a[1] \in M31, a[2] \in M31,
         NEW n \in AssertOperation(m, s, dest, o, a)
  PROVE  \E x \in Left(n, s, o, a), y \in Right(n, s, o, a) :
           \E v \in Get(n, dest) : v \in Apply(o.fn, x, y)
<1> DEFINE X == Left(m, s, o, a)
           Y == Right(m, s, o, a)
           D == Get(m, dest)
<1>1. X \subseteq Value /\ Y \subseteq Value /\ D \subseteq Value
  BY SidesType, GetType
<1>2. Extends(n, m)
  BY AssertOperationFills, FillsExtends
<1>3. CASE X # {} /\ Y # {}
  <2>1. PICK x \in X, y \in Y : \E v \in Apply(o.fn, x, y) : n \in AssertValue(m, dest, v)
    BY <1>3 DEF AssertOperation
  <2>2. x \in Left(n, s, o, a) /\ y \in Right(n, s, o, a)
    BY <1>2, <1>3, SidesGrow
  <2>3. \E v \in Get(n, dest) : v \in Apply(o.fn, x, y)
    BY <2>1, AssertValueHolds
  <2> QED BY <2>2, <2>3
<1>4. CASE X = {} /\ Y # {}
  <2>1. PICK d \in D, y \in Y : \E v \in Deduce(o.fn, d, y) :
          n \in Insert(m, LeftAddress(s, o, a), v)
    BY <1>4 DEF AssertOperation
  <2>2. PICK x \in Deduce(o.fn, d, y) : n \in Insert(m, LeftAddress(s, o, a), x)
    BY <2>1
  <2>3. Get(n, LeftAddress(s, o, a)) = {x}
    BY <2>2, InsertIs, PutGet
  <2>4. x \in Left(n, s, o, a) /\ y \in Right(n, s, o, a) /\ d \in Get(n, dest)
    <3>1. o.x # "imm"
      BY <1>4 DEF Left
    <3>2. x \in Left(n, s, o, a)
      BY <2>3, <3>1 DEF Left
    <3> QED BY <1>2, <1>4, <2>1, <3>2, SidesGrow, GetGrows
  <2>5. d \in Apply(o.fn, x, y)
    BY <1>1, <2>1, <2>2, DeduceIs
  <2> QED BY <2>4, <2>5
<1>5. CASE X # {} /\ Y = {}
  <2>1. PICK d \in D, x \in X : \E v \in Deduce(o.fn, d, x) :
          n \in Insert(m, RightAddress(s, o, a), v)
    BY <1>5 DEF AssertOperation
  <2>2. PICK y \in Deduce(o.fn, d, x) : n \in Insert(m, RightAddress(s, o, a), y)
    BY <2>1
  <2>3. Get(n, RightAddress(s, o, a)) = {y}
    BY <2>2, InsertIs, PutGet
  <2>4. x \in Left(n, s, o, a) /\ y \in Right(n, s, o, a) /\ d \in Get(n, dest)
    BY <1>2, <1>5, <2>1, <2>3, SidesGrow, GetGrows DEF Right
  <2>5. d \in Apply(o.fn, x, y)
    BY <1>1, <2>1, <2>2, DeduceIs
  <2> QED BY <2>4, <2>5
<1>6. CASE X = {} /\ Y = {}
  BY <1>6 DEF AssertOperation
<1> QED BY <1>3, <1>4, <1>5, <1>6

LEMMA AssertHolds ==
  ASSUME NEW m, IsMemory(m), NEW s \in Registers, NEW i, IsInstruction(i),
         NEW n \in AssertMemories(m, s, i)
  PROVE  Asserted(n, s, i)
<1> DEFINE o == i.op.operand
           a == OperandArgs(i.args)
           dest == Address(s, i.op.dest, i.args[1])
<1>0. SUFFICES \E v \in Get(n, dest) : v \in OperandValue(n, s, o, a)
  BY DEF Asserted
<1>1. a[1] \in M31 /\ a[2] \in M31 /\ dest \in Addr
  BY AddressType DEF OperandArgs, IsInstruction
<1>2. Extends(n, m)
  BY AssertFills, FillsExtends
<1>3. CASE o.fn = "imm"
  BY <1>3, AssertValueHolds DEF AssertMemories, OperandValue
<1>4. CASE o.fn = "deref"
  <2>1. n \in AssertCells(m, dest, Address(s, o.x, a[1]))
    BY <1>4 DEF AssertMemories
  <2> QED BY <1>4, <2>1, AssertCellsHolds DEF OperandValue
<1>5. CASE o.fn = "double_deref"
  <2>1. PICK b \in OuterAddresses(m, s, o, a) : n \in AssertCells(m, dest, b)
    BY <1>5 DEF AssertMemories
  <2>2. b \in OuterAddresses(n, s, o, a)
    BY <1>2, SidesGrow
  <2>3. PICK v \in Get(n, dest) : v \in Get(n, b)
    BY <2>1, AssertCellsHolds
  <2>4. v \in OperandValue(n, s, o, a)
    BY <1>5, <2>2, <2>3 DEF OperandValue
  <2> QED BY <2>3, <2>4
<1>6. CASE o.fn \notin {"imm", "deref", "double_deref"}
  <2>1. n \in AssertOperation(m, s, dest, o, a)
    BY <1>6 DEF AssertMemories
  <2>2. PICK x \in Left(n, s, o, a), y \in Right(n, s, o, a) :
          \E v \in Get(n, dest) : v \in Apply(o.fn, x, y)
    BY <1>1, <2>1, AssertOperationHolds
  <2> QED BY <1>6, <2>2 DEF OperandValue
<1> QED BY <1>3, <1>4, <1>5, <1>6

-----------------------------------------------------------------------------
(* Relocation.                                                             *)

(* Memory::relocate loses nothing when the table separates the cells: each *)
(* cell is found where its pointer now leads, its own pointer relocated,   *)
(* and no pointer is left anywhere.                                        *)
THEOREM RelocationIsFaithful ==
  ASSUME NEW m, IsMemory(m), NEW table, Separates(table, m), NEW n \in Relocated(m, table)
  PROVE  /\ \A a \in DOMAIN m : Get(n, Relocate(a, table)) = {Relocate(m[a], table)}
         /\ \A b \in DOMAIN n : ~IsRel(b) /\ ~IsRel(n[b])
<1> DEFINE landed == {Relocate(a, table) : a \in Pointers(m)}
<1>1. n = [b \in (DOMAIN m \ Pointers(m)) \cup landed |->
             IF b \in landed THEN Relocate(m[Last(Landing(m, table, b))], table) ELSE m[b]]
  BY DEF Relocated
<1> HIDE DEF landed
<1>2. DOMAIN n = (DOMAIN m \ Pointers(m)) \cup landed
  BY <1>1
<1>3. \A b \in DOMAIN n :
        n[b] = IF b \in landed THEN Relocate(m[Last(Landing(m, table, b))], table) ELSE m[b]
  BY <1>1
<1>4. ASSUME NEW a \in Pointers(m)
      PROVE  Last(Landing(m, table, Relocate(a, table))) = a
  <2>1. Landing(m, table, Relocate(a, table)) = {a}
    BY DEF Separates, Landing, Pointers
  <2>2. a.segment \in Nat /\ a.offset \in Nat
    BY MakeType, ValueCases DEF Pointers, IsMemory, M31
  <2> QED BY <2>1, <2>2 DEF Last, Later
<1>5. ASSUME NEW a \in DOMAIN m, a \notin Pointers(m)
      PROVE  a \notin landed /\ Relocate(a, table) = a /\ Relocate(m[a], table) = m[a]
  BY <1>5 DEF Separates, Pointers, Relocate, landed
<1>6. ASSUME NEW a \in DOMAIN m
      PROVE  Get(n, Relocate(a, table)) = {Relocate(m[a], table)}
  <2>1. CASE a \in Pointers(m)
    <3>1. Relocate(a, table) \in landed
      BY <2>1 DEF landed
    <3>2. n[Relocate(a, table)] = Relocate(m[a], table)
      BY <1>2, <1>3, <1>4, <2>1, <3>1
    <3> QED BY <1>2, <3>1, <3>2 DEF Get
  <2>2. CASE a \notin Pointers(m)
    BY <1>2, <1>3, <1>5, <2>2 DEF Get
  <2> QED BY <2>1, <2>2
<1>7. \A v : ~IsRel(Relocate(v, table))
  BY DEF Relocate, IsRel, Abs
<1>8. ASSUME NEW b \in DOMAIN n PROVE ~IsRel(b) /\ ~IsRel(n[b])
  <2>1. CASE b \in landed
    BY <1>3, <1>7, <2>1 DEF landed
  <2>2. CASE b \notin landed
    BY <1>2, <1>3, <2>2 DEF Separates, Pointers
  <2> QED BY <2>1, <2>2
<1> QED BY <1>6, <1>8

LEMMA RelocateType ==
  ASSUME NEW table, IsTable(table), NEW v \in Value, Covered(v, table)
  PROVE  /\ Relocate(v, table) \in Value /\ ~IsRel(Relocate(v, table))
         /\ v \in Addr => Relocate(v, table) \in Addr
         /\ ~IsRel(v) => Relocate(v, table) = v
         /\ IsRel(v) => /\ table[v.segment] \in M31
                        /\ Relocate(v, table) = Abs(Felt(MAdd(table[v.segment], v.offset)))
                        /\ Relocate(v, table).value = Felt(MAdd(table[v.segment], v.offset))
<1>1. CASE IsRel(v)
  <2>1. table[v.segment] \in M31 /\ v.offset \in M31
    BY <1>1, ValueCases DEF Covered, IsTable
  <2>2. /\ Felt(MAdd(table[v.segment], v.offset)) \in QM31
        /\ Felt(MAdd(table[v.segment], v.offset)) \in BaseField
    BY <2>1, MType, FeltType
  <2> QED BY <1>1, <2>1, <2>2, MakeType DEF Relocate, Abs
<1>2. CASE ~IsRel(v)
  BY <1>2 DEF Relocate
<1> QED BY <1>1, <1>2

LEMMA FeltAddSub ==
  ASSUME NEW x \in M31, NEW y \in M31
  PROVE  /\ QAdd(Felt(x), Felt(y)) = Felt(MAdd(x, y))
         /\ QSub(Felt(x), Felt(y)) = Felt(MSub(x, y))
<1>1. MAdd(0, 0) = 0 /\ MSub(0, 0) = 0
  BY PAssumption, SMT DEF MAdd, MSub, PartialReduce
<1> QED BY <1>1 DEF QAdd, QSub, CAdd, CSub, Felt, CZero

LEMMA MAddAssociates ==
  ASSUME NEW x \in M31, NEW y \in M31, NEW z \in M31
  PROVE  /\ MAdd(x, MAdd(y, z)) = MAdd(MAdd(x, y), z)
         /\ MAdd(x, MSub(y, z)) = MSub(MAdd(x, y), z)
  BY PAssumption, SMT DEF M31, MAdd, MSub, PartialReduce

(* A pointer that is moved and then relocated is where it is when it is    *)
(* relocated and then moved.                                               *)
LEMMA RelocateMoves ==
  ASSUME NEW table, IsTable(table), NEW v \in Value, NEW k \in M31
  PROVE  /\ Covered(AddM31(v, k), table) <=> Covered(v, table)
         /\ Covered(SubM31(v, k), table) <=> Covered(v, table)
         /\ Covered(v, table) =>
              /\ Relocate(AddM31(v, k), table) = AddM31(Relocate(v, table), k)
              /\ Relocate(SubM31(v, k), table) = SubM31(Relocate(v, table), k)
<1>1. CASE IsRel(v)
  <2>1. /\ AddM31(v, k) = Rel(v.segment, MAdd(v.offset, k))
        /\ SubM31(v, k) = Rel(v.segment, MSub(v.offset, k))
    BY <1>1 DEF AddM31, SubM31
  <2>2. \A g, x : /\ IsRel(Rel(g, x)) /\ Rel(g, x).segment = g /\ Rel(g, x).offset = x
    BY DEF Rel, IsRel
  <2>3. ASSUME Covered(v, table)
        PROVE  /\ Relocate(AddM31(v, k), table) = AddM31(Relocate(v, table), k)
               /\ Relocate(SubM31(v, k), table) = SubM31(Relocate(v, table), k)
    <3> DEFINE b == table[v.segment]
               x == v.offset
    <3>1. /\ b \in M31 /\ x \in M31
          /\ ~IsRel(Relocate(v, table))
          /\ Relocate(v, table).value = Felt(MAdd(b, x))
      BY <1>1, <2>3, RelocateType, ValueCases
    <3>2. /\ Relocate(AddM31(v, k), table) = Abs(Felt(MAdd(b, MAdd(x, k))))
          /\ Relocate(SubM31(v, k), table) = Abs(Felt(MAdd(b, MSub(x, k))))
      BY <2>1, <2>2 DEF Relocate
    <3>3. /\ AddM31(Relocate(v, table), k) = Abs(QAdd(Felt(MAdd(b, x)), Felt(k)))
          /\ SubM31(Relocate(v, table), k) = Abs(QSub(Felt(MAdd(b, x)), Felt(k)))
      BY <3>1 DEF AddM31, SubM31
    <3> HIDE DEF b, x
    <3> QED BY <3>1, <3>2, <3>3, MAddAssociates, FeltAddSub, MType
  <2> QED BY <1>1, <2>1, <2>2, <2>3 DEF Covered
<1>2. CASE ~IsRel(v)
  <2>1. ~IsRel(AddM31(v, k)) /\ ~IsRel(SubM31(v, k))
    BY <1>2 DEF AddM31, SubM31, Abs, IsRel
  <2> QED BY <1>2, <2>1 DEF Covered, Relocate
<1> QED BY <1>1, <1>2

(* Sums and products over pointers hold of the numbers they become.        *)
LEMMA RelocateApply ==
  ASSUME NEW table, IsTable(table), NEW fn,
         NEW x \in Value, NEW y \in Value, Covered(x, table), Covered(y, table),
         NEW z \in Apply(fn, x, y)
  PROVE  /\ Covered(z, table)
         /\ Relocate(z, table) \in Apply(fn, Relocate(x, table), Relocate(y, table))
<1> DEFINE rx == Relocate(x, table)
           ry == Relocate(y, table)
<1>1. CASE IsRel(x) \/ IsRel(y)
  <2>1. fn = "add" /\ z \in Plus(x, y)
    BY <1>1 DEF Apply, Times
  <2>2. ASSUME NEW p \in Value, NEW q \in Value, IsRel(p), ~IsRel(q), Covered(p, table),
               NEW e \in Project({q}), z = AddM31(p, e.value[1][1])
        PROVE  /\ Covered(z, table)
               /\ Relocate(z, table) = Abs(QAdd(Relocate(p, table).value, q.value))
    <3> DEFINE k == q.value[1][1]
    <3>1. e = q /\ q \in Addr /\ k \in M31 /\ q.value \in BaseField
      BY <2>2, ValueCases DEF Project
    <3>2. q.value = Felt(k)
      BY <3>1 DEF BaseField, Felt, QM31, CM31
    <3>3. Covered(z, table) /\ Relocate(z, table) = AddM31(Relocate(p, table), k)
      BY <2>2, <3>1, RelocateMoves
    <3>4. ~IsRel(Relocate(p, table))
      BY <2>2, RelocateType
    <3> QED BY <3>2, <3>3, <3>4 DEF AddM31
  <2>3. CASE IsRel(x)
    <3>1. ~IsRel(y) /\ \E e \in Project({y}) : z = AddM31(x, e.value[1][1])
      BY <2>1, <2>3 DEF Plus
    <3>2. /\ Covered(z, table) /\ Relocate(z, table) = Abs(QAdd(rx.value, y.value))
      BY <2>2, <2>3, <3>1
    <3>3. ry = y /\ ~IsRel(rx)
      BY <2>3, <3>1, RelocateType
    <3> QED BY <2>1, <3>1, <3>2, <3>3 DEF Apply, Plus
  <2>4. CASE IsRel(y)
    <3>1. ~IsRel(x) /\ \E e \in Project({x}) : z = AddM31(y, e.value[1][1])
      BY <2>1, <2>4 DEF Plus
    <3>2. /\ Covered(z, table) /\ Relocate(z, table) = Abs(QAdd(ry.value, x.value))
      BY <2>2, <2>4, <3>1
    <3>3. rx = x /\ ~IsRel(ry) /\ ry \in Value
      BY <2>4, <3>1, RelocateType
    <3>4. QAdd(ry.value, x.value) = QAdd(x.value, ry.value)
      BY <3>1, <3>3, ValueCases, QAddSub
    <3> QED BY <2>1, <3>1, <3>2, <3>3, <3>4 DEF Apply, Plus
  <2> QED BY <1>1, <2>3, <2>4
<1>2. CASE ~IsRel(x) /\ ~IsRel(y)
  <2>1. ~IsRel(z)
    BY <1>2 DEF Apply, Plus, Times, Abs, IsRel
  <2> QED BY <1>2, <2>1 DEF Covered, Relocate
<1> QED BY <1>1, <1>2

-----------------------------------------------------------------------------
(* What a memory says, the relocated one says of what it became.           *)

Images(m, n, table) ==
  /\ IsMemory(m) /\ IsTable(table)
  /\ \A a \in DOMAIN m : /\ Covered(a, table) /\ Covered(m[a], table)
                         /\ Get(n, Relocate(a, table)) = {Relocate(m[a], table)}

LEMMA RelocatedImages ==
  ASSUME NEW m, IsMemory(m), NEW table, IsTable(table), Separates(table, m),
         NEW n \in Relocated(m, table)
  PROVE  Images(m, n, table)
<1>1. ASSUME NEW a \in DOMAIN m PROVE Covered(a, table) /\ Covered(m[a], table)
  <2>1. CASE a \in Pointers(m)
    BY <2>1 DEF Relocated
  <2>2. CASE a \notin Pointers(m)
    BY <2>2 DEF Separates, Pointers, Covered
  <2> QED BY <2>1, <2>2
<1> QED BY <1>1, RelocationIsFaithful DEF Images

LEMMA GetMoves ==
  ASSUME NEW m, NEW n, NEW table, Images(m, n, table), NEW a, NEW v \in Get(m, a)
  PROVE  /\ Covered(a, table) /\ Covered(v, table) /\ v \in Value
         /\ Relocate(v, table) \in Get(n, Relocate(a, table))
         /\ \A w \in Get(n, Relocate(a, table)) : w = Relocate(v, table)
  BY GetType DEF Images

(* A register whose move gives a known cell has a place.                   *)
LEMMA MovedGetMoves ==
  ASSUME NEW m, NEW n, NEW table, Images(m, n, table),
         NEW b \in Addr, NEW k \in M31
  PROVE  /\ \A v \in Get(m, AddM31(b, k)) :
              /\ Covered(b, table) /\ Covered(v, table) /\ v \in Value
              /\ Relocate(v, table) \in Get(n, AddM31(Relocate(b, table), k))
              /\ \A w \in Get(n, AddM31(Relocate(b, table), k)) : w = Relocate(v, table)
         /\ \A v \in Get(m, SubM31(b, k)) :
              /\ Covered(v, table) /\ v \in Value
              /\ Relocate(v, table) \in Get(n, SubM31(Relocate(b, table), k))
<1>1. b \in Value /\ IsTable(table)
  BY MakeType DEF Images
<1>2. ASSUME NEW v \in Get(m, AddM31(b, k))
      PROVE  /\ Covered(b, table) /\ Covered(v, table) /\ v \in Value
             /\ Relocate(v, table) \in Get(n, AddM31(Relocate(b, table), k))
             /\ \A w \in Get(n, AddM31(Relocate(b, table), k)) : w = Relocate(v, table)
  <2>1. Covered(b, table)
    BY <1>1, <1>2, GetMoves, RelocateMoves
  <2>2. Relocate(AddM31(b, k), table) = AddM31(Relocate(b, table), k)
    BY <1>1, <2>1, RelocateMoves
  <2> QED BY <1>2, <2>1, <2>2, GetMoves
<1>3. ASSUME NEW v \in Get(m, SubM31(b, k))
      PROVE  /\ Covered(v, table) /\ v \in Value
             /\ Relocate(v, table) \in Get(n, SubM31(Relocate(b, table), k))
  <2>1. Covered(b, table)
    BY <1>1, <1>3, GetMoves, RelocateMoves
  <2>2. Relocate(SubM31(b, k), table) = SubM31(Relocate(b, table), k)
    BY <1>1, <2>1, RelocateMoves
  <2> QED BY <1>3, <2>1, <2>2, GetMoves
<1> QED BY <1>2, <1>3

LEMMA CellMoves ==
  ASSUME NEW m, NEW n, NEW table, Images(m, n, table),
         NEW s \in Registers, NEW base, NEW k \in M31,
         NEW v \in Get(m, Address(s, base, k))
  PROVE  /\ Covered(v, table) /\ v \in Value
         /\ Relocate(v, table) \in Get(n, Address(RelocatedRegisters(s, table), base, k))
         /\ \A w \in Get(n, Address(RelocatedRegisters(s, table), base, k)) :
              w = Relocate(v, table)
<1> DEFINE r == IF base = "ap" THEN s.ap ELSE s.fp
<1>1. /\ Address(s, base, k) = AddM31(r, k) /\ r \in Addr
      /\ Address(RelocatedRegisters(s, table), base, k) = AddM31(Relocate(r, table), k)
  BY DEF Address, RelocatedRegisters, Registers
<1> HIDE DEF r
<1> QED BY <1>1, MovedGetMoves

LEMMA SidesMove ==
  ASSUME NEW m, NEW n, NEW table, Images(m, n, table),
         NEW s \in Registers, NEW o, NEW a, a[1] \in M31, a[2] \in M31
  PROVE  LET u == RelocatedRegisters(s, table)
         IN /\ \A v \in Left(m, s, o, a) :
                 /\ Covered(v, table) /\ v \in Value
                 /\ Relocate(v, table) \in Left(n, u, o, a)
                 /\ \A w \in Left(n, u, o, a) : w = Relocate(v, table)
            /\ \A v \in Right(m, s, o, a) :
                 /\ Covered(v, table) /\ v \in Value
                 /\ Relocate(v, table) \in Right(n, u, o, a)
                 /\ \A w \in Right(n, u, o, a) : w = Relocate(v, table)
            /\ \A b \in OuterAddresses(m, s, o, a) :
                 Covered(b, table) => Relocate(b, table) \in OuterAddresses(n, u, o, a)
<1> DEFINE u == RelocatedRegisters(s, table)
<1>1. ASSUME NEW v \in Left(m, s, o, a)
      PROVE  /\ Covered(v, table) /\ v \in Value
             /\ Relocate(v, table) \in Left(n, u, o, a)
             /\ \A w \in Left(n, u, o, a) : w = Relocate(v, table)
  <2>1. CASE o.x = "imm"
    <3>1. v = Immediate(a[1]) /\ v \in Value /\ ~IsRel(v)
      BY <2>1, MakeType, FeltType DEF Left, Immediate
    <3> QED BY <2>1, <3>1 DEF Left, Covered, Relocate
  <2>2. CASE o.x # "imm"
    <3> HIDE DEF u
    <3> QED BY <1>1, <2>2, CellMoves DEF Left, LeftAddress, u
  <2> QED BY <2>1, <2>2
<1>2. ASSUME NEW v \in Right(m, s, o, a)
      PROVE  /\ Covered(v, table) /\ v \in Value
             /\ Relocate(v, table) \in Right(n, u, o, a)
             /\ \A w \in Right(n, u, o, a) : w = Relocate(v, table)
  BY <1>2, CellMoves DEF Right, RightAddress
<1>3. ASSUME NEW b \in OuterAddresses(m, s, o, a), Covered(b, table)
      PROVE  Relocate(b, table) \in OuterAddresses(n, u, o, a)
  <2>1. PICK v \in Get(m, Address(s, o.x, a[1])) : b = AddM31(v, a[2])
    BY <1>3 DEF OuterAddresses, Project
  <2>2. /\ Covered(v, table) /\ v \in Value
        /\ Relocate(v, table) \in Get(n, Address(u, o.x, a[1]))
    BY CellMoves
  <2>3. Relocate(b, table) = AddM31(Relocate(v, table), a[2])
    BY <2>1, <2>2, RelocateMoves DEF Images
  <2>4. b \in Addr /\ b \in Value
    BY <1>3, ProjectType, MakeType DEF OuterAddresses
  <2>5. Relocate(b, table) \in Addr
    BY <1>3, <2>4, RelocateType DEF Images
  <2> QED BY <2>2, <2>3, <2>5 DEF OuterAddresses, Project
<1> QED BY <1>1, <1>2, <1>3

LEMMA OperandMoves ==
  ASSUME NEW m, NEW n, NEW table, Images(m, n, table),
         NEW s \in Registers, NEW o, NEW a, a[1] \in M31, a[2] \in M31
  PROVE  LET u == RelocatedRegisters(s, table)
         IN /\ \A v \in OperandValue(m, s, o, a) :
                 /\ Covered(v, table) /\ v \in Value
                 /\ Relocate(v, table) \in OperandValue(n, u, o, a)
            /\ \A v \in Target(m, s, o, a) :
                 /\ Covered(v, table) /\ v \in Addr
                 /\ Relocate(v, table) \in Target(n, u, o, a)
<1> DEFINE u == RelocatedRegisters(s, table)
<1>1. ASSUME NEW v \in OperandValue(m, s, o, a)
      PROVE  /\ Covered(v, table) /\ v \in Value
             /\ Relocate(v, table) \in OperandValue(n, u, o, a)
  <2>1. CASE o.fn = "imm"
    <3>1. v = Immediate(a[1]) /\ v \in Value /\ ~IsRel(v)
      BY <2>1, MakeType, FeltType DEF OperandValue, Immediate
    <3> QED BY <2>1, <3>1 DEF OperandValue, Covered, Relocate
  <2>2. CASE o.fn = "deref"
    <3>1. v \in Get(m, Address(s, o.x, a[1]))
      BY <2>2 DEF OperandValue
    <3>2. /\ Covered(v, table) /\ v \in Value
          /\ Relocate(v, table) \in Get(n, Address(u, o.x, a[1]))
      BY <3>1, CellMoves
    <3> QED BY <2>2, <3>2 DEF OperandValue
  <2>3. CASE o.fn = "double_deref"
    <3>1. PICK b \in OuterAddresses(m, s, o, a) : v \in Get(m, b)
      BY <2>3 DEF OperandValue
    <3>2. /\ Covered(b, table) /\ Covered(v, table) /\ v \in Value
          /\ Relocate(v, table) \in Get(n, Relocate(b, table))
      BY <3>1, GetMoves
    <3>3. Relocate(b, table) \in OuterAddresses(n, u, o, a)
      BY <3>1, <3>2, SidesMove
    <3> QED BY <2>3, <3>2, <3>3 DEF OperandValue
  <2>4. CASE o.fn \notin {"imm", "deref", "double_deref"}
    <3>1. PICK x \in Left(m, s, o, a), y \in Right(m, s, o, a) : v \in Apply(o.fn, x, y)
      BY <2>4 DEF OperandValue
    <3>2. /\ Covered(x, table) /\ x \in Value /\ Relocate(x, table) \in Left(n, u, o, a)
          /\ Covered(y, table) /\ y \in Value /\ Relocate(y, table) \in Right(n, u, o, a)
      BY SidesMove
    <3>3. /\ Covered(v, table)
          /\ Relocate(v, table) \in Apply(o.fn, Relocate(x, table), Relocate(y, table))
      BY <3>1, <3>2, RelocateApply DEF Images
    <3>4. v \in Value
      BY <3>1, <3>2, ApplyType
    <3> QED BY <2>4, <3>2, <3>3, <3>4 DEF OperandValue
  <2> QED BY <2>1, <2>2, <2>3, <2>4
<1>2. ASSUME NEW v \in Target(m, s, o, a)
      PROVE  /\ Covered(v, table) /\ v \in Addr
             /\ Relocate(v, table) \in Target(n, u, o, a)
  <2>1. v \in Addr /\ v \in OperandValue(m, s, o, a)
    BY <1>2 DEF Target, Project
  <2>2. /\ Covered(v, table) /\ v \in Value
        /\ Relocate(v, table) \in OperandValue(n, u, o, a)
    BY <1>1, <2>1
  <2>3. Relocate(v, table) \in Addr
    BY <2>1, <2>2, RelocateType DEF Images
  <2> QED BY <2>1, <2>2, <2>3 DEF Target, Project
<1> QED BY <1>1, <1>2

(* The registers a step ends with move along with those it starts from.    *)
LEMMA RegistersMove ==
  ASSUME NEW table, IsTable(table), NEW s \in Registers, Covered(s.ap, table), NEW appp
  PROVE  LET u == RelocatedRegisters(s, table)
         IN /\ Covered(s.pc, table) =>
                 RelocatedRegisters(Advance(s, appp), table) = Advance(u, appp)
            /\ \A pc : RelocatedRegisters(Goto(s, appp, pc), table)
                        = Goto(u, appp, Relocate(pc, table))
<1> DEFINE u == RelocatedRegisters(s, table)
<1>1. s.ap \in Value /\ s.pc \in Value
  BY MakeType DEF Registers
<1>2. Relocate(IncrementAp(s.ap, appp), table) = IncrementAp(u.ap, appp)
  BY <1>1, RelocateMoves, ConstantsType DEF IncrementAp, RelocatedRegisters
<1>3. /\ s = [ap |-> s.ap, fp |-> s.fp, pc |-> s.pc]
      /\ u.ap = Relocate(s.ap, table) /\ u.fp = Relocate(s.fp, table)
      /\ u.pc = Relocate(s.pc, table)
      /\ u = [ap |-> u.ap, fp |-> u.fp, pc |-> u.pc]
  BY DEF Registers, RelocatedRegisters
<1>4. \A pc : /\ Goto(s, appp, pc) = [ap |-> IncrementAp(s.ap, appp), fp |-> s.fp, pc |-> pc]
              /\ Goto(u, appp, pc) = [ap |-> IncrementAp(u.ap, appp), fp |-> u.fp, pc |-> pc]
  <2>1. ASSUME NEW w, w = [ap |-> w.ap, fp |-> w.fp, pc |-> w.pc], NEW pc
        PROVE  Goto(w, appp, pc) = [ap |-> IncrementAp(w.ap, appp), fp |-> w.fp, pc |-> pc]
    <3>1. PICK e : e = [w EXCEPT !.ap = IncrementAp(@, appp), !.pc = pc]
      OBVIOUS
    <3>2. e = [ap |-> IncrementAp(w.ap, appp), fp |-> w.fp, pc |-> pc]
      BY <2>1, <3>1
    <3> QED BY <3>1, <3>2 DEF Goto
  <2> HIDE DEF u
  <2> QED BY <1>3, <2>1
<1>5. /\ Advance(s, appp) = Goto(s, appp, AddM31(s.pc, 1))
      /\ Advance(u, appp) = Goto(u, appp, AddM31(u.pc, 1))
  BY <1>3 DEF Goto, Advance
<1>6. \A pc : RelocatedRegisters(Goto(s, appp, pc), table) = Goto(u, appp, Relocate(pc, table))
  BY <1>2, <1>3, <1>4 DEF RelocatedRegisters
<1>7. Covered(s.pc, table) => Relocate(AddM31(s.pc, 1), table) = AddM31(u.pc, 1)
  BY <1>1, <1>3, RelocateMoves, ConstantsType
<1> QED BY <1>5, <1>6, <1>7

LEMMA DestinationsMove ==
  ASSUME NEW m, NEW n, NEW table, Images(m, n, table),
         NEW s \in Registers, Covered(s.pc, table), NEW i, IsInstruction(i),
         NEW d \in Destinations(m, s, i)
  PROVE  Relocate(d, table) \in Destinations(n, RelocatedRegisters(s, table), i)
<1> DEFINE u == RelocatedRegisters(s, table)
<1>1. PICK t \in Target(m, s, i.op.operand, i.args) : d \in Destination(s, i.op.rel, t)
  BY DEF Destinations
<1>2. /\ Covered(t, table) /\ t \in Value
      /\ Relocate(t, table) \in Target(n, u, i.op.operand, i.args)
  BY OperandMoves, MakeType DEF IsInstruction
<1>3. u.pc = Relocate(s.pc, table) /\ s.pc \in Value
  BY MakeType DEF RelocatedRegisters, Registers
<1>4. \A x, y : Plus(x, y) = Apply("add", x, y)
  BY DEF Apply
<1>5. Relocate(d, table) \in Destination(u, i.op.rel, Relocate(t, table))
  BY <1>1, <1>2, <1>3, <1>4, RelocateApply DEF Destination, Images
<1> QED BY <1>2, <1>5 DEF Destinations

LEMMA StatesMove ==
  ASSUME NEW m, NEW n, NEW table, Images(m, n, table),
         NEW s \in Registers, Covered(s.ap, table), Covered(s.pc, table),
         NEW i, IsInstruction(i), NEW t
  PROVE  LET u == RelocatedRegisters(s, table)
             r == RelocatedRegisters(t, table)
         IN /\ t \in AddApStates(m, s, i) => r \in AddApStates(n, u, i)
            /\ t \in JumpStates(m, s, i) => r \in JumpStates(n, u, i)
            /\ t \in CallStates(m, s, i) => r \in CallStates(n, u, i)
            /\ t \in JnzStates(m, s, i) => r \in JnzStates(n, u, i)
            /\ t \in RetStates(m, s) => r \in RetStates(n, u)
<1> DEFINE u == RelocatedRegisters(s, table)
           r == RelocatedRegisters(t, table)
<1>1. /\ s.ap \in Value /\ s.pc \in Value /\ s.fp \in Addr /\ IsTable(table)
      /\ s = [ap |-> s.ap, fp |-> s.fp, pc |-> s.pc]
  BY MakeType DEF Registers, Images
<1>2. /\ u.ap = Relocate(s.ap, table) /\ u.fp = Relocate(s.fp, table)
      /\ u.pc = Relocate(s.pc, table)
      /\ u = [ap |-> u.ap, fp |-> u.fp, pc |-> u.pc]
  BY DEF RelocatedRegisters
<1>3. /\ Relocate(AddM31(s.pc, 1), table) = AddM31(u.pc, 1)
      /\ Relocate(AddM31(s.ap, 2), table) = AddM31(u.ap, 2)
  BY <1>1, <1>2, RelocateMoves, ConstantsType
<1>4. \A x, y : Plus(x, y) = Apply("add", x, y)
  BY DEF Apply
<1>5. ASSUME t \in AddApStates(m, s, i) PROVE r \in AddApStates(n, u, i)
  <2>1. PICK ap \in UNION {Plus(s.ap, d) : d \in Target(m, s, i.op.operand, i.args)} :
          t = [s EXCEPT !.ap = ap, !.pc = AddM31(@, 1)]
    BY <1>5 DEF AddApStates
  <2>2. PICK d \in Target(m, s, i.op.operand, i.args) : ap \in Plus(s.ap, d)
    BY <2>1
  <2>3. /\ Covered(d, table) /\ d \in Value
        /\ Relocate(d, table) \in Target(n, u, i.op.operand, i.args)
    BY OperandMoves, MakeType DEF IsInstruction
  <2>4. Relocate(ap, table) \in Plus(u.ap, Relocate(d, table))
    BY <1>1, <1>2, <1>4, <2>2, <2>3, RelocateApply
  <2>5. t = [ap |-> ap, fp |-> s.fp, pc |-> AddM31(s.pc, 1)]
    BY <1>1, <2>1
  <2>6. r = [ap |-> Relocate(ap, table), fp |-> u.fp, pc |-> AddM31(u.pc, 1)]
    BY <1>2, <1>3, <2>5 DEF RelocatedRegisters
  <2>7. r = [u EXCEPT !.ap = Relocate(ap, table), !.pc = AddM31(@, 1)]
    <3>1. PICK e : e = [u EXCEPT !.ap = Relocate(ap, table), !.pc = AddM31(@, 1)]
      OBVIOUS
    <3>2. e = [ap |-> Relocate(ap, table), fp |-> u.fp, pc |-> AddM31(u.pc, 1)]
      BY <1>2, <3>1
    <3> QED BY <2>6, <3>1, <3>2
  <2> QED BY <2>3, <2>4, <2>7 DEF AddApStates
<1>6. ASSUME t \in JumpStates(m, s, i) PROVE r \in JumpStates(n, u, i)
  <2>1. PICK pc \in Destinations(m, s, i) : t = Goto(s, i.op.appp, pc)
    BY <1>6 DEF JumpStates
  <2>2. Relocate(pc, table) \in Destinations(n, u, i)
    BY DestinationsMove
  <2>3. r = Goto(u, i.op.appp, Relocate(pc, table))
    BY <1>1, <2>1, RegistersMove
  <2> QED BY <2>2, <2>3 DEF JumpStates
<1>7. ASSUME t \in CallStates(m, s, i) PROVE r \in CallStates(n, u, i)
  <2>1. PICK pc \in Destinations(m, s, i) :
          t = [ap |-> AddM31(s.ap, 2), fp |-> AddM31(s.ap, 2), pc |-> pc]
    BY <1>7 DEF CallStates
  <2>2. Relocate(pc, table) \in Destinations(n, u, i)
    BY DestinationsMove
  <2>3. r = [ap |-> AddM31(u.ap, 2), fp |-> AddM31(u.ap, 2), pc |-> Relocate(pc, table)]
    BY <1>3, <2>1 DEF RelocatedRegisters
  <2> QED BY <2>2, <2>3 DEF CallStates
<1>8. ASSUME t \in JnzStates(m, s, i) PROVE r \in JnzStates(n, u, i)
  <2> DEFINE o == i.op.operand
             a == i.args
             Conditions(k, z) == {v \in Right(k, z, o, a) : ~IsRel(v)}
             Taken(k, z) == {Goto(z, i.op.appp, pc) :
                               pc \in UNION {Plus(z.pc, d) : d \in Project(Left(k, z, o, a))}}
  <2>1. \A k, z : JnzStates(k, z, i) =
          IF Project(Left(k, z, o, a)) = {} \/ Conditions(k, z) = {} THEN {}
          ELSE IF Conditions(k, z) = {Abs(QZero)} THEN {Advance(z, i.op.appp)}
          ELSE Taken(k, z)
    BY DEF JnzStates
  <2>2. PICK d \in Project(Left(m, s, o, a)), c \in Conditions(m, s) : TRUE
    BY <1>8, <2>1
  <2>3. d \in Left(m, s, o, a) /\ d \in Addr /\ c \in Right(m, s, o, a) /\ ~IsRel(c)
    BY <2>2 DEF Project
  <2>4. a[1] \in M31 /\ a[2] \in M31
    BY DEF IsInstruction
  <2>5. \A e \in Left(m, s, o, a) :
          /\ Covered(e, table) /\ e \in Value /\ Relocate(e, table) \in Left(n, u, o, a)
    BY <2>4, SidesMove
  <2>6. \A e \in Addr : Covered(e, table) => Relocate(e, table) \in Addr
    BY <1>1, RelocateType, MakeType
  <2>7. \A e \in Project(Left(m, s, o, a)) :
          /\ Covered(e, table) /\ e \in Value
          /\ Relocate(e, table) \in Project(Left(n, u, o, a))
    BY <2>5, <2>6 DEF Project
  <2>8. Conditions(m, s) = {c} /\ Conditions(n, u) = {c}
    <3>1. \A v \in Right(m, s, o, a) : v = c
      BY <2>3, GetType DEF Right
    <3>2. c \in Right(n, u, o, a) /\ \A w \in Right(n, u, o, a) : w = c
      BY <2>3, <2>4, SidesMove DEF Relocate
    <3> QED BY <2>3, <3>1, <3>2
  <2>9. Project(Left(m, s, o, a)) # {} /\ Project(Left(n, u, o, a)) # {}
    BY <2>2, <2>7
  <2> HIDE DEF Conditions, o, a
  <2>10. CASE c = Abs(QZero)
    <3>1. t = Advance(s, i.op.appp)
      BY <1>8, <2>1, <2>8, <2>9, <2>10
    <3>2. r = Advance(u, i.op.appp)
      BY <1>1, <3>1, RegistersMove
    <3> QED BY <2>1, <2>8, <2>9, <2>10, <3>2
  <2>11. CASE c # Abs(QZero)
    <3>1. t \in Taken(m, s)
      BY <1>8, <2>1, <2>8, <2>9, <2>11
    <3>2. PICK e \in Project(Left(m, s, o, a)) : \E pc \in Plus(s.pc, e) :
            t = Goto(s, i.op.appp, pc)
      BY <3>1
    <3>3. PICK pc \in Plus(s.pc, e) : t = Goto(s, i.op.appp, pc)
      BY <3>2
    <3>4. Relocate(pc, table) \in Plus(u.pc, Relocate(e, table))
      BY <1>1, <1>2, <1>4, <2>7, <3>3, RelocateApply
    <3>5. r = Goto(u, i.op.appp, Relocate(pc, table))
      BY <1>1, <3>3, RegistersMove
    <3>6. r \in Taken(n, u)
      BY <2>7, <3>4, <3>5
    <3> QED BY <2>1, <2>8, <2>9, <2>11, <3>6
  <2> QED BY <2>10, <2>11
<1>9. ASSUME t \in RetStates(m, s) PROVE r \in RetStates(n, u)
  <2>1. PICK fp \in Project(Get(m, SubM31(s.fp, 2))), pc \in Project(Get(m, SubM31(s.fp, 1))) :
          t = [s EXCEPT !.fp = fp, !.pc = pc]
    BY <1>9 DEF RetStates
  <2>2. ASSUME NEW k \in M31, NEW v \in Project(Get(m, SubM31(s.fp, k)))
        PROVE  Relocate(v, table) \in Project(Get(n, SubM31(u.fp, k)))
    BY <1>1, <1>2, MovedGetMoves, RelocateType DEF Project
  <2>3. /\ Relocate(fp, table) \in Project(Get(n, SubM31(u.fp, 2)))
        /\ Relocate(pc, table) \in Project(Get(n, SubM31(u.fp, 1)))
    BY <2>2, ConstantsType
  <2>4. t = [ap |-> s.ap, fp |-> fp, pc |-> pc]
    BY <1>1, <2>1
  <2>5. r = [ap |-> u.ap, fp |-> Relocate(fp, table), pc |-> Relocate(pc, table)]
    BY <1>2, <2>4 DEF RelocatedRegisters
  <2>6. r = [u EXCEPT !.fp = Relocate(fp, table), !.pc = Relocate(pc, table)]
    <3>1. PICK e : e = [u EXCEPT !.fp = Relocate(fp, table), !.pc = Relocate(pc, table)]
      OBVIOUS
    <3>2. e = [ap |-> u.ap, fp |-> Relocate(fp, table), pc |-> Relocate(pc, table)]
      BY <1>2, <3>1
    <3> QED BY <2>5, <3>1, <3>2
  <2> DEFINE saved == <<Relocate(fp, table), Relocate(pc, table)>>
  <2>7. /\ saved \in Project(Get(n, SubM31(u.fp, 2))) \X Project(Get(n, SubM31(u.fp, 1)))
        /\ r = [u EXCEPT !.fp = saved[1], !.pc = saved[2]]
    BY <2>3, <2>6
  <2> QED BY <2>7 DEF RetStates
<1> QED BY <1>5, <1>6, <1>7, <1>8, <1>9

(* A step the memory allows, the relocated memory allows of the relocated  *)
(* registers.                                                              *)
LEMMA LegalMoves ==
  ASSUME NEW m, NEW n, NEW table, Images(m, n, table),
         NEW s \in Registers, Covered(s.ap, table), NEW t, Legal(m, s, t)
  PROVE  Legal(n, RelocatedRegisters(s, table), RelocatedRegisters(t, table))
<1> DEFINE u == RelocatedRegisters(s, table)
           r == RelocatedRegisters(t, table)
<1>1. PICK w \in Get(m, s.pc) : \E i \in Decode(w) : Obeys(m, s, t, i)
  BY DEF Legal
<1>2. PICK i \in Decode(w) : Obeys(m, s, t, i)
  BY <1>1
<1>3. /\ Covered(s.pc, table) /\ Covered(w, table) /\ w \in Value
      /\ Relocate(w, table) \in Get(n, Relocate(s.pc, table))
  BY <1>1, GetMoves
<1>4. ~IsRel(w) /\ IsInstruction(i)
  BY <1>2, <1>3, DecodeType DEF Decode
<1>5. w \in Get(n, u.pc)
  BY <1>3, <1>4 DEF Relocate, RelocatedRegisters
<1>6. Asserted(m, s, i) => Asserted(n, u, i)
  <2> SUFFICES ASSUME Asserted(m, s, i) PROVE Asserted(n, u, i)
    OBVIOUS
  <2> DEFINE o == i.op.operand
             a == OperandArgs(i.args)
             k == i.args[1]
  <2>1. PICK v \in Get(m, Address(s, i.op.dest, k)) : v \in OperandValue(m, s, o, a)
    BY DEF Asserted
  <2>2. k \in M31 /\ a[1] \in M31 /\ a[2] \in M31
    BY <1>4 DEF IsInstruction, OperandArgs
  <2>3. Relocate(v, table) \in Get(n, Address(u, i.op.dest, k))
    BY <2>1, <2>2, CellMoves
  <2>4. Relocate(v, table) \in OperandValue(n, u, o, a)
    BY <2>1, <2>2, OperandMoves
  <2> QED BY <2>3, <2>4 DEF Asserted
<1>7. Pushed(m, s) => Pushed(n, u)
  <2> SUFFICES ASSUME Pushed(m, s) PROVE Pushed(n, u)
    OBVIOUS
  <2>1. s.fp \in Get(m, s.ap) /\ AddM31(s.pc, 1) \in Get(m, AddM31(s.ap, 1))
    BY DEF Pushed
  <2>2. /\ s.ap \in Addr /\ s.pc \in Value /\ IsTable(table)
        /\ u.ap = Relocate(s.ap, table) /\ u.fp = Relocate(s.fp, table)
        /\ u.pc = Relocate(s.pc, table)
    BY MakeType DEF RelocatedRegisters, Registers, Images
  <2>3. /\ u.fp \in Get(n, u.ap) /\ \A v \in Get(n, u.ap) : v = u.fp
    BY <2>1, <2>2, GetMoves
  <2>4. Relocate(AddM31(s.pc, 1), table) = AddM31(u.pc, 1)
    BY <1>3, <2>2, RelocateMoves, ConstantsType
  <2>5. /\ AddM31(u.pc, 1) \in Get(n, AddM31(u.ap, 1))
        /\ \A v \in Get(n, AddM31(u.ap, 1)) : v = AddM31(u.pc, 1)
    BY <2>1, <2>2, <2>4, MovedGetMoves, ConstantsType
  <2> QED BY <2>3, <2>5 DEF Pushed
<1>8. t = Advance(s, i.op.appp) => r = Advance(u, i.op.appp)
  BY <1>3, RegistersMove DEF Images
<1>9. Obeys(n, u, r, i)
  BY <1>2, <1>3, <1>4, <1>6, <1>7, <1>8, StatesMove DEF Obeys
<1> QED BY <1>2, <1>5, <1>9 DEF Legal

-----------------------------------------------------------------------------
(* The initial state.                                                      *)

LEMMA OffsetsType == \A k \in 0 .. 3 : k \in M31
  BY PAssumption, SMT DEF M31

LEMMA CodeCellsType ==
  ASSUME NEW p, IsProgram(p), NEW a \in CodeCells(p)
  PROVE  /\ a \in Addr
         /\ p.code[a.offset + 1] \in QM31
<1>1. PICK k \in 1 .. Len(p.code) : a = Rel(ProgramSegment, k - 1)
  BY DEF CodeCells
<1>2. k - 1 \in M31 /\ k \in 1 .. Len(p.code)
  BY <1>1, PAssumption, SMT DEF IsProgram, M31
<1>3. a.offset + 1 = k
  BY <1>1, SMT DEF Rel
<1>4. p.code[k] \in QM31
  BY <1>2 DEF IsProgram
<1> QED BY <1>1, <1>2, <1>3, <1>4, MakeType DEF ProgramSegment, Addr

LEMMA LoadedMemoryType ==
  ASSUME NEW p, IsProgram(p)
  PROVE  IsMemory(LoadedMemory(p))
<1> DEFINE m == LoadedMemory(p)
<1>1. /\ MainFrame \subseteq Addr
      /\ {FinalFp, FinalPc, OutputCell} \subseteq Addr
  BY OffsetsType, MakeType
     DEF MainFrame, FinalFp, FinalPc, OutputCell, ExecutionSegment, OutputSegment, Addr
<1>2. DOMAIN m \subseteq Addr
  BY <1>1, CodeCellsType DEF LoadedMemory
<1>3. ASSUME NEW a \in DOMAIN m PROVE m[a] \in Value
  <2>1. CASE a \in CodeCells(p)
    BY <2>1, CodeCellsType, MakeType DEF LoadedMemory, Value
  <2>2. CASE a \notin CodeCells(p)
    <3>1. m[a] \in {OutputCell, FinalFp, FinalPc, Abs(QZero)}
      BY <2>2 DEF LoadedMemory, MainFrame
    <3>2. Abs(QZero) \in Value
      BY MakeType, ConstantsType DEF Value
    <3> QED BY <1>1, <3>1, <3>2, MakeType
  <2> QED BY <2>1, <2>2
<1> QED BY <1>2, <1>3 DEF IsMemory

LEMMA InitialRegistersType == InitialRegisters \in Registers
  BY OffsetsType, MakeType
     DEF InitialRegisters, InitialStack, ProgramSegment, ExecutionSegment,
         Registers, Addr

(* The code is where it is loaded.                                         *)
LEMMA LoadedCode ==
  ASSUME NEW p, IsProgram(p), NEW k \in 1 .. Len(p.code)
  PROVE  /\ Rel(ProgramSegment, k - 1) \in DOMAIN LoadedMemory(p)
         /\ LoadedMemory(p)[Rel(ProgramSegment, k - 1)] = Abs(p.code[k])
<1>1. Rel(ProgramSegment, k - 1) \in CodeCells(p)
  BY DEF CodeCells
<1>2. Rel(ProgramSegment, k - 1).offset + 1 = k
  BY SMT DEF Rel, IsProgram
<1> QED BY <1>1, <1>2 DEF LoadedMemory

-----------------------------------------------------------------------------
(* What a step does to memory and registers, action by action.             *)

LEMMA HintedMemoriesIs ==
  ASSUME TypeOK, NEW m \in HintedMemories
  PROVE  /\ IsMemory(m)
         /\ IsRel(state.pc)
         /\ ~HintPending => m = memory
         /\ HintPending => \E q \in program.input : m = Put(memory, state.fp, Abs(q))
<1>1. CASE ~HintPending
  BY <1>1 DEF HintedMemories, TypeOK
<1>2. CASE HintPending
  <2>1. IsRel(state.pc)
    BY <1>2 DEF HintPending
  <2>2. PICK q \in program.input : m \in Insert(memory, state.fp, Abs(q))
    BY <1>2, <2>1 DEF HintedMemories
  <2>3. m = Put(memory, state.fp, Abs(q))
    BY <2>2, InsertIs
  <2>4. Abs(q) \in Value /\ state.fp \in Addr
    BY <2>2, MakeType DEF TypeOK, IsProgram, Registers, Value
  <2> QED BY <1>2, <2>1, <2>2, <2>3, <2>4, PutType DEF TypeOK
<1> QED BY <1>1, <1>2

LEMMA FetchType ==
  ASSUME NEW m, IsMemory(m), NEW kind, NEW i \in Fetch(m, kind)
  PROVE  IsInstruction(i)
<1>1. PICK v \in Get(m, state.pc) : i \in Decode(v)
  BY DEF Fetch
<1> QED BY <1>1, GetType, DecodeType

(* Every step other than a call leaves the hinted memory or fills one cell *)
(* of it; a call pushes two.  No step moves ap out of its segment.         *)
LEMMA StepMemory ==
  ASSUME TypeOK, Step
  PROVE  \E m \in HintedMemories :
           /\ IsMemory(m)
           /\ \/ Fills(m, memory')
              \/ Fetch(m, "call") # {} /\ memory' \in PushReturn(m, state)
           /\ IsMemory(memory')
           /\ state' \in Registers
           /\ SameStack(state, state')
<1> DEFINE Good(m) == /\ IsMemory(m)
                      /\ \/ Fills(m, memory')
                         \/ Fetch(m, "call") # {} /\ memory' \in PushReturn(m, state)
                      /\ IsMemory(memory')
                      /\ state' \in Registers
                      /\ SameStack(state, state')
<1>0. state \in Registers
  BY DEF TypeOK
<1>1. CASE AddAp
  <2>1. PICK m \in HintedMemories : \E i \in Fetch(m, "addap") :
          memory' = m /\ state' \in AddApStates(m, state, i)
    BY <1>1 DEF AddAp
  <2>2. Good(m)
    BY <1>0, <2>1, HintedMemoriesIs, FetchType, AddApType DEF Fills
  <2> QED BY <2>2
<1>2. CASE Assert
  <2>1. PICK m \in HintedMemories : \E i \in Fetch(m, "assert") :
          /\ memory' \in AssertMemories(m, state, i)
          /\ state' = Advance(state, i.op.appp)
    BY <1>2 DEF Assert
  <2>2. Good(m)
    BY <1>0, <2>1, HintedMemoriesIs, FetchType, AssertFills, FillsKeeps, AdvanceType
  <2> QED BY <2>2
<1>3. CASE Call
  <2>1. PICK m \in HintedMemories : \E i \in Fetch(m, "call") :
          /\ memory' \in PushReturn(m, state)
          /\ state' \in CallStates(memory', state, i)
    BY <1>3 DEF Call
  <2>2. Good(m)
    BY <1>0, <2>1, HintedMemoriesIs, FetchType, PushReturnIs, CallType
  <2> QED BY <2>2
<1>4. CASE Jmp
  <2>1. PICK m \in HintedMemories : \E i \in Fetch(m, "jmp") :
          memory' = m /\ state' \in JumpStates(m, state, i)
    BY <1>4 DEF Jmp
  <2>2. Good(m)
    BY <1>0, <2>1, HintedMemoriesIs, FetchType, JumpType DEF Fills
  <2> QED BY <2>2
<1>5. CASE Jnz
  <2>1. PICK m \in HintedMemories : \E i \in Fetch(m, "jnz") :
          memory' = m /\ state' \in JnzStates(m, state, i)
    BY <1>5 DEF Jnz
  <2>2. Good(m)
    BY <1>0, <2>1, HintedMemoriesIs, FetchType, JnzType DEF Fills
  <2> QED BY <2>2
<1>6. CASE Ret
  <2>1. PICK m \in HintedMemories : \E i \in Fetch(m, "ret") :
          memory' = m /\ state' \in RetStates(m, state)
    BY <1>6 DEF Ret
  <2>2. Good(m)
    BY <1>0, <2>1, HintedMemoriesIs, RetType DEF Fills
  <2> QED BY <2>2
<1> QED BY <1>1, <1>2, <1>3, <1>4, <1>5, <1>6 DEF Step

LEMMA StepFrame == ASSUME Step PROVE UNCHANGED <<program, status>>
  BY DEF Step, AddAp, Assert, Call, Jmp, Jnz, Ret

LEMMA EndFrame == ASSUME Halt \/ Panic
                  PROVE  /\ UNCHANGED <<program, memory, state>>
                         /\ status' \in {"halted", "panicked"}
  BY DEF Halt, Panic

-----------------------------------------------------------------------------
(* Registers are addresses and cells hold values, whatever the program.    *)
THEOREM TypeCorrect == Spec => []TypeOK
<1>1. Init => TypeOK
  BY ProgramsAssumption, LoadedMemoryType, InitialRegistersType DEF Init, TypeOK
<1>2. TypeOK /\ [Next]_vars => TypeOK'
  <2> SUFFICES ASSUME TypeOK, [Next]_vars PROVE TypeOK'
    OBVIOUS
  <2>1. CASE Step
    BY <2>1, StepMemory, StepFrame DEF TypeOK, IsMemory
  <2>2. CASE Halt \/ Panic
    BY <2>2, EndFrame DEF TypeOK, IsMemory
  <2>3. CASE UNCHANGED vars
    BY <2>3 DEF vars, TypeOK, IsMemory
  <2> QED BY <2>1, <2>2, <2>3 DEF Next
<1> QED BY <1>1, <1>2, PTL DEF Spec

-----------------------------------------------------------------------------
(* ap never leaves the execution segment.                                  *)
THEOREM StackCorrect == Spec => []StackInExecution
<1>1. Init => StackInExecution
  BY DEF Init, StackInExecution, InitialRegisters, InitialStack, Rel, IsRel
<1>2. TypeOK /\ StackInExecution /\ [Next]_vars => StackInExecution'
  BY StepMemory, EndFrame
     DEF Next, vars, StackInExecution, SameStack
<1> QED BY <1>1, <1>2, TypeCorrect, PTL DEF Spec

(* Memory is write-once but for the hint's cell and the two cells a call   *)
(* pushes to.                                                              *)
LEMMA StepWritesOnce ==
  ASSUME TypeOK, [Next]_vars, NEW a \in DOMAIN memory
  PROVE  /\ a \in DOMAIN memory'
         /\ memory'[a] # memory[a] => a \in Overwritable
<1>1. CASE Step
  <2>1. PICK m \in HintedMemories :
          /\ IsMemory(m)
          /\ \/ Fills(m, memory')
             \/ Fetch(m, "call") # {} /\ memory' \in PushReturn(m, state)
    BY <1>1, StepMemory
  <2>2. a \in DOMAIN m /\ (m[a] # memory[a] => HintPending /\ a = state.fp)
    <3>1. CASE HintPending
      <4>1. PICK q \in program.input : m = Put(memory, state.fp, Abs(q))
        BY <2>1, <3>1, HintedMemoriesIs
      <4> QED BY <3>1, <4>1 DEF Put
    <3>2. CASE ~HintPending
      BY <2>1, <3>2, HintedMemoriesIs
    <3> QED BY <3>1, <3>2
  <2>3. CASE Fills(m, memory')
    BY <2>2, <2>3, FillsKeeps DEF Overwritable
  <2>4. CASE Fetch(m, "call") # {} /\ memory' \in PushReturn(m, state)
    <3>1. memory' = Put(Put(m, state.ap, state.fp),
                        AddM31(state.ap, 1), AddM31(state.pc, 1))
      BY <2>1, <2>4, PushReturnIs DEF TypeOK
    <3>2. a \in DOMAIN memory'
      BY <2>2, <3>1 DEF Put
    <3>3. a \notin {state.ap, AddM31(state.ap, 1)} => memory'[a] = m[a]
      BY <2>2, <3>1 DEF Put
    <3> QED BY <2>1, <2>2, <2>4, <3>2, <3>3 DEF Overwritable
  <2> QED BY <2>1, <2>3, <2>4
<1>2. CASE Halt \/ Panic
  BY <1>2, EndFrame
<1>3. CASE UNCHANGED vars
  BY <1>3 DEF vars
<1> QED BY <1>1, <1>2, <1>3 DEF Next

THEOREM WriteOnceCorrect == Spec => WriteOnce
<1>1. TypeOK /\ [Next]_vars =>
        [\A a \in DOMAIN memory :
           /\ a \in DOMAIN memory'
           /\ memory'[a] # memory[a] => a \in Overwritable]_vars
  BY StepWritesOnce
<1> QED BY <1>1, TypeCorrect, PTL DEF Spec, WriteOnce

(* Without hints, the code that runs is the code that was loaded: only     *)
(* calls overwrite, and they push to another segment.                      *)
THEOREM CodeIsIntact == Spec => []CodeIntact
<1>1. Init => CodeIntact
  BY ProgramsAssumption, LoadedCode DEF Init, CodeIntact, Get
<1>2. TypeOK /\ StackInExecution /\ CodeIntact /\ [Next]_vars => CodeIntact'
  <2> SUFFICES ASSUME TypeOK, StackInExecution, CodeIntact, [Next]_vars,
                      program'.hints = {}, NEW k \in 1 .. Len(program'.code)
               PROVE  Get(memory', Rel(ProgramSegment, k - 1)) = {Abs(program'.code[k])}
    BY DEF CodeIntact
  <2> DEFINE a == Rel(ProgramSegment, k - 1)
  <2>1. program' = program
    BY StepFrame, EndFrame DEF Next, vars
  <2>2. a \in DOMAIN memory /\ memory[a] = Abs(program.code[k])
    BY <2>1 DEF CodeIntact, Get
  <2>3. a \notin Overwritable
    <3>1. ~HintPending
      BY <2>1 DEF HintPending
    <3>2. IsRel(AddM31(state.ap, 1)) /\ AddM31(state.ap, 1).segment = ExecutionSegment
      BY MoveKeepsSegment, MakeType, ConstantsType
         DEF StackInExecution, TypeOK, Registers
    <3>3. a.segment = ProgramSegment /\ ProgramSegment # ExecutionSegment
      BY DEF Rel, ProgramSegment, ExecutionSegment
    <3> QED BY <3>1, <3>2, <3>3 DEF Overwritable, StackInExecution
  <2>4. a \in DOMAIN memory' /\ memory'[a] = memory[a]
    BY <2>2, <2>3, StepWritesOnce
  <2> QED BY <2>1, <2>2, <2>4 DEF Get
<1> QED BY <1>1, <1>2, TypeCorrect, StackCorrect, PTL DEF Spec

-----------------------------------------------------------------------------
(* The history of a run: its open calls and the steps it took.             *)

StackCells == {a \in Relocatables : a.segment = ExecutionSegment}

Frames == [base : StackCells, fp : Addr, pc : Addr]

FramesOK == frames \in Seq(Frames)

(* The history variables only watch.                                       *)
LEMMA HistoryOnlyWatches == HSpec => Spec
<1>1. HInit => Init
  BY DEF HInit
<1>2. [HNext]_hvars => [Next]_vars
  BY DEF HNext, HCall, HRet, HLocal, HEnd, Next, Step, hvars, vars
<1> QED BY <1>1, <1>2, PTL DEF HSpec, Spec

-----------------------------------------------------------------------------
(* One step.                                                               *)

LEMMA NothingChanged ==
  ASSUME NEW m, NEW n, ~Changes(m, n), NEW a \in DOMAIN m
  PROVE  a \in DOMAIN n /\ n[a] = m[a]
  BY DEF Changes

(* A step that overwrites nothing only adds to the memory, twice: the hint *)
(* adds to what there was, and the instruction to that.                    *)
LEMMA NotOverwritten ==
  ASSUME Step, ~Overwrites
  PROVE  /\ ~Changes(memory, memory')
         /\ \A m \in HintedMemories : Extends(m, memory) /\ Extends(memory', m)
<1>1. \A m \in HintedMemories : Extends(m, memory) /\ Extends(memory', m)
  BY DEF Overwrites, Changes, Extends
<1>2. HintedMemories # {}
  BY DEF Step, AddAp, Assert, Call, Jmp, Jnz, Ret
<1> QED BY <1>1, <1>2 DEF Extends, Changes

(* The two cells below the base of a new frame are those the call pushed.  *)
LEMMA FrameCells ==
  ASSUME NEW ap \in Addr, IsRel(ap)
  PROVE  /\ SubM31(AddM31(ap, 2), 2) = ap
         /\ SubM31(AddM31(ap, 2), 1) = AddM31(ap, 1)
         /\ AddM31(ap, 1) # ap
<1>1. ap.segment \in Nat /\ ap.offset \in M31 /\ ap = Rel(ap.segment, ap.offset)
  BY MakeType DEF Addr, Relocatables, Absolutes, IsRel, Rel
<1>2. /\ MSub(MAdd(ap.offset, 2), 2) = ap.offset
      /\ MSub(MAdd(ap.offset, 2), 1) = MAdd(ap.offset, 1)
      /\ MAdd(ap.offset, 1) # ap.offset
  BY <1>1, PAssumption, SMT DEF M31, MAdd, MSub, PartialReduce
<1> QED BY <1>1, <1>2 DEF AddM31, SubM31, Rel, IsRel

LEMMA LocalKeepsFp ==
  ASSUME TypeOK, AddAp \/ Assert \/ Jmp \/ Jnz
  PROVE  state'.fp = state.fp
<1>0. state \in Registers
  BY DEF TypeOK
<1>1. CASE AddAp
  BY <1>0, <1>1, HintedMemoriesIs, FetchType, AddApType DEF AddAp
<1>2. CASE Assert
  BY <1>0, <1>2, AdvanceType DEF Assert
<1>3. CASE Jmp
  BY <1>0, <1>3, HintedMemoriesIs, FetchType, JumpType DEF Jmp
<1>4. CASE Jnz
  BY <1>0, <1>4, HintedMemoriesIs, FetchType, JnzType DEF Jnz
<1> QED BY <1>1, <1>2, <1>3, <1>4

LEMMA CallPushes ==
  ASSUME TypeOK, StackInExecution, Call
  PROVE  /\ state'.fp = AddM31(state.ap, 2)
         /\ Get(memory', SubM31(state'.fp, 2)) = {state.fp}
         /\ Get(memory', SubM31(state'.fp, 1)) = {AddM31(state.pc, 1)}
<1>1. PICK m \in HintedMemories : \E i \in Fetch(m, "call") :
        /\ memory' \in PushReturn(m, state)
        /\ state' \in CallStates(memory', state, i)
  BY DEF Call
<1>2. /\ state \in Registers /\ state.ap \in Addr /\ IsMemory(m)
      /\ IsRel(state.ap)
  BY <1>1, HintedMemoriesIs DEF TypeOK, Registers, StackInExecution
<1>3. memory' = Put(Put(m, state.ap, state.fp), AddM31(state.ap, 1), AddM31(state.pc, 1))
  BY <1>1, <1>2, PushReturnIs
<1>4. state'.fp = AddM31(state.ap, 2)
  BY <1>1, <1>2, PushReturnIs, FetchType, CallType
<1> QED BY <1>2, <1>3, <1>4, FrameCells DEF Get, Put

LEMMA RetPops ==
  ASSUME TypeOK, Ret
  PROVE  /\ state'.fp \in Get(memory', SubM31(state.fp, 2))
         /\ state'.pc \in Get(memory', SubM31(state.fp, 1))
  BY RetType DEF Ret, TypeOK

-----------------------------------------------------------------------------
(* The frames are typed, which holds whether or not cells are overwritten. *)
LEMMA FramesType == HSpec => []FramesOK
<1>1. HInit => FramesOK
  <2>1. InitialStack \in StackCells
    BY OffsetsType, MakeType DEF InitialStack, StackCells, ExecutionSegment, Rel
  <2>2. FinalFp \in Addr /\ FinalPc \in Addr
    BY OffsetsType, MakeType DEF FinalFp, FinalPc, Addr
  <2> QED BY <2>1, <2>2 DEF HInit, FramesOK, Frames, Frame
<1>2. TypeOK /\ StackInExecution /\ FramesOK /\ [HNext]_hvars => FramesOK'
  <2> SUFFICES ASSUME TypeOK, StackInExecution, FramesOK, [HNext]_hvars PROVE FramesOK'
    OBVIOUS
  <2>1. CASE HCall
    <3>1. state.fp \in Addr /\ AddM31(state.pc, 1) \in Addr
      BY MoveType, MakeType, ConstantsType DEF TypeOK, Registers
    <3>2. /\ state.ap \in Relocatables /\ state.ap.segment = ExecutionSegment
          /\ state.ap \in Value /\ state.ap \in Addr
      BY MakeType, ValueCases DEF TypeOK, Registers, StackInExecution
    <3>3. /\ AddM31(state.ap, 2) \in Addr
          /\ IsRel(AddM31(state.ap, 2)) /\ AddM31(state.ap, 2).segment = ExecutionSegment
      BY <3>2, MoveType, MoveKeepsSegment, ConstantsType DEF StackInExecution
    <3>4. state'.fp \in StackCells
      BY <2>1, <3>3, CallPushes, ValueCases, MakeType DEF HCall, StackCells
    <3>5. Frame(state'.fp, state.fp, AddM31(state.pc, 1)) \in Frames
      BY <3>1, <3>4 DEF Frame, Frames
    <3> QED BY <2>1, <3>5 DEF HCall, FramesOK
  <2>2. CASE HRet
    BY <2>2 DEF HRet, FramesOK
  <2>3. CASE HLocal \/ HEnd \/ UNCHANGED hvars
    BY <2>3 DEF HLocal, HEnd, hvars, FramesOK
  <2> QED BY <2>1, <2>2, <2>3 DEF HNext
<1>3. HSpec => [](TypeOK /\ StackInExecution)
  BY HistoryOnlyWatches, TypeCorrect, StackCorrect, PTL
<1> QED BY <1>1, <1>2, <1>3, PTL DEF HSpec

(* What was saved stays saved while nothing known changes.                 *)
LEMMA SavedStays ==
  ASSUME NEW m, NEW n, ~Changes(m, n), NEW f, Saved(m, f)
  PROVE  Saved(n, f)
<1>1. /\ SubM31(f.base, 2) \in DOMAIN m /\ m[SubM31(f.base, 2)] = f.fp
      /\ SubM31(f.base, 1) \in DOMAIN m /\ m[SubM31(f.base, 1)] = f.pc
  BY DEF Saved, Get
<1> QED BY <1>1, NothingChanged DEF Saved, Get

-----------------------------------------------------------------------------
(* CallStack is inductive, given the types and that ap stays a pointer.    *)

LEMMA CallStackInit == HInit => CallStack
<1> SUFFICES ASSUME HInit PROVE CallStack
  OBVIOUS
<1> DEFINE f == Frame(InitialStack, FinalFp, FinalPc)
<1>1. frames = <<f>> /\ state.fp = InitialStack /\ memory = LoadedMemory(program)
  BY DEF HInit, Init, InitialRegisters
<1>2. /\ SubM31(InitialStack, 2) = Rel(ExecutionSegment, 1)
      /\ SubM31(InitialStack, 1) = Rel(ExecutionSegment, 2)
  BY PAssumption, SMT
     DEF SubM31, InitialStack, Rel, IsRel, MSub, PartialReduce
<1>3. ASSUME NEW a \in MainFrame PROVE a \notin CodeCells(program)
  <2>1. a.segment = ExecutionSegment
    BY <1>3 DEF MainFrame, Rel
  <2>2. \A c \in CodeCells(program) : c.segment = ProgramSegment
    BY DEF CodeCells, Rel
  <2> QED BY <2>1, <2>2 DEF ExecutionSegment, ProgramSegment
<1>4. /\ memory[Rel(ExecutionSegment, 1)] = FinalFp
      /\ memory[Rel(ExecutionSegment, 2)] = FinalPc
      /\ MainFrame \subseteq DOMAIN memory
  BY <1>1, <1>3, SMT DEF LoadedMemory, MainFrame, Rel, FinalFp, FinalPc, ExecutionSegment
<1>5. /\ Get(memory, Rel(ExecutionSegment, 1)) = {FinalFp}
      /\ Get(memory, Rel(ExecutionSegment, 2)) = {FinalPc}
  BY <1>4 DEF Get, MainFrame
<1>6. Saved(memory, f)
  BY <1>2, <1>5 DEF Saved, Frame
<1> QED BY <1>1, <1>6, SMT DEF CallStack, Frame

LEMMA CallStackStep ==
  ASSUME TypeOK, StackInExecution, FramesOK, CallStack, [HNext]_hvars
  PROVE  CallStack'
<1> SUFFICES ASSUME ~overwritten' PROVE CallStack'
  BY DEF CallStack
<1>1. CASE HEnd \/ UNCHANGED hvars
  <2>1. UNCHANGED <<memory, state, frames, overwritten>>
    BY <1>1, EndFrame DEF HEnd, hvars
  <2> QED BY <2>1 DEF CallStack
<1>2. CASE HCall \/ HRet \/ HLocal
  <2>1. ~overwritten /\ ~Changes(memory, memory')
    BY <1>2, NotOverwritten DEF HCall, HRet, HLocal, Observe, Step
  <2>2. state.pc # FinalPc
    BY <1>2 DEF HCall, HRet, HLocal, AddAp, Assert, Call, Jmp, Jnz, Ret, Running
  <2>3. /\ frames # << >>
        /\ \A k \in 1 .. Len(frames) : Saved(memory, frames[k])
        /\ \A k \in 2 .. Len(frames) : frames[k - 1].fp = frames[k].base
        /\ state.fp = frames[1].base
        /\ frames[Len(frames)].fp = FinalFp
        /\ frames[Len(frames)].pc = FinalPc
    BY <2>1, <2>2 DEF CallStack
  <2>4. ASSUME NEW f, Saved(memory, f) PROVE Saved(memory', f)
    BY <2>1, <2>4, SavedStays
  <2>5. Len(frames) \in Nat /\ Len(frames) > 0 /\ frames \in Seq(Frames)
    BY <2>3 DEF FramesOK
  <2>6. CASE HLocal
    <3>1. frames' = frames /\ state'.fp = state.fp
      BY <2>6, LocalKeepsFp DEF HLocal
    <3> QED BY <2>3, <2>4, <3>1 DEF CallStack
  <2>7. CASE HCall
    <3> DEFINE f == Frame(state'.fp, state.fp, AddM31(state.pc, 1))
    <3>1. frames' = <<f>> \o frames
      BY <2>7 DEF HCall
    <3>2. Saved(memory', f)
      BY <2>7, CallPushes DEF HCall, Saved, Frame
    <3>3. Len(frames') = Len(frames) + 1 /\ frames'[1] = f
      BY <2>5, <3>1
    <3>4. \A k \in 2 .. Len(frames') : frames'[k] = frames[k - 1]
      BY <2>5, <3>1
    <3>5. \A k \in 1 .. Len(frames') : Saved(memory', frames'[k])
      <4>1. TAKE k \in 1 .. Len(frames')
      <4>2. CASE k = 1
        BY <3>2, <3>3, <4>2
      <4>3. CASE k # 1
        <5>1. k - 1 \in 1 .. Len(frames) /\ frames'[k] = frames[k - 1]
          BY <2>5, <3>3, <3>4, <4>3
        <5>2. Saved(memory, frames[k - 1])
          BY <2>3, <5>1
        <5> QED BY <2>4, <5>1, <5>2
      <4> QED BY <4>2, <4>3
    <3>6. \A k \in 2 .. Len(frames') : frames'[k - 1].fp = frames'[k].base
      BY <2>3, <2>5, <3>3, <3>4 DEF Frame
    <3>7. /\ frames' # << >>
          /\ state'.fp = frames'[1].base
          /\ frames'[Len(frames')] = frames[Len(frames)]
      BY <2>5, <3>1, <3>3, <3>4 DEF Frame
    <3> QED BY <2>3, <3>5, <3>6, <3>7 DEF CallStack
  <2>8. CASE HRet
    <3>1. frames' = Tail(frames)
      BY <2>3, <2>8 DEF HRet
    <3>2. /\ Len(frames') = Len(frames) - 1
          /\ \A k \in 1 .. Len(frames') : frames'[k] = frames[k + 1]
      BY <2>5, <3>1
    <3>3. /\ state'.fp = frames[1].fp
          /\ state'.pc = frames[1].pc
      <4>1. Saved(memory, frames[1])
        BY <2>3, <2>5
      <4>2. /\ Get(memory', SubM31(state.fp, 2)) = {frames[1].fp}
            /\ Get(memory', SubM31(state.fp, 1)) = {frames[1].pc}
        BY <2>3, <2>4, <4>1 DEF Saved
      <4> QED BY <2>8, <4>2, RetPops DEF HRet
    <3>4. \A k \in 1 .. Len(frames') : Saved(memory', frames'[k])
      <4>1. TAKE k \in 1 .. Len(frames')
      <4>2. frames'[k] = frames[k + 1] /\ k + 1 \in 1 .. Len(frames)
        BY <2>5, <3>2
      <4>3. Saved(memory, frames[k + 1])
        BY <2>3, <4>2
      <4> QED BY <2>4, <4>2, <4>3
    <3>5. \A k \in 2 .. Len(frames') : frames'[k - 1].fp = frames'[k].base
      BY <2>3, <2>5, <3>2
    <3>6. CASE Len(frames) = 1
      <4>1. frames' = << >> /\ Len(frames') = 0
        BY <2>5, <3>1, <3>2, <3>6
      <4>2. state'.fp = FinalFp /\ state'.pc = FinalPc
        BY <2>3, <3>3, <3>6
      <4> QED BY <4>1, <4>2 DEF CallStack
    <3>7. CASE Len(frames) > 1
      <4>1. frames' # << >> /\ Len(frames') > 0
        BY <2>5, <3>2, <3>7
      <4>2. frames'[1] = frames[2] /\ 2 \in 2 .. Len(frames)
        BY <2>5, <3>2, <3>7
      <4>3. state'.fp = frames'[1].base
        BY <2>3, <3>3, <4>2
      <4>4. frames'[Len(frames')] = frames[Len(frames)]
        BY <2>5, <3>2, <3>7
      <4> QED BY <2>3, <3>4, <3>5, <4>1, <4>3, <4>4 DEF CallStack
    <3>8. \A n \in Nat : n > 0 => n = 1 \/ n > 1
      BY SMT
    <3>9. Len(frames) \in Nat /\ Len(frames) > 0
      BY <2>5
    <3> QED BY <3>6, <3>7, <3>8, <3>9
  <2> QED BY <1>2, <2>6, <2>7, <2>8
<1> QED BY <1>1, <1>2 DEF HNext

-----------------------------------------------------------------------------
(* Calls and returns nest: the open frames are the ones whose saved        *)
(* registers lie below each other's bases in memory.                       *)
THEOREM CallsNest == HSpec => []CallStack
<1>1. HSpec => [](TypeOK /\ StackInExecution /\ FramesOK)
  BY HistoryOnlyWatches, TypeCorrect, StackCorrect, FramesType, PTL
<1>2. (TypeOK /\ StackInExecution /\ FramesOK) /\ CallStack /\ [HNext]_hvars => CallStack'
  BY CallStackStep
<1> QED BY <1>1, <1>2, CallStackInit, PTL DEF HSpec

(* `ret` goes back to the instruction after the call, in the caller's      *)
(* frame.                                                                  *)
THEOREM RetReturns == HSpec => ReturnsToCaller
<1>1. TypeOK /\ FramesOK /\ CallStack /\ [HNext]_hvars =>
        [Ret /\ ~overwritten' => /\ frames # << >>
                                 /\ state'.fp = frames[1].fp
                                 /\ state'.pc = frames[1].pc]_hvars
  <2> SUFFICES ASSUME TypeOK, FramesOK, CallStack, HNext, Ret, ~overwritten'
               PROVE  /\ frames # << >>
                      /\ state'.fp = frames[1].fp
                      /\ state'.pc = frames[1].pc
    OBVIOUS
  <2>1. status = "running" /\ status' = "running" /\ state.pc # FinalPc
    BY DEF Ret, Running
  <2>2. ~HEnd
    BY <2>1 DEF HEnd, Halt, Panic
  <2>3. ~overwritten /\ ~Changes(memory, memory')
    BY <2>2, NotOverwritten DEF HNext, HCall, HRet, HLocal, Observe, Step
  <2>4. frames # << >> /\ state.fp = frames[1].base
    BY <2>1, <2>3 DEF CallStack
  <2>5. 1 \in 1 .. Len(frames)
    BY <2>4 DEF FramesOK
  <2>6. Saved(memory', frames[1])
    BY <2>3, <2>5, SavedStays DEF CallStack
  <2> QED BY <2>4, <2>6, RetPops DEF Saved
<1>2. HSpec => [](TypeOK /\ FramesOK /\ CallStack)
  BY HistoryOnlyWatches, TypeCorrect, FramesType, CallsNest, PTL
<1> QED BY <1>1, <1>2, PTL DEF HSpec, ReturnsToCaller

(* A run that ends well has returned from main and from every call: fp is  *)
(* the final one then, and no frame has its base outside the stack.        *)
THEOREM HaltReturns == HSpec => []HaltsReturned
<1> DEFINE Ended == status = "halted" => state.fp = FinalFp
<1>1. HSpec => []Ended
  <2>1. HInit => Ended
    BY DEF HInit, Init
  <2>2. Ended /\ [HNext]_hvars => Ended'
    <3> SUFFICES ASSUME Ended, [HNext]_hvars PROVE Ended'
      OBVIOUS
    <3>1. CASE HEnd
      BY <3>1 DEF HEnd, Halt, Panic
    <3>2. CASE HCall \/ HRet \/ HLocal
      BY <3>2 DEF HCall, HRet, HLocal, Call, Ret, AddAp, Assert, Jmp, Jnz, Running
    <3>3. CASE UNCHANGED hvars
      BY <3>3 DEF hvars
    <3> QED BY <3>1, <3>2, <3>3 DEF HNext
  <2> QED BY <2>1, <2>2, PTL DEF HSpec
<1>2. Ended /\ FramesOK /\ CallStack => HaltsReturned
  <2> SUFFICES ASSUME Ended, FramesOK, CallStack, status = "halted", ~overwritten,
                      frames # << >>
               PROVE  FALSE
    BY DEF HaltsReturned
  <2>1. frames[1] \in Frames
    BY DEF FramesOK
  <2>2. FinalFp \in StackCells
    BY <2>1 DEF CallStack, Frames
  <2> QED BY <2>2 DEF StackCells, FinalFp, Rel, ExecutionSegment
<1> QED BY <1>1, <1>2, FramesType, CallsNest, PTL

-----------------------------------------------------------------------------
(* The read-only machine.                                                  *)

(* A step that overwrites nothing obeys the memory it leaves.              *)
LEMMA StepObeys ==
  ASSUME TypeOK, StackInExecution, Step, ~Overwrites
  PROVE  Extends(memory', memory) /\ Legal(memory', state, state')
<1> DEFINE Fetched(m, kind, i) == m \in HintedMemories /\ i \in Fetch(m, kind)
<1>1. ASSUME NEW m, NEW kind, NEW i, Fetched(m, kind, i)
      PROVE  /\ IsMemory(m) /\ IsInstruction(i) /\ i.op.kind = kind
             /\ Extends(m, memory) /\ Extends(memory', m)
             /\ Obeys(memory', state, state', i) => Legal(memory', state, state')
  <2>1. IsMemory(m) /\ Extends(m, memory) /\ Extends(memory', m)
    BY <1>1, NotOverwritten, HintedMemoriesIs
  <2>2. IsInstruction(i) /\ i.op.kind = kind
    BY <1>1, <2>1, FetchType DEF Fetch
  <2>3. PICK w \in Get(m, state.pc) : i \in Decode(w)
    BY <1>1 DEF Fetch
  <2>4. w \in Get(memory', state.pc)
    BY <2>1, <2>3, GetGrows
  <2> QED BY <2>1, <2>2, <2>3, <2>4 DEF Legal
<1>2. state \in Registers
  BY DEF TypeOK
<1>3. Extends(memory', memory)
  <2>1. ~Changes(memory, memory')
    BY NotOverwritten
  <2> QED BY <2>1 DEF Changes, Extends
<1>4. CASE AddAp
  <2>1. PICK m, i : /\ Fetched(m, "addap", i)
                    /\ memory' = m /\ state' \in AddApStates(m, state, i)
    BY <1>4 DEF AddAp
  <2>2. Obeys(memory', state, state', i)
    BY <1>1, <2>1 DEF Obeys
  <2> QED BY <1>1, <1>3, <2>1, <2>2
<1>5. CASE Assert
  <2>1. PICK m, i : /\ Fetched(m, "assert", i)
                    /\ memory' \in AssertMemories(m, state, i)
                    /\ state' = Advance(state, i.op.appp)
    BY <1>5 DEF Assert
  <2>2. Asserted(memory', state, i)
    BY <1>1, <1>2, <2>1, AssertHolds
  <2>3. Obeys(memory', state, state', i)
    BY <1>1, <2>1, <2>2 DEF Obeys
  <2> QED BY <1>1, <1>3, <2>1, <2>3
<1>6. CASE Call
  <2>1. PICK m, i : /\ Fetched(m, "call", i)
                    /\ memory' \in PushReturn(m, state)
                    /\ state' \in CallStates(memory', state, i)
    BY <1>6 DEF Call
  <2>2. memory' = Put(Put(m, state.ap, state.fp), AddM31(state.ap, 1), AddM31(state.pc, 1))
    BY <1>1, <1>2, <2>1, PushReturnIs
  <2>3. AddM31(state.ap, 1) # state.ap
    BY <1>2, FrameCells DEF Registers, StackInExecution
  <2>4. Pushed(memory', state)
    BY <2>2, <2>3, PutGet DEF Pushed
  <2>5. Obeys(memory', state, state', i)
    BY <1>1, <2>1, <2>4 DEF Obeys
  <2> QED BY <1>1, <1>3, <2>1, <2>5
<1>7. CASE Jmp
  <2>1. PICK m, i : /\ Fetched(m, "jmp", i)
                    /\ memory' = m /\ state' \in JumpStates(m, state, i)
    BY <1>7 DEF Jmp
  <2>2. Obeys(memory', state, state', i)
    BY <1>1, <2>1 DEF Obeys
  <2> QED BY <1>1, <1>3, <2>1, <2>2
<1>8. CASE Jnz
  <2>1. PICK m, i : /\ Fetched(m, "jnz", i)
                    /\ memory' = m /\ state' \in JnzStates(m, state, i)
    BY <1>8 DEF Jnz
  <2>2. Obeys(memory', state, state', i)
    BY <1>1, <2>1 DEF Obeys
  <2> QED BY <1>1, <1>3, <2>1, <2>2
<1>9. CASE Ret
  <2>1. PICK m, i : /\ Fetched(m, "ret", i)
                    /\ memory' = m /\ state' \in RetStates(m, state)
    BY <1>9 DEF Ret
  <2>2. Obeys(memory', state, state', i)
    BY <1>1, <2>1 DEF Obeys
  <2> QED BY <1>1, <1>3, <2>1, <2>2
<1> QED BY <1>4, <1>5, <1>6, <1>7, <1>8, <1>9 DEF Step

(* A call obeys the memory that it leaves, even where it overwrote what    *)
(* was there (CallsObey): the instruction is still at pc, the two cells    *)
(* are pushed, and the operand was read from both.                         *)
THEOREM CallsAlwaysObey == HSpec => CallsObey
<1>1. TypeOK /\ StackInExecution /\ [HNext]_hvars =>
        [Call /\ state.pc \notin {state.ap, AddM31(state.ap, 1)}
           => Legal(memory', state, state')]_hvars
  <2> SUFFICES ASSUME TypeOK, StackInExecution, Call,
                      state.pc \notin {state.ap, AddM31(state.ap, 1)}
               PROVE  Legal(memory', state, state')
    OBVIOUS
  <2>1. state \in Registers
    BY DEF TypeOK
  <2>2. PICK m, i :
          /\ m \in HintedMemories
          /\ i \in Fetch(m, "call")
          /\ memory' \in PushReturn(m, state)
          /\ state' \in CallStates(memory', state, i)
    BY DEF Call
  <2>3. PICK w \in Get(m, state.pc) : i \in Decode(w)
    BY <2>2 DEF Fetch
  <2>4. memory' = Put(Put(m, state.ap, state.fp), AddM31(state.ap, 1), AddM31(state.pc, 1))
    BY <2>1, <2>2, HintedMemoriesIs, PushReturnIs
  <2>5. AddM31(state.ap, 1) # state.ap
    BY <2>1, FrameCells DEF Registers, StackInExecution
  <2>6. Pushed(memory', state)
    BY <2>4, <2>5, PutGet DEF Pushed
  <2>7. w \in Get(memory', state.pc)
    BY <2>3, <2>4, PutGet
  <2>8. Obeys(memory', state, state', i)
    BY <2>2, <2>6 DEF Obeys, Fetch
  <2> QED BY <2>3, <2>7, <2>8 DEF Legal
<1>2. HSpec => [](TypeOK /\ StackInExecution)
  BY HistoryOnlyWatches, TypeCorrect, StackCorrect, PTL
<1> QED BY <1>1, <1>2, PTL DEF HSpec, CallsObey

(* The machine takes a step, and the history one entry.                    *)
LEMMA StepHistory ==
  ASSUME HCall \/ HRet \/ HLocal
  PROVE  /\ Step
         /\ overwritten' = (overwritten \/ Overwrites)
         /\ trace' = Append(trace, state)
         /\ state.pc # FinalPc /\ status = "running"
  BY DEF HCall, HRet, HLocal, Observe, Step, AddAp, Assert, Call, Jmp, Jnz, Ret, Running

(* Until a known cell is overwritten the machine implements the read-only  *)
(* one: what the instructions of vm/*.rs deduce satisfies them as          *)
(* equations.                                                              *)
THEOREM ImplementsReadOnly == HSpec => ReadOnly
<1>1. HInit => Abstract!AInit
  BY ProgramsAssumption DEF HInit, Init, Abstract!AInit
<1>2. TypeOK /\ StackInExecution /\ [HNext]_hvars
        => [Abstract!AStep \/ Abstract!AEnd \/ Abstract!ABreak]_(Abstract!avars)
  <2> SUFFICES ASSUME TypeOK, StackInExecution, [HNext]_hvars
               PROVE  \/ Abstract!AStep \/ Abstract!AEnd \/ Abstract!ABreak
                      \/ UNCHANGED Abstract!avars
    OBVIOUS
  <2>1. CASE HCall \/ HRet \/ HLocal
    <3>1. CASE overwritten'
      BY <3>1 DEF Abstract!ABreak
    <3>2. CASE ~overwritten'
      <4>1. Step /\ ~overwritten /\ ~Overwrites
        BY <2>1, <3>2, StepHistory
      <4>2. Extends(memory', memory) /\ Legal(memory', state, state')
        BY <4>1, StepObeys
      <4>3. UNCHANGED <<program, status>>
        BY <4>1, StepFrame
      <4> QED BY <2>1, <3>2, <4>1, <4>2, <4>3, StepHistory DEF Abstract!AStep, Extends
    <3> QED BY <3>1, <3>2
  <2>2. CASE HEnd /\ Halt
    BY <2>2 DEF HEnd, Halt, Abstract!AEnd, Abstract!ABreak
  <2>3. CASE HEnd /\ Panic
    BY <2>3 DEF HEnd, Panic, Abstract!avars
  <2>4. CASE UNCHANGED hvars
    BY <2>4 DEF hvars, Abstract!avars
  <2> QED BY <2>1, <2>2, <2>3, <2>4 DEF HNext, HEnd
<1>3. HSpec => [](TypeOK /\ StackInExecution)
  BY HistoryOnlyWatches, TypeCorrect, StackCorrect, PTL
<1> QED BY <1>1, <1>2, <1>3, PTL DEF HSpec, ReadOnly, Abstract!ASpec

(* Every step of a run obeys the memory the run has so far, so that of a   *)
(* finished run obeys the memory it leaves: memories only grow, and what a *)
(* memory says a larger one says too.                                      *)
THEOREM ReplayHolds == HSpec => []Replay
<1> DEFINE After(k) == IF k < Len(trace) THEN trace[k + 1] ELSE state
           Typed == trace \in Seq(Registers)
<1>1. HInit => Replay /\ Typed
  BY DEF HInit, Replay
<1>2. TypeOK /\ StackInExecution /\ Typed /\ Replay /\ [HNext]_hvars => (Replay /\ Typed)'
  <2> SUFFICES ASSUME TypeOK, StackInExecution, Typed, Replay, [HNext]_hvars
               PROVE  Replay' /\ Typed'
    OBVIOUS
  <2>1. CASE HEnd \/ UNCHANGED hvars
    <3>1. UNCHANGED <<memory, state, trace, overwritten>>
      BY <2>1, EndFrame DEF HEnd, hvars
    <3> QED BY <3>1 DEF Replay
  <2>2. CASE HCall \/ HRet \/ HLocal
    <3>1. Step /\ trace' = Append(trace, state) /\ state \in Registers
      BY <2>2, StepHistory DEF TypeOK
    <3>2. /\ Typed' /\ Len(trace) \in Nat /\ Len(trace') = Len(trace) + 1
          /\ \A k \in 1 .. Len(trace) : trace'[k] = trace[k]
          /\ trace'[Len(trace')] = state
      BY <3>1
    <3>3. ASSUME ~overwritten', NEW k \in 1 .. Len(trace')
          PROVE  Legal(memory', trace'[k],
                       IF k < Len(trace') THEN trace'[k + 1] ELSE state')
      <4>1. ~overwritten /\ ~Overwrites
        BY <2>2, <3>3, StepHistory
      <4>2. Extends(memory', memory) /\ Legal(memory', state, state')
        BY <3>1, <4>1, StepObeys
      <4>3. CASE k = Len(trace')
        BY <3>2, <4>2, <4>3
      <4>4. CASE k # Len(trace')
        <5>1. k \in 1 .. Len(trace) /\ k < Len(trace') /\ trace'[k] = trace[k]
          BY <3>2, <4>4
        <5>2. trace'[k + 1] = After(k)
          BY <3>2, <5>1
        <5>3. Legal(memory, trace[k], After(k))
          BY <4>1, <5>1 DEF Replay
        <5>4. Legal(memory', trace[k], After(k))
          BY <4>2, <5>3, LegalGrows
        <5> QED BY <5>1, <5>2, <5>4
      <4> QED BY <4>3, <4>4
    <3> QED BY <3>2, <3>3 DEF Replay
  <2> QED BY <2>1, <2>2 DEF HNext
<1>3. HSpec => [](TypeOK /\ StackInExecution)
  BY HistoryOnlyWatches, TypeCorrect, StackCorrect, PTL
<1>4. HSpec => [](Replay /\ Typed)
  BY <1>1, <1>2, <1>3, PTL DEF HSpec
<1> QED BY <1>4, PTL

-----------------------------------------------------------------------------
(* The same, relocated.                                                    *)

(* The stack has begun: whatever moves the memory moves its segment.       *)
Based == Rel(ExecutionSegment, 0) \in DOMAIN memory

Traced == trace \in Seq({s \in Registers : s.ap.segment = ExecutionSegment})

LEMMA StackIsBased == HSpec => [](Based /\ Traced)
<1>1. HInit => Based /\ Traced
  BY DEF HInit, Init, LoadedMemory, MainFrame, Based, Traced
<1>2. TypeOK /\ StackInExecution /\ Based /\ Traced /\ [HNext]_hvars => (Based /\ Traced)'
  <2> SUFFICES ASSUME TypeOK, StackInExecution, Based, Traced, [HNext]_hvars
               PROVE  Based' /\ Traced'
    OBVIOUS
  <2>1. [Next]_vars
    BY DEF HNext, HCall, HRet, HLocal, HEnd, Next, Step, hvars, vars
  <2>2. Based'
    BY <2>1, StepWritesOnce DEF Based
  <2>3. CASE HEnd \/ UNCHANGED hvars
    BY <2>2, <2>3 DEF HEnd, hvars, Traced
  <2>4. CASE HCall \/ HRet \/ HLocal
    <3>1. trace' = Append(trace, state)
      BY <2>4, StepHistory
    <3>2. state \in {s \in Registers : s.ap.segment = ExecutionSegment}
      BY DEF TypeOK, StackInExecution
    <3> QED BY <2>2, <3>1, <3>2 DEF Traced
  <2> QED BY <2>3, <2>4 DEF HNext
<1>3. HSpec => [](TypeOK /\ StackInExecution)
  BY HistoryOnlyWatches, TypeCorrect, StackCorrect, PTL
<1> QED BY <1>1, <1>2, <1>3, PTL DEF HSpec

(* A finished run checks wherever Memory::relocate puts it, if the table   *)
(* separates its cells: the relocated memory is the image of the memory,   *)
(* it covers every segment ap points into, and what a memory allows its    *)
(* image allows of the registers' images.                                  *)
THEOREM RelocatedReplayHolds == HSpec => []RelocatedReplay
<1>1. TypeOK /\ Based /\ Traced /\ Replay => RelocatedReplay
  <2> SUFFICES ASSUME TypeOK, Based, Traced, Replay, ~overwritten,
                      NEW table \in Tables, NEW m \in Relocated(memory, table),
                      Separates(table, memory), NEW k \in 1 .. Len(trace)
               PROVE  Legal(m, RelocatedRegisters(trace[k], table),
                            RelocatedRegisters(IF k < Len(trace) THEN trace[k + 1]
                                               ELSE state, table))
    BY DEF RelocatedReplay
  <2> DEFINE after == IF k < Len(trace) THEN trace[k + 1] ELSE state
  <2>1. Images(memory, m, table)
    BY TablesAssumption, RelocatedImages DEF TypeOK
  <2>2. trace[k] \in Registers /\ trace[k].ap.segment = ExecutionSegment
    BY DEF Traced
  <2>3. ExecutionSegment \in DOMAIN table
    <3>1. Covered(Rel(ExecutionSegment, 0), table)
      BY <2>1 DEF Images, Based
    <3> QED BY <3>1 DEF Covered, Rel, IsRel
  <2>4. Covered(trace[k].ap, table)
    BY <2>2, <2>3 DEF Covered
  <2>5. Legal(memory, trace[k], after)
    BY DEF Replay
  <2> HIDE DEF after
  <2>6. Legal(m, RelocatedRegisters(trace[k], table), RelocatedRegisters(after, table))
    BY <2>1, <2>2, <2>4, <2>5, LegalMoves
  <2> QED BY <2>6 DEF after
<1>2. HSpec => []TypeOK
  BY HistoryOnlyWatches, TypeCorrect, PTL
<1> QED BY <1>1, <1>2, StackIsBased, ReplayHolds, PTL

-----------------------------------------------------------------------------
(* The assumption under which all of this is proved, met by what is read   *)
(* from a file.                                                            *)

LEMMA ReducedIsElement ==
  ASSUME NEW x, Reduced(x)
  PROVE  QM31FromHexStrArray(x) \subseteq QM31
<1>1. \A k \in 1 .. 4 : M31FromHexStr(x[k]) \subseteq M31
  BY DEF Reduced, M31FromHexStr
<1>2. /\ M31FromHexStr(x[1]) \subseteq M31 /\ M31FromHexStr(x[2]) \subseteq M31
      /\ M31FromHexStr(x[3]) \subseteq M31 /\ M31FromHexStr(x[4]) \subseteq M31
  BY <1>1
<1> QED BY <1>2 DEF QM31FromHexStrArray, Encode, QM31, CM31

(* A file with reduced words, read with such an input, is a program as the *)
(* machine expects it (IsProgram): the conversions keep their words, and   *)
(* no hint is at an offset that no pc can have.                            *)
THEOREM LoadedIsProgram ==
  ASSUME NEW f, Canonical(f), NEW indices, \A x \in indices : Reduced(x),
         NEW p \in TryFrom(f, indices)
  PROVE  IsProgram(p)
<1>1. PICK c \in ParsedCodes(f), h \in ParsedHints(f) :
        p = [code |-> c, hints |-> h,
             input |-> UNION {QM31FromHexStrArray(x) : x \in indices}]
  BY DEF TryFrom
<1> DEFINE word(k) == CHOOSE q \in QM31FromHexStrArray(f.data[k]) : TRUE
<1>2. /\ \A k \in DOMAIN f.data : QM31FromHexStrArray(f.data[k]) # {}
      /\ c = [k \in DOMAIN f.data |-> word(k)]
  BY DEF ParsedCodes
<1>3. \A k \in DOMAIN f.data : word(k) \in QM31
  BY <1>2, ReducedIsElement DEF Canonical
<1>4. DOMAIN f.data = 1 .. Len(f.data) /\ Len(f.data) \in Nat
  BY DEF Canonical, IsFile
<1> HIDE DEF word
<1>5. c \in Seq(QM31) /\ Len(c) = Len(f.data)
  BY <1>2, <1>3, <1>4
<1>6. h \subseteq M31
  BY DEF ParsedHints, Canonical
<1>7. UNION {QM31FromHexStrArray(x) : x \in indices} \subseteq QM31
  BY ReducedIsElement
<1>8. p.code = c /\ p.hints = h
      /\ p.input = UNION {QM31FromHexStrArray(x) : x \in indices}
  BY <1>1
<1> QED BY <1>5, <1>6, <1>7, <1>8 DEF IsProgram, Canonical
=============================================================================
