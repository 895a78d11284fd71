---------------------------- MODULE FieldsProofs ----------------------------
(***************************************************************************)
(* Closure of the field operations, and the laws the deductions of the     *)
(* machine rest on: subtracting undoes adding, and what a product is       *)
(* divided by can be multiplied back, on either side.                      *)
(***************************************************************************)
EXTENDS Fields, WellFoundedInduction, TLAPS

(* A set of naturals has a least element, which is what the proofs use     *)
(* where one would go by induction: they take the least counterexample.    *)
LEMMA LeastNat ==
  ASSUME NEW T, T \subseteq Nat, T # {}
  PROVE  \E x \in T : \A y \in T : x <= y
<1>1. PICK x \in T : \A y \in T : <<y, x>> \notin OpToRel(<, Nat)
  BY NatLessThanWellFounded, WFMin
<1>2. ASSUME NEW y \in T
      PROVE  x <= y
  <2>1. OpToRel(<, Nat) = {ss \in Nat \X Nat : ss[1] < ss[2]}
    BY DEF OpToRel
  <2>2. <<y, x>> \in Nat \X Nat /\ ~ (y < x)
    BY <1>1, <2>1
  <2> QED BY <2>2
<1> QED BY <1>2

LEMMA SameElements ==
  ASSUME NEW A, NEW B, \A x : x \in A <=> x \in B
  PROVE  A = B
BY Zenon

(* x % P is an element of the base field.                                  *)
LEMMA ModType == ASSUME NEW n \in Int PROVE n % P \in M31
  BY PAssumption, SMT DEF M31

LEMMA MType ==
  ASSUME NEW x \in M31, NEW y \in M31
  PROVE  /\ MAdd(x, y) \in M31
         /\ MSub(x, y) \in M31
         /\ MMul(x, y) \in M31
         /\ MNeg(x) \in M31
<1>1. MAdd(x, y) \in M31 /\ MSub(x, y) \in M31 /\ MNeg(x) \in M31
  BY PAssumption, SMT DEF M31, MAdd, MSub, MNeg, PartialReduce
<1>2. x * y \in Int
  BY PAssumption, SMT DEF M31
<1>3. MMul(x, y) \in M31
  BY <1>2, ModType DEF MMul
<1> QED BY <1>1, <1>3

(* Subtraction undoes addition and addition subtraction.                   *)
LEMMA MAddSub ==
  ASSUME NEW x \in M31, NEW y \in M31
  PROVE  /\ MAdd(MSub(x, y), y) = x
         /\ MSub(MAdd(x, y), y) = x
         /\ MAdd(x, y) = MAdd(y, x)
  BY PAssumption, SMT DEF M31, MAdd, MSub, PartialReduce

LEMMA CType ==
  ASSUME NEW x \in CM31, NEW y \in CM31
  PROVE  /\ CAdd(x, y) \in CM31
         /\ CSub(x, y) \in CM31
         /\ CMul(x, y) \in CM31
<1>1. x[1] \in M31 /\ x[2] \in M31 /\ y[1] \in M31 /\ y[2] \in M31
  BY DEF CM31
<1> QED BY <1>1, MType DEF CM31, CAdd, CSub, CMul

LEMMA ConstantsType == /\ 0 \in M31 /\ 1 \in M31 /\ 2 \in M31 /\ 3 \in M31
                       /\ CZero \in CM31 /\ R \in CM31 /\ QZero \in QM31
  BY PAssumption, SMT DEF M31, CM31, QM31, CZero, R, QZero

LEMMA CInverseType ==
  ASSUME NEW x \in CM31, NEW n \in CInverse(x) PROVE n \in CM31
<1>1. PICK k \in MInverse(MAdd(MMul(x[1], x[1]), MMul(x[2], x[2]))) :
        n = CMul(<<x[1], MNeg(x[2])>>, <<k, 0>>)
  BY DEF CInverse
<1>2. k \in M31
  BY <1>1 DEF MInverse
<1>3. <<x[1], MNeg(x[2])>> \in CM31 /\ <<k, 0>> \in CM31
  BY <1>2, MType, ConstantsType DEF CM31
<1> QED BY <1>1, <1>3, CType

LEMMA QType ==
  ASSUME NEW x \in QM31, NEW y \in QM31
  PROVE  /\ QAdd(x, y) \in QM31
         /\ QSub(x, y) \in QM31
         /\ QMul(x, y) \in QM31
         /\ QDiv(x, y) \subseteq QM31
<1>1. x[1] \in CM31 /\ x[2] \in CM31 /\ y[1] \in CM31 /\ y[2] \in CM31
  BY DEF QM31
<1>2. QAdd(x, y) \in QM31 /\ QSub(x, y) \in QM31
  BY <1>1, CType DEF QM31, QAdd, QSub
<1>3. ASSUME NEW u \in QM31, NEW v \in QM31 PROVE QMul(u, v) \in QM31
  <2>1. u[1] \in CM31 /\ u[2] \in CM31 /\ v[1] \in CM31 /\ v[2] \in CM31
    BY DEF QM31
  <2>2. /\ CMul(u[1], v[1]) \in CM31 /\ CMul(u[2], v[2]) \in CM31
        /\ CMul(u[1], v[2]) \in CM31 /\ CMul(u[2], v[1]) \in CM31
    BY <2>1, CType
  <2>3. CMul(R, CMul(u[2], v[2])) \in CM31
    BY <2>2, CType, ConstantsType
  <2> QED BY <2>2, <2>3, CType DEF QM31, QMul
<1>4. ASSUME NEW n \in QInverse(y) PROVE n \in QM31
  <2>1. PICK k \in CInverse(CSub(CMul(y[1], y[1]), CMul(R, CMul(y[2], y[2])))) :
          n = QMul(<<y[1], CSub(CZero, y[2])>>, <<k, CZero>>)
    BY DEF QInverse
  <2>2. CMul(y[1], y[1]) \in CM31 /\ CMul(R, CMul(y[2], y[2])) \in CM31
    BY <1>1, CType, ConstantsType
  <2>3. k \in CM31
    BY <2>1, <2>2, CType, CInverseType
  <2>4. <<y[1], CSub(CZero, y[2])>> \in QM31 /\ <<k, CZero>> \in QM31
    BY <1>1, <2>3, CType, ConstantsType DEF QM31
  <2> QED BY <2>1, <2>4, <1>3
<1>5. QDiv(x, y) \subseteq QM31
  BY <1>3, <1>4 DEF QDiv
<1> QED BY <1>2, <1>3, <1>5

(* What is deduced for a sum is right.                                     *)
LEMMA QAddSub ==
  ASSUME NEW x \in QM31, NEW y \in QM31
  PROVE  /\ QAdd(QSub(x, y), y) = x
         /\ QAdd(x, y) = QAdd(y, x)
<1>1. ASSUME NEW u \in CM31, NEW v \in CM31
      PROVE  CAdd(CSub(u, v), v) = u /\ CAdd(u, v) = CAdd(v, u)
  <2>1. u[1] \in M31 /\ u[2] \in M31 /\ v[1] \in M31 /\ v[2] \in M31 /\ u = <<u[1], u[2]>>
    BY DEF CM31
  <2> QED BY <2>1, MAddSub DEF CAdd, CSub
<1>2. /\ x[1] \in CM31 /\ x[2] \in CM31 /\ y[1] \in CM31 /\ y[2] \in CM31
      /\ x = <<x[1], x[2]>>
  BY DEF QM31
<1> QED BY <1>1, <1>2 DEF QAdd, QSub

LEMMA FeltType == ASSUME NEW m \in M31
                  PROVE  /\ Felt(m) \in BaseField
                         /\ Felt(m) \in QM31
  BY ConstantsType DEF Felt, BaseField, QM31, CM31, CZero

(* The base field is closed under what moves an absolute address.          *)
LEMMA BaseFieldMoves ==
  ASSUME NEW q \in BaseField, NEW m \in M31
  PROVE  QAdd(q, Felt(m)) \in BaseField /\ QSub(q, Felt(m)) \in BaseField
<1>1. /\ q \in QM31 /\ q[1] \in CM31 /\ q[1][1] \in M31
      /\ q[1][2] = 0 /\ q[2] = CZero
  BY DEF BaseField, QM31, CM31
<1>2. MAdd(0, 0) = 0 /\ MSub(0, 0) = 0
  BY PAssumption, SMT DEF MAdd, MSub, PartialReduce
<1>3. QAdd(q, Felt(m)) \in QM31 /\ QSub(q, Felt(m)) \in QM31
  BY <1>1, QType, FeltType
<1> QED BY <1>1, <1>2, <1>3 DEF BaseField, QAdd, QSub, CAdd, CSub, Felt, CZero

-----------------------------------------------------------------------------
(* Multiplication.  The operations of each field are those of the integers *)
(* (pairs of them, quadruples of them) up to multiples of P, so that the   *)
(* laws of a product are polynomial identities over the integers.          *)

(* The element an integer stands for.                                      *)
Res(n) == n % P

(* Adding multiples of P changes nothing.                                  *)
LEMMA SameResidue ==
  ASSUME NEW x \in Int, NEW y \in M31, NEW k \in Int, x = y + k * P
  PROVE  x % P = y
<1>1. P \in Nat /\ P > 3 /\ y \in Nat /\ y < P
  BY PAssumption DEF M31
<1> DEFINE q == x \div P
           r == x % P
<1>2. q \in Int /\ r \in Int /\ 0 <= r /\ r < P /\ x = P * q + r
  BY <1>1, SMT
<1> HIDE DEF q, r
<1>3. (q - k) * P = y - r
  BY <1>1, <1>2, SMT
<1>4. CASE q = k
  BY <1>1, <1>2, <1>4, SMT DEF r
<1>5. CASE q > k
  <2>1. (q - k) * P >= P
    BY <1>1, <1>2, <1>5, SMT
  <2> QED BY <1>1, <1>2, <1>3, <2>1, SMT
<1>6. CASE q < k
  <2>1. (q - k) * P <= 0 - P
    BY <1>1, <1>2, <1>6, SMT
  <2> QED BY <1>1, <1>2, <1>3, <2>1, SMT
<1> QED BY <1>2, <1>4, <1>5, <1>6, SMT

LEMMA Reduces ==
  ASSUME NEW y \in M31, NEW k \in Int
  PROVE  Res(y + k * P) = y
<1>1. y + k * P \in Int
  BY PAssumption DEF M31
<1> QED BY <1>1, SameResidue DEF Res

LEMMA ResidueOf ==
  ASSUME NEW n \in Int
  PROVE  /\ Res(n) \in M31
         /\ \E k \in Int : n = Res(n) + k * P
<1>1. Res(n) \in M31
  BY ModType DEF Res
<1>2. n \div P \in Int /\ n = P * (n \div P) + (n % P)
  BY PAssumption, SMT
<1>3. n = Res(n) + (n \div P) * P
  BY <1>1, <1>2, PAssumption, SMT DEF Res, M31
<1> QED BY <1>1, <1>2, <1>3

(* The base field computes up to multiples of P.                           *)
LEMMA ShiftedSum ==
  ASSUME NEW x \in M31, NEW y \in M31, NEW k \in Int, NEW l \in Int
  PROVE  /\ MAdd(x, y) = Res((x + k * P) + (y + l * P))
         /\ MSub(x, y) = Res((x + k * P) - (y + l * P))
         /\ MMul(x, y) = Res((x + k * P) * (y + l * P))
<1>1. x \in Nat /\ y \in Nat /\ x < P /\ y < P /\ P \in Nat
  BY PAssumption DEF M31
<1>2. MAdd(x, y) \in M31 /\ MSub(x, y) \in M31 /\ MMul(x, y) \in M31
  BY MType
<1>3. /\ x + k * P \in Int /\ y + l * P \in Int
      /\ (x + k * P) + (y + l * P) \in Int
      /\ (x + k * P) - (y + l * P) \in Int
      /\ (x + k * P) * (y + l * P) \in Int
  BY <1>1
<1>4. MAdd(x, y) = Res((x + k * P) + (y + l * P))
  <2>1. CASE x + y >= P
    <3>1. (x + k * P) + (y + l * P) = MAdd(x, y) + (k + l + 1) * P
      BY <1>1, <2>1, SMT DEF MAdd, PartialReduce
    <3>2. Res(MAdd(x, y) + (k + l + 1) * P) = MAdd(x, y)
      BY <1>2, Reduces
    <3> QED BY <3>1, <3>2
  <2>2. CASE ~ (x + y >= P)
    <3>1. (x + k * P) + (y + l * P) = MAdd(x, y) + (k + l) * P
      BY <1>1, <2>2, SMT DEF MAdd, PartialReduce
    <3>2. Res(MAdd(x, y) + (k + l) * P) = MAdd(x, y)
      BY <1>2, Reduces
    <3> QED BY <3>1, <3>2
  <2> QED BY <2>1, <2>2
<1>5. MSub(x, y) = Res((x + k * P) - (y + l * P))
  <2>1. CASE x + P - y >= P
    <3>1. (x + k * P) - (y + l * P) = MSub(x, y) + (k - l) * P
      BY <1>1, <2>1, SMT DEF MSub, PartialReduce
    <3>2. Res(MSub(x, y) + (k - l) * P) = MSub(x, y)
      BY <1>2, Reduces
    <3> QED BY <3>1, <3>2
  <2>2. CASE ~ (x + P - y >= P)
    <3>1. (x + k * P) - (y + l * P) = MSub(x, y) + (k - l - 1) * P
      BY <1>1, <2>2, SMT DEF MSub, PartialReduce
    <3>2. Res(MSub(x, y) + (k - l - 1) * P) = MSub(x, y)
      BY <1>2, Reduces
    <3> QED BY <3>1, <3>2
  <2> QED BY <2>1, <2>2
<1>6. MMul(x, y) = Res((x + k * P) * (y + l * P))
  <2>1. x * y \in Int /\ MMul(x, y) = Res(x * y)
    BY <1>1 DEF MMul, Res
  <2>2. PICK j \in Int : x * y = MMul(x, y) + j * P
    BY <2>1, ResidueOf
  <2>3. j + x * l + k * y + k * l * P \in Int
    BY <1>1
  <2>4. (x + k * P) * (y + l * P) = x * y + (x * l + k * y + k * l * P) * P
    BY <1>1, SMT
  <2>5. MMul(x, y) \in Int
    BY <1>2, PAssumption DEF M31
  <2>6. (x + k * P) * (y + l * P) = MMul(x, y) + (j + x * l + k * y + k * l * P) * P
    BY <1>1, <2>1, <2>2, <2>4, <2>5, SMT
  <2>7. Res(MMul(x, y) + (j + x * l + k * y + k * l * P) * P) = MMul(x, y)
    BY <1>2, <2>3, Reduces
  <2> QED BY <2>6, <2>7
<1> QED BY <1>4, <1>5, <1>6

LEMMA Residues ==
  ASSUME NEW a \in Int, NEW b \in Int
  PROVE  /\ MAdd(Res(a), Res(b)) = Res(a + b)
         /\ MSub(Res(a), Res(b)) = Res(a - b)
         /\ MMul(Res(a), Res(b)) = Res(a * b)
<1>1. Res(a) \in M31 /\ Res(b) \in M31
  BY ResidueOf
<1>2. PICK k \in Int : a = Res(a) + k * P
  BY ResidueOf
<1>3. PICK l \in Int : b = Res(b) + l * P
  BY ResidueOf
<1> QED BY <1>1, <1>2, <1>3, ShiftedSum

(* Pairs of residues, and pairs of those.                                  *)
CRes(a, b) == <<Res(a), Res(b)>>

LEMMA CResidues ==
  ASSUME NEW a \in Int, NEW b \in Int, NEW c \in Int, NEW d \in Int
  PROVE  /\ CAdd(CRes(a, b), CRes(c, d)) = CRes(a + c, b + d)
         /\ CSub(CRes(a, b), CRes(c, d)) = CRes(a - c, b - d)
         /\ CMul(CRes(a, b), CRes(c, d)) = CRes(a * c - b * d, a * d + b * c)
<1>1. a * c \in Int /\ b * d \in Int /\ a * d \in Int /\ b * c \in Int
  OBVIOUS
<1>2. /\ MMul(Res(a), Res(c)) = Res(a * c) /\ MMul(Res(b), Res(d)) = Res(b * d)
      /\ MMul(Res(a), Res(d)) = Res(a * d) /\ MMul(Res(b), Res(c)) = Res(b * c)
  BY Residues
<1>3. /\ MSub(Res(a * c), Res(b * d)) = Res(a * c - b * d)
      /\ MAdd(Res(a * d), Res(b * c)) = Res(a * d + b * c)
  BY <1>1, Residues
<1>4. CMul(CRes(a, b), CRes(c, d)) = CRes(a * c - b * d, a * d + b * c)
  BY <1>2, <1>3 DEF CMul, CRes
<1> QED BY <1>4, Residues DEF CAdd, CSub, CRes

LEMMA ElementsAreResidues ==
  /\ \A x \in M31 : x \in Int /\ Res(x) = x
  /\ \A x \in CM31 : x[1] \in Int /\ x[2] \in Int /\ x = CRes(x[1], x[2])
<1>1. ASSUME NEW x \in M31 PROVE x \in Int /\ Res(x) = x
  <2>1. x \in Int /\ x = x + 0 * P
    BY PAssumption DEF M31
  <2> QED BY <2>1, SameResidue DEF Res
<1>2. ASSUME NEW x \in CM31
      PROVE  x[1] \in Int /\ x[2] \in Int /\ x = CRes(x[1], x[2])
  BY <1>1 DEF CM31, CRes
<1> QED BY <1>1, <1>2

LEMMA RIsResidue == R = CRes(2, 1)
  BY ConstantsType, ElementsAreResidues DEF R, CRes

(* The same for QM31: the product of integer quadruples, and what an       *)
(* element is the residue of.                                              *)
Quads == Int \X Int \X Int \X Int

ZMul(x, y) ==
  <<x[1] * y[1] - x[2] * y[2] + (2 * (x[3] * y[3] - x[4] * y[4]) - (x[3] * y[4] + x[4] * y[3])),
    x[1] * y[2] + x[2] * y[1] + (2 * (x[3] * y[4] + x[4] * y[3]) + (x[3] * y[3] - x[4] * y[4])),
    x[1] * y[3] - x[2] * y[4] + (x[3] * y[1] - x[4] * y[2]),
    x[1] * y[4] + x[2] * y[3] + (x[3] * y[2] + x[4] * y[1])>>

QRes(x) == <<CRes(x[1], x[2]), CRes(x[3], x[4])>>
Flat(q) == <<q[1][1], q[1][2], q[2][1], q[2][2]>>

LEMMA FlatIs == ASSUME NEW q \in QM31 PROVE Flat(q) \in Quads /\ QRes(Flat(q)) = q
<1>1. q[1] \in CM31 /\ q[2] \in CM31 /\ q = <<q[1], q[2]>>
  BY DEF QM31
<1>2. /\ q[1][1] \in Int /\ q[1][2] \in Int /\ q[1] = CRes(q[1][1], q[1][2])
      /\ q[2][1] \in Int /\ q[2][2] \in Int /\ q[2] = CRes(q[2][1], q[2][2])
  BY <1>1, ElementsAreResidues
<1> QED BY <1>1, <1>2 DEF Flat, Quads, QRes

LEMMA QResidues ==
  ASSUME NEW x \in Quads, NEW y \in Quads
  PROVE  /\ ZMul(x, y) \in Quads
         /\ QMul(QRes(x), QRes(y)) = QRes(ZMul(x, y))
<1> DEFINE a == x[1]  b == x[2]  c == x[3]  d == x[4]
           e == y[1]  f == y[2]  g == y[3]  h == y[4]
<1>0. /\ a \in Int /\ b \in Int /\ c \in Int /\ d \in Int
      /\ e \in Int /\ f \in Int /\ g \in Int /\ h \in Int
  BY DEF Quads
<1>a. /\ QRes(x) = <<CRes(a, b), CRes(c, d)>> /\ QRes(y) = <<CRes(e, f), CRes(g, h)>>
      /\ ZMul(x, y) = <<a * e - b * f + (2 * (c * g - d * h) - (c * h + d * g)),
                        a * f + b * e + (2 * (c * h + d * g) + (c * g - d * h)),
                        a * g - b * h + (c * e - d * f),
                        a * h + b * g + (c * f + d * e)>>
  BY DEF QRes, ZMul
<1> HIDE DEF a, b, c, d, e, f, g, h
<1> DEFINE p == a * e - b * f  q == a * f + b * e
           s == c * g - d * h  t == c * h + d * g
           k == a * g - b * h  l == a * h + b * g
           m == c * e - d * f  n == c * f + d * e
<1>1. /\ p \in Int /\ q \in Int /\ s \in Int /\ t \in Int
      /\ k \in Int /\ l \in Int /\ m \in Int /\ n \in Int
  BY <1>0
<1>2. /\ CMul(CRes(a, b), CRes(e, f)) = CRes(p, q)
      /\ CMul(CRes(c, d), CRes(g, h)) = CRes(s, t)
      /\ CMul(CRes(a, b), CRes(g, h)) = CRes(k, l)
      /\ CMul(CRes(c, d), CRes(e, f)) = CRes(m, n)
  BY <1>0, CResidues
<1>b. ZMul(x, y) = <<p + (2 * s - t), q + (2 * t + s), k + m, l + n>>
  BY <1>a
<1> HIDE DEF p, q, s, t, k, l, m, n
<1>3. CMul(R, CRes(s, t)) = CRes(2 * s - 1 * t, 2 * t + 1 * s)
  BY <1>1, CResidues, RIsResidue
<1>4. 2 * s - 1 * t = 2 * s - t /\ 2 * t + 1 * s = 2 * t + s
      /\ 2 * s - t \in Int /\ 2 * t + s \in Int
  BY <1>1
<1>5. /\ CAdd(CRes(p, q), CRes(2 * s - t, 2 * t + s)) = CRes(p + (2 * s - t), q + (2 * t + s))
      /\ CAdd(CRes(k, l), CRes(m, n)) = CRes(k + m, l + n)
  BY <1>1, <1>4, CResidues
<1>6. QMul(QRes(x), QRes(y)) = <<CRes(p + (2 * s - t), q + (2 * t + s)), CRes(k + m, l + n)>>
  BY <1>a, <1>2, <1>3, <1>4, <1>5 DEF QMul
<1>8. ZMul(x, y) \in Quads
  BY <1>1, <1>4, <1>b DEF Quads
<1> QED BY <1>b, <1>6, <1>8 DEF QRes

(* Multiplication is commutative and associative.                          *)
LEMMA ZMulLaws ==
  ASSUME NEW x \in Quads, NEW y \in Quads, NEW z \in Quads
  PROVE  /\ ZMul(x, y) = ZMul(y, x)
         /\ ZMul(ZMul(x, y), z) = ZMul(x, ZMul(y, z))
<1>1. /\ x[1] \in Int /\ x[2] \in Int /\ x[3] \in Int /\ x[4] \in Int
      /\ y[1] \in Int /\ y[2] \in Int /\ y[3] \in Int /\ y[4] \in Int
      /\ z[1] \in Int /\ z[2] \in Int /\ z[3] \in Int /\ z[4] \in Int
  BY DEF Quads
<1>2. ZMul(x, y) = ZMul(y, x)
  BY <1>1, SMT DEF ZMul
<1>3. ZMul(ZMul(x, y), z) = ZMul(x, ZMul(y, z))
  <2> DEFINE u == ZMul(ZMul(x, y), z)
             v == ZMul(x, ZMul(y, z))
  <2>1. u[1] = v[1]
    BY <1>1, SMTT(60) DEF ZMul
  <2>2. u[2] = v[2]
    BY <1>1, SMTT(60) DEF ZMul
  <2>3. u[3] = v[3]
    BY <1>1, SMTT(60) DEF ZMul
  <2>4. u[4] = v[4]
    BY <1>1, SMTT(60) DEF ZMul
  <2>5. \A a, b : ZMul(a, b) =
          <<ZMul(a, b)[1], ZMul(a, b)[2], ZMul(a, b)[3], ZMul(a, b)[4]>>
    BY DEF ZMul
  <2> QED BY <2>1, <2>2, <2>3, <2>4, <2>5
<1> QED BY <1>2, <1>3

LEMMA QMulLaws ==
  ASSUME NEW x \in QM31, NEW y \in QM31, NEW z \in QM31
  PROVE  /\ QMul(x, y) = QMul(y, x)
         /\ QMul(QMul(x, y), z) = QMul(x, QMul(y, z))
<1>1. /\ x = QRes(Flat(x)) /\ y = QRes(Flat(y)) /\ z = QRes(Flat(z))
      /\ Flat(x) \in Quads /\ Flat(y) \in Quads /\ Flat(z) \in Quads
  BY FlatIs
<1>2. ASSUME NEW a \in Quads, NEW b \in Quads, NEW c \in Quads
      PROVE  /\ QMul(QRes(a), QRes(b)) = QMul(QRes(b), QRes(a))
             /\ QMul(QMul(QRes(a), QRes(b)), QRes(c)) = QMul(QRes(a), QMul(QRes(b), QRes(c)))
  BY QResidues, ZMulLaws
<1> QED BY <1>1, <1>2

(* The inverses are inverses.                                              *)
LEMMA CInverseIs ==
  ASSUME NEW x \in CM31, NEW n \in CInverse(x)
  PROVE  CMul(n, x) = <<1, 0>>
<1>1. PICK k \in MInverse(MAdd(MMul(x[1], x[1]), MMul(x[2], x[2]))) :
        n = CMul(<<x[1], MNeg(x[2])>>, <<k, 0>>)
  BY DEF CInverse
<1> DEFINE a == x[1]
           b == x[2]
<1>2. /\ a \in Int /\ b \in Int /\ k \in Int
      /\ Res(a) = a /\ Res(b) = b /\ Res(k) = k /\ Res(0) = 0 /\ Res(1) = 1
      /\ x = CRes(a, b)
  BY <1>1, ElementsAreResidues, ConstantsType DEF MInverse, CM31
<1>3. MMul(MAdd(MMul(a, a), MMul(b, b)), k) = 1
  BY <1>1 DEF MInverse
<1> HIDE DEF a, b
<1>4. MNeg(b) = Res(0 - b)
  <2>1. b \in Int /\ 0 \in Int
    BY <1>2
  <2>2. MSub(Res(0), Res(b)) = Res(0 - b)
    BY <2>1, Residues
  <2> QED BY <1>2, <2>2 DEF MNeg
<1>5. a * a \in Int /\ b * b \in Int /\ a * a + b * b \in Int /\ 0 - b \in Int
  BY <1>2
<1>6. Res((a * a + b * b) * k) = 1
  <2>1. MMul(a, a) = Res(a * a) /\ MMul(b, b) = Res(b * b)
    BY <1>2, Residues
  <2>2. MAdd(Res(a * a), Res(b * b)) = Res(a * a + b * b)
    BY <1>5, Residues
  <2>3. MMul(Res(a * a + b * b), Res(k)) = Res((a * a + b * b) * k)
    BY <1>2, <1>5, Residues
  <2> QED BY <1>2, <1>3, <2>1, <2>2, <2>3
<1>7. n = CRes(a * k, (0 - b) * k)
  <2>1. n = CMul(CRes(a, 0 - b), CRes(k, 0))
    BY <1>1, <1>2, <1>4 DEF CRes, a, b
  <2>2. CMul(CRes(a, 0 - b), CRes(k, 0)) = CRes(a * k - (0 - b) * 0, a * 0 + (0 - b) * k)
    BY <1>2, <1>5, CResidues
  <2>3. a * k - (0 - b) * 0 = a * k /\ a * 0 + (0 - b) * k = (0 - b) * k
    BY <1>2
  <2> QED BY <2>1, <2>2, <2>3
<1> DEFINE u == a * k
           v == (0 - b) * k
<1>8. u \in Int /\ v \in Int
  BY <1>2
<1>9. u * a - v * b = (a * a + b * b) * k /\ u * b + v * a = 0
  BY <1>2, SMT
<1>10. n = CRes(u, v)
  BY <1>7
<1> HIDE DEF u, v
<1>11. CMul(CRes(u, v), CRes(a, b)) = CRes(u * a - v * b, u * b + v * a)
  BY <1>2, <1>8, CResidues
<1>12. CMul(n, x) = CRes((a * a + b * b) * k, 0)
  BY <1>2, <1>9, <1>10, <1>11
<1> QED BY <1>2, <1>6, <1>12 DEF CRes

QOne == <<<<1, 0>>, CZero>>

LEMMA QOneIs ==
  /\ QOne \in QM31
  /\ \A x \in QM31 : QMul(x, QOne) = x
<1>1. QOne \in QM31 /\ <<1, 0, 0, 0>> \in Quads
  BY ConstantsType DEF QOne, QM31, CM31, Quads
<1>2. QRes(<<1, 0, 0, 0>>) = QOne
  BY ElementsAreResidues, ConstantsType DEF QRes, CRes, QOne, CZero
<1>3. ASSUME NEW x \in Quads PROVE ZMul(x, <<1, 0, 0, 0>>) = x
  BY SMT DEF Quads, ZMul
<1> QED BY <1>1, <1>2, <1>3, FlatIs, QResidues

LEMMA QInverseIs ==
  ASSUME NEW y \in QM31, NEW n \in QInverse(y)
  PROVE  n \in QM31 /\ QMul(n, y) = QOne
<1> DEFINE conj == <<y[1], CSub(CZero, y[2])>>
           norm == CSub(CMul(y[1], y[1]), CMul(R, CMul(y[2], y[2])))
<1>1. PICK k \in CInverse(norm) : n = QMul(conj, <<k, CZero>>)
  BY DEF QInverse
<1>2. y[1] \in CM31 /\ y[2] \in CM31 /\ y = <<y[1], y[2]>>
  BY DEF QM31
<1>3. norm \in CM31 /\ conj \in QM31
  <2>1. CMul(y[1], y[1]) \in CM31 /\ CMul(R, CMul(y[2], y[2])) \in CM31
    BY <1>2, CType, ConstantsType
  <2> QED BY <1>2, <2>1, CType, ConstantsType DEF QM31
<1>4. k \in CM31 /\ CMul(k, norm) = <<1, 0>>
  BY <1>1, <1>3, CInverseType, CInverseIs
<1> DEFINE kq == <<k, CZero>>
<1>5. kq \in QM31
  BY <1>4, ConstantsType DEF QM31
<1>6. QMul(conj, y) = <<norm, CZero>>
  <2> DEFINE a == y[1][1]  b == y[1][2]  c == y[2][1]  d == y[2][2]
  <2>1. /\ a \in Int /\ b \in Int /\ c \in Int /\ d \in Int
        /\ y[1] = CRes(a, b) /\ y[2] = CRes(c, d)
    BY <1>2, ElementsAreResidues
  <2> HIDE DEF a, b, c, d
  <2>2. CZero = CRes(0, 0)
    BY ElementsAreResidues, ConstantsType DEF CZero, CRes
  <2>3. CSub(CZero, y[2]) = CRes(0 - c, 0 - d)
    BY <2>1, <2>2, CResidues
  <2> DEFINE x == <<a, b, 0 - c, 0 - d>>
             z == <<a, b, c, d>>
             s == c * c - d * d
             t == c * d + d * c
             p == a * a - b * b
             q == a * b + b * a
  <2>4. x \in Quads /\ z \in Quads
    BY <2>1 DEF Quads
  <2>5. conj = QRes(x) /\ y = QRes(z)
    BY <1>2, <2>1, <2>3 DEF QRes
  <2>6. ZMul(x, z) = <<p - (2 * s - 1 * t), q - (2 * t + 1 * s), 0, 0>>
    BY <2>1, SMT DEF ZMul
  <2>7. QMul(conj, y) = <<CRes(p - (2 * s - 1 * t), q - (2 * t + 1 * s)), CZero>>
    BY <2>2, <2>4, <2>5, <2>6, QResidues DEF QRes
  <2>8. s \in Int /\ t \in Int /\ p \in Int /\ q \in Int
    BY <2>1
  <2>9. CMul(y[1], y[1]) = CRes(p, q) /\ CMul(y[2], y[2]) = CRes(s, t)
    BY <2>1, CResidues
  <2> HIDE DEF x, z, s, t, p, q
  <2>10. CMul(R, CRes(s, t)) = CRes(2 * s - 1 * t, 2 * t + 1 * s)
    BY <2>8, CResidues, RIsResidue
  <2>11. 2 * s - 1 * t \in Int /\ 2 * t + 1 * s \in Int
    BY <2>8
  <2>12. norm = CRes(p - (2 * s - 1 * t), q - (2 * t + 1 * s))
    BY <2>8, <2>9, <2>10, <2>11, CResidues
  <2> QED BY <2>7, <2>12
<1> HIDE DEF conj, norm
<1>7. <<norm, CZero>> \in QM31
  BY <1>3, ConstantsType DEF QM31
<1>8. QMul(kq, <<norm, CZero>>) = QOne
  <2> DEFINE a == k[1]  b == k[2]  c == norm[1]  d == norm[2]
  <2>1. /\ a \in Int /\ b \in Int /\ c \in Int /\ d \in Int
        /\ k = CRes(a, b) /\ norm = CRes(c, d)
    BY <1>3, <1>4, ElementsAreResidues
  <2> HIDE DEF a, b, c, d
  <2>2. CZero = CRes(0, 0)
    BY ElementsAreResidues, ConstantsType DEF CZero, CRes
  <2> DEFINE x == <<a, b, 0, 0>>
             z == <<c, d, 0, 0>>
  <2>3. x \in Quads /\ z \in Quads /\ kq = QRes(x) /\ <<norm, CZero>> = QRes(z)
    BY <2>1, <2>2 DEF Quads, QRes
  <2>4. ZMul(x, z) = <<a * c - b * d, a * d + b * c, 0, 0>>
    BY <2>1, SMT DEF ZMul
  <2>5. QMul(kq, <<norm, CZero>>) = <<CRes(a * c - b * d, a * d + b * c), CZero>>
    BY <2>2, <2>3, <2>4, QResidues DEF QRes
  <2>6. CMul(k, norm) = CRes(a * c - b * d, a * d + b * c)
    BY <2>1, CResidues
  <2> QED BY <1>4, <2>5, <2>6 DEF QOne
<1>9. QMul(n, y) = QMul(kq, QMul(conj, y))
  BY <1>1, <1>3, <1>5, QMulLaws
<1> QED BY <1>1, <1>3, <1>5, <1>6, <1>8, <1>9, QType

(* What is deduced for a product is right: dividing gives a factor, on     *)
(* either side.                                                            *)
LEMMA QDivIs ==
  ASSUME NEW d \in QM31, NEW y \in QM31, NEW q \in QDiv(d, y)
  PROVE  QMul(q, y) = d /\ QMul(y, q) = d
<1>1. PICK n \in QInverse(y) : q = QMul(d, n)
  BY DEF QDiv
<1>2. n \in QM31 /\ QMul(n, y) = QOne
  BY <1>1, QInverseIs
<1>3. q \in QM31
  BY <1>1, <1>2, QType
<1>4. QMul(q, y) = QMul(d, QOne)
  BY <1>1, <1>2, QMulLaws
<1> QED BY <1>2, <1>3, <1>4, QOneIs, QMulLaws
=============================================================================
