------------------------------- MODULE Fields -------------------------------
(***************************************************************************)
(* The two fields the machine computes in, as stwo defines them (an       *)
(* external crate, pinned in the workspace's Cargo.toml and used through  *)
(* `M31` and `QM31`):                                                      *)
(*   - M31, the integers modulo the prime P (2^31 - 1 in the code);        *)
(*   - CM31 = M31[i] with i^2 = -1, a pair <<real, imaginary>>;            *)
(*   - QM31 = CM31[u] with u^2 = 2 + i, a pair of CM31.                    *)
(* P is a parameter: TLC uses a small prime for which both extensions are  *)
(* fields as well.  A partial operation is set-valued: {} stands for the   *)
(* panic of the code, {r} for its result r.                                *)
(***************************************************************************)
EXTENDS Integers

CONSTANT P   \* the characteristic; stwo's is 2^31 - 1

(* The smallest offsets the machine names are 0..3.                        *)
ASSUME PAssumption == P \in Nat /\ P > 3

M31  == 0 .. (P - 1)
CM31 == M31 \X M31
QM31 == CM31 \X CM31

-----------------------------------------------------------------------------
(* The base field: stwo adds and subtracts with one conditional reduction. *)

PartialReduce(n) == IF n >= P THEN n - P ELSE n

MAdd(x, y) == PartialReduce(x + y)
MSub(x, y) == PartialReduce(x + P - y)
MMul(x, y) == (x * y) % P
MNeg(x)    == MSub(0, x)

(* The multiplicative inverses of x: at most one, none for 0.              *)
MInverse(x) == {y \in M31 : MMul(x, y) = 1}

-----------------------------------------------------------------------------
(* The two extensions.                                                     *)

CZero == <<0, 0>>
CAdd(x, y) == <<MAdd(x[1], y[1]), MAdd(x[2], y[2])>>
CSub(x, y) == <<MSub(x[1], y[1]), MSub(x[2], y[2])>>
CMul(x, y) == <<MSub(MMul(x[1], y[1]), MMul(x[2], y[2])),
                MAdd(MMul(x[1], y[2]), MMul(x[2], y[1]))>>
(* 1 / (a + i b) = (a - i b) / (a^2 + b^2).                                *)
CInverse(x) ==
  {CMul(<<x[1], MNeg(x[2])>>, <<n, 0>>) :
     n \in MInverse(MAdd(MMul(x[1], x[1]), MMul(x[2], x[2])))}

(* u^2                                                                     *)
R == <<2, 1>>

QZero == <<CZero, CZero>>
QAdd(x, y) == <<CAdd(x[1], y[1]), CAdd(x[2], y[2])>>
QSub(x, y) == <<CSub(x[1], y[1]), CSub(x[2], y[2])>>
QMul(x, y) == <<CAdd(CMul(x[1], y[1]), CMul(R, CMul(x[2], y[2]))),
                CAdd(CMul(x[1], y[2]), CMul(x[2], y[1]))>>
(* 1 / (a + u b) = (a - u b) / (a^2 - u^2 b^2).                            *)
QInverse(x) ==
  {QMul(<<x[1], CSub(CZero, x[2])>>, <<n, CZero>>) :
     n \in CInverse(CSub(CMul(x[1], x[1]), CMul(R, CMul(x[2], x[2]))))}
QDiv(x, y) == {QMul(x, n) : n \in QInverse(y)}

(* From<M31> for QM31, and the elements that lie in the base field.        *)
Felt(m) == <<<<m, 0>>, CZero>>
BaseField == {q \in QM31 : q[1][2] = 0 /\ q[2] = CZero}
=============================================================================
