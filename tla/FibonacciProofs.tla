-------------------------- MODULE FibonacciProofs --------------------------
(***************************************************************************)
(* A run of the Fibonacci program never panics, and when it ends it has    *)
(* written the claim index and the term to the output: for every P and     *)
(* every index whose calls fit (StackFits).                                *)
(*                                                                         *)
(* The argument is one inductive invariant, RunsAsClaimed: the machine is  *)
(* at one of the program's points, below ap lie the frames of the calls    *)
(* made so far, with the terms and the countdown that belong there, and    *)
(* above it nothing.  So whatever the program writes goes to an unknown    *)
(* cell, which is why what is known stays known.  First come the terms     *)
(* themselves, then what is read from the file, what its instructions are, *)
(* what they do in a frame, and the step from each point.                  *)
(***************************************************************************)
EXTENDS FibonacciPoints, CairoVMProofs

-----------------------------------------------------------------------------
(* The shipped program.  First what it computes: SquareFibonacci is a      *)
(* recursive function, so that it has its recurrence must be shown.        *)
Term(f, n) == IF n < 2 THEN 1 ELSE MAdd(MMul(f[n - 2], f[n - 2]),
                                        MMul(f[n - 1], f[n - 1]))
Terms(f, N) == DOMAIN f = 0 .. N /\ \A n \in 0 .. N : f[n] = Term(f, n)

(* Two tables of the first terms agree as far as both go.                  *)
LEMMA TermsAgree ==
  ASSUME NEW f, NEW g, NEW M \in Nat, NEW N \in Nat, Terms(f, M), Terms(g, N),
         NEW n \in Nat, n <= M, n <= N
  PROVE  f[n] = g[n]
<1> DEFINE T == {k \in Nat : k <= M /\ k <= N /\ f[k] # g[k]}
<1>1. SUFFICES ASSUME T # {} PROVE FALSE
  OBVIOUS
<1>2. PICK k \in T : \A j \in T : k <= j
  <2>1. T \subseteq Nat
    OBVIOUS
  <2> HIDE DEF T
  <2> QED BY <1>1, <2>1, LeastNat
<1>3. k \in Nat /\ k <= M /\ k <= N /\ k \in 0 .. M /\ k \in 0 .. N
  OBVIOUS
<1>4. f[k] = Term(f, k) /\ g[k] = Term(g, k)
  BY <1>3 DEF Terms
<1>5. CASE k < 2
  BY <1>4, <1>5 DEF Term
<1>6. CASE ~ (k < 2)
  <2>1. /\ k - 2 \in Nat /\ k - 2 <= M /\ k - 2 <= N /\ ~ (k <= k - 2)
        /\ k - 1 \in Nat /\ k - 1 <= M /\ k - 1 <= N /\ ~ (k <= k - 1)
    BY <1>3, <1>6
  <2>2. k - 2 \notin T /\ k - 1 \notin T
    BY <1>2, <2>1
  <2>3. f[k - 2] = g[k - 2] /\ f[k - 1] = g[k - 1]
    BY <2>1, <2>2
  <2> QED BY <1>4, <2>3 DEF Term
<1> QED BY <1>5, <1>6

(* There is such a table for every length.                                 *)
LEMMA TermsExist == ASSUME NEW N \in Nat PROVE \E f : Terms(f, N)
<1> DEFINE T == {k \in Nat : ~ \E f : Terms(f, k)}
<1>1. SUFFICES ASSUME T # {} PROVE FALSE
  OBVIOUS
<1>2. PICK k \in T : \A j \in T : k <= j
  <2>1. T \subseteq Nat
    OBVIOUS
  <2> HIDE DEF T
  <2> QED BY <1>1, <2>1, LeastNat
<1>3. CASE k = 0
  <2> DEFINE f == [n \in 0 .. 0 |-> 1]
  <2>1. Terms(f, 0)
    BY DEF Terms, Term
  <2> QED BY <1>2, <1>3, <2>1
<1>4. CASE k # 0
  <2> DEFINE j == k - 1
  <2>1. j \in Nat /\ k \in Nat /\ k = j + 1 /\ ~ (k <= j)
    BY <1>4
  <2>2. PICK g : Terms(g, j)
    BY <1>2, <2>1
  <2> DEFINE f == [n \in 0 .. k |-> IF n = k THEN Term(g, k) ELSE g[n]]
  <2> HIDE DEF j
  <2>3. \A n \in 0 .. j : n \in 0 .. k /\ n # k /\ f[n] = g[n]
    BY <2>1
  <2>4. ASSUME NEW n \in 0 .. k
        PROVE  f[n] = Term(g, n) /\ Term(f, n) = Term(g, n)
    <3>1. f[n] = Term(g, n)
      <4>1. CASE n = k
        BY <4>1
      <4>2. CASE n # k
        <5>1. n \in 0 .. j
          BY <2>1, <4>2
        <5> QED BY <2>2, <2>3, <5>1 DEF Terms
      <4> QED BY <4>1, <4>2
    <3>2. CASE n < 2
      BY <3>1, <3>2 DEF Term
    <3>3. CASE ~ (n < 2)
      <4>1. n - 1 \in 0 .. j /\ n - 2 \in 0 .. j
        BY <2>1, <3>3
      <4>2. f[n - 1] = g[n - 1] /\ f[n - 2] = g[n - 2]
        BY <2>3, <4>1
      <4> HIDE DEF f
      <4> QED BY <3>1, <3>3, <4>2 DEF Term
    <3> QED BY <3>2, <3>3
  <2>5. Terms(f, k)
    <3>1. DOMAIN f = 0 .. k
      OBVIOUS
    <3> HIDE DEF f
    <3> QED BY <2>4, <3>1 DEF Terms
  <2> QED BY <1>2, <2>5
<1> QED BY <1>3, <1>4

(* So the function has the recurrence it is defined by.                    *)
LEMMA SquareFibonacciIs ==
  \A n \in Nat : SquareFibonacci[n] = Term(SquareFibonacci, n)
<1> DEFINE some(n) == CHOOSE f : Terms(f, n)
           g == [n \in Nat |-> some(n)[n]]
<1>1. ASSUME NEW n \in Nat PROVE g[n] = Term(g, n)
  <2>1. Terms(some(n), n)
    BY TermsExist
  <2>2. ASSUME NEW k \in Nat, k <= n PROVE g[k] = some(n)[k]
    <3>1. Terms(some(k), k)
      BY TermsExist
    <3> HIDE DEF some
    <3>2. some(k)[k] = some(n)[k]
      BY <2>1, <2>2, <3>1, TermsAgree
    <3> QED BY <3>2
  <2>3. some(n)[n] = Term(some(n), n)
    BY <2>1 DEF Terms
  <2>4. g[n] = some(n)[n]
    BY <2>2
  <2> HIDE DEF g, some
  <2>5. CASE n < 2
    BY <2>3, <2>4, <2>5 DEF Term
  <2>6. CASE ~ (n < 2)
    <3>1. n - 1 \in Nat /\ n - 1 <= n /\ n - 2 \in Nat /\ n - 2 <= n
      BY <2>6
    <3>2. g[n - 1] = some(n)[n - 1] /\ g[n - 2] = some(n)[n - 2]
      BY <2>2, <3>1
    <3> QED BY <2>3, <2>4, <3>2 DEF Term
  <2> QED BY <2>5, <2>6
<1> DEFINE Is(f) == f = [n \in Nat |-> IF n < 2 THEN 1
                                       ELSE MAdd(MMul(f[n - 2], f[n - 2]),
                                                 MMul(f[n - 1], f[n - 1]))]
<1>2. Is(g)
  <2>1. g = [n \in Nat |-> g[n]]
    OBVIOUS
  <2>2. \A n \in Nat : g[n] = IF n < 2 THEN 1 ELSE MAdd(MMul(g[n - 2], g[n - 2]),
                                                        MMul(g[n - 1], g[n - 1]))
    BY <1>1 DEF Term
  <2> HIDE DEF g
  <2> QED BY <2>1, <2>2
<1>3. SquareFibonacci = CHOOSE f : Is(f)
  BY DEF SquareFibonacci
<1>4. Is(SquareFibonacci)
  <2> HIDE DEF Is
  <2> QED BY <1>2, <1>3
<1> DEFINE S == SquareFibonacci
<1>5. Is(S)
  BY <1>4
<1> HIDE DEF S, g
<1>6. \A n \in Nat : S[n] = Term(S, n)
  BY <1>5 DEF Term
<1> QED BY <1>6 DEF S

(* Every term is an element of the field.                                  *)
LEMMA SquareFibonacciType == \A n \in Nat : SquareFibonacci[n] \in M31
<1> DEFINE T == {k \in Nat : SquareFibonacci[k] \notin M31}
<1>1. SUFFICES ASSUME T # {} PROVE FALSE
  OBVIOUS
<1>2. PICK k \in T : \A j \in T : k <= j
  <2>1. T \subseteq Nat
    OBVIOUS
  <2> HIDE DEF T
  <2> QED BY <1>1, <2>1, LeastNat
<1>3. CASE k < 2
  BY <1>3, SquareFibonacciIs, ConstantsType DEF Term
<1>4. CASE ~ (k < 2)
  <2>1. k - 1 \in Nat /\ ~ (k <= k - 1) /\ k - 2 \in Nat /\ ~ (k <= k - 2)
    BY <1>4
  <2>2. SquareFibonacci[k - 1] \in M31 /\ SquareFibonacci[k - 2] \in M31
    BY <1>2, <2>1
  <2>3. SquareFibonacci[k] = Term(SquareFibonacci, k)
    BY SquareFibonacciIs
  <2> DEFINE a == SquareFibonacci[k - 2]  b == SquareFibonacci[k - 1]
  <2>4. SquareFibonacci[k] = MAdd(MMul(a, a), MMul(b, b))
    BY <1>4, <2>3 DEF Term
  <2>5. MMul(a, a) \in M31 /\ MMul(b, b) \in M31
    BY <2>2, MType
  <2>6. SquareFibonacci[k] \in M31
    BY <2>4, <2>5, MType
  <2> QED BY <2>6
<1> QED BY <1>3, <1>4

-----------------------------------------------------------------------------
(* Four words make an element if each fits in a u32, and only then.        *)
LEMMA WordsAre ==
  ASSUME NEW op, NEW a, NEW b, NEW c
  PROVE  LET q == QM31FromHexStrArray(Words(op, a, b, c))
         IN /\ q # {} => /\ q = {Encode(op, a, b, c)}
                         /\ op < WordSize /\ a < WordSize /\ b < WordSize /\ c < WordSize
            /\ (op < WordSize /\ a < WordSize /\ b < WordSize /\ c < WordSize) => q # {}
<1> DEFINE x == Words(op, a, b, c)
           q == QM31FromHexStrArray(x)
<1>1. x[1] = {op} /\ x[2] = {a} /\ x[3] = {b} /\ x[4] = {c}
  BY DEF Words
<1>2. \A n : M31FromHexStr({n}) = IF n < WordSize THEN {n} ELSE {}
  BY DEF M31FromHexStr
<1> HIDE DEF x
<1>3. \A y : y \in q <=> \E i \in M31FromHexStr({op}), j \in M31FromHexStr({a}),
                            k \in M31FromHexStr({b}), l \in M31FromHexStr({c}) :
                           y = Encode(i, j, k, l)
  BY <1>1 DEF QM31FromHexStrArray
<1> HIDE DEF q
<1>4. CASE op < WordSize /\ a < WordSize /\ b < WordSize /\ c < WordSize
  <2>1. /\ M31FromHexStr({op}) = {op} /\ M31FromHexStr({a}) = {a}
        /\ M31FromHexStr({b}) = {b} /\ M31FromHexStr({c}) = {c}
    BY <1>2, <1>4
  <2>2. \A y : y \in q <=> y = Encode(op, a, b, c)
    BY <1>3, <2>1
  <2>3. q = {Encode(op, a, b, c)}
    BY <2>2
  <2> QED BY <1>4, <2>3 DEF x, q
<1>5. CASE ~ (op < WordSize /\ a < WordSize /\ b < WordSize /\ c < WordSize)
  <2>1. \/ M31FromHexStr({op}) = {} \/ M31FromHexStr({a}) = {}
        \/ M31FromHexStr({b}) = {} \/ M31FromHexStr({c}) = {}
    BY <1>2, <1>5
  <2>2. q = {}
    BY <1>3, <2>1
  <2> QED BY <1>5, <2>2 DEF x, q
<1> QED BY <1>4, <1>5

(* And then it is the element they spell.                                  *)
LEMMA WordRead ==
  ASSUME NEW op, NEW a, NEW b, NEW c, NEW x, x = Words(op, a, b, c),
         QM31FromHexStrArray(x) # {}
  PROVE  (CHOOSE q \in QM31FromHexStrArray(x) : TRUE) = Encode(op, a, b, c)
BY WordsAre

(* So the data of the file, if it can be read at all, is this code.        *)
LEMMA CodeRead ==
  ASSUME \A k \in DOMAIN FibonacciData : QM31FromHexStrArray(FibonacciData[k]) # {}
  PROVE  [k \in DOMAIN FibonacciData |->
            CHOOSE q \in QM31FromHexStrArray(FibonacciData[k]) : TRUE] = FibonacciCode
<1> DEFINE D == FibonacciData
           some(k) == CHOOSE q \in QM31FromHexStrArray(D[k]) : TRUE
<1>1. DOMAIN D = 1 .. 19
  BY DEF FibonacciData
<1>2. /\ D[1] = Words(10, 1, 0, 0) /\ D[2] = Words(69, 0, Neg(3), 0)
      /\ D[3] = Words(38, 0, 1, 0) /\ D[4] = Words(38, 0, 1, 0)
      /\ D[5] = Words(32, 0, 0, 0) /\ D[6] = Words(90, 4, 0, 0)
      /\ D[7] = Words(35, Neg(1), Neg(3), 1) /\ D[8] = Words(28, 0, 2, Neg(3))
      /\ D[9] = Words(171, 0, 0, 0) /\ D[10] = Words(169, 3, Neg(3), 0)
      /\ D[11] = Words(32, 0, Neg(4), 0) /\ D[12] = Words(171, 0, 0, 0)
      /\ D[13] = Words(46, 0, Neg(5), Neg(5)) /\ D[14] = Words(46, 0, Neg(4), Neg(4))
      /\ D[15] = Words(32, 0, Neg(4), 0) /\ D[16] = Words(18, 0, Neg(3), Neg(2))
      /\ D[17] = Words(28, 0, Neg(1), Neg(3)) /\ D[18] = Words(90, Neg(8), 0, 0)
      /\ D[19] = Words(171, 0, 0, 0)
  BY DEF FibonacciData
<1>3. \A k \in 1 .. 19 : QM31FromHexStrArray(D[k]) # {}
  BY <1>1
<1> HIDE DEF D
<1>4. /\ some(1) = Encode(10, 1, 0, 0) /\ some(2) = Encode(69, 0, Neg(3), 0)
      /\ some(3) = Encode(38, 0, 1, 0) /\ some(4) = Encode(38, 0, 1, 0)
      /\ some(5) = Encode(32, 0, 0, 0) /\ some(6) = Encode(90, 4, 0, 0)
      /\ some(7) = Encode(35, Neg(1), Neg(3), 1) /\ some(8) = Encode(28, 0, 2, Neg(3))
  BY <1>2, <1>3, WordRead
<1>5. /\ some(9) = Encode(171, 0, 0, 0) /\ some(10) = Encode(169, 3, Neg(3), 0)
      /\ some(11) = Encode(32, 0, Neg(4), 0) /\ some(12) = Encode(171, 0, 0, 0)
      /\ some(13) = Encode(46, 0, Neg(5), Neg(5)) /\ some(14) = Encode(46, 0, Neg(4), Neg(4))
      /\ some(15) = Encode(32, 0, Neg(4), 0) /\ some(16) = Encode(18, 0, Neg(3), Neg(2))
  BY <1>2, <1>3, WordRead
<1>6. /\ some(17) = Encode(28, 0, Neg(1), Neg(3)) /\ some(18) = Encode(90, Neg(8), 0, 0)
      /\ some(19) = Encode(171, 0, 0, 0)
  BY <1>2, <1>3, WordRead
<1> DEFINE C == FibonacciCode
<1>7. C = [k \in 1 .. 19 |-> C[k]]
  BY DEF FibonacciCode
<1>8. \A k \in 1 .. 19 : some(k) = C[k]
  <2> HIDE DEF some
  <2>1. /\ some(1) = C[1] /\ some(2) = C[2] /\ some(3) = C[3] /\ some(4) = C[4]
        /\ some(5) = C[5] /\ some(6) = C[6] /\ some(7) = C[7] /\ some(8) = C[8]
        /\ some(9) = C[9] /\ some(10) = C[10] /\ some(11) = C[11] /\ some(12) = C[12]
        /\ some(13) = C[13] /\ some(14) = C[14] /\ some(15) = C[15] /\ some(16) = C[16]
        /\ some(17) = C[17] /\ some(18) = C[18] /\ some(19) = C[19]
    BY <1>4, <1>5, <1>6 DEF FibonacciCode
  <2> QED BY <2>1
<1>9. [k \in DOMAIN D |-> some(k)] = C
  <2> HIDE DEF some, C
  <2> QED BY <1>1, <1>7, <1>8
<1> QED BY <1>9 DEF D

(* Of the hints of each variant of the file only the first one counts.     *)
LEMMA HintsRead ==
  ASSUME NEW f \in FibonacciFiles
  PROVE  ParsedHints(f) = {{1}} /\ f.data = FibonacciData
<1> DEFINE one == FibonacciHint
           two == [FibonacciHint EXCEPT !.codes = @ \o <<"other">>]
           unknown == [pc |-> {4}, codes |-> <<"other", "FibonacciIndex">>]
           empty == [pc |-> {9}, codes |-> << >>]
<1>1. /\ KnownHint(one) /\ KnownHint(two) /\ ~ KnownHint(unknown) /\ ~ KnownHint(empty)
      /\ one.pc = {1} /\ two.pc = {1} /\ unknown.pc = {4} /\ empty.pc = {9}
  BY DEF KnownHint, FibonacciHint
<1>2. PICK h \in {{one}, {two}, {one, unknown, empty}} :
        f = [data |-> FibonacciData, hints |-> h]
  BY DEF FibonacciFiles
<1> HIDE DEF one, two, unknown, empty
<1>3. {g \in h : KnownHint(g)} \in {{one}, {two}}
  BY <1>1, <1>2
<1>4. UNION {g.pc : g \in {g \in h : KnownHint(g)}} = {1}
  BY <1>1, <1>3
<1>5. \A g \in h : g.pc # {}
  BY <1>1, <1>2
<1> QED BY <1>2, <1>4, <1>5 DEF ParsedHints

(* A broken file gives no program.                                         *)
LEMMA BrokenIsNot ==
  ASSUME NEW f \in BrokenFiles, NEW indices
  PROVE  TryFrom(f, indices) = {}
<1>1. CASE f = [data |-> FibonacciData \o << <<{10}, {WordSize}, {0}, {0}>> >>, hints |-> {}]
  <2>1. 20 \in DOMAIN f.data /\ f.data[20] = Words(10, WordSize, 0, 0)
    BY <1>1 DEF FibonacciData, Words
  <2>2. QM31FromHexStrArray(f.data[20]) = {}
    BY <2>1, WordsAre, WordAssumption
  <2> QED BY <2>1, <2>2 DEF TryFrom, ParsedCodes
<1>2. CASE f = [data |-> FibonacciData, hints |-> {[pc |-> {}, codes |-> <<"other">>]}]
  <2>1. ParsedHints(f) = {}
    BY <1>2 DEF ParsedHints
  <2> QED BY <2>1 DEF TryFrom
<1> QED BY <1>1, <1>2 DEF BrokenFiles

(* So whatever program is run has this code, this hint and one index.      *)
LEMMA ProgramIs ==
  ASSUME StackFits, NEW p \in FibonacciPrograms
  PROVE  /\ p.code = FibonacciCode
         /\ p.hints = {1}
         /\ \E n \in ClaimIndices : p.input = {Felt(n)}
<1>1. PICK f \in FibonacciFiles, n \in ClaimIndices : p \in TryFrom(f, {Words(n, 0, 0, 0)})
  <2>1. PICK f \in FibonacciFiles \cup BrokenFiles, n \in ClaimIndices :
          p \in TryFrom(f, {Words(n, 0, 0, 0)})
    BY DEF FibonacciPrograms
  <2>2. f \notin BrokenFiles
    BY <2>1, BrokenIsNot
  <2> QED BY <2>1, <2>2
<1>2. PICK c \in ParsedCodes(f), h \in ParsedHints(f) :
        p = [code |-> c, hints |-> h,
             input |-> UNION {QM31FromHexStrArray(x) : x \in {Words(n, 0, 0, 0)}}]
  BY <1>1 DEF TryFrom
<1>3. h = {1}
  BY HintsRead, <1>2
<1>4. /\ \A k \in DOMAIN FibonacciData : QM31FromHexStrArray(FibonacciData[k]) # {}
      /\ c = FibonacciCode
  <2>1. f.data = FibonacciData
    BY HintsRead
  <2> HIDE DEF FibonacciData
  <2>2. /\ \A k \in DOMAIN FibonacciData : QM31FromHexStrArray(FibonacciData[k]) # {}
        /\ c = [k \in DOMAIN FibonacciData |->
                   CHOOSE q \in QM31FromHexStrArray(FibonacciData[k]) : TRUE]
    BY <1>2, <2>1 DEF ParsedCodes
  <2>3. [k \in DOMAIN FibonacciData |->
           CHOOSE q \in QM31FromHexStrArray(FibonacciData[k]) : TRUE] = FibonacciCode
    BY <2>2, CodeRead
  <2> QED BY <2>2, <2>3
<1>5. QM31FromHexStrArray(Words(n, 0, 0, 0)) = {Felt(n)}
  <2>1. FibonacciData[7] = Words(35, Neg(1), Neg(3), 1) /\ 7 \in DOMAIN FibonacciData
    BY DEF FibonacciData
  <2>2. P - 1 < WordSize
    BY <1>4, <2>1, WordsAre DEF Neg
  <2>3. n \in Nat /\ n < P
    BY PAssumption DEF StackFits
  <2>4. n < WordSize /\ 0 < WordSize
    BY <2>2, <2>3, PAssumption, WordAssumption
  <2>5. Encode(n, 0, 0, 0) = Felt(n)
    BY DEF Encode, Felt, CZero
  <2> QED BY <2>4, <2>5, WordsAre
<1> QED BY <1>2, <1>3, <1>4, <1>5

-----------------------------------------------------------------------------
(* The instructions the program has.                                       *)
Imm == Operand("imm", "imm", "imm")

(* The operands of these instructions, by their place in the tables.       *)
LEMMA OperandsAre ==
  /\ Operands[1] = Operand("add", "ap", "ap") /\ Operands[6] = Operand("add", "imm", "fp")
  /\ Operands[8] = Operand("deref", "fp", "fp")
  /\ Operands[10] = Operand("double_deref", "fp", "fp")
  /\ Operands[11] = Imm /\ Operands[15] = Operand("mul", "fp", "fp")
  /\ CallOperands[3] = Imm /\ Pairs("jnz")[6] = Operand("jnz", "imm", "fp")
BY DEF Operands, CallOperands, Pairs, Imm

addap_imm == Operation("addap", Imm, "ap", FALSE, FALSE)
assert_fp_double_deref_fp ==
  Operation("assert", Operand("double_deref", "fp", "fp"), "fp", FALSE, FALSE)
assert_ap_imm_appp == Operation("assert", Imm, "ap", FALSE, TRUE)
assert_ap_deref_fp_appp ==
  Operation("assert", Operand("deref", "fp", "fp"), "ap", FALSE, TRUE)
call_rel_imm == Operation("call", Imm, "ap", TRUE, FALSE)
assert_ap_double_deref_fp ==
  Operation("assert", Operand("double_deref", "fp", "fp"), "ap", FALSE, FALSE)
assert_ap_add_imm_fp_appp ==
  Operation("assert", Operand("add", "imm", "fp"), "ap", FALSE, TRUE)
ret == Operation("ret", Operand("add", "ap", "ap"), "ap", FALSE, FALSE)
jnz_imm_fp == Operation("jnz", Operand("jnz", "imm", "fp"), "ap", TRUE, FALSE)
assert_ap_mul_fp_fp_appp ==
  Operation("assert", Operand("mul", "fp", "fp"), "ap", FALSE, TRUE)
assert_ap_add_ap_ap_appp ==
  Operation("assert", Operand("add", "ap", "ap"), "ap", FALSE, TRUE)

(* The opcodes of the file name these instructions.                        *)
LEMMA OpcodesAre ==
  /\ OpcodeToInstruction(10) = {addap_imm}
  /\ OpcodeToInstruction(69) = {assert_fp_double_deref_fp}
  /\ OpcodeToInstruction(38) = {assert_ap_imm_appp}
  /\ OpcodeToInstruction(32) = {assert_ap_deref_fp_appp}
  /\ OpcodeToInstruction(90) = {call_rel_imm}
  /\ OpcodeToInstruction(35) = {assert_ap_double_deref_fp}
  /\ OpcodeToInstruction(28) = {assert_ap_add_imm_fp_appp}
  /\ OpcodeToInstruction(171) = {ret}
  /\ OpcodeToInstruction(169) = {jnz_imm_fp}
  /\ OpcodeToInstruction(46) = {assert_ap_mul_fp_fp_appp}
  /\ OpcodeToInstruction(18) = {assert_ap_add_ap_ap_appp}
<1>1. /\ OpcodeToInstruction(10) = {AddApOp(10)}
      /\ OpcodeToInstruction(69) = {AssertOp(52)} /\ OpcodeToInstruction(38) = {AssertOp(21)}
      /\ OpcodeToInstruction(32) = {AssertOp(15)} /\ OpcodeToInstruction(90) = {CallOp(5)}
      /\ OpcodeToInstruction(35) = {AssertOp(18)} /\ OpcodeToInstruction(28) = {AssertOp(11)}
      /\ OpcodeToInstruction(171) = {RetOp} /\ OpcodeToInstruction(169) = {JnzOp(10)}
      /\ OpcodeToInstruction(46) = {AssertOp(29)} /\ OpcodeToInstruction(18) = {AssertOp(1)}
  BY DEF OpcodeToInstruction
<1>2. \A n \in Nat : AssertOp(n) = Operation("assert", Operands[((n % 34) \div 2) + 1],
                                             Base(n \div 34), FALSE, n % 2 = 1)
  BY DEF AssertOp
<1>3. /\ AssertOp(52) = Operation("assert", Operands[10], "fp", FALSE, FALSE)
      /\ AssertOp(21) = Operation("assert", Operands[11], "ap", FALSE, TRUE)
      /\ AssertOp(15) = Operation("assert", Operands[8], "ap", FALSE, TRUE)
      /\ AssertOp(18) = Operation("assert", Operands[10], "ap", FALSE, FALSE)
      /\ AssertOp(11) = Operation("assert", Operands[6], "ap", FALSE, TRUE)
      /\ AssertOp(29) = Operation("assert", Operands[15], "ap", FALSE, TRUE)
      /\ AssertOp(1) = Operation("assert", Operands[1], "ap", FALSE, TRUE)
  <2>1. /\ ((52 % 34) \div 2) + 1 = 10 /\ Base(52 \div 34) = "fp" /\ (52 % 2 = 1) = FALSE
        /\ ((21 % 34) \div 2) + 1 = 11 /\ Base(21 \div 34) = "ap" /\ (21 % 2 = 1) = TRUE
        /\ ((15 % 34) \div 2) + 1 = 8 /\ Base(15 \div 34) = "ap" /\ (15 % 2 = 1) = TRUE
        /\ ((18 % 34) \div 2) + 1 = 10 /\ Base(18 \div 34) = "ap" /\ (18 % 2 = 1) = FALSE
        /\ ((11 % 34) \div 2) + 1 = 6 /\ Base(11 \div 34) = "ap" /\ (11 % 2 = 1) = TRUE
        /\ ((29 % 34) \div 2) + 1 = 15 /\ Base(29 \div 34) = "ap" /\ (29 % 2 = 1) = TRUE
        /\ ((1 % 34) \div 2) + 1 = 1 /\ Base(1 \div 34) = "ap" /\ (1 % 2 = 1) = TRUE
    BY DEF Base
  <2> QED BY <2>1 DEF AssertOp
<1>4. /\ AddApOp(10) = Operation("addap", Operands[11], "ap", FALSE, FALSE)
      /\ CallOp(5) = Operation("call", CallOperands[3], "ap", TRUE, FALSE)
      /\ JnzOp(10) = Operation("jnz", Pairs("jnz")[6], "ap", TRUE, FALSE)
  <2>1. /\ 10 + 1 = 11 /\ (5 % 3) + 1 = 3 /\ (10 \div 2) + 1 = 6
        /\ (5 >= 3) = TRUE /\ (10 % 2 = 1) = FALSE
    OBVIOUS
  <2> QED BY <2>1 DEF AddApOp, CallOp, JnzOp
<1> QED BY <1>1, <1>3, <1>4, OperandsAre
       DEF RetOp, addap_imm, assert_fp_double_deref_fp, assert_ap_imm_appp,
           assert_ap_deref_fp_appp, call_rel_imm, assert_ap_double_deref_fp,
           assert_ap_add_imm_fp_appp, ret, jnz_imm_fp, assert_ap_mul_fp_fp_appp,
           assert_ap_add_ap_ap_appp

-----------------------------------------------------------------------------
Instruction(op, a, b, c) == [op |-> op, args |-> <<a, b, c>>]

(* A word decodes to its instruction and its three arguments.              *)
LEMMA DecodeWord ==
  ASSUME NEW op, NEW a, NEW b, NEW c, NEW o, OpcodeToInstruction(op) = {o}
  PROVE  Decode(Abs(Encode(op, a, b, c))) = {Instruction(o, a, b, c)}
<1> DEFINE v == Abs(Encode(op, a, b, c))
<1>1. ~ IsRel(v) /\ Op(v.value) = op /\ Args(v.value) = <<a, b, c>>
  BY DEF Abs, IsRel, Op, Args, Encode
<1> HIDE DEF v
<1> QED BY <1>1 DEF Decode, Instruction, v

(* So the instructions of the program are these.                           *)
LEMMA InstructionsAre ==
  LET i(c) == Decode(Word(c))
  IN /\ i(0) = {Instruction(addap_imm, 1, 0, 0)}
     /\ i(1) = {Instruction(assert_fp_double_deref_fp, 0, Neg(3), 0)}
     /\ i(2) = {Instruction(assert_ap_imm_appp, 0, 1, 0)}
     /\ i(3) = {Instruction(assert_ap_imm_appp, 0, 1, 0)}
     /\ i(4) = {Instruction(assert_ap_deref_fp_appp, 0, 0, 0)}
     /\ i(5) = {Instruction(call_rel_imm, 4, 0, 0)}
     /\ i(6) = {Instruction(assert_ap_double_deref_fp, Neg(1), Neg(3), 1)}
     /\ i(7) = {Instruction(assert_ap_add_imm_fp_appp, 0, 2, Neg(3))}
     /\ i(8) = {Instruction(ret, 0, 0, 0)}
     /\ i(9) = {Instruction(jnz_imm_fp, 3, Neg(3), 0)}
     /\ i(10) = {Instruction(assert_ap_deref_fp_appp, 0, Neg(4), 0)}
     /\ i(11) = {Instruction(ret, 0, 0, 0)}
     /\ i(12) = {Instruction(assert_ap_mul_fp_fp_appp, 0, Neg(5), Neg(5))}
     /\ i(13) = {Instruction(assert_ap_mul_fp_fp_appp, 0, Neg(4), Neg(4))}
     /\ i(14) = {Instruction(assert_ap_deref_fp_appp, 0, Neg(4), 0)}
     /\ i(15) = {Instruction(assert_ap_add_ap_ap_appp, 0, Neg(3), Neg(2))}
     /\ i(16) = {Instruction(assert_ap_add_imm_fp_appp, 0, Neg(1), Neg(3))}
     /\ i(17) = {Instruction(call_rel_imm, Neg(8), 0, 0)}
     /\ i(18) = {Instruction(ret, 0, 0, 0)}
<1> DEFINE C == FibonacciCode
<1>1. /\ C[1] = Encode(10, 1, 0, 0)
      /\ C[2] = Encode(69, 0, Neg(3), 0)
      /\ C[3] = Encode(38, 0, 1, 0)
      /\ C[4] = Encode(38, 0, 1, 0)
      /\ C[5] = Encode(32, 0, 0, 0)
      /\ C[6] = Encode(90, 4, 0, 0)
      /\ C[7] = Encode(35, Neg(1), Neg(3), 1)
      /\ C[8] = Encode(28, 0, 2, Neg(3))
      /\ C[9] = Encode(171, 0, 0, 0)
      /\ C[10] = Encode(169, 3, Neg(3), 0)
      /\ C[11] = Encode(32, 0, Neg(4), 0)
      /\ C[12] = Encode(171, 0, 0, 0)
      /\ C[13] = Encode(46, 0, Neg(5), Neg(5))
      /\ C[14] = Encode(46, 0, Neg(4), Neg(4))
      /\ C[15] = Encode(32, 0, Neg(4), 0)
      /\ C[16] = Encode(18, 0, Neg(3), Neg(2))
      /\ C[17] = Encode(28, 0, Neg(1), Neg(3))
      /\ C[18] = Encode(90, Neg(8), 0, 0)
      /\ C[19] = Encode(171, 0, 0, 0)
  BY DEF FibonacciCode
<1> HIDE DEF C
<1>2. \A a, b, c : Decode(Abs(Encode(10, a, b, c)))
          = {Instruction(addap_imm, a, b, c)}
  BY DecodeWord, OpcodesAre
<1>3. \A a, b, c : Decode(Abs(Encode(69, a, b, c)))
          = {Instruction(assert_fp_double_deref_fp, a, b, c)}
  BY DecodeWord, OpcodesAre
<1>4. \A a, b, c : Decode(Abs(Encode(38, a, b, c)))
          = {Instruction(assert_ap_imm_appp, a, b, c)}
  BY DecodeWord, OpcodesAre
<1>5. \A a, b, c : Decode(Abs(Encode(32, a, b, c)))
          = {Instruction(assert_ap_deref_fp_appp, a, b, c)}
  BY DecodeWord, OpcodesAre
<1>6. \A a, b, c : Decode(Abs(Encode(90, a, b, c)))
          = {Instruction(call_rel_imm, a, b, c)}
  BY DecodeWord, OpcodesAre
<1>7. \A a, b, c : Decode(Abs(Encode(35, a, b, c)))
          = {Instruction(assert_ap_double_deref_fp, a, b, c)}
  BY DecodeWord, OpcodesAre
<1>8. \A a, b, c : Decode(Abs(Encode(28, a, b, c)))
          = {Instruction(assert_ap_add_imm_fp_appp, a, b, c)}
  BY DecodeWord, OpcodesAre
<1>9. \A a, b, c : Decode(Abs(Encode(171, a, b, c)))
          = {Instruction(ret, a, b, c)}
  BY DecodeWord, OpcodesAre
<1>10. \A a, b, c : Decode(Abs(Encode(169, a, b, c)))
          = {Instruction(jnz_imm_fp, a, b, c)}
  BY DecodeWord, OpcodesAre
<1>11. \A a, b, c : Decode(Abs(Encode(46, a, b, c)))
          = {Instruction(assert_ap_mul_fp_fp_appp, a, b, c)}
  BY DecodeWord, OpcodesAre
<1>12. \A a, b, c : Decode(Abs(Encode(18, a, b, c)))
          = {Instruction(assert_ap_add_ap_ap_appp, a, b, c)}
  BY DecodeWord, OpcodesAre
<1> QED BY <1>1, <1>2, <1>3, <1>4, <1>5, <1>6, <1>7, <1>8, <1>9, <1>10, <1>11, <1>12
       DEF Word, C

-----------------------------------------------------------------------------
(* Moving within a segment and computing with numbers.                     *)
LEMMA Moves ==
  ASSUME NEW g \in Nat, NEW a \in Nat, a < P, NEW j \in Nat
  PROVE  /\ Rel(g, a) \in Addr /\ IsRel(Rel(g, a)) /\ Rel(g, a) \in Value
         /\ a + j < P => AddM31(Rel(g, a), j) = Rel(g, a + j)
         /\ 0 < j /\ j <= a => AddM31(Rel(g, a), Neg(j)) = Rel(g, a - j)
         /\ j <= a => SubM31(Rel(g, a), j) = Rel(g, a - j)
<1>1. a \in M31 /\ P \in Nat
  BY PAssumption DEF M31
<1>2. /\ a + j < P => MAdd(a, j) = a + j
      /\ 0 < j /\ j <= a => MAdd(a, Neg(j)) = a - j
      /\ j <= a => MSub(a, j) = a - j
  BY <1>1 DEF MAdd, MSub, PartialReduce, Neg
<1>3. IsRel(Rel(g, a)) /\ Rel(g, a).segment = g /\ Rel(g, a).offset = a
  BY DEF IsRel, Rel
<1>4. Rel(g, a) \in Addr /\ Rel(g, a) \in Value
  BY <1>1, MakeType DEF Addr, Value
<1> QED BY <1>2, <1>3, <1>4 DEF AddM31, SubM31

(* A number is a value and an address, and it projects to itself.          *)
LEMMA NumType ==
  ASSUME NEW x \in M31
  PROVE  /\ Num(x) \in Addr /\ Num(x) \in Value /\ ~ IsRel(Num(x))
         /\ Num(x).value = Felt(x) /\ Num(x).value[1][1] = x
         /\ Project({Num(x)}) = {Num(x)}
         /\ Immediate(x) = Num(x)
<1>1. Num(x) \in Addr /\ Num(x) \in Value /\ ~ IsRel(Num(x))
  BY MakeType, FeltType DEF Num, Immediate
<1>2. Num(x).value = Felt(x) /\ Num(x).value[1][1] = x
  BY DEF Num, Abs, Felt
<1> QED BY <1>1, <1>2 DEF Project, Num, Immediate

(* Only the number zero is the element zero, which jnz compares with.      *)
LEMMA NumZero == ASSUME NEW x \in M31 PROVE Num(x) = Abs(QZero) <=> x = 0
<1>1. Num(x).value = <<<<x, 0>>, CZero>> /\ Abs(QZero).value = <<CZero, CZero>>
  BY DEF Num, Abs, Felt, QZero
<1>2. x = 0 => Num(x) = Abs(QZero)
  BY DEF Num, Felt, QZero, CZero
<1>3. Num(x) = Abs(QZero) => x = 0
  <2> SUFFICES ASSUME Num(x) = Abs(QZero) PROVE x = 0
    OBVIOUS
  <2>1. <<<<x, 0>>, CZero>> = <<CZero, CZero>>
    BY <1>1
  <2>2. <<x, 0>> = CZero
    BY <2>1
  <2> QED BY <2>2 DEF CZero
<1> QED BY <1>2, <1>3

(* Sum and product of numbers are those of the field.                      *)
LEMMA NumSum ==
  ASSUME NEW x \in M31, NEW y \in M31
  PROVE  /\ Plus(Num(x), Num(y)) = {Num(MAdd(x, y))}
         /\ Times(Num(x), Num(y)) = {Num(MMul(x, y))}
<1>1. P \in Nat /\ P > 3 /\ x \in Nat /\ y \in Nat
  BY PAssumption DEF M31
<1>2. /\ MAdd(0, 0) = 0 /\ MSub(0, 0) = 0
      /\ MMul(x, 0) = 0 /\ MMul(0, y) = 0 /\ MMul(0, 0) = 0 /\ MMul(1, 0) = 0 /\ MMul(2, 0) = 0
  <2>1. x * 0 = 0 /\ 0 * y = 0 /\ 0 % P = 0
    BY <1>1
  <2> QED BY <1>1, <2>1 DEF MAdd, MSub, MMul, PartialReduce
<1>3. MMul(x, y) \in M31 /\ MMul(x, y) \in Nat /\ MMul(x, y) < P
  BY <1>1, MType DEF M31
<1>4. MAdd(MMul(x, y), 0) = MMul(x, y) /\ MSub(MMul(x, y), 0) = MMul(x, y)
  BY <1>1, <1>3 DEF MAdd, MSub, PartialReduce
<1>5. QAdd(Felt(x), Felt(y)) = Felt(MAdd(x, y))
  BY <1>2 DEF QAdd, CAdd, Felt, CZero
<1>6. QMul(Felt(x), Felt(y)) = Felt(MMul(x, y))
  <2> DEFINE u == <<x, 0>>  v == <<y, 0>>  z == MMul(x, y)
  <2>1. CMul(u, v) = <<z, 0>>
    BY <1>2, <1>4 DEF CMul
  <2>2. /\ CMul(CZero, CZero) = CZero /\ CMul(R, CZero) = CZero
        /\ CMul(u, CZero) = CZero /\ CMul(CZero, v) = CZero
    BY <1>2 DEF CMul, CZero, R
  <2>3. CAdd(<<z, 0>>, CZero) = <<z, 0>> /\ CAdd(CZero, CZero) = CZero
    BY <1>2, <1>4 DEF CAdd, CZero
  <2>4. Felt(x)[1] = u /\ Felt(x)[2] = CZero /\ Felt(y)[1] = v /\ Felt(y)[2] = CZero
    BY DEF Felt
  <2> HIDE DEF u, v, z
  <2>5. QMul(Felt(x), Felt(y)) = <<<<z, 0>>, CZero>>
    BY <2>1, <2>2, <2>3, <2>4 DEF QMul
  <2> QED BY <2>5 DEF Felt, z
<1>7. Plus(Num(x), Num(y)) = {Abs(QAdd(Num(x).value, Num(y).value))}
  BY NumType DEF Plus
<1>8. Times(Num(x), Num(y)) = {Abs(QMul(Num(x).value, Num(y).value))}
  BY NumType DEF Times
<1> QED BY <1>5, <1>6, <1>7, <1>8, NumType DEF Num

(* A pointer moves by a number added to it, on either side.                *)
LEMMA NumPlusRel ==
  ASSUME NEW g \in Nat, NEW a \in M31, NEW x \in M31
  PROVE  /\ Plus(Num(x), Rel(g, a)) = {AddM31(Rel(g, a), x)}
         /\ Plus(Rel(g, a), Num(x)) = {AddM31(Rel(g, a), x)}
<1>1. IsRel(Rel(g, a)) /\ ~ IsRel(Num(x))
  BY MakeType, NumType
<1>2. {AddM31(Rel(g, a), p.value[1][1]) : p \in Project({Num(x)})} = {AddM31(Rel(g, a), x)}
  <2> DEFINE n == Num(x)
  <2>1. Project({n}) = {n} /\ n.value[1][1] = x
    BY NumType
  <2> HIDE DEF n
  <2>2. {AddM31(Rel(g, a), p.value[1][1]) : p \in Project({n})} = {AddM31(Rel(g, a), x)}
    BY <2>1
  <2> QED BY <2>2 DEF n
<1> QED BY <1>1, <1>2 DEF Plus

-----------------------------------------------------------------------------
(* The step of a machine whose instruction succeeds in one way.            *)
LEMMA FetchIs ==
  ASSUME NEW h, NEW w, Get(h, state.pc) = {w}, NEW i, Decode(w) = {i}, NEW kind
  PROVE  /\ i.op.kind = kind => Fetch(h, kind) = {i}
         /\ i.op.kind # kind => Fetch(h, kind) = {}
BY DEF Fetch

Succeeds(h, i, n, s) ==
  \/ i.op.kind = "addap" /\ n = h /\ AddApStates(h, state, i) = {s}
  \/ i.op.kind = "assert" /\ AssertMemories(h, state, i) = {n} /\ s = Advance(state, i.op.appp)
  \/ i.op.kind = "call" /\ PushReturn(h, state) = {n} /\ CallStates(n, state, i) = {s}
  \/ i.op.kind = "jnz" /\ n = h /\ JnzStates(h, state, i) = {s}
  \/ i.op.kind = "ret" /\ n = h /\ RetStates(h, state) = {s}

(* It neither ends nor panics, and takes the one step it can.              *)
LEMMA StepIs ==
  ASSUME status = "running", state.pc # FinalPc, NEW h, HintedMemories = {h},
         NEW w, Get(h, state.pc) = {w}, NEW i, Decode(w) = {i},
         NEW n, NEW s, Succeeds(h, i, n, s), [Next]_vars
  PROVE  \/ UNCHANGED vars
         \/ memory' = n /\ state' = s /\ UNCHANGED <<program, status>>
<1>1. CanStep
  <2>1. Fetch(h, i.op.kind) = {i}
    BY FetchIs
  <2> QED BY <2>1 DEF CanStep, Succeeds
<1>2. ~ Panic /\ ~ Halt
  BY <1>1 DEF Panic, Halt
<1>3. ASSUME AddAp PROVE i.op.kind = "addap" /\ memory' = n /\ state' = s
  BY <1>3, FetchIs DEF AddAp, Succeeds
<1>4. ASSUME Assert PROVE i.op.kind = "assert" /\ memory' = n /\ state' = s
  BY <1>4, FetchIs DEF Assert, Succeeds
<1>5. ASSUME Call PROVE i.op.kind = "call" /\ memory' = n /\ state' = s
  BY <1>5, FetchIs DEF Call, Succeeds
<1>6. ~ Jmp
  BY FetchIs DEF Jmp, Succeeds
<1>7. ASSUME Jnz PROVE i.op.kind = "jnz" /\ memory' = n /\ state' = s
  BY <1>7, FetchIs DEF Jnz, Succeeds
<1>8. ASSUME Ret PROVE i.op.kind = "ret" /\ memory' = n /\ state' = s
  BY <1>8, FetchIs DEF Ret, Succeeds
<1> QED BY <1>2, <1>3, <1>4, <1>5, <1>6, <1>7, <1>8, StepFrame DEF Next, Step

-----------------------------------------------------------------------------
(* What the program's instructions do in a frame.                          *)
LEMMA InsertAt ==
  ASSUME NEW m, NEW g, NEW a, NEW v
  PROVE  Insert(m, Rel(g, a), v) = {Put(m, Rel(g, a), v)}
<1>1. IsRel(Rel(g, a))
  BY DEF IsRel, Rel
<1> QED BY <1>1 DEF Insert, ValidAddress

(* A record with these three fields.                                       *)
LEMMA RegistersAre ==
  ASSUME NEW t, DOMAIN t = {"ap", "fp", "pc"}, t = [r \in DOMAIN t |-> t[r]],
         NEW a, NEW f, NEW p, t.ap = a, t.fp = f, t.pc = p
  PROVE  t = [ap |-> a, fp |-> f, pc |-> p]
OBVIOUS

(* How the registers advance past an instruction.                          *)
LEMMA Advances ==
  ASSUME NEW c \in Nat, c + 1 < P, NEW fp, NEW ap, NEW appp
  PROVE  Advance(Regs(c, fp, ap), appp)
           = [ap |-> IncrementAp(Stack(ap), appp), fp |-> Stack(fp), pc |-> Code(c + 1)]
<1>1. AddM31(Code(c), 1) = Code(c + 1)
  <2>1. P \in Nat /\ c < P
    BY PAssumption
  <2> QED BY <2>1, Moves DEF Code, ProgramSegment
<1> DEFINE s == Regs(c, fp, ap)
           t == Advance(s, appp)
<1>2. s = [ap |-> Stack(ap), fp |-> Stack(fp), pc |-> Code(c)]
  BY DEF Regs
<1> HIDE DEF s
<1>3. DOMAIN t = {"ap", "fp", "pc"} /\ t = [r \in DOMAIN t |-> t[r]]
  BY <1>2 DEF Advance
<1>4. t.ap = IncrementAp(Stack(ap), appp) /\ t.fp = Stack(fp) /\ t.pc = Code(c + 1)
  BY <1>1, <1>2 DEF Advance
<1> HIDE DEF t
<1>5. t = [ap |-> IncrementAp(Stack(ap), appp), fp |-> Stack(fp), pc |-> Code(c + 1)]
  BY <1>3, <1>4, RegistersAre
<1> QED BY <1>5 DEF t, s

(* Without ap++ only pc moves.                                             *)
LEMMA AdvancePc ==
  ASSUME NEW c \in Nat, c + 1 < P, NEW fp, NEW ap
  PROVE  Advance(Regs(c, fp, ap), FALSE) = Regs(c + 1, fp, ap)
BY Advances DEF IncrementAp, Regs

(* With it ap does too.                                                    *)
LEMMA AdvanceAp ==
  ASSUME NEW c \in Nat, c + 1 < P, NEW fp, NEW ap \in Nat
  PROVE  /\ Advance(Regs(c, fp, ap), TRUE) = Regs(c + 1, fp, MAdd(ap, 1))
         /\ ap + 1 < P => Advance(Regs(c, fp, ap), TRUE) = Regs(c + 1, fp, ap + 1)
<1>1. AddM31(Stack(ap), 1) = Stack(MAdd(ap, 1))
  BY DEF AddM31, Stack, Rel, IsRel
<1>2. ap + 1 < P => MAdd(ap, 1) = ap + 1
  BY PAssumption DEF MAdd, PartialReduce
<1>3. Advance(Regs(c, fp, ap), TRUE) = Regs(c + 1, fp, MAdd(ap, 1))
  <2>1. IncrementAp(Stack(ap), TRUE) = Stack(MAdd(ap, 1))
    BY <1>1 DEF IncrementAp
  <2>2. Advance(Regs(c, fp, ap), TRUE)
          = [ap |-> IncrementAp(Stack(ap), TRUE), fp |-> Stack(fp), pc |-> Code(c + 1)]
    BY Advances, Zenon
  <2> QED BY <2>1, <2>2 DEF Regs
<1> QED BY <1>2, <1>3

(* [ap] = v, ap++ with v from the operand.                                 *)
LEMMA PushesAre ==
  ASSUME NEW m, NEW c, NEW fp, NEW ap \in Nat, ap < P, Stack(ap) \notin DOMAIN m,
         NEW a, NEW b
  PROVE  LET s == Regs(c, fp, ap)
             Pushing(op, v) == AssertMemories(m, s, Instruction(op, 0, a, b))
                                 = {Put(m, Stack(ap), v)}
             Fp(j) == Get(m, AddM31(Stack(fp), j))
             Ap(j) == Get(m, AddM31(Stack(ap), j))
         IN /\ Pushing(assert_ap_imm_appp, Immediate(a))
            /\ \A v : Fp(a) = {v} => Pushing(assert_ap_deref_fp_appp, v)
            /\ \A y, v : Fp(b) = {y} /\ Plus(Immediate(a), y) = {v} =>
                 Pushing(assert_ap_add_imm_fp_appp, v)
            /\ \A x, y, v : Fp(a) = {x} /\ Fp(b) = {y} /\ Times(x, y) = {v} =>
                 Pushing(assert_ap_mul_fp_fp_appp, v)
            /\ \A x, y, v : Ap(a) = {x} /\ Ap(b) = {y} /\ Plus(x, y) = {v} =>
                 Pushing(assert_ap_add_ap_ap_appp, v)
<1> DEFINE s == Regs(c, fp, ap)
           d == Stack(ap)
           i(op) == Instruction(op, 0, a, b)
           z == OperandArgs(<<0, a, b>>)
<1>1. /\ \A op : i(op).op = op /\ i(op).args = <<0, a, b>> /\ i(op).args[1] = 0
      /\ z[1] = a /\ z[2] = b
  BY DEF Instruction, OperandArgs
<1>2. AddM31(d, 0) = d
  BY Moves, PAssumption DEF Stack, ExecutionSegment
<1>3. /\ \A j : Address(s, "fp", j) = AddM31(Stack(fp), j)
      /\ \A j : Address(s, "ap", j) = AddM31(d, j)
  BY DEF Address, Regs
<1>4. \A v : AssertValue(m, d, v) = {Put(m, d, v)}
  BY InsertAt DEF AssertValue, Stack
<1> HIDE DEF s, d, i, z
<1>5. \A op : op.dest = "ap" => Address(s, i(op).op.dest, i(op).args[1]) = d
  BY <1>1, <1>2, <1>3
<1>6. AssertMemories(m, s, i(assert_ap_imm_appp)) = {Put(m, d, Immediate(a))}
  <2>1. /\ assert_ap_imm_appp.operand.fn = "imm" /\ assert_ap_imm_appp.dest = "ap"
    BY DEF assert_ap_imm_appp, Operation, Imm, Operand
  <2>2. AssertMemories(m, s, i(assert_ap_imm_appp)) = AssertValue(m, d, Immediate(a))
    BY <1>1, <1>5, <2>1 DEF AssertMemories, z
  <2> QED BY <1>4, <2>2
<1>7. ASSUME NEW v, Get(m, AddM31(Stack(fp), a)) = {v}
      PROVE  AssertMemories(m, s, i(assert_ap_deref_fp_appp)) = {Put(m, d, v)}
  <2> DEFINE o == assert_ap_deref_fp_appp
  <2>1. /\ o.operand.fn = "deref" /\ o.operand.x = "fp" /\ o.dest = "ap"
    BY DEF assert_ap_deref_fp_appp, Operation, Operand
  <2> HIDE DEF o
  <2>2. AssertMemories(m, s, i(o)) = AssertCells(m, d, AddM31(Stack(fp), a))
    BY <1>1, <1>3, <1>5, <2>1 DEF AssertMemories, z
  <2>3. AddM31(Stack(fp), a) \in DOMAIN m /\ m[AddM31(Stack(fp), a)] = v
    BY <1>7, GetType
  <2> QED BY <1>4, <2>2, <2>3 DEF AssertCells, o
<1>8. ASSUME NEW o, o.dest = "ap", o.operand.fn \in {"add", "mul"}
      PROVE  AssertMemories(m, s, i(o)) = AssertOperation(m, s, d, o.operand, z)
  <2>1. /\ o.operand.fn # "imm" /\ o.operand.fn # "deref"
        /\ o.operand.fn # "double_deref"
    BY <1>8
  <2> QED BY <1>1, <1>5, <1>8, <2>1 DEF AssertMemories, z
<1> DEFINE Applies(o, x, y, v) == /\ Left(m, s, o, z) = {x} /\ Right(m, s, o, z) = {y}
                                  /\ Apply(o.fn, x, y) = {v}
<1>12. ASSUME NEW o, NEW x, NEW y, NEW v, Applies(o, x, y, v)
       PROVE  AssertOperation(m, s, d, o, z) = {Put(m, d, v)}
  <2> DEFINE vs == UNION {Apply(o.fn, p, q) : p \in Left(m, s, o, z), q \in Right(m, s, o, z)}
  <2>1. vs = {v}
    BY <1>12
  <2>2. AssertOperation(m, s, d, o, z) = UNION {AssertValue(m, d, w) : w \in vs}
    BY <1>12 DEF AssertOperation
  <2> HIDE DEF vs
  <2>3. UNION {AssertValue(m, d, w) : w \in vs} = AssertValue(m, d, v)
    BY <2>1
  <2> QED BY <1>4, <2>2, <2>3
<1> HIDE DEF Applies
<1>9. ASSUME NEW y, NEW v, Get(m, AddM31(Stack(fp), b)) = {y}, Plus(Immediate(a), y) = {v}
      PROVE  AssertMemories(m, s, i(assert_ap_add_imm_fp_appp)) = {Put(m, d, v)}
  <2> DEFINE o == assert_ap_add_imm_fp_appp
  <2>1. /\ o.operand.fn = "add" /\ o.operand.x = "imm" /\ o.operand.y = "fp" /\ o.dest = "ap"
    BY DEF assert_ap_add_imm_fp_appp, Operation, Operand
  <2> HIDE DEF o
  <2>2. Left(m, s, o.operand, z) = {Immediate(a)} /\ Right(m, s, o.operand, z) = {y}
    BY <1>1, <1>3, <1>9, <2>1 DEF Left, Right, RightAddress
  <2>3. Apply(o.operand.fn, Immediate(a), y) = {v}
    BY <1>9, <2>1 DEF Apply
  <2>4. o.operand.fn \in {"add", "mul"}
    BY <2>1
  <2>5. AssertMemories(m, s, i(o)) = {Put(m, d, v)}
    <3>1. AssertMemories(m, s, i(o)) = AssertOperation(m, s, d, o.operand, z)
      BY <1>8, <2>1, <2>4
    <3>2. AssertOperation(m, s, d, o.operand, z) = {Put(m, d, v)}
      <4>1. Applies(o.operand, Immediate(a), y, v)
        BY <2>2, <2>3 DEF Applies
      <4> QED BY <1>12, <4>1
    <3> QED BY <3>1, <3>2
  <2> QED BY <2>5 DEF o
<1>10. ASSUME NEW x, NEW y, NEW v, Get(m, AddM31(Stack(fp), a)) = {x},
              Get(m, AddM31(Stack(fp), b)) = {y}, Times(x, y) = {v}
       PROVE  AssertMemories(m, s, i(assert_ap_mul_fp_fp_appp)) = {Put(m, d, v)}
  <2> DEFINE o == assert_ap_mul_fp_fp_appp
  <2>1. /\ o.operand.fn = "mul" /\ o.operand.x = "fp" /\ o.operand.y = "fp" /\ o.dest = "ap"
    BY DEF assert_ap_mul_fp_fp_appp, Operation, Operand
  <2> HIDE DEF o
  <2>2. Left(m, s, o.operand, z) = {x} /\ Right(m, s, o.operand, z) = {y}
    BY <1>1, <1>3, <1>10, <2>1 DEF Left, Right, LeftAddress, RightAddress
  <2>3. Apply(o.operand.fn, x, y) = {v}
    BY <1>10, <2>1 DEF Apply
  <2>4. o.operand.fn \in {"add", "mul"}
    BY <2>1
  <2>5. AssertMemories(m, s, i(o)) = {Put(m, d, v)}
    <3>1. AssertMemories(m, s, i(o)) = AssertOperation(m, s, d, o.operand, z)
      BY <1>8, <2>1, <2>4
    <3>2. AssertOperation(m, s, d, o.operand, z) = {Put(m, d, v)}
      <4>1. Applies(o.operand, x, y, v)
        BY <2>2, <2>3 DEF Applies
      <4> QED BY <1>12, <4>1
    <3> QED BY <3>1, <3>2
  <2> QED BY <2>5 DEF o
<1>11. ASSUME NEW x, NEW y, NEW v, Get(m, AddM31(d, a)) = {x},
              Get(m, AddM31(d, b)) = {y}, Plus(x, y) = {v}
       PROVE  AssertMemories(m, s, i(assert_ap_add_ap_ap_appp)) = {Put(m, d, v)}
  <2> DEFINE o == assert_ap_add_ap_ap_appp
  <2>1. /\ o.operand.fn = "add" /\ o.operand.x = "ap" /\ o.operand.y = "ap" /\ o.dest = "ap"
    BY DEF assert_ap_add_ap_ap_appp, Operation, Operand
  <2> HIDE DEF o
  <2>2. Left(m, s, o.operand, z) = {x} /\ Right(m, s, o.operand, z) = {y}
    BY <1>1, <1>3, <1>11, <2>1 DEF Left, Right, LeftAddress, RightAddress
  <2>3. Apply(o.operand.fn, x, y) = {v}
    BY <1>11, <2>1 DEF Apply
  <2>4. o.operand.fn \in {"add", "mul"}
    BY <2>1
  <2>5. AssertMemories(m, s, i(o)) = {Put(m, d, v)}
    <3>1. AssertMemories(m, s, i(o)) = AssertOperation(m, s, d, o.operand, z)
      BY <1>8, <2>1, <2>4
    <3>2. AssertOperation(m, s, d, o.operand, z) = {Put(m, d, v)}
      <4>1. Applies(o.operand, x, y, v)
        BY <2>2, <2>3 DEF Applies
      <4> QED BY <1>12, <4>1
    <3> QED BY <3>1, <3>2
  <2> QED BY <2>5 DEF o
<1> QED BY <1>6, <1>7, <1>9, <1>10, <1>11 DEF s, d, i

-----------------------------------------------------------------------------
(* An immediate target is the number itself.                               *)
LEMMA ImmTarget ==
  ASSUME NEW m, NEW s, NEW x \in M31, NEW a, a[1] = x
  PROVE  Target(m, s, Imm, a) = {Num(x)}
<1>1. Imm.fn = "imm"
  BY DEF Imm, Operand
<1>2. OperandValue(m, s, Imm, a) = {Immediate(a[1])}
  BY <1>1 DEF OperandValue
<1> QED BY <1>2, NumType DEF Target

(* addap leaves memory alone and moves ap.                                 *)
LEMMA AddApIs ==
  ASSUME NEW m, NEW c \in Nat, c + 1 < P, NEW fp, NEW ap \in Nat, NEW x \in M31, ap + x < P
  PROVE  AddApStates(m, Regs(c, fp, ap), Instruction(addap_imm, x, 0, 0))
           = {Regs(c + 1, fp, ap + x)}
<1> DEFINE s == Regs(c, fp, ap)
           i == Instruction(addap_imm, x, 0, 0)
           T == Target(m, s, i.op.operand, i.args)
<1>0. x \in Nat /\ P \in Nat /\ ap < P /\ c < P
  BY PAssumption DEF M31
<1>1. T = {Num(x)}
  <2>1. i.op.operand = Imm /\ i.args[1] = x
    BY DEF Instruction, addap_imm, Operation
  <2> HIDE DEF i, s
  <2> QED BY <2>1, ImmTarget
<1>2. s.ap = Stack(ap) /\ s.pc = Code(c)
  BY DEF Regs
<1>3. Plus(Stack(ap), Num(x)) = {Stack(ap + x)}
  <2>1. ap \in M31
    BY <1>0 DEF M31
  <2> QED BY <1>0, <2>1, NumPlusRel, Moves DEF Stack, ExecutionSegment
<1>4. UNION {Plus(s.ap, t) : t \in T} = {Stack(ap + x)}
  <2> HIDE DEF T, s
  <2> QED BY <1>1, <1>2, <1>3
<1>5. AddM31(Code(c), 1) = Code(c + 1)
  BY <1>0, Moves DEF Code, ProgramSegment
<1>6. s = [ap |-> Stack(ap), fp |-> Stack(fp), pc |-> Code(c)]
  BY DEF Regs
<1> HIDE DEF T, s, i
<1> DEFINE u(q) == [s EXCEPT !.ap = q, !.pc = AddM31(@, 1)]
<1>7. AddApStates(m, s, i) = {u(q) : q \in {Stack(ap + x)}}
  BY <1>4 DEF AddApStates, T
<1>8. u(Stack(ap + x)) = Regs(c + 1, fp, ap + x)
  <2> DEFINE t == u(Stack(ap + x))
  <2>1. DOMAIN t = {"ap", "fp", "pc"} /\ t = [r \in DOMAIN t |-> t[r]]
    BY <1>6
  <2>2. t.ap = Stack(ap + x) /\ t.fp = Stack(fp) /\ t.pc = Code(c + 1)
    BY <1>5, <1>6
  <2> HIDE DEF t
  <2>3. t = Regs(c + 1, fp, ap + x)
    BY <2>1, <2>2, RegistersAre DEF Regs
  <2> QED BY <2>3 DEF t
<1> HIDE DEF u
<1> QED BY <1>7, <1>8 DEF s, i

(* A call pushes fp and pc, and goes on relative to pc in a new frame.     *)
LEMMA CallIs ==
  ASSUME NEW m, NEW c \in Nat, c + 1 < P, NEW fp, NEW ap \in Nat, ap + 2 < P,
         NEW x \in M31, NEW d, AddM31(Code(c), x) = Code(d)
  PROVE  LET s == Regs(c, fp, ap)
             n == Put(Put(m, Stack(ap), Stack(fp)), Stack(ap + 1), Code(c + 1))
         IN /\ PushReturn(m, s) = {n}
            /\ CallStates(n, s, Instruction(call_rel_imm, x, 0, 0)) = {Regs(d, ap + 2, ap + 2)}
<1> DEFINE s == Regs(c, fp, ap)
           n == Put(Put(m, Stack(ap), Stack(fp)), Stack(ap + 1), Code(c + 1))
           i == Instruction(call_rel_imm, x, 0, 0)
<1>0. P \in Nat /\ c < P /\ ap < P /\ ap + 1 < P /\ c \in M31
  BY PAssumption DEF M31
<1>1. s.ap = Stack(ap) /\ s.fp = Stack(fp) /\ s.pc = Code(c)
  BY DEF Regs
<1>2. /\ AddM31(Stack(ap), 1) = Stack(ap + 1) /\ AddM31(Stack(ap), 2) = Stack(ap + 2)
      /\ AddM31(Code(c), 1) = Code(c + 1)
  BY <1>0, Moves DEF Stack, ExecutionSegment, Code, ProgramSegment
<1>3. PushReturn(m, s) = {n}
  <2> DEFINE h == Put(m, Stack(ap), Stack(fp))
  <2>1. Insert(m, s.ap, s.fp) = {h}
    BY <1>1, InsertAt DEF Stack
  <2>2. Insert(h, AddM31(s.ap, 1), AddM31(s.pc, 1)) = {n}
    BY <1>1, <1>2, InsertAt DEF Stack
  <2> HIDE DEF h, n, s
  <2> QED BY <2>1, <2>2 DEF PushReturn
<1>4. Destinations(n, s, i) = {Code(d)}
  <2>1. i.op.operand = Imm /\ i.args[1] = x /\ i.op.rel = TRUE
    BY DEF Instruction, call_rel_imm, Operation
  <2>2. Plus(s.pc, Num(x)) = {Code(d)}
    BY <1>0, <1>1, NumPlusRel DEF Code, ProgramSegment
  <2> HIDE DEF i, s, n
  <2>3. Target(n, s, i.op.operand, i.args) = {Num(x)}
    BY <2>1, ImmTarget
  <2>4. Destination(s, i.op.rel, Num(x)) = {Code(d)}
    BY <2>1, <2>2 DEF Destination
  <2> QED BY <2>3, <2>4 DEF Destinations
<1>5. CallStates(n, s, i) = {Regs(d, ap + 2, ap + 2)}
  <2> HIDE DEF n, s, i
  <2>1. CallStates(n, s, i) = {[ap |-> Stack(ap + 2), fp |-> Stack(ap + 2), pc |-> pc] :
                                 pc \in {Code(d)}}
    BY <1>1, <1>2, <1>4 DEF CallStates
  <2> QED BY <2>1 DEF Regs
<1> QED BY <1>3, <1>5

(* A jump on the countdown is taken until that is zero.                    *)
LEMMA JnzIs ==
  ASSUME NEW m, NEW c \in Nat, c + 3 < P, NEW fp, NEW ap \in Nat, NEW b, NEW x \in M31,
         Get(m, AddM31(Stack(fp), b)) = {Num(x)}
  PROVE  JnzStates(m, Regs(c, fp, ap), Instruction(jnz_imm_fp, 3, b, 0))
           = {Regs(IF x = 0 THEN c + 1 ELSE c + 3, fp, ap)}
<1> DEFINE s == Regs(c, fp, ap)
           i == Instruction(jnz_imm_fp, 3, b, 0)
           o == i.op.operand
           L == Left(m, s, o, i.args)
           Rt == Right(m, s, o, i.args)
<1>0. P \in Nat /\ c < P /\ c + 1 < P /\ c \in M31 /\ 3 \in M31
  BY PAssumption DEF M31
<1>1. /\ i.op.operand.x = "imm" /\ i.op.operand.y = "fp" /\ i.op.appp = FALSE
      /\ i.args[1] = 3 /\ i.args[2] = b
  BY DEF Instruction, jnz_imm_fp, Operation, Operand
<1>2. s.fp = Stack(fp) /\ s.pc = Code(c) /\ s.ap = Stack(ap)
  BY DEF Regs
<1> HIDE DEF i, s
<1>3. L = {Num(3)}
  BY <1>0, <1>1, NumType DEF Left
<1>4. Rt = {Num(x)}
  BY <1>1, <1>2 DEF Right, RightAddress, Address
<1> DEFINE Offsets == Project(L)
           Conditions == {v \in Rt : ~IsRel(v)}
<1>5. Offsets = {Num(3)}
  BY <1>0, <1>3, NumType
<1>6. Conditions = {Num(x)}
  BY <1>4, NumType
<1>7. JnzStates(m, s, i) =
        IF Offsets = {} \/ Conditions = {} THEN {}
        ELSE IF Conditions = {Abs(QZero)} THEN {Advance(s, i.op.appp)}
        ELSE {Goto(s, i.op.appp, pc) : pc \in UNION {Plus(s.pc, d) : d \in Offsets}}
  BY DEF JnzStates
<1> HIDE DEF Offsets, Conditions, L, Rt, o
<1>8. Conditions = {Abs(QZero)} <=> x = 0
  BY <1>6, NumZero
<1>9. CASE x = 0
  <2>1. JnzStates(m, s, i) = {Advance(s, FALSE)}
    BY <1>1, <1>5, <1>6, <1>7, <1>8, <1>9
  <2>2. Advance(s, FALSE) = Regs(c + 1, fp, ap)
    BY <1>0, AdvancePc DEF s
  <2> QED BY <1>9, <2>1, <2>2 DEF s, i
<1>10. CASE x # 0
  <2>1. Plus(s.pc, Num(3)) = {Code(c + 3)}
    BY <1>0, <1>2, NumPlusRel, Moves DEF Code, ProgramSegment
  <2>2. UNION {Plus(s.pc, d) : d \in Offsets} = {Code(c + 3)}
    BY <1>5, <2>1
  <2>3. JnzStates(m, s, i) = {Goto(s, FALSE, pc) : pc \in {Code(c + 3)}}
    BY <1>1, <1>5, <1>6, <1>7, <1>8, <1>10, <2>2
  <2>4. Goto(s, FALSE, Code(c + 3)) = Regs(c + 3, fp, ap)
    <3> DEFINE t == Goto(s, FALSE, Code(c + 3))
    <3>1. s = [ap |-> Stack(ap), fp |-> Stack(fp), pc |-> Code(c)]
      BY DEF Regs, s
    <3>2. DOMAIN t = {"ap", "fp", "pc"} /\ t = [r \in DOMAIN t |-> t[r]]
      BY <3>1 DEF Goto
    <3>3. t.ap = Stack(ap) /\ t.fp = Stack(fp) /\ t.pc = Code(c + 3)
      BY <3>1 DEF Goto, IncrementAp
    <3> HIDE DEF t
    <3>4. t = Regs(c + 3, fp, ap)
      BY <3>2, <3>3, RegistersAre DEF Regs
    <3> QED BY <3>4 DEF t
  <2> QED BY <1>10, <2>3, <2>4 DEF s, i
<1> QED BY <1>9, <1>10

(* A return goes to the fp and pc below fp.                                *)
LEMMA RetIs ==
  ASSUME NEW m, NEW c, NEW fp, NEW ap, NEW f \in Addr, NEW p \in Addr,
         Get(m, SubM31(Stack(fp), 2)) = {f}, Get(m, SubM31(Stack(fp), 1)) = {p}
  PROVE  RetStates(m, Regs(c, fp, ap)) = {[ap |-> Stack(ap), fp |-> f, pc |-> p]}
<1> DEFINE s == Regs(c, fp, ap)
           saved == Project(Get(m, SubM31(s.fp, 2))) \X Project(Get(m, SubM31(s.fp, 1)))
<1>1. s.fp = Stack(fp)
  BY DEF Regs
<1>2. saved = {<<f, p>>}
  <2>1. Project({f}) = {f} /\ Project({p}) = {p}
    BY DEF Project
  <2> HIDE DEF s
  <2> QED BY <1>1, <2>1
<1>3. s = [ap |-> Stack(ap), fp |-> Stack(fp), pc |-> Code(c)]
  BY DEF Regs
<1> HIDE DEF s
<1> DEFINE u(x, y) == [s EXCEPT !.fp = x, !.pc = y]
<1>4. RetStates(m, s) = {u(x[1], x[2]) : x \in saved}
  BY DEF RetStates
<1>5. u(f, p) = [ap |-> Stack(ap), fp |-> f, pc |-> p]
  <2> DEFINE t == u(f, p)
  <2>1. DOMAIN t = {"ap", "fp", "pc"} /\ t = [r \in DOMAIN t |-> t[r]]
    BY <1>3
  <2>2. t.ap = Stack(ap) /\ t.fp = f /\ t.pc = p
    BY <1>3
  <2> HIDE DEF t
  <2>3. t = [ap |-> Stack(ap), fp |-> f, pc |-> p]
    BY <2>1, <2>2, RegistersAre
  <2> QED BY <2>3 DEF t
<1> HIDE DEF u, saved
<1>6. {u(x[1], x[2]) : x \in saved} = {u(f, p)}
  BY <1>2
<1> QED BY <1>4, <1>5, <1>6 DEF s

(* [fp] = [[fp + b] + e] and [ap - 1] = [[fp + b] + e], with the cell that *)
(* is pointed to unknown.                                                  *)
LEMMA OutputsAre ==
  ASSUME NEW m, NEW s, NEW op, op.operand = Operand("double_deref", "fp", "fp"),
         NEW a, NEW b, NEW e \in M31, NEW v,
         Get(m, AddM31(s.fp, b)) = {OutputCell}, Get(m, Address(s, op.dest, a)) = {v},
         Rel(OutputSegment, e) \notin DOMAIN m
  PROVE  AssertMemories(m, s, Instruction(op, a, b, e)) = {Put(m, Rel(OutputSegment, e), v)}
<1> DEFINE i == Instruction(op, a, b, e)
           z == OperandArgs(i.args)
           d == Address(s, op.dest, a)
           src == Rel(OutputSegment, e)
<1>1. i.op = op /\ i.args[1] = a /\ z[1] = b /\ z[2] = e
  BY DEF Instruction, OperandArgs
<1> HIDE DEF i
<1>2. op.operand.fn = "double_deref" /\ op.operand.x = "fp"
  BY DEF Operand
<1>3. AddM31(OutputCell, e) = src /\ src \in Addr
  <2>1. e \in Nat /\ e < P /\ P \in Nat /\ 0 < P /\ 0 + e = e
    BY PAssumption DEF M31
  <2>2. AddM31(Rel(2, 0), e) = Rel(2, 0 + e)
    BY <2>1, Moves
  <2>3. Rel(2, e) \in Addr
    BY <2>1, Moves
  <2> QED BY <2>1, <2>2, <2>3 DEF OutputCell, OutputSegment
<1> HIDE DEF z
<1>4. OuterAddresses(m, s, op.operand, z) = {src}
  <2>1. {AddM31(x, z[2]) : x \in Get(m, Address(s, op.operand.x, z[1]))} = {src}
    BY <1>1, <1>2, <1>3 DEF Address
  <2>2. Project({src}) = {src}
    BY <1>3 DEF Project
  <2> QED BY <2>1, <2>2 DEF OuterAddresses
<1>5. AssertMemories(m, s, i) = UNION {AssertCells(m, d, x) : x \in OuterAddresses(m, s, op.operand, z)}
  <2>1. op.operand.fn # "imm" /\ op.operand.fn # "deref"
    BY <1>2
  <2> QED BY <1>1, <1>2, <2>1 DEF AssertMemories, z
<1>6. AssertMemories(m, s, i) = AssertCells(m, d, src)
  BY <1>4, <1>5
<1>7. d \in DOMAIN m /\ m[d] = v
  BY GetType
<1>8. AssertCells(m, d, src) = Insert(m, src, v)
  BY <1>7 DEF AssertCells
<1> QED BY <1>6, <1>8, InsertAt DEF i

(* The hint is the one at offset 1: it writes the index to [fp].           *)
LEMMA HintIs ==
  ASSUME program.hints = {1}, NEW c, state.pc = Code(c)
  PROVE  /\ c # 1 => HintedMemories = {memory}
         /\ \A k, n : c = 1 /\ state.fp = Stack(k) /\ program.input = {Felt(n)} =>
              HintedMemories = {Put(memory, Stack(k), Num(n))}
<1>1. IsRel(state.pc) /\ state.pc.offset = c
  BY DEF Code, Rel, IsRel
<1>2. c # 1 => HintedMemories = {memory}
  BY <1>1 DEF HintPending, HintedMemories
<1>3. ASSUME NEW k, NEW n, c = 1, state.fp = Stack(k), program.input = {Felt(n)}
      PROVE  HintedMemories = {Put(memory, Stack(k), Num(n))}
  <2>1. HintedMemories = UNION {Insert(memory, state.fp, Abs(q)) : q \in program.input}
    BY <1>1, <1>3 DEF HintPending, HintedMemories
  <2>2. Insert(memory, Stack(k), Abs(Felt(n))) = {Put(memory, Stack(k), Num(n))}
    BY InsertAt DEF Stack, Num
  <2> QED BY <1>3, <2>1, <2>2
<1> QED BY <1>2, <1>3

-----------------------------------------------------------------------------
(* A write to a cell that is free keeps what is known.                     *)
LEMMA WrittenIs ==
  ASSUME NEW m, NEW a, a \notin DOMAIN m, NEW v
  PROVE  Extends(Put(m, a, v), m) /\ Get(Put(m, a, v), a) = {v}
<1> DEFINE w == Put(m, a, v)
<1>1. ASSUME NEW b \in DOMAIN m PROVE b \in DOMAIN w /\ w[b] = m[b]
  BY DEF Put
<1>2. Get(w, a) = {v}
  BY PutGet
<1> HIDE DEF w
<1>3. Extends(w, m)
  BY <1>1 DEF Extends
<1> QED BY <1>2, <1>3 DEF w

(* Nothing is known of a cell of the free part of a segment.               *)
LEMMA FreeIs ==
  ASSUME NEW m, NEW g, NEW k \in Nat, Free(m, g, k), NEW j \in Nat, j >= k
  PROVE  Rel(g, j) \notin DOMAIN m
<1>1. IsRel(Rel(g, j)) /\ Rel(g, j).segment = g /\ Rel(g, j).offset = j
  BY DEF IsRel, Rel
<1>2. ~ (j < k)
  OBVIOUS
<1> QED BY <1>1, <1>2 DEF Free

(* A write leaves the other segments as free as they were, and its own     *)
(* from the next cell on.                                                  *)
LEMMA FreeStays ==
  ASSUME NEW m, IsMemory(m), NEW g, NEW k \in Nat, Free(m, g, k),
         NEW h, NEW j \in Nat, NEW v
  PROVE  /\ h # g => Free(Put(m, Rel(h, j), v), g, k)
         /\ j < k + 1 => Free(Put(m, Rel(h, j), v), g, k + 1)
<1>1. Rel(h, j).segment = h /\ Rel(h, j).offset = j
  BY DEF Rel
<1>2. DOMAIN Put(m, Rel(h, j), v) = DOMAIN m \cup {Rel(h, j)}
  BY PutIs
<1>3. \A a \in DOMAIN m : IsRel(a) => a.offset \in Int
  BY ValueCases, MakeType DEF IsMemory, M31
<1>4. \A a \in DOMAIN m : IsRel(a) /\ a.segment = g => a.offset < k /\ a.offset < k + 1
  BY <1>3 DEF Free
<1> QED BY <1>1, <1>2, <1>4 DEF Free

(* What the points say of memory is kept by a larger one.                  *)
LEMMA KnownGrows ==
  ASSUME NEW m, NEW w, Extends(w, m)
  PROVE  /\ Loaded(m) => Loaded(w)
         /\ \A n : Claimed(m, n) => Claimed(w, n)
         /\ \A n, k : Called(m, n, k) => Called(w, n, k)
         /\ \A n, k : Calls(m, n, k) => Calls(w, n, k)
<1>1. \A a, v : Get(m, a) = {v} => Get(w, a) = {v}
  BY GetGrows
<1>2. \A n, k : Called(m, n, k) => Called(w, n, k)
  <2> SUFFICES ASSUME NEW n, NEW k, Called(m, n, k) PROVE Called(w, n, k)
    OBVIOUS
  <2> USE <1>1
  <2>1. Get(w, Stack(Top(k) - 5)) = {Num(SquareFibonacci[k])}
    BY DEF Called
  <2>2. Get(w, Stack(Top(k) - 4)) = {Num(SquareFibonacci[k + 1])}
    BY DEF Called
  <2>3. Get(w, Stack(Top(k) - 3)) = {Num(n - k)}
    BY DEF Called
  <2>4. Get(w, Stack(Top(k) - 2)) = {Stack(IF k = 0 THEN 3 ELSE Top(k - 1))}
    BY Zenon DEF Called
  <2>5. Get(w, Stack(Top(k) - 1)) = {Code(IF k = 0 THEN 6 ELSE 18)}
    BY Zenon DEF Called
  <2> QED BY <2>1, <2>2, <2>3, <2>4, <2>5 DEF Called
<1>3. Loaded(m) => Loaded(w)
  BY <1>1 DEF Loaded
<1>4. \A n : Claimed(m, n) => Claimed(w, n)
  BY <1>1 DEF Claimed
<1> QED BY <1>2, <1>3, <1>4 DEF Calls

(* What is assumed of the constants makes the program fit.                 *)
LEMMA ItFits ==
  ASSUME StackFits, NEW n \in ClaimIndices, program.code = FibonacciCode, IsProgram(program)
  PROVE  /\ P \in Nat /\ P > 171 /\ n \in Nat /\ 7 * n + 10 < P
         /\ Top(n) \in Nat /\ Top(n) + 1 < P
<1>1. 171 \in M31
  <2>1. FibonacciCode[9] = Encode(171, 0, 0, 0) /\ 9 \in DOMAIN FibonacciCode
    BY DEF FibonacciCode
  <2>2. FibonacciCode \in Seq(QM31)
    BY DEF IsProgram
  <2>3. Encode(171, 0, 0, 0) \in QM31
    BY <2>1, <2>2
  <2> QED BY <2>3 DEF Encode, QM31, CM31
<1>2. P \in Nat /\ P > 171
  BY <1>1, PAssumption DEF M31
<1> QED BY <1>2 DEF StackFits, Top

(* The step that is due where the instruction is known and succeeds.       *)
LEMMA StepFrom ==
  ASSUME status = "running", [Next]_vars, Loaded(memory), program.hints = {1},
         NEW c \in 0 .. 18, c # 1, state.pc = Code(c),
         NEW i, Decode(Word(c)) = {i}, NEW w, NEW s, Succeeds(memory, i, w, s)
  PROVE  \/ UNCHANGED vars
         \/ memory' = w /\ state' = s /\ UNCHANGED <<program, status>>
<1>1. state.pc # FinalPc
  BY DEF Code, FinalPc, Rel, ProgramSegment
<1>2. HintedMemories = {memory}
  BY HintIs
<1>3. Get(memory, state.pc) = {Word(c)}
  BY DEF Loaded
<1> QED BY <1>1, <1>2, <1>3, StepIs

(* The same where the hint writes first, to a cell that is free.           *)
LEMMA StepHinted ==
  ASSUME status = "running", [Next]_vars, Loaded(memory), program.hints = {1},
         NEW n, program.input = {Felt(n)}, NEW k, state.fp = Stack(k), state.pc = Code(1),
         Stack(k) \notin DOMAIN memory,
         NEW i, Decode(Word(1)) = {i}, NEW w, NEW s,
         Succeeds(Put(memory, Stack(k), Num(n)), i, w, s)
  PROVE  \/ UNCHANGED vars
         \/ memory' = w /\ state' = s /\ UNCHANGED <<program, status>>
<1> DEFINE h == Put(memory, Stack(k), Num(n))
<1>1. state.pc # FinalPc
  BY DEF Code, FinalPc, Rel, ProgramSegment
<1>2. HintedMemories = {h}
  BY HintIs
<1>3. Loaded(h)
  BY WrittenIs, KnownGrows
<1>4. Get(h, state.pc) = {Word(1)}
  BY <1>3 DEF Loaded
<1> HIDE DEF h
<1> QED BY <1>1, <1>2, <1>4, StepIs DEF h

-----------------------------------------------------------------------------
(* The kind of each instruction, and what it does with its operands.       *)
LEMMA InstructionKinds ==
  /\ addap_imm.kind = "addap" /\ ret.kind = "ret"
  /\ call_rel_imm.kind = "call" /\ jnz_imm_fp.kind = "jnz"
  /\ \A op \in {assert_fp_double_deref_fp, assert_ap_double_deref_fp} :
       /\ op.kind = "assert" /\ op.appp = FALSE
       /\ op.operand = Operand("double_deref", "fp", "fp")
  /\ assert_fp_double_deref_fp.dest = "fp" /\ assert_ap_double_deref_fp.dest = "ap"
  /\ \A op \in {assert_ap_imm_appp, assert_ap_deref_fp_appp, assert_ap_add_imm_fp_appp,
                assert_ap_mul_fp_fp_appp, assert_ap_add_ap_ap_appp} :
       op.kind = "assert" /\ op.appp = TRUE
  /\ \A op, a, b, c : Instruction(op, a, b, c).op = op
BY DEF addap_imm, ret, call_rel_imm, jnz_imm_fp, assert_fp_double_deref_fp,
       assert_ap_double_deref_fp, assert_ap_imm_appp, assert_ap_deref_fp_appp,
       assert_ap_add_imm_fp_appp, assert_ap_mul_fp_fp_appp, assert_ap_add_ap_ap_appp,
       Operation, Instruction

(* The index and the file stay what they are.                              *)
LEMMA StaysAsClaimed ==
  ASSUME NEW n \in ClaimIndices, Known(n), status = "running", Point(n), UNCHANGED vars
  PROVE  RunsAsClaimed'
<1>1. Known(n)' /\ Point(n)' /\ status' = "running"
  BY DEF vars, Known, Point, Entering, Passing, Testing, Computing, Returning, Concluding
<1> QED BY <1>1 DEF RunsAsClaimed

(* A step from one point to another that only adds to memory.              *)
LEMMA GoesOn ==
  ASSUME NEW n \in ClaimIndices, Known(n), status = "running",
         UNCHANGED <<program, status>>, Extends(memory', memory), Point(n)'
  PROVE  RunsAsClaimed'
<1>1. Loaded(memory')
  BY KnownGrows DEF Known
<1>2. Known(n)'
  BY <1>1 DEF Known
<1> QED BY <1>2 DEF RunsAsClaimed

(* Extending is reflexive,                                                 *)
LEMMA SameExtends == ASSUME NEW m PROVE Extends(m, m)
BY DEF Extends

(* and transitive.                                                         *)
LEMMA ExtendsTwice ==
  ASSUME NEW m, NEW h, NEW w, Extends(h, m), Extends(w, h) PROVE Extends(w, m)
BY DEF Extends

(* [ap] = v, ap++ with nothing above ap.                                   *)
Pushes(c, fp, ap, i, v) ==
  /\ c \in 0 .. 18 /\ c # 1 /\ ap \in Nat /\ ap + 1 < P
  /\ state = Regs(c, fp, ap)
  /\ Free(memory, ExecutionSegment, ap) /\ Free(memory, OutputSegment, 1)
  /\ Decode(Word(c)) = {i} /\ i.op.kind = "assert" /\ i.op.appp = TRUE
  /\ AssertMemories(memory, state, i) = {Put(memory, Stack(ap), v)}

(* It leaves the machine one instruction and one cell further.             *)
LEMMA PushStep ==
  ASSUME TypeOK, status = "running", [Next]_vars, ~ UNCHANGED vars, Loaded(memory),
         program.hints = {1}, P > 171,
         NEW c, NEW fp, NEW ap, NEW i, NEW v, Pushes(c, fp, ap, i, v)
  PROVE  /\ state' = Regs(c + 1, fp, ap + 1)
         /\ UNCHANGED <<program, status>>
         /\ Extends(memory', memory)
         /\ Get(memory', Stack(ap)) = {v}
         /\ Free(memory', ExecutionSegment, ap + 1)
         /\ Free(memory', OutputSegment, 1)
<1> DEFINE w == Put(memory, Stack(ap), v)
           s == Regs(c + 1, fp, ap + 1)
<1>0. Pushes(c, fp, ap, i, v)
  OBVIOUS
<1>1. /\ c \in 0 .. 18 /\ c # 1 /\ ap \in Nat /\ ap + 1 < P
      /\ state = Regs(c, fp, ap)
      /\ Free(memory, ExecutionSegment, ap) /\ Free(memory, OutputSegment, 1)
      /\ Decode(Word(c)) = {i} /\ i.op.kind = "assert" /\ i.op.appp = TRUE
      /\ AssertMemories(memory, state, i) = {w}
      /\ P \in Nat /\ c \in Nat /\ c + 1 < P
  BY <1>0, PAssumption DEF Pushes
<1>2. Advance(state, i.op.appp) = s
  <2>1. Advance(Regs(c, fp, ap), TRUE) = Regs(c + 1, fp, ap + 1)
    BY <1>1, AdvanceAp
  <2> QED BY <1>1, <2>1
<1>3. Succeeds(memory, i, w, s)
  BY <1>1, <1>2 DEF Succeeds
<1>4. state.pc = Code(c)
  BY <1>1 DEF Regs
<1>5. /\ Extends(w, memory) /\ Get(w, Stack(ap)) = {v}
  <2>1. Stack(ap) \notin DOMAIN memory
    BY <1>1, FreeIs DEF Stack
  <2> QED BY <2>1, WrittenIs
<1>6. Free(w, ExecutionSegment, ap + 1) /\ Free(w, OutputSegment, 1)
  <2>1. ExecutionSegment # OutputSegment /\ IsMemory(memory) /\ ap < ap + 1 /\ 1 \in Nat
    BY <1>1 DEF ExecutionSegment, OutputSegment, TypeOK
  <2> QED BY <1>1, <2>1, FreeStays DEF Stack
<1> HIDE DEF w, s
<1>7. memory' = w /\ state' = s /\ UNCHANGED <<program, status>>
  BY <1>1, <1>3, <1>4, StepFrom
<1> QED BY <1>5, <1>6, <1>7 DEF s

-----------------------------------------------------------------------------
(* Main, up to the first call.                                             *)
LEMMA StepEntering ==
  ASSUME StackFits, TypeOK, NEW n \in ClaimIndices, Known(n), status = "running",
         [Next]_vars, ~ UNCHANGED vars, Entering
  PROVE  RunsAsClaimed'
<1>0. /\ P \in Nat /\ P > 171 /\ n \in M31
      /\ Loaded(memory) /\ program.hints = {1} /\ program.input = {Felt(n)}
  BY ItFits DEF Known, TypeOK, M31
<1>2. CASE state = Regs(0, 3, 3)
  <2> DEFINE i == Instruction(addap_imm, 1, 0, 0)
             s == Regs(1, 3, 4)
  <2>1. Decode(Word(0)) = {i}
    BY InstructionsAre
  <2>2. AddApStates(memory, state, i) = {s}
    <3>1. 1 \in M31
      BY <1>0 DEF M31
    <3> QED BY <1>0, <1>2, <3>1, AddApIs
  <2>3. Succeeds(memory, i, memory, s)
    BY <2>2, InstructionKinds DEF Succeeds
  <2>4. state.pc = Code(0)
    BY <1>2 DEF Regs
  <2> HIDE DEF i, s
  <2>5. memory' = memory /\ state' = s /\ UNCHANGED <<program, status>>
    BY <1>0, <2>1, <2>3, <2>4, StepFrom
  <2>6. Point(n)'
    BY <2>5 DEF Point, Entering, s
  <2> QED BY <2>5, <2>6, GoesOn, SameExtends
<1>3. CASE state = Regs(1, 3, 4)
  <2> DEFINE i == Instruction(assert_fp_double_deref_fp, 0, Neg(3), 0)
             h == Put(memory, Stack(3), Num(n))
             w == Put(h, Rel(OutputSegment, 0), Num(n))
             s == Regs(2, 3, 4)
  <2>1. Decode(Word(1)) = {i}
    BY InstructionsAre
  <2>2. state.fp = Stack(3) /\ state.pc = Code(1)
    BY <1>3 DEF Regs
  <2>3. /\ Stack(3) \notin DOMAIN memory /\ Rel(OutputSegment, 0) \notin DOMAIN memory
        /\ Rel(OutputSegment, 0) # Stack(3)
    BY FreeIs DEF Entering, Stack, ExecutionSegment, OutputSegment, Rel
  <2>4. Extends(h, memory) /\ Get(h, Stack(3)) = {Num(n)} /\ Loaded(h)
    BY <1>0, <2>3, WrittenIs, KnownGrows
  <2>5. Rel(OutputSegment, 0) \notin DOMAIN h
    <3>1. DOMAIN h = DOMAIN memory \cup {Stack(3)}
      BY PutIs
    <3> HIDE DEF h
    <3> QED BY <2>3, <3>1
  <2>6. /\ AddM31(Stack(3), Neg(3)) = Stack(0) /\ AddM31(Stack(3), 0) = Stack(3)
        /\ 0 \in M31
    BY <1>0, Moves DEF Stack, ExecutionSegment, M31
  <2>7. AssertMemories(h, state, i) = {w}
    <3> DEFINE op == assert_fp_double_deref_fp
    <3>1. op.operand = Operand("double_deref", "fp", "fp") /\ op.dest = "fp"
      BY InstructionKinds
    <3> HIDE DEF op, h
    <3>2. Get(h, AddM31(state.fp, Neg(3))) = {OutputCell}
      BY <2>2, <2>4, <2>6 DEF Loaded
    <3>3. Get(h, Address(state, op.dest, 0)) = {Num(n)}
      BY <2>2, <2>4, <2>6, <3>1 DEF Address
    <3>4. AssertMemories(h, state, Instruction(op, 0, Neg(3), 0)) = {w}
      BY <2>5, <2>6, <3>1, <3>2, <3>3, OutputsAre
    <3> QED BY <3>4 DEF op
  <2>8. Succeeds(h, i, w, s)
    <3>1. Advance(state, FALSE) = s
      <4>1. \A c \in Nat : c + 1 < P => Advance(Regs(c, 3, 4), FALSE) = Regs(c + 1, 3, 4)
        BY AdvancePc
      <4>2. 1 \in Nat /\ 1 + 1 < P /\ 1 + 1 = 2
        BY <1>0
      <4> QED BY <1>3, <4>1, <4>2
    <3>2. i.op.kind = "assert" /\ i.op.appp = FALSE
      BY InstructionKinds
    <3> HIDE DEF i, h, w, s
    <3> QED BY <2>7, <3>1, <3>2 DEF Succeeds
  <2>9. /\ Extends(w, memory) /\ Get(w, Rel(OutputSegment, 0)) = {Num(n)}
        /\ Get(w, Stack(3)) = {Num(n)}
    <3> HIDE DEF h
    <3> QED BY <2>4, <2>5, WrittenIs, ExtendsTwice, GetGrows
  <2>10. Free(w, ExecutionSegment, 4) /\ Free(w, OutputSegment, 1)
    <3>1. IsMemory(memory) /\ IsMemory(h)
      <4>1. Stack(3) \in Addr /\ Num(n) \in Value
        <5>1. 3 \in M31
          BY <1>0 DEF M31
        <5> QED BY <1>0, <5>1, MakeType, NumType DEF Stack, ExecutionSegment, Addr
      <4> QED BY <4>1, PutType DEF TypeOK
    <3>2. Free(h, ExecutionSegment, 4) /\ Free(h, OutputSegment, 0)
      BY <3>1, FreeStays DEF Entering, Stack, ExecutionSegment, OutputSegment
    <3> HIDE DEF h
    <3> QED BY <3>1, <3>2, FreeStays DEF ExecutionSegment, OutputSegment
  <2> HIDE DEF i, w, s
  <2>11. memory' = w /\ state' = s /\ UNCHANGED <<program, status>>
    BY <1>0, <2>1, <2>2, <2>3, <2>8, StepHinted DEF h
  <2>12. Passing(n, 2)'
    BY <2>9, <2>10, <2>11 DEF Passing, Claimed, s
  <2> QED BY <2>9, <2>11, <2>12, GoesOn DEF Point
<1> QED BY <1>2, <1>3 DEF Entering

-----------------------------------------------------------------------------
(* A call enters the next frame, with its words pushed and all else kept.  *)
LEMMA CallStep ==
  ASSUME TypeOK, status = "running", [Next]_vars, ~ UNCHANGED vars, Loaded(memory),
         program.hints = {1}, P > 171,
         NEW c \in 0 .. 18, c # 1, NEW fp \in Nat, fp < P, NEW ap \in Nat, ap + 2 < P,
         state = Regs(c, fp, ap), Free(memory, ExecutionSegment, ap),
         Free(memory, OutputSegment, 1), NEW x \in M31, NEW d, AddM31(Code(c), x) = Code(d),
         Decode(Word(c)) = {Instruction(call_rel_imm, x, 0, 0)}
  PROVE  /\ state' = Regs(d, ap + 2, ap + 2)
         /\ UNCHANGED <<program, status>>
         /\ Extends(memory', memory)
         /\ Get(memory', Stack(ap)) = {Stack(fp)}
         /\ Get(memory', Stack(ap + 1)) = {Code(c + 1)}
         /\ Free(memory', ExecutionSegment, ap + 2)
         /\ Free(memory', OutputSegment, 1)
<1> DEFINE i == Instruction(call_rel_imm, x, 0, 0)
           h == Put(memory, Stack(ap), Stack(fp))
           w == Put(h, Stack(ap + 1), Code(c + 1))
           s == Regs(d, ap + 2, ap + 2)
<1>1. P \in Nat /\ c \in Nat /\ c + 1 < P /\ ap < P /\ ap + 1 \in Nat
  BY PAssumption
<1>2. PushReturn(memory, state) = {w} /\ CallStates(w, state, i) = {s}
  BY <1>1, CallIs
<1>3. state.pc = Code(c)
  BY DEF Regs
<1>4. i.op.kind = "call"
  BY InstructionKinds
<1>5. Stack(ap) \notin DOMAIN memory /\ IsMemory(memory)
  BY FreeIs DEF Stack, TypeOK
<1>6. Extends(h, memory) /\ Get(h, Stack(ap)) = {Stack(fp)} /\ IsMemory(h)
  <2>1. Stack(ap) \in Addr /\ Stack(fp) \in Value
    BY <1>1, Moves DEF Stack, ExecutionSegment
  <2> QED BY <1>5, <2>1, WrittenIs, PutType
<1>7. Free(h, ExecutionSegment, ap + 1) /\ Free(h, OutputSegment, 1)
  <2>1. ap < ap + 1 /\ ExecutionSegment # OutputSegment /\ 1 \in Nat
    BY DEF ExecutionSegment, OutputSegment
  <2> QED BY <1>5, <2>1, FreeStays DEF Stack
<1> HIDE DEF h
<1>8. Stack(ap + 1) \notin DOMAIN h
  BY <1>1, <1>7, FreeIs DEF Stack
<1>9. Extends(w, h) /\ Get(w, Stack(ap + 1)) = {Code(c + 1)}
  BY <1>8, WrittenIs
<1>10. Free(w, ExecutionSegment, ap + 2) /\ Free(w, OutputSegment, 1)
  <2>1. /\ ap + 1 < (ap + 1) + 1 /\ (ap + 1) + 1 = ap + 2
        /\ ExecutionSegment # OutputSegment /\ 1 \in Nat
    BY DEF ExecutionSegment, OutputSegment
  <2>2. Free(w, ExecutionSegment, (ap + 1) + 1) /\ Free(w, OutputSegment, 1)
    BY <1>1, <1>6, <1>7, <2>1, FreeStays DEF Stack
  <2> QED BY <2>1, <2>2
<1>11. Extends(w, memory) /\ Get(w, Stack(ap)) = {Stack(fp)}
  BY <1>6, <1>9, ExtendsTwice, GetGrows
<1> HIDE DEF i, w, s
<1>12. Succeeds(memory, i, w, s)
  BY <1>2, <1>4 DEF Succeeds
<1>13. Decode(Word(c)) = {i}
  BY DEF i
<1>14. memory' = w /\ state' = s /\ UNCHANGED <<program, status>>
  BY <1>3, <1>12, <1>13, StepFrom
<1> QED BY <1>9, <1>10, <1>11, <1>14 DEF s

(* The first call: its arguments are 1, 1 and the index.                   *)
LEMMA MainCalls ==
  ASSUME NEW m, NEW n \in Nat, Get(m, Stack(4)) = {Num(1)}, Get(m, Stack(5)) = {Num(1)},
         Get(m, Stack(6)) = {Num(n)}, Get(m, Stack(7)) = {Stack(3)}, Get(m, Stack(8)) = {Code(6)}
  PROVE  Calls(m, n, 0)
<1>1. /\ Top(0) - 5 = 4 /\ Top(0) - 4 = 5 /\ Top(0) - 3 = 6 /\ Top(0) - 2 = 7 /\ Top(0) - 1 = 8
      /\ n - 0 = n /\ 0 + 1 = 1
  BY DEF Top
<1>2. SquareFibonacci[0] = 1 /\ SquareFibonacci[1] = 1
  BY SquareFibonacciIs DEF Term
<1>3. Called(m, n, 0)
  BY <1>1, <1>2 DEF Called
<1>4. \A j \in 0 .. 0 : j = 0
  OBVIOUS
<1> QED BY <1>3, <1>4 DEF Calls

(* Main passes 1, 1 and the index, and calls.                              *)
LEMMA StepPassing ==
  ASSUME StackFits, TypeOK, NEW n \in ClaimIndices, Known(n), status = "running",
         [Next]_vars, ~ UNCHANGED vars, NEW c \in 2 .. 5, Passing(n, c)
  PROVE  RunsAsClaimed'
<1>0. /\ P \in Nat /\ P > 171 /\ n \in M31 /\ n \in Nat
      /\ Loaded(memory) /\ program.hints = {1}
  BY ItFits DEF Known, TypeOK, M31
<1>1. /\ c \in 0 .. 18 /\ c # 1 /\ c + 2 \in Nat /\ (c + 2) + 1 < P /\ c + 2 < P
      /\ 1 \in M31 /\ Immediate(1) = Num(1)
  <2>1. 1 \in M31
    BY <1>0 DEF M31
  <2>2. Immediate(1) = Num(1)
    BY <2>1, NumType
  <2>3. c \in 0 .. 18 /\ c # 1 /\ c + 2 \in Nat /\ (c + 2) + 1 < P /\ c + 2 < P
    BY <1>0
  <2> QED BY <2>1, <2>2, <2>3
<1>2. state = Regs(c, 3, c + 2) /\ Stack(c + 2) \notin DOMAIN memory
  BY <1>1, FreeIs DEF Passing, Stack
<1>3. ASSUME c # 5
      PROVE  \E v : /\ state' = Regs(c + 1, 3, (c + 2) + 1)
                    /\ UNCHANGED <<program, status>>
                    /\ Extends(memory', memory)
                    /\ Get(memory', Stack(c + 2)) = {v}
                    /\ v = IF c = 4 THEN Num(n) ELSE Num(1)
                    /\ Free(memory', ExecutionSegment, (c + 2) + 1)
                    /\ Free(memory', OutputSegment, 1)
  <2>1. PICK i, v : /\ Decode(Word(c)) = {i} /\ i.op.kind = "assert" /\ i.op.appp = TRUE
                    /\ AssertMemories(memory, state, i) = {Put(memory, Stack(c + 2), v)}
                    /\ v = IF c = 4 THEN Num(n) ELSE Num(1)
    <3>1. CASE c = 4
      <4> DEFINE i == Instruction(assert_ap_deref_fp_appp, 0, 0, 0)
      <4>1. AddM31(Stack(3), 0) = Stack(3)
        BY <1>0, Moves DEF Stack, ExecutionSegment
      <4>2. Get(memory, AddM31(Stack(3), 0)) = {Num(n)}
        BY <4>1 DEF Passing, Claimed
      <4>3. AssertMemories(memory, state, i) = {Put(memory, Stack(c + 2), Num(n))}
        BY <1>1, <1>2, <4>2, PushesAre
      <4>4. Decode(Word(c)) = {i} /\ i.op.kind = "assert" /\ i.op.appp = TRUE
        BY <3>1, InstructionsAre, InstructionKinds
      <4> HIDE DEF i
      <4> QED BY <3>1, <4>3, <4>4
    <3>2. CASE c # 4
      <4> DEFINE i == Instruction(assert_ap_imm_appp, 0, 1, 0)
      <4>1. c = 2 \/ c = 3
        BY <1>3, <3>2
      <4>3. AssertMemories(memory, state, i) = {Put(memory, Stack(c + 2), Num(1))}
        BY <1>1, <1>2, PushesAre
      <4>4. Decode(Word(c)) = {i} /\ i.op.kind = "assert" /\ i.op.appp = TRUE
        BY <4>1, InstructionsAre, InstructionKinds
      <4> HIDE DEF i
      <4> QED BY <3>2, <4>3, <4>4
    <3> QED BY <3>1, <3>2
  <2>2. Free(memory, ExecutionSegment, c + 2) /\ Free(memory, OutputSegment, 1)
    BY DEF Passing
  <2>3. /\ state' = Regs(c + 1, 3, (c + 2) + 1)
        /\ UNCHANGED <<program, status>>
        /\ Extends(memory', memory)
        /\ Get(memory', Stack(c + 2)) = {v}
        /\ Free(memory', ExecutionSegment, (c + 2) + 1)
        /\ Free(memory', OutputSegment, 1)
    <3> DEFINE ap == c + 2
    <3>1. Pushes(c, 3, ap, i, v)
      BY <1>1, <1>2, <2>1, <2>2 DEF Pushes
    <3> HIDE DEF ap
    <3>2. /\ state' = Regs(c + 1, 3, ap + 1)
          /\ UNCHANGED <<program, status>>
          /\ Extends(memory', memory)
          /\ Get(memory', Stack(ap)) = {v}
          /\ Free(memory', ExecutionSegment, ap + 1)
          /\ Free(memory', OutputSegment, 1)
      BY <1>0, <3>1, PushStep
    <3> QED BY <3>2 DEF ap
  <2> QED BY <2>1, <2>3
<1>4. CASE c # 5
  <2>1. /\ state' = Regs(c + 1, 3, (c + 1) + 2)
        /\ UNCHANGED <<program, status>>
        /\ Extends(memory', memory)
        /\ Get(memory', Stack(c + 2)) = {IF c = 4 THEN Num(n) ELSE Num(1)}
        /\ Free(memory', ExecutionSegment, (c + 1) + 2)
        /\ Free(memory', OutputSegment, 1)
    <3>1. (c + 2) + 1 = (c + 1) + 2
      OBVIOUS
    <3> QED BY <1>3, <1>4, <3>1
  <2>2. c + 1 \in 2 .. 5
    BY <1>4
  <2>3. Claimed(memory', n)
    BY <2>1, KnownGrows DEF Passing
  <2>4. /\ c > 2 => Get(memory', Stack(4)) = {Num(1)}
        /\ c > 3 => Get(memory', Stack(5)) = {Num(1)}
    BY <2>1, GetGrows DEF Passing
  <2>5. /\ c + 1 > 2 => Get(memory', Stack(4)) = {Num(1)}
        /\ c + 1 > 3 => Get(memory', Stack(5)) = {Num(1)}
        /\ c + 1 > 4 => Get(memory', Stack(6)) = {Num(n)}
    <3>1. c = 2 \/ c = 3 \/ c = 4
      BY <1>4
    <3> QED BY <2>1, <2>4, <3>1
  <2>6. Passing(n, c + 1)'
    BY <2>1, <2>3, <2>5 DEF Passing
  <2> QED BY <2>1, <2>2, <2>6, GoesOn DEF Point
<1>5. CASE c = 5
  <2>1. /\ state' = Regs(9, 9, 9)
        /\ UNCHANGED <<program, status>>
        /\ Extends(memory', memory)
        /\ Get(memory', Stack(7)) = {Stack(3)}
        /\ Get(memory', Stack(8)) = {Code(6)}
        /\ Free(memory', ExecutionSegment, 9)
        /\ Free(memory', OutputSegment, 1)
    <3>1. state = Regs(5, 3, 7) /\ 7 + 2 = 9 /\ 7 + 1 = 8 /\ 5 + 1 = 6 /\ 5 + 2 = 7
      BY <1>2, <1>5
    <3>2. AddM31(Code(5), 4) = Code(9) /\ 4 \in M31
      <4>1. 5 \in Nat /\ 4 \in Nat /\ 5 < P /\ 5 + 4 < P /\ 5 + 4 = 9
        BY <1>0
      <4>2. AddM31(Rel(0, 5), 4) = Rel(0, 5 + 4)
        BY <4>1, Moves
      <4> QED BY <1>0, <4>1, <4>2 DEF Code, ProgramSegment, M31
    <3>3. Decode(Word(5)) = {Instruction(call_rel_imm, 4, 0, 0)}
      BY InstructionsAre
    <3>4. Free(memory, ExecutionSegment, 7) /\ Free(memory, OutputSegment, 1)
      BY <1>5, <3>1 DEF Passing
    <3>5. 5 \in 0 .. 18 /\ 5 # 1 /\ 3 \in Nat /\ 3 < P /\ 7 \in Nat /\ 7 + 2 < P
      BY <1>0
    <3>6. /\ state' = Regs(9, 7 + 2, 7 + 2)
          /\ UNCHANGED <<program, status>>
          /\ Extends(memory', memory)
          /\ Get(memory', Stack(7)) = {Stack(3)}
          /\ Get(memory', Stack(7 + 1)) = {Code(5 + 1)}
          /\ Free(memory', ExecutionSegment, 7 + 2)
          /\ Free(memory', OutputSegment, 1)
      BY <1>0, <3>1, <3>2, <3>3, <3>4, <3>5, CallStep
    <3> QED BY <3>1, <3>6
  <2>2. Claimed(memory', n) /\ Calls(memory', n, 0)
    <3>1. /\ Get(memory, Stack(4)) = {Num(1)} /\ Get(memory, Stack(5)) = {Num(1)}
          /\ Get(memory, Stack(6)) = {Num(n)}
      BY <1>5 DEF Passing
    <3>2. /\ Get(memory', Stack(4)) = {Num(1)} /\ Get(memory', Stack(5)) = {Num(1)}
          /\ Get(memory', Stack(6)) = {Num(n)}
      BY <2>1, <3>1, GetGrows
    <3> QED BY <1>0, <2>1, <3>2, KnownGrows, MainCalls DEF Passing
  <2>3. Testing(n, 0, 9)'
    <3>1. Top(0) = 9
      BY DEF Top
    <3> QED BY <2>1, <2>2, <3>1 DEF Testing
  <2>4. 0 \in 0 .. n /\ 9 \in 9 .. 10
    BY <1>0
  <2> QED BY <2>1, <2>3, <2>4, GoesOn DEF Point
<1> QED BY <1>4, <1>5

-----------------------------------------------------------------------------
(* A frame of the recursion.                                               *)
LEMMA FrameFits ==
  ASSUME P \in Nat, NEW n \in Nat, 7 * n + 10 < P, NEW k \in 0 .. n
  PROVE  /\ k \in Nat /\ n - k \in M31 /\ Top(k) \in Nat /\ Top(k) < P /\ Top(k) >= 9
         /\ Top(k) + 1 < P
         /\ \A j \in 1 .. 5 : AddM31(Stack(Top(k)), Neg(j)) = Stack(Top(k) - j)
         /\ \A j \in 1 .. 2 : SubM31(Stack(Top(k)), j) = Stack(Top(k) - j)
         /\ k < n => Top(k) + 7 < P /\ n - k - 1 \in M31 /\ Top(k + 1) = Top(k) + 7
<1>1. k \in Nat /\ Top(k) \in Nat /\ Top(k) < P /\ Top(k) >= 9 /\ Top(k) + 1 < P
  BY DEF Top
<1>2. n - k \in M31
  BY DEF M31
<1>3. k < n => Top(k) + 7 < P /\ n - k - 1 \in M31 /\ Top(k + 1) = Top(k) + 7
  BY DEF M31, Top
<1>4. ASSUME NEW j \in 1 .. 5 PROVE AddM31(Stack(Top(k)), Neg(j)) = Stack(Top(k) - j)
  <2>1. j \in Nat /\ 0 < j /\ j <= Top(k) /\ 1 \in Nat
    BY <1>1
  <2> QED BY <1>1, <2>1, Moves DEF Stack, ExecutionSegment
<1>5. ASSUME NEW j \in 1 .. 2 PROVE SubM31(Stack(Top(k)), j) = Stack(Top(k) - j)
  <2>1. j \in Nat /\ j <= Top(k) /\ 1 \in Nat
    BY <1>1
  <2> QED BY <1>1, <2>1, Moves DEF Stack, ExecutionSegment
<1> QED BY <1>1, <1>2, <1>3, <1>4, <1>5

(* What a frame finds at its negative offsets.                             *)
LEMMA FrameIs ==
  ASSUME NEW m, NEW n, NEW k \in Nat, Calls(m, n, k)
  PROVE  /\ Get(m, Stack(Top(k) - 5)) = {Num(SquareFibonacci[k])}
         /\ Get(m, Stack(Top(k) - 4)) = {Num(SquareFibonacci[k + 1])}
         /\ Get(m, Stack(Top(k) - 3)) = {Num(n - k)}
         /\ Get(m, Stack(Top(k) - 2)) = {Stack(IF k = 0 THEN 3 ELSE Top(k - 1))}
         /\ Get(m, Stack(Top(k) - 1)) = {Code(IF k = 0 THEN 6 ELSE 18)}
<1>1. k \in 0 .. k
  OBVIOUS
<1>2. Called(m, n, k)
  BY <1>1 DEF Calls
<1> QED BY <1>2, Zenon DEF Called

(* The countdown is tested: at zero the term is pushed, else the body      *)
(* follows.                                                                *)
LEMMA StepTesting ==
  ASSUME StackFits, TypeOK, NEW n \in ClaimIndices, Known(n), status = "running",
         [Next]_vars, ~ UNCHANGED vars, NEW k \in 0 .. n, NEW c \in 9 .. 10, Testing(n, k, c)
  PROVE  RunsAsClaimed'
<1>0. /\ P \in Nat /\ P > 171 /\ n \in Nat /\ 7 * n + 10 < P
      /\ Loaded(memory) /\ program.hints = {1}
  BY ItFits DEF Known, TypeOK
<1> DEFINE t == Top(k)
<1>1. /\ k \in Nat /\ n - k \in M31 /\ t \in Nat /\ t + 1 < P
      /\ AddM31(Stack(t), Neg(3)) = Stack(t - 3) /\ AddM31(Stack(t), Neg(4)) = Stack(t - 4)
  BY <1>0, FrameFits
<1>2. /\ Get(memory, Stack(t - 3)) = {Num(n - k)}
      /\ Get(memory, Stack(t - 4)) = {Num(SquareFibonacci[k + 1])}
  BY <1>1, FrameIs DEF Testing
<1>3. /\ state = Regs(c, t, t)
      /\ Free(memory, ExecutionSegment, t) /\ Free(memory, OutputSegment, 1)
      /\ Claimed(memory, n) /\ Calls(memory, n, k)
  BY DEF Testing
<1>4. CASE c = 9
  <2> DEFINE i == Instruction(jnz_imm_fp, 3, Neg(3), 0)
             s == Regs(IF n - k = 0 THEN 9 + 1 ELSE 9 + 3, t, t)
  <2>1. Decode(Word(9)) = {i}
    BY InstructionsAre
  <2>2. JnzStates(memory, state, i) = {s}
    <3>1. 9 \in Nat /\ 9 + 3 < P
      BY <1>0
    <3> HIDE DEF t
    <3>2. JnzStates(memory, Regs(9, t, t), i) = {s}
      BY <1>1, <1>2, <3>1, JnzIs
    <3> QED BY <1>3, <1>4, <3>2
  <2>3. Succeeds(memory, i, memory, s)
    <3>1. i.op.kind = "jnz"
      BY InstructionKinds
    <3> HIDE DEF i, s
    <3> QED BY <2>2, <3>1 DEF Succeeds
  <2>4. state.pc = Code(9) /\ 9 \in 0 .. 18 /\ 9 # 1
    BY <1>3, <1>4 DEF Regs
  <2> HIDE DEF i, s
  <2>5. memory' = memory /\ state' = s /\ UNCHANGED <<program, status>>
    BY <1>0, <2>1, <2>3, <2>4, StepFrom
  <2>6. CASE k = n
    <3>1. s = Regs(10, t, t)
      BY <2>6 DEF s
    <3>2. Testing(n, k, 10)' /\ 10 \in 9 .. 10
      BY <1>3, <2>5, <2>6, <3>1 DEF Testing
    <3> QED BY <2>5, <3>2, GoesOn, SameExtends DEF Point
  <2>7. CASE k # n
    <3>1. k < n /\ n - k # 0 /\ t + 12 - 12 = t
      BY <1>0, <1>1, <2>7
    <3>2. s = Regs(12, t, t)
      BY <3>1 DEF s
    <3>3. Computing(n, k, 12)' /\ 12 \in 12 .. 17
      BY <1>3, <2>5, <3>1, <3>2 DEF Computing
    <3> QED BY <2>5, <3>3, GoesOn, SameExtends DEF Point
  <2> QED BY <2>6, <2>7
<1>5. CASE c = 10
  <2> DEFINE i == Instruction(assert_ap_deref_fp_appp, 0, Neg(4), 0)
             v == Num(SquareFibonacci[k + 1])
  <2>1. k = n
    BY <1>5 DEF Testing
  <2>2. AssertMemories(memory, state, i) = {Put(memory, Stack(t), v)}
    <3>1. Get(memory, AddM31(Stack(t), Neg(4))) = {v}
      BY <1>1, <1>2
    <3> HIDE DEF t, v
    <3>2. Stack(t) \notin DOMAIN memory /\ t < P
      BY <1>0, <1>1, <1>3, FreeIs DEF Stack
    <3> QED BY <1>1, <1>3, <3>1, <3>2, PushesAre
  <2>3. Decode(Word(c)) = {i} /\ i.op.kind = "assert" /\ i.op.appp = TRUE
    BY <1>5, InstructionsAre, InstructionKinds
  <2> HIDE DEF i, v
  <2>4. Pushes(c, t, t, i, v)
    <3>1. c \in 0 .. 18 /\ c # 1
      BY <1>5
    <3> QED BY <1>1, <1>3, <2>2, <2>3, <3>1 DEF Pushes
  <2>5. /\ state' = Regs(11, t, t + 1)
        /\ UNCHANGED <<program, status>>
        /\ Extends(memory', memory)
        /\ Get(memory', Stack(t)) = {v}
        /\ Free(memory', ExecutionSegment, t + 1)
        /\ Free(memory', OutputSegment, 1)
    <3>1. c + 1 = 11
      BY <1>5
    <3> HIDE DEF t
    <3> QED BY <1>0, <2>4, <3>1, PushStep
  <2>6. Claimed(memory', n) /\ Calls(memory', n, n)
    BY <1>3, <2>1, <2>5, KnownGrows
  <2>7. Returning(n, 11, Top(n))'
    BY <2>1, <2>5, <2>6 DEF Returning, v
  <2> QED BY <2>5, <2>7, GoesOn DEF Point
<1> QED BY <1>4, <1>5

(* One more call, and the frames of all of them.                           *)
LEMMA CallsMore ==
  ASSUME NEW m, NEW n, NEW k \in Nat, Calls(m, n, k), Called(m, n, k + 1)
  PROVE  Calls(m, n, k + 1)
<1>1. \A j \in 0 .. k + 1 : j \in 0 .. k \/ j = k + 1
  OBVIOUS
<1> QED BY <1>1 DEF Calls

(* The next term and the countdown.                                        *)
LEMMA NextTerm ==
  ASSUME NEW k \in Nat
  PROVE  SquareFibonacci[k + 2] = MAdd(MMul(SquareFibonacci[k], SquareFibonacci[k]),
                                       MMul(SquareFibonacci[k + 1], SquareFibonacci[k + 1]))
<1>1. /\ k + 2 \in Nat /\ ~ (k + 2 < 2) /\ (k + 2) - 2 = k /\ (k + 2) - 1 = k + 1
  OBVIOUS
<1> DEFINE j == k + 2
<1>2. SquareFibonacci[j] = Term(SquareFibonacci, j)
  BY <1>1, SquareFibonacciIs
<1>3. SquareFibonacci[j] = MAdd(MMul(SquareFibonacci[j - 2], SquareFibonacci[j - 2]),
                                MMul(SquareFibonacci[j - 1], SquareFibonacci[j - 1]))
  BY <1>1, <1>2 DEF Term
<1> QED BY <1>1, <1>3

(* Adding P - 1 counts down.                                               *)
LEMMA CountsDown ==
  ASSUME NEW d \in M31, d > 0
  PROVE  Neg(1) \in M31 /\ Plus(Immediate(Neg(1)), Num(d)) = {Num(d - 1)}
<1>1. P \in Nat /\ d \in Nat /\ d < P
  BY PAssumption DEF M31
<1>2. Neg(1) \in M31 /\ MAdd(Neg(1), d) = d - 1
  BY <1>1 DEF Neg, M31, MAdd, PartialReduce
<1>3. Immediate(Neg(1)) = Num(Neg(1))
  BY <1>2, NumType
<1> QED BY <1>2, <1>3, NumSum

(* What the body of the recursion pushes.                                  *)
Term1(k) == MMul(SquareFibonacci[k], SquareFibonacci[k])
NextCell(n, k, c) ==
  CASE c = 12 -> Num(Term1(k))
    [] c = 13 -> Num(Term1(k + 1))
    [] c = 14 -> Num(SquareFibonacci[k + 1])
    [] c = 15 -> Num(SquareFibonacci[k + 2])
    [] c = 16 -> Num(n - k - 1)

(* Each of the five pushes of the body can be made, and of that value.     *)
LEMMA BodyPushes ==
  ASSUME StackFits, TypeOK, NEW n \in ClaimIndices, Known(n),
         NEW k \in 0 .. n, NEW c \in 12 .. 16, Computing(n, k, c)
  PROVE  \E i : Pushes(c, Top(k), Top(k) + c - 12, i, NextCell(n, k, c))
<1>0. /\ P \in Nat /\ P > 171 /\ n \in Nat /\ 7 * n + 10 < P /\ k < n
  BY ItFits DEF Known, TypeOK, Computing
<1> DEFINE t == Top(k)
           ap == Top(k) + c - 12
<1>1. /\ k \in Nat /\ n - k \in M31 /\ n - k > 0 /\ t \in Nat /\ t + 7 < P
      /\ ap \in Nat /\ ap + 1 < P /\ ap < P
  <2> USE <1>0
  <2>1. k \in Nat /\ n - k \in M31 /\ n - k > 0 /\ t \in Nat /\ t + 7 < P
    BY FrameFits
  <2> HIDE DEF t
  <2>2. ap = t + c - 12
    BY DEF t
  <2> QED BY <2>1, <2>2
<1>2. /\ AddM31(Stack(t), Neg(3)) = Stack(t - 3) /\ AddM31(Stack(t), Neg(4)) = Stack(t - 4)
      /\ AddM31(Stack(t), Neg(5)) = Stack(t - 5)
  BY <1>0, FrameFits
<1>3. /\ Get(memory, Stack(t - 5)) = {Num(SquareFibonacci[k])}
      /\ Get(memory, Stack(t - 4)) = {Num(SquareFibonacci[k + 1])}
      /\ Get(memory, Stack(t - 3)) = {Num(n - k)}
  BY <1>1, FrameIs DEF Computing
<1>4. /\ state = Regs(c, t, ap)
      /\ Free(memory, ExecutionSegment, ap) /\ Free(memory, OutputSegment, 1)
  BY DEF Computing
<1>5. Stack(ap) \notin DOMAIN memory
  <2> HIDE DEF ap
  <2> QED BY <1>1, <1>4, FreeIs DEF Stack
<1>6. SquareFibonacci[k] \in M31 /\ SquareFibonacci[k + 1] \in M31
  BY <1>1, SquareFibonacciType
<1>7. Term1(k) \in M31 /\ Term1(k + 1) \in M31
  BY <1>6, MType DEF Term1
<1> DEFINE v == NextCell(n, k, c)
<1>8. SUFFICES \E i : /\ Decode(Word(c)) = {i} /\ i.op.kind = "assert" /\ i.op.appp = TRUE
                      /\ AssertMemories(memory, state, i) = {Put(memory, Stack(ap), v)}
  <2>1. c \in 0 .. 18 /\ c # 1
    OBVIOUS
  <2> HIDE DEF ap, v, t
  <2>2. \A i : /\ Decode(Word(c)) = {i} /\ i.op.kind = "assert" /\ i.op.appp = TRUE
               /\ AssertMemories(memory, state, i) = {Put(memory, Stack(ap), v)}
               => Pushes(c, t, ap, i, v)
    BY <1>1, <1>4, <2>1 DEF Pushes
  <2> QED BY <2>2 DEF ap, v, t
<1>9. CASE c \in {12, 13}
  <2> DEFINE j == IF c = 12 THEN 5 ELSE 4
             x == SquareFibonacci[IF c = 12 THEN k ELSE k + 1]
             i == Instruction(assert_ap_mul_fp_fp_appp, 0, Neg(j), Neg(j))
  <2>1. Decode(Word(c)) = {i} /\ i.op.kind = "assert" /\ i.op.appp = TRUE
    BY <1>9, InstructionsAre, InstructionKinds
  <2>2. Get(memory, AddM31(Stack(t), Neg(j))) = {Num(x)} /\ x \in M31
    BY <1>2, <1>3, <1>6, <1>9
  <2>3. v = Num(MMul(x, x))
    BY <1>9 DEF NextCell, Term1
  <2> HIDE DEF x, ap, v, t, j
  <2>4. Times(Num(x), Num(x)) = {v}
    BY <2>2, <2>3, NumSum
  <2>5. AssertMemories(memory, state, i) = {Put(memory, Stack(ap), v)}
    BY <1>1, <1>4, <1>5, <2>2, <2>4, PushesAre
  <2> HIDE DEF i
  <2> QED BY <2>1, <2>5
<1>10. CASE c = 14
  <2> DEFINE i == Instruction(assert_ap_deref_fp_appp, 0, Neg(4), 0)
  <2>1. Decode(Word(c)) = {i} /\ i.op.kind = "assert" /\ i.op.appp = TRUE
    BY <1>10, InstructionsAre, InstructionKinds
  <2>2. v = Num(SquareFibonacci[k + 1])
    BY <1>10 DEF NextCell
  <2>3. Get(memory, AddM31(Stack(t), Neg(4))) = {v}
    BY <1>2, <1>3, <2>2
  <2> HIDE DEF ap, v, t
  <2>4. AssertMemories(memory, state, i) = {Put(memory, Stack(ap), v)}
    BY <1>1, <1>4, <1>5, <2>3, PushesAre
  <2> HIDE DEF i
  <2> QED BY <2>1, <2>4
<1>11. CASE c = 15
  <2> DEFINE i == Instruction(assert_ap_add_ap_ap_appp, 0, Neg(3), Neg(2))
  <2>1. Decode(Word(c)) = {i} /\ i.op.kind = "assert" /\ i.op.appp = TRUE
    BY <1>11, InstructionsAre, InstructionKinds
  <2>2. /\ AddM31(Stack(ap), Neg(3)) = Stack(t) /\ AddM31(Stack(ap), Neg(2)) = Stack(t + 1)
    <3>1. ap = t + 3
      BY <1>11, <1>1
    <3> HIDE DEF ap, t
    <3>2. /\ AddM31(Stack(ap), Neg(3)) = Stack(ap - 3) /\ AddM31(Stack(ap), Neg(2)) = Stack(ap - 2)
      BY <1>1, <3>1, Moves DEF Stack, ExecutionSegment
    <3>3. ap - 3 = t /\ ap - 2 = t + 1
      BY <1>1, <3>1
    <3> QED BY <3>2, <3>3
  <2>3. /\ Get(memory, Stack(t)) = {Num(Term1(k))}
        /\ Get(memory, Stack(t + 1)) = {Num(Term1(k + 1))}
    BY <1>11 DEF Computing, Term1
  <2>4. Plus(Num(Term1(k)), Num(Term1(k + 1))) = {v}
    <3>1. v = Num(MAdd(Term1(k), Term1(k + 1)))
      BY <1>1, <1>11, NextTerm DEF NextCell, Term1
    <3> HIDE DEF v
    <3> QED BY <1>7, <3>1, NumSum
  <2> HIDE DEF ap, v, t
  <2>5. AssertMemories(memory, state, i) = {Put(memory, Stack(ap), v)}
    <3>1. /\ Get(memory, AddM31(Stack(ap), Neg(3))) = {Num(Term1(k))}
          /\ Get(memory, AddM31(Stack(ap), Neg(2))) = {Num(Term1(k + 1))}
      BY <2>2, <2>3
    <3> QED BY <1>1, <1>4, <1>5, <2>4, <3>1, PushesAre
  <2> HIDE DEF i
  <2> QED BY <2>1, <2>5
<1>12. CASE c = 16
  <2> DEFINE i == Instruction(assert_ap_add_imm_fp_appp, 0, Neg(1), Neg(3))
  <2>1. Decode(Word(c)) = {i} /\ i.op.kind = "assert" /\ i.op.appp = TRUE
    BY <1>12, InstructionsAre, InstructionKinds
  <2>2. Get(memory, AddM31(Stack(t), Neg(3))) = {Num(n - k)}
    BY <1>2, <1>3
  <2>3. Plus(Immediate(Neg(1)), Num(n - k)) = {v}
    BY <1>1, <1>12, CountsDown DEF NextCell
  <2> HIDE DEF ap, v, t
  <2>4. AssertMemories(memory, state, i) = {Put(memory, Stack(ap), v)}
    BY <1>1, <1>4, <1>5, <2>2, <2>3, PushesAre
  <2> HIDE DEF i
  <2> QED BY <2>1, <2>4
<1>13. c \in {12, 13} \/ c = 14 \/ c = 15 \/ c = 16
  OBVIOUS
<1> QED BY <1>9, <1>10, <1>11, <1>12, <1>13

-----------------------------------------------------------------------------
(* The body: five pushes, then the call with the last three as arguments.  *)
LEMMA StepComputing ==
  ASSUME StackFits, TypeOK, NEW n \in ClaimIndices, Known(n), status = "running",
         [Next]_vars, ~ UNCHANGED vars, NEW k \in 0 .. n, NEW c \in 12 .. 17, Computing(n, k, c)
  PROVE  RunsAsClaimed'
<1>0. /\ P \in Nat /\ P > 171 /\ n \in Nat /\ 7 * n + 10 < P /\ k < n
      /\ Loaded(memory) /\ program.hints = {1}
  BY ItFits DEF Known, TypeOK, Computing
<1> DEFINE t == Top(k)
           ap == Top(k) + c - 12
<1>1. k \in Nat /\ t \in Nat /\ t + 7 < P /\ Top(k + 1) = t + 7
  BY <1>0, FrameFits
<1>2. /\ state = Regs(c, t, ap)
      /\ Free(memory, ExecutionSegment, ap) /\ Free(memory, OutputSegment, 1)
      /\ Claimed(memory, n) /\ Calls(memory, n, k)
  BY DEF Computing
<1>3. CASE c # 17
  <2>1. c \in 12 .. 16
    BY <1>3
  <2>2. PICK i : Pushes(c, t, ap, i, NextCell(n, k, c))
    BY <2>1, BodyPushes
  <2>3. /\ state' = Regs(c + 1, t, ap + 1)
        /\ UNCHANGED <<program, status>>
        /\ Extends(memory', memory)
        /\ Get(memory', Stack(ap)) = {NextCell(n, k, c)}
        /\ Free(memory', ExecutionSegment, ap + 1)
        /\ Free(memory', OutputSegment, 1)
    <3> HIDE DEF t, ap
    <3> QED BY <1>0, <2>2, PushStep
  <2>4. Claimed(memory', n) /\ Calls(memory', n, k)
    BY <1>2, <2>3, KnownGrows
  <2>5. ap + 1 = Top(k) + (c + 1) - 12 /\ c + 1 \in 12 .. 17
    BY <1>1, <2>1
  <2>6. /\ c > 12 => Get(memory', Stack(t)) = {Num(Term1(k))}
        /\ c > 13 => Get(memory', Stack(t + 1)) = {Num(Term1(k + 1))}
        /\ c > 14 => Get(memory', Stack(t + 2)) = {Num(SquareFibonacci[k + 1])}
        /\ c > 15 => Get(memory', Stack(t + 3)) = {Num(SquareFibonacci[k + 2])}
    <3>1. \A a, v : Get(memory, a) = {v} => Get(memory', a) = {v}
      BY <2>3, GetGrows
    <3> HIDE DEF t, ap
    <3>2. /\ c > 12 => Get(memory, Stack(t)) = {Num(Term1(k))}
          /\ c > 13 => Get(memory, Stack(t + 1)) = {Num(Term1(k + 1))}
          /\ c > 14 => Get(memory, Stack(t + 2)) = {Num(SquareFibonacci[k + 1])}
          /\ c > 15 => Get(memory, Stack(t + 3)) = {Num(SquareFibonacci[k + 2])}
      BY DEF Computing, Term1, t
    <3> QED BY <3>1, <3>2
  <2>7. /\ c = 12 => Get(memory', Stack(t)) = {Num(Term1(k))}
        /\ c = 13 => Get(memory', Stack(t + 1)) = {Num(Term1(k + 1))}
        /\ c = 14 => Get(memory', Stack(t + 2)) = {Num(SquareFibonacci[k + 1])}
        /\ c = 15 => Get(memory', Stack(t + 3)) = {Num(SquareFibonacci[k + 2])}
        /\ c = 16 => Get(memory', Stack(t + 4)) = {Num(n - k - 1)}
    <3>2. /\ c = 12 => ap = t
          /\ c = 13 => ap = t + 1
          /\ c = 14 => ap = t + 2
          /\ c = 15 => ap = t + 3
          /\ c = 16 => ap = t + 4
      BY <1>1
    <3> HIDE DEF t, ap
    <3>3. /\ c = 12 => NextCell(n, k, c) = Num(Term1(k))
          /\ c = 13 => NextCell(n, k, c) = Num(Term1(k + 1))
          /\ c = 14 => NextCell(n, k, c) = Num(SquareFibonacci[k + 1])
          /\ c = 15 => NextCell(n, k, c) = Num(SquareFibonacci[k + 2])
          /\ c = 16 => NextCell(n, k, c) = Num(n - k - 1)
      BY DEF NextCell
    <3> QED BY <2>3, <3>2, <3>3
  <2>8. /\ c + 1 > 12 => Get(memory', Stack(t)) = {Num(Term1(k))}
        /\ c + 1 > 13 => Get(memory', Stack(t + 1)) = {Num(Term1(k + 1))}
        /\ c + 1 > 14 => Get(memory', Stack(t + 2)) = {Num(SquareFibonacci[k + 1])}
        /\ c + 1 > 15 => Get(memory', Stack(t + 3)) = {Num(SquareFibonacci[k + 2])}
        /\ c + 1 > 16 => Get(memory', Stack(t + 4)) = {Num(n - k - 1)}
    <3> HIDE DEF t, ap
    <3>1. /\ c + 1 > 12 => c > 12 \/ c = 12
          /\ c + 1 > 13 => c > 13 \/ c = 13
          /\ c + 1 > 14 => c > 14 \/ c = 14
          /\ c + 1 > 15 => c > 15 \/ c = 15
          /\ c + 1 > 16 => c = 16
      BY <2>1
    <3> QED BY <2>6, <2>7, <3>1
  <2>9. Computing(n, k, c + 1)'
    BY <1>0, <2>3, <2>4, <2>5, <2>8 DEF Computing, Term1
  <2> QED BY <2>3, <2>5, <2>9, GoesOn DEF Point
<1>4. CASE c = 17
  <2> DEFINE a == Top(k) + 5
  <2>1. a = ap /\ a \in Nat /\ a + 2 < P /\ a + 1 = t + 6 /\ a + 2 = t + 7
    BY <1>1, <1>4
  <2>2. AddM31(Code(17), Neg(8)) = Code(9) /\ Neg(8) \in M31
    <3>1. 17 \in Nat /\ 8 \in Nat /\ 17 < P /\ 0 < 8 /\ 8 <= 17 /\ 17 - 8 = 9
      BY <1>0
    <3>2. AddM31(Rel(0, 17), Neg(8)) = Rel(0, 17 - 8)
      BY <3>1, Moves
    <3> QED BY <1>0, <3>1, <3>2 DEF Code, ProgramSegment, M31, Neg
  <2>3. Decode(Word(17)) = {Instruction(call_rel_imm, Neg(8), 0, 0)}
    BY InstructionsAre
  <2>4. /\ state = Regs(17, t, a)
        /\ Free(memory, ExecutionSegment, a) /\ Free(memory, OutputSegment, 1)
    BY <1>2, <1>4, <2>1
  <2>5. /\ Get(memory, Stack(t + 2)) = {Num(SquareFibonacci[k + 1])}
        /\ Get(memory, Stack(t + 3)) = {Num(SquareFibonacci[k + 2])}
        /\ Get(memory, Stack(t + 4)) = {Num(n - k - 1)}
    BY <1>4 DEF Computing
  <2> HIDE DEF a, t, ap
  <2>6. /\ state' = Regs(9, a + 2, a + 2)
        /\ UNCHANGED <<program, status>>
        /\ Extends(memory', memory)
        /\ Get(memory', Stack(a)) = {Stack(t)}
        /\ Get(memory', Stack(a + 1)) = {Code(17 + 1)}
        /\ Free(memory', ExecutionSegment, a + 2)
        /\ Free(memory', OutputSegment, 1)
    <3>1. 17 \in 0 .. 18 /\ 17 # 1 /\ t \in Nat /\ t < P
      BY <1>0, <1>1
    <3> QED BY <1>0, <2>1, <2>2, <2>3, <2>4, <3>1, CallStep
  <2>7. Called(memory', n, k + 1)
    <3>1. /\ Top(k + 1) - 5 = t + 2 /\ Top(k + 1) - 4 = t + 3 /\ Top(k + 1) - 3 = t + 4
          /\ Top(k + 1) - 2 = a /\ Top(k + 1) - 1 = a + 1
          /\ n - (k + 1) = n - k - 1 /\ k + 1 # 0 /\ (k + 1) - 1 = k /\ (k + 1) + 1 = k + 2
          /\ 17 + 1 = 18
      BY <1>0, <1>1, <2>1 DEF a, t
    <3>2. /\ Get(memory', Stack(t + 2)) = {Num(SquareFibonacci[k + 1])}
          /\ Get(memory', Stack(t + 3)) = {Num(SquareFibonacci[k + 2])}
          /\ Get(memory', Stack(t + 4)) = {Num(n - k - 1)}
      BY <2>5, <2>6, GetGrows
    <3>3. /\ Get(memory', Stack(a)) = {Stack(Top(k))}
          /\ Get(memory', Stack(a + 1)) = {Code(18)}
      BY <2>6, <3>1 DEF t
    <3> QED BY <3>1, <3>2, <3>3 DEF Called
  <2>8. Claimed(memory', n) /\ Calls(memory', n, k + 1)
    BY <1>1, <1>2, <2>6, <2>7, KnownGrows, CallsMore
  <2>9. Testing(n, k + 1, 9)' /\ k + 1 \in 0 .. n
    <3>1. a + 2 = Top(k + 1)
      BY <1>1, <2>1
    <3> QED BY <1>0, <2>6, <2>8, <3>1 DEF Testing
  <2> QED BY <2>6, <2>9, GoesOn DEF Point
<1> QED BY <1>3, <1>4

-----------------------------------------------------------------------------
(* The way back: every frame returns to the one that called it.            *)
LEMMA StepReturning ==
  ASSUME StackFits, TypeOK, NEW n \in ClaimIndices, Known(n), status = "running",
         [Next]_vars, ~ UNCHANGED vars,
         NEW k \in 0 .. n, NEW c \in {11, 18}, Returning(n, c, Top(k))
  PROVE  RunsAsClaimed'
<1>0. /\ P \in Nat /\ P > 171 /\ n \in Nat /\ 7 * n + 10 < P
      /\ Loaded(memory) /\ program.hints = {1}
  BY ItFits DEF Known, TypeOK
<1> DEFINE t == Top(k)
           f == IF k = 0 THEN 3 ELSE Top(k - 1)
           p == IF k = 0 THEN 6 ELSE 18
           i == Instruction(ret, 0, 0, 0)
           s == Regs(p, f, Top(n) + 1)
<1>1. /\ k \in Nat /\ SubM31(Stack(t), 2) = Stack(t - 2) /\ SubM31(Stack(t), 1) = Stack(t - 1)
  BY <1>0, FrameFits
<1>2. Get(memory, Stack(t - 2)) = {Stack(f)} /\ Get(memory, Stack(t - 1)) = {Code(p)}
  <2>1. Calls(memory, n, k)
    BY <1>0 DEF Returning, Calls
  <2> QED BY <1>1, <2>1, FrameIs
<1>3. Stack(f) \in Addr /\ Code(p) \in Addr
  <2>1. f \in M31
    <3>1. CASE k = 0
      BY <1>0, <3>1 DEF M31
    <3>2. CASE k # 0
      <4>1. k - 1 \in 0 .. n
        BY <1>0, <3>2
      <4>2. Top(k - 1) \in Nat /\ Top(k - 1) < P
        BY <1>0, <4>1, FrameFits
      <4>3. Top(k - 1) \in M31
        BY <1>0, <4>2 DEF M31
      <4> QED BY <3>2, <4>3
    <3> QED BY <3>1, <3>2
  <2>2. p \in M31
    BY <1>0 DEF M31
  <2> HIDE DEF f, p
  <2> QED BY <2>1, <2>2, MakeType DEF Stack, Code, ExecutionSegment, ProgramSegment, Addr
<1>4. state = Regs(c, t, Top(n) + 1)
  BY DEF Returning
<1>5. RetStates(memory, state) = {s}
  <2> HIDE DEF f, p, t
  <2>1. RetStates(memory, state) = {[ap |-> Stack(Top(n) + 1), fp |-> Stack(f), pc |-> Code(p)]}
    BY <1>1, <1>2, <1>3, <1>4, RetIs
  <2> QED BY <2>1 DEF Regs
<1>6. Decode(Word(c)) = {i} /\ i.op.kind = "ret"
  BY InstructionsAre, InstructionKinds
<1>7. state.pc = Code(c) /\ c \in 0 .. 18 /\ c # 1
  BY <1>4 DEF Regs
<1> HIDE DEF i, s, f, p
<1>8. Succeeds(memory, i, memory, s)
  BY <1>5, <1>6 DEF Succeeds
<1>9. memory' = memory /\ state' = s /\ UNCHANGED <<program, status>>
  BY <1>0, <1>6, <1>7, <1>8, StepFrom
<1>10. CASE k = 0
  <2>1. Returning(n, 6, 3)'
    BY <1>9, <1>10 DEF Returning, s, f, p
  <2> QED BY <1>9, <2>1, GoesOn, SameExtends DEF Point
<1>11. CASE k # 0
  <2>1. Returning(n, 18, Top(k - 1))' /\ k - 1 \in 0 .. n - 1
    BY <1>0, <1>9, <1>11 DEF Returning, s, f, p
  <2> QED BY <1>9, <2>1, GoesOn, SameExtends DEF Point
<1> QED BY <1>10, <1>11

(* Main again: the term that is on top of the stack is the output.         *)
LEMMA StepOutput ==
  ASSUME StackFits, TypeOK, NEW n \in ClaimIndices, Known(n), status = "running",
         [Next]_vars, ~ UNCHANGED vars, Returning(n, 6, 3)
  PROVE  RunsAsClaimed'
<1>0. /\ P \in Nat /\ P > 171 /\ n \in Nat /\ 7 * n + 10 < P
      /\ Top(n) \in Nat /\ Top(n) + 1 < P
      /\ Loaded(memory) /\ program.hints = {1}
  BY ItFits DEF Known, TypeOK
<1> DEFINE op == assert_ap_double_deref_fp
           i == Instruction(op, Neg(1), Neg(3), 1)
           ap == Top(n) + 1
           v == Num(SquareFibonacci[n + 1])
           w == Put(memory, Rel(OutputSegment, 1), v)
           s == Regs(7, 3, ap)
<1>1. /\ state = Regs(6, 3, ap) /\ Free(memory, ExecutionSegment, ap)
      /\ Free(memory, OutputSegment, 1) /\ Claimed(memory, n)
      /\ Get(memory, Stack(Top(n))) = {v}
  BY DEF Returning
<1>2. ap \in Nat /\ ap < P /\ ap >= 1 /\ ap - 1 = Top(n)
  BY <1>0
<1> HIDE DEF ap, v
<1>3. AddM31(Stack(3), Neg(3)) = Stack(0) /\ AddM31(Stack(ap), Neg(1)) = Stack(Top(n))
  <2>1. AddM31(Stack(ap), Neg(1)) = Stack(ap - 1)
    <3>1. 1 \in Nat /\ 0 < 1 /\ 1 <= ap
      BY <1>2
    <3> QED BY <1>2, <3>1, Moves DEF Stack, ExecutionSegment
  <2>2. AddM31(Stack(3), Neg(3)) = Stack(0)
    <3>1. 3 \in Nat /\ 3 < P /\ 0 < 3 /\ 3 <= 3 /\ 3 - 3 = 0
      BY <1>0
    <3>2. AddM31(Stack(3), Neg(3)) = Stack(3 - 3)
      BY <3>1, Moves DEF Stack, ExecutionSegment
    <3> QED BY <3>1, <3>2
  <2> QED BY <1>2, <2>1, <2>2
<1>4. Rel(OutputSegment, 1) \notin DOMAIN memory
  BY <1>1, FreeIs
<1>5. AssertMemories(memory, state, i) = {w}
  <2>1. op.operand = Operand("double_deref", "fp", "fp") /\ op.dest = "ap"
    BY InstructionKinds
  <2> HIDE DEF op
  <2>2. Get(memory, AddM31(state.fp, Neg(3))) = {OutputCell}
    BY <1>0, <1>1, <1>3 DEF Loaded, Regs
  <2>3. Get(memory, Address(state, op.dest, Neg(1))) = {v}
    BY <1>1, <1>3, <2>1 DEF Address, Regs
  <2>4. 1 \in M31
    BY <1>0 DEF M31
  <2> QED BY <1>4, <2>1, <2>2, <2>3, <2>4, OutputsAre
<1>6. Advance(state, FALSE) = s
  <2>1. \A c \in Nat : c + 1 < P => Advance(Regs(c, 3, ap), FALSE) = Regs(c + 1, 3, ap)
    BY AdvancePc
  <2>2. 6 \in Nat /\ 6 + 1 < P /\ 6 + 1 = 7
    BY <1>0
  <2> QED BY <1>1, <2>1, <2>2
<1>7. Decode(Word(6)) = {i} /\ i.op.kind = "assert" /\ i.op.appp = FALSE
  BY InstructionsAre, InstructionKinds
<1>8. Extends(w, memory) /\ Get(w, Rel(OutputSegment, 1)) = {v}
  BY <1>4, WrittenIs
<1>9. Free(w, ExecutionSegment, ap)
  BY <1>1, <1>2, FreeStays DEF ExecutionSegment, OutputSegment, TypeOK
<1> HIDE DEF i, w, s
<1>10. Succeeds(memory, i, w, s)
  BY <1>5, <1>6, <1>7 DEF Succeeds
<1>11. state.pc = Code(6) /\ 6 \in 0 .. 18 /\ 6 # 1
  BY <1>1 DEF Regs
<1>12. memory' = w /\ state' = s /\ UNCHANGED <<program, status>>
  BY <1>0, <1>7, <1>10, <1>11, StepFrom
<1>13. Get(w, Rel(OutputSegment, 0)) = {Num(n)}
  BY <1>1, <1>8, GetGrows DEF Claimed
<1>14. Concluding(n)'
  BY <1>8, <1>9, <1>12, <1>13 DEF Concluding, s, ap, v
<1> QED BY <1>8, <1>12, <1>14, GoesOn DEF Point

(* Main returns to the final pointers, and there the run ends.             *)
LEMMA StepConcluding ==
  ASSUME StackFits, TypeOK, NEW n \in ClaimIndices, Known(n), status = "running",
         [Next]_vars, ~ UNCHANGED vars, Concluding(n)
  PROVE  RunsAsClaimed'
<1>0. /\ P \in Nat /\ P > 171 /\ n \in Nat /\ 7 * n + 10 < P
      /\ Top(n) \in Nat /\ Top(n) + 1 < P
      /\ Loaded(memory) /\ program.hints = {1}
  BY ItFits DEF Known, TypeOK
<1> DEFINE v == Num(SquareFibonacci[n + 1])
           Written(m) == /\ Get(m, Rel(OutputSegment, 0)) = {Num(n)}
                         /\ Get(m, Rel(OutputSegment, 1)) = {v}
<1>1. Written(memory)
  BY DEF Concluding
<1>2. \A m : Extends(m, memory) => Written(m)
  <2> HIDE DEF v
  <2> QED BY <1>1, GetGrows
<1>3. CASE state = Regs(7, 3, Top(n) + 1) /\ Free(memory, ExecutionSegment, Top(n) + 1)
  <2> DEFINE i == Instruction(assert_ap_add_imm_fp_appp, 0, 2, Neg(3))
             ap == Top(n) + 1
             o == Rel(OutputSegment, 2)
             w == Put(memory, Stack(ap), o)
             s == Regs(8, 3, MAdd(ap, 1))
  <2>1. /\ AddM31(Stack(3), Neg(3)) = Stack(0) /\ 2 \in M31 /\ 0 \in M31
        /\ AddM31(Rel(2, 0), 2) = Rel(2, 2)
    <3>1. 0 \in Nat /\ 2 \in Nat /\ 0 < P /\ 0 + 2 < P /\ 0 + 2 = 2
      BY <1>0
    <3>2. AddM31(Rel(2, 0), 2) = Rel(2, 0 + 2)
      BY <3>1, Moves
    <3>3. AddM31(Stack(3), Neg(3)) = Stack(0)
      BY <1>0, Moves DEF Stack, ExecutionSegment
    <3> QED BY <1>0, <3>1, <3>2, <3>3 DEF M31
  <2>2. Plus(Immediate(2), OutputCell) = {o}
    <3>1. Immediate(2) = Num(2)
      BY <2>1, NumType
    <3> QED BY <2>1, <3>1, NumPlusRel DEF OutputCell, OutputSegment
  <2>3. ap \in Nat /\ ap < P
    BY <1>0
  <2> HIDE DEF ap, o
  <2>4. state = Regs(7, 3, ap) /\ Stack(ap) \notin DOMAIN memory
    BY <1>3, <2>3, FreeIs DEF Stack, ap
  <2>5. AssertMemories(memory, state, i) = {w}
    <3>1. Get(memory, AddM31(Stack(3), Neg(3))) = {OutputCell}
      BY <1>0, <2>1 DEF Loaded
    <3> QED BY <2>2, <2>3, <2>4, <3>1, PushesAre
  <2>6. Advance(state, TRUE) = s
    <3>1. \A c \in Nat : c + 1 < P => Advance(Regs(c, 3, ap), TRUE) = Regs(c + 1, 3, MAdd(ap, 1))
      BY <2>3, AdvanceAp
    <3>2. 7 \in Nat /\ 7 + 1 < P /\ 7 + 1 = 8
      BY <1>0
    <3> QED BY <2>4, <3>1, <3>2
  <2>7. Decode(Word(7)) = {i} /\ i.op.kind = "assert" /\ i.op.appp = TRUE
    BY InstructionsAre, InstructionKinds
  <2>8. Extends(w, memory)
    BY <2>4, WrittenIs
  <2>9. MAdd(ap, 1) \in M31
    <3>1. ap \in M31 /\ 1 \in M31
      BY <1>0, <2>3 DEF M31
    <3> QED BY <3>1, MType
  <2> HIDE DEF i, w, s
  <2>10. Succeeds(memory, i, w, s)
    BY <2>5, <2>6, <2>7 DEF Succeeds
  <2>11. state.pc = Code(7) /\ 7 \in 0 .. 18 /\ 7 # 1
    BY <2>4 DEF Regs
  <2>12. memory' = w /\ state' = s /\ UNCHANGED <<program, status>>
    BY <1>0, <2>7, <2>10, <2>11, StepFrom
  <2>13. Concluding(n)'
    BY <1>2, <2>8, <2>9, <2>12 DEF Concluding, s
  <2> QED BY <2>8, <2>12, <2>13, GoesOn DEF Point
<1>4. ASSUME NEW ap \in M31, state = Regs(8, 3, ap) PROVE RunsAsClaimed'
  <2> DEFINE i == Instruction(ret, 0, 0, 0)
             s == [ap |-> Stack(ap), fp |-> FinalFp, pc |-> FinalPc]
  <2>1. SubM31(Stack(3), 2) = Stack(1) /\ SubM31(Stack(3), 1) = Stack(2)
    <3>1. 1 \in Nat /\ 2 \in Nat /\ 3 \in Nat /\ 3 < P /\ 3 - 2 = 1 /\ 3 - 1 = 2
      BY <1>0
    <3>2. SubM31(Stack(3), 2) = Stack(3 - 2) /\ SubM31(Stack(3), 1) = Stack(3 - 1)
      BY <3>1, Moves DEF Stack, ExecutionSegment
    <3> QED BY <3>1, <3>2
  <2>2. /\ Get(memory, SubM31(Stack(3), 2)) = {FinalFp}
        /\ Get(memory, SubM31(Stack(3), 1)) = {FinalPc}
    BY <1>0, <2>1 DEF Loaded
  <2>3. FinalFp \in Addr /\ FinalPc \in Addr
    <3>1. 0 \in M31
      BY <1>0 DEF M31
    <3> QED BY <3>1, MakeType DEF FinalFp, FinalPc, Addr
  <2>4. RetStates(memory, state) = {s}
    BY <1>4, <2>2, <2>3, RetIs
  <2>5. Decode(Word(8)) = {i} /\ i.op.kind = "ret"
    BY InstructionsAre, InstructionKinds
  <2>6. state.pc = Code(8) /\ 8 \in 0 .. 18 /\ 8 # 1
    BY <1>4 DEF Regs
  <2> HIDE DEF i, s
  <2>7. Succeeds(memory, i, memory, s)
    BY <2>4, <2>5 DEF Succeeds
  <2>8. memory' = memory /\ state' = s /\ UNCHANGED <<program, status>>
    BY <1>0, <2>5, <2>6, <2>7, StepFrom
  <2>9. Concluding(n)'
    BY <1>1, <2>8 DEF Concluding, s
  <2> QED BY <2>8, <2>9, GoesOn, SameExtends DEF Point
<1>5. CASE state.fp = FinalFp /\ state.pc = FinalPc
  <2>1. ~ Step
    BY <1>5 DEF Step, AddAp, Assert, Call, Jmp, Jnz, Ret, Running
  <2>2. ~ Panic
    BY <1>5 DEF Panic
  <2>3. Halt
    BY <2>1, <2>2 DEF Next
  <2>4. status' = "halted" /\ UNCHANGED <<program, memory, state>>
    BY <2>3 DEF Halt
  <2>5. Known(n)' /\ Concluding(n)'
    BY <2>4 DEF Known, Concluding
  <2> QED BY <2>4, <2>5 DEF RunsAsClaimed
<1> QED BY <1>3, <1>4, <1>5 DEF Concluding

-----------------------------------------------------------------------------
(* The machine starts at the first of the points.                          *)
LEMMA RunsInit ==
  ASSUME Programs \subseteq FibonacciPrograms, StackFits, Init
  PROVE  RunsAsClaimed
<1>1. program.code = FibonacciCode /\ program.hints = {1} /\ IsProgram(program)
  BY ProgramIs, ProgramsAssumption DEF Init
<1>2. PICK n \in ClaimIndices : program.input = {Felt(n)}
  BY ProgramIs DEF Init
<1> DEFINE m == LoadedMemory(program)
<1>3. Len(program.code) = 19
  BY <1>1 DEF FibonacciCode
<1>4. \A a \in CodeCells(program) : a.segment = 0
  BY DEF CodeCells, Rel, ProgramSegment
<1>5. DOMAIN m = CodeCells(program) \cup MainFrame \cup {FinalFp, FinalPc}
  BY DEF LoadedMemory
<1>6. ASSUME NEW c \in 0 .. 18 PROVE Get(m, Code(c)) = {Word(c)}
  <2>1. c + 1 \in 1 .. Len(program.code) /\ (c + 1) - 1 = c
    BY <1>3
  <2>2. /\ Rel(ProgramSegment, (c + 1) - 1) \in DOMAIN m
        /\ m[Rel(ProgramSegment, (c + 1) - 1)] = Abs(program.code[c + 1])
    BY <1>1, <2>1, LoadedCode
  <2> HIDE DEF m
  <2>3. Code(c) \in DOMAIN m /\ m[Code(c)] = Word(c)
    BY <1>1, <2>1, <2>2 DEF Code, Word
  <2> QED BY <2>3 DEF Get
<1>7. /\ Stack(0) = Rel(ExecutionSegment, 0) /\ Stack(1) = Rel(ExecutionSegment, 1)
      /\ Stack(2) = Rel(ExecutionSegment, 2)
      /\ Stack(0) # Stack(1) /\ Stack(0) # Stack(2) /\ Stack(1) # Stack(2)
      /\ {Stack(0), Stack(1), Stack(2)} = MainFrame
      /\ \A a \in MainFrame : a \notin CodeCells(program)
  BY <1>4 DEF Stack, Rel, ExecutionSegment, MainFrame
<1>8. /\ Get(m, Stack(0)) = {OutputCell} /\ Get(m, Stack(1)) = {FinalFp}
      /\ Get(m, Stack(2)) = {FinalPc}
  <2>1. {Stack(0), Stack(1), Stack(2)} \subseteq DOMAIN m
    BY <1>5, <1>7
  <2>2. m[Stack(0)] = OutputCell /\ m[Stack(1)] = FinalFp /\ m[Stack(2)] = FinalPc
    <3>1. /\ Rel(ExecutionSegment, 0) \in DOMAIN m /\ Rel(ExecutionSegment, 1) \in DOMAIN m
          /\ Rel(ExecutionSegment, 2) \in DOMAIN m
      BY <1>7, <2>1
    <3>2. /\ m[Rel(ExecutionSegment, 0)] = OutputCell
          /\ m[Rel(ExecutionSegment, 1)] = FinalFp
          /\ m[Rel(ExecutionSegment, 2)] = FinalPc
      BY <1>7, <3>1, SMT DEF LoadedMemory, MainFrame, Rel, FinalFp, FinalPc, ExecutionSegment
    <3> HIDE DEF m
    <3> QED BY <1>7, <3>2
  <2> HIDE DEF m
  <2> QED BY <2>1, <2>2 DEF Get
<1> HIDE DEF m
<1>9. Known(n)
  BY <1>1, <1>2, <1>6, <1>8 DEF Known, Loaded, Init, m
<1>10. \A a \in DOMAIN m : /\ a.segment # OutputSegment
                           /\ a.segment = ExecutionSegment => a \in MainFrame
  <2>1. FinalFp.segment = 3 /\ FinalPc.segment = 4
    BY DEF FinalFp, FinalPc, Rel
  <2>2. \A a \in MainFrame : a.segment = 1
    BY DEF MainFrame, Rel, ExecutionSegment
  <2> QED BY <1>4, <1>5, <2>1, <2>2 DEF OutputSegment, ExecutionSegment
<1>11. \A a \in MainFrame : a.offset < 3
  BY DEF MainFrame, Rel
<1>12. Entering
  BY <1>10, <1>11 DEF Entering, Free, Init, m, InitialRegisters, InitialStack, Regs, Stack,
     Code
<1> QED BY <1>9, <1>12 DEF RunsAsClaimed, Point, Init

(* From every point the machine gets to a point, or ends as claimed.       *)
LEMMA RunsStep ==
  ASSUME StackFits, TypeOK, RunsAsClaimed, [Next]_vars
  PROVE  RunsAsClaimed'
<1>1. PICK n \in ClaimIndices :
        /\ Known(n)
        /\ \/ status = "running" /\ Point(n)
           \/ status = "halted" /\ Concluding(n)
  BY DEF RunsAsClaimed
<1>2. CASE status = "halted" /\ Concluding(n)
  <2>1. UNCHANGED vars
    BY <1>2 DEF Next, Step, AddAp, Assert, Call, Jmp, Jnz, Ret, Running, Halt, Panic
  <2>2. Known(n)' /\ Concluding(n)' /\ status' = "halted"
    BY <1>1, <1>2, <2>1 DEF vars, Known, Concluding
  <2> QED BY <2>2 DEF RunsAsClaimed
<1>3. CASE status = "running" /\ Point(n) /\ UNCHANGED vars
  BY <1>1, <1>3, StaysAsClaimed
<1>4. CASE status = "running" /\ Point(n) /\ ~ UNCHANGED vars
  <2> USE <1>1, <1>4
  <2>0. n \in Nat
    BY DEF StackFits
  <2>1. CASE Entering
    BY <2>1, StepEntering
  <2>2. ASSUME NEW c \in 2 .. 5, Passing(n, c) PROVE RunsAsClaimed'
    BY <2>2, StepPassing
  <2>3. ASSUME NEW k \in 0 .. n, NEW c \in 9 .. 10, Testing(n, k, c) PROVE RunsAsClaimed'
    BY <2>3, StepTesting
  <2>4. ASSUME NEW k \in 0 .. n, NEW c \in 12 .. 17, Computing(n, k, c) PROVE RunsAsClaimed'
    BY <2>4, StepComputing
  <2>5. ASSUME NEW k \in 0 .. n, NEW c \in {11, 18}, Returning(n, c, Top(k))
        PROVE  RunsAsClaimed'
    BY <2>5, StepReturning
  <2>6. CASE Returning(n, 11, Top(n))
    BY <2>0, <2>5, <2>6
  <2>7. ASSUME NEW k \in 0 .. n - 1, Returning(n, 18, Top(k)) PROVE RunsAsClaimed'
    <3>1. k \in 0 .. n
      BY <2>0
    <3> QED BY <2>5, <2>7, <3>1
  <2>8. CASE Returning(n, 6, 3)
    BY <2>8, StepOutput
  <2>9. CASE Concluding(n)
    BY <2>9, StepConcluding
  <2> QED BY <2>1, <2>2, <2>3, <2>4, <2>6, <2>7, <2>8, <2>9 DEF Point
<1> QED BY <1>1, <1>2, <1>3, <1>4

(* At any time a run is at one of the program's points, with the frames    *)
(* and the terms in place that belong there, or it has ended as claimed:   *)
(* no wrapped offset, no write to a known cell, no missing operand.        *)
THEOREM RunsCorrect ==
  ASSUME Programs \subseteq FibonacciPrograms, StackFits
  PROVE  Spec => []RunsAsClaimed
<1>1. Init => RunsAsClaimed
  BY RunsInit
<1>2. TypeOK /\ RunsAsClaimed /\ [Next]_vars => RunsAsClaimed'
  BY RunsStep
<1> QED BY <1>1, <1>2, TypeCorrect, PTL DEF Spec

(* A run of the program that ends has the index and the term in its        *)
(* output, whatever P is and for every index whose calls fit.              *)
THEOREM OutputCorrect ==
  ASSUME Programs \subseteq FibonacciPrograms, StackFits
  PROVE  Spec => []OutputIsTheClaim
<1>1. RunsAsClaimed => OutputIsTheClaim
  BY DEF RunsAsClaimed, OutputIsTheClaim, Known, Concluding, Num
<1> QED BY <1>1, RunsCorrect, PTL

(* It never panics: the step that is due always succeeds.                  *)
THEOREM NeverPanicsCorrect ==
  ASSUME Programs \subseteq FibonacciPrograms, StackFits
  PROVE  Spec => []NeverPanics
<1>1. RunsAsClaimed => NeverPanics
  BY DEF RunsAsClaimed, NeverPanics
<1> QED BY <1>1, RunsCorrect, PTL
=============================================================================
