----------------------------- MODULE MCCairoVM ------------------------------
(***************************************************************************)
(* Families of small programs: every sequence of Length words of one of    *)
(* the alphabets, closed by a `ret`, with and without a hint at one place. *)
(***************************************************************************)
EXTENDS CairoVM

CONSTANTS Alphabets, \* sets of words
          Length,    \* the number of free instructions
          Hinting    \* where the hint may be, and the input it reads

Neg(n) == P - n

Family ==
  {[code |-> body \o <<Encode(171, 0, 0, 0)>>, hints |-> h.at, input |-> h.input] :
     body \in UNION {[1 .. Length -> words] : words \in Alphabets}, h \in Hinting}

(* Equations: immediates (one beyond MaxAddress, so that as an absolute    *)
(* address it is refused), pointer arithmetic, products and quotients, and *)
(* pointers into the output segment, the code and the absolute addresses.  *)
(* At entry [fp-3], [fp-2], [fp-1] hold pointers; [fp], [fp+1].. nothing.  *)
EquationWords ==
  { Encode(38, 0, 2, 0),                \* [ap] = 2, ap++
    Encode(38, 0, 200, 0),              \* [ap] = 200, ap++
    Encode(57, 1, 0, 0),                \* [fp+1] = [fp] + [fp]
    Encode(28, 0, 1, Neg(3)),           \* [ap] = [fp-3] + 1, ap++
    Encode(57, 0, 1, Neg(3)),           \* [fp] = [fp+1] + [fp-3]
    Encode(79, 0, 1, 2),                \* [fp] = [fp+1] * [fp+2]
    Encode(83, 1, 3, 0),                \* [fp+1] = 3 * [fp]
    Encode(65, 0, 1, 0),                \* [fp] = [fp+1]
    Encode(69, 0, Neg(3), 0),           \* [fp] = [[fp-3] + 0]
    Encode(69, 2, 0, 0),                \* [fp+2] = [[fp] + 0]
    Encode(69, 1, Neg(1), 0) }          \* [fp+1] = [[fp-1] + 0]

(* Control: calls that go by an immediate, by a cell and by a cell they    *)
(* have just pushed, returns, taken and untaken jumps, and ap moved both   *)
(* ways, so that a call can push onto cells that are in use.               *)
ControlWords ==
  { Encode(90, 2, 0, 0),                \* call rel 2
    Encode(85, 1, 0, 0),                \* call abs [ap+1]: the pushed pc
    Encode(86, Neg(1), 0, 0),           \* call abs [fp-1]
    Encode(171, 0, 0, 0),               \* ret
    Encode(145, Neg(1), 0, 0),          \* jmp rel imm
    Encode(105, Neg(1), 0, 0),          \* jmp abs [fp-1]
    Encode(105, 0, 0, 0),               \* jmp abs [fp], which a hint may set
    Encode(169, 2, 0, 0),               \* jnz imm 2 on [fp]
    Encode(10, Neg(2), 0, 0),           \* ap -= 2
    Encode(10, 1, 0, 0),                \* ap += 1
    Encode(38, 0, 1, 0),                \* [ap] = 1, ap++
    Encode(69, 0, Neg(1), 0) }          \* [fp] = [[fp-1]]: a code cell, once called

JustControl == {ControlWords}
BothAlphabets == {EquationWords, ControlWords}

(* No hint; one before the first or the third instruction, the second with *)
(* an input outside the base field; one that finds no input.               *)
Hints == { [at |-> {}, input |-> {}],
           [at |-> {0}, input |-> {Felt(2)}],
           [at |-> {2}, input |-> {<<<<2, 0>>, <<1, 0>>>>}],
           [at |-> {1}, input |-> {}] }
=============================================================================
