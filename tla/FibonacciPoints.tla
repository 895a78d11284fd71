-------------------------- MODULE FibonacciPoints --------------------------
(***************************************************************************)
(* Where a run of the Fibonacci program is, and what its memory then holds *)
(* (RunsAsClaimed): the inductive invariant behind what Fibonacci says of  *)
(* the runs that end.                                                      *)
(***************************************************************************)
EXTENDS Fibonacci

(* The code as it is read from the file.                                   *)
FibonacciCode ==
  << Encode(10, 1, 0, 0), Encode(69, 0, Neg(3), 0), Encode(38, 0, 1, 0),
     Encode(38, 0, 1, 0), Encode(32, 0, 0, 0), Encode(90, 4, 0, 0),
     Encode(35, Neg(1), Neg(3), 1), Encode(28, 0, 2, Neg(3)),
     Encode(171, 0, 0, 0), Encode(169, 3, Neg(3), 0),
     Encode(32, 0, Neg(4), 0), Encode(171, 0, 0, 0),
     Encode(46, 0, Neg(5), Neg(5)), Encode(46, 0, Neg(4), Neg(4)),
     Encode(32, 0, Neg(4), 0), Encode(18, 0, Neg(3), Neg(2)),
     Encode(28, 0, Neg(1), Neg(3)), Encode(90, Neg(8), 0, 0),
     Encode(171, 0, 0, 0) >>

(* The word at an offset of it.                                            *)
Word(c) == Abs(FibonacciCode[c + 1])

(* Where the machine is: in a frame at fp, with the stack up to ap.        *)
Stack(k) == Rel(ExecutionSegment, k)
Code(c) == Rel(ProgramSegment, c)
Num(x) == Abs(Felt(x))
Regs(c, fp, ap) == [ap |-> Stack(ap), fp |-> Stack(fp), pc |-> Code(c)]

-----------------------------------------------------------------------------
(* The frames.  Where frame k begins, Top(k), below it lie the three       *)
(* arguments of the call, two terms and the countdown, and the fp and pc   *)
(* it pushed.                                                              *)
Top(k) == 9 + 7 * k

Called(m, n, k) ==
  /\ Get(m, Stack(Top(k) - 5)) = {Num(SquareFibonacci[k])}
  /\ Get(m, Stack(Top(k) - 4)) = {Num(SquareFibonacci[k + 1])}
  /\ Get(m, Stack(Top(k) - 3)) = {Num(n - k)}
  /\ Get(m, Stack(Top(k) - 2)) = {Stack(IF k = 0 THEN 3 ELSE Top(k - 1))}
  /\ Get(m, Stack(Top(k) - 1)) = {Code(IF k = 0 THEN 6 ELSE 18)}

Calls(m, n, k) == \A j \in 0 .. k : Called(m, n, j)

(* The code and main's own frame.                                          *)
Loaded(m) ==
  /\ \A c \in 0 .. 18 : Get(m, Code(c)) = {Word(c)}
  /\ Get(m, Stack(0)) = {OutputCell}
  /\ Get(m, Stack(1)) = {FinalFp}
  /\ Get(m, Stack(2)) = {FinalPc}

(* The index is where the hint and main put it.                            *)
Claimed(m, n) == /\ Get(m, Stack(3)) = {Num(n)}
                 /\ Get(m, Rel(OutputSegment, 0)) = {Num(n)}

(* Nothing is known of segment g from offset k on.                         *)
Free(m, g, k) == \A a \in DOMAIN m : IsRel(a) /\ a.segment = g => a.offset < k

(* What a run knows throughout.                                            *)
Known(n) == /\ program.code = FibonacciCode
            /\ program.hints = {1}
            /\ program.input = {Felt(n)}
            /\ Loaded(memory)

(* The points.  The first two instructions of main, which pass the index   *)
(* to the output;                                                          *)
Entering == /\ state \in {Regs(0, 3, 3), Regs(1, 3, 4)}
            /\ Free(memory, ExecutionSegment, 3)
            /\ Free(memory, OutputSegment, 0)

(* the arguments of the first call, up to the call;                        *)
Passing(n, c) ==
  /\ state = Regs(c, 3, c + 2)
  /\ Free(memory, ExecutionSegment, c + 2)
  /\ Free(memory, OutputSegment, 1)
  /\ Claimed(memory, n)
  /\ c > 2 => Get(memory, Stack(4)) = {Num(1)}
  /\ c > 3 => Get(memory, Stack(5)) = {Num(1)}
  /\ c > 4 => Get(memory, Stack(6)) = {Num(n)}

(* frame k, where the countdown is tested and, at zero, the term pushed;   *)
Testing(n, k, c) ==
  /\ state = Regs(c, Top(k), Top(k))
  /\ Free(memory, ExecutionSegment, Top(k))
  /\ Free(memory, OutputSegment, 1)
  /\ Claimed(memory, n)
  /\ Calls(memory, n, k)
  /\ c = 10 => k = n

(* frame k, where the next term is computed and passed on with the         *)
(* countdown, up to the call;                                              *)
Computing(n, k, c) ==
  /\ k < n
  /\ state = Regs(c, Top(k), Top(k) + c - 12)
  /\ Free(memory, ExecutionSegment, Top(k) + c - 12)
  /\ Free(memory, OutputSegment, 1)
  /\ Claimed(memory, n)
  /\ Calls(memory, n, k)
  /\ c > 12 => Get(memory, Stack(Top(k))) =
                 {Num(MMul(SquareFibonacci[k], SquareFibonacci[k]))}
  /\ c > 13 => Get(memory, Stack(Top(k) + 1)) =
                 {Num(MMul(SquareFibonacci[k + 1], SquareFibonacci[k + 1]))}
  /\ c > 14 => Get(memory, Stack(Top(k) + 2)) = {Num(SquareFibonacci[k + 1])}
  /\ c > 15 => Get(memory, Stack(Top(k) + 3)) = {Num(SquareFibonacci[k + 2])}
  /\ c > 16 => Get(memory, Stack(Top(k) + 4)) = {Num(n - k - 1)}

(* the way back through the frames, the result on top of the stack;        *)
Returning(n, c, fp) ==
  /\ state = Regs(c, fp, Top(n) + 1)
  /\ Free(memory, ExecutionSegment, Top(n) + 1)
  /\ Free(memory, OutputSegment, 1)
  /\ Claimed(memory, n)
  /\ Calls(memory, n, n)
  /\ Get(memory, Stack(Top(n))) = {Num(SquareFibonacci[n + 1])}

(* and, once main has written it to the output, to the final pointers.     *)
Concluding(n) ==
  /\ Get(memory, Rel(OutputSegment, 0)) = {Num(n)}
  /\ Get(memory, Rel(OutputSegment, 1)) = {Num(SquareFibonacci[n + 1])}
  /\ \/ state = Regs(7, 3, Top(n) + 1) /\ Free(memory, ExecutionSegment, Top(n) + 1)
     \/ \E ap \in M31 : state = Regs(8, 3, ap)
     \/ state.fp = FinalFp /\ state.pc = FinalPc

Point(n) ==
  \/ Entering
  \/ \E c \in 2 .. 5 : Passing(n, c)
  \/ \E k \in 0 .. n, c \in 9 .. 10 : Testing(n, k, c)
  \/ \E k \in 0 .. n, c \in 12 .. 17 : Computing(n, k, c)
  \/ Returning(n, 11, Top(n))
  \/ \E k \in 0 .. n - 1 : Returning(n, 18, Top(k))
  \/ Returning(n, 6, 3)
  \/ Concluding(n)

(* The index is one of the claims, the code that of the file, and either   *)
(* the run is at one of these points or it has ended after the last.       *)
RunsAsClaimed ==
  \E n \in ClaimIndices :
    /\ Known(n)
    /\ \/ status = "running" /\ Point(n)
       \/ status = "halted" /\ Concluding(n)
=============================================================================
