----------------------------- MODULE MCFibonacci ----------------------------
(***************************************************************************)
(* The program runnair is tested with, executed over the prime P = 223 for *)
(* several claim indices (the test has one, 0x64).                         *)
(***************************************************************************)
EXTENDS FibonacciPoints

ASSUME FilesAreCanonical == \A f \in FibonacciFiles : Canonical(f)
ASSUME IndicesFit == StackFits
=============================================================================
