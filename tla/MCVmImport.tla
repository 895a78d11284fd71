----------------------------- MODULE MCVmImport -----------------------------
(***************************************************************************)
(* The files of small runs.  A field element is narrower than a word, as   *)
(* in the code.                                                            *)
(***************************************************************************)
EXTENDS VmImport

(* Zero twice over (P is not reduced in the file), an instruction word,    *)
(* and a value outside the base field.                                     *)
Raws == {<<0, 0, 0, 0>>, <<P, 0, 0, 0>>, <<4, 0, 0, 0>>, <<1, 1, 0, 0>>}

MemoryFiles ==
  UNION {[1 .. n -> [addr : {0, 1, 3}, val : Raws]] : n \in 0 .. 3}

(* Entries at addresses that were written, were skipped and are beyond the *)
(* end, and some that are cut to 32 bits.                                  *)
Entry(pc, ap, fp) == [pc |-> pc, ap |-> ap, fp |-> fp]
TraceFiles == {<<Entry(WordSize + 1, 2, WordSize), Entry(0, WordSize + 4, 2)>>,
               <<Entry(1, 2, 2), Entry(2, 3, 2), Entry(1, 3, 2)>>,
               <<Entry(3, 2, 2), Entry(4, 3, 3)>>}

Segment(b, s) == [begin_addr |-> b, stop_ptr |-> s]
SegmentMap(names, s) == [n \in names |-> Segment(1, s)]

FullFiles ==
  [memory : MemoryFiles, trace : TraceFiles, public : {<<1, WordSize + 2>>},
   segments : {SegmentMap({"range_check", "execution"}, 4)}]

(* The segments' own cases, with one memory and one trace.                 *)
SegmentFiles ==
  [memory : {<<[addr |-> 0, val |-> <<4, 0, 0, 0>>]>>},
   trace : {<<Entry(0, 2, 2)>>}, public : {<<1, WordSize + 2>>},
   segments : {SegmentMap({}, 0), SegmentMap({"execution"}, 4),
               SegmentMap({"range_check"}, WordSize - 1),
               SegmentMap({"range_check"}, WordSize + 1)}]

SmallFiles == FullFiles \cup SegmentFiles
=============================================================================
