--------------------------- MODULE MCSegmentMemory ---------------------------
(***************************************************************************)
(* Instances of SegmentMemory for TLC; the processes are interchangeable.  *)
(***************************************************************************)
EXTENDS SegmentMemory

ProcSymmetry == Permutations(Proc)
==============================================================================
