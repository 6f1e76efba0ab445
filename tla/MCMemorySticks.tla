---------------------------- MODULE MCMemorySticks ----------------------------
(***************************************************************************)
(* Instances of MemorySticks for TLC: the segment of the CPU crosses from  *)
(* one Memory Stick to the other, and Kernel Memory accesses the rest.     *)
(***************************************************************************)
EXTENDS MemorySticks

TwoEach == [s \in Stick |-> 2]
Crossing == [c \in Cpu |-> {[id |-> 1, base |-> 1, size |-> 2]}]
\* Different bytes, so that a piece out of place shows.
Numbered == [n \in 1 .. MaxSize |-> {[i \in 1 .. n |-> i]}]
CpuTwice == [c \in Client |-> IF c = KM THEN 1 ELSE 2]
===============================================================================
