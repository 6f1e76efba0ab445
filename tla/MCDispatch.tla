------------------------------ MODULE MCDispatch ------------------------------
(***************************************************************************)
(* Instances of Dispatch for TLC: p0 is process0; the priorities, queue    *)
(* algorithms and programs of the configurations.                          *)
(***************************************************************************)
EXTENDS Dispatch

CONSTANT p0

SamePriority == [p \in Proc |-> 0]
RootFirst == [p \in Proc |-> IF p = p0 THEN 0 ELSE 1]

AllFifo == [i \in Queues |-> "FIFO"]

\* The system calls of the programs: all of them, those without Kernel
\* Memory, those that leave the CPU next to MEM_ALLOC, or a few.
Everything == [p \in Proc |-> AllSyscalls]
Basic == [p \in Proc |-> {"PROCESS_END", "PROCESS_CREATE", "SLEEP", "MUTEX_CREATE"}]
WithStdout == [p \in Proc |-> Basic[p] \cup {"STDOUT"}]
Allocating == [p \in Proc |-> {"PROCESS_CREATE", "MEM_ALLOC", "SLEEP", "PROCESS_END"}]

CpuSymmetry == Permutations(Cpu)
==============================================================================
