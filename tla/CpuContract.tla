------------------------------ MODULE CpuContract ------------------------------
(***************************************************************************)
(* What a CPU promises to the Kernel Scheduler: it obeys the orders one by *)
(* one, runs one process at a time, stops at a syscall, and confirms an    *)
(* eviction when it runs nothing.  Dispatch uses CPUs through exactly      *)
(* these three actions; CpuEviction implements them with two threads.      *)
(***************************************************************************)
EXTENDS SchedulerLink

VARIABLE running    \* the process the CPU runs

contractVars == <<linkVars, running>>

ContractInit == LinkInit /\ running = NoProc

Order(op) == toCpu # <<>> /\ Head(toCpu).op = op /\ toCpu' = Tail(toCpu)

Execute ==
    /\ Order("PROCESS_EXECUTE")
    /\ running = NoProc
    /\ running' = Head(toCpu).pid
    /\ UNCHANGED <<fromCpu, view>>

Evict ==
    /\ Order("PROCESS_EVICT")
    /\ running' = NoProc
    /\ fromCpu' = Append(fromCpu, Message("CONFIRMATION", NoProc))
    /\ UNCHANGED view

Syscall ==
    /\ running # NoProc
    /\ \E op \in Syscalls \cup {"PROCESS_CREATE"} :
          /\ fromCpu' = Append(fromCpu, Message(op, running))
          /\ running' = IF op \in Syscalls THEN NoProc ELSE running
    /\ UNCHANGED <<toCpu, view>>

ContractNext ==
    \/ SchedulerStep /\ UNCHANGED running
    \/ Execute \/ Evict \/ Syscall

ContractSpec == ContractInit /\ [][ContractNext]_contractVars
==============================================================================
