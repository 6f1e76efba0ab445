----------------------------- MODULE SchedulerLink -----------------------------
(***************************************************************************)
(* The Kernel Scheduler as one CPU sees it: the two directions of their    *)
(* socket and what the scheduler remembers of the CPU.  The whole          *)
(* scheduler is in Dispatch; the guards below are its invariants           *)
(* ExecutedOnce and EvictionHandshake, and that a CPU that is being        *)
(* evicted is sent no process, which the scheduler keeps when its sends    *)
(* are prompt (PromptSend) and not otherwise.                              *)
(* SLEEP stands for the syscalls after which the process leaves the CPU,   *)
(* MEM_ALLOC for those after which it keeps it until it is sent again,     *)
(* PROCESS_END also for SEGMENTATION_FAULT.                                *)
(***************************************************************************)
EXTENDS Sequences, FiniteSets, Naturals

CONSTANTS Proc, NoProc

ASSUME LinkAssumption == NoProc \notin Proc

VARIABLES toCpu,    \* messages the CPU has not received yet
          fromCpu,  \* messages the scheduler has not received yet
          view      \* the CPU's t_client_info and the process assigned to it

linkVars == <<toCpu, fromCpu, view>>

Syscalls == {"SLEEP", "MEM_ALLOC", "PROCESS_END"}
Message(op, p) == [op |-> op, pid |-> p]

LinkInit ==
    /\ toCpu = <<>>
    /\ fromCpu = <<>>
    /\ view = [pid |-> NoProc, idle |-> TRUE, evicting |-> FALSE, ended |-> {}]

\* send_pid_to_execute: a process new to the CPU, or the one that made a
\* syscall and keeps the CPU.
send_pid_to_execute(p) ==
    /\ view.idle
    /\ ~view.evicting
    /\ view.pid \in {NoProc, p}
    /\ p \notin view.ended
    /\ view' = [view EXCEPT !.pid = p, !.idle = FALSE]
    /\ toCpu' = Append(toCpu, Message("PROCESS_EXECUTE", p))
    /\ UNCHANGED fromCpu

\* send_process_evict: quantum, preemption or compaction.
send_process_evict ==
    /\ ~view.evicting
    /\ view' = [view EXCEPT !.evicting = TRUE]
    /\ toCpu' = Append(toCpu, Message("PROCESS_EVICT", NoProc))
    /\ UNCHANGED fromCpu

\* cpu_handler: the next message of the CPU is served.
cpu_handler ==
    /\ fromCpu # <<>>
    /\ fromCpu' = Tail(fromCpu)
    /\ LET m == Head(fromCpu)
       IN  view' = CASE m.op = "PROCESS_CREATE" -> view
                     [] m.op = "MEM_ALLOC" -> [view EXCEPT !.idle = TRUE]
                     [] m.op = "SLEEP" -> [view EXCEPT !.idle = TRUE, !.pid = NoProc]
                     [] m.op = "PROCESS_END" ->
                          [view EXCEPT !.idle = TRUE, !.pid = NoProc,
                                       !.ended = @ \cup {m.pid}]
                     [] m.op = "CONFIRMATION" ->
                          [view EXCEPT !.idle = TRUE, !.pid = NoProc,
                                       !.evicting = FALSE]
    /\ UNCHANGED toCpu

SchedulerStep ==
    \/ \E p \in Proc : send_pid_to_execute(p)
    \/ send_process_evict
    \/ cpu_handler
==============================================================================
