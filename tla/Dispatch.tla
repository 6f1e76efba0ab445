------------------------------- MODULE Dispatch -------------------------------
(***************************************************************************)
(* How the Kernel Scheduler gives processes to CPUs and takes them back.   *)
(*                                                                         *)
(* The threads of the Kernel Scheduler that share the process lists:       *)
(*   - "STS", short_term_scheduler_main;                                   *)
(*   - "QM", quantum_manager;                                              *)
(*   - "KM", kernel_memory_handler, which serves Kernel Memory's answers;  *)
(*   - one cpu_handler thread per CPU, named by the CPU;                   *)
(*   - the detached threads that wait for an eviction's confirmation       *)
(*     (waiters) and the compaction thread (comp).                         *)
(* One action is one critical section of scheduler_mutex, or one message   *)
(* sent; what a thread remembers between two of them is in thr.            *)
(*                                                                         *)
(* A CPU is represented by its contract with the scheduler: it runs one    *)
(* process at a time, stops at a syscall, and answers each PROCESS_EVICT   *)
(* with one CONFIRMATION once it runs nothing.  That is CpuContract, which *)
(* CpuEviction, the model of the CPU's own threads, is checked against.    *)
(* Mutex blocking, priority inheritance and suspension are in other        *)
(* modules: here a priority is fixed and SLEEP stands for blocking.        *)
(***************************************************************************)
EXTENDS ReadyQueues, FiniteSets

CONSTANTS Cpu,              \* CPUs that may connect
          NoCpu,            \* the NULL t_client_info pointer
          Root,             \* process0, created when the scheduler starts
          Priority,         \* [Proc -> Nat], the priority given to INIT_PROC
          QueueAlgorithm,   \* [Queues -> {"FIFO", "RR"}], QUEUES_ALGORITHMS
          QueuePreemption,  \* QUEUE_PREEMPTION
          Program,          \* [Proc -> system calls], those of the process's
                            \* instruction file, in any order and number
          PromptSend,       \* timing assumption: TRUE means that no eviction of
                            \* a CPU starts while send_pid_to_execute is under
                            \* way for it; the code has no lock that says so
          PromptAnswer,     \* timing assumption: TRUE means that no eviction of
                            \* a CPU is acknowledged while handle_segment_result
                            \* is at work with that CPU, which it has read under
                            \* scheduler_mutex and uses after releasing it
          Crashes,          \* TRUE: CPUs may disconnect
          Compaction,       \* TRUE: memory gets fragmented enough to compact
          MaxWakeups        \* bound on short_term_scheduler_sem

\* The messages of cpu_handler.  SLEEP stands for every syscall that blocks
\* its process until a device answers (STDIN of some bytes too), STDOUT first
\* reads from Kernel Memory, STDIN_EMPTY asks for 0 bytes; MEM_ALLOC stands
\* for MEM_FREE too, MEM_ALLOC_EMPTY asks for a segment of size 0.  MUTEX_LOCK
\* and MUTEX_UNLOCK of a known mutex are in MutexManager.
AllSyscalls == {"PROCESS_END", "SEGMENTATION_FAULT", "PROCESS_CREATE",
                "MUTEX_CREATE", "MUTEX_UNKNOWN", "SLEEP", "STDOUT", "STDIN_EMPTY",
                "MEM_ALLOC", "MEM_ALLOC_EMPTY"}

ASSUME DispatchAssumption ==
    /\ NoCpu \notin Cpu
    /\ Cpu \cap {"STS", "QM", "KM"} = {}
    /\ Root \in Proc
    /\ Priority \in [Proc -> Nat]
    /\ QueueAlgorithm \in [Queues -> {"FIFO", "RR"}]
    /\ QueuePreemption \in BOOLEAN
    /\ Program \in [Proc -> SUBSET AllSyscalls]
    /\ PromptSend \in BOOLEAN
    /\ PromptAnswer \in BOOLEAN
    /\ Crashes \in BOOLEAN
    /\ Compaction \in BOOLEAN
    /\ MaxWakeups \in Nat \ {0}

VARIABLES
    \* t_process, list_processes, exec_processes and ready_queue
    state, cpu, listed, exec, readyQ, pendingMem,
    \* t_client_info of each CPU, and the threads waiting on its response_sem
    connected, available, evicting, response, waiters,
    \* the two directions of each CPU's socket, and what the CPU runs
    toCpu, fromCpu, running,
    \* threads, semaphores and flags of the scheduler
    thr, stsSem, canSchedule, comp,
    \* requests Kernel Memory and the IO devices have not answered yet
    kmNew, kmReq, kmRead, ioReq

procVars == <<state, cpu, listed, exec, readyQ, pendingMem>>
cpuVars  == <<connected, available, evicting, response, waiters>>
netVars  == <<toCpu, fromCpu, running>>
extVars  == <<kmNew, kmReq, kmRead, ioReq>>
vars == <<procVars, cpuVars, netVars, thr, stsSem, canSchedule, comp, extVars>>

Threads == Cpu \cup {"STS", "QM", "KM"}
Message(op, p) == [op |-> op, pid |-> p]
Local(at, p, c) == [at |-> at, pid |-> p, cpu |-> c]

\* Where a thread continues after send_pid_to_execute or evict_process.
Home(t) == CASE t = "STS" -> Local("loop", NoProc, NoCpu)
             [] t = "QM"  -> Local("scan", NoProc, NoCpu)
             [] OTHER     -> Local("idle", NoProc, NoCpu)

Goto(t, loc) == thr' = [thr EXCEPT ![t] = loc]

\* sem_post(&short_term_scheduler_sem); the count is capped by MaxWakeups:
\* one pass of the scheduler serves any number of wake-ups.
sem_post == stsSem' = IF stsSem < MaxWakeups THEN stsSem + 1 ELSE stsSem

\* What PromptAnswer rules out.
AnswerInHand(c) == PromptAnswer /\ thr["KM"].at # "idle" /\ thr["KM"].cpu = c

\* Fault: the confirmation is not waited for.
WaitResponse_AtOnce(c) == response' = [response EXCEPT ![c] = @ - 1]

\* sem_wait(&cpu->response_sem)
WaitResponse(c) ==
    /\ response[c] > 0
    /\ ~AnswerInHand(c)
    /\ response' = [response EXCEPT ![c] = @ - 1]

InList(list, x) == \E i \in DOMAIN list : list[i] = x

\* First process of list_processes assigned to c.
get_process_from_cpu(c) ==
    LET at == {i \in DOMAIN listed : cpu[listed[i]] = c}
    IN  IF at = {} THEN NoProc ELSE listed[CHOOSE i \in at : \A j \in at : i <= j]

process_has_quantum(p) ==
    \/ Algorithm = "RR"
    \/ Algorithm = "CMN" /\ QueueAlgorithm[QueueIndex(Priority[p])] = "RR"

Init ==
    /\ state = [p \in Proc |-> IF p = Root THEN "NEW" ELSE "NONE"]
    /\ cpu = [p \in Proc |-> NoCpu]
    /\ listed = <<Root>>
    /\ exec = <<>>
    /\ readyQ = EmptyQueues
    /\ pendingMem = [p \in Proc |-> FALSE]
    /\ connected = [c \in Cpu |-> "no"]
    /\ available = [c \in Cpu |-> FALSE]
    /\ evicting = [c \in Cpu |-> FALSE]
    /\ response = [c \in Cpu |-> 0]
    /\ waiters = [c \in Cpu |-> 0]
    /\ toCpu = [c \in Cpu |-> <<>>]
    /\ fromCpu = [c \in Cpu |-> <<>>]
    /\ running = [c \in Cpu |-> NoProc]
    /\ thr = [t \in Threads |->
                IF t = "STS" THEN Local("wait", NoProc, NoCpu)
                ELSE Local("idle", NoProc, NoCpu)]
    /\ stsSem = 0
    /\ canSchedule = TRUE
    /\ comp = [at |-> "idle", for |-> NoProc, todo |-> <<>>, evicted |-> <<>>]
    /\ kmNew = {Root}
    /\ kmReq = {}
    /\ kmRead = {}
    /\ ioReq = {}

-----------------------------------------------------------------------------
(* CPUs joining and leaving: cpu_handler.                                  *)

\* A CPU connects: add_client_to_list creates it available.
CpuConnect(c) ==
    /\ connected[c] = "no"
    /\ connected' = [connected EXCEPT ![c] = "yes"]
    /\ available' = [available EXCEPT ![c] = TRUE]
    /\ sem_post
    /\ UNCHANGED <<procVars, evicting, response, waiters, netVars, thr,
                   canSchedule, comp, extVars>>

\* The CPU's process dies; its socket still delivers what was sent before.
CpuCrash(c) ==
    /\ Crashes
    /\ connected[c] = "yes"
    /\ connected' = [connected EXCEPT ![c] = "lost"]
    /\ running' = [running EXCEPT ![c] = NoProc]
    /\ toCpu' = [toCpu EXCEPT ![c] = <<>>]
    /\ UNCHANGED <<procVars, available, evicting, response, waiters, fromCpu,
                   thr, stsSem, canSchedule, comp, extVars>>

\* Fault: the process stays in exec_processes.
Detach_StillListed(p) ==
    IF p = NoProc THEN UNCHANGED procVars
    ELSE /\ state' = [state EXCEPT ![p] = "READY"]
         /\ cpu' = [cpu EXCEPT ![p] = NoCpu]
         /\ readyQ' = add_process_to_ready_queue(readyQ, p, Priority[p])
         /\ UNCHANGED <<exec, listed, pendingMem>>

Detach(p) ==
    IF p = NoProc THEN UNCHANGED procVars
    ELSE /\ state' = [state EXCEPT ![p] = "READY"]
         /\ cpu' = [cpu EXCEPT ![p] = NoCpu]
         /\ readyQ' = add_process_to_ready_queue(readyQ, p, Priority[p])
         /\ exec' = RemoveFirst(exec, p)
         /\ UNCHANGED <<listed, pendingMem>>

\* The handler reads the end of the stream: the process goes back to READY
\* and the CPU leaves list_cpu.
handle_cpu_disconnection(c) ==
    /\ connected[c] = "lost"
    /\ fromCpu[c] = <<>>
    /\ thr[c].at = "idle"
    /\ connected' = [connected EXCEPT ![c] = "gone"]
    /\ available' = [available EXCEPT ![c] = FALSE]
    /\ Detach(get_process_from_cpu(c))
    /\ sem_post
    /\ UNCHANGED <<evicting, response, waiters, netVars, thr, canSchedule,
                   comp, extVars>>

-----------------------------------------------------------------------------
(* The CPU's side of the protocol.                                         *)

ToScheduler(c, op, p) ==
    fromCpu' = [fromCpu EXCEPT ![c] = Append(@, Message(op, p))]

\* PROCESS_EXECUTE waits until the CPU's execution thread has finished.
CpuExecute(c) ==
    /\ toCpu[c] # <<>>
    /\ Head(toCpu[c]).op = "PROCESS_EXECUTE"
    /\ running[c] = NoProc
    /\ running' = [running EXCEPT ![c] = Head(toCpu[c]).pid]
    /\ toCpu' = [toCpu EXCEPT ![c] = Tail(@)]
    /\ UNCHANGED <<procVars, cpuVars, fromCpu, thr, stsSem, canSchedule, comp,
                   extVars>>

\* PROCESS_EVICT: the process, if any, is stopped before the confirmation.
CpuEvict(c) ==
    /\ toCpu[c] # <<>>
    /\ Head(toCpu[c]).op = "PROCESS_EVICT"
    /\ running' = [running EXCEPT ![c] = NoProc]
    /\ toCpu' = [toCpu EXCEPT ![c] = Tail(@)]
    /\ ToScheduler(c, "CONFIRMATION", NoProc)
    /\ UNCHANGED <<procVars, cpuVars, thr, stsSem, canSchedule, comp, extVars>>

\* Bound: programs ask for no more processes than Proc has left.
CreationsInFlight ==
    UNION {{c} \X {i \in DOMAIN fromCpu[c] : fromCpu[c][i].op = "PROCESS_CREATE"}
           : c \in Cpu}

\* A syscall instruction: the CPU yields, except for INIT_PROC.
CpuSyscall(c, op) ==
    /\ running[c] # NoProc
    /\ op \in Program[running[c]]
    /\ op = "PROCESS_CREATE" =>
          Cardinality(CreationsInFlight) < Cardinality({q \in Proc : state[q] = "NONE"})
    /\ ToScheduler(c, op, running[c])
    /\ running' = IF op = "PROCESS_CREATE" THEN running
                  ELSE [running EXCEPT ![c] = NoProc]
    /\ UNCHANGED <<procVars, cpuVars, toCpu, thr, stsSem, canSchedule, comp,
                   extVars>>

-----------------------------------------------------------------------------
(* send_pid_to_execute and evict_process, whichever thread calls them.     *)

Transmit(c, msg) ==
    toCpu' = IF connected[c] = "yes" THEN [toCpu EXCEPT ![c] = Append(@, msg)]
             ELSE toCpu

\* The test of is_evicting, under the CPU's internal mutex; a process meant
\* for a CPU that is being evicted is dropped, as is one meant for no CPU.
SendCheck(t) ==
    /\ thr[t].at = "check"
    /\ LET c == thr[t].cpu
       IN  IF c = NoCpu \/ (c # NoCpu /\ evicting[c])
           THEN Goto(t, Home(t))
           ELSE Goto(t, [thr[t] EXCEPT !.at = "send"])
    /\ UNCHANGED <<procVars, cpuVars, netVars, stsSem, canSchedule, comp, extVars>>

\* PROCESS_EXECUTE leaves after the mutex was released.
SendExecute(t) ==
    /\ thr[t].at = "send"
    /\ Transmit(thr[t].cpu, Message("PROCESS_EXECUTE", thr[t].pid))
    /\ Goto(t, Home(t))
    /\ UNCHANGED <<procVars, cpuVars, fromCpu, running, stsSem, canSchedule,
                   comp, extVars>>

\* What PromptSend rules out.
SendUnderWay(c) ==
    PromptSend /\ \E t \in Threads : thr[t].at \in {"check", "send"} /\ thr[t].cpu = c

\* send_process_evict(c): nothing to do when c is NULL or being evicted.
send_process_evict(c) ==
    IF c = NoCpu \/ (c # NoCpu /\ evicting[c])
    THEN UNCHANGED <<evicting, toCpu>>
    ELSE /\ ~SendUnderWay(c)
         /\ evicting' = [evicting EXCEPT ![c] = TRUE]
         /\ Transmit(c, Message("PROCESS_EVICT", NoProc))

\* evict_process: a new thread waits for the confirmation.  Afterwards the
\* short-term scheduler leaves its loop, the quantum manager scans again.
evict_process(t) ==
    /\ thr[t].at = "evict"
    /\ send_process_evict(thr[t].cpu)
    /\ waiters' = [c \in Cpu |->
                      IF c = thr[t].cpu /\ ~evicting[c] THEN waiters[c] + 1
                      ELSE waiters[c]]
    /\ Goto(t, IF t = "STS" THEN Local("wait", NoProc, NoCpu) ELSE Home(t))
    /\ UNCHANGED <<procVars, connected, available, response, fromCpu, running,
                   stsSem, canSchedule, comp, extVars>>

\* The CPU is freed, whether its process is still there or not.
\* Fault: only when it is.
EndEviction_IfAssigned(c) ==
    IF get_process_from_cpu(c) = NoProc THEN UNCHANGED <<available, evicting>>
    ELSE /\ available' = [available EXCEPT ![c] = connected[c] # "gone"]
         /\ evicting' = [evicting EXCEPT ![c] = FALSE]

EndEviction(c) ==
    /\ available' = [available EXCEPT ![c] = connected[c] # "gone"]
    /\ evicting' = [evicting EXCEPT ![c] = FALSE]

\* The process goes back to the ready queue, unless it waits for Kernel
\* Memory.
Requeue(p) ==
    IF p = NoProc THEN UNCHANGED procVars
    ELSE /\ exec' = RemoveFirst(exec, p)
         /\ cpu' = [cpu EXCEPT ![p] = NoCpu]
         /\ IF pendingMem[p] THEN UNCHANGED <<state, readyQ>>
            ELSE /\ state' = [state EXCEPT ![p] = "READY"]
                 /\ readyQ' = add_process_to_ready_queue(readyQ, p, Priority[p])
         /\ UNCHANGED <<listed, pendingMem>>

\* Fault: the short-term scheduler is not told.
wait_confirmation_Silent(c) ==
    /\ waiters[c] > 0
    /\ WaitResponse(c)
    /\ waiters' = [waiters EXCEPT ![c] = @ - 1]
    /\ EndEviction(c)
    /\ Requeue(get_process_from_cpu(c))
    /\ UNCHANGED <<stsSem, connected, netVars, thr, canSchedule, comp, extVars>>

wait_confirmation_thread_and_handle_state(c) ==
    /\ waiters[c] > 0
    /\ WaitResponse(c)
    /\ waiters' = [waiters EXCEPT ![c] = @ - 1]
    /\ EndEviction(c)
    /\ Requeue(get_process_from_cpu(c))
    /\ sem_post
    /\ UNCHANGED <<connected, netVars, thr, canSchedule, comp, extVars>>

-----------------------------------------------------------------------------
(* The short-term scheduler.                                               *)

\* It wakes up; can_schedule is read once per wake-up.
StsWake ==
    /\ thr["STS"].at = "wait"
    /\ stsSem > 0
    /\ stsSem' = stsSem - 1
    /\ IF canSchedule THEN Goto("STS", Home("STS")) ELSE UNCHANGED thr
    /\ UNCHANGED <<procVars, cpuVars, netVars, canSchedule, comp, extVars>>

\* NoProc, too, when the head of the queue is not READY.
get_next_process_to_execute ==
    LET p == get_highest_priority_process_from_ready_queue(readyQ)
    IN  IF p = NoProc \/ (p # NoProc /\ state[p] # "READY") THEN NoProc ELSE p

AvailableCpus == {c \in Cpu : available[c] /\ ~evicting[c]}

\* No process or no CPU: the scheduler waits again, or first evicts the
\* process of lowest priority when the queues preempt each other.
StsNothingToDispatch ==
    LET p == get_next_process_to_execute
        low == get_lowest_priority_process(exec, Priority)
    IN  /\ thr["STS"].at = "loop"
        /\ p = NoProc \/ AvailableCpus = {}
        /\ IF /\ p # NoProc /\ Algorithm = "CMN" /\ QueuePreemption
              /\ low # NoProc /\ Priority[low] > Priority[p]
           THEN Goto("STS", Local("evict", low, cpu[low]))
           ELSE Goto("STS", Local("wait", NoProc, NoCpu))
        /\ UNCHANGED <<procVars, cpuVars, netVars, stsSem, canSchedule, comp,
                       extVars>>

\* Fault: is_available stays set.
TakeCpu_Shared(c) == UNCHANGED available

TakeCpu(c) == available' = [available EXCEPT ![c] = FALSE]

\* The next process takes an available CPU; PROCESS_EXECUTE follows.
StsDispatch(c) ==
    LET p == get_next_process_to_execute
    IN  /\ thr["STS"].at = "loop"
        /\ p # NoProc
        /\ c \in AvailableCpus
        /\ readyQ' = remove_process_from_ready_queue(readyQ, p, Priority[p])
        /\ TakeCpu(c)
        /\ state' = [state EXCEPT ![p] = "EXEC"]
        /\ cpu' = [cpu EXCEPT ![p] = c]
        /\ exec' = Append(exec, p)
        /\ Goto("STS", Local("check", p, c))
        /\ UNCHANGED <<listed, pendingMem, connected, evicting, response,
                       waiters, netVars, stsSem, canSchedule, comp, extVars>>

-----------------------------------------------------------------------------
(* The quantum manager.  How long a process has run is not modelled: any   *)
(* process subject to a quantum may be found to have exhausted it.         *)

\* A period begins; can_schedule is read once per period.
QuantumWake ==
    /\ thr["QM"].at = "idle"
    /\ canSchedule
    /\ \E i \in DOMAIN exec : process_has_quantum(exec[i])
    /\ Goto("QM", Local("scan", NoProc, NoCpu))
    /\ UNCHANGED <<procVars, cpuVars, netVars, stsSem, canSchedule, comp, extVars>>

QuantumExpired(p) ==
    /\ thr["QM"].at = "scan"
    /\ InList(exec, p)
    /\ process_has_quantum(p)
    /\ state[p] = "EXEC"
    /\ cpu[p] # NoCpu
    /\ ~evicting[cpu[p]]
    /\ Goto("QM", Local("evict", p, cpu[p]))
    /\ UNCHANGED <<procVars, cpuVars, netVars, stsSem, canSchedule, comp, extVars>>

QuantumScanned ==
    /\ thr["QM"].at = "scan"
    /\ Goto("QM", Local("idle", NoProc, NoCpu))
    /\ UNCHANGED <<procVars, cpuVars, netVars, stsSem, canSchedule, comp, extVars>>

-----------------------------------------------------------------------------
(* The messages a CPU's handler thread serves, in the order they were sent.*)

\* The handler of c takes a message op about process p from the socket.
Receive(c, op, p) ==
    /\ thr[c].at = "idle"
    /\ fromCpu[c] # <<>>
    /\ Head(fromCpu[c]) = Message(op, p)
    /\ fromCpu' = [fromCpu EXCEPT ![c] = Tail(@)]

\* INIT_PROC: long_term_scheduler assigns the PID and asks Kernel Memory ...
HandleProcessCreate(c) ==
    \E p \in Proc, q \in Proc :
        /\ Receive(c, "PROCESS_CREATE", p)
        /\ state[q] = "NONE"
        /\ state' = [state EXCEPT ![q] = "ASSIGNED"]
        /\ kmNew' = kmNew \cup {q}
        /\ Goto(c, Local("create", q, NoCpu))
        /\ UNCHANGED <<cpu, listed, exec, readyQ, pendingMem, cpuVars, toCpu,
                       running, stsSem, canSchedule, comp, kmReq, kmRead, ioReq>>

\* Fault: the creator, which never yielded, is sent to execute again.
ListProcess_Again(c) ==
    /\ thr[c].at = "create"
    /\ state' = [state EXCEPT ![thr[c].pid] = "NEW"]
    /\ listed' = Append(listed, thr[c].pid)
    /\ Goto(c, Local("check", get_process_from_cpu(c), c))
    /\ UNCHANGED <<cpu, exec, readyQ, pendingMem, cpuVars, netVars, stsSem,
                   canSchedule, comp, extVars>>

\* ... and only then creates the process and lists it.
ListProcess(c) ==
    /\ thr[c].at = "create"
    /\ state' = [state EXCEPT ![thr[c].pid] = "NEW"]
    /\ listed' = Append(listed, thr[c].pid)
    /\ Goto(c, Home(c))
    /\ UNCHANGED <<cpu, exec, readyQ, pendingMem, cpuVars, netVars, stsSem,
                   canSchedule, comp, extVars>>

\* EXIT, and the fatal SEGMENTATION_FAULT.
HandleProcessEnd(c) ==
    \E p \in Proc, op \in {"PROCESS_END", "SEGMENTATION_FAULT"} :
        /\ Receive(c, op, p)
        /\ state' = [state EXCEPT ![p] = "EXIT"]
        /\ cpu' = [cpu EXCEPT ![p] = NoCpu]
        /\ exec' = RemoveFirst(exec, p)
        /\ available' = [available EXCEPT ![c] = TRUE]
        /\ sem_post
        /\ UNCHANGED <<listed, readyQ, pendingMem, connected, evicting, response,
                       waiters, toCpu, running, thr, canSchedule, comp, extVars>>

\* MUTEX_CREATE: the process goes on with send_pid_to_execute.
HandleMutexCreate(c) ==
    \E p \in Proc :
        /\ Receive(c, "MUTEX_CREATE", p)
        /\ Goto(c, Local("check", p, c))
        /\ UNCHANGED <<procVars, cpuVars, toCpu, running, stsSem, canSchedule,
                       comp, extVars>>

\* MUTEX_LOCK or MUTEX_UNLOCK of a name nobody created kills the process:
\* the CPU is released first ...
HandleMutexUnknown(c) ==
    \E p \in Proc :
        /\ Receive(c, "MUTEX_UNKNOWN", p)
        /\ available' = [available EXCEPT ![c] = TRUE]
        /\ Goto(c, Local("kill", p, c))
        /\ UNCHANGED <<procVars, connected, evicting, response, waiters, toCpu,
                       running, stsSem, canSchedule, comp, extVars>>

\* Fault: the dead process is sent to execute again (no break).
KillProcess_Falls(c) ==
    /\ thr[c].at = "kill"
    /\ exec' = RemoveFirst(exec, thr[c].pid)
    /\ state' = [state EXCEPT ![thr[c].pid] = "EXIT"]
    /\ Goto(c, [thr[c] EXCEPT !.at = "check"])
    /\ sem_post
    /\ UNCHANGED <<cpu, listed, readyQ, pendingMem, cpuVars, netVars,
                   canSchedule, comp, extVars>>

\* ... and the process is not detached from it.
KillProcess(c) ==
    /\ thr[c].at = "kill"
    /\ exec' = RemoveFirst(exec, thr[c].pid)
    /\ state' = [state EXCEPT ![thr[c].pid] = "EXIT"]
    /\ Goto(c, Home(c))
    /\ sem_post
    /\ UNCHANGED <<cpu, listed, readyQ, pendingMem, cpuVars, netVars,
                   canSchedule, comp, extVars>>

\* SLEEP and STDOUT: sleep_syscall_manager and stdout_syscall_manager block
\* the process ...
HandleSleep(c) ==
    \E p \in Proc, op \in {"SLEEP", "STDOUT"} :
        /\ Receive(c, op, p)
        /\ state' = [state EXCEPT ![p] = "BLOCK"]
        /\ cpu' = [cpu EXCEPT ![p] = NoCpu]
        /\ exec' = RemoveFirst(exec, p)
        /\ Goto(c, Local(IF op = "SLEEP" THEN "free" ELSE "read", p, c))
        /\ UNCHANGED <<listed, readyQ, pendingMem, cpuVars, toCpu, running,
                       stsSem, canSchedule, comp, extVars>>

\* ... and release the CPU; a SLEEP is handed to the IO devices, ...
FreeCpu(c) ==
    /\ thr[c].at = "free"
    /\ available' = [available EXCEPT ![c] = TRUE]
    /\ ioReq' = ioReq \cup {thr[c].pid}
    /\ Goto(c, Home(c))
    /\ sem_post
    /\ UNCHANGED <<procVars, connected, evicting, response, waiters, netVars,
                   canSchedule, comp, kmNew, kmReq, kmRead>>

\* ... a STDOUT asks Kernel Memory for the data first.
send_memory_read(c) ==
    /\ thr[c].at = "read"
    /\ available' = [available EXCEPT ![c] = TRUE]
    /\ kmRead' = kmRead \cup {thr[c].pid}
    /\ Goto(c, Home(c))
    /\ UNCHANGED <<procVars, connected, evicting, response, waiters, netVars,
                   stsSem, canSchedule, comp, kmNew, kmReq, ioReq>>

\* STDIN of 0 bytes ends the process, which is not detached from its CPU;
\* nobody makes the CPU available again.
HandleStdinEmpty(c) ==
    \E p \in Proc :
        /\ Receive(c, "STDIN_EMPTY", p)
        /\ exec' = RemoveFirst(exec, p)
        /\ state' = [state EXCEPT ![p] = "EXIT"]
        /\ UNCHANGED <<cpu, listed, readyQ, pendingMem, cpuVars, toCpu, running,
                       thr, stsSem, canSchedule, comp, extVars>>

\* MEM_ALLOC and MEM_FREE: the process keeps the CPU until Kernel Memory
\* answers; pending_memory_syscall tells an eviction so.
HandleMemAlloc(c) ==
    \E p \in Proc :
        /\ Receive(c, "MEM_ALLOC", p)
        /\ pendingMem' = [pendingMem EXCEPT ![p] = TRUE]
        /\ kmReq' = kmReq \cup {p}
        /\ UNCHANGED <<state, cpu, listed, exec, readyQ, cpuVars, toCpu, running,
                       thr, stsSem, canSchedule, comp, kmNew, kmRead, ioReq>>

\* MEM_ALLOC of size 0 is logged and dropped: the process keeps its CPU, and
\* only an eviction moves it.
HandleMemAllocEmpty(c) ==
    \E p \in Proc :
        /\ Receive(c, "MEM_ALLOC_EMPTY", p)
        /\ UNCHANGED <<procVars, cpuVars, toCpu, running, thr, stsSem, canSchedule,
                       comp, extVars>>

HandleConfirmation(c) ==
    /\ Receive(c, "CONFIRMATION", NoProc)
    /\ response' = [response EXCEPT ![c] = @ + 1]
    /\ UNCHANGED <<procVars, connected, available, evicting, waiters, toCpu,
                   running, thr, stsSem, canSchedule, comp, extVars>>

-----------------------------------------------------------------------------
(* Answers of Kernel Memory (the KM thread, one at a time) and of IO.      *)

\* wait_process_create_confirmation: the answer is lost when the process is
\* not listed yet.
wait_process_create_confirmation(p) ==
    /\ thr["KM"].at = "idle"
    /\ p \in kmNew
    /\ kmNew' = kmNew \ {p}
    /\ IF InList(listed, p)
       THEN /\ state' = [state EXCEPT ![p] = "READY"]
            /\ readyQ' = add_process_to_ready_queue(readyQ, p, Priority[p])
            /\ sem_post
       ELSE UNCHANGED <<state, readyQ, stsSem>>
    /\ UNCHANGED <<cpu, listed, exec, pendingMem, cpuVars, netVars, thr,
                   canSchedule, comp, kmReq, kmRead, ioReq>>

\* handle_segment_result for a process that an eviction took off its CPU.
SegmentResultEvicted(p, ok) ==
    /\ thr["KM"].at = "idle"
    /\ p \in kmReq
    /\ comp.for # p
    /\ cpu[p] = NoCpu
    /\ kmReq' = kmReq \ {p}
    /\ pendingMem' = [pendingMem EXCEPT ![p] = FALSE]
    /\ IF ok
       THEN /\ IF state[p] = "EXEC"
               THEN /\ state' = [state EXCEPT ![p] = "READY"]
                    /\ readyQ' = add_process_to_ready_queue(readyQ, p, Priority[p])
                    /\ sem_post
               ELSE UNCHANGED <<state, readyQ, stsSem>>
            /\ UNCHANGED exec
       ELSE /\ state' = [state EXCEPT ![p] = "EXIT"]
            /\ exec' = RemoveFirst(exec, p)
            /\ sem_post
            /\ UNCHANGED readyQ
    /\ UNCHANGED <<cpu, listed, cpuVars, netVars, thr, canSchedule, comp, kmNew,
                   kmRead, ioReq>>

\* handle_segment_result for a process that still has its CPU: the CPU is
\* read under the mutex and used after it is released.
SegmentResult(p, ok) ==
    /\ thr["KM"].at = "idle"
    /\ p \in kmReq
    /\ comp.for # p
    /\ cpu[p] # NoCpu
    /\ kmReq' = kmReq \ {p}
    /\ pendingMem' = [pendingMem EXCEPT ![p] = FALSE]
    /\ Goto("KM", Local(IF ok THEN "check" ELSE "terminate", p, cpu[p]))
    /\ UNCHANGED <<state, cpu, listed, exec, readyQ, cpuVars, netVars, stsSem,
                   canSchedule, comp, kmNew, kmRead, ioReq>>

\* A failed request ends the process: state and CPU without the mutex, ...
TerminateProcess ==
    /\ thr["KM"].at = "terminate"
    /\ state' = [state EXCEPT ![thr["KM"].pid] = "EXIT"]
    /\ cpu' = [cpu EXCEPT ![thr["KM"].pid] = NoCpu]
    /\ Goto("KM", [thr["KM"] EXCEPT !.at = "unlist"])
    /\ UNCHANGED <<listed, exec, readyQ, pendingMem, cpuVars, netVars, stsSem,
                   canSchedule, comp, extVars>>

\* ... the lists under it, ...
UnlistProcess ==
    LET p == thr["KM"].pid
    IN  /\ thr["KM"].at = "unlist"
        /\ exec' = RemoveFirst(exec, p)
        /\ readyQ' = remove_process_from_ready_queue(readyQ, p, Priority[p])
        /\ Goto("KM", [thr["KM"] EXCEPT !.at = "release"])
        /\ UNCHANGED <<state, cpu, listed, pendingMem, cpuVars, netVars, stsSem,
                       canSchedule, comp, extVars>>

\* ... and the CPU, unless it is being evicted.
ReleaseCpu ==
    LET c == thr["KM"].cpu
    IN  /\ thr["KM"].at = "release"
        /\ available' = [available EXCEPT
                ![c] = IF evicting[c] THEN @ ELSE connected[c] # "gone"]
        /\ Goto("KM", Home("KM"))
        /\ sem_post
        /\ UNCHANGED <<procVars, connected, evicting, response, waiters, netVars,
                       canSchedule, comp, extVars>>

\* stdout_wait_memory_read: Kernel Memory sends the data of a STDOUT.  Data
\* that could not be read end the process, without scheduler_mutex; the
\* request goes to the devices in either case.
stdout_wait_memory_read(p, ok) ==
    /\ thr["KM"].at = "idle"
    /\ p \in kmRead
    /\ kmRead' = kmRead \ {p}
    /\ state' = IF ok THEN state ELSE [state EXCEPT ![p] = "EXIT"]
    /\ ioReq' = ioReq \cup {p}
    /\ sem_post
    /\ UNCHANGED <<cpu, listed, exec, readyQ, pendingMem, cpuVars, netVars, thr,
                   canSchedule, comp, kmNew, kmReq>>

\* io_finish_process: the device has served the process, which becomes READY
\* whatever its state.
io_finish_process(p) ==
    /\ p \in ioReq
    /\ ioReq' = ioReq \ {p}
    /\ state' = [state EXCEPT ![p] = "READY"]
    /\ readyQ' = add_process_to_ready_queue(readyQ, p, Priority[p])
    /\ sem_post
    /\ UNCHANGED <<cpu, listed, exec, pendingMem, cpuVars, netVars, thr,
                   canSchedule, comp, kmNew, kmReq, kmRead>>

-----------------------------------------------------------------------------
(* Compaction: compaction_requested_thread and evict_all_processes.        *)

\* Kernel Memory asks for compaction while it serves p's MEM_ALLOC, which it
\* answers afterwards (bound: one compaction at a time).  First dispatching
\* is forbidden, then the CPUs of exec_processes are noted.
CompactionRequest(p) ==
    /\ Compaction
    /\ comp.at = "idle"
    /\ p \in kmReq
    /\ canSchedule' = FALSE
    /\ comp' = [comp EXCEPT !.at = "snapshot", !.for = p]
    /\ UNCHANGED <<procVars, cpuVars, netVars, thr, stsSem, extVars>>

CompactionSnapshot ==
    /\ comp.at = "snapshot"
    /\ comp' = [comp EXCEPT !.at = "evict",
                            !.todo = [i \in DOMAIN exec |-> cpu[exec[i]]]]
    /\ UNCHANGED <<procVars, cpuVars, netVars, thr, stsSem, canSchedule, extVars>>

\* send_process_evict to each of them; only the CPUs that were not being
\* evicted already are waited for.
CompactionEvict ==
    /\ comp.at = "evict"
    /\ IF comp.todo = <<>>
       THEN comp' = [comp EXCEPT !.at = "confirm"] /\ UNCHANGED <<evicting, toCpu>>
       ELSE LET c == Head(comp.todo)
            IN  /\ send_process_evict(c)
                /\ comp' = [comp EXCEPT !.todo = Tail(@),
                        !.evicted = IF c = NoCpu \/ (c # NoCpu /\ evicting[c])
                                    THEN @ ELSE Append(@, c)]
    /\ UNCHANGED <<procVars, connected, available, response, waiters, fromCpu,
                   running, thr, stsSem, canSchedule, extVars>>

\* The next confirmation arrives.  When the process left the CPU meanwhile,
\* the CPU keeps is_evicting.
CompactionConfirmed ==
    LET c == Head(comp.evicted)
        p == get_process_from_cpu(c)
    IN  /\ comp.at = "confirm"
        /\ comp.evicted # <<>>
        /\ WaitResponse(c)
        /\ comp' = [comp EXCEPT !.evicted = Tail(@)]
        /\ IF p = NoProc THEN UNCHANGED <<procVars, available, evicting>>
           ELSE /\ exec' = RemoveFirst(exec, p)
                /\ cpu' = [cpu EXCEPT ![p] = NoCpu]
                /\ IF pendingMem[p] THEN UNCHANGED <<state, readyQ>>
                   ELSE /\ state' = [state EXCEPT ![p] = "READY"]
                        /\ readyQ' = add_process_at_start_of_ready_queue(
                                          readyQ, p, Priority[p])
                /\ available' = [available EXCEPT ![c] = TRUE]
                /\ evicting' = [evicting EXCEPT ![c] = FALSE]
                /\ UNCHANGED <<listed, pendingMem>>
        /\ UNCHANGED <<connected, waiters, netVars, thr, stsSem, canSchedule,
                       extVars>>

\* COMPACTION_READY: Kernel Memory now moves the segments ...
CompactionReady ==
    /\ comp.at = "confirm"
    /\ comp.evicted = <<>>
    /\ comp' = [comp EXCEPT !.at = "compacting"]
    /\ UNCHANGED <<procVars, cpuVars, netVars, thr, stsSem, canSchedule, extVars>>

\* ... until COMPACTION_FINISHED lets the scheduler dispatch again.
CompactionFinished ==
    /\ comp.at = "compacting"
    /\ comp' = [comp EXCEPT !.at = "idle", !.for = NoProc]
    /\ canSchedule' = TRUE
    /\ sem_post
    /\ UNCHANGED <<procVars, cpuVars, netVars, thr, extVars>>

-----------------------------------------------------------------------------
CpuStep(c) ==
    \/ CpuExecute(c) \/ CpuEvict(c) \/ \E op \in AllSyscalls : CpuSyscall(c, op)

HandlerStep(c) ==
    \/ HandleProcessCreate(c) \/ ListProcess(c) \/ HandleProcessEnd(c)
    \/ HandleMutexCreate(c) \/ HandleMutexUnknown(c) \/ KillProcess(c)
    \/ HandleSleep(c) \/ FreeCpu(c) \/ send_memory_read(c) \/ HandleStdinEmpty(c)
    \/ HandleMemAlloc(c) \/ HandleMemAllocEmpty(c)
    \/ HandleConfirmation(c) \/ handle_cpu_disconnection(c)

StsStep ==
    \/ StsWake \/ StsNothingToDispatch \/ \E c \in Cpu : StsDispatch(c)

QuantumStep ==
    \/ QuantumWake \/ QuantumScanned \/ \E p \in Proc : QuantumExpired(p)

KmStep ==
    \/ \E p \in Proc : wait_process_create_confirmation(p)
    \/ \E p \in Proc, ok \in BOOLEAN :
          \/ SegmentResultEvicted(p, ok) \/ SegmentResult(p, ok)
          \/ stdout_wait_memory_read(p, ok)
    \/ TerminateProcess \/ UnlistProcess \/ ReleaseCpu

CompactionStep ==
    \/ \E p \in Proc : CompactionRequest(p)
    \/ CompactionSnapshot \/ CompactionEvict
    \/ CompactionConfirmed \/ CompactionReady \/ CompactionFinished

Next ==
    \/ \E c \in Cpu : \/ CpuConnect(c) \/ CpuCrash(c) \/ CpuStep(c) \/ HandlerStep(c)
                      \/ wait_confirmation_thread_and_handle_state(c)
    \/ \E t \in Threads : SendCheck(t) \/ SendExecute(t) \/ evict_process(t)
    \/ StsStep \/ QuantumStep \/ KmStep
    \/ \E p \in Proc : io_finish_process(p)
    \/ CompactionStep

Spec == Init /\ [][Next]_vars

\* A process that stays on its CPU is found to have used up its quantum.
QuantumElapses ==
    \A p \in Proc :
        <>[](/\ InList(exec, p) /\ cpu[p] # NoCpu /\ process_has_quantum(p)
             /\ \E c \in Cpu : cpu[p] = c /\ ~evicting[c])
        => []<><<QuantumExpired(p)>>_vars

\* Every thread that can take a step takes one, messages arrive, Kernel
\* Memory and the devices answer.  A program may compute for ever: nothing
\* is assumed of CpuSyscall, nor of CpuCrash and the compaction requests.
Fairness ==
    /\ \A c \in Cpu :
          /\ WF_vars(CpuConnect(c))
          /\ WF_vars(CpuExecute(c) \/ CpuEvict(c))
          /\ WF_vars(HandlerStep(c))
          /\ WF_vars(wait_confirmation_thread_and_handle_state(c))
    /\ \A t \in Threads :
          WF_vars(SendCheck(t) \/ SendExecute(t)) /\ SF_vars(evict_process(t))
    /\ WF_vars(StsStep)
    /\ QuantumElapses
    /\ WF_vars(TerminateProcess \/ UnlistProcess \/ ReleaseCpu)
    /\ \A p \in Proc :
          /\ SF_vars(wait_process_create_confirmation(p))
          /\ SF_vars(\E ok \in BOOLEAN : SegmentResult(p, ok)
                                        \/ SegmentResultEvicted(p, ok))
          /\ SF_vars(\E ok \in BOOLEAN : stdout_wait_memory_read(p, ok))
          /\ WF_vars(io_finish_process(p))

FairSpec == Spec /\ Fairness

-----------------------------------------------------------------------------
(* Properties.                                                             *)

\* Every variable keeps the type of the C structure it stands for.
TypeOK ==
    /\ state \in [Proc -> {"NONE", "ASSIGNED", "NEW", "READY", "EXEC", "BLOCK", "EXIT"}]
    /\ cpu \in [Proc -> Cpu \cup {NoCpu}]
    /\ listed \in Seq(Proc) /\ exec \in Seq(Proc)
    /\ readyQ \in [Queues -> Seq(Proc)]
    /\ pendingMem \in [Proc -> BOOLEAN]
    /\ connected \in [Cpu -> {"no", "yes", "lost", "gone"}]
    /\ available \in [Cpu -> BOOLEAN] /\ evicting \in [Cpu -> BOOLEAN]
    /\ response \in [Cpu -> Nat] /\ waiters \in [Cpu -> Nat]
    /\ running \in [Cpu -> Proc \cup {NoProc}]
    /\ \A c \in Cpu : \A i \in DOMAIN toCpu[c] : toCpu[c][i] \in
          [op : {"PROCESS_EXECUTE", "PROCESS_EVICT"}, pid : Proc \cup {NoProc}]
    /\ \A c \in Cpu : \A i \in DOMAIN fromCpu[c] : fromCpu[c][i] \in
          [op : AllSyscalls \cup {"CONFIRMATION"}, pid : Proc \cup {NoProc}]
    /\ thr \in [Threads -> [at : {"wait", "loop", "idle", "scan", "check", "send",
                                  "evict", "create", "kill", "free", "read",
                                  "terminate", "unlist", "release"},
                            pid : Proc \cup {NoProc}, cpu : Cpu \cup {NoCpu}]]
    /\ stsSem \in 0 .. MaxWakeups /\ canSchedule \in BOOLEAN
    /\ comp \in [at : {"idle", "snapshot", "evict", "confirm", "compacting"},
                for : Proc \cup {NoProc}, todo : Seq(Cpu \cup {NoCpu}),
                evicted : Seq(Cpu)]
    /\ kmNew \subseteq Proc /\ kmReq \subseteq Proc
    /\ kmRead \subseteq Proc /\ ioReq \subseteq Proc

\* exec_processes holds exactly the processes with a CPU, each once, all in
\* EXEC, and no CPU is shared by two of them: what the short-term scheduler,
\* the evictions and every syscall handler rely on when they look a process
\* up by its CPU.  (terminate_process clears the CPU before the list.)
ExecListMatchesCpus ==
    /\ \A p \in Proc : cpu[p] # NoCpu => InList(exec, p) /\ state[p] = "EXEC"
    /\ \A i, j \in DOMAIN exec : exec[i] = exec[j] => i = j
    /\ \A i \in DOMAIN exec :
          \/ cpu[exec[i]] # NoCpu
          \/ thr["KM"].at = "unlist" /\ thr["KM"].pid = exec[i]
    /\ \A p, q \in Proc : (cpu[p] = cpu[q] /\ cpu[p] # NoCpu) => p = q

\* A process is in the ready queues exactly while it is READY, once, in the
\* queue of its priority: no wake-up, eviction or disconnection queues it
\* twice or forgets it.
ReadyQueuesMatchStates ==
    \A p \in Proc :
        IF state[p] = "READY" THEN QueuedOnceAt(readyQ, p, Priority[p])
        ELSE NotQueued(readyQ, p)

\* A CPU only runs a process the scheduler believes to be in EXEC on that
\* CPU: no process runs on two CPUs, none runs after it blocked or ended.
RunsWhereAssigned ==
    \A c \in Cpu : running[c] # NoProc =>
        state[running[c]] = "EXEC" /\ cpu[running[c]] = c

\* The orders to execute p that no CPU has obeyed yet.
Orders(p) ==
    UNION {{c} \X {i \in DOMAIN toCpu[c] :
                      toCpu[c][i] = Message("PROCESS_EXECUTE", p)} : c \in Cpu}

\* A process is never ordered to run while it runs, nor ordered twice: a
\* re-dispatch (after a syscall, a memory answer or an eviction) does not
\* overtake or duplicate an earlier one.
ExecutedOnce ==
    \A p \in Proc :
        Cardinality(Orders(p)) + Cardinality({c \in Cpu : running[c] = p}) <= 1

\* A CPU that get_available_cpu may choose runs nothing, is assigned to
\* nobody and has no order to execute under way.
AvailableCpuIsFree ==
    \A c \in AvailableCpus :
        /\ running[c] = NoProc
        /\ \A p \in Proc : cpu[p] # c
        /\ \A i \in DOMAIN toCpu[c] : toCpu[c][i].op # "PROCESS_EXECUTE"

\* The places an eviction of c can be: ordered, confirmed, acknowledged.
EvictionsUnderWay(c) ==
    Cardinality({i \in DOMAIN toCpu[c] : toCpu[c][i].op = "PROCESS_EVICT"})
    + Cardinality({i \in DOMAIN fromCpu[c] : fromCpu[c][i].op = "CONFIRMATION"})
    + response[c]

\* is_evicting is set exactly while one eviction is under way and one thread
\* is there to acknowledge it: the flag can neither stay set for ever nor be
\* cleared by the confirmation of another eviction.
EvictionHandshake ==
    \A c \in Cpu : connected[c] \in {"no", "yes"} =>
        /\ EvictionsUnderWay(c) = IF evicting[c] THEN 1 ELSE 0
        /\ evicting[c] <=> waiters[c] = 1 \/ InList(comp.evicted, c)

\* The three together: queues, orders and CPUs tell the same story of a process.
ListsAgree == ReadyQueuesMatchStates /\ RunsWhereAssigned /\ ExecutedOnce

\* Under RR every READY process is given a CPU: no lost wake-up of the
\* short-term scheduler, dropped order or unfinished eviction leaves it
\* waiting for ever.
ReadyIsDispatched ==
    \A p \in Proc : state[p] = "READY" ~> state[p] = "EXEC"

\* A process that ended stays ended, as long as no device works for it: no
\* answer of Kernel Memory and no syscall under way revives it.  The one
\* exception is a STDOUT whose data could not be read, which is handed to a
\* device although its process has ended.
ExitIsFinal ==
    [][\A p \in Proc :
          state[p] = "EXIT" /\ p \notin ioReq => state'[p] = "EXIT"]_vars
==============================================================================
