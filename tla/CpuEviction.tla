------------------------------ MODULE CpuEviction ------------------------------
(***************************************************************************)
(* The two threads of a CPU that share interruptPending, is_executing and  *)
(* the semaphores around them:                                             *)
(*   - handler, kernel_scheduler_handler, which serves PROCESS_EXECUTE and *)
(*     PROCESS_EVICT one at a time;                                        *)
(*   - exec, process_execution_handler, created for each execution, which  *)
(*     runs instructions until the process yields or is evicted.           *)
(* Kernel Memory keeps the context of each process; it serves the CPU's    *)
(* socket in order.  INSTRUCTION_FETCH is part of the instruction.  A      *)
(* context is a member of Ctx, and an instruction may change it to any.    *)
(* PROCESS_INTERRUPTED, which the scheduler only logs, and current_pid,    *)
(* which only reaches the scheduler's log, are left out, as are the        *)
(* branches for a NULL context or instruction, which only a broken         *)
(* connection produces.                                                    *)
(***************************************************************************)
EXTENDS SchedulerLink

CONSTANTS Ctx,          \* contexts (program counter and registers)
          Ctx0,         \* the context of a new process
          PromptEvict,  \* timing assumption: TRUE means that no PROCESS_EVICT is
                        \* received between the execution thread's reading of
                        \* interruptPending and its end when it leaves for a
                        \* syscall, and that this thread does not move between
                        \* the two steps in which the handler begins an
                        \* eviction; no lock of the code says so
          MaxCreate,    \* bound on PROCESS_CREATE messages under way
          MaxHandled    \* bound on sem_eviction_handled, which only grows

ASSUME CpuAssumption ==
    /\ Ctx0 \in Ctx
    /\ PromptEvict \in BOOLEAN
    /\ MaxCreate \in Nat
    /\ MaxHandled \in Nat \ {0}

VARIABLES
    handler,    \* where the handler is, and the message it serves
    exec,       \* where the execution thread is, its arguments and locals
    interruptPending, is_executing,
    shouldEnd,  \* "exit" for should_exit, "stop" for should_stop
    eviction_ready, eviction_handled, execution_finished,   \* semaphores
    toKm, answer,   \* the CPU's requests to Kernel Memory; pending_request
    saved,      \* the contexts Kernel Memory keeps
    latest,     \* history: the context after each process's last instruction
    running     \* history: the process the CPU runs, as CpuContract says

handlerVars == <<handler, is_executing, eviction_handled>>
execVars == <<exec, shouldEnd, latest>>
kmVars == <<toKm, answer, saved>>
vars == <<linkVars, handlerVars, execVars, interruptPending, eviction_ready,
          execution_finished, kmVars, running>>

NoOrder == Message("NONE", NoProc)
Contexts == [kind : {"CONTEXT_TRANSFER", "CONTEXT_SEEK"}, pid : Proc, ctx : Ctx]

Init ==
    /\ LinkInit
    /\ handler = [at |-> "receive", msg |-> NoOrder]
    /\ exec = [at |-> "none", pid |-> NoProc, ctx |-> Ctx0, interrupt |-> FALSE]
    /\ interruptPending = FALSE
    /\ is_executing = FALSE
    /\ shouldEnd = "no"
    /\ eviction_ready = 0
    /\ eviction_handled = 0
    /\ execution_finished = 1
    /\ toKm = <<>>
    /\ answer = NoOrder
    /\ saved = [p \in Proc |-> Ctx0]
    /\ latest = [p \in Proc |-> Ctx0]
    /\ running = NoProc

\* The execution thread has not left its loop.
Executing == exec.at \in {"top", "decide", "fetch", "notify", "check", "save"}

ToScheduler(op, p) == fromCpu' = Append(fromCpu, Message(op, p))
ContextSend(p, c) ==
    toKm' = Append(toKm, [kind |-> "CONTEXT_TRANSFER", pid |-> p, ctx |-> c])

-----------------------------------------------------------------------------
(* kernel_scheduler_handler.                                               *)

\* What the timing assumption rules out for the handler, and for exec.
Leaving ==
    \/ exec.at = "decide" /\ shouldEnd # "no"
    \/ exec.at \in {"reset", "end"}
MayReceiveEvict == PromptEvict => ~Leaving
MayMove == PromptEvict => handler.at # "evicting"

Receive(op) ==
    /\ handler.at = "receive"
    /\ toCpu # <<>>
    /\ Head(toCpu).op = op
    /\ toCpu' = Tail(toCpu)

\* PROCESS_EXECUTE arrives ...
ReceiveExecute ==
    /\ Receive("PROCESS_EXECUTE")
    /\ handler' = [at |-> "wait_finished", msg |-> Head(toCpu)]
    /\ UNCHANGED <<fromCpu, view, execVars, is_executing, eviction_handled,
                   interruptPending, eviction_ready, execution_finished, kmVars,
                   running>>

\* Fault: the execution thread of the previous process is not waited for.
WaitExecutionFinished_AtOnce ==
    /\ handler.at = "wait_finished"
    /\ is_executing' = TRUE
    /\ handler' = [handler EXCEPT !.at = "seek"]
    /\ UNCHANGED <<linkVars, execVars, eviction_handled, interruptPending,
                   eviction_ready, execution_finished, kmVars, running>>

\* ... waits until the previous execution thread is gone ...
WaitExecutionFinished ==
    /\ handler.at = "wait_finished"
    /\ execution_finished > 0
    /\ execution_finished' = execution_finished - 1
    /\ is_executing' = TRUE
    /\ handler' = [handler EXCEPT !.at = "seek"]
    /\ UNCHANGED <<linkVars, execVars, eviction_handled, interruptPending,
                   eviction_ready, kmVars, running>>

\* ... and for an eviction under way, and asks for the context ...
ContextSeek ==
    /\ handler.at = "seek"
    /\ interruptPending => eviction_handled > 0
    /\ eviction_handled' = IF interruptPending THEN eviction_handled - 1
                           ELSE eviction_handled
    /\ toKm' = Append(toKm, [kind |-> "CONTEXT_SEEK", pid |-> handler.msg.pid,
                             ctx |-> Ctx0])
    /\ handler' = [handler EXCEPT !.at = "context"]
    /\ UNCHANGED <<linkVars, execVars, is_executing, interruptPending,
                   eviction_ready, execution_finished, answer, saved, running>>

\* ... with which it starts the execution thread.
StartExecution ==
    /\ handler.at = "context"
    /\ answer # NoOrder
    /\ answer' = NoOrder
    /\ exec' = [at |-> "top", pid |-> handler.msg.pid, ctx |-> answer.ctx,
                interrupt |-> FALSE]
    /\ running' = handler.msg.pid
    /\ handler' = [at |-> "receive", msg |-> NoOrder]
    /\ UNCHANGED <<linkVars, is_executing, eviction_handled, interruptPending,
                   shouldEnd, latest, eviction_ready, execution_finished, toKm,
                   saved>>

\* PROCESS_EVICT: first interruptPending is set ...
ReceiveEvict ==
    /\ Receive("PROCESS_EVICT")
    /\ MayReceiveEvict
    /\ interruptPending' = TRUE
    /\ handler' = [at |-> "evicting", msg |-> Head(toCpu)]
    /\ UNCHANGED <<fromCpu, view, execVars, is_executing, eviction_handled,
                   eviction_ready, execution_finished, kmVars, running>>

\* CONFIRMATION is sent and sem_eviction_handled posted.
Confirm ==
    /\ ToScheduler("CONFIRMATION", NoProc)
    /\ eviction_handled' = IF eviction_handled < MaxHandled
                           THEN eviction_handled + 1 ELSE eviction_handled
    /\ running' = IF Executing THEN running ELSE NoProc
    /\ handler' = [at |-> "receive", msg |-> NoOrder]
    /\ UNCHANGED <<toCpu, view, is_executing>>

\* Fault: interruptPending stays set.
EvictIdle_Pending ==
    /\ handler.at = "evicting"
    /\ ~is_executing
    /\ Confirm
    /\ UNCHANGED <<execVars, interruptPending, eviction_ready,
                   execution_finished, kmVars>>

\* ... then is_executing is read: nothing to evict ...
EvictIdle ==
    /\ handler.at = "evicting"
    /\ ~is_executing
    /\ interruptPending' = FALSE
    /\ Confirm
    /\ UNCHANGED <<execVars, eviction_ready, execution_finished, kmVars>>

\* ... or the execution thread has to say that it stopped.
EvictBusy ==
    /\ handler.at = "evicting"
    /\ is_executing
    /\ handler' = [handler EXCEPT !.at = "wait_ready"]
    /\ UNCHANGED <<linkVars, execVars, is_executing, eviction_handled,
                   interruptPending, eviction_ready, execution_finished, kmVars,
                   running>>

\* Fault: the confirmation does not wait for the execution thread.
WaitEvictionReady_AtOnce ==
    /\ handler.at = "wait_ready"
    /\ Confirm
    /\ UNCHANGED <<execVars, interruptPending, eviction_ready,
                   execution_finished, kmVars>>

\* sem_wait(&sem_eviction_ready), then the confirmation.
WaitEvictionReady ==
    /\ handler.at = "wait_ready"
    /\ eviction_ready > 0
    /\ eviction_ready' = eviction_ready - 1
    /\ Confirm
    /\ UNCHANGED <<execVars, interruptPending, execution_finished, kmVars>>

-----------------------------------------------------------------------------
(* instructions_cicle and process_execution_handler.                       *)

ExecUnchanged == UNCHANGED <<toCpu, view, handlerVars, execution_finished,
                             answer, saved>>

\* The top of the loop reads interruptPending ...
ReadInterrupt ==
    /\ exec.at = "top"
    /\ exec' = [exec EXCEPT !.at = "decide", !.interrupt = interruptPending]
    /\ ExecUnchanged
    /\ UNCHANGED <<fromCpu, shouldEnd, latest, interruptPending, eviction_ready,
                   toKm, running>>

\* Fault: an eviction that met the end of the process is not answered.
Leave_Silent ==
    /\ exec.at = "decide"
    /\ shouldEnd # "no"
    /\ shouldEnd' = "no"
    /\ interruptPending' = IF exec.interrupt THEN FALSE ELSE interruptPending
    /\ exec' = [exec EXCEPT !.at = "end"]
    /\ ExecUnchanged
    /\ UNCHANGED <<fromCpu, latest, toKm, running, eviction_ready>>

\* ... and the process leaves when the last instruction was a syscall; an
\* eviction read above is answered at once.
Leave ==
    /\ exec.at = "decide"
    /\ shouldEnd # "no"
    /\ shouldEnd' = "no"
    /\ interruptPending' = IF exec.interrupt THEN FALSE ELSE interruptPending
    /\ eviction_ready' = IF exec.interrupt THEN eviction_ready + 1
                         ELSE eviction_ready
    /\ exec' = [exec EXCEPT !.at = "end"]
    /\ ExecUnchanged
    /\ UNCHANGED <<fromCpu, latest, toKm, running>>

Stay ==
    /\ exec.at = "decide"
    /\ shouldEnd = "no"
    /\ exec' = [exec EXCEPT !.at = "fetch"]
    /\ ExecUnchanged
    /\ UNCHANGED <<fromCpu, shouldEnd, latest, interruptPending, eviction_ready,
                   toKm, running>>

\* An instruction that is no syscall, or INIT_PROC, which does not yield.
Instruction(c, creates) ==
    /\ exec.at = "fetch"
    /\ exec' = [exec EXCEPT !.at = "check", !.ctx = c]
    /\ latest' = [latest EXCEPT ![exec.pid] = c]
    /\ IF creates
       THEN /\ Cardinality({i \in DOMAIN fromCpu : fromCpu[i].op = "PROCESS_CREATE"})
                  < MaxCreate
            /\ ToScheduler("PROCESS_CREATE", exec.pid)
       ELSE UNCHANGED fromCpu
    /\ ExecUnchanged
    /\ UNCHANGED <<shouldEnd, interruptPending, eviction_ready, toKm, running>>

\* EXIT, or a segmentation fault of the MMU.
InstructionExit ==
    /\ exec.at = "fetch"
    /\ ToScheduler("PROCESS_END", exec.pid)
    /\ shouldEnd' = "exit"
    /\ running' = NoProc
    /\ exec' = [exec EXCEPT !.at = "top"]
    /\ ExecUnchanged
    /\ UNCHANGED <<latest, interruptPending, eviction_ready, toKm>>

\* Fault: the context is not sent before the syscall.
SyscallContext_Unsaved(c) ==
    /\ exec.at = "fetch"
    /\ exec' = [exec EXCEPT !.at = "notify", !.ctx = c]
    /\ latest' = [latest EXCEPT ![exec.pid] = c]
    /\ shouldEnd' = "stop"
    /\ ExecUnchanged
    /\ UNCHANGED <<fromCpu, interruptPending, eviction_ready, running, toKm>>

\* The other syscalls first send the context, past the syscall, to Kernel
\* Memory ...
SyscallContext(c) ==
    /\ exec.at = "fetch"
    /\ exec' = [exec EXCEPT !.at = "notify", !.ctx = c]
    /\ latest' = [latest EXCEPT ![exec.pid] = c]
    /\ ContextSend(exec.pid, c)
    /\ shouldEnd' = "stop"
    /\ ExecUnchanged
    /\ UNCHANGED <<fromCpu, interruptPending, eviction_ready, running>>

\* ... then the syscall to the scheduler.
SyscallNotify(op) ==
    /\ exec.at = "notify"
    /\ ToScheduler(op, exec.pid)
    /\ running' = NoProc
    /\ exec' = [exec EXCEPT !.at = "top"]
    /\ ExecUnchanged
    /\ UNCHANGED <<shouldEnd, latest, interruptPending, eviction_ready, toKm>>

\* After an instruction interruptPending is read again ...
CheckInterrupt ==
    /\ exec.at = "check"
    /\ exec' = [exec EXCEPT !.at = IF interruptPending THEN "save" ELSE "top"]
    /\ ExecUnchanged
    /\ UNCHANGED <<fromCpu, shouldEnd, latest, interruptPending, eviction_ready,
                   toKm, running>>

\* ... and the process is evicted: its context is saved, the handler told ...
SaveContext ==
    /\ exec.at = "save"
    /\ ContextSend(exec.pid, exec.ctx)
    /\ eviction_ready' = eviction_ready + 1
    /\ exec' = [exec EXCEPT !.at = "reset"]
    /\ ExecUnchanged
    /\ UNCHANGED <<fromCpu, shouldEnd, latest, interruptPending, running>>

\* ... and the flag cleared.
ResetInterrupt ==
    /\ exec.at = "reset"
    /\ interruptPending' = FALSE
    /\ exec' = [exec EXCEPT !.at = "end"]
    /\ ExecUnchanged
    /\ UNCHANGED <<fromCpu, shouldEnd, latest, eviction_ready, toKm, running>>

\* The end of the thread: is_executing, then sem_execution_finished.
EndExecution ==
    /\ exec.at = "end"
    /\ is_executing' = FALSE
    /\ exec' = [exec EXCEPT !.at = "post"]
    /\ UNCHANGED <<linkVars, handler, eviction_handled, shouldEnd, latest,
                   interruptPending, eviction_ready, execution_finished, kmVars,
                   running>>

PostFinished ==
    /\ exec.at = "post"
    /\ execution_finished' = execution_finished + 1
    /\ exec' = [exec EXCEPT !.at = "none"]
    /\ UNCHANGED <<linkVars, handlerVars, shouldEnd, latest, interruptPending,
                   eviction_ready, kmVars, running>>

-----------------------------------------------------------------------------
\* Kernel Memory serves the next request of this CPU: it stores a context or
\* answers with the stored one, which kernel_memory_handler delivers.
KernelMemory ==
    /\ toKm # <<>>
    /\ toKm' = Tail(toKm)
    /\ LET r == Head(toKm)
       IN  IF r.kind = "CONTEXT_TRANSFER"
           THEN saved' = [saved EXCEPT ![r.pid] = r.ctx] /\ UNCHANGED answer
           ELSE /\ answer' = [pid |-> r.pid, ctx |-> saved[r.pid]]
                /\ UNCHANGED saved
    /\ UNCHANGED <<linkVars, handlerVars, execVars, interruptPending,
                   eviction_ready, execution_finished, running>>

-----------------------------------------------------------------------------
Scheduler ==
    /\ SchedulerStep
    /\ UNCHANGED <<handlerVars, execVars, interruptPending, eviction_ready,
                   execution_finished, kmVars, running>>

HandlerStep ==
    \/ ReceiveExecute \/ WaitExecutionFinished \/ ContextSeek \/ StartExecution
    \/ ReceiveEvict \/ EvictIdle \/ EvictBusy \/ WaitEvictionReady

ExecStep ==
    /\ MayMove
    /\ \/ ReadInterrupt \/ Leave \/ Stay
       \/ \E c \in Ctx, creates \in BOOLEAN : Instruction(c, creates)
       \/ \E c \in Ctx : SyscallContext(c)
       \/ InstructionExit \/ CheckInterrupt
       \/ \E op \in {"SLEEP", "MEM_ALLOC"} : SyscallNotify(op)
       \/ SaveContext \/ ResetInterrupt \/ EndExecution \/ PostFinished

Next == Scheduler \/ HandlerStep \/ ExecStep \/ KernelMemory

Spec == Init /\ [][Next]_vars

\* Both threads run, Kernel Memory answers and the scheduler reads its socket.
FairSpec ==
    /\ Spec
    /\ WF_vars(HandlerStep)
    /\ WF_vars(ExecStep)
    /\ WF_vars(KernelMemory)
    /\ WF_vars(cpu_handler /\ Scheduler)

-----------------------------------------------------------------------------
(* Properties.                                                             *)

\* Every variable keeps the type of what it stands for; no semaphore counts
\* beyond one but sem_eviction_handled.
TypeOK ==
    /\ handler.at \in {"receive", "wait_finished", "seek", "context", "evicting",
                       "wait_ready"}
    /\ exec.at \in {"none", "top", "decide", "fetch", "notify", "check", "save",
                    "reset", "end", "post"}
    /\ exec.pid \in Proc \cup {NoProc}
    /\ exec.ctx \in Ctx /\ exec.interrupt \in BOOLEAN
    /\ shouldEnd \in {"no", "exit", "stop"}
    /\ interruptPending \in BOOLEAN /\ is_executing \in BOOLEAN
    /\ eviction_ready \in 0 .. 1 /\ execution_finished \in 0 .. 1
    /\ eviction_handled \in 0 .. MaxHandled
    /\ \A i \in DOMAIN toKm : toKm[i] \in Contexts
    /\ saved \in [Proc -> Ctx] /\ latest \in [Proc -> Ctx]
    /\ running \in Proc \cup {NoProc}

\* The execution thread works on the newest context of its process: on this CPU,
\* whose requests to Kernel Memory keep their order, no interleaving of the two
\* threads makes a process that comes back repeat or lose an instruction.  Nothing
\* is said of a process that goes on at another CPU, whose socket is another.
ContextIsCurrent ==
    Executing => exec.ctx = latest[exec.pid]

\* A flag or a post of one eviction is never left over for the next: when the
\* handler waits for orders and the execution thread is gone, interruptPending
\* is clear, sem_eviction_ready is zero and no process is told to leave.
NothingLeftOver ==
    handler.at = "receive" /\ exec.at \in {"none", "post"} =>
        ~interruptPending /\ eviction_ready = 0 /\ shouldEnd = "no"

\* A message counts as received once the CPU has obeyed it.
Inbox == IF handler.msg = NoOrder THEN toCpu ELSE <<handler.msg>> \o toCpu

Contract == INSTANCE CpuContract WITH toCpu <- Inbox

\* The two threads implement the CPU that Dispatch relies on: orders take
\* effect one at a time and in order, a syscall only comes from the process
\* that runs, and an eviction is confirmed when no thread executes it.
ImplementsContract == Contract!ContractSpec

\* Every eviction is confirmed.
EvictIsConfirmed == view.evicting ~> ~view.evicting
==============================================================================
