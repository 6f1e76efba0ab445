-------------------------- MODULE CpuEvictionProofs --------------------------
(***************************************************************************)
(* What holds of the two threads of a CPU for every set of processes and   *)
(* of contexts.  Every theorem assumes PromptEvict, the timing assumption  *)
(* that CpuEviction documents: without it TLC refutes all of them.         *)
(*                                                                         *)
(* The proofs build three invariants on one another.  LocalInv relates     *)
(* flags, semaphores and threads and needs nothing else; with it every     *)
(* step is a step of CpuContract.  Protocol says what is under way between *)
(* scheduler and CPU and is kept by every step of the contract.  CtxInv    *)
(* follows each context between the thread, the socket and Kernel Memory,  *)
(* and needs both.                                                         *)
(***************************************************************************)
EXTENDS CpuEviction, TLAPS

\* The execution thread has cleared is_executing, or was never created.
Gone == exec.at \in {"none", "post"}
\* PROCESS_EXECUTE has passed sem_execution_finished and has no thread yet.
Starting == handler.at \in {"seek", "context"}
\* PROCESS_EVICT is being served.
Evicting == handler.at \in {"evicting", "wait_ready"}

\* What the scheduler sends a CPU, and what it gets from it.
Orders == [op : {"PROCESS_EXECUTE"}, pid : Proc] \cup [op : {"PROCESS_EVICT"}, pid : {NoProc}]
Reports == [op : {"PROCESS_CREATE"} \cup Syscalls, pid : Proc]
           \cup [op : {"CONFIRMATION"}, pid : {NoProc}]

\* The three sockets carry only what their senders write.
Channels == toCpu \in Seq(Orders) /\ fromCpu \in Seq(Reports) /\ toKm \in Seq(Contexts)

\* What the two threads remember.
HandlerRecords ==
    [at : {"receive", "wait_finished", "seek", "context", "evicting", "wait_ready"},
     msg : Orders \cup {NoOrder}]
ExecRecords ==
    [at : {"none", "top", "decide", "fetch", "notify", "check", "save", "reset", "end", "post"},
     pid : Proc \cup {NoProc}, ctx : Ctx, interrupt : BOOLEAN]

\* The types of the variables other than sockets and semaphores ...
Types ==
    /\ view \in [pid : Proc \cup {NoProc}, idle : BOOLEAN, evicting : BOOLEAN, ended : SUBSET Proc]
    /\ handler \in HandlerRecords /\ exec \in ExecRecords
    /\ shouldEnd \in {"no", "exit", "stop"}
    /\ interruptPending \in BOOLEAN /\ is_executing \in BOOLEAN
    /\ answer \in [pid : Proc, ctx : Ctx] \cup {NoOrder}
    /\ saved \in [Proc -> Ctx] /\ latest \in [Proc -> Ctx]
    /\ running \in Proc \cup {NoProc}

\* ... and of the semaphores.
Semaphores ==
    /\ eviction_ready \in 0 .. 1 /\ execution_finished \in 0 .. 1
    /\ eviction_handled \in 0 .. MaxHandled

\* The handler holds the message that its place in the code serves.
OrderInHand ==
    /\ handler.at = "receive" <=> handler.msg = NoOrder
    /\ handler.at \in {"wait_finished", "seek", "context"} => handler.msg.op = "PROCESS_EXECUTE"
    /\ Evicting => handler.msg.op = "PROCESS_EVICT"

\* sem_execution_finished and is_executing agree on whether there is an
\* execution thread, so there is never a second one.
OneThread ==
    /\ is_executing <=> ~Gone \/ Starting
    /\ Starting => exec.at = "none"
    /\ execution_finished = IF exec.at = "none" /\ ~Starting THEN 1 ELSE 0
    /\ ~Gone => exec.pid \in Proc

\* should_exit and should_stop are set only between the syscall and the end
\* of the loop.
EndFlag ==
    /\ shouldEnd # "no" => exec.at \in {"notify", "top", "decide"}
    /\ exec.at = "notify" => shouldEnd = "stop"

\* interruptPending and sem_eviction_ready belong to the eviction that is
\* being served: while the thread executes the flag is up exactly for an
\* eviction and nobody has posted; once it has left, the post is there for a
\* handler that waits for it, and only for one.
EvictionFlag ==
    /\ Executing => (interruptPending <=> Evicting) /\ eviction_ready = 0
    /\ ~Executing => eviction_ready = IF handler.at = "wait_ready" THEN 1 ELSE 0
    /\ exec.at = "save" => handler.at = "wait_ready"
    /\ exec.at = "decide" /\ shouldEnd # "no" =>
          (exec.interrupt <=> interruptPending) /\ handler.at # "evicting"
    /\ exec.at = "reset" => interruptPending
    /\ exec.at \in {"end", "post", "none"} => (interruptPending <=> handler.at = "evicting")
    /\ handler.at = "evicting" => exec.at \notin {"reset", "end"}

\* The process CpuContract calls running is the one of the execution thread.
Running ==
    /\ exec.at \in {"fetch", "notify", "check", "save"} => running = exec.pid
    /\ exec.at \in {"top", "decide"} => running = IF shouldEnd = "no" THEN exec.pid ELSE NoProc
    /\ ~Executing /\ handler.at # "wait_ready" => running = NoProc

\* The part of the invariant that the semaphores and flags of one CPU keep.
Threads == OrderInHand /\ OneThread /\ EndFlag /\ EvictionFlag /\ Running
LocalInv == Channels /\ Types /\ Semaphores /\ Threads

\* What is sent has the type of its socket, and no order is the absence of one.
LEMMA MessageTypes ==
    /\ \A p \in Proc : Message("PROCESS_EXECUTE", p) \in Orders
    /\ Message("PROCESS_EVICT", NoProc) \in Orders
    /\ \A p \in Proc, op \in {"PROCESS_CREATE"} \cup Syscalls : Message(op, p) \in Reports
    /\ Message("CONFIRMATION", NoProc) \in Reports
    /\ \A p \in Proc, c \in Ctx, kind \in {"CONTEXT_TRANSFER", "CONTEXT_SEEK"} :
          [kind |-> kind, pid |-> p, ctx |-> c] \in Contexts
    /\ NoOrder \notin Orders
BY LinkAssumption DEF Message, Orders, Reports, Contexts, NoOrder

\* main.c leaves the CPU with one post of sem_execution_finished and no flag.
LEMMA LocalInit == Init => LocalInv
<1> SUFFICES ASSUME Init PROVE LocalInv
  OBVIOUS
<1>1. Types
  BY CpuAssumption DEF Init, LinkInit, Types, HandlerRecords, ExecRecords
<1>4. Channels
  BY DEF Init, LinkInit, Channels
<1>2. Semaphores
  BY CpuAssumption DEF Init, Semaphores
<1>3. Threads
  BY CpuAssumption DEF Init, LinkInit, Threads, OrderInHand, OneThread, EndFlag,
      EvictionFlag, Running,
     NoOrder, Message, Executing, Gone, Starting, Evicting
<1> QED BY <1>1, <1>2, <1>3, <1>4 DEF LocalInv

\* A PROCESS_EXECUTE in hand names a process.
LEMMA OrderIsForProcess ==
    ASSUME LocalInv, handler.at \in {"wait_finished", "seek", "context"}
    PROVE  handler.msg.pid \in Proc
BY DEF LocalInv, Types, HandlerRecords, ExecRecords, Threads, OrderInHand, Orders,
    NoOrder, Message

\* kernel_scheduler_handler keeps each part of LocalInv.
LEMMA ChannelsHandler ==
    ASSUME LocalInv, HandlerStep
    PROVE  Channels'
<1> USE LinkAssumption, CpuAssumption, MessageTypes
        DEF LocalInv, Channels, linkVars, kmVars, ToScheduler
<1>1. CASE ReceiveExecute
  BY <1>1 DEF ReceiveExecute, Receive
<1>2. CASE WaitExecutionFinished
  BY <1>2 DEF WaitExecutionFinished
<1>3. CASE ContextSeek
  <2>1. handler.msg.pid \in Proc
    BY <1>3, OrderIsForProcess DEF ContextSeek
  <2>2. [kind |-> "CONTEXT_SEEK", pid |-> handler.msg.pid, ctx |-> Ctx0] \in Contexts
    BY <2>1 DEF Contexts
  <2> QED BY <2>2, <1>3 DEF ContextSeek
<1>4. CASE StartExecution
  BY <1>4 DEF StartExecution
<1>5. CASE ReceiveEvict
  BY <1>5 DEF ReceiveEvict, Receive
<1>6. CASE EvictIdle
  BY <1>6 DEF EvictIdle, Confirm
<1>7. CASE EvictBusy
  BY <1>7 DEF EvictBusy
<1>8. CASE WaitEvictionReady
  BY <1>8 DEF WaitEvictionReady, Confirm
<1> QED BY <1>1, <1>2, <1>3, <1>4, <1>5, <1>6, <1>7, <1>8 DEF HandlerStep

\* The handler's assignments keep the types.
LEMMA TypesHandler ==
    ASSUME LocalInv, HandlerStep
    PROVE  Types'
<1> USE LinkAssumption, CpuAssumption DEF LocalInv, linkVars, handlerVars,
    execVars, kmVars
<1>1. CASE ReceiveExecute
  <2>1. handler' \in HandlerRecords
    BY <1>1 DEF ReceiveExecute, Receive, Channels, Types, HandlerRecords
  <2> QED BY <1>1, <2>1 DEF ReceiveExecute, Receive, Channels, Types
<1>2. CASE WaitExecutionFinished
  <2>1. handler' \in HandlerRecords
    BY <1>2 DEF WaitExecutionFinished, Types, HandlerRecords
  <2> QED BY <1>2, <2>1 DEF WaitExecutionFinished, Types
<1>3. CASE ContextSeek
  <2>1. handler' \in HandlerRecords
    BY <1>3 DEF ContextSeek, Types, HandlerRecords
  <2> QED BY <1>3, <2>1 DEF ContextSeek, Types
<1>4. CASE StartExecution
  <2>1. handler.msg.pid \in Proc
    BY <1>4, OrderIsForProcess DEF StartExecution
  <2>2. handler' \in HandlerRecords
    BY <1>4 DEF StartExecution, HandlerRecords
  <2>3. exec' \in ExecRecords
    BY <2>1, <1>4 DEF StartExecution, Types, ExecRecords, NoOrder
  <2> QED BY <2>1, <2>2, <2>3, <1>4 DEF StartExecution, Types
<1>5. CASE ReceiveEvict
  <2>1. handler' \in HandlerRecords
    BY <1>5 DEF ReceiveEvict, Receive, Channels, Types, HandlerRecords
  <2> QED BY <1>5, <2>1 DEF ReceiveEvict, Receive, Channels, Types
<1>6. CASE EvictIdle
  <2>1. handler' \in HandlerRecords
    BY <1>6 DEF EvictIdle, Confirm, Types, HandlerRecords
  <2> QED BY <1>6, <2>1 DEF EvictIdle, Confirm, Types
<1>7. CASE EvictBusy
  <2>1. handler' \in HandlerRecords
    BY <1>7 DEF EvictBusy, Types, HandlerRecords
  <2> QED BY <1>7, <2>1 DEF EvictBusy, Types
<1>8. CASE WaitEvictionReady
  <2>1. handler' \in HandlerRecords
    BY <1>8 DEF WaitEvictionReady, Confirm, Types, HandlerRecords
  <2> QED BY <1>8, <2>1 DEF WaitEvictionReady, Confirm, Types
<1> QED BY <1>1, <1>2, <1>3, <1>4, <1>5, <1>6, <1>7, <1>8 DEF HandlerStep

\* The handler's waits and posts keep the semaphores in range.
LEMMA SemaphoresHandler ==
    ASSUME LocalInv, HandlerStep
    PROVE  Semaphores'
<1> USE CpuAssumption DEF LocalInv, Semaphores, handlerVars
<1>1. CASE ReceiveExecute
  BY <1>1 DEF ReceiveExecute
<1>2. CASE WaitExecutionFinished
  BY <1>2 DEF WaitExecutionFinished
<1>3. CASE ContextSeek
  BY <1>3 DEF ContextSeek
<1>4. CASE StartExecution
  BY <1>4 DEF StartExecution
<1>5. CASE ReceiveEvict
  BY <1>5 DEF ReceiveEvict
<1>6. CASE EvictIdle
  BY <1>6 DEF EvictIdle, Confirm
<1>7. CASE EvictBusy
  BY <1>7 DEF EvictBusy
<1>8. CASE WaitEvictionReady
  BY <1>8 DEF WaitEvictionReady, Confirm
<1> QED BY <1>1, <1>2, <1>3, <1>4, <1>5, <1>6, <1>7, <1>8 DEF HandlerStep

\* The handler keeps flags and threads consistent.
LEMMA ThreadsHandler ==
    ASSUME PromptEvict, LocalInv, HandlerStep
    PROVE  Threads'
<1> USE LinkAssumption, CpuAssumption DEF LocalInv, Types, HandlerRecords,
    ExecRecords, Semaphores, Threads,
    OrderInHand, OneThread, EndFlag,
        EvictionFlag, Running, Executing, Gone, Starting, Evicting, linkVars, handlerVars, execVars, kmVars
<1>1. CASE ReceiveExecute
  BY <1>1 DEF ReceiveExecute, Receive, Channels, Orders, NoOrder, Message
<1>2. CASE WaitExecutionFinished
  BY <1>2 DEF WaitExecutionFinished
<1>3. CASE ContextSeek
  BY <1>3 DEF ContextSeek
<1>4. CASE StartExecution
  BY <1>4 DEF StartExecution, Orders, NoOrder, Message
<1>5. CASE ReceiveEvict
  BY <1>5 DEF ReceiveEvict, Receive, MayReceiveEvict, Leaving, Channels, Orders,
      NoOrder, Message
<1>6. CASE EvictIdle
  BY <1>6 DEF EvictIdle, Confirm
<1>7. CASE EvictBusy
  BY <1>7 DEF EvictBusy
<1>8. CASE WaitEvictionReady
  BY <1>8 DEF WaitEvictionReady, Confirm
<1> QED BY <1>1, <1>2, <1>3, <1>4, <1>5, <1>6, <1>7, <1>8 DEF HandlerStep
\* An execution thread in its loop works for a process.
LEMMA ExecIsForProcess ==
    ASSUME LocalInv, exec.at \notin {"none", "post"}
    PROVE  exec.pid \in Proc
BY DEF LocalInv, Threads, OneThread, Gone

\* process_execution_handler keeps each part of LocalInv.
LEMMA ChannelsExec ==
    ASSUME LocalInv, ExecStep
    PROVE  Channels'
<1> USE CpuAssumption, MessageTypes, ExecIsForProcess
        DEF LocalInv, Channels, Types, HandlerRecords, ExecRecords, Threads, linkVars,
            handlerVars, kmVars,
            ToScheduler, ContextSend, Syscalls
<1>1. CASE ReadInterrupt
  BY <1>1 DEF ReadInterrupt, ExecUnchanged
<1>2. CASE Leave
  BY <1>2 DEF Leave, ExecUnchanged
<1>3. CASE Stay
  BY <1>3 DEF Stay, ExecUnchanged
<1>4. ASSUME NEW c \in Ctx, NEW creates \in BOOLEAN, Instruction(c, creates)
      PROVE  Channels'
  <2>1. Message("PROCESS_CREATE", exec.pid) \in Reports
    BY <1>4 DEF Instruction
  <2>2. CASE creates
    <3>1. fromCpu' = Append(fromCpu, Message("PROCESS_CREATE", exec.pid)) /\ UNCHANGED <<toCpu, toKm>>
      BY <2>2, <1>4 DEF Instruction, ExecUnchanged
    <3> QED BY <2>1, <3>1
  <2>3. CASE ~creates
    BY <2>3, <1>4 DEF Instruction, ExecUnchanged
  <2> QED BY <2>2, <2>3
<1>5. ASSUME NEW c \in Ctx, SyscallContext(c)
      PROVE  Channels'
  <2>1. [kind |-> "CONTEXT_TRANSFER", pid |-> exec.pid, ctx |-> c] \in Contexts
    BY <1>5 DEF SyscallContext
  <2> QED BY <2>1, <1>5 DEF SyscallContext, ExecUnchanged
<1>6. CASE InstructionExit
  BY <1>6 DEF InstructionExit, ExecUnchanged
<1>7. CASE CheckInterrupt
  BY <1>7 DEF CheckInterrupt, ExecUnchanged
<1>8. ASSUME NEW op \in {"SLEEP", "MEM_ALLOC"}, SyscallNotify(op)
      PROVE  Channels'
  BY <1>8 DEF SyscallNotify, ExecUnchanged
<1>9. CASE SaveContext
  <2>1. [kind |-> "CONTEXT_TRANSFER", pid |-> exec.pid, ctx |-> exec.ctx] \in Contexts
    BY <1>9 DEF SaveContext
  <2> QED BY <2>1, <1>9 DEF SaveContext, ExecUnchanged
<1>10. CASE ResetInterrupt
  BY <1>10 DEF ResetInterrupt, ExecUnchanged
<1>11. CASE EndExecution
  BY <1>11 DEF EndExecution
<1>12. CASE PostFinished
  BY <1>12 DEF PostFinished
<1> QED BY <1>1, <1>2, <1>3, <1>4, <1>5, <1>6, <1>7, <1>8, <1>9, <1>10, <1>11,
    <1>12 DEF ExecStep

\* The execution thread's assignments keep the types.
LEMMA TypesExec ==
    ASSUME LocalInv, ExecStep
    PROVE  Types'
<1> USE CpuAssumption, ExecIsForProcess DEF LocalInv, linkVars, handlerVars,
    kmVars
<1>1. CASE ReadInterrupt
  <2>1. exec' \in ExecRecords
    BY <1>1 DEF ReadInterrupt, ExecUnchanged, Types, ExecRecords
  <2> QED BY <1>1, <2>1 DEF ReadInterrupt, ExecUnchanged, Types
<1>2. CASE Leave
  <2>1. exec' \in ExecRecords
    BY <1>2 DEF Leave, ExecUnchanged, Types, ExecRecords
  <2> QED BY <1>2, <2>1 DEF Leave, ExecUnchanged, Types
<1>3. CASE Stay
  <2>1. exec' \in ExecRecords
    BY <1>3 DEF Stay, ExecUnchanged, Types, ExecRecords
  <2> QED BY <1>3, <2>1 DEF Stay, ExecUnchanged, Types
<1>4. ASSUME NEW c \in Ctx, NEW creates \in BOOLEAN, Instruction(c, creates)
      PROVE  Types'
  <2>1. /\ exec' = [exec EXCEPT !.at = "check", !.ctx = c]
        /\ latest' = [latest EXCEPT ![exec.pid] = c]
        /\ UNCHANGED <<view, handler, shouldEnd, interruptPending, is_executing, answer, saved, running>>
    BY <1>4 DEF Instruction, ExecUnchanged
  <2>2. latest' \in [Proc -> Ctx]
    BY <2>1 DEF Types
  <2>3. exec' \in ExecRecords
    BY <2>1 DEF Types, ExecRecords
  <2> QED BY <2>1, <2>2, <2>3 DEF Types
<1>5. ASSUME NEW c \in Ctx, SyscallContext(c)
      PROVE  Types'
  <2>1. exec' \in ExecRecords
    BY <1>5 DEF SyscallContext, ExecUnchanged, Types, ExecRecords
  <2> QED BY <1>5, <2>1 DEF SyscallContext, ExecUnchanged, Types
<1>6. CASE InstructionExit
  <2>1. exec' \in ExecRecords
    BY <1>6 DEF InstructionExit, ExecUnchanged, Types, ExecRecords
  <2> QED BY <1>6, <2>1 DEF InstructionExit, ExecUnchanged, Types
<1>7. CASE CheckInterrupt
  <2>1. exec' \in ExecRecords
    BY <1>7 DEF CheckInterrupt, ExecUnchanged, Types, ExecRecords
  <2> QED BY <1>7, <2>1 DEF CheckInterrupt, ExecUnchanged, Types
<1>8. ASSUME NEW op \in {"SLEEP", "MEM_ALLOC"}, SyscallNotify(op)
      PROVE  Types'
  <2>1. exec' \in ExecRecords
    BY <1>8 DEF SyscallNotify, ExecUnchanged, Types, ExecRecords
  <2> QED BY <1>8, <2>1 DEF SyscallNotify, ExecUnchanged, Types
<1>9. CASE SaveContext
  <2>1. exec' \in ExecRecords
    BY <1>9 DEF SaveContext, ExecUnchanged, Types, ExecRecords
  <2> QED BY <1>9, <2>1 DEF SaveContext, ExecUnchanged, Types
<1>10. CASE ResetInterrupt
  <2>1. exec' \in ExecRecords
    BY <1>10 DEF ResetInterrupt, ExecUnchanged, Types, ExecRecords
  <2> QED BY <1>10, <2>1 DEF ResetInterrupt, ExecUnchanged, Types
<1>11. CASE EndExecution
  <2>1. exec' \in ExecRecords
    BY <1>11 DEF EndExecution, Types, ExecRecords
  <2> QED BY <1>11, <2>1 DEF EndExecution, Types
<1>12. CASE PostFinished
  <2>1. exec' \in ExecRecords
    BY <1>12 DEF PostFinished, Types, ExecRecords
  <2> QED BY <1>12, <2>1 DEF PostFinished, Types
<1> QED BY <1>1, <1>2, <1>3, <1>4, <1>5, <1>6, <1>7, <1>8, <1>9, <1>10, <1>11,
    <1>12 DEF ExecStep

\* Its posts keep the semaphores in range: it posts each once per execution.
LEMMA SemaphoresExec ==
    ASSUME PromptEvict, LocalInv, ExecStep
    PROVE  Semaphores'
<1> USE CpuAssumption DEF LocalInv, Types, HandlerRecords, ExecRecords, Semaphores,
    handlerVars, Threads,
    OneThread, EvictionFlag,
        Executing, Gone, Starting, Evicting
<1>1. CASE ReadInterrupt
  BY <1>1 DEF ReadInterrupt, ExecUnchanged
<1>2. CASE Leave
  BY <1>2 DEF Leave, ExecUnchanged
<1>3. CASE Stay
  BY <1>3 DEF Stay, ExecUnchanged
<1>4. ASSUME NEW c \in Ctx, NEW creates \in BOOLEAN, Instruction(c, creates)
      PROVE  Semaphores'
  BY <1>4 DEF Instruction, ExecUnchanged
<1>5. ASSUME NEW c \in Ctx, SyscallContext(c)
      PROVE  Semaphores'
  BY <1>5 DEF SyscallContext, ExecUnchanged
<1>6. CASE InstructionExit
  BY <1>6 DEF InstructionExit, ExecUnchanged
<1>7. CASE CheckInterrupt
  BY <1>7 DEF CheckInterrupt, ExecUnchanged
<1>8. ASSUME NEW op \in {"SLEEP", "MEM_ALLOC"}, SyscallNotify(op)
      PROVE  Semaphores'
  BY <1>8 DEF SyscallNotify, ExecUnchanged
<1>9. CASE SaveContext
  BY <1>9 DEF SaveContext, ExecUnchanged
<1>10. CASE ResetInterrupt
  BY <1>10 DEF ResetInterrupt, ExecUnchanged
<1>11. CASE EndExecution
  BY <1>11 DEF EndExecution
<1>12. CASE PostFinished
  BY <1>12 DEF PostFinished
<1> QED BY <1>1, <1>2, <1>3, <1>4, <1>5, <1>6, <1>7, <1>8, <1>9, <1>10, <1>11,
    <1>12 DEF ExecStep

\* It keeps flags and threads consistent.
LEMMA ThreadsExec ==
    ASSUME PromptEvict, LocalInv, ExecStep
    PROVE  Threads'
<1> USE LinkAssumption, CpuAssumption DEF LocalInv, Types, HandlerRecords,
    ExecRecords, Semaphores, Threads,
    OrderInHand, OneThread,
        EndFlag, EvictionFlag, Running, Executing, Gone, Starting, Evicting, MayMove, linkVars, handlerVars, kmVars
<1>0. MayMove
  BY DEF ExecStep
<1>1. CASE ReadInterrupt
  BY <1>0, <1>1 DEF ReadInterrupt, ExecUnchanged
<1>2. CASE Leave
  BY <1>0, <1>2 DEF Leave, ExecUnchanged
<1>3. CASE Stay
  BY <1>0, <1>3 DEF Stay, ExecUnchanged
<1>4. ASSUME NEW c \in Ctx, NEW creates \in BOOLEAN, Instruction(c, creates)
      PROVE  Threads'
  BY <1>0, <1>4 DEF Instruction, ExecUnchanged
<1>5. ASSUME NEW c \in Ctx, SyscallContext(c)
      PROVE  Threads'
  BY <1>0, <1>5 DEF SyscallContext, ExecUnchanged
<1>6. CASE InstructionExit
  BY <1>0, <1>6 DEF InstructionExit, ExecUnchanged
<1>7. CASE CheckInterrupt
  BY <1>0, <1>7 DEF CheckInterrupt, ExecUnchanged
<1>8. ASSUME NEW op \in {"SLEEP", "MEM_ALLOC"}, SyscallNotify(op)
      PROVE  Threads'
  BY <1>0, <1>8 DEF SyscallNotify, ExecUnchanged
<1>9. CASE SaveContext
  BY <1>0, <1>9 DEF SaveContext, ExecUnchanged
<1>10. CASE ResetInterrupt
  BY <1>0, <1>10 DEF ResetInterrupt, ExecUnchanged
<1>11. CASE EndExecution
  BY <1>0, <1>11 DEF EndExecution
<1>12. CASE PostFinished
  BY <1>0, <1>12 DEF PostFinished
<1> QED BY <1>1, <1>2, <1>3, <1>4, <1>5, <1>6, <1>7, <1>8, <1>9, <1>10, <1>11,
    <1>12 DEF ExecStep

\* Kernel Memory and the scheduler do not touch the CPU's flags.
LEMMA LocalKernelMemory ==
    ASSUME LocalInv, KernelMemory
    PROVE  LocalInv'
<1>1. toKm \in Seq(Contexts) /\ toKm # <<>> /\ Head(toKm) \in Contexts /\ Tail(toKm) \in Seq(Contexts)
  BY DEF LocalInv, Channels, KernelMemory
<1>2. Head(toKm).pid \in Proc /\ Head(toKm).ctx \in Ctx
  BY <1>1 DEF Contexts
<1>3. Channels'
  BY <1>1 DEF LocalInv, Channels, KernelMemory, linkVars
<1>4. UNCHANGED <<linkVars, handlerVars, execVars, interruptPending, eviction_ready,
                  execution_finished, running>>
  BY DEF KernelMemory
<1>5. /\ answer' \in [pid : Proc, ctx : Ctx] \cup {NoOrder}
      /\ saved' \in [Proc -> Ctx]
  <2>1. CASE Head(toKm).kind = "CONTEXT_TRANSFER"
    BY <1>2, <2>1 DEF LocalInv, Types, HandlerRecords, ExecRecords, KernelMemory
  <2>2. CASE Head(toKm).kind # "CONTEXT_TRANSFER"
    <3>1. answer' = [pid |-> Head(toKm).pid, ctx |-> saved[Head(toKm).pid]] /\ saved' = saved
      BY <2>2 DEF KernelMemory
    <3> QED BY <1>2, <3>1 DEF LocalInv, Types, HandlerRecords, ExecRecords
  <2> QED BY <2>1, <2>2
<1>6. Types'
  BY <1>4, <1>5 DEF LocalInv, Types, HandlerRecords, ExecRecords, linkVars,
      handlerVars, execVars
<1>7. Semaphores' /\ Threads'
  BY <1>4 DEF LocalInv, Semaphores, Threads, OrderInHand, OneThread, EndFlag,
      EvictionFlag, Running,
     Executing, Gone, Starting, Evicting, handlerVars, execVars
<1> QED BY <1>3, <1>6, <1>7 DEF LocalInv

\* The scheduler sends well-formed orders and reads its socket.
LEMMA LocalScheduler ==
    ASSUME LocalInv, Scheduler
    PROVE  LocalInv'
<1>1. UNCHANGED <<handlerVars, execVars, interruptPending, eviction_ready, execution_finished, kmVars,
                  running>>
  BY DEF Scheduler
<1>2. Semaphores' /\ Threads'
  BY <1>1 DEF LocalInv, Semaphores, Threads, OrderInHand, OneThread, EndFlag,
      EvictionFlag, Running,
     Executing, Gone, Starting, Evicting, handlerVars, execVars
<1>3. Channels' /\ view' \in [pid : Proc \cup {NoProc}, idle : BOOLEAN, evicting : BOOLEAN,
                             ended : SUBSET Proc]
  <2> USE <1>1, LinkAssumption, MessageTypes DEF LocalInv, Channels, Types,
      HandlerRecords, ExecRecords, kmVars
  <2>1. ASSUME NEW p \in Proc, send_pid_to_execute(p)
        PROVE  <1>3
    <3>1. Channels'
      BY <2>1 DEF send_pid_to_execute
    <3>2. view' \in [pid : Proc \cup {NoProc}, idle : BOOLEAN, evicting : BOOLEAN, ended : SUBSET Proc]
      BY <2>1 DEF send_pid_to_execute
    <3> QED BY <3>1, <3>2
  <2>2. CASE send_process_evict
    <3>1. Channels'
      BY <2>2 DEF send_process_evict
    <3>2. view' \in [pid : Proc \cup {NoProc}, idle : BOOLEAN, evicting : BOOLEAN, ended : SUBSET Proc]
      BY <2>2 DEF send_process_evict
    <3> QED BY <3>1, <3>2
  <2>3. CASE cpu_handler
    <3>1. Head(fromCpu) \in Reports /\ Tail(fromCpu) \in Seq(Reports)
      BY <2>3 DEF cpu_handler
    <3>2. Channels'
      BY <3>1, <2>3 DEF cpu_handler
    <3>3. view' \in [pid : Proc \cup {NoProc}, idle : BOOLEAN, evicting : BOOLEAN, ended : SUBSET Proc]
      BY <3>1, <2>3 DEF cpu_handler, Reports, Syscalls
    <3> QED BY <3>2, <3>3
  <2> QED BY <2>1, <2>2, <2>3 DEF Scheduler, SchedulerStep
<1>4. Types'
  BY <1>1, <1>3 DEF LocalInv, Types, HandlerRecords, ExecRecords, handlerVars,
      execVars, kmVars
<1> QED BY <1>2, <1>3, <1>4 DEF LocalInv

\* Every step keeps LocalInv.
LEMMA LocalStep ==
    ASSUME PromptEvict, LocalInv, [Next]_vars
    PROVE  LocalInv'
<1>1. CASE Scheduler
  BY <1>1, LocalScheduler
<1>2. CASE HandlerStep
  BY <1>2, ChannelsHandler, TypesHandler, SemaphoresHandler, ThreadsHandler DEF LocalInv
<1>3. CASE ExecStep
  BY <1>3, ChannelsExec, TypesExec, SemaphoresExec, ThreadsExec DEF LocalInv
<1>4. CASE KernelMemory
  BY <1>4, LocalKernelMemory
<1>5. CASE UNCHANGED vars
  BY <1>5 DEF vars, linkVars, handlerVars, execVars, kmVars, LocalInv, Channels,
      Types, HandlerRecords, ExecRecords, Semaphores, Threads,
     OrderInHand, OneThread, EndFlag, EvictionFlag, Running, Executing, Gone, Starting, Evicting
<1> QED BY <1>1, <1>2, <1>3, <1>4, <1>5 DEF Next

\* The flags, the semaphores and the two threads of a CPU stay consistent
\* whatever the order of evictions and syscalls (kernel_scheduler_handler and
\* process_execution_handler), while no eviction arrives as the thread leaves.
THEOREM LocalInvariance ==
    ASSUME PromptEvict
    PROVE  Spec => []LocalInv
<1>1. Init => LocalInv
  BY LocalInit
<1>2. LocalInv /\ [Next]_vars => LocalInv'
  BY LocalStep
<1> QED BY <1>1, <1>2, PTL DEF Spec

-----------------------------------------------------------------------------
\* Receiving an order leaves Inbox as it was.
LEMMA InboxReceived ==
    ASSUME LocalInv, NEW op, Receive(op), handler' = [at |-> handler'.at, msg |-> Head(toCpu)]
    PROVE  Inbox' = Inbox
<1>1. handler.msg = NoOrder /\ Head(toCpu) \in Orders /\ toCpu \in Seq(Orders)
  BY DEF LocalInv, Channels, Threads, OrderInHand, Receive
<1>2. Inbox = toCpu
  BY <1>1 DEF Inbox
<1>3. handler'.msg = Head(toCpu) /\ toCpu' = Tail(toCpu) /\ toCpu # <<>>
  BY DEF Receive
<1>4. <<Head(toCpu)>> \o Tail(toCpu) = toCpu
  BY <1>1, <1>3
<1>5. Head(toCpu) # NoOrder
  BY <1>1, MessageTypes
<1> QED BY <1>2, <1>3, <1>4, <1>5 DEF Inbox

\* Obeying an order removes it from Inbox.
LEMMA InboxObeyed ==
    ASSUME LocalInv, handler.at # "receive", handler' = [at |-> "receive", msg |-> NoOrder],
           toCpu' = toCpu
    PROVE  /\ Inbox # <<>> /\ Head(Inbox) = handler.msg /\ Inbox' = Tail(Inbox)
<1>1. handler.msg # NoOrder /\ toCpu \in Seq(Orders) /\ handler.msg \in Orders
  BY DEF LocalInv, Channels, Types, HandlerRecords, ExecRecords, Threads, OrderInHand
<1>2. Inbox = <<handler.msg>> \o toCpu /\ Inbox' = toCpu
  BY <1>1 DEF Inbox
<1> QED BY <1>1, <1>2

\* Sending an order appends it to Inbox.
LEMMA InboxSent ==
    ASSUME LocalInv, NEW m \in Orders, toCpu' = Append(toCpu, m), UNCHANGED handler
    PROVE  Inbox' = Append(Inbox, m)
<1>1. toCpu \in Seq(Orders) /\ (handler.msg # NoOrder => handler.msg \in Orders)
  BY DEF LocalInv, Channels, Types, HandlerRecords, ExecRecords
<1>2. CASE handler.msg = NoOrder
  BY <1>2 DEF Inbox
<1>3. CASE handler.msg # NoOrder
  BY <1>1, <1>3 DEF Inbox
<1> QED BY <1>2, <1>3

\* Inbox depends on the socket and the order in hand only.
LEMMA InboxKept ==
    ASSUME UNCHANGED <<toCpu, handler.msg>>
    PROVE  Inbox' = Inbox
BY DEF Inbox

\* A step of CpuContract, or none.
ContractStep == [Contract!ContractNext]_(Contract!contractVars)

\* The scheduler's steps are the contract's.
LEMMA RefineScheduler ==
    ASSUME LocalInv, Scheduler
    PROVE  ContractStep
<1>1. UNCHANGED <<handler, running>>
  BY DEF Scheduler, handlerVars
<1>2. Contract!SchedulerStep
  <2>1. ASSUME NEW p \in Proc, send_pid_to_execute(p)
        PROVE  Contract!send_pid_to_execute(p)
    <3>1. Inbox' = Append(Inbox, Message("PROCESS_EXECUTE", p))
      BY <1>1, <2>1, InboxSent, MessageTypes DEF send_pid_to_execute
    <3> QED BY <3>1, <2>1 DEF send_pid_to_execute, Contract!send_pid_to_execute,
        Message, Contract!Message
  <2>2. CASE send_process_evict
    <3>1. Inbox' = Append(Inbox, Message("PROCESS_EVICT", NoProc))
      BY <1>1, <2>2, InboxSent, MessageTypes DEF send_process_evict
    <3> QED BY <3>1, <2>2 DEF send_process_evict, Contract!SchedulerStep,
        Contract!send_process_evict,
            Message, Contract!Message
  <2>3. CASE cpu_handler
    <3>1. Inbox' = Inbox
      BY <1>1, <2>3, InboxKept DEF cpu_handler
    <3> QED BY <3>1, <2>3 DEF cpu_handler, Contract!SchedulerStep, Contract!cpu_handler
  <2> QED BY <2>1, <2>2, <2>3 DEF Scheduler, SchedulerStep, Contract!SchedulerStep
<1> QED BY <1>1, <1>2 DEF ContractStep, Contract!ContractNext

\* Steps between the threads are invisible at the socket.
LEMMA RefineStutter ==
    ASSUME UNCHANGED <<toCpu, fromCpu, view, running, handler.msg>>
    PROVE  ContractStep
BY InboxKept DEF ContractStep, Contract!contractVars, Contract!linkVars

\* Receiving an order is invisible until it is obeyed.
LEMMA RefineReceive ==
    ASSUME LocalInv, NEW op, Receive(op), handler' = [at |-> handler'.at, msg |-> Head(toCpu)],
           UNCHANGED <<fromCpu, view, running>>
    PROVE  ContractStep
BY InboxReceived DEF ContractStep, Contract!contractVars, Contract!linkVars

\* A confirmation sent when no thread executes is the contract's eviction.
LEMMA RefineConfirm ==
    ASSUME LocalInv, Confirm, Evicting, Executing => FALSE
    PROVE  ContractStep
<1>1. /\ Inbox # <<>> /\ Head(Inbox) = handler.msg /\ Inbox' = Tail(Inbox)
  BY InboxObeyed DEF Confirm, Evicting
<1>2. handler.msg.op = "PROCESS_EVICT"
  BY DEF LocalInv, Threads, OrderInHand
<1>3. Contract!Evict
  BY <1>1, <1>2 DEF Confirm, ToScheduler, Contract!Evict, Contract!Order, Message,
      Contract!Message
<1> QED BY <1>3 DEF ContractStep, Contract!ContractNext

\* Each step of kernel_scheduler_handler is a step of the contract or none.
LEMMA RefineHandler ==
    ASSUME LocalInv, HandlerStep
    PROVE  ContractStep
<1>1. CASE ReceiveExecute
  BY <1>1, RefineReceive DEF ReceiveExecute
<1>2. CASE WaitExecutionFinished
  BY <1>2, RefineStutter DEF WaitExecutionFinished, linkVars, LocalInv, Types,
      HandlerRecords, ExecRecords
<1>3. CASE ContextSeek
  BY <1>3, RefineStutter DEF ContextSeek, linkVars, LocalInv, Types, HandlerRecords,
      ExecRecords
<1>4. CASE StartExecution
  <2>1. /\ Inbox # <<>> /\ Head(Inbox) = handler.msg /\ Inbox' = Tail(Inbox)
    BY <1>4, InboxObeyed DEF StartExecution, linkVars
  <2>2. handler.msg.op = "PROCESS_EXECUTE" /\ running = NoProc
    BY <1>4 DEF StartExecution, LocalInv, Threads, OrderInHand, OneThread, Running,
        Starting, Executing
  <2>3. Contract!Execute
    BY <1>4, <2>1, <2>2 DEF StartExecution, Contract!Execute, Contract!Order, linkVars
  <2> QED BY <2>3 DEF ContractStep, Contract!ContractNext
<1>5. CASE ReceiveEvict
  BY <1>5, RefineReceive DEF ReceiveEvict
<1>6. CASE EvictIdle
  <2>1. ~Executing
    BY <1>6 DEF EvictIdle, LocalInv, Threads, OneThread, Gone, Executing
  <2> QED BY <1>6, <2>1, RefineConfirm DEF EvictIdle, Evicting
<1>7. CASE EvictBusy
  BY <1>7, RefineStutter DEF EvictBusy, linkVars, LocalInv, Types, HandlerRecords,
      ExecRecords
<1>8. CASE WaitEvictionReady
  <2>1. ~Executing
    BY <1>8 DEF WaitEvictionReady, LocalInv, Semaphores, Threads, EvictionFlag,
        Executing
  <2> QED BY <1>8, <2>1, RefineConfirm DEF WaitEvictionReady, Evicting
<1> QED BY <1>1, <1>2, <1>3, <1>4, <1>5, <1>6, <1>7, <1>8 DEF HandlerStep

\* A syscall of the running process is the contract's syscall.
LEMMA RefineSyscall ==
    ASSUME LocalInv, NEW op \in Syscalls \cup {"PROCESS_CREATE"}, ToScheduler(op, running), running # NoProc,
           running' = IF op \in Syscalls THEN NoProc ELSE running, UNCHANGED <<toCpu, view, handler>>
    PROVE  ContractStep
<1>1. Inbox' = Inbox
  BY InboxKept
<1>2. Contract!Syscall
  BY <1>1 DEF Contract!Syscall, ToScheduler, Message, Contract!Message, Syscalls,
      Contract!Syscalls
<1> QED BY <1>2 DEF ContractStep, Contract!ContractNext

\* Each step of process_execution_handler is a step of the contract or none.
LEMMA RefineExec ==
    ASSUME LocalInv, ExecStep
    PROVE  ContractStep
<1> USE DEF ExecUnchanged, linkVars, handlerVars, execVars, kmVars
<1>0. /\ exec.at \in {"fetch", "notify"} => running = exec.pid /\ running # NoProc
  BY LinkAssumption, ExecIsForProcess DEF LocalInv, Threads, Running
<1>1. CASE ReadInterrupt
  BY <1>1, RefineStutter DEF ReadInterrupt
<1>2. CASE Leave
  BY <1>2, RefineStutter DEF Leave
<1>3. CASE Stay
  BY <1>3, RefineStutter DEF Stay
<1>4. ASSUME NEW c \in Ctx, NEW creates \in BOOLEAN, Instruction(c, creates)
      PROVE  ContractStep
  <2>1. CASE creates
    <3>1. /\ ToScheduler("PROCESS_CREATE", running) /\ running # NoProc
          /\ UNCHANGED <<toCpu, view, handler, running>>
      BY <1>0, <1>4, <2>1 DEF Instruction
    <3> QED BY <3>1, RefineSyscall DEF Syscalls
  <2>2. CASE ~creates
    BY <1>4, <2>2, RefineStutter DEF Instruction
  <2> QED BY <2>1, <2>2
<1>5. ASSUME NEW c \in Ctx, SyscallContext(c)
      PROVE  ContractStep
  BY <1>5, RefineStutter DEF SyscallContext
<1>6. CASE InstructionExit
  BY <1>0, <1>6, RefineSyscall DEF InstructionExit, Syscalls
<1>7. CASE CheckInterrupt
  BY <1>7, RefineStutter DEF CheckInterrupt
<1>8. ASSUME NEW op \in {"SLEEP", "MEM_ALLOC"}, SyscallNotify(op)
      PROVE  ContractStep
  BY <1>0, <1>8, RefineSyscall DEF SyscallNotify, Syscalls
<1>9. CASE SaveContext
  BY <1>9, RefineStutter DEF SaveContext
<1>10. CASE ResetInterrupt
  BY <1>10, RefineStutter DEF ResetInterrupt
<1>11. CASE EndExecution
  BY <1>11, RefineStutter DEF EndExecution
<1>12. CASE PostFinished
  BY <1>12, RefineStutter DEF PostFinished
<1> QED BY <1>1, <1>2, <1>3, <1>4, <1>5, <1>6, <1>7, <1>8, <1>9, <1>10, <1>11,
    <1>12 DEF ExecStep

\* Every step is a step of the contract or none.
LEMMA RefineStep ==
    ASSUME LocalInv, [Next]_vars
    PROVE  ContractStep
<1>1. CASE Scheduler
  BY <1>1, RefineScheduler
<1>2. CASE HandlerStep
  BY <1>2, RefineHandler
<1>3. CASE ExecStep
  BY <1>3, RefineExec
<1>4. CASE KernelMemory
  BY <1>4, RefineStutter DEF KernelMemory, linkVars, handlerVars
<1>5. CASE UNCHANGED vars
  BY <1>5, RefineStutter DEF vars, linkVars, handlerVars
<1> QED BY <1>1, <1>2, <1>3, <1>4, <1>5 DEF Next

\* ImplementsContract for every set of processes and contexts: the two threads
\* of a CPU obey EXECUTE and EVICT one at a time and in order, confirm an
\* eviction only when nothing executes, and send syscalls only for the process
\* that runs.
THEOREM ContractTheorem ==
    ASSUME PromptEvict
    PROVE  Spec => ImplementsContract
<1>1. Init => Contract!ContractInit
  BY DEF Init, LinkInit, Contract!ContractInit, Contract!LinkInit, Inbox
<1>2. LocalInv /\ [Next]_vars => ContractStep
  BY RefineStep
<1> QED BY <1>1, <1>2, LocalInvariance, PTL DEF Spec, ImplementsContract,
    Contract!ContractSpec, ContractStep

-----------------------------------------------------------------------------
\* No message that gives the CPU back is under way.
NoYield == \A i \in DOMAIN fromCpu : fromCpu[i].op \notin Syscalls

\* A PROCESS_EXECUTE is the first order under way, for a process that has not
\* ended, and finds the CPU idle.
ExecuteOrders ==
    \A i \in DOMAIN Inbox : Inbox[i].op = "PROCESS_EXECUTE" =>
        i = 1 /\ ~view.idle /\ running = NoProc /\ Inbox[i].pid \notin view.ended /\ NoYield

\* A PROCESS_EVICT is the last order under way.
EvictOrders ==
    \A i \in DOMAIN Inbox : Inbox[i].op = "PROCESS_EVICT" => i = Len(Inbox) /\ view.evicting

\* A process gives the CPU back once, and the scheduler does not think the CPU
\* idle before.
OneYield ==
    /\ running # NoProc => ~view.idle /\ NoYield
    /\ view.idle => NoYield
    /\ \A i, j \in DOMAIN fromCpu : fromCpu[i].op \in Syscalls /\ fromCpu[j].op \in Syscalls => i = j

\* A CONFIRMATION is the last thing a CPU has to say until its next order.
Confirmations ==
    \A i \in DOMAIN fromCpu : fromCpu[i].op = "CONFIRMATION" =>
        i = Len(fromCpu) /\ Inbox = <<>> /\ running = NoProc /\ view.evicting

\* What the scheduler and the CPU have under way between them; it follows from
\* the contract alone.
Protocol == ExecuteOrders /\ EvictOrders /\ OneYield /\ Confirmations

\* The types the protocol needs.
LinkTypes ==
    /\ Inbox \in Seq(Orders)
    /\ fromCpu \in Seq(Reports)
    /\ view \in [pid : Proc \cup {NoProc}, idle : BOOLEAN, evicting : BOOLEAN, ended : SUBSET Proc]
    /\ running \in Proc \cup {NoProc}

\* LocalInv gives the types the protocol needs.
LEMMA LinkTyped == LocalInv => LinkTypes
<1> SUFFICES ASSUME LocalInv PROVE LinkTypes
  OBVIOUS
<1>1. Inbox \in Seq(Orders)
  BY DEF LocalInv, Channels, Types, HandlerRecords, ExecRecords, Inbox
<1> QED BY <1>1 DEF LocalInv, Channels, Types, HandlerRecords, ExecRecords, LinkTypes

\* There are two orders.
LEMMA OrderOps ==
    \A m \in Orders : m.op \in {"PROCESS_EXECUTE", "PROCESS_EVICT"}
BY DEF Orders

\* Each step of the contract keeps Protocol: send_pid_to_execute ...
LEMMA ProtocolExecuteSent ==
    ASSUME LinkTypes, LinkTypes', Protocol, NEW p \in Proc, Contract!send_pid_to_execute(p), UNCHANGED running
    PROVE  Protocol'
<1>1. /\ view.idle /\ ~view.evicting /\ p \notin view.ended /\ fromCpu' = fromCpu
      /\ view'.idle = FALSE /\ view'.evicting = FALSE /\ view'.ended = view.ended
      /\ Inbox' = Append(Inbox, Message("PROCESS_EXECUTE", p))
  BY DEF Contract!send_pid_to_execute, Contract!Message, Message, LinkTypes
<1>2. Inbox = <<>>
  BY <1>1, OrderOps DEF Protocol, ExecuteOrders, EvictOrders, LinkTypes
<1>3. Inbox' = <<Message("PROCESS_EXECUTE", p)>>
  BY <1>1, <1>2
<1>4. NoYield /\ running = NoProc
  BY <1>1 DEF Protocol, OneYield
<1>5. ExecuteOrders' /\ EvictOrders'
  <2>1. DOMAIN Inbox' = {1} /\ Inbox'[1].op = "PROCESS_EXECUTE" /\ Inbox'[1].pid = p
    BY <1>3 DEF Message
  <2> QED BY <1>1, <1>4, <2>1 DEF ExecuteOrders, EvictOrders, NoYield
<1>6. OneYield' /\ Confirmations'
  BY <1>1, <1>4 DEF Protocol, OneYield, Confirmations, NoYield
<1> QED BY <1>5, <1>6 DEF Protocol

\* ... send_process_evict ...
LEMMA ProtocolEvictSent ==
    ASSUME LinkTypes, LinkTypes', Protocol, Contract!send_process_evict, UNCHANGED running
    PROVE  Protocol'
<1>1. /\ ~view.evicting /\ fromCpu' = fromCpu
      /\ view'.idle = view.idle /\ view'.evicting = TRUE /\ view'.ended = view.ended
      /\ Inbox' = Append(Inbox, Message("PROCESS_EVICT", NoProc))
  BY DEF Contract!send_process_evict, Contract!Message, Message, LinkTypes
<1>2. NoYield' = NoYield
  BY <1>1 DEF NoYield
<1>3. ExecuteOrders'
  BY <1>1, <1>2 DEF Protocol, ExecuteOrders, Message, LinkTypes
<1>4. EvictOrders'
  BY <1>1 DEF Protocol, EvictOrders, Message, LinkTypes
<1>5. OneYield' /\ Confirmations'
  BY <1>1, <1>2 DEF Protocol, OneYield, Confirmations
<1> QED BY <1>3, <1>4, <1>5 DEF Protocol

\* ... cpu_handler ...
LEMMA ProtocolReport ==
    ASSUME LinkTypes, LinkTypes', Protocol, Contract!cpu_handler, UNCHANGED running
    PROVE  Protocol'
<1> DEFINE m == Head(fromCpu)
<1>1. /\ fromCpu \in Seq(Reports) /\ fromCpu # <<>> /\ fromCpu' = Tail(fromCpu) /\ Inbox' = Inbox
      /\ m = fromCpu[1]
  BY DEF Contract!cpu_handler, LinkTypes
<1>2. \A i \in DOMAIN fromCpu' : i + 1 \in DOMAIN fromCpu /\ fromCpu'[i] = fromCpu[i + 1]
  BY <1>1
<1>3. m.op \in {"PROCESS_CREATE", "CONFIRMATION"} \cup Syscalls /\ NoYield => NoYield'
  BY <1>1, <1>2 DEF Reports, NoYield
<1>4. m \in Reports
  BY <1>1
<1>5. CASE m.op = "PROCESS_CREATE"
  <2>1. view' = view
    BY <1>5 DEF Contract!cpu_handler
  <2>2. NoYield => NoYield'
    BY <1>2 DEF NoYield
  <2>3. ExecuteOrders' /\ EvictOrders'
    BY <1>1, <2>1, <2>2 DEF Protocol, ExecuteOrders, EvictOrders
  <2>4. OneYield'
    BY <1>1, <1>2, <2>1, <2>2 DEF Protocol, OneYield
  <2>5. Confirmations'
    BY <1>1, <1>2, <2>1 DEF Protocol, Confirmations
  <2> QED BY <2>3, <2>4, <2>5 DEF Protocol
<1>6. CASE m.op \in Syscalls
  <2>1. view'.idle = TRUE /\ view'.evicting = view.evicting
    BY <1>6 DEF Contract!cpu_handler, LinkTypes, Syscalls
  <2>2. ~NoYield /\ 1 \in DOMAIN fromCpu
    BY <1>1, <1>6 DEF NoYield
  <2>3. NoYield'
    BY <1>1, <1>2, <1>6, <2>2 DEF NoYield, Protocol, OneYield
  <2>4. running = NoProc
    BY <2>2 DEF Protocol, OneYield
  <2>5. ExecuteOrders'
    BY <1>1, <2>2 DEF Protocol, ExecuteOrders
  <2>6. EvictOrders'
    BY <1>1, <2>1 DEF Protocol, EvictOrders
  <2>7. OneYield'
    BY <2>3, <2>4 DEF OneYield, NoYield
  <2>8. Confirmations'
    BY <1>1, <1>2, <2>1 DEF Protocol, Confirmations
  <2> QED BY <2>5, <2>6, <2>7, <2>8 DEF Protocol
<1>7. CASE m.op = "CONFIRMATION"
  <2>1. 1 \in DOMAIN fromCpu
    BY <1>1
  <2>2. Len(fromCpu) = 1 /\ Inbox = <<>> /\ running = NoProc
    BY <1>1, <1>7, <2>1 DEF Protocol, Confirmations
  <2>3. fromCpu' = <<>>
    BY <1>1, <2>2
  <2> QED BY <1>1, <2>2, <2>3 DEF Protocol, ExecuteOrders, EvictOrders, OneYield,
      Confirmations, NoYield
<1>8. m.op \in {"PROCESS_CREATE", "CONFIRMATION"} \cup Syscalls
  BY <1>4 DEF Reports
<1> QED BY <1>5, <1>6, <1>7, <1>8

\* ... the CPU obeying an EXECUTE ...
LEMMA ProtocolExecute ==
    ASSUME LinkTypes, LinkTypes', Protocol, Contract!Execute
    PROVE  Protocol'
<1>1. /\ Inbox \in Seq(Orders) /\ Inbox # <<>> /\ Inbox[1].op = "PROCESS_EXECUTE" /\ Inbox' = Tail(Inbox)
      /\ UNCHANGED <<fromCpu, view>>
  BY DEF Contract!Execute, Contract!Order, LinkTypes
<1>2. ~view.idle /\ NoYield
  BY <1>1 DEF Protocol, ExecuteOrders
<1>3. \A i \in DOMAIN Inbox' : i + 1 \in DOMAIN Inbox /\ Inbox'[i] = Inbox[i + 1] /\ Inbox'[i].op # "PROCESS_EXECUTE"
  BY <1>1 DEF Protocol, ExecuteOrders
<1>4. ExecuteOrders'
  BY <1>3 DEF ExecuteOrders
<1>5. EvictOrders'
  BY <1>1, <1>3 DEF Protocol, EvictOrders
<1>6. OneYield'
  BY <1>1, <1>2 DEF Protocol, OneYield, NoYield
<1>7. \A i \in DOMAIN fromCpu : fromCpu[i].op # "CONFIRMATION"
  BY <1>1 DEF Protocol, Confirmations
<1>8. Confirmations'
  BY <1>1, <1>7 DEF Confirmations
<1> QED BY <1>4, <1>5, <1>6, <1>8 DEF Protocol

\* ... or an EVICT ...
LEMMA ProtocolEvict ==
    ASSUME LinkTypes, LinkTypes', Protocol, Contract!Evict
    PROVE  Protocol'
<1>1. /\ Inbox \in Seq(Orders) /\ Inbox # <<>> /\ Inbox[1].op = "PROCESS_EVICT" /\ Inbox' = Tail(Inbox)
      /\ running' = NoProc /\ fromCpu' = Append(fromCpu, Message("CONFIRMATION", NoProc)) /\ view' = view
  BY DEF Contract!Evict, Contract!Order, Contract!Message, Message, LinkTypes
<1>2. 1 \in DOMAIN Inbox /\ Len(Inbox) = 1 /\ view.evicting
  <2>1. 1 \in DOMAIN Inbox
    BY <1>1
  <2> QED BY <1>1, <2>1 DEF Protocol, EvictOrders
<1>3. Inbox' = <<>>
  BY <1>1, <1>2
<1>4. \A i \in DOMAIN fromCpu : fromCpu[i].op # "CONFIRMATION"
  BY <1>1 DEF Protocol, Confirmations
<1>5. Confirmations'
  BY <1>1, <1>2, <1>3, <1>4 DEF Confirmations, LinkTypes, Message
<1>6. ExecuteOrders' /\ EvictOrders'
  BY <1>3 DEF ExecuteOrders, EvictOrders
<1>7. NoYield => NoYield'
  BY <1>1 DEF NoYield, LinkTypes, Message, Syscalls
<1>8. OneYield'
  BY <1>1, <1>7 DEF Protocol, OneYield, LinkTypes, Message, Syscalls
<1> QED BY <1>5, <1>6, <1>8 DEF Protocol

\* ... and the messages of the running process.
LEMMA ProtocolSyscall ==
    ASSUME LinkTypes, LinkTypes', Protocol, Contract!Syscall
    PROVE  Protocol'
<1>1. PICK op \in Syscalls \cup {"PROCESS_CREATE"} :
         /\ fromCpu' = Append(fromCpu, Message(op, running))
         /\ running' = IF op \in Syscalls THEN NoProc ELSE running
  BY DEF Contract!Syscall, Contract!Message, Message, Contract!Syscalls, Syscalls
<1>2. running # NoProc /\ Inbox' = Inbox /\ view' = view
  BY DEF Contract!Syscall
<1>3. ~view.idle /\ NoYield
  BY <1>2 DEF Protocol, OneYield
<1>4. \A i \in DOMAIN Inbox : Inbox[i].op # "PROCESS_EXECUTE"
  BY <1>2 DEF Protocol, ExecuteOrders
<1>5. \A i \in DOMAIN fromCpu : fromCpu[i].op # "CONFIRMATION"
  BY <1>2 DEF Protocol, Confirmations
<1>6. ExecuteOrders' /\ EvictOrders'
  BY <1>2, <1>4 DEF Protocol, ExecuteOrders, EvictOrders
<1>7. /\ \A i \in DOMAIN fromCpu : i \in DOMAIN fromCpu' /\ fromCpu'[i] = fromCpu[i]
      /\ DOMAIN fromCpu' = 1 .. Len(fromCpu) + 1 /\ fromCpu'[Len(fromCpu) + 1].op = op
  BY <1>1 DEF LinkTypes, Message
<1>8. Confirmations'
  BY <1>5, <1>7 DEF Confirmations, LinkTypes, Syscalls
<1>9. OneYield'
  BY <1>1, <1>2, <1>3, <1>7 DEF OneYield, NoYield, LinkTypes
<1> QED BY <1>6, <1>8, <1>9 DEF Protocol

\* Every step of the contract keeps Protocol.
LEMMA ProtocolStep ==
    ASSUME LinkTypes, LinkTypes', Protocol, ContractStep
    PROVE  Protocol'
<1>1. CASE Contract!SchedulerStep /\ UNCHANGED running
  BY <1>1, ProtocolExecuteSent, ProtocolEvictSent,
      ProtocolReport DEF Contract!SchedulerStep
<1>2. CASE UNCHANGED Contract!contractVars
  BY <1>2 DEF Contract!contractVars, Contract!linkVars, Protocol, ExecuteOrders,
      EvictOrders, OneYield,
     Confirmations, NoYield
<1> QED BY <1>1, <1>2, ProtocolExecute, ProtocolEvict,
    ProtocolSyscall DEF ContractStep, Contract!ContractNext

-----------------------------------------------------------------------------
\* The scheduler knows that p ended, or will when it reads its socket.
Ended(p) == p \in view.ended \/ \E i \in DOMAIN fromCpu : fromCpu[i] = Message("PROCESS_END", p)
\* The execution thread holds the only newest context of its process: it has
\* not sent it to Kernel Memory yet.
Fresh == Executing /\ shouldEnd # "stop"

\* should_exit is set only after PROCESS_END was sent.
ExitEnds == shouldEnd = "exit" => Ended(exec.pid)

\* A context on its way to Kernel Memory.
IsTransfer(i) == toKm[i].kind = "CONTEXT_TRANSFER"

\* At most one context is on its way to Kernel Memory, it is the newest one,
\* and a CONTEXT_SEEK comes after it; the answer is the newest context.
KmRequests ==
    /\ Fresh => toKm = <<>>
    /\ \A i \in DOMAIN toKm : toKm[i].kind = "CONTEXT_SEEK" =>
          i = Len(toKm) /\ handler.at = "context" /\ toKm[i].pid = handler.msg.pid
    /\ \A i \in DOMAIN toKm : IsTransfer(i) => i = 1 /\ toKm[i].ctx = latest[toKm[i].pid]
    /\ handler.at # "context" => answer = NoOrder
    /\ handler.at = "context" =>
          \/ answer = NoOrder /\ toKm # <<>> /\ toKm[Len(toKm)].kind = "CONTEXT_SEEK"
          \/ answer # NoOrder /\ toKm = <<>> /\ answer.ctx = latest[handler.msg.pid]

\* The newest context of a process that has not ended is in the execution
\* thread, on its way to Kernel Memory or stored there.
SavedOrSent ==
    \A p \in Proc : \/ Fresh /\ exec.pid = p
                    \/ Ended(p)
                    \/ \E i \in DOMAIN toKm : IsTransfer(i) /\ toKm[i].pid = p
                    \/ saved[p] = latest[p]

\* The invariant that makes ContextIsCurrent inductive.
CtxInv == ContextIsCurrent /\ ExitEnds /\ KmRequests /\ SavedOrSent

\* A process that ended stays ended.
LEMMA EndedStays ==
    ASSUME LocalInv, LocalInv', [Next]_vars, NEW p \in Proc, Ended(p)
    PROVE  Ended(p)'
<1> USE DEF LocalInv, Channels, Types, HandlerRecords, ExecRecords
<1>1. CASE fromCpu' = fromCpu /\ view'.ended = view.ended
  BY <1>1 DEF Ended
<1>2. ASSUME NEW m, fromCpu' = Append(fromCpu, m), view' = view
      PROVE  Ended(p)'
  <2>1. \A i \in DOMAIN fromCpu : i \in DOMAIN fromCpu' /\ fromCpu'[i] = fromCpu[i]
    BY <1>2
  <2> QED BY <1>2, <2>1 DEF Ended
<1>3. CASE cpu_handler
  <2>1. fromCpu # <<>> /\ fromCpu' = Tail(fromCpu) /\ Head(fromCpu) = fromCpu[1]
    BY <1>3 DEF cpu_handler
  <2>2. view.ended \subseteq view'.ended
    <3>1. fromCpu[1].op \in {"PROCESS_CREATE", "CONFIRMATION"} \cup Syscalls
      BY <2>1 DEF Reports
    <3> QED BY <1>3, <2>1, <3>1 DEF cpu_handler, Syscalls
  <2>3. CASE p \in view.ended
    BY <2>2, <2>3 DEF Ended
  <2>4. ASSUME NEW i \in DOMAIN fromCpu, fromCpu[i] = Message("PROCESS_END", p)
        PROVE  Ended(p)'
    <3>1. CASE i = 1
      <4>1. Head(fromCpu).op = "PROCESS_END" /\ Head(fromCpu).pid = p
        BY <2>1, <2>4, <3>1 DEF Message
      <4>2. view' = [view EXCEPT !.idle = TRUE, !.pid = NoProc, !.ended = @ \cup {p}]
        BY <1>3, <4>1 DEF cpu_handler
      <4> QED BY <4>2 DEF Ended
    <3>2. CASE i # 1
      <4>1. i - 1 \in DOMAIN Tail(fromCpu) /\ Tail(fromCpu)[i - 1] = fromCpu[i]
        BY <2>1, <2>4, <3>2
      <4> QED BY <2>1, <2>4, <4>1 DEF Ended
    <3> QED BY <3>1, <3>2
  <2> QED BY <2>3, <2>4 DEF Ended
<1>4. CASE Scheduler
  BY <1>1, <1>3, <1>4 DEF Scheduler, SchedulerStep, send_pid_to_execute,
      send_process_evict
<1>5. CASE HandlerStep
  <2>1. CASE EvictIdle \/ WaitEvictionReady
    BY <1>2, <2>1 DEF EvictIdle, WaitEvictionReady, Confirm, ToScheduler
  <2>2. CASE ReceiveExecute \/ ReceiveEvict
    BY <1>1, <2>2 DEF ReceiveExecute, ReceiveEvict
  <2>3. CASE WaitExecutionFinished \/ ContextSeek \/ StartExecution \/ EvictBusy
    BY <1>1, <2>3 DEF WaitExecutionFinished, ContextSeek, StartExecution, EvictBusy,
        linkVars
  <2> QED BY <1>5, <2>1, <2>2, <2>3 DEF HandlerStep
<1>6. CASE ExecStep
  <2>1. CASE InstructionExit \/ \E op \in {"SLEEP", "MEM_ALLOC"} : SyscallNotify(op)
    BY <1>2, <2>1 DEF InstructionExit, SyscallNotify, ExecUnchanged, ToScheduler
  <2>2. ASSUME NEW c \in Ctx, NEW creates \in BOOLEAN, Instruction(c, creates)
        PROVE  Ended(p)'
    BY <1>1, <1>2, <2>2 DEF Instruction, ExecUnchanged, ToScheduler
  <2>3. CASE ReadInterrupt \/ Leave \/ Stay \/ CheckInterrupt
    BY <1>1, <2>3 DEF ReadInterrupt, Leave, Stay, CheckInterrupt, ExecUnchanged
  <2>4. CASE SaveContext \/ ResetInterrupt \/ \E c \in Ctx : SyscallContext(c)
    BY <1>1, <2>4 DEF SaveContext, ResetInterrupt, SyscallContext, ExecUnchanged
  <2>5. CASE EndExecution \/ PostFinished
    BY <1>1, <2>5 DEF EndExecution, PostFinished, linkVars
  <2> QED BY <1>6, <2>1, <2>2, <2>3, <2>4, <2>5 DEF ExecStep
<1>7. CASE KernelMemory \/ UNCHANGED vars
  BY <1>1, <1>7 DEF KernelMemory, vars, linkVars
<1> QED BY <1>4, <1>5, <1>6, <1>7 DEF Next

\* CtxInv does not depend on the flags and semaphores.
LEMMA CtxFrame ==
    ASSUME LocalInv, LocalInv', [Next]_vars, CtxInv, UNCHANGED <<toKm, answer, saved, latest, exec.pid, exec.ctx>>,
           Executing' => Executing, Fresh' = Fresh, shouldEnd' \in {shouldEnd, "no"},
           UNCHANGED handler \/ (handler.at # "context" /\ handler'.at # "context")
    PROVE  CtxInv'
<1>1. \A p \in Proc : Ended(p) => Ended(p)'
  BY EndedStays
<1>2. ContextIsCurrent'
  BY DEF CtxInv, ContextIsCurrent
<1>3. ExitEnds'
  BY <1>1, ExecIsForProcess DEF CtxInv, ExitEnds, LocalInv, Threads, EndFlag
<1>4. KmRequests'
  BY DEF CtxInv, KmRequests, IsTransfer
<1>5. SavedOrSent'
  BY <1>1 DEF CtxInv, SavedOrSent, IsTransfer
<1> QED BY <1>2, <1>3, <1>4, <1>5 DEF CtxInv

\* A process whose context is asked for has not ended: this is where the
\* protocol with the scheduler is needed.
LEMMA NotEnded ==
    ASSUME LocalInv, Protocol, handler.at = "context"
    PROVE  ~Ended(handler.msg.pid)
<1>1. handler.msg # NoOrder /\ handler.msg.op = "PROCESS_EXECUTE" /\ handler.msg \in Orders
  BY DEF LocalInv, Types, HandlerRecords, ExecRecords, Threads, OrderInHand
<1>2. 1 \in DOMAIN Inbox /\ Inbox[1] = handler.msg
  BY <1>1 DEF Inbox, LocalInv, Channels
<1>3. handler.msg.pid \notin view.ended /\ NoYield
  BY <1>1, <1>2 DEF Protocol, ExecuteOrders
<1> QED BY <1>3 DEF Ended, NoYield, Message, Syscalls

\* Each step keeps CtxInv: Kernel Memory ...
LEMMA CtxKernelMemory ==
    ASSUME LocalInv, LocalInv', Protocol, CtxInv, KernelMemory
    PROVE  CtxInv'
<1>1. /\ toKm # <<>> /\ toKm' = Tail(toKm) /\ Head(toKm) = toKm[1] /\ toKm[1] \in Contexts
      /\ 1 \in DOMAIN toKm
      /\ \A i \in DOMAIN toKm' : i + 1 \in DOMAIN toKm /\ i + 1 # 1 /\ toKm'[i] = toKm[i + 1]
      /\ Len(toKm') = Len(toKm) - 1
  BY DEF KernelMemory, LocalInv, Channels
<1>2. UNCHANGED <<linkVars, handler, exec, shouldEnd, latest>>
  BY DEF KernelMemory, handlerVars, execVars
<1>3. Fresh' = Fresh /\ ~Fresh /\ \A p \in Proc : Ended(p)' = Ended(p)
  BY <1>1, <1>2 DEF Fresh, Executing, Ended, linkVars, CtxInv, KmRequests
<1>4. ContextIsCurrent' /\ ExitEnds'
  BY <1>2 DEF CtxInv, ContextIsCurrent, ExitEnds, Executing, Ended, linkVars
<1>5. \A i \in DOMAIN toKm' : ~IsTransfer(i)'
  BY <1>1 DEF CtxInv, KmRequests, IsTransfer, Contexts
<1>6. CASE toKm[1].kind = "CONTEXT_TRANSFER"
  <2>1. /\ saved' = [saved EXCEPT ![toKm[1].pid] = toKm[1].ctx] /\ answer' = answer
        /\ toKm[1].ctx = latest[toKm[1].pid]
    BY <1>1, <1>6 DEF KernelMemory, CtxInv, KmRequests, IsTransfer
  <2>2. handler.at = "context" => Len(toKm) # 1 /\ answer = NoOrder
    BY <1>1, <1>6 DEF CtxInv, KmRequests
  <2>3. handler.at = "context" => toKm' # <<>> /\ toKm'[Len(toKm')].kind = "CONTEXT_SEEK"
    <3>1. ASSUME handler.at = "context"
          PROVE  Len(toKm') \in DOMAIN toKm' /\ Len(toKm') + 1 = Len(toKm)
      BY <1>1, <2>2, <3>1 DEF LocalInv, Channels
    <3> QED BY <1>1, <3>1 DEF CtxInv, KmRequests
  <2>4. \A i \in DOMAIN toKm' : toKm'[i].kind = "CONTEXT_SEEK" =>
            i = Len(toKm') /\ handler'.at = "context" /\ toKm'[i].pid = handler'.msg.pid
    BY <1>1, <1>2 DEF CtxInv, KmRequests, LocalInv, Channels
  <2>5. KmRequests'
    BY <1>2, <1>3, <1>5, <2>1, <2>2, <2>3, <2>4 DEF CtxInv, KmRequests
  <2>6. SavedOrSent'
    BY <1>1, <1>2, <1>3, <2>1 DEF CtxInv, SavedOrSent, IsTransfer, KmRequests,
        LocalInv, Types, HandlerRecords, ExecRecords
  <2> QED BY <1>4, <2>5, <2>6 DEF CtxInv
<1>7. CASE toKm[1].kind # "CONTEXT_TRANSFER"
  <2>1. toKm[1].kind = "CONTEXT_SEEK"
    BY <1>1, <1>7 DEF Contexts
  <2>2. /\ handler.at = "context" /\ toKm[1].pid = handler.msg.pid
        /\ DOMAIN toKm = {1} /\ toKm' = <<>>
    <3>1. 1 = Len(toKm) /\ handler.at = "context" /\ toKm[1].pid = handler.msg.pid
      BY <1>1, <2>1 DEF CtxInv, KmRequests
    <3>2. DOMAIN toKm = {1} /\ Len(toKm') = 0
      BY <1>1, <3>1 DEF LocalInv, Channels
    <3> QED BY <3>1, <3>2 DEF LocalInv, Channels
  <2>3. answer' = [pid |-> handler.msg.pid, ctx |-> saved[handler.msg.pid]] /\ saved' = saved
    BY <1>1, <1>7, <2>2 DEF KernelMemory
  <2>4. handler.msg.pid \in Proc
    BY <2>2, OrderIsForProcess
  <2>5. answer' # NoOrder
    BY <2>3, <2>4, LinkAssumption DEF NoOrder, Message
  <2>6. saved[handler.msg.pid] = latest[handler.msg.pid]
    BY <1>3, <1>7, <2>2, <2>4, NotEnded DEF CtxInv, SavedOrSent, IsTransfer, LocalInv,
        Channels
  <2>7. KmRequests'
    BY <1>2, <2>2, <2>3, <2>5, <2>6 DEF KmRequests
  <2>8. SavedOrSent'
    <3> SUFFICES ASSUME NEW p \in Proc, ~Ended(p) PROVE saved[p] = latest[p]
      BY <1>2, <1>3, <2>3 DEF SavedOrSent
    <3> QED BY <1>3, <1>7, <2>2 DEF CtxInv, SavedOrSent, IsTransfer
  <2> QED BY <1>4, <2>7, <2>8 DEF CtxInv
<1> QED BY <1>6, <1>7

\* ... CONTEXT_SEEK and the thread it starts ...
LEMMA CtxContextSeek ==
    ASSUME LocalInv, LocalInv', CtxInv, [Next]_vars, ContextSeek
    PROVE  CtxInv'
<1> DEFINE seek == [kind |-> "CONTEXT_SEEK", pid |-> handler.msg.pid, ctx |-> Ctx0]
<1>1. /\ handler.at = "seek" /\ handler' = [handler EXCEPT !.at = "context"]
      /\ UNCHANGED <<linkVars, exec, shouldEnd, latest, answer, saved>>
  BY DEF ContextSeek, execVars
<1>2. exec.at = "none" /\ ~Fresh /\ ~Fresh' /\ ~Executing /\ ~Executing'
  BY <1>1 DEF LocalInv, Threads, OneThread, Starting, Fresh, Executing
<1>3. shouldEnd = "no" /\ handler'.at = "context" /\ handler'.msg = handler.msg
  BY <1>1, <1>2 DEF LocalInv, Threads, EndFlag, Types, HandlerRecords, ExecRecords
<1>4. toKm' = Append(toKm, seek) /\ seek \in Contexts
  BY <1>1, OrderIsForProcess, CpuAssumption DEF ContextSeek, Contexts
<1>5. /\ DOMAIN toKm' = 1 .. Len(toKm) + 1 /\ Len(toKm') = Len(toKm) + 1 /\ toKm' # <<>>
      /\ \A i \in DOMAIN toKm : i \in DOMAIN toKm' /\ toKm'[i] = toKm[i]
      /\ toKm'[Len(toKm) + 1] = seek /\ Len(toKm) \in Nat /\ DOMAIN toKm = 1 .. Len(toKm)
  <2>1. Len(toKm) \in Nat /\ DOMAIN toKm = 1 .. Len(toKm)
    BY DEF LocalInv, Channels
  <2> HIDE DEF seek
  <2>2. /\ Len(toKm') = Len(toKm) + 1 /\ toKm'[Len(toKm) + 1] = seek
        /\ \A i \in 1 .. Len(toKm) : toKm'[i] = toKm[i]
    BY <1>4 DEF LocalInv, Channels
  <2>3. DOMAIN toKm' = 1 .. Len(toKm')
    BY DEF LocalInv, Channels
  <2>4. toKm' # <<>>
    BY <2>1, <2>2
  <2> QED BY <2>1, <2>2, <2>3, <2>4
<1>6. \A i \in DOMAIN toKm : toKm[i].kind # "CONTEXT_SEEK"
  BY <1>1 DEF CtxInv, KmRequests
<1>7. \A i \in DOMAIN toKm' : i \in DOMAIN toKm \/ i = Len(toKm')
  BY <1>5
<1>8. KmRequests'
  <2>1. \A i \in DOMAIN toKm' : toKm'[i].kind = "CONTEXT_SEEK" =>
            i = Len(toKm') /\ handler'.at = "context" /\ toKm'[i].pid = handler'.msg.pid
    BY <1>3, <1>5, <1>6, <1>7
  <2>2. \A i \in DOMAIN toKm' : IsTransfer(i)' => i = 1 /\ toKm'[i].ctx = latest'[toKm'[i].pid]
    BY <1>1, <1>5, <1>7 DEF CtxInv, KmRequests, IsTransfer
  <2>3. answer' = NoOrder
    BY <1>1 DEF CtxInv, KmRequests
  <2> QED BY <1>2, <1>3, <1>5, <2>1, <2>2, <2>3 DEF KmRequests
<1>9. SavedOrSent'
  BY <1>1, <1>2, <1>5, EndedStays DEF CtxInv, SavedOrSent, IsTransfer
<1>10. ContextIsCurrent' /\ ExitEnds'
  BY <1>1, <1>2, <1>3 DEF ContextIsCurrent, ExitEnds
<1> QED BY <1>8, <1>9, <1>10 DEF CtxInv

\* The thread starts with the newest context.
LEMMA CtxStartExecution ==
    ASSUME LocalInv, LocalInv', CtxInv, [Next]_vars, StartExecution
    PROVE  CtxInv'
<1>1. /\ handler.at = "context" /\ handler'.at = "receive" /\ answer # NoOrder /\ answer' = NoOrder
      /\ exec'.at = "top" /\ exec'.pid = handler.msg.pid /\ exec'.ctx = answer.ctx
      /\ UNCHANGED <<shouldEnd, latest, saved, toKm>>
  BY DEF StartExecution
<1>2. exec.at = "none" /\ shouldEnd = "no" /\ ~Fresh /\ Fresh'
  BY <1>1 DEF LocalInv, Threads, OneThread, Starting, EndFlag, Fresh, Executing
<1>3. toKm = <<>> /\ answer.ctx = latest[handler.msg.pid]
  BY <1>1 DEF CtxInv, KmRequests
<1>4. ContextIsCurrent' /\ ExitEnds' /\ KmRequests'
  BY <1>1, <1>2, <1>3 DEF ContextIsCurrent, ExitEnds, KmRequests
<1>5. SavedOrSent'
  BY <1>1, <1>2, EndedStays DEF CtxInv, SavedOrSent, IsTransfer
<1> QED BY <1>4, <1>5 DEF CtxInv

\* ... the handler ...
LEMMA CtxHandler ==
    ASSUME LocalInv, LocalInv', CtxInv, [Next]_vars, HandlerStep
    PROVE  CtxInv'
<1> USE DEF execVars, kmVars, Executing, Fresh
<1>1. CASE ReceiveExecute
  BY <1>1, CtxFrame DEF ReceiveExecute, Receive
<1>2. CASE WaitExecutionFinished
  <2>1. handler.at # "context" /\ handler'.at # "context"
    BY <1>2 DEF WaitExecutionFinished, LocalInv, Types, HandlerRecords, ExecRecords
  <2> QED BY <1>2, <2>1, CtxFrame DEF WaitExecutionFinished
<1>3. CASE ReceiveEvict
  BY <1>3, CtxFrame DEF ReceiveEvict, Receive
<1>4. CASE EvictIdle
  BY <1>4, CtxFrame DEF EvictIdle, Confirm
<1>5. CASE EvictBusy
  <2>1. handler.at # "context" /\ handler'.at # "context"
    BY <1>5 DEF EvictBusy, LocalInv, Types, HandlerRecords, ExecRecords
  <2> QED BY <1>5, <2>1, CtxFrame DEF EvictBusy
<1>6. CASE WaitEvictionReady
  BY <1>6, CtxFrame DEF WaitEvictionReady, Confirm
<1> QED BY <1>1, <1>2, <1>3, <1>4, <1>5, <1>6, CtxContextSeek,
    CtxStartExecution DEF HandlerStep

\* At an instruction, and at an eviction, nothing is under way to Kernel
\* Memory.
LEMMA CtxAtFetch ==
    ASSUME LocalInv, CtxInv, exec.at \in {"fetch", "save"}
    PROVE  /\ shouldEnd = "no" /\ Fresh /\ toKm = <<>> /\ answer = NoOrder
           /\ handler.at # "context" /\ exec.pid \in Proc
           /\ \A p \in Proc : p = exec.pid \/ Ended(p) \/ saved[p] = latest[p]
<1>1. shouldEnd = "no" /\ Fresh /\ exec.pid \in Proc /\ handler.at # "context"
  BY DEF LocalInv, Threads, EndFlag, OneThread, Gone, Starting, Fresh, Executing
<1> QED BY <1>1 DEF CtxInv, KmRequests, SavedOrSent

\* An instruction makes a newer context, in the thread that ran it.
LEMMA CtxInstruction ==
    ASSUME LocalInv, LocalInv', CtxInv, [Next]_vars, NEW c \in Ctx, NEW creates \in BOOLEAN,
           Instruction(c, creates)
    PROVE  CtxInv'
<1>1. /\ exec.at = "fetch" /\ exec'.at = "check" /\ exec'.ctx = c /\ exec'.pid = exec.pid
      /\ latest' = [latest EXCEPT ![exec.pid] = c]
      /\ UNCHANGED <<handler, shouldEnd, toKm, answer, saved>>
  BY DEF Instruction, ExecUnchanged, handlerVars, LocalInv, Types, HandlerRecords,
      ExecRecords
<1>2. Fresh'
  BY <1>1, CtxAtFetch DEF Fresh, Executing
<1>3. ContextIsCurrent' /\ ExitEnds' /\ KmRequests'
  BY <1>1, <1>2, CtxAtFetch DEF ContextIsCurrent, ExitEnds, KmRequests, LocalInv,
      Types, HandlerRecords, ExecRecords
<1>4. SavedOrSent'
  BY <1>1, <1>2, CtxAtFetch, EndedStays DEF SavedOrSent, LocalInv, Types,
      HandlerRecords, ExecRecords
<1> QED BY <1>3, <1>4 DEF CtxInv

\* The context is sent before a syscall and at an eviction.
LEMMA CtxSent ==
    ASSUME LocalInv, LocalInv', CtxInv, [Next]_vars, NEW c \in Ctx, exec.at \in {"fetch", "save"},
           ContextSend(exec.pid, c), latest' = [latest EXCEPT ![exec.pid] = c],
           exec'.ctx = c, exec'.pid = exec.pid, ~Fresh', shouldEnd' # "exit",
           UNCHANGED <<handler, answer, saved>>
    PROVE  CtxInv'
<1> DEFINE sent == [kind |-> "CONTEXT_TRANSFER", pid |-> exec.pid, ctx |-> c]
<1>1. DOMAIN toKm' = {1} /\ toKm'[1] = sent
  <2>1. Len(toKm) = 0 /\ toKm' = Append(toKm, sent) /\ sent \in Contexts
    BY CtxAtFetch DEF ContextSend, Contexts
  <2> HIDE DEF sent
  <2>2. Len(toKm') = 1 /\ toKm'[1] = sent
    BY <2>1 DEF LocalInv, Channels
  <2> QED BY <2>2 DEF LocalInv, Channels
<1>2. toKm'[1].kind = "CONTEXT_TRANSFER" /\ toKm'[1].pid = exec.pid /\ toKm'[1].ctx = c
  BY <1>1
<1>3. latest'[exec.pid] = c /\ \A p \in Proc : p # exec.pid => latest'[p] = latest[p]
  BY CtxAtFetch DEF LocalInv, Types, HandlerRecords, ExecRecords
<1>4. ContextIsCurrent' /\ ExitEnds' /\ KmRequests'
  BY <1>1, <1>2, <1>3, CtxAtFetch DEF ContextIsCurrent, ExitEnds, KmRequests, IsTransfer
<1>5. SavedOrSent'
  BY <1>1, <1>2, <1>3, CtxAtFetch, EndedStays DEF SavedOrSent, IsTransfer
<1> QED BY <1>4, <1>5 DEF CtxInv

\* The process ends, and its thread leaves.
LEMMA CtxExit ==
    ASSUME LocalInv, LocalInv', CtxInv, [Next]_vars, InstructionExit
    PROVE  CtxInv'
<1>1. /\ exec.at = "fetch" /\ exec'.at = "top" /\ exec'.ctx = exec.ctx /\ exec'.pid = exec.pid
      /\ shouldEnd' = "exit" /\ fromCpu' = Append(fromCpu, Message("PROCESS_END", exec.pid))
      /\ UNCHANGED <<handler, latest, toKm, answer, saved>>
  BY DEF InstructionExit, ExecUnchanged, handlerVars, LocalInv, Types, HandlerRecords,
      ExecRecords, ToScheduler
<1>2. exec.pid \in Proc /\ Fresh /\ Fresh' /\ Executing
  BY <1>1, CtxAtFetch DEF Fresh, Executing
<1>3. Len(fromCpu) + 1 \in DOMAIN fromCpu' /\ fromCpu'[Len(fromCpu) + 1] = Message("PROCESS_END", exec.pid)
  <2>1. Message("PROCESS_END", exec.pid) \in Reports
    BY <1>2, MessageTypes DEF Syscalls
  <2> QED BY <1>1, <2>1 DEF LocalInv, Channels
<1>4. ExitEnds'
  BY <1>1, <1>3 DEF ExitEnds, Ended
<1>5. ContextIsCurrent' /\ KmRequests'
  BY <1>1, <1>2, CtxAtFetch DEF CtxInv, ContextIsCurrent, KmRequests
<1>6. SavedOrSent'
  BY <1>1, <1>2, CtxAtFetch, EndedStays DEF SavedOrSent
<1> QED BY <1>4, <1>5, <1>6 DEF CtxInv

\* A thread that leaves has sent its context, or its process ended.
LEMMA CtxLeave ==
    ASSUME LocalInv, LocalInv', CtxInv, [Next]_vars, Leave
    PROVE  CtxInv'
<1>1. /\ exec.at = "decide" /\ shouldEnd # "no" /\ exec'.at = "end" /\ exec'.pid = exec.pid
      /\ shouldEnd' = "no" /\ UNCHANGED <<handler, latest, toKm, answer, saved>>
  BY DEF Leave, ExecUnchanged, handlerVars, LocalInv, Types, HandlerRecords, ExecRecords
<1>2. ~Executing' /\ ~Fresh' /\ Executing /\ handler.at # "context" /\ exec.pid \in Proc
  BY <1>1 DEF Executing, Fresh, LocalInv, Threads, OneThread, Starting, Gone
<1>3. ContextIsCurrent' /\ ExitEnds'
  BY <1>1, <1>2 DEF ContextIsCurrent, ExitEnds
<1>4. KmRequests'
  BY <1>1, <1>2 DEF CtxInv, KmRequests, IsTransfer
<1>5. Fresh => Ended(exec.pid)
  BY <1>1 DEF Fresh, CtxInv, ExitEnds, LocalInv, Types, HandlerRecords, ExecRecords
<1>6. SavedOrSent'
  BY <1>1, <1>2, <1>5, EndedStays DEF CtxInv, SavedOrSent, IsTransfer
<1> QED BY <1>3, <1>4, <1>6 DEF CtxInv

\* ... and the execution thread.
LEMMA CtxExec ==
    ASSUME LocalInv, LocalInv', CtxInv, [Next]_vars, ExecStep
    PROVE  CtxInv'
<1>1. CASE ReadInterrupt \/ Stay
  BY <1>1, CtxFrame DEF ReadInterrupt, Stay, ExecUnchanged, handlerVars, LocalInv,
      Types, HandlerRecords, ExecRecords, Executing, Fresh
<1>2. CASE CheckInterrupt
  BY <1>2, CtxFrame DEF CheckInterrupt, ExecUnchanged, handlerVars, LocalInv, Types,
      HandlerRecords, ExecRecords,
      Executing, Fresh
<1>3. CASE ResetInterrupt
  BY <1>3, CtxFrame DEF ResetInterrupt, ExecUnchanged, handlerVars, LocalInv, Types,
      HandlerRecords, ExecRecords,
      Executing, Fresh
<1>4. CASE EndExecution
  BY <1>4, CtxFrame DEF EndExecution, kmVars, LocalInv, Types, HandlerRecords,
      ExecRecords, Executing, Fresh
<1>5. CASE PostFinished
  BY <1>5, CtxFrame DEF PostFinished, kmVars, handlerVars, LocalInv, Types,
      HandlerRecords, ExecRecords, Executing,
      Fresh
<1>6. ASSUME NEW op \in {"SLEEP", "MEM_ALLOC"}, SyscallNotify(op)
      PROVE  CtxInv'
  BY <1>6, CtxFrame DEF SyscallNotify, ExecUnchanged, handlerVars, LocalInv, Types,
      HandlerRecords, ExecRecords,
      Executing, Fresh
<1>7. ASSUME NEW c \in Ctx, SyscallContext(c)
      PROVE  CtxInv'
  <2>1. /\ exec.at = "fetch" /\ exec'.pid = exec.pid /\ exec'.ctx = c /\ shouldEnd' = "stop" /\ ~Fresh'
        /\ latest' = [latest EXCEPT ![exec.pid] = c] /\ ContextSend(exec.pid, c)
        /\ UNCHANGED <<handler, answer, saved>>
    BY <1>7 DEF SyscallContext, ExecUnchanged, handlerVars, LocalInv, Types,
        HandlerRecords, ExecRecords, Fresh
  <2> QED BY <1>7, <2>1, CtxSent
<1>8. CASE SaveContext
  <2>1. /\ exec.at = "save" /\ exec'.at = "reset" /\ exec'.pid = exec.pid /\ exec'.ctx = exec.ctx
        /\ ContextSend(exec.pid, exec.ctx) /\ exec.ctx \in Ctx
        /\ UNCHANGED <<handler, answer, saved, shouldEnd, latest>>
    BY <1>8 DEF SaveContext, ExecUnchanged, handlerVars, LocalInv, Types,
        HandlerRecords, ExecRecords
  <2>2. ~Fresh' /\ shouldEnd' # "exit"
    BY <2>1, CtxAtFetch DEF Fresh, Executing
  <2>3. exec.ctx = latest[exec.pid]
    BY <2>1 DEF CtxInv, ContextIsCurrent, Executing
  <2>4. latest' = [latest EXCEPT ![exec.pid] = exec.ctx]
    BY <2>1, <2>3 DEF LocalInv, Types, HandlerRecords, ExecRecords
  <2> QED BY <2>1, <2>2, <2>4, CtxSent
<1> QED BY <1>1, <1>2, <1>3, <1>4, <1>5, <1>6, <1>7, <1>8, CtxInstruction, CtxExit,
    CtxLeave DEF ExecStep

\* Every step keeps CtxInv.
LEMMA CtxStep ==
    ASSUME LocalInv, LocalInv', Protocol, CtxInv, [Next]_vars
    PROVE  CtxInv'
<1>1. CASE Scheduler
  BY <1>1, CtxFrame DEF Scheduler, handlerVars, execVars, kmVars, Executing, Fresh
<1>2. CASE UNCHANGED vars
  BY <1>2, CtxFrame DEF vars, handlerVars, execVars, kmVars, Executing, Fresh
<1> QED BY <1>1, <1>2, CtxHandler, CtxExec, CtxKernelMemory DEF Next

-----------------------------------------------------------------------------
\* TypeOK: no semaphore of a CPU counts beyond one, however many evictions and
\* executions it serves (sem_eviction_ready, sem_execution_finished).
THEOREM TypeTheorem ==
    ASSUME PromptEvict
    PROVE  Spec => []TypeOK
<1>1. LocalInv => TypeOK
  BY DEF LocalInv, Channels, Types, HandlerRecords, ExecRecords, Semaphores, TypeOK
<1> QED BY <1>1, LocalInvariance, PTL

\* NothingLeftOver: interruptPending, sem_eviction_ready and should_exit or
\* should_stop of one execution never reach the next.
THEOREM NothingLeftOverTheorem ==
    ASSUME PromptEvict
    PROVE  Spec => []NothingLeftOver
<1>1. LocalInv => NothingLeftOver
  BY DEF LocalInv, Threads, EndFlag, EvictionFlag, NothingLeftOver, Executing
<1> QED BY <1>1, LocalInvariance, PTL

\* The scheduler and the CPU keep Protocol: cpu_handler never reads a
\* confirmation that a later message of the CPU overtook, and a process is
\* never sent to execute where one runs.
THEOREM ProtocolTheorem ==
    ASSUME PromptEvict
    PROVE  Spec => []Protocol
<1>1. Init => Protocol
  BY DEF Init, LinkInit, Inbox, Protocol, ExecuteOrders, EvictOrders, OneYield,
      Confirmations, NoYield
<1>2. LocalInv /\ LocalInv' /\ Protocol /\ [Next]_vars => Protocol'
  <2> SUFFICES ASSUME LocalInv, LocalInv', Protocol, [Next]_vars PROVE Protocol'
    OBVIOUS
  <2>1. LinkTypes /\ LinkTypes'
    BY LinkTyped DEF LinkTypes, LocalInv, Channels, Types, HandlerRecords,
        ExecRecords, Inbox
  <2> QED BY <2>1, RefineStep, ProtocolStep
<1> QED BY <1>1, <1>2, LocalInvariance, PTL DEF Spec

\* ContextIsCurrent: on one CPU, neither instructions_cicle nor the two threads around
\* it make a process that comes back to it repeat or lose an instruction.
THEOREM ContextTheorem ==
    ASSUME PromptEvict
    PROVE  Spec => []ContextIsCurrent
<1>1. Init => CtxInv
  BY LinkAssumption DEF Init, CtxInv, ContextIsCurrent, ExitEnds, KmRequests,
      SavedOrSent, Fresh, Executing
<1>2. LocalInv /\ LocalInv' /\ Protocol /\ CtxInv /\ [Next]_vars => CtxInv'
  BY CtxStep
<1>3. CtxInv => ContextIsCurrent
  BY DEF CtxInv
<1> QED BY <1>1, <1>2, <1>3, LocalInvariance, ProtocolTheorem, PTL DEF Spec
=============================================================================
