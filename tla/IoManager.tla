------------------------------ MODULE IoManager ------------------------------
(***************************************************************************)
(* Input and output in the Kernel Scheduler: SLEEP, STDIN and STDOUT, the  *)
(* devices that serve them and may disconnect, the transfers with Kernel   *)
(* Memory, and the medium-term scheduler, which suspends processes while   *)
(* they wait.                                                              *)
(*                                                                         *)
(* Threads: the CPU handler that serves a system call (sysc), one          *)
(* io_handler per device (hpc), the kernel_memory_handler (kh), the        *)
(* suspension_manager (suspending), and one detached thread per STDIN      *)
(* whose data are being written (writers).  A step ends where a thread     *)
(* releases a mutex that another thread's step may take, or sends.  Both   *)
(* directions of a socket are FIFO sequences, all of them bounded, since a *)
(* process has one request at a time.                                      *)
(* How a READY process gets a CPU is in Dispatch; a process that waits for *)
(* a mutex is suspended in the same way (MutexManager).  No compaction     *)
(* runs: can_schedule is true.                                             *)
(***************************************************************************)
EXTENDS Naturals, Sequences, FiniteSets, SequencesExt

CONSTANTS Proc,
          Device, NoDevice,
          Type,        \* [Device -> IoTypes], the argument of each IO module
          Program,     \* [Proc -> SUBSET Syscalls], the calls a program makes
          Priority,    \* [Proc -> Nat], effective_priority
          Fixed,       \* the devices that connect before any process runs, and stay;
                       \* the others join, and may disconnect, at any time
          \* Bounds: [Proc -> Nat], the system calls of each process; rounds of
          \* suspension_manager that suspend; MEMORY_UPDATE messages.
          MaxCalls, MaxSuspensions, MaxUpdates

IoTypes == {"SLEEP", "STDIN", "STDOUT"}
Syscalls == IoTypes \cup {"STDIN_0"}      \* STDIN_0: STDIN of 0 bytes

ASSUME IoAssumption ==
    /\ NoDevice \notin Device
    /\ Type \in [Device -> IoTypes]
    /\ Fixed \subseteq Device
    \* at most one of each type, so that their order in list is fixed too
    /\ \A d, e \in Fixed : Type[d] = Type[e] => d = e
    /\ Program \in [Proc -> SUBSET Syscalls]
    /\ Priority \in [Proc -> Nat]
    /\ MaxCalls \in [Proc -> Nat] /\ MaxSuspensions \in Nat /\ MaxUpdates \in Nat

VARIABLES
    state,      \* t_process.state
    queued,     \* how often a process is in the ready queue
    blocked,    \* how often a process is in block_processes
    suspended,  \* suspended_processes
    suspending, \* to_suspend_list: SWAP_OUT not sent yet
    sysc,       \* where the handler of its CPU is in a process's IO call
    list,       \* list_io_sleep, list_io_stdin, list_io_stdout
    avail,      \* is_available of a device
    pend,       \* pending_request_io_sleep, _stdin, _stdout
    reading,    \* pending_io_stdin_reading
    hpc,        \* where the io_handler of a device is
    alive,      \* the device's process runs
    inbox,      \* requests on their way to a device
    outbox,     \* its answers
    writers,    \* the threads in wait_memory_write_confirmation
    memSem,     \* t_process.memory_request_sem
    kh,         \* where the kernel_memory_handler is
    kmIn,       \* messages to Kernel Memory
    kmOut,      \* messages from Kernel Memory
    swapped,    \* list_suspended_processes of Kernel Memory
    ended,      \* the processes PROCESS_END removed from Kernel Memory
    used,       \* how much of each bound was used
    lost        \* history: processes whose request went with a device

procs == <<state, queued, blocked>>
medium == <<suspended, suspending>>
devices == <<hpc, alive, inbox, outbox, list>>
memory == <<swapped, ended>>
vars == <<state, queued, blocked, suspended, suspending, sysc, list, avail, pend,
          reading, hpc, alive, inbox, outbox, writers, memSem, kh, kmIn, kmOut,
          swapped, ended, used, lost>>

States == {"READY", "EXEC", "BLOCK", "SUSP_BLOCK", "SUSP_READY", "EXIT"}

\* Program points.  A thread works for pid, or has chosen dev for it.
NoCall == [at |-> "idle", type |-> "SLEEP", dev |-> NoDevice]
At(point) == [at |-> point, pids |-> <<>>]
For(point, p) == [at |-> point, pids |-> <<p>>]
KhIdle == [at |-> "idle", pids |-> <<>>, dev |-> NoDevice, seen |-> "READY"]

Request(op, pids) == [op |-> op, pids |-> pids]
Answer(op, pids, ok) == [op |-> op, pids |-> pids, ok |-> ok]

Init ==
    /\ state = [p \in Proc |-> "READY"]
    /\ queued = [p \in Proc |-> 1]
    /\ blocked = [p \in Proc |-> 0]
    /\ suspended = <<>> /\ suspending = {}
    /\ sysc = [p \in Proc |-> NoCall]
    /\ list = [t \in IoTypes |->
                 IF \E d \in Fixed : Type[d] = t THEN <<CHOOSE d \in Fixed : Type[d] = t>> ELSE <<>>]
    /\ avail = [d \in Device |-> d \in Fixed]
    /\ pend = [t \in IoTypes |-> <<>>]
    /\ reading = {}
    /\ hpc = [d \in Device |-> IF d \in Fixed THEN At("recv") ELSE At("off")]
    /\ alive = [d \in Device |-> d \in Fixed]
    /\ inbox = [d \in Device |-> <<>>]
    /\ outbox = [d \in Device |-> <<>>]
    /\ writers = [p \in Proc |-> 0]
    /\ memSem = [p \in Proc |-> 0]
    /\ kh = KhIdle
    /\ kmIn = <<>> /\ kmOut = <<>>
    /\ swapped = {} /\ ended = {}
    /\ used = [calls |-> [p \in Proc |-> 0], suspensions |-> 0, updates |-> 0]
    /\ lost = {}

-----------------------------------------------------------------------------
(* Helpers of utils.c and net_utils.c.                                     *)

\* Fault: removes an element that need not be there.
RemoveOne_Blind(bag, p) == [bag EXCEPT ![p] = @ - 1]

\* list_remove_element: one occurrence, if there is one.
RemoveOne(bag, p) == [bag EXCEPT ![p] = IF @ > 0 THEN @ - 1 ELSE 0]
FirstIn(S) == CHOOSE i \in S : \A j \in S : i <= j

\* Fault: the ready queue is joined whether suspended or not.
WakeUp_AlwaysQueued(p) ==
    /\ state' = [state EXCEPT ![p] = IF @ = "SUSP_BLOCK" THEN "SUSP_READY" ELSE "READY"]
    /\ queued' = [queued EXCEPT ![p] = @ + 1]
    /\ blocked' = RemoveOne(blocked, p)

\* process_set_ready, the removal from block_processes, and the ready queue
\* unless the process is suspended; all under scheduler_mutex.
WakeUp(p) ==
    /\ state' = [state EXCEPT ![p] = IF @ = "SUSP_BLOCK" THEN "SUSP_READY" ELSE "READY"]
    /\ queued' = [queued EXCEPT ![p] = IF state'[p] = "READY" THEN @ + 1 ELSE @]
    /\ blocked' = RemoveOne(blocked, p)

get_available_io_type(t) ==
    LET free == {i \in DOMAIN list[t] : avail[list[t][i]]}
    IN  IF free = {} THEN NoDevice ELSE list[t][FirstIn(free)]

\* Fault: without a device the request is dropped.
TakeDevice_Dropped(p, t) ==
    LET d == get_available_io_type(t)
    IN  /\ avail' = IF d = NoDevice THEN avail ELSE [avail EXCEPT ![d] = FALSE]
        /\ UNCHANGED pend

\* Under io_mutex: the first available device is taken, or p queues for one.
TakeDevice(p, t) ==
    LET d == get_available_io_type(t)
    IN  IF d = NoDevice
        THEN pend' = [pend EXCEPT ![t] = Append(@, p)] /\ UNCHANGED avail
        ELSE avail' = [avail EXCEPT ![d] = FALSE] /\ UNCHANGED pend

\* io_numeric_process_send, io_string_process_send: what is sent to a device
\* that has gone, or whose t_client_info was freed, does not arrive.
Deliver(p, d) ==
    IF alive[d]
    THEN inbox' = [inbox EXCEPT ![d] = Append(@, p)] /\ UNCHANGED lost
    ELSE lost' = lost \cup {p} /\ UNCHANGED inbox

-----------------------------------------------------------------------------
(* A process gets a CPU and makes a system call.                           *)

Dispatch(p) ==
    /\ used.calls[p] < MaxCalls[p]
    /\ used' = [used EXCEPT !.calls[p] = @ + 1]
    /\ state[p] = "READY" /\ queued[p] > 0
    /\ state' = [state EXCEPT ![p] = "EXEC"]
    /\ queued' = [queued EXCEPT ![p] = @ - 1]
    /\ UNCHANGED <<blocked, medium, sysc, avail, pend, reading, devices, writers,
                   memSem, kh, kmIn, kmOut, memory, lost>>

Block(p) ==
    /\ state[p] = "EXEC"
    /\ state' = [state EXCEPT ![p] = "BLOCK"]
    /\ blocked' = [blocked EXCEPT ![p] = @ + 1]
    /\ UNCHANGED <<queued, medium, avail, pend, reading, devices, writers, memSem,
                   kh, kmIn, kmOut, memory, used, lost>>

sleep_syscall_manager(p) ==
    /\ "SLEEP" \in Program[p]
    /\ Block(p)
    /\ sysc' = [sysc EXCEPT ![p] = [at |-> "assign", type |-> "SLEEP", dev |-> NoDevice]]

\* 0 bytes end the process; its CPU is neither cleared nor released.
stdin_syscall_manager(p) ==
    \/ /\ "STDIN" \in Program[p]
       /\ Block(p)
       /\ sysc' = [sysc EXCEPT ![p] = [at |-> "assign", type |-> "STDIN", dev |-> NoDevice]]
    \/ /\ "STDIN_0" \in Program[p]
       /\ state[p] = "EXEC"
       /\ state' = [state EXCEPT ![p] = "EXIT"]
       /\ kmIn' = Append(kmIn, Request("PROCESS_END", <<p>>))
       /\ UNCHANGED <<queued, blocked, medium, sysc, avail, pend, reading, devices,
                      writers, memSem, kh, kmOut, memory, used, lost>>

stdout_syscall_manager(p) ==
    /\ "STDOUT" \in Program[p]
    /\ Block(p)
    /\ sysc' = [sysc EXCEPT ![p] = [at |-> "read", type |-> "STDOUT", dev |-> NoDevice]]

\* send_memory_read, after scheduler_mutex was released.
SendMemoryRead(p) ==
    /\ sysc[p].at = "read"
    /\ kmIn' = Append(kmIn, Request("IO_MEMORY_READ", <<p>>))
    /\ sysc' = [sysc EXCEPT ![p] = NoCall]
    /\ UNCHANGED <<procs, medium, avail, pend, reading, devices, writers, memSem,
                   kh, kmOut, memory, used, lost>>

\* SLEEP and STDIN: the critical section of io_mutex.  A STDIN is entered in
\* pending_io_stdin_reading before.
AssignDevice(p) ==
    LET t == sysc[p].type
        d == get_available_io_type(t)
    IN  /\ sysc[p].at = "assign"
        /\ TakeDevice(p, t)
        /\ sysc' = [sysc EXCEPT ![p] = IF d = NoDevice THEN NoCall
                                       ELSE [at |-> "send", type |-> t, dev |-> d]]
        /\ reading' = IF t = "STDIN" THEN reading \cup {p} ELSE reading
        /\ UNCHANGED <<procs, medium, devices, writers, memSem, kh, kmIn, kmOut, memory, used, lost>>

SendToDevice(p) ==
    /\ sysc[p].at = "send"
    /\ Deliver(p, sysc[p].dev)
    /\ sysc' = [sysc EXCEPT ![p] = NoCall]
    /\ UNCHANGED <<procs, medium, avail, pend, reading, hpc, alive, outbox, list,
                   writers, memSem, kh, kmIn, kmOut, memory, used>>

-----------------------------------------------------------------------------
(* Devices, and the io_handler of each.                                    *)

\* add_client_to_list; a device connects once (a new one is another device).
Connect(d) ==
    /\ hpc[d].at = "off"
    /\ alive' = [alive EXCEPT ![d] = TRUE]
    /\ list' = [list EXCEPT ![Type[d]] = Append(@, d)]
    /\ avail' = [avail EXCEPT ![d] = TRUE]
    /\ hpc' = [hpc EXCEPT ![d] = At("next")]
    /\ UNCHANGED <<procs, medium, sysc, pend, reading, inbox, outbox, writers, memSem,
                   kh, kmIn, kmOut, memory, used, lost>>

\* handle_operation of the IO module: one request at a time, in order.
handle_operation(d) ==
    /\ alive[d] /\ inbox[d] # <<>>
    /\ inbox' = [inbox EXCEPT ![d] = Tail(@)]
    /\ outbox' = [outbox EXCEPT ![d] = Append(@, Head(inbox[d]))]
    /\ UNCHANGED <<procs, medium, sysc, avail, pend, reading, hpc, alive, list, writers,
                   memSem, kh, kmIn, kmOut, memory, used, lost>>

DeviceStops(d) ==
    /\ d \notin Fixed /\ alive[d]
    /\ alive' = [alive EXCEPT ![d] = FALSE]
    /\ lost' = lost \cup Range(inbox[d])
    /\ inbox' = [inbox EXCEPT ![d] = <<>>]
    /\ UNCHANGED <<procs, medium, sysc, avail, pend, reading, hpc, outbox, list, writers,
                   memSem, kh, kmIn, kmOut, memory, used>>

\* op = -1, once the answers sent before have been read.
LoseDevice(d) ==
    /\ hpc[d].at = "recv" /\ ~alive[d] /\ outbox[d] = <<>>
    /\ list' = [list EXCEPT ![Type[d]] = RemoveFirst(@, d)]
    /\ hpc' = [hpc EXCEPT ![d] = At("gone")]
    /\ UNCHANGED <<procs, medium, sysc, avail, pend, reading, alive, inbox, outbox,
                   writers, memSem, kh, kmIn, kmOut, memory, used, lost>>

\* CONFIRMATION: io_finish_process up to its unlock of scheduler_mutex.
io_finish_process(d) ==
    /\ hpc[d].at = "recv" /\ outbox[d] # <<>> /\ Type[d] # "STDIN"
    /\ WakeUp(Head(outbox[d]))
    /\ outbox' = [outbox EXCEPT ![d] = Tail(@)]
    /\ hpc' = [hpc EXCEPT ![d] = At("free")]
    /\ UNCHANGED <<medium, sysc, avail, pend, reading, alive, inbox, list, writers, memSem,
                   kh, kmIn, kmOut, memory, used, lost>>

\* STDIN: the data go to the physical address of the system call.
StdinAnswer(d) ==
    LET p == Head(outbox[d])
    IN  /\ hpc[d].at = "recv" /\ outbox[d] # <<>> /\ Type[d] = "STDIN"
        /\ outbox' = [outbox EXCEPT ![d] = Tail(@)]
        /\ IF p \in reading
           THEN /\ reading' = reading \ {p}
                /\ kmIn' = Append(kmIn, Request("IO_MEMORY_WRITE", <<p>>))
                /\ hpc' = [hpc EXCEPT ![d] = For("free", p)]
           ELSE UNCHANGED <<reading, kmIn, hpc>>
        /\ UNCHANGED <<procs, medium, sysc, avail, pend, alive, inbox, list, writers, memSem,
                       kh, kmOut, memory, used, lost>>

\* Fault: the device waits for an answer without looking for more work.
SetAvailable_NoNext(d) ==
    /\ hpc[d].at = "free"
    /\ avail' = [avail EXCEPT ![d] = TRUE]
    /\ writers' = [p \in Proc |-> IF p \in Range(hpc[d].pids) THEN writers[p] + 1 ELSE writers[p]]
    /\ hpc' = [hpc EXCEPT ![d] = At("recv")]
    /\ UNCHANGED <<procs, medium, sysc, pend, reading, alive, inbox, outbox, list, memSem,
                   kh, kmIn, kmOut, memory, used, lost>>

\* is_available = true, without io_mutex; a STDIN also starts its
\* wait_memory_write_confirmation.
SetAvailable(d) ==
    /\ hpc[d].at = "free"
    /\ avail' = [avail EXCEPT ![d] = TRUE]
    /\ writers' = [p \in Proc |-> IF p \in Range(hpc[d].pids) THEN writers[p] + 1 ELSE writers[p]]
    /\ hpc' = [hpc EXCEPT ![d] = At("next")]
    /\ UNCHANGED <<procs, medium, sysc, pend, reading, alive, inbox, outbox, list, memSem,
                   kh, kmIn, kmOut, memory, used, lost>>

\* Fault: the pending request is read, not removed.
handle_next_operation_Kept(d) ==
    LET t == Type[d]
    IN  /\ hpc[d].at = "next"
        /\ IF pend[t] = <<>>
           THEN hpc' = [hpc EXCEPT ![d] = At("recv")] /\ UNCHANGED avail
           ELSE /\ hpc' = [hpc EXCEPT ![d] = For("send", Head(pend[t]))]
                /\ avail' = [avail EXCEPT ![d] = FALSE]
        /\ UNCHANGED <<procs, medium, sysc, pend, reading, alive, inbox, outbox, list, writers,
                       memSem, kh, kmIn, kmOut, memory, used, lost>>

\* The critical section of io_mutex: the oldest pending request, if any.
handle_next_operation(d) ==
    LET t == Type[d]
    IN  /\ hpc[d].at = "next"
        /\ IF pend[t] = <<>>
           THEN hpc' = [hpc EXCEPT ![d] = At("recv")] /\ UNCHANGED <<pend, avail>>
           ELSE /\ hpc' = [hpc EXCEPT ![d] = For("send", Head(pend[t]))]
                /\ pend' = [pend EXCEPT ![t] = Tail(@)]
                /\ avail' = [avail EXCEPT ![d] = FALSE]
        /\ UNCHANGED <<procs, medium, sysc, reading, alive, inbox, outbox, list, writers,
                       memSem, kh, kmIn, kmOut, memory, used, lost>>

SendPending(d) ==
    /\ hpc[d].at = "send"
    /\ Deliver(Head(hpc[d].pids), d)
    /\ hpc' = [hpc EXCEPT ![d] = At("recv")]
    /\ UNCHANGED <<procs, medium, sysc, avail, pend, reading, alive, outbox, list, writers,
                   memSem, kh, kmIn, kmOut, memory, used>>

wait_memory_write_confirmation(p) ==
    /\ writers[p] > 0 /\ memSem[p] > 0
    /\ writers' = [writers EXCEPT ![p] = @ - 1]
    /\ memSem' = [memSem EXCEPT ![p] = @ - 1]
    /\ WakeUp(p)
    /\ UNCHANGED <<medium, sysc, avail, pend, reading, devices, kh, kmIn, kmOut, memory, used, lost>>

-----------------------------------------------------------------------------
(* The medium-term scheduler.                                              *)

\* suspension_manager: every process of block_processes found in BLOCK for
\* longer than suspension_timeout (any of them may be).
suspension_manager ==
    /\ suspending = {}
    /\ used.suspensions < MaxSuspensions
    /\ used' = [used EXCEPT !.suspensions = @ + 1]
    /\ \E S \in SUBSET {p \in Proc : blocked[p] > 0 /\ state[p] = "BLOCK"} :
          /\ S # {}
          /\ state' = [p \in Proc |-> IF p \in S THEN "SUSP_BLOCK" ELSE state[p]]
          /\ blocked' = [p \in Proc |-> IF p \in S THEN blocked[p] - 1 ELSE blocked[p]]
          /\ suspending' = S
    /\ UNCHANGED <<queued, suspended, sysc, avail, pend, reading, devices, writers, memSem,
                   kh, kmIn, kmOut, memory, lost>>

\* ... asks Kernel Memory for each after releasing the mutexes.
SendSwapOut(p) ==
    /\ p \in suspending
    /\ suspending' = suspending \ {p}
    /\ kmIn' = Append(kmIn, Request("SWAP_OUT", <<p>>))
    /\ UNCHANGED <<procs, suspended, sysc, avail, pend, reading, devices, writers, memSem,
                   kh, kmOut, memory, used, lost>>

\* The elements of s at the positions P, in the order in which before has them.
Arranged(s, P, before) ==
    [k \in 1 .. Cardinality(P) |->
        s[CHOOSE i \in P : Cardinality({j \in P : <<j, i>> \in before}) = k - 1]]

\* list_filter: those that are in S, in the order of s.
Filter(s, S) ==
    LET P == {i \in DOMAIN s : s[i] \in S}
    IN  Arranged(s, P, {e \in P \X P : e[1] < e[2]})

\* list_sort, which keeps the order of equals.
sort_processes_by_priority(s) ==
    Arranged(s, DOMAIN s,
        {e \in (DOMAIN s) \X (DOMAIN s) :
            \/ Priority[s[e[1]]] < Priority[s[e[2]]]
            \/ Priority[s[e[1]]] = Priority[s[e[2]]] /\ e[1] < e[2]})

-----------------------------------------------------------------------------
(* kernel_memory_handler: one message at a time, to its end.               *)

\* The next message of Kernel Memory is op.
Receives(op) == kh.at = "idle" /\ kmOut # <<>> /\ Head(kmOut).op = op
Pid == Head(Head(kmOut).pids)
Idle(h) == [h EXCEPT !.at = "idle", !.pids = <<>>, !.dev = NoDevice, !.seen = "READY"]

\* process_set_state(EXIT) without scheduler_mutex, and PROCESS_END.
EndProcess(p) ==
    /\ state' = [state EXCEPT ![p] = "EXIT"]
    /\ kmIn' = Append(kmIn, Request("PROCESS_END", <<p>>))

\* stdout_wait_memory_read: an empty value ends the process and goes on.
ReceiveRead ==
    /\ Receives("IO_MEMORY_READ")
    /\ IF Head(kmOut).ok THEN UNCHANGED <<state, kmIn>> ELSE EndProcess(Pid)
    /\ kh' = [kh EXCEPT !.at = "assign", !.pids = <<Pid>>]
    /\ kmOut' = Tail(kmOut)
    /\ UNCHANGED <<queued, blocked, medium, sysc, avail, pend, reading, devices, writers,
                   memSem, memory, used, lost>>

StdoutAssign ==
    LET d == get_available_io_type("STDOUT")
    IN  /\ kh.at = "assign"
        /\ TakeDevice(Head(kh.pids), "STDOUT")
        /\ kh' = IF d = NoDevice THEN Idle(kh) ELSE [kh EXCEPT !.at = "send", !.dev = d]
        /\ UNCHANGED <<procs, medium, sysc, reading, devices, writers, memSem, kmIn, kmOut,
                       memory, used, lost>>

StdoutSend ==
    /\ kh.at = "send"
    /\ Deliver(Head(kh.pids), kh.dev)
    /\ kh' = Idle(kh)
    /\ UNCHANGED <<procs, medium, sysc, avail, pend, reading, hpc, alive, outbox, list, writers,
                   memSem, kmIn, kmOut, memory, used>>

ReceiveWrite ==
    /\ Receives("IO_MEMORY_WRITE")
    /\ IF Head(kmOut).ok
       THEN /\ memSem' = [memSem EXCEPT ![Pid] = @ + 1]
            /\ UNCHANGED <<state, kmIn>>
       ELSE EndProcess(Pid) /\ UNCHANGED memSem
    /\ kmOut' = Tail(kmOut)
    /\ UNCHANGED <<queued, blocked, medium, sysc, avail, pend, reading, devices, writers,
                   kh, memory, used, lost>>

\* Fault: a confirmed process is not entered in suspended_processes.
wait_confirmation_swap_out_Unlisted ==
    LET p == Pid
        rejected == ~Head(kmOut).ok /\ state[p] \in {"SUSP_READY", "SUSP_BLOCK"}
    IN  /\ Receives("SWAP_OUT")
        /\ state' = [state EXCEPT ![p] = IF rejected THEN IF @ = "SUSP_READY" THEN "READY" ELSE "BLOCK"
                                         ELSE @]
        /\ queued' = [queued EXCEPT ![p] = IF rejected /\ state[p] = "SUSP_READY" THEN @ + 1 ELSE @]
        /\ kh' = IF rejected /\ state[p] = "SUSP_BLOCK" THEN [kh EXCEPT !.at = "block", !.pids = <<p>>]
                 ELSE kh
        /\ kmOut' = Tail(kmOut)
        /\ UNCHANGED <<blocked, medium, sysc, avail, pend, reading, devices, writers, memSem,
                       kmIn, memory, used, lost>>

\* The critical section of wait_confirmation_swap_out.  The lists are changed
\* after it: block_processes on a rejection, suspended_processes otherwise.
wait_confirmation_swap_out ==
    LET p == Pid
        ok == Head(kmOut).ok
        rejected == ~ok /\ state[p] \in {"SUSP_READY", "SUSP_BLOCK"}
    IN  /\ Receives("SWAP_OUT")
        /\ state' = [state EXCEPT ![p] = IF rejected THEN IF @ = "SUSP_READY" THEN "READY" ELSE "BLOCK"
                                         ELSE @]
        /\ queued' = [queued EXCEPT ![p] = IF rejected /\ state[p] = "SUSP_READY" THEN @ + 1 ELSE @]
        /\ kh' = CASE rejected /\ state[p] = "SUSP_BLOCK" -> [kh EXCEPT !.at = "block", !.pids = <<p>>]
                   [] ok /\ state[p] \in {"SUSP_READY", "SUSP_BLOCK"} ->
                         [kh EXCEPT !.at = "suspend", !.pids = <<p>>]
                   [] OTHER -> kh
        /\ kmOut' = Tail(kmOut)
        /\ UNCHANGED <<blocked, medium, sysc, avail, pend, reading, devices, writers, memSem,
                       kmIn, memory, used, lost>>

\* list_add(block_processes), after scheduler_mutex was released.
ListBlocked ==
    /\ kh.at = "block"
    /\ blocked' = [blocked EXCEPT ![Head(kh.pids)] = @ + 1]
    /\ kh' = [kh EXCEPT !.at = "in", !.pids = Tail(@)]
    /\ UNCHANGED <<state, queued, medium, sysc, avail, pend, reading, devices, writers, memSem,
                   kmIn, kmOut, memory, used, lost>>

ListSuspended ==
    /\ kh.at = "suspend"
    /\ suspended' = Append(suspended, Head(kh.pids))
    /\ kh' = Idle(kh)
    /\ UNCHANGED <<procs, suspending, sysc, avail, pend, reading, devices, writers, memSem,
                   kmIn, kmOut, memory, used, lost>>

\* Fault: every suspended process is asked back, also the blocked ones.
request_swap_in_All ==
    /\ Receives("MEMORY_UPDATE")
    /\ kmIn' = IF suspended = <<>> THEN kmIn
               ELSE Append(kmIn, Request("SWAP_IN", sort_processes_by_priority(suspended)))
    /\ kmOut' = Tail(kmOut)
    /\ UNCHANGED <<procs, medium, sysc, avail, pend, reading, devices, writers, memSem, kh,
                   memory, used, lost>>

\* MEMORY_UPDATE: request_swap_in
request_swap_in ==
    LET ready == Filter(suspended, {p \in Proc : state[p] = "SUSP_READY"})
    IN  /\ Receives("MEMORY_UPDATE")
        /\ kmIn' = IF ready = <<>> THEN kmIn
                   ELSE Append(kmIn, Request("SWAP_IN", sort_processes_by_priority(ready)))
        /\ kmOut' = Tail(kmOut)
        /\ UNCHANGED <<procs, medium, sysc, avail, pend, reading, devices, writers, memSem, kh,
                       memory, used, lost>>

\* wait_confirmation_swap_in: the PIDs are dealt with one by one.  Each is
\* taken off suspended_processes and its state read without scheduler_mutex (twice
\* unless it is SUSP_READY, which NotSwappedOut shows it is), ...
ReceiveSwapIn ==
    /\ Receives("SWAP_IN")
    /\ kh' = [kh EXCEPT !.at = "in", !.pids = Head(kmOut).pids]
    /\ kmOut' = Tail(kmOut)
    /\ UNCHANGED <<procs, medium, sysc, avail, pend, reading, devices, writers, memSem, kmIn,
                   memory, used, lost>>

SwapInNext ==
    /\ kh.at = "in"
    /\ IF kh.pids = <<>>
       THEN kh' = Idle(kh) /\ UNCHANGED suspended
       ELSE /\ suspended' = RemoveFirst(suspended, Head(kh.pids))
            /\ kh' = [kh EXCEPT !.at = "apply", !.seen = state[Head(kh.pids)]]
    /\ UNCHANGED <<procs, suspending, sysc, avail, pend, reading, devices, writers, memSem,
                   kmIn, kmOut, memory, used, lost>>

\* ... and the state seen decides what is set under the mutex.
SwapInApply ==
    LET p == Head(kh.pids)
    IN  /\ kh.at = "apply"
        /\ state' = [state EXCEPT ![p] = CASE kh.seen = "SUSP_READY" -> "READY"
                                           [] kh.seen = "SUSP_BLOCK" -> "BLOCK"
                                           [] OTHER -> @]
        /\ queued' = [queued EXCEPT ![p] = IF kh.seen = "SUSP_READY" THEN @ + 1 ELSE @]
        /\ kh' = IF kh.seen = "SUSP_BLOCK" THEN [kh EXCEPT !.at = "block"]
                 ELSE [kh EXCEPT !.at = "in", !.pids = Tail(@)]
        /\ UNCHANGED <<blocked, medium, sysc, avail, pend, reading, devices, writers, memSem,
                       kmIn, kmOut, memory, used, lost>>

-----------------------------------------------------------------------------
(* Kernel Memory, as far as these messages go: kernel_scheduler_handler    *)
(* serves them in order.  Whether an access or a swap succeeds is open.    *)

KernelMemory ==
    LET m == Head(kmIn)
        p == Head(m.pids)
        answer(a) == kmOut' = Append(kmOut, a)
    IN  /\ kmIn # <<>>
        /\ kmIn' = Tail(kmIn)
        /\ \/ /\ m.op \in {"IO_MEMORY_READ", "IO_MEMORY_WRITE"}
              /\ \E ok \in BOOLEAN : answer(Answer(m.op, m.pids, ok))
              /\ UNCHANGED <<swapped, ended>>
           \/ /\ m.op = "SWAP_OUT"
              /\ \E ok \in BOOLEAN :
                    /\ ok => p \notin ended
                    /\ answer(Answer(m.op, m.pids, ok))
                    /\ swapped' = IF ok THEN swapped \cup {p} ELSE swapped
              /\ UNCHANGED ended
           \/ /\ m.op = "SWAP_IN"
              /\ \E S \in SUBSET ((Range(m.pids) \cap swapped) \ ended) :
                    /\ answer(Answer(m.op, Filter(m.pids, S), TRUE))
                    /\ swapped' = swapped \ S
              /\ UNCHANGED ended
           \/ /\ m.op = "PROCESS_END"
              /\ ended' = ended \cup {p}
              /\ UNCHANGED <<swapped, kmOut>>
        /\ UNCHANGED <<procs, medium, sysc, avail, pend, reading, devices, writers, memSem, kh,
                       used, lost>>

\* send_memory_update, when a Memory Stick joins.
MemoryUpdate ==
    /\ used.updates < MaxUpdates
    /\ used' = [used EXCEPT !.updates = @ + 1]
    /\ kmOut' = Append(kmOut, Answer("MEMORY_UPDATE", <<>>, TRUE))
    /\ UNCHANGED <<procs, medium, sysc, avail, pend, reading, devices, writers, memSem, kh, kmIn,
                   swapped, ended, lost>>

-----------------------------------------------------------------------------
CpuHandler(p) ==
    \/ sleep_syscall_manager(p) \/ stdin_syscall_manager(p) \/ stdout_syscall_manager(p)
    \/ SendMemoryRead(p) \/ AssignDevice(p) \/ SendToDevice(p)

io_handler(d) ==
    \/ io_finish_process(d) \/ StdinAnswer(d) \/ SetAvailable(d)
    \/ handle_next_operation(d) \/ SendPending(d) \/ LoseDevice(d)

kernel_memory_handler ==
    \/ ReceiveRead \/ StdoutAssign \/ StdoutSend \/ ReceiveWrite
    \/ wait_confirmation_swap_out \/ ListBlocked \/ ListSuspended
    \/ request_swap_in \/ ReceiveSwapIn \/ SwapInNext \/ SwapInApply

Next ==
    \/ \E p \in Proc : Dispatch(p) \/ CpuHandler(p) \/ wait_memory_write_confirmation(p)
                       \/ SendSwapOut(p)
    \/ \E d \in Device : Connect(d) \/ handle_operation(d) \/ DeviceStops(d) \/ io_handler(d)
    \/ suspension_manager
    \/ kernel_memory_handler
    \/ KernelMemory
    \/ MemoryUpdate

Spec == Init /\ [][Next]_vars

\* Threads that can run do; a device finishes what it was asked, be it the
\* user who types.  Nothing makes a device connect or Kernel Memory grow.
Fairness ==
    /\ \A p \in Proc : /\ WF_vars(SendMemoryRead(p) \/ AssignDevice(p) \/ SendToDevice(p))
                       /\ WF_vars(wait_memory_write_confirmation(p))
                       /\ WF_vars(SendSwapOut(p))
    /\ \A d \in Device : WF_vars(handle_operation(d)) /\ WF_vars(io_handler(d))
    /\ WF_vars(kernel_memory_handler)
    /\ WF_vars(KernelMemory)

FairSpec == Spec /\ Fairness

-----------------------------------------------------------------------------
(* Properties.                                                             *)

Messages == {"IO_MEMORY_READ", "IO_MEMORY_WRITE", "SWAP_OUT", "SWAP_IN", "PROCESS_END",
             "MEMORY_UPDATE"}
HandlerPoints == {"off", "next", "send", "recv", "free", "gone"}
KhPoints == {"idle", "assign", "send", "block", "suspend", "in", "apply"}

\* Types, and the device a thread is about to send to is one of its type.
TypeOK ==
    /\ state \in [Proc -> States]
    /\ queued \in [Proc -> Nat] /\ blocked \in [Proc -> Nat]
    /\ suspended \in Seq(Proc) /\ suspending \in SUBSET Proc
    /\ \A p \in Proc : /\ sysc[p].at \in {"idle", "read", "assign", "send"}
                       /\ sysc[p].type \in IoTypes
                       /\ sysc[p].at = "send" => Type[sysc[p].dev] = sysc[p].type
    /\ \A t \in IoTypes : \A i \in DOMAIN list[t] : Type[list[t][i]] = t
    /\ avail \in [Device -> BOOLEAN] /\ alive \in [Device -> BOOLEAN]
    /\ pend \in [IoTypes -> Seq(Proc)]
    /\ reading \in SUBSET Proc
    /\ hpc \in [Device -> [at : HandlerPoints, pids : Seq(Proc)]]
    /\ inbox \in [Device -> Seq(Proc)] /\ outbox \in [Device -> Seq(Proc)]
    /\ writers \in [Proc -> Nat] /\ memSem \in [Proc -> Nat]
    /\ kh \in [at : KhPoints, pids : Seq(Proc), dev : Device \cup {NoDevice}, seen : States]
    /\ kmIn \in Seq([op : Messages, pids : Seq(Proc)])
    /\ kmOut \in Seq([op : Messages, pids : Seq(Proc), ok : BOOLEAN])
    /\ swapped \in SUBSET Proc /\ ended \in SUBSET Proc /\ lost \in SUBSET Proc
    /\ used \in [calls : [Proc -> Nat], suspensions : 0 .. MaxSuspensions, updates : 0 .. MaxUpdates]

\* How often p occurs in s; how many messages of s are op for p.
Times(s, p) == Cardinality({i \in DOMAIN s : s[i] = p})
Sent(s, ops, p) == Cardinality({i \in DOMAIN s : s[i].op \in ops /\ p \in Range(s[i].pids)})
One(b) == IF b THEN 1 ELSE 0

IoOps == {"IO_MEMORY_READ", "IO_MEMORY_WRITE"}

\* The requests of p: with the thread of its call, with Kernel Memory, pending,
\* with a device, answered but not handled, or lost with a device.
RequestsAtDevice(p, d) ==
    Times(inbox[d], p) + Times(outbox[d], p) + One(hpc[d].at = "send" /\ p \in Range(hpc[d].pids))
Requests(p) ==
    LET at == {d \in Device : RequestsAtDevice(p, d) > 0}
    IN  One(sysc[p].at # "idle") + Sent(kmIn, IoOps, p) + Sent(kmOut, IoOps, p) + memSem[p]
        + One(kh.at \in {"assign", "send"} /\ p \in Range(kh.pids))
        + Times(pend["SLEEP"], p) + Times(pend["STDIN"], p) + Times(pend["STDOUT"], p)
        + One(p \in lost) + Cardinality(at)

\* sleep_syscall_manager ... handle_next_operation: the request of a process that
\* waits is in exactly one place, and no request of a process outlives its wait,
\* whichever threads hand it over.  So no process is woken twice or for an answer
\* to an earlier call, and none is forgotten but with its device.
OneRequest ==
    \A p \in Proc :
        /\ \A d \in Device : RequestsAtDevice(p, d) <= 1
        /\ Requests(p) <= 1
        /\ state[p] \in {"BLOCK", "SUSP_BLOCK"} => Requests(p) = 1
        /\ state[p] \in {"READY", "EXEC", "SUSP_READY"} => Requests(p) = 0

\* io_finish_process releases a device before, and outside the mutex with which,
\* handle_next_operation looks for more work: still no request stays pending while
\* a device of its type is available, except on the way to that look.
NoIdleWhilePending ==
    \A d \in Device :
        hpc[d].at = "recv" /\ pend[Type[d]] # <<>> => ~avail[d]

\* A process Kernel Memory was told to end.  A STDOUT that failed goes on to its
\* device, which makes such a process READY again.
Killed(p) == p \in ended \/ Sent(kmIn, {"PROCESS_END"}, p) > 0

\* process_set_ready, wait_confirmation_swap_out, wait_confirmation_swap_in: the
\* answers of a device and of Kernel Memory cross, and a process enters the ready
\* queue once each time it becomes READY.
ReadyOnce ==
    \A p \in Proc : queued[p] = One(state[p] = "READY")

\* Every SWAP_OUT under way for p, to its entry in suspended_processes.
SwapOuts(p) ==
    One(p \in suspending) + Sent(kmIn, {"SWAP_OUT"}, p) + Sent(kmOut, {"SWAP_OUT"}, p)
    + One(kh.at = "suspend" /\ p \in Range(kh.pids)) + Times(suspended, p)
    + One(kh.at = "apply" /\ p = Head(kh.pids))

\* The lists of the medium-term scheduler are changed after the mutex that guards
\* the states was released.  Still a suspended process is on its way to
\* suspended_processes or there, once, or no SWAP_IN would ever name it; and a
\* process in BLOCK is in block_processes or about to be, or it could not be suspended.
ListedForState ==
    \A p \in Proc : ~Killed(p) =>
        /\ SwapOuts(p) = One(state[p] \in {"SUSP_BLOCK", "SUSP_READY"})
        /\ state[p] = "BLOCK" => blocked[p] > 0 \/ (kh.at = "block" /\ p = Head(kh.pids))

\* Kernel Memory and the scheduler agree: who is READY, runs or waits in BLOCK has
\* its segments in memory, though SWAP_OUT, SWAP_IN and wake-ups cross.  And the state
\* that wait_confirmation_swap_in reads without the mutex is SUSP_READY and still holds
\* when it takes the mutex to set READY.
NotSwappedOut ==
    /\ \A p \in Proc : state[p] \in {"READY", "EXEC", "BLOCK"} /\ ~Killed(p) => p \notin swapped
    /\ kh.at = "apply" => kh.seen = "SUSP_READY" /\ state[Head(kh.pids)] = "SUSP_READY"

\* Under fairness every process that waits for a device is woken, unless its request
\* went with a device, no device of the type is connected, or a transfer failed.
IoIsServed ==
    \A p \in Proc :
        state[p] \in {"BLOCK", "SUSP_BLOCK"} ~>
            \/ state[p] \notin {"BLOCK", "SUSP_BLOCK"}
            \/ p \in lost
            \/ \E t \in IoTypes : p \in Range(pend[t]) /\ ~\E d \in Device : Type[d] = t /\ alive[d]
=============================================================================
