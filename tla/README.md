# TLA+ verification of operating-system-model

The repository is a small distributed operating system in C: a **Kernel Scheduler**, a **Kernel Memory**,
any number of **CPUs**, **Memory Sticks** and **IO devices**, and one **SWAP**, all separate processes that
talk over TCP sockets. Each of them is multi-threaded. This directory models the parts where threads and
messages meet, checks them with TLC on small instances, and proves with TLAPS, for all instances, the safety
properties of dispatching and eviction in the scheduler, the invariants of the mutex manager, that a CPU keeps the
contract the scheduler relies on, that the IO manager loses and doubles no request and never leaves a device idle beside a
pending one, that suspension and return of processes keep the lists and Kernel Memory in step with the states, that the
Memory Sticks together are one memory, and that the segments in it never overlap and keep their data through compaction
and SWAP. Where the code leaves a window open, the assumption under which a result holds is a named constant; what happens
in the window, and where a document or comment of the repository says otherwise, is in section 4.

All paths below are relative to the repository (`src/` here). `KS` is `kernel_scheduler/src`, `KM` is
`kernel_memory/src`.

## 1. Inventory

| Component | State | Operations | What makes it correct |
|---|---|---|---|
| Short-term scheduler, quantum manager (`KS/schedulers/short_term_scheduler.c`, `KS/utils.c`) | `ready_queue[]`, `exec_processes`, `list_processes`, per-CPU `is_available`, `is_evicting`, `response_sem`; `can_schedule`, `short_term_scheduler_sem` | wake up, dispatch, preempt, expire a quantum, evict, confirm | a process is in one place; one order per process; a CPU that looks free is free; every READY process runs eventually |
| CPU handler (`KS/module_handlers/cpu_handler.c`), one thread per CPU | the CPU's `t_client_info` | one `case` per syscall, confirmation, disconnection | a syscall that crosses an eviction or a disconnection leaves nothing half done |
| Long-term scheduler | `current_max_pid`, `list_processes` | create, confirm | the process is listed before its confirmation is served |
| Memory manager of the scheduler (`KS/managers/memory_manager.c`) | `pending_memory_syscall`, `compaction_finished_sem` | MEM_ALLOC/MEM_FREE, segment result, compaction, corruption | answers apply to the CPU the process still has; nothing runs while memory moves |
| Mutex manager (`KS/managers/mutex_manager.c`) | `lockedBy`, `waitingProcesses`, `owned_mutexes`, `effective_priority` | create, lock, unlock | the two records of ownership agree; waiters are blocked; priorities are inherited and given back |
| Medium-term scheduler (`KS/schedulers/medium_term_scheduler.c`) | `block_processes`, `suspended_processes`, `to_suspend_list` | suspend on timeout, answers of SWAP_OUT / SWAP_IN, MEMORY_UPDATE | wake-ups that cross a swap are not lost; the lists follow the states; who may run is in memory |
| IO manager and handler (`KS/managers/io_manager.c`, `KS/module_handlers/io_handler.c`, `kernel_memory_handler.c`), one thread per device | `list_io_*`, `is_available`, `pending_request_io_*`, `pending_io_stdin_reading`, `memory_request_sem` | sleep, stdin, stdout, transfers with Kernel Memory, finish, next operation, device joins or is lost | a request is in one place until it is answered; no device idles while one is pending; every request is served |
| IO devices (`io/src`) | | serve requests in order | |
| CPU (`cpu/src/main.c`, `cpu/src/manage_instructions.c`) | `interruptPending`, `is_executing`, `should_exit`, `should_stop`, three semaphores | PROCESS_EXECUTE, PROCESS_EVICT, instruction cycle, syscalls | runs one process at a time, sends its context before it gives the process up, confirms each eviction once |
| Kernel Memory, segments (`KM/memory_manage.c`) | `list_processes` with segment tables, `total_memory_size` | create, delete, compact, read, write | segments do not overlap, data survive a move |
| Kernel Memory, suspension | `list_suspended_processes` with swap blocks | suspend, desuspend | data survive the way to SWAP and back |
| Kernel Memory, contexts (`KM/module_handlers/cpu_handler.c`) | `t_pcb.context` | transfer, seek, fetch | a process resumes with its latest context |
| Memory Sticks (`memory_stick/src`), their lists in `KM/main.c` and `cpu/src/main.c`, the MMU and `memory_read` / `memory_write` of Kernel Memory and CPUs | `list_memory_stick` of each client, `list_memory_stick_credentials`, `list_cpu`, `total_memory_size`, bytes | a stick or a CPU joins, a stick is lost, translate, access chunk by chunk | all clients resolve an address to the same byte; sticks together are one memory |
| SWAP (`swap/src`) | blocks of a file | read, write | stores what was written |

The scheduler talks to each CPU over one socket, to Kernel Memory over another; each CPU has a socket to both.
So two messages of one CPU, one to Kernel Memory and one to the scheduler, are not ordered with respect to
each other, while messages on one socket are; and two CPUs' messages to Kernel Memory are served by two threads.

What is hard here: about ten kinds of threads share the process lists under `scheduler_mutex`, but many operations
release it halfway (tests before sends, two critical sections in `mutex_unlock`, a termination in three steps);
evictions are asynchronous and cross syscalls on the wire; the CPU's own two threads synchronise through flags read
outside the locks that set them; Kernel Memory serves allocations in concurrent threads and pauses in the middle of
one for a compaction that needs the scheduler's cooperation, and during which it holds no lock. `PROJECT.json` lists the hazards one by one, at their
lines, with the properties that watch over them.

## 2. Modules

| Module | Models | Uses |
|---|---|---|
| `ReadyQueues` | the operations of `KS/utils.c` on `ready_queue` as operators on a value | |
| `Dispatch` | the scheduler's threads around dispatch, eviction, compaction; CPUs by their contract | `ReadyQueues` |
| `MutexManager` | mutexes, inheritance, blocking and suspension states | `ReadyQueues` |
| `SchedulerLink` | the scheduler as one CPU sees it: the two directions of a socket and what the scheduler remembers | |
| `CpuContract` | abstract: what a CPU promises to the scheduler | `SchedulerLink` |
| `CpuEviction` | the two threads of a CPU, Kernel Memory's store of contexts; implements `CpuContract` | `SchedulerLink`, `CpuContract` |
| `SegmentMemory` | segment tables, holes, compaction, suspension to SWAP blocks, STDINs under way | |
| `IoManager` | SLEEP, STDIN, STDOUT, the devices and their handlers, the transfers with Kernel Memory, the medium-term scheduler | |
| `FlatMemory` | abstract: one array of bytes that grows, of which each client sees a prefix | |
| `MemorySticks` | sticks and CPUs joining, address resolution, MMU, accesses chunk by chunk, loss of a stick; implements `FlatMemory` | `FlatMemory` |
| `ListProofs` | proofs: lemmas about lists and least numbers that several proofs use | |
| `ReadyQueuesProofs` | proofs: lemmas about the queue operations | `ReadyQueues`, `ListProofs` |
| `DispatchProofs` | proofs: the safety properties of `Dispatch` | `Dispatch`, `ReadyQueuesProofs` |
| `MutexManagerProofs` | proofs: the invariants of `MutexManager` | `MutexManager`, `ReadyQueuesProofs` |
| `CpuEvictionProofs` | proofs: the invariants of `CpuEviction` and that it implements `CpuContract` | `CpuEviction` |
| `IoManagerProofs` | proofs: all safety properties of `IoManager` | `IoManager` |
| `SegmentMemoryProofs` | proofs: the invariants of `SegmentMemory` | `SegmentMemory`, `ListProofs` |
| `MemorySticksProofs` | proofs: the invariants of `MemorySticks` and that it implements `FlatMemory` | `MemorySticks`, `ListProofs` |
| `MCDispatch`, `MCMutexManager`, `MCSegmentMemory`, `MCIoManager`, `MCMemorySticks` | constants and symmetries of the runs (`CpuEviction` needs none) | |

How the modules fit together. `Dispatch` drives CPUs through three actions, `CpuExecute`, `CpuEvict` and
`CpuSyscall`: exactly the actions `Execute`, `Evict`, `Syscall` of `CpuContract`. `CpuEviction` is checked and proved to
refine `CpuContract`, in an environment (`SchedulerLink`) in which no PROCESS_EXECUTE follows a
PROCESS_EVICT that is not confirmed: what `Dispatch` does under `PromptSend`, and the code without it does not (section 4).
`CpuEviction` has one CPU; how a context gets from one CPU to another is not modelled. `SegmentMemory` serves
requests at any moment of a compaction; its constant `QuietCompaction` says that the scheduler keeps the CPUs idle meanwhile,
which it tries and does not guarantee (section 4).
`SegmentMemory` allocates one array of bytes: `FlatMemory`, which `MemorySticks` is checked and proved to implement. In it
accesses of several clients interleave chunk by chunk, so clients do not disturb each other when their ranges are
disjoint, which `NoOverlap` of `SegmentMemory` gives. `IoManager` takes the dispatch of
a READY process from `Dispatch` as one step, and follows a suspension through the lists and messages that `MutexManager`
abstracts to changes of state.

### Granularity

An action is one critical section or one message sent. What a thread remembers between two of its actions is explicit:
`thr[t]` in `Dispatch` (a place, a PID and a CPU pointer that may have become stale), `comp` for the compaction thread,
`serving[p]` in `MutexManager`, `handler` and `exec` in `CpuEviction`, `thr[p]` and `compact` in `SegmentMemory`,
`sysc[p]`, `hpc[d]`, `kh`, `suspending` and `writers` in `IoManager` (a CPU handler, a device's handler, the handler of
Kernel Memory, the suspension manager, the threads that wait for a write), `join`, `cpuAt`, `acc` and `net` in `MemorySticks`
(a stick's and a CPU's thread in Kernel Memory, a client's access and its message).
For example `send_pid_to_execute` is `SendCheck` (the test of `is_evicting` under `internal_mutex`) and `SendExecute`
(the send, after the mutex was released); `handle_segment_result` with a CPU is `SegmentResult`, then either a send or
`TerminateProcess`, `UnlistProcess` and `ReleaseCpu`; `mutex_unlock` is `UnlockBegin`, `UnlockRestore` and
`UnlockHandover`. A helper's name is the C function's name where it stands for the whole function.

### Abstractions

- *Time* (quantum, suspension timeout) is a free choice: any process subject to it may be found to have used it up.
- *Programs* are sets of system calls (`Program[p]`), made in any order and number.
- *Sockets* are FIFO sequences. A message to a CPU whose process died disappears.
- *Registers* are a context in a small set, which an instruction may change to any other.
- *Bytes* are named by who wrote them, so that an overwritten or misplaced byte is visible.
- *Blocking*: in `Dispatch` SLEEP stands for SLEEP and STDIN, whose processes a device wakes; STDOUT, which first reads from
  Kernel Memory and may fail there, and STDIN of 0 bytes, which ends its process, are calls of their own. The devices are in
  `IoManager`.
- *Bytes that nobody owns* are `Blank` in `SegmentMemory`. What a compaction does with the record of a segment that was
  freed under it (`QuietCompaction` FALSE) is undefined in C; the model goes on as if the record were intact.
- *Suspension of a process that waits for a mutex*: in `MutexManager` each answer is one step on states; the lists and the
  steps between their locks are in `IoManager`, for processes that wait for IO.
- *Kernel Memory's verdicts* in `IoManager` (an access in or out of range, SWAP full, no room) are free choices.
- *Accesses*: in `MemorySticks` an instruction is the access it makes, of any offset and size its segment allows.
  Payloads have a different byte at each position, so that a chunk out of place shows.
- *`sem_post` of the scheduler's semaphore* is capped by `MaxWakeups` = 1. A pass of the scheduler serves everything there
  is, so more pending wake-ups only repeat passes that find nothing.

### Assumptions about timing and usage

The code leaves several windows open. Each is a constant of the model, so that both sides can be checked:

| Constant | TRUE means | Without it |
|---|---|---|
| `PromptSend` (`Dispatch`) | no eviction of a CPU starts while `send_pid_to_execute` is between its test and its send for that CPU | `AvailableCpuIsFree` fails: a CPU is given a process while it is being evicted (section 4) |
| `PromptAnswer` (`Dispatch`) | no eviction of a CPU is acknowledged while `handle_segment_result` is at work with that CPU, which it has read under `scheduler_mutex` and uses after releasing it | `ListsAgree` fails: a process ends inside a ready queue (no document claims otherwise, so there is no run) |
| `PromptEvict` (`CpuEviction`) | no PROCESS_EVICT is received while the execution thread is leaving for a syscall, and the handler's two steps of beginning an eviction are not separated by a step of that thread | run `CpuEvictHang` |
| `OneSegmentSwaps` (`SegmentMemory`) | only processes with at most one segment are suspended | run `SwapTwoSegments` |
| `SerialAllocation` (`SegmentMemory`) | nobody looks for a hole until the previous segment is in its table | `NoOverlap` fails, and so does `CompactionSuffices`, since somebody else may take the hole that compaction made (hazards; no document claims otherwise, so there is no run) |
| `QuietCompaction` (`SegmentMemory`) | while `compact_memory` is at work no process executes and no segment is freed | `DataIntact` fails: what a process writes after its segment was read is lost |
| `PromptStdin` (`SegmentMemory`) | the segments of a process whose STDIN waits for its device are neither moved nor suspended | `DataIntact` fails, by a suspension and by a compaction (section 4) |
| an id once (`SegmentMemory`, guard of `SEGMENT_CREATE`) | a program does not ask for a segment id that it already has | `segment_create` does not look: the table would have the id twice and the MMU would use the first entry |
| `PromptCredentials` (`MemorySticks`) | a Memory Stick sends its ip and port before it answers Kernel Memory | `AccessEnds` fails: an answer is read as the ip (section 4) |
| `SerialJoin` (`MemorySticks`) | a stick or a CPU joins only when no other is in the middle of joining | `AddressMapsAgree` and `ImplementsFlat` fail (section 4) |
| `segment_max_size + MaxSize <= Word` (`MemorySticks`) | the sum in the limit check of the MMU does not wrap at 2^32 | a size near 2^32 would pass the check; sizes come from programs |

The run `DispatchFifo` needs no timing assumption: there are no evictions.

## 3. Runs

All constants and bounds are in the `.cfg` files. `CHECK_DEADLOCK FALSE` everywhere, because the
system really may stop: all processes end, or block for ever on a mutex whose owner ended.

| Run | Instance | States | Checks |
|---|---|---|---|
| `DispatchFifo` | FIFO, 3 processes, 2 CPUs, all syscalls, no timing assumption | 364 525 | `ListsAgree` (= `ReadyQueuesMatchStates`, `RunsWhereAssigned`, `ExecutedOnce`), `ExitIsFinal` |
| `DispatchRR` | RR, 2 processes, 2 CPUs that may die, STDOUT among the syscalls | 211 072 | the parts of `ListsAgree` and `TypeOK`, `ExecListMatchesCpus`, `AvailableCpuIsFree`, `EvictionHandshake` |
| `DispatchCompaction` | CMN with 2 preempting queues, 3 processes that all allocate, 2 CPUs, compaction | 1 581 453 | `ListsAgree` |
| `DispatchLive` | RR, 2 processes, 1 CPU, fairness | 6 098 | `ReadyIsDispatched` |
| `MutexInheritance` | CMN with 2 queues, 3 processes of 3 priorities, 2 mutexes, 2 CPUs, suspension | 36 765 | `TypeOK`, `OwnershipAgrees`, `WaitersAreBlocked`, `BlockedHasWaker`, `ReadyQueuesMatchPriorities`, `BoostHasReason` |
| `CpuEviction` | 2 processes, 2 contexts, fairness | 43 215 | `TypeOK`, `ContextIsCurrent`, `NothingLeftOver`, `ImplementsContract`, `EvictIsConfirmed` |
| `SegmentMemory` | 2 processes, 2 segment ids, sizes 1-3, 5 bytes, 3 blocks of 2 bytes, BEST fit | 1 230 476 | `TypeOK`, `NoOverlap`, `DataIntact`, `SuspendedDataIntact`, `CompactionSuffices` |
| `IoManager` | 2 processes, a STDIN device that joins and may vanish, a STDOUT device, suspension | 3 184 840 | `TypeOK`, `OneRequest`, `NoIdleWhilePending`, `ReadyOnce`, `ListedForState`, `NotSwappedOut` |
| `IoLive` | the same with STDIN and STDOUT only, fairness | 317 543 | `IoIsServed` |
| `MemorySticks` | 2 sticks of 2 bytes, one of which may vanish, 1 CPU and Kernel Memory, fairness | 341 282 | `TypeOK`, `AddressMapsAgree`, `ImplementsFlat`, `AccessEnds` |
| `CpuEvictHang` | without `PromptEvict`, fairness | | `EvictIsConfirmed` is violated |
| `SwapTwoSegments` | without `OneSegmentSwaps`, WORST fit | | `SuspendedDataIntact` is violated |

Every property of a passing run has a mutant in `PROJECT.json`: a plausible slip in one of the mapped definitions
(written next to it, marked *Fault*) under which TLC finds the property violated.

### Why the bounds are enough

- *Dispatch.* Two CPUs and two processes are what an eviction crossing a dispatch of another process to another CPU
  needs; the third process of the FIFO and CMN runs lets one wait in a queue while two run. In `DispatchCompaction` every
  process allocates, sleeps and ends, so a CPU may lose its process between the eviction order and its confirmation (which
  `evict_all_processes` then skips), and a failed allocation meets evictions of both kinds. Counters of an
  eviction (`response`, `waiters`) are not capped; `EvictionHandshake` shows that they stay at most 1.
- *MutexManager.* Three processes are needed for a waiting list of two and for one owner to inherit from either; two mutexes
  for an owner that keeps one when it releases the other. Three priorities over two queues exercise the clipping
  of a priority beyond the last queue. The proofs remove these bounds.
- *CpuEviction.* Two processes distinguish "the next process" from "the same again", two contexts a stale from a current
  one. `MaxHandled` = 1 caps `sem_eviction_handled`, which only grows when nobody waits for it.
- *SegmentMemory.* With 5 bytes and sizes 1-3 a segment can move by less than its own length (overlapping copy), two holes
  can have the same size, and free space can suffice without a fitting hole. With blocks of 2 bytes sizes 1 and 3 leave a
  block partly filled and size 3 spans two. Three blocks are few enough to be exhausted. The proofs remove these bounds.
- *IoManager.* Two processes compete for the STDIN device, so one waits in `pending_request_io_stdin` while the other is
  served, and either may be swapped out meanwhile; p1 makes two calls, so an answer to the first could be
  taken for one to the second. The STDIN device may join late and vanish with a request at any stage. No SLEEP
  device connects, so a SLEEP stays pending and its process may be swapped out and never woken. One round of
  suspension and one MEMORY_UPDATE give every crossing of SWAP_OUT, SWAP_IN and a wake-up of one process.
- *MemorySticks.* The CPU's segment (base 1, size 2) begins in the last byte of one stick and ends in the first of the
  other, so an access of 2 bytes is two chunks; Kernel Memory accesses the bytes on both sides of it, and a chunk that is
  one byte off hits them. An access at offset 0 of the segment may begin before the second stick has joined, and then
  fails at its second chunk, or succeeds if the stick arrives in between. The proofs remove these bounds, except for
  `AccessEnds`.

### Fairness

`DispatchLive`: weak fairness of every thread of the scheduler that can take a step, of the CPU's reception of orders and
of the answers of Kernel Memory and the devices; strong fairness where a thread competes for the `KM` thread or
where `PromptSend` may disable an eviction again and again. `QuantumElapses` says that a process that stays on its CPU
is eventually found to have used up its quantum, which the periodic scan with a growing clock guarantees. Nothing is assumed of
programs: a process may compute for ever. The property is stated from READY on, because the code can lose the
confirmation of a creation (`long_term_scheduler.c:12-18`, a hazard).

`IoLive`: weak fairness of the scheduler's threads, of Kernel Memory and of each device, which answers what it was asked
(be it the user who types). Nothing makes a device connect or memory grow, so `IoIsServed` exempts a process whose
request went with a device or for whose type no device is there, and says nothing of SUSP_READY.

`MemorySticks`: weak fairness of each client's thread, of the sticks, of the threads that receive their
answers, and of the rest of `memory_stick_protocol` once a stick has begun to join.

`CpuEviction` and `CpuEvictHang`: weak fairness of the two threads and of Kernel Memory, and of the scheduler's reception
of messages.

## 4. Where the code does less than is said of it

Two runs check what a document or comment of the repository says and find the code doing something else
(`PROJECT.json`, *findings*, quotes them):

1. `CpuEvictHang`: an eviction may fall between two reads of the instruction cycle and is then never confirmed, although the
   comments at `manage_instructions.c:40` and `:60` describe exactly that case as handled.
2. `SwapTwoSegments`: the segments of one suspended process share swap blocks (`README.md:62`).

The others are not runs of their own. They are what TLC reports when an assumption of a run is dropped or a stronger
property is put in its place, and what the models had to allow:

- `is_evicting` does not keep a new order off a CPU (`net_utils.h:65`: it "should not be assigned a new one until the eviction is
  confirmed"), because the test and the send of `send_pid_to_execute` are not atomic (`utils.c:370-387`). Without `PromptSend`
  TLC finds the quantum manager evicting in between and, in the run `DispatchRR`, refutes `AvailableCpuIsFree`.
- Processes evicted for compaction go to the front (`README.md:29`) under CMN only: `utils.c:70-72` appends them under FIFO and
  RR, and `memory_manager.c:93` appends one whose memory syscall was pending under every algorithm. No property speaks of the place.
- A STDOUT whose memory read fails "ends" its process (`io_manager.c:176`) and still goes on to the device, whose
  confirmation takes the process from EXIT, the last of the seven states (`README.md:18`), to READY. `ExitIsFinal`
  says that nothing else does where nothing is evicted; without its exception TLC refutes it in `DispatchFifo`. With evictions
  a process killed for an unknown mutex may come back too, since it keeps its `cpu` pointer (`cpu_handler.c:104`). `ListedForState` and `NotSwappedOut` of
  `IoManager` exempt such processes (`Killed`).
- Sending the context first need not "avoid race" (`manage_instructions.c:764`): it goes to Kernel Memory unacknowledged, and the
  CONTEXT_SEEK of another CPU to which the process is dispatched meanwhile goes over another socket to another thread. This is read
  from the code; `CpuEviction`, with one CPU, cannot show it.
- The physical address of a STDIN is fixed at the call. If the process is suspended or its segment moved before the device
  answers, what is typed goes to where the segment was (`README.md:58`, `:35`): TLC refutes `DataIntact` without `PromptStdin`,
  both ways.
- A stick is listed before its ip and port were read, and its answer to an access may be read in their place
  (`KM/main.c:253-263`; `README.md:52`, "Hot-pluggable"): without `PromptCredentials` TLC refutes `AccessEnds`.
- What is written to a segment while `compact_memory` moves it, which it does without a lock, is lost: without `QuietCompaction` TLC
  refutes `DataIntact`.
- Compaction does not wait for all CPUs (`README.md:29`): a dispatch pass that began before `can_schedule` was cleared goes on,
  for instance with the very process that was just evicted (`DispatchCompaction` has these behaviours). A CPU whose process left
  before the confirmation keeps `is_evicting` for ever (`utils.c:345`).
- A process that gets a mutex by hand-over inherits nothing from those that still wait (`README.md:27`); `BoostHasReason` bounds
  inheritance from above only.
- Without `SerialJoin` a CPU that joins between the listing of a stick's credentials and `update_cpu_list` hears of the stick
  twice and lists it twice, so that later sticks are at wrong addresses (`README.md:52`, "Hot-pluggable").
- STDIN of 0 bytes and MEM_ALLOC of size 0 leave their CPU unavailable (`io_manager.c:50`, `memory_manager.c:24`).
- A process that ends while suspended keeps its swap blocks (`kernel_scheduler_handler.c:90-121`).
- A request goes with its device, and its process stays blocked (`io_handler.c:46`). A client that waits for a stick that
  vanished waits for ever, and a CPU then confirms no eviction, so the system-wide stop of `README.md:52` need not come.

## 5. Proofs

Every theorem holds for all values of the constants that satisfy the module's `ASSUME` (sentinels are distinct from
elements, numbers are naturals, at least one queue); what else a theorem assumes is written in its statement.

### Dispatch

`DispatchProofs` states the safety properties the passing runs check of `Dispatch`, for any numbers of processes, CPUs and queues and any
priorities. It has three groups of theorems; they differ in what they assume of the timing, the programs and the algorithm.

The first group holds under FIFO, RR and CMN with and without preemption, with CPUs that join and die at any moment:

| Theorem | Statement (under `Regime`) |
|---|---|
| `InvTheorem` | `Spec => []IndInv` |
| `ExecListTheorem` | `Spec => []ExecListMatchesCpus` |
| `ReadyQueuesTheorem` | `Spec => []ReadyQueuesMatchStates` |
| `RunsTheorem` | `Spec => []RunsWhereAssigned` |
| `OnceTheorem` | `Spec => []ExecutedOnce` |
| `ListsAgreeTheorem` | `Spec => []ListsAgree` |
| `FreeCpuTheorem` | `Spec => []AvailableCpuIsFree` |
| `HandshakeTheorem` | `Spec => []EvictionHandshake` |
| `ExitTheorem` | `Spec => ExitIsFinal` |

`Regime` is `PromptSend` and programs without MEM_ALLOC, without STDIN of 0 bytes and without the lock or unlock of an unknown
mutex; STDOUT is included. TLC shows what goes wrong without each:

- without `PromptSend` an eviction overtakes `send_pid_to_execute`;
- with MEM_ALLOC under RR the answer SEGMENT_NO_SPACE may read the CPU of the process (`SegmentResult`), an eviction may
  then put the process into a ready queue, and `TerminateProcess` ends it there: `ReadyQueuesMatchStates` fails;
- the lock of an unknown mutex makes the CPU available before the process is detached from it
  (`HandleMutexUnknown`): `AvailableCpuIsFree` fails;
- STDIN of 0 bytes ends a process that stays assigned to its CPU (`HandleStdinEmpty`), which a later eviction makes READY.

So these properties are proved either without these calls, or, in the third group, without evictions; memory syscalls
together with evictions remain with the run `DispatchCompaction`. `ExitIsFinal` has its exception in either group: a process whose
device still works for it.

`IndInv` is `Types /\ Cpus /\ Lists /\ Origins`:

- `Cpus` says of each CPU (`CpuInv(c)`) what may be under way at once between it and the scheduler. `Assigned`: a process about
  to be sent, ordered, running or reported by a syscall is assigned to that CPU in the scheduler's list. `Exclusive`: it is in
  one of these places only; without it the second of two orders would find the CPU busy. `Eviction`: an eviction is in one
  place only, ordered, confirmed or acknowledged, and is the last message of its socket; this is what `EvictionHandshake`
  needs, because otherwise a confirmation could be served for an eviction that has not happened yet.
  `Avail`, `Connection` and `HandlerArgs` say what an available CPU, a lost one, and the handler's place imply.
- `Lists`: `exec_processes`, `list_processes`, the ready queues and the states agree. `ExecList` is stronger than
  `ExecListMatchesCpus`, which has to allow for the steps of `terminate_process`.
- `Origins`: an answer of Kernel Memory or of a device that is still to come finds its process in the state it expects.
  Without it a device's answer could queue a process that is READY already.

`CpuInv(c)` mentions only what belongs to `c`, so an action that touches one CPU leaves it true of the others (`CpuFrame`), and
most actions reduce to a frame lemma for each part and an argument about the one CPU. The hardest is `handle_cpu_disconnection`,
which empties the sockets and gives the process back while the short-term scheduler may be about to send to that very CPU. TLC
checked `IndInv` before it was proved, under RR with crashes and under preemptive CMN with three processes.

The second group needs neither `Regime` nor anything else about timing, syscalls, compaction or crashes:

| Theorem | Statement |
|---|---|
| `TypeTheorem` | `Spec => []TypeOK` |

It rests on `Typed`, which is `TypeOK` and that a thread about to list, free, terminate or unlist a process does have one.
It is inductive by itself, one lemma per action or group of actions.

The third group has all syscalls and no timing assumption, but nothing that evicts (`NoEvictions`: FIFO, or CMN with FIFO
queues that do not preempt each other; no crashes, no compaction), which is the setting of the run `DispatchFifo`:

| Theorem | Statement (under `NoEvictions`) |
|---|---|
| `CalmTheorem` | `Spec => []CalmInv` |
| `CalmListsTheorem` | `Spec => []ListsAgree` |
| `CalmExitTheorem` | `Spec => ExitIsFinal` |

`IndInv` does not hold there, since an unknown mutex makes a CPU available that its process still has, so the short-term
scheduler may order a second process to that CPU. `CalmInv` therefore says nothing of what a CPU may have under way and
argues by process. `Alone(p)`: `p` is active in one place at most (in the hands of a thread that is about to send or end
it, ordered, running, reported by a syscall, or asked of Kernel Memory), and once. `Located(p)`: that place belongs to the CPU
`p` is assigned to, and `p` is in EXEC. The rest is `Typed`, the lists, `Origins` as above, and `Calm`, that nobody evicts.
A step moves one process from one place to the next; for every other process nothing is added (`Less`), and `LessKeeps` says
that this preserves `Alone` and `Located`. TLC checked `CalmInv` before it was proved, under FIFO and under CMN with two FIFO
queues.

### Mutex manager

`MutexManagerProofs` proves, for all sets of processes and mutexes, all base priorities, numbers of queues and CPUs and all
three algorithms:

| Theorem | Statement |
|---|---|
| `Invariance` | `Spec => []IndInv` |
| `TypeCorrect` | `Spec => []TypeOK` |
| `OwnershipTheorem` | `Spec => []OwnershipAgrees` |
| `WaitersTheorem` | `Spec => []WaitersAreBlocked` |
| `WakerTheorem` | `Spec => []BlockedHasWaker` |
| `BoostTheorem` | `Spec => []BoostHasReason` |
| `QueuesTheorem` | `Spec => []ReadyQueuesMatchPriorities` |

`IndInv` is the conjunction of these properties with three facts none of them is inductive without:

- `HandlerState`: a handler inside `mutex_unlock` serves a process in EXEC that is still the `lockedBy` of its mutex.
  Without it the hand-over could give away a mutex that somebody else holds, and a second handler could be inside for the
  same mutex. It is what `internal_mutex` protects.
- `WaitingState`: a process in IO is blocked, a process that is swapping is suspended. Without it `io_finish_process` or a
  swap answer could wake a process that waits for a mutex, or queue a READY one twice.
- `FixedPriority`: under FIFO and RR no priority ever changes; the ready queue does not depend on it there, but
  `BoostHasReason` does.

The argument has four layers, each with one step per action: types (`TypeStep`), who holds and waits (`StructureStep`),
inherited priorities (`BoostStep`) and ready queues (`QueueStep`). The delicate case is `UnlockRestore`: the restored
priority is the least among the base priority and those that wait for the mutexes kept, so it is either the base
or has a waiter as its reason; for every other process the waiters it inherits from are blocked (`WaitersAreBlocked`),
hence not the one whose priority just changed. `LockContended` is the other one: the process that blocks may itself
be boosted, and the owner's new reason is that process.

### Ready queues

`ReadyQueuesProofs` proves what the queue operations do, once for all uses: a process that is in no queue is in exactly one
place after `AddToQueue`, in none after `RemoveFromQueue`, and nobody else is disturbed; `get_highest_priority_process`
takes a process that is queued (`HighestIsQueued`), and `get_lowest_priority_process` one that is listed (`LowestIsListed`).
The library defines `RemoveFirst` by way of the first index; `RemoveFirstPresent`, `RemoveFirstAbsent` and
`RemoveFirstOthers` of `ListProofs` characterise it.
`FirstLowestExists` (a non-empty list has a first element of least urgency) is an induction over the length of a list, written
as the choice of a shortest list without one, because the library's induction rules cannot be instantiated by the
installed provers.

### CPU

`CpuEvictionProofs` proves, for all sets of processes and contexts and assuming `PromptEvict`, everything the run
`CpuEviction` checks but liveness. TLC refutes each of the properties without `PromptEvict`.

| Theorem | Statement (under `PromptEvict`) |
|---|---|
| `LocalInvariance` | `Spec => []LocalInv` |
| `ContractTheorem` | `Spec => ImplementsContract` |
| `TypeTheorem` | `Spec => []TypeOK` |
| `NothingLeftOverTheorem` | `Spec => []NothingLeftOver` |
| `ProtocolTheorem` | `Spec => []Protocol` |
| `ContextTheorem` | `Spec => []ContextIsCurrent` |

Three invariants are built on one another:

- `LocalInv` relates flags, semaphores and program points of the two threads and needs nothing of the environment.
  `OneThread`: `is_executing` and `sem_execution_finished` agree on whether there is an execution thread.
  `EvictionFlag`: `interruptPending` and `sem_eviction_ready` belong to the eviction being served; a post that is left over would
  let the next eviction be confirmed before its context is saved. With `LocalInv` every step of the two threads is a
  step of `CpuContract` or invisible in it.
- `Protocol` says what can be under way between scheduler and CPU at once (one order, one syscall, one confirmation, and in
  which order). It is proved of the steps of `CpuContract` only, so the refinement carries it over to `CpuEviction`.
- `CtxInv` follows the latest context of a process from the execution thread over the socket into Kernel Memory. It needs
  `Protocol`: when a process is ordered again, nothing that its last execution sent is still in front of an older context.

These theorems are about one CPU: its requests reach Kernel Memory over one socket, in order. What happens between
CPUs is not modelled (section 4).

### IO manager

`IoManagerProofs` proves every safety property of the run `IoManager`, for all sets of processes and devices, all
programs, priorities and bounds:

| Theorem | Statement |
|---|---|
| `NoIdleTheorem` | `Spec => []NoIdleWhilePending` |
| `TypeCorrect` | `Spec => []TypeOK` |
| `Invariance` | `Spec => []IndInv` |
| `RequestsAreKept` | `Spec => []OneRequest` |
| `NoDoubleReady` | `Spec => []ReadyOnce` |
| `ListsFollowStates` | `Spec => []ListedForState` |
| `InMemoryWhenRunnable` | `Spec => []NotSwappedOut` |

The only assumption is `IoAssumption` (the types of the constants, and at most one device of a type connected at the start).

*Idle devices.* `io_finish_process` makes its device available outside `io_mutex`
and looks for pending requests afterwards, so the property is not obvious: it rests on the order in which a handler sets
`is_available`, looks, and waits. Its inductive invariant `IInv` adds:

- `Listed`: a device whose handler serves is in the list of its type. Without it `get_available_io_type` could miss an
  available device and a request would be queued beside it.
- `SendingIsTaken`: a handler that is about to send a pending request has taken its device, so that when it goes back to
  receiving, whatever became pending meanwhile does not find it idle.
- `Shape`: the types of the variables involved.

`TakeDeviceKeeps` is the heart: the pending list grows only when no listed device is available. `HandlerMoves` covers the
handlers' own steps, `RemoveFirstOthers` of `ListProofs` the removal of a lost device from the list, and `Frame` and `CallMoves` all actions
that leave devices and pending lists alone.

*Requests.* `Requests(p)` counts where a request of `p` is: with the thread of the call, in a message to or from Kernel Memory,
on `memory_request_sem`, with the handler of Kernel Memory, in a pending list, at a device, lost with one. The proof of
`OneRequest` follows it from place to place: the library behind it says how a list or a socket changes the count
(`CntAppend`, `CntTail`, `CntRemoveFirst`, `SentFacts`, `TimesFacts`), and each step is then an equation between the parts
before and after (`TotalNow`, `TotalNext`). `RequestInv` adds to the property:

- `FewDevices`: only finitely many devices have a request of a process, or they could not be counted (the set of devices is
  arbitrary).
- `ReadingInv`: a process whose STDIN is on its way to a device or back is in `pending_io_stdin_reading`. Without it the answer
  of a device would find no entry, and the request would be dropped.

One step needs more: `wait_confirmation_swap_in` sets READY, which is only right for a process that has no request. So
`OneRequest` depends on the medium-term scheduler, and the two are proved together, as one invariant `IndInv`.

*Suspension.* `MediumInv(p)` says of each process:

- `ListedInv`: unless Kernel Memory was told to end it, its one SWAP_OUT is with `suspension_manager`, in a message, with the
  handler, or arrived in `suspended_processes`, exactly while its state is SUSP_BLOCK or SUSP_READY (`SwapOuts`).
- `SwappedOut`: while it is in SWAP, no SWAP_OUT for it is still to be served, and none was answered with a failure.
- `Returning`: at most one answer to a SWAP_IN names it (`Backs`); it is SUSP_READY, in memory, and listed until its turn comes.
- `Distinct`: no such answer names it twice.
- `AskedInv`: a SWAP_IN is sent at every MEMORY_UPDATE and names everybody in SUSP_READY, so several may name one process,
  and some are stale when Kernel Memory reads them. None of them is behind a SWAP_OUT of the process, since a SWAP_OUT is sent
  only after the process came back and waited again; so one that finds the process in SWAP belongs to the suspension under
  way. This is what keeps a stale SWAP_IN from fetching a process in SUSP_BLOCK.

`KhInv` says what the handler of Kernel Memory remembers between two locks. A process that Kernel Memory was told to end is left out
where the code leaves it out: a STDOUT whose transfer failed still goes to its device, which makes the process READY again.
Most steps do nothing with suspension (`Quiet`, `QuietMedium`: the counts stay, and `StateOn` says which changes of state are
harmless); the others have a lemma each. `Filter` and `sort_processes_by_priority` are defined by the rank of each position
(`Arranged`), so that `FilterIs` and `SortIs` need no induction: the ranks of a finite order are one-to-one, so every rank
occurs (`RankExists`). TLC checked `IndInv` on the
instance of the run before it was proved.

### Memory Sticks

`MemorySticksProofs` proves everything the run `MemorySticks` checks but liveness, for any Memory Sticks of any sizes, any
CPUs, segment tables and accesses, joining in any order and at any moment, and with sticks that are lost:

| Theorem | Statement |
|---|---|
| `TypeInvTheorem` | `Spec => []TypeInv` |
| `TypeTheorem` | `Spec => []TypeOK` |
| `MapsTheorem` | under `SerialJoin` and `PromptCredentials`: `Spec => []AddressMapsAgree` |
| `FlatTheorem` | under `SerialJoin` and `PromptCredentials`: `Spec => ImplementsFlat` |

TLC refutes the last two without `SerialJoin`; without `PromptCredentials` a stick may be out of step for ever in the middle of
joining, and what `Maps` says of the one that joins is no longer so. Beside these they use `SticksAssumption` only: sizes are positive,
segments and payloads have their types, and the sum in the limit check of the MMU does not wrap.

The ground is what the address arithmetic computes. `cursor` (where each stick of a list begins) is a recursive function,
and `get_memory_stick_by_address` takes the stick that holds an address; `StartsExist` and the lemmas after it show that
the addresses increase, that an address below the capacity of the list is held by exactly one stick, at the offset that the
code computes, and that appending a stick moves no address (`Located`, `HoldsOnce`, `HoldsInPrefix`). These are inductions over a list,
each written as the choice of a least counterexample (`LeastNat` of `ListProofs`), as in `ReadyQueuesProofs`.

Three invariants are built on one another:

- `TypeInv` has the types, and for each client (`AccessInv`) what a chunk in flight has to do with its access: it is within
  what is left, does not cross the end of its stick, and carries the right part of the data. Without it the range check of
  `handle_read` and `handle_write` might refuse a chunk, and an access would fail that should not. It needs no `SerialJoin`.
- `Maps` says how the lists grow. `OneJoins`: one stick or CPU is in the middle of joining. `KmList`, `Totals`: Kernel
  Memory's list has no stick twice, and `list_memory_stick_credentials` and `total_memory_size` differ from it by the one that
  joins. `CpuLists`: `update_cpu_list` tells each CPU once. `CpuKnows`: the list of a CPU, or the one on its way to it, and the
  updates behind it are the beginning of Kernel Memory's list, up to the stick that the CPU has not been told of yet. This is
  stronger than `AddressMapsAgree`, which says nothing of what the messages contain.
- `OneMemory`: a stick that is not listed has not been written to (`Fresh`), so the memory grows by zeros; and a message is for
  the stick of the client's list that holds the next address of the access (`Placed`), whichever sticks have joined
  since it was sent.

`Maps` and `OneMemory` hold until a stick is lost, and `FlatMemory` then allows anything (`Corrupt`). Before that, the listing of
a stick in Kernel Memory is `Grow`; a CPU's connection and its reception of an update are `See`; the beginning of an access
is `Begin`, where `Translated` shows that `mmu_translate` gives only addresses of the process's segments; `handle_read` and
`handle_write` are `Transfer`; the end of the loop over the chunks is `Finish`; and sending a chunk, receiving an answer and the
other steps of joining are invisible. The hardest is `handle_write`: the bytes of one stick change, and those of the
one memory must change at the addresses of the chunk and nowhere else, which rests on each byte having one address.
TLC checked the three invariants on the instance of the run before they were proved.

### Segments

`SegmentMemoryProofs` proves everything the run `SegmentMemory` checks, for any processes, segment ids and sizes, any sizes
of memory, blocks and SWAP, and BEST and WORST fit:

| Theorem | Statement (under `Regime`; the fourth and fifth also under `PromptStdin`) |
|---|---|
| `Invariance` | `Spec => []IndInv` |
| `TypeCorrect` | `Spec => []TypeOK` |
| `SegmentsApart` | `Spec => []NoOverlap` |
| `DataKept` | `Spec => []DataIntact` |
| `SuspendedDataKept` | `Spec => []SuspendedDataIntact` |
| `CompactionIsEnough` | `Spec => []CompactionSuffices` |

`Regime` is `SerialAllocation`, `OneSegmentSwaps` and `QuietCompaction`; `DataKept` and `SuspendedDataKept` also need
`PromptStdin`. The run has the same assumptions. Without the first TLC finds two threads of `segment_create` that are given
the same hole, without the second the run `SwapTwoSegments` finds two segments of one process in the same blocks, without the third
a write that the move of a segment loses, and without `PromptStdin` input
in the wrong place. STDINs that write during a compaction, to segments that are not being moved, and processes that end while
they are suspended are part of what is proved.

`IndInv` adds to the properties what they rest on:

- `Owner(p)`: a process has segments in memory or in SWAP, not both, with different ids, and data only in segments it
  has. Without it a new segment could find data recorded under its id.
- `Layout`: segments end within memory and, taken two by two, lie one before the other. This is `NoOverlap` by bounds
  instead of bytes, which is what the comparisons of the code establish.
- `HoleKept`: between the choice of a hole and the insertion of the segment, a thread's hole stays free, although deletions,
  ends of processes and suspensions happen in between. `OneAllocator` is what `SerialAllocation` gives.
- `RoomLeft`: while a thread waits for a compaction and while the segments move, the bytes in use and the size asked for fit in
  memory together. With it, when the last segment is placed, what is left above the cursor is one hole that is large enough
  (`CompactionMadeRoom`), which is `CompactionSuffices`.
- `Moving`: below the cursor of `compact_memory` there is no gap, and what has still to be moved is untouched above it. So each
  copy goes down, onto bytes that are free or its own.
- `BlocksApart`: a suspended segment has as many blocks as it needs, none twice, and none of another process.
- `Data`, under `PromptStdin`: beside the two properties, a STDIN under way has the address its segment still has (`StdinKnown`),
  and what `compact_memory` has read of a segment is still what the segment holds (`CopyKept`), since whoever may write meanwhile
  writes elsewhere.

What the operators compute is proved first. Holes: `HoleIsFree` and `FreeIsInHole` (a byte is in a hole iff it is in no segment),
`FreeSpaceIs` (`total_free_space` is the number of these bytes), `SelectedFits` (the hole chosen is large enough, and one is chosen
if there is any). Blocks: `KthExists` and `FirstBlocksAre` (`get_free_swap_blocks` returns as many distinct free blocks as
were asked for, or nothing), an induction written as the choice of a least counterexample. The hardest steps are `MoveSegment`,
where a segment changes its base, its bytes and its place among those to be moved at once and the number of used bytes must not change
(`ExchangeCount`), and `process_suspend` and `process_desuspend`, which cut a segment into blocks and put it together
(`BlockOfByte`). TLC checked `IndInv` on the instance of the run before it was proved.

### Only model-checked

- `ListsAgree` of `Dispatch` where memory syscalls meet evictions (`DispatchCompaction`).
- All liveness properties, which are out of the prover's reach.

## 6. Not modelled

- The compaction thread of Kernel Memory beside `kernel_scheduler_handler`: both wait on the one `response_sem` of a stick.
- The contexts of several CPUs at once, each on its own socket to Kernel Memory (section 4).
- `memory_corrupted_thread`: the scheduler evicts everybody and exits.
- Two compactions at once.
- `handle_cpu_disconnection` frees the `t_client_info` of its CPU (`KS/module_handlers/cpu_handler.c:324`), to which other threads may
  still point; in `Dispatch` a lost CPU stays, inert, and what is sent to it disappears.
- `CompactionFinished` of `Dispatch` is the receipt of COMPACTION_FINISHED and the compaction thread's `can_schedule = true` in one
  step; nothing else waits for the semaphore in between.
- `suspension_manager` of `IoManager` tests a state and sets SUSP_BLOCK in one step, as the code does under `scheduler_mutex`
  (`medium_term_scheduler.c:22-29`). EXIT is set without that mutex at `kernel_memory_handler.c:122` and `io_manager.c:177`, so in
  the code it may fall in between and be overwritten.
- A Memory Stick that is lost in the middle of its protocol: `StickStops` begins when it has joined.
- A STDOUT reads at an address fixed at the call, as a STDIN writes; what it prints is not modelled.
- A SWAP that disconnects; start-up and shutdown of the scheduler, logging, the encoding of messages.

## 7. Plan

What a further extension would take up, in this order:

1. A second thread of Kernel Memory in `MemorySticks`, and with it `response_sem` apart from the message.
2. A second compaction request in `Dispatch`; `ListsAgree` proved where memory syscalls meet evictions, under `PromptAnswer`.
3. A second CPU with a socket of its own in `CpuEviction`, for the way of a context from one CPU to another.
