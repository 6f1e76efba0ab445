---------------------------- MODULE MutexManager ----------------------------
(***************************************************************************)
(* The mutexes of the Kernel Scheduler: mutex_lock and mutex_unlock with   *)
(* their FIFO waiting lists, the priority inheritance of CMN, and what     *)
(* moves a process between states meanwhile (dispatch, eviction, IO,       *)
(* suspension, exit).                                                      *)
(*                                                                         *)
(* mutex_unlock is three actions, because it lets its caller run on before *)
(* it has released anything, and takes scheduler_mutex twice.  All along   *)
(* it holds the internal_mutex of the mutex.  serving[p] is where the      *)
(* handler thread of p's CPU is in it.  That thread also delivers the      *)
(* CPU's later syscalls and its eviction confirmation, so p neither makes  *)
(* another syscall nor leaves EXEC until it has finished.                  *)
(* How orders and evictions travel to the CPUs is in Dispatch: here a      *)
(* process in EXEC runs.                                                   *)
(***************************************************************************)
EXTENDS ReadyQueues, FiniteSets

CONSTANTS Mutex,      \* the mutex names
          NoMutex,
          Base,       \* [Proc -> Nat], base_priority (0 is the highest)
          NumCpus,    \* connected CPUs
          Suspension  \* TRUE: blocked processes may outlive suspension_timeout

ASSUME MutexAssumption ==
    /\ NoMutex \notin Mutex
    /\ Base \in [Proc -> Nat]
    /\ NumCpus \in Nat \ {0}
    /\ Suspension \in BOOLEAN

VARIABLES
    state,     \* t_process.state
    eff,       \* t_process.effective_priority
    readyQ,    \* ready_queue
    owned,     \* t_process.owned_mutexes
    created,   \* list_mutexes
    lockedBy,  \* t_mutex.lockedBy; isLocked is lockedBy # NoProc
    waiting,   \* t_mutex.waitingProcesses
    serving,   \* where the CPU's handler is in p's mutex_unlock
    halted,    \* in EXEC, but stopped at a syscall nobody answers
    inIo,      \* processes an IO device has not finished with
    swap       \* "in" memory, SWAP_OUT "asked", or in suspended_processes ("out")

vars == <<state, eff, readyQ, owned, created, lockedBy, waiting, serving,
          halted, inIo, swap>>

States == {"NEW", "READY", "EXEC", "BLOCK", "SUSP_BLOCK", "SUSP_READY", "EXIT"}
Idle == [at |-> "idle", mutex |-> NoMutex]

Init ==
    /\ state = [p \in Proc |-> "NEW"]
    /\ eff = Base
    /\ readyQ = EmptyQueues
    /\ owned = [p \in Proc |-> {}]
    /\ created = {}
    /\ lockedBy = [m \in Mutex |-> NoProc]
    /\ waiting = [m \in Mutex |-> <<>>]
    /\ serving = [p \in Proc |-> Idle]
    /\ halted = {}
    /\ inIo = {}
    /\ swap = [p \in Proc |-> "in"]

-----------------------------------------------------------------------------
(* Scheduling.                                                             *)

\* process_set_state(READY) and add_process_to_ready_queue.
MakeReady(p) ==
    /\ state' = [state EXCEPT ![p] = "READY"]
    /\ readyQ' = add_process_to_ready_queue(readyQ, p, eff[p])

\* wait_process_create_confirmation
Admit(p) ==
    /\ state[p] = "NEW"
    /\ MakeReady(p)
    /\ UNCHANGED <<eff, owned, created, lockedBy, waiting, serving, halted,
                   inIo, swap>>

\* short_term_scheduler_main: the head of the first queue takes a CPU.
Dispatch(p) ==
    /\ p = get_highest_priority_process_from_ready_queue(readyQ)
    /\ p # NoProc
    /\ state[p] = "READY"
    /\ Cardinality({q \in Proc : state[q] = "EXEC"}) < NumCpus
    /\ state' = [state EXCEPT ![p] = "EXEC"]
    /\ readyQ' = remove_process_from_ready_queue(readyQ, p, eff[p])
    /\ UNCHANGED <<eff, owned, created, lockedBy, waiting, serving, halted,
                   inIo, swap>>

\* An eviction (quantum, preemption by another queue, compaction) completes.
Evict(p) ==
    /\ state[p] = "EXEC"
    /\ serving[p] = Idle
    /\ MakeReady(p)
    /\ halted' = halted \ {p}
    /\ UNCHANGED <<eff, owned, created, lockedBy, waiting, serving, inIo, swap>>

\* The CPU executes p's program and its handler is free to serve a syscall.
Running(p) == state[p] = "EXEC" /\ serving[p] = Idle /\ p \notin halted

\* SLEEP, STDIN, STDOUT: the process blocks until its device is done.
BlockOnIo(p) ==
    /\ Running(p)
    /\ state' = [state EXCEPT ![p] = "BLOCK"]
    /\ inIo' = inIo \cup {p}
    /\ UNCHANGED <<eff, readyQ, owned, created, lockedBy, waiting, serving,
                   halted, swap>>

\* process_set_ready, and the ready queue unless p is suspended.
process_set_ready(p) ==
    IF state[p] = "SUSP_BLOCK"
    THEN state' = [state EXCEPT ![p] = "SUSP_READY"] /\ UNCHANGED readyQ
    ELSE MakeReady(p)

io_finish_process(p) ==
    /\ p \in inIo
    /\ inIo' = inIo \ {p}
    /\ process_set_ready(p)
    /\ UNCHANGED <<eff, owned, created, lockedBy, waiting, serving, halted, swap>>

\* EXIT does not release the mutexes of the process.
ProcessEnd(p) ==
    /\ Running(p)
    /\ state' = [state EXCEPT ![p] = "EXIT"]
    /\ UNCHANGED <<eff, readyQ, owned, created, lockedBy, waiting, serving,
                   halted, inIo, swap>>

-----------------------------------------------------------------------------
(* The medium-term scheduler.                                              *)

\* suspension_manager
Suspend(p) ==
    /\ Suspension
    /\ state[p] = "BLOCK"
    /\ swap[p] = "in"
    /\ state' = [state EXCEPT ![p] = "SUSP_BLOCK"]
    /\ swap' = [swap EXCEPT ![p] = "asked"]
    /\ UNCHANGED <<eff, readyQ, owned, created, lockedBy, waiting, serving,
                   halted, inIo>>

\* A rejected SWAP_OUT gives the process the state it would have had.
wait_confirmation_swap_out(p, ok) ==
    /\ swap[p] = "asked"
    /\ IF ok
       THEN swap' = [swap EXCEPT ![p] = "out"] /\ UNCHANGED <<state, readyQ>>
       ELSE /\ swap' = [swap EXCEPT ![p] = "in"]
            /\ IF state[p] = "SUSP_READY" THEN MakeReady(p)
               ELSE state' = [state EXCEPT ![p] = "BLOCK"] /\ UNCHANGED readyQ
    /\ UNCHANGED <<eff, owned, created, lockedBy, waiting, serving, halted, inIo>>

\* SWAP_IN is asked for, and confirmed, for processes in SUSP_READY only.
wait_confirmation_swap_in(p) ==
    /\ swap[p] = "out"
    /\ state[p] = "SUSP_READY"
    /\ swap' = [swap EXCEPT ![p] = "in"]
    /\ MakeReady(p)
    /\ UNCHANGED <<eff, owned, created, lockedBy, waiting, serving, halted, inIo>>

-----------------------------------------------------------------------------
(* The mutex syscalls.                                                     *)

mutex_create(p, m) ==
    /\ Running(p)
    /\ created' = created \cup {m}
    /\ UNCHANGED <<state, eff, readyQ, owned, lockedBy, waiting, serving,
                   halted, inIo, swap>>

\* Fault: internal_mutex is not taken.
InternalFree_Ignored(m) == TRUE

\* internal_mutex of m is free: no handler is inside mutex_unlock for it.
InternalFree(m) == \A q \in Proc : serving[q].mutex # m

\* Fault: the new owner does not list the mutex.
HandTo_Unlisted(p, m) ==
    /\ lockedBy' = [lockedBy EXCEPT ![m] = p]
    /\ UNCHANGED owned

HandTo(p, m) ==
    /\ lockedBy' = [lockedBy EXCEPT ![m] = p]
    /\ owned' = [owned EXCEPT ![p] = @ \cup {m}]

\* mutex_lock of a mutex that is free, or that p already owns: p goes on.
LockFree(p, m) ==
    /\ Running(p)
    /\ m \in created
    /\ InternalFree(m)
    /\ lockedBy[m] \in {NoProc, p}
    /\ HandTo(p, m)
    /\ UNCHANGED <<state, eff, readyQ, created, waiting, serving, halted, inIo,
                   swap>>

\* Fault: a READY process is left in the queue of its old priority.
ChangePriority_NotMoved(p, prio) ==
    /\ eff' = [eff EXCEPT ![p] = prio]
    /\ UNCHANGED readyQ

\* Fault: the owner gets one level above the waiter (0 wraps around).
ChangePriority_OneAbove(p, prio) ==
    /\ eff' = [eff EXCEPT ![p] = prio - 1]
    /\ UNCHANGED readyQ

\* process_set_priority; a process that is READY moves to its new queue.
ChangePriority(p, prio) ==
    /\ eff' = [eff EXCEPT ![p] = prio]
    /\ readyQ' = IF state[p] = "READY"
                 THEN add_process_to_ready_queue(
                        remove_process_from_ready_queue(readyQ, p, eff[p]), p, prio)
                 ELSE readyQ

\* Fault: the process is not added to waitingProcesses.
JoinList_Lost(p, m) == UNCHANGED waiting

JoinList(p, m) == waiting' = [waiting EXCEPT ![m] = Append(@, p)]

\* mutex_lock of a mutex somebody else holds: p waits, and under CMN the
\* owner inherits p's priority if it is higher.
LockContended(p, m) ==
    LET owner == lockedBy[m]
    IN  /\ Running(p)
        /\ m \in created
        /\ InternalFree(m)
        /\ owner \notin {NoProc, p}
        /\ JoinList(p, m)
        /\ state' = [state EXCEPT ![p] = "BLOCK"]
        /\ IF Algorithm = "CMN" /\ eff[p] < eff[owner]
           THEN ChangePriority(owner, eff[p])
           ELSE UNCHANGED <<eff, readyQ>>
        /\ UNCHANGED <<owned, created, lockedBy, serving, halted, inIo, swap>>

\* mutex_unlock by a process that does not hold m returns without sending
\* it to execute again.
UnlockRefused(p, m) ==
    /\ Running(p)
    /\ m \in created
    /\ InternalFree(m)
    /\ lockedBy[m] # p
    /\ halted' = halted \cup {p}
    /\ UNCHANGED <<state, eff, readyQ, owned, created, lockedBy, waiting,
                   serving, inIo, swap>>

\* mutex_unlock by the owner: it is sent to execute first ...
UnlockBegin(p, m) ==
    /\ Running(p)
    /\ m \in created
    /\ InternalFree(m)
    /\ lockedBy[m] = p
    /\ serving' = [serving EXCEPT ![p] = [at |-> "restore", mutex |-> m]]
    /\ UNCHANGED <<state, eff, readyQ, owned, created, lockedBy, waiting,
                   halted, inIo, swap>>

\* The best priority among p's own and those that wait for what it keeps.
RestoredPriority(p, kept) ==
    LET claims == {Base[p]} \cup
            {eff[w] : w \in {q \in Proc : \E n \in kept : \E i \in DOMAIN waiting[n] :
                                             waiting[n][i] = q}}
    IN  CHOOSE x \in claims : \A y \in claims : x <= y

\* ... then it loses m and what it inherited through m, ...
UnlockRestore(p) ==
    LET kept == owned[p] \ {serving[p].mutex}
    IN  /\ serving[p].at = "restore"
        /\ owned' = [owned EXCEPT ![p] = kept]
        /\ IF Algorithm = "CMN" /\ RestoredPriority(p, kept) # eff[p]
           THEN ChangePriority(p, RestoredPriority(p, kept))
           ELSE UNCHANGED <<eff, readyQ>>
        /\ serving' = [serving EXCEPT ![p].at = "handover"]
        /\ UNCHANGED <<state, created, lockedBy, waiting, halted, inIo, swap>>

\* Fault: the first process is read (list_get) but not removed.
LeaveList_Stays(m) == UNCHANGED waiting

LeaveList(m) == waiting' = [waiting EXCEPT ![m] = Tail(@)]

\* ... and m goes to the first process that waits for it.
UnlockHandover(p) ==
    LET m == serving[p].mutex
    IN  /\ serving[p].at = "handover"
        /\ IF waiting[m] = <<>>
           THEN /\ lockedBy' = [lockedBy EXCEPT ![m] = NoProc]
                /\ UNCHANGED <<waiting, owned, state, readyQ>>
           ELSE LET next == Head(waiting[m])
                IN  /\ LeaveList(m)
                    /\ HandTo(next, m)
                    /\ process_set_ready(next)
        /\ serving' = [serving EXCEPT ![p] = Idle]
        /\ UNCHANGED <<eff, created, halted, inIo, swap>>

-----------------------------------------------------------------------------
Next ==
    \E p \in Proc :
        \/ Admit(p) \/ Dispatch(p) \/ Evict(p) \/ BlockOnIo(p)
        \/ io_finish_process(p) \/ ProcessEnd(p)
        \/ Suspend(p) \/ wait_confirmation_swap_in(p)
        \/ \E ok \in BOOLEAN : wait_confirmation_swap_out(p, ok)
        \/ UnlockRestore(p) \/ UnlockHandover(p)
        \/ \E m \in Mutex :
              \/ mutex_create(p, m) \/ LockFree(p, m) \/ LockContended(p, m)
              \/ UnlockRefused(p, m) \/ UnlockBegin(p, m)

Spec == Init /\ [][Next]_vars

-----------------------------------------------------------------------------
(* Properties.                                                             *)

\* Every variable keeps the type of the C field it stands for.
TypeOK ==
    /\ state \in [Proc -> States]
    /\ eff \in [Proc -> Nat]
    /\ readyQ \in [Queues -> Seq(Proc)]
    /\ owned \in [Proc -> SUBSET Mutex]
    /\ created \subseteq Mutex
    /\ lockedBy \in [Mutex -> Proc \cup {NoProc}]
    /\ waiting \in [Mutex -> Seq(Proc)]
    /\ serving \in [Proc -> [at : {"idle", "restore", "handover"},
                             mutex : Mutex \cup {NoMutex}]]
    /\ halted \subseteq Proc
    /\ inIo \subseteq Proc
    /\ swap \in [Proc -> {"in", "asked", "out"}]

\* p waits in the list of m.
Waits(p, m) == \E i \in DOMAIN waiting[m] : waiting[m][i] = p

\* The two records of who holds a mutex agree: t_mutex.lockedBy and the
\* owned_mutexes of the process.  They may differ only while the handler of
\* the owner's CPU is between the two halves of mutex_unlock.
OwnershipAgrees ==
    \A p \in Proc, m \in Mutex :
        m \in owned[p] <=> /\ lockedBy[m] = p
                           /\ serving[p] # [at |-> "handover", mutex |-> m]

\* A process waits for one mutex at most, once, blocked or suspended, never
\* for one it holds, and nobody waits for a mutex that is free: mutex_unlock
\* always finds a process it may wake.
WaitersAreBlocked ==
    \A m \in Mutex : \A i \in DOMAIN waiting[m] :
        /\ state[waiting[m][i]] \in {"BLOCK", "SUSP_BLOCK"}
        /\ lockedBy[m] \notin {NoProc, waiting[m][i]}
        /\ waiting[m][i] \notin inIo
        /\ \A n \in Mutex : \A j \in DOMAIN waiting[n] :
              waiting[n][j] = waiting[m][i] => n = m /\ j = i

\* Whoever is blocked has somebody to wait for: it is in the list of a mutex
\* that somebody holds, or a device has it.  (An owner that ends releases
\* nothing, so being woken is not promised.)
BlockedHasWaker ==
    \A p \in Proc : state[p] \in {"BLOCK", "SUSP_BLOCK"} =>
        p \in inIo \/ \E m \in Mutex : Waits(p, m)

\* A READY process is in the queue of its *effective* priority, once, and
\* nobody else is queued, whatever inheritance did to its priority.
ReadyQueuesMatchPriorities ==
    \A p \in Proc :
        IF state[p] = "READY" THEN QueuedOnceAt(readyQ, p, eff[p])
        ELSE NotQueued(readyQ, p)

\* A process keeps a priority above its own only while a process of at
\* least that priority waits for a mutex it holds: the inheritance ends
\* with the release that ends its reason.
BoostHasReason ==
    \A p \in Proc :
        /\ eff[p] <= Base[p]
        /\ eff[p] < Base[p] =>
              \E m \in owned[p] : \E i \in DOMAIN waiting[m] :
                  eff[waiting[m][i]] <= eff[p]

\* What the proofs add to make these facts inductive: where a handler that
\* is inside mutex_unlock stands, ...
HandlerState ==
    \A p \in Proc : serving[p] # Idle =>
        /\ serving[p].at \in {"restore", "handover"}
        /\ serving[p].mutex \in Mutex
        /\ lockedBy[serving[p].mutex] = p
        /\ state[p] = "EXEC"

\* ... what the state of a process says of its IO and its swapping, ...
WaitingState ==
    \A p \in Proc : /\ p \in inIo => state[p] \in {"BLOCK", "SUSP_BLOCK"}
                    /\ swap[p] # "in" => state[p] \in {"SUSP_BLOCK", "SUSP_READY"}

\* ... and that priorities change under CMN only.
FixedPriority == Algorithm # "CMN" => eff = Base
=============================================================================
