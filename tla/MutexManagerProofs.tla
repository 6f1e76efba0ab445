------------------------- MODULE MutexManagerProofs -------------------------
(***************************************************************************)
(* Proofs about MutexManager, for any number of processes, mutexes, CPUs   *)
(* and priority levels, and for every scheduling algorithm.                *)
(***************************************************************************)
EXTENDS MutexManager, ReadyQueuesProofs

(***************************************************************************)
(* The priority mutex_unlock restores.                                     *)
(***************************************************************************)

\* It is at least as good as the base priority, and it is the base priority
\* or that of a process waiting for a mutex that is kept.
LEMMA RestoredPriorityIsBest ==
    ASSUME TypeOK, NEW p \in Proc, NEW kept \in SUBSET Mutex
    PROVE  /\ RestoredPriority(p, kept) \in Nat
           /\ RestoredPriority(p, kept) <= Base[p]
           /\ \/ RestoredPriority(p, kept) = Base[p]
              \/ \E n \in kept : \E i \in DOMAIN waiting[n] :
                    RestoredPriority(p, kept) = eff[waiting[n][i]]
<1> DEFINE claimants == {q \in Proc : \E n \in kept : \E i \in DOMAIN waiting[n] :
                                         waiting[n][i] = q}
           claims == {Base[p]} \cup {eff[w] : w \in claimants}
<1>1. claims \in SUBSET Nat /\ claims # {}
  BY MutexAssumption DEF MutexAssumption, TypeOK
<1>2. \E x \in claims : \A y \in claims : x <= y
  BY <1>1, LeastNat
<1>3. RestoredPriority(p, kept) = CHOOSE x \in claims : \A y \in claims : x <= y
  BY DEF RestoredPriority
<1>4. RestoredPriority(p, kept) \in claims
        /\ \A y \in claims : RestoredPriority(p, kept) <= y
  BY <1>2, <1>3
<1> HIDE DEF claims
<1>5. RestoredPriority(p, kept) \in Nat
  BY <1>1, <1>4
<1>6. RestoredPriority(p, kept) <= Base[p]
  BY <1>4 DEF claims
<1>7. \/ RestoredPriority(p, kept) = Base[p]
      \/ \E w \in claimants : RestoredPriority(p, kept) = eff[w]
  BY <1>4 DEF claims
<1> QED
  BY <1>5, <1>6, <1>7

(***************************************************************************)
(* Type correctness.                                                       *)
(***************************************************************************)

\* The initial values have their types.
LEMMA TypeInit == Init => TypeOK
<1> SUFFICES ASSUME Init PROVE TypeOK
  OBVIOUS
<1>1. EmptyQueues \in [Queues -> Seq(Proc)]
  BY DEF EmptyQueues
<1> QED
  BY <1>1, MutexAssumption DEF Init, TypeOK, Idle, States, MutexAssumption

\* Making a process READY keeps the types of state and ready queue.
LEMMA MakeReadyType ==
    ASSUME TypeOK, NEW p \in Proc, MakeReady(p)
    PROVE  state' \in [Proc -> States] /\ readyQ' \in [Queues -> Seq(Proc)]
<1>1. eff[p] \in Nat /\ readyQ \in [Queues -> Seq(Proc)]
  BY DEF TypeOK
<1>2. add_process_to_ready_queue(readyQ, p, eff[p]) \in [Queues -> Seq(Proc)]
  BY <1>1, AddToQueue
<1> QED
  BY <1>2 DEF MakeReady, TypeOK, States

\* process_set_ready keeps the types of state and ready queue.
LEMMA SetReadyType ==
    ASSUME TypeOK, NEW p \in Proc, process_set_ready(p)
    PROVE  state' \in [Proc -> States] /\ readyQ' \in [Queues -> Seq(Proc)]
<1>1. CASE state[p] = "SUSP_BLOCK"
  BY <1>1 DEF process_set_ready, TypeOK, States
<1>2. CASE state[p] # "SUSP_BLOCK"
  BY <1>2, MakeReadyType DEF process_set_ready
<1> QED
  BY <1>1, <1>2

\* process_set_priority keeps the types of priority and ready queue.
LEMMA ChangePriorityType ==
    ASSUME TypeOK, NEW p \in Proc, NEW prio \in Nat, ChangePriority(p, prio)
    PROVE  eff' \in [Proc -> Nat] /\ readyQ' \in [Queues -> Seq(Proc)]
<1> DEFINE removed == remove_process_from_ready_queue(readyQ, p, eff[p])
<1>1. eff[p] \in Nat /\ readyQ \in [Queues -> Seq(Proc)] /\ eff \in [Proc -> Nat]
  BY DEF TypeOK
<1>2. removed \in [Queues -> Seq(Proc)]
  BY <1>1, RemoveFromQueue
<1> HIDE DEF removed
<1>3. add_process_to_ready_queue(removed, p, prio) \in [Queues -> Seq(Proc)]
  BY <1>2, AddToQueue
<1> QED
  BY <1>1, <1>3 DEF ChangePriority, removed

\* Every step keeps the types, one case per action.
LEMMA TypeStep ==
    ASSUME TypeOK, HandlerState, [Next]_vars
    PROVE  TypeOK'
<1>0. CASE UNCHANGED vars
  BY <1>0 DEF vars, TypeOK
<1>1. ASSUME NEW p \in Proc, Admit(p) PROVE TypeOK'
  BY <1>1, MakeReadyType DEF Admit, TypeOK
<1>2. ASSUME NEW p \in Proc, Dispatch(p) PROVE TypeOK'
  <2>1. eff[p] \in Nat /\ readyQ \in [Queues -> Seq(Proc)]
    BY DEF TypeOK
  <2>2. remove_process_from_ready_queue(readyQ, p, eff[p]) \in [Queues -> Seq(Proc)]
    BY <2>1, RemoveFromQueue
  <2> QED
    BY <1>2, <2>2 DEF Dispatch, TypeOK, States
<1>3. ASSUME NEW p \in Proc, Evict(p) PROVE TypeOK'
  BY <1>3, MakeReadyType DEF Evict, TypeOK
<1>4. ASSUME NEW p \in Proc, BlockOnIo(p) PROVE TypeOK'
  BY <1>4 DEF BlockOnIo, TypeOK, States
<1>5. ASSUME NEW p \in Proc, io_finish_process(p) PROVE TypeOK'
  BY <1>5, SetReadyType DEF io_finish_process, TypeOK
<1>6. ASSUME NEW p \in Proc, ProcessEnd(p) PROVE TypeOK'
  BY <1>6 DEF ProcessEnd, TypeOK, States
<1>7. ASSUME NEW p \in Proc, Suspend(p) PROVE TypeOK'
  BY <1>7 DEF Suspend, TypeOK, States
<1>8. ASSUME NEW p \in Proc, wait_confirmation_swap_in(p) PROVE TypeOK'
  BY <1>8, MakeReadyType DEF wait_confirmation_swap_in, TypeOK
<1>9. ASSUME NEW p \in Proc, NEW ok \in BOOLEAN, wait_confirmation_swap_out(p, ok)
      PROVE  TypeOK'
  <2>1. state' \in [Proc -> States] /\ readyQ' \in [Queues -> Seq(Proc)]
    <3>1. CASE ok
      BY <1>9, <3>1 DEF wait_confirmation_swap_out, TypeOK
    <3>2. CASE ~ok /\ state[p] = "SUSP_READY"
      BY <1>9, <3>2, MakeReadyType DEF wait_confirmation_swap_out
    <3>3. CASE ~ok /\ state[p] # "SUSP_READY"
      BY <1>9, <3>3 DEF wait_confirmation_swap_out, TypeOK, States
    <3> QED
      BY <3>1, <3>2, <3>3
  <2>2. swap' \in [Proc -> {"in", "asked", "out"}]
    BY <1>9 DEF wait_confirmation_swap_out, TypeOK
  <2> QED
    BY <1>9, <2>1, <2>2 DEF wait_confirmation_swap_out, TypeOK
<1>10. ASSUME NEW p \in Proc, UnlockRestore(p) PROVE TypeOK'
  <2> DEFINE kept == owned[p] \ {serving[p].mutex}
  <2>1. kept \in SUBSET Mutex
    BY DEF TypeOK
  <2> HIDE DEF kept
  <2>2. RestoredPriority(p, kept) \in Nat
    BY <2>1, RestoredPriorityIsBest
  <2>3. eff' \in [Proc -> Nat] /\ readyQ' \in [Queues -> Seq(Proc)]
    <3>1. CASE ChangePriority(p, RestoredPriority(p, kept))
      BY <2>2, <3>1, ChangePriorityType
    <3>2. CASE UNCHANGED <<eff, readyQ>>
      BY <3>2 DEF TypeOK
    <3> QED
      BY <1>10, <3>1, <3>2 DEF UnlockRestore, kept
  <2>4. owned' \in [Proc -> SUBSET Mutex]
    BY <1>10, <2>1 DEF UnlockRestore, TypeOK, kept
  <2>5. serving' \in [Proc -> [at : {"idle", "restore", "handover"},
                              mutex : Mutex \cup {NoMutex}]]
    BY <1>10 DEF UnlockRestore, TypeOK
  <2> QED
    BY <1>10, <2>3, <2>4, <2>5 DEF UnlockRestore, TypeOK
<1>11. ASSUME NEW p \in Proc, UnlockHandover(p), HandlerState PROVE TypeOK'
  <2> DEFINE m == serving[p].mutex
  <2>1. m \in Mutex /\ waiting[m] \in Seq(Proc)
    BY <1>11 DEF UnlockHandover, HandlerState, TypeOK, Idle
  <2>2. serving' \in [Proc -> [at : {"idle", "restore", "handover"},
                              mutex : Mutex \cup {NoMutex}]]
    BY <1>11 DEF UnlockHandover, TypeOK, Idle
  <2>3. CASE waiting[m] = <<>>
    BY <1>11, <2>1, <2>2, <2>3 DEF UnlockHandover, TypeOK
  <2>4. CASE waiting[m] # <<>>
    <3>1. Head(waiting[m]) \in Proc /\ Tail(waiting[m]) \in Seq(Proc)
      BY <2>1, <2>4, HeadTailProperties
    <3>2. process_set_ready(Head(waiting[m])) /\ LeaveList(m) /\ HandTo(Head(waiting[m]), m)
      BY <1>11, <2>4 DEF UnlockHandover
    <3>3. state' \in [Proc -> States] /\ readyQ' \in [Queues -> Seq(Proc)]
      BY <3>1, <3>2, SetReadyType
    <3>4. /\ waiting' \in [Mutex -> Seq(Proc)]
          /\ lockedBy' \in [Mutex -> Proc \cup {NoProc}]
          /\ owned' \in [Proc -> SUBSET Mutex]
      BY <2>1, <3>1, <3>2 DEF LeaveList, HandTo, TypeOK
    <3> QED
      BY <1>11, <2>2, <3>3, <3>4 DEF UnlockHandover, TypeOK
  <2> QED
    BY <2>3, <2>4
<1>12. ASSUME NEW p \in Proc, NEW m \in Mutex, mutex_create(p, m) PROVE TypeOK'
  BY <1>12 DEF mutex_create, TypeOK
<1>13. ASSUME NEW p \in Proc, NEW m \in Mutex, LockFree(p, m) PROVE TypeOK'
  BY <1>13 DEF LockFree, HandTo, TypeOK
<1>14. ASSUME NEW p \in Proc, NEW m \in Mutex, LockContended(p, m) PROVE TypeOK'
  <2>1. lockedBy[m] \in Proc /\ eff[p] \in Nat
    BY <1>14 DEF LockContended, TypeOK
  <2>2. eff' \in [Proc -> Nat] /\ readyQ' \in [Queues -> Seq(Proc)]
    <3>1. CASE ChangePriority(lockedBy[m], eff[p])
      BY <2>1, <3>1, ChangePriorityType
    <3>2. CASE UNCHANGED <<eff, readyQ>>
      BY <3>2 DEF TypeOK
    <3> QED
      BY <1>14, <3>1, <3>2 DEF LockContended
  <2>3. waiting' \in [Mutex -> Seq(Proc)]
    BY <1>14 DEF LockContended, JoinList, TypeOK
  <2> QED
    BY <1>14, <2>2, <2>3 DEF LockContended, TypeOK, States
<1>15. ASSUME NEW p \in Proc, NEW m \in Mutex, UnlockRefused(p, m) PROVE TypeOK'
  BY <1>15 DEF UnlockRefused, TypeOK
<1>16. ASSUME NEW p \in Proc, NEW m \in Mutex, UnlockBegin(p, m) PROVE TypeOK'
  BY <1>16 DEF UnlockBegin, TypeOK
<1> QED
  BY <1>0, <1>1, <1>2, <1>3, <1>4, <1>5, <1>6, <1>7, <1>8, <1>9, <1>10, <1>11,
     <1>12, <1>13, <1>14, <1>15, <1>16 DEF Next

(***************************************************************************)
(* Who holds, who waits, who is woken.                                     *)
(***************************************************************************)

Structure ==
    /\ OwnershipAgrees
    /\ WaitersAreBlocked
    /\ BlockedHasWaker
    /\ HandlerState
    /\ WaitingState

\* Initially nobody owns, waits, is blocked or is in mutex_unlock.
LEMMA StructureInit == Init => Structure
<1> SUFFICES ASSUME Init PROVE Structure
  OBVIOUS
<1>1. OwnershipAgrees
  BY QueueAssumption DEF Init, OwnershipAgrees, QueueAssumption
<1>2. WaitersAreBlocked
  BY DEF Init, WaitersAreBlocked
<1>3. BlockedHasWaker
  BY DEF Init, BlockedHasWaker
<1>4. HandlerState
  BY DEF Init, HandlerState
<1>5. WaitingState
  BY DEF Init, WaitingState
<1> QED
  BY <1>1, <1>2, <1>3, <1>4, <1>5 DEF Structure

\* What process_set_ready leaves of the state of p, and of the others.
LEMMA SetReadyState ==
    ASSUME TypeOK, NEW p \in Proc, process_set_ready(p)
    PROVE  /\ state' \in [Proc -> States]
           /\ \A q \in Proc : q # p => state'[q] = state[q]
           /\ state'[p] = IF state[p] = "SUSP_BLOCK" THEN "SUSP_READY" ELSE "READY"
  BY DEF process_set_ready, MakeReady, TypeOK, States

\* Steps that change the state of p only, and neither the mutexes nor the
\* handlers.
LEMMA StateMove ==
    ASSUME TypeOK, Structure, NEW p \in Proc, NEW s \in States,
           state' = [state EXCEPT ![p] = s],
           UNCHANGED <<owned, lockedBy, waiting, serving>>,
           serving[p] = Idle,
           inIo' \subseteq Proc, swap' \in [Proc -> {"in", "asked", "out"}],
           \A q \in Proc : q # p => (q \in inIo' <=> q \in inIo) /\ swap'[q] = swap[q],
           \/ /\ s \in {"BLOCK", "SUSP_BLOCK"}
              /\ p \in inIo' \/ \E m \in Mutex : Waits(p, m)
              /\ ~(p \in inIo' /\ \E m \in Mutex : Waits(p, m))
           \/ /\ s \notin {"BLOCK", "SUSP_BLOCK"}
              /\ p \notin inIo'
              /\ \A m \in Mutex : ~Waits(p, m),
           swap'[p] # "in" => s \in {"SUSP_BLOCK", "SUSP_READY"}
    PROVE  Structure'
<1>1. /\ state'[p] = s
      /\ \A q \in Proc : q # p => state'[q] = state[q]
  BY DEF TypeOK
<1>2. OwnershipAgrees'
  BY DEF Structure, OwnershipAgrees
<1>3. WaitersAreBlocked'
  <2> SUFFICES ASSUME NEW m \in Mutex, NEW i \in DOMAIN waiting[m]
               PROVE  /\ state'[waiting[m][i]] \in {"BLOCK", "SUSP_BLOCK"}
                      /\ lockedBy[m] \notin {NoProc, waiting[m][i]}
                      /\ waiting[m][i] \notin inIo'
                      /\ \A n \in Mutex : \A j \in DOMAIN waiting[n] :
                            waiting[n][j] = waiting[m][i] => n = m /\ j = i
    BY DEF WaitersAreBlocked
  <2>1. waiting[m][i] \in Proc
    BY ElementOfSeq, LenProperties DEF TypeOK
  <2>2. Waits(waiting[m][i], m)
    BY DEF Waits
  <2>3. waiting[m][i] # p => state'[waiting[m][i]] \in {"BLOCK", "SUSP_BLOCK"}
                              /\ waiting[m][i] \notin inIo'
    BY <1>1, <2>1 DEF Structure, WaitersAreBlocked
  <2>4. waiting[m][i] = p => state'[waiting[m][i]] \in {"BLOCK", "SUSP_BLOCK"}
                              /\ waiting[m][i] \notin inIo'
    BY <1>1, <2>1, <2>2
  <2> QED
    BY <2>3, <2>4 DEF Structure, WaitersAreBlocked
<1>4. BlockedHasWaker'
  <2>1. \A q \in Proc, m \in Mutex : Waits(q, m)' <=> Waits(q, m)
    BY DEF Waits
  <2> SUFFICES ASSUME NEW q \in Proc, state'[q] \in {"BLOCK", "SUSP_BLOCK"}
               PROVE  q \in inIo' \/ \E m \in Mutex : Waits(q, m)
    BY <2>1 DEF BlockedHasWaker
  <2>2. CASE q = p
    BY <1>1, <2>2
  <2>3. CASE q # p
    <3>1. q \in inIo \/ \E m \in Mutex : Waits(q, m)
      BY <1>1, <2>3 DEF Structure, BlockedHasWaker
    <3> QED
      BY <2>3, <3>1
  <2> QED
    BY <2>2, <2>3
<1>5. HandlerState'
  BY <1>1 DEF Structure, HandlerState
<1>6. WaitingState'
  BY <1>1 DEF Structure, WaitingState
<1> QED
  BY <1>2, <1>3, <1>4, <1>5, <1>6 DEF Structure

\* A process that is not blocked waits for nothing.
LEMMA NotWaiting ==
    ASSUME Structure, NEW p \in Proc, state[p] \notin {"BLOCK", "SUSP_BLOCK"}
    PROVE  p \notin inIo /\ \A m \in Mutex : ~Waits(p, m)
  BY DEF Structure, WaitersAreBlocked, WaitingState, Waits

\* What a device has not finished with waits for no mutex.
LEMMA IoNotWaiting ==
    ASSUME Structure, NEW p \in inIo, p \in Proc
    PROVE  /\ \A m \in Mutex : ~Waits(p, m)
           /\ state[p] \in {"BLOCK", "SUSP_BLOCK"}
  BY DEF Structure, WaitersAreBlocked, WaitingState, Waits

\* Only a process in EXEC is inside mutex_unlock.
LEMMA IdleUnlessExec ==
    ASSUME Structure, NEW p \in Proc, state[p] # "EXEC"
    PROVE  serving[p] = Idle
  BY DEF Structure, HandlerState


\* Every step keeps the relations between owners, waiters, blocked
\* processes and handlers inside mutex_unlock.
LEMMA StructureStep ==
    ASSUME TypeOK, Structure, [Next]_vars
    PROVE  Structure'
<1> USE DEF States
<1>0. CASE UNCHANGED vars
  BY <1>0 DEF vars, Structure, OwnershipAgrees, WaitersAreBlocked, BlockedHasWaker,
              HandlerState, WaitingState, Waits
<1>1. ASSUME NEW p \in Proc, Admit(p) PROVE Structure'
  <2>1. state[p] = "NEW" /\ serving[p] = Idle
    BY <1>1, IdleUnlessExec DEF Admit
  <2>2. p \notin inIo /\ \A m \in Mutex : ~Waits(p, m)
    BY <2>1, NotWaiting
  <2>3. swap[p] = "in"
    BY <2>1 DEF Structure, WaitingState
  <2> QED
    BY <1>1, <2>1, <2>2, <2>3, StateMove DEF Admit, MakeReady, TypeOK
<1>2. ASSUME NEW p \in Proc, Dispatch(p) PROVE Structure'
  <2>1. state[p] = "READY" /\ serving[p] = Idle
    BY <1>2, IdleUnlessExec DEF Dispatch
  <2>2. p \notin inIo /\ \A m \in Mutex : ~Waits(p, m)
    BY <2>1, NotWaiting
  <2>3. swap[p] = "in"
    BY <2>1 DEF Structure, WaitingState
  <2> QED
    BY <1>2, <2>1, <2>2, <2>3, StateMove DEF Dispatch, TypeOK
<1>3. ASSUME NEW p \in Proc, Evict(p) PROVE Structure'
  <2>1. state[p] = "EXEC" /\ serving[p] = Idle
    BY <1>3 DEF Evict
  <2>2. p \notin inIo /\ \A m \in Mutex : ~Waits(p, m)
    BY <2>1, NotWaiting
  <2>3. swap[p] = "in"
    BY <2>1 DEF Structure, WaitingState
  <2> QED
    BY <1>3, <2>1, <2>2, <2>3, StateMove DEF Evict, MakeReady, TypeOK
<1>4. ASSUME NEW p \in Proc, BlockOnIo(p) PROVE Structure'
  <2>1. state[p] = "EXEC" /\ serving[p] = Idle
    BY <1>4 DEF BlockOnIo, Running
  <2>2. p \notin inIo /\ \A m \in Mutex : ~Waits(p, m)
    BY <2>1, NotWaiting
  <2>3. swap[p] = "in"
    BY <2>1 DEF Structure, WaitingState
  <2> QED
    BY <1>4, <2>1, <2>2, <2>3, StateMove DEF BlockOnIo, TypeOK
<1>5. ASSUME NEW p \in Proc, io_finish_process(p) PROVE Structure'
  <2>1. p \in inIo /\ state[p] \in {"BLOCK", "SUSP_BLOCK"} /\ serving[p] = Idle
    BY <1>5, IoNotWaiting, IdleUnlessExec DEF io_finish_process
  <2>2. \A m \in Mutex : ~Waits(p, m)
    BY <2>1, IoNotWaiting
  <2>3. swap[p] # "in" => state[p] = "SUSP_BLOCK"
    BY <2>1 DEF Structure, WaitingState
  <2> DEFINE s == IF state[p] = "SUSP_BLOCK" THEN "SUSP_READY" ELSE "READY"
  <2>4. state' = [state EXCEPT ![p] = s]
    BY <1>5 DEF io_finish_process, process_set_ready, MakeReady
  <2> QED
    BY <1>5, <2>1, <2>2, <2>3, <2>4, StateMove DEF io_finish_process, TypeOK
<1>6. ASSUME NEW p \in Proc, ProcessEnd(p) PROVE Structure'
  <2>1. state[p] = "EXEC" /\ serving[p] = Idle
    BY <1>6 DEF ProcessEnd, Running
  <2>2. p \notin inIo /\ \A m \in Mutex : ~Waits(p, m)
    BY <2>1, NotWaiting
  <2>3. swap[p] = "in"
    BY <2>1 DEF Structure, WaitingState
  <2> QED
    BY <1>6, <2>1, <2>2, <2>3, StateMove DEF ProcessEnd, TypeOK
<1>7. ASSUME NEW p \in Proc, Suspend(p) PROVE Structure'
  <2>1. state[p] = "BLOCK" /\ serving[p] = Idle
    BY <1>7, IdleUnlessExec DEF Suspend
  <2>2. p \in inIo \/ \E m \in Mutex : Waits(p, m)
    BY <2>1 DEF Structure, BlockedHasWaker
  <2>3. ~(p \in inIo /\ \E m \in Mutex : Waits(p, m))
    BY IoNotWaiting
  <2> QED
    BY <1>7, <2>1, <2>2, <2>3, StateMove DEF Suspend, TypeOK
<1>8. ASSUME NEW p \in Proc, wait_confirmation_swap_in(p) PROVE Structure'
  <2>1. state[p] = "SUSP_READY" /\ serving[p] = Idle
    BY <1>8, IdleUnlessExec DEF wait_confirmation_swap_in
  <2>2. p \notin inIo /\ \A m \in Mutex : ~Waits(p, m)
    BY <2>1, NotWaiting
  <2> QED
    BY <1>8, <2>1, <2>2, StateMove DEF wait_confirmation_swap_in, MakeReady, TypeOK
<1>9. ASSUME NEW p \in Proc, NEW ok \in BOOLEAN, wait_confirmation_swap_out(p, ok)
      PROVE  Structure'
  <2>1. state[p] \in {"SUSP_BLOCK", "SUSP_READY"} /\ serving[p] = Idle
    BY <1>9, IdleUnlessExec DEF wait_confirmation_swap_out, Structure, WaitingState
  <2>2. state[p] = "SUSP_BLOCK" =>
           /\ p \in inIo \/ \E m \in Mutex : Waits(p, m)
           /\ ~(p \in inIo /\ \E m \in Mutex : Waits(p, m))
    BY IoNotWaiting DEF Structure, BlockedHasWaker
  <2>3. state[p] = "SUSP_READY" => p \notin inIo /\ \A m \in Mutex : ~Waits(p, m)
    BY NotWaiting
  <2>4. UNCHANGED <<owned, lockedBy, waiting, serving, inIo>>
    BY <1>9 DEF wait_confirmation_swap_out
  <2>5. CASE ok
    <3>1. state' = state /\ swap' = [swap EXCEPT ![p] = "out"]
      BY <1>9, <2>5 DEF wait_confirmation_swap_out
    <3>2. state' = [state EXCEPT ![p] = state[p]]
      BY <3>1 DEF TypeOK
    <3> HIDE DEF States
    <3>3. state[p] \in States
      BY DEF TypeOK
    <3>4. /\ swap' \in [Proc -> {"in", "asked", "out"}]
          /\ \A q \in Proc : q # p => swap'[q] = swap[q]
      BY <3>1 DEF TypeOK
    <3>5. inIo' \subseteq Proc /\ inIo' = inIo
      BY <2>4 DEF TypeOK
    <3> QED
      BY <2>1, <2>2, <2>3, <2>4, <3>2, <3>3, <3>4, <3>5, StateMove
  <2>6. CASE ~ok /\ state[p] = "SUSP_READY"
    <3>1. state' = [state EXCEPT ![p] = "READY"] /\ swap' = [swap EXCEPT ![p] = "in"]
      BY <1>9, <2>6 DEF wait_confirmation_swap_out, MakeReady
    <3> QED
      BY <2>1, <2>3, <2>4, <2>6, <3>1, StateMove DEF TypeOK
  <2>7. CASE ~ok /\ state[p] = "SUSP_BLOCK"
    <3>1. state' = [state EXCEPT ![p] = "BLOCK"] /\ swap' = [swap EXCEPT ![p] = "in"]
      BY <1>9, <2>7 DEF wait_confirmation_swap_out
    <3> QED
      BY <2>1, <2>2, <2>4, <2>7, <3>1, StateMove DEF TypeOK
  <2> QED
    BY <2>1, <2>5, <2>6, <2>7
<1>10. ASSUME NEW p \in Proc, UnlockRestore(p) PROVE Structure'
  <2> DEFINE m == serving[p].mutex
  <2>1. /\ serving[p].at = "restore" /\ m \in Mutex /\ lockedBy[m] = p /\ state[p] = "EXEC"
    BY <1>10 DEF UnlockRestore, Structure, HandlerState, Idle
  <2>2. /\ owned' = [owned EXCEPT ![p] = owned[p] \ {m}]
        /\ serving' = [serving EXCEPT ![p].at = "handover"]
        /\ UNCHANGED <<state, lockedBy, waiting, inIo, swap>>
    BY <1>10 DEF UnlockRestore
  <2>3. serving'[p] = [at |-> "handover", mutex |-> m]
    BY <2>2 DEF TypeOK
  <2>4. \A q \in Proc : q # p => serving'[q] = serving[q] /\ owned'[q] = owned[q]
    BY <2>2 DEF TypeOK
  <2>5. owned'[p] = owned[p] \ {m}
    BY <2>2 DEF TypeOK
  <2> HIDE DEF m
  <2>6. OwnershipAgrees'
    <3> SUFFICES ASSUME NEW q \in Proc, NEW n \in Mutex
                 PROVE  n \in owned'[q] <=>
                           lockedBy[n] = q /\ serving'[q] # [at |-> "handover", mutex |-> n]
      BY <2>2 DEF OwnershipAgrees
    <3>1. CASE q # p
      BY <2>4, <3>1 DEF Structure, OwnershipAgrees
    <3>2. CASE q = p
      <4>0. serving[p] # [at |-> "handover", mutex |-> n]
        BY <2>1
      <4>1. n \in owned[p] <=> lockedBy[n] = p
        BY <4>0 DEF Structure, OwnershipAgrees
      <4> QED
        BY <2>3, <2>5, <3>2, <4>1
    <3> QED
      BY <3>1, <3>2
  <2>7. WaitersAreBlocked' /\ WaitingState'
    BY <2>2 DEF Structure, WaitersAreBlocked, WaitingState
  <2>8. BlockedHasWaker'
    BY <2>2 DEF Structure, BlockedHasWaker, Waits
  <2>9. HandlerState'
    BY <2>1, <2>2, <2>3, <2>4 DEF Structure, HandlerState
  <2> QED
    BY <2>6, <2>7, <2>8, <2>9 DEF Structure
<1>11. ASSUME NEW p \in Proc, UnlockHandover(p) PROVE Structure'
  <2> DEFINE m == serving[p].mutex
             next == Head(waiting[m])
  <2>1. /\ serving[p] = [at |-> "handover", mutex |-> m]
        /\ m \in Mutex /\ lockedBy[m] = p /\ state[p] = "EXEC"
    BY <1>11 DEF UnlockHandover, Structure, HandlerState, Idle, TypeOK
  <2>2. serving'[p] = Idle /\ \A q \in Proc : q # p => serving'[q] = serving[q]
    BY <1>11 DEF UnlockHandover, TypeOK
  <2>3. UNCHANGED <<inIo, swap>> /\ waiting[m] \in Seq(Proc)
    BY <1>11, <2>1 DEF UnlockHandover, TypeOK
  <2>4. ASSUME NEW q \in Proc, q # p, serving[q] # Idle
        PROVE  serving[q].mutex # m
    BY <2>1, <2>4 DEF Structure, HandlerState
  <2>5. CASE waiting[m] = <<>>
    <3>1. /\ lockedBy' = [lockedBy EXCEPT ![m] = NoProc]
          /\ UNCHANGED <<waiting, owned, state>>
      BY <1>11, <2>5 DEF UnlockHandover
    <3>2. lockedBy'[m] = NoProc /\ \A n \in Mutex : n # m => lockedBy'[n] = lockedBy[n]
      BY <2>1, <3>1 DEF TypeOK
    <3> HIDE DEF m
    <3>3. OwnershipAgrees'
      <4> SUFFICES ASSUME NEW q \in Proc, NEW n \in Mutex
                   PROVE  n \in owned[q] <=>
                             lockedBy'[n] = q /\ serving'[q] # [at |-> "handover", mutex |-> n]
        BY <3>1 DEF OwnershipAgrees
      <4>0. NoProc # q
        BY QueueAssumption DEF QueueAssumption
      <4>1. n \in owned[q] <=>
               lockedBy[n] = q /\ serving[q] # [at |-> "handover", mutex |-> n]
        BY DEF Structure, OwnershipAgrees
      <4>2. CASE n = m
        BY <2>1, <3>2, <4>0, <4>1, <4>2
      <4>3. CASE n # m
        BY <2>1, <2>2, <3>2, <4>1, <4>3 DEF Idle
      <4> QED
        BY <4>2, <4>3
    <3>4. WaitersAreBlocked'
      <4>1. DOMAIN waiting[m] = {}
        BY <2>5
      <4> QED
        BY <2>3, <3>1, <3>2, <4>1 DEF Structure, WaitersAreBlocked
    <3>5. BlockedHasWaker' /\ WaitingState'
      BY <2>3, <3>1 DEF Structure, BlockedHasWaker, WaitingState, Waits
    <3>6. HandlerState'
      BY <2>2, <2>4, <3>1, <3>2 DEF Structure, HandlerState
    <3> QED
      BY <3>3, <3>4, <3>5, <3>6 DEF Structure
  <2>6. CASE waiting[m] # <<>>
    <3>1. LeaveList(m) /\ HandTo(next, m) /\ process_set_ready(next)
      BY <1>11, <2>6 DEF UnlockHandover
    <3>2. next \in Proc /\ next = waiting[m][1] /\ 1 \in DOMAIN waiting[m]
      BY <2>3, <2>6
    <3>3. /\ state[next] \in {"BLOCK", "SUSP_BLOCK"}
          /\ next # p /\ next \notin inIo
          /\ serving[next] = Idle
          /\ \A n \in Mutex : \A j \in DOMAIN waiting[n] :
                waiting[n][j] = next => n = m /\ j = 1
      <4>1. /\ state[next] \in {"BLOCK", "SUSP_BLOCK"}
            /\ next # p /\ next \notin inIo
            /\ \A n \in Mutex : \A j \in DOMAIN waiting[n] :
                  waiting[n][j] = next => n = m /\ j = 1
        BY <2>1, <3>2 DEF Structure, WaitersAreBlocked
      <4> QED
        BY <3>2, <4>1, IdleUnlessExec
    <3>4. /\ \A q \in Proc : q # next => state'[q] = state[q]
          /\ state'[next] = IF state[next] = "SUSP_BLOCK" THEN "SUSP_READY" ELSE "READY"
      BY <3>1, <3>2, SetReadyState
    <3>5. /\ lockedBy'[m] = next /\ \A n \in Mutex : n # m => lockedBy'[n] = lockedBy[n]
          /\ owned'[next] = owned[next] \cup {m}
          /\ \A q \in Proc : q # next => owned'[q] = owned[q]
      BY <2>1, <3>1, <3>2 DEF HandTo, TypeOK
    <3>6. /\ \A n \in Mutex : n # m => waiting'[n] = waiting[n]
          /\ DOMAIN waiting'[m] = 1..(Len(waiting[m]) - 1)
          /\ DOMAIN waiting[m] = 1..Len(waiting[m]) /\ Len(waiting[m]) \in Nat
          /\ \A i \in 1..(Len(waiting[m]) - 1) : waiting'[m][i] = waiting[m][i + 1]
      <4>1. waiting'[m] = Tail(waiting[m]) /\ \A n \in Mutex : n # m => waiting'[n] = waiting[n]
        BY <2>1, <3>1 DEF LeaveList, TypeOK
      <4>2. /\ Len(Tail(waiting[m])) = Len(waiting[m]) - 1 /\ Tail(waiting[m]) \in Seq(Proc)
            /\ \A i \in 1..Len(Tail(waiting[m])) : Tail(waiting[m])[i] = waiting[m][i + 1]
        BY <2>3, <2>6, HeadTailProperties
      <4> QED
        BY <2>3, <4>1, <4>2, LenProperties
    <3> HIDE DEF m, next
    <3>7. OwnershipAgrees'
      <4> SUFFICES ASSUME NEW q \in Proc, NEW n \in Mutex
                   PROVE  n \in owned'[q] <=>
                             lockedBy'[n] = q /\ serving'[q] # [at |-> "handover", mutex |-> n]
        BY DEF OwnershipAgrees
      <4>1. n \in owned[q] <=>
               lockedBy[n] = q /\ serving[q] # [at |-> "handover", mutex |-> n]
        BY DEF Structure, OwnershipAgrees
      <4>2. CASE n = m
        BY <2>1, <2>2, <3>2, <3>3, <3>5, <4>1, <4>2 DEF Idle
      <4>3. CASE n # m
        BY <2>1, <2>2, <3>2, <3>3, <3>5, <4>1, <4>3 DEF Idle
      <4> QED
        BY <4>2, <4>3
    <3>8. ASSUME NEW n \in Mutex, NEW i \in DOMAIN waiting'[n]
          PROVE  /\ waiting'[n][i] \in Proc
                 /\ waiting'[n][i] # next
                 /\ LET j == IF n = m THEN i + 1 ELSE i
                    IN  j \in DOMAIN waiting[n] /\ waiting[n][j] = waiting'[n][i]
      <4>1. CASE n # m
        <5>1. i \in DOMAIN waiting[n] /\ waiting'[n][i] = waiting[n][i]
          BY <3>6, <3>8, <4>1
        <5>2. waiting[n][i] # next
          BY <3>3, <4>1, <5>1
        <5>3. waiting[n][i] \in Proc
          BY <5>1, ElementOfSeq, LenProperties DEF TypeOK
        <5> QED
          BY <4>1, <5>1, <5>2, <5>3
      <4>2. CASE n = m
        <5>1. i + 1 \in DOMAIN waiting[m] /\ waiting'[n][i] = waiting[m][i + 1] /\ i + 1 # 1
          BY <3>6, <3>8, <4>2
        <5>2. waiting[m][i + 1] # next
          BY <2>1, <3>3, <5>1
        <5>3. waiting[m][i + 1] \in Proc
          BY <2>3, <5>1, ElementOfSeq, LenProperties
        <5> QED
          BY <4>2, <5>1, <5>2, <5>3
      <4> QED
        BY <4>1, <4>2
    <3>9. WaitersAreBlocked'
      <4> SUFFICES ASSUME NEW n \in Mutex, NEW i \in DOMAIN waiting'[n]
                   PROVE  /\ state'[waiting'[n][i]] \in {"BLOCK", "SUSP_BLOCK"}
                          /\ lockedBy'[n] \notin {NoProc, waiting'[n][i]}
                          /\ waiting'[n][i] \notin inIo
                          /\ \A k \in Mutex : \A j \in DOMAIN waiting'[k] :
                                waiting'[k][j] = waiting'[n][i] => k = n /\ j = i
        BY <2>3 DEF WaitersAreBlocked
      <4>1. state'[waiting'[n][i]] \in {"BLOCK", "SUSP_BLOCK"} /\ waiting'[n][i] \notin inIo
        BY <3>4, <3>8 DEF Structure, WaitersAreBlocked
      <4>2. lockedBy'[n] \notin {NoProc, waiting'[n][i]}
        <5>1. next # NoProc
          BY <3>2, QueueAssumption DEF QueueAssumption
        <5>2. n # m => lockedBy[n] \notin {NoProc, waiting'[n][i]}
          BY <3>8 DEF Structure, WaitersAreBlocked
        <5> QED
          BY <3>5, <3>8, <5>1, <5>2
      <4>3. ASSUME NEW k \in Mutex, NEW j \in DOMAIN waiting'[k],
                   waiting'[k][j] = waiting'[n][i]
            PROVE  k = n /\ j = i
        <5> DEFINE a == IF n = m THEN i + 1 ELSE i
                   b == IF k = m THEN j + 1 ELSE j
        <5>1. a \in DOMAIN waiting[n] /\ waiting[n][a] = waiting'[n][i]
          BY <3>8
        <5>2. b \in DOMAIN waiting[k] /\ waiting[k][b] = waiting'[k][j]
          BY <3>8, <4>3
        <5>3. k = n /\ b = a
          BY <4>3, <5>1, <5>2 DEF Structure, WaitersAreBlocked
        <5>4. k = m => i \in Int /\ j \in Int
          BY <3>6, <4>3, <5>3
        <5> QED
          BY <5>3, <5>4
      <4> QED
        BY <4>1, <4>2, <4>3
    <3>10. BlockedHasWaker'
      <4> SUFFICES ASSUME NEW q \in Proc, state'[q] \in {"BLOCK", "SUSP_BLOCK"}
                   PROVE  q \in inIo \/ \E n \in Mutex : \E i \in DOMAIN waiting'[n] :
                                           waiting'[n][i] = q
        BY <2>3 DEF BlockedHasWaker, Waits
      <4>1. q # next /\ state'[q] = state[q]
        BY <3>4
      <4>2. CASE q \in inIo
        BY <4>2
      <4>3. CASE q \notin inIo
        <5>0. PICK n \in Mutex : \E k \in DOMAIN waiting[n] : waiting[n][k] = q
          BY <4>1, <4>3 DEF Structure, BlockedHasWaker, Waits
        <5>1. PICK i \in DOMAIN waiting[n] : waiting[n][i] = q
          BY <5>0
        <5>2. CASE n # m
          BY <3>6, <5>1, <5>2
        <5>3. CASE n = m
          <6>1. i # 1 /\ i \in 1..Len(waiting[m])
            BY <3>2, <3>6, <4>1, <5>1, <5>3
          <6>2. i - 1 \in DOMAIN waiting'[m] /\ waiting'[m][i - 1] = q
            BY <3>6, <5>1, <5>3, <6>1
          <6> QED
            BY <5>3, <6>2
        <5> QED
          BY <5>2, <5>3
      <4> QED
        BY <4>2, <4>3
    <3>11. HandlerState'
      BY <2>2, <2>4, <3>3, <3>4, <3>5 DEF Structure, HandlerState
    <3>12. WaitingState'
      BY <2>3, <3>3, <3>4 DEF Structure, WaitingState
    <3> QED
      BY <3>7, <3>9, <3>10, <3>11, <3>12 DEF Structure
  <2> QED
    BY <2>5, <2>6
<1>12. ASSUME NEW p \in Proc, NEW m \in Mutex, mutex_create(p, m) PROVE Structure'
  BY <1>12 DEF mutex_create, Structure, OwnershipAgrees, WaitersAreBlocked,
               BlockedHasWaker, HandlerState, WaitingState, Waits
<1>13. ASSUME NEW p \in Proc, NEW m \in Mutex, LockFree(p, m) PROVE Structure'
  <2>1. /\ state[p] = "EXEC" /\ serving[p] = Idle /\ lockedBy[m] \in {NoProc, p}
        /\ \A q \in Proc : serving[q].mutex # m
    BY <1>13 DEF LockFree, Running, InternalFree
  <2>2. UNCHANGED <<state, waiting, serving, inIo, swap>>
    BY <1>13 DEF LockFree
  <2>3. /\ lockedBy'[m] = p /\ \A n \in Mutex : n # m => lockedBy'[n] = lockedBy[n]
        /\ owned'[p] = owned[p] \cup {m}
        /\ \A q \in Proc : q # p => owned'[q] = owned[q]
    BY <1>13 DEF LockFree, HandTo, TypeOK
  <2>4. p # NoProc
    BY QueueAssumption DEF QueueAssumption
  <2>5. OwnershipAgrees'
    <3> SUFFICES ASSUME NEW q \in Proc, NEW n \in Mutex
                 PROVE  n \in owned'[q] <=>
                           lockedBy'[n] = q /\ serving[q] # [at |-> "handover", mutex |-> n]
      BY <2>2 DEF OwnershipAgrees
    <3>1. n \in owned[q] <=>
             lockedBy[n] = q /\ serving[q] # [at |-> "handover", mutex |-> n]
      BY DEF Structure, OwnershipAgrees
    <3>2. q # NoProc
      BY QueueAssumption DEF QueueAssumption
    <3>3. CASE n = m
      <4>1. serving[q] # [at |-> "handover", mutex |-> n]
        BY <2>1, <3>3
      <4> QED
        BY <2>1, <2>3, <3>1, <3>2, <3>3, <4>1
    <3>4. CASE n # m
      BY <2>3, <3>1, <3>4
    <3> QED
      BY <3>3, <3>4
  <2>6. WaitersAreBlocked'
    <3>1. \A i \in DOMAIN waiting[m] : waiting[m][i] # p /\ lockedBy[m] # NoProc
      BY <2>1 DEF Structure, WaitersAreBlocked
    <3> QED
      BY <2>1, <2>2, <2>3, <2>4, <3>1 DEF Structure, WaitersAreBlocked
  <2>7. BlockedHasWaker' /\ WaitingState'
    BY <2>2 DEF Structure, BlockedHasWaker, WaitingState, Waits
  <2>8. HandlerState'
    BY <2>1, <2>2, <2>3 DEF Structure, HandlerState
  <2> QED
    BY <2>5, <2>6, <2>7, <2>8 DEF Structure
<1>14. ASSUME NEW p \in Proc, NEW m \in Mutex, LockContended(p, m) PROVE Structure'
  <2>1. /\ state[p] = "EXEC" /\ serving[p] = Idle /\ lockedBy[m] \notin {NoProc, p}
        /\ waiting[m] \in Seq(Proc)
    BY <1>14 DEF LockContended, Running, TypeOK
  <2>2. UNCHANGED <<owned, lockedBy, serving, inIo, swap>>
    BY <1>14 DEF LockContended
  <2>3. state'[p] = "BLOCK" /\ \A q \in Proc : q # p => state'[q] = state[q]
    BY <1>14 DEF LockContended, TypeOK
  <2>4. p \notin inIo /\ \A n \in Mutex : ~Waits(p, n)
    BY <2>1, NotWaiting
  <2>5. /\ \A n \in Mutex : n # m => waiting'[n] = waiting[n]
        /\ DOMAIN waiting'[m] = 1..(Len(waiting[m]) + 1)
        /\ DOMAIN waiting[m] = 1..Len(waiting[m]) /\ Len(waiting[m]) \in Nat
        /\ \A i \in 1..Len(waiting[m]) : waiting'[m][i] = waiting[m][i]
        /\ waiting'[m][Len(waiting[m]) + 1] = p
    <3>1. waiting'[m] = Append(waiting[m], p) /\ \A n \in Mutex : n # m => waiting'[n] = waiting[n]
      BY <1>14 DEF LockContended, JoinList, TypeOK
    <3> QED
      BY <2>1, <3>1, AppendProperties, LenProperties
  \* An entry of a list is an old one, or p at the end of the list of m.
  <2>6. ASSUME NEW n \in Mutex, NEW i \in DOMAIN waiting'[n]
        PROVE  \/ /\ i \in DOMAIN waiting[n] /\ waiting'[n][i] = waiting[n][i]
                  /\ waiting[n][i] \in Proc /\ waiting[n][i] # p
               \/ n = m /\ i = Len(waiting[m]) + 1 /\ waiting'[n][i] = p
    <3>1. CASE i \in DOMAIN waiting[n] /\ waiting'[n][i] = waiting[n][i]
      <4>1. waiting[n][i] \in Proc
        BY <3>1, ElementOfSeq, LenProperties DEF TypeOK
      <4> QED
        BY <2>4, <3>1, <4>1 DEF Waits
    <3>2. CASE n = m /\ i = Len(waiting[m]) + 1
      BY <2>5, <3>2
    <3> QED
      BY <2>5, <2>6, <3>1, <3>2
  <2>7. OwnershipAgrees'
    BY <2>2 DEF Structure, OwnershipAgrees
  <2>8. WaitersAreBlocked'
    <3> SUFFICES ASSUME NEW n \in Mutex, NEW i \in DOMAIN waiting'[n]
                 PROVE  /\ state'[waiting'[n][i]] \in {"BLOCK", "SUSP_BLOCK"}
                        /\ lockedBy[n] \notin {NoProc, waiting'[n][i]}
                        /\ waiting'[n][i] \notin inIo
                        /\ \A k \in Mutex : \A j \in DOMAIN waiting'[k] :
                              waiting'[k][j] = waiting'[n][i] => k = n /\ j = i
      BY <2>2 DEF WaitersAreBlocked
    <3>1. CASE n = m /\ i = Len(waiting[m]) + 1 /\ waiting'[n][i] = p
      <4>1. \A k \in Mutex : \A j \in DOMAIN waiting'[k] : waiting'[k][j] = p => k = n /\ j = i
        BY <2>6, <3>1
      <4> QED
        BY <2>1, <2>3, <2>4, <3>1, <4>1
    <3>2. CASE /\ i \in DOMAIN waiting[n] /\ waiting'[n][i] = waiting[n][i]
               /\ waiting[n][i] \in Proc /\ waiting[n][i] # p
      <4>1. /\ state'[waiting[n][i]] \in {"BLOCK", "SUSP_BLOCK"}
            /\ lockedBy[n] \notin {NoProc, waiting[n][i]}
            /\ waiting[n][i] \notin inIo
        BY <2>3, <3>2 DEF Structure, WaitersAreBlocked
      <4>2. ASSUME NEW k \in Mutex, NEW j \in DOMAIN waiting'[k],
                   waiting'[k][j] = waiting[n][i]
            PROVE  k = n /\ j = i
        <5>1. j \in DOMAIN waiting[k] /\ waiting[k][j] = waiting[n][i]
          BY <2>6, <3>2, <4>2
        <5> QED
          BY <3>2, <5>1 DEF Structure, WaitersAreBlocked
      <4> QED
        BY <3>2, <4>1, <4>2
    <3> QED
      BY <2>6, <3>1, <3>2
  <2>9. BlockedHasWaker'
    <3> SUFFICES ASSUME NEW q \in Proc, state'[q] \in {"BLOCK", "SUSP_BLOCK"}
                 PROVE  q \in inIo \/ \E n \in Mutex : \E i \in DOMAIN waiting'[n] :
                                         waiting'[n][i] = q
      BY <2>2 DEF BlockedHasWaker, Waits
    <3>1. CASE q = p
      BY <2>5, <3>1
    <3>2. CASE q # p
      <4>1. q \in inIo \/ \E n \in Mutex : \E i \in DOMAIN waiting[n] : waiting[n][i] = q
        BY <2>3, <3>2 DEF Structure, BlockedHasWaker, Waits
      <4> QED
        BY <2>5, <4>1
    <3> QED
      BY <3>1, <3>2
  <2>10. HandlerState'
    BY <2>1, <2>2, <2>3 DEF Structure, HandlerState
  <2>11. WaitingState'
    <3>1. swap[p] = "in"
      BY <2>1 DEF Structure, WaitingState
    <3> QED
      BY <2>2, <2>3, <2>4, <3>1 DEF Structure, WaitingState
  <2> QED
    BY <2>7, <2>8, <2>9, <2>10, <2>11 DEF Structure
<1>15. ASSUME NEW p \in Proc, NEW m \in Mutex, UnlockRefused(p, m) PROVE Structure'
  BY <1>15 DEF UnlockRefused, Structure, OwnershipAgrees, WaitersAreBlocked,
               BlockedHasWaker, HandlerState, WaitingState, Waits
<1>16. ASSUME NEW p \in Proc, NEW m \in Mutex, UnlockBegin(p, m) PROVE Structure'
  <2>1. /\ state[p] = "EXEC" /\ serving[p] = Idle /\ lockedBy[m] = p
        /\ \A q \in Proc : serving[q].mutex # m
    BY <1>16 DEF UnlockBegin, Running, InternalFree
  <2>2. UNCHANGED <<state, owned, lockedBy, waiting, inIo, swap>>
    BY <1>16 DEF UnlockBegin
  <2>3. /\ serving'[p] = [at |-> "restore", mutex |-> m]
        /\ \A q \in Proc : q # p => serving'[q] = serving[q]
    BY <1>16 DEF UnlockBegin, TypeOK
  <2>4. OwnershipAgrees'
    <3>1. \A n \in Mutex : /\ serving[p] # [at |-> "handover", mutex |-> n]
                           /\ serving'[p] # [at |-> "handover", mutex |-> n]
      BY <2>1, <2>3 DEF Idle
    <3> SUFFICES ASSUME NEW q \in Proc, NEW n \in Mutex
                 PROVE  n \in owned[q] <=>
                           lockedBy[n] = q /\ serving'[q] # [at |-> "handover", mutex |-> n]
      BY <2>2 DEF OwnershipAgrees
    <3>2. n \in owned[q] <=>
             lockedBy[n] = q /\ serving[q] # [at |-> "handover", mutex |-> n]
      BY DEF Structure, OwnershipAgrees
    <3> QED
      BY <2>3, <3>1, <3>2
  <2>5. WaitersAreBlocked' /\ WaitingState' /\ BlockedHasWaker'
    BY <2>2 DEF Structure, WaitersAreBlocked, WaitingState, BlockedHasWaker, Waits
  <2>6. HandlerState'
    BY <2>1, <2>2, <2>3 DEF Structure, HandlerState, Idle
  <2> QED
    BY <2>4, <2>5, <2>6 DEF Structure
<1> QED
  BY <1>0, <1>1, <1>2, <1>3, <1>4, <1>5, <1>6, <1>7, <1>8, <1>9, <1>10, <1>11,
     <1>12, <1>13, <1>14, <1>15, <1>16 DEF Next

(***************************************************************************)
(* Priority inheritance ends with its reason.                              *)
(***************************************************************************)

\* Steps that change no priority and take away neither a held mutex nor a
\* process waiting for one.
LEMMA BoostKept ==
    ASSUME BoostHasReason, FixedPriority, eff' = eff,
           \A p \in Proc : \A m \in owned[p] :
              /\ m \in owned'[p]
              /\ \A i \in DOMAIN waiting[m] :
                    i \in DOMAIN waiting'[m] /\ waiting'[m][i] = waiting[m][i]
    PROVE  BoostHasReason' /\ FixedPriority'
<1>1. FixedPriority'
  BY DEF FixedPriority
<1>2. BoostHasReason'
  BY DEF BoostHasReason
<1> QED
  BY <1>1, <1>2

\* Every step keeps the reason of every inherited priority.
LEMMA BoostStep ==
    ASSUME TypeOK, Structure, BoostHasReason, FixedPriority, [Next]_vars
    PROVE  BoostHasReason' /\ FixedPriority'
<1>0. CASE UNCHANGED <<eff, owned, waiting>>
  BY <1>0, BoostKept
<1>1. ASSUME NEW p \in Proc,
             \/ Admit(p) \/ Dispatch(p) \/ Evict(p) \/ BlockOnIo(p)
             \/ io_finish_process(p) \/ ProcessEnd(p) \/ Suspend(p)
             \/ wait_confirmation_swap_in(p)
             \/ \E ok \in BOOLEAN : wait_confirmation_swap_out(p, ok)
             \/ \E m \in Mutex : mutex_create(p, m) \/ UnlockRefused(p, m) \/ UnlockBegin(p, m)
      PROVE  BoostHasReason' /\ FixedPriority'
  BY <1>0, <1>1 DEF Admit, Dispatch, Evict, BlockOnIo, io_finish_process, ProcessEnd,
     Suspend, wait_confirmation_swap_in, wait_confirmation_swap_out, mutex_create,
     UnlockRefused, UnlockBegin
<1>2. ASSUME NEW p \in Proc, NEW m \in Mutex, LockFree(p, m)
      PROVE  BoostHasReason' /\ FixedPriority'
  <2>1. eff' = eff /\ waiting' = waiting
    BY <1>2 DEF LockFree
  <2>2. \A q \in Proc : \A n \in owned[q] : n \in owned'[q]
    BY <1>2 DEF LockFree, HandTo, TypeOK
  <2> QED
    BY <2>1, <2>2, BoostKept
\* Nobody holds the mutex that is handed over, so its list is nobody's reason.
<1>3. ASSUME NEW p \in Proc, UnlockHandover(p)
      PROVE  BoostHasReason' /\ FixedPriority'
  <2> DEFINE m == serving[p].mutex
  <2>1. /\ serving[p] = [at |-> "handover", mutex |-> m]
        /\ m \in Mutex /\ lockedBy[m] = p
    BY <1>3 DEF UnlockHandover, Structure, HandlerState, Idle, TypeOK
  <2>2. eff' = eff
    BY <1>3 DEF UnlockHandover
  <2>3. /\ \A n \in Mutex : n # m => waiting'[n] = waiting[n]
        /\ \A q \in Proc : \A n \in owned[q] : n \in owned'[q]
    <3>1. CASE waiting[m] = <<>>
      BY <1>3, <3>1 DEF UnlockHandover
    <3>2. CASE waiting[m] # <<>>
      <4>1. LeaveList(m) /\ HandTo(Head(waiting[m]), m)
        BY <1>3, <3>2 DEF UnlockHandover
      <4> QED
        BY <2>1, <4>1 DEF LeaveList, HandTo, TypeOK
    <3> QED
      BY <3>1, <3>2
  <2> HIDE DEF m
  <2>4. ASSUME NEW q \in Proc, NEW n \in owned[q] PROVE n \in Mutex /\ n # m
    <3>1. n \in Mutex
      BY DEF TypeOK
    <3>2. lockedBy[n] = q /\ serving[q] # [at |-> "handover", mutex |-> n]
      BY <3>1 DEF Structure, OwnershipAgrees
    <3> QED
      BY <2>1, <3>1, <3>2
  <2> QED
    BY <2>2, <2>3, <2>4, BoostKept
\* The new priority is the base priority or that of a process that waits
\* for a mutex p keeps; p itself waits for nothing.
<1>4. ASSUME NEW p \in Proc, UnlockRestore(p)
      PROVE  BoostHasReason' /\ FixedPriority'
  <2> DEFINE kept == owned[p] \ {serving[p].mutex}
             R == RestoredPriority(p, kept)
  <2>1. kept \in SUBSET Mutex /\ serving[p] # Idle
    BY <1>4 DEF UnlockRestore, TypeOK, Idle
  <2>2. /\ R \in Nat /\ R <= Base[p]
        /\ R = Base[p] \/ \E n \in kept : \E i \in DOMAIN waiting[n] : R = eff[waiting[n][i]]
    BY <2>1, RestoredPriorityIsBest
  <2>3. \A n \in Mutex : \A i \in DOMAIN waiting[n] : waiting[n][i] # p
    <3>1. state[p] = "EXEC"
      BY <2>1 DEF Structure, HandlerState
    <3> QED
      BY <3>1 DEF Structure, WaitersAreBlocked
  <2>4. /\ waiting' = waiting /\ owned'[p] = kept
        /\ \A q \in Proc : q # p => owned'[q] = owned[q]
    BY <1>4, <2>1 DEF UnlockRestore, TypeOK
  <2>5. CASE Algorithm = "CMN"
    <3>1. eff'[p] = R /\ \A q \in Proc : q # p => eff'[q] = eff[q]
      BY <1>4, <2>5 DEF UnlockRestore, ChangePriority, TypeOK
    <3>2. \A n \in Mutex : \A i \in DOMAIN waiting[n] :
             waiting[n][i] \in Proc /\ eff'[waiting[n][i]] = eff[waiting[n][i]]
      BY <2>3, <3>1, ElementOfSeq, LenProperties DEF TypeOK
    <3> HIDE DEF kept, R
    <3> SUFFICES ASSUME NEW q \in Proc
                 PROVE  /\ eff'[q] <= Base[q]
                        /\ eff'[q] < Base[q] =>
                              \E n \in owned'[q] : \E i \in DOMAIN waiting[n] :
                                  eff'[waiting[n][i]] <= eff'[q]
      BY <2>4, <2>5 DEF BoostHasReason, FixedPriority
    <3>3. CASE q = p
      <4>1. eff'[p] <= Base[p]
        BY <2>2, <3>1
      <4>2. ASSUME eff'[p] < Base[p]
            PROVE  \E n \in kept : \E i \in DOMAIN waiting[n] : eff'[waiting[n][i]] <= eff'[p]
        <5>1. R # Base[p]
          BY <2>2, <3>1, <4>2, MutexAssumption DEF MutexAssumption
        <5>2. PICK n \in kept : \E i \in DOMAIN waiting[n] : R = eff[waiting[n][i]]
          BY <2>2, <5>1
        <5>3. PICK i \in DOMAIN waiting[n] : R = eff[waiting[n][i]]
          BY <5>2
        <5>4. eff'[waiting[n][i]] = R
          BY <2>1, <3>2, <5>3
        <5> QED
          BY <2>2, <3>1, <5>4
      <4> QED
        BY <2>4, <3>3, <4>1, <4>2
    <3>4. CASE q # p
      <4>1. owned[q] \subseteq Mutex
        BY DEF TypeOK
      <4> QED
        BY <2>4, <3>1, <3>2, <3>4, <4>1 DEF BoostHasReason
    <3> QED
      BY <3>3, <3>4
  <2>6. CASE Algorithm # "CMN"
    <3>1. eff' = eff /\ eff = Base
      BY <1>4, <2>6 DEF UnlockRestore, FixedPriority
    <3>2. \A q \in Proc : eff'[q] <= Base[q] /\ ~(eff'[q] < Base[q])
      BY <3>1, MutexAssumption DEF MutexAssumption
    <3> QED
      BY <3>1, <3>2 DEF BoostHasReason, FixedPriority
  <2> QED
    BY <2>5, <2>6
\* The owner gets the priority of p, which waits for a mutex of the owner;
\* everybody else's reason has at least the priority it had.
<1>5. ASSUME NEW p \in Proc, NEW m \in Mutex, LockContended(p, m)
      PROVE  BoostHasReason' /\ FixedPriority'
  <2> DEFINE owner == lockedBy[m]
  <2>1. /\ owner \in Proc /\ owner # p /\ owned' = owned
        /\ waiting[m] \in Seq(Proc) /\ serving[owner].mutex # m
    BY <1>5 DEF LockContended, InternalFree, TypeOK
  <2>2. m \in owned[owner]
    <3>1. serving[owner] # [at |-> "handover", mutex |-> m]
      BY <2>1
    <3> QED
      BY <2>1, <3>1 DEF Structure, OwnershipAgrees
  <2>3. /\ \A n \in Mutex : n # m => waiting'[n] = waiting[n]
        /\ waiting'[m] = Append(waiting[m], p)
    BY <1>5 DEF LockContended, JoinList, TypeOK
  <2>4. /\ \A n \in Mutex : \A i \in DOMAIN waiting[n] :
              i \in DOMAIN waiting'[n] /\ waiting'[n][i] = waiting[n][i]
        /\ \E i \in DOMAIN waiting'[m] : waiting'[m][i] = p
    BY <2>1, <2>3, AppendProperties, LenProperties
  <2>5. CASE Algorithm = "CMN" /\ eff[p] < eff[owner]
    <3>1. eff'[owner] = eff[p] /\ \A q \in Proc : q # owner => eff'[q] = eff[q]
      BY <1>5, <2>1, <2>5 DEF LockContended, ChangePriority, TypeOK
    <3> HIDE DEF owner
    <3>2. /\ eff \in [Proc -> Nat] /\ eff'[p] = eff[p]
          /\ \A q \in Proc : eff'[q] \in Nat /\ eff'[q] <= eff[q]
      <4>1. /\ eff \in [Proc -> Nat] /\ eff'[p] = eff[p]
            /\ eff'[owner] \in Nat /\ eff'[owner] <= eff[owner]
        BY <2>1, <2>5, <3>1 DEF TypeOK
      <4> QED
        BY <3>1, <4>1
    <3>3. ASSUME NEW n \in Mutex, NEW i \in DOMAIN waiting[n]
          PROVE  waiting[n][i] \in Proc
      BY ElementOfSeq, LenProperties DEF TypeOK
    <3> SUFFICES ASSUME NEW q \in Proc
                 PROVE  /\ eff'[q] <= Base[q]
                        /\ eff'[q] < Base[q] =>
                              \E n \in owned[q] : \E i \in DOMAIN waiting'[n] :
                                  eff'[waiting'[n][i]] <= eff'[q]
      BY <2>1, <2>5 DEF BoostHasReason, FixedPriority
    <3>4. eff'[q] <= Base[q]
      <4>1. eff[q] <= Base[q] /\ Base[q] \in Nat
        BY MutexAssumption DEF BoostHasReason, MutexAssumption
      <4> QED
        BY <3>2, <4>1
    <3>5. CASE q = owner
      BY <2>2, <2>4, <3>1, <3>2, <3>4, <3>5
    <3>6. CASE q # owner
      <4> SUFFICES ASSUME eff'[q] < Base[q]
                   PROVE  \E n \in owned[q] : \E i \in DOMAIN waiting'[n] :
                              eff'[waiting'[n][i]] <= eff'[q]
        BY <3>4
      <4>1. PICK n \in owned[q] : \E i \in DOMAIN waiting[n] : eff[waiting[n][i]] <= eff[q]
        BY <3>1, <3>6 DEF BoostHasReason
      <4>2. PICK i \in DOMAIN waiting[n] : eff[waiting[n][i]] <= eff[q]
        BY <4>1
      <4>3. n \in Mutex /\ waiting[n][i] \in Proc
        BY <3>3 DEF TypeOK
      <4>4. i \in DOMAIN waiting'[n] /\ waiting'[n][i] = waiting[n][i]
        BY <2>4, <4>3
      <4>5. eff'[waiting[n][i]] <= eff'[q]
        BY <3>1, <3>2, <3>6, <4>2, <4>3
      <4> QED
        BY <4>4, <4>5
    <3> QED
      BY <3>5, <3>6
  <2>6. CASE ~(Algorithm = "CMN" /\ eff[p] < eff[owner])
    <3>1. eff' = eff
      BY <1>5, <2>6 DEF LockContended
    <3>2. \A q \in Proc : owned[q] \subseteq Mutex
      BY DEF TypeOK
    <3> QED
      BY <2>1, <2>4, <3>1, <3>2, BoostKept
  <2> QED
    BY <2>5, <2>6
<1>6. CASE UNCHANGED vars
  BY <1>0, <1>6 DEF vars
<1> QED
  BY <1>1, <1>2, <1>3, <1>4, <1>5, <1>6 DEF Next

(***************************************************************************)
(* The ready queues follow the states and the effective priorities.        *)
(***************************************************************************)

\* A process that was not READY becomes READY.
LEMMA MakeReadyQueues ==
    ASSUME TypeOK, ReadyQueuesMatchPriorities, NEW p \in Proc, state[p] # "READY",
           MakeReady(p), eff' = eff
    PROVE  ReadyQueuesMatchPriorities'
<1> DEFINE r == add_process_to_ready_queue(readyQ, p, eff[p])
<1>1. eff[p] \in Nat /\ readyQ \in [Queues -> Seq(Proc)] /\ \A q \in Proc : eff[q] \in Nat
  BY DEF TypeOK
<1>2. NotQueued(readyQ, p)
  BY DEF ReadyQueuesMatchPriorities
<1>3. /\ QueuedOnceAt(r, p, eff[p])
      /\ \A q \in Proc : q # p =>
            /\ NotQueued(readyQ, q) => NotQueued(r, q)
            /\ \A pr \in Nat : QueuedOnceAt(readyQ, q, pr) => QueuedOnceAt(r, q, pr)
  BY <1>1, <1>2, AddToQueue
<1>4. readyQ' = r /\ state'[p] = "READY" /\ \A q \in Proc : q # p => state'[q] = state[q]
  BY DEF MakeReady, TypeOK
<1> HIDE DEF r
<1> SUFFICES ASSUME NEW q \in Proc
             PROVE  IF state'[q] = "READY" THEN QueuedOnceAt(r, q, eff[q]) ELSE NotQueued(r, q)
  BY <1>4 DEF ReadyQueuesMatchPriorities, QueuedOnceAt, NotQueued
<1>5. CASE q = p
  BY <1>3, <1>4, <1>5
<1>6. CASE q # p
  BY <1>1, <1>3, <1>4, <1>6 DEF ReadyQueuesMatchPriorities
<1> QED
  BY <1>5, <1>6

\* A process that was not READY gets another state, not READY either, and
\* perhaps another priority.
LEMMA UnqueuedMove ==
    ASSUME TypeOK, ReadyQueuesMatchPriorities, NEW p \in Proc,
           state[p] # "READY", state'[p] # "READY", readyQ' = readyQ,
           \A q \in Proc : q # p => state'[q] = state[q] /\ eff'[q] = eff[q]
    PROVE  ReadyQueuesMatchPriorities'
<1> SUFFICES ASSUME NEW q \in Proc
             PROVE  IF state'[q] = "READY" THEN QueuedOnceAt(readyQ, q, eff'[q])
                    ELSE NotQueued(readyQ, q)
  BY DEF ReadyQueuesMatchPriorities, QueuedOnceAt, NotQueued
<1>1. CASE q = p
  BY <1>1 DEF ReadyQueuesMatchPriorities
<1>2. CASE q # p
  BY <1>2 DEF ReadyQueuesMatchPriorities
<1> QED
  BY <1>1, <1>2

\* process_set_ready queues the process that becomes READY, and no other.
LEMMA SetReadyQueues ==
    ASSUME TypeOK, ReadyQueuesMatchPriorities, NEW p \in Proc, state[p] # "READY",
           process_set_ready(p), eff' = eff
    PROVE  ReadyQueuesMatchPriorities'
<1>1. CASE state[p] = "SUSP_BLOCK"
  <2>1. readyQ' = readyQ /\ state'[p] = "SUSP_READY" /\ \A q \in Proc : q # p => state'[q] = state[q]
    BY <1>1 DEF process_set_ready, TypeOK
  <2> QED
    BY <2>1, UnqueuedMove
<1>2. CASE state[p] # "SUSP_BLOCK"
  BY <1>2, MakeReadyQueues DEF process_set_ready
<1> QED
  BY <1>1, <1>2

\* Every step keeps each READY process once in the queue of its priority.
LEMMA QueueStep ==
    ASSUME TypeOK, Structure, ReadyQueuesMatchPriorities, [Next]_vars
    PROVE  ReadyQueuesMatchPriorities'
<1>0. CASE UNCHANGED <<state, eff, readyQ>>
  BY <1>0 DEF ReadyQueuesMatchPriorities, QueuedOnceAt, NotQueued
<1>1. ASSUME NEW p \in Proc, Admit(p) \/ Evict(p) \/ wait_confirmation_swap_in(p)
      PROVE  ReadyQueuesMatchPriorities'
  <2>1. state[p] # "READY" /\ MakeReady(p) /\ eff' = eff
    BY <1>1 DEF Admit, Evict, wait_confirmation_swap_in
  <2> QED
    BY <2>1, MakeReadyQueues
<1>2. ASSUME NEW p \in Proc, Dispatch(p) PROVE ReadyQueuesMatchPriorities'
  <2> DEFINE r == remove_process_from_ready_queue(readyQ, p, eff[p])
  <2>1. eff[p] \in Nat /\ readyQ \in [Queues -> Seq(Proc)] /\ \A q \in Proc : eff[q] \in Nat
    BY DEF TypeOK
  <2>2. state[p] = "READY" /\ QueuedOnceAt(readyQ, p, eff[p])
    BY <1>2 DEF Dispatch, ReadyQueuesMatchPriorities
  <2>3. /\ NotQueued(r, p)
        /\ \A q \in Proc : q # p =>
              /\ NotQueued(readyQ, q) => NotQueued(r, q)
              /\ \A pr \in Nat : QueuedOnceAt(readyQ, q, pr) => QueuedOnceAt(r, q, pr)
    BY <2>1, <2>2, RemoveFromQueue
  <2>4. /\ readyQ' = r /\ eff' = eff /\ state'[p] = "EXEC"
        /\ \A q \in Proc : q # p => state'[q] = state[q]
    BY <1>2 DEF Dispatch, TypeOK
  <2> HIDE DEF r
  <2> SUFFICES ASSUME NEW q \in Proc
               PROVE  IF state'[q] = "READY" THEN QueuedOnceAt(r, q, eff[q]) ELSE NotQueued(r, q)
    BY <2>4 DEF ReadyQueuesMatchPriorities, QueuedOnceAt, NotQueued
  <2>5. CASE q = p
    BY <2>3, <2>4, <2>5
  <2>6. CASE q # p
    BY <2>1, <2>3, <2>4, <2>6 DEF ReadyQueuesMatchPriorities
  <2> QED
    BY <2>5, <2>6
<1>3. ASSUME NEW p \in Proc, BlockOnIo(p) \/ ProcessEnd(p) \/ Suspend(p)
      PROVE  ReadyQueuesMatchPriorities'
  <2>1. /\ state[p] # "READY" /\ state'[p] # "READY" /\ readyQ' = readyQ /\ eff' = eff
        /\ \A q \in Proc : q # p => state'[q] = state[q]
    BY <1>3 DEF BlockOnIo, ProcessEnd, Suspend, Running, TypeOK
  <2> QED
    BY <2>1, UnqueuedMove
<1>4. ASSUME NEW p \in Proc, io_finish_process(p) PROVE ReadyQueuesMatchPriorities'
  <2>1. state[p] \in {"BLOCK", "SUSP_BLOCK"} /\ process_set_ready(p) /\ eff' = eff
    BY <1>4 DEF io_finish_process, Structure, WaitingState
  <2> QED
    BY <2>1, SetReadyQueues
<1>5. ASSUME NEW p \in Proc, NEW ok \in BOOLEAN, wait_confirmation_swap_out(p, ok)
      PROVE  ReadyQueuesMatchPriorities'
  <2>1. eff' = eff /\ state[p] \in {"SUSP_BLOCK", "SUSP_READY"}
    BY <1>5 DEF wait_confirmation_swap_out, Structure, WaitingState
  <2>2. CASE ok
    BY <1>0, <1>5, <2>2 DEF wait_confirmation_swap_out
  <2>3. CASE ~ok /\ state[p] = "SUSP_READY"
    BY <1>5, <2>1, <2>3, MakeReadyQueues DEF wait_confirmation_swap_out
  <2>4. CASE ~ok /\ state[p] = "SUSP_BLOCK"
    <3>1. /\ state'[p] = "BLOCK" /\ readyQ' = readyQ
          /\ \A q \in Proc : q # p => state'[q] = state[q]
      BY <1>5, <2>4 DEF wait_confirmation_swap_out, TypeOK
    <3> QED
      BY <2>1, <3>1, UnqueuedMove
  <2> QED
    BY <2>1, <2>2, <2>3, <2>4
<1>6. ASSUME NEW p \in Proc, UnlockRestore(p) PROVE ReadyQueuesMatchPriorities'
  <2>1. state[p] = "EXEC"
    BY <1>6 DEF UnlockRestore, Structure, HandlerState, Idle
  <2>2. state' = state /\ readyQ' = readyQ /\ \A q \in Proc : q # p => eff'[q] = eff[q]
    BY <1>6, <2>1 DEF UnlockRestore, ChangePriority, TypeOK
  <2> QED
    BY <2>1, <2>2, UnqueuedMove
<1>7. ASSUME NEW p \in Proc, UnlockHandover(p) PROVE ReadyQueuesMatchPriorities'
  <2> DEFINE m == serving[p].mutex
  <2>1. m \in Mutex /\ waiting[m] \in Seq(Proc) /\ eff' = eff
    BY <1>7 DEF UnlockHandover, Structure, HandlerState, Idle, TypeOK
  <2>2. CASE waiting[m] = <<>>
    BY <1>0, <1>7, <2>2 DEF UnlockHandover
  <2>3. CASE waiting[m] # <<>>
    <3>1. process_set_ready(Head(waiting[m]))
      BY <1>7, <2>3 DEF UnlockHandover
    <3>2. Head(waiting[m]) \in Proc /\ Head(waiting[m]) = waiting[m][1] /\ 1 \in DOMAIN waiting[m]
      BY <2>1, <2>3
    <3>3. state[Head(waiting[m])] \in {"BLOCK", "SUSP_BLOCK"}
      BY <2>1, <3>2 DEF Structure, WaitersAreBlocked
    <3> QED
      BY <2>1, <3>1, <3>2, <3>3, SetReadyQueues
  <2> QED
    BY <2>2, <2>3
<1>8. ASSUME NEW p \in Proc, NEW m \in Mutex, LockContended(p, m)
      PROVE  ReadyQueuesMatchPriorities'
  <2> DEFINE owner == lockedBy[m]
  <2>1. /\ owner \in Proc /\ owner # p /\ state[p] = "EXEC" /\ state'[p] = "BLOCK"
        /\ \A q \in Proc : q # p => state'[q] = state[q]
    BY <1>8 DEF LockContended, Running, TypeOK
  <2>2. /\ readyQ \in [Queues -> Seq(Proc)] /\ \A q \in Proc : eff[q] \in Nat
    BY DEF TypeOK
  <2>3. CASE Algorithm = "CMN" /\ eff[p] < eff[owner] /\ state[owner] = "READY"
    <3> DEFINE a == remove_process_from_ready_queue(readyQ, owner, eff[owner])
               b == add_process_to_ready_queue(a, owner, eff[p])
    <3>1. /\ readyQ' = b /\ eff'[owner] = eff[p]
          /\ \A q \in Proc : q # owner => eff'[q] = eff[q]
      BY <1>8, <2>1, <2>3 DEF LockContended, ChangePriority, TypeOK
    <3> HIDE DEF owner
    <3>2. QueuedOnceAt(readyQ, owner, eff[owner])
      BY <2>1, <2>3 DEF ReadyQueuesMatchPriorities
    <3>3. /\ a \in [Queues -> Seq(Proc)] /\ NotQueued(a, owner)
          /\ \A q \in Proc : q # owner =>
                /\ NotQueued(readyQ, q) => NotQueued(a, q)
                /\ \A pr \in Nat : QueuedOnceAt(readyQ, q, pr) => QueuedOnceAt(a, q, pr)
      BY <2>1, <2>2, <3>2, RemoveFromQueue
    <3> HIDE DEF a
    <3>4. /\ QueuedOnceAt(b, owner, eff[p])
          /\ \A q \in Proc : q # owner =>
                /\ NotQueued(a, q) => NotQueued(b, q)
                /\ \A pr \in Nat : QueuedOnceAt(a, q, pr) => QueuedOnceAt(b, q, pr)
      BY <2>1, <2>2, <3>3, AddToQueue
    <3> HIDE DEF b
    <3> SUFFICES ASSUME NEW q \in Proc
                 PROVE  IF state'[q] = "READY" THEN QueuedOnceAt(b, q, eff'[q])
                        ELSE NotQueued(b, q)
      BY <3>1 DEF ReadyQueuesMatchPriorities, QueuedOnceAt, NotQueued
    <3>5. CASE q = owner
      BY <2>1, <2>3, <3>1, <3>4, <3>5
    <3>6. CASE q # owner
      <4>1. IF state[q] = "READY" THEN QueuedOnceAt(readyQ, q, eff[q]) ELSE NotQueued(readyQ, q)
        BY DEF ReadyQueuesMatchPriorities
      <4> QED
        BY <2>1, <2>2, <3>1, <3>3, <3>4, <3>6, <4>1
    <3> QED
      BY <3>5, <3>6
  <2>4. CASE ~(Algorithm = "CMN" /\ eff[p] < eff[owner] /\ state[owner] = "READY")
    <3>1. /\ readyQ' = readyQ /\ \A q \in Proc : q # owner => eff'[q] = eff[q]
          /\ eff'[owner] # eff[owner] => state[owner] # "READY"
      BY <1>8, <2>1, <2>4 DEF LockContended, ChangePriority, TypeOK
    <3> HIDE DEF owner
    <3> SUFFICES ASSUME NEW q \in Proc
                 PROVE  IF state'[q] = "READY" THEN QueuedOnceAt(readyQ, q, eff'[q])
                        ELSE NotQueued(readyQ, q)
      BY <3>1 DEF ReadyQueuesMatchPriorities, QueuedOnceAt, NotQueued
    <3>2. IF state[q] = "READY" THEN QueuedOnceAt(readyQ, q, eff[q]) ELSE NotQueued(readyQ, q)
      BY DEF ReadyQueuesMatchPriorities
    <3> QED
      BY <2>1, <3>1, <3>2
  <2> QED
    BY <2>3, <2>4
<1>9. ASSUME NEW p \in Proc, NEW m \in Mutex,
             mutex_create(p, m) \/ LockFree(p, m) \/ UnlockRefused(p, m) \/ UnlockBegin(p, m)
      PROVE  ReadyQueuesMatchPriorities'
  BY <1>0, <1>9 DEF mutex_create, LockFree, UnlockRefused, UnlockBegin
<1>10. CASE UNCHANGED vars
  BY <1>0, <1>10 DEF vars
<1> QED
  BY <1>1, <1>2, <1>3, <1>4, <1>5, <1>6, <1>7, <1>8, <1>9, <1>10 DEF Next

(***************************************************************************)
(* The theorems.                                                           *)
(***************************************************************************)

\* The inductive invariant: the properties need one another, and what
\* HandlerState, WaitingState and FixedPriority add.
IndInv ==
    /\ TypeOK
    /\ Structure
    /\ BoostHasReason
    /\ FixedPriority
    /\ ReadyQueuesMatchPriorities

\* The inductive invariant holds initially ...
LEMMA InvInit == Init => IndInv
<1> SUFFICES ASSUME Init PROVE IndInv
  OBVIOUS
<1>1. TypeOK /\ Structure
  BY TypeInit, StructureInit
<1>2. BoostHasReason /\ FixedPriority
  BY MutexAssumption DEF Init, BoostHasReason, FixedPriority, MutexAssumption
<1>3. ReadyQueuesMatchPriorities
  BY DEF Init, ReadyQueuesMatchPriorities, NotQueued, EmptyQueues
<1> QED
  BY <1>1, <1>2, <1>3 DEF IndInv

\* ... and every step keeps it.
LEMMA InvStep == IndInv /\ [Next]_vars => IndInv'
<1> SUFFICES ASSUME IndInv, [Next]_vars PROVE IndInv'
  OBVIOUS
<1>1. TypeOK /\ Structure /\ HandlerState /\ BoostHasReason /\ FixedPriority
        /\ ReadyQueuesMatchPriorities
  BY DEF IndInv, Structure
<1>2. TypeOK'
  BY <1>1, TypeStep
<1>3. Structure'
  BY <1>1, StructureStep
<1>4. BoostHasReason' /\ FixedPriority'
  BY <1>1, BoostStep
<1>5. ReadyQueuesMatchPriorities'
  BY <1>1, QueueStep
<1> QED
  BY <1>2, <1>3, <1>4, <1>5 DEF IndInv

\* The mutex manager keeps its inductive invariant.
THEOREM Invariance == Spec => []IndInv
  BY InvInit, InvStep, PTL DEF Spec

\* Every field keeps its type.
THEOREM TypeCorrect == Spec => []TypeOK
<1>1. IndInv => TypeOK
  BY DEF IndInv
<1> QED
  BY <1>1, Invariance, PTL

\* lockedBy and owned_mutexes agree whenever no mutex_unlock is between its
\* two halves for that mutex.
THEOREM OwnershipTheorem == Spec => []OwnershipAgrees
<1>1. IndInv => OwnershipAgrees
  BY DEF IndInv, Structure
<1> QED
  BY <1>1, Invariance, PTL

\* mutex_unlock always finds a process it may wake: whoever waits for a mutex
\* is blocked, once, on one mutex that somebody else holds.
THEOREM WaitersTheorem == Spec => []WaitersAreBlocked
<1>1. IndInv => WaitersAreBlocked
  BY DEF IndInv, Structure
<1> QED
  BY <1>1, Invariance, PTL

\* No wake-up is lost by mutex_unlock: a blocked process waits in the list of a
\* mutex, or a device has it.
THEOREM WakerTheorem == Spec => []BlockedHasWaker
<1>1. IndInv => BlockedHasWaker
  BY DEF IndInv, Structure
<1> QED
  BY <1>1, Invariance, PTL

\* No process keeps an inherited priority once its reason is gone.
THEOREM BoostTheorem == Spec => []BoostHasReason
<1>1. IndInv => BoostHasReason
  BY DEF IndInv
<1> QED
  BY <1>1, Invariance, PTL

\* Inheritance never loses, duplicates or misplaces a READY process.
THEOREM QueuesTheorem == Spec => []ReadyQueuesMatchPriorities
<1>1. IndInv => ReadyQueuesMatchPriorities
  BY DEF IndInv
<1> QED
  BY <1>1, Invariance, PTL
=============================================================================
