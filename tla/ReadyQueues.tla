----------------------------- MODULE ReadyQueues -----------------------------
(***************************************************************************)
(* The ready queues of the Kernel Scheduler and the operations utils.c     *)
(* offers on them.  ready_queue is an array of lists: one list per         *)
(* priority level under CMN (multilevel queue), and a single list, at      *)
(* index 0, under FIFO and RR.  Every operation runs under the scheduler's *)
(* mutex, so each is an operator on the value of the array.                *)
(***************************************************************************)
EXTENDS Naturals, Sequences, SequencesExt

CONSTANTS Proc,        \* processes, named by their PIDs
          NoProc,      \* the NULL process pointer
          Algorithm,   \* scheduler_algorithm: "FIFO", "RR" or "CMN"
          NumQueues    \* queue_algorithms_count: the levels of CMN

ASSUME QueueAssumption ==
    /\ NoProc \notin Proc
    /\ Algorithm \in {"FIFO", "RR", "CMN"}
    /\ NumQueues \in Nat \ {0}

Queues == 0 .. (NumQueues - 1)

EmptyQueues == [i \in Queues |-> <<>>]

\* A priority beyond the configured levels goes to the last queue.
QueueIndex(prio) ==
    IF Algorithm = "CMN"
    THEN IF prio >= NumQueues THEN NumQueues - 1 ELSE prio
    ELSE 0

add_process_to_ready_queue(rq, p, prio) ==
    [rq EXCEPT ![QueueIndex(prio)] = Append(@, p)]

\* Only CMN really inserts at the front: FIFO and RR append here as well.
add_process_at_start_of_ready_queue(rq, p, prio) ==
    [rq EXCEPT ![QueueIndex(prio)] =
        IF Algorithm = "CMN" THEN <<p>> \o @ ELSE Append(@, p)]

\* Fault: the process stays in the queue.
remove_process_Forgotten(rq, p, prio) == rq

\* The process is looked for in the queue of its *current* priority only.
remove_process_from_ready_queue(rq, p, prio) ==
    [rq EXCEPT ![QueueIndex(prio)] = RemoveFirst(@, p)]

\* The head of the first queue that is not empty, NoProc if all are empty.
get_highest_priority_process_from_ready_queue(rq) ==
    LET nonEmpty == {i \in Queues : rq[i] # <<>>}
    IN  IF nonEmpty = {} THEN NoProc
        ELSE Head(rq[CHOOSE i \in nonEmpty : \A j \in nonEmpty : i <= j])

\* The first process of the list with the numerically greatest priority
\* (0 is the highest priority); NoProc for the empty list.
get_lowest_priority_process(list, prio) ==
    IF list = <<>> THEN NoProc
    ELSE list[CHOOSE i \in DOMAIN list :
                 \A j \in DOMAIN list :
                    /\ prio[list[j]] <= prio[list[i]]
                    /\ j < i => prio[list[j]] < prio[list[i]]]

\* p is in the queue of priority prio, once, and nowhere else.
QueuedOnceAt(rq, p, prio) ==
    /\ \E k \in DOMAIN rq[QueueIndex(prio)] : rq[QueueIndex(prio)][k] = p
    /\ \A i, j \in Queues : \A k \in DOMAIN rq[i], l \in DOMAIN rq[j] :
          (rq[i][k] = p /\ rq[j][l] = p) => (i = j /\ k = l)

\* p is in none of the queues.
NotQueued(rq, p) ==
    \A i \in Queues : \A k \in DOMAIN rq[i] : rq[i][k] # p
==============================================================================
