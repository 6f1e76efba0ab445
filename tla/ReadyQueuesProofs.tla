-------------------------- MODULE ReadyQueuesProofs --------------------------
(***************************************************************************)
(* Lemmas about the operations of ReadyQueues, for any algorithm, number   *)
(* of levels and priority: what adding and removing a process does to the  *)
(* place of that process and of every other one.                           *)
(***************************************************************************)
EXTENDS ReadyQueues, ListProofs

\* Every priority has a queue.
LEMMA QueueIndexType ==
    ASSUME NEW prio \in Nat
    PROVE  QueueIndex(prio) \in Queues
  BY QueueAssumption DEF QueueIndex, Queues

\* add_process_to_ready_queue queues p once, where its priority says, and
\* moves nobody else.
LEMMA AddToQueue ==
    ASSUME NEW rq \in [Queues -> Seq(Proc)], NEW p \in Proc, NEW prio \in Nat
    PROVE  LET r == add_process_to_ready_queue(rq, p, prio)
           IN  /\ r \in [Queues -> Seq(Proc)]
               /\ NotQueued(rq, p) => QueuedOnceAt(r, p, prio)
               /\ \A q \in Proc : q # p =>
                     /\ NotQueued(rq, q) => NotQueued(r, q)
                     /\ \A pr \in Nat : QueuedOnceAt(rq, q, pr) => QueuedOnceAt(r, q, pr)
<1> DEFINE i0 == QueueIndex(prio)
           old == rq[i0]
           new == Append(old, p)
           r == add_process_to_ready_queue(rq, p, prio)
<1>1. i0 \in Queues
  BY QueueIndexType
<1>2. r = [rq EXCEPT ![i0] = new]
  BY DEF add_process_to_ready_queue
<1>3. /\ old \in Seq(Proc) /\ new \in Seq(Proc) /\ Len(old) \in Nat
      /\ DOMAIN old = 1..Len(old) /\ DOMAIN new = 1..(Len(old) + 1)
      /\ \A k \in 1..Len(old) : new[k] = old[k]
      /\ new[Len(old) + 1] = p
  BY <1>1, AppendProperties, LenProperties
<1> HIDE DEF new, old, i0
<1>4. /\ r \in [Queues -> Seq(Proc)]
      /\ r[i0] = new
      /\ \A i \in Queues : i # i0 => r[i] = rq[i]
  BY <1>1, <1>2, <1>3
<1> HIDE DEF r
<1>old. old = rq[i0]
  BY DEF old
<1>5. ASSUME NotQueued(rq, p) PROVE QueuedOnceAt(r, p, prio)
  <2>1. \A k \in DOMAIN old : old[k] # p
    BY <1>1, <1>5, <1>old DEF NotQueued
  <2>2. r[i0][Len(old) + 1] = p /\ Len(old) + 1 \in DOMAIN r[i0]
    BY <1>3, <1>4
  <2>3. \A i \in Queues : \A k \in DOMAIN r[i] : r[i][k] = p => i = i0 /\ k = Len(old) + 1
    <3> SUFFICES ASSUME NEW i \in Queues, NEW k \in DOMAIN r[i], r[i][k] = p
                 PROVE  i = i0 /\ k = Len(old) + 1
      OBVIOUS
    <3>1. i = i0
      BY <1>4, <1>5 DEF NotQueued
    <3>2. k \in 1..(Len(old) + 1) /\ new[k] = p
      BY <1>3, <1>4, <3>1
    <3>3. k \in 1..Len(old) => old[k] = p /\ k \in DOMAIN old
      BY <1>3, <3>2
    <3> QED
      BY <1>3, <2>1, <3>1, <3>2, <3>3
  <2> QED
    BY <2>2, <2>3, <1>1 DEF QueuedOnceAt, i0
<1>6. ASSUME NEW q \in Proc, q # p, NEW i \in Queues
      PROVE  /\ \A k \in DOMAIN rq[i] : rq[i][k] = q => k \in DOMAIN r[i] /\ r[i][k] = q
             /\ \A k \in DOMAIN r[i] : r[i][k] = q => k \in DOMAIN rq[i] /\ rq[i][k] = q
  <2>1. CASE i # i0
    BY <1>4, <2>1
  <2>2. CASE i = i0
    <3>1. rq[i] = old /\ r[i] = new
      BY <1>4, <1>old, <2>2
    <3>2. ASSUME NEW k \in DOMAIN old, old[k] = q PROVE k \in DOMAIN new /\ new[k] = q
      BY <1>3, <3>2
    <3>3. ASSUME NEW k \in DOMAIN new, new[k] = q PROVE k \in DOMAIN old /\ old[k] = q
      <4>1. k # Len(old) + 1
        BY <1>3, <1>6, <3>3
      <4>2. k \in 1..Len(old)
        BY <1>3, <4>1
      <4> QED
        BY <1>3, <3>3, <4>2
    <3> QED
      BY <3>1, <3>2, <3>3
  <2> QED
    BY <2>1, <2>2
<1>7. ASSUME NEW q \in Proc, q # p, NotQueued(rq, q) PROVE NotQueued(r, q)
  BY <1>6, <1>7 DEF NotQueued
<1>8. ASSUME NEW q \in Proc, q # p, NEW pr \in Nat, QueuedOnceAt(rq, q, pr)
      PROVE  QueuedOnceAt(r, q, pr)
  <2>1. QueueIndex(pr) \in Queues
    BY QueueIndexType
  <2> QED
    BY <1>6, <1>8, <2>1 DEF QueuedOnceAt
<1> QED
  BY <1>4, <1>5, <1>7, <1>8 DEF r

\* remove_process_from_ready_queue takes p out if it is queued where its
\* priority says, and neither removes nor duplicates anybody else.
LEMMA RemoveFromQueue ==
    ASSUME NEW rq \in [Queues -> Seq(Proc)], NEW p \in Proc, NEW prio \in Nat
    PROVE  LET r == remove_process_from_ready_queue(rq, p, prio)
           IN  /\ r \in [Queues -> Seq(Proc)]
               /\ QueuedOnceAt(rq, p, prio) => NotQueued(r, p)
               /\ NotQueued(rq, p) => r = rq
               /\ \A q \in Proc : q # p =>
                     /\ NotQueued(rq, q) => NotQueued(r, q)
                     /\ \A pr \in Nat : QueuedOnceAt(rq, q, pr) => QueuedOnceAt(r, q, pr)
<1> DEFINE i0 == QueueIndex(prio)
           old == rq[i0]
           new == RemoveFirst(old, p)
           r == remove_process_from_ready_queue(rq, p, prio)
<1>1. i0 \in Queues /\ old \in Seq(Proc)
  BY QueueIndexType
<1>2. r = [rq EXCEPT ![i0] = new]
  BY DEF remove_process_from_ready_queue
<1>len. Len(old) \in Nat /\ DOMAIN old = 1..Len(old)
  BY <1>1, LenProperties
<1>old. old = rq[i0]
  OBVIOUS
<1>3. CASE ~ \E i \in 1..Len(old) : old[i] = p
  <2>1. new = old
    BY <1>3, RemoveFirstAbsent
  <2>2. r = rq
    BY <2>1, <1>1, <1>2
  <2>3. ~QueuedOnceAt(rq, p, prio)
    BY <1>3, <1>len DEF QueuedOnceAt
  <2> QED
    BY <2>2, <2>3
<1>4. CASE \E i \in 1..Len(old) : old[i] = p
  <2>1. PICK k \in 1..Len(old) :
           /\ old[k] = p
           /\ new \in Seq(Proc)
           /\ Len(new) = Len(old) - 1
           /\ \A i \in 1..(Len(old) - 1) :
                 new[i] = IF i < k THEN old[i] ELSE old[i + 1]
    BY <1>1, <1>4, RemoveFirstPresent
  <2>2. DOMAIN new = 1..(Len(old) - 1)
    BY <2>1, LenProperties
  <2> HIDE DEF new, old, i0
  <2>3. /\ r \in [Queues -> Seq(Proc)]
        /\ r[i0] = new
        /\ \A i \in Queues : i # i0 => r[i] = rq[i]
    BY <1>1, <1>2, <2>1
  <2> HIDE DEF r
  <2>4. ~NotQueued(rq, p)
    BY <1>1, <1>len, <1>old, <2>1 DEF NotQueued
  <2>5. ASSUME QueuedOnceAt(rq, p, prio) PROVE NotQueued(r, p)
    <3>1. \A i \in Queues : \A j \in DOMAIN rq[i] : rq[i][j] = p => i = i0 /\ j = k
      BY <1>1, <1>len, <1>old, <2>1, <2>5 DEF QueuedOnceAt
    <3>2. ASSUME NEW j \in DOMAIN new PROVE new[j] # p
      <4>1. \A l \in 1..Len(old) : old[l] = p => l = k
        BY <1>1, <1>len, <1>old, <3>1
      <4>2. j \in 1..(Len(old) - 1) /\ new[j] = IF j < k THEN old[j] ELSE old[j + 1]
        BY <2>1, <2>2
      <4>3. CASE j < k
        BY <1>len, <4>1, <4>2, <4>3
      <4>4. CASE ~(j < k)
        <5>1. j + 1 \in 1..Len(old) /\ j + 1 # k
          BY <1>len, <4>2, <4>4
        <5> QED
          BY <4>1, <4>2, <4>4, <5>1
      <4> QED
        BY <4>3, <4>4
    <3>3. \A i \in Queues : \A j \in DOMAIN r[i] : r[i][j] # p
      BY <2>3, <3>1, <3>2
    <3> QED
      BY <3>3 DEF NotQueued
  <2> DEFINE up(j) == IF j < k THEN j ELSE j + 1
             down(j) == IF j < k THEN j ELSE j - 1
  <2>6. ASSUME NEW q \in Proc, q # p, NEW j \in DOMAIN new
        PROVE  up(j) \in DOMAIN old /\ old[up(j)] = new[j]
    BY <1>len, <2>1, <2>2
  <2>7. ASSUME NEW q \in Proc, q # p, NEW j \in DOMAIN old, old[j] = q
        PROVE  down(j) \in DOMAIN new /\ new[down(j)] = q
    BY <1>len, <2>1, <2>2, <2>7
  <2>8. ASSUME NEW q \in Proc, q # p, NotQueued(rq, q) PROVE NotQueued(r, q)
    BY <1>1, <1>old, <2>3, <2>6, <2>8 DEF NotQueued
  <2>9. ASSUME NEW q \in Proc, q # p, NEW pr \in Nat, QueuedOnceAt(rq, q, pr)
        PROVE  QueuedOnceAt(r, q, pr)
    <3>1. QueueIndex(pr) \in Queues
      BY QueueIndexType
    <3>2. \E j \in DOMAIN r[QueueIndex(pr)] : r[QueueIndex(pr)][j] = q
      <4>1. PICK j \in DOMAIN rq[QueueIndex(pr)] : rq[QueueIndex(pr)][j] = q
        BY <2>9 DEF QueuedOnceAt
      <4>2. CASE QueueIndex(pr) = i0
        <5>1. rq[QueueIndex(pr)] = old /\ r[QueueIndex(pr)] = new
          BY <1>old, <2>3, <4>2
        <5>2. down(j) \in DOMAIN new /\ new[down(j)] = q
          BY <2>7, <2>9, <4>1, <5>1
        <5> QED
          BY <5>1, <5>2
      <4>3. CASE QueueIndex(pr) # i0
        BY <2>3, <3>1, <4>1, <4>3
      <4> QED
        BY <4>2, <4>3
    <3>3. ASSUME NEW i \in Queues, NEW j \in Queues,
                 NEW a \in DOMAIN r[i], NEW b \in DOMAIN r[j], r[i][a] = q, r[j][b] = q
          PROVE  i = j /\ a = b
      <4> DEFINE at(x, y) == IF x = i0 THEN up(y) ELSE y
      <4>1. at(i, a) \in DOMAIN rq[i] /\ rq[i][at(i, a)] = q
        BY <1>old, <2>3, <2>6, <2>9, <3>3
      <4>2. at(j, b) \in DOMAIN rq[j] /\ rq[j][at(j, b)] = q
        BY <1>old, <2>3, <2>6, <2>9, <3>3
      <4>3. i = j /\ at(i, a) = at(j, b)
        BY <2>9, <4>1, <4>2 DEF QueuedOnceAt
      <4>4. i = i0 => a \in Int /\ b \in Int
        BY <2>2, <2>3, <3>3, <4>3, <1>len
      <4> QED
        BY <4>3, <4>4
    <3> QED
      BY <3>2, <3>3 DEF QueuedOnceAt
  <2> QED
    BY <2>3, <2>4, <2>5, <2>8, <2>9 DEF r
<1> QED
  BY <1>3, <1>4, <1>len

\* get_highest_priority_process_from_ready_queue returns a queued process, or
\* NULL when all queues are empty.
LEMMA HighestIsQueued ==
    ASSUME NEW rq \in [Queues -> Seq(Proc)]
    PROVE  LET p == get_highest_priority_process_from_ready_queue(rq)
           IN  p # NoProc => p \in Proc /\ ~NotQueued(rq, p)
<1> DEFINE nonEmpty == {i \in Queues : rq[i] # <<>>}
           i0 == CHOOSE i \in nonEmpty : \A j \in nonEmpty : i <= j
           p == get_highest_priority_process_from_ready_queue(rq)
<1>1. CASE nonEmpty = {}
  BY <1>1 DEF get_highest_priority_process_from_ready_queue
<1>2. CASE nonEmpty # {}
  <2>1. nonEmpty \in SUBSET Nat
    BY QueueAssumption DEF Queues
  <2>2. \E i \in nonEmpty : \A j \in nonEmpty : i <= j
    BY <1>2, <2>1, LeastNat
  <2>3. i0 \in nonEmpty
    BY <2>2
  <2>4. p = Head(rq[i0])
    BY <1>2 DEF get_highest_priority_process_from_ready_queue
  <2> HIDE DEF i0
  <2>5. i0 \in Queues /\ rq[i0] \in Seq(Proc) /\ rq[i0] # <<>>
    BY <2>3
  <2>6. 1 \in DOMAIN rq[i0] /\ p = rq[i0][1] /\ p \in Proc
    BY <2>4, <2>5
  <2> QED
    BY <2>5, <2>6 DEF NotQueued
<1> QED
  BY <1>1, <1>2

\* get_lowest_priority_process: the first of the processes of lowest priority.
FirstLowest(list, prio, i) ==
    \A j \in DOMAIN list :
        /\ prio[list[j]] <= prio[list[i]]
        /\ j < i => prio[list[j]] < prio[list[i]]

\* The lists of length n, none empty, that have no such process.
Unordered(prio) ==
    {n \in Nat : \E list \in Seq(Proc) :
        Len(list) = n /\ n > 0 /\ ~ \E i \in DOMAIN list : FirstLowest(list, prio, i)}

\* A list that is not empty has one: a shortest list without one would have
\* one before its last process, and the two can be compared.
LEMMA FirstLowestExists ==
    ASSUME NEW prio \in [Proc -> Nat], NEW list \in Seq(Proc), list # <<>>
    PROVE  \E i \in DOMAIN list : FirstLowest(list, prio, i)
<1> SUFFICES ASSUME Unordered(prio) # {} PROVE FALSE
  <2>1. Len(list) \in Nat /\ Len(list) > 0
    OBVIOUS
  <2>2. Len(list) \notin Unordered(prio) => \E i \in DOMAIN list : FirstLowest(list, prio, i)
    BY <2>1 DEF Unordered
  <2> QED
    BY <2>2
<1>1. PICK n \in Unordered(prio) : \A m \in Unordered(prio) : n <= m
  BY LeastNat DEF Unordered
<1>2. PICK s \in Seq(Proc) :
        Len(s) = n /\ n > 0 /\ n \in Nat /\ ~ \E i \in DOMAIN s : FirstLowest(s, prio, i)
  BY <1>1 DEF Unordered
<1>3. DOMAIN s = 1 .. n /\ \A j \in 1 .. n : s[j] \in Proc /\ prio[s[j]] \in Nat
  BY <1>2
<1>4. n # 1
  <2>1. n = 1 => FirstLowest(s, prio, 1)
    BY <1>3 DEF FirstLowest
  <2> QED
    BY <1>2, <1>3, <2>1
<1> DEFINE f == SubSeq(s, 1, n - 1)
<1>5. f \in Seq(Proc) /\ Len(f) = n - 1 /\ \A j \in 1 .. n - 1 : f[j] = s[j]
  BY <1>2, <1>3, <1>4
<1> HIDE DEF f
<1>6. DOMAIN f = 1 .. n - 1 /\ n - 1 \in Nat /\ n - 1 > 0
  BY <1>2, <1>4, <1>5
<1>7. n - 1 \notin Unordered(prio)
  BY <1>1, <1>2
<1>8. PICK i \in DOMAIN f : FirstLowest(f, prio, i)
  BY <1>5, <1>6, <1>7 DEF Unordered
<1>9. i \in 1 .. n - 1 /\ f[i] = s[i]
  BY <1>5, <1>6
<1>10. \A j \in 1 .. n - 1 :
          prio[s[j]] <= prio[s[i]] /\ (j < i => prio[s[j]] < prio[s[i]])
  BY <1>5, <1>6, <1>8 DEF FirstLowest
<1>11. CASE prio[s[n]] <= prio[s[i]]
  <2>1. ASSUME NEW j \in 1 .. n
        PROVE  prio[s[j]] <= prio[s[i]] /\ (j < i => prio[s[j]] < prio[s[i]])
    <3>1. j \in 1 .. n - 1 \/ j = n
      BY <1>2
    <3>2. ~(n < i)
      BY <1>2, <1>9
    <3> QED
      BY <1>10, <1>11, <3>1, <3>2
  <2>2. FirstLowest(s, prio, i)
    BY <1>3, <2>1 DEF FirstLowest
  <2> QED
    BY <1>2, <1>3, <1>9, <2>2
<1>12. CASE prio[s[n]] > prio[s[i]]
  <2>1. \A j \in 1 .. n - 1 : prio[s[j]] < prio[s[n]]
    BY <1>2, <1>3, <1>9, <1>10, <1>12
  <2>2. n \in DOMAIN s
    BY <1>2, <1>3
  <2>3. ASSUME NEW j \in 1 .. n
        PROVE  prio[s[j]] <= prio[s[n]] /\ (j < n => prio[s[j]] < prio[s[n]])
    <3>1. j \in 1 .. n - 1 \/ j = n
      BY <1>2
    <3>2. CASE j = n
      BY <1>2, <1>3, <2>2, <3>2
    <3>3. CASE j \in 1 .. n - 1
      <4>1. prio[s[j]] \in Nat /\ prio[s[n]] \in Nat /\ prio[s[j]] < prio[s[n]]
        BY <1>3, <2>1, <2>2, <3>3
      <4> QED
        BY <4>1
    <3> QED
      BY <3>1, <3>2, <3>3
  <2>4. FirstLowest(s, prio, n)
    BY <1>3, <2>3 DEF FirstLowest
  <2> QED
    BY <1>2, <2>2, <2>4
<1> QED
  BY <1>2, <1>3, <1>9, <1>11, <1>12

\* get_lowest_priority_process returns a process of the list whose priority is
\* the lowest, the first one of several.
LEMMA LowestIsListed ==
    ASSUME NEW prio \in [Proc -> Nat], NEW list \in Seq(Proc), list # <<>>
    PROVE  \E i \in DOMAIN list :
              get_lowest_priority_process(list, prio) = list[i] /\ FirstLowest(list, prio, i)
<1> DEFINE i0 == CHOOSE i \in DOMAIN list : FirstLowest(list, prio, i)
<1>1. i0 \in DOMAIN list /\ FirstLowest(list, prio, i0)
  BY FirstLowestExists
<1>2. get_lowest_priority_process(list, prio) = list[i0]
  BY DEF get_lowest_priority_process, FirstLowest
<1> QED
  BY <1>1, <1>2
==============================================================================
