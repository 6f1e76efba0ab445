-------------------------- MODULE MemorySticksProofs --------------------------
(***************************************************************************)
(* Proofs about MemorySticks, for any Memory Sticks, CPUs, segments and    *)
(* sizes: the types (TypeTheorem) and, when one Memory Stick or CPU joins  *)
(* at a time, that the lists by which addresses are resolved agree         *)
(* (MapsTheorem) and that the Memory Sticks together are one memory        *)
(* (FlatTheorem).  They rest on what cursor and                            *)
(* get_memory_stick_by_address return, which comes first.                  *)
(***************************************************************************)
EXTENDS MemorySticks, ListProofs

-----------------------------------------------------------------------------
(* Addresses.                                                              *)

\* g[i] is the address at which the i-th Memory Stick of q begins, for i up to n.
Starts(g, q, n) == g = [i \in 1 .. n |-> IF i = 1 THEN 0 ELSE g[i - 1] + Size[q[i - 1]]]

\* There are such addresses: a first n without them would extend those before it.
LEMMA StartsExist ==
    ASSUME NEW q \in Seq(Stick), NEW n \in 1 .. Len(q) + 1
    PROVE  \E g : Starts(g, q, n)
<1> DEFINE Bad == {k \in 1 .. Len(q) + 1 : ~ \E g : Starts(g, q, k)}
<1>1. SUFFICES ASSUME Bad # {} PROVE FALSE
  OBVIOUS
<1>2. PICK k \in Bad : \A j \in Bad : k <= j
  <2>1. Bad \in SUBSET Nat
    OBVIOUS
  <2> HIDE DEF Bad
  <2> QED BY <1>1, <2>1, LeastNat
<1>3. k \in 1 .. Len(q) + 1 /\ k \in Nat /\ ~ \E g : Starts(g, q, k)
  BY <1>2
<1>4. k # 1
  <2>1. Starts([i \in 1 .. 1 |-> 0], q, 1)
    BY DEF Starts
  <2> QED BY <2>1, <1>3
<1>5. k - 1 \in 1 .. Len(q) + 1 /\ k - 1 \notin Bad
  BY <1>2, <1>3, <1>4
<1>6. PICK g : Starts(g, q, k - 1)
  BY <1>5
<1> DEFINE h == [i \in 1 .. k |-> IF i = k THEN g[k - 1] + Size[q[k - 1]] ELSE g[i]]
<1>7. ASSUME NEW i \in 1 .. k
      PROVE  h[i] = IF i = 1 THEN 0 ELSE h[i - 1] + Size[q[i - 1]]
  <2>1. CASE i = k
    BY <2>1, <1>3, <1>4
  <2>2. CASE i # k
    <3>1. i \in 1 .. k - 1 /\ h[i] = g[i] /\ (i # 1 => i - 1 \in 1 .. k - 1 /\ h[i - 1] = g[i - 1])
      BY <2>2, <1>3, <1>4
    <3>2. g[i] = IF i = 1 THEN 0 ELSE g[i - 1] + Size[q[i - 1]]
      BY <3>1, <1>6 DEF Starts
    <3> QED BY <3>1, <3>2
  <2> QED BY <2>1, <2>2
<1>8. Starts(h, q, k)
  <2>1. h = [i \in 1 .. k |-> h[i]]
    OBVIOUS
  <2> HIDE DEF h
  <2> QED BY <2>1, <1>7 DEF Starts
<1> QED BY <1>8, <1>3

\* cursor: the first Memory Stick begins at 0, each one where the one before it ends.
LEMMA CursorUnfolds ==
    ASSUME NEW q \in Seq(Stick)
    PROVE  /\ cursor(q)[1] = 0
           /\ \A i \in 1 .. Len(q) : cursor(q)[i + 1] = cursor(q)[i] + Size[q[i]]
<1>1. \E g : Starts(g, q, Len(q) + 1)
  BY StartsExist
<1>2. cursor(q) = CHOOSE g : Starts(g, q, Len(q) + 1)
  BY DEF cursor, Starts
<1>3. Starts(cursor(q), q, Len(q) + 1)
  BY <1>1, <1>2
<1> DEFINE g == cursor(q)
<1> HIDE DEF g
<1>4. g = [i \in 1 .. Len(q) + 1 |-> IF i = 1 THEN 0 ELSE g[i - 1] + Size[q[i - 1]]]
  BY <1>3 DEF Starts, g
<1>5. g[1] = 0
  BY <1>4
<1>6. ASSUME NEW i \in 1 .. Len(q)
      PROVE  g[i + 1] = g[i] + Size[q[i]]
  <2>1. i + 1 \in 1 .. Len(q) + 1 /\ i + 1 # 1 /\ (i + 1) - 1 = i
    OBVIOUS
  <2> QED BY <2>1, <1>4
<1> QED BY <1>5, <1>6 DEF g

\* The addresses are numbers and grow.
LEMMA CursorNat ==
    ASSUME NEW q \in Seq(Stick)
    PROVE  \A i \in 1 .. Len(q) + 1 : cursor(q)[i] \in Nat
<1> DEFINE Bad == {i \in 1 .. Len(q) + 1 : cursor(q)[i] \notin Nat}
<1>1. SUFFICES ASSUME Bad # {} PROVE FALSE
  OBVIOUS
<1>2. PICK k \in Bad : \A j \in Bad : k <= j
  <2>1. Bad \in SUBSET Nat
    OBVIOUS
  <2> HIDE DEF Bad
  <2> QED BY <1>1, <2>1, LeastNat
<1>3. k # 1
  BY <1>2, CursorUnfolds
<1>4. k - 1 \in 1 .. Len(q) /\ k - 1 \notin Bad
  BY <1>2, <1>3
<1>5. cursor(q)[k - 1] \in Nat /\ q[k - 1] \in Stick
  BY <1>4
<1>6. cursor(q)[(k - 1) + 1] = cursor(q)[k - 1] + Size[q[k - 1]]
  BY <1>4, CursorUnfolds
<1>7. (k - 1) + 1 = k
  BY <1>4
<1> QED BY <1>2, <1>5, <1>6, <1>7, SticksAssumption

\* Two lists that agree up to n begin their Memory Sticks at the same addresses up to n + 1.
LEMMA CursorAgrees ==
    ASSUME NEW q \in Seq(Stick), NEW r \in Seq(Stick), Prefix(q, r)
    PROVE  \A i \in 1 .. Len(q) + 1 : cursor(q)[i] = cursor(r)[i]
<1> DEFINE Bad == {i \in 1 .. Len(q) + 1 : cursor(q)[i] # cursor(r)[i]}
<1>1. SUFFICES ASSUME Bad # {} PROVE FALSE
  OBVIOUS
<1>2. PICK k \in Bad : \A j \in Bad : k <= j
  <2>1. Bad \in SUBSET Nat
    OBVIOUS
  <2> HIDE DEF Bad
  <2> QED BY <1>1, <2>1, LeastNat
<1>3. k # 1
  BY <1>2, CursorUnfolds
<1>4. k - 1 \in 1 .. Len(q) /\ k - 1 \notin Bad
  BY <1>2, <1>3
<1>5. cursor(q)[k - 1] = cursor(r)[k - 1] /\ q[k - 1] = r[k - 1] /\ k - 1 \in 1 .. Len(r)
  BY <1>4 DEF Prefix
<1>6. cursor(q)[(k - 1) + 1] = cursor(q)[k - 1] + Size[q[k - 1]]
  BY <1>4, CursorUnfolds
<1>8. cursor(r)[(k - 1) + 1] = cursor(r)[k - 1] + Size[r[k - 1]]
  BY <1>5, CursorUnfolds
<1>7. (k - 1) + 1 = k
  BY <1>4
<1> QED BY <1>2, <1>5, <1>6, <1>7, <1>8

\* The size of a list is that of the Memory Sticks in it.
LEMMA CapacityEmpty == Capacity(<<>>) = 0
<1>1. <<>> \in Seq(Stick) /\ Len(<<>>) + 1 = 1
  OBVIOUS
<1> QED BY <1>1, CursorUnfolds DEF Capacity

\* Another Memory Stick adds its size.
LEMMA CapacityAppend ==
    ASSUME NEW q \in Seq(Stick), NEW s \in Stick
    PROVE  Capacity(Append(q, s)) = Capacity(q) + Size[s]
<1> DEFINE r == Append(q, s)
<1>1. r \in Seq(Stick) /\ Len(r) = Len(q) + 1 /\ r[Len(q) + 1] = s /\ Prefix(q, r)
  BY DEF Prefix
<1> HIDE DEF r
<1>2. cursor(r)[(Len(q) + 1) + 1] = cursor(r)[Len(q) + 1] + Size[s]
  BY <1>1, CursorUnfolds
<1>3. cursor(r)[Len(q) + 1] = cursor(q)[Len(q) + 1]
  BY <1>1, CursorAgrees
<1> QED BY <1>1, <1>2, <1>3 DEF Capacity, r

\* A Memory Stick ends where a later one begins, or before.
LEMMA CursorGrows ==
    ASSUME NEW q \in Seq(Stick), NEW i \in 1 .. Len(q), NEW j \in i + 1 .. Len(q) + 1
    PROVE  cursor(q)[i] + Size[q[i]] <= cursor(q)[j]
<1> DEFINE end == cursor(q)[i] + Size[q[i]]
           Bad == {k \in i + 1 .. Len(q) + 1 : ~(end <= cursor(q)[k])}
<1>0. end = cursor(q)[i + 1] /\ end \in Nat
  BY CursorUnfolds, CursorNat, SticksAssumption
<1> HIDE DEF end
<1>1. SUFFICES ASSUME Bad # {} PROVE FALSE
  BY DEF end
<1>2. PICK k \in Bad : \A m \in Bad : k <= m
  <2>1. Bad \in SUBSET Nat
    OBVIOUS
  <2> HIDE DEF Bad
  <2> QED BY <1>1, <2>1, LeastNat
<1>3. k # i + 1
  BY <1>2, <1>0
<1>4. k - 1 \in i + 1 .. Len(q) /\ k - 1 \in 1 .. Len(q) /\ k - 1 \notin Bad
  BY <1>2, <1>3
<1>5. end <= cursor(q)[k - 1] /\ q[k - 1] \in Stick
  BY <1>4
<1>6. cursor(q)[(k - 1) + 1] = cursor(q)[k - 1] + Size[q[k - 1]]
  BY <1>4, CursorUnfolds
<1>7. (k - 1) + 1 = k /\ cursor(q)[k - 1] \in Nat /\ cursor(q)[k] \in Nat
  BY <1>4, CursorNat
<1>8. Size[q[k - 1]] \in Nat
  BY <1>5, SticksAssumption
<1>9. ~(end <= cursor(q)[k])
  BY <1>2
<1>10. PICK x \in Nat, y \in Nat, size \in Nat :
          x = cursor(q)[k - 1] /\ y = cursor(q)[k] /\ size = Size[q[k - 1]] /\ y = x + size
  BY <1>6, <1>7, <1>8
<1>11. end <= x /\ ~(end <= y)
  BY <1>5, <1>9, <1>10
<1>12. end \in Nat /\ y = x + size
  BY <1>0, <1>10
<1> QED BY ONLY <1>11, <1>12, x \in Nat, y \in Nat, size \in Nat

\* Address a is in the i-th Memory Stick of q.
Holds(q, i, a) == i \in 1 .. Len(q) /\ cursor(q)[i] <= a /\ a < cursor(q)[i] + Size[q[i]]

\* get_memory_stick_by_address finds the one Memory Stick that has the address, and
\* finds none only when the address is beyond the last.
LEMMA Located ==
    ASSUME NEW q \in Seq(Stick), NEW a \in Nat
    PROVE  \/ /\ get_memory_stick_by_address(q, a) = [stick |-> NoStick, offset |-> 0]
              /\ a >= Capacity(q)
           \/ \E i \in 1 .. Len(q) :
                 /\ Holds(q, i, a)
                 /\ get_memory_stick_by_address(q, a) = [stick |-> q[i], offset |-> a - cursor(q)[i]]
<1> DEFINE after == {i \in DOMAIN q : a < cursor(q)[i] + Size[q[i]]}
           first == CHOOSE i \in after : \A j \in after : i <= j
           ms == get_memory_stick_by_address(q, a)
<1>1. ms = IF after = {} THEN [stick |-> NoStick, offset |-> 0]
           ELSE [stick |-> q[first], offset |-> a - cursor(q)[first]]
  BY DEF get_memory_stick_by_address
<1>2. CASE after = {}
  <2>1. CASE Len(q) = 0
    <3>1. Capacity(q) = 0
      <4>1. Len(q) + 1 = 1
        BY <2>1
      <4> QED BY <4>1, CursorUnfolds DEF Capacity
    <3> QED BY <1>1, <1>2, <3>1
  <2>2. CASE Len(q) # 0
    <3>1. Len(q) \in 1 .. Len(q) /\ Len(q) \in DOMAIN q /\ Len(q) \in Nat
      BY <2>2
    <3>2. ~(a < cursor(q)[Len(q)] + Size[q[Len(q)]])
      BY <1>2, <3>1
    <3>3. Capacity(q) = cursor(q)[Len(q)] + Size[q[Len(q)]]
      BY <3>1, CursorUnfolds DEF Capacity
    <3>4. Capacity(q) \in Nat
      BY CursorNat DEF Capacity
    <3> QED BY <1>1, <1>2, <3>2, <3>3, <3>4
  <2> QED BY <2>1, <2>2
<1>3. CASE after # {}
  <2>1. after \in SUBSET Nat
    OBVIOUS
  <2>2. first \in after /\ \A j \in after : first <= j
    <3> HIDE DEF after
    <3>1. \E i \in after : \A j \in after : i <= j
      BY <1>3, <2>1, LeastNat
    <3> QED BY <3>1
  <2> HIDE DEF first
  <2>3. first \in 1 .. Len(q) /\ a < cursor(q)[first] + Size[q[first]]
    BY <2>2
  <2>4. cursor(q)[first] <= a
    <3>1. CASE first = 1
      BY <3>1, CursorUnfolds
    <3>2. CASE first # 1
      <4>1. first - 1 \in 1 .. Len(q) /\ first - 1 \notin after /\ (first - 1) + 1 = first
        BY <2>2, <2>3, <3>2
      <4>2. ~(a < cursor(q)[first - 1] + Size[q[first - 1]])
        BY <4>1
      <4>3. cursor(q)[first] = cursor(q)[first - 1] + Size[q[first - 1]]
        BY <4>1, CursorUnfolds
      <4>4. cursor(q)[first] \in Nat
        BY <2>3, CursorNat
      <4> QED BY <4>2, <4>3, <4>4
    <3> QED BY <3>1, <3>2
  <2>5. Holds(q, first, a)
    BY <2>3, <2>4 DEF Holds
  <2> QED BY <1>1, <1>3, <2>3, <2>5
<1> QED BY <1>2, <1>3

\* No address is in two Memory Sticks of a list.
LEMMA HoldsOnce ==
    ASSUME NEW q \in Seq(Stick), NEW a \in Nat, NEW i, NEW j, Holds(q, i, a), Holds(q, j, a)
    PROVE  i = j
<1>1. ASSUME NEW k, NEW l, Holds(q, k, a), Holds(q, l, a), k < l
      PROVE  FALSE
  <2>1. k \in 1 .. Len(q) /\ l \in k + 1 .. Len(q) + 1 /\ l \in 1 .. Len(q)
    BY <1>1 DEF Holds
  <2>2. cursor(q)[k] + Size[q[k]] <= cursor(q)[l]
    BY <2>1, CursorGrows
  <2>3. cursor(q)[k] \in Nat /\ cursor(q)[l] \in Nat /\ Size[q[k]] \in Nat
    BY <2>1, CursorNat, SticksAssumption
  <2> QED BY <1>1, <2>2, <2>3 DEF Holds
<1>2. i \in Nat /\ j \in Nat
  BY DEF Holds
<1>3. ~(i < j)
  BY <1>1
<1>4. ~(j < i)
  BY <1>1
<1> QED BY <1>2, <1>3, <1>4

\* The addresses of a list are those of its Memory Sticks.
LEMMA HoldsBelow ==
    ASSUME NEW q \in Seq(Stick), NEW a \in Nat, NEW i, Holds(q, i, a)
    PROVE  a < Capacity(q)
<1>1. i \in 1 .. Len(q) /\ Len(q) + 1 \in i + 1 .. Len(q) + 1
  BY DEF Holds
<1>2. cursor(q)[i] + Size[q[i]] <= Capacity(q)
  BY <1>1, CursorGrows DEF Capacity
<1>3. cursor(q)[i] \in Nat /\ Size[q[i]] \in Nat /\ Capacity(q) \in Nat
  BY <1>1, CursorNat, SticksAssumption DEF Capacity
<1> QED BY <1>2, <1>3 DEF Holds

\* So the address determines what get_memory_stick_by_address returns.
LEMMA LocatedAt ==
    ASSUME NEW q \in Seq(Stick), NEW a \in Nat, NEW i, Holds(q, i, a)
    PROVE  get_memory_stick_by_address(q, a) = [stick |-> q[i], offset |-> a - cursor(q)[i]]
<1>1. ~(a >= Capacity(q))
  <2>1. Capacity(q) \in Nat
    BY CursorNat DEF Capacity
  <2> QED BY <2>1, HoldsBelow
<1> QED BY <1>1, Located, HoldsOnce

\* A client whose list is a prefix resolves an address as the owner of the whole list does.
LEMMA HoldsInPrefix ==
    ASSUME NEW q \in Seq(Stick), NEW r \in Seq(Stick), Prefix(q, r), NEW a, NEW i, Holds(q, i, a)
    PROVE  Holds(r, i, a) /\ r[i] = q[i] /\ cursor(r)[i] = cursor(q)[i]
<1>1. i \in 1 .. Len(q) /\ i \in 1 .. Len(r) /\ i \in 1 .. Len(q) + 1 /\ r[i] = q[i]
  BY DEF Holds, Prefix
<1>2. cursor(r)[i] = cursor(q)[i]
  BY <1>1, CursorAgrees
<1> QED BY <1>1, <1>2 DEF Holds

-----------------------------------------------------------------------------
(* Types.                                                                  *)

Credentials == [op : {"PACKAGE", "CREDENTIALS_UPDATE"}, list : Seq(Stick)]
Update(s) == [op |-> "CREDENTIALS_UPDATE", list |-> <<s>>]
NetRecords ==
    [at : {"none", "request", "response", "posted", "lost"}, stick : Stick \cup {NoStick},
     offset : Nat, size : Nat, data : Seq(Byte), ok : BOOLEAN]

\* The types of what the threads of Kernel Memory that join others keep, ...
JoinTypes ==
    /\ join \in [Stick -> {"off", "sized", "listed", "known", "sending", "garbled", "joined", "lost", "gone"}]
    /\ todo \in [Stick -> Seq(Cpu)]
    /\ total \in Nat
    /\ creds \in Seq(Stick) /\ list_cpu \in Seq(Cpu)
    /\ cpuAt \in [Cpu -> {"off", "listed", "starting", "connected", "failed"}]
    /\ chan \in [Cpu -> Seq(Credentials)]
    /\ toKs \in Seq({"MEMORY_UPDATE", "CORRUPTED_MEMORY"})

\* ... of the clients' lists, and of the accesses.
ListTypes == sticks \in [Client -> Seq(Stick)]
AccessTypes ==
    /\ alive \in [Stick -> BOOLEAN]
    /\ mem = [s \in Stick |-> mem[s]] /\ \A s \in Stick : mem[s] \in [0 .. Size[s] - 1 -> Byte]
    /\ acc \in [Client -> AccessRecords]
    /\ net \in [Client -> NetRecords]
    /\ accesses \in [Client -> Nat]

\* A CPU gets one list of credentials, before it is connected, and then updates of
\* one Memory Stick each.
Messages(c) ==
    /\ \A i \in DOMAIN chan[c] : chan[c][i].op = "CREDENTIALS_UPDATE" =>
          \E s \in Stick : chan[c][i] = Update(s)
    /\ cpuAt[c] \in {"off", "listed", "connected"} =>
          \A i \in DOMAIN chan[c] : chan[c][i].op = "CREDENTIALS_UPDATE"
    /\ \A i, j \in DOMAIN chan[c] : chan[c][i].op = "PACKAGE" /\ chan[c][j].op = "PACKAGE" => i = j

\* Only a connected CPU accesses memory.
Unconnected(c) == cpuAt[c] # "connected" => acc[c].at # "active"

\* A message belongs to an access under way, is for a part of one Memory Stick and
\* for what is left to do; a request is at a Memory Stick that runs and is listed.
AccessInv(c) ==
    /\ acc[c].kind = "write" => Len(acc[c].data) = acc[c].size
    /\ acc[c].done <= acc[c].size
    /\ net[c].at = "none" => net[c] = NoMessage
    /\ net[c].at # "none" =>
          /\ acc[c].at = "active" /\ net[c].ok
          /\ net[c].stick \in Stick /\ net[c].size > 0
          /\ net[c].offset + net[c].size <= Size[net[c].stick]
          /\ acc[c].done + net[c].size <= acc[c].size
    /\ net[c].at = "request" =>
          /\ alive[net[c].stick] /\ net[c].stick \in Range(sticks[c])
          /\ acc[c].kind = "write" =>
                net[c].data = SubSeq(acc[c].data, acc[c].done + 1, acc[c].done + net[c].size)
    /\ net[c].at \in {"response", "posted"} /\ acc[c].kind = "write" => net[c].data = <<>>

Joins == JoinTypes /\ \A c \in Cpu : Messages(c)
Accesses == AccessTypes /\ \A c \in Client : AccessInv(c)
TypeInv == Joins /\ ListTypes /\ Accesses /\ \A c \in Cpu : Unconnected(c)

\* Nothing has joined and nothing is accessed at first.
LEMMA TypeInvInit == Init => TypeInv
<1> SUFFICES ASSUME Init PROVE TypeInv
  OBVIOUS
<1> USE SticksAssumption
<1>1. JoinTypes /\ ListTypes
  BY DEF Init, JoinTypes, ListTypes
<1>2. \A c \in Cpu : Messages(c) /\ Unconnected(c)
  BY DEF Init, Messages, Unconnected, NoAccess, Client
<1>3. AccessTypes
  <2>1. NoAccess \in AccessRecords
    BY DEF NoAccess, AccessRecords
  <2>2. NoMessage \in NetRecords
    BY DEF NoMessage, NetRecords
  <2>3. \A s \in Stick : mem[s] \in [0 .. Size[s] - 1 -> Byte]
    BY DEF Init
  <2> QED BY <2>1, <2>2, <2>3 DEF Init, AccessTypes
<1>4. \A c \in Client : AccessInv(c)
  BY DEF Init, AccessInv, NoAccess, NoMessage
<1> QED BY <1>1, <1>2, <1>3, <1>4 DEF TypeInv, Joins, Accesses

\* The threads that join Memory Sticks keep the types.
LEMMA JoinsStick ==
    ASSUME TypeInv, NEW s \in Stick,
           memory_stick_protocol(s) \/ KmLosesStick(s) \/ ReportCorruption(s)
    PROVE  Joins'
<1> USE SticksAssumption DEF TypeInv, Joins
<1>1. CASE ReceiveSize(s)
  <2>1. JoinTypes'
    BY <1>1 DEF ReceiveSize, JoinTypes
  <2> QED BY <1>1, <2>1 DEF ReceiveSize, Messages
<1>2. CASE ListStick(s)
  <2>1. JoinTypes'
    BY <1>2 DEF ListStick, JoinTypes
  <2> QED BY <1>2, <2>1 DEF ListStick, Messages
<1>3. CASE ListCredentials(s)
  <2>1. JoinTypes'
    BY <1>3 DEF ListCredentials, JoinTypes
  <2> QED BY <1>3, <2>1 DEF ListCredentials, Messages
<1>4. CASE update_cpu_list(s)
  <2>1. JoinTypes'
    BY <1>4 DEF update_cpu_list, JoinTypes
  <2> QED BY <1>4, <2>1 DEF update_cpu_list, Messages
<1>5. CASE send_credentials(s)
  <2>1. CASE todo[s] = <<>>
    <3>1. JoinTypes'
      BY <1>5, <2>1 DEF send_credentials, JoinTypes
    <3> QED BY <1>5, <2>1, <3>1 DEF send_credentials, Messages
  <2>2. CASE todo[s] # <<>>
    <3>1. todo[s] \in Seq(Cpu) /\ Head(todo[s]) \in Cpu
      BY <2>2 DEF JoinTypes
    <3>2. PICK c \in Cpu : c = Head(todo[s])
      BY <3>1
    <3>3. /\ chan' = [chan EXCEPT ![c] = Append(@, Update(s))]
          /\ todo' = [todo EXCEPT ![s] = Tail(@)]
          /\ UNCHANGED <<join, total, creds, list_cpu, cpuAt, toKs>>
      BY <1>5, <2>2, <3>2 DEF send_credentials, Update
    <3>4. Update(s) \in Credentials /\ chan[c] \in Seq(Credentials)
      <4>1. <<s>> \in Seq(Stick)
        OBVIOUS
      <4>2. Update(s) \in Credentials
        BY <4>1 DEF Update, Credentials
      <4> QED BY <4>2 DEF JoinTypes
    <3>5. /\ chan' \in [Cpu -> Seq(Credentials)] /\ chan'[c] = Append(chan[c], Update(s))
          /\ \A d \in Cpu : d # c => chan'[d] = chan[d]
      BY <3>3, <3>4 DEF JoinTypes
    <3>6. todo' \in [Stick -> Seq(Cpu)]
      <4>1. Tail(todo[s]) \in Seq(Cpu)
        BY <2>2, <3>1
      <4> QED BY <4>1, <3>3 DEF JoinTypes
    <3>7. JoinTypes'
      BY <3>3, <3>5, <3>6 DEF JoinTypes
    <3>8. Messages(c)'
      <4>1. Update(s).op = "CREDENTIALS_UPDATE"
        BY DEF Update
      <4> DEFINE old == chan[c]
                 new == Append(old, Update(s))
      <4>2. \A i \in DOMAIN new : (i \in DOMAIN old /\ new[i] = old[i]) \/ new[i] = Update(s)
        BY <3>4
      <4>3. Messages(c)
        OBVIOUS
      <4> HIDE DEF new
      <4>4. cpuAt' = cpuAt /\ chan'[c] = new
        BY <3>3, <3>5 DEF new
      <4> QED BY <4>1, <4>2, <4>3, <4>4 DEF Messages
    <3>9. ASSUME NEW d \in Cpu, d # c PROVE Messages(d)'
      BY <3>3, <3>5, <3>9 DEF Messages
    <3> QED BY <3>7, <3>8, <3>9
  <2> QED BY <2>1, <2>2
<1>6. CASE KmLosesStick(s)
  <2>1. JoinTypes'
    BY <1>6 DEF KmLosesStick, JoinTypes
  <2> QED BY <1>6, <2>1 DEF KmLosesStick, Messages
<1>7. CASE ReportCorruption(s)
  <2>1. creds' \in Seq(Stick)
    BY <1>7, RemoveFirstOthers DEF ReportCorruption, JoinTypes
  <2>2. total' \in Nat
    BY <1>7 DEF ReportCorruption, JoinTypes
  <2>3. JoinTypes'
    BY <1>7, <2>1, <2>2 DEF ReportCorruption, JoinTypes
  <2> QED BY <1>7, <2>3 DEF ReportCorruption, Messages
<1> QED BY <1>1, <1>2, <1>3, <1>4, <1>5, <1>6, <1>7 DEF memory_stick_protocol, join_goes_on

\* So do those that join CPUs.
LEMMA JoinsCpu ==
    ASSUME TypeInv, NEW c \in Cpu,
           \/ ListCpu(c) \/ send_credentials_list(c) \/ connect_kernel_memory(c) \/ ReceiveUpdate(c)
    PROVE  Joins'
<1> USE SticksAssumption DEF TypeInv, Joins
<1>0. Messages(c) /\ \A d \in Cpu : Messages(d)
  OBVIOUS
<1>1. CASE ListCpu(c)
  <2>1. JoinTypes'
    BY <1>1 DEF ListCpu, JoinTypes
  <2>2. Messages(c)'
    BY <1>0, <1>1 DEF ListCpu, Messages, JoinTypes
  <2>3. \A d \in Cpu : d # c => Messages(d)'
    BY <1>0, <1>1 DEF ListCpu, Messages, JoinTypes
  <2> QED BY <2>1, <2>2, <2>3
<1>2. CASE send_credentials_list(c)
  <2> DEFINE m == [op |-> "PACKAGE", list |-> creds]
             old == chan[c]
             new == Append(old, m)
  <2>1. m \in Credentials /\ m.op = "PACKAGE" /\ old \in Seq(Credentials)
    BY DEF Credentials, JoinTypes
  <2>2. new \in Seq(Credentials)
        /\ \A i \in DOMAIN new : (i \in DOMAIN old /\ new[i] = old[i]) \/ (i = Len(old) + 1 /\ new[i] = m)
    BY <2>1
  <2>3. chan' = [chan EXCEPT ![c] = new] /\ cpuAt' = [cpuAt EXCEPT ![c] = "starting"] /\ cpuAt[c] = "listed"
        /\ UNCHANGED <<join, todo, total, creds, list_cpu, toKs>>
    BY <1>2 DEF send_credentials_list
  <2> HIDE DEF m, new
  <2>4. /\ chan' \in [Cpu -> Seq(Credentials)] /\ chan'[c] = new /\ cpuAt'[c] = "starting"
        /\ \A d \in Cpu : d # c => chan'[d] = chan[d] /\ cpuAt'[d] = cpuAt[d]
    BY <2>2, <2>3 DEF JoinTypes
  <2>5. JoinTypes'
    BY <2>3, <2>4 DEF JoinTypes
  <2>6. Messages(c)'
    <3>1. \A i \in DOMAIN old : old[i].op = "CREDENTIALS_UPDATE"
      BY <1>0, <2>3 DEF Messages
    <3>2. \A i \in DOMAIN new : new[i].op = "CREDENTIALS_UPDATE" => \E s \in Stick : new[i] = Update(s)
      BY <1>0, <2>1, <2>2 DEF Messages
    <3>3. \A i, j \in DOMAIN new : new[i].op = "PACKAGE" /\ new[j].op = "PACKAGE" => i = j
      BY <3>1, <2>2
    <3> QED BY <3>2, <3>3, <2>4 DEF Messages
  <2>7. ASSUME NEW d \in Cpu, d # c PROVE Messages(d)'
    <3>1. chan'[d] = chan[d] /\ cpuAt'[d] = cpuAt[d] /\ Messages(d)
      BY <1>0, <2>4, <2>7
    <3> QED BY <3>1 DEF Messages
  <2> QED BY <2>5, <2>6, <2>7
<1>3. ASSUME chan[c] # <<>>, chan' = [chan EXCEPT ![c] = Tail(@)],
             cpuAt' = [cpuAt EXCEPT ![c] = cpuAt'[c]],
             \/ cpuAt'[c] = "failed"
             \/ cpuAt'[c] = "connected" /\ (Head(chan[c]).op = "PACKAGE" \/ cpuAt[c] = "connected"),
             UNCHANGED <<join, todo, total, creds, list_cpu, toKs>>
      PROVE  Joins'
  <2> DEFINE old == chan[c]
             new == Tail(old)
  <2>1. /\ old \in Seq(Credentials) /\ 1 \in DOMAIN old /\ Head(old) = old[1]
        /\ new \in Seq(Credentials) /\ \A i \in DOMAIN new : i + 1 \in DOMAIN old /\ new[i] = old[i + 1]
        /\ \A i \in DOMAIN new : i \in Nat /\ i > 0
    BY <1>3 DEF JoinTypes
  <2> HIDE DEF new
  <2>2. /\ chan' \in [Cpu -> Seq(Credentials)] /\ chan'[c] = new
        /\ \A d \in Cpu : d # c => chan'[d] = chan[d] /\ cpuAt'[d] = cpuAt[d]
    BY <1>3, <2>1 DEF JoinTypes, new
  <2>3. cpuAt' \in [Cpu -> {"off", "listed", "starting", "connected", "failed"}]
    BY <1>3 DEF JoinTypes
  <2>4. JoinTypes'
    BY <1>3, <2>2, <2>3 DEF JoinTypes
  <2>5. \A i \in DOMAIN old : old[i].op \in {"PACKAGE", "CREDENTIALS_UPDATE"}
    <3>1. \A i \in DOMAIN old : old[i] \in Credentials
      BY <2>1
    <3> QED BY <3>1 DEF Credentials
  <2>6. \A i \in DOMAIN new : cpuAt'[c] = "connected" => new[i].op = "CREDENTIALS_UPDATE"
    <3> SUFFICES ASSUME NEW i \in DOMAIN new, cpuAt'[c] = "connected"
                 PROVE  new[i].op = "CREDENTIALS_UPDATE"
      OBVIOUS
    <3>1. i + 1 \in DOMAIN old /\ new[i] = old[i + 1] /\ i + 1 # 1
      BY <2>1
    <3>2. CASE old[1].op = "PACKAGE"
      BY <1>0, <2>1, <2>5, <3>1, <3>2 DEF Messages
    <3>3. CASE cpuAt[c] = "connected"
      BY <1>0, <3>1, <3>3 DEF Messages
    <3> QED BY <1>3, <2>1, <3>2, <3>3
  <2>7. \A i \in DOMAIN new : new[i].op = "CREDENTIALS_UPDATE" => \E s \in Stick : new[i] = Update(s)
    BY <1>0, <2>1 DEF Messages
  <2>8. \A i, j \in DOMAIN new : new[i].op = "PACKAGE" /\ new[j].op = "PACKAGE" => i = j
    <3> SUFFICES ASSUME NEW i \in DOMAIN new, NEW j \in DOMAIN new,
                        new[i].op = "PACKAGE", new[j].op = "PACKAGE"
                 PROVE  i = j
      OBVIOUS
    <3>1. i + 1 = j + 1
      BY <1>0, <2>1 DEF Messages
    <3>2. i \in Nat /\ j \in Nat
      BY <2>1
    <3> QED BY <3>1, <3>2
  <2>9. Messages(c)'
    BY <1>3, <2>2, <2>6, <2>7, <2>8 DEF Messages
  <2>10. ASSUME NEW d \in Cpu, d # c PROVE Messages(d)'
    <3>1. chan'[d] = chan[d] /\ cpuAt'[d] = cpuAt[d] /\ Messages(d)
      BY <1>0, <2>2, <2>10
    <3> QED BY <3>1 DEF Messages
  <2> QED BY <2>4, <2>9, <2>10
<1>4. CASE connect_kernel_memory(c)
  <2>1. cpuAt' = [cpuAt EXCEPT ![c] = cpuAt'[c]] /\ chan[c] # <<>> /\ chan' = [chan EXCEPT ![c] = Tail(@)]
    BY <1>4 DEF connect_kernel_memory, JoinTypes
  <2>2. \/ cpuAt'[c] = "failed"
        \/ cpuAt'[c] = "connected" /\ Head(chan[c]).op = "PACKAGE"
    BY <1>4 DEF connect_kernel_memory, JoinTypes
  <2> QED BY <1>3, <1>4, <2>1, <2>2 DEF connect_kernel_memory
<1>5. CASE ReceiveUpdate(c)
  <2>1. cpuAt' = [cpuAt EXCEPT ![c] = cpuAt'[c]] /\ cpuAt' = cpuAt /\ cpuAt[c] = "connected"
    BY <1>5 DEF ReceiveUpdate, JoinTypes
  <2> QED BY <1>3, <1>5, <2>1 DEF ReceiveUpdate
<1> QED BY <1>1, <1>2, <1>4, <1>5

\* A step that leaves accesses alone keeps what is known of them, as long as a
\* client keeps the Memory Stick it has a request at.
LEMMA AccessFrame ==
    ASSUME TypeInv, UNCHANGED <<alive, mem, acc, net, accesses>>,
           \A c \in Client : net[c].at = "request" => net[c].stick \in Range(sticks'[c])
    PROVE  Accesses'
<1>1. AccessTypes'
  BY DEF TypeInv, Accesses, AccessTypes
<1>2. ASSUME NEW c \in Client PROVE AccessInv(c)'
  <2>1. AccessInv(c)
    BY DEF TypeInv, Accesses
  <2> QED BY <2>1 DEF AccessInv
<1> QED BY <1>1, <1>2 DEF Accesses

\* ... and so does one that changes neither the lists nor who is connected.
LEMMA JoinFrame ==
    ASSUME TypeInv, Joins', UNCHANGED <<sticks, alive, mem, acc, net, accesses>>,
           \A c \in Cpu : cpuAt[c] = "connected" => cpuAt'[c] = "connected"
    PROVE  TypeInv'
<1>1. Accesses'
  <2>1. \A c \in Client : net[c].at = "request" => net[c].stick \in Range(sticks'[c])
    BY DEF TypeInv, Accesses, AccessInv
  <2> QED BY <2>1, AccessFrame
<1>2. ListTypes' /\ \A c \in Cpu : Unconnected(c)'
  BY DEF TypeInv, ListTypes, Unconnected
<1> QED BY <1>1, <1>2 DEF TypeInv

\* One list changes and keeps the Memory Sticks that run.
LEMMA ListChanges ==
    ASSUME TypeInv, Joins', UNCHANGED <<alive, mem, acc, net, accesses>>,
           \A c \in Cpu : cpuAt[c] = "connected" => cpuAt'[c] = "connected",
           NEW c \in Client, NEW q \in Seq(Stick), sticks' = [sticks EXCEPT ![c] = q],
           \A s \in Range(sticks[c]) : alive[s] => s \in Range(q)
    PROVE  TypeInv'
<1>1. ListTypes' /\ sticks'[c] = q /\ \A d \in Client : d # c => sticks'[d] = sticks[d]
  BY DEF TypeInv, ListTypes
<1>2. \A d \in Client : net[d].at = "request" => net[d].stick \in Range(sticks'[d])
  <2> SUFFICES ASSUME NEW d \in Client, net[d].at = "request"
               PROVE  net[d].stick \in Range(sticks'[d])
    OBVIOUS
  <2>1. alive[net[d].stick] /\ net[d].stick \in Range(sticks[d])
    BY DEF TypeInv, Accesses, AccessInv
  <2> QED BY <1>1, <2>1
<1>3. Accesses'
  BY <1>2, AccessFrame
<1>4. \A d \in Cpu : Unconnected(d)'
  BY DEF TypeInv, Unconnected
<1> QED BY <1>1, <1>3, <1>4 DEF TypeInv

\* What is in a list stays there when another element is appended.
LEMMA AppendKeeps ==
    ASSUME NEW q \in Seq(Stick), NEW s \in Stick
    PROVE  Append(q, s) \in Seq(Stick) /\ \A x \in Range(q) : x \in Range(Append(q, s))
<1>1. \A i \in DOMAIN q : i \in DOMAIN Append(q, s) /\ Append(q, s)[i] = q[i]
  OBVIOUS
<1> QED BY <1>1 DEF Range

\* The threads of the Memory Sticks keep the types of everything, ...
LEMMA TypesStick ==
    ASSUME TypeInv, NEW s \in Stick,
           memory_stick_protocol(s) \/ KmLosesStick(s) \/ ReportCorruption(s)
    PROVE  TypeInv'
<1>0. Joins' /\ KM \in Client /\ sticks[KM] \in Seq(Stick)
  BY JoinsStick DEF Client, TypeInv, ListTypes
<1>1. CASE ReceiveSize(s)
  BY <1>0, <1>1, JoinFrame DEF ReceiveSize
<1>2. CASE ListStick(s)
  <2>1. sticks' = [sticks EXCEPT ![KM] = Append(sticks[KM], s)]
    BY <1>2 DEF ListStick
  <2>2. /\ Append(sticks[KM], s) \in Seq(Stick)
        /\ \A x \in Range(sticks[KM]) : alive[x] => x \in Range(Append(sticks[KM], s))
    BY <1>0, AppendKeeps
  <2>3. UNCHANGED <<alive, mem, acc, net, accesses, cpuAt>>
    BY <1>2 DEF ListStick
  <2> QED BY <1>0, <2>1, <2>2, <2>3, ListChanges
<1>3. CASE ListCredentials(s)
  BY <1>0, <1>3, JoinFrame DEF ListCredentials
<1>4. CASE update_cpu_list(s)
  BY <1>0, <1>4, JoinFrame DEF update_cpu_list
<1>5. CASE send_credentials(s)
  BY <1>0, <1>5, JoinFrame DEF send_credentials
<1>6. CASE KmLosesStick(s)
  <2>1. sticks' = [sticks EXCEPT ![KM] = RemoveFirst(sticks[KM], s)] /\ ~alive[s]
    BY <1>6 DEF KmLosesStick
  <2>2. /\ RemoveFirst(sticks[KM], s) \in Seq(Stick)
        /\ \A x \in Range(sticks[KM]) : alive[x] => x \in Range(RemoveFirst(sticks[KM], s))
    BY <1>0, <2>1, RemoveFirstOthers
  <2>3. UNCHANGED <<alive, mem, acc, net, accesses, cpuAt>>
    BY <1>6 DEF KmLosesStick
  <2> QED BY <1>0, <2>1, <2>2, <2>3, ListChanges
<1>7. CASE ReportCorruption(s)
  BY <1>0, <1>7, JoinFrame DEF ReportCorruption
<1> QED BY <1>1, <1>2, <1>3, <1>4, <1>5, <1>6, <1>7 DEF memory_stick_protocol, join_goes_on

\* ... and those of the CPUs.
LEMMA TypesCpu ==
    ASSUME TypeInv, NEW c \in Cpu,
           \/ ListCpu(c) \/ send_credentials_list(c) \/ connect_kernel_memory(c) \/ ReceiveUpdate(c)
    PROVE  TypeInv'
<1>0. /\ Joins' /\ c \in Client /\ sticks[c] \in Seq(Stick)
      /\ cpuAt \in [Cpu -> {"off", "listed", "starting", "connected", "failed"}]
      /\ chan[c] \in Seq(Credentials)
  BY JoinsCpu DEF Client, TypeInv, ListTypes, Joins, JoinTypes
<1>1. CASE ListCpu(c)
  BY <1>0, <1>1, JoinFrame DEF ListCpu
<1>2. CASE send_credentials_list(c)
  BY <1>0, <1>2, JoinFrame DEF send_credentials_list
<1>3. CASE connect_kernel_memory(c)
  <2>1. Head(chan[c]) \in Credentials
    BY <1>0, <1>3 DEF connect_kernel_memory
  <2>2. PICK q \in Seq(Stick) : sticks' = [sticks EXCEPT ![c] = q]
    <3>1. Head(chan[c]).list \in Seq(Stick)
      BY <2>1 DEF Credentials
    <3> QED BY <1>0, <1>3, <3>1 DEF connect_kernel_memory
  <2>3. cpuAt[c] # "connected" /\ UNCHANGED <<alive, mem, acc, net, accesses>>
        /\ \A d \in Cpu : d # c => cpuAt'[d] = cpuAt[d]
    BY <1>0, <1>3 DEF connect_kernel_memory
  <2>4. net[c].at = "none"
    BY <1>0, <2>3 DEF TypeInv, Unconnected, Accesses, AccessInv
  <2>5. ListTypes' /\ \A d \in Client : d # c => sticks'[d] = sticks[d]
    BY <1>0, <2>2 DEF TypeInv, ListTypes
  <2>6. Accesses'
    <3>1. \A d \in Client : net[d].at = "request" => net[d].stick \in Range(sticks'[d])
      BY <2>4, <2>5 DEF TypeInv, Accesses, AccessInv
    <3> QED BY <2>3, <3>1, AccessFrame
  <2>7. \A d \in Cpu : Unconnected(d)'
    BY <2>3 DEF TypeInv, Unconnected
  <2> QED BY <1>0, <2>5, <2>6, <2>7 DEF TypeInv
<1>4. CASE ReceiveUpdate(c)
  <2>1. 1 \in DOMAIN chan[c] /\ Head(chan[c]) = chan[c][1] /\ cpuAt[c] = "connected"
    BY <1>0, <1>4 DEF ReceiveUpdate
  <2>2. Messages(c)
    BY DEF TypeInv, Joins
  <2>3. PICK s \in Stick : Head(chan[c]) = Update(s)
    BY <2>1, <2>2 DEF Messages
  <2>4. Head(Head(chan[c]).list) = s
    BY <2>3 DEF Update
  <2>5. /\ sticks' = [sticks EXCEPT ![c] = IF alive[s] THEN Append(@, s) ELSE @]
        /\ UNCHANGED <<alive, mem, acc, net, accesses, cpuAt>>
    BY <1>4, <2>4 DEF ReceiveUpdate
  <2> DEFINE q == IF alive[s] THEN Append(sticks[c], s) ELSE sticks[c]
  <2>6. q \in Seq(Stick) /\ \A x \in Range(sticks[c]) : alive[x] => x \in Range(q)
    BY <1>0, AppendKeeps
  <2>7. sticks' = [sticks EXCEPT ![c] = q]
    BY <2>5
  <2> HIDE DEF q
  <2> QED BY <1>0, <2>5, <2>6, <2>7, ListChanges
<1> QED BY <1>1, <1>2, <1>3, <1>4

\* op = -1 at a CPU: its list loses a Memory Stick that has gone.
LEMMA TypesCpuLoses ==
    ASSUME TypeInv, NEW c \in Cpu, NEW s \in Stick, CpuLosesStick(c, s)
    PROVE  TypeInv'
<1>1. /\ sticks' = [sticks EXCEPT ![c] = RemoveFirst(sticks[c], s)] /\ ~alive[s]
      /\ UNCHANGED <<joining, alive, mem, acc, net, accesses>>
  BY DEF CpuLosesStick
<1>2. c \in Client /\ sticks[c] \in Seq(Stick)
  BY DEF Client, TypeInv, ListTypes
<1>3. /\ RemoveFirst(sticks[c], s) \in Seq(Stick)
      /\ \A x \in Range(sticks[c]) : alive[x] => x \in Range(RemoveFirst(sticks[c], s))
  BY <1>1, <1>2, RemoveFirstOthers
<1>4. Joins' /\ cpuAt' = cpuAt
  BY <1>1 DEF TypeInv, Joins, JoinTypes, Messages, joining
<1> QED BY <1>1, <1>2, <1>3, <1>4, ListChanges

\* A Memory Stick stops: the requests it has are lost.
LEMMA TypesStops ==
    ASSUME TypeInv, NEW s \in Stick, StickStops(s)
    PROVE  TypeInv'
<1>1. /\ alive' = [alive EXCEPT ![s] = FALSE]
      /\ net' = [c \in Client |-> IF net[c].at = "request" /\ net[c].stick = s
                                  THEN [net[c] EXCEPT !.at = "lost"] ELSE net[c]]
      /\ UNCHANGED <<joining, sticks, mem, acc, accesses>>
  BY DEF StickStops
<1>2. Joins' /\ ListTypes' /\ \A c \in Cpu : Unconnected(c)'
  BY <1>1 DEF TypeInv, Joins, JoinTypes, Messages, ListTypes, Unconnected, joining
<1>3. alive' \in [Stick -> BOOLEAN] /\ \A t \in Stick : t # s => alive'[t] = alive[t]
  BY <1>1 DEF TypeInv, Accesses, AccessTypes
<1>4. ASSUME NEW c \in Client
      PROVE  net'[c] \in NetRecords /\ AccessInv(c)'
  <2>1. AccessInv(c) /\ net[c] \in NetRecords /\ (net'[c].at # "request" \/ net'[c] = net[c])
    BY <1>1 DEF TypeInv, Accesses, AccessTypes, NetRecords
  <2>2. CASE net[c].at = "request" /\ net[c].stick = s
    <3>1. net'[c] = [net[c] EXCEPT !.at = "lost"]
      BY <1>1, <2>2
    <3>2. /\ net'[c] \in NetRecords /\ net'[c].at = "lost" /\ net'[c].stick = net[c].stick
          /\ net'[c].offset = net[c].offset /\ net'[c].size = net[c].size /\ net'[c].ok = net[c].ok
      <4>1. net[c] \in NetRecords
        BY DEF TypeInv, Accesses, AccessTypes
      <4> QED BY <3>1, <4>1 DEF NetRecords
    <3>3. AccessInv(c) /\ acc'[c] = acc[c]
      BY <1>1 DEF TypeInv, Accesses
    <3> QED BY <2>2, <3>2, <3>3 DEF AccessInv
  <2>3. CASE ~(net[c].at = "request" /\ net[c].stick = s)
    <3>1. net'[c] = net[c] /\ net[c] \in NetRecords /\ acc'[c] = acc[c] /\ sticks'[c] = sticks[c]
      BY <1>1, <2>3 DEF TypeInv, Accesses, AccessTypes
    <3>2. AccessInv(c)
      BY DEF TypeInv, Accesses
    <3>3. net[c].at = "request" => alive'[net[c].stick]
      BY <1>3, <2>3, <3>2 DEF AccessInv
    <3> QED BY <3>1, <3>2, <3>3 DEF AccessInv
  <2> QED BY <2>2, <2>3
<1>5. AccessTypes'
  <2>1. net' \in [Client -> NetRecords]
    BY <1>1, <1>4
  <2> QED BY <1>1, <1>3, <2>1 DEF TypeInv, Accesses, AccessTypes
<1> QED BY <1>2, <1>4, <1>5 DEF TypeInv, Accesses

\* A step of the access of one client.
LEMMA AccessMovesOn ==
    ASSUME TypeInv, Joins', UNCHANGED <<cpuAt, sticks, alive>>, NEW c \in Client,
           NEW a \in AccessRecords, NEW m \in NetRecords,
           acc' = [acc EXCEPT ![c] = a], net' = [net EXCEPT ![c] = m],
           mem' = [s \in Stick |-> mem'[s]], \A s \in Stick : mem'[s] \in [0 .. Size[s] - 1 -> Byte],
           accesses' \in [Client -> Nat],
           AccessInv(c)', c \in Cpu => Unconnected(c)'
    PROVE  TypeInv'
<1>1. ListTypes'
  BY DEF TypeInv, ListTypes
<1>2. AccessTypes'
  BY DEF TypeInv, Accesses, AccessTypes
<1>3. ASSUME NEW d \in Client, d # c PROVE AccessInv(d)'
  <2>1. acc'[d] = acc[d] /\ net'[d] = net[d] /\ sticks'[d] = sticks[d] /\ AccessInv(d)
    BY <1>3 DEF TypeInv, Accesses, AccessTypes
  <2> QED BY <2>1 DEF AccessInv
<1>4. ASSUME NEW d \in Cpu, d # c PROVE Unconnected(d)'
  <2>1. d \in Client /\ acc'[d] = acc[d] /\ cpuAt'[d] = cpuAt[d] /\ Unconnected(d)
    BY <1>4 DEF TypeInv, Accesses, AccessTypes, Client
  <2> QED BY <2>1 DEF Unconnected
<1> QED BY <1>1, <1>2, <1>3, <1>4 DEF TypeInv, Accesses

\* Nobody joins.
LEMMA JoinsFrame ==
    ASSUME TypeInv, UNCHANGED joining
    PROVE  Joins' /\ UNCHANGED cpuAt
BY DEF TypeInv, Joins, JoinTypes, Messages, joining

LEMMA AccessMoves ==
    ASSUME TypeInv, UNCHANGED <<joining, sticks, alive>>, NEW c \in Client,
           NEW a \in AccessRecords, NEW m \in NetRecords,
           acc' = [acc EXCEPT ![c] = a], net' = [net EXCEPT ![c] = m],
           mem' = [s \in Stick |-> mem'[s]], \A s \in Stick : mem'[s] \in [0 .. Size[s] - 1 -> Byte],
           accesses' \in [Client -> Nat],
           AccessInv(c)', c \in Cpu => Unconnected(c)'
    PROVE  TypeInv'
<1>1. Joins' /\ UNCHANGED cpuAt
  BY JoinsFrame
<1> QED BY <1>1, AccessMovesOn

\* The records of an access and of its message, with what AccessInv says.
LEMMA AccessFacts ==
    ASSUME TypeInv, NEW c \in Client
    PROVE  /\ acc[c] \in AccessRecords /\ net[c] \in NetRecords /\ AccessInv(c)
           /\ sticks[c] \in Seq(Stick) /\ (c \in Cpu => Unconnected(c))
           /\ acc = [acc EXCEPT ![c] = acc[c]] /\ net = [net EXCEPT ![c] = net[c]]
           /\ mem = [s \in Stick |-> mem[s]] /\ \A s \in Stick : mem[s] \in [0 .. Size[s] - 1 -> Byte]
           /\ accesses \in [Client -> Nat] /\ alive \in [Stick -> BOOLEAN]
BY DEF TypeInv, Accesses, AccessTypes, ListTypes

\* memory_read or memory_write is called.
LEMMA TypesBegin ==
    ASSUME TypeInv, NEW c \in Client, NEW addr \in Nat, NEW size \in 1 .. MaxSize, Begin(c, addr, size),
           c \in Cpu => cpuAt[c] = "connected"
    PROVE  TypeInv'
<1> USE SticksAssumption
<1>1. PICK kind \in {"read", "write"}, data \in Seq(Byte) :
         /\ acc' = [acc EXCEPT ![c] = Request(kind, addr, size, data)]
         /\ kind = "write" => Len(data) = size
  <2>1. CASE acc' = [acc EXCEPT ![c] = Request("read", addr, size, <<>>)]
    <3>1. <<>> \in Seq(Byte) /\ "read" \in {"read", "write"} /\ "read" # "write"
      OBVIOUS
    <3> QED BY ONLY <2>1, <3>1, Zenon
  <2>2. ASSUME NEW data \in Payload[size], acc' = [acc EXCEPT ![c] = Request("write", addr, size, data)]
        PROVE  \E kind \in {"read", "write"}, d \in Seq(Byte) :
                  /\ acc' = [acc EXCEPT ![c] = Request(kind, addr, size, d)]
                  /\ kind = "write" => Len(d) = size
    <3>1. data \in [1 .. size -> Byte] /\ size \in Nat
      OBVIOUS
    <3>2. data \in Seq(Byte) /\ Len(data) = size
      BY <3>1
    <3> QED BY <2>2, <3>2
  <2> QED BY <2>1, <2>2 DEF Begin
<1>2. acc[c].at # "active" /\ UNCHANGED <<joining, sticks, alive, mem, net>>
      /\ accesses' = [accesses EXCEPT ![c] = @ + 1]
  BY DEF Begin
<1> DEFINE a == Request(kind, addr, size, data)
<1>3. a \in AccessRecords /\ a.kind = kind /\ a.data = data /\ a.size = size /\ a.done = 0
  BY DEF Request, AccessRecords
<1> HIDE DEF a
<1>4. net[c].at = "none" /\ net[c] = NoMessage
  BY <1>2, AccessFacts DEF AccessInv
<1>5. acc'[c] = a
  BY <1>1, AccessFacts DEF a, TypeInv, Accesses, AccessTypes
<1>6. AccessInv(c)'
  BY <1>1, <1>2, <1>3, <1>4, <1>5 DEF AccessInv, NoMessage
<1>7. accesses' \in [Client -> Nat]
  BY <1>2, AccessFacts
<1>8. c \in Cpu => Unconnected(c)'
  BY <1>2 DEF Unconnected, joining
<1>9. acc' = [acc EXCEPT ![c] = a] /\ net' = [net EXCEPT ![c] = net[c]] /\ net[c] \in NetRecords
      /\ mem' = mem
  BY <1>1, <1>2, AccessFacts DEF a
<1>10. mem' = [s \in Stick |-> mem'[s]] /\ \A s \in Stick : mem'[s] \in [0 .. Size[s] - 1 -> Byte]
  BY <1>9, AccessFacts
<1> QED BY <1>2, <1>3, <1>6, <1>7, <1>8, <1>9, <1>10, AccessMoves

\* The address that the MMU gives is a number, inside the segment with all that is accessed.
LEMMA Translated ==
    ASSUME NEW c \in Cpu, NEW logical \in Nat, NEW size \in 1 .. MaxSize,
           mmu_translate(SegmentTable[c], logical, size) # Fault
    PROVE  \E g \in SegmentTable[c] :
              /\ mmu_translate(SegmentTable[c], logical, size) \in g.base .. g.base + g.size - 1
              /\ mmu_translate(SegmentTable[c], logical, size) + size <= g.base + g.size
              /\ g.base \in Nat /\ g.size \in Nat
<1> USE SticksAssumption
<1> DEFINE offset == logical % segment_max_size
           found == {g \in SegmentTable[c] : g.id = logical \div segment_max_size}
           segment == CHOOSE g \in found : TRUE
<1>1. found # {} /\ ~((offset + size) % Word > segment.size)
      /\ mmu_translate(SegmentTable[c], logical, size) = segment.base + offset
  BY DEF mmu_translate
<1>2. segment \in found
  BY <1>1
<1>3. segment \in SegmentTable[c]
  BY <1>2
<1> HIDE DEF segment, found
<1>4. segment \in [id : Nat, base : Nat, size : Nat]
  BY <1>3
<1>5. segment.base \in Nat /\ segment.size \in Nat
  BY <1>4
<1>6. offset \in Nat /\ offset < segment_max_size
  OBVIOUS
<1> HIDE DEF offset
<1>7. offset + size \in Nat /\ offset + size < Word /\ Word \in Nat \ {0}
  BY <1>6
<1>8. (offset + size) % Word = offset + size
  <2>1. \A w \in Nat \ {0} : \A x \in Nat : x < w => x % w = x
    BY ONLY TRUE
  <2> QED BY ONLY <1>7, <2>1
<1>9. offset + size <= segment.size
  BY <1>1, <1>5, <1>7, <1>8
<1>10. segment.base + offset \in segment.base .. segment.base + segment.size - 1
       /\ (segment.base + offset) + size <= segment.base + segment.size
  <2>1. PICK base \in Nat, whole \in Nat : base = segment.base /\ whole = segment.size
    BY <1>5
  <2>2. offset + size <= whole /\ offset \in Nat /\ size \in Nat \ {0}
    BY <1>6, <1>9, <2>1
  <2>3. base + offset \in base .. base + whole - 1 /\ (base + offset) + size <= base + whole
    BY ONLY <2>2, base \in Nat, whole \in Nat
  <2> QED BY <2>1, <2>3
<1> QED BY <1>1, <1>3, <1>5, <1>10

\* A turn of the loop that sends a chunk: the chunk lies in the Memory Stick that has
\* the next address, and in what is left to do.
LEMMA ChunkSent ==
    ASSUME TypeInv, NEW c \in Client, NextChunk(c), acc[c].done # acc[c].size,
           get_memory_stick_by_address(sticks[c], acc[c].addr + acc[c].done).stick # NoStick
    PROVE  \E i \in 1 .. Len(sticks[c]), offset \in Nat, n \in Nat :
              /\ Holds(sticks[c], i, acc[c].addr + acc[c].done)
              /\ cursor(sticks[c])[i] + offset = acc[c].addr + acc[c].done
              /\ n > 0 /\ offset + n <= Size[sticks[c][i]] /\ acc[c].done + n <= acc[c].size
              /\ net' = [net EXCEPT ![c] =
                           [at |-> IF alive[sticks[c][i]] THEN "request" ELSE "lost",
                            stick |-> sticks[c][i], offset |-> offset, size |-> n,
                            data |-> ChunkData(acc[c], n), ok |-> TRUE]]
              /\ UNCHANGED acc
<1> USE SticksAssumption
<1> DEFINE q == sticks[c]
           a == acc[c]
           ms == get_memory_stick_by_address(q, a.addr + a.done)
           n == ChunkSize(a.size - a.done, Size[ms.stick] - ms.offset)
<1>1. /\ q \in Seq(Stick) /\ a.addr \in Nat /\ a.done \in Nat /\ a.size \in Nat /\ a.done <= a.size
  BY AccessFacts DEF AccessRecords, AccessInv
<1>2. a.addr + a.done \in Nat
  BY <1>1
<1>3. PICK i \in 1 .. Len(q) :
         Holds(q, i, a.addr + a.done) /\ ms = [stick |-> q[i], offset |-> (a.addr + a.done) - cursor(q)[i]]
  <2>1. PICK x \in Nat : x = a.addr + a.done
    BY <1>2
  <2>2. ms = get_memory_stick_by_address(q, x) /\ ms.stick # NoStick
    BY <2>1
  <2>3. ms # [stick |-> NoStick, offset |-> 0]
    BY <2>2
  <2> HIDE DEF ms
  <2> QED BY <1>1, <2>1, <2>2, <2>3, Located
<1>4. /\ net' = [net EXCEPT ![c] = [at |-> IF alive[ms.stick] THEN "request" ELSE "lost",
                                    stick |-> ms.stick, offset |-> ms.offset, size |-> n,
                                    data |-> ChunkData(a, n), ok |-> TRUE]]
      /\ UNCHANGED acc
  BY DEF NextChunk
<1>5. ms.stick = q[i] /\ ms.offset = (a.addr + a.done) - cursor(q)[i]
  BY <1>3
<1> HIDE DEF ms
<1>6. cursor(q)[i] \in Nat /\ Size[q[i]] \in Nat /\ Size[q[i]] > 0
  BY <1>1, CursorNat
<1>7. /\ ms.offset \in Nat /\ cursor(q)[i] + ms.offset = a.addr + a.done /\ ms.offset < Size[q[i]]
  BY <1>2, <1>3, <1>5, <1>6 DEF Holds
<1>8. n \in Nat /\ n > 0 /\ ms.offset + n <= Size[q[i]] /\ a.done + n <= a.size
  <2>0. /\ a.size - a.done \in Nat /\ a.size - a.done > 0
        /\ Size[q[i]] - ms.offset \in Nat /\ Size[q[i]] - ms.offset > 0
    <3>1. a.done < a.size
      BY <1>1
    <3>2. a.size - a.done \in Nat /\ a.size - a.done > 0
      BY <1>1, <3>1
    <3>3. Size[q[i]] - ms.offset \in Nat /\ Size[q[i]] - ms.offset > 0
      BY <1>6, <1>7
    <3> QED BY <3>2, <3>3
  <2>1. PICK left \in Nat, room \in Nat :
           left = a.size - a.done /\ left > 0 /\ room = Size[q[i]] - ms.offset /\ room > 0
    BY <2>0
  <2>2. n = ChunkSize(left, room)
    BY <1>5, <2>1
  <2> HIDE DEF n
  <2>3. n \in Nat /\ n > 0 /\ n <= left /\ n <= room
    BY <2>1, <2>2 DEF ChunkSize
  <2>4. ms.offset + n <= Size[q[i]]
    <3>1. PICK o \in Nat, whole \in Nat : o = ms.offset /\ whole = Size[q[i]] /\ room = whole - o
      BY <1>6, <1>7, <2>1
    <3>2. o + n <= whole
      BY ONLY <2>3, <3>1, o \in Nat, whole \in Nat, room \in Nat, left \in Nat
    <3> QED BY <3>1, <3>2
  <2>5. a.done + n <= a.size
    <3>1. PICK d \in Nat, whole \in Nat : d = a.done /\ whole = a.size /\ left = whole - d
      BY <1>1, <2>1
    <3>2. d + n <= whole
      BY ONLY <2>3, <3>1, d \in Nat, whole \in Nat, left \in Nat, room \in Nat
    <3> QED BY <3>1, <3>2
  <2> QED BY <2>3, <2>4, <2>5
<1> HIDE DEF n, q, a
<1>9. net' = [net EXCEPT ![c] = [at |-> IF alive[q[i]] THEN "request" ELSE "lost",
                                 stick |-> q[i], offset |-> ms.offset, size |-> n,
                                 data |-> ChunkData(a, n), ok |-> TRUE]]
  BY <1>4, <1>5
<1>10. Holds(q, i, a.addr + a.done) /\ acc' = acc
  BY <1>3, <1>4
<1> QED BY <1>7, <1>8, <1>9, <1>10 DEF q, a

\* The data of a chunk are bytes, as many as the chunk has.
LEMMA ChunkTyped ==
    ASSUME TypeInv, NEW c \in Client, NEW n \in Nat, acc[c].done + n <= acc[c].size
    PROVE  ChunkData(acc[c], n) \in Seq(Byte)
<1>1. /\ acc[c].data \in Seq(Byte) /\ acc[c].done \in Nat
      /\ acc[c].kind = "read" \/ Len(acc[c].data) = acc[c].size
  BY AccessFacts DEF AccessRecords, AccessInv
<1>2. CASE acc[c].kind = "read"
  BY <1>2 DEF ChunkData
<1>3. CASE acc[c].kind # "read"
  <2>1. SubSeq(acc[c].data, acc[c].done + 1, acc[c].done + n) \in Seq(Byte)
    BY <1>1, <1>3
  <2> QED BY <1>3, <2>1 DEF ChunkData
<1> QED BY <1>2, <1>3

\* memory_read and memory_write keep the types: a turn of the loop, ...
LEMMA TypesNextChunk ==
    ASSUME TypeInv, NEW c \in Client, NextChunk(c)
    PROVE  TypeInv'
<1> USE SticksAssumption
<1> DEFINE ms == get_memory_stick_by_address(sticks[c], acc[c].addr + acc[c].done)
<1>1. acc[c].at = "active" /\ net[c] = NoMessage /\ UNCHANGED <<joining, sticks, alive, mem, accesses>>
  BY DEF NextChunk
<1>2. /\ mem' = [s \in Stick |-> mem'[s]] /\ \A s \in Stick : mem'[s] \in [0 .. Size[s] - 1 -> Byte]
      /\ accesses' \in [Client -> Nat]
  BY <1>1, AccessFacts
<1>3. ASSUME NEW how \in {"done", "failed"}, Finish(c, how), UNCHANGED net
      PROVE  TypeInv'
  <2> DEFINE a == [acc[c] EXCEPT !.at = how]
  <2>1. acc' = [acc EXCEPT ![c] = a]
    BY <1>3 DEF Finish
  <2>2. /\ a \in AccessRecords /\ a.at = how /\ a.kind = acc[c].kind /\ a.data = acc[c].data
        /\ a.size = acc[c].size /\ a.done = acc[c].done
    <3>1. acc[c] \in AccessRecords
      BY AccessFacts
    <3> QED BY <3>1 DEF AccessRecords
  <2> HIDE DEF a
  <2>3. acc'[c] = a /\ net'[c] = NoMessage
    BY <1>1, <1>3, <2>1 DEF TypeInv, Accesses, AccessTypes
  <2>4. AccessInv(c)
    BY AccessFacts
  <2>5. AccessInv(c)'
    BY <2>2, <2>3, <2>4 DEF AccessInv, NoMessage
  <2>6. c \in Cpu => Unconnected(c)'
    BY <2>2, <2>3 DEF Unconnected
  <2>7. net' = [net EXCEPT ![c] = net[c]] /\ net[c] \in NetRecords
    BY <1>3, AccessFacts
  <2> QED BY <1>1, <1>2, <2>1, <2>2, <2>5, <2>6, <2>7, AccessMoves
<1>4. CASE acc[c].done = acc[c].size
  <2>1. Finish(c, "done") /\ UNCHANGED net
    BY <1>4 DEF NextChunk
  <2> QED BY <1>3, <2>1
<1>5. CASE acc[c].done # acc[c].size /\ ms.stick = NoStick
  <2>1. Finish(c, "failed") /\ UNCHANGED net
    BY <1>5 DEF NextChunk
  <2> QED BY <1>3, <2>1
<1>6. CASE acc[c].done # acc[c].size /\ ms.stick # NoStick
  <2>1. PICK i \in 1 .. Len(sticks[c]), offset \in Nat, n \in Nat :
           /\ n > 0 /\ offset + n <= Size[sticks[c][i]] /\ acc[c].done + n <= acc[c].size
           /\ net' = [net EXCEPT ![c] =
                        [at |-> IF alive[sticks[c][i]] THEN "request" ELSE "lost",
                         stick |-> sticks[c][i], offset |-> offset, size |-> n,
                         data |-> ChunkData(acc[c], n), ok |-> TRUE]]
           /\ UNCHANGED acc
    BY <1>6, ChunkSent
  <2> DEFINE m == [at |-> IF alive[sticks[c][i]] THEN "request" ELSE "lost",
                   stick |-> sticks[c][i], offset |-> offset, size |-> n,
                   data |-> ChunkData(acc[c], n), ok |-> TRUE]
  <2>2. sticks[c] \in Seq(Stick) /\ sticks[c][i] \in Stick /\ sticks[c][i] \in Range(sticks[c])
    <3>1. sticks[c] \in Seq(Stick)
      BY AccessFacts
    <3> QED BY <3>1 DEF Range
  <2>3. ChunkData(acc[c], n) \in Seq(Byte)
    BY <2>1, ChunkTyped
  <2>4. m \in NetRecords
    BY <2>2, <2>3 DEF NetRecords
  <2>5. /\ m.at = (IF alive[sticks[c][i]] THEN "request" ELSE "lost")
        /\ m.stick = sticks[c][i] /\ m.offset = offset /\ m.size = n
        /\ m.data = ChunkData(acc[c], n) /\ m.ok
    OBVIOUS
  <2> HIDE DEF m
  <2>6. net' = [net EXCEPT ![c] = m] /\ acc' = [acc EXCEPT ![c] = acc[c]]
    BY <2>1, AccessFacts DEF m
  <2>7. net'[c] = m /\ acc'[c] = acc[c] /\ acc[c] \in AccessRecords
    BY <2>1, <2>6, AccessFacts DEF TypeInv, Accesses, AccessTypes
  <2>8. AccessInv(c)
    BY AccessFacts
  <2>9. acc[c].kind = "write" => m.data = SubSeq(acc[c].data, acc[c].done + 1, acc[c].done + n)
    BY <2>5 DEF ChunkData
  <2>10. AccessInv(c)'
    BY <1>1, <2>1, <2>2, <2>5, <2>7, <2>8, <2>9 DEF AccessInv
  <2>11. c \in Cpu => Unconnected(c)'
    BY <1>1, <2>7, AccessFacts DEF Unconnected, joining
  <2> QED BY <1>1, <1>2, <2>4, <2>6, <2>7, <2>10, <2>11, AccessMoves
<1> QED BY <1>4, <1>5, <1>6

\* ... the Memory Stick's answers, ...
LEMMA InRangeSent ==
    ASSUME TypeInv, NEW c \in Client, net[c].at # "none"
    PROVE  InRange(net[c])
<1>1. /\ net[c].offset \in Nat /\ net[c].size \in Nat /\ Size[net[c].stick] \in Nat
      /\ net[c].offset + net[c].size <= Size[net[c].stick]
  BY AccessFacts, SticksAssumption DEF NetRecords, AccessInv
<1>2. Word \in Nat \ {0}
  BY SticksAssumption
<1> DEFINE x == net[c].offset + net[c].size
<1>3. x \in Nat
  BY <1>1
<1> HIDE DEF x
<1>4. x % Word <= x /\ x % Word \in Nat
  BY <1>2, <1>3
<1> QED BY <1>1, <1>3, <1>4 DEF InRange, x

\* A message moves on while its access waits.
LEMMA MessageMoves ==
    ASSUME TypeInv, NEW c \in Client, Joins', UNCHANGED <<cpuAt, sticks, alive, acc, accesses>>,
           net[c].at # "none", NEW m \in NetRecords, net' = [net EXCEPT ![c] = m],
           m.at \in {"response", "posted", "lost"}, m.ok,
           m.stick = net[c].stick, m.offset = net[c].offset, m.size = net[c].size,
           m.at \in {"response", "posted"} /\ acc[c].kind = "write" => m.data = <<>>,
           mem' = [s \in Stick |-> mem'[s]], \A s \in Stick : mem'[s] \in [0 .. Size[s] - 1 -> Byte]
    PROVE  TypeInv'
<1>1. AccessInv(c) /\ acc' = [acc EXCEPT ![c] = acc[c]] /\ acc[c] \in AccessRecords
      /\ accesses' \in [Client -> Nat]
  BY AccessFacts
<1>2. net'[c] = m /\ acc'[c] = acc[c]
  BY DEF TypeInv, Accesses, AccessTypes
<1>3. AccessInv(c)'
  BY <1>1, <1>2 DEF AccessInv
<1>4. c \in Cpu => Unconnected(c)'
  BY AccessFacts DEF Unconnected
<1> QED BY <1>1, <1>3, <1>4, AccessMovesOn

\* handle_read and handle_write answer with as many bytes as they were asked for.
LEMMA TypesHandled ==
    ASSUME TypeInv, NEW c \in Client, handle_read(c) \/ handle_write(c)
    PROVE  TypeInv'
<1> USE SticksAssumption
<1>0. net[c].at = "request" /\ UNCHANGED <<joining, sticks, alive, acc, accesses>>
  BY DEF handle_read, handle_write
<1>1. InRange(net[c]) /\ AccessInv(c) /\ net[c] \in NetRecords /\ acc[c] \in AccessRecords
  BY <1>0, InRangeSent, AccessFacts
<1>2. PICK s \in Stick, offset \in Nat, n \in Nat :
         /\ s = net[c].stick /\ offset = net[c].offset /\ n = net[c].size
         /\ offset + n <= Size[s]
  BY <1>0, <1>1 DEF AccessInv, NetRecords
<1>3. mem = [t \in Stick |-> mem[t]] /\ \A t \in Stick : mem[t] \in [0 .. Size[t] - 1 -> Byte]
  BY AccessFacts
<1>4. CASE handle_read(c)
  <2> DEFINE data == [i \in 1 .. n |-> mem[s][offset + i - 1]]
             m == [net[c] EXCEPT !.at = "response", !.data = data]
  <2>1. net' = [net EXCEPT ![c] = m] /\ acc[c].kind = "read" /\ mem' = mem
    BY <1>1, <1>2, <1>4 DEF handle_read
  <2>2. data \in Seq(Byte)
    <3>1. \A i \in 1 .. n : offset + i - 1 \in 0 .. Size[s] - 1
      <4>1. PICK size \in Nat : size = Size[s] /\ offset + n <= size
        BY <1>2
      <4>2. \A i \in 1 .. n : offset + i - 1 \in 0 .. size - 1
        BY ONLY <4>1, offset \in Nat, n \in Nat, size \in Nat
      <4> QED BY <4>1, <4>2
    <3>2. data \in [1 .. n -> Byte]
      BY <1>3, <3>1
    <3> HIDE DEF data
    <3> QED BY <3>2
  <2> HIDE DEF data
  <2>3. /\ m \in NetRecords /\ m.at = "response" /\ m.ok = net[c].ok
        /\ m.stick = net[c].stick /\ m.offset = net[c].offset /\ m.size = net[c].size
    BY <1>1, <2>2 DEF NetRecords
  <2> HIDE DEF m
  <2>4. mem' = [t \in Stick |-> mem'[t]] /\ \A t \in Stick : mem'[t] \in [0 .. Size[t] - 1 -> Byte]
    BY <1>3, <2>1
  <2>5. m.ok
    BY <1>0, <1>1, <2>3 DEF AccessInv
  <2>6. ~(acc[c].kind = "write")
    BY <2>1
  <2> QED BY <1>0, <2>1, <2>3, <2>4, <2>5, <2>6, JoinsFrame, MessageMoves
<1>5. CASE handle_write(c)
  <2> DEFINE m == [net[c] EXCEPT !.at = "response", !.ok = InRange(net[c]), !.data = <<>>]
             new == [i \in DOMAIN mem[s] |-> IF InRange(net[c]) /\ i \in offset .. offset + n - 1
                                             THEN net[c].data[i - offset + 1] ELSE mem[s][i]]
  <2>1. net' = [net EXCEPT ![c] = m] /\ acc[c].kind = "write" /\ mem' = [mem EXCEPT ![s] = new]
    BY <1>2, <1>5 DEF handle_write
  <2>2. net[c].data \in Seq(Byte) /\ Len(net[c].data) = n
    <3>1. /\ net[c].data = SubSeq(acc[c].data, acc[c].done + 1, acc[c].done + n)
          /\ acc[c].data \in Seq(Byte) /\ Len(acc[c].data) = acc[c].size
          /\ acc[c].done \in Nat /\ acc[c].done + n <= acc[c].size
      BY <1>0, <1>1, <1>2, <2>1 DEF AccessInv, AccessRecords
    <3>2. PICK d \in Nat, all \in Seq(Byte) :
             d = acc[c].done /\ all = acc[c].data /\ n > 0 /\ d + n <= Len(all)
      <4>1. n > 0
        BY <1>0, <1>1, <1>2 DEF AccessInv
      <4>2. acc[c].done + n <= Len(acc[c].data)
        BY <3>1
      <4> QED BY <3>1, <4>1, <4>2
    <3>3. SubSeq(all, d + 1, d + n) \in Seq(Byte) /\ Len(SubSeq(all, d + 1, d + n)) = n
      <4>1. d + n <= Len(all)
        BY <3>2
      <4> QED BY ONLY <4>1, all \in Seq(Byte), d \in Nat, n \in Nat, SubSeqPart
    <3> QED BY <3>1, <3>2, <3>3
  <2>3. new \in [0 .. Size[s] - 1 -> Byte]
    <3>1. DOMAIN mem[s] = 0 .. Size[s] - 1 /\ \A i \in 0 .. Size[s] - 1 : mem[s][i] \in Byte
      BY <1>3
    <3>2. \A i \in offset .. offset + n - 1 : net[c].data[i - offset + 1] \in Byte
      <4> SUFFICES ASSUME NEW i \in offset .. offset + n - 1
                   PROVE  net[c].data[i - offset + 1] \in Byte
        OBVIOUS
      <4>1. i - offset + 1 \in 1 .. n
        BY ONLY offset \in Nat, n \in Nat, i \in offset .. offset + n - 1
      <4> QED BY <2>2, <4>1
    <3> QED BY <3>1, <3>2
  <2> HIDE DEF new
  <2>4. mem' = [t \in Stick |-> mem'[t]] /\ \A t \in Stick : mem'[t] \in [0 .. Size[t] - 1 -> Byte]
    BY <1>3, <2>1, <2>3
  <2>5. /\ m \in NetRecords /\ m.at = "response" /\ m.ok /\ m.data = <<>>
        /\ m.stick = net[c].stick /\ m.offset = net[c].offset /\ m.size = net[c].size
    <3>1. InRange(net[c]) = TRUE
      BY <1>1 DEF InRange
    <3>2. m = [net[c] EXCEPT !.at = "response", !.ok = TRUE, !.data = <<>>]
      BY <3>1
    <3>3. <<>> \in Seq(Byte)
      OBVIOUS
    <3> HIDE DEF m
    <3>4. m \in NetRecords
      BY <1>1, <3>2, <3>3 DEF NetRecords
    <3> QED BY <1>1, <3>2, <3>4 DEF NetRecords
  <2> HIDE DEF m
  <2> QED BY <1>0, <2>1, <2>4, <2>5, JoinsFrame, MessageMoves
<1> QED BY <1>4, <1>5

\* ... the handlers that receive them, ...
LEMMA TypesResponse ==
    ASSUME TypeInv, NEW c \in Client, NEW how \in {"posted", "lost"}, net[c].at = "response",
           net' = [net EXCEPT ![c].at = how],
           Joins', UNCHANGED <<cpuAt, sticks, alive, mem, acc, accesses>>
    PROVE  TypeInv'
<1> DEFINE m == [net[c] EXCEPT !.at = how]
<1>1. net' = [net EXCEPT ![c] = m] /\ net[c] \in NetRecords /\ AccessInv(c)
  BY AccessFacts DEF TypeInv, Accesses, AccessTypes
<1>2. /\ m \in NetRecords /\ m.at = how /\ m.ok = net[c].ok /\ m.data = net[c].data
      /\ m.stick = net[c].stick /\ m.offset = net[c].offset /\ m.size = net[c].size
  BY <1>1 DEF NetRecords
<1> HIDE DEF m
<1>3. mem' = [s \in Stick |-> mem'[s]] /\ \A s \in Stick : mem'[s] \in [0 .. Size[s] - 1 -> Byte]
  BY AccessFacts
<1>4. m.ok /\ (acc[c].kind = "write" => m.data = <<>>)
  BY <1>1, <1>2 DEF AccessInv
<1> QED BY <1>1, <1>2, <1>3, <1>4, MessageMoves

\* ... and the access that goes on.  No chunk is ever refused.
LEMMA ResponseTaken ==
    ASSUME TypeInv, NEW c \in Client, TakeResponse(c)
    PROVE  /\ acc' = [acc EXCEPT ![c] = [acc[c] EXCEPT !.done = @ + net[c].size,
                                                       !.data = @ \o net[c].data]]
           /\ net' = [net EXCEPT ![c] = NoMessage]
           /\ net[c].at = "posted" /\ UNCHANGED <<joining, sticks, alive, mem, accesses>>
<1>1. net[c].at = "posted" /\ net[c].ok
  BY AccessFacts DEF TakeResponse, AccessInv
<1> QED BY <1>1, AccessFacts DEF TakeResponse, TypeInv, Accesses, AccessTypes,
    AccessRecords

\* What is taken fits in the access.
LEMMA TypesTaken ==
    ASSUME TypeInv, NEW c \in Client, TakeResponse(c)
    PROVE  TypeInv'
<1> DEFINE a == [acc[c] EXCEPT !.done = @ + net[c].size, !.data = @ \o net[c].data]
<1>1. /\ acc' = [acc EXCEPT ![c] = a] /\ net' = [net EXCEPT ![c] = NoMessage] /\ net[c].at = "posted"
      /\ UNCHANGED <<joining, sticks, alive, mem, accesses>>
  BY ResponseTaken
<1>2. acc[c] \in AccessRecords /\ net[c] \in NetRecords /\ AccessInv(c)
  BY AccessFacts
<1>3. /\ acc[c].done + net[c].size \in Nat /\ acc[c].done + net[c].size <= acc[c].size
      /\ acc[c].data \o net[c].data \in Seq(Byte)
  <2>1. acc[c].done \in Nat /\ net[c].size \in Nat /\ acc[c].data \in Seq(Byte) /\ net[c].data \in Seq(Byte)
    BY <1>2 DEF AccessRecords, NetRecords
  <2>2. acc[c].done + net[c].size <= acc[c].size
    BY <1>1, <1>2 DEF AccessInv
  <2>3. acc[c].done + net[c].size \in Nat
    BY <2>1
  <2>4. acc[c].data \o net[c].data \in Seq(Byte)
    BY <2>1
  <2> QED BY <2>2, <2>3, <2>4
<1>4. acc[c].kind = "write" => acc[c].data \o net[c].data = acc[c].data
  <2> SUFFICES ASSUME acc[c].kind = "write"
               PROVE  acc[c].data \o net[c].data = acc[c].data
    OBVIOUS
  <2>1. net[c].data = <<>> /\ acc[c].data \in Seq(Byte)
    BY <1>1, <1>2 DEF AccessInv, AccessRecords
  <2> QED BY <2>1
<1>5. /\ a \in AccessRecords /\ a.at = acc[c].at /\ a.kind = acc[c].kind /\ a.size = acc[c].size
      /\ a.done = acc[c].done + net[c].size /\ a.data = acc[c].data \o net[c].data
  BY <1>2, <1>3 DEF AccessRecords
<1> HIDE DEF a
<1>6. acc'[c] = a /\ net'[c] = NoMessage
  BY <1>1 DEF TypeInv, Accesses, AccessTypes
<1>7. AccessInv(c)'
  <2>1. a.kind = "write" => Len(a.data) = a.size
    BY <1>2, <1>4, <1>5 DEF AccessInv
  <2>2. a.done <= a.size
    BY <1>3, <1>5
  <2>3. net'[c].at = "none" /\ net'[c] = NoMessage
    BY <1>6 DEF NoMessage
  <2> QED BY <1>6, <2>1, <2>2, <2>3 DEF AccessInv
<1>8. c \in Cpu => Unconnected(c)'
  BY <1>1, <1>5, <1>6, AccessFacts DEF Unconnected, joining
<1>9. NoMessage \in NetRecords
  BY SticksAssumption DEF NoMessage, NetRecords
<1>10. /\ mem' = [s \in Stick |-> mem'[s]] /\ \A s \in Stick : mem'[s] \in [0 .. Size[s] - 1 -> Byte]
       /\ accesses' \in [Client -> Nat]
  BY <1>1, AccessFacts
<1> QED BY <1>1, <1>5, <1>7, <1>8, <1>9, <1>10, AccessMoves

\* Every step keeps the types.
LEMMA TypeStep ==
    ASSUME TypeInv, [Next]_vars
    PROVE  TypeInv'
<1> USE SticksAssumption
<1>1. ASSUME NEW s \in Stick,
             memory_stick_protocol(s) \/ StickStops(s) \/ KmLosesStick(s) \/ ReportCorruption(s)
      PROVE  TypeInv'
  BY <1>1, TypesStick, TypesStops
<1>2. ASSUME NEW c \in Cpu,
             ListCpu(c) \/ send_credentials_list(c) \/ connect_kernel_memory(c) \/ ReceiveUpdate(c)
      PROVE  TypeInv'
  BY <1>2, TypesCpu
<1>3. ASSUME NEW c \in Cpu, CpuBegin(c) PROVE TypeInv'
  <2>1. PICK g \in SegmentTable[c], offset \in 0 .. segment_max_size - 1, size \in 1 .. MaxSize :
           LET addr == mmu_translate(SegmentTable[c], g.id * segment_max_size + offset, size)
           IN  addr # Fault /\ Begin(c, addr, size)
    BY <1>3 DEF CpuBegin
  <2>2. g \in [id : Nat, base : Nat, size : Nat]
    OBVIOUS
  <2>3. g.id * segment_max_size + offset \in Nat
    BY <2>2
  <2>4. PICK logical \in Nat : logical = g.id * segment_max_size + offset
    BY <2>3
  <2>5. PICK addr : addr = mmu_translate(SegmentTable[c], logical, size)
    OBVIOUS
  <2>6. addr # Fault /\ Begin(c, addr, size)
    BY <2>1, <2>4, <2>5
  <2>7. addr \in Nat
    BY <2>5, <2>6, Translated
  <2>8. c \in Client /\ cpuAt[c] = "connected"
    BY <1>3 DEF Client, CpuBegin
  <2> QED BY <2>6, <2>7, <2>8, TypesBegin
<1>4. ASSUME NEW c \in Cpu, CpuResponse(c) PROVE TypeInv'
  <2>1. c \in Client /\ "posted" \in {"posted", "lost"}
    BY DEF Client
  <2>2. PICK how \in {"posted", "lost"} : how = "posted"
    OBVIOUS
  <2>3. Joins' /\ UNCHANGED cpuAt
    BY <1>4, JoinsFrame DEF CpuResponse
  <2> QED BY <1>4, <2>1, <2>2, <2>3, TypesResponse DEF CpuResponse
<1>5. ASSUME NEW c \in Cpu, NEW s \in Stick, CpuLosesStick(c, s) PROVE TypeInv'
  BY <1>5, TypesCpuLoses
<1>6. CASE KmBegin
  <2>1. KM \in Client /\ KM \notin Cpu
    BY DEF Client
  <2>2. PICK addr \in KmRegion, size \in 1 .. MaxSize : Begin(KM, addr, size)
    BY <1>6 DEF KmBegin
  <2> QED BY <2>1, <2>2, TypesBegin
<1>7. CASE KmResponse
  <2>1. KM \in Client
    BY DEF Client
  <2>2. PICK how \in {"posted", "lost"} : net' = [net EXCEPT ![KM].at = how]
    BY <1>7 DEF KmResponse
  <2>3. UNCHANGED <<todo, total, creds, list_cpu, cpuAt, chan, toKs>>
    BY <1>7 DEF KmResponse
  <2>4. join' \in [Stick -> {"off", "sized", "listed", "known", "sending", "garbled", "joined", "lost", "gone"}]
    BY <1>7 DEF KmResponse, TypeInv, Joins, JoinTypes
  <2>5. Joins'
    BY <2>3, <2>4 DEF TypeInv, Joins, JoinTypes, Messages
  <2> QED BY <1>7, <2>1, <2>2, <2>3, <2>5, TypesResponse DEF KmResponse
<1>8. ASSUME NEW c \in Client, memory_access(c) \/ handle_read(c) \/ handle_write(c) PROVE TypeInv'
  BY <1>8, TypesNextChunk, TypesTaken, TypesHandled DEF memory_access
<1>9. CASE UNCHANGED vars
  <2>1. Joins' /\ cpuAt' = cpuAt
    BY <1>9 DEF vars, joining, TypeInv, Joins, JoinTypes, Messages
  <2> QED BY <1>9, <2>1, JoinFrame DEF vars
<1> QED BY <1>1, <1>2, <1>3, <1>4, <1>5, <1>6, <1>7, <1>8, <1>9 DEF Next

\* The threads that join, the loops of memory_read and memory_write and the handlers
\* keep their types, and each message to a Memory Stick is in its range and for part of
\* what its access still has to do: handle_read and handle_write never refuse one.
THEOREM TypeInvTheorem == Spec => []TypeInv
<1>1. Init => TypeInv
  BY TypeInvInit
<1>2. TypeInv /\ [Next]_vars => TypeInv'
  BY TypeStep
<1> QED BY <1>1, <1>2, PTL DEF Spec

\* TypeOK: memory_read and memory_write never transfer more than they were asked to, and
\* send only to Memory Sticks that the client knows.
THEOREM TypeTheorem == Spec => []TypeOK
<1>1. TypeInv => TypeOK
  BY DEF TypeInv, Joins, JoinTypes, ListTypes, Accesses, AccessTypes, AccessInv, TypeOK,
         Credentials, NetRecords
<1> QED BY <1>1, TypeInvTheorem, PTL

-----------------------------------------------------------------------------
(* The lists of the clients, when Memory Sticks and CPUs join one by one.  *)

Mid == {"sized", "listed", "known", "sending"}

\* At most one Memory Stick or CPU is in the middle of joining.
OneJoins ==
    /\ \A s, t \in Stick : join[s] \in Mid /\ join[t] \in Mid => s = t
    /\ \A s \in Stick, c \in Cpu : ~(join[s] \in Mid /\ cpuAt[c] = "listed")
    /\ \A c, d \in Cpu : cpuAt[c] = "listed" /\ cpuAt[d] = "listed" => c = d

\* Kernel Memory lists a Memory Stick once, at the end, and its credentials next;
\* it forgets none while all run.
KmList ==
    /\ \A s \in Stick : join[s] \notin {"lost", "gone"}
    /\ \A s \in Stick : join[s] \in {"off", "sized"} =>
          \A i \in 1 .. Len(sticks[KM]) : sticks[KM][i] # s
    /\ \A i, j \in 1 .. Len(sticks[KM]) : sticks[KM][i] = sticks[KM][j] => i = j
    /\ \A s \in Stick : join[s] \in {"listed", "known", "sending"} =>
          Len(sticks[KM]) > 0 /\ sticks[KM][Len(sticks[KM])] = s
    /\ \A s \in Stick : join[s] = "listed" => sticks[KM] = Append(creds, s)
    /\ (\A s \in Stick : join[s] # "listed") => sticks[KM] = creds

\* total_memory_size is ahead of the list by the Memory Stick that joins.
Totals ==
    /\ \A s \in Stick : join[s] = "sized" => total = Capacity(sticks[KM]) + Size[s]
    /\ (\A s \in Stick : join[s] # "sized") => total = Capacity(sticks[KM])

\* q has each of its elements once.
Distinct(q) == \A i, j \in 1 .. Len(q) : q[i] = q[j] => i = j
In(c, q) == \E i \in 1 .. Len(q) : q[i] = c

\* update_cpu_list tells each CPU of list_cpu once.
CpuLists ==
    /\ Distinct(list_cpu)
    /\ \A c \in Cpu : In(c, list_cpu) <=> cpuAt[c] # "off"
    /\ \A s \in Stick : join[s] = "sending" =>
          Distinct(todo[s]) /\ \A c \in Cpu : In(c, todo[s]) => cpuAt[c] # "off"

\* A Memory Stick is listed and c has not been told of it yet.
Owed(c) == \E s \in Stick :
    join[s] \in {"listed", "known"} \/ (join[s] = "sending" /\ In(c, todo[s]))
Told(c) == IF Owed(c) THEN Len(sticks[KM]) - 1 ELSE Len(sticks[KM])

\* q is how r begins, and updates how it goes on up to n.
Continues(r, q, updates, n) ==
    /\ Prefix(q, r) /\ Len(q) + Len(updates) = n
    /\ \A i \in 1 .. Len(updates) : updates[i] = Update(r[Len(q) + i])

\* The list of a CPU, or the one on its way to it, and the updates on their way are
\* the beginning of Kernel Memory's list.
CpuKnows(c) ==
    /\ cpuAt[c] \in {"off", "listed"} => sticks[c] = <<>> /\ chan[c] = <<>>
    /\ cpuAt[c] # "failed"
    /\ cpuAt[c] = "starting" =>
          /\ sticks[c] = <<>> /\ chan[c] # <<>> /\ Head(chan[c]).op = "PACKAGE"
          /\ Continues(sticks[KM], Head(chan[c]).list, Tail(chan[c]), Told(c))
    /\ cpuAt[c] = "connected" => Continues(sticks[KM], sticks[c], chan[c], Told(c))

Maps == OneJoins /\ KmList /\ Totals /\ CpuLists /\ \A c \in Cpu : CpuKnows(c)

\* Kernel Memory's list grows, ...
LEMMA ContinuesGrown ==
    ASSUME NEW r \in Seq(Stick), NEW s, NEW q \in Seq(Stick), NEW u \in Seq(Credentials),
           NEW n, Continues(r, q, u, n), n <= Len(r)
    PROVE  Continues(Append(r, s), q, u, n)
<1>1. Len(Append(r, s)) = Len(r) + 1 /\ \A i \in 1 .. Len(r) : Append(r, s)[i] = r[i]
  OBVIOUS
<1> DEFINE t == Append(r, s)
<1> HIDE DEF t
<1>2. Len(t) = Len(r) + 1 /\ \A i \in 1 .. Len(r) : t[i] = r[i]
  BY <1>1 DEF t
<1>3. Prefix(q, t)
  <2>1. Len(q) <= Len(r) /\ DOMAIN q = 1 .. Len(q) /\ \A i \in DOMAIN q : q[i] = r[i]
    BY DEF Continues, Prefix
  <2> QED BY <1>2, <2>1 DEF Prefix
<1>4. ASSUME NEW i \in 1 .. Len(u) PROVE u[i] = Update(t[Len(q) + i])
  <2>1. Len(q) + i \in 1 .. Len(r)
    BY DEF Continues
  <2> QED BY <2>1, <1>2 DEF Continues
<1> QED BY <1>3, <1>4 DEF Continues, t

\* ... an update is sent, ...
LEMMA ContinuesSent ==
    ASSUME NEW r \in Seq(Stick), NEW q \in Seq(Stick), NEW u \in Seq(Credentials),
           Len(r) > 0, Continues(r, q, u, Len(r) - 1)
    PROVE  Continues(r, q, Append(u, Update(r[Len(r)])), Len(r))
<1> DEFINE m == Update(r[Len(r)])
           v == Append(u, m)
<1>1. Len(v) = Len(u) + 1 /\ v[Len(u) + 1] = m /\ \A i \in 1 .. Len(u) : v[i] = u[i]
  OBVIOUS
<1> HIDE DEF v
<1>2. Len(q) + Len(v) = Len(r) /\ Len(q) + (Len(u) + 1) = Len(r)
  BY <1>1 DEF Continues
<1>3. ASSUME NEW i \in 1 .. Len(v) PROVE v[i] = Update(r[Len(q) + i])
  <2>1. CASE i = Len(u) + 1
    BY <1>1, <1>2, <2>1
  <2>2. CASE i # Len(u) + 1
    <3>1. i \in 1 .. Len(u)
      BY <1>1, <2>2
    <3> QED BY <1>1, <3>1 DEF Continues
  <2> QED BY <2>1, <2>2
<1> QED BY <1>2, <1>3 DEF Continues, v

\* ... and is received.
LEMMA ContinuesReceived ==
    ASSUME NEW r \in Seq(Stick), NEW q \in Seq(Stick), NEW u \in Seq(Credentials),
           NEW n, n <= Len(r), u # <<>>, Continues(r, q, u, n)
    PROVE  /\ Head(u) = Update(r[Len(q) + 1]) /\ r[Len(q) + 1] \in Stick
           /\ Continues(r, Append(q, r[Len(q) + 1]), Tail(u), n)
<1>1. Len(u) > 0 /\ Len(Tail(u)) = Len(u) - 1 /\ Head(u) = u[1]
      /\ \A i \in 1 .. Len(u) - 1 : Tail(u)[i] = u[i + 1]
  OBVIOUS
<1> DEFINE k == Len(q) + 1
           p == Append(q, r[k])
           v == Tail(u)
<1>2. k \in 1 .. Len(r) /\ r[k] \in Stick
  BY <1>1 DEF Continues
<1>3. Len(p) = Len(q) + 1 /\ p[Len(q) + 1] = r[k] /\ \A i \in 1 .. Len(q) : p[i] = q[i]
  OBVIOUS
<1> HIDE DEF p, v
<1>4. Prefix(p, r)
  <2>1. DOMAIN p = 1 .. Len(q) + 1 /\ DOMAIN q = 1 .. Len(q)
    BY <1>2 DEF p
  <2>2. ASSUME NEW i \in 1 .. Len(q) + 1 PROVE p[i] = r[i]
    <3>1. CASE i = Len(q) + 1
      BY <1>3, <3>1
    <3>2. CASE i # Len(q) + 1
      <4>1. i \in 1 .. Len(q)
        BY <1>2, <3>2
      <4>2. q[i] = r[i]
        BY <2>1, <4>1 DEF Continues, Prefix
      <4> QED BY <1>3, <4>1, <4>2
    <3> QED BY <3>1, <3>2
  <2> QED BY <1>2, <1>3, <2>1, <2>2 DEF Prefix
<1>5. ASSUME NEW i \in 1 .. Len(v) PROVE v[i] = Update(r[Len(p) + i])
  <2>1. i + 1 \in 1 .. Len(u) /\ v[i] = u[i + 1] /\ Len(q) + (i + 1) = Len(p) + i
    BY <1>1, <1>3 DEF v
  <2>2. u[i + 1] = Update(r[Len(q) + (i + 1)])
    BY <2>1 DEF Continues
  <2> QED BY <2>1, <2>2
<1>6. Len(p) + Len(v) = n
  BY <1>1, <1>3 DEF Continues, v
<1>7. Head(u) = Update(r[k])
  <2>1. 1 \in 1 .. Len(u)
    BY <1>1
  <2>2. u[1] = Update(r[Len(q) + 1])
    BY <2>1 DEF Continues
  <2> QED BY <2>2, <1>1
<1>8. Continues(r, p, v, n)
  BY <1>4, <1>5, <1>6 DEF Continues
<1> QED BY <1>2, <1>7, <1>8 DEF p, v

\* Nobody knows of any Memory Stick at first.
LEMMA MapsInit == Init => Maps
<1> SUFFICES ASSUME Init PROVE Maps
  OBVIOUS
<1> USE SticksAssumption DEF Init
<1>1. KM \in Client /\ sticks[KM] = <<>>
  BY DEF Client
<1>2. OneJoins /\ KmList
  BY <1>1 DEF OneJoins, KmList, Mid
<1>3. Totals
  BY <1>1, CapacityEmpty DEF Totals
<1>4. CpuLists
  BY DEF CpuLists, Distinct, In
<1>5. \A c \in Cpu : CpuKnows(c)
  BY DEF CpuKnows, Client
<1> QED BY <1>2, <1>3, <1>4, <1>5 DEF Maps

\* What a CPU knows depends on these variables only.
LEMMA KnowsFrame ==
    ASSUME NEW c \in Cpu, CpuKnows(c), sticks' = sticks, chan'[c] = chan[c], cpuAt'[c] = cpuAt[c],
           Owed(c)' <=> Owed(c)
    PROVE  CpuKnows(c)'
<1>1. Told(c)' = Told(c)
  BY DEF Told
<1> QED BY <1>1 DEF CpuKnows, Continues, Prefix

\* The accesses do not disturb the lists.
LEMMA MapsFrame ==
    ASSUME Maps, UNCHANGED <<joining, sticks>>
    PROVE  Maps'
<1> USE DEF joining
<1>1. OneJoins' /\ KmList' /\ Totals' /\ CpuLists'
  BY DEF Maps, OneJoins, KmList, Totals, CpuLists, Capacity, cursor
<1>2. ASSUME NEW c \in Cpu PROVE CpuKnows(c)'
  <2>1. Owed(c)' <=> Owed(c)
    BY DEF Owed
  <2> QED BY <2>1, KnowsFrame DEF Maps
<1> QED BY <1>1, <1>2 DEF Maps

\* The steps of memory_stick_protocol: the size, ...
LEMMA MapsReceiveSize ==
    ASSUME SerialJoin, TypeInv, Maps, NEW s \in Stick, ReceiveSize(s)
    PROVE  Maps'
<1>1. /\ join[s] = "off" /\ join' = [join EXCEPT ![s] = "sized"] /\ total' = total + Size[s]
      /\ UNCHANGED <<todo, creds, list_cpu, cpuAt, chan, sticks>>
      /\ \A t \in Stick : join[t] \notin Mid /\ \A c \in Cpu : cpuAt[c] # "listed"
  BY DEF ReceiveSize, Quiet, Mid
<1>2. join'[s] = "sized" /\ \A t \in Stick : t # s => join'[t] = join[t]
  BY <1>1 DEF TypeInv, Joins, JoinTypes
<1>3. OneJoins'
  BY <1>1, <1>2 DEF OneJoins
<1>4. KmList'
  BY <1>1, <1>2 DEF Maps, KmList
<1>5. Totals'
  <2>1. total = Capacity(sticks[KM])
    BY <1>1 DEF Maps, Totals, Mid
  <2>2. Capacity(sticks[KM])' = Capacity(sticks[KM])
    BY <1>1 DEF Capacity, cursor
  <2> QED BY <1>1, <1>2, <2>1, <2>2 DEF Totals, Mid
<1>6. CpuLists'
  BY <1>1, <1>2 DEF Maps, CpuLists
<1>7. ASSUME NEW c \in Cpu PROVE CpuKnows(c)'
  <2>1. Owed(c)' <=> Owed(c)
    BY <1>1, <1>2 DEF Owed
  <2> QED BY <1>1, <2>1, KnowsFrame DEF Maps
<1> QED BY <1>3, <1>4, <1>5, <1>6, <1>7 DEF Maps

\* ... the list, of which nobody has been told yet, ...
LEMMA MapsListStick ==
    ASSUME TypeInv, Maps, NEW s \in Stick, ListStick(s)
    PROVE  Maps'
<1> DEFINE L == sticks[KM]
           M == Append(L, s)
<1>0. L \in Seq(Stick) /\ KM \in Client
  BY DEF TypeInv, ListTypes, Client
<1>1. /\ join[s] = "sized" /\ join' = [join EXCEPT ![s] = "listed"]
      /\ UNCHANGED <<todo, total, creds, list_cpu, cpuAt, chan>>
  BY DEF ListStick
<1>2. join'[s] = "listed" /\ \A t \in Stick : t # s => join'[t] = join[t]
  BY <1>1 DEF TypeInv, Joins, JoinTypes
<1>3. sticks'[KM] = M /\ \A c \in Cpu : sticks'[c] = sticks[c]
  BY SticksAssumption DEF ListStick, TypeInv, ListTypes, Client
<1>4. /\ \A t \in Stick : t # s => join[t] \notin Mid
      /\ \A c \in Cpu : cpuAt[c] # "listed"
  BY <1>1 DEF Maps, OneJoins, Mid
<1>5. OneJoins'
  BY <1>1, <1>2, <1>4 DEF OneJoins
<1>6. L = creds /\ \A i \in 1 .. Len(L) : L[i] # s
  BY <1>1, <1>4 DEF Maps, KmList, Mid
<1>7. Len(M) = Len(L) + 1 /\ M[Len(L) + 1] = s /\ Len(L) \in Nat /\ \A i \in 1 .. Len(L) : M[i] = L[i]
  BY <1>0
<1>8. KmList'
  <2> HIDE DEF M
  <2>1. \A t \in Stick : join'[t] \notin {"lost", "gone"}
    BY <1>2 DEF Maps, KmList
  <2>2. ASSUME NEW t \in Stick, join'[t] \in {"off", "sized"}, NEW i \in 1 .. Len(M) PROVE M[i] # t
    <3>1. t # s /\ join[t] \in {"off", "sized"}
      BY <1>2, <2>2
    <3>2. i = Len(L) + 1 \/ i \in 1 .. Len(L)
      BY <1>7
    <3> QED BY <3>1, <3>2, <1>7 DEF Maps, KmList
  <2>3. ASSUME NEW i \in 1 .. Len(M), NEW j \in 1 .. Len(M), M[i] = M[j] PROVE i = j
    <3>1. (i = Len(L) + 1 \/ i \in 1 .. Len(L)) /\ (j = Len(L) + 1 \/ j \in 1 .. Len(L))
      BY <1>7
    <3> QED BY <3>1, <2>3, <1>6, <1>7 DEF Maps, KmList
  <2>4. \A t \in Stick : join'[t] \in {"listed", "known", "sending"} => t = s
    BY <1>2, <1>4 DEF Mid
  <2>5. Len(M) > 0 /\ M[Len(M)] = s
    BY <1>7
  <2>6. M = Append(creds', s)
    BY <1>1, <1>6 DEF M
  <2> QED BY <1>2, <1>3, <2>1, <2>2, <2>3, <2>4, <2>5, <2>6 DEF KmList
<1>9. Totals'
  <2>1. total = Capacity(L) + Size[s]
    BY <1>1 DEF Maps, Totals
  <2>2. Capacity(sticks[KM])' = Capacity(L) + Size[s]
    <3>1. Capacity(sticks[KM])' = Capacity(M)
      BY <1>3 DEF Capacity, cursor
    <3> QED BY <1>0, <3>1, CapacityAppend
  <2>3. \A t \in Stick : join'[t] # "sized"
    BY <1>2, <1>4 DEF Mid
  <2> QED BY <1>1, <2>1, <2>2, <2>3 DEF Totals
<1>10. CpuLists'
  BY <1>1, <1>2 DEF Maps, CpuLists
<1>11. ASSUME NEW c \in Cpu PROVE CpuKnows(c)'
  <2>1. Owed(c)'
    BY <1>2 DEF Owed
  <2>2. ~Owed(c)
    BY <1>1, <1>4 DEF Owed, Mid
  <2>3. Told(c) = Len(L) /\ Told(c)' = Len(L)
    <3>1. Len(sticks'[KM]) - 1 = Len(L)
      <4> HIDE DEF M
      <4> QED BY <1>3, <1>7
    <3> QED BY <3>1, <2>1, <2>2 DEF Told
  <2>4. CpuKnows(c)
    BY DEF Maps
  <2>5. sticks[c] \in Seq(Stick) /\ chan[c] \in Seq(Credentials)
    BY DEF TypeInv, Joins, JoinTypes, ListTypes, Client
  <2>6. CASE cpuAt[c] = "starting"
    <3>1. /\ sticks[c] = <<>> /\ chan[c] # <<>> /\ Head(chan[c]).op = "PACKAGE"
          /\ Continues(L, Head(chan[c]).list, Tail(chan[c]), Len(L))
      BY <2>3, <2>4, <2>6 DEF CpuKnows
    <3>2. Head(chan[c]) \in Credentials /\ Tail(chan[c]) \in Seq(Credentials)
      BY <2>5, <3>1
    <3>3. Head(chan[c]).list \in Seq(Stick)
      BY <3>2 DEF Credentials
    <3>4. Continues(M, Head(chan[c]).list, Tail(chan[c]), Len(L))
      <4>1. PICK q \in Seq(Stick), u \in Seq(Credentials) : q = Head(chan[c]).list /\ u = Tail(chan[c])
        BY <3>2, <3>3
      <4>2. Continues(L, q, u, Len(L)) /\ Len(L) <= Len(L)
        BY <1>7, <3>1, <4>1
      <4>3. Continues(M, q, u, Len(L))
        BY <1>0, <4>2, ContinuesGrown
      <4> QED BY <4>1, <4>3
    <3> HIDE DEF M
    <3> QED BY <1>1, <1>3, <2>3, <2>6, <3>1, <3>4 DEF CpuKnows
  <2>7. CASE cpuAt[c] = "connected"
    <3>1. Continues(L, sticks[c], chan[c], Len(L))
      BY <2>3, <2>4, <2>7 DEF CpuKnows
    <3>2. Continues(M, sticks[c], chan[c], Len(L))
      BY <1>0, <2>5, <3>1, ContinuesGrown
    <3> HIDE DEF M
    <3> QED BY <1>1, <1>3, <2>3, <2>7, <3>2 DEF CpuKnows
  <2> QED BY <1>1, <1>3, <2>4, <2>6, <2>7 DEF CpuKnows
<1> QED BY <1>5, <1>8, <1>9, <1>10, <1>11 DEF Maps

\* ... the credentials, ...
LEMMA MapsListCredentials ==
    ASSUME TypeInv, Maps, NEW s \in Stick, ListCredentials(s)
    PROVE  Maps'
<1>1. /\ join[s] = "listed" /\ join' = [join EXCEPT ![s] = "known"] /\ creds' = Append(creds, s)
      /\ UNCHANGED <<todo, total, list_cpu, cpuAt, chan, sticks>>
  BY DEF ListCredentials
<1>2. join'[s] = "known" /\ \A t \in Stick : t # s => join'[t] = join[t]
  BY <1>1 DEF TypeInv, Joins, JoinTypes
<1>3. /\ \A t \in Stick : t # s => join[t] \notin Mid
      /\ \A c \in Cpu : cpuAt[c] # "listed"
  BY <1>1 DEF Maps, OneJoins, Mid
<1>4. OneJoins'
  BY <1>1, <1>2, <1>3 DEF OneJoins
<1>5. KmList'
  <2>1. \A t \in Stick : join'[t] # "listed"
    BY <1>2, <1>3 DEF Mid
  <2>2. sticks[KM] = creds'
    BY <1>1 DEF Maps, KmList
  <2>3. \A t \in Stick : join'[t] \in {"listed", "known", "sending"} => t = s
    BY <1>2, <1>3 DEF Mid
  <2>4. Len(sticks[KM]) > 0 /\ sticks[KM][Len(sticks[KM])] = s
    BY <1>1 DEF Maps, KmList
  <2>5. \A t \in Stick : join'[t] \notin {"lost", "gone"}
    BY <1>2 DEF Maps, KmList
  <2>6. \A t \in Stick : join'[t] \in {"off", "sized"} =>
           \A i \in 1 .. Len(sticks[KM]) : sticks[KM][i] # t
    BY <1>2 DEF Maps, KmList
  <2>7. \A i, j \in 1 .. Len(sticks[KM]) : sticks[KM][i] = sticks[KM][j] => i = j
    BY DEF Maps, KmList
  <2> QED BY <1>1, <2>1, <2>2, <2>3, <2>4, <2>5, <2>6, <2>7 DEF KmList
<1>6. Totals'
  <2>1. \A t \in Stick : join[t] = "sized" <=> join'[t] = "sized"
    BY <1>1, <1>2
  <2>2. Capacity(sticks[KM])' = Capacity(sticks[KM])
    BY <1>1 DEF Capacity, cursor
  <2> QED BY <1>1, <2>1, <2>2 DEF Maps, Totals
<1>7. CpuLists'
  BY <1>1, <1>2 DEF Maps, CpuLists
<1>8. ASSUME NEW c \in Cpu PROVE CpuKnows(c)'
  <2>1. Owed(c)' <=> Owed(c)
    BY <1>1, <1>2 DEF Owed
  <2> QED BY <1>1, <2>1, KnowsFrame DEF Maps
<1> QED BY <1>4, <1>5, <1>6, <1>7, <1>8 DEF Maps

\* ... and the CPUs to tell, which are those not told yet.
LEMMA MapsUpdate ==
    ASSUME TypeInv, Maps, NEW s \in Stick, update_cpu_list(s)
    PROVE  Maps'
<1>1. /\ join[s] = "known" /\ join' = [join EXCEPT ![s] = "sending"]
      /\ todo' = [todo EXCEPT ![s] = list_cpu]
      /\ UNCHANGED <<total, creds, list_cpu, cpuAt, chan, sticks>>
  BY DEF update_cpu_list
<1>2. /\ join'[s] = "sending" /\ \A t \in Stick : t # s => join'[t] = join[t]
      /\ todo'[s] = list_cpu /\ \A t \in Stick : t # s => todo'[t] = todo[t]
  BY <1>1 DEF TypeInv, Joins, JoinTypes
<1>3. /\ \A t \in Stick : t # s => join[t] \notin Mid
      /\ \A c \in Cpu : cpuAt[c] # "listed"
  BY <1>1 DEF Maps, OneJoins, Mid
<1>4. OneJoins'
  BY <1>1, <1>2, <1>3 DEF OneJoins
<1>5. KmList'
  <2>1. \A t \in Stick : join'[t] # "listed" /\ join[t] # "listed"
    BY <1>1, <1>2, <1>3 DEF Mid
  <2>2. sticks[KM] = creds
    BY <2>1 DEF Maps, KmList
  <2>3. \A t \in Stick : join'[t] \in {"listed", "known", "sending"} => t = s
    BY <1>2, <1>3 DEF Mid
  <2>4. Len(sticks[KM]) > 0 /\ sticks[KM][Len(sticks[KM])] = s
    BY <1>1 DEF Maps, KmList
  <2>5. \A t \in Stick : join'[t] \notin {"lost", "gone"}
    BY <1>2 DEF Maps, KmList
  <2>6. \A t \in Stick : join'[t] \in {"off", "sized"} =>
           \A i \in 1 .. Len(sticks[KM]) : sticks[KM][i] # t
    BY <1>2 DEF Maps, KmList
  <2>7. \A i, j \in 1 .. Len(sticks[KM]) : sticks[KM][i] = sticks[KM][j] => i = j
    BY DEF Maps, KmList
  <2> QED BY <1>1, <2>1, <2>2, <2>3, <2>4, <2>5, <2>6, <2>7 DEF KmList
<1>6. Totals'
  <2>1. \A t \in Stick : join[t] = "sized" <=> join'[t] = "sized"
    BY <1>1, <1>2
  <2>2. Capacity(sticks[KM])' = Capacity(sticks[KM])
    BY <1>1 DEF Capacity, cursor
  <2> QED BY <1>1, <2>1, <2>2 DEF Maps, Totals
<1>7. CpuLists'
  <2>1. \A t \in Stick : join'[t] = "sending" => t = s
    BY <1>2, <1>3 DEF Mid
  <2> QED BY <1>1, <1>2, <2>1 DEF Maps, CpuLists
<1>8. ASSUME NEW c \in Cpu PROVE CpuKnows(c)'
  <2>1. CASE cpuAt[c] = "off"
    BY <1>1, <2>1 DEF Maps, CpuKnows
  <2>2. CASE cpuAt[c] # "off"
    <3>1. Owed(c)
      BY <1>1 DEF Owed
    <3>2. In(c, todo'[s])
      BY <1>2, <2>2 DEF Maps, CpuLists
    <3>3. Owed(c)'
      BY <1>2, <3>2 DEF Owed, In
    <3> QED BY <1>1, <3>1, <3>3, KnowsFrame DEF Maps
  <2> QED BY <2>1, <2>2
<1> QED BY <1>4, <1>5, <1>6, <1>7, <1>8 DEF Maps

\* The part of a list without duplicates behind its head.
LEMMA TailDistinct ==
    ASSUME NEW S, NEW q \in Seq(S), q # <<>>, Distinct(q)
    PROVE  /\ Head(q) \in S /\ In(Head(q), q)
           /\ Distinct(Tail(q)) /\ \A c : In(c, Tail(q)) <=> In(c, q) /\ c # Head(q)
<1>1. Len(q) > 0 /\ Len(q) \in Nat /\ Len(Tail(q)) = Len(q) - 1 /\ Head(q) = q[1] /\ Head(q) \in S
      /\ \A i \in 1 .. Len(q) - 1 : Tail(q)[i] = q[i + 1]
  OBVIOUS
<1> DEFINE r == Tail(q)
<1>2. Len(r) = Len(q) - 1 /\ \A i \in 1 .. Len(q) - 1 : r[i] = q[i + 1]
  BY <1>1
<1> HIDE DEF r
<1>3. Distinct(r)
  <2> SUFFICES ASSUME NEW i \in 1 .. Len(r), NEW j \in 1 .. Len(r), r[i] = r[j] PROVE i = j
    BY DEF Distinct
  <2>1. i + 1 \in 1 .. Len(q) /\ j + 1 \in 1 .. Len(q) /\ q[i + 1] = q[j + 1]
    BY <1>1, <1>2
  <2>2. i + 1 = j + 1
    BY <2>1 DEF Distinct
  <2> QED BY <2>2, <1>1, <1>2
<1>4. ASSUME NEW c, In(c, r) PROVE In(c, q) /\ c # Head(q)
  <2>1. PICK i \in 1 .. Len(r) : r[i] = c
    BY <1>4 DEF In
  <2>2. i + 1 \in 1 .. Len(q) /\ q[i + 1] = c /\ i + 1 # 1 /\ 1 \in 1 .. Len(q)
    BY <1>1, <1>2, <2>1
  <2>3. c # q[1]
    BY <2>2 DEF Distinct
  <2> QED BY <1>1, <2>2, <2>3 DEF In
<1>5. ASSUME NEW c, In(c, q), c # Head(q) PROVE In(c, r)
  <2>1. PICK i \in 1 .. Len(q) : q[i] = c
    BY <1>5 DEF In
  <2>2. i # 1
    BY <1>1, <1>5, <2>1
  <2>3. i - 1 \in 1 .. Len(r) /\ (i - 1) + 1 = i
    BY <1>1, <1>2, <2>1, <2>2
  <2>4. r[i - 1] = c
    BY <1>2, <2>1, <2>3
  <2> QED BY <2>3, <2>4 DEF In
<1>6. In(Head(q), q)
  BY <1>1 DEF In
<1> QED BY <1>1, <1>3, <1>4, <1>5, <1>6 DEF r

\* send_credentials: the CPU that is told next, ...
LEMMA MapsSend ==
    ASSUME TypeInv, Maps, NEW s \in Stick, send_credentials(s), todo[s] # <<>>
    PROVE  Maps'
<1>0. todo[s] \in Seq(Cpu) /\ sticks[KM] \in Seq(Stick) /\ join[s] = "sending" /\ Distinct(todo[s])
  BY DEF TypeInv, Joins, JoinTypes, ListTypes, Client, send_credentials, Maps, CpuLists
<1>1. PICK d \in Cpu : d = Head(todo[s])
  BY <1>0
<1>2. /\ chan' = [chan EXCEPT ![d] = Append(@, Update(s))]
      /\ todo' = [todo EXCEPT ![s] = Tail(@)]
      /\ UNCHANGED <<join, total, creds, list_cpu, cpuAt, sticks>>
  BY <1>1 DEF send_credentials, Update
<1>3. /\ chan'[d] = Append(chan[d], Update(s)) /\ \A c \in Cpu : c # d => chan'[c] = chan[c]
      /\ todo'[s] = Tail(todo[s]) /\ \A t \in Stick : t # s => todo'[t] = todo[t]
  BY <1>2 DEF TypeInv, Joins, JoinTypes
<1>4. /\ In(d, todo[s]) /\ Distinct(Tail(todo[s]))
      /\ \A c : In(c, Tail(todo[s])) <=> In(c, todo[s]) /\ c # d
  BY <1>0, <1>1, TailDistinct
<1>5. \A t \in Stick : t # s => join[t] \notin Mid
  BY <1>0 DEF Maps, OneJoins, Mid
<1>6. OneJoins' /\ KmList' /\ Totals'
  <2>1. Capacity(sticks[KM])' = Capacity(sticks[KM])
    BY <1>2 DEF Capacity, cursor
  <2>2. Totals'
    BY <1>2, <2>1 DEF Maps, Totals
  <2> QED BY <1>2, <2>2 DEF Maps, OneJoins, KmList
<1>7. CpuLists'
  <2>1. \A t \in Stick : join[t] = "sending" => t = s
    BY <1>5 DEF Mid
  <2>2. \A c \in Cpu : In(c, todo'[s]) => cpuAt[c] # "off"
    BY <1>0, <1>3, <1>4 DEF Maps, CpuLists
  <2>3. Distinct(todo'[s])
    BY <1>3, <1>4
  <2>4. \A t \in Stick : join'[t] = "sending" =>
           Distinct(todo'[t]) /\ \A c \in Cpu : In(c, todo'[t]) => cpuAt'[c] # "off"
    BY <1>2, <2>1, <2>2, <2>3
  <2>5. Distinct(list_cpu') /\ \A c \in Cpu : In(c, list_cpu') <=> cpuAt'[c] # "off"
    BY <1>2 DEF Maps, CpuLists
  <2> QED BY <2>4, <2>5 DEF CpuLists, Distinct, In
<1>8. \A c \in Cpu : (Owed(c) <=> In(c, todo[s])) /\ (Owed(c)' <=> In(c, Tail(todo[s])))
  <2>1. ASSUME NEW c \in Cpu PROVE Owed(c) <=> In(c, todo[s])
    BY <1>0, <1>5 DEF Owed, Mid
  <2>2. ASSUME NEW c \in Cpu PROVE Owed(c)' <=> In(c, todo'[s])
    BY <1>0, <1>2, <1>5 DEF Owed, Mid, In
  <2> QED BY <2>1, <2>2, <1>3
<1>9. ASSUME NEW c \in Cpu, c # d PROVE CpuKnows(c)'
  <2>1. Owed(c)' <=> Owed(c)
    BY <1>4, <1>8, <1>9
  <2> QED BY <1>2, <1>3, <1>9, <2>1, KnowsFrame DEF Maps
<1>10. CpuKnows(d)'
  <2> DEFINE L == sticks[KM]
  <2>1. Owed(d) /\ ~Owed(d)'
    BY <1>4, <1>8
  <2>2. Told(d) = Len(L) - 1 /\ Told(d)' = Len(L)
    BY <1>2, <2>1 DEF Told
  <2>3. cpuAt[d] \in {"starting", "connected"} /\ CpuKnows(d)
    <3>1. cpuAt[d] # "off" /\ cpuAt[d] # "listed" /\ CpuKnows(d)
      BY <1>0, <1>4 DEF Maps, CpuLists, OneJoins, Mid
    <3> QED BY <3>1 DEF CpuKnows, TypeInv, Joins, JoinTypes
  <2>4. Len(L) > 0 /\ L[Len(L)] = s
    BY <1>0 DEF Maps, KmList
  <2>5. sticks[d] \in Seq(Stick) /\ chan[d] \in Seq(Credentials)
    BY DEF TypeInv, Joins, JoinTypes, ListTypes, Client
  <2>6. PICK u \in Seq(Credentials), m \in Credentials : u = chan[d] /\ m = Update(s)
    <3>1. <<s>> \in Seq(Stick)
      OBVIOUS
    <3>2. Update(s) \in Credentials
      BY <3>1 DEF Update, Credentials
    <3> QED BY <2>5, <3>2
  <2>7. CASE cpuAt[d] = "starting"
    <3>1. sticks[d] = <<>> /\ u # <<>> /\ Head(u).op = "PACKAGE"
          /\ Continues(L, Head(u).list, Tail(u), Len(L) - 1)
      BY <2>2, <2>3, <2>6, <2>7 DEF CpuKnows
    <3>2. Head(u) \in Credentials /\ Tail(u) \in Seq(Credentials)
      BY <3>1
    <3>3. PICK q \in Seq(Stick), v \in Seq(Credentials) : q = Head(u).list /\ v = Tail(u)
      BY <3>2 DEF Credentials
    <3>4. Continues(L, q, v, Len(L) - 1)
      BY <3>1, <3>3
    <3>5. Continues(L, q, Append(v, m), Len(L))
      BY <1>0, <2>4, <2>6, <3>4, ContinuesSent
    <3>6. Append(u, m) # <<>> /\ Head(Append(u, m)) = Head(u) /\ Tail(Append(u, m)) = Append(Tail(u), m)
      BY <3>1
    <3>7. chan'[d] = Append(u, m)
      BY <1>3, <2>6
    <3>8. Continues(L, Head(chan'[d]).list, Tail(chan'[d]), Len(L)) /\ Head(chan'[d]).op = "PACKAGE"
          /\ chan'[d] # <<>>
      BY <3>1, <3>3, <3>5, <3>6, <3>7
    <3> QED BY <1>2, <2>2, <2>7, <3>1, <3>8 DEF CpuKnows, Continues, Prefix
  <2>8. CASE cpuAt[d] = "connected"
    <3>1. Continues(L, sticks[d], u, Len(L) - 1)
      BY <2>2, <2>3, <2>6, <2>8 DEF CpuKnows
    <3>2. Continues(L, sticks[d], Append(u, m), Len(L))
      BY <1>0, <2>4, <2>5, <2>6, <3>1, ContinuesSent
    <3>3. Continues(L, sticks[d], chan'[d], Len(L))
      BY <3>2, <1>3, <2>6
    <3> QED BY <1>2, <2>2, <2>8, <3>3 DEF CpuKnows
  <2> QED BY <2>3, <2>7, <2>8
<1> QED BY <1>6, <1>7, <1>9, <1>10 DEF Maps

\* ... and the end.
LEMMA MapsJoined ==
    ASSUME TypeInv, Maps, NEW s \in Stick, send_credentials(s), todo[s] = <<>>
    PROVE  Maps'
<1>1. /\ join[s] = "sending" /\ join' = [join EXCEPT ![s] = "joined"]
      /\ UNCHANGED <<todo, total, creds, list_cpu, cpuAt, chan, sticks>>
  BY DEF send_credentials
<1>2. join'[s] = "joined" /\ \A t \in Stick : t # s => join'[t] = join[t]
  BY <1>1 DEF TypeInv, Joins, JoinTypes
<1>3. \A t \in Stick : t # s => join[t] \notin Mid
  BY <1>1 DEF Maps, OneJoins, Mid
<1>4. \A t \in Stick : join'[t] \notin Mid
  BY <1>2, <1>3 DEF Mid
<1>5. OneJoins'
  BY <1>1, <1>4 DEF Maps, OneJoins
<1>6. KmList'
  <2>1. \A t \in Stick : join[t] # "listed"
    BY <1>1, <1>3 DEF Mid
  <2>2. sticks[KM] = creds
    BY <2>1 DEF Maps, KmList
  <2>3. \A t \in Stick : join'[t] \notin {"lost", "gone"}
    BY <1>2 DEF Maps, KmList
  <2>4. \A t \in Stick : join'[t] \in {"off", "sized"} =>
           \A i \in 1 .. Len(sticks[KM]) : sticks[KM][i] # t
    BY <1>2 DEF Maps, KmList
  <2>5. \A i, j \in 1 .. Len(sticks[KM]) : sticks[KM][i] = sticks[KM][j] => i = j
    BY DEF Maps, KmList
  <2> QED BY <1>1, <1>4, <2>2, <2>3, <2>4, <2>5 DEF KmList, Mid
<1>7. Totals'
  <2>1. \A t \in Stick : join[t] # "sized" /\ join'[t] # "sized"
    BY <1>1, <1>3, <1>4 DEF Mid
  <2>2. Capacity(sticks[KM])' = Capacity(sticks[KM])
    BY <1>1 DEF Capacity, cursor
  <2> QED BY <1>1, <2>1, <2>2 DEF Maps, Totals
<1>8. CpuLists'
  BY <1>1, <1>4 DEF Maps, CpuLists, Mid
<1>9. ASSUME NEW c \in Cpu PROVE CpuKnows(c)'
  <2>1. ~Owed(c)
    BY <1>1, <1>3 DEF Owed, Mid, In
  <2>2. ~Owed(c)'
    BY <1>4 DEF Owed, Mid
  <2> QED BY <1>1, <2>1, <2>2, KnowsFrame DEF Maps
<1> QED BY <1>5, <1>6, <1>7, <1>8, <1>9 DEF Maps

\* Between two that join, everyone listed has been told or is about to be.
LEMMA NobodyJoins ==
    ASSUME Maps, \A s \in Stick : join[s] \notin Mid
    PROVE  sticks[KM] = creds /\ \A c \in Cpu : ~Owed(c)
BY DEF Maps, KmList, Owed, Mid

\* The steps of handle_module for a CPU: the list, ...
LEMMA MapsListCpu ==
    ASSUME SerialJoin, TypeInv, Maps, NEW c \in Cpu, ListCpu(c)
    PROVE  Maps'
<1>1. /\ cpuAt[c] = "off" /\ cpuAt' = [cpuAt EXCEPT ![c] = "listed"]
      /\ list_cpu' = Append(list_cpu, c)
      /\ UNCHANGED <<join, todo, total, creds, chan, sticks>>
      /\ \A s \in Stick : join[s] \notin Mid
      /\ \A d \in Cpu : cpuAt[d] # "listed"
  BY DEF ListCpu, Quiet, Mid
<1>2. cpuAt'[c] = "listed" /\ \A d \in Cpu : d # c => cpuAt'[d] = cpuAt[d]
  BY <1>1 DEF TypeInv, Joins, JoinTypes
<1>3. OneJoins'
  BY <1>1, <1>2 DEF OneJoins
<1>4. KmList'
  BY <1>1 DEF Maps, KmList
<1>5. Totals'
  <2>1. Capacity(sticks[KM])' = Capacity(sticks[KM])
    BY <1>1 DEF Capacity, cursor
  <2> QED BY <1>1, <2>1 DEF Maps, Totals
<1>6. CpuLists'
  <2> DEFINE r == Append(list_cpu, c)
             n == Len(list_cpu)
  <2>1. n \in Nat /\ Len(r) = n + 1 /\ r[n + 1] = c /\ \A i \in 1 .. n : r[i] = list_cpu[i]
    BY DEF TypeInv, Joins, JoinTypes
  <2> HIDE DEF r
  <2>2. ~In(c, list_cpu)
    BY <1>1 DEF Maps, CpuLists
  <2>3. \A i \in 1 .. Len(r) : i = n + 1 \/ i \in 1 .. n
    BY <2>1
  <2>4. Distinct(r)
    BY <2>1, <2>2, <2>3 DEF Maps, CpuLists, Distinct, In
  <2>5. \A d \in Cpu : In(d, r) <=> d = c \/ In(d, list_cpu)
    <3>1. n + 1 \in 1 .. Len(r) /\ \A i \in 1 .. n : i \in 1 .. Len(r)
      BY <2>1
    <3> QED BY <2>1, <2>3, <3>1 DEF In
  <2>6. \A d \in Cpu : In(d, r) <=> cpuAt'[d] # "off"
    BY <1>2, <2>5 DEF Maps, CpuLists
  <2>7. list_cpu' = r
    BY <1>1 DEF r
  <2>8. \A s \in Stick : join'[s] # "sending"
    BY <1>1 DEF Mid
  <2> QED BY <2>4, <2>6, <2>7, <2>8 DEF CpuLists, Distinct, In
<1>7. ASSUME NEW d \in Cpu PROVE CpuKnows(d)'
  <2>1. CASE d = c
    BY <1>1, <1>2, <2>1 DEF Maps, CpuKnows
  <2>2. CASE d # c
    <3>1. Owed(d)' <=> Owed(d)
      BY <1>1 DEF Owed
    <3> QED BY <1>1, <1>2, <2>2, <3>1, KnowsFrame DEF Maps
  <2> QED BY <2>1, <2>2
<1> QED BY <1>3, <1>4, <1>5, <1>6, <1>7 DEF Maps

\* When only the list of one CPU or what is sent to it changes.
LEMMA MapsOneCpu ==
    ASSUME TypeInv, Maps, NEW c \in Cpu,
           UNCHANGED <<join, todo, total, creds, list_cpu>>,
           \A d \in Cpu : d # c => /\ cpuAt'[d] = cpuAt[d] /\ chan'[d] = chan[d]
                                   /\ sticks'[d] = sticks[d],
           sticks'[KM] = sticks[KM],
           cpuAt[c] # "off", cpuAt'[c] \notin {"off", "listed"}, CpuKnows(c)'
    PROVE  Maps'
<1>1. OneJoins'
  BY DEF Maps, OneJoins
<1>2. KmList'
  BY DEF Maps, KmList
<1>3. Totals'
  <2>1. Capacity(sticks[KM])' = Capacity(sticks[KM])
    BY DEF Capacity, cursor
  <2> QED BY <2>1 DEF Maps, Totals
<1>4. CpuLists'
  <2>1. \A d \in Cpu : cpuAt'[d] # "off" <=> cpuAt[d] # "off"
    OBVIOUS
  <2> QED BY <2>1 DEF Maps, CpuLists, Distinct, In
<1>5. ASSUME NEW d \in Cpu, d # c PROVE CpuKnows(d)'
  <2>1. Owed(d)' <=> Owed(d)
    BY DEF Owed
  <2>2. Told(d)' = Told(d)
    BY <2>1 DEF Told
  <2>3. CpuKnows(d)
    BY DEF Maps
  <2> QED BY <1>5, <2>2, <2>3 DEF CpuKnows
<1> QED BY <1>1, <1>2, <1>3, <1>4, <1>5 DEF Maps

\* ... and the credentials, which are all of Kernel Memory's list.
LEMMA MapsSendList ==
    ASSUME TypeInv, Maps, NEW c \in Cpu, send_credentials_list(c)
    PROVE  Maps'
<1> DEFINE L == sticks[KM]
           m == [op |-> "PACKAGE", list |-> creds]
<1>1. /\ cpuAt[c] = "listed" /\ cpuAt' = [cpuAt EXCEPT ![c] = "starting"]
      /\ chan' = [chan EXCEPT ![c] = Append(@, m)]
      /\ UNCHANGED <<join, todo, total, creds, list_cpu, sticks>>
  BY DEF send_credentials_list
<1>2. /\ cpuAt'[c] = "starting" /\ \A d \in Cpu : d # c => cpuAt'[d] = cpuAt[d]
      /\ chan'[c] = Append(chan[c], m) /\ \A d \in Cpu : d # c => chan'[d] = chan[d]
  BY <1>1 DEF TypeInv, Joins, JoinTypes
<1>3. L = creds /\ ~Owed(c) /\ L \in Seq(Stick)
  <2>1. \A s \in Stick : join[s] \notin Mid
    BY <1>1 DEF Maps, OneJoins
  <2> QED BY <2>1, NobodyJoins DEF TypeInv, ListTypes, Client
<1>4. sticks[c] = <<>> /\ chan[c] = <<>>
  BY <1>1 DEF Maps, CpuKnows
<1>5. chan'[c] = <<m>> /\ m.op = "PACKAGE" /\ m.list = L
  BY <1>2, <1>3, <1>4
<1> HIDE DEF m
<1>6. chan'[c] # <<>> /\ Head(chan'[c]) = m /\ Tail(chan'[c]) = <<>>
  BY <1>5
<1>7. Told(c)' = Len(L)
  <2>1. ~Owed(c)'
    BY <1>1, <1>3 DEF Owed
  <2> QED BY <1>1, <2>1 DEF Told
<1>8. Continues(L, L, <<>>, Len(L))
  BY <1>3 DEF Continues, Prefix
<1>9. CpuKnows(c)'
  BY <1>1, <1>2, <1>4, <1>5, <1>6, <1>7, <1>8 DEF CpuKnows
<1> QED BY <1>1, <1>2, <1>9, MapsOneCpu

\* The CPU takes the list, ...
LEMMA MapsConnect ==
    ASSUME TypeInv, Maps, ~corrupted, NEW c \in Cpu, connect_kernel_memory(c)
    PROVE  Maps'
<1> DEFINE L == sticks[KM]
           m == Head(chan[c])
<1>1. cpuAt[c] = "starting" /\ chan[c] # <<>> /\ chan[c] \in Seq(Credentials)
  <2>1. cpuAt[c] \in {"listed", "starting"} /\ chan[c] # <<>>
    BY DEF connect_kernel_memory
  <2>2. chan[c] \in Seq(Credentials)
    BY DEF TypeInv, Joins, JoinTypes
  <2> QED BY <2>1, <2>2 DEF Maps, CpuKnows
<1>2. /\ m.op = "PACKAGE" /\ m \in Credentials /\ sticks[c] = <<>>
      /\ Continues(L, m.list, Tail(chan[c]), Told(c))
  BY <1>1 DEF Maps, CpuKnows
<1> HIDE DEF m
<1>3. \A i \in DOMAIN m.list : alive[m.list[i]]
  <2>1. m.list \in Seq(Stick)
    BY <1>2 DEF Credentials
  <2> QED BY <2>1 DEF corrupted
<1>4. /\ cpuAt' = [cpuAt EXCEPT ![c] = "connected"]
      /\ sticks' = [sticks EXCEPT ![c] = m.list]
      /\ chan' = [chan EXCEPT ![c] = Tail(@)]
      /\ UNCHANGED <<join, todo, total, creds, list_cpu>>
  BY <1>2, <1>3 DEF connect_kernel_memory, m
<1>5. c # KM /\ c \in Client /\ KM \in Client
  BY SticksAssumption DEF Client
<1>6. /\ cpuAt'[c] = "connected" /\ \A d \in Cpu : d # c => cpuAt'[d] = cpuAt[d]
      /\ chan'[c] = Tail(chan[c]) /\ \A d \in Cpu : d # c => chan'[d] = chan[d]
      /\ sticks'[c] = m.list /\ \A d \in Client : d # c => sticks'[d] = sticks[d]
  BY <1>4, <1>5 DEF TypeInv, Joins, JoinTypes, ListTypes
<1>7. Told(c)' = Told(c) /\ sticks'[KM] = L
  <2>1. Owed(c)' <=> Owed(c)
    BY <1>4 DEF Owed
  <2> QED BY <1>5, <1>6, <2>1 DEF Told
<1>8. Continues(sticks'[KM], sticks'[c], chan'[c], Told(c)')
  BY <1>2, <1>6, <1>7
<1>9. CpuKnows(c)'
  BY <1>6, <1>8 DEF CpuKnows
<1>10. \A d \in Cpu : d # c => sticks'[d] = sticks[d]
  BY <1>6 DEF Client
<1> QED BY <1>1, <1>4, <1>6, <1>7, <1>9, <1>10, MapsOneCpu

\* ... and each update, in the order in which Kernel Memory listed them.
LEMMA MapsReceive ==
    ASSUME TypeInv, Maps, ~corrupted, NEW c \in Cpu, ReceiveUpdate(c)
    PROVE  Maps'
<1> DEFINE L == sticks[KM]
           q == sticks[c]
           u == chan[c]
           s == L[Len(q) + 1]
<1>1. c # KM /\ c \in Client /\ KM \in Client
  BY SticksAssumption DEF Client
<1>2. L \in Seq(Stick) /\ q \in Seq(Stick) /\ u \in Seq(Credentials)
  BY <1>1 DEF TypeInv, Joins, JoinTypes, ListTypes
<1>3. cpuAt[c] = "connected" /\ u # <<>>
  BY DEF ReceiveUpdate
<1>4. Continues(L, q, u, Told(c)) /\ Told(c) <= Len(L)
  <2>1. Len(L) \in Nat
    BY <1>2
  <2> QED BY <1>3, <2>1 DEF Maps, CpuKnows, Told
<1>5. Head(u) = Update(s) /\ s \in Stick /\ Continues(L, Append(q, s), Tail(u), Told(c))
  <2> HIDE DEF L, q, u
  <2> QED BY <1>2, <1>3, <1>4, ContinuesReceived
<1>6. Head(Head(u).list) = s /\ alive[s]
  <2> HIDE DEF s
  <2> QED BY <1>5 DEF Update, corrupted
<1>7. /\ sticks' = [sticks EXCEPT ![c] = Append(q, s)]
      /\ chan' = [chan EXCEPT ![c] = Tail(u)]
      /\ UNCHANGED <<join, todo, total, creds, list_cpu, cpuAt>>
  BY <1>6 DEF ReceiveUpdate
<1>8. /\ chan'[c] = Tail(u) /\ \A d \in Cpu : d # c => chan'[d] = chan[d]
      /\ sticks'[c] = Append(q, s) /\ \A d \in Client : d # c => sticks'[d] = sticks[d]
  BY <1>1, <1>7 DEF TypeInv, Joins, JoinTypes, ListTypes
<1>9. Told(c)' = Told(c) /\ sticks'[KM] = L
  <2>1. Owed(c)' <=> Owed(c)
    BY <1>7 DEF Owed
  <2> QED BY <1>1, <1>8, <2>1 DEF Told
<1>10. Continues(sticks'[KM], sticks'[c], chan'[c], Told(c)')
  BY <1>5, <1>8, <1>9
<1>11. CpuKnows(c)'
  BY <1>3, <1>7, <1>10 DEF CpuKnows
<1>12. \A d \in Cpu : d # c => sticks'[d] = sticks[d]
  BY <1>8 DEF Client
<1> QED BY <1>3, <1>7, <1>8, <1>9, <1>11, <1>12, MapsOneCpu

\* A Memory Stick that is lost stays lost.
LEMMA CorruptedStays ==
    ASSUME TypeInv, [Next]_vars, corrupted
    PROVE  corrupted'
<1>1. PICK s \in Stick : ~alive[s]
  BY DEF corrupted
<1>2. ASSUME NEW t \in Stick, StickStops(t) PROVE ~alive'[s]
  BY <1>1, <1>2 DEF StickStops, TypeInv, Accesses, AccessTypes
<1>3. alive' = alive \/ \E t \in Stick : StickStops(t)
  <2>1. ASSUME NEW t \in Stick, memory_stick_protocol(t) \/ KmLosesStick(t) \/ ReportCorruption(t)
        PROVE  alive' = alive
    BY <2>1 DEF memory_stick_protocol, join_goes_on, ReceiveSize, ListStick, ListCredentials, update_cpu_list,
                send_credentials, KmLosesStick, ReportCorruption
  <2>2. ASSUME NEW c \in Cpu,
               \/ ListCpu(c) \/ send_credentials_list(c) \/ connect_kernel_memory(c) \/ ReceiveUpdate(c)
               \/ CpuBegin(c) \/ CpuResponse(c) \/ \E t \in Stick : CpuLosesStick(c, t)
        PROVE  alive' = alive
    BY <2>2 DEF ListCpu, send_credentials_list, connect_kernel_memory, ReceiveUpdate, CpuBegin, Begin,
                CpuResponse, CpuLosesStick
  <2>3. ASSUME NEW c \in Client, memory_access(c) \/ handle_read(c) \/ handle_write(c)
        PROVE  alive' = alive
    BY <2>3 DEF memory_access, NextChunk, TakeResponse, handle_read, handle_write
  <2>4. KmBegin \/ KmResponse \/ UNCHANGED vars => alive' = alive
    BY DEF KmBegin, Begin, KmResponse, vars
  <2> QED BY <2>1, <2>2, <2>3, <2>4 DEF Next
<1> QED BY <1>1, <1>2, <1>3 DEF corrupted

\* An answer reaches memory_stick_handler when the Memory Stick has joined.
LEMMA AnswerRead ==
    ASSUME PromptCredentials, TypeInv, KmResponse
    PROVE  join[net[KM].stick] = "joined" /\ UNCHANGED joining
<1>1. join[net[KM].stick] = "joined"
  BY DEF KmResponse, Reads
<1>2. join' = join
  BY <1>1 DEF KmResponse, TypeInv, Joins, JoinTypes
<1> QED BY <1>1, <1>2 DEF KmResponse, joining

\* Until one is lost, every step keeps the lists in agreement.
LEMMA MapsStep ==
    ASSUME SerialJoin, PromptCredentials, TypeInv, Maps, [Next]_vars, ~corrupted, ~corrupted'
    PROVE  Maps'
<1>1. ASSUME NEW s \in Stick,
             memory_stick_protocol(s) \/ StickStops(s) \/ KmLosesStick(s) \/ ReportCorruption(s)
      PROVE  Maps'
  <2>1. CASE memory_stick_protocol(s)
    BY <2>1, MapsReceiveSize, MapsListStick, MapsListCredentials, MapsUpdate,
        MapsSend, MapsJoined
       DEF memory_stick_protocol, join_goes_on
  <2>2. CASE StickStops(s)
    BY <2>2 DEF StickStops, corrupted, TypeInv, Accesses, AccessTypes
  <2>3. CASE KmLosesStick(s)
    BY <2>3 DEF KmLosesStick, corrupted
  <2>4. CASE ReportCorruption(s)
    BY <2>4 DEF ReportCorruption, Maps, KmList
  <2> QED BY <1>1, <2>1, <2>2, <2>3, <2>4
<1>2. ASSUME NEW c \in Cpu,
             ListCpu(c) \/ send_credentials_list(c) \/ connect_kernel_memory(c) \/ ReceiveUpdate(c)
      PROVE  Maps'
  BY <1>2, MapsListCpu, MapsSendList, MapsConnect, MapsReceive
<1>3. ASSUME NEW c \in Cpu, NEW s \in Stick, CpuLosesStick(c, s) PROVE Maps'
  BY <1>3 DEF CpuLosesStick, corrupted
<1>4. ASSUME NEW c \in Cpu, CpuBegin(c) \/ CpuResponse(c) PROVE Maps'
  BY <1>4, MapsFrame DEF CpuBegin, Begin, CpuResponse
<1>5. CASE KmBegin \/ KmResponse
  BY <1>5, MapsFrame, AnswerRead DEF KmBegin, Begin, KmResponse
<1>6. ASSUME NEW c \in Client, memory_access(c) \/ handle_read(c) \/ handle_write(c) PROVE Maps'
  BY <1>6, MapsFrame DEF memory_access, NextChunk, TakeResponse, handle_read,
      handle_write
<1>7. CASE UNCHANGED vars
  BY <1>7, MapsFrame DEF vars
<1> QED BY <1>1, <1>2, <1>3, <1>4, <1>5, <1>6, <1>7 DEF Next

\* The inductive invariant behind AddressMapsAgree.
MapsInv == corrupted \/ Maps

\* It says what the property says.
LEMMA MapsAgree ==
    ASSUME TypeInv, MapsInv
    PROVE  AddressMapsAgree
<1> DEFINE L == sticks[KM]
<1> SUFFICES ASSUME ~corrupted
             PROVE  /\ \A c \in Cpu : Prefix(sticks[c], L)
                    /\ \A c \in Cpu : cpuAt[c] = "connected" /\ Quiet =>
                          Len(sticks[c]) + Len(chan[c]) = Len(L)
                    /\ total >= Capacity(L)
                    /\ Quiet => total = Capacity(L)
  BY DEF AddressMapsAgree
<1>0. Maps
  BY DEF MapsInv
<1>1. ASSUME NEW c \in Cpu PROVE Prefix(sticks[c], L)
  <2>1. CpuKnows(c) /\ L \in Seq(Stick)
    BY <1>0 DEF Maps, TypeInv, ListTypes, Client
  <2>2. sticks[c] = <<>> \/ Continues(L, sticks[c], chan[c], Told(c))
    BY <2>1 DEF CpuKnows, TypeInv, Joins, JoinTypes
  <2>3. CASE sticks[c] = <<>>
    <3>1. Len(L) \in Nat /\ Len(sticks[c]) = 0 /\ DOMAIN sticks[c] = {}
      BY <2>1, <2>3
    <3> QED BY <3>1 DEF Prefix
  <2> QED BY <2>2, <2>3 DEF Continues
<1>2. ASSUME Quiet PROVE \A s \in Stick : join[s] \notin Mid
  BY <1>2 DEF Quiet, Mid
<1>3. ASSUME NEW c \in Cpu, cpuAt[c] = "connected", Quiet
      PROVE  Len(sticks[c]) + Len(chan[c]) = Len(L)
  <2>1. Told(c) = Len(L)
    BY <1>0, <1>2, <1>3, NobodyJoins DEF Told
  <2> QED BY <1>0, <1>3, <2>1 DEF Maps, CpuKnows, Continues
<1>4. Capacity(L) \in Nat
  BY CursorNat DEF Capacity, TypeInv, ListTypes, Client
<1>5. total >= Capacity(L)
  <2>1. CASE \E s \in Stick : join[s] = "sized"
    <3>1. PICK s \in Stick : join[s] = "sized"
      BY <2>1
    <3>2. total = Capacity(L) + Size[s] /\ Size[s] \in Nat
      BY <1>0, <3>1, SticksAssumption DEF Maps, Totals
    <3> QED BY <1>4, <3>2
  <2>2. CASE \A s \in Stick : join[s] # "sized"
    BY <1>0, <1>4, <2>2 DEF Maps, Totals
  <2> QED BY <2>1, <2>2
<1>6. Quiet => total = Capacity(L)
  BY <1>0, <1>2 DEF Maps, Totals, Mid
<1> QED BY <1>1, <1>3, <1>5, <1>6

\* It holds of every behaviour in which one joins at a time, credentials first.
LEMMA MapsInvTheorem ==
    ASSUME SerialJoin, PromptCredentials
    PROVE  Spec => []MapsInv
<1>1. Init => MapsInv
  BY MapsInit DEF MapsInv
<1>2. TypeInv /\ MapsInv /\ [Next]_vars => MapsInv'
  BY CorruptedStays, MapsStep DEF MapsInv
<1> QED BY <1>1, <1>2, TypeInvTheorem, PTL DEF Spec

\* memory_stick_protocol, update_cpu_list, send_credentials and kernel_memory_handler:
\* for any number of Memory Sticks and CPUs of any sizes, in any order of arrival, the
\* CPUs resolve addresses by a prefix of Kernel Memory's list, if one joins at a time
\* and sends its credentials before its first answer.
THEOREM MapsTheorem ==
    ASSUME SerialJoin, PromptCredentials
    PROVE  Spec => []AddressMapsAgree
<1>1. TypeInv /\ MapsInv => AddressMapsAgree
  BY MapsAgree
<1> QED BY <1>1, TypeInvTheorem, MapsInvTheorem, PTL

-----------------------------------------------------------------------------
(* One memory.                                                             *)

\* The contents m of the Memory Sticks, in the order of q.
Bytes(q, m) ==
    [i \in 1 .. Capacity(q) |->
        LET ms == get_memory_stick_by_address(q, i - 1) IN m[ms.stick][ms.offset]]

\* The byte at an address is that of the Memory Stick that has the address.
LEMMA ByteHeld ==
    ASSUME NEW q \in Seq(Stick), NEW m, NEW a \in Nat, NEW k, Holds(q, k, a)
    PROVE  a + 1 \in 1 .. Capacity(q) /\ Bytes(q, m)[a + 1] = m[q[k]][a - cursor(q)[k]]
<1>1. Capacity(q) \in Nat
  BY CursorNat DEF Capacity
<1>2. a + 1 \in 1 .. Capacity(q) /\ (a + 1) - 1 = a
  BY <1>1, HoldsBelow
<1>3. get_memory_stick_by_address(q, a) = [stick |-> q[k], offset |-> a - cursor(q)[k]]
  BY LocatedAt
<1>4. Bytes(q, m)[a + 1] = m[get_memory_stick_by_address(q, a).stick]
                            [get_memory_stick_by_address(q, a).offset]
  BY <1>2 DEF Bytes
<1> QED BY <1>2, <1>3, <1>4

\* Each address below the capacity is in a Memory Stick.
LEMMA ByteOf ==
    ASSUME NEW q \in Seq(Stick), NEW i \in 1 .. Capacity(q)
    PROVE  i - 1 \in Nat /\ \E k \in 1 .. Len(q) : Holds(q, k, i - 1)
<1>1. Capacity(q) \in Nat
  BY CursorNat DEF Capacity
<1>2. i - 1 \in Nat /\ ~(i - 1 >= Capacity(q))
  BY <1>1
<1>3. PICK a \in Nat : a = i - 1
  BY <1>2
<1>4. \E k \in 1 .. Len(q) : Holds(q, k, a)
  BY <1>2, <1>3, Located
<1> QED BY <1>3, <1>4

\* An address is at an offset of the Memory Stick that has it.
LEMMA HoldsInList ==
    ASSUME NEW q \in Seq(Stick), NEW k, NEW a \in Nat, Holds(q, k, a)
    PROVE  k \in 1 .. Len(q) /\ q[k] \in Stick /\ cursor(q)[k] \in Nat
           /\ a - cursor(q)[k] \in 0 .. Size[q[k]] - 1
<1>1. k \in 1 .. Len(q) /\ k \in 1 .. Len(q) + 1
  BY DEF Holds
<1>2. q[k] \in Stick /\ cursor(q)[k] \in Nat
  BY <1>1, CursorNat
<1>3. Size[q[k]] \in Nat
  BY <1>2, SticksAssumption
<1> QED BY <1>1, <1>2, <1>3 DEF Holds

\* The one memory is a sequence of bytes.
LEMMA BytesTyped ==
    ASSUME NEW q \in Seq(Stick), NEW m, \A s \in Stick : m[s] \in [0 .. Size[s] - 1 -> Byte]
    PROVE  /\ Capacity(q) \in Nat /\ Bytes(q, m) \in Seq(Byte) /\ Len(Bytes(q, m)) = Capacity(q)
           /\ Bytes(q, m) = [i \in 1 .. Capacity(q) |-> Bytes(q, m)[i]]
<1>1. Capacity(q) \in Nat
  BY CursorNat DEF Capacity
<1>2. ASSUME NEW i \in 1 .. Capacity(q) PROVE Bytes(q, m)[i] \in Byte
  <2>1. PICK a \in Nat, k \in 1 .. Len(q) : a = i - 1 /\ Holds(q, k, a)
    BY ByteOf
  <2>2. a + 1 = i
    BY <1>1, <2>1
  <2>3. Bytes(q, m)[i] = m[q[k]][a - cursor(q)[k]]
    BY <2>1, <2>2, ByteHeld
  <2>4. q[k] \in Stick /\ a - cursor(q)[k] \in 0 .. Size[q[k]] - 1
    BY <2>1, HoldsInList
  <2> QED BY <2>3, <2>4
<1>3. Bytes(q, m) = [i \in 1 .. Capacity(q) |-> Bytes(q, m)[i]]
  BY DEF Bytes
<1> DEFINE b == Bytes(q, m)
<1> HIDE DEF b
<1>4. b \in Seq(Byte) /\ Len(b) = Capacity(q)
  BY <1>1, <1>2, <1>3 DEF b
<1> QED BY <1>1, <1>3, <1>4 DEF b

\* A Memory Stick that is empty adds zeroes at the end.
LEMMA BytesGrow ==
    ASSUME NEW q \in Seq(Stick), NEW s \in Stick,
           NEW m, \A t \in Stick : m[t] \in [0 .. Size[t] - 1 -> Byte],
           \A i \in 0 .. Size[s] - 1 : m[s][i] = 0
    PROVE  Bytes(Append(q, s), m) = Bytes(q, m) \o [i \in 1 .. Size[s] |-> 0]
<1> DEFINE r == Append(q, s)
           b == Bytes(q, m)
           e == Bytes(r, m)
           z == [i \in 1 .. Size[s] |-> 0]
<1>1. r \in Seq(Stick) /\ Len(r) = Len(q) + 1 /\ Prefix(q, r) /\ r[Len(q) + 1] = s /\ Len(q) \in Nat
  BY DEF Prefix
<1>2. Capacity(r) = Capacity(q) + Size[s] /\ Size[s] \in Nat
  BY CapacityAppend, SticksAssumption
<1> HIDE DEF r
<1>3. /\ Capacity(q) \in Nat /\ b \in Seq(Byte) /\ Len(b) = Capacity(q)
      /\ b = [i \in 1 .. Capacity(q) |-> b[i]]
  BY BytesTyped
<1>4. e \in Seq(Byte) /\ Len(e) = Capacity(r) /\ e = [i \in 1 .. Capacity(r) |-> e[i]]
  BY <1>1, BytesTyped
<1>5. z \in Seq(Byte) /\ Len(z) = Size[s] /\ \A i \in 1 .. Size[s] : z[i] = 0
  <2>1. 0 \in Byte
    BY SticksAssumption
  <2>2. PICK n \in Nat : n = Size[s]
    BY <1>2
  <2>3. [i \in 1 .. n |-> 0] \in Seq(Byte) /\ Len([i \in 1 .. n |-> 0]) = n
    BY <2>1
  <2> QED BY <2>2, <2>3
<1>6. cursor(r)[Len(q) + 1] = Capacity(q)
  BY <1>1, CursorAgrees DEF Capacity
<1>7. ASSUME NEW i \in 1 .. Capacity(q) PROVE e[i] = b[i]
  <2>1. PICK a \in Nat, k \in 1 .. Len(q) : a = i - 1 /\ Holds(q, k, a)
    BY ByteOf
  <2>2. a + 1 = i
    BY <1>3, <2>1
  <2>3. Holds(r, k, a) /\ r[k] = q[k] /\ cursor(r)[k] = cursor(q)[k]
    BY <1>1, <2>1, HoldsInPrefix
  <2>4. b[a + 1] = m[q[k]][a - cursor(q)[k]]
    <3>1. Holds(q, k, a)
      BY <2>1
    <3> QED BY ONLY <3>1, q \in Seq(Stick), a \in Nat, ByteHeld
  <2>5. e[a + 1] = m[r[k]][a - cursor(r)[k]]
    BY <1>1, <2>3, ByteHeld
  <2> QED BY <2>2, <2>3, <2>4, <2>5
<1>8. ASSUME NEW i \in Capacity(q) + 1 .. Capacity(q) + Size[s] PROVE e[i] = 0
  <2>1. PICK a \in Nat : a = i - 1 /\ a + 1 = i
    BY <1>2, <1>3
  <2> DEFINE k == Len(q) + 1
  <2>2. Holds(r, k, a)
    <3>1. k \in 1 .. Len(r)
      BY <1>1
    <3>2. Capacity(q) <= a /\ a < Capacity(q) + Size[s]
      BY <1>2, <1>3, <2>1
    <3> QED BY <1>1, <1>6, <3>1, <3>2 DEF Holds
  <2>3. e[a + 1] = m[r[k]][a - cursor(r)[k]]
    BY <1>1, <2>2, ByteHeld
  <2>4. a - Capacity(q) \in 0 .. Size[s] - 1
    BY <1>2, <1>3, <2>1
  <2> QED BY <1>1, <1>6, <2>1, <2>3, <2>4
<1> HIDE DEF b, e, z
<1>9. b \o z = [i \in 1 .. Len(b) + Len(z) |-> IF i <= Len(b) THEN b[i] ELSE z[i - Len(b)]]
  BY <1>3, <1>5
<1>10. ASSUME NEW i \in 1 .. Capacity(r)
       PROVE  e[i] = IF i <= Len(b) THEN b[i] ELSE z[i - Len(b)]
  <2>1. CASE i <= Len(b)
    <3>1. i \in 1 .. Capacity(q)
      BY <1>2, <1>3, <2>1
    <3> QED BY <1>7, <2>1, <3>1
  <2>2. CASE ~(i <= Len(b))
    <3>1. i \in Capacity(q) + 1 .. Capacity(q) + Size[s] /\ i - Len(b) \in 1 .. Size[s]
      BY <1>2, <1>3, <2>2
    <3> QED BY <1>5, <1>8, <2>2, <3>1
  <2> QED BY <2>1, <2>2
<1>11. Len(b) + Len(z) = Capacity(r)
  BY <1>2, <1>3, <1>5
<1>12. e = b \o z
  BY <1>4, <1>9, <1>10, <1>11
<1> QED BY <1>12 DEF b, e, z, r

\* A Memory Stick that is not listed has not been written to.
Fresh ==
    \A s \in Stick : (\A i \in 1 .. Len(sticks[KM]) : sticks[KM][i] # s) =>
        \A i \in 0 .. Size[s] - 1 : mem[s][i] = 0

\* A message is for the Memory Stick, of the client's list, that has the next address.
PlacedAt(i, q, a, m) == q[i] = m.stick /\ cursor(q)[i] + m.offset = a.addr + a.done
Placed(c) ==
    net[c].at # "none" => \E i \in 1 .. Len(sticks[c]) : PlacedAt(i, sticks[c], acc[c], net[c])

OneMemory == Fresh /\ \A c \in Client : Placed(c)

\* Every Memory Stick is fresh at first.
LEMMA OneMemoryInit == Init => OneMemory
<1> SUFFICES ASSUME Init PROVE OneMemory
  OBVIOUS
<1>1. Fresh
  <2> SUFFICES ASSUME NEW s \in Stick, NEW i \in 0 .. Size[s] - 1 PROVE mem[s][i] = 0
    BY DEF Fresh
  <2> QED BY DEF Init
<1>2. \A c \in Client : Placed(c)
  BY DEF Init, Placed, NoMessage
<1> QED BY <1>1, <1>2 DEF OneMemory

\* The message keeps its place when the list grows.
LEMMA PlacedGrows ==
    ASSUME TypeInv, NEW c \in Client, Placed(c), net'[c] = net[c], acc'[c] = acc[c],
           sticks'[c] \in Seq(Stick), Prefix(sticks[c], sticks'[c])
    PROVE  Placed(c)'
<1> SUFFICES ASSUME net[c].at # "none"
             PROVE  \E i \in 1 .. Len(sticks'[c]) : PlacedAt(i, sticks'[c], acc[c], net[c])
  BY DEF Placed, PlacedAt
<1>1. PICK q \in Seq(Stick), r \in Seq(Stick) : q = sticks[c] /\ r = sticks'[c] /\ Prefix(q, r)
  BY DEF TypeInv, ListTypes
<1>2. PICK i \in 1 .. Len(q) : PlacedAt(i, q, acc[c], net[c])
  BY <1>1 DEF Placed
<1>3. i \in 1 .. Len(r) /\ i \in 1 .. Len(q) + 1 /\ r[i] = q[i]
  BY <1>1 DEF Prefix
<1>4. cursor(r)[i] = cursor(q)[i]
  BY <1>1, <1>3, CursorAgrees
<1> QED BY <1>1, <1>2, <1>3, <1>4 DEF PlacedAt

\* What a list is a prefix of.
LEMMA PrefixSelf ==
    ASSUME NEW q \in Seq(Stick)
    PROVE  Prefix(q, q) /\ Prefix(<<>>, q) /\ \A s \in Stick : Prefix(q, Append(q, s))
BY DEF Prefix

\* A longer list has more memory.
LEMMA CapacityGrows ==
    ASSUME NEW q \in Seq(Stick), NEW r \in Seq(Stick), Prefix(q, r)
    PROVE  Capacity(q) \in Nat /\ Capacity(r) \in Nat /\ Capacity(q) <= Capacity(r)
<1>1. Len(q) + 1 \in 1 .. Len(q) + 1 /\ Len(q) + 1 \in 1 .. Len(r) + 1 /\ Len(q) \in Nat /\ Len(r) \in Nat
  BY DEF Prefix
<1>2. Capacity(q) = cursor(r)[Len(q) + 1] /\ Capacity(q) \in Nat /\ Capacity(r) \in Nat
  BY <1>1, CursorAgrees, CursorNat DEF Capacity
<1>3. CASE Len(q) = Len(r)
  BY <1>2, <1>3 DEF Capacity
<1>4. CASE Len(q) # Len(r)
  <2>1. Len(q) + 1 \in 1 .. Len(r) /\ Len(r) + 1 \in (Len(q) + 1) + 1 .. Len(r) + 1
    BY <1>1, <1>4
  <2>2. cursor(r)[Len(q) + 1] + Size[r[Len(q) + 1]] <= Capacity(r)
    BY <2>1, CursorGrows DEF Capacity
  <2>3. Size[r[Len(q) + 1]] \in Nat
    BY <2>1, SticksAssumption
  <2> QED BY <1>2, <2>2, <2>3
<1> QED BY <1>3, <1>4

-----------------------------------------------------------------------------
(* The steps of the one memory.                                            *)

\* The refinement mapping, in terms of Kernel Memory's list, ...
LEMMA FlatBytesIs ==
    FlatBytes = Bytes(sticks[KM], mem) /\ FlatBytes' = Bytes(sticks'[KM], mem')
BY DEF FlatBytes, Bytes

\* ... of each access, ...
LEMMA FlatOpFrame ==
    ASSUME NEW c \in Client, acc'[c] = acc[c], net'[c] = net[c]
    PROVE  FlatOp(c)' = FlatOp(c)
BY DEF FlatOp

\* ... and what leaves it as it is.
LEMMA FlatStutters ==
    ASSUME UNCHANGED <<sticks, alive, mem>>, \A c \in Client : FlatOp(c)' = FlatOp(c)
    PROVE  UNCHANGED Flat!vars
<1>1. FlatBytes' = FlatBytes
  BY FlatBytesIs
<1>2. [c \in Client |-> Capacity(sticks[c])]' = [c \in Client |-> Capacity(sticks[c])]
  BY DEF Capacity, cursor
<1>3. [c \in Client |-> FlatOp(c)]' = [c \in Client |-> FlatOp(c)]
  OBVIOUS
<1>4. corrupted' = corrupted
  BY DEF corrupted
<1> QED BY <1>1, <1>2, <1>3, <1>4 DEF Flat!vars

\* Steps that touch neither lists nor accesses.
LEMMA FlatJoins ==
    ASSUME TypeInv, OneMemory, UNCHANGED <<sticks, alive, mem, acc, net>>
    PROVE  UNCHANGED Flat!vars /\ OneMemory'
<1>1. UNCHANGED Flat!vars
  BY FlatStutters, FlatOpFrame
<1>2. Fresh'
  BY DEF OneMemory, Fresh
<1>3. \A c \in Client : Placed(c)'
  BY DEF OneMemory, Placed, PlacedAt, cursor
<1> QED BY <1>1, <1>2, <1>3 DEF OneMemory

\* ListStick: memory grows at its end.
LEMMA FlatListStick ==
    ASSUME TypeInv, Maps, ~corrupted, OneMemory, NEW s \in Stick, ListStick(s)
    PROVE  Flat!Grow /\ OneMemory'
<1> DEFINE L == sticks[KM]
           M == Append(L, s)
<1>1. /\ sticks' = [sticks EXCEPT ![KM] = M] /\ join[s] = "sized"
      /\ UNCHANGED <<alive, mem, acc, net>>
  BY DEF ListStick
<1>2. KM \in Client /\ L \in Seq(Stick) /\ M \in Seq(Stick) /\ Prefix(L, M)
  BY PrefixSelf DEF TypeInv, ListTypes, Client
<1>3. sticks'[KM] = M /\ \A c \in Client : c # KM => sticks'[c] = sticks[c]
  BY <1>1, <1>2 DEF TypeInv, ListTypes
<1>4. \A t \in Stick : mem[t] \in [0 .. Size[t] - 1 -> Byte]
  BY DEF TypeInv, Accesses, AccessTypes
<1>5. \A i \in 0 .. Size[s] - 1 : mem[s][i] = 0
  <2>1. \A i \in 1 .. Len(L) : L[i] # s
    BY <1>1 DEF Maps, KmList
  <2> QED BY <2>1 DEF OneMemory, Fresh
<1>6. FlatBytes' = FlatBytes \o [i \in 1 .. Size[s] |-> 0]
  <2>1. FlatBytes' = Bytes(M, mem)
    BY <1>1, <1>3, FlatBytesIs
  <2>2. Bytes(M, mem) = Bytes(L, mem) \o [i \in 1 .. Size[s] |-> 0]
    BY <1>2, <1>4, <1>5, BytesGrow
  <2> QED BY <2>1, <2>2, FlatBytesIs
<1>7. Len(FlatBytes') = Capacity(M)
  <2>1. FlatBytes' = Bytes(M, mem)
    BY <1>1, <1>3, FlatBytesIs
  <2> QED BY <1>2, <1>4, <2>1, BytesTyped
<1> HIDE DEF M
<1>8. ASSUME NEW c \in Client
      PROVE  /\ sticks[c] \in Seq(Stick) /\ sticks'[c] \in Seq(Stick)
             /\ Prefix(sticks[c], sticks'[c]) /\ Prefix(sticks'[c], M)
  <2>1. CASE c = KM
    BY <1>2, <1>3, <2>1, PrefixSelf
  <2>2. CASE c # KM
    <3>1. c \in Cpu /\ sticks[c] \in Seq(Stick) /\ sticks'[c] = sticks[c]
      BY <1>3, <2>2 DEF Client, TypeInv, ListTypes
    <3>2. Prefix(sticks[c], L)
      BY <3>1, MapsAgree DEF MapsInv, AddressMapsAgree
    <3>3. Prefix(sticks[c], M)
      BY <1>2, <3>1, <3>2 DEF Prefix
    <3> QED BY <3>1, <3>3, PrefixSelf
  <2> QED BY <2>1, <2>2
<1>9. \A c \in Client : Capacity(sticks'[c]) \in Capacity(sticks[c]) .. Len(FlatBytes')
  <2> SUFFICES ASSUME NEW c \in Client
               PROVE  Capacity(sticks'[c]) \in Capacity(sticks[c]) .. Capacity(M)
    BY <1>7
  <2> QED BY <1>2, <1>8, CapacityGrows
<1>10. \A c \in Client : [d \in Client |-> Capacity(sticks[d])]'[c] \in
                            [d \in Client |-> Capacity(sticks[d])][c] .. Len(FlatBytes')
  BY <1>9
<1>11. [c \in Client |-> FlatOp(c)]' = [c \in Client |-> FlatOp(c)]
  BY <1>1, FlatOpFrame
<1>12. corrupted' = corrupted
  BY <1>1 DEF corrupted
<1>13. Flat!Grow
  <2>1. Size[s] \in {Size[t] : t \in Stick}
    OBVIOUS
  <2> QED BY <2>1, <1>6, <1>10, <1>11, <1>12 DEF Flat!Grow
<1>14. Fresh'
  <2> SUFFICES ASSUME NEW t \in Stick, \A i \in 1 .. Len(M) : M[i] # t, NEW i \in 0 .. Size[t] - 1
               PROVE  mem[t][i] = 0
    BY <1>1, <1>3 DEF Fresh
  <2>1. \A k \in 1 .. Len(L) : L[k] # t
    BY <1>2 DEF Prefix
  <2> QED BY <2>1 DEF OneMemory, Fresh
<1>15. \A c \in Client : Placed(c)'
  BY <1>1, <1>8, PlacedGrows DEF OneMemory
<1> QED BY <1>13, <1>14, <1>15 DEF OneMemory

\* connect_kernel_memory and CREDENTIALS_UPDATE: a CPU sees more of it.
LEMMA FlatSees ==
    ASSUME TypeInv, TypeInv', OneMemory, NEW c \in Cpu,
           sticks' = [sticks EXCEPT ![c] = sticks'[c]], UNCHANGED <<alive, mem, acc, net>>,
           Prefix(sticks[c], sticks'[c]), Prefix(sticks'[c], sticks[KM])
    PROVE  Flat!See(c) /\ OneMemory'
<1> DEFINE n == Capacity(sticks'[c])
           L == sticks[KM]
<1>1. c # KM /\ c \in Client /\ KM \in Client
  BY SticksAssumption DEF Client
<1>2. /\ sticks[c] \in Seq(Stick) /\ sticks'[c] \in Seq(Stick) /\ L \in Seq(Stick)
      /\ \A d \in Client : d # c => sticks'[d] = sticks[d]
      /\ sticks'[KM] = L
  BY <1>1 DEF TypeInv, ListTypes
<1>3. Prefix(sticks'[c], L)
  OBVIOUS
<1>4. FlatBytes' = FlatBytes /\ Len(FlatBytes) = Capacity(L)
  <2>1. FlatBytes' = FlatBytes
    BY <1>2, FlatBytesIs
  <2>2. \A t \in Stick : mem[t] \in [0 .. Size[t] - 1 -> Byte]
    BY DEF TypeInv, Accesses, AccessTypes
  <2> QED BY <1>2, <2>1, <2>2, BytesTyped, FlatBytesIs
<1>5. n \in Capacity(sticks[c]) .. Len(FlatBytes)
  <2>1. Capacity(sticks[c]) \in Nat /\ n \in Nat /\ Capacity(sticks[c]) <= n
    BY <1>2, CapacityGrows
  <2>2. Capacity(L) \in Nat /\ n <= Capacity(L)
    BY <1>2, <1>3, CapacityGrows
  <2> QED BY <1>4, <2>1, <2>2
<1>6. [d \in Client |-> Capacity(sticks[d])]' = [[d \in Client |-> Capacity(sticks[d])] EXCEPT ![c] = n]
  <2>1. ASSUME NEW d \in Client
        PROVE  Capacity(sticks[d])' = IF d = c THEN n ELSE Capacity(sticks[d])
    <3>1. CASE d = c
      BY <3>1
    <3>2. CASE d # c
      BY <1>2, <3>2
    <3> QED BY <3>1, <3>2
  <2> HIDE DEF n
  <2> QED BY <1>1, <2>1
<1>7. [d \in Client |-> FlatOp(d)]' = [d \in Client |-> FlatOp(d)]
  BY FlatOpFrame
<1>8. corrupted' = corrupted
  BY DEF corrupted
<1>9. Flat!See(c)
  <2>1. n \in [d \in Client |-> Capacity(sticks[d])][c] .. Len(FlatBytes)
    BY <1>1, <1>5
  <2> HIDE DEF n
  <2> QED BY <1>4, <1>6, <1>7, <1>8, <2>1 DEF Flat!See
<1>10. Fresh'
  BY <1>2 DEF OneMemory, Fresh
<1>11. ASSUME NEW d \in Client PROVE Placed(d)'
  <2>1. sticks'[d] \in Seq(Stick) /\ Prefix(sticks[d], sticks'[d])
    BY <1>2, PrefixSelf DEF TypeInv, ListTypes
  <2> QED BY <2>1, PlacedGrows DEF OneMemory
<1> QED BY <1>9, <1>10, <1>11 DEF OneMemory

\* The list it gets is longer than the one it had and begins Kernel Memory's.
LEMMA FlatConnects ==
    ASSUME TypeInv, TypeInv', Maps, Maps', OneMemory, ~corrupted, NEW c \in Cpu,
           connect_kernel_memory(c) \/ ReceiveUpdate(c)
    PROVE  Flat!See(c) /\ OneMemory'
<1>1. c # KM /\ c \in Client /\ KM \in Client
  BY SticksAssumption DEF Client
<1>2. UNCHANGED <<alive, mem, acc, net>> /\ cpuAt[c] # "off"
  BY DEF connect_kernel_memory, ReceiveUpdate
<1>3. sticks \in [Client -> Seq(Stick)] /\ \E q : sticks' = [sticks EXCEPT ![c] = q]
  BY DEF connect_kernel_memory, ReceiveUpdate, TypeInv, ListTypes
<1>4. sticks' = [sticks EXCEPT ![c] = sticks'[c]] /\ sticks'[KM] = sticks[KM]
  BY <1>1, <1>3
<1>5. sticks'[c] \in Seq(Stick) /\ sticks[c] \in Seq(Stick)
  BY <1>1 DEF TypeInv, ListTypes
<1>6. cpuAt'[c] \notin {"off", "listed"}
  BY DEF connect_kernel_memory, ReceiveUpdate, TypeInv, Joins, JoinTypes
<1>7. cpuAt'[c] \in {"starting", "connected"}
  BY <1>6 DEF Maps, CpuKnows, TypeInv, Joins, JoinTypes
<1>8. cpuAt'[c] = "connected"
  BY <1>7 DEF connect_kernel_memory, ReceiveUpdate, TypeInv, Joins, JoinTypes
<1>9. Prefix(sticks'[c], sticks[KM])
  <2>1. CpuKnows(c)'
    BY DEF Maps
  <2> QED BY <1>4, <1>8, <2>1 DEF CpuKnows, Continues, Prefix
<1>10. Prefix(sticks[c], sticks'[c])
  <2>1. CASE connect_kernel_memory(c)
    <3>1. cpuAt[c] \in {"listed", "starting"} /\ CpuKnows(c)
      BY <2>1 DEF connect_kernel_memory, Maps
    <3>2. sticks[c] = <<>>
      BY <3>1 DEF CpuKnows
    <3> QED BY <1>5, <3>2, PrefixSelf
  <2>2. CASE ReceiveUpdate(c)
    <3>1. PICK s : sticks'[c] = Append(sticks[c], s) \/ sticks'[c] = sticks[c]
      BY <1>1, <1>3, <2>2 DEF ReceiveUpdate
    <3>2. Len(Append(sticks[c], s)) = Len(sticks[c]) + 1 /\ Len(sticks[c]) \in Nat
          /\ \A i \in DOMAIN sticks[c] : Append(sticks[c], s)[i] = sticks[c][i]
      BY <1>5
    <3> QED BY <1>5, <3>1, <3>2 DEF Prefix
  <2> QED BY <2>1, <2>2
<1> QED BY <1>2, <1>4, <1>9, <1>10, FlatSees

\* What a step of one client changes.
LEMMA ClientPlaced ==
    ASSUME TypeInv, OneMemory, NEW c \in Client, UNCHANGED sticks,
           NEW a, NEW m, acc' = [acc EXCEPT ![c] = a], net' = [net EXCEPT ![c] = m],
           m.at # "none" => \E i \in 1 .. Len(sticks[c]) : PlacedAt(i, sticks[c], a, m)
    PROVE  /\ acc'[c] = a /\ net'[c] = m
           /\ \A d \in Client : d # c => FlatOp(d)' = FlatOp(d)
           /\ \A d \in Client : Placed(d)'
<1>1. /\ acc'[c] = a /\ net'[c] = m
      /\ \A d \in Client : d # c => acc'[d] = acc[d] /\ net'[d] = net[d]
  BY DEF TypeInv, Accesses, AccessTypes
<1>2. \A d \in Client : d # c => FlatOp(d)' = FlatOp(d)
  BY <1>1, FlatOpFrame
<1>3. Placed(c)'
  <2>1. sticks'[c] = sticks[c]
    OBVIOUS
  <2> QED BY <1>1, <2>1 DEF Placed, PlacedAt
<1>4. ASSUME NEW d \in Client, d # c PROVE Placed(d)'
  <2>1. sticks'[d] \in Seq(Stick) /\ Prefix(sticks[d], sticks'[d])
    BY PrefixSelf DEF TypeInv, ListTypes
  <2> QED BY <1>1, <1>4, <2>1, PlacedGrows DEF OneMemory
<1> QED BY <1>1, <1>2, <1>3, <1>4

\* The same, of one that leaves memory alone.
LEMMA OneClient ==
    ASSUME TypeInv, OneMemory, NEW c \in Client, UNCHANGED <<sticks, mem>>,
           NEW a, NEW m, acc' = [acc EXCEPT ![c] = a], net' = [net EXCEPT ![c] = m],
           m.at # "none" => \E i \in 1 .. Len(sticks[c]) : PlacedAt(i, sticks[c], a, m)
    PROVE  /\ acc'[c] = a /\ net'[c] = m
           /\ \A d \in Client : d # c => FlatOp(d)' = FlatOp(d)
           /\ OneMemory'
<1>1. /\ acc'[c] = a /\ net'[c] = m
      /\ \A d \in Client : d # c => FlatOp(d)' = FlatOp(d)
      /\ \A d \in Client : Placed(d)'
  BY ClientPlaced
<1>2. Fresh'
  BY DEF OneMemory, Fresh
<1> QED BY <1>1, <1>2 DEF OneMemory

\* The access of one client changes, ...
LEMMA FlatOneOp ==
    ASSUME NEW c \in Client, NEW o, UNCHANGED <<sticks, alive>>,
           FlatOp(c)' = o, \A d \in Client : d # c => FlatOp(d)' = FlatOp(d)
    PROVE  /\ [d \in Client |-> FlatOp(d)]' = [[d \in Client |-> FlatOp(d)] EXCEPT ![c] = o]
           /\ [d \in Client |-> Capacity(sticks[d])]' = [d \in Client |-> Capacity(sticks[d])]
           /\ corrupted' = corrupted
<1>1. [d \in Client |-> FlatOp(d)]' = [[d \in Client |-> FlatOp(d)] EXCEPT ![c] = o]
  OBVIOUS
<1>2. [d \in Client |-> Capacity(sticks[d])]' = [d \in Client |-> Capacity(sticks[d])]
  BY DEF Capacity, cursor
<1>3. corrupted' = corrupted
  BY DEF corrupted
<1> QED BY <1>1, <1>2, <1>3

\* ... when it begins, ...
LEMMA FlatBegin ==
    ASSUME TypeInv, OneMemory, NEW c \in Client, NEW addr \in Nat, NEW size \in 1 .. MaxSize,
           Begin(c, addr, size),
           c = KM => addr \in KmRegion /\ addr .. addr + size - 1 \subseteq KmRegion,
           c # KM => \E g \in SegmentTable[c] :
                        addr \in g.base .. g.base + g.size - 1 /\ addr + size <= g.base + g.size
    PROVE  Flat!Begin(c) /\ OneMemory'
<1>1. acc[c].at # "active" /\ net[c].at = "none" /\ net[c] = NoMessage
      /\ UNCHANGED <<sticks, alive, mem, net>>
  BY AccessFacts DEF Begin, AccessInv
<1>2. PICK r : /\ acc' = [acc EXCEPT ![c] = r]
               /\ \/ r = Request("read", addr, size, <<>>)
                  \/ \E data \in Payload[size] : r = Request("write", addr, size, data)
  BY DEF Begin
<1>3. r \in FlatAccess(c)
  <2> DEFINE ranges == IF c = KM
                       THEN {x \in KmRegion \X (1 .. MaxSize) : x[1] .. x[1] + x[2] - 1 \subseteq KmRegion}
                       ELSE UNION {{x \in (g.base .. g.base + g.size - 1) \X (1 .. MaxSize) :
                                       x[1] + x[2] <= g.base + g.size} : g \in SegmentTable[c]}
             x == <<addr, size>>
  <2>1. x \in ranges
    <3>1. CASE c = KM
      BY <3>1
    <3>2. CASE c # KM
      <4>1. PICK g \in SegmentTable[c] :
               addr \in g.base .. g.base + g.size - 1 /\ addr + size <= g.base + g.size
        BY <3>2
      <4>2. x \in {y \in (g.base .. g.base + g.size - 1) \X (1 .. MaxSize) :
                      y[1] + y[2] <= g.base + g.size}
        BY <4>1
      <4> QED BY <3>2, <4>2
    <3> QED BY <3>1, <3>2
  <2>2. FlatAccess(c) = UNION {{Request("read", y[1], y[2], <<>>)}
           \cup {Request("write", y[1], y[2], data) : data \in Payload[y[2]]} : y \in ranges}
    BY DEF FlatAccess
  <2> HIDE DEF ranges
  <2>3. x[1] = addr /\ x[2] = size
    OBVIOUS
  <2> HIDE DEF x
  <2>4. r \in {Request("read", x[1], x[2], <<>>)}
              \cup {Request("write", x[1], x[2], data) : data \in Payload[x[2]]}
    BY <1>2, <2>3
  <2> QED BY <2>1, <2>2, <2>4
<1>4. net' = [net EXCEPT ![c] = NoMessage] /\ NoMessage.at = "none"
  BY <1>1, AccessFacts DEF NoMessage
<1>5. acc'[c] = r /\ net'[c] = NoMessage /\ OneMemory' /\ \A d \in Client : d # c => FlatOp(d)' = FlatOp(d)
  BY <1>1, <1>2, <1>4, OneClient
<1>6. FlatOp(c) = acc[c] /\ FlatOp(c)' = r
  BY <1>1, <1>4, <1>5 DEF FlatOp
<1>7. FlatBytes' = FlatBytes
  BY <1>1, FlatBytesIs
<1>8. Flat!Begin(c)
  BY <1>1, <1>3, <1>5, <1>6, <1>7, FlatOneOp DEF Flat!Begin
<1> QED BY <1>5, <1>8

\* ... when the loop ends or fails, or a chunk is sent, ...
LEMMA FlatNextChunk ==
    ASSUME TypeInv, OneMemory, NEW c \in Client, NextChunk(c)
    PROVE  (Flat!Finish(c) \/ UNCHANGED Flat!vars) /\ OneMemory'
<1> DEFINE x == acc[c].addr + acc[c].done
           ms == get_memory_stick_by_address(sticks[c], x)
           visible == [d \in Client |-> Capacity(sticks[d])]
<1>1. acc[c].at = "active" /\ net[c] = NoMessage /\ UNCHANGED <<sticks, alive, mem>>
  BY DEF NextChunk
<1>2. NoMessage.at = "none"
  BY DEF NoMessage
<1>3. FlatOp(c) = acc[c]
  BY <1>1, <1>2 DEF FlatOp
<1>4. FlatBytes' = FlatBytes
  BY <1>1, FlatBytesIs
<1>5. sticks[c] \in Seq(Stick) /\ x \in Nat
  BY AccessFacts DEF AccessRecords
<1>6. ASSUME NEW how \in {"done", "failed"}, Finish(c, how), UNCHANGED net,
             how = "done" => acc[c].done = acc[c].size,
             how = "failed" => x >= Capacity(sticks[c])
      PROVE  Flat!Finish(c) /\ OneMemory'
  <2> DEFINE a == [acc[c] EXCEPT !.at = how]
  <2>1. acc' = [acc EXCEPT ![c] = a] /\ net' = [net EXCEPT ![c] = NoMessage]
    BY <1>1, <1>6, AccessFacts DEF Finish
  <2>2. acc'[c] = a /\ net'[c] = NoMessage /\ OneMemory' /\ \A d \in Client : d # c => FlatOp(d)' = FlatOp(d)
    <3> HIDE DEF a
    <3> QED BY <1>1, <1>2, <2>1, OneClient
  <2>3. FlatOp(c)' = a
    BY <1>2, <2>2 DEF FlatOp
  <2> DEFINE ops == [d \in Client |-> FlatOp(d)]
  <2>4. ops' = [ops EXCEPT ![c] = a] /\ visible' = visible /\ corrupted' = corrupted
    <3> HIDE DEF a
    <3> QED BY <1>1, <2>2, <2>3, FlatOneOp
  <2>5. ops[c] = acc[c] /\ visible[c] = Capacity(sticks[c])
    BY <1>3
  <2>6. [ops EXCEPT ![c] = a] = [ops EXCEPT ![c].at = how]
    BY <2>5
  <2> HIDE DEF ops, visible
  <2>7. \/ ops[c].done = ops[c].size /\ ops' = [ops EXCEPT ![c].at = "done"]
        \/ ops[c].addr + ops[c].done >= visible[c] /\ ops' = [ops EXCEPT ![c].at = "failed"]
    BY <1>6, <2>4, <2>5, <2>6
  <2>8. Flat!Finish(c)
    BY <1>1, <1>4, <2>4, <2>5, <2>7 DEF Flat!Finish, ops, visible
  <2> QED BY <2>2, <2>8
<1>7. CASE acc[c].done = acc[c].size
  <2>1. Finish(c, "done") /\ UNCHANGED net
    BY <1>7 DEF NextChunk
  <2>2. PICK how \in {"done", "failed"} : how = "done"
    OBVIOUS
  <2> QED BY <1>6, <1>7, <2>1, <2>2
<1>8. CASE acc[c].done # acc[c].size /\ ms.stick = NoStick
  <2>1. Finish(c, "failed") /\ UNCHANGED net
    BY <1>8 DEF NextChunk
  <2>2. x >= Capacity(sticks[c])
    <3>1. ASSUME NEW i \in 1 .. Len(sticks[c]), ms = [stick |-> sticks[c][i], offset |-> x - cursor(sticks[c])[i]]
          PROVE  FALSE
      <4>1. ms.stick = sticks[c][i]
        BY <3>1
      <4> QED BY <1>5, <1>8, <4>1, SticksAssumption
    <3> HIDE DEF x
    <3> QED BY <1>5, <3>1, Located
  <2>3. PICK how \in {"done", "failed"} : how = "failed"
    OBVIOUS
  <2> QED BY <1>6, <2>1, <2>2, <2>3
<1>9. CASE acc[c].done # acc[c].size /\ ms.stick # NoStick
  <2>1. PICK i, m :
           /\ i \in 1 .. Len(sticks[c])
           /\ cursor(sticks[c])[i] + m.offset = x /\ m.stick = sticks[c][i]
           /\ m.at \in {"request", "lost"}
           /\ net' = [net EXCEPT ![c] = m] /\ UNCHANGED acc
    <3>1. PICK i \in 1 .. Len(sticks[c]), offset \in Nat, n \in Nat :
              /\ cursor(sticks[c])[i] + offset = acc[c].addr + acc[c].done
              /\ net' = [net EXCEPT ![c] =
                           [at |-> IF alive[sticks[c][i]] THEN "request" ELSE "lost",
                            stick |-> sticks[c][i], offset |-> offset, size |-> n,
                            data |-> ChunkData(acc[c], n), ok |-> TRUE]]
              /\ UNCHANGED acc
      BY <1>9, ChunkSent
    <3> DEFINE m == [at |-> IF alive[sticks[c][i]] THEN "request" ELSE "lost",
                     stick |-> sticks[c][i], offset |-> offset, size |-> n,
                     data |-> ChunkData(acc[c], n), ok |-> TRUE]
    <3>2. m.offset = offset /\ m.stick = sticks[c][i] /\ m.at \in {"request", "lost"}
      OBVIOUS
    <3>3. net' = [net EXCEPT ![c] = m]
      BY <3>1
    <3> HIDE DEF m
    <3> QED BY <3>1, <3>2, <3>3
  <2>2. PlacedAt(i, sticks[c], acc[c], m) /\ acc' = [acc EXCEPT ![c] = acc[c]]
    BY <2>1, AccessFacts DEF PlacedAt
  <2>3. acc'[c] = acc[c] /\ net'[c] = m /\ OneMemory' /\ \A d \in Client : d # c => FlatOp(d)' = FlatOp(d)
    <3>1. /\ acc' = [acc EXCEPT ![c] = acc[c]] /\ net' = [net EXCEPT ![c] = m] /\ UNCHANGED <<sticks, mem>>
          /\ \E j \in 1 .. Len(sticks[c]) : PlacedAt(j, sticks[c], acc[c], m)
      BY <1>1, <2>1, <2>2
    <3> QED BY ONLY <3>1, TypeInv, OneMemory, c \in Client, OneClient
  <2>4. FlatOp(c)' = FlatOp(c)
    BY <1>3, <2>1, <2>3 DEF FlatOp
  <2> QED BY <1>1, <2>3, <2>4, FlatStutters
<1> QED BY <1>7, <1>8, <1>9

\* ... and when an answer has arrived or is taken, which shows nothing new.
LEMMA FlatResponse ==
    ASSUME TypeInv, OneMemory, NEW c \in Client, net[c].at = "response",
           net' = [net EXCEPT ![c].at = "posted"], UNCHANGED <<sticks, alive, mem, acc>>
    PROVE  UNCHANGED Flat!vars /\ OneMemory'
<1> DEFINE m == [net[c] EXCEPT !.at = "posted"]
<1>1. net' = [net EXCEPT ![c] = m] /\ acc' = [acc EXCEPT ![c] = acc[c]]
  BY AccessFacts
<1>2. /\ m.at = "posted" /\ m.stick = net[c].stick /\ m.offset = net[c].offset
      /\ m.size = net[c].size /\ m.data = net[c].data /\ m.ok = net[c].ok
  BY AccessFacts DEF NetRecords
<1> HIDE DEF m
<1>3. \E i \in 1 .. Len(sticks[c]) : PlacedAt(i, sticks[c], acc[c], m)
  BY <1>2 DEF OneMemory, Placed, PlacedAt
<1>4. acc'[c] = acc[c] /\ net'[c] = m /\ OneMemory' /\ \A d \in Client : d # c => FlatOp(d)' = FlatOp(d)
  BY <1>1, <1>3, OneClient
<1>5. FlatOp(c)' = FlatOp(c)
  BY <1>2, <1>4 DEF FlatOp
<1> QED BY <1>4, <1>5, FlatStutters

\* TakeResponse counts what the one memory has done already.
LEMMA FlatTaken ==
    ASSUME TypeInv, OneMemory, NEW c \in Client, TakeResponse(c)
    PROVE  UNCHANGED Flat!vars /\ OneMemory'
<1> DEFINE a == [acc[c] EXCEPT !.done = @ + net[c].size, !.data = @ \o net[c].data]
<1>1. /\ acc' = [acc EXCEPT ![c] = a] /\ net' = [net EXCEPT ![c] = NoMessage]
      /\ net[c].at = "posted" /\ UNCHANGED <<sticks, alive, mem>>
  BY ResponseTaken
<1>2. net[c].ok
  BY <1>1, AccessFacts DEF AccessInv
<1>3. FlatOp(c) = a
  BY <1>1, <1>2 DEF FlatOp
<1> HIDE DEF a
<1>4. NoMessage.at = "none"
  BY DEF NoMessage
<1>5. acc'[c] = a /\ net'[c] = NoMessage /\ OneMemory' /\ \A d \in Client : d # c => FlatOp(d)' = FlatOp(d)
  BY <1>1, <1>4, OneClient
<1>6. FlatOp(c)' = FlatOp(c)
  BY <1>3, <1>4, <1>5 DEF FlatOp
<1> QED BY <1>1, <1>5, <1>6, FlatStutters

\* A part of a Memory Stick that begins at start.
LEMMA PartOf ==
    ASSUME NEW start \in Nat, NEW offset \in Nat, NEW size \in Nat, NEW n \in Nat, NEW from \in Nat,
           start + offset = from, offset + n <= size
    PROVE  /\ \A whole \in Nat : start + size <= whole => from + n <= whole
           /\ \A x \in from .. from + n - 1 : start <= x /\ x < start + size
           /\ \A x \in Nat : x - start = offset + (x - from)
OBVIOUS

\* The bytes of a request are at consecutive addresses of one Memory Stick, and the
\* client sees them.
LEMMA ChunkHeld ==
    ASSUME TypeInv, Maps, ~corrupted, OneMemory, NEW c \in Client, net[c].at = "request",
           NEW from, from = acc[c].addr + acc[c].done, NEW n, n = net[c].size
    PROVE  /\ from \in Nat /\ n \in 1 .. (acc[c].size - acc[c].done) /\ from + n <= Capacity(sticks[c])
           /\ \E k \in 1 .. Len(sticks[KM]) :
                 /\ sticks[KM][k] = net[c].stick /\ cursor(sticks[KM])[k] \in Nat
                 /\ cursor(sticks[KM])[k] + net[c].offset = from
                 /\ \A x \in from .. from + n - 1 : Holds(sticks[KM], k, x)
<1> DEFINE q == sticks[c]
           L == sticks[KM]
<1>1. /\ q \in Seq(Stick) /\ L \in Seq(Stick) /\ acc[c] \in AccessRecords /\ net[c] \in NetRecords
      /\ AccessInv(c)
  BY AccessFacts DEF TypeInv, ListTypes, Client
<1>2. /\ from \in Nat /\ n \in Nat /\ n > 0 /\ acc[c].done + n <= acc[c].size
      /\ acc[c].done \in Nat /\ acc[c].size \in Nat
  <2>1. /\ acc[c].addr \in Nat /\ acc[c].done \in Nat /\ acc[c].size \in Nat /\ n \in Nat
        /\ n > 0 /\ acc[c].done + n <= acc[c].size
    BY <1>1 DEF AccessRecords, NetRecords, AccessInv
  <2>2. from \in Nat
    BY <2>1
  <2> QED BY <2>1, <2>2
<1>3. PICK s \in Stick, offset \in Nat :
         s = net[c].stick /\ offset = net[c].offset /\ offset + n <= Size[s] /\ Size[s] \in Nat
  BY <1>1, SticksAssumption DEF NetRecords, AccessInv
<1>4. PICK k \in 1 .. Len(q) : q[k] = s /\ cursor(q)[k] + offset = from
  BY <1>3 DEF OneMemory, Placed, PlacedAt
<1>5. Prefix(q, L)
  <2>1. CASE c = KM
    BY <1>1, <2>1, PrefixSelf
  <2>2. CASE c # KM
    BY <2>2, MapsAgree DEF MapsInv, AddressMapsAgree, Client
  <2> QED BY <2>1, <2>2
<1>6. k \in 1 .. Len(q) + 1 /\ k \in 1 .. Len(L) /\ L[k] = s
  BY <1>1, <1>4, <1>5 DEF Prefix
<1>7. cursor(q)[k] \in Nat /\ cursor(L)[k] = cursor(q)[k]
  BY <1>1, <1>5, <1>6, CursorNat, CursorAgrees
<1> HIDE DEF q, L
<1>0. PICK start \in Nat, size \in Nat :
         /\ start = cursor(q)[k] /\ size = Size[s]
         /\ start + offset = from /\ offset + n <= size
  BY <1>3, <1>4, <1>7
<1>8. from + n <= Capacity(q)
  <2>1. Len(q) + 1 \in k + 1 .. Len(q) + 1
    BY <1>1, <1>4
  <2>2. cursor(q)[k] + Size[s] <= Capacity(q)
    BY <1>1, <1>4, <2>1, CursorGrows DEF Capacity
  <2>3. Capacity(q) \in Nat
    BY <1>1, CursorNat DEF Capacity
  <2>4. PICK whole \in Nat : whole = Capacity(q) /\ start + size <= whole
    BY <1>0, <2>2, <2>3
  <2>5. from + n <= whole
    <3>1. from \in Nat /\ n \in Nat
      BY <1>2
    <3> QED BY ONLY <1>0, <2>4, <3>1, start \in Nat, size \in Nat, offset \in Nat,
        PartOf
  <2> QED BY <2>4, <2>5
<1>9. ASSUME NEW x \in from .. from + n - 1 PROVE Holds(L, k, x)
  <2>1. cursor(q)[k] <= x /\ x < cursor(q)[k] + Size[s]
    <3>1. start <= x /\ x < start + size
      <4>1. from \in Nat /\ n \in Nat
        BY <1>2
      <4> QED BY ONLY <1>0, <4>1, start \in Nat, size \in Nat, offset \in Nat,
                      x \in from .. from + n - 1, PartOf
    <3> QED BY <1>0, <3>1
  <2> QED BY <1>6, <1>7, <2>1 DEF Holds
<1>10. n \in 1 .. (acc[c].size - acc[c].done)
  BY <1>2
<1>11. cursor(L)[k] + net[c].offset = from /\ L[k] = net[c].stick /\ cursor(L)[k] \in Nat
  BY <1>3, <1>4, <1>6, <1>7
<1> QED BY <1>2, <1>6, <1>8, <1>9, <1>10, <1>11 DEF q, L

\* The answer to a request: the access has done more.
LEMMA FlatAnswered ==
    ASSUME TypeInv, OneMemory, NEW c \in Client, NEW m, net[c].at = "request",
           net' = [net EXCEPT ![c] = m], UNCHANGED <<sticks, alive, acc>>,
           m.at = "response", m.ok, m.stick = net[c].stick, m.offset = net[c].offset, m.size = net[c].size
    PROVE  /\ FlatOp(c) = acc[c]
           /\ FlatOp(c)' = [acc[c] EXCEPT !.done = @ + net[c].size, !.data = @ \o m.data]
           /\ \A d \in Client : d # c => FlatOp(d)' = FlatOp(d)
           /\ \A d \in Client : Placed(d)'
<1>1. acc' = [acc EXCEPT ![c] = acc[c]]
  BY AccessFacts
<1>2. \E i \in 1 .. Len(sticks[c]) : PlacedAt(i, sticks[c], acc[c], m)
  BY DEF OneMemory, Placed, PlacedAt
<1>3. /\ acc'[c] = acc[c] /\ net'[c] = m
      /\ \A d \in Client : Placed(d)'
      /\ \A d \in Client : d # c => FlatOp(d)' = FlatOp(d)
  <2>1. net' = [net EXCEPT ![c] = m] /\ UNCHANGED sticks
    OBVIOUS
  <2> QED BY ONLY <1>1, <1>2, <2>1, TypeInv, OneMemory, c \in Client, ClientPlaced
<1>4. FlatOp(c) = acc[c]
  BY DEF FlatOp
<1>5. FlatOp(c)' = [acc[c] EXCEPT !.done = @ + net[c].size, !.data = @ \o m.data]
  BY <1>3 DEF FlatOp
<1> QED BY <1>3, <1>4, <1>5

\* handle_read: the bytes are those of the one memory.
LEMMA FlatRead ==
    ASSUME TypeInv, Maps, ~corrupted, OneMemory, NEW c \in Client, handle_read(c)
    PROVE  Flat!Transfer(c) /\ OneMemory'
<1> DEFINE L == sticks[KM]
           from == acc[c].addr + acc[c].done
           n == net[c].size
           s == net[c].stick
           offset == net[c].offset
           data == [i \in 1 .. n |-> mem[s][offset + i - 1]]
           m == [net[c] EXCEPT !.at = "response", !.data = data]
           ops == [d \in Client |-> FlatOp(d)]
           visible == [d \in Client |-> Capacity(sticks[d])]
<1>1. net[c].at = "request" /\ acc[c].kind = "read" /\ UNCHANGED <<sticks, alive, mem, acc>>
  BY DEF handle_read
<1>2. net' = [net EXCEPT ![c] = m]
  <2>1. InRange(net[c])
    BY <1>1, InRangeSent
  <2> QED BY <2>1 DEF handle_read
<1>3. net[c] \in NetRecords /\ acc[c].at = "active" /\ net[c].ok /\ L \in Seq(Stick)
      /\ net[c].offset \in Nat
  BY <1>1, AccessFacts DEF AccessInv, TypeInv, ListTypes, Client, NetRecords
<1>4. m.at = "response" /\ m.ok /\ m.stick = s /\ m.offset = offset /\ m.size = n /\ m.data = data
  <2> HIDE DEF data
  <2> QED BY <1>3 DEF NetRecords
<1>5. /\ from \in Nat /\ n \in 1 .. (acc[c].size - acc[c].done) /\ from + n <= Capacity(sticks[c])
  BY <1>1, ChunkHeld
<1>6. PICK k \in 1 .. Len(L) :
         /\ L[k] = s /\ cursor(L)[k] \in Nat /\ cursor(L)[k] + offset = from
         /\ \A x \in from .. from + n - 1 : Holds(L, k, x)
  BY <1>1, ChunkHeld
<1>7. FlatBytes \in Seq(Byte) /\ Len(FlatBytes) = Capacity(L) /\ Capacity(L) \in Nat
  <2>1. \A t \in Stick : mem[t] \in [0 .. Size[t] - 1 -> Byte]
    BY AccessFacts
  <2> QED BY <1>3, <2>1, BytesTyped, FlatBytesIs
<1> HIDE DEF from, n, s, offset
<1>8. n \in Nat /\ n > 0
  <2>1. acc[c].size \in Nat /\ acc[c].done \in Nat
    BY AccessFacts DEF AccessRecords
  <2> QED BY <1>5, <2>1
<1>9. \A i \in 1 .. n : /\ FlatBytes[from + i] = mem[s][offset + i - 1]
                        /\ from + i <= Capacity(L)
  <2> SUFFICES ASSUME NEW i \in 1 .. n
               PROVE  FlatBytes[from + i] = mem[s][offset + i - 1] /\ from + i <= Capacity(L)
    OBVIOUS
  <2>1. PICK x \in Nat : x = from + i - 1 /\ x + 1 = from + i /\ x \in from .. from + n - 1
    BY <1>5, <1>8
  <2>2. Holds(L, k, x)
    BY <1>6, <2>1
  <2>3. x + 1 \in 1 .. Capacity(L) /\ Bytes(L, mem)[x + 1] = mem[L[k]][x - cursor(L)[k]]
    <3>1. L \in Seq(Stick)
      BY <1>3
    <3>2. \A q \in Seq(Stick), a \in Nat : \A bytes, h : Holds(q, h, a) =>
             a + 1 \in 1 .. Capacity(q) /\ Bytes(q, bytes)[a + 1] = bytes[q[h]][a - cursor(q)[h]]
      BY ONLY ByteHeld
    <3> HIDE DEF L
    <3> QED BY ONLY <2>2, <3>1, <3>2, x \in Nat
  <2>4. offset \in Nat
    BY <1>3 DEF offset
  <2>5. x - cursor(L)[k] = offset + i - 1
    <3>1. PICK start \in Nat : start = cursor(L)[k] /\ start + offset = from
      BY <1>6
    <3>2. x - start = offset + i - 1
      <4>1. from \in Nat /\ i \in Nat
        BY <1>5, <1>8
      <4> QED BY ONLY <4>1, <2>1, <2>4, <3>1, start \in Nat, x \in Nat
    <3> QED BY <3>1, <3>2
  <2>6. from + i <= Capacity(L)
    BY <1>7, <2>1, <2>3
  <2> QED BY <1>6, <2>1, <2>3, <2>5, <2>6, FlatBytesIs
<1>10. data = SubSeq(FlatBytes, from + 1, from + n)
  <2> DEFINE b == FlatBytes
             r == SubSeq(b, from + 1, from + n)
  <2>1. from + n <= Len(b)
    BY <1>7, <1>8, <1>9
  <2>2. r \in Seq(Byte) /\ Len(r) = n /\ \A i \in 1 .. n : r[i] = b[from + i]
    BY <1>5, <1>7, <1>8, <2>1, SubSeqPart
  <2> HIDE DEF r
  <2>3. r = [i \in 1 .. n |-> r[i]]
    BY <1>8, <2>2
  <2> QED BY <1>9, <2>2, <2>3 DEF r
<1> HIDE DEF data, m
<1>11. /\ FlatOp(c) = acc[c] /\ FlatOp(c)' = [acc[c] EXCEPT !.done = @ + n, !.data = @ \o data]
       /\ \A d \in Client : d # c => FlatOp(d)' = FlatOp(d)
       /\ \A d \in Client : Placed(d)'
  BY <1>1, <1>2, <1>4, FlatAnswered DEF n, s, offset
<1> DEFINE o == [acc[c] EXCEPT !.done = @ + n, !.data = @ \o data]
<1>12. ops' = [ops EXCEPT ![c] = o] /\ visible' = visible /\ corrupted' = corrupted
  <2> HIDE DEF o
  <2> QED BY <1>1, <1>11, FlatOneOp DEF o
<1>13. ops[c] = acc[c] /\ visible[c] = Capacity(sticks[c])
  BY <1>11
<1>14. ops' = [ops EXCEPT ![c].done = @ + n, ![c].data = @ \o SubSeq(FlatBytes, from + 1, from + n)]
  BY <1>10, <1>12, <1>13
<1>15. FlatBytes' = FlatBytes
  BY <1>1, FlatBytesIs
<1>16. Fresh'
  BY <1>1 DEF OneMemory, Fresh
<1> HIDE DEF ops, visible, o
<1>17. /\ ops[c].at = "active" /\ ops[c].kind = "read" /\ from = ops[c].addr + ops[c].done
       /\ n \in 1 .. (ops[c].size - ops[c].done) /\ from + n <= visible[c]
  BY <1>1, <1>3, <1>5, <1>13 DEF from
<1>18. Flat!Transfer(c)
  BY <1>12, <1>14, <1>15, <1>17 DEF Flat!Transfer, ops, visible
<1> QED BY <1>11, <1>16, <1>18 DEF OneMemory

\* handle_write: the bytes of the one memory that it changes are those of the access.
LEMMA FlatWrite ==
    ASSUME TypeInv, TypeInv', Maps, ~corrupted, OneMemory, NEW c \in Client, handle_write(c)
    PROVE  Flat!Transfer(c) /\ OneMemory'
<1> DEFINE L == sticks[KM]
           addr == acc[c].addr
           done == acc[c].done
           all == acc[c].data
           from == acc[c].addr + acc[c].done
           n == net[c].size
           s == net[c].stick
           offset == net[c].offset
           m == [net[c] EXCEPT !.at = "response", !.ok = InRange(net[c]), !.data = <<>>]
           new == [i \in DOMAIN mem[s] |-> IF i \in offset .. offset + n - 1
                                           THEN net[c].data[i - offset + 1] ELSE mem[s][i]]
           ops == [d \in Client |-> FlatOp(d)]
           visible == [d \in Client |-> Capacity(sticks[d])]
<1>1. net[c].at = "request" /\ acc[c].kind = "write" /\ UNCHANGED <<sticks, alive, acc>>
      /\ net' = [net EXCEPT ![c] = m]
  BY DEF handle_write
<1>2. InRange(net[c]) = TRUE
  BY <1>1, InRangeSent DEF InRange
<1>3. mem' = [mem EXCEPT ![s] = new]
  BY <1>2 DEF handle_write
<1>4. /\ net[c] \in NetRecords /\ AccessInv(c) /\ acc[c] \in AccessRecords
      /\ L \in Seq(Stick) /\ sticks'[KM] = L
  BY <1>1, AccessFacts DEF TypeInv, ListTypes, Client
<1>5. acc[c].at = "active" /\ net[c].ok /\ offset \in Nat /\ s \in Stick /\ Len(all) = acc[c].size
      /\ all \in Seq(Byte) /\ addr \in Nat /\ done \in Nat /\ acc[c].size \in Nat
      /\ net[c].data = SubSeq(all, done + 1, done + n)
  BY <1>1, <1>4 DEF AccessInv, NetRecords, AccessRecords
<1>6. m.at = "response" /\ m.ok /\ m.stick = s /\ m.offset = offset /\ m.size = n /\ m.data = <<>>
  BY <1>2, <1>4 DEF NetRecords
<1>7. /\ from \in Nat /\ n \in 1 .. (acc[c].size - acc[c].done) /\ from + n <= Capacity(sticks[c])
  BY <1>1, ChunkHeld
<1>8. PICK k \in 1 .. Len(L) :
         /\ L[k] = s /\ cursor(L)[k] \in Nat /\ cursor(L)[k] + offset = from
         /\ \A x \in from .. from + n - 1 : Holds(L, k, x)
  BY <1>1, ChunkHeld
<1>9. /\ \A t \in Stick : mem[t] \in [0 .. Size[t] - 1 -> Byte]
      /\ \A t \in Stick : mem'[t] \in [0 .. Size[t] - 1 -> Byte]
      /\ mem = [t \in Stick |-> mem[t]]
  BY DEF TypeInv, Accesses, AccessTypes
<1>10. /\ FlatBytes \in Seq(Byte) /\ Len(FlatBytes) = Capacity(L) /\ Capacity(L) \in Nat
       /\ FlatBytes' = [i \in 1 .. Capacity(L) |-> FlatBytes'[i]]
  <2>1. /\ Capacity(L) \in Nat /\ Bytes(L, mem) \in Seq(Byte) /\ Len(Bytes(L, mem)) = Capacity(L)
    BY <1>4, <1>9, BytesTyped
  <2>2. Bytes(L, mem') = [i \in 1 .. Capacity(L) |-> Bytes(L, mem')[i]]
    BY <1>4, <1>9, BytesTyped
  <2>3. FlatBytes = Bytes(L, mem) /\ FlatBytes' = Bytes(L, mem')
    BY <1>4, FlatBytesIs
  <2> HIDE DEF L
  <2> QED BY <2>1, <2>2, <2>3
<1>11. n \in Nat /\ n > 0 /\ from = addr + done /\ done + n <= Len(all)
  <2>1. PICK size \in Nat, d \in Nat : size = acc[c].size /\ d = done /\ n \in 1 .. (size - d)
    BY <1>5, <1>7
  <2> HIDE DEF n, done, all
  <2>2. n \in Nat /\ n > 0 /\ d + n <= size
    BY ONLY <2>1, size \in Nat, d \in Nat
  <2>3. from = addr + done
    BY DEF done
  <2> QED BY <1>5, <2>1, <2>2, <2>3
<1>12. offset + n <= Size[s] /\ Size[s] \in Nat
  BY <1>1, <1>4, <1>5, SticksAssumption DEF AccessInv
<1>13. mem'[s] = new /\ \A t \in Stick : t # s => mem'[t] = mem[t]
  BY <1>3, <1>5, <1>9
<1> HIDE DEF m
<1>14. /\ FlatOp(c) = acc[c] /\ FlatOp(c)' = [acc[c] EXCEPT !.done = @ + n, !.data = @ \o <<>>]
       /\ \A d \in Client : d # c => FlatOp(d)' = FlatOp(d)
       /\ \A d \in Client : Placed(d)'
  <2>1. /\ FlatOp(c) = acc[c] /\ FlatOp(c)' = [acc[c] EXCEPT !.done = @ + n, !.data = @ \o m.data]
        /\ \A d \in Client : d # c => FlatOp(d)' = FlatOp(d)
        /\ \A d \in Client : Placed(d)'
    BY <1>1, <1>6, FlatAnswered
  <2> QED BY <1>6, <2>1
<1> HIDE DEF L, addr, done, all, from, n, s, offset
\* a byte in the range of the access ...
<1>15. ASSUME NEW i \in from + 1 .. from + n
       PROVE  FlatBytes'[i] = all[i - addr]
  <2>1. PICK x \in Nat : x = i - 1 /\ x + 1 = i /\ x \in from .. from + n - 1 /\ x - from \in 0 .. n - 1
    BY <1>7, <1>11
  <2>2. Holds(L, k, x)
    BY <1>8, <2>1
  <2>3. Bytes(L, mem')[x + 1] = mem'[L[k]][x - cursor(L)[k]]
    BY <1>4, <2>2, ByteHeld
  <2>4. PICK start \in Nat : start = cursor(L)[k] /\ start + offset = from
    BY <1>8
  <2>5. PICK j \in Nat : j = x - from /\ j < n
    BY <1>7, <1>11, <2>1
  <2>6. x - start = offset + j
    <3>1. from \in Nat /\ offset \in Nat
      BY <1>5, <1>7
    <3>2. start + offset = from /\ j = x - from
      BY <2>4, <2>5
    <3> QED BY ONLY <3>1, <3>2, x \in Nat, start \in Nat, j \in Nat
  <2>7. mem'[s][offset + j] = net[c].data[j + 1]
    <3>1. /\ offset + j \in 0 .. Size[s] - 1 /\ offset + j \in offset .. offset + n - 1
          /\ (offset + j) - offset + 1 = j + 1
      <4>1. PICK size \in Nat : size = Size[s] /\ offset + n <= size
        BY <1>12
      <4>2. offset \in Nat /\ n \in Nat
        BY <1>5, <1>11
      <4>3. offset + j \in 0 .. size - 1 /\ offset + j \in offset .. offset + n - 1
            /\ (offset + j) - offset + 1 = j + 1
        <5>1. j < n
          BY <2>5
        <5> QED BY ONLY <4>1, <4>2, <5>1, j \in Nat, size \in Nat
      <4> QED BY <4>1, <4>3
    <3>2. DOMAIN mem[s] = 0 .. Size[s] - 1
      BY <1>5, <1>9
    <3> QED BY <1>13, <3>1, <3>2
  <2>8. net[c].data[j + 1] = all[done + (j + 1)]
    <3>1. j + 1 \in 1 .. n
      BY <1>11, <2>5
    <3>2. \A l \in 1 .. n : SubSeq(all, done + 1, done + n)[l] = all[done + l]
      BY <1>5, <1>11, SubSeqPart
    <3> QED BY <1>5, <3>1, <3>2
  <2>9. i - addr = done + (j + 1)
    <3>1. addr \in Nat /\ done \in Nat /\ from = addr + done /\ i = x + 1
      BY <1>5, <1>11, <2>1
    <3> QED BY ONLY <3>1, <2>5, x \in Nat, j \in Nat
  <2> QED BY <1>4, <1>8, <2>1, <2>3, <2>4, <2>6, <2>7, <2>8, <2>9, FlatBytesIs
\* ... and one outside it.
<1>16. ASSUME NEW i \in 1 .. Capacity(L), i \notin from + 1 .. from + n
       PROVE  FlatBytes'[i] = FlatBytes[i]
  <2>1. PICK x \in Nat, h \in 1 .. Len(L) : x = i - 1 /\ Holds(L, h, x)
    BY <1>4, ByteOf
  <2>2. x + 1 = i /\ x \notin from .. from + n - 1
    BY <1>7, <1>10, <1>11, <1>16, <2>1
  <2>3. /\ Bytes(L, mem)[x + 1] = mem[L[h]][x - cursor(L)[h]]
        /\ Bytes(L, mem')[x + 1] = mem'[L[h]][x - cursor(L)[h]]
    BY <1>4, <2>1, ByteHeld
  <2>4. mem'[L[h]][x - cursor(L)[h]] = mem[L[h]][x - cursor(L)[h]]
    <3>1. CASE L[h] # s
      <4>1. L[h] \in Stick
        BY <1>4
      <4> QED BY <1>13, <3>1, <4>1
    <3>2. CASE L[h] = s
      <4>1. h = k
        BY <1>8, <3>2 DEF Maps, KmList, L
      <4>2. PICK start \in Nat, y \in 0 .. Size[s] - 1 :
               start = cursor(L)[h] /\ start + offset = from /\ y = x - start
        BY <1>4, <1>8, <2>1, <3>2, <4>1, HoldsInList
      <4>3. y \notin offset .. offset + n - 1
        <5>1. from \in Nat /\ offset \in Nat /\ n \in Nat /\ Size[s] \in Nat
          BY <1>5, <1>7, <1>11, <1>12
        <5>2. y \in Nat /\ start + offset = from /\ y = x - start /\ x \notin from .. from + n - 1
          BY <2>2, <4>2, <5>1
        <5> QED BY ONLY <5>1, <5>2, x \in Nat, start \in Nat
      <4>4. DOMAIN mem[s] = 0 .. Size[s] - 1
        BY <1>5, <1>9
      <4>5. mem'[s][y] = mem[s][y]
        BY <1>13, <4>3, <4>4
      <4> QED BY <3>2, <4>2, <4>5
    <3> QED BY <3>1, <3>2
  <2> QED BY <1>4, <2>2, <2>3, <2>4, FlatBytesIs DEF L
<1>17. FlatBytes' = [i \in DOMAIN FlatBytes |->
                        IF i \in from + 1 .. from + n THEN all[i - addr] ELSE FlatBytes[i]]
  <2>1. DOMAIN FlatBytes = 1 .. Capacity(L)
    BY <1>10
  <2>2. \A i \in 1 .. Capacity(L) :
           FlatBytes'[i] = IF i \in from + 1 .. from + n THEN all[i - addr] ELSE FlatBytes[i]
    BY <1>15, <1>16
  <2> QED BY <1>10, <2>1, <2>2
<1> DEFINE o == [acc[c] EXCEPT !.done = @ + n]
<1>18. FlatOp(c)' = o
  <2>1. all \o <<>> = all
    BY <1>5
  <2> QED BY <1>4, <1>14, <2>1 DEF AccessRecords, all
<1>19. ops' = [ops EXCEPT ![c] = o] /\ visible' = visible /\ corrupted' = corrupted
  <2> HIDE DEF o
  <2> QED BY <1>1, <1>14, <1>18, FlatOneOp
<1>20. ops[c] = acc[c] /\ visible[c] = Capacity(sticks[c])
  BY <1>14
<1>21. ops' = [ops EXCEPT ![c].done = @ + n]
  BY <1>19, <1>20
<1> HIDE DEF ops, visible, o
<1>22. /\ ops[c].at = "active" /\ ops[c].kind = "write" /\ from = ops[c].addr + ops[c].done
       /\ n \in 1 .. (ops[c].size - ops[c].done) /\ from + n <= visible[c]
       /\ addr = ops[c].addr /\ all = ops[c].data
  BY <1>1, <1>5, <1>7, <1>20 DEF from, addr, all
<1>23. Flat!Transfer(c)
  <2>1. FlatBytes' = [i \in DOMAIN FlatBytes |->
                         IF i \in from + 1 .. from + n THEN ops[c].data[i - ops[c].addr] ELSE FlatBytes[i]]
    BY <1>17, <1>22
  <2> DEFINE start == ops[c].addr + ops[c].done
  <2>2. \E x \in 1 .. (ops[c].size - ops[c].done) :
           /\ start + x <= visible[c]
           /\ ops' = [ops EXCEPT ![c].done = @ + x]
           /\ FlatBytes' = [i \in DOMAIN FlatBytes |->
                 IF i \in start + 1 .. start + x THEN ops[c].data[i - ops[c].addr] ELSE FlatBytes[i]]
    BY <1>21, <1>22, <2>1
  <2> QED BY <1>19, <1>22, <2>2 DEF Flat!Transfer, ops, visible
<1>24. Fresh'
  <2> SUFFICES ASSUME NEW t \in Stick, \A i \in 1 .. Len(L) : L[i] # t, NEW i \in 0 .. Size[t] - 1
               PROVE  mem'[t][i] = 0
    BY <1>4 DEF Fresh, L
  <2>1. t # s
    BY <1>8
  <2> QED BY <1>13, <2>1 DEF OneMemory, Fresh, L
<1> QED BY <1>14, <1>23, <1>24 DEF OneMemory

\* At first there is no memory.
LEMMA FlatInit == Init => Flat!Init
<1> SUFFICES ASSUME Init PROVE Flat!Init
  OBVIOUS
<1>1. KM \in Client /\ sticks = [c \in Client |-> <<>>] /\ sticks[KM] = <<>>
  BY DEF Init, Client
<1>2. FlatBytes = <<>>
  <2>1. Capacity(sticks[KM]) = 0
    BY <1>1, CapacityEmpty
  <2> QED BY <2>1 DEF FlatBytes
<1>3. [c \in Client |-> Capacity(sticks[c])] = [c \in Client |-> 0]
  <2>1. \A c \in Client : Capacity(sticks[c]) = 0
    BY <1>1, CapacityEmpty
  <2> QED BY <2>1
<1>4. [c \in Client |-> FlatOp(c)] = [c \in Client |-> Flat!Nothing]
  <2>1. \A c \in Client : FlatOp(c) = Flat!Nothing
    BY DEF Init, FlatOp, NoMessage, NoAccess, Flat!Nothing
  <2> QED BY <2>1
<1>5. corrupted = FALSE
  BY DEF Init, corrupted
<1> QED BY <1>2, <1>3, <1>4, <1>5 DEF Flat!Init

\* A step of the one memory, or one that it does not show.
FlatOrHidden == (Flat!Next \/ UNCHANGED Flat!vars) /\ OneMemory'

\* Until a Memory Stick is lost, every step is one of the one memory or shows nothing.
LEMMA FlatStep ==
    ASSUME SerialJoin, PromptCredentials, TypeInv, TypeInv', Maps, Maps', OneMemory, [Next]_vars, ~corrupted, ~corrupted'
    PROVE  FlatOrHidden
<1> USE SticksAssumption
<1>0. /\ \A c \in Client : Flat!See(c) \/ Flat!Begin(c) \/ Flat!Transfer(c) \/ Flat!Finish(c) => Flat!Next
      /\ Flat!Grow => Flat!Next
      /\ KM \in Client /\ \A c \in Cpu : c \in Client /\ c # KM
  BY DEF Flat!Next, Client
<1>1. ASSUME NEW s \in Stick,
             memory_stick_protocol(s) \/ StickStops(s) \/ KmLosesStick(s) \/ ReportCorruption(s)
      PROVE  FlatOrHidden
  <2>1. CASE ListStick(s)
    BY <1>0, <2>1, FlatListStick DEF FlatOrHidden
  <2>2. CASE ReceiveSize(s) \/ ListCredentials(s) \/ update_cpu_list(s) \/ send_credentials(s)
             \/ ReportCorruption(s)
    <3>1. UNCHANGED <<sticks, alive, mem, acc, net>>
      BY <2>2 DEF ReceiveSize, ListCredentials, update_cpu_list, send_credentials,
          ReportCorruption
    <3> QED BY <3>1, FlatJoins DEF FlatOrHidden
  <2>3. CASE StickStops(s)
    BY <2>3 DEF StickStops, corrupted, TypeInv, Accesses, AccessTypes
  <2>4. CASE KmLosesStick(s)
    BY <2>4 DEF KmLosesStick, corrupted
  <2> QED BY <1>1, <2>1, <2>2, <2>3, <2>4 DEF memory_stick_protocol, join_goes_on
<1>2. ASSUME NEW c \in Cpu, ListCpu(c) \/ send_credentials_list(c) PROVE FlatOrHidden
  <2>1. UNCHANGED <<sticks, alive, mem, acc, net>>
    BY <1>2 DEF ListCpu, send_credentials_list
  <2> QED BY <2>1, FlatJoins DEF FlatOrHidden
<1>3. ASSUME NEW c \in Cpu, connect_kernel_memory(c) \/ ReceiveUpdate(c) PROVE FlatOrHidden
  BY <1>0, <1>3, FlatConnects DEF FlatOrHidden
<1>4. ASSUME NEW c \in Cpu, CpuBegin(c) PROVE FlatOrHidden
  <2>1. PICK g \in SegmentTable[c], offset \in 0 .. segment_max_size - 1, size \in 1 .. MaxSize :
           LET addr == mmu_translate(SegmentTable[c], g.id * segment_max_size + offset, size)
           IN  addr # Fault /\ Begin(c, addr, size)
    BY <1>4 DEF CpuBegin
  <2>2. g \in [id : Nat, base : Nat, size : Nat]
    OBVIOUS
  <2>3. PICK logical \in Nat : logical = g.id * segment_max_size + offset
    <3>1. PICK id \in Nat : id = g.id
      BY <2>2
    <3>2. id * segment_max_size + offset \in Nat
      OBVIOUS
    <3> QED BY <3>1, <3>2
  <2>4. PICK addr : addr = mmu_translate(SegmentTable[c], logical, size)
    OBVIOUS
  <2>5. addr # Fault /\ Begin(c, addr, size)
    BY <2>1, <2>3, <2>4
  <2>6. PICK h \in SegmentTable[c] : /\ addr \in h.base .. h.base + h.size - 1
                                     /\ addr + size <= h.base + h.size
                                     /\ h.base \in Nat /\ h.size \in Nat
    BY <2>4, <2>5, Translated
  <2>7. addr \in Nat
    BY <2>6
  <2>8. Flat!Begin(c) /\ OneMemory'
    BY <1>0, <2>5, <2>6, <2>7, FlatBegin
  <2> QED BY <1>0, <2>8 DEF FlatOrHidden
<1>5. ASSUME NEW c \in Cpu, CpuResponse(c) PROVE FlatOrHidden
  BY <1>0, <1>5, FlatResponse DEF CpuResponse, FlatOrHidden
<1>6. ASSUME NEW c \in Cpu, NEW s \in Stick, CpuLosesStick(c, s) PROVE FlatOrHidden
  BY <1>6 DEF CpuLosesStick, corrupted
<1>7. CASE KmBegin
  <2>1. PICK addr \in KmRegion, size \in 1 .. MaxSize :
           addr .. addr + size - 1 \subseteq KmRegion /\ Begin(KM, addr, size)
    BY <1>7 DEF KmBegin
  <2>2. addr \in Nat
    OBVIOUS
  <2>3. Flat!Begin(KM) /\ OneMemory'
    BY <1>0, <2>1, <2>2, FlatBegin
  <2> QED BY <1>0, <2>3 DEF FlatOrHidden
<1>8. CASE KmResponse
  <2>1. net[KM].at = "response" /\ UNCHANGED <<sticks, alive, mem, acc>>
    BY <1>8 DEF KmResponse
  <2>2. net[KM].stick \in Range(sticks[KM])
    <3>1. PICK i \in 1 .. Len(sticks[KM]) : sticks[KM][i] = net[KM].stick
      BY <1>0, <2>1 DEF OneMemory, Placed, PlacedAt
    <3>2. sticks[KM] \in Seq(Stick)
      BY <1>0 DEF TypeInv, ListTypes
    <3> QED BY <3>1, <3>2 DEF Range
  <2>3. net' = [net EXCEPT ![KM].at = "posted"]
    BY <1>8, <2>2, AnswerRead DEF KmResponse
  <2> QED BY <1>0, <2>1, <2>3, FlatResponse DEF FlatOrHidden
<1>9. ASSUME NEW c \in Client, memory_access(c) PROVE FlatOrHidden
  BY <1>0, <1>9, FlatNextChunk, FlatTaken DEF memory_access, FlatOrHidden
<1>10. ASSUME NEW c \in Client, handle_read(c) \/ handle_write(c) PROVE FlatOrHidden
  BY <1>0, <1>10, FlatRead, FlatWrite DEF FlatOrHidden
<1>11. CASE UNCHANGED vars
  <2>1. UNCHANGED <<sticks, alive, mem, acc, net>>
    BY <1>11 DEF vars
  <2> QED BY <2>1, FlatJoins DEF FlatOrHidden
<1>12. CASE \E s \in Stick :
               memory_stick_protocol(s) \/ StickStops(s) \/ KmLosesStick(s) \/ ReportCorruption(s)
  BY ONLY <1>1, <1>12
<1>13. CASE \E c \in Cpu : ListCpu(c) \/ send_credentials_list(c) \/ connect_kernel_memory(c)
                           \/ ReceiveUpdate(c) \/ CpuBegin(c) \/ CpuResponse(c)
                           \/ \E s \in Stick : CpuLosesStick(c, s)
  BY ONLY <1>2, <1>3, <1>4, <1>5, <1>6, <1>13
<1>14. CASE \E c \in Client : memory_access(c) \/ handle_read(c) \/ handle_write(c)
  BY ONLY <1>9, <1>10, <1>14
<1>15. FlatOrHidden
  BY ONLY <1>7, <1>8, <1>11, <1>12, <1>13, <1>14, [Next]_vars DEF Next
<1> QED BY <1>15

\* The inductive invariant behind ImplementsFlat, with TypeInv and MapsInv.
OneMemoryInv == corrupted \/ OneMemory

\* mmu_translate, memory_read, memory_write, handle_read, handle_write: for any Memory
\* Sticks, CPUs, segments and sizes, the Memory Sticks together are the one memory of
\* FlatMemory until one is lost, if one Memory Stick or CPU joins at a time and no
\* answer overtakes the credentials.
THEOREM FlatTheorem ==
    ASSUME SerialJoin, PromptCredentials
    PROVE  Spec => ImplementsFlat
<1>1. Init => Flat!Init /\ OneMemoryInv
  BY FlatInit, OneMemoryInit DEF OneMemoryInv
<1>2. TypeInv /\ TypeInv' /\ MapsInv /\ MapsInv' /\ OneMemoryInv /\ [Next]_vars
      => [Flat!Next]_(Flat!vars) /\ OneMemoryInv'
  <2> SUFFICES ASSUME TypeInv, TypeInv', MapsInv, MapsInv', OneMemoryInv, [Next]_vars
               PROVE  (Flat!Next \/ UNCHANGED Flat!vars) /\ OneMemoryInv'
    OBVIOUS
  <2>1. CASE corrupted'
    BY <2>1 DEF Flat!Next, Flat!Corrupt, OneMemoryInv
  <2>2. CASE ~corrupted'
    <3>1. ~corrupted
      BY <2>2, CorruptedStays
    <3>2. Maps /\ Maps' /\ OneMemory
      BY <2>2, <3>1 DEF MapsInv, OneMemoryInv
    <3> QED BY <2>2, <3>1, <3>2, FlatStep DEF OneMemoryInv, FlatOrHidden
  <2> QED BY <2>1, <2>2
<1> QED BY <1>1, <1>2, TypeInvTheorem, MapsInvTheorem, PTL DEF Spec, ImplementsFlat,
    Flat!Spec
=============================================================================
